------------------------------ MODULE PageLoad ------------------------------
(***************************************************************************)
(* One fetch task of the browser engine, from the tab it opens to the one  *)
(* it closes: _do_fetch (engines/browser.py) with the document capture and *)
(* the waiting loops of utils/browser/_core.py.  BrowserEngine knows this  *)
(* task by its beginning and its end only.                                 *)
(*                                                                         *)
(* The other side is Chrome's tab, which goes its own way between any two  *)
(* awaits: responses arrive and are reported to the capture, documents     *)
(* replace each other (a challenge that is passed loads the page), scripts *)
(* rewrite what is shown.  A step of the task is what it does up to the    *)
(* next answer of Chrome.  Sleeps and time limits are not timed: a loop    *)
(* may run out of its time whenever it waits, and does so after MaxRounds. *)
(***************************************************************************)
EXTENDS Naturals, Sequences

CONSTANTS StallShort, StallLong,  \* 3 and 7 in _smart_wait
          Statuses,               \* the statuses a site answers with
          MaxRounds,              \* bound: rounds a loop makes in its time
          MaxResponses            \* bound: responses that arrive at the tab

ASSUME PageAssumption ==
    /\ StallShort \in 1..StallLong /\ StallLong \in Nat
    /\ {200, 403} \subseteq Statuses /\ Statuses \subseteq 200..599
    /\ MaxRounds \in Nat \ {0} /\ MaxResponses \in Nat

VARIABLES request,    \* what is fetched
          pc, job,    \* where _do_fetch is, and its local variables
          tab,        \* "none", "open" or "closed"
          shown,      \* the document the tab shows
          responses,  \* the responses of the URL so far
          capture,    \* the _MainDocumentCapture
          answer      \* what _do_fetch returns

pageVars == <<request, pc, job, tab, shown, responses, capture, answer>>

\* What the tab shows: a page; a challenge shell; one with an error title ("access
\* denied", which is taken for a challenge too); bytes that are known for an image,
\* and others; nothing yet; Chrome's own error page.
Html == {"page", "shell", "denied"}
Bytes == {"image", "data"}
Faces == Html \union Bytes \union {"blank", "failed"}

\* The scripts the loops evaluate.  A page that is not complete may be empty still,
\* which is taken for a challenge.
ErrorTitle(face) == face = "denied"
Challenge(face) == face \in {"shell", "denied", "blank"}
Empty(face) == face \in Html
Viewer(face) == face \in Bytes
Ready(face) == face # "blank"  \* it may be, when it is complete and has content
Shell(face) == face \in {"shell", "blank"}  \* no error title

\* A page; an answer that sends nowhere, as one with a Location is followed by Chrome
\* and not reported
Success(status) == status \in 200..299
Redirect(status) == status \in 300..399
Blocked(status) == status \in {403, 503}

\* A GET of a page, a GET of a URL that looks like a file, a HEAD, a POST
Requests == {"page", "file", "head", "post"}

\* Before the try block; in it until Chrome is sent to the URL; from then on until
\* its answer is read; and what is read besides
Setup == {"create", "attach", "viewport", "cookies", "headers"}
Outset == {"intercept", "listen"}
Visit == {"post", "posted", "inpage", "navigate", "land", "interact", "status",
          "title", "judge", "doubt", "begin", "loaded", "clear", "round",
          "length", "stalled", "body", "asked", "resolve", "binary", "html"}
Extras == {"snapshot", "jar"}
Loading == Outset \union Visit \union Extras
NoCapture == [on |-> FALSE, id |-> 0, mime |-> 0, status |-> 0]

NoJob == [status |-> 0, waited |-> FALSE, challenge |-> FALSE,
          check |-> "first", rounds |-> 0, stalled |-> 0, asked |-> 0,
          net |-> 0, mime |-> 0,
          stuck |-> FALSE,    \* history: only a shell since "doubt"
          ranOut |-> FALSE,   \* history: the wait ran out of time
          before |-> 0,       \* history: responses when "asked"
          heard |-> {},       \* history: statuses of all there were
          early |-> FALSE,    \* history: a success came before any redirect
          left |-> "try"]     \* history: where an exception came from

NoAnswer == [from |-> "none", body |-> 0, mime |-> 0, status |-> 0]

Jobs == [status : Nat, waited : BOOLEAN, challenge : BOOLEAN,
         check : {"first", "poll", "again"}, rounds : 0..MaxRounds,
         stalled : Nat, asked : Nat, net : Nat, mime : Nat,
         stuck : BOOLEAN, ranOut : BOOLEAN, before : Nat,
         heard : SUBSET Statuses, early : BOOLEAN, left : Setup \union {"try"}]

PageTypeOK ==
    /\ request \in Requests
    /\ pc \in Setup \union Loading \union {"close", "over"}
    /\ job \in Jobs
    /\ tab \in {"none", "open", "closed"}
    /\ shown \in Faces
    /\ responses \in Seq([status : Statuses, kind : {"html"} \union Bytes])
    /\ capture \in [on : BOOLEAN, id : 0..Len(responses),
                    mime : 0..Len(responses), status : {0} \union Statuses]
    /\ capture.id = 0 <=> capture.status = 0
    /\ answer \in [from : {"none", "capture", "fetch", "html", "head", "post"},
                   body : Nat, mime : Nat, status : Nat]

PageInit ==
    /\ request \in Requests
    /\ pc = "create"
    /\ job = NoJob
    /\ tab = "none"
    /\ shown = "blank" /\ responses = <<>>
    /\ capture = NoCapture
    /\ answer = NoAnswer

-----------------------------------------------------------------------------
\* The capture: _on_response
ReplacesHigher(current, new) == current <= 0 \/ new >= current
Replaces(current, new) ==
    \/ current <= 0
    \/ current >= 400 /\ Success(new)
    \/ ~Success(current) /\ new >= current

HeardKeepsId(cap, id, r) ==
    IF cap.on /\ Replaces(cap.status, r.status)
    THEN [cap EXCEPT !.id = IF @ = 0 THEN id ELSE @, !.mime = id,
                     !.status = r.status]
    ELSE cap
HeardNoId(cap, id, r) ==
    IF cap.on /\ Replaces(cap.status, r.status)
    THEN [cap EXCEPT !.mime = id, !.status = r.status]
    ELSE cap
Heard(cap, id, r) ==
    IF cap.on /\ Replaces(cap.status, r.status)
    THEN [cap EXCEPT !.id = id, !.mime = id, !.status = r.status]
    ELSE cap

Stopped(cap) == [cap EXCEPT !.on = FALSE]

chromeVars == <<shown, responses>>

\* Chrome's tab, from when it is sent somewhere to when the answer is read.  A
\* response of the requested URL arrives, of a type the capture looks at ...
AtWork == pc \in Visit
Respond ==
    /\ AtWork /\ Len(responses) < MaxResponses
    /\ \E status \in Statuses, kind \in {"html"} \union Bytes :
        LET r == [status |-> status, kind |-> kind]
        IN  /\ responses' = Append(responses, r)
            /\ capture' = Heard(capture, Len(responses'), r)
    /\ UNCHANGED <<request, pc, job, tab, shown, answer>>

\* ... or the tab shows something else: the document of a response (which may have
\* been a frame's, or be dropped, and then is not shown), one it was redirected to,
\* what a script makes of a document, or an error.
Show ==
    /\ AtWork /\ shown' \in Faces \ {shown, "blank"}
    /\ job' = [job EXCEPT !.stuck = @ /\ Shell(shown')]
    /\ UNCHANGED <<request, pc, tab, responses, capture, answer>>

Chrome == Respond \/ Show

-----------------------------------------------------------------------------
Goto(label) == pc' = label

\* A step from one label to another that changes local variables only
Go(from, to, new) ==
    /\ pc = from /\ Goto(to) /\ job' = new
    /\ UNCHANGED <<request, tab, chromeVars, capture, answer>>

\* _attach_tab: from here on there is a tab.
CreateTab ==
    /\ pc = "create" /\ tab' = "open" /\ Goto("attach")
    /\ UNCHANGED <<request, job, chromeVars, capture, answer>>
AttachTab == Go("attach", "viewport", job)

\* The tab gets the screen of its profile.  A request that is more than a URL has
\* its cookies and headers set on the tab; one without any goes on.
Try == IF request = "post" THEN "post" ELSE "intercept"
Viewport ==
    \/ Go("viewport", "cookies", job)
    \/ request # "post" /\ Go("viewport", Try, job)
Cookies == Go("cookies", "headers", job)
Headers == Go("headers", Try, job)

\* POST: the URL is loaded, and then fetched from within the page.
PostContext == Go("post", "posted", job)
PostCheck == shown # "failed" /\ Go("posted", "inpage", job)
PostFetch ==
    /\ pc = "inpage" /\ Goto("snapshot")
    /\ \E status \in Statuses :
        answer' = [NoAnswer EXCEPT !.from = "post", !.status = status]
    /\ UNCHANGED <<request, job, tab, chromeVars, capture>>

\* The static assets of the page are refused from now on, or not; capture.start;
\* page.get and page.wait; the check for Chrome's error page; a mouse that moves
Intercept == Go("intercept", "listen", job)
Listen ==
    /\ pc = "listen" /\ Goto("navigate")
    /\ capture' = [capture EXCEPT !.on = TRUE]
    /\ UNCHANGED <<request, job, tab, chromeVars, answer>>
Navigate == Go("navigate", "land", job)
Land ==
    /\ shown # "failed"
    /\ Go("land", IF request = "head" THEN "status" ELSE "interact", job)
Interact == Go("interact", "status", job)

-----------------------------------------------------------------------------
\* _wait_for_status, before and after the wait: a status, an error title, or time
\* is up.  What Navigation Timing says of the document that happens to be shown need
\* not be the status of any response of the URL.
HasStatus(status) == [job EXCEPT !.status = status, !.rounds = 0]
AfterStatus == IF request = "head" THEN "snapshot"
               ELSE IF job.waited THEN "body" ELSE "judge"

NextRoundUncounted(k) == k
NextRound(k) == [k EXCEPT !.rounds = @ + 1]
TimeIsLeft == job.rounds < MaxRounds

ReadStatus ==
    \/ \E status \in Statuses : Go("status", AfterStatus, HasStatus(status))
    \/ Go("status", "title", job)
ReadTitle ==
    IF ErrorTitle(shown) THEN Go("title", AfterStatus, HasStatus(403))
                         ELSE TimeIsLeft /\ Go("title", "status", NextRound(job))
StatusTimeout ==
    \E from \in {"status", "title"} : Go(from, AfterStatus, HasStatus(200))

\* _should_wait_for_page: the title, then whether it is a challenge
Judge == Go("judge", IF ErrorTitle(shown) THEN "body" ELSE "doubt", job)
Doubt ==
    \E seen \in BOOLEAN :
        LET challenge == seen \/ Blocked(job.status)
        IN  /\ IF seen THEN Challenge(shown) \/ Empty(shown) ELSE ~Challenge(shown)
            /\ Go("doubt",
                  IF challenge \/ Success(job.status) THEN "begin" ELSE "body",
                  [job EXCEPT !.challenge = challenge, !.stuck = Shell(shown)])

-----------------------------------------------------------------------------
\* _smart_wait: nothing to wait for on an error title; else _page_settled asks
\* whether the page is loaded and then whether it is a challenge, and again after
\* a while if it was not so at first.
Checking(k, check) == [k EXCEPT !.check = check]
Waited(k) == [k EXCEPT !.waited = TRUE, !.rounds = 0, !.stalled = 0]

BeginWait ==
    IF ErrorTitle(shown) THEN Go("begin", "status", Waited(job))
                         ELSE Go("begin", "loaded", Checking(job, "first"))

NotSettled(from) ==
    Go(from, IF job.check = "first" THEN "round" ELSE "length", job)
Settled(from) ==
    IF job.check = "poll" THEN Go(from, "loaded", Checking(job, "again"))
                          ELSE Go(from, "status", Waited(job))

\* Content is there, or is not yet, when a document is complete.
Loaded ==
    \/ (Ready(shown) \/ Viewer(shown)) /\ Go("loaded", "clear", job)
    \/ ~Viewer(shown) /\ NotSettled("loaded")
Clear ==
    \/ (Challenge(shown) \/ Empty(shown)) /\ NotSettled("clear")
    \/ ~Challenge(shown) /\ Settled("clear")

Round ==
    /\ TimeIsLeft
    /\ IF ErrorTitle(shown)
       THEN Go("round", "status", Waited(job))
       ELSE Go("round", "loaded", Checking(NextRound(job), "poll"))

\* The length of the text has grown or not.
Length ==
    \/ Go("length", "round", [job EXCEPT !.stalled = 0])
    \/ Go("length", "stalled", [job EXCEPT !.stalled =
                                    IF @ < StallLong THEN @ + 1 ELSE @])

\* The loop stops for a text that does not grow, but not for a challenge.
StallEndsAnyway(face) ==
    job.stalled >= StallShort \/ (~job.challenge /\ job.stalled >= StallLong)
StallEnds(face) ==
    /\ ~Challenge(face)
    /\ \/ job.stalled >= StallShort  \* and enough of it, or a viewer
       \/ ~job.challenge /\ job.stalled >= StallLong
Stalled ==
    \/ StallEnds(shown) /\ Go("stalled", "status", Waited(job))
    \/ (Challenge(shown) \/ Empty(shown) \/ job.challenge \/ job.stalled < StallLong)
       /\ Go("stalled", "round", job)  \* the text may be too short

WaitTimeout ==
    \/ \E from \in {"round", "length", "stalled"} :
        Go(from, "status", [Waited(job) EXCEPT !.ranOut = TRUE])
    \/ \E from \in {"loaded", "clear"} :
        /\ job.check # "first"
        /\ Go(from, "status", [Waited(job) EXCEPT !.ranOut = TRUE])

-----------------------------------------------------------------------------
\* get_body: the id is read before Chrome is asked, type and status after.
AskBody ==
    /\ pc = "body"
    /\ IF capture.id = 0
       THEN Go("body", "resolve", job)
       ELSE Go("body", "asked",
               [job EXCEPT !.asked = capture.id, !.before = Len(responses)])

Given == {responses[i].status : i \in 1..Len(responses)}
EarlySuccess ==
    \E i \in 1..Len(responses) :
        /\ Success(responses[i].status)
        /\ \A j \in 1..(i - 1) : ~Redirect(responses[j].status)

GotBody ==
    \E given \in BOOLEAN :
        Go("asked", "resolve",
           [job EXCEPT !.net = IF given THEN job.asked ELSE 0,
                       !.mime = IF given THEN capture.mime ELSE 0,
                       !.status = capture.status,
                       !.heard = Given, !.early = EarlySuccess])

\* Local variables that are of no more use
Forget(k) == [NoJob EXCEPT !.stuck = k.stuck, !.ranOut = k.ranOut,
                           !.before = k.before, !.heard = k.heard, !.early = k.early]
Answers(from, to, a) ==
    /\ pc = from /\ Goto(to) /\ answer' = a /\ job' = Forget(job)
    /\ UNCHANGED <<request, tab, chromeVars, capture>>

\* The bytes Chrome got, if it and the type of the last response say so; ...
KnownBytes(r) == r.kind = "image"
NetAnswer == [from |-> "capture", body |-> job.net, mime |-> job.mime,
              status |-> job.status]
Resolve ==
    IF job.net # 0 /\ \E id \in {job.net, job.mime} : KnownBytes(responses[id])
    THEN Answers("resolve", "snapshot", NetAnswer)
    ELSE Go("resolve", IF request = "file" THEN "binary" ELSE "html", job)

\* ... for the URL of a file, those of a fetch in the page, or what Chrome got if
\* it is no markup; ...
FetchBinary ==
    \/ \E status \in Statuses :
        Answers("binary", "snapshot", [NoAnswer EXCEPT !.from = "fetch", !.status = status])
    \/ IF job.net # 0 /\ responses[job.net].kind = "data"
       THEN Answers("binary", "snapshot", NetAnswer)
       ELSE Go("binary", "html", job)

\* ... and else what the tab shows.
ReadHtml ==
    Answers("html", "snapshot", [NoAnswer EXCEPT !.from = "html", !.status = job.status])

-----------------------------------------------------------------------------
\* A snapshot, if one is asked for, and the cookies of the tab, neither of which
\* fails; then the capture is stopped and the tab is closed.
Snapshot == Go("snapshot", "jar", job)
Collect ==
    /\ pc = "jar" /\ Goto("close")
    /\ capture' = Stopped(capture)
    /\ answer' = IF request = "head"
                 THEN [NoAnswer EXCEPT !.from = "head", !.status = job.status]
                 ELSE answer
    /\ UNCHANGED <<request, job, tab, chromeVars>>
CloseTab ==
    /\ pc = "close" /\ tab' = "closed" /\ Goto("over")
    /\ shown' = "blank" /\ responses' = <<>>
    /\ capture' = NoCapture
    /\ UNCHANGED <<request, job, answer>>

\* Any await may raise: Chrome refuses or is gone, its error page is found, the
\* task is cancelled (maybe when Chrome is making the tab already).
FailedAnyhow(label) == "over"
Failed(label) == IF label \in Setup THEN "over" ELSE "close"
Raise ==
    /\ pc \in Setup \union Loading
    /\ Goto(Failed(pc))
    /\ job' = [NoJob EXCEPT !.left = IF pc \in Setup THEN pc ELSE "try"]
    /\ capture' = Stopped(capture)
    /\ answer' = NoAnswer
    /\ tab' \in IF pc = "create" THEN {"none", "open"} ELSE {tab}
    /\ UNCHANGED <<request, chromeVars>>

Dress == CreateTab \/ AttachTab \/ Viewport \/ Cookies \/ Headers
Post == PostContext \/ PostCheck \/ PostFetch
Navigation == Intercept \/ Listen \/ Navigate \/ Land \/ Interact
AwaitStatus == ReadStatus \/ ReadTitle \/ StatusTimeout
SmartWait == \/ Judge \/ Doubt \/ BeginWait \/ Loaded \/ Clear \/ Round
             \/ Length \/ Stalled \/ WaitTimeout
Body == AskBody \/ GotBody \/ Resolve \/ FetchBinary \/ ReadHtml
Fetch == \/ Dress \/ Post \/ Navigation \/ AwaitStatus \/ SmartWait \/ Body
         \/ Snapshot \/ Collect \/ CloseTab \/ Raise

PageNext == Chrome \/ Fetch
PageSpec == PageInit /\ [][PageNext]_pageVars

\* Chrome answers the task's commands or the engine's time limit cancels it;
\* nothing is assumed of the site.
FairPageSpec == PageSpec /\ WF_pageVars(Fetch)

-----------------------------------------------------------------------------
\* "Open a CDP target, perform the request, then close the tab" (_do_fetch): the
\* tab is closed however the fetch ends, but for an exception before the try
\* block, which leaves it open.
NoTabLeft ==
    pc = "over" /\ tab = "open" =>
        job.left \in Setup /\ answer = NoAnswer

\* A challenge that the site never lifts is not taken for the page: if the tab
\* showed nothing else since the loop began to wait, its markup is only returned
\* when the time for the challenge was up.
ChallengeWaitedOut ==
    pc = "over" /\ answer.from = "html" /\ job.stuck => job.ranOut

\* The status of a page is one the site has given for its URL, whatever the loops have
\* guessed from what the tab showed; a success, if one came before any redirect, in
\* whatever order it came with blocks (tests/test_browser_challenge.py:31); and a
\* redirect only if no block came.  A success after a redirect is not heard: 307 and
\* then 200 is reported as 307.
StatusAsHeard ==
    pc = "over" /\ answer.from \in {"capture", "html"} /\ job.heard # {} =>
        /\ answer.status \in job.heard
        /\ job.early => Success(answer.status)
        /\ Redirect(answer.status) => \A status \in job.heard : status < 400

\* The body and the type of an answer are those of one response, unless another
\* arrived while Chrome was asked for the body.
OneResponse ==
    pc = "over" /\ answer.from = "capture" =>
        answer.body = answer.mime \/ answer.mime > job.before

\* What is left to the task at most, in steps of its own: the way to the page, the
\* first wait for a status, the rounds of _smart_wait (up to seven awaits each, as a
\* page that has settled is looked at again), the second wait for a status, and
\* what follows it.
ToGo == [over |-> 0, close |-> 1, jar |-> 2, snapshot |-> 3, html |-> 4,
         binary |-> 5, resolve |-> 6, asked |-> 7, body |-> 8]
InRound == [round |-> 1, stalled |-> 2, length |-> 3, clear |-> 4, loaded |-> 5]
OnTheWay == [interact |-> 1, land |-> 2, navigate |-> 3, inpage |-> 3, listen |-> 4,
             posted |-> 4, intercept |-> 5, post |-> 5, headers |-> 6, cookies |-> 7,
             viewport |-> 8, attach |-> 9, create |-> 10]

StepsFrom(label, k) ==
    LET left == MaxRounds - k.rounds
        settled == 10 + 2 * MaxRounds
        judged == settled + 10 + 7 * MaxRounds
        status == (IF k.waited THEN 8 ELSE judged) + 2 * left
    IN  CASE label \in DOMAIN ToGo -> ToGo[label]
          [] label = "title" -> status + 1
          [] label = "status" -> status + 2
          [] label \in DOMAIN InRound ->
                settled + 7 * left + InRound[label] + (IF k.check = "poll" THEN 2 ELSE 0)
          [] label = "begin" -> judged - 2
          [] label = "doubt" -> judged - 1
          [] label = "judge" -> judged
          [] label \in DOMAIN OnTheWay -> judged + 2 + 2 * MaxRounds + OnTheWay[label]

StepsLeft == StepsFrom(pc, job)

\* Every step of the task brings its end nearer, and nothing Chrome shows or the
\* site sends puts it off: no loop begins again for a document that has changed.
FetchAdvances ==
    [][/\ Fetch => StepsLeft' \in 0..(StepsLeft - 1)
       /\ Chrome => StepsLeft' = StepsLeft]_pageVars

\* Whatever the site sends, the fetch comes to its end: no loop waits for ever.
FetchEnds == <>(pc = "over")
=============================================================================
