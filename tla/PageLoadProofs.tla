--------------------------- MODULE PageLoadProofs ---------------------------
(***************************************************************************)
(* Theorems about a fetch task, for any limits of its loops and any number *)
(* of responses.                                                           *)
(*                                                                         *)
(*   PageTypeCorrect: PageTypeOK.                                          *)
(*   TabIsClosed: NoTabLeft.                                               *)
(*   StatusIsHeard: StatusAsHeard.                                         *)
(*   BodyIsOneResponse: OneResponse.                                       *)
(*   ChallengeIsWaitedOut: ChallengeWaitedOut.                             *)
(*   FetchAlwaysAdvances: FetchAdvances.                                   *)
(***************************************************************************)
EXTENDS PageLoad, TLAPS

\* Where the capture is on; where the body has been asked for; where _smart_wait is.
Sent == Visit \ {"post", "posted", "inpage"}
Told == {"resolve", "binary", "html"}
Waiting == {"begin", "loaded", "clear", "round", "length", "stalled"}
Arriving == Setup \union Outset
              \union {"post", "posted", "inpage", "navigate", "land", "interact"}
After == Extras \union {"close", "over"}

\* A tab from the first answer of Chrome on; no answer before there is one.
TabInv ==
    /\ pc = "create" => tab = "none"
    /\ pc \in (Setup \ {"create"}) \union Loading \union {"close"} => tab = "open"
    /\ pc \in Setup \union Outset \union Visit => answer = NoAnswer
    /\ NoTabLeft

\* What the capture holds of the statuses heard, if a success came early or not
Best(s, heard, early) ==
    /\ s \in heard
    /\ early => Success(s)
    /\ Redirect(s) => \A h \in heard : h < 400

\* The capture is on while the page loads and has the best status given so far.
CaptureInv ==
    /\ pc \in Setup \union Outset => responses = <<>> /\ capture = NoCapture
    /\ pc \in Sent =>
        /\ capture.on
        /\ capture.status = 0 => responses = <<>>
        /\ capture.status # 0 => Best(capture.status, Given, EarlySuccess)
    /\ capture.id = capture.mime

\* What get_body() has read of it
AskInv ==
    /\ pc \in Arriving \union Waiting \union {"status", "title", "judge", "doubt", "body"}
        => job.heard = {} /\ job.net = 0
    /\ pc = "asked" =>
        /\ capture.id # 0
        /\ job.heard = {} /\ job.net = 0
        /\ job.before <= Len(responses)
        /\ capture.id = job.asked \/ capture.id > job.before
    /\ pc \in Told =>
        /\ job.net # 0 => job.net = job.mime \/ job.mime > job.before
        /\ job.heard # {} => Best(job.status, job.heard, job.early)

\* No loop but one that ran out of time is left while only a shell has been seen.
WaitInv ==
    /\ pc \in Arriving \union {"judge", "doubt"} => ~job.waited /\ ~job.stuck
    /\ pc \in {"status", "title"} /\ job.stuck => job.waited /\ job.ranOut
    /\ pc \in {"body", "asked"} \union Told /\ job.stuck => job.ranOut
    /\ pc \in Visit /\ job.stuck => Shell(shown)

\* What the answer was made of
AnswerInv ==
    pc \in After =>
        /\ answer.from = "capture" =>
            answer.body = answer.mime \/ answer.mime > job.before
        /\ answer.from \in {"capture", "html"} /\ job.heard # {} =>
            Best(answer.status, job.heard, job.early)
        /\ answer.from = "html" /\ job.stuck => job.ranOut

PageInv == PageTypeOK /\ TabInv /\ CaptureInv /\ AskInv /\ WaitInv /\ AnswerInv

-----------------------------------------------------------------------------
LEMMA PageStart == PageInit => PageInv
<1> SUFFICES ASSUME PageInit PROVE PageInv
    OBVIOUS
<1> USE DEF PageInit, NoJob, NoAnswer, NoCapture
<1>1. PageTypeOK
  <2>1. job \in Jobs
    BY PageAssumption DEF Jobs
  <2>2. responses \in Seq([status : Statuses, kind : {"html"} \union Bytes])
    OBVIOUS
  <2>3. /\ capture \in [on : BOOLEAN, id : 0..Len(responses),
                        mime : 0..Len(responses), status : {0} \union Statuses]
        /\ capture.id = 0 <=> capture.status = 0
    OBVIOUS
  <2> QED BY <2>1, <2>2, <2>3 DEF PageTypeOK, Setup, Faces, Html, Bytes
<1>2. TabInv
  BY DEF TabInv, NoTabLeft, Setup, Loading, Outset, Visit, Extras
<1>3. CaptureInv
  BY DEF CaptureInv, Sent, Visit
<1>4. AskInv /\ WaitInv /\ AnswerInv
  BY DEF AskInv, WaitInv, AnswerInv, Told, Arriving, After, Extras, Visit
<1> QED BY <1>1, <1>2, <1>3, <1>4 DEF PageInv

-----------------------------------------------------------------------------
LEMMA StatusRange == \A s \in Statuses : s \in Nat /\ s # 0 /\ s \in 200..599
<1>1. \A s \in Statuses : s \in 200..599
  BY PageAssumption
<1>2. \A s \in 200..599 : s \in Nat /\ s # 0
  OBVIOUS
<1> QED BY <1>1, <1>2

\* The steps of the loops keep the local variables typed ...
LEMMA Typed ==
    ASSUME NEW k \in Jobs
    PROVE  /\ \A n \in Nat : [k EXCEPT !.status = n] \in Jobs
           /\ \A n \in Nat : [k EXCEPT !.stalled = n] \in Jobs
           /\ \A n \in Nat : [k EXCEPT !.before = n] \in Jobs
           /\ \A n \in Nat : [k EXCEPT !.asked = n] \in Jobs
           /\ \A n \in Nat : [k EXCEPT !.net = n] \in Jobs
           /\ \A n \in Nat : [k EXCEPT !.mime = n] \in Jobs
           /\ \A b \in BOOLEAN : [k EXCEPT !.challenge = b] \in Jobs
           /\ \A b \in BOOLEAN : [k EXCEPT !.stuck = b] \in Jobs
           /\ \A b \in BOOLEAN : [k EXCEPT !.ranOut = b] \in Jobs
           /\ \A h \in SUBSET Statuses : [k EXCEPT !.heard = h] \in Jobs
           /\ \A b \in BOOLEAN : [k EXCEPT !.early = b] \in Jobs
           /\ [k EXCEPT !.waited = TRUE] \in Jobs
           /\ [k EXCEPT !.rounds = 0] \in Jobs
<1>1. \A n \in Nat : [k EXCEPT !.status = n] \in Jobs
  BY DEF Jobs
<1>2. \A n \in Nat : [k EXCEPT !.stalled = n] \in Jobs
  BY DEF Jobs
<1>3. \A n \in Nat : [k EXCEPT !.before = n] \in Jobs
  BY DEF Jobs
<1>4. \A b \in BOOLEAN : [k EXCEPT !.stuck = b] \in Jobs
  BY DEF Jobs
<1>5. \A b \in BOOLEAN : [k EXCEPT !.ranOut = b] \in Jobs
  BY DEF Jobs
<1>6. \A h \in SUBSET Statuses : [k EXCEPT !.heard = h] \in Jobs
  BY DEF Jobs
<1>7. [k EXCEPT !.waited = TRUE] \in Jobs
  BY DEF Jobs
<1>8. [k EXCEPT !.rounds = 0] \in Jobs
  BY PageAssumption DEF Jobs
<1>9. \A n \in Nat : [k EXCEPT !.asked = n] \in Jobs
  BY DEF Jobs
<1>10. \A n \in Nat : [k EXCEPT !.net = n] \in Jobs
  BY DEF Jobs
<1>11. \A n \in Nat : [k EXCEPT !.mime = n] \in Jobs
  BY DEF Jobs
<1>12. \A b \in BOOLEAN : [k EXCEPT !.challenge = b] \in Jobs
  BY DEF Jobs
<1>13. \A b \in BOOLEAN : [k EXCEPT !.early = b] \in Jobs
  BY DEF Jobs
<1> QED BY <1>1, <1>2, <1>3, <1>4, <1>5, <1>6, <1>7, <1>8, <1>9, <1>10,
           <1>11, <1>12, <1>13

LEMMA JobTyped ==
    ASSUME job \in Jobs
    PROVE  /\ NoJob \in Jobs
           /\ \A s \in Statuses : HasStatus(s) \in Jobs
           /\ TimeIsLeft => NextRound(job) \in Jobs
           /\ \A c \in {"first", "poll", "again"} : Checking(job, c) \in Jobs
           /\ TimeIsLeft => Checking(NextRound(job), "poll") \in Jobs
           /\ Waited(job) \in Jobs
           /\ [Waited(job) EXCEPT !.ranOut = TRUE] \in Jobs
           /\ Forget(job) \in Jobs
<1>1. NoJob \in Jobs
  BY PageAssumption DEF NoJob, Jobs
<1>2. ASSUME NEW s \in Statuses PROVE HasStatus(s) \in Jobs
  <2> DEFINE k == [job EXCEPT !.status = s]
  <2>0. s \in Nat
    BY PageAssumption
  <2>1. k \in Jobs
    BY <2>0, Typed
  <2> HIDE DEF k
  <2>2. [k EXCEPT !.rounds = 0] \in Jobs
    BY <2>1, Typed
  <2> QED BY <2>2 DEF HasStatus, k
<1>3. TimeIsLeft => NextRound(job) \in Jobs
  BY PageAssumption DEF NextRound, TimeIsLeft, Jobs
<1>4. \A c \in {"first", "poll", "again"} : Checking(job, c) \in Jobs
  BY DEF Checking, Jobs
<1>5. TimeIsLeft => Checking(NextRound(job), "poll") \in Jobs
  <2> DEFINE k == NextRound(job)
  <2>1. TimeIsLeft => k \in Jobs
    BY <1>3
  <2> HIDE DEF k
  <2>2. k \in Jobs => Checking(k, "poll") \in Jobs
    BY DEF Checking, Jobs
  <2> QED BY <2>1, <2>2 DEF k
<1>6. Waited(job) \in Jobs
  <2> DEFINE k == [job EXCEPT !.waited = TRUE]
             l == [k EXCEPT !.rounds = 0]
  <2>1. k \in Jobs
    BY Typed
  <2> HIDE DEF k
  <2>2. l \in Jobs
    BY <2>1, Typed
  <2> HIDE DEF l
  <2>3. [l EXCEPT !.stalled = 0] \in Jobs
    BY <2>2, Typed
  <2> QED BY <2>3 DEF Waited, l, k
<1>7. [Waited(job) EXCEPT !.ranOut = TRUE] \in Jobs
  BY <1>6, Typed
<1>8. Forget(job) \in Jobs
  <2>1. /\ job.stuck \in BOOLEAN /\ job.ranOut \in BOOLEAN
        /\ job.before \in Nat /\ job.heard \in SUBSET Statuses
        /\ job.early \in BOOLEAN
    BY DEF Jobs
  <2> DEFINE k == [NoJob EXCEPT !.stuck = job.stuck]
             l == [k EXCEPT !.ranOut = job.ranOut]
             m == [l EXCEPT !.before = job.before]
             o == [m EXCEPT !.heard = job.heard]
  <2>2. k \in Jobs
    BY <1>1, <2>1, Typed
  <2> HIDE DEF k
  <2>3. l \in Jobs
    BY <2>1, <2>2, Typed
  <2> HIDE DEF l
  <2>4. m \in Jobs
    BY <2>1, <2>3, Typed
  <2> HIDE DEF m
  <2>5. o \in Jobs
    BY <2>1, <2>4, Typed
  <2> HIDE DEF o
  <2>6. [o EXCEPT !.early = job.early] \in Jobs
    BY <2>1, <2>5, Typed
  <2> QED BY <2>6 DEF Forget, o, m, l, k
<1> QED BY <1>1, <1>2, <1>3, <1>4, <1>5, <1>6, <1>7, <1>8

\* ... so that a step that changes nothing else does.
Places == Setup \union Loading \union {"close", "over"}

LEMMA GoTyped ==
    ASSUME PageTypeOK, NEW from, NEW to \in Places, NEW new \in Jobs,
           Go(from, to, new)
    PROVE  PageTypeOK'
  BY DEF PageTypeOK, Go, Goto, chromeVars, Places

\* What the steps of the capture keep typed
LEMMA HeardTyped ==
    ASSUME NEW n \in Nat, NEW m \in Nat, n <= m, m # 0,
           NEW cap \in [on : BOOLEAN, id : 0..n, mime : 0..n,
                        status : {0} \union Statuses],
           cap.id = 0 <=> cap.status = 0,
           NEW r \in [status : Statuses, kind : {"html"} \union Bytes]
    PROVE  /\ Heard(cap, m, r) \in [on : BOOLEAN, id : 0..m, mime : 0..m,
                                    status : {0} \union Statuses]
           /\ Heard(cap, m, r).id = 0 <=> Heard(cap, m, r).status = 0
<1>1. CASE cap.on /\ Replaces(cap.status, r.status)
  <2>1. Heard(cap, m, r) = [on |-> cap.on, id |-> m, mime |-> m, status |-> r.status]
    BY <1>1 DEF Heard
  <2> QED BY <2>1, PageAssumption
<1>2. CASE ~(cap.on /\ Replaces(cap.status, r.status))
  <2>1. Heard(cap, m, r) = cap
    BY <1>2 DEF Heard
  <2> QED BY <2>1
<1> QED BY <1>1, <1>2

LEMMA RespondTyped == PageTypeOK /\ Respond => PageTypeOK'
<1> SUFFICES ASSUME PageTypeOK, Respond PROVE PageTypeOK'
    OBVIOUS
<1> DEFINE R == [status : Statuses, kind : {"html"} \union Bytes]
           n == Len(responses)
<1>1. PICK status \in Statuses, kind \in {"html"} \union Bytes :
        LET r == [status |-> status, kind |-> kind]
        IN  /\ responses' = Append(responses, r)
            /\ capture' = Heard(capture, Len(responses'), r)
  BY DEF Respond
<1> DEFINE r == [status |-> status, kind |-> kind]
<1>2. r \in R /\ responses \in Seq(R) /\ n \in Nat
  BY DEF PageTypeOK
<1>3. responses' \in Seq(R) /\ Len(responses') = n + 1
  BY <1>1, <1>2
<1>4. /\ capture \in [on : BOOLEAN, id : 0..n, mime : 0..n, status : {0} \union Statuses]
      /\ capture.id = 0 <=> capture.status = 0
  BY DEF PageTypeOK
<1>5. capture' = Heard(capture, n + 1, r)
  BY <1>1, <1>3
<1> HIDE DEF n, r, R
<1>6. /\ Heard(capture, n + 1, r) \in [on : BOOLEAN, id : 0..n + 1, mime : 0..n + 1,
                                       status : {0} \union Statuses]
      /\ Heard(capture, n + 1, r).id = 0 <=> Heard(capture, n + 1, r).status = 0
  <2>1. n + 1 \in Nat /\ n <= n + 1 /\ n + 1 # 0
    BY <1>2
  <2> QED BY <2>1, <1>2, <1>4, HeardTyped DEF R
<1>7. UNCHANGED <<request, pc, job, tab, shown, answer>>
  BY DEF Respond
<1> QED BY <1>3, <1>5, <1>6, <1>7 DEF PageTypeOK, R

\* The steps from one label to another
LEMMA MovesTyped ==
    ASSUME PageTypeOK,
           \/ AttachTab \/ Viewport \/ Cookies \/ Headers \/ PostContext \/ PostCheck
           \/ Intercept \/ Navigate \/ Land \/ Interact \/ AwaitStatus \/ SmartWait
           \/ Snapshot
    PROVE  PageTypeOK'
<1> USE DEF Places, Setup, Loading, Outset, Visit, Extras
<1>0. job \in Jobs
  BY DEF PageTypeOK
<1>1. CASE AttachTab \/ Viewport \/ Cookies \/ Headers
  BY <1>0, <1>1, GoTyped DEF AttachTab, Viewport, Cookies, Headers, Try
<1>2. CASE PostContext \/ PostCheck
  BY <1>0, <1>2, GoTyped DEF PostContext, PostCheck
<1>3. CASE Intercept \/ Navigate \/ Land \/ Interact \/ Snapshot
  BY <1>0, <1>3, GoTyped DEF Intercept, Navigate, Land, Interact, Snapshot
<1>4. CASE AwaitStatus
  <2>1. AfterStatus \in Places
    BY DEF AfterStatus
  <2>2. \A st \in Statuses : HasStatus(st) \in Jobs
    BY <1>0, JobTyped
  <2>3. HasStatus(403) \in Jobs /\ HasStatus(200) \in Jobs
    BY <2>2, PageAssumption
  <2>4. TimeIsLeft => NextRound(job) \in Jobs
    BY <1>0, JobTyped
  <2>5. CASE ReadStatus
    BY <1>0, <2>1, <2>2, <2>5, GoTyped DEF ReadStatus
  <2>6. CASE ReadTitle
    BY <2>1, <2>3, <2>4, <2>6, GoTyped DEF ReadTitle
  <2>7. CASE StatusTimeout
    BY <2>1, <2>3, <2>7, GoTyped DEF StatusTimeout
  <2> QED BY <1>4, <2>5, <2>6, <2>7 DEF AwaitStatus
<1>5. CASE SmartWait
  <2>1. Waited(job) \in Jobs /\ [Waited(job) EXCEPT !.ranOut = TRUE] \in Jobs
    BY <1>0, JobTyped
  <2>2. \A c \in {"first", "poll", "again"} : Checking(job, c) \in Jobs
    BY <1>0, JobTyped
  <2>3. TimeIsLeft => Checking(NextRound(job), "poll") \in Jobs
    BY <1>0, JobTyped
  <2>4. CASE Judge
    BY <1>0, <2>4, GoTyped DEF Judge
  <2>5. CASE Doubt
    <3>1. PICK seen \in BOOLEAN :
            LET challenge == seen \/ Blocked(job.status)
            IN  Go("doubt", IF challenge \/ Success(job.status) THEN "begin" ELSE "body",
                   [job EXCEPT !.challenge = challenge, !.stuck = Shell(shown)])
      BY <2>5 DEF Doubt
    <3> DEFINE challenge == seen \/ Blocked(job.status)
               k == [job EXCEPT !.challenge = challenge]
               l == [k EXCEPT !.stuck = Shell(shown)]
    <3>2. challenge \in BOOLEAN /\ Shell(shown) \in BOOLEAN
      BY DEF Shell, Blocked
    <3>3. k \in Jobs
      BY <1>0, <3>2, Typed
    <3> HIDE DEF k
    <3>4. l \in Jobs
      BY <3>2, <3>3, Typed
    <3>5. [job EXCEPT !.challenge = challenge, !.stuck = Shell(shown)] \in Jobs
      BY <3>4 DEF k
    <3> QED BY <3>1, <3>5, GoTyped
  <2>6. CASE BeginWait
    BY <2>1, <2>2, <2>6, GoTyped DEF BeginWait
  <2>7. CASE Loaded
    BY <1>0, <2>7, GoTyped DEF Loaded, NotSettled
  <2>8. CASE Clear
    BY <1>0, <2>1, <2>2, <2>8, GoTyped DEF Clear, Settled, NotSettled
  <2>9. CASE Round
    BY <2>1, <2>3, <2>9, GoTyped DEF Round
  <2>10. CASE Length
    <3>1. job.stalled \in Nat
      BY <1>0 DEF Jobs
    <3>2. (IF job.stalled < StallLong THEN job.stalled + 1 ELSE job.stalled) \in Nat
      BY <3>1
    <3>3. /\ [job EXCEPT !.stalled = 0] \in Jobs
          /\ [job EXCEPT !.stalled = IF @ < StallLong THEN @ + 1 ELSE @] \in Jobs
      BY <1>0, <3>2, Typed
    <3> QED BY <2>10, <3>3, GoTyped DEF Length
  <2>11. CASE Stalled
    BY <1>0, <2>1, <2>11, GoTyped DEF Stalled
  <2>12. CASE WaitTimeout
    BY <2>1, <2>12, GoTyped DEF WaitTimeout
  <2> QED BY <1>5, <2>4, <2>5, <2>6, <2>7, <2>8, <2>9, <2>10, <2>11, <2>12
          DEF SmartWait
<1> QED BY <1>1, <1>2, <1>3, <1>4, <1>5

\* An answer that is made of typed local variables
LEMMA AnswersTyped ==
    ASSUME PageTypeOK, NEW from, NEW a, Answers(from, "snapshot", a),
           a \in [from : {"none", "capture", "fetch", "html", "head", "post"},
                  body : Nat, mime : Nat, status : Nat]
    PROVE  PageTypeOK'
<1>1. Forget(job) \in Jobs
  BY JobTyped DEF PageTypeOK
<1> QED BY <1>1 DEF PageTypeOK, Answers, Goto, chromeVars, Loading, Extras

LEMMA BodyTyped == PageTypeOK /\ Body => PageTypeOK'
<1> SUFFICES ASSUME PageTypeOK, Body PROVE PageTypeOK'
    OBVIOUS
<1> USE DEF Places, Setup, Loading, Outset, Visit, Extras
<1>0. job \in Jobs
  BY DEF PageTypeOK
<1>1. /\ job.net \in Nat /\ job.mime \in Nat /\ job.status \in Nat /\ job.asked \in Nat
  BY <1>0 DEF Jobs
<1>2. Len(responses) \in Nat /\ capture.id \in Nat /\ capture.mime \in Nat /\ capture.status \in Nat
  BY StatusRange DEF PageTypeOK
<1>3. CASE AskBody
  <2> DEFINE k == [job EXCEPT !.asked = capture.id]
             l == [k EXCEPT !.before = Len(responses)]
  <2>1. k \in Jobs
    BY <1>0, <1>2, Typed
  <2> HIDE DEF k
  <2>2. l \in Jobs
    BY <1>2, <2>1, Typed
  <2>3. [job EXCEPT !.asked = capture.id, !.before = Len(responses)] \in Jobs
    BY <2>2 DEF k
  <2> QED BY <1>0, <1>3, <2>3, GoTyped DEF AskBody
<1>4. CASE GotBody
  <2> DEFINE new(given) == [job EXCEPT !.net = IF given THEN job.asked ELSE 0,
                       !.mime = IF given THEN capture.mime ELSE 0,
                       !.status = capture.status,
                       !.heard = Given, !.early = EarlySuccess]
  <2>1. Given \in SUBSET Statuses
    <3> DEFINE R == [status : Statuses, kind : {"html"} \union Bytes]
    <3>1. responses \in Seq(R)
      BY DEF PageTypeOK
    <3>2. \A r \in R : r.status \in Statuses
      OBVIOUS
    <3> HIDE DEF R
    <3>3. \A i \in 1..Len(responses) : responses[i] \in R
      BY <3>1
    <3> QED BY <3>2, <3>3 DEF Given
  <2>2. PICK given \in BOOLEAN : Go("asked", "resolve", new(given))
    BY <1>4 DEF GotBody
  <2> DEFINE k == [job EXCEPT !.net = IF given THEN job.asked ELSE 0]
             l == [k EXCEPT !.mime = IF given THEN capture.mime ELSE 0]
             m == [l EXCEPT !.status = capture.status]
             o == [m EXCEPT !.heard = Given]
  <2>3. k \in Jobs
    BY <1>0, <1>1, Typed
  <2> HIDE DEF k
  <2>4. l \in Jobs
    BY <1>2, <2>3, Typed
  <2> HIDE DEF l
  <2>5. m \in Jobs
    BY <1>2, <2>4, Typed
  <2> HIDE DEF m
  <2>6. o \in Jobs
    BY <2>1, <2>5, Typed
  <2> HIDE DEF o
  <2>7. EarlySuccess \in BOOLEAN
    BY DEF EarlySuccess
  <2>8. new(given) = [o EXCEPT !.early = EarlySuccess]
    BY DEF o, m, l, k
  <2>9. new(given) \in Jobs
    BY <2>6, <2>7, <2>8, Typed
  <2> HIDE DEF new
  <2> QED BY <2>2, <2>9, GoTyped
<1>5. CASE Resolve
  BY <1>0, <1>1, <1>5, GoTyped, AnswersTyped DEF Resolve, NetAnswer
<1>6. CASE FetchBinary
  <2>1. ASSUME NEW status \in Statuses,
               Answers("binary", "snapshot",
                       [NoAnswer EXCEPT !.from = "fetch", !.status = status])
        PROVE  PageTypeOK'
    <3>1. status \in Nat
      BY PageAssumption
    <3>2. [NoAnswer EXCEPT !.from = "fetch", !.status = status] \in
            [from : {"none", "capture", "fetch", "html", "head", "post"},
             body : Nat, mime : Nat, status : Nat]
      BY <3>1 DEF NoAnswer
    <3> QED BY <2>1, <3>2, AnswersTyped
  <2>2. ASSUME Answers("binary", "snapshot", NetAnswer) PROVE PageTypeOK'
    BY <1>1, <2>2, AnswersTyped DEF NetAnswer
  <2>3. ASSUME Go("binary", "html", job) PROVE PageTypeOK'
    BY <1>0, <2>3, GoTyped
  <2> QED BY <1>6, <2>1, <2>2, <2>3 DEF FetchBinary
<1>7. CASE ReadHtml
  BY <1>1, <1>7, AnswersTyped DEF ReadHtml, NoAnswer
<1> QED BY <1>3, <1>4, <1>5, <1>6, <1>7 DEF Body

LEMMA TypeStep == PageTypeOK /\ [PageNext]_pageVars => PageTypeOK'
<1> SUFFICES ASSUME PageTypeOK, [PageNext]_pageVars PROVE PageTypeOK'
    OBVIOUS
<1>0. job \in Jobs /\ job.status \in Nat /\ job.stuck \in BOOLEAN
  BY DEF PageTypeOK, Jobs
<1> DEFINE Labels == Setup \union Loading \union {"close", "over"}
<1>1. CASE Respond
  BY <1>1, RespondTyped
<1>2. CASE Show
  <2>1. [job EXCEPT !.stuck = @ /\ Shell(shown')] \in Jobs
    BY <1>0, Typed DEF Shell
  <2> QED BY <1>2, <2>1 DEF Show, PageTypeOK, Faces
<1>3. CASE CreateTab
  BY <1>3 DEF CreateTab, PageTypeOK, Goto, chromeVars, Setup
<1>4. CASE PostFetch
  <2>1. PICK status \in Statuses :
            answer' = [NoAnswer EXCEPT !.from = "post", !.status = status]
    BY <1>4 DEF PostFetch
  <2>2. answer' = [from |-> "post", body |-> 0, mime |-> 0, status |-> status]
    BY <2>1 DEF NoAnswer
  <2>3. status \in Nat
    BY PageAssumption
  <2> QED BY <1>4, <2>2, <2>3
          DEF PostFetch, PageTypeOK, Goto, chromeVars, Loading, Extras
<1>5. CASE Listen
  BY <1>5 DEF Listen, PageTypeOK, Goto, chromeVars, Loading, Visit
<1>6. CASE Collect
  <2>1. answer' \in [from : {"none", "capture", "fetch", "html", "head", "post"},
                      body : Nat, mime : Nat, status : Nat]
    BY <1>0, <1>6 DEF Collect, PageTypeOK, NoAnswer
  <2> QED BY <1>6, <2>1 DEF Collect, Stopped, PageTypeOK, Goto, chromeVars
<1>7. CASE CloseTab
  <2>1. /\ 0 \in 0..Len(<<>>)
        /\ <<>> \in Seq([status : Statuses, kind : {"html"} \union Bytes])
    OBVIOUS
  <2> QED BY <1>7, <2>1 DEF CloseTab, PageTypeOK, Goto, NoCapture, Faces
<1>8. CASE Raise
  <2>1. NoJob \in Jobs
    BY <1>0, JobTyped
  <2>2. [NoJob EXCEPT !.left = IF pc \in Setup THEN pc ELSE "try"] \in Jobs
    BY <2>1 DEF Jobs
  <2>3. Failed(pc) \in Labels
    BY DEF Failed
  <2>4. tab' \in {"none", "open", "closed"}
    BY <1>8 DEF Raise, PageTypeOK
  <2>5. NoAnswer \in [from : {"none", "capture", "fetch", "html", "head", "post"},
                      body : Nat, mime : Nat, status : Nat]
    BY DEF NoAnswer
  <2> QED BY <1>8, <2>2, <2>3, <2>4, <2>5 DEF Raise, PageTypeOK, Goto, chromeVars, Stopped
<1>9. CASE UNCHANGED pageVars
  BY <1>9 DEF pageVars, PageTypeOK
<1> QED BY <1>1, <1>2, <1>3, <1>4, <1>5, <1>6, <1>7, <1>8, <1>9, MovesTyped, BodyTyped
        DEF PageNext, Chrome, Fetch, Dress, Post, Navigation

-----------------------------------------------------------------------------
\* The tab
LEMMA TabStep == PageTypeOK /\ TabInv /\ [PageNext]_pageVars => TabInv'
<1> SUFFICES ASSUME PageTypeOK, TabInv, [PageNext]_pageVars PROVE TabInv'
    OBVIOUS
<1> USE DEF TabInv, NoTabLeft, Goto, chromeVars, Setup, Loading, Outset, Visit, Extras
<1>1. CASE Chrome
  BY <1>1 DEF Chrome, Respond, Show, AtWork
<1>2. CASE Dress
  <2>1. CASE CreateTab
    BY <2>1 DEF CreateTab
  <2>2. CASE AttachTab \/ Cookies
    BY <2>2 DEF AttachTab, Cookies, Go
  <2>3. CASE Viewport \/ Headers
    BY <2>3 DEF Viewport, Headers, Go, Try
  <2> QED BY <1>2, <2>1, <2>2, <2>3 DEF Dress
<1>3. CASE Post
  BY <1>3 DEF Post, PostContext, PostCheck, PostFetch, Go
<1>4. CASE Navigation
  <2>1. CASE Listen
    BY <2>1 DEF Listen
  <2>2. CASE ~Listen
    BY <1>4, <2>2 DEF Navigation, Intercept, Navigate, Land, Interact, Go
  <2> QED BY <2>1, <2>2
<1>5. CASE AwaitStatus
  BY <1>5 DEF AwaitStatus, ReadStatus, ReadTitle, StatusTimeout, AfterStatus, Go
<1>6. CASE SmartWait
  <2>1. CASE Judge \/ Doubt \/ BeginWait
    BY <2>1 DEF Judge, Doubt, BeginWait, Go
  <2>2. CASE Loaded \/ Clear
    BY <2>2 DEF Loaded, Clear, NotSettled, Settled, Go
  <2>3. CASE Round \/ Length \/ Stalled
    BY <2>3 DEF Round, Length, Stalled, Go
  <2>4. CASE WaitTimeout
    BY <2>4 DEF WaitTimeout, Go
  <2> QED BY <1>6, <2>1, <2>2, <2>3, <2>4 DEF SmartWait
<1>7. CASE Body
  <2>1. CASE AskBody \/ GotBody
    BY <2>1 DEF AskBody, GotBody, Go
  <2>2. CASE Resolve \/ FetchBinary \/ ReadHtml
    BY <2>2 DEF Resolve, FetchBinary, ReadHtml, Answers, Go
  <2> QED BY <1>7, <2>1, <2>2 DEF Body
<1>8. CASE Snapshot
  BY <1>8 DEF Snapshot, Go
<1>9. CASE Collect
  BY <1>9 DEF Collect
<1>10. CASE CloseTab
  BY <1>10 DEF CloseTab
<1>11. CASE Raise
  <2>1. job \in Jobs /\ NoJob \in Jobs
    BY JobTyped DEF PageTypeOK
  <2>2. job'.left = IF pc \in Setup THEN pc ELSE "try"
    BY <1>11 DEF Raise, NoJob
  <2> QED BY <1>11, <2>2 DEF Raise, Failed
<1>12. CASE UNCHANGED pageVars
  BY <1>12 DEF pageVars
<1> QED BY <1>1, <1>2, <1>3, <1>4, <1>5, <1>6, <1>7, <1>8, <1>9, <1>10, <1>11, <1>12
        DEF PageNext, Fetch

\* The capture: what it holds stays so when another response comes in ...
LEMMA BestOfMore ==
    ASSUME NEW s \in Statuses, NEW r \in Statuses, NEW heard \in SUBSET Statuses,
           NEW early, NEW earlier, Best(s, heard, early),
           earlier => early \/ (Success(r) /\ \A h \in heard : ~Redirect(h))
    PROVE  Best(IF Replaces(s, r) THEN r ELSE s, heard \union {r}, earlier)
<1> DEFINE t == IF Replaces(s, r) THEN r ELSE s
<1>0. s \in 200..599 /\ r \in 200..599 /\ \A h \in heard : h \in 200..599
  BY PageAssumption
<1>1. s \in heard /\ t \in heard \union {r}
  BY DEF Best
<1>2. Success(s) => t = s
  BY <1>0 DEF Replaces, Success
<1>3. Success(r) /\ ~Redirect(s) => Success(t)
  BY <1>0 DEF Replaces, Success, Redirect
<1>4. Redirect(t) => r < 400 /\ \A h \in heard : h < 400
  <2>1. CASE Redirect(s)
    <3>1. \A h \in heard : h < 400
      BY <2>1 DEF Best
    <3>2. r >= 400 => t = r /\ ~Redirect(r)
      BY <1>0, <2>1 DEF Replaces, Success, Redirect
    <3>3. r < 400 \/ r >= 400
      BY <1>0
    <3> QED BY <3>1, <3>2, <3>3
  <2>2. CASE ~Redirect(s)
    <3>1. ~Redirect(t)
      BY <1>0, <2>2 DEF Replaces, Success, Redirect
    <3> QED BY <3>1
  <2> QED BY <2>1, <2>2
<1>5. earlier => Success(t)
  BY <1>1, <1>2, <1>3 DEF Best
<1> HIDE DEF t
<1>6. Best(t, heard \union {r}, earlier)
  BY <1>1, <1>4, <1>5 DEF Best
<1> QED BY <1>6 DEF t

LEMMA GivenByOneMore ==
    ASSUME NEW r \in [status : Statuses, kind : {"html"} \union Bytes],
           responses \in Seq([status : Statuses, kind : {"html"} \union Bytes]),
           responses' = Append(responses, r)
    PROVE  /\ Given' = Given \union {r.status}
           /\ Given \in SUBSET Statuses
           /\ responses = <<>> => Given = {}
           /\ EarlySuccess' => \/ EarlySuccess
                               \/ Success(r.status) /\ \A h \in Given : ~Redirect(h)
<1> DEFINE R == [status : Statuses, kind : {"html"} \union Bytes]
           n == Len(responses)
<1>1. \A q \in R : q.status \in Statuses
  OBVIOUS
<1>0. r \in R /\ responses \in Seq(R) /\ responses' = Append(responses, r)
  OBVIOUS
<1> HIDE DEF R
<1>2. /\ n \in Nat /\ Len(responses') = n + 1
      /\ \A i \in 1..n : responses[i] \in R /\ responses'[i] = responses[i]
      /\ responses'[n + 1] = r
  BY <1>0
<1>3. Given \in SUBSET Statuses
  BY <1>1, <1>2 DEF Given
<1>4. Given' = {responses'[i].status : i \in 1..n + 1}
  BY <1>2 DEF Given
<1>5. 1..n + 1 = (1..n) \union {n + 1}
  BY <1>2
<1>6. Given' = Given \union {r.status}
  BY <1>2, <1>4, <1>5 DEF Given
<1>7. responses = <<>> => Given = {}
  BY DEF Given
<1>8. EarlySuccess' => \/ EarlySuccess
                       \/ Success(r.status) /\ \A h \in Given : ~Redirect(h)
  <2> SUFFICES ASSUME EarlySuccess', ~EarlySuccess
               PROVE  Success(r.status) /\ \A h \in Given : ~Redirect(h)
      OBVIOUS
  <2>1. PICK i \in 1..n + 1 :
          /\ Success(responses'[i].status)
          /\ \A j \in 1..(i - 1) : ~Redirect(responses'[j].status)
    BY <1>2 DEF EarlySuccess
  <2>2. i = n + 1
    <3>1. SUFFICES ASSUME i \in 1..n PROVE FALSE
      BY <1>5
    <3>2. responses[i].status = responses'[i].status
      BY <1>2, <3>1
    <3>3. \A j \in 1..(i - 1) : j \in 1..n
      BY <1>2, <3>1
    <3>4. \A j \in 1..(i - 1) : ~Redirect(responses[j].status)
      BY <1>2, <2>1, <3>3
    <3> QED BY <2>1, <3>1, <3>2, <3>4 DEF EarlySuccess
  <2>3. \A j \in 1..n : ~Redirect(responses'[j].status)
    BY <1>2, <2>1, <2>2
  <2>4. \A j \in 1..n : ~Redirect(responses[j].status)
    BY <1>2, <2>3
  <2> QED BY <1>2, <2>1, <2>2, <2>4 DEF Given
<1> QED BY <1>3, <1>6, <1>7, <1>8

\* ... and so the capture has the best there is.
LEMMA CaptureStep == PageTypeOK /\ CaptureInv /\ [PageNext]_pageVars => CaptureInv'
<1> SUFFICES ASSUME PageTypeOK, CaptureInv, [PageNext]_pageVars PROVE CaptureInv'
    OBVIOUS
<1> USE DEF Goto, chromeVars, Sent
<1>1. CASE Respond
  <2> DEFINE R == [status : Statuses, kind : {"html"} \union Bytes]
  <2>1. PICK r \in R :
          /\ responses' = Append(responses, r)
          /\ capture' = Heard(capture, Len(responses'), r)
    <3>1. PICK status \in Statuses, kind \in {"html"} \union Bytes :
            LET r == [status |-> status, kind |-> kind]
            IN  /\ responses' = Append(responses, r)
                /\ capture' = Heard(capture, Len(responses'), r)
      BY <1>1 DEF Respond
    <3> QED BY <3>1
  <2>2. r.status \in Statuses /\ responses \in Seq(R)
    BY DEF PageTypeOK
  <2>3. /\ Given' = Given \union {r.status}
        /\ Given \in SUBSET Statuses
        /\ responses = <<>> => Given = {}
        /\ EarlySuccess' => \/ EarlySuccess
                            \/ Success(r.status) /\ \A h \in Given : ~Redirect(h)
    BY <2>1, <2>2, GivenByOneMore
  <2>4. /\ capture.on \in BOOLEAN /\ capture.status \in {0} \union Statuses
        /\ capture = [on |-> capture.on, id |-> capture.id, mime |-> capture.mime,
                      status |-> capture.status]
    BY DEF PageTypeOK
  <2>5. IF capture.on /\ Replaces(capture.status, r.status)
        THEN capture' = [on |-> capture.on, id |-> Len(responses'),
                         mime |-> Len(responses'), status |-> r.status]
        ELSE capture' = capture
    BY <2>1, <2>4 DEF Heard
  <2>6. capture'.id = capture'.mime
    BY <2>5 DEF CaptureInv
  <2>7. pc' = pc /\ pc \in Visit
    BY <1>1 DEF Respond, AtWork
  <2>8. ASSUME pc \in Sent
        PROVE  /\ capture'.on /\ capture'.status # 0
               /\ Best(capture'.status, Given', EarlySuccess')
    <3>1. /\ capture.on
          /\ capture.status = 0 => responses = <<>>
          /\ capture.status # 0 => Best(capture.status, Given, EarlySuccess)
      BY <2>8 DEF CaptureInv
    <3>2. CASE capture.status = 0
      <4>1. Replaces(capture.status, r.status)
        BY <3>2 DEF Replaces
      <4>2. capture'.on /\ capture'.status = r.status /\ Given' = {r.status}
        BY <2>3, <2>5, <3>1, <3>2, <4>1
      <4>3. ~EarlySuccess
        BY <3>1, <3>2 DEF EarlySuccess
      <4>4. EarlySuccess' => Success(r.status)
        BY <2>3, <4>3
      <4>5. r.status # 0 /\ (Redirect(r.status) => r.status < 400)
        <5>1. \A h : Redirect(h) => h < 400
          BY DEF Redirect
        <5> QED BY <2>2, <5>1, StatusRange
      <4> QED BY <4>2, <4>4, <4>5 DEF Best
    <3>3. CASE capture.status # 0
      <4>1. capture'.status = IF Replaces(capture.status, r.status)
                              THEN r.status ELSE capture.status
        BY <2>5, <3>1
      <4>2. capture.status \in Statuses /\ Best(capture.status, Given, EarlySuccess)
        BY <2>4, <3>1, <3>3
      <4>3. Best(capture'.status, Given', EarlySuccess')
        BY <2>2, <2>3, <4>1, <4>2, BestOfMore
      <4>4. r.status # 0
        BY <2>2, PageAssumption
      <4> QED BY <2>5, <3>1, <3>3, <4>3, <4>4
    <3> QED BY <3>2, <3>3
  <2> QED BY <2>6, <2>7, <2>8 DEF CaptureInv, Sent, Setup, Outset, Visit
<1>2. CASE Listen
  <2>1. responses = <<>> /\ capture = NoCapture
    BY <1>2 DEF Listen, CaptureInv, Outset
  <2> QED BY <1>2, <2>1 DEF Listen, CaptureInv, NoCapture, Setup, Outset, Visit
<1>3. CASE Collect \/ CloseTab
  <2>1. capture'.id = capture'.mime
    BY <1>3 DEF Collect, CloseTab, Stopped, NoCapture, CaptureInv, PageTypeOK
  <2> QED BY <1>3, <2>1 DEF Collect, CloseTab, CaptureInv, Setup, Outset, Visit
<1>4. CASE Raise
  <2>1. capture'.id = capture'.mime
    BY <1>4 DEF Raise, Stopped, CaptureInv, PageTypeOK
  <2> QED BY <1>4, <2>1 DEF Raise, Failed, CaptureInv, Setup, Outset, Visit
<1>5. ASSUME UNCHANGED <<responses, capture>>,
             pc' \in Setup \union Outset => pc \in Setup \union Outset,
             pc' \in Sent => pc \in Sent
      PROVE  CaptureInv'
  BY <1>5 DEF CaptureInv, Given, EarlySuccess
<1> USE DEF Setup, Outset, Visit, Extras, Go
<1>6. CASE Show \/ CreateTab \/ AttachTab \/ Viewport \/ Cookies \/ Headers
  BY <1>5, <1>6 DEF Show, CreateTab, AttachTab, Viewport, Cookies, Headers, Try
<1>7. CASE Post \/ Intercept \/ Navigate \/ Land \/ Interact \/ Snapshot
  BY <1>5, <1>7 DEF Post, PostContext, PostCheck, PostFetch, Intercept, Navigate,
                    Land, Interact, Snapshot
<1>8. CASE AwaitStatus
  BY <1>5, <1>8 DEF AwaitStatus, ReadStatus, ReadTitle, StatusTimeout, AfterStatus
<1>9. CASE SmartWait
  <2>1. CASE Judge \/ Doubt \/ BeginWait
    BY <1>5, <2>1 DEF Judge, Doubt, BeginWait
  <2>2. CASE Loaded \/ Clear
    BY <1>5, <2>2 DEF Loaded, Clear, NotSettled, Settled
  <2>3. CASE Round \/ Length \/ Stalled \/ WaitTimeout
    BY <1>5, <2>3 DEF Round, Length, Stalled, WaitTimeout
  <2> QED BY <1>9, <2>1, <2>2, <2>3 DEF SmartWait
<1>10. CASE Body
  BY <1>5, <1>10 DEF Body, AskBody, GotBody, Resolve, FetchBinary, ReadHtml, Answers
<1>11. CASE UNCHANGED pageVars
  BY <1>5, <1>11 DEF pageVars
<1> QED BY <1>1, <1>2, <1>3, <1>4, <1>6, <1>7, <1>8, <1>9, <1>10, <1>11
        DEF PageNext, Chrome, Fetch, Dress, Navigation

-----------------------------------------------------------------------------
\* What the loops leave of the local variables
Kept(k) == /\ k.heard = job.heard /\ k.net = job.net /\ k.mime = job.mime
           /\ k.before = job.before /\ k.asked = job.asked /\ k.stuck = job.stuck

LEMMA Keeps ==
    ASSUME job \in Jobs
    PROVE  /\ \A s \in Nat : /\ Kept(HasStatus(s))
                             /\ HasStatus(s).waited = job.waited
                             /\ HasStatus(s).ranOut = job.ranOut
           /\ /\ Kept(NextRound(job)) /\ NextRound(job).waited = job.waited
              /\ NextRound(job).ranOut = job.ranOut
           /\ \A c : Kept(Checking(job, c))
           /\ \A c : Kept(Checking(NextRound(job), c))
           /\ Kept(Waited(job)) /\ Waited(job).waited
           /\ LET k == [Waited(job) EXCEPT !.ranOut = TRUE]
              IN  Kept(k) /\ k.waited /\ k.ranOut
           /\ \A n : Kept([job EXCEPT !.stalled = n])
<1> USE DEF Kept
<1>1. ASSUME NEW s \in Nat
      PROVE  /\ Kept(HasStatus(s)) /\ HasStatus(s).waited = job.waited
             /\ HasStatus(s).ranOut = job.ranOut
  BY DEF HasStatus, Jobs
<1>2. /\ Kept(NextRound(job)) /\ NextRound(job).waited = job.waited
      /\ NextRound(job).ranOut = job.ranOut
  BY DEF NextRound, Jobs
<1>3. \A c : Kept(Checking(job, c))
  BY DEF Checking, Jobs
<1>4. \A c : Kept(Checking(NextRound(job), c))
  BY DEF Checking, NextRound, Jobs
<1>5. Kept(Waited(job)) /\ Waited(job).waited
  BY DEF Waited, Jobs
<1>6. LET k == [Waited(job) EXCEPT !.ranOut = TRUE]
      IN  Kept(k) /\ k.waited /\ k.ranOut
  BY DEF Waited, Jobs
<1>7. \A n : Kept([job EXCEPT !.stalled = n])
  BY DEF Jobs
<1> HIDE DEF Kept
<1> QED BY <1>1, <1>2, <1>3, <1>4, <1>5, <1>6, <1>7

\* What is read of the capture
LEMMA AskStep ==
    PageTypeOK /\ CaptureInv /\ AskInv /\ [PageNext]_pageVars => AskInv'
<1> SUFFICES ASSUME PageTypeOK, CaptureInv, AskInv, [PageNext]_pageVars PROVE AskInv'
    OBVIOUS
<1> DEFINE Before == Arriving \union Waiting \union {"status", "title", "judge", "doubt", "body"}
<1>0. job \in Jobs
  BY DEF PageTypeOK
<1> USE DEF Goto, chromeVars, Arriving, Waiting, Told, Setup, Outset, Extras
<1>1. CASE Respond
  <2>1. UNCHANGED <<pc, job>> /\ Len(responses') = Len(responses) + 1
    BY <1>1 DEF Respond, PageTypeOK
  <2>2. \/ capture'.id = capture.id
        \/ capture'.id = Len(responses')
    BY <1>1 DEF Respond, Heard, PageTypeOK
  <2>3. Len(responses) \in Nat /\ job.before \in Nat
    BY <1>0 DEF PageTypeOK, Jobs
  <2> QED BY <2>1, <2>2, <2>3 DEF AskInv
<1>2. CASE Show
  <2>1. UNCHANGED <<pc, responses, capture>>
    BY <1>2 DEF Show
  <2>2. /\ job'.heard = job.heard /\ job'.net = job.net /\ job'.mime = job.mime
        /\ job'.before = job.before /\ job'.asked = job.asked /\ job'.status = job.status
        /\ job'.early = job.early
    BY <1>0, <1>2 DEF Show, Jobs
  <2> QED BY <2>1, <2>2 DEF AskInv
<1>3. CASE \/ CreateTab \/ AttachTab \/ Viewport \/ Cookies \/ Headers \/ Post
          \/ Navigation
  BY <1>3 DEF CreateTab, AttachTab, Viewport, Cookies, Headers, Try, Post, PostContext,
              PostCheck, PostFetch, Navigation, Intercept, Listen, Navigate, Land,
              Interact, Go, AskInv
<1>4. CASE Snapshot \/ Collect \/ CloseTab
  BY <1>4 DEF Snapshot, Collect, CloseTab, Go, AskInv
<1>5. CASE Raise
  BY <1>5 DEF Raise, Failed, AskInv
<1>6. ASSUME NEW from \in Before, NEW to \in Before \union {"snapshot"}, NEW new,
             Go(from, to, new), Kept(new)
      PROVE  AskInv'
  BY <1>6 DEF Go, Kept, AskInv
<1>7. CASE AwaitStatus
  <2>1. AfterStatus \in Before \union {"snapshot"}
    BY DEF AfterStatus
  <2>2. /\ \A s \in Statuses : Kept(HasStatus(s))
        /\ Kept(HasStatus(403)) /\ Kept(HasStatus(200)) /\ Kept(NextRound(job)) /\ Kept(job)
    <3>1. \A s \in Statuses : s \in Nat
      BY PageAssumption
    <3>2. 403 \in Nat /\ 200 \in Nat
      OBVIOUS
    <3> QED BY <1>0, <3>1, <3>2, Keeps DEF Kept
  <2> QED BY <1>6, <1>7, <2>1, <2>2 DEF AwaitStatus, ReadStatus, ReadTitle, StatusTimeout
<1>8. CASE SmartWait
  <2>1. /\ Kept(job) /\ Kept(Waited(job)) /\ Kept([Waited(job) EXCEPT !.ranOut = TRUE])
        /\ \A c : Kept(Checking(job, c)) /\ Kept(Checking(NextRound(job), c))
        /\ \A n : Kept([job EXCEPT !.stalled = n])
    BY <1>0, Keeps DEF Kept
  <2>2. CASE Judge \/ BeginWait
    BY <1>6, <2>1, <2>2 DEF Judge, BeginWait
  <2>3. CASE Doubt
    BY <1>0, <2>3 DEF Doubt, Go, AskInv, Jobs
  <2>4. CASE Loaded \/ Clear
    BY <1>6, <2>1, <2>4 DEF Loaded, Clear, NotSettled, Settled
  <2>5. CASE Round \/ Stalled
    BY <1>6, <2>1, <2>5 DEF Round, Stalled
  <2>6. CASE Length
    BY <1>6, <2>1, <2>6 DEF Length
  <2>7. CASE WaitTimeout
    BY <1>6, <2>1, <2>7 DEF WaitTimeout
  <2> QED BY <1>8, <2>2, <2>3, <2>4, <2>5, <2>6, <2>7 DEF SmartWait
<1>9. CASE AskBody
  <2>1. Len(responses) \in Nat /\ job.before \in Nat /\ capture.id \in Nat
    BY <1>0 DEF PageTypeOK, Jobs
  <2>2. CASE capture.id = 0
    BY <1>9, <2>2 DEF AskBody, Go, AskInv
  <2>3. CASE capture.id # 0
    <3>1. /\ job'.asked = capture.id /\ job'.before = Len(responses)
          /\ job'.heard = job.heard /\ job'.net = job.net
      BY <1>0, <1>9, <2>3 DEF AskBody, Go, Jobs
    <3> QED BY <1>9, <2>1, <2>3, <3>1 DEF AskBody, Go, AskInv
  <2> QED BY <2>2, <2>3
<1>10. CASE GotBody
  <2>1. PICK given \in BOOLEAN :
          Go("asked", "resolve",
             [job EXCEPT !.net = IF given THEN job.asked ELSE 0,
                         !.mime = IF given THEN capture.mime ELSE 0,
                         !.status = capture.status, !.heard = Given,
                         !.early = EarlySuccess])
    BY <1>10 DEF GotBody
  <2>2. pc = "asked" /\ pc' = "resolve"
    BY <2>1 DEF Go
  <2>3. /\ job'.net = IF given THEN job.asked ELSE 0
        /\ job'.mime = IF given THEN capture.mime ELSE 0
        /\ job'.status = capture.status /\ job'.heard = Given /\ job'.before = job.before
        /\ job'.early = EarlySuccess
    BY <1>0, <2>1 DEF Go, Jobs
  <2>4. capture.status # 0 /\ capture.id # 0
    BY <2>2 DEF AskInv, PageTypeOK
  <2>5. Best(capture.status, Given, EarlySuccess)
    BY <2>2, <2>4 DEF CaptureInv, Sent, Visit
  <2>6. capture.id = job.asked \/ capture.id > job.before
    BY <2>2 DEF AskInv
  <2>7. job'.net # 0 => job'.net = job'.mime \/ job'.mime > job'.before
    BY <2>3, <2>6 DEF CaptureInv
  <2> QED BY <2>2, <2>3, <2>5, <2>7 DEF AskInv
<1>11. CASE Resolve \/ FetchBinary \/ ReadHtml
  BY <1>11 DEF Resolve, FetchBinary, ReadHtml, Answers, Go, AskInv
<1>12. CASE UNCHANGED pageVars
  BY <1>12 DEF pageVars, AskInv
<1> QED BY <1>1, <1>2, <1>3, <1>4, <1>5, <1>7, <1>8, <1>9, <1>10, <1>11, <1>12
        DEF PageNext, Chrome, Fetch, Dress, Body

\* No loop is left while only a shell has been seen.
LEMMA WaitStep == PageTypeOK /\ WaitInv /\ [PageNext]_pageVars => WaitInv'
<1> SUFFICES ASSUME PageTypeOK, WaitInv, [PageNext]_pageVars PROVE WaitInv'
    OBVIOUS
<1>0. job \in Jobs
  BY DEF PageTypeOK
<1> USE DEF Goto, chromeVars, Arriving, Told, Setup, Outset, Visit, Extras
<1>1. CASE Respond
  BY <1>1 DEF Respond, WaitInv
<1>2. CASE Show
  <2>1. /\ job'.waited = job.waited /\ job'.ranOut = job.ranOut
        /\ job'.stuck = (job.stuck /\ Shell(shown'))
    BY <1>0, <1>2 DEF Show, Jobs
  <2> QED BY <1>2, <2>1 DEF Show, WaitInv
<1>3. CASE \/ CreateTab \/ AttachTab \/ Viewport \/ Cookies \/ Headers \/ Post
          \/ Navigation
  <2>1. UNCHANGED <<job, shown>>
    BY <1>3 DEF CreateTab, AttachTab, Viewport, Cookies, Headers, Post, PostContext,
              PostCheck, PostFetch, Navigation, Intercept, Listen, Navigate, Land,
              Interact, Go
  <2>2. pc \in Arriving /\ pc' \in Arriving \union {"status", "snapshot"}
    BY <1>3 DEF CreateTab, AttachTab, Viewport, Cookies, Headers, Try, Post, PostContext,
              PostCheck, PostFetch, Navigation, Intercept, Listen, Navigate, Land,
              Interact, Go
  <2> QED BY <2>1, <2>2 DEF WaitInv
<1>4. CASE Snapshot \/ Collect \/ CloseTab
  BY <1>4 DEF Snapshot, Collect, CloseTab, Go, WaitInv
<1>5. CASE Raise
  BY <1>5 DEF Raise, Failed, WaitInv
<1>6. CASE AwaitStatus
  <2>1. \A s \in Nat : /\ HasStatus(s).stuck = job.stuck
                       /\ HasStatus(s).waited = job.waited
                       /\ HasStatus(s).ranOut = job.ranOut
    BY <1>0, Keeps DEF Kept
  <2>2. /\ NextRound(job).stuck = job.stuck /\ NextRound(job).waited = job.waited
        /\ NextRound(job).ranOut = job.ranOut
    BY <1>0, Keeps DEF Kept
  <2>3. job' = job \/ job' = NextRound(job) \/ \E s \in Nat : job' = HasStatus(s)
    BY <1>6, StatusRange DEF AwaitStatus, ReadStatus, ReadTitle, StatusTimeout, Go
  <2>4. /\ job'.stuck = job.stuck /\ job'.waited = job.waited
        /\ job'.ranOut = job.ranOut
    BY <2>1, <2>2, <2>3
  <2>5. /\ UNCHANGED shown /\ pc \in {"status", "title"}
        /\ pc' \in {"status", "title"} \union {AfterStatus}
    BY <1>6 DEF AwaitStatus, ReadStatus, ReadTitle, StatusTimeout, Go
  <2>6. job.waited \in BOOLEAN /\ job.stuck \in BOOLEAN
    BY <1>0 DEF Jobs
  <2> QED BY <2>4, <2>5, <2>6 DEF AfterStatus, WaitInv
<1>7. CASE Judge
  BY <1>7 DEF Judge, Go, ErrorTitle, Shell, WaitInv
<1>8. CASE Doubt
  <2>1. PICK seen \in BOOLEAN :
          LET challenge == seen \/ Blocked(job.status)
          IN  /\ IF seen THEN Challenge(shown) \/ Empty(shown) ELSE ~Challenge(shown)
              /\ Go("doubt",
                    IF challenge \/ Success(job.status) THEN "begin" ELSE "body",
                    [job EXCEPT !.challenge = challenge, !.stuck = Shell(shown)])
    BY <1>8 DEF Doubt
  <2>2. job'.stuck = Shell(shown) /\ UNCHANGED shown
    BY <1>0, <2>1 DEF Go, Jobs
  <2>3. pc' = "begin" \/ (pc' = "body" /\ ~seen)
    BY <2>1 DEF Go
  <2>4. pc' = "body" => ~Shell(shown)
    BY <2>1, <2>3 DEF Challenge, Shell
  <2> QED BY <2>2, <2>3, <2>4 DEF WaitInv
<1>9. CASE \/ BeginWait \/ Loaded \/ Clear \/ Round \/ Length \/ Stalled \/ WaitTimeout
  <2>1. /\ Waited(job).stuck = job.stuck /\ Waited(job).waited
        /\ [Waited(job) EXCEPT !.ranOut = TRUE].stuck = job.stuck
        /\ [Waited(job) EXCEPT !.ranOut = TRUE].waited
        /\ [Waited(job) EXCEPT !.ranOut = TRUE].ranOut
    BY <1>0, Keeps DEF Kept
  <2>2. /\ \A c : Checking(job, c).stuck = job.stuck
        /\ \A c : Checking(NextRound(job), c).stuck = job.stuck
        /\ \A n : [job EXCEPT !.stalled = n].stuck = job.stuck
    BY <1>0, Keeps DEF Kept
  <2>3. ASSUME NEW from \in Waiting, NEW to \in Waiting, NEW new, Go(from, to, new),
               new.stuck = job.stuck
        PROVE  WaitInv'
    BY <2>3 DEF Go, Waiting, WaitInv
  <2>4. ASSUME NEW from \in Waiting, NEW new, Go(from, "status", new),
               new.stuck = job.stuck, new.waited, ~Shell(shown) \/ new.ranOut
        PROVE  WaitInv'
    BY <2>4 DEF Go, Waiting, WaitInv
  <2>5. /\ ErrorTitle(shown) => ~Shell(shown)
        /\ ~Challenge(shown) => ~Shell(shown)
    BY DEF ErrorTitle, Challenge, Shell
  <2> USE DEF Waiting
  <2>6. CASE BeginWait
    BY <2>1, <2>2, <2>3, <2>4, <2>5, <2>6 DEF BeginWait
  <2>7. CASE Loaded
    BY <2>3, <2>7 DEF Loaded, NotSettled
  <2>8. CASE Clear
    BY <2>1, <2>2, <2>3, <2>4, <2>5, <2>8 DEF Clear, NotSettled, Settled
  <2>9. CASE Round
    BY <2>1, <2>2, <2>3, <2>4, <2>5, <2>9 DEF Round
  <2>10. CASE Length
    BY <2>2, <2>3, <2>10 DEF Length
  <2>11. CASE Stalled
    BY <2>1, <2>3, <2>4, <2>5, <2>11 DEF Stalled, StallEnds
  <2>12. CASE WaitTimeout
    BY <2>1, <2>4, <2>12 DEF WaitTimeout
  <2> QED BY <1>9, <2>6, <2>7, <2>8, <2>9, <2>10, <2>11, <2>12
<1>10. CASE AskBody \/ GotBody
  <2>1. job'.stuck = job.stuck /\ job'.ranOut = job.ranOut
    BY <1>0, <1>10 DEF AskBody, GotBody, Go, Jobs
  <2> QED BY <1>10, <2>1 DEF AskBody, GotBody, Go, WaitInv
<1>11. CASE Resolve \/ FetchBinary \/ ReadHtml
  BY <1>11 DEF Resolve, FetchBinary, ReadHtml, Answers, Go, WaitInv
<1>12. CASE UNCHANGED pageVars
  BY <1>12 DEF pageVars, WaitInv
<1> QED BY <1>1, <1>2, <1>3, <1>4, <1>5, <1>6, <1>7, <1>8, <1>9, <1>10, <1>11, <1>12
        DEF PageNext, Chrome, Fetch, Dress, SmartWait, Body

\* What the answer is made of
LEMMA AnswerStep ==
    PageInv /\ [PageNext]_pageVars => AnswerInv'
<1> SUFFICES ASSUME PageInv, [PageNext]_pageVars PROVE AnswerInv'
    OBVIOUS
<1>0. PageTypeOK /\ TabInv /\ AskInv /\ WaitInv /\ AnswerInv /\ job \in Jobs
  BY DEF PageInv, PageTypeOK
<1> USE DEF Goto, chromeVars, After, Setup, Outset, Visit, Extras, Go
<1>1. CASE \/ Chrome \/ Dress \/ PostContext \/ PostCheck \/ Navigation \/ SmartWait
          \/ AskBody \/ GotBody
  <2>1. pc' \notin After
    BY <1>1 DEF Chrome, Respond, Show, AtWork, Dress, CreateTab, AttachTab, Viewport,
                Cookies, Headers, Try, PostContext, PostCheck, Navigation, Intercept,
                Listen, Navigate, Land, Interact, SmartWait, Judge, Doubt, BeginWait,
                Loaded, Clear, NotSettled, Settled, Round, Length, Stalled, WaitTimeout,
                AskBody, GotBody
  <2> QED BY <2>1 DEF AnswerInv
<1>2. CASE PostFetch
  <2>1. answer'.from = "post"
    BY <1>2 DEF PostFetch, NoAnswer
  <2> QED BY <2>1 DEF AnswerInv
<1>3. CASE AwaitStatus
  <2>1. answer' = NoAnswer
    BY <1>0, <1>3 DEF AwaitStatus, ReadStatus, ReadTitle, StatusTimeout, TabInv
  <2> QED BY <2>1 DEF AnswerInv, NoAnswer
<1>4. CASE Resolve \/ FetchBinary \/ ReadHtml
  <2>1. /\ Forget(job).heard = job.heard /\ Forget(job).before = job.before
        /\ Forget(job).early = job.early
        /\ Forget(job).stuck = job.stuck /\ Forget(job).ranOut = job.ranOut
    BY DEF Forget, NoJob
  <2>2. pc \in Told
    BY <1>4 DEF Resolve, FetchBinary, ReadHtml, Answers, Told
  <2>3. /\ job.net # 0 => job.net = job.mime \/ job.mime > job.before
        /\ job.heard # {} => Best(job.status, job.heard, job.early)
        /\ job.stuck => job.ranOut
    BY <1>0, <2>2 DEF AskInv, WaitInv
  <2>4. ASSUME NEW from, Answers(from, "snapshot", NetAnswer), job.net # 0
        PROVE  AnswerInv'
    BY <2>1, <2>3, <2>4 DEF Answers, NetAnswer, AnswerInv
  <2>5. ASSUME NEW status, Answers("binary", "snapshot",
                  [NoAnswer EXCEPT !.from = "fetch", !.status = status])
        PROVE  AnswerInv'
    <3>1. answer'.from = "fetch"
      BY <2>5 DEF Answers, NoAnswer
    <3> QED BY <3>1 DEF AnswerInv
  <2>6. ASSUME Answers("html", "snapshot",
                  [NoAnswer EXCEPT !.from = "html", !.status = job.status])
        PROVE  AnswerInv'
    <3>1. answer'.from = "html" /\ answer'.status = job.status /\ job' = Forget(job)
      BY <2>6 DEF Answers, NoAnswer
    <3> QED BY <2>1, <2>3, <3>1 DEF AnswerInv
  <2>7. ASSUME NEW from, NEW to \in {"binary", "html"}, Go(from, to, job)
        PROVE  AnswerInv'
    BY <2>7 DEF AnswerInv
  <2>8. CASE Resolve
    BY <2>4, <2>7, <2>8 DEF Resolve
  <2>9. CASE FetchBinary
    BY <2>4, <2>5, <2>7, <2>9 DEF FetchBinary
  <2>10. CASE ReadHtml
    BY <2>6, <2>10 DEF ReadHtml
  <2> QED BY <1>4, <2>8, <2>9, <2>10
<1>5. CASE Snapshot \/ CloseTab
  BY <1>0, <1>5 DEF Snapshot, CloseTab, AnswerInv
<1>6. CASE Collect
  <2>1. answer' = answer \/ answer'.from = "head"
    BY <1>6 DEF Collect, NoAnswer
  <2> QED BY <1>0, <1>6, <2>1 DEF Collect, AnswerInv
<1>7. CASE Raise
  BY <1>7 DEF Raise, NoAnswer, AnswerInv
<1>8. CASE UNCHANGED pageVars
  BY <1>0, <1>8 DEF pageVars, AnswerInv
<1> QED BY <1>1, <1>2, <1>3, <1>4, <1>5, <1>6, <1>7, <1>8
        DEF PageNext, Fetch, Post, Body

-----------------------------------------------------------------------------
\* The steps that are left, label by label
Rounds(k) == MaxRounds - k.rounds
Again(k) == IF k.check = "poll" THEN 2 ELSE 0
ForStatus(k) == IF k.waited THEN 8 ELSE 20 + 9 * MaxRounds

LEMMA Labels ==
    /\ DOMAIN ToGo = {"over", "close", "jar", "snapshot", "html", "binary", "resolve",
                      "asked", "body"}
    /\ DOMAIN InRound = {"round", "stalled", "length", "clear", "loaded"}
    /\ DOMAIN OnTheWay = {"interact", "land", "navigate", "inpage", "listen", "posted",
                          "intercept", "post", "headers", "cookies", "viewport",
                          "attach", "create"}
<1>1. DOMAIN ToGo = {"over", "close", "jar", "snapshot", "html", "binary", "resolve",
                     "asked", "body"}
  BY DEF ToGo
<1>2. DOMAIN InRound = {"round", "stalled", "length", "clear", "loaded"}
  BY DEF InRound
<1>3. DOMAIN OnTheWay = {"interact", "land", "navigate", "inpage", "listen", "posted",
                         "intercept", "post", "headers", "cookies", "viewport",
                         "attach", "create"}
  BY DEF OnTheWay
<1> QED BY <1>1, <1>2, <1>3

LEMMA RanksAtTheEnd ==
    ASSUME NEW k
    PROVE  /\ StepsFrom("over", k) = 0 /\ StepsFrom("close", k) = 1
           /\ StepsFrom("jar", k) = 2 /\ StepsFrom("snapshot", k) = 3
           /\ StepsFrom("html", k) = 4 /\ StepsFrom("binary", k) = 5
           /\ StepsFrom("resolve", k) = 6 /\ StepsFrom("asked", k) = 7
           /\ StepsFrom("body", k) = 8
<1>1. \A label \in DOMAIN ToGo : StepsFrom(label, k) = ToGo[label]
  BY Labels DEF StepsFrom
<1> QED BY <1>1 DEF ToGo

LEMMA RanksOfStatus ==
    ASSUME NEW k
    PROVE  /\ StepsFrom("title", k) = ForStatus(k) + 2 * Rounds(k) + 1
           /\ StepsFrom("status", k) = ForStatus(k) + 2 * Rounds(k) + 2
  BY PageAssumption, Labels DEF StepsFrom, ForStatus, Rounds

LEMMA RanksInRound ==
    ASSUME NEW k \in Jobs
    PROVE  LET n == 10 + 2 * MaxRounds + 7 * Rounds(k) + Again(k)
           IN  /\ StepsFrom("round", k) = n + 1 /\ StepsFrom("stalled", k) = n + 2
               /\ StepsFrom("length", k) = n + 3 /\ StepsFrom("clear", k) = n + 4
               /\ StepsFrom("loaded", k) = n + 5
<1>1. \A label \in DOMAIN InRound :
        StepsFrom(label, k) =
            10 + 2 * MaxRounds + 7 * Rounds(k) + InRound[label] + Again(k)
  BY PageAssumption, Labels DEF StepsFrom, Rounds, Again
<1>2. Rounds(k) \in Nat /\ Again(k) \in Nat /\ MaxRounds \in Nat
  BY PageAssumption DEF Rounds, Again, Jobs
<1> QED BY <1>1, <1>2 DEF InRound

LEMMA RanksOfDoubt ==
    ASSUME NEW k
    PROVE  /\ StepsFrom("begin", k) = 18 + 9 * MaxRounds
           /\ StepsFrom("doubt", k) = 19 + 9 * MaxRounds
           /\ StepsFrom("judge", k) = 20 + 9 * MaxRounds
  BY PageAssumption, Labels DEF StepsFrom

LEMMA RanksOnTheWay ==
    ASSUME NEW k
    PROVE  LET n == 22 + 11 * MaxRounds
           IN  /\ StepsFrom("interact", k) = n + 1 /\ StepsFrom("land", k) = n + 2
               /\ StepsFrom("navigate", k) = n + 3 /\ StepsFrom("inpage", k) = n + 3
               /\ StepsFrom("listen", k) = n + 4 /\ StepsFrom("posted", k) = n + 4
               /\ StepsFrom("intercept", k) = n + 5 /\ StepsFrom("post", k) = n + 5
               /\ StepsFrom("headers", k) = n + 6 /\ StepsFrom("cookies", k) = n + 7
               /\ StepsFrom("viewport", k) = n + 8 /\ StepsFrom("attach", k) = n + 9
               /\ StepsFrom("create", k) = n + 10
<1>1. \A label \in DOMAIN OnTheWay :
        StepsFrom(label, k) = 22 + 11 * MaxRounds + OnTheWay[label]
  BY PageAssumption, Labels DEF StepsFrom
<1> QED BY <1>1, PageAssumption DEF OnTheWay

\* What they depend on
LEMMA Counts ==
    ASSUME NEW k \in Jobs
    PROVE  /\ MaxRounds \in Nat \ {0} /\ k.rounds \in 0..MaxRounds
           /\ Rounds(k) \in 0..MaxRounds
           /\ Again(k) \in {0, 2} /\ ForStatus(k) \in {8, 20 + 9 * MaxRounds}
  BY PageAssumption DEF Jobs, Rounds, Again, ForStatus

LEMMA Counted ==
    ASSUME job \in Jobs
    PROVE  /\ \A s : /\ Rounds(HasStatus(s)) = MaxRounds
                     /\ ForStatus(HasStatus(s)) = ForStatus(job)
           /\ TimeIsLeft => /\ Rounds(NextRound(job)) = Rounds(job) - 1
                            /\ ForStatus(NextRound(job)) = ForStatus(job)
           /\ \A c \in {"first", "poll", "again"} :
                /\ Rounds(Checking(job, c)) = Rounds(job)
                /\ Again(Checking(job, c)) = IF c = "poll" THEN 2 ELSE 0
           /\ LET k == Checking(NextRound(job), "poll")
              IN  Rounds(k) = Rounds(job) - 1 /\ Again(k) = 2
           /\ Rounds(Waited(job)) = MaxRounds /\ ForStatus(Waited(job)) = 8
           /\ LET k == [Waited(job) EXCEPT !.ranOut = TRUE]
              IN  Rounds(k) = MaxRounds /\ ForStatus(k) = 8
           /\ \A n : /\ Rounds([job EXCEPT !.stalled = n]) = Rounds(job)
                     /\ Again([job EXCEPT !.stalled = n]) = Again(job)
<1>0. MaxRounds \in Nat /\ job.rounds \in Nat
  BY PageAssumption DEF Jobs
<1>1. \A s : /\ HasStatus(s).rounds = 0 /\ HasStatus(s).waited = job.waited
  BY DEF HasStatus, Jobs
<1>2. NextRound(job).rounds = job.rounds + 1 /\ NextRound(job).waited = job.waited
  BY DEF NextRound, Jobs
<1>3. \A c : Checking(job, c).rounds = job.rounds /\ Checking(job, c).check = c
  BY DEF Checking, Jobs
<1>4. LET k == Checking(NextRound(job), "poll")
      IN  k.rounds = job.rounds + 1 /\ k.check = "poll"
  BY DEF Checking, NextRound, Jobs
<1>5. Waited(job).rounds = 0 /\ Waited(job).waited
  BY DEF Waited, Jobs
<1>6. LET k == [Waited(job) EXCEPT !.ranOut = TRUE] IN k.rounds = 0 /\ k.waited
  BY DEF Waited, Jobs
<1>7. \A n : LET k == [job EXCEPT !.stalled = n]
             IN  k.rounds = job.rounds /\ k.check = job.check
  BY DEF Jobs
<1> QED BY <1>0, <1>1, <1>2, <1>3, <1>4, <1>5, <1>6, <1>7
        DEF Rounds, Again, ForStatus

\* A step is nearer to the end if the label it goes to is.
Nearer == StepsLeft' \in 0..(StepsLeft - 1)

LEMMA Moves ==
    ASSUME NEW from, NEW to, NEW new, Go(from, to, new),
           StepsFrom(to, new) \in 0..(StepsFrom(from, job) - 1)
    PROVE  Nearer
  BY DEF Go, Goto, Nearer, StepsLeft

\* Up to where Chrome's answer is waited for
LEMMA ArrivalAdvances ==
    ASSUME job \in Jobs, Dress \/ Post \/ Navigation
    PROVE  Nearer
<1>0. \A k \in Jobs :
        /\ StepsFrom("status", k) \in 0..(22 + 11 * MaxRounds)
        /\ StepsFrom("snapshot", k) \in 0..(22 + 11 * MaxRounds)
  BY RanksOfStatus, RanksAtTheEnd, Counts
<1>1. CASE Dress
  <2>1. UNCHANGED job
    BY <1>1 DEF Dress, CreateTab, AttachTab, Viewport, Cookies, Headers, Go
  <2>2. \/ pc = "create" /\ pc' = "attach"
        \/ pc = "attach" /\ pc' = "viewport"
        \/ pc = "viewport" /\ pc' \in {"cookies", "post", "intercept"}
        \/ pc = "cookies" /\ pc' = "headers"
        \/ pc = "headers" /\ pc' \in {"post", "intercept"}
    BY <1>1 DEF Dress, CreateTab, AttachTab, Viewport, Cookies, Headers, Try, Go, Goto
  <2> QED BY <2>1, <2>2, RanksOnTheWay, PageAssumption DEF Nearer, StepsLeft
<1>2. CASE Post
  <2>1. UNCHANGED job
    BY <1>2 DEF Post, PostContext, PostCheck, PostFetch, Go
  <2>2. \/ pc = "post" /\ pc' = "posted"
        \/ pc = "posted" /\ pc' = "inpage"
        \/ pc = "inpage" /\ pc' = "snapshot"
    BY <1>2 DEF Post, PostContext, PostCheck, PostFetch, Go, Goto
  <2> QED BY <1>0, <2>1, <2>2, RanksOnTheWay, PageAssumption DEF Nearer, StepsLeft
<1>3. CASE Navigation
  <2>1. UNCHANGED job
    BY <1>3 DEF Navigation, Intercept, Listen, Navigate, Land, Interact, Go
  <2>2. \/ pc = "intercept" /\ pc' = "listen"
        \/ pc = "listen" /\ pc' = "navigate"
        \/ pc = "navigate" /\ pc' = "land"
        \/ pc = "land" /\ pc' \in {"status", "interact"}
        \/ pc = "interact" /\ pc' = "status"
    BY <1>3 DEF Navigation, Intercept, Listen, Navigate, Land, Interact, Go, Goto
  <2> QED BY <1>0, <2>1, <2>2, RanksOnTheWay, PageAssumption DEF Nearer, StepsLeft
<1> QED BY <1>1, <1>2, <1>3

\* Each round of a wait for a status has two steps, and ends at "judge" or, after
\* _smart_wait, at "body".
LEMMA StatusAdvances ==
    ASSUME job \in Jobs, AwaitStatus
    PROVE  Nearer
<1> DEFINE M == MaxRounds
           left == Rounds(job)
           status == ForStatus(job)
<1>1. /\ M \in Nat \ {0} /\ left \in 0..M /\ status \in {8, 20 + 9 * M}
      /\ (~job.waited => status = 20 + 9 * M)
  BY Counts DEF ForStatus
<1>2. /\ StepsFrom("status", job) = status + 2 * left + 2
      /\ StepsFrom("title", job) = status + 2 * left + 1
  BY RanksOfStatus
<1>3. \A k : StepsFrom(AfterStatus, k) \in 0..status
  <2>1. AfterStatus \in {"snapshot", "body"} \/ (AfterStatus = "judge" /\ ~job.waited)
    BY DEF AfterStatus
  <2>2. \A k : /\ StepsFrom("snapshot", k) = 3 /\ StepsFrom("body", k) = 8
               /\ StepsFrom("judge", k) = 20 + 9 * M
    BY RanksAtTheEnd, RanksOfDoubt
  <2> QED BY <1>1, <2>1, <2>2
<1>4. TimeIsLeft => StepsFrom("status", NextRound(job)) = status + 2 * (left - 1) + 2
  BY Counted, RanksOfStatus
<1>5. TimeIsLeft => left >= 1
  BY Counts DEF TimeIsLeft, Rounds
<1> HIDE DEF M, left, status
<1>6. CASE ReadStatus
  <2>1. \A k : StepsFrom(AfterStatus, k) \in 0..(StepsFrom("status", job) - 1)
    BY <1>1, <1>2, <1>3
  <2>2. StepsFrom("title", job) \in 0..(StepsFrom("status", job) - 1)
    BY <1>1, <1>2
  <2> QED BY <1>6, <2>1, <2>2, Moves DEF ReadStatus
<1>7. CASE ReadTitle
  <2>1. \A k : StepsFrom(AfterStatus, k) \in 0..(StepsFrom("title", job) - 1)
    BY <1>1, <1>2, <1>3
  <2>2. TimeIsLeft =>
            StepsFrom("status", NextRound(job)) \in 0..(StepsFrom("title", job) - 1)
    BY <1>1, <1>2, <1>4, <1>5
  <2> QED BY <1>7, <2>1, <2>2, Moves DEF ReadTitle
<1>8. CASE StatusTimeout
  <2>1. \A from \in {"status", "title"} :
          \A k : StepsFrom(AfterStatus, k) \in 0..(StepsFrom(from, job) - 1)
    BY <1>1, <1>2, <1>3
  <2> QED BY <1>8, <2>1, Moves DEF StatusTimeout
<1> QED BY <1>6, <1>7, <1>8 DEF AwaitStatus

\* A round of _smart_wait goes through its labels downwards, once more from "loaded"
\* when the page seems settled; the next round has seven steps less to go.
LEMMA WaitAdvances ==
    ASSUME job \in Jobs, SmartWait
    PROVE  Nearer
<1> DEFINE M == MaxRounds
           left == Rounds(job)
           again == Again(job)
           status == 10 + 2 * M
           round == status + 7 * left + again
<1>1. M \in Nat \ {0} /\ left \in 0..M /\ again \in {0, 2}
  BY Counts
<1>2. /\ StepsFrom("round", job) = round + 1 /\ StepsFrom("stalled", job) = round + 2
      /\ StepsFrom("length", job) = round + 3 /\ StepsFrom("clear", job) = round + 4
      /\ StepsFrom("loaded", job) = round + 5
  BY RanksInRound
<1>3. \A k : /\ StepsFrom("body", k) = 8
             /\ StepsFrom("begin", k) = 18 + 9 * M
             /\ StepsFrom("doubt", k) = 19 + 9 * M
             /\ StepsFrom("judge", k) = 20 + 9 * M
  BY RanksAtTheEnd, RanksOfDoubt
<1>4. /\ StepsFrom("status", Waited(job)) = status
      /\ StepsFrom("status", [Waited(job) EXCEPT !.ranOut = TRUE]) = status
  <2>1. /\ Rounds(Waited(job)) = M /\ ForStatus(Waited(job)) = 8
        /\ LET k == [Waited(job) EXCEPT !.ranOut = TRUE]
           IN  Rounds(k) = M /\ ForStatus(k) = 8
    BY Counted
  <2> QED BY <1>1, <2>1, RanksOfStatus
<1>5. \A c \in {"first", "poll", "again"} :
        StepsFrom("loaded", Checking(job, c)) =
            status + 7 * left + 5 + (IF c = "poll" THEN 2 ELSE 0)
  <2> SUFFICES ASSUME NEW c \in {"first", "poll", "again"}
               PROVE  StepsFrom("loaded", Checking(job, c)) =
                        status + 7 * left + 5 + (IF c = "poll" THEN 2 ELSE 0)
      OBVIOUS
  <2> DEFINE k == Checking(job, c)
  <2>1. k \in Jobs /\ Rounds(k) = left /\ Again(k) = IF c = "poll" THEN 2 ELSE 0
    BY JobTyped, Counted
  <2> HIDE DEF k
  <2>2. StepsFrom("loaded", k) = 10 + 2 * MaxRounds + 7 * Rounds(k) + Again(k) + 5
    BY <2>1, RanksInRound
  <2>3. StepsFrom("loaded", k) = status + 7 * left + 5 + (IF c = "poll" THEN 2 ELSE 0)
    BY <1>1, <2>1, <2>2
  <2> QED BY <2>3 DEF k
<1>6. TimeIsLeft =>
        /\ left >= 1
        /\ StepsFrom("loaded", Checking(NextRound(job), "poll")) =
            status + 7 * (left - 1) + 7
  <2> SUFFICES ASSUME TimeIsLeft
               PROVE  /\ left >= 1
                      /\ StepsFrom("loaded", Checking(NextRound(job), "poll")) =
                            status + 7 * (left - 1) + 7
      OBVIOUS
  <2> DEFINE k == Checking(NextRound(job), "poll")
  <2>1. k \in Jobs /\ Rounds(k) = left - 1 /\ Again(k) = 2
    BY JobTyped, Counted
  <2> HIDE DEF k
  <2>2. StepsFrom("loaded", k) = 10 + 2 * MaxRounds + 7 * Rounds(k) + Again(k) + 5
    BY <2>1, RanksInRound
  <2>3. left >= 1
    BY Counts DEF TimeIsLeft, Rounds
  <2>4. StepsFrom("loaded", k) = status + 7 * (left - 1) + 7
    BY <1>1, <2>1, <2>2
  <2> QED BY <2>3, <2>4 DEF k
<1>7. \A n \in Nat : /\ StepsFrom("round", [job EXCEPT !.stalled = n]) = round + 1
                     /\ StepsFrom("stalled", [job EXCEPT !.stalled = n]) = round + 2
  <2> SUFFICES ASSUME NEW n \in Nat
               PROVE  /\ StepsFrom("round", [job EXCEPT !.stalled = n]) = round + 1
                      /\ StepsFrom("stalled", [job EXCEPT !.stalled = n]) = round + 2
      OBVIOUS
  <2> DEFINE k == [job EXCEPT !.stalled = n]
  <2>1. k \in Jobs /\ Rounds(k) = left /\ Again(k) = again
    BY Typed, Counted
  <2> HIDE DEF k
  <2>2. LET m == 10 + 2 * MaxRounds + 7 * Rounds(k) + Again(k)
        IN  StepsFrom("round", k) = m + 1 /\ StepsFrom("stalled", k) = m + 2
    BY <2>1, RanksInRound
  <2>3. StepsFrom("round", k) = round + 1 /\ StepsFrom("stalled", k) = round + 2
    BY <2>1, <2>2
  <2> QED BY <2>3 DEF k
<1>8. /\ status \in Nat /\ status > 0 /\ round \in Nat /\ status <= round
      /\ round = status + 7 * left + again /\ status + 7 * left <= 10 + 9 * M
  BY <1>1
<1> HIDE DEF M, left, again, status, round
<1>9. CASE Judge
  <2>1. \A k : /\ StepsFrom("body", k) \in 0..(StepsFrom("judge", job) - 1)
               /\ StepsFrom("doubt", k) \in 0..(StepsFrom("judge", job) - 1)
    BY <1>1, <1>3
  <2> QED BY <1>9, <2>1, Moves DEF Judge
<1>10. CASE Doubt
  <2>1. \A k : /\ StepsFrom("body", k) \in 0..(StepsFrom("doubt", job) - 1)
               /\ StepsFrom("begin", k) \in 0..(StepsFrom("doubt", job) - 1)
    BY <1>1, <1>3
  <2> QED BY <1>10, <2>1, Moves DEF Doubt
<1>11. CASE BeginWait
  <2>1. /\ StepsFrom("status", Waited(job)) \in 0..(StepsFrom("begin", job) - 1)
        /\ StepsFrom("loaded", Checking(job, "first"))
                \in 0..(StepsFrom("begin", job) - 1)
    <3>1. StepsFrom("loaded", Checking(job, "first")) = status + 7 * left + 5
      BY <1>1, <1>5, <1>8
    <3> QED BY <1>1, <1>3, <1>4, <1>8, <3>1
  <2> QED BY <1>11, <2>1, Moves DEF BeginWait
<1>12. CASE Loaded
  <2>1. /\ StepsFrom("clear", job) \in 0..(StepsFrom("loaded", job) - 1)
        /\ StepsFrom("round", job) \in 0..(StepsFrom("loaded", job) - 1)
        /\ StepsFrom("length", job) \in 0..(StepsFrom("loaded", job) - 1)
    BY <1>2, <1>8
  <2> QED BY <1>12, <2>1, Moves DEF Loaded, NotSettled
<1>13. CASE Clear
  <2>1. /\ StepsFrom("round", job) \in 0..(StepsFrom("clear", job) - 1)
        /\ StepsFrom("length", job) \in 0..(StepsFrom("clear", job) - 1)
        /\ StepsFrom("status", Waited(job)) \in 0..(StepsFrom("clear", job) - 1)
    BY <1>2, <1>4, <1>8
  <2>2. ASSUME job.check = "poll"
        PROVE  StepsFrom("loaded", Checking(job, "again"))
                    \in 0..(StepsFrom("clear", job) - 1)
    <3>1. again = 2
      BY <2>2 DEF Again, again
    <3>2. StepsFrom("loaded", Checking(job, "again")) = status + 7 * left + 5
      BY <1>1, <1>5, <1>8
    <3> QED BY <1>1, <1>2, <1>8, <3>1, <3>2
  <2> QED BY <1>13, <2>1, <2>2, Moves DEF Clear, NotSettled, Settled
<1>14. CASE Round
  <2>1. StepsFrom("status", Waited(job)) \in 0..(StepsFrom("round", job) - 1)
    BY <1>2, <1>4, <1>8
  <2>2. TimeIsLeft => StepsFrom("loaded", Checking(NextRound(job), "poll"))
                            \in 0..(StepsFrom("round", job) - 1)
    BY <1>1, <1>2, <1>6, <1>8
  <2> QED BY <1>14, <2>1, <2>2, Moves DEF Round
<1>15. CASE Length
  <2>1. \A n \in Nat :
          /\ StepsFrom("round", [job EXCEPT !.stalled = n])
                \in 0..(StepsFrom("length", job) - 1)
          /\ StepsFrom("stalled", [job EXCEPT !.stalled = n])
                \in 0..(StepsFrom("length", job) - 1)
    BY <1>2, <1>7, <1>8
  <2>2. job.stalled \in Nat
    BY DEF Jobs
  <2>3. (IF job.stalled < StallLong THEN job.stalled + 1 ELSE job.stalled) \in Nat
    BY <2>2
  <2> QED BY <1>15, <2>1, <2>3, Moves DEF Length
<1>16. CASE Stalled
  <2>1. /\ StepsFrom("round", job) \in 0..(StepsFrom("stalled", job) - 1)
        /\ StepsFrom("status", Waited(job)) \in 0..(StepsFrom("stalled", job) - 1)
    BY <1>2, <1>4, <1>8
  <2> QED BY <1>16, <2>1, Moves DEF Stalled
<1>17. CASE WaitTimeout
  <2>1. \A from \in {"round", "length", "stalled", "loaded", "clear"} :
          StepsFrom("status", [Waited(job) EXCEPT !.ranOut = TRUE])
                \in 0..(StepsFrom(from, job) - 1)
    BY <1>2, <1>4, <1>8
  <2> QED BY <1>17, <2>1, Moves DEF WaitTimeout
<1> QED BY <1>9, <1>10, <1>11, <1>12, <1>13, <1>14, <1>15, <1>16, <1>17 DEF SmartWait

\* What is left when the page has been waited for, and any end before
LEMMA EndAdvances ==
    ASSUME job \in Jobs, Body \/ Snapshot \/ Collect \/ CloseTab
    PROVE  Nearer
<1>1. CASE Body
  <2>1. \/ pc = "body" /\ pc' \in {"resolve", "asked"}
        \/ pc = "asked" /\ pc' = "resolve"
        \/ pc = "resolve" /\ pc' \in {"snapshot", "binary", "html"}
        \/ pc = "binary" /\ pc' \in {"snapshot", "html"}
        \/ pc = "html" /\ pc' = "snapshot"
    BY <1>1 DEF Body, AskBody, GotBody, Resolve, FetchBinary, ReadHtml, Answers, Go, Goto
  <2> QED BY <2>1, RanksAtTheEnd DEF Nearer, StepsLeft
<1>2. CASE Snapshot \/ Collect \/ CloseTab
  <2>1. \/ pc = "snapshot" /\ pc' = "jar"
        \/ pc = "jar" /\ pc' = "close"
        \/ pc = "close" /\ pc' = "over"
    BY <1>2 DEF Snapshot, Collect, CloseTab, Go, Goto
  <2> QED BY <2>1, RanksAtTheEnd DEF Nearer, StepsLeft
<1> QED BY <1>1, <1>2

LEMMA RaiseAdvances ==
    ASSUME job \in Jobs, Raise
    PROVE  Nearer
<1>1. CASE pc \in Setup
  <2>1. pc' = "over"
    BY <1>1 DEF Raise, Failed, Goto
  <2>2. StepsFrom(pc, job) \in Nat \ {0}
    BY <1>1, RanksOnTheWay, PageAssumption DEF Setup
  <2> QED BY <2>1, <2>2, RanksAtTheEnd DEF Nearer, StepsLeft
<1>2. CASE pc \in Loading
  <2>1. pc' = "close"
    BY <1>2 DEF Raise, Failed, Goto, Loading, Setup, Outset, Visit, Extras
  <2>2. /\ MaxRounds \in Nat /\ Rounds(job) \in Nat /\ Again(job) \in Nat
        /\ ForStatus(job) \in Nat /\ ForStatus(job) >= 8
    BY Counts
  <2>3. StepsFrom(pc, job) \in Nat /\ StepsFrom(pc, job) >= 2
    <3>1. CASE pc \in {"intercept", "listen", "post", "posted", "inpage", "navigate",
                       "land", "interact"}
      BY <2>2, <3>1, RanksOnTheWay
    <3>2. CASE pc \in {"status", "title"}
      BY <2>2, <3>2, RanksOfStatus
    <3>3. CASE pc \in {"judge", "doubt", "begin"}
      BY <2>2, <3>3, RanksOfDoubt
    <3>4. CASE pc \in {"loaded", "clear", "round", "length", "stalled"}
      BY <2>2, <3>4, RanksInRound
    <3>5. CASE pc \in {"body", "asked", "resolve", "binary", "html", "snapshot", "jar"}
      BY <3>5, RanksAtTheEnd
    <3> QED BY <1>2, <3>1, <3>2, <3>3, <3>4, <3>5 DEF Loading, Outset, Visit, Extras
  <2> QED BY <2>1, <2>3, RanksAtTheEnd DEF Nearer, StepsLeft
<1> QED BY <1>1, <1>2 DEF Raise

-----------------------------------------------------------------------------
LEMMA PageIsInductive == PageSpec => []PageInv
<1>1. PageInv /\ [PageNext]_pageVars => PageInv'
  BY TypeStep, TabStep, CaptureStep, AskStep, WaitStep, AnswerStep DEF PageInv
<1> QED BY PageStart, <1>1, PTL DEF PageSpec

\* The variables have their types: the capture never knows more responses than
\* there were, and has an id exactly when it has a status.
THEOREM PageTypeCorrect == PageSpec => []PageTypeOK
<1>1. PageInv => PageTypeOK
  BY DEF PageInv
<1> QED BY <1>1, PageIsInductive, PTL

\* _do_fetch closes its tab however it ends, but for what goes wrong before its
\* try block; a tab is only left with an exception from there.
THEOREM TabIsClosed == PageSpec => []NoTabLeft
<1>1. PageInv => NoTabLeft
  BY DEF PageInv, TabInv
<1> QED BY <1>1, PageIsInductive, PTL

\* A fetch reports a status given for its URL: a success that no redirect came
\* before, whatever blocks came when; never a redirect if a block came.
THEOREM StatusIsHeard == PageSpec => []StatusAsHeard
<1>1. PageInv => StatusAsHeard
  BY DEF PageInv, AnswerInv, StatusAsHeard, After, Best
<1> QED BY <1>1, PageIsInductive, PTL

\* The body and the content type get_body() gives are one response's, but for a
\* response that arrives while Chrome is asked.
THEOREM BodyIsOneResponse == PageSpec => []OneResponse
<1>1. PageInv => OneResponse
  BY DEF PageInv, AnswerInv, OneResponse, After
<1> QED BY <1>1, PageIsInductive, PTL

\* _smart_wait takes no challenge for the page, however often the text stalls.
THEOREM ChallengeIsWaitedOut == PageSpec => []ChallengeWaitedOut
<1>1. PageInv => ChallengeWaitedOut
  BY DEF PageInv, AnswerInv, ChallengeWaitedOut, After
<1> QED BY <1>1, PageIsInductive, PTL

\* A fetch comes nearer to its end with every step of its own, and nothing the site
\* sends or the tab shows takes it back: _wait_for_status and _smart_wait count
\* down their time, whatever documents pass.
THEOREM FetchAlwaysAdvances == PageSpec => FetchAdvances
<1>1. PageTypeOK /\ Fetch => Nearer
  <2> SUFFICES ASSUME PageTypeOK, Fetch PROVE Nearer
      OBVIOUS
  <2>1. job \in Jobs
    BY DEF PageTypeOK
  <2> QED BY <2>1, ArrivalAdvances, StatusAdvances, WaitAdvances, EndAdvances,
             RaiseAdvances DEF Fetch
<1>2. PageTypeOK /\ Chrome => StepsLeft' = StepsLeft
  <2> SUFFICES ASSUME PageTypeOK, Chrome PROVE StepsLeft' = StepsLeft
      OBVIOUS
  <2>1. job \in Jobs /\ UNCHANGED pc
    BY DEF PageTypeOK, Chrome, Respond, Show
  <2>2. /\ job'.rounds = job.rounds /\ job'.waited = job.waited
        /\ job'.check = job.check
    BY <2>1 DEF Chrome, Respond, Show, Jobs
  <2> QED BY <2>1, <2>2 DEF StepsLeft, StepsFrom
<1>3. PageTypeOK => [/\ Fetch => StepsLeft' \in 0..(StepsLeft - 1)
                     /\ Chrome => StepsLeft' = StepsLeft]_pageVars
  BY <1>1, <1>2 DEF Nearer
<1> QED BY <1>3, PageTypeCorrect, PTL DEF FetchAdvances

=============================================================================
