------------------------------ MODULE Download ------------------------------
(***************************************************************************)
(* The way of a request through StealthDownloaderMiddleware and            *)
(* EngineManager (middlewares/stealth.py, manager.py,                      *)
(* utils/engine/fallback.py) to BaseEngine._execute_timed, where the       *)
(* throttle holds it back, and of the answer back: one that looks like a   *)
(* ban is fetched once more with the browser.                              *)
(*                                                                         *)
(* A thread here is a coroutine of process_request and the worker that     *)
(* runs its fetch.  What the middleware does between two awaits is one     *)
(* step.  The answers are HttpEngine's and BrowserEngine's, of which only  *)
(* the outcome matters here.                                               *)
(*                                                                         *)
(* The marks of the fallback are in request.meta["stealth"], a dict that a *)
(* copy of the request (a retry, a follow-up made with the same meta)      *)
(* shares with it: request.meta is copied, not what is in it.              *)
(***************************************************************************)
EXTENDS Throttle, FiniteSets

CONSTANTS HttpDrivers,     \* _HTTP_DRIVERS
          Browser,         \* FALLBACK_DRIVER
          AutoDriver, NoDriver,  \* driver="auto"; no driver in the meta
          Unknown,         \* a name no engine has
          Turbo,           \* "turbo"
          ConfigDriver,    \* STEALTH_DRIVER
          StealthEnabled,  \* STEALTH_ENABLED
          Metas,           \* the stealth dicts of the requests
          MaxRequests,     \* bound: requests begun
          MaxOpened        \* bound: spiders opened after the first

ASSUME DownloadAssumption ==
    /\ Drivers = HttpDrivers \union {Browser} /\ Browser \notin HttpDrivers
    /\ Turbo \in HttpDrivers
    /\ {AutoDriver, NoDriver, Unknown} \intersect Drivers = {}
    /\ ConfigDriver \in Drivers \union {AutoDriver, Unknown}
    /\ StealthEnabled \in BOOLEAN /\ Metas # {}
    /\ MaxRequests \in Nat /\ MaxOpened \in Nat

VARIABLES meta,   \* the contents of the stealth dicts
          pc,     \* where each coroutine is
          job,    \* its request
          made,   \* the drivers whose engine exists: EngineManager._stealth
          begun,  \* requests begun so far
          opened  \* spiders opened so far, this one not counted

downloadVars == <<clock, throttleVars, meta, pc, job, made, begun, opened>>

Contents == [driver : Drivers \union {AutoDriver, NoDriver, Unknown},
             fallback : BOOLEAN,   \* False only for fallback=False
             done : BOOLEAN,       \* _driver_fallback_done
             escalated : Nat]      \* history: browser retries of its requests

\* What a fetch comes to: None, an exception, a page, a ban (403, 503 or a
\* challenge), a 429.
Outcomes == {"none", "raised", "page", "ban", "limited"}
Answers == {"page", "ban", "limited"}

\* What process_request ends with: one of these, an exception of the engine's own
\* construction, or a CancelledError.
Ends == Outcomes \union {"unmade", "cancelled"}

NoJob == [meta |-> CHOOSE m \in Metas : TRUE, primary |-> Browser,
          driver |-> Browser, first |-> "none", result |-> "none"]

Jobs == [meta : Metas,
         primary : Drivers,      \* primary_driver
         driver : Drivers,       \* whose fetch is under way
         first : Outcomes,       \* what the primary engine came to
         result : Ends]          \* what process_request ends with

DownloadTypeOK ==
    /\ ClockTypeOK /\ ThrottleTypeOK
    /\ meta \in [Metas -> Contents]
    /\ pc \in [Threads -> {"idle", "wait", "asleep", "fetch", "answered", "ended"}]
    /\ job \in [Threads -> Jobs]
    /\ made \subseteq Drivers
    /\ begun \in Nat /\ opened \in Nat

DownloadInit ==
    /\ ClockInit /\ ThrottleInit
    /\ meta \in [Metas -> [driver : Drivers \union {AutoDriver, NoDriver, Unknown},
                           fallback : BOOLEAN, done : {FALSE}, escalated : {0}]]
    /\ pc = [t \in Threads |-> "idle"]
    /\ job = [t \in Threads |-> NoJob]
    /\ made = {}
    /\ begun = 0 /\ opened = 0

Go(t, place) == pc' = [pc EXCEPT ![t] = place]

-----------------------------------------------------------------------------
\* _apply_stealth_enabled_defaults: "auto" where the request names no driver.
Defaulted(c) ==
    IF StealthEnabled /\ c.driver = NoDriver THEN [c EXCEPT !.driver = AutoDriver]
    ELSE c

\* EngineManager.get: "auto" is an HTTP driver, from the request's meta or from
\* the configuration; a name that no engine has is the configured driver's.
Primary(driver) ==
    CASE driver \in Drivers -> driver
      [] driver = AutoDriver \/ (driver = NoDriver /\ ConfigDriver = AutoDriver) ->
            IF ConfigDriver \in HttpDrivers THEN ConfigDriver ELSE Turbo
      [] OTHER -> IF ConfigDriver \in Drivers THEN ConfigDriver ELSE Turbo

\* _ensure_stealth: an engine is made on first use.  If proxies are configured its
\* constructor picks one of them, and that may raise (base.py:245).
Made(d) == made' = made \union {d}
Unmade(d) == d \notin made /\ UNCHANGED made

\* process_request, up to the fetch of the primary engine
BeginRequest(t) ==
    /\ pc[t] \in {"idle", "ended"} /\ begun < MaxRequests
    /\ begun' = begun + 1
    /\ \E m \in Metas :
        LET primary == Primary(Defaulted(meta[m]).driver)
            new == [NoJob EXCEPT !.meta = m, !.primary = primary, !.driver = primary]
        IN  /\ meta' = [meta EXCEPT ![m] = Defaulted(@)]
            /\ \/ Made(primary) /\ job' = [job EXCEPT ![t] = new] /\ Go(t, "wait")
               \/ /\ Unmade(primary) /\ Go(t, "ended")
                  /\ job' = [job EXCEPT ![t] = [new EXCEPT !.result = "unmade"]]
    /\ UNCHANGED <<clock, throttleVars, opened>>

\* _execute_timed: wait() reserves and sleeps ...
Wait(t) ==
    /\ pc[t] = "wait"
    /\ \E jitter \in Jitters : Reserve(t, job[t].driver, jitter)
    /\ Go(t, "asleep")
    /\ UNCHANGED <<clock, meta, job, made, begun, opened>>

\* ... and wakes up,
Leave(t) ==
    /\ pc[t] = "asleep" /\ WakeUp(t)
    /\ Go(t, "fetch")
    /\ UNCHANGED <<clock, meta, job, made, begun, opened>>

\* the engine answers, and record() hears of it, of an exception excepted.  A
\* ban may be a status of 400 and above or a challenge with status 200.
StatusesOf(outcome) ==
    CASE outcome = "limited" -> {"limited"}
      [] outcome \in {"page", "ban"} -> {"error", "fine"}
      [] outcome = "none" -> {"fine"}

RecordOutcome(d, outcome) ==
    IF outcome = "raised" THEN UNCHANGED throttleVars
    ELSE /\ \E status \in StatusesOf(outcome), latency \in {"fast", "slow"},
               after \in IF outcome = "none" THEN {0} ELSE RetryAfters :
                RecordAnswer(d, status, latency, after)
         /\ UNCHANGED <<sleep, paced>>

Retrying(t) == job[t].driver # job[t].primary
Cancelled(t) == job[t].result = "cancelled"

Answer(t) ==
    /\ pc[t] = "fetch" /\ ~Retrying(t) /\ ~Cancelled(t)
    /\ \E outcome \in Outcomes :
        /\ RecordOutcome(job[t].driver, outcome)
        /\ job' = [job EXCEPT ![t].first = outcome]
    /\ Go(t, "answered")
    /\ UNCHANGED <<clock, meta, made, begun, opened>>

\* A coroutine may be cancelled where it awaits a fetch.  The worker knows nothing of
\* it, and goes on, if it has begun, to the record() of an answer nobody hears of.
Cancel(t) ==
    /\ pc[t] \in {"wait", "asleep", "fetch"} /\ ~Cancelled(t)
    /\ job' = [job EXCEPT ![t].result = "cancelled"]
    /\ \/ UNCHANGED pc
       \/ pc[t] = "wait" /\ Go(t, "ended")
    /\ UNCHANGED <<clock, throttleVars, meta, made, begun, opened>>

AnswerNobody(t) ==
    /\ pc[t] = "fetch" /\ Cancelled(t)
    /\ \E outcome \in Outcomes : RecordOutcome(job[t].driver, outcome)
    /\ Go(t, "ended")
    /\ UNCHANGED <<clock, meta, job, made, begun, opened>>

-----------------------------------------------------------------------------
\* should_driver_fallback
ShouldFallBack(j) ==
    /\ ~meta[j.meta].done /\ meta[j.meta].fallback
    /\ meta[j.meta].driver = AutoDriver
    /\ j.primary \in HttpDrivers
    /\ j.first \in {"ban", "limited"}

Return(t) ==
    /\ pc[t] = "answered" /\ ~ShouldFallBack(job[t])
    /\ job' = [job EXCEPT ![t].result = job[t].first]
    /\ Go(t, "ended")
    /\ UNCHANGED <<clock, throttleVars, meta, made, begun, opened>>

\* mark_fallback_done, and then the browser engine, which may be made only now: what
\* its constructor raises is not caught, and the answer is lost.
Escalated(c) == [c EXCEPT !.escalated = @ + 1]
Marked(c) == [Escalated(c) EXCEPT !.done = TRUE]

Escalate(t) ==
    /\ pc[t] = "answered" /\ ShouldFallBack(job[t])
    /\ meta' = [meta EXCEPT ![job[t].meta] = Marked(@)]
    /\ \/ Made(Browser) /\ job' = [job EXCEPT ![t].driver = Browser] /\ Go(t, "wait")
       \/ /\ Unmade(Browser) /\ Go(t, "ended")
          /\ job' = [job EXCEPT ![t].result = "unmade"]
    /\ UNCHANGED <<clock, throttleVars, begun, opened>>

\* What came of the browser's fetch, if it is a response, else the primary's.
KeptRetry(first, second) == second
Kept(first, second) == IF second \in Answers THEN second ELSE first

AnswerRetry(t) ==
    /\ pc[t] = "fetch" /\ Retrying(t) /\ ~Cancelled(t)
    /\ \E outcome \in Outcomes :
        /\ RecordOutcome(Browser, outcome)
        /\ job' = [job EXCEPT ![t].result = Kept(job[t].first, outcome)]
    /\ Go(t, "ended")
    /\ UNCHANGED <<clock, meta, made, begun, opened>>

\* spider_opened of another spider in this process, which shares the registry
OpenSpider ==
    /\ opened < MaxOpened
    /\ opened' = opened + 1
    /\ ResetThrottle
    /\ UNCHANGED <<clock, meta, pc, job, made, begun>>

DownloadTick ==
    ClockTick /\ UNCHANGED <<throttleVars, meta, pc, job, made, begun, opened>>

Request(t) ==
    \/ BeginRequest(t) \/ Wait(t) \/ Leave(t) \/ Answer(t)
    \/ Return(t) \/ Escalate(t) \/ AnswerRetry(t)
    \/ Cancel(t) \/ AnswerNobody(t)

DownloadNext == (\E t \in Threads : Request(t)) \/ OpenSpider \/ DownloadTick

DownloadSpec == DownloadInit /\ [][DownloadNext]_downloadVars

-----------------------------------------------------------------------------
\* One stealth dict sends at most one browser retry, however many requests share
\* it and however they interleave (fallback.py:45, stealth.py:158: the mark is
\* set before the retry is awaited).
EscalatedOnce == \A m \in Metas : meta[m].escalated <= 1

\* A request that the primary engine has answered ends with a response whatever
\* becomes of the browser's retry: an exception or None of its fetch is never what
\* process_request returns (stealth.py:164-173).  Two things still lose the answer: the
\* construction of the browser engine, before the try block, and cancellation.
ResponseKept ==
    \A t \in Threads :
        pc[t] = "ended" /\ job[t].first \in Answers =>
            job[t].result \in Answers \union {"unmade", "cancelled"}

\* Once a slot knows of a Retry-After, no later answer brings its end forward:
\* only a spider that opens does (throttle.py:164, 185).
RetryAfterNeverShortened ==
    [][opened' = opened =>
        \A d \in Drivers : spacing'[d].limit >= spacing[d].limit]_downloadVars
=============================================================================
