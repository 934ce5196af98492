----------------------------- MODULE HttpEngine -----------------------------
(***************************************************************************)
(* The basic and turbo engines (engines/basic.py, turbo.py, base.py): the  *)
(* threads of the executor run _execute() for one request after another on *)
(* one engine object, whose ban tracker, session cache and default proxy   *)
(* they share with no lock around the whole.  Every access to one of these *)
(* is a step.                                                              *)
(*                                                                         *)
(* The fingerprint profile is not state here: nothing below depends on it  *)
(* but the key of the session, and a request may have any key.             *)
(***************************************************************************)
EXTENDS BanStreak, SessionCache, ProxyHealth

CONSTANTS Domain,      \* the host of the requests
          MaxRequests  \* bound: requests begun in a behaviour

ASSUME HttpAssumption ==
    Domain \in Domains /\ MaxRequests \in Nat /\ IsFiniteSet(Threads)

VARIABLES pc,            \* where each thread is in _execute()
          job,           \* its request
          defaultProxy,  \* _default_proxy
          begun          \* how many requests have begun

httpVars == <<clock, trackerVars, cacheVars, slots, pick,
              pc, job, defaultProxy, begun>>

\* How a call to the server ends: a clean response, a failure that is neither
\* a ban nor a circuit code (500), a challenge page (a ban, HTTP 200), a block
\* code (403), a failed connection, or anything else (timeout, bad request).
Endings == {"clean", "error", "challenge", "blocked", "transport", "other"}

Banned(ending) == ending \in {"challenge", "blocked"}

\* _record_proxy_health: success is "not banned and status < 400"
HealthOutcome(ending) ==
    CASE ending = "clean" -> "success"
      [] ending \in {"error", "challenge"} -> "soft"
      [] ending \in {"blocked", "transport"} -> "trip"

Labels == {"idle", "lookup", "create", "store", "fetch", "missed", "calling",
           "health", "bans", "adopt", "rotate", "picking",
           "acknowledge", "clear", "clearing"}

Jobs == [key : SessionKeys, proxy : Proxies \union {NoProxy},
         session : Nat, ending : Endings \union {"none"},
         floor : SUBSET Nat]  \* history: fresh.done when get() looked for the key

NoJob == [key |-> CHOOSE k \in SessionKeys : TRUE, proxy |-> NoProxy,
          session |-> 0, ending |-> "none", floor |-> {}]

HttpTypeOK ==
    /\ ClockTypeOK /\ TrackerTypeOK /\ CacheTypeOK /\ HealthTypeOK
    /\ pc \in [Threads -> Labels]
    /\ job \in [Threads -> Jobs]
    /\ defaultProxy \in Proxies \union {NoProxy}
    /\ begun \in Nat

\* seed_proxy_from_config: the pool is asked before anything is known of it.
HttpInit ==
    /\ ClockInit /\ TrackerInit /\ CacheInit /\ HealthInit
    /\ pc = [t \in Threads |-> "idle"]
    /\ job = [t \in Threads |-> NoJob]
    /\ defaultProxy \in IF Pool = {} THEN {NoProxy} ELSE Pool
    /\ begun = 0

Goto(t, label) == pc' = [pc EXCEPT ![t] = label]

\* Go on to `label`; a request that is over leaves nothing behind.
Proceed(t, label) ==
    /\ Goto(t, label)
    /\ job' = IF label = "idle" THEN [job EXCEPT ![t] = NoJob] ELSE job

-----------------------------------------------------------------------------
\* _ctx(): an explicit meta proxy, None included, wins over the default.
Begin(t) ==
    /\ pc[t] = "idle"
    /\ begun < MaxRequests
    /\ begun' = begun + 1
    /\ \E k \in SessionKeys, p \in Proxies \union {NoProxy, defaultProxy} :
        job' = [job EXCEPT ![t] = [NoJob EXCEPT !.key = k, !.proxy = p]]
    /\ Goto(t, "lookup")
    /\ UNCHANGED <<clock, trackerVars, cacheVars, slots, pick, defaultProxy>>

\* SessionCache.get, step by step
Register(t) ==
    /\ pc[t] = "lookup" /\ t \notin registered
    /\ CacheRegister(t)
    /\ UNCHANGED <<clock, trackerVars, slots, pick,
                   pc, job, defaultProxy, begun>>

Lookup(t) ==
    /\ pc[t] = "lookup" /\ t \in registered
    /\ Goto(t, IF Misses(t, job[t].key) THEN "create" ELSE "fetch")
    /\ job' = [job EXCEPT ![t].floor = fresh.done]
    /\ UNCHANGED <<clock, trackerVars, cacheVars, slots, pick,
                   defaultProxy, begun>>

Create(t) ==
    /\ pc[t] = "create"
    /\ CacheMake(t)
    /\ Goto(t, "store")
    /\ UNCHANGED <<clock, trackerVars, slots, pick, job, defaultProxy, begun>>

Store(t) ==
    /\ pc[t] = "store"
    /\ CacheStore(t, job[t].key)
    /\ Goto(t, "fetch")
    /\ UNCHANGED <<clock, trackerVars, slots, pick, job, defaultProxy, begun>>

\* return store[key]: a KeyError if the dict was emptied in the meantime, which
\* _execute() logs and turns into None.
Fetch(t) ==
    /\ pc[t] = "fetch"
    /\ Goto(t, IF Misses(t, job[t].key) THEN "missed" ELSE "calling")
    /\ job' = [job EXCEPT ![t].session = stores[t][job[t].key]]
    /\ UNCHANGED <<clock, trackerVars, cacheVars, slots, pick,
                   defaultProxy, begun>>

GiveUp(t) ==
    /\ pc[t] = "missed"
    /\ Proceed(t, "idle")
    /\ UNCHANGED <<clock, trackerVars, cacheVars, slots, pick,
                   defaultProxy, begun>>

\* The server answers, or the call fails.  A connection that failed without a
\* proxy, a timeout and an unexpected error change nothing.
Answer(t) ==
    /\ pc[t] = "calling"
    /\ \E ending \in Endings :
        LET label == CASE ending = "other" -> "idle"
                       [] ending = "transport" /\ job[t].proxy = NoProxy -> "idle"
                       [] ending # "transport" /\ job[t].proxy = NoProxy -> "bans"
                       [] OTHER -> "health"
        IN  /\ Goto(t, label)
            /\ job' = [job EXCEPT ![t] =
                          IF label = "idle" THEN NoJob
                          ELSE [NoJob EXCEPT !.proxy = job[t].proxy, !.ending = ending]]
    /\ UNCHANGED <<clock, trackerVars, cacheVars, slots, pick,
                   defaultProxy, begun>>

-----------------------------------------------------------------------------
\* _record_proxy_health, and the first half of _on_proxy_transport_failure
RecordHealth(t) ==
    /\ pc[t] = "health"
    /\ RecordOutcome(job[t].proxy, Domain, HealthOutcome(job[t].ending))
    /\ Proceed(t, IF job[t].ending # "transport" THEN "bans"
               ELSE IF Pool = {} THEN "idle" ELSE "rotate")
    /\ UNCHANGED <<clock, trackerVars, cacheVars, pick, defaultProxy, begun>>

\* should_recycle = self._bans.record(banned)
CountBan(t) ==
    /\ pc[t] = "bans" /\ Banned(job[t].ending)
    /\ RecordBan(t)
    /\ Proceed(t, IF Claims(streak + 1) THEN "adopt" ELSE "idle")
    /\ UNCHANGED <<clock, cacheVars, slots, pick, defaultProxy, begun>>

CountClean(t) ==
    /\ pc[t] = "bans" /\ ~Banned(job[t].ending)
    /\ RecordClean
    /\ Proceed(t, "idle")
    /\ UNCHANGED <<clock, cacheVars, slots, pick, defaultProxy, begun>>

-----------------------------------------------------------------------------
\* _recycle_identity: with no pool, the proxy of the request becomes the default.
Adopt(t) ==
    /\ pc[t] = "adopt"
    /\ defaultProxy' = IF job[t].proxy # NoProxy
                          /\ (Pool = {} \/ defaultProxy = NoProxy)
                       THEN job[t].proxy ELSE defaultProxy
    /\ Goto(t, IF Pool = {} THEN "acknowledge" ELSE "rotate")
    /\ UNCHANGED <<clock, trackerVars, cacheVars, slots, pick, job, begun>>

\* _rotate_default_proxy: pick() any proxy of the pool but the current default
Rotate(t) ==
    /\ pc[t] = "rotate"
    /\ PickStart(t, Domain, defaultProxy)
    /\ Goto(t, "picking")
    /\ UNCHANGED <<clock, trackerVars, cacheVars, job, defaultProxy, begun>>

Pick(t) ==
    /\ pc[t] = "picking"
    /\ PickStep(t)
    /\ UNCHANGED <<clock, trackerVars, cacheVars, pc, job, defaultProxy, begun>>

\* self._default_proxy = new; a transport failure then leaves _execute()
InstallLeaves(t) ==
    /\ pc[t] = "picking" /\ pick[t].phase = "picked"
    /\ defaultProxy' = pick[t].result
    /\ PickEnd(t)
    /\ Proceed(t, "idle")
    /\ UNCHANGED <<clock, trackerVars, cacheVars, slots, begun>>
Install(t) ==
    /\ pc[t] = "picking" /\ pick[t].phase = "picked"
    /\ defaultProxy' = pick[t].result
    /\ PickEnd(t)
    /\ Proceed(t, IF job[t].ending = "transport" THEN "idle" ELSE "acknowledge")
    /\ UNCHANGED <<clock, trackerVars, cacheVars, slots, begun>>

\* The IndexError of pick() ends _execute(): nobody between here and its
\* `except Exception` catches it, so the recycle is left where it is.
PickFailedAgain(t) ==
    /\ pc[t] = "picking" /\ pick[t].phase = "raised"
    /\ PickEnd(t)
    /\ Proceed(t, "rotate")
    /\ UNCHANGED <<clock, trackerVars, cacheVars, slots, defaultProxy, begun>>
PickFailed(t) ==
    /\ pc[t] = "picking" /\ pick[t].phase = "raised"
    /\ PickEnd(t)
    /\ Proceed(t, "idle")
    /\ UNCHANGED <<clock, trackerVars, cacheVars, slots, defaultProxy, begun>>

\* self._bans.acknowledge_restart()
Acknowledge(t) ==
    /\ pc[t] = "acknowledge"
    /\ AcknowledgeRestart(t)
    /\ Goto(t, "clear")
    /\ UNCHANGED <<clock, cacheVars, slots, pick, job, defaultProxy, begun>>

\* self._sessions.clear_all()
Clear(t) ==
    /\ \/ pc[t] = "clear" /\ ClearBegin(t) /\ Proceed(t, "clearing")
       \/ /\ pc[t] = "clearing"
          /\ (\E u \in Threads : ClearClose(t, u)) \/ ClearEmpty(t)
          /\ UNCHANGED <<pc, job>>
       \/ pc[t] = "clearing" /\ ClearEnd(t) /\ Proceed(t, "idle")
    /\ UNCHANGED <<clock, trackerVars, slots, pick, defaultProxy, begun>>

-----------------------------------------------------------------------------
GetSession(t) == \/ Register(t) \/ Lookup(t) \/ Create(t) \/ Store(t)
                 \/ Fetch(t) \/ GiveUp(t)
Judge(t) == RecordHealth(t) \/ CountBan(t) \/ CountClean(t)
Recycle(t) == \/ Adopt(t) \/ Rotate(t) \/ Pick(t) \/ Install(t)
              \/ PickFailed(t) \/ Acknowledge(t) \/ Clear(t)

\* A step of t in a request it has begun.
Work(t) == GetSession(t) \/ Answer(t) \/ Judge(t) \/ Recycle(t)

HttpTick ==
    /\ HealthTick
    /\ UNCHANGED <<trackerVars, cacheVars, pc, job, defaultProxy, begun>>

HttpNext == HttpTick \/ \E t \in Threads : Begin(t) \/ Work(t)

HttpSpec == HttpInit /\ [][HttpNext]_httpVars

\* A running thread is scheduled, and a call to a server ends (the sessions are
\* given a timeout).
FairHttpSpec == HttpSpec /\ \A t \in Threads : WF_httpVars(Work(t))

-----------------------------------------------------------------------------
\* The tracker is the lease RecycleLease describes: one recycle at a time, and
\* never two acknowledged ones within the cooldown, whatever the threads do.
Lease == INSTANCE RecycleLease
            WITH Cooldown <- RecycleCooldown, released <- lastRestart
LeaseSpec == Lease!Spec

\* A recycle reaches everybody: a request that asks for its session after a
\* recycle is not sent with one that was in any thread's dict when the recycle
\* began, and so may have been used (constants.py:81-83, "clear cached HTTP
\* clients/sessions").  A session that a thread has made and not yet stored
\* outlives the recycle: it has no connection and no cookies then.
FreshAfterRecycle ==
    \A t \in Threads : pc[t] = "calling" => job[t].session \notin job[t].floor

\* No thread waits for ever for another one, for a lock or in a loop of pick().
EveryRequestEnds == \A t \in Threads : pc[t] # "idle" ~> pc[t] = "idle"

\* What is left to a request at most, in steps of its own thread: all that a pick
\* and a clear_all() take of a pool and of the threads whose dicts are listed.
PickSteps(k) ==
    LET n == Cardinality(Pool)
        reads == IF k.reading # NoProxy THEN 1 ELSE 0
    IN  CASE k.phase = "available" -> 4 * n + 1 + Cardinality(k.todo)
          [] k.phase = "best" -> 2 * n + 1 + 2 * Cardinality(k.todo) - reads
          [] k.phase = "top" -> 1 + 2 * Cardinality(k.todo) - reads
          [] OTHER -> 0

ClearSteps ==
    2 * Cardinality(toClear) - (IF emptying # NoThread THEN 1 ELSE 0)

StepsLeft(t) ==
    LET cleared == 2 * Cardinality(Threads) + 1
        rotated == cleared + 2 + 5 * Cardinality(Pool) + 2
        Before(n) == rotated + n
    IN  CASE pc[t] = "idle" -> 0
          [] pc[t] = "clearing" -> 1 + ClearSteps
          [] pc[t] = "clear" -> cleared + 1
          [] pc[t] = "acknowledge" -> cleared + 2
          [] pc[t] = "picking" -> cleared + 3 + PickSteps(pick[t])
          [] pc[t] = "rotate" -> Before(1)
          [] pc[t] = "adopt" -> Before(2)
          [] pc[t] = "bans" -> Before(3)
          [] pc[t] = "health" -> Before(4)
          [] pc[t] \in {"calling", "missed"} -> Before(5)
          [] pc[t] = "fetch" -> Before(6)
          [] pc[t] = "store" -> Before(7)
          [] pc[t] = "create" -> Before(8)
          [] pc[t] = "lookup" -> Before(IF t \in registered THEN 9 ELSE 10)

\* Every step a request makes brings its end nearer, and no step of another thread
\* puts it off: neither do the proxies that are recorded and cooled under a pick
\* keep it going, nor the dicts that are listed under a clear_all().
RequestsAdvance ==
    [][\A t \in Threads :
        /\ Work(t) => StepsLeft(t)' \in 0..(StepsLeft(t) - 1)
        /\ pc[t] # "idle" => StepsLeft(t)' <= StepsLeft(t)]_httpVars

\* t is on the way from a claim to its acknowledgement.  A thread that rotates
\* because a connection failed takes some of the same steps and acknowledges
\* nothing; how its call ended tells the two apart.
Recycling(t) ==
    \/ pc[t] \in {"adopt", "acknowledge"}
    \/ pc[t] \in {"rotate", "picking"} /\ job[t].ending # "transport"

\* A claim is in the hands of a thread that is on its way to acknowledging it.
\* It is what makes the next ban wave able to recycle (session.py:66-67).
ClaimIsLive == claimed => \E t \in holders : Recycling(t)

\* Nothing but an IndexError of pick() makes an engine lose a claim: whatever the
\* threads do to each other between the steps of a recycle, and whether or not
\* another recycle has been lost before, the thread that was told to recycle
\* goes on to acknowledge it (session.py:64-67).  The profiles the basic engine picks
\* are taken to be known to wreq: resolve_browser() (basic.py:87) raises for others.
ClaimLostOnlyByPick ==
    [][ClaimIsLive => \/ ClaimIsLive'
                      \/ \E t \in Threads : PickFailed(t)]_httpVars

\* With a pool configured the engine's default proxy is one of the pool,
\* whatever proxies the requests bring along (base.py:264-266, 294-297).
DefaultFromPool == Pool # {} => defaultProxy \in Pool

\* get() finds the session it has just looked for or stored (session.py:16-18:
\* "subsequent accesses on the same thread return the cached instance.  No
\* locking is needed because every thread operates on its own storage").
GetReturnsSession == \A t \in Threads : pc[t] # "missed"
=============================================================================
