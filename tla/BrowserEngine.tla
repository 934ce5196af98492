--------------------------- MODULE BrowserEngine ---------------------------
(***************************************************************************)
(* BrowserEngine (engines/browser.py): one persistent Chrome, driven from  *)
(* one asyncio loop in a thread of its own, shared by the executor's       *)
(* threads.  A request submits a fetch task to the loop and waits for it;  *)
(* the task opens a tab, loads the page and closes the tab.  A thread may  *)
(* replace Chrome and the loop under everybody: because a request names    *)
(* another CDP endpoint, because the DNS overrides changed, or because of  *)
(* a streak of bans.                                                       *)
(*                                                                         *)
(* Chrome is launched here (Local), or is one that runs elsewhere and is   *)
(* connected to: it is then not ours to stop, and proxy and DNS pins reach *)
(* its tabs through a browser context made for them.                       *)
(*                                                                         *)
(* Held over several steps, `lock` is the engine's _lock.  _restarting is  *)
(* not state: it is only ever True inside _reset_browser, which holds      *)
(* _lock throughout, so nobody that takes the lock can see it True.        *)
(***************************************************************************)
EXTENDS BanStreak, Sequences

CONSTANTS NoThread,
          DnsMaps,      \* fingerprints of DNS override maps
          NoDns,        \* (): no overrides
          Endpoints,    \* CDP endpoints a request may name
          Local,        \* _cdp_url is None: Chrome is launched here
          Asks,         \* what requests ask for
          MaxTabs,      \* BROWSER_MAX_TABS
          MaxAttempts,  \* range(5) in _execute
          MaxRequests,  \* bound: requests begun
          MaxCrashes,   \* bound: times Chrome dies of itself
          MaxFailures   \* bound: launches of Chrome that fail

ASSUME BrowserAssumption ==
    /\ NoThread \notin Threads /\ IsFiniteSet(Threads)
    /\ NoDns \in DnsMaps /\ Local \notin Endpoints
    /\ Asks \subseteq [dns : DnsMaps, cdp : Endpoints \union {Local},
                       proxied : BOOLEAN]
    /\ Asks # {}
    /\ MaxTabs \in Nat \ {0}
    /\ MaxAttempts \in Nat \ {0}
    /\ {MaxRequests, MaxCrashes, MaxFailures} \subseteq Nat

VARIABLES lock,         \* the thread inside `with self._lock`, over steps
          browser,      \* _browser: the number of a Chrome, 0 is None
          chromes,      \* the Chromes launched or connected to so far
          up,           \* those that are running, and connected to
          tabSem,       \* _tab_sem: the Chrome it was made for, 0 is None
          dnsWanted,    \* _dns_overrides
          launchedDns,  \* _launched_dns
          cdp,          \* _cdp_url
          owns,         \* _owns_browser_process
          context,      \* _cdp_browser_context_id: the Chrome it is of, 0 is None
          left,         \* where tabs were left that nobody closes: the Chromes
                        \* launched here, the endpoints of the others
          loop,         \* _loop: the number of an event loop, 0 is None
          loops,        \* how many loops have been made
          running,      \* the loops whose thread is running
          overdue,      \* launches that outlived their 30 seconds, and go on
          pc, job,      \* where each thread is in _execute(), and its request
          task,         \* the fetch task of that request
          budget        \* begun requests, crashes and failed launches so far

chromeVars == <<browser, chromes, up, tabSem, launchedDns, owns, context>>
engineVars == <<chromeVars, dnsWanted, cdp, left>>
loopVars == <<loop, loops, running, overdue>>
browserVars == <<clock, trackerVars, lock, engineVars, loopVars,
                 pc, job, task, budget>>

Labels == {"idle", "sync", "differs", "resync", "pins",
           "attempt", "ready", "check", "ensure", "await",
           "reset", "draining", "starting", "relayed", "launching",
           "judge", "count", "claimed", "blame", "closed"}

\* A fetch task: queued on its loop, started on a Chrome, waiting for the tab
\* semaphore, loading in a tab, done; or lost, still there when its loop stopped.
TaskStates == {"none", "queued", "started", "waiting", "loading", "done", "lost"}
Alive == {"queued", "started", "waiting", "loading"}

\* How a task ends: with a page, or a banned one; cancelled or with a
\* StealthConnectionError; with the error of a Chrome that is gone
\* (ConnectionRefusedError, websockets); with any other error.
Results == {"none", "page", "ban", "transient", "refused", "error"}

NoTask == [state |-> "none", loop |-> 0, chrome |-> 0, sem |-> 0,
           context |-> 0, result |-> "none"]

Tasks == [state : TaskStates, loop : Nat, chrome : Nat, sem : Nat,
          context : Nat,  \* the browser context its tab was opened in
          result : Results]

\* A launch, as _start() finds things: the map its relay was given, whether an
\* endpoint was named then, whether there is a proxy, and the endpoint that
\* _start_browser() went to.
NoLaunch == [dns |-> NoDns, external |-> FALSE, proxied |-> FALSE, at |-> Local]

Launches == [dns : DnsMaps, external : BOOLEAN, proxied : BOOLEAN,
             at : Endpoints \union {Local}]

NoJob == [ask |-> CHOOSE a \in Asks : TRUE, attempt |-> 0, wanted |-> NoDns,
          launch |-> NoLaunch, dead |-> 0, after |-> "idle", refusedBy |-> 0]

Jobs == [ask : Asks,
         attempt : Nat,
         wanted : DnsMaps,   \* the map _ensure_browser_for_dns decided with
         launch : Launches,  \* of a Chrome it is starting
         dead : Nat,         \* dead_browser of _reset_browser
         after : {"idle", "pins", "ensure", "await"},  \* where a launch goes on
         refusedBy : Nat]    \* history: the Chrome that refused the last attempt

BrowserTypeOK ==
    /\ ClockTypeOK /\ TrackerTypeOK
    /\ lock \in Threads \union {NoThread}
    /\ browser \in Nat /\ tabSem \in Nat /\ loop \in Nat /\ loops \in Nat
    /\ chromes \in Seq([dns : DnsMaps, loop : Nat, context : BOOLEAN,
                        at : Endpoints \union {Local},
                        stopped : BOOLEAN])  \* history: by stop()
    /\ up \subseteq 1..Len(chromes)
    /\ dnsWanted \in DnsMaps /\ launchedDns \in DnsMaps
    /\ cdp \in Endpoints \union {Local} /\ owns \in BOOLEAN /\ context \in Nat
    /\ left \subseteq Nat \union Endpoints
    /\ running \subseteq 1..loops
    /\ overdue \subseteq [loop : Nat, launch : Launches]
    /\ pc \in [Threads -> Labels]
    /\ job \in [Threads -> Jobs]
    /\ task \in [Threads -> Tasks]
    /\ budget \in [requests : Nat, crashes : Nat, failures : Nat]

BrowserInit ==
    /\ ClockInit /\ TrackerInit
    /\ lock = NoThread
    /\ browser = 0 /\ chromes = <<>> /\ up = {} /\ tabSem = 0
    /\ dnsWanted = NoDns /\ launchedDns = NoDns
    /\ cdp \in Endpoints \union {Local}   \* STEALTH_CDP_URL
    /\ owns = TRUE /\ context = 0 /\ left = {}
    /\ loop = 0 /\ loops = 0 /\ running = {} /\ overdue = {}
    /\ pc = [t \in Threads |-> "idle"]
    /\ job = [t \in Threads |-> NoJob]
    /\ task = [t \in Threads |-> NoTask]
    /\ budget = [requests |-> 0, crashes |-> 0, failures |-> 0]

Goto(t, label) == pc' = [pc EXCEPT ![t] = label]

\* The request is over: a response, None or an exception.
Leave(t) ==
    /\ Goto(t, "idle")
    /\ job' = [job EXCEPT ![t] = NoJob]
    /\ task' = [task EXCEPT ![t] = NoTask]

Take(t) == lock = NoThread /\ lock' = t
Release(t) == lock = t /\ lock' = NoThread
LockFree == lock = NoThread

Spend(what) == budget' = [budget EXCEPT ![what] = @ + 1]
MayFail == budget.failures < MaxFailures

-----------------------------------------------------------------------------
\* A request comes in.
Begin(t) ==
    /\ pc[t] = "idle"
    /\ budget.requests < MaxRequests /\ Spend("requests")
    /\ \E ask \in Asks : job' = [job EXCEPT ![t].ask = ask]
    /\ Goto(t, "sync")
    /\ UNCHANGED <<clock, trackerVars, lock, engineVars, loopVars, task>>

\* _sync_cdp_from_request: the endpoint of the request becomes the engine's, and a
\* Chrome that is running is replaced.  None of this is done with the lock.
Compare(t) ==
    /\ pc[t] = "sync"
    /\ Goto(t, IF job[t].ask.cdp = cdp THEN "pins" ELSE "differs")
    /\ UNCHANGED <<clock, trackerVars, lock, engineVars, loopVars,
                   job, task, budget>>
Switch(t) ==
    /\ pc[t] = "differs"
    /\ cdp' = job[t].ask.cdp
    /\ Goto(t, IF browser # 0 THEN "resync" ELSE "pins")
    /\ UNCHANGED <<clock, trackerVars, lock, chromeVars, dnsWanted, left, loopVars,
                   job, task, budget>>

\* On the way into _reset_browser(..., dead, proxy=...)
ResetFor(t, dead, after, proxied) ==
    /\ Goto(t, "reset")
    /\ job' = [job EXCEPT ![t].dead = dead, ![t].after = after,
                          ![t].launch.proxied = proxied, ![t].wanted = NoDns]

Resync(t) ==
    /\ pc[t] = "resync"
    /\ ResetFor(t, browser, "pins", job[t].ask.proxied)
    /\ UNCHANGED <<clock, trackerVars, lock, engineVars, loopVars, task, budget>>

\* resolve_dns_overrides: the map of the request becomes the engine's.
Pin(t) ==
    /\ pc[t] = "pins"
    /\ dnsWanted' = job[t].ask.dns
    /\ Goto(t, "attempt")
    /\ UNCHANGED <<clock, trackerVars, lock, chromeVars, cdp, left, loopVars,
                   job, task, budget>>

\* _wait_for_browser_ready, before an attempt
AwaitReady(t) ==
    /\ pc[t] = "attempt" /\ LockFree
    /\ Goto(t, "ready")
    /\ UNCHANGED <<clock, trackerVars, lock, engineVars, loopVars,
                   job, task, budget>>

\* _ensure_browser_for_dns: the map is read before the lock is taken
ReadWanted(t) ==
    /\ pc[t] = "ready"
    /\ job' = [job EXCEPT ![t].wanted = dnsWanted]
    /\ Goto(t, "check")
    /\ UNCHANGED <<clock, trackerVars, lock, engineVars, loopVars, task, budget>>

CheckDns(t) ==
    /\ pc[t] = "check" /\ LockFree
    /\ IF browser # 0 /\ job[t].wanted # launchedDns
       THEN ResetFor(t, browser, "ensure", job[t].ask.proxied)
       ELSE Goto(t, "ensure") /\ job' = [job EXCEPT ![t].wanted = NoDns]
    /\ UNCHANGED <<clock, trackerVars, lock, engineVars, loopVars, task, budget>>

-----------------------------------------------------------------------------
Submitted == [NoTask EXCEPT !.state = "queued", !.loop = loop]

\* _ensure_browser_unlocked and the submission, with the lock held throughout
Ensure(t) ==
    /\ pc[t] = "ensure"
    /\ IF browser # 0
       THEN /\ LockFree /\ UNCHANGED <<lock, job>>
            /\ task' = [task EXCEPT ![t] = Submitted]
            /\ Goto(t, "await")
       ELSE /\ Take(t) /\ UNCHANGED task
            /\ job' = [job EXCEPT ![t].after = "await",
                                  ![t].launch.proxied = job[t].ask.proxied]
            /\ Goto(t, "starting")
    /\ UNCHANGED <<clock, trackerVars, engineVars, loopVars, budget>>

\* A loop in a new thread; _start() on it makes the relay for the current map.
StartRelay(t) ==
    /\ pc[t] = "starting"
    /\ loops' = loops + 1 /\ loop' = loops' /\ running' = running \union {loops'}
    /\ job' = [job EXCEPT ![t].launch.dns = dnsWanted,
                          ![t].launch.external = (cdp # Local)]
    /\ Goto(t, "relayed")
    /\ UNCHANGED <<clock, trackerVars, lock, engineVars, overdue, task, budget>>

\* _start_browser asks again whether there is an endpoint; a Chrome launched here
\* is the engine's own before it is there.
StartChrome(t) ==
    /\ pc[t] = "relayed"
    /\ job' = [job EXCEPT ![t].launch.at = cdp]
    /\ owns' = (owns \/ cdp = Local)
    /\ Goto(t, "launching")
    /\ UNCHANGED <<clock, trackerVars, lock, browser, chromes, up, tabSem,
                   launchedDns, context, dnsWanted, cdp, left, loopVars, task, budget>>

\* An endpoint, proxy or pins: tabs get a context of their own, which goes to the
\* upstream proxy itself or to the relay.
InContext(l) == l.external /\ (l.proxied \/ l.dns # NoDns)

\* What is left of a reset or a launch that is over
Settled(j) == [j EXCEPT !.launch = NoLaunch, !.dead = 0, !.after = "idle"]

\* Chrome is up, or connected to.  Pins reach it through its command line or its
\* context.
Arrived(l, onLoop) ==
    /\ chromes' = Append(chromes,
          [dns |-> IF l.at = Local \/ l.external THEN l.dns ELSE NoDns,
           loop |-> onLoop, context |-> InContext(l), at |-> l.at,
           stopped |-> FALSE])
    /\ up' = up \union {Len(chromes')}
    /\ owns' = (owns /\ l.at = Local)

\* The rest of _start(): a context if it takes one, and a semaphore.
Launched(l, onLoop) ==
    /\ Arrived(l, onLoop)
    /\ tabSem' = Len(chromes')
    /\ context' = IF InContext(l) THEN Len(chromes') ELSE 0

\* future.result(timeout=30) returns: _launched_dns is read anew by
\* _ensure_browser_unlocked, and left as it is by _reset_browser.
LaunchDone(t) ==
    /\ pc[t] = "launching"
    /\ Launched(job[t].launch, loop)
    /\ browser' = Len(chromes')
    /\ Release(t)
    /\ Goto(t, job[t].after)
    /\ IF job[t].after = "await"
       THEN /\ launchedDns' = dnsWanted
            /\ task' = [task EXCEPT ![t] = Submitted]
       ELSE UNCHANGED <<launchedDns, task>>
    /\ job' = [job EXCEPT ![t] = IF job[t].after = "idle" THEN NoJob ELSE Settled(@)]
    /\ UNCHANGED <<clock, trackerVars, dnsWanted, cdp, left, loopVars, budget>>

\* It raises: the lock is free, the new loop stays, and the request is over.
LaunchRaises(t) ==
    /\ pc[t] = "launching"
    /\ MayFail /\ Spend("failures")
    /\ Release(t)
    /\ Leave(t)
    /\ UNCHANGED <<clock, trackerVars, browser, tabSem, launchedDns, dnsWanted, cdp,
                   left, loop, loops, running>>

\* If it was the 30 seconds, _start() goes on.
OutlivesItsWait(t) ==
    overdue' \in {overdue,
                  overdue \union {[loop |-> loop, launch |-> job[t].launch]}}

\* No binary, or a Chrome that does not come up
LaunchFails(t) ==
    /\ job[t].launch.at = Local
    /\ LaunchRaises(t) /\ OutlivesItsWait(t)
    /\ UNCHANGED <<chromes, up, owns, context>>

\* An endpoint that cannot be reached, is no CDP endpoint, or does not answer
ConnectFails(t) ==
    /\ job[t].launch.at \in Endpoints
    /\ LaunchRaises(t) /\ OutlivesItsWait(t)
    /\ UNCHANGED <<chromes, up, owns, context>>

\* A Chrome that gives no context: it stays, and is nobody's.
ContextFails(t) ==
    /\ InContext(job[t].launch)
    /\ LaunchRaises(t)
    /\ Arrived(job[t].launch, loop) /\ context' = 0
    /\ UNCHANGED overdue

\* The end of such a _start(): nobody takes the Chrome, everybody its semaphore.
LateLaunch(o) ==
    /\ o \in overdue /\ o.loop \in running
    /\ Launched(o.launch, o.loop)
    /\ overdue' = overdue \ {o}
    /\ UNCHANGED <<clock, trackerVars, lock, browser, launchedDns, dnsWanted, cdp,
                   left, loop, loops, running, pc, job, task, budget>>

-----------------------------------------------------------------------------
\* stop() for a Chrome of one's own, aclose() for one that was connected to: that
\* ends the connection, and a Chrome launched here would go on without it.
StopsAny(b) ==
    /\ browser' = 0
    /\ chromes' = IF b = 0 THEN chromes ELSE [chromes EXCEPT ![b].stopped = TRUE]
    /\ up' = up \ {b}
StopsOwned(b) ==
    /\ browser' = 0
    /\ chromes' = IF b # 0 /\ owns THEN [chromes EXCEPT ![b].stopped = TRUE]
                  ELSE chromes
    /\ up' = IF owns THEN up \ {b} ELSE up
Stops(b) ==
    /\ browser' = 0
    /\ chromes' = IF b # 0 /\ owns THEN [chromes EXCEPT ![b].stopped = TRUE]
                  ELSE chromes
    /\ up' = IF b # 0 /\ (owns \/ chromes[b].at # Local) THEN up \ {b} ELSE up

\* The tabs that tasks leave behind: a Chrome launched here takes them with it,
\* another keeps them, and is the same one when it is connected to again.
LeftBy(us) ==
    {c \in up : chromes[c].at = Local /\ \E u \in us : task[u].chrome = c}
        \union {e \in Endpoints : \E u \in us : chromes[task[u].chrome].at = e}
LeavesTab(t) == left' = left \union LeftBy({t})
TabsGo == left' = left \intersect (up' \union Endpoints)

\* _reset_browser: the Chrome it was called about may be gone already.  None
\* (0) is never gone.  Otherwise Chrome is stopped, and nobody may start a tab.
Spared(t) == job[t].dead # 0 /\ browser # job[t].dead
ResetSkipped(t) ==
    /\ pc[t] = "reset" /\ LockFree /\ Spared(t)
    /\ Goto(t, job[t].after)
    /\ job' = [job EXCEPT ![t] = IF job[t].after = "idle" THEN NoJob ELSE Settled(@)]
    /\ task' = IF job[t].after = "idle" THEN [task EXCEPT ![t] = NoTask] ELSE task
    /\ UNCHANGED <<clock, trackerVars, lock, engineVars, loopVars, budget>>

ResetBeginAbandons(t) ==
    /\ pc[t] = "reset" /\ LockFree /\ ~Spared(t)
    /\ lock' = t
    /\ browser' = 0 /\ tabSem' = 0 /\ launchedDns' = NoDns /\ context' = 0
    /\ Goto(t, "draining")
    /\ UNCHANGED <<clock, trackerVars, chromes, up, owns, dnsWanted, cdp, left,
                   loopVars, job, task, budget>>
ResetBegin(t) ==
    /\ pc[t] = "reset" /\ LockFree /\ ~Spared(t)
    /\ lock' = t
    /\ Stops(browser) /\ tabSem' = 0 /\ launchedDns' = NoDns /\ context' = 0
    /\ TabsGo
    /\ Goto(t, "draining")
    /\ UNCHANGED <<clock, trackerVars, owns, dnsWanted, cdp, loopVars,
                   job, task, budget>>

\* _drain_loop_tasks and _stop_loop: every task of the loop is cancelled.  Some
\* that were in a tab may not close it, or take more than the 3 seconds to do so.
OnLoopStarted(l) ==
    {u \in Threads : task[u].state \in Alive \ {"queued"} /\ task[u].loop = l}
OnLoop(l) == {u \in Threads : task[u].state \in Alive /\ task[u].loop = l}
Cancelled(tk) == [NoTask EXCEPT !.state = "done", !.loop = tk.loop,
                                !.result = "transient"]

ResetDrainSkipped(t) ==
    /\ pc[t] = "draining"
    /\ Goto(t, "starting")
    /\ UNCHANGED <<clock, trackerVars, lock, engineVars, loopVars,
                   job, task, budget>>
ResetDrain(t) ==
    /\ pc[t] = "draining"
    /\ \E leaving \in SUBSET {u \in OnLoop(loop) : task[u].state = "loading"} :
        /\ left' = left \union LeftBy(leaving)
        /\ \E stuck \in SUBSET leaving :
            task' = [u \in Threads |->
                        CASE u \in stuck -> [task[u] EXCEPT !.state = "lost"]
                          [] u \in OnLoop(loop) \ stuck -> Cancelled(task[u])
                          [] OTHER -> task[u]]
    /\ running' = running \ {loop}
    /\ overdue' = {o \in overdue : o.loop # loop}
    /\ Goto(t, "starting")
    /\ UNCHANGED <<clock, trackerVars, lock, chromeVars, dnsWanted, cdp, loop, loops,
                   job, budget>>

-----------------------------------------------------------------------------
\* The tasks, on a loop that runs.  _do_fetch reads _browser ...
Ends(t, outcome) ==
    task' = [task EXCEPT ![t].state = "done", ![t].result = outcome]

Scheduled(t, state) == task[t].state = state /\ task[t].loop \in running

TaskStart(t) ==
    /\ Scheduled(t, "queued")
    /\ IF browser = 0 THEN Ends(t, "transient")
       ELSE task' = [task EXCEPT ![t].state = "started", ![t].chrome = browser]

\* ... and then _tab_sem, which must not be None any more ...
TaskSem(t) ==
    /\ Scheduled(t, "started")
    /\ IF tabSem = 0 THEN Ends(t, "error")
       ELSE task' = [task EXCEPT ![t].state = "waiting", ![t].sem = tabSem]

\* ... and opens a tab within the semaphore, if Chrome is there.
TabsOf(sem) == {u \in Threads : task[u].state = "loading" /\ task[u].sem = sem}

\* create_target in the context of that moment, which must be one of that Chrome;
\* the target may then not be found, or not attached to.
Attach(t) ==
    IF task[t].chrome \in up /\ context \in {0, task[t].chrome}
    THEN \/ /\ task' = [task EXCEPT ![t].state = "loading", ![t].context = context]
            /\ UNCHANGED left
         \/ Ends(t, "transient") /\ LeavesTab(t)
    ELSE /\ Ends(t, IF task[t].chrome \in up THEN "error" ELSE "refused")
         /\ UNCHANGED left

TaskOpenUnlimited(t) == Scheduled(t, "waiting") /\ Attach(t)
TaskOpen(t) ==
    /\ Scheduled(t, "waiting")
    /\ Cardinality(TabsOf(task[t].sem)) < MaxTabs
    /\ Attach(t)

\* The tab is closed with a response; without one only if the end came within the
\* try, and if Chrome still listens.
TaskFinish(t) ==
    /\ Scheduled(t, "loading")
    /\ \/ /\ task[t].chrome \in up
          /\ \E r \in {"page", "ban"} : Ends(t, r)
          /\ UNCHANGED left
       \/ /\ \E r \in {IF task[t].chrome \in up THEN "transient" ELSE "refused",
                       "error"} : Ends(t, r)
          /\ UNCHANGED left \/ LeavesTab(t)

Task(t) ==
    /\ \/ (TaskStart(t) \/ TaskSem(t)) /\ UNCHANGED left
       \/ TaskOpen(t) \/ TaskFinish(t)
    /\ UNCHANGED <<clock, trackerVars, lock, chromeVars, dnsWanted, cdp, loopVars,
                   pc, job, budget>>

-----------------------------------------------------------------------------
\* future.result() in _execute()
Fetched(t) ==
    /\ pc[t] = "await" /\ task[t].result \in {"page", "ban"}
    /\ Goto(t, "judge")
    /\ UNCHANGED <<clock, trackerVars, lock, engineVars, loopVars,
                   job, task, budget>>

\* CancelledError, StealthConnectionError and whatever _is_restart_transient()
\* takes, the errors of a Chrome that is gone among them: try again.
RetryForEver(t) ==
    /\ pc[t] = "await" /\ task[t].result \in {"transient", "refused"}
    /\ job[t].attempt < MaxAttempts - 1
    /\ job' = [job EXCEPT ![t] = [NoJob EXCEPT !.ask = job[t].ask,
                                               !.attempt = job[t].attempt]]
    /\ task' = [task EXCEPT ![t] = NoTask]
    /\ Goto(t, "attempt")
    /\ UNCHANGED <<clock, trackerVars, lock, engineVars, loopVars, budget>>
Retry(t) ==
    /\ pc[t] = "await" /\ task[t].result \in {"transient", "refused"}
    /\ job[t].attempt < MaxAttempts - 1
    /\ job' = [job EXCEPT ![t] = [NoJob EXCEPT
                  !.ask = job[t].ask, !.attempt = job[t].attempt + 1,
                  !.refusedBy = IF task[t].result = "refused"
                                THEN task[t].chrome ELSE 0]]
    /\ task' = [task EXCEPT ![t] = NoTask]
    /\ Goto(t, "attempt")
    /\ UNCHANGED <<clock, trackerVars, lock, engineVars, loopVars, budget>>

Fails(t) ==
    /\ pc[t] = "await"
    /\ \/ task[t].result = "error"
       \/ task[t].result \in {"transient", "refused"}
          /\ job[t].attempt = MaxAttempts - 1
    /\ Leave(t)
    /\ UNCHANGED <<clock, trackerVars, lock, engineVars, loopVars, budget>>

\* future.result(timeout=...): the task is cancelled and the request is over.
TimedOut(t) ==
    /\ pc[t] = "await" /\ task[t].state # "done"
    /\ \/ UNCHANGED left
       \/ task[t].state = "loading" /\ LeavesTab(t)
    /\ Leave(t)
    /\ UNCHANGED <<clock, trackerVars, lock, chromeVars, dnsWanted, cdp, loopVars,
                   budget>>

-----------------------------------------------------------------------------
\* _maybe_restart: the lock, for a moment ...
Judged(t) ==
    /\ pc[t] = "judge" /\ LockFree
    /\ Goto(t, "count")
    /\ UNCHANGED <<clock, trackerVars, lock, engineVars, loopVars,
                   job, task, budget>>

\* ... self._bans.record(banned) ...
Count(t) ==
    /\ pc[t] = "count"
    /\ \/ /\ task[t].result = "page" /\ RecordClean
          /\ Leave(t)
       \/ /\ task[t].result = "ban" /\ RecordBan(t)
          /\ IF Claims(streak + 1) THEN Goto(t, "claimed") /\ UNCHANGED <<job, task>>
             ELSE Leave(t)
    /\ UNCHANGED <<clock, lock, engineVars, loopVars, budget>>

\* ... the lock again, and self._bans.acknowledge_restart() ...
Acknowledge(t) ==
    /\ pc[t] = "claimed" /\ LockFree
    /\ AcknowledgeRestart(t)
    /\ Goto(t, "blame")
    /\ UNCHANGED <<clock, lock, engineVars, loopVars, job, task, budget>>

\* ... and self._browser, read without it for _reset_browser.  The proxy is that
\* of the request or a default one.
Blame(t) ==
    /\ pc[t] = "blame"
    /\ \E proxied \in {job[t].ask.proxied, TRUE} :
          ResetFor(t, browser, "idle", proxied)
    /\ UNCHANGED <<clock, trackerVars, lock, engineVars, loopVars, task, budget>>

\* Before that, _rotate_default_proxy may raise (IndexError in pick(), see
\* ProxyHealth); the response is lost.
RotateFails(t) ==
    /\ pc[t] = "blame"
    /\ MayFail /\ Spend("failures")
    /\ Leave(t)
    /\ UNCHANGED <<clock, trackerVars, lock, engineVars, loopVars>>

-----------------------------------------------------------------------------
\* Chrome dies of itself; the engine is not told.
Crash ==
    /\ budget.crashes < MaxCrashes /\ Spend("crashes")
    /\ \E c \in up : up' = up \ {c}
    /\ UNCHANGED <<clock, trackerVars, lock, browser, chromes, tabSem, launchedDns,
                   owns, context, dnsWanted, cdp, left, loopVars, pc, job, task>>

\* close(), when the spider is done with its requests
CloseForgetsChrome ==
    /\ \A t \in Threads : pc[t] = "idle"
    /\ loop # 0
    /\ browser' = 0 /\ context' = 0
    /\ running' = running \ {loop} /\ loop' = 0
    /\ overdue' = {o \in overdue : o.loop # loop}
    /\ pc' = [t \in Threads |-> "closed"]
    /\ UNCHANGED <<clock, trackerVars, lock, chromes, up, tabSem, launchedDns, owns,
                   dnsWanted, cdp, left, loops, job, task, budget>>
Close ==
    /\ \A t \in Threads : pc[t] = "idle"
    /\ loop # 0
    /\ Stops(browser) /\ context' = 0 /\ TabsGo
    /\ running' = running \ {loop} /\ loop' = 0
    /\ overdue' = {o \in overdue : o.loop # loop}
    /\ pc' = [t \in Threads |-> "closed"]
    /\ UNCHANGED <<clock, trackerVars, lock, tabSem, launchedDns, owns,
                   dnsWanted, cdp, loops, job, task, budget>>

-----------------------------------------------------------------------------
Enter(t) == Compare(t) \/ Switch(t) \/ Resync(t) \/ Pin(t)
Attempt(t) == AwaitReady(t) \/ ReadWanted(t) \/ CheckDns(t) \/ Ensure(t)
Launch(t) == \/ StartRelay(t) \/ StartChrome(t) \/ LaunchDone(t)
             \/ LaunchFails(t) \/ ConnectFails(t) \/ ContextFails(t)
Reset(t) == ResetSkipped(t) \/ ResetBegin(t) \/ ResetDrain(t)
Await(t) == Fetched(t) \/ Retry(t) \/ Fails(t) \/ TimedOut(t)
MaybeRestart(t) == \/ Judged(t) \/ Count(t) \/ Acknowledge(t)
                   \/ Blame(t) \/ RotateFails(t)

\* A step of t in a request it has begun.
Work(t) == \/ Enter(t) \/ Attempt(t) \/ Launch(t) \/ Reset(t)
           \/ Await(t) \/ MaybeRestart(t)

BrowserTick ==
    /\ ClockTick
    /\ UNCHANGED <<trackerVars, lock, engineVars, loopVars, pc, job, task, budget>>

BrowserNext ==
    \/ BrowserTick \/ Crash \/ Close
    \/ \E o \in overdue : LateLaunch(o)
    \/ \E t \in Threads : Begin(t) \/ Work(t) \/ Task(t)

BrowserSpec == BrowserInit /\ [][BrowserNext]_browserVars

\* A thread is scheduled; a launch and a fetch are waited for with a timeout, so
\* that waiting ends whatever Chrome does.
FairBrowserSpec ==
    BrowserSpec /\ \A t \in Threads : WF_browserVars(Work(t))

-----------------------------------------------------------------------------
Failed == budget.failures > 0

\* Restarts for bans are the lease RecycleLease describes: one thread at a time,
\* and never two within the cooldown, whatever else replaces Chrome meanwhile
\* (session.py:66-67; browser.py:158-160).
Lease == INSTANCE RecycleLease
            WITH Cooldown <- RecycleCooldown, released <- lastRestart
LeaseSpec == Lease!Spec

\* Nobody waits for a task that its loop will never run: a reset cancels what is
\* queued on the loop it stops, and no one submits to a stopped loop.  Only a
\* task that takes too long to close its tab is left behind (browser.py:190,
\* "so concurrent Scrapy threads are not left with orphaned coroutines").
NoOrphanFuture ==
    \A t \in Threads :
        pc[t] = "await" /\ task[t].state \in Alive => task[t].loop \in running

\* A task talks to a Chrome whose connection belongs to the loop it runs on.
ChromeOnItsLoop ==
    \A t \in Threads :
        task[t].state \in Alive /\ task[t].chrome # 0
            => chromes[task[t].chrome].loop = task[t].loop

\* One persistent Chrome: none is left running when the engine takes another or
\* gives up on a launch (BrowserEngine's docstring, "one persistent browser"),
\* unless a launch ended after nobody waited for it any more.
OneChrome ==
    ~Failed => up \subseteq {browser}

Place(c) == IF chromes[c].at = Local THEN c ELSE chromes[c].at

\* One Chrome, although it was connected to again
SameChrome(c, d) == c = d \/ (chromes[c].at = chromes[d].at /\ chromes[c].at # Local)

\* Whatever is restarted in between, no more than BROWSER_MAX_TABS fetches at a
\* time are in a tab of one Chrome, and it has no more tabs than that unless one was
\* left in it: by an attempt that ended between create_target and the try
\* (browser.py:603-649), or with the connection gone.  Such a tab has given its place
\* in the semaphore back and comes on top, which constants.py:78 ("max Chrome tabs
\* open simultaneously") does not say.  A launch that ended too late brings a
\* semaphore of its own.
TabsWithinLimit ==
    ~Failed => \A c \in up :
        /\ Cardinality({u \in Threads : task[u].state = "loading"
                                          /\ task[u].chrome = c}) <= MaxTabs
        /\ \/ Place(c) \in left
           \/ Cardinality({u \in Threads :
                  /\ task[u].state \in {"loading", "lost"}
                  /\ SameChrome(c, task[u].chrome)}) <= MaxTabs

\* close() leaves neither a Chrome nor a thread with a loop.
CloseLeavesNothing ==
    ~Failed /\ (\A t \in Threads : pc[t] = "closed") => up = {} /\ running = {}

\* A browser that runs elsewhere is never stopped, whichever endpoints requests
\* switch between (docs/drivers/browser.md, "does not terminate the external
\* browser"): owns is not about another Chrome than the one at hand.
ExternalSpared ==
    \A c \in 1..Len(chromes) : chromes[c].stopped => chromes[c].at = Local

\* A tab is opened in the context made for its Chrome, if there is one, although
\* that is only looked up when the tab is opened: no request gets round the proxy
\* or the pins of the Chrome it is on (browser.py:601).
TabsInTheirContext ==
    ~Failed => \A t \in Threads :
        task[t].state = "loading" =>
            (task[t].context # 0) = chromes[task[t].chrome].context

\* Every request ends, whatever becomes of Chrome.
EveryRequestEnds ==
    \A t \in Threads : pc[t] \notin {"idle", "closed"} ~> pc[t] = "idle"

\* What is left to a request at most, in steps of its own thread: so many in an
\* attempt from where it is, and so many in each attempt after that.
Replacing == {"reset", "draining", "starting", "relayed", "launching"}
Stage == [idle |-> 0, closed |-> 0,
          launching |-> 1, relayed |-> 2, starting |-> 3, draining |-> 4, reset |-> 5,
          blame |-> 6, claimed |-> 7, count |-> 8, judge |-> 9, await |-> 10,
          ensure |-> 16, check |-> 22, ready |-> 23, attempt |-> 24,
          pins |-> 25, resync |-> 31, differs |-> 32, sync |-> 33]
StepsToGo(label, j) ==
    IF label \in {"idle", "closed"} THEN 0
    ELSE 15 * (MaxAttempts - 1 - j.attempt) + Stage[label]
           + (IF label \in Replacing THEN Stage[j.after] ELSE 0)
StepsLeft(t) == StepsToGo(pc[t], job[t])

\* Every step a request makes brings its end nearer, by a count that no step of
\* another thread, of Chrome or of a task ever raises: restarts may cancel it
\* again and again, only its attempts are counted (browser.py:817).
RequestsAdvance ==
    [][\A t \in Threads :
        /\ Work(t) => StepsLeft(t)' \in 0..(StepsLeft(t) - 1)
        /\ pc[t] # "idle" => StepsLeft(t)' <= StepsLeft(t)]_browserVars

\* After a Chrome refused an attempt, the next one is not made on the same
\* Chrome (CHANGELOG.md:1108, the engine "restarts the browser and retries").
RetriesOnALiveBrowser ==
    [][\A t \in Threads :
        pc[t] = "ensure" /\ pc'[t] = "await" /\ job[t].refusedBy # 0
            => browser' # job[t].refusedBy]_browserVars

\* Chrome is restarted for DNS exactly when the map a request needs is not the
\* one its relay has (browser.py:345).
RestartsForDnsOnly ==
    [][\A t \in Threads :
        pc[t] = "check" /\ pc'[t] # "check" /\ browser # 0
            => (pc'[t] = "reset" <=> job[t].wanted # chromes[browser].dns)
       ]_browserVars
=============================================================================
