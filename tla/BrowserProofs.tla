--------------------------- MODULE BrowserProofs ---------------------------
(***************************************************************************)
(* Proofs about BrowserEngine.  First what kinds of steps there are: most  *)
(* move a thread on and leave Chrome alone (Outside), whichever they are;  *)
(* the others replace Chrome, under the lock, or are steps of its tasks.   *)
(* By these kinds every invariant here and in OneChromeProofs is proved:   *)
(* the types, the lease of the ban streak, StateInv, which ties the lock,  *)
(* Chrome, its loop and the tasks together, and that requests advance.     *)
(***************************************************************************)
EXTENDS BrowserEngine, TLAPS

Places == Endpoints \union {Local}

Afters == {"idle", "pins", "ensure", "await"}

LEMMA Defaults ==
    /\ NoThread \notin Threads /\ NoDns \in DnsMaps
    /\ NoLaunch \in Launches /\ NoJob \in Jobs /\ NoTask \in Tasks
<1>1. NoLaunch \in Launches
  BY BrowserAssumption DEF NoLaunch, Launches
<1>2. NoJob \in Jobs
  BY <1>1, BrowserAssumption DEF NoJob, Jobs
<1>3. NoTask \in Tasks
  BY DEF NoTask, Tasks, TaskStates, Results
<1> QED BY <1>1, <1>2, <1>3, BrowserAssumption

\* A request is for a map, a place, and a proxy or none.
LEMMA AskFields ==
    ASSUME NEW j \in Jobs
    PROVE  /\ j.ask \in Asks /\ j.ask.dns \in DnsMaps /\ j.ask.cdp \in Places
           /\ j.ask.proxied \in BOOLEAN
<1>1. j.ask \in Asks
  BY DEF Jobs
<1> QED BY <1>1, BrowserAssumption DEF Places

\* What the steps make of a job
LEMMA JobEdits ==
    ASSUME NEW j \in Jobs
    PROVE  /\ \A ask \in Asks : [j EXCEPT !.ask = ask] \in Jobs
           /\ \A d \in DnsMaps : [j EXCEPT !.wanted = d] \in Jobs
           /\ \A at \in Places : [j EXCEPT !.launch.at = at] \in Jobs
           /\ \A d \in DnsMaps, b \in BOOLEAN :
                [j EXCEPT !.launch.dns = d, !.launch.external = b] \in Jobs
           /\ \A after \in Afters, b \in BOOLEAN :
                [j EXCEPT !.after = after, !.launch.proxied = b] \in Jobs
           /\ \A n \in Nat, after \in Afters, b \in BOOLEAN, d \in DnsMaps :
                [j EXCEPT !.dead = n, !.after = after, !.launch.proxied = b,
                          !.wanted = d] \in Jobs
           /\ Settled(j) \in Jobs
<1> DEFINE l == j.launch
<1>1. l \in Launches
  BY DEF Jobs
<1>2. ASSUME NEW at \in Places PROVE [j EXCEPT !.launch.at = at] \in Jobs
  <2>1. [l EXCEPT !.at = at] \in Launches
    BY <1>1 DEF Launches, Places
  <2> QED BY <2>1 DEF Jobs
<1>3. ASSUME NEW d \in DnsMaps, NEW b \in BOOLEAN
      PROVE  [j EXCEPT !.launch.dns = d, !.launch.external = b] \in Jobs
  <2>1. [l EXCEPT !.dns = d, !.external = b] \in Launches
    BY <1>1 DEF Launches
  <2> QED BY <2>1 DEF Jobs
<1>4. ASSUME NEW after \in Afters, NEW b \in BOOLEAN
      PROVE  /\ [j EXCEPT !.after = after, !.launch.proxied = b] \in Jobs
             /\ \A n \in Nat, d \in DnsMaps :
                  [j EXCEPT !.dead = n, !.after = after, !.launch.proxied = b,
                            !.wanted = d] \in Jobs
  <2>1. [l EXCEPT !.proxied = b] \in Launches
    BY <1>1 DEF Launches
  <2>2. [j EXCEPT !.after = after, !.launch.proxied = b] \in Jobs
    BY <2>1 DEF Jobs, Afters
  <2>3. ASSUME NEW n \in Nat, NEW d \in DnsMaps
        PROVE  [j EXCEPT !.dead = n, !.after = after, !.launch.proxied = b,
                         !.wanted = d] \in Jobs
    BY <2>1 DEF Jobs, Afters
  <2> QED BY <2>2, <2>3
<1>5. /\ \A ask \in Asks : [j EXCEPT !.ask = ask] \in Jobs
      /\ \A d \in DnsMaps : [j EXCEPT !.wanted = d] \in Jobs
  BY DEF Jobs
<1>6. Settled(j) \in Jobs
  BY Defaults DEF Settled, Jobs
<1> QED BY <1>2, <1>3, <1>4, <1>5, <1>6

-----------------------------------------------------------------------------
\* Where a thread is that holds the lock over several steps: it replaces Chrome.
Inside == {"draining", "starting", "relayed", "launching"}

\* Where a thread is otherwise, until the engine is closed.
Between == Labels \ (Inside \union {"closed"})

ControlOK ==
    /\ pc \in [Threads -> Labels]
    /\ job \in [Threads -> Jobs]
    /\ task \in [Threads -> Tasks]
    /\ budget \in [requests : Nat, crashes : Nat, failures : Nat]

\* A task that may still do something has its thread waiting for it.
AwaitedOK ==
    \A t \in Threads :
        task[t].state \in Alive => pc[t] = "await" /\ task[t].result = "none"

\* Most steps of a thread are made outside the lock or in a moment of it: they
\* move the thread on and may drop its task, and leave Chrome and its loop alone.
Outside(t) ==
    \E label \in Between, j \in Jobs, tk \in {task[t], NoTask} :
        /\ pc[t] \notin Inside
        /\ pc' = [pc EXCEPT ![t] = label]
        /\ job' = [job EXCEPT ![t] = j]
        /\ task' = [task EXCEPT ![t] = tk]
        /\ tk.state \notin Alive
        /\ dnsWanted' \in DnsMaps /\ cdp' \in Places
        /\ budget' \in [requests : Nat, crashes : Nat, failures : Nat]
        /\ budget'.failures >= budget.failures
        /\ UNCHANGED <<lock, chromeVars, loopVars>>

\* Steps that only move the thread on
Moves(t) ==
    \/ Begin(t) \/ Compare(t) \/ Switch(t) \/ Resync(t) \/ Pin(t)
    \/ AwaitReady(t) \/ ReadWanted(t) \/ CheckDns(t)
    \/ Judged(t) \/ Acknowledge(t) \/ Blame(t)

\* Steps after which it may have no task any more
Drops(t) ==
    \/ ResetSkipped(t) \/ Fetched(t) \/ Retry(t) \/ Fails(t) \/ TimedOut(t)
    \/ Count(t) \/ RotateFails(t)

LEMMA Spent ==
    ASSUME ControlOK, NEW what \in {"requests", "crashes", "failures"}, Spend(what)
    PROVE  /\ budget' \in [requests : Nat, crashes : Nat, failures : Nat]
           /\ budget'.failures >= budget.failures
  BY DEF ControlOK, Spend

LEMMA MovesOutside ==
    ASSUME ControlOK, AwaitedOK, dnsWanted \in DnsMaps, cdp \in Places, browser \in Nat,
           NEW t \in Threads, Moves(t)
    PROVE  Outside(t)
<1> DEFINE Moved(label, j) ==
        /\ pc[t] \notin Inside \union {"await"} /\ pc' = [pc EXCEPT ![t] = label]
        /\ job' = [job EXCEPT ![t] = j]
        /\ UNCHANGED <<lock, chromeVars, loopVars, task>>
<1>a. /\ pc \in [Threads -> Labels] /\ job \in [Threads -> Jobs]
      /\ task \in [Threads -> Tasks] /\ job[t] \in Jobs
      /\ budget.failures \in Nat
      /\ budget \in [requests : Nat, crashes : Nat, failures : Nat]
  BY DEF ControlOK
<1>b. /\ job[t].ask \in Asks /\ job[t].ask.dns \in DnsMaps
      /\ job[t].ask.cdp \in Places /\ job[t].ask.proxied \in BOOLEAN
  BY <1>a, AskFields
<1>c. ASSUME NEW label \in Between, NEW j \in Jobs, Moved(label, j),
             dnsWanted' \in DnsMaps, cdp' \in Places,
             UNCHANGED budget
      PROVE  Outside(t)
  <2>1. task[t].state \notin Alive
    BY <1>c DEF AwaitedOK
  <2>2. task' = [task EXCEPT ![t] = task[t]]
    BY <1>a, <1>c
  <2>3. /\ budget' \in [requests : Nat, crashes : Nat, failures : Nat]
        /\ budget'.failures >= budget.failures
    BY <1>a, <1>c
  <2> QED BY <1>c, <2>1, <2>2, <2>3 DEF Outside
<1>1. CASE Begin(t)
  <2>1. PICK ask \in Asks : job' = [job EXCEPT ![t].ask = ask]
    BY <1>1 DEF Begin
  <2> DEFINE j == [job[t] EXCEPT !.ask = ask]
  <2>2. j \in Jobs /\ job' = [job EXCEPT ![t] = j]
    BY <1>a, <2>1 DEF Jobs
  <2>3. task[t].state \notin Alive /\ task' = [task EXCEPT ![t] = task[t]]
    BY <1>1, <1>a DEF Begin, AwaitedOK
  <2>4. /\ budget' \in [requests : Nat, crashes : Nat, failures : Nat]
        /\ budget'.failures >= budget.failures
    BY <1>1, Spent DEF Begin
  <2> HIDE DEF j
  <2> QED BY <1>1, <2>2, <2>3, <2>4
          DEF Begin, Outside, Goto, engineVars, Labels, Inside, Between
<1>2. ASSUME UNCHANGED job, Compare(t) \/ Switch(t) \/ Pin(t) \/ AwaitReady(t)
                            \/ Judged(t) \/ Acknowledge(t)
      PROVE  Outside(t)
  <2>1. PICK label \in Between : pc' = [pc EXCEPT ![t] = label]
    BY <1>2 DEF Compare, Switch, Pin, AwaitReady, Judged, Acknowledge, Goto,
               Labels, Inside, Between
  <2>2. job' = [job EXCEPT ![t] = job[t]]
    BY <1>2, <1>a
  <2>3. Moved(label, job[t])
    BY <1>2, <2>1, <2>2
       DEF Compare, Switch, Pin, AwaitReady, Judged, Acknowledge, Inside, engineVars
  <2>4. dnsWanted' \in DnsMaps /\ cdp' \in Places /\ UNCHANGED budget
    BY <1>2, <1>b DEF Compare, Switch, Pin, AwaitReady, Judged, Acknowledge, engineVars
  <2> QED BY <1>a, <1>c, <2>1, <2>3, <2>4
<1>3. ASSUME NEW dead, NEW after \in Afters, NEW proxied \in BOOLEAN,
             dead = browser, ResetFor(t, dead, after, proxied),
             pc[t] \notin Inside \union {"await"},
             UNCHANGED <<lock, engineVars, loopVars, task, budget>>
      PROVE  Outside(t)
  <2> DEFINE j == [job[t] EXCEPT !.dead = dead, !.after = after,
                                 !.launch.proxied = proxied, !.wanted = NoDns]
  <2>1. j \in Jobs
    <3>1. dead \in Nat
      BY <1>3
    <3> QED BY <1>a, <3>1, JobEdits, Defaults
  <2>2. job' = [job EXCEPT ![t] = j] /\ pc' = [pc EXCEPT ![t] = "reset"]
    BY <1>3 DEF ResetFor, Goto
  <2> HIDE DEF j
  <2>3. Moved("reset", j)
    BY <1>3, <2>2 DEF engineVars
  <2> QED BY <1>3, <1>c, <2>1, <2>3 DEF engineVars, Labels, Inside, Between
<1>4. CASE Resync(t)
  BY <1>4, <1>3, <1>b DEF Resync, Inside, Afters
<1>5. CASE Blame(t)
  BY <1>5, <1>3, <1>b DEF Blame, Inside, Afters
<1>6. CASE ReadWanted(t)
  <2> DEFINE j == [job[t] EXCEPT !.wanted = dnsWanted]
  <2>1. j \in Jobs
    BY <1>a DEF Jobs
  <2>2. job' = [job EXCEPT ![t] = j] /\ pc' = [pc EXCEPT ![t] = "check"]
    BY <1>6 DEF ReadWanted, Goto
  <2> HIDE DEF j
  <2> QED BY <1>6, <1>c, <2>1, <2>2 DEF ReadWanted, engineVars, Labels, Inside, Between
<1>7. CASE CheckDns(t)
  <2>1. CASE browser # 0 /\ job[t].wanted # launchedDns
    BY <1>7, <2>1, <1>3, <1>b DEF CheckDns, Inside, Afters
  <2>2. CASE ~(browser # 0 /\ job[t].wanted # launchedDns)
    <3> DEFINE j == [job[t] EXCEPT !.wanted = NoDns]
    <3>1. j \in Jobs
      BY <1>a, Defaults DEF Jobs
    <3>2. job' = [job EXCEPT ![t] = j] /\ pc' = [pc EXCEPT ![t] = "ensure"]
      BY <1>7, <2>2 DEF CheckDns, Goto
    <3> HIDE DEF j
    <3> QED BY <1>7, <1>c, <3>1, <3>2 DEF CheckDns, engineVars, Labels, Inside, Between
  <2> QED BY <2>1, <2>2
<1> QED BY <1>1, <1>2, <1>4, <1>5, <1>6, <1>7
        DEF Moves, Compare, Switch, Pin, AwaitReady, Judged, Acknowledge

LEMMA DropsOutside ==
    ASSUME ControlOK, AwaitedOK, dnsWanted \in DnsMaps, cdp \in Places,
           NEW t \in Threads, Drops(t)
    PROVE  Outside(t)
<1>a. /\ pc \in [Threads -> Labels] /\ job \in [Threads -> Jobs]
      /\ task \in [Threads -> Tasks] /\ job[t] \in Jobs
      /\ job[t].after \in Afters /\ budget.failures \in Nat
      /\ budget \in [requests : Nat, crashes : Nat, failures : Nat]
  BY DEF ControlOK, Jobs, Afters
<1>b. NoTask.state \notin Alive /\ NoJob \in Jobs
  BY Defaults DEF NoTask, Alive
<1>c. ASSUME NEW label \in Between, NEW j \in Jobs, NEW tk \in {task[t], NoTask},
             pc[t] \notin Inside, pc' = [pc EXCEPT ![t] = label],
             job' = [job EXCEPT ![t] = j], task' = [task EXCEPT ![t] = tk],
             tk.state \notin Alive, dnsWanted' = dnsWanted, cdp' = cdp,
             UNCHANGED <<lock, chromeVars, loopVars>>, UNCHANGED budget
      PROVE  Outside(t)
  <2>1. /\ budget' \in [requests : Nat, crashes : Nat, failures : Nat]
        /\ budget'.failures >= budget.failures
    BY <1>a, <1>c
  <2> QED BY <1>c, <2>1 DEF Outside
<1>1. CASE ResetSkipped(t)
  <2> DEFINE j == IF job[t].after = "idle" THEN NoJob ELSE Settled(job[t])
             tk == IF job[t].after = "idle" THEN NoTask ELSE task[t]
  <2>1. j \in Jobs
    BY <1>a, <1>b, Defaults DEF Settled, Jobs
  <2>2. tk \in {task[t], NoTask} /\ tk.state \notin Alive
    BY <1>1, <1>b DEF ResetSkipped, AwaitedOK
  <2>3. job' = [job EXCEPT ![t] = j] /\ task' = [task EXCEPT ![t] = tk]
    BY <1>1, <1>a DEF ResetSkipped
  <2>4. pc' = [pc EXCEPT ![t] = job[t].after] /\ job[t].after \in Between
    BY <1>1, <1>a DEF ResetSkipped, Goto, Labels, Inside, Between, Afters
  <2> HIDE DEF j, tk
  <2> QED BY <1>1, <1>c, <2>1, <2>2, <2>3, <2>4 DEF ResetSkipped, engineVars, Inside
<1>2. CASE Fetched(t)
  <2>1. task[t].state \notin Alive
    BY <1>2 DEF Fetched, AwaitedOK
  <2>2. job' = [job EXCEPT ![t] = job[t]] /\ task' = [task EXCEPT ![t] = task[t]]
    BY <1>2, <1>a DEF Fetched
  <2> QED BY <1>2, <1>a, <1>c, <2>1, <2>2
          DEF Fetched, Goto, engineVars, Labels, Inside, Between
<1>3. CASE Retry(t)
  <2> DEFINE refused == IF task[t].result = "refused" THEN task[t].chrome ELSE 0
             j == [NoJob EXCEPT !.ask = job[t].ask, !.attempt = job[t].attempt + 1,
                                !.refusedBy = refused]
  <2>1. refused \in Nat
    BY <1>a DEF Tasks
  <2> HIDE DEF refused
  <2>2. j \in Jobs
    <3>1. job[t].ask \in Asks /\ job[t].attempt + 1 \in Nat
      BY <1>a DEF Jobs
    <3> QED BY <2>1, <3>1, <1>b DEF Jobs
  <2>3. job' = [job EXCEPT ![t] = j]
    BY <1>3 DEF Retry, refused
  <2> HIDE DEF j
  <2> QED BY <1>3, <1>b, <1>c, <2>2, <2>3
          DEF Retry, Goto, engineVars, Labels, Inside, Between
<1>4. ASSUME Leave(t), pc[t] \notin Inside,
             UNCHANGED <<lock, chromeVars, dnsWanted, cdp, loopVars, budget>>
      PROVE  Outside(t)
  BY <1>4, <1>b, <1>c DEF Leave, Goto, Labels, Inside, Between
<1>5. CASE Fails(t) \/ TimedOut(t)
  BY <1>5, <1>4 DEF Fails, TimedOut, Inside, engineVars
<1>6. CASE Count(t)
  <2>1. CASE Leave(t)
    BY <1>6, <2>1, <1>4 DEF Count, Inside, engineVars
  <2>2. CASE Goto(t, "claimed") /\ UNCHANGED <<job, task>>
    <3>1. task[t].state \notin Alive
      BY <1>6 DEF Count, AwaitedOK
    <3>2. job' = [job EXCEPT ![t] = job[t]] /\ task' = [task EXCEPT ![t] = task[t]]
      BY <2>2, <1>a
    <3> QED BY <1>6, <2>2, <1>a, <1>c, <3>1, <3>2
            DEF Count, Goto, engineVars, Labels, Inside, Between
  <2> QED BY <1>6, <2>1, <2>2 DEF Count
<1>7. CASE RotateFails(t)
  <2>1. /\ budget' \in [requests : Nat, crashes : Nat, failures : Nat]
        /\ budget'.failures >= budget.failures
    BY <1>7, Spent DEF RotateFails
  <2>2. /\ pc' = [pc EXCEPT ![t] = "idle"] /\ job' = [job EXCEPT ![t] = NoJob]
        /\ task' = [task EXCEPT ![t] = NoTask] /\ pc[t] \notin Inside
        /\ UNCHANGED <<lock, engineVars, loopVars>>
    BY <1>7 DEF RotateFails, Leave, Goto, Inside
  <2> QED BY <1>b, <2>1, <2>2 DEF Outside, engineVars, Labels, Inside, Between
<1> QED BY <1>1, <1>2, <1>3, <1>5, <1>6, <1>7 DEF Drops

-----------------------------------------------------------------------------
ChromeRecs == [dns : DnsMaps, loop : Nat, context : BOOLEAN,
               at : Endpoints \union {Local}, stopped : BOOLEAN]

EngineOK ==
    /\ lock \in Threads \union {NoThread}
    /\ tabSem \in Nat /\ context \in Nat
    /\ dnsWanted \in DnsMaps /\ launchedDns \in DnsMaps
    /\ cdp \in Places /\ owns \in BOOLEAN

ChromesOK ==
    /\ chromes \in Seq(ChromeRecs)
    /\ up \subseteq 1..Len(chromes)
    /\ browser \in 0..Len(chromes)

LoopsOK ==
    /\ loop \in Nat /\ loops \in Nat
    /\ running \subseteq 1..loops
    /\ overdue \subseteq [loop : Nat, launch : Launches]

\* All of the type invariant but the clock and the tracker
TypedOK == ControlOK /\ AwaitedOK /\ EngineOK /\ ChromesOK /\ LoopsOK

LeftOK == left \subseteq Nat \union Endpoints

TypeInv == ClockTypeOK /\ TrackerTypeOK /\ TypedOK /\ LeftOK

LEMMA TypeInvGives == TypeInv => BrowserTypeOK
  BY DEF TypeInv, TypedOK, ControlOK, EngineOK, ChromesOK, LoopsOK, BrowserTypeOK,
         LeftOK, ChromeRecs, Places

LEMMA BaseInit == BrowserInit => TypeInv
<1> SUFFICES ASSUME BrowserInit PROVE TypeInv
    OBVIOUS
<1> USE DEF BrowserInit
<1>1. ClockTypeOK /\ TrackerTypeOK
  <2>1. ClockTypeOK
    BY DEF ClockInit, ClockTypeOK
  <2>2. TrackerTypeOK
    BY DEF TrackerInit, TrackerTypeOK
  <2> QED BY <2>1, <2>2
<1>2. ControlOK
  BY Defaults DEF ControlOK, Labels
<1>3. AwaitedOK
  BY DEF AwaitedOK, NoTask, Alive
<1>4. EngineOK
  BY Defaults DEF EngineOK, Places
<1>5. ChromesOK
  <2>1. chromes \in Seq(ChromeRecs) /\ Len(chromes) = 0
    OBVIOUS
  <2> QED BY <2>1 DEF ChromesOK
<1>6. LoopsOK
  BY DEF LoopsOK
<1>7. LeftOK
  BY DEF LeftOK
<1> QED BY <1>1, <1>2, <1>3, <1>4, <1>5, <1>6, <1>7 DEF TypeInv, TypedOK

\* What becomes of the Chromes when one is stopped ...
LEMMA ChromeStopped ==
    ASSUME ChromesOK, owns \in BOOLEAN, NEW b \in 0..Len(chromes), Stops(b)
    PROVE  /\ ChromesOK' /\ browser' = 0 /\ Len(chromes') = Len(chromes)
           /\ \A c \in 1..Len(chromes) :
                /\ chromes'[c].dns = chromes[c].dns
                /\ chromes'[c].loop = chromes[c].loop
                /\ chromes'[c].context = chromes[c].context
                /\ chromes'[c].at = chromes[c].at
                /\ chromes'[c].stopped => chromes[c].stopped \/ (owns /\ c = b)
           /\ up' \subseteq up
           /\ b # 0 /\ (owns \/ chromes[b].at # Local) => b \notin up'
<1>1. browser' = 0 /\ up' \subseteq up
  BY DEF Stops
<1>2. b # 0 /\ (owns \/ chromes[b].at # Local) => b \notin up'
  BY DEF Stops
<1>3. CASE chromes' = chromes
  BY <1>1, <1>2, <1>3 DEF ChromesOK
<1>4. CASE chromes' # chromes
  <2>1. b \in 1..Len(chromes) /\ owns
    BY <1>4 DEF Stops
  <2> DEFINE r == [chromes[b] EXCEPT !.stopped = TRUE]
  <2>2. chromes' = [chromes EXCEPT ![b] = r]
    BY <2>1 DEF Stops
  <2>3. chromes[b] \in ChromeRecs
    BY <2>1 DEF ChromesOK
  <2>4. /\ r \in ChromeRecs /\ r.dns = chromes[b].dns /\ r.loop = chromes[b].loop
        /\ r.context = chromes[b].context /\ r.at = chromes[b].at
    BY <2>3 DEF ChromeRecs
  <2> HIDE DEF r
  <2>5. chromes' \in Seq(ChromeRecs) /\ Len(chromes') = Len(chromes)
    BY <2>1, <2>2, <2>4 DEF ChromesOK
  <2>6. \A c \in 1..Len(chromes) : chromes'[c] = IF c = b THEN r ELSE chromes[c]
    BY <2>1, <2>2 DEF ChromesOK
  <2> QED BY <1>1, <1>2, <2>1, <2>4, <2>5, <2>6 DEF ChromesOK
<1> QED BY <1>3, <1>4

\* ... and when one more is there.
LEMMA ChromeArrived ==
    ASSUME ChromesOK, owns \in BOOLEAN, NEW l \in Launches, NEW onLoop \in Nat,
           Arrived(l, onLoop)
    PROVE  /\ chromes' \in Seq(ChromeRecs) /\ Len(chromes') = Len(chromes) + 1
           /\ up' = up \union {Len(chromes')} /\ up' \subseteq 1..Len(chromes')
           /\ \A c \in 1..Len(chromes) : chromes'[c] = chromes[c]
           /\ LET new == chromes'[Len(chromes')]
              IN  /\ new.loop = onLoop /\ new.context = InContext(l)
                  /\ new.at = l.at /\ ~new.stopped
           /\ owns' = (owns /\ l.at = Local) /\ owns' \in BOOLEAN
<1> DEFINE dns == IF l.at = Local \/ l.external THEN l.dns ELSE NoDns
           new == [dns |-> dns, loop |-> onLoop, context |-> InContext(l),
                   at |-> l.at, stopped |-> FALSE]
<1>1. InContext(l) \in BOOLEAN
  BY DEF InContext, Launches
<1>2. dns \in DnsMaps /\ l.at \in Endpoints \union {Local}
  BY Defaults DEF Launches
<1>3. chromes' = Append(chromes, new)
  BY DEF Arrived
<1> HIDE DEF dns
<1>4. /\ new \in ChromeRecs /\ new.loop = onLoop /\ new.context = InContext(l)
      /\ new.at = l.at /\ new.stopped = FALSE
  BY <1>1, <1>2 DEF ChromeRecs
<1> HIDE DEF new
<1>5. /\ chromes' \in Seq(ChromeRecs) /\ Len(chromes') = Len(chromes) + 1
      /\ chromes'[Len(chromes) + 1] = new
      /\ \A c \in 1..Len(chromes) : chromes'[c] = chromes[c]
  BY <1>3, <1>4 DEF ChromesOK
<1>6. up' = up \union {Len(chromes')} /\ up' \subseteq 1..Len(chromes')
  BY <1>5 DEF ChromesOK, Arrived
<1>7. owns' = (owns /\ l.at = Local) /\ owns' \in BOOLEAN
  BY Zenon DEF Arrived
<1> QED BY <1>4, <1>5, <1>6, <1>7

-----------------------------------------------------------------------------
\* The steps that replace Chrome, and those of its tasks, keep the types.
LEMMA OutsideTyped ==
    ASSUME TypedOK, NEW t \in Threads, Outside(t)
    PROVE  TypedOK'
<1>1. PICK label \in Between, j \in Jobs, tk \in {task[t], NoTask} :
        /\ pc' = [pc EXCEPT ![t] = label]
        /\ job' = [job EXCEPT ![t] = j]
        /\ task' = [task EXCEPT ![t] = tk]
        /\ tk.state \notin Alive
  BY DEF Outside
<1>2. /\ dnsWanted' \in DnsMaps /\ cdp' \in Places
      /\ budget' \in [requests : Nat, crashes : Nat, failures : Nat]
      /\ UNCHANGED <<lock, chromeVars, loopVars>>
  BY DEF Outside
<1>3. ControlOK'
  BY <1>1, <1>2, Defaults DEF TypedOK, ControlOK, Between
<1>4. AwaitedOK'
  BY <1>1 DEF TypedOK, ControlOK, AwaitedOK
<1>5. EngineOK' /\ ChromesOK' /\ LoopsOK'
  BY <1>2 DEF TypedOK, EngineOK, ChromesOK, LoopsOK, chromeVars, loopVars
<1> QED BY <1>3, <1>4, <1>5 DEF TypedOK

LEMMA SubmittedTask ==
    ASSUME LoopsOK
    PROVE  /\ Submitted \in Tasks /\ Submitted.state = "queued"
           /\ Submitted.loop = loop /\ Submitted.chrome = 0 /\ Submitted.sem = 0
           /\ Submitted.result = "none"
<1>1. loop \in Nat
  BY DEF LoopsOK
<1> QED BY <1>1 DEF Submitted, NoTask, Tasks, TaskStates, Results

LEMMA EnsureTyped ==
    ASSUME TypedOK, NEW t \in Threads, Ensure(t)
    PROVE  TypedOK'
<1>a. /\ pc \in [Threads -> Labels] /\ job \in [Threads -> Jobs]
      /\ task \in [Threads -> Tasks] /\ job[t].ask.proxied \in BOOLEAN
  BY AskFields DEF TypedOK, ControlOK
<1>1. ControlOK' /\ AwaitedOK' /\ lock' \in Threads \union {NoThread}
  <2>1. CASE browser # 0
    <3>1. /\ task' = [task EXCEPT ![t] = Submitted] /\ UNCHANGED <<lock, job, budget>>
          /\ pc' = [pc EXCEPT ![t] = "await"]
      BY <2>1 DEF Ensure, Goto
    <3>2. ControlOK'
      BY <3>1, <1>a, SubmittedTask DEF TypedOK, ControlOK, Labels
    <3>3. AwaitedOK'
      BY <3>1, <1>a, SubmittedTask DEF TypedOK, AwaitedOK
    <3> QED BY <3>1, <3>2, <3>3 DEF TypedOK, EngineOK
  <2>2. CASE browser = 0
    <3> DEFINE j == [job[t] EXCEPT !.after = "await",
                                   !.launch.proxied = job[t].ask.proxied]
    <3>1. /\ job' = [job EXCEPT ![t] = j] /\ UNCHANGED <<task, budget>>
          /\ pc' = [pc EXCEPT ![t] = "starting"] /\ lock' = t
          /\ pc[t] = "ensure"
      BY <2>2 DEF Ensure, Goto, Take
    <3>2. j \in Jobs
      BY <1>a, JobEdits DEF Afters
    <3> HIDE DEF j
    <3>3. ControlOK'
      BY <3>1, <3>2, <1>a DEF TypedOK, ControlOK, Labels
    <3>4. AwaitedOK'
      BY <3>1, <1>a DEF TypedOK, AwaitedOK
    <3> QED BY <3>1, <3>3, <3>4
  <2> QED BY <2>1, <2>2 DEF TypedOK, ChromesOK
<1> QED BY <1>1 DEF Ensure, TypedOK, EngineOK, ChromesOK, LoopsOK, engineVars,
                    chromeVars, loopVars

LEMMA StartTyped ==
    ASSUME TypedOK, NEW t \in Threads, StartRelay(t) \/ StartChrome(t)
    PROVE  TypedOK'
<1>a. /\ pc \in [Threads -> Labels] /\ job \in [Threads -> Jobs]
      /\ task \in [Threads -> Tasks] /\ job[t] \in Jobs
  BY DEF TypedOK, ControlOK
<1>b. AwaitedOK'
  BY <1>a DEF StartRelay, StartChrome, Goto, TypedOK, AwaitedOK
<1>c. /\ dnsWanted \in DnsMaps /\ cdp \in Places /\ owns \in BOOLEAN
      /\ loop \in Nat /\ loops \in Nat /\ running \subseteq 1..loops
  BY DEF TypedOK, EngineOK, LoopsOK
<1>1. CASE StartRelay(t)
  <2> DEFINE external == (cdp # Local)
             j == [job[t] EXCEPT !.launch.dns = dnsWanted, !.launch.external = external]
  <2>1. external \in BOOLEAN
    OBVIOUS
  <2>2. job' = [job EXCEPT ![t] = j] /\ pc' = [pc EXCEPT ![t] = "relayed"]
    BY <1>1 DEF StartRelay, Goto
  <2> HIDE DEF external
  <2>3. j \in Jobs
    BY <1>a, <1>c, <2>1, JobEdits
  <2> HIDE DEF j
  <2>4. ControlOK'
    BY <1>1, <1>a, <2>2, <2>3 DEF StartRelay, TypedOK, ControlOK, Labels
  <2>5. LoopsOK'
    <3>1. loop' = loops + 1 /\ loops' = loops + 1 /\ overdue' = overdue
          /\ running' = running \union {loops + 1}
      BY <1>1 DEF StartRelay
    <3>2. running' \subseteq 1..(loops + 1)
      BY <3>1, <1>c
    <3> QED BY <3>1, <3>2, <1>c DEF TypedOK, LoopsOK
  <2> QED BY <1>1, <1>b, <2>4, <2>5
          DEF StartRelay, TypedOK, EngineOK, ChromesOK, engineVars, chromeVars
<1>2. CASE StartChrome(t)
  <2> DEFINE j == [job[t] EXCEPT !.launch.at = cdp]
  <2>1. job' = [job EXCEPT ![t] = j] /\ pc' = [pc EXCEPT ![t] = "launching"]
    BY <1>2 DEF StartChrome, Goto
  <2>2. j \in Jobs
    BY <1>a, <1>c, JobEdits
  <2> HIDE DEF j
  <2>3. ControlOK'
    BY <1>2, <1>a, <2>1, <2>2 DEF StartChrome, TypedOK, ControlOK, Labels
  <2>4. owns' \in BOOLEAN
    BY <1>2, <1>c DEF StartChrome
  <2> QED BY <1>2, <1>b, <2>3, <2>4
          DEF StartChrome, TypedOK, EngineOK, ChromesOK, LoopsOK, loopVars
<1> QED BY <1>1, <1>2

\* The end of a launch brings one more Chrome, its semaphore and its context.
LEMMA LaunchedTyped ==
    ASSUME EngineOK, ChromesOK, NEW l \in Launches, NEW onLoop \in Nat,
           Launched(l, onLoop)
    PROVE  /\ Arrived(l, onLoop)
           /\ tabSem' = Len(chromes') /\ tabSem' \in Nat
           /\ context' = (IF InContext(l) THEN Len(chromes') ELSE 0)
           /\ context' \in Nat /\ owns' \in BOOLEAN
<1>1. Arrived(l, onLoop) /\ owns \in BOOLEAN
  BY DEF Launched, EngineOK
<1>2. Len(chromes') = Len(chromes) + 1 /\ owns' \in BOOLEAN /\ Len(chromes) \in Nat
  BY <1>1, ChromeArrived DEF ChromesOK
<1> QED BY <1>1, <1>2 DEF Launched

LEMMA LaunchDoneTyped ==
    ASSUME TypedOK, NEW t \in Threads, LaunchDone(t)
    PROVE  TypedOK'
<1> DEFINE l == job[t].launch
           after == job[t].after
           j == IF after = "idle" THEN NoJob ELSE Settled(job[t])
           tk == IF after = "await" THEN Submitted ELSE task[t]
<1>a. /\ pc \in [Threads -> Labels] /\ job \in [Threads -> Jobs]
      /\ task \in [Threads -> Tasks] /\ job[t] \in Jobs /\ l \in Launches
      /\ after \in Afters /\ loop \in Nat /\ pc[t] = "launching"
  BY DEF TypedOK, ControlOK, LoopsOK, Jobs, Afters, LaunchDone
<1>b. Launched(l, loop) /\ browser' = Len(chromes') /\ lock' = NoThread
      /\ UNCHANGED <<dnsWanted, cdp, loopVars, budget>>
  BY DEF LaunchDone, Release
<1>c. launchedDns' \in DnsMaps
  BY DEF LaunchDone, TypedOK, EngineOK
<1>d. job' = [job EXCEPT ![t] = j] /\ task' = [task EXCEPT ![t] = tk]
  BY <1>a DEF LaunchDone
<1>e. pc' = [pc EXCEPT ![t] = after]
  BY DEF LaunchDone, Goto
<1> HIDE DEF l
<1>1. Arrived(l, loop) /\ tabSem' \in Nat /\ context' \in Nat /\ owns' \in BOOLEAN
  BY <1>a, <1>b, LaunchedTyped DEF TypedOK
<1>2. EngineOK'
  BY <1>b, <1>c, <1>1 DEF TypedOK, EngineOK
<1>3. ChromesOK'
  <2>1. /\ chromes' \in Seq(ChromeRecs) /\ Len(chromes') = Len(chromes) + 1
        /\ up' \subseteq 1..Len(chromes') /\ Len(chromes) \in Nat
    BY <1>a, <1>1, ChromeArrived DEF TypedOK, EngineOK, ChromesOK
  <2> QED BY <1>b, <2>1 DEF ChromesOK
<1>4. j \in Jobs
  BY <1>a, Defaults, JobEdits
<1>5. tk \in Tasks /\ (tk.state \in Alive => after = "await" /\ tk.result = "none")
  <2>1. task[t].state \notin Alive
    BY <1>a DEF TypedOK, AwaitedOK
  <2> QED BY <1>a, <2>1, SubmittedTask DEF TypedOK
<1> HIDE DEF j, tk
<1>6. ControlOK'
  BY <1>a, <1>b, <1>d, <1>e, <1>4, <1>5 DEF TypedOK, ControlOK, Labels, Afters
<1>7. AwaitedOK'
  BY <1>a, <1>d, <1>e, <1>5 DEF TypedOK, AwaitedOK
<1>8. LoopsOK'
  BY <1>b DEF TypedOK, LoopsOK, loopVars
<1> QED BY <1>2, <1>3, <1>6, <1>7, <1>8 DEF TypedOK

LaunchGivesUp(t) == LaunchFails(t) \/ ConnectFails(t) \/ ContextFails(t)

\* What every failed launch has in common
LEMMA GivesUp ==
    ASSUME TypedOK, NEW t \in Threads, LaunchGivesUp(t)
    PROVE  /\ pc[t] = "launching" /\ lock = t /\ lock' = NoThread
           /\ pc' = [pc EXCEPT ![t] = "idle"]
           /\ job' = [job EXCEPT ![t] = NoJob] /\ task' = [task EXCEPT ![t] = NoTask]
           /\ budget' \in [requests : Nat, crashes : Nat, failures : Nat]
           /\ budget'.failures = budget.failures + 1
           /\ UNCHANGED <<browser, tabSem, launchedDns, dnsWanted, cdp,
                          loop, loops, running>>
           /\ \/ UNCHANGED <<chromes, up, owns, context>>
              \/ Arrived(job[t].launch, loop) /\ context' = 0
           /\ overdue' \subseteq overdue \union {[loop |-> loop, launch |-> job[t].launch]}
<1>1. LaunchRaises(t)
  BY DEF LaunchGivesUp, LaunchFails, ConnectFails, ContextFails
<1>2. /\ budget' \in [requests : Nat, crashes : Nat, failures : Nat]
      /\ budget'.failures = budget.failures + 1
  BY <1>1 DEF LaunchRaises, Spend, TypedOK, ControlOK
<1>3. overdue' \subseteq overdue \union {[loop |-> loop, launch |-> job[t].launch]}
  BY DEF LaunchGivesUp, LaunchFails, ConnectFails, ContextFails, OutlivesItsWait
<1>4. \/ UNCHANGED <<chromes, up, owns, context>>
      \/ Arrived(job[t].launch, loop) /\ context' = 0
  BY DEF LaunchGivesUp, LaunchFails, ConnectFails, ContextFails
<1> QED BY <1>1, <1>2, <1>3, <1>4 DEF LaunchRaises, Release, Leave, Goto

LEMMA GivesUpTyped ==
    ASSUME TypedOK, NEW t \in Threads, LaunchGivesUp(t)
    PROVE  TypedOK'
<1> DEFINE l == job[t].launch
<1>a. /\ pc \in [Threads -> Labels] /\ job \in [Threads -> Jobs]
      /\ task \in [Threads -> Tasks] /\ l \in Launches /\ loop \in Nat
      /\ owns \in BOOLEAN
  BY DEF TypedOK, ControlOK, LoopsOK, Jobs, EngineOK
<1>1. ControlOK'
  BY <1>a, GivesUp, Defaults DEF ControlOK, Labels
<1>2. AwaitedOK'
  BY <1>a, GivesUp DEF TypedOK, AwaitedOK, NoTask, Alive
<1>3. LoopsOK'
  <2>1. [loop |-> loop, launch |-> l] \in [loop : Nat, launch : Launches]
    BY <1>a
  <2> HIDE DEF l
  <2>2. overdue' \subseteq [loop : Nat, launch : Launches]
    BY <2>1, GivesUp DEF TypedOK, LoopsOK, l
  <2> QED BY <2>2, GivesUp DEF TypedOK, LoopsOK
<1>4. EngineOK' /\ ChromesOK'
  <2>1. CASE UNCHANGED <<chromes, up, owns, context>>
    BY <2>1, GivesUp DEF TypedOK, EngineOK, ChromesOK
  <2>2. CASE Arrived(l, loop) /\ context' = 0
    <3> HIDE DEF l
    <3>1. /\ chromes' \in Seq(ChromeRecs) /\ Len(chromes') = Len(chromes) + 1
          /\ up' \subseteq 1..Len(chromes') /\ owns' \in BOOLEAN
      BY <1>a, <2>2, ChromeArrived DEF TypedOK
    <3> QED BY <2>2, <3>1, GivesUp DEF TypedOK, EngineOK, ChromesOK
  <2> QED BY <2>1, <2>2, GivesUp
<1> QED BY <1>1, <1>2, <1>3, <1>4 DEF TypedOK

LEMMA LateTyped ==
    ASSUME TypedOK, NEW o, LateLaunch(o)
    PROVE  TypedOK'
<1> DEFINE l == o.launch
<1>a. l \in Launches /\ o.loop \in Nat
  BY DEF LateLaunch, TypedOK, LoopsOK
<1>b. Launched(l, o.loop) /\ overdue' \subseteq overdue
      /\ UNCHANGED <<lock, browser, launchedDns, dnsWanted, cdp, loop, loops,
                     running, pc, job, task, budget>>
  BY DEF LateLaunch
<1> HIDE DEF l
<1>1. Arrived(l, o.loop) /\ tabSem' \in Nat /\ context' \in Nat /\ owns' \in BOOLEAN
  BY <1>a, <1>b, LaunchedTyped DEF TypedOK
<1>2. ControlOK' /\ AwaitedOK' /\ LoopsOK' /\ EngineOK'
  BY <1>b, <1>1 DEF TypedOK, ControlOK, AwaitedOK, LoopsOK, EngineOK
<1>3. ChromesOK'
  <2>1. /\ chromes' \in Seq(ChromeRecs) /\ Len(chromes') = Len(chromes) + 1
        /\ up' \subseteq 1..Len(chromes')
    BY <1>a, <1>1, ChromeArrived DEF TypedOK, EngineOK
  <2> QED BY <1>b, <2>1 DEF TypedOK, ChromesOK
<1> QED BY <1>2, <1>3 DEF TypedOK

\* A reset leaves alone the tasks that are over or on another loop.
LEMMA Drained ==
    ASSUME TypedOK, NEW t \in Threads, ResetDrain(t)
    PROVE  /\ task' = [u \in Threads |-> task'[u]]
           /\ \A u \in Threads :
                /\ task'[u] \in Tasks
                /\ task'[u].state \in Alive =>
                     task'[u] = task[u] /\ task[u].loop # loop
<1>1. PICK leaving \in SUBSET {u \in OnLoop(loop) : task[u].state = "loading"} :
        \E s \in SUBSET leaving :
        task' = [u \in Threads |->
                    CASE u \in s -> [task[u] EXCEPT !.state = "lost"]
                      [] u \in OnLoop(loop) \ s -> Cancelled(task[u])
                      [] OTHER -> task[u]]
  BY DEF ResetDrain
<1>3. PICK stuck \in SUBSET leaving :
        task' = [u \in Threads |->
                    CASE u \in stuck -> [task[u] EXCEPT !.state = "lost"]
                      [] u \in OnLoop(loop) \ stuck -> Cancelled(task[u])
                      [] OTHER -> task[u]]
  BY <1>1
<1>2. ASSUME NEW u \in Threads
      PROVE  /\ task'[u] \in Tasks
             /\ task'[u].state \in Alive => task'[u] = task[u] /\ task[u].loop # loop
  <2>a. task[u] \in Tasks
    BY DEF TypedOK, ControlOK
  <2>1. CASE u \in stuck
    <3>1. task'[u] = [task[u] EXCEPT !.state = "lost"]
      BY <1>3, <2>1
    <3>2. task'[u] \in Tasks /\ task'[u].state = "lost"
      BY <2>a, <3>1 DEF Tasks, TaskStates
    <3> QED BY <3>2 DEF Alive
  <2>2. CASE u \in OnLoop(loop) \ stuck
    <3>1. task'[u] = Cancelled(task[u])
      BY <1>3, <2>2
    <3>2. Cancelled(task[u]) \in Tasks /\ Cancelled(task[u]).state = "done"
      BY <2>a DEF Cancelled, NoTask, Tasks, TaskStates, Results
    <3> QED BY <3>1, <3>2 DEF Alive
  <2>3. CASE u \notin stuck /\ u \notin OnLoop(loop)
    <3>1. task'[u] = task[u]
      BY <1>3, <2>3
    <3> QED BY <2>a, <2>3, <3>1 DEF OnLoop
  <2> QED BY <2>1, <2>2, <2>3
<1> QED BY <1>2, <1>3

LEMMA ResetTyped ==
    ASSUME TypedOK, NEW t \in Threads, ResetBegin(t) \/ ResetDrain(t)
    PROVE  TypedOK'
<1>a. /\ pc \in [Threads -> Labels] /\ job \in [Threads -> Jobs]
      /\ task \in [Threads -> Tasks] /\ owns \in BOOLEAN
  BY DEF TypedOK, ControlOK, EngineOK
<1>1. CASE ResetBegin(t)
  <2>1. ChromesOK'
    BY <1>1, <1>a, ChromeStopped DEF ResetBegin, TypedOK, ChromesOK
  <2>2. EngineOK'
    BY <1>1, Defaults DEF ResetBegin, TypedOK, EngineOK
  <2>3. ControlOK' /\ AwaitedOK'
    BY <1>1, <1>a DEF ResetBegin, Goto, TypedOK, ControlOK, AwaitedOK, Labels
  <2> QED BY <1>1, <2>1, <2>2, <2>3 DEF ResetBegin, TypedOK, LoopsOK, loopVars
<1>2. CASE ResetDrain(t)
  <2>1. /\ pc' = [pc EXCEPT ![t] = "starting"] /\ pc[t] = "draining"
        /\ UNCHANGED <<job, budget, lock, chromeVars, dnsWanted, cdp, loop, loops>>
        /\ running' \subseteq running /\ overdue' \subseteq overdue
    BY <1>2 DEF ResetDrain, Goto
  <2>2. ControlOK'
    BY <1>2, <1>a, <2>1, Drained DEF TypedOK, ControlOK, Labels
  <2>3. AwaitedOK'
    <3> SUFFICES ASSUME NEW u \in Threads, task'[u].state \in Alive
                 PROVE  pc'[u] = "await" /\ task'[u].result = "none"
        BY DEF AwaitedOK
    <3>1. task'[u] = task[u]
      BY <1>2, Drained
    <3>2. pc[u] = "await" /\ task[u].result = "none"
      BY <3>1 DEF TypedOK, AwaitedOK
    <3> QED BY <1>a, <2>1, <3>1, <3>2
  <2> QED BY <2>1, <2>2, <2>3
          DEF TypedOK, EngineOK, ChromesOK, LoopsOK, chromeVars
<1> QED BY <1>1, <1>2

\* What a step of a task makes of it
Onward(tk, next) ==
    \/ next.state = "done"
    \/ /\ tk.state = "queued" /\ next.state = "started" /\ next.result = tk.result
       /\ browser # 0 /\ next.chrome = browser
    \/ /\ tk.state = "started" /\ next.state = "waiting" /\ next.result = tk.result
       /\ next.chrome = tk.chrome /\ next.sem = tabSem /\ tabSem # 0
    \/ /\ tk.state = "waiting" /\ next.state = "loading" /\ next.result = tk.result
       /\ next.chrome = tk.chrome /\ next.sem = tk.sem /\ next.context = context
       /\ tk.chrome \in up /\ context \in {0, tk.chrome}
       /\ Cardinality(TabsOf(tk.sem)) < MaxTabs

LEMMA TaskMoves ==
    ASSUME TypedOK, NEW t \in Threads, Task(t)
    PROVE  \E next \in Tasks :
             /\ task' = [task EXCEPT ![t] = next]
             /\ task[t].state \in Alive /\ task[t].loop \in running
             /\ next.loop = task[t].loop /\ Onward(task[t], next)
<1> DEFINE tk == task[t]
           Next(next) == /\ next \in Tasks /\ task' = [task EXCEPT ![t] = next]
                         /\ next.loop = tk.loop /\ Onward(tk, next)
<1>a. /\ tk \in Tasks /\ task \in [Threads -> Tasks]
      /\ browser \in Nat /\ tabSem \in Nat /\ context \in Nat
  BY DEF TypedOK, ControlOK, ChromesOK, EngineOK
<1>b. tk.state \in Alive /\ tk.loop \in running
  BY DEF Task, TaskStart, TaskSem, TaskOpen, TaskFinish, Scheduled, Alive
<1> SUFFICES \E next : Next(next)
    BY <1>b
<1>1. ASSUME NEW outcome \in Results, Ends(t, outcome)
      PROVE  \E next : Next(next)
  <2> DEFINE next == [tk EXCEPT !.state = "done", !.result = outcome]
  <2>1. task' = [task EXCEPT ![t] = next]
    BY <1>1, <1>a DEF Ends
  <2>2. next \in Tasks /\ next.state = "done" /\ next.loop = tk.loop
    BY <1>a DEF Tasks, TaskStates
  <2> HIDE DEF next
  <2>3. Next(next)
    BY <2>1, <2>2 DEF Onward
  <2> QED BY <2>3
<1>2. CASE TaskStart(t)
  <2>1. CASE browser = 0
    BY <1>1, <1>2, <2>1 DEF TaskStart, Results
  <2>2. CASE browser # 0
    <3> DEFINE next == [tk EXCEPT !.state = "started", !.chrome = browser]
    <3>1. task' = [task EXCEPT ![t] = next]
      BY <1>2, <1>a, <2>2 DEF TaskStart
    <3>2. /\ next \in Tasks /\ next.state = "started" /\ next.loop = tk.loop
          /\ next.chrome = browser /\ next.result = tk.result
      BY <1>a DEF Tasks, TaskStates
    <3> HIDE DEF next
    <3>3. Next(next)
      BY <1>2, <2>2, <3>1, <3>2 DEF Onward, TaskStart, Scheduled
    <3> QED BY <3>3
  <2> QED BY <2>1, <2>2
<1>3. CASE TaskSem(t)
  <2>1. CASE tabSem = 0
    BY <1>1, <1>3, <2>1 DEF TaskSem, Results
  <2>2. CASE tabSem # 0
    <3> DEFINE next == [tk EXCEPT !.state = "waiting", !.sem = tabSem]
    <3>1. task' = [task EXCEPT ![t] = next]
      BY <1>3, <1>a, <2>2 DEF TaskSem
    <3>2. /\ next \in Tasks /\ next.state = "waiting" /\ next.loop = tk.loop
          /\ next.chrome = tk.chrome /\ next.sem = tabSem /\ next.result = tk.result
      BY <1>a DEF Tasks, TaskStates
    <3> HIDE DEF next
    <3>3. Next(next)
      BY <1>3, <2>2, <3>1, <3>2 DEF Onward, TaskSem, Scheduled
    <3> QED BY <3>3
  <2> QED BY <2>1, <2>2
<1>4. CASE TaskOpen(t)
  <2> DEFINE next == [tk EXCEPT !.state = "loading", !.context = context]
  <2>1. CASE /\ task' = [task EXCEPT ![t] = next]
             /\ tk.chrome \in up /\ context \in {0, tk.chrome}
    <3>1. /\ next \in Tasks /\ next.state = "loading" /\ next.loop = tk.loop
          /\ next.chrome = tk.chrome /\ next.sem = tk.sem
          /\ next.context = context /\ next.result = tk.result
      BY <1>a DEF Tasks, TaskStates
    <3>2. tk.state = "waiting" /\ Cardinality(TabsOf(tk.sem)) < MaxTabs
      BY <1>4 DEF TaskOpen, Scheduled
    <3> HIDE DEF next
    <3>3. Next(next)
      BY <2>1, <3>1, <3>2 DEF Onward
    <3> QED BY <3>3
  <2>2. CASE \E outcome \in Results : Ends(t, outcome)
    BY <1>1, <2>2
  <2>3. \/ /\ task' = [task EXCEPT ![t] = next]
           /\ tk.chrome \in up /\ context \in {0, tk.chrome}
        \/ Ends(t, "transient") \/ Ends(t, "error") \/ Ends(t, "refused")
    <3>1. Attach(t)
      BY <1>4 DEF TaskOpen
    <3>2. CASE tk.chrome \in up /\ context \in {0, tk.chrome}
      <4>1. \/ task' = [task EXCEPT ![t].state = "loading", ![t].context = context]
            \/ Ends(t, "transient")
        BY <3>1, <3>2 DEF Attach
      <4> HIDE DEF Ends
      <4>2. ASSUME task' = [task EXCEPT ![t].state = "loading", ![t].context = context]
            PROVE  task' = [task EXCEPT ![t] = next]
        BY <1>a, <4>2
      <4> QED BY <3>2, <4>1, <4>2
    <3>3. CASE ~(tk.chrome \in up /\ context \in {0, tk.chrome})
      BY <3>1, <3>3 DEF Attach
    <3> QED BY <3>2, <3>3
  <2> QED BY <2>1, <2>2, <2>3 DEF Results
<1>5. CASE TaskFinish(t)
  BY <1>1, <1>5 DEF TaskFinish, Results
<1> QED BY <1>2, <1>3, <1>4, <1>5 DEF Task

LEMMA TaskTyped ==
    ASSUME TypedOK, NEW t \in Threads, Task(t)
    PROVE  TypedOK'
<1>1. PICK next \in Tasks :
        /\ task' = [task EXCEPT ![t] = next]
        /\ task[t].state \in Alive /\ Onward(task[t], next)
  BY TaskMoves
<1>2. UNCHANGED <<lock, chromeVars, dnsWanted, cdp, loopVars, pc, job, budget>>
  BY DEF Task
<1>3. ControlOK'
  BY <1>1, <1>2 DEF TypedOK, ControlOK
<1>4. AwaitedOK'
  <2>1. next.state \in Alive => next.result = task[t].result
    BY <1>1 DEF Onward, Alive
  <2> QED BY <1>1, <1>2, <2>1 DEF TypedOK, ControlOK, AwaitedOK
<1> QED BY <1>2, <1>3, <1>4
        DEF TypedOK, EngineOK, ChromesOK, LoopsOK, chromeVars, loopVars

LEMMA EndsTyped ==
    ASSUME TypedOK, Crash \/ Close
    PROVE  TypedOK'
<1>1. CASE Crash
  <2>1. /\ budget' \in [requests : Nat, crashes : Nat, failures : Nat]
        /\ up' \subseteq up
    BY <1>1, Spent DEF Crash, TypedOK
  <2> QED BY <1>1, <2>1
          DEF Crash, TypedOK, ControlOK, AwaitedOK, EngineOK, ChromesOK, LoopsOK, loopVars
<1>2. CASE Close
  <2>1. ChromesOK'
    BY <1>2, ChromeStopped DEF Close, TypedOK, EngineOK, ChromesOK
  <2>2. EngineOK'
    BY <1>2 DEF Close, TypedOK, EngineOK
  <2>3. ControlOK'
    BY <1>2 DEF Close, TypedOK, ControlOK, Labels
  <2>4. AwaitedOK'
    BY <1>2 DEF Close, TypedOK, AwaitedOK
  <2>5. LoopsOK'
    BY <1>2 DEF Close, TypedOK, LoopsOK
  <2> QED BY <2>1, <2>2, <2>3, <2>4, <2>5 DEF TypedOK
<1> QED BY <1>1, <1>2

-----------------------------------------------------------------------------
\* Every step of the engine is one of these.
LEMMA Steps ==
    ASSUME TypedOK, BrowserNext
    PROVE  \/ BrowserTick \/ Crash \/ Close \/ \E o \in overdue : LateLaunch(o)
           \/ \E t \in Threads :
                \/ Outside(t) \/ Ensure(t) \/ StartRelay(t) \/ StartChrome(t)
                \/ LaunchDone(t) \/ LaunchGivesUp(t)
                \/ ResetBegin(t) \/ ResetDrain(t) \/ Task(t)
<1> SUFFICES ASSUME NEW t \in Threads, Begin(t) \/ Work(t)
             PROVE  \/ Outside(t) \/ Ensure(t) \/ StartRelay(t) \/ StartChrome(t)
                    \/ LaunchDone(t) \/ LaunchGivesUp(t)
                    \/ ResetBegin(t) \/ ResetDrain(t)
    BY DEF BrowserNext
<1>1. dnsWanted \in DnsMaps /\ cdp \in Places /\ browser \in Nat
  BY DEF TypedOK, EngineOK, ChromesOK
<1>2. Moves(t) \/ Drops(t) => Outside(t)
  BY <1>1, MovesOutside, DropsOutside DEF TypedOK
<1>3. \/ Moves(t) \/ Drops(t) \/ Ensure(t) \/ StartRelay(t) \/ StartChrome(t)
      \/ LaunchDone(t) \/ LaunchGivesUp(t) \/ ResetBegin(t) \/ ResetDrain(t)
  BY DEF Work, Enter, Attempt, Launch, Reset, Await, MaybeRestart, Moves, Drops,
         LaunchGivesUp
<1> QED BY <1>2, <1>3

LEMMA TypedStep ==
    ASSUME TypedOK, [BrowserNext]_browserVars
    PROVE  TypedOK'
<1>1. CASE UNCHANGED <<lock, engineVars, loopVars, pc, job, task, budget>>
  BY <1>1 DEF TypedOK, ControlOK, AwaitedOK, EngineOK, ChromesOK, LoopsOK,
              engineVars, chromeVars, loopVars
<1>2. CASE BrowserTick
  BY <1>1, <1>2 DEF BrowserTick
<1>3. CASE UNCHANGED browserVars
  BY <1>1, <1>3 DEF browserVars
<1>4. ASSUME NEW o \in overdue, LateLaunch(o) PROVE TypedOK'
  BY <1>4, LateTyped
<1>5. ASSUME NEW t \in Threads,
             \/ Outside(t) \/ Ensure(t) \/ StartRelay(t) \/ StartChrome(t)
             \/ LaunchDone(t) \/ LaunchGivesUp(t)
             \/ ResetBegin(t) \/ ResetDrain(t) \/ Task(t)
      PROVE  TypedOK'
  BY <1>5, OutsideTyped, EnsureTyped, StartTyped, LaunchDoneTyped, GivesUpTyped,
     ResetTyped, TaskTyped
<1> QED BY <1>2, <1>3, <1>4, <1>5, Steps, EndsTyped

\* The tracker and the clock move in three of the steps.
TrackerStep(t) == Count(t) \/ Acknowledge(t)

LEMMA TrackerAlone ==
    ASSUME BrowserNext
    PROVE  \/ BrowserTick
           \/ \E t \in Threads : TrackerStep(t)
           \/ UNCHANGED <<clock, trackerVars>>
<1>1. ASSUME Crash \/ Close \/ \E o \in overdue : LateLaunch(o)
      PROVE  UNCHANGED <<clock, trackerVars>>
  BY <1>1 DEF Crash, Close, LateLaunch
<1>2. ASSUME NEW t \in Threads, Begin(t) \/ Enter(t) \/ Attempt(t) \/ Task(t)
      PROVE  UNCHANGED <<clock, trackerVars>>
  BY <1>2 DEF Begin, Enter, Compare, Switch, Resync, Pin, Attempt, AwaitReady,
              ReadWanted, CheckDns, Ensure, Task
<1>3. ASSUME NEW t \in Threads, Launch(t) \/ Reset(t)
      PROVE  UNCHANGED <<clock, trackerVars>>
  BY <1>3 DEF Launch, StartRelay, StartChrome, LaunchDone, LaunchFails, ConnectFails,
              ContextFails, LaunchRaises, Reset, ResetSkipped, ResetBegin, ResetDrain
<1>4. ASSUME NEW t \in Threads, Await(t) \/ MaybeRestart(t), ~TrackerStep(t)
      PROVE  UNCHANGED <<clock, trackerVars>>
  BY <1>4 DEF Await, Fetched, Retry, Fails, TimedOut, MaybeRestart, Judged, Blame,
              RotateFails, TrackerStep
<1> QED BY <1>1, <1>2, <1>3, <1>4 DEF BrowserNext, Work

LEMMA TrackerTyped ==
    ASSUME ClockTypeOK, TrackerTypeOK, [BrowserNext]_browserVars
    PROVE  ClockTypeOK' /\ TrackerTypeOK'
<1>1. CASE UNCHANGED <<clock, trackerVars>>
  BY <1>1 DEF ClockTypeOK, TrackerTypeOK, trackerVars
<1>2. CASE BrowserTick
  BY <1>2 DEF BrowserTick, ClockTick, ClockTypeOK, TrackerTypeOK, trackerVars
<1>3. ASSUME NEW t \in Threads, TrackerStep(t) PROVE ClockTypeOK' /\ TrackerTypeOK'
  <2>1. ClockTypeOK'
    BY <1>3 DEF TrackerStep, Count, Acknowledge, ClockTypeOK
  <2>2. CASE RecordClean
    BY <2>1, <2>2 DEF RecordClean, TrackerTypeOK
  <2>3. CASE AcknowledgeRestart(t)
    BY <2>1, <2>3 DEF AcknowledgeRestart, TrackerTypeOK, ClockTypeOK
  <2>4. CASE RecordBan(t)
    <3>1. streak' \in Nat /\ lastRestart' \in Nat /\ holders' \subseteq Threads
      BY <2>4 DEF RecordBan, TrackerTypeOK
    <3>2. restartDue' \in BOOLEAN /\ claimed' \in BOOLEAN
      BY <2>4, Zenon DEF RecordBan, TrackerTypeOK
    <3> QED BY <2>1, <3>1, <3>2 DEF TrackerTypeOK
  <2> QED BY <1>3, <2>2, <2>3, <2>4 DEF TrackerStep, Count, Acknowledge
<1> QED BY <1>1, <1>2, <1>3, TrackerAlone DEF browserVars

\* Where tabs were left: a step adds a place of a Chrome at most, and takes away none
\* that is an endpoint.
LEMMA LeftStep ==
    ASSUME TypedOK, LeftOK, [BrowserNext]_browserVars
    PROVE  LeftOK' /\ \A p \in Endpoints : p \in left => p \in left'
<1>a. TypedOK /\ up \subseteq Nat /\ left \subseteq Nat \union Endpoints
  BY DEF TypedOK, ChromesOK, LeftOK
<1>1. CASE left' = left
  BY <1>1 DEF LeftOK
<1>2. ASSUME NEW us, left' = left \union LeftBy(us)
      PROVE  LeftOK' /\ \A p \in Endpoints : p \in left => p \in left'
  <2>1. LeftBy(us) \subseteq Nat \union Endpoints
    BY <1>a DEF LeftBy
  <2> QED BY <1>2, <2>1 DEF LeftOK
<1>3. ASSUME TabsGo
      PROVE  LeftOK' /\ \A p \in Endpoints : p \in left => p \in left'
  BY <1>3 DEF TabsGo, LeftOK
<1>4. \/ left' = left \/ TabsGo \/ \E us : left' = left \union LeftBy(us)
  <2>1. ASSUME \/ BrowserTick \/ Crash \/ (\E o \in overdue : LateLaunch(o))
               \/ UNCHANGED browserVars
        PROVE  left' = left
    BY <2>1 DEF BrowserTick, Crash, LateLaunch, browserVars, engineVars
  <2>2. ASSUME NEW t \in Threads, Begin(t) \/ Enter(t) \/ Attempt(t)
        PROVE  left' = left
    BY <2>2 DEF Begin, Enter, Compare, Switch, Resync, Pin, Attempt, AwaitReady,
                ReadWanted, CheckDns, Ensure, engineVars
  <2>3. ASSUME NEW t \in Threads, Launch(t)
        PROVE  left' = left
    BY <2>3 DEF Launch, StartRelay, StartChrome, LaunchDone, LaunchFails, ConnectFails,
                ContextFails, LaunchRaises, engineVars
  <2>4. ASSUME NEW t \in Threads, MaybeRestart(t) \/ Fetched(t) \/ Retry(t) \/ Fails(t)
                                  \/ ResetSkipped(t)
        PROVE  left' = left
    BY <2>4 DEF MaybeRestart, Judged, Count, Acknowledge, Blame, RotateFails, Fetched,
                Retry, Fails, ResetSkipped, engineVars
  <2>5. ASSUME NEW t \in Threads, ResetDrain(t)
        PROVE  \E us : left' = left \union LeftBy(us)
    BY <2>5 DEF ResetDrain
  <2>6. ASSUME NEW t \in Threads, TimedOut(t)
        PROVE  left' = left \/ \E us : left' = left \union LeftBy(us)
    BY <2>6 DEF TimedOut, LeavesTab
  <2>7. ASSUME NEW t \in Threads, Task(t)
        PROVE  left' = left \/ \E us : left' = left \union LeftBy(us)
    BY <2>7 DEF Task, TaskOpen, Attach, TaskFinish, LeavesTab
  <2>8. Close \/ (\E t \in Threads : ResetBegin(t)) => TabsGo
    BY DEF Close, ResetBegin
  <2> QED BY <2>1, <2>2, <2>3, <2>4, <2>5, <2>6, <2>7, <2>8
          DEF BrowserNext, Work, Reset, Await
<1> QED BY <1>1, <1>2, <1>3, <1>4

LEMMA TypeStep == TypeInv /\ [BrowserNext]_browserVars => TypeInv'
  BY TypedStep, TrackerTyped, LeftStep DEF TypeInv

\* Every variable of the engine keeps its type.
THEOREM BrowserTypeCorrect == BrowserSpec => []BrowserTypeOK
<1>1. BrowserSpec => []TypeInv
  BY BaseInit, TypeStep, PTL DEF BrowserSpec
<1> QED BY <1>1, TypeInvGives, PTL

-----------------------------------------------------------------------------
(***************************************************************************)
(* The lease.  ClaimExclusive is not inductive: nothing in it says that a  *)
(* thread which acknowledges is the one that holds the claim.  InHand does *)
(* so, whatever other threads do to Chrome meanwhile.                      *)
(***************************************************************************)
InHand == \A t \in Threads : pc[t] = "claimed" => t \in holders

LeaseInv == TypeInv /\ ClaimExclusive /\ InHand

\* A thread has the claim in its hands only from record() on.
LEMMA ClaimedByCount ==
    ASSUME TypedOK, BrowserNext, NEW u \in Threads, pc'[u] = "claimed"
    PROVE  pc[u] = "claimed" \/ Count(u)
<1>a. /\ pc \in [Threads -> Labels]
      /\ \A t \in Threads : job[t].after # "claimed"
  BY DEF TypedOK, ControlOK, Jobs
<1>1. ASSUME BrowserTick \/ Crash \/ Close \/ \E o \in overdue : LateLaunch(o)
      PROVE  pc[u] = "claimed"
  BY <1>1 DEF BrowserTick, Crash, Close, LateLaunch
<1>2. ASSUME NEW t \in Threads, Begin(t) \/ Enter(t) \/ Attempt(t) \/ Task(t)
      PROVE  pc[u] = "claimed"
  BY <1>2, <1>a DEF Begin, Enter, Compare, Switch, Resync, Pin, Attempt, AwaitReady,
                    ReadWanted, CheckDns, Ensure, Task, ResetFor, Goto
<1>3. ASSUME NEW t \in Threads, Launch(t) \/ Reset(t)
      PROVE  pc[u] = "claimed"
  BY <1>3, <1>a DEF Launch, StartRelay, StartChrome, LaunchDone, LaunchFails,
                    ConnectFails, ContextFails, LaunchRaises, Leave, Reset,
                    ResetSkipped, ResetBegin, ResetDrain, Goto
<1>4. ASSUME NEW t \in Threads, Await(t) \/ MaybeRestart(t), ~Count(t)
      PROVE  pc[u] = "claimed"
  BY <1>4, <1>a DEF Await, Fetched, Retry, Fails, TimedOut, Leave, MaybeRestart,
                    Judged, Acknowledge, Blame, RotateFails, ResetFor, Goto
<1>5. ASSUME NEW t \in Threads, Count(t)
      PROVE  pc[u] = "claimed" \/ t = u
  BY <1>5, <1>a DEF Count, Leave, Goto
<1> QED BY <1>1, <1>2, <1>3, <1>4, <1>5 DEF BrowserNext, Work

LEMMA LeaseInit == BrowserInit => LeaseInv
<1> SUFFICES ASSUME BrowserInit PROVE LeaseInv
    OBVIOUS
<1>1. TypeInv
  BY BaseInit
<1>2. ClaimExclusive
  BY DEF BrowserInit, TrackerInit, ClaimExclusive
<1>3. InHand
  BY DEF BrowserInit, InHand
<1> QED BY <1>1, <1>2, <1>3 DEF LeaseInv

\* Who takes the lease found it free; who gives it back had it, alone.
LEMMA LeaseCount ==
    ASSUME LeaseInv, BrowserNext, NEW t \in Threads, Count(t)
    PROVE  /\ ClaimExclusive' /\ InHand'
           /\ Lease!Take(t) \/ UNCHANGED Lease!vars
<1>a. pc \in [Threads -> Labels] /\ TypedOK
  BY DEF LeaseInv, TypeInv, TypedOK, ControlOK
<1>b. \A u \in Threads : pc'[u] = "claimed" => pc[u] = "claimed" \/ u = t
  BY <1>a DEF Count, Leave, Goto
<1>1. CASE RecordBan(t) /\ Claims(streak + 1)
  <2>1. holders = {} /\ (lastRestart = 0 \/ clock - lastRestart >= RecycleCooldown)
    BY <1>1 DEF Claims, CooldownOver, LeaseInv, ClaimExclusive
  <2>2. claimed' /\ holders' = {t} /\ UNCHANGED <<lastRestart, clock>>
    BY <1>1, <2>1 DEF Count, RecordBan
  <2>3. InHand'
    BY <1>b, <2>1, <2>2 DEF InHand, LeaseInv
  <2> QED BY <2>1, <2>2, <2>3 DEF ClaimExclusive, Lease!Take
<1>2. CASE RecordBan(t) /\ ~Claims(streak + 1)
  <2>1. holders' = holders /\ UNCHANGED <<lastRestart, clock>>
    BY <1>2 DEF Count, RecordBan
  <2>2. claimed' = claimed
    BY <1>2, Zenon DEF RecordBan, LeaseInv, TypeInv, TrackerTypeOK
  <2>3. pc'[t] # "claimed"
    BY <1>2, <1>a DEF Count, Leave, Goto, RecordClean
  <2>4. InHand'
    BY <1>b, <2>1, <2>3 DEF InHand, LeaseInv
  <2> QED BY <2>1, <2>2, <2>4 DEF LeaseInv, ClaimExclusive, Lease!vars
<1>3. CASE RecordClean /\ Leave(t)
  <2>1. holders' = holders /\ claimed' = claimed /\ UNCHANGED <<lastRestart, clock>>
    BY <1>3 DEF Count, RecordClean
  <2>2. pc'[t] # "claimed"
    BY <1>3, <1>a DEF Leave, Goto
  <2>3. InHand'
    BY <1>b, <2>1, <2>2 DEF InHand, LeaseInv
  <2> QED BY <2>1, <2>3 DEF LeaseInv, ClaimExclusive, Lease!vars
<1> QED BY <1>1, <1>2, <1>3 DEF Count

LEMMA LeaseAcknowledged ==
    ASSUME LeaseInv, NEW t \in Threads, Acknowledge(t)
    PROVE  ClaimExclusive' /\ InHand' /\ Lease!GiveBack(t)
<1>a. pc \in [Threads -> Labels]
  BY DEF LeaseInv, TypeInv, TypedOK, ControlOK
<1>1. holders = {t}
  BY DEF Acknowledge, InHand, LeaseInv, ClaimExclusive
<1>2. holders' = {} /\ ~claimed' /\ lastRestart' = clock /\ UNCHANGED clock
  BY <1>1 DEF Acknowledge, AcknowledgeRestart
<1>3. \A u \in Threads : pc'[u] # "claimed"
  BY <1>a, <1>1 DEF Acknowledge, Goto, InHand, LeaseInv
<1> QED BY <1>1, <1>2, <1>3 DEF ClaimExclusive, InHand, Lease!GiveBack

LEMMA LeaseStep ==
    ASSUME LeaseInv, [BrowserNext]_browserVars
    PROVE  LeaseInv' /\ [Lease!Next]_Lease!vars
<1>a. TypeInv' /\ TypedOK
  BY TypeStep DEF LeaseInv, TypeInv
<1>1. ASSUME UNCHANGED trackerVars, \A u \in Threads : pc'[u] = "claimed" => pc[u] = "claimed"
      PROVE  ClaimExclusive' /\ InHand'
  <2>1. claimed' = claimed /\ holders' = holders
    BY <1>1 DEF trackerVars
  <2> QED BY <1>1, <2>1 DEF LeaseInv, ClaimExclusive, InHand
<1>2. CASE UNCHANGED browserVars
  <2>1. UNCHANGED trackerVars /\ UNCHANGED clock /\ pc' = pc
    BY <1>2 DEF browserVars
  <2>2. UNCHANGED Lease!vars
    BY <2>1 DEF trackerVars, Lease!vars
  <2> QED BY <1>a, <1>1, <2>1, <2>2 DEF LeaseInv
<1>3. CASE BrowserTick
  <2>1. Lease!Tick /\ UNCHANGED trackerVars /\ pc' = pc
    BY <1>3 DEF BrowserTick, ClockTick, trackerVars, Lease!Tick
  <2> QED BY <1>a, <1>1, <2>1 DEF LeaseInv, Lease!Next
<1>4. ASSUME NEW t \in Threads, Count(t), BrowserNext
      PROVE  LeaseInv' /\ [Lease!Next]_Lease!vars
  BY <1>a, <1>4, LeaseCount DEF LeaseInv, Lease!Next
<1>5. ASSUME NEW t \in Threads, Acknowledge(t)
      PROVE  LeaseInv' /\ [Lease!Next]_Lease!vars
  BY <1>a, <1>5, LeaseAcknowledged DEF LeaseInv, Lease!Next
<1>6. CASE BrowserNext /\ UNCHANGED <<clock, trackerVars>> /\ \A t \in Threads : ~Count(t)
  <2>1. UNCHANGED Lease!vars /\ UNCHANGED trackerVars
    BY <1>6 DEF trackerVars, Lease!vars
  <2>2. \A u \in Threads : pc'[u] = "claimed" => pc[u] = "claimed"
    BY <1>6, <1>a, ClaimedByCount
  <2> QED BY <1>a, <1>1, <2>1, <2>2 DEF LeaseInv
<1> QED BY <1>2, <1>3, <1>4, <1>5, <1>6, TrackerAlone DEF TrackerStep

\* One thread at a time is told to restart Chrome, and the flag says exactly that.
THEOREM OneClaim == BrowserSpec => []ClaimExclusive
<1>1. BrowserSpec => []LeaseInv
  <2>1. LeaseInv /\ [BrowserNext]_browserVars => LeaseInv'
    BY LeaseStep
  <2> QED BY <2>1, LeaseInit, PTL DEF BrowserSpec
<1>2. LeaseInv => ClaimExclusive
  BY DEF LeaseInv
<1> QED BY <1>1, <1>2, PTL

\* Restarts for bans are the lease RecycleLease describes: one thread at a time,
\* and not before the cooldown since the last one is over.
THEOREM LeaseHolds == BrowserSpec => LeaseSpec
<1>1. BrowserInit => Lease!Init
  BY DEF BrowserInit, ClockInit, TrackerInit, Lease!Init
<1>2. LeaseInv /\ [BrowserNext]_browserVars => LeaseInv'
  BY LeaseStep
<1>3. LeaseInv /\ [BrowserNext]_browserVars => [Lease!Next]_Lease!vars
  BY LeaseStep
<1> QED BY <1>1, <1>2, <1>3, LeaseInit, PTL DEF BrowserSpec, LeaseSpec, Lease!Spec

-----------------------------------------------------------------------------
(***************************************************************************)
(* Chrome, its loop and the tasks.  Who replaces Chrome has the lock, and  *)
(* nobody has a Chrome to start a task on meanwhile (LockInv); a Chrome at *)
(* hand is on the loop that runs (LoopInv).  So a task is on that loop,    *)
(* too, and its Chrome, from the moment it has one, is the one at hand or, *)
(* while the loop is drained, one that was (TaskInv).                      *)
(***************************************************************************)
LockInv ==
    \A t \in Threads : /\ pc[t] \in Inside <=> lock = t
                       /\ pc[t] \in Inside => browser = 0

LoopInv ==
    /\ browser # 0 => loop \in running /\ chromes[browser].loop = loop
    /\ \A t \in Threads : pc[t] \in {"relayed", "launching"} => loop \in running

Draining == \E t \in Threads : pc[t] = "draining"

TaskOK(tk) ==
    /\ tk.loop = loop /\ loop \in running
    /\ browser # 0 \/ Draining
    /\ tk.chrome # 0 => /\ tk.chrome \in 1..Len(chromes)
                        /\ chromes[tk.chrome].loop = loop
                        /\ browser \in {0, tk.chrome}

TaskInv == \A u \in Threads : task[u].state \in Alive => TaskOK(task[u])

\* owns is about the Chrome at hand: only one that was launched here is stopped.
OwnInv ==
    /\ browser # 0 /\ owns => chromes[browser].at = Local
    /\ ExternalSpared

StateInv == TypedOK /\ LockInv /\ LoopInv /\ TaskInv /\ OwnInv

LEMMA StateInit == BrowserInit => StateInv
<1> SUFFICES ASSUME BrowserInit PROVE StateInv
    OBVIOUS
<1> USE DEF BrowserInit
<1>1. TypedOK
  BY BaseInit DEF TypeInv
<1>2. LockInv
  BY Defaults DEF LockInv, Inside
<1>3. LoopInv
  BY DEF LoopInv
<1>4. TaskInv
  BY DEF TaskInv, NoTask, Alive
<1>5. OwnInv
  <2>1. Len(chromes) = 0
    OBVIOUS
  <2> QED BY <2>1 DEF OwnInv, ExternalSpared
<1> QED BY <1>1, <1>2, <1>3, <1>4, <1>5 DEF StateInv

\* A step outside the lock, as the invariants see it
LEMMA OutsideMoves ==
    ASSUME TypedOK, NEW t \in Threads, Outside(t)
    PROVE  /\ pc[t] \notin Inside /\ pc'[t] \notin Inside \union {"closed"}
           /\ \A u \in Threads : u # t => pc'[u] = pc[u] /\ job'[u] = job[u]
           /\ \A u \in Threads : \/ task'[u] = task[u]
                                 \/ task'[u].state \notin Alive
           /\ UNCHANGED <<lock, chromeVars, loopVars>>
           /\ budget'.failures >= budget.failures
<1>1. PICK label \in Between, j \in Jobs, tk \in {task[t], NoTask} :
        /\ pc[t] \notin Inside
        /\ pc' = [pc EXCEPT ![t] = label]
        /\ job' = [job EXCEPT ![t] = j]
        /\ task' = [task EXCEPT ![t] = tk]
        /\ tk.state \notin Alive
  BY DEF Outside
<1>2. UNCHANGED <<lock, chromeVars, loopVars>> /\ budget'.failures >= budget.failures
  BY DEF Outside
<1> QED BY <1>1, <1>2 DEF TypedOK, ControlOK, Between

LEMMA OutsideState ==
    ASSUME StateInv, NEW t \in Threads, Outside(t)
    PROVE  LockInv' /\ LoopInv' /\ TaskInv' /\ OwnInv'
<1>1. UNCHANGED <<lock, browser, chromes, owns, loop, running>>
  BY DEF Outside, chromeVars, loopVars
<1>2. /\ pc[t] \notin Inside /\ pc'[t] \notin Inside
      /\ \A u \in Threads : u # t => pc'[u] = pc[u]
  BY OutsideMoves DEF StateInv
<1>3. LockInv'
  BY <1>1, <1>2 DEF StateInv, LockInv
<1>4. LoopInv'
  BY <1>1, <1>2 DEF StateInv, LoopInv, Inside
<1>5. TaskInv'
  <2>1. Draining => Draining'
    BY <1>2 DEF Draining, Inside
  <2>2. \A u \in Threads : task'[u] = task[u] \/ task'[u].state \notin Alive
    BY OutsideMoves DEF StateInv
  <2> QED BY <1>1, <2>1, <2>2 DEF StateInv, TaskInv, TaskOK
<1>6. OwnInv'
  BY <1>1 DEF StateInv, OwnInv, ExternalSpared
<1> QED BY <1>3, <1>4, <1>5, <1>6

\* Nobody has a task while Chrome is started.
LEMMA NoTaskInside ==
    ASSUME StateInv, NEW t \in Threads, pc[t] \in Inside \ {"draining"}
    PROVE  /\ lock = t /\ browser = 0
           /\ \A u \in Threads : u # t => pc[u] \notin Inside
           /\ \A u \in Threads : task[u].state \notin Alive
<1>1. lock = t /\ browser = 0
  BY DEF StateInv, LockInv
<1>2. \A u \in Threads : u # t => pc[u] \notin Inside
  BY <1>1 DEF StateInv, LockInv
<1>3. ~Draining
  BY <1>2 DEF Draining, Inside
<1> QED BY <1>1, <1>2, <1>3 DEF StateInv, TaskInv, TaskOK

LEMMA EnsureState ==
    ASSUME StateInv, NEW t \in Threads, Ensure(t)
    PROVE  LockInv' /\ LoopInv' /\ TaskInv' /\ OwnInv'
<1>a. /\ pc \in [Threads -> Labels] /\ task \in [Threads -> Tasks]
      /\ pc[t] = "ensure" /\ lock = NoThread /\ NoThread \notin Threads
      /\ UNCHANGED <<browser, chromes, owns, loop, running>>
  BY Defaults DEF StateInv, TypedOK, ControlOK, Ensure, Take, LockFree, engineVars,
                  chromeVars, loopVars
<1>1. OwnInv'
  BY <1>a DEF StateInv, OwnInv, ExternalSpared
<1>2. CASE browser # 0
  <2>1. /\ pc' = [pc EXCEPT ![t] = "await"] /\ lock' = lock
        /\ task' = [task EXCEPT ![t] = Submitted]
    BY <1>2 DEF Ensure, Goto
  <2>2. LockInv'
    BY <1>a, <2>1 DEF StateInv, LockInv, Inside
  <2>3. LoopInv'
    BY <1>a, <2>1 DEF StateInv, LoopInv
  <2>4. TaskInv'
    <3>1. Submitted.loop = loop /\ Submitted.chrome = 0
      BY SubmittedTask DEF StateInv, TypedOK
    <3>2. loop \in running
      BY <1>2 DEF StateInv, LoopInv
    <3> HIDE DEF Submitted
    <3> QED BY <1>a, <1>2, <2>1, <3>1, <3>2 DEF StateInv, TaskInv, TaskOK
  <2> QED BY <1>1, <2>2, <2>3, <2>4
<1>3. CASE browser = 0
  <2>1. pc' = [pc EXCEPT ![t] = "starting"] /\ lock' = t /\ task' = task
    BY <1>3 DEF Ensure, Goto, Take
  <2>2. LockInv'
    BY <1>a, <1>3, <2>1 DEF StateInv, LockInv, Inside
  <2>3. LoopInv'
    BY <1>a, <2>1 DEF StateInv, LoopInv
  <2>4. TaskInv'
    <3>1. Draining => Draining'
      BY <1>a, <2>1 DEF Draining
    <3> QED BY <1>a, <2>1, <3>1 DEF StateInv, TaskInv, TaskOK
  <2> QED BY <1>1, <2>2, <2>3, <2>4
<1> QED BY <1>2, <1>3

LEMMA StartState ==
    ASSUME StateInv, NEW t \in Threads, StartRelay(t) \/ StartChrome(t)
    PROVE  LockInv' /\ LoopInv' /\ TaskInv' /\ OwnInv'
<1>a. /\ pc \in [Threads -> Labels] /\ pc[t] \in {"starting", "relayed"}
      /\ lock = t /\ browser = 0
      /\ \A u \in Threads : u # t => pc[u] \notin Inside
      /\ \A u \in Threads : task[u].state \notin Alive
  <2>1. pc \in [Threads -> Labels] /\ pc[t] \in {"starting", "relayed"}
    BY DEF StateInv, TypedOK, ControlOK, StartRelay, StartChrome
  <2> QED BY <2>1, NoTaskInside DEF Inside
<1>b. UNCHANGED <<lock, browser, chromes, task>>
  BY DEF StartRelay, StartChrome, engineVars, chromeVars
<1>c. pc'[t] \in {"relayed", "launching"} /\ \A u \in Threads : u # t => pc'[u] = pc[u]
  BY <1>a DEF StartRelay, StartChrome, Goto
<1>1. LockInv'
  BY <1>a, <1>b, <1>c DEF LockInv, Inside
<1>2. LoopInv'
  <2>1. loop' \in running'
    <3>1. CASE StartRelay(t)
      BY <3>1 DEF StartRelay
    <3>2. CASE StartChrome(t)
      BY <3>2 DEF StartChrome, loopVars, StateInv, LoopInv
    <3> QED BY <3>1, <3>2
  <2> QED BY <1>a, <1>b, <2>1 DEF LoopInv
<1>3. TaskInv' /\ OwnInv'
  BY <1>a, <1>b DEF StateInv, TaskInv, OwnInv, ExternalSpared
<1> QED BY <1>1, <1>2, <1>3

\* What the end of a launch does
LEMMA LaunchEnds ==
    ASSUME TypedOK, NEW t \in Threads, LaunchDone(t)
    PROVE  LET l == job[t].launch
               new == Len(chromes) + 1
           IN  /\ pc[t] = "launching" /\ pc'[t] \in Afters
               /\ lock = t /\ lock' = NoThread
               /\ \A u \in Threads : u # t => pc'[u] = pc[u] /\ task'[u] = task[u]
               /\ task'[t] \in {task[t], Submitted}
               /\ browser' = new /\ tabSem' = new /\ Len(chromes') = new
               /\ up' = up \union {new}
               /\ context' = (IF InContext(l) THEN new ELSE 0)
               /\ owns' = (owns /\ l.at = Local)
               /\ chromes'[new].loop = loop /\ chromes'[new].at = l.at
               /\ ~chromes'[new].stopped
               /\ chromes'[new].context = InContext(l)
               /\ \A c \in 1..Len(chromes) : chromes'[c] = chromes[c]
               /\ UNCHANGED <<loopVars, budget>>
<1> DEFINE l == job[t].launch
<1>1. /\ pc \in [Threads -> Labels] /\ task \in [Threads -> Tasks]
      /\ job[t].after \in Afters /\ l \in Launches /\ loop \in Nat
  BY DEF TypedOK, ControlOK, LoopsOK, Jobs, Afters
<1>2. Launched(l, loop)
  BY DEF LaunchDone
<1>3. /\ pc[t] = "launching" /\ pc' = [pc EXCEPT ![t] = job[t].after]
      /\ lock = t /\ lock' = NoThread /\ browser' = Len(chromes')
      /\ UNCHANGED <<loopVars, budget>>
  BY DEF LaunchDone, Release, Goto
<1>4. \/ task' = [task EXCEPT ![t] = Submitted]
      \/ task' = task
  BY DEF LaunchDone
<1> HIDE DEF l
<1>5. /\ Arrived(l, loop) /\ tabSem' = Len(chromes')
      /\ context' = (IF InContext(l) THEN Len(chromes') ELSE 0)
  BY <1>1, <1>2, LaunchedTyped DEF TypedOK
<1>6. /\ Len(chromes') = Len(chromes) + 1
      /\ up' = up \union {Len(chromes')} /\ owns' = (owns /\ l.at = Local)
      /\ \A c \in 1..Len(chromes) : chromes'[c] = chromes[c]
      /\ LET new == chromes'[Len(chromes')]
         IN  /\ new.loop = loop /\ new.context = InContext(l)
             /\ new.at = l.at /\ ~new.stopped
  BY <1>1, <1>5, ChromeArrived DEF TypedOK, EngineOK
<1>7. \A u \in Threads : u # t => pc'[u] = pc[u] /\ task'[u] = task[u]
  BY <1>1, <1>3, <1>4
<1>8. pc'[t] \in Afters /\ task'[t] \in {task[t], Submitted}
  BY <1>1, <1>3, <1>4
<1>9. /\ browser' = Len(chromes) + 1 /\ tabSem' = Len(chromes) + 1
      /\ up' = up \union {Len(chromes) + 1}
      /\ context' = (IF InContext(l) THEN Len(chromes) + 1 ELSE 0)
  BY <1>3, <1>5, <1>6
<1> QED BY <1>3, <1>6, <1>7, <1>8, <1>9 DEF l

LEMMA LaunchDoneState ==
    ASSUME StateInv, NEW t \in Threads, LaunchDone(t)
    PROVE  LockInv' /\ LoopInv' /\ TaskInv' /\ OwnInv'
<1> DEFINE new == Len(chromes) + 1
           at == job[t].launch.at
<1>a. /\ pc[t] = "launching" /\ pc'[t] \notin Inside
      /\ lock' = NoThread /\ NoThread \notin Threads
      /\ \A u \in Threads : u # t => pc'[u] = pc[u] /\ task'[u] = task[u]
      /\ task'[t] \in {task[t], Submitted}
      /\ UNCHANGED <<loop, running>>
  BY LaunchEnds, Defaults DEF StateInv, Afters, Inside, loopVars
<1>b. /\ browser' = new /\ Len(chromes') = new /\ owns' = (owns /\ at = Local)
      /\ chromes'[new].loop = loop /\ chromes'[new].at = at
      /\ ~chromes'[new].stopped
      /\ \A c \in 1..Len(chromes) : chromes'[c] = chromes[c]
      /\ Len(chromes) \in Nat
  BY LaunchEnds DEF StateInv, TypedOK, ChromesOK
<1>c. /\ \A u \in Threads : u # t => pc[u] \notin Inside
      /\ \A u \in Threads : task[u].state \notin Alive
      /\ loop \in running
  BY <1>a, NoTaskInside DEF Inside, StateInv, LoopInv
<1> HIDE DEF new, at
<1>1. LockInv'
  BY <1>a, <1>c DEF LockInv
<1>2. LoopInv'
  BY <1>a, <1>b, <1>c DEF LoopInv, Inside
<1>3. TaskInv'
  <2>1. Submitted.loop = loop /\ Submitted.chrome = 0
    BY SubmittedTask DEF StateInv, TypedOK
  <2>2. new # 0
    BY <1>b DEF new
  <2> HIDE DEF Submitted
  <2> QED BY <1>a, <1>b, <1>c, <2>1, <2>2 DEF TaskInv, TaskOK
<1>4. OwnInv'
  <2>1. \A c \in 1..new : c = new \/ c \in 1..Len(chromes)
    BY <1>b DEF new
  <2> QED BY <1>b, <2>1 DEF StateInv, OwnInv, ExternalSpared
<1> QED BY <1>1, <1>2, <1>3, <1>4

\* A Chrome that nobody takes changes nothing for the others.
LEMMA StrayState ==
    ASSUME StateInv, NEW l \in Launches, NEW onLoop \in Nat, Arrived(l, onLoop),
           UNCHANGED <<browser, loop, running>>
    PROVE  /\ OwnInv'
           /\ LoopInv' <=> (\A t \in Threads :
                              pc'[t] \in {"relayed", "launching"} => loop \in running)
           /\ \A u \in Threads, v \in Threads :
                TaskOK(task[u]) /\ task'[v] = task[u] /\ (Draining => Draining')
                  => TaskOK(task[v])'
<1>1. /\ Len(chromes') = Len(chromes) + 1 /\ owns' = (owns /\ l.at = Local)
      /\ \A c \in 1..Len(chromes) : chromes'[c] = chromes[c]
      /\ ~chromes'[Len(chromes')].stopped
      /\ Len(chromes) \in Nat /\ browser \in 0..Len(chromes)
  BY ChromeArrived DEF StateInv, TypedOK, EngineOK, ChromesOK
<1>2. browser # 0 => chromes'[browser] = chromes[browser]
  BY <1>1
<1>3. OwnInv'
  <2>1. \A c \in 1..Len(chromes') : c = Len(chromes') \/ c \in 1..Len(chromes)
    BY <1>1
  <2> QED BY <1>1, <1>2, <2>1 DEF StateInv, OwnInv, ExternalSpared
<1>4. 1..Len(chromes) \subseteq 1..Len(chromes')
  BY <1>1
<1> QED BY <1>1, <1>2, <1>3, <1>4 DEF StateInv, LoopInv, TaskOK

LEMMA GivesUpState ==
    ASSUME StateInv, NEW t \in Threads, LaunchGivesUp(t)
    PROVE  LockInv' /\ LoopInv' /\ TaskInv' /\ OwnInv'
<1>a. /\ pc[t] = "launching" /\ lock' = NoThread /\ NoThread \notin Threads
      /\ pc'[t] = "idle" /\ task'[t] = NoTask
      /\ \A u \in Threads : u # t => pc'[u] = pc[u] /\ task'[u] = task[u]
      /\ UNCHANGED <<browser, loop, running>>
      /\ job[t].launch \in Launches /\ loop \in Nat
  <2>1. /\ pc \in [Threads -> Labels] /\ task \in [Threads -> Tasks]
        /\ job[t].launch \in Launches /\ loop \in Nat
    BY DEF StateInv, TypedOK, ControlOK, LoopsOK, Jobs
  <2> QED BY <2>1, GivesUp, Defaults DEF StateInv
<1>b. /\ \A u \in Threads : u # t => pc[u] \notin Inside
      /\ \A u \in Threads : task[u].state \notin Alive
      /\ browser = 0
  BY <1>a, NoTaskInside DEF Inside
<1>1. LockInv'
  BY <1>a, <1>b DEF LockInv, Inside
<1>2. TaskInv'
  BY <1>a, <1>b DEF TaskInv, NoTask, Alive
<1>3. LoopInv'
  BY <1>a, <1>b DEF LoopInv, Inside
<1>4. OwnInv'
  <2>1. CASE UNCHANGED <<chromes, owns>>
    BY <1>a, <2>1 DEF StateInv, OwnInv, ExternalSpared
  <2>2. CASE Arrived(job[t].launch, loop)
    BY <1>a, <2>2, StrayState
  <2> QED BY <2>1, <2>2, GivesUp DEF StateInv
<1> QED BY <1>1, <1>2, <1>3, <1>4

LEMMA LateState ==
    ASSUME StateInv, NEW o, LateLaunch(o)
    PROVE  LockInv' /\ LoopInv' /\ TaskInv' /\ OwnInv'
<1> DEFINE l == o.launch
<1>1. l \in Launches /\ o.loop \in Nat
  BY DEF LateLaunch, StateInv, TypedOK, LoopsOK
<1>2. /\ Launched(l, o.loop)
      /\ UNCHANGED <<lock, browser, loop, running, pc, task>>
  BY DEF LateLaunch
<1> HIDE DEF l
<1>3. Arrived(l, o.loop)
  BY <1>1, <1>2, LaunchedTyped DEF StateInv, TypedOK
<1>4. OwnInv' /\ LoopInv'
  BY <1>1, <1>2, <1>3, StrayState DEF StateInv, LoopInv
<1>5. LockInv'
  BY <1>2 DEF StateInv, LockInv
<1>6. TaskInv'
  <2>1. Draining => Draining'
    BY <1>2 DEF Draining
  <2>2. \A u \in Threads : TaskOK(task[u]) => TaskOK(task[u])'
    BY <1>1, <1>2, <1>3, <2>1, StrayState
  <2> QED BY <1>2, <2>2 DEF StateInv, TaskInv
<1> QED BY <1>4, <1>5, <1>6

\* The Chrome at hand is stopped, or left to whoever it belongs to.
LEMMA StopState ==
    ASSUME StateInv, Stops(browser)
    PROVE  /\ browser' = 0 /\ Len(chromes') = Len(chromes)
           /\ \A c \in 1..Len(chromes) : chromes'[c].loop = chromes[c].loop
                                         /\ chromes'[c].context = chromes[c].context
           /\ ExternalSpared'
<1>1. owns \in BOOLEAN /\ browser \in 0..Len(chromes) /\ ChromesOK
  BY DEF StateInv, TypedOK, EngineOK, ChromesOK
<1>2. /\ browser' = 0 /\ Len(chromes') = Len(chromes)
      /\ \A c \in 1..Len(chromes) :
           /\ chromes'[c].loop = chromes[c].loop
           /\ chromes'[c].context = chromes[c].context
           /\ chromes'[c].at = chromes[c].at
           /\ chromes'[c].stopped => chromes[c].stopped \/ (owns /\ c = browser)
  BY <1>1, ChromeStopped
<1>3. ASSUME NEW c \in 1..Len(chromes), chromes'[c].stopped
      PROVE  chromes'[c].at = Local
  <2>1. CASE chromes[c].stopped
    BY <1>2, <1>3, <2>1 DEF StateInv, OwnInv, ExternalSpared
  <2>2. CASE owns /\ c = browser
    <3>1. browser # 0
      BY <1>1, <1>3, <2>2
    <3> QED BY <1>2, <1>3, <2>2, <3>1 DEF StateInv, OwnInv
  <2> QED BY <1>2, <1>3, <2>1, <2>2
<1> QED BY <1>2, <1>3 DEF ExternalSpared

LEMMA ResetState ==
    ASSUME StateInv, NEW t \in Threads, ResetBegin(t) \/ ResetDrain(t)
    PROVE  LockInv' /\ LoopInv' /\ TaskInv' /\ OwnInv'
<1>a. pc \in [Threads -> Labels] /\ NoThread \notin Threads
  BY Defaults DEF StateInv, TypedOK, ControlOK
<1>1. CASE ResetBegin(t)
  <2>a. /\ pc[t] = "reset" /\ pc' = [pc EXCEPT ![t] = "draining"]
        /\ lock = NoThread /\ lock' = t /\ Stops(browser)
        /\ UNCHANGED <<task, loop, running>>
    BY <1>1 DEF ResetBegin, LockFree, Goto, loopVars
  <2>b. /\ browser' = 0 /\ Len(chromes') = Len(chromes) /\ ExternalSpared'
        /\ \A c \in 1..Len(chromes) : chromes'[c].loop = chromes[c].loop
    BY <2>a, StopState
  <2>1. LockInv'
    BY <1>a, <2>a, <2>b DEF StateInv, LockInv, Inside
  <2>2. LoopInv'
    BY <1>a, <2>a, <2>b DEF StateInv, LoopInv
  <2>3. TaskInv'
    <3>1. Draining'
      BY <1>a, <2>a DEF Draining
    <3> QED BY <2>a, <2>b, <3>1 DEF StateInv, TaskInv, TaskOK
  <2> QED BY <2>1, <2>2, <2>3, <2>b DEF OwnInv
<1>2. CASE ResetDrain(t)
  <2>a. /\ pc[t] = "draining" /\ pc' = [pc EXCEPT ![t] = "starting"]
        /\ UNCHANGED <<lock, browser, chromes, owns, loop>>
        /\ \A u \in Threads : task'[u].state \in Alive =>
             task'[u] = task[u] /\ task[u].loop # loop
    BY <1>2, Drained DEF StateInv, ResetDrain, Goto, engineVars, chromeVars
  <2>b. lock = t /\ browser = 0
    BY <2>a DEF StateInv, LockInv, Inside
  <2>1. LockInv'
    BY <1>a, <2>a DEF StateInv, LockInv, Inside
  <2>2. LoopInv'
    <3>1. \A u \in Threads : pc'[u] \notin {"relayed", "launching"}
      BY <1>a, <2>a, <2>b DEF StateInv, LockInv, Inside
    <3> QED BY <2>a, <2>b, <3>1 DEF LoopInv
  <2>3. TaskInv'
    <3>1. \A u \in Threads : task'[u].state \notin Alive
      BY <2>a DEF StateInv, TaskInv, TaskOK
    <3> QED BY <3>1 DEF TaskInv
  <2>4. OwnInv'
    BY <2>a DEF StateInv, OwnInv, ExternalSpared
  <2> QED BY <2>1, <2>2, <2>3, <2>4
<1> QED BY <1>1, <1>2

LEMMA TaskState ==
    ASSUME StateInv, NEW t \in Threads, Task(t)
    PROVE  LockInv' /\ LoopInv' /\ TaskInv' /\ OwnInv'
<1>a. UNCHANGED <<lock, browser, chromes, owns, loop, running, pc>>
  BY DEF Task, engineVars, chromeVars, loopVars
<1>1. LockInv' /\ LoopInv' /\ OwnInv'
  BY <1>a DEF StateInv, LockInv, LoopInv, OwnInv, ExternalSpared
<1>2. PICK next \in Tasks :
        /\ task' = [task EXCEPT ![t] = next] /\ task[t].state \in Alive
        /\ next.loop = task[t].loop /\ Onward(task[t], next)
  BY TaskMoves DEF StateInv
<1>3. ASSUME next.state \in Alive PROVE TaskOK(next)
  <2>1. next.chrome \in {browser, task[t].chrome}
    BY <1>2, <1>3 DEF Onward, Alive
  <2>2. TaskOK(task[t])
    BY <1>2 DEF StateInv, TaskInv
  <2>3. CASE next.chrome = task[t].chrome
    BY <1>2, <2>2, <2>3 DEF TaskOK
  <2>4. CASE next.chrome = browser
    BY <1>2, <2>2, <2>4 DEF TaskOK, StateInv, LoopInv, TypedOK, ChromesOK
  <2> QED BY <2>1, <2>3, <2>4
<1>4. Draining' <=> Draining
  BY <1>a DEF Draining
<1>5. TaskInv'
  <2> SUFFICES ASSUME NEW u \in Threads, task'[u].state \in Alive
               PROVE  TaskOK(task'[u])
      BY <1>a, <1>4 DEF TaskInv, TaskOK
  <2>1. task \in [Threads -> Tasks]
    BY DEF StateInv, TypedOK, ControlOK
  <2>2. task'[u] = IF u = t THEN next ELSE task[u]
    BY <1>2, <2>1
  <2> QED BY <1>3, <2>2 DEF StateInv, TaskInv
<1> QED BY <1>1, <1>5

LEMMA EndsState ==
    ASSUME StateInv, Crash \/ Close
    PROVE  LockInv' /\ LoopInv' /\ TaskInv' /\ OwnInv'
<1>1. CASE Crash
  BY <1>1 DEF Crash, loopVars, StateInv, LockInv, LoopInv, TaskInv, TaskOK, Draining,
              OwnInv, ExternalSpared
<1>2. CASE Close
  <2>1. /\ \A u \in Threads : pc[u] = "idle" /\ pc'[u] = "closed"
        /\ Stops(browser) /\ UNCHANGED <<lock, task>>
    BY <1>2 DEF Close
  <2>2. \A u \in Threads : lock # u /\ task[u].state \notin Alive
    BY <2>1 DEF StateInv, LockInv, Inside, TypedOK, AwaitedOK
  <2>3. browser' = 0 /\ ExternalSpared'
    BY <2>1, StopState
  <2> QED BY <2>1, <2>2, <2>3 DEF LockInv, LoopInv, TaskInv, OwnInv, Inside
<1> QED BY <1>1, <1>2

LEMMA StateStep == StateInv /\ [BrowserNext]_browserVars => StateInv'
<1> SUFFICES ASSUME StateInv, [BrowserNext]_browserVars
             PROVE  LockInv' /\ LoopInv' /\ TaskInv' /\ OwnInv'
    BY TypedStep DEF StateInv
<1>1. CASE UNCHANGED <<lock, engineVars, loopVars, pc, task>>
  BY <1>1 DEF StateInv, LockInv, LoopInv, TaskInv, TaskOK, Draining, OwnInv,
              ExternalSpared, engineVars, chromeVars, loopVars
<1>2. CASE BrowserTick \/ UNCHANGED browserVars
  BY <1>1, <1>2 DEF BrowserTick, browserVars
<1>3. ASSUME NEW o \in overdue, LateLaunch(o)
      PROVE  LockInv' /\ LoopInv' /\ TaskInv' /\ OwnInv'
  BY <1>3, LateState
<1>4. ASSUME NEW t \in Threads,
             \/ Outside(t) \/ Ensure(t) \/ StartRelay(t) \/ StartChrome(t)
             \/ LaunchDone(t) \/ LaunchGivesUp(t)
             \/ ResetBegin(t) \/ ResetDrain(t) \/ Task(t)
      PROVE  LockInv' /\ LoopInv' /\ TaskInv' /\ OwnInv'
  BY <1>4, OutsideState, EnsureState, StartState, LaunchDoneState, GivesUpState,
     ResetState, TaskState
<1> QED BY <1>2, <1>3, <1>4, EndsState, Steps DEF StateInv

LEMMA StateAlways == BrowserSpec => []StateInv
  BY StateInit, StateStep, PTL DEF BrowserSpec

\* No thread waits for a task whose loop was stopped: what a reset finds on the
\* loop it cancels, and nobody can submit to it any more.
THEOREM NoOrphans == BrowserSpec => []NoOrphanFuture
<1>1. StateInv => NoOrphanFuture
  BY DEF StateInv, TaskInv, TaskOK, NoOrphanFuture
<1> QED BY <1>1, StateAlways, PTL

\* A task never talks to a Chrome whose connection belongs to another loop.
THEOREM ChromesOnTheirLoop == BrowserSpec => []ChromeOnItsLoop
<1>1. StateInv => ChromeOnItsLoop
  <2> SUFFICES ASSUME StateInv, NEW t \in Threads, task[t].state \in Alive,
                      task[t].chrome # 0
               PROVE  chromes[task[t].chrome].loop = task[t].loop
      BY DEF ChromeOnItsLoop
  <2> QED BY DEF StateInv, TaskInv, TaskOK
<1> QED BY <1>1, StateAlways, PTL

\* A browser that runs elsewhere is never stopped.
THEOREM ExternalsSpared == BrowserSpec => []ExternalSpared
<1>1. StateInv => ExternalSpared
  BY DEF StateInv, OwnInv
<1> QED BY <1>1, StateAlways, PTL

-----------------------------------------------------------------------------
\* Every request ends within a bounded number of steps of its own.
LEMMA Stages ==
    /\ Stage["idle"] = 0 /\ Stage["closed"] = 0
    /\ Stage["launching"] = 1 /\ Stage["relayed"] = 2 /\ Stage["starting"] = 3
    /\ Stage["draining"] = 4 /\ Stage["reset"] = 5
    /\ Stage["blame"] = 6 /\ Stage["claimed"] = 7 /\ Stage["count"] = 8
    /\ Stage["judge"] = 9 /\ Stage["await"] = 10
    /\ Stage["ensure"] = 16 /\ Stage["check"] = 22 /\ Stage["ready"] = 23
    /\ Stage["attempt"] = 24 /\ Stage["pins"] = 25 /\ Stage["resync"] = 31
    /\ Stage["differs"] = 32 /\ Stage["sync"] = 33
  BY DEF Stage

\* The steps of an attempt leave its number alone, and some tell where it goes on.
LEMMA AttemptKept ==
    ASSUME NEW j \in Jobs
    PROVE  /\ \A d : [j EXCEPT !.wanted = d].attempt = j.attempt
           /\ \A at : LET k == [j EXCEPT !.launch.at = at]
                      IN  k.attempt = j.attempt /\ k.after = j.after
           /\ \A d, b : LET k == [j EXCEPT !.launch.dns = d, !.launch.external = b]
                        IN  k.attempt = j.attempt /\ k.after = j.after
           /\ \A after, b :
                LET k == [j EXCEPT !.after = after, !.launch.proxied = b]
                IN  k.attempt = j.attempt /\ k.after = after
           /\ \A n, after, b, d :
                LET k == [j EXCEPT !.dead = n, !.after = after, !.launch.proxied = b,
                                   !.wanted = d]
                IN  k.attempt = j.attempt /\ k.after = after
           /\ Settled(j).attempt = j.attempt
  BY DEF Jobs, Settled

AttemptsLeft == \A t \in Threads : job[t].attempt < MaxAttempts

\* A step in a request takes it nearer its end.
Advances(t) ==
    \E label \in Labels, j \in Jobs :
        /\ pc' = [pc EXCEPT ![t] = label]
        /\ job' = [job EXCEPT ![t] = j]
        /\ j.attempt < MaxAttempts
        /\ StepsToGo(label, j) \in 0..(StepsToGo(pc[t], job[t]) - 1)

LEMMA WorkAdvances ==
    ASSUME ControlOK, AttemptsLeft, dnsWanted \in DnsMaps, cdp \in Places,
           browser \in Nat, NEW t \in Threads, Work(t)
    PROVE  Advances(t)
<1> DEFINE l == pc[t]
           k == job[t]
           rest == 15 * (MaxAttempts - 1 - k.attempt)
           Over == {"idle", "closed"}
           Plain == Labels \ (Over \union Replacing)
           Goes(label, j) == /\ pc' = [pc EXCEPT ![t] = label]
                             /\ job' = [job EXCEPT ![t] = j]
<1>a. /\ pc \in [Threads -> Labels] /\ job \in [Threads -> Jobs]
      /\ k \in Jobs /\ k.attempt \in Nat /\ k.after \in Afters
  BY DEF ControlOK, Jobs, Afters
<1>b. /\ MaxAttempts \in Nat \ {0} /\ k.attempt < MaxAttempts /\ rest \in Nat
  BY <1>a, BrowserAssumption DEF AttemptsLeft
<1>c. /\ NoJob \in Jobs /\ NoJob.attempt = 0 /\ Settled(k) \in Jobs
      /\ Settled(k).attempt = k.attempt
  BY <1>a, Defaults, JobEdits, AttemptKept DEF NoJob
<1>d. /\ StepsToGo(l, k) = IF l \in Over THEN 0 ELSE rest + Stage[l]
                            + (IF l \in Replacing THEN Stage[k.after] ELSE 0)
      /\ \A label \in Plain, j \in Jobs :
            j.attempt = k.attempt => StepsToGo(label, j) = rest + Stage[label]
      /\ \A label \in Replacing, j \in Jobs :
            j.attempt = k.attempt =>
              StepsToGo(label, j) = rest + Stage[label] + Stage[j.after]
  <2>1. ASSUME NEW label, NEW j \in Jobs, j.attempt = k.attempt
        PROVE  StepsToGo(label, j) =
                 IF label \in Over THEN 0 ELSE rest + Stage[label]
                   + (IF label \in Replacing THEN Stage[j.after] ELSE 0)
    BY <2>1 DEF StepsToGo
  <2> HIDE DEF rest, l, k
  <2>2. ASSUME NEW label \in Plain, NEW j \in Jobs, j.attempt = k.attempt
        PROVE  StepsToGo(label, j) = rest + Stage[label]
    <3>1. label \notin Over /\ label \notin Replacing
      OBVIOUS
    <3>2. rest + Stage[label] + 0 = rest + Stage[label]
      BY <1>b, Stages DEF Labels
    <3> HIDE DEF Over, Plain
    <3> QED BY <2>1, <2>2, <3>1, <3>2
  <2>3. ASSUME NEW label \in Replacing, NEW j \in Jobs, j.attempt = k.attempt
        PROVE  StepsToGo(label, j) = rest + Stage[label] + Stage[j.after]
    <3>1. label \notin Over
      BY DEF Replacing
    <3> HIDE DEF Over
    <3> QED BY <2>1, <2>3, <3>1
  <2> HIDE DEF Over, Plain
  <2> QED BY <1>a, <2>1, <2>2, <2>3
<1>e. /\ \A label \in Labels : Stage[label] \in Nat
      /\ \A label \in Labels \ Over : Stage[label] > 0
      /\ Afters \subseteq Labels /\ Replacing \subseteq Labels \ Over
      /\ Afters \ {"idle"} \subseteq Plain
  BY Stages DEF Labels, Afters, Replacing
<1>l. Plain = {"sync", "differs", "resync", "pins", "attempt", "ready", "check",
               "ensure", "await", "judge", "count", "claimed", "blame"}
  BY DEF Labels, Replacing
<1> HIDE DEF l, k, rest, Over, Plain
<1>f. ASSUME NEW label \in Labels, NEW j \in Jobs, Goes(label, j),
             j.attempt < MaxAttempts,
             StepsToGo(label, j) \in Nat, StepsToGo(l, k) \in Nat,
             StepsToGo(label, j) < StepsToGo(l, k)
      PROVE  Advances(t)
  <2>1. StepsToGo(label, j) \in 0..(StepsToGo(pc[t], job[t]) - 1)
    BY <1>f DEF l, k
  <2> QED BY <1>f, <2>1 DEF Advances
\* The request is over ...
<1>g. ASSUME l \in Labels \ Over, Goes("idle", NoJob)
      PROVE  Advances(t)
  <2>1. StepsToGo("idle", NoJob) = 0 /\ "idle" \in Labels
    BY DEF StepsToGo, Labels
  <2>2. StepsToGo(l, k) \in Nat \ {0}
    BY <1>a, <1>b, <1>d, <1>e, <1>g
  <2>3. /\ StepsToGo("idle", NoJob) \in Nat /\ StepsToGo(l, k) \in Nat
        /\ StepsToGo("idle", NoJob) < StepsToGo(l, k) /\ NoJob.attempt < MaxAttempts
    BY <1>b, <1>c, <2>1, <2>2
  <2> QED BY <1>c, <1>f, <1>g, <2>1, <2>2, <2>3
\* ... or goes on in its attempt ...
<1>h. ASSUME NEW label \in Plain, NEW j \in Jobs, Goes(label, j), j.attempt = k.attempt,
             l \in Plain, Stage[label] < Stage[l]
      PROVE  Advances(t)
  <2>1. label \in Labels /\ l \in Labels \ (Over \union Replacing)
    BY <1>h DEF Plain
  <2>2. /\ StepsToGo(label, j) = rest + Stage[label]
        /\ StepsToGo(l, k) = rest + Stage[l]
        /\ Stage[label] \in Nat /\ Stage[l] \in Nat
    BY <1>a, <1>d, <1>e, <1>h, <2>1
  <2>3. /\ StepsToGo(label, j) \in Nat /\ StepsToGo(l, k) \in Nat
        /\ StepsToGo(label, j) < StepsToGo(l, k) /\ j.attempt < MaxAttempts
    BY <1>b, <1>h, <2>2
  <2> QED BY <1>f, <1>h, <2>1, <2>3
\* ... or comes to replace Chrome, goes on there, or comes from there.
<1>i. ASSUME NEW label \in Replacing, NEW j \in Jobs,
             Goes(label, j), j.attempt = k.attempt, j.after \in Afters,
             \/ l \in Plain /\ Stage[label] + Stage[j.after] < Stage[l]
             \/ l \in Replacing /\ j.after = k.after /\ Stage[label] < Stage[l]
      PROVE  Advances(t)
  <2>1. /\ label \in Labels /\ l \in Labels \ Over
        /\ l \in Plain => l \notin Replacing
    BY <1>e, <1>i DEF Plain
  <2>2. /\ StepsToGo(label, j) = rest + Stage[label] + Stage[j.after]
        /\ StepsToGo(l, k) = rest + Stage[l]
                               + (IF l \in Replacing THEN Stage[k.after] ELSE 0)
        /\ Stage[label] \in Nat /\ Stage[l] \in Nat
        /\ Stage[j.after] \in Nat /\ Stage[k.after] \in Nat
    BY <1>a, <1>d, <1>e, <1>i, <2>1
  <2>3. /\ StepsToGo(label, j) \in Nat /\ StepsToGo(l, k) \in Nat
        /\ StepsToGo(label, j) < StepsToGo(l, k) /\ j.attempt < MaxAttempts
    BY <1>b, <1>i, <2>1, <2>2
  <2> QED BY <1>f, <1>i, <2>1, <2>3
<1>j. ASSUME l \in Replacing, k.after # "idle", Goes(k.after, Settled(k))
      PROVE  Advances(t)
  <2>1. /\ k.after \in Plain /\ k.after \in Labels /\ l \in Labels \ Over
    BY <1>a, <1>e, <1>j DEF Plain
  <2>2. /\ StepsToGo(k.after, Settled(k)) = rest + Stage[k.after]
        /\ StepsToGo(l, k) = rest + Stage[l] + Stage[k.after]
        /\ Stage[l] \in Nat \ {0} /\ Stage[k.after] \in Nat
    BY <1>a, <1>c, <1>d, <1>e, <1>j, <2>1
  <2>3. /\ StepsToGo(k.after, Settled(k)) \in Nat /\ StepsToGo(l, k) \in Nat
        /\ StepsToGo(k.after, Settled(k)) < StepsToGo(l, k)
    BY <1>b, <2>2
  <2> QED BY <1>b, <1>c, <1>f, <1>j, <2>1, <2>3
<1>k. job' = [job EXCEPT ![t] = k] <=> UNCHANGED job
  BY <1>a DEF k
<1>1. CASE \/ Compare(t) \/ Switch(t) \/ Pin(t) \/ AwaitReady(t)
           \/ Fetched(t) \/ Judged(t) \/ Acknowledge(t)
  <2>1. PICK label \in Plain : /\ pc' = [pc EXCEPT ![t] = label] /\ UNCHANGED job
                              /\ l \in Plain /\ Stage[label] < Stage[l]
    BY <1>1, <1>l, Stages
       DEF Compare, Switch, Pin, AwaitReady, Fetched, Judged, Acknowledge, Goto, l
  <2> QED BY <1>a, <1>h, <1>k, <2>1
<1>2. CASE Count(t) /\ Goto(t, "claimed") /\ UNCHANGED job
  <2>1. /\ l \in Plain /\ "claimed" \in Plain
        /\ Stage["claimed"] < Stage[l]
    BY <1>2, <1>l, Stages DEF Count, l
  <2> QED BY <1>2, <1>a, <1>h, <1>k, <2>1 DEF Goto
<1>3. ASSUME Leave(t), l \in Labels \ Over PROVE Advances(t)
  BY <1>3, <1>g DEF Leave, Goto
<1>4. CASE \/ LaunchFails(t) \/ ConnectFails(t) \/ ContextFails(t)
           \/ Fails(t) \/ TimedOut(t) \/ Count(t) \/ RotateFails(t)
  <2>1. l \in Labels \ Over
    BY <1>4 DEF LaunchFails, ConnectFails, ContextFails, LaunchRaises, Fails,
                TimedOut, Count, RotateFails, Labels, Over, l
  <2>2. CASE Count(t)
    BY <1>2, <1>3, <2>1, <2>2 DEF Count
  <2>3. CASE ~Count(t)
    <3>1. Leave(t)
      BY <1>4, <2>3 DEF LaunchFails, ConnectFails, ContextFails, LaunchRaises, Fails,
                        TimedOut, RotateFails
    <3> QED BY <1>3, <2>1, <3>1
  <2> QED BY <2>2, <2>3
<1>5. CASE ReadWanted(t)
  <2> DEFINE j == [k EXCEPT !.wanted = dnsWanted]
  <2>1. j \in Jobs /\ j.attempt = k.attempt
    BY <1>a, JobEdits, AttemptKept
  <2>2. l = "ready" /\ Goes("check", j)
    BY <1>5 DEF ReadWanted, Goto, l, k
  <2>3. l \in Plain /\ "check" \in Plain /\ Stage["check"] < Stage[l]
    BY <1>l, <2>2, Stages
  <2> HIDE DEF j
  <2> QED BY <1>h, <2>1, <2>2, <2>3
\* On the way to a reset, or to a launch
<1>6. ASSUME NEW after \in Afters, NEW proxied \in BOOLEAN, l \in Plain,
             ResetFor(t, browser, after, proxied), 5 + Stage[after] < Stage[l]
      PROVE  Advances(t)
  <2> DEFINE j == [k EXCEPT !.dead = browser, !.after = after,
                            !.launch.proxied = proxied, !.wanted = NoDns]
  <2>1. j \in Jobs
    BY <1>a, <1>6, JobEdits, Defaults
  <2>4. j.attempt = k.attempt /\ j.after = after
    BY <1>a, AttemptKept
  <2>2. Goes("reset", j)
    BY <1>6 DEF ResetFor, Goto, k
  <2>3. "reset" \in Replacing /\ Stage["reset"] = 5
    BY Stages DEF Replacing
  <2> HIDE DEF j
  <2> QED BY <1>6, <1>i, <2>1, <2>2, <2>3, <2>4
<1>7. CASE Resync(t) \/ Blame(t)
  <2>1. k.ask.proxied \in BOOLEAN
    BY <1>a, AskFields
  <2>2. CASE Resync(t)
    <3>1. l = "resync" /\ ResetFor(t, browser, "pins", k.ask.proxied)
      BY <2>2 DEF Resync, l, k
    <3> QED BY <1>6, <1>l, <2>1, <3>1, Stages DEF Afters
  <2>3. CASE Blame(t)
    <3>1. PICK proxied \in BOOLEAN : ResetFor(t, browser, "idle", proxied)
      BY <2>1, <2>3 DEF Blame, k
    <3>2. l = "blame"
      BY <2>3 DEF Blame, l
    <3> QED BY <1>6, <1>l, <3>1, <3>2, Stages DEF Afters
  <2> QED BY <1>7, <2>2, <2>3
<1>8. CASE CheckDns(t)
  <2>1. l = "check" /\ l \in Plain /\ k.ask.proxied \in BOOLEAN
    BY <1>8, <1>a, <1>l, AskFields DEF CheckDns, l
  <2>2. CASE ResetFor(t, browser, "ensure", k.ask.proxied)
    BY <1>6, <2>1, <2>2, Stages DEF Afters
  <2>3. CASE ~ResetFor(t, browser, "ensure", k.ask.proxied)
    <3> DEFINE j == [k EXCEPT !.wanted = NoDns]
    <3>1. j \in Jobs /\ j.attempt = k.attempt
      BY <1>a, JobEdits, AttemptKept, Defaults
    <3>2. Goes("ensure", j)
      BY <1>8, <2>3 DEF CheckDns, Goto, l, k
    <3>3. "ensure" \in Plain /\ Stage["ensure"] < Stage[l]
      BY <1>l, <2>1, Stages
    <3> HIDE DEF j
    <3> QED BY <1>h, <2>1, <3>1, <3>2, <3>3
  <2> QED BY <2>2, <2>3
<1>9. CASE Ensure(t)
  <2>1. l = "ensure" /\ l \in Plain /\ k.ask.proxied \in BOOLEAN
    BY <1>9, <1>a, <1>l, AskFields DEF Ensure, l
  <2>2. CASE browser # 0
    <3>1. Goes("await", k) /\ "await" \in Plain /\ Stage["await"] < Stage[l]
      BY <1>9, <1>k, <1>l, <2>1, <2>2, Stages DEF Ensure, Goto
    <3> QED BY <1>a, <1>h, <2>1, <3>1
  <2>3. CASE browser = 0
    <3> DEFINE j == [k EXCEPT !.after = "await", !.launch.proxied = k.ask.proxied]
    <3>1. j \in Jobs
      BY <1>a, <2>1, JobEdits DEF Afters
    <3>4. j.attempt = k.attempt /\ j.after = "await"
      BY <1>a, AttemptKept
    <3>2. Goes("starting", j)
      BY <1>9, <2>3 DEF Ensure, Goto, k
    <3>3. /\ "starting" \in Replacing /\ "await" \in Afters
          /\ Stage["starting"] + Stage["await"] < Stage[l]
      BY <2>1, Stages DEF Replacing, Afters
    <3> HIDE DEF j
    <3> QED BY <1>i, <2>1, <3>1, <3>2, <3>3, <3>4
  <2> QED BY <2>2, <2>3
<1>10. CASE StartRelay(t) \/ StartChrome(t) \/ ResetBegin(t) \/ ResetDrain(t)
  <2>1. PICK label \in Replacing :
          /\ pc' = [pc EXCEPT ![t] = label]
          /\ l \in Replacing /\ Stage[label] < Stage[l]
    BY <1>10, Stages DEF StartRelay, StartChrome, ResetBegin, ResetDrain, Goto, Replacing, l
  <2>2. CASE StartRelay(t)
    <3> DEFINE j == [k EXCEPT !.launch.dns = dnsWanted, !.launch.external = (cdp # Local)]
    <3>1. j \in Jobs
      BY <1>a, JobEdits
    <3>2. j.attempt = k.attempt /\ j.after = k.after
      BY <1>a, AttemptKept
    <3>3. job' = [job EXCEPT ![t] = j]
      BY <2>2 DEF StartRelay, k
    <3> HIDE DEF j
    <3> QED BY <1>a, <1>i, <2>1, <3>1, <3>2, <3>3
  <2>3. CASE StartChrome(t)
    <3> DEFINE j == [k EXCEPT !.launch.at = cdp]
    <3>1. j \in Jobs /\ j.attempt = k.attempt /\ j.after = k.after
      BY <1>a, JobEdits, AttemptKept
    <3>2. job' = [job EXCEPT ![t] = j]
      BY <2>3 DEF StartChrome, k
    <3> HIDE DEF j
    <3> QED BY <1>a, <1>i, <2>1, <3>1, <3>2
  <2>4. CASE ResetBegin(t) \/ ResetDrain(t)
    <3>1. job' = [job EXCEPT ![t] = k]
      BY <1>k, <2>4 DEF ResetBegin, ResetDrain
    <3> QED BY <1>a, <1>i, <2>1, <3>1
  <2> QED BY <1>10, <2>2, <2>3, <2>4
<1>11. CASE ResetSkipped(t) \/ LaunchDone(t)
  <2>1. /\ l \in Replacing /\ l \in Labels \ Over /\ pc' = [pc EXCEPT ![t] = k.after]
        /\ job' = [job EXCEPT ![t] = IF k.after = "idle" THEN NoJob ELSE Settled(k)]
    BY <1>11, <1>e DEF ResetSkipped, LaunchDone, Goto, Replacing, l, k
  <2>2. CASE k.after = "idle"
    BY <1>g, <2>1, <2>2
  <2>3. CASE k.after # "idle"
    BY <1>j, <2>1, <2>3
  <2> QED BY <2>2, <2>3
\* Another attempt, one attempt less
<1>12. CASE Retry(t)
  <2> DEFINE refused == IF task[t].result = "refused" THEN task[t].chrome ELSE 0
             j == [NoJob EXCEPT !.ask = k.ask, !.attempt = k.attempt + 1,
                                !.refusedBy = refused]
  <2>1. refused \in Nat
    BY DEF ControlOK, Tasks
  <2> HIDE DEF refused
  <2>2. j \in Jobs /\ j.attempt = k.attempt + 1
    <3>1. k.ask \in Asks
      BY <1>a DEF Jobs
    <3>2. k.attempt + 1 \in Nat
      BY <1>a
    <3>3. j \in Jobs
      BY <1>c, <2>1, <3>1, <3>2 DEF Jobs
    <3>4. j.attempt = k.attempt + 1
      BY <1>c DEF Jobs
    <3> QED BY <3>3, <3>4
  <2>3. l = "await" /\ k.attempt < MaxAttempts - 1 /\ Goes("attempt", j)
    BY <1>12 DEF Retry, Goto, refused, l, k
  <2> HIDE DEF j
  <2>4. /\ StepsToGo("attempt", j) = 15 * (MaxAttempts - 1 - j.attempt) + 24
        /\ StepsToGo(l, k) = rest + 10
    BY <1>a, <1>b, <1>d, <1>l, <2>2, <2>3, Stages DEF StepsToGo, Replacing, Over
  <2>5. /\ StepsToGo("attempt", j) \in Nat /\ StepsToGo(l, k) \in Nat
        /\ StepsToGo("attempt", j) < StepsToGo(l, k)
        /\ j.attempt < MaxAttempts /\ "attempt" \in Labels
    BY <1>a, <1>b, <2>2, <2>3, <2>4 DEF rest, Labels
  <2> QED BY <1>f, <2>2, <2>3, <2>5
<1> QED BY <1>1, <1>4, <1>5, <1>7, <1>8, <1>9, <1>10, <1>11, <1>12
        DEF Work, Enter, Attempt, Launch, Reset, Await, MaybeRestart

\* A thread is moved by its own steps only.
LEMMA OwnStepsOnly ==
    ASSUME TypedOK, AttemptsLeft, [BrowserNext]_browserVars
    PROVE  \A t \in Threads :
             \/ pc'[t] = pc[t] /\ job'[t] = job[t]
             \/ pc[t] = "idle" /\ job'[t].attempt = job[t].attempt
             \/ Work(t) /\ Advances(t)
<1> SUFFICES ASSUME NEW t \in Threads
             PROVE  \/ pc'[t] = pc[t] /\ job'[t] = job[t]
                    \/ pc[t] = "idle" /\ job'[t].attempt = job[t].attempt
                    \/ Work(t) /\ Advances(t)
    OBVIOUS
<1>a. pc \in [Threads -> Labels] /\ job \in [Threads -> Jobs]
  BY DEF TypedOK, ControlOK
<1>b. ASSUME NEW u \in Threads, Work(u) PROVE Advances(u)
  BY <1>b, WorkAdvances DEF TypedOK, EngineOK, ChromesOK
<1>1. CASE BrowserTick \/ Crash \/ UNCHANGED browserVars
  BY <1>1 DEF BrowserTick, Crash, browserVars
<1>2. CASE Close
  BY <1>2 DEF Close
<1>3. ASSUME NEW o, LateLaunch(o) PROVE UNCHANGED <<pc, job>>
  BY <1>3 DEF LateLaunch
<1>4. ASSUME NEW u \in Threads, Begin(u)
      PROVE  \/ u # t /\ pc'[t] = pc[t] /\ job'[t] = job[t]
             \/ u = t /\ pc[t] = "idle" /\ job'[t].attempt = job[t].attempt
  <2>1. pc[u] = "idle" /\ pc' = [pc EXCEPT ![u] = "sync"]
    BY <1>4 DEF Begin, Goto
  <2>2. PICK ask \in Asks : job' = [job EXCEPT ![u].ask = ask]
    BY <1>4 DEF Begin
  <2>3. [job[u] EXCEPT !.ask = ask].attempt = job[u].attempt
    BY <1>a DEF Jobs
  <2> QED BY <1>a, <2>1, <2>2, <2>3
<1>5. ASSUME NEW u \in Threads, Task(u) PROVE UNCHANGED <<pc, job>>
  BY <1>5 DEF Task
<1>6. ASSUME NEW u \in Threads \ {t}, Advances(u)
      PROVE  pc'[t] = pc[t] /\ job'[t] = job[t]
  BY <1>6, <1>a DEF Advances
<1>7. ASSUME NEW u \in Threads, Work(u)
      PROVE  (pc'[t] = pc[t] /\ job'[t] = job[t]) \/ (Work(t) /\ Advances(t))
  BY <1>7, <1>b, <1>6
<1> QED BY <1>1, <1>2, <1>3, <1>4, <1>5, <1>7 DEF BrowserNext

LEMMA AttemptsInit == BrowserInit => AttemptsLeft
<1>1. NoJob.attempt < MaxAttempts
  BY BrowserAssumption DEF NoJob
<1>2. BrowserInit => job = [t \in Threads |-> NoJob]
  BY DEF BrowserInit
<1> QED BY <1>1, <1>2 DEF AttemptsLeft

LEMMA AttemptsStep ==
    ASSUME TypedOK, AttemptsLeft, [BrowserNext]_browserVars
    PROVE  AttemptsLeft'
<1> SUFFICES ASSUME NEW t \in Threads PROVE job'[t].attempt < MaxAttempts
    BY DEF AttemptsLeft
<1>1. CASE job'[t].attempt = job[t].attempt
  BY <1>1 DEF AttemptsLeft
<1>2. CASE Advances(t)
  BY <1>2 DEF Advances, TypedOK, ControlOK
<1> QED BY <1>1, <1>2, OwnStepsOnly

\* Whatever other threads do to Chrome under it, a request is at its end after as
\* many steps of its own as its attempts take.
THEOREM RequestsAlwaysAdvance == BrowserSpec => RequestsAdvance
<1> DEFINE Advancing(t) == /\ Work(t) => StepsLeft(t)' \in 0..(StepsLeft(t) - 1)
                           /\ pc[t] # "idle" => StepsLeft(t)' <= StepsLeft(t)
<1>1. ASSUME TypedOK, AttemptsLeft, [BrowserNext]_browserVars, NEW t \in Threads
      PROVE  Advancing(t)
  <2>1. StepsLeft(t) \in Nat
    <3>1. /\ Stage[pc[t]] \in Nat /\ Stage[job[t].after] \in Nat
          /\ job[t].attempt \in Nat
      BY <1>1, Stages DEF TypedOK, ControlOK, Jobs, Labels
    <3>2. job[t].attempt < MaxAttempts /\ MaxAttempts \in Nat
      BY <1>1, BrowserAssumption DEF AttemptsLeft
    <3> QED BY <3>1, <3>2 DEF StepsLeft, StepsToGo
  <2>2. CASE Advances(t)
    <3>1. PICK label \in Labels, j \in Jobs :
            /\ pc' = [pc EXCEPT ![t] = label] /\ job' = [job EXCEPT ![t] = j]
            /\ StepsToGo(label, j) \in 0..(StepsToGo(pc[t], job[t]) - 1)
      BY <2>2 DEF Advances
    <3>2. pc'[t] = label /\ job'[t] = j
      BY <1>1, <3>1 DEF TypedOK, ControlOK
    <3>3. StepsLeft(t)' \in 0..(StepsLeft(t) - 1)
      BY <3>1, <3>2 DEF StepsLeft
    <3> QED BY <2>1, <3>3
  <2>3. CASE pc'[t] = pc[t] /\ job'[t] = job[t]
    <3>1. StepsLeft(t)' = StepsLeft(t)
      BY <2>3 DEF StepsLeft
    <3> QED BY <1>1, <2>1, <2>2, <2>3, <3>1, WorkAdvances DEF TypedOK, EngineOK, ChromesOK
  <2>4. CASE pc[t] = "idle" /\ ~Work(t)
    BY <2>4
  <2> QED BY <1>1, <2>2, <2>3, <2>4, OwnStepsOnly, WorkAdvances
          DEF TypedOK, EngineOK, ChromesOK
<1>2. TypedOK /\ AttemptsLeft /\ [BrowserNext]_browserVars
        => [\A t \in Threads : Advancing(t)]_browserVars
  BY <1>1
<1>3. BrowserInit => TypedOK /\ AttemptsLeft
  BY BaseInit, AttemptsInit DEF TypeInv
<1>4. TypedOK /\ AttemptsLeft /\ [BrowserNext]_browserVars => (TypedOK /\ AttemptsLeft)'
  BY TypedStep, AttemptsStep
<1>5. BrowserSpec => [][\A t \in Threads : Advancing(t)]_browserVars
  BY <1>2, <1>3, <1>4, PTL DEF BrowserSpec
<1> QED BY <1>5 DEF RequestsAdvance
=============================================================================
