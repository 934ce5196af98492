-------------------------- MODULE OneChromeProofs --------------------------
(***************************************************************************)
(* Proofs about BrowserEngine as long as no launch of Chrome has failed:   *)
(* there is one Chrome, its tabs are in its context and, but for those     *)
(* left in it, within its limit, and close() leaves nothing.  They rest on *)
(* StateInv of BrowserProofs.                                              *)
(***************************************************************************)
EXTENDS BrowserProofs, FiniteSetTheorems

(***************************************************************************)
(* As long as no launch has failed, there is one Chrome, one semaphore and *)
(* one context, all of the same number, and one loop; and a task that has  *)
(* a semaphore has that of its Chrome.  A launch that fails may leave a    *)
(* Chrome behind, or go on and put a semaphore and a context of its own in *)
(* the place of those.                                                     *)
(***************************************************************************)
CalmEngine ==
    /\ overdue = {}
    /\ up \subseteq {browser}
    /\ browser # 0 => /\ tabSem = browser
                      /\ context = IF chromes[browser].context THEN browser ELSE 0
                      /\ chromes[browser].at = Local => owns
    /\ running \subseteq {loop}
    /\ browser = 0 /\ lock = NoThread => running = {}

CalmThread(t) ==
    /\ pc[t] = "draining" => tabSem = 0
    /\ pc[t] = "starting" => running = {}
    /\ pc[t] = "launching" /\ job[t].launch.at = Local => owns

CalmTask(tk) ==
    /\ tk.state = "started" => tk.chrome # 0
    /\ tk.state \in {"waiting", "loading"} => tk.sem = tk.chrome
    /\ tk.state = "loading" => /\ tk.chrome \in 1..Len(chromes)
                               /\ tk.context # 0 <=> chromes[tk.chrome].context

Calm ==
    /\ CalmEngine
    /\ \A t \in Threads : CalmThread(t) /\ CalmTask(task[t])

\* Once closed, the engine has nothing at hand.
ClosedInv == (\A t \in Threads : pc[t] = "closed") => browser = 0 /\ loop = 0

CalmInv == StateInv /\ ClosedInv /\ (~Failed => Calm)

LEMMA CalmInit == BrowserInit => CalmInv
<1> SUFFICES ASSUME BrowserInit PROVE ClosedInv /\ Calm
    BY StateInit DEF CalmInv
<1>1. ClosedInv /\ CalmEngine
  BY DEF BrowserInit, ClosedInv, CalmEngine
<1>2. \A t \in Threads : CalmThread(t) /\ CalmTask(task[t])
  BY DEF BrowserInit, CalmThread, CalmTask, NoTask
<1> QED BY <1>1, <1>2 DEF Calm

\* With Chrome stopped none is left.
LEMMA NoneUp ==
    ASSUME StateInv, CalmEngine, Stops(browser)
    PROVE  up' = {} /\ browser' = 0
<1>1. /\ owns \in BOOLEAN /\ browser \in 0..Len(chromes) /\ ChromesOK
      /\ up \subseteq 1..Len(chromes)
  BY DEF StateInv, TypedOK, EngineOK, ChromesOK
<1>2. /\ browser' = 0 /\ up' \subseteq up
      /\ browser # 0 /\ (owns \/ chromes[browser].at # Local) => browser \notin up'
  BY <1>1, ChromeStopped
<1>3. browser # 0 => browser \notin up'
  BY <1>2 DEF CalmEngine
<1> QED BY <1>1, <1>2, <1>3 DEF CalmEngine

LEMMA OutsideCalm ==
    ASSUME StateInv, Calm, NEW t \in Threads, Outside(t)
    PROVE  Calm'
<1>1. /\ UNCHANGED <<lock, browser, chromes, up, tabSem, context, owns>>
      /\ UNCHANGED <<loop, running, overdue>>
  BY DEF Outside, chromeVars, loopVars
<1>2. CalmEngine'
  BY <1>1 DEF Calm, CalmEngine
<1>3. ASSUME NEW u \in Threads PROVE CalmThread(u)'
  <2>1. pc'[t] \notin Inside
    BY OutsideMoves DEF StateInv
  <2>2. u # t => pc'[u] = pc[u] /\ job'[u] = job[u]
    BY OutsideMoves DEF StateInv
  <2> QED BY <1>1, <2>1, <2>2 DEF Calm, CalmThread, Inside
<1>4. ASSUME NEW u \in Threads PROVE CalmTask(task[u])'
  <2>1. task'[u] = task[u] \/ task'[u].state \notin Alive
    BY OutsideMoves DEF StateInv
  <2> QED BY <1>1, <2>1 DEF Calm, CalmTask, Alive
<1> QED BY <1>2, <1>3, <1>4 DEF Calm

LEMMA EnsureCalm ==
    ASSUME StateInv, Calm, NEW t \in Threads, Ensure(t)
    PROVE  Calm'
<1>a. /\ pc \in [Threads -> Labels] /\ task \in [Threads -> Tasks]
      /\ lock = NoThread /\ NoThread \notin Threads
      /\ UNCHANGED <<browser, chromes, up, tabSem, context, owns>>
      /\ UNCHANGED <<loop, running, overdue>>
  BY Defaults DEF StateInv, TypedOK, ControlOK, Ensure, Take, LockFree, engineVars,
                  chromeVars, loopVars
<1>1. \A u \in Threads : CalmTask(task[u]) => CalmTask(task[u])'
  <2>1. Submitted.state = "queued"
    BY SubmittedTask DEF StateInv, TypedOK
  <2>2. task' = task \/ task' = [task EXCEPT ![t] = Submitted]
    BY DEF Ensure
  <2> HIDE DEF Submitted
  <2> QED BY <1>a, <2>1, <2>2 DEF CalmTask
<1>2. CASE browser # 0
  <2>1. pc' = [pc EXCEPT ![t] = "await"] /\ lock' = lock /\ job' = job
    BY <1>2 DEF Ensure, Goto
  <2> QED BY <1>a, <1>1, <2>1 DEF Calm, CalmEngine, CalmThread
<1>3. CASE browser = 0
  <2>1. /\ pc' = [pc EXCEPT ![t] = "starting"] /\ lock' = t
        /\ \A u \in Threads : u # t => job'[u] = job[u]
    BY <1>3 DEF Ensure, Goto, Take, StateInv, TypedOK, ControlOK
  <2>2. running = {}
    BY <1>a, <1>3 DEF Calm, CalmEngine
  <2> QED BY <1>a, <1>1, <2>1, <2>2 DEF Calm, CalmEngine, CalmThread
<1> QED BY <1>2, <1>3

LEMMA StartCalm ==
    ASSUME StateInv, Calm, NEW t \in Threads, StartRelay(t) \/ StartChrome(t)
    PROVE  Calm'
<1>a. /\ pc \in [Threads -> Labels] /\ job \in [Threads -> Jobs]
      /\ pc[t] \in {"starting", "relayed"} /\ lock = t /\ browser = 0
      /\ NoThread \notin Threads
      /\ \A u \in Threads : u # t => pc[u] \notin Inside
  <2>1. /\ pc \in [Threads -> Labels] /\ job \in [Threads -> Jobs]
        /\ pc[t] \in {"starting", "relayed"}
    BY DEF StateInv, TypedOK, ControlOK, StartRelay, StartChrome
  <2> QED BY <2>1, NoTaskInside, Defaults DEF Inside
<1>b. UNCHANGED <<lock, browser, chromes, up, tabSem, context, task, overdue>>
  BY DEF StartRelay, StartChrome, engineVars, chromeVars, loopVars
<1>1. \A u \in Threads : CalmTask(task[u])'
  BY <1>b DEF Calm, CalmTask
<1>2. CASE StartRelay(t)
  <2>1. pc' = [pc EXCEPT ![t] = "relayed"] /\ owns' = owns /\ loop' \in Nat
        /\ running' = running \union {loop'}
    BY <1>2 DEF StartRelay, Goto, engineVars, chromeVars, StateInv, TypedOK, LoopsOK
  <2>2. running' = {loop'}
    BY <1>a, <1>2, <2>1 DEF StartRelay, Calm, CalmThread
  <2>3. CalmEngine'
    BY <1>a, <1>b, <2>1, <2>2 DEF Calm, CalmEngine
  <2>4. \A u \in Threads : CalmThread(u)'
    BY <1>a, <2>1 DEF CalmThread, Inside
  <2> QED BY <1>1, <2>3, <2>4 DEF Calm
<1>3. CASE StartChrome(t)
  <2>1. /\ pc' = [pc EXCEPT ![t] = "launching"] /\ owns' = (owns \/ cdp = Local)
        /\ UNCHANGED <<loop, running>>
    BY <1>3 DEF StartChrome, Goto, loopVars
  <2>2. job'[t].launch.at = cdp
    <3>1. job[t] \in Jobs /\ job[t].launch \in Launches
      BY <1>a DEF Jobs
    <3> QED BY <1>a, <1>3, <3>1 DEF StartChrome, Jobs, Launches
  <2>3. CalmEngine'
    BY <1>a, <1>b, <2>1 DEF Calm, CalmEngine
  <2>4. \A u \in Threads : CalmThread(u)'
    BY <1>a, <2>1, <2>2 DEF CalmThread, Inside
  <2> QED BY <1>1, <2>3, <2>4 DEF Calm
<1> QED BY <1>2, <1>3

LEMMA LaunchDoneCalm ==
    ASSUME StateInv, Calm, NEW t \in Threads, LaunchDone(t)
    PROVE  Calm'
<1> DEFINE new == Len(chromes) + 1
           at == job[t].launch.at
           inside == InContext(job[t].launch)
<1>a. /\ pc[t] = "launching" /\ pc'[t] \in Afters
      /\ \A u \in Threads : u # t => pc'[u] = pc[u] /\ task'[u] = task[u]
      /\ task'[t] \in {task[t], Submitted}
      /\ UNCHANGED <<loop, running, overdue>>
  BY LaunchEnds DEF StateInv, loopVars
<1>b. /\ browser' = new /\ tabSem' = new /\ Len(chromes') = new
      /\ up' = up \union {new} /\ context' = (IF inside THEN new ELSE 0)
      /\ owns' = (owns /\ at = Local)
      /\ chromes'[new].context = inside /\ chromes'[new].at = at
  BY LaunchEnds DEF StateInv
<1>c. /\ browser = 0 /\ \A u \in Threads : u # t => pc[u] \notin Inside
      /\ \A u \in Threads : task[u].state \notin Alive
  BY <1>a, NoTaskInside DEF Inside
<1>d. Len(chromes) \in Nat /\ up \subseteq 1..Len(chromes)
  BY DEF StateInv, TypedOK, ChromesOK
<1>e. at = Local => owns
  BY <1>a DEF Calm, CalmThread
<1>f. new # 0 /\ up' = {new}
  <2>1. up = {}
    BY <1>c, <1>d DEF Calm, CalmEngine
  <2>2. new # 0
    BY <1>d
  <2> QED BY <1>b, <2>1, <2>2
<1> HIDE DEF new, at, inside
<1>1. CalmEngine'
  BY <1>a, <1>b, <1>e, <1>f DEF Calm, CalmEngine
<1>2. ASSUME NEW u \in Threads PROVE CalmThread(u)'
  <2>1. pc'[u] \notin Inside
    BY <1>a, <1>c DEF Afters, Inside
  <2> QED BY <2>1 DEF CalmThread, Inside
<1>3. ASSUME NEW u \in Threads PROVE CalmTask(task[u])'
  <2>1. Submitted.state = "queued"
    BY SubmittedTask DEF StateInv, TypedOK
  <2>2. task'[u].state \notin {"started", "waiting", "loading"}
    BY <1>a, <1>c, <2>1 DEF Alive
  <2> QED BY <2>2 DEF CalmTask
<1> QED BY <1>1, <1>2, <1>3 DEF Calm

LEMMA ResetCalm ==
    ASSUME StateInv, Calm, NEW t \in Threads, ResetBegin(t) \/ ResetDrain(t)
    PROVE  Calm'
<1>a. pc \in [Threads -> Labels] /\ NoThread \notin Threads
  BY Defaults DEF StateInv, TypedOK, ControlOK
<1>1. CASE ResetBegin(t)
  <2>a. /\ pc[t] = "reset" /\ pc' = [pc EXCEPT ![t] = "draining"]
        /\ lock = NoThread /\ lock' = t /\ Stops(browser) /\ tabSem' = 0
        /\ UNCHANGED <<task, job, owns, loop, running, overdue>>
    BY <1>1 DEF ResetBegin, LockFree, Goto, loopVars
  <2>b. /\ browser' = 0 /\ Len(chromes') = Len(chromes) /\ up' = {}
        /\ \A c \in 1..Len(chromes) : chromes'[c].context = chromes[c].context
    BY <2>a, StopState, NoneUp DEF Calm
  <2>1. CalmEngine'
    BY <1>a, <2>a, <2>b DEF Calm, CalmEngine
  <2>2. \A u \in Threads : CalmThread(u)'
    BY <1>a, <2>a DEF Calm, CalmThread
  <2>3. \A u \in Threads : CalmTask(task[u])'
    BY <2>a, <2>b DEF Calm, CalmTask
  <2> QED BY <2>1, <2>2, <2>3 DEF Calm
<1>2. CASE ResetDrain(t)
  <2>a. /\ pc[t] = "draining" /\ pc' = [pc EXCEPT ![t] = "starting"]
        /\ UNCHANGED <<lock, browser, chromes, up, tabSem, context, owns, job, loop>>
        /\ running' = running \ {loop} /\ overdue' \subseteq overdue
    BY <1>2 DEF ResetDrain, Goto, engineVars, chromeVars
  <2>b. lock = t /\ running' = {}
    BY <2>a DEF StateInv, LockInv, Inside, Calm, CalmEngine
  <2>1. CalmEngine'
    BY <2>a, <2>b DEF Calm, CalmEngine
  <2>2. \A u \in Threads : CalmThread(u)'
    BY <1>a, <2>a, <2>b DEF Calm, CalmThread
  <2>3. \A u \in Threads : CalmTask(task[u])'
    <3>1. \A u \in Threads : task'[u].state \in Alive => task'[u] = task[u]
      BY <1>2, Drained DEF StateInv
    <3> QED BY <2>a, <3>1 DEF Calm, CalmTask, Alive
  <2> QED BY <2>1, <2>2, <2>3 DEF Calm
<1> QED BY <1>1, <1>2

LEMMA TaskCalm ==
    ASSUME StateInv, Calm, NEW t \in Threads, Task(t)
    PROVE  Calm'
<1>a. /\ UNCHANGED <<lock, browser, chromes, up, tabSem, context, owns>>
      /\ UNCHANGED <<loop, running, overdue, pc, job>>
  BY DEF Task, engineVars, chromeVars, loopVars
<1>1. CalmEngine' /\ \A u \in Threads : CalmThread(u)'
  BY <1>a DEF Calm, CalmEngine, CalmThread
<1>2. PICK next \in Tasks :
        /\ task' = [task EXCEPT ![t] = next] /\ task[t].state \in Alive
        /\ Onward(task[t], next)
  BY TaskMoves DEF StateInv
<1>3. TaskOK(task[t]) /\ CalmTask(task[t])
  BY <1>2 DEF StateInv, TaskInv, Calm
<1>4. CalmTask(next)
  <2>1. CASE next.state = "done"
    BY <2>1 DEF CalmTask
  <2>2. CASE next.state = "started"
    BY <1>2, <2>2 DEF Onward, CalmTask
  <2>3. CASE next.state = "waiting"
    <3>1. next.chrome = task[t].chrome /\ next.sem = tabSem /\ tabSem # 0
          /\ task[t].state = "started"
      BY <1>2, <2>3 DEF Onward
    <3>2. browser # 0
      BY <1>3, <3>1 DEF TaskOK, Draining, Calm, CalmThread
    <3> QED BY <1>3, <2>3, <3>1, <3>2 DEF TaskOK, CalmTask, Calm, CalmEngine
  <2>4. CASE next.state = "loading"
    <3>1. /\ next.chrome = task[t].chrome /\ next.sem = task[t].sem
          /\ next.context = context /\ task[t].chrome \in up
          /\ task[t].state = "waiting"
      BY <1>2, <2>4 DEF Onward
    <3>2. next.chrome = browser /\ browser \in 1..Len(chromes) /\ browser # 0
      BY <3>1 DEF Calm, CalmEngine, StateInv, TypedOK, ChromesOK
    <3> QED BY <1>3, <2>4, <3>1, <3>2 DEF CalmTask, Calm, CalmEngine
  <2> QED BY <1>2, <2>1, <2>2, <2>3, <2>4 DEF Onward
<1>5. \A u \in Threads : CalmTask(task[u])'
  <2> SUFFICES ASSUME NEW u \in Threads PROVE CalmTask(task'[u])
      BY <1>a DEF CalmTask
  <2>1. task \in [Threads -> Tasks]
    BY DEF StateInv, TypedOK, ControlOK
  <2>2. task'[u] = IF u = t THEN next ELSE task[u]
    BY <1>2, <2>1
  <2> QED BY <1>4, <2>2 DEF Calm
<1> QED BY <1>1, <1>5 DEF Calm

LEMMA EndsCalm ==
    ASSUME StateInv, Calm, Crash \/ Close
    PROVE  Calm'
<1>1. CASE Crash
  <2>1. up' \subseteq up
    BY <1>1 DEF Crash
  <2> QED BY <1>1, <2>1 DEF Crash, loopVars, Calm, CalmEngine, CalmThread, CalmTask
<1>2. CASE Close
  <2>1. /\ \A u \in Threads : pc[u] = "idle" /\ pc'[u] = "closed"
        /\ Stops(browser) /\ UNCHANGED <<lock, task>>
        /\ running' = running \ {loop} /\ overdue' \subseteq overdue
    BY <1>2 DEF Close
  <2>2. up' = {} /\ browser' = 0 /\ running' = {} /\ overdue' = {}
    BY <2>1, NoneUp DEF Calm, CalmEngine
  <2>3. CalmEngine'
    BY <2>2 DEF CalmEngine
  <2>4. \A u \in Threads : CalmThread(u)'
    BY <2>1 DEF CalmThread
  <2>5. \A u \in Threads : CalmTask(task[u])'
    <3>1. \A u \in Threads : task[u].state \notin Alive
      BY <2>1 DEF StateInv, TypedOK, AwaitedOK
    <3> QED BY <2>1, <3>1 DEF CalmTask, Alive
  <2> QED BY <2>3, <2>4, <2>5 DEF Calm
<1> QED BY <1>1, <1>2

\* A launch that fails is counted.
LEMMA LaunchFailed ==
    ASSUME StateInv, NEW t \in Threads, LaunchGivesUp(t)
    PROVE  Failed'
<1>1. budget'.failures = budget.failures + 1 /\ budget.failures \in Nat
  BY GivesUp DEF StateInv, TypedOK, ControlOK
<1> QED BY <1>1 DEF Failed

-----------------------------------------------------------------------------
\* A launch that fails is remembered.
LEMMA FailedStays ==
    ASSUME StateInv, [BrowserNext]_browserVars, Failed
    PROVE  Failed'
<1>a. budget \in [requests : Nat, crashes : Nat, failures : Nat]
  BY DEF StateInv, TypedOK, ControlOK
<1>1. CASE UNCHANGED budget
  BY <1>1 DEF Failed
<1>2. CASE Crash
  BY <1>a, <1>2 DEF Crash, Spend, Failed
<1>3. ASSUME NEW t \in Threads, Outside(t) PROVE Failed'
  <2>1. budget'.failures >= budget.failures /\ budget'.failures \in Nat
    BY <1>3 DEF Outside
  <2> QED BY <1>a, <2>1 DEF Failed
<1>4. ASSUME NEW t \in Threads, LaunchGivesUp(t) PROVE Failed'
  BY <1>4, LaunchFailed
<1>5. ASSUME NEW t \in Threads,
             \/ Ensure(t) \/ StartRelay(t) \/ StartChrome(t)
             \/ LaunchDone(t) \/ ResetBegin(t) \/ ResetDrain(t) \/ Task(t)
      PROVE  UNCHANGED budget
  BY <1>5 DEF Ensure, StartRelay, StartChrome, LaunchDone, ResetBegin, ResetDrain, Task
<1>6. BrowserTick \/ Close \/ (\E o \in overdue : LateLaunch(o)) \/ UNCHANGED browserVars
        => UNCHANGED budget
  BY DEF BrowserTick, Close, LateLaunch, browserVars
<1> QED BY <1>1, <1>2, <1>3, <1>4, <1>5, <1>6, Steps DEF StateInv

LEMMA CalmStays ==
    ASSUME StateInv, [BrowserNext]_browserVars, Calm, ~Failed'
    PROVE  Calm'
<1>1. CASE UNCHANGED <<lock, engineVars, loopVars, pc, job, task>>
  BY <1>1 DEF Calm, CalmEngine, CalmThread, CalmTask, engineVars, chromeVars, loopVars
<1>2. CASE BrowserTick \/ UNCHANGED browserVars
  BY <1>1, <1>2 DEF BrowserTick, browserVars
<1>3. ~\E o \in overdue : LateLaunch(o)
  BY DEF Calm, CalmEngine
<1>4. ASSUME NEW t \in Threads,
             \/ Outside(t) \/ Ensure(t) \/ StartRelay(t) \/ StartChrome(t)
             \/ LaunchDone(t) \/ ResetBegin(t) \/ ResetDrain(t) \/ Task(t)
      PROVE  Calm'
  BY <1>4, OutsideCalm, EnsureCalm, StartCalm, LaunchDoneCalm, ResetCalm, TaskCalm
<1>5. \A t \in Threads : ~LaunchGivesUp(t)
  BY LaunchFailed
<1> QED BY <1>2, <1>3, <1>4, <1>5, EndsCalm, Steps DEF StateInv

LEMMA ClosedStays ==
    ASSUME StateInv, ClosedInv, [BrowserNext]_browserVars
    PROVE  ClosedInv'
<1>a. pc \in [Threads -> Labels]
  BY DEF StateInv, TypedOK, ControlOK
<1>1. CASE UNCHANGED <<pc, browser, loop>>
  BY <1>1 DEF ClosedInv
<1>2. ASSUME NEW t \in Threads, pc'[t] # "closed" PROVE ClosedInv'
  BY <1>2 DEF ClosedInv
<1>3. CASE Close
  BY <1>3 DEF Close, Stops, ClosedInv
<1>4. ASSUME \/ BrowserTick \/ Crash \/ \E o \in overdue : LateLaunch(o)
             \/ UNCHANGED browserVars \/ \E t \in Threads : Task(t)
      PROVE  UNCHANGED <<pc, browser, loop>>
  BY <1>4 DEF BrowserTick, Crash, LateLaunch, Task, browserVars, engineVars, chromeVars,
              loopVars
<1>5. ASSUME NEW t \in Threads,
             \/ Outside(t) \/ Ensure(t) \/ StartRelay(t) \/ StartChrome(t)
             \/ LaunchDone(t) \/ LaunchGivesUp(t) \/ ResetBegin(t) \/ ResetDrain(t)
      PROVE  pc'[t] # "closed"
  <2>1. Outside(t) => pc'[t] # "closed"
    BY OutsideMoves DEF StateInv
  <2>2. LaunchDone(t) => pc'[t] # "closed"
    BY LaunchEnds DEF StateInv, Afters
  <2>3. LaunchGivesUp(t) => pc'[t] # "closed"
    BY <1>a, GivesUp DEF StateInv
  <2> QED BY <1>5, <1>a, <2>1, <2>2, <2>3
          DEF Ensure, StartRelay, StartChrome, ResetBegin, ResetDrain, Goto
<1> QED BY <1>1, <1>2, <1>3, <1>4, <1>5, Steps DEF StateInv

LEMMA CalmStep == CalmInv /\ [BrowserNext]_browserVars => CalmInv'
  BY StateStep, FailedStays, CalmStays, ClosedStays DEF CalmInv

LEMMA CalmAlways == BrowserSpec => []CalmInv
  BY CalmInit, CalmStep, PTL DEF BrowserSpec

-----------------------------------------------------------------------------
\* None but the Chrome at hand is left running.
THEOREM OnePersistentChrome == BrowserSpec => []OneChrome
<1>1. CalmInv => OneChrome
  BY DEF CalmInv, Calm, CalmEngine, OneChrome
<1> QED BY <1>1, CalmAlways, PTL

\* After close() there is neither a Chrome nor a loop that runs.
THEOREM NothingLeft == BrowserSpec => []CloseLeavesNothing
<1>1. CalmInv => CloseLeavesNothing
  <2> SUFFICES ASSUME CalmInv, ~Failed, \A t \in Threads : pc[t] = "closed"
               PROVE  up = {} /\ running = {}
      BY DEF CloseLeavesNothing
  <2>1. browser = 0 /\ loop = 0
    BY DEF CalmInv, ClosedInv
  <2>2. up \subseteq 1..Len(chromes) /\ Len(chromes) \in Nat
        /\ running \subseteq 1..loops /\ loops \in Nat
    BY DEF CalmInv, StateInv, TypedOK, ChromesOK, LoopsOK
  <2>3. up \subseteq {0} /\ running \subseteq {0}
    BY <2>1 DEF CalmInv, Calm, CalmEngine
  <2> QED BY <2>2, <2>3
<1> QED BY <1>1, CalmAlways, PTL

\* A tab is in the context made for its Chrome, if one was.
THEOREM TabsStayInContext == BrowserSpec => []TabsInTheirContext
<1>1. CalmInv => TabsInTheirContext
  <2> SUFFICES ASSUME CalmInv, ~Failed, NEW t \in Threads, task[t].state = "loading"
               PROVE  (task[t].context # 0) = chromes[task[t].chrome].context
      BY DEF TabsInTheirContext
  <2>1. /\ task[t].chrome \in 1..Len(chromes)
        /\ task[t].context # 0 <=> chromes[task[t].chrome].context
    BY DEF CalmInv, Calm, CalmTask
  <2>2. chromes[task[t].chrome].context \in BOOLEAN
    <3>1. chromes[task[t].chrome] \in ChromeRecs
      BY <2>1 DEF CalmInv, StateInv, TypedOK, ChromesOK
    <3> QED BY <3>1 DEF ChromeRecs
  <2>3. (task[t].context # 0) \in BOOLEAN
    OBVIOUS
  <2> HIDE DEF TabsInTheirContext
  <2> QED BY <2>1, <2>2, <2>3
<1> QED BY <1>1, CalmAlways, PTL

-----------------------------------------------------------------------------
(***************************************************************************)
(* Tabs are counted by semaphore, whatever becomes of Chrome: a task that  *)
(* opens one does so with room left, and every other step only takes tasks *)
(* from the loading ones.  Those loading in a Chrome have its semaphore.     *)
(***************************************************************************)
SemaphoreInv == \A n \in Nat : Cardinality(TabsOf(n)) <= MaxTabs

LEMMA TabsFinite ==
    ASSUME NEW n
    PROVE  /\ IsFiniteSet(TabsOf(n)) /\ IsFiniteSet(TabsOf(n)')
           /\ Cardinality(TabsOf(n)) \in Nat
<1>1. TabsOf(n) \subseteq Threads /\ TabsOf(n)' \subseteq Threads
  BY DEF TabsOf
<1> QED BY <1>1, BrowserAssumption, FS_Subset, FS_CardinalityType

LEMMA SemaphoreStep ==
    ASSUME StateInv, SemaphoreInv, [BrowserNext]_browserVars
    PROVE  SemaphoreInv'
<1> SUFFICES ASSUME NEW n \in Nat
             PROVE  Cardinality(TabsOf(n)') <= MaxTabs
    BY DEF SemaphoreInv, TabsOf
<1>a. /\ Cardinality(TabsOf(n)) <= MaxTabs /\ MaxTabs \in Nat
      /\ task \in [Threads -> Tasks] /\ TypedOK
  BY BrowserAssumption DEF SemaphoreInv, StateInv, TypedOK, ControlOK
<1>1. ASSUME TabsOf(n)' \subseteq TabsOf(n)
      PROVE  Cardinality(TabsOf(n)') <= MaxTabs
  <2>1. /\ IsFiniteSet(TabsOf(n)) /\ Cardinality(TabsOf(n)') <= Cardinality(TabsOf(n))
        /\ Cardinality(TabsOf(n)') \in Nat /\ Cardinality(TabsOf(n)) \in Nat
    BY <1>1, TabsFinite, FS_Subset, FS_CardinalityType
  <2> QED BY <1>a, <2>1
<1>2. ASSUME \A u \in Threads : task'[u] = task[u] \/ task'[u].state # "loading"
      PROVE  TabsOf(n)' \subseteq TabsOf(n)
  BY <1>2 DEF TabsOf
<1>3. ASSUME NEW t \in Threads, Task(t)
      PROVE  Cardinality(TabsOf(n)') <= MaxTabs
  <2>1. PICK next \in Tasks :
          task' = [task EXCEPT ![t] = next] /\ Onward(task[t], next)
    BY <1>3, <1>a, TaskMoves
  <2>2. \A u \in Threads : task'[u] = IF u = t THEN next ELSE task[u]
    BY <1>a, <2>1
  <2>3. CASE next.state # "loading"
    BY <1>1, <1>2, <2>2, <2>3
  <2>4. CASE next.state = "loading" /\ next.sem # n
    <3>1. TabsOf(n)' \subseteq TabsOf(n)
      BY <2>2, <2>4 DEF TabsOf
    <3> QED BY <1>1, <3>1
  <2>5. CASE next.state = "loading" /\ next.sem = n
    <3>1. Cardinality(TabsOf(n)) < MaxTabs
      BY <2>1, <2>5 DEF Onward
    <3>2. TabsOf(n)' \subseteq TabsOf(n) \union {t}
      BY <2>2 DEF TabsOf
    <3> DEFINE more == TabsOf(n) \union {t}
    <3>3. /\ IsFiniteSet(more) /\ Cardinality(more) <= Cardinality(TabsOf(n)) + 1
          /\ Cardinality(more) \in Nat
      <4>1. IsFiniteSet(TabsOf(n)) /\ Cardinality(TabsOf(n)) \in Nat
        BY TabsFinite
      <4>2. /\ IsFiniteSet(more)
            /\ \/ Cardinality(more) = Cardinality(TabsOf(n))
               \/ Cardinality(more) = Cardinality(TabsOf(n)) + 1
        BY <4>1, FS_AddElement
      <4> HIDE DEF more
      <4> QED BY <4>1, <4>2
    <3>4. Cardinality(TabsOf(n)') <= Cardinality(more) /\ Cardinality(TabsOf(n)') \in Nat
      BY <3>2, <3>3, TabsFinite, FS_Subset, FS_CardinalityType
    <3> HIDE DEF more
    <3>5. Cardinality(TabsOf(n)) \in Nat
      BY TabsFinite
    <3> QED BY <1>a, <3>1, <3>3, <3>4, <3>5
  <2> QED BY <2>3, <2>4, <2>5
<1>4. ASSUME NEW t \in Threads, Outside(t) \/ LaunchGivesUp(t) \/ LaunchDone(t)
      PROVE  \A u \in Threads : task'[u] = task[u] \/ task'[u].state # "loading"
  <2>1. Outside(t) => \A u \in Threads : task'[u] = task[u] \/ task'[u].state # "loading"
    BY <1>a, OutsideMoves DEF Alive
  <2>2. Submitted.state # "loading" /\ NoTask.state # "loading"
    BY <1>a, SubmittedTask DEF TypedOK, NoTask
  <2>3. LaunchDone(t) => \A u \in Threads :
                           task'[u] = task[u] \/ task'[u].state # "loading"
    BY <1>a, <2>2, LaunchEnds
  <2>4. LaunchGivesUp(t) => \A u \in Threads :
                              task'[u] = task[u] \/ task'[u].state # "loading"
    BY <1>a, <2>2, GivesUp
  <2> QED BY <1>4, <2>1, <2>3, <2>4
<1>5. ASSUME NEW t \in Threads, Ensure(t) \/ ResetDrain(t)
      PROVE  \A u \in Threads : task'[u] = task[u] \/ task'[u].state # "loading"
  <2>1. Submitted.state # "loading"
    BY <1>a, SubmittedTask DEF TypedOK
  <2>2. Ensure(t) => task' = task \/ task' = [task EXCEPT ![t] = Submitted]
    BY DEF Ensure
  <2>3. ResetDrain(t) => \A u \in Threads :
                           task'[u] = task[u] \/ task'[u].state # "loading"
    BY <1>a, Drained DEF Alive
  <2> HIDE DEF Submitted
  <2> QED BY <1>5, <1>a, <2>1, <2>2, <2>3
<1>6. ASSUME \/ BrowserTick \/ Crash \/ Close \/ \E o \in overdue : LateLaunch(o)
             \/ UNCHANGED browserVars
             \/ \E t \in Threads : StartRelay(t) \/ StartChrome(t) \/ ResetBegin(t)
      PROVE  task' = task
  BY <1>6 DEF BrowserTick, Crash, Close, LateLaunch, browserVars, StartRelay, StartChrome,
              ResetBegin
<1> QED BY <1>a, <1>1, <1>2, <1>3, <1>4, <1>5, <1>6, Steps

(***************************************************************************)
(* A task that a reset left behind was not in a tab of the Chrome at hand, *)
(* unless that one runs elsewhere and was connected to again: then the tab *)
(* is one of those left there.                                             *)
(***************************************************************************)
Behind(tk) ==
    /\ tk.chrome \in 1..Len(chromes) /\ tk.chrome # browser
    /\ chromes[tk.chrome].at # Local => chromes[tk.chrome].at \in left

LostInv == \A u \in Threads : task[u].state = "lost" => Behind(task[u])

LeftInv == CalmInv /\ LeftOK /\ (~Failed => LostInv)

\* A Chrome stays where it is, and a new one has a number of its own.
LEMMA ChromesKept ==
    ASSUME StateInv, Calm, [BrowserNext]_browserVars, ~Failed'
    PROVE  /\ Len(chromes') >= Len(chromes)
           /\ \A c \in 1..Len(chromes) : chromes'[c].at = chromes[c].at
           /\ browser' \in {browser, 0, Len(chromes) + 1}
<1>a. TypedOK /\ Len(chromes) \in Nat /\ owns \in BOOLEAN
      /\ ChromesOK /\ browser \in 0..Len(chromes)
  BY DEF StateInv, TypedOK, ChromesOK, EngineOK
<1>1. CASE UNCHANGED <<browser, chromes>>
  BY <1>1, <1>a
<1>2. ASSUME Stops(browser)
      PROVE  /\ Len(chromes') = Len(chromes) /\ browser' = 0
             /\ \A c \in 1..Len(chromes) : chromes'[c].at = chromes[c].at
  BY <1>2, <1>a, ChromeStopped
<1>3. CASE Close \/ \E t \in Threads : ResetBegin(t)
  <2>1. Stops(browser)
    BY <1>3 DEF Close, ResetBegin
  <2> QED BY <1>a, <1>2, <2>1
<1>4. ASSUME NEW t \in Threads, LaunchDone(t)
      PROVE  /\ Len(chromes') = Len(chromes) + 1 /\ browser' = Len(chromes) + 1
             /\ \A c \in 1..Len(chromes) : chromes'[c].at = chromes[c].at
  BY <1>4, <1>a, LaunchEnds
<1>5. ~(\E o \in overdue : LateLaunch(o)) /\ \A t \in Threads : ~LaunchGivesUp(t)
  BY LaunchFailed DEF Calm, CalmEngine
<1>6. ASSUME \/ BrowserTick \/ Crash \/ UNCHANGED browserVars
             \/ \E t \in Threads : \/ Outside(t) \/ Ensure(t) \/ StartRelay(t)
                                   \/ StartChrome(t) \/ ResetDrain(t) \/ Task(t)
      PROVE  UNCHANGED <<browser, chromes>>
  BY <1>6 DEF BrowserTick, Crash, browserVars, Outside, Ensure, StartRelay,
              StartChrome, ResetDrain, Task, engineVars, chromeVars
<1> QED BY <1>a, <1>1, <1>3, <1>4, <1>5, <1>6, Steps

\* Only a reset leaves a task behind, one that was in a tab.
LEMMA LostByReset ==
    ASSUME StateInv, [BrowserNext]_browserVars, NEW u \in Threads,
           task'[u].state = "lost"
    PROVE  \/ task'[u] = task[u]
           \/ \E t \in Threads :
                /\ ResetDrain(t) /\ task[u].state = "loading"
                /\ task'[u].chrome = task[u].chrome
                /\ \E us : left' = left \union LeftBy(us) /\ u \in us
<1>a. TypedOK /\ task \in [Threads -> Tasks]
  BY DEF StateInv, TypedOK, ControlOK
<1>1. CASE UNCHANGED task
  BY <1>1
<1>2. ASSUME NEW t \in Threads, Outside(t) \/ LaunchGivesUp(t)
      PROVE  task'[u] = task[u]
  <2>1. \E tk \in {task[t], NoTask} : task' = [task EXCEPT ![t] = tk]
    <3>1. Outside(t) => \E tk \in {task[t], NoTask} : task' = [task EXCEPT ![t] = tk]
      BY DEF Outside
    <3>2. LaunchGivesUp(t) => task' = [task EXCEPT ![t] = NoTask]
      BY <1>a, GivesUp
    <3> QED BY <1>2, <3>1, <3>2
  <2>2. NoTask.state # "lost"
    BY DEF NoTask
  <2> HIDE DEF NoTask
  <2> QED BY <1>a, <2>1, <2>2
<1>3. ASSUME NEW t \in Threads, Ensure(t) \/ LaunchDone(t)
      PROVE  task'[u] = task[u]
  <2>1. Submitted.state # "lost"
    BY <1>a, SubmittedTask DEF TypedOK
  <2>2. task' = task \/ task' = [task EXCEPT ![t] = Submitted]
    BY <1>3 DEF Ensure, LaunchDone
  <2> HIDE DEF Submitted
  <2> QED BY <1>a, <2>1, <2>2
<1>4. ASSUME NEW t \in Threads, Task(t)
      PROVE  task'[u] = task[u]
  <2>1. PICK next \in Tasks : /\ task' = [task EXCEPT ![t] = next]
                              /\ Onward(task[t], next)
    BY <1>4, <1>a, TaskMoves
  <2>2. next.state # "lost"
    BY <2>1 DEF Onward
  <2> QED BY <1>a, <2>1, <2>2
<1>5. ASSUME NEW t \in Threads, ResetDrain(t)
      PROVE  \/ task'[u] = task[u]
             \/ /\ task[u].state = "loading" /\ task'[u].chrome = task[u].chrome
                /\ \E us : left' = left \union LeftBy(us) /\ u \in us
  <2>1. PICK us \in SUBSET {v \in OnLoop(loop) : task[v].state = "loading"} :
          /\ left' = left \union LeftBy(us)
          /\ \E s \in SUBSET us :
                task' = [v \in Threads |->
                            CASE v \in s -> [task[v] EXCEPT !.state = "lost"]
                              [] v \in OnLoop(loop) \ s -> Cancelled(task[v])
                              [] OTHER -> task[v]]
    BY <1>5 DEF ResetDrain
  <2>2. PICK s \in SUBSET us :
          task' = [v \in Threads |->
                      CASE v \in s -> [task[v] EXCEPT !.state = "lost"]
                        [] v \in OnLoop(loop) \ s -> Cancelled(task[v])
                        [] OTHER -> task[v]]
    BY <2>1
  <2>3. CASE u \in s
    <3>1. task'[u] = [task[u] EXCEPT !.state = "lost"]
      BY <2>2, <2>3
    <3>2. task'[u].chrome = task[u].chrome
      BY <1>a, <3>1 DEF Tasks
    <3>3. u \in us /\ task[u].state = "loading"
      BY <2>1, <2>2, <2>3
    <3> QED BY <2>1, <3>2, <3>3
  <2>4. CASE u \in OnLoop(loop) \ s
    <3>1. task'[u] = Cancelled(task[u])
      BY <2>2, <2>4
    <3>2. Cancelled(task[u]).state = "done"
      BY DEF Cancelled, NoTask
    <3> QED BY <3>1, <3>2
  <2>5. CASE u \notin s /\ u \notin OnLoop(loop)
    BY <2>2, <2>5
  <2> QED BY <2>3, <2>4, <2>5
<1>6. ASSUME \/ BrowserTick \/ Crash \/ Close \/ \E o \in overdue : LateLaunch(o)
             \/ UNCHANGED browserVars
             \/ \E t \in Threads : StartRelay(t) \/ StartChrome(t) \/ ResetBegin(t)
      PROVE  UNCHANGED task
  BY <1>6 DEF BrowserTick, Crash, Close, LateLaunch, browserVars, StartRelay,
              StartChrome, ResetBegin
<1> QED BY <1>a, <1>1, <1>2, <1>3, <1>4, <1>5, <1>6, Steps

LEMMA LostStep ==
    ASSUME StateInv, Calm, LeftOK, LostInv, [BrowserNext]_browserVars, ~Failed'
    PROVE  LostInv'
<1>a. TypedOK /\ Len(chromes) \in Nat /\ Len(chromes') \in Nat
  <2>1. TypedOK /\ TypedOK'
    BY TypedStep DEF StateInv
  <2> QED BY <2>1 DEF TypedOK, ChromesOK
<1>b. \A c \in 1..Len(chromes) :
        chromes[c].at # Local => chromes[c].at \in Endpoints
  <2>1. \A c \in 1..Len(chromes) : chromes[c] \in ChromeRecs
    BY <1>a DEF TypedOK, ChromesOK
  <2> QED BY <2>1 DEF ChromeRecs
<1>c. \A p \in Endpoints : p \in left => p \in left'
  BY <1>a, LeftStep
<1> DEFINE Here(c) == /\ c \in 1..Len(chromes) /\ c # browser
                      /\ chromes[c].at # Local => chromes[c].at \in left
           Then(c) == /\ c \in 1..Len(chromes') /\ c # browser'
                      /\ chromes'[c].at # Local => chromes'[c].at \in left'
<1>1. ASSUME NEW c \in 1..Len(chromes), c # browser,
             chromes[c].at # Local => chromes[c].at \in left'
      PROVE  Then(c)
  <2>1. /\ Len(chromes') >= Len(chromes) /\ chromes'[c].at = chromes[c].at
        /\ browser' \in {browser, 0, Len(chromes) + 1}
    BY ChromesKept
  <2> QED BY <1>1, <1>a, <2>1
<1>2. ASSUME NEW u \in Threads, task'[u].state = "lost", task'[u] = task[u]
      PROVE  Then(task'[u].chrome)
  <2> DEFINE c == task[u].chrome
  <2>1. Here(c)
    BY <1>2 DEF LostInv, Behind
  <2> HIDE DEF c
  <2>2. chromes[c].at # Local => chromes[c].at \in left'
    BY <1>b, <1>c, <2>1
  <2>3. Then(c)
    BY <1>1, <2>1, <2>2
  <2> QED BY <1>2, <2>3 DEF c
<1>3. ASSUME NEW u \in Threads, NEW t \in Threads, ResetDrain(t),
             task[u].state = "loading", task'[u].chrome = task[u].chrome,
             NEW us, left' = left \union LeftBy(us), u \in us
      PROVE  Then(task'[u].chrome)
  <2> DEFINE c == task[u].chrome
  <2>1. c \in 1..Len(chromes)
    BY <1>3 DEF Calm, CalmTask
  <2>2. browser = 0
    BY <1>3 DEF ResetDrain, StateInv, LockInv, Inside
  <2>3. chromes[c].at # Local => chromes[c].at \in left'
    BY <1>3, <1>b, <2>1 DEF LeftBy
  <2> HIDE DEF c
  <2>4. Then(c)
    BY <1>1, <2>1, <2>2, <2>3
  <2> QED BY <1>3, <2>4 DEF c
<1>4. ASSUME NEW u \in Threads, task'[u].state = "lost"
      PROVE  Then(task'[u].chrome)
  BY <1>2, <1>3, <1>4, LostByReset
<1> QED BY <1>4 DEF LostInv, Behind

LEMMA LeftAlways == BrowserSpec => []LeftInv
<1>1. BrowserInit => LeftInv
  <2> SUFFICES ASSUME BrowserInit PROVE LeftInv
      OBVIOUS
  <2>1. LeftOK /\ CalmInv
    BY BaseInit, CalmInit DEF TypeInv
  <2>2. LostInv
    BY DEF BrowserInit, NoTask, LostInv
  <2> QED BY <2>1, <2>2 DEF LeftInv
<1>2. LeftInv /\ [BrowserNext]_browserVars => LeftInv'
  <2> SUFFICES ASSUME LeftInv, [BrowserNext]_browserVars PROVE LeftInv'
      OBVIOUS
  <2>1. StateInv /\ CalmInv' /\ LeftOK /\ LeftOK'
    BY CalmStep, LeftStep DEF LeftInv, CalmInv, StateInv
  <2>2. ASSUME ~Failed' PROVE LostInv'
    <3>1. ~Failed
      BY <2>1, <2>2, FailedStays
    <3> QED BY <2>1, <2>2, <3>1, LostStep DEF LeftInv, CalmInv
  <2> QED BY <2>1, <2>2 DEF LeftInv
<1> QED BY <1>1, <1>2, PTL DEF BrowserSpec

\* The fetches that are in a tab of one Chrome at a time are bounded by its semaphore,
\* and so are its tabs as long as none was left in it.
THEOREM TabsBounded == BrowserSpec => []TabsWithinLimit
<1>1. BrowserInit => SemaphoreInv
  <2> SUFFICES ASSUME BrowserInit, NEW n \in Nat PROVE TabsOf(n) = {}
      BY FS_EmptySet, BrowserAssumption DEF SemaphoreInv
  <2> QED BY DEF BrowserInit, NoTask, TabsOf
<1>2. LeftInv /\ SemaphoreInv /\ [BrowserNext]_browserVars => SemaphoreInv'
  BY SemaphoreStep DEF LeftInv, CalmInv
<1>3. LeftInv /\ SemaphoreInv => TabsWithinLimit
  <2> DEFINE InTab(c) == {u \in Threads : task[u].state = "loading"
                                             /\ task[u].chrome = c}
             Tabs(c) == {u \in Threads : /\ task[u].state \in {"loading", "lost"}
                                         /\ SameChrome(c, task[u].chrome)}
  <2> SUFFICES ASSUME LeftInv, SemaphoreInv, ~Failed, NEW c \in up
               PROVE  /\ Cardinality(InTab(c)) <= MaxTabs
                      /\ Place(c) \notin left => Cardinality(Tabs(c)) <= MaxTabs
      BY Zenon DEF TabsWithinLimit
  <2>a. /\ c \in 1..Len(chromes) /\ c = browser /\ c # 0 /\ c \in Nat
        /\ StateInv /\ Calm /\ LostInv /\ MaxTabs \in Nat
    BY BrowserAssumption
       DEF LeftInv, CalmInv, Calm, CalmEngine, StateInv, TypedOK, ChromesOK
  <2>1. InTab(c) = TabsOf(c)
    BY <2>a DEF Calm, CalmTask, TabsOf
  <2>2. Cardinality(TabsOf(c)) <= MaxTabs /\ Cardinality(TabsOf(c)) \in Nat
    BY <2>a, TabsFinite DEF SemaphoreInv
  <2>3. ASSUME Place(c) \notin left PROVE Tabs(c) \subseteq TabsOf(c)
    <3> SUFFICES ASSUME NEW u \in Threads, SameChrome(c, task[u].chrome),
                        task[u].state \in {"loading", "lost"}
                 PROVE  task[u].state = "loading" /\ task[u].sem = c
        BY DEF TabsOf
    <3>1. CASE task[u].state = "lost"
      <4>1. Behind(task[u])
        BY <2>a, <3>1 DEF LostInv
      <4> QED BY <2>a, <2>3, <4>1 DEF Behind, SameChrome, Place
    <3>2. CASE task[u].state = "loading"
      <4>1. task[u].chrome \in 1..Len(chromes) /\ task[u].sem = task[u].chrome
        BY <2>a, <3>2 DEF Calm, CalmTask
      <4>2. task[u].chrome # 0
        BY <4>1
      <4>3. browser \in {0, task[u].chrome}
        BY <2>a, <3>2, <4>2 DEF StateInv, TaskInv, TaskOK, Alive
      <4> QED BY <2>a, <3>2, <4>1, <4>3
    <3> QED BY <3>1, <3>2
  <2>4. ASSUME Tabs(c) \subseteq TabsOf(c) PROVE Cardinality(Tabs(c)) <= MaxTabs
    <3> HIDE DEF Tabs
    <3>1. /\ Cardinality(Tabs(c)) <= Cardinality(TabsOf(c))
          /\ Cardinality(Tabs(c)) \in Nat
      BY <2>4, TabsFinite, FS_Subset, FS_CardinalityType
    <3> QED BY <2>a, <2>2, <3>1
  <2> QED BY <2>1, <2>2, <2>3, <2>4
<1> QED BY <1>1, <1>2, <1>3, LeftAlways, PTL DEF BrowserSpec
=============================================================================
