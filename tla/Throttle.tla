------------------------------ MODULE Throttle ------------------------------
(***************************************************************************)
(* ThrottleRegistry (strategies/throttle.py): per domain and driver, the   *)
(* spacing of requests.  wait() reserves an instant to leave at, under the *)
(* lock, and then sleeps without it; record() learns from the answers,     *)
(* under the lock again.  Slots of different domains have nothing to do    *)
(* with each other, so there is one domain here and a slot per driver.     *)
(*                                                                         *)
(* Delays are whole units of time.  The moving average of the latencies is *)
(* known only by the side of _SLOW_LATENCY_S it is on: it moves towards    *)
(* the new latency, so it may change sides only if that is on the other.   *)
(***************************************************************************)
EXTENDS Runtime

CONSTANTS Drivers,              \* driver_name of the stealth engines
          MinDelay, MaxDelay,   \* _MIN_DELAY_S, _MAX_DELAY_S
          Decrease,             \* _ADDITIVE_DECREASE_S
          StreakBeforeDecrease, \* _SUCCESS_STREAK_BEFORE_DECREASE
          Floor429,             \* _429_FLOOR_S
          SlowBump,             \* _SLOW_LATENCY_BUMP_S
          Jitters,              \* profile_request_delay, _BROWSER_JITTER_S
          RetryAfters           \* what a Retry-After header may say

ASSUME ThrottleAssumption ==
    /\ {MinDelay, Floor429, MaxDelay, Decrease} \subseteq Nat \ {0}
    /\ MinDelay <= Floor429 /\ Floor429 <= MaxDelay
    /\ StreakBeforeDecrease \in Nat \ {0}
    /\ SlowBump \in Nat /\ MinDelay <= SlowBump
    /\ Jitters \subseteq Nat /\ RetryAfters \subseteq Nat

VARIABLES spacing,   \* _slots: driver -> _ThrottleSlot
          sleep,     \* thread -> its call of wait(), if it is asleep in one
          paced      \* history: threads whose reservation a reset did not wipe

throttleVars == <<spacing, sleep, paced>>

Spacing == [delay : Nat, last : Nat, limit : Nat, streak : Nat,
            ema : {"none", "fast", "slow"}]

NewSpacing == [delay |-> 0, last |-> 0, limit |-> 0, streak |-> 0,
               ema |-> "none"]

Awake == [driver |-> CHOOSE d \in Drivers : TRUE, until |-> 0, gap |-> 0]

ThrottleTypeOK ==
    /\ spacing \in [Drivers -> Spacing]
    /\ sleep \in [Threads -> [driver : Drivers,
                              until : Nat,  \* when it leaves; 0 if not asleep
                              gap : Nat]]   \* history: the delay it reserved by
    /\ paced \subseteq Threads

ThrottleInit ==
    /\ spacing = [d \in Drivers |-> NewSpacing]
    /\ sleep = [t \in Threads |-> Awake]
    /\ paced = {}

Later(a, b) == IF a > b THEN a ELSE b
Earlier(a, b) == IF a < b THEN a ELSE b

-----------------------------------------------------------------------------
\* wait(): the instant to leave at is written down as that of a request that
\* has left.
LeavesAt(s, jitter) == Later(Later(s.last + s.delay, s.limit), clock + jitter)

\* (ReserveNow, HeldLast, BackedOffUncapped, EasedBelow: as a mistake would have it)
ReserveNow(t, d, jitter) ==
    LET leave == LeavesAt(spacing[d], jitter)
    IN  /\ spacing' = [spacing EXCEPT ![d].last = clock]
        /\ sleep' = [sleep EXCEPT ![t] = [driver |-> d, until |-> leave,
                                          gap |-> spacing[d].delay]]
        /\ paced' = paced \union {t}
Reserve(t, d, jitter) ==
    LET leave == LeavesAt(spacing[d], jitter)
    IN  /\ spacing' = [spacing EXCEPT ![d].last = leave]
        /\ sleep' = [sleep EXCEPT ![t] = [driver |-> d, until |-> leave,
                                          gap |-> spacing[d].delay]]
        /\ paced' = paced \union {t}

\* time.sleep() is over, not a moment too early.
WakeUp(t) ==
    /\ clock >= sleep[t].until
    /\ sleep' = [sleep EXCEPT ![t] = Awake]
    /\ paced' = paced \ {t}
    /\ UNCHANGED spacing

-----------------------------------------------------------------------------
\* What record() makes of a status: 429, another of 400 and above, or any below
\* 400, with which it counts the 0 of a fetch that returned None.
Statuses == {"limited", "error", "fine"}

Averages(ema, latency) == IF ema = "none" THEN {latency} ELSE {ema, latency}

\* The latest end of a Retry-After heard of is kept; 0 is a header that is
\* missing, unreadable or already over.
HeldLast(s, after) == [s EXCEPT !.limit = IF after = 0 THEN @ ELSE clock + after]
Held(s, after) ==
    [s EXCEPT !.limit = IF after = 0 THEN @ ELSE Later(@, clock + after)]

BackedOffUncapped(s) == [s EXCEPT !.delay = Later(2 * @, Floor429), !.streak = 0]
BackedOff(s) ==
    [s EXCEPT !.delay = Earlier(MaxDelay, Later(2 * @, Floor429)), !.streak = 0]

EasedBelow(s) ==
    IF s.streak + 1 < StreakBeforeDecrease THEN [s EXCEPT !.streak = @ + 1]
    ELSE [s EXCEPT !.streak = 0, !.delay = @ - Decrease]

\* A streak of successes eases the spacing, never below MinDelay ...
Eased(s) ==
    IF s.streak + 1 < StreakBeforeDecrease THEN [s EXCEPT !.streak = @ + 1]
    ELSE [s EXCEPT !.streak = 0,
                   !.delay = IF @ > MinDelay + Decrease THEN @ - Decrease
                             ELSE MinDelay]

\* ... and slow answers widen it.
Widened(s) ==
    IF s.ema = "slow" THEN [s EXCEPT !.delay = Earlier(MaxDelay, @ + SlowBump)]
    ELSE s

Learnt(s, status) ==
    CASE status = "limited" -> BackedOff(s)
      [] status = "error"   -> s
      [] status = "fine"    -> Widened(Eased(s))

\* record(): an answer with this status, on this side of the latency threshold,
\* with this Retry-After, which is not looked at below 400.
RecordAnswer(d, status, latency, after) ==
    \E ema \in Averages(spacing[d].ema, latency) :
        LET learnt == Learnt([spacing[d] EXCEPT !.ema = ema], status)
        IN  spacing' = [spacing EXCEPT ![d] =
                IF status = "fine" THEN learnt ELSE Held(learnt, after)]

\* reset(), when a spider opens in this process
ResetThrottle ==
    /\ spacing' = [d \in Drivers |-> NewSpacing]
    /\ paced' = {}
    /\ UNCHANGED sleep

-----------------------------------------------------------------------------
\* However requests reserve and answers arrive, the spacing stays between its
\* bounds once there is one, and a full streak of successes is never carried
\* over.
DelayBounded ==
    \A d \in Drivers :
        /\ spacing[d].delay = 0 \/ spacing[d].delay \in MinDelay..MaxDelay
        /\ spacing[d].streak < StreakBeforeDecrease

\* Threads that sleep on one slot leave one after the other: two of them are at
\* least as far apart as the smaller of the delays they reserved by, although
\* each went to sleep before the other had left (throttle.py:118).
SleepersSpaced ==
    \A t, u \in paced :
        /\ t # u /\ sleep[t].driver = sleep[u].driver
        /\ sleep[t].until <= sleep[u].until
        => sleep[u].until - sleep[t].until >= Earlier(sleep[t].gap, sleep[u].gap)
=============================================================================
