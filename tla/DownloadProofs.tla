--------------------------- MODULE DownloadProofs ---------------------------
(***************************************************************************)
(* Theorems about the middleware, the fallback and the throttle, for any   *)
(* numbers of coroutines, drivers and stealth dicts and any setting of the *)
(* throttle.                                                               *)
(*                                                                         *)
(*   DownloadTypeCorrect: DownloadTypeOK.                                  *)
(*   DelayIsBounded: DelayBounded, on the types alone.                     *)
(*   SleepersLeaveApart: SleepersSpaced, as the slot remembers the last    *)
(*     instant that a sleeper still to leave has reserved.                 *)
(*   EscalatesOnce: EscalatedOnce, as a dict is marked whenever it was     *)
(*     escalated.                                                          *)
(*   ResponseIsKept: ResponseKept.                                         *)
(*   RetryAfterIsKept: RetryAfterNeverShortened.                           *)
(***************************************************************************)
EXTENDS Download, TLAPS

\* The spacing of a driver within its bounds
Bounded(s) ==
    /\ s \in Spacing
    /\ s.delay = 0 \/ s.delay \in MinDelay..MaxDelay
    /\ s.streak < StreakBeforeDecrease

SpacingInv == \A d \in Drivers : Bounded(spacing[d])

\* A slot knows of every reservation that is slept on: no sleeper is to leave
\* later than the last of them.
SleepInv ==
    /\ \A t \in paced : sleep[t].until <= spacing[sleep[t].driver].last
    /\ SleepersSpaced

\* A dict is marked exactly when it was escalated.
MarkInv == \A m \in Metas : meta[m].escalated = IF meta[m].done THEN 1 ELSE 0

DownloadInv == DownloadTypeOK /\ SpacingInv /\ SleepInv /\ MarkInv /\ ResponseKept

-----------------------------------------------------------------------------
\* What the steps of the throttle do to a slot
LEMMA SpacingFields ==
    ASSUME NEW s, s \in Spacing
    PROVE  /\ s.delay \in Nat /\ s.last \in Nat /\ s.limit \in Nat /\ s.streak \in Nat
           /\ s.ema \in {"none", "fast", "slow"}
           /\ s = [delay |-> s.delay, last |-> s.last, limit |-> s.limit,
                   streak |-> s.streak, ema |-> s.ema]
  BY DEF Spacing

LEMMA HeldBounded ==
    ASSUME NEW s, Bounded(s), NEW after \in Nat, clock \in Nat
    PROVE  /\ Bounded(Held(s, after))
           /\ Held(s, after).limit >= s.limit /\ Held(s, after).last = s.last
<1>1. /\ s.delay \in Nat /\ s.last \in Nat /\ s.limit \in Nat /\ s.streak \in Nat
      /\ s.ema \in {"none", "fast", "slow"}
  BY SpacingFields DEF Bounded
<1> DEFINE limit == IF after = 0 THEN s.limit ELSE Later(s.limit, clock + after)
<1>2. limit \in Nat /\ limit >= s.limit
  BY <1>1 DEF Later
<1>3. Held(s, after) = [s EXCEPT !.limit = limit]
  BY DEF Held
<1> HIDE DEF limit
<1>4. Held(s, after) = [delay |-> s.delay, last |-> s.last, limit |-> limit,
                        streak |-> s.streak, ema |-> s.ema]
  BY <1>3 DEF Bounded, Spacing
<1> QED BY <1>1, <1>2, <1>4 DEF Bounded, Spacing

LEMMA LearntBounded ==
    ASSUME NEW s, Bounded(s), NEW status \in Statuses
    PROVE  /\ Bounded(Learnt(s, status))
           /\ Learnt(s, status).limit = s.limit /\ Learnt(s, status).last = s.last
<1>1. /\ s.delay \in Nat /\ s.last \in Nat /\ s.limit \in Nat /\ s.streak \in Nat
      /\ s.ema \in {"none", "fast", "slow"}
      /\ s = [delay |-> s.delay, last |-> s.last, limit |-> s.limit,
              streak |-> s.streak, ema |-> s.ema]
  BY SpacingFields DEF Bounded
<1> USE ThrottleAssumption
<1>2. CASE status = "limited"
  <2> DEFINE delay == Earlier(MaxDelay, Later(2 * s.delay, Floor429))
  <2>1. delay \in MinDelay..MaxDelay
    BY <1>1 DEF Earlier, Later
  <2>2. Learnt(s, status) = [s EXCEPT !.delay = delay, !.streak = 0]
    BY <1>2 DEF Learnt, BackedOff
  <2> HIDE DEF delay
  <2>3. Learnt(s, status) = [delay |-> delay, last |-> s.last, limit |-> s.limit,
                             streak |-> 0, ema |-> s.ema]
    BY <1>1, <2>2
  <2> QED BY <1>1, <2>1, <2>3 DEF Bounded, Spacing
<1>3. CASE status = "error"
  BY <1>3 DEF Learnt
<1>4. CASE status = "fine"
  <2> DEFINE e == Eased(s)
  <2>1. Bounded(e) /\ e.limit = s.limit /\ e.last = s.last
    <3>1. CASE s.streak + 1 < StreakBeforeDecrease
      <4>1. e = [delay |-> s.delay, last |-> s.last, limit |-> s.limit,
                 streak |-> s.streak + 1, ema |-> s.ema]
        BY <1>1, <3>1 DEF Eased
      <4> HIDE DEF e
      <4> QED BY <1>1, <3>1, <4>1 DEF Bounded, Spacing
    <3>2. CASE ~(s.streak + 1 < StreakBeforeDecrease)
      <4> DEFINE delay == IF s.delay > MinDelay + Decrease THEN s.delay - Decrease
                          ELSE MinDelay
      <4>1. delay \in MinDelay..MaxDelay
        BY <1>1 DEF Bounded
      <4>2. e = [s EXCEPT !.streak = 0, !.delay = delay]
        BY <3>2 DEF Eased
      <4> HIDE DEF delay, e
      <4>3. e = [delay |-> delay, last |-> s.last, limit |-> s.limit,
                 streak |-> 0, ema |-> s.ema]
        BY <1>1, <4>2
      <4> QED BY <1>1, <4>1, <4>3 DEF Bounded, Spacing
    <3> QED BY <3>1, <3>2
  <2>2. e.delay \in MinDelay..MaxDelay \/ e.delay = 0
    BY <2>1 DEF Bounded
  <2>3. Learnt(s, status) = Widened(e)
    BY <1>4 DEF Learnt
  <2> HIDE DEF e
  <2>4. CASE e.ema = "slow"
    <3> DEFINE delay == Earlier(MaxDelay, e.delay + SlowBump)
    <3>1. delay \in MinDelay..MaxDelay \/ delay = 0
      BY <2>1, <2>2, SpacingFields DEF Earlier, Bounded
    <3>2. Widened(e) = [e EXCEPT !.delay = delay]
      BY <2>4 DEF Widened
    <3> HIDE DEF delay
    <3> QED BY <2>1, <2>3, <3>1, <3>2 DEF Bounded, Spacing
  <2>5. CASE e.ema # "slow"
    BY <2>1, <2>3, <2>5 DEF Widened
  <2> QED BY <2>4, <2>5
<1> QED BY <1>2, <1>3, <1>4 DEF Statuses

\* record() keeps every slot within its bounds; it forgets no reservation, and
\* shortens no Retry-After.
LEMMA Recorded ==
    ASSUME DownloadTypeOK, SpacingInv, NEW d \in Drivers, NEW outcome \in Outcomes,
           RecordOutcome(d, outcome)
    PROVE  /\ spacing' \in [Drivers -> Spacing] /\ SpacingInv'
           /\ UNCHANGED <<sleep, paced>>
           /\ \A e \in Drivers : /\ spacing'[e].limit >= spacing[e].limit
                                 /\ spacing'[e].last = spacing[e].last
<1>1. CASE outcome = "raised"
  <2>1. UNCHANGED <<spacing, sleep, paced>>
    BY <1>1 DEF RecordOutcome, throttleVars
  <2>2. \A e \in Drivers : spacing[e].limit \in Nat
    BY SpacingFields DEF DownloadTypeOK, ThrottleTypeOK
  <2> QED BY <2>1, <2>2 DEF SpacingInv, DownloadTypeOK, ThrottleTypeOK
<1>2. CASE outcome # "raised"
  <2>1. PICK status \in StatusesOf(outcome), latency \in {"fast", "slow"},
             after \in IF outcome = "none" THEN {0} ELSE RetryAfters :
          RecordAnswer(d, status, latency, after)
    BY <1>2 DEF RecordOutcome
  <2>2. UNCHANGED <<sleep, paced>>
    BY <1>2 DEF RecordOutcome
  <2>3. status \in Statuses /\ after \in Nat /\ clock \in Nat
    BY <1>2, <2>1, ThrottleAssumption
       DEF StatusesOf, Statuses, Outcomes, DownloadTypeOK, ClockTypeOK
  <2>4. PICK ema \in Averages(spacing[d].ema, latency) :
          LET learnt == Learnt([spacing[d] EXCEPT !.ema = ema], status)
          IN  spacing' = [spacing EXCEPT ![d] =
                  IF status = "fine" THEN learnt ELSE Held(learnt, after)]
    BY <2>1 DEF RecordAnswer
  <2> DEFINE s == [spacing[d] EXCEPT !.ema = ema]
             l == Learnt(s, status)
             new == IF status = "fine" THEN l ELSE Held(l, after)
  <2>5. Bounded(spacing[d])
    BY DEF SpacingInv
  <2>6. Bounded(s) /\ s.limit = spacing[d].limit /\ s.last = spacing[d].last
    <3>1. ema \in {"none", "fast", "slow"}
      BY <2>4, <2>5 DEF Averages, Bounded, Spacing
    <3> QED BY <2>5, <3>1 DEF Bounded, Spacing
  <2>7. spacing' = [spacing EXCEPT ![d] = new]
    BY <2>4
  <2> HIDE DEF s
  <2>8. Bounded(l) /\ l.limit = s.limit /\ l.last = s.last
    BY <2>3, <2>6, LearntBounded
  <2> HIDE DEF l
  <2>9. l.limit \in Nat
    BY <2>8, SpacingFields DEF Bounded
  <2>10. Bounded(new) /\ new.limit >= l.limit /\ new.last = l.last
    <3>1. CASE status = "fine"
      BY <2>8, <2>9, <3>1
    <3>2. CASE status # "fine"
      BY <2>3, <2>8, <3>2, HeldBounded
    <3> QED BY <3>1, <3>2
  <2> HIDE DEF new
  <2>11. spacing \in [Drivers -> Spacing]
    BY DEF DownloadTypeOK, ThrottleTypeOK
  <2>12. \A e \in Drivers : spacing'[e] = IF e = d THEN new ELSE spacing[e]
    BY <2>7, <2>11
  <2>13. spacing' \in [Drivers -> Spacing]
    BY <2>7, <2>10, <2>11 DEF Bounded
  <2>14. SpacingInv'
    BY <2>10, <2>12 DEF SpacingInv
  <2>15. \A e \in Drivers : spacing[e].limit \in Nat
    BY <2>11, SpacingFields
  <2>16. \A e \in Drivers : /\ spacing'[e].limit >= spacing[e].limit
                            /\ spacing'[e].last = spacing[e].last
    BY <2>6, <2>8, <2>10, <2>12, <2>15
  <2> QED BY <2>2, <2>13, <2>14, <2>16
<1> QED BY <1>1, <1>2

\* wait(): the sleeper leaves after all that are to leave, by at least the delay.
LEMMA Reserved ==
    ASSUME DownloadTypeOK, SpacingInv, SleepInv, NEW t \in Threads, NEW d \in Drivers,
           NEW jitter \in Jitters, Reserve(t, d, jitter)
    PROVE  ThrottleTypeOK' /\ SpacingInv' /\ SleepInv'
<1> DEFINE s == spacing[d]
           leave == LeavesAt(s, jitter)
<1>1. /\ spacing \in [Drivers -> Spacing] /\ clock \in Nat /\ jitter \in Nat
      /\ sleep \in [Threads -> [driver : Drivers, until : Nat, gap : Nat]]
      /\ paced \subseteq Threads
  BY ThrottleAssumption DEF DownloadTypeOK, ThrottleTypeOK, ClockTypeOK
<1>2. s.delay \in Nat /\ s.last \in Nat /\ s.limit \in Nat
  BY <1>1, SpacingFields
<1>3. leave \in Nat /\ leave >= s.last + s.delay
  BY <1>1, <1>2 DEF LeavesAt, Later
<1>4. /\ spacing' = [spacing EXCEPT ![d].last = leave]
      /\ sleep' = [sleep EXCEPT ![t] = [driver |-> d, until |-> leave, gap |-> s.delay]]
      /\ paced' = paced \union {t}
  BY DEF Reserve
<1> HIDE DEF leave
<1>5. [s EXCEPT !.last = leave] \in Spacing
  BY <1>1, <1>3 DEF Spacing
<1>6. /\ spacing' = [spacing EXCEPT ![d] = [s EXCEPT !.last = leave]]
      /\ spacing' \in [Drivers -> Spacing]
  BY <1>1, <1>4, <1>5
<1>7. ThrottleTypeOK'
  BY <1>1, <1>2, <1>3, <1>4, <1>6 DEF ThrottleTypeOK
<1>8. Bounded([s EXCEPT !.last = leave])
  BY <1>5 DEF SpacingInv, Bounded, Spacing
<1>9. SpacingInv'
  BY <1>1, <1>6, <1>8 DEF SpacingInv
<1>10. /\ \A e \in Drivers : spacing'[e].last = IF e = d THEN leave ELSE spacing[e].last
       /\ \A u \in Threads : sleep'[u] = IF u = t
                 THEN [driver |-> d, until |-> leave, gap |-> s.delay] ELSE sleep[u]
       /\ \A u \in Threads : /\ sleep[u].driver \in Drivers /\ sleep[u].until \in Nat
                             /\ sleep[u].gap \in Nat
  BY <1>1, <1>4, <1>5, <1>6 DEF Spacing
<1>11. \A u \in paced : sleep[u].driver = d => sleep[u].until <= s.last
  BY DEF SleepInv
<1>12. \A u \in paced' : sleep'[u].until <= spacing'[sleep'[u].driver].last
  <2> TAKE u \in paced'
  <2>1. CASE u = t
    BY <1>3, <1>10, <2>1
  <2>2. CASE u # t
    <3>1. u \in paced /\ u \in Threads /\ sleep'[u] = sleep[u]
      BY <1>1, <1>4, <1>10, <2>2
    <3>2. sleep[u].until <= spacing[sleep[u].driver].last
      BY <3>1 DEF SleepInv
    <3>3. CASE sleep[u].driver = d
      BY <1>2, <1>3, <1>10, <3>1, <3>2, <3>3
    <3>4. CASE sleep[u].driver # d
      BY <1>10, <3>1, <3>2, <3>4
    <3> QED BY <3>3, <3>4
  <2> QED BY <2>1, <2>2
<1>13. SleepersSpaced'
  <2> SUFFICES ASSUME NEW u \in paced', NEW v \in paced', u # v,
                      sleep'[u].driver = sleep'[v].driver,
                      sleep'[u].until <= sleep'[v].until
               PROVE  sleep'[v].until - sleep'[u].until
                        >= Earlier(sleep'[u].gap, sleep'[v].gap)
    BY DEF SleepersSpaced
  <2>1. CASE u # t /\ v # t
    BY <1>1, <1>4, <1>10, <2>1 DEF SleepInv, SleepersSpaced
  <2>2. CASE v = t
    BY <1>1, <1>2, <1>3, <1>4, <1>10, <1>11, <2>2 DEF Earlier
  <2>3. CASE u = t
    BY <1>1, <1>2, <1>3, <1>4, <1>10, <1>11, <2>3 DEF Earlier
  <2> QED BY <2>1, <2>2, <2>3
<1> QED BY <1>7, <1>9, <1>12, <1>13 DEF SleepInv

-----------------------------------------------------------------------------
\* The jobs and the dicts
LEMMA NoJobTyped == NoJob \in Jobs
<1>1. (CHOOSE m \in Metas : TRUE) \in Metas
  BY DownloadAssumption
<1> QED BY <1>1, DownloadAssumption DEF NoJob, Jobs, Outcomes, Ends

LEMMA AwakeTyped == Awake \in [driver : Drivers, until : Nat, gap : Nat]
<1>1. (CHOOSE d \in Drivers : TRUE) \in Drivers
  BY DownloadAssumption
<1> QED BY <1>1 DEF Awake

LEMMA NewSpacingBounded == Bounded(NewSpacing)
  BY ThrottleAssumption DEF Bounded, NewSpacing, Spacing

LEMMA PrimaryIsDriver ==
    ASSUME NEW driver PROVE Primary(driver) \in Drivers
  BY DownloadAssumption DEF Primary

LEMMA DefaultedTyped ==
    ASSUME NEW c \in Contents
    PROVE  /\ Defaulted(c) \in Contents
           /\ Defaulted(c).done = c.done /\ Defaulted(c).escalated = c.escalated
  BY DEF Defaulted, Contents

LEMMA DownloadStart == DownloadInit => DownloadInv
<1> SUFFICES ASSUME DownloadInit PROVE DownloadInv
    OBVIOUS
<1>1. \A d \in Drivers : spacing[d] = NewSpacing
  BY DEF DownloadInit, ThrottleInit
<1>2. ThrottleTypeOK
  BY AwakeTyped, NewSpacingBounded DEF DownloadInit, ThrottleInit, ThrottleTypeOK, Bounded
<1>3. /\ meta \in [Metas -> Contents]
      /\ \A m \in Metas : ~meta[m].done /\ meta[m].escalated = 0
  <2> DEFINE Fresh == [driver : Drivers \union {AutoDriver, NoDriver, Unknown},
                       fallback : BOOLEAN, done : {FALSE}, escalated : {0}]
  <2>1. ASSUME NEW c \in Fresh
        PROVE  c \in Contents /\ ~c.done /\ c.escalated = 0
    <3>1. c.done \in {FALSE} /\ c.escalated \in {0}
      BY Zenon
    <3>2. c.done = FALSE
      BY <3>1, Zenon
    <3>3. Fresh \subseteq [driver : Drivers \union {AutoDriver, NoDriver, Unknown},
                          fallback : BOOLEAN, done : BOOLEAN, escalated : {0}]
      BY Zenon
    <3> HIDE DEF Fresh
    <3>4. c \in Contents
      BY <3>3 DEF Contents
    <3> QED BY <3>1, <3>2, <3>4
  <2>2. meta \in [Metas -> Fresh]
    BY DEF DownloadInit
  <2> HIDE DEF Fresh
  <2> QED BY <2>1, <2>2
<1>4. DownloadTypeOK
  BY <1>2, <1>3, NoJobTyped
     DEF DownloadInit, ClockInit, DownloadTypeOK, ClockTypeOK
<1>5. SpacingInv
  BY <1>1, NewSpacingBounded DEF SpacingInv
<1>6. SleepInv /\ ResponseKept
  BY DEF DownloadInit, ThrottleInit, SleepInv, SleepersSpaced, ResponseKept
<1>7. MarkInv
  BY <1>3 DEF MarkInv
<1> QED BY <1>4, <1>5, <1>6, <1>7 DEF DownloadInv

\* What a step that leaves the throttle alone has still to show
LEMMA ThrottleAlone ==
    ASSUME DownloadInv, UNCHANGED throttleVars
    PROVE  ThrottleTypeOK' /\ SpacingInv' /\ SleepInv'
  BY DEF DownloadInv, DownloadTypeOK, throttleVars, ThrottleTypeOK, SpacingInv, SleepInv,
         SleepersSpaced

LEMMA DownloadStep == DownloadInv /\ [DownloadNext]_downloadVars => DownloadInv'
<1> SUFFICES ASSUME DownloadInv, [DownloadNext]_downloadVars PROVE DownloadInv'
    OBVIOUS
<1> USE DEF Go
<1>0. /\ DownloadTypeOK /\ SpacingInv /\ SleepInv /\ MarkInv /\ ResponseKept
      /\ meta \in [Metas -> Contents] /\ job \in [Threads -> Jobs]
      /\ pc \in [Threads -> {"idle", "wait", "asleep", "fetch", "answered", "ended"}]
      /\ clock \in Nat \ {0} /\ begun \in Nat /\ opened \in Nat /\ ThrottleTypeOK
      /\ made \subseteq Drivers
  BY DEF DownloadInv, DownloadTypeOK, ClockTypeOK
<1>1. ASSUME NEW t \in Threads, BeginRequest(t) PROVE DownloadInv'
  <2>1. PICK m \in Metas :
          LET primary == Primary(Defaulted(meta[m]).driver)
              new == [NoJob EXCEPT !.meta = m, !.primary = primary, !.driver = primary]
          IN  /\ meta' = [meta EXCEPT ![m] = Defaulted(@)]
              /\ \/ Made(primary) /\ job' = [job EXCEPT ![t] = new] /\ Go(t, "wait")
                 \/ /\ Unmade(primary) /\ Go(t, "ended")
                    /\ job' = [job EXCEPT ![t] = [new EXCEPT !.result = "unmade"]]
    BY <1>1 DEF BeginRequest
  <2> DEFINE primary == Primary(Defaulted(meta[m]).driver)
             new == [NoJob EXCEPT !.meta = m, !.primary = primary, !.driver = primary]
             failed == [new EXCEPT !.result = "unmade"]
  <2>2. meta' \in [Metas -> Contents]
    BY <1>0, <2>1, DefaultedTyped
  <2>3. primary \in Drivers
    BY PrimaryIsDriver
  <2>4. new \in Jobs /\ new.first = "none"
    BY <2>3, NoJobTyped DEF Jobs, NoJob
  <2>5. MarkInv'
    BY <1>0, <2>1, DefaultedTyped DEF MarkInv
  <2>6. /\ made' \subseteq Drivers
        /\ \/ job' = [job EXCEPT ![t] = new] /\ pc' = [pc EXCEPT ![t] = "wait"]
           \/ job' = [job EXCEPT ![t] = failed] /\ pc' = [pc EXCEPT ![t] = "ended"]
    BY <1>0, <2>1, <2>3 DEF Made, Unmade
  <2> HIDE DEF new
  <2>7. failed \in Jobs /\ failed.first = "none"
    BY <2>4 DEF Jobs, Ends
  <2> HIDE DEF failed
  <2>8. job' \in [Threads -> Jobs] /\ \A u \in Threads : u # t => job'[u] = job[u]
    BY <1>0, <2>4, <2>6, <2>7
  <2>9. job'[t].first = "none"
    BY <1>0, <2>4, <2>6, <2>7
  <2>10. ResponseKept'
    BY <1>0, <2>6, <2>8, <2>9 DEF ResponseKept, Answers
  <2>11. ThrottleTypeOK' /\ SpacingInv' /\ SleepInv'
    BY <1>1, ThrottleAlone DEF BeginRequest
  <2>12. DownloadTypeOK'
    BY <1>0, <1>1, <2>2, <2>6, <2>8, <2>11
       DEF BeginRequest, DownloadTypeOK, ClockTypeOK
  <2> QED BY <2>5, <2>10, <2>11, <2>12 DEF DownloadInv
<1>2. ASSUME NEW t \in Threads, Wait(t) PROVE DownloadInv'
  <2>1. job[t].driver \in Drivers
    BY <1>0 DEF Jobs
  <2>2. PICK jitter \in Jitters : Reserve(t, job[t].driver, jitter)
    BY <1>2 DEF Wait
  <2>3. ThrottleTypeOK' /\ SpacingInv' /\ SleepInv'
    BY <1>0, <2>1, <2>2, Reserved
  <2>4. DownloadTypeOK'
    BY <1>0, <1>2, <2>3 DEF Wait, DownloadTypeOK, ClockTypeOK
  <2>5. MarkInv' /\ ResponseKept'
    BY <1>0, <1>2 DEF Wait, MarkInv, ResponseKept
  <2> QED BY <2>3, <2>4, <2>5 DEF DownloadInv
<1>3. ASSUME NEW t \in Threads, Leave(t) PROVE DownloadInv'
  <2>1. /\ sleep' = [sleep EXCEPT ![t] = Awake] /\ paced' = paced \ {t}
        /\ UNCHANGED <<spacing, clock, meta, job, made, begun, opened>>
    BY <1>3 DEF Leave, WakeUp
  <2>2. ThrottleTypeOK'
    BY <1>0, <2>1, AwakeTyped DEF ThrottleTypeOK
  <2>3. SleepInv'
    <3>1. \A u \in paced' : u \in paced /\ sleep'[u] = sleep[u]
      BY <1>0, <2>1 DEF ThrottleTypeOK
    <3> QED BY <1>0, <2>1, <3>1 DEF SleepInv, SleepersSpaced
  <2>4. DownloadTypeOK'
    BY <1>0, <1>3, <2>1, <2>2 DEF Leave, DownloadTypeOK, ClockTypeOK
  <2>5. MarkInv' /\ ResponseKept' /\ SpacingInv'
    BY <1>0, <1>3, <2>1 DEF Leave, MarkInv, ResponseKept, SpacingInv
  <2> QED BY <2>3, <2>4, <2>5 DEF DownloadInv
<1>4. ASSUME NEW t \in Threads, Answer(t) PROVE DownloadInv'
  <2>1. PICK outcome \in Outcomes :
          /\ RecordOutcome(job[t].driver, outcome)
          /\ job' = [job EXCEPT ![t].first = outcome]
    BY <1>4 DEF Answer
  <2>2. job[t].driver \in Drivers /\ [job[t] EXCEPT !.first = outcome] \in Jobs
    BY <1>0 DEF Jobs
  <2>3. /\ spacing' \in [Drivers -> Spacing] /\ SpacingInv'
        /\ UNCHANGED <<sleep, paced>>
        /\ \A e \in Drivers : spacing'[e].last = spacing[e].last
    BY <1>0, <2>1, <2>2, Recorded
  <2>4. ThrottleTypeOK' /\ SleepInv'
    BY <1>0, <2>3 DEF ThrottleTypeOK, SleepInv, SleepersSpaced
  <2>5. job' \in [Threads -> Jobs]
    BY <1>0, <2>1, <2>2
  <2>6. DownloadTypeOK'
    BY <1>0, <1>4, <2>4, <2>5 DEF Answer, DownloadTypeOK, ClockTypeOK
  <2>7. MarkInv' /\ ResponseKept'
    BY <1>0, <1>4, <2>1 DEF Answer, MarkInv, ResponseKept
  <2> QED BY <2>3, <2>4, <2>6, <2>7 DEF DownloadInv
<1>5. ASSUME NEW t \in Threads, Return(t) PROVE DownloadInv'
  <2>1. job[t].first \in Outcomes /\ [job[t] EXCEPT !.result = job[t].first] \in Jobs
    BY <1>0 DEF Jobs, Ends
  <2>2. /\ job' = [job EXCEPT ![t] = [job[t] EXCEPT !.result = job[t].first]]
        /\ job' \in [Threads -> Jobs]
    BY <1>0, <1>5, <2>1 DEF Return
  <2>3. ThrottleTypeOK' /\ SpacingInv' /\ SleepInv'
    BY <1>5, ThrottleAlone DEF Return
  <2>4. DownloadTypeOK'
    BY <1>0, <1>5, <2>2, <2>3 DEF Return, DownloadTypeOK, ClockTypeOK
  <2>5. MarkInv'
    BY <1>0, <1>5 DEF Return, MarkInv
  <2>6. ResponseKept'
    BY <1>0, <1>5, <2>2 DEF Return, ResponseKept, Jobs
  <2> QED BY <2>3, <2>4, <2>5, <2>6 DEF DownloadInv
<1>6. ASSUME NEW t \in Threads, Escalate(t) PROVE DownloadInv'
  <2> DEFINE m == job[t].meta
  <2>1. m \in Metas /\ [job[t] EXCEPT !.driver = Browser] \in Jobs
    BY <1>0, DownloadAssumption DEF Jobs
  <2>2. ~meta[m].done
    BY <1>6 DEF Escalate, ShouldFallBack
  <2>3. Marked(meta[m]) \in Contents /\ Marked(meta[m]).done
    <3> DEFINE c == meta[m]
               e == Escalated(c)
    <3>1. c \in Contents
      BY <1>0, <2>1
    <3>2. e = [c EXCEPT !.escalated = @ + 1]
      BY DEF Escalated
    <3> HIDE DEF c, e
    <3>3. e \in Contents
      BY <3>1, <3>2 DEF Contents
    <3>4. [e EXCEPT !.done = TRUE] \in Contents /\ [e EXCEPT !.done = TRUE].done
      BY <3>3 DEF Contents
    <3> QED BY <3>4 DEF Marked, e, c
  <2>4. Marked(meta[m]).escalated = 1
    <3>1. meta[m].escalated = 0 /\ meta[m] \in Contents
      BY <1>0, <2>1, <2>2 DEF MarkInv
    <3> QED BY <3>1 DEF Marked, Escalated, Contents
  <2>5. meta' = [meta EXCEPT ![m] = Marked(meta[m])]
    BY <1>0, <1>6, <2>1 DEF Escalate
  <2>6. meta' \in [Metas -> Contents] /\ MarkInv'
    BY <1>0, <2>1, <2>3, <2>4, <2>5 DEF MarkInv
  <2> DEFINE next == [job[t] EXCEPT !.driver = Browser]
             failed == [job[t] EXCEPT !.result = "unmade"]
  <2>7. /\ made' \subseteq Drivers
        /\ \/ job' = [job EXCEPT ![t] = next] /\ pc' = [pc EXCEPT ![t] = "wait"]
           \/ job' = [job EXCEPT ![t] = failed] /\ pc' = [pc EXCEPT ![t] = "ended"]
    BY <1>0, <1>6, DownloadAssumption DEF Escalate, Made, Unmade
  <2>11. next \in Jobs /\ failed \in Jobs /\ failed.result = "unmade"
    BY <1>0, <2>1 DEF Jobs, Ends
  <2> HIDE DEF next, failed
  <2>12. /\ job' \in [Threads -> Jobs]
         /\ \A u \in Threads : u # t => job'[u] = job[u] /\ pc'[u] = pc[u]
         /\ pc'[t] = "ended" => job'[t].result = "unmade"
    BY <1>0, <2>7, <2>11
  <2>8. ThrottleTypeOK' /\ SpacingInv' /\ SleepInv'
    BY <1>6, ThrottleAlone DEF Escalate
  <2>9. DownloadTypeOK'
    BY <1>0, <1>6, <2>6, <2>7, <2>8, <2>12 DEF Escalate, DownloadTypeOK, ClockTypeOK
  <2>10. ResponseKept'
    BY <1>0, <2>12 DEF ResponseKept
  <2> QED BY <2>6, <2>8, <2>9, <2>10 DEF DownloadInv
<1>7. ASSUME NEW t \in Threads, AnswerRetry(t) PROVE DownloadInv'
  <2>1. PICK outcome \in Outcomes :
          /\ RecordOutcome(Browser, outcome)
          /\ job' = [job EXCEPT ![t].result = Kept(job[t].first, outcome)]
    BY <1>7 DEF AnswerRetry
  <2> DEFINE kept == Kept(job[t].first, outcome)
  <2>2. /\ Browser \in Drivers
        /\ kept \in Ends
        /\ job[t].first \in Answers => kept \in Answers
    BY <1>0, DownloadAssumption DEF Jobs, Kept, Ends
  <2> HIDE DEF kept
  <2>3. /\ spacing' \in [Drivers -> Spacing] /\ SpacingInv'
        /\ UNCHANGED <<sleep, paced>>
        /\ \A e \in Drivers : spacing'[e].last = spacing[e].last
    BY <1>0, <2>1, <2>2, Recorded
  <2>4. ThrottleTypeOK' /\ SleepInv'
    BY <1>0, <2>3 DEF ThrottleTypeOK, SleepInv, SleepersSpaced
  <2>5. [job[t] EXCEPT !.result = kept] \in Jobs
    BY <1>0, <2>2 DEF Jobs
  <2>6. /\ job' = [job EXCEPT ![t] = [job[t] EXCEPT !.result = kept]]
        /\ job' \in [Threads -> Jobs]
    BY <1>0, <2>1, <2>5 DEF kept
  <2>7. DownloadTypeOK'
    BY <1>0, <1>7, <2>4, <2>6 DEF AnswerRetry, DownloadTypeOK, ClockTypeOK
  <2>8. MarkInv'
    BY <1>0, <1>7 DEF AnswerRetry, MarkInv
  <2>9. ResponseKept'
    <3>1. job'[t].result = kept /\ job'[t].first = job[t].first
      BY <1>0, <2>6 DEF Jobs
    <3>2. \A u \in Threads : u # t => job'[u] = job[u] /\ pc'[u] = pc[u]
      BY <1>0, <1>7, <2>6 DEF AnswerRetry
    <3> QED BY <1>0, <2>2, <3>1, <3>2 DEF ResponseKept
  <2> QED BY <2>3, <2>4, <2>7, <2>8, <2>9 DEF DownloadInv
<1>8. CASE OpenSpider
  <2>1. /\ spacing' = [d \in Drivers |-> NewSpacing] /\ paced' = {}
        /\ UNCHANGED <<sleep, clock, meta, pc, job, made, begun>>
        /\ opened' = opened + 1
    BY <1>8 DEF OpenSpider, ResetThrottle
  <2>2. ThrottleTypeOK' /\ SpacingInv' /\ SleepInv'
    BY <1>0, <2>1, NewSpacingBounded
       DEF ThrottleTypeOK, SpacingInv, SleepInv, SleepersSpaced, Bounded
  <2>3. DownloadTypeOK'
    BY <1>0, <2>1, <2>2 DEF DownloadTypeOK, ClockTypeOK
  <2>4. MarkInv' /\ ResponseKept'
    BY <1>0, <2>1 DEF MarkInv, ResponseKept
  <2> QED BY <2>2, <2>3, <2>4 DEF DownloadInv
<1>9. CASE DownloadTick
  <2>1. UNCHANGED <<throttleVars, meta, pc, job, made, begun, opened>> /\ clock' = clock + 1
    BY <1>9 DEF DownloadTick, ClockTick
  <2>2. ThrottleTypeOK' /\ SpacingInv' /\ SleepInv'
    BY <2>1, ThrottleAlone
  <2>3. DownloadTypeOK'
    BY <1>0, <2>1, <2>2 DEF DownloadTypeOK, ClockTypeOK
  <2>4. MarkInv' /\ ResponseKept'
    BY <1>0, <2>1 DEF MarkInv, ResponseKept
  <2> QED BY <2>2, <2>3, <2>4 DEF DownloadInv
<1>10. CASE UNCHANGED downloadVars
  <2>1. UNCHANGED <<throttleVars, clock, meta, pc, job, made, begun, opened>>
    BY <1>10 DEF downloadVars
  <2>2. ThrottleTypeOK' /\ SpacingInv' /\ SleepInv'
    BY <2>1, ThrottleAlone
  <2>3. DownloadTypeOK'
    BY <1>0, <2>1, <2>2 DEF DownloadTypeOK, ClockTypeOK
  <2>4. MarkInv' /\ ResponseKept'
    BY <1>0, <2>1 DEF MarkInv, ResponseKept
  <2> QED BY <2>2, <2>3, <2>4 DEF DownloadInv
<1>11. ASSUME NEW t \in Threads, Cancel(t) PROVE DownloadInv'
  <2> DEFINE new == [job[t] EXCEPT !.result = "cancelled"]
  <2>1. new \in Jobs /\ new.result = "cancelled"
    BY <1>0 DEF Jobs, Ends
  <2>2. job' = [job EXCEPT ![t] = new]
    BY <1>0, <1>11 DEF Cancel
  <2> HIDE DEF new
  <2>3. /\ job' \in [Threads -> Jobs] /\ job'[t].result = "cancelled"
        /\ \A u \in Threads : u # t => job'[u] = job[u] /\ pc'[u] = pc[u]
    BY <1>0, <1>11, <2>1, <2>2 DEF Cancel
  <2>4. ThrottleTypeOK' /\ SpacingInv' /\ SleepInv'
    BY <1>11, ThrottleAlone DEF Cancel
  <2>5. pc' \in [Threads -> {"idle", "wait", "asleep", "fetch", "answered", "ended"}]
    BY <1>0, <1>11 DEF Cancel
  <2>6. DownloadTypeOK'
    BY <1>0, <1>11, <2>3, <2>4, <2>5 DEF Cancel, DownloadTypeOK, ClockTypeOK
  <2>7. MarkInv'
    BY <1>0, <1>11 DEF Cancel, MarkInv
  <2>8. ResponseKept'
    BY <1>0, <2>3 DEF ResponseKept
  <2> QED BY <2>4, <2>6, <2>7, <2>8 DEF DownloadInv
<1>12. ASSUME NEW t \in Threads, AnswerNobody(t) PROVE DownloadInv'
  <2>1. PICK outcome \in Outcomes : RecordOutcome(job[t].driver, outcome)
    BY <1>12 DEF AnswerNobody
  <2>2. job[t].driver \in Drivers /\ job[t].result = "cancelled"
    BY <1>0, <1>12 DEF Jobs, AnswerNobody, Cancelled
  <2>3. /\ spacing' \in [Drivers -> Spacing] /\ SpacingInv'
        /\ UNCHANGED <<sleep, paced>>
        /\ \A e \in Drivers : spacing'[e].last = spacing[e].last
    BY <1>0, <2>1, <2>2, Recorded
  <2>4. ThrottleTypeOK' /\ SleepInv'
    BY <1>0, <2>3 DEF ThrottleTypeOK, SleepInv, SleepersSpaced
  <2>5. DownloadTypeOK'
    BY <1>0, <1>12, <2>4 DEF AnswerNobody, DownloadTypeOK, ClockTypeOK
  <2>6. MarkInv' /\ ResponseKept'
    BY <1>0, <1>12, <2>2 DEF AnswerNobody, MarkInv, ResponseKept
  <2> QED BY <2>3, <2>4, <2>5, <2>6 DEF DownloadInv
<1> QED BY <1>1, <1>2, <1>3, <1>4, <1>5, <1>6, <1>7, <1>8, <1>9, <1>10, <1>11, <1>12
        DEF DownloadNext, Request

LEMMA DownloadIsInductive == DownloadSpec => []DownloadInv
  BY DownloadStart, DownloadStep, PTL DEF DownloadSpec

-----------------------------------------------------------------------------
\* The variables of the middleware and of the throttle have their types.
THEOREM DownloadTypeCorrect == DownloadSpec => []DownloadTypeOK
<1>1. DownloadInv => DownloadTypeOK
  BY DEF DownloadInv
<1> QED BY <1>1, DownloadIsInductive, PTL

\* The spacing of a driver stays between _MIN_DELAY_S and _MAX_DELAY_S once there
\* is one, whatever the site answers.
THEOREM DelayIsBounded == DownloadSpec => []DelayBounded
<1>1. DownloadInv => DelayBounded
  BY DEF DownloadInv, SpacingInv, Bounded, DelayBounded
<1> QED BY <1>1, DownloadIsInductive, PTL

\* Threads that sleep in wait() on the same slot leave at least the delay apart.
THEOREM SleepersLeaveApart == DownloadSpec => []SleepersSpaced
<1>1. DownloadInv => SleepersSpaced
  BY DEF DownloadInv, SleepInv
<1> QED BY <1>1, DownloadIsInductive, PTL

\* should_driver_fallback sends a stealth dict to the browser once at most.
THEOREM EscalatesOnce == DownloadSpec => []EscalatedOnce
<1>1. DownloadInv => EscalatedOnce
  BY DEF DownloadInv, MarkInv, EscalatedOnce
<1> QED BY <1>1, DownloadIsInductive, PTL

\* process_request loses the primary engine's response to nothing the browser's fetch
\* does; only making that engine, or a cancellation, loses it.
THEOREM ResponseIsKept == DownloadSpec => []ResponseKept
<1>1. DownloadInv => ResponseKept
  BY DEF DownloadInv
<1> QED BY <1>1, DownloadIsInductive, PTL

\* record() brings no Retry-After forward; only a spider that opens does.
THEOREM RetryAfterIsKept == DownloadSpec => RetryAfterNeverShortened
<1> DEFINE Never == opened' = opened =>
                      \A d \in Drivers : spacing'[d].limit >= spacing[d].limit
<1>1. DownloadInv /\ [DownloadNext]_downloadVars => [Never]_downloadVars
  <2> SUFFICES ASSUME DownloadInv, [DownloadNext]_downloadVars, opened' = opened,
                      NEW d \in Drivers
               PROVE  spacing'[d].limit >= spacing[d].limit
      OBVIOUS
  <2>1. /\ DownloadTypeOK /\ SpacingInv /\ spacing \in [Drivers -> Spacing]
        /\ job \in [Threads -> Jobs] /\ opened \in Nat
    BY DEF DownloadInv, DownloadTypeOK, ThrottleTypeOK
  <2>2. spacing[d].limit \in Nat
    BY <2>1, SpacingFields
  <2>3. CASE spacing' = spacing
    BY <2>2, <2>3
  <2>4. ASSUME NEW t \in Threads, Wait(t) PROVE spacing'[d].limit >= spacing[d].limit
    BY <2>1, <2>2, <2>4 DEF Wait, Reserve, Spacing
  <2>5. ASSUME NEW t \in Threads, Answer(t) \/ AnswerRetry(t) \/ AnswerNobody(t)
        PROVE  spacing'[d].limit >= spacing[d].limit
    <3>1. PICK e \in Drivers, outcome \in Outcomes : RecordOutcome(e, outcome)
      BY <2>1, <2>5, DownloadAssumption DEF Answer, AnswerRetry, AnswerNobody, Jobs
    <3> QED BY <2>1, <3>1, Recorded
  <2>6. CASE OpenSpider
    BY <2>1, <2>6 DEF OpenSpider
  <2> QED BY <2>3, <2>4, <2>5, <2>6
          DEF DownloadNext, Request, BeginRequest, Leave, WakeUp, Return, Escalate, Cancel,
              DownloadTick, downloadVars, throttleVars
<1>2. DownloadSpec => [][Never]_downloadVars
  BY <1>1, DownloadIsInductive, PTL DEF DownloadSpec
<1> QED BY <1>2 DEF RetryAfterNeverShortened

=============================================================================
