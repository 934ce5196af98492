----------------------------- MODULE BanStreak -----------------------------
(***************************************************************************)
(* BanStreakTracker (utils/browser/session.py): the counter of consecutive *)
(* banned responses that one engine shares between its threads.  record()  *)
(* answers True to at most one thread per ban wave; that thread recycles   *)
(* the sessions, or the browser, and calls acknowledge_restart().          *)
(*                                                                         *)
(* Both calls run under the tracker's lock, so each is one action.  The    *)
(* engines extend this module and use the actions as steps of their own.   *)
(***************************************************************************)
EXTENDS Runtime, FiniteSets

CONSTANTS RecycleAfterBans,  \* STEALTH_RECYCLE_AFTER_BANS
          RecycleCooldown,   \* STEALTH_RECYCLE_COOLDOWN_S
          MaxStreak          \* bound: no ban is recorded beyond this streak

ASSUME RecycleAssumption ==
    /\ RecycleAfterBans \in Nat \ {0}
    /\ RecycleCooldown \in Nat
    /\ MaxStreak \in Nat

VARIABLES streak,       \* _streak
          restartDue,   \* _restart_due
          claimed,      \* _claimed
          lastRestart,  \* _last_restart; 0 stands for "never", as in the code
          holders       \* threads told True that have not acknowledged since

trackerVars == <<streak, restartDue, claimed, lastRestart, holders>>

TrackerTypeOK ==
    /\ streak \in Nat
    /\ restartDue \in BOOLEAN
    /\ claimed \in BOOLEAN
    /\ lastRestart \in Nat
    /\ holders \subseteq Threads

TrackerInit ==
    /\ streak = 0
    /\ restartDue = FALSE
    /\ claimed = FALSE
    /\ lastRestart = 0
    /\ holders = {}

-----------------------------------------------------------------------------
\* The cooldown since the last restart is over, or there was no restart yet.
CooldownOverNever == TRUE
CooldownOver == lastRestart = 0 \/ clock - lastRestart >= RecycleCooldown

\* What record() decides for a ban that makes the streak `n` long.
ClaimsEveryBan(n) == (restartDue \/ n >= RecycleAfterBans) /\ CooldownOver
Claims(n) == /\ restartDue \/ n >= RecycleAfterBans
             /\ ~claimed
             /\ CooldownOver

\* record(banned=True); the caller is told whether it is the one to recycle.
RecordBan(t) ==
    /\ streak < MaxStreak
    /\ streak' = streak + 1
    /\ restartDue' = (restartDue \/ streak' >= RecycleAfterBans)
    /\ claimed' = (claimed \/ Claims(streak + 1))
    /\ holders' = IF Claims(streak + 1) THEN holders \union {t} ELSE holders
    /\ UNCHANGED lastRestart

\* record(banned=False)
RecordCleanDecays ==
    /\ streak' = streak - 1
    /\ restartDue' = FALSE
    /\ UNCHANGED <<claimed, lastRestart, holders>>
RecordClean ==
    /\ streak' = 0
    /\ restartDue' = FALSE
    /\ UNCHANGED <<claimed, lastRestart, holders>>

\* acknowledge_restart()
AcknowledgeRestart(t) ==
    /\ streak' = 0
    /\ restartDue' = FALSE
    /\ claimed' = FALSE
    /\ lastRestart' = clock
    /\ holders' = holders \ {t}

-----------------------------------------------------------------------------
\* One recycle at a time: the flag says exactly whether a thread has been told
\* to recycle and has not acknowledged, and there is never a second such thread
\* (session.py:66, "only the first caller gets True until acknowledge_restart()
\* completes").
ClaimExclusive ==
    /\ claimed <=> holders # {}
    /\ \A t, u \in holders : t = u
=============================================================================
