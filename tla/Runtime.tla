------------------------------ MODULE Runtime ------------------------------
(***************************************************************************)
(* What every component of scrapy_stealth runs on: the worker threads of   *)
(* the executor that BaseEngine.fetch hands requests to, and the clock     *)
(* time.monotonic() that cooldowns are measured with.                      *)
(***************************************************************************)
EXTENDS Naturals

CONSTANTS Threads,    \* the executor's worker threads
          MaxClock    \* bound: the last instant a behaviour reaches

ASSUME MaxClockAssumption == MaxClock \in Nat

VARIABLE clock    \* time.monotonic(), in whole units; it starts past 0.0

ClockTypeOK == clock \in Nat \ {0}

ClockInit == clock = 1

\* Time passes for everybody.
ClockTick == clock < MaxClock /\ clock' = clock + 1
=============================================================================
