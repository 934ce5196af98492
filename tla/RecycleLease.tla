---------------------------- MODULE RecycleLease ----------------------------
(***************************************************************************)
(* What the ban-streak tracker promises the engines, with the counting     *)
(* left out: recycling is a lease.  One thread holds it at a time, and a   *)
(* thread that takes it does so at least Cooldown after it was last given  *)
(* back (STEALTH_RECYCLE_COOLDOWN_S, constants.py: "minimum seconds        *)
(* between ban-triggered restarts / session recycles").                    *)
(***************************************************************************)
EXTENDS Naturals

CONSTANTS Threads, Cooldown

VARIABLES holders,   \* the threads that hold the lease
          released,  \* when it was last given back, 0 if it never was
          clock

vars == <<holders, released, clock>>

Init ==
    /\ holders = {}
    /\ released = 0
    /\ clock = 1

Take(t) ==
    /\ holders = {}
    /\ released = 0 \/ clock - released >= Cooldown
    /\ holders' = {t}
    /\ UNCHANGED <<released, clock>>

GiveBack(t) ==
    /\ holders = {t}
    /\ holders' = {}
    /\ released' = clock
    /\ UNCHANGED clock

Tick ==
    /\ clock' = clock + 1
    /\ UNCHANGED <<holders, released>>

Next ==
    \/ Tick
    \/ \E t \in Threads : Take(t) \/ GiveBack(t)

Spec == Init /\ [][Next]_vars
=============================================================================
