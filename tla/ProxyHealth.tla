---------------------------- MODULE ProxyHealth ----------------------------
(***************************************************************************)
(* ProxyHealthRegistry (strategies/proxy_health.py): per proxy and domain, *)
(* counts of good and bad responses and a circuit breaker that keeps a     *)
(* proxy off the pool for a while; and pick(), which chooses a proxy.      *)
(*                                                                         *)
(* record() runs under the registry's lock and is one action.  pick() does *)
(* not: it calls is_available() and score() for one proxy after another,   *)
(* and each call takes and releases the lock (score() twice), so a pick is *)
(* a sequence of steps between which other threads record, time passes     *)
(* and the registry may be reset.  A slot the dict does not hold yet and a *)
(* fresh slot read the same, so `slots` is total.                          *)
(***************************************************************************)
EXTENDS Runtime, Integers, FiniteSetsExt

CONSTANTS HealthOn,       \* STEALTH_PROXY_HEALTH
          Proxies,        \* every proxy a request may go through
          Pool,           \* STEALTH_PROXIES, the ones pick() is given
          NoProxy,        \* None
          Domains,        \* hosts of the requests
          NoDomain,       \* None: a pick that is not for a domain
          CircuitAfter,   \* STEALTH_PROXY_CIRCUIT_AFTER
          ProxyCooldown,  \* STEALTH_PROXY_COOLDOWN_S
          MaxRecords      \* bound: responses counted per proxy and domain

ASSUME ProxyHealthAssumption ==
    /\ HealthOn \in BOOLEAN
    /\ IsFiniteSet(Proxies) /\ Pool \subseteq Proxies
    /\ NoProxy \notin Proxies
    /\ IsFiniteSet(Domains) /\ NoDomain \notin Domains
    /\ CircuitAfter \in Nat \ {0}
    /\ ProxyCooldown \in Nat \ {0}
    /\ MaxRecords \in Nat

VARIABLES slots,  \* _slots: <<proxy, domain>> -> _ProxySlot
          pick    \* thread -> its call of pick(), as far as it has come

Keys == Proxies \X Domains

Slot == [successes : Nat, failures : Nat,
         consecutive : Nat, cooldownUntil : Nat]

NewSlot == [successes |-> 0, failures |-> 0,
            consecutive |-> 0, cooldownUntil |-> 0]

(***************************************************************************)
(* A score is a fraction <<n, d>>: successes over responses, 0/1 for a     *)
(* proxy nothing is known of, and Unavailable, below every other, for one  *)
(* that is cooling.  Denominators are positive, as comparing by the cross  *)
(* products takes for granted.                                             *)
(***************************************************************************)
Scores == Int \X (Nat \ {0})
Unavailable == <<-1, 1>>
Less(s, r) == s[1] * r[2] < r[1] * s[2]
SameScore(s, r) == s[1] * r[2] = r[1] * s[2]

Phases == {"idle", "available", "best", "top", "picked", "raised"}

NoPick == [phase |-> "idle", domain |-> NoDomain, candidates |-> {},
           todo |-> {}, open |-> {}, reading |-> NoProxy,
           best |-> Unavailable, top |-> {}, result |-> NoProxy, cool |-> {}]

Picks == [phase : Phases, domain : Domains \union {NoDomain},
          candidates : SUBSET Proxies,   \* the pool but the excluded one
          todo : SUBSET Proxies,         \* still to visit in this phase
          open : SUBSET Proxies,         \* those is_available() was True for
          reading : Proxies \union {NoProxy},  \* inside score(), between locks
          best : Scores,                 \* best_score
          top : SUBSET Proxies,          \* top
          result : Proxies \union {NoProxy},
          cool : SUBSET Proxies]   \* history: unavailable ever since the start

HealthTypeOK ==
    /\ slots \in [Keys -> Slot]
    /\ pick \in [Threads -> Picks]

HealthInit ==
    /\ slots = [k \in Keys |-> NewSlot]
    /\ pick = [t \in Threads |-> NoPick]

-----------------------------------------------------------------------------
Cooling(s) == s.cooldownUntil # 0 /\ clock < s.cooldownUntil

\* _refresh_cooldown: a cooldown that is over is forgotten, streak and all.
Refreshed(s) ==
    IF s.cooldownUntil # 0 /\ clock >= s.cooldownUntil
    THEN [s EXCEPT !.cooldownUntil = 0, !.consecutive = 0]
    ELSE s

\* What record() makes of a response: "success", "soft" (a failure that is not
\* held against the proxy, a 500 say) or "trip" (a failed connection, a circuit
\* code, a ban with a block code).
Outcomes == {"success", "soft", "trip"}

\* The slot of a failure that trips; s has been refreshed already.
TrippedEndsOldCooldown(s) ==
    IF s.consecutive + 1 < CircuitAfter
    THEN [s EXCEPT !.consecutive = @ + 1]
    ELSE [s EXCEPT !.consecutive = 0, !.cooldownUntil = clock + ProxyCooldown]
TrippedLate(s) ==
    IF Cooling(s) THEN s
    ELSE IF s.consecutive < CircuitAfter
    THEN [s EXCEPT !.consecutive = @ + 1]
    ELSE [s EXCEPT !.consecutive = 0, !.cooldownUntil = clock + ProxyCooldown]
Tripped(s) ==
    IF Cooling(s) THEN s
    ELSE IF s.consecutive + 1 < CircuitAfter
    THEN [s EXCEPT !.consecutive = @ + 1]
    ELSE [s EXCEPT !.consecutive = 0, !.cooldownUntil = clock + ProxyCooldown]

SucceededHeals(s) == [s EXCEPT !.successes = @ + 1, !.consecutive = 0,
                               !.cooldownUntil = 0]
SucceededDecays(s) == [s EXCEPT !.successes = @ + 1, !.consecutive = @ - 1]
Succeeded(s) == [s EXCEPT !.successes = @ + 1, !.consecutive = 0]

Recorded(s, outcome) ==
    CASE outcome = "success" -> Succeeded(s)
      [] outcome = "soft"    -> [s EXCEPT !.failures = @ + 1]
      [] outcome = "trip"    -> Tripped([s EXCEPT !.failures = @ + 1])

\* record(): one response of proxy p for domain d.
RecordOutcome(p, d, outcome) ==
    /\ slots[<<p, d>>].successes + slots[<<p, d>>].failures < MaxRecords
    /\ slots' = IF HealthOn
                THEN [slots EXCEPT ![<<p, d>>] = Recorded(Refreshed(@), outcome)]
                ELSE slots

-----------------------------------------------------------------------------
\* The slots is_available(p, d) looks at, and what it answers.
SlotsOf(p, d) == {k \in Keys : k[1] = p /\ (d = NoDomain \/ k[2] = d)}
IsAvailable(p, d) == \A k \in SlotsOf(p, d) : ~Cooling(slots[k])

\* is_available refreshes the slots it walks over.  It stops at the first one
\* that is cooling, so on a False answer any part may have been refreshed.
RefreshOn(p, d) ==
    \E seen \in SUBSET SlotsOf(p, d) :
        /\ IsAvailable(p, d) => seen = SlotsOf(p, d)
        /\ slots' = [k \in Keys |-> IF k \in seen THEN Refreshed(slots[k])
                                                  ELSE slots[k]]

\* The second half of score(p, d): the counts, read under the lock again.
Score(p, d) ==
    LET good == SumFunctionOnSet([k \in Keys |-> slots[k].successes], SlotsOf(p, d))
        bad  == SumFunctionOnSet([k \in Keys |-> slots[k].failures], SlotsOf(p, d))
    IN  IF good + bad = 0 THEN <<0, 1>> ELSE <<good, good + bad>>

\* A loop of pick() that has visited every proxy goes on to the next loop.
Advance(k) ==
    IF k.todo # {} THEN k
    ELSE CASE k.phase = "available" ->
                [k EXCEPT !.phase = "best",
                          !.todo = IF k.open # {} THEN k.open ELSE k.candidates]
           [] k.phase = "best" ->
                [k EXCEPT !.phase = "top",
                          !.todo = IF k.open # {} THEN k.open ELSE k.candidates]
           [] OTHER -> k

\* The first loop keeps p if it is available.
Visited(k, p, available) ==
    Advance([k EXCEPT !.todo = @ \ {p},
                      !.open = IF available THEN @ \union {p} ELSE @])

\* What either of the other loops does with the score of p.
Absorb(k, p, score) ==
    LET seen == [k EXCEPT !.todo = @ \ {p}, !.reading = NoProxy]
    IN  Advance(
          IF k.phase = "best"
          THEN [seen EXCEPT !.best = IF Less(@, score) THEN score ELSE @]
          ELSE [seen EXCEPT !.top = IF SameScore(score, k.best)
                                    THEN @ \union {p} ELSE @])

-----------------------------------------------------------------------------
\* pick(proxies, domain=d, exclude=x) is called by thread t.  With the registry
\* off it is a random choice and nothing else.
PickStart(t, d, x) ==
    LET candidates == IF Pool \ {x} # {} THEN Pool \ {x} ELSE Pool
        started == [NoPick EXCEPT !.phase = "available", !.domain = d,
                        !.candidates = candidates, !.todo = candidates,
                        !.cool = {p \in Pool : ~IsAvailable(p, d)}]
    IN  /\ pick[t].phase = "idle"
        /\ \E p \in candidates :
            pick' = [pick EXCEPT ![t] =
                        IF HealthOn THEN started
                        ELSE [NoPick EXCEPT !.phase = "picked", !.result = p]]
        /\ UNCHANGED slots

\* available = [p for p in candidates if self.is_available(p, domain)]
PickAvailable(t) ==
    /\ pick[t].phase = "available"
    /\ \E p \in pick[t].todo :
        /\ RefreshOn(p, pick[t].domain)
        /\ pick' = [pick EXCEPT ![t] =
                        Visited(@, p, IsAvailable(p, pick[t].domain))]

\* score(), first half: is_available
PickScoreCheck(t) ==
    /\ pick[t].phase \in {"best", "top"}
    /\ pick[t].reading = NoProxy
    /\ \E p \in pick[t].todo :
        /\ RefreshOn(p, pick[t].domain)
        /\ pick' = [pick EXCEPT ![t] =
                        IF IsAvailable(p, pick[t].domain)
                        THEN [@ EXCEPT !.reading = p]
                        ELSE Absorb(@, p, Unavailable)]

\* score(), second half: the counts
PickScoreRead(t) ==
    /\ pick[t].reading # NoProxy
    /\ pick' = [pick EXCEPT ![t] =
                    Absorb(@, @.reading, Score(@.reading, @.domain))]
    /\ UNCHANGED slots

\* return random.choice(top): any of them, and an IndexError if there is none.
PickChoose(t) ==
    /\ pick[t].phase = "top" /\ pick[t].todo = {}
    /\ IF pick[t].top = {}
       THEN pick' = [pick EXCEPT ![t].phase = "raised"]
       ELSE \E p \in pick[t].top :
                pick' = [pick EXCEPT ![t].phase = "picked", ![t].result = p]
    /\ UNCHANGED slots

PickStep(t) ==
    PickAvailable(t) \/ PickScoreCheck(t) \/ PickScoreRead(t) \/ PickChoose(t)

\* The caller has what pick() returned, or has seen it raise.
PickEnd(t) ==
    /\ pick[t].phase \in {"picked", "raised"}
    /\ pick' = [pick EXCEPT ![t] = NoPick]

\* Time passes, and a cooldown that is over leaves the history of the picks.
HealthTick ==
    /\ ClockTick
    /\ pick' = [t \in Threads |-> [pick[t] EXCEPT !.cool =
                    {p \in @ : \E k \in SlotsOf(p, pick[t].domain) :
                        clock' < slots[k].cooldownUntil}]]
    /\ UNCHANGED slots

\* reset(), when a spider opens
ResetHealth ==
    /\ slots' = [k \in Keys |-> NewSlot]
    /\ pick' = [t \in Threads |-> [pick[t] EXCEPT !.cool = {}]]

-----------------------------------------------------------------------------
(***************************************************************************)
(* The registry by itself: responses of any proxy are recorded at any      *)
(* time, while threads pick proxies.                                       *)
(***************************************************************************)
HealthRecord ==
    \E p \in Proxies, d \in Domains, outcome \in Outcomes :
        RecordOutcome(p, d, outcome) /\ UNCHANGED <<clock, pick>>

HealthPick(t) ==
    /\ \/ \E d \in Domains \union {NoDomain}, x \in Proxies \union {NoProxy} :
            PickStart(t, d, x)
       \/ PickStep(t)
       \/ PickEnd(t) /\ UNCHANGED slots
    /\ UNCHANGED clock

HealthNext ==
    \/ HealthTick
    \/ ResetHealth /\ UNCHANGED clock
    \/ HealthRecord
    \/ \E t \in Threads : HealthPick(t)

healthVars == <<clock, slots, pick>>

HealthStart == ClockInit /\ HealthInit

HealthSpec == HealthStart /\ [][HealthNext]_healthVars

-----------------------------------------------------------------------------
\* An open circuit is bounded: a proxy is never kept off a domain for longer
\* than the configured cooldown from now, the count that opens the circuit never
\* reaches its threshold, and no failure counts against a proxy that is off.
CircuitBounded ==
    \A k \in Keys :
        /\ slots[k].cooldownUntil <= clock + ProxyCooldown
        /\ slots[k].consecutive < CircuitAfter
        /\ slots[k].cooldownUntil # 0 => slots[k].consecutive = 0

\* A cooldown, once started, lasts for its term: neither a late success of a
\* request that was sent before it nor a further failure ends or moves it; only
\* time and the opening of a spider do (proxy_health.py:104-107, 122-124).
CooldownKeepsItsTerm ==
    [][\A k \in Keys :
         slots[k].cooldownUntil \notin {0, slots'[k].cooldownUntil}
            => \/ clock >= slots[k].cooldownUntil
               \/ slots' = [j \in Keys |-> NewSlot]]_healthVars

\* pick() returns a proxy that was cooling all the while it was at work only if
\* it found no candidate available, whatever was recorded in the meantime
\* (constants.py:134-136, "skipped during rotation until the cooldown expires").
PickSkipsCooling ==
    \A t \in Threads :
        pick[t].phase = "picked" /\ pick[t].result \in pick[t].cool
            => pick[t].open = {}
=============================================================================
