------------------------- MODULE ProxyHealthProofs -------------------------
(***************************************************************************)
(* Theorems about the proxy health registry, for any proxies, domains and  *)
(* settings: its types, and that score() adds up counts and divides by a   *)
(* positive number; the circuit breaker is bounded; a cooldown keeps its   *)
(* term; pick() returns a proxy of the pool, and none that was cooling all *)
(* the while if it found another one.                                      *)
(***************************************************************************)
EXTENDS ProxyHealth, FiniteSetTheorems, WellFoundedInduction, TLAPS

SlotsTyped == clock \in Nat /\ slots \in [Keys -> Slot]

\* CircuitBounded, slot by slot.
Bounded(s) ==
    /\ s.cooldownUntil <= clock + ProxyCooldown
    /\ s.consecutive < CircuitAfter
    /\ s.cooldownUntil # 0 => s.consecutive = 0

CircuitInv == SlotsTyped /\ \A k \in Keys : Bounded(slots[k])

LEMMA Settings ==
    ProxyCooldown \in Nat /\ CircuitAfter \in Nat /\ CircuitAfter > 0
  BY ProxyHealthAssumption

-----------------------------------------------------------------------------
\* What the helpers make of a slot: it stays a slot, it stays bounded.
LEMMA RefreshedSlot ==
    ASSUME NEW s \in Slot, clock \in Nat, Bounded(s)
    PROVE  /\ Refreshed(s) \in Slot /\ Bounded(Refreshed(s))
           /\ ~Cooling(Refreshed(s)) => Refreshed(s).cooldownUntil = 0
<1> DEFINE over == s.cooldownUntil # 0 /\ clock >= s.cooldownUntil
           r == [s EXCEPT !.cooldownUntil = 0, !.consecutive = 0]
<1>1. CASE over
  <2>1. Refreshed(s) = r
    BY <1>1 DEF Refreshed
  <2>2. r \in Slot /\ r.cooldownUntil = 0 /\ r.consecutive = 0
    BY DEF Slot
  <2>3. Bounded(r)
    BY <2>2, Settings DEF Bounded
  <2> QED BY <2>1, <2>2, <2>3
<1>2. CASE ~over
  <2>1. Refreshed(s) = s
    BY <1>2 DEF Refreshed
  <2>2. ~Cooling(s) => s.cooldownUntil = 0
    BY <1>2 DEF Cooling, Slot
  <2> QED BY <2>1, <2>2
<1> QED BY <1>1, <1>2

LEMMA TrippedSlot ==
    ASSUME NEW s \in Slot, clock \in Nat, Bounded(s),
           ~Cooling(s) => s.cooldownUntil = 0
    PROVE  Tripped(s) \in Slot /\ Bounded(Tripped(s))
<1>1. CASE Cooling(s)
  BY <1>1 DEF Tripped
<1>2. CASE ~Cooling(s) /\ s.consecutive + 1 < CircuitAfter
  <2> DEFINE r == [s EXCEPT !.consecutive = @ + 1]
  <2>1. r \in Slot /\ r.cooldownUntil = 0 /\ r.consecutive = s.consecutive + 1
    BY <1>2 DEF Slot
  <2>2. Bounded(r)
    BY <1>2, <2>1, Settings DEF Bounded
  <2> QED BY <1>2, <2>1, <2>2 DEF Tripped
<1>3. CASE ~Cooling(s) /\ ~(s.consecutive + 1 < CircuitAfter)
  <2> DEFINE r == [s EXCEPT !.consecutive = 0, !.cooldownUntil = clock + ProxyCooldown]
  <2>1. clock + ProxyCooldown \in Nat
    BY Settings
  <2>2. /\ r \in Slot /\ r.consecutive = 0
        /\ r.cooldownUntil = clock + ProxyCooldown
    BY <2>1 DEF Slot
  <2>3. Bounded(r)
    BY <2>2, Settings DEF Bounded
  <2> QED BY <1>3, <2>2, <2>3 DEF Tripped
<1> QED BY <1>1, <1>2, <1>3

LEMMA RecordedSlot ==
    ASSUME NEW s \in Slot, clock \in Nat, Bounded(s), NEW outcome \in Outcomes,
           ~Cooling(s) => s.cooldownUntil = 0
    PROVE  Recorded(s, outcome) \in Slot /\ Bounded(Recorded(s, outcome))
<1> DEFINE f == [s EXCEPT !.failures = @ + 1]
<1>1. /\ f \in Slot /\ Bounded(f)
      /\ ~Cooling(f) => f.cooldownUntil = 0
  <2>1. /\ f \in Slot /\ f.cooldownUntil = s.cooldownUntil
        /\ f.consecutive = s.consecutive
    BY DEF Slot
  <2> QED BY <2>1 DEF Bounded, Cooling
<1>2. Tripped(f) \in Slot /\ Bounded(Tripped(f))
  BY <1>1, TrippedSlot
<1>3. Succeeded(s) \in Slot /\ Bounded(Succeeded(s))
  <2> DEFINE r == [s EXCEPT !.successes = s.successes + 1, !.consecutive = 0]
  <2>1. Succeeded(s) = r
    BY DEF Succeeded, Slot
  <2>2. s.successes + 1 \in Nat
    BY DEF Slot
  <2>3. /\ r \in Slot /\ r.consecutive = 0
        /\ r.cooldownUntil = s.cooldownUntil
    BY <2>2 DEF Slot
  <2>4. Bounded(r)
    BY <2>3, Settings DEF Bounded
  <2> QED BY <2>1, <2>3, <2>4
<1> QED BY <1>1, <1>2, <1>3 DEF Recorded, Outcomes

-----------------------------------------------------------------------------
LEMMA CircuitInit == HealthStart => CircuitInv
<1> SUFFICES ASSUME ClockInit, HealthInit PROVE CircuitInv
    BY DEF HealthStart
<1>1. NewSlot \in Slot /\ NewSlot.cooldownUntil = 0 /\ NewSlot.consecutive = 0
  BY DEF NewSlot, Slot
<1>2. clock = 1 /\ slots = [k \in Keys |-> NewSlot]
  BY DEF ClockInit, HealthInit
<1>3. Bounded(NewSlot)
  BY <1>1, <1>2, Settings DEF Bounded
<1> QED BY <1>1, <1>2, <1>3 DEF CircuitInv, SlotsTyped

\* A look at the availability of a proxy only ever refreshes slots.
LEMMA RefreshKeeps ==
    ASSUME CircuitInv, UNCHANGED clock,
           NEW seen,
           slots' = [k \in Keys |-> IF k \in seen THEN Refreshed(slots[k])
                                                  ELSE slots[k]]
    PROVE  CircuitInv'
<1>1. ASSUME NEW k \in Keys
      PROVE  slots'[k] \in Slot /\ Bounded(slots'[k])
  BY RefreshedSlot DEF CircuitInv, SlotsTyped
<1>2. ASSUME NEW s, Bounded(s)
      PROVE  s.cooldownUntil <= clock' + ProxyCooldown
  BY <1>2 DEF Bounded
<1> QED BY <1>1, <1>2 DEF CircuitInv, SlotsTyped, Bounded

LEMMA CircuitStep == CircuitInv /\ [HealthNext]_healthVars => CircuitInv'
<1> SUFFICES ASSUME CircuitInv, [HealthNext]_healthVars PROVE CircuitInv'
    OBVIOUS
<1>a. clock \in Nat /\ \A k \in Keys : slots[k] \in Slot /\ Bounded(slots[k])
  BY DEF CircuitInv, SlotsTyped
<1>b. ASSUME UNCHANGED clock, UNCHANGED slots PROVE CircuitInv'
  BY <1>b DEF CircuitInv, SlotsTyped, Bounded
<1>1. CASE UNCHANGED healthVars
  BY <1>1, <1>b DEF healthVars
\* The bound on a cooldown moves on with the clock.
<1>2. CASE HealthTick
  <2>1. clock' = clock + 1 /\ slots' = slots
    BY <1>2 DEF HealthTick, ClockTick
  <2> QED BY <2>1, <1>a, Settings DEF CircuitInv, SlotsTyped, Bounded, Slot
<1>3. CASE ResetHealth /\ UNCHANGED clock
  <2>1. NewSlot \in Slot /\ NewSlot.cooldownUntil = 0 /\ NewSlot.consecutive = 0
    BY DEF NewSlot, Slot
  <2>2. Bounded(NewSlot)'
    BY <1>3, <1>a, <2>1, Settings DEF Bounded, NewSlot
  <2>3. slots' = [k \in Keys |-> NewSlot]
    BY <1>3 DEF ResetHealth
  <2> QED BY <1>3, <1>a, <2>1, <2>2, <2>3 DEF CircuitInv, SlotsTyped
<1>4. ASSUME NEW p \in Proxies, NEW d \in Domains, NEW outcome \in Outcomes,
             RecordOutcome(p, d, outcome), UNCHANGED clock
      PROVE  CircuitInv'
  <2> DEFINE r == Recorded(Refreshed(slots[<<p, d>>]), outcome)
  <2>1. <<p, d>> \in Keys
    BY DEF Keys
  <2>2. r \in Slot /\ Bounded(r)
    BY <1>a, <2>1, RefreshedSlot, RecordedSlot
  <2>3. slots' = slots \/ slots' = [slots EXCEPT ![<<p, d>>] = r]
    BY <1>4 DEF RecordOutcome
  <2>4. \A k \in Keys : slots'[k] \in Slot /\ Bounded(slots'[k])
    BY <1>a, <2>1, <2>2, <2>3 DEF CircuitInv, SlotsTyped
  <2>5. slots' \in [Keys -> Slot]
    BY <2>1, <2>2, <2>3 DEF CircuitInv, SlotsTyped
  <2> QED BY <1>4, <1>a, <2>4, <2>5 DEF CircuitInv, SlotsTyped, Bounded
<1>5. ASSUME NEW t \in Threads, HealthPick(t)
      PROVE  CircuitInv'
  <2>1. UNCHANGED clock
    BY <1>5 DEF HealthPick
  <2>2. UNCHANGED slots \/ \E p, d : RefreshOn(p, d)
    BY <1>5 DEF HealthPick, PickStart, PickStep, PickAvailable, PickScoreCheck,
                PickScoreRead, PickChoose
  <2>3. ASSUME NEW p, NEW d, RefreshOn(p, d) PROVE CircuitInv'
    BY <2>1, <2>3, RefreshKeeps DEF RefreshOn
  <2> QED BY <1>b, <2>1, <2>2, <2>3
<1> QED BY <1>1, <1>2, <1>3, <1>4, <1>5 DEF HealthNext, HealthRecord

\* An open circuit is bounded.
THEOREM CircuitsAreBounded == HealthSpec => []CircuitBounded
<1>1. HealthSpec => []CircuitInv
  BY CircuitInit, CircuitStep, PTL DEF HealthSpec
<1>2. CircuitInv => CircuitBounded
  BY DEF CircuitInv, Bounded, CircuitBounded
<1> QED BY <1>1, <1>2, PTL

-----------------------------------------------------------------------------
\* Neither a refresh nor a response moves a cooldown that is not over.
LEMMA CoolingStays ==
    ASSUME NEW s \in Slot, Cooling(s), clock \in Nat, NEW outcome \in Outcomes
    PROVE  /\ Refreshed(s) = s
           /\ Recorded(s, outcome).cooldownUntil = s.cooldownUntil
<1>1. Refreshed(s) = s
  BY DEF Refreshed, Cooling, Slot
<1> DEFINE f == [s EXCEPT !.failures = @ + 1]
<1>2. f.cooldownUntil = s.cooldownUntil
  BY DEF Slot
<1>3. Tripped(f) = f
  BY <1>2 DEF Tripped, Cooling
<1>4. Succeeded(s).cooldownUntil = s.cooldownUntil
  BY DEF Succeeded, Slot
<1> QED BY <1>1, <1>2, <1>3, <1>4 DEF Recorded, Outcomes

\* The body of CooldownKeepsItsTerm.
KeepsTerm ==
    \A k \in Keys :
         slots[k].cooldownUntil \notin {0, slots'[k].cooldownUntil}
            => \/ clock >= slots[k].cooldownUntil
               \/ slots' = [j \in Keys |-> NewSlot]

LEMMA TermStep == CircuitInv /\ [HealthNext]_healthVars => [KeepsTerm]_healthVars
<1> SUFFICES ASSUME CircuitInv, HealthNext, NEW k \in Keys,
                    slots[k].cooldownUntil # 0, clock < slots[k].cooldownUntil
             PROVE  \/ slots'[k].cooldownUntil = slots[k].cooldownUntil
                    \/ slots' = [j \in Keys |-> NewSlot]
  <2>1. ASSUME CircuitInv, NEW k \in Keys, ~(clock >= slots[k].cooldownUntil)
        PROVE  clock < slots[k].cooldownUntil
    BY <2>1 DEF CircuitInv, SlotsTyped, Slot
  <2> QED BY <2>1 DEF KeepsTerm
<1>a. clock \in Nat /\ slots \in [Keys -> Slot] /\ Cooling(slots[k])
  BY DEF CircuitInv, SlotsTyped, Cooling
<1>b. Refreshed(slots[k]) = slots[k]
  BY <1>a, CoolingStays DEF Outcomes
<1>1. CASE HealthTick
  BY <1>1 DEF HealthTick
<1>2. CASE ResetHealth
  BY <1>2 DEF ResetHealth
<1>3. ASSUME NEW p \in Proxies, NEW d \in Domains, NEW outcome \in Outcomes,
             RecordOutcome(p, d, outcome)
      PROVE  slots'[k].cooldownUntil = slots[k].cooldownUntil
  <2>1. CASE k = <<p, d>>
    <3>1. \/ slots' = slots
          \/ slots'[k] = Recorded(Refreshed(slots[k]), outcome)
      BY <1>3, <1>a, <2>1 DEF RecordOutcome
    <3> QED BY <3>1, <1>a, <1>b, CoolingStays
  <2>2. CASE k # <<p, d>>
    BY <1>3, <1>a, <2>2 DEF RecordOutcome
  <2> QED BY <2>1, <2>2
<1>4. ASSUME NEW t \in Threads, HealthPick(t)
      PROVE  slots'[k].cooldownUntil = slots[k].cooldownUntil
  <2>1. UNCHANGED slots \/ \E p, d : RefreshOn(p, d)
    BY <1>4 DEF HealthPick, PickStart, PickStep, PickAvailable, PickScoreCheck,
                PickScoreRead, PickChoose
  <2>2. ASSUME NEW p, NEW d, RefreshOn(p, d)
        PROVE  slots'[k] = slots[k]
    BY <2>2, <1>b DEF RefreshOn
  <2> QED BY <2>1, <2>2
<1> QED BY <1>1, <1>2, <1>3, <1>4 DEF HealthNext, HealthRecord

\* A cooldown, once started, lasts for its term or until a spider opens.
THEOREM CooldownsKeepTheirTerm == HealthSpec => CooldownKeepsItsTerm
<1>1. HealthSpec => []CircuitInv
  BY CircuitInit, CircuitStep, PTL DEF HealthSpec
<1>2. CircuitInv /\ [HealthNext]_healthVars =>
          [\A k \in Keys :
              slots[k].cooldownUntil \notin {0, slots'[k].cooldownUntil}
                => \/ clock >= slots[k].cooldownUntil
                   \/ slots' = [j \in Keys |-> NewSlot]]_healthVars
  BY TermStep DEF KeepsTerm
<1> QED BY <1>1, <1>2, PTL DEF HealthSpec, CooldownKeepsItsTerm

-----------------------------------------------------------------------------
\* A non-empty set of natural numbers has a least element.
LEMMA LeastNat ==
    ASSUME NEW T \in SUBSET Nat, T # {}
    PROVE  \E n \in T : \A m \in T : n <= m
<1>1. PICK n \in T : \A m \in T : <<m, n>> \notin OpToRel(<, Nat)
  <2>1. IsWellFoundedOn(OpToRel(<, Nat), Nat)
    BY NatLessThanWellFounded
  <2> HIDE DEF OpToRel
  <2> QED BY <2>1, WFMin
<1>2. ASSUME NEW m \in T PROVE n <= m
  <2>1. <<m, n>> \notin OpToRel(<, Nat)
    BY <1>1
  <2>2. ~(m < n)
    BY <2>1 DEF OpToRel
  <2> QED BY <2>2
<1> QED BY <1>2

\* One step of the sum of f: an element of s, chosen as the fold chooses it, and
\* the sum g has of the others.
Chosen(s) == CHOOSE x \in s : TRUE
SumStep(f, g, s) == IF s = {} THEN 0 ELSE f[Chosen(s)] + g[s \ {Chosen(s)}]

SumOn(f, g, S) == \A s \in SUBSET S : g[s] = SumStep(f, g, s)

SumWithin(f, g, S, n) ==
    \A s \in SUBSET S : Cardinality(s) <= n => g[s] = SumStep(f, g, s)

LEMMA Shrinks ==
    ASSUME NEW S, IsFiniteSet(S), NEW s \in SUBSET S
    PROVE  /\ IsFiniteSet(s) /\ Cardinality(s) \in Nat
           /\ Cardinality(s) <= 0 => s = {}
           /\ s # {} => /\ Chosen(s) \in s
                        /\ Cardinality(s \ {Chosen(s)}) = Cardinality(s) - 1
<1>1. IsFiniteSet(s) /\ Cardinality(s) \in Nat
  BY FS_Subset, FS_CardinalityType
<1>2. Cardinality(s) = 0 => s = {}
  BY <1>1, FS_EmptySet
<1>3. s # {} => Chosen(s) \in s
  BY DEF Chosen
<1>4. s # {} => Cardinality(s \ {Chosen(s)}) = Cardinality(s) - 1
  <2> DEFINE c == Chosen(s)
  <2> HIDE DEF c
  <2>1. s # {} => Cardinality(s \ {c}) = Cardinality(s) - 1
    BY <1>1, <1>3, FS_RemoveElement DEF c
  <2> QED BY <2>1 DEF c
<1> QED BY <1>1, <1>2, <1>3, <1>4

LEMMA SumUpTo ==
    ASSUME NEW f, NEW S, IsFiniteSet(S), \A x \in S : f[x] \in Nat,
           NEW n \in Nat
    PROVE  \E g \in [SUBSET S -> Nat] : SumWithin(f, g, S, n)
<1> DEFINE Exact(g, m) == SumWithin(f, g, S, m)
           Reached(m) == \E g \in [SUBSET S -> Nat] : Exact(g, m)
           Short == {m \in Nat : ~Reached(m)}
<1> SUFFICES ASSUME Short # {} PROVE FALSE
    OBVIOUS
<1>1. PICK m \in Short : \A i \in Short : m <= i
  <2> HIDE DEF Short
  <2>1. Short \in SUBSET Nat
    BY DEF Short
  <2> QED BY <2>1, LeastNat
<1>a. ASSUME NEW s \in SUBSET S
      PROVE  /\ Cardinality(s) \in Nat /\ (Cardinality(s) <= 0 => s = {})
             /\ s # {} => /\ Chosen(s) \in s
                          /\ Cardinality(s \ {Chosen(s)}) = Cardinality(s) - 1
  BY Shrinks
<1>2. CASE m = 0
  <2> DEFINE g == [s \in SUBSET S |-> 0]
  <2>1. \A s \in SUBSET S : Cardinality(s) <= 0 => s = {}
    BY <1>a
  <2>2. Exact(g, 0)
    BY <2>1 DEF SumStep, SumWithin
  <2>3. g \in [SUBSET S -> Nat]
    OBVIOUS
  <2> HIDE DEF g, Exact
  <2> QED BY <1>1, <1>2, <2>2, <2>3
<1>3. CASE m # 0
  <2>1. m - 1 \in Nat /\ Reached(m - 1)
    <3> HIDE DEF Reached
    <3> QED BY <1>1, <1>3
  <2>2. PICK g \in [SUBSET S -> Nat] : Exact(g, m - 1)
    BY <2>1
  <2> DEFINE h == [s \in SUBSET S |-> SumStep(f, g, s)]
  <2>3. h \in [SUBSET S -> Nat]
    <3> SUFFICES ASSUME NEW s \in SUBSET S PROVE SumStep(f, g, s) \in Nat
        OBVIOUS
    <3>1. CASE s = {}
      BY <3>1 DEF SumStep
    <3>2. CASE s # {}
      <4>1. f[Chosen(s)] \in Nat /\ g[s \ {Chosen(s)}] \in Nat
        BY <1>a, <2>2, <3>2
      <4> QED BY <3>2, <4>1 DEF SumStep
    <3> QED BY <3>1, <3>2
  <2>4. Exact(h, m)
    <3> SUFFICES ASSUME NEW s \in SUBSET S, Cardinality(s) <= m
                 PROVE  h[s] = SumStep(f, h, s)
        BY DEF SumWithin
    <3>1. CASE s = {}
      BY <3>1 DEF SumStep
    <3>2. CASE s # {}
      <4> DEFINE r == s \ {Chosen(s)}
      <4>1. r \in SUBSET S /\ Cardinality(r) <= m - 1
        BY <1>1, <1>a, <3>2
      <4>2. h[r] = g[r]
        <5> HIDE DEF r
        <5> QED BY <2>2, <4>1 DEF SumWithin
      <4> QED BY <3>2, <4>2 DEF SumStep
    <3> QED BY <3>1, <3>2
  <2> HIDE DEF h, Exact
  <2> QED BY <1>1, <2>3, <2>4
<1> QED BY <1>2, <1>3

LEMMA SumUnique ==
    ASSUME NEW f, NEW S, IsFiniteSet(S), \A x \in S : f[x] \in Nat,
           NEW g, NEW h, SumOn(f, g, S), SumOn(f, h, S)
    PROVE  \A s \in SUBSET S : g[s] = h[s]
<1> DEFINE Apart == {Cardinality(s) : s \in {r \in SUBSET S : g[r] # h[r]}}
<1>a. ASSUME NEW s \in SUBSET S
      PROVE  /\ Cardinality(s) \in Nat /\ (Cardinality(s) <= 0 => s = {})
             /\ s # {} => /\ Chosen(s) \in s
                          /\ Cardinality(s \ {Chosen(s)}) = Cardinality(s) - 1
  BY Shrinks
<1> SUFFICES ASSUME NEW r \in SUBSET S, g[r] # h[r] PROVE FALSE
    OBVIOUS
<1>1. Apart \in SUBSET Nat /\ Apart # {}
  <2>1. Cardinality(r) \in Apart
    OBVIOUS
  <2>2. ASSUME NEW n \in Apart PROVE n \in Nat
    <3>1. PICK s \in SUBSET S : n = Cardinality(s)
      BY <2>2
    <3> QED BY <1>a, <3>1
  <2> QED BY <2>1, <2>2
<1>2. PICK n \in Apart : \A i \in Apart : n <= i
  <2> HIDE DEF Apart
  <2> QED BY <1>1, LeastNat
<1>3. PICK s \in SUBSET S : g[s] # h[s] /\ Cardinality(s) = n
  OBVIOUS
<1>4. s # {}
  BY <1>3 DEF SumOn, SumStep
<1> DEFINE q == s \ {Chosen(s)}
<1>5. q \in SUBSET S /\ Cardinality(q) < n /\ Cardinality(q) \in Nat /\ n \in Nat
  <2>1. Cardinality(s) \in Nat /\ Cardinality(q) = Cardinality(s) - 1 /\ Chosen(s) \in s
    BY <1>a, <1>4
  <2>2. q \in SUBSET S /\ Cardinality(q) \in Nat
    BY <1>a
  <2> QED BY <1>3, <2>1, <2>2
<1>6. g[q] = h[q]
  <2> HIDE DEF q
  <2> QED BY <1>2, <1>5
<1>7. g[s] = SumStep(f, g, s) /\ h[s] = SumStep(f, h, s)
  BY DEF SumOn
<1> QED BY <1>3, <1>4, <1>6, <1>7 DEF SumStep

\* The sum of natural numbers over a finite set is a natural number.
LEMMA SumNat ==
    ASSUME NEW f, NEW S, IsFiniteSet(S), \A x \in S : f[x] \in Nat
    PROVE  SumFunctionOnSet(f, S) \in Nat
<1> DEFINE Body(g) == [s \in SUBSET S |-> SumStep(f, g, s)]
           sum == CHOOSE g : g = Body(g)
<1>1. PICK h \in [SUBSET S -> Nat] : SumOn(f, h, S)
  <2>1. PICK n \in Nat : n = Cardinality(S)
    BY FS_CardinalityType
  <2>2. \A s \in SUBSET S : Cardinality(s) <= n
    BY <2>1, FS_Subset
  <2>3. \E g \in [SUBSET S -> Nat] : SumWithin(f, g, S, n)
    BY SumUpTo
  <2> QED BY <2>2, <2>3 DEF SumOn, SumWithin
<1>2. h = Body(h)
  BY <1>1 DEF SumOn
<1>3. sum = Body(sum)
  <2> HIDE DEF Body
  <2> QED BY <1>2
<1>4. SumOn(f, sum, S)
  <2> HIDE DEF sum
  <2> QED BY <1>3 DEF SumOn
<1>5. sum[S] = h[S]
  <2> HIDE DEF sum
  <2> QED BY <1>1, <1>4, SumUnique
<1>6. SumFunctionOnSet(f, S) = sum[S]
  BY DEF SumFunctionOnSet, FoldFunctionOnSet, MapThenFoldSet, SumStep, Chosen
<1> HIDE DEF sum
<1> QED BY <1>1, <1>5, <1>6

\* What score() makes of the counts is a score.
LEMMA ScoreOK ==
    ASSUME slots \in [Keys -> Slot], NEW p, NEW d
    PROVE  Score(p, d) \in Scores
<1> DEFINE S == SlotsOf(p, d)
           good == [k \in Keys |-> slots[k].successes]
           bad == [k \in Keys |-> slots[k].failures]
<1>1. S \in SUBSET Keys /\ IsFiniteSet(S)
  <2>1. IsFiniteSet(Proxies) /\ IsFiniteSet(Domains)
    BY ProxyHealthAssumption
  <2>2. IsFiniteSet(Keys)
    BY <2>1, FS_Product DEF Keys
  <2> QED BY <2>2, FS_Subset DEF SlotsOf
<1>2. \A k \in Keys : good[k] \in Nat /\ bad[k] \in Nat
  BY DEF Slot
<1>3. PICK m \in Nat, n \in Nat : m = SumFunctionOnSet(good, S) /\ n = SumFunctionOnSet(bad, S)
  <2> HIDE DEF good, bad, S
  <2>1. SumFunctionOnSet(good, S) \in Nat
    BY <1>1, <1>2, SumNat
  <2>2. SumFunctionOnSet(bad, S) \in Nat
    BY <1>1, <1>2, SumNat
  <2> QED BY <2>1, <2>2
<1>4. Score(p, d) = IF m + n = 0 THEN <<0, 1>> ELSE <<m, m + n>>
  BY <1>3 DEF Score
<1> QED BY <1>4 DEF Scores

-----------------------------------------------------------------------------
\* A call that has found a proxy open looks at the open ones from then on.
CallOK(k) ==
    /\ k \in Picks
    /\ k.candidates \subseteq Pool
    /\ k.todo \subseteq k.candidates /\ k.open \subseteq k.candidates
    /\ k.top \subseteq k.candidates
    /\ k.phase = "picked" => k.result \in Pool
    /\ k.open \intersect k.cool = {}
    /\ k.reading \in k.todo \union {NoProxy}
    /\ k.reading # NoProxy => k.phase \in {"best", "top"}
    /\ k.phase = "available" => k.top = {}
    /\ k.phase \in {"best", "top"} /\ k.open # {} =>
           k.todo \subseteq k.open /\ k.top \subseteq k.open
    /\ k.phase = "picked" /\ k.open # {} => k.result \in k.open

\* What the history says of a proxy is true of the slots.
StillCool(k) ==
    \A p \in k.cool : \E i \in SlotsOf(p, k.domain) : Cooling(slots[i])

PickInv ==
    /\ CircuitInv
    /\ pick = [t \in Threads |-> pick[t]]
    /\ \A t \in Threads : CallOK(pick[t]) /\ StillCool(pick[t])

\* Of the call, StillCool looks at the history and the domain only.
SameHistory(k, j) == j.cool = k.cool /\ j.domain = k.domain

LEMMA UnavailableOK == Unavailable \in Scores
  BY DEF Unavailable, Scores

LEMMA NoPickOK == CallOK(NoPick) /\ NoPick.cool = {}
  BY UnavailableOK, ProxyHealthAssumption DEF NoPick, CallOK, Picks, Phases

LEMMA AdvanceOK ==
    ASSUME NEW k, CallOK(k), k.todo = {} => k.reading = NoProxy
    PROVE  CallOK(Advance(k)) /\ SameHistory(k, Advance(k))
<1> DEFINE on == IF k.open # {} THEN k.open ELSE k.candidates
           b == [k EXCEPT !.phase = "best", !.todo = on]
           u == [k EXCEPT !.phase = "top", !.todo = on]
<1>a. k \in Picks /\ on \in SUBSET Proxies
  BY DEF CallOK, Picks
<1>1. CASE k.todo # {}
  BY <1>1 DEF Advance, SameHistory
<1>2. CASE k.todo = {} /\ k.phase = "available"
  <2>1. Advance(k) = b
    BY <1>2 DEF Advance
  <2>2. /\ b \in Picks /\ b.phase = "best" /\ b.todo = on
        /\ b.best = k.best /\ b.open = k.open /\ b.cool = k.cool /\ b.top = k.top
        /\ b.reading = k.reading /\ b.domain = k.domain
        /\ b.candidates = k.candidates
    BY <1>a DEF Picks, Phases
  <2> QED BY <1>2, <2>1, <2>2 DEF CallOK, SameHistory
<1>3. CASE k.todo = {} /\ k.phase = "best"
  <2>1. Advance(k) = u
    BY <1>3 DEF Advance
  <2>2. /\ u \in Picks /\ u.phase = "top" /\ u.todo = on
        /\ u.best = k.best /\ u.open = k.open /\ u.cool = k.cool /\ u.top = k.top
        /\ u.reading = k.reading /\ u.domain = k.domain
        /\ u.candidates = k.candidates
    BY <1>a DEF Picks, Phases
  <2> QED BY <1>3, <2>1, <2>2 DEF CallOK, SameHistory
<1>4. CASE k.todo = {} /\ k.phase \notin {"available", "best"}
  BY <1>4 DEF Advance, SameHistory
<1> QED BY <1>1, <1>2, <1>3, <1>4

LEMMA VisitedOK ==
    ASSUME NEW k, CallOK(k), k.phase = "available", NEW p \in k.todo,
           NEW available \in BOOLEAN, available => p \notin k.cool
    PROVE  /\ CallOK(Visited(k, p, available))
           /\ SameHistory(k, Visited(k, p, available))
<1> DEFINE open == IF available THEN k.open \union {p} ELSE k.open
           todo == k.todo \ {p}
           j == [k EXCEPT !.todo = todo, !.open = open]
<1>a. k \in Picks /\ k.reading = NoProxy /\ k.top = {}
  BY DEF CallOK
<1>1. open \in SUBSET Proxies /\ todo \in SUBSET Proxies
  BY <1>a DEF Picks
<1>2. open \intersect k.cool = {} /\ open \subseteq k.candidates
      /\ todo \subseteq k.candidates
  BY DEF CallOK
<1>3. Visited(k, p, available) = Advance(j)
  BY <1>a DEF Visited, Picks
<1> HIDE DEF open, todo
<1>4. /\ j \in Picks /\ j.phase = k.phase /\ j.todo = todo
      /\ j.open = open /\ j.cool = k.cool /\ j.reading = k.reading
      /\ j.top = k.top /\ j.best = k.best /\ j.domain = k.domain
      /\ j.candidates = k.candidates
  BY <1>a, <1>1 DEF Picks
<1>5. CallOK(j)
  BY <1>a, <1>2, <1>4 DEF CallOK
<1>6. CallOK(Advance(j)) /\ SameHistory(j, Advance(j))
  BY <1>a, <1>4, <1>5, AdvanceOK
<1> QED BY <1>3, <1>4, <1>6 DEF SameHistory

LEMMA AbsorbOK ==
    ASSUME NEW k, CallOK(k), k.phase \in {"best", "top"},
           NEW p \in k.todo, NEW score \in Scores,
           k.reading \in {p, NoProxy}
    PROVE  CallOK(Absorb(k, p, score)) /\ SameHistory(k, Absorb(k, p, score))
<1> DEFINE seen == [k EXCEPT !.todo = k.todo \ {p}, !.reading = NoProxy]
           best == IF Less(k.best, score) THEN score ELSE k.best
           top == IF SameScore(score, k.best) THEN k.top \union {p} ELSE k.top
           b == [seen EXCEPT !.best = best]
           u == [seen EXCEPT !.top = top]
<1>a. k \in Picks /\ p \in Proxies /\ k.todo \ {p} \in SUBSET Proxies
      /\ top \in SUBSET Proxies /\ best \in Scores
  BY DEF CallOK, Picks
<1> HIDE DEF best, top
<1>1. /\ seen \in Picks /\ seen.phase = k.phase /\ seen.todo = k.todo \ {p}
      /\ seen.reading = NoProxy /\ seen.best = k.best /\ seen.open = k.open
      /\ seen.cool = k.cool /\ seen.top = k.top /\ seen.domain = k.domain
      /\ seen.candidates = k.candidates
  BY <1>a DEF Picks
<1> HIDE DEF seen
<1>2. CASE k.phase = "best"
  <2>1. Absorb(k, p, score) = Advance(b)
    BY <1>1, <1>2 DEF Absorb, seen, best
  <2>2. /\ b \in Picks /\ b.phase = "best" /\ b.todo = k.todo \ {p}
        /\ b.reading = NoProxy /\ b.best = best /\ b.open = k.open
        /\ b.cool = k.cool /\ b.top = k.top /\ b.domain = k.domain
        /\ b.candidates = k.candidates
    BY <1>1, <1>2, <1>a DEF Picks
  <2>3. CallOK(b)
    BY <1>2, <2>2 DEF CallOK
  <2>4. CallOK(Advance(b)) /\ SameHistory(b, Advance(b))
    BY <2>2, <2>3, AdvanceOK
  <2> QED BY <2>1, <2>2, <2>4 DEF SameHistory
<1>3. CASE k.phase = "top"
  <2>1. Absorb(k, p, score) = Advance(u)
    BY <1>1, <1>3 DEF Absorb, seen, top
  <2>2. /\ u \in Picks /\ u.phase = "top" /\ u.todo = k.todo \ {p}
        /\ u.reading = NoProxy /\ u.best = k.best /\ u.open = k.open
        /\ u.cool = k.cool /\ u.top = top /\ u.domain = k.domain
        /\ u.candidates = k.candidates
    BY <1>1, <1>3, <1>a DEF Picks
  <2>3. top \subseteq k.top \union {p}
    BY DEF top
  <2>4. CallOK(u)
    BY <1>3, <2>2, <2>3 DEF CallOK
  <2>5. CallOK(Advance(u)) /\ SameHistory(u, Advance(u))
    BY <2>2, <2>4, AdvanceOK
  <2> QED BY <2>1, <2>2, <2>5 DEF SameHistory
<1> QED BY <1>2, <1>3

-----------------------------------------------------------------------------
\* No slot that is cooling is brought back.
CoolingKept ==
    \A k \in Keys : Cooling(slots[k]) => slots'[k].cooldownUntil = slots[k].cooldownUntil

LEMMA HistoryKept ==
    ASSUME CircuitInv, UNCHANGED clock, CoolingKept, NEW k, NEW j,
           StillCool(k), SameHistory(k, j)
    PROVE  \A p \in j.cool : \E i \in SlotsOf(p, j.domain) :
              slots'[i].cooldownUntil # 0 /\ clock' < slots'[i].cooldownUntil
<1> SUFFICES ASSUME NEW p \in k.cool
             PROVE  \E i \in SlotsOf(p, k.domain) :
              slots'[i].cooldownUntil # 0 /\ clock' < slots'[i].cooldownUntil
    BY DEF SameHistory
<1>1. PICK i \in SlotsOf(p, k.domain) : Cooling(slots[i])
  BY DEF StillCool
<1>2. i \in Keys
  BY DEF SlotsOf
<1> QED BY <1>1, <1>2 DEF CoolingKept, Cooling

LEMMA RecordKeepsCooling ==
    ASSUME CircuitInv, NEW p \in Proxies, NEW d \in Domains, NEW outcome \in Outcomes,
           RecordOutcome(p, d, outcome)
    PROVE  CoolingKept
<1> SUFFICES ASSUME NEW k \in Keys, Cooling(slots[k])
             PROVE  slots'[k].cooldownUntil = slots[k].cooldownUntil
    BY DEF CoolingKept
<1>1. slots \in [Keys -> Slot] /\ clock \in Nat
  BY DEF CircuitInv, SlotsTyped
<1>2. slots' = slots \/ slots'[k] = slots[k]
      \/ slots'[k] = Recorded(Refreshed(slots[k]), outcome)
  BY <1>1 DEF RecordOutcome
<1> QED BY <1>1, <1>2, CoolingStays

LEMMA RefreshKeepsCooling ==
    ASSUME CircuitInv, NEW p, NEW d, RefreshOn(p, d)
    PROVE  CoolingKept
<1> SUFFICES ASSUME NEW k \in Keys, Cooling(slots[k])
             PROVE  slots'[k].cooldownUntil = slots[k].cooldownUntil
    BY DEF CoolingKept
<1>1. slots \in [Keys -> Slot] /\ clock \in Nat
  BY DEF CircuitInv, SlotsTyped
<1>2. Refreshed(slots[k]) = slots[k]
  BY <1>1, CoolingStays DEF Outcomes
<1> QED BY <1>2 DEF RefreshOn

LEMMA PickStartInv == HealthStart => PickInv
<1> SUFFICES ASSUME HealthStart PROVE PickInv
    OBVIOUS
<1>1. pick = [t \in Threads |-> NoPick]
  BY DEF HealthStart, HealthInit
<1> QED BY <1>1, CircuitInit, NoPickOK DEF PickInv, StillCool

\* What a step of pick() leaves behind is a call with the same history, or none.
LEMMA CallSteps ==
    ASSUME PickInv, NEW t \in Threads, PickStep(t)
    PROVE  \E j : /\ pick' = [pick EXCEPT ![t] = j]
                  /\ CallOK(j) /\ SameHistory(pick[t], j)
<1> DEFINE k == pick[t]
<1>a. CallOK(k) /\ k \in Picks
  BY DEF PickInv, CallOK
<1>b. k.todo \subseteq Proxies /\ NoProxy \notin Proxies
  BY <1>a, ProxyHealthAssumption DEF Picks
<1>1. CASE PickAvailable(t)
  <2> DEFINE available(p) == IsAvailable(p, k.domain)
  <2>1. PICK p \in k.todo :
            pick' = [pick EXCEPT ![t] = Visited(k, p, available(p))]
    BY <1>1 DEF PickAvailable
  <2>2. available(p) => p \notin k.cool
    BY DEF PickInv, StillCool, IsAvailable
  <2>3. available(p) \in BOOLEAN /\ k.phase = "available"
    BY <1>1 DEF PickAvailable, IsAvailable
  <2> HIDE DEF available
  <2>4. /\ CallOK(Visited(k, p, available(p)))
        /\ SameHistory(k, Visited(k, p, available(p)))
    BY <1>a, <2>2, <2>3, VisitedOK
  <2> QED BY <2>1, <2>4
<1>2. CASE PickScoreCheck(t)
  <2>1. PICK p \in k.todo : pick' = [pick EXCEPT ![t] =
                        IF IsAvailable(p, k.domain)
                        THEN [k EXCEPT !.reading = p]
                        ELSE Absorb(k, p, Unavailable)]
    BY <1>2 DEF PickScoreCheck
  <2>2. k.phase \in {"best", "top"} /\ k.reading = NoProxy
    BY <1>2 DEF PickScoreCheck
  <2> DEFINE j == [k EXCEPT !.reading = p]
  <2>3. CallOK(j) /\ SameHistory(k, j)
    <3>1. /\ j \in Picks /\ j.phase = k.phase /\ j.todo = k.todo
          /\ j.open = k.open /\ j.cool = k.cool /\ j.reading = p
          /\ j.top = k.top /\ j.best = k.best /\ j.domain = k.domain
          /\ j.candidates = k.candidates
      BY <1>a, <1>b DEF Picks
    <3> QED BY <1>a, <2>2, <3>1 DEF CallOK, SameHistory
  <2>4. CallOK(Absorb(k, p, Unavailable)) /\ SameHistory(k, Absorb(k, p, Unavailable))
    BY <1>a, <2>2, UnavailableOK, AbsorbOK
  <2> HIDE DEF j
  <2> QED BY <2>1, <2>3, <2>4 DEF j
<1>3. CASE PickScoreRead(t)
  <2> DEFINE score == Score(k.reading, k.domain)
  <2>1. pick' = [pick EXCEPT ![t] = Absorb(k, k.reading, score)]
    BY <1>3 DEF PickScoreRead
  <2>s. score \in Scores
    BY ScoreOK DEF PickInv, CircuitInv, SlotsTyped
  <2> HIDE DEF score
  <2>2. k.reading # NoProxy /\ k.reading \in k.todo /\ k.phase \in {"best", "top"}
    BY <1>3, <1>a DEF PickScoreRead, CallOK
  <2>3. CallOK(Absorb(k, k.reading, score)) /\ SameHistory(k, Absorb(k, k.reading, score))
    BY <1>a, <2>2, <2>s, AbsorbOK
  <2> QED BY <2>1, <2>3
<1>4. CASE PickChoose(t)
  <2>a. k.phase = "top" /\ k.todo = {} /\ k.reading = NoProxy
    BY <1>4, <1>a DEF PickChoose, CallOK
  <2>1. CASE pick' = [pick EXCEPT ![t].phase = "raised"]
    <3> DEFINE j == [k EXCEPT !.phase = "raised"]
    <3>1. pick' = [pick EXCEPT ![t] = j]
      BY <2>1
    <3>2. CallOK(j) /\ SameHistory(k, j)
      BY <1>a, <2>a DEF CallOK, Picks, Phases, SameHistory
    <3> QED BY <3>1, <3>2
  <2>2. ASSUME NEW p \in k.top,
               pick' = [pick EXCEPT ![t].phase = "picked", ![t].result = p]
        PROVE  \E j : /\ pick' = [pick EXCEPT ![t] = j]
                      /\ CallOK(j) /\ SameHistory(k, j)
    <3> DEFINE j == [k EXCEPT !.phase = "picked", !.result = p]
    <3>1. pick' = [pick EXCEPT ![t] = j]
      BY <2>2 DEF PickInv
    <3>2. /\ j \in Picks /\ j.phase = "picked" /\ j.todo = k.todo
          /\ j.open = k.open /\ j.cool = k.cool /\ j.reading = k.reading
          /\ j.result = p /\ j.best = k.best /\ j.domain = k.domain
          /\ j.candidates = k.candidates
      BY <1>a DEF Picks, Phases
    <3>3. CallOK(j) /\ SameHistory(k, j)
      BY <1>a, <2>a, <3>2 DEF CallOK, SameHistory
    <3> QED BY <3>1, <3>3
  <2> QED BY <1>4, <2>1, <2>2 DEF PickChoose
<1> QED BY <1>1, <1>2, <1>3, <1>4 DEF PickStep

LEMMA PickInvStep == PickInv /\ [HealthNext]_healthVars => PickInv'
<1> SUFFICES ASSUME PickInv, [HealthNext]_healthVars PROVE PickInv'
    OBVIOUS
<1>a. CircuitInv'
  BY CircuitStep DEF PickInv
<1>b. clock \in Nat /\ slots \in [Keys -> Slot]
  BY DEF PickInv, CircuitInv, SlotsTyped
\* Nobody's call changes: all that matters is that the cooldowns stay.
<1>c. ASSUME UNCHANGED clock, UNCHANGED pick, CoolingKept
      PROVE  PickInv'
  <2>1. ASSUME NEW u \in Threads
        PROVE  \A p \in pick[u].cool : \E i \in SlotsOf(p, pick[u].domain) :
                  slots'[i].cooldownUntil # 0 /\ clock' < slots'[i].cooldownUntil
    <3> DEFINE k == pick[u]
    <3>1. StillCool(k) /\ SameHistory(k, k)
      BY DEF PickInv, SameHistory
    <3> HIDE DEF k
    <3>2. \A p \in k.cool : \E i \in SlotsOf(p, k.domain) :
              slots'[i].cooldownUntil # 0 /\ clock' < slots'[i].cooldownUntil
      BY <1>c, <3>1, HistoryKept DEF PickInv
    <3> QED BY <3>2 DEF k
  <2> QED BY <1>a, <1>c, <2>1 DEF PickInv, StillCool, Cooling, CallOK, SlotsOf
<1>1. CASE UNCHANGED healthVars
  BY <1>1, <1>c DEF healthVars, CoolingKept
<1>2. CASE HealthTick
  <2> DEFINE cool(u) == {p \in pick[u].cool : \E k \in SlotsOf(p, pick[u].domain) :
                            clock' < slots[k].cooldownUntil}
  <2>1. /\ pick' = [u \in Threads |-> [pick[u] EXCEPT !.cool = cool(u)]]
        /\ clock' = clock + 1 /\ slots' = slots
    BY <1>2 DEF HealthTick, ClockTick
  <2>2. ASSUME NEW u \in Threads PROVE (CallOK(pick[u]) /\ StillCool(pick[u]))'
    <3> DEFINE k == pick[u]
               j == [k EXCEPT !.cool = cool(u)]
    <3>1. cool(u) \subseteq k.cool
      OBVIOUS
    <3>2. CallOK(k) /\ k \in Picks
      BY DEF PickInv, CallOK
    <3>3. /\ j.phase = k.phase /\ j.todo = k.todo /\ j.open = k.open
          /\ j.cool = cool(u) /\ j.reading = k.reading /\ j.top = k.top
          /\ j.best = k.best /\ j.domain = k.domain /\ j.result = k.result
          /\ j.candidates = k.candidates
          /\ j \in Picks
      BY <3>1, <3>2 DEF Picks
    <3>4. CallOK(j)
      BY <3>1, <3>2, <3>3 DEF CallOK
    <3>5. \A p \in cool(u) : \E i \in SlotsOf(p, k.domain) :
              slots[i].cooldownUntil # 0 /\ clock' < slots[i].cooldownUntil
      <4> SUFFICES ASSUME NEW p \in cool(u)
                   PROVE  \E i \in SlotsOf(p, k.domain) :
                      slots[i].cooldownUntil # 0 /\ clock' < slots[i].cooldownUntil
          OBVIOUS
      <4>1. PICK i \in SlotsOf(p, k.domain) : clock' < slots[i].cooldownUntil
        OBVIOUS
      <4> QED BY <4>1, <2>1, <1>b
    <3>6. pick'[u] = j
      BY <2>1
    <3> HIDE DEF j, k, cool
    <3>7. CallOK(pick[u])'
      BY <3>4, <3>6 DEF CallOK
    <3>8. StillCool(pick[u])'
      BY <2>1, <3>3, <3>5, <3>6 DEF StillCool, Cooling, SlotsOf
    <3> QED BY <3>7, <3>8
  <2> QED BY <1>a, <2>1, <2>2 DEF PickInv
<1>3. CASE ResetHealth /\ UNCHANGED clock
  <2>1. pick' = [u \in Threads |-> [pick[u] EXCEPT !.cool = {}]]
    BY <1>3 DEF ResetHealth
  <2>2. ASSUME NEW u \in Threads PROVE (CallOK(pick[u]) /\ StillCool(pick[u]))'
    <3> DEFINE k == pick[u]
               j == [k EXCEPT !.cool = {}]
    <3>1. CallOK(k) /\ k \in Picks
      BY DEF PickInv, CallOK
    <3>2. /\ j.phase = k.phase /\ j.todo = k.todo /\ j.open = k.open
          /\ j.cool = {} /\ j.reading = k.reading /\ j.top = k.top
          /\ j.best = k.best /\ j.domain = k.domain /\ j.result = k.result
          /\ j.candidates = k.candidates
          /\ j \in Picks
      BY <3>1 DEF Picks
    <3>3. CallOK(j)
      BY <3>1, <3>2 DEF CallOK
    <3>4. pick'[u] = j
      BY <2>1
    <3> HIDE DEF j, k
    <3> QED BY <3>2, <3>3, <3>4 DEF CallOK, StillCool
  <2> QED BY <1>a, <2>1, <2>2 DEF PickInv
<1>4. ASSUME NEW p \in Proxies, NEW d \in Domains, NEW outcome \in Outcomes,
             RecordOutcome(p, d, outcome), UNCHANGED <<clock, pick>>
      PROVE  PickInv'
  BY <1>4, <1>c, RecordKeepsCooling DEF PickInv
<1>5. ASSUME NEW t \in Threads, HealthPick(t)
      PROVE  PickInv'
  <2>1. UNCHANGED clock
    BY <1>5 DEF HealthPick
  <2>2. CoolingKept
    <3>1. UNCHANGED slots \/ \E p, d : RefreshOn(p, d)
      BY <1>5 DEF HealthPick, PickStart, PickStep, PickAvailable, PickScoreCheck,
                  PickScoreRead, PickChoose
    <3> QED BY <3>1, RefreshKeepsCooling DEF PickInv, CoolingKept
  <2> DEFINE Fine(j) ==
        /\ pick' = [pick EXCEPT ![t] = j] /\ CallOK(j)
        /\ \A p \in j.cool : \E i \in SlotsOf(p, j.domain) :
              slots'[i].cooldownUntil # 0 /\ clock' < slots'[i].cooldownUntil
  <2>3. ASSUME NEW j, Fine(j) PROVE PickInv'
    <3>1. /\ pick' = [u \in Threads |-> pick'[u]] /\ pick'[t] = j
          /\ \A u \in Threads \ {t} : pick'[u] = pick[u]
      BY <2>3 DEF PickInv
    <3>2. ASSUME NEW u \in Threads
          PROVE  /\ CallOK(pick[u])'
                 /\ \A p \in pick'[u].cool : \E i \in SlotsOf(p, pick'[u].domain) :
                       slots'[i].cooldownUntil # 0 /\ clock' < slots'[i].cooldownUntil
      <4>1. CASE u = t
        BY <2>3, <3>1, <4>1 DEF CallOK
      <4>2. CASE u # t
        <5> DEFINE k == pick[u]
        <5>1. pick'[u] = k /\ StillCool(k) /\ SameHistory(k, k) /\ CallOK(k)
          BY <3>1, <4>2 DEF PickInv, SameHistory
        <5> HIDE DEF k
        <5>2. \A p \in k.cool : \E i \in SlotsOf(p, k.domain) :
                  slots'[i].cooldownUntil # 0 /\ clock' < slots'[i].cooldownUntil
          BY <2>1, <2>2, <5>1, HistoryKept DEF PickInv
        <5> QED BY <5>1, <5>2 DEF CallOK
      <4> QED BY <4>1, <4>2
    <3> QED BY <1>a, <3>1, <3>2 DEF PickInv, StillCool, Cooling, SlotsOf
  <2>4. ASSUME PickStep(t) PROVE PickInv'
    <3>1. PICK j : /\ pick' = [pick EXCEPT ![t] = j]
                   /\ CallOK(j) /\ SameHistory(pick[t], j)
      BY <2>4, CallSteps
    <3> DEFINE k == pick[t]
    <3>2. StillCool(k) /\ SameHistory(k, j)
      BY <3>1 DEF PickInv
    <3> HIDE DEF k
    <3>3. Fine(j)
      BY <2>1, <2>2, <3>1, <3>2, HistoryKept DEF PickInv
    <3> QED BY <2>3, <3>3
  <2>5. ASSUME PickEnd(t) PROVE PickInv'
    <3>1. Fine(NoPick)
      BY <2>5, NoPickOK DEF PickEnd
    <3> QED BY <2>3, <3>1
  <2>6. ASSUME NEW d \in Domains \union {NoDomain}, NEW x \in Proxies \union {NoProxy},
               PickStart(t, d, x)
        PROVE  PickInv'
    <3> DEFINE candidates == IF Pool \ {x} # {} THEN Pool \ {x} ELSE Pool
               cool == {p \in Pool : ~IsAvailable(p, d)}
               on == [NoPick EXCEPT !.phase = "available", !.domain = d,
                          !.candidates = candidates, !.todo = candidates, !.cool = cool]
               off(p) == [NoPick EXCEPT !.phase = "picked", !.result = p]
    <3>1. candidates \in SUBSET Pool /\ cool \in SUBSET Proxies /\ Pool \subseteq Proxies
          /\ NoPick.open = {} /\ NoProxy \notin Proxies /\ UNCHANGED slots
      BY <2>6, ProxyHealthAssumption DEF NoPick, PickStart
    <3>2. PICK p \in Pool : pick' = [pick EXCEPT ![t] = IF HealthOn THEN on ELSE off(p)]
      BY <2>6, <3>1 DEF PickStart
    <3>3. \A q \in cool : \E i \in SlotsOf(q, d) :
              slots'[i].cooldownUntil # 0 /\ clock' < slots'[i].cooldownUntil
      BY <2>1, <3>1 DEF IsAvailable, Cooling
    <3> HIDE DEF candidates, cool
    <3>4. CallOK(on) /\ on.cool = cool /\ on.domain = d
      <4>1. /\ on \in Picks /\ on.phase = "available" /\ on.domain = d
            /\ on.candidates = candidates /\ on.todo = candidates /\ on.cool = cool
            /\ on.open = {} /\ on.top = {} /\ on.reading = NoProxy
        BY <3>1, UnavailableOK DEF NoPick, Picks, Phases
      <4> QED BY <3>1, <4>1 DEF CallOK
    <3>5. CallOK(off(p)) /\ off(p).cool = {}
      <4> DEFINE f == off(p)
      <4>1. /\ f \in Picks /\ f.phase = "picked" /\ f.result = p /\ f.cool = {}
            /\ f.candidates = {} /\ f.todo = {} /\ f.open = {} /\ f.top = {}
            /\ f.reading = NoProxy
        BY <3>1, UnavailableOK DEF NoPick, Picks, Phases
      <4> HIDE DEF f
      <4> QED BY <4>1 DEF CallOK, f
    <3>6. Fine(on) \/ Fine(off(p))
      <4> HIDE DEF on, off
      <4> QED BY <3>2, <3>3, <3>4, <3>5
    <3> QED BY <2>3, <3>6
  <2> QED BY <1>5, <2>4, <2>5, <2>6 DEF HealthPick
<1> QED BY <1>1, <1>2, <1>3, <1>4, <1>5 DEF HealthNext, HealthRecord

\* With the registry off, or with no proxy to pick, a call of pick() is a random
\* choice and cannot raise.
NoneRaises == \A t \in Threads : pick[t].phase \in {"idle", "picked"}

LEMMA PickOffStep ==
    ASSUME ~HealthOn \/ Pool = {}, PickInv, NoneRaises, [HealthNext]_healthVars
    PROVE  NoneRaises'
<1>a. /\ \A t \in Threads : pick[t].phase \in {"idle", "picked"}
      /\ pick = [t \in Threads |-> pick[t]]
      /\ \A t \in Threads : pick[t].reading = NoProxy
  BY DEF NoneRaises, PickInv, CallOK
<1>1. CASE UNCHANGED pick
  BY <1>1 DEF NoneRaises
<1>2. CASE HealthTick \/ ResetHealth
  <2>1. PICK cool : pick' = [t \in Threads |-> [pick[t] EXCEPT !.cool = cool[t]]]
    <3>1. CASE HealthTick
      <4> DEFINE cool == [t \in Threads |->
                    {p \in pick[t].cool : \E k \in SlotsOf(p, pick[t].domain) :
                        clock' < slots[k].cooldownUntil}]
      <4>1. pick' = [t \in Threads |-> [pick[t] EXCEPT !.cool = cool[t]]]
        BY <3>1 DEF HealthTick
      <4> HIDE DEF cool
      <4> QED BY <4>1
    <3>2. CASE ResetHealth
      <4> DEFINE cool == [t \in Threads |-> {}]
      <4>1. pick' = [t \in Threads |-> [pick[t] EXCEPT !.cool = cool[t]]]
        BY <3>2 DEF ResetHealth
      <4> HIDE DEF cool
      <4> QED BY <4>1
    <3> QED BY <1>2, <3>1, <3>2
  <2>2. ASSUME NEW t \in Threads PROVE pick'[t].phase = pick[t].phase
    <3>1. pick[t] \in Picks
      BY DEF PickInv, CallOK
    <3> QED BY <2>1, <3>1 DEF Picks
  <2> QED BY <1>a, <2>2 DEF NoneRaises
<1>3. ASSUME NEW t \in Threads, HealthPick(t)
      PROVE  NoneRaises'
  <2>1. ~PickStep(t)
    BY <1>a DEF PickStep, PickAvailable, PickScoreCheck, PickScoreRead, PickChoose
  <2>2. PICK j : pick' = [pick EXCEPT ![t] = j] /\ j.phase \in {"idle", "picked"}
    <3>1. CASE PickEnd(t)
      <4>1. pick' = [pick EXCEPT ![t] = NoPick]
        BY <3>1 DEF PickEnd
      <4>2. NoPick.phase = "idle"
        BY DEF NoPick
      <4> QED BY <4>1, <4>2
    <3>2. ASSUME NEW d, NEW x, PickStart(t, d, x)
          PROVE  \E j : pick' = [pick EXCEPT ![t] = j] /\ j.phase \in {"idle", "picked"}
      <4>1. PICK p \in Pool : pick' = [pick EXCEPT ![t] =
                IF HealthOn
                THEN [NoPick EXCEPT !.phase = "available", !.domain = d,
                        !.candidates = IF Pool \ {x} # {} THEN Pool \ {x} ELSE Pool,
                        !.todo = IF Pool \ {x} # {} THEN Pool \ {x} ELSE Pool,
                        !.cool = {q \in Pool : ~IsAvailable(q, d)}]
                ELSE [NoPick EXCEPT !.phase = "picked", !.result = p]]
        BY <3>2 DEF PickStart
      <4>2. ~HealthOn
        BY <4>1
      <4> DEFINE j == [NoPick EXCEPT !.phase = "picked", !.result = p]
      <4>3. pick' = [pick EXCEPT ![t] = j]
        BY <4>1, <4>2
      <4>4. j.phase = "picked"
        BY DEF NoPick
      <4> HIDE DEF j
      <4> QED BY <4>3, <4>4
    <3> QED BY <1>3, <2>1, <3>1, <3>2 DEF HealthPick
  <2> QED BY <1>a, <2>2 DEF NoneRaises
<1> QED BY <1>1, <1>2, <1>3 DEF HealthNext, HealthRecord, healthVars

\* The slots and the calls of pick() are always well-typed; the scores it compares
\* have positive denominators.
THEOREM HealthTypeCorrect == HealthSpec => []HealthTypeOK
<1>1. HealthSpec => []PickInv
  BY PickStartInv, PickInvStep, PTL DEF HealthSpec
<1>2. PickInv => HealthTypeOK
  BY DEF PickInv, CircuitInv, SlotsTyped, CallOK, HealthTypeOK
<1> QED BY <1>1, <1>2, PTL

\* pick() returns a proxy that was cooling all the while only if it found no
\* candidate available.
THEOREM PickAvoidsCooling == HealthSpec => []PickSkipsCooling
<1>1. HealthSpec => []PickInv
  BY PickStartInv, PickInvStep, PTL DEF HealthSpec
<1>2. PickInv => PickSkipsCooling
  <2> SUFFICES ASSUME PickInv, NEW t \in Threads, pick[t].phase = "picked",
                      pick[t].result \in pick[t].cool
               PROVE  pick[t].open = {}
      BY DEF PickSkipsCooling
  <2> QED BY DEF PickInv, CallOK
<1> QED BY <1>1, <1>2, PTL
=============================================================================
