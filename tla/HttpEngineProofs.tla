-------------------------- MODULE HttpEngineProofs --------------------------
(***************************************************************************)
(* Theorems about the basic and turbo engines, for any threads, proxies,   *)
(* sessions and bounds.                                                    *)
(*                                                                         *)
(*   TypeCorrect: HttpTypeOK, of the engine and of all it is made of.      *)
(*   RegistryUsedAsSpecified: the engine implements the specification of   *)
(*     the registry, and so has its properties (RegistryWithinEngine).     *)
(*   LeaseHolds: recycling is the lease of RecycleLease.                   *)
(*   OneClaim: one thread at a time is told to recycle.                    *)
(*   ClaimsLostOnlyByPick, ClaimsLive: a claim is always on its way to its *)
(*     acknowledgement unless pick() raises, which it cannot do with the   *)
(*     registry off.                                                       *)
(*   DefaultsFromPool: the default proxy is one of the pool.               *)
(*   RecycleReachesAll: FreshAfterRecycle.                                 *)
(*   RequestsAlwaysAdvance: the steps left to a request only become fewer. *)
(***************************************************************************)
EXTENDS HttpEngine, ProxyHealthProofs

JobsTyped ==
    /\ job \in [Threads -> Jobs]
    /\ defaultProxy \in Proxies \union {NoProxy}

\* What is known of a request whose answer is being judged: only a response that
\* came through a proxy is recorded for one, and only a ban leads to a recycle.
Judged ==
    \A t \in Threads :
        /\ pc[t] = "health" => /\ job[t].proxy \in Proxies
                              /\ job[t].ending \in Endings \ {"other"}
        /\ pc[t] = "adopt" => job[t].ending # "transport"

ControlTyped == pc \in [Threads -> Labels] /\ begun \in Nat /\ JobsTyped

LEMMA NoJobTyped == NoJob \in Jobs
  BY SessionCacheAssumption DEF NoJob, Jobs, Endings

TypeInv == /\ ClockTypeOK /\ TrackerTypeOK /\ CacheTypeOK /\ PickInv
           /\ ControlTyped /\ Judged

LEMMA TypeInit == HttpInit => TypeInv
<1> SUFFICES ASSUME HttpInit PROVE TypeInv
    OBVIOUS
<1>1. ClockTypeOK /\ TrackerTypeOK /\ CacheTypeOK
  <2>1. ClockTypeOK
    BY DEF HttpInit, ClockInit, ClockTypeOK
  <2>2. TrackerTypeOK
    BY DEF HttpInit, TrackerInit, TrackerTypeOK
  <2>3. CacheTypeOK
    BY DEF HttpInit, CacheInit, CacheTypeOK, EmptyStore
  <2> QED BY <2>1, <2>2, <2>3
<1>2. PickInv
  BY PickStartInv DEF HttpInit, HealthStart
<1>3. pc \in [Threads -> Labels] /\ Judged /\ begun \in Nat
  BY DEF HttpInit, Labels, Judged
<1>4. defaultProxy \in Proxies \union {NoProxy}
  BY ProxyHealthAssumption DEF HttpInit
<1>5. job \in [Threads -> Jobs]
  BY NoJobTyped DEF HttpInit
<1> QED BY <1>1, <1>2, <1>3, <1>4, <1>5 DEF TypeInv, ControlTyped, JobsTyped

-----------------------------------------------------------------------------
\* What the calls of the tracker and of the cache leave well-typed.
LEMMA TrackerCalls ==
    ASSUME ClockTypeOK, TrackerTypeOK, NEW t \in Threads,
           RecordBan(t) \/ RecordClean \/ AcknowledgeRestart(t)
    PROVE  TrackerTypeOK'
<1>1. CASE RecordBan(t)
  <2>1. streak' \in Nat /\ lastRestart' \in Nat /\ holders' \subseteq Threads
    BY <1>1 DEF RecordBan, TrackerTypeOK
  <2>2. restartDue' \in BOOLEAN /\ claimed' \in BOOLEAN
    BY <1>1, Zenon DEF RecordBan, TrackerTypeOK
  <2> QED BY <2>1, <2>2 DEF TrackerTypeOK
<1>2. CASE RecordClean
  BY <1>2 DEF RecordClean, TrackerTypeOK
<1>3. CASE AcknowledgeRestart(t)
  BY <1>3 DEF AcknowledgeRestart, TrackerTypeOK, ClockTypeOK
<1> QED BY <1>1, <1>2, <1>3

LEMMA CacheCalls ==
    ASSUME CacheTypeOK, NEW t \in Threads, NEW k \in SessionKeys,
           \/ CacheRegister(t) \/ CacheMake(t) \/ CacheStore(t, k) \/ ClearBegin(t)
           \/ (\E u \in Threads : ClearClose(t, u))
           \/ ClearEmpty(t) \/ ClearEnd(t)
    PROVE  CacheTypeOK'
<1> USE DEF CacheTypeOK
<1>1. CASE CacheRegister(t)
  BY <1>1 DEF CacheRegister
<1>2. CASE CacheMake(t)
  BY <1>2 DEF CacheMake
<1>7. CASE CacheStore(t, k)
  <2>1. stores' \in [Threads -> [SessionKeys -> Nat]]
    BY <1>7 DEF CacheStore
  <2>2. made' \in [Threads -> Nat]
    BY <1>7 DEF CacheStore
  <2> QED BY <1>7, <2>1, <2>2 DEF CacheStore
<1>3. CASE ClearBegin(t)
  <2>1. Cached \subseteq Nat
    BY DEF Cached
  <2> QED BY <1>3, <2>1 DEF ClearBegin
<1>4. ASSUME NEW u \in Threads, ClearClose(t, u)
      PROVE  CacheTypeOK'
  <2>1. {stores[u][j] : j \in SessionKeys} \subseteq Nat
    OBVIOUS
  <2>2. closed' \subseteq Nat
    BY <1>4, <2>1 DEF ClearClose
  <2> QED BY <1>4, <2>2 DEF ClearClose
<1>5. CASE ClearEmpty(t)
  BY <1>5 DEF ClearEmpty, EmptyStore
<1>6. CASE ClearEnd(t)
  BY <1>6 DEF ClearEnd
<1> QED BY <1>1, <1>2, <1>3, <1>4, <1>5, <1>6, <1>7

-----------------------------------------------------------------------------
(***************************************************************************)
(* The engine uses the registry as the registry's own specification allows *)
(* it to be used, so what is proved of the registry holds in the engine.   *)
(***************************************************************************)
LEMMA RegistryStep == TypeInv /\ [HttpNext]_httpVars => [HealthNext]_healthVars
<1> SUFFICES ASSUME TypeInv, [HttpNext]_httpVars PROVE [HealthNext]_healthVars
    OBVIOUS
<1>a. \A t \in Threads : pc[t] = "health" =>
          job[t].proxy \in Proxies /\ HealthOutcome(job[t].ending) \in Outcomes
  BY DEF TypeInv, Judged, Endings, HealthOutcome, Outcomes
<1>1. CASE UNCHANGED httpVars
  BY <1>1 DEF httpVars, healthVars
<1>2. CASE HttpTick
  BY <1>2 DEF HttpTick, HealthNext
<1>3. ASSUME NEW t \in Threads,
             \/ Begin(t) \/ GetSession(t) \/ Answer(t) \/ CountBan(t)
             \/ CountClean(t) \/ Adopt(t) \/ Acknowledge(t) \/ Clear(t)
      PROVE  UNCHANGED healthVars
  BY <1>3 DEF Begin, GetSession, Register, Lookup, Create, Store, Fetch, GiveUp, Answer,
              CountBan, CountClean, Adopt, Acknowledge, Clear, healthVars
<1>4. ASSUME NEW t \in Threads, RecordHealth(t)
      PROVE  HealthNext
  BY <1>4, <1>a, HttpAssumption DEF RecordHealth, HealthNext, HealthRecord
<1>5. ASSUME NEW t \in Threads, Rotate(t)
      PROVE  HealthNext
  <2>1. PickStart(t, Domain, defaultProxy) /\ UNCHANGED clock
    BY <1>5 DEF Rotate
  <2>2. defaultProxy \in Proxies \union {NoProxy} /\ Domain \in Domains \union {NoDomain}
    BY HttpAssumption DEF TypeInv, ControlTyped, JobsTyped
  <2> QED BY <2>1, <2>2 DEF HealthNext, HealthPick
<1>6. ASSUME NEW t \in Threads, Pick(t)
      PROVE  HealthNext
  BY <1>6 DEF Pick, HealthNext, HealthPick
<1>7. ASSUME NEW t \in Threads, Install(t) \/ PickFailed(t)
      PROVE  HealthNext
  BY <1>7 DEF Install, PickFailed, HealthNext, HealthPick
<1> QED BY <1>1, <1>2, <1>3, <1>4, <1>5, <1>6, <1>7
        DEF HttpNext, Work, Judge, Recycle

LEMMA TypeStep == TypeInv /\ [HttpNext]_httpVars => TypeInv'
<1> SUFFICES ASSUME TypeInv, [HttpNext]_httpVars PROVE TypeInv'
    OBVIOUS
<1> DEFINE Typed == /\ pc' \in [Threads -> Labels]
                    /\ job' \in [Threads -> Jobs]
                    /\ defaultProxy' \in Proxies \union {NoProxy}
                    /\ begun' \in Nat
           SameJudged == \A u \in Threads : pc'[u] \in {"health", "adopt"} =>
                            pc'[u] = pc[u] /\ job'[u] = job[u]
<1>a. (UNCHANGED clock) => ClockTypeOK'
  BY DEF TypeInv, ClockTypeOK
<1>b. (UNCHANGED trackerVars) => TrackerTypeOK'
  BY DEF TypeInv, TrackerTypeOK, trackerVars
<1>c. (UNCHANGED cacheVars) => CacheTypeOK'
  BY DEF TypeInv, CacheTypeOK, cacheVars
<1>d. Typed => ControlTyped'
  BY DEF ControlTyped, JobsTyped
<1>e. /\ pc \in [Threads -> Labels] /\ job \in [Threads -> Jobs] /\ begun \in Nat
      /\ defaultProxy \in Proxies \union {NoProxy} /\ NoJob \in Jobs
  BY NoJobTyped DEF TypeInv, ControlTyped, JobsTyped
<1>p. PickInv'
  BY RegistryStep, PickInvStep DEF TypeInv
<1>j. SameJudged => Judged'
  BY DEF TypeInv, Judged
<1>1. CASE UNCHANGED httpVars
  BY <1>1, <1>a, <1>b, <1>c, <1>d, <1>e, <1>p, <1>j DEF httpVars, TypeInv
<1>2. CASE HttpTick
  <2>1. ClockTypeOK'
    BY <1>2 DEF HttpTick, HealthTick, ClockTick, ClockTypeOK, TypeInv
  <2> QED BY <1>2, <2>1, <1>b, <1>c, <1>d, <1>e, <1>p, <1>j DEF HttpTick, TypeInv
<1>3. ASSUME NEW t \in Threads, Begin(t)
      PROVE  TypeInv'
  <2>1. Typed
    <3>1. PICK k \in SessionKeys, p \in Proxies \union {NoProxy, defaultProxy} :
            job' = [job EXCEPT ![t] = [NoJob EXCEPT !.key = k, !.proxy = p]]
      BY <1>3 DEF Begin
    <3>2. [NoJob EXCEPT !.key = k, !.proxy = p] \in Jobs
      BY <1>e DEF Jobs
    <3> QED BY <1>3, <1>e, <3>1, <3>2 DEF Begin, Goto, Labels
  <2>2. SameJudged
    BY <1>3, <1>e DEF Begin, Goto
  <2> QED BY <1>3, <2>1, <2>2, <1>a, <1>b, <1>c, <1>d, <1>p, <1>j DEF Begin, TypeInv
<1>4. ASSUME NEW t \in Threads, GetSession(t)
      PROVE  TypeInv'
  <2>0. SameJudged
    BY <1>4, <1>e
       DEF GetSession, Register, Lookup, Create, Store, Fetch, GiveUp, Proceed, Goto
  <2>1. CASE Register(t)
    <3>1. CacheTypeOK'
      BY <2>1, CacheCalls, SessionCacheAssumption DEF Register, TypeInv
    <3> QED BY <2>0, <2>1, <3>1, <1>a, <1>b, <1>d, <1>e, <1>p, <1>j DEF Register, TypeInv
  <2>2. CASE Lookup(t)
    <3>1. fresh.done \in SUBSET Nat
      BY DEF TypeInv, CacheTypeOK
    <3>2. [job[t] EXCEPT !.floor = fresh.done] \in Jobs
      BY <1>e, <3>1 DEF Jobs
    <3>3. job' = [job EXCEPT ![t] = [job[t] EXCEPT !.floor = fresh.done]]
      BY <1>e, <2>2 DEF Lookup
    <3>4. Typed
      BY <1>e, <2>2, <3>2, <3>3 DEF Lookup, Goto, Labels
    <3> QED BY <2>0, <2>2, <3>4, <1>a, <1>b, <1>c, <1>d, <1>p, <1>j DEF Lookup, TypeInv
  <2>3. CASE Create(t) \/ Store(t)
    <3>1. job[t].key \in SessionKeys
      BY <1>e DEF Jobs
    <3>2. CacheTypeOK'
      BY <2>3, <3>1, CacheCalls DEF Create, Store, TypeInv
    <3>3. Typed
      BY <1>e, <2>3 DEF Create, Store, Goto, Labels
    <3> QED BY <2>0, <2>3, <3>2, <3>3, <1>a, <1>b, <1>d, <1>p, <1>j
            DEF Create, Store, TypeInv
  <2>4. CASE Fetch(t)
    <3>1. stores[t][job[t].key] \in Nat
      BY <1>e DEF Jobs, TypeInv, CacheTypeOK
    <3>2. Typed
      BY <1>e, <2>4, <3>1 DEF Fetch, Goto, Labels, Jobs
    <3> QED BY <2>0, <2>4, <3>2, <1>a, <1>b, <1>c, <1>d, <1>p, <1>j DEF Fetch, TypeInv
  <2>5. CASE GiveUp(t)
    <3>1. Typed
      BY <1>e, <2>5 DEF GiveUp, Proceed, Goto, Labels
    <3> QED BY <2>0, <2>5, <3>1, <1>a, <1>b, <1>c, <1>d, <1>p, <1>j DEF GiveUp, TypeInv
  <2> QED BY <1>4, <2>1, <2>2, <2>3, <2>4, <2>5 DEF GetSession
\* The registry is told of a response only if the request had a proxy.
<1>5. ASSUME NEW t \in Threads, Answer(t)
      PROVE  TypeInv'
  <2> DEFINE l(e) == CASE e = "other" -> "idle"
                       [] e = "transport" /\ job[t].proxy = NoProxy -> "idle"
                       [] e # "transport" /\ job[t].proxy = NoProxy -> "bans"
                       [] OTHER -> "health"
  <2>0. PICK ending \in Endings :
            /\ pc' = [pc EXCEPT ![t] = l(ending)]
            /\ job' = [job EXCEPT ![t] = IF l(ending) = "idle" THEN NoJob
                  ELSE [NoJob EXCEPT !.proxy = job[t].proxy, !.ending = ending]]
    BY <1>5 DEF Answer, Goto
  <2>1. PICK label \in {"idle", "bans", "health"} :
            /\ label = l(ending)
            /\ label = "health" => ending # "other" /\ job[t].proxy # NoProxy
    OBVIOUS
  <2> HIDE DEF l
  <2> DEFINE j == [NoJob EXCEPT !.proxy = job[t].proxy, !.ending = ending]
  <2>2. j \in Jobs /\ j.proxy = job[t].proxy /\ j.ending = ending
    BY <1>e DEF Jobs
  <2>3. job[t].proxy \in Proxies \union {NoProxy}
    BY <1>e DEF Jobs
  <2>4. job' = [job EXCEPT ![t] = IF label = "idle" THEN NoJob ELSE j]
             /\ pc' = [pc EXCEPT ![t] = label]
    BY <2>0, <2>1
  <2> HIDE DEF j
  <2>5. Typed
    BY <1>5, <1>e, <2>1, <2>2, <2>4 DEF Answer, Labels
  <2>6. Judged'
    <3> SUFFICES ASSUME NEW u \in Threads
                 PROVE  /\ pc'[u] = "health" => /\ job'[u].proxy \in Proxies
                                               /\ job'[u].ending \in Endings \ {"other"}
                        /\ pc'[u] = "adopt" => job'[u].ending # "transport"
        BY DEF Judged
    <3>1. CASE u = t
      BY <3>1, <1>e, <2>1, <2>2, <2>3, <2>4
    <3>2. CASE u # t
      BY <3>2, <1>e, <2>4 DEF TypeInv, Judged
    <3> QED BY <3>1, <3>2
  <2> QED BY <1>5, <2>5, <2>6, <1>a, <1>b, <1>c, <1>d, <1>p DEF Answer, TypeInv
<1>6. ASSUME NEW t \in Threads, Judge(t)
      PROVE  TypeInv'
  <2>1. Typed
    BY <1>e, <1>6
       DEF Judge, RecordHealth, CountBan, CountClean, Proceed, Goto, Labels
  <2>2. TrackerTypeOK'
    BY <1>6, <1>b, TrackerCalls
       DEF Judge, RecordHealth, CountBan, CountClean, TypeInv
  <2>3. Judged'
    <3>1. CASE RecordHealth(t) \/ CountClean(t)
      <4>1. SameJudged
        BY <3>1, <1>e DEF RecordHealth, CountClean, Proceed, Goto
      <4> QED BY <4>1, <1>j
    <3>2. CASE CountBan(t)
      <4>1. job[t].ending # "transport"
        BY <3>2 DEF CountBan, Banned
      <4>2. \A u \in Threads : /\ pc'[u] = "health" => pc[u] = "health" /\ job'[u] = job[u]
                               /\ pc'[u] = "adopt" /\ u # t => pc[u] = "adopt"
                               /\ pc'[u] = "adopt" => job'[u] = job[u]
        BY <3>2, <1>e DEF CountBan, Proceed, Goto
      <4> QED BY <4>1, <4>2 DEF TypeInv, Judged
    <3> QED BY <1>6, <3>1, <3>2 DEF Judge
  <2> QED BY <1>6, <2>1, <2>2, <2>3, <1>a, <1>c, <1>d, <1>p
          DEF Judge, RecordHealth, CountBan, CountClean, TypeInv
<1>7. ASSUME NEW t \in Threads, Adopt(t)
      PROVE  TypeInv'
  <2>1. Typed
    BY <1>e, <1>7 DEF Adopt, Goto, Labels, Jobs
  <2>2. SameJudged
    BY <1>e, <1>7 DEF Adopt, Goto
  <2> QED BY <1>7, <2>1, <2>2, <1>a, <1>b, <1>c, <1>d, <1>p, <1>j DEF Adopt, TypeInv
<1>8. ASSUME NEW t \in Threads, Rotate(t) \/ Pick(t) \/ PickFailed(t)
      PROVE  TypeInv'
  <2>1. Typed /\ SameJudged
    BY <1>e, <1>8 DEF Rotate, Pick, PickFailed, Proceed, Goto, Labels
  <2> QED BY <1>8, <2>1, <1>a, <1>b, <1>c, <1>d, <1>p, <1>j
          DEF Rotate, Pick, PickFailed, TypeInv
\* pick() returns a proxy of the pool.
<1>9. ASSUME NEW t \in Threads, Install(t)
      PROVE  TypeInv'
  <2>1. pick[t].result \in Proxies \union {NoProxy}
    BY DEF TypeInv, PickInv, CallOK, Picks
  <2>2. Typed /\ SameJudged
    BY <1>9, <1>e, <2>1 DEF Install, Proceed, Goto, Labels
  <2> QED BY <1>9, <2>2, <1>a, <1>b, <1>c, <1>d, <1>p, <1>j DEF Install, TypeInv
<1>10. ASSUME NEW t \in Threads, Acknowledge(t)
       PROVE  TypeInv'
  <2>1. Typed /\ SameJudged
    BY <1>e, <1>10 DEF Acknowledge, Goto, Labels
  <2>2. TrackerTypeOK'
    BY <1>10, TrackerCalls DEF Acknowledge, TypeInv
  <2> QED BY <1>10, <2>1, <2>2, <1>a, <1>c, <1>d, <1>p, <1>j DEF Acknowledge, TypeInv
<1>11. ASSUME NEW t \in Threads, Clear(t)
       PROVE  TypeInv'
  <2>1. Typed /\ SameJudged
    BY <1>e, <1>11 DEF Clear, Proceed, Goto, Labels
  <2>2. CacheTypeOK'
    BY <1>11, CacheCalls, SessionCacheAssumption DEF Clear, TypeInv
  <2> QED BY <1>11, <2>1, <2>2, <1>a, <1>b, <1>d, <1>p, <1>j DEF Clear, TypeInv
<1> QED BY <1>1, <1>2, <1>3, <1>4, <1>5, <1>6, <1>7, <1>8, <1>9, <1>10, <1>11
        DEF HttpNext, Work, Recycle

\* Every variable of the engine, of its tracker, its cache and the registry it
\* uses is always well-typed.
THEOREM TypeCorrect == HttpSpec => []HttpTypeOK
<1>1. HttpSpec => []TypeInv
  BY TypeInit, TypeStep, PTL DEF HttpSpec
<1>2. TypeInv => HttpTypeOK
  BY DEF TypeInv, ControlTyped, JobsTyped, PickInv, CircuitInv, SlotsTyped, CallOK,
         HttpTypeOK, HealthTypeOK
<1> QED BY <1>1, <1>2, PTL

\* The engine's threads use the registry as ProxyHealth describes.
THEOREM RegistryUsedAsSpecified == HttpSpec => HealthSpec
<1>1. HttpSpec => []TypeInv
  BY TypeInit, TypeStep, PTL DEF HttpSpec
<1>2. HttpInit => HealthStart
  BY DEF HttpInit, HealthStart
<1> QED BY <1>1, <1>2, RegistryStep, PTL DEF HttpSpec, HealthSpec

\* So its circuits are bounded, its cooldowns last and its picks avoid them in the
\* engine too.
COROLLARY RegistryWithinEngine ==
    HttpSpec => []CircuitBounded /\ CooldownKeepsItsTerm /\ []PickSkipsCooling
  BY RegistryUsedAsSpecified, CircuitsAreBounded, CooldownsKeepTheirTerm,
     PickAvoidsCooling, PTL

-----------------------------------------------------------------------------
(***************************************************************************)
(* The lease.  ClaimExclusive is not inductive: nothing in it says that a  *)
(* thread which acknowledges is the one that holds the claim.  InHand does *)
(* so, along the way of a recycle from Adopt to Acknowledge.               *)
(***************************************************************************)
InHand == \A t \in Threads : Recycling(t) => t \in holders

LeaseInv == TypeInv /\ ClaimExclusive /\ InHand

LEMMA JobIsFunction ==
    TypeInv => DOMAIN job = Threads /\ pc \in [Threads -> Labels]
  BY DEF TypeInv, ControlTyped, JobsTyped

LEMMA LeaseInit == HttpInit => LeaseInv
<1> SUFFICES ASSUME HttpInit PROVE LeaseInv
    OBVIOUS
<1>1. TypeInv
  BY TypeInit
<1>2. ClaimExclusive
  BY DEF HttpInit, TrackerInit, ClaimExclusive
<1>3. InHand
  BY DEF HttpInit, InHand, Recycling
<1> QED BY <1>1, <1>2, <1>3 DEF LeaseInv

\* A step that leaves the tracker alone keeps the lease if a thread that is
\* recycling after it was recycling before.
LEMMA SameClaim ==
    ASSUME LeaseInv, UNCHANGED trackerVars,
           \A u \in Threads : Recycling(u)' => Recycling(u)
    PROVE  ClaimExclusive' /\ InHand'
<1>1. claimed' = claimed /\ holders' = holders
  BY DEF trackerVars
<1>2. ClaimExclusive'
  BY <1>1 DEF LeaseInv, ClaimExclusive
<1>3. InHand'
  BY <1>1 DEF LeaseInv, InHand
<1> QED BY <1>2, <1>3

LEMMA LeaseStep == LeaseInv /\ [HttpNext]_httpVars => LeaseInv'
<1> SUFFICES ASSUME LeaseInv, [HttpNext]_httpVars
             PROVE  ClaimExclusive' /\ InHand'
    BY TypeStep DEF LeaseInv
<1>a. TypeInv /\ DOMAIN job = Threads /\ pc \in [Threads -> Labels]
  BY JobIsFunction DEF LeaseInv
<1>1. CASE UNCHANGED httpVars
  BY <1>1, SameClaim DEF httpVars, Recycling
<1>2. CASE HttpTick
  BY <1>2, SameClaim DEF HttpTick, Recycling
<1>3. ASSUME NEW t \in Threads, Begin(t)
      PROVE  ClaimExclusive' /\ InHand'
  <2>1. \A u \in Threads : Recycling(u)' => Recycling(u)
    BY <1>3, <1>a DEF Begin, Goto, Recycling
  <2> QED BY <1>3, <2>1, SameClaim DEF Begin
<1>4. ASSUME NEW t \in Threads, GetSession(t)
      PROVE  ClaimExclusive' /\ InHand'
  <2>1. \A u \in Threads : Recycling(u)' => Recycling(u)
    BY <1>4, <1>a DEF GetSession, Register, Lookup, Create, Store, Fetch, GiveUp,
                      Proceed, Goto, Recycling
  <2> QED BY <1>4, <2>1, SameClaim
          DEF GetSession, Register, Lookup, Create, Store, Fetch, GiveUp
<1>5. ASSUME NEW t \in Threads, Answer(t)
      PROVE  ClaimExclusive' /\ InHand'
  <2>1. \A u \in Threads : Recycling(u)' => Recycling(u)
    BY <1>5, <1>a DEF Answer, Goto, Recycling
  <2> QED BY <1>5, <2>1, SameClaim DEF Answer
\* A rotation that starts here is that of a failed connection.
<1>6. ASSUME NEW t \in Threads, RecordHealth(t)
      PROVE  ClaimExclusive' /\ InHand'
  <2>1. \A u \in Threads : Recycling(u)' => Recycling(u)
    BY <1>6, <1>a DEF RecordHealth, Proceed, Goto, Recycling
  <2> QED BY <1>6, <2>1, SameClaim DEF RecordHealth
\* Only here is a claim made: by nobody else, since `claimed` was False.
<1>7. ASSUME NEW t \in Threads, CountBan(t)
      PROVE  ClaimExclusive' /\ InHand'
  <2>1. CASE Claims(streak + 1)
    <3>1. holders = {}
      BY <2>1 DEF Claims, LeaseInv, ClaimExclusive
    <3>2. claimed' /\ holders' = {t}
      BY <1>7, <2>1, <3>1 DEF CountBan, RecordBan
    <3>3. \A u \in Threads : Recycling(u)' => u = t
      BY <1>7, <2>1, <3>1, <1>a
         DEF CountBan, Proceed, Goto, Recycling, LeaseInv, InHand
    <3> QED BY <3>2, <3>3 DEF ClaimExclusive, InHand
  <2>2. CASE ~Claims(streak + 1)
    <3>1. holders' = holders
      BY <1>7, <2>2 DEF CountBan, RecordBan
    <3>2. claimed' = claimed
      BY <1>7, <2>2, Zenon DEF CountBan, RecordBan, TypeInv, LeaseInv, TrackerTypeOK
    <3>3. \A u \in Threads : Recycling(u)' => Recycling(u)
      BY <1>7, <2>2, <1>a DEF CountBan, Proceed, Goto, Recycling
    <3> QED BY <3>1, <3>2, <3>3 DEF LeaseInv, ClaimExclusive, InHand
  <2> QED BY <2>1, <2>2
<1>8. ASSUME NEW t \in Threads, CountClean(t)
      PROVE  ClaimExclusive' /\ InHand'
  <2>1. \A u \in Threads : Recycling(u)' => Recycling(u)
    BY <1>8, <1>a DEF CountClean, Proceed, Goto, Recycling
  <2>2. holders' = holders /\ claimed' = claimed
    BY <1>8 DEF CountClean, RecordClean
  <2> QED BY <2>1, <2>2 DEF LeaseInv, ClaimExclusive, InHand
<1>9. ASSUME NEW t \in Threads, \/ Adopt(t) \/ Rotate(t) \/ Pick(t)
                                \/ Install(t) \/ PickFailed(t)
      PROVE  ClaimExclusive' /\ InHand'
  <2>1. \A u \in Threads : Recycling(u)' => Recycling(u)
    BY <1>9, <1>a DEF Adopt, Rotate, Pick, Install, PickFailed, Proceed, Goto,
                      Recycling
  <2> QED BY <1>9, <2>1, SameClaim DEF Adopt, Rotate, Pick, Install, PickFailed
<1>10. ASSUME NEW t \in Threads, Acknowledge(t)
       PROVE  ClaimExclusive' /\ InHand'
  <2>1. holders = {t}
    BY <1>10 DEF Acknowledge, Recycling, InHand, LeaseInv, ClaimExclusive
  <2>2. holders' = {} /\ ~claimed'
    BY <1>10, <2>1 DEF Acknowledge, AcknowledgeRestart
  <2>3. \A u \in Threads : ~Recycling(u)'
    BY <1>10, <1>a, <2>1
       DEF Acknowledge, Goto, Recycling, InHand, LeaseInv
  <2> QED BY <2>2, <2>3 DEF ClaimExclusive, InHand
<1>11. ASSUME NEW t \in Threads, Clear(t)
       PROVE  ClaimExclusive' /\ InHand'
  <2>1. \A u \in Threads : Recycling(u)' => Recycling(u)
    BY <1>11, <1>a DEF Clear, Proceed, Goto, Recycling
  <2> QED BY <1>11, <2>1, SameClaim DEF Clear
<1> QED BY <1>1, <1>2, <1>3, <1>4, <1>5, <1>6, <1>7, <1>8, <1>9, <1>10, <1>11
        DEF HttpNext, Work, Judge, Recycle

\* One thread at a time is told to recycle, and the flag says exactly that.
THEOREM OneClaim == HttpSpec => []ClaimExclusive
<1>1. HttpSpec => []LeaseInv
  BY LeaseInit, LeaseStep, PTL DEF HttpSpec
<1>2. LeaseInv => ClaimExclusive
  BY DEF LeaseInv
<1> QED BY <1>1, <1>2, PTL

-----------------------------------------------------------------------------
(***************************************************************************)
(* What becomes of a claim.  The thread that holds it goes on to           *)
(* acknowledge it, by any step of its own or of another thread, with one   *)
(* exception: pick() raising in the middle of the recycle.                 *)
(***************************************************************************)
LEMMA LiveKept ==
    ASSUME holders' = holders, claimed' = claimed, ClaimIsLive,
           \A u \in Threads : Recycling(u) => Recycling(u)',
           holders \subseteq Threads
    PROVE  ClaimIsLive'
  BY DEF ClaimIsLive

LEMMA ClaimStep ==
    ASSUME LeaseInv, ClaimIsLive, [HttpNext]_httpVars
    PROVE  ClaimIsLive' \/ \E t \in Threads : PickFailed(t)
<1>a. TypeInv /\ DOMAIN job = Threads /\ pc \in [Threads -> Labels]
      /\ holders \subseteq Threads
  BY JobIsFunction DEF LeaseInv, TypeInv, TrackerTypeOK
<1>b. (UNCHANGED trackerVars) => holders' = holders /\ claimed' = claimed
  BY DEF trackerVars
<1>1. CASE UNCHANGED httpVars
  <2>1. \A u \in Threads : Recycling(u) => Recycling(u)'
    BY <1>1 DEF httpVars, Recycling
  <2> QED BY <1>1, <2>1, <1>a, <1>b, LiveKept DEF httpVars
<1>2. CASE HttpTick
  <2>1. \A u \in Threads : Recycling(u) => Recycling(u)'
    BY <1>2 DEF HttpTick, Recycling
  <2> QED BY <1>2, <2>1, <1>a, <1>b, LiveKept DEF HttpTick
\* Steps of a thread that is not recycling, or goes on recycling.
<1>3. ASSUME NEW t \in Threads,
             \/ Begin(t) \/ GetSession(t) \/ Answer(t) \/ RecordHealth(t)
             \/ Rotate(t) \/ Pick(t) \/ Install(t) \/ Clear(t)
      PROVE  ClaimIsLive'
  <2>1. UNCHANGED trackerVars
    BY <1>3 DEF Begin, GetSession, Register, Lookup, Create, Store, Fetch, GiveUp, Answer,
                RecordHealth, Rotate, Pick, Install, Clear
  <2>2. \A u \in Threads : Recycling(u) => Recycling(u)'
    <3>1. CASE Begin(t) \/ GetSession(t)
      BY <3>1, <1>a DEF Begin, GetSession, Register, Lookup, Create, Store, Fetch, GiveUp,
                        Proceed, Goto, Recycling
    <3>2. CASE Answer(t)
      BY <3>2, <1>a DEF Answer, Goto, Recycling
    <3>3. CASE RecordHealth(t) \/ Clear(t)
      BY <3>3, <1>a DEF RecordHealth, Clear, Proceed, Goto, Recycling
    <3>4. CASE Rotate(t) \/ Pick(t) \/ Install(t)
      BY <3>4, <1>a DEF Rotate, Pick, Install, Proceed, Goto, Recycling
    <3> QED BY <1>3, <3>1, <3>2, <3>3, <3>4
  <2> QED BY <2>1, <2>2, <1>a, <1>b, LiveKept
<1>4. ASSUME NEW t \in Threads, CountBan(t)
      PROVE  ClaimIsLive'
  <2>1. CASE Claims(streak + 1)
    <3>1. t \in holders' /\ pc'[t] = "adopt"
      BY <1>4, <2>1, <1>a DEF CountBan, RecordBan, Proceed, Goto
    <3> QED BY <3>1 DEF ClaimIsLive, Recycling
  <2>2. CASE ~Claims(streak + 1)
    <3>1. holders' = holders
      BY <1>4, <2>2 DEF CountBan, RecordBan
    <3>2. claimed' = claimed
      BY <1>4, <2>2, <1>a, Zenon DEF CountBan, RecordBan, TypeInv, TrackerTypeOK
    <3>3. \A u \in Threads : Recycling(u) => Recycling(u)'
      BY <1>4, <2>2, <1>a DEF CountBan, Proceed, Goto, Recycling
    <3> QED BY <3>1, <3>2, <3>3, <1>a, LiveKept
  <2> QED BY <2>1, <2>2
<1>5. ASSUME NEW t \in Threads, CountClean(t)
      PROVE  ClaimIsLive'
  <2>1. holders' = holders /\ claimed' = claimed
    BY <1>5 DEF CountClean, RecordClean
  <2>2. \A u \in Threads : Recycling(u) => Recycling(u)'
    BY <1>5, <1>a DEF CountClean, Proceed, Goto, Recycling
  <2> QED BY <2>1, <2>2, <1>a, LiveKept
\* A thread that adopts has counted a ban.
<1>6. ASSUME NEW t \in Threads, Adopt(t)
      PROVE  ClaimIsLive'
  <2>1. job[t].ending # "transport"
    BY <1>6, <1>a DEF Adopt, TypeInv, Judged
  <2>2. \A u \in Threads : Recycling(u) => Recycling(u)'
    BY <1>6, <1>a, <2>1 DEF Adopt, Goto, Recycling
  <2> QED BY <1>6, <2>2, <1>a, <1>b, LiveKept DEF Adopt
<1>7. ASSUME NEW t \in Threads, Acknowledge(t)
      PROVE  ClaimIsLive'
  BY <1>7 DEF Acknowledge, AcknowledgeRestart, ClaimIsLive
<1> QED BY <1>1, <1>2, <1>3, <1>4, <1>5, <1>6, <1>7
        DEF HttpNext, Work, Judge, Recycle

\* Whatever the settings, only an IndexError of pick() makes the engine lose a claim.
THEOREM ClaimsLostOnlyByPick == HttpSpec => ClaimLostOnlyByPick
<1>1. HttpSpec => []LeaseInv
  BY LeaseInit, LeaseStep, PTL DEF HttpSpec
<1>2. LeaseInv /\ [HttpNext]_httpVars =>
          [ClaimIsLive => \/ ClaimIsLive'
                          \/ \E t \in Threads : PickFailed(t)]_httpVars
  BY ClaimStep
<1> QED BY <1>1, <1>2, PTL DEF HttpSpec, ClaimLostOnlyByPick

\* So with the registry off, or without a pool, every claim is on its way to being
\* acknowledged: the next ban wave can recycle.
THEOREM ClaimsLive ==
    ASSUME ~HealthOn \/ Pool = {}
    PROVE  HttpSpec => []ClaimIsLive
<1> DEFINE Inv == LeaseInv /\ ClaimIsLive /\ NoneRaises
<1>1. HttpInit => Inv
  <2> SUFFICES ASSUME HttpInit PROVE ClaimIsLive /\ NoneRaises
      BY LeaseInit
  <2>1. ClaimIsLive
    BY DEF HttpInit, TrackerInit, ClaimIsLive
  <2>2. NoneRaises
    BY DEF HttpInit, HealthInit, NoPick, NoneRaises
  <2> QED BY <2>1, <2>2
<1>2. Inv /\ [HttpNext]_httpVars => Inv'
  <2> SUFFICES ASSUME LeaseInv, ClaimIsLive, NoneRaises, [HttpNext]_httpVars
               PROVE  ClaimIsLive' /\ NoneRaises'
      BY LeaseStep
  <2>1. \A t \in Threads : ~PickFailed(t)
    BY DEF NoneRaises, PickFailed
  <2>2. NoneRaises'
    BY RegistryStep, PickOffStep DEF LeaseInv, TypeInv
  <2> QED BY <2>1, <2>2, ClaimStep
<1>3. Inv => ClaimIsLive
  OBVIOUS
<1> HIDE DEF Inv
<1> QED BY <1>1, <1>2, <1>3, PTL DEF HttpSpec

-----------------------------------------------------------------------------
\* With a pool, the default proxy is one of it: rotations pick from the pool, and
\* the proxy of a request is adopted only where there is none.
THEOREM DefaultsFromPool == HttpSpec => []DefaultFromPool
<1> DEFINE Inv == TypeInv /\ DefaultFromPool
<1>1. HttpInit => Inv
  BY TypeInit DEF HttpInit, DefaultFromPool
<1>2. Inv /\ [HttpNext]_httpVars => Inv'
  <2> SUFFICES ASSUME TypeInv, DefaultFromPool, [HttpNext]_httpVars, Pool # {}
               PROVE  defaultProxy' \in Pool
      BY TypeStep DEF DefaultFromPool
  <2>a. defaultProxy \in Pool /\ defaultProxy # NoProxy
    BY ProxyHealthAssumption DEF DefaultFromPool
  <2>1. ASSUME NEW t \in Threads, Install(t)
        PROVE  defaultProxy' \in Pool
    BY <2>1 DEF Install, TypeInv, PickInv, CallOK
  <2>2. ASSUME NEW t \in Threads, Adopt(t)
        PROVE  defaultProxy' \in Pool
    BY <2>2, <2>a DEF Adopt
  <2>3. ASSUME NEW t \in Threads, Begin(t) \/ Work(t), ~Install(t), ~Adopt(t)
        PROVE  defaultProxy' = defaultProxy
    BY <2>3 DEF Begin, Work, GetSession, Register, Lookup, Create, Store, Fetch, GiveUp,
                Answer, Judge, RecordHealth, CountBan, CountClean, Recycle, Rotate,
                Pick, PickFailed, Acknowledge, Clear
  <2> QED BY <2>a, <2>1, <2>2, <2>3 DEF HttpNext, HttpTick, httpVars
<1>3. Inv => DefaultFromPool
  OBVIOUS
<1> HIDE DEF Inv
<1> QED BY <1>1, <1>2, <1>3, PTL DEF HttpSpec

-----------------------------------------------------------------------------
\* A step of the engine that leaves holders, lastRestart and the clock alone is
\* a stutter of the lease.
LEMMA LeaseStutter ==
    ASSUME UNCHANGED clock, UNCHANGED trackerVars
    PROVE  UNCHANGED Lease!vars
  BY DEF Lease!vars, trackerVars

LEMMA LeaseRefined == LeaseInv /\ [HttpNext]_httpVars => [Lease!Next]_Lease!vars
<1> SUFFICES ASSUME LeaseInv, [HttpNext]_httpVars
             PROVE  [Lease!Next]_Lease!vars
    OBVIOUS
<1>1. CASE UNCHANGED httpVars
  BY <1>1, LeaseStutter DEF httpVars
<1>2. CASE HttpTick
  <2>1. Lease!Tick
    BY <1>2 DEF HttpTick, HealthTick, ClockTick, trackerVars, Lease!Tick
  <2> QED BY <2>1 DEF Lease!Next
<1>3. ASSUME NEW t \in Threads,
             \/ Begin(t) \/ GetSession(t) \/ Answer(t) \/ RecordHealth(t)
             \/ Adopt(t) \/ Rotate(t) \/ Pick(t) \/ Install(t) \/ PickFailed(t)
             \/ Clear(t)
      PROVE  UNCHANGED Lease!vars
  <2>1. UNCHANGED clock /\ UNCHANGED trackerVars
    BY <1>3 DEF Begin, GetSession, Register, Lookup, Create, Store, Fetch, GiveUp,
                Answer, RecordHealth, Adopt, Rotate, Pick, Install, PickFailed,
                Clear
  <2> QED BY <2>1, LeaseStutter
\* A claim takes the lease: it was free, and its cooldown was over.
<1>4. ASSUME NEW t \in Threads, CountBan(t)
      PROVE  Lease!Take(t) \/ UNCHANGED Lease!vars
  <2>1. CASE Claims(streak + 1)
    <3>1. holders = {}
      BY <2>1 DEF Claims, LeaseInv, ClaimExclusive
    <3>2. lastRestart = 0 \/ clock - lastRestart >= RecycleCooldown
      BY <2>1 DEF Claims, CooldownOver
    <3>3. holders' = {t} /\ UNCHANGED <<lastRestart, clock>>
      BY <1>4, <2>1, <3>1 DEF CountBan, RecordBan
    <3> QED BY <3>1, <3>2, <3>3 DEF Lease!Take
  <2>2. CASE ~Claims(streak + 1)
    BY <1>4, <2>2 DEF CountBan, RecordBan, Lease!vars
  <2> QED BY <2>1, <2>2
<1>5. ASSUME NEW t \in Threads, CountClean(t)
      PROVE  UNCHANGED Lease!vars
  BY <1>5 DEF CountClean, RecordClean, Lease!vars
<1>6. ASSUME NEW t \in Threads, Acknowledge(t)
      PROVE  Lease!GiveBack(t)
  <2>1. holders = {t}
    BY <1>6 DEF Acknowledge, Recycling, InHand, LeaseInv, ClaimExclusive
  <2> QED BY <1>6, <2>1 DEF Acknowledge, AcknowledgeRestart, Lease!GiveBack
<1> QED BY <1>1, <1>2, <1>3, <1>4, <1>5, <1>6
        DEF HttpNext, Work, Judge, Recycle, Lease!Next

\* The engine's threads recycle as RecycleLease says: one at a time, and not
\* before the cooldown since the last acknowledged recycle is over.
THEOREM LeaseHolds == HttpSpec => LeaseSpec
<1>1. HttpInit => Lease!Init
  BY DEF HttpInit, ClockInit, TrackerInit, Lease!Init
<1> QED BY <1>1, LeaseInit, LeaseStep, LeaseRefined, PTL
        DEF HttpSpec, LeaseSpec, Lease!Spec

-----------------------------------------------------------------------------
(***************************************************************************)
(* A recycle reaches everybody.  What was in a dict when a clear_all()     *)
(* began is gone from every dict the clear has passed, and does not come   *)
(* back: a session gets into a dict from the thread that made it, once,    *)
(* and until then it has been in none.  A dict that is not on the list is  *)
(* empty, and none gets on the list while the clear has the lock.          *)
(***************************************************************************)
\* The sessions that a recycle has dropped or is dropping.
Old == fresh.done \union fresh.begun

\* What the cache promises, apart from where the threads are.
CacheInv ==
    /\ \A n \in Old : n # 0 /\ n <= sessions
    /\ \A t \in Threads :
        /\ made[t] <= sessions /\ made[t] \notin Old
        /\ \A u \in Threads \ {t} : made[u] = made[t] => made[t] = 0
    /\ \A t \in Threads, k \in SessionKeys :
        /\ stores[t][k] <= sessions
        /\ t \notin registered => stores[t][k] = 0
        /\ stores[t][k] \notin fresh.done
        /\ clearing # NoThread /\ t \notin toClear => stores[t][k] \notin fresh.begun
        /\ \A u \in Threads : made[u] = stores[t][k] => made[u] = 0

\* And what the threads add to it.
ThreadInv ==
    \A t \in Threads :
        /\ pc[t] \in {"create", "store", "fetch"} => t \in registered
        /\ job[t].floor \subseteq fresh.done
        /\ pc[t] = "calling" => job[t].session \notin job[t].floor

FreshInv == TypeInv /\ CacheInv /\ ThreadInv

LEMMA FreshInit == HttpInit => FreshInv
<1> SUFFICES ASSUME HttpInit PROVE FreshInv
    OBVIOUS
<1>1. TypeInv
  BY TypeInit
<1>2. /\ fresh = [done |-> {}, begun |-> {}] /\ sessions = 0
      /\ clearing = NoThread
      /\ \A t \in Threads : pc[t] = "idle" /\ job[t].floor = {} /\ made[t] = 0
      /\ \A t \in Threads, k \in SessionKeys : stores[t][k] = 0
  BY DEF HttpInit, CacheInit, EmptyStore, NoJob
<1>3. fresh.done = {} /\ fresh.begun = {}
  BY <1>2
<1> QED BY <1>1, <1>2, <1>3 DEF FreshInv, CacheInv, ThreadInv, Old

LEMMA CacheInvCalls ==
    ASSUME CacheTypeOK, CacheInv, NEW t \in Threads,
           \/ CacheRegister(t)
           \/ CacheMake(t)
           \/ t \in registered /\ \E k \in SessionKeys : CacheStore(t, k)
           \/ ClearBegin(t)
           \/ (\E u \in Threads : ClearClose(t, u))
           \/ ClearEmpty(t) \/ ClearEnd(t)
    PROVE  /\ CacheInv'
           /\ fresh.done \subseteq fresh'.done
           /\ registered \subseteq registered'
<1> DEFINE Kept == fresh.done \subseteq fresh'.done /\ registered \subseteq registered'
<1> USE DEF CacheTypeOK
<1>1. CASE CacheRegister(t)
  BY <1>1 DEF CacheRegister, CacheInv, Old
\* A new session is in no dict yet, and no clear has heard of it.
<1>2. CASE CacheMake(t)
  <2>1. \A u \in Threads : made'[u] = IF u = t THEN sessions + 1 ELSE made[u]
    BY <1>2 DEF CacheMake
  <2>2. UNCHANGED <<stores, registered, clearing, toClear, fresh>> /\ sessions' = sessions + 1
    BY <1>2 DEF CacheMake
  <2>3. Old' = Old
    BY <2>2 DEF Old
  <2>4. \A n \in Old : n # 0 /\ n <= sessions /\ n \in Nat
    BY DEF CacheInv, Old
  <2>5. sessions \in Nat /\ sessions + 1 \notin Old
    BY <2>4
  <2>6. \A u \in Threads : made[u] \in Nat /\ made[u] <= sessions /\ made[u] \notin Old
    BY DEF CacheInv
  <2>7. \A u \in Threads :
            /\ made'[u] <= sessions' /\ made'[u] \notin Old'
            /\ \A v \in Threads \ {u} : made'[v] = made'[u] => made'[u] = 0
    BY <2>1, <2>2, <2>3, <2>5, <2>6 DEF CacheInv
  <2>8. ASSUME NEW u \in Threads, NEW j \in SessionKeys
        PROVE  /\ stores[u][j] <= sessions'
               /\ \A v \in Threads : made'[v] = stores[u][j] => made'[v] = 0
    <3>1. stores[u][j] \in Nat /\ stores[u][j] <= sessions
      BY DEF CacheInv
    <3>2. \A v \in Threads : made[v] = stores[u][j] => made[v] = 0
      BY DEF CacheInv
    <3> QED BY <2>1, <2>2, <2>5, <3>1, <3>2
  <2> QED BY <2>2, <2>3, <2>4, <2>7, <2>8 DEF CacheInv
\* It is stored once, and is in no other dict.
<1>3. ASSUME NEW k \in SessionKeys, t \in registered, CacheStore(t, k)
      PROVE  CacheInv' /\ Kept
  <2>1. \A u \in Threads, j \in SessionKeys :
            stores'[u][j] = IF u = t /\ j = k THEN made[t] ELSE stores[u][j]
    BY <1>3 DEF CacheStore
  <2>2. \A u \in Threads : made'[u] = IF u = t THEN 0 ELSE made[u]
    BY <1>3 DEF CacheStore
  <2>3. UNCHANGED <<registered, sessions, clearing, toClear, fresh>> /\ Old' = Old
    BY <1>3 DEF CacheStore, Old
  <2>4. made[t] \notin fresh.done /\ made[t] \notin fresh.begun
    BY DEF CacheInv, Old
  <2>5. 0 \notin Old
    BY DEF CacheInv
  <2>6. \A u \in Threads :
            /\ made'[u] <= sessions' /\ made'[u] \notin Old'
            /\ \A v \in Threads \ {u} : made'[v] = made'[u] => made'[u] = 0
    BY <2>2, <2>3, <2>5 DEF CacheInv
  <2>7. \A u \in Threads, j \in SessionKeys :
            /\ stores'[u][j] <= sessions
            /\ u \notin registered => stores'[u][j] = 0
            /\ stores'[u][j] \notin fresh.done
            /\ clearing # NoThread /\ u \notin toClear =>
                  stores'[u][j] \notin fresh.begun
    BY <1>3, <2>1, <2>4 DEF CacheInv
  <2>8. ASSUME NEW u \in Threads, NEW j \in SessionKeys, NEW v \in Threads,
               made'[v] = stores'[u][j]
        PROVE  made'[v] = 0
    BY <2>1, <2>2, <2>8 DEF CacheInv
  <2> QED BY <2>3, <2>6, <2>7, <2>8 DEF CacheInv
\* The dicts that are not on the list are empty, and the rest is still to clear.
<1>4. CASE ClearBegin(t)
  <2>1. /\ UNCHANGED <<stores, made, registered, sessions>> /\ toClear' = registered
        /\ fresh'.done = fresh.done /\ fresh'.begun = Cached
    BY <1>4 DEF ClearBegin
  <2>2. \A n \in Cached : /\ n # 0
                          /\ \E u \in Threads, j \in SessionKeys : n = stores[u][j]
    BY DEF Cached
  <2>3. /\ \A n \in Cached : n <= sessions
        /\ \A u \in Threads : made[u] \notin Cached
    BY <2>2 DEF CacheInv
  <2>4. Old' = fresh.done \union Cached
    BY <2>1 DEF Old
  <2>5. \A u \in Threads, j \in SessionKeys :
            u \notin toClear' => stores[u][j] \notin Cached
    BY <2>1, <2>2 DEF CacheInv
  <2> QED BY <2>1, <2>2, <2>3, <2>4, <2>5 DEF CacheInv, Old
<1>5. ASSUME NEW u \in Threads, ClearClose(t, u)
      PROVE  CacheInv' /\ Kept
  BY <1>5 DEF ClearClose, CacheInv, Old
<1>6. CASE ClearEmpty(t)
  <2>1. \A u \in Threads, j \in SessionKeys :
            stores'[u][j] = IF u = emptying THEN 0 ELSE stores[u][j]
    BY <1>6 DEF ClearEmpty, EmptyStore
  <2>2. /\ UNCHANGED <<made, registered, sessions, clearing, fresh>>
        /\ toClear' = toClear \ {emptying} /\ Old' = Old
    BY <1>6 DEF ClearEmpty, Old
  <2>3. 0 \notin Old /\ 0 \notin fresh.done /\ 0 \notin fresh.begun
    BY DEF CacheInv, Old
  <2> QED BY <2>1, <2>2, <2>3 DEF CacheInv
\* Every dict has been passed, so what held for fresh.begun holds for fresh.done.
<1>7. CASE ClearEnd(t)
  <2>1. /\ UNCHANGED <<stores, made, registered, sessions, toClear>>
        /\ clearing = t /\ toClear = {} /\ clearing' = NoThread
        /\ fresh'.done = fresh.done \union fresh.begun /\ fresh'.begun = fresh.begun
    BY <1>7 DEF ClearEnd
  <2>2. t # NoThread /\ Old' = Old
    BY <2>1, SessionCacheAssumption DEF Old
  <2> QED BY <2>1, <2>2 DEF CacheInv
<1> QED BY <1>1, <1>2, <1>3, <1>4, <1>5, <1>6, <1>7

LEMMA FreshStep == FreshInv /\ [HttpNext]_httpVars => FreshInv'
<1> SUFFICES ASSUME TypeInv, CacheInv, ThreadInv, [HttpNext]_httpVars
             PROVE  CacheInv' /\ ThreadInv'
    BY TypeStep DEF FreshInv
<1>a. /\ DOMAIN job = Threads /\ pc \in [Threads -> Labels]
      /\ CacheTypeOK
  BY JobIsFunction DEF TypeInv
<1>b. ASSUME UNCHANGED cacheVars PROVE CacheInv'
  BY <1>b DEF cacheVars, CacheInv, Old
<1>1. CASE UNCHANGED httpVars
  BY <1>1, <1>b DEF httpVars, cacheVars, ThreadInv
<1>2. CASE HttpTick
  BY <1>2, <1>b DEF HttpTick, cacheVars, ThreadInv
<1>3. ASSUME NEW t \in Threads, Begin(t)
      PROVE  CacheInv' /\ ThreadInv'
  <2>1. ThreadInv'
    BY <1>3, <1>a DEF Begin, Goto, NoJob, cacheVars, ThreadInv
  <2> QED BY <1>3, <2>1, <1>b DEF Begin
<1>4. ASSUME NEW t \in Threads, Register(t)
      PROVE  CacheInv' /\ ThreadInv'
  <2>1. CacheInv' /\ fresh.done \subseteq fresh'.done /\ registered \subseteq registered'
    BY <1>4, <1>a, CacheInvCalls DEF Register
  <2> QED BY <1>4, <2>1 DEF Register, CacheRegister, ThreadInv
<1>5. ASSUME NEW t \in Threads, Lookup(t)
      PROVE  CacheInv' /\ ThreadInv'
  <2>1. ThreadInv'
    BY <1>5, <1>a DEF Lookup, Goto, cacheVars, ThreadInv, CacheTypeOK
  <2> QED BY <1>5, <2>1, <1>b DEF Lookup
<1>6. ASSUME NEW t \in Threads, Create(t) \/ Store(t)
      PROVE  CacheInv' /\ ThreadInv'
  <2>1. job[t].key \in SessionKeys
    BY DEF TypeInv, ControlTyped, JobsTyped, Jobs
  <2>2. t \in registered
    BY <1>6 DEF Create, Store, ThreadInv
  <2>3. CacheInv'
    BY <1>6, <1>a, <2>1, <2>2, CacheInvCalls DEF Create, Store
  <2> QED BY <1>6, <1>a, <2>2, <2>3
          DEF Create, CacheMake, Store, CacheStore, Goto, ThreadInv
\* The session found is not in fresh.done, so not among those of the floor.
<1>7. ASSUME NEW t \in Threads, Fetch(t)
      PROVE  CacheInv' /\ ThreadInv'
  <2> DEFINE s == stores[t][job[t].key]
  <2>1. job[t].key \in SessionKeys /\ s \in Nat
    BY <1>a DEF TypeInv, ControlTyped, JobsTyped, Jobs, CacheTypeOK
  <2>2. s \notin fresh.done
    BY <2>1 DEF CacheInv
  <2>3. job[t].floor \subseteq fresh.done
    BY DEF ThreadInv
  <2>4. s \notin job[t].floor
    BY <2>2, <2>3
  <2>5. UNCHANGED cacheVars /\ pc' = [pc EXCEPT ![t] = IF s = 0 THEN "missed" ELSE "calling"]
    BY <1>7 DEF Fetch, Goto, Misses
  <2>6. job'[t].session = s /\ job'[t].floor = job[t].floor
    BY <1>7 DEF Fetch, Jobs, TypeInv, ControlTyped, JobsTyped
  <2>7. \A u \in Threads \ {t} : job'[u] = job[u] /\ pc'[u] = pc[u]
    BY <1>7, <1>a, <2>5 DEF Fetch
  <2>8. ThreadInv'
    BY <1>a, <2>3, <2>4, <2>5, <2>6, <2>7 DEF ThreadInv, cacheVars
  <2> QED BY <2>5, <2>8, <1>b
<1>8. ASSUME NEW t \in Threads,
             \/ GiveUp(t) \/ Answer(t) \/ Judge(t) \/ Adopt(t) \/ Rotate(t)
             \/ Pick(t) \/ Install(t) \/ PickFailed(t) \/ Acknowledge(t)
      PROVE  CacheInv' /\ ThreadInv'
  <2>1. UNCHANGED cacheVars
    BY <1>8 DEF GiveUp, Answer, Judge, RecordHealth, CountBan, CountClean, Adopt,
                Rotate, Pick, Install, PickFailed, Acknowledge
  <2>2. \A u \in Threads :
            /\ pc'[u] \in {"create", "store", "fetch", "calling"} => pc'[u] = pc[u]
            /\ job'[u].floor \in {{}, job[u].floor}
            /\ pc'[u] = "calling" => job'[u] = job[u]
    <3>1. CASE Answer(t)
      BY <3>1, <1>a DEF Answer, Goto, NoJob
    <3>2. CASE Judge(t)
      BY <3>2, <1>a
         DEF Judge, RecordHealth, CountBan, CountClean, Proceed, Goto, NoJob
    <3>3. CASE GiveUp(t) \/ Install(t) \/ PickFailed(t)
      BY <3>3, <1>a DEF GiveUp, Install, PickFailed, Proceed, Goto, NoJob
    <3>4. CASE Adopt(t) \/ Rotate(t) \/ Pick(t) \/ Acknowledge(t)
      BY <3>4, <1>a DEF Adopt, Rotate, Pick, Acknowledge, Goto
    <3> QED BY <1>8, <3>1, <3>2, <3>3, <3>4
  <2>3. ThreadInv'
    BY <2>1, <2>2, <1>a DEF cacheVars, ThreadInv
  <2> QED BY <2>1, <2>3, <1>b
<1>9. ASSUME NEW t \in Threads, Clear(t)
      PROVE  CacheInv' /\ ThreadInv'
  <2>1. CacheInv' /\ fresh.done \subseteq fresh'.done /\ registered \subseteq registered'
    BY <1>9, <1>a, CacheInvCalls DEF Clear
  <2>2. \A u \in Threads :
            /\ pc'[u] \in {"create", "store", "fetch", "calling"} => pc'[u] = pc[u]
            /\ job'[u].floor \in {{}, job[u].floor}
            /\ pc'[u] = "calling" => job'[u] = job[u]
    BY <1>9, <1>a DEF Clear, Proceed, Goto, NoJob
  <2> QED BY <2>1, <2>2 DEF ThreadInv
<1> QED BY <1>1, <1>2, <1>3, <1>4, <1>5, <1>6, <1>7, <1>8, <1>9
        DEF HttpNext, Work, GetSession, Recycle

\* No request that looked its session up after a recycle had emptied the cache
\* goes out with a session that was in a dict when that recycle began.
THEOREM RecycleReachesAll == HttpSpec => []FreshAfterRecycle
<1>1. HttpSpec => []FreshInv
  BY FreshInit, FreshStep, PTL DEF HttpSpec
<1>2. FreshInv => FreshAfterRecycle
  BY DEF FreshInv, ThreadInv, FreshAfterRecycle
<1> QED BY <1>1, <1>2, PTL

-----------------------------------------------------------------------------
(***************************************************************************)
(* Requests advance.  A call of pick() visits every proxy once in each of  *)
(* three loops, the later two with two steps for each, and what it visits  *)
(* is a part of the pool whatever becomes available meanwhile; a           *)
(* clear_all() takes two steps for each dict of a list nobody else can     *)
(* touch while it has the lock.                                            *)
(***************************************************************************)
\* What taking a proxy off a part of the pool does to its size.
LEMMA PoolPart ==
    ASSUME NEW S, S \subseteq Pool
    PROVE  /\ Cardinality(Pool) \in Nat
           /\ Cardinality(S) \in 0..Cardinality(Pool)
           /\ \A p \in S : /\ S \ {p} \subseteq Pool
                           /\ Cardinality(S \ {p}) = Cardinality(S) - 1
                           /\ Cardinality(S) > 0
<1>1. IsFiniteSet(Pool)
  BY ProxyHealthAssumption, FS_Subset
<1>2. IsFiniteSet(S) /\ Cardinality(S) <= Cardinality(Pool)
  BY <1>1, FS_Subset
<1>3. Cardinality(Pool) \in Nat /\ Cardinality(S) \in Nat
  BY <1>1, <1>2, FS_CardinalityType
<1>4. ASSUME NEW p \in S
      PROVE  Cardinality(S \ {p}) = Cardinality(S) - 1 /\ Cardinality(S) > 0
  <2>1. Cardinality(S \ {p}) = Cardinality(S) - 1
    BY <1>2, FS_RemoveElement
  <2>2. Cardinality(S \ {p}) \in Nat
    BY <1>2, FS_Subset, FS_CardinalityType
  <2> QED BY <1>3, <2>1, <2>2
<1> QED BY <1>2, <1>3, <1>4

\* The steps left to a call of pick() are a number, and no more than those of one
\* that has just begun.
LEMMA PickStepsBound ==
    ASSUME NEW k, CallOK(k)
    PROVE  PickSteps(k) \in 0..(5 * Cardinality(Pool) + 1)
<1> DEFINE n == Cardinality(Pool)
           m == Cardinality(k.todo)
<1>1. k.todo \subseteq Pool /\ (k.reading # NoProxy => k.reading \in k.todo)
  BY DEF CallOK
<1>2. n \in Nat /\ m \in 0..n /\ (k.reading # NoProxy => m > 0)
  BY <1>1, PoolPart
<1>3. PickSteps(k) = CASE k.phase = "available" -> 4 * n + 1 + m
          [] k.phase = "best" -> 2 * n + 1 + 2 * m - (IF k.reading # NoProxy THEN 1 ELSE 0)
          [] k.phase = "top" -> 1 + 2 * m - (IF k.reading # NoProxy THEN 1 ELSE 0)
          [] OTHER -> 0
  BY DEF PickSteps
<1> HIDE DEF n, m
<1> QED BY <1>2, <1>3 DEF n

\* What is left in each of the loops.
LEMMA PickStepsIn ==
    ASSUME NEW k, CallOK(k)
    PROVE  /\ k.phase = "available" =>
                PickSteps(k) = 4 * Cardinality(Pool) + 1 + Cardinality(k.todo)
           /\ k.phase = "best" => PickSteps(k) =
                2 * Cardinality(Pool) + 1 + 2 * Cardinality(k.todo)
                  - (IF k.reading # NoProxy THEN 1 ELSE 0)
           /\ k.phase = "top" => PickSteps(k) =
                1 + 2 * Cardinality(k.todo) - (IF k.reading # NoProxy THEN 1 ELSE 0)
           /\ k.phase \in {"idle", "picked", "raised"} => PickSteps(k) = 0
  BY DEF PickSteps

LEMMA AdvanceSteps ==
    ASSUME NEW k, CallOK(k), k.phase \in {"available", "best", "top"},
           k.reading = NoProxy
    PROVE  PickSteps(Advance(k)) <= PickSteps(k)
<1> DEFINE on == IF k.open # {} THEN k.open ELSE k.candidates
           b == [k EXCEPT !.phase = "best", !.todo = on]
           u == [k EXCEPT !.phase = "top", !.todo = on]
           n == Cardinality(Pool)
<1>a. k \in Picks /\ on \subseteq Pool /\ on \in SUBSET Proxies /\ k.todo \subseteq Pool
  BY DEF CallOK, Picks
<1>b. n \in Nat /\ Cardinality(on) \in 0..n /\ Cardinality(k.todo) \in 0..n
      /\ Cardinality({}) = 0
  BY <1>a, PoolPart, FS_EmptySet
<1>c. CallOK(Advance(k)) /\ PickSteps(k) \in Nat
  BY AdvanceOK, PickStepsBound
<1>1. CASE k.todo # {} \/ k.phase = "top"
  BY <1>1, <1>c DEF Advance
<1>2. CASE k.todo = {} /\ k.phase = "available"
  <2>1. Advance(k) = b
    BY <1>2 DEF Advance
  <2>2. b.phase = "best" /\ b.todo = on /\ b.reading = NoProxy
    BY <1>a DEF Picks
  <2> HIDE DEF b, on
  <2>3. PickSteps(b) = 2 * n + 1 + 2 * Cardinality(on)
    BY <1>b, <1>c, <2>1, <2>2, PickStepsIn
  <2>4. PickSteps(k) = 4 * n + 1
    <3>1. Cardinality(k.todo) = 0 /\ k.phase = "available"
      BY <1>b, <1>2
    <3> QED BY <1>b, <3>1, PickStepsIn
  <2> HIDE DEF n
  <2> QED BY <1>b, <2>1, <2>3, <2>4
<1>3. CASE k.todo = {} /\ k.phase = "best"
  <2>1. Advance(k) = u
    BY <1>3 DEF Advance
  <2>2. u.phase = "top" /\ u.todo = on /\ u.reading = NoProxy
    BY <1>a DEF Picks
  <2> HIDE DEF u, on
  <2>3. PickSteps(u) = 1 + 2 * Cardinality(on)
    BY <1>b, <1>c, <2>1, <2>2, PickStepsIn
  <2>4. PickSteps(k) = 2 * n + 1
    <3>1. Cardinality(k.todo) = 0 /\ k.phase = "best"
      BY <1>b, <1>3
    <3> QED BY <1>b, <3>1, PickStepsIn
  <2> HIDE DEF n
  <2> QED BY <1>b, <2>1, <2>3, <2>4
<1> QED BY <1>1, <1>2, <1>3

\* Every step of a call leaves it one step less to make at least.
LEMMA VisitedSteps ==
    ASSUME NEW k, CallOK(k), k.phase = "available", NEW p \in k.todo,
           NEW available \in BOOLEAN, available => p \notin k.cool
    PROVE  PickSteps(Visited(k, p, available)) <= PickSteps(k) - 1
<1> DEFINE open == IF available THEN k.open \union {p} ELSE k.open
           todo == k.todo \ {p}
           j == [k EXCEPT !.todo = todo, !.open = open]
           n == Cardinality(Pool)
<1>a. k \in Picks /\ k.reading = NoProxy /\ k.top = {} /\ k.todo \subseteq Pool
  BY DEF CallOK
<1>1. open \in SUBSET Proxies /\ todo \in SUBSET Proxies
  BY <1>a DEF Picks
<1>2. open \intersect k.cool = {} /\ open \subseteq k.candidates
      /\ todo \subseteq k.candidates
  BY DEF CallOK
<1>3. Visited(k, p, available) = Advance(j)
  BY <1>a DEF Visited, Picks
<1>4. /\ n \in Nat /\ Cardinality(k.todo) \in Nat
      /\ Cardinality(todo) = Cardinality(k.todo) - 1
  BY <1>a, PoolPart
<1> HIDE DEF open, todo, n
<1>5. /\ j \in Picks /\ j.phase = k.phase /\ j.todo = todo
      /\ j.open = open /\ j.cool = k.cool /\ j.reading = k.reading
      /\ j.top = k.top /\ j.best = k.best /\ j.domain = k.domain
      /\ j.candidates = k.candidates
  BY <1>a, <1>1 DEF Picks
<1> HIDE DEF j
<1>6. CallOK(j)
  BY <1>a, <1>2, <1>5 DEF CallOK
<1>7. PickSteps(k) = 4 * n + 1 + Cardinality(k.todo)
  BY PickStepsIn DEF n
<1>8. PickSteps(j) = 4 * n + 1 + Cardinality(todo)
  BY <1>5, <1>6, PickStepsIn DEF n
<1>9. PickSteps(Advance(j)) <= PickSteps(j)
  BY <1>a, <1>5, <1>6, AdvanceSteps
<1>10. PickSteps(Advance(j)) \in Nat
  BY <1>a, <1>5, <1>6, AdvanceOK, PickStepsBound
<1> QED BY <1>3, <1>4, <1>7, <1>8, <1>9, <1>10

LEMMA AbsorbSteps ==
    ASSUME NEW k, CallOK(k), k.phase \in {"best", "top"},
           NEW p \in k.todo, NEW score \in Scores,
           k.reading \in {p, NoProxy}
    PROVE  PickSteps(Absorb(k, p, score)) <= PickSteps(k) - 1
<1> DEFINE seen == [k EXCEPT !.todo = k.todo \ {p}, !.reading = NoProxy]
           best == IF Less(k.best, score) THEN score ELSE k.best
           top == IF SameScore(score, k.best) THEN k.top \union {p} ELSE k.top
           b == [seen EXCEPT !.best = best]
           u == [seen EXCEPT !.top = top]
           n == Cardinality(Pool)
           m == Cardinality(k.todo)
<1>a. k \in Picks /\ p \in Proxies /\ k.todo \ {p} \in SUBSET Proxies
      /\ top \in SUBSET Proxies /\ best \in Scores /\ k.todo \subseteq Pool
  BY DEF CallOK, Picks
<1>b. n \in Nat /\ m \in Nat /\ Cardinality(k.todo \ {p}) = m - 1
  BY <1>a, PoolPart
<1>c. top \subseteq k.top \union {p}
  OBVIOUS
<1> HIDE DEF best, top, n, m
<1>1. /\ seen \in Picks /\ seen.phase = k.phase /\ seen.todo = k.todo \ {p}
      /\ seen.reading = NoProxy /\ seen.best = k.best /\ seen.open = k.open
      /\ seen.cool = k.cool /\ seen.top = k.top /\ seen.domain = k.domain
      /\ seen.candidates = k.candidates
  BY <1>a DEF Picks
<1>2. Absorb(k, p, score) = Advance(IF k.phase = "best" THEN b ELSE u)
  BY <1>1 DEF Absorb, best, top
<1> HIDE DEF seen
<1>3. PICK j : /\ Absorb(k, p, score) = Advance(j) /\ CallOK(j)
               /\ j.phase = k.phase /\ j.todo = k.todo \ {p} /\ j.reading = NoProxy
  <2>1. CASE k.phase = "best"
    <3>1. /\ b \in Picks /\ b.phase = "best" /\ b.todo = k.todo \ {p}
          /\ b.reading = NoProxy /\ b.best = best /\ b.open = k.open
          /\ b.cool = k.cool /\ b.top = k.top /\ b.domain = k.domain
          /\ b.candidates = k.candidates
      BY <1>1, <2>1, <1>a DEF Picks
    <3>2. Absorb(k, p, score) = Advance(b)
      BY <1>2, <2>1
    <3> HIDE DEF b
    <3>3. CallOK(b)
      BY <2>1, <3>1 DEF CallOK
    <3> QED BY <2>1, <3>1, <3>2, <3>3
  <2>2. CASE k.phase = "top"
    <3>1. /\ u \in Picks /\ u.phase = "top" /\ u.todo = k.todo \ {p}
          /\ u.reading = NoProxy /\ u.best = k.best /\ u.open = k.open
          /\ u.cool = k.cool /\ u.top = top /\ u.domain = k.domain
          /\ u.candidates = k.candidates
      BY <1>1, <2>2, <1>a DEF Picks
    <3>2. Absorb(k, p, score) = Advance(u)
      BY <1>2, <2>2
    <3> HIDE DEF u
    <3>3. CallOK(u)
      BY <2>2, <3>1, <1>c DEF CallOK
    <3> QED BY <2>2, <3>1, <3>2, <3>3
  <2> QED BY <2>1, <2>2
<1>4. PickSteps(Advance(j)) <= PickSteps(j) /\ PickSteps(Advance(j)) \in Nat
  BY <1>3, AdvanceSteps, AdvanceOK, PickStepsBound
<1>5. CASE k.phase = "best"
  <2>1. PickSteps(k) = 2 * n + 1 + 2 * m - (IF k.reading # NoProxy THEN 1 ELSE 0)
    BY <1>5, PickStepsIn DEF n, m
  <2>2. PickSteps(j) = 2 * n + 1 + 2 * (m - 1)
    <3>1. CallOK(j) /\ j.phase = "best" /\ j.reading = NoProxy
          /\ Cardinality(j.todo) = m - 1
      BY <1>5, <1>3, <1>b
    <3>2. PickSteps(j) = 2 * n + 1 + 2 * Cardinality(j.todo) - 0
      BY <3>1, PickStepsIn DEF n
    <3> QED BY <1>b, <3>1, <3>2
  <2> QED BY <1>3, <1>4, <1>b, <2>1, <2>2
<1>6. CASE k.phase = "top"
  <2>1. PickSteps(k) = 1 + 2 * m - (IF k.reading # NoProxy THEN 1 ELSE 0)
    BY <1>6, PickStepsIn DEF m
  <2>2. PickSteps(j) = 1 + 2 * (m - 1)
    <3>1. CallOK(j) /\ j.phase = "top" /\ j.reading = NoProxy
          /\ Cardinality(j.todo) = m - 1
      BY <1>6, <1>3, <1>b
    <3>2. PickSteps(j) = 1 + 2 * Cardinality(j.todo) - 0
      BY <3>1, PickStepsIn
    <3> QED BY <1>b, <3>1, <3>2
  <2> QED BY <1>3, <1>4, <1>b, <2>1, <2>2
<1> QED BY <1>5, <1>6

LEMMA PickAdvances ==
    ASSUME PickInv, NEW t \in Threads, PickStep(t)
    PROVE  \E j : /\ pick' = [pick EXCEPT ![t] = j]
                  /\ PickSteps(j) \in 0..(PickSteps(pick[t]) - 1)
<1> DEFINE k == pick[t]
<1>a. CallOK(k) /\ k \in Picks /\ pick = [u \in Threads |-> pick[u]]
  BY DEF PickInv, CallOK
<1>b. PickSteps(k) \in Nat
  BY <1>a, PickStepsBound
\* What a step leaves is a call, so it is enough that it counts less.
<1>c. ASSUME NEW j, pick' = [pick EXCEPT ![t] = j], PickSteps(j) <= PickSteps(k) - 1
      PROVE  PickSteps(j) \in 0..(PickSteps(k) - 1)
  <2>1. PICK i : pick' = [pick EXCEPT ![t] = i] /\ CallOK(i)
    BY CallSteps
  <2>2. i = j
    BY <1>a, <1>c, <2>1
  <2>3. PickSteps(j) \in Nat
    BY <2>1, <2>2, PickStepsBound
  <2> HIDE DEF k
  <2> QED BY <1>b, <1>c, <2>3
<1>d. ASSUME NEW j, pick' = [pick EXCEPT ![t] = j], PickSteps(j) <= PickSteps(k) - 1
      PROVE  \E i : /\ pick' = [pick EXCEPT ![t] = i]
                    /\ PickSteps(i) \in 0..(PickSteps(pick[t]) - 1)
  BY <1>c, <1>d
<1>1. CASE PickAvailable(t)
  <2> DEFINE available(p) == IsAvailable(p, k.domain)
  <2>1. PICK p \in k.todo :
            pick' = [pick EXCEPT ![t] = Visited(k, p, available(p))]
    BY <1>1 DEF PickAvailable
  <2>2. available(p) => p \notin k.cool
    BY DEF PickInv, StillCool, IsAvailable
  <2>3. available(p) \in BOOLEAN /\ k.phase = "available"
    BY <1>1 DEF PickAvailable, IsAvailable
  <2> HIDE DEF available
  <2>4. PickSteps(Visited(k, p, available(p))) <= PickSteps(k) - 1
    BY <1>a, <2>2, <2>3, VisitedSteps
  <2> QED BY <1>d, <2>1, <2>4
\* The first half of score() either reads on or is done with the proxy.
<1>2. CASE PickScoreCheck(t)
  <2>1. PICK p \in k.todo : pick' = [pick EXCEPT ![t] =
                        IF IsAvailable(p, k.domain)
                        THEN [k EXCEPT !.reading = p]
                        ELSE Absorb(k, p, Unavailable)]
    BY <1>2 DEF PickScoreCheck
  <2>2. k.phase \in {"best", "top"} /\ k.reading = NoProxy /\ p # NoProxy
    BY <1>2, <1>a, ProxyHealthAssumption DEF PickScoreCheck, Picks
  <2> DEFINE j == [k EXCEPT !.reading = p]
  <2>3. j.phase = k.phase /\ j.todo = k.todo /\ j.reading = p
    BY <1>a DEF Picks
  <2>4. PickSteps(j) <= PickSteps(k) - 1
    <3> DEFINE n == Cardinality(Pool)
               m == Cardinality(k.todo)
    <3>1. n \in Nat /\ m \in Nat
      BY <1>a, PoolPart DEF CallOK
    <3>2. PickSteps(j) = IF k.phase = "best" THEN 2 * n + 1 + 2 * m - 1 ELSE 1 + 2 * m - 1
      <4> HIDE DEF j, k
      <4> QED BY <2>2, <2>3 DEF PickSteps
    <3>3. PickSteps(k) = IF k.phase = "best" THEN 2 * n + 1 + 2 * m - 0 ELSE 1 + 2 * m - 0
      <4> HIDE DEF j, k
      <4> QED BY <2>2 DEF PickSteps
    <3> HIDE DEF n, m, j, k
    <3> QED BY <3>1, <3>2, <3>3
  <2>5. PickSteps(Absorb(k, p, Unavailable)) <= PickSteps(k) - 1
    BY <1>a, <2>2, UnavailableOK, AbsorbSteps
  <2> HIDE DEF j
  <2>6. CASE IsAvailable(p, k.domain)
    <3>1. pick' = [pick EXCEPT ![t] = j]
      BY <2>1, <2>6 DEF j
    <3> QED BY <1>d, <2>4, <3>1
  <2>7. CASE ~IsAvailable(p, k.domain)
    <3>1. pick' = [pick EXCEPT ![t] = Absorb(k, p, Unavailable)]
      BY <2>1, <2>7
    <3> QED BY <1>d, <2>5, <3>1
  <2> QED BY <2>6, <2>7
<1>3. CASE PickScoreRead(t)
  <2> DEFINE score == Score(k.reading, k.domain)
  <2>1. pick' = [pick EXCEPT ![t] = Absorb(k, k.reading, score)]
    BY <1>3 DEF PickScoreRead
  <2>s. score \in Scores
    BY ScoreOK DEF PickInv, CircuitInv, SlotsTyped
  <2> HIDE DEF score
  <2>2. k.reading # NoProxy /\ k.reading \in k.todo /\ k.phase \in {"best", "top"}
    BY <1>3, <1>a DEF PickScoreRead, CallOK
  <2>3. PickSteps(Absorb(k, k.reading, score)) <= PickSteps(k) - 1
    BY <1>a, <2>2, <2>s, AbsorbSteps
  <2> QED BY <1>d, <2>1, <2>3
<1>4. CASE PickChoose(t)
  <2>1. k.phase = "top" /\ k.todo = {} /\ k.reading = NoProxy
    BY <1>4, <1>a DEF PickChoose, CallOK
  <2>2. PickSteps(k) = 1
    <3>1. Cardinality(k.todo) = 0
      BY <2>1, FS_EmptySet
    <3> HIDE DEF k
    <3> QED BY <2>1, <3>1 DEF PickSteps
  <2>3. CASE pick' = [pick EXCEPT ![t].phase = "raised"]
    <3> DEFINE j == [k EXCEPT !.phase = "raised"]
    <3>1. pick' = [pick EXCEPT ![t] = j]
      BY <2>3
    <3>2. j.phase = "raised"
      BY <1>a DEF Picks
    <3> HIDE DEF j
    <3>3. PickSteps(j) = 0
      BY <3>2 DEF PickSteps
    <3>4. PickSteps(j) <= PickSteps(k) - 1
      BY <2>2, <3>3
    <3> QED BY <1>d, <3>1, <3>4
  <2>4. ASSUME NEW p \in k.top,
               pick' = [pick EXCEPT ![t].phase = "picked", ![t].result = p]
        PROVE  \E j : /\ pick' = [pick EXCEPT ![t] = j]
                      /\ PickSteps(j) \in 0..(PickSteps(pick[t]) - 1)
    <3> DEFINE j == [k EXCEPT !.phase = "picked", !.result = p]
    <3>1. pick' = [pick EXCEPT ![t] = j]
      BY <2>4 DEF PickInv
    <3>2. j.phase = "picked"
      BY <1>a DEF Picks
    <3> HIDE DEF j
    <3>3. PickSteps(j) = 0
      BY <3>2 DEF PickSteps
    <3>4. PickSteps(j) <= PickSteps(k) - 1
      BY <2>2, <3>3
    <3> QED BY <1>d, <3>1, <3>4
  <2> QED BY <1>4, <2>3, <2>4 DEF PickChoose
<1> QED BY <1>1, <1>2, <1>3, <1>4 DEF PickStep

\* The thread in clear_all() is the one that has the lock, and what it is emptying
\* is on its list.
LockInv ==
    /\ \A t \in Threads : pc[t] = "clearing" <=> clearing = t
    /\ emptying # NoThread => emptying \in toClear
    /\ clearing = NoThread => emptying = NoThread

LEMMA LockInit == HttpInit => LockInv
  BY SessionCacheAssumption DEF HttpInit, CacheInit, LockInv

LEMMA LockStep == TypeInv /\ LockInv /\ [HttpNext]_httpVars => LockInv'
<1> SUFFICES ASSUME TypeInv, LockInv, [HttpNext]_httpVars PROVE LockInv'
    OBVIOUS
<1> DEFINE Same == UNCHANGED <<clearing, emptying, toClear>>
           SameAt == \A u \in Threads : pc'[u] = "clearing" <=> pc[u] = "clearing"
<1>a. pc \in [Threads -> Labels] /\ NoThread \notin Threads
  BY SessionCacheAssumption DEF TypeInv, ControlTyped
<1>b. Same /\ SameAt => LockInv'
  BY DEF LockInv
<1>1. CASE UNCHANGED httpVars \/ HttpTick
  BY <1>1, <1>b DEF httpVars, cacheVars, HttpTick
<1>2. ASSUME NEW t \in Threads, Begin(t) \/ GetSession(t)
      PROVE  LockInv'
  BY <1>2, <1>a, <1>b
     DEF Begin, GetSession, Register, CacheRegister, Lookup, Create, CacheMake,
         Store, CacheStore,
         Fetch, GiveUp, Proceed, Goto, cacheVars
<1>3. ASSUME NEW t \in Threads,
             Answer(t) \/ Judge(t) \/ Adopt(t) \/ Rotate(t) \/ Pick(t)
               \/ Install(t) \/ PickFailed(t) \/ Acknowledge(t)
      PROVE  LockInv'
  BY <1>3, <1>a, <1>b
     DEF Answer, Judge, RecordHealth, CountBan, CountClean, Adopt, Rotate, Pick,
         Install, PickFailed, Acknowledge, Proceed, Goto, cacheVars
<1>4. ASSUME NEW t \in Threads, Clear(t)
      PROVE  LockInv'
  <2>1. CASE pc[t] = "clear" /\ ClearBegin(t) /\ Proceed(t, "clearing")
    BY <1>a, <2>1 DEF ClearBegin, Proceed, Goto, LockInv
  <2>2. ASSUME NEW u \in Threads, ClearClose(t, u), UNCHANGED pc
        PROVE  LockInv'
    BY <1>a, <2>2 DEF ClearClose, LockInv
  <2>3. CASE ClearEmpty(t) /\ UNCHANGED pc
    BY <1>a, <2>3 DEF ClearEmpty, LockInv
  <2>4. CASE pc[t] = "clearing" /\ ClearEnd(t) /\ Proceed(t, "idle")
    BY <1>a, <2>4 DEF ClearEnd, Proceed, Goto, LockInv
  <2> QED BY <1>4, <2>1, <2>2, <2>3, <2>4 DEF Clear
<1> QED BY <1>1, <1>2, <1>3, <1>4 DEF HttpNext, Work, Recycle

\* What is left of a clear_all() that has the dicts of S to empty.
LEMMA ListedSteps ==
    ASSUME NEW S, S \subseteq Threads, NEW e, e # NoThread => e \in S
    PROVE  /\ Cardinality(Threads) \in Nat
           /\ Cardinality(S) \in 0..Cardinality(Threads)
           /\ e # NoThread => /\ Cardinality(S) > 0
                              /\ Cardinality(S \ {e}) = Cardinality(S) - 1
<1>1. IsFiniteSet(Threads)
  BY HttpAssumption
<1>2. IsFiniteSet(S) /\ Cardinality(S) <= Cardinality(Threads)
  BY <1>1, FS_Subset
<1>3. Cardinality(Threads) \in Nat /\ Cardinality(S) \in Nat
  BY <1>1, <1>2, FS_CardinalityType
<1>4. ASSUME e \in S
      PROVE  Cardinality(S \ {e}) = Cardinality(S) - 1 /\ Cardinality(S) > 0
  <2>1. Cardinality(S \ {e}) = Cardinality(S) - 1
    BY <1>2, <1>4, FS_RemoveElement
  <2>2. Cardinality(S \ {e}) \in Nat
    BY <1>2, FS_Subset, FS_CardinalityType
  <2> QED BY <1>3, <2>1, <2>2
<1> QED BY <1>2, <1>3, <1>4

Sizes == Cardinality(Threads) \in Nat /\ Cardinality(Pool) \in Nat

LEMMA SizesOK == Sizes
  BY ListedSteps, PoolPart DEF Sizes

LEMMA GetAdvances ==
    ASSUME TypeInv, NEW t \in Threads, GetSession(t) \/ Answer(t)
    PROVE  StepsLeft(t)' \in 0..(StepsLeft(t) - 1)
<1> DEFINE c == 2 * Cardinality(Threads) + 1
           n == Cardinality(Pool)
<1>a. pc \in [Threads -> Labels] /\ c \in Nat /\ n \in Nat
  BY SizesOK DEF Sizes, TypeInv, ControlTyped
<1> HIDE DEF c, n
<1>1. CASE Register(t)
  <2>1. pc[t] = "lookup" /\ t \notin registered /\ pc'[t] = "lookup" /\ t \in registered'
    BY <1>1 DEF Register, CacheRegister
  <2> QED BY <1>a, <2>1 DEF StepsLeft, c, n
<1>2. CASE Lookup(t)
  <2>1. pc[t] = "lookup" /\ t \in registered /\ pc'[t] \in {"create", "fetch"}
    BY <1>a, <1>2 DEF Lookup, Goto
  <2>2. StepsLeft(t) = c + 2 + 5 * n + 2 + 9
    BY <2>1 DEF StepsLeft, c, n
  <2>3. StepsLeft(t)' \in {c + 2 + 5 * n + 2 + 8, c + 2 + 5 * n + 2 + 6}
    BY <2>1 DEF StepsLeft, c, n
  <2> QED BY <1>a, <2>2, <2>3
<1>3. CASE Create(t)
  <2>1. pc[t] = "create" /\ pc'[t] = "store"
    BY <1>a, <1>3 DEF Create, Goto
  <2> QED BY <1>a, <2>1 DEF StepsLeft, c, n
<1>7. CASE Store(t)
  <2>1. pc[t] = "store" /\ pc'[t] = "fetch"
    BY <1>a, <1>7 DEF Store, Goto
  <2> QED BY <1>a, <2>1 DEF StepsLeft, c, n
<1>4. CASE Fetch(t)
  <2>1. pc[t] = "fetch" /\ pc'[t] \in {"missed", "calling"}
    BY <1>a, <1>4 DEF Fetch, Goto
  <2>2. StepsLeft(t) = c + 2 + 5 * n + 2 + 6
    BY <2>1 DEF StepsLeft, c, n
  <2>3. StepsLeft(t)' \in {c + 2 + 5 * n + 2 + 5}
    BY <2>1 DEF StepsLeft, c, n
  <2> QED BY <1>a, <2>2, <2>3
<1>5. CASE GiveUp(t)
  <2>1. pc[t] = "missed" /\ pc'[t] = "idle"
    BY <1>a, <1>5 DEF GiveUp, Proceed, Goto
  <2> QED BY <1>a, <2>1 DEF StepsLeft, c, n
<1>6. CASE Answer(t)
  <2>1. pc[t] = "calling" /\ pc'[t] \in {"idle", "bans", "health"}
    BY <1>a, <1>6 DEF Answer, Goto
  <2>2. StepsLeft(t) = c + 2 + 5 * n + 2 + 5
    BY <2>1 DEF StepsLeft, c, n
  <2>3. StepsLeft(t)' \in {0, c + 2 + 5 * n + 2 + 3, c + 2 + 5 * n + 2 + 4}
    BY <2>1 DEF StepsLeft, c, n
  <2> QED BY <1>a, <2>2, <2>3
<1> QED BY <1>1, <1>2, <1>3, <1>4, <1>5, <1>6, <1>7 DEF GetSession

LEMMA JudgeAdvances ==
    ASSUME TypeInv, NEW t \in Threads, Judge(t) \/ Adopt(t) \/ Acknowledge(t)
    PROVE  StepsLeft(t)' \in 0..(StepsLeft(t) - 1)
<1> DEFINE c == 2 * Cardinality(Threads) + 1
           n == Cardinality(Pool)
<1>a. pc \in [Threads -> Labels] /\ c \in Nat /\ n \in Nat
  BY SizesOK DEF Sizes, TypeInv, ControlTyped
<1> HIDE DEF c, n
<1>1. CASE RecordHealth(t)
  <2>1. pc[t] = "health" /\ pc'[t] \in {"bans", "idle", "rotate"}
    BY <1>a, <1>1 DEF RecordHealth, Proceed, Goto
  <2>2. StepsLeft(t) = c + 2 + 5 * n + 2 + 4
    BY <2>1 DEF StepsLeft, c, n
  <2>3. StepsLeft(t)' \in {0, c + 2 + 5 * n + 2 + 3, c + 2 + 5 * n + 2 + 1}
    BY <2>1 DEF StepsLeft, c, n
  <2> QED BY <1>a, <2>2, <2>3
<1>2. CASE CountBan(t) \/ CountClean(t)
  <2>1. pc[t] = "bans" /\ pc'[t] \in {"adopt", "idle"}
    BY <1>a, <1>2 DEF CountBan, CountClean, Proceed, Goto
  <2>2. StepsLeft(t) = c + 2 + 5 * n + 2 + 3
    BY <2>1 DEF StepsLeft, c, n
  <2>3. StepsLeft(t)' \in {0, c + 2 + 5 * n + 2 + 2}
    BY <2>1 DEF StepsLeft, c, n
  <2> QED BY <1>a, <2>2, <2>3
<1>3. CASE Adopt(t)
  <2>1. pc[t] = "adopt" /\ pc'[t] \in {"acknowledge", "rotate"}
    BY <1>a, <1>3 DEF Adopt, Goto
  <2>2. StepsLeft(t) = c + 2 + 5 * n + 2 + 2
    BY <2>1 DEF StepsLeft, c, n
  <2>3. StepsLeft(t)' \in {c + 2, c + 2 + 5 * n + 2 + 1}
    BY <2>1 DEF StepsLeft, c, n
  <2> QED BY <1>a, <2>2, <2>3
<1>4. CASE Acknowledge(t)
  <2>1. pc[t] = "acknowledge" /\ pc'[t] = "clear"
    BY <1>a, <1>4 DEF Acknowledge, Goto
  <2> QED BY <1>a, <2>1 DEF StepsLeft, c, n
<1> QED BY <1>1, <1>2, <1>3, <1>4 DEF Judge

\* A rotation: a call of pick() is begun, makes its steps and ends.
LEMMA RotationAdvances ==
    ASSUME TypeInv, TypeInv', NEW t \in Threads,
           Rotate(t) \/ Pick(t) \/ Install(t) \/ PickFailed(t)
    PROVE  StepsLeft(t)' \in 0..(StepsLeft(t) - 1)
<1> DEFINE c == 2 * Cardinality(Threads) + 1
           n == Cardinality(Pool)
           left(k) == PickSteps(k)
<1>a. pc \in [Threads -> Labels] /\ c \in Nat /\ n \in Nat
  BY SizesOK DEF Sizes, TypeInv, ControlTyped
<1>b. pc[t] = "picking" => StepsLeft(t) = c + 3 + left(pick[t])
  BY DEF StepsLeft
<1>c. pc'[t] = "picking" => StepsLeft(t)' = c + 3 + left(pick'[t])
  BY DEF StepsLeft, PickSteps
<1>d. left(pick[t]) \in 0..(5 * n + 1) /\ left(pick'[t]) \in 0..(5 * n + 1)
  <2>1. CallOK(pick[t])
    BY DEF TypeInv, PickInv
  <2>2. CallOK(pick'[t])
    BY DEF TypeInv, PickInv, CallOK
  <2> QED BY <2>1, <2>2, PickStepsBound
<1> HIDE DEF c, n, left
<1>1. CASE Rotate(t)
  <2>1. pc[t] = "rotate" /\ pc'[t] = "picking"
    BY <1>a, <1>1 DEF Rotate, Goto
  <2>2. StepsLeft(t) = c + 2 + 5 * n + 2 + 1
    BY <2>1 DEF StepsLeft, c, n
  <2> QED BY <1>a, <1>c, <1>d, <2>1, <2>2
<1>2. CASE Pick(t)
  <2>1. PICK j : /\ pick' = [pick EXCEPT ![t] = j]
                 /\ left(j) \in 0..(left(pick[t]) - 1)
    BY <1>2, PickAdvances DEF Pick, TypeInv, left
  <2>2. pick'[t] = j
    BY <2>1 DEF TypeInv, PickInv
  <2>3. pc[t] = "picking" /\ pc'[t] = "picking"
    BY <1>2 DEF Pick
  <2> QED BY <1>a, <1>b, <1>c, <1>d, <2>1, <2>2, <2>3
<1>3. CASE Install(t) \/ PickFailed(t)
  <2>1. pc[t] = "picking" /\ pc'[t] \in {"idle", "acknowledge"}
    BY <1>a, <1>3 DEF Install, PickFailed, Proceed, Goto
  <2>2. StepsLeft(t)' \in {0, c + 2}
    BY <2>1 DEF StepsLeft, c
  <2> QED BY <1>a, <1>b, <1>d, <2>1, <2>2
<1> QED BY <1>1, <1>2, <1>3

LEMMA ClearAdvances ==
    ASSUME TypeInv, TypeInv', LockInv, LockInv', NEW t \in Threads, Clear(t)
    PROVE  StepsLeft(t)' \in 0..(StepsLeft(t) - 1)
<1> DEFINE n == Cardinality(Threads)
           m == Cardinality(toClear)
           p == Cardinality(toClear')
<1>a. pc \in [Threads -> Labels] /\ NoThread \notin Threads
  BY SessionCacheAssumption DEF TypeInv, ControlTyped
<1>b. n \in Nat /\ m \in 0..n /\ (emptying # NoThread => m > 0)
      /\ (emptying # NoThread => Cardinality(toClear \ {emptying}) = m - 1)
  BY ListedSteps DEF LockInv, TypeInv, CacheTypeOK
<1>c. p \in 0..n /\ (emptying' # NoThread => p > 0)
  BY ListedSteps DEF LockInv, TypeInv, CacheTypeOK
<1>d. pc[t] = "clearing" =>
          StepsLeft(t) = 1 + 2 * m - (IF emptying # NoThread THEN 1 ELSE 0)
  BY <1>b DEF StepsLeft, ClearSteps
<1>e. pc'[t] = "clearing" =>
          StepsLeft(t)' = 1 + 2 * p - (IF emptying' # NoThread THEN 1 ELSE 0)
  BY <1>c DEF StepsLeft, ClearSteps
<1>f. pc'[t] = "idle" => StepsLeft(t)' = 0
  BY DEF StepsLeft
<1>1. CASE pc[t] = "clear" /\ ClearBegin(t) /\ Proceed(t, "clearing")
  <2>1. pc'[t] = "clearing" /\ StepsLeft(t) = 2 * n + 2
    BY <1>a, <1>b, <1>1 DEF Proceed, Goto, StepsLeft
  <2> HIDE DEF n, p
  <2> QED BY <1>b, <1>c, <1>e, <2>1
<1>2. ASSUME NEW u \in Threads, ClearClose(t, u), pc[t] = "clearing", UNCHANGED pc
      PROVE  StepsLeft(t)' \in 0..(StepsLeft(t) - 1)
  <2>1. emptying = NoThread /\ emptying' # NoThread /\ p = m
    BY <1>a, <1>2 DEF ClearClose
  <2> HIDE DEF n, m, p
  <2> QED BY <1>b, <1>c, <1>d, <1>e, <1>2, <2>1
<1>3. CASE ClearEmpty(t) /\ pc[t] = "clearing" /\ UNCHANGED pc
  <2>1. emptying # NoThread /\ emptying' = NoThread /\ p = m - 1
    BY <1>b, <1>3 DEF ClearEmpty
  <2> HIDE DEF n, m, p
  <2> QED BY <1>b, <1>c, <1>d, <1>e, <1>3, <2>1
<1>4. CASE pc[t] = "clearing" /\ ClearEnd(t) /\ Proceed(t, "idle")
  <2>1. emptying = NoThread /\ pc'[t] = "idle"
    BY <1>a, <1>4 DEF ClearEnd, Proceed, Goto
  <2> HIDE DEF n, m, p
  <2> QED BY <1>b, <1>d, <1>f, <1>4, <2>1
<1> QED BY <1>1, <1>2, <1>3, <1>4 DEF Clear

\* What another thread does, and time, leave the request where it is: the list of a
\* clear_all() is its own while it lasts, and its call of pick() too.
LEMMA OthersKeep ==
    ASSUME TypeInv, LockInv, [HttpNext]_httpVars, NEW t \in Threads,
           ~(Begin(t) \/ Work(t))
    PROVE  /\ pc'[t] = pc[t] /\ registered \subseteq registered'
           /\ PickSteps(pick[t])' = PickSteps(pick[t])
           /\ pc[t] = "clearing" => UNCHANGED <<toClear, emptying>>
<1>a. /\ pc \in [Threads -> Labels] /\ pick = [u \in Threads |-> pick[u]]
      /\ pick[t] \in Picks
      /\ NoThread \notin Threads /\ registered \subseteq Threads
  BY SessionCacheAssumption
     DEF TypeInv, ControlTyped, CacheTypeOK, PickInv, CallOK
<1>b. pick'[t] = pick[t] => PickSteps(pick[t])' = PickSteps(pick[t])
  BY DEF PickSteps
<1>1. CASE UNCHANGED httpVars
  BY <1>1, <1>b DEF httpVars, cacheVars
<1>2. CASE HttpTick
  <2> DEFINE cool == {q \in pick[t].cool : \E k \in SlotsOf(q, pick[t].domain) :
                        clock' < slots[k].cooldownUntil}
  <2>1. pick'[t] = [pick[t] EXCEPT !.cool = cool]
    BY <1>2 DEF HttpTick, HealthTick
  <2> HIDE DEF cool
  <2>2. pick'[t].phase = pick[t].phase /\ pick'[t].todo = pick[t].todo
        /\ pick'[t].reading = pick[t].reading
    BY <1>a, <2>1 DEF Picks
  <2>3. PickSteps(pick[t])' = PickSteps(pick[t])
    BY <2>2 DEF PickSteps
  <2> QED BY <1>2, <2>3 DEF HttpTick, cacheVars
<1>3. ASSUME NEW u \in Threads \ {t}, Begin(u) \/ GetSession(u)
      PROVE  /\ pc'[t] = pc[t] /\ registered \subseteq registered' /\ pick' = pick
             /\ UNCHANGED <<toClear, emptying>>
  BY <1>3, <1>a
     DEF Begin, GetSession, Register, CacheRegister, Lookup, Create, CacheMake,
         Store, CacheStore,
         Fetch, GiveUp, Proceed, Goto, cacheVars
<1>4. ASSUME NEW u \in Threads \ {t},
             Answer(u) \/ Judge(u) \/ Adopt(u) \/ Rotate(u) \/ Pick(u)
               \/ Install(u) \/ PickFailed(u) \/ Acknowledge(u)
      PROVE  /\ pc'[t] = pc[t] /\ pick'[t] = pick[t] /\ UNCHANGED cacheVars
  BY <1>4, <1>a
     DEF Answer, Judge, RecordHealth, CountBan, CountClean, Adopt, Rotate, Pick,
         Install, PickFailed, Acknowledge, Proceed, Goto, PickStart, PickStep,
         PickAvailable, PickScoreCheck, PickScoreRead, PickChoose, PickEnd
<1>5. ASSUME NEW u \in Threads \ {t}, Clear(u)
      PROVE  /\ pc'[t] = pc[t] /\ pick' = pick /\ UNCHANGED registered
             /\ pc[t] # "clearing"
  <2>1. pc[t] # "clearing"
    BY <1>5, <1>a DEF Clear, ClearBegin, LockInv
  <2>2. pc'[t] = pc[t]
    BY <1>5, <1>a DEF Clear, Proceed, Goto
  <2> QED BY <1>5, <2>1, <2>2 DEF Clear, ClearBegin, ClearClose, ClearEmpty, ClearEnd
<1> QED BY <1>1, <1>2, <1>3, <1>4, <1>5, <1>b DEF HttpNext, Work, Recycle, cacheVars

LEMMA StepsNat ==
    ASSUME TypeInv, LockInv, NEW t \in Threads
    PROVE  StepsLeft(t) \in Nat
<1> DEFINE c == 2 * Cardinality(Threads) + 1
           n == Cardinality(Pool)
           r == c + 2 + 5 * n + 2
<1>1. pc[t] \in Labels /\ c \in Nat /\ n \in Nat /\ r \in Nat
  BY SizesOK DEF Sizes, TypeInv, ControlTyped
<1>2. PickSteps(pick[t]) \in Nat
  BY PickStepsBound, SizesOK DEF TypeInv, PickInv, Sizes
<1>3. ClearSteps \in Nat
  <2>1. /\ Cardinality(Threads) \in Nat /\ Cardinality(toClear) \in 0..Cardinality(Threads)
        /\ emptying # NoThread => Cardinality(toClear) > 0
    BY ListedSteps DEF LockInv, TypeInv, CacheTypeOK
  <2> QED BY <2>1 DEF ClearSteps
<1>4. \/ StepsLeft(t) \in {0, 1 + ClearSteps, c + 1, c + 2, c + 3 + PickSteps(pick[t])}
      \/ StepsLeft(t) \in {r + 1, r + 2, r + 3, r + 4, r + 5, r + 6, r + 7, r + 8,
                         r + 9, r + 10}
  <2>1. CASE pc[t] \in {"idle", "clearing", "clear", "acknowledge", "picking"}
    <3>1. StepsLeft(t) \in {0, 1 + ClearSteps, c + 1, c + 2, c + 3 + PickSteps(pick[t])}
      BY <2>1 DEF StepsLeft
    <3> QED BY <3>1
  <2>2. CASE pc[t] \in {"rotate", "adopt", "bans", "health", "calling", "missed"}
    <3>1. StepsLeft(t) \in {r + 1, r + 2, r + 3, r + 4, r + 5}
      BY <2>2 DEF StepsLeft
    <3> QED BY <3>1
  <2>3. CASE pc[t] \in {"fetch", "store", "create", "lookup"}
    <3>1. StepsLeft(t) \in {r + 6, r + 7, r + 8, r + 9, r + 10}
      BY <2>3 DEF StepsLeft
    <3> QED BY <3>1
  <2> QED BY <1>1, <2>1, <2>2, <2>3 DEF Labels
<1> HIDE DEF c, n, r
<1> QED BY <1>1, <1>2, <1>3, <1>4

LEMMA StepAdvances ==
    ASSUME TypeInv, TypeInv', LockInv, LockInv', [HttpNext]_httpVars,
           NEW t \in Threads
    PROVE  /\ Work(t) => StepsLeft(t)' \in 0..(StepsLeft(t) - 1)
           /\ pc[t] # "idle" => StepsLeft(t)' <= StepsLeft(t)
<1>a. StepsLeft(t) \in Nat
  BY StepsNat
<1>1. Work(t) => StepsLeft(t)' \in 0..(StepsLeft(t) - 1)
  BY GetAdvances, JudgeAdvances, RotationAdvances, ClearAdvances DEF Work, Recycle
<1>2. CASE Work(t)
  <2> HIDE DEF StepsLeft
  <2> QED BY <1>a, <1>1, <1>2
<1>3. CASE Begin(t) /\ ~Work(t)
  BY <1>3 DEF Begin
<1>4. CASE ~(Begin(t) \/ Work(t)) /\ pc[t] # "idle"
  <2>1. /\ pc'[t] = pc[t] /\ registered \subseteq registered'
        /\ PickSteps(pick[t])' = PickSteps(pick[t])
        /\ pc[t] = "clearing" => ClearSteps' = ClearSteps
    BY <1>4, OthersKeep DEF ClearSteps
  <2>2. CASE pc[t] = "lookup"
    <3> DEFINE r == 2 * Cardinality(Threads) + 1 + 2 + 5 * Cardinality(Pool) + 2
    <3>1. StepsLeft(t) = IF t \in registered THEN r + 9 ELSE r + 10
      BY <2>2 DEF StepsLeft
    <3>2. StepsLeft(t)' = IF t \in registered' THEN r + 9 ELSE r + 10
      BY <2>1, <2>2 DEF StepsLeft
    <3>3. r \in Nat
      BY SizesOK DEF Sizes
    <3> HIDE DEF r
    <3> QED BY <1>4, <2>1, <3>1, <3>2, <3>3
  <2>3. CASE pc[t] # "lookup"
    <3>1. StepsLeft(t)' = StepsLeft(t)
      BY <2>1, <2>3 DEF StepsLeft
    <3> QED BY <1>a, <1>4, <3>1
  <2> QED BY <2>2, <2>3
<1> QED BY <1>2, <1>3, <1>4, <1>1

\* A request never makes more steps than there were left to it when it began, nor
\* fewer left by what the other threads do.
THEOREM RequestsAlwaysAdvance == HttpSpec => RequestsAdvance
<1> DEFINE Inv == TypeInv /\ LockInv
           Advancing == \A t \in Threads :
                /\ Work(t) => StepsLeft(t)' \in 0..(StepsLeft(t) - 1)
                /\ pc[t] # "idle" => StepsLeft(t)' <= StepsLeft(t)
<1>1. HttpInit => Inv
  BY TypeInit, LockInit
<1>2. Inv /\ [HttpNext]_httpVars => Inv'
  BY TypeStep, LockStep
<1>3. Inv /\ Inv' /\ [HttpNext]_httpVars => [Advancing]_httpVars
  BY StepAdvances
<1> HIDE DEF Inv
<1> QED BY <1>1, <1>2, <1>3, PTL DEF HttpSpec, RequestsAdvance
=============================================================================
