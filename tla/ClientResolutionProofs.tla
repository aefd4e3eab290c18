----------------------- MODULE ClientResolutionProofs -----------------------
(***************************************************************************)
(* Proofs about ClientResolution, for every set of clients and every       *)
(* client graph, every registry of overrides, every number of tries and    *)
(* requests and every counter width.                                       *)
(***************************************************************************)
EXTENDS ClientResolution, FiniteSetTheorems, TLAPS

-----------------------------------------------------------------------------
(* Reading the registry                                                    *)

\* The children of a client are clients.
LEMMA ChainIsOfClients ==
  ASSUME registry \in [Clients -> Entries], NEW c \in Clients
  PROVE  ChainOf(c) \in Seq(Clients)
<1>1. \/ registry[c].strategy = NoStrategy
      \/ registry[c].strategy \in [present : {TRUE}, chain : Seq(Clients)]
  <2>1. registry[c] \in Entries
    OBVIOUS
  <2>2. CASE registry[c] = NoEntryFor
    BY <2>2 DEF NoEntryFor
  <2>3. CASE registry[c] # NoEntryFor
    BY <2>1, <2>3 DEF Entries
  <2>4. QED
    BY <2>2, <2>3
<1>2. CASE registry[c].strategy = NoStrategy
  <2>1. ~ NoStrategy.present
    BY DEF NoStrategy
  <2>2. QED
    BY <1>2, <2>1, ResolutionAssumption DEF ChainOf
<1>3. CASE registry[c].strategy \in [present : {TRUE}, chain : Seq(Clients)]
  BY <1>3 DEF ChainOf
<1>4. QED
  BY <1>1, <1>2, <1>3

\* The walk of FindInvalidReachableStrategyOverride goes to every child of a strategy
\* client it visits, and starts at its root.
LEMMA WalkGoesOn ==
  ASSUME registry \in [Clients -> Entries], NEW root \in Clients
  PROVE  /\ root \in Reachable(root)
         /\ \A c \in Reachable(root) : GraphProvider(c) \in Strategies =>
               \A i \in DOMAIN ChainOf(c) : ChainOf(c)[i] \in Reachable(root)
<1>1. root \in Reachable(root)
  BY DEF Reachable
<1>2. ASSUME NEW c \in Reachable(root), GraphProvider(c) \in Strategies, NEW i \in DOMAIN ChainOf(c)
      PROVE  ChainOf(c)[i] \in Reachable(root)
  <2>1. c \in Clients
    BY DEF Reachable
  <2>2. ChainOf(c)[i] \in Clients
    BY <2>1, ChainIsOfClients
  <2>3. SUFFICES ASSUME NEW S \in SUBSET Clients, root \in S,
                        \A d \in S : GraphProvider(d) \in Strategies =>
                           \A j \in DOMAIN ChainOf(d) : ChainOf(d)[j] \in S
                 PROVE  ChainOf(c)[i] \in S
    BY <2>2 DEF Reachable
  <2>4. c \in S
    BY <2>3 DEF Reachable
  <2>5. QED
    BY <1>2, <2>3, <2>4
<1>3. QED
  BY <1>1, <1>2

\* The walk depends on the registry only, which no step writes.
LEMMA WalkIsFixed ==
  ASSUME registry' = registry
  PROVE  \A c : Reachable(c)' = Reachable(c) /\ InvalidReachable(c)' = InvalidReachable(c)
BY DEF Reachable, InvalidReachable, GraphProvider, ChainOf, ProviderInvalid, StrategyInvalid,
       StrategyMissing, StartInvalid

\* What Resolve refuses at a round-robin client the walk refuses there too.
LEMMA RefusalsAgree ==
  ASSUME registry \in [Clients -> Entries], NEW root \in Clients, NEW c \in Reachable(root),
         ProviderOf(c) = "rr", Refused(c)
  PROVE  InvalidReachable(root)
<1>1. c \in Clients
  BY DEF Reachable
<1>2. GraphProvider(c) = "rr"
  BY DEF ProviderOf, GraphProvider
<1>3. StrategyMissing(c, {"rr"}) => StrategyMissing(c, Strategies)
  BY DEF StrategyMissing, Strategies
<1>4. QED
  BY <1>2, <1>3 DEF Refused, InvalidReachable, Strategies

\* A registry that overrides no client leaves every client as it was compiled, and
\* nothing to refuse.
LEMMA UntouchedReads ==
  ASSUME registry \in [Clients -> Entries], Untouched, NEW c \in Clients
  PROVE  /\ registry[c] = NoEntryFor
         /\ ProviderOf(c) = ClientProvider[c] /\ ChainOf(c) = FallbackChain[c]
         /\ ~ Refused(c) /\ ~ InvalidReachable(c)
         /\ ~ StrategyInvalid(c) /\ ~ StrategyMissing(c, Strategies)
<1>1. \A d \in Clients : registry[d] = NoEntryFor
  BY DEF Untouched, Entries, NoEntryFor
<1>e. \A d \in Clients : /\ registry[d].provider = "absent" /\ ~ registry[d].strategy.present
                         /\ registry[d].start.kind = "absent"
  BY <1>1 DEF NoEntryFor, NoStrategy, NoStart
<1>2. \A d \in Clients : /\ ~ ProviderInvalid(d) /\ ~ StrategyInvalid(d) /\ ~ StartInvalid(d)
                         /\ ~ StrategyMissing(d, Strategies) /\ ~ StrategyMissing(d, {"rr"})
  BY <1>e DEF ProviderInvalid, StrategyInvalid, StartInvalid, StrategyMissing, Strategies
<1>3. ~ Refused(c) /\ ~ InvalidReachable(c)
  BY <1>2 DEF Refused, InvalidReachable, Reachable
<1>4. ProviderOf(c) = ClientProvider[c] /\ ChainOf(c) = FallbackChain[c]
  BY <1>1 DEF ProviderOf, ChainOf, NoEntryFor, NoStrategy
<1>5. QED
  BY <1>1, <1>2, <1>3, <1>4

-----------------------------------------------------------------------------
(* The host's counters                                                     *)

\* uint64 arithmetic: adding one to a counter is adding one before it is cut to its
\* width.
LEMMA ModSuccessor ==
  ASSUME NEW a \in Int, NEW m \in Nat \ {0}
  PROVE  /\ a % m \in 0 .. m - 1
         /\ ((a % m) + 1) % m = (a + 1) % m
<1> DEFINE q == a \div m
           r == a % m
<1>1. q \in Int /\ r \in 0 .. m - 1 /\ a = m * q + r
  BY SMT
<1>2. QED
  BY <1>1, SMTT(40)

-----------------------------------------------------------------------------
(* Every try by itself: types, and the preflight                           *)

\* Between two looks at a round-robin child Resolve stands on a client the
\* preflight's walk has visited and found valid.
Placed ==
    \A t \in Tries :
        /\ index[t] >= 1
        /\ tpos[t] = "nested" => /\ index[t] <= Len(Chain(t))
                                 /\ ~ InvalidReachable(Child(t))
                                 /\ current[t] \in Reachable(Child(t))

PreflightInv == ResolutionTypeOK /\ Placed /\ PreflightComplete

\* What a round of the loop on a round-robin client may do: fail the request, or go
\* on to a child; and draw from the host's counter, or not.
LEMMA SelectRound ==
  ASSUME ResolutionTypeOK, NEW t \in Tries, ResolveSelects(t)
  PROVE  /\ \/ Fail(t) /\ UNCHANGED <<current, seen>>
            \/ /\ UNCHANGED <<tpos, plan>>
               /\ seen' = [seen EXCEPT ![t] = @ \cup {current[t]}]
               /\ \E i \in DOMAIN ChainOf(current[t]) :
                     current' = [current EXCEPT ![t] = ChainOf(current[t])[i]]
         /\ UNCHANGED <<counters, cached>> \/ FetchAdd(current[t], RequestOf[t])
<1> DEFINE c == current[t]
           n == Len(ChainOf(c))
<1>1. c \in Clients /\ ChainOf(c) \in Seq(Clients) /\ ChainOf(c) # <<>>
  BY ChainIsOfClients DEF ResolutionTypeOK, ResolveSelects
<1>2. n \in Nat \ {0} /\ \A i \in 0 .. n - 1 : i + 1 \in DOMAIN ChainOf(c)
  BY <1>1
<1>3. registry[c].start.kind = "valid" => registry[c].start.at \in Int
  <2>1. registry[c] \in Entries
    BY <1>1 DEF ResolutionTypeOK
  <2>2. CASE registry[c] = NoEntryFor
    BY <2>2 DEF NoEntryFor, NoStart
  <2>3. CASE registry[c] # NoEntryFor
    <3>1. registry[c].start = NoStart \/ registry[c].start \in [kind : {"invalid", "valid"}, at : Int]
      BY <2>1, <2>3 DEF Entries
    <3>2. NoStart.kind # "valid"
      BY DEF NoStart
    <3>3. QED
      BY <3>1, <3>2
  <2>4. QED
    BY <2>2, <2>3
<1>m. Modulus \in Nat \ {0}
  BY ResolutionAssumption
<1>4. registry[c].start.kind = "valid" => (registry[c].start.at % Modulus) % n \in 0 .. n - 1
  <2>1. \A a \in Int : a % Modulus \in 0 .. Modulus - 1
    BY <1>m
  <2>2. \A a \in Int : a % n \in 0 .. n - 1
    BY <1>2
  <2> HIDE DEF n
  <2>3. \A a \in Int : (a % Modulus) % n \in 0 .. n - 1
    BY <1>m, <2>1, <2>2
  <2>4. QED
    BY <1>3, <2>3
<1>5. Previous(c, RequestOf[t]) % n \in 0 .. n - 1
  <2>1. Replayed(c, RequestOf[t]) \subseteq 0 .. Modulus - 1
    BY DEF Replayed, ResolutionTypeOK
  <2>2. Previous(c, RequestOf[t]) \in 0 .. Modulus - 1
    BY <1>1, <2>1 DEF Previous, ResolutionTypeOK
  <2>3. \A a \in 0 .. Modulus - 1 : a % n \in 0 .. n - 1
    BY <1>2, <1>m
  <2>4. QED
    BY <2>2, <2>3
<1>6. QED
  BY <1>2, <1>4, <1>5 DEF ResolveSelects, Select

\* A draw keeps the types of the host's counters and its cache.
LEMMA DrawTypes ==
  ASSUME ResolutionTypeOK, NEW c \in Clients, NEW t \in Tries,
         UNCHANGED <<counters, cached>> \/ FetchAdd(c, RequestOf[t])
  PROVE  /\ counters' \in [Clients -> 0 .. Modulus - 1]
         /\ cached' \subseteq (Clients \X Nat) \X (0 .. Modulus - 1)
         /\ cached \subseteq cached'
<1>1. counters[c] \in 0 .. Modulus - 1 /\ Modulus \in Nat \ {0} /\ RequestOf[t] \in Nat
  BY ResolutionAssumption DEF ResolutionTypeOK
<1>2. (counters[c] + 1) % Modulus \in 0 .. Modulus - 1
  BY <1>1
<1>3. QED
  BY <1>1, <1>2 DEF FetchAdd, ResolutionTypeOK

\* A step is one try's: it leaves the registry, the client asked for and the other
\* tries alone, and the host forgets nothing.
LEMMA StepOfOneTry ==
  ASSUME ResolutionTypeOK, NEW t \in Tries, TryStep(t)
  PROVE  /\ registry' = registry /\ primary' = primary
         /\ cached \subseteq cached'
         /\ \A u \in Tries \ {t} :
               /\ tpos'[u] = tpos[u] /\ plan'[u] = plan[u] /\ effective'[u] = effective[u]
               /\ current'[u] = current[u] /\ seen'[u] = seen[u] /\ index'[u] = index[u]
               /\ targets'[u] = targets[u] /\ legacy'[u] = legacy[u]
               /\ sentinel'[u] = sentinel[u]
<1>1. CASE ResolveFails(t)
  BY <1>1 DEF ResolveFails, Fail, ResolutionTypeOK
<1>2. CASE ResolveSelects(t)
  <2>1. current[t] \in Clients
    BY DEF ResolutionTypeOK
  <2>2. cached \subseteq cached'
    BY <1>2, <2>1, SelectRound, DrawTypes
  <2>3. QED
    BY <1>2, <2>2, SelectRound, ZenonT(40) DEF ResolveSelects, Fail, ResolutionTypeOK
<1>3. CASE Effective(t)
  BY <1>3 DEF Effective, ResolutionTypeOK
<1>4. CASE Classify(t)
  BY <1>4 DEF Classify, Finish, ResolutionTypeOK
<1>5. CASE ClassifyChild(t)
  BY <1>5 DEF ClassifyChild, Finish, Fail, Start, NextChild, LegacyChild, ResolutionTypeOK
<1>6. CASE NestedLeaf(t)
  BY <1>6 DEF NestedLeaf, NextChild, LegacyChild, ResolutionTypeOK
<1>7. CASE NestedRefused(t)
  BY <1>7 DEF NestedRefused, Finish, ResolutionTypeOK
<1>8. CASE ChainPlanned(t)
  BY <1>8 DEF ChainPlanned, Finish, ResolutionTypeOK
<1>9. QED
  BY <1>1, <1>2, <1>3, <1>4, <1>5, <1>6, <1>7, <1>8 DEF TryStep

LEMMA PreflightInvStarts ==
  ASSUME NEW reg \in [Clients -> Entries], NEW root \in Clients, NEW active \in SUBSET Tries,
         ResolutionInit(reg, root, active)
  PROVE  PreflightInv
<1>1. \A c \in Clients : Starts[c] % Modulus \in 0 .. Modulus - 1
  BY ModSuccessor, ResolutionAssumption
<1>2. ResolutionTypeOK
  BY <1>1 DEF ResolutionInit, ResolutionTypeOK, Positions, Plans
<1>3. Placed /\ PreflightComplete
  BY DEF ResolutionInit, Placed, PreflightComplete
<1>4. QED
  BY <1>2, <1>3 DEF PreflightInv

LEMMA ChildIsClient ==
  ASSUME ResolutionTypeOK, NEW t \in Tries, index[t] >= 1, index[t] <= Len(Chain(t))
  PROVE  Child(t) \in Clients
<1>1. effective[t] \in Clients /\ index[t] \in Nat
  BY DEF ResolutionTypeOK
<1>2. Chain(t) \in Seq(Clients)
  BY <1>1, ChainIsOfClients DEF Chain, ResolutionTypeOK
<1>3. QED
  BY <1>1, <1>2 DEF Child

LEMMA TypeStep ==
  ASSUME PreflightInv, NEW t \in Tries, TryStep(t)
  PROVE  ResolutionTypeOK'
<1>1. CASE ResolveFails(t)
  BY <1>1 DEF ResolveFails, Fail, PreflightInv, ResolutionTypeOK, Positions, Plans
<1>2. CASE ResolveSelects(t)
  <2>1. current[t] \in Clients /\ ChainOf(current[t]) \in Seq(Clients)
    BY ChainIsOfClients DEF PreflightInv, ResolutionTypeOK
  <2>2. /\ counters' \in [Clients -> 0 .. Modulus - 1]
        /\ cached' \subseteq (Clients \X Nat) \X (0 .. Modulus - 1)
    BY <1>2, <2>1, SelectRound, DrawTypes DEF PreflightInv
  <2>3. /\ tpos' \in [Tries -> Positions] /\ plan' \in [Tries -> Plans]
        /\ current' \in [Tries -> Clients] /\ seen' \in [Tries -> SUBSET Clients]
    <3>1. CASE Fail(t) /\ UNCHANGED <<current, seen>>
      BY <3>1 DEF PreflightInv, ResolutionTypeOK, Fail, Positions, Plans
    <3>2. CASE /\ UNCHANGED <<tpos, plan>>
               /\ seen' = [seen EXCEPT ![t] = @ \cup {current[t]}]
               /\ \E i \in DOMAIN ChainOf(current[t]) :
                     current' = [current EXCEPT ![t] = ChainOf(current[t])[i]]
      BY <2>1, <3>2 DEF PreflightInv, ResolutionTypeOK
    <3>3. QED
      BY <1>2, <3>1, <3>2, SelectRound DEF PreflightInv
  <2>4. QED
    BY <1>2, <2>2, <2>3 DEF ResolveSelects, PreflightInv, ResolutionTypeOK
<1>3. CASE Effective(t)
  BY <1>3 DEF Effective, PreflightInv, ResolutionTypeOK, Positions, Plans
<1>4. CASE Classify(t)
  BY <1>4 DEF Classify, Finish, PreflightInv, ResolutionTypeOK, Positions, Plans
<1>5. CASE ClassifyChild(t)
  <2>1. Child(t) \in Clients
    BY <1>5, ChildIsClient DEF ClassifyChild, Placed, PreflightInv, ResolutionTypeOK
  <2>2. /\ tpos' \in [Tries -> Positions] /\ plan' \in [Tries -> Plans]
        /\ current' \in [Tries -> Clients] /\ seen' \in [Tries -> SUBSET Clients]
    BY <1>5, <2>1, ZenonT(40) DEF ClassifyChild, Finish, Fail, Start, PreflightInv, ResolutionTypeOK, Positions, Plans
  <2>3. index' \in [Tries -> Nat] /\ legacy' \in [Tries -> SUBSET Nat]
    <3>1. (index' = index \/ NextChild(t)) /\ (legacy' = legacy \/ LegacyChild(t))
      BY <1>5 DEF ClassifyChild
    <3>2. index' \in [Tries -> Nat]
      BY <3>1 DEF NextChild, PreflightInv, ResolutionTypeOK
    <3>3. legacy' \in [Tries -> SUBSET Nat]
      BY <3>1 DEF LegacyChild, PreflightInv, ResolutionTypeOK
    <3>4. QED
      BY <3>2, <3>3
  <2>4. QED
    BY <1>5, <2>2, <2>3 DEF ClassifyChild, PreflightInv, ResolutionTypeOK
<1>6. CASE NestedLeaf(t)
  BY <1>6 DEF NestedLeaf, NextChild, LegacyChild, PreflightInv, ResolutionTypeOK, Positions
<1>7. CASE NestedRefused(t)
  BY <1>7 DEF NestedRefused, Finish, PreflightInv, ResolutionTypeOK, Positions, Plans
<1>8. CASE ChainPlanned(t)
  BY <1>8 DEF ChainPlanned, Finish, PreflightInv, ResolutionTypeOK, Positions, Plans
<1>9. QED
  BY <1>1, <1>2, <1>3, <1>4, <1>5, <1>6, <1>7, <1>8 DEF TryStep

LEMMA PlacedStep ==
  ASSUME PreflightInv, NEW t \in Tries, TryStep(t)
  PROVE  Placed' /\ PreflightComplete'
<1> DEFINE At(u) == /\ index[u] >= 1
                    /\ tpos[u] = "nested" => /\ index[u] <= Len(Chain(u))
                                             /\ ~ InvalidReachable(Child(u))
                                             /\ current[u] \in Reachable(Child(u))
<1>0. /\ ResolutionTypeOK /\ ResolutionTypeOK' /\ registry' = registry
      /\ \A c : Reachable(c)' = Reachable(c) /\ InvalidReachable(c)' = InvalidReachable(c)
      /\ \A c : ChainOf(c)' = ChainOf(c)
  BY TypeStep, StepOfOneTry, WalkIsFixed DEF PreflightInv, ChainOf
<1>1. \A u \in Tries \ {t} : At(u)' /\ ~ sentinel'[u]
  BY <1>0, StepOfOneTry DEF PreflightInv, Placed, PreflightComplete, Chain, Child
<1>2. At(t) /\ ~ sentinel[t] /\ index[t] \in Nat /\ effective[t] \in Clients /\ current[t] \in Clients
  BY <1>0 DEF PreflightInv, Placed, PreflightComplete, ResolutionTypeOK
<1>3. At(t)' /\ ~ sentinel'[t]
  <2>1. CASE ResolveFails(t)
    BY <1>0, <1>2, <2>1 DEF ResolveFails, Fail, ResolutionTypeOK
  <2>2. CASE ResolveSelects(t)
    <3>1. effective' = effective /\ index' = index /\ sentinel' = sentinel
      BY <2>2 DEF ResolveSelects
    <3>2. Chain(t)' = Chain(t) /\ Child(t)' = Child(t)
      BY <1>0, <3>1 DEF Chain, Child
    <3>3. CASE Fail(t)
      BY <1>0, <1>2, <3>1, <3>3 DEF Fail, ResolutionTypeOK
    <3>4. CASE ~ Fail(t)
      <4>1. PICK i \in DOMAIN ChainOf(current[t]) : current'[t] = ChainOf(current[t])[i]
        BY <1>0, <2>2, <3>4, SelectRound DEF ResolutionTypeOK
      <4>2. tpos' = tpos
        BY <1>0, <2>2, <3>4, SelectRound
      <4>3. GraphProvider(current[t]) \in Strategies
        BY <2>2 DEF ResolveSelects, AtStrategy, ProviderOf, GraphProvider, Strategies
      <4>4. ASSUME tpos[t] = "nested" PROVE current'[t] \in Reachable(Child(t))
        <5>1. Child(t) \in Clients
          BY <1>0, <1>2, <4>4, ChildIsClient
        <5>2. QED
          BY <1>0, <1>2, <4>1, <4>3, <4>4, <5>1, WalkGoesOn DEF ResolutionTypeOK
      <4>5. QED
        BY <1>0, <1>2, <3>1, <3>2, <4>2, <4>4
    <3>5. QED
      BY <3>3, <3>4
  <2>3. CASE Effective(t)
    BY <1>0, <1>2, <2>3 DEF Effective, ResolutionTypeOK
  <2>4. CASE Classify(t)
    BY <1>0, <1>2, <2>4 DEF Classify, Finish, ResolutionTypeOK
  <2>5. CASE ClassifyChild(t)
    <3>1. /\ effective' = effective /\ sentinel' = sentinel
          /\ index[t] <= Len(Chain(t)) /\ tpos[t] = "child"
      BY <2>5 DEF ClassifyChild
    <3>2. Chain(t)' = Chain(t) /\ Child(t) \in Clients
      BY <1>0, <1>2, <3>1, ChildIsClient DEF Chain
    <3>3. \/ tpos'[t] # "nested" /\ index'[t] \in {index[t], index[t] + 1}
          \/ /\ tpos'[t] = "nested" /\ index' = index /\ current'[t] = Child(t)
             /\ ProviderOf(Child(t)) = "rr" /\ ~ InvalidReachable(Child(t))
      BY <1>0, <2>5, <3>1, ZenonT(40) DEF ClassifyChild, Finish, Fail, Start, NextChild, ResolutionTypeOK, Strategies
    <3>4. CASE tpos'[t] # "nested"
      BY <1>0, <1>2, <3>1, <3>3, <3>4
    <3>5. CASE tpos'[t] = "nested"
      <4>1. Child(t)' = Child(t)
        BY <1>0, <3>1, <3>3, <3>5 DEF Chain, Child
      <4>2. Child(t) \in Reachable(Child(t))
        BY <1>0, <3>2, WalkGoesOn DEF ResolutionTypeOK
      <4>3. QED
        BY <1>0, <1>2, <3>1, <3>2, <3>3, <3>5, <4>1, <4>2
    <3>6. QED
      BY <3>4, <3>5
  <2>6. CASE NestedLeaf(t)
    BY <1>0, <1>2, <2>6 DEF NestedLeaf, NextChild, ResolutionTypeOK
  <2>7. CASE NestedRefused(t)
    <3>1. Child(t) \in Clients /\ current[t] \in Reachable(Child(t)) /\ ~ InvalidReachable(Child(t))
      BY <1>0, <1>2, <2>7, ChainIsOfClients DEF NestedRefused, Chain, Child, ResolutionTypeOK
    <3>2. FALSE
      BY <1>0, <2>7, <3>1, RefusalsAgree DEF NestedRefused, AtStrategy, ResolutionTypeOK
    <3>3. QED
      BY <3>2
  <2>8. CASE ChainPlanned(t)
    BY <1>0, <1>2, <2>8 DEF ChainPlanned, Finish, ResolutionTypeOK
  <2>9. QED
    BY <2>1, <2>2, <2>3, <2>4, <2>5, <2>6, <2>7, <2>8 DEF TryStep
<1>4. QED
  BY <1>1, <1>3 DEF Placed, PreflightComplete

LEMMA PreflightInvHolds == ResolutionSpec => []PreflightInv
<1>1. (\E reg \in [Clients -> Entries], root \in Clients, active \in SUBSET Tries :
          ResolutionInit(reg, root, active)) => PreflightInv
  BY PreflightInvStarts
<1>2. PreflightInv /\ [ResolutionNext]_resolutionVars => PreflightInv'
  <2>1. ASSUME PreflightInv, NEW t \in Tries, TryStep(t) PROVE PreflightInv'
    BY <2>1, TypeStep, PlacedStep DEF PreflightInv
  <2>2. ASSUME PreflightInv, UNCHANGED resolutionVars PROVE PreflightInv'
    <3>1. ResolutionTypeOK'
      BY <2>2 DEF PreflightInv, ResolutionTypeOK, resolutionVars
    <3>2. registry' = registry /\ UNCHANGED <<index, tpos, effective, current, sentinel>>
      BY <2>2 DEF resolutionVars
    <3>3. Placed' /\ PreflightComplete'
      BY <2>2, <3>2, WalkIsFixed DEF PreflightInv, Placed, PreflightComplete, Chain, Child, ChainOf
    <3>4. QED
      BY <3>1, <3>3 DEF PreflightInv
  <2>3. QED
    BY <2>1, <2>2 DEF ResolutionNext
<1>3. QED
  BY <1>1, <1>2, PTL DEF ResolutionSpec

\* Types of a worker's resolution and of the counters it draws from.
THEOREM ResolutionTypeCorrect == ResolutionSpec => []ResolutionTypeOK
BY PreflightInvHolds, PTL DEF PreflightInv

\* FindInvalidReachableStrategyOverride catches, on every client graph and under every
\* registry, whatever Resolve would refuse below the child: the translation of a
\* sentinel error in ResolveFallbackChainPlanForClient is never needed.
THEOREM PreflightCatchesAll == ResolutionSpec => []PreflightComplete
BY PreflightInvHolds, PTL DEF PreflightInv

-----------------------------------------------------------------------------
(* All tries together: one turn of a rotation for each request             *)

\* The host answers a request for a client with one value, ever.
OneAnswer == \A e, f \in cached : e[1] = f[1] => e = f

\* The requests that took a turn of a client's rotation.
Drawn(c) == {RequestOf[t] : t \in {u \in Tries : \E e \in cached : e[1] = <<c, RequestOf[u]>>}}

\* A counter stands at its seed and one turn for each request that drew from it.
TurnsCounted == \A c \in Clients : counters[c] = (Starts[c] + Cardinality(Drawn(c))) % Modulus

LEMMA DrawnFinite ==
  ASSUME NEW c
  PROVE  IsFiniteSet(Drawn(c)) /\ Cardinality(Drawn(c)) \in Nat
<1> DEFINE R == {RequestOf[t] : t \in Tries}
<1>1. RequestOf \in Surjection(Tries, R)
  BY ResolutionAssumption DEF Surjection
<1>2. IsFiniteSet(R)
  BY <1>1, FS_Surjection, ResolutionAssumption
<1>3. Drawn(c) \subseteq R
  BY DEF Drawn
<1>4. QED
  BY <1>2, <1>3, FS_Subset, FS_CardinalityType

\* A call that counts is its request's first for the client, and adds its request.
LEMMA DrawCounts ==
  ASSUME ResolutionTypeOK, OneAnswer, TurnsCounted, NEW c \in Clients, NEW t \in Tries,
         UNCHANGED <<counters, cached>> \/ FetchAdd(c, RequestOf[t])
  PROVE  OneAnswer' /\ TurnsCounted'
<1> DEFINE r == RequestOf[t]
<1>1. CASE UNCHANGED <<counters, cached>>
  <2>1. cached' = cached /\ counters' = counters
    BY <1>1
  <2>2. \A d : Drawn(d)' = Drawn(d)
    BY <2>1 DEF Drawn
  <2>3. QED
    BY <2>1, <2>2 DEF OneAnswer, TurnsCounted
<1>2. CASE FetchAdd(c, r) /\ ~ UNCHANGED <<counters, cached>>
  <2>1. /\ Replayed(c, r) = {}
        /\ counters' = [counters EXCEPT ![c] = (@ + 1) % Modulus]
        /\ cached' = cached \cup {<<<<c, r>>, counters[c]>>}
    BY <1>2 DEF FetchAdd
  <2>2. \A e \in cached : e[1] # <<c, r>>
    BY <2>1 DEF Replayed
  <2>3. OneAnswer'
    BY <2>1, <2>2 DEF OneAnswer
  <2>4. r \notin Drawn(c) /\ Drawn(c)' = Drawn(c) \cup {r}
    <3>1. r \notin Drawn(c)
      BY <2>2 DEF Drawn
    <3>2. ASSUME NEW u \in Tries
          PROVE  (\E e \in cached' : e[1] = <<c, RequestOf[u]>>)
                 <=> (\E e \in cached : e[1] = <<c, RequestOf[u]>>) \/ RequestOf[u] = r
      <4>1. ASSUME RequestOf[u] = r PROVE \E e \in cached' : e[1] = <<c, RequestOf[u]>>
        <5>1. <<<<c, r>>, counters[c]>> \in cached'
          BY <2>1
        <5>2. QED
          BY <4>1, <5>1
      <4>2. ASSUME NEW e \in cached', e[1] = <<c, RequestOf[u]>>, e \notin cached
            PROVE  RequestOf[u] = r
        <5>1. e = <<<<c, r>>, counters[c]>>
          BY <2>1, <4>2
        <5>2. QED
          BY <4>2, <5>1
      <4>3. QED
        BY <2>1, <4>1, <4>2
    <3>3. Drawn(c)' = {RequestOf[u] : u \in {w \in Tries :
                          (\E e \in cached : e[1] = <<c, RequestOf[w]>>) \/ RequestOf[w] = r}}
      BY <3>2 DEF Drawn
    <3>4. QED
      BY <3>1, <3>3 DEF Drawn
  <2>5. \A d \in Clients \ {c} : Drawn(d)' = Drawn(d)
    <3>1. ASSUME NEW d \in Clients \ {c}, NEW u \in Tries
          PROVE  (\E e \in cached' : e[1] = <<d, RequestOf[u]>>)
                 <=> (\E e \in cached : e[1] = <<d, RequestOf[u]>>)
      BY <2>1
    <3>2. QED
      BY <3>1 DEF Drawn
  <2>6. Cardinality(Drawn(c)') = Cardinality(Drawn(c)) + 1
    BY <2>4, DrawnFinite, FS_AddElement
  <2>7. counters'[c] = (Starts[c] + Cardinality(Drawn(c)')) % Modulus
    <3>1. Starts[c] \in Int /\ Cardinality(Drawn(c)) \in Nat /\ Modulus \in Nat \ {0}
      BY DrawnFinite, ResolutionAssumption
    <3>2. counters'[c] = (((Starts[c] + Cardinality(Drawn(c))) % Modulus) + 1) % Modulus
      BY <2>1 DEF TurnsCounted, ResolutionTypeOK
    <3>3. counters'[c] = ((Starts[c] + Cardinality(Drawn(c))) + 1) % Modulus
      BY <3>1, <3>2, ModSuccessor
    <3>4. QED
      BY <2>6, <3>1, <3>3
  <2>8. \A d \in Clients \ {c} : counters'[d] = counters[d]
    BY <2>1 DEF ResolutionTypeOK
  <2>9. TurnsCounted'
    BY <2>5, <2>7, <2>8 DEF TurnsCounted
  <2>10. QED
    BY <2>3, <2>9
<1>3. QED
  BY <1>1, <1>2

\* Where a turn of request r takes it from a round-robin client.
Turn(r, c, d) ==
    /\ ClientProvider[c] = "rr"
    /\ \E v \in 0 .. Modulus - 1 :
          /\ <<<<c, r>>, v>> \in cached
          /\ d = FallbackChain[c][(v % Len(FallbackChain[c])) + 1]

\* The clients request r comes to from x, in the turns it has taken.
TurnsFrom(r, x) ==
    {c \in Clients : \A S \in SUBSET Clients :
        x \in S /\ (\A a \in S, d \in Clients : Turn(r, a, d) => d \in S) => c \in S}

\* The walk of request r from x has come to its end, at L.
Leaf(r, x, L) == L \in TurnsFrom(r, x) /\ ClientProvider[L] # "rr"

LEMMA TurnsGoOn ==
  ASSUME NEW r, NEW x \in Clients
  PROVE  /\ x \in TurnsFrom(r, x)
         /\ \A c \in TurnsFrom(r, x), d \in Clients : Turn(r, c, d) => d \in TurnsFrom(r, x)
BY DEF TurnsFrom

\* The host forgets no turn: what a request has come to, it has for good.
LEMMA TurnsAreKept ==
  ASSUME cached \subseteq cached'
  PROVE  \A r, x : TurnsFrom(r, x) \subseteq TurnsFrom(r, x)'
<1>1. \A r, c, d : Turn(r, c, d) => Turn(r, c, d)'
  BY DEF Turn
<1>2. QED
  BY <1>1 DEF TurnsFrom

\* A request's turns from a client have one end at most, whoever takes them.
LEMMA OneLeaf ==
  ASSUME OneAnswer, NEW r, NEW x \in Clients, NEW L, NEW M, Leaf(r, x, L), Leaf(r, x, M)
  PROVE  L = M
<1>0. L \in Clients /\ M \in Clients
  BY DEF Leaf, TurnsFrom
<1>1. ASSUME NEW a \in Clients, NEW d \in Clients, NEW e \in Clients, Turn(r, a, d), Turn(r, a, e)
      PROVE  d = e
  <2>1. PICK v \in 0 .. Modulus - 1 : /\ <<<<a, r>>, v>> \in cached
                                      /\ d = FallbackChain[a][(v % Len(FallbackChain[a])) + 1]
    BY <1>1 DEF Turn
  <2>2. PICK w \in 0 .. Modulus - 1 : /\ <<<<a, r>>, w>> \in cached
                                      /\ e = FallbackChain[a][(w % Len(FallbackChain[a])) + 1]
    BY <1>1 DEF Turn
  <2>3. <<<<a, r>>, v>> = <<<<a, r>>, w>>
    BY <2>1, <2>2 DEF OneAnswer
  <2>4. QED
    BY <2>1, <2>2, <2>3
<1> DEFINE T == {y \in TurnsFrom(r, x) : L \in TurnsFrom(r, y)}
<1>2. x \in T
  BY TurnsGoOn DEF Leaf
<1>3. ASSUME NEW y \in T, NEW z \in Clients, Turn(r, y, z) PROVE z \in T
  <2>1. y \in Clients /\ z \in TurnsFrom(r, x)
    BY <1>3, TurnsGoOn DEF TurnsFrom
  <2> DEFINE S == {y} \cup TurnsFrom(r, z)
  <2>2. S \in SUBSET Clients
    BY <2>1 DEF TurnsFrom
  <2>3. \A a \in S, d \in Clients : Turn(r, a, d) => d \in S
    <3>1. ASSUME NEW d \in Clients, Turn(r, y, d) PROVE d \in S
      BY <1>1, <1>3, <2>1, <3>1, TurnsGoOn
    <3>2. QED
      BY <3>1, TurnsGoOn
  <2>4. L \in S
    <3>1. y \in S /\ L \in TurnsFrom(r, y)
      BY <1>3
    <3> HIDE DEF S
    <3>2. QED
      BY <2>2, <2>3, <3>1 DEF TurnsFrom
  <2>5. L # y
    BY <1>3 DEF Turn, Leaf
  <2>6. QED
    BY <2>1, <2>4, <2>5
<1>4. M \in T
  <2>1. T \in SUBSET Clients
    BY DEF TurnsFrom
  <2> HIDE DEF T
  <2>2. QED
    BY <1>2, <1>3, <2>1 DEF Leaf, TurnsFrom
<1>5. L \in TurnsFrom(r, M)
  BY <1>4
<1>6. \A a \in {M}, d \in Clients : Turn(r, a, d) => d \in {M}
  BY DEF Turn, Leaf
<1>7. L \in {M}
  BY <1>0, <1>5, <1>6 DEF TurnsFrom
<1>8. QED
  BY <1>7

-----------------------------------------------------------------------------
(* A request tried again is served by the same clients                     *)

\* The chain of the effective client, as it was compiled.
Compiled(t) == FallbackChain[effective[t]]

\* A try that knows its effective client and has not failed.
Decided(t) == tpos[t] \in {"classify", "child", "nested"} \/ (tpos[t] = "over" /\ plan[t] # "failed")

\* The walk a try is in runs along its request's turns, and the effective client is
\* the end of the walk from the client asked for.
AlongTurns(t) ==
    /\ tpos[t] = "unwrap" => current[t] \in TurnsFrom(RequestOf[t], primary)
    /\ tpos[t] = "nested" => current[t] \in TurnsFrom(RequestOf[t], Compiled(t)[index[t]])
    /\ Decided(t) => Leaf(RequestOf[t], primary, effective[t])

\* What a try has made of the child at position i: a round-robin child is a target
\* or a legacy child by the end of its walk, another one by its own provider.
Settled(t, i) ==
    /\ i \in 1 .. Len(Compiled(t)) /\ ClientProvider[Compiled(t)[i]] # ""
    /\ ClientProvider[Compiled(t)[i]] # "rr" =>
          /\ \A M \in Clients : <<i, M>> \notin targets[t]
          /\ i \in legacy[t] <=> ClientProvider[Compiled(t)[i]] # "ok"
    /\ ClientProvider[Compiled(t)[i]] = "rr" =>
          \E L \in Clients :
             /\ Leaf(RequestOf[t], Compiled(t)[i], L)
             /\ \A M \in Clients : <<i, M>> \in targets[t] <=> M = L /\ ClientProvider[L] = "ok"
             /\ i \in legacy[t] <=> ClientProvider[L] # "ok"

\* The children behind the position are settled and the others are not looked at.
SettledSoFar(t) ==
    \A i \in Nat :
        /\ i \in 1 .. index[t] - 1 /\ Decided(t) => Settled(t, i)
        /\ i \notin 1 .. index[t] - 1 => i \notin legacy[t] /\ \A M \in Clients : <<i, M>> \notin targets[t]

\* Where a try stands in its chain, and where it may have stopped.
InPlace(t) ==
    LET walks == ClientProvider[effective[t]] = "fallback" /\ Compiled(t) # <<>>
        n == Len(Compiled(t))
    IN /\ tpos[t] \in {"unwrap", "classify"} => index[t] = 1
       /\ tpos[t] = "child" => walks /\ index[t] \in 1 .. n + 1
       /\ tpos[t] = "nested" =>
             walks /\ index[t] \in 1 .. n /\ ClientProvider[Compiled(t)[index[t]]] = "rr"
       /\ tpos[t] = "over" /\ plan[t] # "failed" =>
             \/ /\ ~ walks /\ index[t] = 1
                /\ plan[t] = IF ClientProvider[effective[t]] = "ok" THEN "single" ELSE "legacy"
             \/ /\ walks /\ index[t] \in 1 .. n /\ ClientProvider[Compiled(t)[index[t]]] = ""
                /\ plan[t] = "legacy"
             \/ /\ walks /\ index[t] = n + 1
                /\ plan[t] = IF Cardinality(legacy[t]) = n THEN "legacy" ELSE "chain"

TryInv(t) == AlongTurns(t) /\ SettledSoFar(t) /\ InPlace(t)

RotationInv ==
    /\ PreflightInv /\ OneAnswer /\ TurnsCounted
    /\ Untouched => \A t \in Tries : TryInv(t)

\* A try that does not move keeps its standing, whatever turns the host hands out.
LEMMA OthersStand ==
  ASSUME NEW u \in Tries, TryInv(u), primary' = primary, cached \subseteq cached',
         tpos'[u] = tpos[u], plan'[u] = plan[u], effective'[u] = effective[u],
         current'[u] = current[u], index'[u] = index[u],
         targets'[u] = targets[u], legacy'[u] = legacy[u]
  PROVE  TryInv(u)'
<1>1. /\ primary' = primary /\ cached \subseteq cached'
      /\ tpos'[u] = tpos[u] /\ plan'[u] = plan[u] /\ effective'[u] = effective[u]
      /\ current'[u] = current[u] /\ index'[u] = index[u]
      /\ targets'[u] = targets[u] /\ legacy'[u] = legacy[u]
  OBVIOUS
<1>2. \A r, x : TurnsFrom(r, x) \subseteq TurnsFrom(r, x)'
  BY <1>1, TurnsAreKept
<1>3. \A r, x, L : Leaf(r, x, L) => Leaf(r, x, L)'
  BY <1>2 DEF Leaf
<1>4. Compiled(u)' = Compiled(u) /\ Decided(u)' = Decided(u)
  BY <1>1 DEF Compiled, Decided
<1>5. AlongTurns(u)'
  BY <1>1, <1>2, <1>3, <1>4 DEF TryInv, AlongTurns
<1>6. \A i : Settled(u, i) => Settled(u, i)'
  BY <1>1, <1>3, <1>4 DEF Settled
<1>7. SettledSoFar(u)'
  BY <1>1, <1>4, <1>6 DEF TryInv, SettledSoFar
<1>8. InPlace(u)'
  BY <1>1, <1>4 DEF TryInv, InPlace
<1>9. QED
  BY <1>5, <1>7, <1>8 DEF TryInv

\* A round of Resolve on an untouched registry takes the request's turn.
LEMMA RoundIsTurn ==
  ASSUME ResolutionTypeOK, OneAnswer, Untouched, NEW t \in Tries, ResolveSelects(t), ~ Fail(t)
  PROVE  \E c, d \in Clients :
            c = current[t] /\ d = current'[t] /\ Turn(RequestOf[t], c, d)'
<1> DEFINE c == current[t]
           r == RequestOf[t]
<1>1. /\ c \in Clients /\ ~ registry[c].there /\ ClientProvider[c] = "rr"
      /\ ChainOf(c) = FallbackChain[c] /\ r \in Nat /\ counters[c] \in 0 .. Modulus - 1
  <2>1. c \in Clients
    BY DEF ResolutionTypeOK
  <2>2. ProviderOf(c) = ClientProvider[c] /\ ChainOf(c) = FallbackChain[c]
    BY <2>1, UntouchedReads DEF ResolutionTypeOK
  <2>3. QED
    BY <2>1, <2>2, ResolutionAssumption DEF Untouched, ResolveSelects, AtStrategy, ResolutionTypeOK
<1>2. FetchAdd(c, r) /\ current' = [current EXCEPT ![t] = ChainOf(c)[(Previous(c, r) % Len(ChainOf(c))) + 1]]
  BY <1>1 DEF ResolveSelects, Select
<1>3. Previous(c, r) \in 0 .. Modulus - 1 /\ <<<<c, r>>, Previous(c, r)>> \in cached'
  <2>1. CASE Replayed(c, r) # {}
    <3>1. Previous(c, r) \in Replayed(c, r) /\ cached' = cached
      BY <1>2, <2>1 DEF Previous, FetchAdd
    <3>2. PICK e \in cached : e[1] = <<c, r>> /\ e[2] = Previous(c, r)
      BY <3>1 DEF Replayed
    <3>3. e \in (Clients \X Nat) \X (0 .. Modulus - 1)
      BY DEF ResolutionTypeOK
    <3>4. e = <<e[1], e[2]>> /\ e[2] \in 0 .. Modulus - 1
      BY <3>3
    <3>5. QED
      BY <3>1, <3>2, <3>4
  <2>2. CASE Replayed(c, r) = {}
    BY <1>1, <1>2, <2>2 DEF Previous, FetchAdd
  <2>3. QED
    BY <2>1, <2>2
<1>4. current'[t] = FallbackChain[c][(Previous(c, r) % Len(FallbackChain[c])) + 1]
  BY <1>1, <1>2 DEF ResolutionTypeOK
<1>5. current'[t] \in Clients
  <2>1. \E i \in DOMAIN ChainOf(c) : current' = [current EXCEPT ![t] = ChainOf(c)[i]]
    BY SelectRound
  <2>2. ChainOf(c) \in Seq(Clients)
    BY <1>1, ChainIsOfClients DEF ResolutionTypeOK
  <2>3. QED
    BY <2>1, <2>2 DEF ResolutionTypeOK
<1>6. \A a, d \in Clients : a = c /\ d = current'[t] => Turn(RequestOf[t], a, d)'
  <2>1. SUFFICES ASSUME NEW a \in Clients, NEW d \in Clients, a = c, d = current'[t]
                 PROVE  Turn(RequestOf[t], a, d)'
    OBVIOUS
  <2>2. ClientProvider[a] = "rr" /\ d = FallbackChain[a][(Previous(c, r) % Len(FallbackChain[a])) + 1]
    BY <1>1, <1>4, <2>1
  <2>3. \E v \in 0 .. Modulus - 1 : /\ <<<<a, RequestOf[t]>>, v>> \in cached'
                                    /\ d = FallbackChain[a][(v % Len(FallbackChain[a])) + 1]
    BY <1>3, <2>1, <2>2
  <2>4. QED
    BY <2>2, <2>3 DEF Turn
<1>7. QED
  BY <1>1, <1>5, <1>6

\* A settled child stays settled while its own place in the plan is left alone.
LEMMA SettledKept ==
  ASSUME cached \subseteq cached', NEW t \in Tries, effective'[t] = effective[t], NEW i, Settled(t, i),
         i \in legacy'[t] <=> i \in legacy[t],
         \A M \in Clients : <<i, M>> \in targets'[t] <=> <<i, M>> \in targets[t]
  PROVE  Settled(t, i)'
<1>1. \A r, x, L : Leaf(r, x, L) => Leaf(r, x, L)'
  BY TurnsAreKept DEF Leaf
<1>2. Compiled(t)' = Compiled(t)
  BY DEF Compiled
<1>3. QED
  BY <1>1, <1>2 DEF Settled

\* A step that writes neither the position nor the plan of the children keeps them
\* settled.
LEMMA SettledSoFarKept ==
  ASSUME cached \subseteq cached', NEW t \in Tries, SettledSoFar(t), effective'[t] = effective[t],
         index'[t] = index[t], legacy'[t] = legacy[t], targets'[t] = targets[t],
         Decided(t)' => Decided(t)
  PROVE  SettledSoFar(t)'
<1>1. ASSUME NEW i \in Nat, i \in 1 .. index[t] - 1, Decided(t)' PROVE Settled(t, i)'
  BY <1>1, SettledKept DEF SettledSoFar
<1>2. QED
  BY <1>1 DEF SettledSoFar

\* A step that looks at the child in place settles it.
LEMMA SettledNext ==
  ASSUME cached \subseteq cached', NEW t \in Tries, SettledSoFar(t), effective'[t] = effective[t],
         NEW k \in Nat \ {0}, index[t] = k, index'[t] = k + 1, Decided(t),
         \A i \in Nat \ {k} :
            /\ i \in legacy'[t] <=> i \in legacy[t]
            /\ \A M \in Clients : <<i, M>> \in targets'[t] <=> <<i, M>> \in targets[t],
         Settled(t, k)'
  PROVE  SettledSoFar(t)'
<1>1. ASSUME NEW i \in Nat, i \in 1 .. index'[t] - 1 PROVE Settled(t, i)'
  <2>1. CASE i = k
    BY <2>1
  <2>2. CASE i # k
    <3>1. i \in 1 .. index[t] - 1
      BY <1>1, <2>2
    <3>2. QED
      BY <2>2, <3>1, SettledKept DEF SettledSoFar
  <2>3. QED
    BY <2>1, <2>2
<1>2. ASSUME NEW i \in Nat, i \notin 1 .. index'[t] - 1
      PROVE  i \notin legacy'[t] /\ \A M \in Clients : <<i, M>> \notin targets'[t]
  <2>1. i # k /\ i \notin 1 .. index[t] - 1
    BY <1>2
  <2>2. QED
    BY <2>1 DEF SettledSoFar
<1>3. QED
  BY <1>1, <1>2 DEF SettledSoFar

\* A try's own step along a request's turns keeps its standing: what it decides is
\* decided by the turns.
LEMMA OwnStepStands ==
  ASSUME PreflightInv, OneAnswer, Untouched, NEW t \in Tries, TryStep(t), TryInv(t)
  PROVE  TryInv(t)'
<1>1. /\ ResolutionTypeOK /\ ResolutionTypeOK' /\ primary' = primary /\ cached \subseteq cached'
      /\ registry \in [Clients -> Entries]
  BY TypeStep, StepOfOneTry DEF PreflightInv, ResolutionTypeOK
<1>2. /\ index[t] \in Nat \ {0} /\ effective[t] \in Clients /\ current[t] \in Clients
      /\ primary \in Clients /\ legacy[t] \subseteq Nat
  BY <1>1 DEF PreflightInv, Placed, ResolutionTypeOK
<1>3. /\ \A r, x : TurnsFrom(r, x) \subseteq TurnsFrom(r, x)'
      /\ \A r, x, L : Leaf(r, x, L) => Leaf(r, x, L)'
  BY <1>1, TurnsAreKept DEF Leaf
<1>4. \A c \in Clients : /\ ProviderOf(c) = ClientProvider[c] /\ ChainOf(c) = FallbackChain[c]
                         /\ FallbackChain[c] \in Seq(Clients)
                         /\ ~ Refused(c) /\ ~ InvalidReachable(c)
                         /\ ~ StrategyInvalid(c) /\ ~ StrategyMissing(c, Strategies)
  BY <1>1, UntouchedReads, ResolutionAssumption
<1>5. Chain(t) = Compiled(t) /\ Child(t) = Compiled(t)[index[t]] /\ Compiled(t) \in Seq(Clients)
  BY <1>2, <1>4 DEF Chain, Child, Compiled
<1>6. AlongTurns(t) /\ SettledSoFar(t) /\ InPlace(t)
  BY DEF TryInv
<1>7. ASSUME Fail(t), UNCHANGED <<effective, index, targets, legacy>> PROVE TryInv(t)'
  <2>1. tpos'[t] = "over" /\ plan'[t] = "failed"
    BY <1>1, <1>7 DEF Fail, ResolutionTypeOK
  <2>2. ~ Decided(t)'
    BY <2>1 DEF Decided
  <2>3. SettledSoFar(t)'
    BY <1>1, <1>6, <1>7, <2>2, SettledSoFarKept
  <2>4. AlongTurns(t)' /\ InPlace(t)'
    BY <2>1, <2>2 DEF AlongTurns, InPlace
  <2>5. QED
    BY <2>3, <2>4 DEF TryInv
<1>8. CASE ResolveFails(t)
  BY <1>7, <1>8 DEF ResolveFails
<1>9. CASE ResolveSelects(t) /\ Fail(t)
  BY <1>7, <1>9 DEF ResolveSelects
<1>10. CASE ResolveSelects(t) /\ ~ Fail(t)
  <2>1. UNCHANGED <<tpos, plan, effective, index, targets, legacy>>
    BY <1>1, <1>10, SelectRound DEF ResolveSelects
  <2>2. Compiled(t)' = Compiled(t) /\ Decided(t)' = Decided(t)
    BY <2>1 DEF Compiled, Decided
  <2>3. \A x \in Clients : current[t] \in TurnsFrom(RequestOf[t], x) =>
                           current'[t] \in TurnsFrom(RequestOf[t], x)'
    <3>1. PICK c, d \in Clients : c = current[t] /\ d = current'[t] /\ Turn(RequestOf[t], c, d)'
      BY <1>1, <1>10, RoundIsTurn
    <3>2. \A x \in Clients : c \in TurnsFrom(RequestOf[t], x)' => d \in TurnsFrom(RequestOf[t], x)'
      BY <3>1 DEF TurnsFrom
    <3>3. QED
      BY <1>3, <3>1, <3>2
  <2>4. tpos[t] = "nested" => Compiled(t)[index[t]] \in Clients
    BY <1>2, <1>5, <1>6 DEF InPlace
  <2>5. AlongTurns(t)'
    BY <1>1, <1>2, <1>3, <1>6, <2>1, <2>2, <2>3, <2>4 DEF AlongTurns
  <2>6. SettledSoFar(t)'
    BY <1>1, <1>6, <2>1, <2>2, SettledSoFarKept
  <2>7. InPlace(t)'
    BY <1>6, <2>1, <2>2 DEF InPlace
  <2>8. QED
    BY <2>5, <2>6, <2>7 DEF TryInv
<1>11. CASE Effective(t)
  <2>1. /\ tpos[t] = "unwrap" /\ tpos'[t] = "classify" /\ effective'[t] = current[t]
        /\ ClientProvider[current[t]] # "rr" /\ UNCHANGED <<index, targets, legacy>>
    BY <1>1, <1>2, <1>4, <1>11 DEF Effective, AtStrategy, ResolutionTypeOK
  <2>2. index[t] = 1
    BY <1>6, <2>1 DEF InPlace
  <2>3. Leaf(RequestOf[t], primary, current[t])
    BY <1>6, <2>1 DEF AlongTurns, Leaf
  <2>4. AlongTurns(t)'
    BY <1>1, <1>3, <2>1, <2>3 DEF AlongTurns
  <2>5. SettledSoFar(t)'
    BY <1>6, <2>1, <2>2 DEF SettledSoFar
  <2>6. InPlace(t)'
    BY <2>1, <2>2 DEF InPlace
  <2>7. QED
    BY <2>4, <2>5, <2>6 DEF TryInv
<1>12. CASE Classify(t)
  <2>1. /\ tpos[t] = "classify" /\ UNCHANGED <<effective, index, targets, legacy>>
        /\ Decided(t) /\ index[t] = 1 /\ Compiled(t)' = Compiled(t)
    BY <1>6, <1>12 DEF Classify, Decided, InPlace, Compiled
  <2>2. \/ /\ ClientProvider[effective[t]] = "fallback" /\ Compiled(t) # <<>> /\ tpos'[t] = "child"
        \/ /\ ~ (ClientProvider[effective[t]] = "fallback" /\ Compiled(t) # <<>>)
           /\ tpos'[t] = "over"
           /\ plan'[t] = IF ClientProvider[effective[t]] = "ok" THEN "single" ELSE "legacy"
    BY <1>1, <1>2, <1>4, <1>12 DEF Classify, Finish, Compiled, ResolutionTypeOK
  <2>3. AlongTurns(t)'
    BY <1>1, <1>3, <1>6, <2>1, <2>2 DEF AlongTurns
  <2>4. SettledSoFar(t)'
    BY <1>1, <1>6, <2>1, SettledSoFarKept
  <2>5. Len(Compiled(t)) \in Nat
    BY <1>5
  <2>6. InPlace(t)'
    <3>1. index'[t] = 1 /\ effective'[t] = effective[t] /\ 1 \in 1 .. Len(Compiled(t)) + 1
      BY <2>1, <2>5
    <3>2. CASE tpos'[t] = "child"
      BY <2>1, <2>2, <3>1, <3>2 DEF InPlace
    <3>3. CASE tpos'[t] = "over"
      BY <2>1, <2>2, <3>1, <3>3 DEF InPlace
    <3>4. QED
      BY <2>2, <3>2, <3>3
  <2>7. QED
    BY <2>3, <2>4, <2>6 DEF TryInv
<1>13. CASE ClassifyChild(t)
  <2> DEFINE p == ClientProvider[Compiled(t)[index[t]]]
  <2>1. /\ tpos[t] = "child" /\ UNCHANGED <<effective, targets>>
        /\ Decided(t) /\ Compiled(t)' = Compiled(t) /\ index[t] \in 1 .. Len(Compiled(t))
        /\ ClientProvider[effective[t]] = "fallback" /\ Compiled(t) # <<>>
    <3>1. tpos[t] = "child" /\ UNCHANGED <<effective, targets>> /\ index[t] <= Len(Compiled(t))
      BY <1>5, <1>13 DEF ClassifyChild
    <3>2. Decided(t) /\ Compiled(t)' = Compiled(t)
      BY <3>1 DEF Decided, Compiled
    <3>3. ClientProvider[effective[t]] = "fallback" /\ Compiled(t) # <<>>
      BY <1>6, <3>1 DEF InPlace
    <3>4. index[t] \in 1 .. Len(Compiled(t))
      BY <1>2, <1>5, <3>1
    <3>5. QED
      BY <3>1, <3>2, <3>3, <3>4
  <2>2. Child(t) \in Clients /\ ProviderOf(Child(t)) = p /\ ~ InvalidReachable(Child(t))
    BY <1>4, <1>5, <2>1
  <2>3. \/ p = "" /\ Finish(t, "legacy") /\ UNCHANGED <<index, legacy>>
        \/ Fail(t) /\ UNCHANGED <<index, legacy>>
        \/ /\ p = "rr" /\ tpos' = [tpos EXCEPT ![t] = "nested"] /\ Start(t, Child(t))
           /\ UNCHANGED <<index, legacy>>
        \/ /\ p \notin {"", "rr"} /\ NextChild(t) /\ tpos' = tpos
           /\ IF p = "ok" THEN UNCHANGED legacy ELSE LegacyChild(t)
    BY <1>13, <2>2 DEF ClassifyChild
  <2>4. Leaf(RequestOf[t], primary, effective[t])'
    BY <1>1, <1>3, <1>6, <2>1 DEF AlongTurns, Leaf
  <2>5. CASE p = "" /\ Finish(t, "legacy") /\ UNCHANGED <<index, legacy>>
    <3>1. tpos'[t] = "over" /\ plan'[t] = "legacy"
      BY <1>1, <2>5 DEF Finish, ResolutionTypeOK
    <3>2. AlongTurns(t)' /\ InPlace(t)'
      BY <2>1, <2>4, <2>5, <3>1 DEF AlongTurns, InPlace
    <3>3. SettledSoFar(t)'
      BY <1>1, <1>6, <2>1, <2>5, SettledSoFarKept
    <3>4. QED
      BY <3>2, <3>3 DEF TryInv
  <2>6. CASE Fail(t) /\ UNCHANGED <<index, legacy>>
    BY <1>7, <2>1, <2>6
  <2>7. CASE /\ p = "rr" /\ tpos' = [tpos EXCEPT ![t] = "nested"] /\ Start(t, Child(t))
             /\ UNCHANGED <<index, legacy>>
    <3>1. tpos'[t] = "nested" /\ current'[t] = Compiled(t)[index[t]]
      BY <1>1, <1>5, <2>7 DEF Start, ResolutionTypeOK
    <3>2. current'[t] \in TurnsFrom(RequestOf[t], Compiled(t)[index[t]])
      BY <1>5, <2>2, <3>1, TurnsGoOn
    <3>3. current'[t] \in TurnsFrom(RequestOf[t], Compiled(t)[index[t]])'
      BY <1>3, <2>1, <2>7, <3>2 DEF Compiled
    <3>4. AlongTurns(t)' /\ InPlace(t)'
      BY <2>1, <2>4, <2>7, <3>1, <3>3 DEF AlongTurns, InPlace
    <3>5. SettledSoFar(t)'
      BY <1>1, <1>6, <2>1, <2>7, SettledSoFarKept
    <3>6. QED
      BY <3>4, <3>5 DEF TryInv
  <2>8. CASE /\ p \notin {"", "rr"} /\ NextChild(t) /\ tpos' = tpos
             /\ IF p = "ok" THEN UNCHANGED legacy ELSE LegacyChild(t)
    <3>1. index'[t] = index[t] + 1 /\ tpos'[t] = "child"
      BY <1>1, <2>1, <2>8 DEF NextChild, ResolutionTypeOK
    <3>2. PICK k \in Nat \ {0} : k = index[t]
      BY <1>2
    <3>3. k \notin legacy[t] /\ \A M \in Clients : <<k, M>> \notin targets[t]
      BY <1>2, <1>6, <3>2 DEF SettledSoFar
    <3>4. legacy'[t] = IF p = "ok" THEN legacy[t] ELSE legacy[t] \cup {k}
      BY <1>1, <2>8, <3>2 DEF LegacyChild, ResolutionTypeOK
    <3>5. Settled(t, k)'
      <4>1. ClientProvider[Compiled(t)[k]] = p /\ k \in 1 .. Len(Compiled(t))
        BY <2>1, <3>2
      <4>2. k \in legacy'[t] <=> p # "ok"
        BY <3>3, <3>4
      <4>3. \A M \in Clients : <<k, M>> \notin targets'[t]
        BY <2>1, <3>3
      <4> HIDE DEF p
      <4>4. QED
        BY <2>1, <2>8, <4>1, <4>2, <4>3 DEF Settled
    <3>6. SettledSoFar(t)'
      <4>1. \A i \in Nat \ {k} : i \in legacy'[t] <=> i \in legacy[t]
        BY <3>4
      <4>2. targets'[t] = targets[t] /\ effective'[t] = effective[t]
        BY <2>1
      <4>3. QED
        BY <1>1, <1>6, <2>1, <3>1, <3>2, <3>5, <4>1, <4>2, SettledNext
    <3>7. AlongTurns(t)'
      BY <2>4, <3>1 DEF AlongTurns
    <3>8. InPlace(t)'
      <4>1. Len(Compiled(t)) \in Nat
        BY <1>5
      <4>2. index'[t] \in 1 .. Len(Compiled(t)) + 1 /\ effective'[t] = effective[t]
        BY <2>1, <3>1, <4>1
      <4>3. QED
        BY <2>1, <3>1, <4>2 DEF InPlace
    <3>9. QED
      BY <3>6, <3>7, <3>8 DEF TryInv
  <2>9. QED
    BY <2>3, <2>5, <2>6, <2>7, <2>8
<1>14. CASE NestedLeaf(t)
  <2> DEFINE L == current[t]
  <2>1. /\ tpos[t] = "nested" /\ UNCHANGED <<effective, cached, primary>> /\ tpos'[t] = "child"
        /\ index'[t] = index[t] + 1 /\ Decided(t) /\ Compiled(t)' = Compiled(t)
        /\ ClientProvider[L] # "rr"
    BY <1>1, <1>2, <1>4, <1>14 DEF NestedLeaf, NextChild, Decided, Compiled, ResolutionTypeOK
  <2>2. /\ index[t] \in 1 .. Len(Compiled(t)) /\ ClientProvider[Compiled(t)[index[t]]] = "rr"
        /\ ClientProvider[effective[t]] = "fallback" /\ Compiled(t) # <<>>
        /\ Leaf(RequestOf[t], Compiled(t)[index[t]], L)
    BY <1>6, <2>1 DEF InPlace, AlongTurns, Leaf
  <2>3. PICK k \in Nat \ {0} : k = index[t]
    BY <1>2
  <2>4. k \notin legacy[t] /\ \A M \in Clients : <<k, M>> \notin targets[t]
    BY <1>2, <1>6, <2>3 DEF SettledSoFar
  <2>5. /\ targets'[t] = IF ClientProvider[L] = "ok" THEN targets[t] \cup {<<k, L>>} ELSE targets[t]
        /\ legacy'[t] = IF ClientProvider[L] = "ok" THEN legacy[t] ELSE legacy[t] \cup {k}
    BY <1>1, <1>2, <1>4, <1>14, <2>3 DEF NestedLeaf, LegacyChild, ResolutionTypeOK
  <2>6. Settled(t, k)'
    <3>1. k \in legacy'[t] <=> ClientProvider[L] # "ok"
      BY <2>4, <2>5
    <3>2. \A M \in Clients : <<k, M>> \in targets'[t] <=> M = L /\ ClientProvider[L] = "ok"
      BY <1>2, <2>4, <2>5
    <3>3. PICK N \in Clients : N = L
      BY <1>2
    <3>4. Leaf(RequestOf[t], Compiled(t)[k], N)'
      BY <1>3, <2>1, <2>2, <2>3, <3>3 DEF Compiled
    <3>5. /\ ClientProvider[Compiled(t)[k]] = "rr" /\ k \in 1 .. Len(Compiled(t))
          /\ k \in legacy'[t] <=> ClientProvider[N] # "ok"
          /\ \A M \in Clients : <<k, M>> \in targets'[t] <=> M = N /\ ClientProvider[N] = "ok"
      BY <2>2, <2>3, <3>1, <3>2, <3>3
    <3>6. QED
      BY <2>1, <3>4, <3>5 DEF Settled
  <2>7. SettledSoFar(t)'
    <3>1. \A i \in Nat \ {k} : /\ i \in legacy'[t] <=> i \in legacy[t]
                               /\ \A M \in Clients : <<i, M>> \in targets'[t] <=> <<i, M>> \in targets[t]
      BY <2>5
    <3>2. effective'[t] = effective[t]
      BY <2>1
    <3>3. QED
      BY <1>1, <1>6, <2>1, <2>3, <2>6, <3>1, <3>2, SettledNext
  <2>8. AlongTurns(t)'
    BY <1>3, <1>6, <2>1 DEF AlongTurns
  <2>9. InPlace(t)'
    <3>1. Len(Compiled(t)) \in Nat
      BY <1>5
    <3>2. index'[t] \in 1 .. Len(Compiled(t)) + 1 /\ effective'[t] = effective[t]
      BY <2>1, <2>2, <3>1
    <3>3. QED
      BY <2>1, <2>2, <3>2 DEF InPlace
  <2>10. QED
    BY <2>7, <2>8, <2>9 DEF TryInv
<1>15. CASE NestedRefused(t)
  BY <1>2, <1>4, <1>15 DEF NestedRefused
<1>16. CASE ChainPlanned(t)
  <2>1. /\ tpos[t] = "child" /\ UNCHANGED <<effective, index, targets, legacy>>
        /\ Decided(t) /\ Compiled(t)' = Compiled(t) /\ index[t] > Len(Compiled(t))
        /\ tpos'[t] = "over"
        /\ plan'[t] = IF Cardinality(legacy[t]) = Len(Compiled(t)) THEN "legacy" ELSE "chain"
    BY <1>1, <1>5, <1>16 DEF ChainPlanned, Finish, Decided, Compiled, ResolutionTypeOK
  <2>2. /\ ClientProvider[effective[t]] = "fallback" /\ Compiled(t) # <<>>
        /\ index[t] = Len(Compiled(t)) + 1
    BY <1>2, <1>5, <1>6, <2>1 DEF InPlace
  <2>3. AlongTurns(t)'
    BY <1>1, <1>3, <1>6, <2>1 DEF AlongTurns
  <2>4. SettledSoFar(t)'
    BY <1>1, <1>6, <2>1, SettledSoFarKept
  <2>5. InPlace(t)'
    BY <2>1, <2>2 DEF InPlace
  <2>6. QED
    BY <2>3, <2>4, <2>5 DEF TryInv
<1>17. QED
  BY <1>8, <1>9, <1>10, <1>11, <1>12, <1>13, <1>14, <1>15, <1>16 DEF TryStep

LEMMA RotationInvStarts ==
  ASSUME NEW reg \in [Clients -> Entries], NEW root \in Clients, NEW active \in SUBSET Tries,
         ResolutionInit(reg, root, active)
  PROVE  RotationInv
<1>1. PreflightInv
  BY PreflightInvStarts
<1>2. cached = {} /\ counters = [c \in Clients |-> Starts[c] % Modulus]
  BY DEF ResolutionInit
<1>3. OneAnswer
  BY <1>2 DEF OneAnswer
<1>4. TurnsCounted
  <2>1. \A c : Drawn(c) = {}
    BY <1>2 DEF Drawn
  <2>2. \A c \in Clients : Starts[c] + 0 = Starts[c]
    <3>1. \A c \in Clients : Starts[c] \in Int
      BY ResolutionAssumption
    <3>2. QED
      BY <3>1
  <2>3. QED
    BY <1>2, <2>1, <2>2, FS_EmptySet DEF TurnsCounted
<1>5. ASSUME NEW t \in Tries PROVE TryInv(t)
  <2>1. /\ primary = root /\ current[t] = root /\ index[t] = 1 /\ targets[t] = {} /\ legacy[t] = {}
        /\ tpos[t] \in {"unwrap", "off"} /\ plan[t] = "none"
    BY DEF ResolutionInit
  <2>2. root \in TurnsFrom(RequestOf[t], root)
    BY TurnsGoOn
  <2>3. AlongTurns(t)
    BY <2>1, <2>2 DEF AlongTurns, Decided
  <2>4. SettledSoFar(t)
    BY <2>1 DEF SettledSoFar
  <2>5. InPlace(t)
    BY <2>1 DEF InPlace
  <2>6. QED
    BY <2>3, <2>4, <2>5 DEF TryInv
<1>6. QED
  BY <1>1, <1>3, <1>4, <1>5 DEF RotationInv

LEMMA RotationInvStep ==
  ASSUME RotationInv, NEW t \in Tries, TryStep(t)
  PROVE  RotationInv'
<1>1. PreflightInv /\ ResolutionTypeOK /\ OneAnswer /\ TurnsCounted
  BY DEF RotationInv, PreflightInv
<1>2. PreflightInv'
  BY <1>1, TypeStep, PlacedStep DEF PreflightInv
<1>3. OneAnswer' /\ TurnsCounted'
  <2>1. UNCHANGED <<counters, cached>> \/ FetchAdd(current[t], RequestOf[t])
    BY <1>1, SelectRound DEF TryStep, ResolveFails, Effective, Classify, ClassifyChild, NestedLeaf,
                             NestedRefused, ChainPlanned
  <2>2. current[t] \in Clients
    BY <1>1 DEF ResolutionTypeOK
  <2>3. QED
    BY <1>1, <2>1, <2>2, DrawCounts
<1>4. ASSUME Untouched' PROVE \A u \in Tries : TryInv(u)'
  <2>1. Untouched
    BY <1>1, <1>4, StepOfOneTry DEF Untouched
  <2>2. \A u \in Tries : TryInv(u)
    BY <2>1 DEF RotationInv
  <2>3. TryInv(t)'
    BY <1>1, <2>1, <2>2, OwnStepStands
  <2>4. \A u \in Tries \ {t} : TryInv(u)'
    BY <1>1, <2>2, OthersStand, StepOfOneTry
  <2>5. QED
    BY <2>3, <2>4
<1>5. QED
  BY <1>2, <1>3, <1>4 DEF RotationInv

\* Two tries of one request that both come to a plan come to the same one.
LEMMA TriesAgree ==
  ASSUME RotationInv, Untouched, NEW t \in Tries, NEW u \in Tries, RequestOf[t] = RequestOf[u],
         tpos[t] = "over", tpos[u] = "over", plan[t] # "failed", plan[u] # "failed"
  PROVE  Outcome(t) = Outcome(u)
<1>1. /\ ResolutionTypeOK /\ OneAnswer /\ TryInv(t) /\ TryInv(u) /\ Decided(t) /\ Decided(u)
      /\ primary \in Clients /\ effective[t] \in Clients
      /\ index[t] \in Nat \ {0} /\ index[u] \in Nat \ {0}
  BY DEF RotationInv, PreflightInv, Placed, ResolutionTypeOK, Decided
<1>2. effective[t] = effective[u]
  BY <1>1, OneLeaf DEF TryInv, AlongTurns
<1>3. Compiled(t) = Compiled(u) /\ Compiled(t) \in Seq(Clients)
  BY <1>1, <1>2, ResolutionAssumption DEF Compiled
<1> DEFINE n == Len(Compiled(t))
           Known(i) == ClientProvider[Compiled(t)[i]] # ""
<1>4. /\ \A i \in 1 .. index[t] - 1 : i \in 1 .. n /\ Known(i)
      /\ \A i \in 1 .. index[u] - 1 : i \in 1 .. n /\ Known(i)
  <2>1. ASSUME NEW i \in 1 .. index[t] - 1 PROVE i \in 1 .. n /\ Known(i)
    <3>1. i \in Nat
      BY <1>1
    <3>2. Settled(t, i)
      BY <1>1, <3>1 DEF TryInv, SettledSoFar
    <3>3. QED
      BY <3>2 DEF Settled
  <2>2. ASSUME NEW i \in 1 .. index[u] - 1 PROVE i \in 1 .. n /\ Known(i)
    <3>1. i \in Nat
      BY <1>1
    <3>2. Settled(u, i)
      BY <1>1, <3>1 DEF TryInv, SettledSoFar
    <3>3. QED
      BY <1>3, <3>2 DEF Settled
  <2>3. QED
    BY <2>1, <2>2
<1>5. index[t] = index[u]
  <2> DEFINE walks == ClientProvider[effective[t]] = "fallback" /\ Compiled(t) # <<>>
             Stops(k) == (~ walks /\ k = 1) \/ (walks /\ k \in 1 .. n /\ ~ Known(k)) \/ (walks /\ k = n + 1)
  <2>1. Stops(index[t])
    BY <1>1 DEF TryInv, InPlace
  <2>2. Stops(index[u])
    BY <1>1, <1>2, <1>3 DEF TryInv, InPlace
  <2>3. n \in Nat
    BY <1>3
  <2> HIDE DEF walks, n, Known
  <2>4. QED
    BY <1>1, <1>4, <2>1, <2>2, <2>3
<1>6. ASSUME NEW i \in Nat
      PROVE  /\ i \in legacy[t] <=> i \in legacy[u]
             /\ \A M \in Clients : <<i, M>> \in targets[t] <=> <<i, M>> \in targets[u]
  <2>1. CASE i \notin 1 .. index[t] - 1
    BY <1>1, <1>5, <2>1 DEF TryInv, SettledSoFar
  <2>2. CASE i \in 1 .. index[t] - 1
    <3>1. Settled(t, i) /\ Settled(u, i)
      BY <1>1, <1>5, <2>2 DEF TryInv, SettledSoFar
    <3>2. CASE ClientProvider[Compiled(t)[i]] # "rr"
      BY <1>3, <3>1, <3>2 DEF Settled
    <3>3. CASE ClientProvider[Compiled(t)[i]] = "rr"
      <4>1. PICK L \in Clients :
               /\ Leaf(RequestOf[t], Compiled(t)[i], L)
               /\ \A M \in Clients : <<i, M>> \in targets[t] <=> M = L /\ ClientProvider[L] = "ok"
               /\ i \in legacy[t] <=> ClientProvider[L] # "ok"
        BY <3>1, <3>3 DEF Settled
      <4>2. PICK K \in Clients :
               /\ Leaf(RequestOf[u], Compiled(u)[i], K)
               /\ \A M \in Clients : <<i, M>> \in targets[u] <=> M = K /\ ClientProvider[K] = "ok"
               /\ i \in legacy[u] <=> ClientProvider[K] # "ok"
        BY <1>3, <3>1, <3>3 DEF Settled
      <4>3. Compiled(t)[i] \in Clients
        <5>1. i \in 1 .. Len(Compiled(t))
          BY <3>1 DEF Settled
        <5>2. QED
          BY <1>3, <5>1
      <4>4. L = K
        BY <1>1, <1>3, <4>1, <4>2, <4>3, OneLeaf
      <4>5. QED
        BY <4>1, <4>2, <4>4
    <3>4. QED
      BY <3>2, <3>3
  <2>3. QED
    BY <2>1, <2>2
<1>7. legacy[t] = legacy[u]
  <2>1. legacy[t] \subseteq Nat /\ legacy[u] \subseteq Nat
    BY <1>1 DEF ResolutionTypeOK
  <2>2. QED
    BY <1>6, <2>1
<1>8. targets[t] = targets[u]
  <2>1. targets[t] \subseteq Nat \X Clients /\ targets[u] \subseteq Nat \X Clients
    BY <1>1 DEF ResolutionTypeOK
  <2>2. \A e \in Nat \X Clients : e \in targets[t] <=> e \in targets[u]
    BY <1>6
  <2>3. QED
    BY <2>1, <2>2
<1>9. plan[t] = plan[u]
  <2>1. Len(Compiled(t)) \in Nat
    BY <1>3
  <2>2. InPlace(t) /\ InPlace(u)
    BY <1>1 DEF TryInv
  <2> DEFINE walks == ClientProvider[effective[t]] = "fallback" /\ Compiled(t) # <<>>
             k == index[t]
             many == Cardinality(legacy[t])
             lone == ClientProvider[effective[t]] = "ok"
             To(p) == \/ ~ walks /\ k = 1 /\ p = IF lone THEN "single" ELSE "legacy"
                      \/ walks /\ k \in 1 .. n /\ p = "legacy"
                      \/ walks /\ k = n + 1 /\ p = IF many = n THEN "legacy" ELSE "chain"
  <2>3. To(plan[t])
    BY <2>2 DEF InPlace
  <2>4. To(plan[u])
    BY <1>2, <1>3, <1>5, <1>7, <2>2 DEF InPlace
  <2> HIDE DEF walks, k, many, lone, n
  <2>5. QED
    BY <2>1, <2>3, <2>4 DEF n
<1>10. QED
  BY <1>2, <1>7, <1>8, <1>9 DEF Outcome

LEMMA RotationInvGives ==
  ASSUME RotationInv
  PROVE  RotationStable
<1>1. \A c \in Clients : counters[c] = (Starts[c] + Cardinality(Drawn(c))) % Modulus
  BY DEF RotationInv, TurnsCounted
<1>2. Untouched => \A t, u \in Tries :
        RequestOf[t] = RequestOf[u] /\ tpos[t] = "over" /\ tpos[u] = "over"
        /\ plan[t] # "failed" /\ plan[u] # "failed" => Outcome(t) = Outcome(u)
  BY TriesAgree
<1>3. QED
  BY <1>1, <1>2 DEF RotationStable, Drawn

\* On compiled clients a request that is tried again, on any worker, after any number
\* of failed calls to the host and with any other requests in between, comes to the same
\* effective client, targets, legacy children and plan; and each counter has moved by
\* one for each request that drew from it, around its width.
THEOREM RotationIsStable == ResolutionSpec => []RotationStable
<1>1. (\E reg \in [Clients -> Entries], root \in Clients, active \in SUBSET Tries :
          ResolutionInit(reg, root, active)) => RotationInv
  BY RotationInvStarts
<1>2. RotationInv /\ [ResolutionNext]_resolutionVars => RotationInv'
  <2>1. ASSUME RotationInv, NEW t \in Tries, TryStep(t) PROVE RotationInv'
    BY <2>1, RotationInvStep
  <2>2. ASSUME RotationInv, UNCHANGED resolutionVars PROVE RotationInv'
    <3>1. /\ UNCHANGED <<registry, primary, tpos, effective, current, seen, index, targets, legacy>>
          /\ UNCHANGED <<plan, sentinel, counters, cached>>
      BY <2>2 DEF resolutionVars
    <3>2. PreflightInv'
      <4>1. ResolutionTypeOK'
        BY <2>2, <3>1 DEF RotationInv, PreflightInv, ResolutionTypeOK
      <4>2. Placed' /\ PreflightComplete'
        BY <2>2, <3>1, WalkIsFixed
        DEF RotationInv, PreflightInv, Placed, PreflightComplete, Chain, Child, ChainOf
      <4>3. QED
        BY <4>1, <4>2 DEF PreflightInv
    <3>3. OneAnswer' /\ TurnsCounted'
      <4>1. \A c : Drawn(c)' = Drawn(c)
        BY <3>1 DEF Drawn
      <4>2. QED
        BY <2>2, <3>1, <4>1 DEF RotationInv, OneAnswer, TurnsCounted
    <3>5. \A t \in Tries : TryInv(t) => TryInv(t)'
      BY <3>1, OthersStand
    <3>6. Untouched' <=> Untouched
      BY <3>1 DEF Untouched
    <3>7. QED
      BY <2>2, <3>2, <3>3, <3>5, <3>6 DEF RotationInv
  <2>3. QED
    BY <2>1, <2>2 DEF ResolutionNext
<1>3. RotationInv => RotationStable
  BY RotationInvGives
<1>4. QED
  BY <1>1, <1>2, <1>3, PTL DEF ResolutionSpec
=============================================================================
