------------------------- MODULE ClientResolution --------------------------
(***************************************************************************)
(* How a worker decides which LLM clients serve a request: the unwrapping  *)
(* of round-robin clients (buildrequest/roundrobin Resolve, called by      *)
(* ResolveEffectiveClient) and the plan of a fallback chain                *)
(* (ResolveFallbackChainPlanForClient), with the overrides the request's   *)
(* client registry makes.  A request may be tried on several workers; all  *)
(* draw from the host's counters under the request's id (SharedStateStore, *)
(* whose contract IdempotentCounter is what Advance uses here).  Provider  *)
(* spellings are folded: "rr", "fallback", "ok" (driven by BuildRequest),  *)
(* "other" and "" (none known).                                            *)
(***************************************************************************)
EXTENDS Integers, Sequences, FiniteSets

CONSTANTS
    Tries,            \* workers resolving, each for one request
    RequestOf,        \* the request of each try
    Clients,
    ClientProvider,   \* introspected.ClientProvider
    FallbackChain,    \* introspected.FallbackChains, <<>> where there is none
    Starts,           \* seed of each static counter, as configured (may be negative)
    Modulus           \* width of a counter, 2^64 in the code

VARIABLES
    registry,         \* the runtime client_registry, by client
    primary,          \* the client the request asks for
    tpos,             \* where each try stands
    effective,        \* the client after unwrapping
    current, seen,    \* Resolve: the client looked at, the ones before it
    index,            \* position in the fallback chain
    targets,          \* chain position -> leaf of a centralized child, as pairs
    legacy,           \* chain positions left to the legacy path
    plan,             \* what the try came to
    sentinel,         \* Resolve found an invalid override inside a chain
    counters,         \* the host's counters
    cached            \* the host's idempotency cache: (client, request) -> value, as pairs

resolutionVars == <<registry, primary, tpos, effective, current, seen, index, targets, legacy,
                    plan, sentinel, counters, cached>>

ASSUME ResolutionAssumption ==
    /\ IsFiniteSet(Tries) /\ RequestOf \in [Tries -> Nat] /\ Modulus \in Nat \ {0}
    /\ ClientProvider \in [Clients -> {"rr", "fallback", "ok", "other", ""}]
    /\ FallbackChain \in [Clients -> Seq(Clients)] /\ Starts \in [Clients -> Int]

\* A registry entry: provider, strategy and start may each be left out, and a
\* strategy or a start may be there and not parse.
NoStrategy == [present |-> FALSE, chain |-> <<>>]
NoStart == [kind |-> "absent", at |-> 0]
NoEntryFor == [there |-> FALSE, provider |-> "absent", strategy |-> NoStrategy, start |-> NoStart]

Entries ==
    {NoEntryFor} \cup
    [there : {TRUE}, provider : {"absent", "", "rr", "fallback", "ok", "other"},
     strategy : {NoStrategy} \cup [present : {TRUE}, chain : Seq(Clients)],
     start : {NoStart} \cup [kind : {"invalid", "valid"}, at : Int]]

Positions == {"off", "unwrap", "classify", "child", "nested", "over"}
Plans == {"none", "failed", "legacy", "single", "chain"}

ResolutionTypeOK ==
    /\ registry \in [Clients -> Entries] /\ primary \in Clients
    /\ tpos \in [Tries -> Positions] /\ plan \in [Tries -> Plans]
    /\ effective \in [Tries -> Clients] /\ current \in [Tries -> Clients]
    /\ seen \in [Tries -> SUBSET Clients] /\ index \in [Tries -> Nat]
    /\ targets \in [Tries -> SUBSET (Nat \X Clients)] /\ legacy \in [Tries -> SUBSET Nat]
    /\ sentinel \in [Tries -> BOOLEAN] /\ counters \in [Clients -> 0 .. Modulus - 1]
    /\ cached \subseteq (Clients \X Nat) \X (0 .. Modulus - 1)

\* uint64(start): a negative start becomes a large counter.
ResolutionInit(reg, root, active) ==
    /\ registry = reg /\ primary = root
    /\ tpos = [t \in Tries |-> IF t \in active THEN "unwrap" ELSE "off"]
    /\ effective = [t \in Tries |-> root] /\ current = [t \in Tries |-> root]
    /\ seen = [t \in Tries |-> {}] /\ index = [t \in Tries |-> 1]
    /\ targets = [t \in Tries |-> {}] /\ legacy = [t \in Tries |-> {}]
    /\ plan = [t \in Tries |-> "none"] /\ sentinel = [t \in Tries |-> FALSE]
    /\ counters = [c \in Clients |-> Starts[c] % Modulus] /\ cached = {}

-----------------------------------------------------------------------------
(* Reading the registry                                                    *)

\* A present provider counts even when it is empty.
ProviderOf(c) ==
    IF registry[c].provider # "absent" THEN registry[c].provider ELSE ClientProvider[c]

ChainOf(c) == IF registry[c].strategy.present THEN registry[c].strategy.chain ELSE FallbackChain[c]

StrategyInvalid(c) == registry[c].strategy.present /\ registry[c].strategy.chain = <<>>
StrategyMissing(c, kinds) == registry[c].provider \in kinds /\ ~ registry[c].strategy.present
StartInvalid(c) == registry[c].start.kind = "invalid"
ProviderInvalid(c) == registry[c].provider = ""

Strategies == {"rr", "fallback"}

\* The overrides Resolve refuses with a sentinel error.  The start is only looked
\* at once the client is known to have children.
Refused(c) ==
    StrategyInvalid(c) \/ StrategyMissing(c, {"rr"}) \/ (ChainOf(c) # <<>> /\ StartInvalid(c))

-----------------------------------------------------------------------------
(* roundrobin.Resolve                                                      *)

\* Mutant: the operation id is not passed on, every call advances.
CachedFor(c, r) == {}

\* What the host answered this request for the client before.
Replayed(c, r) == {e[2] : e \in {x \in cached : x[1] = <<c, r>>}}

\* FetchAdd with the request id: a first call advances the counter.
FetchAdd(c, r) ==
    IF Replayed(c, r) # {} THEN UNCHANGED <<counters, cached>>
    ELSE /\ counters' = [counters EXCEPT ![c] = (@ + 1) % Modulus]
         /\ cached' = cached \cup {<<<<c, r>>, counters[c]>>}

Previous(c, r) == IF Replayed(c, r) # {} THEN CHOOSE v \in Replayed(c, r) : TRUE ELSE counters[c]

Fail(t) == tpos' = [tpos EXCEPT ![t] = "over"] /\ plan' = [plan EXCEPT ![t] = "failed"]

\* One round of the loop on a round-robin client with children.  A client the
\* registry touches has a start or is drawn at random, another one takes the
\* host's counter; the call to the host may fail before or after it counted.
Select(t) ==
    LET c == current[t]
        chain == ChainOf(c)
        Go(i) == /\ current' = [current EXCEPT ![t] = chain[i + 1]]
                 /\ seen' = [seen EXCEPT ![t] = @ \cup {c}]
                 /\ UNCHANGED <<tpos, plan>>
    IN \/ /\ registry[c].there
          /\ \E i \in IF registry[c].start.kind = "valid"
                      THEN {(registry[c].start.at % Modulus) % Len(chain)}
                      ELSE 0 .. Len(chain) - 1 : Go(i)
          /\ UNCHANGED <<counters, cached>>
       \/ /\ ~ registry[c].there
          /\ FetchAdd(c, RequestOf[t])
          /\ \/ Go(Previous(c, RequestOf[t]) % Len(chain))
             \/ Fail(t) /\ UNCHANGED <<current, seen>>
       \/ /\ ~ registry[c].there /\ Fail(t)
          /\ UNCHANGED <<current, seen, counters, cached>>

Unwrapping(t) == tpos[t] \in {"unwrap", "nested"}
AtStrategy(t) == current[t] \notin seen[t] /\ ProviderOf(current[t]) = "rr"

\* A cycle, or a client without children, fails the request.
ResolveFails(t) ==
    /\ Unwrapping(t)
    /\ \/ current[t] \in seen[t]
       \/ AtStrategy(t) /\ ~ Refused(current[t]) /\ ChainOf(current[t]) = <<>>
    /\ Fail(t)
    /\ UNCHANGED <<registry, primary, effective, current, seen, index, targets, legacy, sentinel,
                   counters, cached>>

ResolveSelects(t) ==
    /\ Unwrapping(t) /\ AtStrategy(t)
    /\ ~ Refused(current[t]) /\ ChainOf(current[t]) # <<>>
    /\ Select(t)
    /\ UNCHANGED <<registry, primary, effective, index, targets, legacy, sentinel>>

Start(t, c) == current' = [current EXCEPT ![t] = c] /\ seen' = [seen EXCEPT ![t] = {}]

\* ResolveEffectiveClient: the leaf, or the client as it was asked for when an
\* override is refused, so that the legacy path reports it.
Effective(t) ==
    /\ tpos[t] = "unwrap" /\ current[t] \notin seen[t]
    /\ \/ ProviderOf(current[t]) # "rr" /\ effective' = [effective EXCEPT ![t] = current[t]]
       \/ AtStrategy(t) /\ Refused(current[t]) /\ effective' = [effective EXCEPT ![t] = primary]
    /\ tpos' = [tpos EXCEPT ![t] = "classify"]
    /\ UNCHANGED <<registry, primary, current, seen, index, targets, legacy, plan, sentinel,
                   counters, cached>>

-----------------------------------------------------------------------------
(* FindInvalidReachableStrategyOverride                                    *)

\* For the walk a client with an empty provider keeps its place in the graph.
GraphProvider(c) ==
    IF registry[c].provider \notin {"absent", ""} THEN registry[c].provider ELSE ClientProvider[c]

\* Clients the walk visits from root: it goes on below a strategy client, and the
\* visited set ends it on a cycle.
Reachable(root) ==
    LET Closed(S) == \A c \in S : GraphProvider(c) \in Strategies =>
                        \A i \in DOMAIN ChainOf(c) : ChainOf(c)[i] \in S
    IN {c \in Clients : \A S \in SUBSET Clients : root \in S /\ Closed(S) => c \in S}

\* Mutant: only the child itself is looked at, not what it leads to.
InvalidAtChild(root) ==
    \/ ProviderInvalid(root)
    \/ /\ GraphProvider(root) \in Strategies
       /\ StrategyInvalid(root) \/ StrategyMissing(root, Strategies)
          \/ (GraphProvider(root) = "rr" /\ StartInvalid(root))

\* Some client that can be reached carries an override that is refused.
InvalidReachable(root) ==
    \E c \in Reachable(root) :
        \/ ProviderInvalid(c)
        \/ /\ GraphProvider(c) \in Strategies
           /\ \/ StrategyInvalid(c) \/ StrategyMissing(c, Strategies)
              \/ GraphProvider(c) = "rr" /\ StartInvalid(c)

-----------------------------------------------------------------------------
(* ResolveFallbackChainPlanForClient                                       *)

Finish(t, p) == tpos' = [tpos EXCEPT ![t] = "over"] /\ plan' = [plan EXCEPT ![t] = p]

\* No fallback client: one provider, driven by BuildRequest or left to legacy.
\* A refused or empty chain goes to legacy as a whole.
Classify(t) ==
    LET c == effective[t]
    IN /\ tpos[t] = "classify"
       /\ IF ProviderOf(c) # "fallback" THEN Finish(t, IF ProviderOf(c) = "ok" THEN "single" ELSE "legacy")
          ELSE IF StrategyInvalid(c) \/ StrategyMissing(c, Strategies) \/ ChainOf(c) = <<>>
               THEN Finish(t, "legacy")
               ELSE tpos' = [tpos EXCEPT ![t] = "child"] /\ UNCHANGED plan
       /\ UNCHANGED <<registry, primary, effective, current, seen, index, targets, legacy,
                      sentinel, counters, cached>>

Chain(t) == ChainOf(effective[t])
Child(t) == Chain(t)[index[t]]

\* A child on the legacy list; the loop goes on.
LegacyChild(t) == legacy' = [legacy EXCEPT ![t] = @ \cup {index[t]}]
NextChild(t) == index' = [index EXCEPT ![t] = @ + 1]

\* The checks of one child: an invalid override anywhere below it, or an unknown
\* provider, sends the request to legacy; the same round-robin client twice is an
\* error; a round-robin child is unwrapped; other strategies and unsupported
\* providers are legacy children.
ClassifyChild(t) ==
    LET p == ProviderOf(Child(t))
    IN /\ tpos[t] = "child" /\ index[t] <= Len(Chain(t))
       /\ IF p = "" \/ (p \in Strategies /\ InvalidReachable(Child(t)))
          THEN Finish(t, "legacy") /\ UNCHANGED <<current, seen, index, legacy>>
          ELSE IF p = "rr" /\ \E i \in 1 .. index[t] - 1 : Chain(t)[i] = Child(t)
          THEN Fail(t) /\ UNCHANGED <<current, seen, index, legacy>>
          ELSE IF p = "rr"
          THEN /\ tpos' = [tpos EXCEPT ![t] = "nested"] /\ Start(t, Child(t))
               /\ UNCHANGED <<plan, index, legacy>>
          ELSE /\ NextChild(t) /\ UNCHANGED <<tpos, plan, current, seen>>
               /\ IF p = "ok" THEN UNCHANGED legacy ELSE LegacyChild(t)
       /\ UNCHANGED <<registry, primary, effective, targets, sentinel, counters, cached>>

\* resolveImmediateRRChild came to a leaf: centralized when BuildRequest can drive
\* it, a legacy child otherwise.
NestedLeaf(t) ==
    /\ tpos[t] = "nested" /\ current[t] \notin seen[t] /\ ProviderOf(current[t]) # "rr"
    /\ tpos' = [tpos EXCEPT ![t] = "child"] /\ NextChild(t)
    /\ IF ProviderOf(current[t]) = "ok"
       THEN /\ targets' = [targets EXCEPT ![t] = @ \cup {<<index[t], current[t]>>}]
            /\ UNCHANGED legacy
       ELSE LegacyChild(t) /\ UNCHANGED targets
    /\ UNCHANGED <<registry, primary, effective, current, seen, plan, sentinel, counters, cached>>

\* The defensive translation of a sentinel error.
NestedRefused(t) ==
    /\ tpos[t] = "nested" /\ AtStrategy(t) /\ Refused(current[t])
    /\ Finish(t, "legacy") /\ sentinel' = [sentinel EXCEPT ![t] = TRUE]
    /\ UNCHANGED <<registry, primary, effective, current, seen, index, targets, legacy,
                   counters, cached>>

\* All children legacy: the whole request is.
ChainPlanned(t) ==
    /\ tpos[t] = "child" /\ index[t] > Len(Chain(t))
    /\ Finish(t, IF Cardinality(legacy[t]) = Len(Chain(t)) THEN "legacy" ELSE "chain")
    /\ UNCHANGED <<registry, primary, effective, current, seen, index, targets, legacy, sentinel,
                   counters, cached>>

TryStep(t) ==
    \/ ResolveFails(t) \/ ResolveSelects(t) \/ Effective(t) \/ Classify(t)
    \/ ClassifyChild(t) \/ NestedLeaf(t) \/ NestedRefused(t) \/ ChainPlanned(t)

ResolutionNext == \E t \in Tries : TryStep(t)

\* Resolution by itself: any registry, any client asked for, any tries at work.
ResolutionSpec ==
    /\ \E reg \in [Clients -> Entries], root \in Clients, active \in SUBSET Tries :
          ResolutionInit(reg, root, active)
    /\ [][ResolutionNext]_resolutionVars

-----------------------------------------------------------------------------
(* Properties                                                              *)

\* "Sentinel-class errors shouldn't fire here: the preflight above already caught
\* the per-child shapes that produce them" (ResolveFallbackChainPlanForClient): the
\* walk of FindInvalidReachableStrategyOverride and the loop of Resolve read the
\* registry in two ways and agree on every graph of overrides.
PreflightComplete == \A t \in Tries : ~ sentinel[t]

Untouched == \A c \in Clients : ~ registry[c].there
Outcome(t) == <<plan[t], effective[t], targets[t], legacy[t]>>

\* As long as the registry overrides nothing, a request the pool tries again, on
\* whichever worker and with whatever other requests in between, is served by the
\* same clients (an overridden rotation without a start is drawn anew each time).
\* Under every registry, however often a request is tried or meets a round-robin
\* client again, it takes one turn of that rotation.
RotationStable ==
    /\ Untouched => \A t, u \in Tries :
        RequestOf[t] = RequestOf[u] /\ tpos[t] = "over" /\ tpos[u] = "over"
        /\ plan[t] # "failed" /\ plan[u] # "failed" => Outcome(t) = Outcome(u)
    /\ \A c \in Clients :
        counters[c] = (Starts[c] + Cardinality({RequestOf[t] : t \in
            {u \in Tries : \E e \in cached : e[1] = <<c, RequestOf[u]>>}})) % Modulus
=============================================================================
