------------------------------ MODULE Routing ------------------------------
(***************************************************************************)
(* How a request's model string becomes a routing decision: the catalog of *)
(* ModelRegistryService (libs/sirius-model-registry), the LatencyTracker   *)
(* (libs/sirius-observability), RoutingService and its strategies          *)
(* (libs/sirius-routing).                                                  *)
(*                                                                         *)
(* The state is what route() reads: the catalog, the registered providers  *)
(* and the measured latencies.  route() changes nothing and is a function  *)
(* of them, Decision; the properties range over every request in every     *)
(* reachable state.                                                        *)
(*                                                                         *)
(* A Map keeps its keys in the order of their first insertion, and sort()  *)
(* keeps the order of equal elements.  Both orders are kept here as        *)
(* positions: 0 for what is not in the map, else the rank of its           *)
(* insertion.  A list of candidates in a strategy's order is the set of    *)
(* its elements with the relation Before.  Numbers are exact, where the    *)
(* code's are floating point.                                              *)
(*                                                                         *)
(* Definitions marked "Fault:" are as in Policy.                           *)
(***************************************************************************)
EXTENDS Integers, Sequences, FiniteSets, FiniteSetsExt, Functions

CONSTANTS
    Providers,   \* provider names
    Models,      \* canonical model ids
    Aliases,     \* other names of models
    Local,       \* LOCAL_PROVIDERS of two of the strategies
    Embedding,   \* the models that are embedding models
    Baked,       \* DEFAULT_MODEL_CATALOG: the sequence of its keys,
    BakedNames,  \* per key, the aliases it has there,
    BakedCost,   \* per key, the sum of its costs, or NoCost
    RawName,     \* per model, the prefixed name an upstream may list it by
    Offers,      \* bound: the keys that are discovered
    NoCost,      \* no cost is known
    CostUnit,    \* the cost that maxCost is floored at
    Latencies,   \* bound: the latencies that are measured
    Window,      \* WINDOW_SIZE
    Scale,       \* averages are counted in 1/Scale ms, to be whole
    NoKey        \* no entry of the catalog

Keys == Providers \X Models
Names == Models \cup Aliases
Costs == Nat \cup {NoCost}

ASSUME RoutingAssumption ==
    /\ IsFiniteSet(Providers)
    /\ IsFiniteSet(Models)
    /\ Models \cap Keys = {}                        \* no id has the form of a key
    /\ Local \subseteq Providers
    /\ Embedding \subseteq Models
    /\ Baked \in Seq(Keys)
    /\ IsInjective(Baked)
    /\ BakedNames \in [Keys -> SUBSET Names]
    /\ BakedCost \in [Keys -> Costs]
    /\ NoCost \notin Nat
    /\ CostUnit \in Nat \ {0}
    /\ RawName \in [Models -> Names]
    /\ Offers \subseteq Keys
    /\ Latencies \subseteq Nat
    /\ Window \in Nat \ {0}
    /\ Scale \in Nat \ {0}
    /\ \A n \in 1..Window : Scale % n = 0
    /\ NoKey \notin Keys

VARIABLES
    position,   \* per key: its place in the Map `models`
    entry,      \* per key: "default" or "discovered", what the Map holds
    aliasMap,   \* per name: the place of every key in its list of aliasMap
    registered, \* the providers of the ProviderRegistry
    window      \* per provider: its last latencies

vars == <<position, entry, aliasMap, registered, window>>

\* The place of an element that is pushed to the list or Map of those places.
NextPlace(places) == Cardinality({k \in DOMAIN places : places[k] # 0}) + 1
Pushed(places, k) ==
    IF places[k] = 0 THEN [places EXCEPT ![k] = NextPlace(places)] ELSE places

TypeOK ==
    /\ position \in [Keys -> 0..Cardinality(Keys)]
    /\ entry \in [Keys -> {"default", "discovered"}]
    /\ aliasMap \in [Names -> [Keys -> 0..Cardinality(Keys)]]
    /\ registered \subseteq Providers
    /\ window \in [Providers -> Seq(Latencies)]
    /\ \A p \in Providers : Len(window[p]) <= Window
    /\ IsInjective(Restrict(position, {k \in Keys : position[k] # 0}))

BakedPlace(k) ==
    IF k \in Range(Baked) THEN CHOOSE i \in DOMAIN Baked : Baked[i] = k ELSE 0

Init ==
    /\ position = [k \in Keys |-> BakedPlace(k)]
    /\ entry = [k \in Keys |-> "default"]
    /\ aliasMap = [n \in Names |-> [k \in Keys |->
           IF k \in Range(Baked) /\ n \in BakedNames[k]
           THEN Cardinality({j \in Range(Baked) :
                    n \in BakedNames[j] /\ BakedPlace(j) <= BakedPlace(k)})
           ELSE 0]]
    /\ registered = {}
    /\ window = [p \in Providers |-> <<>>]

-----------------------------------------------------------------------------
(* What changes the state. *)

\* Fault: the provider's other entries are dropped.
AddModelPrunes(k, names) ==
    /\ position' = Pushed([j \in Keys |->
           IF j # k /\ j[1] = k[1] THEN 0 ELSE position[j]], k)
    /\ entry' = [entry EXCEPT ![k] = "discovered"]
    /\ aliasMap' = [n \in Names |->
           IF n \in names THEN Pushed(aliasMap[n], k) ELSE aliasMap[n]]
    /\ UNCHANGED <<registered, window>>

\* Registration of a discovered model: a new key goes to the end of the Map, a
\* known one keeps its place; the entry is replaced; names are only added.
AddModel(k, names) ==
    /\ position' = Pushed(position, k)
    /\ entry' = [entry EXCEPT ![k] = "discovered"]
    /\ aliasMap' = [n \in Names |->
           IF n \in names THEN Pushed(aliasMap[n], k) ELSE aliasMap[n]]
    /\ UNCHANGED <<registered, window>>

\* A provider lists a model, by its id or with a prefix.  The answer may come
\* when the provider is no longer registered (see Fleet).
Discover(k) ==
    \E names \in {{k[2]}, {k[2], RawName[k[2]]}} : AddModel(k, names)

Register(p) ==
    /\ registered' = registered \cup {p}
    /\ UNCHANGED <<position, entry, aliasMap, window>>

Unregister(p) ==
    /\ registered' = registered \ {p}
    /\ UNCHANGED <<position, entry, aliasMap, window>>

\* Fault: the window is never shortened.
RecordForever(p, latency) ==
    /\ window' = [window EXCEPT ![p] = Append(@, latency)]
    /\ UNCHANGED <<position, entry, aliasMap, registered>>

\* LatencyTracker.record, after a call that succeeded.
Record(p, latency) ==
    LET history == Append(window[p], latency)
    IN  /\ window' = [window EXCEPT ![p] =
               IF Len(history) > Window THEN Tail(history) ELSE history]
        /\ UNCHANGED <<position, entry, aliasMap, registered>>

Next ==
    \/ \E p \in Providers :
          \/ Register(p)
          \/ Unregister(p)
          \/ \E l \in Latencies : Record(p, l)
    \/ \E k \in Offers : Discover(k)

Spec == Init /\ [][Next]_vars

-----------------------------------------------------------------------------
(* Resolution of a model string, which is a name or a key. *)

Listed == {k \in Keys : position[k] # 0}

\* The element of a set of keys that comes first among those places.
FirstOf(keys, places) ==
    IF keys = {} THEN NoKey
    ELSE CHOOSE k \in keys : \A j \in keys : places[k] <= places[j]

Bearing(m) == {k \in Listed : k[2] = m}
Aliased(n) == {k \in Keys : aliasMap[n][k] # 0}

\* Fault: the list of aliases is looked up before the canonical ids.
ResolveAliasesFirst(s) ==
    IF s \in Keys
    THEN IF s \in Listed THEN s ELSE NoKey
    ELSE IF Aliased(s) # {} THEN FirstOf(Aliased(s), aliasMap[s])
    ELSE FirstOf(Bearing(s), position)

ResolveModel(s) ==
    IF s \in Keys
    THEN IF s \in Listed THEN s ELSE NoKey
    ELSE IF Bearing(s) # {} THEN FirstOf(Bearing(s), position)
    ELSE FirstOf(Aliased(s), aliasMap[s])

-----------------------------------------------------------------------------
(* Candidates. *)

Capabilities(k) ==
    IF k[2] \in Embedding THEN {"embeddings"}
    ELSE {"chat", "streaming"} \cup (IF entry[k] = "default" THEN {"tools"} ELSE {})

\* deriveCapabilities of a request.
Needs == {{"embeddings"}} \cup {{"chat"} \cup more : more \in SUBSET {"streaming", "tools"}}

Candidates(m, need) ==
    {k \in Bearing(m) : k[1] \in registered /\ need \subseteq Capabilities(k)}

Cost(k) == IF entry[k] = "default" THEN BakedCost[k] ELSE NoCost

\* getAverageLatency(...) ?? 0
Latency(k) ==
    LET history == window[k[1]]
    IN  IF history = <<>> THEN 0
        ELSE SumFunction(history) * (Scale \div Len(history))

-----------------------------------------------------------------------------
(* Strategies. *)

Strategies == {"pinned", "fastest", "cheapest", "balanced", "local-first",
               "privacy-first"}

\* Fault: clouds are ranked behind the local providers instead of left out.
PoolWithClouds(strategy, C) == C

\* The candidates a strategy ranks; every one of route() is healthy.
Pool(strategy, C) ==
    LET local == {k \in C : k[1] \in Local}
    IN  IF strategy = "privacy-first" /\ local # {} THEN local ELSE C

Faster(a, b) == Latency(a) < Latency(b)
Cheaper(a, b) == Cost(a) # NoCost /\ (Cost(b) = NoCost \/ Cost(a) < Cost(b))

\* Fault: a model without a price costs nothing.
ScoreUnpricedAsFree(k, C) ==
    LET maxCost == Max(({Cost(j) : j \in C} \ {NoCost}) \cup {CostUnit})
        maxLatency == Max({Latency(j) : j \in C} \cup {Scale})
    IN  (IF Cost(k) = NoCost THEN 0 ELSE Cost(k)) * maxLatency + Latency(k) * maxCost

\* 0.5 * cost / maxCost + 0.5 * latency / maxLatency over the pool, without
\* its positive factor 2 * maxCost * maxLatency.
Score(k, C) ==
    LET maxCost == Max(({Cost(j) : j \in C} \ {NoCost}) \cup {CostUnit})
        maxLatency == Max({Latency(j) : j \in C} \cup {Scale})
    IN  (IF Cost(k) = NoCost THEN maxCost ELSE Cost(k)) * maxLatency
            + Latency(k) * maxCost

\* The strategy's comparator puts a ahead of b.
Ahead(strategy, a, b, C) ==
    CASE strategy \in {"fastest", "privacy-first"} -> Faster(a, b)
      [] strategy = "cheapest" -> Cheaper(a, b)
      [] strategy = "balanced" -> Score(a, C) < Score(b, C)
      [] strategy = "local-first" ->
            \/ a[1] \in Local /\ b[1] \notin Local
            \/ (a[1] \in Local <=> b[1] \in Local) /\ Faster(a, b)
      [] OTHER -> FALSE

\* The order of the sorted list; equal elements stay in catalog order.
Before(strategy, a, b, C) ==
    \/ Ahead(strategy, a, b, C)
    \/ ~Ahead(strategy, b, a, C) /\ position[a] < position[b]

\* select and buildFallbackChain of a strategy.
Selected(strategy, C) ==
    LET pool == Pool(strategy, C)
    IN  CHOOSE a \in pool : \A b \in pool \ {a} : Before(strategy, a, b, pool)

Fallbacks(strategy, C) ==
    IF strategy = "pinned" THEN {}
    ELSE Pool(strategy, C) \ {Selected(strategy, C)}

\* RoutingService.route.
Decision(s, need, strategy) ==
    LET resolved == ResolveModel(s)
        C == IF resolved = NoKey THEN {} ELSE Candidates(resolved[2], need)
    IN  IF C = {} THEN [selected |-> NoKey, fallbacks |-> {}]
        ELSE [selected |-> Selected(strategy, C),
              fallbacks |-> Fallbacks(strategy, C)]

-----------------------------------------------------------------------------
(* Properties. *)

\* The providers and models of buildProviderChain.  Candidates are of one model
\* and of different providers, all registered; ids are taken to have no slash.
Chain(decision) == ({decision.selected} \ {NoKey}) \cup decision.fallbacks

\* What a registered provider lists can be routed to: a request for a model by
\* its canonical id is sent to that model whenever a registered provider lists
\* it, also when that id is an alias of another model, and whatever was listed
\* first.
OfferedIsRoutable ==
    \A k \in Listed : k[1] \in registered =>
        \A strategy \in Strategies :
            LET need == {IF k[2] \in Embedding THEN "embeddings" ELSE "chat"}
                selected == Decision(k[2], need, strategy).selected
            IN  selected # NoKey /\ selected[2] = k[2]

\* privacy-first sends nothing to a cloud, as first choice or as fallback, when
\* a registered local provider can serve the model.
PrivacyKept ==
    \A m \in Models : \A need \in Needs :
        (\E k \in Candidates(m, need) : k[1] \in Local) =>
            \A k \in Chain(Decision(m, need, "privacy-first")) : k[1] \in Local

\* balanced never selects a provider when another candidate is faster, and
\* cheaper or priced the same: normalising prices and latencies over the
\* candidates, some without a price, inverts no such comparison.
BalancedUndominated ==
    \A m \in Models : \A need \in Needs :
        LET selected == Decision(m, need, "balanced").selected
        IN  ~\E k \in Candidates(m, need) :
                /\ Faster(k, selected)
                /\ Cheaper(k, selected) \/ Cost(k) = Cost(selected)

\* A model string that resolves keeps resolving, and means the same model until
\* a model is discovered whose canonical id it is: registering models in any
\* order takes no name away.
StableResolution ==
    [][\A s \in Names \cup Keys :
          ResolveModel(s) # NoKey =>
              /\ ResolveModel(s)' # NoKey
              /\ ResolveModel(s)'[2] \in {ResolveModel(s)[2], s}]_<<position, aliasMap>>

-----------------------------------------------------------------------------
(* What a test of the repository says, and route() does not do. *)

\* "sorts a candidate with no latency after every measured one"
\* (libs/sirius-routing/src/__tests__/ranking-strategies.test.ts:135): fastest
\* selects a provider without a measured latency only when none has one.
MeasuredFirst ==
    \A m \in Models : \A need \in Needs :
        LET selected == Decision(m, need, "fastest").selected
        IN  selected # NoKey /\ window[selected[1]] = <<>> =>
                \A k \in Candidates(m, need) : window[k[1]] = <<>>
=============================================================================
