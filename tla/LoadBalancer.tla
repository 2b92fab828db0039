---------------------------- MODULE LoadBalancer ----------------------------
(***************************************************************************)
(* The four balancers of registry/load_balancer as select() calls on the   *)
(* endpoint list of the moment.  Each select() is one step: the only       *)
(* shared state is the round-robin counter, advanced by one fetch_add.     *)
(* The random generators are an \E over the values they may return, and    *)
(* hash() is an arbitrary function, fixed in the initial state.            *)
(***************************************************************************)
EXTENDS Integers, Sequences, FiniteSets, FiniteSetsExt

CONSTANTS Hosts,         \* endpoint addresses ("host:port")
          Weights,       \* weights that register_service() may be given
          VirtualNodes,  \* virtual_nodes_
          Points,        \* hash values 0 .. Points - 1 (2^32 in the code)
          CounterSpace   \* values of the uint64_t counter_ (2^64)

ASSUME BalancerAssumption ==
    /\ Weights \subseteq Int /\ VirtualNodes \in Nat \ {0}
    /\ Points \in Nat \ {0} /\ CounterSpace \in Nat \ {0}
    /\ Cardinality(Hosts) \in Nat /\ Hosts # {}

VARIABLES strategy,   \* which of the four classes the object is
          endpoints,  \* the list given to select(): hosts in order
          weight,     \* their weights
          hash,       \* hash(ep.to_string() + "#" + i)
          key,        \* hash of key_, or of "default"
          counter,    \* RoundRobinLoadBalancer::counter_
          last        \* what the last select() returned

vars == <<strategy, endpoints, weight, hash, key, counter, last>>

-----------------------------------------------------------------------------
(* Round robin: the value fetch_add returned, modulo endpoints.size().     *)
(* Mutant of RoundRobinIndex: clamped instead of modulo.                   *)
IndexClamped(n, size) == IF n >= size THEN size ELSE n + 1

RoundRobinIndex(n, size) == (n % size) + 1

(***************************************************************************)
(* Weighted random: with r drawn from 0 .. total - 1, the first endpoint   *)
(* at which r minus the weights up to and including its own is negative.   *)
(***************************************************************************)
SumTo(eps, w, i) == SumFunction([j \in 1 .. i |-> w[eps[j]]])

Total(eps, w) == SumTo(eps, w, Len(eps))

(* Mutant of Negative: r <= 0 instead of r < 0.                            *)
Exhausted(eps, w, r, i) == r - SumTo(eps, w, i) <= 0

Negative(eps, w, r, i) == r - SumTo(eps, w, i) < 0

WeightedIndex(eps, w, r) ==
    LET hit == {i \in 1 .. Len(eps) : Negative(eps, w, r, i)}
    IN  IF hit = {} THEN Len(eps) ELSE Min(hit)

(***************************************************************************)
(* Consistent hash: ring[h] = &ep for every virtual node in list order, so *)
(* the last endpoint to reach a point owns it; lower_bound of the key, or  *)
(* the first point of the ring.                                            *)
(***************************************************************************)
PointsOf(eps) == {hash[eps[i]][v] : i \in 1 .. Len(eps), v \in 1 .. VirtualNodes}

OwnersAt(eps, p) == {i \in 1 .. Len(eps) : \E v \in 1 .. VirtualNodes : hash[eps[i]][v] = p}

Ring(eps) == [p \in PointsOf(eps) |-> eps[Max(OwnersAt(eps, p))]]

(* Mutant of LowerBound: no way round past the last point.                 *)
LowerBoundNoWrap(ring, k) ==
    LET above == {p \in DOMAIN ring : p >= k}
    IN  IF above = {} THEN Max(DOMAIN ring) ELSE Min(above)

LowerBound(ring, k) ==
    LET above == {p \in DOMAIN ring : p >= k}
    IN  IF above = {} THEN Min(DOMAIN ring) ELSE Min(above)

(* Mutant of ConsistentHash: modulo the number of endpoints.               *)
ConsistentHashModulo(eps, k) == eps[(k % Len(eps)) + 1]

ConsistentHash(eps, k) == LET ring == Ring(eps) IN ring[LowerBound(ring, k)]

-----------------------------------------------------------------------------
(* The lists refresh() can store: endpoints in some order, none twice.     *)
Lists == UNION {{eps \in [1 .. n -> Hosts] : IsInjective(eps)} : n \in 0 .. Cardinality(Hosts)}

(* The cache hands select() another list.                                  *)
Change ==
    /\ endpoints' \in Lists
    /\ UNCHANGED <<strategy, weight, hash, key, counter, last>>

SelectRandom ==
    /\ strategy = "Random" /\ endpoints # <<>>
    /\ \E i \in 1 .. Len(endpoints) : last' = endpoints[i]
    /\ UNCHANGED <<strategy, endpoints, weight, hash, key, counter>>

SelectRoundRobin ==
    /\ strategy = "RoundRobin" /\ endpoints # <<>>
    /\ counter' = (counter + 1) % CounterSpace
    /\ last' = endpoints[RoundRobinIndex(counter, Len(endpoints))]
    /\ UNCHANGED <<strategy, endpoints, weight, hash, key>>

(* With total <= 0 the distribution's bounds are reversed, which is        *)
(* undefined: r is then any int.                                           *)
Draws(eps, w) == LET total == Total(eps, w)
                 IN  IF total > 0 THEN 0 .. total - 1 ELSE -1 .. Max(Weights \cup {0})

SelectWeighted ==
    /\ strategy = "Weighted" /\ endpoints # <<>>
    /\ \E r \in Draws(endpoints, weight) :
           last' = endpoints[WeightedIndex(endpoints, weight, r)]
    /\ UNCHANGED <<strategy, endpoints, weight, hash, key, counter>>

SelectConsistentHash ==
    /\ strategy = "ConsistentHash" /\ endpoints # <<>>
    /\ last' = ConsistentHash(endpoints, key)
    /\ UNCHANGED <<strategy, endpoints, weight, hash, key, counter>>

(* On an empty list each of them throws "no available endpoints".          *)
SelectThrows ==
    /\ endpoints = <<>>
    /\ UNCHANGED vars

(* make_load_balancer(); what a strategy does not look at has one value.   *)
Init ==
    /\ strategy \in {"Random", "RoundRobin", "Weighted", "ConsistentHash"}
    /\ endpoints = <<>> /\ counter = 0
    /\ weight \in [Hosts -> IF strategy = "Weighted" THEN Weights ELSE {1}]
    /\ hash \in [Hosts -> [1 .. VirtualNodes ->
                    IF strategy = "ConsistentHash" THEN 0 .. Points - 1 ELSE {0}]]
    /\ key \in IF strategy = "ConsistentHash" THEN 0 .. Points - 1 ELSE {0}
    /\ last = CHOOSE h \in Hosts : TRUE

Next == \/ Change \/ SelectRandom \/ SelectRoundRobin \/ SelectWeighted
        \/ SelectConsistentHash \/ SelectThrows

Spec == Init /\ [][Next]_vars

-----------------------------------------------------------------------------
(* The variables keep their types; in particular, whatever the counter,    *)
(* the draw or the key, select() returns one of the endpoints.             *)
TypeOK ==
    /\ strategy \in {"Random", "RoundRobin", "Weighted", "ConsistentHash"}
    /\ endpoints \in Lists
    /\ weight \in [Hosts -> Weights \cup {1}]
    /\ hash \in [Hosts -> [1 .. VirtualNodes -> 0 .. Points - 1]]
    /\ key \in 0 .. Points - 1
    /\ counter \in 0 .. CounterSpace - 1
    /\ last \in Hosts

(* Round robin goes "across all available endpoints": the next calls of    *)
(* select(), by whichever threads, pick every endpoint once before one is  *)
(* picked again, unless counter_ wraps meanwhile.                          *)
RoundRobinFair ==
    LET n == Len(endpoints) IN
        (n > 0 /\ counter + n <= CounterSpace) =>
            {RoundRobinIndex(counter + j, n) : j \in 0 .. n - 1} = 1 .. n

(* "endpoints with higher weight get proportionally more requests": of the *)
(* total equally likely draws, exactly weight select an endpoint, as long  *)
(* as no weight is negative and some weight is positive.                   *)
WeightedProportional ==
    (Total(endpoints, weight) > 0 /\ \A h \in Hosts : weight[h] >= 0) =>
        \A i \in 1 .. Len(endpoints) :
            Cardinality({r \in 0 .. Total(endpoints, weight) - 1 :
                            WeightedIndex(endpoints, weight, r) = i})
                = weight[endpoints[i]]

(* The list without its i-th endpoint.                                     *)
Without(eps, i) == SubSeq(eps, 1, i - 1) \o SubSeq(eps, i + 1, Len(eps))

(* Consistent hashing "maps a request key to a stable endpoint": when an   *)
(* endpoint leaves the list, a key moves only if it was that endpoint's,   *)
(* virtual nodes that collide on the ring included.                        *)
HashAffinity ==
    \A i \in 1 .. Len(endpoints) :
        (Len(endpoints) > 1 /\ ConsistentHash(endpoints, key) # endpoints[i]) =>
            ConsistentHash(Without(endpoints, i), key) = ConsistentHash(endpoints, key)

(* The ring's answer is the endpoint of the virtual node met first going   *)
(* up from the key's hash and around, the one listed last among equals.    *)
Distance(p) == (p - key) % Points
HashNearestClockwise ==
    endpoints # <<>> =>
        LET h == ConsistentHash(endpoints, key)
            best == Min({Distance(p) : p \in PointsOf(endpoints)})
        IN  /\ \E v \in 1 .. VirtualNodes : Distance(hash[h][v]) = best
            /\ \A i, j \in 1 .. Len(endpoints) : \A v \in 1 .. VirtualNodes :
                   endpoints[i] = h /\ Distance(hash[endpoints[j]][v]) = best => j <= i
=============================================================================
