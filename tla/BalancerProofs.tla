--------------------------- MODULE BalancerProofs ---------------------------
(***************************************************************************)
(* Theorems about the four load balancers, for any endpoints, weights,     *)
(* hash function, number of virtual nodes and width of counter_.           *)
(*                                                                         *)
(* Sums, minima and maxima are defined by CHOOSE.  What they are for every *)
(* list is proved by a least counterexample (LeastNat): a set of naturals  *)
(* at which a claim fails has a least member, and just below it the claim  *)
(* holds.                                                                  *)
(***************************************************************************)
EXTENDS LoadBalancer, SequenceTheorems, FiniteSetTheorems, WellFoundedInduction, TLAPS

\* A set of naturals that is not empty has a least element.
LEMMA LeastNat ==
  ASSUME NEW T, T \subseteq Nat, T # {}
  PROVE  \E m \in T : \A k \in T : m <= k
<1>. DEFINE R == OpToRel(<, Nat)
<1>1. IsWellFoundedOn(R, Nat)
  BY NatLessThanWellFounded, Zenon
<1>2. \A x, y \in Nat : x < y => <<x, y>> \in R
  BY DEF OpToRel
<1>. HIDE DEF R
<1>3. PICK x \in T : \A y \in T : ~ (<<y, x>> \in R)
  BY <1>1, WFMin, Zenon
<1>4. \A y \in T : ~ (y < x)
  BY <1>2, <1>3, Zenon
<1>5. \A y \in T : x <= y
  BY <1>4
<1>. QED
  BY <1>5

\* Min() of such a set is that element.
LEMMA MinFacts ==
  ASSUME NEW T, T \subseteq Nat, T # {}
  PROVE  /\ Min(T) \in T
         /\ \A k \in T : Min(T) <= k
BY LeastNat, Zenon DEF Min

\* Max() of a set of list positions.
LEMMA MaxFacts ==
  ASSUME NEW n \in Nat, NEW T, T \subseteq 1 .. n, T # {}
  PROVE  /\ Max(T) \in T
         /\ \A k \in T : k <= Max(T)
<1>. DEFINE U == {n - k : k \in T}
<1>1. U # {}
  BY Zenon
<1>0. ASSUME NEW k \in T PROVE n - k \in Nat
  OBVIOUS
<1>. U \subseteq Nat
  BY <1>0, Zenon
<1>2. PICK m \in U : \A k \in U : m <= k
  BY <1>1, LeastNat, Zenon
<1>3. PICK x \in T : m = n - x
  BY <1>2, Zenon
<1>4. \A k \in T : n - x <= n - k
  BY <1>2, <1>3, Zenon
<1>5. \A k \in T : x >= k
  BY <1>4, SMT, Z3
<1>6. Max(T) \in T /\ \A k \in T : Max(T) >= k
  BY <1>5, Zenon DEF Max
<1>. QED
  BY <1>6, SMT, Z3

-----------------------------------------------------------------------------
\* An endpoint list of refresh(): a sequence of hosts, none of them twice.
LEMMA ListFacts ==
  ASSUME NEW eps \in Lists
  PROVE  /\ eps \in Seq(Hosts) /\ Len(eps) \in Nat /\ DOMAIN eps = 1 .. Len(eps)
         /\ \A i \in 1 .. Len(eps) : eps[i] \in Hosts
         /\ \A i, j \in 1 .. Len(eps) : eps[i] = eps[j] => i = j
<1>1. PICK n \in 0 .. Cardinality(Hosts) :
           eps \in [1 .. n -> Hosts] /\ IsInjective(eps)
  BY Zenon DEF Lists
<1>2. n \in Nat
  BY <1>1, BalancerAssumption
<1>3. eps \in Seq(Hosts) /\ Len(eps) = n
  BY <1>1, <1>2, SMT, Z3
<1>4. DOMAIN eps = 1 .. Len(eps) /\ \A i \in 1 .. Len(eps) : eps[i] \in Hosts
  BY <1>1, <1>3, Zenon
<1>5. \A i, j \in 1 .. Len(eps) : eps[i] = eps[j] => i = j
  BY <1>1, <1>4, Zenon DEF IsInjective
<1>. QED
  BY <1>2, <1>3, <1>4, <1>5, Zenon

\* The bounds of the balancer's constants.
LEMMA Bounds ==
  /\ VirtualNodes \in Nat /\ VirtualNodes >= 1
  /\ Points \in Nat /\ Points >= 1
  /\ CounterSpace \in Nat /\ CounterSpace >= 1
BY BalancerAssumption

-----------------------------------------------------------------------------
(***************************************************************************)
(* Round robin.                                                            *)
(***************************************************************************)

\* Division with remainder.
LEMMA Quotient ==
  ASSUME NEW n \in Nat \ {0}, NEW c \in Nat
  PROVE  \E q \in Nat, r \in 0 .. n - 1 : c = q * n + r
<1>. DEFINE Fits(x) == \E q \in Nat, r \in 0 .. n - 1 : x = q * n + r
            T == {x \in Nat : ~ Fits(x)}
<1>1. SUFFICES ASSUME T # {} PROVE FALSE
  BY Zenon
<1>2. PICK m \in T : \A k \in T : m <= k
  BY <1>1, LeastNat, Zenon
<1>3. CASE m < n
  <2>1. m \in 0 .. n - 1 /\ m = 0 * n + m /\ 0 \in Nat
    BY <1>2, <1>3
  <2>. QED
    BY <1>2, <2>1, Zenon
<1>4. CASE ~ (m < n)
  <2>1. m - n \in Nat /\ ~ (m <= m - n)
    BY <1>2, <1>4
  <2>2. Fits(m - n)
    BY <1>2, <2>1, Zenon
  <2>3. PICK q \in Nat, r \in 0 .. n - 1 : m - n = q * n + r
    BY <2>2, Zenon
  <2>4. q + 1 \in Nat /\ m = (q + 1) * n + r
    BY <1>2, <2>3, SMT, Z3
  <2>. QED
    BY <1>2, <2>4, Zenon
<1>. QED
  BY <1>3, <1>4

\* The remainder is what % gives.
LEMMA Remainder ==
  ASSUME NEW n \in Nat \ {0}, NEW q \in Nat, NEW r \in 0 .. n - 1
  PROVE  (q * n + r) % n = r
BY SMT, Z3

\* The index of the j-th call after the counter was q * n + r.
LEMMA IndexOf ==
  ASSUME NEW n \in Nat \ {0}, NEW q \in Nat, NEW r \in 0 .. n - 1, NEW j \in 0 .. n - 1
  PROVE  RoundRobinIndex(q * n + r + j, n)
             = IF r + j < n THEN r + j + 1 ELSE r + j - n + 1
<1>1. CASE r + j < n
  <2>1. r + j \in 0 .. n - 1 /\ q * n + r + j = q * n + (r + j)
    BY <1>1, SMT, Z3
  <2>2. (q * n + (r + j)) % n = r + j
    BY <2>1, Remainder, Zenon
  <2>. QED
    BY <1>1, <2>1, <2>2, Zenon DEF RoundRobinIndex
<1>2. CASE ~ (r + j < n)
  <2>1. /\ r + j - n \in 0 .. n - 1 /\ q + 1 \in Nat
        /\ q * n + r + j = (q + 1) * n + (r + j - n)
    BY <1>2, SMT, Z3
  <2>2. ((q + 1) * n + (r + j - n)) % n = r + j - n
    BY <2>1, Remainder, Zenon
  <2>. QED
    BY <1>2, <2>1, <2>2, Zenon DEF RoundRobinIndex
<1>. QED
  BY <1>1, <1>2

\* n calls in a row, from any counter on, use the n indices.
LEMMA Rotation ==
  ASSUME NEW n \in Nat \ {0}, NEW c \in Nat
  PROVE  {RoundRobinIndex(c + j, n) : j \in 0 .. n - 1} = 1 .. n
<1>1. PICK q \in Nat, r \in 0 .. n - 1 : c = q * n + r
  BY Quotient, Zenon
<1>. DEFINE at(j) == RoundRobinIndex(c + j, n)
<1>2. ASSUME NEW j \in 0 .. n - 1
      PROVE  at(j) = IF r + j < n THEN r + j + 1 ELSE r + j - n + 1
  BY <1>1, IndexOf, Zenon
<1>. HIDE DEF at
<1>3. ASSUME NEW j \in 0 .. n - 1 PROVE at(j) \in 1 .. n
  BY <1>2, SMT, Z3
<1>4. ASSUME NEW m \in 1 .. n PROVE \E j \in 0 .. n - 1 : m = at(j)
  <2>1. CASE m - 1 >= r
    <3>. DEFINE j == m - 1 - r
    <3>1. j \in 0 .. n - 1 /\ r + j < n /\ r + j + 1 = m
      BY <2>1
    <3>. QED
      BY <1>2, <3>1, Zenon
  <2>2. CASE ~ (m - 1 >= r)
    <3>. DEFINE j == m - 1 - r + n
    <3>1. j \in 0 .. n - 1 /\ ~ (r + j < n) /\ r + j - n + 1 = m
      BY <2>2
    <3>. QED
      BY <1>2, <3>1, Zenon
  <2>. QED
    BY <2>1, <2>2
<1>5. {at(j) : j \in 0 .. n - 1} = 1 .. n
  BY <1>3, <1>4, Zenon
<1>. QED
  BY <1>5 DEF at

-----------------------------------------------------------------------------
(***************************************************************************)
(* Consistent hashing.                                                     *)
(***************************************************************************)

\* hash() as Init fixes it.
Hashes == hash \in [Hosts -> [1 .. VirtualNodes -> 0 .. Points - 1]]

\* p is what lower_bound(k) finds among the points P, or begin() past the end.
First(P, k, p) ==
    /\ p \in P
    /\ \/ p >= k /\ \A q \in P : q >= k => p <= q
       \/ \A q \in P : ~ (q >= k) /\ p <= q

\* There is only one such point.
LEMMA FirstUnique ==
  ASSUME NEW P, P \subseteq Nat, NEW k \in Nat, NEW p, NEW q,
         First(P, k, p), First(P, k, q)
  PROVE  p = q
<1>1. p \in Nat /\ q \in Nat /\ p <= q /\ q <= p
  BY Zenon DEF First
<1>. QED
  BY <1>1

\* It stays the one when other points go.
LEMMA FirstOfFewer ==
  ASSUME NEW P, NEW Q, Q \subseteq P, NEW k, NEW p \in Q, First(P, k, p)
  PROVE  First(Q, k, p)
BY Zenon DEF First

\* What lower_bound() returns.
LEMMA LowerBoundFirst ==
  ASSUME NEW ring, DOMAIN ring \subseteq Nat, DOMAIN ring # {}, NEW k \in Nat
  PROVE  First(DOMAIN ring, k, LowerBound(ring, k))
<1>. DEFINE above == {p \in DOMAIN ring : p >= k}
<1>1. CASE above = {}
  <2>1. LowerBound(ring, k) = Min(DOMAIN ring)
    BY <1>1, Zenon DEF LowerBound
  <2>. QED
    BY <1>1, <2>1, MinFacts, Zenon DEF First
<1>2. CASE above # {}
  <2>1. LowerBound(ring, k) = Min(above)
    BY <1>2, Zenon DEF LowerBound
  <2>2. above \subseteq Nat
    BY Zenon
  <2>3. Min(above) \in above /\ \A p \in above : Min(above) <= p
    BY <1>2, <2>2, MinFacts, Zenon
  <2>. QED
    BY <2>1, <2>3, Zenon DEF First
<1>. QED
  BY <1>1, <1>2

\* The points of a list that is not empty, and the endpoints that own them.
LEMMA PointFacts ==
  ASSUME Hashes, NEW eps \in Seq(Hosts), eps # <<>>
  PROVE  /\ PointsOf(eps) \subseteq 0 .. Points - 1
         /\ PointsOf(eps) \subseteq Nat
         /\ PointsOf(eps) # {}
         /\ \A p : p \in PointsOf(eps) <=> OwnersAt(eps, p) # {}
         /\ \A p : OwnersAt(eps, p) \subseteq 1 .. Len(eps)
<1>1. Len(eps) \in Nat /\ Len(eps) >= 1 /\ \A i \in 1 .. Len(eps) : eps[i] \in Hosts
  BY SMT, Z3
<1>2. \A i \in 1 .. Len(eps), v \in 1 .. VirtualNodes : hash[eps[i]][v] \in 0 .. Points - 1
  BY <1>1, Zenon DEF Hashes
<1>0. \A p : p \in PointsOf(eps) <=>
              \E i \in 1 .. Len(eps), v \in 1 .. VirtualNodes : p = hash[eps[i]][v]
  BY SMT, Z3 DEF PointsOf
<1>3. PointsOf(eps) \subseteq 0 .. Points - 1
  <2>1. ASSUME NEW p \in PointsOf(eps) PROVE p \in 0 .. Points - 1
    <3>1. PICK i \in 1 .. Len(eps), v \in 1 .. VirtualNodes : p = hash[eps[i]][v]
      BY <1>0, Zenon
    <3>. QED
      BY <1>2, <3>1, Zenon
  <2>. QED
    BY <2>1, Zenon
<1>4. 1 \in 1 .. Len(eps) /\ 1 \in 1 .. VirtualNodes /\ 0 .. Points - 1 \subseteq Nat
  BY <1>1, Bounds
<1>5. PointsOf(eps) # {}
  BY <1>0, <1>4, Zenon
<1>6. \A p : p \in PointsOf(eps) <=> OwnersAt(eps, p) # {}
  BY <1>0, Zenon DEF OwnersAt
<1>7. \A p : OwnersAt(eps, p) \subseteq 1 .. Len(eps)
  BY Zenon DEF OwnersAt
<1>. QED
  BY <1>3, <1>4, <1>5, <1>6, <1>7, Zenon

\* ConsistentHash() is the last owner of the first point from the key on.
LEMMA RingFacts ==
  ASSUME Hashes, NEW eps \in Seq(Hosts), eps # <<>>,
         NEW k \in Nat
  PROVE  \E p \in PointsOf(eps), o \in 1 .. Len(eps) :
            /\ First(PointsOf(eps), k, p)
            /\ o \in OwnersAt(eps, p)
            /\ \A i \in OwnersAt(eps, p) : i <= o
            /\ ConsistentHash(eps, k) = eps[o]
<1>. DEFINE P == PointsOf(eps)
            ring == Ring(eps)
            p == LowerBound(ring, k)
            o == Max(OwnersAt(eps, p))
<1>1. DOMAIN ring = P /\ \A x \in P : ring[x] = eps[Max(OwnersAt(eps, x))]
  BY Zenon DEF Ring
<1>2. P \subseteq Nat /\ P # {}
  BY PointFacts, Zenon
<1>3. First(P, k, p)
  BY <1>1, <1>2, LowerBoundFirst, Zenon
<1>4. p \in P
  BY <1>3, Zenon DEF First
<1>5. OwnersAt(eps, p) # {} /\ OwnersAt(eps, p) \subseteq 1 .. Len(eps)
  BY <1>4, PointFacts, Zenon
<1>6. Len(eps) \in Nat
  OBVIOUS
<1>7. o \in OwnersAt(eps, p) /\ \A i \in OwnersAt(eps, p) : i <= o
  BY <1>5, <1>6, MaxFacts, Zenon
<1>8. ConsistentHash(eps, k) = ring[p]
  BY Zenon DEF ConsistentHash
<1>9. ConsistentHash(eps, k) = eps[o]
  BY <1>1, <1>4, <1>8, Zenon
<1>. HIDE DEF P, ring, p, o
<1>. QED
  BY <1>3, <1>4, <1>5, <1>7, <1>9, Zenon DEF P

\* What removing the i-th endpoint leaves.
LEMMA RemovalFacts ==
  ASSUME NEW eps \in Seq(Hosts), NEW i \in 1 .. Len(eps), Len(eps) > 1
  PROVE  LET rest == Without(eps, i) IN
         /\ rest \in Seq(Hosts) /\ Len(rest) = Len(eps) - 1 /\ rest # <<>>
         /\ \A j \in 1 .. Len(eps) - 1 : rest[j] = IF j < i THEN eps[j] ELSE eps[j + 1]
<1>. DEFINE a == SubSeq(eps, 1, i - 1)
            b == SubSeq(eps, i + 1, Len(eps))
            rest == a \o b
<1>1. a \in Seq(Hosts) /\ Len(a) = i - 1 /\ \A j \in 1 .. i - 1 : a[j] = eps[j]
  BY SubSeqProperties
<1>2. /\ b \in Seq(Hosts) /\ Len(b) = Len(eps) - i
      /\ \A j \in 1 .. Len(eps) - i : b[j] = eps[i + j]
  BY SMT, Z3
<1>. HIDE DEF a, b
<1>3. /\ rest \in Seq(Hosts) /\ Len(rest) = Len(a) + Len(b)
      /\ \A j \in 1 .. Len(a) + Len(b) : rest[j] = IF j <= Len(a) THEN a[j] ELSE b[j - Len(a)]
  BY <1>1, <1>2, ConcatProperties, Zenon
<1>4. Len(rest) = Len(eps) - 1 /\ rest # <<>>
  BY <1>1, <1>2, <1>3, SMT, Z3
<1>5. ASSUME NEW j \in 1 .. Len(eps) - 1
      PROVE  rest[j] = IF j < i THEN eps[j] ELSE eps[j + 1]
  <2>1. CASE j < i
    <3>1. j \in 1 .. i - 1 /\ j \in 1 .. Len(a) + Len(b) /\ j <= Len(a)
      BY <1>1, <1>2, <2>1
    <3>. QED
      BY <1>1, <1>3, <2>1, <3>1, Zenon
  <2>2. CASE ~ (j < i)
    <3>. DEFINE x == j - (i - 1)
    <3>1. /\ j \in 1 .. Len(a) + Len(b) /\ ~ (j <= Len(a)) /\ j - Len(a) = x
          /\ x \in 1 .. Len(eps) - i /\ i + x = j + 1
      BY <1>1, <1>2, <2>2
    <3>. QED
      BY <1>2, <1>3, <2>2, <3>1, Zenon
  <2>. QED
    BY <2>1, <2>2, Zenon
<1>6. Without(eps, i) = rest
  BY Zenon DEF Without, a, b
<1>. QED
  BY <1>3, <1>4, <1>5, <1>6, Zenon

\* A key that was not the removed endpoint's keeps its endpoint.
LEMMA Affinity ==
  ASSUME Hashes, NEW eps \in Seq(Hosts), NEW k \in Nat,
         NEW i \in 1 .. Len(eps), Len(eps) > 1,
         ConsistentHash(eps, k) # eps[i]
  PROVE  ConsistentHash(Without(eps, i), k) = ConsistentHash(eps, k)
<1>. DEFINE rest == Without(eps, i)
            n == Len(eps)
            P == PointsOf(eps)
            Q == PointsOf(rest)
            old(j) == IF j < i THEN j ELSE j + 1
            new(j) == IF j < i THEN j ELSE j - 1
<1>0. n \in Nat /\ eps # <<>>
  OBVIOUS
<1>1. /\ rest \in Seq(Hosts) /\ Len(rest) = n - 1 /\ rest # <<>>
      /\ \A j \in 1 .. n - 1 : rest[j] = IF j < i THEN eps[j] ELSE eps[j + 1]
  BY RemovalFacts, Zenon
<1>2. \A j \in 1 .. n - 1 : rest[j] = eps[old(j)]
  BY <1>1, Zenon
<1>3. PICK p \in P, o \in 1 .. n :
            /\ First(P, k, p)
            /\ o \in OwnersAt(eps, p)
            /\ \A j \in OwnersAt(eps, p) : j <= o
            /\ ConsistentHash(eps, k) = eps[o]
  BY <1>0, RingFacts, Zenon
<1>4. PICK q \in Q, u \in 1 .. Len(rest) :
            /\ First(Q, k, q)
            /\ u \in OwnersAt(rest, q)
            /\ \A j \in OwnersAt(rest, q) : j <= u
            /\ ConsistentHash(rest, k) = rest[u]
  BY <1>1, RingFacts, Zenon
<1>. HIDE DEF rest, n, P, Q
<1>5. \A j \in 1 .. n - 1 : old(j) \in 1 .. n /\ old(j) # i
  BY <1>0, <1>3 DEF n
<1>6. \A j \in 1 .. n : j # i => new(j) \in 1 .. n - 1 /\ old(new(j)) = j
  BY <1>0, <1>3 DEF n
<1>7. \A x : \A j \in 1 .. n - 1 :
          j \in OwnersAt(rest, x) <=> old(j) \in OwnersAt(eps, x)
  BY <1>1, <1>2, <1>5, Zenon DEF OwnersAt, n
<1>8. Q \subseteq P
  <2>1. ASSUME NEW x \in Q PROVE x \in P
    <3>1. PICK j : j \in OwnersAt(rest, x)
      BY <1>1, <2>1, PointFacts, Zenon DEF Q
    <3>2. j \in 1 .. n - 1
      BY <1>1, <3>1, Zenon DEF OwnersAt
    <3>3. old(j) \in OwnersAt(eps, x)
      BY <1>7, <3>1, <3>2, Zenon
    <3>. QED
      BY <1>0, <3>3, PointFacts, Zenon DEF P
  <2>. QED
    BY <2>1, Zenon
<1>9. o # i
  BY <1>3, Zenon
<1>10. new(o) \in 1 .. n - 1 /\ old(new(o)) = o
  BY <1>3, <1>6, <1>9, Zenon
<1>11. new(o) \in OwnersAt(rest, p)
  BY <1>3, <1>7, <1>10, Zenon
<1>12. p \in Q
  BY <1>1, <1>11, PointFacts, Zenon DEF Q
<1>13. First(Q, k, p)
  BY <1>3, <1>8, <1>12, FirstOfFewer, Zenon
<1>14. Q \subseteq Nat
  BY <1>1, PointFacts, Zenon DEF Q
<1>15. p = q
  BY <1>4, <1>13, <1>14, FirstUnique, Zenon
<1>16. new(o) <= u
  BY <1>4, <1>11, <1>15, Zenon
<1>17. u \in 1 .. n - 1 /\ old(u) \in OwnersAt(eps, p)
  BY <1>1, <1>4, <1>7, <1>15, Zenon
<1>18. old(u) <= o
  BY <1>3, <1>17, Zenon
<1>19. old(u) = o
  BY <1>0, <1>3, <1>9, <1>16, <1>17, <1>18 DEF n
<1>. QED
  BY <1>2, <1>3, <1>4, <1>17, <1>19, Zenon DEF rest

\* How far up, and around, a point is from the key.
LEMMA DistanceFacts ==
  ASSUME key \in 0 .. Points - 1, NEW p \in 0 .. Points - 1
  PROVE  Distance(p) = IF p >= key THEN p - key ELSE p - key + Points
<1>1. CASE p >= key
  <2>1. p - key \in 0 .. Points - 1
    BY <1>1, Bounds
  <2>2. (p - key) % Points = p - key
    BY <2>1, Bounds, SMT, Z3
  <2>. QED
    BY <1>1, <2>2, Zenon DEF Distance
<1>2. CASE ~ (p >= key)
  <2>1. p - key + Points \in 1 .. Points - 1 /\ p - key = (p - key + Points) - Points
    BY <1>2, Bounds
  <2>2. ASSUME NEW x \in 1 .. Points - 1 PROVE (x - Points) % Points = x
    BY <2>2, Bounds, SMT, Z3
  <2>3. (p - key) % Points = p - key + Points
    BY <2>1, <2>2, Zenon
  <2>. QED
    BY <1>2, <2>3, Zenon DEF Distance
<1>. QED
  BY <1>1, <1>2

\* The first point from the key on is the one nearest to it, and no other
\* point is as near.
LEMMA FirstIsNearest ==
  ASSUME key \in 0 .. Points - 1,
         NEW P, P \subseteq 0 .. Points - 1, NEW p, First(P, key, p)
  PROVE  /\ \A q \in P : /\ Distance(q) \in Nat
                         /\ Distance(p) <= Distance(q)
                         /\ Distance(q) = Distance(p) => q = p
         /\ Min({Distance(q) : q \in P}) = Distance(p)
<1>0. p \in P /\ p \in 0 .. Points - 1
  BY Zenon DEF First
<1>1. ASSUME NEW q \in P
      PROVE  /\ Distance(q) \in Nat
             /\ Distance(p) <= Distance(q)
             /\ Distance(q) = Distance(p) => q = p
  <2>1. /\ q \in 0 .. Points - 1
        /\ Distance(p) = IF p >= key THEN p - key ELSE p - key + Points
        /\ Distance(q) = IF q >= key THEN q - key ELSE q - key + Points
    BY <1>0, DistanceFacts, Zenon
  <2>2. \/ p >= key /\ (q >= key => p <= q)
        \/ ~ (q >= key) /\ ~ (p >= key) /\ p <= q
    BY <1>0, Zenon DEF First
  <2>. QED
    BY <1>0, <2>1, <2>2, Bounds, SMT, Z3
<1>. DEFINE D == {Distance(q) : q \in P}
<1>2. D \subseteq Nat /\ D # {} /\ Distance(p) \in D
  BY <1>0, <1>1, Zenon
<1>3. Min(D) \in D /\ \A d \in D : Min(D) <= d
  BY <1>2, MinFacts, Zenon
<1>4. \A d \in D : Distance(p) <= d
  BY <1>1, Zenon
<1>5. Min(D) <= Distance(p) /\ Distance(p) <= Min(D)
  BY <1>2, <1>3, <1>4, Zenon
<1>6. Min(D) \in Nat /\ Distance(p) \in Nat
  BY <1>2, <1>3, Zenon
<1>. HIDE DEF D
<1>7. Min(D) = Distance(p)
  BY <1>5, <1>6
<1>. QED
  BY <1>1, <1>7, Zenon DEF D

\* The endpoint ConsistentHash() picks has the nearest virtual node, and is
\* the last of the list to have it there.
LEMMA Clockwise ==
  ASSUME Hashes, key \in 0 .. Points - 1,
         endpoints \in Lists
  PROVE  HashNearestClockwise
<1>. SUFFICES ASSUME endpoints # <<>>
              PROVE  LET h == ConsistentHash(endpoints, key)
                         best == Min({Distance(p) : p \in PointsOf(endpoints)})
                     IN  /\ \E v \in 1 .. VirtualNodes : Distance(hash[h][v]) = best
                         /\ \A i, j \in 1 .. Len(endpoints) : \A v \in 1 .. VirtualNodes :
                                endpoints[i] = h /\ Distance(hash[endpoints[j]][v]) = best => j <= i
  BY Zenon DEF HashNearestClockwise
<1>. DEFINE P == PointsOf(endpoints)
            h == ConsistentHash(endpoints, key)
            best == Min({Distance(p) : p \in P})
<1>1. /\ endpoints \in Seq(Hosts)
      /\ \A i, j \in 1 .. Len(endpoints) : endpoints[i] = endpoints[j] => i = j
  BY ListFacts, Zenon
<1>2. key \in Nat
  BY Bounds
<1>3. PICK p \in P, o \in 1 .. Len(endpoints) :
            /\ First(P, key, p)
            /\ o \in OwnersAt(endpoints, p)
            /\ \A i \in OwnersAt(endpoints, p) : i <= o
            /\ h = endpoints[o]
  BY <1>1, <1>2, RingFacts, Zenon
<1>4. P \subseteq 0 .. Points - 1
  BY <1>1, PointFacts, Zenon
<1>5. /\ best = Distance(p)
      /\ \A q \in P : Distance(q) = best => q = p
  BY <1>3, <1>4, FirstIsNearest, Zenon
<1>6. \E v \in 1 .. VirtualNodes : Distance(hash[h][v]) = best
  BY <1>3, <1>5, Zenon DEF OwnersAt
<1>7. ASSUME NEW i \in 1 .. Len(endpoints), NEW j \in 1 .. Len(endpoints),
             NEW v \in 1 .. VirtualNodes, endpoints[i] = h,
             Distance(hash[endpoints[j]][v]) = best
      PROVE  j <= i
  <2>1. i = o
    BY <1>1, <1>3, <1>7, Zenon
  <2>2. j \in OwnersAt(endpoints, hash[endpoints[j]][v])
    BY Zenon DEF OwnersAt
  <2>3. hash[endpoints[j]][v] \in P
    BY <1>1, <2>2, PointFacts, Zenon
  <2>4. hash[endpoints[j]][v] = p
    BY <1>5, <1>7, <2>3, Zenon
  <2>. QED
    BY <1>3, <2>1, <2>2, <2>4, Zenon
<1>. QED
  BY <1>6, <1>7, Zenon

-----------------------------------------------------------------------------
(***************************************************************************)
(* Sums.                                                                   *)
(***************************************************************************)

\* The element of s that the fold takes next, and the function by which it
\* goes through the subsets of D.
Element(s) == CHOOSE x \in s : TRUE

SubsetSum(f, D) ==
    CHOOSE g : g = [s \in SUBSET D |-> IF s = {} THEN 0
                                       ELSE f[Element(s)] + g[s \ {Element(s)}]]

\* g goes through the subsets of at most n elements as the fold does.
FoldsUpTo(g, f, D, n) ==
    \A s \in SUBSET D :
        Cardinality(s) <= n =>
            g[s] = IF s = {} THEN 0 ELSE f[Element(s)] + g[s \ {Element(s)}]

\* A sum is that function's value for the whole domain.
LEMMA SumIsFold ==
  ASSUME NEW f
  PROVE  SumFunction(f) = SubsetSum(f, DOMAIN f)[DOMAIN f]
BY Zenon DEF SumFunction, SumFunctionOnSet, FoldFunctionOnSet,
   MapThenFoldSet, SubsetSum, Element

\* Taking an element out of a finite set leaves a smaller one.
LEMMA Smaller ==
  ASSUME NEW s, IsFiniteSet(s), s # {}
  PROVE  /\ Element(s) \in s
         /\ IsFiniteSet(s \ {Element(s)})
         /\ Cardinality(s) \in Nat /\ Cardinality(s \ {Element(s)}) \in Nat
         /\ Cardinality(s \ {Element(s)}) = Cardinality(s) - 1
<1>1. Element(s) \in s
  BY Zenon DEF Element
<1>. QED
  BY <1>1, FS_RemoveElement, FS_CardinalityType, Zenon

\* A function that goes through the smaller subsets correctly exists, for
\* every size of subsets.
LEMMA FoldApproximation ==
  ASSUME NEW D, IsFiniteSet(D), NEW f, \A d \in D : f[d] \in Int, NEW n \in Nat
  PROVE  \E g \in [SUBSET D -> Int] : FoldsUpTo(g, f, D, n)
<1>. DEFINE Right(g, s) == g[s] = IF s = {} THEN 0 ELSE f[Element(s)] + g[s \ {Element(s)}]
            Good(m) == \E g \in [SUBSET D -> Int] : \A s \in SUBSET D : Cardinality(s) <= m => Right(g, s)
            T == {m \in Nat : ~ Good(m)}
<1>0. \A s \in SUBSET D : IsFiniteSet(s) /\ Cardinality(s) \in Nat
  BY FS_Subset, FS_CardinalityType, Zenon
<1>1. Good(0)
  <2>. DEFINE g == [s \in SUBSET D |-> 0]
  <2>1. g \in [SUBSET D -> Int]
    OBVIOUS
  <2>2. ASSUME NEW s \in SUBSET D, Cardinality(s) <= 0 PROVE Right(g, s)
    <3>1. Cardinality(s) = 0
      BY <1>0, <2>2
    <3>2. s = {}
      BY <1>0, <3>1, FS_EmptySet, Zenon
    <3>. QED
      BY <3>2, Zenon
  <2>. QED
    BY <2>1, <2>2, Zenon
<1>2. ASSUME NEW m \in Nat, Good(m) PROVE Good(m + 1)
  <2>1. PICK g \in [SUBSET D -> Int] : \A s \in SUBSET D : Cardinality(s) <= m => Right(g, s)
    BY <1>2, Zenon
  <2>. DEFINE next(s) == IF s = {} THEN 0 ELSE f[Element(s)] + g[s \ {Element(s)}]
              h == [s \in SUBSET D |-> IF Cardinality(s) <= m THEN g[s] ELSE next(s)]
  <2>2. ASSUME NEW s \in SUBSET D, s # {}
        PROVE  /\ Element(s) \in D /\ s \ {Element(s)} \in SUBSET D
               /\ Cardinality(s \ {Element(s)}) \in Nat
               /\ Cardinality(s \ {Element(s)}) = Cardinality(s) - 1
    BY <1>0, <2>2, Smaller, Zenon
  <2>3. ASSUME NEW s \in SUBSET D PROVE next(s) \in Int
    <3>1. CASE s = {}
      BY <3>1
    <3>2. CASE s # {}
      <4>1. f[Element(s)] \in Int /\ g[s \ {Element(s)}] \in Int
        BY <2>2, <3>2, Zenon
      <4>2. f[Element(s)] + g[s \ {Element(s)}] \in Int
        BY <4>1
      <4>. QED
        BY <3>2, <4>2, Zenon
    <3>. QED
      BY <3>1, <3>2
  <2>4. h \in [SUBSET D -> Int]
    <3>. HIDE DEF next
    <3>. QED
      BY <2>3, Zenon
  <2>5. ASSUME NEW s \in SUBSET D, Cardinality(s) <= m + 1 PROVE Right(h, s)
    <3>1. h[s] = next(s)
      BY <2>1, Zenon
    <3>2. ASSUME s # {} PROVE h[s \ {Element(s)}] = g[s \ {Element(s)}]
      <4>1. Cardinality(s \ {Element(s)}) <= m
        BY <1>0, <2>2, <2>5, <3>2
      <4>. QED
        BY <2>2, <3>2, <4>1, Zenon
    <3>. HIDE DEF h
    <3>. QED
      BY <3>1, <3>2, Zenon
  <2>. HIDE DEF h, next, Right
  <2>. QED
    BY <2>4, <2>5, Zenon
<1>. HIDE DEF Good
<1>3. SUFFICES ASSUME T # {} PROVE FALSE
  BY Zenon DEF Good, FoldsUpTo
<1>4. PICK m \in T : \A k \in T : m <= k
  BY <1>3, LeastNat, Zenon
<1>5. m # 0
  BY <1>1, <1>4, Zenon
<1>6. m - 1 \in Nat /\ ~ (m <= m - 1) /\ (m - 1) + 1 = m
  BY <1>4, <1>5
<1>7. Good(m - 1)
  BY <1>4, <1>6, Zenon
<1>8. Good((m - 1) + 1)
  BY <1>2, <1>6, <1>7, Zenon
<1>. QED
  BY <1>4, <1>6, <1>8, Zenon

\* So the fold goes through all of them correctly.
LEMMA FoldEquation ==
  ASSUME NEW D, IsFiniteSet(D), NEW f, \A d \in D : f[d] \in Int
  PROVE  \A s \in SUBSET D :
            SubsetSum(f, D)[s] = IF s = {} THEN 0 ELSE f[Element(s)] + SubsetSum(f, D)[s \ {Element(s)}]
<1>. DEFINE body(g) == [s \in SUBSET D |-> IF s = {} THEN 0 ELSE f[Element(s)] + g[s \ {Element(s)}]]
<1>1. Cardinality(D) \in Nat
  BY FS_CardinalityType, Zenon
<1>2. PICK g \in [SUBSET D -> Int] : FoldsUpTo(g, f, D, Cardinality(D))
  BY <1>1, FoldApproximation, Zenon
<1>3. \A s \in SUBSET D : Cardinality(s) <= Cardinality(D)
  BY FS_Subset, Zenon
<1>4. g = body(g)
  BY <1>2, <1>3, Zenon DEF FoldsUpTo
<1>5. \E x : x = body(x)
  BY <1>4, Zenon
<1>6. SubsetSum(f, D) = body(SubsetSum(f, D))
  BY <1>5, Zenon DEF SubsetSum
<1>. QED
  BY <1>6, Zenon

\* Its values are integers.
LEMMA FoldType ==
  ASSUME NEW D, IsFiniteSet(D), NEW f, \A d \in D : f[d] \in Int
  PROVE  \A s \in SUBSET D : SubsetSum(f, D)[s] \in Int
<1>. DEFINE T == {s \in SUBSET D : ~ (SubsetSum(f, D)[s] \in Int)}
            C == {Cardinality(s) : s \in T}
<1>0. \A s \in SUBSET D : IsFiniteSet(s) /\ Cardinality(s) \in Nat
  BY FS_Subset, FS_CardinalityType, Zenon
<1>1. SUFFICES ASSUME T # {} PROVE FALSE
  BY Zenon
<1>2. C \subseteq Nat /\ C # {}
  BY <1>0, <1>1, Zenon
<1>3. PICK m \in C : \A k \in C : m <= k
  BY <1>2, LeastNat, Zenon
<1>4. PICK s \in T : m = Cardinality(s)
  BY <1>3, Zenon
<1>5. s # {}
  <2>1. SubsetSum(f, D)[{}] = 0
    BY FoldEquation, Zenon
  <2>2. SubsetSum(f, D)[{}] \in Int
    BY <2>1
  <2>. QED
    BY <1>4, <2>2, Zenon
<1>6. /\ Element(s) \in D /\ s \ {Element(s)} \in SUBSET D /\ Cardinality(s) \in Nat
      /\ Cardinality(s \ {Element(s)}) = Cardinality(s) - 1
  BY <1>0, <1>4, <1>5, Smaller, Zenon
<1>7. ~ (m <= Cardinality(s \ {Element(s)}))
  BY <1>4, <1>6
<1>8. SubsetSum(f, D)[s \ {Element(s)}] \in Int /\ f[Element(s)] \in Int
  BY <1>3, <1>6, <1>7, Zenon
<1>9. SubsetSum(f, D)[s] = f[Element(s)] + SubsetSum(f, D)[s \ {Element(s)}]
  BY <1>4, <1>5, FoldEquation, Zenon
<1>10. SubsetSum(f, D)[s] \in Int
  BY <1>8, <1>9
<1>. QED
  BY <1>4, <1>10, Zenon

\* Whatever the order, an element adds its value.
LEMMA FoldAdd ==
  ASSUME NEW D, IsFiniteSet(D), NEW f, \A d \in D : f[d] \in Int
  PROVE  \A s \in SUBSET D : \A y \in D \ s : SubsetSum(f, D)[s \cup {y}] = f[y] + SubsetSum(f, D)[s]
<1>. DEFINE F == SubsetSum(f, D)
            Adds(s) == \A y \in D \ s : F[s \cup {y}] = f[y] + F[s]
            T == {s \in SUBSET D : ~ Adds(s)}
            C == {Cardinality(s) : s \in T}
<1>0. \A s \in SUBSET D : IsFiniteSet(s) /\ Cardinality(s) \in Nat
  BY FS_Subset, FS_CardinalityType, Zenon
<1>1. SUFFICES ASSUME T # {} PROVE FALSE
  BY Zenon
<1>2. C \subseteq Nat /\ C # {}
  BY <1>0, <1>1, Zenon
<1>3. PICK m \in C : \A k \in C : m <= k
  BY <1>2, LeastNat, Zenon
<1>4. PICK s \in T : m = Cardinality(s)
  BY <1>3, Zenon
<1>b. \A q \in SUBSET D : ~ (m <= Cardinality(q)) => Adds(q)
  <2>. HIDE DEF Adds
  <2>. QED
    BY <1>3, Zenon
<1>5. PICK y \in D \ s : F[s \cup {y}] # f[y] + F[s]
  BY <1>4, Zenon
<1>. DEFINE u == s \cup {y}
            x == Element(u)
            r == s \ {x}
<1>6. u \in SUBSET D /\ u # {} /\ x \in u
  <2>1. u \in SUBSET D /\ u # {}
    BY <1>4, <1>5, Zenon
  <2>2. IsFiniteSet(u)
    BY <1>0, <2>1, Zenon
  <2>. HIDE DEF u
  <2>3. x \in u
    BY <2>1, <2>2, Smaller, Zenon
  <2>. QED
    BY <2>1, <2>3
<1>7. F[u] = f[x] + F[u \ {x}]
  <2>. HIDE DEF u
  <2>. QED
    BY <1>6, FoldEquation, Zenon
<1>. HIDE DEF x
<1>8. x # y
  <2>1. ASSUME x = y PROVE FALSE
    <3>1. u \ {x} = s
      BY <1>5, <2>1, Zenon
    <3>. QED
      BY <1>5, <1>7, <2>1, <3>1, Zenon
  <2>. QED
    BY <2>1
<1>9. x \in s /\ x \in D /\ y \in D
  BY <1>4, <1>5, <1>6, <1>8, Zenon
<1>10. /\ u \ {x} = r \cup {y} /\ r \cup {x} = s
       /\ r \in SUBSET D /\ y \in D \ r /\ x \in D \ r
  BY <1>4, <1>5, <1>8, <1>9, Zenon
<1>11. Cardinality(r) \in Nat /\ Cardinality(r) = Cardinality(s) - 1
  BY <1>0, <1>4, <1>9, FS_RemoveElement, FS_CardinalityType, Zenon
<1>12. ~ (m <= Cardinality(r))
  BY <1>0, <1>4, <1>11
<1>13. Adds(r)
  BY <1>b, <1>10, <1>12, Zenon
<1>14. F[r \cup {y}] = f[y] + F[r] /\ F[r \cup {x}] = f[x] + F[r]
  BY <1>10, <1>13, Zenon
<1>15. f[x] \in Int /\ f[y] \in Int /\ F[r] \in Int
  BY <1>9, <1>10, FoldType, Zenon
<1>16. F[u] = f[x] + (f[y] + F[r]) /\ F[s] = f[x] + F[r]
  BY <1>7, <1>10, <1>14, Zenon
<1>. HIDE DEF F, r, u
<1>17. F[u] = f[y] + F[s]
  BY <1>15, <1>16
<1>. QED
  BY <1>5, <1>17, Zenon DEF u

\* g is a function to the integers that goes on where f ends.
Agrees(g, E, f, D) ==
    /\ D \subseteq E /\ IsFiniteSet(E)
    /\ \A d \in E : g[d] \in Int
    /\ \A d \in D : f[d] = g[d]

\* The values outside the set summed do not matter.
LEMMA FoldSame ==
  ASSUME NEW D, NEW E, NEW f, NEW g, Agrees(g, E, f, D)
  PROVE  \A s \in SUBSET D : SubsetSum(f, D)[s] = SubsetSum(g, E)[s]
<1>. DEFINE T == {s \in SUBSET D : SubsetSum(f, D)[s] # SubsetSum(g, E)[s]}
            C == {Cardinality(s) : s \in T}
<1>0. IsFiniteSet(D) /\ \A s \in SUBSET D : IsFiniteSet(s) /\ Cardinality(s) \in Nat
  BY FS_Subset, FS_CardinalityType, Zenon DEF Agrees
<1>a. \A d \in D : f[d] \in Int /\ f[d] = g[d]
  BY Zenon DEF Agrees
<1>1. SUFFICES ASSUME T # {} PROVE FALSE
  BY Zenon
<1>2. C \subseteq Nat /\ C # {}
  BY <1>0, <1>1, Zenon
<1>3. PICK m \in C : \A k \in C : m <= k
  BY <1>2, LeastNat, Zenon
<1>4. PICK s \in T : m = Cardinality(s)
  BY <1>3, Zenon
<1>5. SubsetSum(f, D)[s] = IF s = {} THEN 0 ELSE f[Element(s)] + SubsetSum(f, D)[s \ {Element(s)}]
  BY <1>0, <1>a, <1>4, FoldEquation, Zenon
<1>6. SubsetSum(g, E)[s] = IF s = {} THEN 0 ELSE g[Element(s)] + SubsetSum(g, E)[s \ {Element(s)}]
  <2>1. s \in SUBSET E
    BY <1>4, Zenon DEF Agrees
  <2>. QED
    BY <2>1, FoldEquation, Zenon DEF Agrees
<1>7. s # {}
  BY <1>4, <1>5, <1>6, Zenon
<1>8. /\ Element(s) \in D /\ s \ {Element(s)} \in SUBSET D /\ Cardinality(s) \in Nat
      /\ Cardinality(s \ {Element(s)}) = Cardinality(s) - 1
  BY <1>0, <1>4, <1>7, Smaller, Zenon
<1>9. ~ (m <= Cardinality(s \ {Element(s)}))
  BY <1>4, <1>8
<1>10. SubsetSum(f, D)[s \ {Element(s)}] = SubsetSum(g, E)[s \ {Element(s)}]
  BY <1>3, <1>8, <1>9, Zenon
<1>. QED
  BY <1>a, <1>4, <1>5, <1>6, <1>7, <1>8, <1>10, Zenon

-----------------------------------------------------------------------------
(***************************************************************************)
(* Weighted random.                                                        *)
(***************************************************************************)

\* What the first i weights of a list add up to.
LEMMA SumToFacts ==
  ASSUME NEW eps, NEW w, NEW n \in Nat, \A i \in 1 .. n : w[eps[i]] \in Int
  PROVE  /\ SumTo(eps, w, 0) = 0
         /\ \A i \in 0 .. n : SumTo(eps, w, i) \in Int
         /\ \A i \in 1 .. n : SumTo(eps, w, i)
                                  = SumTo(eps, w, i - 1) + w[eps[i]]
<1>. DEFINE val(i) == [j \in 1 .. i |-> w[eps[j]]]
            S(i) == SubsetSum(val(i), 1 .. i)
<1>1. \A i : SumTo(eps, w, i) = S(i)[1 .. i]
  BY SumIsFold, Zenon DEF SumTo
<1>2. ASSUME NEW i \in 0 .. n
      PROVE  /\ IsFiniteSet(1 .. i)
             /\ \A j \in 1 .. i : val(i)[j] = w[eps[j]] /\ val(i)[j] \in Int
  <2>1. i \in Int /\ 1 .. i \subseteq 1 .. n
    OBVIOUS
  <2>2. IsFiniteSet(1 .. i)
    BY <2>1, FS_Interval
  <2>. QED
    BY <2>1, <2>2, Zenon
<1>. HIDE DEF val
<1>3. S(0)[1 .. 0] = 0
  <2>1. 1 .. 0 = {} /\ 0 \in 0 .. n
    OBVIOUS
  <2>2. \A s \in SUBSET (1 .. 0) :
            S(0)[s] = IF s = {} THEN 0 ELSE val(0)[Element(s)] + S(0)[s \ {Element(s)}]
    BY <1>2, <2>1, FoldEquation, Zenon
  <2>. QED
    BY <2>1, <2>2, Zenon
<1>4. ASSUME NEW i \in 0 .. n PROVE S(i)[1 .. i] \in Int
  BY <1>2, FoldType, Zenon
<1>5. ASSUME NEW i \in 1 .. n PROVE S(i)[1 .. i] = S(i - 1)[1 .. i - 1] + w[eps[i]]
  <2>1. /\ i \in 0 .. n /\ i - 1 \in 0 .. n /\ i \in 1 .. i /\ i \notin 1 .. i - 1
        /\ 1 .. i - 1 \subseteq 1 .. i /\ (1 .. i - 1) \cup {i} = 1 .. i
    OBVIOUS
  <2>2. S(i)[(1 .. i - 1) \cup {i}] = val(i)[i] + S(i)[1 .. i - 1]
    <3>. DEFINE D == 1 .. i
                s == 1 .. i - 1
    <3>1. IsFiniteSet(D) /\ (\A d \in D : val(i)[d] \in Int) /\ s \in SUBSET D /\ i \in D \ s
      BY <1>2, <2>1, Zenon
    <3>. HIDE DEF D, s
    <3>2. SubsetSum(val(i), D)[s \cup {i}] = val(i)[i] + SubsetSum(val(i), D)[s]
      BY <3>1, FoldAdd, Zenon
    <3>. QED
      BY <3>2, Zenon DEF D, s
  <2>3. \A d \in 1 .. i - 1 : val(i - 1)[d] = val(i)[d]
    BY <1>2, <2>1, Zenon
  <2>4. S(i - 1)[1 .. i - 1] = S(i)[1 .. i - 1]
    <3>. DEFINE shorter == 1 .. i - 1
                longer == 1 .. i
                before == val(i - 1)
                after == val(i)
    <3>1. Agrees(after, longer, before, shorter)
      <4>1. shorter \subseteq longer /\ IsFiniteSet(longer)
        BY <1>2, <2>1, Zenon
      <4>2. \A d \in longer : after[d] \in Int
        BY <1>2, <2>1, Zenon
      <4>. QED
        BY <2>3, <4>1, <4>2, Zenon DEF Agrees
    <3>. HIDE DEF shorter, longer, before, after
    <3>2. SubsetSum(before, shorter)[shorter] = SubsetSum(after, longer)[shorter]
      <4>1. \A s \in SUBSET shorter : SubsetSum(before, shorter)[s] = SubsetSum(after, longer)[s]
        BY <3>1, FoldSame, SMT, Z3
      <4>. QED
        BY <4>1, Zenon
    <3>. QED
      BY <3>2, Zenon DEF shorter, longer, before, after
  <2>5. val(i)[i] = w[eps[i]] /\ val(i)[i] \in Int /\ S(i - 1)[1 .. i - 1] \in Int
    BY <1>2, <1>4, <2>1, Zenon
  <2>6. S(i)[1 .. i] = val(i)[i] + S(i - 1)[1 .. i - 1]
    BY <2>1, <2>2, <2>4, Zenon
  <2>. HIDE DEF S
  <2>. QED
    BY <2>5, <2>6
<1>. HIDE DEF S
<1>6. ASSUME NEW i \in 1 .. n
      PROVE  SumTo(eps, w, i) = SumTo(eps, w, i - 1) + w[eps[i]]
  BY <1>1, <1>5, Zenon
<1>. QED
  BY <1>1, <1>3, <1>4, <1>6, Zenon

\* Without negative weights the partial sums never go down.
LEMMA SumToGrows ==
  ASSUME NEW eps, NEW w, NEW n \in Nat, \A i \in 1 .. n : w[eps[i]] \in Nat
  PROVE  \A j \in 0 .. n : \A i \in 0 .. j :
             SumTo(eps, w, i) <= SumTo(eps, w, j)
<1>. DEFINE S(i) == SumTo(eps, w, i)
            Up(j) == \A i \in 0 .. j : S(i) <= S(j)
            T == {j \in 0 .. n : ~ Up(j)}
<1>0. \A i \in 1 .. n : w[eps[i]] \in Int
  OBVIOUS
<1>1. /\ \A i \in 0 .. n : S(i) \in Int
      /\ \A i \in 1 .. n : S(i) = S(i - 1) + w[eps[i]]
  BY <1>0, SumToFacts, Zenon
<1>. HIDE DEF S
<1>2. SUFFICES ASSUME T # {} PROVE FALSE
  BY Zenon DEF S
<1>3. T \subseteq Nat
  <2>1. 0 .. n \subseteq Nat
    OBVIOUS
  <2>. QED
    BY <2>1, Zenon
<1>4. PICK j \in T : \A k \in T : j <= k
  BY <1>2, <1>3, LeastNat, Zenon
<1>5. PICK i \in 0 .. j : ~ (S(i) <= S(j))
  BY <1>4, Zenon
<1>6. j \in 0 .. n
  BY <1>4, Zenon
<1>7. i # j
  BY <1>1, <1>5, <1>6
<1>8. /\ j \in 1 .. n /\ j - 1 \in 0 .. n /\ i \in 0 .. j - 1 /\ i \in 0 .. n
      /\ ~ (j <= j - 1)
  BY <1>5, <1>6, <1>7
<1>9. Up(j - 1)
  <2>. HIDE DEF Up
  <2>. QED
    BY <1>4, <1>8, Zenon
<1>10. S(i) <= S(j - 1)
  BY <1>8, <1>9, Zenon
<1>11. S(j) = S(j - 1) + w[eps[j]] /\ w[eps[j]] \in Nat
  BY <1>1, <1>8, Zenon
<1>12. S(i) \in Int /\ S(j) \in Int /\ S(j - 1) \in Int
  BY <1>1, <1>6, <1>8, Zenon
<1>. QED
  BY <1>5, <1>10, <1>11, <1>12

\* The draws that select the i-th endpoint are the integers from the sum
\* of the weights before it up to the sum with its own.
LEMMA DrawsOf ==
  ASSUME NEW eps \in Seq(Hosts), NEW w, \A i \in 1 .. Len(eps) : w[eps[i]] \in Nat,
         NEW i \in 1 .. Len(eps)
  PROVE  {r \in 0 .. Total(eps, w) - 1 : WeightedIndex(eps, w, r) = i}
             = SumTo(eps, w, i - 1) .. SumTo(eps, w, i) - 1
<1>. DEFINE n == Len(eps)
            S(j) == SumTo(eps, w, j)
            hit(r) == {j \in 1 .. n : r - S(j) < 0}
<1>0. n \in Nat /\ \A j \in 1 .. n : w[eps[j]] \in Int
  OBVIOUS
<1>1. S(0) = 0 /\ \A j \in 0 .. n : S(j) \in Int
  BY <1>0, SumToFacts, Zenon
<1>2. \A k \in 0 .. n : \A j \in 0 .. k : S(j) <= S(k)
  BY <1>0, SumToGrows, Zenon
<1>3. Total(eps, w) = S(n)
  BY Zenon DEF Total
<1>4. \A r : WeightedIndex(eps, w, r)
               = IF hit(r) = {} THEN n ELSE Min(hit(r))
  BY Zenon DEF WeightedIndex, Negative
<1>. HIDE DEF n, S
<1>5. /\ i \in 0 .. n /\ i - 1 \in 0 .. n /\ n \in 0 .. n /\ i \in 0 .. n /\ 0 \in 0 .. i - 1
      /\ n \in 1 .. n /\ i \in 1 .. n /\ i \in 0 .. n
  BY <1>0 DEF n
<1>6. S(i) \in Int /\ S(i - 1) \in Int /\ S(n) \in Int /\ S(0) = 0
  BY <1>1, <1>5, Zenon
<1>7. 0 <= S(i - 1) /\ S(i) <= S(n)
  <2>1. S(0) <= S(i - 1) /\ S(i) <= S(n)
    <3>1. i \in 0 .. n /\ 0 \in 0 .. i - 1
      BY <1>5
    <3>. QED
      BY <1>2, <1>5, <3>1, Zenon
  <2>. QED
    BY <1>6, <2>1, Zenon
<1>8. ASSUME NEW r \in 0 .. S(n) - 1
      PROVE  /\ hit(r) # {} /\ hit(r) \subseteq Nat
             /\ WeightedIndex(eps, w, r) \in hit(r)
             /\ \A j \in hit(r) : WeightedIndex(eps, w, r) <= j
  <2>1. r - S(n) < 0
    BY <1>6
  <2>2. n \in hit(r)
    BY <1>5, <2>1, Zenon
  <2>3. hit(r) \subseteq Nat
    <3>1. 1 .. n \subseteq Nat
      BY <1>0 DEF n
    <3>. QED
      BY <3>1, Zenon
  <2>4. hit(r) # {}
    BY <2>2, Zenon
  <2>5. WeightedIndex(eps, w, r) = Min(hit(r))
    BY <1>4, <2>4, Zenon
  <2>. HIDE DEF hit
  <2>. QED
    BY <2>3, <2>4, <2>5, MinFacts, Zenon
<1>9. ASSUME NEW r \in 0 .. S(n) - 1, WeightedIndex(eps, w, r) = i
      PROVE  r \in S(i - 1) .. S(i) - 1
  <2>1. r - S(i) < 0
    BY <1>8, <1>9, Zenon
  <2>2. S(i - 1) <= r
    <3>1. CASE i - 1 = 0
      <4>1. S(i - 1) = 0
        BY <1>6, <3>1, Zenon
      <4>. QED
        BY <1>6, <4>1
    <3>2. CASE i - 1 # 0
      <4>1. i - 1 \in 1 .. n /\ ~ (i <= i - 1)
        BY <1>5, <3>2 DEF n
      <4>2. ~ (r - S(i - 1) < 0)
        BY <1>8, <1>9, <4>1, Zenon
      <4>. QED
        BY <1>6, <4>2
    <3>. QED
      BY <1>6, <3>1, <3>2
  <2>. QED
    BY <1>6, <2>1, <2>2
<1>10. ASSUME NEW r \in S(i - 1) .. S(i) - 1
       PROVE  r \in 0 .. S(n) - 1 /\ WeightedIndex(eps, w, r) = i
  <2>1. r \in 0 .. S(n) - 1 /\ r - S(i) < 0 /\ r \in Int /\ S(i - 1) <= r
    BY <1>6, <1>7
  <2>2. i \in hit(r)
    BY <1>5, <2>1, Zenon
  <2>. DEFINE m == WeightedIndex(eps, w, r)
  <2>3. m \in 1 .. n /\ r - S(m) < 0 /\ m <= i
    BY <1>8, <2>1, <2>2, Zenon
  <2>. HIDE DEF m
  <2>4. m = i
    <3>1. SUFFICES ASSUME m # i PROVE FALSE
      BY Zenon
    <3>2. m \in 0 .. i - 1 /\ m \in 0 .. n
      BY <1>0, <1>5, <2>3, <3>1 DEF n
    <3>3. S(m) <= S(i - 1) /\ S(m) \in Int
      BY <1>1, <1>2, <1>5, <3>2, Zenon
    <3>. QED
      BY <1>6, <2>1, <2>3, <3>3
  <2>. QED
    BY <2>1, <2>4, Zenon DEF m
<1>. QED
  BY <1>3, <1>9, <1>10, Zenon DEF S

\* Each endpoint is selected by as many of the draws as its weight says.
LEMMA Proportional ==
  ASSUME TypeOK
  PROVE  WeightedProportional
<1>. SUFFICES ASSUME \A h \in Hosts : weight[h] >= 0, NEW i \in 1 .. Len(endpoints)
              PROVE  Cardinality({r \in 0 .. Total(endpoints, weight) - 1 :
                            WeightedIndex(endpoints, weight, r) = i})
                         = weight[endpoints[i]]
  BY Zenon DEF WeightedProportional
<1>1. /\ endpoints \in Seq(Hosts) /\ Len(endpoints) \in Nat
      /\ \A j \in 1 .. Len(endpoints) : endpoints[j] \in Hosts
  BY ListFacts, Zenon DEF TypeOK
<1>2. \A h \in Hosts : weight[h] \in Int
  <2>1. Weights \cup {1} \subseteq Int
    BY BalancerAssumption
  <2>. QED
    BY <2>1, Zenon DEF TypeOK
<1>3. \A h \in Hosts : weight[h] \in Nat
  BY <1>2, SMT, Z3
<1>4. \A j \in 1 .. Len(endpoints) : weight[endpoints[j]] \in Nat /\ weight[endpoints[j]] \in Int
  BY <1>1, <1>2, <1>3, Zenon
<1>. DEFINE a == SumTo(endpoints, weight, i - 1)
            b == SumTo(endpoints, weight, i)
<1>5. {r \in 0 .. Total(endpoints, weight) - 1 :
           WeightedIndex(endpoints, weight, r) = i} = a .. b - 1
  BY <1>1, <1>4, DrawsOf, Zenon
<1>6. i - 1 \in 0 .. Len(endpoints) /\ i \in 0 .. Len(endpoints)
  BY <1>1
<1>7. a \in Int /\ b \in Int /\ b = a + weight[endpoints[i]] /\ weight[endpoints[i]] \in Nat
  BY <1>1, <1>4, <1>6, SumToFacts, Zenon
<1>. HIDE DEF a, b
<1>8. Cardinality(a .. b - 1) = weight[endpoints[i]]
  <2>1. b - 1 \in Int
    BY <1>7
  <2>2. Cardinality(a .. b - 1) = IF a > b - 1 THEN 0 ELSE (b - 1) - a + 1
    BY <1>7, <2>1, FS_Interval, Zenon
  <2>. QED
    BY <1>7, <2>2, SMT, Z3
<1>. QED
  BY <1>5, <1>8, Zenon

-----------------------------------------------------------------------------
(***************************************************************************)
(* The theorems about the balancers.                                       *)
(***************************************************************************)

\* Every select() returns an endpoint, and keeps the types.
LEMMA BalancerTypeStep ==
  ASSUME TypeOK, Next
  PROVE  TypeOK'
<1>1. /\ endpoints \in Seq(Hosts) /\ Len(endpoints) \in Nat
      /\ \A j \in 1 .. Len(endpoints) : endpoints[j] \in Hosts
  BY ListFacts, Zenon DEF TypeOK
<1>2. endpoints # <<>> => Len(endpoints) \in Nat \ {0}
  BY <1>1, SMT, Z3
<1>3. CASE Change
  BY <1>3, Zenon DEF Change, TypeOK
<1>4. CASE SelectRandom
  BY <1>1, <1>4, Zenon DEF SelectRandom, TypeOK
<1>5. CASE SelectRoundRobin
  <2>1. counter \in Nat /\ counter' \in 0 .. CounterSpace - 1
    <3>1. ASSUME NEW c \in Nat PROVE c % CounterSpace \in 0 .. CounterSpace - 1
      BY Bounds, SMT, Z3
    <3>2. counter \in Nat /\ counter + 1 \in Nat
      BY Bounds DEF TypeOK
    <3>. QED
      BY <1>5, <3>1, <3>2, Zenon DEF SelectRoundRobin
  <2>2. RoundRobinIndex(counter, Len(endpoints)) \in 1 .. Len(endpoints)
    <3>1. ASSUME NEW c \in Nat, NEW n \in Nat \ {0}
          PROVE  RoundRobinIndex(c, n) \in 1 .. n
      BY SMT, Z3 DEF RoundRobinIndex
    <3>. QED
      BY <1>2, <1>5, <2>1, <3>1, Zenon DEF SelectRoundRobin
  <2>. QED
    BY <1>1, <1>5, <2>1, <2>2, Zenon DEF SelectRoundRobin, TypeOK
<1>6. CASE SelectWeighted
  <2>1. ASSUME NEW r PROVE WeightedIndex(endpoints, weight, r) \in 1 .. Len(endpoints)
    <3>. DEFINE hit == {i \in 1 .. Len(endpoints) : Negative(endpoints, weight, r, i)}
    <3>1. hit \subseteq 1 .. Len(endpoints) /\ 1 .. Len(endpoints) \subseteq Nat
      BY <1>1
    <3>2. Len(endpoints) \in 1 .. Len(endpoints)
      BY <1>2, <1>6 DEF SelectWeighted
    <3>3. WeightedIndex(endpoints, weight, r)
              = IF hit = {} THEN Len(endpoints) ELSE Min(hit)
      BY Zenon DEF WeightedIndex
    <3>. HIDE DEF hit
    <3>4. hit # {} => Min(hit) \in hit
      BY <3>1, MinFacts, Zenon
    <3>. QED
      BY <3>1, <3>2, <3>3, <3>4, Zenon
  <2>. QED
    BY <1>1, <1>6, <2>1, Zenon DEF SelectWeighted, TypeOK
<1>7. CASE SelectConsistentHash
  <2>1. key \in Nat
    BY Bounds DEF TypeOK
  <2>2. Hashes
    BY Zenon DEF TypeOK, Hashes
  <2>3. endpoints # <<>>
    BY <1>7, Zenon DEF SelectConsistentHash
  <2>4. PICK o \in 1 .. Len(endpoints) : ConsistentHash(endpoints, key) = endpoints[o]
    BY <1>1, <2>1, <2>2, <2>3, RingFacts, Zenon
  <2>. QED
    BY <1>1, <1>7, <2>4, Zenon DEF SelectConsistentHash, TypeOK
<1>8. CASE SelectThrows
  BY <1>8, Zenon DEF SelectThrows, vars, TypeOK
<1>. QED
  BY <1>3, <1>4, <1>5, <1>6, <1>7, <1>8, Zenon DEF Next

\* Whatever the counter, the draw or the key, select() of any of the four
\* balancers returns one of the endpoints.
THEOREM BalancerTypes == Spec => []TypeOK
<1>1. Init => TypeOK
  <2>. SUFFICES ASSUME Init PROVE TypeOK
    OBVIOUS
  <2>1. endpoints \in Lists
    <3>1. endpoints = <<>>
      BY Zenon DEF Init
    <3>2. endpoints \in [1 .. 0 -> Hosts] /\ IsInjective(endpoints)
      BY <3>1, SMT, Z3 DEF IsInjective
    <3>3. 0 \in 0 .. Cardinality(Hosts)
      BY BalancerAssumption
    <3>. DEFINE lists(n) == {eps \in [1 .. n -> Hosts] : IsInjective(eps)}
    <3>4. endpoints \in lists(0)
      BY <3>2, Zenon
    <3>5. Lists = UNION {lists(n) : n \in 0 .. Cardinality(Hosts)}
      BY Zenon DEF Lists
    <3>. HIDE DEF lists
    <3>. QED
      BY <3>3, <3>4, <3>5, Zenon
  <2>2. 0 \in 0 .. Points - 1 /\ 0 \in 0 .. CounterSpace - 1
    BY Bounds
  <2>3. weight \in [Hosts -> Weights \cup {1}]
    <3>1. ASSUME NEW W, W \subseteq Weights \cup {1}, weight \in [Hosts -> W]
          PROVE  weight \in [Hosts -> Weights \cup {1}]
      BY <3>1, Zenon
    <3>. QED
      BY <3>1, Zenon DEF Init
  <2>4. hash \in [Hosts -> [1 .. VirtualNodes -> 0 .. Points - 1]]
    <3>1. CASE strategy = "ConsistentHash"
      BY <3>1, Zenon DEF Init
    <3>2. CASE strategy # "ConsistentHash"
      <4>1. hash \in [Hosts -> [1 .. VirtualNodes -> {0}]]
        BY <3>2, Zenon DEF Init
      <4>. QED
        BY <2>2, <4>1, SMT, Z3
    <3>. QED
      BY <3>1, <3>2
  <2>5. key \in 0 .. Points - 1
    BY <2>2, Zenon DEF Init
  <2>6. last \in Hosts
    BY BalancerAssumption, Zenon DEF Init
  <2>. QED
    BY <2>1, <2>2, <2>3, <2>4, <2>5, <2>6, Zenon DEF Init, TypeOK
<1>2. TypeOK /\ [Next]_vars => TypeOK'
  <2>. SUFFICES ASSUME TypeOK, [Next]_vars
                PROVE  TypeOK'
    OBVIOUS
  <2>1. CASE Next
    BY <2>1, BalancerTypeStep, Zenon
  <2>2. CASE UNCHANGED vars
    BY <2>2, Zenon DEF vars, TypeOK
  <2>. QED
    BY <2>1, <2>2
<1>. QED
  BY <1>1, <1>2, PTL DEF Spec

\* The next Len(endpoints) calls of round robin pick every endpoint once, as
\* long as the 64-bit counter does not wrap on the way.
THEOREM RoundRobinTakesTurns == Spec => []RoundRobinFair
<1>1. TypeOK => RoundRobinFair
  <2>. SUFFICES ASSUME TypeOK, Len(endpoints) > 0
                PROVE  {RoundRobinIndex(counter + j, Len(endpoints)) :
                            j \in 0 .. Len(endpoints) - 1} = 1 .. Len(endpoints)
    BY Zenon DEF RoundRobinFair
  <2>1. Len(endpoints) \in Nat
    BY ListFacts, Zenon DEF TypeOK
  <2>2. Len(endpoints) \in Nat \ {0} /\ counter \in Nat
    BY <2>1, Bounds DEF TypeOK
  <2>. QED
    BY <2>2, Rotation, Zenon
<1>. QED
  BY <1>1, BalancerTypes, PTL

\* Of the equally likely draws of the weighted balancer, exactly weight many
\* select an endpoint, when no weight is negative.
THEOREM WeightsAreKept == Spec => []WeightedProportional
<1>1. TypeOK => WeightedProportional
  BY Proportional
<1>. QED
  BY <1>1, BalancerTypes, PTL

\* When an endpoint leaves the list, only its own keys move.
THEOREM KeysStay == Spec => []HashAffinity
<1>1. TypeOK => HashAffinity
  <2>. SUFFICES ASSUME TypeOK PROVE HashAffinity
    OBVIOUS
  <2>1. endpoints \in Seq(Hosts)
    BY ListFacts, Zenon DEF TypeOK
  <2>2. Hashes
    BY Zenon DEF TypeOK, Hashes
  <2>3. key \in Nat
    BY Bounds DEF TypeOK
  <2>. QED
    BY <2>1, <2>2, <2>3, Affinity, Zenon DEF HashAffinity
<1>. QED
  BY <1>1, BalancerTypes, PTL

\* A key goes to the endpoint of the virtual node met first going up from
\* its hash and around the ring, the one listed last among equals.
THEOREM RingIsClockwise == Spec => []HashNearestClockwise
<1>1. TypeOK => HashNearestClockwise
  BY Clockwise, Zenon DEF TypeOK, Hashes
<1>. QED
  BY <1>1, BalancerTypes, PTL
=============================================================================
