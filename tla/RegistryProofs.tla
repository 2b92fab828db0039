--------------------------- MODULE RegistryProofs ---------------------------
(***************************************************************************)
(* Theorems about the registry, for any number of providers, of threads    *)
(* that discover and of failing ZooKeeper calls, on both builds.           *)
(***************************************************************************)
EXTENDS ServiceRegistry, FiniteSetTheorems, TLAPS

Labels == {"idle", "node", "registered", "refused", "gone", "watch", "children",
           "weights", "store", "select", "returned", "thrown"}

\* Goto() moves one thread.
LEMMA GotoFacts ==
  ASSUME TypeOK, NEW t \in Threads, NEW l \in Labels, Goto(t, l)
  PROVE  /\ pc' \in [Threads -> Labels]
         /\ pc'[t] = l
         /\ \A u \in Threads : u # t => pc'[u] = pc[u]
BY Zenon DEF TypeOK, Goto, Labels

\* The threads of the three kinds are threads, and of one kind only.
LEMMA ThreadFacts ==
  /\ EventThread \in Threads /\ Endpoints \subseteq Threads
  /\ Discovers \subseteq Threads
  /\ \A e \in Endpoints : e \notin Discovers /\ e # EventThread /\ e # None
  /\ \A d \in Discovers : d \notin Endpoints /\ d # EventThread
BY RegistryAssumption, Zenon DEF Threads

-----------------------------------------------------------------------------
(***************************************************************************)
(* Types.                                                                  *)
(***************************************************************************)

\* Every step keeps the types.
LEMMA TypeStep ==
  ASSUME TypeOK, Next
  PROVE  TypeOK'
<1>1. ASSUME NEW e \in Endpoints, CreateService(e) \/ CreateServiceLost(e)
             \/ CreateNodeLost(e)
      PROVE  TypeOK'
  <2>1. pc' \in [Threads -> Labels]
    BY <1>1, GotoFacts, ThreadFacts, Zenon DEF CreateService, CreateServiceLost,
       CreateNodeLost, Labels
  <2>2. losses' \in 0 .. MaxLosses
    BY <1>1, RegistryAssumption DEF TypeOK, CreateService, CreateServiceLost,
       CreateNodeLost
  <2>. QED
    BY <1>1, <2>1, <2>2, Zenon DEF TypeOK, CreateService, CreateServiceLost,
       CreateNodeLost, zkVars, Labels
<1>2. ASSUME NEW e \in Endpoints, CreateNodeZk(e) \/ Remove(e)
      PROVE  TypeOK'
  <2>1. pc' \in [Threads -> Labels]
    BY <1>2, GotoFacts, ThreadFacts, Zenon DEF CreateNodeZk, Remove, Labels
  <2>2. watches' \in Nat /\ events' \in Nat
    BY <1>2, SMT, Z3 DEF TypeOK, CreateNodeZk, Remove, Fire
  <2>3. kids' \subseteq Endpoints
    BY <1>2, Zenon DEF TypeOK, CreateNodeZk, Remove
  <2>. QED
    BY <1>2, <2>1, <2>2, <2>3, Zenon DEF TypeOK, CreateNodeZk, Remove, Labels
<1>3. ASSUME NEW e \in Endpoints, CreateNodeStub(e)
      PROVE  TypeOK'
  <2>1. pc' \in [Threads -> Labels]
    BY <1>3, GotoFacts, ThreadFacts, Zenon DEF CreateNodeStub, Labels
  <2>. QED
    BY <1>3, <2>1, Zenon DEF TypeOK, CreateNodeStub, Labels
<1>4. ASSUME NEW d \in Discovers, DiscoverStep(d)
      PROVE  TypeOK'
  <2>1. pc' \in [Threads -> Labels]
    BY <1>4, GotoFacts, ThreadFacts, Zenon DEF DiscoverStep, DiscoverCached,
       DiscoverMiss, Select, Labels
  <2>2. picked' \in [Discovers -> Endpoints \cup {None}]
    BY <1>4, ZenonT(40) DEF TypeOK, DiscoverStep, DiscoverCached, DiscoverMiss, Select
  <2>. QED
    BY <1>4, <2>1, <2>2, Zenon DEF TypeOK, DiscoverStep, DiscoverCached,
       DiscoverMiss, Select, zkVars, Labels
<1>5. ASSUME NEW t \in Threads, RefreshStep(t)
      PROVE  TypeOK'
  <2>1. Caller(t) \in Labels
    BY Zenon DEF Caller, Labels
  <2>2. pc' \in [Threads -> Labels]
    BY <1>5, <2>1, GotoFacts, Zenon DEF RefreshStep, RefreshWatch, RefreshWatchLost,
       RefreshChildren, RefreshChildrenLost, RefreshWeights, RefreshGarbage,
       RefreshStore, Labels
  <2>3. watches' \in Nat
    BY <1>5, RegistryAssumption, SMT, Z3 DEF TypeOK, RefreshStep, RefreshWatch,
       RefreshWatchLost, RefreshChildren, RefreshChildrenLost, RefreshWeights,
       RefreshGarbage, RefreshStore, Armed, zkVars
  <2>4. losses' \in 0 .. MaxLosses
    BY <1>5, RegistryAssumption, SMT, Z3 DEF TypeOK, RefreshStep, RefreshWatch,
       RefreshWatchLost, RefreshChildren, RefreshChildrenLost, RefreshWeights,
       RefreshGarbage, RefreshStore
  <2>5. seen' \in [Threads -> SUBSET Endpoints]
    BY <1>5, Zenon DEF TypeOK, RefreshStep, RefreshWatch,
       RefreshWatchLost, RefreshChildren, RefreshChildrenLost, RefreshWeights,
       RefreshGarbage, RefreshStore
  <2>6. cache' \subseteq Endpoints /\ stub_mu' \in Endpoints \cup {None}
    BY <1>5, Zenon DEF TypeOK, RefreshStep, RefreshWatch,
       RefreshWatchLost, RefreshChildren, RefreshChildrenLost, RefreshWeights,
       RefreshGarbage, RefreshStore
  <2>7. aborted' \in BOOLEAN /\ overlap' \in BOOLEAN
    BY <1>5, Zenon DEF TypeOK, RefreshStep, RefreshWatch,
       RefreshWatchLost, RefreshChildren, RefreshChildrenLost, RefreshWeights,
       RefreshGarbage, RefreshStore
  <2>8. UNCHANGED <<build, service, kids, events, picked>>
    BY <1>5, Zenon DEF RefreshStep, RefreshWatch,
       RefreshWatchLost, RefreshChildren, RefreshChildrenLost, RefreshWeights,
       RefreshGarbage, RefreshStore, zkVars
  <2>. QED
    BY <2>2, <2>3, <2>4, <2>5, <2>6, <2>7, <2>8, Zenon DEF TypeOK, Labels
<1>6. CASE DeliverEvent
  <2>1. pc' \in [Threads -> Labels]
    BY <1>6, GotoFacts, ThreadFacts, Zenon DEF DeliverEvent, Labels
  <2>2. events' \in Nat
    BY <1>6 DEF TypeOK, DeliverEvent
  <2>. QED
    BY <1>6, <2>1, <2>2, Zenon DEF TypeOK, DeliverEvent, Labels
<1>. QED
  BY <1>1, <1>2, <1>3, <1>4, <1>5, <1>6, Zenon DEF Next, RegisterStep

-----------------------------------------------------------------------------
(***************************************************************************)
(* Who refreshes.                                                          *)
(***************************************************************************)

\* A refresh() that takes a step runs in discover() or on the event thread:
\* one that a stub create() called waits for the mutex its caller holds.
LEMMA RefresherFacts ==
  ASSUME TypeOK, CallbackInv, NEW t \in Threads, RefreshStep(t)
  PROVE  /\ t \in Discovers \cup {EventThread}
         /\ t = EventThread => build = "zk"
         /\ stub_mu' = stub_mu
         /\ UNCHANGED <<build, service, kids, events, picked>>
         /\ pc[t] \in {"watch", "children", "weights", "store"}
<1>1. pc[t] \in {"watch", "children", "weights", "store"}
  BY Zenon DEF RefreshStep, RefreshWatch, RefreshWatchLost, RefreshChildren,
     RefreshChildrenLost, RefreshWeights, RefreshGarbage, RefreshStore
<1>2. t \in Refreshing
  BY <1>1, Zenon DEF Refreshing
<1>3. t \notin Endpoints
  <2>1. SUFFICES ASSUME t \in Endpoints PROVE FALSE
    OBVIOUS
  <2>2. pc[t] = "watch" /\ build = "stub" /\ stub_mu = t /\ t # None
    BY <1>2, <2>1, ThreadFacts, Zenon DEF CallbackInv
  <2>. QED
    BY <2>2, Zenon DEF RefreshStep, RefreshWatch, RefreshWatchLost, RefreshChildren,
     RefreshChildrenLost, RefreshWeights, RefreshGarbage, RefreshStore, StubFree
<1>4. t = EventThread => build = "zk"
  BY <1>1, RegistryAssumption, Zenon DEF CallbackInv, TypeOK
<1>5. stub_mu' = stub_mu
  BY <1>3, Zenon DEF TypeOK, RefreshStep, RefreshWatch, RefreshWatchLost, RefreshChildren,
     RefreshChildrenLost, RefreshWeights, RefreshGarbage, RefreshStore
<1>6. UNCHANGED <<build, service, kids, events, picked>>
  BY Zenon DEF RefreshStep, RefreshWatch,
     RefreshWatchLost, RefreshChildren, RefreshChildrenLost, RefreshWeights,
     RefreshGarbage, RefreshStore, zkVars
<1>. QED
  BY <1>1, <1>3, <1>4, <1>5, <1>6, Zenon DEF Threads

\* What a step of refresh() does to the thread's place, and to the watches.
LEMMA RefreshPlaces ==
  ASSUME TypeOK, CallbackInv, NEW t \in Threads, RefreshStep(t)
  PROVE  /\ \A u \in Threads : u # t => pc'[u] = pc[u]
         /\ pc'[t] \in {"children", "weights", "store", "thrown", "select", "idle"}
         /\ pc'[t] = "idle" => t = EventThread
         /\ pc[t] = "watch" => pc'[t] = "children"
         /\ pc[t] # "watch" => watches' = watches
<1>1. t \notin Discovers => t = EventThread
  BY RefresherFacts, Zenon
<1>2. CASE RefreshWatch(t) \/ RefreshWatchLost(t)
  BY <1>2, GotoFacts, Zenon DEF RefreshWatch, RefreshWatchLost, Labels
<1>3. CASE RefreshChildren(t) \/ RefreshChildrenLost(t) \/ RefreshWeights(t) \/ RefreshGarbage(t)
  BY <1>3, GotoFacts, Zenon DEF RefreshChildren, RefreshChildrenLost, RefreshWeights,
     RefreshGarbage, Labels, zkVars
<1>4. CASE RefreshStore(t)
  <2>1. Caller(t) \in {"select", "idle"} /\ (Caller(t) = "idle" => t = EventThread)
    BY <1>1, Zenon DEF Caller
  <2>2. Caller(t) \in Labels
    BY <2>1, Zenon DEF Labels
  <2>. QED
    BY <1>4, <2>1, <2>2, GotoFacts, Zenon DEF RefreshStore, zkVars
<1>. QED
  BY <1>2, <1>3, <1>4, Zenon DEF RefreshStep

\* What a step of a provider does: it changes no other thread's place and
\* moves watches to events, all or none.
LEMMA ProviderPlaces ==
  ASSUME TypeOK, NEW e \in Endpoints, RegisterStep(e) \/ Remove(e)
  PROVE  /\ \A u \in Threads : u # e => pc'[u] = pc[u]
         /\ build' = build
         /\ UNCHANGED <<cache, seen, overlap>>
         /\ watches' + events' = watches + events
         /\ watches' = watches \/ watches' = 0
         /\ build = "stub" => events' = events
         /\ build = "zk" => (kids' = kids \/ watches' = 0)
         /\ pc[e] # "watch"
         /\ e \in Refreshing' => pc'[e] = "watch" /\ build = "stub" /\ stub_mu' = e
         /\ stub_mu' = stub_mu \/ stub_mu = None
<1>. e \in Threads
  BY ThreadFacts
<1>1. CASE CreateService(e) \/ CreateServiceLost(e) \/ CreateNodeLost(e)
  <2>1. pc'[e] \in {"node", "refused"} /\ \A u \in Threads : u # e => pc'[u] = pc[u]
    BY <1>1, GotoFacts, Zenon DEF CreateService, CreateServiceLost, CreateNodeLost, Labels
  <2>. QED
    BY <1>1, <2>1, Zenon DEF CreateService, CreateServiceLost, CreateNodeLost,
       Refreshing, zkVars
<1>2. CASE CreateNodeZk(e) \/ Remove(e)
  <2>1. /\ pc'[e] \in {"registered", "refused", "gone"}
        /\ \A u \in Threads : u # e => pc'[u] = pc[u]
    BY <1>2, GotoFacts, Zenon DEF CreateNodeZk, Remove, Labels
  <2>2. watches' + events' = watches + events
    BY <1>2, SMT, Z3 DEF TypeOK, CreateNodeZk, Remove, Fire
  <2>3. build = "zk" => (kids' = kids \/ watches' = 0)
    BY <1>2, Zenon DEF CreateNodeZk, Remove, Fire
  <2>. QED
    BY <1>2, <2>1, <2>2, <2>3, Zenon DEF CreateNodeZk, Remove, Fire, Refreshing
<1>3. CASE CreateNodeStub(e)
  <2>1. /\ pc'[e] \in {"watch", "registered"}
        /\ pc'[e] = "watch" => stub_mu' = e
        /\ \A u \in Threads : u # e => pc'[u] = pc[u]
    BY <1>3, GotoFacts, Zenon DEF CreateNodeStub, Labels
  <2>. QED
    BY <1>3, <2>1, Zenon DEF CreateNodeStub, Refreshing
<1>. QED
  BY <1>1, <1>2, <1>3, Zenon DEF RegisterStep

\* What a step of discover() outside refresh() does.
LEMMA DiscoverPlaces ==
  ASSUME TypeOK, NEW d \in Discovers, DiscoverStep(d)
  PROVE  /\ \A u \in Threads : u # d => pc'[u] = pc[u]
         /\ pc[d] \in {"idle", "select"}
         /\ pc'[d] \in {"watch", "returned", "thrown"}
         /\ pc'[d] = "watch" => pc[d] = "idle"
         /\ UNCHANGED <<zkVars, stub_mu, cache, seen, overlap>>
<1>. d \in Threads
  BY ThreadFacts
<1>. QED
  BY GotoFacts, Zenon DEF DiscoverStep, DiscoverCached, DiscoverMiss, Select, Labels

\* What the event thread does when it takes an event.
LEMMA EventPlaces ==
  ASSUME TypeOK, DeliverEvent
  PROVE  /\ \A u \in Threads : u # EventThread => pc'[u] = pc[u]
         /\ pc[EventThread] = "idle" /\ pc'[EventThread] = "watch"
         /\ events > 0 /\ events' = events - 1
         /\ UNCHANGED <<build, service, kids, watches, stub_mu, cache, seen, overlap>>
BY ThreadFacts, GotoFacts, Zenon DEF DeliverEvent, Labels

\* Every step keeps CallbackInv.
LEMMA CallbackStep ==
  ASSUME TypeOK, CallbackInv, Next
  PROVE  CallbackInv'
<1>1. ASSUME NEW e \in Endpoints, RegisterStep(e) \/ Remove(e)
      PROVE  CallbackInv'
  <2>1. ASSUME NEW f \in Endpoints, f \in Refreshing'
        PROVE  pc'[f] = "watch" /\ build' = "stub" /\ stub_mu' = f
    <3>1. CASE f = e
      BY <1>1, <2>1, <3>1, ProviderPlaces, Zenon
    <3>2. CASE f # e
      <4>1. pc'[f] = pc[f] /\ f \in Refreshing /\ f # None
        BY <1>1, <2>1, <3>2, ProviderPlaces, ThreadFacts, Zenon DEF Refreshing
      <4>. QED
        BY <1>1, <4>1, ProviderPlaces, Zenon DEF CallbackInv
    <3>. QED
      BY <3>1, <3>2
  <2>2. build' = "stub" => events' = 0 /\ pc'[EventThread] = "idle"
    BY <1>1, ProviderPlaces, ThreadFacts, Zenon DEF CallbackInv
  <2>. QED
    BY <2>1, <2>2, Zenon DEF CallbackInv
<1>2. ASSUME NEW d \in Discovers, DiscoverStep(d)
      PROVE  CallbackInv'
  BY <1>2, DiscoverPlaces, ThreadFacts, ZenonT(40) DEF CallbackInv, Refreshing, zkVars
<1>3. ASSUME NEW t \in Threads, RefreshStep(t)
      PROVE  CallbackInv'
  <2>1. ASSUME NEW f \in Endpoints
        PROVE  f \in Threads /\ pc'[f] = pc[f]
    BY <1>3, RefresherFacts, RefreshPlaces, ThreadFacts, Zenon
  <2>2. build = "stub" => pc'[EventThread] = pc[EventThread]
    BY <1>3, RefresherFacts, RefreshPlaces, ThreadFacts, Zenon
  <2>. QED
    BY <1>3, <2>1, <2>2, RefresherFacts, Zenon DEF CallbackInv, Refreshing
<1>4. CASE DeliverEvent
  <2>1. build # "stub"
    BY <1>4, EventPlaces DEF CallbackInv
  <2>. QED
    BY <1>4, <2>1, EventPlaces, ThreadFacts, Zenon DEF CallbackInv, Refreshing
<1>. QED
  BY <1>1, <1>2, <1>3, <1>4, Zenon DEF Next

-----------------------------------------------------------------------------
(***************************************************************************)
(* How many watches.                                                       *)
(***************************************************************************)

\* The discover() calls that have armed their watch, or had no need to.
Past == {d \in Discovers : pc[d] \notin {"idle", "watch"}}

\* The event whose refresh() has not armed its watch again yet.
Taken == IF pc[EventThread] = "watch" THEN 1 ELSE 0

\* discover() calls never go back, so that their number only grows, by one
\* when a call goes past its watch_children().
LEMMA PastGrows ==
  ASSUME TypeOK, \A d \in Discovers : d \in Past => d \in Past'
  PROVE  /\ Cardinality(Past) \in Nat /\ Cardinality(Past') \in Nat
         /\ Cardinality(Past) <= Cardinality(Past')
         /\ \A d \in Discovers : d \notin Past /\ d \in Past'
                => Cardinality(Past) + 1 <= Cardinality(Past')
<1>1. Past \subseteq Discovers /\ Past' \subseteq Discovers /\ Past \subseteq Past'
  BY Zenon DEF Past
<1>2. IsFiniteSet(Past) /\ IsFiniteSet(Past')
  BY <1>1, FS_Subset, RegistryAssumption, Zenon
<1>3. Cardinality(Past) \in Nat /\ Cardinality(Past') \in Nat
  BY <1>2, FS_CardinalityType, Zenon
<1>4. Cardinality(Past) <= Cardinality(Past')
  BY <1>1, <1>2, FS_Subset, Zenon
<1>5. ASSUME NEW d \in Discovers, d \notin Past, d \in Past'
      PROVE  Cardinality(Past) + 1 <= Cardinality(Past')
  <2>1. IsFiniteSet(Past \cup {d}) /\ Cardinality(Past \cup {d}) = Cardinality(Past) + 1
    BY <1>2, <1>5, FS_AddElement, Zenon
  <2>2. Past \cup {d} \subseteq Past'
    BY <1>1, <1>5, Zenon
  <2>. QED
    BY <1>2, <2>1, <2>2, FS_Subset, Zenon
<1>. QED
  BY <1>3, <1>4, <1>5, Zenon

\* Every step keeps WatchesBounded.
LEMMA BoundStep ==
  ASSUME TypeOK, CallbackInv, WatchesBounded, Next
  PROVE  WatchesBounded'
<1>. DEFINE c == Cardinality(Past)
            n == Cardinality(Past')
<1>1. watches + events + Taken <= c
  BY Zenon DEF WatchesBounded, Past, Taken
<1>2. SUFFICES watches' + events' + Taken' <= n
  BY Zenon DEF WatchesBounded, Past, Taken
<1>3. watches \in Nat /\ events \in Nat /\ Taken \in {0, 1} /\ Taken' \in {0, 1}
  BY Zenon DEF TypeOK, Taken
<1>6. ASSUME NEW e \in Endpoints, RegisterStep(e) \/ Remove(e)
      PROVE  watches' + events' + Taken' <= n
  <2>1. \A d \in Discovers : pc'[d] = pc[d]
    BY <1>6, ProviderPlaces, ThreadFacts, Zenon
  <2>2. Past' = Past
    BY <2>1, Zenon DEF Past
  <2>3. Taken' = Taken
    BY <1>6, ProviderPlaces, ThreadFacts, Zenon DEF Taken
  <2>4. watches' + events' = watches + events
    BY <1>6, ProviderPlaces, Zenon
  <2>. QED
    BY <1>1, <2>2, <2>3, <2>4, Zenon
<1>7. ASSUME NEW d \in Discovers, DiscoverStep(d)
      PROVE  watches' + events' + Taken' <= n
  <2>1. \A x \in Discovers : x \in Past => x \in Past'
    BY <1>7, DiscoverPlaces, ThreadFacts, Zenon DEF Past
  <2>2. c \in Nat /\ n \in Nat /\ c <= n
    BY <2>1, PastGrows, Zenon
  <2>3. Taken' = Taken /\ watches' = watches /\ events' = events
    BY <1>7, DiscoverPlaces, ThreadFacts, Zenon DEF Taken, zkVars
  <2>. HIDE DEF c, n
  <2>. QED
    BY <1>1, <1>3, <2>2, <2>3, SMT, Z3
<1>8. ASSUME NEW t \in Threads, RefreshStep(t)
      PROVE  watches' + events' + Taken' <= n
  <2>1. \A x \in Discovers : x \in Past => x \in Past'
    BY <1>8, RefreshPlaces, ThreadFacts, Zenon DEF Past
  <2>2. c \in Nat /\ n \in Nat /\ c <= n
    BY <2>1, PastGrows, Zenon
  <2>3. events' = events
    BY <1>8, RefresherFacts, Zenon
  <2>4. CASE pc[t] # "watch"
    <3>1. watches' = watches
      BY <1>8, <2>4, RefreshPlaces, Zenon
    <3>2. pc'[t] # "watch"
      BY <1>8, RefreshPlaces, Zenon
    <3>3. t # EventThread => pc'[EventThread] = pc[EventThread]
      BY <1>8, RefreshPlaces, ThreadFacts, Zenon
    <3>4. Taken' = Taken
      BY <2>4, <3>2, <3>3, Zenon DEF Taken
    <3>. HIDE DEF c, n
    <3>. QED
      BY <1>1, <1>3, <2>2, <2>3, <3>1, <3>4, SMT, Z3
  <2>5. CASE pc[t] = "watch"
    <3>1. pc'[t] = "children"
      BY <1>8, <2>5, RefreshPlaces, Zenon
    <3>2. RefreshWatch(t) \/ RefreshWatchLost(t)
      BY <1>8, <2>5, Zenon DEF RefreshStep, RefreshChildren, RefreshChildrenLost,
         RefreshWeights, RefreshGarbage, RefreshStore
    <3>3. build = "zk" => watches' = watches \/ watches' = watches + 1
      BY <3>2, Zenon DEF RefreshWatch, RefreshWatchLost, Armed, zkVars
    <3>4. build # "zk" => build = "stub" /\ watches' = 1
      <4>1. ASSUME build # "zk" PROVE build = "stub" /\ watches' = Armed(t)
        BY <3>2, <4>1, RegistryAssumption, Zenon DEF TypeOK, RefreshWatch, RefreshWatchLost
      <4>. QED
        BY <4>1, Zenon DEF Armed
    <3>5. CASE t = EventThread
      <4>1. Taken = 1 /\ Taken' = 0 /\ build = "zk"
        BY <1>8, <2>5, <3>1, <3>5, RefresherFacts, Zenon DEF Taken
      <4>. HIDE DEF c, n
      <4>. QED
        BY <1>1, <1>3, <2>2, <2>3, <3>3, <4>1, SMT, Z3
    <3>6. CASE t \in Discovers
      <4>1. c + 1 <= n
        BY <2>1, <2>5, <3>1, <3>6, PastGrows, Zenon DEF Past
      <4>2. Taken' = Taken
        BY <1>8, <3>6, RefreshPlaces, ThreadFacts, Zenon DEF Taken
      <4>3. build = "stub" => events = 0 /\ Taken = 0
        BY Zenon DEF CallbackInv, Taken
      <4>. HIDE DEF c, n
      <4>. QED
        BY <1>1, <1>3, <2>2, <2>3, <3>3, <3>4, <4>1, <4>2, <4>3, SMT, Z3
    <3>. QED
      BY <1>8, <3>5, <3>6, RefresherFacts, Zenon
  <2>. QED
    BY <2>4, <2>5, Zenon
<1>9. CASE DeliverEvent
  <2>1. \A d \in Discovers : pc'[d] = pc[d]
    BY <1>9, EventPlaces, ThreadFacts, Zenon
  <2>2. Past' = Past
    BY <2>1, Zenon DEF Past
  <2>3. c \in Nat /\ n = c
    BY <2>2, PastGrows, Zenon
  <2>4. Taken = 0 /\ Taken' = 1 /\ events' = events - 1 /\ watches' = watches
    BY <1>9, EventPlaces, Zenon DEF Taken
  <2>. HIDE DEF c, n
  <2>. QED
    BY <1>1, <1>3, <2>3, <2>4, SMT, Z3
<1>. QED
  BY <1>6, <1>7, <1>8, <1>9, Zenon DEF Next

-----------------------------------------------------------------------------
(***************************************************************************)
(* What the lists are worth.                                               *)
(***************************************************************************)

\* A step of refresh() before, at and after get_children() keeps ListInv.
LEMMA ListRefresh ==
  ASSUME TypeOK, CallbackInv, ListInv, NEW t \in Threads, RefreshStep(t)
  PROVE  ListInv'
<1>1. SUFFICES ASSUME build' = "zk", ~ overlap'
               PROVE  /\ \A u \in Threads : pc'[u] \in {"weights", "store"} => ~ Overlaps(u)'
                      /\ \/ watches' = 0
                         \/ \E u \in Threads : pc'[u] = "children"
                         \/ \E u \in Threads : /\ pc'[u] \in {"weights", "store"}
                                              /\ Current(seen[u])'
                         \/ /\ \A u \in Threads : pc'[u] \notin {"weights", "store"}
                            /\ Current(cache)'
  BY Zenon DEF ListInv
<1>2. build = "zk" /\ kids' = kids
  BY <1>1, RefresherFacts, Zenon
<1>3. ~ overlap
  BY <1>1, Zenon DEF RefreshStep, RefreshWatch, RefreshWatchLost, RefreshChildren,
     RefreshChildrenLost, RefreshWeights, RefreshGarbage, RefreshStore
<1>4. /\ \A u \in Threads : pc[u] \in {"weights", "store"} => ~ Overlaps(u)
      /\ \/ watches = 0
         \/ \E u \in Threads : pc[u] = "children"
         \/ \E u \in Threads : pc[u] \in {"weights", "store"} /\ Current(seen[u])
         \/ /\ \A u \in Threads : pc[u] \notin {"weights", "store"}
            /\ Current(cache)
  BY <1>2, <1>3, Zenon DEF ListInv
<1>5. \A u \in Threads : u # t => pc'[u] = pc[u]
  BY RefreshPlaces, Zenon
<1>6. CASE RefreshWatch(t) \/ RefreshWatchLost(t)
  <2>1. pc[t] = "watch" /\ pc'[t] = "children"
    BY <1>6, RefreshPlaces, Zenon DEF RefreshWatch, RefreshWatchLost
  <2>. QED
    BY <1>4, <1>5, <2>1, Zenon DEF Overlaps
<1>7. CASE RefreshChildren(t) \/ RefreshChildrenLost(t)
  <2>1. pc[t] = "children" /\ pc'[t] = "weights" /\ Current(seen'[t])
    BY <1>7, <1>2, GotoFacts, Zenon DEF RefreshChildren, RefreshChildrenLost, Current,
       TypeOK, Labels
  <2>2. ~ Overlaps(t)
    BY <1>1, <1>7, Zenon DEF RefreshChildren, RefreshChildrenLost
  <2>3. \A u \in Threads : pc'[u] \in {"weights", "store"} => u = t
    BY <1>5, <2>2, Zenon DEF Overlaps
  <2>4. Current(seen[t])'
    BY <1>2, <2>1, Zenon DEF Current
  <2>. QED
    BY <2>1, <2>3, <2>4, Zenon DEF Overlaps
<1>8. CASE RefreshWeights(t)
  <2>1. /\ pc[t] = "weights" /\ pc'[t] = "store"
        /\ UNCHANGED <<zkVars, cache, seen>>
    BY <1>8, GotoFacts, Zenon DEF RefreshWeights, Labels
  <2>2. \A u \in Threads : (pc'[u] \in {"weights", "store"}) <=> (pc[u] \in {"weights", "store"})
    BY <1>5, <2>1, Zenon
  <2>3. \A u \in Threads : pc[u] = "children" => pc'[u] = "children"
    BY <1>5, <2>1, Zenon
  <2>4. \A u \in Threads : Current(seen[u])' <=> Current(seen[u])
    BY <2>1, Zenon DEF Current, zkVars
  <2>5. Current(cache)' <=> Current(cache)
    BY <2>1, Zenon DEF Current, zkVars
  <2>6. \A u \in Threads : Overlaps(u)' => Overlaps(u)
    BY <2>2, Zenon DEF Overlaps
  <2>7. watches' = watches
    BY <2>1, Zenon DEF zkVars
  <2>. QED
    BY <1>4, <2>2, <2>3, <2>4, <2>5, <2>6, <2>7, Zenon
<1>9. CASE RefreshGarbage(t) \/ RefreshStore(t)
  <2>1. /\ pc[t] \in {"weights", "store"}
        /\ pc'[t] \in {"thrown", "select", "idle"}
    <3>1. Caller(t) \in {"select", "idle"}
      BY RefresherFacts, Zenon DEF Caller
    <3>2. Caller(t) \in Labels
      BY <3>1, Zenon DEF Labels
    <3>. QED
      BY <1>9, <3>1, <3>2, GotoFacts, Zenon DEF RefreshGarbage, RefreshStore, Labels
  <2>2. \A u \in Threads : u # t => pc[u] \notin {"weights", "store"}
    BY <1>4, <2>1, Zenon DEF Overlaps
  <2>3. \A u \in Threads : pc'[u] \notin {"weights", "store"}
    BY <1>5, <2>1, <2>2, Zenon
  <2>4. watches' = watches
    BY <1>9, Zenon DEF RefreshGarbage, RefreshStore, zkVars
  <2>5. ASSUME NEW u \in Threads, pc[u] = "children" PROVE pc'[u] = "children"
    BY <1>5, <2>1, <2>5, Zenon
  <2>6. CASE watches = 0 \/ \E u \in Threads : pc[u] = "children"
    BY <2>3, <2>4, <2>5, <2>6, Zenon
  <2>7. CASE Current(seen[t])
    <3>1. CASE RefreshStore(t)
      BY <1>2, <2>3, <2>7, <3>1, Zenon DEF RefreshStore, Current
    <3>2. CASE RefreshGarbage(t)
      BY <2>7, <3>2, Zenon DEF RefreshGarbage, Current
    <3>. QED
      BY <1>9, <3>1, <3>2
  <2>. QED
    BY <1>4, <2>1, <2>2, <2>6, <2>7, Zenon
<1>. QED
  BY <1>6, <1>7, <1>8, <1>9, Zenon DEF RefreshStep

\* A step that neither lists nor stores keeps ListInv: a change of the child
\* list takes the watches with it.
LEMMA ListOther ==
  ASSUME ListInv, build' = build,
         UNCHANGED <<cache, seen, overlap>>,
         build = "zk" => (watches' = 0 \/ (watches' = watches /\ kids' = kids)),
         \A u \in Threads : (pc'[u] \in {"weights", "store"}) <=> (pc[u] \in {"weights", "store"}),
         \A u \in Threads : pc[u] = "children" => pc'[u] = "children"
  PROVE  ListInv'
<1>1. SUFFICES ASSUME build' = "zk", ~ overlap'
               PROVE  /\ \A u \in Threads : pc'[u] \in {"weights", "store"} => ~ Overlaps(u)'
                      /\ \/ watches' = 0
                         \/ \E u \in Threads : pc'[u] = "children"
                         \/ \E u \in Threads : /\ pc'[u] \in {"weights", "store"}
                                              /\ Current(seen[u])'
                         \/ /\ \A u \in Threads : pc'[u] \notin {"weights", "store"}
                            /\ Current(cache)'
  BY Zenon DEF ListInv
<1>2. /\ \A u \in Threads : pc[u] \in {"weights", "store"} => ~ Overlaps(u)
      /\ \/ watches = 0
         \/ \E u \in Threads : pc[u] = "children"
         \/ \E u \in Threads : pc[u] \in {"weights", "store"} /\ Current(seen[u])
         \/ /\ \A u \in Threads : pc[u] \notin {"weights", "store"}
            /\ Current(cache)
  BY <1>1, Zenon DEF ListInv
<1>3. \A u \in Threads : Overlaps(u)' => Overlaps(u)
  BY Zenon DEF Overlaps
<1>4. watches' = 0 \/ (watches' = watches /\ kids' = kids)
  BY <1>1, Zenon
<1>5. kids' = kids => \A u \in Threads : Current(seen[u])' <=> Current(seen[u])
  BY Zenon DEF Current
<1>6. kids' = kids => (Current(cache)' <=> Current(cache))
  BY Zenon DEF Current
<1>. QED
  BY <1>2, <1>3, <1>4, <1>5, <1>6, Zenon

\* Every step keeps ListInv.
LEMMA ListStep ==
  ASSUME TypeOK, CallbackInv, ListInv, Next
  PROVE  ListInv'
<1>1. ASSUME NEW e \in Endpoints, RegisterStep(e) \/ Remove(e)
      PROVE  ListInv'
  <2>1. pc[e] \notin {"weights", "store", "children"}
    <3>1. e \in Refreshing => pc[e] = "watch"
      BY Zenon DEF CallbackInv
    <3>. QED
      BY <3>1, ThreadFacts, Zenon DEF Refreshing
  <2>2. pc'[e] \notin {"weights", "store"}
    BY <1>1, ProviderPlaces, ThreadFacts, Zenon DEF Refreshing
  <2>3. \A u \in Threads : u # e => pc'[u] = pc[u]
    BY <1>1, ProviderPlaces, Zenon
  <2>4. /\ build' = build /\ UNCHANGED <<cache, seen, overlap>>
        /\ build = "zk" => (watches' = 0 \/ (watches' = watches /\ kids' = kids))
    BY <1>1, ProviderPlaces, Zenon
  <2>. QED
    BY <2>1, <2>2, <2>3, <2>4, ListOther, Zenon
<1>2. ASSUME NEW d \in Discovers, DiscoverStep(d)
      PROVE  ListInv'
  <2>1. /\ pc[d] \notin {"weights", "store", "children"}
        /\ pc'[d] \notin {"weights", "store"}
        /\ \A u \in Threads : u # d => pc'[u] = pc[u]
        /\ UNCHANGED <<zkVars, cache, seen, overlap>>
    BY <1>2, DiscoverPlaces, Zenon
  <2>. QED
    BY <2>1, ListOther, Zenon DEF zkVars
<1>3. ASSUME NEW t \in Threads, RefreshStep(t)
      PROVE  ListInv'
  BY <1>3, ListRefresh, Zenon
<1>4. CASE DeliverEvent
  BY <1>4, EventPlaces, ListOther, Zenon
<1>. QED
  BY <1>1, <1>2, <1>3, <1>4, Zenon DEF Next

-----------------------------------------------------------------------------
(***************************************************************************)
(* The theorems.                                                           *)
(***************************************************************************)

\* RegistryInv holds initially and every step of any thread keeps it.
THEOREM RegistryInvariant == Spec => []RegistryInv
<1>1. Init => RegistryInv
  <2>. SUFFICES ASSUME Init PROVE RegistryInv
    OBVIOUS
  <2>1. \A t \in Threads : pc[t] = "idle"
    BY Zenon DEF Init
  <2>2. TypeOK
    <3>1. losses \in 0 .. MaxLosses /\ watches \in Nat /\ events \in Nat
      BY RegistryAssumption DEF Init
    <3>2. service \in BOOLEAN
      BY Zenon DEF Init
    <3>. QED
      BY <3>1, <3>2, Zenon DEF Init, TypeOK
  <2>3. CallbackInv
    BY <2>1, ThreadFacts, Zenon DEF Init, CallbackInv, Refreshing
  <2>4. Past = {} /\ Taken = 0
    BY <2>1, ThreadFacts, Zenon DEF Past, Taken
  <2>5. WatchesBounded
    BY <2>4, FS_EmptySet DEF Init, WatchesBounded, Past, Taken
  <2>6. ListInv
    BY <2>1, Zenon DEF Init, ListInv
  <2>. QED
    BY <2>2, <2>3, <2>5, <2>6 DEF RegistryInv
<1>2. RegistryInv /\ [Next]_vars => RegistryInv'
  <2>. SUFFICES ASSUME RegistryInv, [Next]_vars PROVE RegistryInv'
    OBVIOUS
  <2>1. CASE Next
    BY <2>1, TypeStep, CallbackStep, BoundStep, ListStep, Zenon DEF RegistryInv
  <2>2. CASE UNCHANGED vars
    BY <2>2, Zenon DEF RegistryInv, TypeOK, CallbackInv, WatchesBounded, ListInv,
       Refreshing, Overlaps, Current, vars, zkVars
  <2>. QED
    BY <2>1, <2>2
<1>. QED
  BY <1>1, <1>2, PTL DEF Spec

\* While a watch is armed and no refresh() is between listing and storing,
\* the cache that discover() selects from is empty or the registered list.
THEOREM CacheIsFresh == Spec => []FreshWhileWatched
<1>1. RegistryInv => FreshWhileWatched
  <2>. SUFFICES ASSUME RegistryInv, build = "zk", ~ overlap, cache # {}, watches > 0,
                       \A t \in Threads : pc[t] \notin {"children", "weights", "store"}
                PROVE  cache = kids
    BY Zenon DEF FreshWhileWatched
  <2>1. watches # 0
    BY DEF RegistryInv, TypeOK
  <2>. QED
    BY <2>1, Zenon DEF RegistryInv, ListInv, Current
<1>. QED
  BY <1>1, RegistryInvariant, PTL

\* Watch events do not multiply watchers: with what waits to be delivered,
\* they are at most as many as the discover() calls that have gone past
\* their watch_children().
THEOREM WatchersDoNotMultiply == Spec => []WatchesBounded
<1>1. RegistryInv => WatchesBounded
  BY DEF RegistryInv
<1>. QED
  BY <1>1, RegistryInvariant, PTL
=============================================================================
