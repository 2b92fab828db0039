-------------------------- MODULE ServiceRegistry --------------------------
(***************************************************************************)
(* registry::ServiceRegistry for one service name, on top of either build  *)
(* of ZooKeeperClient.                                                     *)
(*                                                                         *)
(* build = "zk": the znodes live in a ZooKeeper ensemble, a watch is       *)
(* one-shot, and its callback runs later on the client's event thread.     *)
(* build = "stub": the in-memory stub, whose watchers stay, are called by  *)
(* create() on the caller's thread while stub_->mu is held, and are not    *)
(* called by remove().                                                     *)
(*                                                                         *)
(* An endpoint is a model value that also names the thread registering it. *)
(***************************************************************************)
EXTENDS Integers, FiniteSets

CONSTANTS Endpoints,      \* providers: the "host:port" children
          Discovers,      \* threads that each call discover() once
          EventThread,    \* the ZooKeeper client's watcher thread
          None,           \* nobody, or no endpoint
          Builds,         \* builds of ZooKeeperClient: "zk", "stub"
          MaxLosses       \* ZooKeeper calls that may fail (connection loss)

ASSUME RegistryAssumption ==
    /\ Builds \subseteq {"zk", "stub"} /\ MaxLosses \in Nat
    /\ EventThread \notin Endpoints \cup Discovers
    /\ Endpoints \cap Discovers = {} /\ None \notin Endpoints
    /\ IsFiniteSet(Discovers)

Threads == Endpoints \cup Discovers \cup {EventThread}

VARIABLES build,      \* WITH_ZOOKEEPER defined or not; never changes
          service,    \* the znode /rpc/<service> exists
          kids,       \* its children
          watches,    \* watchers armed on its child list
          events,     \* fired watchers not yet run by the event thread
          stub_mu,    \* thread inside stub_->mu between two steps, or None
          cache,      \* cache_[service_name]; {} also stands for no entry
          pc,         \* where each thread is
          seen,       \* refresh()'s local endpoint list
          picked,     \* what discover() returned
          losses,     \* failed ZooKeeper calls so far
          aborted,    \* an exception left the event thread: std::terminate
          overlap     \* two refreshes have read and stored in overlap

zkVars == <<build, service, kids, watches, events>>
vars == <<zkVars, stub_mu, cache, pc, seen, picked, losses, aborted, overlap>>

Goto(t, label) == pc' = [pc EXCEPT ![t] = label]

(* Every stub operation starts with lock_guard lk(stub_->mu).  The mutex   *)
(* is not recursive: a thread that already holds it waits for itself.      *)
StubFree == build = "zk" \/ stub_mu = None

(***************************************************************************)
(* register_service(): create(service_path), result ignored, then          *)
(* create_ephemeral(node_path).                                            *)
(***************************************************************************)
CreateService(e) ==
    /\ pc[e] = "idle" /\ StubFree
    /\ service' = TRUE
    /\ Goto(e, "node")
    /\ UNCHANGED <<build, kids, watches, events, stub_mu, cache, seen, picked,
                   losses, aborted, overlap>>

CreateServiceLost(e) ==
    /\ pc[e] = "idle" /\ build = "zk" /\ losses < MaxLosses
    /\ losses' = losses + 1
    /\ Goto(e, "node")
    /\ UNCHANGED <<zkVars, stub_mu, cache, seen, picked, aborted, overlap>>

(* A change of the child list fires every armed one-shot watch.            *)
Fire == events' = events + watches /\ watches' = 0

(* The ensemble refuses a child of a missing parent (ZNONODE).             *)
CreateNodeZk(e) ==
    /\ pc[e] = "node" /\ build = "zk"
    /\ IF service THEN kids' = kids \cup {e} /\ Fire
                  ELSE UNCHANGED <<kids, watches, events>>
    /\ Goto(e, IF service THEN "registered" ELSE "refused")
    /\ UNCHANGED <<build, service, stub_mu, cache, seen, picked, losses, aborted,
                   overlap>>

(* The stub calls the watcher, that is refresh(), before lk is released.   *)
CreateNodeStub(e) ==
    /\ pc[e] = "node" /\ build = "stub" /\ stub_mu = None
    /\ kids' = kids \cup {e}
    /\ IF watches > 0 THEN stub_mu' = e /\ Goto(e, "watch")
                      ELSE stub_mu' = None /\ Goto(e, "registered")
    /\ UNCHANGED <<build, service, watches, events, cache, seen, picked, losses,
                   aborted, overlap>>

CreateNodeLost(e) ==
    /\ pc[e] = "node" /\ build = "zk" /\ losses < MaxLosses
    /\ losses' = losses + 1
    /\ Goto(e, "refused")
    /\ UNCHANGED <<zkVars, stub_mu, cache, seen, picked, aborted, overlap>>

(* unregister_service(), or the end of the provider's session; the stub's  *)
(* remove() calls no watcher.                                              *)
Remove(e) ==
    /\ pc[e] = "registered" /\ StubFree
    /\ kids' = kids \ {e}
    /\ IF build = "zk" THEN Fire ELSE UNCHANGED <<watches, events>>
    /\ Goto(e, "gone")
    /\ UNCHANGED <<build, service, stub_mu, cache, seen, picked, losses, aborted,
                   overlap>>

(***************************************************************************)
(* discover(): a cached non-empty list is used as it is, otherwise         *)
(* refresh() runs on this thread and the cache is read again.  Any of the  *)
(* balancers' choices is possible.                                         *)
(***************************************************************************)
DiscoverCached(d) ==
    /\ pc[d] = "idle" /\ cache # {}
    /\ \E e \in cache : picked' = [picked EXCEPT ![d] = e]
    /\ Goto(d, "returned")
    /\ UNCHANGED <<zkVars, stub_mu, cache, seen, losses, aborted, overlap>>

DiscoverMiss(d) ==
    /\ pc[d] = "idle" /\ cache = {}
    /\ Goto(d, "watch")
    /\ UNCHANGED <<zkVars, stub_mu, cache, seen, picked, losses, aborted,
                   overlap>>

(* Mutant of Select: refreshes again instead of throwing.                  *)
SelectRetries(d) ==
    /\ pc[d] = "select"
    /\ IF cache = {} THEN Goto(d, "watch") /\ UNCHANGED picked
                     ELSE /\ Goto(d, "returned")
                          /\ \E e \in cache : picked' = [picked EXCEPT ![d] = e]
    /\ UNCHANGED <<zkVars, stub_mu, cache, seen, losses, aborted, overlap>>

(* select() throws std::runtime_error on an empty list.                    *)
Select(d) ==
    /\ pc[d] = "select"
    /\ IF cache = {} THEN Goto(d, "thrown") /\ UNCHANGED picked
                     ELSE /\ Goto(d, "returned")
                          /\ \E e \in cache : picked' = [picked EXCEPT ![d] = e]
    /\ UNCHANGED <<zkVars, stub_mu, cache, seen, losses, aborted, overlap>>

(***************************************************************************)
(* refresh(): arm the watch, list the children, get every weight, store.   *)
(***************************************************************************)
Refreshing == {t \in Threads : pc[t] \in {"watch", "children", "weights", "store"}}

(* Mutant of Armed: get_children() arms a watch as well.                   *)
ArmedByListToo(t) == watches + 2

(* How many watchers are armed after t's watch_children().  Each call adds *)
(* one to the ensemble's, if the znode exists; the stub keeps one per path.*)
Armed(t) ==
    CASE build = "stub" -> 1
      [] build = "zk" /\ service -> watches + 1
      [] OTHER -> watches

RefreshWatch(t) ==
    /\ pc[t] = "watch" /\ StubFree
    /\ watches' = Armed(t)
    /\ Goto(t, "children")
    /\ UNCHANGED <<build, service, kids, events, stub_mu, cache, seen, picked,
                   losses, aborted, overlap>>

RefreshWatchLost(t) ==
    /\ pc[t] = "watch" /\ build = "zk" /\ losses < MaxLosses
    /\ losses' = losses + 1
    /\ Goto(t, "children")
    /\ UNCHANGED <<zkVars, stub_mu, cache, seen, picked, aborted, overlap>>

(* Another refresh has listed the children and not stored them yet.        *)
Overlaps(t) == \E u \in Threads \ {t} : pc[u] \in {"weights", "store"}

RefreshChildren(t) ==
    /\ pc[t] = "children" /\ StubFree
    /\ seen' = [seen EXCEPT ![t] = kids]
    /\ overlap' = (overlap \/ Overlaps(t))
    /\ Goto(t, "weights")
    /\ UNCHANGED <<zkVars, stub_mu, cache, picked, losses, aborted>>

(* A failed zoo_get_children leaves the String_vector empty.               *)
RefreshChildrenLost(t) ==
    /\ pc[t] = "children" /\ build = "zk" /\ losses < MaxLosses
    /\ losses' = losses + 1
    /\ seen' = [seen EXCEPT ![t] = {}]
    /\ overlap' = (overlap \/ Overlaps(t))
    /\ Goto(t, "weights")
    /\ UNCHANGED <<zkVars, stub_mu, cache, picked, aborted>>

(* The weight only matters to a balancer: any value goes on to "store".    *)
RefreshWeights(t) ==
    /\ pc[t] = "weights" /\ StubFree
    /\ Goto(t, "store")
    /\ UNCHANGED <<zkVars, stub_mu, cache, seen, picked, losses, aborted,
                   overlap>>

(* get() of a child that has gone returns 512 uninitialised bytes, which   *)
(* std::stoi may reject: out of discover(), or out of the event thread.    *)
RefreshGarbage(t) ==
    /\ pc[t] = "weights" /\ build = "zk"
    /\ ~ seen[t] \subseteq kids
    /\ Goto(t, "thrown")
    /\ aborted' = (aborted \/ t = EventThread)
    /\ UNCHANGED <<zkVars, stub_mu, cache, seen, picked, losses, overlap>>

(* Where refresh() returns to: discover(), the event loop of the client,   *)
(* or the create() that called the watcher.                                *)
Caller(t) == IF t \in Discovers THEN "select"
             ELSE IF t = EventThread THEN "idle" ELSE "registered"

(* Mutant of RefreshStore: adds to the cached list, never clears it.       *)
RefreshStoreMerges(t) ==
    /\ pc[t] = "store"
    /\ cache' = cache \cup seen[t]
    /\ seen' = [seen EXCEPT ![t] = {}]
    /\ stub_mu' = IF stub_mu = t THEN None ELSE stub_mu
    /\ Goto(t, Caller(t))
    /\ UNCHANGED <<zkVars, picked, losses, aborted, overlap>>

RefreshStore(t) ==
    /\ pc[t] = "store"
    /\ cache' = seen[t]
    /\ seen' = [seen EXCEPT ![t] = {}]
    /\ stub_mu' = IF stub_mu = t THEN None ELSE stub_mu
    /\ Goto(t, Caller(t))
    /\ UNCHANGED <<zkVars, picked, losses, aborted, overlap>>

(* Mutant of DeliverEvent: runs without an event.                          *)
DeliverEventEager ==
    /\ pc[EventThread] = "idle" /\ build = "zk"
    /\ events' = events - 1
    /\ Goto(EventThread, "watch")
    /\ UNCHANGED <<build, service, kids, watches, stub_mu, cache, seen, picked,
                   losses, aborted, overlap>>

(* zk_watcher() on the client's event thread: one callback at a time.      *)
DeliverEvent ==
    /\ pc[EventThread] = "idle" /\ events > 0
    /\ events' = events - 1
    /\ Goto(EventThread, "watch")
    /\ UNCHANGED <<build, service, kids, watches, stub_mu, cache, seen, picked,
                   losses, aborted, overlap>>

-----------------------------------------------------------------------------
Init ==
    /\ build \in Builds
    /\ service \in IF build = "zk" THEN BOOLEAN ELSE {FALSE}
    /\ kids = {} /\ cache = {}
    /\ watches = 0 /\ events = 0 /\ losses = 0
    /\ stub_mu = None
    /\ pc = [t \in Threads |-> "idle"]
    /\ seen = [t \in Threads |-> {}]
    /\ picked = [d \in Discovers |-> None]
    /\ aborted = FALSE /\ overlap = FALSE

RefreshStep(t) ==
    \/ RefreshWatch(t) \/ RefreshWatchLost(t)
    \/ RefreshChildren(t) \/ RefreshChildrenLost(t)
    \/ RefreshWeights(t) \/ RefreshGarbage(t) \/ RefreshStore(t)

RegisterStep(e) ==
    \/ CreateService(e) \/ CreateServiceLost(e)
    \/ CreateNodeZk(e) \/ CreateNodeStub(e) \/ CreateNodeLost(e)

DiscoverStep(d) == DiscoverCached(d) \/ DiscoverMiss(d) \/ Select(d)

Next ==
    /\ ~ aborted
    /\ \/ \E e \in Endpoints : RegisterStep(e) \/ Remove(e)
       \/ \E d \in Discovers : DiscoverStep(d)
       \/ \E t \in Threads : RefreshStep(t)
       \/ DeliverEvent

Spec == Init /\ [][Next]_vars

(* Threads inside a call keep running and the event thread keeps serving;  *)
(* nobody has to call register, unregister or discover.                    *)
FairSpec ==
    /\ Spec
    /\ \A t \in Threads : WF_vars(~ aborted /\ RefreshStep(t))
    /\ \A e \in Endpoints : WF_vars(~ aborted /\ pc[e] = "node" /\ RegisterStep(e))
    /\ \A d \in Discovers : WF_vars(~ aborted /\ Select(d))
    /\ WF_vars(~ aborted /\ DeliverEvent)

-----------------------------------------------------------------------------
(* The variables keep their types.                                         *)
TypeOK ==
    /\ service \in BOOLEAN /\ aborted \in BOOLEAN /\ overlap \in BOOLEAN
    /\ kids \subseteq Endpoints /\ cache \subseteq Endpoints
    /\ watches \in Nat /\ events \in Nat /\ losses \in 0 .. MaxLosses
    /\ build \in Builds
    /\ stub_mu \in Endpoints \cup {None}
    /\ pc \in [Threads -> {"idle", "node", "registered", "refused", "gone",
                           "watch", "children", "weights", "store", "select",
                           "returned", "thrown"}]
    /\ seen \in [Threads -> SUBSET Endpoints]
    /\ picked \in [Discovers -> Endpoints \cup {None}]

(* With ZooKeeper, refresh() arms the watch before it lists the children,  *)
(* so no change falls between the two: while a watch is armed and no       *)
(* refresh is between listing and storing, a cache that is in use is the   *)
(* child list, provided no two refreshes have overlapped.                  *)
FreshWhileWatched ==
    (/\ build = "zk" /\ ~ overlap
     /\ \A t \in Threads : pc[t] \notin {"children", "weights", "store"}
     /\ cache # {} /\ watches > 0) => cache = kids

(* A watch event starts one refresh(), which arms one watch again: events  *)
(* never multiply watchers, whose number stays within the discover() calls *)
(* that missed the cache (each leaves one WatchCallback behind for good).  *)
WatchesBounded ==
    watches + events + (IF pc[EventThread] = "watch" THEN 1 ELSE 0)
        <= Cardinality({d \in Discovers : pc[d] \notin {"idle", "watch"}})

(* Whose refresh() runs where: a create() is inside the watcher only on    *)
(* the stub, where it waits for the mutex it holds, and the stub has no    *)
(* events for the event thread.                                            *)
CallbackInv ==
    /\ \A e \in Endpoints :
           e \in Refreshing => pc[e] = "watch" /\ build = "stub" /\ stub_mu = e
    /\ build = "stub" => events = 0 /\ pc[EventThread] = "idle"

(* What a list read from the ensemble is worth: as long as no refresh has  *)
(* overlapped another, there is one list on its way to the cache at most,  *)
(* and while a watch is armed and nobody is about to list the children,    *)
(* that list, or the cache when there is none, is empty or the child list. *)
Current(list) == list = {} \/ list = kids

ListInv ==
    (build = "zk" /\ ~ overlap) =>
        /\ \A t \in Threads : pc[t] \in {"weights", "store"} => ~ Overlaps(t)
        /\ \/ watches = 0
           \/ \E t \in Threads : pc[t] = "children"
           \/ \E t \in Threads : pc[t] \in {"weights", "store"} /\ Current(seen[t])
           \/ /\ \A t \in Threads : pc[t] \notin {"weights", "store"}
              /\ Current(cache)

(* The inductive invariant behind the two properties above.                *)
RegistryInv == TypeOK /\ CallbackInv /\ WatchesBounded /\ ListInv

InCall(t) == pc[t] \in {"node", "watch", "children", "weights", "store", "select"}

(* Every discover() and register_service() that has started comes to an    *)
(* end, and so do the event thread's refreshes, whatever calls fail and    *)
(* whatever the providers do, unless the process aborts or a stub create() *)
(* keeps the stub's mutex.                                                 *)
CallsReturn == <>[](aborted \/ stub_mu # None \/ \A t \in Threads : ~ InCall(t))

(* register_service() returns true or false once it has been called,       *)
(* unless the process aborts meanwhile.                                    *)
RegisterReturns ==
    \A e \in Endpoints :
        (pc[e] = "node") ~> (pc[e] \in {"registered", "refused", "gone"} \/ aborted)

(* A watcher "fires when the child list of path changes": a removed        *)
(* provider eventually leaves the cache that discover() selects from.      *)
RemovalsNoticed == <>[](cache \subseteq kids \/ aborted)

(* discover() "Caches the endpoint list locally and refreshes on ZK        *)
(* watcher events": once the providers stop changing, a cache that is in   *)
(* use is the registered list.                                             *)
CacheFollowsRegistry == <>[](cache # {} /\ ~ aborted => cache = kids)

(* get() "Returns the data stored at path", so that refresh() on the event *)
(* thread never ends the process with an exception.                        *)
EventThreadSurvives == ~ aborted
=============================================================================
