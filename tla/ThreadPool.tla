----------------------------- MODULE ThreadPool -----------------------------
(***************************************************************************)
(* net::ThreadPool (src/net/thread_pool.cpp): worker threads that share a  *)
(* queue, threads that submit tasks to it, and the destructor.             *)
(*                                                                         *)
(* submit() and the workers use mu_; the destructor stores stop_ and       *)
(* notifies without it.  A worker therefore holds mu_ in two steps, the    *)
(* evaluation of the wait predicate and the release of mu_ by cv_.wait(),  *)
(* and the destructor's steps may fall between them.                       *)
(***************************************************************************)
EXTENDS Naturals, Sequences, FiniteSets

CONSTANTS
  Workers,      \* the elements of threads_
  Tasks,        \* tasks, each submitted at most once by a thread of its own
  None,         \* no task, nobody
  MaxSpurious   \* bound: spurious wakeups of cv_.wait()

ASSUME PoolAssumption ==
  /\ IsFiniteSet(Workers) /\ IsFiniteSet(Tasks)
  /\ None \notin Workers \cup Tasks
  /\ MaxSpurious \in Nat

VARIABLES
  tasks,     \* tasks_
  stop,      \* stop_
  mu,        \* the worker that holds mu_ across a step, or None
  pc,        \* where a worker is
  job,       \* the task a worker has taken out of the queue
  runs,      \* how often a task has been run to its end
  sub,       \* where the thread that submits a task is
  dtor,      \* where the destructor is
  spurious   \* spurious wakeups so far

vars == <<tasks, stop, mu, pc, job, runs, sub, dtor, spurious>>

Init ==
  /\ tasks = <<>>
  /\ stop = FALSE
  /\ mu = None
  /\ pc = [w \in Workers |-> "test"]
  /\ job = [w \in Workers |-> None]
  /\ runs = [t \in Tasks |-> 0]
  /\ sub = [t \in Tasks |-> "idle"]
  /\ dtor = "idle"
  /\ spurious = 0

Blocked == {w \in Workers : pc[w] = "blocked"}

-----------------------------------------------------------------------------
\* Mutant of Submit: notifies only if the queue was empty.
SubmitQuiet(t) ==
  /\ sub[t] = "idle"
  /\ dtor # "destroyed"
  /\ mu = None
  /\ IF stop
     THEN sub' = [sub EXCEPT ![t] = "thrown"] /\ UNCHANGED tasks
     ELSE /\ tasks' = Append(tasks, t)
          /\ sub' = [sub EXCEPT ![t] = IF tasks = <<>> THEN "notify" ELSE "done"]
  /\ UNCHANGED <<stop, mu, pc, job, runs, dtor, spurious>>

\* submit(), the critical section: throws on a stopped pool, else pushes.
Submit(t) ==
  /\ sub[t] = "idle"
  /\ dtor # "destroyed"
  /\ mu = None
  /\ IF stop
     THEN sub' = [sub EXCEPT ![t] = "thrown"] /\ UNCHANGED tasks
     ELSE tasks' = Append(tasks, t) /\ sub' = [sub EXCEPT ![t] = "notify"]
  /\ UNCHANGED <<stop, mu, pc, job, runs, dtor, spurious>>

\* cv_.notify_one(): wakes some waiting worker, if there is one.
Notify(t) ==
  /\ sub[t] = "notify"
  /\ sub' = [sub EXCEPT ![t] = "done"]
  /\ \/ Blocked = {} /\ UNCHANGED pc
     \/ \E w \in Blocked : pc' = [pc EXCEPT ![w] = "test"]
  /\ UNCHANGED <<tasks, stop, mu, job, runs, dtor, spurious>>

-----------------------------------------------------------------------------
\* Mutant of WorkerIdle: cv_.wait(lock) without the predicate.
WorkerIdleBlind(w) ==
  /\ pc[w] = "test"
  /\ mu = None
  /\ mu' = w
  /\ pc' = [pc EXCEPT ![w] = "wait"]
  /\ UNCHANGED <<tasks, stop, job, runs, sub, dtor, spurious>>

\* The wait predicate is false: the worker still holds mu_.
WorkerIdle(w) ==
  /\ pc[w] = "test"
  /\ mu = None
  /\ ~stop /\ tasks = <<>>
  /\ mu' = w
  /\ pc' = [pc EXCEPT ![w] = "wait"]
  /\ UNCHANGED <<tasks, stop, job, runs, sub, dtor, spurious>>

\* cv_.wait() puts the worker to sleep and releases mu_ in one step.
WorkerBlock(w) ==
  /\ pc[w] = "wait"
  /\ mu' = None
  /\ pc' = [pc EXCEPT ![w] = "blocked"]
  /\ UNCHANGED <<tasks, stop, job, runs, sub, dtor, spurious>>

\* cv_.wait() may return without a notification.
WorkerSpurious(w) ==
  /\ pc[w] = "blocked"
  /\ spurious < MaxSpurious
  /\ spurious' = spurious + 1
  /\ pc' = [pc EXCEPT ![w] = "test"]
  /\ UNCHANGED <<tasks, stop, mu, job, runs, sub, dtor>>

\* Mutant of CanExit: leaves as soon as the pool is stopped.
ExitEager == stop

\* if (stop_.load() && tasks_.empty()) return
CanExit == stop /\ tasks = <<>>

WorkerExit(w) ==
  /\ pc[w] = "test"
  /\ mu = None
  /\ CanExit
  /\ pc' = [pc EXCEPT ![w] = "exited"]
  /\ UNCHANGED <<tasks, stop, mu, job, runs, sub, dtor, spurious>>

\* Mutant of Pop: front() without pop().
PopForgotten(q) == q

Pop(q) == Tail(q)

\* task = std::move(tasks_.front()); tasks_.pop()
WorkerTake(w) ==
  /\ pc[w] = "test"
  /\ mu = None
  /\ tasks # <<>>
  /\ job' = [job EXCEPT ![w] = Head(tasks)]
  /\ tasks' = Pop(tasks)
  /\ pc' = [pc EXCEPT ![w] = "run"]
  /\ UNCHANGED <<stop, mu, runs, sub, dtor, spurious>>

\* task() returns, the task object is destroyed, the loop starts over.
WorkerFinish(w) ==
  /\ pc[w] = "run"
  /\ runs' = [runs EXCEPT ![job[w]] = @ + 1]
  /\ job' = [job EXCEPT ![w] = None]
  /\ pc' = [pc EXCEPT ![w] = "test"]
  /\ UNCHANGED <<tasks, stop, mu, sub, dtor, spurious>>

WorkerStep(w) ==
  \/ WorkerIdle(w) \/ WorkerBlock(w) \/ WorkerExit(w) \/ WorkerTake(w) \/ WorkerFinish(w)

-----------------------------------------------------------------------------
\* ~ThreadPool: stop_.store(true), cv_.notify_all(), join every thread.
Stop ==
  /\ dtor = "idle"
  /\ stop' = TRUE
  /\ dtor' = "notify"
  /\ UNCHANGED <<tasks, mu, pc, job, runs, sub, spurious>>

NotifyAll ==
  /\ dtor = "notify"
  /\ pc' = [w \in Workers |-> IF w \in Blocked THEN "test" ELSE pc[w]]
  /\ dtor' = "join"
  /\ UNCHANGED <<tasks, stop, mu, job, runs, sub, spurious>>

Join ==
  /\ dtor = "join"
  /\ \A w \in Workers : pc[w] = "exited"
  /\ dtor' = "destroyed"
  /\ UNCHANGED <<tasks, stop, mu, pc, job, runs, sub, spurious>>

Next ==
  \/ \E t \in Tasks : Submit(t) \/ Notify(t)
  \/ \E w \in Workers : WorkerStep(w) \/ WorkerSpurious(w)
  \/ Stop \/ NotifyAll \/ Join

Spec == Init /\ [][Next]_vars

\* Every thread that is inside the pool's code is scheduled and every task
\* ends.  Nobody has to submit a task, to destroy the pool or to be woken
\* for no reason.
Fairness ==
  /\ \A w \in Workers : WF_vars(WorkerStep(w))
  /\ \A t \in Tasks : WF_vars(Notify(t))
  /\ WF_vars(NotifyAll \/ Join)

FairSpec == Spec /\ Fairness

-----------------------------------------------------------------------------
(***************************************************************************)
(* Properties.                                                             *)
(***************************************************************************)
\* The types of the variables.
TypeOK ==
  /\ tasks \in Seq(Tasks)
  /\ stop \in BOOLEAN
  /\ mu \in Workers \cup {None}
  /\ pc \in [Workers -> {"test", "wait", "blocked", "run", "exited"}]
  /\ job \in [Workers -> Tasks \cup {None}]
  /\ runs \in [Tasks -> Nat]
  /\ sub \in [Tasks -> {"idle", "notify", "done", "thrown"}]
  /\ dtor \in {"idle", "notify", "join", "destroyed"}
  /\ spurious \in 0 .. MaxSpurious

Accepted(t) == sub[t] \in {"notify", "done"}
InQueue(t)  == \E n \in DOMAIN tasks : tasks[n] = t
Held(t)     == \E w \in Workers : job[w] = t

\* A task that submit() accepted is in exactly one place: once in the queue,
\* or in the hands of one worker, or run, once.  A task that was not accepted
\* is nowhere.
ExactlyOnce ==
  /\ \A t \in Tasks :
       /\ Accepted(t) <=> InQueue(t) \/ Held(t) \/ runs[t] # 0
       /\ InQueue(t) => ~Held(t) /\ runs[t] = 0
       /\ Held(t) => runs[t] = 0
       /\ runs[t] <= 1
  /\ \A m, n \in DOMAIN tasks : tasks[m] = tasks[n] => m = n
  /\ \A v, w \in Workers : job[v] = job[w] /\ job[v] # None => v = w

\* The notifications under way and the workers on their way to the queue.
Notifying == {t \in Tasks : sub[t] = "notify"}
Awake     == {w \in Workers : pc[w] = "test"}

\* No wakeup of submit() is lost: as long as a worker sleeps in cv_.wait(),
\* every queued task has a notify_one() still to come or an awake worker on
\* its way to it.
NoIdleWhileQueued ==
  Blocked # {} => Len(tasks) <= Cardinality(Notifying) + Cardinality(Awake)

\* mu_ is held by a worker on its way to sleep, and then the queue is empty;
\* a worker has a task exactly while it runs it; workers leave only a stopped
\* and empty pool, and the destructor joins them all.
ControlInv ==
  /\ \A w \in Workers : pc[w] = "wait" => mu = w /\ tasks = <<>>
  /\ \A w \in Workers : pc[w] = "run" <=> job[w] # None
  /\ \A w \in Workers : pc[w] = "exited" => stop /\ tasks = <<>>
  /\ dtor # "idle" => stop
  /\ dtor = "destroyed" => \A w \in Workers : pc[w] = "exited"

\* The inductive invariant: no task and no wakeup is lost, whichever way the
\* submitters, the workers and the destructor interleave.
PoolInv == TypeOK /\ ControlInv /\ ExactlyOnce /\ NoIdleWhileQueued

\* The destructor drops no task: when it has joined the workers, every task
\* that submit() accepted has been run.  (A pool without workers, which the
\* constructor allows, runs nothing.)
DrainedOnDestruction ==
  dtor = "destroyed" /\ Workers # {} => \A t \in Tasks : Accepted(t) => runs[t] = 1

\* A task that submit() accepted is run, also while the pool is destroyed.
TasksRun == \A t \in Tasks : (sub[t] = "notify") ~> (runs[t] = 1)

(***************************************************************************)
(* What the repository says of the pool and the code does not do.          *)
(***************************************************************************)

\* README.md:106, RAII throughout: the destructor of the pool returns.  It
\* does not when notify_all() falls between a worker's look at stop_ and its
\* going to sleep, which the destructor would exclude by holding mu_.
DestructorReturns == (dtor = "notify") ~> (dtor = "destroyed")
=============================================================================
