-------------------------- MODULE ThreadPoolProofs --------------------------
(***************************************************************************)
(* Theorems about the thread pool, for every number of workers and tasks.  *)
(***************************************************************************)
EXTENDS ThreadPool, FiniteSetTheorems, SequenceTheorems, TLAPS

-----------------------------------------------------------------------------
(***************************************************************************)
(* The queue.                                                              *)
(***************************************************************************)

\* What push() does to the queue.
LEMMA PushFacts ==
  ASSUME NEW q \in Seq(Tasks), NEW t \in Tasks
  PROVE  /\ Append(q, t) \in Seq(Tasks) /\ Append(q, t) # <<>>
         /\ Len(q) \in Nat /\ Len(Append(q, t)) = Len(q) + 1
         /\ DOMAIN q = 1 .. Len(q) /\ DOMAIN Append(q, t) = 1 .. Len(q) + 1
         /\ \A n \in 1 .. Len(q) : Append(q, t)[n] = q[n]
         /\ Append(q, t)[Len(q) + 1] = t
BY AppendProperties, LenProperties

\* What front() and pop() do to a queue that is not empty.
LEMMA PopFacts ==
  ASSUME NEW q \in Seq(Tasks), q # <<>>
  PROVE  /\ Pop(q) \in Seq(Tasks) /\ Head(q) \in Tasks /\ Head(q) = q[1]
         /\ Len(q) \in Nat /\ Len(q) >= 1 /\ Len(Pop(q)) = Len(q) - 1
         /\ DOMAIN q = 1 .. Len(q) /\ DOMAIN Pop(q) = 1 .. Len(q) - 1
         /\ \A n \in 1 .. Len(q) - 1 : Pop(q)[n] = q[n + 1]
<1>1. Len(q) \in Nat /\ Len(q) # 0 /\ DOMAIN q = 1 .. Len(q)
  BY LenProperties, EmptySeq
<1>2. /\ Tail(q) \in Seq(Tasks) /\ Head(q) \in Tasks /\ Head(q) = q[1]
      /\ Len(Tail(q)) = Len(q) - 1
      /\ \A n \in 1 .. Len(Tail(q)) : Tail(q)[n] = q[n + 1]
  BY HeadTailProperties, <1>1, ElementOfSeq
<1>3. DOMAIN Tail(q) = 1 .. Len(Tail(q))
  BY <1>2, LenProperties
<1>. QED
  BY <1>1, <1>2, <1>3 DEF Pop

-----------------------------------------------------------------------------
(***************************************************************************)
(* Types and control.                                                      *)
(***************************************************************************)
LEMMA TypeStep ==
  ASSUME TypeOK, ControlInv, [Next]_vars
  PROVE  TypeOK'
<1>. USE PoolAssumption DEF TypeOK
<1>1. CASE UNCHANGED vars
  BY <1>1 DEF vars
<1>2. ASSUME NEW t \in Tasks, Submit(t)
      PROVE  TypeOK'
  <2>1. Append(tasks, t) \in Seq(Tasks)
    BY PushFacts
  <2>. QED
    BY <1>2, <2>1, Zenon DEF Submit
<1>3. ASSUME NEW t \in Tasks, Notify(t)
      PROVE  TypeOK'
  <2>1. pc' \in [Workers -> {"test", "wait", "blocked", "run", "exited"}]
    BY <1>3 DEF Notify
  <2>. QED
    BY <1>3, <2>1 DEF Notify
<1>4. ASSUME NEW w \in Workers, WorkerIdle(w) \/ WorkerBlock(w) \/ WorkerExit(w)
      PROVE  TypeOK'
  BY <1>4, Zenon DEF WorkerIdle, WorkerBlock, WorkerExit
<1>5. ASSUME NEW w \in Workers, WorkerSpurious(w)
      PROVE  TypeOK'
  BY <1>5 DEF WorkerSpurious
<1>6. ASSUME NEW w \in Workers, WorkerTake(w)
      PROVE  TypeOK'
  <2>1. Pop(tasks) \in Seq(Tasks) /\ Head(tasks) \in Tasks
    BY <1>6, PopFacts DEF WorkerTake
  <2>. QED
    BY <1>6, <2>1 DEF WorkerTake
<1>7. ASSUME NEW w \in Workers, WorkerFinish(w)
      PROVE  TypeOK'
  <2>1. job[w] \in Tasks
    BY <1>7 DEF WorkerFinish, ControlInv
  <2>. QED
    BY <1>7, <2>1 DEF WorkerFinish
<1>8. CASE Stop \/ NotifyAll \/ Join
  <2>1. pc' \in [Workers -> {"test", "wait", "blocked", "run", "exited"}]
    BY <1>8 DEF Stop, NotifyAll, Join
  <2>. QED
    BY <1>8, <2>1, Zenon DEF Stop, NotifyAll, Join
<1>. QED
  BY <1>1, <1>2, <1>3, <1>4, <1>5, <1>6, <1>7, <1>8 DEF Next, WorkerStep

\* mu_, the workers' places and the destructor's stay consistent.
LEMMA ControlStep ==
  ASSUME TypeOK, ControlInv, [Next]_vars
  PROVE  ControlInv'
<1>. USE PoolAssumption DEF TypeOK, ControlInv
<1>1. CASE UNCHANGED vars
  BY <1>1 DEF vars
<1>2. ASSUME NEW t \in Tasks, Submit(t)
      PROVE  ControlInv'
  BY <1>2 DEF Submit
<1>3. ASSUME NEW t \in Tasks, Notify(t)
      PROVE  ControlInv'
  BY <1>3 DEF Notify, Blocked
<1>4. ASSUME NEW w \in Workers, WorkerIdle(w) \/ WorkerBlock(w) \/ WorkerExit(w)
      PROVE  ControlInv'
  BY <1>4, ZenonT(40) DEF WorkerIdle, WorkerBlock, WorkerExit, CanExit
<1>5. ASSUME NEW w \in Workers, WorkerSpurious(w)
      PROVE  ControlInv'
  BY <1>5 DEF WorkerSpurious
<1>6. ASSUME NEW w \in Workers, WorkerTake(w)
      PROVE  ControlInv'
  <2>1. Head(tasks) # None
    BY <1>6, PopFacts DEF WorkerTake
  <2>2. \A v \in Workers : pc[v] # "wait" /\ pc[v] # "exited"
    BY <1>6 DEF WorkerTake
  <2>. QED
    BY <1>6, <2>1, <2>2 DEF WorkerTake
<1>7. ASSUME NEW w \in Workers, WorkerFinish(w)
      PROVE  ControlInv'
  BY <1>7 DEF WorkerFinish
<1>8. CASE Stop \/ NotifyAll \/ Join
  BY <1>8 DEF Stop, NotifyAll, Join, Blocked
<1>. QED
  BY <1>1, <1>2, <1>3, <1>4, <1>5, <1>6, <1>7, <1>8, Zenon DEF Next, WorkerStep

-----------------------------------------------------------------------------
(***************************************************************************)
(* Every task is in one place.                                             *)
(***************************************************************************)

\* A step that moves no task.
LEMMA OnceUnchanged ==
  ASSUME TypeOK, ExactlyOnce, tasks' = tasks, job' = job, runs' = runs,
         \A t \in Tasks : Accepted(t)' <=> Accepted(t)
  PROVE  ExactlyOnce'
BY DEF ExactlyOnce, InQueue, Held

\* submit() puts the task into one place, or nowhere when it throws.
LEMMA SubmitOnce ==
  ASSUME TypeOK, ExactlyOnce, NEW t \in Tasks, Submit(t)
  PROVE  ExactlyOnce'
<1>. USE PoolAssumption
<1>0. job' = job /\ runs' = runs /\ sub[t] = "idle"
  BY DEF Submit
<1>1. CASE stop
  <2>1. tasks' = tasks /\ sub' = [sub EXCEPT ![t] = "thrown"]
    BY <1>1 DEF Submit
  <2>2. \A u \in Tasks : Accepted(u)' <=> Accepted(u)
    BY <1>0, <2>1 DEF Accepted, TypeOK
  <2>. QED
    BY <1>0, <2>1, <2>2, OnceUnchanged
<1>2. CASE ~stop
  <2>1. tasks' = Append(tasks, t) /\ sub' = [sub EXCEPT ![t] = "notify"]
    BY <1>2 DEF Submit
  <2>2. \A u \in Tasks : Accepted(u)' <=> Accepted(u) \/ u = t
    BY <2>1 DEF Accepted, TypeOK
  <2>3. ~Accepted(t) /\ ~InQueue(t) /\ ~Held(t) /\ runs[t] = 0
    <3>1. ~Accepted(t)
      BY <1>0 DEF Accepted
    <3>. QED
      BY <3>1 DEF ExactlyOnce
  <2>4. /\ Len(tasks) \in Nat
        /\ DOMAIN tasks = 1 .. Len(tasks) /\ DOMAIN tasks' = 1 .. Len(tasks) + 1
        /\ \A n \in 1 .. Len(tasks) : tasks'[n] = tasks[n]
        /\ tasks'[Len(tasks) + 1] = t
    BY <2>1, PushFacts DEF TypeOK
  <2>5. \A n \in DOMAIN tasks' : n \in DOMAIN tasks \/ n = Len(tasks) + 1
    BY <2>4
  <2>6. \A u \in Tasks : InQueue(u)' <=> InQueue(u) \/ u = t
    BY <2>4, <2>5 DEF InQueue
  <2>7. \A u \in Tasks : Held(u)' <=> Held(u)
    BY <1>0 DEF Held
  <2>8. \A m, n \in DOMAIN tasks' : tasks'[m] = tasks'[n] => m = n
    <3>1. \A n \in DOMAIN tasks : tasks[n] # t
      BY <2>3 DEF InQueue
    <3>. QED
      BY <2>4, <2>5, <3>1 DEF ExactlyOnce
  <2>9. ASSUME NEW u \in Tasks
        PROVE  /\ Accepted(u)' <=> InQueue(u)' \/ Held(u)' \/ runs'[u] # 0
               /\ InQueue(u)' => ~Held(u)' /\ runs'[u] = 0
               /\ Held(u)' => runs'[u] = 0
               /\ runs'[u] <= 1
    BY <1>0, <2>2, <2>3, <2>6, <2>7, Zenon DEF ExactlyOnce
  <2>. QED
    BY <1>0, <2>8, <2>9 DEF ExactlyOnce
<1>. QED
  BY <1>1, <1>2

\* A worker moves the front task out of the queue into its own hands.
LEMMA TakeOnce ==
  ASSUME TypeOK, ControlInv, ExactlyOnce, NEW w \in Workers, WorkerTake(w)
  PROVE  ExactlyOnce'
<1>. USE PoolAssumption
<1>. DEFINE t == Head(tasks)
<1>0. /\ tasks' = Pop(tasks) /\ runs' = runs /\ sub' = sub /\ tasks # <<>>
      /\ job' = [job EXCEPT ![w] = t] /\ job[w] = None
  BY DEF WorkerTake, ControlInv
<1>1. /\ t \in Tasks /\ t = tasks[1] /\ Len(tasks) \in Nat /\ Len(tasks) >= 1
      /\ DOMAIN tasks = 1 .. Len(tasks) /\ DOMAIN tasks' = 1 .. Len(tasks) - 1
      /\ \A n \in 1 .. Len(tasks) - 1 : tasks'[n] = tasks[n + 1]
  BY <1>0, PopFacts, Zenon DEF TypeOK
<1>2. \A n \in DOMAIN tasks' : n + 1 \in DOMAIN tasks /\ n + 1 # 1
  BY <1>1
<1>3. \A m \in DOMAIN tasks : m # 1 => m - 1 \in DOMAIN tasks' /\ tasks'[m - 1] = tasks[m]
  BY <1>1
<1>4. 1 \in DOMAIN tasks
  BY <1>1
<1>5. \A u \in Tasks : InQueue(u)' <=> InQueue(u) /\ u # t
  <2>1. ASSUME NEW u \in Tasks, InQueue(u)'
        PROVE  InQueue(u) /\ u # t
    <3>1. PICK n \in DOMAIN tasks' : tasks'[n] = u
      BY <2>1 DEF InQueue
    <3>2. n + 1 \in DOMAIN tasks /\ tasks[n + 1] = u /\ n + 1 # 1
      BY <1>1, <1>2, <3>1
    <3>. QED
      BY <1>1, <1>4, <3>2 DEF InQueue, ExactlyOnce
  <2>2. ASSUME NEW u \in Tasks, InQueue(u), u # t
        PROVE  InQueue(u)'
    <3>1. PICK m \in DOMAIN tasks : tasks[m] = u
      BY <2>2 DEF InQueue
    <3>2. m # 1
      BY <1>1, <2>2, <3>1
    <3>. QED
      BY <1>3, <3>1, <3>2 DEF InQueue
  <2>. QED
    BY <2>1, <2>2
<1>6. \A v \in Workers : job'[v] = IF v = w THEN t ELSE job[v]
  BY <1>0 DEF TypeOK
<1>7. \A u \in Tasks : Held(u)' <=> Held(u) \/ u = t
  BY <1>0, <1>6 DEF Held
<1>8. InQueue(t)
  BY <1>1, <1>4 DEF InQueue
<1>9. ~Held(t) /\ runs[t] = 0
  BY <1>1, <1>8 DEF ExactlyOnce
<1>10. \A u \in Tasks : Accepted(u)' <=> Accepted(u)
  BY <1>0 DEF Accepted
<1>11. ASSUME NEW u \in Tasks
       PROVE  /\ Accepted(u)' <=> InQueue(u)' \/ Held(u)' \/ runs'[u] # 0
              /\ InQueue(u)' => ~Held(u)' /\ runs'[u] = 0
              /\ Held(u)' => runs'[u] = 0
              /\ runs'[u] <= 1
  BY <1>0, <1>5, <1>7, <1>8, <1>9, <1>10 DEF ExactlyOnce
<1>12. \A m, n \in DOMAIN tasks' : tasks'[m] = tasks'[n] => m = n
  <2>1. ASSUME NEW m \in DOMAIN tasks', NEW n \in DOMAIN tasks', tasks'[m] = tasks'[n]
        PROVE  m = n
    <3>1. tasks[m + 1] = tasks[n + 1] /\ m \in Nat /\ n \in Nat
      BY <1>1, <2>1
    <3>2. m + 1 = n + 1
      BY <1>2, <3>1 DEF ExactlyOnce
    <3>. QED
      BY <3>1, <3>2
  <2>. QED
    BY <2>1
<1>13. \A v, x \in Workers : job'[v] = job'[x] /\ job'[v] # None => v = x
  <2>1. \A v \in Workers : job[v] # t
    BY <1>9, Zenon DEF Held
  <2>. QED
    BY <1>6, <2>1 DEF ExactlyOnce
<1>. QED
  BY <1>11, <1>12, <1>13 DEF ExactlyOnce

\* A worker that returns from task() has run it for the first time.
LEMMA FinishOnce ==
  ASSUME TypeOK, ControlInv, ExactlyOnce, NEW w \in Workers, WorkerFinish(w)
  PROVE  ExactlyOnce'
<1>. USE PoolAssumption
<1>. DEFINE t == job[w]
<1>0. /\ tasks' = tasks /\ sub' = sub /\ pc[w] = "run"
      /\ runs' = [runs EXCEPT ![t] = @ + 1] /\ job' = [job EXCEPT ![w] = None]
  BY DEF WorkerFinish
<1>1. t \in Tasks
  BY <1>0 DEF ControlInv, TypeOK
<1>2. Held(t) /\ runs[t] = 0 /\ ~InQueue(t)
  BY <1>1 DEF Held, ExactlyOnce
<1>3. \A u \in Tasks : runs'[u] = IF u = t THEN 1 ELSE runs[u]
  BY <1>0, <1>1, <1>2 DEF TypeOK
<1>4. \A v \in Workers : job'[v] = IF v = w THEN None ELSE job[v]
  BY <1>0 DEF TypeOK
<1>5. \A v \in Workers : job[v] = t => v = w
  BY <1>1 DEF ExactlyOnce
<1>6. \A u \in Tasks : Held(u)' <=> Held(u) /\ u # t
  BY <1>1, <1>4, <1>5 DEF Held
<1>7. \A u \in Tasks : (InQueue(u)' <=> InQueue(u)) /\ (Accepted(u)' <=> Accepted(u))
  BY <1>0 DEF InQueue, Accepted
<1>8. ASSUME NEW u \in Tasks
      PROVE  /\ Accepted(u)' <=> InQueue(u)' \/ Held(u)' \/ runs'[u] # 0
             /\ InQueue(u)' => ~Held(u)' /\ runs'[u] = 0
             /\ Held(u)' => runs'[u] = 0
             /\ runs'[u] <= 1
  BY <1>2, <1>3, <1>6, <1>7 DEF ExactlyOnce
<1>. QED
  BY <1>0, <1>4, <1>8 DEF ExactlyOnce

\* No step of the pool duplicates or loses a task.
LEMMA OnceStep ==
  ASSUME TypeOK, ControlInv, ExactlyOnce, [Next]_vars
  PROVE  ExactlyOnce'
<1>1. ASSUME tasks' = tasks, job' = job, runs' = runs, sub' = sub
      PROVE  ExactlyOnce'
  BY <1>1, OnceUnchanged DEF Accepted
<1>2. CASE UNCHANGED vars
  BY <1>1, <1>2 DEF vars
<1>3. ASSUME NEW t \in Tasks, Notify(t)
      PROVE  ExactlyOnce'
  <2>1. \A u \in Tasks : Accepted(u)' <=> Accepted(u)
    BY <1>3 DEF Notify, Accepted, TypeOK
  <2>. QED
    BY <1>3, <2>1, OnceUnchanged DEF Notify
<1>4. ASSUME NEW w \in Workers,
             WorkerIdle(w) \/ WorkerBlock(w) \/ WorkerExit(w) \/ WorkerSpurious(w)
      PROVE  ExactlyOnce'
  BY <1>1, <1>4 DEF WorkerIdle, WorkerBlock, WorkerExit, WorkerSpurious
<1>5. CASE Stop \/ NotifyAll \/ Join
  BY <1>1, <1>5 DEF Stop, NotifyAll, Join
<1>. QED
  BY <1>2, <1>3, <1>4, <1>5, SubmitOnce, TakeOnce, FinishOnce DEF Next, WorkerStep

-----------------------------------------------------------------------------
(***************************************************************************)
(* No wakeup is lost.                                                      *)
(***************************************************************************)

\* The sets that NoIdleWhileQueued counts are finite.
LEMMA CountsFinite ==
  /\ IsFiniteSet(Notifying) /\ Cardinality(Notifying) \in Nat
  /\ IsFiniteSet(Awake) /\ Cardinality(Awake) \in Nat
<1>1. IsFiniteSet(Notifying) /\ IsFiniteSet(Awake)
  BY PoolAssumption, FS_Subset DEF Notifying, Awake
<1>. QED
  BY <1>1, FS_CardinalityType

\* And so they are after a step.
LEMMA CountsFiniteAfter ==
  /\ IsFiniteSet(Notifying') /\ Cardinality(Notifying') \in Nat
  /\ IsFiniteSet(Awake') /\ Cardinality(Awake') \in Nat
<1>1. IsFiniteSet(Notifying') /\ IsFiniteSet(Awake')
  BY PoolAssumption, FS_Subset DEF Notifying, Awake
<1>. QED
  BY <1>1, FS_CardinalityType

\* A step that queues nothing and takes no notifier or awake worker away.
LEMMA NoIdleMore ==
  ASSUME TypeOK, NoIdleWhileQueued, tasks' = tasks, sub' = sub,
         Blocked' \subseteq Blocked, Awake \subseteq Awake'
  PROVE  NoIdleWhileQueued'
<1>1. Notifying' = Notifying
  BY DEF Notifying
<1>2. Cardinality(Awake) <= Cardinality(Awake')
  BY CountsFiniteAfter, FS_Subset
<1>3. Len(tasks) \in Nat
  BY LenProperties DEF TypeOK
<1>. QED
  BY <1>1, <1>2, <1>3, CountsFinite, CountsFiniteAfter DEF NoIdleWhileQueued

\* A step that leaves the queue empty.
LEMMA NoIdleEmpty ==
  ASSUME tasks' = <<>>
  PROVE  NoIdleWhileQueued'
<1>1. Len(tasks') = 0
  BY EmptySeq
<1>. QED
  BY <1>1, CountsFiniteAfter DEF NoIdleWhileQueued

\* No step of the pool loses a wakeup: a push owes a notify_one(), and a
\* worker that takes a task or goes to sleep leaves none behind.
LEMMA NoIdleStep ==
  ASSUME TypeOK, ControlInv, NoIdleWhileQueued, [Next]_vars
  PROVE  NoIdleWhileQueued'
<1>. USE PoolAssumption, CountsFinite, CountsFiniteAfter
<1>0. Len(tasks) \in Nat
  BY LenProperties DEF TypeOK
<1>1. CASE UNCHANGED vars
  BY <1>1, NoIdleMore DEF vars, Blocked, Awake
<1>2. ASSUME NEW t \in Tasks, Submit(t)
      PROVE  NoIdleWhileQueued'
  <2>0. Blocked' = Blocked /\ Awake' = Awake
    BY <1>2 DEF Submit, Blocked, Awake
  <2>1. CASE stop
    <3>1. tasks' = tasks /\ sub' = [sub EXCEPT ![t] = "thrown"] /\ sub[t] = "idle"
      BY <1>2, <2>1 DEF Submit
    <3>2. Notifying' = Notifying
      BY <3>1 DEF Notifying, TypeOK
    <3>. QED
      BY <2>0, <3>1, <3>2 DEF NoIdleWhileQueued
  <2>2. CASE ~stop
    <3>1. tasks' = Append(tasks, t) /\ sub' = [sub EXCEPT ![t] = "notify"] /\ sub[t] = "idle"
      BY <1>2, <2>2 DEF Submit
    <3>2. Notifying' = Notifying \cup {t} /\ t \notin Notifying
      BY <3>1 DEF Notifying, TypeOK
    <3>3. Cardinality(Notifying') = Cardinality(Notifying) + 1
      BY <3>2, FS_AddElement
    <3>4. Len(tasks') = Len(tasks) + 1
      BY <3>1, PushFacts DEF TypeOK
    <3>. QED
      BY <1>0, <2>0, <3>3, <3>4 DEF NoIdleWhileQueued
  <2>. QED
    BY <2>1, <2>2
<1>3. ASSUME NEW t \in Tasks, Notify(t)
      PROVE  NoIdleWhileQueued'
  <2>1. CASE Blocked = {} /\ UNCHANGED pc
    <3>1. Blocked' = {}
      BY <2>1 DEF Blocked
    <3>. QED
      BY <3>1 DEF NoIdleWhileQueued
  <2>2. ASSUME NEW w \in Blocked, pc' = [pc EXCEPT ![w] = "test"]
        PROVE  NoIdleWhileQueued'
    <3>1. tasks' = tasks /\ sub' = [sub EXCEPT ![t] = "done"] /\ sub[t] = "notify"
      BY <1>3 DEF Notify
    <3>2. Notifying' = Notifying \ {t} /\ t \in Notifying
      BY <3>1 DEF Notifying, TypeOK
    <3>3. Awake' = Awake \cup {w} /\ w \notin Awake
      BY <2>2 DEF Awake, Blocked, TypeOK
    <3>4. Cardinality(Notifying') = Cardinality(Notifying) - 1
      BY <3>2, FS_RemoveElement
    <3>5. Cardinality(Awake') = Cardinality(Awake) + 1
      BY <3>3, FS_AddElement
    <3>. QED
      BY <1>0, <2>2, <3>1, <3>4, <3>5 DEF NoIdleWhileQueued
  <2>. QED
    BY <1>3, <2>1, <2>2 DEF Notify
<1>4. ASSUME NEW w \in Workers, WorkerIdle(w) \/ WorkerBlock(w) \/ WorkerExit(w)
      PROVE  NoIdleWhileQueued'
  <2>1. tasks' = <<>>
    BY <1>4 DEF WorkerIdle, WorkerBlock, WorkerExit, CanExit, ControlInv
  <2>. QED
    BY <2>1, NoIdleEmpty
<1>5. ASSUME NEW w \in Workers, WorkerSpurious(w) \/ WorkerFinish(w)
      PROVE  NoIdleWhileQueued'
  <2>1. tasks' = tasks /\ sub' = sub /\ pc' = [pc EXCEPT ![w] = "test"]
    BY <1>5 DEF WorkerSpurious, WorkerFinish
  <2>2. Blocked' \subseteq Blocked /\ Awake \subseteq Awake'
    BY <2>1 DEF Blocked, Awake, TypeOK
  <2>. QED
    BY <2>1, <2>2, NoIdleMore
<1>6. ASSUME NEW w \in Workers, WorkerTake(w)
      PROVE  NoIdleWhileQueued'
  <2>1. /\ tasks' = Pop(tasks) /\ tasks # <<>> /\ sub' = sub /\ pc[w] = "test"
        /\ pc' = [pc EXCEPT ![w] = "run"]
    BY <1>6 DEF WorkerTake
  <2>2. Len(tasks') = Len(tasks) - 1
    BY <2>1, PopFacts DEF TypeOK
  <2>3. Awake' = Awake \ {w} /\ w \in Awake /\ Blocked' = Blocked /\ Notifying' = Notifying
    BY <2>1 DEF Awake, Blocked, Notifying, TypeOK
  <2>4. Cardinality(Awake') = Cardinality(Awake) - 1
    BY <2>3, FS_RemoveElement
  <2>. QED
    BY <1>0, <2>2, <2>3, <2>4 DEF NoIdleWhileQueued
<1>7. CASE Stop \/ Join
  BY <1>7, NoIdleMore DEF Stop, Join, Blocked, Awake
<1>8. CASE NotifyAll
  <2>1. Blocked' = {}
    BY <1>8 DEF NotifyAll, Blocked, TypeOK
  <2>. QED
    BY <2>1 DEF NoIdleWhileQueued
<1>. QED
  BY <1>1, <1>2, <1>3, <1>4, <1>5, <1>6, <1>7, <1>8, Zenon DEF Next, WorkerStep

-----------------------------------------------------------------------------
(***************************************************************************)
(* The theorems.                                                           *)
(***************************************************************************)
LEMMA PoolInvInit == Init => PoolInv
<1>. SUFFICES ASSUME Init
              PROVE  PoolInv
  OBVIOUS
<1>. USE PoolAssumption DEF Init
<1>1. tasks \in Seq(Tasks) /\ Len(tasks) = 0 /\ DOMAIN tasks = {}
  BY EmptySeq
<1>2. TypeOK
  <2>1. runs \in [Tasks -> Nat] /\ spurious \in 0 .. MaxSpurious
    OBVIOUS
  <2>2. /\ pc \in [Workers -> {"test", "wait", "blocked", "run", "exited"}]
        /\ job \in [Workers -> Tasks \cup {None}]
        /\ sub \in [Tasks -> {"idle", "notify", "done", "thrown"}]
    OBVIOUS
  <2>. QED
    BY <1>1, <2>1, <2>2, Zenon DEF TypeOK
<1>3. ControlInv
  BY DEF ControlInv
<1>4. ExactlyOnce
  BY <1>1 DEF ExactlyOnce, Accepted, InQueue, Held
<1>5. NoIdleWhileQueued
  BY <1>1, CountsFinite DEF NoIdleWhileQueued
<1>. QED
  BY <1>2, <1>3, <1>4, <1>5 DEF PoolInv

\* submit(), the workers and the destructor maintain the invariant of the
\* pool, however they interleave.
THEOREM PoolInvariant == Spec => []PoolInv
<1>1. PoolInv /\ [Next]_vars => PoolInv'
  BY TypeStep, ControlStep, OnceStep, NoIdleStep DEF PoolInv
<1>. QED
  BY <1>1, PoolInvInit, PTL DEF Spec

\* No task is lost, run twice or run by two workers.
THEOREM TasksExactlyOnce == Spec => []ExactlyOnce
<1>1. PoolInv => ExactlyOnce
  BY DEF PoolInv
<1>. QED
  BY <1>1, PoolInvariant, PTL

\* No worker sleeps on while a task is queued that nobody is coming for.
THEOREM WakeupsNotLost == Spec => []NoIdleWhileQueued
<1>1. PoolInv => NoIdleWhileQueued
  BY DEF PoolInv
<1>. QED
  BY <1>1, PoolInvariant, PTL

\* When ~ThreadPool has joined its workers, every accepted task has been run.
THEOREM DestructorDrains == Spec => []DrainedOnDestruction
<1>1. PoolInv => DrainedOnDestruction
  <2>. SUFFICES ASSUME PoolInv, dtor = "destroyed", Workers # {},
                       NEW t \in Tasks, Accepted(t)
                PROVE  runs[t] = 1
    BY DEF DrainedOnDestruction
  <2>. USE DEF PoolInv
  <2>1. tasks = <<>> /\ \A w \in Workers : job[w] = None
    BY DEF ControlInv
  <2>2. ~InQueue(t)
    BY <2>1, EmptySeq DEF InQueue
  <2>3. ~Held(t)
    BY <2>1, PoolAssumption DEF Held
  <2>. QED
    BY <2>2, <2>3 DEF ExactlyOnce, TypeOK
<1>. QED
  BY <1>1, PoolInvariant, PTL
=============================================================================
