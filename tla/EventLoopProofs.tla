-------------------------- MODULE EventLoopProofs ---------------------------
(***************************************************************************)
(* Theorems about the event loop, for every number of functors.            *)
(***************************************************************************)
EXTENDS EventLoop, SequenceTheorems, TLAPS

-----------------------------------------------------------------------------
\* Running the first functor of the batch moves it to what has run.
LEMMA RunInOrder ==
  ASSUME NEW r \in Seq(Functors), NEW l \in Seq(Functors), NEW p \in Seq(Functors), l # <<>>
  PROVE  Append(r, Head(l)) \o Tail(l) \o p = r \o l \o p
<1>1. Head(l) \in Functors /\ Tail(l) \in Seq(Functors)
  BY HeadTailProperties
<1>2. <<Head(l)>> \in Seq(Functors)
  BY <1>1
<1>3. Append(r, Head(l)) = r \o <<Head(l)>>
  BY <1>1, AppendIsConcat
<1>4. <<Head(l)>> \o Tail(l) = l
  <2>1. /\ Len(l) \in Nat /\ Len(l) # 0 /\ Len(Tail(l)) = Len(l) - 1
        /\ \A i \in 1 .. Len(Tail(l)) : Tail(l)[i] = l[i + 1]
    BY HeadTailProperties, LenProperties, EmptySeq
  <2>2. Len(<<Head(l)>>) = 1 /\ <<Head(l)>>[1] = l[1]
    BY <2>1
  <2>3. /\ <<Head(l)>> \o Tail(l) \in Seq(Functors)
        /\ Len(<<Head(l)>> \o Tail(l)) = Len(l)
    BY <1>1, <1>2, <2>1, <2>2, ConcatProperties
  <2>4. \A i \in 1 .. Len(l) : (<<Head(l)>> \o Tail(l))[i] =
          IF i <= 1 THEN <<Head(l)>>[i] ELSE Tail(l)[i - 1]
    BY <1>1, <1>2, <2>1, <2>2, ConcatProperties
  <2>5. \A i \in 1 .. Len(l) : (<<Head(l)>> \o Tail(l))[i] = l[i]
    <3>1. \A i \in 1 .. Len(l) : i <= 1 => i = 1
      OBVIOUS
    <3>2. \A i \in 1 .. Len(l) : ~(i <= 1) => i - 1 \in 1 .. Len(Tail(l)) /\ (i - 1) + 1 = i
      BY <2>1
    <3>. QED
      BY <2>1, <2>2, <2>4, <3>1, <3>2
  <2>. QED
    BY <2>3, <2>5, SeqEqual
<1>5. (r \o <<Head(l)>>) \o Tail(l) = r \o l
  BY <1>1, <1>2, <1>4, ConcatAssociative, SMTT(40)
<1>. QED
  BY <1>3, <1>5, Zenon

-----------------------------------------------------------------------------
\* What every step does to the queues.
LEMMA QueueStep ==
  ASSUME EventLoopInv, [Next]_vars
  PROVE  /\ RunsInOrder'
         /\ pending' \in Seq(Functors) /\ functors' \in Seq(Functors)
         /\ queued' \in Seq(Functors) /\ ran' \in Seq(Functors)
<1>a. /\ pending \in Seq(Functors) /\ functors \in Seq(Functors)
      /\ queued \in Seq(Functors) /\ ran \in Seq(Functors)
  BY DEF EventLoopInv, TypeOK
<1>b. queued = ran \o functors \o pending
  BY DEF EventLoopInv, RunsInOrder
<1>. USE <1>a DEF RunsInOrder
<1>1. CASE UNCHANGED <<pending, functors, queued, ran>>
  BY <1>1, <1>b
<1>2. ASSUME NEW f \in Functors, Queue(f) \/ QueueInLoop(f)
      PROVE  /\ queued' = ran' \o functors' \o pending'
             /\ pending' \in Seq(Functors) /\ functors' \in Seq(Functors)
             /\ queued' \in Seq(Functors) /\ ran' \in Seq(Functors)
  <2>1. /\ pending' = Append(pending, f) /\ queued' = Append(queued, f)
        /\ functors' = functors /\ ran' = ran
    BY <1>2 DEF Queue, QueueInLoop, Push
  <2>2. pending' \in Seq(Functors) /\ queued' \in Seq(Functors)
    BY <2>1, AppendProperties
  <2>3. pending' = pending \o <<f>> /\ queued' = queued \o <<f>>
    BY <2>1, AppendIsConcat
  <2>4. ran \o functors \in Seq(Functors) /\ <<f>> \in Seq(Functors)
    BY ConcatProperties
  <2>5. (ran \o functors \o pending) \o <<f>> = ran \o functors \o (pending \o <<f>>)
    BY <2>4, ConcatAssociative, SMTT(40)
  <2>. QED
    BY <1>b, <2>1, <2>2, <2>3, <2>5, Zenon
<1>3. CASE Swap
  <2>1. /\ functors' = pending /\ pending' = <<>> /\ queued' = queued /\ ran' = ran
        /\ functors = <<>>
    BY <1>3 DEF Swap, EventLoopInv, LoopInv
  <2>2. ran \o <<>> \o pending = ran \o pending
    BY ConcatEmptySeq
  <2>3. ran \o pending \in Seq(Functors)
    BY ConcatProperties
  <2>4. (ran \o pending) \o <<>> = ran \o pending
    BY <2>3, ConcatEmptySeq
  <2>5. <<>> \in Seq(Functors)
    BY EmptySeq
  <2>. QED
    BY <1>b, <2>1, <2>2, <2>4, <2>5
<1>4. CASE RunFunctor
  <2>1. /\ ran' = Append(ran, Head(functors)) /\ functors' = Tail(functors)
        /\ pending' = pending /\ queued' = queued /\ functors # <<>>
    BY <1>4 DEF RunFunctor
  <2>2. Head(functors) \in Functors /\ Tail(functors) \in Seq(Functors)
    BY <2>1, HeadTailProperties
  <2>3. ran' \in Seq(Functors)
    BY <2>1, <2>2, AppendProperties
  <2>. QED
    BY <1>b, <2>1, <2>2, <2>3, RunInOrder, ZenonT(40)
<1>5. ASSUME [Next]_vars, ~Swap, ~RunFunctor,
             \A f \in Functors : ~Queue(f) /\ ~QueueInLoop(f)
      PROVE  UNCHANGED <<pending, functors, queued, ran>>
  BY <1>5 DEF Next, LoopStep, vars, Wakeup, RunInLoop, Quit, QuitWakeup, QuitInLoop, Start,
              Check, PollWoken, PollOther, HandleRead, Handled, RunDone
<1>. QED
  BY <1>1, <1>2, <1>3, <1>4, <1>5, Zenon

\* The locals of the loop and the wakeups that are due.
LEMMA WakeStep ==
  ASSUME EventLoopInv, [Next]_vars
  PROVE  LoopInv' /\ WakeupInv'
<1>. USE DEF EventLoopInv, TypeOK, LoopInv, WakeupInv, WakeupDue
<1>1. CASE UNCHANGED vars
  BY <1>1 DEF vars
<1>2. ASSUME NEW f \in Functors, Queue(f)
      PROVE  LoopInv' /\ WakeupInv'
  <2>1. fpc'[f] = "wakeup"
    BY <1>2 DEF Queue
  <2>. QED
    BY <1>2, <2>1 DEF Queue
<1>3. ASSUME NEW f \in Functors, Wakeup(f)
      PROVE  LoopInv' /\ WakeupInv'
  BY <1>3 DEF Wakeup
<1>4. ASSUME NEW f \in Functors, QueueInLoop(f)
      PROVE  LoopInv' /\ WakeupInv'
  BY <1>4 DEF QueueInLoop, InCallback, WakesItself
<1>5. ASSUME NEW f \in Functors, RunInLoop(f)
      PROVE  LoopInv' /\ WakeupInv'
  <2>1. \A g \in Functors : fpc[g] = "wakeup" => fpc'[g] = "wakeup"
    BY <1>5 DEF RunInLoop
  <2>. QED
    BY <1>5, <2>1 DEF RunInLoop
<1>6. CASE Quit \/ QuitWakeup
  BY <1>6 DEF Quit, QuitWakeup
<1>7. CASE QuitInLoop
  BY <1>7 DEF QuitInLoop, InCallback
<1>8. CASE Start \/ Check \/ PollWoken \/ PollOther
  BY <1>8 DEF Start, Check, PollWoken, PollOther
<1>9. CASE HandleRead \/ Handled
  BY <1>9 DEF HandleRead, Handled
<1>10. CASE Swap
  BY <1>10 DEF Swap
<1>11. CASE RunFunctor \/ RunDone
  BY <1>11 DEF RunFunctor, RunDone
<1>. QED
  BY <1>1, <1>2, <1>3, <1>4, <1>5, <1>6, <1>7, <1>8, <1>9, <1>10, <1>11 DEF Next, LoopStep

\* The types of the other variables.
LEMMA FlagStep ==
  ASSUME TypeOK, [Next]_vars
  PROVE  /\ lpc' \in {"created", "check", "poll", "handle", "swap", "run", "returned"}
         /\ quit' \in BOOLEAN /\ signalled' \in BOOLEAN /\ woken' \in BOOLEAN
         /\ calling' \in BOOLEAN
         /\ fpc' \in [Functors -> {"new", "wakeup", "queued", "inline"}]
         /\ qpc' \in {"idle", "wakeup", "done"}
<1>. USE DEF TypeOK
<1>1. CASE \E f \in Functors : Queue(f) \/ Wakeup(f) \/ QueueInLoop(f) \/ RunInLoop(f)
  BY <1>1, Zenon DEF Queue, Wakeup, QueueInLoop, RunInLoop, WakesItself
<1>2. CASE Quit \/ QuitWakeup \/ QuitInLoop
  BY <1>2, Zenon DEF Quit, QuitWakeup, QuitInLoop
<1>3. CASE Start \/ LoopStep \/ PollOther
  BY <1>3, Zenon DEF Start, LoopStep, PollOther, Check, PollWoken, HandleRead, Handled, Swap,
              RunFunctor, RunDone
<1>4. CASE UNCHANGED vars
  BY <1>4 DEF vars
<1>. QED
  BY <1>1, <1>2, <1>3, <1>4 DEF Next

-----------------------------------------------------------------------------
\* The loop, the threads that queue functors and quit() maintain the
\* invariant of the loop, however they interleave.
THEOREM EventLoopInvariant == Spec => []EventLoopInv
<1>1. Init => EventLoopInv
  <2>. SUFFICES ASSUME Init
                PROVE  EventLoopInv
    OBVIOUS
  <2>1. <<>> \in Seq(Functors) /\ <<>> \o <<>> \o <<>> = <<>>
    BY EmptySeq, ConcatEmptySeq
  <2>2. TypeOK
    BY <2>1, Zenon DEF Init, TypeOK
  <2>. QED
    BY <2>1, <2>2 DEF Init, EventLoopInv, LoopInv, RunsInOrder, WakeupInv
<1>2. EventLoopInv /\ [Next]_vars => EventLoopInv'
  <2>. SUFFICES ASSUME EventLoopInv, [Next]_vars
                PROVE  EventLoopInv'
    OBVIOUS
  <2>1. TypeOK'
    BY QueueStep, FlagStep DEF EventLoopInv, TypeOK
  <2>. QED
    BY <2>1, QueueStep, WakeStep DEF EventLoopInv
<1>. QED
  BY <1>1, <1>2, PTL DEF Spec

\* queue_in_loop() and quit() never leave the loop asleep in epoll_wait().
THEOREM LoopNeverSleepsOn == Spec => []NoLostWakeup
<1>1. EventLoopInv => NoLostWakeup
  BY DEF EventLoopInv, WakeupInv, NoLostWakeup
<1>. QED
  BY <1>1, EventLoopInvariant, PTL

\* do_pending_functors() runs every queued functor at most once, in order.
THEOREM FunctorsInOrder == Spec => []RunsInOrder
<1>1. EventLoopInv => RunsInOrder
  BY DEF EventLoopInv
<1>. QED
  BY <1>1, EventLoopInvariant, PTL
=============================================================================
