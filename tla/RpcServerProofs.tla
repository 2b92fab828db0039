-------------------------- MODULE RpcServerProofs ---------------------------
(***************************************************************************)
(* Proofs about RpcServer: it uses its pool and its loop as their modules  *)
(* specify them, answers a request at most once, destroys its members in   *)
(* an order the workers survive and drops no request when it stops, for    *)
(* any requests, connections and workers.                                  *)
(*                                                                         *)
(* The invariants of the components are not proved again: the steps of the *)
(* server are steps of the components, and the lemmas of their proof       *)
(* modules are instantiated.                                               *)
(***************************************************************************)
EXTENDS RpcServer, TLAPS

-----------------------------------------------------------------------------
(***************************************************************************)
(* The steps of the server, seen from its components.                      *)
(***************************************************************************)
\* A worker that runs has a request.
LEMMA Running ==
  ASSUME Pool!TypeOK, Pool!ControlInv, NEW w \in Workers, pc[w] = "run"
  PROVE  job[w] \in Requests
BY DEF Pool!TypeOK, Pool!ControlInv

\* What a step of the server does to worker_pool_.
LEMMA PoolSteps ==
  ASSUME [Next]_vars
  PROVE  [Pool!Next]_(Pool!vars)
<1>. USE DEF Pool!vars, poolVars
<1>1. CASE UNCHANGED poolVars
  BY <1>1
<1>2. CASE \E r \in Requests : Pool!Submit(r) \/ Pool!Notify(r)
  BY <1>2 DEF Pool!Next
<1>3. CASE \E w \in Workers : \/ Pool!WorkerFinish(w) \/ Pool!WorkerIdle(w) \/ Pool!WorkerBlock(w)
                              \/ Pool!WorkerExit(w) \/ Pool!WorkerTake(w)
  BY <1>3 DEF Pool!Next, Pool!WorkerStep
<1>4. CASE Pool!Stop \/ Pool!NotifyAll \/ Pool!Join
  BY <1>4 DEF Pool!Next
<1>5. CASE LoopThread
  BY <1>1, <1>2, <1>5 DEF LoopThread, RunFunctor, SubmitNotify
<1>6. ASSUME NEW w \in Workers, Worker(w) PROVE [Pool!Next]_(Pool!vars)
  BY <1>1, <1>3, <1>6 DEF Worker, CallMethod, Answer, AnswerWakeup, Finish
<1>7. CASE Frame
  BY <1>1, <1>2, <1>7 DEF Frame, OnFrame, OnFrameError
<1>8. CASE DestroyPool
  BY <1>4, <1>8 DEF DestroyPool
<1>9. CASE \/ \E c \in Conns : Connects(c) \/ Disconnects(c)
           \/ \E r \in Requests : ServiceDone(r)
           \/ PollOther \/ Quit \/ DestroyServer \/ DestroyLoop \/ UNCHANGED vars
  BY <1>1, <1>9
     DEF Connects, Disconnects, ServiceDone, PollOther, Quit, DestroyServer, DestroyLoop, vars
<1>. QED
  BY <1>5, <1>6, <1>7, <1>8, <1>9 DEF Next

\* What a step of the server does to loop_.
LEMMA LoopSteps ==
  ASSUME Pool!TypeOK, Pool!ControlInv, [Next]_vars
  PROVE  [Loop!Next]_(Loop!vars)
<1>. USE DEF Loop!vars, loopVars
<1>1. CASE UNCHANGED loopVars
  BY <1>1
<1>2. CASE \E r \in Requests : Loop!Queue(r) \/ Loop!Wakeup(r)
  BY <1>2 DEF Loop!Next
<1>3. CASE \/ Loop!Start \/ Loop!Check \/ Loop!PollWoken \/ Loop!Swap \/ Loop!RunDone
           \/ Loop!HandleRead \/ Loop!Handled \/ Loop!RunFunctor \/ Loop!PollOther
           \/ Loop!Quit \/ Loop!QuitWakeup
  BY <1>3 DEF Loop!Next, Loop!LoopStep
<1>4. CASE LoopThread
  BY <1>1, <1>3, <1>4, Zenon DEF LoopThread, RunFunctor, SubmitNotify
<1>5. ASSUME NEW w \in Workers, Worker(w) PROVE [Loop!Next]_(Loop!vars)
  BY <1>1, <1>2, <1>5, Running DEF Worker, CallMethod, Answer, AnswerWakeup, Finish
<1>6. CASE Frame
  BY <1>1, <1>6 DEF Frame, OnFrame, OnFrameError
<1>7. CASE PollOther \/ Quit
  BY <1>3, <1>7, Zenon DEF PollOther, Quit
<1>8. CASE \/ \E c \in Conns : Connects(c) \/ Disconnects(c)
           \/ \E r \in Requests : ServiceDone(r)
           \/ DestroyPool \/ DestroyServer \/ DestroyLoop \/ UNCHANGED vars
  BY <1>1, <1>8
     DEF Connects, Disconnects, ServiceDone, DestroyPool, DestroyServer, DestroyLoop, vars
<1>. QED
  BY <1>4, <1>5, <1>6, <1>7, <1>8 DEF Next

-----------------------------------------------------------------------------
(***************************************************************************)
(* Queues of requests.                                                     *)
(***************************************************************************)
\* A request that was not in the queue is appended.
LEMMA QueueFacts ==
  ASSUME NEW q \in Seq(Requests), NEW r \in Requests, Distinct(q), ~ In(r, q)
  PROVE  Distinct(Append(q, r)) /\ \A s : In(s, Append(q, r)) <=> In(s, q) \/ s = r
<1>1. /\ DOMAIN Append(q, r) = 1 .. Len(q) + 1 /\ DOMAIN q = 1 .. Len(q) /\ Len(q) \in Nat
      /\ Append(q, r)[Len(q) + 1] = r
      /\ \A i \in 1 .. Len(q) : Append(q, r)[i] = q[i]
  BY SMT, Z3
<1>2. /\ \A i \in 1 .. Len(q) + 1 : i \in 1 .. Len(q) \/ i = Len(q) + 1
      /\ Len(q) + 1 \in 1 .. Len(q) + 1 /\ 1 .. Len(q) \subseteq 1 .. Len(q) + 1
  BY <1>1, SMT, Z3
<1>. QED
  BY <1>1, <1>2, Zenon DEF In, Distinct

\* The first request is taken out of the queue.
LEMMA TakeFacts ==
  ASSUME NEW q \in Seq(Requests), q # <<>>, Distinct(q)
  PROVE  /\ Head(q) \in Requests /\ In(Head(q), q) /\ Distinct(Tail(q))
         /\ \A s : In(s, Tail(q)) => In(s, q) /\ s # Head(q)
<1>1. /\ DOMAIN Tail(q) = 1 .. Len(q) - 1 /\ DOMAIN q = 1 .. Len(q) /\ Len(q) \in Nat \ {0}
      /\ Head(q) = q[1] /\ Head(q) \in Requests
      /\ \A i \in 1 .. Len(q) - 1 : Tail(q)[i] = q[i + 1]
  BY SMT, Z3
<1>2. /\ 1 \in 1 .. Len(q)
      /\ \A i \in 1 .. Len(q) - 1 : i + 1 \in 1 .. Len(q) /\ i + 1 # 1
      /\ \A i, j \in 1 .. Len(q) - 1 : i + 1 = j + 1 => i = j
  BY <1>1, SMT, Z3
<1>3. In(Head(q), q)
  BY <1>1, <1>2, Zenon DEF In
<1>4. Distinct(Tail(q))
  BY <1>1, <1>2, ZenonT(40) DEF Distinct
<1>5. ASSUME NEW s, In(s, Tail(q)) PROVE In(s, q) /\ s # Head(q)
  <2>1. PICK i \in 1 .. Len(q) - 1 : s = q[i + 1]
    BY <1>1, <1>5, Zenon DEF In
  <2>2. i + 1 \in DOMAIN q /\ 1 \in DOMAIN q /\ i + 1 # 1
    BY <1>1, <1>2, Zenon
  <2>. QED
    BY <1>1, <2>1, <2>2, Zenon DEF In, Distinct
<1>. QED
  BY <1>1, <1>3, <1>4, <1>5, Zenon

\* Nothing is in an empty queue.
LEMMA EmptyFacts == Distinct(<<>>) /\ \A s : ~ In(s, <<>>)
BY SMT, Z3 DEF In, Distinct

-----------------------------------------------------------------------------
(***************************************************************************)
(* How far a request is.                                                   *)
(***************************************************************************)
\* A request has no response, an error or a result.
LEMMA ReplyKinds == <<>> # <<"error">> /\ <<>> # <<"result">> /\ <<"error">> # <<"result">>
<1>1. <<"error">>[1] # <<"result">>[1]
  OBVIOUS
<1>2. Len(<<>>) # Len(<<"error">>) /\ Len(<<>>) # Len(<<"result">>)
  BY SMT, Z3
<1>. QED
  BY <1>1, <1>2

\* on_frame() takes a request: it is answered at once, or submitted.
LEMMA FrameKeeps ==
  ASSUME ServerInv, Frame
  PROVE  RequestInv' /\ AnsweredOnce' /\ from' \in [Requests -> Conns \cup {None}]
<1>1. PICK c \in Conns, r \in Requests : OnFrame(c, r) \/ OnFrameError(c, r)
  BY DEF Frame
<1>2. /\ from[r] = None /\ reply[r] = <<>> /\ sub[r] = "idle" /\ fpc[r] = "new" /\ runs[r] = 0
      /\ from' = [from EXCEPT ![r] = c] /\ ~ stop
      /\ UNCHANGED <<fpc, service, functors, pending, runs>>
  <2>1. from[r] = None /\ lpc = "handle" /\ from' = [from EXCEPT ![r] = c]
        /\ UNCHANGED <<fpc, service, functors, pending, runs>>
    BY <1>1 DEF OnFrame, OnFrameError, InHandler, loopVars, poolVars, Pool!Submit
  <2>2. reply[r] = <<>> /\ sub[r] = "idle" /\ fpc[r] = "new" /\ ~ stop
    BY <2>1 DEF ServerInv, RequestInv
  <2>3. runs[r] = 0
    BY <2>2 DEF ServerInv, RequestInv
  <2>. QED
    BY <2>1, <2>2, <2>3
<1>3. \/ reply' = reply /\ sub' = [sub EXCEPT ![r] = "notify"]
      \/ sub' = sub /\ (reply' = reply \/ reply' = [reply EXCEPT ![r] = <<"error">>])
  <2>1. CASE OnFrame(c, r)
    BY <1>2, <2>1 DEF OnFrame, Pool!Submit
  <2>2. CASE OnFrameError(c, r)
    <3>1. Append(reply[r], "error") = <<"error">>
      BY <1>2, SMT, Z3
    <3>. QED
      BY <2>2, <3>1, Zenon DEF OnFrameError, Send, poolVars
  <2>. QED
    BY <1>1, <2>1, <2>2
<1>4. /\ sub \in [Requests -> {"idle", "notify", "done", "thrown"}]
      /\ from \in [Requests -> Conns \cup {None}] /\ DOMAIN reply' = DOMAIN reply
  BY <1>3 DEF ServerInv, OwnTypes, Pool!TypeOK
<1>5. reply \in [Requests -> {<<>>, <<"error">>, <<"result">>}]
  BY DEF ServerInv, OwnTypes
<1>6. /\ \A s \in Requests \ {r} : from'[s] = from[s] /\ reply'[s] = reply[s] /\ sub'[s] = sub[s]
      /\ from'[r] = c /\ c # None
      /\ \/ reply'[r] = <<>> /\ sub'[r] \in {"idle", "notify"}
         \/ reply'[r] = <<"error">> /\ sub'[r] = "idle"
  BY <1>2, <1>3, <1>4, <1>5, ServerAssumption, Zenon
<1>7. RequestInv'
  BY <1>2, <1>6, SMT, Z3 DEF ServerInv, RequestInv
<1>8. AnsweredOnce'
  <2>1. ASSUME NEW s \in Requests
        PROVE  /\ reply'[s] \in {<<>>, <<"error">>, <<"result">>}
               /\ reply'[s] = <<"result">> => service'[s] = "done"
               /\ reply'[s] = <<"error">> => sub'[s] = "idle"
    <3>1. CASE s = r
      BY <1>6, <3>1, ReplyKinds, Zenon
    <3>2. CASE s # r
      BY <1>2, <1>6, <3>2 DEF ServerInv, AnsweredOnce
    <3>. QED
      BY <3>1, <3>2
  <2>. QED
    BY <2>1 DEF AnsweredOnce
<1>. QED
  BY <1>2, <1>4, <1>7, <1>8

\* Steps that neither queue nor take a functor, and lose nothing of how far a
\* request is.
LEMMA SameQueues ==
  ASSUME ServerInv, UNCHANGED <<from, reply, functors, pending>>,
         \A s \in Requests :
           /\ (sub'[s] = "idle" <=> sub[s] = "idle") /\ (sub'[s] = "thrown" => sub[s] = "thrown")
           /\ service[s] = "done" => service'[s] = "done"
           /\ fpc'[s] = "new" <=> fpc[s] = "new"
           /\ runs'[s] # 0 => fpc'[s] = "queued"
  PROVE  RequestInv'
<1>1. /\ \A s : (In(s, functors') <=> In(s, functors)) /\ (In(s, pending') <=> In(s, pending))
      /\ (Distinct(functors') <=> Distinct(functors)) /\ (Distinct(pending') <=> Distinct(pending))
  BY Zenon DEF In, Distinct
<1>2. ASSUME NEW s \in Requests
      PROVE  /\ sub'[s] # "thrown" /\ (from'[s] = None => reply'[s] = <<>> /\ sub'[s] = "idle")
             /\ fpc'[s] # "new" => service'[s] = "done" /\ sub'[s] # "idle"
             /\ reply'[s] = <<"result">> => fpc'[s] # "new"
             /\ In(s, functors') \/ In(s, pending') => reply'[s] = <<>> /\ fpc'[s] # "new"
             /\ ~ (In(s, functors') /\ In(s, pending'))
             /\ runs'[s] # 0 => fpc'[s] = "queued"
  BY <1>1, Zenon DEF ServerInv, RequestInv
<1>. QED
  BY <1>1, <1>2, Zenon DEF ServerInv, RequestInv

\* Steps that leave alone how far requests are.
LEMMA QuietKeeps ==
  ASSUME ServerInv, UNCHANGED <<sub, from, reply, fpc, service, functors, pending, runs>>
  PROVE  RequestInv' /\ AnsweredOnce'
<1>1. RequestInv'
  <2>1. \A s \in Requests : runs[s] # 0 => fpc[s] = "queued"
    BY DEF ServerInv, RequestInv
  <2>. QED
    BY <2>1, SameQueues, Zenon
<1>2. AnsweredOnce'
  BY Zenon DEF ServerInv, AnsweredOnce
<1>. QED
  BY <1>1, <1>2

\* submit() comes to its notify_one().
LEMMA NotifyKeeps ==
  ASSUME ServerInv, NEW r \in Requests, SubmitNotify(r)
  PROVE  RequestInv' /\ AnsweredOnce'
<1>1. /\ sub[r] = "notify" /\ sub' = [sub EXCEPT ![r] = "done"]
      /\ UNCHANGED <<from, reply, fpc, service, functors, pending, runs>>
  BY DEF SubmitNotify, Pool!Notify, loopVars, ownVars
<1>2. \A s \in Requests : sub'[s] = sub[s] \/ (s = r /\ sub'[s] = "done")
  BY <1>1 DEF ServerInv, Pool!TypeOK
<1>3. \A s \in Requests : (sub'[s] = "idle" <=> sub[s] = "idle") /\ (sub'[s] = "thrown" => sub[s] = "thrown")
  BY <1>1, <1>2
<1>4. RequestInv'
  <2>1. \A s \in Requests : runs[s] # 0 => fpc[s] = "queued"
    BY DEF ServerInv, RequestInv
  <2>. QED
    BY <1>1, <1>3, <2>1, SameQueues, Zenon
<1>5. AnsweredOnce'
  BY <1>1, <1>3, Zenon DEF ServerInv, AnsweredOnce
<1>. QED
  BY <1>4, <1>5

\* The loop takes the functors over.
LEMMA SwapKeeps ==
  ASSUME ServerInv, Loop!Swap, UNCHANGED <<poolVars, ownVars>>
  PROVE  RequestInv' /\ AnsweredOnce'
<1>1. /\ functors' = pending /\ pending' = <<>> /\ functors = <<>>
      /\ UNCHANGED <<sub, from, reply, fpc, service, runs>>
  BY DEF ServerInv, Loop!EventLoopInv, Loop!LoopInv, Loop!Swap, poolVars, ownVars
<1>2. RequestInv'
  <2>1. \A r \in Requests : In(r, functors') <=> In(r, pending)
    BY <1>1
  <2>2. Distinct(functors') /\ Distinct(pending') /\ \A r \in Requests : ~ In(r, pending')
    BY <1>1, EmptyFacts DEF ServerInv, RequestInv
  <2>. QED
    BY <1>1, <2>1, <2>2, Zenon DEF ServerInv, RequestInv
<1>3. AnsweredOnce'
  BY <1>1, Zenon DEF ServerInv, AnsweredOnce
<1>. QED
  BY <1>2, <1>3

\* The loop sends a response, unless the connection is gone or breaks.
LEMMA RunKeeps ==
  ASSUME ServerInv, RunFunctor
  PROVE  RequestInv' /\ AnsweredOnce'
<1>. DEFINE r == Head(functors)
<1>1. /\ functors # <<>> /\ functors' = Tail(functors)
      /\ UNCHANGED <<sub, from, fpc, service, pending, runs>>
      /\ reply' = reply \/ reply' = [reply EXCEPT ![r] = Append(@, "result")]
  BY DEF RunFunctor, Loop!RunFunctor, Send, poolVars
<1>2. /\ functors \in Seq(Requests) /\ Distinct(functors)
      /\ reply \in [Requests -> {<<>>, <<"error">>, <<"result">>}]
  BY DEF ServerInv, OwnTypes, RequestInv, Loop!EventLoopInv, Loop!TypeOK
<1>3. /\ r \in Requests /\ In(r, functors) /\ Distinct(functors')
      /\ \A s : In(s, functors') => In(s, functors) /\ s # r
  BY <1>1, <1>2, TakeFacts
<1>. HIDE DEF r
<1>4. /\ reply[r] = <<>> /\ fpc[r] # "new" /\ ~ In(r, pending) /\ service[r] = "done"
      /\ sub[r] # "idle" /\ from[r] # None
  BY <1>3 DEF ServerInv, RequestInv
<1>5. /\ \A s \in Requests \ {r} : reply'[s] = reply[s]
      /\ reply'[r] = <<>> \/ reply'[r] = <<"result">>
  <2>1. Append(reply[r], "result") = <<"result">>
    BY <1>4, SMT, Z3
  <2>. QED
    BY <1>1, <1>2, <1>3, <1>4, <2>1
<1>6. RequestInv'
  <2>1. ASSUME NEW s \in Requests
        PROVE  /\ sub'[s] # "thrown" /\ (from'[s] = None => reply'[s] = <<>> /\ sub'[s] = "idle")
               /\ fpc'[s] # "new" => service'[s] = "done" /\ sub'[s] # "idle"
               /\ reply'[s] = <<"result">> => fpc'[s] # "new"
               /\ In(s, functors') \/ In(s, pending') => reply'[s] = <<>> /\ fpc'[s] # "new"
               /\ ~ (In(s, functors') /\ In(s, pending'))
               /\ runs'[s] # 0 => fpc'[s] = "queued"
    <3>1. CASE s = r
      BY <1>1, <1>3, <1>4, <3>1, Zenon DEF ServerInv, RequestInv
    <3>2. CASE s # r
      BY <1>1, <1>3, <1>5, <3>2, Zenon DEF ServerInv, RequestInv
    <3>. QED
      BY <3>1, <3>2
  <2>2. Distinct(functors') /\ Distinct(pending')
    BY <1>1, <1>3, Zenon DEF ServerInv, RequestInv
  <2>. QED
    BY <2>1, <2>2, Zenon DEF RequestInv
<1>7. AnsweredOnce'
  <2>1. reply'[r] \in {<<>>, <<"result">>} /\ reply'[r] # <<"error">>
    BY <1>5, ReplyKinds, Zenon
  <2>. QED
    BY <1>1, <1>4, <1>5, <2>1 DEF ServerInv, AnsweredOnce
<1>. QED
  BY <1>6, <1>7

\* The service is called, and runs its closure.
LEMMA ServiceKeeps ==
  ASSUME ServerInv, (\E w \in Workers : CallMethod(w)) \/ \E r \in Requests : ServiceDone(r)
  PROVE  RequestInv' /\ AnsweredOnce'
<1>1. /\ UNCHANGED <<sub, from, reply, fpc, functors, pending, runs>>
      /\ \A s \in Requests : service[s] = "done" => service'[s] = "done"
  BY DEF ServerInv, OwnTypes, CallMethod, ServiceDone, poolVars, loopVars
<1>2. RequestInv'
  <2>1. \A s \in Requests : runs[s] # 0 => fpc[s] = "queued"
    BY DEF ServerInv, RequestInv
  <2>. QED
    BY <1>1, <2>1, SameQueues, Zenon
<1>3. AnsweredOnce'
  BY <1>1, Zenon DEF ServerInv, AnsweredOnce
<1>. QED
  BY <1>2, <1>3, Zenon

\* What is known of the request a worker runs.
LEMMA RunningRequest ==
  ASSUME ServerInv, NEW w \in Workers, pc[w] = "run"
  PROVE  /\ job[w] \in Requests /\ sub[job[w]] # "idle" /\ runs[job[w]] = 0
         /\ from[job[w]] # None /\ reply[job[w]] # <<"error">>
<1>1. job[w] \in Requests /\ Pool!Held(job[w])
  BY Running DEF ServerInv, Pool!Held
<1>2. Pool!Accepted(job[w]) /\ runs[job[w]] = 0
  BY <1>1 DEF ServerInv, Pool!ExactlyOnce
<1>3. sub[job[w]] # "idle"
  BY <1>2, Zenon DEF Pool!Accepted
<1>. QED
  BY <1>1, <1>2, <1>3 DEF ServerInv, RequestInv, AnsweredOnce

\* dispatch_request() hands over the response, once.
LEMMA AnswerKeeps ==
  ASSUME ServerInv, NEW w \in Workers, Answer(w)
  PROVE  RequestInv' /\ AnsweredOnce'
<1>. DEFINE r == job[w]
<1>1. /\ r \in Requests /\ sub[r] # "idle" /\ runs[r] = 0 /\ from[r] # None
      /\ reply[r] # <<"error">>
  BY RunningRequest DEF Answer
<1>2. /\ service[r] = "done" /\ fpc[r] = "new" /\ fpc' = [fpc EXCEPT ![r] = "wakeup"]
      /\ pending' = Append(pending, r)
      /\ UNCHANGED <<sub, from, reply, service, functors, runs>>
  BY DEF Answer, Loop!Queue, Loop!Push, poolVars, ownVars
<1>. HIDE DEF r
<1>3. ~ In(r, functors) /\ ~ In(r, pending) /\ reply[r] = <<>>
  BY <1>1, <1>2, Zenon DEF ServerInv, RequestInv, AnsweredOnce
<1>4. Distinct(pending') /\ \A s : In(s, pending') <=> In(s, pending) \/ s = r
  <2>1. pending \in Seq(Requests) /\ Distinct(pending)
    BY Zenon DEF ServerInv, RequestInv, Loop!EventLoopInv, Loop!TypeOK
  <2>. QED
    BY <1>1, <1>2, <1>3, <2>1, QueueFacts, Zenon
<1>5. fpc'[r] = "wakeup" /\ \A s \in Requests \ {r} : fpc'[s] = fpc[s]
  BY <1>1, <1>2 DEF ServerInv, Loop!EventLoopInv, Loop!TypeOK
<1>6. RequestInv'
  <2>1. ASSUME NEW s \in Requests
        PROVE  /\ sub'[s] # "thrown" /\ (from'[s] = None => reply'[s] = <<>> /\ sub'[s] = "idle")
               /\ fpc'[s] # "new" => service'[s] = "done" /\ sub'[s] # "idle"
               /\ reply'[s] = <<"result">> => fpc'[s] # "new"
               /\ In(s, functors') \/ In(s, pending') => reply'[s] = <<>> /\ fpc'[s] # "new"
               /\ ~ (In(s, functors') /\ In(s, pending'))
               /\ runs'[s] # 0 => fpc'[s] = "queued"
    <3>1. CASE s = r
      BY <1>1, <1>2, <1>3, <1>5, <3>1, Zenon DEF ServerInv, RequestInv
    <3>2. CASE s # r
      BY <1>2, <1>4, <1>5, <3>2, ZenonT(40) DEF ServerInv, RequestInv
    <3>. QED
      BY <3>1, <3>2, Zenon
  <2>2. Distinct(functors') /\ Distinct(pending')
    BY <1>2, <1>4 DEF ServerInv, RequestInv
  <2>. QED
    BY <2>1, <2>2, Zenon DEF RequestInv
<1>7. AnsweredOnce'
  BY <1>2, Zenon DEF ServerInv, AnsweredOnce
<1>. QED
  BY <1>6, <1>7

\* ... wakes the loop up, and returns.
LEMMA FinishKeeps ==
  ASSUME ServerInv, NEW w \in Workers, AnswerWakeup(w) \/ Finish(w)
  PROVE  RequestInv' /\ AnsweredOnce'
<1>1. job[w] \in Requests
  BY RunningRequest, Zenon DEF AnswerWakeup, Finish, Pool!WorkerFinish
<1>2. UNCHANGED <<sub, from, reply, service, functors, pending>>
  BY DEF AnswerWakeup, Finish, Loop!Wakeup, Pool!WorkerFinish, poolVars, loopVars, ownVars
<1>3. \A s \in Requests :
        /\ fpc'[s] = "new" <=> fpc[s] = "new"
        /\ runs'[s] # 0 => fpc'[s] = "queued"
  <2>1. CASE AnswerWakeup(w)
    BY <1>1, <2>1, Zenon
       DEF AnswerWakeup, Loop!Wakeup, poolVars, ServerInv, RequestInv, Loop!EventLoopInv, Loop!TypeOK
  <2>2. CASE Finish(w)
    BY <1>1, <2>2 DEF Finish, Pool!WorkerFinish, loopVars, ServerInv, RequestInv, Pool!TypeOK
  <2>. QED
    BY <2>1, <2>2, Zenon
<1>4. RequestInv'
  BY <1>2, <1>3, SameQueues, Zenon
<1>5. AnsweredOnce'
  BY <1>2, Zenon DEF ServerInv, AnsweredOnce
<1>. QED
  BY <1>4, <1>5, Zenon

\* Every step keeps how far requests are.
LEMMA RequestStep ==
  ASSUME ServerInv, [Next]_vars
  PROVE  RequestInv' /\ AnsweredOnce'
<1>1. CASE Frame
  BY <1>1, FrameKeeps
<1>2. ASSUME NEW r \in Requests, SubmitNotify(r) PROVE RequestInv' /\ AnsweredOnce'
  BY <1>2, NotifyKeeps
<1>3. CASE Loop!Swap /\ UNCHANGED <<poolVars, ownVars>>
  BY <1>3, SwapKeeps
<1>4. CASE RunFunctor
  BY <1>4, RunKeeps
<1>5. CASE (\E w \in Workers : CallMethod(w)) \/ \E r \in Requests : ServiceDone(r)
  BY <1>5, ServiceKeeps
<1>6. ASSUME NEW w \in Workers, Answer(w) \/ AnswerWakeup(w) \/ Finish(w)
      PROVE  RequestInv' /\ AnsweredOnce'
  BY <1>6, AnswerKeeps, FinishKeeps
<1>7. CASE UNCHANGED <<sub, from, reply, fpc, service, functors, pending, runs>>
  BY <1>7, QuietKeeps
<1>8. CASE LoopThread
  <2>1. CASE \/ Loop!Start \/ Loop!Check \/ Loop!PollWoken \/ Loop!RunDone \/ Loop!HandleRead
             \/ Loop!Handled
    <3>1. UNCHANGED <<fpc, functors, pending>>
      BY <2>1 DEF Loop!Start, Loop!Check, Loop!PollWoken, Loop!RunDone, Loop!HandleRead, Loop!Handled
    <3>2. UNCHANGED <<poolVars, ownVars>> => RequestInv' /\ AnsweredOnce'
      BY <1>7, <3>1 DEF poolVars, ownVars
    <3>. QED
      BY <1>2, <1>3, <1>4, <1>8, <3>2, Zenon DEF LoopThread
  <2>. QED
    BY <1>2, <1>3, <1>4, <1>8, <2>1 DEF LoopThread
<1>9. ASSUME NEW w \in Workers, Worker(w) PROVE RequestInv' /\ AnsweredOnce'
  <2>1. CASE /\ Pool!WorkerIdle(w) \/ Pool!WorkerBlock(w) \/ Pool!WorkerExit(w) \/ Pool!WorkerTake(w)
             /\ UNCHANGED <<loopVars, ownVars>>
    BY <1>7, <2>1, Zenon DEF Pool!WorkerIdle, Pool!WorkerBlock, Pool!WorkerExit, Pool!WorkerTake,
       loopVars, ownVars
  <2>. QED
    BY <1>5, <1>6, <1>9, <2>1, Zenon DEF Worker
<1>10. CASE PollOther \/ Quit
  BY <1>7, <1>10
     DEF PollOther, Quit, Loop!PollOther, Loop!Quit, Loop!QuitWakeup, poolVars, ownVars
<1>11. CASE DestroyPool
  BY <1>7, <1>11, Zenon DEF DestroyPool, Pool!Stop, Pool!NotifyAll, Pool!Join, loopVars, ownVars
<1>12. CASE \/ \E c \in Conns : Connects(c) \/ Disconnects(c)
            \/ DestroyServer \/ DestroyLoop \/ UNCHANGED vars
  BY <1>7, <1>12, Zenon
     DEF Connects, Disconnects, DestroyServer, DestroyLoop, vars, poolVars, loopVars, ownVars
<1>. QED
  BY <1>1, <1>5, <1>8, <1>9, <1>10, <1>11, <1>12 DEF Next

\* The types of the server's own variables are kept.
LEMMA OwnTypesStep ==
  ASSUME OwnTypes, AnsweredOnce', [Next]_vars
  PROVE  OwnTypes'
<1>. USE DEF OwnTypes, ownVars
<1>1. CASE UNCHANGED ownVars
  BY <1>1
<1>2. ASSUME NEW r, NEW x, Send(r, x)
      PROVE  /\ conn' \in [Conns -> {"new", "up", "down"}]
             /\ reply' \in [Requests -> {<<>>, <<"error">>, <<"result">>}]
  <2>1. conn' \in [Conns -> {"new", "up", "down"}]
    BY <1>2, Zenon DEF Send
  <2>2. reply' = reply \/ reply' = [reply EXCEPT ![r] = Append(@, x)]
    BY <1>2 DEF Send
  <2>3. \A s \in Requests : reply'[s] \in {<<>>, <<"error">>, <<"result">>}
    BY DEF AnsweredOnce
  <2>. QED
    BY <2>1, <2>2, <2>3
<1>3. CASE Frame
  <2>1. PICK c \in Conns, r \in Requests : OnFrame(c, r) \/ OnFrameError(c, r)
    BY <1>3 DEF Frame
  <2>2. from' \in [Requests -> Conns \cup {None}] /\ service' = service /\ life' = life
    BY <2>1 DEF OnFrame, OnFrameError
  <2>3. Send(r, "error") \/ UNCHANGED <<conn, reply>>
    BY <2>1 DEF OnFrame, OnFrameError
  <2>. QED
    BY <1>2, <2>2, <2>3
<1>4. CASE LoopThread
  BY <1>1, <1>2, <1>4, Zenon DEF LoopThread, RunFunctor, SubmitNotify
<1>5. ASSUME NEW w \in Workers, Worker(w) PROVE OwnTypes'
  <2>1. CASE CallMethod(w)
    BY <2>1, Zenon DEF CallMethod
  <2>. QED
    BY <1>1, <1>5, <2>1 DEF Worker, Answer, AnswerWakeup, Finish
<1>6. CASE \/ \E c \in Conns : Connects(c) \/ Disconnects(c)
           \/ \E r \in Requests : ServiceDone(r)
           \/ DestroyServer \/ DestroyLoop
  BY <1>6, Zenon DEF Connects, Disconnects, ServiceDone, DestroyServer, DestroyLoop
<1>7. CASE PollOther \/ Quit \/ DestroyPool \/ UNCHANGED vars
  BY <1>1, <1>7 DEF PollOther, Quit, DestroyPool, vars
<1>. QED
  BY <1>3, <1>4, <1>5, <1>6, <1>7 DEF Next

\* Destructors run in their order, after loop() has returned.
LEMMA OrderStep ==
  ASSUME ServerInv, [Next]_vars
  PROVE  /\ stop' => lpc' = "returned"
         /\ life' # "alive" => dtor' = "destroyed"
<1>1. lpc = "returned" => lpc' = "returned"
  <2>1. [Loop!Next]_(Loop!vars)
    BY LoopSteps, Zenon DEF ServerInv
  <2>. QED
    BY <2>1 DEF Loop!Next, Loop!vars, Loop!Queue, Loop!Wakeup, Loop!QueueInLoop, Loop!RunInLoop,
       Loop!Quit, Loop!QuitWakeup, Loop!QuitInLoop, Loop!Start, Loop!LoopStep, Loop!Check,
       Loop!PollWoken, Loop!HandleRead, Loop!Handled, Loop!Swap, Loop!RunFunctor, Loop!RunDone,
       Loop!PollOther
<1>2. dtor = "destroyed" => dtor' = "destroyed"
  <2>1. [Pool!Next]_(Pool!vars)
    BY PoolSteps, Zenon
  <2>. QED
    BY <2>1 DEF Pool!Next, Pool!vars, Pool!Submit, Pool!Notify, Pool!WorkerStep, Pool!WorkerIdle,
       Pool!WorkerBlock, Pool!WorkerExit, Pool!WorkerTake, Pool!WorkerFinish,
       Pool!WorkerSpurious, Pool!Stop, Pool!NotifyAll, Pool!Join
<1>3. stop' = stop \/ lpc = "returned"
  <2>1. CASE Frame
    BY <2>1 DEF Frame, OnFrame, OnFrameError, Pool!Submit, poolVars
  <2>2. CASE LoopThread
    BY <2>2, Zenon DEF LoopThread, RunFunctor, SubmitNotify, Pool!Notify, poolVars
  <2>3. ASSUME NEW w \in Workers, Worker(w) PROVE stop' = stop
    BY <2>3, Zenon DEF Worker, CallMethod, Answer, AnswerWakeup, Finish, Pool!WorkerIdle,
       Pool!WorkerBlock, Pool!WorkerExit, Pool!WorkerTake, Pool!WorkerFinish, poolVars
  <2>4. CASE DestroyPool
    BY <2>4, Zenon DEF DestroyPool
  <2>. QED
    BY <2>1, <2>2, <2>3, <2>4, Zenon DEF Next, Connects, Disconnects, PollOther, ServiceDone, Quit,
       DestroyServer, DestroyLoop, poolVars, vars
<1>4. life' = life \/ PoolGone \/ life = "server"
  <2>1. CASE Frame
    BY <2>1 DEF Frame, OnFrame, OnFrameError
  <2>2. CASE LoopThread
    BY <2>2, Zenon DEF LoopThread, RunFunctor, SubmitNotify, ownVars
  <2>3. ASSUME NEW w \in Workers, Worker(w) PROVE life' = life
    BY <2>3, Zenon DEF Worker, CallMethod, Answer, AnswerWakeup, Finish, ownVars
  <2>. QED
    BY <2>1, <2>2, <2>3 DEF Next, Connects, Disconnects, PollOther, ServiceDone, Quit, DestroyPool,
       DestroyServer, DestroyLoop, ownVars, vars
<1>. QED
  BY <1>1, <1>2, <1>3, <1>4, SMTT(40), Z3T(40) DEF ServerInv, PoolGone
-----------------------------------------------------------------------------
(***************************************************************************)
(* The invariants of the components.                                       *)
(***************************************************************************)
PoolP == INSTANCE ThreadPoolProofs WITH Tasks <- Requests, MaxSpurious <- 0
LoopP == INSTANCE EventLoopProofs WITH Functors <- Requests

\* The instance of the pool's proofs speaks of the same pool, ...
LEMMA SamePool ==
  /\ Pool!TypeOK <=> PoolP!TypeOK
  /\ Pool!ControlInv <=> PoolP!ControlInv
  /\ Pool!ExactlyOnce <=> PoolP!ExactlyOnce
<1>1. Pool!TypeOK <=> PoolP!TypeOK
  BY ZenonT(30) DEF Pool!TypeOK, PoolP!TypeOK
<1>2. Pool!ControlInv <=> PoolP!ControlInv
  BY ZenonT(30) DEF Pool!ControlInv, PoolP!ControlInv
<1>3. Pool!ExactlyOnce <=> PoolP!ExactlyOnce
  BY Zenon DEF Pool!ExactlyOnce, PoolP!ExactlyOnce, Pool!Accepted, PoolP!Accepted,
         Pool!InQueue, PoolP!InQueue, Pool!Held, PoolP!Held
<1>. QED
  BY <1>1, <1>2, <1>3, ZenonT(40)

\* ... also after a step, ...
LEMMA SamePoolNext ==
  /\ Pool!TypeOK' <=> PoolP!TypeOK'
  /\ Pool!ControlInv' <=> PoolP!ControlInv'
  /\ Pool!ExactlyOnce' <=> PoolP!ExactlyOnce'
<1>1. Pool!TypeOK' <=> PoolP!TypeOK'
  BY ZenonT(30) DEF Pool!TypeOK, PoolP!TypeOK
<1>2. Pool!ControlInv' <=> PoolP!ControlInv'
  BY ZenonT(30) DEF Pool!ControlInv, PoolP!ControlInv
<1>3. Pool!ExactlyOnce' <=> PoolP!ExactlyOnce'
  BY Zenon DEF Pool!ExactlyOnce, PoolP!ExactlyOnce, Pool!Accepted, PoolP!Accepted,
         Pool!InQueue, PoolP!InQueue, Pool!Held, PoolP!Held
<1>. QED
  BY <1>1, <1>2, <1>3, ZenonT(40)

\* ... and of the same steps of it.
LEMMA SamePoolSteps ==
  ASSUME [Pool!Next]_(Pool!vars)
  PROVE  [PoolP!Next]_(PoolP!vars)
<1>1. CASE \E t \in Requests : Pool!Submit(t) \/ Pool!Notify(t)
  BY <1>1, ZenonT(30) DEF Pool!Submit, PoolP!Submit, Pool!Notify, PoolP!Notify, Pool!Blocked,
     PoolP!Blocked, PoolP!Next
<1>2. CASE \E w \in Workers : Pool!WorkerStep(w) \/ Pool!WorkerSpurious(w)
  <2>1. ASSUME NEW w \in Workers, Pool!WorkerIdle(w) PROVE PoolP!WorkerIdle(w)
    BY <2>1, ZenonT(30) DEF Pool!WorkerIdle, PoolP!WorkerIdle
  <2>2. ASSUME NEW w \in Workers, Pool!WorkerBlock(w) PROVE PoolP!WorkerBlock(w)
    BY <2>2, ZenonT(30) DEF Pool!WorkerBlock, PoolP!WorkerBlock
  <2>3. ASSUME NEW w \in Workers, Pool!WorkerExit(w) PROVE PoolP!WorkerExit(w)
    BY <2>3, ZenonT(30) DEF Pool!WorkerExit, PoolP!WorkerExit, Pool!CanExit, PoolP!CanExit
  <2>4. ASSUME NEW w \in Workers, Pool!WorkerTake(w) PROVE PoolP!WorkerTake(w)
    BY <2>4, ZenonT(30) DEF Pool!WorkerTake, PoolP!WorkerTake, Pool!Pop, PoolP!Pop
  <2>5. ASSUME NEW w \in Workers, Pool!WorkerFinish(w) PROVE PoolP!WorkerFinish(w)
    BY <2>5, ZenonT(30) DEF Pool!WorkerFinish, PoolP!WorkerFinish
  <2>6. ASSUME NEW w \in Workers, Pool!WorkerSpurious(w) PROVE PoolP!WorkerSpurious(w)
    BY <2>6, ZenonT(30) DEF Pool!WorkerSpurious, PoolP!WorkerSpurious
  <2>. QED
    BY <1>2, <2>1, <2>2, <2>3, <2>4, <2>5, <2>6, ZenonT(30)
       DEF Pool!WorkerStep, PoolP!WorkerStep, PoolP!Next
<1>3. CASE Pool!Stop \/ Pool!NotifyAll \/ Pool!Join
  BY <1>3, ZenonT(30) DEF Pool!Stop, PoolP!Stop, Pool!NotifyAll, PoolP!NotifyAll, Pool!Blocked,
     PoolP!Blocked, Pool!Join, PoolP!Join, PoolP!Next
<1>4. CASE UNCHANGED Pool!vars
  BY <1>4, ZenonT(40) DEF Pool!vars, PoolP!vars
<1>. QED
  BY <1>1, <1>2, <1>3, <1>4, ZenonT(40) DEF Pool!Next

\* What ThreadPoolProofs assumes of the constants.
LEMMA PoolAssumed == PoolP!PoolAssumption
<1>1. \A S : IsFiniteSet(S) <=> PoolP!IsFiniteSet(S)
  BY Zenon DEF IsFiniteSet, PoolP!IsFiniteSet
<1>. QED
  BY <1>1, ServerAssumption, ZenonT(40) DEF PoolP!PoolAssumption

\* The pool's invariant is kept: every step of the server is one of the pool.
LEMMA PoolKept ==
  ASSUME Pool!TypeOK, Pool!ControlInv, Pool!ExactlyOnce, [Next]_vars
  PROVE  Pool!TypeOK' /\ Pool!ControlInv' /\ Pool!ExactlyOnce'
<1>1. PoolP!TypeOK /\ PoolP!ControlInv /\ PoolP!ExactlyOnce /\ [PoolP!Next]_(PoolP!vars)
  BY SamePool, PoolSteps, SamePoolSteps, ZenonT(40)
<1>2. PoolP!TypeOK' /\ PoolP!ControlInv' /\ PoolP!ExactlyOnce'
  BY <1>1, PoolAssumed, PoolP!TypeStep, PoolP!ControlStep, PoolP!OnceStep, ZenonT(40)
<1>. QED
  BY <1>2, SamePoolNext, ZenonT(40)

\* The same for the loop: its proofs speak of the same loop ...
LEMMA SameLoop ==
  /\ Loop!EventLoopInv <=> LoopP!EventLoopInv
  /\ Loop!EventLoopInv' <=> LoopP!EventLoopInv'
<1>1. Loop!EventLoopInv <=> LoopP!EventLoopInv
  BY ZenonT(30) DEF Loop!EventLoopInv, LoopP!EventLoopInv, Loop!TypeOK, LoopP!TypeOK, Loop!LoopInv,
     LoopP!LoopInv, Loop!RunsInOrder, LoopP!RunsInOrder, Loop!WakeupInv, LoopP!WakeupInv,
     Loop!WakeupDue, LoopP!WakeupDue
<1>2. Loop!EventLoopInv' <=> LoopP!EventLoopInv'
  BY ZenonT(30) DEF Loop!EventLoopInv, LoopP!EventLoopInv, Loop!TypeOK, LoopP!TypeOK, Loop!LoopInv,
     LoopP!LoopInv, Loop!RunsInOrder, LoopP!RunsInOrder, Loop!WakeupInv, LoopP!WakeupInv,
     Loop!WakeupDue, LoopP!WakeupDue
<1>. QED
  BY <1>1, <1>2, ZenonT(40)

\* ... and of the same steps of it.
LEMMA SameLoopSteps ==
  ASSUME [Loop!Next]_(Loop!vars)
  PROVE  [LoopP!Next]_(LoopP!vars)
<1>. USE DEF Loop!Push, LoopP!Push, Loop!InCallback, LoopP!InCallback, Loop!WakesItself,
             LoopP!WakesItself
<1>1. ASSUME NEW f \in Requests, Loop!Queue(f) \/ Loop!Wakeup(f) PROVE LoopP!Next
  BY <1>1, ZenonT(30) DEF Loop!Queue, LoopP!Queue, Loop!Wakeup, LoopP!Wakeup, LoopP!Next
<1>2. ASSUME NEW f \in Requests, Loop!QueueInLoop(f) \/ Loop!RunInLoop(f) PROVE LoopP!Next
  BY <1>2, ZenonT(30) DEF Loop!QueueInLoop, LoopP!QueueInLoop, Loop!RunInLoop, LoopP!RunInLoop,
     LoopP!Next
<1>3. CASE Loop!Quit \/ Loop!QuitWakeup \/ Loop!QuitInLoop
  BY <1>3, ZenonT(30) DEF Loop!Quit, LoopP!Quit, Loop!QuitWakeup, LoopP!QuitWakeup, Loop!QuitInLoop,
     LoopP!QuitInLoop, LoopP!Next
<1>4. CASE Loop!Start \/ Loop!PollOther \/ Loop!Check \/ Loop!PollWoken
  BY <1>4, ZenonT(30) DEF Loop!Start, LoopP!Start, Loop!PollOther, LoopP!PollOther, Loop!Check,
     LoopP!Check, Loop!PollWoken, LoopP!PollWoken, LoopP!LoopStep, LoopP!Next
<1>5. CASE Loop!HandleRead \/ Loop!Handled \/ Loop!Swap \/ Loop!RunFunctor \/ Loop!RunDone
  BY <1>5, ZenonT(30) DEF Loop!HandleRead, LoopP!HandleRead, Loop!Handled, LoopP!Handled, Loop!Swap,
     LoopP!Swap, Loop!RunFunctor, LoopP!RunFunctor, Loop!RunDone, LoopP!RunDone,
     LoopP!LoopStep, LoopP!Next
<1>6. CASE UNCHANGED Loop!vars
  BY <1>6, ZenonT(40) DEF Loop!vars, LoopP!vars
<1>. QED
  BY <1>1, <1>2, <1>3, <1>4, <1>5, <1>6, ZenonT(30) DEF Loop!Next, Loop!LoopStep

\* The loop's invariant is kept.
LEMMA LoopKept ==
  ASSUME Pool!TypeOK, Pool!ControlInv, Loop!EventLoopInv, [Next]_vars
  PROVE  Loop!EventLoopInv'
<1>1. LoopP!EventLoopInv /\ [LoopP!Next]_(LoopP!vars)
  BY SameLoop, LoopSteps, SameLoopSteps, ZenonT(40)
<1>2. LoopP!TypeOK
  BY <1>1, ZenonT(40) DEF LoopP!EventLoopInv
<1>3. LoopP!RunsInOrder' /\ LoopP!LoopInv' /\ LoopP!WakeupInv'
  BY <1>1, LoopP!QueueStep, LoopP!WakeStep, ZenonT(40)
<1>4. LoopP!TypeOK'
  <2>1. /\ pending' \in Seq(Requests) /\ functors' \in Seq(Requests)
        /\ queued' \in Seq(Requests) /\ ran' \in Seq(Requests)
    BY <1>1, LoopP!QueueStep, ZenonT(40)
  <2>2. /\ lpc' \in {"created", "check", "poll", "handle", "swap", "run", "returned"}
        /\ quit' \in BOOLEAN /\ signalled' \in BOOLEAN /\ woken' \in BOOLEAN
        /\ calling' \in BOOLEAN
        /\ fpc' \in [Requests -> {"new", "wakeup", "queued", "inline"}]
        /\ qpc' \in {"idle", "wakeup", "done"}
    BY <1>1, <1>2, LoopP!FlagStep, ZenonT(40)
  <2>. QED
    BY <2>1, <2>2, ZenonT(30) DEF LoopP!TypeOK
<1>5. LoopP!EventLoopInv'
  BY <1>3, <1>4, ZenonT(40) DEF LoopP!EventLoopInv
<1>. QED
  BY <1>5, SameLoop, ZenonT(40)

-----------------------------------------------------------------------------
(***************************************************************************)
(* The theorems.                                                           *)
(***************************************************************************)
\* A server that was just constructed.
LEMMA InvInit == Init => ServerInv
<1>. SUFFICES ASSUME Init PROVE ServerInv
  BY Zenon
<1>1. Pool!TypeOK /\ Pool!ControlInv /\ Pool!ExactlyOnce
  <2>1. PoolP!Init
    BY ZenonT(30) DEF Init, Pool!Init, PoolP!Init
  <2>2. PoolP!PoolInv
    BY <2>1, PoolAssumed, PoolP!PoolInvInit, ZenonT(40)
  <2>. QED
    BY <2>2, SamePool, ZenonT(40) DEF PoolP!PoolInv
<1>2. Loop!EventLoopInv
  <2>1. <<>> \in Seq(Requests) /\ <<>> = <<>> \o <<>> \o <<>>
    BY SMTT(40), Z3T(40)
  <2>. QED
    BY <2>1, ZenonT(40) DEF Init, Loop!Init, Loop!EventLoopInv, Loop!TypeOK, Loop!LoopInv, Loop!RunsInOrder,
       Loop!WakeupInv
<1>3. OwnTypes
  BY ZenonT(40) DEF Init, OwnTypes
<1>4. RequestInv
  BY EmptyFacts, ReplyKinds, ZenonT(40) DEF Init, Pool!Init, Loop!Init, RequestInv
<1>5. AnsweredOnce
  BY ReplyKinds, ZenonT(40) DEF Init, AnsweredOnce
<1>. QED
  BY <1>1, <1>2, <1>3, <1>4, <1>5, ZenonT(40) DEF Init, Pool!Init, ServerInv

\* Every step of the server keeps its invariant.
LEMMA InvStep == ServerInv /\ [Next]_vars => ServerInv'
<1>. SUFFICES ASSUME ServerInv, [Next]_vars PROVE ServerInv'
  BY Zenon
<1>1. Pool!TypeOK' /\ Pool!ControlInv' /\ Pool!ExactlyOnce'
  BY PoolKept, ZenonT(40) DEF ServerInv
<1>2. Loop!EventLoopInv'
  BY LoopKept, ZenonT(40) DEF ServerInv
<1>3. RequestInv' /\ AnsweredOnce'
  BY RequestStep, ZenonT(40)
<1>4. OwnTypes'
  BY <1>3, OwnTypesStep, ZenonT(40) DEF ServerInv
<1>5. (stop' => lpc' = "returned") /\ (life' # "alive" => dtor' = "destroyed")
  BY OrderStep, ZenonT(40)
<1>. QED
  BY <1>1, <1>2, <1>3, <1>4, <1>5, ZenonT(40) DEF ServerInv

\* The invariants of the server, of its pool and of its loop, for any requests,
\* connections and workers.
THEOREM ServerInvariant == Spec => []ServerInv
BY InvInit, InvStep, PTL DEF Spec

\* The server uses worker_pool_ as ThreadPool specifies it: on_frame() and the
\* destructor make its only steps, whatever runs meanwhile.
THEOREM ServerUsesPool == Spec => Pool!Spec
<1>1. Init => Pool!Init
  BY Zenon DEF Init
<1>2. [Next]_vars => [Pool!Next]_(Pool!vars)
  BY PoolSteps, ZenonT(40)
<1>. QED
  BY <1>1, <1>2, PTL DEF Spec, Pool!Spec

\* The server uses loop_ as EventLoop specifies it: a worker queues the response
\* of a request once and then wakes the loop up.
THEOREM ServerUsesLoop == Spec => Loop!Spec
<1>1. Init => Loop!Init
  BY Zenon DEF Init
<1>2. ServerInv /\ [Next]_vars => [Loop!Next]_(Loop!vars)
  BY LoopSteps, ZenonT(40) DEF ServerInv
<1>. QED
  BY <1>1, <1>2, ServerInvariant, PTL DEF Spec, Loop!Spec

\* What the pool and the loop promise holds of them inside the server, where the
\* loop thread submits and the workers queue: a request it took is in the queue
\* of the pool, with a worker or served, and only one of these; no worker sleeps
\* while requests wait that nobody is coming for; the loop runs the responses in
\* the order they were queued, and does not sleep on one.
THEOREM ComponentsHold ==
  Spec => [](/\ Pool!ExactlyOnce /\ Pool!NoIdleWhileQueued
             /\ Loop!RunsInOrder /\ Loop!NoLostWakeup)
<1>1. ServerInv => Pool!ExactlyOnce /\ Loop!RunsInOrder /\ Loop!NoLostWakeup
  BY ZenonT(40) DEF ServerInv, Loop!EventLoopInv, Loop!WakeupInv, Loop!NoLostWakeup
<1>2. Spec => []Pool!NoIdleWhileQueued
  <2>1. PoolP!Spec => []PoolP!NoIdleWhileQueued
    BY PoolAssumed, PoolP!WakeupsNotLost
  <2>2. Init => PoolP!Init
    BY ZenonT(30) DEF Init, Pool!Init, PoolP!Init
  <2>3. [Next]_vars => [PoolP!Next]_(PoolP!vars)
    BY PoolSteps, SamePoolSteps, ZenonT(40)
  <2>4. PoolP!NoIdleWhileQueued => Pool!NoIdleWhileQueued
    BY ZenonT(40) DEF Pool!NoIdleWhileQueued, PoolP!NoIdleWhileQueued, Pool!Blocked, PoolP!Blocked,
       Pool!Notifying, PoolP!Notifying, Pool!Awake, PoolP!Awake, Pool!Cardinality, PoolP!Cardinality
  <2>. QED
    BY <2>1, <2>2, <2>3, <2>4, PTL DEF Spec, PoolP!Spec
<1>. QED
  BY <1>1, <1>2, ServerInvariant, PTL

\* A request is answered at most once, with the result of a service that has
\* finished or with an error if it never reached the pool.
THEOREM AtMostOneAnswer == Spec => []AnsweredOnce
<1>1. ServerInv => AnsweredOnce
  BY ZenonT(40) DEF ServerInv
<1>. QED
  BY <1>1, ServerInvariant, PTL

\* No frame meets a stopped pool, and no worker a destroyed connection or loop.
THEOREM DestructionOrder == Spec => []MembersOutliveWorkers
<1>1. ServerInv => MembersOutliveWorkers
  BY ZenonT(40) DEF ServerInv, MembersOutliveWorkers, Pool!ControlInv
<1>. QED
  BY <1>1, ServerInvariant, PTL

\* When the pool is destroyed, the response of every request that was submitted
\* has been handed to the loop.
THEOREM NothingDropped == Spec => []ServedOnShutdown
<1>1. ServerInv => ServedOnShutdown
  <2>. SUFFICES ASSUME ServerInv, dtor = "destroyed", Workers # {},
                       NEW r \in Requests, sub[r] # "idle"
                PROVE  service[r] = "done" /\ fpc[r] = "queued"
    BY ZenonT(40) DEF ServedOnShutdown
  <2>1. tasks = <<>> /\ \A w \in Workers : job[w] = None
    BY Zenon DEF ServerInv, Pool!ControlInv
  <2>2. ~ Pool!InQueue(r) /\ ~ Pool!Held(r)
    BY <2>1, ServerAssumption, SMTT(40), Z3T(40) DEF Pool!InQueue, Pool!Held
  <2>3. Pool!Accepted(r)
    BY ZenonT(40) DEF ServerInv, RequestInv, Pool!Accepted, Pool!TypeOK
  <2>4. runs[r] # 0
    BY <2>2, <2>3, ZenonT(40) DEF ServerInv, Pool!ExactlyOnce
  <2>. QED
    BY <2>4, ZenonT(40) DEF ServerInv, RequestInv
<1>. QED
  BY <1>1, ServerInvariant, PTL
=============================================================================
