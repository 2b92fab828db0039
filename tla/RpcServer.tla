----------------------------- MODULE RpcServer ------------------------------
(***************************************************************************)
(* rpc::RpcServer: the composition of its loop_, an EventLoop, and its     *)
(* worker_pool_, a ThreadPool, by on_frame(), which runs in a handler of   *)
(* the loop and submits a task to the pool, and dispatch_request(), which  *)
(* runs in a worker, calls the service and queues a functor that sends the *)
(* response.  The functor and the task of a request are named like it.     *)
(*                                                                         *)
(* Every step of a thread is a step of one of the two components, guarded  *)
(* by what the thread is doing, or leaves both alone.  Of the connections  *)
(* (module TcpServer) only whether they are connected matters here.        *)
(***************************************************************************)
EXTENDS Naturals, Sequences, FiniteSets

CONSTANTS Requests,   \* frames that arrive, each once
          Conns,      \* connections
          Workers,    \* threads of worker_pool_
          None

ASSUME ServerAssumption == IsFiniteSet(Requests) /\ IsFiniteSet(Workers)
                           /\ None \notin Requests \cup Conns \cup Workers

VARIABLES
  tasks, stop, mu, pc, job, runs, sub, dtor, spurious,                \* worker_pool_
  lpc, quit, signalled, woken, pending, calling, functors, fpc, qpc, queued, ran,   \* loop_
  conn,     \* of a connection: "new", "up" (connected()) or "down"
  from,     \* the connection a request came from
  service,  \* its service: "idle", "called", or "done" (the closure has run)
  reply,    \* the responses sent for a request
  life      \* "alive", then the members that are destroyed: "server", "loop"

Pool == INSTANCE ThreadPool WITH Tasks <- Requests, MaxSpurious <- 0
Loop == INSTANCE EventLoop WITH Functors <- Requests

poolVars == <<tasks, stop, mu, pc, job, runs, sub, dtor, spurious>>
loopVars == <<lpc, quit, signalled, woken, pending, calling, functors, fpc, qpc, queued, ran>>
ownVars == <<conn, from, service, reply, life>>
vars == <<poolVars, loopVars, ownVars>>

Init ==
  /\ Pool!Init /\ Loop!Init
  /\ conn = [c \in Conns |-> "new"]
  /\ from = [r \in Requests |-> None]
  /\ service = [r \in Requests |-> "idle"]
  /\ reply = [r \in Requests |-> <<>>]
  /\ life = "alive"

-----------------------------------------------------------------------------
(***************************************************************************)
(* The loop thread.                                                        *)
(***************************************************************************)
\* It is in a handler of a connection or of the listening socket, and not in
\* worker_pool_.submit().
Submitting == \E r \in Requests : sub[r] = "notify"
InHandler  == lpc = "handle" /\ ~ Submitting

Connects(c) ==
  /\ InHandler /\ conn[c] = "new"
  /\ conn' = [conn EXCEPT ![c] = "up"]
  /\ UNCHANGED <<poolVars, loopVars, from, service, reply, life>>

Disconnects(c) ==
  /\ InHandler /\ conn[c] = "up"
  /\ conn' = [conn EXCEPT ![c] = "down"]
  /\ UNCHANGED <<poolVars, loopVars, from, service, reply, life>>

\* Codec::send(): nothing is sent on a connection that is not connected, and a
\* write() that fails disconnects it.
Send(r, response) ==
  LET c == from'[r] IN
  \/ conn[c] = "up" /\ reply' = [reply EXCEPT ![r] = Append(@, response)] /\ UNCHANGED conn
  \/ conn[c] = "up" /\ conn' = [conn EXCEPT ![c] = "down"] /\ UNCHANGED reply
  \/ conn[c] # "up" /\ UNCHANGED <<conn, reply>>

\* on_frame() for a frame that is answered at once: no such service, no such
\* method, or arguments that do not parse.  (One that is no RpcRequest at all
\* is dropped and changes nothing.)
OnFrameError(c, r) ==
  /\ InHandler /\ conn[c] # "new" /\ from[r] = None
  /\ from' = [from EXCEPT ![r] = c]
  /\ Send(r, "error")
  /\ UNCHANGED <<poolVars, loopVars, service, life>>

\* on_frame() for a call: worker_pool_.submit().
OnFrame(c, r) ==
  /\ InHandler /\ conn[c] # "new" /\ from[r] = None
  /\ from' = [from EXCEPT ![r] = c]
  /\ Pool!Submit(r)
  /\ UNCHANGED <<loopVars, conn, service, reply, life>>

SubmitNotify(r) ==
  /\ Pool!Notify(r)
  /\ UNCHANGED <<loopVars, ownVars>>

\* The functor of dispatch_request(): Codec::send(conn, resp).
RunFunctor ==
  /\ Loop!RunFunctor
  /\ UNCHANGED from
  /\ Send(Head(functors), "result")
  /\ UNCHANGED <<poolVars, service, life>>

LoopThread ==
  \/ /\ Loop!Start \/ Loop!Check \/ Loop!PollWoken \/ Loop!Swap \/ Loop!RunDone
     /\ UNCHANGED <<poolVars, ownVars>>
  \/ /\ InHandler
     /\ Loop!HandleRead \/ Loop!Handled
     /\ UNCHANGED <<poolVars, ownVars>>
  \/ RunFunctor
  \/ \E r \in Requests : SubmitNotify(r)

\* epoll_wait() returns for a socket, or after its timeout.
PollOther ==
  /\ Loop!PollOther
  /\ UNCHANGED <<poolVars, ownVars>>

-----------------------------------------------------------------------------
(***************************************************************************)
(* The workers: dispatch_request() for the request in job[w].              *)
(***************************************************************************)
CallMethod(w) ==
  /\ pc[w] = "run" /\ service[job[w]] = "idle"
  /\ service' = [service EXCEPT ![job[w]] = "called"]
  /\ UNCHANGED <<poolVars, loopVars, conn, from, reply, life>>

\* The service runs the closure, in the worker or in a thread of its own.
ServiceDone(r) ==
  /\ service[r] = "called"
  /\ service' = [service EXCEPT ![r] = "done"]
  /\ UNCHANGED <<poolVars, loopVars, conn, from, reply, life>>

\* Mutant of Answer: does not wait for the closure.
AnswerEarly(w) ==
  /\ pc[w] = "run" /\ service[job[w]] # "idle"
  /\ Loop!Queue(job[w])
  /\ UNCHANGED <<poolVars, ownVars>>

\* cv.wait() returns: run_in_loop() with the response ...
Answer(w) ==
  /\ pc[w] = "run" /\ service[job[w]] = "done"
  /\ Loop!Queue(job[w])
  /\ UNCHANGED <<poolVars, ownVars>>

\* ... and its wakeup().
AnswerWakeup(w) ==
  /\ pc[w] = "run"
  /\ Loop!Wakeup(job[w])
  /\ UNCHANGED <<poolVars, ownVars>>

\* Mutant of Finish: returns between the push and the wakeup().
FinishAtOnce(w) ==
  /\ Pool!WorkerFinish(w) /\ fpc[job[w]] # "new"
  /\ UNCHANGED <<loopVars, ownVars>>

\* Mutant of Finish: waits until the loop has sent the response.
FinishWaits(w) ==
  /\ Pool!WorkerFinish(w) /\ \E n \in DOMAIN ran : ran[n] = job[w]
  /\ UNCHANGED <<loopVars, ownVars>>

\* dispatch_request() returns, and with it the task.
Finish(w) ==
  /\ Pool!WorkerFinish(w) /\ fpc[job[w]] = "queued"
  /\ UNCHANGED <<loopVars, ownVars>>

Worker(w) ==
  \/ CallMethod(w) \/ Answer(w) \/ AnswerWakeup(w) \/ Finish(w)
  \/ /\ Pool!WorkerIdle(w) \/ Pool!WorkerBlock(w) \/ Pool!WorkerExit(w) \/ Pool!WorkerTake(w)
     /\ UNCHANGED <<loopVars, ownVars>>

-----------------------------------------------------------------------------
(***************************************************************************)
(* quit(), and the destructor after start() has returned: the members go   *)
(* in the reverse of their order.                                          *)
(***************************************************************************)
Quit ==
  /\ Loop!Quit \/ Loop!QuitWakeup
  /\ UNCHANGED <<poolVars, ownVars>>

DestroyPool ==
  /\ lpc = "returned"
  /\ Pool!Stop \/ Pool!NotifyAll \/ Pool!Join
  /\ UNCHANGED <<loopVars, ownVars>>

\* Mutant of PoolGone: worker_pool_ declared before loop_ and server_.
PoolGoneLater == lpc = "returned"

PoolGone == dtor = "destroyed"

\* ~TcpServer disconnects what is left ...
DestroyServer ==
  /\ PoolGone /\ life = "alive"
  /\ life' = "server"
  /\ conn' = [c \in Conns |-> IF conn[c] = "up" THEN "down" ELSE conn[c]]
  /\ UNCHANGED <<poolVars, loopVars, from, service, reply>>

\* ... and ~EventLoop drops the functors that are still pending.
DestroyLoop ==
  /\ life = "server"
  /\ life' = "loop"
  /\ UNCHANGED <<poolVars, loopVars, conn, from, service, reply>>

Frame == \E c \in Conns, r \in Requests : OnFrame(c, r) \/ OnFrameError(c, r)

Next ==
  \/ \E c \in Conns : Connects(c) \/ Disconnects(c)
  \/ Frame \/ LoopThread \/ PollOther
  \/ \E w \in Workers : Worker(w)
  \/ \E r \in Requests : ServiceDone(r)
  \/ Quit \/ DestroyPool \/ DestroyServer \/ DestroyLoop

Spec == Init /\ [][Next]_vars

\* The threads run, services run their closures, and the owner destroys the
\* server once start() has returned.  epoll_wait() returns when the eventfd is
\* readable; its timeout is not relied on.
Fairness ==
  /\ WF_vars(LoopThread)
  /\ \A w \in Workers : WF_vars(Worker(w))
  /\ \A r \in Requests : WF_vars(ServiceDone(r))
  /\ WF_vars(Loop!QuitWakeup /\ Quit)
  /\ WF_vars(DestroyPool) /\ WF_vars(DestroyServer \/ DestroyLoop)

FairSpec == Spec /\ Fairness

-----------------------------------------------------------------------------
(***************************************************************************)
(* Properties.                                                             *)
(***************************************************************************)
\* The server uses its pool as ThreadPool specifies it, one submitting thread
\* and tasks that end included: what is proved of the pool holds in the server.
PoolUsed == Pool!FairSpec

\* The server uses its loop as EventLoop specifies it, with workers that always
\* come to their wakeup() and handlers that return.
LoopUsed == Loop!FairSpec

\* A request has at most one response.  It is a result only when the service
\* has run its closure, and an error only if the request never reached the
\* pool, however workers, functors and connections interleave.
AnsweredOnce ==
  \A r \in Requests :
    /\ reply[r] \in {<<>>, <<"error">>, <<"result">>}
    /\ reply[r] = <<"result">> => service[r] = "done"
    /\ reply[r] = <<"error">> => sub[r] = "idle"

\* The order of the members protects them: no frame meets a stopped pool, whose
\* submit() would throw in the loop thread, and the connections and the loop
\* that dispatch_request() uses are destroyed only after every worker has left.
MembersOutliveWorkers ==
  /\ stop => lpc = "returned"
  /\ life # "alive" => \A w \in Workers : pc[w] = "exited"

\* A server that stops has called the service for every request it took, waited
\* for it and handed over the response, also for those that were still queued.
ServedOnShutdown ==
  dtor = "destroyed" /\ Workers # {} =>
    \A r \in Requests : sub[r] # "idle" => service[r] = "done" /\ fpc[r] = "queued"

In(r, q) == \E n \in DOMAIN q : q[n] = r
Distinct(q) == \A m, n \in DOMAIN q : q[m] = q[n] => m = n

\* How far a request is: what is in the pool came from a connection; what was
\* handed to the loop went through the pool and its service is done; a response
\* waits in the loop at most once, and only while none was sent.
RequestInv ==
  /\ \A r \in Requests :
       /\ sub[r] # "thrown" /\ (from[r] = None => reply[r] = <<>> /\ sub[r] = "idle")
       /\ fpc[r] # "new" => service[r] = "done" /\ sub[r] # "idle"
       /\ reply[r] = <<"result">> => fpc[r] # "new"
       /\ In(r, functors) \/ In(r, pending) => reply[r] = <<>> /\ fpc[r] # "new"
       /\ ~ (In(r, functors) /\ In(r, pending))
       /\ runs[r] # 0 => fpc[r] = "queued"
  /\ Distinct(functors) /\ Distinct(pending)

\* The types of the server's own variables.
OwnTypes ==
  /\ conn \in [Conns -> {"new", "up", "down"}] /\ from \in [Requests -> Conns \cup {None}]
  /\ service \in [Requests -> {"idle", "called", "done"}]
  /\ reply \in [Requests -> {<<>>, <<"error">>, <<"result">>}]
  /\ life \in {"alive", "server", "loop"}

\* The inductive invariant of the server, with those of its components.
ServerInv ==
  /\ Pool!TypeOK /\ Pool!ControlInv /\ Pool!ExactlyOnce /\ Loop!EventLoopInv
  /\ OwnTypes /\ RequestInv /\ AnsweredOnce
  /\ stop => lpc = "returned"
  /\ life # "alive" => dtor = "destroyed"

Lost(r) == \E c \in Conns : from[r] = c /\ conn[c] = "down"

\* A request that was taken is answered, unless its connection is lost or the
\* server quits.
RequestsAnswered ==
  \A r \in Requests :
    (sub[r] = "notify") ~> (reply[r] # <<>> \/ Lost(r) \/ lpc = "returned")
=============================================================================
