----------------------------- MODULE RpcChannel -----------------------------
(***************************************************************************)
(* The client side of the framework: one RpcChannel object                 *)
(* (src/rpc/rpc_channel.cpp), the threads that run CallMethod on it, the   *)
(* detached reader thread that every successful connect() starts, the one  *)
(* thread that calls connect(), disconnect() and the destructor, and the   *)
(* server at the other end of the socket as the channel sees it.           *)
(*                                                                         *)
(* A step is a stretch of code between two accesses to state that another  *)
(* thread can change: an atomic load or store, one critical section of     *)
(* mu_, one system call.                                                   *)
(*                                                                         *)
(* Frames stand for bytes: a read returns one or more whole frames.  A     *)
(* write that the kernel cuts short leaves the stream unusable from that   *)
(* frame on.  The n-th call of connect() opens descriptor n.               *)
(***************************************************************************)
EXTENDS Integers, Sequences, FiniteSets

CONSTANTS
  Calls,            \* invocations of CallMethod, each by a thread of its own
  AsyncCalls,       \* the ones with a non-null done closure
  NoCall,           \* no call
  RequestIdSpace,   \* number of request ids: 2^32 for the uint32_t counter
  MaxConnects,      \* bound: how often connect() is called
  PeerFrames,       \* the kinds of frame the peer may send
  MaxNoise          \* bound: frames the peer sends that answer no request

NoFd      == -1
Conns     == 1 .. MaxConnects
Ids       == 0 .. RequestIdSpace - 1
SyncCalls == Calls \ AsyncCalls

\* "ok" and "err" answer a request (success, or !success with error_msg);
\* "badmagic" does not start with kMagicNumber; "noparse" is framed
\* correctly but is not an RpcResponse.
AnswerKinds == {"ok", "err"}
FrameKinds  == AnswerKinds \cup {"badmagic", "noparse"}

ASSUME CallsAssumption ==
  /\ AsyncCalls \subseteq Calls
  /\ NoCall \notin Calls
ASSUME BoundsAssumption ==
  /\ RequestIdSpace \in Nat \ {0, 1}
  /\ MaxConnects \in Nat
  /\ MaxNoise \in Nat
  /\ PeerFrames \subseteq FrameKinds

VARIABLES
  \* the channel object
  sockfd,           \* sockfd_
  connected,        \* connected_
  next_request_id,  \* next_request_id_
  pending_calls,    \* pending_calls_: id -> call, NoCall when absent
  conn_mu,          \* the call that holds conn_mu_ across a step
  alive,            \* FALSE once ~RpcChannel has run
  \* every CallMethod invocation
  pc,               \* where its thread is
  request_id,       \* its local request_id
  done_flag,        \* PendingCall::done_flag
  failed,           \* controller->Failed()
  response,         \* the request whose result was parsed into *response
  closures,         \* how often done->Run() was called
  \* the reader thread of every connection
  rd,               \* where it is
  rfd,              \* the descriptor its readv() was called with
  buf,              \* net::Buffer buf: frames read and not yet parsed
  cur,              \* on_message(): the RpcResponse resp
  target,           \* on_message(): the PendingCall taken out of the map
  \* the thread that owns the channel
  owner,            \* where it is
  attempts,         \* number of connect() calls so far
  \* sockets and the peer
  open,             \* descriptors not yet closed
  shut,             \* descriptors on which ::shutdown was called
  torn,             \* connections with a request cut short
  peer,             \* "none" before the connection, then "up", "closed"
  inbox,            \* requests the peer has received and not answered
  down,             \* frames on their way to the client
  noise             \* frames sent so far that answer no request

chanVars == <<sockfd, connected, next_request_id, pending_calls, conn_mu, alive>>
callVars == <<pc, request_id, done_flag, failed, response, closures>>
readVars == <<rd, rfd, buf, cur, target>>
ownVars  == <<owner, attempts>>
netVars  == <<open, shut, torn, peer, inbox, down, noise>>
vars     == <<chanVars, callVars, readVars, ownVars, netVars>>

Requests == [id : Ids, call : Calls]
Frames   == [kind : FrameKinds, id : Ids, call : Calls \cup {NoCall}]
NoFrame  == [kind |-> "noparse", id |-> 0, call |-> NoCall]

Init ==
  /\ sockfd = NoFd
  /\ connected = FALSE
  /\ next_request_id = 1
  /\ pending_calls = [i \in Ids |-> NoCall]
  /\ conn_mu = NoCall
  /\ alive = TRUE
  /\ pc = [c \in Calls |-> "idle"]
  /\ request_id = [c \in Calls |-> 0]
  /\ done_flag = [c \in Calls |-> FALSE]
  /\ failed = [c \in Calls |-> FALSE]
  /\ response = [c \in Calls |-> NoCall]
  /\ closures = [c \in Calls |-> 0]
  /\ rd = [k \in Conns |-> "none"]
  /\ rfd = [k \in Conns |-> NoFd]
  /\ buf = [k \in Conns |-> <<>>]
  /\ cur = [k \in Conns |-> NoFrame]
  /\ target = [k \in Conns |-> NoCall]
  /\ owner = "idle"
  /\ attempts = 0
  /\ open = {}
  /\ shut = {}
  /\ torn = {}
  /\ peer = [k \in Conns |-> "none"]
  /\ inbox = [k \in Conns |-> {}]
  /\ down = [k \in Conns |-> <<>>]
  /\ noise = 0

-----------------------------------------------------------------------------
(***************************************************************************)
(* CallMethod.                                                             *)
(***************************************************************************)

\* if (done) done->Run()
RunDone(c) == [closures EXCEPT ![c] = IF c \in AsyncCalls THEN @ + 1 ELSE @]

\* if (!is_connected()) { SetFailed("not connected"); done->Run(); return; }
CallMethod(c) ==
  /\ pc[c] = "idle"
  /\ IF connected
     THEN /\ pc' = [pc EXCEPT ![c] = "take_id"]
          /\ UNCHANGED <<failed, closures>>
     ELSE /\ pc' = [pc EXCEPT ![c] = "returned"]
          /\ failed' = [failed EXCEPT ![c] = TRUE]
          /\ closures' = RunDone(c)
  /\ UNCHANGED <<chanVars, request_id, done_flag, response, readVars, ownVars, netVars>>

\* Mutant of NextId: the increment is lost.
NextIdStuck(i) == i

\* What fetch_add(1) leaves in the counter: uint32_t arithmetic wraps around.
NextId(i) == IF i + 1 = RequestIdSpace THEN 0 ELSE i + 1

TakeId(c) ==
  /\ pc[c] = "take_id"
  /\ request_id' = [request_id EXCEPT ![c] = next_request_id]
  /\ next_request_id' = NextId(next_request_id)
  /\ pc' = [pc EXCEPT ![c] = "register"]
  /\ UNCHANGED <<sockfd, connected, pending_calls, conn_mu, alive,
                 done_flag, failed, response, closures, readVars, ownVars, netVars>>

\* pending_calls_[request_id] = pending, under mu_: replaces an older entry.
Register(c) ==
  /\ pc[c] = "register"
  /\ pending_calls' = [pending_calls EXCEPT ![request_id[c]] = c]
  /\ pc' = [pc EXCEPT ![c] = "write"]
  /\ UNCHANGED <<sockfd, connected, next_request_id, conn_mu, alive, request_id,
                 done_flag, failed, response, closures, readVars, ownVars, netVars>>

\* Descriptors on which neither end has ended the connection, and those on
\* which ::write may still accept bytes (after the peer's FIN it may).
Healthy  == {k \in open \ shut : peer[k] = "up"}
Writable == {k \in open \ shut : peer[k] # "none"}

AfterWrite(c) == IF c \in AsyncCalls THEN "returned" ELSE "waiting"

\* The kernel takes the whole frame.  A peer that has gone away, or that is
\* out of step after a truncated frame, never sees the request.
WriteWhole(c) ==
  /\ pc[c] = "write"
  /\ conn_mu = NoCall
  /\ sockfd \in Writable
  /\ pc' = [pc EXCEPT ![c] = AfterWrite(c)]
  /\ inbox' = IF sockfd \in Healthy \ torn
              THEN [inbox EXCEPT ![sockfd] = @ \cup {[id |-> request_id[c], call |-> c]}]
              ELSE inbox
  /\ UNCHANGED <<chanVars, request_id, done_flag, failed, response, closures,
                 readVars, ownVars, open, shut, torn, peer, down, noise>>

\* 0 <= written < wire.size(): the code takes it for success.
WriteShort(c) ==
  /\ pc[c] = "write"
  /\ conn_mu = NoCall
  /\ sockfd \in Writable
  /\ pc' = [pc EXCEPT ![c] = AfterWrite(c)]
  /\ torn' = torn \cup {sockfd}
  /\ UNCHANGED <<chanVars, request_id, done_flag, failed, response, closures,
                 readVars, ownVars, open, shut, peer, inbox, down, noise>>

\* written < 0: no such descriptor, not connected yet, shut down, or reset
\* by the peer.
WriteError(c) ==
  /\ pc[c] = "write"
  /\ conn_mu = NoCall
  /\ sockfd \notin Healthy
  /\ conn_mu' = c
  /\ pc' = [pc EXCEPT ![c] = "write_failed"]
  /\ UNCHANGED <<sockfd, connected, next_request_id, pending_calls, alive,
                 request_id, done_flag, failed, response, closures, readVars, ownVars, netVars>>

\* Still under conn_mu_, now also under mu_: erase(request_id),
\* SetFailed("write failed"), done->Run(), return.
WriteFailed(c) ==
  /\ pc[c] = "write_failed"
  /\ pending_calls' = [pending_calls EXCEPT ![request_id[c]] = NoCall]
  /\ failed' = [failed EXCEPT ![c] = TRUE]
  /\ closures' = RunDone(c)
  /\ conn_mu' = NoCall
  /\ pc' = [pc EXCEPT ![c] = "returned"]
  /\ UNCHANGED <<sockfd, connected, next_request_id, alive, request_id, done_flag,
                 response, readVars, ownVars, netVars>>

\* Mutant of Wake: cv.wait(lk) without the predicate.
WakeSpurious(c) ==
  /\ pc[c] = "waiting"
  /\ pc' = [pc EXCEPT ![c] = "returned"]
  /\ UNCHANGED <<chanVars, request_id, done_flag, failed, response, closures,
                 readVars, ownVars, netVars>>

\* pending->cv.wait(lk, [&]{ return pending->done_flag; })
Wake(c) ==
  /\ pc[c] = "waiting"
  /\ done_flag[c]
  /\ pc' = [pc EXCEPT ![c] = "returned"]
  /\ UNCHANGED <<chanVars, request_id, done_flag, failed, response, closures,
                 readVars, ownVars, netVars>>

\* What the thread of a call does once CallMethod is under way.
CallStep(c) ==
  \/ TakeId(c) \/ Register(c)
  \/ WriteWhole(c) \/ WriteShort(c) \/ WriteError(c) \/ WriteFailed(c)
  \/ Wake(c)

-----------------------------------------------------------------------------
(***************************************************************************)
(* The reader thread of connection k.                                      *)
(***************************************************************************)

\* while (connected_.load())
ReaderCheck(k) ==
  /\ rd[k] = "loop"
  /\ rd' = [rd EXCEPT ![k] = IF connected THEN "read" ELSE "exited"]
  /\ UNCHANGED <<chanVars, callVars, rfd, buf, cur, target, ownVars, netVars>>

\* buf.read_fd(sockfd_, ...): the member is read here, on every iteration.
ReaderRead(k) ==
  /\ rd[k] = "read"
  /\ rfd' = [rfd EXCEPT ![k] = sockfd]
  /\ rd' = [rd EXCEPT ![k] = "reading"]
  /\ UNCHANGED <<chanVars, callVars, buf, cur, target, ownVars, netVars>>

\* n > 0
ReaderData(k) ==
  /\ rd[k] = "reading"
  /\ rfd[k] \in open
  /\ \E n \in 1 .. Len(down[rfd[k]]) :
       /\ buf' = [buf EXCEPT ![k] = @ \o SubSeq(down[rfd[k]], 1, n)]
       /\ down' = [down EXCEPT ![rfd[k]] = SubSeq(@, n + 1, Len(@))]
  /\ rd' = [rd EXCEPT ![k] = "parse"]
  /\ UNCHANGED <<chanVars, callVars, rfd, cur, target, ownVars, open, shut, torn, peer, inbox, noise>>

\* n <= 0: end of stream, no such descriptor, not connected yet or reset.
\* connected_.store(false), whatever connection it now stands for.
ReaderEnd(k) ==
  /\ rd[k] = "reading"
  /\ rfd[k] \notin Healthy
  /\ connected' = FALSE
  /\ rd' = [rd EXCEPT ![k] = "sweep"]
  /\ UNCHANGED <<sockfd, next_request_id, pending_calls, conn_mu, alive,
                 callVars, rfd, buf, cur, target, ownVars, netVars>>

\* The calls with an entry in pending_calls_.
Pending == {c \in Calls : \E i \in Ids : pending_calls[i] = c}

\* Mutant of ReaderSweep: fails the calls but does not set done_flag.
ReaderSweepSilent(k) ==
  /\ rd[k] = "sweep"
  /\ failed' = [c \in Calls |-> failed[c] \/ c \in Pending]
  /\ rd' = [rd EXCEPT ![k] = "exited"]
  /\ UNCHANGED <<chanVars, pc, request_id, done_flag, response, closures,
                 rfd, buf, cur, target, ownVars, netVars>>

\* Under mu_: SetFailed("connection closed") and done_flag for every entry;
\* the entries stay in the map and no closure runs.  Then break.
ReaderSweep(k) ==
  /\ rd[k] = "sweep"
  /\ failed' = [c \in Calls |-> failed[c] \/ c \in Pending]
  /\ done_flag' = [c \in Calls |-> done_flag[c] \/ c \in Pending]
  /\ rd' = [rd EXCEPT ![k] = "exited"]
  /\ UNCHANGED <<chanVars, pc, request_id, response, closures, rfd, buf, cur, target, ownVars, netVars>>

\* while (buf.readable() >= kHeaderSize): no further frame.
ReaderDrained(k) ==
  /\ rd[k] = "parse"
  /\ buf[k] = <<>>
  /\ rd' = [rd EXCEPT ![k] = "loop"]
  /\ UNCHANGED <<chanVars, callVars, rfd, buf, cur, target, ownVars, netVars>>

\* Wrong magic number: connected_.store(false); return.
ReaderBadMagic(k) ==
  /\ rd[k] = "parse"
  /\ buf[k] # <<>>
  /\ Head(buf[k]).kind = "badmagic"
  /\ connected' = FALSE
  /\ rd' = [rd EXCEPT ![k] = "exited"]
  /\ UNCHANGED <<sockfd, next_request_id, pending_calls, conn_mu, alive,
                 callVars, rfd, buf, cur, target, ownVars, netVars>>

\* Mutant of Erase: the entry stays in the map.
EraseForgotten(id) == pending_calls

\* on_message(): ParseFromString, then find and erase under mu_.
Matches(f) == f.kind \in AnswerKinds /\ pending_calls[f.id] # NoCall
Erase(id)  == [pending_calls EXCEPT ![id] = NoCall]

OnMessage(k) ==
  /\ rd[k] = "parse"
  /\ buf[k] # <<>>
  /\ Head(buf[k]).kind # "badmagic"
  /\ buf' = [buf EXCEPT ![k] = Tail(@)]
  /\ LET f == Head(buf[k]) IN
       IF Matches(f)
       THEN /\ cur' = [cur EXCEPT ![k] = f]
            /\ target' = [target EXCEPT ![k] = pending_calls[f.id]]
            /\ pending_calls' = Erase(f.id)
            /\ rd' = [rd EXCEPT ![k] = "deliver"]
       ELSE UNCHANGED <<cur, target, pending_calls, rd>>
  /\ UNCHANGED <<sockfd, connected, next_request_id, conn_mu, alive,
                 callVars, rfd, ownVars, netVars>>

\* Outside any lock: parse result_data into *response, or SetFailed.
ReaderDeliver(k) ==
  /\ rd[k] = "deliver"
  /\ IF cur[k].kind = "ok"
     THEN /\ response' = [response EXCEPT ![target[k]] = cur[k].call]
          /\ UNCHANGED failed
     ELSE /\ failed' = [failed EXCEPT ![target[k]] = TRUE]
          /\ UNCHANGED response
  /\ rd' = [rd EXCEPT ![k] = "flag"]
  /\ UNCHANGED <<chanVars, pc, request_id, done_flag, closures,
                 rfd, buf, cur, target, ownVars, netVars>>

\* Mutant of ReaderFlag: notify_all without done_flag = true.
ReaderFlagForgotten(k) ==
  /\ rd[k] = "flag"
  /\ rd' = [rd EXCEPT ![k] = "run_done"]
  /\ UNCHANGED <<chanVars, callVars, rfd, buf, cur, target, ownVars, netVars>>

\* Under mu_: done_flag = true, notify_all.
ReaderFlag(k) ==
  /\ rd[k] = "flag"
  /\ done_flag' = [done_flag EXCEPT ![target[k]] = TRUE]
  /\ rd' = [rd EXCEPT ![k] = "run_done"]
  /\ UNCHANGED <<chanVars, pc, request_id, failed, response, closures,
                 rfd, buf, cur, target, ownVars, netVars>>

\* if (call->done) call->done->Run(), then on to the next frame.
ReaderRunDone(k) ==
  /\ rd[k] = "run_done"
  /\ closures' = RunDone(target[k])
  /\ rd' = [rd EXCEPT ![k] = "parse"]
  /\ UNCHANGED <<chanVars, pc, request_id, done_flag, failed, response,
                 rfd, buf, cur, target, ownVars, netVars>>

ReaderStep(k) ==
  \/ ReaderCheck(k) \/ ReaderRead(k) \/ ReaderData(k) \/ ReaderEnd(k) \/ ReaderSweep(k)
  \/ ReaderDrained(k) \/ ReaderBadMagic(k) \/ OnMessage(k)
  \/ ReaderDeliver(k) \/ ReaderFlag(k) \/ ReaderRunDone(k)

-----------------------------------------------------------------------------
(***************************************************************************)
(* The owner of the channel (a ServiceProxy): connect(), disconnect() and  *)
(* the destructor, one after the other.  It connects a channel only while  *)
(* it is not connected.                                                    *)
(***************************************************************************)

\* socket(); the member is set before the connection is made.
Connect ==
  /\ owner = "idle"
  /\ ~connected
  /\ attempts < MaxConnects
  /\ attempts' = attempts + 1
  /\ sockfd' = attempts + 1
  /\ open' = open \cup {attempts + 1}
  /\ owner' = "connecting"
  /\ UNCHANGED <<connected, next_request_id, pending_calls, conn_mu, alive,
                 callVars, readVars, shut, torn, peer, inbox, down, noise>>

\* Refused, timed out or SO_ERROR: close, sockfd_ = -1, return false.
ConnectFails ==
  /\ owner = "connecting"
  /\ open' = open \ {sockfd}
  /\ sockfd' = NoFd
  /\ owner' = "idle"
  /\ UNCHANGED <<connected, next_request_id, pending_calls, conn_mu, alive,
                 callVars, readVars, attempts, shut, torn, peer, inbox, down, noise>>

\* connected_.store(true), then the reader thread is started and detached.
Connected ==
  /\ owner = "connecting"
  /\ connected' = TRUE
  /\ peer' = [peer EXCEPT ![sockfd] = "up"]
  /\ rd' = [rd EXCEPT ![sockfd] = "loop"]
  /\ owner' = "idle"
  /\ UNCHANGED <<sockfd, next_request_id, pending_calls, conn_mu, alive,
                 callVars, rfd, buf, cur, target, attempts,
                 open, shut, torn, inbox, down, noise>>

\* if (connected_.exchange(false)): otherwise disconnect() does nothing.
Disconnect ==
  /\ owner = "idle"
  /\ connected
  /\ connected' = FALSE
  /\ owner' = "shutdown"
  /\ UNCHANGED <<sockfd, next_request_id, pending_calls, conn_mu, alive,
                 callVars, readVars, attempts, netVars>>

DisconnectShutdown ==
  /\ owner = "shutdown"
  /\ shut' = shut \cup {sockfd}
  /\ owner' = "close"
  /\ UNCHANGED <<chanVars, callVars, readVars, attempts, open, torn, peer, inbox, down, noise>>

\* ::close(sockfd_); sockfd_ = -1
DisconnectClose ==
  /\ owner = "close"
  /\ open' = open \ {sockfd}
  /\ sockfd' = NoFd
  /\ owner' = "idle"
  /\ UNCHANGED <<connected, next_request_id, pending_calls, conn_mu, alive,
                 callVars, readVars, attempts, shut, torn, peer, inbox, down, noise>>

\* ~RpcChannel after its disconnect(), when no thread is inside CallMethod.
\* The reader thread is detached: nothing waits for it.
Destroy ==
  /\ owner = "idle"
  /\ ~connected
  /\ \A c \in Calls : pc[c] \in {"idle", "returned"}
  /\ alive' = FALSE
  /\ UNCHANGED <<sockfd, connected, next_request_id, pending_calls, conn_mu,
                 callVars, readVars, ownVars, netVars>>

\* connect() and disconnect() once they are under way.
OwnerStep == ConnectFails \/ Connected \/ DisconnectShutdown \/ DisconnectClose

-----------------------------------------------------------------------------
(***************************************************************************)
(* The server, as far as the channel can tell: it answers the requests it  *)
(* has received in any order, or not at all, and may close the connection. *)
(***************************************************************************)
PeerAnswer(k) ==
  /\ peer[k] = "up"
  /\ \E r \in inbox[k], kind \in PeerFrames \cap AnswerKinds :
       /\ inbox' = [inbox EXCEPT ![k] = @ \ {r}]
       /\ down' = [down EXCEPT ![k] = Append(@, [kind |-> kind, id |-> r.id, call |-> r.call])]
  /\ UNCHANGED <<chanVars, callVars, readVars, ownVars, open, shut, torn, peer, noise>>

PeerNoise(k) ==
  /\ peer[k] = "up"
  /\ noise < MaxNoise
  /\ \E kind \in PeerFrames \ AnswerKinds :
       down' = [down EXCEPT ![k] = Append(@, [kind |-> kind, id |-> 0, call |-> NoCall])]
  /\ noise' = noise + 1
  /\ UNCHANGED <<chanVars, callVars, readVars, ownVars, open, shut, torn, peer, inbox>>

PeerClose(k) ==
  /\ peer[k] = "up"
  /\ peer' = [peer EXCEPT ![k] = "closed"]
  /\ inbox' = [inbox EXCEPT ![k] = {}]
  /\ UNCHANGED <<chanVars, callVars, readVars, ownVars, open, shut, torn, down, noise>>

-----------------------------------------------------------------------------
\* After ~RpcChannel the state is gone: the model ends there.
Next ==
  /\ alive
  /\ \/ \E c \in Calls : CallMethod(c) \/ CallStep(c)
     \/ \E k \in Conns : ReaderStep(k)
     \/ Connect \/ Disconnect \/ OwnerStep \/ Destroy
     \/ \E k \in Conns : PeerAnswer(k) \/ PeerNoise(k) \/ PeerClose(k)

Spec == Init /\ [][Next]_vars

\* The operating system runs every thread of the client; the user need not
\* call anything and the peer need not do anything.
Fairness ==
  /\ \A c \in Calls : WF_vars(alive /\ CallStep(c))
  /\ \A k \in Conns : WF_vars(alive /\ ReaderStep(k))
  /\ WF_vars(alive /\ OwnerStep)

FairSpec == Spec /\ Fairness

\* FairSpec with a peer that answers every request it has received.
FairPeerSpec == FairSpec /\ \A k \in Conns : WF_vars(alive /\ PeerAnswer(k))

-----------------------------------------------------------------------------
(***************************************************************************)
(* Properties.                                                             *)
(***************************************************************************)
CallPcs   == {"idle", "take_id", "register", "write", "write_failed", "waiting", "returned"}
ReaderPcs == {"none", "loop", "read", "reading", "sweep", "parse",
              "deliver", "flag", "run_done", "exited"}
Fds       == Conns \cup {NoFd}

\* The types of the variables; among them, that the counter of request ids
\* stays within its width and that a map entry names a call.
TypeOK ==
  /\ sockfd \in Fds
  /\ connected \in BOOLEAN
  /\ next_request_id \in Ids
  /\ pending_calls \in [Ids -> Calls \cup {NoCall}]
  /\ conn_mu \in Calls \cup {NoCall}
  /\ alive \in BOOLEAN
  /\ pc \in [Calls -> CallPcs]
  /\ request_id \in [Calls -> Ids]
  /\ done_flag \in [Calls -> BOOLEAN]
  /\ failed \in [Calls -> BOOLEAN]
  /\ response \in [Calls -> Calls \cup {NoCall}]
  /\ closures \in [Calls -> Nat]
  /\ rd \in [Conns -> ReaderPcs]
  /\ rfd \in [Conns -> Fds]
  /\ buf \in [Conns -> Seq(Frames)]
  /\ cur \in [Conns -> Frames]
  /\ target \in [Conns -> Calls \cup {NoCall}]
  /\ owner \in {"idle", "connecting", "shutdown", "close"}
  /\ attempts \in 0 .. MaxConnects
  /\ open \subseteq Conns
  /\ shut \subseteq Fds
  /\ torn \subseteq Conns
  /\ peer \in [Conns -> {"none", "up", "closed"}]
  /\ inbox \in [Conns -> SUBSET Requests]
  /\ down \in [Conns -> Seq(Frames)]
  /\ noise \in 0 .. MaxNoise

\* The call seen from outside.
Outcome == [c \in Calls |-> IF failed[c] THEN "failed"
                            ELSE IF response[c] # NoCall THEN "ok" ELSE "none"]
Answer   == [c \in Calls |-> IF failed[c] THEN NoCall ELSE response[c]]
Returned == [c \in Calls |-> pc[c] = "returned"]

Contract == INSTANCE RpcCall WITH outcome <- Outcome, answer <- Answer,
                                  returned <- Returned, closures <- closures

\* The channel keeps the promise of RpcCall: a call settles once, with the
\* answer to its own request or a failure; a synchronous call returns only
\* once settled; a closure runs at most once and only after that.
CallContract == Contract!Spec

\* The caller still keeps its controller and response alive.
Owned(c) == IF c \in AsyncCalls THEN closures[c] = 0 ELSE pc[c] # "returned"

\* The reader thread never follows a PendingCall's raw controller or response
\* pointer after the caller was told that its call is over: neither
\* in on_message() nor when it fails the calls of a lost connection.
NoTouchAfterReturn ==
  \A k \in Conns :
    /\ rd[k] = "deliver" => Owned(target[k])
    /\ rd[k] = "sweep" => \A c \in Pending : Owned(c)

\* A synchronous call whose entry is in the map when the reader thread fails
\* the pending calls does return, wherever its own thread was at that moment.
SweptCallsReturn ==
  \A c \in SyncCalls, k \in Conns :
    (rd[k] = "sweep" /\ c \in Pending) ~> (pc[c] = "returned")

\* CallMethod has returned, or the closure of an asynchronous call has run.
Complete(c) == IF c \in AsyncCalls THEN closures[c] > 0 ELSE pc[c] = "returned"

\* On a connection that stays up and whole, with a peer that answers, every
\* call that got past the is_connected() test completes, however the calls
\* and the reader thread interleave.
CallsComplete ==
  \A c \in Calls :
    (pc[c] = "take_id") ~> (Complete(c) \/ ~connected \/ torn # {})

(***************************************************************************)
(* What the repository says of the channel and the code does not do.       *)
(***************************************************************************)

\* rpc_channel.cpp:82, "Wake up any pending calls with an error", and :183,
\* "closure will be called from the reader thread": once the connection is
\* lost, no synchronous call keeps waiting for a response, and the closure of
\* an asynchronous call is run.
PendingCallsWoken ==
  \A c \in Calls :
    (pc[c] = (IF c \in AsyncCalls THEN "returned" ELSE "waiting") /\ ~connected)
      ~> (Complete(c) \/ ~alive)

\* rpc.proto:8, request ids are "monotonically increasing per connection": a
\* request is written after those with smaller ids.
WireOrder ==
  [][\A k \in Conns : \A r \in inbox'[k] \ inbox[k] : \A q \in inbox[k] : q.id < r.id]_vars

\* README.md:106, resources are managed by RAII throughout: a destroyed
\* channel has closed its sockets ...
SocketsReleased == ~alive => open = {}

\* ... and no thread of its own still uses it.
ReadersGone == ~alive => \A k \in Conns : rd[k] \in {"none", "exited"}

(***************************************************************************)
(* The inductive invariant behind CallContract.  It needs every call to    *)
(* have an id of its own, so it holds as long as the channel makes fewer   *)
(* calls than its 32-bit counter has values.                               *)
(***************************************************************************)
NoIdReuse == IsFiniteSet(Calls) /\ Cardinality(Calls) < RequestIdSpace

\* The calls that have taken a request id (the counter starts at 1).
Numbered == {c \in Calls : request_id[c] # 0}

IdsInv ==
  /\ next_request_id = IF Cardinality(Numbered) + 1 = RequestIdSpace
                       THEN 0 ELSE Cardinality(Numbered) + 1
  /\ \A c \in Calls : request_id[c] <= Cardinality(Numbered)
  /\ \A c, d \in Numbered : request_id[c] = request_id[d] => c = d
  /\ \A c \in Calls : pc[c] \in {"idle", "take_id"} => request_id[c] = 0
  /\ \A c \in Calls :
       pc[c] \in {"register", "write", "write_failed", "waiting"} => request_id[c] # 0

\* The request of c is on the wire: c has got past ::write.
Written(c) == c \in Calls /\ request_id[c] # 0 /\ pc[c] \in {"waiting", "returned"}

\* A frame that answers a request answers the one it was sent for.
Genuine(f) == f.kind \in AnswerKinds => Written(f.call) /\ f.id = request_id[f.call]

WireInv ==
  \A k \in Conns :
    /\ \A r \in inbox[k] : Written(r.call) /\ r.id = request_id[r.call]
    /\ \A n \in DOMAIN down[k] : Genuine(down[k][n])
    /\ \A n \in DOMAIN buf[k] : Genuine(buf[k][n])
    /\ Genuine(cur[k])

\* A map entry is a registered call that nobody has answered or told "done".
PendingInv ==
  \A i \in Ids : pending_calls[i] # NoCall =>
    LET c == pending_calls[i] IN
      /\ request_id[c] = i
      /\ i # 0
      /\ pc[c] \in {"write", "write_failed", "waiting", "returned"}
      /\ response[c] = NoCall
      /\ closures[c] = 0

\* on_message() works on a call that only it can still see.
AtWork(k) == rd[k] \in {"deliver", "flag", "run_done"}

DeliveryInv ==
  \A k \in Conns : AtWork(k) =>
    LET c == target[k] IN
      /\ cur[k].kind \in AnswerKinds
      /\ c = cur[k].call
      /\ \A i \in Ids : pending_calls[i] # c
      /\ \A j \in Conns : AtWork(j) /\ target[j] = c => j = k
      /\ closures[c] = 0
      /\ IF rd[k] = "deliver" THEN response[c] = NoCall
                              ELSE failed[c] \/ response[c] # NoCall

SettledInv ==
  \A c \in Calls :
    /\ done_flag[c] => failed[c] \/ response[c] # NoCall
    /\ response[c] # NoCall => response[c] = c /\ Written(c)
    /\ closures[c] # 0 => pc[c] = "returned"
    /\ pc[c] = "waiting" => c \notin AsyncCalls

\* connect() starts the readers in turn, each once: none runs again.
StartInv ==
  /\ \A k \in Conns : k > attempts => rd[k] = "none"
  /\ owner = "connecting" => attempts \in Conns /\ sockfd = attempts /\ rd[attempts] = "none"

\* The caller of a synchronous call has gone on or has been told that it may.
Over(c) == pc[c] = "returned" \/ done_flag[c]

\* No map entry, and no delivery that still uses it, points to the call.
Forgotten(c) ==
  /\ c \notin Pending
  /\ \A k \in Conns : rd[k] \in {"deliver", "flag"} => target[k] # c

\* A call is told "done" once its entry was made; and until a reader thread has
\* ended, nothing points to a synchronous call that is over.
OverInv ==
  /\ \A c \in Calls : done_flag[c] => pc[c] \in {"write", "write_failed", "waiting", "returned"}
  /\ (\A k \in Conns : rd[k] # "exited") => \A c \in SyncCalls : Over(c) => Forgotten(c)

\* No call is lost or mixed up between the threads that handle it: this is
\* what CallMethod, on_message() and the reader loop maintain together.
IInv == /\ TypeOK /\ IdsInv /\ WireInv /\ PendingInv /\ DeliveryInv /\ SettledInv
        /\ StartInv /\ OverInv
=============================================================================
