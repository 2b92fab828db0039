----------------------------- MODULE TcpServer ------------------------------
(***************************************************************************)
(* net::TcpServer and the life of its net::TcpConnections: the loop thread *)
(* that accepts, reads, writes and closes, the threads that were handed a  *)
(* TcpConnectionPtr, and the peers.                                        *)
(*                                                                         *)
(* A connection object lives as long as somebody owns it: connections_, a  *)
(* thread, the guard of handle_event(), or a functor that captured a       *)
(* TcpConnectionPtr.  epoll, active_channels_ and the functor of shutdown()*)
(* have raw pointers.  Of the bytes only their number matters, counted in  *)
(* messages; how functors are handed over is the subject of EventLoop, and *)
(* epoll_wait(), which has a timeout, may return at any time.              *)
(***************************************************************************)
EXTENDS Naturals, Sequences, FiniteSets, Channel

CONSTANTS
  Conns,         \* connections; each is accepted at most once
  Users,         \* threads other than the loop's that get TcpConnectionPtrs
  UserOps,       \* what they do with them
  Listener,      \* accept_channel_ among the active channels
  None,
  MaxIn,         \* bound: messages in a receive buffer
  MaxOut,        \* bound: messages told apart in an output_buf_
  MaxFunctors    \* bound: functors in pending_functors_

ASSUME TcpAssumption ==
  /\ UserOps \subseteq {"post", "shutdown", "force_close"}
  /\ Listener \notin Conns /\ None \notin Conns \cup {Listener}
  /\ MaxIn \in Nat /\ MaxOut \in Nat \ {0} /\ MaxFunctors \in Nat

VARIABLES
  peer,         \* the other end: "none", "up", "fin" (sent FIN), "rst"
  inbox,        \* messages in the receive buffer of the socket
  room,         \* the send buffer of the socket has room
  state,        \* state_; "none" before the object exists
  chan,         \* channel_
  out,          \* messages in output_buf_
  fin,          \* ::shutdown(SHUT_WR) was called
  connections,  \* connections_
  accept,       \* accept_channel_
  held,         \* the connections a thread has a pointer to
  call,         \* what a thread does with one: it has looked at state_
  lpc,          \* where the loop thread is
  quit,         \* quit_
  active,       \* active_channels_, those still to be handled
  cur,          \* the channel in handle_event(), whose tie_ is locked
  todo,         \* for a channel, the callbacks revents_ asks for
  functors,     \* pending_functors_
  batch,        \* the vector in do_pending_functors()
  ran           \* how many of batch have been called

sockVars == <<peer, inbox, room>>
connVars == <<state, chan, out, fin, connections>>
userVars == <<held, call>>
pollVars == <<active, cur, todo>>
funcVars == <<functors, batch, ran>>
vars == <<sockVars, connVars, accept, userVars, lpc, quit, pollVars, funcVars>>

NoCall == [op |-> "none", conn |-> None]

Init ==
  /\ peer = [c \in Conns |-> "none"]
  /\ inbox = [c \in Conns |-> 0]
  /\ room = [c \in Conns |-> TRUE]
  /\ state = [c \in Conns |-> "none"]
  /\ chan = [c \in Conns |-> NewChannel]
  /\ out = [c \in Conns |-> 0]
  /\ fin = [c \in Conns |-> FALSE]
  /\ connections = {}
  /\ accept = NewChannel
  /\ held = [u \in Users |-> {}]
  /\ call = [u \in Users |-> NoCall]
  /\ lpc = "new"
  /\ quit = FALSE
  /\ active = {} /\ cur = None /\ todo = [c \in Conns |-> {}]
  /\ functors = <<>> /\ batch = <<>> /\ ran = 0

-----------------------------------------------------------------------------
(***************************************************************************)
(* Who owns a connection.                                                  *)
(***************************************************************************)
\* Functors that capture a TcpConnectionPtr; that of shutdown() captures this.
Owning == {"post", "force_close"}
Captures(q, ops, c) == \E i \in DOMAIN q : q[i].conn = c /\ q[i].op \in ops

\* Mutant of Alive: handle_event() does not lock tie_.
AliveUntied(c) ==
  \/ c \in connections
  \/ \E u \in Users : c \in held[u]
  \/ Captures(functors, Owning, c) \/ Captures(batch, Owning, c)

Alive(c) ==
  \/ c \in connections
  \/ \E u \in Users : c \in held[u]
  \/ cur = c
  \/ Captures(functors, Owning, c) \/ Captures(batch, Owning, c)

\* The bound on functors, queued or about to be.
MayQueue == Len(functors) + Cardinality({u \in Users : call[u] # NoCall}) < MaxFunctors

\* The socket is open: not accepted yet, or ~TcpConnection has not run.
Open(c) == state[c] = "none" \/ Alive(c)

-----------------------------------------------------------------------------
(***************************************************************************)
(* The peers, and the kernel.                                              *)
(***************************************************************************)
PeerConnect(c) ==
  /\ peer[c] = "none"
  /\ peer' = [peer EXCEPT ![c] = "up"]
  /\ UNCHANGED <<inbox, room>>

PeerSend(c) ==
  /\ peer[c] = "up" /\ Open(c) /\ inbox[c] < MaxIn
  /\ inbox' = [inbox EXCEPT ![c] = @ + 1]
  /\ UNCHANGED <<peer, room>>

PeerCloses(c) ==
  /\ peer[c] = "up" /\ Open(c)
  /\ peer' = [peer EXCEPT ![c] = "fin"]
  /\ UNCHANGED <<inbox, room>>

PeerResets(c) ==
  /\ peer[c] \in {"up", "fin"} /\ Open(c)
  /\ peer' = [peer EXCEPT ![c] = "rst"]
  /\ UNCHANGED <<inbox, room>>

PeerReads(c) ==
  /\ peer[c] # "none" /\ ~ room[c] /\ Open(c)
  /\ room' = [room EXCEPT ![c] = TRUE]
  /\ UNCHANGED <<peer, inbox>>

PeerStep ==
  /\ \E c \in Conns :
       PeerConnect(c) \/ PeerSend(c) \/ PeerCloses(c) \/ PeerResets(c) \/ PeerReads(c)
  /\ UNCHANGED <<connVars, accept, userVars, lpc, quit, pollVars, funcVars>>

-----------------------------------------------------------------------------
(***************************************************************************)
(* What TcpConnection does in the loop thread.  Each leaves alone what it  *)
(* does not mention of connVars and room.                                  *)
(***************************************************************************)
\* Mutant of handle_close: the connection is only unlinked.
handle_closeUnlinks(c) ==
  /\ state' = [state EXCEPT ![c] = "disconnected"]
  /\ connections' = connections \ {c}
  /\ UNCHANGED <<chan, out, fin, room>>

\* handle_close(), with close_cb_: remove_connection() and, run_in_loop()
\* being in the loop thread, connection_destroyed() at once.
handle_close(c) ==
  /\ state' = [state EXCEPT ![c] = "disconnected"]
  /\ chan' = [chan EXCEPT ![c] = remove(disable_all(@))]
  /\ connections' = connections \ {c}
  /\ UNCHANGED <<out, fin, room>>

\* write() fails: the peer is gone, or SHUT_WR was called.
Broken(c) == peer[c] = "rst" \/ fin[c]
Direct(c) == ~ is_writing(chan[c]) /\ out[c] = 0

\* send() and send_in_loop(): everything is written, or what is left (all, if
\* there is no room or output waits already) is buffered.
send(c) ==
  IF Direct(c) /\ Broken(c) THEN handle_close(c)
  ELSE /\ \/ Direct(c) /\ room[c] /\ UNCHANGED <<out, chan, room>>
          \/ /\ out' = [out EXCEPT ![c] = IF @ < MaxOut THEN @ + 1 ELSE @]
             /\ chan' = [chan EXCEPT ![c] = IF is_writing(@) THEN @ ELSE enable_writing(@)]
             /\ room' = [room EXCEPT ![c] = @ /\ ~ Direct(c)]
       /\ UNCHANGED <<state, fin, connections>>

\* Mutant of shutdown_in_loop: does not wait for the output.
shutdown_in_loopEager(c) == fin' = [fin EXCEPT ![c] = TRUE]

shutdown_in_loop(c) == fin' = [fin EXCEPT ![c] = @ \/ ~ is_writing(chan[c])]

\* Mutant of handle_write: leaves the FIN to somebody else.
handle_writeOnly(c) ==
  IF ~ is_writing(chan[c]) \/ Broken(c) \/ ~ room[c] THEN UNCHANGED <<connVars, room>>
  ELSE \E n \in 1 .. out[c] :
    /\ out' = [out EXCEPT ![c] = @ - n]
    /\ room' = [room EXCEPT ![c] = n = out[c]]
    /\ chan' = [chan EXCEPT ![c] = IF n = out[c] THEN disable_writing(@) ELSE @]
    /\ UNCHANGED <<state, fin, connections>>

\* handle_write(); a write() that fails or finds no room changes nothing.
handle_write(c) ==
  IF ~ is_writing(chan[c]) \/ Broken(c) \/ ~ room[c] THEN UNCHANGED <<connVars, room>>
  ELSE \E n \in 1 .. out[c] :
    /\ out' = [out EXCEPT ![c] = @ - n]
    /\ room' = [room EXCEPT ![c] = n = out[c]]
    /\ IF n = out[c]
       THEN /\ chan' = [chan EXCEPT ![c] = disable_writing(@)]
            /\ fin' = [fin EXCEPT ![c] = @ \/ state[c] = "disconnecting"]
       ELSE UNCHANGED <<chan, fin>>
    /\ UNCHANGED <<state, connections>>

-----------------------------------------------------------------------------
(***************************************************************************)
(* The loop thread.                                                        *)
(***************************************************************************)
\* start(), then EventLoop::loop().
Start ==
  /\ lpc = "new"
  /\ accept' = enable_reading(accept)
  /\ lpc' = "poll"
  /\ UNCHANGED <<sockVars, connVars, userVars, quit, pollVars, funcVars>>

\* What epoll reports of a channel: EPOLLIN and EPOLLOUT if asked for,
\* EPOLLERR and EPOLLHUP always.
Revents(c) ==
  {e \in chan[c].mask : \/ e = "in" /\ (inbox[c] > 0 \/ peer[c] \in {"fin", "rst"})
                        \/ e = "out" /\ (room[c] \/ peer[c] = "rst")}
  \cup {e \in {"err", "hup"} : peer[c] = "rst" \/ (e = "hup" /\ peer[c] = "fin" /\ fin[c])}

\* handle_event_with_guard(): the callbacks for revents.  (EPOLLERR and a lone
\* EPOLLHUP both lead to handle_close(), whose second call changes nothing.)
Callbacks(revents) ==
  {cb \in {"close", "read", "write"} :
     \/ cb = "close" /\ ("err" \in revents \/ ("hup" \in revents /\ "in" \notin revents))
     \/ cb = "read" /\ "in" \in revents
     \/ cb = "write" /\ "out" \in revents}

Ready   == {c \in Conns : chan[c].registered /\ Revents(c) # {}}
Backlog == {c \in Conns : peer[c] # "none" /\ state[c] = "none"}

\* EpollPoller::poll() and fill_active_channels()
Poll ==
  /\ lpc = "poll" /\ ~ quit
  /\ active' = Ready \cup (IF "in" \in accept.mask /\ Backlog # {} THEN {Listener} ELSE {})
  /\ todo' = [c \in Conns |-> IF c \in Ready THEN Callbacks(Revents(c)) ELSE {}]
  /\ lpc' = "dispatch"
  /\ UNCHANGED <<sockVars, connVars, accept, userVars, quit, cur, funcVars>>

\* handle_accept(): new_connection() and, in the loop thread, at once
\* connection_established(); or accept4() fails.
HandleAccept ==
  /\ lpc = "dispatch" /\ cur = None /\ Listener \in active
  /\ active' = active \ {Listener}
  /\ \/ \E c \in Backlog :
          /\ state' = [state EXCEPT ![c] = "connected"]
          /\ connections' = connections \cup {c}
          /\ chan' = [chan EXCEPT ![c] = enable_reading(@)]
          /\ UNCHANGED <<out, fin>>
     \/ UNCHANGED connVars
  /\ UNCHANGED <<sockVars, accept, userVars, lpc, quit, cur, todo, funcVars>>

\* Channel::handle_event(): tie_.lock() ...
HandleEvent(c) ==
  /\ lpc = "dispatch" /\ cur = None /\ c \in active
  /\ cur' = c
  /\ active' = active \ {c}
  /\ UNCHANGED <<sockVars, connVars, accept, userVars, lpc, quit, todo, funcVars>>

\* ... and its end, where the guard lets go of the connection.
EventHandled ==
  /\ lpc = "dispatch" /\ cur # None /\ todo[cur] = {}
  /\ cur' = None
  /\ UNCHANGED <<sockVars, connVars, accept, userVars, lpc, quit, active, todo, funcVars>>

\* The next callback of the channel is cb; they come in the order of the code.
Callback(cb) ==
  /\ lpc = "dispatch" /\ cur # None /\ cb \in todo[cur]
  /\ cb = "read" => "close" \notin todo[cur]
  /\ cb = "write" => todo[cur] = {"write"}
  /\ todo' = [todo EXCEPT ![cur] = @ \ {cb}]
  /\ UNCHANGED <<accept, userVars, quit, active, cur, funcVars>>

CloseCallback ==
  /\ Callback("close")
  /\ handle_close(cur)
  /\ UNCHANGED <<peer, inbox, lpc>>

\* Mutant of ReadCallback: a read() that returns 0 is no error.
ReadCallbackNoEnd ==
  /\ Callback("read")
  /\ IF inbox[cur] > 0
     THEN inbox' = [inbox EXCEPT ![cur] = 0] /\ lpc' = "msg_cb" /\ UNCHANGED <<connVars, room>>
     ELSE UNCHANGED <<connVars, room, inbox, lpc>>
  /\ UNCHANGED peer

\* handle_read(): msg_cb_ for what was read; the end of the stream, or an
\* error, closes.
ReadCallback ==
  /\ Callback("read")
  /\ IF inbox[cur] > 0
     THEN /\ inbox' = [inbox EXCEPT ![cur] = 0]
          /\ lpc' = "msg_cb"
          /\ UNCHANGED <<connVars, room>>
     ELSE handle_close(cur) /\ UNCHANGED <<inbox, lpc>>
  /\ UNCHANGED peer

WriteCallback ==
  /\ Callback("write")
  /\ handle_write(cur)
  /\ UNCHANGED <<peer, inbox, lpc>>

-----------------------------------------------------------------------------
(***************************************************************************)
(* msg_cb_ runs, on the connection it was called for, and returns.         *)
(***************************************************************************)
MsgSend ==
  /\ lpc = "msg_cb" /\ state[cur] = "connected"
  /\ send(cur)
  /\ UNCHANGED <<peer, inbox, accept, userVars, lpc, quit, pollVars, funcVars>>

MsgShutdown ==
  /\ lpc = "msg_cb" /\ state[cur] = "connected"
  /\ state' = [state EXCEPT ![cur] = "disconnecting"]
  /\ shutdown_in_loop(cur)
  /\ UNCHANGED <<sockVars, chan, out, connections, accept, userVars, lpc, quit, pollVars, funcVars>>

MsgForceClose ==
  /\ lpc = "msg_cb" /\ state[cur] \in {"connected", "disconnecting"}
  /\ MayQueue
  /\ state' = [state EXCEPT ![cur] = "disconnecting"]
  /\ functors' = Append(functors, [op |-> "force_close", conn |-> cur])
  /\ UNCHANGED <<sockVars, chan, out, fin, connections, accept, userVars, lpc, quit, pollVars,
                 batch, ran>>

\* The callback gives the TcpConnectionPtr to another thread.
MsgHandOut(u) ==
  /\ lpc = "msg_cb"
  /\ held' = [held EXCEPT ![u] = @ \cup {cur}]
  /\ UNCHANGED <<sockVars, connVars, accept, call, lpc, quit, pollVars, funcVars>>

MsgReturn ==
  /\ lpc = "msg_cb"
  /\ lpc' = "dispatch"
  /\ UNCHANGED <<sockVars, connVars, accept, userVars, quit, pollVars, funcVars>>

-----------------------------------------------------------------------------
(***************************************************************************)
(* Functors, the end of the loop and the destructors.                      *)
(***************************************************************************)
\* All active channels are handled: do_pending_functors() swaps.
Swap ==
  /\ lpc = "dispatch" /\ cur = None /\ active = {}
  /\ batch' = functors /\ functors' = <<>> /\ ran' = 0
  /\ lpc' = "functors"
  /\ UNCHANGED <<sockVars, connVars, accept, userVars, quit, pollVars>>

RunFunctor ==
  /\ lpc = "functors" /\ ran < Len(batch)
  /\ ran' = ran + 1
  /\ LET f == batch[ran + 1] IN
       CASE f.op = "force_close" -> handle_close(f.conn)
         [] f.op = "shutdown" ->
              shutdown_in_loop(f.conn) /\ UNCHANGED <<state, chan, out, connections, room>>
         [] f.op = "post" ->
              IF state[f.conn] = "connected" THEN send(f.conn) ELSE UNCHANGED <<connVars, room>>
  /\ UNCHANGED <<peer, inbox, accept, userVars, lpc, quit, pollVars, functors, batch>>

\* The vector, and what its functors captured, is destroyed.
FunctorsDone ==
  /\ lpc = "functors" /\ ran = Len(batch)
  /\ batch' = <<>> /\ ran' = 0
  /\ lpc' = "poll"
  /\ UNCHANGED <<sockVars, connVars, accept, userVars, quit, pollVars, functors>>

Quit ==
  /\ lpc \notin {"new", "returned", "destroyed", "gone"} /\ ~ quit
  /\ quit' = TRUE
  /\ UNCHANGED <<sockVars, connVars, accept, userVars, lpc, pollVars, funcVars>>

LoopReturns ==
  /\ lpc = "poll" /\ quit
  /\ lpc' = "returned"
  /\ UNCHANGED <<sockVars, connVars, accept, userVars, quit, pollVars, funcVars>>

\* ~TcpServer: connection_destroyed() on what is left, which close_cb_ does
\* not take part in.
Destroy ==
  /\ lpc = "returned"
  /\ accept' = remove(disable_all(accept))
  /\ state' = [c \in Conns |-> IF c \in connections /\ state[c] = "connected"
                               THEN "disconnected" ELSE state[c]]
  /\ chan' = [c \in Conns |->
                IF c \notin connections THEN chan[c]
                ELSE remove(IF state[c] = "connected" THEN disable_all(chan[c]) ELSE chan[c])]
  /\ connections' = {}
  /\ lpc' = "destroyed"
  /\ UNCHANGED <<sockVars, out, fin, userVars, quit, pollVars, funcVars>>

\* ~EventLoop: functors that never ran let go of what they captured.  No
\* thread is in a call any more.
DestroyLoop ==
  /\ lpc = "destroyed"
  /\ \A u \in Users : call[u] = NoCall
  /\ functors' = <<>>
  /\ lpc' = "gone"
  /\ UNCHANGED <<sockVars, connVars, accept, userVars, quit, pollVars, batch, ran>>

-----------------------------------------------------------------------------
(***************************************************************************)
(* Other threads with a TcpConnectionPtr.  shutdown() and force_close()    *)
(* look at state_ in one step and store it in another; "post" is           *)
(* run_in_loop([conn] { Codec::send(conn, ...) }).                         *)
(***************************************************************************)
UserLooks(u, c, op) ==
  /\ call[u] = NoCall /\ c \in held[u] /\ lpc # "gone" /\ MayQueue
  /\ op = "shutdown" => state[c] = "connected"
  /\ op = "force_close" => state[c] \in {"connected", "disconnecting"}
  /\ call' = [call EXCEPT ![u] = [op |-> op, conn |-> c]]
  /\ UNCHANGED <<sockVars, connVars, accept, held, lpc, quit, pollVars, funcVars>>

UserActs(u) ==
  /\ call[u] # NoCall
  /\ state' = IF call[u].op = "post" THEN state
              ELSE [state EXCEPT ![call[u].conn] = "disconnecting"]
  /\ functors' = Append(functors, call[u])
  /\ call' = [call EXCEPT ![u] = NoCall]
  /\ UNCHANGED <<sockVars, chan, out, fin, connections, accept, held, lpc, quit, pollVars, batch, ran>>

\* A thread lets go of its pointer, but not while the functor of its
\* shutdown(), which captured this, is on its way.
UserReleases(u, c) ==
  /\ c \in held[u] /\ call[u].conn # c
  /\ ~ Captures(functors, {"shutdown"}, c) /\ ~ Captures(batch, {"shutdown"}, c)
  /\ held' = [held EXCEPT ![u] = @ \ {c}]
  /\ UNCHANGED <<sockVars, connVars, accept, call, lpc, quit, pollVars, funcVars>>

LoopStep ==
  \/ Poll \/ HandleAccept \/ (\E c \in Conns : HandleEvent(c)) \/ EventHandled
  \/ CloseCallback \/ ReadCallback \/ WriteCallback \/ MsgReturn
  \/ Swap \/ RunFunctor \/ FunctorsDone \/ LoopReturns

Next ==
  \/ PeerStep
  \/ Start \/ LoopStep \/ Quit \/ Destroy \/ DestroyLoop
  \/ MsgSend \/ MsgShutdown \/ MsgForceClose \/ (\E u \in Users : MsgHandOut(u))
  \/ \E u \in Users : UserActs(u)
       \/ \E c \in Conns : UserReleases(u, c) \/ \E op \in UserOps : UserLooks(u, c, op)

Spec == Init /\ [][Next]_vars

\* The loop thread runs, callbacks return and the owner destroys the server
\* after quit(); threads finish their calls and let go of their pointers; the
\* peer reads what it is sent.  Nobody has to send, to close or to quit.
Fairness ==
  /\ WF_vars(Start) /\ WF_vars(LoopStep) /\ WF_vars(Destroy) /\ WF_vars(DestroyLoop)
  /\ \A u \in Users :
       /\ WF_vars(UserActs(u))
       /\ \A c \in Conns : SF_vars(UserReleases(u, c))
  /\ \A c \in Conns : WF_vars(PeerReads(c) /\ PeerStep)

FairSpec == Spec /\ Fairness

-----------------------------------------------------------------------------
(***************************************************************************)
(* Properties.                                                             *)
(***************************************************************************)
Functor == [op : UserOps \cup {"force_close"}, conn : Conns]

\* The types of the variables.
TypeOK ==
  /\ peer \in [Conns -> {"none", "up", "fin", "rst"}]
  /\ inbox \in [Conns -> 0 .. MaxIn] /\ room \in [Conns -> BOOLEAN]
  /\ state \in [Conns -> {"none", "connected", "disconnecting", "disconnected"}]
  /\ chan \in [Conns -> ChannelSet] /\ accept \in ChannelSet
  /\ out \in [Conns -> 0 .. MaxOut] /\ fin \in [Conns -> BOOLEAN]
  /\ connections \subseteq Conns
  /\ held \in [Users -> SUBSET Conns] /\ call \in [Users -> Functor \cup {NoCall}]
  /\ lpc \in {"new", "poll", "dispatch", "msg_cb", "functors", "returned", "destroyed", "gone"}
  /\ quit \in BOOLEAN
  /\ active \subseteq Conns \cup {Listener} /\ cur \in Conns \cup {None}
  /\ todo \in [Conns -> SUBSET {"close", "read", "write"}]
  /\ functors \in Seq(Functor) /\ batch \in Seq(Functor) /\ ran \in 0 .. Len(batch)

\* Whoever has a raw pointer to a connection finds it alive: epoll and
\* active_channels_, which point to its Channel, and the functor of shutdown(),
\* which points to itself, whichever thread lets go of the last pointer.
NoDangling ==
  \A c \in Conns :
    \/ chan[c].registered \/ c \in active \/ todo[c] # {}
    \/ Captures(functors, {"shutdown"}, c) \/ Captures(batch, {"shutdown"}, c)
    => Alive(c)

\* The channel of an open connection with n messages in output_buf_.
InStep(ch, n) ==
  /\ ch.registered /\ ch.index = "added" /\ ch.mask = ch.events
  /\ "in" \in ch.events /\ (is_writing(ch) <=> n > 0)

\* The poller's index_, the kernel's interest list and events_ agree, however
\* often a connection is closed: a connection in connections_ is registered for
\* reading, and for writing exactly while output is buffered; any other is not
\* registered, and ~Channel will find is_none_event().
EpollInSync ==
  \A c \in Conns : IF c \in connections THEN InStep(chan[c], out[c]) ELSE chan[c] = NewChannel

\* shutdown() flushes: a connection that has sent its FIN has no output left
\* and takes no more.
FlushedBeforeFin ==
  \A c \in connections : fin[c] => out[c] = 0 /\ state[c] = "disconnecting"

\* How far the loop is, and what it has in hand then.
LoopInv ==
  /\ lpc \notin {"dispatch", "msg_cb"} => active = {} /\ cur = None
  /\ lpc = "msg_cb" => cur # None
  /\ lpc # "functors" => batch = <<>>
  /\ active \subseteq connections \cup {Listener} /\ cur \notin active
  /\ \A c \in Conns : todo[c] # {} => c \in active \/ cur = c

\* A connection that does not exist yet is nowhere; one that is connected is in
\* connections_, also while other threads overwrite state_; the functor of
\* shutdown() finds a caller that keeps the connection, and state_ changed.
OwnerInv ==
  /\ \A c \in Conns : state[c] = "none" => ~ Alive(c) /\ out[c] = 0 /\ ~ fin[c]
  /\ \A c \in Conns : state[c] = "connected" => c \in connections
  /\ \A c \in connections : state[c] \in {"connected", "disconnecting"}
  /\ \A u \in Users : call[u] # NoCall => call[u].conn \in held[u]
  /\ \A c \in Conns :
       Captures(functors, {"shutdown"}, c) \/ Captures(batch, {"shutdown"}, c) =>
         /\ \E u \in Users : c \in held[u]
         /\ state[c] # "connected"

\* The inductive invariant.
TcpInv == TypeOK /\ EpollInSync /\ FlushedBeforeFin /\ LoopInv /\ OwnerInv

\* A connection whose peer has closed or reset it is closed and, when the
\* threads have let go of it, destroyed, with its socket.
LostIsDestroyed ==
  \A c \in Conns : (state[c] # "none" /\ peer[c] \in {"fin", "rst"}) ~> ~ Alive(c)

\* shutdown() and force_close() come to their end, whatever output waits and
\* however they race: the FIN is sent, or the connection is closed.
DisconnectEnds ==
  \A c \in Conns :
    (c \in connections /\ state[c] = "disconnecting") ~> (fin[c] \/ c \notin connections)
=============================================================================
