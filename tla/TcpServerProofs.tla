-------------------------- MODULE TcpServerProofs ---------------------------
(***************************************************************************)
(* Proofs about TcpServer: no raw pointer to a connection dangles, epoll   *)
(* and the channels agree, shutdown() flushes, and closing is final, for   *)
(* any connections, threads and bounds.                                    *)
(*                                                                         *)
(* First the lemmas on channels, on the operations of TcpConnection and on *)
(* the steps of the loop thread that work on connections, then the rest.   *)
(***************************************************************************)
EXTENDS TcpServer, TLAPS

(***************************************************************************)
(* Channels.                                                               *)
(***************************************************************************)
\* disable_all() either deletes the channel from epoll or adds it for nothing.
LEMMA DisableAll ==
  ASSUME NEW ch \in ChannelSet
  PROVE  /\ disable_all(ch) \in ChannelSet
         /\ disable_all(ch).events = {}
         /\ \/ disable_all(ch).index = "added"
            \/ disable_all(ch).index = "deleted" /\ ~ disable_all(ch).registered
               /\ disable_all(ch).mask = {}
<1>1. CASE ch.index = "added"
  BY <1>1, Zenon DEF disable_all, update_channel, Del, is_none_event, ChannelSet, Events
<1>2. CASE ch.index # "added" /\ ch.registered
  BY <1>2, Zenon DEF disable_all, update_channel, Add, ChannelSet, Events
<1>3. CASE ch.index # "added" /\ ~ ch.registered
  BY <1>3, Zenon DEF disable_all, update_channel, Add, ChannelSet, Events
<1>. QED
  BY <1>1, <1>2, <1>3

\* Channel::remove() leaves a channel as new, whatever it was registered for
\* and whatever index_ says.
LEMMA RemoveResets ==
  ASSUME NEW ch \in ChannelSet
  PROVE  remove(ch) = NewChannel
<1>. DEFINE d == disable_all(ch)
<1>1. /\ d \in ChannelSet /\ d.events = {}
      /\ d.index = "added" \/ (d.index = "deleted" /\ ~ d.registered /\ d.mask = {})
  BY DisableAll
<1>. HIDE DEF d
<1>2. remove_channel(d) = NewChannel
  <2>1. CASE d.index = "added"
    <3>1. remove_channel(d) = [[d EXCEPT !.registered = FALSE, !.mask = {}] EXCEPT !.index = "new"]
      BY <2>1 DEF remove_channel, Del
    <3>. QED
      BY <3>1, <1>1, Zenon DEF NewChannel, ChannelSet
  <2>2. CASE d.index # "added"
    <3>1. remove_channel(d) = [d EXCEPT !.index = "new"]
      BY <2>2 DEF remove_channel
    <3>. QED
      BY <3>1, <2>2, <1>1, Zenon DEF NewChannel, ChannelSet
  <2>. QED
    BY <2>1, <2>2
<1>. QED
  BY <1>2 DEF remove, d

\* disable_all() followed by remove(), as handle_close() does it.
LEMMA CloseResets ==
  ASSUME NEW ch \in ChannelSet
  PROVE  remove(disable_all(ch)) = NewChannel
BY RemoveResets, DisableAll

\* enable_reading() on a new channel registers it for reading.
LEMMA EnableReading ==
  enable_reading(NewChannel) =
    [events |-> {"in"}, index |-> "added", registered |-> TRUE, mask |-> {"in"}]
BY Zenon DEF enable_reading, update_channel, Add, Mod, Del, is_none_event, NewChannel, Events

\* A channel of an open connection, with or without write interest.
Reading(w) ==
  [events |-> {"in"} \cup w, index |-> "added", registered |-> TRUE, mask |-> {"in"} \cup w]

\* The two channels an open connection may have.
LEMMA OpenChannel ==
  ASSUME NEW ch \in ChannelSet, ch.registered, ch.index = "added", ch.mask = ch.events,
         "in" \in ch.events
  PROVE  ch = IF is_writing(ch) THEN Reading({"out"}) ELSE Reading({})
BY SMT, Z3 DEF is_writing, Reading, ChannelSet, Events

\* enable_writing() and disable_writing() switch between the two.
LEMMA Writing ==
  /\ enable_writing(Reading({})) = Reading({"out"})
  /\ disable_writing(Reading({"out"})) = Reading({})
<1>1. enable_writing(Reading({})) = Reading({"out"})
  BY Zenon DEF enable_writing, update_channel, Mod, is_none_event, Reading
<1>2. {"in", "out"} \ {"out"} = {"in"}
  OBVIOUS
<1>3. disable_writing(Reading({"out"})) = Reading({})
  BY <1>2, Zenon DEF disable_writing, update_channel, Mod, is_none_event, Reading
<1>. QED
  BY <1>1, <1>3

\* Both are channels, and so is a new one.
LEMMA ReadingIsChannel ==
  /\ NewChannel \in ChannelSet /\ Reading({}) \in ChannelSet /\ Reading({"out"}) \in ChannelSet
  /\ is_writing(Reading({"out"})) /\ ~ is_writing(Reading({})) /\ ~ is_writing(NewChannel)
BY DEF Reading, NewChannel, ChannelSet, Events, is_writing

-----------------------------------------------------------------------------
(***************************************************************************)
(* What the operations of TcpConnection do to epoll and to the output.     *)
(***************************************************************************)
ConnTypes ==
  /\ state \in [Conns -> {"none", "connected", "disconnecting", "disconnected"}]
  /\ chan \in [Conns -> ChannelSet]
  /\ out \in [Conns -> 0 .. MaxOut]
  /\ fin \in [Conns -> BOOLEAN]
  /\ connections \subseteq Conns

ConnInv == ConnTypes /\ EpollInSync /\ FlushedBeforeFin

\* The channel of a connection is one of three.
LEMMA ChannelCases ==
  ASSUME ConnTypes, EpollInSync, NEW c \in Conns
  PROVE  /\ c \notin connections => chan[c] = NewChannel
         /\ c \in connections /\ out[c] = 0 => chan[c] = Reading({})
         /\ c \in connections /\ out[c] # 0 => chan[c] = Reading({"out"})
         /\ is_writing(chan[c]) <=> c \in connections /\ out[c] # 0
<1>1. chan[c] \in ChannelSet /\ out[c] \in Nat
  BY SMT, Z3 DEF ConnTypes
<1>2. CASE c \notin connections
  BY <1>2, ReadingIsChannel DEF EpollInSync
<1>3. CASE c \in connections
  <2>1. /\ chan[c] = IF is_writing(chan[c]) THEN Reading({"out"}) ELSE Reading({})
        /\ is_writing(chan[c]) <=> out[c] > 0
    BY <1>1, <1>3, OpenChannel DEF EpollInSync, InStep
  <2>. QED
    BY <1>1, <1>3, <2>1, SMT, Z3
<1>. QED
  BY <1>2, <1>3

\* The converse: these channels are in step.
LEMMA ReadingInStep ==
  /\ InStep(Reading({}), 0)
  /\ \A n \in Nat \ {0} : InStep(Reading({"out"}), n)
BY SMT, Z3 DEF InStep, Reading, is_writing

\* handle_close(), on an open connection or again on a closed one.
LEMMA CloseStep ==
  ASSUME ConnInv, NEW c \in Conns, handle_close(c)
  PROVE  ConnInv'
<1>1. /\ state' = [state EXCEPT ![c] = "disconnected"]
      /\ chan' = [chan EXCEPT ![c] = NewChannel]
      /\ connections' = connections \ {c}
      /\ out' = out /\ fin' = fin
  BY CloseResets, Zenon DEF handle_close, ConnInv, ConnTypes
<1>2. ConnTypes'
  BY <1>1, ReadingIsChannel DEF ConnInv, ConnTypes
<1>3. EpollInSync'
  <2>1. \A d \in Conns :
        /\ d \notin connections' => chan'[d] = NewChannel
        /\ d \in connections' => d \in connections /\ chan'[d] = chan[d]
    BY <1>1, ChannelCases DEF ConnInv, ConnTypes
  <2>. QED
    BY <1>1, <2>1 DEF ConnInv, EpollInSync
<1>4. FlushedBeforeFin'
  BY <1>1 DEF ConnInv, ConnTypes, FlushedBeforeFin
<1>. QED
  BY <1>2, <1>3, <1>4 DEF ConnInv

\* send() on a connected connection.
LEMMA SendStep ==
  ASSUME ConnInv, NEW c \in connections, state[c] = "connected", MaxOut \in Nat \ {0}, send(c)
  PROVE  /\ ConnInv'
         /\ \/ handle_close(c)
            \/ UNCHANGED <<state, fin, connections>>
         /\ \A d \in Conns \ {c} : out'[d] = out[d] /\ fin'[d] = fin[d]
<1>1. c \in Conns
  BY DEF ConnInv, ConnTypes
<1>2. CASE handle_close(c)
  BY <1>1, <1>2, CloseStep, Zenon DEF handle_close
<1>3. CASE UNCHANGED <<out, chan, state, fin, connections>>
  BY <1>3 DEF ConnInv, ConnTypes, EpollInSync, FlushedBeforeFin
<1>4. CASE /\ out' = [out EXCEPT ![c] = IF @ < MaxOut THEN @ + 1 ELSE @]
           /\ chan' = [chan EXCEPT ![c] = IF is_writing(@) THEN @ ELSE enable_writing(@)]
           /\ UNCHANGED <<state, fin, connections>>
  <2>1. /\ out' \in [Conns -> 0 .. MaxOut] /\ out'[c] # 0
        /\ \A d \in Conns \ {c} : out'[d] = out[d]
    BY <1>4, <1>1, SMT, Z3 DEF ConnInv, ConnTypes
  <2>2. chan' = [chan EXCEPT ![c] = Reading({"out"})]
    BY <1>4, <1>1, ChannelCases, Writing, ReadingIsChannel, Zenon DEF ConnInv, ConnTypes
  <2>3. ConnTypes'
    BY <1>4, <2>1, <2>2, ReadingIsChannel, SMT, Z3 DEF ConnInv, ConnTypes
  <2>4. EpollInSync'
    <3>1. \A d \in Conns :
          /\ d \notin connections' => chan'[d] = NewChannel
          /\ d \in connections' /\ out'[d] = 0 => chan'[d] = Reading({})
          /\ d \in connections' /\ out'[d] # 0 => chan'[d] = Reading({"out"})
      BY <1>4, <1>1, <2>1, <2>2, ChannelCases, ZenonT(40) DEF ConnInv, ConnTypes
    <3>2. \A d \in Conns : d \in connections' => InStep(chan'[d], out'[d])
      <4>1. \A d \in Conns : out'[d] = 0 \/ out'[d] \in Nat \ {0}
        BY <2>3, SMT, Z3 DEF ConnTypes
      <4>. QED
        BY <3>1, <4>1, ReadingInStep
    <3>. QED
      BY <3>1, <3>2 DEF EpollInSync
  <2>5. FlushedBeforeFin'
    BY <1>4, <1>1, <2>1 DEF ConnInv, ConnTypes, FlushedBeforeFin
  <2>. QED
    BY <1>4, <2>1, <2>3, <2>4, <2>5 DEF ConnInv
<1>. QED
  BY <1>2, <1>3, <1>4 DEF send

\* handle_write(): the FIN goes out with the last message.
LEMMA WriteStep ==
  ASSUME ConnInv, NEW c \in Conns, handle_write(c),
         \A d \in connections : state[d] \in {"connected", "disconnecting"}
  PROVE  /\ ConnInv'
         /\ UNCHANGED <<state, connections>>
         /\ c \notin connections => UNCHANGED <<out, fin>>
         /\ \A d \in Conns \ {c} : out'[d] = out[d] /\ fin'[d] = fin[d]
<1>1. CASE UNCHANGED connVars
  BY <1>1 DEF connVars, ConnInv, ConnTypes, EpollInSync, FlushedBeforeFin
<1>2. CASE ~ UNCHANGED connVars
  <2>1. PICK n \in 1 .. out[c] :
          /\ out' = [out EXCEPT ![c] = @ - n]
          /\ IF n = out[c]
             THEN /\ chan' = [chan EXCEPT ![c] = disable_writing(@)]
                  /\ fin' = [fin EXCEPT ![c] = @ \/ state[c] = "disconnecting"]
             ELSE UNCHANGED <<chan, fin>>
          /\ UNCHANGED <<state, connections>>
          /\ is_writing(chan[c])
    BY <1>2 DEF handle_write, connVars
  <2>2. /\ c \in connections /\ chan[c] = Reading({"out"}) /\ ~ fin[c]
        /\ out[c] \in 1 .. MaxOut
    <3>1. c \in connections /\ out[c] # 0 /\ chan[c] = Reading({"out"})
      BY <2>1, ChannelCases DEF ConnInv
    <3>. QED
      BY <3>1, SMT, Z3 DEF ConnInv, ConnTypes, FlushedBeforeFin
  <2>3. /\ out' \in [Conns -> 0 .. MaxOut] /\ \A d \in Conns \ {c} : out'[d] = out[d]
        /\ n = out[c] => out'[c] = 0
        /\ n # out[c] => out'[c] \in Nat \ {0}
    <3>1. /\ out[c] - n \in 0 .. MaxOut /\ (n = out[c] => out[c] - n = 0)
          /\ n # out[c] => out[c] - n \in Nat \ {0}
      BY <2>2, TcpAssumption, SMT, Z3
    <3>. QED
      BY <2>1, <3>1 DEF ConnInv, ConnTypes
  <2>4. CASE n = out[c]
    <3>1. /\ chan' = [chan EXCEPT ![c] = Reading({})]
          /\ fin' = [fin EXCEPT ![c] = state[c] = "disconnecting"]
      BY <2>1, <2>2, <2>4, Writing, Zenon DEF ConnInv, ConnTypes
    <3>2. ConnTypes'
      BY <2>1, <2>3, <3>1, ReadingIsChannel DEF ConnInv, ConnTypes
    <3>3. EpollInSync'
      BY <2>1, <2>2, <2>3, <2>4, <3>1, ReadingInStep, ZenonT(40) DEF ConnInv, ConnTypes, EpollInSync
    <3>4. FlushedBeforeFin'
      BY <2>1, <2>2, <2>3, <2>4, <3>1 DEF ConnInv, ConnTypes, FlushedBeforeFin
    <3>. QED
      BY <2>1, <2>2, <2>3, <3>1, <3>2, <3>3, <3>4, Zenon DEF ConnInv, ConnTypes
  <2>5. CASE n # out[c]
    <3>1. UNCHANGED <<chan, fin>>
      BY <2>1, <2>5, Zenon
    <3>2. ConnTypes'
      BY <2>1, <2>3, <3>1, Zenon DEF ConnInv, ConnTypes
    <3>3. EpollInSync'
      BY <2>1, <2>2, <2>3, <2>5, <3>1, ReadingInStep, SMT, Z3 DEF ConnInv, ConnTypes, EpollInSync
    <3>4. FlushedBeforeFin'
      BY <2>1, <2>2, <2>3, <2>5, <3>1 DEF ConnInv, ConnTypes, FlushedBeforeFin
    <3>. QED
      BY <2>1, <2>2, <2>3, <3>1, <3>2, <3>3, <3>4 DEF ConnInv
  <2>. QED
    BY <2>4, <2>5, Zenon
<1>. QED
  BY <1>1, <1>2 DEF connVars

\* shutdown_in_loop(), for a connection whose state_ is kDisconnecting, or
\* that is closed.
LEMMA ShutdownStep ==
  ASSUME ConnInv, NEW c \in Conns, shutdown_in_loop(c), UNCHANGED <<chan, out, connections>>,
         state' \in [Conns -> {"none", "connected", "disconnecting", "disconnected"}],
         \A d \in Conns \ {c} : state'[d] = state[d],
         c \in connections => state'[c] = "disconnecting"
  PROVE  ConnInv'
<1>1. ConnTypes'
  BY Zenon DEF ConnInv, ConnTypes, shutdown_in_loop
<1>2. EpollInSync'
  BY DEF ConnInv, EpollInSync
<1>3. FlushedBeforeFin'
  <2>1. c \in connections /\ fin'[c] => out[c] = 0
    <3>1. out[c] = 0 \/ is_writing(chan[c]) \/ c \notin connections
      BY ChannelCases DEF ConnInv
    <3>. QED
      BY <3>1, Zenon DEF ConnInv, ConnTypes, FlushedBeforeFin, shutdown_in_loop
  <2>. QED
    BY <2>1 DEF ConnInv, ConnTypes, FlushedBeforeFin, shutdown_in_loop
<1>. QED
  BY <1>1, <1>2, <1>3 DEF ConnInv

-----------------------------------------------------------------------------
(***************************************************************************)
(* Owners.                                                                 *)
(***************************************************************************)
\* What a queue captures after a functor was appended.
LEMMA CapturesAppend ==
  ASSUME NEW q \in Seq(Functor), NEW f \in Functor, NEW ops, NEW c
  PROVE  Captures(Append(q, f), ops, c) <=> Captures(q, ops, c) \/ (f.conn = c /\ f.op \in ops)
<1>1. /\ DOMAIN Append(q, f) = 1 .. Len(q) + 1 /\ DOMAIN q = 1 .. Len(q) /\ Len(q) \in Nat
      /\ Append(q, f)[Len(q) + 1] = f
      /\ \A i \in 1 .. Len(q) : Append(q, f)[i] = q[i]
  BY SMT, Z3
<1>2. \A i \in 1 .. Len(q) + 1 : i \in 1 .. Len(q) \/ i = Len(q) + 1
  BY <1>1, SMT, Z3
<1>3. Len(q) + 1 \in 1 .. Len(q) + 1 /\ 1 .. Len(q) \subseteq 1 .. Len(q) + 1
  BY <1>1, SMT, Z3
<1>. QED
  BY <1>1, <1>2, <1>3, Zenon DEF Captures

\* An empty queue captures nothing.
LEMMA CapturesEmpty ==
  ASSUME NEW ops, NEW c
  PROVE  ~ Captures(<<>>, ops, c)
BY SMT, Z3 DEF Captures

\* What OwnerInv says of connections, when the owners of each stay or leave.
LEMMA OwnersStay ==
  ASSUME TypeOK, TypeOK', OwnerInv, UNCHANGED <<held, call, functors, batch>>,
         cur' # cur => cur' = None \/ state[cur'] # "none",
         \A c \in Conns : state'[c] = "none" =>
           state[c] = "none" /\ out'[c] = out[c] /\ fin'[c] = fin[c] /\ c \notin connections',
         \A c \in Conns : state'[c] = "connected" => c \in connections' /\ state[c] \in {"none", "connected"},
         \A c \in connections' : state'[c] \in {"connected", "disconnecting"}
  PROVE  OwnerInv'
<1>1. \A c \in Conns : state'[c] = "none" => ~ Alive(c)' /\ out'[c] = 0 /\ ~ fin'[c]
  <2>1. ASSUME NEW c \in Conns, state'[c] = "none" PROVE ~ Alive(c)'
    <3>1. state[c] = "none" /\ ~ Alive(c) /\ c \notin connections'
      BY <2>1, Zenon DEF OwnerInv
    <3>2. cur' # c
      BY <3>1, TcpAssumption, SMTT(40), Z3T(40) DEF TypeOK, Alive
    <3>. QED
      BY <3>1, <3>2, Zenon DEF Alive
  <2>. QED
    BY <2>1 DEF OwnerInv
<1>2. \A c \in Conns :
        Captures(functors', {"shutdown"}, c) \/ Captures(batch', {"shutdown"}, c) =>
          (\E u \in Users : c \in held'[u]) /\ state'[c] # "connected"
  <2>1. ASSUME NEW c \in Conns,
               Captures(functors, {"shutdown"}, c) \/ Captures(batch, {"shutdown"}, c)
        PROVE  (\E u \in Users : c \in held[u]) /\ state[c] # "connected" /\ state[c] # "none"
    BY <2>1 DEF OwnerInv, Alive
  <2>. QED
    BY <2>1, Zenon
<1>. QED
  BY <1>1, <1>2, Zenon DEF OwnerInv

-----------------------------------------------------------------------------
(***************************************************************************)
(* The invariant, in parts.                                                *)
(***************************************************************************)
RestTypes ==
  /\ peer \in [Conns -> {"none", "up", "fin", "rst"}]
  /\ inbox \in [Conns -> 0 .. MaxIn] /\ room \in [Conns -> BOOLEAN]
  /\ accept \in ChannelSet
  /\ held \in [Users -> SUBSET Conns] /\ call \in [Users -> Functor \cup {NoCall}]
  /\ lpc \in {"new", "poll", "dispatch", "msg_cb", "functors", "returned", "destroyed", "gone"}
  /\ quit \in BOOLEAN
  /\ active \subseteq Conns \cup {Listener} /\ cur \in Conns \cup {None}
  /\ todo \in [Conns -> SUBSET {"close", "read", "write"}]
  /\ functors \in Seq(Functor) /\ batch \in Seq(Functor) /\ ran \in 0 .. Len(batch)

\* The types of connections and of everything else, in this state ...
LEMMA Types == TypeOK <=> ConnTypes /\ RestTypes
BY Zenon DEF TypeOK, ConnTypes, RestTypes

\* ... and in the next.
LEMMA TypesNext == TypeOK' <=> ConnTypes' /\ RestTypes'
BY Zenon DEF TypeOK, ConnTypes, RestTypes

\* The invariant, as the lemmas on connections use it.
LEMMA Parts == TcpInv <=> ConnInv /\ RestTypes /\ LoopInv /\ OwnerInv
BY Types DEF TcpInv, ConnInv

\* The same in the next state.
LEMMA PartsNext == TcpInv' <=> ConnInv' /\ RestTypes' /\ LoopInv' /\ OwnerInv'
BY TypesNext DEF TcpInv, ConnInv

\* enable_reading() and remove() on the accept channel keep its type.
LEMMA AcceptType ==
  ASSUME NEW ch \in ChannelSet
  PROVE  enable_reading(ch) \in ChannelSet /\ remove(disable_all(ch)) \in ChannelSet
<1>1. enable_reading(ch) \in ChannelSet
  BY Zenon DEF enable_reading, update_channel, Add, Mod, Del, is_none_event, ChannelSet, Events
<1>. QED
  BY <1>1, CloseResets, ReadingIsChannel

-----------------------------------------------------------------------------
(***************************************************************************)
(* The loop thread works on connections.                                   *)
(***************************************************************************)
\* The loop thread works on connections: owners stay, callbacks are done, and
\* a connection is closed only when no active channel is left that is its own.
LEMMA WorkKeeps ==
  ASSUME TcpInv, ConnInv', RestTypes', UNCHANGED <<userVars, functors, batch, cur, active>>,
         lpc' = lpc \/ (lpc = "dispatch" /\ lpc' = "msg_cb" /\ cur # None),
         \A c \in Conns : todo'[c] # {} => todo[c] # {},
         connections' \subseteq connections,
         active \subseteq connections' \cup {Listener},
         \A c \in Conns : state'[c] = "none" =>
           state[c] = "none" /\ out'[c] = out[c] /\ fin'[c] = fin[c],
         \A c \in Conns : state'[c] = "connected" => c \in connections' /\ state[c] = "connected",
         \A c \in connections' : state'[c] \in {"connected", "disconnecting"}
  PROVE  TcpInv'
<1>1. LoopInv'
  BY Parts DEF LoopInv
<1>2. OwnerInv'
  <2>1. TypeOK /\ TypeOK' /\ OwnerInv
    BY Parts, Types, TypesNext, Zenon DEF ConnInv
  <2>2. \A c \in Conns : state[c] = "none" => c \notin connections
    BY <2>1, Zenon DEF OwnerInv, Alive
  <2>. QED
    BY <2>1, <2>2, OwnersStay, Zenon DEF userVars
<1>. QED
  BY <1>1, <1>2, PartsNext, Zenon

\* handle_close(), wherever the loop thread calls it.
LEMMA CloseKeeps ==
  ASSUME TcpInv, NEW c \in Conns, handle_close(c), c \notin active, RestTypes',
         UNCHANGED <<userVars, functors, batch, cur, active, lpc>>,
         \A d \in Conns : todo'[d] # {} => todo[d] # {}
  PROVE  TcpInv'
<1>1. ConnInv'
  BY Parts, CloseStep, Zenon
<1>2. /\ connections' = connections \ {c} /\ out' = out /\ fin' = fin
      /\ state'[c] = "disconnected" /\ \A d \in Conns \ {c} : state'[d] = state[d]
  BY Parts DEF handle_close, ConnInv, ConnTypes
<1>3. active \subseteq connections' \cup {Listener}
  BY <1>2, Parts DEF LoopInv
<1>4. \A d \in Conns :
        /\ state'[d] = "none" => state[d] = "none" /\ out'[d] = out[d] /\ fin'[d] = fin[d]
        /\ state'[d] = "connected" => d \in connections' /\ state[d] = "connected"
  BY <1>2, Parts, Zenon DEF OwnerInv
<1>5. \A d \in connections' : state'[d] \in {"connected", "disconnecting"}
  BY <1>2, Parts, Zenon DEF OwnerInv, ConnInv, ConnTypes
<1>. QED
  BY <1>1, <1>2, <1>3, <1>4, <1>5, WorkKeeps

\* send(), wherever the loop thread calls it.
LEMMA SendKeeps ==
  ASSUME TcpInv, NEW c \in Conns, state[c] = "connected", send(c), c \notin active, RestTypes',
         UNCHANGED <<userVars, functors, batch, cur, active, lpc, todo>>
  PROVE  TcpInv'
<1>1. c \in connections
  BY Parts, Zenon DEF OwnerInv
<1>2. /\ ConnInv' /\ (handle_close(c) \/ UNCHANGED <<state, fin, connections>>)
      /\ \A d \in Conns \ {c} : out'[d] = out[d] /\ fin'[d] = fin[d]
  BY <1>1, Parts, SendStep, TcpAssumption
<1>3. CASE handle_close(c)
  BY <1>3, CloseKeeps, Zenon
<1>4. CASE UNCHANGED <<state, fin, connections>>
  <2>1. active \subseteq connections' \cup {Listener}
    BY <1>4, Parts, Zenon DEF LoopInv
  <2>2. \A d \in Conns : state'[d] = "none" =>
          state[d] = "none" /\ out'[d] = out[d] /\ fin'[d] = fin[d]
    BY <1>2, <1>4, Zenon
  <2>3. /\ \A d \in Conns : state'[d] = "connected" => d \in connections' /\ state[d] = "connected"
        /\ \A d \in connections' : state'[d] \in {"connected", "disconnecting"}
    BY <1>4, Parts DEF OwnerInv
  <2>. QED
    <3>1. connections' \subseteq connections /\ lpc' = lpc
          /\ \A d \in Conns : todo'[d] # {} => todo[d] # {}
      BY <1>4, Zenon
    <3>. QED
      BY <1>2, <2>1, <2>2, <2>3, <3>1, WorkKeeps, Zenon
<1>. QED
  BY <1>2, <1>3, <1>4

\* The callbacks of an active channel.
LEMMA CallbackKeeps ==
  ASSUME TcpInv, CloseCallback \/ ReadCallback \/ WriteCallback
  PROVE  TcpInv'
<1>1. PICK cb : Callback(cb)
  BY Zenon DEF CloseCallback, ReadCallback, WriteCallback
<1>2. /\ lpc = "dispatch" /\ cur # None /\ cur \in Conns /\ cur \notin active
      /\ UNCHANGED <<userVars, functors, batch, cur, active>>
      /\ todo' \in [Conns -> SUBSET {"close", "read", "write"}]
      /\ \A d \in Conns : todo'[d] # {} => todo[d] # {}
  BY <1>1, Parts, Zenon DEF Callback, funcVars, LoopInv, RestTypes
<1>3. RestTypes'
  <2>1. room' \in [Conns -> BOOLEAN]
    BY <1>2, Parts, Zenon
       DEF CloseCallback, ReadCallback, WriteCallback, handle_close, handle_write, RestTypes
  <2>2. peer' = peer /\ inbox' \in [Conns -> 0 .. MaxIn] /\ (lpc' = lpc \/ lpc' = "msg_cb")
    <3>1. inbox' = inbox \/ inbox' = [inbox EXCEPT ![cur] = 0]
      BY DEF CloseCallback, ReadCallback, WriteCallback
    <3>2. inbox' \in [Conns -> 0 .. MaxIn]
      BY <3>1, Parts, TcpAssumption, SMTT(40), Z3T(40) DEF RestTypes
    <3>. QED
      BY <3>2 DEF CloseCallback, ReadCallback, WriteCallback
  <2>. QED
    BY <1>1, <1>2, <2>1, <2>2, Parts, SMT, Z3 DEF Callback, userVars, funcVars, RestTypes
<1>4. CASE CloseCallback
  BY <1>2, <1>3, <1>4, CloseKeeps DEF CloseCallback
<1>5. CASE ReadCallback
  <2>1. CASE handle_close(cur) /\ UNCHANGED <<inbox, lpc>>
    BY <1>2, <1>3, <2>1, CloseKeeps
  <2>2. CASE lpc' = "msg_cb" /\ UNCHANGED connVars
    <3>1. ConnInv'
      BY <2>2, Parts DEF connVars, ConnInv, ConnTypes, EpollInSync, FlushedBeforeFin
    <3>. QED
      BY <1>2, <1>3, <2>2, <3>1, Parts, WorkKeeps, Zenon DEF connVars, OwnerInv, LoopInv
  <2>. QED
    BY <1>5, <2>1, <2>2 DEF ReadCallback
<1>6. CASE WriteCallback
  <2>1. /\ ConnInv' /\ UNCHANGED <<state, connections>>
        /\ cur \notin connections => UNCHANGED <<out, fin>>
        /\ \A d \in Conns \ {cur} : out'[d] = out[d] /\ fin'[d] = fin[d]
    BY <1>2, <1>6, Parts, WriteStep, Zenon DEF WriteCallback, OwnerInv
  <2>2. \A d \in Conns : state[d] = "none" => d \notin connections
    BY Parts DEF OwnerInv, Alive
  <2>. QED
    BY <1>2, <1>3, <1>6, <2>1, <2>2, Parts, WorkKeeps, Zenon DEF WriteCallback, OwnerInv, LoopInv
<1>. QED
  BY <1>4, <1>5, <1>6, Zenon

\* What msg_cb_ does at once.
LEMMA MsgKeeps ==
  ASSUME TcpInv, MsgSend \/ MsgShutdown
  PROVE  TcpInv'
<1>1. /\ cur \in Conns /\ cur \notin active /\ state[cur] = "connected" /\ lpc' = lpc
      /\ UNCHANGED <<peer, inbox, accept, userVars, quit, pollVars, funcVars>>
  BY Parts, Zenon DEF MsgSend, MsgShutdown, sockVars, LoopInv, RestTypes
<1>2. cur \in connections
  BY <1>1, Parts, Zenon DEF OwnerInv
<1>3. RestTypes'
  <2>1. room' \in [Conns -> BOOLEAN]
    BY <1>1, Parts, Zenon DEF MsgSend, MsgShutdown, sockVars, send, handle_close, RestTypes
  <2>. QED
    BY <1>1, <2>1, Parts DEF RestTypes, userVars, pollVars, funcVars
<1>4. CASE MsgSend
  BY <1>1, <1>3, <1>4, SendKeeps, Zenon DEF MsgSend, pollVars, funcVars
<1>5. CASE MsgShutdown
  <2>1. /\ state' = [state EXCEPT ![cur] = "disconnecting"]
        /\ UNCHANGED <<chan, out, connections>> /\ shutdown_in_loop(cur)
        /\ state'[cur] = "disconnecting" /\ \A d \in Conns \ {cur} : state'[d] = state[d]
    BY <1>1, <1>5, Parts, Zenon DEF MsgShutdown, ConnInv, ConnTypes
  <2>2. ConnInv'
    BY <1>1, <2>1, Parts, ShutdownStep DEF ConnInv, ConnTypes
  <2>3. \A d \in Conns \ {cur} : fin'[d] = fin[d]
    BY <1>1, <2>1, Parts, Zenon DEF shutdown_in_loop, ConnInv, ConnTypes
  <2>4. \A d \in Conns :
        /\ state'[d] = "none" => state[d] = "none" /\ out'[d] = out[d] /\ fin'[d] = fin[d]
        /\ state'[d] = "connected" => d \in connections' /\ state[d] = "connected"
    BY <2>1, <2>3, Parts, Zenon DEF OwnerInv
  <2>5. \A d \in connections' : state'[d] \in {"connected", "disconnecting"}
    BY <2>1, Parts, Zenon DEF OwnerInv, ConnInv, ConnTypes
  <2>6. active \subseteq connections' \cup {Listener}
    BY <2>1, Parts, Zenon DEF LoopInv
  <2>7. /\ connections' \subseteq connections
        /\ \A d \in Conns : todo'[d] # {} => todo[d] # {}
        /\ UNCHANGED <<userVars, functors, batch, cur, active>>
    BY <1>1, <2>1, Zenon DEF pollVars, funcVars
  <2>. QED
    BY <1>1, <1>3, <2>2, <2>4, <2>5, <2>6, <2>7, WorkKeeps, Zenon
<1>. QED
  BY <1>4, <1>5, SMTT(40), Z3T(40)

\* A functor of the batch runs.
LEMMA FunctorKeeps ==
  ASSUME TcpInv, RunFunctor
  PROVE  TcpInv'
<1>. DEFINE f == batch[ran + 1]
<1>1. /\ f \in Functor /\ f.conn \in Conns /\ ran + 1 \in DOMAIN batch
      /\ ran + 1 \in 0 .. Len(batch)
      /\ f.op \in {"force_close", "shutdown", "post"}
  <2>1. batch \in Seq(Functor) /\ ran \in 0 .. Len(batch) /\ ran < Len(batch)
    BY Parts DEF RunFunctor, RestTypes
  <2>2. /\ ran + 1 \in DOMAIN batch /\ ran + 1 \in 0 .. Len(batch)
        /\ batch[ran + 1] \in Functor
    BY <2>1, SMT, Z3
  <2>. QED
    BY <2>2, TcpAssumption, Zenon DEF Functor
<1>2. /\ ran' = ran + 1 /\ lpc' = lpc /\ active = {}
      /\ UNCHANGED <<peer, inbox, accept, userVars, quit, pollVars, functors, batch>>
      /\ \/ f.op = "force_close" /\ handle_close(f.conn)
         \/ /\ f.op = "shutdown" /\ shutdown_in_loop(f.conn)
            /\ UNCHANGED <<state, chan, out, connections, room>>
         \/ f.op = "post" /\ state[f.conn] = "connected" /\ send(f.conn)
         \/ UNCHANGED <<connVars, room>>
  BY <1>1, Parts, Zenon DEF RunFunctor, LoopInv
<1>3. f.op = "shutdown" => Captures(batch, {"shutdown"}, f.conn)
  BY <1>1, Zenon DEF Captures
<1>. HIDE DEF f
<1>4. RestTypes'
  <2>1. room' \in [Conns -> BOOLEAN]
    <3>1. \/ room' = room
          \/ room' = [room EXCEPT ![f.conn] = @ /\ ~ Direct(f.conn)]
      BY <1>2 DEF handle_close, send
    <3>. QED
      BY <1>1, <3>1, Parts, Zenon DEF RestTypes
  <2>. QED
    BY <1>1, <1>2, <2>1, Parts DEF RestTypes, userVars, pollVars
<1>5. /\ UNCHANGED <<userVars, functors, batch, cur, active, lpc, todo>> /\ f.conn \notin active
      /\ \A d \in Conns : todo'[d] # {} => todo[d] # {}
  BY <1>2, Zenon DEF pollVars
<1>6. CASE handle_close(f.conn)
  BY <1>1, <1>4, <1>5, <1>6, CloseKeeps, Zenon
<1>7. CASE state[f.conn] = "connected" /\ send(f.conn)
  BY <1>1, <1>4, <1>5, <1>7, SendKeeps, Zenon
<1>8. CASE /\ f.op = "shutdown" /\ shutdown_in_loop(f.conn)
           /\ UNCHANGED <<state, chan, out, connections, room>>
  <2>1. state[f.conn] # "connected" /\ state[f.conn] # "none"
    BY <1>1, <1>3, <1>8, Parts, Zenon DEF OwnerInv, Alive
  <2>2. ConnInv'
    <3>1. f.conn \in connections => state'[f.conn] = "disconnecting"
      BY <1>8, <2>1, Parts, Zenon DEF OwnerInv
    <3>2. state' \in [Conns -> {"none", "connected", "disconnecting", "disconnected"}]
      BY <1>8, Parts DEF ConnInv, ConnTypes
    <3>. QED
      BY <1>1, <1>8, <3>1, <3>2, Parts, ShutdownStep, Zenon
  <2>3. \A d \in Conns \ {f.conn} : fin'[d] = fin[d]
    BY <1>8, Parts, Zenon DEF shutdown_in_loop, ConnInv, ConnTypes
  <2>4. \A d \in Conns :
        /\ state'[d] = "none" => state[d] = "none" /\ out'[d] = out[d] /\ fin'[d] = fin[d]
        /\ state'[d] = "connected" => d \in connections' /\ state[d] = "connected"
    BY <1>8, <2>1, <2>3, Parts, Zenon DEF OwnerInv
  <2>5. /\ \A d \in connections' : state'[d] \in {"connected", "disconnecting"}
        /\ active \subseteq connections' \cup {Listener} /\ connections' \subseteq connections
    BY <1>2, <1>8, Parts, Zenon DEF OwnerInv
  <2>. QED
    BY <1>4, <1>5, <2>2, <2>4, <2>5, WorkKeeps, Zenon
<1>9. CASE UNCHANGED <<connVars, room>>
  <2>1. ConnInv'
    BY <1>9, Parts DEF connVars, ConnInv, ConnTypes, EpollInSync, FlushedBeforeFin
  <2>2. UNCHANGED <<state, out, fin, connections>>
    BY <1>9 DEF connVars
  <2>3. /\ \A d \in connections' : state'[d] \in {"connected", "disconnecting"}
        /\ \A d \in Conns : state'[d] = "connected" => d \in connections' /\ state[d] = "connected"
        /\ active \subseteq connections' \cup {Listener}
    BY <1>2, <2>2, Parts, Zenon DEF OwnerInv
  <2>. QED
    BY <1>4, <1>5, <2>1, <2>2, <2>3, WorkKeeps, Zenon
<1>. QED
  BY <1>2, <1>6, <1>7, <1>8, <1>9, Zenon

-----------------------------------------------------------------------------

(***************************************************************************)
(* Every step keeps the invariant.                                         *)
(***************************************************************************)
\* Steps that leave the connections, their owners and the active channels alone.
LEMMA QuietStep ==
  ASSUME TcpInv, UNCHANGED <<connVars, userVars, pollVars, funcVars>>, RestTypes',
         lpc' # lpc => lpc' # "msg_cb" /\ (lpc' \in {"poll", "returned"} => lpc \in {"new", "poll"})
                       /\ (lpc' = "dispatch" => lpc = "msg_cb") /\ lpc # "functors"
                       /\ lpc' \in {"poll", "returned", "dispatch"}
  PROVE  TcpInv'
<1>1. ConnInv'
  BY Parts, Zenon DEF connVars, ConnInv, ConnTypes, EpollInSync, FlushedBeforeFin
<1>2. OwnerInv'
  BY Parts, Zenon DEF connVars, userVars, pollVars, funcVars, OwnerInv, Alive
<1>3. LoopInv'
  BY Parts, Zenon DEF connVars, pollVars, funcVars, LoopInv, RestTypes
<1>. QED
  BY <1>1, <1>2, <1>3, PartsNext, Zenon

\* The peers change nothing but their sockets.
LEMMA PeerKeeps ==
  ASSUME TcpInv, PeerStep
  PROVE  TcpInv'
<1>1. RestTypes'
  <2>1. PICK c \in Conns :
          PeerConnect(c) \/ PeerSend(c) \/ PeerCloses(c) \/ PeerResets(c) \/ PeerReads(c)
    BY DEF PeerStep
  <2>2. /\ peer' \in [Conns -> {"none", "up", "fin", "rst"}] /\ room' \in [Conns -> BOOLEAN]
        /\ inbox' \in [Conns -> 0 .. MaxIn]
    <3>1. CASE PeerSend(c)
      <4>1. inbox[c] + 1 \in 0 .. MaxIn
        BY <3>1, Parts, TcpAssumption, SMT, Z3 DEF PeerSend, RestTypes
      <4>. QED
        BY <3>1, <4>1, Parts, Zenon DEF PeerSend, RestTypes
    <3>2. CASE PeerConnect(c) \/ PeerCloses(c) \/ PeerResets(c) \/ PeerReads(c)
      BY <3>2, Parts, Zenon DEF PeerConnect, PeerCloses, PeerResets, PeerReads, RestTypes
    <3>. QED
      BY <2>1, <3>1, <3>2, Zenon
  <2>. QED
    BY <2>2, Parts, Zenon DEF PeerStep, userVars, pollVars, funcVars, RestTypes
<1>. QED
  BY <1>1, QuietStep, Zenon DEF PeerStep

\* The steps of the loop between polls, and quit().
LEMMA ControlKeeps ==
  ASSUME TcpInv, Start \/ MsgReturn \/ Quit \/ LoopReturns
  PROVE  TcpInv'
<1>1. CASE Start
  BY <1>1, QuietStep, Parts, AcceptType, Zenon DEF Start, RestTypes, sockVars, userVars, pollVars, funcVars
<1>2. CASE MsgReturn
  BY <1>2, QuietStep, Parts, Zenon DEF MsgReturn, RestTypes, sockVars, userVars, pollVars, funcVars
<1>3. CASE Quit
  BY <1>3, QuietStep, Parts, Zenon DEF Quit, RestTypes, sockVars, userVars, pollVars, funcVars
<1>4. CASE LoopReturns
  BY <1>4, QuietStep, Parts, Zenon DEF LoopReturns, RestTypes, sockVars, userVars, pollVars, funcVars
<1>. QED
  BY <1>1, <1>2, <1>3, <1>4, Zenon

\* epoll reports only channels that are registered.
LEMMA PollKeeps ==
  ASSUME TcpInv, Poll
  PROVE  TcpInv'
<1>1. ConnInv'
  BY Parts, Zenon DEF Poll, connVars, ConnInv, ConnTypes, EpollInSync, FlushedBeforeFin
<1>2. RestTypes'
  <2>1. Ready \subseteq Conns /\ \A r : Callbacks(r) \subseteq {"close", "read", "write"}
    BY Zenon DEF Ready, Callbacks
  <2>2. /\ active' \subseteq Conns \cup {Listener}
        /\ todo' \in [Conns -> SUBSET {"close", "read", "write"}]
    BY <2>1, Zenon DEF Poll
  <2>. QED
    BY <2>2, Parts, Zenon DEF Poll, RestTypes, sockVars, userVars, funcVars
<1>3. OwnerInv'
  BY Parts, Zenon DEF Poll, connVars, userVars, funcVars, OwnerInv, Alive
<1>4. LoopInv'
  <2>1. \A c \in Ready : c \in connections
    <3>1. ~ NewChannel.registered
      BY Zenon DEF NewChannel
    <3>. QED
      BY <3>1, Parts DEF Ready, ConnInv, EpollInSync
  <2>2. active' \subseteq connections \cup {Listener} /\ cur' = cur /\ lpc' = "dispatch"
        /\ batch' = batch /\ connections' = connections
    BY <2>1, Zenon DEF Poll, connVars, funcVars
  <2>3. \A c \in Conns : todo'[c] # {} => c \in active'
    BY DEF Poll
  <2>4. cur' \notin active'
    <3>1. cur = None /\ active' \subseteq Conns \cup {Listener}
      BY <1>2, Parts, Zenon DEF LoopInv, Poll, RestTypes
    <3>. QED
      BY <2>2, <3>1, TcpAssumption, Zenon
  <2>. QED
    BY <2>2, <2>3, <2>4, Parts, Zenon DEF LoopInv, Poll
<1>. QED
  BY <1>1, <1>2, <1>3, <1>4, PartsNext, Zenon

\* handle_event() takes and drops the guard.
LEMMA GuardKeeps ==
  ASSUME TcpInv, (\E c \in Conns : HandleEvent(c)) \/ EventHandled
  PROVE  TcpInv'
<1>1. /\ UNCHANGED <<sockVars, connVars, accept, userVars, lpc, quit, todo, funcVars>>
      /\ lpc = "dispatch"
      /\ \/ cur = None /\ cur' \in Conns /\ cur' \in active /\ active' = active \ {cur'}
         \/ cur # None /\ cur' = None /\ active' = active /\ todo[cur] = {}
  BY Zenon DEF HandleEvent, EventHandled
<1>2. ConnInv'
  BY <1>1, Parts, Zenon DEF connVars, ConnInv, ConnTypes, EpollInSync, FlushedBeforeFin
<1>3. RestTypes'
  BY <1>1, Parts, Zenon DEF RestTypes, sockVars, userVars, funcVars
<1>4. LoopInv'
  <2>1. /\ active' \subseteq active /\ cur' \notin active' /\ connections' = connections
        /\ lpc' = "dispatch" /\ batch' = <<>> /\ todo' = todo
    BY <1>1, Parts, TcpAssumption, Zenon DEF LoopInv, RestTypes, connVars, funcVars
  <2>2. \A c \in Conns : todo[c] # {} => c \in active' \/ cur' = c
    <3>1. \A c \in Conns : todo[c] # {} => c \in active \/ cur = c
      BY Parts, Zenon DEF LoopInv
    <3>2. CASE cur = None /\ active' = active \ {cur'}
      BY <3>1, <3>2, TcpAssumption
    <3>3. CASE cur # None /\ active' = active /\ todo[cur] = {}
      BY <3>1, <3>3, Zenon
    <3>. QED
      BY <1>1, <3>2, <3>3, Zenon
  <2>. QED
    BY <2>1, <2>2, Parts, Zenon DEF LoopInv
<1>5. OwnerInv'
  <2>1. cur' # cur => cur' = None \/ state[cur'] # "none"
    <3>1. cur' \in active => cur' \in connections \/ cur' = Listener
      BY Parts, Zenon DEF LoopInv
    <3>. QED
      BY <1>1, <3>1, Parts, TcpAssumption, Zenon DEF OwnerInv, Alive
  <2>2. TypeOK /\ TypeOK' /\ OwnerInv
    BY <1>2, <1>3, TypesNext, Parts, Types, Zenon DEF ConnInv
  <2>3. \A c \in Conns : state[c] = "none" => c \notin connections
    BY <2>2, Zenon DEF OwnerInv, Alive
  <2>. QED
    BY <1>1, <2>1, <2>2, <2>3, OwnersStay, Zenon DEF connVars, userVars, funcVars, OwnerInv
<1>. QED
  BY <1>2, <1>3, <1>4, <1>5, PartsNext, Zenon

\* A connection is accepted with a channel of its own, as new.
LEMMA AcceptKeeps ==
  ASSUME TcpInv, HandleAccept
  PROVE  TcpInv'
<1>1. /\ UNCHANGED <<sockVars, accept, userVars, lpc, quit, cur, todo, funcVars>>
      /\ active' = active \ {Listener} /\ lpc = "dispatch" /\ cur = None
  BY DEF HandleAccept
<1>2. CASE UNCHANGED connVars
  <2>1. ConnInv'
    BY <1>2, Parts, Zenon DEF connVars, ConnInv, ConnTypes, EpollInSync, FlushedBeforeFin
  <2>2. RestTypes'
    BY <1>1, Parts DEF RestTypes, sockVars, userVars, funcVars
  <2>3. LoopInv'
    BY <1>1, <1>2, Parts, TcpAssumption, Zenon DEF LoopInv, connVars, funcVars
  <2>4. OwnerInv'
    BY <1>1, <1>2, Parts DEF OwnerInv, Alive, connVars, userVars, funcVars
  <2>. QED
    BY <2>1, <2>2, <2>3, <2>4, PartsNext, Zenon
<1>3. ASSUME NEW c \in Backlog,
             state' = [state EXCEPT ![c] = "connected"], connections' = connections \cup {c},
             chan' = [chan EXCEPT ![c] = enable_reading(@)], UNCHANGED <<out, fin>>
      PROVE  TcpInv'
  <2>1. /\ c \in Conns /\ state[c] = "none" /\ ~ Alive(c) /\ out[c] = 0 /\ ~ fin[c]
        /\ c \notin connections
    BY Parts, Zenon DEF Backlog, OwnerInv, Alive
  <2>2. chan' = [chan EXCEPT ![c] = Reading({})]
    <3>1. chan[c] = NewChannel /\ enable_reading(NewChannel) = Reading({})
      BY <2>1, Parts, EnableReading, Zenon DEF ConnInv, EpollInSync, Reading
    <3>. QED
      BY <1>3, <3>1, <2>1, Parts, Zenon DEF ConnInv, ConnTypes
  <2>3. ConnTypes'
    BY <1>3, <2>1, <2>2, Parts, ReadingIsChannel, ZenonT(40) DEF ConnInv, ConnTypes
  <2>4. EpollInSync'
    BY <1>3, <2>1, <2>2, Parts, ReadingInStep, Zenon DEF ConnInv, ConnTypes, EpollInSync
  <2>5. FlushedBeforeFin'
    BY <1>3, <2>1, Parts, Zenon DEF ConnInv, ConnTypes, FlushedBeforeFin
  <2>6. RestTypes'
    BY <1>1, Parts DEF RestTypes, sockVars, userVars, funcVars
  <2>7. LoopInv'
    BY <1>1, <1>3, Parts, TcpAssumption, Zenon DEF LoopInv, funcVars
  <2>8. OwnerInv'
    <3>1. TypeOK /\ TypeOK' /\ OwnerInv
      BY <2>3, <2>6, TypesNext, Parts, Types, Zenon DEF ConnInv
    <3>2. \A d \in Conns \ {c} : state'[d] = state[d]
      BY <1>3, <2>1, Parts DEF ConnInv, ConnTypes
    <3>3. state'[c] = "connected"
      BY <1>3, <2>1, Parts, Zenon DEF ConnInv, ConnTypes
    <3>4. \A d \in Conns : state[d] = "none" => d \notin connections
      BY <3>1 DEF OwnerInv, Alive
    <3>5. \A d \in Conns : state'[d] = "none" =>
            state[d] = "none" /\ out'[d] = out[d] /\ fin'[d] = fin[d] /\ d \notin connections'
      BY <1>3, <3>2, <3>3, <3>4, Zenon
    <3>6. \A d \in Conns : state'[d] = "connected" =>
            d \in connections' /\ state[d] \in {"none", "connected"}
      BY <1>3, <2>1, <3>1, <3>2, Zenon DEF OwnerInv
    <3>7. \A d \in connections' : state'[d] \in {"connected", "disconnecting"}
      <4>1. connections \subseteq Conns
        BY Parts, Zenon DEF ConnInv, ConnTypes
      <4>. QED
        BY <1>3, <2>1, <3>1, <3>2, <3>3, <4>1, Zenon DEF OwnerInv
    <3>8. UNCHANGED <<held, call, functors, batch, cur>>
      BY <1>1, Zenon DEF userVars, funcVars
    <3>. QED
      BY <3>1, <3>5, <3>6, <3>7, <3>8, OwnersStay, Zenon
  <2>. QED
    BY <2>3, <2>4, <2>5, <2>6, <2>7, <2>8, PartsNext, Zenon DEF ConnInv
<1>. QED
  BY <1>2, <1>3, Zenon DEF HandleAccept

\* do_pending_functors() takes the functors over, and lets go of them.
LEMMA BatchKeeps ==
  ASSUME TcpInv, Swap \/ FunctorsDone \/ DestroyLoop
  PROVE  TcpInv'
<1>1. /\ UNCHANGED <<sockVars, connVars, accept, held, quit, pollVars, call>>
      /\ active = {} /\ cur = None
      /\ \/ batch' = functors /\ functors' = <<>> /\ batch = <<>> /\ ran' = 0 /\ lpc' = "functors"
         \/ batch' = <<>> /\ functors' = functors /\ ran' = 0 /\ lpc' = "poll"
         \/ batch' = batch /\ functors' = <<>> /\ ran' = ran /\ lpc' = "gone" /\ batch = <<>>
  BY Parts, Zenon DEF Swap, FunctorsDone, DestroyLoop, LoopInv, userVars
<1>2. ConnInv'
  BY <1>1, Parts, Zenon DEF connVars, ConnInv, ConnTypes, EpollInSync, FlushedBeforeFin
<1>3. RestTypes'
  <2>1. functors' \in Seq(Functor) /\ batch' \in Seq(Functor) /\ ran' \in 0 .. Len(batch')
    <3>1. functors \in Seq(Functor) /\ batch \in Seq(Functor) /\ ran \in 0 .. Len(batch)
      BY Parts DEF RestTypes
    <3>2. \A q \in Seq(Functor) : 0 \in 0 .. Len(q)
      BY SMT, Z3
    <3>3. <<>> \in Seq(Functor)
      BY SMTT(40), Z3T(40)
    <3>. QED
      BY <1>1, <3>1, <3>2, <3>3, Zenon
  <2>. QED
    BY <1>1, <2>1, Parts DEF RestTypes, sockVars, pollVars
<1>4. LoopInv'
  BY <1>1, Parts DEF LoopInv, connVars, pollVars
<1>5. \A ops, c : Captures(functors', ops, c) \/ Captures(batch', ops, c) =>
                 Captures(functors, ops, c) \/ Captures(batch, ops, c)
  BY <1>1, CapturesEmpty, Zenon
<1>6. OwnerInv'
  BY <1>1, <1>5, Parts, Zenon DEF OwnerInv, Alive, connVars, pollVars
<1>. QED
  BY <1>2, <1>3, <1>4, <1>6, PartsNext, Zenon

\* ~TcpServer leaves every channel as new.
LEMMA DestroyKeeps ==
  ASSUME TcpInv, Destroy
  PROVE  TcpInv'
<1>1. /\ UNCHANGED <<sockVars, out, fin, userVars, quit, pollVars, funcVars>>
      /\ connections' = {} /\ lpc' = "destroyed" /\ active = {} /\ cur = None /\ batch = <<>>
  BY Parts, Zenon DEF Destroy, LoopInv
<1>2. chan' = [c \in Conns |-> NewChannel]
  <2>1. \A c \in Conns :
          /\ chan[c] \in ChannelSet /\ disable_all(chan[c]) \in ChannelSet
          /\ c \notin connections => chan[c] = NewChannel
    BY Parts, DisableAll, Zenon DEF ConnInv, ConnTypes, EpollInSync
  <2>2. \A c \in Conns : remove(chan[c]) = NewChannel /\ remove(disable_all(chan[c])) = NewChannel
    BY <2>1, RemoveResets, Zenon
  <2>. QED
    BY <2>1, <2>2, Zenon DEF Destroy
<1>3. \A c \in Conns :
        state'[c] = IF c \in connections /\ state[c] = "connected" THEN "disconnected" ELSE state[c]
  BY Zenon DEF Destroy
<1>4. ConnInv'
  <2>1. ConnTypes'
    BY <1>1, <1>2, Parts, ReadingIsChannel, Zenon DEF Destroy, ConnInv, ConnTypes
  <2>. QED
    BY <1>1, <1>2, <2>1 DEF ConnInv, EpollInSync, FlushedBeforeFin
<1>5. RestTypes'
  BY <1>1, Parts, AcceptType, SMTT(40), Z3T(40) DEF Destroy, RestTypes, sockVars, userVars, pollVars, funcVars
<1>6. LoopInv'
  BY <1>1, Parts, Zenon DEF LoopInv, pollVars, funcVars
<1>7. OwnerInv'
  <2>1. \A c \in Conns : state'[c] # "connected" /\ (state'[c] = "none" => state[c] = "none")
    BY <1>3, Parts, Zenon DEF OwnerInv
  <2>. QED
    BY <1>1, <2>1, Parts, Zenon DEF OwnerInv, Alive, userVars, pollVars, funcVars
<1>. QED
  BY <1>4, <1>5, <1>6, <1>7, PartsNext

\* Pointers are handed out, kept for a call, and let go of.
LEMMA HolderKeeps ==
  ASSUME TcpInv, NEW u \in Users,
         \/ MsgHandOut(u)
         \/ \E c \in Conns : UserReleases(u, c) \/ \E op \in UserOps : UserLooks(u, c, op)
  PROVE  TcpInv'
<1>1. UNCHANGED <<sockVars, connVars, accept, lpc, quit, pollVars, funcVars>>
  BY Zenon DEF MsgHandOut, UserReleases, UserLooks
<1>2. ConnInv'
  BY <1>1, Parts DEF connVars, ConnInv, ConnTypes, EpollInSync, FlushedBeforeFin
<1>3. LoopInv'
  BY <1>1, Parts, Zenon DEF LoopInv, connVars, pollVars, funcVars
<1>4. CASE MsgHandOut(u)
  <2>1. /\ cur \in Conns /\ state[cur] # "none" /\ call' = call
        /\ held' = [held EXCEPT ![u] = @ \cup {cur}]
    BY <1>4, Parts, Zenon DEF MsgHandOut, LoopInv, RestTypes, OwnerInv, Alive
  <2>2. RestTypes'
    BY <1>1, <2>1, Parts, Zenon DEF RestTypes, sockVars, pollVars, funcVars
  <2>3. \A v \in Users : held[v] \subseteq held'[v] /\ held'[v] \subseteq held[v] \cup {cur}
    BY <2>1, Parts DEF RestTypes
  <2>4. OwnerInv'
    BY <1>1, <2>1, <2>3, Parts, Zenon DEF OwnerInv, Alive, connVars, pollVars, funcVars
  <2>. QED
    BY <1>2, <1>3, <2>2, <2>4, PartsNext, Zenon
<1>5. ASSUME NEW c \in Conns, UserReleases(u, c) PROVE TcpInv'
  <2>1. /\ held' = [held EXCEPT ![u] = @ \ {c}] /\ call' = call /\ call[u].conn # c
        /\ ~ Captures(functors, {"shutdown"}, c) /\ ~ Captures(batch, {"shutdown"}, c)
    BY <1>5, Zenon DEF UserReleases
  <2>2. RestTypes'
    BY <1>1, <2>1, Parts, Zenon DEF RestTypes, sockVars, pollVars, funcVars
  <2>3. \A v \in Users :
          /\ held'[v] \subseteq held[v]
          /\ \A d \in held[v] : d # c \/ v # u => d \in held'[v]
    BY <2>1, Parts DEF RestTypes
  <2>4. OwnerInv'
    BY <1>1, <2>1, <2>3, Parts, Zenon DEF OwnerInv, Alive, connVars, pollVars, funcVars
  <2>. QED
    BY <1>2, <1>3, <2>2, <2>4, PartsNext
<1>6. ASSUME NEW c \in Conns, NEW op \in UserOps, UserLooks(u, c, op) PROVE TcpInv'
  <2>1. /\ call' = [call EXCEPT ![u] = [op |-> op, conn |-> c]] /\ held' = held /\ c \in held[u]
        /\ [op |-> op, conn |-> c] \in Functor
    BY <1>6, Zenon DEF UserLooks, Functor
  <2>2. RestTypes'
    BY <1>1, <2>1, Parts DEF RestTypes, sockVars, pollVars, funcVars
  <2>3. \A v \in Users : call'[v] # NoCall => call'[v].conn \in held'[v]
    BY <2>1, Parts, Zenon DEF RestTypes, OwnerInv
  <2>4. OwnerInv'
    BY <1>1, <2>1, <2>3, Parts, Zenon DEF OwnerInv, Alive, connVars, pollVars, funcVars
  <2>. QED
    BY <1>2, <1>3, <2>2, <2>4, PartsNext
<1>. QED
  BY <1>4, <1>5, <1>6, Zenon

\* force_close() in msg_cb_, and the calls of other threads, queue a functor.
LEMMA QueueKeeps ==
  ASSUME TcpInv, MsgForceClose \/ \E u \in Users : UserActs(u)
  PROVE  TcpInv'
<1>1. PICK f \in Functor :
        /\ functors' = Append(functors, f) /\ Alive(f.conn)
        /\ \/ f.op = "post" /\ state' = state
           \/ state' = [state EXCEPT ![f.conn] = "disconnecting"]
        /\ f.op = "shutdown" => \E u \in Users : f.conn \in held[u]
  <2>1. CASE MsgForceClose
    <3>1. cur \in Conns
      BY <2>1, Parts, Zenon DEF MsgForceClose, LoopInv, RestTypes
    <3>2. /\ [op |-> "force_close", conn |-> cur] \in Functor /\ Alive(cur)
      BY <3>1, Zenon DEF Functor, Alive
    <3>. QED
      BY <2>1, <3>2, Zenon DEF MsgForceClose
  <2>2. ASSUME NEW u \in Users, UserActs(u)
        PROVE  /\ call[u] \in Functor /\ functors' = Append(functors, call[u])
               /\ call[u].conn \in held[u] /\ Alive(call[u].conn)
               /\ \/ call[u].op = "post" /\ state' = state
                  \/ state' = [state EXCEPT ![call[u].conn] = "disconnecting"]
    BY <2>2, Parts, Zenon DEF UserActs, RestTypes, OwnerInv, Alive
  <2>. QED
    BY <2>1, <2>2, Zenon
<1>2. f.conn \in Conns
  BY <1>1 DEF Functor
<1>3. /\ UNCHANGED <<sockVars, chan, out, fin, connections, accept, held, lpc, quit, pollVars, batch, ran>>
      /\ \A u \in Users : call'[u] # NoCall => call'[u] = call[u]
      /\ call' \in [Users -> Functor \cup {NoCall}]
  BY Parts, Zenon DEF MsgForceClose, UserActs, userVars, RestTypes
<1>4. /\ \A d \in Conns \ {f.conn} : state'[d] = state[d]
      /\ state'[f.conn] = "disconnecting" \/ (f.op = "post" /\ state' = state)
      /\ state' \in [Conns -> {"none", "connected", "disconnecting", "disconnected"}]
  BY <1>1, <1>2, Parts, Zenon DEF ConnInv, ConnTypes
<1>5. ConnInv'
  <2>1. ConnTypes'
    BY <1>3, <1>4, Parts, Zenon DEF ConnInv, ConnTypes
  <2>2. EpollInSync'
    BY <1>3, Parts, ZenonT(40) DEF ConnInv, EpollInSync
  <2>3. FlushedBeforeFin'
    BY <1>3, <1>4, Parts, Zenon DEF ConnInv, ConnTypes, FlushedBeforeFin
  <2>. QED
    BY <2>1, <2>2, <2>3 DEF ConnInv
<1>6. RestTypes'
  <2>1. functors \in Seq(Functor)
    BY Parts, Zenon DEF RestTypes
  <2>2. functors' \in Seq(Functor)
    BY <1>1, <2>1, SMT, Z3
  <2>. QED
    BY <1>3, <2>2, Parts, Zenon DEF RestTypes, sockVars, pollVars
<1>7. LoopInv'
  BY <1>3, Parts, Zenon DEF LoopInv, pollVars
<1>8. \A ops, c : Captures(functors', ops, c) <=>
                   Captures(functors, ops, c) \/ (f.conn = c /\ f.op \in ops)
  <2>1. functors \in Seq(Functor)
    BY Parts, Zenon DEF RestTypes
  <2>. QED
    BY <1>1, <2>1, CapturesAppend, Zenon
<1>9. OwnerInv'
  <2>1. \A c \in Conns : Alive(c)' => Alive(c)
    BY <1>1, <1>3, <1>8, Zenon DEF Alive, pollVars
  <2>2. \A c \in Conns : state'[c] = "none" => ~ Alive(c)' /\ out'[c] = 0 /\ ~ fin'[c]
    BY <1>1, <1>3, <1>4, <2>1, Parts, Zenon DEF OwnerInv
  <2>3. /\ \A c \in Conns : state'[c] = "connected" => c \in connections'
        /\ \A c \in connections' : state'[c] \in {"connected", "disconnecting"}
    BY <1>3, <1>4, Parts, Zenon DEF OwnerInv, ConnInv, ConnTypes
  <2>4. \A u \in Users : call'[u] # NoCall => call'[u].conn \in held'[u]
    BY <1>3, Parts, Zenon DEF OwnerInv
  <2>5. \A c \in Conns :
          Captures(functors', {"shutdown"}, c) \/ Captures(batch', {"shutdown"}, c) =>
            (\E u \in Users : c \in held'[u]) /\ state'[c] # "connected"
    <3>1. batch' = batch /\ held' = held
      BY <1>3, Zenon
    <3>2. \A c \in Conns :
            Captures(functors, {"shutdown"}, c) \/ Captures(batch, {"shutdown"}, c) =>
              (\E u \in Users : c \in held[u]) /\ state[c] # "connected"
      BY Parts, Zenon DEF OwnerInv
    <3>3. \A c \in Conns : state'[c] = "connected" => state[c] = "connected"
      BY <1>2, <1>4, Zenon
    <3>4. f.op = "shutdown" => (\E u \in Users : f.conn \in held[u]) /\ state'[f.conn] # "connected"
      BY <1>1, <1>4, Zenon
    <3>5. \A c : Captures(functors', {"shutdown"}, c) <=>
                   Captures(functors, {"shutdown"}, c) \/ (f.conn = c /\ f.op = "shutdown")
      BY <1>8, SMT, Z3
    <3>. QED
      BY <3>1, <3>2, <3>3, <3>4, <3>5, Zenon
  <2>. QED
    BY <2>2, <2>3, <2>4, <2>5, Zenon DEF OwnerInv
<1>. QED
  BY <1>5, <1>6, <1>7, <1>9, PartsNext

-----------------------------------------------------------------------------
\* A server that was not started, without connections.
LEMMA InitKeeps == Init => TcpInv
<1>. SUFFICES ASSUME Init PROVE TcpInv
  BY Zenon
<1>1. ConnInv
  BY ReadingIsChannel, TcpAssumption, SMT, Z3
     DEF Init, ConnInv, ConnTypes, EpollInSync, FlushedBeforeFin
<1>2. RestTypes
  <2>1. <<>> \in Seq(Functor) /\ 0 \in 0 .. Len(<<>>)
    BY SMT, Z3
  <2>2. 0 \in 0 .. MaxIn
    BY TcpAssumption, SMT, Z3
  <2>3. inbox \in [Conns -> 0 .. MaxIn] /\ call \in [Users -> Functor \cup {NoCall}]
    BY <2>2, Zenon DEF Init
  <2>. QED
    BY <2>1, <2>3, ReadingIsChannel, Zenon DEF Init, RestTypes
<1>3. LoopInv
  BY DEF Init, LoopInv
<1>4. OwnerInv
  BY CapturesEmpty, TcpAssumption, Zenon DEF Init, OwnerInv, Alive
<1>. QED
  BY <1>1, <1>2, <1>3, <1>4, Parts, Zenon

\* Every step of the server, of its users and of the peers keeps the invariant.
LEMMA NextKeeps == TcpInv /\ [Next]_vars => TcpInv'
<1>. SUFFICES ASSUME TcpInv, [Next]_vars PROVE TcpInv'
  OBVIOUS
<1>1. CASE PeerStep
  BY <1>1, PeerKeeps, Zenon
<1>2. CASE Start \/ Quit \/ LoopReturns \/ MsgReturn
  BY <1>2, ControlKeeps, Zenon
<1>3. CASE Poll
  BY <1>3, PollKeeps
<1>4. CASE (\E c \in Conns : HandleEvent(c)) \/ EventHandled
  BY <1>4, GuardKeeps, Zenon
<1>5. CASE HandleAccept
  BY <1>5, AcceptKeeps
<1>6. CASE CloseCallback \/ ReadCallback \/ WriteCallback
  BY <1>6, CallbackKeeps
<1>7. CASE MsgSend \/ MsgShutdown
  BY <1>7, MsgKeeps, Zenon
<1>8. CASE RunFunctor
  BY <1>8, FunctorKeeps
<1>9. CASE Swap \/ FunctorsDone \/ DestroyLoop
  BY <1>9, BatchKeeps
<1>10. CASE Destroy
  BY <1>10, DestroyKeeps
<1>11. ASSUME NEW u \in Users,
              \/ MsgHandOut(u)
              \/ \E c \in Conns : UserReleases(u, c) \/ \E op \in UserOps : UserLooks(u, c, op)
       PROVE  TcpInv'
  BY <1>11, HolderKeeps
<1>12. CASE MsgForceClose \/ \E u \in Users : UserActs(u)
  BY <1>12, QueueKeeps, Zenon
<1>13. CASE UNCHANGED vars
  BY <1>13, Parts, QuietStep DEF vars, sockVars, connVars, userVars, pollVars, funcVars, RestTypes
<1>. QED
  BY <1>1, <1>2, <1>3, <1>4, <1>5, <1>6, <1>7, <1>8, <1>9, <1>10, <1>11, <1>12, <1>13, Zenon
     DEF Next, LoopStep

\* The invariant holds of the server for any connections, threads and bounds.
THEOREM TcpInvariant == Spec => []TcpInv
BY InitKeeps, NextKeeps, PTL DEF Spec

\* No raw pointer to a connection dangles: not that of epoll, not those of
\* active_channels_, not the this of shutdown()'s functor.
THEOREM NeverDangles == Spec => []NoDangling
<1>1. TcpInv => NoDangling
  <2>. SUFFICES ASSUME TcpInv, NEW c \in Conns,
                       \/ chan[c].registered \/ c \in active \/ todo[c] # {}
                       \/ Captures(functors, {"shutdown"}, c) \/ Captures(batch, {"shutdown"}, c)
                PROVE  Alive(c)
    BY SMTT(40), Z3T(40) DEF NoDangling
  <2>1. CASE chan[c].registered
    <3>1. ~ NewChannel.registered
      BY Zenon DEF NewChannel
    <3>2. c \in connections
      BY <2>1, <3>1, Parts, Zenon DEF ConnInv, EpollInSync
    <3>. QED
      BY <3>2, Zenon DEF Alive
  <2>2. CASE c \in active \/ todo[c] # {}
    BY <2>2, Parts, TcpAssumption, Zenon DEF LoopInv, Alive
  <2>3. CASE Captures(functors, {"shutdown"}, c) \/ Captures(batch, {"shutdown"}, c)
    BY <2>3, Parts, Zenon DEF OwnerInv, Alive
  <2>. QED
    BY <2>1, <2>2, <2>3, SMTT(40), Z3T(40)
<1>. QED
  BY <1>1, TcpInvariant, PTL

\* events_, index_ and the kernel's interest list agree, however calls to
\* close a connection race; nothing stays registered after it.
THEOREM PollerAgrees == Spec => []EpollInSync
<1>1. TcpInv => EpollInSync
  BY DEF TcpInv
<1>. QED
  BY <1>1, TcpInvariant, PTL

\* shutdown() sends the FIN after the last message, and none follows.
THEOREM ShutdownFlushes == Spec => []FlushedBeforeFin
<1>1. TcpInv => FlushedBeforeFin
  BY DEF TcpInv
<1>. QED
  BY <1>1, TcpInvariant, PTL
-----------------------------------------------------------------------------
(***************************************************************************)
(* The end of a connection.                                                *)
(***************************************************************************)
\* The connection was accepted, and remove_connection() has been called.
Closed(c) == state[c] # "none" /\ c \notin connections

\* A step that leaves a closed connection closed and its output alone.
Stays(c) == Closed(c)' /\ out'[c] = out[c]

\* handle_close(), of this connection (again) or of another.
LEMMA CloseStays ==
  ASSUME TypeOK, NEW c \in Conns, Closed(c), NEW d \in Conns, handle_close(d)
  PROVE  Stays(c)
BY Zenon DEF Closed, Stays, handle_close, TypeOK

\* send(), of a connected connection and so of another.
LEMMA SendStays ==
  ASSUME TcpInv, NEW c \in Conns, Closed(c), NEW d \in Conns, state[d] = "connected", send(d)
  PROVE  Stays(c)
<1>1. d \in connections /\ c # d
  BY Zenon DEF TcpInv, OwnerInv, Closed
<1>2. MaxOut \in Nat \ {0}
  BY TcpAssumption, Zenon
<1>3. /\ handle_close(d) \/ UNCHANGED <<state, fin, connections>>
      /\ out'[c] = out[c]
  BY <1>1, <1>2, Parts, SendStep, Zenon
<1>. QED
  BY <1>3, CloseStays, Zenon DEF TcpInv, Closed, Stays

\* handle_write(), which does nothing on a closed connection.
LEMMA WriteStays ==
  ASSUME TcpInv, NEW c \in Conns, Closed(c), NEW d \in Conns, handle_write(d)
  PROVE  Stays(c)
<1>1. \A e \in connections : state[e] \in {"connected", "disconnecting"}
  BY Zenon DEF TcpInv, OwnerInv
<1>2. UNCHANGED <<state, connections>> /\ out'[c] = out[c]
  BY <1>1, Parts, WriteStep, Zenon DEF Closed
<1>. QED
  BY <1>2, Zenon DEF Closed, Stays

\* Whatever a thread stores in state_, the connection stays closed.
LEMMA StoreStays ==
  ASSUME TypeOK, NEW c \in Conns, Closed(c), NEW d, UNCHANGED <<connections, out>>,
         state' = state \/ state' = [state EXCEPT ![d] = "disconnecting"]
  PROVE  Stays(c)
BY Zenon DEF Closed, Stays, TypeOK

\* No step opens a closed connection again, or adds to its output.
LEMMA ClosedStep ==
  ASSUME TcpInv, [Next]_vars, NEW c \in Conns, Closed(c)
  PROVE  Stays(c)
<1>0. TypeOK
  BY Zenon DEF TcpInv
<1>1. CASE UNCHANGED connVars
  BY <1>1, Zenon DEF connVars, Closed, Stays
<1>2. CASE HandleAccept
  BY <1>0, <1>1, <1>2, Zenon DEF HandleAccept, Backlog, TypeOK, Closed, Stays
<1>3. CASE CloseCallback \/ ReadCallback \/ WriteCallback
  <2>1. cur \in Conns
    BY <1>0, <1>3, Zenon DEF CloseCallback, ReadCallback, WriteCallback, Callback, TypeOK
  <2>2. handle_close(cur) \/ handle_write(cur) \/ UNCHANGED connVars
    BY <1>3, Zenon DEF CloseCallback, ReadCallback, WriteCallback
  <2>. QED
    BY <1>0, <1>1, <2>1, <2>2, CloseStays, WriteStays, Zenon
<1>4. CASE MsgSend \/ MsgShutdown \/ MsgForceClose
  <2>1. cur \in Conns
    BY <1>0, <1>4, Zenon DEF MsgSend, MsgShutdown, MsgForceClose, TcpInv, LoopInv, TypeOK
  <2>2. CASE MsgSend
    BY <2>1, <2>2, SendStays, Zenon DEF MsgSend
  <2>3. CASE MsgShutdown \/ MsgForceClose
    BY <1>0, <2>3, StoreStays, Zenon DEF MsgShutdown, MsgForceClose
  <2>. QED
    BY <1>4, <2>2, <2>3, Zenon
<1>5. CASE RunFunctor
  <2>. DEFINE f == batch[ran + 1]
  <2>1. f \in Functor
    BY <1>0, <1>5, SMT, Z3 DEF RunFunctor, TypeOK
  <2>2. f.conn \in Conns /\ f.op \in {"post", "shutdown", "force_close"}
    <3>. HIDE DEF f
    <3>1. f.conn \in Conns /\ f.op \in UserOps \cup {"force_close"}
      BY <2>1, Zenon DEF Functor
    <3>. QED
      BY <3>1, TcpAssumption, Zenon
  <2>3. \/ handle_close(f.conn)
        \/ UNCHANGED <<state, connections, out>>
        \/ state[f.conn] = "connected" /\ send(f.conn)
    BY <1>5, <2>2, Zenon DEF RunFunctor, connVars
  <2>. QED
    BY <1>0, <2>2, <2>3, CloseStays, SendStays, StoreStays, Zenon
<1>6. CASE Destroy
  BY <1>6, Zenon DEF Destroy, Closed, Stays
<1>7. ASSUME NEW u \in Users, UserActs(u) PROVE Stays(c)
  BY <1>0, <1>7, StoreStays, Zenon DEF UserActs
<1>8. CASE PeerStep \/ Start \/ Quit \/ LoopReturns \/ MsgReturn \/ Poll \/ EventHandled
            \/ (\E d \in Conns : HandleEvent(d)) \/ Swap \/ FunctorsDone \/ DestroyLoop
  BY <1>1, <1>8, Zenon DEF PeerStep, Start, Quit, LoopReturns, MsgReturn, Poll, EventHandled, HandleEvent,
     Swap, FunctorsDone, DestroyLoop
<1>9. ASSUME NEW u \in Users,
             \/ MsgHandOut(u)
             \/ \E d \in Conns : UserReleases(u, d) \/ \E op \in UserOps : UserLooks(u, d, op)
      PROVE  Stays(c)
  BY <1>1, <1>9, Zenon DEF MsgHandOut, UserReleases, UserLooks
<1>10. CASE UNCHANGED vars
  BY <1>1, <1>10, Zenon DEF vars
<1>. QED
  BY <1>2, <1>3, <1>4, <1>5, <1>6, <1>7, <1>8, <1>9, <1>10, Zenon DEF Next, LoopStep

\* Closing is final.  However shutdown(), force_close(), posted responses and
\* events still race with it, and although the first two may overwrite the state_
\* that handle_close() stored, a connection that left connections_ is never
\* entered or registered in epoll again, and its output_buf_ is neither filled nor
\* written any more.
THEOREM ClosingIsFinal ==
  Spec => [][\A c \in Conns : Closed(c) =>
               Closed(c)' /\ chan'[c] = NewChannel /\ out'[c] = out[c]]_vars
<1>1. TcpInv /\ TcpInv' /\ [Next]_vars =>
        [\A c \in Conns : Closed(c) =>
           Closed(c)' /\ chan'[c] = NewChannel /\ out'[c] = out[c]]_vars
  <2>. SUFFICES ASSUME TcpInv, TcpInv', [Next]_vars, NEW c \in Conns, Closed(c)
                PROVE  Closed(c)' /\ chan'[c] = NewChannel /\ out'[c] = out[c]
    BY Zenon
  <2>1. Closed(c)' /\ out'[c] = out[c]
    BY ClosedStep, Zenon DEF Stays
  <2>2. chan'[c] = NewChannel
    BY <2>1, Zenon DEF Closed, TcpInv, EpollInSync
  <2>. QED
    BY <2>1, <2>2, Zenon
<1>. QED
  BY <1>1, TcpInvariant, PTL DEF Spec
=============================================================================
