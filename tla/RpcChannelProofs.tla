-------------------------- MODULE RpcChannelProofs --------------------------
(***************************************************************************)
(* Theorems about the client channel: it is type-correct, and implements   *)
(* the contract of RpcCall, for every number of calls below the number of  *)
(* request ids, of connections and of frames.                              *)
(*                                                                         *)
(* CallContract is not inductive: that an answer goes to the call it is    *)
(* meant for rests on where ids, map entries and frames come from.  IInv   *)
(* says that, and the proof is that IInv is an invariant and that under it *)
(* every step of the channel is a step of RpcCall or leaves it unchanged.  *)
(***************************************************************************)
EXTENDS RpcChannel, TLAPS

USE DEF NoFd, Conns, Ids, Fds, CallPcs, ReaderPcs, AnswerKinds, FrameKinds

-----------------------------------------------------------------------------
(***************************************************************************)
(* Sequences.                                                              *)
(***************************************************************************)

\* What a sequence is.
LEMMA LenFacts ==
  ASSUME NEW S, NEW s \in Seq(S)
  PROVE  Len(s) \in Nat /\ DOMAIN s = 1 .. Len(s) /\ \A i \in 1 .. Len(s) : s[i] \in S
BY SMT, Z3

\* What concatenation makes of two sequences.
LEMMA JoinFacts ==
  ASSUME NEW S, NEW s \in Seq(S), NEW t \in Seq(S)
  PROVE  /\ s \o t \in Seq(S) /\ Len(s \o t) = Len(s) + Len(t)
         /\ \A i \in 1 .. Len(s) + Len(t) : (s \o t)[i] = IF i <= Len(s) THEN s[i] ELSE t[i - Len(s)]
BY SMT, Z3

\* What Append adds.
LEMMA AddFacts ==
  ASSUME NEW S, NEW s \in Seq(S), NEW e \in S
  PROVE  /\ Append(s, e) \in Seq(S) /\ Len(Append(s, e)) = Len(s) + 1
         /\ \A i \in 1 .. Len(s) : Append(s, e)[i] = s[i]
         /\ Append(s, e)[Len(s) + 1] = e
BY SMT, Z3

\* What is taken from a sequence, and what is left of it.
LEMMA RestFacts ==
  ASSUME NEW S, NEW s \in Seq(S), s # <<>>
  PROVE  Head(s) \in S /\ Tail(s) \in Seq(S)
BY SMT, Z3

\* What a part of a sequence consists of.
LEMMA PartFacts ==
  ASSUME NEW S, NEW s \in Seq(S), NEW m \in 1 .. Len(s) + 1, NEW n \in 0 .. Len(s), n >= m - 1
  PROVE  /\ SubSeq(s, m, n) \in Seq(S) /\ Len(SubSeq(s, m, n)) = n - m + 1
         /\ \A i \in 1 .. n - m + 1 : SubSeq(s, m, n)[i] = s[m + i - 1]
BY SMTT(40), Z3T(40)

-----------------------------------------------------------------------------
(***************************************************************************)
(* Type correctness.                                                       *)
(***************************************************************************)

\* RunDone(c) counts calls of the closure.
LEMMA RunDoneType ==
  ASSUME closures \in [Calls -> Nat], NEW c
  PROVE  RunDone(c) \in [Calls -> Nat]
<1>1. CASE c \in Calls
  BY <1>1, SMT, Z3 DEF RunDone
<1>2. CASE c \notin Calls
  BY <1>2, Zenon DEF RunDone
<1>. QED
  BY <1>1, <1>2

\* The request-id counter stays within its width.
LEMMA NextIdType ==
  ASSUME NEW i \in Ids
  PROVE  NextId(i) \in Ids
BY BoundsAssumption, SMT, Z3 DEF NextId

\* A prefix or suffix of a queue of frames is again one.
LEMMA FramesType ==
  ASSUME NEW s \in Seq(Frames), NEW n \in 1 .. Len(s)
  PROVE  /\ SubSeq(s, 1, n) \in Seq(Frames)
         /\ SubSeq(s, n + 1, Len(s)) \in Seq(Frames)
<1>1. Len(s) \in Nat
  BY LenFacts
<1>2. \A i \in 1 .. n : s[i] \in Frames
  BY <1>1, LenFacts, SMTT(40), Z3T(40)
<1>3. \A i \in n + 1 .. Len(s) : s[i] \in Frames
  BY <1>1, LenFacts, SMTT(40), Z3T(40)
<1>. QED
  BY <1>1, <1>2, <1>3, PartFacts, SMTT(40), Z3T(40)

\* A step of a thread inside CallMethod preserves the types.
LEMMA CallType ==
  ASSUME TypeOK, NEW c \in Calls, CallMethod(c) \/ CallStep(c)
  PROVE  TypeOK'
<1>. USE CallsAssumption, BoundsAssumption
     DEF TypeOK, chanVars, callVars, readVars, ownVars, netVars
<1>1. CASE CallMethod(c)
  <2>1. closures' \in [Calls -> Nat]
    BY <1>1, RunDoneType, SMTT(40), Z3T(40) DEF CallMethod
  <2>2. pc' \in [Calls -> CallPcs] /\ failed' \in [Calls -> BOOLEAN]
    BY <1>1, Zenon DEF CallMethod
  <2>. QED
    BY <1>1, <2>1, <2>2, Zenon DEF CallMethod
<1>2. CASE TakeId(c)
  BY <1>2, NextIdType, Zenon DEF TakeId
<1>3. CASE Register(c)
  BY <1>3, Zenon DEF Register
<1>4. CASE WriteWhole(c)
  <2>1. [id |-> request_id[c], call |-> c] \in Requests
    BY DEF Requests
  <2>2. inbox' \in [Conns -> SUBSET Requests]
    BY <1>4, <2>1, Zenon DEF WriteWhole
  <2>. QED
    BY <1>4, <2>2, Zenon DEF WriteWhole, AfterWrite
<1>5. CASE WriteShort(c)
  BY <1>5, Zenon DEF WriteShort, AfterWrite, Writable
<1>6. CASE WriteError(c)
  BY <1>6, Zenon DEF WriteError
<1>7. CASE WriteFailed(c)
  BY <1>7, RunDoneType, Zenon DEF WriteFailed
<1>8. CASE Wake(c)
  BY <1>8, ZenonT(40) DEF Wake
<1>. QED
  BY <1>1, <1>2, <1>3, <1>4, <1>5, <1>6, <1>7, <1>8, Zenon DEF CallStep

\* A step of a reader thread preserves the types.
LEMMA ReaderType ==
  ASSUME TypeOK, NEW k \in Conns, ReaderStep(k)
  PROVE  TypeOK'
<1>. USE CallsAssumption, BoundsAssumption
     DEF TypeOK, chanVars, callVars, readVars, ownVars, netVars
<1>1. CASE ReaderCheck(k)
  BY <1>1, Zenon DEF ReaderCheck
<1>2. CASE ReaderRead(k)
  BY <1>2, Zenon DEF ReaderRead
<1>3. CASE ReaderData(k)
  <2>1. rfd[k] \in Conns
    BY <1>3, Zenon DEF ReaderData
  <2>2. PICK n \in 1 .. Len(down[rfd[k]]) :
          /\ buf' = [buf EXCEPT ![k] = @ \o SubSeq(down[rfd[k]], 1, n)]
          /\ down' = [down EXCEPT ![rfd[k]] = SubSeq(@, n + 1, Len(@))]
    BY <1>3, Zenon DEF ReaderData
  <2>3. /\ SubSeq(down[rfd[k]], 1, n) \in Seq(Frames)
        /\ SubSeq(down[rfd[k]], n + 1, Len(down[rfd[k]])) \in Seq(Frames)
    BY <2>1, FramesType, Zenon
  <2>4. buf[k] \o SubSeq(down[rfd[k]], 1, n) \in Seq(Frames)
    BY <2>3, JoinFacts, Zenon
  <2>5. buf' \in [Conns -> Seq(Frames)] /\ down' \in [Conns -> Seq(Frames)]
    BY <2>1, <2>2, <2>3, <2>4, Zenon
  <2>. QED
    BY <1>3, <2>5, Zenon DEF ReaderData
<1>4. CASE ReaderEnd(k)
  BY <1>4, Zenon DEF ReaderEnd
<1>5. CASE ReaderSweep(k)
  BY <1>5, Zenon DEF ReaderSweep
<1>6. CASE ReaderDrained(k)
  BY <1>6, Zenon DEF ReaderDrained
<1>7. CASE ReaderBadMagic(k)
  BY <1>7, Zenon DEF ReaderBadMagic
<1>8. CASE OnMessage(k)
  <2>1. Head(buf[k]) \in Frames /\ Tail(buf[k]) \in Seq(Frames)
    BY <1>8, RestFacts, Zenon DEF OnMessage
  <2>2. Head(buf[k]).id \in Ids
    BY <2>1, Zenon DEF Frames
  <2>3. buf' \in [Conns -> Seq(Frames)]
    BY <1>8, <2>1, ZenonT(40) DEF OnMessage
  <2>4. CASE Matches(Head(buf[k]))
    <3>1. /\ cur' = [cur EXCEPT ![k] = Head(buf[k])]
          /\ target' = [target EXCEPT ![k] = pending_calls[Head(buf[k]).id]]
          /\ pending_calls' = Erase(Head(buf[k]).id)
          /\ rd' = [rd EXCEPT ![k] = "deliver"]
      BY <1>8, <2>4, Zenon DEF OnMessage
    <3>2. cur' \in [Conns -> Frames]
      BY <2>1, <3>1, Zenon
    <3>3. target' \in [Conns -> Calls \cup {NoCall}]
      BY <2>2, <3>1, Zenon
    <3>4. pending_calls' \in [Ids -> Calls \cup {NoCall}]
      BY <3>1, Zenon DEF Erase
    <3>5. rd' \in [Conns -> ReaderPcs]
      BY <3>1, Zenon
    <3>. QED
      BY <1>8, <2>3, <3>2, <3>3, <3>4, <3>5, Zenon DEF OnMessage
  <2>5. CASE ~Matches(Head(buf[k]))
    BY <1>8, <2>3, <2>5, Zenon DEF OnMessage
  <2>. QED
    BY <2>4, <2>5, Zenon
<1>9. CASE ReaderDeliver(k)
  <2>1. cur[k].call \in Calls \cup {NoCall}
    BY DEF Frames
  <2>. QED
    BY <1>9, <2>1, Zenon DEF ReaderDeliver
<1>10. CASE ReaderFlag(k)
  BY <1>10, Zenon DEF ReaderFlag
<1>11. CASE ReaderRunDone(k)
  BY <1>11, RunDoneType, Zenon DEF ReaderRunDone
<1>. QED
  BY <1>1, <1>2, <1>3, <1>4, <1>5, <1>6, <1>7, <1>8, <1>9, <1>10, <1>11, ZenonT(40) DEF ReaderStep

\* connect(), disconnect() and the destructor preserve the types.
LEMMA OwnerType ==
  ASSUME TypeOK, Connect \/ Disconnect \/ OwnerStep \/ Destroy
  PROVE  TypeOK'
<1>. USE CallsAssumption, BoundsAssumption
     DEF TypeOK, chanVars, callVars, readVars, ownVars, netVars
<1>1. CASE Connect
  <2>1. attempts + 1 \in Conns
    BY <1>1, SMT, Z3 DEF Connect
  <2>. QED
    BY <1>1, <2>1, SMTT(40), Z3T(40) DEF Connect
<1>2. CASE ConnectFails
  BY <1>2, Zenon DEF ConnectFails
<1>3. CASE Connected
  BY <1>3, Zenon DEF Connected
<1>4. CASE Disconnect
  BY <1>4, Zenon DEF Disconnect
<1>5. CASE DisconnectShutdown
  BY <1>5, Zenon DEF DisconnectShutdown
<1>6. CASE DisconnectClose
  BY <1>6, Zenon DEF DisconnectClose
<1>7. CASE Destroy
  BY <1>7, Zenon DEF Destroy
<1>. QED
  BY <1>1, <1>2, <1>3, <1>4, <1>5, <1>6, <1>7, Zenon DEF OwnerStep

\* A step of the peer preserves the types.
LEMMA PeerType ==
  ASSUME TypeOK, NEW k \in Conns, PeerAnswer(k) \/ PeerNoise(k) \/ PeerClose(k)
  PROVE  TypeOK'
<1>. USE CallsAssumption, BoundsAssumption
     DEF TypeOK, chanVars, callVars, readVars, ownVars, netVars
<1>1. CASE PeerAnswer(k)
  <2>1. PICK r \in inbox[k], kind \in PeerFrames \cap AnswerKinds :
          /\ inbox' = [inbox EXCEPT ![k] = @ \ {r}]
          /\ down' = [down EXCEPT ![k] = Append(@, [kind |-> kind, id |-> r.id, call |-> r.call])]
    BY <1>1, Zenon DEF PeerAnswer
  <2>2. r.id \in Ids /\ r.call \in Calls
    BY <2>1, SMTT(40), Z3T(40) DEF Requests
  <2>3. [kind |-> kind, id |-> r.id, call |-> r.call] \in Frames
    BY <2>1, <2>2, Zenon DEF Frames
  <2>4. Append(down[k], [kind |-> kind, id |-> r.id, call |-> r.call]) \in Seq(Frames)
    BY <2>3, AddFacts, SMTT(40), Z3T(40)
  <2>5. down' \in [Conns -> Seq(Frames)] /\ inbox' \in [Conns -> SUBSET Requests]
    BY <2>1, <2>4, Zenon
  <2>. QED
    BY <1>1, <2>5, Zenon DEF PeerAnswer
<1>2. CASE PeerNoise(k)
  <2>1. PICK kind \in PeerFrames \ AnswerKinds :
          down' = [down EXCEPT ![k] = Append(@, [kind |-> kind, id |-> 0, call |-> NoCall])]
    BY <1>2, Zenon DEF PeerNoise
  <2>2. [kind |-> kind, id |-> 0, call |-> NoCall] \in Frames
    BY <2>1, SMTT(40), Z3T(40) DEF Frames
  <2>3. Append(down[k], [kind |-> kind, id |-> 0, call |-> NoCall]) \in Seq(Frames)
    BY <2>2, AddFacts, Zenon
  <2>4. down' \in [Conns -> Seq(Frames)]
    BY <2>1, <2>3, Zenon
  <2>5. noise' \in 0 .. MaxNoise
    BY <1>2, SMTT(40), Z3T(40) DEF PeerNoise
  <2>. QED
    BY <1>2, <2>4, <2>5, Zenon DEF PeerNoise
<1>3. CASE PeerClose(k)
  BY <1>3, ZenonT(40) DEF PeerClose
<1>. QED
  BY <1>1, <1>2, <1>3, Zenon

\* Every variable of the channel keeps its type: in particular no map entry
\* is anything but a call and no id leaves the width of the counter.
THEOREM TypeCorrect == Spec => []TypeOK
<1>1. Init => TypeOK
  <2>. SUFFICES ASSUME Init
                PROVE  TypeOK
    BY Zenon
  <2>. USE CallsAssumption, BoundsAssumption DEF Init
  <2>1. NoFrame \in Frames
    BY SMT, Z3 DEF NoFrame, Frames
  <2>2. <<>> \in Seq(Frames)
    BY SMT, Z3
  <2>3. cur \in [Conns -> Frames]
    BY <2>1, Zenon
  <2>4. buf \in [Conns -> Seq(Frames)] /\ down \in [Conns -> Seq(Frames)]
    BY <2>2
  <2>5. request_id \in [Calls -> Ids] /\ closures \in [Calls -> Nat]
    BY SMT, Z3
  <2>6. /\ pending_calls \in [Ids -> Calls \cup {NoCall}]
        /\ pc \in [Calls -> CallPcs]
        /\ done_flag \in [Calls -> BOOLEAN] /\ failed \in [Calls -> BOOLEAN]
        /\ response \in [Calls -> Calls \cup {NoCall}]
    OBVIOUS
  <2>7. /\ rd \in [Conns -> ReaderPcs] /\ rfd \in [Conns -> Fds]
        /\ target \in [Conns -> Calls \cup {NoCall}]
        /\ peer \in [Conns -> {"none", "up", "closed"}]
        /\ inbox \in [Conns -> SUBSET Requests]
    OBVIOUS
  <2>8. next_request_id \in Ids /\ attempts \in 0 .. MaxConnects /\ noise \in 0 .. MaxNoise
    BY SMT, Z3
  <2>. QED
    BY <2>3, <2>4, <2>5, <2>6, <2>7, <2>8, Zenon DEF TypeOK
<1>2. TypeOK /\ [Next]_vars => TypeOK'
  <2>. SUFFICES ASSUME TypeOK, [Next]_vars
                PROVE  TypeOK'
    BY Zenon
  <2>1. CASE UNCHANGED vars
    BY <2>1, Zenon DEF TypeOK, vars, chanVars, callVars, readVars, ownVars, netVars
  <2>2. CASE Next
    BY <2>2, CallType, ReaderType, OwnerType, PeerType, Zenon DEF Next
  <2>. QED
    BY <2>1, <2>2, Zenon
<1>. QED
  BY <1>1, <1>2, PTL DEF Spec

-----------------------------------------------------------------------------
\* The part of IInv beyond the types.
Core == IdsInv /\ WireInv /\ PendingInv /\ DeliveryInv /\ SettledInv

\* The variables IInv speaks of.
coreVars == <<next_request_id, pending_calls, callVars, rd, buf, cur, target, inbox, down>>

-----------------------------------------------------------------------------
(***************************************************************************)
(* What steps have in common.                                              *)
(***************************************************************************)

\* A step that changes nothing the invariant mentions preserves it.
LEMMA CoreUnchanged ==
  ASSUME Core, UNCHANGED coreVars
  PROVE  Core'
BY SMT, Z3 DEF Core, coreVars, callVars, IdsInv, Numbered, WireInv, Written, Genuine, PendingInv,
       DeliveryInv, AtWork, SettledInv

\* A request that is on the wire stays there, under the same id.
StillWritten == \A d : Written(d) => Written(d)' /\ request_id'[d] = request_id[d]

\* A request on the wire stays on the wire: no step takes a call back to
\* before its ::write or changes its request_id.
LEMMA WrittenStable ==
  ASSUME TypeOK, NEW c \in Calls, NEW v \in CallPcs,
         pc' = [pc EXCEPT ![c] = v], request_id' = request_id,
         pc[c] \notin {"waiting", "returned"} \/ v = "returned"
  PROVE  StillWritten
BY DEF StillWritten, Written, TypeOK

\* The wire part of the invariant survives when no queue changes.
LEMMA WireStable ==
  ASSUME WireInv, StillWritten, inbox' = inbox, down' = down, buf' = buf, cur' = cur
  PROVE  WireInv'
<1>1. ASSUME NEW f, Genuine(f)
      PROVE  Genuine(f)'
  BY <1>1 DEF Genuine, StillWritten
<1>. QED
  BY <1>1 DEF WireInv, StillWritten

\* The ids are not disturbed by a step that moves a call from one place with
\* an id to another.
LEMMA IdsStable ==
  ASSUME TypeOK, IdsInv, NEW c \in Calls, NEW v \in CallPcs,
         pc' = [pc EXCEPT ![c] = v], request_id' = request_id,
         next_request_id' = next_request_id,
         v \in {"idle", "take_id"} => request_id[c] = 0,
         v \in {"register", "write", "write_failed", "waiting"} => request_id[c] # 0
  PROVE  IdsInv'
<1>1. Numbered' = Numbered
  BY DEF Numbered
<1>2. \A d \in Calls : pc'[d] = IF d = c THEN v ELSE pc[d]
  BY DEF TypeOK
<1>. QED
  BY <1>1, <1>2 DEF IdsInv

-----------------------------------------------------------------------------
(***************************************************************************)
(* CallMethod.                                                             *)
(***************************************************************************)

\* The look at connected_ changes nothing for the other calls.
LEMMA CallMethodCore ==
  ASSUME TypeOK, Core, NEW c \in Calls, CallMethod(c)
  PROVE  Core'
<1>. USE CallsAssumption DEF Core
<1>0. /\ pc[c] = "idle"
      /\ UNCHANGED <<next_request_id, pending_calls, request_id, done_flag, response,
                     rd, buf, cur, target, inbox, down>>
  BY DEF CallMethod, chanVars, readVars, netVars
<1>1. PICK v \in {"take_id", "returned"} : pc' = [pc EXCEPT ![c] = v]
  BY DEF CallMethod
<1>2. request_id[c] = 0
  BY <1>0 DEF IdsInv
<1>3. \A d \in Calls \ {c} : /\ failed'[d] = failed[d]
                             /\ closures'[d] = closures[d]
                             /\ pc'[d] = pc[d]
  BY <1>1 DEF CallMethod, RunDone, TypeOK
<1>4. (failed[c] => failed'[c]) /\ (closures'[c] # closures[c] => pc'[c] = "returned")
  BY DEF CallMethod, RunDone, TypeOK
<1>5. IdsInv'
  BY <1>0, <1>1, <1>2, IdsStable, Zenon
<1>6. WireInv'
  <2>1. v \in CallPcs /\ pc[c] \notin {"waiting", "returned"} /\ request_id' = request_id
    BY <1>0, <1>1
  <2>2. StillWritten
    BY <1>1, <2>1, WrittenStable, Zenon
  <2>. QED
    BY <1>0, <2>2, WireStable
<1>7. PendingInv'
  <2>1. \A i \in Ids : pending_calls[i] # c
    BY <1>0 DEF PendingInv
  <2>2. ASSUME NEW i \in Ids, pending_calls[i] # NoCall
        PROVE  pending_calls[i] \in Calls \ {c}
    BY <2>1, <2>2, Zenon DEF TypeOK
  <2>. QED
    BY <1>0, <1>3, <2>2 DEF PendingInv
<1>8. DeliveryInv'
  <2>1. \A k \in Conns : AtWork(k) => target[k] \in Calls \ {c}
    BY <1>0, SMT, Z3 DEF DeliveryInv, WireInv, Genuine, Written
  <2>. QED
    BY <1>0, <1>3, <2>1, ZenonT(40) DEF DeliveryInv, AtWork
<1>9. SettledInv'
  BY <1>0, <1>1, <1>2, <1>3, <1>4, SMT, Z3 DEF SettledInv, Written, TypeOK
<1>. QED
  BY <1>5, <1>6, <1>7, <1>8, <1>9

\* pending_calls_[request_id] = pending replaces nobody's entry.
LEMMA RegisterCore ==
  ASSUME TypeOK, Core, NEW c \in Calls, Register(c)
  PROVE  Core'
<1>. USE CallsAssumption, BoundsAssumption DEF Core
<1>0. /\ pc[c] = "register"
      /\ pc' = [pc EXCEPT ![c] = "write"]
      /\ pending_calls' = [pending_calls EXCEPT ![request_id[c]] = c]
      /\ UNCHANGED <<next_request_id, request_id, done_flag, failed, response, closures,
                     rd, buf, cur, target, inbox, down>>
  BY DEF Register, readVars, netVars
<1>1. request_id[c] # 0 /\ request_id[c] \in Ids
  BY <1>0 DEF IdsInv, TypeOK
<1>2. \A i \in Ids : pending_calls'[i] = IF i = request_id[c] THEN c ELSE pending_calls[i]
  BY <1>0 DEF TypeOK
<1>3. \A d \in Calls : pc'[d] = IF d = c THEN "write" ELSE pc[d]
  BY <1>0 DEF TypeOK
<1>4. response[c] = NoCall /\ closures[c] = 0
  BY <1>0 DEF SettledInv, Written
<1>5. IdsInv'
  BY <1>0, <1>1, IdsStable, Zenon
<1>6. WireInv'
  <2>1. StillWritten
    BY <1>0, WrittenStable, Zenon
  <2>. QED
    BY <1>0, <2>1, WireStable
<1>7. PendingInv'
  <2>1. \A i \in Ids : pending_calls[i] # c
    BY <1>0, SMTT(40), Z3T(40) DEF PendingInv
  <2>. QED
    BY <1>0, <1>1, <1>2, <1>3, <1>4, <2>1, SMT, Z3 DEF PendingInv, TypeOK
<1>8. DeliveryInv'
  <2>1. \A k \in Conns : AtWork(k) => target[k] \in Calls \ {c}
    BY <1>0, SMTT(40), Z3T(40) DEF DeliveryInv, WireInv, Genuine, Written
  <2>. QED
    BY <1>0, <1>2, <2>1, SMTT(40), Z3T(40) DEF DeliveryInv, AtWork
<1>9. SettledInv'
  BY <1>0, <1>3, SMT, Z3 DEF SettledInv, Written, TypeOK
<1>. QED
  BY <1>5, <1>6, <1>7, <1>8, <1>9

\* A call that moves on from ::write, or returns, with its id and its entry
\* left alone.
LEMMA MoveOn ==
  ASSUME TypeOK, Core, NEW c \in Calls, NEW v \in {"write_failed", "waiting", "returned"},
         pc[c] \in {"write", "waiting"}, pc[c] = "waiting" => v = "returned",
         v = "waiting" => c \notin AsyncCalls,
         pc' = [pc EXCEPT ![c] = v],
         UNCHANGED <<next_request_id, pending_calls, request_id, done_flag, failed, response,
                     closures, rd, cur, target>>
  PROVE  StillWritten /\ IdsInv' /\ PendingInv' /\ DeliveryInv' /\ SettledInv'
<1>. USE CallsAssumption, BoundsAssumption DEF Core
<1>1. request_id[c] # 0
  BY DEF IdsInv
<1>2. \A d \in Calls : pc'[d] = IF d = c THEN v ELSE pc[d]
  BY DEF TypeOK
<1>3. StillWritten
  BY WrittenStable, Zenon
<1>4. IdsInv'
  BY <1>1, IdsStable, Zenon
<1>5. PendingInv'
  BY <1>2, SMTT(40), Z3T(40) DEF PendingInv, TypeOK
<1>6. DeliveryInv'
  BY SMT, Z3 DEF DeliveryInv, AtWork
<1>7. SettledInv'
  BY <1>2, SMT, Z3 DEF SettledInv, Written, TypeOK
<1>. QED
  BY <1>3, <1>4, <1>5, <1>6, <1>7, Zenon

\* ::write, whole, short or failing, puts at most the call's own request on
\* the wire.
LEMMA WriteCore ==
  ASSUME TypeOK, Core, NEW c \in Calls,
         WriteWhole(c) \/ WriteShort(c) \/ WriteError(c) \/ Wake(c)
  PROVE  Core'
<1>. USE CallsAssumption, BoundsAssumption
<1>0. PICK v \in {"write_failed", "waiting", "returned"} :
        /\ pc[c] \in {"write", "waiting"} /\ (pc[c] = "waiting" => v = "returned")
        /\ (v = "waiting" => c \notin AsyncCalls)
        /\ pc' = [pc EXCEPT ![c] = v]
  BY Zenon DEF WriteWhole, WriteShort, WriteError, Wake, AfterWrite
<1>1. UNCHANGED <<next_request_id, pending_calls, request_id, done_flag, failed, response,
                  closures, rd, buf, cur, target, down>>
  BY DEF WriteWhole, WriteShort, WriteError, Wake, chanVars, readVars, netVars
<1>2. StillWritten /\ IdsInv' /\ PendingInv' /\ DeliveryInv' /\ SettledInv'
  BY <1>0, <1>1, MoveOn, Zenon
<1>3. CASE inbox' = inbox
  <2>1. WireInv'
    BY <1>1, <1>2, <1>3, WireStable DEF Core
  <2>. QED
    BY <1>2, <2>1 DEF Core
<1>4. CASE inbox' # inbox
  <2>1. WriteWhole(c)
    BY <1>4 DEF WriteShort, WriteError, Wake, netVars
  <2>2. /\ sockfd \in Conns
        /\ inbox' = [inbox EXCEPT ![sockfd] = @ \cup {[id |-> request_id[c], call |-> c]}]
    BY <1>4, <2>1, ZenonT(40) DEF WriteWhole, Writable, TypeOK
  <2>3. Written(c)' /\ request_id'[c] = request_id[c]
    <3>1. pc'[c] \in {"waiting", "returned"}
      BY <2>1 DEF WriteWhole, AfterWrite, TypeOK
    <3>2. request_id[c] # 0
      BY <1>0, Zenon DEF Core, IdsInv
    <3>. QED
      BY <1>1, <3>1, <3>2, Zenon DEF Written
  <2>4. \A k \in Conns : \A r \in inbox'[k] :
          r \in inbox[k] \/ r = [id |-> request_id[c], call |-> c]
    BY <2>2, ZenonT(40) DEF TypeOK
  <2>5. \A k \in Conns : \A r \in inbox'[k] : Written(r.call)' /\ r.id = request_id'[r.call]
    <3>1. ASSUME NEW k \in Conns, NEW r \in inbox[k]
          PROVE  Written(r.call)' /\ r.id = request_id'[r.call]
      <4>1. Written(r.call) /\ r.id = request_id[r.call]
        BY <3>1, Zenon DEF Core, WireInv
      <4>. QED
        BY <1>2, <4>1, Zenon DEF StillWritten
    <3>2. ASSUME NEW r, r = [id |-> request_id[c], call |-> c]
          PROVE  Written(r.call)' /\ r.id = request_id'[r.call]
      <4>1. r.call = c /\ r.id = request_id[c]
        BY <3>2, Zenon
      <4>. QED
        BY <2>3, <4>1
    <3>. QED
      BY <2>4, <3>1, <3>2, Zenon
  <2>6. \A f : Genuine(f) => Genuine(f)'
    BY <1>2, Zenon DEF Genuine, StillWritten
  <2>7. WireInv'
    BY <1>1, <2>5, <2>6, Zenon DEF Core, WireInv
  <2>. QED
    BY <1>2, <2>7 DEF Core
<1>. QED
  BY <1>3, <1>4, Zenon

\* The error path of ::write removes the call's own entry and settles it.
LEMMA WriteFailedCore ==
  ASSUME TypeOK, Core, NEW c \in Calls, WriteFailed(c)
  PROVE  Core'
<1>. USE CallsAssumption, BoundsAssumption DEF Core
<1>0. /\ pc[c] = "write_failed"
      /\ pc' = [pc EXCEPT ![c] = "returned"]
      /\ pending_calls' = [pending_calls EXCEPT ![request_id[c]] = NoCall]
      /\ failed' = [failed EXCEPT ![c] = TRUE]
      /\ closures' = RunDone(c)
      /\ UNCHANGED <<next_request_id, request_id, done_flag, response,
                     rd, buf, cur, target, inbox, down>>
  BY ZenonT(40) DEF WriteFailed, readVars, netVars
<1>1. request_id[c] # 0 /\ request_id[c] \in Ids
  BY <1>0 DEF IdsInv, TypeOK
<1>2. \A i \in Ids : pending_calls'[i] = IF i = request_id[c] THEN NoCall ELSE pending_calls[i]
  BY <1>0, Zenon DEF TypeOK
<1>3. \A d \in Calls : /\ pc'[d] = IF d = c THEN "returned" ELSE pc[d]
                       /\ failed'[d] = IF d = c THEN TRUE ELSE failed[d]
                       /\ d # c => closures'[d] = closures[d]
  BY <1>0, Zenon DEF TypeOK, RunDone
<1>4. response[c] = NoCall
  BY <1>0, Zenon DEF SettledInv, Written
<1>5. IdsInv'
  BY <1>0, <1>1, IdsStable, Zenon
<1>6. WireInv'
  <2>1. StillWritten
    BY <1>0, WrittenStable, Zenon
  <2>. QED
    BY <1>0, <2>1, WireStable
<1>7. PendingInv'
  <2>1. \A i \in Ids : pending_calls'[i] # c
    BY <1>2, SMT, Z3 DEF PendingInv
  <2>2. \A i \in Ids : pending_calls'[i] # NoCall =>
          pending_calls'[i] = pending_calls[i] /\ pending_calls[i] \in Calls \ {c}
    <3>1. \A i \in Ids : pending_calls[i] \in Calls \cup {NoCall}
      BY DEF TypeOK
    <3>. QED
      BY <1>2, <2>1, <3>1
  <2>3. \A d \in Calls \ {c} : /\ pc'[d] = pc[d] /\ request_id'[d] = request_id[d]
                              /\ response'[d] = response[d] /\ closures'[d] = closures[d]
    BY <1>0, <1>3, Zenon
  <2>. QED
    BY <2>2, <2>3, SMTT(40), Z3T(40) DEF PendingInv
<1>8. DeliveryInv'
  <2>1. \A k \in Conns : AtWork(k) => target[k] \in Calls \ {c}
    BY <1>0, SMT, Z3 DEF DeliveryInv, WireInv, Genuine, Written
  <2>2. \A k \in Conns : AtWork(k)' = AtWork(k) /\ target'[k] = target[k] /\ cur'[k] = cur[k]
                           /\ rd'[k] = rd[k]
    BY <1>0, Zenon DEF AtWork
  <2>3. \A k \in Conns : AtWork(k) => \A i \in Ids : pending_calls'[i] # target[k]
    BY <1>2, <2>1, SMT, Z3 DEF DeliveryInv
  <2>4. \A d \in Calls \ {c} : /\ response'[d] = response[d] /\ closures'[d] = closures[d]
                              /\ failed'[d] = failed[d]
    BY <1>0, <1>3, Zenon
  <2>. QED
    BY <2>1, <2>2, <2>3, <2>4, SMTT(40), Z3T(40) DEF DeliveryInv
<1>9. SettledInv'
  BY <1>0, <1>3, <1>4, SMT, Z3 DEF SettledInv, Written, TypeOK
<1>. QED
  BY <1>5, <1>6, <1>7, <1>8, <1>9

-----------------------------------------------------------------------------
(***************************************************************************)
(* The reader thread.                                                      *)
(***************************************************************************)

\* A reader that is not delivering a response moves on, or is started.
LEMMA ReaderMoves ==
  ASSUME Core, \A j \in Conns : AtWork(j)' => rd'[j] = rd[j],
         UNCHANGED <<next_request_id, pending_calls, callVars, buf, cur, target, inbox, down>>
  PROVE  Core'
<1>1. \A j \in Conns : AtWork(j)' => AtWork(j) /\ rd'[j] = rd[j]
  BY Zenon DEF AtWork
<1>2. DeliveryInv'
  BY <1>1, Zenon DEF Core, DeliveryInv, callVars
<1>3. IdsInv'
  BY Zenon DEF Core, IdsInv, Numbered, callVars
<1>4. WireInv'
  BY ZenonT(40) DEF Core, WireInv, Genuine, Written, callVars
<1>5. PendingInv' /\ SettledInv'
  BY Zenon DEF Core, PendingInv, SettledInv, Written, callVars
<1>. QED
  BY <1>2, <1>3, <1>4, <1>5 DEF Core

\* The steps of the reader loop that only move bytes or the loop itself.
LEMMA ReaderMovesCore ==
  ASSUME TypeOK, Core, NEW k \in Conns,
         \/ ReaderCheck(k) \/ ReaderRead(k) \/ ReaderEnd(k)
         \/ ReaderDrained(k) \/ ReaderBadMagic(k)
  PROVE  Core'
<1>1. PICK v \in {"exited", "read", "reading", "sweep", "loop"} : rd' = [rd EXCEPT ![k] = v]
  BY Zenon DEF ReaderCheck, ReaderRead, ReaderEnd, ReaderDrained, ReaderBadMagic
<1>2. UNCHANGED <<next_request_id, pending_calls, callVars, buf, cur, target, inbox, down>>
  BY Zenon DEF ReaderCheck, ReaderRead, ReaderEnd, ReaderDrained, ReaderBadMagic, chanVars,
               netVars
<1>3. \A j \in Conns : AtWork(j)' => rd'[j] = rd[j]
  BY <1>1 DEF AtWork, TypeOK
<1>. QED
  BY <1>2, <1>3, ReaderMoves, Zenon

\* The sweep fails calls that have no answer: it overturns none.
LEMMA ReaderSweepCore ==
  ASSUME TypeOK, Core, NEW k \in Conns, ReaderSweep(k)
  PROVE  Core'
<1>0. /\ rd' = [rd EXCEPT ![k] = "exited"]
      /\ UNCHANGED <<next_request_id, pending_calls, pc, request_id, response, closures,
                     buf, cur, target, inbox, down>>
  BY Zenon DEF ReaderSweep, chanVars, netVars
<1>1. \A c \in Calls : /\ failed[c] => failed'[c]
                       /\ done_flag'[c] => done_flag[c] \/ failed'[c]
  BY Zenon DEF ReaderSweep
<1>2. \A j \in Conns : AtWork(j)' => AtWork(j) /\ rd'[j] = rd[j]
  BY <1>0, SMTT(40), Z3T(40) DEF AtWork, TypeOK
<1>3. \A j \in Conns : AtWork(j) => target[j] \in Calls
  BY Zenon DEF Core, DeliveryInv, WireInv, Genuine, Written
<1>4. DeliveryInv'
  BY <1>0, <1>1, <1>2, <1>3, Zenon DEF Core, DeliveryInv
<1>5. IdsInv'
  BY <1>0, Zenon DEF Core, IdsInv, Numbered
<1>6. WireInv'
  BY <1>0, ZenonT(40) DEF Core, WireInv, Genuine, Written
<1>7. PendingInv'
  BY <1>0, Zenon DEF Core, PendingInv
<1>8. SettledInv'
  BY <1>0, <1>1, Zenon DEF Core, SettledInv, Written
<1>. QED
  BY <1>4, <1>5, <1>6, <1>7, <1>8, SMTT(40), Z3T(40) DEF Core

\* The entry found under the id of a response is the call whose request is
\* being answered, and nobody else holds it.
LEMMA MatchedCall ==
  ASSUME TypeOK, Core, NEW f \in Frames, Genuine(f), Matches(f)
  PROVE  /\ pending_calls[f.id] = f.call
         /\ f.id \in Ids /\ f.call \in Calls
         /\ \A i \in Ids : pending_calls[i] = f.call => i = f.id
         /\ response[f.call] = NoCall /\ closures[f.call] = 0
         /\ \A j \in Conns : AtWork(j) => target[j] # f.call
<1>. DEFINE c == pending_calls[f.id]
<1>1. /\ f.kind \in AnswerKinds /\ c # NoCall /\ f.id \in Ids
      /\ Written(f.call) /\ f.id = request_id[f.call]
  BY DEF Matches, Genuine, Frames
<1>2. c \in Calls
  BY <1>1, Zenon DEF TypeOK
<1>3. request_id[c] = f.id /\ f.id # 0 /\ response[c] = NoCall /\ closures[c] = 0
  BY <1>1, Zenon DEF Core, PendingInv
<1>4. c \in Numbered /\ f.call \in Numbered
  BY <1>1, <1>2, <1>3, Zenon DEF Numbered, Written
<1>5. c = f.call
  BY <1>1, <1>3, <1>4 DEF Core, IdsInv
<1>6. \A i \in Ids : pending_calls[i] = c => i = f.id
  BY <1>2, <1>3, CallsAssumption, Zenon DEF Core, PendingInv
<1>7. \A j \in Conns : AtWork(j) => target[j] # c
  BY <1>1 DEF Core, DeliveryInv
<1>. QED
  BY <1>1, <1>2, <1>3, <1>5, <1>6, <1>7, Zenon

\* The frames of a buffer are its head and, one place on, those of its tail.
LEMMA HeadAndTail ==
  ASSUME NEW S, NEW s \in Seq(S), s # <<>>
  PROVE  /\ Head(s) \in S /\ Head(s) = s[1] /\ 1 \in DOMAIN s
         /\ \A m \in DOMAIN Tail(s) : Tail(s)[m] = s[m + 1] /\ m + 1 \in DOMAIN s
<1>1. Len(s) \in Nat \ {0} /\ DOMAIN s = 1 .. Len(s)
  BY SMT, Z3
<1>2. Tail(s) \in Seq(S) /\ Len(Tail(s)) = Len(s) - 1
  BY <1>1, SMT, Z3
<1>3. DOMAIN Tail(s) = 1 .. Len(s) - 1
  BY <1>1, <1>2, SMT, Z3
<1>4. \A m \in 1 .. Len(s) - 1 : Tail(s)[m] = s[m + 1]
  BY <1>1, <1>2, SMT, Z3
<1>5. Head(s) = s[1] /\ s[1] \in S
  BY <1>1, SMT, Z3
<1>. QED
  BY <1>1, <1>3, <1>4, <1>5, SMT, Z3

\* on_message() takes the entry of the call that the frame answers.
LEMMA OnMessageCore ==
  ASSUME TypeOK, Core, NEW k \in Conns, OnMessage(k)
  PROVE  Core'
<1>. USE BoundsAssumption, CallsAssumption
<1>. DEFINE f == Head(buf[k])
<1>0. /\ buf' = [buf EXCEPT ![k] = Tail(@)]
      /\ UNCHANGED <<next_request_id, callVars, inbox, down>>
  BY Zenon DEF OnMessage, netVars
<1>1. buf[k] \in Seq(Frames) /\ buf[k] # <<>>
  BY Zenon DEF OnMessage, TypeOK
<1>2. /\ f \in Frames /\ f = buf[k][1] /\ 1 \in DOMAIN buf[k]
      /\ \A m \in DOMAIN Tail(buf[k]) : Tail(buf[k])[m] = buf[k][m + 1] /\ m + 1 \in DOMAIN buf[k]
  BY <1>1, HeadAndTail
<1>3. Genuine(f)
  BY <1>2, Zenon DEF Core, WireInv
<1>4. \A g : Genuine(g) => Genuine(g)'
  BY <1>0 DEF Genuine, Written, callVars
<1>5. (\A j \in Conns : \A m \in DOMAIN buf[j] : Genuine(buf[j][m]))'
  <2>1. \A m \in DOMAIN Tail(buf[k]) : Genuine(Tail(buf[k])[m])
    BY <1>2, ZenonT(40) DEF Core, WireInv
  <2>2. \A j \in Conns : buf'[j] = IF j = k THEN Tail(buf[k]) ELSE buf[j]
    BY <1>0 DEF TypeOK
  <2>. QED
    BY <1>4, <2>1, <2>2, Zenon DEF Core, WireInv
<1>6. \A j \in Conns : cur'[j] = cur[j] \/ cur'[j] = f
  BY ZenonT(40) DEF OnMessage, TypeOK
<1>7. WireInv'
  <2>1. (\A j \in Conns : Genuine(cur[j]))'
    BY <1>3, <1>4, <1>6, Zenon DEF Core, WireInv
  <2>. QED
    BY <1>0, <1>4, <1>5, <2>1, Zenon DEF Core, WireInv, Written, callVars
<1>8. IdsInv' /\ SettledInv'
  <2>1. IdsInv'
    BY <1>0, ZenonT(40) DEF Core, IdsInv, Numbered, callVars
  <2>2. SettledInv'
    BY <1>0, ZenonT(40) DEF Core, SettledInv, Written, callVars
  <2>. QED
    BY <2>1, <2>2, Zenon
<1>9. CASE Matches(f)
  <2>1. /\ cur' = [cur EXCEPT ![k] = f]
        /\ target' = [target EXCEPT ![k] = pending_calls[f.id]]
        /\ pending_calls' = Erase(f.id)
        /\ rd' = [rd EXCEPT ![k] = "deliver"]
    BY <1>9, Zenon DEF OnMessage
  <2>2. /\ pending_calls[f.id] = f.call
        /\ f.id \in Ids /\ f.call \in Calls
        /\ \A i \in Ids : pending_calls[i] = f.call => i = f.id
        /\ response[f.call] = NoCall /\ closures[f.call] = 0
        /\ \A j \in Conns : AtWork(j) => target[j] # f.call
    BY <1>2, <1>3, <1>9, MatchedCall, Zenon
  <2>3. \A i \in Ids : pending_calls'[i] = IF i = f.id THEN NoCall ELSE pending_calls[i]
    BY <2>1, <2>2, Zenon DEF Erase, TypeOK
  <2>4. \A j \in Conns : /\ rd'[j] = IF j = k THEN "deliver" ELSE rd[j]
                         /\ target'[j] = IF j = k THEN f.call ELSE target[j]
                         /\ cur'[j] = IF j = k THEN f ELSE cur[j]
    BY <2>1, <2>2, ZenonT(40) DEF TypeOK
  <2>5. PendingInv'
    BY <1>0, <2>3, Zenon DEF Core, PendingInv, callVars
  <2>6. DeliveryInv'
    <3>1. ASSUME NEW j \in Conns, j # k, AtWork(j)'
          PROVE  /\ AtWork(j) /\ rd'[j] = rd[j] /\ target'[j] = target[j] /\ cur'[j] = cur[j]
                 /\ target[j] \in Calls
      BY <2>4, <3>1, Zenon DEF AtWork, Core, DeliveryInv, WireInv, Genuine, Written
    <3>2. \A j \in Conns : AtWork(j)' => \A i \in Ids : pending_calls'[i] # target'[j]
      <4>1. \A i \in Ids : pending_calls'[i] # f.call
        BY <2>2, <2>3, Zenon
      <4>2. \A j \in Conns : AtWork(j)' /\ j # k => \A i \in Ids : pending_calls'[i] # target[j]
        BY <2>3, <3>1, SMT, Z3 DEF Core, DeliveryInv
      <4>. QED
        BY <2>4, <4>1, <4>2, Zenon
    <3>3. \A i, j \in Conns : AtWork(i)' /\ AtWork(j)' /\ target'[i] = target'[j] => i = j
      <4>1. \A j \in Conns : AtWork(j)' /\ j # k => target'[j] # target'[k]
        BY <2>2, <2>4, <3>1, Zenon
      <4>2. \A i, j \in Conns : AtWork(i) /\ AtWork(j) /\ target[j] = target[i] => j = i
        BY Zenon DEF Core, DeliveryInv
      <4>. QED
        BY <3>1, <4>1, <4>2, Zenon
    <3>4. \A j \in Conns : AtWork(j)' /\ j # k =>
            /\ cur'[j].kind \in AnswerKinds /\ target'[j] = cur'[j].call
            /\ closures'[target'[j]] = 0
            /\ IF rd'[j] = "deliver" THEN response'[target'[j]] = NoCall
               ELSE failed'[target'[j]] \/ response'[target'[j]] # NoCall
      <4>1. \A j \in Conns : AtWork(j) =>
              /\ cur[j].kind \in AnswerKinds /\ target[j] = cur[j].call
              /\ closures[target[j]] = 0
              /\ IF rd[j] = "deliver" THEN response[target[j]] = NoCall
                 ELSE failed[target[j]] \/ response[target[j]] # NoCall
        BY Zenon DEF Core, DeliveryInv
      <4>2. response' = response /\ failed' = failed /\ closures' = closures
        BY <1>0, Zenon DEF callVars
      <4>3. ASSUME NEW j \in Conns, AtWork(j)', j # k
            PROVE  /\ AtWork(j) /\ cur'[j] = cur[j] /\ target'[j] = target[j] /\ rd'[j] = rd[j]
        BY <3>1, <4>3, Zenon
      <4>. QED
        BY <4>1, <4>2, <4>3, SMT, Z3
    <3>5. /\ cur'[k].kind \in AnswerKinds /\ target'[k] = cur'[k].call
          /\ closures'[target'[k]] = 0 /\ rd'[k] = "deliver"
          /\ response'[target'[k]] = NoCall
      BY <1>0, <1>9, <2>2, <2>4 DEF Matches, callVars
    <3>. QED
      BY <3>2, <3>3, <3>4, <3>5, Zenon DEF DeliveryInv
  <2>. QED
    BY <1>7, <1>8, <2>5, <2>6, Zenon DEF Core
<1>10. CASE ~Matches(f)
  <2>1. UNCHANGED <<cur, target, pending_calls, rd>>
    BY <1>10, Zenon DEF OnMessage
  <2>2. PendingInv' /\ DeliveryInv'
    <3>1. UNCHANGED <<pc, request_id, done_flag, failed, response, closures>>
      BY <1>0, Zenon DEF callVars
    <3>2. PendingInv'
      BY <2>1, <3>1, ZenonT(40) DEF Core, PendingInv
    <3>3. \A j \in Conns : AtWork(j)' <=> AtWork(j)
      BY <2>1, Zenon DEF AtWork
    <3>4. DeliveryInv'
      BY <2>1, <3>1, <3>3, ZenonT(40) DEF Core, DeliveryInv
    <3>. QED
      BY <3>2, <3>4, Zenon
  <2>. QED
    BY <1>7, <1>8, <2>2, Zenon DEF Core
<1>. QED
  BY <1>9, <1>10, Zenon

\* What a reader that delivers a response may rely on.
LEMMA TargetFacts ==
  ASSUME Core, NEW k \in Conns, AtWork(k)
  PROVE  /\ target[k] \in Calls /\ cur[k].call = target[k] /\ Written(target[k])
         /\ \A i \in Ids : pending_calls[i] # target[k]
         /\ \A j \in Conns : AtWork(j) /\ target[j] = target[k] => j = k
         /\ closures[target[k]] = 0
<1>1. /\ cur[k].kind \in AnswerKinds /\ cur[k].call = target[k]
      /\ \A i \in Ids : pending_calls[i] # target[k]
      /\ \A j \in Conns : AtWork(j) /\ target[j] = target[k] => j = k
      /\ closures[target[k]] = 0
  BY Zenon DEF Core, DeliveryInv
<1>2. Genuine(cur[k])
  BY Zenon DEF Core, WireInv
<1>3. target[k] \in Calls /\ Written(target[k])
  BY <1>1, <1>2 DEF Genuine, Written
<1>. QED
  BY <1>1, <1>3, Zenon

\* on_message() parses the response into, or fails, the call it has taken.
LEMMA ReaderDeliverCore ==
  ASSUME TypeOK, Core, NEW k \in Conns, ReaderDeliver(k)
  PROVE  Core'
<1>. USE CallsAssumption
<1>. DEFINE c == target[k]
<1>0. /\ rd[k] = "deliver" /\ rd' = [rd EXCEPT ![k] = "flag"]
      /\ UNCHANGED <<next_request_id, pending_calls, pc, request_id, done_flag, closures,
                     buf, cur, target, inbox, down>>
  BY Zenon DEF ReaderDeliver, chanVars, netVars
<1>1. /\ c \in Calls /\ cur[k].call = c /\ Written(c)
      /\ \A i \in Ids : pending_calls[i] # c
      /\ \A j \in Conns : AtWork(j) /\ target[j] = c => j = k
  BY <1>0, TargetFacts, Zenon DEF AtWork
<1>2. /\ \A d \in Calls \ {c} : failed'[d] = failed[d] /\ response'[d] = response[d]
      /\ failed[c] => failed'[c]
      /\ response'[c] \in {c, response[c]}
      /\ failed'[c] \/ response'[c] = c
  BY <1>1, Zenon DEF ReaderDeliver, TypeOK
<1>3. \A j \in Conns : rd'[j] = IF j = k THEN "flag" ELSE rd[j]
  BY <1>0 DEF TypeOK
<1>4. IdsInv' /\ WireInv'
  <2>1. IdsInv'
    BY <1>0, Zenon DEF Core, IdsInv, Numbered
  <2>2. WireInv'
    BY <1>0, ZenonT(40) DEF Core, WireInv, Genuine, Written
  <2>. QED
    BY <2>1, <2>2
<1>5. PendingInv'
  <2>1. \A i \in Ids : pending_calls[i] # NoCall => pending_calls[i] \in Calls \ {c}
    BY <1>1, ZenonT(40) DEF TypeOK
  <2>. QED
    BY <1>0, <1>2, <2>1, Zenon DEF Core, PendingInv
<1>6. DeliveryInv'
  <2>1. \A j \in Conns : AtWork(j)' = AtWork(j)
    BY <1>0, <1>3, SMT, Z3 DEF AtWork
  <2>2. \A j \in Conns \ {k} : AtWork(j) => target[j] \in Calls \ {c}
    BY <1>1, TargetFacts, Zenon
  <2>3. ASSUME NEW j \in Conns \ {k}, AtWork(j)
        PROVE  IF rd'[j] = "deliver" THEN response'[target[j]] = NoCall
               ELSE failed'[target[j]] \/ response'[target[j]] # NoCall
    BY <1>2, <1>3, <2>2, <2>3, SMTT(40), Z3T(40) DEF Core, DeliveryInv
  <2>4. failed'[c] \/ response'[c] # NoCall
    BY <1>1, <1>2, Zenon
  <2>. QED
    <3>1. ASSUME NEW j \in Conns, AtWork(j)'
          PROVE  IF rd'[j] = "deliver" THEN response'[target[j]] = NoCall
                 ELSE failed'[target[j]] \/ response'[target[j]] # NoCall
      <4>1. CASE j = k
        BY <1>3, <2>4, <4>1
      <4>2. CASE j # k
        BY <2>1, <2>3, <3>1, <4>2
      <4>. QED
        BY <4>1, <4>2
    <3>. QED
      BY <1>0, <2>1, <3>1, ZenonT(40) DEF Core, DeliveryInv
<1>7. SettledInv'
  <2>1. \A d : Written(d)' = Written(d)
    BY <1>0, Zenon DEF Written
  <2>2. ASSUME NEW d \in Calls \ {c}
        PROVE  /\ done_flag'[d] => failed'[d] \/ response'[d] # NoCall
               /\ response'[d] # NoCall => response'[d] = d /\ Written(d)
               /\ closures'[d] # 0 => pc'[d] = "returned"
               /\ pc'[d] = "waiting" => d \notin AsyncCalls
    BY <1>0, <1>2, <2>2, Zenon DEF Core, SettledInv
  <2>3. /\ failed'[c] \/ response'[c] # NoCall
        /\ response'[c] # NoCall => response'[c] = c /\ Written(c)
        /\ closures'[c] # 0 => pc'[c] = "returned"
        /\ pc'[c] = "waiting" => c \notin AsyncCalls
    BY <1>0, <1>1, <1>2 DEF Core, SettledInv
  <2>. QED
    BY <2>1, <2>2, <2>3 DEF SettledInv
<1>. QED
  BY <1>4, <1>5, <1>6, <1>7, Zenon DEF Core

\* on_message() sets done_flag on a call that is settled.
LEMMA ReaderFlagCore ==
  ASSUME TypeOK, Core, NEW k \in Conns, ReaderFlag(k)
  PROVE  Core'
<1>. DEFINE c == target[k]
<1>0. /\ rd[k] = "flag" /\ rd' = [rd EXCEPT ![k] = "run_done"]
      /\ UNCHANGED <<next_request_id, pending_calls, pc, request_id, failed, response, closures,
                     buf, cur, target, inbox, down>>
  BY Zenon DEF ReaderFlag, chanVars, netVars
<1>1. \A j \in Conns : rd'[j] = IF j = k THEN "run_done" ELSE rd[j]
  BY <1>0, Zenon DEF TypeOK
<1>2. c \in Calls /\ (failed[c] \/ response[c] # NoCall)
  BY <1>0, TargetFacts DEF AtWork, Core, DeliveryInv
<1>3. IdsInv' /\ WireInv' /\ PendingInv'
  <2>1. IdsInv'
    BY <1>0, Zenon DEF Core, IdsInv, Numbered
  <2>2. WireInv'
    BY <1>0, ZenonT(40) DEF Core, WireInv, Genuine, Written
  <2>3. PendingInv'
    BY <1>0, Zenon DEF Core, PendingInv
  <2>. QED
    BY <2>1, <2>2, <2>3
<1>4. DeliveryInv'
  <2>1. \A j \in Conns : AtWork(j)' = AtWork(j) /\ (rd'[j] = "deliver" <=> rd[j] = "deliver")
    BY <1>0, <1>1, SMT, Z3 DEF AtWork
  <2>. QED
    BY <1>0, <2>1, ZenonT(40) DEF Core, DeliveryInv
<1>5. SettledInv'
  <2>1. \A d \in Calls : done_flag'[d] => done_flag[d] \/ d = c
    BY DEF ReaderFlag, TypeOK
  <2>. QED
    BY <1>0, <1>2, <2>1, Zenon DEF Core, SettledInv, Written
<1>. QED
  BY <1>3, <1>4, <1>5, Zenon DEF Core

\* on_message() runs the closure of a call whose entry is gone, once.
LEMMA ReaderRunDoneCore ==
  ASSUME TypeOK, Core, NEW k \in Conns, ReaderRunDone(k)
  PROVE  Core'
<1>. USE CallsAssumption
<1>. DEFINE c == target[k]
<1>0. /\ rd[k] = "run_done" /\ rd' = [rd EXCEPT ![k] = "parse"]
      /\ UNCHANGED <<next_request_id, pending_calls, pc, request_id, done_flag, failed, response,
                     buf, cur, target, inbox, down>>
  BY Zenon DEF ReaderRunDone, chanVars, netVars
<1>1. /\ c \in Calls /\ Written(c)
      /\ \A i \in Ids : pending_calls[i] # c
      /\ \A j \in Conns : AtWork(j) /\ target[j] = c => j = k
  BY <1>0, TargetFacts, Zenon DEF AtWork
<1>2. /\ \A d \in Calls \ {c} : closures'[d] = closures[d]
      /\ c \notin AsyncCalls => closures'[c] = closures[c]
  BY <1>1, Zenon DEF ReaderRunDone, RunDone, TypeOK
<1>3. IdsInv' /\ WireInv'
  <2>1. IdsInv'
    BY <1>0, Zenon DEF Core, IdsInv, Numbered
  <2>2. WireInv'
    BY <1>0, ZenonT(60) DEF Core, WireInv, Genuine, Written
  <2>. QED
    BY <2>1, <2>2
<1>4. PendingInv'
  <2>1. \A i \in Ids : pending_calls[i] # NoCall => pending_calls[i] \in Calls \ {c}
    BY <1>1, Zenon DEF TypeOK
  <2>. QED
    BY <1>0, <1>2, <2>1, ZenonT(40) DEF Core, PendingInv
<1>5. DeliveryInv'
  <2>1. \A j \in Conns : AtWork(j)' => j # k /\ AtWork(j) /\ rd'[j] = rd[j]
    BY <1>0 DEF AtWork, TypeOK
  <2>2. \A j \in Conns \ {k} : AtWork(j) => target[j] \in Calls \ {c}
    BY <1>1, TargetFacts, Zenon
  <2>. QED
    <3>1. \A j \in Conns : AtWork(j)' => closures'[target[j]] = closures[target[j]]
      BY <1>2, <2>1, <2>2, Zenon
    <3>. QED
      BY <1>0, <2>1, <3>1, ZenonT(40) DEF Core, DeliveryInv
<1>6. SettledInv'
  BY <1>0, <1>1, <1>2, ZenonT(40) DEF Core, SettledInv, Written
<1>. QED
  BY <1>3, <1>4, <1>5, <1>6 DEF Core

-----------------------------------------------------------------------------
(***************************************************************************)
(* The owner of the channel.                                               *)
(***************************************************************************)

\* connect(), disconnect() and the destructor leave calls and frames alone.
LEMMA OwnerCore ==
  ASSUME TypeOK, Core, Connect \/ Disconnect \/ OwnerStep \/ Destroy
  PROVE  Core'
<1>1. CASE Connected
  <2>1. \A j \in Conns : AtWork(j)' => rd'[j] = rd[j]
    BY <1>1 DEF Connected, AtWork, TypeOK
  <2>2. UNCHANGED <<next_request_id, pending_calls, callVars, buf, cur, target, inbox, down>>
    BY <1>1 DEF Connected
  <2>. QED
    BY <2>1, <2>2, ReaderMoves, Zenon
<1>2. CASE ~Connected
  <2>1. UNCHANGED coreVars
    BY <1>2, Zenon DEF Connect, Disconnect, OwnerStep, ConnectFails, DisconnectShutdown,
                DisconnectClose, Destroy, coreVars, chanVars, readVars, netVars
  <2>. QED
    BY <2>1, CoreUnchanged, Zenon
<1>. QED
  BY <1>1, <1>2, Zenon

-----------------------------------------------------------------------------
(***************************************************************************)
(* Calls that are over.                                                    *)
(***************************************************************************)

\* Only a reader thread that runs, and connect(), move a reader thread.
LEMMA ReaderThreadMoves ==
  ASSUME TypeOK, NEW k \in Conns, ReaderStep(k)
  PROVE  /\ rd[k] # "none" /\ rd[k] # "exited"
         /\ \A j \in Conns \ {k} : rd'[j] = rd[j]
         /\ UNCHANGED <<attempts, owner, sockfd, pc>>
<1>1. rd[k] # "none" /\ rd[k] # "exited"
  BY Zenon DEF ReaderStep, ReaderCheck, ReaderRead, ReaderData, ReaderEnd, ReaderSweep, ReaderDrained,
     ReaderBadMagic, OnMessage, ReaderDeliver, ReaderFlag, ReaderRunDone
<1>2. UNCHANGED <<attempts, owner, sockfd, pc>>
  BY Zenon DEF ReaderStep, ReaderCheck, ReaderRead, ReaderData, ReaderEnd, ReaderSweep, ReaderDrained,
     ReaderBadMagic, OnMessage, ReaderDeliver, ReaderFlag, ReaderRunDone, chanVars, callVars, ownVars
<1>3. rd' = rd \/ \E v : rd' = [rd EXCEPT ![k] = v]
  BY Zenon DEF ReaderStep, ReaderCheck, ReaderRead, ReaderData, ReaderEnd, ReaderSweep, ReaderDrained,
     ReaderBadMagic, OnMessage, ReaderDeliver, ReaderFlag, ReaderRunDone
<1>4. \A j \in Conns \ {k} : rd'[j] = rd[j]
  BY <1>3, Zenon DEF TypeOK
<1>. QED
  BY <1>1, <1>2, <1>4, Zenon

\* Steps that leave the readers, the calls and the map alone.
LEMMA PeerLeaves ==
  ASSUME NEW k \in Conns, PeerAnswer(k) \/ PeerNoise(k) \/ PeerClose(k)
  PROVE  UNCHANGED <<attempts, owner, sockfd, rd, target, pending_calls, pc, done_flag>>
BY Zenon DEF PeerAnswer, PeerNoise, PeerClose, chanVars, callVars, readVars, ownVars

\* So do those of the owner, but for the readers.
LEMMA OwnerLeaves ==
  ASSUME Connect \/ Disconnect \/ OwnerStep \/ Destroy
  PROVE  UNCHANGED <<target, pending_calls, pc, done_flag>>
BY Zenon DEF Connect, Disconnect, OwnerStep, ConnectFails, Connected, DisconnectShutdown,
   DisconnectClose, Destroy, chanVars, callVars, readVars

\* A step of CallMethod leaves the readers alone.
LEMMA CallLeaves ==
  ASSUME NEW c \in Calls, CallMethod(c) \/ CallStep(c)
  PROVE  UNCHANGED <<attempts, owner, sockfd, rd, target, done_flag>>
BY Zenon DEF CallMethod, CallStep, TakeId, Register, WriteWhole, WriteShort, WriteError, WriteFailed,
   Wake, chanVars, readVars, ownVars

\* Every connect() starts a reader thread that has never run.
LEMMA StartStep ==
  ASSUME TypeOK, StartInv, [Next]_vars
  PROVE  StartInv'
<1>. USE BoundsAssumption
<1>1. ASSUME UNCHANGED <<attempts, owner, sockfd, rd>>
      PROVE  StartInv'
  BY <1>1, Zenon DEF StartInv
<1>2. ASSUME NEW k \in Conns, ReaderStep(k)
      PROVE  StartInv'
  <2>1. /\ rd[k] # "none"
        /\ \A j \in Conns \ {k} : rd'[j] = rd[j]
        /\ UNCHANGED <<attempts, owner, sockfd>>
    BY <1>2, ReaderThreadMoves
  <2>. QED
    BY <2>1, Zenon DEF StartInv
<1>3. ASSUME Connect
      PROVE  StartInv'
  <2>1. /\ attempts < MaxConnects /\ attempts' = attempts + 1 /\ sockfd' = attempts + 1
        /\ rd' = rd
    BY <1>3, Zenon DEF Connect, readVars
  <2>. QED
    BY <2>1, SMT, Z3 DEF StartInv, TypeOK
<1>4. ASSUME Connected
      PROVE  StartInv'
  <2>1. /\ owner' = "idle" /\ attempts' = attempts /\ rd' = [rd EXCEPT ![attempts] = "loop"]
        /\ attempts \in Conns
    BY <1>4, Zenon DEF Connected, StartInv
  <2>. QED
    BY <2>1, SMT, Z3 DEF StartInv, TypeOK
<1>5. ASSUME Disconnect \/ ConnectFails \/ DisconnectShutdown \/ DisconnectClose \/ Destroy
      PROVE  StartInv'
  <2>1. CASE Destroy
    BY <1>1, <2>1, Zenon DEF Destroy, ownVars, readVars
  <2>2. CASE ~Destroy
    <3>1. UNCHANGED <<attempts, rd>> /\ owner' # "connecting"
      BY <1>5, <2>2 DEF Disconnect, ConnectFails, DisconnectShutdown, DisconnectClose, readVars
    <3>. QED
      BY <3>1, Zenon DEF StartInv
  <2>. QED
    BY <2>1, <2>2
<1>6. CASE UNCHANGED vars
  BY <1>1, <1>6, Zenon DEF vars, chanVars, ownVars, readVars
<1>. QED
  BY <1>1, <1>2, <1>3, <1>4, <1>5, <1>6, CallLeaves, PeerLeaves, Zenon DEF Next, OwnerStep

\* The first part of OverInv: a call is told "done" once its entry was made.
FlagInv ==
  \A c \in Calls : done_flag[c] => pc[c] \in {"write", "write_failed", "waiting", "returned"}

\* Nobody points to a call before its entry is made.
LEMMA EarlyForgotten ==
  ASSUME Core, NEW c \in Calls, pc[c] \in {"idle", "take_id", "register"}
  PROVE  Forgotten(c)
<1>1. c \notin Pending
  BY CallsAssumption, Zenon DEF Core, PendingInv, Pending
<1>2. ASSUME NEW k \in Conns, rd[k] \in {"deliver", "flag"}
      PROVE  target[k] # c
  BY <1>2, TargetFacts, Zenon DEF AtWork, Written
<1>. QED
  BY <1>1, <1>2, Zenon DEF Forgotten

\* A step of CallMethod tells no call "done" whose entry is still there.
LEMMA CallOver ==
  ASSUME TypeOK, Core, OverInv, NEW c \in Calls, CallMethod(c) \/ CallStep(c)
  PROVE  OverInv'
<1>. USE CallsAssumption
<1>0. UNCHANGED <<rd, target, done_flag>> /\ FlagInv
  BY CallLeaves, Zenon DEF OverInv, FlagInv
<1>1. PICK v \in CallPcs : pc' = [pc EXCEPT ![c] = v]
  BY Zenon DEF CallMethod, CallStep, TakeId, Register, WriteWhole, WriteShort, WriteError, WriteFailed,
     Wake, AfterWrite
<1>2. \A d \in Calls : pc'[d] = IF d = c THEN v ELSE pc[d]
  BY <1>1, Zenon DEF TypeOK
<1>3. pc[c] \in {"idle", "take_id", "register"} => ~done_flag[c]
  BY <1>0, Zenon DEF FlagInv
<1>4. pc[c] \notin {"idle", "take_id", "register"} => v \in {"write_failed", "waiting", "returned"}
  <2>. SUFFICES ASSUME pc[c] \notin {"idle", "take_id", "register"}
                PROVE  pc'[c] \in {"write_failed", "waiting", "returned"}
    BY <1>2, Zenon
  <2>1. CASE WriteWhole(c) \/ WriteShort(c)
    BY <2>1, Zenon DEF WriteWhole, WriteShort, AfterWrite, TypeOK
  <2>2. CASE WriteError(c) \/ WriteFailed(c) \/ Wake(c)
    BY <2>2, Zenon DEF WriteError, WriteFailed, Wake, TypeOK
  <2>. QED
    BY <2>1, <2>2, Zenon DEF CallMethod, CallStep, TakeId, Register
<1>5. FlagInv'
  BY <1>0, <1>2, <1>3, <1>4, Zenon DEF FlagInv
<1>6. ASSUME \A k \in Conns : rd[k] # "exited", NEW d \in SyncCalls, Over(d)'
      PROVE  Forgotten(d)'
  <2>0. d \in Calls /\ d \notin AsyncCalls
    BY DEF SyncCalls
  <2>1. ASSUME pending_calls' = pending_calls, Forgotten(d)
        PROVE  Forgotten(d)'
    BY <1>0, <2>1, Zenon DEF Forgotten, Pending
  <2>2. ASSUME Over(d)
        PROVE  Forgotten(d)
    BY <1>6, <2>2, Zenon DEF OverInv
  <2>3. CASE CallMethod(c)
    <3>1. pc[c] = "idle" /\ pending_calls' = pending_calls
      BY <2>3, Zenon DEF CallMethod, chanVars
    <3>2. Forgotten(d)
      <4>1. CASE d = c
        BY <3>1, <4>1, EarlyForgotten, Zenon
      <4>2. CASE d # c
        BY <1>0, <1>2, <1>6, <2>0, <2>2, <4>2, Zenon DEF Over
      <4>. QED
        BY <4>1, <4>2
    <3>. QED
      BY <2>1, <3>1, <3>2
  <2>4. CASE WriteFailed(c)
    <3>1. /\ pc[c] = "write_failed"
          /\ pending_calls' = [pending_calls EXCEPT ![request_id[c]] = NoCall]
      BY <2>4, Zenon DEF WriteFailed
    <3>2. \A i \in Ids : pending_calls'[i] = IF i = request_id[c] THEN NoCall ELSE pending_calls[i]
      BY <3>1, Zenon DEF TypeOK
    <3>3. Pending' \subseteq Pending
      BY <3>2, Zenon DEF Pending
    <3>4. CASE d = c
      <4>1. c \notin Pending'
        <5>1. ASSUME NEW i \in Ids, pending_calls'[i] = c
              PROVE  FALSE
          <6>1. i # request_id[c] /\ pending_calls[i] = c
            BY <3>2, <5>1, Zenon
          <6>2. request_id[c] = i
            BY <6>1, Zenon DEF Core, PendingInv
          <6>. QED
            BY <6>1, <6>2
        <5>. QED
          BY <5>1, Zenon DEF Pending
      <4>2. ASSUME NEW k \in Conns, rd[k] \in {"deliver", "flag"}
            PROVE  target[k] # c
        BY <3>1, <4>2, TargetFacts, Zenon DEF AtWork, Written
      <4>. QED
        BY <1>0, <3>4, <4>1, <4>2, Zenon DEF Forgotten
    <3>5. CASE d # c
      <4>1. Forgotten(d)
        BY <1>0, <1>2, <1>6, <2>0, <2>2, <3>5, Zenon DEF Over
      <4>. QED
        BY <1>0, <3>3, <4>1, Zenon DEF Forgotten
    <3>. QED
      BY <3>4, <3>5
  <2>5. CASE Register(c)
    <3>1. /\ pc[c] = "register" /\ pc'[c] = "write"
          /\ pending_calls' = [pending_calls EXCEPT ![request_id[c]] = c]
      BY <2>5, Zenon DEF Register, TypeOK
    <3>2. \A i \in Ids : pending_calls'[i] = c \/ pending_calls'[i] = pending_calls[i]
      BY <3>1, Zenon DEF TypeOK
    <3>3. d # c
      BY <1>0, <1>3, <1>6, <3>1, Zenon DEF Over
    <3>4. Forgotten(d)
      BY <1>0, <1>2, <1>6, <2>0, <2>2, <3>3, Zenon DEF Over
    <3>5. d \notin Pending'
      BY <3>2, <3>3, <3>4, Zenon DEF Forgotten, Pending
    <3>. QED
      BY <1>0, <3>4, <3>5, Zenon DEF Forgotten
  <2>6. CASE TakeId(c) \/ WriteWhole(c) \/ WriteShort(c) \/ WriteError(c) \/ Wake(c)
    <3>1. pending_calls' = pending_calls
      BY <2>6, Zenon DEF TakeId, WriteWhole, WriteShort, WriteError, Wake, chanVars
    <3>2. d = c /\ pc'[c] = "returned" => done_flag[c]
      BY <2>0, <2>6, SMT, Z3 DEF TakeId, WriteWhole, WriteShort, WriteError, Wake, AfterWrite, TypeOK
    <3>3. Over(d)
      BY <1>0, <1>2, <1>6, <2>0, <3>2, Zenon DEF Over
    <3>. QED
      BY <2>1, <2>2, <3>1, <3>3
  <2>. QED
    BY <2>3, <2>4, <2>5, <2>6, Zenon DEF CallStep
<1>. QED
  BY <1>0, <1>5, <1>6, Zenon DEF OverInv, FlagInv

\* on_message() tells a call "done" when it is through with it.
LEMMA ReaderOver ==
  ASSUME TypeOK, Core, OverInv, NEW k \in Conns, ReaderStep(k)
  PROVE  OverInv'
<1>. USE CallsAssumption
<1>0. /\ rd[k] # "exited" /\ pc' = pc /\ FlagInv
      /\ \A j \in Conns \ {k} : rd'[j] = rd[j]
  BY ReaderThreadMoves, Zenon DEF OverInv, FlagInv
<1>1. CASE ReaderSweep(k) \/ ReaderBadMagic(k)
  <2>1. rd'[k] = "exited"
    BY <1>1, Zenon DEF ReaderSweep, ReaderBadMagic, TypeOK
  <2>2. \A c \in Calls : done_flag'[c] => done_flag[c] \/ c \in Pending
    BY <1>1, Zenon DEF ReaderSweep, ReaderBadMagic, callVars
  <2>3. \A c \in Pending : pc[c] \in {"write", "write_failed", "waiting", "returned"}
    <3>. SUFFICES ASSUME NEW c \in Pending
                  PROVE  pc[c] \in {"write", "write_failed", "waiting", "returned"}
      BY Zenon
    <3>1. c \in Calls /\ c # NoCall
      BY CallsAssumption, Zenon DEF Pending
    <3>2. PICK i \in Ids : pending_calls[i] = c
      BY Zenon DEF Pending
    <3>3. PendingInv
      BY Zenon DEF Core
    <3>. QED
      BY <3>1, <3>2, <3>3, ZenonT(40) DEF PendingInv
  <2>4. FlagInv'
    BY <1>0, <2>2, <2>3, Zenon DEF FlagInv
  <2>. QED
    BY <2>1, <2>4, Zenon DEF OverInv, FlagInv
<1>2. CASE ReaderFlag(k)
  <2>1. /\ rd[k] = "flag" /\ rd'[k] = "run_done" /\ pending_calls' = pending_calls
        /\ target' = target /\ done_flag' = [done_flag EXCEPT ![target[k]] = TRUE]
    BY <1>2, Zenon DEF ReaderFlag, TypeOK, chanVars
  <2>2. /\ target[k] \in Calls /\ Written(target[k])
        /\ \A i \in Ids : pending_calls[i] # target[k]
        /\ \A j \in Conns : AtWork(j) /\ target[j] = target[k] => j = k
    BY <2>1, TargetFacts, Zenon DEF AtWork
  <2>3. \A c \in Calls : done_flag'[c] = IF c = target[k] THEN TRUE ELSE done_flag[c]
    BY <2>1, Zenon DEF TypeOK
  <2>4. FlagInv'
    BY <1>0, <2>2, <2>3, Zenon DEF FlagInv, Written
  <2>5. ASSUME \A j \in Conns : rd'[j] # "exited", NEW c \in SyncCalls, Over(c)'
        PROVE  Forgotten(c)'
    <3>0. c \in Calls
      BY DEF SyncCalls
    <3>1. CASE c = target[k]
      <4>1. c \notin Pending'
        BY <2>1, <2>2, <3>1, Zenon DEF Pending
      <4>2. ASSUME NEW j \in Conns, rd'[j] \in {"deliver", "flag"}
            PROVE  target[j] # c
        <5>1. j # k /\ rd[j] \in {"deliver", "flag"}
          BY <1>0, <2>1, <4>2
        <5>. QED
          BY <2>2, <3>1, <5>1, Zenon DEF AtWork
      <4>. QED
        BY <2>1, <4>1, <4>2, Zenon DEF Forgotten
    <3>2. CASE c # target[k]
      <4>1. Over(c)
        BY <1>0, <2>3, <2>5, <3>0, <3>2, Zenon DEF Over
      <4>2. Forgotten(c)
        BY <1>0, <2>5, <4>1, Zenon DEF OverInv
      <4>3. \A j \in Conns : rd'[j] \in {"deliver", "flag"} => rd[j] \in {"deliver", "flag"}
        BY <1>0, <2>1, Zenon
      <4>. QED
        BY <2>1, <4>2, <4>3, Zenon DEF Forgotten, Pending
    <3>. QED
      BY <3>1, <3>2
  <2>. QED
    BY <2>4, <2>5, Zenon DEF OverInv, FlagInv
<1>3. CASE OnMessage(k) /\ Matches(Head(buf[k]))
  <2>. DEFINE i == Head(buf[k]).id
  <2>1. /\ rd'[k] = "deliver" /\ done_flag' = done_flag
        /\ target' = [target EXCEPT ![k] = pending_calls[i]]
        /\ pending_calls' = [pending_calls EXCEPT ![i] = NoCall]
        /\ pending_calls[i] # NoCall
    BY <1>3, Zenon DEF OnMessage, Matches, Erase, TypeOK, callVars
  <2>2. i \in Ids
    <3>1. buf[k] \in Seq(Frames) /\ buf[k] # <<>>
      BY <1>3, Zenon DEF OnMessage, TypeOK
    <3>2. Head(buf[k]) \in Frames
      BY <3>1, HeadAndTail, Zenon
    <3>. QED
      BY <3>2, SMT, Z3 DEF Frames
  <2>. HIDE DEF i
  <2>3. pending_calls[i] \in Pending
    BY <2>1, <2>2, Zenon DEF Pending, TypeOK
  <2>4. target'[k] = pending_calls[i] /\ \A j \in Conns \ {k} : target'[j] = target[j]
    BY <2>1, Zenon DEF TypeOK
  <2>5. \A n \in Ids : pending_calls'[n] = NoCall \/ pending_calls'[n] = pending_calls[n]
    BY <2>1, Zenon DEF TypeOK
  <2>6. Pending' \subseteq Pending
    BY <2>5, Zenon DEF Pending
  <2>7. ASSUME \A j \in Conns : rd'[j] # "exited", NEW c \in SyncCalls, Over(c)'
        PROVE  Forgotten(c)'
    <3>1. Forgotten(c)
      BY <1>0, <2>1, <2>7, Zenon DEF OverInv, Over
    <3>2. ASSUME NEW j \in Conns, rd'[j] \in {"deliver", "flag"}
          PROVE  target'[j] # c
      BY <1>0, <2>3, <2>4, <3>1, <3>2, Zenon DEF Forgotten
    <3>. QED
      BY <2>6, <3>1, <3>2, Zenon DEF Forgotten
  <2>. QED
    BY <1>0, <2>1, <2>7, Zenon DEF OverInv, FlagInv
<1>4. CASE \/ ReaderCheck(k) \/ ReaderRead(k) \/ ReaderData(k) \/ ReaderEnd(k) \/ ReaderDrained(k)
           \/ ReaderDeliver(k) \/ ReaderRunDone(k) \/ (OnMessage(k) /\ ~Matches(Head(buf[k])))
  <2>1. UNCHANGED <<pending_calls, target, done_flag>>
    BY <1>4, Zenon DEF ReaderCheck, ReaderRead, ReaderData, ReaderEnd, ReaderDrained, ReaderDeliver,
       ReaderRunDone, OnMessage, chanVars, callVars
  <2>2. rd'[k] \in {"deliver", "flag"} => rd[k] \in {"deliver", "flag"}
    <3>1. CASE ReaderDeliver(k) \/ (OnMessage(k) /\ ~Matches(Head(buf[k])))
      BY <3>1, Zenon DEF ReaderDeliver, OnMessage
    <3>2. CASE ReaderCheck(k)
      BY <3>2 DEF ReaderCheck, TypeOK
    <3>3. CASE ReaderRead(k) \/ ReaderData(k) \/ ReaderEnd(k) \/ ReaderDrained(k) \/ ReaderRunDone(k)
      <4>1. PICK v \in {"reading", "parse", "sweep", "loop"} : rd' = [rd EXCEPT ![k] = v]
        BY <3>3, Zenon DEF ReaderRead, ReaderData, ReaderEnd, ReaderDrained, ReaderRunDone
      <4>2. rd'[k] = v
        BY <4>1, Zenon DEF TypeOK
      <4>. QED
        BY <4>2
    <3>. QED
      BY <1>4, <3>1, <3>2, <3>3
  <2>3. ASSUME \A j \in Conns : rd'[j] # "exited", NEW c \in SyncCalls, Over(c)'
        PROVE  Forgotten(c)'
    <3>1. Forgotten(c)
      BY <1>0, <2>1, <2>3, Zenon DEF OverInv, Over
    <3>2. \A j \in Conns : rd'[j] \in {"deliver", "flag"} => rd[j] \in {"deliver", "flag"}
      BY <1>0, <2>2, Zenon
    <3>. QED
      BY <2>1, <3>1, <3>2, Zenon DEF Forgotten, Pending
  <2>. QED
    BY <1>0, <2>1, <2>3, Zenon DEF OverInv, FlagInv
<1>. QED
  BY <1>1, <1>2, <1>3, <1>4, Zenon DEF ReaderStep

\* Until a reader thread has ended, what the caller of a synchronous call has
\* been told is over stays out of the reach of every reader thread.
LEMMA OverStep ==
  ASSUME TypeOK, Core, StartInv, OverInv, [Next]_vars
  PROVE  OverInv'
<1>1. ASSUME UNCHANGED <<rd, target, pending_calls, pc, done_flag>>
      PROVE  OverInv'
  BY <1>1, Zenon DEF OverInv, Over, Forgotten, Pending
<1>2. ASSUME Connected
      PROVE  OverInv'
  <2>1. /\ rd' = [rd EXCEPT ![attempts] = "loop"] /\ attempts \in Conns /\ rd[attempts] = "none"
    BY <1>2, Zenon DEF Connected, StartInv
  <2>2. UNCHANGED <<target, pending_calls, pc, done_flag>>
    BY <1>2, OwnerLeaves, Zenon DEF OwnerStep
  <2>3. \A j \in Conns : rd'[j] = IF j = attempts THEN "loop" ELSE rd[j]
    BY <2>1, Zenon DEF TypeOK
  <2>4. (\A j \in Conns : rd'[j] # "exited") => (\A j \in Conns : rd[j] # "exited")
    BY <2>1, <2>3
  <2>5. \A j \in Conns : rd'[j] \in {"deliver", "flag"} => rd[j] \in {"deliver", "flag"}
    BY <2>3
  <2>. QED
    BY <2>2, <2>4, <2>5, Zenon DEF OverInv, Over, Forgotten, Pending
<1>3. ASSUME Connect \/ Disconnect \/ ConnectFails \/ DisconnectShutdown \/ DisconnectClose \/ Destroy
      PROVE  OverInv'
  <2>1. UNCHANGED <<target, pending_calls, pc, done_flag>>
    BY <1>3, OwnerLeaves, Zenon DEF OwnerStep
  <2>2. rd' = rd
    BY <1>3, Zenon DEF Connect, Disconnect, ConnectFails, DisconnectShutdown, DisconnectClose, Destroy,
       readVars
  <2>. QED
    BY <1>1, <2>1, <2>2
<1>4. CASE UNCHANGED vars
  BY <1>1, <1>4, Zenon DEF vars, chanVars, callVars, readVars
<1>. QED
  BY <1>1, <1>2, <1>3, <1>4, CallOver, ReaderOver, PeerLeaves, Zenon DEF Next, OwnerStep

-----------------------------------------------------------------------------
(***************************************************************************)
(* The promise of RpcCall, step by step.                                   *)
(***************************************************************************)

\* What a step of the channel may do to a call, in terms of its variables.
Settles(c) ==
  \/ failed'[c] = failed[c] /\ response'[c] = response[c]
  \/ failed'[c] = TRUE /\ response[c] = NoCall /\ response'[c] = NoCall
  \/ failed'[c] = failed[c] /\ response[c] = NoCall /\ response'[c] = c
Returns(c) ==
  \/ (pc'[c] = "returned") <=> (pc[c] = "returned")
  \/ pc'[c] = "returned" /\ (c \in AsyncCalls \/ failed'[c] \/ response'[c] # NoCall)
Runs(c) ==
  \/ closures'[c] = closures[c]
  \/ /\ c \in AsyncCalls /\ closures[c] = 0 /\ closures'[c] = 1
     /\ failed'[c] \/ response'[c] # NoCall
KeepsPromise == \A c \in Calls : Settles(c) /\ Returns(c) /\ Runs(c)

\* Calling done->Run() for a settled call whose closure has not run.
LEMMA RunsOnce ==
  ASSUME TypeOK, NEW c \in Calls, closures' = RunDone(c), closures[c] = 0,
         failed'[c] \/ response'[c] # NoCall
  PROVE  \A d \in Calls : Runs(d)
<1>1. \A d \in Calls \ {c} : closures'[d] = closures[d]
  BY Zenon DEF RunDone, TypeOK
<1>2. closures'[c] = IF c \in AsyncCalls THEN 1 ELSE closures[c]
  BY SMT, Z3 DEF RunDone, TypeOK
<1>. QED
  BY <1>1, <1>2, Zenon DEF Runs

\* Every step of CallMethod is a step of the contract.
LEMMA CallPromise ==
  ASSUME IInv, NEW c \in Calls, CallMethod(c) \/ CallStep(c)
  PROVE  KeepsPromise
<1>. USE CallsAssumption DEF IInv
<1>1. CASE CallMethod(c)
  <2>1. pc[c] = "idle" /\ closures[c] = 0 /\ response[c] = NoCall /\ UNCHANGED response
    BY <1>1, Zenon DEF CallMethod, SettledInv, Written
  <2>2. CASE connected
    <3>1. UNCHANGED <<failed, closures>> /\ pc' = [pc EXCEPT ![c] = "take_id"]
      BY <1>1, <2>2 DEF CallMethod
    <3>. QED
      BY <2>1, <3>1, Zenon DEF KeepsPromise, Settles, Returns, Runs, TypeOK
  <2>3. CASE ~connected
    <3>1. /\ pc' = [pc EXCEPT ![c] = "returned"]
          /\ failed' = [failed EXCEPT ![c] = TRUE]
          /\ closures' = RunDone(c)
      BY <1>1, <2>3, Zenon DEF CallMethod
    <3>2. failed'[c] = TRUE
      BY <3>1, Zenon DEF TypeOK
    <3>3. \A d \in Calls : Runs(d)
      BY <2>1, <3>1, <3>2, RunsOnce, Zenon
    <3>4. \A d \in Calls : Settles(d) /\ Returns(d)
      BY <2>1, <3>1, Zenon DEF Settles, Returns, TypeOK
    <3>. QED
      BY <3>3, <3>4, Zenon DEF KeepsPromise
  <2>. QED
    BY <2>2, <2>3, Zenon
<1>2. CASE TakeId(c) \/ Register(c) \/ WriteError(c)
  <2>1. UNCHANGED <<failed, response, closures>> /\ pc[c] # "returned"
    BY <1>2, Zenon DEF TakeId, Register, WriteError
  <2>2. PICK v \in {"register", "write", "write_failed"} : pc' = [pc EXCEPT ![c] = v]
    BY <1>2, Zenon DEF TakeId, Register, WriteError
  <2>. QED
    BY <2>1, <2>2, Zenon DEF KeepsPromise, Settles, Returns, Runs, TypeOK
<1>3. CASE WriteWhole(c) \/ WriteShort(c)
  <2>1. UNCHANGED <<failed, response, closures>> /\ pc' = [pc EXCEPT ![c] = AfterWrite(c)]
        /\ pc[c] # "returned"
    BY <1>3 DEF WriteWhole, WriteShort
  <2>. QED
    BY <2>1, Zenon DEF KeepsPromise, Settles, Returns, Runs, AfterWrite, TypeOK
<1>4. CASE WriteFailed(c)
  <2>1. /\ pc[c] = "write_failed" /\ UNCHANGED response
        /\ pc' = [pc EXCEPT ![c] = "returned"]
        /\ failed' = [failed EXCEPT ![c] = TRUE]
        /\ closures' = RunDone(c)
    BY <1>4 DEF WriteFailed
  <2>2. closures[c] = 0 /\ response[c] = NoCall /\ failed'[c] = TRUE
    BY <2>1, ZenonT(40) DEF SettledInv, Written, TypeOK
  <2>3. \A d \in Calls : Runs(d)
    BY <2>1, <2>2, RunsOnce
  <2>4. \A d \in Calls : Settles(d) /\ Returns(d)
    BY <2>1, <2>2, Zenon DEF Settles, Returns, TypeOK
  <2>. QED
    BY <2>3, <2>4 DEF KeepsPromise
<1>5. CASE Wake(c)
  <2>1. UNCHANGED <<failed, response, closures>> /\ pc' = [pc EXCEPT ![c] = "returned"]
        /\ done_flag[c]
    BY <1>5, Zenon DEF Wake
  <2>2. failed[c] \/ response[c] # NoCall
    BY <2>1, Zenon DEF SettledInv
  <2>. QED
    BY <2>1, <2>2 DEF KeepsPromise, Settles, Returns, Runs, TypeOK
<1>. QED
  BY <1>1, <1>2, <1>3, <1>4, <1>5 DEF CallStep

\* Storing one answer, or one failure, for a call without a response settles that
\* call and no other: the two branches of the reader's delivery.
LEMMA SettlesOnce ==
  ASSUME NEW t \in Calls, response[t] = NoCall,
         failed \in [Calls -> BOOLEAN],
         response \in [Calls -> Calls \cup {NoCall}],
         \/ response' = [response EXCEPT ![t] = t] /\ UNCHANGED failed
         \/ failed' = [failed EXCEPT ![t] = TRUE] /\ UNCHANGED response
  PROVE  \A c \in Calls : Settles(c)
BY DEF Settles

\* Every step of the reader thread is a step of the contract.
LEMMA ReaderPromise ==
  ASSUME IInv, NEW k \in Conns, ReaderStep(k)
  PROVE  KeepsPromise
<1>. USE CallsAssumption DEF IInv
<1>0. Core
  BY SMTT(40), Z3T(40) DEF Core
<1>1. CASE ReaderSweep(k)
  <2>1. \A c \in Pending : response[c] = NoCall
    BY DEF Pending, PendingInv
  <2>2. /\ UNCHANGED <<pc, response, closures>>
        /\ \A c \in Calls : failed'[c] = failed[c] \/ (failed'[c] = TRUE /\ c \in Pending)
    BY <1>1, Zenon DEF ReaderSweep, TypeOK
  <2>. QED
    BY <2>1, <2>2, Zenon DEF KeepsPromise, Settles, Returns, Runs
<1>2. CASE ReaderDeliver(k)
  <2>1. /\ target[k] \in Calls /\ cur[k].call = target[k] /\ response[target[k]] = NoCall
    BY <1>0, <1>2, TargetFacts, Zenon DEF ReaderDeliver, AtWork, DeliveryInv
  <2>2. UNCHANGED <<pc, closures>>
    BY <1>2, Zenon DEF ReaderDeliver
  <2>3. \/ /\ response' = [response EXCEPT ![target[k]] = target[k]]
           /\ UNCHANGED failed
        \/ /\ failed' = [failed EXCEPT ![target[k]] = TRUE]
           /\ UNCHANGED response
    BY <1>2, <2>1, Zenon DEF ReaderDeliver
  <2>4. /\ failed \in [Calls -> BOOLEAN]
        /\ response \in [Calls -> Calls \cup {NoCall}]
    BY Zenon DEF TypeOK
  <2>5. \A c \in Calls : Settles(c)
    BY <2>1, <2>3, <2>4, SettlesOnce, Zenon
  <2>. QED
    BY <2>2, <2>5, Zenon DEF KeepsPromise, Returns, Runs
<1>3. CASE ReaderRunDone(k)
  <2>1. /\ target[k] \in Calls /\ closures[target[k]] = 0
        /\ failed[target[k]] \/ response[target[k]] # NoCall
    BY <1>0, <1>3, TargetFacts DEF ReaderRunDone, AtWork, DeliveryInv
  <2>2. UNCHANGED <<pc, failed, response>> /\ closures' = RunDone(target[k])
    BY <1>3, Zenon DEF ReaderRunDone
  <2>3. \A c \in Calls : Runs(c)
    BY <2>1, <2>2, RunsOnce
  <2>. QED
    BY <2>2, <2>3, Zenon DEF KeepsPromise, Settles, Returns
<1>4. CASE ~(ReaderSweep(k) \/ ReaderDeliver(k) \/ ReaderRunDone(k))
  <2>1. UNCHANGED <<pc, failed, response, closures>>
    BY <1>4, Zenon DEF ReaderStep, ReaderCheck, ReaderRead, ReaderData, ReaderEnd, ReaderDrained,
                ReaderBadMagic, OnMessage, ReaderFlag, callVars
  <2>. QED
    BY <2>1, Zenon DEF KeepsPromise, Settles, Returns, Runs
<1>. QED
  BY <1>1, <1>2, <1>3, <1>4

\* Every step of the channel is a step of the contract or a stutter.
LEMMA StepPromise ==
  ASSUME IInv, [Next]_vars
  PROVE  KeepsPromise
<1>1. ASSUME UNCHANGED callVars
      PROVE  KeepsPromise
  BY <1>1 DEF callVars, KeepsPromise, Settles, Returns, Runs
<1>2. CASE UNCHANGED vars
  BY <1>1, <1>2, Zenon DEF vars
<1>3. CASE Connect \/ Disconnect \/ OwnerStep \/ Destroy
  BY <1>1, <1>3, Zenon DEF Connect, Disconnect, OwnerStep, ConnectFails, Connected,
                    DisconnectShutdown, DisconnectClose, Destroy
<1>4. ASSUME NEW k \in Conns, PeerAnswer(k) \/ PeerNoise(k) \/ PeerClose(k)
      PROVE  KeepsPromise
  BY <1>1, <1>4 DEF PeerAnswer, PeerNoise, PeerClose
<1>. QED
  BY <1>2, <1>3, <1>4, CallPromise, ReaderPromise, ZenonT(40) DEF Next

\* Such a step, seen through the refinement mapping, is one of RpcCall.
LEMMA PromiseRefines ==
  ASSUME TypeOK, TypeOK', KeepsPromise
  PROVE  Contract!Next
<1>. USE CallsAssumption
<1>. SUFFICES ASSUME NEW c \in Calls
              PROVE  Contract!Settle(c) /\ Contract!Return(c) /\ Contract!RunDone(c)
  BY DEF Contract!Next
<1>1. Settles(c) /\ Returns(c) /\ Runs(c)
  BY Zenon DEF KeepsPromise
<1>2. /\ Outcome[c] = IF failed[c] THEN "failed" ELSE IF response[c] # NoCall THEN "ok" ELSE "none"
      /\ Outcome'[c] = IF failed'[c] THEN "failed"
                       ELSE IF response'[c] # NoCall THEN "ok" ELSE "none"
      /\ Answer[c] = IF failed[c] THEN NoCall ELSE response[c]
      /\ Answer'[c] = IF failed'[c] THEN NoCall ELSE response'[c]
      /\ Returned[c] = (pc[c] = "returned")
      /\ Returned'[c] = (pc'[c] = "returned")
  BY DEF Outcome, Answer, Returned
<1>3. failed[c] \in BOOLEAN /\ failed'[c] \in BOOLEAN
  BY Zenon DEF TypeOK
<1>4. Contract!Settle(c)
  BY <1>1, <1>2, <1>3, Zenon DEF Contract!Settle, Settles
<1>5. Contract!Return(c)
  BY <1>1, <1>2, Zenon DEF Contract!Return, Returns
<1>6. Contract!RunDone(c)
  BY <1>1, <1>2, Zenon DEF Contract!RunDone, Runs
<1>. QED
  BY <1>4, <1>5, <1>6

-----------------------------------------------------------------------------
(***************************************************************************)
(* The steps that move frames.                                             *)
(***************************************************************************)

\* Bytes move from the socket to the buffer: every frame stays what it was.
LEMMA ReaderDataCore ==
  ASSUME TypeOK, Core, NEW k \in Conns, ReaderData(k)
  PROVE  Core'
<1>. USE BoundsAssumption
<1>0. /\ rd' = [rd EXCEPT ![k] = "parse"]
      /\ UNCHANGED <<next_request_id, pending_calls, callVars, cur, target, inbox>>
  BY DEF ReaderData, chanVars
<1>1. rfd[k] \in Conns
  BY Zenon DEF ReaderData, TypeOK
<1>2. PICK n \in 1 .. Len(down[rfd[k]]) :
        /\ buf' = [buf EXCEPT ![k] = @ \o SubSeq(down[rfd[k]], 1, n)]
        /\ down' = [down EXCEPT ![rfd[k]] = SubSeq(@, n + 1, Len(@))]
  BY Zenon DEF ReaderData
<1>. DEFINE d == down[rfd[k]]
            b == buf[k]
<1>3. d \in Seq(Frames) /\ b \in Seq(Frames) /\ Len(d) \in Nat /\ Len(b) \in Nat
  BY <1>1, LenFacts, Zenon DEF TypeOK
<1>4. \A f : Genuine(f) => Genuine(f)'
  BY <1>0, Zenon DEF Genuine, Written, callVars
<1>5. \A m \in 1 .. Len(d) : Genuine(d[m])
  BY <1>1, <1>3, LenFacts, Zenon DEF Core, WireInv
<1>6. \A m \in 1 .. Len(b) : Genuine(b[m])
  BY <1>3, LenFacts, ZenonT(40) DEF Core, WireInv
<1>7. \A m \in DOMAIN (b \o SubSeq(d, 1, n)) : Genuine((b \o SubSeq(d, 1, n))[m])
  <2>1. /\ SubSeq(d, 1, n) \in Seq(Frames)
        /\ Len(SubSeq(d, 1, n)) = n
        /\ \A m \in 1 .. n : SubSeq(d, 1, n)[m] = d[m]
    BY <1>3, FramesType, PartFacts, SMTT(40), Z3T(40)
  <2>2. /\ DOMAIN (b \o SubSeq(d, 1, n)) = 1 .. Len(b) + n
        /\ \A m \in 1 .. Len(b) + n : (b \o SubSeq(d, 1, n))[m] =
              IF m <= Len(b) THEN b[m] ELSE SubSeq(d, 1, n)[m - Len(b)]
    BY <1>3, <2>1, JoinFacts, LenFacts, SMTT(40), Z3T(40)
  <2>3. \A m \in 1 .. Len(b) + n : m <= Len(b) => m \in 1 .. Len(b)
    BY <1>3, SMT, Z3
  <2>4. \A m \in 1 .. Len(b) + n :
          ~(m <= Len(b)) => m - Len(b) \in 1 .. n /\ m - Len(b) \in 1 .. Len(d)
    BY <1>3, SMTT(40), Z3T(40)
  <2>. QED
    BY <1>5, <1>6, <2>1, <2>2, <2>3, <2>4, SMTT(40), Z3T(40)
<1>8. \A m \in DOMAIN SubSeq(d, n + 1, Len(d)) : Genuine(SubSeq(d, n + 1, Len(d))[m])
  <2>1. /\ SubSeq(d, n + 1, Len(d)) \in Seq(Frames)
        /\ Len(SubSeq(d, n + 1, Len(d))) = Len(d) - n
        /\ \A m \in 1 .. Len(d) - n : SubSeq(d, n + 1, Len(d))[m] = d[n + m]
    <3>1. \A i \in n + 1 .. Len(d) : d[i] \in Frames
      BY <1>3, LenFacts, SMT, Z3
    <3>. QED
      BY <1>3, <3>1, FramesType, PartFacts, SMTT(40), Z3T(40)
  <2>2. DOMAIN SubSeq(d, n + 1, Len(d)) = 1 .. Len(d) - n
    BY <2>1, LenFacts, Zenon
  <2>3. \A m \in 1 .. Len(d) - n : n + m \in 1 .. Len(d)
    BY <1>3, SMT, Z3
  <2>. QED
    BY <1>5, <2>1, <2>2, <2>3, Zenon
<1>9. WireInv'
  <2>1. (\A j \in Conns : \A m \in DOMAIN buf[j] : Genuine(buf[j][m]))'
    <3>1. \A j \in Conns : buf'[j] = IF j = k THEN b \o SubSeq(d, 1, n) ELSE buf[j]
      BY <1>2 DEF TypeOK
    <3>. QED
      BY <1>4, <1>7, <3>1, Zenon DEF Core, WireInv
  <2>2. (\A j \in Conns : \A m \in DOMAIN down[j] : Genuine(down[j][m]))'
    <3>1. \A j \in Conns : down'[j] = IF j = rfd[k] THEN SubSeq(d, n + 1, Len(d)) ELSE down[j]
      BY <1>2, Zenon DEF TypeOK
    <3>. QED
      BY <1>4, <1>8, <3>1, Zenon DEF Core, WireInv
  <2>3. (\A j \in Conns : Genuine(cur[j]))'
    BY <1>0, <1>4, Zenon DEF Core, WireInv
  <2>4. (\A j \in Conns : \A r \in inbox[j] : Written(r.call) /\ r.id = request_id[r.call])'
    BY <1>0, Zenon DEF Core, WireInv, Written, callVars
  <2>. QED
    BY <2>1, <2>2, <2>3, <2>4, Zenon DEF WireInv
<1>10. DeliveryInv'
  <2>1. \A j \in Conns : AtWork(j)' => AtWork(j) /\ rd'[j] = rd[j]
    BY <1>0, Zenon DEF AtWork, TypeOK
  <2>. QED
    BY <1>0, <2>1, ZenonT(40) DEF Core, DeliveryInv, callVars
<1>11. IdsInv'
  BY <1>0, Zenon DEF Core, IdsInv, Numbered, callVars
<1>12. PendingInv' /\ SettledInv'
  BY <1>0, Zenon DEF Core, PendingInv, SettledInv, Written, callVars
<1>. QED
  BY <1>9, <1>10, <1>11, <1>12, Zenon DEF Core

\* The server answers only requests it has received, with their ids.
LEMMA PeerCore ==
  ASSUME TypeOK, Core, NEW k \in Conns, PeerAnswer(k) \/ PeerNoise(k) \/ PeerClose(k)
  PROVE  Core'
<1>. USE BoundsAssumption, CallsAssumption
<1>0. UNCHANGED <<next_request_id, pending_calls, callVars, rd, buf, cur, target>>
  BY DEF PeerAnswer, PeerNoise, PeerClose, chanVars, readVars
<1>1. \A j \in Conns : inbox'[j] \subseteq inbox[j]
  <2>1. inbox' = inbox \/ \E rest \in SUBSET inbox[k] : inbox' = [inbox EXCEPT ![k] = rest]
    <3>1. CASE PeerAnswer(k)
      BY <3>1, Zenon DEF PeerAnswer
    <3>2. CASE PeerNoise(k)
      BY <3>2 DEF PeerNoise
    <3>3. CASE PeerClose(k)
      BY <3>3, ZenonT(40) DEF PeerClose
    <3>. QED
      BY <3>1, <3>2, <3>3
  <2>. QED
    BY <2>1, ZenonT(40) DEF TypeOK
<1>2. \A g : Genuine(g) => Genuine(g)'
  BY <1>0, Zenon DEF Genuine, Written, callVars
<1>3. \/ down' = down
      \/ \E g \in Frames : Genuine(g) /\ down' = [down EXCEPT ![k] = Append(@, g)]
  <2>1. CASE PeerAnswer(k)
    <3>1. PICK r \in inbox[k], kind \in PeerFrames \cap AnswerKinds :
            down' = [down EXCEPT ![k] = Append(@, [kind |-> kind, id |-> r.id, call |-> r.call])]
      BY <2>1, Zenon DEF PeerAnswer
    <3>. DEFINE g == [kind |-> kind, id |-> r.id, call |-> r.call]
    <3>2. r.id \in Ids /\ r.call \in Calls
      BY <3>1, SMTT(40), Z3T(40) DEF TypeOK, Requests
    <3>3. g \in Frames
      BY <3>2, Zenon DEF Frames
    <3>4. Genuine(g)
      BY DEF Core, WireInv, Genuine
    <3>. QED
      BY <3>1, <3>3, <3>4, Zenon
  <2>2. CASE PeerNoise(k)
    <3>1. PICK kind \in PeerFrames \ AnswerKinds :
            down' = [down EXCEPT ![k] = Append(@, [kind |-> kind, id |-> 0, call |-> NoCall])]
      BY <2>2, Zenon DEF PeerNoise
    <3>. DEFINE g == [kind |-> kind, id |-> 0, call |-> NoCall]
    <3>2. kind \in FrameKinds
      BY <3>1
    <3>3. 0 \in Ids
      BY SMT, Z3
    <3>4. g \in Frames
      BY <3>2, <3>3, Zenon DEF Frames
    <3>5. Genuine(g)
      BY DEF Genuine
    <3>. QED
      BY <3>1, <3>4, <3>5, Zenon
  <2>3. CASE PeerClose(k)
    BY <2>3, Zenon DEF PeerClose
  <2>. QED
    BY <2>1, <2>2, <2>3, Zenon
<1>4. (\A j \in Conns : \A m \in DOMAIN down[j] : Genuine(down[j][m]))'
  <2>1. CASE down' = down
    BY <1>2, <2>1, Zenon DEF Core, WireInv
  <2>2. ASSUME NEW g \in Frames, Genuine(g), down' = [down EXCEPT ![k] = Append(@, g)]
        PROVE  (\A j \in Conns : \A m \in DOMAIN down[j] : Genuine(down[j][m]))'
    <3>1. down[k] \in Seq(Frames) /\ Len(down[k]) \in Nat
      BY LenFacts, Zenon DEF TypeOK
    <3>2. /\ DOMAIN Append(down[k], g) = 1 .. Len(down[k]) + 1
          /\ DOMAIN down[k] = 1 .. Len(down[k])
          /\ \A m \in 1 .. Len(down[k]) : Append(down[k], g)[m] = down[k][m]
          /\ Append(down[k], g)[Len(down[k]) + 1] = g
      BY <3>1, AddFacts, LenFacts, SMTT(40), Z3T(40)
    <3>3. \A m \in DOMAIN Append(down[k], g) : m \in DOMAIN down[k] \/ m = Len(down[k]) + 1
      BY <3>1, <3>2, SMT, Z3
    <3>4. \A m \in DOMAIN Append(down[k], g) : Genuine(Append(down[k], g)[m])
      BY <2>2, <3>2, <3>3, Zenon DEF Core, WireInv
    <3>5. \A j \in Conns : down'[j] = IF j = k THEN Append(down[k], g) ELSE down[j]
      BY <2>2, Zenon DEF TypeOK
    <3>. QED
      BY <1>2, <3>4, <3>5, Zenon DEF Core, WireInv
  <2>. QED
    BY <1>3, <2>1, <2>2, Zenon
<1>5. WireInv'
  <2>1. (\A j \in Conns : \A r \in inbox[j] : Written(r.call) /\ r.id = request_id[r.call])'
    BY <1>0, <1>1, Zenon DEF Core, WireInv, Written, callVars
  <2>2. (\A j \in Conns : Genuine(cur[j]) /\ \A m \in DOMAIN buf[j] : Genuine(buf[j][m]))'
    BY <1>0, <1>2, Zenon DEF Core, WireInv
  <2>. QED
    BY <1>4, <2>1, <2>2, Zenon DEF WireInv
<1>6. IdsInv' /\ PendingInv' /\ DeliveryInv' /\ SettledInv'
  <2>1. IdsInv'
    BY <1>0, Zenon DEF Core, IdsInv, Numbered, callVars
  <2>2. PendingInv'
    BY <1>0, Zenon DEF Core, PendingInv, callVars
  <2>3. DeliveryInv'
    BY <1>0, SMTT(40), Z3T(40) DEF Core, DeliveryInv, AtWork, callVars
  <2>4. SettledInv'
    BY <1>0, Zenon DEF Core, SettledInv, Written, callVars
  <2>. QED
    BY <2>1, <2>2, <2>3, <2>4, Zenon
<1>. QED
  BY <1>5, <1>6, Zenon DEF Core

-----------------------------------------------------------------------------
(***************************************************************************)
(* The step that takes an id.                                              *)
(***************************************************************************)
INSTANCE FiniteSetTheorems

\* next_request_id_.fetch_add(1) gives the call an id nobody else has.
LEMMA TakeIdCore ==
  ASSUME NoIdReuse, TypeOK, Core, NEW c \in Calls, TakeId(c)
  PROVE  Core'
<1>. USE CallsAssumption, BoundsAssumption DEF Core
<1>0. /\ pc[c] = "take_id"
      /\ pc' = [pc EXCEPT ![c] = "register"]
      /\ request_id' = [request_id EXCEPT ![c] = next_request_id]
      /\ UNCHANGED <<pending_calls, done_flag, failed, response, closures,
                     rd, buf, cur, target, inbox, down>>
  BY DEF TakeId, readVars, netVars
<1>1. request_id[c] = 0
  BY <1>0, Zenon DEF IdsInv
<1>2. \A d \in Calls : /\ pc'[d] = IF d = c THEN "register" ELSE pc[d]
                       /\ request_id'[d] = IF d = c THEN next_request_id ELSE request_id[d]
  BY <1>0, Zenon DEF TypeOK
<1>3. /\ IsFiniteSet(Numbered)
      /\ Cardinality(Numbered \cup {c}) = Cardinality(Numbered) + 1
      /\ Cardinality(Numbered) + 1 < RequestIdSpace
      /\ Cardinality(Numbered) \in Nat
  <2>1. Numbered \cup {c} \subseteq Calls /\ c \notin Numbered
    BY <1>1 DEF Numbered
  <2>2. IsFiniteSet(Numbered \cup {c}) /\ Cardinality(Numbered \cup {c}) <= Cardinality(Calls)
    BY <2>1, FS_Subset, Zenon DEF NoIdReuse
  <2>3. IsFiniteSet(Numbered)
    BY <2>1, FS_Subset, Zenon DEF NoIdReuse
  <2>4. Cardinality(Numbered \cup {c}) = Cardinality(Numbered) + 1
    BY <2>1, <2>3, FS_AddElement, Zenon
  <2>5. Cardinality(Numbered) \in Nat /\ Cardinality(Calls) \in Nat
    BY <2>3, FS_CardinalityType, Zenon DEF NoIdReuse
  <2>. QED
    BY <2>2, <2>3, <2>4, <2>5, SMTT(40), Z3T(40) DEF NoIdReuse
<1>4. next_request_id = Cardinality(Numbered) + 1 /\ next_request_id # 0
  BY <1>3, SMT, Z3 DEF IdsInv
<1>5. Numbered' = Numbered \cup {c}
  BY <1>2, <1>4, Zenon DEF Numbered
<1>6. IdsInv'
  <2>1. next_request_id' = IF Cardinality(Numbered') + 1 = RequestIdSpace
                           THEN 0 ELSE Cardinality(Numbered') + 1
    BY <1>3, <1>4, <1>5, Zenon DEF TakeId, NextId
  <2>2. \A d \in Calls : request_id[d] <= Cardinality(Numbered) /\ request_id[d] \in Int
    <3>1. \A d \in Calls : request_id[d] \in Int
      BY SMT, Z3 DEF TypeOK
    <3>2. \A d \in Calls : request_id[d] <= Cardinality(Numbered)
      BY DEF IdsInv
    <3>. QED
      BY <3>1, <3>2, Zenon
  <2>3. \A d \in Calls : request_id'[d] <= Cardinality(Numbered')
    BY <1>2, <1>3, <1>4, <1>5, <2>2, SMTT(40), Z3T(40)
  <2>4. \A d, e \in Numbered' : request_id'[d] = request_id'[e] => d = e
    <3>1. \A d \in Numbered : d \in Calls /\ d # c /\ request_id[d] < next_request_id
      BY <1>1, <1>3, <1>4, <2>2, SMTT(40), Z3T(40) DEF Numbered
    <3>. QED
      BY <1>2, <1>5, <3>1, <2>2, SMTT(40), Z3T(40) DEF IdsInv
  <2>. QED
    BY <1>2, <1>4, <2>1, <2>3, <2>4, Zenon DEF IdsInv
<1>7. WireInv'
  <2>1. StillWritten
    BY <1>0, <1>2, Zenon DEF StillWritten, Written
  <2>. QED
    BY <1>0, <2>1, WireStable, Zenon
<1>8. PendingInv'
  <2>1. \A i \in Ids : pending_calls[i] # c
    BY <1>0, SMTT(40), Z3T(40) DEF PendingInv
  <2>. QED
    BY <1>0, <1>2, <2>1, SMTT(40), Z3T(40) DEF PendingInv, TypeOK
<1>9. DeliveryInv'
  BY <1>0, SMTT(40), Z3T(40) DEF DeliveryInv, AtWork
<1>10. SettledInv'
  BY <1>0, <1>2, SMTT(40), Z3T(40) DEF SettledInv, Written, TypeOK
<1>. QED
  BY <1>6, <1>7, <1>8, <1>9, <1>10, Zenon

-----------------------------------------------------------------------------
(***************************************************************************)
(* The invariant.                                                          *)
(***************************************************************************)

\* A new channel has nothing pending, on the wire or under way.
LEMMA CoreInit ==
  ASSUME Init
  PROVE  Core
<1>. USE CallsAssumption, BoundsAssumption DEF Init
<1>1. Numbered = {}
  BY Zenon DEF Numbered
<1>2. Cardinality(Numbered) = 0
  BY <1>1, FS_EmptySet, Zenon
<1>3. IdsInv
  BY <1>1, <1>2, SMTT(40), Z3T(40) DEF IdsInv
<1>4. WireInv
  BY SMT, Z3 DEF WireInv, Genuine, NoFrame
<1>5. PendingInv /\ DeliveryInv /\ SettledInv
  BY DEF PendingInv, DeliveryInv, AtWork, SettledInv
<1>. QED
  BY <1>3, <1>4, <1>5, Zenon DEF Core

\* A step of the channel preserves the invariant.
LEMMA CoreStep ==
  ASSUME NoIdReuse, TypeOK, Core, [Next]_vars
  PROVE  Core'
<1>1. CASE UNCHANGED vars
  <2>1. UNCHANGED coreVars
    BY <1>1, Zenon DEF vars, coreVars, chanVars, readVars, netVars
  <2>. QED
    BY <2>1, CoreUnchanged, Zenon
<1>2. ASSUME NEW c \in Calls, CallMethod(c) \/ CallStep(c)
      PROVE  Core'
  BY <1>2, CallMethodCore, TakeIdCore, RegisterCore, WriteCore, WriteFailedCore, Zenon DEF CallStep
<1>3. ASSUME NEW k \in Conns, ReaderStep(k)
      PROVE  Core'
  BY <1>3, ReaderMovesCore, ReaderDataCore, ReaderSweepCore, OnMessageCore,
     ReaderDeliverCore, ReaderFlagCore, ReaderRunDoneCore, Zenon DEF ReaderStep
<1>. QED
  BY <1>1, <1>2, <1>3, OwnerCore, PeerCore, Zenon DEF Next

\* As long as request ids do not come round, the map, the wire and the reader
\* threads never mix up two calls: an entry, a frame or a delivery in
\* progress belongs to exactly the call that took its id.
THEOREM Invariance == NoIdReuse => (Spec => []IInv)
<1>. SUFFICES ASSUME NoIdReuse
              PROVE  Spec => []IInv
  OBVIOUS
<1>1. Init => Core
  BY CoreInit
<1>2. TypeOK /\ Core /\ [Next]_vars => Core'
  BY CoreStep
<1>3. Init => StartInv /\ OverInv
  BY Zenon DEF Init, StartInv, OverInv, Over, SyncCalls
<1>4. TypeOK /\ Core /\ StartInv /\ OverInv /\ [Next]_vars => StartInv' /\ OverInv'
  BY StartStep, OverStep
<1>5. IInv <=> TypeOK /\ Core /\ StartInv /\ OverInv
  BY DEF IInv, Core
<1>. QED
  BY <1>1, <1>2, <1>3, <1>4, <1>5, TypeCorrect, PTL DEF Spec

-----------------------------------------------------------------------------
(***************************************************************************)
(* The refinement.                                                         *)
(***************************************************************************)

\* CallMethod, the reader threads, connect() and disconnect() together keep
\* the promise of RpcCall, whatever the peer does, as long as request ids do
\* not come round: one outcome per call, from the answer to its own request;
\* no synchronous return before it; at most one run of the closure, after it.
THEOREM ChannelKeepsContract == NoIdReuse => (Spec => CallContract)
<1>. SUFFICES ASSUME NoIdReuse
              PROVE  Spec => CallContract
  OBVIOUS
<1>1. Init => Contract!Init
  BY CallsAssumption, ZenonT(40) DEF Init, Contract!Init, Outcome, Answer, Returned
<1>2. IInv /\ IInv' /\ [Next]_vars => [Contract!Next]_(Contract!vars)
  BY StepPromise, PromiseRefines DEF IInv
<1>3. Spec => []IInv
  BY Invariance
<1>. QED
  BY <1>1, <1>2, <1>3, PTL DEF Spec, CallContract, Contract!Spec

\* What the caller of CallMethod may count on at any time: its call ends with
\* the answer to its own request or a failure; it gets control back from a
\* synchronous call only when that is decided; done runs at most once, after it.
CallersView ==
  \A c \in Calls :
    /\ Outcome[c] = "ok" => Answer[c] = c
    /\ Returned[c] => c \in AsyncCalls \/ Outcome[c] # "none"
    /\ \/ closures[c] = 0
       \/ closures[c] = 1 /\ c \in AsyncCalls /\ Outcome[c] # "none"

\* A decided call is not decided again.
Final(c) == Outcome[c] # "none" => Outcome'[c] = Outcome[c] /\ Answer'[c] = Answer[c]

\* The view of the callers on a new channel, ...
LEMMA ViewInit ==
  ASSUME Contract!Init
  PROVE  CallersView
BY ZenonT(40) DEF Contract!Init, CallersView

\* ... and after a step of the contract.
LEMMA ViewStep ==
  ASSUME CallersView, [Contract!Next]_(Contract!vars)
  PROVE  CallersView' /\ \A c \in Calls : Final(c)
<1>1. CASE UNCHANGED Contract!vars
  BY <1>1, ZenonT(40) DEF Contract!vars, CallersView, Final
<1>2. CASE Contract!Next
  <2>. SUFFICES ASSUME NEW c \in Calls
                PROVE  /\ Final(c)
                       /\ Outcome'[c] = "ok" => Answer'[c] = c
                       /\ Returned'[c] => c \in AsyncCalls \/ Outcome'[c] # "none"
                       /\ \/ closures'[c] = 0
                          \/ closures'[c] = 1 /\ c \in AsyncCalls /\ Outcome'[c] # "none"
    BY ZenonT(40) DEF CallersView
  <2>1. Contract!Settle(c) /\ Contract!Return(c) /\ Contract!RunDone(c)
    BY <1>2, ZenonT(40) DEF Contract!Next
  <2>2. Final(c) /\ (Outcome'[c] = "ok" => Answer'[c] = c)
    BY <2>1, ZenonT(40) DEF Contract!Settle, CallersView, Final
  <2>3. Outcome[c] # "none" => Outcome'[c] # "none"
    BY <2>2, Zenon DEF Final
  <2>4. Returned'[c] => c \in AsyncCalls \/ Outcome'[c] # "none"
    BY <2>1, <2>3, ZenonT(40) DEF Contract!Return, CallersView
  <2>5. \/ closures'[c] = 0
        \/ closures'[c] = 1 /\ c \in AsyncCalls /\ Outcome'[c] # "none"
    BY <2>1, <2>3, ZenonT(40) DEF Contract!RunDone, CallersView
  <2>. QED
    BY <2>2, <2>4, <2>5, Zenon
<1>. QED
  BY <1>1, <1>2, ZenonT(40)

\* The contract, spelled out as what holds in every state of the channel and
\* across every step: nobody is given another call's answer, and neither a late
\* answer, nor a lost connection, nor disconnect() changes a decided call.
THEOREM CallersCanCount ==
  NoIdReuse => (Spec => []CallersView /\ [][\A c \in Calls : Final(c)]_vars)
<1>. SUFFICES ASSUME NoIdReuse
              PROVE  Spec => []CallersView /\ [][\A c \in Calls : Final(c)]_vars
  OBVIOUS
<1>1. Spec => Contract!Init /\ [][Contract!Next]_(Contract!vars)
  BY ChannelKeepsContract, PTL DEF CallContract, Contract!Spec
<1>2. Contract!Init => CallersView
  BY ViewInit
<1>3. CallersView /\ [Contract!Next]_(Contract!vars) => CallersView'
  BY ViewStep
<1>4. CallersView /\ [Contract!Next]_(Contract!vars) => [\A c \in Calls : Final(c)]_vars
  BY ViewStep
<1>. QED
  BY <1>1, <1>2, <1>3, <1>4, PTL

-----------------------------------------------------------------------------
(***************************************************************************)
(* The pointers of a PendingCall.                                          *)
(***************************************************************************)

\* No reader thread has ended, with or without failing the pending calls.
NoneEnded == \A k \in Conns : rd[k] # "exited"

\* Under the invariant a reader thread uses the pointers of no call that is
\* over, unless a reader thread has ended before.
LEMMA NoTouch ==
  ASSUME IInv, NoneEnded
  PROVE  NoTouchAfterReturn
<1>. USE CallsAssumption DEF IInv
<1>1. ASSUME NEW c \in SyncCalls, ~Forgotten(c)
      PROVE  Owned(c)
  BY <1>1, Zenon DEF NoneEnded, OverInv, Over, Owned, SyncCalls
<1>2. ASSUME NEW c \in AsyncCalls, closures[c] = 0
      PROVE  Owned(c)
  BY <1>2, Zenon DEF Owned
<1>3. ASSUME NEW k \in Conns, rd[k] = "deliver"
      PROVE  Owned(target[k])
  <2>1. target[k] \in Calls /\ closures[target[k]] = 0
    BY <1>3, TargetFacts, Zenon DEF AtWork, Core
  <2>2. ~Forgotten(target[k])
    BY <1>3, Zenon DEF Forgotten
  <2>. QED
    BY <1>1, <1>2, <2>1, <2>2, Zenon DEF SyncCalls
<1>4. ASSUME NEW c \in Pending
      PROVE  Owned(c)
  <2>1. c \in Calls /\ closures[c] = 0
    BY <1>4, Zenon DEF Pending, PendingInv
  <2>2. ~Forgotten(c)
    BY <1>4, Zenon DEF Forgotten
  <2>. QED
    BY <1>1, <1>2, <2>1, <2>2, Zenon DEF SyncCalls
<1>. QED
  BY <1>3, <1>4, Zenon DEF NoTouchAfterReturn

\* Until the first reader thread of a channel ends, neither on_message() nor
\* the failing of the pending calls follows the controller or response pointer
\* of a call whose caller was told that it is over.
THEOREM PointersValidUntilEnd == NoIdReuse => (Spec => [](NoneEnded => NoTouchAfterReturn))
BY Invariance, NoTouch, PTL

\* On a channel that is connected once, they never do.  (A second connection
\* breaks it: the entries that the first reader thread has failed stay in the
\* map, and the second one fails them again.)
THEOREM PointersStayValid ==
  NoIdReuse /\ MaxConnects <= 1 => (Spec => []NoTouchAfterReturn)
<1>. SUFFICES ASSUME NoIdReuse, MaxConnects <= 1
              PROVE  Spec => []NoTouchAfterReturn
  OBVIOUS
<1>1. \A j, k \in Conns : j = k
  BY BoundsAssumption
<1>2. IInv => NoTouchAfterReturn
  <2>1. SUFFICES ASSUME IInv, ~NoneEnded
                 PROVE  NoTouchAfterReturn
    BY NoTouch
  <2>2. \A k \in Conns : rd[k] = "exited"
    BY <1>1, <2>1, Zenon DEF NoneEnded
  <2>. QED
    BY <2>2 DEF NoTouchAfterReturn
<1>. QED
  BY <1>2, Invariance, PTL
=============================================================================
