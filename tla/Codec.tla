------------------------------- MODULE Codec --------------------------------
(***************************************************************************)
(* codec::Codec over one established connection, one direction: send_raw() *)
(* and the output_buf_ of the sending TcpConnection, the socket, and       *)
(* handle_read() with the input_buf_ of the receiving one.                 *)
(*                                                                         *)
(* The two header fields take one cell each instead of four bytes; a cell  *)
(* holds the magic number, a length or a byte of a body.  The peer is      *)
(* another Codec, or anything that writes bytes.                           *)
(***************************************************************************)
EXTENDS Buffer

CONSTANTS kMagicNumber,   \* the value of the magic field
          kMaxBodySize,   \* bodies announced longer than this are refused
          BodyByte,       \* bytes that bodies are made of
          MaxBody,        \* longest body that is sent
          MaxSent,        \* bodies that a Codec peer sends
          MaxRaw,         \* bytes that a raw peer sends
          SocketRoom      \* bytes the socket takes before write() is short

kHeaderSize == 2

ASSUME CodecAssumption ==
    /\ kMagicNumber \in Byte /\ kMaxBodySize \in Nat
    /\ BodyByte \subseteq Byte
    /\ MaxBody \in Nat /\ 0 .. MaxBody \subseteq Byte /\ Byte \subseteq Nat
    /\ MaxSent \in Nat /\ MaxRaw \in Nat /\ SocketRoom \in Nat \ {0}

Bodies == UNION {[1 .. n -> BodyByte] : n \in 0 .. MaxBody}

VARIABLES peer,         \* who sends: "codec" or "raw"; never changes
          sent,         \* bodies given to send_raw()
          output_buf,   \* the sender's output_buf_
          writing,      \* its channel_->is_writing(): EPOLLOUT is asked for
          wire,         \* bytes in the socket
          received,     \* all bytes that readv() has returned
          input_buf,    \* the receiver's input_buf_
          at,           \* its loop thread: "poll", or in on_message() ("parse")
          frames,       \* bodies passed to msg_cb_
          closed        \* force_close() was called

sendVars == <<sent, output_buf, writing>>
readVars == <<received, input_buf, at, frames, closed>>
vars == <<peer, sendVars, wire, readVars>>

Init ==
    /\ peer \in {"codec", "raw"}
    /\ sent = <<>> /\ frames = <<>> /\ wire = <<>> /\ received = <<>>
    /\ output_buf = NewBuffer /\ input_buf = NewBuffer
    /\ writing = FALSE /\ at = "poll" /\ closed = FALSE

-----------------------------------------------------------------------------
(***************************************************************************)
(* The sender.                                                             *)
(***************************************************************************)
\* send_raw() puts the frame together in a Buffer of its own, which
\* TcpConnection::send() empties with retrieve_all_as_string().
Encode(body) ==
    Content(append(append(append(NewBuffer, <<kMagicNumber>>), <<Len(body)>>), body))

Room == SocketRoom - Len(wire)
Upto(s, n)  == SubSeq(s, 1, n)
From(s, n)  == SubSeq(s, n + 1, Len(s))

\* ::write() takes the first n bytes of data; none is EWOULDBLOCK.
Takes(n, data) == n \in 0 .. Len(data) /\ n <= Room

\* Mutant of Direct: write() whatever is buffered.
DirectAlways == TRUE

\* Nothing is buffered: the happy path of send_in_loop().
Direct == ~ writing /\ readable(output_buf) = 0

\* Mutant of SendRaw: the rest of a short write() waits for the next send.
SendRawIdle(body) ==
    LET data == Encode(body) IN
    /\ peer = "codec" /\ Len(sent) < MaxSent
    /\ sent' = Append(sent, body)
    /\ \E n \in 0 .. Len(data) :
         /\ IF Direct THEN Takes(n, data) ELSE n = 0
         /\ wire' = wire \o Upto(data, n)
         /\ output_buf' = IF n = Len(data) THEN output_buf
                                           ELSE append(output_buf, From(data, n))
    /\ UNCHANGED <<peer, writing, readVars>>

\* send_raw() and send_in_loop(): write directly if nothing is buffered, and
\* buffer what is left.
SendRaw(body) ==
    LET data == Encode(body) IN
    /\ peer = "codec" /\ Len(sent) < MaxSent
    /\ sent' = Append(sent, body)
    /\ \E n \in 0 .. Len(data) :
         /\ IF Direct THEN Takes(n, data) ELSE n = 0
         /\ wire' = wire \o Upto(data, n)
         /\ IF n = Len(data)
            THEN UNCHANGED <<output_buf, writing>>
            ELSE /\ output_buf' = append(output_buf, From(data, n))
                 /\ writing' = TRUE
    /\ UNCHANGED <<peer, readVars>>

\* handle_write(): disable_writing() once output_buf_ is empty.
StillWriting(b) == readable(b) # 0

HandleWrite ==
    /\ writing
    /\ \E n \in 1 .. readable(output_buf) :
         /\ Takes(n, Content(output_buf))
         /\ wire' = wire \o Upto(Content(output_buf), n)
         /\ output_buf' = retrieve(output_buf, n)
    /\ writing' = StillWriting(output_buf')
    /\ UNCHANGED <<peer, sent, readVars>>

\* A peer that is no Codec writes what it likes.
RawWrite(byte) ==
    /\ peer = "raw" /\ Len(received) + Len(wire) < MaxRaw /\ Room > 0
    /\ wire' = Append(wire, byte)
    /\ UNCHANGED <<peer, sendVars, readVars>>

-----------------------------------------------------------------------------
(***************************************************************************)
(* The receiver.                                                           *)
(***************************************************************************)
\* handle_read(): read_fd(), then msg_cb_, which is Codec::on_message().
HandleRead ==
    /\ at = "poll" /\ ~ closed
    /\ \E n \in 1 .. Len(wire) :
         /\ n <= ReadLimit(input_buf)
         /\ received' = received \o Upto(wire, n)
         /\ input_buf' = read_fd(input_buf, Upto(wire, n))
         /\ wire' = From(wire, n)
    /\ at' = "parse"
    /\ UNCHANGED <<peer, sendVars, frames, closed>>

\* What on_message() sees of the buffer.
magic    == Content(input_buf)[1]
body_len == Content(input_buf)[2]

HasHeader  == readable(input_buf) >= kHeaderSize
BadHeader  == magic # kMagicNumber \/ body_len > kMaxBodySize
Incomplete == readable(input_buf) < kHeaderSize + body_len

\* One round of the while loop, then the next.
OnMessageFrame ==
    /\ at = "parse" /\ HasHeader /\ ~ BadHeader /\ ~ Incomplete
    /\ LET b == retrieve(input_buf, kHeaderSize) IN
         /\ frames' = Append(frames, Upto(Content(b), body_len))
         /\ input_buf' = retrieve(b, body_len)
    /\ UNCHANGED <<peer, sendVars, wire, received, at, closed>>

\* The loop ends, or returns on an incomplete frame.
OnMessageWait ==
    /\ at = "parse"
    /\ HasHeader => ~ BadHeader /\ Incomplete
    /\ at' = "poll"
    /\ UNCHANGED <<peer, sendVars, wire, received, input_buf, frames, closed>>

\* err_cb_ and conn->force_close(): its handle_close() runs before the next
\* poll, so nothing more is read.
OnMessageBad ==
    /\ at = "parse" /\ HasHeader /\ BadHeader
    /\ closed' = TRUE
    /\ at' = "poll"
    /\ UNCHANGED <<peer, sendVars, wire, received, input_buf, frames>>

OnMessage == OnMessageFrame \/ OnMessageWait \/ OnMessageBad

Next ==
    \/ \E body \in Bodies : SendRaw(body)
    \/ \E byte \in Byte : RawWrite(byte)
    \/ HandleWrite \/ HandleRead \/ OnMessage

Spec == Init /\ [][Next]_vars

\* Both loops run, epoll being level-triggered: a socket with room or with
\* data is reported until it is served.  Nobody has to send.
FairSpec == Spec /\ WF_vars(HandleWrite) /\ WF_vars(HandleRead) /\ WF_vars(OnMessage)

-----------------------------------------------------------------------------
(***************************************************************************)
(* Properties.                                                             *)
(***************************************************************************)
\* The variables keep their types; among them, the indices of both buffers
\* stay in order and within buf_, so that no method of Buffer leaves it.
TypeOK ==
    /\ peer \in {"codec", "raw"}
    /\ sent \in Seq(Bodies) /\ frames \in Seq(Seq(Byte))
    /\ BufferOK(output_buf) /\ BufferOK(input_buf)
    /\ wire \in Seq(Byte) /\ Len(wire) <= SocketRoom
    /\ received \in Seq(Byte)
    /\ writing \in BOOLEAN /\ closed \in BOOLEAN /\ at \in {"poll", "parse"}

\* What the wire format of protocol.h says of a byte sequence: the bodies of
\* its complete frames, the bytes left over, and whether these start with a
\* header that must be refused.
Decode[s \in Seq(Byte)] ==
    IF Len(s) < 2 THEN [frames |-> <<>>, rest |-> s, bad |-> FALSE]
    ELSE IF s[1] # kMagicNumber \/ s[2] > kMaxBodySize
         THEN [frames |-> <<>>, rest |-> s, bad |-> TRUE]
    ELSE IF Len(s) < 2 + s[2] THEN [frames |-> <<>>, rest |-> s, bad |-> FALSE]
    ELSE LET d == Decode[From(s, 2 + s[2])] IN
         [d EXCEPT !.frames = <<SubSeq(s, 3, 2 + s[2])>> \o d.frames]

\* "Handles framing to solve TCP packet splitting / sticking": however the
\* stream was cut into reads and wherever the buffer was moved or enlarged,
\* on_message() has passed on exactly the frames of the bytes read, kept the
\* rest, and closed the connection exactly if the rest is no frame.
StreamDecoded ==
    LET all  == Decode[received]
        left == Decode[Content(input_buf)] IN
    /\ frames \o left.frames = all.frames
    /\ left.rest = all.rest
    /\ at = "poll" => left.frames = <<>> /\ closed = left.bad

\* The bytes on their way: read, in the socket, and waiting in output_buf_.
Stream == received \o wire \o Content(output_buf)

\* No byte is lost, doubled or overtaken between the two Codecs, whatever is
\* written at once, buffered or moved: send_raw() adds one frame at the end of
\* the stream of bytes, and no other step of the two loops changes it.
BytesInOrder ==
    [][peer = "codec" =>
         \/ sent' = sent /\ Stream' = Stream
         \/ \E body \in Bodies :
              /\ sent' = Append(sent, body)
              /\ Stream' = Stream \o <<kMagicNumber, Len(body)>> \o body]_vars

\* The loop asks for EPOLLOUT exactly while output is buffered: neither does
\* output wait for an event nobody asked for, nor does the loop spin.
WriteInterest == writing <=> readable(output_buf) > 0

\* The inductive invariant: a direct write() cannot overtake buffered output,
\* because none is buffered while write interest is off, and on_message() is
\* not entered again once it has closed the connection.
CodecInv == TypeOK /\ WriteInterest /\ (closed => at = "poll")

\* send_raw() takes bodies of any length, on_message() only those up to
\* kMaxBodySize.  Every body before the first that is too large reaches the
\* peer's callback, in order and unchanged, however short the writes and reads
\* are; that one makes the peer close the connection, and nothing else does.
SentDelivered ==
    <>[](\/ peer = "raw"
         \/ \E n \in 0 .. Len(sent) :
              /\ \A i \in 1 .. n : Len(sent[i]) <= kMaxBodySize
              /\ n < Len(sent) => Len(sent[n + 1]) > kMaxBodySize
              /\ frames = SubSeq(sent, 1, n)
              /\ closed = (n < Len(sent)))
=============================================================================
