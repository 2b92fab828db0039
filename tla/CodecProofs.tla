---------------------------- MODULE CodecProofs -----------------------------
(***************************************************************************)
(* A Buffer is a byte queue, whatever its sizes; and the path from         *)
(* send_raw() to on_message() keeps every byte in its place and passes on  *)
(* the frames that Decode finds, for all bodies, sizes of buffers and cuts *)
(* of the stream.                                                          *)
(***************************************************************************)
EXTENDS Codec, SequenceTheorems, WellFoundedInduction, TLAPS

-----------------------------------------------------------------------------
(***************************************************************************)
(* The pieces of a buffer as sequences.                                    *)
(***************************************************************************)

\* A function on 1 .. n is a sequence of length n.
LEMMA FcnIsSeq ==
  ASSUME NEW S, NEW n \in Nat, NEW f \in [1 .. n -> S]
  PROVE  f \in Seq(S) /\ Len(f) = n
<1>1. f \in Seq(S)
  BY SeqDef
<1>2. Len(f) \in Nat /\ DOMAIN f = 1 .. Len(f)
  BY <1>1, LenProperties
<1>. QED
  BY <1>1, <1>2

\* peek() .. peek() + readable() lies in buf_.
LEMMA ContentSeq ==
  ASSUME NEW b, BufferOK(b)
  PROVE  /\ Content(b) \in Seq(Byte)
         /\ Len(Content(b)) = readable(b)
         /\ \A i \in 1 .. readable(b) : Content(b)[i] = b.buf[b.read_idx + i]
<1>1. readable(b) \in Nat /\ b.read_idx \in Nat /\ b.buf \in Seq(Byte)
      /\ b.read_idx + readable(b) <= Len(b.buf)
  BY BufferAssumption DEF BufferOK, readable
<1>2. \A i \in 1 .. readable(b) : b.buf[b.read_idx + i] \in Byte
  BY <1>1, ElementOfSeq
<1>3. Content(b) \in [1 .. readable(b) -> Byte]
  BY <1>2 DEF Content
<1>. QED
  BY <1>1, <1>3, FcnIsSeq, Zenon DEF Content

\* memcpy within buf_ changes the bytes from off on and no others.
LEMMA CopyToSeq ==
  ASSUME NEW buf \in Seq(Byte), NEW off \in Nat, NEW data \in Seq(Byte),
         off + Len(data) <= Len(buf)
  PROVE  /\ CopyTo(buf, off, data) \in Seq(Byte)
         /\ Len(CopyTo(buf, off, data)) = Len(buf)
         /\ \A i \in 1 .. off : CopyTo(buf, off, data)[i] = buf[i]
         /\ \A i \in 1 .. Len(data) : CopyTo(buf, off, data)[off + i] = data[i]
<1>1. Len(buf) \in Nat /\ Len(data) \in Nat
  BY LenProperties
<1>2. ASSUME NEW i \in 1 .. Len(buf)
      PROVE  (IF i \in off + 1 .. off + Len(data) THEN data[i - off] ELSE buf[i]) \in Byte
  <2>1. CASE i \in off + 1 .. off + Len(data)
    <3>1. i - off \in 1 .. Len(data)
      BY <1>1, <2>1
    <3>. QED
      BY <2>1, <3>1, ElementOfSeq
  <2>2. CASE i \notin off + 1 .. off + Len(data)
    BY <2>2, ElementOfSeq
  <2>. QED
    BY <2>1, <2>2
<1>3. CopyTo(buf, off, data) \in [1 .. Len(buf) -> Byte]
  BY <1>2 DEF CopyTo
<1>4. \A i \in 1 .. off : i \in 1 .. Len(buf) /\ i \notin off + 1 .. off + Len(data)
  BY <1>1
<1>5. \A i \in 1 .. Len(data) : /\ off + i \in 1 .. Len(buf)
                                /\ off + i \in off + 1 .. off + Len(data)
                                /\ (off + i) - off = i
  BY <1>1
<1>6. \A i \in 1 .. off : CopyTo(buf, off, data)[i] = buf[i]
  BY <1>4 DEF CopyTo
<1>7. \A i \in 1 .. Len(data) : CopyTo(buf, off, data)[off + i] = data[i]
  BY <1>5 DEF CopyTo
<1>. QED
  BY <1>1, <1>3, <1>6, <1>7, FcnIsSeq

\* resize() to a larger size keeps the bytes there are.
LEMMA ResizeSeq ==
  ASSUME NEW buf \in Seq(Byte), NEW n \in Nat
  PROVE  /\ Resize(buf, n) \in Seq(Byte)
         /\ Len(Resize(buf, n)) = n
         /\ \A i \in 1 .. n : i <= Len(buf) => Resize(buf, n)[i] = buf[i]
<1>1. \A i \in 1 .. n : i <= Len(buf) => buf[i] \in Byte
  BY ElementOfSeq, LenProperties
<1>2. Resize(buf, n) \in [1 .. n -> Byte]
  BY <1>1, BufferAssumption DEF Resize
<1>. QED
  BY <1>2, FcnIsSeq DEF Resize
-----------------------------------------------------------------------------
(***************************************************************************)
(* The methods.                                                            *)
(***************************************************************************)

\* The sizes of a well-formed buffer.
LEMMA Sizes ==
  ASSUME NEW b, BufferOK(b)
  PROVE  /\ b.buf \in Seq(Byte) /\ Len(b.buf) \in Nat
         /\ b.read_idx \in Nat /\ b.write_idx \in Nat /\ kPrependSize \in Nat
         /\ kPrependSize <= b.read_idx /\ b.read_idx <= b.write_idx
         /\ b.write_idx <= Len(b.buf)
         /\ b = [buf |-> b.buf, read_idx |-> b.read_idx, write_idx |-> b.write_idx]
         /\ readable(b) \in Nat /\ writable(b) \in Nat
BY LenProperties, BufferAssumption DEF BufferOK, readable, writable

\* Two buffers with the same readable bytes have the same content.
LEMMA SameContent ==
  ASSUME NEW b, BufferOK(b), NEW s \in Seq(Byte), readable(b) = Len(s),
         \A i \in 1 .. Len(s) : b.buf[b.read_idx + i] = s[i]
  PROVE  Content(b) = s
<1>1. /\ Content(b) \in Seq(Byte) /\ Len(Content(b)) = Len(s)
      /\ \A i \in 1 .. Len(s) : Content(b)[i] = s[i]
  BY ContentSeq
<1>. QED
  BY <1>1, SeqEqual

\* A new buffer is an empty queue.
LEMMA NewBufferEmpty ==
  BufferOK(NewBuffer) /\ readable(NewBuffer) = 0 /\ Content(NewBuffer) = <<>>
<1>1. kPrependSize + kInitialSize \in Nat
  BY BufferAssumption
<1>2. [i \in 1 .. kPrependSize + kInitialSize |-> 0]
        \in [1 .. kPrependSize + kInitialSize -> Byte]
  BY BufferAssumption
<1>3. BufferOK(NewBuffer)
  BY <1>1, <1>2, FcnIsSeq, BufferAssumption DEF BufferOK, NewBuffer
<1>4. readable(NewBuffer) = 0
  BY BufferAssumption DEF readable, NewBuffer
<1>. QED
  BY <1>3, <1>4, ContentSeq, EmptySeq

\* memcpy to begin_write() and has_written(), when there is room.
LEMMA WrittenEnqueues ==
  ASSUME NEW b, BufferOK(b), NEW data \in Seq(Byte), Len(data) <= writable(b)
  PROVE  /\ BufferOK(Written(b, data))
         /\ Content(Written(b, data)) = Content(b) \o data
         /\ readable(Written(b, data)) = readable(b) + Len(data)
         /\ writable(Written(b, data)) = writable(b) - Len(data)
<1>. DEFINE w == Written(b, data)
            to == CopyTo(b.buf, b.write_idx, data)
<1>0. /\ b.write_idx + Len(data) <= Len(b.buf) /\ Len(data) \in Nat
      /\ b.buf \in Seq(Byte) /\ b.write_idx \in Nat
  BY Sizes, LenProperties DEF writable
<1>1. /\ to \in Seq(Byte) /\ Len(to) = Len(b.buf)
      /\ \A i \in 1 .. b.write_idx : to[i] = b.buf[i]
      /\ \A i \in 1 .. Len(data) : to[b.write_idx + i] = data[i]
  BY <1>0, CopyToSeq, Zenon
<1>2. w = [buf |-> to, read_idx |-> b.read_idx, write_idx |-> b.write_idx + Len(data)]
  <2>. HIDE DEF to
  <2>1. w = [b EXCEPT !.buf = to, !.write_idx = b.write_idx + Len(data)]
    BY DEF Written, to
  <2>. QED
    BY <2>1, Zenon DEF BufferOK
<1>. HIDE DEF w, to
<1>3. BufferOK(w)
  BY <1>0, <1>1, <1>2, Sizes DEF BufferOK
<1>4. readable(w) = readable(b) + Len(data) /\ writable(w) = writable(b) - Len(data)
  BY <1>0, <1>1, <1>2, Sizes DEF readable, writable
<1>5. /\ Content(b) \o data \in Seq(Byte)
      /\ Len(Content(b) \o data) = readable(b) + Len(data)
      /\ \A i \in 1 .. readable(b) + Len(data) : (Content(b) \o data)[i] =
           IF i <= readable(b) THEN Content(b)[i] ELSE data[i - readable(b)]
  BY ContentSeq, ConcatProperties
<1>6. ASSUME NEW i \in 1 .. readable(b) + Len(data)
      PROVE  to[b.read_idx + i] = (Content(b) \o data)[i]
  <2>1. CASE i <= readable(b)
    <3>1. i \in 1 .. readable(b) /\ b.read_idx + i \in 1 .. b.write_idx
      BY <2>1, Sizes DEF readable
    <3>. QED
      BY <1>1, <1>5, <2>1, <3>1, ContentSeq
  <2>2. CASE ~ (i <= readable(b))
    <3>1. /\ i - readable(b) \in 1 .. Len(data)
          /\ b.read_idx + i = b.write_idx + (i - readable(b))
      BY <1>0, <2>2, Sizes, SMTT(40) DEF readable
    <3>. QED
      BY <1>1, <1>5, <2>2, <3>1
  <2>. QED
    BY <2>1, <2>2, Zenon
<1>7. Content(w) = Content(b) \o data
  BY <1>2, <1>3, <1>4, <1>5, <1>6, SameContent, Zenon
<1>. QED
  BY <1>3, <1>4, <1>7 DEF w
\* grow() makes room, by moving the readable bytes or by resizing buf_, and
\* keeps them.
LEMMA GrowKeeps ==
  ASSUME NEW b, BufferOK(b), NEW len \in Nat
  PROVE  /\ BufferOK(grow(b, len))
         /\ Content(grow(b, len)) = Content(b)
         /\ readable(grow(b, len)) = readable(b)
         /\ writable(grow(b, len)) >= len
<1>. DEFINE g == grow(b, len)
<1>0. /\ Content(b) \in Seq(Byte) /\ Len(Content(b)) = readable(b)
      /\ \A i \in 1 .. readable(b) : Content(b)[i] = b.buf[b.read_idx + i]
  BY ContentSeq
<1>1. CASE writable(b) + prependable(b) >= len + kPrependSize
  <2>. DEFINE to == CopyTo(b.buf, kPrependSize, Content(b))
  <2>1. g = [buf |-> to, read_idx |-> kPrependSize,
             write_idx |-> kPrependSize + readable(b)]
    BY <1>1 DEF grow
  <2>2. kPrependSize + Len(Content(b)) <= Len(b.buf)
    BY <1>0, Sizes DEF readable
  <2>3. /\ to \in Seq(Byte) /\ Len(to) = Len(b.buf)
        /\ \A i \in 1 .. readable(b) : to[kPrependSize + i] = Content(b)[i]
    BY <1>0, <2>2, Sizes, CopyToSeq
  <2>. HIDE DEF to, g
  <2>4. BufferOK(g) /\ readable(g) = readable(b)
    BY <1>0, <2>1, <2>2, <2>3, Sizes, SMTT(40) DEF BufferOK, readable
  <2>5. writable(g) >= len
    BY <1>1, <2>1, <2>3, Sizes, SMTT(40) DEF readable, writable, prependable
  <2>6. Content(g) = Content(b)
    BY <1>0, <2>1, <2>3, <2>4, SameContent
  <2>. QED
    BY <2>4, <2>5, <2>6 DEF g
<1>2. CASE ~ (writable(b) + prependable(b) >= len + kPrependSize)
  <2>. DEFINE to == Resize(b.buf, b.write_idx + len)
  <2>1. g = [buf |-> to, read_idx |-> b.read_idx, write_idx |-> b.write_idx]
    <3>. HIDE DEF to
    <3>1. g = [b EXCEPT !.buf = to]
      BY <1>2 DEF grow, to
    <3>. QED
      BY <3>1 DEF BufferOK
  <2>2. /\ to \in Seq(Byte) /\ Len(to) = b.write_idx + len
        /\ \A i \in 1 .. b.write_idx + len : i <= Len(b.buf) => to[i] = b.buf[i]
    <3>1. b.buf \in Seq(Byte) /\ b.write_idx + len \in Nat
      BY Sizes
    <3>. QED
      BY <3>1, ResizeSeq, Zenon
  <2>. HIDE DEF to, g
  <2>3. BufferOK(g) /\ readable(g) = readable(b) /\ writable(g) >= len
    BY <2>1, <2>2, Sizes DEF BufferOK, readable, writable
  <2>4. \A i \in 1 .. readable(b) : to[b.read_idx + i] = Content(b)[i]
    <3>1. \A i \in 1 .. readable(b) : /\ b.read_idx + i \in 1 .. b.write_idx + len
                                      /\ b.read_idx + i <= Len(b.buf)
      BY Sizes DEF readable
    <3>. QED
      BY <1>0, <2>2, <3>1, Zenon
  <2>5. Content(g) = Content(b)
    BY <1>0, <2>1, <2>3, <2>4, SameContent
  <2>. QED
    BY <2>3, <2>5 DEF g
<1>. QED
  BY <1>1, <1>2

\* append() adds its bytes at the end of the queue, wherever it puts them.
THEOREM AppendEnqueues ==
  ASSUME NEW b, BufferOK(b), NEW data \in Seq(Byte)
  PROVE  /\ BufferOK(append(b, data))
         /\ Content(append(b, data)) = Content(b) \o data
         /\ readable(append(b, data)) = readable(b) + Len(data)
<1>. DEFINE e == ensure_writable(b, Len(data))
<1>0. Len(data) \in Nat
  BY LenProperties
<1>1. /\ BufferOK(e) /\ Content(e) = Content(b) /\ readable(e) = readable(b)
      /\ Len(data) <= writable(e)
  <2>1. CASE writable(b) < Len(data)
    <3>1. e = grow(b, Len(data))
      BY <2>1 DEF ensure_writable
    <3>2. BufferOK(e) /\ writable(e) >= Len(data)
          /\ Content(e) = Content(b) /\ readable(e) = readable(b)
      BY <1>0, <3>1, GrowKeeps
    <3>. HIDE DEF e
    <3>. QED
      BY <1>0, <3>2, Sizes
  <2>2. CASE ~ (writable(b) < Len(data))
    BY <1>0, <2>2, Sizes DEF ensure_writable
  <2>. QED
    BY <2>1, <2>2
<1>. HIDE DEF e
<1>. QED
  BY <1>1, WrittenEnqueues, Zenon DEF append, e

\* retrieve() takes bytes from the front of the queue.  The assertion of the
\* code is the assumption on len.
THEOREM RetrieveDequeues ==
  ASSUME NEW b, BufferOK(b), NEW len \in 0 .. readable(b)
  PROVE  /\ BufferOK(retrieve(b, len))
         /\ Content(b) = SubSeq(Content(b), 1, len) \o Content(retrieve(b, len))
         /\ readable(retrieve(b, len)) = readable(b) - len
<1>. DEFINE r == retrieve(b, len)
            c == Content(b)
            s == SubSeq(c, len + 1, Len(c))
<1>0. /\ c \in Seq(Byte) /\ Len(c) = readable(b) /\ Len(c) \in Nat /\ len \in Nat
      /\ \A i \in 1 .. readable(b) : c[i] = b.buf[b.read_idx + i]
  BY ContentSeq, Sizes
<1>. HIDE DEF c
<1>1. \A i \in len + 1 .. Len(c) : c[i] \in Byte
  BY <1>0, ElementOfSeq
<1>2. /\ s \in Seq(Byte) /\ Len(s) = readable(b) - len
      /\ \A i \in 1 .. readable(b) - len : s[i] = c[len + i]
  <2>1. /\ s \in Seq(Byte)
        /\ Len(s) = IF len + 1 <= Len(c) THEN Len(c) - (len + 1) + 1 ELSE 0
        /\ \A i \in 1 .. Len(c) - (len + 1) + 1 : s[i] = c[(len + 1) + i - 1]
    BY <1>0, <1>1, SubSeqProperties
  <2>2. \A i \in 1 .. readable(b) - len : /\ i \in 1 .. Len(c) - (len + 1) + 1
                                          /\ (len + 1) + i - 1 = len + i
    BY <1>0
  <2>. HIDE DEF s
  <2>. QED
    BY <1>0, <2>1, <2>2
<1>3. BufferOK(r) /\ readable(r) = readable(b) - len
      /\ \A i \in 1 .. readable(b) - len : r.buf[r.read_idx + i] = c[len + i]
  <2>1. CASE b.read_idx + len = b.write_idx
    <3>1. r = [buf |-> b.buf, read_idx |-> kPrependSize, write_idx |-> kPrependSize]
      BY <2>1, Zenon DEF retrieve, reset, BufferOK
    <3>2. readable(b) - len = 0
      BY <1>0, <2>1, Sizes DEF readable
    <3>. HIDE DEF r
    <3>. QED
      BY <3>1, <3>2, Sizes DEF BufferOK, readable
  <2>2. CASE b.read_idx + len # b.write_idx
    <3>1. r = [buf |-> b.buf, read_idx |-> b.read_idx + len, write_idx |-> b.write_idx]
      BY <2>2 DEF retrieve, BufferOK
    <3>. HIDE DEF r
    <3>2. BufferOK(r) /\ readable(r) = readable(b) - len
      <4>1. b.read_idx + len \in Nat /\ kPrependSize <= b.read_idx + len
            /\ b.read_idx + len <= b.write_idx
        BY <1>0, Sizes DEF readable
      <4>2. BufferOK(r)
        BY <3>1, <4>1, Sizes DEF BufferOK
      <4>3. readable(r) = readable(b) - len
        BY <1>0, <3>1, Sizes DEF readable
      <4>. QED
        BY <4>2, <4>3
    <3>3. \A i \in 1 .. readable(b) - len : /\ len + i \in 1 .. readable(b)
                                            /\ b.read_idx + (len + i) = (b.read_idx + len) + i
      BY <1>0, Sizes
    <3>. QED
      BY <1>0, <3>1, <3>2, <3>3
  <2>. QED
    BY <2>1, <2>2
<1>. HIDE DEF r, s
<1>4. Content(r) = s
  BY <1>2, <1>3, SameContent
<1>5. SubSeq(c, 1, len) \o s = c
  <2>1. 1 \in 1 .. Len(c) + 1 /\ len \in 1 - 1 .. Len(c) /\ Len(c) \in len .. Len(c)
    BY <1>0
  <2>2. SubSeq(c, 1, len) \o SubSeq(c, len + 1, Len(c)) = SubSeq(c, 1, Len(c))
    BY <1>0, <2>1, ConcatAdjacentSubSeq, Zenon
  <2>. QED
    BY <1>0, <2>2, SubSeqFull, Zenon DEF s
<1>. QED
  BY <1>3, <1>4, <1>5 DEF r, c

\* read_fd() adds what readv() returned at the end of the queue, both when it
\* fits behind the readable bytes and when part of it came to the stack.
THEOREM ReadFdEnqueues ==
  ASSUME NEW b, BufferOK(b), NEW data \in Seq(Byte)
  PROVE  /\ BufferOK(read_fd(b, data))
         /\ Content(read_fd(b, data)) = Content(b) \o data
<1>. DEFINE n == writable(b)
<1>0. n \in Nat /\ Len(data) \in Nat
  BY Sizes, LenProperties
<1>. HIDE DEF n
<1>1. CASE Len(data) <= n
  BY <1>1, WrittenEnqueues DEF read_fd, n
<1>2. CASE ~ (Len(data) <= n)
  <2>. DEFINE d1 == SubSeq(data, 1, n)
              d2 == SubSeq(data, n + 1, Len(data))
              w  == Written(b, d1)
  <2>1. 1 \in 1 .. Len(data) + 1 /\ n \in 1 - 1 .. Len(data) /\ Len(data) \in n .. Len(data)
    BY <1>0, <1>2
  <2>2. d1 \o d2 = data
    BY <2>1, ConcatAdjacentSubSeq, SubSeqFull, Zenon
  <2>3. /\ \A i \in 1 .. n : data[i] \in Byte
        /\ \A i \in n + 1 .. Len(data) : data[i] \in Byte
    BY <1>0, <1>2, ElementOfSeq
  <2>4. d1 \in Seq(Byte) /\ Len(d1) = IF 1 <= n THEN n - 1 + 1 ELSE 0
    BY <1>0, <2>3, SubSeqProperties
  <2>5. d2 \in Seq(Byte)
    BY <1>0, <2>3, SubSeqProperties
  <2>6. read_fd(b, data) = append(w, d2)
    BY <1>2 DEF read_fd, n
  <2>. HIDE DEF d1, d2
  <2>7. BufferOK(w) /\ Content(w) = Content(b) \o d1
    <3>1. Len(d1) <= writable(b)
      BY <1>0, <2>4 DEF n
    <3>. QED
      BY <2>4, <3>1, WrittenEnqueues
  <2>. HIDE DEF w
  <2>8. BufferOK(append(w, d2)) /\ Content(append(w, d2)) = Content(w) \o d2
    BY <2>5, <2>7, AppendEnqueues, Zenon
  <2>9. (Content(b) \o d1) \o d2 = Content(b) \o data
    <3>1. Content(b) \in Seq(Byte)
      BY ContentSeq
    <3>2. (Content(b) \o d1) \o d2 = Content(b) \o (d1 \o d2)
      BY <2>4, <2>5, <3>1, ConcatAssociative, SMTT(40)
    <3>. QED
      BY <2>2, <3>2
  <2>. QED
    BY <2>6, <2>7, <2>8, <2>9
<1>. QED
  BY <1>1, <1>2
-----------------------------------------------------------------------------
(***************************************************************************)
(* The codec.                                                              *)
(***************************************************************************)

\* A body that is sent is a sequence of bytes, and its length fits the field.
LEMMA BodySeq ==
  ASSUME NEW body \in Bodies
  PROVE  body \in Seq(Byte) /\ Len(body) \in Byte /\ Len(body) \in Nat
<1>1. PICK n \in 0 .. MaxBody : body \in [1 .. n -> BodyByte]
  BY DEF Bodies
<1>2. n \in Nat /\ n \in Byte /\ body \in [1 .. n -> Byte]
  BY <1>1, CodecAssumption, Zenon
<1>. QED
  BY <1>2, FcnIsSeq

\* Two bytes in a row.
LEMMA Pair ==
  ASSUME NEW x \in Byte, NEW y \in Byte
  PROVE  <<x>> \o <<y>> = <<x, y>>
<1>1. <<x>> \in Seq(Byte) /\ <<y>> \in Seq(Byte) /\ <<x, y>> \in Seq(Byte)
  OBVIOUS
<1>2. Len(<<x>>) = 1 /\ Len(<<y>>) = 1 /\ Len(<<x, y>>) = 2
  OBVIOUS
<1>3. /\ <<x>> \o <<y>> \in Seq(Byte) /\ Len(<<x>> \o <<y>>) = 2
      /\ (<<x>> \o <<y>>)[1] = <<x>>[1] /\ (<<x>> \o <<y>>)[2] = <<y>>[1]
  BY <1>1, <1>2, ConcatProperties
<1>4. \A i \in 1 .. 2 : (<<x>> \o <<y>>)[i] = <<x, y>>[i]
  <2>1. \A i \in 1 .. 2 : i = 1 \/ i = 2
    OBVIOUS
  <2>. QED
    BY <1>3, <2>1
<1>. QED
  BY <1>1, <1>2, <1>3, <1>4, SeqEqual, Zenon

\* The three append() calls of send_raw() build magic, length and body.
LEMMA EncodeIsFrame ==
  ASSUME NEW body \in Bodies
  PROVE  /\ Encode(body) = <<kMagicNumber, Len(body)>> \o body
         /\ Encode(body) \in Seq(Byte) /\ Len(Encode(body)) \in Nat \ {0}
<1>. DEFINE b1 == append(NewBuffer, <<kMagicNumber>>)
            b2 == append(b1, <<Len(body)>>)
            b3 == append(b2, body)
            h  == <<kMagicNumber, Len(body)>>
<1>0. /\ <<kMagicNumber>> \in Seq(Byte) /\ <<Len(body)>> \in Seq(Byte)
      /\ h \in Seq(Byte) /\ Len(h) = 2 /\ body \in Seq(Byte) /\ Len(body) \in Nat
  BY BodySeq, CodecAssumption
<1>1. BufferOK(b1) /\ Content(b1) = <<>> \o <<kMagicNumber>>
  BY <1>0, NewBufferEmpty, AppendEnqueues, Zenon
<1>. HIDE DEF b1
<1>2. BufferOK(b2) /\ Content(b2) = Content(b1) \o <<Len(body)>>
  BY <1>0, <1>1, AppendEnqueues, Zenon
<1>. HIDE DEF b2
<1>3. Content(b3) = Content(b2) \o body
  BY <1>0, <1>2, AppendEnqueues, Zenon
<1>4. Content(b2) = h
  <2>1. <<>> \o <<kMagicNumber>> = <<kMagicNumber>>
    BY <1>0, ConcatEmptySeq
  <2>2. <<kMagicNumber>> \o <<Len(body)>> = h
    BY BodySeq, CodecAssumption, Pair
  <2>. QED
    BY <1>1, <1>2, <2>1, <2>2
<1>5. Encode(body) = h \o body
  BY <1>3, <1>4, Zenon DEF Encode, b1, b2
<1>6. h \o body \in Seq(Byte) /\ Len(h \o body) = 2 + Len(body)
  BY <1>0, ConcatProperties
<1>. HIDE DEF h
<1>7. Len(h \o body) \in Nat \ {0}
  BY <1>0, <1>6
<1>. QED
  BY <1>5, <1>6, <1>7 DEF h

\* A sequence cut in two.
LEMMA Cut ==
  ASSUME NEW s \in Seq(Byte), NEW n \in 0 .. Len(s)
  PROVE  /\ Upto(s, n) \in Seq(Byte) /\ Len(Upto(s, n)) = n
         /\ From(s, n) \in Seq(Byte) /\ Len(From(s, n)) = Len(s) - n
         /\ Upto(s, n) \o From(s, n) = s
<1>0. Len(s) \in Nat /\ n \in Nat /\ n <= Len(s)
  BY LenProperties
<1>1. /\ \A i \in 1 .. n : s[i] \in Byte
      /\ \A i \in n + 1 .. Len(s) : s[i] \in Byte
  BY <1>0, ElementOfSeq
<1>2. /\ Upto(s, n) \in Seq(Byte)
      /\ Len(Upto(s, n)) = IF 1 <= n THEN n - 1 + 1 ELSE 0
  BY <1>0, <1>1, SubSeqProperties DEF Upto
<1>3. /\ From(s, n) \in Seq(Byte)
      /\ Len(From(s, n)) = IF n + 1 <= Len(s) THEN Len(s) - (n + 1) + 1 ELSE 0
  BY <1>0, <1>1, SubSeqProperties DEF From
<1>4. 1 \in 1 .. Len(s) + 1 /\ n \in 1 - 1 .. Len(s) /\ Len(s) \in n .. Len(s)
  BY <1>0
<1>5. Upto(s, n) \o From(s, n) = s
  BY <1>4, ConcatAdjacentSubSeq, SubSeqFull, Zenon DEF Upto, From
<1>. QED
  BY <1>0, <1>2, <1>3, <1>5

\* Concatenation, as an operator that need not be expanded.
Join(a, b) == a \o b

\* Concatenation is associative.
LEMMA Shift ==
  ASSUME NEW s \in Seq(Byte), NEW t \in Seq(Byte), NEW u \in Seq(Byte)
  PROVE  (s \o t) \o u = s \o (t \o u)
BY ConcatAssociative, SMTT(40), Z3T(40)

\* Bytes that are all buffered go to the end of the stream.
LEMMA AllBuffered ==
  ASSUME NEW r \in Seq(Byte), NEW w \in Seq(Byte), NEW o \in Seq(Byte), NEW g \in Seq(Byte)
  PROVE  Join(Join(r, w), Join(o, g)) = Join(Join(Join(r, w), o), g)
<1>1. PICK rw \in Seq(Byte) : rw = r \o w
  BY ConcatProperties, Zenon
<1>2. (rw \o o) \o g = rw \o (o \o g)
  BY Shift, Zenon
<1>. QED
  BY <1>1, <1>2, Zenon DEF Join

\* So do bytes that are split between socket and buffer when that is empty.
LEMMA PartlyWritten ==
  ASSUME NEW r \in Seq(Byte), NEW w \in Seq(Byte), NEW f \in Seq(Byte), NEW g \in Seq(Byte)
  PROVE  Join(Join(r, Join(w, f)), g) = Join(Join(r, w), Join(f, g))
<1>1. PICK rw \in Seq(Byte) : rw = r \o w
  BY ConcatProperties, Zenon
<1>2. (r \o w) \o f = r \o (w \o f)
  BY Shift, ZenonT(40)
<1>3. (rw \o f) \o g = rw \o (f \o g)
  BY Shift, Zenon
<1>. QED
  BY <1>1, <1>2, <1>3, Zenon DEF Join

\* Initially nothing is buffered.
LEMMA CodecInit == Init => CodecInv
<1>. SUFFICES ASSUME Init PROVE CodecInv
  OBVIOUS
<1>1. BufferOK(output_buf) /\ BufferOK(input_buf) /\ readable(output_buf) = 0
  BY NewBufferEmpty DEF Init
<1>2. <<>> \in Seq(Bodies) /\ <<>> \in Seq(Seq(Byte)) /\ <<>> \in Seq(Byte) /\ Len(<<>>) = 0
  BY EmptySeq
<1>3. TypeOK
  <2>1. Len(wire) <= SocketRoom
    BY <1>2, CodecAssumption DEF Init
  <2>. QED
    BY <1>1, <1>2, <2>1, Zenon DEF Init, TypeOK
<1>4. WriteInterest
  BY <1>1 DEF Init, WriteInterest
<1>. QED
  BY <1>3, <1>4 DEF CodecInv, Init

\* The parts of the stream are byte sequences, and no output is buffered
\* unless EPOLLOUT is asked for.
LEMMA Parts ==
  ASSUME CodecInv
  PROVE  /\ received \in Seq(Byte) /\ wire \in Seq(Byte)
         /\ Content(output_buf) \in Seq(Byte)
         /\ Len(wire) \in Nat /\ Len(wire) <= SocketRoom
         /\ BufferOK(output_buf) /\ BufferOK(input_buf)
         /\ Len(Content(output_buf)) = readable(output_buf)
         /\ readable(output_buf) \in Nat /\ readable(input_buf) \in Nat
         /\ ~ writing => Content(output_buf) = <<>>
<1>1. BufferOK(output_buf) /\ BufferOK(input_buf)
  BY DEF CodecInv, TypeOK
<1>2. /\ Content(output_buf) \in Seq(Byte) /\ readable(output_buf) \in Nat
      /\ readable(input_buf) \in Nat
      /\ Len(Content(output_buf)) = readable(output_buf)
  BY <1>1, ContentSeq, Sizes
<1>3. ~ writing => readable(output_buf) = 0
  BY <1>2 DEF CodecInv, WriteInterest
<1>4. wire \in Seq(Byte) /\ received \in Seq(Byte) /\ Len(wire) <= SocketRoom
  BY DEF CodecInv, TypeOK
<1>5. Len(wire) \in Nat
  BY <1>4, LenProperties
<1>. QED
  BY <1>1, <1>2, <1>3, <1>4, <1>5, EmptySeq

\* send_raw() adds one frame at the end of the stream, part of it in the socket
\* and part of it behind what output_buf_ holds.
LEMMA SendRawStep ==
  ASSUME CodecInv, NEW body \in Bodies, SendRaw(body)
  PROVE  /\ CodecInv'
         /\ sent' = Append(sent, body)
         /\ Stream' = Stream \o <<kMagicNumber, Len(body)>> \o body
<1>. DEFINE data == Encode(body)
            out  == Content(output_buf)
            h    == <<kMagicNumber, Len(body)>>
<1>0. data = h \o body /\ data \in Seq(Byte) /\ Len(data) \in Nat \ {0}
  BY EncodeIsFrame
<1>1. PICK n \in 0 .. Len(data) :
        /\ IF Direct THEN Takes(n, data) ELSE n = 0
        /\ wire' = wire \o Upto(data, n)
        /\ IF n = Len(data)
           THEN UNCHANGED <<output_buf, writing>>
           ELSE /\ output_buf' = append(output_buf, From(data, n))
                /\ writing' = TRUE
  BY Zenon DEF SendRaw
<1>2. sent' = Append(sent, body) /\ UNCHANGED <<peer, received, input_buf, at, frames, closed>>
  BY DEF SendRaw, readVars
<1>. HIDE DEF data, h
<1>3. /\ Upto(data, n) \in Seq(Byte) /\ Len(Upto(data, n)) = n
      /\ From(data, n) \in Seq(Byte) /\ Len(From(data, n)) = Len(data) - n
      /\ Upto(data, n) \o From(data, n) = data
  BY <1>0, Cut, Zenon
<1>4. wire' \in Seq(Byte) /\ Len(wire') = Len(wire) + n
  <2>1. wire \in Seq(Byte)
    BY Parts
  <2>2. /\ wire \o Upto(data, n) \in Seq(Byte)
        /\ Len(wire \o Upto(data, n)) = Len(wire) + Len(Upto(data, n))
    BY <1>3, <2>1, ConcatProperties, Zenon
  <2>. QED
    BY <1>1, <1>3, <2>2, Zenon
<1>5. Len(wire') <= SocketRoom
  <2>1. n \in Nat /\ Len(wire) \in Nat /\ SocketRoom \in Nat /\ Len(wire) <= SocketRoom
    BY <1>0, Parts, CodecAssumption
  <2>2. n = 0 \/ n <= SocketRoom - Len(wire)
    BY <1>1 DEF Takes, Room
  <2>. QED
    BY <1>4, <2>1, <2>2
<1>6. n # 0 => out = <<>>
  <2>1. n # 0 => ~ writing
    BY <1>1 DEF Direct
  <2>. QED
    BY <2>1, Parts
<1>7. /\ BufferOK(output_buf') /\ Content(output_buf') = out \o From(data, n)
      /\ writing' \in BOOLEAN /\ (writing' <=> readable(output_buf') > 0)
  <2>1. CASE n = Len(data)
    <3>1. output_buf' = output_buf /\ writing' = writing
      BY <1>1, <2>1
    <3>2. From(data, n) = <<>>
      BY <1>0, <1>3, <2>1, EmptySeq
    <3>3. out \o <<>> = out
      BY Parts, ConcatEmptySeq
    <3>4. writing \in BOOLEAN /\ (writing <=> readable(output_buf) > 0)
      BY DEF CodecInv, TypeOK, WriteInterest
    <3>. QED
      BY <3>1, <3>2, <3>3, <3>4, Parts
  <2>2. CASE n # Len(data)
    <3>1. output_buf' = append(output_buf, From(data, n)) /\ writing' = TRUE
      BY <1>1, <2>2
    <3>2. /\ BufferOK(output_buf') /\ Content(output_buf') = out \o From(data, n)
          /\ readable(output_buf') = readable(output_buf) + Len(From(data, n))
      BY <1>3, <3>1, Parts, AppendEnqueues, Zenon
    <3>3. readable(output_buf') > 0
      BY <1>0, <1>1, <1>3, <2>2, <3>2, Parts, SMTT(40)
    <3>. QED
      BY <3>1, <3>2, <3>3
  <2>. QED
    BY <2>1, <2>2
<1>8. CodecInv'
  <2>1. sent' \in Seq(Bodies)
    BY <1>2 DEF CodecInv, TypeOK
  <2>. QED
    BY <1>2, <1>4, <1>5, <1>7, <2>1 DEF CodecInv, TypeOK, WriteInterest, BufferOK, readable
<1>9. Stream' = Stream \o data
  <2>1. Stream' = (received \o (wire \o Upto(data, n))) \o (out \o From(data, n))
    BY <1>1, <1>2, <1>7, Zenon DEF Stream
  <2>2. received \in Seq(Byte) /\ wire \in Seq(Byte) /\ out \in Seq(Byte)
    BY Parts
  <2>. HIDE DEF out
  <2>3. CASE n = 0
    <3>1. Upto(data, n) = <<>>
      BY <1>3, <2>3, EmptySeq
    <3>2. wire \o <<>> = wire /\ <<>> \o From(data, n) = From(data, n)
      BY <1>3, <2>2, ConcatEmptySeq
    <3>3. Join(Join(received, wire), Join(out, data))
            = Join(Join(Join(received, wire), out), data)
      <4>1. data \in Seq(Byte)
        BY <1>0
      <4>. QED
        BY <2>2, <4>1, AllBuffered
    <3>. QED
      BY <1>3, <2>1, <3>1, <3>2, <3>3, Zenon DEF Join, Stream, out
  <2>4. CASE n # 0
    <3>1. out = <<>>
      BY <1>6, <2>4
    <3>2. (received \o wire) \o <<>> = received \o wire
          /\ <<>> \o From(data, n) = From(data, n)
      BY <1>3, <2>2, ConcatProperties, ConcatEmptySeq
    <3>3. Join(Join(received, Join(wire, Upto(data, n))), From(data, n))
            = Join(Join(received, wire), Join(Upto(data, n), From(data, n)))
      <4>1. Upto(data, n) \in Seq(Byte) /\ From(data, n) \in Seq(Byte)
        BY <1>3
      <4>. QED
        BY <2>2, <4>1, PartlyWritten
    <3>. QED
      BY <1>3, <2>1, <3>1, <3>2, <3>3, Zenon DEF Join, Stream, out
  <2>. QED
    BY <2>3, <2>4
<1>10. Stream \o data = (Stream \o h) \o body
  <2>1. h \in Seq(Byte) /\ body \in Seq(Byte)
    BY BodySeq, CodecAssumption DEF h
  <2>2. Stream \in Seq(Byte)
    BY Parts, ConcatProperties DEF Stream
  <2>. QED
    BY <1>0, <2>1, <2>2, Shift, Zenon
<1>. QED
  BY <1>2, <1>8, <1>9, <1>10 DEF h
\* handle_write() moves bytes from the front of output_buf_ to the socket.
LEMMA HandleWriteStep ==
  ASSUME CodecInv, HandleWrite
  PROVE  CodecInv' /\ sent' = sent /\ Stream' = Stream
<1>. DEFINE out == Content(output_buf)
<1>1. PICK n \in 1 .. readable(output_buf) :
        /\ Takes(n, out)
        /\ wire' = wire \o Upto(out, n)
        /\ output_buf' = retrieve(output_buf, n)
  BY DEF HandleWrite
<1>2. /\ writing' = StillWriting(output_buf')
      /\ UNCHANGED <<peer, sent, received, input_buf, at, frames, closed>>
  BY DEF HandleWrite, readVars
<1>3. n \in Nat /\ n \in 0 .. readable(output_buf) /\ n \in 0 .. Len(out)
  BY <1>1, Parts
<1>4. /\ BufferOK(output_buf')
      /\ out = Upto(out, n) \o Content(output_buf')
      /\ readable(output_buf') = readable(output_buf) - n
  BY <1>1, <1>3, Parts, RetrieveDequeues, Zenon DEF Upto
<1>5. Upto(out, n) \in Seq(Byte) /\ Len(Upto(out, n)) = n
  BY <1>3, Parts, Cut
<1>. HIDE DEF out
<1>6. wire' \in Seq(Byte) /\ Len(wire') = Len(wire) + n
  <2>1. wire \in Seq(Byte)
    BY Parts
  <2>2. /\ wire \o Upto(out, n) \in Seq(Byte)
        /\ Len(wire \o Upto(out, n)) = Len(wire) + Len(Upto(out, n))
    BY <1>5, <2>1, ConcatProperties, Zenon
  <2>. QED
    BY <1>1, <1>5, <2>2, Zenon
<1>7. Len(wire') <= SocketRoom
  BY <1>1, <1>3, <1>6, Parts, CodecAssumption DEF Takes, Room
<1>8. CodecInv'
  <2>1. readable(output_buf') \in Nat
    BY <1>4, Sizes
  <2>2. writing' \in BOOLEAN /\ (writing' <=> readable(output_buf') > 0)
    <3>1. readable(output_buf') # 0 <=> readable(output_buf') > 0
      BY <2>1
    <3>2. writing' = (readable(output_buf') # 0)
      BY <1>2 DEF StillWriting
    <3>. QED
      BY <3>1, <3>2, Zenon
  <2>. QED
    BY <1>2, <1>4, <1>6, <1>7, <2>2 DEF CodecInv, TypeOK, WriteInterest, BufferOK, readable
<1>9. Stream' = Stream
  <2>1. Content(output_buf') \in Seq(Byte) /\ received \in Seq(Byte) /\ wire \in Seq(Byte)
    BY <1>4, ContentSeq, Parts
  <2>2. Join(Join(received, Join(wire, Upto(out, n))), Content(output_buf'))
          = Join(Join(received, wire), Join(Upto(out, n), Content(output_buf')))
    BY <1>5, <2>1, PartlyWritten
  <2>. QED
    BY <1>1, <1>2, <1>4, <2>2, Zenon DEF Join, Stream, out
<1>. QED
  BY <1>2, <1>8, <1>9

\* A raw peer only adds to the socket.
LEMMA RawWriteStep ==
  ASSUME CodecInv, NEW byte \in Byte, RawWrite(byte)
  PROVE  CodecInv' /\ peer = "raw"
<1>1. /\ peer = "raw" /\ Room > 0 /\ wire' = Append(wire, byte)
      /\ UNCHANGED <<peer, sent, output_buf, writing, received, input_buf, at, frames, closed>>
  BY DEF RawWrite, sendVars, readVars
<1>2. wire' \in Seq(Byte) /\ Len(wire') = Len(wire) + 1
  BY <1>1, Parts
<1>3. Len(wire') <= SocketRoom
  BY <1>1, <1>2, Parts, CodecAssumption DEF Room
<1>. QED
  BY <1>1, <1>2, <1>3 DEF CodecInv, TypeOK, WriteInterest, BufferOK, readable

\* handle_read() moves bytes from the socket to the end of input_buf_.
LEMMA HandleReadStep ==
  ASSUME CodecInv, HandleRead
  PROVE  CodecInv' /\ sent' = sent /\ Stream' = Stream
<1>1. PICK n \in 1 .. Len(wire) :
        /\ received' = received \o Upto(wire, n)
        /\ input_buf' = read_fd(input_buf, Upto(wire, n))
        /\ wire' = From(wire, n)
  BY Zenon DEF HandleRead
<1>2. at' = "parse" /\ UNCHANGED <<peer, sent, output_buf, writing, frames, closed>>
  BY DEF HandleRead, sendVars
<1>3. n \in 0 .. Len(wire) /\ n \in Nat
  BY <1>1, Parts
<1>4. /\ Upto(wire, n) \in Seq(Byte)
      /\ From(wire, n) \in Seq(Byte) /\ Len(From(wire, n)) = Len(wire) - n
      /\ Upto(wire, n) \o From(wire, n) = wire
  BY <1>3, Parts, Cut, Zenon
<1>5. BufferOK(input_buf')
  BY <1>1, <1>4, Parts, ReadFdEnqueues
<1>6. received' \in Seq(Byte)
  BY <1>1, <1>4, Parts, ConcatProperties
<1>7. Len(wire') <= SocketRoom
  BY <1>1, <1>3, <1>4, Parts, CodecAssumption
<1>8. CodecInv'
  <2>1. closed' = FALSE
    BY <1>2 DEF HandleRead
  <2>. QED
    BY <1>1, <1>2, <1>4, <1>5, <1>6, <1>7, <2>1
       DEF CodecInv, TypeOK, WriteInterest, BufferOK, readable
<1>9. Stream' = Stream
  <2>1. received \in Seq(Byte)
    BY Parts
  <2>2. (received \o Upto(wire, n)) \o From(wire, n)
          = received \o (Upto(wire, n) \o From(wire, n))
    BY <1>4, <2>1, Shift, Zenon
  <2>3. Content(output_buf') = Content(output_buf)
    BY <1>2
  <2>. QED
    BY <1>1, <1>4, <2>2, <2>3, Zenon DEF Stream
<1>. QED
  BY <1>2, <1>8, <1>9

\* on_message() touches input_buf_ alone, and never takes more than it holds:
\* the assertions of retrieve() and retrieve_as_string() hold.
LEMMA OnMessageStep ==
  ASSUME CodecInv, OnMessage
  PROVE  CodecInv' /\ sent' = sent /\ Stream' = Stream
<1>1. UNCHANGED <<peer, sent, output_buf, writing, wire, received>>
  BY DEF OnMessage, OnMessageFrame, OnMessageWait, OnMessageBad, sendVars
<1>2. CASE OnMessageFrame
  <2>. DEFINE b == retrieve(input_buf, kHeaderSize)
              k == body_len
  <2>1. /\ frames' = Append(frames, Upto(Content(b), k))
        /\ input_buf' = retrieve(b, k) /\ UNCHANGED <<at, closed>>
        /\ HasHeader /\ ~ Incomplete
    BY <1>2 DEF OnMessageFrame
  <2>2. readable(input_buf) >= 2 /\ readable(input_buf) \in Nat
    BY <2>1, Parts DEF HasHeader, kHeaderSize
  <2>3. k \in Nat
    <3>1. Content(input_buf) \in Seq(Byte) /\ Len(Content(input_buf)) = readable(input_buf)
      BY Parts, ContentSeq
    <3>2. 2 \in 1 .. Len(Content(input_buf))
      BY <2>2, <3>1
    <3>. QED
      BY <3>1, <3>2, ElementOfSeq, CodecAssumption, Zenon DEF body_len
  <2>. HIDE DEF k
  <2>4. readable(input_buf) >= 2 + k
    BY <2>1, <2>2, <2>3 DEF Incomplete, kHeaderSize, k
  <2>5. BufferOK(b) /\ readable(b) = readable(input_buf) - 2
    <3>1. 2 \in 0 .. readable(input_buf)
      BY <2>2
    <3>. QED
      BY <3>1, Parts, RetrieveDequeues DEF kHeaderSize
  <2>. HIDE DEF b
  <2>6. k \in 0 .. readable(b)
    BY <2>2, <2>3, <2>4, <2>5
  <2>7. BufferOK(input_buf')
    BY <2>1, <2>5, <2>6, RetrieveDequeues
  <2>8. Upto(Content(b), k) \in Seq(Byte)
    <3>1. Content(b) \in Seq(Byte) /\ k \in 0 .. Len(Content(b))
      BY <2>5, <2>6, ContentSeq
    <3>. QED
      BY <3>1, Cut
  <2>9. frames' \in Seq(Seq(Byte))
    BY <2>1, <2>8 DEF CodecInv, TypeOK
  <2>. QED
    BY <1>1, <2>1, <2>7, <2>9 DEF CodecInv, TypeOK, WriteInterest, BufferOK, readable,
                                  Stream, Content
<1>3. CASE OnMessageWait \/ OnMessageBad
  <2>1. /\ UNCHANGED <<input_buf, frames>> /\ at' = "poll"
        /\ closed' = closed \/ closed' = TRUE
    BY <1>3 DEF OnMessageWait, OnMessageBad
  <2>. QED
    BY <1>1, <2>1, Zenon DEF CodecInv, TypeOK, WriteInterest, BufferOK, readable, Stream, Content
<1>. QED
  BY <1>2, <1>3 DEF OnMessage

\* Every step keeps the invariant, and the stream of a Codec peer changes only
\* by the frame that is sent.
LEMMA CodecStep ==
  ASSUME CodecInv, [Next]_vars
  PROVE  /\ CodecInv'
         /\ peer = "codec" =>
              \/ sent' = sent /\ Stream' = Stream
              \/ \E body \in Bodies :
                   /\ sent' = Append(sent, body)
                   /\ Stream' = Stream \o <<kMagicNumber, Len(body)>> \o body
<1>1. CASE \E body \in Bodies : SendRaw(body)
  BY <1>1, SendRawStep, Zenon
<1>2. CASE \E byte \in Byte : RawWrite(byte)
  BY <1>2, RawWriteStep
<1>3. CASE HandleWrite
  BY <1>3, HandleWriteStep, Zenon
<1>4. CASE HandleRead
  BY <1>4, HandleReadStep, Zenon
<1>5. CASE OnMessage
  BY <1>5, OnMessageStep, Zenon
<1>6. CASE UNCHANGED vars
  BY <1>6 DEF vars, sendVars, readVars, CodecInv, TypeOK, WriteInterest, BufferOK, readable,
              Stream, Content
<1>. QED
  BY <1>1, <1>2, <1>3, <1>4, <1>5, <1>6, Zenon DEF Next

\* The indices of both buffers stay in order and within buf_, and EPOLLOUT is
\* asked for exactly while output is buffered, for every size of buffers, bodies
\* and socket, whatever is sent, written and read.
THEOREM CodecInvariant == Spec => []CodecInv
<1>1. CodecInv /\ [Next]_vars => CodecInv'
  BY CodecStep
<1>. QED
  BY <1>1, CodecInit, PTL DEF Spec

\* Between two Codecs no byte is lost, doubled or overtaken, however the frames
\* are written, buffered, moved and read.
THEOREM BytesStayInOrder == Spec => BytesInOrder
<1>1. CodecInv /\ [Next]_vars => CodecInv'
  BY CodecStep
<1>2. CodecInv /\ [Next]_vars =>
        [peer = "codec" =>
           \/ sent' = sent /\ Stream' = Stream
           \/ \E body \in Bodies :
                /\ sent' = Append(sent, body)
                /\ Stream' = Stream \o <<kMagicNumber, Len(body)>> \o body]_vars
  BY CodecStep, Zenon
<1>. QED
  BY <1>1, <1>2, CodecInit, PTL DEF Spec, BytesInOrder
-----------------------------------------------------------------------------
(***************************************************************************)
(* What Decode says of a byte sequence.  It is a recursive function, hence *)
(* a CHOOSE: that a function with this equation exists is proved from its  *)
(* approximations on short sequences.                                      *)
(***************************************************************************)

\* A set of naturals that is not empty has a least element.
LEMMA LeastNat ==
  ASSUME NEW T, T \subseteq Nat, T # {}
  PROVE  \E m \in T : \A k \in T : m <= k
<1>. DEFINE R == OpToRel(<, Nat)
<1>1. IsWellFoundedOn(R, Nat)
  BY NatLessThanWellFounded, Zenon
<1>2. \A x, y \in Nat : x < y => <<x, y>> \in R
  BY DEF OpToRel
<1>. HIDE DEF R
<1>3. PICK x \in T : \A y \in T : ~ (<<y, x>> \in R)
  BY <1>1, WFMin, Zenon
<1>4. \A y \in T : ~ (y < x)
  BY <1>2, <1>3, Zenon
<1>5. \A y \in T : x <= y
  BY <1>4
<1>. QED
  BY <1>5

\* s starts with a header that must be refused; with a complete frame; the
\* body of this frame; what follows it.
Refused(s) == Len(s) >= 2 /\ (s[1] # kMagicNumber \/ s[2] > kMaxBodySize)
Whole(s) == Len(s) >= 2 /\ ~ Refused(s) /\ Len(s) >= 2 + s[2]
FirstBody(s) == SubSeq(s, 3, 2 + s[2])
After(s) == From(s, 2 + s[2])

\* One step of Decode.
Step(d, s) ==
  IF Whole(s) THEN [d[After(s)] EXCEPT !.frames = <<FirstBody(s)>> \o d[After(s)].frames]
  ELSE [frames |-> <<>>, rest |-> s, bad |-> Refused(s)]

Decodes(d, S) == d = [s \in S |-> Step(d, s)]
Short(n) == {s \in Seq(Byte) : Len(s) < n}

\* What follows a complete frame is shorter.
LEMMA AfterFacts ==
  ASSUME NEW s \in Seq(Byte), Whole(s)
  PROVE  /\ s[2] \in Nat /\ 2 + s[2] \in 0 .. Len(s) /\ Len(s) \in Nat
         /\ After(s) \in Seq(Byte) /\ Len(After(s)) = Len(s) - (2 + s[2])
         /\ Len(After(s)) \in Nat /\ Len(After(s)) < Len(s)
         /\ \A i \in 1 .. Len(After(s)) : After(s)[i] = s[2 + s[2] + i]
         /\ FirstBody(s) \in Seq(Byte) /\ Len(FirstBody(s)) = s[2]
         /\ \A i \in 1 .. s[2] : FirstBody(s)[i] = s[2 + i]
<1>1. Len(s) \in Nat /\ Len(s) >= 2
  BY LenProperties, Zenon DEF Whole
<1>2. 2 \in 1 .. Len(s)
  BY <1>1
<1>3. s[2] \in Nat
  BY <1>2, ElementOfSeq, CodecAssumption, Zenon
<1>. DEFINE k == s[2]
<1>4. Len(s) >= 2 + k
  BY Zenon DEF Whole
<1>5. \A i \in 1 .. Len(s) : s[i] \in Byte
  BY ElementOfSeq, Zenon
<1>. HIDE DEF k
<1>6. k \in Nat
  BY <1>3, Zenon DEF k
<1>7. /\ SubSeq(s, 2 + k + 1, Len(s)) \in Seq(Byte)
      /\ Len(SubSeq(s, 2 + k + 1, Len(s))) = Len(s) - (2 + k)
      /\ \A i \in 1 .. Len(s) - (2 + k) : SubSeq(s, 2 + k + 1, Len(s))[i] = s[2 + k + i]
  BY <1>1, <1>4, <1>5, <1>6, SMT, Z3
<1>8. /\ SubSeq(s, 3, 2 + k) \in Seq(Byte)
      /\ Len(SubSeq(s, 3, 2 + k)) = k
      /\ \A i \in 1 .. k : SubSeq(s, 3, 2 + k)[i] = s[2 + i]
  BY <1>1, <1>4, <1>5, <1>6, SMT, Z3
<1>9. After(s) = SubSeq(s, 2 + k + 1, Len(s)) /\ FirstBody(s) = SubSeq(s, 3, 2 + k)
  BY Zenon DEF After, FirstBody, From, k
<1>10. /\ 2 + k \in 0 .. Len(s) /\ Len(s) - (2 + k) \in Nat /\ Len(s) - (2 + k) < Len(s)
  BY <1>1, <1>4, <1>6
<1>. QED
  BY <1>1, <1>6, <1>7, <1>8, <1>9, <1>10, Zenon DEF k

\* A step looks at one shorter sequence at most.
LEMMA StepLooks ==
  ASSUME NEW d, NEW e, NEW s, Whole(s) => d[After(s)] = e[After(s)]
  PROVE  Step(d, s) = Step(e, s)
BY Zenon DEF Step

\* There is a function that decodes all sequences shorter than n.
LEMMA DecodeShort ==
  ASSUME NEW n \in Nat
  PROVE  \E d : Decodes(d, Short(n))
<1>. DEFINE Good(m) == \E d : Decodes(d, Short(m))
            T == {m \in Nat : ~ Good(m)}
<1>1. Good(0)
  <2>1. Short(0) = {}
    BY LenProperties, SMT, Z3 DEF Short
  <2>. DEFINE d == [s \in {} |-> 0]
  <2>2. Decodes(d, {})
    BY Zenon DEF Decodes
  <2>. QED
    BY <2>1, <2>2, Zenon
<1>2. ASSUME NEW m \in Nat, Good(m) PROVE Good(m + 1)
  <2>1. PICK d : Decodes(d, Short(m))
    BY <1>2, Zenon
  <2>. DEFINE e == [s \in Short(m + 1) |-> Step(d, s)]
  <2>2. ASSUME NEW s \in Short(m + 1), Whole(s) PROVE d[After(s)] = e[After(s)]
    <3>1. s \in Seq(Byte) /\ Len(s) < m + 1
      BY Zenon DEF Short
    <3>2. After(s) \in Seq(Byte) /\ Len(After(s)) < m /\ Len(After(s)) < m + 1
      <4>1. /\ After(s) \in Seq(Byte) /\ Len(After(s)) \in Nat
            /\ Len(s) \in Nat /\ Len(After(s)) < Len(s)
        BY <2>2, <3>1, AfterFacts, Zenon
      <4>. QED
        BY <3>1, <4>1
    <3>3. After(s) \in Short(m) /\ After(s) \in Short(m + 1)
      BY <3>2, Zenon DEF Short
    <3>4. d[After(s)] = Step(d, After(s))
      BY <2>1, <3>3, Zenon DEF Decodes
    <3>. QED
      BY <3>3, <3>4, Zenon
  <2>3. \A s \in Short(m + 1) : e[s] = Step(d, s)
    BY Zenon
  <2>4. e = [s \in Short(m + 1) |-> e[s]]
    BY Zenon
  <2>. HIDE DEF e
  <2>5. ASSUME NEW s \in Short(m + 1) PROVE e[s] = Step(e, s)
    BY <2>2, <2>3, StepLooks, Zenon
  <2>6. Decodes(e, Short(m + 1))
    BY <2>4, <2>5, Zenon DEF Decodes
  <2>. QED
    BY <2>6, Zenon
<1>. HIDE DEF Good
<1>3. SUFFICES ASSUME T # {} PROVE FALSE
  BY Zenon DEF Good
<1>4. PICK m \in T : \A k \in T : m <= k
  BY <1>3, LeastNat, Zenon
<1>5. m # 0
  BY <1>1, <1>4, Zenon
<1>6. m - 1 \in Nat /\ ~ (m <= m - 1) /\ (m - 1) + 1 = m
  BY <1>4, <1>5
<1>7. Good(m - 1)
  BY <1>4, <1>6, Zenon
<1>8. Good((m - 1) + 1)
  BY <1>2, <1>6, <1>7, Zenon
<1>. QED
  BY <1>4, <1>6, <1>8, Zenon

\* Two such functions agree.
LEMMA DecodeUnique ==
  ASSUME NEW n, NEW m, NEW d, NEW e, Decodes(d, Short(n)), Decodes(e, Short(m)),
         n \in Nat, m \in Nat, NEW s, s \in Short(n), s \in Short(m)
  PROVE  d[s] = e[s]
<1>. DEFINE Both == {t \in Short(n) : t \in Short(m)}
            T == {Len(t) : t \in {u \in Both : d[u] # e[u]}}
<1>1. SUFFICES ASSUME d[s] # e[s] PROVE FALSE
  BY Zenon
<1>2. T # {}
  BY <1>1, Zenon
<1>3. T \subseteq Nat
  BY LenProperties, Zenon DEF Short
<1>4. PICK k \in T : \A j \in T : k <= j
  BY <1>2, <1>3, LeastNat, Zenon
<1>5. PICK t \in Both : d[t] # e[t] /\ k = Len(t)
  BY <1>4, Zenon
<1>6. t \in Seq(Byte) /\ Len(t) < n /\ Len(t) < m
  BY <1>5, Zenon DEF Short
<1>7. ASSUME Whole(t) PROVE d[After(t)] = e[After(t)]
  <2>1. /\ After(t) \in Seq(Byte) /\ Len(After(t)) \in Nat
        /\ Len(t) \in Nat /\ Len(After(t)) < Len(t)
    BY <1>6, <1>7, AfterFacts, Zenon
  <2>2. Len(After(t)) < n /\ Len(After(t)) < m /\ ~ (Len(t) <= Len(After(t)))
    BY <1>6, <2>1
  <2>3. After(t) \in Both
    BY <2>1, <2>2, Zenon DEF Short
  <2>4. ~ (Len(After(t)) \in T)
    BY <1>4, <1>5, <2>2, Zenon
  <2>. QED
    BY <2>3, <2>4, Zenon
<1>8. d[t] = Step(d, t) /\ e[t] = Step(e, t)
  BY <1>5, Zenon DEF Decodes
<1>9. Step(d, t) = Step(e, t)
  BY <1>7, StepLooks, Zenon
<1>. QED
  BY <1>5, <1>8, <1>9, Zenon

\* So there is one for all sequences, and Decode is one.
LEMMA DecodeEquation == Decodes(Decode, Seq(Byte))
<1>. DEFINE up(n) == CHOOSE d : Decodes(d, Short(n))
            f == [s \in Seq(Byte) |-> up(Len(s) + 1)[s]]
<1>1. ASSUME NEW n \in Nat PROVE Decodes(up(n), Short(n))
  BY DecodeShort, Zenon
<1>. HIDE DEF up
<1>2. ASSUME NEW s \in Seq(Byte) PROVE f[s] = Step(f, s)
  <2>0. Len(s) \in Nat
    BY LenProperties, Zenon
  <2>1. Len(s) + 1 \in Nat /\ Len(s) < Len(s) + 1
    BY <2>0
  <2>2. s \in Short(Len(s) + 1)
    BY <2>1, Zenon DEF Short
  <2>3. f[s] = Step(up(Len(s) + 1), s)
    BY <1>1, <2>1, <2>2, Zenon DEF Decodes
  <2>4. ASSUME Whole(s) PROVE up(Len(s) + 1)[After(s)] = f[After(s)]
    <3>1. After(s) \in Seq(Byte) /\ Len(After(s)) \in Nat /\ Len(After(s)) < Len(s)
      BY <2>4, AfterFacts, Zenon
    <3>2. /\ Len(After(s)) + 1 \in Nat /\ Len(After(s)) < Len(After(s)) + 1
          /\ Len(After(s)) < Len(s) + 1
      BY <2>0, <3>1
    <3>3. After(s) \in Short(Len(s) + 1) /\ After(s) \in Short(Len(After(s)) + 1)
      BY <3>1, <3>2, Zenon DEF Short
    <3>4. Decodes(up(Len(s) + 1), Short(Len(s) + 1))
      BY <1>1, <2>1, Zenon
    <3>5. Decodes(up(Len(After(s)) + 1), Short(Len(After(s)) + 1))
      BY <1>1, <3>2, Zenon
    <3>6. up(Len(s) + 1)[After(s)] = up(Len(After(s)) + 1)[After(s)]
      BY <2>1, <3>2, <3>3, <3>4, <3>5, DecodeUnique, SMT, Z3
    <3>. QED
      BY <3>1, <3>6, Zenon
  <2>. HIDE DEF f
  <2>. QED
    BY <2>3, <2>4, StepLooks, Zenon
<1>3. f = [s \in Seq(Byte) |-> f[s]]
  BY Zenon
<1>. HIDE DEF f
<1>4. f = [s \in Seq(Byte) |-> Step(f, s)]
  BY <1>2, <1>3, Zenon
<1>. DEFINE body(d) == [s \in Seq(Byte) |->
              IF Len(s) < 2 THEN [frames |-> <<>>, rest |-> s, bad |-> FALSE]
              ELSE IF s[1] # kMagicNumber \/ s[2] > kMaxBodySize
                   THEN [frames |-> <<>>, rest |-> s, bad |-> TRUE]
              ELSE IF Len(s) < 2 + s[2] THEN [frames |-> <<>>, rest |-> s, bad |-> FALSE]
              ELSE [d[From(s, 2 + s[2])] EXCEPT
                      !.frames = <<SubSeq(s, 3, 2 + s[2])>> \o d[From(s, 2 + s[2])].frames]]
<1>5. ASSUME NEW d PROVE body(d) = [s \in Seq(Byte) |-> Step(d, s)]
  <2>1. ASSUME NEW s \in Seq(Byte) PROVE body(d)[s] = Step(d, s)
    <3>0. Len(s) \in Nat /\ (Len(s) >= 2 <=> ~ (Len(s) < 2))
      BY LenProperties
    <3>1. CASE Len(s) < 2
      <4>1. ~ Whole(s) /\ Refused(s) = FALSE
        BY <3>0, <3>1, Zenon DEF Whole, Refused
      <4>. QED
        BY <3>1, <4>1, Zenon DEF Step
    <3>2. CASE ~ (Len(s) < 2) /\ (s[1] # kMagicNumber \/ s[2] > kMaxBodySize)
      <4>1. ~ Whole(s) /\ Refused(s) = TRUE
        BY <3>0, <3>2, Zenon DEF Whole, Refused
      <4>. QED
        BY <3>2, <4>1, Zenon DEF Step
    <3>3. CASE ~ (Len(s) < 2) /\ ~ (s[1] # kMagicNumber \/ s[2] > kMaxBodySize)
      <4>1. Refused(s) = FALSE /\ (Whole(s) <=> Len(s) >= 2 + s[2])
        BY <3>0, <3>3, Zenon DEF Whole, Refused
      <4>2. 2 \in 1 .. Len(s)
        BY <3>0, <3>3
      <4>3. s[2] \in Nat
        BY <4>2, ElementOfSeq, CodecAssumption, Zenon
      <4>4. Len(s) >= 2 + s[2] <=> ~ (Len(s) < 2 + s[2])
        BY <3>0, <4>3
      <4>. QED
        BY <3>3, <4>1, <4>4, Zenon DEF Step, After, FirstBody
    <3>. QED
      BY <3>1, <3>2, <3>3, Zenon
  <2>. QED
    BY <2>1, Zenon
<1>6. f = body(f)
  BY <1>4, <1>5, Zenon
<1>7. Decode = body(Decode)
  BY <1>6, Zenon DEF Decode
<1>. HIDE DEF body
<1>. QED
  BY <1>5, <1>7, Zenon DEF Decodes

\* What Decode is at s, in terms of what it is at the rest of s.
LEMMA DecodeAt ==
  ASSUME NEW s \in Seq(Byte)
  PROVE  /\ Decode[s].frames \in Seq(Seq(Byte)) /\ Decode[s].rest \in Seq(Byte)
         /\ Whole(s) => /\ Decode[s].frames = <<FirstBody(s)>> \o Decode[After(s)].frames
                        /\ Decode[s].rest = Decode[After(s)].rest
                        /\ Decode[s].bad = Decode[After(s)].bad
                        /\ Decode[s].frames # <<>>
         /\ ~ Whole(s) => /\ Decode[s].frames = <<>> /\ Decode[s].rest = s
                          /\ Decode[s].bad = Refused(s)
<1>. DEFINE Results == [frames : Seq(Seq(Byte)), rest : Seq(Byte), bad : BOOLEAN]
            T == {Len(t) : t \in {u \in Seq(Byte) : ~ (Decode[u] \in Results)}}
<1>1. ASSUME NEW t \in Seq(Byte) PROVE Decode[t] = Step(Decode, t)
  BY DecodeEquation, Zenon DEF Decodes
<1>2. ASSUME NEW t \in Seq(Byte), ~ Whole(t)
      PROVE  Decode[t] = [frames |-> <<>>, rest |-> t, bad |-> Refused(t)]
  BY <1>1, <1>2, Zenon DEF Step
<1>3. ASSUME NEW t \in Seq(Byte), Whole(t)
      PROVE  Decode[t] = [Decode[After(t)] EXCEPT
                            !.frames = <<FirstBody(t)>> \o Decode[After(t)].frames]
  BY <1>1, <1>3, Zenon DEF Step
<1>4. ASSUME NEW t \in Seq(Byte), Whole(t), Decode[After(t)] \in Results
      PROVE  /\ Decode[t].frames = <<FirstBody(t)>> \o Decode[After(t)].frames
             /\ Decode[t].rest = Decode[After(t)].rest
             /\ Decode[t].bad = Decode[After(t)].bad
             /\ Decode[t] \in Results /\ Decode[t].frames # <<>>
  <2>1. <<FirstBody(t)>> \in Seq(Seq(Byte)) /\ Len(<<FirstBody(t)>>) = 1
    <3>1. FirstBody(t) \in Seq(Byte)
      BY <1>4, AfterFacts, Zenon
    <3>. QED
      BY <3>1
  <2>2. Decode[After(t)].frames \in Seq(Seq(Byte))
    BY <1>4, Zenon
  <2>. DEFINE all == <<FirstBody(t)>> \o Decode[After(t)].frames
  <2>3. all \in Seq(Seq(Byte)) /\ Len(all) = Len(<<FirstBody(t)>>) + Len(Decode[After(t)].frames)
    BY <2>1, <2>2, ConcatProperties, Zenon
  <2>4. all # <<>>
    <3>1. Len(Decode[After(t)].frames) \in Nat
      BY <2>2, LenProperties, Zenon
    <3>2. Len(all) > 0
      BY <2>1, <2>3, <3>1, SMT, Z3
    <3>. HIDE DEF all
    <3>. QED
      BY <2>3, <3>2, EmptySeq, SMT, Z3
  <2>. HIDE DEF all
  <2>5. Decode[t] = [Decode[After(t)] EXCEPT !.frames = all]
    BY <1>3, <1>4, Zenon DEF all
  <2>. DEFINE a == Decode[After(t)]
  <2>6. PICK fs \in Seq(Seq(Byte)), r \in Seq(Byte), b \in BOOLEAN :
          a = [frames |-> fs, rest |-> r, bad |-> b]
    BY <1>4, Zenon
  <2>7. [a EXCEPT !.frames = all] = [frames |-> all, rest |-> r, bad |-> b]
    BY <2>6, SMT, Z3
  <2>8. Decode[t] = [frames |-> all, rest |-> r, bad |-> b]
    BY <2>5, <2>7, Zenon
  <2>9. /\ Decode[t].frames = all /\ Decode[t].rest = a.rest
        /\ Decode[t].bad = a.bad /\ Decode[t] \in Results
    BY <2>3, <2>6, <2>8, SMT, Z3
  <2>. QED
    BY <2>4, <2>9, Zenon DEF all
<1>5. ASSUME NEW t \in Seq(Byte) PROVE Decode[t] \in Results
  <2>1. SUFFICES ASSUME ~ (Decode[t] \in Results) PROVE FALSE
    BY Zenon
  <2>2. T # {} /\ T \subseteq Nat
    <3>. HIDE DEF Results
    <3>1. Len(t) \in T
      BY <2>1, Zenon
    <3>2. \A v \in Seq(Byte) : Len(v) \in Nat
      BY LenProperties, Zenon
    <3>. QED
      BY <3>1, <3>2, Zenon
  <2>3. PICK k \in T : \A j \in T : k <= j
    BY <2>2, LeastNat, Zenon
  <2>4. PICK u \in Seq(Byte) : ~ (Decode[u] \in Results) /\ k = Len(u)
    BY <2>3, Zenon
  <2>5. CASE Whole(u)
    <3>1. /\ After(u) \in Seq(Byte) /\ Len(After(u)) \in Nat
          /\ Len(u) \in Nat /\ Len(After(u)) < Len(u)
      BY <2>5, AfterFacts, Zenon
    <3>2. ~ (Len(u) <= Len(After(u)))
      BY <3>1
    <3>3. Decode[After(u)] \in Results
      BY <2>3, <2>4, <3>1, <3>2, Zenon
    <3>. QED
      BY <1>4, <2>4, <2>5, <3>3, Zenon
  <2>6. CASE ~ Whole(u)
    <3>1. <<>> \in Seq(Seq(Byte))
      BY EmptySeq, Zenon
    <3>. DEFINE b == Refused(u)
    <3>2. b \in BOOLEAN
      BY Zenon DEF Refused
    <3>3. Decode[u] = [frames |-> <<>>, rest |-> u, bad |-> b]
      BY <1>2, <2>6, Zenon
    <3>. HIDE DEF b
    <3>. QED
      BY <2>4, <3>1, <3>2, <3>3, SMT, Z3
  <2>. QED
    BY <2>5, <2>6, Zenon
<1>6. ASSUME Whole(s) PROVE Decode[After(s)] \in Results
  BY <1>5, <1>6, AfterFacts, Zenon
<1>7. Decode[s] \in Results
  BY <1>5, Zenon
<1>8. Decode[s].frames \in Seq(Seq(Byte)) /\ Decode[s].rest \in Seq(Byte)
  BY <1>7, Zenon
<1>9. ASSUME ~ Whole(s)
      PROVE Decode[s].frames = <<>> /\ Decode[s].rest = s /\ Decode[s].bad = Refused(s)
  <2>. DEFINE b == Refused(s)
  <2>1. Decode[s] = [frames |-> <<>>, rest |-> s, bad |-> b]
    BY <1>2, <1>9, Zenon
  <2>. HIDE DEF b
  <2>2. Decode[s].frames = <<>> /\ Decode[s].rest = s /\ Decode[s].bad = b
    BY <2>1, SMT, Z3
  <2>. QED
    BY <2>2, Zenon DEF b
<1>. HIDE DEF Results
<1>. QED
  BY <1>4, <1>6, <1>8, <1>9, Zenon

\* A complete frame stays one when bytes follow.
LEMMA WholeConcat ==
  ASSUME NEW s \in Seq(Byte), NEW u \in Seq(Byte), Whole(s)
  PROVE  /\ Whole(s \o u) /\ FirstBody(s \o u) = FirstBody(s)
         /\ After(s \o u) = After(s) \o u
<1>. DEFINE k == s[2]
            n == Len(s)
            m == Len(u)
            c == s \o u
<1>1. /\ k \in Nat /\ n \in Nat /\ n >= 2 + k
      /\ After(s) \in Seq(Byte) /\ Len(After(s)) = n - (2 + k)
      /\ \A i \in 1 .. Len(After(s)) : After(s)[i] = s[2 + k + i]
      /\ FirstBody(s) \in Seq(Byte) /\ Len(FirstBody(s)) = k
      /\ \A i \in 1 .. k : FirstBody(s)[i] = s[2 + i]
  <2>1. s[2] \in Nat /\ 2 + s[2] \in 0 .. Len(s) /\ Len(s) \in Nat
    BY AfterFacts, Zenon
  <2>. HIDE DEF k
  <2>2. Len(s) >= 2 + k
    BY <2>1 DEF k
  <2>. QED
    BY <2>1, <2>2, AfterFacts, Zenon DEF k
<1>2. c \in Seq(Byte) /\ Len(c) = n + m /\ m \in Nat
      /\ \A i \in 1 .. n + m : c[i] = IF i <= n THEN s[i] ELSE u[i - n]
  BY ConcatProperties, LenProperties, Zenon
<1>. HIDE DEF c, n, m
<1>3. c[1] = s[1] /\ c[2] = k
  <2>0. k \in Nat /\ n \in Nat /\ m \in Nat /\ n >= 2 + k
    BY <1>1, <1>2, Zenon
  <2>1. 1 \in 1 .. n + m /\ 2 \in 1 .. n + m /\ 1 <= n /\ 2 <= n
    <3>. HIDE DEF k
    <3>. QED
      BY <2>0, SMT, Z3
  <2>. QED
    BY <1>2, <2>1, Zenon
<1>. HIDE DEF k
<1>4. Whole(c)
  <2>1. Len(c) >= 2 /\ Len(c) >= 2 + k
    BY <1>1, <1>2
  <2>2. ~ (s[1] # kMagicNumber \/ k > kMaxBodySize)
    <3>1. n >= 2
      BY <1>1
    <3>. QED
      BY <3>1, Zenon DEF Whole, Refused, k, n
  <2>. QED
    BY <1>3, <2>1, <2>2, Zenon DEF Whole, Refused
<1>5. /\ After(c) \in Seq(Byte) /\ Len(After(c)) = (n + m) - (2 + k)
      /\ \A i \in 1 .. Len(After(c)) : After(c)[i] = c[2 + k + i]
      /\ FirstBody(c) \in Seq(Byte) /\ Len(FirstBody(c)) = k
      /\ \A i \in 1 .. k : FirstBody(c)[i] = c[2 + i]
  BY <1>2, <1>3, <1>4, AfterFacts, Zenon
<1>6. FirstBody(c) = FirstBody(s)
  <2>1. ASSUME NEW i \in 1 .. k PROVE FirstBody(c)[i] = FirstBody(s)[i]
    <3>1. 2 + i \in 1 .. n + m /\ 2 + i <= n
      BY <1>1, <1>2
    <3>2. c[2 + i] = s[2 + i]
      BY <1>2, <3>1, Zenon
    <3>. QED
      BY <1>1, <1>5, <3>2, Zenon
  <2>. QED
    BY <1>1, <1>5, <2>1, SeqEqual, SMT, Z3
<1>7. After(c) = After(s) \o u
  <2>. DEFINE a == n - (2 + k)
              t == After(s) \o u
  <2>1. t \in Seq(Byte) /\ Len(t) = a + m
        /\ \A i \in 1 .. a + m : t[i] = IF i <= a THEN After(s)[i] ELSE u[i - a]
    <3>1. Len(After(s)) = a
      BY <1>1, Zenon
    <3>2. ASSUME NEW x \in Seq(Byte)
          PROVE  /\ x \o u \in Seq(Byte) /\ Len(x \o u) = Len(x) + m
                 /\ \A i \in 1 .. Len(x) + m :
                      (x \o u)[i] = IF i <= Len(x) THEN x[i] ELSE u[i - Len(x)]
      BY ConcatProperties, Zenon DEF m
    <3>. HIDE DEF a
    <3>. QED
      BY <1>1, <3>1, <3>2, Zenon
  <2>2. a \in Nat /\ (n + m) - (2 + k) = a + m
    BY <1>1, <1>2
  <2>. HIDE DEF t
  <2>3. ASSUME NEW i \in 1 .. a + m PROVE After(c)[i] = t[i]
    <3>1. /\ 2 + k + i \in 1 .. n + m
          /\ i <= a <=> 2 + k + i <= n
          /\ (2 + k + i) - n = i - a
          /\ i <= a => i \in 1 .. a
      BY <1>1, <1>2
    <3>2. After(c)[i] = c[2 + k + i]
      BY <1>5, <2>2, Zenon
    <3>3. c[2 + k + i] = IF 2 + k + i <= n THEN s[2 + k + i] ELSE u[(2 + k + i) - n]
      BY <1>2, <3>1, Zenon
    <3>4. i <= a => After(s)[i] = s[2 + k + i]
      BY <1>1, <3>1, Zenon
    <3>5. t[i] = IF i <= a THEN After(s)[i] ELSE u[i - a]
      BY <2>1, Zenon
    <3>. QED
      BY <3>1, <3>2, <3>3, <3>4, <3>5, Zenon
  <2>4. After(c) \in Seq(Byte) /\ Len(After(c)) = a + m
    BY <1>5, <2>2, Zenon
  <2>. HIDE DEF a
  <2>5. After(c) = t
    BY <2>1, <2>3, <2>4, SeqEqual, SMT, Z3
  <2>. QED
    BY <2>5, Zenon DEF t
<1>. QED
  BY <1>4, <1>6, <1>7, Zenon DEF c

\* Concatenation of frames is associative.
LEMMA ShiftFrames ==
  ASSUME NEW s \in Seq(Seq(Byte)), NEW t \in Seq(Seq(Byte)), NEW u \in Seq(Seq(Byte))
  PROVE  (s \o t) \o u = s \o (t \o u)
BY ConcatAssociative, SMTT(40), Z3T(40)

\* Bytes may come in two pieces: the second one is decoded after what the
\* first one left over.
LEMMA DecodeConcat ==
  ASSUME NEW s \in Seq(Byte), NEW u \in Seq(Byte)
  PROVE  LET all == Decode[s \o u]
             end == Decode[Decode[s].rest \o u] IN
         /\ all.frames = Decode[s].frames \o end.frames
         /\ all.rest = end.rest
<1>. DEFINE Right(t) == /\ Decode[t \o u].frames = Decode[t].frames \o Decode[Decode[t].rest \o u].frames
                        /\ Decode[t \o u].rest = Decode[Decode[t].rest \o u].rest
            T == {Len(t) : t \in {v \in Seq(Byte) : ~ Right(v)}}
<1>1. SUFFICES ASSUME ~ Right(s) PROVE FALSE
  BY Zenon
<1>2. T # {} /\ T \subseteq Nat
  <2>. HIDE DEF Right
  <2>1. Len(s) \in T
    BY <1>1, Zenon
  <2>2. \A v \in Seq(Byte) : Len(v) \in Nat
    BY LenProperties, Zenon
  <2>. QED
    BY <2>1, <2>2, Zenon
<1>3. PICK k \in T : \A j \in T : k <= j
  BY <1>2, LeastNat, Zenon
<1>4. PICK t \in Seq(Byte) : ~ Right(t) /\ k = Len(t)
  BY <1>3, Zenon
<1>5. CASE ~ Whole(t)
  <2>1. Decode[t].frames = <<>> /\ Decode[t].rest = t
    BY <1>5, DecodeAt, Zenon
  <2>2. t \o u \in Seq(Byte)
    BY ConcatProperties, Zenon
  <2>3. Decode[t \o u].frames \in Seq(Seq(Byte))
    BY <2>2, DecodeAt, Zenon
  <2>4. <<>> \o Decode[t \o u].frames = Decode[t \o u].frames
    BY <2>3, ConcatEmptySeq, Zenon
  <2>. QED
    BY <1>4, <2>1, <2>4, Zenon
<1>6. CASE Whole(t)
  <2>1. /\ After(t) \in Seq(Byte) /\ Len(After(t)) \in Nat
        /\ Len(t) \in Nat /\ Len(After(t)) < Len(t) /\ FirstBody(t) \in Seq(Byte)
    BY <1>6, AfterFacts, Zenon
  <2>2. ~ (Len(t) <= Len(After(t)))
    BY <2>1
  <2>3. Right(After(t))
    BY <1>3, <1>4, <2>1, <2>2, Zenon
  <2>4. /\ t \o u \in Seq(Byte) /\ Whole(t \o u) /\ FirstBody(t \o u) = FirstBody(t)
        /\ After(t \o u) = After(t) \o u
    BY <1>6, WholeConcat, ConcatProperties, Zenon
  <2>. DEFINE a == Decode[After(t)]
              e == Decode[a.rest \o u]
  <2>5. /\ Decode[t \o u].frames = <<FirstBody(t)>> \o Decode[After(t) \o u].frames
        /\ Decode[t \o u].rest = Decode[After(t) \o u].rest
    <3>. DEFINE w == t \o u
    <3>1. w \in Seq(Byte) /\ Whole(w)
      BY <2>4, Zenon
    <3>2. FirstBody(w) = FirstBody(t) /\ After(w) = After(t) \o u
      BY <2>4, Zenon
    <3>. HIDE DEF w
    <3>3. /\ Decode[w].frames = <<FirstBody(w)>> \o Decode[After(w)].frames
          /\ Decode[w].rest = Decode[After(w)].rest
      BY <3>1, DecodeAt, Zenon
    <3>4. /\ Decode[w].frames = <<FirstBody(t)>> \o Decode[After(t) \o u].frames
          /\ Decode[w].rest = Decode[After(t) \o u].rest
      BY <3>2, <3>3, Zenon
    <3>. QED
      BY <3>4 DEF w
  <2>6. Decode[t].frames = <<FirstBody(t)>> \o a.frames /\ Decode[t].rest = a.rest
    BY <1>6, DecodeAt, Zenon
  <2>7. a.frames \in Seq(Seq(Byte)) /\ a.rest \in Seq(Byte)
    BY <2>1, DecodeAt, Zenon
  <2>8. e.frames \in Seq(Seq(Byte))
    <3>1. a.rest \o u \in Seq(Byte)
      BY <2>7, ConcatProperties, Zenon
    <3>. QED
      BY <3>1, DecodeAt, Zenon
  <2>9. <<FirstBody(t)>> \in Seq(Seq(Byte))
    BY <2>1
  <2>10. (<<FirstBody(t)>> \o a.frames) \o e.frames = <<FirstBody(t)>> \o (a.frames \o e.frames)
    <3>. HIDE DEF a, e
    <3>. QED
      BY <2>7, <2>8, <2>9, ShiftFrames, Zenon
  <2>. QED
    BY <1>4, <2>3, <2>5, <2>6, <2>10, Zenon
<1>. QED
  BY <1>5, <1>6, Zenon

-----------------------------------------------------------------------------
(***************************************************************************)
(* on_message() decodes the stream.                                        *)
(***************************************************************************)

\* What retrieve() leaves is the content from there on.
LEMMA RetrieveLeaves ==
  ASSUME NEW b, BufferOK(b), NEW n \in 0 .. readable(b)
  PROVE  Content(retrieve(b, n)) = From(Content(b), n)
<1>. DEFINE c == Content(b)
            r == Content(retrieve(b, n))
<1>1. c \in Seq(Byte) /\ Len(c) = readable(b)
  BY ContentSeq, Zenon
<1>2. BufferOK(retrieve(b, n)) /\ c = SubSeq(c, 1, n) \o r
  BY RetrieveDequeues, Zenon
<1>3. r \in Seq(Byte)
  BY <1>2, ContentSeq, Zenon
<1>. HIDE DEF c, r
<1>4. n \in 0 .. Len(c)
  BY <1>1, Zenon
<1>5. /\ Upto(c, n) \in Seq(Byte) /\ From(c, n) \in Seq(Byte)
      /\ Upto(c, n) \o From(c, n) = c
  BY <1>1, <1>4, Cut, Zenon
<1>6. Upto(c, n) \o r = Upto(c, n) \o From(c, n)
  BY <1>2, <1>5, Zenon DEF Upto
<1>7. r = From(c, n)
  BY <1>3, <1>5, <1>6, ConcatSimplifications, Z3T(40)
<1>. QED
  BY <1>7, Zenon DEF c, r

\* on_message() finds a complete frame, or a header to refuse, exactly where
\* Decode does.
LEMMA OnMessageSees ==
  ASSUME CodecInv
  PROVE  LET c == Content(input_buf) IN
         /\ c \in Seq(Byte)
         /\ HasHeader /\ BadHeader <=> Refused(c)
         /\ HasHeader /\ ~ BadHeader /\ ~ Incomplete <=> Whole(c)
<1>. DEFINE c == Content(input_buf)
<1>1. c \in Seq(Byte) /\ Len(c) = readable(input_buf) /\ Len(c) \in Nat
  BY Parts, ContentSeq, LenProperties, Zenon
<1>2. HasHeader <=> Len(c) >= 2
  BY <1>1, Zenon DEF HasHeader, kHeaderSize
<1>3. BadHeader <=> (c[1] # kMagicNumber \/ c[2] > kMaxBodySize)
  BY Zenon DEF BadHeader, magic, body_len
<1>4. ASSUME Len(c) >= 2 PROVE Incomplete <=> ~ (Len(c) >= 2 + c[2])
  <2>1. Incomplete <=> Len(c) < 2 + c[2]
    BY <1>1, Zenon DEF Incomplete, kHeaderSize, body_len
  <2>. HIDE DEF c
  <2>2. 2 \in 1 .. Len(c)
    BY <1>1, <1>4
  <2>3. c[2] \in Nat
    BY <1>1, <2>2, ElementOfSeq, CodecAssumption, Zenon
  <2>4. Len(c) < 2 + c[2] <=> ~ (Len(c) >= 2 + c[2])
    BY <1>1, <2>3
  <2>. QED
    BY <2>1, <2>4, Zenon
<1>. HIDE DEF c
<1>5. HasHeader /\ BadHeader <=> Refused(c)
  BY <1>2, <1>3, Zenon DEF Refused
<1>6. HasHeader /\ ~ BadHeader /\ ~ Incomplete <=> Whole(c)
  BY <1>2, <1>3, <1>4, Zenon DEF Refused, Whole
<1>. QED
  BY <1>1, <1>5, <1>6, Zenon DEF c

\* handle_read() adds bytes to an input_buf_ that holds no complete frame.
LEMMA ReadDecoded ==
  ASSUME CodecInv, StreamDecoded, HandleRead
  PROVE  StreamDecoded'
<1>1. PICK n \in 1 .. Len(wire) :
        /\ received' = received \o Upto(wire, n)
        /\ input_buf' = read_fd(input_buf, Upto(wire, n))
  BY Zenon DEF HandleRead
<1>2. at = "poll" /\ at' = "parse" /\ frames' = frames
  BY Zenon DEF HandleRead
<1>. DEFINE c == Content(input_buf)
            d == Upto(wire, n)
            all == Decode[received]
<1>3. received \in Seq(Byte) /\ c \in Seq(Byte) /\ d \in Seq(Byte)
  <2>1. n \in 0 .. Len(wire) /\ wire \in Seq(Byte)
    BY <1>1, Parts
  <2>. QED
    BY <2>1, Parts, ContentSeq, Cut, Zenon
<1>4. Content(input_buf') = c \o d
  BY <1>1, <1>3, Parts, ReadFdEnqueues, Zenon
<1>5. /\ frames \o Decode[c].frames = all.frames /\ Decode[c].rest = all.rest
      /\ Decode[c].frames = <<>>
  BY <1>2, Zenon DEF StreamDecoded
<1>6. Decode[c].rest = c
  BY <1>3, <1>5, DecodeAt, Zenon
<1>7. frames = all.frames
  <2>1. frames \in Seq(Seq(Byte))
    BY Zenon DEF CodecInv, TypeOK
  <2>2. frames \o <<>> = frames
    BY <2>1, ConcatEmptySeq, Zenon
  <2>. QED
    BY <1>5, <2>2, Zenon
<1>8. /\ Decode[received \o d].frames = all.frames \o Decode[all.rest \o d].frames
      /\ Decode[received \o d].rest = Decode[all.rest \o d].rest
  BY <1>3, DecodeConcat, Zenon
<1>9. /\ frames' \o Decode[c \o d].frames = Decode[received \o d].frames
      /\ Decode[c \o d].rest = Decode[received \o d].rest
  BY <1>2, <1>5, <1>6, <1>7, <1>8, Zenon
<1>10. StreamDecoded' <=>
        /\ frames' \o Decode[Content(input_buf')].frames = Decode[received'].frames
        /\ Decode[Content(input_buf')].rest = Decode[received'].rest
        /\ at' = "poll" => /\ Decode[Content(input_buf')].frames = <<>>
                           /\ closed' = Decode[Content(input_buf')].bad
  BY Zenon DEF StreamDecoded
<1>. QED
  BY <1>1, <1>2, <1>4, <1>9, <1>10, Zenon

\* The bytes of both pieces of a sequence.
LEMMA PiecesAt ==
  ASSUME NEW s \in Seq(Byte), NEW n \in Nat, n <= Len(s)
  PROVE  /\ From(s, n) \in Seq(Byte) /\ Len(From(s, n)) = Len(s) - n
         /\ \A i \in 1 .. Len(s) - n : From(s, n)[i] = s[n + i]
         /\ Upto(s, n) \in Seq(Byte) /\ Len(Upto(s, n)) = n
         /\ \A i \in 1 .. n : Upto(s, n)[i] = s[i]
<1>1. Len(s) \in Nat /\ \A i \in 1 .. Len(s) : s[i] \in Byte
  BY LenProperties, ElementOfSeq, Zenon
<1>2. /\ SubSeq(s, n + 1, Len(s)) \in Seq(Byte) /\ Len(SubSeq(s, n + 1, Len(s))) = Len(s) - n
      /\ \A i \in 1 .. Len(s) - n : SubSeq(s, n + 1, Len(s))[i] = s[n + i]
  BY <1>1, SMT, Z3
<1>3. /\ SubSeq(s, 1, n) \in Seq(Byte) /\ Len(SubSeq(s, 1, n)) = n
      /\ \A i \in 1 .. n : SubSeq(s, 1, n)[i] = s[i]
  BY <1>1, SMT, Z3
<1>. QED
  BY <1>2, <1>3, Zenon DEF From, Upto

\* The header, then the body, taken off a sequence.
LEMMA CutTwice ==
  ASSUME NEW s \in Seq(Byte), NEW k \in Nat, 2 + k \in 0 .. Len(s)
  PROVE  From(From(s, 2), k) = From(s, 2 + k) /\ Upto(From(s, 2), k) = SubSeq(s, 3, 2 + k)
<1>1. Len(s) \in Nat /\ 2 + k <= Len(s) /\ 2 <= Len(s) /\ 2 + k \in Nat /\ 2 \in Nat
      /\ \A i \in 1 .. Len(s) : s[i] \in Byte
  BY LenProperties, ElementOfSeq
<1>. DEFINE t == From(s, 2)
<1>2. /\ t \in Seq(Byte) /\ Len(t) = Len(s) - 2
      /\ \A i \in 1 .. Len(s) - 2 : t[i] = s[2 + i]
  BY <1>1, PiecesAt, Zenon
<1>. HIDE DEF t
<1>3. k <= Len(t) /\ Len(t) - k = Len(s) - (2 + k)
  BY <1>1, <1>2
<1>4. /\ From(t, k) \in Seq(Byte) /\ Len(From(t, k)) = Len(t) - k
      /\ \A i \in 1 .. Len(t) - k : From(t, k)[i] = t[k + i]
      /\ Upto(t, k) \in Seq(Byte) /\ Len(Upto(t, k)) = k
      /\ \A i \in 1 .. k : Upto(t, k)[i] = t[i]
  BY <1>2, <1>3, PiecesAt, Zenon
<1>5. /\ From(s, 2 + k) \in Seq(Byte) /\ Len(From(s, 2 + k)) = Len(s) - (2 + k)
      /\ \A i \in 1 .. Len(s) - (2 + k) : From(s, 2 + k)[i] = s[2 + k + i]
  BY <1>1, PiecesAt, Zenon
<1>6. /\ SubSeq(s, 3, 2 + k) \in Seq(Byte) /\ Len(SubSeq(s, 3, 2 + k)) = k
      /\ \A i \in 1 .. k : SubSeq(s, 3, 2 + k)[i] = s[2 + i]
  BY <1>1, SMT, Z3
<1>7. ASSUME NEW i \in 1 .. Len(s) - (2 + k) PROVE From(t, k)[i] = From(s, 2 + k)[i]
  <2>1. k + i \in 1 .. Len(s) - 2 /\ 2 + (k + i) = 2 + k + i
    BY <1>1
  <2>. QED
    BY <1>2, <1>3, <1>4, <1>5, <2>1, Zenon
<1>8. ASSUME NEW i \in 1 .. k PROVE Upto(t, k)[i] = SubSeq(s, 3, 2 + k)[i]
  <2>1. i \in 1 .. Len(s) - 2
    BY <1>1
  <2>. QED
    BY <1>2, <1>4, <1>6, <2>1, Zenon
<1>9. From(t, k) = From(s, 2 + k)
  <2>. DEFINE x == From(t, k)
              y == From(s, 2 + k)
  <2>1. /\ x \in Seq(Byte) /\ y \in Seq(Byte) /\ Len(x) = Len(y)
        /\ \A i \in 1 .. Len(x) : x[i] = y[i]
    BY <1>3, <1>4, <1>5, <1>7, Zenon
  <2>. HIDE DEF x, y
  <2>2. x = y
    BY <2>1, SeqEqual, SMT, Z3
  <2>. QED
    BY <2>2, Zenon DEF x, y
<1>10. Upto(t, k) = SubSeq(s, 3, 2 + k)
  <2>. DEFINE x == Upto(t, k)
              y == SubSeq(s, 3, 2 + k)
  <2>1. /\ x \in Seq(Byte) /\ y \in Seq(Byte) /\ Len(x) = Len(y)
        /\ \A i \in 1 .. Len(x) : x[i] = y[i]
    BY <1>4, <1>6, <1>8, Zenon
  <2>. HIDE DEF x, y
  <2>2. x = y
    BY <2>1, SeqEqual, SMT, Z3
  <2>. QED
    BY <2>2, Zenon DEF x, y
<1>. QED
  BY <1>9, <1>10, Zenon DEF t

\* One frame leaves input_buf_ and is passed on.
LEMMA FrameDecoded ==
  ASSUME CodecInv, StreamDecoded, OnMessageFrame
  PROVE  StreamDecoded'
<1>. DEFINE c == Content(input_buf)
            b == retrieve(input_buf, kHeaderSize)
            k == body_len
<1>1. /\ frames' = Append(frames, Upto(Content(b), k)) /\ input_buf' = retrieve(b, k)
      /\ received' = received /\ at' = "parse"
  BY Zenon DEF OnMessageFrame
<1>2. c \in Seq(Byte) /\ Whole(c)
  BY OnMessageSees, Zenon DEF OnMessageFrame
<1>3. BufferOK(input_buf) /\ Len(c) = readable(input_buf)
  BY Parts, ContentSeq, Zenon
<1>4. /\ k \in Nat /\ 2 + k \in 0 .. Len(c) /\ Len(c) \in Nat
      /\ After(c) = From(c, 2 + k) /\ FirstBody(c) = SubSeq(c, 3, 2 + k)
      /\ After(c) \in Seq(Byte) /\ FirstBody(c) \in Seq(Byte)
  BY <1>2, AfterFacts, Zenon DEF After, FirstBody, body_len
<1>. HIDE DEF k
<1>5. kHeaderSize \in 0 .. readable(input_buf) /\ kHeaderSize = 2
  BY <1>3, <1>4 DEF kHeaderSize
<1>6. /\ BufferOK(b) /\ readable(b) = readable(input_buf) - kHeaderSize
      /\ Content(b) = From(c, 2)
  BY <1>3, <1>5, RetrieveDequeues, RetrieveLeaves, Zenon
<1>. HIDE DEF b
<1>7. k \in 0 .. readable(b)
  BY <1>3, <1>4, <1>5, <1>6
<1>8. Content(input_buf') = From(Content(b), k)
  BY <1>1, <1>6, <1>7, RetrieveLeaves, Zenon
<1>. HIDE DEF c
<1>9. From(From(c, 2), k) = From(c, 2 + k) /\ Upto(From(c, 2), k) = SubSeq(c, 3, 2 + k)
  BY <1>2, <1>4, CutTwice, Zenon
<1>10. frames' = Append(frames, FirstBody(c)) /\ Content(input_buf') = After(c)
  BY <1>1, <1>4, <1>6, <1>8, <1>9, Zenon
<1>11. /\ Decode[c].frames = <<FirstBody(c)>> \o Decode[After(c)].frames
       /\ Decode[c].rest = Decode[After(c)].rest
       /\ Decode[After(c)].frames \in Seq(Seq(Byte))
  BY <1>2, <1>4, DecodeAt, Zenon
<1>12. frames' \o Decode[After(c)].frames = frames \o Decode[c].frames
  <2>1. frames \in Seq(Seq(Byte)) /\ <<FirstBody(c)>> \in Seq(Seq(Byte))
    BY <1>4 DEF CodecInv, TypeOK
  <2>2. Append(frames, FirstBody(c)) = frames \o <<FirstBody(c)>>
    BY <1>4, <2>1, AppendIsConcat, Zenon
  <2>3. (frames \o <<FirstBody(c)>>) \o Decode[After(c)].frames
          = frames \o (<<FirstBody(c)>> \o Decode[After(c)].frames)
    BY <1>11, <2>1, ShiftFrames, Zenon
  <2>. QED
    BY <1>10, <1>11, <2>2, <2>3, Zenon
<1>13. frames \o Decode[c].frames = Decode[received].frames /\ Decode[c].rest = Decode[received].rest
  BY Zenon DEF StreamDecoded, c
<1>14. StreamDecoded' <=>
        /\ frames' \o Decode[Content(input_buf')].frames = Decode[received'].frames
        /\ Decode[Content(input_buf')].rest = Decode[received'].rest
        /\ at' = "poll" => /\ Decode[Content(input_buf')].frames = <<>>
                           /\ closed' = Decode[Content(input_buf')].bad
  BY Zenon DEF StreamDecoded
<1>. QED
  BY <1>1, <1>10, <1>11, <1>12, <1>13, <1>14, Zenon

\* on_message() returns with no complete frame left, and has closed the
\* connection exactly if what is left must be refused.
LEMMA ReturnDecoded ==
  ASSUME CodecInv, StreamDecoded, OnMessageWait \/ OnMessageBad
  PROVE  StreamDecoded'
<1>. DEFINE c == Content(input_buf)
<1>1. at = "parse" /\ UNCHANGED <<received, input_buf, frames>>
  BY Zenon DEF OnMessageWait, OnMessageBad
<1>2. closed = FALSE
  BY <1>1, Zenon DEF CodecInv, TypeOK
<1>3. c \in Seq(Byte) /\ ~ Whole(c) /\ closed' = Refused(c)
  <2>1. CASE OnMessageWait
    <3>1. closed' = FALSE /\ ~ Refused(c) /\ ~ Whole(c) /\ c \in Seq(Byte)
      BY <1>2, <2>1, OnMessageSees, Zenon DEF OnMessageWait
    <3>2. Refused(c) = FALSE
      BY <3>1, Zenon DEF Refused
    <3>. QED
      BY <3>1, <3>2, Zenon
  <2>2. CASE OnMessageBad
    <3>1. closed' = TRUE /\ Refused(c) /\ ~ Whole(c) /\ c \in Seq(Byte)
      BY <2>2, OnMessageSees, Zenon DEF OnMessageBad
    <3>2. Refused(c) = TRUE
      BY <3>1, Zenon DEF Refused
    <3>. QED
      BY <3>1, <3>2, Zenon
  <2>. QED
    BY <2>1, <2>2, Zenon
<1>4. Decode[c].frames = <<>> /\ Decode[c].bad = Refused(c)
  BY <1>3, DecodeAt, Zenon
<1>5. Content(input_buf') = c
  BY <1>1, Zenon
<1>6. frames \o Decode[c].frames = Decode[received].frames /\ Decode[c].rest = Decode[received].rest
  BY Zenon DEF StreamDecoded
<1>7. StreamDecoded' <=>
        /\ frames' \o Decode[Content(input_buf')].frames = Decode[received'].frames
        /\ Decode[Content(input_buf')].rest = Decode[received'].rest
        /\ at' = "poll" => /\ Decode[Content(input_buf')].frames = <<>>
                           /\ closed' = Decode[Content(input_buf')].bad
  BY Zenon DEF StreamDecoded
<1>. HIDE DEF c
<1>. QED
  BY <1>1, <1>3, <1>4, <1>5, <1>6, <1>7, Zenon

\* However the stream of bytes is cut into reads, moved and enlarged in the
\* buffer, on_message() passes on exactly the frames of the bytes read, keeps
\* the rest and closes the connection exactly if the rest must be refused; for
\* any sizes, any peer and any bytes.
THEOREM StreamIsDecoded == Spec => []StreamDecoded
<1>1. Init => StreamDecoded
  <2>. SUFFICES ASSUME Init PROVE StreamDecoded
    BY Zenon
  <2>1. received = <<>> /\ Content(input_buf) = <<>> /\ frames = <<>> /\ closed = FALSE
    BY NewBufferEmpty, Zenon DEF Init
  <2>2. <<>> \in Seq(Byte) /\ ~ (Len(<<>>) >= 2)
    BY EmptySeq
  <2>3. ~ Whole(<<>>) /\ Refused(<<>>) = FALSE
    BY <2>2, Zenon DEF Whole, Refused
  <2>4. Decode[<<>>].frames = <<>> /\ Decode[<<>>].bad = FALSE
    BY <2>2, <2>3, DecodeAt, Zenon
  <2>5. <<>> \o <<>> = <<>>
    BY <2>2, ConcatEmptySeq, Zenon
  <2>. QED
    BY <2>1, <2>4, <2>5, Zenon DEF StreamDecoded
<1>2. CodecInv /\ StreamDecoded /\ [Next]_vars => StreamDecoded'
  <2>. SUFFICES ASSUME CodecInv, StreamDecoded, [Next]_vars PROVE StreamDecoded'
    BY Zenon
  <2>1. ASSUME UNCHANGED readVars PROVE StreamDecoded'
    BY <2>1, Zenon DEF readVars, StreamDecoded
  <2>2. CASE HandleRead \/ OnMessage
    BY <2>2, ReadDecoded, FrameDecoded, ReturnDecoded, Zenon DEF OnMessage
  <2>3. CASE (\E body \in Bodies : SendRaw(body)) \/ (\E byte \in Byte : RawWrite(byte)) \/ HandleWrite
    BY <2>1, <2>3, Zenon DEF SendRaw, RawWrite, HandleWrite
  <2>4. CASE UNCHANGED vars
    BY <2>1, <2>4, Zenon DEF vars
  <2>. QED
    BY <2>2, <2>3, <2>4, Zenon DEF Next
<1>. QED
  BY <1>1, <1>2, CodecInvariant, PTL DEF Spec
=============================================================================
