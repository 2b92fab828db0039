------------------------------- MODULE Buffer -------------------------------
(***************************************************************************)
(* net::Buffer: a vector of bytes with a readable part between two indices,*)
(* moved or enlarged when there is no room behind it.                      *)
(*                                                                         *)
(* A buffer is a record; the operators are the methods of the class, each  *)
(* giving the buffer after the call.  Content(b) is the byte queue that a  *)
(* buffer stands for.                                                      *)
(***************************************************************************)
EXTENDS Integers, Sequences

CONSTANTS Byte,           \* values of a byte; 0 is one of them
          kPrependSize,   \* room kept before the readable part
          kInitialSize,   \* writable bytes of a new buffer
          kExtraSize      \* the 65536 bytes on the stack of read_fd()

ASSUME BufferAssumption ==
    /\ 0 \in Byte
    /\ kPrependSize \in Nat /\ kInitialSize \in Nat /\ kExtraSize \in Nat

\* The readable part lies between the prepend room and the end of buf_.
BufferOK(b) ==
    /\ b \in [buf : Seq(Byte), read_idx : Nat, write_idx : Nat]
    /\ kPrependSize <= b.read_idx
    /\ b.read_idx <= b.write_idx
    /\ b.write_idx <= Len(b.buf)

NewBuffer == [buf       |-> [i \in 1 .. kPrependSize + kInitialSize |-> 0],
              read_idx  |-> kPrependSize,
              write_idx |-> kPrependSize]

readable(b)    == b.write_idx - b.read_idx
writable(b)    == Len(b.buf) - b.write_idx
prependable(b) == b.read_idx

\* peek(), readable() bytes of it.
Content(b) == [i \in 1 .. readable(b) |-> b.buf[b.read_idx + i]]

\* memcpy or memmove of data to offset at; resize() to n bytes, new ones zero.
CopyTo(buf, at, data) ==
    [i \in 1 .. Len(buf) |->
        IF i \in at + 1 .. at + Len(data) THEN data[i - at] ELSE buf[i]]
Resize(buf, n) == [i \in 1 .. n |-> IF i <= Len(buf) THEN buf[i] ELSE 0]

grow(b, len) ==
    IF writable(b) + prependable(b) >= len + kPrependSize
    THEN [buf       |-> CopyTo(b.buf, kPrependSize, Content(b)),
          read_idx  |-> kPrependSize,
          write_idx |-> kPrependSize + readable(b)]
    ELSE [b EXCEPT !.buf = Resize(b.buf, b.write_idx + len)]

ensure_writable(b, len) == IF writable(b) < len THEN grow(b, len) ELSE b

\* memcpy to begin_write(), then has_written().
Written(b, data) == [b EXCEPT !.buf = CopyTo(b.buf, b.write_idx, data),
                              !.write_idx = b.write_idx + Len(data)]

append(b, data) == Written(ensure_writable(b, Len(data)), data)

\* Mutant of reset: gives the prepend room away.
resetBare(b) == [b EXCEPT !.read_idx = 0, !.write_idx = 0]

reset(b) == [b EXCEPT !.read_idx = kPrependSize, !.write_idx = kPrependSize]

\* assert(len <= readable()).
retrieve(b, len) ==
    IF b.read_idx + len = b.write_idx THEN reset(b)
                                      ELSE [b EXCEPT !.read_idx = b.read_idx + len]

\* What one readv() may return: buf_'s writable bytes, and the stack's when
\* these are fewer.
ReadLimit(b) == writable(b) + (IF writable(b) < kExtraSize THEN kExtraSize ELSE 0)

\* Mutant of read_fd: the bytes in extra are not appended.
read_fdShort(b, data) ==
    LET n == writable(b) IN
    IF Len(data) <= n THEN Written(b, data) ELSE Written(b, SubSeq(data, 1, n))

\* read_fd() when readv() has returned the bytes data.
read_fd(b, data) ==
    LET n == writable(b) IN
    IF Len(data) <= n
    THEN Written(b, data)
    ELSE append(Written(b, SubSeq(data, 1, n)), SubSeq(data, n + 1, Len(data)))
=============================================================================
