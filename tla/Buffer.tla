------------------------------- MODULE Buffer -------------------------------
(***************************************************************************)
(* utils/Buffer: a vector of bytes with a read and a write index.  The      *)
(* readable bytes lie between the indices; the room in front of them is     *)
(* reused before the vector grows.  Indices count from 0, as in the code;   *)
(* cell i of the vector is cells[i + 1].                                    *)
(***************************************************************************)
EXTENDS Integers, Sequences

CONSTANTS
    kCheapPrepend,  \* room kept in front of a fresh buffer
    kInitialSize,   \* writable bytes of a fresh buffer
    ExtraSize,      \* size of the array on the stack of readFd
    Nil             \* the byte in cells nobody has written

ASSUME BufferAssumption ==
    /\ kCheapPrepend \in Nat
    /\ kInitialSize \in Nat
    /\ ExtraSize \in Nat \ {0}

npos == -1

readableBytes(b) == b.writeIndex - b.readIndex
writableBytes(b) == Len(b.cells) - b.writeIndex
prependableBytes(b) == b.readIndex

(* What a reader finds between peek() and beginWrite(). *)
Readable(b) == [k \in 1..readableBytes(b) |-> b.cells[b.readIndex + k]]

(* A vector of the size given, with the cells of another as far as they go. *)
Resized(cells, size) == [k \in 1..size |-> IF k <= Len(cells) THEN cells[k] ELSE Nil]

(* std::copy of data to the cells from index i on. *)
CopiedTo(cells, i, data) ==
    [k \in 1..Len(cells) |-> IF k \in (i + 1)..(i + Len(data)) THEN data[k - i] ELSE cells[k]]

NewBuffer ==
    [cells |-> Resized(<<>>, kCheapPrepend + kInitialSize),
     readIndex |-> kCheapPrepend, writeIndex |-> kCheapPrepend]

retrieveAll(b) ==
    [cells |-> b.cells, readIndex |-> kCheapPrepend, writeIndex |-> kCheapPrepend]

retrieve(b, len) ==
    IF len < readableBytes(b)
    THEN [cells |-> b.cells, readIndex |-> b.readIndex + len, writeIndex |-> b.writeIndex]
    ELSE retrieveAll(b)

(* Grow at the end, or move the readable bytes to the front. *)
makeSpace(b, len) ==
    IF writableBytes(b) + prependableBytes(b) < len + kCheapPrepend
    THEN [cells |-> Resized(b.cells, b.writeIndex + len),
          readIndex |-> b.readIndex, writeIndex |-> b.writeIndex]
    ELSE [cells |-> CopiedTo(b.cells, kCheapPrepend, Readable(b)),
          readIndex |-> kCheapPrepend, writeIndex |-> kCheapPrepend + readableBytes(b)]

ensureWritableBytes(b, len) == IF writableBytes(b) < len THEN makeSpace(b, len) ELSE b

(* The bytes go where the write index points: there is room for them. *)
Written(b, data) ==
    [cells |-> CopiedTo(b.cells, b.writeIndex, data),
     readIndex |-> b.readIndex, writeIndex |-> b.writeIndex + Len(data)]

append(b, data) == Written(ensureWritableBytes(b, Len(data)), data)

(* Too long a prefix is logged and dropped. *)
prepend(b, data) ==
    IF Len(data) > prependableBytes(b) THEN b
    ELSE [cells |-> CopiedTo(b.cells, b.readIndex - Len(data), data),
          readIndex |-> b.readIndex - Len(data), writeIndex |-> b.writeIndex]

(* The array on the stack takes part in a read when it is larger than the room. *)
ReadLimit(b) ==
    writableBytes(b) + (IF writableBytes(b) < ExtraSize THEN ExtraSize ELSE 0)

(* readv delivers data, of at most ReadLimit(b) bytes. *)
readFd(b, data) ==
    LET writable == writableBytes(b)
    IN  IF Len(data) <= writable THEN Written(b, data)
        ELSE append(Written(b, SubSeq(data, 1, writable)),
                    SubSeq(data, writable + 1, Len(data)))

(* writev takes the first n of the readable bytes. *)
writeFd(b, n) == IF n < readableBytes(b) THEN retrieve(b, n) ELSE retrieveAll(b)

shrink(b, reserve) ==
    LET capacity == kCheapPrepend + readableBytes(b) + reserve
    IN  IF capacity >= Len(b.cells) THEN b
        ELSE [cells |-> CopiedTo(Resized(<<>>, capacity), kCheapPrepend, Readable(b)),
              readIndex |-> kCheapPrepend, writeIndex |-> kCheapPrepend + readableBytes(b)]

(* Offset of the first CR LF at or after start. *)
findCRLF(b, start) ==
    LET found == {k \in start..(readableBytes(b) - 2) :
                     Readable(b)[k + 1] = "CR" /\ Readable(b)[k + 2] = "LF"}
    IN  IF found = {} THEN npos ELSE CHOOSE k \in found : \A j \in found : k <= j

(* A buffer of bytes of S: a vector with two indices into it, in order, and room
   for the prefix that every constructor and every move leaves. *)
Buffers(S) == [cells : Seq(S), readIndex : Nat, writeIndex : Nat]

WellFormed(b) ==
    /\ b.readIndex <= b.writeIndex
    /\ b.writeIndex <= Len(b.cells)
    /\ kCheapPrepend <= Len(b.cells)
=============================================================================
