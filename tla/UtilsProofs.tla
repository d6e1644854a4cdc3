----------------------------- MODULE UtilsProofs -----------------------------
(***************************************************************************)
(* Proofs about four parts that stand on their own.                        *)
(*                                                                         *)
(* Buffer: what each operation does to what a reader finds, for every size *)
(* of the vector, of the prefix, of the array on the stack and of the      *)
(* data: growing, moving and shrinking change nothing, bytes come out in   *)
(* the order in which they went in, the indices stay within the vector.    *)
(*                                                                         *)
(* HttpParser: that the requests arrive as they were sent and as soon as   *)
(* they are complete, for every set of messages, number of them, size of   *)
(* the buffer and way the reads cut the stream.                            *)
(*                                                                         *)
(* AsyncLogger: its invariants and that it refines LogService, for every   *)
(* set of threads, number of calls and size of buffers and files.          *)
(*                                                                         *)
(* RateLimiter: how many requests it lets in, for every limit and period.  *)
(***************************************************************************)
EXTENDS AsyncLogger, HttpParser, RateLimiter, FiniteSetTheorems, SequenceTheorems, TLAPS

-----------------------------------------------------------------------------
(* Buffer. *)

LEMMA FunctionIsSequence ==
    ASSUME NEW S, NEW n \in Nat, NEW f \in [1..n -> S]
    PROVE  f \in Seq(S) /\ Len(f) = n
<1>1. f \in Seq(S)  BY SeqDef
<1>2. Len(f) \in Nat /\ DOMAIN f = 1..Len(f)  BY <1>1, LenProperties
<1>3. DOMAIN f = 1..n  OBVIOUS
<1>4. Len(f) = n  BY <1>2, <1>3, SMT
<1>. QED  BY <1>1, <1>4

LEMMA ReadableBytes ==
    ASSUME NEW S, NEW b \in Buffers(S), WellFormed(b)
    PROVE  /\ readableBytes(b) \in Nat
           /\ Readable(b) \in Seq(S)
           /\ Len(Readable(b)) = readableBytes(b)
           /\ \A k \in 1..readableBytes(b) : Readable(b)[k] = b.cells[b.readIndex + k]
<1>1. b.cells \in Seq(S) /\ b.readIndex \in Nat /\ b.writeIndex \in Nat  BY DEF Buffers
<1>2. Len(b.cells) \in Nat  BY <1>1, LenProperties
<1>3. readableBytes(b) \in Nat  BY <1>1, <1>2 DEF readableBytes, WellFormed
<1>4. \A k \in 1..readableBytes(b) : b.cells[b.readIndex + k] \in S
    <2>. TAKE k \in 1..readableBytes(b)
    <2>1. b.readIndex + k \in 1..Len(b.cells)
        BY <1>1, <1>2 DEF readableBytes, WellFormed
    <2>. QED  BY <1>1, <2>1, ElementOfSeq
<1>5. Readable(b) \in [1..readableBytes(b) -> S]  BY <1>4 DEF Readable
<1>6. Readable(b) \in Seq(S) /\ Len(Readable(b)) = readableBytes(b)
    BY <1>3, <1>5, FunctionIsSequence
<1>. QED  BY <1>3, <1>6 DEF Readable

LEMMA CopiedCells ==
    ASSUME NEW S, NEW cells \in Seq(S), NEW data \in Seq(S), NEW i \in Nat
    PROVE  /\ CopiedTo(cells, i, data) \in Seq(S)
           /\ Len(CopiedTo(cells, i, data)) = Len(cells)
           /\ \A k \in 1..Len(cells) : CopiedTo(cells, i, data)[k]
                  = IF k \in (i + 1)..(i + Len(data)) THEN data[k - i] ELSE cells[k]
<1>1. Len(cells) \in Nat /\ Len(data) \in Nat  BY LenProperties
<1>2. \A k \in 1..Len(cells) :
          (IF k \in (i + 1)..(i + Len(data)) THEN data[k - i] ELSE cells[k]) \in S
    <2>. TAKE k \in 1..Len(cells)
    <2>1. k \in (i + 1)..(i + Len(data)) => k - i \in 1..Len(data)  BY <1>1
    <2>2. k \in (i + 1)..(i + Len(data)) => data[k - i] \in S  BY <2>1, ElementOfSeq
    <2>3. cells[k] \in S  BY ElementOfSeq
    <2>. QED  BY <2>2, <2>3
<1>3. CopiedTo(cells, i, data) \in [1..Len(cells) -> S]  BY <1>2 DEF CopiedTo
<1>4. CopiedTo(cells, i, data) \in Seq(S) /\ Len(CopiedTo(cells, i, data)) = Len(cells)
    BY <1>1, <1>3, FunctionIsSequence
<1>. QED  BY <1>4 DEF CopiedTo

LEMMA ResizedCells ==
    ASSUME NEW S, Nil \in S, NEW cells \in Seq(S), NEW size \in Nat
    PROVE  /\ Resized(cells, size) \in Seq(S)
           /\ Len(Resized(cells, size)) = size
           /\ \A k \in 1..size : k <= Len(cells) => Resized(cells, size)[k] = cells[k]
<1>1. Len(cells) \in Nat  BY LenProperties
<1>2. \A k \in 1..size : (IF k <= Len(cells) THEN cells[k] ELSE Nil) \in S
    <2>. TAKE k \in 1..size
    <2>1. k <= Len(cells) => cells[k] \in S  BY <1>1, ElementOfSeq
    <2>. QED  BY <2>1
<1>3. Resized(cells, size) \in [1..size -> S]  BY <1>2 DEF Resized
<1>4. Resized(cells, size) \in Seq(S) /\ Len(Resized(cells, size)) = size
    BY <1>3, FunctionIsSequence
<1>. QED  BY <1>4 DEF Resized

(* Two buffers hold the same if they do so byte by byte. *)
LEMMA SameBytes ==
    ASSUME NEW S, NEW b \in Buffers(S), WellFormed(b), NEW c \in Buffers(S), WellFormed(c),
           readableBytes(b) = readableBytes(c),
           \A k \in 1..readableBytes(b) : b.cells[b.readIndex + k] = c.cells[c.readIndex + k]
    PROVE  Readable(b) = Readable(c)
BY DEF Readable

-----------------------------------------------------------------------------
(* makeSpace gives room for len bytes and changes nothing that can be read,
   whether it grows the vector or moves the bytes to the front. *)
LEMMA SpaceIsMade ==
    ASSUME NEW S, Nil \in S, NEW b \in Buffers(S), WellFormed(b), NEW len \in Nat,
           writableBytes(b) < len
    PROVE  LET c == makeSpace(b, len)
           IN  /\ c \in Buffers(S) /\ WellFormed(c)
               /\ len <= writableBytes(c)
               /\ readableBytes(c) = readableBytes(b)
               /\ Readable(c) = Readable(b)
<1>. DEFINE c == makeSpace(b, len)
<1>1. b.cells \in Seq(S) /\ b.readIndex \in Nat /\ b.writeIndex \in Nat /\ Len(b.cells) \in Nat
    BY LenProperties DEF Buffers
<1>2. b.readIndex <= b.writeIndex /\ b.writeIndex <= Len(b.cells) /\ kCheapPrepend <= Len(b.cells)
    BY DEF WellFormed
<1>3. readableBytes(b) \in Nat /\ readableBytes(b) = b.writeIndex - b.readIndex
    BY <1>1, <1>2 DEF readableBytes
<1>4. kCheapPrepend \in Nat  BY BufferAssumption
<1>5. CASE writableBytes(b) + prependableBytes(b) < len + kCheapPrepend
    <2>. DEFINE grown == Resized(b.cells, b.writeIndex + len)
    <2>1. c = [cells |-> grown, readIndex |-> b.readIndex, writeIndex |-> b.writeIndex]
        BY <1>5 DEF makeSpace
    <2>2. grown \in Seq(S) /\ Len(grown) = b.writeIndex + len
          /\ \A k \in 1..(b.writeIndex + len) : k <= Len(b.cells) => grown[k] = b.cells[k]
        <3>1. b.writeIndex + len \in Nat  BY <1>1
        <3>. QED  BY <1>1, <3>1, ResizedCells
    <2>3. Len(b.cells) < b.writeIndex + len  BY <1>1 DEF writableBytes
    <2>. HIDE DEF grown
    <2>4. c \in Buffers(S)  BY <1>1, <2>1, <2>2 DEF Buffers
    <2>5. WellFormed(c) /\ len <= writableBytes(c) /\ readableBytes(c) = readableBytes(b)
        BY <1>1, <1>2, <1>4, <2>1, <2>2, <2>3 DEF WellFormed, writableBytes, readableBytes
    <2>6. \A k \in 1..readableBytes(b) : c.cells[c.readIndex + k] = b.cells[b.readIndex + k]
        <3>. TAKE k \in 1..readableBytes(b)
        <3>1. b.readIndex + k \in 1..(b.writeIndex + len) /\ b.readIndex + k <= Len(b.cells)
            BY <1>1, <1>2, <1>3
        <3>2. grown[b.readIndex + k] = b.cells[b.readIndex + k]  BY <2>2, <3>1
        <3>. QED  BY <2>1, <3>2
    <2>. HIDE DEF c
    <2>7. Readable(c) = Readable(b)  BY <2>4, <2>5, <2>6, SameBytes
    <2>. QED  BY <2>4, <2>5, <2>7 DEF c
<1>6. CASE ~ (writableBytes(b) + prependableBytes(b) < len + kCheapPrepend)
    <2>. DEFINE moved == CopiedTo(b.cells, kCheapPrepend, Readable(b))
    <2>1. c = [cells |-> moved, readIndex |-> kCheapPrepend,
               writeIndex |-> kCheapPrepend + readableBytes(b)]
        BY <1>6 DEF makeSpace
    <2>2. Readable(b) \in Seq(S) /\ Len(Readable(b)) = readableBytes(b)
          /\ \A k \in 1..readableBytes(b) : Readable(b)[k] = b.cells[b.readIndex + k]
        BY ReadableBytes
    <2>3. moved \in Seq(S) /\ Len(moved) = Len(b.cells)
          /\ \A k \in 1..Len(b.cells) : moved[k]
                 = IF k \in (kCheapPrepend + 1)..(kCheapPrepend + readableBytes(b))
                   THEN Readable(b)[k - kCheapPrepend] ELSE b.cells[k]
        <3>1. b.cells \in Seq(S) /\ Readable(b) \in Seq(S) /\ kCheapPrepend \in Nat
            BY <1>1, <1>4, <2>2
        <3>2. moved \in Seq(S) /\ Len(moved) = Len(b.cells)
              /\ \A k \in 1..Len(b.cells) : moved[k]
                     = IF k \in (kCheapPrepend + 1)..(kCheapPrepend + Len(Readable(b)))
                       THEN Readable(b)[k - kCheapPrepend] ELSE b.cells[k]
            BY <3>1, CopiedCells
        <3>. HIDE DEF moved
        <3>. QED  BY <2>2, <3>2
    <2>4. kCheapPrepend + readableBytes(b) + len <= Len(b.cells)
        BY <1>1, <1>3, <1>4, <1>6 DEF writableBytes, prependableBytes
    <2>. HIDE DEF moved
    <2>5. c \in Buffers(S)  BY <1>3, <1>4, <2>1, <2>3 DEF Buffers
    <2>6. WellFormed(c) /\ len <= writableBytes(c) /\ readableBytes(c) = readableBytes(b)
        BY <1>1, <1>3, <1>4, <2>1, <2>3, <2>4 DEF WellFormed, writableBytes, readableBytes
    <2>7. \A k \in 1..readableBytes(b) : c.cells[c.readIndex + k] = b.cells[b.readIndex + k]
        <3>. TAKE k \in 1..readableBytes(b)
        <3>1. kCheapPrepend + k \in 1..Len(b.cells)
              /\ kCheapPrepend + k \in (kCheapPrepend + 1)..(kCheapPrepend + readableBytes(b))
              /\ (kCheapPrepend + k) - kCheapPrepend = k
            BY <1>1, <1>3, <1>4, <2>4
        <3>2. moved[kCheapPrepend + k] = Readable(b)[k]  BY <2>3, <3>1
        <3>. QED  BY <2>1, <2>2, <3>2
    <2>. HIDE DEF c
    <2>8. Readable(c) = Readable(b)  BY <2>5, <2>6, <2>7, SameBytes
    <2>. QED  BY <2>5, <2>6, <2>8 DEF c
<1>. QED  BY <1>5, <1>6

LEMMA SpaceIsEnsured ==
    ASSUME NEW S, Nil \in S, NEW b \in Buffers(S), WellFormed(b), NEW len \in Nat
    PROVE  LET c == ensureWritableBytes(b, len)
           IN  /\ c \in Buffers(S) /\ WellFormed(c)
               /\ len <= writableBytes(c)
               /\ Readable(c) = Readable(b)
<1>1. CASE writableBytes(b) < len  BY <1>1, SpaceIsMade DEF ensureWritableBytes
<1>2. CASE ~ (writableBytes(b) < len)
    <2>1. writableBytes(b) \in Int  BY LenProperties DEF Buffers, writableBytes
    <2>. QED  BY <1>2, <2>1 DEF ensureWritableBytes
<1>. QED  BY <1>1, <1>2

(* What is written behind the write index comes after what was there. *)
LEMMA BytesAreWritten ==
    ASSUME NEW S, NEW b \in Buffers(S), WellFormed(b), NEW data \in Seq(S),
           Len(data) <= writableBytes(b)
    PROVE  LET c == Written(b, data)
           IN  /\ c \in Buffers(S) /\ WellFormed(c)
               /\ Readable(c) = Readable(b) \o data
               /\ Len(data) = writableBytes(b) => writableBytes(c) = 0
<1>. DEFINE c == Written(b, data)
            copied == CopiedTo(b.cells, b.writeIndex, data)
<1>1. b.cells \in Seq(S) /\ b.readIndex \in Nat /\ b.writeIndex \in Nat
      /\ Len(b.cells) \in Nat /\ Len(data) \in Nat
    BY LenProperties DEF Buffers
<1>2. b.readIndex <= b.writeIndex /\ b.writeIndex + Len(data) <= Len(b.cells)
      /\ kCheapPrepend <= Len(b.cells)
    BY <1>1 DEF WellFormed, writableBytes
<1>3. c = [cells |-> copied, readIndex |-> b.readIndex, writeIndex |-> b.writeIndex + Len(data)]
    BY DEF Written
<1>4. copied \in Seq(S) /\ Len(copied) = Len(b.cells)
      /\ \A k \in 1..Len(b.cells) : copied[k]
             = IF k \in (b.writeIndex + 1)..(b.writeIndex + Len(data))
               THEN data[k - b.writeIndex] ELSE b.cells[k]
    BY <1>1, CopiedCells
<1>. HIDE DEF copied
<1>5. c \in Buffers(S)  BY <1>1, <1>3, <1>4 DEF Buffers
<1>6. WellFormed(c) /\ (Len(data) = writableBytes(b) => writableBytes(c) = 0)
    BY <1>1, <1>2, <1>3, <1>4 DEF WellFormed, writableBytes
<1>7. readableBytes(b) \in Nat /\ Readable(b) \in Seq(S) /\ Len(Readable(b)) = readableBytes(b)
      /\ readableBytes(b) = b.writeIndex - b.readIndex
      /\ \A k \in 1..readableBytes(b) : Readable(b)[k] = b.cells[b.readIndex + k]
    BY ReadableBytes DEF readableBytes
<1>8. Readable(c) \in Seq(S) /\ Len(Readable(c)) = readableBytes(c)
      /\ \A k \in 1..readableBytes(c) : Readable(c)[k] = c.cells[c.readIndex + k]
    <2>. HIDE DEF c
    <2>. QED  BY <1>5, <1>6, ReadableBytes
<1>9. readableBytes(c) = readableBytes(b) + Len(data)
    BY <1>1, <1>3, <1>7 DEF readableBytes
<1>10. Readable(b) \o data \in Seq(S) /\ Len(Readable(b) \o data) = readableBytes(b) + Len(data)
       /\ \A k \in 1..(readableBytes(b) + Len(data)) : (Readable(b) \o data)[k]
              = IF k <= readableBytes(b) THEN Readable(b)[k] ELSE data[k - readableBytes(b)]
    <2>1. Readable(b) \in Seq(S) /\ Len(Readable(b)) = readableBytes(b)  BY <1>7
    <2>2. /\ Readable(b) \o data \in Seq(S)
          /\ Len(Readable(b) \o data) = Len(Readable(b)) + Len(data)
          /\ \A k \in 1..(Len(Readable(b)) + Len(data)) : (Readable(b) \o data)[k]
                = IF k <= Len(Readable(b)) THEN Readable(b)[k] ELSE data[k - Len(Readable(b))]
        BY <2>1, ConcatProperties
    <2>. QED  BY <2>1, <2>2
<1>11. \A k \in 1..(readableBytes(b) + Len(data)) : Readable(c)[k] = (Readable(b) \o data)[k]
    <2>. TAKE k \in 1..(readableBytes(b) + Len(data))
    <2>1. Readable(c)[k] = copied[b.readIndex + k]  BY <1>3, <1>8, <1>9
    <2>2. b.readIndex + k \in 1..Len(b.cells)  BY <1>1, <1>2, <1>7
    <2>3. CASE k <= readableBytes(b)
        <3>1. b.readIndex + k \notin (b.writeIndex + 1)..(b.writeIndex + Len(data))
            BY <1>1, <1>7, <2>3
        <3>2. copied[b.readIndex + k] = b.cells[b.readIndex + k]  BY <1>4, <2>2, <3>1
        <3>3. Readable(b)[k] = b.cells[b.readIndex + k]  BY <1>7, <2>3
        <3>. QED  BY <1>10, <2>1, <2>3, <3>2, <3>3
    <2>4. CASE ~ (k <= readableBytes(b))
        <3>1. b.readIndex + k \in (b.writeIndex + 1)..(b.writeIndex + Len(data))
              /\ (b.readIndex + k) - b.writeIndex = k - readableBytes(b)
            BY <1>1, <1>7, <2>4
        <3>2. copied[b.readIndex + k] = data[k - readableBytes(b)]  BY <1>4, <2>2, <3>1
        <3>. QED  BY <1>10, <2>1, <2>4, <3>2
    <2>. QED  BY <2>3, <2>4
<1>12. Readable(c) = Readable(b) \o data
    <2>. HIDE DEF c
    <2>. QED  BY <1>8, <1>9, <1>10, <1>11, SeqEqual
<1>. QED  BY <1>5, <1>6, <1>12

-----------------------------------------------------------------------------
(* A fresh Buffer is empty. *)
THEOREM FreshIsEmpty ==
    ASSUME NEW S, Nil \in S
    PROVE  NewBuffer \in Buffers(S) /\ WellFormed(NewBuffer) /\ Readable(NewBuffer) = <<>>
<1>1. kCheapPrepend \in Nat /\ kInitialSize \in Nat /\ kCheapPrepend + kInitialSize \in Nat
    BY BufferAssumption
<1>2. <<>> \in Seq(S)  BY EmptySeq
<1>3. Resized(<<>>, kCheapPrepend + kInitialSize) \in Seq(S)
      /\ Len(Resized(<<>>, kCheapPrepend + kInitialSize)) = kCheapPrepend + kInitialSize
    BY <1>1, <1>2, ResizedCells
<1>4. NewBuffer \in Buffers(S) /\ WellFormed(NewBuffer)
    BY <1>1, <1>3 DEF NewBuffer, Buffers, WellFormed
<1>5. readableBytes(NewBuffer) = 0  BY <1>1 DEF NewBuffer, readableBytes
<1>6. Readable(NewBuffer) \in Seq(S) /\ Len(Readable(NewBuffer)) = 0
    BY <1>4, <1>5, ReadableBytes
<1>. QED  BY <1>4, <1>6, EmptySeq

(* append puts data behind what is there, whether the buffer has the room, grows
   or moves its bytes to the front. *)
THEOREM AppendAppends ==
    ASSUME NEW S, Nil \in S, NEW b \in Buffers(S), WellFormed(b), NEW data \in Seq(S)
    PROVE  LET c == append(b, data)
           IN  c \in Buffers(S) /\ WellFormed(c) /\ Readable(c) = Readable(b) \o data
<1>. DEFINE roomy == ensureWritableBytes(b, Len(data))
<1>1. Len(data) \in Nat  BY LenProperties
<1>2. roomy \in Buffers(S) /\ WellFormed(roomy) /\ Len(data) <= writableBytes(roomy)
      /\ Readable(roomy) = Readable(b)
    BY <1>1, SpaceIsEnsured
<1>. HIDE DEF roomy
<1>3. LET c == Written(roomy, data)
      IN  c \in Buffers(S) /\ WellFormed(c) /\ Readable(c) = Readable(roomy) \o data
    BY <1>2, BytesAreWritten
<1>. QED  BY <1>2, <1>3 DEF append, roomy

(* readFd puts all that readv delivered behind what was there, also when a part
   of it went to the array on the stack. *)
THEOREM ReadFdAppends ==
    ASSUME NEW S, Nil \in S, NEW b \in Buffers(S), WellFormed(b), NEW data \in Seq(S),
           Len(data) <= ReadLimit(b)
    PROVE  LET c == readFd(b, data)
           IN  c \in Buffers(S) /\ WellFormed(c) /\ Readable(c) = Readable(b) \o data
<1>. DEFINE w == writableBytes(b)
            front == SubSeq(data, 1, w)
            rest == SubSeq(data, w + 1, Len(data))
<1>1. Len(data) \in Nat /\ w \in Nat
    BY LenProperties DEF Buffers, WellFormed, writableBytes
<1>2. CASE Len(data) <= w  BY <1>2, BytesAreWritten DEF readFd
<1>3. CASE ~ (Len(data) <= w)
    <2>1. front \in Seq(S) /\ Len(front) = w
        <3>1. \A k \in 1..w : data[k] \in S
            <4>. TAKE k \in 1..w
            <4>1. k \in 1..Len(data)  BY <1>1, <1>3
            <4>. QED  BY <4>1, ElementOfSeq
        <3>2. front \in Seq(S) /\ Len(front) = IF 1 <= w THEN w - 1 + 1 ELSE 0
            BY <1>1, <3>1, SubSeqProperties
        <3>. QED  BY <1>1, <3>2
    <2>2. rest \in Seq(S)
        <3>1. \A k \in (w + 1)..Len(data) : data[k] \in S
            <4>. TAKE k \in (w + 1)..Len(data)
            <4>1. k \in 1..Len(data)  BY <1>1
            <4>. QED  BY <4>1, ElementOfSeq
        <3>2. w + 1 \in Int /\ Len(data) \in Int  BY <1>1
        <3>. QED  BY <3>1, <3>2, SubSeqProperties
    <2>3. front \o rest = data
        <3>1. 1 \in 1..(Len(data) + 1) /\ w \in (1 - 1)..Len(data) /\ Len(data) \in w..Len(data)
            BY <1>1, <1>3
        <3>2. front \o rest = SubSeq(data, 1, Len(data))  BY <3>1, ConcatAdjacentSubSeq
        <3>. QED  BY <3>2, SubSeqFull
    <2>. DEFINE full == Written(b, front)
    <2>4. full \in Buffers(S) /\ WellFormed(full) /\ Readable(full) = Readable(b) \o front
        <3>1. Len(front) <= writableBytes(b)  BY <1>1, <2>1
        <3>. HIDE DEF front
        <3>. QED  BY <2>1, <3>1, BytesAreWritten
    <2>5. readFd(b, data) = append(full, rest)  BY <1>3 DEF readFd
    <2>. HIDE DEF full, front, rest
    <2>6. LET c == append(full, rest)
          IN  c \in Buffers(S) /\ WellFormed(c) /\ Readable(c) = Readable(full) \o rest
        BY <2>2, <2>4, AppendAppends
    <2>7. (Readable(b) \o front) \o rest = Readable(b) \o (front \o rest)
        <3>1. Readable(b) \in Seq(S)  BY ReadableBytes
        <3>. HIDE DEF w
        <3>. QED  BY <2>1, <2>2, <3>1, ConcatAssociative
    <2>. QED  BY <2>3, <2>4, <2>5, <2>6, <2>7
<1>. QED  BY <1>2, <1>3

(* retrieve takes the first len bytes away and leaves the rest as it is. *)
THEOREM RetrieveRetrieves ==
    ASSUME NEW S, NEW b \in Buffers(S), WellFormed(b), NEW len \in 0..readableBytes(b)
    PROVE  LET c == retrieve(b, len)
           IN  /\ c \in Buffers(S) /\ WellFormed(c)
               /\ Readable(c) = SubSeq(Readable(b), len + 1, readableBytes(b))
<1>. DEFINE c == retrieve(b, len)
            rest == SubSeq(Readable(b), len + 1, readableBytes(b))
<1>1. b.cells \in Seq(S) /\ b.readIndex \in Nat /\ b.writeIndex \in Nat
      /\ Len(b.cells) \in Nat /\ kCheapPrepend \in Nat
    BY LenProperties, BufferAssumption DEF Buffers
<1>2. readableBytes(b) \in Nat /\ readableBytes(b) = b.writeIndex - b.readIndex
      /\ Readable(b) \in Seq(S) /\ Len(Readable(b)) = readableBytes(b)
      /\ \A k \in 1..readableBytes(b) : Readable(b)[k] = b.cells[b.readIndex + k]
    BY ReadableBytes DEF readableBytes
<1>3. CASE len < readableBytes(b)
    <2>1. c = [cells |-> b.cells, readIndex |-> b.readIndex + len, writeIndex |-> b.writeIndex]
        BY <1>3 DEF retrieve
    <2>2. c \in Buffers(S) /\ WellFormed(c) /\ readableBytes(c) = readableBytes(b) - len
        BY <1>1, <1>2, <1>3, <2>1 DEF Buffers, WellFormed, readableBytes
    <2>3. Readable(c) \in Seq(S) /\ Len(Readable(c)) = readableBytes(b) - len
          /\ \A k \in 1..(readableBytes(b) - len) : Readable(c)[k] = b.cells[b.readIndex + len + k]
        <3>1. c.cells = b.cells /\ c.readIndex = b.readIndex + len  BY <2>1
        <3>. HIDE DEF c
        <3>. QED  BY <2>2, <3>1, ReadableBytes
    <2>4. rest \in Seq(S) /\ Len(rest) = readableBytes(b) - len
          /\ \A k \in 1..(readableBytes(b) - len) : rest[k] = Readable(b)[len + k]
        <3>1. \A k \in (len + 1)..readableBytes(b) : Readable(b)[k] \in S
            <4>. TAKE k \in (len + 1)..readableBytes(b)
            <4>1. k \in 1..Len(Readable(b))  BY <1>2
            <4>. QED  BY <1>2, <4>1, ElementOfSeq
        <3>2. len + 1 \in Int /\ readableBytes(b) \in Int /\ len + 1 <= readableBytes(b)
            BY <1>2, <1>3
        <3>3. rest \in Seq(S) /\ Len(rest) = readableBytes(b) - (len + 1) + 1
            BY <3>1, <3>2, SubSeqProperties
        <3>4. \A k \in 1..(readableBytes(b) - len) : rest[k] = Readable(b)[len + k]
            <4>. TAKE k \in 1..(readableBytes(b) - len)
            <4>1. k \in 1..(1 + readableBytes(b) - (len + 1)) /\ (len + 1) + k - 1 = len + k
                BY <1>2
            <4>2. rest[k] = Readable(b)[(len + 1) + k - 1]
                BY <3>1, <3>2, <4>1, SubSeqProperties
            <4>. QED  BY <4>1, <4>2
        <3>. QED  BY <1>2, <3>3, <3>4
    <2>5. \A k \in 1..(readableBytes(b) - len) : Readable(c)[k] = rest[k]
        <3>. TAKE k \in 1..(readableBytes(b) - len)
        <3>1. len + k \in 1..readableBytes(b) /\ b.readIndex + (len + k) = b.readIndex + len + k
            BY <1>1, <1>2
        <3>. QED  BY <1>2, <2>3, <2>4, <3>1
    <2>. HIDE DEF c, rest
    <2>6. Readable(c) = rest  BY <2>3, <2>4, <2>5, SeqEqual
    <2>. QED  BY <2>2, <2>6 DEF c, rest
<1>4. CASE ~ (len < readableBytes(b))
    <2>1. c = [cells |-> b.cells, readIndex |-> kCheapPrepend, writeIndex |-> kCheapPrepend]
        BY <1>4 DEF retrieve, retrieveAll
    <2>2. c \in Buffers(S) /\ WellFormed(c) /\ readableBytes(c) = 0
        BY <1>1, <2>1 DEF Buffers, WellFormed, readableBytes
    <2>3. Readable(c) = <<>>
        <3>. HIDE DEF c
        <3>. QED  BY <2>2, ReadableBytes, EmptySeq
    <2>4. rest = <<>>
        <3>1. len + 1 \in Int /\ readableBytes(b) \in Int /\ readableBytes(b) < len + 1
            BY <1>2, <1>4
        <3>. QED  BY <3>1, SubSeqEmpty
    <2>. QED  BY <2>2, <2>3, <2>4
<1>. QED  BY <1>3, <1>4

(* A prefix that fits goes in front of what is there. *)
THEOREM PrependPrepends ==
    ASSUME NEW S, NEW b \in Buffers(S), WellFormed(b), NEW data \in Seq(S),
           Len(data) <= prependableBytes(b)
    PROVE  LET c == prepend(b, data)
           IN  c \in Buffers(S) /\ WellFormed(c) /\ Readable(c) = data \o Readable(b)
<1>. DEFINE c == prepend(b, data)
            from == b.readIndex - Len(data)
            copied == CopiedTo(b.cells, from, data)
<1>1. b.cells \in Seq(S) /\ b.readIndex \in Nat /\ b.writeIndex \in Nat
      /\ Len(b.cells) \in Nat /\ Len(data) \in Nat
    BY LenProperties DEF Buffers
<1>2. from \in Nat /\ from + Len(data) = b.readIndex
    BY <1>1 DEF prependableBytes
<1>3. ~ (Len(data) > prependableBytes(b))  BY <1>1 DEF prependableBytes
<1>4. c = [cells |-> copied, readIndex |-> from, writeIndex |-> b.writeIndex]
    BY <1>3 DEF prepend
<1>5. copied \in Seq(S) /\ Len(copied) = Len(b.cells)
      /\ \A k \in 1..Len(b.cells) : copied[k]
             = IF k \in (from + 1)..(from + Len(data)) THEN data[k - from] ELSE b.cells[k]
    BY <1>1, <1>2, CopiedCells
<1>. HIDE DEF copied, from
<1>6. readableBytes(b) \in Nat /\ Readable(b) \in Seq(S) /\ Len(Readable(b)) = readableBytes(b)
      /\ readableBytes(b) = b.writeIndex - b.readIndex
      /\ \A k \in 1..readableBytes(b) : Readable(b)[k] = b.cells[b.readIndex + k]
    BY ReadableBytes DEF readableBytes
<1>7. c \in Buffers(S)  BY <1>1, <1>2, <1>4, <1>5 DEF Buffers
<1>8. WellFormed(c) /\ readableBytes(c) = Len(data) + readableBytes(b)
    BY <1>1, <1>2, <1>4, <1>5, <1>6 DEF WellFormed, readableBytes
<1>9. Readable(c) \in Seq(S) /\ Len(Readable(c)) = Len(data) + readableBytes(b)
      /\ \A k \in 1..(Len(data) + readableBytes(b)) : Readable(c)[k] = copied[from + k]
    <2>1. c.cells = copied /\ c.readIndex = from  BY <1>4
    <2>. HIDE DEF c
    <2>. QED  BY <1>7, <1>8, <2>1, ReadableBytes
<1>10. data \o Readable(b) \in Seq(S) /\ Len(data \o Readable(b)) = Len(data) + readableBytes(b)
       /\ \A k \in 1..(Len(data) + readableBytes(b)) : (data \o Readable(b))[k]
              = IF k <= Len(data) THEN data[k] ELSE Readable(b)[k - Len(data)]
    <2>1. Readable(b) \in Seq(S) /\ Len(Readable(b)) = readableBytes(b)  BY <1>6
    <2>2. /\ data \o Readable(b) \in Seq(S)
          /\ Len(data \o Readable(b)) = Len(data) + Len(Readable(b))
          /\ \A k \in 1..(Len(data) + Len(Readable(b))) : (data \o Readable(b))[k]
                = IF k <= Len(data) THEN data[k] ELSE Readable(b)[k - Len(data)]
        BY <2>1, ConcatProperties
    <2>. QED  BY <2>1, <2>2
<1>11. \A k \in 1..(Len(data) + readableBytes(b)) : Readable(c)[k] = (data \o Readable(b))[k]
    <2>. TAKE k \in 1..(Len(data) + readableBytes(b))
    <2>1. Readable(c)[k] = copied[from + k]  BY <1>9
    <2>2. from + k \in 1..Len(b.cells)  BY <1>1, <1>2, <1>6 DEF WellFormed
    <2>3. CASE k <= Len(data)
        <3>1. from + k \in (from + 1)..(from + Len(data)) /\ (from + k) - from = k
            BY <1>1, <1>2, <2>3
        <3>2. copied[from + k] = data[k]  BY <1>5, <2>2, <3>1
        <3>. QED  BY <1>10, <2>1, <2>3, <3>2
    <2>4. CASE ~ (k <= Len(data))
        <3>1. from + k \notin (from + 1)..(from + Len(data))
              /\ k - Len(data) \in 1..readableBytes(b)
              /\ b.readIndex + (k - Len(data)) = from + k
            <4>1. k \in Nat /\ Len(data) < k /\ k <= Len(data) + readableBytes(b)
                BY <1>1, <1>6, <2>4
            <4>. QED  BY <1>1, <1>2, <1>6, <4>1
        <3>2. copied[from + k] = b.cells[from + k]  BY <1>5, <2>2, <3>1
        <3>3. Readable(b)[k - Len(data)] = b.cells[from + k]  BY <1>6, <3>1
        <3>. QED  BY <1>10, <2>1, <2>4, <3>2, <3>3
    <2>. QED  BY <2>3, <2>4
<1>12. Readable(c) = data \o Readable(b)
    <2>. HIDE DEF c
    <2>. QED  BY <1>9, <1>10, <1>11, SeqEqual
<1>. QED  BY <1>7, <1>8, <1>12

(* shrink gives memory back and changes nothing that can be read. *)
THEOREM ShrinkKeeps ==
    ASSUME NEW S, Nil \in S, NEW b \in Buffers(S), WellFormed(b), NEW reserve \in Nat
    PROVE  LET c == shrink(b, reserve)
           IN  c \in Buffers(S) /\ WellFormed(c) /\ Readable(c) = Readable(b)
<1>. DEFINE c == shrink(b, reserve)
            capacity == kCheapPrepend + readableBytes(b) + reserve
            fresh == Resized(<<>>, capacity)
            copied == CopiedTo(fresh, kCheapPrepend, Readable(b))
<1>1. readableBytes(b) \in Nat /\ Readable(b) \in Seq(S) /\ Len(Readable(b)) = readableBytes(b)
      /\ \A k \in 1..readableBytes(b) : Readable(b)[k] = b.cells[b.readIndex + k]
    BY ReadableBytes
<1>2. kCheapPrepend \in Nat /\ capacity \in Nat  BY <1>1, BufferAssumption
<1>3. CASE capacity >= Len(b.cells)  BY <1>3 DEF shrink
<1>4. CASE ~ (capacity >= Len(b.cells))
    <2>1. c = [cells |-> copied, readIndex |-> kCheapPrepend,
               writeIndex |-> kCheapPrepend + readableBytes(b)]
        BY <1>4 DEF shrink
    <2>2. fresh \in Seq(S) /\ Len(fresh) = capacity
        BY <1>2, EmptySeq, ResizedCells
    <2>. HIDE DEF fresh
    <2>3. copied \in Seq(S) /\ Len(copied) = capacity
          /\ \A k \in 1..capacity : copied[k]
                 = IF k \in (kCheapPrepend + 1)..(kCheapPrepend + readableBytes(b))
                   THEN Readable(b)[k - kCheapPrepend] ELSE fresh[k]
        <3>1. fresh \in Seq(S) /\ Readable(b) \in Seq(S) /\ kCheapPrepend \in Nat
            BY <1>1, <1>2, <2>2
        <3>2. copied \in Seq(S) /\ Len(copied) = Len(fresh)
              /\ \A k \in 1..Len(fresh) : copied[k]
                     = IF k \in (kCheapPrepend + 1)..(kCheapPrepend + Len(Readable(b)))
                       THEN Readable(b)[k - kCheapPrepend] ELSE fresh[k]
            BY <3>1, CopiedCells
        <3>. HIDE DEF copied
        <3>. QED  BY <1>1, <2>2, <3>2
    <2>. HIDE DEF copied
    <2>4. c \in Buffers(S)  BY <1>1, <1>2, <2>1, <2>3 DEF Buffers
    <2>5. WellFormed(c) /\ readableBytes(c) = readableBytes(b)
        BY <1>1, <1>2, <2>1, <2>3 DEF WellFormed, readableBytes
    <2>6. \A k \in 1..readableBytes(b) : c.cells[c.readIndex + k] = b.cells[b.readIndex + k]
        <3>. TAKE k \in 1..readableBytes(b)
        <3>1. kCheapPrepend + k \in 1..capacity
              /\ kCheapPrepend + k \in (kCheapPrepend + 1)..(kCheapPrepend + readableBytes(b))
              /\ (kCheapPrepend + k) - kCheapPrepend = k
            BY <1>1, <1>2
        <3>2. copied[kCheapPrepend + k] = Readable(b)[k]  BY <2>3, <3>1
        <3>. QED  BY <1>1, <2>1, <3>2
    <2>. HIDE DEF c
    <2>7. Readable(c) = Readable(b)  BY <2>4, <2>5, <2>6, SameBytes
    <2>. QED  BY <2>4, <2>5, <2>7 DEF c
<1>. QED  BY <1>3, <1>4

-----------------------------------------------------------------------------
(* HttpParser. *)

(* Where message i begins in the stream: it needs no recursion, ends being known. *)
StartOf(i) == IF i = 1 THEN 0 ELSE ends[i - 1]

(* The message the parser is at, and how far into the stream it is. *)
Current == Len(handed) + 1
Coming == sent[Current]
Position == arrived - readableBytes(inputBuffer)

BodyAt(m) == 3 * Len(m.fields) + 5      \* the bytes of m before its body

ContextTypes ==
    [state : {"kExpectRequestLine", "kExpectHeaders", "kExpectBody", "kGotAll", "kError"},
     head : LineBytes \cup {""}, fields : Seq(LineBytes), body : Seq(Bytes)]

ParserTypes ==
    /\ sent \in Seq(Messages) /\ handed \in Seq(Messages)
    /\ stream \in Seq(Bytes) /\ arrived \in 0..Len(stream)
    /\ ends \in Seq(Nat) /\ Len(ends) = Len(sent)
    /\ inputBuffer \in Buffers(Bytes \cup {Nil}) /\ WellFormed(inputBuffer)
    /\ context \in ContextTypes
    /\ parsing \in BOOLEAN /\ closed \in BOOLEAN

(* The stream is the messages one after the other. *)
Framed ==
    /\ Len(stream) = StartOf(Len(sent) + 1)
    /\ \A i \in 1..Len(sent) :
          /\ ends[i] = StartOf(i) + Len(Encoded(sent[i]))
          /\ ends[i] <= Len(stream)
          /\ \A k \in 1..Len(Encoded(sent[i])) : stream[StartOf(i) + k] = Encoded(sent[i])[k]

(* The buffer holds what has arrived from Position on. *)
BufferHolds ==
    /\ Position \in Nat
    /\ \A k \in 1..readableBytes(inputBuffer) : Readable(inputBuffer)[k] = stream[Position + k]

HandedInOrder ==
    /\ Len(handed) <= Len(sent)
    /\ \A i \in 1..Len(handed) : handed[i] = sent[i]

(* What the parser has taken of the coming message, by the state it is in. *)
AtRequestLine ==
    /\ Position = StartOf(Current)
    /\ context.fields = <<>> /\ context.body = <<>>
    /\ parsing => readableBytes(inputBuffer) > 0

AtHeaders ==
    /\ Coming.head \in RequestLines /\ context.head = Coming.head /\ context.body = <<>>
    /\ Len(context.fields) <= Len(Coming.fields)
    /\ \A j \in 1..Len(context.fields) :
          /\ context.fields[j] = Coming.fields[j]
          /\ Coming.fields[j] \in Lengths \cup OtherHeaders
    /\ Position = StartOf(Current) + 3 + 3 * Len(context.fields)

AtBody ==
    /\ context.head = Coming.head /\ context.fields = Coming.fields
    /\ ~ Malformed(Coming)
    /\ Len(Coming.body) > 0
    /\ Position = StartOf(Current) + BodyAt(Coming)

AtEnd ==
    /\ context.head = Coming.head /\ context.fields = Coming.fields /\ context.body = Coming.body
    /\ Position = ends[Current]
    /\ parsing

Progress ==
    /\ context.state = "kExpectRequestLine" => AtRequestLine
    /\ context.state # "kExpectRequestLine" => Current <= Len(sent)
    /\ context.state = "kExpectHeaders" => AtHeaders
    /\ context.state = "kExpectBody" => AtBody
    /\ context.state = "kGotAll" => AtEnd
    /\ context.state = "kError" => Malformed(Coming) /\ (parsing \/ closed)
    /\ closed => context.state = "kError" /\ ~ parsing

ParserInv == ParserTypes /\ Framed /\ BufferHolds /\ HandedInOrder /\ Progress

(* The arithmetic of three bytes to a line. *)
LEMMA Thirds ==
    /\ \A j \in Nat : /\ (3 * j + 1) % 3 = 1 /\ (3 * j + 2) % 3 = 2 /\ (3 * j + 3) % 3 = 0
                      /\ (3 * j + 1 + 2) \div 3 = j + 1
    /\ \A k, n \in Nat : k \in 1..(3 * n) => (k + 2) \div 3 \in 1..n
OBVIOUS

(* A message on the wire: its lines three bytes apart, an empty line, the body. *)
LEMMA EncodedBytes ==
    ASSUME NEW m \in Messages
    PROVE  /\ m.fields \in Seq(LineBytes) /\ m.body \in Seq(Bytes) /\ m.head \in LineBytes
           /\ Len(m.fields) \in Nat /\ Len(m.body) \in Nat
           /\ Encoded(m) \in Seq(Bytes)
           /\ Len(Encoded(m)) = BodyAt(m) + Len(m.body)
           /\ Encoded(m)[1] = m.head /\ Encoded(m)[2] = "CR" /\ Encoded(m)[3] = "LF"
           /\ \A j \in 1..Len(m.fields) : /\ Encoded(m)[3 * j + 1] = m.fields[j]
                                          /\ Encoded(m)[3 * j + 2] = "CR"
                                          /\ Encoded(m)[3 * j + 3] = "LF"
           /\ Encoded(m)[BodyAt(m) - 1] = "CR" /\ Encoded(m)[BodyAt(m)] = "LF"
           /\ \A k \in 1..Len(m.body) : Encoded(m)[BodyAt(m) + k] = m.body[k]
<1>1. m.fields \in Seq(LineBytes) /\ m.body \in Seq(Bytes) /\ m.head \in LineBytes
    BY MessagesAssumption
<1>2. PICK n \in Nat, size \in Nat : n = Len(m.fields) /\ size = Len(m.body)
    BY <1>1, LenProperties
<1>. DEFINE lines == <<m.head>> \o m.fields
            front == [k \in 1..(3 * Len(lines)) |-> CASE k % 3 = 1 -> lines[(k + 2) \div 3]
                                                      [] k % 3 = 2 -> "CR"
                                                      [] OTHER -> "LF"]
            empty == <<"CR", "LF">>
<1>3. /\ lines \in Seq(LineBytes) /\ Len(lines) = n + 1
      /\ lines[1] = m.head
      /\ \A j \in 1..n : lines[j + 1] = m.fields[j]
    <2>1. <<m.head>> \in Seq(LineBytes) /\ Len(<<m.head>>) = 1 /\ <<m.head>>[1] = m.head
        BY <1>1
    <2>2. /\ lines \in Seq(LineBytes) /\ Len(lines) = 1 + n
          /\ \A i \in 1..(1 + n) : lines[i] = IF i <= 1 THEN <<m.head>>[i] ELSE m.fields[i - 1]
        BY <1>1, <1>2, <2>1, ConcatProperties
    <2>3. ASSUME NEW j \in 1..n PROVE lines[j + 1] = m.fields[j]
        <3>1. j + 1 \in 1..(1 + n) /\ ~ (j + 1 <= 1) /\ (j + 1) - 1 = j
            OBVIOUS
        <3>. QED  BY <2>2, <3>1
    <2>. QED  BY <2>1, <2>2, <2>3
<1>. HIDE DEF lines
<1>4. front \in Seq(Bytes) /\ Len(front) = 3 * n + 3
    <2>1. ASSUME NEW k \in 1..(3 * Len(lines)) PROVE front[k] \in Bytes
        <3>1. (k + 2) \div 3 \in 1..Len(lines)
            BY <1>3, Thirds
        <3>2. lines[(k + 2) \div 3] \in Bytes
            BY <1>3, <3>1, ElementOfSeq DEF LineBytes
        <3>. QED  BY <3>2, MessagesAssumption
    <2>2. front \in [1..(3 * Len(lines)) -> Bytes]
        BY <2>1
    <2>. HIDE DEF front
    <2>3. 3 * Len(lines) \in Nat /\ 3 * Len(lines) = 3 * n + 3
        BY <1>3
    <2>. QED  BY <2>2, <2>3, FunctionIsSequence
<1>5. \A j \in 0..n : /\ front[3 * j + 1] = lines[j + 1]
                      /\ front[3 * j + 2] = "CR"
                      /\ front[3 * j + 3] = "LF"
    <2>. TAKE j \in 0..n
    <2>1. 3 * j + 1 \in 1..(3 * Len(lines)) /\ 3 * j + 2 \in 1..(3 * Len(lines))
          /\ 3 * j + 3 \in 1..(3 * Len(lines)) /\ j \in Nat
        BY <1>3
    <2>2. (3 * j + 1) % 3 = 1 /\ (3 * j + 2) % 3 = 2 /\ (3 * j + 3) % 3 = 0
          /\ (3 * j + 1 + 2) \div 3 = j + 1
        BY <2>1, Thirds
    <2>3. front[3 * j + 1] = lines[j + 1]
        BY <2>1, <2>2
    <2>4. front[3 * j + 2] = "CR"
        BY <2>1, <2>2
    <2>5. front[3 * j + 3] = "LF"
        <3>1. ~ ((3 * j + 3) % 3 = 1) /\ ~ ((3 * j + 3) % 3 = 2)
            BY <2>2
        <3>. QED  BY <2>1, <3>1
    <2>. QED  BY <2>3, <2>4, <2>5
<1>. HIDE DEF front
<1>6. empty \in Seq(Bytes) /\ Len(empty) = 2 /\ empty[1] = "CR" /\ empty[2] = "LF"
    BY MessagesAssumption
<1>. HIDE DEF empty
<1>7. /\ front \o empty \in Seq(Bytes) /\ Len(front \o empty) = 3 * n + 5
      /\ \A i \in 1..(3 * n + 5) : (front \o empty)[i] = IF i <= 3 * n + 3 THEN front[i]
                                                         ELSE empty[i - (3 * n + 3)]
    <2>1. /\ front \o empty \in Seq(Bytes) /\ Len(front \o empty) = Len(front) + Len(empty)
          /\ \A i \in 1..(Len(front) + Len(empty)) :
                (front \o empty)[i] = IF i <= Len(front) THEN front[i] ELSE empty[i - Len(front)]
        BY <1>4, <1>6, ConcatProperties
    <2>2. Len(front) + Len(empty) = 3 * n + 5
        BY <1>4, <1>6
    <2>. QED  BY <1>4, <2>1, <2>2
<1>. DEFINE opening == front \o empty
<1>8. Encoded(m) = opening \o m.body
    BY DEF Encoded, front, empty, lines
<1>. HIDE DEF opening
<1>9. /\ Encoded(m) \in Seq(Bytes) /\ Len(Encoded(m)) = 3 * n + 5 + size
      /\ \A i \in 1..(3 * n + 5 + size) :
            Encoded(m)[i] = IF i <= 3 * n + 5 THEN opening[i] ELSE m.body[i - (3 * n + 5)]
    <2>1. /\ opening \o m.body \in Seq(Bytes)
          /\ Len(opening \o m.body) = Len(opening) + Len(m.body)
          /\ \A i \in 1..(Len(opening) + Len(m.body)) :
                (opening \o m.body)[i] = IF i <= Len(opening) THEN opening[i]
                                                  ELSE m.body[i - Len(opening)]
        <3>1. opening \in Seq(Bytes)
            BY <1>7 DEF opening
        <3>. QED  BY <1>1, <3>1, ConcatProperties
    <2>2. Len(opening) = 3 * n + 5 /\ Len(m.body) = size
        BY <1>2, <1>7 DEF opening
    <2>. QED  BY <1>8, <2>1, <2>2
<1>10. \A i \in 1..(3 * n + 3) : Encoded(m)[i] = front[i]
    <2>. TAKE i \in 1..(3 * n + 3)
    <2>1. i \in 1..(3 * n + 5) /\ i \in 1..(3 * n + 5 + size) /\ i <= 3 * n + 5 /\ i <= 3 * n + 3
        OBVIOUS
    <2>. QED  BY <1>7, <1>9, <2>1 DEF opening
<1>11. \A j \in 0..n : /\ Encoded(m)[3 * j + 1] = lines[j + 1]
                       /\ Encoded(m)[3 * j + 2] = "CR"
                       /\ Encoded(m)[3 * j + 3] = "LF"
    <2>. TAKE j \in 0..n
    <2>1. 3 * j + 1 \in 1..(3 * n + 3) /\ 3 * j + 2 \in 1..(3 * n + 3) /\ 3 * j + 3 \in 1..(3 * n + 3)
        OBVIOUS
    <2>. QED  BY <1>5, <1>10, <2>1
<1>12. Encoded(m)[1] = m.head /\ Encoded(m)[2] = "CR" /\ Encoded(m)[3] = "LF"
    <2>1. 0 \in 0..n /\ 3 * 0 + 1 = 1 /\ 3 * 0 + 2 = 2 /\ 3 * 0 + 3 = 3 /\ 0 + 1 = 1
        OBVIOUS
    <2>. QED  BY <1>3, <1>11, <2>1
<1>13. \A j \in 1..n : /\ Encoded(m)[3 * j + 1] = m.fields[j]
                       /\ Encoded(m)[3 * j + 2] = "CR"
                       /\ Encoded(m)[3 * j + 3] = "LF"
    <2>. TAKE j \in 1..n
    <2>1. j \in 0..n  OBVIOUS
    <2>. QED  BY <1>3, <1>11, <2>1
<1>14. Encoded(m)[3 * n + 4] = "CR" /\ Encoded(m)[3 * n + 5] = "LF"
    <2>. DEFINE cr == 3 * n + 4
                lf == 3 * n + 5
    <2>1. /\ cr \in 1..(3 * n + 5 + size) /\ cr \in 1..(3 * n + 5) /\ cr <= 3 * n + 5
          /\ ~ (cr <= 3 * n + 3) /\ cr - (3 * n + 3) = 1
        OBVIOUS
    <2>2. /\ lf \in 1..(3 * n + 5 + size) /\ lf \in 1..(3 * n + 5) /\ lf <= 3 * n + 5
          /\ ~ (lf <= 3 * n + 3) /\ lf - (3 * n + 3) = 2
        OBVIOUS
    <2>. HIDE DEF cr, lf
    <2>3. Encoded(m)[cr] = opening[cr] /\ Encoded(m)[lf] = opening[lf]
        BY <1>9, <2>1, <2>2
    <2>4. opening[cr] = empty[1] /\ opening[lf] = empty[2]
        BY <1>7, <2>1, <2>2 DEF opening
    <2>. QED  BY <1>6, <2>3, <2>4 DEF cr, lf
<1>15. \A k \in 1..size : Encoded(m)[3 * n + 5 + k] = m.body[k]
    <2>. TAKE k \in 1..size
    <2>1. /\ 3 * n + 5 + k \in 1..(3 * n + 5 + size) /\ ~ (3 * n + 5 + k <= 3 * n + 5)
          /\ 3 * n + 5 + k - (3 * n + 5) = k
        OBVIOUS
    <2>. QED  BY <1>9, <2>1
<1>16. BodyAt(m) = 3 * n + 5 /\ BodyAt(m) - 1 = 3 * n + 4
    BY <1>2 DEF BodyAt
<1>. QED  BY <1>1, <1>2, <1>9, <1>12, <1>13, <1>14, <1>15, <1>16

(* findCRLF on a buffer whose first bytes are an empty line. *)
LEMMA FindsEmptyLine ==
    ASSUME NEW b, readableBytes(b) \in Nat,
           readableBytes(b) >= 2 => Readable(b)[1] = "CR" /\ Readable(b)[2] = "LF"
    PROVE  findCRLF(b, 0) = IF readableBytes(b) >= 2 THEN 0 ELSE npos
<1>. DEFINE found == {k \in 0..(readableBytes(b) - 2) :
                         Readable(b)[k + 1] = "CR" /\ Readable(b)[k + 2] = "LF"}
<1>1. findCRLF(b, 0) = IF found = {} THEN npos ELSE CHOOSE k \in found : \A j \in found : k <= j
    BY DEF findCRLF
<1>2. CASE readableBytes(b) >= 2
    <2>1. 0 \in found
        BY <1>2
    <2>2. \A j \in found : j \in Int /\ 0 <= j
        OBVIOUS
    <2>. HIDE DEF found
    <2>3. \A k \in found : (\A j \in found : k <= j) => k = 0
        BY <2>1, <2>2
    <2>. QED  BY <1>1, <1>2, <2>1, <2>2, <2>3
<1>3. CASE ~ (readableBytes(b) >= 2)
    <2>1. found = {}
        BY <1>3
    <2>. QED  BY <1>1, <1>3, <2>1
<1>. QED  BY <1>2, <1>3

(* The same where they are a line and its end. *)
LEMMA FindsLine ==
    ASSUME NEW b, readableBytes(b) \in Nat,
           readableBytes(b) >= 1 => Readable(b)[1] # "CR",
           readableBytes(b) >= 3 => Readable(b)[2] = "CR" /\ Readable(b)[3] = "LF"
    PROVE  findCRLF(b, 0) = IF readableBytes(b) >= 3 THEN 1 ELSE npos
<1>. DEFINE found == {k \in 0..(readableBytes(b) - 2) :
                         Readable(b)[k + 1] = "CR" /\ Readable(b)[k + 2] = "LF"}
<1>1. findCRLF(b, 0) = IF found = {} THEN npos ELSE CHOOSE k \in found : \A j \in found : k <= j
    BY DEF findCRLF
<1>2. \A j \in found : j \in Int /\ 1 <= j /\ j + 2 <= readableBytes(b)
    <2>. TAKE j \in found
    <2>1. j \in 0..(readableBytes(b) - 2) /\ Readable(b)[j + 1] = "CR"
        OBVIOUS
    <2>2. readableBytes(b) >= 1
        BY <2>1
    <2>3. j # 0
        <3>. SUFFICES ASSUME j = 0 PROVE FALSE
            OBVIOUS
        <3>1. j + 1 = 1
            OBVIOUS
        <3>. QED  BY <2>1, <2>2, <3>1
    <2>. QED  BY <2>1, <2>3
<1>3. CASE readableBytes(b) >= 3
    <2>1. 1 \in found
        BY <1>3
    <2>. HIDE DEF found
    <2>2. \A k \in found : (\A j \in found : k <= j) => k = 1
        BY <1>2, <2>1
    <2>. QED  BY <1>1, <1>2, <1>3, <2>1, <2>2
<1>4. CASE ~ (readableBytes(b) >= 3)
    <2>1. found = {}
        <3>. HIDE DEF found
        <3>1. \A j \in found : FALSE
            BY <1>2, <1>4
        <3>. QED  BY <3>1
    <2>. QED  BY <1>1, <1>4, <2>1
<1>. QED  BY <1>3, <1>4

-----------------------------------------------------------------------------
(* What the parser finds in the buffer of the message that is coming. *)

(* What the types say of the numbers the other lemmas count with. *)
LEMMA StartTypes ==
    ASSUME ParserTypes
    PROVE  /\ Len(sent) \in Nat /\ Len(handed) \in Nat /\ Len(stream) \in Nat /\ arrived \in Nat
           /\ \A i \in 1..(Len(sent) + 1) : StartOf(i) \in Nat
           /\ \A i \in 1..Len(sent) : ends[i] \in Nat /\ StartOf(i + 1) = ends[i] /\ sent[i] \in Messages
           /\ readableBytes(inputBuffer) \in Nat
           /\ Readable(inputBuffer) \in Seq(Bytes \cup {Nil})
           /\ Len(Readable(inputBuffer)) = readableBytes(inputBuffer)
<1>1. Len(sent) \in Nat /\ Len(handed) \in Nat /\ Len(stream) \in Nat
    BY LenProperties DEF ParserTypes
<1>2. arrived \in Nat
    BY <1>1 DEF ParserTypes
<1>3. \A i \in 1..Len(sent) : ends[i] \in Nat /\ sent[i] \in Messages
    BY ElementOfSeq DEF ParserTypes
<1>4. \A i \in 1..(Len(sent) + 1) : StartOf(i) \in Nat
    <2>. TAKE i \in 1..(Len(sent) + 1)
    <2>1. i # 1 => i - 1 \in 1..Len(sent)
        BY <1>1
    <2>. QED  BY <1>3, <2>1 DEF StartOf
<1>5. \A i \in 1..Len(sent) : StartOf(i + 1) = ends[i]
    <2>. TAKE i \in 1..Len(sent)
    <2>1. i + 1 # 1 /\ (i + 1) - 1 = i
        BY <1>1
    <2>. QED  BY <2>1 DEF StartOf
<1>6. /\ readableBytes(inputBuffer) \in Nat
      /\ Readable(inputBuffer) \in Seq(Bytes \cup {Nil})
      /\ Len(Readable(inputBuffer)) = readableBytes(inputBuffer)
    BY ReadableBytes DEF ParserTypes
<1>. QED  BY <1>1, <1>2, <1>3, <1>4, <1>5, <1>6

(* The bytes that can be read are those of the coming message from where the parser
   is in it. *)
LEMMA BytesOfComing ==
    ASSUME ParserTypes, Framed, BufferHolds, Current <= Len(sent),
           NEW o \in Nat, Position = StartOf(Current) + o
    PROVE  \A k \in 1..readableBytes(inputBuffer) :
              o + k <= Len(Encoded(Coming)) => Readable(inputBuffer)[k] = Encoded(Coming)[o + k]
<1>1. Current \in 1..Len(sent) /\ Current \in 1..(Len(sent) + 1)
    BY StartTypes DEF Current
<1>2. \A k \in 1..Len(Encoded(Coming)) : stream[StartOf(Current) + k] = Encoded(Coming)[k]
    BY <1>1 DEF Framed, Coming
<1>3. StartOf(Current) \in Nat /\ readableBytes(inputBuffer) \in Nat
    BY <1>1, StartTypes
<1>4. Coming \in Messages /\ Len(Encoded(Coming)) \in Nat
    <2>1. Coming \in Messages
        BY <1>1, StartTypes DEF Coming
    <2>. QED  BY <2>1, EncodedBytes, LenProperties
<1>. TAKE k \in 1..readableBytes(inputBuffer)
<1>. HAVE o + k <= Len(Encoded(Coming))
<1>5. Readable(inputBuffer)[k] = stream[Position + k]
    BY DEF BufferHolds
<1>6. o + k \in 1..Len(Encoded(Coming)) /\ Position + k = StartOf(Current) + (o + k)
    BY <1>3, <1>4
<1>. QED  BY <1>2, <1>5, <1>6

(* The parser is at a line of the coming message. *)
LEMMA AtLine ==
    ASSUME ParserTypes, Framed, BufferHolds, Current <= Len(sent),
           NEW o \in Nat, Position = StartOf(Current) + o,
           o + 3 <= Len(Encoded(Coming)),
           NEW line \in LineBytes,
           Encoded(Coming)[o + 1] = line, Encoded(Coming)[o + 2] = "CR", Encoded(Coming)[o + 3] = "LF"
    PROVE  /\ findCRLF(inputBuffer, 0) = IF readableBytes(inputBuffer) >= 3 THEN 1 ELSE npos
           /\ LineHasCome => readableBytes(inputBuffer) >= 3 /\ FirstLine = <<line>>
<1>. DEFINE r == readableBytes(inputBuffer)
<1>1. r \in Nat /\ Readable(inputBuffer) \in Seq(Bytes \cup {Nil}) /\ Len(Readable(inputBuffer)) = r
    BY StartTypes
<1>2. Len(Encoded(Coming)) \in Nat
    <2>1. Coming \in Messages
        BY StartTypes DEF Coming, Current
    <2>. QED  BY <2>1, EncodedBytes, LenProperties
<1>3. \A k \in 1..r : k <= 3 => Readable(inputBuffer)[k] = Encoded(Coming)[o + k]
    <2>. TAKE k \in 1..r
    <2>. HAVE k <= 3
    <2>1. o + k <= Len(Encoded(Coming))
        BY <1>1, <1>2
    <2>. QED  BY <2>1, BytesOfComing
<1>4. r >= 1 => Readable(inputBuffer)[1] = line
    <2>1. r >= 1 => 1 \in 1..r
        BY <1>1
    <2>. QED  BY <1>3, <2>1
<1>5. r >= 3 => Readable(inputBuffer)[2] = "CR" /\ Readable(inputBuffer)[3] = "LF"
    <2>1. r >= 3 => 2 \in 1..r /\ 3 \in 1..r
        BY <1>1
    <2>. QED  BY <1>3, <2>1
<1>6. line # "CR"
    BY DEF LineBytes
<1>7. findCRLF(inputBuffer, 0) = IF r >= 3 THEN 1 ELSE npos
    BY <1>1, <1>4, <1>5, <1>6, FindsLine
<1>8. ASSUME LineHasCome PROVE r >= 3 /\ FirstLine = <<line>>
    <2>1. r >= 3 /\ findCRLF(inputBuffer, 0) = 1
        BY <1>7, <1>8 DEF LineHasCome, npos
    <2>2. FirstLine = SubSeq(Readable(inputBuffer), 1, 1)
        BY <2>1 DEF FirstLine
    <2>3. /\ SubSeq(Readable(inputBuffer), 1, 1) \in Seq(Bytes \cup {Nil})
          /\ Len(SubSeq(Readable(inputBuffer), 1, 1)) = 1
          /\ SubSeq(Readable(inputBuffer), 1, 1)[1] = Readable(inputBuffer)[1]
        <3>1. \A i \in 1..1 : Readable(inputBuffer)[i] \in Bytes \cup {Nil}
            <4>1. 1 \in 1..Len(Readable(inputBuffer))
                BY <1>1, <2>1
            <4>. QED  BY <1>1, <4>1, ElementOfSeq
        <3>2. PICK s : s = SubSeq(Readable(inputBuffer), 1, 1)
            OBVIOUS
        <3>3. /\ s \in Seq(Bytes \cup {Nil}) /\ Len(s) = 1 - 1 + 1
              /\ \A i \in 1..(1 - 1 + 1) : s[i] = Readable(inputBuffer)[1 + i - 1]
            BY <3>1, <3>2, SubSeqProperties
        <3>. QED  BY <3>2, <3>3
    <2>4. Readable(inputBuffer)[1] = line
        BY <1>1, <1>4, <2>1
    <2>5. <<line>> \in Seq(Bytes \cup {Nil}) /\ Len(<<line>>) = 1 /\ <<line>>[1] = line
        BY DEF LineBytes
    <2>6. PICK s : s = FirstLine
        OBVIOUS
    <2>7. s \in Seq(Bytes \cup {Nil}) /\ Len(s) = 1 /\ s[1] = line
        BY <2>2, <2>3, <2>4, <2>6
    <2>8. s = <<line>>
        BY <2>5, <2>7, SeqEqual
    <2>. QED  BY <2>1, <2>6, <2>8
<1>. QED  BY <1>7, <1>8

(* The parser is at the empty line. *)
LEMMA AtEmptyLine ==
    ASSUME ParserTypes, Framed, BufferHolds, Current <= Len(sent),
           NEW o \in Nat, Position = StartOf(Current) + o,
           o + 2 <= Len(Encoded(Coming)),
           Encoded(Coming)[o + 1] = "CR", Encoded(Coming)[o + 2] = "LF"
    PROVE  findCRLF(inputBuffer, 0) = IF readableBytes(inputBuffer) >= 2 THEN 0 ELSE npos
<1>. DEFINE r == readableBytes(inputBuffer)
<1>1. r \in Nat
    BY StartTypes
<1>2. r >= 2 => Readable(inputBuffer)[1] = "CR" /\ Readable(inputBuffer)[2] = "LF"
    <2>1. r >= 2 => 1 \in 1..r /\ 2 \in 1..r
        BY <1>1
    <2>2. o + 1 <= Len(Encoded(Coming))
        <3>1. Coming \in Messages
            BY StartTypes DEF Coming, Current
        <3>2. Len(Encoded(Coming)) \in Nat
            BY <3>1, EncodedBytes, LenProperties
        <3>. QED  BY <3>2
    <2>. QED  BY <2>1, <2>2, BytesOfComing
<1>. QED  BY <1>1, <1>2, FindsEmptyLine

(* What retrieve(n) does to the parser's place in the stream. *)
LEMMA Retrieved ==
    ASSUME ParserTypes, BufferHolds, NEW n \in 0..readableBytes(inputBuffer),
           inputBuffer' = retrieve(inputBuffer, n), UNCHANGED <<stream, arrived>>
    PROVE  /\ inputBuffer' \in Buffers(Bytes \cup {Nil}) /\ WellFormed(inputBuffer')
           /\ BufferHolds'
           /\ Position' = Position + n
<1>. DEFINE S == Bytes \cup {Nil}
            r == readableBytes(inputBuffer)
            bytes == Readable(inputBuffer)
<1>1. r \in Nat /\ bytes \in Seq(S) /\ Len(bytes) = r
    BY StartTypes
<1>2. /\ inputBuffer' \in Buffers(S) /\ WellFormed(inputBuffer')
      /\ Readable(inputBuffer') = SubSeq(bytes, n + 1, r)
    BY RetrieveRetrieves DEF ParserTypes
<1>3. /\ readableBytes(inputBuffer') \in Nat
      /\ Len(Readable(inputBuffer')) = readableBytes(inputBuffer')
    BY <1>2, ReadableBytes
<1>. HIDE DEF bytes, r
<1>4. /\ Len(SubSeq(bytes, n + 1, r)) = r - n
      /\ \A i \in 1..(r - n) : SubSeq(bytes, n + 1, r)[i] = bytes[n + i]
    <2>1. n \in Nat /\ n <= r /\ n + 1 \in Int /\ r \in Int
        BY <1>1 DEF r
    <2>2. \A i \in (n + 1)..r : bytes[i] \in S
        <3>. TAKE i \in (n + 1)..r
        <3>1. i \in 1..Len(bytes)
            BY <1>1, <2>1
        <3>. QED  BY <1>1, <3>1, ElementOfSeq
    <2>3. PICK s : s = SubSeq(bytes, n + 1, r)
        OBVIOUS
    <2>4. /\ Len(s) = IF n + 1 <= r THEN r - (n + 1) + 1 ELSE 0
          /\ \A i \in 1..(r - (n + 1) + 1) : s[i] = bytes[n + 1 + i - 1]
        BY <2>1, <2>2, <2>3, SubSeqProperties
    <2>5. Len(s) = r - n
        BY <1>1, <2>1, <2>4
    <2>6. \A i \in 1..(r - n) : s[i] = bytes[n + i]
        <3>. TAKE i \in 1..(r - n)
        <3>1. i \in 1..(r - (n + 1) + 1) /\ n + 1 + i - 1 = n + i
            BY <1>1, <2>1
        <3>. QED  BY <2>4, <3>1
    <2>. QED  BY <2>3, <2>5, <2>6
<1>5. readableBytes(inputBuffer') = r - n
    BY <1>2, <1>3, <1>4
<1>6. Position \in Nat /\ n \in Nat /\ n <= r /\ arrived \in Nat /\ Position = arrived - r
    BY <1>1, StartTypes DEF BufferHolds, Position, r
<1>7. Position' = Position + n
    <2>1. Position' = arrived - readableBytes(inputBuffer')
        BY DEF Position, readableBytes
    <2>. QED  BY <1>1, <1>5, <1>6, <2>1
<1>8. BufferHolds'
    <2>1. ASSUME NEW k \in 1..(r - n) PROVE Readable(inputBuffer')[k] = stream[Position' + k]
        <3>1. Readable(inputBuffer')[k] = bytes[n + k]
            BY <1>2, <1>4
        <3>2. n + k \in 1..r /\ Position' + k = Position + (n + k)
            BY <1>1, <1>6, <1>7
        <3>3. bytes[n + k] = stream[Position + (n + k)]
            BY <3>2 DEF BufferHolds, bytes, r
        <3>. QED  BY <3>1, <3>2, <3>3
    <2>2. Position' \in Nat
        BY <1>6, <1>7
    <2>3. \A k \in 1..readableBytes(inputBuffer') : Readable(inputBuffer')[k] = stream'[Position' + k]
        BY <1>5, <2>1
    <2>. QED  BY <2>2, <2>3 DEF BufferHolds, Readable, readableBytes
<1>. QED  BY <1>2, <1>7, <1>8

-----------------------------------------------------------------------------
(* The steps. *)

(* A new connection: nothing is sent, the parser is at the start of message 1. *)
LEMMA ParserStarts == ParserInit => ParserInv
<1>. SUFFICES ASSUME ParserInit PROVE ParserInv
    OBVIOUS
<1>1. /\ NewBuffer \in Buffers(Bytes \cup {Nil}) /\ WellFormed(NewBuffer)
      /\ readableBytes(NewBuffer) = 0
    <2>1. NewBuffer \in Buffers(Bytes \cup {Nil}) /\ WellFormed(NewBuffer)
        BY FreshIsEmpty
    <2>2. readableBytes(NewBuffer) = 0
        BY BufferAssumption DEF NewBuffer, readableBytes
    <2>. QED  BY <2>1, <2>2
<1>2. ParserTypes
    <2>1. /\ <<>> \in Seq(Messages) /\ <<>> \in Seq(Bytes) /\ <<>> \in Seq(Nat)
          /\ <<>> \in Seq(LineBytes) /\ Len(<<>>) = 0
        BY EmptySeq
    <2>2. NewContext \in ContextTypes
        BY <2>1 DEF NewContext, ContextTypes
    <2>3. arrived \in 0..Len(stream)
        BY <2>1 DEF ParserInit
    <2>. QED  BY <1>1, <2>1, <2>2, <2>3 DEF ParserInit, ParserTypes
<1>3. Framed
    BY DEF ParserInit, Framed, StartOf
<1>4. Position = 0
    BY <1>1 DEF ParserInit, Position
<1>5. BufferHolds
    BY <1>1, <1>4 DEF ParserInit, BufferHolds
<1>6. HandedInOrder
    BY DEF ParserInit, HandedInOrder
<1>7. Progress
    <2>1. Current = 1 /\ StartOf(Current) = 0
        BY DEF ParserInit, Current, StartOf
    <2>2. context.state = "kExpectRequestLine" /\ context.fields = <<>> /\ context.body = <<>>
        BY DEF ParserInit, NewContext
    <2>3. AtRequestLine
        BY <1>4, <2>1, <2>2 DEF ParserInit, AtRequestLine
    <2>. QED  BY <2>2, <2>3 DEF ParserInit, Progress
<1>. QED  BY <1>2, <1>3, <1>5, <1>6, <1>7 DEF ParserInv

(* What no pass of the loop touches. *)
LEMMA PassesKeep ==
    ASSUME ParserInv, UNCHANGED <<sent, stream, ends, arrived, handed>>
    PROVE  /\ Framed' /\ HandedInOrder'
           /\ Current' = Current /\ Coming' = Coming /\ StartOf(Current)' = StartOf(Current)
           /\ Malformed(Coming)' = Malformed(Coming)
<1>1. Framed'
    BY DEF ParserInv, Framed, StartOf
<1>2. HandedInOrder'
    BY DEF ParserInv, HandedInOrder
<1>3. Current' = Current /\ Coming' = Coming
    BY DEF Current, Coming
<1>4. StartOf(Current)' = StartOf(Current)
    BY DEF StartOf, Current
<1>5. Malformed(Coming)' = Malformed(Coming)
    BY <1>3 DEF Malformed
<1>. QED  BY <1>1, <1>2, <1>3, <1>4, <1>5

(* A request line begins a message that the client has sent: handleRead has just
   read some of it. *)
LEMMA SomethingComes ==
    ASSUME ParserInv, parsing
    PROVE  Current <= Len(sent)
<1>1. CASE context.state = "kExpectRequestLine"
    <2>1. Position = StartOf(Current) /\ readableBytes(inputBuffer) > 0
        BY <1>1 DEF ParserInv, Progress, AtRequestLine
    <2>2. Len(handed) <= Len(sent) /\ Len(stream) = StartOf(Len(sent) + 1)
        BY DEF ParserInv, HandedInOrder, Framed
    <2>3. arrived <= Len(stream) /\ arrived \in Nat /\ Len(stream) \in Nat
          /\ readableBytes(inputBuffer) \in Nat /\ Len(sent) \in Nat /\ Len(handed) \in Nat
        BY StartTypes DEF ParserInv, ParserTypes
    <2>4. Position < arrived
        BY <2>1, <2>3 DEF Position
    <2>5. Current # Len(sent) + 1
        BY <2>1, <2>2, <2>3, <2>4
    <2>. QED  BY <2>2, <2>3, <2>5 DEF Current
<1>2. CASE context.state # "kExpectRequestLine"
    BY <1>2 DEF ParserInv, Progress
<1>. QED  BY <1>1, <1>2

(* Where the parser is in the coming message, as long as it reads lines. *)
LEMMA LineAhead ==
    ASSUME ParserInv, parsing,
           context.state \in {"kExpectRequestLine", "kExpectHeaders"}
    PROVE  LET r == readableBytes(inputBuffer)
               j == Len(context.fields)
               n == Len(Coming.fields)
           IN  /\ r \in Nat /\ j \in Nat /\ n \in Nat /\ Coming \in Messages
               /\ context.state = "kExpectRequestLine" =>
                     /\ findCRLF(inputBuffer, 0) = IF r >= 3 THEN 1 ELSE npos
                     /\ LineHasCome => r >= 3 /\ FirstLine = <<Coming.head>>
               /\ context.state = "kExpectHeaders" /\ j < n =>
                     /\ findCRLF(inputBuffer, 0) = IF r >= 3 THEN 1 ELSE npos
                     /\ LineHasCome => r >= 3 /\ FirstLine = <<Coming.fields[j + 1]>>
               /\ context.state = "kExpectHeaders" => j <= n
               /\ context.state = "kExpectHeaders" /\ j = n =>
                     findCRLF(inputBuffer, 0) = IF r >= 2 THEN 0 ELSE npos
<1>. DEFINE r == readableBytes(inputBuffer)
<1>1. ParserTypes /\ Framed /\ BufferHolds
    BY DEF ParserInv
<1>2. Current <= Len(sent)
    BY SomethingComes
<1>3. Coming \in Messages /\ r \in Nat
    BY <1>1, <1>2, StartTypes DEF Coming, Current
<1>4. PICK n \in Nat : n = Len(Coming.fields)
    BY <1>3, EncodedBytes
<1>5. PICK j \in Nat : j = Len(context.fields)
    <2>1. context.fields \in Seq(LineBytes)
        BY <1>1 DEF ParserTypes, ContextTypes
    <2>. QED  BY <2>1, LenProperties
<1>6. PICK size \in Nat : size = Len(Coming.body)
    BY <1>3, EncodedBytes
<1>7. PICK e : e = Encoded(Coming)
    OBVIOUS
<1>8. /\ Coming.head \in LineBytes /\ Coming.fields \in Seq(LineBytes)
      /\ Len(e) = 3 * n + 5 + size
      /\ e[1] = Coming.head /\ e[2] = "CR" /\ e[3] = "LF"
      /\ \A i \in 1..n : e[3 * i + 1] = Coming.fields[i] /\ e[3 * i + 2] = "CR" /\ e[3 * i + 3] = "LF"
      /\ e[3 * n + 5 - 1] = "CR" /\ e[3 * n + 5] = "LF"
    <2>1. BodyAt(Coming) = 3 * n + 5
        BY <1>4 DEF BodyAt
    <2>2. /\ Coming.head \in LineBytes /\ Coming.fields \in Seq(LineBytes)
          /\ Len(e) = BodyAt(Coming) + size
          /\ e[1] = Coming.head /\ e[2] = "CR" /\ e[3] = "LF"
          /\ e[BodyAt(Coming) - 1] = "CR" /\ e[BodyAt(Coming)] = "LF"
        BY <1>3, <1>6, <1>7, EncodedBytes
    <2>3. \A i \in 1..n : e[3 * i + 1] = Coming.fields[i] /\ e[3 * i + 2] = "CR" /\ e[3 * i + 3] = "LF"
        BY <1>3, <1>4, <1>7, EncodedBytes
    <2>. QED  BY <2>1, <2>2, <2>3
<1>9. ASSUME context.state = "kExpectRequestLine"
      PROVE  /\ findCRLF(inputBuffer, 0) = IF r >= 3 THEN 1 ELSE npos
             /\ LineHasCome => r >= 3 /\ FirstLine = <<Coming.head>>
    <2>1. Position = StartOf(Current) + 0
        <3>1. Position = StartOf(Current) /\ Position \in Nat
            BY <1>9 DEF ParserInv, Progress, AtRequestLine, BufferHolds
        <3>. QED  BY <3>1
    <2>2. 0 + 3 <= Len(e) /\ e[0 + 1] = Coming.head /\ e[0 + 2] = "CR" /\ e[0 + 3] = "LF"
        BY <1>8
    <2>. QED  BY <1>1, <1>2, <1>7, <1>8, <2>1, <2>2, AtLine
<1>10. ASSUME context.state = "kExpectHeaders"
       PROVE  /\ j <= n /\ 3 + 3 * j \in Nat
              /\ Position = StartOf(Current) + (3 + 3 * j)
    <2>1. j <= n /\ Position = StartOf(Current) + 3 + 3 * j
        BY <1>4, <1>5, <1>10 DEF ParserInv, Progress, AtHeaders
    <2>2. StartOf(Current) \in Nat
        BY <1>1, <1>2, StartTypes DEF Current
    <2>. QED  BY <2>1, <2>2
<1>11. ASSUME context.state = "kExpectHeaders", j < n
       PROVE  /\ findCRLF(inputBuffer, 0) = IF r >= 3 THEN 1 ELSE npos
              /\ LineHasCome => r >= 3 /\ FirstLine = <<Coming.fields[j + 1]>>
    <2>1. /\ j + 1 \in 1..n
          /\ 3 + 3 * j + 1 = 3 * (j + 1) + 1 /\ 3 + 3 * j + 2 = 3 * (j + 1) + 2
          /\ 3 + 3 * j + 3 = 3 * (j + 1) + 3
          /\ 3 + 3 * j + 3 <= 3 * n + 5 + size
        BY <1>11
    <2>2. PICK o \in Nat : o = 3 + 3 * j
        OBVIOUS
    <2>3. /\ o + 3 <= Len(e) /\ e[o + 1] = Coming.fields[j + 1]
          /\ e[o + 2] = "CR" /\ e[o + 3] = "LF"
        BY <1>8, <2>1, <2>2
    <2>4. Coming.fields[j + 1] \in LineBytes
        BY <1>4, <1>8, <2>1, ElementOfSeq
    <2>5. Position = StartOf(Current) + o
        BY <1>10, <1>11, <2>2
    <2>. QED  BY <1>1, <1>2, <1>7, <2>3, <2>4, <2>5, AtLine
<1>12. ASSUME context.state = "kExpectHeaders", j = n
       PROVE  findCRLF(inputBuffer, 0) = IF r >= 2 THEN 0 ELSE npos
    <2>1. PICK o \in Nat : o = 3 + 3 * j
        OBVIOUS
    <2>2. o + 2 <= 3 * n + 5 + size /\ o + 1 = 3 * n + 5 - 1 /\ o + 2 = 3 * n + 5
        BY <1>12, <2>1
    <2>3. o + 2 <= Len(e) /\ e[o + 1] = "CR" /\ e[o + 2] = "LF"
        BY <1>8, <2>2
    <2>4. Position = StartOf(Current) + o
        BY <1>10, <1>12, <2>1
    <2>. QED  BY <1>1, <1>2, <1>7, <2>3, <2>4, AtEmptyLine
<1>. QED  BY <1>3, <1>4, <1>5, <1>9, <1>10, <1>11, <1>12

(* The request line taken is the coming message's, or that one is malformed. *)
LEMMA RequestLineKeeps ==
    ASSUME ParserInv, parseRequestLine
    PROVE  ParserInv'
<1>. DEFINE r == readableBytes(inputBuffer)
<1>1. /\ parsing /\ context.state = "kExpectRequestLine" /\ LineHasCome
      /\ UNCHANGED <<sent, stream, ends, arrived, parsing, handed, closed>>
    BY DEF parseRequestLine, In, PassMakes
<1>2. ParserTypes /\ Framed /\ BufferHolds /\ Progress /\ AtRequestLine /\ context \in ContextTypes
    BY <1>1 DEF ParserInv, Progress, ParserTypes
<1>3. Current <= Len(sent)
    BY <1>1, SomethingComes
<1>4. /\ r \in Nat /\ Coming \in Messages /\ r >= 3
      /\ findCRLF(inputBuffer, 0) = 1 /\ FirstLine = <<Coming.head>>
    BY <1>1, LineAhead
<1>5. FirstLine[1] = Coming.head /\ WithoutLine = retrieve(inputBuffer, 3)
    BY <1>4 DEF WithoutLine
<1>6. /\ Framed' /\ HandedInOrder'
      /\ Current' = Current /\ Coming' = Coming /\ StartOf(Current)' = StartOf(Current)
      /\ Malformed(Coming)' = Malformed(Coming)
    BY <1>1, PassesKeep
<1>7. ~ closed
    BY <1>1, <1>2 DEF Progress
<1>8. CASE Coming.head \in RequestLines
    <2>1. /\ context' = [context EXCEPT !.state = "kExpectHeaders", !.head = Coming.head]
          /\ inputBuffer' = retrieve(inputBuffer, 3)
        BY <1>4, <1>5, <1>8 DEF parseRequestLine, PassMakes
    <2>2. /\ context'.state = "kExpectHeaders" /\ context'.head = Coming.head
          /\ context'.fields = <<>> /\ context'.body = <<>>
          /\ context' \in ContextTypes
        <3>1. Coming.head \in LineBytes
            BY <1>4, EncodedBytes
        <3>. QED  BY <1>2, <2>1, <3>1 DEF AtRequestLine, ContextTypes
    <2>3. 3 \in 0..r
        BY <1>4
    <2>4. /\ inputBuffer' \in Buffers(Bytes \cup {Nil}) /\ WellFormed(inputBuffer')
          /\ BufferHolds' /\ Position' = Position + 3
        BY <1>1, <1>2, <2>1, <2>3, Retrieved
    <2>5. ParserTypes'
        BY <1>1, <1>2, <2>2, <2>4 DEF ParserTypes, ContextTypes, LineBytes
    <2>6. AtHeaders'
        <3>1. Len(context'.fields) = 0
            BY <2>2
        <3>2. Len(Coming.fields) \in Nat
            BY <1>4, EncodedBytes
        <3>3. StartOf(Current) \in Nat /\ Position = StartOf(Current)
            BY <1>2, <1>3, StartTypes DEF AtRequestLine, Current
        <3>4. Position' = StartOf(Current)' + 3 + 3 * Len(context'.fields)
            BY <1>6, <2>4, <3>1, <3>3
        <3>5. Len(context'.fields) <= Len(Coming'.fields) /\ \A i \in 1..Len(context'.fields) : FALSE
            BY <1>6, <3>1, <3>2
        <3>. QED  BY <1>6, <1>8, <2>2, <3>4, <3>5 DEF AtHeaders
    <2>7. Current' <= Len(sent')
        BY <1>1, <1>3, <1>6
    <2>8. Progress'
        BY <1>1, <1>7, <2>2, <2>6, <2>7 DEF Progress
    <2>. QED  BY <1>6, <2>4, <2>5, <2>8 DEF ParserInv
<1>9. CASE Coming.head \notin RequestLines
    <2>1. FirstLine \notin {<<line>> : line \in RequestLines}
        <3>. SUFFICES ASSUME NEW line \in RequestLines, <<Coming.head>> = <<line>> PROVE FALSE
            BY <1>4
        <3>. QED  BY <1>9
    <2>2. context' = [context EXCEPT !.state = "kError"] /\ inputBuffer' = inputBuffer
        BY <2>1 DEF parseRequestLine, PassMakes
    <2>3. context' \in ContextTypes /\ context'.state = "kError"
        BY <1>2, <2>2 DEF ContextTypes
    <2>4. ParserTypes' /\ BufferHolds'
        BY <1>1, <1>2, <2>2, <2>3 DEF ParserTypes, BufferHolds, Position, ContextTypes, LineBytes
    <2>5. Malformed(Coming)' /\ Current' <= Len(sent')
        BY <1>1, <1>3, <1>6, <1>9 DEF Malformed
    <2>6. Progress'
        BY <1>1, <1>7, <2>3, <2>5 DEF Progress
    <2>. QED  BY <1>6, <2>4, <2>6 DEF ParserInv
<1>. QED  BY <1>8, <1>9

(* The header taken is the next one of the coming message, or that one is malformed. *)
LEMMA HeaderKeeps ==
    ASSUME ParserInv, parseHeader
    PROVE  ParserInv'
<1>. DEFINE r == readableBytes(inputBuffer)
            valid == Lengths \cup OtherHeaders
<1>1. /\ parsing /\ context.state = "kExpectHeaders" /\ LineHasCome /\ findCRLF(inputBuffer, 0) # 0
      /\ UNCHANGED <<sent, stream, ends, arrived, parsing, handed, closed>>
    BY DEF parseHeader, In, PassMakes
<1>2. ParserTypes /\ Framed /\ BufferHolds /\ Progress /\ AtHeaders /\ context \in ContextTypes
    BY <1>1 DEF ParserInv, Progress, ParserTypes
<1>3. Current <= Len(sent)
    BY <1>1, SomethingComes
<1>4. PICK j \in Nat, n \in Nat : j = Len(context.fields) /\ n = Len(Coming.fields)
    BY <1>1, LineAhead
<1>5. r \in Nat /\ Coming \in Messages /\ j <= n
    BY <1>1, <1>4, LineAhead
<1>6. j < n
    <2>1. j # n
        BY <1>1, <1>4, LineAhead DEF LineHasCome
    <2>. QED  BY <1>5, <2>1
<1>. DEFINE field == Coming.fields[j + 1]
<1>7. r >= 3 /\ findCRLF(inputBuffer, 0) = 1 /\ FirstLine = <<field>>
    BY <1>1, <1>4, <1>6, LineAhead
<1>8. /\ Len(FirstLine) = 1 /\ FirstLine[1] = field /\ DOMAIN FirstLine = {1}
      /\ WithoutLine = retrieve(inputBuffer, 3)
    BY <1>7 DEF WithoutLine
<1>9. /\ Framed' /\ HandedInOrder'
      /\ Current' = Current /\ Coming' = Coming /\ StartOf(Current)' = StartOf(Current)
      /\ Malformed(Coming)' = Malformed(Coming)
    BY <1>1, PassesKeep
<1>10. ~ closed
    BY <1>1, <1>2 DEF Progress
<1>11. Coming.fields \in Seq(LineBytes) /\ j + 1 \in 1..n /\ field \in LineBytes
       /\ DOMAIN Coming.fields = 1..n
    <2>1. Coming.fields \in Seq(LineBytes)
        BY <1>5, EncodedBytes
    <2>2. j + 1 \in 1..n
        BY <1>6
    <2>. QED  BY <1>4, <2>1, <2>2, ElementOfSeq, LenProperties
<1>. HIDE DEF field
<1>12. CASE field \in valid
    <2>1. \E i \in DOMAIN FirstLine : FirstLine[i] \in valid
        BY <1>8, <1>12
    <2>2. /\ context' = [context EXCEPT !.fields = Append(@, field)]
          /\ inputBuffer' = retrieve(inputBuffer, 3)
        BY <1>8, <2>1 DEF parseHeader, PassMakes
    <2>3. context.fields \in Seq(LineBytes)
        BY <1>2 DEF ContextTypes
    <2>4. PICK fields : fields = Append(context.fields, field)
        OBVIOUS
    <2>5. /\ fields \in Seq(LineBytes) /\ Len(fields) = j + 1
          /\ \A i \in 1..j : fields[i] = context.fields[i]
          /\ fields[j + 1] = field
        BY <1>4, <1>11, <2>3, <2>4, AppendProperties
    <2>6. /\ context'.state = "kExpectHeaders" /\ context'.head = context.head
          /\ context'.fields = fields /\ context'.body = context.body
          /\ context' \in ContextTypes
        BY <1>1, <1>2, <2>2, <2>4, <2>5 DEF ContextTypes
    <2>7. 3 \in 0..r
        BY <1>5, <1>7
    <2>8. /\ inputBuffer' \in Buffers(Bytes \cup {Nil}) /\ WellFormed(inputBuffer')
          /\ BufferHolds' /\ Position' = Position + 3
        BY <1>1, <1>2, <2>2, <2>7, Retrieved
    <2>9. ParserTypes'
        BY <1>1, <1>2, <2>6, <2>8 DEF ParserTypes, ContextTypes, LineBytes
    <2>10. AtHeaders'
        <3>1. StartOf(Current) \in Nat
            BY <1>2, <1>3, StartTypes DEF Current
        <3>2. Position = StartOf(Current) + 3 + 3 * j
            BY <1>2, <1>4 DEF AtHeaders
        <3>3. Position' = StartOf(Current) + 3 + 3 * (j + 1)
            BY <2>8, <3>1, <3>2
        <3>4. \A i \in 1..(j + 1) : fields[i] = Coming.fields[i] /\ Coming.fields[i] \in valid
            <4>. TAKE i \in 1..(j + 1)
            <4>1. CASE i = j + 1
                BY <1>12, <2>5, <4>1 DEF field
            <4>2. CASE i # j + 1
                <5>1. i \in 1..j
                    BY <4>2
                <5>. QED  BY <1>2, <1>4, <2>5, <5>1 DEF AtHeaders
            <4>. QED  BY <4>1, <4>2
        <3>5. j + 1 <= n
            BY <1>6
        <3>6. Coming.head \in RequestLines /\ context.head = Coming.head /\ context.body = <<>>
            BY <1>2 DEF AtHeaders
        <3>7. /\ Len(context'.fields) = j + 1 /\ Len(Coming'.fields) = n
              /\ context'.fields = fields /\ Coming'.fields = Coming.fields
              /\ StartOf(Current)' = StartOf(Current)
            BY <1>4, <1>9, <2>5, <2>6
        <3>8. Len(context'.fields) <= Len(Coming'.fields)
              /\ Position' = StartOf(Current)' + 3 + 3 * Len(context'.fields)
            BY <3>3, <3>5, <3>7
        <3>9. \A i \in 1..Len(context'.fields) : /\ context'.fields[i] = Coming'.fields[i]
                                                 /\ Coming'.fields[i] \in Lengths \cup OtherHeaders
            BY <3>4, <3>7
        <3>. QED  BY <1>9, <2>6, <3>6, <3>8, <3>9 DEF AtHeaders
    <2>11. Current' <= Len(sent')
        BY <1>1, <1>3, <1>9
    <2>12. Progress'
        BY <1>1, <1>10, <2>6, <2>10, <2>11 DEF Progress
    <2>. QED  BY <1>9, <2>8, <2>9, <2>12 DEF ParserInv
<1>13. CASE field \notin valid
    <2>1. ~ \E i \in DOMAIN FirstLine : FirstLine[i] \in valid
        BY <1>8, <1>13
    <2>2. context' = [context EXCEPT !.state = "kError"] /\ inputBuffer' = inputBuffer
        BY <2>1 DEF parseHeader, PassMakes
    <2>3. context' \in ContextTypes /\ context'.state = "kError"
        BY <1>2, <2>2 DEF ContextTypes
    <2>4. ParserTypes' /\ BufferHolds'
        BY <1>1, <1>2, <2>2, <2>3 DEF ParserTypes, BufferHolds, Position, ContextTypes, LineBytes
    <2>5. Malformed(Coming)
        BY <1>11, <1>13 DEF Malformed, field
    <2>6. Current' <= Len(sent')
        BY <1>1, <1>3, <1>9
    <2>7. Progress'
        BY <1>1, <1>9, <1>10, <2>3, <2>5, <2>6 DEF Progress
    <2>. QED  BY <1>9, <2>4, <2>7 DEF ParserInv
<1>. QED  BY <1>12, <1>13

(* The empty line taken is the one behind the last header, and a body is expected
   exactly if the message has one. *)
LEMMA EndOfHeadersKeeps ==
    ASSUME ParserInv, LengthsAgree, EndOfHeaders
    PROVE  ParserInv'
<1>. DEFINE r == readableBytes(inputBuffer)
            need == getContentLength(context.fields)
<1>1. /\ parsing /\ context.state = "kExpectHeaders" /\ findCRLF(inputBuffer, 0) = 0
      /\ UNCHANGED <<sent, stream, ends, arrived, parsing, handed, closed>>
      /\ context' = [context EXCEPT !.state = IF need > 0 THEN "kExpectBody" ELSE "kGotAll"]
      /\ inputBuffer' = retrieve(inputBuffer, 2)
    BY DEF EndOfHeaders, In, PassMakes
<1>2. ParserTypes /\ Framed /\ BufferHolds /\ Progress /\ AtHeaders /\ context \in ContextTypes
    BY <1>1 DEF ParserInv, Progress, ParserTypes
<1>3. Current <= Len(sent)
    BY <1>1, SomethingComes
<1>4. PICK j \in Nat, n \in Nat : j = Len(context.fields) /\ n = Len(Coming.fields)
    BY <1>1, LineAhead
<1>5. r \in Nat /\ Coming \in Messages /\ j <= n
    BY <1>1, <1>4, LineAhead
<1>6. j = n
    <2>. SUFFICES ASSUME j < n PROVE FALSE
        BY <1>5
    <2>1. findCRLF(inputBuffer, 0) = IF r >= 3 THEN 1 ELSE npos
        BY <1>1, <1>4, LineAhead
    <2>. QED  BY <1>1, <2>1 DEF npos
<1>7. r >= 2
    <2>1. findCRLF(inputBuffer, 0) = IF r >= 2 THEN 0 ELSE npos
        BY <1>1, <1>4, <1>6, LineAhead
    <2>. QED  BY <1>1, <2>1 DEF npos
<1>8. /\ Coming.fields \in Seq(LineBytes) /\ context.fields \in Seq(LineBytes)
      /\ Coming.body \in Seq(Bytes) /\ Len(Coming.body) \in Nat
      /\ Len(Encoded(Coming)) = BodyAt(Coming) + Len(Coming.body)
    BY <1>2, <1>5, EncodedBytes DEF ContextTypes
<1>9. context.fields = Coming.fields
    <2>1. \A i \in 1..j : context.fields[i] = Coming.fields[i]
        BY <1>2, <1>4 DEF AtHeaders
    <2>. QED  BY <1>4, <1>6, <1>8, <2>1, SeqEqual
<1>10. ~ Malformed(Coming)
    <2>1. \A i \in 1..j : Coming.fields[i] \in Lengths \cup OtherHeaders
        BY <1>2, <1>4 DEF AtHeaders
    <2>2. DOMAIN Coming.fields = 1..j
        BY <1>4, <1>6, <1>8, LenProperties
    <2>3. Coming.head \in RequestLines
        BY <1>2 DEF AtHeaders
    <2>. QED  BY <2>1, <2>2, <2>3 DEF Malformed
<1>11. /\ Framed' /\ HandedInOrder'
       /\ Current' = Current /\ Coming' = Coming /\ StartOf(Current)' = StartOf(Current)
       /\ Malformed(Coming)' = Malformed(Coming)
    BY <1>1, PassesKeep
<1>12. ~ closed
    BY <1>1, <1>2 DEF Progress
<1>13. /\ inputBuffer' \in Buffers(Bytes \cup {Nil}) /\ WellFormed(inputBuffer')
       /\ BufferHolds' /\ Position' = Position + 2
    <2>1. 2 \in 0..r
        BY <1>5, <1>7
    <2>. QED  BY <1>1, <1>2, <2>1, Retrieved
<1>14. Position' = StartOf(Current) + BodyAt(Coming) /\ StartOf(Current) \in Nat /\ BodyAt(Coming) \in Nat
    <2>1. Position = StartOf(Current) + 3 + 3 * n
        BY <1>2, <1>4, <1>6 DEF AtHeaders
    <2>2. StartOf(Current) \in Nat
        BY <1>2, <1>3, StartTypes DEF Current
    <2>3. BodyAt(Coming) = 3 * n + 5
        BY <1>4 DEF BodyAt
    <2>4. Position' = StartOf(Current) + (3 * n + 5)
        BY <1>13, <2>1, <2>2
    <2>. QED  BY <2>2, <2>3, <2>4
<1>15. Current' <= Len(sent')
    BY <1>1, <1>3, <1>11
<1>16. /\ context'.head = Coming.head /\ context'.fields = Coming.fields /\ context'.body = <<>>
       /\ context' \in ContextTypes
       /\ context'.state = IF need > 0 THEN "kExpectBody" ELSE "kGotAll"
    BY <1>1, <1>2, <1>9 DEF AtHeaders, ContextTypes
<1>17. ParserTypes'
    BY <1>1, <1>2, <1>13, <1>16 DEF ParserTypes, ContextTypes, LineBytes
<1>18. CASE need > 0
    <2>1. context'.state = "kExpectBody"
        BY <1>16, <1>18
    <2>2. Len(Coming.body) > 0
        BY <1>5, <1>9, <1>10, <1>18 DEF LengthsAgree
    <2>3. AtBody'
        <3>1. BodyAt(Coming)' = BodyAt(Coming)
            BY <1>11 DEF BodyAt
        <3>2. Position' = StartOf(Current)' + BodyAt(Coming)'
            BY <1>11, <1>14, <3>1
        <3>3. ~ Malformed(Coming)'
            BY <1>10, <1>11
        <3>4. context'.head = Coming'.head /\ context'.fields = Coming'.fields
            BY <1>11, <1>16
        <3>. QED  BY <1>11, <2>2, <3>2, <3>3, <3>4 DEF AtBody
    <2>4. Progress'
        BY <1>1, <1>12, <1>15, <2>1, <2>3 DEF Progress
    <2>. QED  BY <1>11, <1>13, <1>17, <2>4 DEF ParserInv
<1>19. CASE ~ (need > 0)
    <2>1. context'.state = "kGotAll"
        BY <1>16, <1>19
    <2>2. Len(Coming.body) = 0
        BY <1>5, <1>9, <1>10, <1>19 DEF LengthsAgree
    <2>3. Coming.body = <<>>
        BY <1>8, <2>2, EmptySeq
    <2>4. Position' = ends[Current]
        <3>1. Current \in 1..Len(sent)
            BY <1>2, <1>3, StartTypes DEF Current
        <3>2. ends[Current] = StartOf(Current) + Len(Encoded(Coming))
            BY <1>2, <3>1 DEF Framed, Coming
        <3>. QED  BY <1>8, <1>14, <2>2, <3>2
    <2>5. AtEnd'
        BY <1>1, <1>11, <1>16, <2>3, <2>4 DEF AtEnd
    <2>6. Progress'
        BY <1>1, <1>12, <1>15, <2>1, <2>5 DEF Progress
    <2>. QED  BY <1>11, <1>13, <1>17, <2>6 DEF ParserInv
<1>. QED  BY <1>18, <1>19

(* A body is complete in the buffer exactly if the message has arrived. *)
LEMMA BodyAhead ==
    ASSUME ParserInv, LengthsAgree, context.state = "kExpectBody"
    PROVE  /\ Current \in 1..Len(sent) /\ Coming \in Messages
           /\ getContentLength(context.fields) = Len(Coming.body) /\ Len(Coming.body) \in Nat
           /\ Len(Encoded(Coming)) = BodyAt(Coming) + Len(Coming.body) /\ BodyAt(Coming) \in Nat
           /\ Position = StartOf(Current) + BodyAt(Coming) /\ StartOf(Current) \in Nat
           /\ ends[Current] = Position + Len(Coming.body)
<1>1. ParserTypes /\ Framed /\ AtBody /\ Current <= Len(sent)
    BY DEF ParserInv, Progress
<1>2. Current \in 1..Len(sent) /\ Current \in 1..(Len(sent) + 1)
    BY <1>1, StartTypes DEF Current
<1>3. Coming \in Messages /\ StartOf(Current) \in Nat
    BY <1>1, <1>2, StartTypes DEF Coming
<1>4. Len(Coming.body) \in Nat /\ Len(Encoded(Coming)) = BodyAt(Coming) + Len(Coming.body)
    BY <1>3, EncodedBytes
<1>5. getContentLength(context.fields) = Len(Coming.body)
    BY <1>1, <1>3 DEF AtBody, LengthsAgree
<1>6. BodyAt(Coming) \in Nat
    <2>1. Len(Coming.fields) \in Nat
        BY <1>3, EncodedBytes
    <2>. QED  BY <2>1 DEF BodyAt
<1>7. ends[Current] = StartOf(Current) + Len(Encoded(Coming))
    BY <1>1, <1>2 DEF Framed, Coming
<1>8. Position = StartOf(Current) + BodyAt(Coming)
    BY <1>1 DEF AtBody
<1>. QED  BY <1>2, <1>3, <1>4, <1>5, <1>6, <1>7, <1>8

(* The bytes taken are the body, and the message ends with them. *)
LEMMA BodyKeeps ==
    ASSUME ParserInv, LengthsAgree, parseBody
    PROVE  ParserInv'
<1>. DEFINE r == readableBytes(inputBuffer)
            taken == SubSeq(Readable(inputBuffer), 1, Len(Coming.body))
<1>1. /\ parsing /\ context.state = "kExpectBody"
      /\ UNCHANGED <<sent, stream, ends, arrived, parsing, handed, closed>>
    BY DEF parseBody, In, PassMakes
<1>2. ParserTypes /\ Framed /\ BufferHolds /\ Progress /\ AtBody /\ context \in ContextTypes
    BY <1>1 DEF ParserInv, Progress, ParserTypes
<1>3. /\ Current \in 1..Len(sent) /\ Coming \in Messages
      /\ getContentLength(context.fields) = Len(Coming.body)
      /\ Len(Encoded(Coming)) = BodyAt(Coming) + Len(Coming.body) /\ BodyAt(Coming) \in Nat
      /\ Position = StartOf(Current) + BodyAt(Coming)
      /\ ends[Current] = Position + Len(Coming.body)
    BY <1>1, BodyAhead
<1>4. PICK size \in Nat : size = Len(Coming.body)
    BY <1>1, BodyAhead
<1>5. r >= size /\ r \in Nat
    BY <1>2, <1>3, <1>4, StartTypes DEF parseBody, BodyHasCome
<1>6. /\ context' = [context EXCEPT !.state = "kGotAll", !.body = taken]
      /\ inputBuffer' = retrieve(inputBuffer, size)
    BY <1>3, <1>4 DEF parseBody, PassMakes
<1>7. Current <= Len(sent)
    BY <1>2, <1>3, StartTypes
<1>8. /\ Readable(inputBuffer) \in Seq(Bytes \cup {Nil}) /\ Len(Readable(inputBuffer)) = r
      /\ Coming.body \in Seq(Bytes)
      /\ \A k \in 1..size : Encoded(Coming)[BodyAt(Coming) + k] = Coming.body[k]
    BY <1>2, <1>3, <1>4, StartTypes, EncodedBytes
<1>9. taken = Coming.body
    <2>1. \A k \in 1..size : Readable(inputBuffer)[k] = Coming.body[k]
        <3>. TAKE k \in 1..size
        <3>1. k \in 1..r /\ BodyAt(Coming) + k <= Len(Encoded(Coming))
            BY <1>3, <1>4, <1>5
        <3>2. Readable(inputBuffer)[k] = Encoded(Coming)[BodyAt(Coming) + k]
            BY <1>2, <1>3, <1>7, <3>1, BytesOfComing
        <3>. QED  BY <1>8, <3>2
    <2>2. PICK s : s = taken
        OBVIOUS
    <2>3. \A k \in 1..size : Readable(inputBuffer)[k] \in Bytes
        BY <1>4, <1>8, <2>1, ElementOfSeq
    <2>4. /\ s \in Seq(Bytes) /\ Len(s) = (IF 1 <= size THEN size - 1 + 1 ELSE 0)
          /\ \A k \in 1..(size - 1 + 1) : s[k] = Readable(inputBuffer)[1 + k - 1]
        BY <1>4, <2>2, <2>3, SubSeqProperties
    <2>5. Len(s) = size
        BY <2>4
    <2>6. \A k \in 1..size : s[k] = Readable(inputBuffer)[k]
        <3>. TAKE k \in 1..size
        <3>1. k \in 1..(size - 1 + 1) /\ 1 + k - 1 = k
            OBVIOUS
        <3>. QED  BY <2>4, <3>1
    <2>7. s = Coming.body
        BY <1>4, <1>8, <2>1, <2>4, <2>5, <2>6, SeqEqual
    <2>. QED  BY <2>2, <2>7
<1>. HIDE DEF taken
<1>10. /\ context'.state = "kGotAll" /\ context'.head = Coming.head /\ context'.fields = Coming.fields
       /\ context'.body = Coming.body /\ context' \in ContextTypes
    BY <1>2, <1>6, <1>8, <1>9 DEF AtBody, ContextTypes
<1>11. /\ inputBuffer' \in Buffers(Bytes \cup {Nil}) /\ WellFormed(inputBuffer')
       /\ BufferHolds' /\ Position' = Position + size
    <2>1. size \in 0..r
        BY <1>5
    <2>. QED  BY <1>1, <1>2, <1>6, <2>1, Retrieved
<1>12. /\ Framed' /\ HandedInOrder' /\ Current' = Current /\ Coming' = Coming
    BY <1>1, PassesKeep
<1>13. ParserTypes'
    BY <1>1, <1>2, <1>10, <1>11 DEF ParserTypes, ContextTypes, LineBytes
<1>14. AtEnd'
    BY <1>1, <1>3, <1>4, <1>10, <1>11, <1>12 DEF AtEnd
<1>15. ~ closed /\ Current' <= Len(sent')
    BY <1>1, <1>2, <1>7, <1>12 DEF Progress
<1>16. Progress'
    BY <1>1, <1>10, <1>14, <1>15 DEF Progress
<1>. QED  BY <1>11, <1>12, <1>13, <1>16 DEF ParserInv


(* A break of the loop leaves everything for the next read. *)
LEMMA WaitForMoreKeeps ==
    ASSUME ParserInv, WaitForMore
    PROVE  ParserInv'
<1>1. /\ context.state \in {"kExpectRequestLine", "kExpectHeaders", "kExpectBody"}
      /\ parsing' = FALSE
      /\ UNCHANGED <<sent, stream, ends, arrived, inputBuffer, context, handed, closed>>
    BY DEF WaitForMore, In
<1>2. /\ Framed' /\ HandedInOrder'
      /\ Current' = Current /\ Coming' = Coming /\ StartOf(Current)' = StartOf(Current)
      /\ Malformed(Coming)' = Malformed(Coming)
    BY <1>1, PassesKeep
<1>3. ParserTypes' /\ BufferHolds' /\ Position' = Position
    BY <1>1 DEF ParserInv, ParserTypes, BufferHolds, Position, ContextTypes, LineBytes
<1>4. BodyAt(Coming)' = BodyAt(Coming)
    BY <1>2 DEF BodyAt
<1>5. AtRequestLine => AtRequestLine'
    BY <1>1, <1>2, <1>3 DEF AtRequestLine
<1>6. AtHeaders => AtHeaders'
    BY <1>1, <1>2, <1>3 DEF AtHeaders
<1>7. AtBody => AtBody'
    BY <1>1, <1>2, <1>3, <1>4 DEF AtBody
<1>8. Progress'
    BY <1>1, <1>2, <1>5, <1>6, <1>7 DEF ParserInv, Progress
<1>. QED  BY <1>2, <1>3, <1>8 DEF ParserInv

(* Only a malformed message closes the connection. *)
LEMMA RejectKeeps ==
    ASSUME ParserInv, RejectAndClose
    PROVE  ParserInv'
<1>1. /\ context.state = "kError" /\ parsing' = FALSE /\ closed' = TRUE
      /\ UNCHANGED <<sent, stream, ends, arrived, inputBuffer, context, handed>>
    BY DEF RejectAndClose, In
<1>2. Framed' /\ HandedInOrder' /\ Current' = Current /\ Malformed(Coming)' = Malformed(Coming)
    BY <1>1, PassesKeep
<1>3. ParserTypes' /\ BufferHolds'
    BY <1>1 DEF ParserInv, ParserTypes, BufferHolds, Position, ContextTypes, LineBytes
<1>4. Progress'
    BY <1>1, <1>2 DEF ParserInv, Progress
<1>. QED  BY <1>2, <1>3, <1>4 DEF ParserInv

(* The request handed over is the one that was coming. *)
LEMMA HandOverKeeps ==
    ASSUME ParserInv, HandOver
    PROVE  ParserInv' /\ Len(handed') = Len(handed) + 1
<1>. DEFINE request == [head |-> context.head, fields |-> context.fields, body |-> context.body]
<1>1. /\ parsing /\ context.state = "kGotAll"
      /\ handed' = Append(handed, request) /\ context' = NewContext /\ parsing' = FALSE
      /\ UNCHANGED <<sent, stream, ends, arrived, inputBuffer, closed>>
    BY DEF HandOver, In
<1>2. ParserTypes /\ Framed /\ BufferHolds /\ HandedInOrder /\ Progress /\ AtEnd /\ ~ closed
    BY <1>1 DEF ParserInv, Progress
<1>3. PICK h \in Nat : h = Len(handed)
    BY <1>2, StartTypes
<1>4. Current = h + 1
    BY <1>3 DEF Current
<1>5. Current <= Len(sent) /\ Len(sent) \in Nat
    BY <1>1, <1>2, SomethingComes, StartTypes DEF ParserInv
<1>6. h + 1 \in 1..Len(sent)
    BY <1>4, <1>5
<1>7. Coming \in Messages /\ Coming = sent[h + 1]
    BY <1>2, <1>4, <1>6, StartTypes DEF Coming
<1>8. request = Coming
    <2>1. Coming \in [head : LineBytes, fields : Seq(LineBytes), body : Seq(Bytes)]
        BY <1>7, MessagesAssumption
    <2>2. Coming = [head |-> Coming.head, fields |-> Coming.fields, body |-> Coming.body]
        BY <2>1
    <2>. QED  BY <1>2, <2>2 DEF AtEnd
<1>. HIDE DEF request
<1>9. PICK all : all = handed'
    OBVIOUS
<1>10. /\ all \in Seq(Messages) /\ Len(all) = h + 1
       /\ \A i \in 1..h : all[i] = handed[i]
       /\ all[h + 1] = sent[h + 1]
    <2>1. handed \in Seq(Messages)
        BY <1>2 DEF ParserTypes
    <2>. QED  BY <1>1, <1>3, <1>7, <1>8, <1>9, <2>1, AppendProperties
<1>11. NewContext \in ContextTypes /\ NewContext.state = "kExpectRequestLine"
       /\ NewContext.fields = <<>> /\ NewContext.body = <<>>
    <2>1. <<>> \in Seq(LineBytes) /\ <<>> \in Seq(Bytes)
        BY EmptySeq
    <2>. QED  BY <2>1 DEF NewContext, ContextTypes
<1>12. ParserTypes'
    BY <1>1, <1>2, <1>9, <1>10, <1>11 DEF ParserTypes, ContextTypes, LineBytes
<1>13. Framed'
    BY <1>1, <1>2 DEF Framed, StartOf
<1>14. BufferHolds' /\ Position' = Position
    BY <1>1, <1>2 DEF BufferHolds, Position
<1>15. HandedInOrder'
    <2>1. \A i \in 1..(h + 1) : all[i] = sent[i]
        <3>. TAKE i \in 1..(h + 1)
        <3>1. i = h + 1 \/ i \in 1..h
            OBVIOUS
        <3>. QED  BY <1>2, <1>3, <1>10, <3>1 DEF HandedInOrder
    <2>2. h + 1 <= Len(sent)
        BY <1>4, <1>5
    <2>. QED  BY <1>1, <1>9, <1>10, <2>1, <2>2 DEF HandedInOrder
<1>16. Current' = h + 2
    BY <1>9, <1>10 DEF Current
<1>17. Position = ends[h + 1]
    BY <1>2, <1>4 DEF AtEnd
<1>18. StartOf(Current)' = ends[h + 1]
    <2>1. h + 2 # 1 /\ (h + 2) - 1 = h + 1
        OBVIOUS
    <2>. QED  BY <1>1, <1>16, <2>1 DEF StartOf
<1>19. AtRequestLine'
    BY <1>1, <1>11, <1>14, <1>17, <1>18 DEF AtRequestLine
<1>20. Progress'
    BY <1>1, <1>2, <1>11, <1>19 DEF Progress
<1>21. Len(handed') = Len(handed) + 1
    BY <1>3, <1>9, <1>10
<1>. QED  BY <1>12, <1>13, <1>14, <1>15, <1>20, <1>21 DEF ParserInv

(* What is read goes behind what the buffer holds: the place in the stream stays. *)
LEMMA ReadBytesKeeps ==
    ASSUME ParserInv, ReadBytes
    PROVE  ParserInv'
<1>. DEFINE S == Bytes \cup {Nil}
            bytes == Readable(inputBuffer)
            r == readableBytes(inputBuffer)
<1>1. PICK n \in 1..(Len(stream) - arrived) :
          /\ n <= ReadLimit(inputBuffer)
          /\ inputBuffer' = readFd(inputBuffer, SubSeq(stream, arrived + 1, arrived + n))
          /\ arrived' = arrived + n
    BY DEF ReadBytes
<1>2. /\ ~ closed /\ ~ parsing /\ parsing'
      /\ UNCHANGED <<sent, stream, ends, context, handed, closed>>
    BY DEF ReadBytes
<1>3. ParserTypes /\ Framed /\ BufferHolds /\ HandedInOrder /\ Progress
    BY DEF ParserInv
<1>4. PICK a \in Nat, size \in Nat : a = arrived /\ size = Len(stream)
    BY <1>3, StartTypes
<1>5. n \in Nat /\ n >= 1 /\ a + n <= size /\ arrived' = a + n
    BY <1>1, <1>4
<1>6. PICK data : data = SubSeq(stream, arrived + 1, arrived + n)
    OBVIOUS
<1>7. data \in Seq(S) /\ Len(data) = n /\ \A k \in 1..n : data[k] = stream[a + k]
    <2>1. a + 1 \in Int /\ a + n \in Int
        BY <1>5
    <2>2. \A i \in (a + 1)..(a + n) : stream[i] \in S
        <3>. TAKE i \in (a + 1)..(a + n)
        <3>1. i \in 1..size
            BY <1>5
        <3>2. stream \in Seq(Bytes)
            BY <1>3 DEF ParserTypes
        <3>3. stream[i] \in Bytes
            BY <1>4, <3>1, <3>2, ElementOfSeq
        <3>. QED  BY <3>3
    <2>. DEFINE lo == a + 1
                hi == a + n
    <2>6. data = SubSeq(stream, lo, hi)
        BY <1>4, <1>6
    <2>7. lo \in Int /\ hi \in Int /\ \A i \in lo..hi : stream[i] \in S
        BY <2>1, <2>2
    <2>. HIDE DEF lo, hi, S
    <2>8. /\ data \in Seq(S)
          /\ Len(data) = IF lo <= hi THEN hi - lo + 1 ELSE 0
          /\ \A i \in 1..(hi - lo + 1) : data[i] = stream[lo + i - 1]
        BY <2>6, <2>7, SubSeqProperties
    <2>3. /\ data \in Seq(S)
          /\ Len(data) = IF a + 1 <= a + n THEN a + n - (a + 1) + 1 ELSE 0
          /\ \A i \in 1..(a + n - (a + 1) + 1) : data[i] = stream[a + 1 + i - 1]
        BY <2>8 DEF lo, hi
    <2>4. Len(data) = n
        BY <1>5, <2>3
    <2>5. \A k \in 1..n : data[k] = stream[a + k]
        <3>. TAKE k \in 1..n
        <3>1. k \in 1..(a + n - (a + 1) + 1) /\ a + 1 + k - 1 = a + k
            BY <1>5
        <3>. QED  BY <2>3, <3>1
    <2>. QED  BY <2>3, <2>4, <2>5
<1>8. inputBuffer \in Buffers(S) /\ WellFormed(inputBuffer)
    BY <1>3 DEF ParserTypes
<1>9. inputBuffer' = readFd(inputBuffer, data) /\ Len(data) <= ReadLimit(inputBuffer)
    BY <1>1, <1>6, <1>7
<1>10. /\ inputBuffer' \in Buffers(S) /\ WellFormed(inputBuffer')
       /\ Readable(inputBuffer') = bytes \o data
    BY <1>7, <1>8, <1>9, ReadFdAppends
<1>11. PICK m \in Nat : m = r
    BY <1>3, StartTypes
<1>12. bytes \in Seq(S) /\ Len(bytes) = m
    BY <1>3, <1>11, StartTypes
<1>13. readableBytes(inputBuffer') = Len(Readable(inputBuffer'))
    BY <1>10, ReadableBytes
<1>. HIDE DEF bytes, r
<1>14. PICK now : now = Readable(inputBuffer')
    OBVIOUS
<1>15. Len(now) = m + n /\ \A k \in 1..(m + n) : now[k] = IF k <= m THEN bytes[k] ELSE data[k - m]
    <2>1. now = bytes \o data
        BY <1>10, <1>14
    <2>2. /\ Len(now) = Len(bytes) + Len(data)
          /\ \A k \in 1..(Len(bytes) + Len(data)) :
                now[k] = IF k <= Len(bytes) THEN bytes[k] ELSE data[k - Len(bytes)]
        <3>. HIDE DEF S
        <3>. QED  BY <1>7, <1>12, <2>1, ConcatProperties
    <2>3. Len(bytes) = m /\ Len(data) = n
        BY <1>7, <1>12
    <2>. QED  BY <2>2, <2>3
<1>16. readableBytes(inputBuffer') = m + n
    BY <1>13, <1>14, <1>15
<1>17. readableBytes(inputBuffer)' = m + n /\ Readable(inputBuffer)' = now
    BY <1>14, <1>16 DEF readableBytes, Readable
<1>18. Position = a - m /\ Position \in Nat
    BY <1>3, <1>4, <1>11 DEF Position, BufferHolds, r
<1>19. Position' = Position
    <2>1. Position' = arrived' - (m + n)
        BY <1>17 DEF Position
    <2>. QED  BY <1>5, <1>18, <2>1
<1>20. \A k \in 1..(m + n) : now[k] = stream[Position + k]
    <2>. TAKE k \in 1..(m + n)
    <2>1. CASE k <= m
        <3>1. k \in 1..m
            BY <2>1
        <3>2. bytes[k] = stream[Position + k]
            BY <1>3, <1>11, <3>1 DEF BufferHolds, bytes, r
        <3>. QED  BY <1>15, <2>1, <3>2
    <2>2. CASE ~ (k <= m)
        <3>1. k - m \in 1..n /\ Position + k = a + (k - m)
            BY <1>18, <2>2
        <3>. QED  BY <1>7, <1>15, <2>2, <3>1
    <2>. QED  BY <2>1, <2>2
<1>21. BufferHolds'
    BY <1>2, <1>17, <1>18, <1>19, <1>20 DEF BufferHolds
<1>22. Framed' /\ HandedInOrder'
    <2>1. Framed'
        BY <1>2, <1>3 DEF Framed, StartOf
    <2>2. HandedInOrder'
        BY <1>2, <1>3 DEF HandedInOrder
    <2>. QED  BY <2>1, <2>2
<1>23. Current' = Current /\ Coming' = Coming /\ StartOf(Current)' = StartOf(Current)
    BY <1>2 DEF Current, Coming, StartOf
<1>24. ParserTypes'
    <2>1. arrived' \in 0..Len(stream)
        BY <1>4, <1>5
    <2>. QED  BY <1>2, <1>3, <1>10, <2>1 DEF ParserTypes, ContextTypes, LineBytes
<1>25. AtRequestLine => AtRequestLine'
    <2>1. m + n > 0
        BY <1>5
    <2>. QED  BY <1>2, <1>17, <1>19, <1>23, <2>1 DEF AtRequestLine
<1>26. AtHeaders => AtHeaders'
    BY <1>2, <1>19, <1>23 DEF AtHeaders
<1>27. AtBody => AtBody'
    <2>1. BodyAt(Coming)' = BodyAt(Coming)
        BY <1>23 DEF BodyAt
    <2>2. Malformed(Coming)' = Malformed(Coming)
        BY <1>23 DEF Malformed
    <2>. QED  BY <1>2, <1>19, <1>23, <2>1, <2>2 DEF AtBody
<1>28. context.state # "kGotAll" /\ context.state # "kError"
    BY <1>2, <1>3 DEF Progress, AtEnd
<1>29. Progress'
    BY <1>2, <1>3, <1>23, <1>25, <1>26, <1>27, <1>28 DEF Progress
<1>. QED  BY <1>21, <1>22, <1>24, <1>29 DEF ParserInv

(* A message sent goes to the end of the stream: what was there stays where it was. *)
LEMMA SendMessageKeeps ==
    ASSUME ParserInv, NEW m \in Messages, SendMessage(m)
    PROVE  ParserInv'
<1>1. /\ ~ closed
      /\ sent' = Append(sent, m) /\ stream' = stream \o Encoded(m)
      /\ ends' = Append(ends, Len(stream'))
      /\ UNCHANGED <<arrived, inputBuffer, context, parsing, handed, closed>>
    BY DEF SendMessage
<1>2. ParserTypes /\ Framed /\ BufferHolds /\ HandedInOrder /\ Progress
    BY DEF ParserInv
<1>3. PICK s \in Nat, size \in Nat, h \in Nat, w \in Nat :
          s = Len(sent) /\ size = Len(stream) /\ h = Len(handed) /\ w = Len(Encoded(m))
    <2>1. Encoded(m) \in Seq(Bytes)
        BY EncodedBytes
    <2>. QED  BY <1>2, <2>1, StartTypes, LenProperties
<1>4. PICK messages, bytes, lengths : messages = sent' /\ bytes = stream' /\ lengths = ends'
    OBVIOUS
<1>5. /\ messages \in Seq(Messages) /\ Len(messages) = s + 1 /\ messages[s + 1] = m
      /\ \A i \in 1..s : messages[i] = sent[i]
    <2>1. sent \in Seq(Messages)
        BY <1>2 DEF ParserTypes
    <2>. QED  BY <1>1, <1>3, <1>4, <2>1, AppendProperties
<1>6. /\ bytes \in Seq(Bytes) /\ Len(bytes) = size + w
      /\ \A k \in 1..(size + w) : bytes[k] = IF k <= size THEN stream[k] ELSE Encoded(m)[k - size]
    <2>1. stream \in Seq(Bytes) /\ Encoded(m) \in Seq(Bytes)
        BY <1>2, EncodedBytes DEF ParserTypes
    <2>2. bytes = stream \o Encoded(m)
        BY <1>1, <1>4
    <2>3. /\ bytes \in Seq(Bytes) /\ Len(bytes) = Len(stream) + Len(Encoded(m))
          /\ \A k \in 1..(Len(stream) + Len(Encoded(m))) :
                bytes[k] = IF k <= Len(stream) THEN stream[k] ELSE Encoded(m)[k - Len(stream)]
        BY <2>1, <2>2, ConcatProperties
    <2>. QED  BY <1>3, <2>3
<1>7. /\ lengths \in Seq(Nat) /\ Len(lengths) = s + 1 /\ lengths[s + 1] = size + w
      /\ \A i \in 1..s : lengths[i] = ends[i]
    <2>1. ends \in Seq(Nat) /\ Len(ends) = s
        BY <1>2, <1>3 DEF ParserTypes
    <2>2. size + w \in Nat /\ lengths = Append(ends, size + w)
        BY <1>1, <1>4, <1>6
    <2>. QED  BY <2>1, <2>2, AppendProperties
<1>8. \A i \in 1..(s + 1) : StartOf(i)' = StartOf(i)
    <2>. TAKE i \in 1..(s + 1)
    <2>1. i # 1 => i - 1 \in 1..s
        OBVIOUS
    <2>. QED  BY <1>4, <1>7, <2>1 DEF StartOf
<1>9. ParserTypes'
    <2>1. arrived \in Nat /\ arrived <= size
        BY <1>2, <1>3, StartTypes DEF ParserTypes
    <2>2. arrived' \in 0..Len(stream')
        BY <1>1, <1>4, <1>6, <2>1
    <2>. QED  BY <1>1, <1>2, <1>4, <1>5, <1>6, <1>7, <2>2 DEF ParserTypes, ContextTypes, LineBytes
<1>10. size = StartOf(s + 1)
    BY <1>2, <1>3 DEF Framed
<1>11. ASSUME NEW i \in 1..s
       PROVE  /\ lengths[i] = StartOf(i) + Len(Encoded(messages[i]))
              /\ lengths[i] <= size + w
              /\ \A k \in 1..Len(Encoded(messages[i])) :
                    bytes[StartOf(i) + k] = Encoded(messages[i])[k]
    <2>1. PICK from \in Nat, length \in Nat : from = StartOf(i) /\ length = Len(Encoded(sent[i]))
        <3>1. sent[i] \in Messages /\ i \in 1..(s + 1)
            BY <1>2, <1>3, StartTypes
        <3>2. Encoded(sent[i]) \in Seq(Bytes)
            BY <3>1, EncodedBytes
        <3>. QED  BY <1>2, <1>3, <3>1, <3>2, StartTypes, LenProperties
    <2>2. /\ ends[i] = from + length /\ ends[i] <= size
          /\ \A k \in 1..length : stream[from + k] = Encoded(sent[i])[k]
        BY <1>2, <1>3, <2>1 DEF Framed
    <2>3. messages[i] = sent[i] /\ lengths[i] = ends[i]
        BY <1>5, <1>7
    <2>4. \A k \in 1..length : bytes[from + k] = Encoded(sent[i])[k]
        <3>. TAKE k \in 1..length
        <3>1. from + k \in 1..(size + w) /\ from + k <= size
            BY <2>2
        <3>. QED  BY <1>6, <2>2, <3>1
    <2>5. ends[i] <= size + w
        BY <2>2
    <2>. QED  BY <2>1, <2>2, <2>3, <2>4, <2>5
<1>12. /\ lengths[s + 1] = StartOf(s + 1) + Len(Encoded(messages[s + 1]))
       /\ lengths[s + 1] <= size + w
       /\ \A k \in 1..Len(Encoded(messages[s + 1])) :
             bytes[StartOf(s + 1) + k] = Encoded(messages[s + 1])[k]
    <2>1. ASSUME NEW k \in 1..w PROVE bytes[size + k] = Encoded(m)[k]
        <3>1. size + k \in 1..(size + w) /\ ~ (size + k <= size) /\ size + k - size = k
            OBVIOUS
        <3>. QED  BY <1>6, <3>1
    <2>. QED  BY <1>3, <1>5, <1>7, <1>10, <2>1
<1>13. \A i \in 1..(s + 1) :
          /\ lengths[i] = StartOf(i) + Len(Encoded(messages[i]))
          /\ lengths[i] <= size + w
          /\ \A k \in 1..Len(Encoded(messages[i])) :
                bytes[StartOf(i) + k] = Encoded(messages[i])[k]
    <2>. TAKE i \in 1..(s + 1)
    <2>1. i = s + 1 \/ i \in 1..s
        OBVIOUS
    <2>. QED  BY <1>11, <1>12, <2>1
<1>14. Framed'
    <2>1. StartOf(Len(sent) + 1)' = lengths[s + 1]
        <3>1. Len(sent') + 1 = s + 2 /\ s + 2 # 1 /\ (s + 2) - 1 = s + 1
            BY <1>4, <1>5
        <3>. QED  BY <1>4, <3>1 DEF StartOf
    <2>2. Len(stream)' = StartOf(Len(sent) + 1)'
        BY <1>4, <1>6, <1>7, <2>1
    <2>3. \A i \in 1..Len(sent') :
             /\ ends'[i] = StartOf(i)' + Len(Encoded(sent'[i]))
             /\ ends'[i] <= Len(stream')
             /\ \A k \in 1..Len(Encoded(sent'[i])) : stream'[StartOf(i)' + k] = Encoded(sent'[i])[k]
        BY <1>4, <1>5, <1>6, <1>8, <1>13
    <2>. QED  BY <2>2, <2>3 DEF Framed, Encoded, StartOf
<1>15. PICK r \in Nat, a \in Nat : r = readableBytes(inputBuffer) /\ a = arrived /\ a <= size
    BY <1>2, <1>3, StartTypes DEF ParserTypes
<1>16. Position' = Position /\ readableBytes(inputBuffer)' = r /\ Position = a - r /\ Position \in Nat
    BY <1>1, <1>2, <1>15 DEF Position, readableBytes, BufferHolds
<1>17. BufferHolds'
    <2>1. ASSUME NEW k \in 1..r PROVE Readable(inputBuffer)[k] = bytes[Position + k]
        <3>1. Position + k \in 1..(size + w) /\ Position + k <= size
            BY <1>15, <1>16
        <3>2. Readable(inputBuffer)[k] = stream[Position + k]
            BY <1>2, <1>15 DEF BufferHolds
        <3>. QED  BY <1>6, <3>1, <3>2
    <2>2. Readable(inputBuffer)' = Readable(inputBuffer)
        BY <1>1 DEF Readable
    <2>. QED  BY <1>4, <1>16, <2>1, <2>2 DEF BufferHolds
<1>18. h <= s
    BY <1>2, <1>3 DEF HandedInOrder
<1>19. HandedInOrder'
    <2>1. ASSUME NEW i \in 1..h PROVE handed[i] = messages[i]
        <3>1. i \in 1..s
            BY <1>18
        <3>. QED  BY <1>2, <1>3, <1>5, <3>1 DEF HandedInOrder
    <2>2. h <= s + 1
        BY <1>18
    <2>. QED  BY <1>1, <1>3, <1>4, <1>5, <2>1, <2>2 DEF HandedInOrder
<1>20. Current' = Current /\ Current = h + 1
    BY <1>1, <1>3 DEF Current
<1>21. StartOf(Current)' = StartOf(Current)
    <2>1. h + 1 \in 1..(s + 1)
        BY <1>18
    <2>. QED  BY <1>8, <1>20, <2>1 DEF StartOf, Current
<1>22. AtRequestLine => AtRequestLine'
    BY <1>1, <1>15, <1>16, <1>21 DEF AtRequestLine
<1>23. ASSUME Current <= Len(sent)
       PROVE  /\ Coming' = Coming /\ Malformed(Coming)' = Malformed(Coming)
              /\ BodyAt(Coming)' = BodyAt(Coming) /\ ends'[Current'] = ends[Current]
              /\ Current' <= Len(sent')
    <2>1. h + 1 \in 1..s
        BY <1>3, <1>20, <1>23
    <2>2. Coming' = Coming
        BY <1>4, <1>5, <1>20, <2>1 DEF Coming
    <2>3. ends'[Current'] = ends[Current]
        BY <1>4, <1>7, <1>20, <2>1
    <2>4. Current' <= Len(sent')
        BY <1>4, <1>5, <1>20, <2>1
    <2>. QED  BY <2>2, <2>3, <2>4 DEF Malformed, BodyAt
<1>24. AtHeaders /\ Current <= Len(sent) => AtHeaders'
    BY <1>1, <1>16, <1>21, <1>23 DEF AtHeaders
<1>25. AtBody /\ Current <= Len(sent) => AtBody'
    BY <1>1, <1>16, <1>21, <1>23 DEF AtBody
<1>26. AtEnd /\ Current <= Len(sent) => AtEnd'
    BY <1>1, <1>16, <1>20, <1>23 DEF AtEnd
<1>27. Progress'
    BY <1>1, <1>2, <1>22, <1>23, <1>24, <1>25, <1>26 DEF Progress
<1>. QED  BY <1>9, <1>14, <1>17, <1>19, <1>27 DEF ParserInv

(* A stutter changes none of it. *)
LEMMA ParserStutters == ASSUME ParserInv, UNCHANGED parserVars PROVE ParserInv'
<1>1. UNCHANGED <<sent, stream, ends, arrived, inputBuffer, context, parsing, handed, closed>>
    BY DEF parserVars
<1>2. /\ Framed' /\ HandedInOrder'
      /\ Current' = Current /\ Coming' = Coming /\ StartOf(Current)' = StartOf(Current)
      /\ Malformed(Coming)' = Malformed(Coming)
    BY <1>1, PassesKeep
<1>3. ParserTypes' /\ BufferHolds' /\ Position' = Position
    BY <1>1 DEF ParserInv, ParserTypes, BufferHolds, Position, ContextTypes, LineBytes
<1>4. BodyAt(Coming)' = BodyAt(Coming) /\ ends'[Current'] = ends[Current]
    BY <1>1, <1>2 DEF BodyAt
<1>5. /\ AtRequestLine => AtRequestLine'
      /\ AtHeaders => AtHeaders'
      /\ AtBody => AtBody'
      /\ AtEnd => AtEnd'
    <2>1. readableBytes(inputBuffer)' = readableBytes(inputBuffer)
        BY <1>1 DEF readableBytes
    <2>2. AtRequestLine => AtRequestLine'
        BY <1>1, <1>2, <1>3, <2>1 DEF AtRequestLine
    <2>3. AtHeaders => AtHeaders'
        BY <1>1, <1>2, <1>3 DEF AtHeaders
    <2>4. AtBody => AtBody'
        BY <1>1, <1>2, <1>3, <1>4 DEF AtBody
    <2>5. AtEnd => AtEnd'
        BY <1>1, <1>2, <1>3, <1>4 DEF AtEnd
    <2>. QED  BY <2>2, <2>3, <2>4, <2>5
<1>6. Progress'
    BY <1>1, <1>2, <1>5 DEF ParserInv, Progress
<1>. QED  BY <1>2, <1>3, <1>6 DEF ParserInv

(* ParserInv holds in every state the parser comes to, if the lengths that the client
   states are the ones the parser reads: for every set of messages, every size of the
   buffer and wherever the reads cut the stream. *)
THEOREM ParserInvariant == ASSUME LengthsAgree PROVE ParserSpec => []ParserInv
<1>1. ParserInit => ParserInv
    BY ParserStarts
<1>2. ParserInv /\ [ParserNext]_parserVars => ParserInv'
    <2>. SUFFICES ASSUME ParserInv, [ParserNext]_parserVars PROVE ParserInv'
        OBVIOUS
    <2>1. CASE ReadBytes  BY <2>1, ReadBytesKeeps
    <2>2. CASE parseRequestLine  BY <2>2, RequestLineKeeps
    <2>3. CASE parseHeader  BY <2>3, HeaderKeeps
    <2>4. CASE EndOfHeaders  BY <2>4, EndOfHeadersKeeps
    <2>5. CASE parseBody  BY <2>5, BodyKeeps
    <2>6. CASE WaitForMore  BY <2>6, WaitForMoreKeeps
    <2>7. CASE HandOver  BY <2>7, HandOverKeeps
    <2>8. CASE RejectAndClose  BY <2>8, RejectKeeps
    <2>9. CASE \E m \in Messages : SendMessage(m)  BY <2>9, SendMessageKeeps
    <2>10. CASE UNCHANGED parserVars  BY <2>10, ParserStutters
    <2>. QED
        BY <2>1, <2>2, <2>3, <2>4, <2>5, <2>6, <2>7, <2>8, <2>9, <2>10 DEF ParserNext, handleRead
<1>. QED  BY <1>1, <1>2, PTL DEF ParserSpec

(* RequestsAsSent for every instance: Connection::handleRead gives the callback the
   requests that were sent, whole, in order and once, and closes the connection only on
   a malformed one. *)
THEOREM RequestsArriveAsSent == ASSUME LengthsAgree PROVE ParserSpec => []RequestsAsSent
<1>1. ParserInv => RequestsAsSent
    <2>. SUFFICES ASSUME ParserInv PROVE RequestsAsSent
        OBVIOUS
    <2>1. PICK h \in Nat : h = Len(handed)
        BY StartTypes DEF ParserInv
    <2>2. /\ handed \in Seq(Messages) /\ sent \in Seq(Messages) /\ Len(sent) \in Nat
          /\ h <= Len(sent) /\ \A i \in 1..h : handed[i] = sent[i]
        BY <2>1, StartTypes DEF ParserInv, ParserTypes, HandedInOrder
    <2>3. PICK first, same : first = SubSeq(handed, 1, h) /\ same = SubSeq(sent, 1, h)
        OBVIOUS
    <2>4. /\ \A i \in 1..h : handed[i] \in Messages /\ sent[i] \in Messages
          /\ 1 \in Int /\ h \in Int
        <3>1. ASSUME NEW i \in 1..h PROVE handed[i] \in Messages
            BY <2>1, <2>2, ElementOfSeq
        <3>. QED  BY <2>2, <3>1
    <2>5. /\ first \in Seq(Messages) /\ Len(first) = (IF 1 <= h THEN h - 1 + 1 ELSE 0)
          /\ \A i \in 1..(h - 1 + 1) : first[i] = handed[1 + i - 1]
        BY <2>3, <2>4, SubSeqProperties
    <2>6. /\ same \in Seq(Messages) /\ Len(same) = (IF 1 <= h THEN h - 1 + 1 ELSE 0)
          /\ \A i \in 1..(h - 1 + 1) : same[i] = sent[1 + i - 1]
        BY <2>3, <2>4, SubSeqProperties
    <2>7. \A i \in 1..h : first[i] = same[i]
        <3>. TAKE i \in 1..h
        <3>1. i \in 1..(h - 1 + 1) /\ 1 + i - 1 = i
            OBVIOUS
        <3>. QED  BY <2>2, <2>5, <2>6, <3>1
    <2>8. Len(first) = h /\ Len(same) = h
        BY <2>5, <2>6
    <2>9. first = same
        BY <2>5, <2>6, <2>7, <2>8, SeqEqual
    <2>10. IsPrefix(handed, sent)
        BY <2>1, <2>2, <2>3, <2>9 DEF IsPrefix
    <2>11. ASSUME closed PROVE Len(handed) < Len(sent) /\ Malformed(sent[Len(handed) + 1])
        <3>1. Malformed(Coming) /\ Current <= Len(sent)
            BY <2>11 DEF ParserInv, Progress
        <3>2. h + 1 <= Len(sent) /\ Malformed(sent[Len(handed) + 1])
            BY <2>1, <3>1 DEF Coming, Current
        <3>3. h < Len(sent)
            BY <2>2, <3>2
        <3>. QED  BY <2>1, <3>2, <3>3
    <2>. QED  BY <2>10, <2>11 DEF RequestsAsSent
<1>. QED  BY <1>1, ParserInvariant, PTL

(* Where the parser waits for more, the coming message has not arrived whole. *)
LEMMA WaitsForWhatMisses ==
    ASSUME ParserInv, LengthsAgree, WaitForMore
    PROVE  Len(handed) < Len(sent) /\ arrived < ends[Len(handed) + 1]
<1>. DEFINE r == readableBytes(inputBuffer)
<1>1. parsing /\ ParserTypes /\ Framed /\ BufferHolds /\ Progress
    BY DEF WaitForMore, In, ParserInv
<1>2. Current <= Len(sent)
    BY <1>1, SomethingComes
<1>3. PICK h \in Nat, a \in Nat, from \in Nat, n \in Nat, size \in Nat :
          /\ h = Len(handed) /\ a = arrived /\ from = StartOf(Current)
          /\ n = Len(Coming.fields) /\ size = Len(Coming.body)
    <2>1. Coming \in Messages /\ StartOf(Current) \in Nat
        BY <1>1, <1>2, StartTypes DEF Coming, Current
    <2>. QED  BY <1>1, <2>1, StartTypes, EncodedBytes
<1>4. Current = h + 1 /\ r \in Nat /\ Len(sent) \in Nat /\ Current \in 1..Len(sent)
    BY <1>1, <1>2, <1>3, StartTypes DEF Current
<1>5. ends[Current] = from + (3 * n + 5 + size)
    <2>1. ends[Current] = StartOf(Current) + Len(Encoded(Coming))
        BY <1>1, <1>4 DEF Framed, Coming
    <2>2. Coming \in Messages
        BY <1>1, <1>4, StartTypes DEF Coming
    <2>3. Len(Encoded(Coming)) = 3 * n + 5 + size
        BY <1>3, <2>2, EncodedBytes DEF BodyAt
    <2>. QED  BY <1>3, <2>1, <2>3
<1>6. PICK p \in Nat, x \in Nat : p = Position /\ x = r /\ a = p + x
    <2>1. Position = a - r /\ Position \in Nat
        BY <1>1, <1>3 DEF Position, BufferHolds
    <2>. QED  BY <1>3, <1>4, <2>1
<1>7. ASSUME context.state = "kExpectRequestLine" PROVE arrived < ends[Current]
    <2>1. ~ LineHasCome
        BY <1>7 DEF WaitForMore, In
    <2>2. r < 3
        <3>1. findCRLF(inputBuffer, 0) = IF r >= 3 THEN 1 ELSE npos
            BY <1>1, <1>7, LineAhead
        <3>. QED  BY <1>4, <2>1, <3>1 DEF LineHasCome, npos
    <2>3. Position = from
        BY <1>1, <1>3, <1>7 DEF Progress, AtRequestLine
    <2>4. p = from /\ x < 3
        BY <1>6, <2>2, <2>3
    <2>5. a < from + (3 * n + 5 + size)
        BY <1>6, <2>4
    <2>. QED  BY <1>3, <1>5, <2>5
<1>8. ASSUME context.state = "kExpectHeaders" PROVE arrived < ends[Current]
    <2>1. ~ LineHasCome
        BY <1>8 DEF WaitForMore, In
    <2>2. PICK j \in Nat : j = Len(context.fields)
        BY <1>1, <1>8, LineAhead
    <2>3. j <= n
        BY <1>1, <1>3, <1>8, <2>2, LineAhead
    <2>4. r < 3 /\ (j = n => r < 2)
        <3>1. j < n => findCRLF(inputBuffer, 0) = IF r >= 3 THEN 1 ELSE npos
            BY <1>1, <1>3, <1>8, <2>2, LineAhead
        <3>2. j = n => findCRLF(inputBuffer, 0) = IF r >= 2 THEN 0 ELSE npos
            BY <1>1, <1>3, <1>8, <2>2, LineAhead
        <3>3. j < n \/ j = n
            BY <2>3
        <3>. QED  BY <1>4, <2>1, <3>1, <3>2, <3>3 DEF LineHasCome, npos
    <2>5. Position = from + 3 + 3 * j
        BY <1>1, <1>3, <1>8, <2>2 DEF Progress, AtHeaders
    <2>6. p = from + 3 + 3 * j /\ x < 3 /\ (j = n => x < 2)
        BY <1>6, <2>4, <2>5
    <2>7. from + 3 + 3 * j + x < from + (3 * n + 5 + size)
        BY <2>3, <2>6
    <2>8. a < from + (3 * n + 5 + size)
        BY <1>6, <2>6, <2>7
    <2>. QED  BY <1>3, <1>5, <2>8
<1>9. ASSUME context.state = "kExpectBody" PROVE arrived < ends[Current]
    <2>1. /\ getContentLength(context.fields) = size
          /\ ends[Current] = Position + size
        BY <1>3, <1>9, BodyAhead
    <2>2. ~ (r >= size)
        BY <1>9, <2>1 DEF WaitForMore, In, BodyHasCome
    <2>3. a < Position + size
        BY <1>4, <1>6, <2>2
    <2>. QED  BY <1>3, <2>1, <2>3
<1>10. Len(handed) + 1 = Current /\ Len(handed) < Len(sent)
    <2>1. h < Len(sent)
        BY <1>2, <1>4
    <2>. QED  BY <1>3, <1>4, <2>1
<1>. QED  BY <1>7, <1>8, <1>9, <1>10 DEF WaitForMore, In

(* HandedWhenComplete for every instance: handleRead never returns without a request
   while it has one whole. *)
THEOREM RequestsHandedWhenComplete == ASSUME LengthsAgree PROVE ParserSpec => HandedWhenComplete
<1>. DEFINE Handed == parsing /\ ~ parsing' /\ handed' = handed /\ ~ closed'
                      => Len(handed) < Len(sent) /\ arrived < ends[Len(handed) + 1]
<1>1. ParserInv /\ [ParserNext]_parserVars => [Handed]_parserVars
    <2>. SUFFICES ASSUME ParserInv, ParserNext, parsing, ~ parsing', handed' = handed, ~ closed'
                  PROVE  Len(handed) < Len(sent) /\ arrived < ends[Len(handed) + 1]
        OBVIOUS
    <2>1. ~ ReadBytes
        BY DEF ReadBytes
    <2>2. ~ parseRequestLine /\ ~ parseHeader /\ ~ EndOfHeaders /\ ~ parseBody
        BY DEF parseRequestLine, parseHeader, EndOfHeaders, parseBody, PassMakes
    <2>3. ~ RejectAndClose
        BY DEF RejectAndClose
    <2>4. ~ HandOver
        <3>. SUFFICES ASSUME HandOver PROVE FALSE
            OBVIOUS
        <3>1. Len(handed') = Len(handed) + 1 /\ Len(handed) \in Nat
            BY HandOverKeeps, StartTypes DEF ParserInv
        <3>. QED  BY <3>1
    <2>5. ~ \E m \in Messages : SendMessage(m)
        BY DEF SendMessage
    <2>6. WaitForMore
        BY <2>1, <2>2, <2>3, <2>4, <2>5 DEF ParserNext, handleRead
    <2>. QED  BY <2>6, WaitsForWhatMisses
<1>2. ParserSpec => []ParserInv
    BY ParserInvariant
<1>. QED  BY <1>1, <1>2, PTL DEF ParserSpec, HandedWhenComplete

-----------------------------------------------------------------------------
(* AsyncLogger. *)

(* The entries that were stored and not yet written. *)
Waiting == Elements(batch) \cup Elements(next) \cup Elements(current)

(* The back end's own buffer is empty unless it is about to write, and only
   full buffers are handed over. *)
BufferStates ==
    /\ batch # <<>> => thread \in {"writing", "writingRest"}
    /\ next # <<>> => Len(next) = BufferSize

(* How far the back end can be before and after the destructor. *)
ShutdownOrder ==
    /\ running <=> shutdown = "none"
    /\ thread \in {"exiting", "writingRest", "done"} => ~running
    /\ shutdown = "destroyed" => thread = "done"

(* Every stored entry is in one buffer, every written one is in the output. *)
Homes ==
    /\ \A e \in Entries : calls[e] = "stored" <=> e \in Waiting
    /\ \A e \in Entries : calls[e] = "written" <=> e \in Elements(out)
    /\ Elements(batch) \cap (Elements(next) \cup Elements(current)) = {}
    /\ Elements(next) \cap Elements(current) = {}

(* After the last drain only late entries are stored; entries are lost for want
   of a file only. *)
RestIsLate ==
    /\ thread \in {"writingRest", "done"} => Elements(next) \cup Elements(current) \subseteq late
    /\ \A e \in Entries : calls[e] = "lost" => thread = "done" /\ ~file.open

(* file_size_ is the length of the file until the last write. *)
FileHonest == thread # "done" => file.size = file.length

(* The inductive invariant. *)
IInv ==
    /\ TypeOK
    /\ BufferStates
    /\ AwakeWhenFull
    /\ ShutdownOrder
    /\ Homes
    /\ RestIsLate
    /\ FileHonest
    /\ FileBounded

-----------------------------------------------------------------------------
(* The elements of sequences. *)

LEMMA ElementsAppend ==
  ASSUME NEW S, NEW s \in Seq(S), NEW e \in S
  PROVE  /\ Append(s, e) \in Seq(S)
         /\ Len(Append(s, e)) = Len(s) + 1
         /\ Elements(Append(s, e)) = Elements(s) \cup {e}
<1> DEFINE r == Append(s, e)
<1>1. /\ Len(s) \in Nat
      /\ r \in Seq(S)
      /\ Len(r) = Len(s) + 1
      /\ \A i \in 1..Len(s) : r[i] = s[i]
      /\ r[Len(s) + 1] = e
  BY AppendProperties, LenProperties
<1> HIDE DEF r
<1>2. \A i \in 1..Len(r) : i \in 1..Len(s) \/ i = Len(s) + 1
  BY <1>1
<1>3. \A i \in 1..Len(s) : i \in 1..Len(r)
  BY <1>1
<1>4. Len(s) + 1 \in 1..Len(r)
  BY <1>1
<1>5. Elements(r) = Elements(s) \cup {e}
  BY <1>1, <1>2, <1>3, <1>4 DEF Elements
<1> QED
  BY <1>1, <1>5 DEF r

LEMMA ElementsConcat ==
  ASSUME NEW S, NEW s \in Seq(S), NEW t \in Seq(S)
  PROVE  /\ s \o t \in Seq(S)
         /\ Len(s \o t) = Len(s) + Len(t)
         /\ Elements(s \o t) = Elements(s) \cup Elements(t)
<1> DEFINE r == s \o t
<1>1. /\ Len(s) \in Nat /\ Len(t) \in Nat
      /\ r \in Seq(S)
      /\ Len(r) = Len(s) + Len(t)
      /\ \A i \in 1..Len(s) + Len(t) :
           r[i] = IF i <= Len(s) THEN s[i] ELSE t[i - Len(s)]
  BY ConcatProperties, LenProperties
<1> HIDE DEF r
<1>2. \A i \in 1..Len(s) : i \in 1..Len(r) /\ r[i] = s[i]
  BY <1>1
<1>3. ASSUME NEW i \in 1..Len(t)
      PROVE  Len(s) + i \in 1..Len(r) /\ r[Len(s) + i] = t[i]
  <2> DEFINE k == Len(s) + i
  <2>1. k \in 1..Len(s) + Len(t) /\ ~(k <= Len(s)) /\ k - Len(s) = i
    BY <1>1
  <2> HIDE DEF k
  <2>2. r[k] = t[i]
    BY <1>1, <2>1
  <2>3. k \in 1..Len(r)
    BY <1>1, <2>1
  <2> QED
    BY <2>2, <2>3 DEF k
<1>4. \A i \in 1..Len(r) :
        (i \in 1..Len(s) /\ r[i] = s[i]) \/ (i - Len(s) \in 1..Len(t) /\ r[i] = t[i - Len(s)])
  BY <1>1
<1>5. Elements(r) \subseteq Elements(s) \cup Elements(t)
  BY <1>4 DEF Elements
<1>6. Elements(s) \subseteq Elements(r)
  BY <1>2 DEF Elements
<1>7. Elements(t) \subseteq Elements(r)
  BY <1>3 DEF Elements
<1> QED
  BY <1>1, <1>5, <1>6, <1>7 DEF r

LEMMA ElementsOfThree ==
  ASSUME NEW S, NEW s \in Seq(S), NEW t \in Seq(S), NEW u \in Seq(S)
  PROVE  /\ (s \o t) \o u = s \o (t \o u)
         /\ (s \o t) \o u \in Seq(S)
         /\ Len((s \o t) \o u) = Len(s) + Len(t) + Len(u)
         /\ Elements((s \o t) \o u) = Elements(s) \cup Elements(t) \cup Elements(u)
<1> DEFINE q == s \o t
<1>1. /\ q \in Seq(S)
      /\ Len(q) = Len(s) + Len(t)
      /\ Elements(q) = Elements(s) \cup Elements(t)
  BY ElementsConcat
<1> HIDE DEF q
<1>2. /\ q \o u \in Seq(S)
      /\ Len(q \o u) = Len(q) + Len(u)
      /\ Elements(q \o u) = Elements(q) \cup Elements(u)
  <2>1. q \in Seq(S)
    BY <1>1
  <2> QED
    BY <2>1, ElementsConcat
<1>3. /\ q \o u \in Seq(S)
      /\ Len(q \o u) = Len(s) + Len(t) + Len(u)
      /\ Elements(q \o u) = Elements(s) \cup Elements(t) \cup Elements(u)
  BY <1>1, <1>2
<1> QED
  BY <1>3, ConcatAssociative DEF q

LEMMA ElementsEmpty == Elements(<<>>) = {} /\ Len(<<>>) = 0 /\ <<>> \in Seq(Entries)
BY DEF Elements

(* The elements of a sequence of entries are entries. *)
LEMMA ElementsIn ==
  ASSUME NEW S, NEW s \in Seq(S)
  PROVE  Elements(s) \subseteq S /\ Len(s) \in Nat
BY ElementOfSeq, LenProperties DEF Elements

LEMMA MarkedType ==
  ASSUME calls \in [Entries -> CallStates], NEW es, NEW mark \in CallStates
  PROVE  /\ Marked(es, mark) \in [Entries -> CallStates]
         /\ \A e \in Entries : Marked(es, mark)[e] = IF e \in es THEN mark ELSE calls[e]
BY DEF Marked

(* rollFile leaves a file in which n more units fit. *)
LEMMA RolledFits ==
  ASSUME TypeOK, FileBounded, NEW n \in Nat, n < MaxFileSize, NEW f \in RolledFor(n),
         file.size = file.length
  PROVE  /\ f \in [open : BOOLEAN, size : Nat, length : Nat]
         /\ f.size = f.length
         /\ f.length + n < MaxFileSize
<1>1. CASE file.size + n >= MaxFileSize
  <2>1. PICK ok \in Opened : f = [open |-> ok, size |-> 0, length |-> 0]
    BY <1>1 DEF RolledFor
  <2>2. ok \in BOOLEAN
    BY DEF Opened
  <2> QED
    BY <2>1, <2>2
<1>2. CASE ~(file.size + n >= MaxFileSize)
  <2>1. f = file
    BY <1>2 DEF RolledFor
  <2> QED
    BY <1>2, <2>1, LoggerAssumption DEF TypeOK
<1> QED
  BY <1>1, <1>2

-----------------------------------------------------------------------------
(* What the steps of log, of the back end and of the destructor preserve. *)

LEMMA AdmitKeeps ==
  ASSUME IInv, NEW e \in Entries, Admit(e)
  PROVE  IInv'
<1>1. calls[e] = "new" /\ calls' \in [Entries -> CallStates]
      /\ calls'[e] \in {"admitted", "ignored"}
      /\ \A x \in Entries \ {e} : calls'[x] = calls[x]
  BY DEF Admit, MayCall, IInv, TypeOK, CallStates
<1>2. TypeOK' /\ BufferStates' /\ AwakeWhenFull' /\ ShutdownOrder' /\ FileHonest' /\ FileBounded'
  BY <1>1 DEF Admit, IInv, TypeOK, BufferStates, AwakeWhenFull, ShutdownOrder, FileHonest, FileBounded
<1>3. Homes' /\ RestIsLate'
  BY <1>1 DEF Admit, IInv, Homes, Waiting, RestIsLate
<1> QED
  BY <1>2, <1>3 DEF IInv

(* A stored entry joins those of the two buffers log fills. *)
LEMMA StoredKeeps ==
  ASSUME IInv, NEW e \in Entries, calls[e] = "admitted", Stored(e),
         UNCHANGED <<running, batch, file, out, shutdown>>,
         thread' = thread \/ (thread = "asleep" /\ thread' = "locking"),
         Elements(next') \cup Elements(current')
           = Elements(next) \cup Elements(current) \cup {e},
         Elements(next') \cap Elements(current') = {}
  PROVE  /\ calls' \in [Entries -> CallStates] /\ late' \subseteq Entries
         /\ ShutdownOrder' /\ Homes' /\ RestIsLate' /\ FileHonest' /\ FileBounded'
<1>1. /\ calls' \in [Entries -> CallStates] /\ calls'[e] = "stored"
      /\ \A x \in Entries \ {e} : calls'[x] = calls[x]
  BY DEF Stored, IInv, TypeOK, CallStates
<1>2. late' \subseteq Entries /\ late \subseteq late' /\ (~running => e \in late')
  BY DEF Stored, IInv, TypeOK
<1>3. ShutdownOrder' /\ FileHonest' /\ FileBounded'
  BY DEF IInv, ShutdownOrder, FileHonest, FileBounded
<1>4. e \notin Waiting /\ e \notin Elements(out)
  BY DEF IInv, Homes
<1>5. Homes'
  BY <1>1, <1>4 DEF IInv, Homes, Waiting
<1>6. RestIsLate'
  BY <1>1, <1>2 DEF IInv, RestIsLate, ShutdownOrder
<1> QED
  BY <1>1, <1>2, <1>3, <1>5, <1>6

LEMMA StoreKeeps ==
  ASSUME IInv, NEW e \in Entries, Store(e)
  PROVE  IInv'
<1> USE LoggerAssumption
<1>1. /\ calls[e] = "admitted" /\ thread # "blocking"
      /\ UNCHANGED <<running, batch, file, out, shutdown>>
      /\ current \in Seq(Entries) /\ next \in Seq(Entries)
      /\ e \notin Elements(current) /\ e \notin Elements(next)
      /\ Elements(next) \cap Elements(current) = {}
  BY DEF Store, Unlocked, IInv, TypeOK, Homes, Waiting
<1>2. CASE StoreInCurrent(e)
  <2>1. /\ current' \in Seq(Entries) /\ Len(current') <= BufferSize
        /\ Elements(current') = Elements(current) \cup {e}
        /\ next' = next /\ thread' = thread /\ Stored(e)
    BY <1>1, <1>2, ElementsAppend, ElementsIn DEF StoreInCurrent
  <2>2. /\ calls' \in [Entries -> CallStates] /\ late' \subseteq Entries
        /\ ShutdownOrder' /\ Homes' /\ RestIsLate' /\ FileHonest' /\ FileBounded'
    BY <1>1, <2>1, StoredKeeps
  <2>3. TypeOK'
    BY <1>1, <2>1, <2>2 DEF IInv, TypeOK
  <2>4. BufferStates' /\ AwakeWhenFull'
    BY <1>1, <2>1 DEF IInv, BufferStates, AwakeWhenFull
  <2> QED
    BY <2>2, <2>3, <2>4 DEF IInv
<1>3. CASE StoreAfterSwap(e)
  <2>1. /\ next = <<>> /\ next' = current /\ current' = <<e>> /\ Stored(e) /\ WakeBackEnd
        /\ Len(current) = BufferSize
    BY <1>1, <1>3, ElementsIn DEF StoreAfterSwap, IInv, TypeOK
  <2>2. current' \in Seq(Entries) /\ Len(current') = 1 /\ Elements(current') = {e}
    BY <2>1 DEF Elements
  <2>3. thread' = thread \/ (thread = "asleep" /\ thread' = "locking")
    BY <2>1 DEF WakeBackEnd
  <2>4. /\ calls' \in [Entries -> CallStates] /\ late' \subseteq Entries
        /\ ShutdownOrder' /\ Homes' /\ RestIsLate' /\ FileHonest' /\ FileBounded'
    BY <1>1, <2>1, <2>2, <2>3, ElementsEmpty, StoredKeeps
  <2>5. TypeOK'
    BY <1>1, <2>1, <2>2, <2>3, <2>4 DEF IInv, TypeOK, ThreadStates
  <2>6. BufferStates' /\ AwakeWhenFull'
    BY <1>1, <2>1 DEF IInv, BufferStates, AwakeWhenFull, WakeBackEnd
  <2> QED
    BY <2>4, <2>5, <2>6 DEF IInv
<1>4. CASE Drop(e)
  <2>1. /\ calls' \in [Entries -> CallStates] /\ calls'[e] = "dropped"
        /\ \A x \in Entries \ {e} : calls'[x] = calls[x]
        /\ UNCHANGED <<current, next, thread, late>>
    BY <1>4 DEF Drop, IInv, TypeOK, CallStates
  <2>2. TypeOK' /\ BufferStates' /\ AwakeWhenFull' /\ ShutdownOrder' /\ FileHonest' /\ FileBounded'
    BY <1>1, <2>1 DEF IInv, TypeOK, BufferStates, AwakeWhenFull, ShutdownOrder, FileHonest, FileBounded
  <2>3. Homes' /\ RestIsLate'
    BY <1>1, <2>1 DEF IInv, Homes, Waiting, RestIsLate
  <2> QED
    BY <2>2, <2>3 DEF IInv
<1> QED
  BY <1>2, <1>3, <1>4 DEF Store

LEMMA StoreIntoDestroyedKeeps ==
  ASSUME IInv, NEW e \in Entries, StoreIntoDestroyed(e)
  PROVE  IInv'
<1>1. /\ calls[e] = "admitted" /\ calls' \in [Entries -> CallStates]
      /\ calls'[e] = "undefined"
      /\ \A x \in Entries \ {e} : calls'[x] = calls[x]
  BY DEF StoreIntoDestroyed, IInv, TypeOK, CallStates
<1>2. TypeOK' /\ BufferStates' /\ AwakeWhenFull' /\ ShutdownOrder' /\ FileHonest' /\ FileBounded'
  BY <1>1 DEF StoreIntoDestroyed, IInv, TypeOK, BufferStates, AwakeWhenFull, ShutdownOrder,
              FileHonest, FileBounded
<1>3. Homes' /\ RestIsLate'
  BY <1>1 DEF StoreIntoDestroyed, IInv, Homes, Waiting, RestIsLate
<1> QED
  BY <1>2, <1>3 DEF IInv

(* Steps that move the back end or the destructor and no entry. *)
LEMMA ControlKeeps ==
  ASSUME IInv,
         UNCHANGED <<current, next, batch, file, out, calls, late>>,
         running' \in BOOLEAN, thread' \in ThreadStates,
         shutdown' \in {"none", "stopped", "joining", "destroyed"},
         thread # thread' => batch = <<>>,
         ShutdownOrder', AwakeWhenFull',
         thread' = "writingRest" => thread = "writingRest",
         thread' = "done" <=> thread = "done"
  PROVE  IInv'
<1>1. TypeOK' /\ BufferStates'
  BY DEF IInv, TypeOK, BufferStates
<1>2. Homes' /\ RestIsLate' /\ FileHonest' /\ FileBounded'
  BY DEF IInv, Homes, Waiting, RestIsLate, FileHonest, FileBounded
<1> QED
  BY <1>1, <1>2 DEF IInv

LEMMA BackEndControl ==
  ASSUME IInv, Loop \/ FindNothing \/ Block \/ SpuriousWakeup \/ Timeout
  PROVE  IInv'
<1>1. /\ UNCHANGED <<running, current, next, batch, file, out, calls, late, shutdown>>
      /\ thread' \in ThreadStates /\ batch = <<>>
      /\ thread' \notin {"writingRest", "done"} /\ thread \notin {"writingRest", "done"}
      /\ thread' = "exiting" => ~running
  BY DEF Loop, FindNothing, Block, SpuriousWakeup, Timeout, ThreadStates, IInv, BufferStates
<1>2. AwakeWhenFull'
  BY DEF Loop, FindNothing, WaitOver, Block, SpuriousWakeup, Timeout, IInv, AwakeWhenFull
<1>3. ShutdownOrder'
  BY <1>1 DEF IInv, ShutdownOrder
<1> QED
  BY <1>1, <1>2, <1>3, ControlKeeps DEF IInv, TypeOK

LEMMA ShutdownKeeps ==
  ASSUME IInv, Shutdown
  PROVE  IInv'
<1>1. /\ UNCHANGED <<current, next, batch, file, out, calls, late>>
      /\ running' \in BOOLEAN
      /\ shutdown' \in {"none", "stopped", "joining", "destroyed"}
      /\ thread' = thread \/ (thread = "asleep" /\ thread' = "locking")
  BY DEF Shutdown, ShutdownStop, ShutdownNotifyAll, ShutdownJoin, WakeBackEnd, IInv, TypeOK
<1>2. ShutdownOrder'
  BY <1>1 DEF Shutdown, ShutdownStop, ShutdownNotifyAll, ShutdownJoin, IInv, ShutdownOrder
<1>3. AwakeWhenFull' /\ thread' \in ThreadStates /\ (thread # thread' => batch = <<>>)
  BY <1>1 DEF IInv, TypeOK, ThreadStates, AwakeWhenFull, BufferStates
<1> QED
  BY <1>1, <1>2, <1>3, ControlKeeps

(* The back end takes one buffer. *)
LEMMA TakeKeeps ==
  ASSUME IInv, Take
  PROVE  IInv'
<1> USE LoggerAssumption
<1>1. /\ UNCHANGED <<running, file, out, calls, late, shutdown>>
      /\ batch = <<>> /\ thread \in {"expired", "locking"}
      /\ thread' = IF batch' = <<>> THEN "loop" ELSE "writing"
  BY DEF Take, Reached, IInv, BufferStates
<1>2. \/ batch' = next /\ next' = <<>> /\ current' = current
      \/ next = <<>> /\ batch' = current /\ current' = <<>> /\ next' = next
  BY DEF Take
<1>3. TypeOK'
  <2>1. /\ current \in Seq(Entries) /\ Len(current) \in Nat /\ Len(current) <= BufferSize
        /\ next \in Seq(Entries) /\ Len(next) \in Nat /\ Len(next) <= BufferSize
    BY ElementsIn DEF IInv, TypeOK
  <2>2. /\ current' \in Seq(Entries) /\ Len(current') <= BufferSize
        /\ next' \in Seq(Entries) /\ Len(next') <= BufferSize
    <3>1. <<>> \in Seq(Entries) /\ Len(<<>>) = 0 /\ 0 <= BufferSize
      BY ElementsEmpty
    <3>2. CASE batch' = next /\ next' = <<>> /\ current' = current
      BY <2>1, <3>1, <3>2
    <3>3. CASE next = <<>> /\ batch' = current /\ current' = <<>> /\ next' = next
      BY <2>1, <3>1, <3>3
    <3> QED
      BY <1>2, <3>2, <3>3
  <2>3. batch' \in Seq(Entries) /\ Len(batch') <= 2 * BufferSize
    BY <1>2, <2>1
  <2> QED
    BY <1>1, <2>2, <2>3 DEF IInv, TypeOK, ThreadStates
<1>4. BufferStates' /\ AwakeWhenFull' /\ ShutdownOrder' /\ FileHonest' /\ FileBounded'
  BY <1>1, <1>2 DEF IInv, BufferStates, AwakeWhenFull, ShutdownOrder, FileHonest, FileBounded
<1>5. Homes'
  BY <1>1, <1>2, ElementsEmpty DEF IInv, Homes, Waiting
<1>6. RestIsLate'
  BY <1>1 DEF IInv, RestIsLate
<1> QED
  BY <1>3, <1>4, <1>5, <1>6 DEF IInv

LEMMA TakeRestKeeps ==
  ASSUME IInv, TakeRest
  PROVE  IInv'
<1> USE LoggerAssumption
<1>1. /\ UNCHANGED <<running, file, out, calls, late, shutdown>>
      /\ batch = <<>> /\ next' = <<>> /\ current' = <<>>
      /\ thread = "exiting" /\ thread' = "writingRest"
  BY DEF TakeRest, IInv, BufferStates
<1>2. /\ batch' \in Seq(Entries)
      /\ Len(batch') = Len(next) + Len(current)
      /\ Elements(batch') = Elements(next) \cup Elements(current)
  BY ElementsConcat DEF TakeRest, IInv, TypeOK
<1>3. Len(batch') <= 2 * BufferSize
  BY <1>2, ElementsIn DEF IInv, TypeOK
<1>4. TypeOK'
  BY <1>1, <1>2, <1>3, ElementsEmpty DEF IInv, TypeOK, ThreadStates
<1>5. BufferStates' /\ AwakeWhenFull' /\ ShutdownOrder' /\ FileHonest' /\ FileBounded'
  BY <1>1 DEF IInv, BufferStates, AwakeWhenFull, ShutdownOrder, FileHonest, FileBounded
<1>6. Homes'
  BY <1>1, <1>2, ElementsEmpty DEF IInv, Homes, Waiting
<1>7. RestIsLate'
  BY <1>1, ElementsEmpty DEF IInv, RestIsLate
<1> QED
  BY <1>4, <1>5, <1>6, <1>7 DEF IInv

(* The batch goes into the output, or (without a file) is lost. *)
LEMMA EmitKeeps ==
  ASSUME IInv, NEW mark \in {"written", "lost"},
         UNCHANGED <<running, current, next, late, shutdown>>,
         batch' = <<>>,
         calls' = Marked(Elements(batch), mark),
         out' = IF mark = "written" THEN out \o batch ELSE out
  PROVE  /\ calls' \in [Entries -> CallStates]
         /\ \A e \in Entries : calls'[e] = IF e \in Elements(batch) THEN mark ELSE calls[e]
         /\ out' \in Seq(Entries)
         /\ Homes'
<1>1. /\ calls' \in [Entries -> CallStates]
      /\ \A e \in Entries : calls'[e] = IF e \in Elements(batch) THEN mark ELSE calls[e]
  BY MarkedType DEF IInv, TypeOK, CallStates
<1>2. /\ out' \in Seq(Entries)
      /\ mark = "written" => Elements(out') = Elements(out) \cup Elements(batch)
      /\ mark = "lost" => out' = out
  BY ElementsConcat DEF IInv, TypeOK
<1>3. \A e \in Elements(batch) : e \notin Elements(out)
  <2>1. Elements(batch) \subseteq Entries
    BY ElementsIn DEF IInv, TypeOK
  <2> QED
    BY <2>1 DEF IInv, Homes, Waiting
<1>4. Homes'
  BY <1>1, <1>2, <1>3, ElementsEmpty DEF IInv, Homes, Waiting
<1> QED
  BY <1>1, <1>2, <1>4

LEMMA WriteKeeps ==
  ASSUME IInv, Write
  PROVE  IInv'
<1> USE LoggerAssumption
<1>1. /\ UNCHANGED <<running, current, next, late, shutdown>>
      /\ batch' = <<>> /\ thread = "writing" /\ thread' = "loop"
      /\ calls' = Marked(Elements(batch), "written")
      /\ out' = out \o batch
  BY DEF Write
<1>2. /\ calls' \in [Entries -> CallStates]
      /\ \A e \in Entries : calls'[e] = IF e \in Elements(batch) THEN "written" ELSE calls[e]
      /\ out' \in Seq(Entries)
      /\ Homes'
  BY <1>1, EmitKeeps
<1>3. Len(batch) \in Nat /\ Len(batch) < MaxFileSize
  BY ElementsIn DEF IInv, TypeOK
<1>4. PICK f \in RolledFor(Len(batch)) :
        file' = IF f.open
                THEN [f EXCEPT !.size = @ + Len(batch), !.length = @ + Len(batch)]
                ELSE f
  BY DEF Write
<1>5. /\ f \in [open : BOOLEAN, size : Nat, length : Nat]
      /\ f.size = f.length /\ f.length + Len(batch) < MaxFileSize
  BY <1>1, <1>3, RolledFits DEF IInv, FileHonest
<1>6. /\ file' \in [open : BOOLEAN, size : Nat, length : Nat]
      /\ file'.size = file'.length /\ file'.length < MaxFileSize
  <2> DEFINE n == Len(batch)
  <2>1. n \in Nat
    BY <1>3
  <2> HIDE DEF n
  <2>2. CASE f.open
    <3>1. file' = [f EXCEPT !.size = f.size + n, !.length = f.length + n]
      BY <1>4, <2>2 DEF n
    <3>2. f.size + n \in Nat /\ f.length + n \in Nat /\ f.length + n < MaxFileSize
      BY <1>5, <2>1 DEF n
    <3>3. file' = [open |-> f.open, size |-> f.size + n, length |-> f.length + n]
      BY <1>5, <3>1
    <3> QED
      BY <1>5, <3>2, <3>3
  <2>3. CASE ~f.open
    BY <1>3, <1>4, <1>5, <2>3
  <2> QED
    BY <2>2, <2>3
<1>7. TypeOK'
  BY <1>1, <1>2, <1>6, ElementsEmpty DEF IInv, TypeOK, ThreadStates
<1>8. BufferStates' /\ AwakeWhenFull' /\ ShutdownOrder' /\ FileHonest' /\ FileBounded'
  BY <1>1, <1>6 DEF IInv, BufferStates, AwakeWhenFull, ShutdownOrder, FileHonest, FileBounded
<1>9. RestIsLate'
  BY <1>1, <1>2 DEF IInv, RestIsLate
<1> QED
  BY <1>2, <1>7, <1>8, <1>9 DEF IInv

LEMMA WriteRestKeeps ==
  ASSUME IInv, WriteRest
  PROVE  IInv'
<1> USE LoggerAssumption
<1>1. /\ UNCHANGED <<running, current, next, late, shutdown>>
      /\ batch' = <<>> /\ thread = "writingRest" /\ thread' = "done"
  BY DEF WriteRest
<1>2. BufferStates' /\ AwakeWhenFull' /\ ShutdownOrder' /\ FileHonest'
  BY <1>1 DEF IInv, BufferStates, AwakeWhenFull, ShutdownOrder, FileHonest
<1>3. CASE batch = <<>>
  <2>1. UNCHANGED <<file, out, calls>>
    BY <1>3 DEF WriteRest
  <2>2. TypeOK' /\ FileBounded'
    BY <1>1, <2>1, ElementsEmpty DEF IInv, TypeOK, FileBounded, ThreadStates
  <2>3. Homes' /\ RestIsLate'
    BY <1>1, <1>3, <2>1 DEF IInv, Homes, Waiting, RestIsLate
  <2> QED
    BY <1>2, <2>2, <2>3 DEF IInv
<1>4. CASE batch # <<>>
  <2>1. PICK f \in RolledFor(Len(batch)) :
          IF f.open
          THEN /\ file' = [f EXCEPT !.length = @ + Len(batch)]
               /\ out' = out \o batch
               /\ calls' = Marked(Elements(batch), "written")
          ELSE /\ file' = f
               /\ out' = out
               /\ calls' = Marked(Elements(batch), "lost")
    BY <1>4 DEF WriteRest
  <2>2. Len(batch) \in Nat /\ Len(batch) < MaxFileSize
    BY ElementsIn DEF IInv, TypeOK
  <2>3. /\ f \in [open : BOOLEAN, size : Nat, length : Nat]
        /\ f.size = f.length /\ f.length + Len(batch) < MaxFileSize
    BY <1>1, <2>2, RolledFits DEF IInv, FileHonest
  <2>4. /\ file' \in [open : BOOLEAN, size : Nat, length : Nat]
        /\ file'.length < MaxFileSize /\ file'.open = f.open
    BY <2>1, <2>2, <2>3
  <2> DEFINE mark == IF f.open THEN "written" ELSE "lost"
  <2>5. /\ mark \in {"written", "lost"}
        /\ mark = "lost" => ~f.open
        /\ calls' = Marked(Elements(batch), mark)
        /\ out' = IF mark = "written" THEN out \o batch ELSE out
    BY <2>1
  <2> HIDE DEF mark
  <2>6. /\ calls' \in [Entries -> CallStates]
        /\ \A e \in Entries : calls'[e] = IF e \in Elements(batch) THEN mark ELSE calls[e]
        /\ out' \in Seq(Entries)
        /\ Homes'
    BY <1>1, <2>5, EmitKeeps
  <2>7. TypeOK' /\ FileBounded'
    BY <1>1, <2>4, <2>6, ElementsEmpty DEF IInv, TypeOK, FileBounded, ThreadStates
  <2>8. RestIsLate'
    BY <1>1, <2>4, <2>5, <2>6 DEF IInv, RestIsLate
  <2> QED
    BY <1>2, <2>6, <2>7, <2>8 DEF IInv
<1> QED
  BY <1>3, <1>4

-----------------------------------------------------------------------------
(* IInv is inductive: it holds initially ... *)
LEMMA Initially == Init => IInv
<1> SUFFICES ASSUME Init PROVE IInv
  OBVIOUS
<1> USE LoggerAssumption
<1>1. file \in [open : BOOLEAN, size : Nat, length : Nat] /\ file.size = 0 /\ file.length = 0
  <2>1. PICK ok \in Opened : file = [open |-> ok, size |-> 0, length |-> 0]
    BY DEF Init
  <2>2. ok \in BOOLEAN
    BY DEF Opened
  <2> QED
    BY <2>1, <2>2
<1>2. TypeOK
  BY <1>1, ElementsEmpty DEF Init, TypeOK, CallStates, ThreadStates
<1>3. Homes
  BY ElementsEmpty DEF Init, Homes, Waiting
<1>4. BufferStates /\ AwakeWhenFull /\ ShutdownOrder /\ RestIsLate /\ FileHonest /\ FileBounded
  BY <1>1 DEF Init, BufferStates, AwakeWhenFull, ShutdownOrder, RestIsLate, FileHonest, FileBounded
<1> QED
  BY <1>2, <1>3, <1>4 DEF IInv

(* ... and every step keeps it. *)
LEMMA Inductive == IInv /\ [Next]_vars => IInv'
<1> SUFFICES ASSUME IInv, [Next]_vars PROVE IInv'
  OBVIOUS
<1>1. CASE UNCHANGED vars
  BY <1>1 DEF vars, IInv, TypeOK, BufferStates, AwakeWhenFull, ShutdownOrder, Homes, Waiting,
              RestIsLate, FileHonest, FileBounded
<1>2. ASSUME NEW e \in Entries, Log(e) PROVE IInv'
  BY <1>2, AdmitKeeps, StoreKeeps, StoreIntoDestroyedKeeps DEF Log
<1>3. CASE BackEnd
  BY <1>3, BackEndControl, TakeKeeps, WriteKeeps, TakeRestKeeps, WriteRestKeeps DEF BackEnd
<1>4. CASE SpuriousWakeup
  BY <1>4, BackEndControl
<1>5. CASE Shutdown
  BY <1>5, ShutdownKeeps
<1> QED
  BY <1>1, <1>2, <1>3, <1>4, <1>5 DEF Next

LEMMA Invariance == Spec => []IInv
BY Initially, Inductive, PTL DEF Spec

(* Every field keeps its type, and no vector of entries outgrows the capacity
   it was allocated with. *)
THEOREM TypeCorrect == Spec => []TypeOK
<1>1. IInv => TypeOK
  BY DEF IInv
<1> QED
  BY <1>1, Invariance, PTL

(* The back end never sleeps on a buffer that was handed over, although log
   notifies only at the swap. *)
THEOREM FullBuffersWake == Spec => []AwakeWhenFull
<1>1. IInv => AwakeWhenFull
  BY DEF IInv
<1> QED
  BY <1>1, Invariance, PTL

(* When the destructor returns, with a file, all that was stored in time is
   in the file. *)
THEOREM NothingLeft == Spec => []NothingLeftBehind
<1>1. IInv => NothingLeftBehind
  <2> SUFFICES ASSUME IInv, shutdown = "destroyed", file.open,
                      NEW e \in Entries \ late
               PROVE  calls[e] \notin {"stored", "lost"}
    BY DEF NothingLeftBehind
  <2>1. thread = "done" /\ Elements(batch) = {}
    BY ElementsEmpty DEF IInv, ShutdownOrder, BufferStates
  <2>2. calls[e] # "stored"
    BY <2>1 DEF IInv, Homes, Waiting, RestIsLate
  <2>3. calls[e] # "lost"
    BY DEF IInv, RestIsLate
  <2> QED
    BY <2>2, <2>3
<1> QED
  BY <1>1, Invariance, PTL

(* No log file reaches MAX_FILE_SIZE, the last one included, whose size is not
   counted any more. *)
THEOREM FilesStaySmall == Spec => []FileBounded
<1>1. IInv => FileBounded
  BY DEF IInv
<1> QED
  BY <1>1, Invariance, PTL

-----------------------------------------------------------------------------
(* The logger as LogService sees it. *)

LEMMA SameElements == \A s : Service!Elements(s) = Elements(s)
BY DEF Service!Elements, Elements

(* A concatenation splits where its parts meet. *)
LEMMA SplitConcat ==
  ASSUME NEW S, NEW s \in Seq(S), NEW t \in Seq(S)
  PROVE  /\ SubSeq(s \o t, 1, Len(s)) = s
         /\ SubSeq(s \o t, Len(s) + 1, Len(s \o t)) = t
<1> DEFINE r == s \o t
           u == SubSeq(r, 1, Len(s))
           v == SubSeq(r, Len(s) + 1, Len(s) + Len(t))
<1>1. /\ Len(s) \in Nat /\ Len(t) \in Nat
      /\ r \in Seq(S)
      /\ Len(r) = Len(s) + Len(t)
      /\ \A i \in 1..Len(s) + Len(t) :
           r[i] = IF i <= Len(s) THEN s[i] ELSE t[i - Len(s)]
  BY ConcatProperties, LenProperties
<1> HIDE DEF r
<1>2. \A i \in 1..Len(s) + Len(t) : r[i] \in S
  BY <1>1, ElementOfSeq
<1>3. u = s
  <2>1. \A i \in 1..Len(s) : r[i] \in S
    BY <1>1, <1>2
  <2>2. u \in Seq(S) /\ Len(u) = Len(s) /\ \A i \in 1..Len(s) : u[i] = r[i]
    BY <1>1, <2>1, SubSeqProperties
  <2>3. \A i \in 1..Len(s) : u[i] = s[i]
    BY <1>1, <2>2
  <2> QED
    BY <2>2, <2>3, SeqEqual
<1>4. v = t
  <2>1. \A i \in Len(s) + 1..Len(s) + Len(t) : r[i] \in S
    BY <1>1, <1>2
  <2>2. /\ v \in Seq(S) /\ Len(v) = Len(t)
        /\ \A i \in 1..Len(t) : v[i] = r[Len(s) + i]
    <3>1. Len(s) + 1 \in Int /\ Len(s) + Len(t) \in Int
      BY <1>1
    <3>2. /\ v \in Seq(S)
          /\ Len(v) = IF Len(s) + 1 <= Len(s) + Len(t)
                      THEN Len(s) + Len(t) - (Len(s) + 1) + 1 ELSE 0
          /\ \A i \in 1..Len(s) + Len(t) - (Len(s) + 1) + 1 : v[i] = r[Len(s) + 1 + i - 1]
      BY <2>1, <3>1, SubSeqProperties
    <3>3. Len(v) = Len(t) /\ Len(s) + Len(t) - (Len(s) + 1) + 1 = Len(t)
      BY <1>1, <3>2
    <3>4. \A i \in 1..Len(t) : Len(s) + 1 + i - 1 = Len(s) + i
      BY <1>1
    <3> QED
      BY <3>2, <3>3, <3>4
  <2>3. ASSUME NEW i \in 1..Len(t) PROVE v[i] = t[i]
    <3> DEFINE k == Len(s) + i
    <3>1. k \in 1..Len(s) + Len(t) /\ ~(k <= Len(s)) /\ k - Len(s) = i
      BY <1>1
    <3>2. v[i] = r[k]
      BY <2>2
    <3> HIDE DEF k
    <3> QED
      BY <1>1, <3>1, <3>2
  <2> QED
    BY <2>2, <2>3, SeqEqual
<1> QED
  BY <1>1, <1>3, <1>4 DEF r

(* The line until the back end is done. *)
LEMMA LineWhileOpen ==
  ASSUME IInv, thread # "done"
  PROVE  /\ Line = batch \o (next \o current)
         /\ Line \in Seq(Entries)
         /\ Len(Line) = Len(batch) + Len(next) + Len(current)
         /\ Elements(Line) = Waiting
<1>1. batch \in Seq(Entries) /\ next \in Seq(Entries) /\ current \in Seq(Entries)
  BY DEF IInv, TypeOK
<1> QED
  BY <1>1, ElementsOfThree DEF Line, Waiting

(* A call that has not stored or refused its entry is new to the service. *)
LEMMA UnseenYet ==
  ASSUME IInv, NEW e \in Entries, calls[e] \in {"new", "admitted"}
  PROVE  Service!Unseen(e)
<1>1. e \notin Waiting /\ e \notin Elements(out) /\ e \notin Refused
  BY DEF IInv, Homes, Refused
<1>2. Elements(Line) \subseteq Waiting
  BY LineWhileOpen, ElementsEmpty DEF Line
<1> QED
  BY <1>1, <1>2, SameElements DEF Service!Unseen

(* A call that ends without storing its entry. *)
LEMMA RefusedOne ==
  ASSUME IInv, NEW e \in Entries, NEW mark \in {"ignored", "dropped", "undefined"},
         calls[e] \in {"new", "admitted"},
         calls' = [calls EXCEPT ![e] = mark],
         UNCHANGED <<running, current, next, batch, thread, out>>,
         Phase # "open" \/ Len(Line) >= 2 * BufferSize
  PROVE  Service!Refuse(e)
<1>1. Refused' = Refused \cup {e}
  BY DEF Refused, IInv, TypeOK
<1>2. Line' = Line /\ Phase' = Phase
  BY DEF Line, Phase
<1> QED
  BY <1>1, <1>2, UnseenYet DEF Service!Refuse

(* Steps that move no entry and stay on one side of the end of the back end. *)
LEMMA Unnoticed ==
  ASSUME UNCHANGED <<running, out, calls>>,
         thread # "done", thread' # "done",
         Line' = Line
  PROVE  UNCHANGED Service!vars
BY DEF Service!vars, Refused, Phase

LEMMA AdmitRefines ==
  ASSUME IInv, NEW e \in Entries, Admit(e)
  PROVE  Service!Next \/ UNCHANGED Service!vars
<1>1. calls[e] = "new"
  BY DEF Admit, MayCall
<1>2. CASE running
  <2>1. Refused' = Refused
    BY <1>1, <1>2 DEF Admit, Refused, IInv, TypeOK
  <2>2. Line' = Line /\ Phase' = Phase /\ out' = out
    BY DEF Admit, Line, Phase
  <2> QED
    BY <2>1, <2>2 DEF Service!vars
<1>3. CASE ~running
  <2>1. Service!Refuse(e)
    BY <1>1, <1>3, RefusedOne DEF Admit, Phase
  <2> QED
    BY <2>1 DEF Service!Next
<1> QED
  BY <1>2, <1>3

(* An entry that is stored joins the end of the line, or comes too late. *)
LEMMA StoredRefines ==
  ASSUME IInv, NEW e \in Entries, calls[e] = "admitted", Stored(e),
         UNCHANGED <<running, batch, out>>,
         thread' = thread \/ (thread = "asleep" /\ thread' = "locking"),
         thread # "done" => Line' = Append(Line, e)
  PROVE  Service!Next
<1>1. Service!Unseen(e)
  BY UnseenYet
<1>2. Phase' = Phase
  BY DEF Phase
<1>3. CASE thread = "done"
  <2>1. Refused' = Refused \cup {e} /\ Line' = Line /\ Phase = "closed"
    BY <1>3 DEF Refused, Line, Phase, Stored, IInv, TypeOK
  <2>2. Service!Refuse(e)
    BY <1>1, <1>2, <2>1 DEF Service!Refuse
  <2> QED
    BY <2>2 DEF Service!Next
<1>4. CASE thread # "done"
  <2>1. Refused' = Refused /\ Phase # "closed"
    BY <1>4 DEF Refused, Phase, Stored, IInv, TypeOK
  <2>2. Service!Accept(e)
    BY <1>1, <1>2, <1>4, <2>1 DEF Service!Accept
  <2> QED
    BY <2>2 DEF Service!Next
<1> QED
  BY <1>3, <1>4

LEMMA StoreRefines ==
  ASSUME IInv, NEW e \in Entries, Store(e)
  PROVE  Service!Next
<1> USE LoggerAssumption
<1>1. /\ calls[e] = "admitted" /\ UNCHANGED <<running, batch, out>>
      /\ batch \in Seq(Entries) /\ next \in Seq(Entries) /\ current \in Seq(Entries)
      /\ batch \o next \in Seq(Entries)
      /\ <<e>> \in Seq(Entries)
  BY ConcatProperties DEF Store, IInv, TypeOK
<1>2. CASE StoreInCurrent(e)
  <2>1. next' = next /\ thread' = thread /\ current' = Append(current, e) /\ Stored(e)
    BY <1>2 DEF StoreInCurrent
  <2>2. ASSUME thread # "done" PROVE Line' = Append(Line, e)
    <3> DEFINE q == batch \o next
    <3>1. q \in Seq(Entries) /\ Line = q \o current /\ Line' = q \o current'
      BY <1>1, <2>1, <2>2 DEF Line
    <3> HIDE DEF q
    <3>2. current' = current \o <<e>>
      BY <1>1, <2>1, AppendIsConcat
    <3>3. Line' = (q \o current) \o <<e>>
      <4>1. q \in Seq(Entries) /\ current \in Seq(Entries) /\ <<e>> \in Seq(Entries)
        BY <1>1, <3>1
      <4>2. (q \o current) \o <<e>> = q \o (current \o <<e>>)
        BY <4>1, ConcatAssociative
      <4> QED
        BY <3>1, <3>2, <4>2
    <3>4. Append(Line, e) = Line \o <<e>>
      BY <2>2, LineWhileOpen, AppendIsConcat
    <3> QED
      BY <3>1, <3>3, <3>4
  <2> QED
    BY <1>1, <2>1, <2>2, StoredRefines
<1>3. CASE StoreAfterSwap(e)
  <2>1. next = <<>> /\ next' = current /\ current' = <<e>> /\ Stored(e)
        /\ (thread' = thread \/ (thread = "asleep" /\ thread' = "locking"))
    BY <1>3 DEF StoreAfterSwap, WakeBackEnd
  <2>2. ASSUME thread # "done" PROVE Line' = Append(Line, e)
    <3>1. Line = batch \o current
      BY <1>1, <2>1, <2>2, ConcatEmptySeq DEF Line
    <3>2. Line' = (batch \o current) \o <<e>>
      BY <1>1, <2>1, <2>2 DEF Line
    <3> QED
      BY <2>2, <3>1, <3>2, LineWhileOpen, AppendIsConcat
  <2> QED
    BY <1>1, <2>1, <2>2, StoredRefines
<1>4. CASE Drop(e)
  <2>1. Len(next) = BufferSize /\ Len(current) = BufferSize /\ Len(batch) \in Nat
    BY <1>1, <1>4, ElementsIn DEF Drop, IInv, TypeOK, BufferStates
  <2>2. Phase # "open" \/ Len(Line) >= 2 * BufferSize
    <3>1. CASE thread = "done"
      BY <3>1 DEF Phase
    <3>2. CASE thread # "done"
      BY <2>1, <3>2, LineWhileOpen
    <3> QED
      BY <3>1, <3>2
  <2>3. UNCHANGED <<current, next, thread>> /\ calls' = [calls EXCEPT ![e] = "dropped"]
    BY <1>4 DEF Drop
  <2>4. Service!Refuse(e)
    BY <1>1, <2>2, <2>3, RefusedOne
  <2> QED
    BY <2>4 DEF Service!Next
<1> QED
  BY <1>2, <1>3, <1>4 DEF Store

LEMMA StoreIntoDestroyedRefines ==
  ASSUME IInv, NEW e \in Entries, StoreIntoDestroyed(e)
  PROVE  Service!Next
<1>1. Phase # "open"
  BY DEF StoreIntoDestroyed, IInv, ShutdownOrder, Phase
<1>2. Service!Refuse(e)
  BY <1>1, RefusedOne DEF StoreIntoDestroyed
<1> QED
  BY <1>2 DEF Service!Next

LEMMA TakesRefine ==
  ASSUME IInv, Take \/ TakeRest
  PROVE  UNCHANGED Service!vars
<1>1. next \in Seq(Entries) /\ current \in Seq(Entries) /\ next \o current \in Seq(Entries)
      /\ <<>> \in Seq(Entries)
  BY ConcatProperties DEF IInv, TypeOK
<1>2. batch = <<>> /\ thread # "done" /\ thread' # "done" /\ UNCHANGED <<running, out, calls>>
  BY DEF Take, Reached, TakeRest, IInv, BufferStates
<1>3. Line = next \o current
  BY <1>1, <1>2, ConcatEmptySeq DEF Line
<1>4. Line' = (batch' \o next') \o current'
  BY <1>2 DEF Line
<1>5. Line' = Line
  <2>1. CASE batch' = next /\ next' = <<>> /\ current' = current
    BY <1>1, <1>3, <1>4, <2>1, ConcatEmptySeq
  <2>2. CASE next = <<>> /\ batch' = current /\ current' = <<>> /\ next' = next
    BY <1>1, <1>3, <1>4, <2>2, ConcatEmptySeq
  <2>3. CASE batch' = next \o current /\ next' = <<>> /\ current' = <<>>
    BY <1>1, <1>3, <1>4, <2>3, ConcatEmptySeq
  <2> QED
    BY <2>1, <2>2, <2>3 DEF Take, TakeRest
<1> QED
  BY <1>2, <1>5, Unnoticed

(* A written batch is the front of the line. *)
LEMMA BatchInFront ==
  ASSUME IInv, thread # "done"
  PROVE  /\ Len(batch) \in Nat /\ Len(batch) <= Len(Line)
         /\ next \o current \in Seq(Entries)
         /\ Elements(next \o current) = Elements(next) \cup Elements(current)
         /\ SubSeq(Line, 1, Len(batch)) = batch
         /\ SubSeq(Line, Len(batch) + 1, Len(Line)) = next \o current
<1>1. batch \in Seq(Entries) /\ next \in Seq(Entries) /\ current \in Seq(Entries)
  BY DEF IInv, TypeOK
<1>2. Len(batch) \in Nat /\ Len(next) \in Nat /\ Len(current) \in Nat
  BY <1>1, ElementsIn
<1>3. /\ next \o current \in Seq(Entries)
      /\ Elements(next \o current) = Elements(next) \cup Elements(current)
  BY <1>1, ElementsConcat
<1>4. Line = batch \o (next \o current) /\ Len(batch) <= Len(Line)
  BY <1>2, LineWhileOpen
<1> QED
  BY <1>1, <1>2, <1>3, <1>4, SplitConcat

LEMMA WriteRefines ==
  ASSUME IInv, Write
  PROVE  Service!Next \/ UNCHANGED Service!vars
<1>1. /\ UNCHANGED <<running, current, next>>
      /\ batch' = <<>> /\ thread = "writing" /\ thread' = "loop"
      /\ calls' = Marked(Elements(batch), "written")
      /\ out' = out \o batch
      /\ out \in Seq(Entries) /\ batch \in Seq(Entries) /\ next \in Seq(Entries)
  BY DEF Write, IInv, TypeOK
<1>2. Line' = next \o current
  BY <1>1, ConcatEmptySeq DEF Line
<1>3. Phase' = Phase
  BY <1>1 DEF Phase
<1>4. Refused' = Refused
  <2>1. \A e \in Entries : calls'[e] = IF e \in Elements(batch) THEN "written" ELSE calls[e]
    BY <1>1, MarkedType DEF IInv, TypeOK, CallStates
  <2>2. \A e \in Elements(batch) : e \in Entries => calls[e] = "stored"
    BY DEF IInv, Homes, Waiting
  <2> QED
    BY <1>1, <2>1, <2>2 DEF Refused
<1>5. CASE batch = <<>>
  <2>1. out' = out
    BY <1>1, <1>5, ConcatEmptySeq
  <2>2. Line = next \o current
    BY <1>1, <1>5, ConcatEmptySeq DEF Line
  <2> QED
    BY <1>2, <1>3, <1>4, <2>1, <2>2 DEF Service!vars
<1>6. CASE batch # <<>>
  <2>1. Len(batch) \in 1..Len(Line)
    BY <1>1, <1>6, BatchInFront, LineWhileOpen, EmptySeq
  <2>2. Service!Emit
    BY <1>1, <1>2, <1>3, <1>4, <2>1, BatchInFront DEF Service!Emit
  <2> QED
    BY <2>2 DEF Service!Next
<1> QED
  BY <1>5, <1>6

LEMMA WriteRestRefines ==
  ASSUME IInv, WriteRest
  PROVE  Service!Next
<1>1. /\ UNCHANGED <<running, current, next>>
      /\ batch' = <<>> /\ thread = "writingRest" /\ thread' = "done"
      /\ out \in Seq(Entries)
  BY DEF WriteRest, IInv, TypeOK
<1>2. Phase = "closing" /\ Phase' = "closed" /\ Line' = <<>>
  BY <1>1 DEF Phase, Line, IInv, ShutdownOrder
<1>3. Elements(Line) = Waiting /\ Elements(next \o current) = Elements(next) \cup Elements(current)
  BY <1>1, LineWhileOpen, BatchInFront
<1>4. /\ Elements(batch) \subseteq Entries /\ Elements(next) \subseteq Entries
      /\ Elements(current) \subseteq Entries
  BY ElementsIn DEF IInv, TypeOK
<1>5. \A e \in Entries : calls[e] = "stored" <=> e \in Waiting
  BY DEF IInv, Homes
<1>6. CASE /\ out' = out \o batch
           /\ \A e \in Entries : calls'[e] = IF e \in Elements(batch) THEN "written" ELSE calls[e]
  <2>1. Refused' = Refused \cup Elements(next \o current)
    BY <1>1, <1>3, <1>4, <1>5, <1>6 DEF Refused, Waiting, IInv, Homes
  <2>2. Len(batch) \in 0..Len(Line)
    BY <1>1, BatchInFront, LineWhileOpen
  <2>3. Service!Finish
    BY <1>1, <1>2, <1>6, <2>1, <2>2, BatchInFront, SameElements DEF Service!Finish
  <2> QED
    BY <2>3 DEF Service!Next
<1>7. CASE /\ out' = out
           /\ \A e \in Entries : calls'[e] = IF e \in Elements(batch) THEN "lost" ELSE calls[e]
  <2>1. Refused' = Refused \cup Elements(Line)
    BY <1>1, <1>3, <1>4, <1>5, <1>7 DEF Refused, Waiting
  <2>2. SubSeq(Line, 1, 0) = <<>> /\ SubSeq(Line, 1, Len(Line)) = Line
    BY <1>1, LineWhileOpen, SubSeqEmpty, SubSeqFull
  <2>3. out' = out \o SubSeq(Line, 1, 0)
    BY <1>1, <1>7, <2>2, ConcatEmptySeq
  <2>4. 0 \in 0..Len(Line) /\ 0 + 1 = 1
    BY <1>1, LineWhileOpen, BatchInFront
  <2>5. Service!Finish
    BY <1>2, <2>1, <2>2, <2>3, <2>4, SameElements DEF Service!Finish
  <2> QED
    BY <2>5 DEF Service!Next
<1>8. CASE batch = <<>>
  <2>1. out' = out \o batch /\ calls' = calls /\ Elements(batch) = {}
    BY <1>1, <1>8, ElementsEmpty, ConcatEmptySeq DEF WriteRest
  <2> QED
    BY <1>6, <2>1
<1>9. CASE batch # <<>>
  <2>1. \/ out' = out \o batch /\ calls' = Marked(Elements(batch), "written")
        \/ out' = out /\ calls' = Marked(Elements(batch), "lost")
    BY <1>9 DEF WriteRest
  <2> QED
    BY <1>6, <1>7, <2>1, MarkedType DEF IInv, TypeOK, CallStates
<1> QED
  BY <1>8, <1>9

LEMMA ShutdownRefines ==
  ASSUME IInv, Shutdown
  PROVE  Service!Next \/ UNCHANGED Service!vars
<1>1. CASE ShutdownStop
  <2>1. Phase = "open" /\ Phase' = "closing"
    BY <1>1 DEF ShutdownStop, Phase, IInv, ShutdownOrder
  <2>2. Line' = Line /\ Refused' = Refused /\ out' = out
    BY <1>1 DEF ShutdownStop, Line, Refused
  <2>3. Service!BeginClosing
    BY <2>1, <2>2 DEF Service!BeginClosing
  <2> QED
    BY <2>3 DEF Service!Next
<1>2. CASE ShutdownNotifyAll \/ ShutdownJoin
  <2>1. /\ UNCHANGED <<running, current, next, batch, out, calls>>
        /\ thread' = "done" <=> thread = "done"
    BY <1>2 DEF ShutdownNotifyAll, ShutdownJoin, WakeBackEnd
  <2> QED
    BY <2>1 DEF Service!vars, Line, Refused, Phase
<1> QED
  BY <1>1, <1>2 DEF Shutdown

(* Every step of the logger is a step of LogService or invisible to it. *)
LEMMA StepRefines ==
  IInv /\ [Next]_vars => [Service!Next]_(Service!vars)
<1> SUFFICES ASSUME IInv, [Next]_vars
             PROVE  Service!Next \/ UNCHANGED Service!vars
  OBVIOUS
<1>1. CASE UNCHANGED vars
  BY <1>1 DEF vars, Service!vars, Line, Refused, Phase
<1>2. ASSUME NEW e \in Entries, Log(e) PROVE Service!Next \/ UNCHANGED Service!vars
  BY <1>2, AdmitRefines, StoreRefines, StoreIntoDestroyedRefines DEF Log
<1>3. CASE Loop \/ FindNothing \/ Block \/ SpuriousWakeup \/ Timeout
  <2>1. /\ UNCHANGED <<running, current, next, batch, out, calls>>
        /\ thread # "done" /\ thread' # "done"
    BY <1>3 DEF Loop, FindNothing, Block, SpuriousWakeup, Timeout
  <2>2. Line' = Line
    BY <2>1 DEF Line
  <2> QED
    BY <2>1, <2>2, Unnoticed
<1>4. CASE BackEnd
  BY <1>3, <1>4, TakesRefine, WriteRefines, WriteRestRefines DEF BackEnd
<1>5. CASE Shutdown
  BY <1>5, ShutdownRefines
<1> QED
  BY <1>1, <1>2, <1>3, <1>4, <1>5 DEF Next

(* The logger implements the safety part of LogService: entries come out once
   and in the order of log's critical sections, and one is refused only while
   two full buffers wait or when the log is being closed. *)
THEOREM RefinesLogService ==
  Spec => Service!Init /\ [][Service!Next]_(Service!vars)
<1>1. Init => Service!Init
  <2> SUFFICES ASSUME Init PROVE Service!Init
    OBVIOUS
  <2>1. Line = <<>>
    BY ConcatEmptySeq, ElementsEmpty DEF Init, Line
  <2>2. Refused = {} /\ Phase = "open" /\ out = <<>>
    BY DEF Init, Refused, Phase
  <2> QED
    BY <2>1, <2>2 DEF Service!Init
<1> QED
  BY <1>1, StepRefines, Invariance, PTL DEF Spec

-----------------------------------------------------------------------------
(* RateLimiter.  At any time some b parts the requests let in during the last
   Period: those less than b units old were counted by the counter Redis has now,
   the others by the one before it. *)

Younger(b) == {r \in LetIn : r[1] < b}
Elder(b) == {r \in LetIn : r[1] >= b}

LimiterTypes ==
    /\ count \in Nat
    /\ ttl = Forever \/ ttl \in 1..Period
    /\ passed \in [Ages -> Nat]
    /\ waved \in [Ages -> Nat]
    /\ expiring \in BOOLEAN

(* A counter without a TTL is one that is not there, that is about to get its TTL,
   or that had an accident. *)
CounterStates ==
    /\ count = 0 \/ expiring => ttl = Forever
    /\ expiring => count = 1

(* A counter with a TTL is as old as its TTL has been running, at least. *)
PartedAt(b) ==
    /\ ttl # Forever => b > Period - ttl
    /\ Cardinality(Younger(b)) <= (IF expiring THEN 0 ELSE count)
    /\ Cardinality(Younger(b)) <= Limit
    /\ Cardinality(Elder(b)) <= Limit

TwoCounters == \E b \in 1..Period : PartedAt(b)

LimiterInv == LimiterTypes /\ CounterStates /\ TwoCounters

LEMMA NumberedElements ==
    ASSUME NEW g, g \in [Ages -> Nat]
    PROVE  /\ IsFiniteSet(Numbered(g))
           /\ \A r : r \in Numbered(g) <=>
                \E a \in Ages : \E k \in 1..g[a] : r = <<a, k>>
<1> DEFINE S == {{a} \X (1..g[a]) : a \in Ages}
           f == [a \in Ages |-> {a} \X (1..g[a])]
<1>1. IsFiniteSet(S)
  <2>1. IsFiniteSet(Ages)
    BY LimiterAssumption, FS_Interval DEF Ages, LimiterAssumption
  <2>2. f \in Surjection(Ages, S)
    BY DEF Surjection
  <2> HIDE DEF S, f
  <2> QED
    BY <2>1, <2>2, FS_Surjection
<1>2. \A T \in S : IsFiniteSet(T)
  <2> SUFFICES ASSUME NEW a \in Ages PROVE IsFiniteSet({a} \X (1..g[a]))
    OBVIOUS
  <2>1. IsFiniteSet(1..g[a])
    BY FS_Interval
  <2>2. IsFiniteSet({a})
    BY FS_Singleton
  <2> QED
    BY <2>1, <2>2, FS_Product
<1>3. Numbered(g) = UNION S
  BY DEF Numbered
<1>4. IsFiniteSet(UNION S)
  <2> HIDE DEF S
  <2> QED
    BY <1>1, <1>2, FS_UNION
<1>5. \A r : r \in Numbered(g) <=> \E a \in Ages : \E k \in 1..g[a] : r = <<a, k>>
  BY DEF Numbered
<1> QED
  BY <1>3, <1>4, <1>5

LEMMA LetInElements ==
    ASSUME LimiterTypes
    PROVE  /\ IsFiniteSet(LetIn)
           /\ \A r : r \in LetIn <=>
                \E a \in Ages : \E k \in 1..passed[a] : r = <<a, k>>
           /\ \A b : IsFiniteSet(Younger(b)) /\ IsFiniteSet(Elder(b))
<1>1. /\ IsFiniteSet(LetIn)
      /\ \A r : r \in LetIn <=>
           \E a \in Ages : \E k \in 1..passed[a] : r = <<a, k>>
  BY NumberedElements DEF LetIn, LimiterTypes
<1>2. \A b : IsFiniteSet(Younger(b)) /\ IsFiniteSet(Elder(b))
  BY <1>1, FS_Subset DEF Younger, Elder
<1> QED
  BY <1>1, <1>2

LEMMA OldOrYoung ==
    ASSUME LimiterTypes, NEW b \in 1..Period
    PROVE  Cardinality(LetIn) <= Cardinality(Younger(b)) + Cardinality(Elder(b))
<1>1. IsFiniteSet(Younger(b)) /\ IsFiniteSet(Elder(b))
  BY LetInElements
<1>2. LetIn = Younger(b) \cup Elder(b)
  <2>1. \A r \in LetIn : r[1] \in Int
    BY LetInElements DEF Ages
  <2> QED
    BY <2>1 DEF Younger, Elder
<1>3. Younger(b) \cap Elder(b) \subseteq Younger(b) /\ IsFiniteSet(Younger(b) \cap Elder(b))
  BY <1>1, FS_Subset
<1>4. Cardinality(Younger(b) \cap Elder(b)) \in Nat /\ Cardinality(Younger(b)) \in Nat
      /\ Cardinality(Elder(b)) \in Nat
  BY <1>1, <1>3, FS_CardinalityType
<1>5. Cardinality(Younger(b) \cup Elder(b))
        = Cardinality(Younger(b)) + Cardinality(Elder(b)) - Cardinality(Younger(b) \cap Elder(b))
  BY <1>1, FS_Union
<1> QED
  BY <1>2, <1>4, <1>5

(* Requests that grow a unit older are no more than they were. *)
LEMMA AgedAreNoMore ==
    ASSUME NEW S, IsFiniteSet(S), NEW T,
           \A r \in T : \E a \in Int, k \in Int : r = <<a, k>> /\ <<a - 1, k>> \in S
    PROVE  IsFiniteSet(T) /\ Cardinality(T) <= Cardinality(S)
<1> DEFINE f == [r \in T |-> <<r[1] - 1, r[2]>>]
<1>1. f \in [T -> S]
  <2> SUFFICES ASSUME NEW r \in T PROVE <<r[1] - 1, r[2]>> \in S
    OBVIOUS
  <2>1. PICK a \in Int, k \in Int : r = <<a, k>> /\ <<a - 1, k>> \in S
    OBVIOUS
  <2>2. r[1] = a /\ r[2] = k
    BY <2>1
  <2> QED
    BY <2>1, <2>2
<1>2. ASSUME NEW r \in T, NEW q \in T, f[r] = f[q] PROVE r = q
  <2>1. PICK a \in Int, k \in Int : r = <<a, k>>
    OBVIOUS
  <2>2. PICK e \in Int, j \in Int : q = <<e, j>>
    OBVIOUS
  <2>3. <<a - 1, k>> = <<e - 1, j>>
    BY <1>2, <2>1, <2>2
  <2> QED
    BY <2>1, <2>2, <2>3
<1>3. f \in Injection(T, S)
  <2> HIDE DEF f
  <2> QED
    BY <1>1, <1>2 DEF Injection, IsInjective
<1> HIDE DEF f
<1> QED
  BY <1>3, FS_Injection

(* What one request adds to the requests let in. *)
LEMMA OneMore ==
    ASSUME LimiterTypes, NEW b \in 1..Period,
           passed' = [passed EXCEPT ![0] = @ + 1]
    PROVE  /\ passed' \in [Ages -> Nat]
           /\ Cardinality(Younger(b)') = Cardinality(Younger(b)) + 1
           /\ Elder(b)' = Elder(b)
<1>1. 0 \in Ages /\ passed[0] \in Nat
  BY LimiterAssumption DEF LimiterTypes, Ages, LimiterAssumption
<1>2. passed' \in [Ages -> Nat]
  BY <1>1 DEF LimiterTypes
<1> DEFINE x == <<0, passed[0] + 1>>
<1>3. \A r : r \in LetIn' <=> r \in LetIn \/ r = x
  <2>1. passed'[0] = passed[0] + 1 /\ \A a \in Ages \ {0} : passed'[a] = passed[a]
    BY <1>1 DEF LimiterTypes
  <2>2. 1..(passed[0] + 1) = (1..passed[0]) \cup {passed[0] + 1}
    BY <1>1
  <2>3. \A r : r \in LetIn' <=>
          \E a \in Ages : \E k \in 1..passed'[a] : r = <<a, k>>
    BY DEF LetIn, Numbered, Ages
  <2>4. \A r : r \in LetIn <=>
          \E a \in Ages : \E k \in 1..passed[a] : r = <<a, k>>
    BY DEF LetIn, Numbered
  <2> QED
    BY <1>1, <2>1, <2>2, <2>3, <2>4
<1>4. x \notin LetIn
  <2>1. ASSUME NEW a \in Ages, NEW k \in 1..passed[a] PROVE x # <<a, k>>
    BY <1>1
  <2> QED
    BY <2>1, LetInElements
<1>5. x[1] = 0 /\ 0 < b /\ ~(0 >= b)
  OBVIOUS
<1> HIDE DEF x
<1>6. Younger(b)' = Younger(b) \cup {x} /\ x \notin Younger(b) /\ Elder(b)' = Elder(b)
  BY <1>3, <1>4, <1>5 DEF Younger, Elder
<1>7. Cardinality(Younger(b) \cup {x}) = Cardinality(Younger(b)) + 1
  BY <1>6, LetInElements, FS_AddElement
<1> QED
  BY <1>2, <1>6, <1>7

LEMMA WavedTyped ==
    ASSUME LimiterTypes, LimiterNext \/ UNCHANGED limiterVars
    PROVE  waved' \in [Ages -> Nat]
<1>1. /\ 0 \in Ages
      /\ waved \in [Ages -> Nat]
      /\ \A a \in Ages : a # 0 => a - 1 \in Ages
  BY LimiterAssumption DEF LimiterTypes, Ages, LimiterAssumption
<1>2. OneMoreIn(waved) \in [Ages -> Nat] /\ Older(waved) \in [Ages -> Nat]
  BY <1>1 DEF OneMoreIn, Older
<1>3. waved' \in {waved, OneMoreIn(waved), Older(waved)}
  BY DEF LimiterNext, isAllowed, Count, Expire, CountFails, ExpireFails, Restart, Tick,
         limiterVars
<1> QED
  BY <1>1, <1>2, <1>3

(* The two commands of isAllowed, and their failures. *)
LEMMA CommandsKeep ==
    ASSUME LimiterInv,
           isAllowed \/ Restart \/ UNCHANGED limiterVars
    PROVE  LimiterInv'
<1>1. PICK b \in 1..Period : PartedAt(b)
  BY DEF LimiterInv, TwoCounters
<1> DEFINE y == Cardinality(Younger(b))
           e == Cardinality(Elder(b))
<1>2. /\ y \in Nat /\ e \in Nat /\ count \in Nat /\ Period \in Nat /\ Limit \in Nat \ {0}
      /\ Period >= 1
      /\ ttl = -1 \/ ttl \in 1..Period
      /\ LimiterTypes /\ CounterStates /\ expiring \in BOOLEAN
  BY LimiterAssumption, LetInElements, FS_CardinalityType
  DEF LimiterInv, LimiterTypes, LimiterAssumption,
     Forever
<1>w. waved' \in [Ages -> Nat]
  BY <1>2, WavedTyped DEF LimiterNext
<1>3. passed' = passed => Younger(b)' = Younger(b) /\ Elder(b)' = Elder(b)
  BY DEF Younger, Elder, LetIn, Numbered, Ages
<1>4. passed' = [passed EXCEPT ![0] = @ + 1] =>
        /\ passed' \in [Ages -> Nat]
        /\ Cardinality(Younger(b)') = y + 1
        /\ Elder(b)' = Elder(b)
  BY <1>2, OneMore
<1> HIDE DEF y, e
<1>5. ASSUME ttl' = ttl \/ ttl' = Period, count' \in Nat, expiring' \in BOOLEAN,
             CounterStates',
             \/ /\ passed' = passed
                /\ y <= (IF expiring' THEN 0 ELSE count')
             \/ /\ passed' = [passed EXCEPT ![0] = @ + 1]
                /\ y + 1 <= (IF expiring' THEN 0 ELSE count') /\ y + 1 <= Limit
      PROVE  LimiterInv'
  <2>1. passed' \in [Ages -> Nat]
    BY <1>2, <1>4, <1>5 DEF LimiterTypes
  <2>2. LimiterTypes'
    BY <1>2, <1>5, <1>w, <2>1 DEF LimiterTypes, Forever, Ages
  <2>3. PartedAt(b)'
    <3>1. ttl' # -1 => b > Period - ttl'
      BY <1>1, <1>2, <1>5 DEF PartedAt, Forever
    <3>2. /\ Cardinality(Younger(b)') <= (IF expiring' THEN 0 ELSE count')
          /\ Cardinality(Younger(b)') <= Limit
          /\ Cardinality(Elder(b)') <= Limit
      BY <1>1, <1>3, <1>4, <1>5 DEF PartedAt, y, e
    <3> QED
      BY <3>1, <3>2 DEF PartedAt, Forever
  <2> QED
    BY <1>5, <2>2, <2>3 DEF LimiterInv, TwoCounters
<1>6. y <= (IF expiring THEN 0 ELSE count) /\ y <= Limit
  BY <1>1 DEF PartedAt, y
<1>7. CASE Count
  <2>1. /\ ~expiring /\ ttl' = ttl
        /\ count' = (IF count > Limit THEN count ELSE count + 1)
        /\ expiring' = (count' = 1)
        /\ expiring' \/ (passed' = passed /\ count' > Limit)
             \/ (passed' = [passed EXCEPT ![0] = @ + 1] /\ count' <= Limit)
        /\ expiring' => passed' = passed
    BY <1>2, <1>7 DEF Count, Incremented, Verdict, OneMoreIn
  <2>2. /\ count' \in Nat /\ count' >= count /\ count' >= 1
        /\ count' # 1 => count # 0
        /\ count' <= Limit => count' = count + 1
        /\ count' = 1 => count = 0
    BY <1>2, <2>1
  <2>3. CASE expiring'
    <3>1. y <= 0 /\ CounterStates'
      BY <1>2, <1>6, <2>1, <2>2, <2>3 DEF CounterStates
    <3> QED
      BY <1>5, <2>1, <2>2, <2>3, <3>1
  <2>4. CASE ~expiring'
    <3>1. CounterStates'
      BY <1>2, <2>1, <2>2, <2>4 DEF CounterStates
    <3>2. y <= count'
      BY <1>2, <1>6, <2>1, <2>2
    <3>3. count' <= Limit => y + 1 <= count' /\ y + 1 <= Limit
      BY <1>2, <1>6, <2>1, <2>2
    <3> QED
      BY <1>5, <2>1, <2>2, <2>4, <3>1, <3>2, <3>3
  <2> QED
    BY <2>3, <2>4
<1>8. CASE Expire
  <2>1. expiring /\ ~expiring' /\ ttl' = Period /\ count' = count /\ count = 1 /\ y = 0
        /\ expiring' = FALSE
    BY <1>2, <1>6, <1>8 DEF Expire, CounterStates
  <2>2. passed' = [passed EXCEPT ![0] = @ + 1]
    BY <1>2, <1>8, <2>1 DEF Expire, Verdict, OneMoreIn
  <2>3. CounterStates'
    BY <2>1 DEF CounterStates
  <2>4. y + 1 <= count' /\ y + 1 <= Limit
    BY <1>2, <2>1
  <2> QED
    BY <1>2, <1>5, <2>1, <2>2, <2>3, <2>4
<1>9. CASE CountFails
  <2>1. /\ ~expiring /\ expiring' = expiring /\ ttl' = ttl
        /\ count' = count \/ (count' = count + 1)
        /\ \/ passed' = passed
           \/ count' # count /\ count' <= Limit /\ passed' = [passed EXCEPT ![0] = @ + 1]
    BY <1>9 DEF CountFails, Incremented, OneMoreIn
  <2>2. /\ count' \in Nat /\ count' >= count /\ y <= count'
        /\ count' # count /\ count' <= Limit => y + 1 <= count' /\ y + 1 <= Limit
    BY <1>2, <1>6, <2>1
  <2>3. CounterStates'
    BY <1>2, <2>1, <2>2 DEF CounterStates
  <2> QED
    BY <1>2, <1>5, <2>1, <2>2, <2>3
<1>10. CASE ExpireFails
  <2>1. /\ expiring /\ expiring' = FALSE /\ ttl' \in {ttl, Period}
        /\ passed' = [passed EXCEPT ![0] = @ + 1]
        /\ count' = count /\ count = 1 /\ y + 1 <= count' /\ y + 1 <= Limit
    BY <1>2, <1>6, <1>10 DEF ExpireFails, CounterStates, OneMoreIn
  <2>2. CounterStates'
    BY <2>1 DEF CounterStates
  <2> QED
    BY <1>2, <1>5, <2>1, <2>2
<1>11. CASE Restart
  <2>1. expiring' = FALSE /\ UNCHANGED <<ttl, count, passed>>
    BY <1>11 DEF Restart
  <2>2. y <= count'
    BY <1>2, <1>6, <2>1
  <2>3. CounterStates'
    BY <1>2, <2>1 DEF CounterStates
  <2> QED
    BY <1>2, <1>5, <2>1, <2>2, <2>3
<1>12. CASE UNCHANGED limiterVars
  BY <1>2, <1>5, <1>6, <1>12 DEF limiterVars, CounterStates, LimiterTypes
<1> QED
  BY <1>7, <1>8, <1>9, <1>10, <1>11, <1>12 DEF isAllowed

(* Time passes: when the TTL has run out, the present counter's requests are all
   there are in the last Period, and become those of the counter before. *)
LEMMA TickKeeps ==
    ASSUME LimiterInv, Tick
    PROVE  LimiterInv'
<1>1. PICK b \in 1..Period : PartedAt(b)
  BY DEF LimiterInv, TwoCounters
<1>2. /\ passed' = [a \in Ages |-> IF a = 0 THEN 0 ELSE passed[a - 1]]
      /\ ttl' = (IF ttl > 1 THEN ttl - 1 ELSE -1)
      /\ count' = (IF ttl = 1 THEN 0 ELSE count)
      /\ expiring' = expiring
  BY DEF Tick, Older, Forever, Ages
<1>3. /\ count \in Nat /\ Period \in Nat \ {0} /\ Limit \in Nat \ {0}
      /\ ttl = -1 \/ ttl \in 1..Period
      /\ LimiterTypes /\ CounterStates
  BY LimiterAssumption DEF LimiterInv, LimiterTypes, LimiterAssumption, Forever
<1>4. Ages = 0..(Period - 1) /\ Ages' = Ages
  BY DEF Ages
<1>5. passed' \in [Ages -> Nat]
  BY <1>2, <1>3, <1>4 DEF LimiterTypes
<1>6. ASSUME NEW r \in LetIn'
      PROVE  \E a \in 1..(Period - 1), k \in Int : r = <<a, k>> /\ <<a - 1, k>> \in LetIn
  <2>1. PICK a \in 0..(Period - 1), k \in Int : k \in 1..passed'[a] /\ r = <<a, k>>
    BY <1>4 DEF LetIn, Numbered
  <2>2. a # 0
    BY <1>2, <1>4, <2>1
  <2>3. a \in 1..(Period - 1) /\ a - 1 \in Ages /\ passed'[a] = passed[a - 1]
    BY <1>2, <1>3, <1>4, <2>1, <2>2
  <2>4. <<a - 1, k>> \in LetIn
    BY <2>1, <2>3 DEF LetIn, Numbered
  <2> QED
    BY <2>1, <2>3, <2>4
<1>w. waved' \in [Ages -> Nat]
  BY <1>3, WavedTyped DEF LimiterNext
<1>7. LimiterTypes' /\ CounterStates'
  <2>1. /\ count' \in Nat /\ expiring' \in BOOLEAN
        /\ ttl' = -1 \/ ttl' \in 1..Period
        /\ count' = 0 \/ expiring' => ttl' = -1
        /\ expiring' => count' = 1
    BY <1>2, <1>3 DEF LimiterTypes, CounterStates, Forever
  <2> QED
    BY <1>4, <1>5, <1>w, <2>1 DEF LimiterTypes, CounterStates, Forever
<1>8. CASE ttl = 1
  <2>1. b = Period /\ ~expiring
    BY <1>1, <1>3, <1>8 DEF PartedAt, CounterStates, Forever
  <2>2. Younger(1)' = {}
    <3>1. ASSUME NEW r \in LetIn' PROVE ~(r[1] < 1)
      <4>1. PICK a \in 1..(Period - 1), k \in Int : r = <<a, k>>
        BY <1>6
      <4>2. r[1] = a
        BY <4>1
      <4> QED
        BY <1>3, <4>2
    <3> QED
      BY <3>1 DEF Younger
  <2>3. \A r \in Elder(1)' : \E a \in Int, k \in Int : r = <<a, k>> /\ <<a - 1, k>> \in Younger(b)
    <3> SUFFICES ASSUME NEW r \in LetIn'
                 PROVE  \E a \in Int, k \in Int : r = <<a, k>> /\ <<a - 1, k>> \in Younger(b)
      BY DEF Elder
    <3>1. PICK a \in 1..(Period - 1), k \in Int : r = <<a, k>> /\ <<a - 1, k>> \in LetIn
      BY <1>6
    <3>2. a - 1 < b /\ a \in Int
      BY <1>3, <2>1
    <3> QED
      BY <3>1, <3>2 DEF Younger
  <2>4. Cardinality(Elder(1)') <= Limit
    <3>1. PICK T : T = Elder(1)'
      OBVIOUS
    <3>2. IsFiniteSet(Younger(b))
      BY <1>3, LetInElements
    <3>3. IsFiniteSet(T) /\ Cardinality(T) <= Cardinality(Younger(b))
      BY <2>3, <3>1, <3>2, AgedAreNoMore
    <3>4. Cardinality(T) \in Nat /\ Cardinality(Younger(b)) \in Nat
      BY <3>2, <3>3, FS_CardinalityType
    <3> QED
      BY <1>1, <1>3, <3>1, <3>3, <3>4 DEF PartedAt
  <2>5. Cardinality(Younger(1)') = 0
    BY <2>2, FS_EmptySet
  <2>6. PartedAt(1)'
    BY <1>2, <1>3, <1>8, <2>1, <2>4, <2>5 DEF PartedAt, Forever
  <2> QED
    BY <1>3, <1>7, <2>6 DEF LimiterInv, TwoCounters
<1>9. CASE ttl # 1
  <2>1. PICK d \in 1..Period : d = IF b < Period THEN b + 1 ELSE b
    BY <1>3
  <2>2. ASSUME NEW r \in LetIn'
        PROVE  \E a \in Int, k \in Int :
                 /\ r = <<a, k>>
                 /\ r[1] < d => <<a - 1, k>> \in Younger(b)
                 /\ r[1] >= d => <<a - 1, k>> \in Elder(b)
    <3>1. PICK a \in 1..(Period - 1), k \in Int : r = <<a, k>> /\ <<a - 1, k>> \in LetIn
      BY <1>6
    <3>2. /\ a \in Int /\ r[1] = a
          /\ a < d => a - 1 < b
          /\ a >= d => a - 1 >= b
      BY <1>3, <2>1, <3>1
    <3> QED
      BY <3>1, <3>2 DEF Younger, Elder
  <2>3. PICK Y : Y = Younger(d)'
    OBVIOUS
  <2>4. PICK E : E = Elder(d)'
    OBVIOUS
  <2>5. IsFiniteSet(Younger(b)) /\ IsFiniteSet(Elder(b))
    BY <1>3, LetInElements
  <2>6. IsFiniteSet(Y) /\ Cardinality(Y) <= Cardinality(Younger(b))
    <3>1. \A r \in Y : \E a \in Int, k \in Int : r = <<a, k>> /\ <<a - 1, k>> \in Younger(b)
      BY <2>2, <2>3 DEF Younger
    <3> QED
      BY <2>5, <3>1, AgedAreNoMore
  <2>7. IsFiniteSet(E) /\ Cardinality(E) <= Cardinality(Elder(b))
    <3>1. \A r \in E : \E a \in Int, k \in Int : r = <<a, k>> /\ <<a - 1, k>> \in Elder(b)
      BY <2>2, <2>4 DEF Elder
    <3> QED
      BY <2>5, <3>1, AgedAreNoMore
  <2>8. /\ Cardinality(Y) \in Nat /\ Cardinality(E) \in Nat
        /\ Cardinality(Younger(b)) \in Nat /\ Cardinality(Elder(b)) \in Nat
    BY <2>5, <2>6, <2>7, FS_CardinalityType
  <2>9. /\ Cardinality(Y) <= (IF expiring THEN 0 ELSE count) /\ Cardinality(Y) <= Limit
        /\ Cardinality(E) <= Limit
    BY <1>1, <1>3, <2>6, <2>7, <2>8 DEF PartedAt
  <2>10. ttl' # -1 => d > Period - ttl'
    BY <1>1, <1>2, <1>3, <1>9, <2>1 DEF PartedAt, Forever
  <2>11. PartedAt(d)'
    BY <1>2, <1>9, <2>3, <2>4, <2>9, <2>10 DEF PartedAt, Forever
  <2> QED
    BY <1>7, <2>1, <2>11 DEF LimiterInv, TwoCounters
<1> QED
  BY <1>8, <1>9

LEMMA LimiterStarts ==
    ASSUME LimiterInit
    PROVE  LimiterInv
<1>1. /\ count = 0 /\ ttl = -1 /\ expiring = FALSE /\ passed = [a \in Ages |-> 0]
      /\ waved = [a \in Ages |-> 0]
      /\ Period \in Nat \ {0} /\ Limit \in Nat
  BY LimiterAssumption DEF LimiterInit, Forever, LimiterAssumption
<1>2. LimiterTypes /\ CounterStates
  BY <1>1 DEF LimiterTypes, CounterStates, Forever
<1>3. LetIn = {}
  BY <1>1 DEF LetIn, Numbered
<1>4. Younger(1) = {} /\ Elder(1) = {}
  BY <1>3 DEF Younger, Elder
<1>5. PartedAt(1)
  BY <1>1, <1>4, FS_EmptySet DEF PartedAt, Forever
<1> QED
  BY <1>1, <1>2, <1>5 DEF LimiterInv, TwoCounters

(* isAllowed lets no more than twice the limit in during any stretch of time as long
   as its window, beside the requests that only its catch block lets in: those which
   Redis did not count or counted beyond the limit.  Restarts, lost answers of INCR and
   failures of EXPIRE add none, for all limits and periods. *)
THEOREM AtMostTwoWindows == LimiterSpec => []TwiceTheLimitAtMost
<1>1. LimiterInit => LimiterInv
  BY LimiterStarts
<1>2. LimiterInv /\ [LimiterNext]_(limiterVars) => LimiterInv'
  BY CommandsKeep, TickKeeps DEF LimiterNext
<1>3. LimiterInv => TwiceTheLimitAtMost
  <2> SUFFICES ASSUME LimiterInv PROVE TwiceTheLimitAtMost
    OBVIOUS
  <2>1. PICK b \in 1..Period : PartedAt(b)
    BY DEF LimiterInv, TwoCounters
  <2>2. LimiterTypes
    BY DEF LimiterInv
  <2>3. /\ IsFiniteSet(LetIn) /\ IsFiniteSet(Younger(b)) /\ IsFiniteSet(Elder(b))
        /\ Cardinality(LetIn) <= Cardinality(Younger(b)) + Cardinality(Elder(b))
    BY <2>2, LetInElements, OldOrYoung
  <2>4. /\ Cardinality(LetIn) \in Nat /\ Cardinality(Younger(b)) \in Nat
        /\ Cardinality(Elder(b)) \in Nat
    BY <2>3, FS_CardinalityType
  <2>5. /\ Cardinality(Younger(b)) <= Limit /\ Cardinality(Elder(b)) <= Limit
        /\ Limit \in Nat
    BY LimiterAssumption, <2>1 DEF PartedAt, LimiterAssumption
  <2>6. Cardinality(LetIn) <= 2 * Limit
    BY <2>3, <2>4, <2>5
  <2>7. Cardinality(WavedIn) \in Nat /\ Cardinality(LetIn) \in Nat /\ 2 * Limit \in Nat
    BY <2>2, <2>4, <2>5, NumberedElements, FS_CardinalityType DEF WavedIn, LimiterTypes
  <2> QED
    BY <2>6, <2>7 DEF TwiceTheLimitAtMost, InTheLastPeriod
<1> QED
  BY <1>1, <1>2, <1>3, PTL DEF LimiterSpec
=============================================================================
