---------------------------- MODULE BufferProofs ----------------------------
(***************************************************************************)
(* What the operations of Net/Buffer do to the readable part, for bytes of *)
(* any kind, any sizes and any indices in order: appending appends,        *)
(* retrieving takes from the front, moving and growing change nothing.     *)
(***************************************************************************)
EXTENDS Buffer, SequenceTheorems, TLAPS

Buffers(Byte) == [bytes : Seq(Byte), readIdx : Nat, writeIdx : Nat]

\* A buffer in the order of the class comment, over a set of bytes.
IsBuffer(b, Byte) == b \in Buffers(Byte) /\ IndicesInOrder(b)

\* A function on 1..n is a sequence.
LEMMA FunctionIsSeq ==
    ASSUME NEW S, NEW n \in Nat, NEW f \in [1..n -> S]
    PROVE  f \in Seq(S) /\ Len(f) = n
<1>1. f \in Seq(S)
  BY SeqDef
<1>2. DOMAIN f = 1..Len(f) /\ DOMAIN f = 1..n /\ Len(f) \in Nat
  BY <1>1, LenProperties
<1>3. QED
  BY <1>1, <1>2

\* resize fills up with as many bytes as it is asked for.
LEMMA FillProperties ==
    ASSUME NEW Byte, Blank \in Byte, NEW n \in Nat
    PROVE  Fill(n) \in Seq(Byte) /\ Len(Fill(n)) = n
<1>1. Fill(n) \in [1..n -> Byte]
  BY DEF Fill
<1>2. QED
  BY <1>1, FunctionIsSeq

\* The fields of a buffer, as numbers in order.
LEMMA Indices ==
    ASSUME NEW Byte, NEW b, IsBuffer(b, Byte)
    PROVE  /\ b.bytes \in Seq(Byte)
           /\ Len(b.bytes) \in Nat /\ DOMAIN b.bytes = 1..Len(b.bytes)
           /\ b.readIdx \in Nat /\ b.writeIdx \in Nat /\ kcheapPrepend \in Nat
           /\ kcheapPrepend <= b.readIdx /\ b.readIdx <= b.writeIdx
           /\ b.writeIdx <= Len(b.bytes)
           /\ ReadableBytes(b) = b.writeIdx - b.readIdx /\ ReadableBytes(b) \in Nat
           /\ WriteableBytes(b) = Len(b.bytes) - b.writeIdx /\ WriteableBytes(b) \in Nat
<1>1. b.bytes \in Seq(Byte) /\ b.readIdx \in Nat /\ b.writeIdx \in Nat
  BY DEF IsBuffer, Buffers
<1>2. Len(b.bytes) \in Nat /\ DOMAIN b.bytes = 1..Len(b.bytes)
  BY <1>1, LenProperties
<1>3. QED
  BY <1>1, <1>2, SizeAssumption DEF IsBuffer, IndicesInOrder, ReadableBytes, WriteableBytes

\* The content is as long as readableBytes() says, and starts at readIdx_.
LEMMA ContentProperties ==
    ASSUME NEW Byte, NEW b, IsBuffer(b, Byte)
    PROVE  /\ Content(b) \in Seq(Byte)
           /\ Len(Content(b)) = ReadableBytes(b)
           /\ \A i \in 1..ReadableBytes(b) : Content(b)[i] = b.bytes[b.readIdx + i]
<1> DEFINE s == b.bytes
           m == b.readIdx + 1
           n == b.writeIdx
<1>1. s \in Seq(Byte) /\ m \in Int /\ n \in Int /\ m <= n + 1
  BY Indices
<1>2. \A i \in m..n : s[i] \in Byte
  BY Indices, ElementOfSeq
<1>3. Content(b) = SubSeq(s, m, n)
  BY DEF Content
<1>4. n - m + 1 = ReadableBytes(b) /\ m = b.readIdx + 1
  BY Indices
<1> HIDE DEF s, m, n
<1>5. /\ SubSeq(s, m, n) \in Seq(Byte)
      /\ Len(SubSeq(s, m, n)) = IF m <= n THEN n - m + 1 ELSE 0
      /\ \A i \in 1..n - m + 1 : SubSeq(s, m, n)[i] = s[m + i - 1]
  BY <1>1, <1>2, SubSeqProperties
<1>6. Len(SubSeq(s, m, n)) = n - m + 1
  BY <1>1, <1>5
<1>7. ASSUME NEW i \in 1..ReadableBytes(b)
      PROVE  Content(b)[i] = b.bytes[b.readIdx + i]
  <2>1. SubSeq(s, m, n)[i] = s[m + i - 1]
    BY <1>4, <1>5
  <2>2. m + i - 1 = b.readIdx + i
    BY <1>4, Indices
  <2>3. QED
    BY <1>3, <2>1, <2>2 DEF s
<1>8. QED
  BY <1>3, <1>4, <1>5, <1>6, <1>7

\* Two ways to name the same bytes.
LEMMA ContentIs ==
    ASSUME NEW Byte, NEW b, IsBuffer(b, Byte),
           NEW s \in Seq(Byte), Len(s) = ReadableBytes(b),
           \A i \in 1..Len(s) : b.bytes[b.readIdx + i] = s[i]
    PROVE  Content(b) = s
<1>1. \A i \in 1..Len(Content(b)) : Content(b)[i] = s[i]
  BY ContentProperties
<1>2. QED
  BY <1>1, ContentProperties, SeqEqual

----------------------------------------------------------------------------
(* Making room *)

\* A new buffer is in order and has no content (Buffer.h:30-37).
LEMMA EmptyIsBuffer ==
    ASSUME NEW Byte, Blank \in Byte
    PROVE  IsBuffer(EmptyBuffer, Byte) /\ Content(EmptyBuffer) = << >>
<1>1. kcheapPrepend \in Nat /\ kcheapPrepend + kInitialSize \in Nat
      /\ kcheapPrepend <= kcheapPrepend + kInitialSize
  BY SizeAssumption
<1> DEFINE bytes == Fill(kcheapPrepend + kInitialSize)
<1>2. bytes \in Seq(Byte) /\ Len(bytes) = kcheapPrepend + kInitialSize
  BY <1>1, FillProperties
<1>3. IsBuffer(EmptyBuffer, Byte)
  <2> HIDE DEF bytes
  <2>1. EmptyBuffer = [bytes |-> bytes, readIdx |-> kcheapPrepend, writeIdx |-> kcheapPrepend]
    BY DEF EmptyBuffer, bytes
  <2>2. QED
    BY <1>1, <1>2, <2>1 DEF IsBuffer, Buffers, IndicesInOrder
<1>4. ReadableBytes(EmptyBuffer) = 0
  BY <1>1 DEF ReadableBytes, EmptyBuffer
<1>5. QED
  BY <1>3, <1>4, ContentProperties, EmptySeq

\* The readable part moves to the front, into the bytes given back by retrieve;
\* or the vector grows and nothing moves.  (Buffer::makeSpace, Buffer.h:152-165.)
THEOREM MakeSpaceKeepsContent ==
    ASSUME NEW Byte, Blank \in Byte, NEW b, IsBuffer(b, Byte),
           NEW len \in Nat, WriteableBytes(b) < len
    PROVE  /\ IsBuffer(MakeSpace(b, len), Byte)
           /\ Content(MakeSpace(b, len)) = Content(b)
           /\ WriteableBytes(MakeSpace(b, len)) >= len
<1> DEFINE n == ReadableBytes(b)
           size == Len(b.bytes)
<1>1. /\ b.bytes \in Seq(Byte) /\ size \in Nat /\ DOMAIN b.bytes = 1..size
      /\ b.readIdx \in Nat /\ b.writeIdx \in Nat /\ n \in Nat
      /\ kcheapPrepend \in Nat /\ kcheapPrepend <= b.readIdx
      /\ b.writeIdx = b.readIdx + n /\ b.writeIdx <= size
      /\ WriteableBytes(b) = size - b.writeIdx
  BY Indices
<1>2. \A i \in 1..size : b.bytes[i] \in Byte
  BY <1>1, ElementOfSeq
<1>3. /\ Content(b) \in Seq(Byte) /\ Len(Content(b)) = n
      /\ \A i \in 1..n : Content(b)[i] = b.bytes[b.readIdx + i]
  BY ContentProperties
<1> HIDE DEF n, size
<1>4. CASE FitsAfterMove(b, len)
  <2> DEFINE moved == [i \in 1..size |->
                         IF i \in kcheapPrepend + 1 .. kcheapPrepend + n
                         THEN b.bytes[i - kcheapPrepend + b.readIdx] ELSE b.bytes[i]]
             c == [bytes |-> moved, readIdx |-> kcheapPrepend, writeIdx |-> kcheapPrepend + n]
  <2>1. MakeSpace(b, len) = c
    BY <1>1, <1>4 DEF MakeSpace, n
  <2>2. moved \in [1..size -> Byte]
    <3>1. \A i \in kcheapPrepend + 1 .. kcheapPrepend + n :
             i - kcheapPrepend + b.readIdx \in 1..size
      BY <1>1
    <3>2. QED
      BY <1>2, <3>1
  <2>3. moved \in Seq(Byte) /\ Len(moved) = size
    BY <1>1, <2>2, FunctionIsSeq
  <2>4. \A i \in 1..n : moved[kcheapPrepend + i] = b.bytes[b.readIdx + i]
    <3> TAKE i \in 1..n
    <3> DEFINE j == kcheapPrepend + i
    <3>1. /\ j \in 1..size /\ j \in kcheapPrepend + 1 .. kcheapPrepend + n
          /\ j - kcheapPrepend + b.readIdx = b.readIdx + i
      BY <1>1
    <3> HIDE DEF j
    <3>2. moved[j] = b.bytes[j - kcheapPrepend + b.readIdx]
      BY <3>1, Zenon
    <3>3. QED
      BY <3>1, <3>2 DEF j
  <2> HIDE DEF moved
  <2>5. c.bytes = moved /\ c.readIdx = kcheapPrepend /\ c.writeIdx = kcheapPrepend + n
    OBVIOUS
  <2>6. c \in Buffers(Byte)
    BY <1>1, <2>3 DEF Buffers
  <2> HIDE DEF c
  <2>7. IsBuffer(c, Byte)
    BY <1>1, <2>3, <2>5, <2>6 DEF IsBuffer, IndicesInOrder
  <2>8. ReadableBytes(c) = n
    BY <1>1, <2>5 DEF ReadableBytes
  <2>9. Content(c) = Content(b)
    BY <1>3, <2>4, <2>5, <2>7, <2>8, ContentIs
  <2>10. WriteableBytes(c) >= len
    BY <1>1, <1>4, <2>3, <2>5 DEF FitsAfterMove, WriteableBytes, PrependableBytes
  <2>11. QED
    BY <2>1, <2>7, <2>9, <2>10
<1>5. CASE ~FitsAfterMove(b, len)
  <2> DEFINE more == b.writeIdx + len - size
             grown == b.bytes \o Fill(more)
             c == [b EXCEPT !.bytes = grown]
  <2>1. MakeSpace(b, len) = c
    BY <1>5 DEF MakeSpace, size
  <2>2. more \in Nat
    BY <1>1
  <2>3. Fill(more) \in Seq(Byte) /\ Len(Fill(more)) = more
    BY <2>2, FillProperties
  <2>4. /\ grown \in Seq(Byte) /\ Len(grown) = b.writeIdx + len
        /\ \A i \in 1..size : grown[i] = b.bytes[i]
    <3> DEFINE old == b.bytes
               filling == Fill(more)
    <3>1. old \in Seq(Byte) /\ filling \in Seq(Byte) /\ Len(old) = size /\ Len(filling) = more
      BY <1>1, <2>3 DEF size
    <3> HIDE DEF old, filling, more
    <3>2. /\ old \o filling \in Seq(Byte) /\ Len(old \o filling) = Len(old) + Len(filling)
          /\ \A i \in 1..Len(old) + Len(filling) :
                (old \o filling)[i] = IF i <= Len(old) THEN old[i] ELSE filling[i - Len(old)]
      BY <3>1, ConcatProperties
    <3>3. \A i \in 1..size : (old \o filling)[i] = old[i]
      BY <1>1, <2>2, <3>1, <3>2
    <3>4. size + more = b.writeIdx + len
      BY <1>1 DEF more
    <3>5. QED
      BY <3>1, <3>2, <3>3, <3>4 DEF old, filling
  <2> HIDE DEF grown
  <2>5. /\ c \in Buffers(Byte)
        /\ c.bytes = grown /\ c.readIdx = b.readIdx /\ c.writeIdx = b.writeIdx
    BY <2>4 DEF Buffers, IsBuffer
  <2> HIDE DEF c
  <2>6. IsBuffer(c, Byte)
    BY <1>1, <2>4, <2>5 DEF IsBuffer, IndicesInOrder
  <2>7. ReadableBytes(c) = n
    BY <1>1, <2>5 DEF ReadableBytes
  <2>8. \A i \in 1..n : c.bytes[c.readIdx + i] = Content(b)[i]
    <3> TAKE i \in 1..n
    <3>1. b.readIdx + i \in 1..size
      BY <1>1
    <3>2. QED
      BY <1>3, <2>4, <2>5, <3>1
  <2>9. Content(c) = Content(b)
    BY <1>3, <2>6, <2>7, <2>8, ContentIs
  <2>10. WriteableBytes(c) >= len
    <3>1. Len(c.bytes) = b.writeIdx + len /\ c.writeIdx = b.writeIdx
      BY <2>4, <2>5
    <3>2. b.writeIdx \in Nat /\ len \in Nat
      BY <1>1
    <3>3. QED
      BY <3>1, <3>2 DEF WriteableBytes
  <2>11. QED
    BY <2>1, <2>6, <2>9, <2>10
<1>6. QED
  BY <1>4, <1>5

\* There is room for len bytes afterwards, and the content is what it was
\* (Buffer.h:105-109).
LEMMA EnsureWriteable ==
    ASSUME NEW Byte, Blank \in Byte, NEW b, IsBuffer(b, Byte), NEW len \in Nat
    PROVE  /\ IsBuffer(EnsureWriteableBytes(b, len), Byte)
           /\ Content(EnsureWriteableBytes(b, len)) = Content(b)
           /\ WriteableBytes(EnsureWriteableBytes(b, len)) >= len
<1>1. CASE WriteableBytes(b) < len
  BY <1>1, MakeSpaceKeepsContent DEF EnsureWriteableBytes
<1>2. CASE ~(WriteableBytes(b) < len)
  BY <1>2, Indices DEF EnsureWriteableBytes
<1>3. QED
  BY <1>1, <1>2

----------------------------------------------------------------------------
(* Appending *)

\* std::copy puts data behind the first i bytes and leaves the others.
LEMMA CopyProperties ==
    ASSUME NEW Byte, NEW bytes \in Seq(Byte), NEW data \in Seq(Byte), NEW i \in Nat
    PROVE  /\ Copy(bytes, i, data) \in Seq(Byte)
           /\ Len(Copy(bytes, i, data)) = Len(bytes)
           /\ \A j \in 1..Len(bytes) :
                Copy(bytes, i, data)[j] = IF j - i \in 1..Len(data) THEN data[j - i] ELSE bytes[j]
<1>1. /\ Len(bytes) \in Nat /\ DOMAIN bytes = 1..Len(bytes) /\ DOMAIN data = 1..Len(data)
      /\ \A j \in 1..Len(bytes) : bytes[j] \in Byte
      /\ \A j \in 1..Len(data) : data[j] \in Byte
  BY LenProperties, ElementOfSeq
<1>2. Copy(bytes, i, data) \in [1..Len(bytes) -> Byte]
  BY <1>1 DEF Copy
<1>3. QED
  BY <1>1, <1>2, FunctionIsSeq DEF Copy

\* Writing behind what is there, in the room that is left.
LEMMA WriteInside ==
    ASSUME NEW Byte, NEW b, IsBuffer(b, Byte), NEW data \in Seq(Byte),
           Len(data) <= WriteableBytes(b), NEW c \in Buffers(Byte),
           c.bytes = Copy(b.bytes, b.writeIdx, data), c.readIdx = b.readIdx,
           c.writeIdx = b.writeIdx + Len(data)
    PROVE  IsBuffer(c, Byte) /\ Content(c) = Content(b) \o data
<1> DEFINE old == b.bytes
           r == b.readIdx
           w == b.writeIdx
           n == ReadableBytes(b)
           size == Len(old)
           k == Len(data)
           s == Content(b)
           t == s \o data
<1>1. /\ old \in Seq(Byte) /\ size \in Nat /\ k \in Nat /\ n \in Nat
      /\ r \in Nat /\ w \in Nat /\ kcheapPrepend \in Nat
      /\ kcheapPrepend <= r /\ w = r + n /\ w + k <= size
  <2>1. /\ old \in Seq(Byte) /\ size \in Nat /\ r \in Nat /\ w \in Nat /\ kcheapPrepend \in Nat
        /\ kcheapPrepend <= r /\ n = w - r /\ n \in Nat
        /\ WriteableBytes(b) = size - w
    BY Indices, Zenon
  <2>2. k \in Nat /\ k <= WriteableBytes(b)
    BY LenProperties, Zenon
  <2> HIDE DEF old, r, w, n, size, k
  <2>3. QED
    BY <2>1, <2>2
<1>2. /\ Len(c.bytes) = size
      /\ \A j \in 1..size :
            c.bytes[j] = IF j - w \in 1..k THEN data[j - w] ELSE old[j]
  <2>1. old \in Seq(Byte) /\ w \in Nat /\ c.bytes = Copy(old, w, data)
    BY <1>1
  <2> HIDE DEF old, w
  <2>2. QED
    BY <2>1, CopyProperties
<1>3. /\ s \in Seq(Byte) /\ Len(s) = n
      /\ \A i \in 1..n : s[i] = old[r + i]
  BY ContentProperties
<1> HIDE DEF s
<1>4. /\ t \in Seq(Byte)
      /\ Len(t) = Len(s) + Len(data)
      /\ \A i \in 1..Len(s) + Len(data) :
            t[i] = IF i <= Len(s) THEN s[i] ELSE data[i - Len(s)]
  BY <1>3, ConcatProperties
<1> HIDE DEF t
<1>5. /\ Len(t) = n + k
      /\ \A i \in 1..n + k : t[i] = IF i <= n THEN s[i] ELSE data[i - n]
  BY <1>3, <1>4
<1>6. c.readIdx = r /\ c.writeIdx = w + k
  OBVIOUS
<1> HIDE DEF old, r, w, n, size, k
<1>7. IsBuffer(c, Byte)
  BY <1>1, <1>2, <1>6 DEF IsBuffer, IndicesInOrder
<1>8. ReadableBytes(c) = n + k
  BY <1>1, <1>6 DEF ReadableBytes
<1>9. ASSUME NEW i \in 1..n + k
      PROVE  c.bytes[r + i] = t[i]
  <2> DEFINE j == r + i
  <2>1. j \in 1..size /\ j - w = i - n
    BY <1>1, <1>9
  <2> HIDE DEF j
  <2>2. CASE i <= n
    <3>1. i \in 1..n /\ j - w \notin 1..k
      BY <1>1, <1>9, <2>1, <2>2
    <3>2. c.bytes[j] = old[j]
      BY <1>2, <2>1, <3>1
    <3>3. QED
      BY <1>3, <1>5, <1>9, <2>2, <3>1, <3>2 DEF j
  <2>3. CASE ~(i <= n)
    <3>1. j - w \in 1..k
      BY <1>1, <1>9, <2>1, <2>3
    <3>2. c.bytes[j] = data[j - w]
      BY <1>2, <2>1, <3>1
    <3>3. t[i] = data[i - n]
      BY <1>5, <1>9, <2>3
    <3>4. QED
      BY <2>1, <3>2, <3>3 DEF j
  <2>4. QED
    BY <2>2, <2>3
<1>10. Content(c) = t
  BY <1>4, <1>5, <1>6, <1>7, <1>8, <1>9, ContentIs
<1>11. QED
  BY <1>7, <1>10 DEF s, t

\* append writes behind the readable part, whatever had to be moved before
\* (Buffer::append, Buffer.h:112-116).
THEOREM AppendDataAppends ==
    ASSUME NEW Byte, Blank \in Byte, NEW b, IsBuffer(b, Byte), NEW data \in Seq(Byte)
    PROVE  /\ IsBuffer(AppendData(b, data), Byte)
           /\ Content(AppendData(b, data)) = Content(b) \o data
<1> DEFINE room == EnsureWriteableBytes(b, Len(data))
           copied == Copy(room.bytes, room.writeIdx, data)
           c == [room EXCEPT !.bytes = copied, !.writeIdx = @ + Len(data)]
<1>1. Len(data) \in Nat
  BY LenProperties
<1>2. IsBuffer(room, Byte) /\ Content(room) = Content(b) /\ WriteableBytes(room) >= Len(data)
  BY <1>1, EnsureWriteable
<1>3. AppendData(b, data) = c
  BY DEF AppendData
<1> HIDE DEF room
<1>4. /\ room \in Buffers(Byte) /\ room.bytes \in Seq(Byte)
      /\ room.writeIdx \in Nat /\ WriteableBytes(room) \in Nat
  BY <1>2, Indices DEF IsBuffer
<1>5. copied \in Seq(Byte)
  BY <1>4, CopyProperties
<1> HIDE DEF copied
<1>6. /\ c \in Buffers(Byte)
      /\ c.bytes = copied /\ c.readIdx = room.readIdx
      /\ c.writeIdx = room.writeIdx + Len(data)
  <2> DEFINE end == room.writeIdx + Len(data)
  <2>1. end \in Nat
    BY <1>1, <1>4
  <2>2. c = [room EXCEPT !.bytes = copied, !.writeIdx = end]
    BY <1>4 DEF Buffers
  <2> HIDE DEF end, c
  <2>3. c \in Buffers(Byte) /\ c.bytes = copied /\ c.readIdx = room.readIdx /\ c.writeIdx = end
    BY <1>4, <1>5, <2>1, <2>2 DEF Buffers
  <2>4. QED
    BY <2>3 DEF end
<1> HIDE DEF c
<1>7. Len(data) <= WriteableBytes(room)
  BY <1>1, <1>2, <1>4
<1>8. IsBuffer(c, Byte) /\ Content(c) = Content(room) \o data
  BY <1>2, <1>6, <1>7, WriteInside DEF copied
<1>9. QED
  BY <1>2, <1>3, <1>8

\* Any first part of a sequence, and the rest.
LEMMA TwoParts ==
    ASSUME NEW S, NEW s \in Seq(S), NEW n \in 0..Len(s)
    PROVE  /\ SubSeq(s, 1, n) \in Seq(S) /\ Len(SubSeq(s, 1, n)) = n
           /\ SubSeq(s, n + 1, Len(s)) \in Seq(S) /\ Len(SubSeq(s, n + 1, Len(s))) = Len(s) - n
           /\ SubSeq(s, 1, n) \o SubSeq(s, n + 1, Len(s)) = s
           /\ \A i \in 1..Len(s) - n : SubSeq(s, n + 1, Len(s))[i] = s[n + i]
<1> DEFINE k == Len(s)
<1>1. k \in Nat /\ n \in Int /\ 0 <= n /\ n <= k
  BY LenProperties
<1>2. \A i \in 1..k : s[i] \in S
  BY ElementOfSeq
<1> HIDE DEF k
<1>3. SubSeq(s, 1, n) \in Seq(S) /\ Len(SubSeq(s, 1, n)) = n
  <2>1. \A i \in 1..n : s[i] \in S
    BY <1>1, <1>2
  <2>2. /\ SubSeq(s, 1, n) \in Seq(S)
        /\ Len(SubSeq(s, 1, n)) = IF 1 <= n THEN n - 1 + 1 ELSE 0
    BY <1>1, <2>1, SubSeqProperties
  <2>3. QED
    BY <1>1, <2>2
<1>4. /\ SubSeq(s, n + 1, k) \in Seq(S) /\ Len(SubSeq(s, n + 1, k)) = k - n
      /\ \A i \in 1..k - n : SubSeq(s, n + 1, k)[i] = s[n + i]
  <2> DEFINE m == n + 1
  <2>1. m \in Int /\ k - m + 1 = k - n /\ m = n + 1
    BY <1>1
  <2>2. \A i \in m..k : s[i] \in S
    BY <1>1, <1>2, <2>1
  <2> HIDE DEF m
  <2>3. /\ SubSeq(s, m, k) \in Seq(S)
        /\ Len(SubSeq(s, m, k)) = IF m <= k THEN k - m + 1 ELSE 0
        /\ \A i \in 1..k - m + 1 : SubSeq(s, m, k)[i] = s[m + i - 1]
    BY <1>1, <2>1, <2>2, SubSeqProperties
  <2>4. Len(SubSeq(s, m, k)) = k - n
    BY <1>1, <2>1, <2>3
  <2>5. ASSUME NEW i \in 1..k - n
        PROVE  SubSeq(s, m, k)[i] = s[n + i]
    <3>1. i \in 1..k - m + 1 /\ m + i - 1 = n + i
      BY <1>1, <2>1, <2>5
    <3>2. QED
      BY <2>3, <3>1
  <2>6. QED
    BY <2>1, <2>3, <2>4, <2>5
<1>5. SubSeq(s, 1, n) \o SubSeq(s, n + 1, k) = s
  <2>1. 1 \in 1..Len(s) + 1 /\ n \in 1 - 1..Len(s) /\ k \in n..Len(s)
    BY <1>1 DEF k
  <2>2. SubSeq(s, 1, n) \o SubSeq(s, n + 1, k) = SubSeq(s, 1, k)
    BY <2>1, ConcatAdjacentSubSeq
  <2>3. SubSeq(s, 1, k) = s
    BY SubSeqFull DEF k
  <2>4. QED
    BY <2>2, <2>3
<1>6. QED
  BY <1>3, <1>4, <1>5 DEF k

\* The buffer with data written behind writeIdx_, and a new writeIdx_.
Written(b, data, end) ==
    [b EXCEPT !.bytes = Copy(b.bytes, b.writeIdx, data), !.writeIdx = end]

\* Writing inside, as readFd and append do it.
LEMMA WriteInsideBuffer ==
    ASSUME NEW Byte, NEW b, IsBuffer(b, Byte), NEW data \in Seq(Byte),
           Len(data) <= WriteableBytes(b),
           NEW end, end = b.writeIdx + Len(data)
    PROVE  /\ IsBuffer(Written(b, data, end), Byte)
           /\ Content(Written(b, data, end)) = Content(b) \o data
<1> DEFINE copied == Copy(b.bytes, b.writeIdx, data)
           c == Written(b, data, end)
<1>1. b \in Buffers(Byte) /\ b.bytes \in Seq(Byte) /\ b.writeIdx \in Nat /\ Len(data) \in Nat
  BY Indices, LenProperties DEF IsBuffer
<1>2. copied \in Seq(Byte) /\ end \in Nat
  BY <1>1, CopyProperties
<1>3. c = [b EXCEPT !.bytes = copied, !.writeIdx = end]
  BY DEF Written
<1> HIDE DEF copied, c
<1>4. /\ c \in Buffers(Byte)
      /\ c.bytes = copied /\ c.readIdx = b.readIdx /\ c.writeIdx = end
  BY <1>1, <1>2, <1>3 DEF Buffers
<1>5. IsBuffer(c, Byte) /\ Content(c) = Content(b) \o data
  BY <1>4, WriteInside DEF copied
<1>6. QED
  BY <1>5 DEF c

\* What readv delivered is appended as it came, also when it fills the buffer
\* and goes on in the one on the stack (Buffer::readFd, Buffer.cc:37-46).
THEOREM ReadFdAppends ==
    ASSUME NEW Byte, Blank \in Byte, NEW b, IsBuffer(b, Byte), NEW data \in Seq(Byte)
    PROVE  /\ IsBuffer(ReadFd(b, data), Byte)
           /\ Content(ReadFd(b, data)) = Content(b) \o data
<1>1. /\ Len(data) \in Nat /\ WriteableBytes(b) \in Nat /\ b.writeIdx \in Nat
      /\ WriteableBytes(b) = Len(b.bytes) - b.writeIdx /\ Len(b.bytes) \in Nat
      /\ Content(b) \in Seq(Byte)
  BY LenProperties, Indices, ContentProperties
<1>2. CASE Len(data) <= WriteableBytes(b)
  <2> DEFINE end == b.writeIdx + Len(data)
  <2>1. ReadFd(b, data) = Written(b, data, end)
    BY <1>2 DEF ReadFd, Written
  <2> HIDE DEF end
  <2>2. IsBuffer(Written(b, data, end), Byte) /\ Content(Written(b, data, end)) = Content(b) \o data
    BY <1>2, WriteInsideBuffer, Zenon DEF end
  <2>3. QED
    BY <2>1, <2>2, Zenon
<1>3. CASE ~(Len(data) <= WriteableBytes(b))
  <2> DEFINE n == WriteableBytes(b)
             inside == SubSeq(data, 1, n)
             extra == SubSeq(data, n + 1, Len(data))
             full == Written(b, inside, Len(b.bytes))
  <2>1. n \in 0..Len(data)
    BY <1>1, <1>3
  <2>2. /\ inside \in Seq(Byte) /\ Len(inside) = n
        /\ extra \in Seq(Byte) /\ inside \o extra = data
    BY <2>1, TwoParts
  <2>3. ReadFd(b, data) = AppendData(full, extra)
    BY <1>3 DEF ReadFd, Written
  <2> HIDE DEF inside, extra
  <2>4. IsBuffer(full, Byte) /\ Content(full) = Content(b) \o inside
    <3>1. Len(inside) <= WriteableBytes(b) /\ Len(b.bytes) = b.writeIdx + Len(inside)
      BY <1>1, <2>2
    <3>2. QED
      BY <2>2, <3>1, WriteInsideBuffer, Zenon
  <2> HIDE DEF full
  <2>5. /\ IsBuffer(AppendData(full, extra), Byte)
        /\ Content(AppendData(full, extra)) = Content(full) \o extra
    BY <2>2, <2>4, AppendDataAppends
  <2>6. (Content(b) \o inside) \o extra = Content(b) \o data
    <3> DEFINE s == Content(b)
    <3>1. s \in Seq(Byte) /\ inside \in Seq(Byte) /\ extra \in Seq(Byte)
      BY <1>1, <2>2
    <3> HIDE DEF s
    <3>2. (s \o inside) \o extra = s \o (inside \o extra)
      BY <3>1, ConcatAssociative
    <3>3. QED
      BY <2>2, <3>2 DEF s
  <2>7. QED
    BY <2>3, <2>4, <2>5, <2>6
<1>4. QED
  BY <1>2, <1>3

----------------------------------------------------------------------------
(* Retrieving *)

\* retrieveUntilIdx takes what it was asked for from the front, and nothing else
\* (Buffer.h:85-88).
THEOREM RetrieveUntilIdxTakes ==
    ASSUME NEW Byte, NEW b, IsBuffer(b, Byte), NEW n \in 0..ReadableBytes(b)
    PROVE  /\ IsBuffer(RetrieveUntilIdx(b, n), Byte)
           /\ Content(RetrieveUntilIdx(b, n)) = SubSeq(Content(b), n + 1, Len(Content(b)))
           /\ SubSeq(Content(b), 1, n) \o Content(RetrieveUntilIdx(b, n)) = Content(b)
<1> DEFINE r == b.readIdx
           w == b.writeIdx
           k == ReadableBytes(b)
           s == Content(b)
           rest == SubSeq(s, n + 1, Len(s))
           c == [b EXCEPT !.readIdx = r + n]
<1>1. /\ b \in Buffers(Byte) /\ r \in Nat /\ w \in Nat /\ k \in Nat
      /\ kcheapPrepend \in Nat /\ kcheapPrepend <= r /\ w = r + k /\ w <= Len(b.bytes)
      /\ Len(b.bytes) \in Nat
  BY Indices DEF IsBuffer
<1>2. RetrieveUntilIdx(b, n) = c
  BY DEF RetrieveUntilIdx
<1>3. s \in Seq(Byte) /\ Len(s) = k /\ \A i \in 1..k : s[i] = b.bytes[r + i]
  BY ContentProperties
<1>4. /\ rest \in Seq(Byte) /\ Len(rest) = k - n
      /\ SubSeq(s, 1, n) \o rest = s
      /\ \A i \in 1..k - n : rest[i] = s[n + i]
  BY <1>3, TwoParts
<1>5. n \in Nat /\ n <= k
  BY <1>1
<1> HIDE DEF k, s, rest, r, w
<1>6. /\ c \in Buffers(Byte)
      /\ c.bytes = b.bytes /\ c.readIdx = r + n /\ c.writeIdx = w
  <2>1. r + n \in Nat
    BY <1>1, <1>5
  <2>2. QED
    BY <1>1, <2>1 DEF Buffers, w
<1> HIDE DEF c
<1>7. IsBuffer(c, Byte) /\ ReadableBytes(c) = k - n
  BY <1>1, <1>5, <1>6 DEF IsBuffer, IndicesInOrder, ReadableBytes
<1>8. ASSUME NEW i \in 1..k - n
      PROVE  c.bytes[c.readIdx + i] = rest[i]
  <2> DEFINE j == n + i
  <2>1. j \in 1..k /\ c.readIdx + i = r + j
    BY <1>1, <1>5, <1>6, <1>8
  <2>2. rest[i] = s[j]
    BY <1>4, <1>8
  <2> HIDE DEF j
  <2>3. QED
    BY <1>3, <1>6, <2>1, <2>2
<1>9. Content(c) = rest
  BY <1>4, <1>7, <1>8, ContentIs
<1>10. QED
  BY <1>2, <1>4, <1>7, <1>9 DEF rest, s

\* retrieve takes from the front too, and starts again at the front of the vector
\* when it takes everything (Buffer.h:91-102).
THEOREM RetrieveTakes ==
    ASSUME NEW Byte, NEW b, IsBuffer(b, Byte), NEW n \in 0..ReadableBytes(b)
    PROVE  /\ IsBuffer(Retrieve(b, n), Byte)
           /\ WriteFd(b, n) \o Content(Retrieve(b, n)) = Content(b)
<1>1. CASE n < ReadableBytes(b)
  <2>1. Retrieve(b, n) = RetrieveUntilIdx(b, n)
    BY <1>1 DEF Retrieve, RetrieveUntilIdx
  <2>2. QED
    BY <2>1, RetrieveUntilIdxTakes DEF WriteFd
<1>2. CASE ~(n < ReadableBytes(b))
  <2>1. /\ ReadableBytes(b) \in Nat /\ n = ReadableBytes(b)
        /\ Content(b) \in Seq(Byte) /\ Len(Content(b)) = n
    BY <1>2, Indices, ContentProperties
  <2> DEFINE c == [b EXCEPT !.readIdx = kcheapPrepend, !.writeIdx = kcheapPrepend]
  <2>2. Retrieve(b, n) = c
    BY <1>2 DEF Retrieve, RetrieveAll
  <2>3. b \in Buffers(Byte) /\ kcheapPrepend \in Nat /\ kcheapPrepend <= Len(b.bytes)
        /\ Len(b.bytes) \in Nat
    BY Indices DEF IsBuffer
  <2>4. /\ c \in Buffers(Byte)
        /\ c.bytes = b.bytes /\ c.readIdx = kcheapPrepend /\ c.writeIdx = kcheapPrepend
    BY <2>3 DEF Buffers
  <2> HIDE DEF c
  <2>5. IsBuffer(c, Byte) /\ ReadableBytes(c) = 0
    BY <2>3, <2>4 DEF IsBuffer, IndicesInOrder, ReadableBytes
  <2>6. Content(c) = << >>
    BY <2>5, ContentProperties, EmptySeq
  <2>7. WriteFd(b, n) = Content(b)
    BY <2>1, SubSeqFull DEF WriteFd
  <2>8. QED
    BY <2>1, <2>2, <2>5, <2>6, <2>7, ConcatEmptySeq
<1>3. QED
  BY <1>1, <1>2

=============================================================================
