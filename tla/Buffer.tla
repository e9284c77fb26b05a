------------------------------- MODULE Buffer -------------------------------
(***************************************************************************)
(* The operations of Net/Buffer as operators on a value                    *)
(* [bytes, readIdx, writeIdx].  bytes[i+1] is buffer_[i]; its length is    *)
(* buffer_.size(), and what lies outside the readable part stays there     *)
(* until it is written over, as in the vector.                             *)
(***************************************************************************)
EXTENDS Integers, Sequences

CONSTANTS
    kcheapPrepend,   \* bytes kept free in front
    kInitialSize,    \* the room behind them at first
    ExtraSize,       \* the size of readFd's buffer on the stack
    Blank            \* the byte a vector is filled up with

ASSUME SizeAssumption ==
    /\ kcheapPrepend \in Nat
    /\ kInitialSize \in Nat
    /\ ExtraSize \in Nat \ {0}

Fill(n) == [i \in 1..n |-> Blank]

EmptyBuffer ==
    [bytes |-> Fill(kcheapPrepend + kInitialSize),
     readIdx |-> kcheapPrepend, writeIdx |-> kcheapPrepend]

ReadableBytes(b) == b.writeIdx - b.readIdx

WriteableBytes(b) == Len(b.bytes) - b.writeIdx

PrependableBytes(b) == b.readIdx

\* The readable part: what peek() points to, readableBytes() long.
Content(b) == SubSeq(b.bytes, b.readIdx + 1, b.writeIdx)

RetrieveAll(b) == [b EXCEPT !.readIdx = kcheapPrepend, !.writeIdx = kcheapPrepend]

Retrieve(b, len) ==
    IF len < ReadableBytes(b) THEN [b EXCEPT !.readIdx = @ + len] ELSE RetrieveAll(b)

\* index counts from the front of the readable part.
RetrieveUntilIdx(b, index) == [b EXCEPT !.readIdx = @ + index]

\* Mutant: the bytes in front are all used, the ones to be kept free as well.
FitsWithPrepend(b, len) == WriteableBytes(b) + PrependableBytes(b) >= len

FitsAfterMove(b, len) == WriteableBytes(b) + PrependableBytes(b) >= len + kcheapPrepend

MakeSpace(b, len) ==
    IF FitsAfterMove(b, len)
    THEN [bytes |-> [i \in DOMAIN b.bytes |->
                        IF i \in kcheapPrepend + 1 .. kcheapPrepend + ReadableBytes(b)
                        THEN b.bytes[i - kcheapPrepend + b.readIdx] ELSE b.bytes[i]],
          readIdx |-> kcheapPrepend,
          writeIdx |-> kcheapPrepend + ReadableBytes(b)]
    ELSE [b EXCEPT !.bytes = @ \o Fill(b.writeIdx + len - Len(@))]

EnsureWriteableBytes(b, len) == IF WriteableBytes(b) < len THEN MakeSpace(b, len) ELSE b

\* Overwrites the bytes from position i on.
Copy(bytes, i, data) ==
    [j \in DOMAIN bytes |-> IF j - i \in DOMAIN data THEN data[j - i] ELSE bytes[j]]

AppendData(b, data) ==
    LET room == EnsureWriteableBytes(b, Len(data))
    IN  [room EXCEPT !.bytes = Copy(@, room.writeIdx, data), !.writeIdx = @ + Len(data)]

\* What one readv can take: a large enough buffer is offered alone.
ReadCapacity(b) ==
    WriteableBytes(b) + (IF WriteableBytes(b) < ExtraSize THEN ExtraSize ELSE 0)

\* Mutant: what readv put behind the buffer stays there.
ReadFdDropsExtra(b, data) ==
    [b EXCEPT !.bytes = Copy(@, b.writeIdx, data),
              !.writeIdx = IF Len(data) <= WriteableBytes(b) THEN @ + Len(data) ELSE Len(b.bytes)]

\* readFd after a readv that delivered data.
ReadFd(b, data) ==
    LET inside == SubSeq(data, 1, WriteableBytes(b))
        extra == SubSeq(data, WriteableBytes(b) + 1, Len(data))
    IN  IF Len(data) <= WriteableBytes(b)
        THEN [b EXCEPT !.bytes = Copy(@, b.writeIdx, data), !.writeIdx = @ + Len(data)]
        ELSE AppendData([b EXCEPT !.bytes = Copy(@, b.writeIdx, inside),
                                  !.writeIdx = Len(b.bytes)], extra)

\* What writeFd has written when the socket takes n bytes.
WriteFd(b, n) == SubSeq(Content(b), 1, n)

\* The order the comment of the class draws, with the bytes in front kept free.
IndicesInOrder(b) ==
    /\ kcheapPrepend <= b.readIdx
    /\ b.readIdx <= b.writeIdx
    /\ b.writeIdx <= Len(b.bytes)
=============================================================================
