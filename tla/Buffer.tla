------------------------------- MODULE Buffer -------------------------------
(***************************************************************************)
(* Buffer: a vector of bytes with a read and a write index, laid out as    *)
(* [prependable][readable][writable].  The operations are functions of the *)
(* buffer; indices count from 0 as in the code, the sequence from 1.       *)
(***************************************************************************)
EXTENDS Naturals, Sequences, SequencesExt

CONSTANTS kCheapPrepend,  \* bytes kept free in front (8)
          kInitialSize,   \* initial writable bytes (1024)
          ExtraSize,      \* size of readCore()'s stack buffer (65536)
          Zero            \* the byte resize() fills with

ASSUME BufferAssumption ==
    kCheapPrepend \in Nat /\ kInitialSize \in Nat /\ ExtraSize \in Nat \ {0}

Zeros(n) == [i \in 1..n |-> Zero]

NewBuffer ==
    [buffer_ |-> Zeros(kCheapPrepend + kInitialSize),
     readIndex_ |-> kCheapPrepend, writeIndex_ |-> kCheapPrepend]

readableBytes(b) == b.writeIndex_ - b.readIndex_
writableBytes(b) == Len(b.buffer_) - b.writeIndex_
prependableBytes(b) == b.readIndex_

\* The bytes between peek() and the write index.
Readable(b) == SubSeq(b.buffer_, b.readIndex_ + 1, b.writeIndex_)

\* Mutated form of retrieveAll(): the read index alone goes back.
RewindsReadOnly(b) == [b EXCEPT !.readIndex_ = kCheapPrepend]

retrieveAll(b) == [b EXCEPT !.readIndex_ = kCheapPrepend, !.writeIndex_ = kCheapPrepend]

retrieve(b, len) ==
    IF len < readableBytes(b) THEN [b EXCEPT !.readIndex_ = @ + len] ELSE retrieveAll(b)

\* makeSpace() when the free space suffices: the readable bytes move to the front.
MovedDown(b) ==
    [b EXCEPT !.buffer_ = [i \in DOMAIN @ |->
                               IF i - kCheapPrepend \in 1..readableBytes(b)
                               THEN @[i - kCheapPrepend + b.readIndex_] ELSE @[i]],
              !.readIndex_ = kCheapPrepend,
              !.writeIndex_ = kCheapPrepend + readableBytes(b)]

makeSpace(b, len) ==
    IF writableBytes(b) + prependableBytes(b) < len + kCheapPrepend
    THEN [b EXCEPT !.buffer_ = @ \o Zeros(len - writableBytes(b))]
    ELSE MovedDown(b)

ensureWritableBytes(b, len) == IF writableBytes(b) < len THEN makeSpace(b, len) ELSE b

\* Copy s into the writable bytes and advance the write index.
Written(b, s) ==
    [b EXCEPT !.buffer_ = [i \in DOMAIN @ |->
                               IF i - b.writeIndex_ \in 1..Len(s)
                               THEN s[i - b.writeIndex_] ELSE @[i]],
              !.writeIndex_ = @ + Len(s)]

append(b, s) == Written(ensureWritableBytes(b, Len(s)), s)

\* What one readv() can take: the stack buffer is only added to a small rest.
ReadCapacity(b) ==
    writableBytes(b) + (IF writableBytes(b) < ExtraSize THEN ExtraSize ELSE 0)

\* readCore() when readv() returns the bytes s: in place, then the overflow appended.
readCore(b, s) ==
    LET w == writableBytes(b)
    IN  IF Len(s) <= w
        THEN Written(b, s)
        ELSE append(Written(b, SubSeq(s, 1, w)), SubSeq(s, w + 1, Len(s)))

\* The layout of a buffer: the prepend area stays free and the indices in order.
BufferOK(b) ==
    /\ kCheapPrepend <= b.readIndex_
    /\ b.readIndex_ <= b.writeIndex_
    /\ b.writeIndex_ <= Len(b.buffer_)
==============================================================================
