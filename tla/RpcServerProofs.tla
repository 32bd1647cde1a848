--------------------------- MODULE RpcServerProofs ---------------------------
(***************************************************************************)
(* Proofs about one connection of an RpcServer, for any frames, limits,    *)
(* buffer sizes and any cutting of the stream into reads: lemmas on the    *)
(* operations of the Buffer, and from them that no byte is lost and every  *)
(* frame is taken and answered in its turn.                                *)
(***************************************************************************)
EXTENDS RpcServer, SequenceTheorems, WellFoundedInduction, TLAPS

(***************************************************************************)
(* The Buffer, for bytes from any set.                                     *)
(***************************************************************************)
Record(Byte) == [buffer_ : Seq(Byte), readIndex_ : Nat, writeIndex_ : Nat]
IsBuffer(b, Byte) == b \in Record(Byte) /\ BufferOK(b)

\* A sequence is what it is at each index.
LEMMA SameSeq ==
    ASSUME NEW S, NEW s \in Seq(S), NEW t \in Seq(S), Len(s) = Len(t), \A i \in 1..Len(s) : s[i] = t[i]
    PROVE  s = t
  BY SeqEqual, Zenon

Alike(s, t, S) ==
    s \in Seq(S) /\ t \in Seq(S) /\ Len(s) = Len(t) /\ \A i \in 1..Len(s) : s[i] = t[i]

\* Sequences that are alike are equal.
LEMMA AlikeIs ==
    ASSUME NEW S, NEW s, NEW t, Alike(s, t, S)
    PROVE  s = t
  BY SameSeq DEF Alike

\* A part of a sequence.
LEMMA PartIs ==
    ASSUME NEW S, NEW v \in Seq(S), NEW m \in Nat, NEW n \in Nat, m <= n, n <= Len(v)
    PROVE  /\ SubSeq(v, m + 1, n) \in Seq(S) /\ Len(SubSeq(v, m + 1, n)) = n - m /\ n - m \in Nat
           /\ \A i \in 1..(n - m) : SubSeq(v, m + 1, n)[i] = v[m + i]
  OBVIOUS

\* The two halves of a concatenation.
LEMMA ConcatIs ==
    ASSUME NEW S, NEW s \in Seq(S), NEW t \in Seq(S)
    PROVE  /\ s \o t \in Seq(S) /\ Len(s \o t) = Len(s) + Len(t) /\ Len(s) \in Nat /\ Len(t) \in Nat
           /\ \A i \in 1..Len(s) : (s \o t)[i] = s[i]
           /\ \A i \in 1..Len(t) : (s \o t)[Len(s) + i] = t[i]
  OBVIOUS

\* A function on the indices of a sequence is a sequence.
LEMMA SeqOver ==
    ASSUME NEW S, NEW v \in Seq(S), NEW m, DOMAIN m = DOMAIN v, m = [i \in DOMAIN m |-> m[i]],
           \A i \in 1..Len(v) : m[i] \in S
    PROVE  m \in Seq(S) /\ Len(m) = Len(v)
  OBVIOUS

\* A sequence is one over any set its elements are in.
LEMMA SeqIn ==
    ASSUME NEW S, NEW T, NEW v \in Seq(S), \A i \in 1..Len(v) : v[i] \in T
    PROVE  v \in Seq(T)
  OBVIOUS

\* s is copied into v behind index w, and read with what was between r and w.
Over(S, v, s, r, w, m) ==
    /\ v \in Seq(S) /\ s \in Seq(S) /\ r \in Nat /\ w \in Nat /\ r <= w /\ w + Len(s) <= Len(v)
    /\ m = [i \in DOMAIN v |-> IF i - w \in 1..Len(s) THEN s[i - w] ELSE v[i]]
Reads(S, v, m, p, q) == m \in Seq(S) /\ Len(m) = Len(v) /\ p = q

\* Reading them gives what was there and then s.
LEMMA Overwritten ==
    ASSUME NEW S, NEW v, NEW s, NEW r, NEW w, NEW m, Over(S, v, s, r, w, m)
    PROVE  Reads(S, v, m, SubSeq(m, r + 1, w + Len(s)), SubSeq(v, r + 1, w) \o s)
  <1> /\ v \in Seq(S) /\ s \in Seq(S) /\ r \in Nat /\ w \in Nat /\ r <= w /\ w + Len(s) <= Len(v)
      /\ m = [i \in DOMAIN v |-> IF i - w \in 1..Len(s) THEN s[i - w] ELSE v[i]]
    BY DEF Over
  <1>1. Len(s) \in Nat /\ Len(v) \in Nat /\ DOMAIN v = 1..Len(v) /\ w - r \in Nat
    OBVIOUS
  <1>2. m \in Seq(S) /\ Len(m) = Len(v)
    BY <1>1, SeqOver
  <1>3. PICK p : p = SubSeq(m, r + 1, w + Len(s))
    OBVIOUS
  <1>4. /\ p \in Seq(S) /\ Len(p) = w + Len(s) - r
        /\ \A i \in 1..(w + Len(s) - r) : p[i] = m[r + i]
    BY <1>1, <1>2, <1>3, PartIs
  <1>5. PICK q : q = SubSeq(v, r + 1, w)
    OBVIOUS
  <1>6. /\ q \in Seq(S) /\ Len(q) = w - r
        /\ \A i \in 1..(w - r) : q[i] = v[r + i]
    BY <1>1, <1>5, PartIs
  <1>7. PICK t : t = q \o s
    OBVIOUS
  <1>8. /\ t \in Seq(S) /\ Len(t) = w - r + Len(s)
        /\ \A i \in 1..(w - r) : t[i] = q[i]
        /\ \A i \in 1..Len(s) : t[(w - r) + i] = s[i]
    <2>1. /\ q \o s \in Seq(S) /\ Len(q \o s) = Len(q) + Len(s)
          /\ \A i \in 1..Len(q) : (q \o s)[i] = q[i]
          /\ \A i \in 1..Len(s) : (q \o s)[Len(q) + i] = s[i]
      <3>1. q \in Seq(S) /\ s \in Seq(S)
        BY <1>6
      <3> QED
        BY <3>1, ConcatIs
    <2> QED
      BY <1>6, <1>7, <2>1
  <1>9. ASSUME NEW i \in 1..(w + Len(s) - r) PROVE p[i] = t[i]
    <2>1. CASE i <= w - r
      <3>1. /\ i \in 1..(w - r) /\ r + i \in 1..Len(v)
            /\ (r + i) - w \notin 1..Len(s)
        BY <1>1, <2>1
      <3>2. m[r + i] = v[r + i]
        BY <1>1, <3>1
      <3> QED
        BY <1>4, <1>6, <1>8, <3>1, <3>2, Zenon
    <2>2. CASE i > w - r
      <3>1. PICK j \in 1..Len(s) : j = i - (w - r)
        BY <1>1, <2>2
      <3>2. p[i] = m[r + i] /\ r + i \in DOMAIN v /\ (r + i) - w = j /\ i = (w - r) + j
        <4>1. r + i \in 1..Len(v) /\ (r + i) - w = j /\ i = (w - r) + j
          BY <1>1, <3>1
        <4> QED
          BY <1>1, <1>4, <4>1, Zenon
      <3>3. m[r + i] = s[j]
        BY <1>1, <3>1, <3>2
      <3> QED
        BY <1>8, <3>1, <3>2, <3>3
    <2> QED
      BY <1>1, <2>1, <2>2
  <1>10. p = t
    <2>1. PICK n : n = w + Len(s) - r
      OBVIOUS
    <2>2. Len(p) = n /\ Len(t) = n
      BY <1>1, <1>4, <1>8, <2>1
    <2>3. \A i \in 1..n : p[i] = t[i]
      BY <1>9, <2>1, Zenon
    <2>4. Alike(p, t, S)
      BY <1>4, <1>8, <2>2, <2>3, Zenon DEF Alike
    <2> QED
      BY <2>4, AlikeIs, Zenon
  <1> QED
    BY <1>2, <1>3, <1>5, <1>7, <1>10, Zenon DEF Reads

\* What is in v between r and w is moved down to k.
Down(S, v, k, r, w, m) ==
    /\ v \in Seq(S) /\ k \in Nat /\ r \in Nat /\ w \in Nat /\ k <= r /\ r <= w /\ w <= Len(v)
    /\ m = [i \in DOMAIN v |-> IF i - k \in 1..(w - r) THEN v[i - k + r] ELSE v[i]]

\* Reading it there gives what was read before.
LEMMA Shifted ==
    ASSUME NEW S, NEW v, NEW k, NEW r, NEW w, NEW m, Down(S, v, k, r, w, m)
    PROVE  Reads(S, v, m, SubSeq(m, k + 1, k + (w - r)), SubSeq(v, r + 1, w))
  <1> /\ v \in Seq(S) /\ k \in Nat /\ r \in Nat /\ w \in Nat /\ k <= r /\ r <= w /\ w <= Len(v)
      /\ m = [i \in DOMAIN v |-> IF i - k \in 1..(w - r) THEN v[i - k + r] ELSE v[i]]
    BY DEF Down
  <1>1. /\ Len(v) \in Nat /\ DOMAIN v = 1..Len(v) /\ w - r \in Nat
        /\ k + (w - r) \in Nat /\ k + (w - r) <= Len(v)
    OBVIOUS
  <1>2. m \in Seq(S) /\ Len(m) = Len(v)
    <2>1. \A i \in 1..Len(v) : m[i] \in S
      BY <1>1
    <2> QED
      BY <1>1, <2>1, SeqOver
  <1>3. PICK p : p = SubSeq(m, k + 1, k + (w - r))
    OBVIOUS
  <1>4. /\ p \in Seq(S) /\ Len(p) = w - r
        /\ \A i \in 1..(w - r) : p[i] = m[k + i]
    BY <1>1, <1>2, <1>3, PartIs
  <1>5. PICK q : q = SubSeq(v, r + 1, w)
    OBVIOUS
  <1>6. /\ q \in Seq(S) /\ Len(q) = w - r
        /\ \A i \in 1..(w - r) : q[i] = v[r + i]
    BY <1>1, <1>5, PartIs
  <1>7. ASSUME NEW i \in 1..(w - r) PROVE p[i] = q[i]
    <2>1. k + i \in DOMAIN v /\ (k + i) - k = i /\ (k + i) - k + r = r + i
      BY <1>1
    <2>2. m[k + i] = v[r + i]
      BY <2>1
    <2> QED
      BY <1>4, <1>6, <2>2
  <1>8. p = q
    BY <1>1, <1>4, <1>6, <1>7, SameSeq
  <1> QED
    BY <1>2, <1>3, <1>5, <1>8, Zenon DEF Reads

\* Growing v leaves its parts.
Part(S, v, z, r, w) ==
    v \in Seq(S) /\ z \in Seq(S) /\ r \in Nat /\ w \in Nat /\ r <= w /\ w <= Len(v)
Same(p, q) == p = q

\* A part of v is the same part of v with more behind it.
LEMMA Grown ==
    ASSUME NEW S, NEW v, NEW z, NEW r, NEW w, Part(S, v, z, r, w)
    PROVE  Same(SubSeq(v \o z, r + 1, w), SubSeq(v, r + 1, w))
  <1> v \in Seq(S) /\ z \in Seq(S) /\ r \in Nat /\ w \in Nat /\ r <= w /\ w <= Len(v)
    BY DEF Part
  <1>1. PICK g : g = v \o z
    OBVIOUS
  <1>2. g \in Seq(S) /\ w <= Len(g) /\ \A i \in 1..Len(v) : g[i] = v[i]
    BY <1>1, ConcatIs
  <1>3. /\ SubSeq(g, r + 1, w) \in Seq(S) /\ Len(SubSeq(g, r + 1, w)) = w - r
        /\ \A i \in 1..(w - r) : SubSeq(g, r + 1, w)[i] = g[r + i]
    BY <1>2, PartIs
  <1>4. /\ SubSeq(v, r + 1, w) \in Seq(S) /\ Len(SubSeq(v, r + 1, w)) = w - r
        /\ \A i \in 1..(w - r) : SubSeq(v, r + 1, w)[i] = v[r + i]
    BY PartIs
  <1>5. \A i \in 1..(w - r) : g[r + i] = v[r + i]
    BY <1>2
  <1>6. \A i \in 1..(w - r) : SubSeq(g, r + 1, w)[i] = SubSeq(v, r + 1, w)[i]
    BY <1>3, <1>4, <1>5, Zenon
  <1> QED
    BY <1>1, <1>3, <1>4, <1>6, SameSeq, Zenon DEF Same

\* The parts of a Buffer.
Buf(m, r, w) == [buffer_ |-> m, readIndex_ |-> r, writeIndex_ |-> w]

\* A Buffer is its vector and its two indices.
LEMMA RecordIs ==
    ASSUME NEW Byte, NEW b \in Record(Byte)
    PROVE  b = Buf(b.buffer_, b.readIndex_, b.writeIndex_)
  BY DEF Record, Buf

Lengths(b) ==
    /\ b.readIndex_ \in Nat /\ b.writeIndex_ \in Nat /\ Len(b.buffer_) \in Nat
    /\ kCheapPrepend \in Nat /\ kCheapPrepend <= b.readIndex_ /\ b.readIndex_ <= b.writeIndex_
    /\ b.writeIndex_ <= Len(b.buffer_)
    /\ readableBytes(b) = b.writeIndex_ - b.readIndex_ /\ readableBytes(b) \in Nat
    /\ writableBytes(b) = Len(b.buffer_) - b.writeIndex_ /\ writableBytes(b) \in Nat
    /\ prependableBytes(b) = b.readIndex_

\* The indices are in order, and so the three sizes of Buffer.h add up.
LEMMA BufferParts ==
    ASSUME NEW Byte, NEW b, IsBuffer(b, Byte)
    PROVE  /\ Lengths(b)
           /\ b \in Record(Byte) /\ b.buffer_ \in Seq(Byte)
           /\ Readable(b) = SubSeq(b.buffer_, b.readIndex_ + 1, b.writeIndex_)
           /\ Readable(b) \in Seq(Byte) /\ Len(Readable(b)) = readableBytes(b)
  <1>1. b \in Record(Byte) /\ b.buffer_ \in Seq(Byte) /\ Lengths(b)
    BY BufferAssumption
       DEF IsBuffer, Record, BufferOK, Lengths, readableBytes, writableBytes, prependableBytes
  <1>2. PICK v \in Seq(Byte), r \in Nat, w \in Nat : v = b.buffer_ /\ r = b.readIndex_ /\ w = b.writeIndex_
    BY <1>1 DEF Lengths
  <1>3. r <= w /\ w <= Len(v) /\ readableBytes(b) = w - r
    BY <1>1, <1>2 DEF Lengths
  <1>4. SubSeq(v, r + 1, w) \in Seq(Byte) /\ Len(SubSeq(v, r + 1, w)) = w - r
    BY <1>3, PartIs
  <1> QED
    BY <1>1, <1>2, <1>3, <1>4 DEF Readable

Bounds(m, r, w, Byte) ==
    /\ m \in Seq(Byte) /\ r \in Nat /\ w \in Nat
    /\ kCheapPrepend <= r /\ r <= w /\ w <= Len(m)
BufOf(b, m, r, w, Byte) ==
    /\ IsBuffer(b, Byte) /\ Readable(b) = SubSeq(m, r + 1, w)
    /\ readableBytes(b) = w - r /\ writableBytes(b) = Len(m) - w

\* A vector and two indices in order are a Buffer.
LEMMA BufIs ==
    ASSUME NEW Byte, NEW m, NEW r, NEW w, Bounds(m, r, w, Byte)
    PROVE  BufOf(Buf(m, r, w), m, r, w, Byte)
  <1>1. PICK b : b = Buf(m, r, w)
    OBVIOUS
  <1>2. b \in Record(Byte) /\ b.buffer_ = m /\ b.readIndex_ = r /\ b.writeIndex_ = w
    BY <1>1 DEF Bounds, Buf, Record
  <1> QED
    BY <1>1, <1>2 DEF Bounds, BufOf, IsBuffer, BufferOK, Readable, readableBytes, writableBytes

\* What a change of some parts makes of it.
Parts(b, m, r, w, Byte) == b \in Record(Byte) /\ m \in Seq(Byte) /\ r \in Nat /\ w \in Nat
Changed(b, m, r, w) ==
    /\ [b EXCEPT !.buffer_ = m] = Buf(m, b.readIndex_, b.writeIndex_)
    /\ [b EXCEPT !.readIndex_ = r] = Buf(b.buffer_, r, b.writeIndex_)
    /\ [b EXCEPT !.readIndex_ = r, !.writeIndex_ = w] = Buf(b.buffer_, r, w)
    /\ [b EXCEPT !.buffer_ = m, !.writeIndex_ = w] = Buf(m, b.readIndex_, w)
    /\ [b EXCEPT !.buffer_ = m, !.readIndex_ = r, !.writeIndex_ = w] = Buf(m, r, w)

\* Changing a part of a Buffer leaves the others.
LEMMA BufChanged ==
    ASSUME NEW Byte, NEW b, NEW m, NEW r, NEW w, Parts(b, m, r, w, Byte)
    PROVE  Changed(b, m, r, w)
  <1> b \in Record(Byte) /\ m \in Seq(Byte) /\ r \in Nat /\ w \in Nat
    BY DEF Parts
  <1>1. /\ [b EXCEPT !.buffer_ = m] = Buf(m, b.readIndex_, b.writeIndex_)
        /\ [b EXCEPT !.readIndex_ = r] = Buf(b.buffer_, r, b.writeIndex_)
    BY DEF Record, Buf
  <1>2. PICK c : c = [b EXCEPT !.readIndex_ = r, !.writeIndex_ = w]
    OBVIOUS
  <1>3. c \in Record(Byte) /\ c.buffer_ = b.buffer_ /\ c.readIndex_ = r /\ c.writeIndex_ = w
    BY <1>2 DEF Record
  <1>4. PICK d : d = [b EXCEPT !.buffer_ = m, !.writeIndex_ = w]
    OBVIOUS
  <1>5. d \in Record(Byte) /\ d.buffer_ = m /\ d.readIndex_ = b.readIndex_ /\ d.writeIndex_ = w
    BY <1>4 DEF Record
  <1>6. PICK e : e = [b EXCEPT !.buffer_ = m, !.readIndex_ = r, !.writeIndex_ = w]
    OBVIOUS
  <1>7. e \in Record(Byte) /\ e.buffer_ = m /\ e.readIndex_ = r /\ e.writeIndex_ = w
    BY <1>6 DEF Record
  <1>8. c = Buf(b.buffer_, r, w) /\ d = Buf(m, b.readIndex_, w) /\ e = Buf(m, r, w)
    BY <1>3, <1>5, <1>7, RecordIs, Zenon
  <1> QED
    BY <1>1, <1>2, <1>4, <1>6, <1>8, Zenon DEF Changed

\* A Buffer with the readable bytes of b and those of s behind them.
Holds(c, b, s, Byte) == IsBuffer(c, Byte) /\ Readable(c) = Readable(b) \o s

\* Bytes are copied behind the readable ones.
LEMMA WrittenIs ==
    ASSUME NEW Byte, NEW b, IsBuffer(b, Byte), NEW s \in Seq(Byte), Len(s) <= writableBytes(b)
    PROVE  Holds(Written(b, s), b, s, Byte)
  <1>1. /\ Lengths(b) /\ b \in Record(Byte) /\ b.buffer_ \in Seq(Byte)
        /\ Readable(b) = SubSeq(b.buffer_, b.readIndex_ + 1, b.writeIndex_)
    BY BufferParts, Zenon
  <1>2. PICK v \in Seq(Byte), r \in Nat, w \in Nat : v = b.buffer_ /\ r = b.readIndex_ /\ w = b.writeIndex_
    BY <1>1, Zenon DEF Lengths
  <1>3. /\ kCheapPrepend <= r /\ r <= w /\ w + Len(s) <= Len(v)
        /\ w + Len(s) \in Nat /\ r <= w + Len(s)
    <2>1. Len(s) \in Nat /\ Len(v) \in Nat /\ Len(s) <= Len(v) - w /\ kCheapPrepend <= r /\ r <= w
      BY <1>1, <1>2 DEF Lengths
    <2> QED
      BY <1>2, <2>1
  <1>4. PICK m : m = [i \in DOMAIN v |-> IF i - w \in 1..Len(s) THEN s[i - w] ELSE v[i]]
    OBVIOUS
  <1>5. m \in Seq(Byte) /\ Len(m) = Len(v) /\ SubSeq(m, r + 1, w + Len(s)) = SubSeq(v, r + 1, w) \o s
    <2>1. Over(Byte, v, s, r, w, m)
      BY <1>2, <1>3, <1>4 DEF Over
    <2>2. Reads(Byte, v, m, SubSeq(m, r + 1, w + Len(s)), SubSeq(v, r + 1, w) \o s)
      BY <2>1, Overwritten, Zenon
    <2> QED
      BY <2>2, Zenon DEF Reads
  <1>6. Written(b, s) = [b EXCEPT !.buffer_ = m, !.writeIndex_ = w + Len(s)]
    BY <1>2, <1>4 DEF Written
  <1>7. Written(b, s) = Buf(m, r, w + Len(s))
    <2>1. Parts(b, m, r, w + Len(s), Byte)
      BY <1>1, <1>2, <1>3, <1>5 DEF Parts
    <2>2. [b EXCEPT !.buffer_ = m, !.writeIndex_ = w + Len(s)] = Buf(m, b.readIndex_, w + Len(s))
      <3>1. Changed(b, m, r, w + Len(s))
        BY <2>1, BufChanged, Zenon
      <3> QED
        BY <3>1, Zenon DEF Changed
    <2> QED
      BY <1>2, <1>6, <2>2, Zenon
  <1>8. w + Len(s) <= Len(m)
    BY <1>3, <1>5
  <1>9. IsBuffer(Buf(m, r, w + Len(s)), Byte) /\ Readable(Buf(m, r, w + Len(s))) = SubSeq(m, r + 1, w + Len(s))
    <2>1. Bounds(m, r, w + Len(s), Byte)
      BY <1>2, <1>3, <1>5, <1>8 DEF Bounds
    <2>2. BufOf(Buf(m, r, w + Len(s)), m, r, w + Len(s), Byte)
      BY <2>1, BufIs, Zenon
    <2> QED
      BY <2>2, Zenon DEF BufOf
  <1> QED
    BY <1>1, <1>2, <1>5, <1>7, <1>9, Zenon DEF Holds

\* makeSpace() keeps the readable bytes, and makes the space.
LEMMA MakeSpaceIs ==
    ASSUME NEW Byte, Zero \in Byte, NEW b, IsBuffer(b, Byte), NEW len \in Nat, writableBytes(b) < len
    PROVE  /\ IsBuffer(makeSpace(b, len), Byte) /\ Readable(makeSpace(b, len)) = Readable(b)
           /\ len <= writableBytes(makeSpace(b, len))
  <1>1. /\ Lengths(b) /\ b \in Record(Byte) /\ b.buffer_ \in Seq(Byte)
        /\ Readable(b) = SubSeq(b.buffer_, b.readIndex_ + 1, b.writeIndex_)
    BY BufferParts, Zenon
  <1>2. PICK v \in Seq(Byte), r \in Nat, w \in Nat, k \in Nat :
            v = b.buffer_ /\ r = b.readIndex_ /\ w = b.writeIndex_ /\ k = kCheapPrepend
    BY <1>1, Zenon DEF Lengths
  <1>3. /\ k <= r /\ r <= w /\ w <= Len(v) /\ Len(v) \in Nat
        /\ readableBytes(b) = w - r /\ writableBytes(b) = Len(v) - w /\ prependableBytes(b) = r
    BY <1>1, <1>2 DEF Lengths
  <1>4. CASE writableBytes(b) + prependableBytes(b) < len + k
    <2>1. PICK z : z = Zeros(len - writableBytes(b))
      OBVIOUS
    <2>2. z \in Seq(Byte) /\ Len(z) = len - writableBytes(b)
      BY <1>3, <2>1 DEF Zeros
    <2>3. PICK m : m = v \o z
      OBVIOUS
    <2>4. m \in Seq(Byte) /\ Len(m) = Len(v) + Len(z)
      BY <2>2, <2>3, ConcatIs, Zenon
    <2>5. SubSeq(m, r + 1, w) = SubSeq(v, r + 1, w)
      <3>1. Part(Byte, v, z, r, w)
        BY <1>2, <1>3, <2>2 DEF Part
      <3>2. Same(SubSeq(v \o z, r + 1, w), SubSeq(v, r + 1, w))
        BY <3>1, Grown, Zenon
      <3> QED
        BY <2>3, <3>2, Zenon DEF Same
    <2>6. makeSpace(b, len) = [b EXCEPT !.buffer_ = m]
      BY <1>2, <1>4, <2>1, <2>3 DEF makeSpace
    <2>7. makeSpace(b, len) = Buf(m, r, w)
      <3>1. Parts(b, m, r, w, Byte)
        BY <1>1, <1>2, <2>4 DEF Parts
      <3>2. [b EXCEPT !.buffer_ = m] = Buf(m, b.readIndex_, b.writeIndex_)
        <4>1. Changed(b, m, r, w)
          BY <3>1, BufChanged, Zenon
        <4> QED
          BY <4>1, Zenon DEF Changed
      <3> QED
        BY <1>2, <2>6, <3>2, Zenon
    <2>8. w <= Len(m) /\ len <= Len(m) - w
      BY <1>3, <2>2, <2>4
    <2>9. /\ IsBuffer(Buf(m, r, w), Byte) /\ Readable(Buf(m, r, w)) = SubSeq(m, r + 1, w)
          /\ writableBytes(Buf(m, r, w)) = Len(m) - w
      <3>1. Bounds(m, r, w, Byte)
        BY <1>2, <1>3, <2>4, <2>8 DEF Bounds
      <3>2. BufOf(Buf(m, r, w), m, r, w, Byte)
        BY <3>1, BufIs, Zenon
      <3> QED
        BY <3>2, Zenon DEF BufOf
    <2> QED
      BY <1>1, <1>2, <2>5, <2>7, <2>8, <2>9, Zenon
  <1>5. CASE ~(writableBytes(b) + prependableBytes(b) < len + k)
    <2>1. PICK m : m = [i \in DOMAIN v |-> IF i - k \in 1..(w - r) THEN v[i - k + r] ELSE v[i]]
      OBVIOUS
    <2>2. m \in Seq(Byte) /\ Len(m) = Len(v) /\ SubSeq(m, k + 1, k + (w - r)) = SubSeq(v, r + 1, w)
      <3>1. Down(Byte, v, k, r, w, m)
        BY <1>2, <1>3, <2>1 DEF Down
      <3>2. Reads(Byte, v, m, SubSeq(m, k + 1, k + (w - r)), SubSeq(v, r + 1, w))
        BY <3>1, Shifted, Zenon
      <3> QED
        BY <3>2, Zenon DEF Reads
    <2>3. /\ k + (w - r) \in Nat /\ k <= k + (w - r) /\ k + (w - r) <= Len(m)
          /\ len <= Len(m) - (k + (w - r))
      BY <1>3, <1>5, <2>2
    <2>4. makeSpace(b, len) = [b EXCEPT !.buffer_ = m, !.readIndex_ = k, !.writeIndex_ = k + (w - r)]
      BY <1>2, <1>3, <1>5, <2>1 DEF makeSpace, MovedDown
    <2>5. makeSpace(b, len) = Buf(m, k, k + (w - r))
      <3>1. Parts(b, m, k, k + (w - r), Byte)
        BY <1>1, <1>2, <2>2, <2>3 DEF Parts
      <3>2. [b EXCEPT !.buffer_ = m, !.readIndex_ = k, !.writeIndex_ = k + (w - r)] = Buf(m, k, k + (w - r))
        <4>1. Changed(b, m, k, k + (w - r))
          BY <3>1, BufChanged, Zenon
        <4> QED
          BY <4>1, Zenon DEF Changed
      <3> QED
        BY <2>4, <3>2, Zenon
    <2>6. /\ IsBuffer(Buf(m, k, k + (w - r)), Byte)
          /\ Readable(Buf(m, k, k + (w - r))) = SubSeq(m, k + 1, k + (w - r))
          /\ writableBytes(Buf(m, k, k + (w - r))) = Len(m) - (k + (w - r))
      <3>1. kCheapPrepend <= k
        BY <1>2
      <3>2. Bounds(m, k, k + (w - r), Byte)
        BY <1>2, <2>2, <2>3, <3>1 DEF Bounds
      <3>3. BufOf(Buf(m, k, k + (w - r)), m, k, k + (w - r), Byte)
        BY <3>2, BufIs, Zenon
      <3> QED
        BY <3>3, Zenon DEF BufOf
    <2> QED
      BY <1>1, <1>2, <2>2, <2>3, <2>5, <2>6, Zenon
  <1> QED
    BY <1>4, <1>5

\* ensureWritableBytes() keeps the readable bytes, and there is room.
Ensured(c, b, len, Byte) ==
    IsBuffer(c, Byte) /\ Readable(c) = Readable(b) /\ len <= writableBytes(c)

\* makeSpace() runs only when there is too little room.
LEMMA EnsuredIs ==
    ASSUME NEW Byte, Zero \in Byte, NEW b, IsBuffer(b, Byte), NEW len \in Nat
    PROVE  Ensured(ensureWritableBytes(b, len), b, len, Byte)
  <1>1. CASE writableBytes(b) < len
    <2>1. ensureWritableBytes(b, len) = makeSpace(b, len)
      BY <1>1, Zenon DEF ensureWritableBytes
    <2> QED
      BY <1>1, <2>1, MakeSpaceIs DEF Ensured
  <1>2. CASE ~(writableBytes(b) < len)
    <2>1. ensureWritableBytes(b, len) = b
      BY <1>2, Zenon DEF ensureWritableBytes
    <2>2. len <= writableBytes(b)
      BY <1>2, BufferParts DEF Lengths
    <2> QED
      BY <2>1, <2>2, Zenon DEF Ensured
  <1> QED
    BY <1>1, <1>2

\* append() adds the bytes.
LEMMA AppendIs ==
    ASSUME NEW Byte, Zero \in Byte, NEW b, IsBuffer(b, Byte), NEW s \in Seq(Byte)
    PROVE  Holds(append(b, s), b, s, Byte)
  <1>1. PICK c : c = ensureWritableBytes(b, Len(s))
    OBVIOUS
  <1>2. Len(s) \in Nat
    OBVIOUS
  <1>3. Ensured(c, b, Len(s), Byte)
    BY <1>1, <1>2, EnsuredIs, Zenon
  <1>4. IsBuffer(c, Byte) /\ Readable(c) = Readable(b) /\ Len(s) <= writableBytes(c)
    BY <1>3, Zenon DEF Ensured
  <1>5. Holds(Written(c, s), c, s, Byte)
    BY <1>4, WrittenIs, Zenon
  <1> QED
    BY <1>1, <1>4, <1>5, Zenon DEF Holds, append

\* A sequence and what is cut off its end.
LEMMA CutIs ==
    ASSUME NEW S, NEW s \in Seq(S), NEW n \in Nat, n <= Len(s)
    PROVE  /\ SubSeq(s, 1, n) \in Seq(S) /\ SubSeq(s, n + 1, Len(s)) \in Seq(S)
           /\ Len(SubSeq(s, 1, n)) = n
           /\ SubSeq(s, 1, n) \o SubSeq(s, n + 1, Len(s)) = s
  <1>1. Len(s) \in Nat /\ 1 \in 1..Len(s) + 1 /\ n \in 1 - 1..Len(s) /\ Len(s) \in n..Len(s)
    OBVIOUS
  <1>2. SubSeq(s, 1, n) \o SubSeq(s, n + 1, Len(s)) = SubSeq(s, 1, Len(s))
    BY <1>1, ConcatAdjacentSubSeq
  <1>3. SubSeq(s, 1, Len(s)) = s
    BY SubSeqFull
  <1>4. /\ SubSeq(s, 1, n) \in Seq(S) /\ SubSeq(s, n + 1, Len(s)) \in Seq(S)
        /\ Len(SubSeq(s, 1, n)) = n
    OBVIOUS
  <1> QED
    BY <1>2, <1>3, <1>4

\* What is cut into p, q and t.
LEMMA Assoc ==
    ASSUME NEW S, NEW p \in Seq(S), NEW q \in Seq(S), NEW t \in Seq(S)
    PROVE  Same((p \o q) \o t, p \o (q \o t))
  BY ConcatAssociative DEF Same

\* readCore() adds the bytes read, those that overflow into the stack buffer too.
LEMMA ReadCoreIs ==
    ASSUME NEW Byte, Zero \in Byte, NEW b, IsBuffer(b, Byte), NEW s \in Seq(Byte)
    PROVE  Holds(readCore(b, s), b, s, Byte)
  <1>1. writableBytes(b) \in Nat /\ Readable(b) \in Seq(Byte)
    BY BufferParts, Zenon DEF Lengths
  <1>2. CASE Len(s) <= writableBytes(b)
    BY <1>2, WrittenIs, Zenon DEF readCore
  <1>3. CASE ~(Len(s) <= writableBytes(b))
    <2>1. PICK w \in Nat : w = writableBytes(b)
      BY <1>1
    <2>2. w <= Len(s)
      BY <1>3, <2>1
    <2>3. PICK p, q : p = SubSeq(s, 1, w) /\ q = SubSeq(s, w + 1, Len(s))
      OBVIOUS
    <2>4. p \in Seq(Byte) /\ q \in Seq(Byte) /\ Len(p) <= writableBytes(b) /\ p \o q = s
      <3>1. /\ SubSeq(s, 1, w) \in Seq(Byte) /\ SubSeq(s, w + 1, Len(s)) \in Seq(Byte)
            /\ Len(SubSeq(s, 1, w)) = w
            /\ SubSeq(s, 1, w) \o SubSeq(s, w + 1, Len(s)) = s
        BY <2>1, <2>2, CutIs
      <3>2. w <= writableBytes(b)
        BY <2>1
      <3> QED
        BY <2>3, <3>1, <3>2, Zenon
    <2>5. PICK c : c = Written(b, p)
      OBVIOUS
    <2>6. Holds(c, b, p, Byte)
      BY <2>4, <2>5, WrittenIs, Zenon
    <2>7. Holds(append(c, q), c, q, Byte)
      BY <2>4, <2>6, AppendIs, Zenon DEF Holds
    <2>8. readCore(b, s) = append(c, q)
      BY <1>3, <2>1, <2>3, <2>5, Zenon DEF readCore
    <2>9. (Readable(b) \o p) \o q = Readable(b) \o s
      <3>1. Readable(b) \in Seq(Byte) /\ p \in Seq(Byte) /\ q \in Seq(Byte)
        BY <1>1, <2>4, Zenon
      <3>2. Same((Readable(b) \o p) \o q, Readable(b) \o (p \o q))
        BY <3>1, Assoc, Zenon
      <3> QED
        BY <2>4, <3>2, Zenon DEF Same
    <2> QED
      BY <2>6, <2>7, <2>8, <2>9, Zenon DEF Holds
  <1> QED
    BY <1>2, <1>3

\* Dropping from a part.
LEMMA PartOfPart ==
    ASSUME NEW S, NEW v \in Seq(S), NEW r \in Nat, NEW w \in Nat, NEW n \in Nat,
           r + n <= w, w <= Len(v)
    PROVE  Same(SubSeq(SubSeq(v, r + 1, w), n + 1, w - r), SubSeq(v, (r + n) + 1, w))
  <1>1. PICK p : p = SubSeq(v, r + 1, w)
    OBVIOUS
  <1>2. r <= w /\ w - r \in Nat /\ n <= w - r /\ r + n \in Nat /\ w - (r + n) = (w - r) - n
    OBVIOUS
  <1>3. p \in Seq(S) /\ Len(p) = w - r /\ \A i \in 1..(w - r) : p[i] = v[r + i]
    BY <1>1, <1>2, PartIs
  <1>4. PICK q : q = SubSeq(p, n + 1, w - r)
    OBVIOUS
  <1>5. q \in Seq(S) /\ Len(q) = (w - r) - n /\ \A i \in 1..((w - r) - n) : q[i] = p[n + i]
    <2>1. w - r <= Len(p)
      BY <1>2, <1>3
    <2> QED
      BY <1>2, <1>3, <1>4, <2>1, PartIs
  <1>6. PICK t : t = SubSeq(v, (r + n) + 1, w)
    OBVIOUS
  <1>7. t \in Seq(S) /\ Len(t) = w - (r + n) /\ \A i \in 1..(w - (r + n)) : t[i] = v[(r + n) + i]
    BY <1>2, <1>6, PartIs
  <1>8. ASSUME NEW i \in 1..((w - r) - n) PROVE q[i] = t[i]
    <2>1. n + i \in 1..(w - r) /\ r + (n + i) = (r + n) + i
      BY <1>2
    <2> QED
      BY <1>2, <1>3, <1>5, <1>7, <2>1
  <1>9. q = t
    BY <1>2, <1>5, <1>7, <1>8, SameSeq
  <1> QED
    BY <1>1, <1>4, <1>6, <1>9, Zenon DEF Same

\* Dropping from the first of two sequences.
LEMMA PartOfConcat ==
    ASSUME NEW S, NEW p \in Seq(S), NEW u \in Seq(S), NEW n \in Nat, n <= Len(p)
    PROVE  SubSeq(p \o u, n + 1, Len(p \o u)) = SubSeq(p, n + 1, Len(p)) \o u
  <1>1. /\ p \o u \in Seq(S) /\ Len(p \o u) = Len(p) + Len(u) /\ Len(p) \in Nat /\ Len(u) \in Nat
        /\ \A i \in 1..Len(p) : (p \o u)[i] = p[i]
        /\ \A i \in 1..Len(u) : (p \o u)[Len(p) + i] = u[i]
    BY ConcatIs
  <1>2. PICK c, l : c = p \o u /\ l = Len(p) + Len(u)
    OBVIOUS
  <1>3. /\ c \in Seq(S) /\ Len(c) = l /\ l \in Nat /\ n <= l /\ l <= Len(c)
        /\ Len(p) <= Len(p)
    BY <1>1, <1>2
  <1>4. PICK d : d = SubSeq(c, n + 1, l)
    OBVIOUS
  <1>5. d \in Seq(S) /\ Len(d) = l - n /\ \A i \in 1..(l - n) : d[i] = c[n + i]
    BY <1>3, <1>4, PartIs
  <1>6. PICK q : q = SubSeq(p, n + 1, Len(p))
    OBVIOUS
  <1>7. q \in Seq(S) /\ Len(q) = Len(p) - n /\ \A i \in 1..(Len(p) - n) : q[i] = p[n + i]
    BY <1>1, <1>3, <1>6, PartIs
  <1>8. PICK e : e = q \o u
    OBVIOUS
  <1>9. /\ e \in Seq(S) /\ Len(e) = Len(q) + Len(u)
        /\ \A i \in 1..Len(q) : e[i] = q[i]
        /\ \A i \in 1..Len(u) : e[Len(q) + i] = u[i]
    <2>1. q \in Seq(S) /\ u \in Seq(S)
      BY <1>7
    <2>2. /\ q \o u \in Seq(S) /\ Len(q \o u) = Len(q) + Len(u)
          /\ \A i \in 1..Len(q) : (q \o u)[i] = q[i]
          /\ \A i \in 1..Len(u) : (q \o u)[Len(q) + i] = u[i]
      BY <2>1, ConcatIs
    <2> QED
      BY <1>8, <2>2, Zenon
  <1>10. ASSUME NEW i \in 1..(l - n) PROVE d[i] = e[i]
    <2>1. CASE i <= Len(p) - n
      <3>1. i \in 1..(Len(p) - n) /\ i \in 1..Len(q) /\ n + i \in 1..Len(p)
        BY <1>1, <1>7, <2>1
      <3> QED
        BY <1>1, <1>2, <1>5, <1>7, <1>9, <3>1, Zenon
    <2>2. CASE ~(i <= Len(p) - n)
      <3>1. PICK j \in 1..Len(u) : i = (Len(p) - n) + j
        <4>1. i - (Len(p) - n) \in 1..Len(u) /\ i = (Len(p) - n) + (i - (Len(p) - n))
          BY <1>1, <1>2, <2>2
        <4> QED
          BY <4>1
      <3>2. n + i = Len(p) + j
        BY <1>1, <3>1
      <3>3. d[i] = c[Len(p) + j] /\ e[i] = u[j]
        BY <1>5, <1>7, <1>9, <3>1, <3>2, Zenon
      <3> QED
        BY <1>1, <1>2, <3>1, <3>3, Zenon
    <2> QED
      BY <2>1, <2>2
  <1>11. Len(d) = Len(e)
    BY <1>1, <1>2, <1>5, <1>7, <1>9
  <1>12. \A i \in 1..Len(d) : d[i] = e[i]
    BY <1>5, <1>10, Zenon
  <1>13. d = e
    <2>1. Alike(d, e, S)
      BY <1>5, <1>9, <1>11, <1>12, Zenon DEF Alike
    <2> QED
      BY <2>1, AlikeIs, Zenon
  <1>14. Len(p \o u) = l
    BY <1>2, <1>3, Zenon
  <1> QED
    BY <1>2, <1>4, <1>6, <1>8, <1>13, <1>14, Zenon

\* retrieve() drops the first readable bytes.
Dropped(c, b, len, Byte) ==
    IsBuffer(c, Byte) /\ Readable(c) = SubSeq(Readable(b), len + 1, Len(Readable(b)))

\* Both branches: advancing the read index, and retrieveAll().
LEMMA RetrieveIs ==
    ASSUME NEW Byte, NEW b, IsBuffer(b, Byte), NEW len \in Nat, len <= readableBytes(b)
    PROVE  Dropped(retrieve(b, len), b, len, Byte)
  <1>1. /\ Lengths(b) /\ b \in Record(Byte) /\ b.buffer_ \in Seq(Byte)
        /\ Readable(b) = SubSeq(b.buffer_, b.readIndex_ + 1, b.writeIndex_)
        /\ Readable(b) \in Seq(Byte) /\ Len(Readable(b)) = readableBytes(b)
    BY BufferParts, Zenon
  <1>2. PICK v \in Seq(Byte), r \in Nat, w \in Nat, k \in Nat :
            v = b.buffer_ /\ r = b.readIndex_ /\ w = b.writeIndex_ /\ k = kCheapPrepend
    BY <1>1, Zenon DEF Lengths
  <1>6. /\ k <= r /\ r <= w /\ w <= Len(v) /\ Len(v) \in Nat
        /\ readableBytes(b) = w - r
    BY <1>1, <1>2, Zenon DEF Lengths
  <1>3. k <= r /\ r <= w /\ w <= Len(v) /\ Len(v) \in Nat /\ k <= Len(v) /\ readableBytes(b) = w - r
    <2> HIDE DEF readableBytes
    <2> QED
      BY <1>2, <1>6
  <1>4. CASE len < readableBytes(b)
    <2>1. retrieve(b, len) = [b EXCEPT !.readIndex_ = r + len]
      BY <1>2, <1>4, Zenon DEF retrieve
    <2>2. /\ r + len \in Nat /\ kCheapPrepend <= r + len /\ r + len <= w
      BY <1>2, <1>3
    <2>3. Parts(b, v, r + len, w, Byte)
      BY <1>1, <1>2, <2>2 DEF Parts
    <2>4. Changed(b, v, r + len, w)
      BY <2>3, BufChanged, Zenon
    <2>5. retrieve(b, len) = Buf(v, r + len, w)
      BY <1>2, <2>1, <2>4, Zenon DEF Changed
    <2>6. Bounds(v, r + len, w, Byte)
      BY <1>2, <1>3, <2>2 DEF Bounds
    <2>7. BufOf(Buf(v, r + len, w), v, r + len, w, Byte)
      BY <2>6, BufIs, Zenon
    <2>8. Same(SubSeq(SubSeq(v, r + 1, w), len + 1, w - r), SubSeq(v, (r + len) + 1, w))
      BY <1>2, <1>3, <2>2, PartOfPart, Zenon
    <2> QED
      BY <1>1, <1>2, <1>3, <2>5, <2>7, <2>8, Zenon DEF BufOf, Dropped, Same
  <1>5. CASE ~(len < readableBytes(b))
    <2>1. retrieve(b, len) = [b EXCEPT !.readIndex_ = k, !.writeIndex_ = k]
      BY <1>2, <1>5, Zenon DEF retrieve, retrieveAll
    <2>2. kCheapPrepend <= k /\ k <= k
      BY <1>2
    <2>3. Parts(b, v, k, k, Byte)
      BY <1>1, <1>2 DEF Parts
    <2>4. Changed(b, v, k, k)
      BY <2>3, BufChanged, Zenon
    <2>5. retrieve(b, len) = Buf(v, k, k)
      BY <1>2, <2>1, <2>4, Zenon DEF Changed
    <2>6. Bounds(v, k, k, Byte)
      BY <1>2, <1>3, <2>2 DEF Bounds
    <2>7. BufOf(Buf(v, k, k), v, k, k, Byte)
      BY <2>6, BufIs, Zenon
    <2>8. SubSeq(v, k + 1, k) = <<>>
      BY <1>2, SubSeqEmpty
    <2>9. len = readableBytes(b)
      BY <1>3, <1>5
    <2>10. SubSeq(Readable(b), len + 1, Len(Readable(b))) = <<>>
      <3>1. len + 1 \in Int /\ len \in Int /\ len < len + 1
        OBVIOUS
      <3>2. SubSeq(Readable(b), len + 1, len) = <<>>
        BY <3>1, SubSeqEmpty
      <3> QED
        BY <1>1, <2>9, <3>2, Zenon
    <2> QED
      BY <2>5, <2>7, <2>8, <2>10, Zenon DEF BufOf, Dropped
  <1> QED
    BY <1>4, <1>5

\* A new Buffer is empty.
LEMMA NewBufferIs ==
    ASSUME NEW Byte, Zero \in Byte
    PROVE  IsBuffer(NewBuffer, Byte) /\ Readable(NewBuffer) = <<>>
  <1>1. PICK k \in Nat, n \in Nat : k = kCheapPrepend /\ n = k + kInitialSize
    BY BufferAssumption
  <1>2. k <= n
    BY <1>1, BufferAssumption
  <1>3. Zeros(n) \in Seq(Byte) /\ Len(Zeros(n)) = n
    BY DEF Zeros
  <1>4. NewBuffer = Buf(Zeros(n), k, k)
    BY <1>1, Zenon DEF NewBuffer, Buf
  <1>5. Bounds(Zeros(n), k, k, Byte)
    BY <1>1, <1>2, <1>3 DEF Bounds
  <1>6. BufOf(Buf(Zeros(n), k, k), Zeros(n), k, k, Byte)
    BY <1>5, BufIs, Zenon
  <1>7. SubSeq(Zeros(n), k + 1, k) = <<>>
    BY SubSeqEmpty
  <1> QED
    BY <1>4, <1>6, <1>7, Zenon DEF BufOf

(***************************************************************************)
(* The stream.                                                             *)
(***************************************************************************)
Bytes == {Zero} \cup (Nat \X Nat)

\* Following(), for the frames fs.
After(byte, fs) ==
    IF byte[2] < FrameSize(fs[byte[1]]) THEN <<byte[1], byte[2] + 1>> ELSE <<byte[1] + 1, 1>>

Inside(byte, fs) ==
    /\ byte \in Nat \X Nat
    /\ byte[1] \in 1..Len(fs) /\ byte[2] \in 1..FrameSize(fs[byte[1]])

\* s is the stream of the frames fs, from the first byte of the frame behind the n-th on.
Stream(s, n, fs) ==
    /\ s \in Seq(Bytes) /\ n \in Nat /\ fs \in Seq(Frame) /\ n <= Len(fs)
    /\ Len(s) = 0 <=> n = Len(fs)
    /\ Len(s) > 0 => s[1] = <<n + 1, 1>> /\ After(s[Len(s)], fs) = <<Len(fs) + 1, 1>>
    /\ \A i \in 1..Len(s) : Inside(s[i], fs)
    /\ \A i \in 2..Len(s) : s[i] = After(s[i - 1], fs)

\* The sizes of a frame.
LEMMA SizeIs ==
    ASSUME NEW f \in Frame
    PROVE  f.body \in Nat /\ FrameSize(f) \in Nat /\ FrameSize(f) >= 1 /\ kHeaderSize \in Nat
  <1>1. f.body \in Nat /\ kHeaderSize \in Nat \ {0}
    BY ServerAssumption DEF Frame
  <1> QED
    BY <1>1 DEF FrameSize

\* The bytes of a frame.
LEMMA FrameBytesAre ==
    ASSUME NEW f \in Frame, NEW k \in Nat
    PROVE  /\ FrameBytes(f, k) \in Seq(Bytes) /\ Len(FrameBytes(f, k)) = FrameSize(f)
           /\ \A j \in 1..FrameSize(f) : FrameBytes(f, k)[j] = <<k, j>>
  <1>1. PICK z \in Nat : z = FrameSize(f)
    BY SizeIs
  <1>2. PICK c : c = [j \in 1..z |-> <<k, j>>]
    OBVIOUS
  <1>3. \A j \in 1..z : <<k, j>> \in Bytes
    BY DEF Bytes
  <1>4. c \in Seq(Bytes) /\ Len(c) = z /\ \A j \in 1..z : c[j] = <<k, j>>
    BY <1>2, <1>3
  <1> QED
    BY <1>1, <1>2, <1>4, Zenon DEF FrameBytes

\* A frame sent later does not change what is inside or behind an earlier one.
LEMMA InsideStays ==
    ASSUME NEW fs \in Seq(Frame), NEW f \in Frame, NEW byte, Inside(byte, fs)
    PROVE  Inside(byte, Append(fs, f)) /\ After(byte, Append(fs, f)) = After(byte, fs)
  <1>1. PICK g : g = Append(fs, f)
    OBVIOUS
  <1>2. Len(fs) \in Nat /\ Len(g) = Len(fs) + 1 /\ \A i \in 1..Len(fs) : g[i] = fs[i]
    BY <1>1
  <1>3. byte[1] \in 1..Len(fs)
    BY DEF Inside
  <1>4. g[byte[1]] = fs[byte[1]] /\ byte[1] \in 1..Len(g)
    BY <1>2, <1>3
  <1>5. Inside(byte, g) /\ After(byte, g) = After(byte, fs)
    BY <1>4, Zenon DEF Inside, After
  <1> QED
    BY <1>1, <1>5, Zenon

\* The peer sends a frame: the stream grows by its bytes.
LEMMA StreamSent ==
    ASSUME NEW s, NEW n, NEW fs, Stream(s, n, fs), NEW f \in Frame
    PROVE  Stream(s \o FrameBytes(f, Len(fs) + 1), n, Append(fs, f))
  <1>1. /\ s \in Seq(Bytes) /\ n \in Nat /\ fs \in Seq(Frame) /\ n <= Len(fs)
        /\ Len(fs) \in Nat /\ Len(s) \in Nat
    BY DEF Stream
  <1>2. PICK k \in Nat, l \in Nat, z \in Nat : k = Len(fs) + 1 /\ l = Len(s) /\ z = FrameSize(f)
    BY <1>1, SizeIs
  <1>3. z >= 1 /\ Len(fs) = k - 1 /\ k >= 1
    BY <1>1, <1>2, SizeIs
  <1>4. PICK c, g, d : c = FrameBytes(f, k) /\ g = Append(fs, f) /\ d = s \o c
    OBVIOUS
  <1>5. c \in Seq(Bytes) /\ Len(c) = z /\ \A j \in 1..z : c[j] = <<k, j>>
    BY <1>2, <1>4, FrameBytesAre, Zenon
  <1>6. g \in Seq(Frame) /\ Len(g) = k /\ g[k] = f
    BY <1>1, <1>2, <1>4
  <1>7. /\ d \in Seq(Bytes) /\ Len(d) = l + z
        /\ \A i \in 1..l : d[i] = s[i]
        /\ \A j \in 1..z : d[l + j] = <<k, j>>
    <2>1. s \in Seq(Bytes) /\ c \in Seq(Bytes)
      BY <1>1, <1>5
    <2>2. /\ s \o c \in Seq(Bytes) /\ Len(s \o c) = Len(s) + Len(c)
          /\ \A i \in 1..Len(s) : (s \o c)[i] = s[i]
          /\ \A i \in 1..Len(c) : (s \o c)[Len(s) + i] = c[i]
      BY <2>1, ConcatIs
    <2> QED
      BY <1>2, <1>4, <1>5, <2>2, Zenon
  <1>8. ASSUME NEW j \in 1..z
        PROVE  /\ Inside(<<k, j>>, g)
               /\ j < z => After(<<k, j>>, g) = <<k, j + 1>>
               /\ j = z => After(<<k, j>>, g) = <<k + 1, 1>>
    BY <1>2, <1>3, <1>6 DEF Inside, After
  <1>9. ASSUME NEW i \in 1..l PROVE Inside(d[i], g) /\ After(d[i], g) = After(s[i], fs)
    <2>1. d[i] = s[i] /\ Inside(s[i], fs)
      BY <1>2, <1>7, Zenon DEF Stream
    <2> QED
      BY <1>1, <1>4, <2>1, InsideStays
  <1>10. Len(d) \in Nat /\ Len(d) > 0 /\ n <= Len(g) /\ n # Len(g)
    BY <1>1, <1>2, <1>3, <1>6, <1>7
  <1>11. d[1] = <<n + 1, 1>>
    <2>1. CASE l = 0
      <3>1. n = Len(fs)
        BY <1>2, <2>1, Zenon DEF Stream
      <3>2. d[l + 1] = <<k, 1>> /\ l + 1 = 1 /\ k = n + 1
        BY <1>1, <1>2, <1>3, <1>7, <2>1, <3>1
      <3> QED
        BY <3>2, Zenon
    <2>2. CASE l > 0
      <3>1. s[1] = <<n + 1, 1>>
        BY <1>2, <2>2, Zenon DEF Stream
      <3>2. d[1] = s[1]
        BY <1>2, <1>7, <2>2
      <3> QED
        BY <3>1, <3>2, Zenon
    <2> QED
      BY <1>2, <2>1, <2>2
  <1>12. After(d[Len(d)], g) = <<Len(g) + 1, 1>>
    <2>1. z \in 1..z
      BY <1>3
    <2> QED
      BY <1>6, <1>7, <1>8, <2>1, Zenon
  <1>13. ASSUME NEW i \in 1..Len(d) PROVE Inside(d[i], g)
    <2>1. CASE i <= l
      BY <1>9, <2>1
    <2>2. CASE i > l
      <3>1. i - l \in 1..z /\ i = l + (i - l)
        BY <1>7, <2>2
      <3> QED
        BY <1>7, <1>8, <3>1, Zenon
    <2> QED
      BY <1>10, <2>1, <2>2
  <1>14. ASSUME NEW i \in 2..Len(d) PROVE d[i] = After(d[i - 1], g)
    <2>1. CASE i <= l
      <3>1. i \in 1..l /\ i - 1 \in 1..l /\ i \in 2..Len(s)
        BY <1>2, <2>1
      <3>2. d[i] = s[i] /\ s[i] = After(s[i - 1], fs) /\ After(d[i - 1], g) = After(s[i - 1], fs)
        BY <1>7, <1>9, <3>1, Zenon DEF Stream
      <3> QED
        BY <3>2, Zenon
    <2>2. CASE i = l + 1
      <3>1. l > 0 /\ l \in 1..l /\ i - 1 = l /\ 1 \in 1..z
        BY <1>2, <1>3, <2>2
      <3>2. d[i] = <<k, 1>> /\ After(d[i - 1], g) = After(s[l], fs)
        BY <1>7, <1>9, <2>2, <3>1, Zenon
      <3>3. After(s[l], fs) = <<k, 1>>
        BY <1>2, <3>1, Zenon DEF Stream
      <3> QED
        BY <3>2, <3>3, Zenon
    <2>3. CASE i > l + 1
      <3>1. PICK j : j = i - l
        OBVIOUS
      <3>2. /\ j \in 1..z /\ j - 1 \in 1..z /\ i = l + j /\ i - 1 = l + (j - 1)
            /\ j - 1 < z /\ (j - 1) + 1 = j
        BY <1>7, <2>3, <3>1
      <3>3. d[i] = <<k, j>> /\ d[i - 1] = <<k, j - 1>> /\ After(<<k, j - 1>>, g) = <<k, j>>
        BY <1>7, <1>8, <3>2, Zenon
      <3> QED
        BY <3>3, Zenon
    <2> QED
      BY <1>10, <2>1, <2>2, <2>3
  <1>15. Stream(d, n, g)
    <2>1. Len(d) # 0
      BY <1>10
    <2> QED
      BY <1>1, <1>6, <1>7, <1>10, <1>11, <1>12, <1>13, <1>14, <2>1, Zenon DEF Stream
  <1> QED
    BY <1>2, <1>4, <1>15, Zenon

\* A set of numbers has a least one.
LEMMA Least ==
    ASSUME NEW T, T \subseteq Nat, T # {}
    PROVE  \E n \in T : \A m \in T : n <= m
  <1> DEFINE R == {ss \in Nat \X Nat : ss[1] < ss[2]}
  <1>1. IsWellFoundedOn(R, Nat)
    BY NatLessThanWellFounded, Zenon DEF OpToRel
  <1>2. PICK n \in T : \A m \in T : ~(<<m, n>> \in R)
    BY <1>1, WFMin, Zenon
  <1>3. ASSUME NEW m \in T PROVE n <= m
    <2>1. m \in Nat /\ n \in Nat /\ <<m, n>> \notin R
      BY <1>2, Zenon
    <2> QED
      BY <2>1
  <1> QED
    BY <1>3

\* The bytes in front of the stream are those of the first frame not yet taken.
LEMMA FrontFrame ==
    ASSUME NEW s, NEW n, NEW fs, Stream(s, n, fs), NEW z \in Nat, z <= Len(s),
           z <= FrameSize(fs[n + 1]), n + 1 \in 1..Len(fs)
    PROVE  \A j \in 1..z : s[j] = <<n + 1, j>>
  <1> DEFINE T == {j \in 1..z : s[j] # <<n + 1, j>>}
  <1> SUFFICES ASSUME T # {} PROVE FALSE
    OBVIOUS
  <1>1. T \subseteq Nat
    OBVIOUS
  <1>2. PICK j \in T : \A i \in T : j <= i
    <2> HIDE DEF T
    <2> QED
      BY <1>1, Least, Zenon
  <1>3. j \in 1..z /\ s[j] # <<n + 1, j>> /\ Len(s) \in Nat /\ n \in Nat /\ FrameSize(fs[n + 1]) \in Nat
    <2>1. fs[n + 1] \in Frame
      BY DEF Stream
    <2>2. FrameSize(fs[n + 1]) \in Nat
      BY <2>1, SizeIs
    <2> QED
      BY <1>2, <2>2 DEF Stream
  <1>4. CASE j = 1
    <2>1. Len(s) > 0
      BY <1>3
    <2> QED
      BY <1>3, <1>4, <2>1, Zenon DEF Stream
  <1>5. CASE j # 1
    <2>1. j - 1 \in 1..z /\ j \in 2..Len(s) /\ ~(j <= j - 1) /\ j - 1 < FrameSize(fs[n + 1]) /\ (j - 1) + 1 = j
      BY <1>3, <1>5
    <2>2. s[j - 1] = <<n + 1, j - 1>>
      BY <1>2, <2>1, Zenon
    <2>3. s[j] = After(<<n + 1, j - 1>>, fs)
      BY <2>1, <2>2, Zenon DEF Stream
    <2>4. After(<<n + 1, j - 1>>, fs) = <<n + 1, j>>
      BY <2>1 DEF After
    <2> QED
      BY <1>3, <2>3, <2>4, Zenon
  <1> QED
    BY <1>4, <1>5

\* The first frame is taken: the stream begins with the next, and is at its end exactly
\* when there is none.
Complete(s, n, fs, z) ==
    z \in Nat /\ z <= Len(s) /\ z = FrameSize(fs[n + 1]) /\ n + 1 \in 1..Len(fs)

\* What is left begins with the next frame.
LEMMA StreamTaken ==
    ASSUME NEW s, NEW n, NEW fs, Stream(s, n, fs), NEW z, Complete(s, n, fs, z)
    PROVE  Stream(SubSeq(s, z + 1, Len(s)), n + 1, fs)
  <1>1. /\ s \in Seq(Bytes) /\ n \in Nat /\ fs \in Seq(Frame) /\ n <= Len(fs)
        /\ Len(fs) \in Nat /\ Len(s) \in Nat
    BY DEF Stream
  <1>2. z \in Nat /\ z >= 1 /\ z <= Len(s)
    <2>1. fs[n + 1] \in Frame
      BY <1>1 DEF Complete
    <2>2. FrameSize(fs[n + 1]) >= 1
      BY <2>1, SizeIs
    <2> QED
      BY <2>2 DEF Complete
  <1>3. PICK l, d : l \in Nat /\ l = Len(s) /\ d = SubSeq(s, z + 1, l)
    BY <1>1
  <1>4. d \in Seq(Bytes) /\ Len(d) = l - z /\ \A i \in 1..(l - z) : d[i] = s[z + i]
    <2>1. s \in Seq(Bytes) /\ l \in Nat /\ z \in Nat /\ z <= l /\ l <= Len(s)
      BY <1>1, <1>2, <1>3
    <2>2. /\ SubSeq(s, z + 1, l) \in Seq(Bytes) /\ Len(SubSeq(s, z + 1, l)) = l - z
          /\ \A i \in 1..(l - z) : SubSeq(s, z + 1, l)[i] = s[z + i]
      BY <2>1, PartIs
    <2> QED
      BY <1>3, <2>2, Zenon
  <1>5. s[z] = <<n + 1, z>>
    <2>1. /\ z \in 1..z /\ z <= FrameSize(fs[n + 1]) /\ z \in Nat /\ z <= Len(s)
          /\ n + 1 \in 1..Len(fs)
      BY <1>2 DEF Complete
    <2>2. \A j \in 1..z : s[j] = <<n + 1, j>>
      BY <2>1, FrontFrame
    <2> QED
      BY <2>1, <2>2
  <1>6. After(s[z], fs) = <<n + 2, 1>>
    <2>1. /\ <<n + 1, z>>[1] = n + 1 /\ <<n + 1, z>>[2] = z /\ ~(z < z) /\ (n + 1) + 1 = n + 2
      BY <1>1, <1>2
    <2>2. After(<<n + 1, z>>, fs) = <<(n + 1) + 1, 1>>
      BY <2>1, Zenon DEF After, Complete
    <2> QED
      BY <1>5, <2>1, <2>2, Zenon
  <1>7. z < l => s[z + 1] = <<n + 2, 1>>
    <2> SUFFICES ASSUME z < l PROVE s[z + 1] = <<n + 2, 1>>
      OBVIOUS
    <2>1. z + 1 \in 2..Len(s) /\ (z + 1) - 1 = z
      BY <1>1, <1>2, <1>3
    <2>2. s[z + 1] = After(s[(z + 1) - 1], fs)
      BY <2>1, Zenon DEF Stream
    <2> QED
      BY <1>6, <2>1, <2>2, Zenon
  <1>8. Len(d) = 0 <=> n + 1 = Len(fs)
    <2>1. CASE z < l
      <3>1. z + 1 \in 1..Len(s) /\ Len(d) # 0
        BY <1>1, <1>2, <1>3, <1>4, <2>1
      <3>2. Inside(<<n + 2, 1>>, fs)
        BY <1>7, <2>1, <3>1, Zenon DEF Stream
      <3>3. n + 2 \in 1..Len(fs)
        BY <3>2 DEF Inside
      <3> QED
        BY <1>1, <3>1, <3>3
    <2>2. CASE ~(z < l)
      <3>1. l = z /\ Len(d) = 0 /\ Len(s) > 0
        BY <1>1, <1>2, <1>3, <1>4, <2>2
      <3>2. After(s[z], fs) = <<Len(fs) + 1, 1>>
        BY <1>3, <3>1, Zenon DEF Stream
      <3>3. <<n + 2, 1>> = <<Len(fs) + 1, 1>>
        BY <1>6, <3>2, Zenon
      <3>4. n + 2 = Len(fs) + 1
        BY <3>3
      <3> QED
        BY <1>1, <3>1, <3>4
    <2> QED
      BY <2>1, <2>2
  <1>9. Len(d) > 0 => d[1] = <<(n + 1) + 1, 1>> /\ After(d[Len(d)], fs) = <<Len(fs) + 1, 1>>
    <2> SUFFICES ASSUME Len(d) > 0
                 PROVE  d[1] = <<(n + 1) + 1, 1>> /\ After(d[Len(d)], fs) = <<Len(fs) + 1, 1>>
      OBVIOUS
    <2>1. /\ z < l /\ 1 \in 1..(l - z) /\ Len(d) \in 1..(l - z) /\ z + Len(d) = l /\ Len(s) > 0
          /\ (n + 1) + 1 = n + 2
      <3>1. PICK e \in Nat : e = Len(d) /\ l = z + e /\ l - z = e /\ e > 0
        <4>1. Len(d) \in Nat /\ l = z + Len(d) /\ l - z = Len(d)
          BY <1>2, <1>3, <1>4
        <4> QED
          BY <4>1, Zenon
      <3>2. z < z + e /\ 1 \in 1..e /\ e \in 1..e /\ z + e > 0
        <4>1. ASSUME NEW x \in Nat, NEW y \in Nat, y > 0
              PROVE  x < x + y /\ 1 \in 1..y /\ y \in 1..y /\ x + y > 0
          BY <4>1
        <4> QED
          BY <1>2, <3>1, <4>1, Zenon
      <3>3. (n + 1) + 1 = n + 2
        BY <1>1
      <3> QED
        BY <1>3, <3>1, <3>2, <3>3, Zenon
    <2>2. d[1] = s[z + 1] /\ d[Len(d)] = s[l]
      BY <1>4, <2>1, Zenon
    <2>3. After(s[l], fs) = <<Len(fs) + 1, 1>>
      BY <1>3, <2>1, Zenon DEF Stream
    <2>4. s[z + 1] = <<n + 2, 1>>
      BY <1>7, <2>1
    <2> QED
      BY <2>1, <2>2, <2>3, <2>4, Zenon
  <1>10. ASSUME NEW i \in 1..Len(d) PROVE Inside(d[i], fs)
    <2>1. z + i \in 1..Len(s) /\ i \in 1..(l - z)
      BY <1>2, <1>3, <1>4
    <2> QED
      BY <1>4, <2>1, Zenon DEF Stream
  <1>11. ASSUME NEW i \in 2..Len(d) PROVE d[i] = After(d[i - 1], fs)
    <2>1. z + i \in 2..Len(s) /\ i \in 1..(l - z) /\ i - 1 \in 1..(l - z) /\ (z + i) - 1 = z + (i - 1)
      BY <1>2, <1>3, <1>4
    <2>2. s[z + i] = After(s[(z + i) - 1], fs)
      BY <2>1, Zenon DEF Stream
    <2> QED
      BY <1>4, <2>1, <2>2, Zenon
  <1>12. n + 1 \in Nat /\ n + 1 <= Len(fs)
    BY <1>1 DEF Complete
  <1> QED
    BY <1>1, <1>3, <1>4, <1>8, <1>9, <1>10, <1>11, <1>12, Zenon DEF Stream

(***************************************************************************)
(* The inductive invariant.                                                *)
(***************************************************************************)
Statuses == {Status[kind] : kind \in DOMAIN Status}

Types ==
    /\ frames \in Seq(Frame) /\ unread \in Seq(Bytes) /\ IsBuffer(inputBuffer_, Bytes)
    /\ maxInputBufferSize_ \in Nat
    /\ state_ \in {"kConnected", "kDisconnecting", "kDisconnected"}
    /\ closePosted \in BOOLEAN /\ pc \in {"poll", "parse"}
    /\ responses \in Seq(Nat \X Statuses) /\ handled \in Seq(Nat) /\ dispatched \in Seq(Nat)

Turns ==
    /\ Stream(Readable(inputBuffer_) \o unread, Len(handled), frames)
    /\ \A i \in 1..Len(handled) : handled[i] = i
    /\ \A i \in 1..Len(dispatched) : dispatched[i] \in 1..Len(frames)
    /\ Len(responses) <= Len(frames)

IInv == Types /\ Turns /\ Answered /\ ParsedAsFarAsPossible /\ InputBounded

\* Behind the end of the stream nothing is read, and so no frame is taken.
Ends ==
    /\ output \in BOOLEAN /\ halfClosed \in BOOLEAN
    /\ halfClosed => unread = <<>> /\ pc = "poll"

\* onMessage() runs before the end of the stream.
LEMMA NotEnded ==
    ASSUME Ends, pc = "parse"
    PROVE  ~halfClosed
  BY DEF Ends

\* The larger and the smaller of two numbers.
LEMMA OfTwo ==
    ASSUME NEW a \in Nat, NEW b \in Nat
    PROVE  /\ Max({a, b}) \in {a, b} /\ Max({a, b}) >= a /\ Max({a, b}) >= b
           /\ Min({a, b}) \in {a, b} /\ Min({a, b}) <= a /\ Min({a, b}) <= b
  <1>1. \E x \in {a, b} : \A y \in {a, b} : x >= y
    OBVIOUS
  <1>2. \E x \in {a, b} : \A y \in {a, b} : x <= y
    OBVIOUS
  <1>3. Max({a, b}) \in {a, b} /\ \A y \in {a, b} : Max({a, b}) >= y
    BY <1>1 DEF Max
  <1>4. Min({a, b}) \in {a, b} /\ \A y \in {a, b} : Min({a, b}) <= y
    BY <1>2 DEF Min
  <1> QED
    BY <1>3, <1>4

\* The limits of a server.
LEMMA LimitsAre ==
    maxFrameSize_ \in Nat /\ maxBody \in Nat /\ kHeaderSize \in Nat /\ kHeaderSize >= 1
  <1>1. MaxFrameSize \in Nat /\ kHeaderSize \in Nat /\ kMaxBodyLen \in Nat /\ kHeaderSize >= 1
    BY ServerAssumption
  <1>2. maxFrameSize_ \in Nat /\ maxFrameSize_ >= kHeaderSize
    <2>1. /\ Max({MaxFrameSize, kHeaderSize}) \in {MaxFrameSize, kHeaderSize}
          /\ Max({MaxFrameSize, kHeaderSize}) >= kHeaderSize
      BY <1>1, OfTwo
    <2> QED
      BY <1>1, <2>1 DEF maxFrameSize_
  <1>3. maxBody \in Nat
    <2>1. PICK n : n = maxFrameSize_ - kHeaderSize
      OBVIOUS
    <2>2. n \in Nat
      BY <1>1, <1>2, <2>1
    <2>3. Min({n, kMaxBodyLen}) \in {n, kMaxBodyLen}
      BY <1>1, <2>2, OfTwo
    <2> QED
      BY <1>1, <2>1, <2>2, <2>3, Zenon DEF maxBody
  <1> QED
    BY <1>1, <1>2, <1>3

\* What a frame declares: no more than the limit, and then what it sends.
LEMMA DeclaredIs ==
    ASSUME NEW f \in Frame
    PROVE  /\ f.kind = "huge" => Declared(f) > maxBody
           /\ f.kind # "huge" => Declared(f) <= maxBody /\ FrameSize(f) = kHeaderSize + Declared(f)
           /\ Declared(f) \in Nat
  <1>1. f.body \in Nat /\ (f.kind # "huge" => f.body <= maxBody)
    <2>1. f.kind # "huge" => f.body <= maxBody
      BY Zenon DEF Frame
    <2> QED
      BY <2>1, SizeIs, Zenon
  <1>2. maxBody \in Nat
    BY LimitsAre
  <1> QED
    BY <1>1, <1>2 DEF Declared, FrameSize

\* Which statuses reject.
LEMMA StatusIs ==
    /\ \A kind \in PolicyKinds \cup {"envelope", "huge"} :
           kind \in DOMAIN Status /\ Status[kind] \in Rejections
    /\ \A kind \in DispatchKinds \cup {"serializer"} :
           kind \in DOMAIN Status /\ Status[kind] \notin Rejections
  <1>1. \A kind \in PolicyKinds \cup {"envelope", "huge"} : kind \in DOMAIN Status
    BY DEF Status, PolicyKinds
  <1>2. \A kind \in DispatchKinds \cup {"serializer"} : kind \in DOMAIN Status
    BY DEF Status, DispatchKinds
  <1>3. Rejections \subseteq {"kUnsupportedVersion", "kUnsupportedMsgType", "kUnsupportedFlag",
                              "kMalformedBody", "kBodyTooLarge"}
    BY DEF Rejections, Status, PolicyKinds
  <1>4. \A kind \in DispatchKinds \cup {"serializer"} :
            Status[kind] \in {"kOk", "kUnknownService", "kUnknownMethod", "kInternalError",
                              "kUnsupportedSerializer"}
    BY DEF Status, DispatchKinds
  <1>5. \A kind \in PolicyKinds \cup {"envelope", "huge"} : Status[kind] \in Rejections
    BY Zenon DEF Rejections
  <1> QED
    BY <1>1, <1>2, <1>3, <1>4, <1>5

\* The frame whose turn it is.
Turn == Len(handled) + 1

\* The types give the sequences and their lengths.
LEMMA BufferHas ==
    ASSUME Types
    PROVE  /\ Readable(inputBuffer_) \in Seq(Bytes) /\ Len(Readable(inputBuffer_)) = readable
           /\ readable \in Nat /\ unread \in Seq(Bytes) /\ Len(handled) \in Nat
  <1>1. IsBuffer(inputBuffer_, Bytes) /\ unread \in Seq(Bytes) /\ handled \in Seq(Nat)
    BY Zenon DEF Types
  <1>2. /\ Readable(inputBuffer_) \in Seq(Bytes) /\ Len(Readable(inputBuffer_)) = readableBytes(inputBuffer_)
        /\ Lengths(inputBuffer_)
    BY <1>1, BufferParts, Zenon
  <1>3. readable = readableBytes(inputBuffer_)
    BY Zenon DEF readable
  <1>4. readableBytes(inputBuffer_) \in Nat
    BY <1>2, Zenon DEF Lengths
  <1> QED
    BY <1>1, <1>2, <1>3, <1>4, LenProperties, Zenon

\* A header at peek() is that of the frame whose turn it is.
LEMMA FrontIs ==
    ASSUME Types, Turns, readable >= kHeaderSize
    PROVE  peek = <<Turn, 1>> /\ Turn \in 1..Len(frames) /\ frames[Turn] \in Frame
  <1>1. PICK p, u : p = Readable(inputBuffer_) /\ u = unread
    OBVIOUS
  <1>2. p \in Seq(Bytes) /\ u \in Seq(Bytes) /\ Len(p) = readable /\ readable \in Nat
    BY <1>1, BufferHas, Zenon
  <1>3. Len(p) >= 1
    BY <1>2, LimitsAre
  <1>4. PICK s : s = p \o u
    OBVIOUS
  <1>5. Len(s) > 0 /\ 1 \in 1..Len(s) /\ s[1] = p[1] /\ Head(p) = p[1]
    <2>1. /\ Len(p \o u) = Len(p) + Len(u) /\ Len(u) \in Nat
          /\ \A i \in 1..Len(p) : (p \o u)[i] = p[i]
      BY <1>2, ConcatIs
    <2>2. Head(p) = p[1]
      BY <1>2, <1>3
    <2> QED
      BY <1>2, <1>3, <1>4, <2>1, <2>2
  <1>6. Stream(s, Len(handled), frames)
    BY <1>1, <1>4, Zenon DEF Turns
  <1>7. s[1] = <<Turn, 1>> /\ Inside(s[1], frames)
    BY <1>5, <1>6, Zenon DEF Stream, Turn
  <1>8. peek = <<Turn, 1>>
    BY <1>1, <1>5, <1>7, Zenon DEF peek
  <1>9. Inside(<<Turn, 1>>, frames)
    BY <1>7, Zenon
  <1>10. Turn \in 1..Len(frames)
    BY <1>9 DEF Inside
  <1>11. frames \in Seq(Frame)
    BY Zenon DEF Types
  <1> QED
    BY <1>8, <1>10, <1>11, ElementOfSeq, Zenon

\* What parse() found, in terms of the frame whose turn it is.
LEMMA ParseIs ==
    ASSUME Types, Turns
    PROVE  /\ ParseResult = "kOk" =>
                  /\ peek = <<Turn, 1>> /\ Turn \in 1..Len(frames) /\ frames[Turn] \in Frame
                  /\ FrameSize(frames[Turn]) = kHeaderSize + Declared(frames[Turn])
                  /\ FrameSize(frames[Turn]) <= readable
           /\ ParseResult = "kProtocolError" /\ decodeHeader =>
                  /\ peek = <<Turn, 1>> /\ Turn \in 1..Len(frames)
                  /\ frames[Turn].kind = "huge"
  <1>1. readable \in Nat /\ kHeaderSize \in Nat /\ maxBody \in Nat
    BY BufferHas, LimitsAre, Zenon
  <1>2. ASSUME readable >= kHeaderSize
        PROVE  /\ peek = <<Turn, 1>> /\ Turn \in 1..Len(frames) /\ frames[Turn] \in Frame
               /\ bodyLen = Declared(frames[Turn]) /\ Declared(frames[Turn]) \in Nat
    <2>1. peek = <<Turn, 1>> /\ Turn \in 1..Len(frames) /\ frames[Turn] \in Frame
      BY <1>2, FrontIs, Zenon
    <2>2. peek[1] = Turn
      BY <2>1
    <2>3. Declared(frames[Turn]) \in Nat
      BY <2>1, DeclaredIs, Zenon
    <2> QED
      BY <2>1, <2>2, <2>3, Zenon DEF bodyLen
  <1>3. ASSUME ParseResult = "kOk"
        PROVE  readable >= kHeaderSize /\ ~(bodyLen > maxBody) /\ ~(readable < kHeaderSize + bodyLen)
    <2>1. ~(readable < kHeaderSize) /\ ~(bodyLen > maxBody) /\ ~(readable < kHeaderSize + bodyLen)
      BY <1>3 DEF ParseResult
    <2> QED
      BY <1>1, <2>1
  <1>4. ASSUME ParseResult = "kOk"
        PROVE  /\ peek = <<Turn, 1>> /\ Turn \in 1..Len(frames) /\ frames[Turn] \in Frame
               /\ FrameSize(frames[Turn]) = kHeaderSize + Declared(frames[Turn])
               /\ FrameSize(frames[Turn]) <= readable
    <2>1. /\ peek = <<Turn, 1>> /\ Turn \in 1..Len(frames) /\ frames[Turn] \in Frame
          /\ bodyLen = Declared(frames[Turn]) /\ Declared(frames[Turn]) \in Nat
      BY <1>2, <1>3, <1>4, Zenon
    <2>2. frames[Turn].kind # "huge"
      <3>1. frames[Turn].kind = "huge" => Declared(frames[Turn]) > maxBody
        BY <2>1, DeclaredIs, Zenon
      <3> QED
        BY <1>3, <1>4, <2>1, <3>1, Zenon
    <2>3. FrameSize(frames[Turn]) = kHeaderSize + Declared(frames[Turn])
      BY <2>1, <2>2, DeclaredIs, Zenon
    <2>4. PICK d \in Nat : d = Declared(frames[Turn]) /\ ~(readable < kHeaderSize + d)
      BY <1>3, <1>4, <2>1, Zenon
    <2>5. kHeaderSize + d <= readable
      BY <1>1, <2>4
    <2> QED
      BY <2>1, <2>3, <2>4, <2>5, Zenon
  <1>5. ASSUME ParseResult = "kProtocolError", decodeHeader
        PROVE  /\ peek = <<Turn, 1>> /\ Turn \in 1..Len(frames)
               /\ frames[Turn].kind = "huge"
    <2>1. readable >= kHeaderSize
      BY <1>5, Zenon DEF decodeHeader
    <2>2. bodyLen > maxBody
      BY <1>5 DEF ParseResult
    <2>3. /\ peek = <<Turn, 1>> /\ Turn \in 1..Len(frames) /\ frames[Turn] \in Frame
          /\ bodyLen = Declared(frames[Turn]) /\ Declared(frames[Turn]) \in Nat
      BY <1>2, <2>1, Zenon
    <2>4. frames[Turn].kind # "huge" => Declared(frames[Turn]) <= maxBody
      BY <2>3, DeclaredIs, Zenon
    <2>5. ~(Declared(frames[Turn]) <= maxBody)
      BY <1>1, <2>2, <2>3
    <2> QED
      BY <2>3, <2>4, <2>5, Zenon
  <1> QED
    BY <1>4, <1>5, Zenon

\* A frame is taken: its bytes leave the buffer, and it is the next in turn.
LEMMA TakesIs ==
    ASSUME Types, Turns, NEW k, Takes(k)
    PROVE  /\ k = Turn /\ k \in 1..Len(frames) /\ frames[k] \in Frame
           /\ frames' = frames /\ unread' = unread /\ maxInputBufferSize_' = maxInputBufferSize_
           /\ handled' = Append(handled, k)
           /\ IsBuffer(inputBuffer_', Bytes)
           /\ Stream(Readable(inputBuffer_') \o unread, Turn, frames)
  <1>1. /\ ParseResult = "kOk" /\ k = peek[1] /\ inputBuffer_' = Consumed(k)
        /\ frames' = frames /\ unread' = unread /\ maxInputBufferSize_' = maxInputBufferSize_
        /\ handled' = Append(handled, k)
    BY Zenon DEF Takes
  <1>2. /\ peek = <<Turn, 1>> /\ Turn \in 1..Len(frames) /\ frames[Turn] \in Frame
        /\ FrameSize(frames[Turn]) = kHeaderSize + Declared(frames[Turn])
        /\ FrameSize(frames[Turn]) <= readable
    BY <1>1, ParseIs, Zenon
  <1>3. k = Turn
    BY <1>1, <1>2
  <1>4. PICK z : z = FrameSize(frames[Turn])
    OBVIOUS
  <1>5. z \in Nat /\ z <= readable /\ z <= readableBytes(inputBuffer_)
    BY <1>2, <1>4, SizeIs, Zenon DEF readable
  <1>6. inputBuffer_' = retrieve(inputBuffer_, z)
    BY <1>1, <1>2, <1>3, <1>4, Zenon DEF Consumed
  <1>7. PICK p, u : p = Readable(inputBuffer_) /\ u = unread
    OBVIOUS
  <1>8. p \in Seq(Bytes) /\ u \in Seq(Bytes) /\ Len(p) = readable /\ readable \in Nat /\ z <= Len(p)
    BY <1>5, <1>7, BufferHas, Zenon
  <1>9. Dropped(inputBuffer_', inputBuffer_, z, Bytes)
    <2>1. IsBuffer(inputBuffer_, Bytes)
      BY Zenon DEF Types
    <2> QED
      BY <1>5, <1>6, <2>1, RetrieveIs, Zenon
  <1>10. IsBuffer(inputBuffer_', Bytes) /\ Readable(inputBuffer_') = SubSeq(p, z + 1, Len(p))
    BY <1>7, <1>9, Zenon DEF Dropped
  <1>11. SubSeq(p \o u, z + 1, Len(p \o u)) = SubSeq(p, z + 1, Len(p)) \o u
    <2>1. p \in Seq(Bytes) /\ u \in Seq(Bytes) /\ z \in Nat /\ z <= Len(p)
      BY <1>5, <1>8, Zenon
    <2> QED
      BY <2>1, PartOfConcat
  <1>12. Stream(p \o u, Len(handled), frames)
    BY <1>7, Zenon DEF Turns
  <1>13. Complete(p \o u, Len(handled), frames, z)
    <2>1. Len(p \o u) = Len(p) + Len(u) /\ Len(u) \in Nat
      BY <1>8, ConcatIs
    <2>2. z <= Len(p \o u)
      BY <1>5, <1>8, <2>1
    <2> QED
      BY <1>2, <1>4, <1>5, <2>2, Zenon DEF Complete, Turn
  <1>14. Stream(SubSeq(p \o u, z + 1, Len(p \o u)), Turn, frames)
    BY <1>12, <1>13, StreamTaken, Zenon DEF Turn
  <1> QED
    BY <1>1, <1>2, <1>3, <1>7, <1>10, <1>11, <1>14, Zenon

(***************************************************************************)
(* The responses.                                                          *)
(***************************************************************************)
LEMMA AnsweredStays ==
    ASSUME Answered, frames' = frames, responses' = responses, state_' = state_,
           handled' = handled, closePosted' = closePosted, halfClosed' = halfClosed
    PROVE  Answered'
  BY Zenon DEF Answered

\* The connection is closing, and the close is posted or nothing is to come.
LEMMA AnsweredClosing ==
    ASSUME Answered, frames' = frames, responses' = responses,
           (state_' = "kDisconnecting" /\ closePosted' = TRUE) \/ state_' = "kDisconnected"
    PROVE  Answered'
  <1>1. /\ \A i \in DOMAIN responses' : responses'[i] = <<i, Status[frames'[i].kind]>>
        /\ \A i \in DOMAIN responses' : responses'[i][2] \in Rejections => i = Len(responses')
    BY Zenon DEF Answered
  <1>2. state_' # "kConnected" /\ (state_' = "kDisconnecting" => closePosted')
    OBVIOUS
  <1> QED
    BY <1>1, <1>2, Zenon DEF Answered

\* The answer to frame i.
Answer(i) == <<i, Status[frames[i].kind]>>

\* A response is sent in its turn.
LEMMA SendIs ==
    ASSUME Types, Turns, Answered, sendResponse(Turn), Turn \in 1..Len(frames),
           frames[Turn].kind \in DOMAIN Status
    PROVE  /\ responses' \in Seq(Nat \X Statuses) /\ Len(responses') <= Len(frames)
           /\ \A i \in DOMAIN responses' : responses'[i] = Answer(i)
           /\ \A i \in DOMAIN responses' : responses'[i][2] \in Rejections => i = Len(responses')
           /\ state_ # "kConnected" => responses' = responses
           /\ state_ = "kConnected" =>
                  /\ Len(responses') = Turn /\ responses' # <<>>
                  /\ Last(responses') = Answer(Turn)
                  /\ \A i \in DOMAIN responses' :
                         i = Turn \/ responses'[i][2] \notin Rejections
  <1>1. /\ responses \in Seq(Nat \X Statuses) /\ Len(responses) <= Len(frames) /\ Len(handled) \in Nat
        /\ \A i \in DOMAIN responses : responses[i] = Answer(i)
        /\ \A i \in DOMAIN responses : responses[i][2] \in Rejections => i = Len(responses)
    BY BufferHas, Zenon DEF Types, Turns, Answered, Answer
  <1>2. CASE state_ # "kConnected"
    <2>1. responses' = responses
      BY <1>2, Zenon DEF sendResponse
    <2> QED
      BY <1>1, <1>2, <2>1, Zenon
  <1>3. CASE state_ = "kConnected"
    <2>1. responses' = Append(responses, Answer(Turn))
      BY <1>3, Zenon DEF sendResponse, Answer
    <2>2. Len(responses) = Len(handled) /\ \A i \in DOMAIN responses : responses[i][2] \notin Rejections
      BY <1>3, Zenon DEF Answered, ToSet
    <2>3. Turn \in Nat /\ Turn = Len(responses) + 1
      BY <1>1, <2>2 DEF Turn
    <2>4. PICK e : e = Answer(Turn)
      OBVIOUS
    <2>5. e \in Nat \X Statuses
      <3>1. Status[frames[Turn].kind] \in Statuses
        BY Zenon DEF Statuses
      <3> QED
        BY <2>3, <2>4, <3>1, Zenon DEF Answer
    <2>6. PICK R, r : R = responses' /\ r = responses
      OBVIOUS
    <2>7. r \in Seq(Nat \X Statuses) /\ R = Append(r, e) /\ Turn = Len(r) + 1
      BY <1>1, <2>1, <2>3, <2>4, <2>6, Zenon
    <2>8. /\ R \in Seq(Nat \X Statuses) /\ Len(R) = Turn /\ R # <<>> /\ DOMAIN R = 1..Turn
          /\ \A i \in DOMAIN R : i = Turn \/ i \in DOMAIN r
          /\ \A i \in DOMAIN r : R[i] = r[i]
          /\ R[Turn] = e /\ Turn \in DOMAIN R
      <3>1. /\ R \in Seq(Nat \X Statuses) /\ Len(R) = Len(r) + 1 /\ R # <<>>
            /\ \A i \in 1..Len(r) : R[i] = r[i]
            /\ R[Len(r) + 1] = e
        BY <2>5, <2>7, AppendProperties
      <3>2. DOMAIN R = 1..Len(R) /\ DOMAIN r = 1..Len(r) /\ Len(r) \in Nat
        BY <2>7, <3>1, LenProperties
      <3>3. \A i \in 1..Len(r) + 1 : i = Len(r) + 1 \/ i \in 1..Len(r)
        BY <3>2
      <3>4. Len(r) + 1 \in 1..Len(r) + 1
        BY <3>2
      <3> QED
        BY <2>7, <3>1, <3>2, <3>3, <3>4, Zenon
    <2>9. \A i \in DOMAIN R : R[i] = Answer(i)
      BY <1>1, <2>4, <2>6, <2>8, Zenon
    <2>10. \A i \in DOMAIN R : i = Turn \/ R[i][2] \notin Rejections
      BY <2>2, <2>6, <2>8, Zenon
    <2>11. Last(R) = Answer(Turn)
      BY <2>4, <2>8, Zenon DEF Last
    <2>12. Len(R) <= Len(frames)
      BY <2>3, <2>8
    <2> QED
      BY <1>3, <2>6, <2>8, <2>9, <2>10, <2>11, <2>12, Zenon
  <1> QED
    BY <1>2, <1>3

\* rejectAndClose() answers, and is the last to answer.
LEMMA AnsweredRejecting ==
    ASSUME Types, Turns, Answered, ~halfClosed, rejectAndClose(Turn), Turn \in 1..Len(frames),
           frames[Turn].kind \in PolicyKinds \cup {"envelope", "huge"},
           frames' = frames, closePosted' = closePosted
    PROVE  /\ Answered' /\ state_' # "kConnected"
           /\ responses' \in Seq(Nat \X Statuses) /\ Len(responses') <= Len(frames)
           /\ state_' \in {"kConnected", "kDisconnecting", "kDisconnected"}
  <1>1. sendResponse(Turn) /\ state_' = IF state_ = "kConnected" THEN "kDisconnecting" ELSE state_
    BY Zenon DEF rejectAndClose
  <1>2. /\ responses' \in Seq(Nat \X Statuses) /\ Len(responses') <= Len(frames)
        /\ \A i \in DOMAIN responses' : responses'[i] = Answer(i)
        /\ \A i \in DOMAIN responses' : responses'[i][2] \in Rejections => i = Len(responses')
        /\ state_ # "kConnected" => responses' = responses
        /\ state_ = "kConnected" => responses' # <<>> /\ Last(responses') = Answer(Turn)
    BY <1>1, SendIs, StatusIs, Zenon
  <1>3. state_' # "kConnected" /\ state_' \in {"kConnected", "kDisconnecting", "kDisconnected"}
    BY <1>1 DEF Types
  <1>4. \A i \in DOMAIN responses' : responses'[i] = <<i, Status[frames'[i].kind]>>
    BY <1>2, Zenon DEF Answer
  <1>5. state_' = "kDisconnecting" =>
            \/ responses' # <<>> /\ Last(responses')[2] \in Rejections
            \/ closePosted'
    <2>1. CASE state_ = "kConnected"
      <3>1. Answer(Turn)[2] = Status[frames[Turn].kind]
        BY DEF Answer
      <3>2. Status[frames[Turn].kind] \in Rejections
        BY StatusIs, Zenon
      <3> QED
        BY <1>2, <2>1, <3>1, <3>2, Zenon
    <2>2. CASE state_ # "kConnected"
      BY <1>1, <1>2, <2>2, Zenon DEF Answered
    <2> QED
      BY <2>1, <2>2
  <1> QED
    BY <1>2, <1>3, <1>4, <1>5, Zenon DEF Answered

\* A frame that is answered and does not end the connection.
LEMMA AnsweredOn ==
    ASSUME Types, Turns, Answered, ~halfClosed, sendResponse(Turn), Turn \in 1..Len(frames),
           frames[Turn].kind \in DispatchKinds \cup {"serializer"},
           frames' = frames, state_' = state_, closePosted' = closePosted,
           handled' = Append(handled, Turn)
    PROVE  /\ Answered'
           /\ responses' \in Seq(Nat \X Statuses) /\ Len(responses') <= Len(frames)
  <1>1. /\ responses' \in Seq(Nat \X Statuses) /\ Len(responses') <= Len(frames)
        /\ \A i \in DOMAIN responses' : responses'[i] = Answer(i)
        /\ \A i \in DOMAIN responses' : responses'[i][2] \in Rejections => i = Len(responses')
        /\ state_ # "kConnected" => responses' = responses
        /\ state_ = "kConnected" =>
               /\ Len(responses') = Turn /\ responses' # <<>>
               /\ Last(responses') = Answer(Turn)
               /\ \A i \in DOMAIN responses' : i = Turn \/ responses'[i][2] \notin Rejections
    BY SendIs, StatusIs, Zenon
  <1>2. \A i \in DOMAIN responses' : responses'[i] = <<i, Status[frames'[i].kind]>>
    BY <1>1, Zenon DEF Answer
  <1>3. Len(handled') = Turn
    <2>1. handled \in Seq(Nat) /\ Len(handled) \in Nat
      BY BufferHas, Zenon DEF Types
    <2>2. Turn \in Nat
      BY <2>1 DEF Turn
    <2>3. Len(Append(handled, Turn)) = Len(handled) + 1
      BY <2>1, <2>2, AppendProperties
    <2> QED
      BY <2>3, Zenon DEF Turn
  <1>4. state_' = "kConnected" =>
            /\ Len(responses') = Len(handled')
            /\ \A r \in ToSet(responses') : r[2] \notin Rejections
    <2> SUFFICES ASSUME state_' = "kConnected"
                 PROVE  /\ Len(responses') = Len(handled')
                        /\ \A i \in DOMAIN responses' : responses'[i][2] \notin Rejections
      BY Zenon DEF ToSet
    <2>1. Answer(Turn)[2] = Status[frames[Turn].kind]
      BY DEF Answer
    <2>2. Status[frames[Turn].kind] \notin Rejections
      BY StatusIs, Zenon
    <2> QED
      BY <1>1, <1>3, <2>1, <2>2, Zenon
  <1>5. state_' = "kDisconnecting" =>
            \/ responses' # <<>> /\ Last(responses')[2] \in Rejections
            \/ closePosted'
    <2> SUFFICES ASSUME state_' = "kDisconnecting"
                 PROVE  \/ responses' # <<>> /\ Last(responses')[2] \in Rejections
                        \/ closePosted'
      OBVIOUS
    <2>1. state_ = "kDisconnecting" /\ state_ # "kConnected"
      OBVIOUS
    <2> QED
      BY <1>1, <2>1, Zenon DEF Answered
  <1> QED
    BY <1>1, <1>2, <1>4, <1>5, Zenon DEF Answered

(***************************************************************************)
(* The steps.                                                              *)
(***************************************************************************)

\* The empty stream, before the first frame.
LEMMA Starts ==
    ASSUME Init
    PROVE  IInv
  <1>1. /\ frames = <<>> /\ unread = <<>> /\ inputBuffer_ = NewBuffer
        /\ state_ = "kConnected" /\ closePosted = FALSE /\ pc = "poll"
        /\ responses = <<>> /\ handled = <<>> /\ dispatched = <<>>
    BY Zenon DEF Init
  <1>2. maxInputBufferSize_ \in Nat
    <2>1. PICK limit \in InputLimits :
              maxInputBufferSize_ = IF limit = 0 THEN 0 ELSE Max({limit, kHeaderSize})
      BY Zenon DEF Init
    <2>2. limit \in Nat /\ kHeaderSize \in Nat
      BY ServerAssumption
    <2>3. Max({limit, kHeaderSize}) \in {limit, kHeaderSize}
      BY <2>2, OfTwo
    <2> QED
      BY <2>1, <2>2, <2>3
  <1>3. IsBuffer(inputBuffer_, Bytes) /\ Readable(inputBuffer_) = <<>>
    <2>1. Zero \in Bytes
      BY DEF Bytes
    <2> QED
      BY <1>1, <2>1, NewBufferIs, Zenon
  <1>4. Types
    <2>1. frames \in Seq(Frame) /\ unread \in Seq(Bytes) /\ responses \in Seq(Nat \X Statuses)
          /\ handled \in Seq(Nat) /\ dispatched \in Seq(Nat)
      BY <1>1, EmptySeq
    <2> QED
      BY <1>1, <1>2, <1>3, <2>1 DEF Types
  <1>5. Turns
    <2>1. Readable(inputBuffer_) \o unread = <<>>
      BY <1>1, <1>3
    <2>2. Stream(<<>>, 0, <<>>)
      BY DEF Stream
    <2>3. Len(handled) = 0 /\ Len(frames) = 0 /\ Len(dispatched) = 0 /\ Len(responses) = 0
      BY <1>1
    <2>4. Stream(Readable(inputBuffer_) \o unread, Len(handled), frames)
      BY <1>1, <2>1, <2>2, <2>3, Zenon
    <2> QED
      BY <2>3, <2>4 DEF Turns
  <1>6. readable = 0
    <2>1. readable = Len(Readable(inputBuffer_))
      BY <1>4, BufferHas, Zenon
    <2> QED
      BY <1>3, <2>1
  <1>7. Answered
    BY <1>1 DEF Answered, ToSet
  <1>8. ParsedAsFarAsPossible
    <2>1. readable < kHeaderSize
      BY <1>6, LimitsAre
    <2> QED
      BY <2>1, Zenon DEF ParsedAsFarAsPossible, ParseResult
  <1>9. InputBounded
    BY <1>2, <1>6, LimitsAre DEF InputBounded
  <1> QED
    BY <1>4, <1>5, <1>7, <1>8, <1>9 DEF IInv

\* A connection in the middle of onMessage(), or no longer up, promises nothing of its buffer.
LEMMA Vacuous ==
    ASSUME pc' # "poll" \/ state_' # "kConnected"
    PROVE  ParsedAsFarAsPossible' /\ InputBounded'
  BY Zenon DEF ParsedAsFarAsPossible, InputBounded

\* Nothing but the flags of the connection and the thread changes.
LEMMA TurnsStay ==
    ASSUME Turns, frames' = frames, unread' = unread, inputBuffer_' = inputBuffer_,
           handled' = handled, dispatched' = dispatched, Len(responses') <= Len(frames)
    PROVE  Turns'
  BY Zenon DEF Turns

\* handleRead(): the bytes read go from the network to the buffer and stay in order.
LEMMA HandleReadStep ==
    ASSUME IInv, HandleRead
    PROVE  IInv'
  <1>1. Types /\ Turns /\ Answered
    BY Zenon DEF IInv
  <1>2. /\ pc' = "parse" /\ frames' = frames /\ maxInputBufferSize_' = maxInputBufferSize_
        /\ state_' = state_ /\ closePosted' = closePosted /\ responses' = responses
        /\ handled' = handled /\ dispatched' = dispatched /\ halfClosed' = halfClosed
    BY Zenon DEF HandleRead
  <1>3. PICK n \in 1..Min({Len(unread), ReadCapacity(inputBuffer_)}) :
           /\ inputBuffer_' = readCore(inputBuffer_, SubSeq(unread, 1, n))
           /\ unread' = SubSeq(unread, n + 1, Len(unread))
    BY Zenon DEF HandleRead
  <1>4. IsBuffer(inputBuffer_, Bytes) /\ unread \in Seq(Bytes) /\ Zero \in Bytes
    BY <1>1 DEF Types, Bytes
  <1>5. n \in Nat /\ n <= Len(unread)
    <2>1. PICK l, c : l = Len(unread) /\ c = ReadCapacity(inputBuffer_)
      OBVIOUS
    <2>2. l \in Nat
      BY <1>4, <2>1
    <2>3. writableBytes(inputBuffer_) \in Nat
      BY <1>4, BufferParts, Zenon DEF Lengths
    <2>4. c \in Nat
      BY <2>1, <2>3, BufferAssumption DEF ReadCapacity
    <2>5. Min({l, c}) \in {l, c} /\ Min({l, c}) <= l
      BY <2>2, <2>4, OfTwo
    <2>6. n \in 1..Min({l, c})
      BY <1>3, <2>1, Zenon
    <2> QED
      BY <2>1, <2>2, <2>4, <2>5, <2>6
  <1>6. PICK q, t : q = SubSeq(unread, 1, n) /\ t = SubSeq(unread, n + 1, Len(unread))
    OBVIOUS
  <1>7. q \in Seq(Bytes) /\ t \in Seq(Bytes) /\ q \o t = unread
    BY <1>4, <1>5, <1>6, CutIs
  <1>8. inputBuffer_' = readCore(inputBuffer_, q) /\ unread' = t
    BY <1>3, <1>6, Zenon
  <1>9. Holds(inputBuffer_', inputBuffer_, q, Bytes)
    BY <1>4, <1>7, <1>8, ReadCoreIs, Zenon
  <1>10. PICK r : r = Readable(inputBuffer_)
    OBVIOUS
  <1>11. r \in Seq(Bytes)
    BY <1>1, <1>10, BufferHas, Zenon
  <1>12. IsBuffer(inputBuffer_', Bytes) /\ Readable(inputBuffer_') = r \o q
    BY <1>9, <1>10, Zenon DEF Holds
  <1>13. Same((r \o q) \o t, r \o (q \o t))
    BY <1>7, <1>11, Assoc, Zenon
  <1>14. Readable(inputBuffer_') \o unread' = Readable(inputBuffer_) \o unread
    BY <1>7, <1>8, <1>10, <1>12, <1>13, Zenon DEF Same
  <1>15. Types'
    <2>1. unread' \in Seq(Bytes)
      BY <1>7, <1>8, Zenon
    <2>2. pc' \in {"poll", "parse"}
      BY <1>2
    <2> QED
      BY <1>1, <1>2, <1>12, <2>1, <2>2, Zenon DEF Types
  <1>16. Turns'
    <2>1. Stream(Readable(inputBuffer_') \o unread', Len(handled'), frames')
      BY <1>1, <1>2, <1>14, Zenon DEF Turns
    <2> QED
      BY <1>1, <1>2, <2>1, Zenon DEF Turns
  <1>17. Answered'
    BY <1>1, <1>2, AnsweredStays, Zenon
  <1>18. ParsedAsFarAsPossible' /\ InputBounded'
    BY <1>2, Vacuous
  <1> QED
    BY <1>15, <1>16, <1>17, <1>18, Zenon DEF IInv

\* kNeedMore.
LEMMA NeedMoreStep ==
    ASSUME IInv, NeedMore
    PROVE  IInv'
  <1>1. Types /\ Turns /\ Answered
    BY Zenon DEF IInv
  <1>2. /\ pc' = "poll" /\ ParseResult = "kNeedMore"
        /\ frames' = frames /\ unread' = unread /\ inputBuffer_' = inputBuffer_
        /\ maxInputBufferSize_' = maxInputBufferSize_ /\ responses' = responses
        /\ handled' = handled /\ dispatched' = dispatched /\ halfClosed' = halfClosed
    BY Zenon DEF NeedMore
  <1>3. \/ readable > InputLimit(maxInputBufferSize_) /\ forceClose
        \/ ~(readable > InputLimit(maxInputBufferSize_)) /\ state_' = state_ /\ closePosted' = closePosted
    BY Zenon DEF NeedMore
  <1>4. Types'
    <2>1. /\ state_' \in {"kConnected", "kDisconnecting", "kDisconnected"}
          /\ closePosted' \in BOOLEAN /\ pc' \in {"poll", "parse"}
      BY <1>1, <1>2, <1>3 DEF Types, forceClose
    <2> QED
      BY <1>1, <1>2, <2>1, Zenon DEF Types
  <1>5. Turns'
    <2>1. Len(responses') <= Len(frames)
      BY <1>1, <1>2, Zenon DEF Turns
    <2> QED
      BY <1>1, <1>2, <2>1, TurnsStay, Zenon
  <1>6. CASE forceClose
    <2>1. state_' = "kDisconnecting" /\ closePosted' = TRUE
      BY <1>6, Zenon DEF forceClose
    <2>2. state_' # "kConnected"
      BY <2>1
    <2>3. Answered'
      BY <1>1, <1>2, <2>1, AnsweredClosing, Zenon
    <2>4. ParsedAsFarAsPossible' /\ InputBounded'
      BY <2>2, Vacuous, Zenon
    <2> QED
      BY <1>4, <1>5, <2>3, <2>4, Zenon DEF IInv
  <1>7. CASE ~(readable > InputLimit(maxInputBufferSize_)) /\ state_' = state_ /\ closePosted' = closePosted
    <2>1. Answered'
      BY <1>1, <1>2, <1>7, AnsweredStays, Zenon
    <2>2. ParseResult' = ParseResult /\ readable' = readable
      BY <1>2, Zenon DEF ParseResult, readable, decodeHeader, bodyLen, peek
    <2>3. ParsedAsFarAsPossible'
      BY <1>2, <2>2, Zenon DEF ParsedAsFarAsPossible
    <2>4. readable \in Nat /\ maxInputBufferSize_ \in Nat /\ maxFrameSize_ \in Nat
      BY <1>1, BufferHas, LimitsAre, Zenon DEF Types
    <2>5. readable <= (IF maxInputBufferSize_ = 0 THEN maxFrameSize_ ELSE maxInputBufferSize_)
      BY <1>7, <2>4 DEF InputLimit
    <2>6. InputBounded'
      BY <1>2, <2>2, <2>5, Zenon DEF InputBounded
    <2> QED
      BY <1>4, <1>5, <2>1, <2>3, <2>6, Zenon DEF IInv
  <1> QED
    BY <1>3, <1>6, <1>7, Zenon

\* kProtocolError.
LEMMA ProtocolErrorStep ==
    ASSUME IInv, Ends, ProtocolError
    PROVE  IInv'
  <1>1. Types /\ Turns /\ Answered
    BY Zenon DEF IInv
  <1>2. /\ pc = "parse" /\ pc' = "poll" /\ ParseResult = "kProtocolError"
        /\ frames' = frames /\ unread' = unread /\ inputBuffer_' = inputBuffer_
        /\ maxInputBufferSize_' = maxInputBufferSize_
        /\ handled' = handled /\ dispatched' = dispatched
    BY Zenon DEF ProtocolError
  <1>3. \/ decodeHeader /\ rejectAndClose(peek[1]) /\ closePosted' = closePosted
        \/ forceClose /\ responses' = responses
    BY Zenon DEF ProtocolError
  <1>4. /\ Answered' /\ state_' # "kConnected" /\ closePosted' \in BOOLEAN
        /\ responses' \in Seq(Nat \X Statuses) /\ Len(responses') <= Len(frames)
        /\ state_' \in {"kConnected", "kDisconnecting", "kDisconnected"}
    <2>1. CASE decodeHeader /\ rejectAndClose(peek[1]) /\ closePosted' = closePosted
      <3>1. peek = <<Turn, 1>> /\ Turn \in 1..Len(frames) /\ frames[Turn].kind = "huge"
        BY <1>1, <1>2, <2>1, ParseIs, Zenon
      <3>2. peek[1] = Turn /\ frames[Turn].kind \in PolicyKinds \cup {"envelope", "huge"}
        BY <3>1
      <3>3. rejectAndClose(Turn)
        BY <2>1, <3>2, Zenon
      <3>4. closePosted' \in BOOLEAN
        BY <1>1, <2>1, Zenon DEF Types
      <3> QED
        BY <1>1, <1>2, <2>1, <3>1, <3>2, <3>3, <3>4, NotEnded, AnsweredRejecting, Zenon
    <2>2. CASE forceClose /\ responses' = responses
      <3>1. state_' = "kDisconnecting" /\ closePosted' = TRUE
        BY <2>2, Zenon DEF forceClose
      <3>2. /\ state_' # "kConnected" /\ closePosted' \in BOOLEAN
            /\ state_' \in {"kConnected", "kDisconnecting", "kDisconnected"}
        BY <3>1
      <3>3. Answered'
        BY <1>1, <1>2, <2>2, <3>1, AnsweredClosing, Zenon
      <3> QED
        BY <1>1, <2>2, <3>2, <3>3, Zenon DEF Types, Turns
    <2> QED
      BY <1>3, <2>1, <2>2, Zenon
  <1>5. Types'
    <2>1. pc' \in {"poll", "parse"}
      BY <1>2
    <2> QED
      BY <1>1, <1>2, <1>4, <2>1, Zenon DEF Types
  <1>6. Turns'
    BY <1>1, <1>2, <1>4, TurnsStay, Zenon
  <1>7. ParsedAsFarAsPossible' /\ InputBounded'
    BY <1>4, Vacuous, Zenon
  <1> QED
    BY <1>4, <1>5, <1>6, <1>7, Zenon DEF IInv

\* What an appended element leaves of a sequence whose elements satisfy a bound or count up.
LEMMA TurnTaken ==
    ASSUME NEW h \in Seq(Nat), \A i \in 1..Len(h) : h[i] = i, NEW k \in Nat, k = Len(h) + 1
    PROVE  /\ Append(h, k) \in Seq(Nat) /\ Len(Append(h, k)) = k
           /\ \A i \in 1..Len(Append(h, k)) : Append(h, k)[i] = i
  <1>1. PICK g : g = Append(h, k)
    OBVIOUS
  <1>2. /\ g \in Seq(Nat) /\ Len(g) = Len(h) + 1 /\ Len(h) \in Nat
        /\ \A i \in 1..Len(h) : g[i] = h[i]
        /\ g[Len(h) + 1] = k
    BY <1>1, AppendProperties
  <1>3. \A i \in 1..Len(h) + 1 : i \in 1..Len(h) \/ i = Len(h) + 1
    BY <1>2
  <1>4. \A i \in 1..Len(g) : g[i] = i
    BY <1>2, <1>3, Zenon
  <1> QED
    BY <1>1, <1>2, <1>4, Zenon

\* What is dispatched has been sent.
LEMMA DispatchedIs ==
    ASSUME NEW d \in Seq(Nat), NEW l \in Nat, \A i \in 1..Len(d) : d[i] \in 1..l,
           NEW k \in Nat, k \in 1..l
    PROVE  /\ Append(d, k) \in Seq(Nat)
           /\ \A i \in 1..Len(Append(d, k)) : Append(d, k)[i] \in 1..l
  <1>1. PICK g : g = Append(d, k)
    OBVIOUS
  <1>2. /\ g \in Seq(Nat) /\ Len(g) = Len(d) + 1 /\ Len(d) \in Nat
        /\ \A i \in 1..Len(d) : g[i] = d[i]
        /\ g[Len(d) + 1] = k
    BY <1>1, AppendProperties
  <1>3. \A i \in 1..Len(d) + 1 : i \in 1..Len(d) \/ i = Len(d) + 1
    BY <1>2
  <1>4. \A i \in 1..Len(g) : g[i] \in 1..l
    BY <1>2, <1>3, Zenon
  <1> QED
    BY <1>1, <1>2, <1>4, Zenon

\* A frame is taken, and what comes of it is a response or none.
LEMMA TakesStep ==
    ASSUME IInv, NEW k, Takes(k), Answered',
           dispatched' = dispatched \/ dispatched' = Append(dispatched, k),
           responses' \in Seq(Nat \X Statuses), Len(responses') <= Len(frames),
           state_' \in {"kConnected", "kDisconnecting", "kDisconnected"},
           closePosted' \in BOOLEAN, pc' \in {"poll", "parse"},
           pc' # "poll" \/ state_' # "kConnected"
    PROVE  IInv'
  <1>1. Types /\ Turns
    BY Zenon DEF IInv
  <1>2. /\ k = Turn /\ k \in 1..Len(frames) /\ frames[k] \in Frame
        /\ frames' = frames /\ unread' = unread /\ maxInputBufferSize_' = maxInputBufferSize_
        /\ handled' = Append(handled, k)
        /\ IsBuffer(inputBuffer_', Bytes)
        /\ Stream(Readable(inputBuffer_') \o unread, Turn, frames)
    BY <1>1, TakesIs, Zenon
  <1>3. frames \in Seq(Frame) /\ handled \in Seq(Nat) /\ dispatched \in Seq(Nat) /\ Len(frames) \in Nat
    <2>1. frames \in Seq(Frame) /\ handled \in Seq(Nat) /\ dispatched \in Seq(Nat)
      BY <1>1, Zenon DEF Types
    <2> QED
      BY <2>1, LenProperties, Zenon
  <1>4. k \in Nat /\ k = Len(handled) + 1
    BY <1>2, <1>3 DEF Turn
  <1>5. /\ handled' \in Seq(Nat) /\ Len(handled') = Turn
        /\ \A i \in 1..Len(handled') : handled'[i] = i
    <2>1. \A i \in 1..Len(handled) : handled[i] = i
      BY <1>1, Zenon DEF Turns
    <2>2. PICK h : h = handled
      OBVIOUS
    <2>3. /\ Append(h, k) \in Seq(Nat) /\ Len(Append(h, k)) = k
          /\ \A i \in 1..Len(Append(h, k)) : Append(h, k)[i] = i
      BY <1>3, <1>4, <2>1, <2>2, TurnTaken
    <2> QED
      BY <1>2, <2>2, <2>3, Zenon
  <1>6. dispatched' \in Seq(Nat) /\ \A i \in 1..Len(dispatched') : dispatched'[i] \in 1..Len(frames')
    <2>1. \A i \in 1..Len(dispatched) : dispatched[i] \in 1..Len(frames)
      BY <1>1, Zenon DEF Turns
    <2>2. CASE dispatched' = dispatched
      BY <1>2, <1>3, <2>1, <2>2, Zenon
    <2>3. CASE dispatched' = Append(dispatched, k)
      <3>1. PICK d, l : d = dispatched /\ l = Len(frames)
        OBVIOUS
      <3>2. /\ Append(d, k) \in Seq(Nat)
            /\ \A i \in 1..Len(Append(d, k)) : Append(d, k)[i] \in 1..l
        BY <1>2, <1>3, <1>4, <2>1, <3>1, DispatchedIs
      <3> QED
        BY <1>2, <2>3, <3>1, <3>2, Zenon
    <2> QED
      BY <2>2, <2>3
  <1>7. Types'
    BY <1>1, <1>2, <1>5, <1>6, Zenon DEF Types
  <1>8. Turns'
    <2>1. Stream(Readable(inputBuffer_') \o unread', Len(handled'), frames')
      BY <1>2, <1>5, Zenon
    <2>2. Len(responses') <= Len(frames')
      BY <1>2, Zenon
    <2> QED
      BY <1>5, <1>6, <2>1, <2>2, Zenon DEF Turns
  <1>9. ParsedAsFarAsPossible' /\ InputBounded'
    BY Vacuous, Zenon
  <1> QED
    BY <1>7, <1>8, <1>9, Zenon DEF IInv

\* The frames that are rejected with a close.
LEMMA RejectsStep ==
    ASSUME IInv, Ends, NEW k, RejectsHeader(k) \/ RejectsEnvelope(k)
    PROVE  IInv'
  <1>1. Types /\ Turns /\ Answered
    BY Zenon DEF IInv
  <1>2. /\ Takes(k) /\ rejectAndClose(k) /\ closePosted' = closePosted /\ dispatched' = dispatched
        /\ pc' \in {"poll", "parse"}
        /\ frames[k].kind \in PolicyKinds \cup {"envelope", "huge"}
    <2>1. CASE RejectsHeader(k)
      BY <2>1, Zenon DEF RejectsHeader
    <2>2. CASE RejectsEnvelope(k)
      BY <2>2, Zenon DEF RejectsEnvelope, NextFrame
    <2> QED
      BY <2>1, <2>2
  <1>3. k = Turn /\ k \in 1..Len(frames) /\ frames' = frames
    BY <1>1, <1>2, TakesIs, Zenon
  <1>4. /\ rejectAndClose(Turn) /\ Turn \in 1..Len(frames)
        /\ frames[Turn].kind \in PolicyKinds \cup {"envelope", "huge"}
    BY <1>2, <1>3, Zenon
  <1>5. /\ Answered' /\ state_' # "kConnected"
        /\ responses' \in Seq(Nat \X Statuses) /\ Len(responses') <= Len(frames)
        /\ state_' \in {"kConnected", "kDisconnecting", "kDisconnected"}
    <2>1. ~halfClosed
      BY <1>2, NotEnded, Zenon DEF Takes
    <2> QED
      BY <1>1, <1>2, <1>3, <1>4, <2>1, AnsweredRejecting, Zenon
  <1>6. closePosted' \in BOOLEAN
    BY <1>1, <1>2, Zenon DEF Types
  <1> QED
    BY <1>2, <1>5, <1>6, TakesStep, Zenon

\* The frames that are answered while the loop goes on.
LEMMA AnswersStep ==
    ASSUME IInv, Ends, NEW k, RejectsSerializer(k) \/ HandleRequest(k)
    PROVE  IInv'
  <1>1. Types /\ Turns /\ Answered
    BY Zenon DEF IInv
  <1>2. /\ Takes(k) /\ sendResponse(k) /\ closePosted' = closePosted /\ state_' = state_
        /\ dispatched' = dispatched \/ dispatched' = Append(dispatched, k)
        /\ pc' = "parse"
        /\ frames[k].kind \in DispatchKinds \cup {"serializer"}
    <2>1. CASE RejectsSerializer(k)
      BY <2>1, Zenon DEF RejectsSerializer, NextFrame
    <2>2. CASE HandleRequest(k)
      BY <2>2, Zenon DEF HandleRequest, NextFrame
    <2> QED
      BY <2>1, <2>2
  <1>3. k = Turn /\ k \in 1..Len(frames) /\ frames' = frames /\ handled' = Append(handled, k)
    BY <1>1, <1>2, TakesIs, Zenon
  <1>4. /\ sendResponse(Turn) /\ Turn \in 1..Len(frames) /\ handled' = Append(handled, Turn)
        /\ frames[Turn].kind \in DispatchKinds \cup {"serializer"}
    BY <1>2, <1>3, Zenon
  <1>5. Answered' /\ responses' \in Seq(Nat \X Statuses) /\ Len(responses') <= Len(frames)
    <2>1. ~halfClosed
      BY <1>2, NotEnded, Zenon DEF Takes
    <2> QED
      BY <1>1, <1>2, <1>3, <1>4, <2>1, AnsweredOn, Zenon
  <1>6. /\ closePosted' \in BOOLEAN
        /\ state_' \in {"kConnected", "kDisconnecting", "kDisconnected"}
    BY <1>1, <1>2, Zenon DEF Types
  <1>7. pc' \in {"poll", "parse"} /\ pc' # "poll"
    BY <1>2
  <1> QED
    BY <1>2, <1>5, <1>6, <1>7, TakesStep, Zenon

\* A reply that cannot be encoded.
LEMMA ReplyTooLargeStep ==
    ASSUME IInv, NEW k, ReplyTooLarge(k)
    PROVE  IInv'
  <1>1. Types /\ Turns /\ Answered
    BY Zenon DEF IInv
  <1>2. /\ Takes(k) /\ responses' = responses /\ forceClose
        /\ dispatched' = Append(dispatched, k) /\ pc' = "parse"
    BY Zenon DEF ReplyTooLarge, NextFrame
  <1>3. state_' = "kDisconnecting" /\ closePosted' = TRUE
    BY <1>2, Zenon DEF forceClose
  <1>4. frames' = frames
    BY <1>1, <1>2, TakesIs, Zenon
  <1>5. Answered'
    BY <1>1, <1>2, <1>3, <1>4, AnsweredClosing, Zenon
  <1>6. /\ pc' \in {"poll", "parse"} /\ pc' # "poll" /\ closePosted' \in BOOLEAN
        /\ state_' \in {"kConnected", "kDisconnecting", "kDisconnected"}
    BY <1>2, <1>3
  <1>7. responses' \in Seq(Nat \X Statuses) /\ Len(responses') <= Len(frames)
    BY <1>1, <1>2, Zenon DEF Types, Turns
  <1> QED
    BY <1>2, <1>5, <1>6, <1>7, TakesStep, Zenon

\* handleWrite(), which leaves all but the output buffer.
LEMMA HandleWriteStep ==
    ASSUME IInv, HandleWrite
    PROVE  IInv'
  <1>1. Types /\ Turns /\ Answered /\ ParsedAsFarAsPossible /\ InputBounded
    BY Zenon DEF IInv
  <1>2. /\ frames' = frames /\ unread' = unread /\ inputBuffer_' = inputBuffer_
        /\ maxInputBufferSize_' = maxInputBufferSize_ /\ state_' = state_
        /\ closePosted' = closePosted /\ pc' = pc /\ responses' = responses
        /\ handled' = handled /\ dispatched' = dispatched /\ halfClosed' = halfClosed
    BY Zenon DEF HandleWrite
  <1>3. Types'
    BY <1>1, <1>2, Zenon DEF Types
  <1>4. Turns'
    BY <1>1, <1>2, Zenon DEF Turns
  <1>5. Answered'
    BY <1>1, <1>2, AnsweredStays, Zenon
  <1>6. ParseResult' = ParseResult /\ readable' = readable
    BY <1>2, Zenon DEF ParseResult, readable, decodeHeader, bodyLen, peek
  <1>7. ParsedAsFarAsPossible' /\ InputBounded'
    BY <1>1, <1>2, <1>6, Zenon DEF ParsedAsFarAsPossible, InputBounded
  <1> QED
    BY <1>3, <1>4, <1>5, <1>7, Zenon DEF IInv

\* The end of the stream with output pending: what was taken while the connection was up has
\* been answered.
LEMMA HalfCloseStep ==
    ASSUME IInv, Ends, HalfClose
    PROVE  IInv'
  <1>1. Types /\ Turns /\ Answered
    BY Zenon DEF IInv
  <1>2. /\ state_' = "kDisconnecting" /\ halfClosed' = TRUE /\ state_ # "kDisconnected"
        /\ frames' = frames /\ unread' = unread /\ inputBuffer_' = inputBuffer_ /\ pc' = pc
        /\ maxInputBufferSize_' = maxInputBufferSize_ /\ responses' = responses
        /\ handled' = handled /\ dispatched' = dispatched /\ closePosted' = closePosted
    BY Zenon DEF HalfClose
  <1>3. /\ state_' # "kConnected"
        /\ state_' \in {"kConnected", "kDisconnecting", "kDisconnected"}
        /\ state_ = "kConnected" \/ state_ = "kDisconnecting"
    BY <1>1, <1>2 DEF Types
  <1>4. Types'
    BY <1>1, <1>2, <1>3, Zenon DEF Types
  <1>5. Turns'
    <2>1. Len(responses') <= Len(frames)
      BY <1>1, <1>2, Zenon DEF Turns
    <2> QED
      BY <1>1, <1>2, <2>1, TurnsStay, Zenon
  <1>6. Answered'
    <2>1. /\ \A i \in DOMAIN responses' : responses'[i] = <<i, Status[frames'[i].kind]>>
          /\ \A i \in DOMAIN responses' : responses'[i][2] \in Rejections => i = Len(responses')
      BY <1>1, <1>2, Zenon DEF Answered
    <2>2. \/ responses' # <<>> /\ Last(responses')[2] \in Rejections
          \/ closePosted'
          \/ halfClosed' /\ Len(responses') = Len(handled')
      BY <1>1, <1>2, <1>3, Zenon DEF Answered
    <2> QED
      BY <1>3, <2>1, <2>2, Zenon DEF Answered
  <1>7. ParsedAsFarAsPossible' /\ InputBounded'
    BY <1>3, Vacuous, Zenon
  <1> QED
    BY <1>4, <1>5, <1>6, <1>7, Zenon DEF IInv

\* handleClose().
LEMMA HandleCloseStep ==
    ASSUME IInv, HandleClose
    PROVE  IInv'
  <1>1. Types /\ Turns /\ Answered
    BY Zenon DEF IInv
  <1>2. /\ state_' = "kDisconnected" /\ closePosted' = FALSE
        /\ frames' = frames /\ unread' = unread /\ inputBuffer_' = inputBuffer_ /\ pc' = pc
        /\ maxInputBufferSize_' = maxInputBufferSize_ /\ responses' = responses
        /\ handled' = handled /\ dispatched' = dispatched
    BY Zenon DEF HandleClose
  <1>3. /\ state_' # "kConnected" /\ closePosted' \in BOOLEAN
        /\ state_' \in {"kConnected", "kDisconnecting", "kDisconnected"}
    BY <1>2
  <1>4. Types'
    BY <1>1, <1>2, <1>3, Zenon DEF Types
  <1>5. Turns'
    <2>1. Len(responses') <= Len(frames)
      BY <1>1, <1>2, Zenon DEF Turns
    <2> QED
      BY <1>1, <1>2, <2>1, TurnsStay, Zenon
  <1>6. Answered'
    BY <1>1, <1>2, AnsweredClosing, Zenon
  <1>7. ParsedAsFarAsPossible' /\ InputBounded'
    BY <1>3, Vacuous, Zenon
  <1> QED
    BY <1>4, <1>5, <1>6, <1>7, Zenon DEF IInv

\* The peer sends: what it sent before is not changed by it.
LEMMA PeerSendsStep ==
    ASSUME IInv, NEW f \in Frame, PeerSends(f)
    PROVE  IInv'
  <1>1. Types /\ Turns /\ Answered /\ ParsedAsFarAsPossible /\ InputBounded
    BY Zenon DEF IInv
  <1>2. /\ frames' = Append(frames, f) /\ unread' = unread \o FrameBytes(f, Len(frames) + 1)
        /\ inputBuffer_' = inputBuffer_ /\ maxInputBufferSize_' = maxInputBufferSize_
        /\ state_' = state_ /\ closePosted' = closePosted /\ pc' = pc /\ responses' = responses
        /\ handled' = handled /\ dispatched' = dispatched /\ halfClosed' = halfClosed
    BY Zenon DEF PeerSends
  <1>3. frames \in Seq(Frame) /\ unread \in Seq(Bytes) /\ responses \in Seq(Nat \X Statuses)
        /\ Readable(inputBuffer_) \in Seq(Bytes) /\ Len(responses) <= Len(frames)
    BY <1>1, BufferHas, Zenon DEF Types, Turns
  <1>4. /\ frames' \in Seq(Frame) /\ Len(frames) \in Nat /\ Len(frames') = Len(frames) + 1
        /\ \A i \in 1..Len(frames) : frames'[i] = frames[i] /\ i \in 1..Len(frames')
    <2>1. PICK fs, g : fs = frames /\ g = Append(fs, f)
      OBVIOUS
    <2>2. /\ g \in Seq(Frame) /\ Len(fs) \in Nat /\ Len(g) = Len(fs) + 1
          /\ \A i \in 1..Len(fs) : g[i] = fs[i]
      BY <1>3, <2>1, AppendProperties
    <2>3. \A i \in 1..Len(fs) : i \in 1..Len(g)
      BY <2>2
    <2> QED
      BY <1>2, <2>1, <2>2, <2>3, Zenon
  <1>5. PICK c : c = FrameBytes(f, Len(frames) + 1)
    OBVIOUS
  <1>6. c \in Seq(Bytes)
    <2>1. Len(frames) + 1 \in Nat
      BY <1>4
    <2> QED
      BY <1>5, <2>1, FrameBytesAre, Zenon
  <1>7. unread' \in Seq(Bytes)
    <2>1. unread \o c \in Seq(Bytes)
      BY <1>3, <1>6, ConcatProperties
    <2> QED
      BY <1>2, <1>5, <2>1, Zenon
  <1>8. Types'
    BY <1>1, <1>2, <1>4, <1>7, Zenon DEF Types
  <1>9. Turns'
    <2>1. PICK p, u : p = Readable(inputBuffer_) /\ u = unread
      OBVIOUS
    <2>2. Stream(p \o u, Len(handled), frames)
      BY <1>1, <2>1, Zenon DEF Turns
    <2>3. Stream((p \o u) \o c, Len(handled), Append(frames, f))
      BY <1>5, <2>2, StreamSent, Zenon
    <2>4. Same((p \o u) \o c, p \o (u \o c))
      BY <1>3, <1>6, <2>1, Assoc, Zenon
    <2>5. Stream(p \o (u \o c), Len(handled), Append(frames, f))
      BY <2>3, <2>4, Zenon DEF Same
    <2>6. Stream(Readable(inputBuffer_') \o unread', Len(handled'), frames')
      BY <1>2, <1>5, <2>1, <2>5, Zenon
    <2>7. \A i \in 1..Len(dispatched') : dispatched'[i] \in 1..Len(frames')
      BY <1>1, <1>2, <1>4, Zenon DEF Turns
    <2>8. Len(responses') <= Len(frames')
      <3>1. PICK l : l = Len(responses)
        OBVIOUS
      <3>2. l \in Nat /\ l <= Len(frames)
        BY <1>3, <3>1
      <3>3. l <= Len(frames')
        BY <1>4, <3>2
      <3> QED
        BY <1>2, <3>1, <3>3, Zenon
    <2> QED
      BY <1>1, <1>2, <2>6, <2>7, <2>8, Zenon DEF Turns
  <1>10. Answered'
    <2>1. \A i \in DOMAIN responses : i \in 1..Len(frames)
      BY <1>3, <1>4
    <2>2. \A i \in DOMAIN responses' : responses'[i] = <<i, Status[frames'[i].kind]>>
      <3>1. \A i \in DOMAIN responses : frames'[i] = frames[i] /\ responses[i] = <<i, Status[frames[i].kind]>>
        BY <1>1, <1>4, <2>1, Zenon DEF Answered
      <3>2. \A i \in DOMAIN responses : responses[i] = <<i, Status[frames'[i].kind]>>
        BY <3>1, Zenon
      <3> QED
        BY <1>2, <3>2, Zenon
    <2> QED
      BY <1>1, <1>2, <2>2, Zenon DEF Answered
  <1>11. readable' = readable
    BY <1>2, Zenon DEF readable
  <1>12. ParsedAsFarAsPossible'
    <2>1. CASE readable < kHeaderSize
      BY <1>2, <1>11, <2>1, Zenon DEF ParsedAsFarAsPossible, ParseResult
    <2>2. CASE ~(readable < kHeaderSize)
      <3>1. readable >= kHeaderSize
        <4>1. readable \in Nat /\ kHeaderSize \in Nat
          BY <1>1, BufferHas, LimitsAre, Zenon
        <4> QED
          BY <2>2, <4>1
      <3>2. peek = <<Turn, 1>> /\ Turn \in 1..Len(frames)
        BY <1>1, <3>1, FrontIs, Zenon
      <3>3. peek[1] = Turn /\ frames'[Turn] = frames[Turn]
        BY <1>4, <3>2
      <3>4. peek' = peek
        BY <1>2, Zenon DEF peek
      <3>5. frames'[peek'[1]] = frames[peek[1]]
        BY <3>3, <3>4, Zenon
      <3>6. bodyLen' = bodyLen /\ (decodeHeader' <=> decodeHeader)
        BY <1>11, <3>4, <3>5, Zenon DEF bodyLen, decodeHeader
      <3>7. ParseResult = "kNeedMore" => ParseResult' = "kNeedMore"
        BY <1>11, <3>6 DEF ParseResult
      <3> QED
        BY <1>1, <1>2, <3>7, Zenon DEF ParsedAsFarAsPossible
    <2> QED
      BY <2>1, <2>2
  <1>13. InputBounded'
    BY <1>1, <1>2, <1>11, Zenon DEF InputBounded
  <1> QED
    BY <1>8, <1>9, <1>10, <1>12, <1>13, Zenon DEF IInv

\* IInv is inductive.
LEMMA IInvStep ==
    ASSUME IInv, Ends, [Next]_vars
    PROVE  IInv'
  <1>1. CASE HandleRead
    BY <1>1, HandleReadStep
  <1>2. CASE OnMessage
    <2>1. CASE NeedMore
      BY <2>1, NeedMoreStep
    <2>2. CASE ProtocolError
      BY <2>2, ProtocolErrorStep
    <2>3. ASSUME NEW k, RejectsHeader(k) \/ RejectsEnvelope(k)
          PROVE  IInv'
      BY <2>3, RejectsStep, Zenon
    <2>4. ASSUME NEW k, RejectsSerializer(k) \/ HandleRequest(k)
          PROVE  IInv'
      BY <2>4, AnswersStep, Zenon
    <2>5. ASSUME NEW k, ReplyTooLarge(k)
          PROVE  IInv'
      BY <2>5, ReplyTooLargeStep, Zenon
    <2> QED
      BY <1>2, <2>1, <2>2, <2>3, <2>4, <2>5, Zenon DEF OnMessage
  <1>3. CASE HandleClose
    BY <1>3, HandleCloseStep
  <1>4. CASE HandleWrite
    BY <1>4, HandleWriteStep
  <1>5. CASE HalfClose
    BY <1>5, HalfCloseStep
  <1>6. ASSUME NEW f \in Frame, PeerSends(f)
        PROVE  IInv'
    BY <1>6, PeerSendsStep, Zenon
  <1>7. CASE UNCHANGED vars
    <2>1. /\ frames' = frames /\ unread' = unread /\ inputBuffer_' = inputBuffer_
          /\ maxInputBufferSize_' = maxInputBufferSize_ /\ state_' = state_
          /\ closePosted' = closePosted /\ pc' = pc /\ responses' = responses
          /\ handled' = handled /\ dispatched' = dispatched /\ halfClosed' = halfClosed
      BY <1>7 DEF vars
    <2>2. Types /\ Turns /\ Answered /\ ParsedAsFarAsPossible /\ InputBounded
      BY Zenon DEF IInv
    <2>3. Types'
      BY <2>1, <2>2, Zenon DEF Types
    <2>4. Turns'
      BY <2>1, <2>2, Zenon DEF Turns
    <2>5. Answered'
      BY <2>1, <2>2, AnsweredStays, Zenon
    <2>6. ParseResult' = ParseResult /\ readable' = readable
      BY <2>1, Zenon DEF ParseResult, readable, decodeHeader, bodyLen, peek
    <2>7. ParsedAsFarAsPossible' /\ InputBounded'
      BY <2>1, <2>2, <2>6, Zenon DEF ParsedAsFarAsPossible, InputBounded
    <2> QED
      BY <2>3, <2>4, <2>5, <2>7, Zenon DEF IInv
  <1> QED
    BY <1>1, <1>2, <1>3, <1>4, <1>5, <1>6, <1>7, Zenon DEF Next

\* Once the end of the stream has been read, no step reads or takes anything.
LEMMA EndsStep ==
    ASSUME IInv, Ends, [Next]_vars
    PROVE  Ends'
  <1>1. output \in BOOLEAN /\ halfClosed \in BOOLEAN
    BY DEF Ends
  <1>2. ASSUME NEW k, sendResponse(k)
        PROVE  output' \in BOOLEAN
    BY <1>1, <1>2, Zenon DEF sendResponse
  <1>3. ASSUME pc = "parse", halfClosed' = halfClosed, output' \in BOOLEAN
        PROVE  Ends'
    <2>1. halfClosed' = FALSE
      BY <1>1, <1>3, NotEnded, Zenon
    <2> QED
      BY <1>3, <2>1, Zenon DEF Ends
  <1>4. CASE HandleRead
    <2>1. unread # <<>>
      <3>1. PICK n \in 1..Min({Len(unread), ReadCapacity(inputBuffer_)}) : TRUE
        BY <1>4, Zenon DEF HandleRead
      <3>2. IsBuffer(inputBuffer_, Bytes) /\ unread \in Seq(Bytes)
        BY Zenon DEF IInv, Types
      <3>3. writableBytes(inputBuffer_) \in Nat
        BY <3>2, BufferParts, Zenon DEF Lengths
      <3>4. PICK l, c : l = Len(unread) /\ c = ReadCapacity(inputBuffer_)
        OBVIOUS
      <3>5. l \in Nat /\ c \in Nat
        BY <3>2, <3>3, <3>4, BufferAssumption DEF ReadCapacity
      <3>6. Min({l, c}) \in {l, c} /\ Min({l, c}) <= l
        BY <3>5, OfTwo
      <3>7. n \in 1..Min({l, c})
        BY <3>1, <3>4, Zenon
      <3>8. l # 0
        BY <3>5, <3>6, <3>7
      <3> QED
        BY <3>4, <3>8
    <2>2. halfClosed' = FALSE /\ output' = output
      BY <1>1, <1>4, <2>1, Zenon DEF HandleRead, Ends
    <2> QED
      BY <1>1, <2>2, Zenon DEF Ends
  <1>5. CASE OnMessage
    <2>1. pc = "parse" /\ halfClosed' = halfClosed
      BY <1>5, Zenon
         DEF OnMessage, NeedMore, ProtocolError, RejectsHeader, RejectsSerializer, RejectsEnvelope,
             HandleRequest, ReplyTooLarge, Takes
    <2>2. output' = output \/ \E k : sendResponse(k)
      BY <1>5, Zenon
         DEF OnMessage, NeedMore, ProtocolError, RejectsHeader, RejectsSerializer, RejectsEnvelope,
             HandleRequest, ReplyTooLarge, rejectAndClose
    <2> QED
      BY <1>1, <1>2, <1>3, <2>1, <2>2, Zenon
  <1>6. CASE HandleWrite
    <2>1. output' = FALSE /\ halfClosed' = halfClosed /\ unread' = unread /\ pc' = pc
      BY <1>6, Zenon DEF HandleWrite
    <2> QED
      BY <2>1, Zenon DEF Ends
  <1>7. CASE HalfClose
    <2>1. output' = output /\ halfClosed' = TRUE /\ unread' = <<>> /\ pc' = "poll"
      BY <1>7, Zenon DEF HalfClose
    <2> QED
      BY <1>1, <2>1, Zenon DEF Ends
  <1>8. CASE HandleClose
    <2>1. output' = output /\ halfClosed' = halfClosed /\ unread' = unread /\ pc' = pc
      BY <1>8, Zenon DEF HandleClose
    <2> QED
      BY <2>1, Zenon DEF Ends
  <1>9. ASSUME NEW f \in Frame, PeerSends(f)
        PROVE  Ends'
    <2>1. output' = output /\ halfClosed' = FALSE
      BY <1>1, <1>9, Zenon DEF PeerSends
    <2> QED
      BY <1>1, <2>1, Zenon DEF Ends
  <1>10. CASE UNCHANGED vars
    <2>1. output' = output /\ halfClosed' = halfClosed /\ unread' = unread /\ pc' = pc
      BY <1>10, Zenon DEF vars
    <2> QED
      BY <2>1, Zenon DEF Ends
  <1> QED
    BY <1>4, <1>5, <1>6, <1>7, <1>8, <1>9, <1>10, Zenon DEF Next

(***************************************************************************)
(* The results.                                                            *)
(***************************************************************************)

\* The types of the module, from the inductive invariant.
LEMMA TypesAre ==
    ASSUME IInv, Ends
    PROVE  TypeOK
  <1>1. Types /\ Turns /\ Answered
    BY Zenon DEF IInv
  <1>2. /\ frames \in Seq(Frame) /\ unread \in Seq(Bytes) /\ handled \in Seq(Nat)
        /\ dispatched \in Seq(Nat) /\ responses \in Seq(Nat \X Statuses)
        /\ Readable(inputBuffer_) \in Seq(Bytes)
    BY <1>1, BufferHas, Zenon DEF Types
  <1>3. DOMAIN frames = 1..Len(frames) /\ Len(frames) \in Nat
    BY <1>2
  <1>4. \A byte \in ToSet(unread) : byte[1] \in DOMAIN frames
    <2>1. PICK p, u, s : p = Readable(inputBuffer_) /\ u = unread /\ s = p \o u
      OBVIOUS
    <2>2. \A i \in 1..Len(s) : Inside(s[i], frames)
      BY <1>1, <2>1, Zenon DEF Turns, Stream
    <2>3. p \in Seq(Bytes) /\ u \in Seq(Bytes)
      BY <1>2, <2>1
    <2>4. /\ Len(s) = Len(p) + Len(u) /\ Len(p) \in Nat /\ Len(u) \in Nat
          /\ \A i \in 1..Len(u) : s[Len(p) + i] = u[i]
      BY <2>1, <2>3, ConcatIs
    <2>5. \A i \in 1..Len(u) : Len(p) + i \in 1..Len(s)
      BY <2>4
    <2>6. \A i \in 1..Len(u) : Inside(u[i], frames)
      BY <2>2, <2>4, <2>5, Zenon
    <2>7. \A i \in 1..Len(u) : u[i][1] \in DOMAIN frames
      BY <1>3, <2>6, Zenon DEF Inside
    <2>8. DOMAIN u = 1..Len(u)
      BY <2>3
    <2> QED
      BY <2>1, <2>7, <2>8, Zenon DEF ToSet
  <1>5. \A r \in ToSet(responses) : r[1] \in DOMAIN frames
    <2>1. \A i \in DOMAIN responses : i \in 1..Len(frames)
      <3>1. Len(responses) <= Len(frames)
        BY <1>1, Zenon DEF Turns
      <3> QED
        BY <1>2, <1>3, <3>1
    <2>2. \A i \in DOMAIN responses : responses[i][1] = i
      <3>1. ASSUME NEW i \in DOMAIN responses
            PROVE  responses[i][1] = i
        <4>1. responses[i] = <<i, Status[frames[i].kind]>>
          BY <1>1, Zenon DEF Answered
        <4> QED
          BY <4>1
      <3> QED
        BY <3>1
    <2> QED
      BY <1>3, <2>1, <2>2, Zenon DEF ToSet
  <1>6. handled \in Seq(DOMAIN frames)
    <2>1. \A i \in 1..Len(handled) : handled[i] \in 1..Len(frames)
      <3>1. Len(handled) <= Len(frames) /\ \A i \in 1..Len(handled) : handled[i] = i
        BY <1>1, Zenon DEF Turns, Stream
      <3> QED
        BY <1>2, <1>3, <3>1
    <2> QED
      BY <1>2, <1>3, <2>1, SeqIn, Zenon
  <1>7. dispatched \in Seq(DOMAIN frames)
    <2>1. \A i \in 1..Len(dispatched) : dispatched[i] \in 1..Len(frames)
      BY <1>1, Zenon DEF Turns
    <2> QED
      BY <1>2, <1>3, <2>1, SeqIn, Zenon
  <1> QED
    BY <1>1, <1>2, <1>4, <1>5, <1>6, <1>7, Zenon DEF TypeOK, Types, Ends, IsBuffer

\* The stream of the inductive invariant is that of FramesInOrder.
LEMMA InOrder ==
    ASSUME IInv, Ends
    PROVE  FramesInOrder
  <1>1. Types /\ Turns /\ TypeOK
    BY TypesAre, Zenon DEF IInv
  <1>2. PICK bytes, n : bytes = Readable(inputBuffer_) \o unread /\ n = Len(handled)
    OBVIOUS
  <1>3. Stream(bytes, n, frames)
    BY <1>1, <1>2, Zenon DEF Turns
  <1>4. /\ bytes \in Seq(Bytes) /\ n \in Nat /\ n <= Len(frames) /\ Len(frames) \in Nat
        /\ Len(bytes) \in Nat
    <2>1. bytes \in Seq(Bytes) /\ n \in Nat /\ n <= Len(frames) /\ frames \in Seq(Frame)
      BY <1>3, Zenon DEF Stream
    <2> QED
      BY <2>1, LenProperties, Zenon
  <1>5. bytes = <<>> <=> Len(bytes) = 0
    BY <1>4
  <1>6. bytes = <<>> <=> n + 1 > Len(frames)
    <2>1. Len(bytes) = 0 <=> n = Len(frames)
      BY <1>3, Zenon DEF Stream
    <2>2. n = Len(frames) <=> n + 1 > Len(frames)
      BY <1>4
    <2> QED
      BY <1>5, <2>1, <2>2, Zenon
  <1>7. \A byte : Following(byte) = After(byte, frames)
    BY Zenon DEF Following, After
  <1>8. bytes # <<>> => bytes[1] = <<n + 1, 1>> /\ Following(Last(bytes)) = <<Len(frames) + 1, 1>>
    <2>1. bytes # <<>> => Len(bytes) > 0
      BY <1>4, <1>5
    <2> QED
      BY <1>3, <1>7, <2>1, Zenon DEF Stream, Last
  <1>9. \A i \in 2..Len(bytes) : bytes[i] = Following(bytes[i - 1])
    BY <1>3, <1>7, Zenon DEF Stream
  <1>10. handled = [i \in 1..n |-> i]
    <2>1. handled \in Seq(Nat) /\ \A i \in 1..n : handled[i] = i
      BY <1>1, <1>2, Zenon DEF Types, Turns
    <2>2. handled = [i \in 1..n |-> handled[i]]
      BY <1>2, <2>1
    <2> QED
      BY <2>1, <2>2
  <1> QED
    BY <1>1, <1>2, <1>6, <1>8, <1>9, <1>10, Zenon DEF FramesInOrder

\* The inductive invariant of a connection of the server.
THEOREM IInvHolds == Spec => [](IInv /\ Ends)
  <1>1. Init => IInv /\ Ends
    <2>1. Init => Ends
      BY Zenon DEF Init, Ends
    <2> QED
      BY <2>1, Starts
  <1>2. IInv /\ Ends /\ [Next]_vars => IInv' /\ Ends'
    BY IInvStep, EndsStep
  <1> QED
    BY <1>1, <1>2, PTL DEF Spec

\* However a peer's stream is cut into reads, readCore(), retrieve() and parse() take its
\* frames in order and each once, and no byte is lost, repeated or moved: for every number
\* and length of frames, every size of the buffer and of the stack buffer.
THEOREM FramesStayInOrder == Spec => []FramesInOrder
  <1>1. IInv /\ Ends => FramesInOrder
    BY InOrder
  <1> QED
    BY <1>1, IInvHolds, PTL

\* onMessage() answers in order, every frame while the connection is up, and says why
\* before it closes; when it is the peer that closes its end with answers still in the
\* output buffer, nothing that was taken is left unanswered.
THEOREM AnswersAreInOrder == Spec => []Answered
  <1>1. IInv => Answered
    BY DEF IInv
  <1> QED
    BY <1>1, IInvHolds, PTL

\* onMessage() returns to the loop only when it needs more bytes.
THEOREM ParsesAsFarAsPossible == Spec => []ParsedAsFarAsPossible
  <1>1. IInv => ParsedAsFarAsPossible
    BY DEF IInv
  <1> QED
    BY <1>1, IInvHolds, PTL

\* setMaxInputBufferSize() bounds what a connection that is up holds unparsed.
THEOREM InputIsBounded == Spec => []InputBounded
  <1>1. IInv => InputBounded
    BY DEF IInv
  <1> QED
    BY <1>1, IInvHolds, PTL
==============================================================================
