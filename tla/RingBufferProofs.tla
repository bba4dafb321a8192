-------------------------- MODULE RingBufferProofs --------------------------
(***************************************************************************)
(* Theorems about RingBuffer, for every size of the storage, every payload *)
(* and every set of byte values.                                           *)
(*                                                                         *)
(* First come lemmas about the operators of DataBuffer: the arithmetic of  *)
(* its positions (Geometry...); then one pass of the copy loop is shown to *)
(* append a prefix of the data (PassAppends), two passes the whole of what *)
(* fits (LoopAppends), and a drain to remove a prefix (DrainRemoves).      *)
(* With them each action is restated on the bytes held (WriteStep,         *)
(* DrainStep, ResetStep); the invariants and the refinement of ByteQueue   *)
(* follow from these.  The type invariant is inductive as it stands.       *)
(***************************************************************************)
EXTENDS RingBuffer, SequenceTheorems, TLAPS

USE SizeAssumption
-----------------------------------------------------------------------------
(* Index arithmetic.                                                       *)

LEMMA GeometryHead ==
  ASSUME NEW r \in Rings
  PROVE  /\ GetHead(r).buffer = r.head
         /\ GetHead(r).maxSz \in 0 .. Size - r.head
         /\ GetHead(r).maxSz <= Capacity - Stored(r)
         /\ GetHead(r).maxSz = 0 <=> Stored(r) = Capacity
         /\ Stored(r) \in 0 .. Capacity
BY DEF Rings, Index, GetHead, Stored, Capacity

LEMMA GeometryTail ==
  ASSUME NEW r \in Rings
  PROVE  /\ GetTail(r).buffer = r.tail
         /\ GetTail(r).maxSz \in 0 .. Size - r.tail
         /\ GetTail(r).maxSz <= Stored(r)
         /\ GetTail(r).maxSz = 0 <=> Stored(r) = 0
BY DEF Rings, Index, GetTail, Stored

LEMMA SlotIsIndex ==
  ASSUME NEW r \in Rings, NEW i \in 1 .. Stored(r)
  PROVE  Slot(r, i) \in Index
BY DEF Rings, Index, Stored, Slot

\* Committing n bytes at the head: n more are stored, the tail stays, and the
\* slots committed are the ones after those that held the stored bytes.
LEMMA HeadCommit ==
  ASSUME NEW r \in Rings, NEW n \in 0 .. GetHead(r).maxSz
  PROVE  LET a == Commit(r, GetHead(r), n)
         IN  /\ a \in Rings
             /\ a.tail = r.tail
             /\ Stored(a) = Stored(r) + n
             /\ \A i \in 1 .. Stored(r) : /\ Slot(a, i) = Slot(r, i)
                                          /\ Slot(r, i) \notin r.head .. r.head + n - 1
             /\ \A i \in Stored(r) + 1 .. Stored(r) + n :
                  Slot(a, i) = r.head + (i - Stored(r)) - 1
BY DEF Rings, Index, GetHead, Commit, Advance, Stored, Slot

\* Committing n > 0 bytes at the tail: n fewer are stored and the rest moves up.
LEMMA TailCommit ==
  ASSUME NEW r \in Rings, NEW n \in 1 .. GetTail(r).maxSz
  PROVE  LET a == Commit(r, GetTail(r), n)
         IN  /\ a \in Rings
             /\ Stored(a) = Stored(r) - n
             /\ \A i \in 1 .. Stored(a) : Slot(a, i) = Slot(r, i + n)
             /\ \A i \in 1 .. n : Slot(r, i) = r.tail + i - 1
BY DEF Rings, Index, GetTail, Commit, Advance, Stored, Slot
-----------------------------------------------------------------------------
(* The copy loop and the drain, on the bytes held.                         *)

LEMMA HeldIsASeq ==
  ASSUME NEW r \in Rings, NEW s \in [Index -> Slots]
  PROVE  /\ Held(r, s) \in Seq(Slots)
         /\ Len(Held(r, s)) = Stored(r)
         /\ \A i \in 1 .. Stored(r) : Held(r, s)[i] = s[Slot(r, i)]
<1>1. Stored(r) \in Nat
  BY GeometryHead DEF Capacity
<1>2. \A i \in 1 .. Stored(r) : s[Slot(r, i)] \in Slots
  BY SlotIsIndex
<1>3. Held(r, s) \in [1 .. Stored(r) -> Slots]
  BY <1>2 DEF Held
<1> QED
  BY <1>1, <1>3 DEF Held

\* One pass appends as much of the data as the free run takes, and leaves the rest.
LEMMA PassAppends ==
  ASSUME NEW r \in Rings, NEW s \in [Index -> Slots], NEW data \in Seq(Byte)
  PROVE  LET a  == CopyPass([ring |-> r, storage |-> s, data |-> data])
             sz == PassSize(r, data)
         IN  /\ a.ring \in Rings
             /\ a.storage \in [Index -> Slots]
             /\ a.data = SubSeq(data, sz + 1, Len(data))
             /\ sz \in 0 .. Len(data)
             /\ Stored(a.ring) = Stored(r) + sz
             /\ Held(a.ring, a.storage) = Held(r, s) \o SubSeq(data, 1, sz)
<1> DEFINE sz == PassSize(r, data)
           h  == GetHead(r)
           ar == Commit(r, h, sz)
           as == Fill(s, h, data, sz)
<1>1. CopyPass([ring |-> r, storage |-> s, data |-> data])
        = [ring |-> ar, storage |-> as, data |-> SubSeq(data, sz + 1, Len(data))]
  BY DEF CopyPass
<1>2. Len(data) \in Nat /\ \A i \in 1 .. Len(data) : data[i] \in Byte
  BY ElementOfSeq, LenProperties
<1>3. sz \in 0 .. Len(data) /\ sz \in 0 .. h.maxSz
  BY <1>2, GeometryHead DEF PassSize, Rings, Index
<1>4. h.buffer = r.head /\ h.maxSz \in 0 .. Size - r.head
  BY GeometryHead
<1> HIDE DEF sz, h
<1>5. /\ ar \in Rings
      /\ Stored(ar) = Stored(r) + sz
      /\ \A i \in 1 .. Stored(r) : /\ Slot(ar, i) = Slot(r, i)
                                   /\ Slot(r, i) \notin r.head .. r.head + sz - 1
      /\ \A i \in Stored(r) + 1 .. Stored(r) + sz :
           Slot(ar, i) = r.head + (i - Stored(r)) - 1
  BY <1>3, HeadCommit DEF h
<1>6. as \in [Index -> Slots]
  <2>1. ASSUME NEW i \in Index, i \in h.buffer .. h.buffer + sz - 1
        PROVE  data[i - h.buffer + 1] \in Slots
    BY <1>2, <1>3, <1>4, <2>1 DEF Rings, Index, Slots
  <2> QED BY <2>1 DEF Fill
<1>7. /\ \A i \in 1 .. Stored(r) : as[Slot(ar, i)] = s[Slot(r, i)]
      /\ \A i \in Stored(r) + 1 .. Stored(r) + sz :
           as[Slot(ar, i)] = data[i - Stored(r)]
  <2>1. \A i \in 1 .. Stored(ar) : Slot(ar, i) \in Index
    BY <1>5, SlotIsIndex
  <2>2. Stored(r) \in Nat /\ sz \in Nat /\ r.head \in Int
    BY <1>3, GeometryHead DEF Capacity, Rings, Index
  <2>3. ASSUME NEW i \in 1 .. Stored(r)
        PROVE  as[Slot(ar, i)] = s[Slot(r, i)]
    <3>1. i \in 1 .. Stored(ar)
      BY <1>5, <2>2
    <3> QED BY <1>4, <1>5, <2>1, <3>1 DEF Fill
  <2>4. ASSUME NEW i \in Stored(r) + 1 .. Stored(r) + sz
        PROVE  as[Slot(ar, i)] = data[i - Stored(r)]
    <3>1. i \in 1 .. Stored(ar)
      BY <1>5, <2>2
    <3>2. Slot(ar, i) = r.head + (i - Stored(r)) - 1
      BY <1>5
    <3>3. Slot(ar, i) \in h.buffer .. h.buffer + sz - 1
      BY <1>4, <2>2, <3>2
    <3>4. Slot(ar, i) - h.buffer + 1 = i - Stored(r)
      BY <1>4, <2>2, <3>2
    <3> QED BY <2>1, <3>1, <3>3, <3>4 DEF Fill
  <2> QED BY <2>3, <2>4
<1>8. Held(ar, as) = Held(r, s) \o SubSeq(data, 1, sz)
  <2> DEFINE new == Held(ar, as)
             old == Held(r, s)
             pre == SubSeq(data, 1, sz)
             both == old \o pre
  <2>1. /\ new \in Seq(Slots) /\ Len(new) = Stored(r) + sz
        /\ \A i \in 1 .. Stored(r) + sz : new[i] = as[Slot(ar, i)]
    BY <1>5, <1>6, HeldIsASeq
  <2>2. /\ old \in Seq(Slots) /\ Len(old) = Stored(r)
        /\ \A i \in 1 .. Stored(r) : old[i] = s[Slot(r, i)]
    BY HeldIsASeq
  <2>3. /\ pre \in Seq(Slots) /\ Len(pre) = sz
        /\ \A i \in 1 .. sz : pre[i] = data[i]
    <3>1. \A i \in 1 .. sz : data[i] \in Slots
      BY <1>2, <1>3 DEF Slots
    <3> QED BY <1>3, <3>1, SubSeqProperties
  <2>4. Stored(r) \in Nat /\ sz \in Nat
    BY <1>3, GeometryHead DEF Capacity
  <2> HIDE DEF new, old, pre
  <2>5. /\ both \in Seq(Slots) /\ Len(both) = Stored(r) + sz
        /\ \A i \in 1 .. Stored(r) + sz : both[i] =
             IF i <= Stored(r) THEN old[i] ELSE pre[i - Stored(r)]
    <3>1. /\ both \in Seq(Slots) /\ Len(both) = Len(old) + Len(pre)
          /\ \A i \in 1 .. Len(old) + Len(pre) : both[i] =
               IF i <= Len(old) THEN old[i] ELSE pre[i - Len(old)]
      BY <2>2, <2>3, ConcatProperties DEF both
    <3> QED BY <2>2, <2>3, <3>1
  <2> HIDE DEF ar, as, both
  <2>6. ASSUME NEW i \in 1 .. Stored(r) + sz
        PROVE  new[i] = both[i]
    <3>1. CASE i <= Stored(r)
      <4>1. i \in 1 .. Stored(r)
        BY <2>4, <3>1
      <4>2. new[i] = s[Slot(r, i)]
        BY <1>7, <2>1, <4>1
      <4>3. both[i] = old[i]
        BY <2>5, <3>1
      <4> QED BY <2>2, <4>1, <4>2, <4>3
    <3>2. CASE ~ (i <= Stored(r))
      <4>1. i \in Stored(r) + 1 .. Stored(r) + sz /\ i - Stored(r) \in 1 .. sz
        BY <2>4, <3>2
      <4>2. new[i] = data[i - Stored(r)]
        BY <1>7, <2>1, <4>1
      <4>3. both[i] = pre[i - Stored(r)]
        BY <2>5, <3>2
      <4> QED BY <2>3, <4>1, <4>2, <4>3
    <3> QED BY <3>1, <3>2
  <2>7. new = both
    BY <2>1, <2>5, <2>6, SeqEqual
  <2> QED BY <2>7 DEF new, old, pre, both
<1> DEFINE a == CopyPass([ring |-> r, storage |-> s, data |-> data])
<1>9. a.ring = ar /\ a.storage = as /\ a.data = SubSeq(data, sz + 1, Len(data))
  BY <1>1 DEF h, sz
<1> HIDE DEF a, ar, as
<1>10. /\ a.ring \in Rings
       /\ a.storage \in [Index -> Slots]
       /\ a.data = SubSeq(data, sz + 1, Len(data))
       /\ sz \in 0 .. Len(data)
       /\ Stored(a.ring) = Stored(r) + sz
       /\ Held(a.ring, a.storage) = Held(r, s) \o SubSeq(data, 1, sz)
  BY <1>3, <1>5, <1>6, <1>8, <1>9
<1> QED
  BY <1>10 DEF a, sz

\* Two passes are enough: the first one ends at the end of the storage, or is
\* the last one.
LEMMA TwoPassesSuffice ==
  ASSUME NEW r \in Rings, NEW b \in Rings, NEW len \in Nat, NEW n1, NEW n2,
         n1 = IF len > GetHead(r).maxSz THEN GetHead(r).maxSz ELSE len,
         b.head = Advance(r.head, n1), b.tail = r.tail,
         n2 = IF len - n1 > GetHead(b).maxSz THEN GetHead(b).maxSz ELSE len - n1
  PROVE  n1 + n2 = IF len <= Capacity - Stored(r) THEN len ELSE Capacity - Stored(r)
<1>1. r.head \in 0 .. Size - 1 /\ r.tail \in 0 .. Size - 1
  BY DEF Rings, Index
<1>2. n1 \in 0 .. len /\ n1 <= GetHead(r).maxSz
  BY <1>1 DEF GetHead
<1>3. GetHead(r).maxSz = IF r.head < r.tail THEN r.tail - r.head - 1
                         ELSE Size - r.head - (IF r.tail > 0 THEN 0 ELSE 1)
  BY DEF GetHead
<1>4. GetHead(b).maxSz = IF b.head < r.tail THEN r.tail - b.head - 1
                         ELSE Size - b.head - (IF r.tail > 0 THEN 0 ELSE 1)
  BY DEF GetHead
<1>5. b.head = IF r.head + n1 >= Size THEN 0 ELSE r.head + n1
  BY DEF Advance
<1>6. Capacity - Stored(r) = IF r.head >= r.tail THEN Size - 1 - (r.head - r.tail)
                             ELSE Size - 1 - (Size - (r.tail - r.head))
  BY DEF Capacity, Stored
<1>7. CASE len <= GetHead(r).maxSz
  <2>1. n1 = len
    BY <1>1, <1>3, <1>7
  <2>2. GetHead(b).maxSz >= 0 /\ GetHead(b).maxSz \in Int
    BY <1>1, <1>3, <1>4, <1>5, <1>7, <2>1
  <2>3. n2 = 0
    BY <2>1, <2>2
  <2> QED BY <1>1, <1>3, <1>6, <1>7, <2>1, <2>3
<1>8. CASE ~ (len <= GetHead(r).maxSz)
  <2>1. n1 = GetHead(r).maxSz
    BY <1>1, <1>3, <1>8
  <2>2. CASE r.head < r.tail \/ r.tail = 0
    <3>1. GetHead(b).maxSz = 0 /\ n1 = Capacity - Stored(r)
      BY <1>1, <1>2, <1>3, <1>4, <1>5, <1>6, <2>1, <2>2
    <3>2. n2 = 0
      BY <1>2, <3>1
    <3> QED BY <1>1, <1>2, <1>3, <1>6, <1>8, <2>1, <3>1, <3>2
  <2>3. CASE ~ (r.head < r.tail \/ r.tail = 0)
    <3>1. n1 = Size - r.head /\ GetHead(b).maxSz = r.tail - 1
      BY <1>1, <1>3, <1>4, <1>5, <2>1, <2>3
    <3> QED BY <1>1, <1>2, <1>6, <2>3, <3>1
  <2> QED BY <2>2, <2>3
<1> QED
  BY <1>7, <1>8

LEMMA PrefixInTwoPieces ==
  ASSUME NEW S, NEW data \in Seq(S),
         NEW n1 \in 0 .. Len(data), NEW n2 \in 0 .. Len(data) - n1
  PROVE  SubSeq(data, 1, n1) \o SubSeq(SubSeq(data, n1 + 1, Len(data)), 1, n2)
           = SubSeq(data, 1, n1 + n2)
<1> DEFINE rest == SubSeq(data, n1 + 1, Len(data))
           u    == SubSeq(rest, 1, n2)
           v    == SubSeq(data, n1 + 1, n1 + n2)
<1>1. Len(data) \in Nat /\ \A i \in 1 .. Len(data) : data[i] \in S
  BY ElementOfSeq, LenProperties
<1>2. /\ rest \in Seq(S) /\ Len(rest) = Len(data) - n1
      /\ \A i \in 1 .. Len(data) - n1 : rest[i] = data[n1 + i]
  <2>1. \A i \in n1 + 1 .. Len(data) : data[i] \in S
    BY <1>1
  <2>2. /\ rest \in Seq(S)
        /\ Len(rest) = IF n1 + 1 <= Len(data) THEN Len(data) - (n1 + 1) + 1 ELSE 0
        /\ \A i \in 1 .. Len(data) - (n1 + 1) + 1 : rest[i] = data[n1 + 1 + i - 1]
    BY <1>1, <2>1, SubSeqProperties
  <2> HIDE DEF rest
  <2>3. Len(rest) = Len(data) - n1
    BY <1>1, <2>2
  <2>4. ASSUME NEW i \in 1 .. Len(data) - n1
        PROVE  rest[i] = data[n1 + i]
    <3>1. i \in 1 .. Len(data) - (n1 + 1) + 1 /\ n1 + 1 + i - 1 = n1 + i
      BY <1>1
    <3> QED BY <2>2, <3>1
  <2> QED BY <2>2, <2>3, <2>4
<1> HIDE DEF rest
<1>3. u \in Seq(S) /\ Len(u) = n2 /\ \A i \in 1 .. n2 : u[i] = data[n1 + i]
  <2>1. \A i \in 1 .. n2 : rest[i] \in S
    BY <1>1, <1>2, ElementOfSeq
  <2>2. u \in Seq(S) /\ Len(u) = n2 /\ \A i \in 1 .. n2 : u[i] = rest[i]
    BY <1>1, <2>1, SubSeqProperties
  <2> HIDE DEF u
  <2>3. ASSUME NEW i \in 1 .. n2
        PROVE  u[i] = data[n1 + i]
    <3>1. i \in 1 .. Len(data) - n1
      BY <1>1
    <3> QED BY <1>2, <2>2, <3>1
  <2> QED BY <2>2, <2>3
<1>4. v \in Seq(S) /\ Len(v) = n2 /\ \A i \in 1 .. n2 : v[i] = data[n1 + i]
  <2>1. \A i \in n1 + 1 .. n1 + n2 : data[i] \in S
    BY <1>1
  <2>2. /\ v \in Seq(S)
        /\ Len(v) = IF n1 + 1 <= n1 + n2 THEN n1 + n2 - (n1 + 1) + 1 ELSE 0
        /\ \A i \in 1 .. n1 + n2 - (n1 + 1) + 1 : v[i] = data[n1 + 1 + i - 1]
    BY <1>1, <2>1, SubSeqProperties
  <2> HIDE DEF v
  <2> QED BY <1>1, <2>2
<1>5. u = v
  <2> HIDE DEF u, v
  <2> QED BY <1>3, <1>4, SeqEqual
<1> QED
  BY <1>1, <1>5, ConcatAdjacentSubSeq DEF rest

\* The copy loop on its three inputs, and how much of the data it takes.
Looped(r, s, data) == CopyLoop([ring |-> r, storage |-> s, data |-> data])

Taken(r, data) ==
  IF Len(data) <= Capacity - Stored(r) THEN Len(data) ELSE Capacity - Stored(r)

\* The whole loop appends everything that fits.
LEMMA LoopAppends ==
  ASSUME NEW r \in Rings, NEW s \in [Index -> Slots], NEW data \in Seq(Byte)
  PROVE  /\ Looped(r, s, data).ring \in Rings
         /\ Looped(r, s, data).storage \in [Index -> Slots]
         /\ Held(Looped(r, s, data).ring, Looped(r, s, data).storage)
              = Held(r, s) \o SubSeq(data, 1, Taken(r, data))
<1> DEFINE b    == CopyPass([ring |-> r, storage |-> s, data |-> data])
           a    == CopyPass([ring |-> b.ring, storage |-> b.storage, data |-> b.data])
           n1   == PassSize(r, data)
           n2   == PassSize(b.ring, b.data)
           free == Capacity - Stored(r)
           sz   == IF Len(data) <= free THEN Len(data) ELSE free
<1>1. Looped(r, s, data) = a
  <2>1. b = [ring |-> b.ring, storage |-> b.storage, data |-> b.data]
    BY DEF CopyPass
  <2> QED BY <2>1 DEF Looped, CopyLoop
<1>2. Len(data) \in Nat /\ \A i \in 1 .. Len(data) : data[i] \in Byte
  BY ElementOfSeq, LenProperties
<1>3. /\ b.ring \in Rings
      /\ b.storage \in [Index -> Slots]
      /\ b.data = SubSeq(data, n1 + 1, Len(data))
      /\ n1 \in 0 .. Len(data)
      /\ Stored(b.ring) = Stored(r) + n1
      /\ Held(b.ring, b.storage) = Held(r, s) \o SubSeq(data, 1, n1)
  BY PassAppends
<1>4. /\ b.data \in Seq(Byte)
      /\ Len(b.data) = Len(data) - n1
  <2>1. \A i \in n1 + 1 .. Len(data) : data[i] \in Byte
    BY <1>2, <1>3
  <2> HIDE DEF n1, b
  <2> QED BY <1>2, <1>3, <2>1, SubSeqProperties
<1> HIDE DEF b
<1>5. /\ a.ring \in Rings
      /\ a.storage \in [Index -> Slots]
      /\ n2 \in 0 .. Len(b.data)
      /\ Stored(a.ring) = Stored(b.ring) + n2
      /\ Held(a.ring, a.storage) = Held(b.ring, b.storage) \o SubSeq(b.data, 1, n2)
  <2> DEFINE br == b.ring
             bs == b.storage
             bd == b.data
  <2>1. br \in Rings /\ bs \in [Index -> Slots] /\ bd \in Seq(Byte)
    BY <1>3, <1>4
  <2> DEFINE c  == CopyPass([ring |-> br, storage |-> bs, data |-> bd])
             m  == PassSize(br, bd)
  <2> HIDE DEF br, bs, bd
  <2>2. /\ c.ring \in Rings
        /\ c.storage \in [Index -> Slots]
        /\ m \in 0 .. Len(bd)
        /\ Stored(c.ring) = Stored(br) + m
        /\ Held(c.ring, c.storage) = Held(br, bs) \o SubSeq(bd, 1, m)
    BY <2>1, PassAppends
  <2> QED BY <2>2 DEF br, bs, bd
<1>6. n1 + n2 = sz
  <2>1. n1 = IF Len(data) > GetHead(r).maxSz THEN GetHead(r).maxSz ELSE Len(data)
    BY DEF PassSize
  <2>2. n2 = IF Len(b.data) > GetHead(b.ring).maxSz THEN GetHead(b.ring).maxSz ELSE Len(b.data)
    BY DEF PassSize
  <2>3. b.ring = Commit(r, GetHead(r), n1)
    BY DEF b, CopyPass
  <2>4. b.ring.head = Advance(r.head, n1) /\ b.ring.tail = r.tail
    <3>1. GetHead(r).buffer = r.head
      BY DEF GetHead
    <3>2. b.ring = [r EXCEPT !.head = Advance(@, n1)]
      BY <2>3, <3>1 DEF Commit
    <3> HIDE DEF n1
    <3> QED BY <3>2 DEF Rings
  <2> DEFINE br == b.ring
             len == Len(data)
  <2>5. br \in Rings /\ br.head = Advance(r.head, n1) /\ br.tail = r.tail /\ len \in Nat
    BY <1>2, <1>3, <2>4
  <2>6. n2 = IF len - n1 > GetHead(br).maxSz THEN GetHead(br).maxSz ELSE len - n1
    BY <1>4, <2>2
  <2>7. n1 = IF len > GetHead(r).maxSz THEN GetHead(r).maxSz ELSE len
    BY <2>1
  <2> HIDE DEF n1, n2, br, len
  <2>8. n1 + n2 = IF len <= Capacity - Stored(r) THEN len ELSE Capacity - Stored(r)
    BY <2>5, <2>6, <2>7, TwoPassesSuffice
  <2> QED BY <2>8 DEF len
<1> HIDE DEF a, n1, n2
<1>7. SubSeq(data, 1, n1) \o SubSeq(b.data, 1, n2) = SubSeq(data, 1, sz)
  <2> HIDE DEF sz
  <2>1. n1 \in 0 .. Len(data) /\ n2 \in 0 .. Len(data) - n1
    BY <1>3, <1>4, <1>5
  <2> QED BY <1>3, <1>6, <2>1, PrefixInTwoPieces
<1>8. Held(a.ring, a.storage) = Held(r, s) \o SubSeq(data, 1, sz)
  <2>1. Held(r, s) \in Seq(Slots)
    BY HeldIsASeq
  <2>2. SubSeq(data, 1, n1) \in Seq(Slots) /\ SubSeq(b.data, 1, n2) \in Seq(Slots)
    <3>1. \A i \in 1 .. n1 : data[i] \in Slots
      BY <1>2, <1>3 DEF Slots
    <3>2. SubSeq(data, 1, n1) \in Seq(Slots)
      BY <1>3, <3>1, SubSeqProperties
    <3> DEFINE bd == b.data
    <3>3. bd \in Seq(Byte) /\ n2 \in 0 .. Len(bd)
      BY <1>4, <1>5
    <3> HIDE DEF bd
    <3>4. \A i \in 1 .. n2 : bd[i] \in Slots
      <4>1. \A i \in 1 .. Len(bd) : bd[i] \in Byte
        BY <3>3, ElementOfSeq
      <4> QED BY <3>3, <4>1 DEF Slots
    <3>5. SubSeq(bd, 1, n2) \in Seq(Slots)
      BY <3>3, <3>4, SubSeqProperties
    <3> QED BY <3>2, <3>5 DEF bd
  <2> DEFINE u == SubSeq(data, 1, n1)
             v == SubSeq(b.data, 1, n2)
             w == SubSeq(data, 1, sz)
             old == Held(r, s)
  <2>3. Held(a.ring, a.storage) = (old \o u) \o v
    BY <1>3, <1>5
  <2>4. u \o v = w
    BY <1>7
  <2>5. old \in Seq(Slots) /\ u \in Seq(Slots) /\ v \in Seq(Slots)
    BY <2>1, <2>2
  <2> HIDE DEF u, v, w, old
  <2>6. (old \o u) \o v = old \o (u \o v)
    <3>1. \A x, y, z \in Seq(Slots) : (x \o y) \o z = x \o (y \o z)
      BY ConcatAssociative, SMTT(60)
    <3> QED BY <2>5, <3>1
  <2>7. Held(a.ring, a.storage) = old \o w
    BY <2>3, <2>4, <2>6
  <2> QED BY <2>7 DEF w, old
<1>9. Taken(r, data) = sz
  BY DEF Taken
<1> QED
  BY <1>1, <1>5, <1>8, <1>9 DEF a

\* The copy loop moves head only.
LEMMA LoopKeepsTail ==
  ASSUME NEW r \in Rings, NEW s \in [Index -> Slots], NEW data \in Seq(Byte)
  PROVE  Looped(r, s, data).ring.tail = r.tail
<1> DEFINE b == CopyPass([ring |-> r, storage |-> s, data |-> data])
<1>1. \A q \in Rings : \A n : Commit(q, GetHead(q), n).tail = q.tail
  BY DEF Commit, GetHead, Rings
<1>2. b.ring = Commit(r, GetHead(r), PassSize(r, data))
  BY DEF CopyPass
<1>3. b.ring \in Rings /\ b.ring.tail = r.tail
  BY <1>1, <1>2, PassAppends
<1>4. CopyPass(b).ring = Commit(b.ring, GetHead(b.ring), PassSize(b.ring, b.data))
  BY DEF CopyPass
<1> HIDE DEF b
<1>5. CopyPass(b).ring.tail = r.tail
  BY <1>1, <1>3, <1>4
<1> QED
  BY <1>5 DEF Looped, CopyLoop, b

\* A drain removes the oldest bytes, and they are what it hands out.
LEMMA DrainRemoves ==
  ASSUME NEW r \in Rings, NEW s \in [Index -> Slots],
         NEW n \in 1 .. GetTail(r).maxSz
  PROVE  /\ Commit(r, GetTail(r), n) \in Rings
         /\ n \in 1 .. Len(Held(r, s))
         /\ [i \in 1 .. n |-> s[GetTail(r).buffer + i - 1]] = SubSeq(Held(r, s), 1, n)
         /\ [i \in 1 .. n |-> s[GetTail(r).buffer + i - 1]] \in Seq(Slots)
         /\ Held(Commit(r, GetTail(r), n), s) = SubSeq(Held(r, s), n + 1, Len(Held(r, s)))
<1> DEFINE a    == Commit(r, GetTail(r), n)
           old  == Held(r, s)
           run  == [i \in 1 .. n |-> s[GetTail(r).buffer + i - 1]]
           pre  == SubSeq(old, 1, n)
           new  == Held(a, s)
           rest == SubSeq(old, n + 1, Len(old))
<1>1. /\ GetTail(r).buffer = r.tail
      /\ GetTail(r).maxSz <= Stored(r) /\ GetTail(r).maxSz \in Nat
      /\ Stored(r) \in Nat
  BY GeometryHead, GeometryTail DEF Capacity, Rings, Index
<1>2. n \in Nat /\ n <= Stored(r) /\ n >= 1
  BY <1>1
<1>3. /\ a \in Rings
      /\ Stored(a) = Stored(r) - n
      /\ \A i \in 1 .. Stored(a) : Slot(a, i) = Slot(r, i + n)
      /\ \A i \in 1 .. n : Slot(r, i) = r.tail + i - 1
  BY TailCommit
<1>4. /\ old \in Seq(Slots) /\ Len(old) = Stored(r)
      /\ \A i \in 1 .. Stored(r) : old[i] = s[Slot(r, i)] /\ old[i] \in Slots
  BY HeldIsASeq, SlotIsIndex
<1>5. /\ new \in Seq(Slots) /\ Len(new) = Stored(r) - n
      /\ \A i \in 1 .. Stored(r) - n : new[i] = s[Slot(a, i)]
  BY <1>3, HeldIsASeq
<1>6. \A i \in 1 .. n : run[i] = old[i] /\ run[i] \in Slots
  <2>1. ASSUME NEW i \in 1 .. n
        PROVE  run[i] = old[i] /\ run[i] \in Slots
    <3>1. i \in 1 .. Stored(r)
      BY <1>1, <1>2
    <3>2. run[i] = s[r.tail + i - 1]
      BY <1>1
    <3>3. r.tail + i - 1 = Slot(r, i)
      BY <1>3
    <3> QED BY <1>4, <3>1, <3>2, <3>3
  <2> QED BY <2>1
<1>7. run \in Seq(Slots) /\ Len(run) = n
  <2>1. run \in [1 .. n -> Slots]
    BY <1>6
  <2> QED BY <1>2, <2>1
<1> HIDE DEF a, old, run, new
<1>8. run = pre
  <2>1. pre \in Seq(Slots) /\ Len(pre) = n /\ \A i \in 1 .. n : pre[i] = old[i]
    <3>1. \A i \in 1 .. n : old[i] \in Slots
      BY <1>2, <1>4
    <3>2. /\ pre \in Seq(Slots) /\ Len(pre) = (IF 1 <= n THEN n - 1 + 1 ELSE 0)
          /\ \A i \in 1 .. n - 1 + 1 : pre[i] = old[1 + i - 1]
      BY <1>2, <3>1, SubSeqProperties
    <3> HIDE DEF pre
    <3>3. ASSUME NEW i \in 1 .. n
          PROVE  pre[i] = old[i]
      <4>1. i \in 1 .. n - 1 + 1 /\ 1 + i - 1 = i
        BY <1>2
      <4> QED BY <3>2, <4>1
    <3> QED BY <1>2, <3>2, <3>3
  <2> HIDE DEF pre
  <2> QED BY <1>6, <1>7, <2>1, SeqEqual
<1>9. new = rest
  <2>1. /\ rest \in Seq(Slots) /\ Len(rest) = Stored(r) - n
        /\ \A i \in 1 .. Stored(r) - n : rest[i] = old[i + n]
    <3>1. \A i \in n + 1 .. Len(old) : old[i] \in Slots
      BY <1>2, <1>4
    <3>2. /\ rest \in Seq(Slots)
          /\ Len(rest) = (IF n + 1 <= Len(old) THEN Len(old) - (n + 1) + 1 ELSE 0)
          /\ \A i \in 1 .. Len(old) - (n + 1) + 1 : rest[i] = old[n + 1 + i - 1]
      BY <1>1, <1>2, <1>4, <3>1, SubSeqProperties
    <3> HIDE DEF rest
    <3>3. ASSUME NEW i \in 1 .. Stored(r) - n
          PROVE  rest[i] = old[i + n]
      <4>1. i \in 1 .. Len(old) - (n + 1) + 1 /\ n + 1 + i - 1 = i + n
        BY <1>1, <1>2, <1>4
      <4> QED BY <3>2, <4>1
    <3>4. Len(rest) = Stored(r) - n
      BY <1>1, <1>2, <1>4, <3>2
    <3> QED BY <3>2, <3>3, <3>4
  <2> HIDE DEF rest
  <2>2. ASSUME NEW i \in 1 .. Stored(r) - n
        PROVE  new[i] = rest[i]
    <3>1. i \in 1 .. Stored(a) /\ i + n \in 1 .. Stored(r)
      BY <1>1, <1>2, <1>3 DEF a
    <3>2. new[i] = s[Slot(a, i)] /\ Slot(a, i) = Slot(r, i + n)
      BY <1>3, <1>5, <3>1 DEF a
    <3> QED BY <1>4, <2>1, <3>1, <3>2
  <2> QED BY <1>5, <2>1, <2>2, SeqEqual
<1> QED
  BY <1>2, <1>3, <1>4, <1>7, <1>8, <1>9 DEF a, old, run, new
-----------------------------------------------------------------------------
(* The steps of the specification.                                         *)

LEMMA PayloadIsASeq ==
  ASSUME NEW data \in Payload
  PROVE  data \in Seq(Byte)
BY PayloadAssumption DEF Payload

\* A write, seen on the bytes held.
LEMMA WriteStep ==
  ASSUME TypeOK, NEW data \in Payload, Write(data)
  PROVE  /\ TypeOK'
         /\ Contents' = Contents \o Queue!Fitting(data)
<1> DEFINE after == Copied(data)
           free  == Capacity - Stored(ring)
           sz    == IF Len(data) <= free THEN Len(data) ELSE free
<1>1. ring \in Rings /\ storage \in [Index -> Slots] /\ data \in Seq(Byte)
  BY PayloadIsASeq DEF TypeOK
<1>2. ring' = after.ring /\ storage' = after.storage /\ taken' = taken
  BY DEF Write
<1>3. /\ after.ring \in Rings
      /\ after.storage \in [Index -> Slots]
      /\ Held(after.ring, after.storage) = Held(ring, storage) \o SubSeq(data, 1, sz)
  BY <1>1, LoopAppends DEF Copied, Looped, Taken
<1> HIDE DEF after
<1>4. Len(Contents) = Stored(ring)
  BY <1>1, HeldIsASeq DEF Contents
<1>5. Queue!Fitting(data) = SubSeq(data, 1, sz)
  BY <1>4 DEF Queue!Fitting
<1>6. Contents' = Held(after.ring, after.storage)
  BY <1>2 DEF Contents
<1>7. TypeOK'
  BY <1>2, <1>3 DEF TypeOK
<1> QED
  BY <1>3, <1>5, <1>6, <1>7 DEF Contents

\* A drain, seen on the bytes held.
LEMMA DrainStep ==
  ASSUME TypeOK, NEW n \in 1 .. Size, Drain(n)
  PROVE  /\ TypeOK'
         /\ n \in 1 .. Len(Contents)
         /\ taken' = SubSeq(Contents, 1, n)
         /\ Contents' = SubSeq(Contents, n + 1, Len(Contents))
<1> DEFINE after == Commit(ring, GetTail(ring), n)
           run   == [i \in 1 .. n |-> storage[GetTail(ring).buffer + i - 1]]
<1>1. ring \in Rings /\ storage \in [Index -> Slots]
  BY DEF TypeOK
<1>2. n \in 1 .. GetTail(ring).maxSz /\ ring' = after /\ storage' = storage /\ taken' = run
  BY DEF Drain
<1>3. /\ after \in Rings
      /\ n \in 1 .. Len(Contents)
      /\ run = SubSeq(Contents, 1, n)
      /\ run \in Seq(Slots)
      /\ Held(after, storage) = SubSeq(Contents, n + 1, Len(Contents))
  BY <1>1, <1>2, DrainRemoves DEF Contents
<1> HIDE DEF after, run
<1>4. Contents' = Held(after, storage)
  BY <1>2 DEF Contents
<1>5. TypeOK'
  BY <1>1, <1>2, <1>3 DEF TypeOK
<1> QED
  BY <1>2, <1>3, <1>4, <1>5

LEMMA ResetStep ==
  ASSUME TypeOK, Reset
  PROVE  TypeOK' /\ Contents' = << >> /\ taken' = taken
<1>1. EmptyRing \in Rings /\ Stored(EmptyRing) = 0
  BY DEF EmptyRing, Rings, Index, Stored
<1>2. ring' = EmptyRing /\ storage' = storage /\ taken' = taken
  BY DEF Reset
<1>3. TypeOK'
  BY <1>1, <1>2 DEF TypeOK
<1>4. \A s : Held(EmptyRing, s) = << >>
  BY <1>1 DEF Held
<1>5. Contents' = Held(EmptyRing, storage')
  BY <1>2 DEF Contents
<1> QED
  BY <1>2, <1>3, <1>4, <1>5

LEMMA InitTypeOK == Init => TypeOK
BY DEF Init, TypeOK, EmptyRing, Rings, Index, Slots

LEMMA NextTypeOK == TypeOK /\ [Next]_vars => TypeOK'
<1> SUFFICES ASSUME TypeOK, [Next]_vars
             PROVE  TypeOK'
  OBVIOUS
<1>1. CASE \E data \in Payload : Write(data)
  BY <1>1, WriteStep
<1>2. CASE \E n \in 1 .. Size : Drain(n)
  BY <1>2, DrainStep
<1>3. CASE Reset
  BY <1>3, ResetStep
<1>4. CASE UNCHANGED vars
  BY <1>4 DEF vars, TypeOK
<1> QED
  BY <1>1, <1>2, <1>3, <1>4 DEF Next

\* Head and tail stay inside the storage, whatever is written, drained or reset.
THEOREM TypeCorrect == Spec => []TypeOK
BY InitTypeOK, NextTypeOK, PTL DEF Spec

\* Whatever is written before, a payload would be appended as far as it fits
\* (PortWorker.cpp:153-168, uartworker.cpp:23-36), for every payload and size.
THEOREM PayloadsAlwaysFit == Spec => []EveryPayloadFits
<1>1. TypeOK => EveryPayloadFits
  <2> SUFFICES ASSUME TypeOK, NEW data \in Payload
               PROVE  Held(Copied(data).ring, Copied(data).storage)
                        = Contents \o Queue!Fitting(data)
    BY DEF EveryPayloadFits
  <2> DEFINE after == Copied(data)
             free  == Capacity - Stored(ring)
             sz    == IF Len(data) <= free THEN Len(data) ELSE free
  <2>1. ring \in Rings /\ storage \in [Index -> Slots] /\ data \in Seq(Byte)
    BY PayloadIsASeq DEF TypeOK
  <2>2. Held(after.ring, after.storage) = Held(ring, storage) \o SubSeq(data, 1, sz)
    BY <2>1, LoopAppends DEF Copied, Looped, Taken
  <2> HIDE DEF after
  <2>3. Len(Contents) = Stored(ring)
    BY <2>1, HeldIsASeq DEF Contents
  <2>4. Queue!Fitting(data) = SubSeq(data, 1, sz)
    BY <2>3 DEF Queue!Fitting
  <2> QED BY <2>2, <2>4 DEF Contents, after
<1> QED
  BY <1>1, TypeCorrect, PTL

\* GetHead has no room exactly on a full buffer and GetTail no run exactly on
\* an empty one (DataBuffer.cpp:17-27), for every size of the storage.
THEOREM HandlesAreTruthful == Spec => []HandlesTellTheTruth
<1>1. TypeOK => HandlesTellTheTruth
  BY GeometryHead, GeometryTail DEF TypeOK, HandlesTellTheTruth
<1> QED
  BY <1>1, TypeCorrect, PTL

\* The half-full flag sent to the client is never late and at most one byte
\* early (DataBuffer.cpp:37-45), for every size of the storage.
THEOREM BackPressureIsSafe == Spec => []BackPressureIsNeverLate
<1>1. TypeOK => BackPressureIsNeverLate
  BY DEF TypeOK, BackPressureIsNeverLate, Rings, Index, Stored, UsedSize, IsHalfUsed
<1> QED
  BY <1>1, TypeCorrect, PTL

\* The ring buffer is a bounded first-in first-out queue that loses only what
\* does not fit: module RingBuffer implements module ByteQueue.
THEOREM RingBufferIsAQueue == Spec => IsAQueue
<1>1. Init => Queue!Init
  <2>1. Stored(EmptyRing) = 0
    BY DEF EmptyRing, Stored
  <2> QED BY <2>1 DEF Init, Queue!Init, Contents, Held
<1>2. TypeOK /\ [Next]_vars => [Queue!Next]_Queue!vars
  <2> SUFFICES ASSUME TypeOK, [Next]_vars
               PROVE  [Queue!Next]_Queue!vars
    OBVIOUS
  <2>1. ASSUME NEW data \in Payload, Write(data)
        PROVE  Queue!Next
    <3>1. Queue!Offer(data)
      BY <2>1, WriteStep DEF Queue!Offer, Write
    <3>2. data \in Queue!Payload
      BY DEF Payload, Queue!Payload
    <3> QED BY <3>1, <3>2 DEF Queue!Next
  <2>2. ASSUME NEW n \in 1 .. Size, Drain(n)
        PROVE  Queue!Next
    <3>1. Queue!Take(n) /\ n \in 1 .. Len(Contents)
      BY <2>2, DrainStep DEF Queue!Take
    <3> QED BY <3>1 DEF Queue!Next
  <2>3. CASE Reset
    BY <2>3, ResetStep DEF Queue!Next, Queue!Discard
  <2>4. CASE UNCHANGED vars
    BY <2>4 DEF vars, Queue!vars, Contents
  <2> QED
    BY <2>1, <2>2, <2>3, <2>4 DEF Next
<1> QED
  BY <1>1, <1>2, TypeCorrect, PTL DEF Spec, IsAQueue, Queue!Spec
=============================================================================
