-------------------------- MODULE PortWorkerProofs --------------------------
(***************************************************************************)
(* Theorems about PortWorker, for every size of the ring buffer, every     *)
(* payload and any number of local clients.                                *)
(*                                                                         *)
(* The type invariant holds whatever the options.  Without -rst the worker *)
(* may free what it read under an earlier hold of the lock: the argument   *)
(* is the invariant IInv, which says that the run it took is still the     *)
(* oldest data, and that write() saw the bytes that are still stored there *)
(* although the receiver has written since.  With -rst the theorems about  *)
(* the queue fail: TLC finds RunStaysPut violated then.                    *)
(***************************************************************************)
EXTENDS PortWorker, SequenceTheorems, TLAPS

USE SizeAssumption, PortWorkerAssumption
-----------------------------------------------------------------------------
(* The lemmas about DataBuffer, from RingBufferProofs: its ring, storage   *)
(* and constants are those of the worker, and none of these lemmas is      *)
(* about the run its last drain handed out.                                *)

Buffer == INSTANCE RingBufferProofs WITH taken <- written

LEMMA BufferIsTheSame ==
  /\ Buffer!Rings = Rings /\ Buffer!Index = Index /\ Buffer!Slots = Slots
  /\ \A r : Buffer!GetHead(r) = GetHead(r) /\ Buffer!GetTail(r) = GetTail(r)
  /\ \A r : Buffer!Stored(r) = Stored(r)
  /\ \A r, s : Buffer!Held(r, s) = Held(r, s)
  /\ \A r, h, n : Buffer!Commit(r, h, n) = Commit(r, h, n)
  /\ \A r, i : Buffer!Slot(r, i) = Slot(r, i)
  /\ Buffer!Capacity = Capacity
<1>1. Buffer!Rings = Rings /\ Buffer!Index = Index /\ Buffer!Slots = Slots
  BY ONLY TRUE DEF Buffer!Rings, Rings, Buffer!Index, Index, Buffer!Slots, Slots
<1>2. \A r : Buffer!GetHead(r) = GetHead(r) /\ Buffer!GetTail(r) = GetTail(r)
  BY ONLY TRUE DEF Buffer!GetHead, GetHead, Buffer!GetTail, GetTail
<1>3. \A r : Buffer!Stored(r) = Stored(r)
  BY ONLY TRUE DEF Buffer!Stored, Stored
<1>4. \A r, s : Buffer!Held(r, s) = Held(r, s)
  BY ONLY TRUE DEF Buffer!Held, Held, Buffer!Slot, Slot, Buffer!Stored, Stored
<1>5. \A r, h, n : Buffer!Commit(r, h, n) = Commit(r, h, n)
  BY ONLY TRUE DEF Buffer!Commit, Commit, Buffer!Advance, Advance
<1>6. \A r, i : Buffer!Slot(r, i) = Slot(r, i)
  BY ONLY TRUE DEF Buffer!Slot, Slot
<1>7. Buffer!Capacity = Capacity
  BY ONLY TRUE DEF Buffer!Capacity, Capacity
<1> QED BY ONLY <1>1, <1>2, <1>3, <1>4, <1>5, <1>6, <1>7

LEMMA GeometryHead ==
  ASSUME NEW r \in Rings
  PROVE  /\ GetHead(r).buffer = r.head
         /\ GetHead(r).maxSz \in 0 .. Size - r.head
         /\ GetHead(r).maxSz <= Capacity - Stored(r)
         /\ GetHead(r).maxSz = 0 <=> Stored(r) = Capacity
         /\ Stored(r) \in 0 .. Capacity
BY Buffer!GeometryHead, BufferIsTheSame

LEMMA GeometryTail ==
  ASSUME NEW r \in Rings
  PROVE  /\ GetTail(r).buffer = r.tail
         /\ GetTail(r).maxSz \in 0 .. Size - r.tail
         /\ GetTail(r).maxSz <= Stored(r)
         /\ GetTail(r).maxSz = 0 <=> Stored(r) = 0
BY Buffer!GeometryTail, BufferIsTheSame

LEMMA HeldIsASeq ==
  ASSUME NEW r \in Rings, NEW s \in [Index -> Slots]
  PROVE  /\ Held(r, s) \in Seq(Slots)
         /\ Len(Held(r, s)) = Stored(r)
         /\ \A i \in 1 .. Stored(r) : Held(r, s)[i] = s[Slot(r, i)]
BY Buffer!HeldIsASeq, BufferIsTheSame

\* The copy loop appends what fits and leaves the tail.
LEMMA LoopAppends ==
  ASSUME NEW r \in Rings, NEW s \in [Index -> Slots], NEW data \in Seq(Byte)
  PROVE  LET a    == CopyLoop([ring |-> r, storage |-> s, data |-> data])
             free == Capacity - Stored(r)
             sz   == IF Len(data) <= free THEN Len(data) ELSE free
         IN  /\ a.ring \in Rings
             /\ a.storage \in [Index -> Slots]
             /\ a.ring.tail = r.tail
             /\ Held(a.ring, a.storage) = Held(r, s) \o SubSeq(data, 1, sz)
<1>1. Buffer!Looped(r, s, data) = CopyLoop([ring |-> r, storage |-> s, data |-> data])
  <2>1. \A q : Buffer!GetHead(q) = GetHead(q)
    BY ONLY TRUE DEF Buffer!GetHead, GetHead
  <2>2. \A q, d : Buffer!PassSize(q, d) = PassSize(q, d)
    BY ONLY TRUE DEF Buffer!PassSize, PassSize, Buffer!GetHead, GetHead
  <2>3. \A u, h, d, n : Buffer!Fill(u, h, d, n) = Fill(u, h, d, n)
    BY ONLY TRUE DEF Buffer!Fill, Fill, Buffer!Index, Index
  <2>4. \A q, h, n : Buffer!Commit(q, h, n) = Commit(q, h, n)
    BY ONLY TRUE DEF Buffer!Commit, Commit, Buffer!Advance, Advance
  <2>5. \A b : Buffer!CopyPass(b) = CopyPass(b)
    BY ONLY <2>1, <2>2, <2>3, <2>4 DEF Buffer!CopyPass, CopyPass
  <2>6. QED BY ONLY <2>5 DEF Buffer!Looped, Buffer!CopyLoop, CopyLoop
<1>2. Buffer!Taken(r, data) = IF Len(data) <= Capacity - Stored(r) THEN Len(data)
                              ELSE Capacity - Stored(r)
  BY ONLY BufferIsTheSame DEF Buffer!Taken
<1>3. r \in Buffer!Rings /\ s \in [Buffer!Index -> Buffer!Slots]
  BY BufferIsTheSame
<1> DEFINE b == Buffer!Looped(r, s, data)
<1>4. /\ b.ring \in Buffer!Rings
      /\ b.storage \in [Buffer!Index -> Buffer!Slots]
      /\ Buffer!Held(b.ring, b.storage)
           = Buffer!Held(r, s) \o SubSeq(data, 1, Buffer!Taken(r, data))
  BY <1>3, Buffer!LoopAppends
<1>5. b.ring.tail = r.tail
  BY <1>3, Buffer!LoopKeepsTail
<1> HIDE DEF b
<1>6. /\ b.ring \in Rings /\ b.storage \in [Index -> Slots]
      /\ Held(b.ring, b.storage) = Held(r, s) \o SubSeq(data, 1, Buffer!Taken(r, data))
  BY <1>4, BufferIsTheSame
<1>7. CopyLoop([ring |-> r, storage |-> s, data |-> data]) = b
  BY <1>1 DEF b
<1> QED
  BY ONLY <1>2, <1>5, <1>6, <1>7

\* A drain removes the oldest bytes, and they are what it hands out.
LEMMA DrainRemoves ==
  ASSUME NEW r \in Rings, NEW s \in [Index -> Slots],
         NEW n \in 1 .. GetTail(r).maxSz
  PROVE  LET a   == Commit(r, GetTail(r), n)
             run == [i \in 1 .. n |-> s[GetTail(r).buffer + i - 1]]
         IN  /\ a \in Rings
             /\ n \in 1 .. Len(Held(r, s))
             /\ run = SubSeq(Held(r, s), 1, n)
             /\ run \in Seq(Slots)
             /\ Held(a, s) = SubSeq(Held(r, s), n + 1, Len(Held(r, s)))
BY Buffer!DrainRemoves, BufferIsTheSame
-----------------------------------------------------------------------------
(* The type invariant.                                                     *)

LEMMA PayloadIsASeq ==
  ASSUME NEW data \in Payload
  PROVE  data \in Seq(Byte) /\ data # << >>
BY DEF Payload

LEMMA RegionIsASeq ==
  ASSUME NEW p \in Index, NEW n \in Nat, p + n <= Size, storage \in [Index -> Slots]
  PROVE  Region(p, n) \in Seq(Slots) /\ Len(Region(p, n)) = n
<1>1. \A i \in 1 .. n : storage[p + i - 1] \in Slots
  BY DEF Index
<1>2. Region(p, n) \in [1 .. n -> Slots]
  BY <1>1 DEF Region
<1> QED
  BY <1>2

LEMMA AdvanceIsIndex ==
  ASSUME NEW p \in Index, NEW n \in Nat
  PROVE  Advance(p, n) \in Index
BY DEF Advance, Index

LEMMA InitTypeOK == Init => TypeOK
<1> SUFFICES ASSUME Init PROVE TypeOK
  OBVIOUS
<1>1. ring \in Rings /\ storage \in [Index -> Slots]
  BY DEF Init, EmptyRing, Rings, Index, Slots
<1>2. tail \in [buffer : Index, maxSz : 0 .. Capacity] /\ tail.buffer + tail.maxSz <= Size
  BY DEF Init, NoTail, Index, Capacity
<1>3. clients \in 0 .. MaxClients /\ client \in {NoClient, clients} /\ currConn \in 0 .. clients
  BY DEF Init, NoClient
<1>4. szToWrite \in 0 .. Capacity /\ written \in Seq(Slots) /\ freed \in Seq(Slots)
  BY DEF Init, Capacity
<1>5. shutdowns \in 0 .. Shutdowns
  BY DEF Init, Shutdowns
<1> QED
  BY <1>1, <1>2, <1>3, <1>4, <1>5 DEF Init, TypeOK, Idle

LEMMA NextTypeOK == TypeOK /\ [Next]_vars => TypeOK'
<1> SUFFICES ASSUME TypeOK, [Next]_vars
             PROVE  TypeOK'
  OBVIOUS
<1> USE DEF TypeOK, bufferVars, clientVars, runVars, workerVars, shutdownVars
<1>1. CASE Loop
  BY <1>1 DEF Loop
<1>2. CASE Look
  <2>1. /\ GetTail(ring) \in [buffer : Index, maxSz : 0 .. Capacity]
        /\ GetTail(ring).buffer + GetTail(ring).maxSz <= Size
    BY DEF GetTail, Rings, Index, Capacity
  <2> QED BY <1>2, <2>1 DEF Look
<1>3. CASE Sleep
  BY <1>3 DEF Sleep
<1>4. CASE WakeSpuriously
  BY <1>4 DEF WakeSpuriously
<1>5. CASE Fetch
  BY <1>5 DEF Fetch, NoClient
<1>6. CASE Poll
  BY <1>6 DEF Poll
<1>7. ASSUME NEW n \in 0 .. Size, Write(n)
      PROVE  TypeOK'
  <2>1. Region(tail.buffer, n) \in Seq(Slots)
    <3>1. n \in 0 .. tail.maxSz /\ tail.buffer \in Index /\ tail.maxSz \in Nat
      BY <1>7 DEF Write, Capacity
    <3>2. n \in Nat /\ tail.buffer + n <= Size
      BY <3>1 DEF Index
    <3> QED BY <3>1, <3>2, RegionIsASeq
  <2>2. n \in 0 .. Capacity /\ n <= tail.maxSz
    <3>1. n \in 0 .. tail.maxSz /\ tail.maxSz \in 0 .. Capacity
      BY <1>7 DEF Write
    <3> QED BY <3>1 DEF Capacity
  <2> QED BY <1>7, <2>1, <2>2 DEF Write
<1>8. CASE WriteFails
  BY <1>8 DEF WriteFails
<1>9. CASE DisposeClient
  BY <1>9 DEF DisposeClient
<1>10. CASE UseNullClient
  BY <1>10 DEF UseNullClient
<1>11. CASE CommitRun
  <2>1. ring' \in Rings
    <3>1. Advance(ring.head, szToWrite) \in Index /\ Advance(ring.tail, szToWrite) \in Index
      BY AdvanceIsIndex DEF Rings, Capacity
    <3> QED BY <1>11, <3>1 DEF CommitRun, Commit, Rings
  <2>2. freed' \in Seq(Slots)
    <3>1. Region(tail.buffer, szToWrite) \in Seq(Slots)
      <4>1. szToWrite \in 0 .. tail.maxSz /\ tail.buffer \in Index /\ tail.maxSz \in Nat
        BY <1>11 DEF CommitRun, Capacity
      <4>2. szToWrite \in Nat /\ tail.buffer + szToWrite <= Size
        BY <4>1 DEF Index
      <4> QED BY <4>1, <4>2, RegionIsASeq
    <3> QED BY <1>11, <3>1 DEF CommitRun
  <2>3. NoTail \in [buffer : Index, maxSz : 0 .. Capacity] /\ NoTail.buffer + NoTail.maxSz <= Size
    BY DEF NoTail, Index, Capacity
  <2> QED BY <1>11, <2>1, <2>2, <2>3 DEF CommitRun, NoClient, Capacity
<1>12. ASSUME NEW data \in Payload, CheckResponse(data)
       PROVE  TypeOK'
  BY <1>12, PayloadIsASeq DEF CheckResponse
<1>13. CASE WriteRing
  <2>1. rx.data \in Seq(Byte)
    BY <1>13, PayloadIsASeq DEF WriteRing
  <2>2. ring' \in Rings /\ storage' \in [Index -> Slots]
    BY <1>13, <2>1, LoopAppends DEF WriteRing
  <2> QED BY <1>13, <2>2 DEF WriteRing
<1>14. CASE Notify
  BY <1>14 DEF Notify, Wake, Idle
<1>15. CASE HangUp
  BY <1>15 DEF HangUp
<1>16. CASE OnPortOpen
  <2>1. EmptyRing \in Rings
    BY DEF EmptyRing, Rings, Index
  <2> QED BY <1>16, <2>1 DEF OnPortOpen, NoClient
<1>17. CASE RequestShutdown
  BY <1>17 DEF RequestShutdown, Shutdowns
<1>18. CASE NotifyShutdown
  BY <1>18 DEF NotifyShutdown, Wake
<1>19. CASE UNCHANGED vars
  BY <1>19 DEF vars
<1> QED
  BY <1>1, <1>2, <1>3, <1>4, <1>5, <1>6, <1>7, <1>8, <1>9, <1>10, <1>11, <1>12, <1>13,
     <1>14, <1>15, <1>16, <1>17, <1>18, <1>19 DEF Next, Worker, Receiver

\* The pointers and the worker's handle stay inside the storage, even when the
\* worker commits a run that OnPortOpen has thrown away in between.
THEOREM TypeCorrect == Spec => []TypeOK
BY InitTypeOK, NextTypeOK, PTL DEF Spec
-----------------------------------------------------------------------------
(* The run the worker holds.                                               *)

\* What write() took is what is still stored in the run, although the storage
\* was read without the lock.
WriteSawItsRun ==
  /\ pc \in {"poll", "write", "dispose"} => written = << >>
  /\ pc = "commit" /\ written # << >> => written = Region(tail.buffer, szToWrite)

IInv == TypeOK /\ RunStaysPut /\ WriteSawItsRun

\* A write of the receiver, seen on the bytes held and on the slots they are in.
LEMMA WriteRingStep ==
  ASSUME TypeOK, WriteRing
  PROVE  /\ Held(ring, storage)' = Held(ring, storage) \o Queue!Fitting(rx.data)
         /\ rx.data \in Payload
         /\ ring'.tail = ring.tail
         /\ Stored(ring) <= Stored(ring)'
         /\ \A i \in 1 .. Stored(ring) :
              ring.tail + i - 1 < Size =>
                storage'[ring.tail + i - 1] = storage[ring.tail + i - 1]
<1> DEFINE old   == Held(ring, storage)
           after == CopyLoop([ring |-> ring, storage |-> storage, data |-> rx.data])
           free  == Capacity - Stored(ring)
           sz    == IF Len(rx.data) <= free THEN Len(rx.data) ELSE free
           app   == SubSeq(rx.data, 1, sz)
<1>1. ring \in Rings /\ storage \in [Index -> Slots]
  BY DEF TypeOK
<1>2. rx.data \in Payload /\ rx.data \in Seq(Byte)
  BY PayloadIsASeq DEF TypeOK, WriteRing
<1>3. ring' = after.ring /\ storage' = after.storage
  BY DEF WriteRing
<1>4. /\ after.ring \in Rings
      /\ after.storage \in [Index -> Slots]
      /\ Held(after.ring, after.storage) = old \o app
  BY <1>1, <1>2, LoopAppends
<1>5. after.ring.tail = ring.tail
  BY <1>1, <1>2, LoopAppends
<1> HIDE DEF after
<1>6. /\ old \in Seq(Slots) /\ Len(old) = Stored(ring)
      /\ \A i \in 1 .. Stored(ring) : old[i] = storage[Slot(ring, i)]
  BY <1>1, HeldIsASeq
<1>7. LET new == Held(after.ring, after.storage)
      IN  /\ Len(new) = Stored(after.ring)
          /\ \A i \in 1 .. Stored(after.ring) : new[i] = after.storage[Slot(after.ring, i)]
  BY <1>4, HeldIsASeq
<1>8. Queue!Fitting(rx.data) = app
  BY <1>6 DEF Queue!Fitting
<1>9. app \in Seq(Slots)
  <2>1. Len(rx.data) \in Nat /\ Stored(ring) \in 0 .. Capacity
    BY <1>1, <1>2, GeometryHead, LenProperties
  <2>2. sz \in 0 .. Len(rx.data)
    BY <2>1 DEF Capacity
  <2>3. \A i \in 1 .. sz : rx.data[i] \in Slots
    <3>1. \A i \in 1 .. Len(rx.data) : rx.data[i] \in Byte
      BY <1>2, ElementOfSeq
    <3> QED BY <2>1, <2>2, <3>1 DEF Slots
  <2> QED BY <2>1, <2>2, <2>3, <1>2, SubSeqProperties
<1> HIDE DEF old, app
<1>10. /\ Len(old \o app) = Len(old) + Len(app)
       /\ \A i \in 1 .. Len(old) : (old \o app)[i] = old[i]
  <2>1. old \in Seq(Slots) /\ app \in Seq(Slots)
    BY <1>6, <1>9
  <2> QED BY <2>1, ConcatProperties
<1>11. Stored(ring) \in Nat /\ Stored(after.ring) = Stored(ring) + Len(app) /\ Len(app) \in Nat
  <2>1. Stored(ring) \in Nat
    BY <1>1, GeometryHead DEF Capacity
  <2>2. Len(app) \in Nat
    BY <1>9, LenProperties
  <2>3. Stored(after.ring) = Len(old \o app)
    BY <1>4, <1>7
  <2> QED BY <1>6, <1>10, <2>1, <2>2, <2>3
<1>12. ASSUME NEW i \in 1 .. Stored(ring), ring.tail + i - 1 < Size
       PROVE  storage'[ring.tail + i - 1] = storage[ring.tail + i - 1]
  <2>1. Slot(ring, i) = ring.tail + i - 1 /\ Slot(after.ring, i) = ring.tail + i - 1
    BY <1>5, <1>12 DEF Slot
  <2>2. i \in 1 .. Stored(after.ring)
    BY <1>11
  <2>3. Held(after.ring, after.storage)[i] = old[i]
    BY <1>4, <1>6, <1>10
  <2> QED BY <1>3, <1>6, <1>7, <2>1, <2>2, <2>3
<1>13. Held(ring, storage)' = Held(after.ring, after.storage)
  BY <1>3
<1> QED
  BY <1>2, <1>3, <1>4, <1>5, <1>8, <1>11, <1>12, <1>13 DEF old

\* The commit of n > 0 bytes of the run, seen on the bytes held.
LEMMA CommitRunStep ==
  ASSUME IInv, CommitRun, szToWrite # 0
  PROVE  /\ szToWrite \in 1 .. Len(Held(ring, storage))
         /\ freed' = SubSeq(Held(ring, storage), 1, szToWrite)
         /\ Held(ring, storage)'
              = SubSeq(Held(ring, storage), szToWrite + 1, Len(Held(ring, storage)))
<1>1. ring \in Rings /\ storage \in [Index -> Slots]
  BY DEF IInv, TypeOK
<1>2. /\ tail.buffer = ring.tail /\ tail.buffer + tail.maxSz <= Size
      /\ tail.maxSz \in 0 .. Capacity /\ tail.maxSz <= Stored(ring)
      /\ szToWrite \in 0 .. Capacity /\ szToWrite <= tail.maxSz
  BY DEF IInv, TypeOK, RunStaysPut, HoldsRun, CommitRun
<1>3. tail.maxSz <= GetTail(ring).maxSz /\ GetTail(ring).maxSz \in Nat
  BY <1>1, <1>2 DEF GetTail, Stored, Rings, Index, Capacity
<1>4. szToWrite \in 1 .. GetTail(ring).maxSz
  BY <1>2, <1>3 DEF Capacity
<1>5. GetTail(ring).buffer = tail.buffer
  BY <1>2 DEF GetTail
<1>6. ring' = Commit(ring, GetTail(ring), szToWrite) /\ storage' = storage
  BY <1>5 DEF CommitRun, Commit
<1>7. freed' = Region(tail.buffer, szToWrite)
  BY DEF CommitRun, IInv, WriteSawItsRun
<1>8. Region(tail.buffer, szToWrite)
        = [i \in 1 .. szToWrite |-> storage[GetTail(ring).buffer + i - 1]]
  BY <1>5 DEF Region
<1> DEFINE after == Commit(ring, GetTail(ring), szToWrite)
<1>9. /\ szToWrite \in 1 .. Len(Held(ring, storage))
      /\ [i \in 1 .. szToWrite |-> storage[GetTail(ring).buffer + i - 1]]
            = SubSeq(Held(ring, storage), 1, szToWrite)
      /\ Held(after, storage)
            = SubSeq(Held(ring, storage), szToWrite + 1, Len(Held(ring, storage)))
  BY <1>1, <1>4, DrainRemoves
<1>10. Held(ring, storage)' = Held(after, storage)
  BY <1>6
<1> QED
  BY <1>7, <1>8, <1>9, <1>10

\* A commit of nothing leaves the ring as it is.
LEMMA CommitNothing ==
  ASSUME TypeOK, CommitRun, szToWrite = 0
  PROVE  ring' = ring /\ freed' = freed
<1>1. Advance(ring.head, 0) = ring.head /\ Advance(ring.tail, 0) = ring.tail
  BY DEF TypeOK, Rings, Index, Advance
<1>2. [ring EXCEPT !.head = ring.head] = ring /\ [ring EXCEPT !.tail = ring.tail] = ring
  BY DEF TypeOK, Rings
<1>3. ring' = ring
  <2>1. ring' = Commit(ring, tail, 0)
    BY DEF CommitRun
  <2>2. CASE tail.buffer = ring.head
    <3>1. Commit(ring, tail, 0) = [ring EXCEPT !.head = Advance(ring.head, 0)]
      BY <2>2 DEF Commit
    <3> QED BY <1>1, <1>2, <2>1, <3>1
  <2>3. CASE tail.buffer # ring.head
    <3>1. Commit(ring, tail, 0) = [ring EXCEPT !.tail = Advance(ring.tail, 0)]
      BY <2>3 DEF Commit
    <3> QED BY <1>1, <1>2, <2>1, <3>1
  <2> QED BY <2>2, <2>3
<1>4. freed' = freed
  BY DEF CommitRun
<1> QED
  BY <1>3, <1>4
-----------------------------------------------------------------------------
(* The invariant.                                                          *)

LEMMA InitIInv == Init => IInv
BY InitTypeOK DEF Init, IInv, RunStaysPut, HoldsRun, WriteSawItsRun

LEMMA NextIInv ==
  ASSUME ~ ResetOnConnect, IInv, [Next]_vars
  PROVE  IInv'
<1>1. TypeOK /\ TypeOK'
  BY NextTypeOK DEF IInv
<1> SUFFICES RunStaysPut' /\ WriteSawItsRun'
  BY <1>1 DEF IInv
<1> USE <1>1 DEF IInv, RunStaysPut, HoldsRun, WriteSawItsRun, bufferVars, clientVars, runVars,
            workerVars, shutdownVars
<1>2. CASE Loop
  BY <1>2 DEF Loop
<1>3. CASE Look
  <2>1. GetTail(ring).buffer = ring.tail /\ GetTail(ring).maxSz <= Stored(ring)
    BY GeometryTail DEF TypeOK
  <2> QED BY <1>3, <2>1 DEF Look
<1>4. CASE Sleep
  BY <1>4 DEF Sleep
<1>5. CASE WakeSpuriously
  BY <1>5 DEF WakeSpuriously
<1>6. CASE Fetch
  BY <1>6 DEF Fetch
<1>7. CASE Poll
  BY <1>7 DEF Poll
<1>8. ASSUME NEW n \in 0 .. Size, Write(n)
      PROVE  RunStaysPut' /\ WriteSawItsRun'
  BY <1>8 DEF Write, Region
<1>9. CASE WriteFails
  BY <1>9 DEF WriteFails
<1>10. CASE DisposeClient
  BY <1>10 DEF DisposeClient
<1>11. CASE UseNullClient
  BY <1>11 DEF UseNullClient, Region
<1>12. CASE CommitRun
  BY <1>12 DEF CommitRun
<1>13. ASSUME NEW data \in Payload, CheckResponse(data)
       PROVE  RunStaysPut' /\ WriteSawItsRun'
  BY <1>13 DEF CheckResponse, Region
<1>14. CASE WriteRing
  <2>1. /\ ring'.tail = ring.tail /\ Stored(ring) <= Stored(ring')
        /\ \A i \in 1 .. Stored(ring) :
             ring.tail + i - 1 < Size =>
               storage'[ring.tail + i - 1] = storage[ring.tail + i - 1]
    BY <1>14, WriteRingStep
  <2>2. UNCHANGED workerVars
    BY <1>14 DEF WriteRing
  <2>3. Stored(ring) \in Nat /\ Stored(ring') \in Nat
    BY GeometryHead DEF TypeOK, Capacity
  <2>4. RunStaysPut'
    BY <2>1, <2>2, <2>3 DEF TypeOK, Capacity
  <2>5. ASSUME pc = "commit"
        PROVE  Region(tail.buffer, szToWrite)' = Region(tail.buffer, szToWrite)
    <3>1. /\ tail.buffer = ring.tail /\ tail.buffer \in Index
          /\ tail.buffer + tail.maxSz <= Size
          /\ tail.maxSz \in 0 .. Capacity /\ tail.maxSz <= Stored(ring)
          /\ szToWrite \in 0 .. Capacity /\ szToWrite <= tail.maxSz
      BY <2>5 DEF TypeOK
    <3>2. \A i \in 1 .. szToWrite : i \in 1 .. Stored(ring) /\ ring.tail + i - 1 < Size
      BY <2>3, <3>1 DEF Index, Capacity
    <3>3. \A i \in 1 .. szToWrite :
            storage'[tail.buffer + i - 1] = storage[tail.buffer + i - 1]
      BY <2>1, <3>1, <3>2
    <3> QED BY <2>2, <3>3 DEF Region
  <2>6. WriteSawItsRun'
    BY <2>2, <2>5
  <2> QED BY <2>4, <2>6
<1>15. CASE Notify
  BY <1>15 DEF Notify, Wake, Region
<1>16. CASE HangUp
  BY <1>16 DEF HangUp, Region
<1>17. CASE OnPortOpen
  BY <1>17 DEF OnPortOpen, Region
<1>18. CASE RequestShutdown
  BY <1>18 DEF RequestShutdown, Region
<1>19. CASE NotifyShutdown
  BY <1>19 DEF NotifyShutdown, Wake, Region
<1>20. CASE UNCHANGED vars
  BY <1>20 DEF vars, Region
<1> QED
  BY <1>2, <1>3, <1>4, <1>5, <1>6, <1>7, <1>8, <1>9, <1>10, <1>11, <1>12, <1>13, <1>14,
     <1>15, <1>16, <1>17, <1>18, <1>19, <1>20 DEF Next, Worker, Receiver
-----------------------------------------------------------------------------
(* What follows without -rst.                                              *)

\* Without -rst the worker frees what it took from under an earlier hold of
\* the lock (PortWorker.cpp:179-233).
THEOREM RunIsStable ==
  ASSUME ~ ResetOnConnect
  PROVE  Spec => []RunStaysPut
<1>1. IInv => RunStaysPut
  BY DEF IInv
<1>2. IInv /\ [Next]_vars => IInv'
  BY NextIInv
<1> QED
  BY <1>1, <1>2, InitIInv, PTL DEF Spec

\* Without -rst the buffer between receiver and worker is a bounded first-in
\* first-out queue: PortWorker, with its interleavings and its read of the
\* storage outside the lock, implements ByteQueue.
THEOREM PortWorkerIsAQueue ==
  ASSUME ~ ResetOnConnect
  PROVE  Spec => IsAQueue
<1>1. Init => Queue!Init
  <2>1. Stored(EmptyRing) = 0
    BY DEF EmptyRing, Stored
  <2> QED BY <2>1 DEF Init, Queue!Init, Held
<1>2. IInv /\ [Next]_vars => [Queue!Next]_Queue!vars
  <2> SUFFICES ASSUME IInv, [Next]_vars
               PROVE  [Queue!Next]_Queue!vars
    OBVIOUS
  <2> USE DEF bufferVars, clientVars, runVars, workerVars, shutdownVars
  <2>1. CASE WriteRing
    <3>1. TypeOK
      BY DEF IInv
    <3>2. rx.data \in Queue!Payload
      BY <2>1, <3>1, WriteRingStep DEF Payload, Queue!Payload
    <3>3. Queue!Offer(rx.data)
      BY <2>1, <3>1, WriteRingStep DEF Queue!Offer, WriteRing
    <3> QED BY <3>2, <3>3 DEF Queue!Next
  <2>2. CASE CommitRun
    <3>1. CASE szToWrite = 0
      <4>1. ring' = ring /\ freed' = freed
        BY <2>2, <3>1, CommitNothing DEF IInv
      <4>2. storage' = storage
        BY <2>2 DEF CommitRun
      <4> QED BY <4>1, <4>2 DEF Queue!vars
    <3>2. CASE szToWrite # 0
      <4>1. Queue!Take(szToWrite) /\ szToWrite \in 1 .. Len(Held(ring, storage))
        BY <2>2, <3>2, CommitRunStep DEF Queue!Take
      <4> QED BY <4>1 DEF Queue!Next
    <3> QED BY <3>1, <3>2
  <2>3. ASSUME UNCHANGED <<ring, storage, freed>>
        PROVE  UNCHANGED Queue!vars
    BY <2>3 DEF Queue!vars
  <2>4. CASE Loop \/ Look \/ Sleep \/ WakeSpuriously \/ Fetch \/ Poll
    BY <2>3, <2>4 DEF Loop, Look, Sleep, WakeSpuriously, Fetch, Poll
  <2>5. CASE (\E n \in 0 .. Size : Write(n)) \/ WriteFails \/ DisposeClient \/ UseNullClient
    BY <2>3, <2>5 DEF Write, WriteFails, DisposeClient, UseNullClient
  <2>6. CASE (\E data \in Payload : CheckResponse(data)) \/ Notify
    BY <2>3, <2>6 DEF CheckResponse, Notify
  <2>7. CASE HangUp \/ OnPortOpen \/ RequestShutdown \/ NotifyShutdown
    BY <2>3, <2>7 DEF HangUp, OnPortOpen, RequestShutdown, NotifyShutdown
  <2>8. CASE UNCHANGED vars
    BY <2>3, <2>8 DEF vars
  <2> QED
    BY <2>1, <2>2, <2>4, <2>5, <2>6, <2>7, <2>8 DEF Next, Worker, Receiver
<1>3. IInv /\ [Next]_vars => IInv'
  BY NextIInv
<1> QED
  BY <1>1, <1>2, <1>3, InitIInv, PTL DEF Spec, IsAQueue, Queue!Spec
=============================================================================
