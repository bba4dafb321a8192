----------------------------- MODULE DataBuffer -----------------------------
(***************************************************************************)
(* The byte ring buffer used on both sides of the bridge: class DataBuffer *)
(* of the client (Client/Src/DataBuffer.cpp) and of the firmware           *)
(* (Firmware/UARTEthernetBridge/databuffer.cpp), which are the same code   *)
(* with another integer type for sizes.                                    *)
(*                                                                         *)
(* The two pointers are kept as indexes into the storage, a record         *)
(* [head, tail]; begin is index 0 and end is index Size.  A handle is the  *)
(* record [buffer, maxSz] the code hands out: a position and the length of *)
(* the contiguous region that may be filled (GetHead) or drained (GetTail) *)
(* from there.  One slot is always left unused, so head = tail means empty.*)
(***************************************************************************)
EXTENDS Integers, Sequences

CONSTANTS Size,    \* number of slots in the storage
          Byte,    \* the values a byte may have
          NoByte   \* what a slot holds before it is first written

ASSUME SizeAssumption == Size \in Nat \ {0}

Index == 0 .. Size - 1

Slots == Byte \cup {NoByte}

Rings == [head : Index, tail : Index]

\* The number of bytes that fit: one slot separates a full ring from an empty one.
Capacity == Size - 1

EmptyRing == [head |-> 0, tail |-> 0]
-----------------------------------------------------------------------------
(* The class, method by method.                                            *)

GetHead(r) ==
  [buffer |-> r.head,
   maxSz  |-> IF r.head < r.tail
                THEN r.tail - r.head - 1
                ELSE Size - r.head - (IF r.tail > 0 THEN 0 ELSE 1)]

GetTail(r) ==
  [buffer |-> r.tail,
   maxSz  |-> IF r.head >= r.tail THEN r.head - r.tail ELSE Size - r.tail]

\* *target += usedSz; if (*target >= end) *target = begin;
Advance(p, n) == IF p + n >= Size THEN 0 ELSE p + n

\* The handle says which pointer moves only through its position: a handle
\* whose position equals head moves head, any other moves tail.
Commit(r, handle, usedSz) ==
  IF handle.buffer = r.head
    THEN [r EXCEPT !.head = Advance(@, usedSz)]
    ELSE [r EXCEPT !.tail = Advance(@, usedSz)]

\* Faulty: the sign of the correction by one slot is swapped.
UsedSizeUnderReport(r) ==
  IF r.head >= r.tail THEN r.head - r.tail ELSE Size - (r.tail - r.head) - 1

\* When the data wraps around the end, the code answers one more than it holds.
UsedSize(r) ==
  IF r.head >= r.tail THEN r.head - r.tail ELSE Size - (r.tail - r.head - 1)

IsHalfUsed(r) == UsedSize(r) > Size \div 2
-----------------------------------------------------------------------------
(* Reference definitions, used to state what the operators promise.        *)

\* The number of bytes really stored.
Stored(r) ==
  IF r.head >= r.tail THEN r.head - r.tail ELSE Size - (r.tail - r.head)

\* The slot that holds the i-th oldest stored byte.
Slot(r, i) ==
  IF r.tail + i - 1 < Size THEN r.tail + i - 1 ELSE r.tail + i - 1 - Size

\* The bytes held by a ring r with storage s, the oldest first.
Held(r, s) == [i \in 1 .. Stored(r) |-> s[Slot(r, i)]]
-----------------------------------------------------------------------------
(* The copy loop.                                                          *)

\* The bytes of data one pass copies: what is left of it, or the free run.
PassSize(r, data) ==
  LET free == GetHead(r).maxSz
  IN  IF Len(data) > free THEN free ELSE Len(data)

\* memcpy(handle.buffer, ...), sz bytes.
Fill(s, handle, data, sz) ==
  [i \in Index |->
     IF i \in handle.buffer .. handle.buffer + sz - 1
       THEN data[i - handle.buffer + 1]
       ELSE s[i]]

\* A buffer and the data still to be written, after one pass of the loop.  A
\* pass with no data left or no free slot changes nothing: the loop has ended.
CopyPass(b) ==
  LET handle == GetHead(b.ring)
      sz     == PassSize(b.ring, b.data)
  IN  [ring    |-> Commit(b.ring, handle, sz),
       storage |-> Fill(b.storage, handle, b.data, sz),
       data    |-> SubSeq(b.data, sz + 1, Len(b.data))]

\* The first pass may stop at the end of the storage, the second one goes on
\* at its start; after it the data or the free slots are used up.
CopyLoop(b) == CopyPass(CopyPass(b))
=============================================================================
