----------------------------- MODULE RingBuffer -----------------------------
(***************************************************************************)
(* A DataBuffer with its storage and the two loops that use it: the copy   *)
(* loop that writes a payload (PortWorker::ProcessRX on the client,        *)
(* UARTWorker::ProcessRequest on the firmware) and the drain that hands    *)
(* the contiguous run at the tail to a device or a socket and commits what *)
(* was accepted (UARTWorker::ProcessRX, PortWorker::Worker).               *)
(*                                                                         *)
(* Here each of them is one step, as under the client's ringBuffLock or in *)
(* the single-threaded firmware.  What happens when a commit comes after   *)
(* the lock was given up in between is the subject of module PortWorker.   *)
(***************************************************************************)
EXTENDS DataBuffer

CONSTANT MaxPayload   \* the longest payload written at once

ASSUME PayloadAssumption == MaxPayload \in Nat \ {0}

VARIABLES ring,     \* head and tail
          storage,  \* what each slot holds
          taken     \* the run the last drain handed out

vars == <<ring, storage, taken>>

Payload == UNION {[1 .. n -> Byte] : n \in 1 .. MaxPayload}

TypeOK ==
  /\ ring \in Rings
  /\ storage \in [Index -> Slots]
  /\ taken \in Seq(Slots)

Init ==
  /\ ring = EmptyRing
  /\ storage = [i \in Index |-> NoByte]
  /\ taken = << >>
-----------------------------------------------------------------------------
(* The two loops and the reset.                                            *)

\* The buffer after the copy loop has written data.
Copied(data) == CopyLoop([ring |-> ring, storage |-> storage, data |-> data])

Write(data) ==
  /\ ring' = Copied(data).ring
  /\ storage' = Copied(data).storage
  /\ UNCHANGED taken

\* Faulty variant: the whole run is committed, however little was accepted.
DrainWholeRun(n) ==
  LET handle == GetTail(ring)
  IN  /\ n \in 1 .. handle.maxSz
      /\ taken' = [i \in 1 .. n |-> storage[handle.buffer + i - 1]]
      /\ ring' = Commit(ring, handle, handle.maxSz)
      /\ UNCHANGED storage

\* The device or socket accepts n bytes of the run GetTail offers.
Drain(n) ==
  LET handle == GetTail(ring)
  IN  /\ n \in 1 .. handle.maxSz
      /\ taken' = [i \in 1 .. n |-> storage[handle.buffer + i - 1]]
      /\ ring' = Commit(ring, handle, n)
      /\ UNCHANGED storage

\* DataBuffer::Reset moves the pointers and leaves the bytes where they are.
Reset ==
  /\ ring' = EmptyRing
  /\ UNCHANGED <<storage, taken>>

Next ==
  \/ \E data \in Payload : Write(data)
  \/ \E n \in 1 .. Size : Drain(n)
  \/ Reset

Spec == Init /\ [][Next]_vars
-----------------------------------------------------------------------------
(* What the buffer promises.                                               *)

\* The bytes held, the oldest first.
Contents == Held(ring, storage)

Queue == INSTANCE ByteQueue WITH queue <- Contents, Capacity <- Capacity

\* Wherever head and tail are, the buffer behaves as a bounded queue: nothing
\* is lost from the middle, and bytes leave in the order they came in, across
\* the wrap (DataBuffer.cpp:17-35).
IsAQueue == Queue!Spec

\* Wherever head and tail are, any payload would be appended as far as it fits:
\* its first bytes are stored, in order, until the buffer is full
\* (PortWorker.cpp:153-168, uartworker.cpp:23-36).
EveryPayloadFits ==
  \A data \in Payload :
    Held(Copied(data).ring, Copied(data).storage) = Contents \o Queue!Fitting(data)

\* The copy loop ends when GetHead offers no room and the drain when GetTail
\* offers no run: each does so exactly when the buffer is full, or empty, so
\* neither loop gives up while it could go on (DataBuffer.cpp:17-27).
HandlesTellTheTruth ==
  /\ GetHead(ring).maxSz = 0 <=> Stored(ring) = Capacity
  /\ GetTail(ring).maxSz = 0 <=> Stored(ring) = 0
  /\ GetHead(ring).maxSz <= Capacity - Stored(ring)
  /\ GetTail(ring).maxSz <= Stored(ring)

\* The back-pressure flag the firmware reports is never late, and it is at
\* most one byte early: UsedSize answers one too many on a wrapped buffer
\* (DataBuffer.cpp:37-45), which costs a little throughput and no data.
BackPressureIsNeverLate ==
  /\ Stored(ring) > Size \div 2 => IsHalfUsed(ring)
  /\ IsHalfUsed(ring) => Stored(ring) >= Size \div 2
  /\ UsedSize(ring) = 0 <=> Stored(ring) = 0
=============================================================================
