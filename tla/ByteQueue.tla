----------------------------- MODULE ByteQueue ------------------------------
(***************************************************************************)
(* What a ring buffer promises its users: a first-in first-out queue of at *)
(* most Capacity bytes.  A payload is appended as far as it fits and its   *)
(* end is lost when it does not; bytes leave from the other end in runs;   *)
(* the whole content may be discarded.                                     *)
(***************************************************************************)
EXTENDS Integers, Sequences

CONSTANTS Byte,       \* the values a byte may have
          Capacity,   \* the most bytes that are ever held
          MaxPayload  \* the longest payload offered at once

VARIABLES queue,      \* the bytes held, the oldest first
          taken       \* the run handed to the consumer by the last Take

vars == <<queue, taken>>

Payload == UNION {[1 .. n -> Byte] : n \in 1 .. MaxPayload}

Init == queue = << >> /\ taken = << >>

\* The part of a payload that fits: all of it, or what fills the queue.
Fitting(data) ==
  LET free == Capacity - Len(queue)
  IN  SubSeq(data, 1, IF Len(data) <= free THEN Len(data) ELSE free)

Offer(data) ==
  /\ queue' = queue \o Fitting(data)
  /\ UNCHANGED taken

Take(n) ==
  /\ taken' = SubSeq(queue, 1, n)
  /\ queue' = SubSeq(queue, n + 1, Len(queue))

Discard ==
  /\ queue' = << >>
  /\ UNCHANGED taken

Next ==
  \/ \E data \in Payload : Offer(data)
  \/ \E n \in 1 .. Len(queue) : Take(n)
  \/ Discard

Spec == Init /\ [][Next]_vars
=============================================================================
