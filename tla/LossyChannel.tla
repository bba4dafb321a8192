---------------------------- MODULE LossyChannel ----------------------------
(***************************************************************************)
(* What the sequence numbers of the UDP transport promise: packages are    *)
(* lost at will, and those that are delivered come in the order they were  *)
(* sent, each of them once.  Packages are known by the order of sending.   *)
(***************************************************************************)
EXTENDS Integers

CONSTANT Start     \* the receiver starts as if it had been given this package

VARIABLES sent,    \* packages sent
          pending, \* those that may still be delivered
          newest   \* the package delivered last

vars == <<sent, pending, newest>>

Init == sent = 0 /\ pending = {} /\ newest = Start

\* A package at or below the start of the receiver can never be delivered.
Send ==
  /\ sent' = sent + 1
  /\ pending' = IF sent > newest THEN pending \cup {sent} ELSE pending
  /\ UNCHANGED newest

Lose ==
  /\ pending' \in SUBSET pending
  /\ UNCHANGED <<sent, newest>>

Deliver(k) ==
  /\ k > newest
  /\ newest' = k
  /\ pending' = {j \in pending : j > k}
  /\ UNCHANGED sent

Next == Send \/ Lose \/ \E k \in pending : Deliver(k)

Spec == Init /\ [][Next]_vars
=============================================================================
