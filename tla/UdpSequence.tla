---------------------------- MODULE UdpSequence -----------------------------
(***************************************************************************)
(* The sequence numbers of one direction of the UDP transport, over a      *)
(* network that loses, duplicates, delays and reorders packages.           *)
(*                                                                         *)
(*   client to firmware: UDPConnection::TXSeqIncrement numbers them,       *)
(*     UDPServer::DropOldSeq filters (TxStart 65535, RxStart 0)            *)
(*   firmware to client: UDPServer::ProcessTX numbers them,                *)
(*     UDPConnection::RXSeqCheckIncrement filters (TxStart 0, RxStart      *)
(*     65535)                                                              *)
(*                                                                         *)
(* Both ends start anew with every TCP connection, on a new port.  Numbers *)
(* are 16 bits wide and wrap around.  A package also carries the count of  *)
(* those sent before it, k, which the code does not have: the properties   *)
(* compare what the wrapped numbers make of it with the truth.             *)
(***************************************************************************)
EXTENDS SequenceNumbers

CONSTANTS TxStart,  \* number of the first package
          RxStart,  \* what the receiver takes for the last number it had
          MaxSent   \* bound: packages sent

ASSUME SequenceAssumption ==
  TxStart \in Numbers /\ RxStart \in Numbers /\ MaxSent \in Nat

VARIABLES txSeq,   \* the number of the next package
          rxSeq,   \* the number accepted last
          flight,  \* the packages the network holds, [k, seq]
          sent,    \* history: packages sent
          newest   \* history: the package accepted last, as counted by k

numberingVars == <<txSeq, rxSeq, flight, sent, newest>>

\* The package the receiver starts from: one of those around the first.
Start ==
  IF Minus(RxStart, TxStart) <= Half THEN Minus(RxStart, TxStart)
  ELSE Minus(RxStart, TxStart) - Modulus

NumberingInit ==
  /\ txSeq = TxStart /\ rxSeq = RxStart
  /\ flight = {} /\ sent = 0 /\ newest = Start
-----------------------------------------------------------------------------
(* Faulty variants, one plausible slip each.                               *)

\* A comparison that forgets that numbers wrap around.
AcceptsUnwrapped(checkSeq) == checkSeq > rxSeq

\* The comparison written with >= for >.
AcceptsEqual(checkSeq) == Minus(rxSeq, checkSeq) >= Minus(checkSeq, rxSeq)
-----------------------------------------------------------------------------
(* What the network may do.  It holds a package no longer than it takes to *)
(* send half of the range of numbers, and does not lose so many in a row:  *)
(* at a poll every few milliseconds either takes minutes.                  *)

Recent(packages, k) == {p \in packages : p.k >= k - Half}

\* The number is used and then incremented.
Send ==
  /\ sent < MaxSent
  /\ sent - newest < Half
  /\ flight' = flight \cup {[k |-> sent, seq |-> txSeq]}
  /\ txSeq' = Increment(txSeq)
  /\ sent' = sent + 1
  /\ UNCHANGED <<rxSeq, newest>>

Lose(p) ==
  /\ p \in flight
  /\ flight' = flight \ {p}
  /\ UNCHANGED <<txSeq, rxSeq, sent, newest>>

\* static_cast<uint16_t>(rxSeq - checkSeq) > static_cast<uint16_t>(checkSeq - rxSeq)
Accepts(checkSeq) == Minus(rxSeq, checkSeq) > Minus(checkSeq, rxSeq)

\* A package arrives; a duplicate of it may still be under way.
Receive(p, again) ==
  LET left == IF again THEN flight ELSE flight \ {p}
  IN  /\ p \in flight
      /\ IF Accepts(p.seq)
           THEN /\ rxSeq' = p.seq /\ newest' = p.k
                /\ flight' = Recent(left, p.k)
           ELSE /\ UNCHANGED <<rxSeq, newest>>
                /\ flight' = left
      /\ UNCHANGED <<txSeq, sent>>

NumberingNext ==
  \/ Send
  \/ \E p \in flight : Lose(p)
  \/ \E p \in flight, again \in BOOLEAN : Receive(p, again)

NumberingSpec == NumberingInit /\ [][NumberingNext]_numberingVars
-----------------------------------------------------------------------------
(* Properties.                                                             *)

\* An accepted package is newer than every one before, and a newer one is
\* always accepted: the wrapped comparison is right for every package that can
\* arrive, across the wrap of the numbers (UDPConnection.cpp:31-44,
\* udpserver.cpp:17-26).  To the firmware the first two packages count as old.
FilterIsExact == \A p \in flight : Accepts(p.seq) <=> p.k > newest

NumberingTypeOK ==
  /\ txSeq \in Numbers /\ rxSeq \in Numbers
  /\ sent \in Nat /\ newest \in Int
  /\ flight \subseteq [k : Nat, seq : Numbers]

Channel == INSTANCE LossyChannel
  WITH pending <- {p.k : p \in {q \in flight : q.k > newest}}

\* What is delivered comes in order and once, whatever the network does.
DeliversInOrder == Channel!Spec
=============================================================================
