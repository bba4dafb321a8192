------------------------- MODULE RemoteBufferTracker -------------------------
(***************************************************************************)
(* The client's account of the data it has sent to the firmware and that   *)
(* the firmware has not yet confirmed (Client/Src/RemoteBufferTracker.cpp).*)
(*                                                                         *)
(* A tracker is a record: sent, the unconfirmed packages in the order they *)
(* were sent, each with the counter of the request that carried it and its *)
(* size; blocked, whether the last response said that the buffer of the    *)
(* port is more than half full.                                            *)
(***************************************************************************)
EXTENDS Integers, Sequences, SequencesExt

CONSTANT BufferLimit   \* the size of the remote buffer, as configured with -rbs

ASSUME BufferLimitAssumption == BufferLimit \in Nat

NewTracker == [sent |-> << >>, blocked |-> FALSE]

\* The bytes sent and not confirmed: totalSent after the loop over all packages.
Outstanding(t) ==
  LET totalSent[i \in 0 .. Len(t.sent)] ==
        IF i = 0 THEN 0 ELSE totalSent[i - 1] + t.sent[i].size
  IN  totalSent[Len(t.sent)]
-----------------------------------------------------------------------------
(* Faulty variants, one plausible slip each.                               *)

\* Every response confirms all that was sent.
ConfirmPackageAll(t, refCounter, writeBlocked) ==
  [sent |-> << >>, blocked |-> writeBlocked]

\* The back-pressure flag is ignored.
GetAvailSpaceUnblocked(t) ==
  IF Outstanding(t) > BufferLimit THEN 0 ELSE BufferLimit - Outstanding(t)
-----------------------------------------------------------------------------
(* The class, method by method.                                            *)

AddPackage(t, size, counter) ==
  [t EXCEPT !.sent = Append(@, [counter |-> counter, size |-> size])]

\* Confirmations are cumulative: everything up to the first package that is
\* newer than the counter goes.
ConfirmPackage(t, refCounter, writeBlocked) ==
  LET confirmed == SelectInSeq(t.sent, LAMBDA pkg : pkg.counter > refCounter)
  IN  [sent    |-> IF confirmed = 0 THEN << >>
                   ELSE SubSeq(t.sent, confirmed, Len(t.sent)),
       blocked |-> writeBlocked]

GetAvailSpace(t) ==
  IF t.blocked \/ Outstanding(t) > BufferLimit
    THEN 0
    ELSE BufferLimit - Outstanding(t)

\* Reset forgets the packages and keeps the flag.
ResetTracker(t) == [t EXCEPT !.sent = << >>]
=============================================================================
