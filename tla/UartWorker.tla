----------------------------- MODULE UartWorker -----------------------------
(***************************************************************************)
(* One UART port of the firmware: class UARTWorker with its ring buffer    *)
(* and its ResetHelper (Firmware/UARTEthernetBridge/uartworker.cpp,        *)
(* resethelper.cpp).                                                       *)
(*                                                                         *)
(* A port is a record:                                                     *)
(*   open      curMode holds a serial mode (IS_OPEN)                       *)
(*   session   sessionId, the number the responses are stamped with        *)
(*   ring      the bytes waiting to be written to the UART; the ring       *)
(*             buffer is a bounded queue, which module RingBuffer shows    *)
(*   tx        the bytes read from the UART for the next response          *)
(*   resetting the reset line of the attached device is held low           *)
(* A request is a record [type, arg, data]; the speed an Open carries is   *)
(* abstracted to whether it is positive (data # << >>).                    *)
(***************************************************************************)
EXTENDS Integers, Sequences

CONSTANTS RingCapacity,   \* bytes the ring holds: DATA_BUFFER_SIZE - 1
          IOSize,         \* PORT_IO_SIZE, bytes moved from or to the UART at once
          PayloadSize     \* DATA_PAYLOAD_SIZE, bytes of a port in one package

ASSUME UartAssumption ==
  /\ RingCapacity \in Nat
  /\ IOSize \in Nat \ {0}
  /\ PayloadSize \in Nat \ {0}

\* Setup: the port is closed and belongs to no session.
NewPort ==
  [open |-> FALSE, session |-> 0, ring |-> << >>, tx |-> << >>, resetting |-> FALSE]

Least(m, n) == IF m < n THEN m ELSE n
-----------------------------------------------------------------------------
(* Faulty variants, one plausible slip each.                               *)

\* A reset request that leaves the old data in the ring.
OnResetKeepingData(w, arg) ==
  [w EXCEPT !.resetting = TRUE, !.session = arg]

\* What was written to the UART stays in the ring.
ProcessRXWithoutCommit(w, room) == w

\* The count of bytes collected is not cleared for a new package.
CollectWithoutReset(w, first, data) ==
  [w EXCEPT !.tx = IF w.open THEN @ \o data ELSE @]
-----------------------------------------------------------------------------
(* ProcessRequest, one operator per request type.                          *)

\* Data: as much as fits goes to the ring, the rest is lost.
OnData(w, data) ==
  [w EXCEPT !.ring = @ \o SubSeq(data, 1, Least(Len(data), RingCapacity - Len(@)))]

OnReset(w, arg) ==
  [w EXCEPT !.resetting = TRUE, !.session = arg, !.ring = << >>]

\* Open: an open port is closed first, which empties its ring; the ring of a
\* closed port is left alone.  A speed of zero leaves the port closed.
OnOpen(w, opensPort) ==
  [w EXCEPT !.ring = IF w.open THEN << >> ELSE @,
            !.session = 0,
            !.open = opensPort]

OnClose(w) ==
  [w EXCEPT !.ring = IF w.open THEN << >> ELSE @, !.open = FALSE]

ProcessRequest(w, request) ==
  CASE request.type = "Data"      -> OnData(w, request.data)
    [] request.type = "Reset"     -> OnReset(w, request.arg)
    [] request.type = "ResetOpen" -> OnOpen([w EXCEPT !.resetting = TRUE], request.data # << >>)
    [] request.type = "Open"      -> OnOpen(w, request.data # << >>)
    [] request.type = "Close"     -> OnClose(w)
    [] OTHER                      -> w
-----------------------------------------------------------------------------
(* The periodic work.                                                      *)

\* ResetComplete, once RESET_TIME_MS have passed, releases the reset line.
ReleaseReset(w) == [w EXCEPT !.resetting = FALSE]

\* ProcessRX writes to the UART only an open port whose device is running.
Writable(w) == w.open /\ ~ w.resetting

\* ProcessRX: room is what the UART accepts, never more than PORT_IO_SIZE.
WriteSize(w, room) == Least(Least(room, IOSize), Len(w.ring))

Written(w, room) == SubSeq(w.ring, 1, WriteSize(w, room))

ProcessRX(w, room) ==
  [w EXCEPT !.ring = SubSeq(@, WriteSize(w, room) + 1, Len(@))]

\* FillTXBuff: how much of what the device sends is read at once.
ReadSize(w, first) ==
  LET used == IF first THEN 0 ELSE Len(w.tx)
  IN  Least(IOSize, PayloadSize - used)

\* FillTXBuff: the first segment of a package starts it from empty.  The reset
\* of the count comes before the test that the port is open.
Collect(w, first, data) ==
  LET kept == IF first THEN << >> ELSE w.tx
  IN  [w EXCEPT !.tx = IF w.open THEN kept \o data ELSE kept]

\* IsHalfUsed: on a buffer that wraps around, UsedSize counts one byte more.
HalfUsed(w, wrapped) ==
  Len(w.ring) + (IF wrapped THEN 1 ELSE 0) > (RingCapacity + 1) \div 2

\* ProcessTX: what the response says of the port.
ProcessTX(w, wrapped) ==
  [data |-> w.tx, session |-> w.session, blocked |-> HalfUsed(w, wrapped)]
=============================================================================
