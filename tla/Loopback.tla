------------------------------ MODULE Loopback ------------------------------
(***************************************************************************)
(* The loopback test of the repository: the test utility sends a block     *)
(* through a port of the bridge to a board that echoes it                  *)
(* (LoopbackTestingFirmware), and compares what comes back                 *)
(* (TestUtil/LoopbackTester.cpp, TestWorker.cpp, Main.cpp).                *)
(*                                                                         *)
(* TX is the thread of TestWorker, RX that of LoopbackTester, main the one *)
(* that waits for a signal.  The bridge between socket and board is a line *)
(* that keeps order and may lose or alter a byte, as serial lines do.  One *)
(* port: the tests of several ports share nothing but falseVal, which      *)
(* matters to a second Dispose only.                                       *)
(***************************************************************************)
EXTENDS DataBuffer, FiniteSets

CONSTANTS BlockSize,    \* -tsz
          SocketSize,   \* bytes the socket takes while the bridge takes none
          SerialSize,   \* bytes a serial buffer of the board holds
          MaxSpoilt     \* bound: bytes lost or altered on the way

ASSUME LoopbackAssumption ==
  /\ {BlockSize, SocketSize, SerialSize} \subseteq Nat \ {0}
  /\ MaxSpoilt \in Nat /\ 0 \in Byte

VARIABLES
  source, test,         \* the block sent, and what came back
  main,                 \* where main() is
  told,                 \* threads whose shutdownPending is set
  started,              \* testStarted
  tx, dataToWrite,
  rx, readLeft, rxErrno,  \* rxErrno: the last call of RX that failed timed out
  failed,               \* validationFailed
  link,                 \* the connection as the threads meet it
  toDevice, serialIn, ring, storage, back,   \* bytes on their way
  spoilt,               \* bytes lost or altered so far
  interrupted           \* history: a signal ended the sending

testVars   == <<source, test, failed>>
mainVars   == <<main, told>>
deviceVars == <<serialIn, ring, storage>>
vars == <<testVars, mainVars, started, tx, dataToWrite, rx, readLeft, rxErrno,
          link, toDevice, deviceVars, back, spoilt, interrupted>>

Init ==
  /\ source \in [1 .. BlockSize -> Byte]
  /\ test = [i \in 1 .. BlockSize |-> 0] /\ failed = FALSE
  /\ main = "run" /\ told = {} /\ started = FALSE
  /\ tx = "loop" /\ dataToWrite = BlockSize
  /\ rx = "check" /\ readLeft = BlockSize /\ rxErrno \in {"timeout", "other"}
  /\ link = "open" /\ toDevice = <<>> /\ serialIn = <<>> /\ back = <<>>
  /\ ring = EmptyRing /\ storage = [i \in Index |-> NoByte]
  /\ spoilt = 0 /\ interrupted = FALSE

Least(a, b) == IF a < b THEN a ELSE b
-----------------------------------------------------------------------------
(* TestWorker::Worker and LoopbackTester::ProcessTX.                       *)

TXLeaves == UNCHANGED <<testVars, mainVars, readLeft, rxErrno, deviceVars, back,
                        spoilt>>

\* The condition of the loop; the first call of ProcessTX warms up.
TXLoop ==
  /\ tx = "loop"
  /\ tx' = CASE "TX" \in told -> "done"
             [] started       -> "send"
             [] OTHER         -> "warmup"
  /\ TXLeaves
  /\ UNCHANGED <<started, dataToWrite, rx, link, toDevice, interrupted>>

\* Faulty: nobody is told that the test has started.
StartTestQuietly ==
  /\ tx = "warmup" /\ tx' = "send" /\ started' = TRUE
  /\ TXLeaves
  /\ UNCHANGED <<dataToWrite, rx, link, toDevice, interrupted>>

StartTest ==
  /\ tx = "warmup" /\ tx' = "send" /\ started' = TRUE
  /\ rx' = IF rx = "asleep" THEN "check" ELSE rx
  /\ TXLeaves
  /\ UNCHANGED <<dataToWrite, link, toDevice, interrupted>>

\* send() takes what the socket has room for, or less.
Send ==
  /\ tx = "send" /\ link = "open" /\ Len(toDevice) < SocketSize
  /\ \E dw \in 1 .. Least(dataToWrite, SocketSize - Len(toDevice)) :
       LET at == BlockSize - dataToWrite
       IN  /\ toDevice' = toDevice \o SubSeq(source, at + 1, at + dw)
           /\ dataToWrite' = dataToWrite - dw
  /\ tx' = IF dataToWrite' > 0 THEN "loop" ELSE "done"
  /\ TXLeaves
  /\ UNCHANGED <<started, rx, link, interrupted>>

SendTimeout ==
  /\ tx = "send" /\ link = "open" /\ Len(toDevice) >= SocketSize
  /\ tx' = "loop"
  /\ TXLeaves
  /\ UNCHANGED <<started, dataToWrite, rx, link, toDevice, interrupted>>

\* EINTR ends the sending, whatever is left to send.
SendInterrupted ==
  /\ tx = "send" /\ link = "open"
  /\ tx' = "done" /\ interrupted' = TRUE
  /\ TXLeaves
  /\ UNCHANGED <<started, dataToWrite, rx, link, toDevice>>

SendBreaks ==
  /\ tx = "send" /\ link # "open"
  /\ tx' = "done" /\ link' = "disposed"
  /\ TXLeaves
  /\ UNCHANGED <<started, dataToWrite, rx, toDevice, interrupted>>

TX == \/ TXLoop \/ StartTest \/ Send \/ SendTimeout \/ SendInterrupted
      \/ SendBreaks
-----------------------------------------------------------------------------
(* LoopbackTester::Worker.                                                 *)

RXLeaves == UNCHANGED <<source, mainVars, started, tx, dataToWrite, toDevice,
                        deviceVars, spoilt, interrupted>>

\* The wait on startTrigger and its condition.
AwaitStart ==
  /\ rx = "check"
  /\ rx' = IF started \/ "RX" \in told THEN "first" ELSE "asleep"
  /\ RXLeaves /\ UNCHANGED <<test, failed, readLeft, rxErrno, link, back>>

WakeSpuriously ==
  /\ rx = "asleep" /\ rx' = "check"
  /\ RXLeaves /\ UNCHANGED <<test, failed, readLeft, rxErrno, link, back>>

\* Faulty: only the first loop looks at the flag.
StopReadingEarly ==
  /\ rx = "first" /\ "RX" \in told
  /\ rx' = "done"
  /\ failed' = (failed \/ (rx = "first" /\ test[1] # source[1]))
  /\ RXLeaves /\ UNCHANGED <<test, readLeft, rxErrno, link, back>>

\* The loops end when they find shutdownPending.  The first one has nothing
\* to validate then, and validates the byte that did not come.
StopReading ==
  /\ rx \in {"first", "rest"} /\ "RX" \in told
  /\ rx' = "done"
  /\ failed' = (failed \/ (rx = "first" /\ test[1] # source[1]))
  /\ RXLeaves /\ UNCHANGED <<test, readLeft, rxErrno, link, back>>

\* Faulty: the loop ends at len, wherever it began.
ValidateToLen(block, offset, len) ==
  \E pos \in offset + 1 .. len : block[pos] # source[pos]

\* Bytes offset + 1 .. offset + len differ.
Validate(block, offset, len) ==
  \E pos \in offset + 1 .. offset + len : block[pos] # source[pos]

\* The next n bytes that came back, stored and compared.
Take(n) ==
  LET at == BlockSize - readLeft
  IN  /\ test' = [i \in 1 .. BlockSize |->
                    IF i \in at + 1 .. at + n THEN back[i - at] ELSE test[i]]
      /\ failed' = (failed \/ Validate(test', at, n))
      /\ back' = SubSeq(back, n + 1, Len(back))
      /\ readLeft' = readLeft - n

Readable == link \in {"open", "closed"} /\ back # <<>>

ReadFirst ==
  /\ rx = "first" /\ "RX" \notin told /\ Readable
  /\ Take(1) /\ rx' = "rest"
  /\ RXLeaves /\ UNCHANGED <<rxErrno, link>>

ReadRest ==
  /\ rx = "rest" /\ "RX" \notin told /\ Readable /\ readLeft > 0
  /\ \E dr \in 1 .. Least(readLeft, Len(back)) : Take(dr)
  /\ rx' = IF readLeft' < 1 THEN "done" ELSE "rest"
  /\ RXLeaves /\ UNCHANGED <<rxErrno, link>>

Reading == rx \in {"first", "rest"} /\ "RX" \notin told

ReadTimeout ==
  /\ Reading /\ link = "open" /\ back = <<>> /\ readLeft > 0
  /\ rxErrno' = "timeout"
  /\ RXLeaves /\ UNCHANGED <<test, failed, rx, readLeft, link, back>>

\* recv() returns 0, at the end of the stream or because nothing is asked for,
\* and rxErrno is what it was.
ReadNothing ==
  /\ Reading
  /\ readLeft = 0 \/ (link = "closed" /\ back = <<>>)
  /\ IF rxErrno = "timeout" THEN UNCHANGED <<rx, link>>
                          ELSE rx' = "done" /\ link' = "disposed"
  /\ RXLeaves /\ UNCHANGED <<test, failed, readLeft, rxErrno, back>>

ReadFails ==
  /\ Reading /\ link \in {"broken", "disposed"}
  /\ rx' = "done" /\ link' = "disposed" /\ rxErrno' = "other"
  /\ RXLeaves /\ UNCHANGED <<test, failed, readLeft, back>>

RX == \/ AwaitStart \/ StopReading \/ ReadFirst \/ ReadRest \/ ReadTimeout
      \/ ReadNothing \/ ReadFails
-----------------------------------------------------------------------------
(* The end of main().                                                      *)

OthersGoOn == UNCHANGED <<testVars, started, tx, dataToWrite, rx, readLeft,
                          rxErrno, link, toDevice, deviceVars, back, spoilt,
                          interrupted>>

\* A signal ends the loop; the workers are told, first the one that sends.
RequestShutdown ==
  /\ \/ main = "run" /\ main' = "tell" /\ told' = {"TX"}
     \/ main = "tell" /\ main' = "joinTX" /\ told' = {"TX", "RX"}
  /\ OthersGoOn

Shutdown ==
  /\ \/ main = "joinTX" /\ tx = "done" /\ main' = "joinRX"
     \/ main = "joinRX" /\ rx = "done" /\ main' = "end"
  /\ OthersGoOn /\ UNCHANGED told
-----------------------------------------------------------------------------
(* The board and the way there and back.                                   *)

Elsewhere == UNCHANGED <<testVars, mainVars, started, tx, dataToWrite, rx,
                         readLeft, rxErrno, interrupted>>

\* A byte reaches the board.
Arrive ==
  /\ toDevice # <<>> /\ Len(serialIn) < SerialSize
  /\ serialIn' = Append(serialIn, Head(toDevice))
  /\ toDevice' = Tail(toDevice)
  /\ Elsewhere /\ UNCHANGED <<ring, storage, back, link, spoilt>>

Spoil ==
  /\ toDevice # <<>> /\ spoilt < MaxSpoilt
  /\ spoilt' = spoilt + 1
  /\ \/ toDevice' = Tail(toDevice)
     \/ \E b \in Byte \ {Head(toDevice)} :
          toDevice' = [toDevice EXCEPT ![1] = b]
  /\ Elsewhere /\ UNCHANGED <<deviceVars, back, link>>

\* The first half of the firmware's loop(): the ring buffer and its storage
\* after as much was read as is there and fits in one run.
Received ==
  LET handle == GetHead(ring)
      n      == Least(handle.maxSz, Len(serialIn))
  IN  IF n = 0 THEN [ring |-> ring, storage |-> storage, n |-> 0]
      ELSE [ring |-> Commit(ring, handle, n),
            storage |-> Fill(storage, handle, serialIn, n), n |-> n]

\* Faulty: the whole run is freed, not what there was room to write for.
EchoWholeRun(room) ==
  \E got \in {Received} :
  LET handle == GetTail(got.ring)
      n      == Least(handle.maxSz, room)
  IN  /\ serialIn' = SubSeq(serialIn, got.n + 1, Len(serialIn))
      /\ storage' = got.storage
      /\ ring' = IF n = 0 THEN got.ring
                 ELSE Commit(got.ring, handle, handle.maxSz)
      /\ back' = back \o [i \in 1 .. n |-> got.storage[handle.buffer + i - 1]]
      /\ Elsewhere /\ UNCHANGED <<toDevice, link, spoilt>>

\* One pass of loop(), with room for so many bytes in the serial output.
Echo(room) ==
  \E got \in {Received} :
  LET handle == GetTail(got.ring)
      n      == Least(handle.maxSz, room)
  IN  /\ serialIn' = SubSeq(serialIn, got.n + 1, Len(serialIn))
      /\ storage' = got.storage
      /\ ring' = IF n = 0 THEN got.ring
                 ELSE Commit(got.ring, handle, n)
      /\ back' = back \o [i \in 1 .. n |-> got.storage[handle.buffer + i - 1]]
      /\ Elsewhere /\ UNCHANGED <<toDevice, link, spoilt>>

\* The program that listens on the port ends, or the connection breaks.
PeerLeaves ==
  /\ link = "open" /\ link' \in {"closed", "broken"}
  /\ Elsewhere /\ UNCHANGED <<toDevice, deviceVars, back, spoilt>>

Board == \E room \in 0 .. SerialSize : Echo(room)

Next == \/ TX \/ RX \/ WakeSpuriously \/ RequestShutdown \/ Shutdown
        \/ Arrive \/ Spoil \/ Board \/ PeerLeaves

Spec == Init /\ [][Next]_vars

\* Threads run on, the board runs on and its serial line takes bytes.
FairSpec ==
  /\ Spec /\ WF_vars(TX) /\ WF_vars(RX)
  /\ WF_vars(Shutdown \/ (main = "tell" /\ RequestShutdown))
  /\ WF_vars(Arrive \/ Echo(SerialSize))
-----------------------------------------------------------------------------
TypeOK ==
  /\ main \in {"run", "tell", "joinTX", "joinRX", "end"}
  /\ told \subseteq {"TX", "RX"} /\ started \in BOOLEAN
  /\ tx \in {"loop", "warmup", "send", "done"}
  /\ rx \in {"check", "asleep", "first", "rest", "done"}
  /\ test \in [1 .. BlockSize -> Byte] /\ failed \in BOOLEAN
  /\ {dataToWrite, readLeft} \subseteq 0 .. BlockSize
  /\ tx = "send" => started /\ dataToWrite > 0
  /\ link \in {"open", "closed", "broken", "disposed"}
  /\ ring \in Rings /\ storage \in [Index -> Slots]
  /\ {toDevice, serialIn, back} \subseteq Seq(Byte)
  /\ Len(serialIn) <= SerialSize

\* What came back and what is still on its way are, in order, what was sent,
\* through send() in parts, the serial buffers and the ring's wrap, as long as
\* the line spoils nothing (LoopbackTester.cpp:53-67, main_loop.cpp:15-34).
EchoIsFaithful ==
  spoilt = 0 => SubSeq(test, 1, BlockSize - readLeft) \o back
              \o Held(ring, storage) \o serialIn \o toDevice
              = SubSeq(source, 1, BlockSize - dataToWrite)

\* A test that has read the whole block without an error shown has got the
\* block, whatever the line did to it and in whatever parts it came
\* (LoopbackTester.cpp:74-83, 130-148); and an error is shown only when
\* something was spoilt, or when the test was broken off before its first byte:
\* then one is shown for the byte that did not come (LoopbackTester.cpp:116-123).
VerdictIsRight ==
  /\ readLeft = 0 /\ ~failed => test = source
  /\ failed => spoilt > 0 \/ (rx = "done" /\ "RX" \in told)

\* A test that has started, on a line that spoils nothing, reads the whole
\* block, unless it is broken off from outside.
TestCompletes ==
  started ~> \/ readLeft = 0
             \/ spoilt > 0 \/ main # "run" \/ link # "open" \/ interrupted

\* After the test has started a signal ends the program, wherever the threads
\* are (Main.cpp:294-304).  Before, it may not: OnShutdown does not notify, and
\* a sender that has seen its flag starts no test.
SignalEndsTest == main # "run" /\ started ~> main = "end"
=============================================================================
