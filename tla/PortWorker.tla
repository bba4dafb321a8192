----------------------------- MODULE PortWorker -----------------------------
(***************************************************************************)
(* The threads that meet in one PortWorker of the client                   *)
(* (Client/Src/PortWorker.cpp), at the grain of their critical sections:   *)
(*                                                                         *)
(*   worker    Worker(), takes the ring buffer's data to the local client  *)
(*   receiver  ProcessRX, called by a transport; pushLock lets one in at a *)
(*             time (DataProcessor.cpp:65-75)                              *)
(*   timer     ProcessTX, here its read of the local client that fails     *)
(*   listener  OnPortOpen, brings a new local client                       *)
(*   main      OnShutdown, called by RequestShutdown and by Shutdown       *)
(*                                                                         *)
(* clientLock is never held across a step, so each of its sections is one  *)
(* step.  ringBuffLock is held across a step by the worker only, between   *)
(* its look at the buffer and its wait on ringBuffTrigger (pc = "sleepy"): *)
(* OnShutdown takes no lock and may come just there.                       *)
(*                                                                         *)
(* What ProcessRX and ProcessTX do to the session and to the account of    *)
(* unconfirmed data is in module Bridge; what Dispose does to a connection *)
(* is in module UDPTransport.                                              *)
(***************************************************************************)
EXTENDS DataBuffer

CONSTANTS MaxPayload,      \* the longest payload of a response
          ResetOnConnect,  \* option -rst
          MaxClients       \* bound: local clients that connect

ASSUME PortWorkerAssumption ==
  /\ MaxPayload \in Nat \ {0} /\ MaxClients \in Nat /\ ResetOnConnect \in BOOLEAN

NoClient == 0   \* client == nullptr
Shutdowns == 2  \* the calls of OnShutdown by the process (Main.cpp:358-370)

VARIABLES
  ring, storage,   \* rxRingBuff
  client,          \* the local client, a number, or NoClient
  clients,         \* how many have connected
  pc,              \* where the worker is
  tail,            \* its handle on the run it is working on
  currConn,        \* the local client it fetched
  szToWrite,       \* how much of the run it will free
  written,         \* the bytes write() took from the run
  freed,           \* history: the bytes its last commit freed
  rx,              \* the receiver: its place and its payload
  shutdownPending,
  shutdowns,       \* how often OnShutdown was called
  notifying,       \* OnShutdown has set the flag and not yet notified
  crashed          \* a null client was dereferenced: the process is gone

bufferVars   == <<ring, storage>>
clientVars   == <<client, clients>>
runVars      == <<tail, currConn, szToWrite, written>>
workerVars   == <<pc, runVars, freed>>
shutdownVars == <<shutdownPending, shutdowns, notifying>>
vars == <<bufferVars, clientVars, workerVars, rx, shutdownVars, crashed>>

Payload == UNION {[1 .. n -> Byte] : n \in 1 .. MaxPayload}

\* No run: the worker's locals are out of scope.
NoTail == [buffer |-> 0, maxSz |-> 0]

Idle == [at |-> "idle", data |-> << >>]

Init ==
  /\ ring = EmptyRing /\ storage = [i \in Index |-> NoByte]
  /\ client = NoClient /\ clients = 0
  /\ pc = "loop" /\ freed = << >>
  /\ tail = NoTail /\ currConn = NoClient /\ szToWrite = 0 /\ written = << >>
  /\ rx = Idle
  /\ shutdownPending = FALSE /\ shutdowns = 0 /\ notifying = FALSE /\ crashed = FALSE

\* ringBuffLock can be taken.
RingUnlocked == pc # "sleepy"

\* n bytes of the storage from a position on.
Region(position, n) == [i \in 1 .. n |-> storage[position + i - 1]]

\* ringBuffTrigger.notify_one(): the worker, if it sleeps, looks again.
Wake == pc' = IF pc = "waiting" THEN "look" ELSE pc
-----------------------------------------------------------------------------
(* Faulty variants, one plausible slip each.                               *)

\* The receiver does not signal the worker.
NotifyForgotten ==
  /\ rx.at = "notify"
  /\ rx' = Idle
  /\ UNCHANGED <<bufferVars, clientVars, workerVars, shutdownVars, crashed>>

\* OnShutdown leaves the worker asleep.
ShutdownUnnoticed ==
  /\ notifying
  /\ notifying' = FALSE
  /\ UNCHANGED <<bufferVars, clientVars, workerVars, rx, shutdownPending, shutdowns, crashed>>

\* A run handed to write() counts as written in full, wherever the write ends.
WriteShort(n) ==
  /\ pc = "write" /\ client # NoClient
  /\ n \in 0 .. tail.maxSz
  /\ szToWrite' = IF n + 1 > tail.maxSz THEN n ELSE n + 1
  /\ written' = Region(tail.buffer, n)
  /\ pc' = "commit"
  /\ UNCHANGED <<bufferVars, clientVars, tail, currConn, freed, rx, shutdownVars, crashed>>

\* The pointers are set back without a look at the option.
OpenAndAlwaysReset ==
  /\ clients < MaxClients
  /\ RingUnlocked
  /\ clients' = clients + 1
  /\ client' = clients + 1
  /\ ring' = EmptyRing
  /\ UNCHANGED <<storage, workerVars, rx, shutdownVars, crashed>>
-----------------------------------------------------------------------------
(* The worker.                                                             *)

\* while (!shutdownPending.load())
Loop ==
  /\ pc = "loop"
  /\ pc' = IF shutdownPending THEN "done" ELSE "look"
  /\ UNCHANGED <<bufferVars, clientVars, runVars, freed, rx, shutdownVars, crashed>>

\* With ringBuffLock: go to sleep on an empty buffer, else take the run at the
\* tail.  The empty run there is after a shutdown sends it round the loop.
Look ==
  /\ pc = "look"
  /\ IF UsedSize(ring) < 1 /\ ~ shutdownPending
       THEN pc' = "sleepy" /\ UNCHANGED tail
       ELSE IF GetTail(ring).maxSz < 1
              THEN pc' = "loop" /\ UNCHANGED tail
              ELSE pc' = "fetch" /\ tail' = GetTail(ring)
  /\ UNCHANGED <<bufferVars, clientVars, currConn, szToWrite, written, freed, rx, shutdownVars,
                 crashed>>

\* ringBuffTrigger.wait(lock) gives up the lock and sleeps.
Sleep ==
  /\ pc = "sleepy"
  /\ pc' = "waiting"
  /\ UNCHANGED <<bufferVars, clientVars, runVars, freed, rx, shutdownVars, crashed>>

\* A condition variable may wake without a notification.
WakeSpuriously ==
  /\ pc = "waiting"
  /\ pc' = "look"
  /\ UNCHANGED <<bufferVars, clientVars, runVars, freed, rx, shutdownVars, crashed>>

\* With clientLock.  Without a client the run is lost.
Fetch ==
  /\ pc = "fetch"
  /\ currConn' = client
  /\ szToWrite' = tail.maxSz
  /\ written' = << >>
  /\ pc' = IF client = NoClient THEN "commit" ELSE "poll"
  /\ UNCHANGED <<bufferVars, clientVars, tail, freed, rx, shutdownVars, crashed>>

\* poll() on the fetched client: it failed or the client hung up ("dispose"),
\* there is room ("write"), or the time is over and the run is lost ("commit").
Poll ==
  /\ pc = "poll"
  /\ pc' \in {"dispose", "write", "commit"}
  /\ UNCHANGED <<bufferVars, clientVars, runVars, freed, rx, shutdownVars, crashed>>

\* write(client->fd, ...) without clientLock and without ringBuffLock takes n bytes.
Write(n) ==
  /\ pc = "write" /\ client # NoClient
  /\ n \in 0 .. tail.maxSz
  /\ szToWrite' = n
  /\ written' = Region(tail.buffer, n)
  /\ pc' = "commit"
  /\ UNCHANGED <<bufferVars, clientVars, tail, currConn, freed, rx, shutdownVars, crashed>>

WriteFails ==
  /\ pc = "write" /\ client # NoClient
  /\ pc' = "dispose"
  /\ UNCHANGED <<bufferVars, clientVars, runVars, freed, rx, shutdownVars, crashed>>

\* client->Dispose(): the client there is now, which need not be the one polled.
DisposeClient ==
  /\ pc = "dispose" /\ client # NoClient
  /\ pc' = "commit"
  /\ UNCHANGED <<bufferVars, clientVars, runVars, freed, rx, shutdownVars, crashed>>

\* client->fd or client->Dispose() after the timer thread has cleared client.
UseNullClient ==
  /\ pc \in {"write", "dispose"} /\ client = NoClient
  /\ crashed' = TRUE
  /\ UNCHANGED <<bufferVars, clientVars, workerVars, rx, shutdownVars>>

\* With ringBuffLock: free what was written, or the whole run when it is lost.
CommitRun ==
  /\ pc = "commit"
  /\ ring' = Commit(ring, tail, szToWrite)
  /\ freed' = IF szToWrite = 0 THEN freed
              ELSE IF written # << >> THEN written
              ELSE Region(tail.buffer, szToWrite)
  /\ tail' = NoTail /\ currConn' = NoClient /\ szToWrite' = 0 /\ written' = << >>
  /\ pc' = "loop"
  /\ UNCHANGED <<storage, clientVars, rx, shutdownVars, crashed>>

Worker ==
  \/ Loop \/ Look \/ Sleep \/ Fetch \/ Poll
  \/ \E n \in 0 .. Size : Write(n)
  \/ WriteFails \/ DisposeClient \/ UseNullClient \/ CommitRun
-----------------------------------------------------------------------------
(* The receiver.                                                           *)

\* With clientLock: a response with data that belongs to the session of a
\* client that is there goes on; every other one leaves the buffer alone.
CheckResponse(data) ==
  /\ rx.at = "idle" /\ client # NoClient
  /\ rx' = [at |-> "write", data |-> data]
  /\ UNCHANGED <<bufferVars, clientVars, workerVars, shutdownVars, crashed>>

\* With ringBuffLock, clientLock given up: the copy loop.
WriteRing ==
  /\ rx.at = "write" /\ RingUnlocked
  /\ LET after == CopyLoop([ring |-> ring, storage |-> storage, data |-> rx.data])
     IN  ring' = after.ring /\ storage' = after.storage
  /\ rx' = [at |-> "notify", data |-> << >>]
  /\ UNCHANGED <<clientVars, workerVars, shutdownVars, crashed>>

Notify ==
  /\ rx.at = "notify"
  /\ rx' = Idle
  /\ Wake
  /\ UNCHANGED <<bufferVars, clientVars, runVars, freed, shutdownVars, crashed>>
-----------------------------------------------------------------------------
(* The timer, the listener and the main thread.                            *)

\* ProcessTX, with clientLock: read() of the local client fails or ends.
HangUp ==
  /\ client # NoClient
  /\ client' = NoClient
  /\ UNCHANGED <<bufferVars, clients, workerVars, rx, shutdownVars, crashed>>

\* OnPortOpen, with clientLock and then ringBuffLock as well.
OnPortOpen ==
  /\ clients < MaxClients
  /\ ResetOnConnect => RingUnlocked
  /\ clients' = clients + 1
  /\ client' = clients + 1
  /\ ring' = IF ResetOnConnect THEN EmptyRing ELSE ring
  /\ UNCHANGED <<storage, workerVars, rx, shutdownVars, crashed>>

\* OnShutdown, in its two steps.
RequestShutdown ==
  /\ ~ notifying /\ shutdowns < Shutdowns
  /\ shutdowns' = shutdowns + 1
  /\ shutdownPending' = TRUE /\ notifying' = TRUE
  /\ UNCHANGED <<bufferVars, clientVars, workerVars, rx, crashed>>

NotifyShutdown ==
  /\ notifying
  /\ notifying' = FALSE
  /\ Wake
  /\ UNCHANGED <<bufferVars, clientVars, runVars, freed, rx, shutdownPending, shutdowns,
                 crashed>>
-----------------------------------------------------------------------------
Receiver ==
  \/ \E data \in Payload : CheckResponse(data)
  \/ WriteRing \/ Notify

Next ==
  /\ ~ crashed
  /\ \/ Worker \/ WakeSpuriously \/ Receiver
     \/ HangUp \/ OnPortOpen \/ RequestShutdown \/ NotifyShutdown

Spec == Init /\ [][Next]_vars

\* What WriteRing and Notify do to the receiver.
ReceiverGoesOn ==
  \/ rx.at = "write" /\ RingUnlocked /\ rx' = [at |-> "notify", data |-> << >>]
  \/ rx.at = "notify" /\ rx' = Idle

\* A thread that can go on does: the worker, a receiver that has a response,
\* and the main thread once it has called OnShutdown.  Nothing makes data come,
\* a client connect, or a condition variable wake by itself.
Fairness ==
  /\ WF_vars(~ crashed /\ Worker)
  /\ WF_rx(~ crashed /\ ReceiverGoesOn)
  /\ WF_vars(~ crashed /\ NotifyShutdown)

FairSpec == Spec /\ Fairness
-----------------------------------------------------------------------------
(* Properties.                                                             *)

HoldsRun == pc \in {"fetch", "poll", "write", "dispose", "commit"}

TypeOK ==
  /\ ring \in Rings /\ storage \in [Index -> Slots]
  /\ clients \in 0 .. MaxClients /\ client \in {NoClient, clients}
  /\ pc \in {"loop", "look", "sleepy", "waiting", "fetch", "poll", "write", "dispose",
             "commit", "done"}
  /\ tail \in [buffer : Index, maxSz : 0 .. Capacity]
  /\ tail.buffer + tail.maxSz <= Size
  /\ currConn \in 0 .. clients
  /\ szToWrite \in 0 .. Capacity
  /\ pc \in {"poll", "write", "dispose", "commit"} => szToWrite <= tail.maxSz
  /\ written \in Seq(Slots) /\ freed \in Seq(Slots)
  /\ rx \in [at : {"idle", "write", "notify"}, data : Payload \cup {<< >>}]
  /\ rx.at = "write" <=> rx.data # << >>
  /\ shutdownPending \in BOOLEAN /\ shutdowns \in 0 .. Shutdowns /\ notifying \in BOOLEAN
  /\ crashed \in BOOLEAN

\* The run the worker took from under the lock is still the oldest data of the
\* buffer when it comes back to free it, although it gave up the lock to poll
\* and write (PortWorker.cpp:179-233).
RunStaysPut ==
  HoldsRun => tail.buffer = ring.tail /\ tail.maxSz <= Stored(ring)

Queue == INSTANCE ByteQueue WITH queue <- Held(ring, storage), taken <- freed,
                                 Capacity <- Capacity

\* The buffer is a queue between the receiver and the worker even though the
\* worker reads the storage without the lock while the receiver goes on
\* writing: what write() took is what the commit frees, the oldest bytes.
IsAQueue == Queue!Spec

\* Data in the buffer is taken up: the worker does not sleep over it, whatever
\* the moment at which it came (PortWorker.cpp:152-183).
DataIsPickedUp ==
  Stored(ring) > 0 ~> (pc = "commit" \/ pc = "done" \/ crashed)

\* "client operations must be interlocked" (PortWorker.cpp:86, 131): no thread
\* clears the client another thread is using.
ClientIsInterlocked == ~ crashed

\* OnShutdown "must be threadsafe and notify Worker to stop" (WorkerBase.h:16):
\* a worker that sleeps when OnShutdown is called ends, so that Shutdown, which
\* joins it, returns.  (Of a worker that is about to sleep this is false: no lock
\* keeps both calls of OnShutdown from coming while pc = "sleepy".)
ShutdownWakes == (notifying /\ pc = "waiting") ~> (pc = "done" \/ crashed)
=============================================================================
