# Arduino UART Ethernet bridge: specifications and proofs

The repository connects the UARTs of a microcontroller to a host over Ethernet.
The firmware (`src/Firmware/UARTEthernetBridge`) moves bytes between its UARTs
and packages; the client (`src/Client/Src`) offers every UART as a local TCP
port or a pseudo-terminal. This directory holds TLA+ modules of both programs,
the TLC configurations that check them on small instances, and theorems about
them that TLAPS proves for every value of the constants.

    tlc -config MCUdpUplink.cfg MCUdpUplink       # check one run
    tlapm RingBufferProofs.tla                    # check the proofs of a module

## 1. The system

### Components, state, operations

| Component | Source | State | Operations |
|---|---|---|---|
| Ring buffer | `DataBuffer.cpp`, `databuffer.cpp` | `head`, `tail`, storage | `GetHead`, `GetTail`, `Commit`, `UsedSize`, `IsHalfUsed`, `Reset` |
| PortWorker (client, one per port) | `PortWorker.cpp` | local client, session id, pending open and reset, ring buffer, tracker, shutdown flag | `ProcessTX` (timer thread), `ProcessRX` (receiver threads), `Worker` (own thread), `OnPortOpen` (listener thread), `OnConnected`, `OnShutdown` |
| RemoteBufferTracker | `RemoteBufferTracker.cpp` | unconfirmed packages, blocked flag | `AddPackage`, `ConfirmPackage`, `GetAvailSpace`, `Reset` |
| DataProcessor, Timer | `DataProcessor.cpp`, `Timer.cpp` | package buffer, event counter | a timer event asks every port for a request and sends one package; a response is given to every port |
| TCP transport | `TCPTransport.cpp`, `TCPConnection.cpp` | connection, next UDP port | connect and announce, receive, send, shut down |
| UDP transport | `UDPTransport.cpp`, `UDPConnection.cpp` | connection, its sequence numbers, port, a static `falseVal` | connect, receive, send, move to the port announced, shut down |
| Listeners | `TCPListener.cpp`, `PTYListener.cpp` | listening socket; inotify open count | bring local clients |
| MessageBroker | `MessageBroker.cpp` | subscribers; in the debug build, per thread, the senders whose calls it is in | calls every subscriber in the sender's thread |
| Life cycle | `WorkerBase.cpp`, `ShutdownHandler.cpp`, `Main.cpp` | threads, flags | start up, wait for a signal, request shutdown, join |
| Firmware loop | `main_loop.cpp` | client event, poll interval, segment counter, header for responses | `setup()`, the link check, one pass of `loop()` |
| Firmware servers | `tcpserver.cpp`, `udpserver.cpp` | client, alarm, sequence numbers, the client's UDP port | `ProcessRX`, `ProcessTX` |
| UART port (firmware) | `uartworker.cpp`, `resethelper.cpp` | mode, session id, ring buffer, bytes collected, reset line | `ProcessRequest`, `ProcessRX`, `FillTXBuff`, `ProcessTX` |
| Firmware timers | `alarmtimer.cpp`, `intervaltimer.cpp`, `watchdog_AVR.cpp` | clock values; the boot signature | set, update, trigger; ask for a restart |
| Loopback test | `LoopbackTestingFirmware`, `TestUtil` | ring buffer; block sent, block received, flags of two threads | echo; `ProcessTX`, `Worker`, `OnShutdown` |

### How they interact

The client is a set of threads that call each other through MessageBroker,
which is a plain call in the sender's thread. Per port there is a worker and a
listener; the timer thread, the TCP receiver and the UDP receiver are shared.
A round starts with the timer: every port's `ProcessTX` yields a request
(Open once, Reset after a new local client if `-rst` is given, Data within what
the tracker allows, else nothing), the package with the event counter in its
header goes to one transport. The firmware handles the request of every port,
keeps the header, and at its own poll interval sends what the UARTs have
brought, stamped with the header kept, the port's session and a half-full flag.
On the client the response confirms data, and its bytes go into the ring buffer
if it belongs to the current session.

Open, Close and Reset always go over TCP; all else does so only when UDP is
off. A new TCP connection makes the UDP side start anew on another port, with
sequence numbers from the beginning.

### What is hard

* several threads work on one port with two locks that are given up in between
  (`PortWorker.cpp`): stale handles, a stale client, a lost wakeup;
* connections are replaced while other threads use them (`UDPTransport.cpp`);
* datagrams are lost, duplicated, reordered, and their numbers wrap;
* flow control rests on cumulative confirmations and a flag that travels back;
* responses of an old session meet a new client; TCP connections are remade in
  the middle of everything;
* the two sides start their sequence numbers anew at different times;
* off-by-one cases of the ring buffer, the session id, counters and intervals.

`PROJECT.json` lists each of these hazards with its line and the properties
that cover it, or why none does.

### What makes each component correct

| Component | Correct when |
|---|---|
| Ring buffer | it is a bounded first-in first-out queue wherever its pointers are; fullness is never reported late |
| PortWorker's threads | the run being written stays the oldest data, data is never slept over, the client is used only while it is there, a shutdown ends |
| Sessions and flow control | a device gets what the client that reset it wrote, from the start, in order, without loss; a client gets nothing older than its reset but one package that was in the receiver's hands; a byte counts as confirmed only when the firmware has it |
| UDP numbering | exactly the newer packages are accepted, so delivery is in order and at most once; intact packages are refused only within bounds |
| Packages and checksum | what the firmware reads is what the client wrote, or nothing; the interval it polls at is the one it was given |
| UDP transport | one socket at most is open, broken ones are replaced, a shutdown ends the worker |
| TCP transport | a package is put together from two connections only when one is closed under the worker's `recv` and the next has its number, one socket at most is open, a connection that was lost is replaced |
| Listeners | a local client is announced once |
| MessageBroker | threads never wait for each other in a circle; the debug build delivers what the release build does |
| Firmware servers | a request is one package, an answer uses nothing learnt of a client that left, a client that waits is accepted |
| Firmware boots | devices are reset unless the firmware itself asked for the restart; a lost link restarts it |
| Loopback test | a board that echoes faithfully passes, a block that came back wrong fails, and the test ends |
| Life cycle | the process ends when it is told to or when something failed, only then, and leaves nothing behind |

## 2. The modules

| Module | Models | State and actions against the code |
|---|---|---|
| `DataBuffer` | both copies of class DataBuffer as operators on a record `[head, tail]`, and the copy loop of their users | one operator per method; a handle is `[buffer, maxSz]`; `end` is index `Size`. `CopyLoop` is the loop unrolled to two passes, the most it can take (`EveryPayloadFits`) |
| `ByteQueue` | what a ring buffer promises (abstract) | `Offer`, `Take`, `Discard` |
| `RingBuffer` | a buffer with its storage under one thread or lock | `Write` is the copy loop, `Drain` the run handed to a device and committed, `Reset` |
| `PortWorker` | the threads of one PortWorker around its ring buffer | `pc` is the worker's place in `Worker()`, one step per critical section or system call; `CheckResponse`, `WriteRing`, `Notify` are `ProcessRX`; `HangUp` the failing read in `ProcessTX`; `RequestShutdown`, `NotifyShutdown` the two lines of `OnShutdown` |
| `RemoteBufferTracker` | class RemoteBufferTracker as operators | one per method |
| `UartWorker` | class UARTWorker with its ResetHelper as operators on a record | one per request type and per method; its ring is a sequence, which `RingBuffer` justifies |
| `Bridge` | one port end to end: client, network, firmware | composes `RemoteBufferTracker` and `UartWorker`; `CheckResponse` and `StoreResponse` are `ProcessRX` under its two locks, with the data in hand (`accepted`) between them; the names of the actions are those of the methods or say what `ProcessTX` decided (`PrepareOpen`, `PrepareData`, ...) |
| `LossyChannel` | what numbered datagrams promise (abstract) | `Send`, `Lose`, `Deliver` |
| `SequenceNumbers` | the numbers of UDP packages | `Increment`, and `Minus`, the subtraction of `uint16_t` |
| `UdpSequence` | the numbers of one direction | `Send`, `Receive` with the code's 16-bit comparison, `Lose`; duplication is `Receive` with the package left in flight |
| `Package` | the control block of a request package, byte by byte, and its CRC8, as operators | `Meta` and `Sealed` write it (`OnPollEvent`, `OnSendPackage`), `Intact`, `Sequence`, `MapRequest`, `Read` read it; `Damaged` is what a network may make of it |
| `UdpUplink` | from the client's sender over UDP into the firmware's ring buffer | extends `RingBuffer`, `Package` and `SequenceNumbers`; `ReceivePackage` is `UDPServer::ProcessRX` and `ProcessRequest` on every block the checksum lets through, `ReceiveDamaged` one that it drops, `Renew` a new `UDPConnection`, `NewSession` a new TCP connection, `Uart` the drain and reset of the port |
| `UDPTransport` | the four threads that share the UDP connection, to the end | `at[t]` is where a thread is, `lock` who holds `remoteConnLock`; `GetConnection`, `Create`, `CreateFails`, `Use`, `Fail`, `OnConnected`, `OnShutdown`, `LastDispose` after the worker's loop; `Dispose` in two steps, as `compare_exchange_strong` with a shared expected value has |
| `TCPTransport` | the threads that share the TCP connection, packages cut into parts | `at[t]` is where a thread is; `Receiving` is the worker in `recv`, `Receive`, `ReceiveTimeout`, `ReceiveEnd`, `ReceiveFails` what it returns; `SendParts` and `SendFails` the timer's loop over `send`; `OnShutdown` and `DisposeAtShutdown` main's; `errno` is the worker's. `number` and `socket` are descriptor numbers, which the kernel gives out again (`FreeNumbers`) |
| `Lifecycle` | the client process: signal mask, start-up, signal loop, shutdown, failures of its threads, symbolic links | `main` is the place in `main()`, `left` the workers still to do in one of its loops; `thread[w]` how far the thread of a worker has come; `report[t]` the two steps of `ShutdownHandler::OnMessage`; `started` and `shutdownPending` the fields of these names |
| `FirmwareServers` | setup and `loop()` up to the ports, with both servers, the network around them and the clock | `at` is the place in the firmware, a step is `setup()`, one `ProcessRX` or the rest of the pass; each return of `ProcessRX` is an action. The parts of `rxBuff` are named by the package they belong to; `age` is the alarm; `sig` the boot signature in memory that outlives a reset. `host` and `announced` are a client's address and the server port it announces, `from` of a datagram the client and which of its sockets it came from |
| `MessageFlow` | `SendMessage` with its recursion guard and everything that runs under it, for all threads of the client | `todo[t]` is the stack of a thread: the steps still to do, of kinds call, lock, unlock, send, sent, stop, join, return. `CallFunction` replaces a call by one of the `Ways` through the function, which differ in the mutexes taken, the messages sent and the functions called; a mutex stands on the stack together with what is done under it, as in the scope of a guard; `Handle` is the calls of a message's subscribers. Data is left out |
| `Loopback` | the test utility's threads, the board's `loop()`, the line between | `tx`, `rx`, `main` are the places of the threads, one step per call of `send` and `recv`; `Received` and `Echo` are the two halves of `loop()` |
| `BridgeInvariants` | the inductive invariants of `BridgeProofs` and `BridgeFlowProofs`, apart from their proofs | section 5 |
| `RingBufferProofs`, `PortWorkerProofs`, `UDPProofs`, `TCPProofs`, `BridgeProofs`, `BridgeFlowProofs`, `FirmwareServersProofs`, `ClientThreadsProofs` | theorems | section 5 |

Modules `MC...` are the instances TLC runs. Operators that a comment calls
faulty (`AcceptsUnwrapped`, `WriteShort`, ...) are not part of the model:
each is a plausible slip in one definition, and `PROJECT.json` ("mutants") says
which property notices it.

### Abstractions worth knowing

* Payloads are sequences of model values; names and logging are left out. But in
  `Package` and `UdpUplink` a package that fails its check counts as lost.
* `Package` has the control block only: of the payloads, which no checksum
  covers, `UdpUplink` has the bytes of the first port as model values. `LetThrough`
  is computed from all blocks that differ from a sealed one in one byte.
* `UdpUplink` chooses what a package carries when it arrives: nothing on the way
  looks at it. Reordering and duplicates are left to `UdpSequence`.
* `Bridge` has one port. Of the others it has what changes the way of a package:
  their reset takes it to TCP (`otherReset` in `Pack`). Their Open is left out; it
  would put the interval into the header, as the port's own does.
* `Bridge` keeps the client's bytes as they are accepted for the local client
  (`got`); what the ring buffer and the worker do with them is `PortWorker`.
* In `Bridge` a TCP connection carries whole packages in order until it is
  dropped by either side; what comes of a connection that is closed while half a
  package is received is `TCPTransport`. The way of a response from `recv` to the
  lock of the client counts as part of the network; UDP carries a subsequence, which is what
  `UdpSequence` shows of the numbers.
* `TCPTransport` has one checksum for all packages: it refuses what is not one
  package, or lets it pass, since it covers the control block alone.
* In `FirmwareServers` the buffer forgets its content with the end of a pass, unless
  a package is half read: only then is it read again before it is written.
* `FirmwareServers` has packages of `PkgSz` parts; the ports are what `asked`,
  `devicesReset` and `event` say of them, the rest is `Bridge`.
* `MessageFlow` takes steps that touch nothing shared (calling, sending, coming
  back from it, unlocking) at once, before a thread waits or another one moves; the comment on
  `AllAtRest` says why that loses no circle. Subscribers are called in a fixed
  order; in the code they are in a `std::set` of pointers.
* `Loopback` has one port and no options; `TX` and `RX` share nothing with the
  threads of another port but `falseVal`.
* `refused` of `UdpUplink` counts packages of one UDP connection. Those of several
  under way may be refused one after another, and of all of them together more
  than the bound in `DeafnessIsBounded`.
* `heard`, `refused`, `lost`, `steady`, `misread` of `UdpUplink`, `otherResets` of `Bridge`,
  `cut` of `TCPTransport`, `got`, `stray`, `out`, `gen`, `overrun`, `freed`, `sent`, `newest`, `closes` of the
  modules around the link and the ports, `told` and `failed` of `Lifecycle`,
  `asked` and `mixed` of `FirmwareServers`, `dropped` of `MessageFlow`,
  `spoilt` and `interrupted` of `Loopback` are history or bounds: no guard of the
  code depends on them. (`failed` of `Lifecycle` also keeps a thread that goes on
  from reporting for ever.)

## 3. The runs

All but the last find no error. That one shows that a statement made in the
repository does not hold; section 4 says what happens.

| Run | Checks | Shows | States |
|---|---|---|---|
| `MCUdpUplink` | `BackPressureIsNeverLate`, `NothingIsMisread`, `DeafnessIsBounded`, `IsAQueue` | no damage to a byte of the control block makes one package look like another; intact packages are refused within bounds although the two sides start their numbers anew at different times; the ring buffer is a bounded queue at every position of head and tail, and its answers about fullness are safe | 230 k |
| `MCPortWorker` | `RunStaysPut`, `IsAQueue`, `DataIsPickedUp`, `ShutdownWakes` | without `-rst`, writing to the client without the lock is harmless, and the worker sleeps neither over data nor over a shutdown that finds it asleep | 380 k |
| `MCUdpSequence` | `FilterIsExact`, `DeliversInOrder` | datagrams are delivered in order and once across the wrap | 6 k |
| `MCUDPTransport` | `NoSocketLeaks`, `BrokenIsDisposed`, `ShutdownCompletes` | no socket is left open but the one in use, a broken connection is replaced although a Dispose may be spent on `falseVal`, and a shutdown ends the worker wherever it is | 86 k |
| `MCTCPTransport` | `PackagesStayWhole`, `NoSocketLeaks`, `EndIsNoticed`, `ShutdownCompletes` | timer, worker and main dispose of the connection under each other, with numbers that come again at once: no socket is left open but the one in use, and what the worker puts together is of one package unless a connection was closed under its `recv`; a connection that the firmware gave up, or whose number another thread closed, is replaced as long as packages are sent; a shutdown ends the worker | 600 k |
| `MCBridgeFlow` | `DeviceGetsItsClient`, `NoRemoteOverrun`, `ConfirmedIsHandled`, `ClientGetsARun`, `IntervalIsMeant` | over one TCP connection with a safe limit, a device gets exactly what its client wrote and a client what its device sent without gaps, after one stray package of the session before at most; the firmware polls at the interval it was given | 3.1 M |
| `MCBridgeReconnect` | `SessionFence`, `DeviceInOrder`, `NothingOlderThanReset` | lost and remade TCP connections, clients that replace each other and another port that takes packages to TCP repeat nothing; order is kept but where such a package passes others; of the time before its reset a client gets no more than the one package that was in the receiver's hands | 2.4 M |
| `MCLifecycle` | `EndsForCause`, `NothingLeftBehind`, `ProcessEnds` | wherever signals and failures come in start-up, loop and shutdown, the process ends, only then, and in good order | 490 k |
| `MCFirmwareServers` | `RequestsAreWhole`, `AnswersAreForTheClient`, `DevicesKeepRunning`, `WaitingIsServed`, `LinkLossReboots` | packages in parts, clients that stall, datagrams of other clients and old ones, pulled cables and resets do not mix requests, no answer uses what was learnt of a client that left, and nobody is locked out | 430 k |
| `MCMessageFlow` | `FlowTypeOK`, `NoCircularWait`, `GuardIsExact` | the mutexes nested across handlers close no circle, nor do the joins of the shutdown; the recursion guard drops nothing | 1.7 M |
| `MCLoopback` | `EchoIsFaithful`, `VerdictIsRight`, `TestCompletes`, `SignalEndsTest` | the verdict of the loopback test can be trusted both ways, and a signal ends it | 180 k |
| `MCBridgeMatchingBuffer` | `NoRemoteOverrun` (violated) | a limit equal to the size of the buffer overflows it | |

`TypeOK` of `RingBuffer`, `PortWorker`, `Bridge`, `FirmwareServers`, `Lifecycle` and
`Loopback`, `TCPTypeOK`, `UDPTypeOK` and `NumberingTypeOK` of the transports and the
sequence numbers, and `EveryPayloadFits` and `HandlesTellTheTruth` of `RingBuffer`, are in no run
because they are proved (section 5). `FlowTypeOK` is in one because it says more: a
mutex is held by the thread that has still to release it.

### Bounds, and why they are enough

* `MCUdpUplink`: a ring of three slots, payloads of up to three bytes, two byte
  values. Head and tail take all nine positions; the payloads range from nothing
  to one byte more than ever fits. Byte values are interchangeable, hence the
  symmetry. The control block is that of two ports, with every byte of its header,
  a counter whose four bytes differ, and every damage to one byte. Numbers go up
  to 5 (`Half = 3`), two packages are under way, which may be of different UDP
  connections, and at most one is lost in a row, so that the numbers come round
  several times within the bound `MaxLost + 2 <= Half` that loss has to keep; the UDP
  connection is replaced twice per TCP connection, at any number of either side.
  The theorems of section 5 hold for every size.
* `MCPortWorker`: three slots, two byte values, payloads of two, two clients: the
  receiver can fill the buffer and wrap around while the worker holds a run.
  Liveness is checked in the same run, so no symmetry is used.
* `MCUdpSequence`: numbers of three bits (`Half = 4`) and 18 packages, so the
  numbers wrap twice, in the direction to the firmware (`TxStart` the last
  number, `RxStart` 0). The theorems cover every width and every start, hence
  the other direction too. The network keeps a package for at most `Half`
  further sendings, and at most that many are lost in a row; the code's numbers
  have 16 bits, minutes at the default poll interval.
* `MCUDPTransport`: three ports announced, four connections made; worker and
  timer can fail on one connection while it is replaced, and again on the next,
  with both calls of `OnShutdown` at any place.
* `MCTCPTransport`: two connections, packages of two parts (the smallest that can
  be cut), one package of the firmware on each, and one call of `OnShutdown`, at any
  place. Any free number may be given out, which covers the lowest one. A third
  connection would replace the second after a thread with the object of the first has
  closed the number of both; `EndIsNoticed` has that case up to the Dispose of the
  second, and the theorems about both invariants hold for any number of them.
* `MCBridge...`: `MaxTicks` timer events (4 to 6), two local clients with up to
  four bytes each, a device that emits one or two, a ring of three bytes, up to
  two connections, one response of a kind on the way. In `MCBridgeFlow` the
  limit is `(RingCapacity + 1) \div 2 - 1 = 1`: just below half the buffer, the
  largest for which nothing overflows, since what the limit allows may be sent
  before the half-full flag comes back. `SessionLimit` is 2, so session ids come
  round as soon as they can without meeting themselves. `MCBridgeReconnect`
  chooses between TCP and UDP for data in the initial state, and lets another
  port take one package to TCP. In `MCBridgeFlow` a response collects two
  segments, as the firmware does by default, with a payload of as many times
  `IOSize`. `MaxFlight` bounds the responses under way; it stands for a poll
  interval not much shorter than the way.
* `MCLifecycle`: a port, both transports, the timer and one terminal; a TCP
  listener does what a terminal does but for the link. One `SIGUSR2` from
  elsewhere, any number of other signals, and each thread that survives its
  failures reports one, since a second report finds the flag set. A link of an
  earlier run may be there at the start.
* `MCFirmwareServers`: packages of two parts, so that one can stop half way; two
  connections, made by one client program after another, by two that run on one
  host, or by two on different hosts; three packages, by TCP or as datagrams, by the
  client accepted or the one that waits; two UDP sockets of each, one package given
  up, and one fault, which is a pulled cable or a pressed reset button. Three packages
  are the request that names the port, a datagram, and one more of either. A tick is
  longer than the alarm takes (`AlarmDelay = 0`): it makes no difference how many of
  them it takes, as each may come at any time.
* `MCMessageFlow`: one port with its listener, both transports, timer, main; data
  over UDP, which takes the most mutexes. Every thread may start round after
  round, so nothing bounds the nesting but the code. Start-up is left out:
  messages there are sent before other threads hold anything (`Lifecycle`).
* `MCLoopback`: a block of three bytes, longer than the ring of the board holds,
  so that it wraps and comes back in parts; sockets and serial buffers of two;
  all blocks of two byte values; one byte lost or altered.
* `WarmSpec` (used for flow control) starts when the firmware is reachable: the
  first connection is made before the first timer event. Without it the first
  header may be a counter above those in use and confirm later packages; this
  is the same confusion of header and interval as in section 4, last paragraph.
* Deadlock is not checked where the bounds (events, bytes, clients,
  connections) make the model stop, or where a process has ended by a shutdown
  or a crash. `MCUdpUplink` checks it.

### Fairness

* `PortWorker!FairSpec`: weak fairness of the worker, of a receiver that has a
  response in hand, and of the main thread between the two lines of
  `OnShutdown`: running threads run on. Nothing makes data come or a client
  connect, and a condition variable need not wake spuriously.
* `UDPTransport!FairSpec`: weak fairness of the worker, the timer, main and of a
  thread inside `OnConnected`; strong fairness of the worker where it waits for
  the lock, in `GetConnection` and before its last Dispose, since the others give
  the lock up and do not take it again at once. The timer goes on sending until
  it ends; the second `OnShutdown` comes when it has. Nothing makes a TCP
  connection or begins a shutdown.
* `TCPFairSpec` of `TCPTransport`: weak fairness of the worker, the timer and main, and
  strong fairness of the worker's `GetConnection`, since the thread that gives
  up the lock does not come back for it at once. Unless data goes over UDP the
  timer sends for ever.
* `Lifecycle!FairSpec`: weak fairness of main, and of the other threads taken
  together; what they do is bounded, so none of them is passed over for ever.
  That a worker sees its flag while it runs is assumed here: it is
  `ShutdownCompletes` of `TCPTransport` and `ShutdownWakes` of `PortWorker`.

* `FirmwareServers!FairSpec`: the processor runs on, and time passes (strong
  fairness of `Tick`, which the bound on `age` disables now and then). Nothing
  makes a client send or close, and nothing mends a cable.
* `Loopback!FairSpec`: the two threads and the board run on, the serial line takes
  bytes, and main runs on once the signal has come. Nothing makes it come.

## 4. Where the code and its texts part

`MCBridgeMatchingBuffer`, `RemoteBufferTracker.cpp:36`: "-rbs ... should match
to prevent data loss" (`Main.cpp:64`). The client may send as many unconfirmed bytes
as the limit says, but a ring of that size holds one byte less: Open and two
packages of two bytes, with no answer yet and nothing taken by the UART, overflow a
ring of size 4, and the last byte is dropped (`uartworker.cpp:30`). Down to half the
size the reason is another: what is confirmed leaves the account although it is
still in the ring, up to half of which may be full without the flag being set, and
as much as the limit allows is sent again. With limits of 3 and 2 the same run still
fails; with 1 it does not, and section 5 proves that for every size such a limit is
safe.

The modules show some more that is worth knowing; the first five are had by
asking a run for the property named, the first and the third with a constant changed.

* `PortWorker.cpp:232`, `MCPortWorker` with `ResetOnConnect = TRUE`, `RunStaysPut`
  fails: the worker holds a handle on the buffer while it writes without the
  lock. With `-rst1` a new client resets the buffer in that time and the commit
  moves a pointer of the empty buffer; "free data that was read from ringBuffer"
  (line 229) is then not what happens.
* `PortWorker.cpp:203-218`, `MCPortWorker`, `ClientIsInterlocked` fails: "client
  operations must be interlocked" (lines 86 and 131), but the worker uses
  `client` without the lock after `ProcessTX` may have cleared it, or `OnPortOpen`
  put another one in its place, which is then disposed of for the failure of the
  first.
* `TCPTransport.cpp:185`, `MCTCPTransport` with `UseUDP = TRUE`, `EndIsNoticed`
  fails: when `recv` returns 0, `errno` is what an earlier call left. After a
  receive that timed out it says so still, and the end of the connection is taken
  for another timeout. The worker calls `recv` without a pause until a send fails;
  in UDP mode only Open and Reset are sent over TCP, and Open once in the life of
  the process.
* `TCPTransport.cpp:181`, `MCTCPTransport`, `ChecksumsMatch` fails: "Package CRC
  mismatch! This should not happen normally, check your configuration!" (line 201).
  The worker has received half of a package when the timer's `send` finds no room
  within the service interval and disposes of the connection. The next one is given
  the same descriptor number; the worker's `recv`, which still has the old object,
  goes on with a package of the new connection, and the checksum is wrong although
  nothing is configured wrongly. As it covers the control block alone, it may as well
  be right, and the package is handed on; `PackagesStayWhole` says when that can be.
  What follows is healed: whoever closes the number for the old object closes the
  new connection, which is then replaced (`EndIsNoticed`), and never is a socket left
  open (`NoSocketLeaks`).
* `udpserver.cpp:74`, `MCFirmwareServers`, `PortIsTheClients` fails: "record client's
  port if all OK" (line 73), but nobody asks who sent the datagram. Two programs of
  the same configuration announce the same ports from 49152 on (`TCPTransport.cpp:27`),
  and a program whose connection waits sends its datagrams too; if one of these is
  the first good one, the firmware records the port of a socket the connected client
  does not have, and its answers over UDP go there, at the client's address, until
  the next connection. `AnswersAreForTheClient` says what does hold: the address is
  the client's, and the port is one of a client that announced the same server port.
* The loopback test: `-tto`, "timeout for sending the whole block, and for
  receiving answer" (`TestUtil/Src/Main.cpp:36`), is read and never used, so that a
  test that lost a byte waits until a signal comes. A block of one byte never
  completes, since the second loop asks `recv` for nothing
  (`LoopbackTester.cpp:130-137`). A signal before the first byte was sent may leave
  the reader asleep, because `OnShutdown` does not notify, and a test ended before
  its first byte came shows an error for it.

* `UDPConnection.cpp:22`, `TCPConnection.cpp:21`: a second Dispose of a disposed
  connection leaves the static `falseVal` set; the next Dispose, of a live one,
  does nothing but set it right. If that is the one in `OnConnected`, the
  connection to the old port stays in use, against "destroy current connection"
  (`UDPTransport.cpp:304`), until it fails; `BrokenIsDisposed` shows that it is
  replaced then. At the shutdown it may be the last one, and the socket stays open
  until the process ends. A Dispose that finds `falseVal` set on a connection
  disposed of before closes its number a second time, and with it whatever has
  that number by then (`ClosedOnce` of `UDPTransport`, which fails; in `TCPTransport`
  that connection is noticed and replaced). On TCP a
  package may follow the half of another one on the same connection; the firmware
  notices by the checksum and closes it.
* `UDPConnection.cpp:12`, `udpserver.cpp:34-43`: when the client replaces its UDP
  connection without a new TCP connection, its numbers start anew and the
  firmware's do not. If the last number the firmware took is below 32768 it is
  deaf to all packages until the client's numbers have passed that one, for up to
  32769 packages (`DeafnessIsBounded`, with its second bound); and
  it goes on answering to the port of the old socket (`udpserver.cpp:74`), which
  nobody reads any more, until the next TCP connection. The numbers of the
  answers go on from where they were, and the client's filter refuses them
  likewise when they are from 32767 on.
* `DataProcessor.cpp:42-43`: a Reset or Open of one port takes the data of all
  ports to TCP. In UDP mode it may overtake, or fall behind, data sent over UDP:
  with `MaxOtherResets > 0` bytes reach the device out of order, and
  `DeviceInOrder` says only that none comes twice.
* `PortWorker.cpp:238-242`: flag and notification come without the lock. A
  worker asleep is woken (`ShutdownWakes`), but if both calls of `OnShutdown` come
  between the worker's test and its wait, it sleeps on and `Shutdown` with it.
* `PortWorker.cpp:154`: `ProcessRX` has given `clientLock` up when it stores what it
  tested under it. A client that connects in between gets the data of one package
  of the session before, first of all (`SessionFence`, `ClientGetsARun`).
* `PTYListener.cpp:101`: a terminal that fails leaves its symbolic link, and the
  next start of the program fails on it.

No text says otherwise of these: a poll that
times out frees the run unwritten (`PortWorker.cpp:200-232`); in UDP mode a
reset may be overtaken by data, and a device may miss bytes; the first two
datagrams of a connection are dropped by the firmware. The first header of a
connection is taken for the interval of `-ptr` (`main_loop.cpp:210-219`), which
is right for the first connection if it is there before the first timer event
(`IntervalIsMeant` under `WarmSpec`); under `Spec` the property fails, and after a
reconnect the header is a counter. With several ports, only the first package with an Open
is taken for the interval; the interval in a later one is kept as a counter and
sent back. The top byte of the interval is read from the third
(`main_loop.cpp:215`), so that `-ptr` from 65536 on, which `Main.cpp:139` lets pass up
to a second, becomes another one. `PTYListener.cpp:133-163`: two opens in one batch of
events make `openCount` 2 and are never announced; a second user of a terminal
who leaves, or opens and closes, makes it 1 again, and the port is opened anew.

## 5. What is proved

All theorems hold for every value of the constants under the assumptions the
modules declare: a buffer has at least one slot, payloads at least one byte,
half the range of the numbers is at least one, and those named below. Every
invariant the passing runs check is proved, some under conditions that are named
here, and so are the refinements (`IsAQueue`, `DeliversInOrder`).

* `RingBufferProofs`: `TypeCorrect`, `PayloadsAlwaysFit`, `HandlesAreTruthful`,
  `BackPressureIsSafe`, `RingBufferIsAQueue`. Its first part has the lemmas about
  the operators of `DataBuffer`: where the runs of `GetHead` and `GetTail` lie, what
  `Commit` does to the bytes held (`DrainRemoves` and the lemmas before it), and that
  the copy loop appends. The type invariant is inductive as it stands, since every
  pair of positions is a legal state of the buffer; the refinement maps `Write`,
  `Drain` and `Reset` to `Offer`, `Take` and `Discard`.
* `PortWorkerProofs`: `TypeCorrect` without any condition, `RunIsStable` and
  `PortWorkerIsAQueue` for `~ ResetOnConnect`. It takes the lemmas about `DataBuffer`
  from an instance of `RingBufferProofs`. `RunStaysPut` alone does not show
  that the bytes the worker wrote are the ones it frees; `IInv` adds
  `WriteSawItsRun`, that the storage under the run is still as it was when
  `write()` read it. It is inductive because the receiver fills only slots
  outside the run and only the worker's own commit moves the tail. Under
  `ResetOnConnect` the statement is false, as section 4 says.
* `UDPProofs`, first part (`UDPTransport`): `UDPTypeCorrect`, `SocketsAreClosed`. The type
  invariant says that the thread that holds the lock is inside a call that took it,
  so at most one thread makes a connection. `NoSocketLeaks` is not inductive: the
  invariant adds that a thread about to make one has disposed of the present one,
  whatever `falseVal` made of the Dispose before.
* `UDPProofs`, second part (`UdpSequence`): `NumbersFit`, `FilterCorrect`,
  `DeliveryIsInOrder`. The inductive invariant ties each number to the count it stands
  for modulo the range and keeps all packages in flight within half the range of
  the newest one accepted; then the wrapped comparison is the comparison of the
  counts, and each step of the numbered channel is one of `LossyChannel` or a stutter.
* `UDPProofs`, last part (`UdpUplink`): `NothingIsEverMisread`, `DeafnessIsAlwaysBounded`,
  `UplinkUsesTheBuffer`, `UplinkIsAQueue`, `UplinkBackPressureIsSafe`, under
  `UplinkAssumption`: numbers of at most 16 bits, payloads of
  at most 255 bytes, counters of 32 bits, and at most `Half - 2` packages lost in a row. All but the
  last is how wide the fields of a package are; the last is about the network, 32766
  packages at the width of the code, and only the bound on deafness needs it.
  That nothing is misread is a fact about the checksum. The 256 entries of its
  table are different (`TableIsOneToOne`), and `Xor`, bit by bit, can be undone; so
  once the checksums of two blocks differ they stay different while the
  bytes that follow are the same (`OneByteShows`, an induction over the bytes). A
  block with one damaged byte therefore fails its check (`DamageShows`), and what gets
  through is the block that was sealed, which `MapRequest` and its like read back as
  it was written (`ReadsWhatWasWritten`: two bytes hold a number of 16 bits, four hold a
  counter, one holds a size).
  `DeafnessIsBounded` is not inductive. `UplinkIInv` looks at the packages under way and
  the next one to be sent as one line (`Stream`), in which each is the successor of
  the one before or of a later connection; and at where the number of the first one lies
  in the half of the circle that the filter refuses (`Zone`): at least as many places
  in as packages of its connection were refused, and past its end by no more than
  one and those lost. While no connection is replaced there is no gap but for loss
  (`SteadyOK`), which gives the bound of two.
  `UplinkSpec => Spec` of `RingBuffer` carries the theorems about the buffer over.
* `ClientThreadsProofs`, first part (`Lifecycle`): `TypeCorrect`, `EndsOnlyForCause`,
  `LeavesNothingBehind`, for any ports, listeners and terminals; the one assumption on
  them is that a terminal is no other worker and `main` none. `EndsForCause` is not
  inductive: `Causes` adds that no thread exists before the mask is set, that the
  flag and every report under way have a failure behind them, and that a pending TERM
  was sent. `Leavings` says that only started workers have a thread that runs, that
  the loop of `Shutdown()` has taken back `workerStarted` of all it has passed
  (`Joined`), and that an ended terminal took its link away or failed.
* `ClientThreadsProofs`, second part (`MessageFlow`): `FlowTypeCorrect`, `NoDeadlock`,
  `NoMessageIsDropped`, for any number of ports, with and without UDP. Mutexes have
  ranks: lowest `pollLock` and `pushLock`, then those of the TCP connection and of the
  clients, then those of the UDP connection and of the rings (`Rank`); so have the
  objects that send. `StacksOK`
  says of the steps on a thread's stack that nothing above the release of a mutex
  takes one of the same rank or a lower one, nor joins a thread, and that nothing
  above the end of a sending sends from an object of the same rank or a lower one.
  It is inductive because each way through a function takes and sends only what the
  call that stood in its place allows (`WaysKeep`, `HandleKeeps`, `RoundsFit`). A
  thread that is waited for and waits itself wants to go higher than the one that
  waits (`WaitersClimb`), and there are finitely many ranks, so no set of
  threads closes a circle; a sender never stands on the stack already, so the guard
  finds none. The holders of mutexes and the entries of `callers` are read off the
  stacks (`FlowParts`).
* `TCPProofs`, its first part: `TCPTypeCorrect`, `SocketsAreClosed`, `NoPackageIsMixed`,
  for any number of connections and any choice of the kernel among the free numbers.
  `OnlyThePresent` says that a number in use is that of the present connection,
  which is not disposed of: who makes a connection has disposed of the one before
  under the lock, whatever `falseVal` made of it, and who closes a number a second time
  can only take one socket away. For the second theorem, what the worker has of a
  package came through one number (`ReadsByNumber`) and is the newest part of its
  connection (`IsLatest`). A connection whose parts are not at the beginning of a
  package is the one the worker is reading, or brings nothing more, or it has a number
  that was cut short before (`StaysInStep`); so what is put together is of one package
  or ends with a part of a connection with such a number (`Aligned`).
* `BridgeProofs`, with the invariants of `BridgeInvariants`: `TypeCorrect` without
  any condition; `SessionsAreFenced` for `ResetOnConnect` and session ids that do
  not come round (`MaxClients <= SessionLimit`); `ResetIsABarrier` for TCP,
  `BytesStayInOrder` for both transports, and `FirstIntervalIsMeant` for as long as no
  second connection is made, all three without any condition on the constants. The
  invariant `Fence`
  says that the session id is the number of the client, that a Reset under way asks
  for the id of the client it was made for, and that a response is stamped with the
  session of the last reset the firmware handled; and of what the receiver has taken,
  stored or still in hand, that the bytes of an earlier client are those that were
  in hand when the present one came, one payload at most (`InHand`). The invariant `Line` says that all
  that is under way over TCP forms one line: the queues of the firmware's connection
  and of those it has not accepted yet, then the package in the client's hands, in
  which the clients never go back, nor behind the one of the last reset handled;
  a reset therefore has nothing behind it but its own client's bytes and younger ones.
  It holds the bytes of the packages to the same order, and `Order` puts those at the
  device and in its ring in front of them: they increase, they were read before
  whatever the next round reads, and they precede every payload in line, so that
  appending any part of the first payload keeps the order. Over UDP there is no one
  line: `OrderOverUDP` sees the packages on several ways, the datagrams, each TCP
  connection the firmware still reads from, and the transports. No two packages hold
  the same byte and none holds one that is at the device (`Spread`). Until another
  port's reset takes data to TCP the packages on the connections are empty, so all data
  goes one way and what is left of it comes later; from then on packages pass each
  other and only the bytes stay apart. A lost or late datagram is the front of its way
  cut off, which takes nothing from this (`FewerSpread`). `FirstHeader` says why the
  first header the firmware takes is the Open's: the rounds begin with a connection,
  the first of them makes the Open, and until the firmware handles a request either
  the connection holds the Open first, or the Open is on its way to it, or the client
  has left the connection and with it all it had sent.
* `BridgeFlowProofs` is about flow control: `DeviceGetsItsClientWhole`,
  `RingNeverOverflows`, `ConfirmationsAreTrue`, for `ResetOnConnect`, from `WarmSpec`, over TCP, until a
  second connection is made (what was in the first is lost with it), and for
  `BufferLimit + Half <= RingCapacity`, where `Half` is half of the buffer: a ring of
  512 slots takes a limit of 255, where the examples of `Main.cpp:48` give 512. The
  condition is sharp: with one byte less `NoRemoteOverrun` fails
  (`MCBridgeMatchingBuffer` shows it for the limit the help text names, and with
  `BufferLimit = 2` it still does). The three need each other. That the ring has
  room rests on the account (what may be under way is at most the limit beyond
  what is confirmed), on the flag (it was clear when the confirmed package had been
  handled and the ring was at most half full) and on the stream having no gap (so
  that bytes can be counted by their numbers); that the stream goes on where the
  port is rests on nothing having been cut off for want of room. `Flow` says all of
  it of the stream of packages the firmware still has to handle: `Started`,
  `Counted` and `Chained` fix its order, its headers and its bytes; `Narrow` says that
  the stream and the upper half of the ring hold no more than the limit, by the
  distance of the byte numbers; `Ledger` ties the account to the stream, confirmed
  entries to what the port has received, and each answer under way that says "not
  half full" to where that window begins. `OutstandingIsRest`, that the sum over the
  account is the distance between two byte numbers, is an induction: it is done by
  looking at the least place where the sums differ (`MinIsElement`).
* Its second part is about the way back: `ClientHearsARun`, from plain `Spec` and so
  with any firmware found at the start, for `ResetOnConnect` and session ids that do
  not come round, over TCP until a second connection is made. A client must not miss
  the first byte its device sends after its own reset, although answers to the
  client before it are still under way and are dropped by their session alone.
  `Hearing` adds three things to `Fence` and `Line`. `InTurn`: an Open is before
  every reset in the stream and the resets are in the order of their clients, so
  that the session of the port only goes up. `Rising`: so do those of the answers
  under way, up to the port's; once a client has taken an answer of its session all
  that follow are for it. `Heard`: these carry the bytes from the one heard last to
  the one emitted last, without a gap, less what the answer in the making holds. What
  is in hand between the two locks counts as heard (`Taken`); bytes of the client
  before in front of it are followed by the first answer of the session, and the
  theorem says nothing of that seam.
* `FirmwareServersProofs`: `TypeCorrect`, `RequestsAreOnePackage`,
  `AnswersGoToTheClient`, `DevicesAreLeftAlone`, without any condition. The count of
  mixed requests is not inductive: `StreamInv` looks at the line of parts that wait,
  in the buffer and behind it, and labels each with the packages given up before it
  was sent. Labels do not decrease, within one label part follows part, and the last
  label is that of the package being sent. A request that begins with a header and
  lies within one label is one package (`RequestTaken`); another one reaches into a
  higher label, which then is below all that waits, so that the requests counted
  never pass the packages given up. A datagram is read into the buffer only when no
  package is half read. `KnowsItsClient` says that the UDP server knows the address and the server
  port of the client connected, but for the pass in which it is told of a new one, and
  that the port it answers to is one from which a client came that announced this
  server port: a client keeps its address and what it announces (`ClientsStay`), and
  only datagrams for the port the server listens on are read;
  `SignatureTellsWhoAsked` that the signature in memory is there exactly from the
  moment the firmware asks for its boot until that boot takes it.
* `TCPProofs`, its second part, about `Loopback`: `TypeCorrect`, `EchoIsAlwaysFaithful`, `VerdictIsAlwaysRight`, for
  every size of the block, the sockets, the serial buffers and the ring, and any
  number of bytes spoilt. `LoopbackIInv` says that on a line that spoils nothing the bytes
  on their way (`Transit`: towards the test, in the ring, in the serial buffer, towards
  the board) are those of the block that were sent and not read yet, and that those
  read are those sent; and that a test which shows no error has compared all it
  read. A pass of the board leaves `Transit` as it is (`EchoMovesOn`), which rests on the
  lemmas of `RingBufferProofs` about a fill and a drain.

Only model-checked: the liveness properties (`DataIsPickedUp`, `ShutdownWakes`,
`BrokenIsDisposed`, `EndIsNoticed`, `ShutdownCompletes`, `ProcessEnds`,
`WaitingIsServed`, `LinkLossReboots`, `TestCompletes`, `SignalEndsTest`), since
fairness and ENABLED are beyond the prover. The theorems of the library about induction
take an operator as a parameter, which the provers at hand cannot instantiate, but
that a well-founded order has minimal elements (`WFMin`) is first-order, and so induction
over numbers is `LeastNumber` and `UpTo` of `UDPProofs`. A RECURSIVE operator takes the
SMT prover away; the models have recursive functions instead, the sum of
`RemoteBufferTracker` and the checksum of `Package`.

## 6. What is not modelled

* Parsing of options, addresses, formatting and logging: no state afterwards.
* Hardware access, and the reset lines of the boards but for whether they are used.
* The open count of the pseudo-terminals (`PTYListener.cpp:113-168`): what it does
  is written in section 4; nothing says what several users of a terminal may expect.
* The wrapping clocks of `AlarmTimer`, `IntervalTimer` and the client's timer
  interval: the alarm of `FirmwareServers` and the polls of `Bridge` come at any
  time the properties allow.
* The payloads' places in a package, the bytes of an interval above 65535, and
  ports other than the first, but for their share of the control block and their
  resets.
* In `Main.cpp`, failures of `pthread_sigmask` and of `sigtimedwait` itself, and
  the exit code, which is only logged.

## 7. Plan

Done: the ring buffer with its proofs, and the way of the data to it over UDP, with
proofs; PortWorker's threads with their proofs; UDP numbering with its proofs; the
UDP and the TCP connection to their shutdown, with proofs; one port end to end, with
proofs of its types, its sessions, its resets, the order of its bytes, its flow
control, what its clients hear and its poll interval; the life of the client process
with its proofs; the firmware's boots and servers with their proofs; the flow of
messages with its proofs; the loopback test with its proofs.

Left, in this order:

1. A second port in `Bridge`, with its own session and account, for the
   Opens that come in different packages.
2. The wrapping clocks and the open count, as operators checked against
   reference definitions.
