------------------------------- MODULE Bridge -------------------------------
(***************************************************************************)
(* One port of the bridge from end to end: the client's PortWorker,        *)
(* RemoteBufferTracker, DataProcessor and transports on one side, the      *)
(* firmware's main loop, servers and UARTWorker on the other, and the      *)
(* network in between.                                                     *)
(*                                                                         *)
(* Client.  The timer makes DataProcessor ask the port for a request       *)
(* (Prepare) and hands the package to the transports (Send); the TCP       *)
(* worker, the local listener and both receivers run in threads of their   *)
(* own, so any of their steps may come between the two.  A receiver tests  *)
(* the session of a response under one lock and stores its data under      *)
(* another, so that a local client may come between these as well.  What   *)
(* the local client reads of the ring buffer is the subject of module      *)
(* PortWorker; here all bytes stored for it are kept in got.               *)
(*                                                                         *)
(* Firmware.  One pass of loop() accepts or drops a connection or handles  *)
(* a request, then feeds the UART, then collects and sends.  Each part may *)
(* find nothing to do, so a pass is some sequence of the steps below.      *)
(*                                                                         *)
(* Network.  Every TCP connection has a queue in each direction.  UDP, as  *)
(* the sequence numbers of both sides filter it, delivers some of the      *)
(* packages in the order they were sent (module UdpSequence).              *)
(*                                                                         *)
(* Bytes.  The k-th byte of the n-th local client is <<n, k>>; the bytes   *)
(* the device emits are numbered.  The fields gen and the variables out    *)
(* and stray are history: gen is the local client whose reset request the  *)
(* device got last, out what the device received since, and stray how many *)
(* bytes the receiver had in hand when the present local client came.      *)
(***************************************************************************)
EXTENDS UartWorker, RemoteBufferTracker

CONSTANTS UDPOptions,     \* what option -up may be
          ResetOnConnect, \* option -rst
          SessionLimit,   \* session ids are 1..SessionLimit (0x7F in the code)
          Interval,       \* option -ptr, the poll interval sent to the firmware
          Aggregate,      \* IO_AGGREGATE_MULTIPLIER
          MaxTicks,       \* bound: timer events
          MaxClients,     \* bound: local clients
          MaxBytes,       \* bound: bytes of one local client
          MaxEmitted,     \* bound: bytes the device emits
          MaxConns,       \* bound: TCP connections
          MaxFlight,      \* bound: responses on their way, by either transport
          MaxOtherResets  \* bound: packages in which another port asks for a reset

ASSUME BridgeAssumption ==
  /\ UDPOptions \subseteq BOOLEAN /\ ResetOnConnect \in BOOLEAN
  /\ SessionLimit \in Nat \ {0} /\ Aggregate \in Nat \ {0}
  /\ Interval \in Nat \ {0}
  /\ {MaxTicks, MaxClients, MaxBytes, MaxEmitted, MaxConns, MaxFlight,
      MaxOtherResets} \subseteq Nat

VARIABLES
  useUDP,   \* option -up, chosen at the start
  \* the client: PortWorker, Timer and the package on its way to a transport
  eventCounter, otherResets, connected, openPending, resetPending, sessionId, client,
  clients, consumed, tracker, outbox, accepted, got, stray,
  \* the network
  conn, conns, up, down, udpUp, udpDown,
  \* the firmware
  fwConn, fwConns, uart, counter, pollIntervalSetPending, pollInterval,
  serverStarted, clientUDPPort, segmentCounter,
  \* history
  gen, out, emitted, overrun

portVars   == <<connected, openPending, resetPending, sessionId, client, clients,
                consumed, tracker, accepted, got, stray>>
roundVars  == <<eventCounter, otherResets>>
clientVars == <<roundVars, outbox, portVars>>
tcpVars    == <<conn, conns, up, down>>
udpVars    == <<udpUp, udpDown>>
linkVars   == <<fwConn, fwConns, serverStarted, clientUDPPort>>
pollVars   == <<counter, pollIntervalSetPending, pollInterval, segmentCounter>>
history    == <<gen, out, emitted, overrun>>
vars       == <<useUDP, clientVars, tcpVars, udpVars, linkVars, pollVars, uart, history>>

NoPackage == << >>
Request(type, arg, data) == [type |-> type, arg |-> arg, data |-> data]
NoCommand == Request("NoCommand", 0, << >>)
DefaultInterval == 0   \* stands for UART_POLL_INTERVAL_US_DEFAULT

Init ==
  /\ useUDP \in UDPOptions
  /\ eventCounter = 0 /\ otherResets = 0 /\ connected = FALSE /\ openPending = TRUE
  /\ resetPending = FALSE /\ sessionId = 0 /\ client = 0 /\ clients = 0
  /\ consumed = 0 /\ tracker = NewTracker /\ outbox = NoPackage
  /\ accepted = << >> /\ got = << >> /\ stray = 0
  /\ conn = 0 /\ conns = 0
  /\ up = [c \in 1 .. MaxConns |-> << >>] /\ down = [c \in 1 .. MaxConns |-> << >>]
  /\ udpUp = << >> /\ udpDown = << >>
  /\ fwConn = 0 /\ fwConns = 0 /\ uart = NewPort /\ counter = 0
  /\ pollIntervalSetPending = FALSE /\ pollInterval = DefaultInterval
  /\ serverStarted = FALSE /\ clientUDPPort = FALSE /\ segmentCounter = 0
  /\ gen = 0 /\ out = << >> /\ emitted = 0 /\ overrun = FALSE
-----------------------------------------------------------------------------
(* Faulty variants, one plausible slip each.                               *)

\* A response is accepted whatever session it belongs to.
AcceptsAny(response) == client # 0

\* Every header of a connection is taken for the poll interval.
HandleRequestStillPending(package) ==
  /\ uart' = ProcessRequest(uart, package.request)
  /\ IF package.request.type = "Reset"
       THEN gen' = package.from /\ out' = << >>
       ELSE UNCHANGED <<gen, out>>
  /\ pollInterval' = IF pollIntervalSetPending /\ package.header \div Aggregate > 0
                       THEN package.header \div Aggregate ELSE pollInterval
  /\ counter' = package.header
  /\ UNCHANGED <<pollIntervalSetPending, segmentCounter, emitted, overrun>>

\* A datagram that comes late is taken after the newer ones.
LaterAndMissed(queue, i) == SubSeq(queue, 1, i - 1) \o SubSeq(queue, i + 1, Len(queue))
-----------------------------------------------------------------------------
(* The client.                                                             *)

\* sessionId++; if (sessionId > 0x7F) sessionId = 0x01;
NextSession(s) == IF s + 1 > SessionLimit THEN 1 ELSE s + 1

\* PortWorker::OnPortOpen: a local client connects, the one before it goes.
OnPortOpen ==
  /\ clients < MaxClients
  /\ clients' = clients + 1
  /\ client' = clients + 1
  /\ consumed' = 0
  /\ resetPending' = ResetOnConnect
  /\ IF ResetOnConnect
       THEN /\ sessionId' = NextSession(sessionId)
            /\ tracker' = ResetTracker(tracker)
            /\ got' = << >>
            /\ stray' = Len(accepted)
       ELSE UNCHANGED <<sessionId, tracker, got, stray>>
  /\ UNCHANGED <<roundVars, outbox, connected, openPending, accepted, tcpVars, udpVars,
                 linkVars, pollVars, uart, history>>

\* DataProcessor: Open, Close and Reset of any port take the package to TCP, and
\* everything goes there when UDP is off.
UsesTCP(request) == ~ useUDP \/ request.type \in {"Open", "Close", "Reset"}

\* DataProcessor::OnPollEvent: the requests of all ports become one package.  With
\* an Open the counter field holds the poll interval for the firmware.  Another
\* port's reset is told apart only where it changes the way of the package.
Pack(request) ==
  \E otherReset \in BOOLEAN :
    /\ otherReset => ~ UsesTCP(request) /\ otherResets < MaxOtherResets
    /\ otherResets' = IF otherReset THEN otherResets + 1 ELSE otherResets
    /\ outbox' = <<[request |-> request,
                    header  |-> IF request.type = "Open" THEN Interval ELSE eventCounter',
                    useTCP  |-> UsesTCP(request) \/ otherReset,
                    from    |-> client]>>
    /\ UNCHANGED <<tcpVars, udpVars, linkVars, pollVars, uart, history>>

\* The timer event that starts a round.
Tick ==
  /\ outbox = NoPackage
  /\ eventCounter < MaxTicks
  /\ eventCounter' = eventCounter + 1

PrepareNothing ==
  /\ Tick
  /\ ~ connected
  /\ Pack(NoCommand)
  /\ UNCHANGED portVars

PrepareOpen ==
  /\ Tick
  /\ connected /\ openPending
  /\ openPending' = FALSE
  /\ Pack(Request("Open", 0, <<"speed">>))
  /\ UNCHANGED <<connected, resetPending, sessionId, client, clients, consumed, tracker,
                 accepted, got, stray>>

PrepareReset ==
  /\ Tick
  /\ connected /\ ~ openPending /\ resetPending
  /\ resetPending' = FALSE
  /\ Pack(Request("Reset", sessionId, << >>))
  /\ UNCHANGED <<connected, openPending, sessionId, client, clients, consumed, tracker,
                 accepted, got, stray>>

MayRead ==
  /\ Tick
  /\ connected /\ ~ openPending /\ ~ resetPending
  /\ client # 0 /\ GetAvailSpace(tracker) > 0

\* No room at the firmware, no local client, or nothing to read from it.
PrepareIdle ==
  /\ Tick
  /\ connected /\ ~ openPending /\ ~ resetPending
  /\ Pack(NoCommand)
  /\ UNCHANGED portVars

\* read() reports the end of the stream or an error: the client is given up.
PrepareHangup ==
  /\ MayRead
  /\ client' = 0
  /\ Pack(NoCommand)
  /\ UNCHANGED <<connected, openPending, resetPending, sessionId, clients, consumed, tracker,
                 accepted, got, stray>>

PrepareData(n) ==
  /\ MayRead
  /\ n \in 1 .. PayloadSize /\ n <= GetAvailSpace(tracker)
  /\ consumed + n <= MaxBytes
  /\ consumed' = consumed + n
  /\ tracker' = AddPackage(tracker, n, eventCounter')
  /\ Pack(Request("Data", 0, [i \in 1 .. n |-> <<client, consumed + i>>]))
  /\ UNCHANGED <<connected, openPending, resetPending, sessionId, client, clients, accepted,
                 got, stray>>

\* What the client sends on its connection still reaches the firmware: there is
\* a connection and the firmware has not dropped it.
Reaches(c) == c # 0 /\ (c = fwConn \/ c > fwConns)

\* OnSendPackage of both transports.  Without a connection the package is lost;
\* UDP has a port to send to once a TCP connection has been made.
Send ==
  /\ outbox # NoPackage
  /\ LET package == outbox[1]
     IN  IF package.useTCP
           THEN /\ up' = IF Reaches(conn) THEN [up EXCEPT ![conn] = Append(@, package)] ELSE up
                /\ UNCHANGED udpUp
           ELSE /\ udpUp' = IF conns = 0 THEN udpUp ELSE Append(udpUp, package)
                /\ UNCHANGED up
  /\ outbox' = NoPackage
  /\ UNCHANGED <<roundVars, portVars, conn, conns, down, udpDown, linkVars, pollVars,
                 uart, history>>

\* TCPTransport::GetConnection: a connection is made and announced; the UDP
\* transport moves to the port announced with it.
Connect ==
  /\ conn = 0 /\ conns < MaxConns
  /\ conns' = conns + 1
  /\ conn' = conns + 1
  /\ connected' = TRUE
  /\ udpUp' = << >> /\ udpDown' = << >>
  /\ UNCHANGED <<roundVars, outbox, openPending, resetPending, sessionId, client, clients,
                 consumed, tracker, accepted, got, stray, up, down, linkVars, pollVars, uart, history>>

\* recv() or send() fails: the client disposes of its connection.
Disconnect ==
  /\ conn # 0
  /\ conn' = 0
  /\ UNCHANGED <<clientVars, conns, up, down, udpVars, linkVars, pollVars, uart, history>>

Accepts(response) == client # 0 /\ sessionId = response.session

\* PortWorker::ProcessRX up to the release of clientLock: the confirmation counts
\* whatever the session; the data is taken in hand only for a local client and if
\* it is from its session.  One receiver at a time is here and in StoreResponse
\* (pushLock of DataProcessor).
CheckResponse(response) ==
  /\ accepted = << >>
  /\ tracker' = ConfirmPackage(tracker, response.counter, response.blocked)
  /\ accepted' = IF Accepts(response)
                   THEN [i \in 1 .. Len(response.data) |-> <<response.gen, response.data[i]>>]
                   ELSE << >>
  /\ UNCHANGED <<connected, openPending, resetPending, sessionId, client, clients, consumed,
                 got, stray, roundVars, outbox>>

\* The rest of it: under ringBuffLock, without another look at client or session.
StoreResponse ==
  /\ accepted # << >>
  /\ got' = got \o accepted
  /\ accepted' = << >>
  /\ UNCHANGED <<connected, openPending, resetPending, sessionId, client, clients, consumed,
                 tracker, stray, roundVars, outbox, tcpVars, udpVars, linkVars, pollVars, uart,
                 history>>

ReceiveTCP ==
  /\ conn # 0 /\ down[conn] # << >>
  /\ CheckResponse(Head(down[conn]))
  /\ down' = [down EXCEPT ![conn] = Tail(@)]
  /\ UNCHANGED <<conn, conns, up, udpVars, linkVars, pollVars, uart, history>>

\* What is left of a UDP queue when its i-th package is taken: those before it
\* are lost or, if they still come, dropped for their sequence number.
Later(queue, i) == SubSeq(queue, i + 1, Len(queue))

ReceiveUDP(i) ==
  /\ i \in 1 .. Len(udpDown)
  /\ CheckResponse(udpDown[i])
  /\ udpDown' = Later(udpDown, i)
  /\ UNCHANGED <<tcpVars, udpUp, linkVars, pollVars, uart, history>>
-----------------------------------------------------------------------------
(* The firmware.                                                           *)

\* TCP and UDP servers on a connect or disconnect event.
ServeTCP(c) ==
  /\ fwConn' = c
  /\ serverStarted' = FALSE
  /\ clientUDPPort' = FALSE

Accept ==
  /\ fwConn = 0 /\ fwConns < conns
  /\ fwConns' = fwConns + 1
  /\ ServeTCP(fwConns + 1)
  /\ pollInterval' = DefaultInterval
  /\ pollIntervalSetPending' = TRUE
  /\ segmentCounter' = 0
  /\ UNCHANGED <<clientVars, tcpVars, udpVars, counter, uart, history>>

\* The alarm goes off, or the connection is found closed: what it still held is lost.
Drop ==
  /\ fwConn # 0
  /\ ServeTCP(0)
  /\ pollInterval' = DefaultInterval
  /\ pollIntervalSetPending' = FALSE
  /\ UNCHANGED <<fwConns, clientVars, tcpVars, udpVars, counter, segmentCounter, uart, history>>

\* loop(): the request goes to the port, the header is kept for the responses.
\* The first header of a connection is taken for the poll interval.
HandleRequest(package) ==
  /\ uart' = ProcessRequest(uart, package.request)
  /\ overrun' = (overrun \/ /\ package.request.type = "Data"
                            /\ Len(uart.ring) + Len(package.request.data) > RingCapacity)
  /\ IF package.request.type = "Reset"
       THEN gen' = package.from /\ out' = << >>
       ELSE UNCHANGED <<gen, out>>
  /\ pollIntervalSetPending' = FALSE
  /\ IF pollIntervalSetPending
       THEN /\ counter' = 0
            /\ pollInterval' = IF package.header \div Aggregate > 0
                                 THEN package.header \div Aggregate ELSE pollInterval
       ELSE /\ counter' = package.header
            /\ UNCHANGED pollInterval
  /\ UNCHANGED <<segmentCounter, emitted>>

\* A request over TCP tells the port for UDP; begin() may fail and be tried again.
RequestTCP ==
  /\ fwConn # 0 /\ up[fwConn] # << >>
  /\ HandleRequest(Head(up[fwConn]))
  /\ up' = [up EXCEPT ![fwConn] = Tail(@)]
  /\ serverStarted' \in IF useUDP /\ ~ serverStarted THEN BOOLEAN ELSE {serverStarted}
  /\ UNCHANGED <<fwConn, fwConns, clientUDPPort, clientVars, conn, conns, down, udpVars>>

\* The server listens on the port of the connection it was told with.
RequestUDP(i) ==
  /\ serverStarted /\ fwConn = conns
  /\ i \in 1 .. Len(udpUp)
  /\ HandleRequest(udpUp[i])
  /\ udpUp' = Later(udpUp, i)
  /\ clientUDPPort' = TRUE
  /\ UNCHANGED <<fwConn, fwConns, serverStarted, clientVars, tcpVars, udpDown>>

FeedUART(room) ==
  /\ Writable(uart) /\ WriteSize(uart, room) > 0
  /\ uart' = ProcessRX(uart, room)
  /\ out' = out \o Written(uart, room)
  /\ UNCHANGED <<clientVars, tcpVars, udpVars, linkVars, pollVars, gen, emitted, overrun>>

EndReset ==
  /\ uart.resetting
  /\ uart' = ReleaseReset(uart)
  /\ UNCHANGED <<clientVars, tcpVars, udpVars, linkVars, pollVars, history>>

\* What a package to the client says of the port.
Response(port, wrapped) ==
  LET tx == ProcessTX(port, wrapped)
  IN  [data |-> tx.data, session |-> tx.session, blocked |-> tx.blocked,
       counter |-> counter, gen |-> gen]

\* The response goes by UDP when the client's port is known, else by TCP; without
\* a connection it is not sent, and it is lost if the client has left the
\* connection.
Respond(response) ==
  IF serverStarted /\ clientUDPPort
    THEN /\ udpDown' = IF fwConn = conns THEN Append(udpDown, response) ELSE udpDown
         /\ UNCHANGED down
    ELSE /\ down' = IF fwConn # 0 /\ fwConn = conn
                      THEN [down EXCEPT ![conn] = Append(@, response)] ELSE down
         /\ UNCHANGED udpDown

\* The bound on the responses under way stands for a poll interval that is not
\* much shorter than the way to the client.
RoomForResponse ==
  Len(udpDown) < MaxFlight /\ \A c \in 1 .. MaxConns : Len(down[c]) < MaxFlight

\* The poll timer: collect a segment, and send a package when it was the last one.
Poll(n, wrapped) ==
  LET first == segmentCounter = 0
      last  == segmentCounter + 1 >= Aggregate
      port  == Collect(uart, first, [i \in 1 .. n |-> emitted + i])
  IN  /\ last => RoomForResponse
      /\ n \in 0 .. (IF uart.open THEN Least(ReadSize(uart, first), MaxEmitted - emitted) ELSE 0)
      /\ uart' = port
      /\ emitted' = emitted + n
      /\ IF last
           THEN Respond(Response(port, wrapped)) /\ segmentCounter' = 0
           ELSE UNCHANGED <<down, udpDown>> /\ segmentCounter' = segmentCounter + 1
      /\ UNCHANGED <<clientVars, conn, conns, up, udpUp, linkVars, counter,
                     pollIntervalSetPending, pollInterval, gen, out, overrun>>
-----------------------------------------------------------------------------
Client ==
  \/ OnPortOpen
  \/ PrepareNothing \/ PrepareOpen \/ PrepareReset \/ PrepareIdle \/ PrepareHangup
  \/ \E n \in 1 .. MaxBytes : PrepareData(n)
  \/ Send \/ Connect \/ Disconnect
  \/ StoreResponse \/ ReceiveTCP \/ \E i \in 1 .. Len(udpDown) : ReceiveUDP(i)

Firmware ==
  \/ Accept \/ Drop \/ RequestTCP \/ \E i \in 1 .. Len(udpUp) : RequestUDP(i)
  \/ \E room \in 1 .. IOSize : FeedUART(room)
  \/ EndReset
  \/ \E n \in 0 .. IOSize, wrapped \in BOOLEAN : Poll(n, wrapped)

Next ==
  /\ Client \/ Firmware
  /\ UNCHANGED useUDP

Spec == Init /\ [][Next]_vars

\* The bridge is started while the firmware is reachable: the TCP worker makes
\* the first connection before the first timer event.
ConnectFirst == conns = 0 => eventCounter' = 0

WarmSpec == Init /\ [][Next /\ ConnectFirst]_vars
-----------------------------------------------------------------------------
(* Properties.                                                             *)

Bytes == (1 .. MaxClients) \X (1 .. MaxBytes)

Counters == 0 .. MaxTicks \cup {Interval}

Requests ==
  [type : {"NoCommand"}, arg : {0}, data : {<< >>}]
    \cup [type : {"Open"}, arg : {0}, data : {<<"speed">>}]
    \cup [type : {"Reset"}, arg : 0 .. SessionLimit, data : {<< >>}]
    \cup [type : {"Data"}, arg : {0}, data : Seq(Bytes)]

Packages ==
  [request : Requests, header : Counters, useTCP : BOOLEAN, from : 0 .. MaxClients]

Responses ==
  [data : Seq(1 .. MaxEmitted), session : 0 .. SessionLimit, blocked : BOOLEAN,
   counter : Counters, gen : 0 .. MaxClients]

ClientTypeOK ==
  /\ useUDP \in BOOLEAN
  /\ eventCounter \in 0 .. MaxTicks /\ otherResets \in 0 .. MaxOtherResets
  /\ connected \in BOOLEAN /\ openPending \in BOOLEAN /\ resetPending \in BOOLEAN
  /\ sessionId \in 0 .. SessionLimit
  /\ clients \in 0 .. MaxClients /\ client \in {0, clients}
  /\ consumed \in 0 .. MaxBytes
  /\ tracker \in [sent : Seq([counter : 1 .. MaxTicks, size : 1 .. PayloadSize]),
                  blocked : BOOLEAN]
  /\ outbox \in Seq(Packages) /\ Len(outbox) <= 1
  /\ accepted \in Seq((0 .. MaxClients) \X (1 .. MaxEmitted))
  /\ got \in Seq((0 .. MaxClients) \X (1 .. MaxEmitted))
  /\ stray \in Nat

NetworkTypeOK ==
  /\ conns \in 0 .. MaxConns /\ conn \in {0, conns}
  /\ up \in [1 .. MaxConns -> Seq(Packages)] /\ down \in [1 .. MaxConns -> Seq(Responses)]
  /\ udpUp \in Seq(Packages) /\ udpDown \in Seq(Responses)

FirmwareTypeOK ==
  /\ fwConns \in 0 .. conns /\ fwConn \in {0, fwConns}
  /\ uart \in [open : BOOLEAN, session : 0 .. SessionLimit, ring : Seq(Bytes),
               tx : Seq(1 .. MaxEmitted), resetting : BOOLEAN]
  /\ Len(uart.ring) <= RingCapacity /\ Len(uart.tx) <= PayloadSize
  /\ counter \in Counters
  /\ pollIntervalSetPending \in BOOLEAN /\ pollInterval \in {n \div Aggregate : n \in Counters}
  /\ serverStarted \in BOOLEAN /\ clientUDPPort \in BOOLEAN
  /\ segmentCounter \in 0 .. Aggregate - 1
  /\ gen \in 0 .. MaxClients /\ out \in Seq(Bytes)
  /\ emitted \in 0 .. MaxEmitted /\ overrun \in BOOLEAN

TypeOK == ClientTypeOK /\ NetworkTypeOK /\ FirmwareTypeOK

\* Byte b was read from the local clients before byte c.
Before(b, c) == b[1] < c[1] \/ (b[1] = c[1] /\ b[2] < c[2])

\* Whatever is lost on the way, no byte comes to the device twice, and what it
\* receives is in the order in which the local clients wrote it: the ring is
\* never refilled with old data (uartworker.cpp:18-40, DataProcessor.cpp:33-63).
\* Only when a reset of another port takes a package with data to TCP may it
\* pass, or fall behind, those that go over UDP.
DeviceInOrder ==
  LET line == out \o uart.ring
  IN  \A i, j \in 1 .. Len(line) :
        i < j => IF otherResets = 0 THEN Before(line[i], line[j]) ELSE line[i] # line[j]

\* Over one TCP connection and with a reset at every local connection, a device
\* receives from the start, without a gap, what the local client that reset it
\* wrote, and nothing of the client before (PortWorker.cpp:43-127,
\* uartworker.cpp:37-41).
DeviceGetsItsClient ==
  LET line == out \o uart.ring
  IN  \A i \in 1 .. Len(line) : line[i] = <<gen, i>>

\* Over TCP, nothing a local client wrote before its successor came reaches the
\* device once the reset request of the successor was handled, even when the
\* connection is lost and made again (uartworker.cpp:37-41).
NothingOlderThanReset ==
  LET line == out \o uart.ring
  IN  ~ useUDP => \A i \in 1 .. Len(line) : line[i][1] >= gen

\* What a local client gets of the time before the firmware had its reset request
\* is what the receiver had in hand, tested for the client before, when this
\* client came (PortWorker.cpp:133-141, :154): at most one package, and it comes
\* first.  Session ids come round again after 0x7F of them; the bounds stay
\* below that.
SessionFence ==
  /\ stray <= PayloadSize
  /\ \A i \in 1 .. Len(got) : got[i][1] # clients => i <= stray

\* Over TCP the local client gets what the device sent since its reset in order
\* and without a gap from the first byte it gets, even though the responses of
\* earlier sessions are dropped in between and one package of them may have been
\* stored before.
ClientGetsARun ==
  \A i \in 1 .. Len(got) - 1 : got[i][1] = got[i + 1][1] => got[i + 1][2] = got[i][2] + 1

\* The limit on unconfirmed data and the half-full flag together keep the ring
\* of the firmware from overflowing (RemoteBufferTracker.cpp:18-37,
\* uartworker.cpp:31).
NoRemoteOverrun == ~ overrun

\* When the client's first round after the start finds a connection, the
\* firmware polls at the interval it was given or at its default, whatever else
\* the first header of a connection may hold (DataProcessor.cpp:47-56,
\* main_loop.cpp:182-196,210-219).
IntervalIsMeant == pollInterval \in {DefaultInterval, Interval \div Aggregate}

\* A byte leaves the client's account of unconfirmed data only when the
\* firmware has it: in the ring, or on its way to the device
\* (RemoteBufferTracker.cpp:18-25, main_loop.cpp:200-220).
ConfirmedIsHandled ==
  LET line == out \o uart.ring
  IN  \A k \in 1 .. consumed - Outstanding(tracker) :
        \E i \in 1 .. Len(line) : line[i] = <<clients, k>>

=============================================================================
