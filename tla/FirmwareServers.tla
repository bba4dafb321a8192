-------------------------- MODULE FirmwareServers --------------------------
(***************************************************************************)
(* The firmware between power-on and its UART ports: how it boots          *)
(* (watchdog_AVR.cpp, setup()), the TCP and the UDP server that read into  *)
(* one buffer (tcpserver.cpp, udpserver.cpp), the alarm, and the order in  *)
(* which loop() uses them (main_loop.cpp).                                 *)
(*                                                                         *)
(* One pass of loop() takes three steps, named by "at": tcp (the link      *)
(* check and TCPServer::ProcessRX), udp (UDPServer::ProcessRX), work (the  *)
(* request and the response).  The network moves between them.  A package  *)
(* arrives over TCP in PkgSz parts; its first part is the header with the  *)
(* checksum, which says nothing of the parts that follow.  A client that   *)
(* gives up a package half way and goes on with the next one (TCPTransport *)
(* shows how that happens) makes the parts of two meet in the buffer.      *)
(*                                                                         *)
(* tcpClientState of loop() follows TCPServer::connected with every event, *)
(* so that connected stands for both.                                      *)
(*                                                                         *)
(* A connection has the address of its client and the UDP port which that  *)
(* announces: a client process begins with FirstPort and goes on by one    *)
(* with every connection (TCPTransport.cpp:27, :153), so that another      *)
(* process, at the same address or elsewhere, announces the same ports.    *)
(* A client that had to renew its UDP connection sends from another socket, *)
(* and so from another port; datagrams of the one before may still come.   *)
(***************************************************************************)
EXTENDS Integers, Sequences, FiniteSets

CONSTANTS UseUDP,      \* clients announce a UDP port
          PkgSz,       \* parts of a package
          AlarmDelay,  \* DEFAULT_ALARM_INTERVAL_MS, in ticks
          MaxConns,    \* bound: connections clients make, one after another
          MaxPackages, \* bound: packages clients send
          MaxCuts,     \* bound: packages given up half way on each
          MaxSockets,  \* bound: UDP sockets a client sends from on each
          MaxFaults    \* bound: link failures, resets and failures of DHCP

ASSUME ServersAssumption ==
  /\ UseUDP \in BOOLEAN /\ PkgSz \in Nat \ {0} /\ AlarmDelay \in Nat
  /\ {MaxConns, MaxPackages, MaxCuts, MaxFaults} \subseteq Nat /\ MaxSockets \in Nat \ {0}

Conns == 1 .. MaxConns
None == 0
FirstPort == 1
Parts == [conn : Conns, num : 1 .. MaxPackages, part : 1 .. PkgSz]
NoPart == [conn |-> None, num |-> 0, part |-> 0]
Sources == [conn : Conns, socket : 1 .. MaxSockets]   \* an address and a port of it
NoSource == [conn |-> None, socket |-> 0]
Datagrams == [from : Sources, num : 1 .. MaxPackages]

VARIABLES
  at,            \* where the firmware is
  sig,           \* the boot signature in memory is set
  devicesReset,  \* this boot has reset the connected devices
  connected, client, pkgLeft,                            \* TCPServer
  age,           \* ticks since the alarm was put off
  rxBuff,
  event,         \* clientEvent of loop()
  serverStarted, listens, clientAddr, clientUDPPort, serverSeq,  \* UDPServer
  link,          \* the cable is plugged in
  host,          \* host[c], the address of the client that made connection c
  announced,     \* announced[c], the UDP port it announces there
  conn,          \* conn[c], a client's connection as the firmware sees it
  sent,          \* packages begun by clients
  stream,        \* of the client accepted: parts received and not read,
  unsent,        \*   parts of the last package still to be sent,
  cuts,          \*   and packages given up half way
  dgrams,        \* datagrams in the network
  faults,
  asked,         \* history: this boot was asked for by SystemReset
  mixed          \* history: requests of this client made of two packages

bootVars == <<sig, devicesReset, asked>>
tcpVars  == <<connected, client, pkgLeft>>
udpVars  == <<serverStarted, listens, clientAddr, clientUDPPort, serverSeq>>
callers  == <<host, announced>>
netVars  == <<callers, conn, stream, sent, unsent, cuts, dgrams>>
vars == <<at, bootVars, tcpVars, age, rxBuff, event, udpVars, link, netVars,
          faults, mixed>>

NoEvent(reading) == [type |-> "NoEvent", data |-> reading]
Event(type, data) == [type |-> type, data |-> data]

AlarmTriggered == age > AlarmDelay

Init ==
  /\ at = "boot" /\ sig = FALSE /\ devicesReset = FALSE /\ asked = FALSE
  /\ connected = FALSE /\ client = None /\ pkgLeft = PkgSz /\ age = 0
  /\ rxBuff = [i \in 1 .. PkgSz |-> NoPart] /\ event = NoEvent(FALSE)
  /\ serverStarted = FALSE /\ listens = None /\ clientAddr = None
  /\ clientUDPPort = NoSource /\ serverSeq = 0
  /\ link \in BOOLEAN
  /\ host = [c \in Conns |-> None] /\ announced = [c \in Conns |-> None]
  /\ conn = [c \in Conns |-> "none"] /\ stream = <<>>
  /\ sent = 0 /\ unsent = 0 /\ cuts = 0 /\ dgrams = {} /\ faults = 0
  /\ mixed = 0
-----------------------------------------------------------------------------
(* Faulty variants, one plausible slip each.                               *)

\* The constructor of WatchdogAVR leaves the signature where it is.
BootKeepingSignature ==
  /\ at = "boot"
  /\ devicesReset' = ~sig
  /\ at' = "net"
  /\ UNCHANGED <<sig, asked, tcpVars, age, rxBuff, event, udpVars, link,
                 netVars, faults, mixed>>

\* A package half read is not reported when nothing more has arrived.
QuietForgetful ==
  /\ at = "tcp" /\ connected /\ ~ AlarmTriggered /\ conn[client] = "open"
  /\ stream = <<>>
  /\ event' = NoEvent(FALSE)
  /\ at' = "udp"
  /\ UNCHANGED <<bootVars, tcpVars, age, rxBuff, udpVars, link, netVars,
                 faults, mixed>>

\* The UDP server forgets neither port nor number when the client changes.
RestartUDPKeepingPort ==
  /\ at = "udp" /\ event.type \in {"Connected", "Disconnected"}
  /\ serverStarted' = FALSE /\ listens' = None
  /\ clientAddr' = event.data
  /\ at' = "work"
  /\ UNCHANGED <<bootVars, tcpVars, age, rxBuff, event, clientUDPPort,
                 serverSeq, link, netVars, faults, mixed>>

\* The alarm is not looked at.
MayDropIfClosed == conn[client] # "open"
-----------------------------------------------------------------------------
(* Booting.                                                                *)

\* The network as the firmware leaves it when it stops: connections and what
\* was received on them are gone.
Forgotten ==
  /\ conn' = [c \in Conns |-> IF conn[c] = "none" THEN "none" ELSE "closed"]
  /\ stream' = <<>>
  /\ UNCHANGED <<callers, sent, unsent, cuts, dgrams>>

\* The state of the servers before setup() has run.
Restarted ==
  /\ at' = "boot"
  /\ connected' = FALSE /\ client' = None /\ pkgLeft' = PkgSz /\ age' = 0
  /\ rxBuff' = [i \in 1 .. PkgSz |-> NoPart] /\ event' = NoEvent(FALSE)
  /\ serverStarted' = FALSE /\ listens' = None /\ clientAddr' = None
  /\ clientUDPPort' = NoSource /\ serverSeq' = 0
  /\ mixed' = 0
  /\ Forgotten

\* WatchdogAVR::SystemReset leaves the signature for the constructor to find.
SystemReset == sig' = TRUE /\ asked' = TRUE /\ Restarted

\* The constructor of WatchdogAVR takes the signature back; without it setup()
\* resets the devices.
Boot ==
  /\ at = "boot"
  /\ sig' = FALSE
  /\ devicesReset' = ~sig
  /\ at' = "net"
  /\ UNCHANGED <<asked, tcpVars, age, rxBuff, event, udpVars, link, netVars,
                 faults, mixed>>

\* Ethernet.begin() succeeds and the TCP server is started.
Setup ==
  /\ at = "net" /\ link
  /\ at' = "tcp" /\ connected' = FALSE
  /\ UNCHANGED <<bootVars, client, pkgLeft, age, rxBuff, event, udpVars, link,
                 netVars, faults, mixed>>

\* No cable, or no answer of DHCP: setup() blinks and boots again.
SetupFails ==
  /\ at = "net"
  /\ \/ ~link /\ UNCHANGED faults
     \/ faults < MaxFaults /\ faults' = faults + 1
  /\ SystemReset
  /\ UNCHANGED <<devicesReset, link>>

\* Faulty: a firmware that had a client before takes the link for granted.
CheckLinkOnce ==
  /\ at = "tcp" /\ client = None /\ ~link
  /\ SystemReset
  /\ UNCHANGED <<devicesReset, link, faults>>

\* check_link_state(): without a client, a link that is down means a reboot.
CheckLink ==
  /\ at = "tcp" /\ ~connected /\ ~link
  /\ SystemReset
  /\ UNCHANGED <<devicesReset, link, faults>>
-----------------------------------------------------------------------------
(* TCPServer::ProcessRX.                                                   *)

\* What every outcome of ProcessRX leaves alone.
ReadsOnly == at = "tcp" /\ at' = "udp"
             /\ UNCHANGED <<bootVars, udpVars, link, faults>>

NoClient ==
  /\ ReadsOnly /\ ~connected /\ link /\ \A c \in Conns : conn[c] # "waiting"
  /\ event' = NoEvent(FALSE)
  /\ UNCHANGED <<tcpVars, age, rxBuff, netVars, mixed>>

Accept ==
  /\ ReadsOnly /\ ~connected /\ link
  /\ \E c \in Conns :
       /\ conn[c] = "waiting"
       /\ conn' = [conn EXCEPT ![c] = "open"]
       /\ client' = c
       /\ event' = Event("Connected", host[c])
  /\ connected' = TRUE /\ pkgLeft' = PkgSz /\ age' = 0 /\ mixed' = 0
  /\ unsent' = 0 /\ cuts' = 0
  /\ UNCHANGED <<callers, rxBuff, stream, sent, dgrams>>

\* client.stop() and the event that goes with it.
Stop ==
  /\ connected' = FALSE
  /\ conn' = [conn EXCEPT ![client] = "closed"]
  /\ stream' = <<>>
  /\ event' = Event("Disconnected", None)
  /\ UNCHANGED <<callers, client, age, sent, unsent, cuts, dgrams, mixed>>

\* The alarm went off, or the client has closed the connection.  Whether
\* connected() says so while there is data left is up to the library.
MayDrop == AlarmTriggered \/ conn[client] # "open"

Drop ==
  /\ ReadsOnly /\ connected /\ MayDrop
  /\ Stop
  /\ UNCHANGED <<pkgLeft, rxBuff>>

Quiet ==
  /\ ReadsOnly /\ connected /\ ~MayDrop /\ stream = <<>>
  /\ event' = NoEvent(pkgLeft < PkgSz)
  /\ UNCHANGED <<tcpVars, age, rxBuff, netVars, mixed>>

\* client.read() of what is there, but not more than the package lacks:
\* taken parts go behind those the buffer has.
Taken == IF pkgLeft > Len(stream) THEN Len(stream) ELSE pkgLeft

Filled ==
  LET have == PkgSz - pkgLeft
  IN  [i \in 1 .. PkgSz |-> IF i \in have + 1 .. have + Taken
                            THEN stream[i - have] ELSE rxBuff[i]]

Read ==
  /\ ReadsOnly /\ connected /\ ~AlarmTriggered /\ stream # <<>>
  /\ rxBuff' = Filled

Unread == stream' = SubSeq(stream, Taken + 1, Len(stream))

ReadPart ==
  /\ Read /\ Taken < pkgLeft
  /\ Unread
  /\ pkgLeft' = pkgLeft - Taken
  /\ event' = NoEvent(TRUE)
  /\ UNCHANGED <<callers, connected, client, age, conn, sent, unsent, cuts,
                 dgrams, mixed>>

\* The checksum of the header holds: its bytes are those of a header.
ValidHeader(buff) == buff[1].part = 1

ReadRequest ==
  /\ Read /\ Taken = pkgLeft /\ ValidHeader(Filled)
  /\ Unread
  /\ pkgLeft' = PkgSz /\ age' = 0
  /\ event' = Event("NewRequest", IF UseUDP THEN announced[Filled[1].conn] ELSE None)
  /\ UNCHANGED <<callers, connected, client, conn, sent, unsent, cuts, dgrams,
                 mixed>>

ReadCorrupt ==
  /\ Read /\ Taken = pkgLeft /\ ~ValidHeader(Filled)
  /\ Stop
  /\ pkgLeft' = 0

ServeTCP == \/ NoClient \/ Accept \/ Drop \/ Quiet
            \/ ReadPart \/ ReadRequest \/ ReadCorrupt
-----------------------------------------------------------------------------
(* UDPServer::ProcessRX, which gets what TCPServer::ProcessRX returned.     *)

ServesOnly == at = "udp" /\ at' = "work"
              /\ UNCHANGED <<bootVars, tcpVars, link, netVars, faults, mixed>>

\* Connected and Disconnected reset what is known of the client.
RestartUDP ==
  /\ ServesOnly /\ event.type \in {"Connected", "Disconnected"}
  /\ serverStarted' = FALSE /\ listens' = None
  /\ clientUDPPort' = NoSource /\ serverSeq' = 0
  /\ clientAddr' = event.data
  /\ UNCHANGED <<age, rxBuff, event>>

\* The first request that names a port starts the server, if begin() can.
StartUDP ==
  /\ ServesOnly /\ event.type = "NewRequest" /\ event.data # None
  /\ ~serverStarted
  /\ \/ serverStarted' = TRUE /\ listens' = event.data
     \/ UNCHANGED <<serverStarted, listens>>
  /\ UNCHANGED <<clientUDPPort, serverSeq, clientAddr, age, rxBuff, event>>

\* Nothing to do: a further request, no server, a package half read, or no
\* datagram.
PassUDP ==
  /\ ServesOnly
  /\ \/ event.type = "NewRequest" /\ (serverStarted \/ event.data = None)
     \/ event.type = "NoEvent"
  /\ UNCHANGED <<udpVars, age, rxBuff, event>>

\* A datagram for the port is read into the buffer, whoever sent it, also when it was
\* damaged or cut short on the way.  Where it comes from is kept if it is the first
\* good one.
ReceiveUDP(d, good) ==
  /\ ServesOnly /\ event = NoEvent(FALSE) /\ serverStarted
  /\ d \in dgrams /\ announced[d.from.conn] = listens
  /\ rxBuff' = [i \in 1 .. PkgSz |->
                  IF good THEN [conn |-> d.from.conn, num |-> d.num, part |-> i]
                  ELSE NoPart]
  /\ IF good /\ d.num > serverSeq
     THEN /\ serverSeq' = d.num
          /\ clientUDPPort' = IF clientUDPPort = NoSource THEN d.from
                              ELSE clientUDPPort
          /\ age' = 0
          /\ event' = Event("NewRequest", None)
     ELSE UNCHANGED <<serverSeq, clientUDPPort, age, event>>
  /\ UNCHANGED <<serverStarted, listens, clientAddr>>

ServeUDP == \/ RestartUDP \/ StartUDP \/ PassUDP
            \/ \E d \in dgrams, good \in BOOLEAN : ReceiveUDP(d, good)
-----------------------------------------------------------------------------
(* The rest of loop(): the request goes to the ports, and if the poll timer *)
(* has run out a response goes to the client.                               *)

\* All parts of the buffer are of one package.
Whole(buff) == \A i \in 1 .. PkgSz :
                 buff[i] = [conn |-> buff[1].conn, num |-> buff[1].num, part |-> i]

\* udpServer.ProcessTX()||tcpServer.ProcessTX(): by which way, and to whom, a
\* response may go now.
Answers ==
  IF ~connected THEN {}
  ELSE {[by |-> "TCP", to |-> client]}
       \cup IF serverStarted /\ clientUDPPort # NoSource
            THEN {[by |-> "UDP", addr |-> clientAddr, to |-> clientUDPPort]} ELSE {}

\* The buffer is not read again before it is written, unless a package is half read:
\* what it holds is forgotten.
Work ==
  /\ at = "work" /\ at' = "tcp"
  /\ mixed' = IF event.type = "NewRequest" /\ ~Whole(rxBuff)
              THEN mixed + 1 ELSE mixed
  /\ event' = NoEvent(FALSE)
  /\ rxBuff' = IF pkgLeft = PkgSz THEN [i \in 1 .. PkgSz |-> NoPart] ELSE rxBuff
  /\ UNCHANGED <<bootVars, tcpVars, age, udpVars, link, netVars, faults>>

Firmware == \/ Boot \/ Setup \/ SetupFails \/ CheckLink
            \/ ServeTCP \/ ServeUDP \/ Work
-----------------------------------------------------------------------------
(* Clients, the network and the power.                                     *)

Alone == UNCHANGED <<at, bootVars, tcpVars, age, rxBuff, event, udpVars, mixed>>
Network == Alone /\ UNCHANGED <<link, faults>>

\* What arrives is looked at in one place of loop(), so that arriving earlier
\* in the same pass makes no difference.
ByTCP == Network /\ at = "tcp"
ByUDP == Network /\ at = "udp"

\* Whose connection the c-th may be: that of a client that made one before, or of one
\* just started.  Addresses are numbered as they appear.
Callers(c) ==
  {[host |-> host[b], port |-> announced[b] + 1] : b \in 1 .. c - 1}
    \cup {[host |-> h, port |-> FirstPort] : h \in 1 .. c}

\* A client's connection reaches the firmware, which has not accepted it yet.
Knock(c) ==
  /\ ByTCP /\ link
  /\ conn[c] = "none" /\ \A b \in 1 .. c - 1 : conn[b] # "none"
  /\ conn' = [conn EXCEPT ![c] = "waiting"]
  /\ \E caller \in Callers(c) :
       /\ host' = [host EXCEPT ![c] = caller.host]
       /\ announced' = [announced EXCEPT ![c] = caller.port]
  /\ UNCHANGED <<stream, sent, unsent, cuts, dgrams>>

\* The client accepted acts.  What one did before it was accepted is seen no
\* earlier than what it does right after.
Open == conn[client] = "open"

\* The next part of a package, or the first one of the next.
SendPart ==
  /\ ByTCP /\ link /\ connected /\ Open
  /\ \/ /\ unsent > 0
        /\ unsent' = unsent - 1 /\ UNCHANGED sent
     \/ /\ unsent = 0 /\ sent < MaxPackages
        /\ sent' = sent + 1 /\ unsent' = PkgSz - 1
  /\ stream' = Append(stream,
                      [conn |-> client, num |-> sent', part |-> PkgSz - unsent'])
  /\ UNCHANGED <<callers, conn, cuts, dgrams>>

\* The client gives up the package it is sending.
Cut ==
  /\ ByTCP /\ connected /\ Open /\ unsent > 0 /\ cuts < MaxCuts
  /\ unsent' = 0 /\ cuts' = cuts + 1
  /\ UNCHANGED <<callers, conn, stream, sent, dgrams>>

Close ==
  /\ ByTCP /\ link /\ connected /\ Open
  /\ conn' = [conn EXCEPT ![client] = "closed"]
  /\ UNCHANGED <<callers, stream, sent, unsent, cuts, dgrams>>

\* The client accepted, or one that waits, sends a package by UDP, from its present
\* socket or an earlier one.  It may arrive at any later time, so that it is enough
\* to send between two packages.  Bound: one datagram at a time.
SendDatagram(c) ==
  /\ ByUDP /\ UseUDP /\ dgrams = {} /\ unsent = 0 /\ sent < MaxPackages
  /\ (connected /\ Open /\ c = client) \/ conn[c] = "waiting"
  /\ sent' = sent + 1
  /\ \E s \in 1 .. MaxSockets :
       dgrams' = {[from |-> [conn |-> c, socket |-> s], num |-> sent']}
  /\ UNCHANGED <<callers, conn, stream, unsent, cuts>>

\* A datagram stays in the network, and may come again, until it is lost.
Lose(d) ==
  /\ ByUDP /\ d \in dgrams
  /\ dgrams' = dgrams \ {d}
  /\ UNCHANGED <<callers, conn, stream, sent, unsent, cuts>>

\* Time counts while there is a client, and is looked at once a pass.
Tick ==
  /\ at = "tcp" /\ connected /\ age <= AlarmDelay
  /\ age' = age + 1
  /\ UNCHANGED <<at, bootVars, tcpVars, rxBuff, event, udpVars, link, netVars,
                 faults, mixed>>

\* setup(), and loop() with each pass, look at the cable in one place.
Cable == Alone /\ at \in {"net", "tcp"} /\ UNCHANGED netVars

LinkDown ==
  /\ Cable /\ link /\ faults < MaxFaults
  /\ link' = FALSE /\ faults' = faults + 1

LinkUp == Cable /\ ~link /\ link' = TRUE /\ UNCHANGED faults

\* The reset button, or the power was gone and with it the signature.  A reset
\* while the processor is being reset anyway cannot be told from that.
HardwareReset ==
  /\ at # "boot" /\ faults < MaxFaults /\ faults' = faults + 1
  /\ sig' \in {sig, FALSE} /\ asked' = FALSE
  /\ Restarted
  /\ UNCHANGED <<devicesReset, link>>

Environment ==
  \/ \E c \in Conns : Knock(c) \/ SendDatagram(c)
  \/ SendPart \/ Cut \/ Close
  \/ \E d \in dgrams : Lose(d)
  \/ Tick \/ LinkDown \/ LinkUp \/ HardwareReset

Next == Firmware \/ Environment

Spec == Init /\ [][Next]_vars

\* The processor runs on, and time passes.  Nothing makes clients send or
\* close, and nothing mends a cable.
FairSpec == Spec /\ WF_vars(Firmware) /\ SF_vars(Tick)
-----------------------------------------------------------------------------
(* Properties.                                                             *)

\* A request that goes to the ports is one package, though TCP packages come in
\* parts, datagrams come in between and both are read into one buffer; when
\* the client gives up a package half way, one request is mixed of two, and
\* the checksum of the next header ends the connection
\* (tcpserver.cpp:45-68, udpserver.cpp:55-82).
RequestsAreWhole == connected => mixed <= cuts

\* A response over UDP goes to the address of the client that is connected and to a
\* port from which a client came that announced what this one did: not to what was
\* learnt of a client before it, although address, server port and client port are
\* learnt at three times and the server is told of a change one step later
\* (udpserver.cpp:33-50, 73-75, 87).  It is a port this client has used, perhaps with a
\* socket it has given up, unless another client announces the same.
AnswersAreForTheClient ==
  at = "work" =>
    \A a \in Answers : a.by = "UDP" =>
      a.addr = host[client] /\ announced[a.to.conn] = announced[client]

\* "record client's port if all OK" (udpserver.cpp:73): the port is one of the client
\* connected.  It does not hold: nobody looks at who sent the datagram.
PortIsTheClients ==
  at = "work" /\ connected /\ clientUDPPort # NoSource => clientUDPPort.conn = client

\* The firmware resets the connected devices on every boot but those it asked
\* for itself, for want of a network (main_loop.cpp:94-110,
\* watchdog_AVR.cpp:10-26): a lost link leaves the devices running, and the
\* reset button does not, whatever boots came before.
DevicesKeepRunning == at # "boot" => devicesReset = ~asked

\* A client that waits is accepted in the end, however the one before it
\* stopped: by closing, by falling silent, or stuck half way through a
\* package.  Datagrams that come again do not keep its place
\* (tcpserver.cpp:24-43, udpserver.cpp:69, :78).  MaxPackages ends what the one
\* before sends; one that never stops sending is never made to leave.
WaitingIsServed == \A c \in Conns : conn[c] = "waiting" ~> conn[c] # "waiting"

\* A link that stays down makes the firmware boot again, with a client or
\* without (main_loop.cpp:173-174, tcpserver.cpp:38).
LinkLossReboots == ~link ~> (link \/ at = "boot")
=============================================================================
