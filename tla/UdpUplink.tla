----------------------------- MODULE UdpUplink -----------------------------
(***************************************************************************)
(* The way of a port's data over UDP, from the client's sender to the      *)
(* firmware's ring buffer, across damaged packages, UDP connections that   *)
(* are replaced and TCP connections that are remade:                       *)
(*                                                                         *)
(*   the client's OnSendPackage numbers and seals each package;            *)
(*   UDPServer::ProcessRX checks the size, the checksum and the number,    *)
(*     and remembers the client's port;                                    *)
(*   UARTWorker::ProcessRequest writes the payload to the ring buffer,     *)
(*     ProcessRX drains it (module RingBuffer).                            *)
(*                                                                         *)
(* The numbers belong to two lives: the client's start anew with each UDP  *)
(* connection, the firmware's only with a TCP connection.  What the filter *)
(* makes of loss, duplicates and reordering within one life is the subject *)
(* of UdpSequence; here the network loses and damages packages.            *)
(*                                                                         *)
(* What a package carries besides its number is chosen when it arrives.    *)
(***************************************************************************)
EXTENDS RingBuffer, Package, SequenceNumbers

CONSTANTS Counters,    \* the counters packages carry
          MaxFlight,   \* bound: packages under way
          MaxLost,     \* bound: packages lost or damaged in a row
          MaxSockets   \* bound: UDP connections per TCP connection

ASSUME UplinkAssumption ==
  /\ Modulus <= 65536 /\ MaxPayload <= 255
  /\ \A c \in Counters : c \in Nat /\ c \div 65536 < 65536
  /\ MaxFlight \in Nat /\ MaxSockets \in Nat
  /\ MaxLost \in Nat /\ MaxLost + 2 <= Half

VARIABLES clientSeq,      \* the client's next number
          socket,         \* the client's socket, 1, 2, ... for each TCP connection
          underway,       \* the packages under way, [seq, socket], the oldest first
          serverSeq,      \* the firmware's last number
          clientUDPPort,  \* the socket the firmware answers to, 0 for none
          heard,          \* history: the socket of the last package looked at
          refused,        \* history: intact packages of that socket refused in a row
          lost,           \* history: packages lost or damaged in a row
          steady,         \* history: no UDP connection replaced since the last TCP connection
          misread         \* history: a package was taken for another one

firmware == <<serverSeq, clientUDPPort, heard, refused, misread>>

uplink == <<clientSeq, socket, underway, firmware, lost, steady>>

uplinkVars == <<vars, uplink>>

UplinkInit ==
  /\ Init
  /\ clientSeq = Modulus - 1 /\ socket = 1 /\ underway = << >>
  /\ serverSeq = 0 /\ clientUDPPort = 0
  /\ heard = 1 /\ refused = 0 /\ lost = 0 /\ steady = TRUE /\ misread = FALSE
-----------------------------------------------------------------------------
(* Blocks.  The first port sends size bytes of data or nothing, the others *)
(* nothing.                                                                *)

Request(size) ==
  [type |-> IF size = 0 THEN NoCommand ELSE Data, arg |-> 0, plSz |-> size]

Header(seq, counter, size) ==
  [seq |-> seq, counter |-> counter,
   requests |-> [i \in 1 .. PortCount |-> Request(IF i = 1 THEN size ELSE 0)]]

Headers == {Header(s, c, n) : s \in Numbers, c \in Counters, n \in 0 .. MaxPayload}

\* The blocks the checksum lets through, of all a header may arrive as.
LetThrough ==
  [h \in Headers |-> {b \in {Sealed(h)} \cup Damaged(Sealed(h)) : Intact(b)}]

\* !DropOldSeq()
Newer(checkSeq) == Minus(serverSeq, checkSeq) > Minus(checkSeq, serverSeq)
-----------------------------------------------------------------------------
(* The client.                                                             *)

SendPackage ==
  /\ Len(underway) < MaxFlight
  /\ underway' = Append(underway, [seq |-> clientSeq, socket |-> socket])
  /\ clientSeq' = Increment(clientSeq)
  /\ UNCHANGED <<vars, socket, firmware, lost, steady>>

\* Sending or receiving failed: the UDP connection is disposed of, the next use
\* makes another one, with numbers of its own.
Renew ==
  /\ socket < MaxSockets
  /\ socket' = socket + 1 /\ clientSeq' = Modulus - 1
  /\ steady' = FALSE
  /\ UNCHANGED <<vars, underway, firmware, lost>>

\* A new TCP connection: both sides start anew, on another UDP port, and what
\* is under way to the old one is gone.  The ring buffer stays as it is.
NewSession ==
  /\ socket' = 1 /\ clientSeq' = Modulus - 1 /\ underway' = << >>
  /\ serverSeq' = 0 /\ clientUDPPort' = 0
  /\ heard' = 1 /\ refused' = 0 /\ lost' = 0 /\ steady' = TRUE
  /\ UNCHANGED <<vars, misread>>
-----------------------------------------------------------------------------
(* The network and the firmware.                                           *)

\* The first package under way is gone.
Gone ==
  /\ underway # << >> /\ lost < MaxLost
  /\ underway' = Tail(underway) /\ lost' = lost + 1
  /\ UNCHANGED <<vars, clientSeq, socket, steady>>

LosePackage == Gone /\ UNCHANGED firmware

\* ProcessRequest of the port: a Data request's payload goes to the ring buffer.
ProcessRequest(request, data) ==
  IF request.type = Data THEN Write(data) ELSE UNCHANGED vars

\* The first package under way arrives and gets through the checksum.
ReceivePackage(counter, data) ==
  LET package == Head(underway)
      header  == Header(package.seq, counter, Len(data))
  IN  /\ underway # << >>
      /\ underway' = Tail(underway)
      /\ heard' = package.socket
      /\ \E block \in LetThrough[header] :
           IF Newer(Sequence(block))
             THEN /\ serverSeq' = Sequence(block)
                  /\ clientUDPPort' = IF clientUDPPort = 0 THEN package.socket ELSE clientUDPPort
                  /\ misread' = (misread \/ Read(block) # header)
                  /\ refused' = 0 /\ lost' = 0
                  /\ ProcessRequest(MapRequest(0, block), data)
             ELSE /\ refused' = IF package.socket = heard THEN refused + 1 ELSE 1
                  /\ UNCHANGED <<vars, serverSeq, clientUDPPort, lost, misread>>
      /\ UNCHANGED <<clientSeq, socket, steady>>

\* Faulty variant: the number is looked at, and remembered, before the checksum.
ReceiveDamagedNumberFirst ==
  /\ Gone
  /\ serverSeq' \in {serverSeq} \cup {s \in Numbers : Newer(s)}
  /\ UNCHANGED <<clientUDPPort, heard, refused, misread>>

\* It arrives too short or with a wrong checksum and is dropped.
ReceiveDamaged == Gone /\ UNCHANGED firmware

\* Steps of the UART worker that leave the network alone.
Uart ==
  /\ Reset \/ \E n \in 1 .. Size : Drain(n)
  /\ UNCHANGED uplink

UplinkNext ==
  \/ SendPackage
  \/ Renew
  \/ NewSession
  \/ LosePackage
  \/ \E counter \in Counters, data \in Payload \cup {<< >>} : ReceivePackage(counter, data)
  \/ ReceiveDamaged
  \/ Uart

UplinkSpec == UplinkInit /\ [][UplinkNext]_uplinkVars
-----------------------------------------------------------------------------
(* Properties, besides those of the ring buffer.                           *)

\* Whatever byte of its control block is damaged on the way, no package is
\* taken for another one: the number, the counter and every request the
\* firmware acts on are those the client wrote (crc8.cpp:44-58,
\* udpserver.cpp:70, Command.cpp:4-32, main_loop.cpp:157-161).
NothingIsMisread == ~ misread

\* While loss in a row stays below half of the numbers, the firmware refuses
\* no more than the first two packages of a TCP connection (its number starts
\* at 0, the client's at 65535).  But when the client replaces its UDP
\* connection meanwhile, the firmware may go deaf to each of them for as long
\* as half of the numbers take (UDPConnection.cpp:5-10,
\* udpserver.cpp:17-26,34-43).
DeafnessIsBounded == refused <= (IF steady THEN 2 ELSE Half + 1)
=============================================================================
