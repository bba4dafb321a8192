----------------------- MODULE FirmwareServersProofs -----------------------
(***************************************************************************)
(* Theorems about FirmwareServers, for every size of a package, any number *)
(* of clients, packages and faults, and with or without UDP: what the      *)
(* firmware resets when it boots, that a request is one package, and whom  *)
(* a response goes to.                                                     *)
(*                                                                         *)
(* That mixed requests are no more than packages given up (StreamInv) is   *)
(* shown by labelling every part that waits with the packages given up     *)
(* before it was sent.  Within one label part follows part; so a request   *)
(* that begins with a header and is made of two packages reaches from one  *)
(* label into another, and whatever comes after it is labelled higher.     *)
(***************************************************************************)
EXTENDS FirmwareServers, SequenceTheorems, TLAPS

-----------------------------------------------------------------------------
(* The type invariant.                                                     *)

TypeOK ==
  /\ at \in {"boot", "net", "tcp", "udp", "work"}
  /\ sig \in BOOLEAN /\ devicesReset \in BOOLEAN /\ asked \in BOOLEAN
  /\ connected \in BOOLEAN /\ client \in Conns \cup {None} /\ pkgLeft \in 0 .. PkgSz
  /\ age \in Nat
  /\ rxBuff \in [1 .. PkgSz -> Parts \cup {NoPart}]
  /\ event.type \in {"NoEvent", "Connected", "Disconnected", "NewRequest"}
  /\ serverStarted \in BOOLEAN /\ serverSeq \in Nat
  /\ clientUDPPort \in Sources \cup {NoSource}
  /\ link \in BOOLEAN
  /\ host \in [Conns -> Nat] /\ announced \in [Conns -> Nat]
  /\ conn \in [Conns -> {"none", "waiting", "open", "closed"}]
  /\ stream \in Seq(Parts)
  /\ sent \in 0 .. MaxPackages /\ unsent \in 0 .. PkgSz - 1
  /\ unsent > 0 => sent > 0   \* a package under way was begun
  /\ cuts \in Nat /\ mixed \in Nat /\ faults \in Nat
  /\ dgrams \subseteq Datagrams
  /\ connected => client \in Conns

LEMMA Bounds ==
  /\ PkgSz \in Nat /\ PkgSz > 0 /\ AlarmDelay \in Nat
  /\ MaxConns \in Nat /\ MaxPackages \in Nat /\ MaxFaults \in Nat
  /\ MaxSockets \in Nat /\ MaxSockets > 0
BY ServersAssumption

USE Bounds

LEMMA RestIsPart ==
  ASSUME NEW u \in 0 .. PkgSz - 1
  PROVE  PkgSz - u \in 1 .. PkgSz
<1>1. PICK p \in Nat : p = PkgSz
  OBVIOUS
<1>2. u \in 0 .. p - 1
  BY <1>1
<1>3. p - u \in 1 .. p
  BY ONLY p \in Nat, <1>2
<1> QED
  BY <1>1, <1>3

LEMMA TakenType ==
  ASSUME TypeOK
  PROVE  /\ Taken \in 0 .. Len(stream) /\ Taken <= pkgLeft /\ Taken \in Nat
         /\ Len(stream) \in Nat
         /\ SubSeq(stream, Taken + 1, Len(stream)) \in Seq(Parts)
<1>1. stream \in Seq(Parts) /\ pkgLeft \in 0 .. PkgSz
  BY DEF TypeOK
<1>2. Len(stream) \in Nat
  BY <1>1, LenProperties
<1>3. Taken \in 0 .. Len(stream) /\ Taken <= pkgLeft
  BY <1>1, <1>2 DEF Taken
<1>4. Taken \in Nat
  BY <1>2, <1>3
<1>5. \A i \in 1 .. Len(stream) : stream[i] \in Parts
  BY <1>1, ElementOfSeq
<1>6. SubSeq(stream, Taken + 1, Len(stream)) \in Seq(Parts)
  BY ONLY <1>1, <1>2, <1>4, <1>5, SubSeqProperties
<1> QED
  BY <1>2, <1>3, <1>4, <1>6

LEMMA FilledType ==
  ASSUME TypeOK
  PROVE  Filled \in [1 .. PkgSz -> Parts \cup {NoPart}]
<1>1. /\ pkgLeft \in 0 .. PkgSz /\ rxBuff \in [1 .. PkgSz -> Parts \cup {NoPart}]
      /\ stream \in Seq(Parts)
  BY DEF TypeOK
<1>2. \A i \in 1 .. Len(stream) : stream[i] \in Parts
  BY <1>1, ElementOfSeq
<1>3. Taken \in 0 .. Len(stream) /\ Len(stream) \in Nat
  BY TakenType
<1>4. PICK h \in Nat : h = PkgSz - pkgLeft
  BY <1>1
<1>5. PICK t \in Nat : t = Taken /\ t <= Len(stream)
  BY <1>3
<1>6. \A i \in 1 .. PkgSz : (IF i \in h + 1 .. h + t THEN stream[i - h] ELSE rxBuff[i])
                               \in Parts \cup {NoPart}
  <2> TAKE i \in 1 .. PkgSz
  <2>1. CASE i \in h + 1 .. h + t
    <3>1. i - h \in 1 .. Len(stream)
      BY <1>3, <1>5, <2>1
    <3> QED BY <1>2, <2>1, <3>1
  <2>2. CASE i \notin h + 1 .. h + t
    BY <1>1, <2>2
  <2> QED BY <2>1, <2>2
<1>7. Filled = [i \in 1 .. PkgSz |-> IF i \in h + 1 .. h + t THEN stream[i - h] ELSE rxBuff[i]]
  BY <1>4, <1>5 DEF Filled
<1> QED
  BY ONLY <1>6, <1>7

LEMMA InitTypeOK == Init => TypeOK
<1> SUFFICES ASSUME Init PROVE TypeOK
  OBVIOUS
<1>1. stream \in Seq(Parts)
  BY DEF Init
<1>2. rxBuff \in [1 .. PkgSz -> Parts \cup {NoPart}]
  BY DEF Init
<1>3. event.type = "NoEvent"
  BY DEF Init, NoEvent
<1>4. conn \in [Conns -> {"none", "waiting", "open", "closed"}]
  BY DEF Init
<1>5. sent \in 0 .. MaxPackages /\ unsent \in 0 .. PkgSz - 1 /\ pkgLeft \in 0 .. PkgSz
  BY DEF Init
<1>6. host \in [Conns -> Nat] /\ announced \in [Conns -> Nat]
  BY DEF Init, None
<1> QED
  BY <1>1, <1>2, <1>3, <1>4, <1>5, <1>6 DEF Init, TypeOK

\* A restart, whatever caused it.
LEMMA RestartedTypeOK ==
  ASSUME TypeOK, Restarted, sig' \in BOOLEAN, asked' \in BOOLEAN, UNCHANGED <<devicesReset, link>>,
         faults' \in Nat
  PROVE  TypeOK'
<1>1. stream' \in Seq(Parts)
  BY DEF Restarted, Forgotten
<1>2. rxBuff' \in [1 .. PkgSz -> Parts \cup {NoPart}]
  BY DEF Restarted
<1>3. event'.type = "NoEvent"
  BY DEF Restarted, NoEvent
<1>4. conn' \in [Conns -> {"none", "waiting", "open", "closed"}]
  BY DEF Restarted, Forgotten
<1>5. pkgLeft' \in 0 .. PkgSz
  BY DEF Restarted
<1>6. /\ sent' = sent /\ unsent' = unsent /\ cuts' = cuts /\ dgrams' = dgrams
      /\ host' = host /\ announced' = announced
  BY DEF Restarted, Forgotten, callers
<1> QED
  BY <1>1, <1>2, <1>3, <1>4, <1>5, <1>6 DEF Restarted, TypeOK

LEMMA NextTypeOK == TypeOK /\ [Next]_vars => TypeOK'
<1> SUFFICES ASSUME TypeOK, [Next]_vars PROVE TypeOK'
  OBVIOUS
<1> USE DEF bootVars, tcpVars, udpVars, callers, netVars
<1>1. CASE Boot
  BY <1>1 DEF Boot, TypeOK
<1>2. CASE Setup
  BY <1>2 DEF Setup, TypeOK
<1>3. CASE SetupFails
  <2>1. faults' \in Nat
    BY <1>3 DEF SetupFails, TypeOK
  <2> QED BY <1>3, <2>1, RestartedTypeOK DEF SetupFails, SystemReset
<1>4. CASE CheckLink
  <2>1. faults' \in Nat
    BY <1>4 DEF CheckLink, TypeOK
  <2> QED BY <1>4, <2>1, RestartedTypeOK DEF CheckLink, SystemReset
<1>5. CASE NoClient
  BY <1>5 DEF NoClient, ReadsOnly, NoEvent, TypeOK
<1>6. CASE Accept
  <2>1. PICK c \in Conns : /\ conn' = [conn EXCEPT ![c] = "open"]
                           /\ client' = c /\ event' = Event("Connected", host[c])
    BY <1>6 DEF Accept
  <2>2. conn' \in [Conns -> {"none", "waiting", "open", "closed"}]
    BY <2>1 DEF TypeOK
  <2>3. event'.type = "Connected"
    BY <2>1 DEF Event
  <2> QED BY <1>6, <2>1, <2>2, <2>3 DEF Accept, ReadsOnly, TypeOK
<1>7. CASE Drop
  <2>1. conn' \in [Conns -> {"none", "waiting", "open", "closed"}]
    BY <1>7 DEF Drop, Stop, TypeOK
  <2>2. stream' \in Seq(Parts) /\ event'.type = "Disconnected"
    BY <1>7 DEF Drop, Stop, Event
  <2> QED BY <1>7, <2>1, <2>2 DEF Drop, Stop, ReadsOnly, TypeOK
<1>8. CASE Quiet
  BY <1>8 DEF Quiet, ReadsOnly, NoEvent, TypeOK
<1>9. CASE ReadPart
  <2>1. rxBuff' \in [1 .. PkgSz -> Parts \cup {NoPart}] /\ stream' \in Seq(Parts)
    BY <1>9, FilledType, TakenType DEF ReadPart, Read, Unread
  <2>2. pkgLeft' \in 0 .. PkgSz
    <3>1. Taken \in Nat /\ Taken <= pkgLeft
      BY TakenType
    <3> QED BY <1>9, <3>1 DEF ReadPart, TypeOK
  <2>3. event'.type = "NoEvent"
    BY <1>9 DEF ReadPart, NoEvent
  <2> QED BY <1>9, <2>1, <2>2, <2>3 DEF ReadPart, Read, ReadsOnly, TypeOK
<1>10. CASE ReadRequest
  <2>1. rxBuff' \in [1 .. PkgSz -> Parts \cup {NoPart}] /\ stream' \in Seq(Parts)
    BY <1>10, FilledType, TakenType DEF ReadRequest, Read, Unread
  <2>2. event'.type = "NewRequest"
    BY <1>10 DEF ReadRequest, Event
  <2> QED BY <1>10, <2>1, <2>2 DEF ReadRequest, Read, ReadsOnly, TypeOK
<1>11. CASE ReadCorrupt
  <2>1. rxBuff' \in [1 .. PkgSz -> Parts \cup {NoPart}]
    BY <1>11, FilledType DEF ReadCorrupt, Read
  <2>2. conn' \in [Conns -> {"none", "waiting", "open", "closed"}]
    BY <1>11 DEF ReadCorrupt, Stop, TypeOK
  <2>3. stream' \in Seq(Parts) /\ event'.type = "Disconnected"
    BY <1>11 DEF ReadCorrupt, Stop, Event
  <2>4. /\ connected' = FALSE /\ pkgLeft' = 0 /\ at' = "udp"
        /\ UNCHANGED <<client, age, callers, sent, unsent, cuts, dgrams, mixed, bootVars,
                       udpVars, link, faults>>
    BY ONLY <1>11 DEF ReadCorrupt, Read, Stop, ReadsOnly
  <2>5. pkgLeft' \in 0 .. PkgSz
    BY ONLY <2>4, Bounds
  <2> QED BY <2>1, <2>2, <2>3, <2>4, <2>5 DEF TypeOK
<1>12. CASE RestartUDP
  BY <1>12 DEF RestartUDP, ServesOnly, TypeOK
<1>13. CASE StartUDP
  BY <1>13 DEF StartUDP, ServesOnly, TypeOK
<1>14. CASE PassUDP
  BY <1>14 DEF PassUDP, ServesOnly, TypeOK
<1>15. ASSUME NEW d \in dgrams, NEW good \in BOOLEAN, ReceiveUDP(d, good)
       PROVE  TypeOK'
  <2>1. d.from \in Sources /\ d.from.conn \in Conns /\ d.num \in 1 .. MaxPackages
    BY DEF TypeOK, Datagrams, Sources
  <2>2. rxBuff' \in [1 .. PkgSz -> Parts \cup {NoPart}]
    <3>1. \A i \in 1 .. PkgSz :
            (IF good THEN [conn |-> d.from.conn, num |-> d.num, part |-> i] ELSE NoPart)
              \in Parts \cup {NoPart}
      BY <2>1 DEF Parts
    <3> QED BY <1>15, <3>1 DEF ReceiveUDP
  <2>3. CASE good /\ d.num > serverSeq
    <3>1. event' = Event("NewRequest", None) /\ serverSeq' = d.num /\ age' = 0
      BY ONLY <1>15, <2>3 DEF ReceiveUDP
    <3>2. event'.type = "NewRequest"
      BY ONLY <3>1 DEF Event
    <3>3. at' = "work" /\ UNCHANGED <<serverStarted, bootVars, tcpVars, link, netVars, faults, mixed>>
      BY ONLY <1>15 DEF ReceiveUDP, ServesOnly
    <3>4. clientUDPPort' \in {clientUDPPort, d.from}
      BY ONLY <1>15, <2>3 DEF ReceiveUDP
    <3>5. clientUDPPort' \in Sources \cup {NoSource}
      BY ONLY TypeOK, <2>1, <3>4 DEF TypeOK
    <3> QED BY <2>1, <2>2, <3>1, <3>2, <3>3, <3>5 DEF TypeOK
  <2>4. CASE ~ (good /\ d.num > serverSeq)
    BY <1>15, <2>2, <2>4 DEF ReceiveUDP, ServesOnly, TypeOK
  <2> QED BY <2>3, <2>4
<1>16. CASE Work
  <2>1. rxBuff' \in [1 .. PkgSz -> Parts \cup {NoPart}]
    BY <1>16 DEF Work, TypeOK
  <2> QED BY <1>16, <2>1 DEF Work, NoEvent, TypeOK
<1>17. ASSUME NEW c \in Conns, Knock(c)
       PROVE  TypeOK'
  <2>1. PICK caller \in Callers(c) : /\ host' = [host EXCEPT ![c] = caller.host]
                                     /\ announced' = [announced EXCEPT ![c] = caller.port]
    BY <1>17 DEF Knock
  <2>2. caller.host \in Nat /\ caller.port \in Nat
    <3>1. CASE \E b \in 1 .. c - 1 : caller = [host |-> host[b], port |-> announced[b] + 1]
      <4>1. PICK b \in 1 .. c - 1 : caller = [host |-> host[b], port |-> announced[b] + 1]
        BY <3>1
      <4>2. b \in Conns
        BY <4>1 DEF Conns
      <4> QED BY <4>1, <4>2 DEF TypeOK
    <3>2. CASE \E h \in 1 .. c : caller = [host |-> h, port |-> FirstPort]
      BY <3>2 DEF FirstPort
    <3> QED BY <2>1, <3>1, <3>2 DEF Callers
  <2>3. host' \in [Conns -> Nat] /\ announced' \in [Conns -> Nat]
    BY <2>1, <2>2 DEF TypeOK
  <2> QED BY <1>17, <2>3 DEF Knock, ByTCP, Network, Alone, TypeOK
<1>18. CASE SendPart
  <2>1. /\ sent' \in 1 .. MaxPackages /\ unsent' \in 0 .. PkgSz - 1
    <3>1. CASE unsent > 0
      BY <1>18, <3>1 DEF SendPart, TypeOK
    <3>2. CASE unsent = 0
      BY <1>18, <3>2 DEF SendPart, TypeOK
    <3> QED BY <3>1, <3>2 DEF TypeOK
  <2>2. [conn |-> client, num |-> sent', part |-> PkgSz - unsent'] \in Parts
    <3>1. client \in Conns
      BY <1>18 DEF SendPart, TypeOK
    <3>2. PkgSz - unsent' \in 1 .. PkgSz
      BY <2>1, RestIsPart
    <3> QED BY ONLY <2>1, <3>1, <3>2 DEF Parts
  <2>3. stream' \in Seq(Parts)
    BY <1>18, <2>2, AppendProperties DEF SendPart, TypeOK
  <2> QED BY <1>18, <2>1, <2>3 DEF SendPart, ByTCP, Network, Alone, TypeOK
<1>19. CASE Cut
  BY <1>19 DEF Cut, ByTCP, Network, Alone, TypeOK
<1>20. CASE Close
  BY <1>20 DEF Close, ByTCP, Network, Alone, TypeOK
<1>21. ASSUME NEW c \in Conns, SendDatagram(c)
       PROVE  TypeOK'
  <2>1. sent' \in 1 .. MaxPackages
    BY <1>21 DEF SendDatagram, TypeOK
  <2>2. PICK s \in 1 .. MaxSockets :
          dgrams' = {[from |-> [conn |-> c, socket |-> s], num |-> sent']}
    BY <1>21 DEF SendDatagram
  <2>3. [conn |-> c, socket |-> s] \in Sources
    BY DEF Sources
  <2>4. dgrams' \subseteq Datagrams
    BY <2>1, <2>2, <2>3 DEF Datagrams
  <2> QED BY <1>21, <2>1, <2>4 DEF SendDatagram, ByUDP, Network, Alone, TypeOK
<1>22. ASSUME NEW d \in dgrams, Lose(d)
       PROVE  TypeOK'
  BY <1>22 DEF Lose, ByUDP, Network, Alone, TypeOK
<1>23. CASE Tick
  BY <1>23 DEF Tick, TypeOK
<1>24. CASE LinkDown
  <2>1. faults' \in Nat
    BY <1>24 DEF LinkDown, TypeOK
  <2> QED BY <1>24, <2>1, ZenonT(60) DEF LinkDown, Cable, Alone, TypeOK
<1>25. CASE LinkUp
  BY <1>25 DEF LinkUp, Cable, Alone, TypeOK
<1>26. CASE HardwareReset
  <2>1. faults' \in Nat /\ asked' \in BOOLEAN
    <3>1. faults' = faults + 1 /\ asked' = FALSE /\ faults \in Nat
      BY ONLY <1>26, TypeOK DEF HardwareReset, TypeOK
    <3>2. asked' \in BOOLEAN
      BY ONLY <3>1, Zenon
    <3>3. faults' \in Nat
      <4>1. faults' = faults + 1 /\ faults \in Nat
        BY ONLY <3>1
      <4> QED BY ONLY <4>1
    <3> QED BY ONLY <3>2, <3>3
  <2>2. sig' \in {sig, FALSE} /\ sig \in BOOLEAN
    BY ONLY <1>26, TypeOK DEF HardwareReset, TypeOK
  <2>3. sig' \in BOOLEAN
    BY ONLY <2>2, Zenon
  <2>4. Restarted /\ UNCHANGED <<devicesReset, link>>
    BY ONLY <1>26 DEF HardwareReset
  <2> QED BY ONLY TypeOK, <2>1, <2>3, <2>4, RestartedTypeOK
<1>27. CASE UNCHANGED vars
  BY <1>27 DEF vars, TypeOK
<1> QED
  BY <1>1, <1>2, <1>3, <1>4, <1>5, <1>6, <1>7, <1>8, <1>9, <1>10, <1>11, <1>12, <1>13,
     <1>14, <1>15, <1>16, <1>17, <1>18, <1>19, <1>20, <1>21, <1>22, <1>23, <1>24,
     <1>25, <1>26, <1>27
  DEF Next, Firmware, ServeTCP, ServeUDP, Environment

\* The types of the state of the servers, the clients and the network.
THEOREM TypeCorrect == Spec => []TypeOK
<1> QED
  BY InitTypeOK, NextTypeOK, PTL DEF Spec
-----------------------------------------------------------------------------
(* Booting.                                                                *)

\* While the firmware boots the signature tells who asked for it; afterwards it
\* is gone and the devices have been reset if nobody did.
SignatureTellsWhoAsked ==
  IF at = "boot" THEN sig = asked ELSE ~sig /\ devicesReset = ~asked

LEMMA InitSignature == Init => SignatureTellsWhoAsked
BY DEF Init, SignatureTellsWhoAsked

LEMMA NextSignature ==
  TypeOK /\ SignatureTellsWhoAsked /\ [Next]_vars => SignatureTellsWhoAsked'
<1> SUFFICES ASSUME TypeOK, SignatureTellsWhoAsked, [Next]_vars
             PROVE  SignatureTellsWhoAsked'
  OBVIOUS
<1> USE DEF SignatureTellsWhoAsked
<1>1. CASE Boot
  BY <1>1 DEF Boot, TypeOK
<1>2. CASE Setup
  BY <1>2 DEF Setup, bootVars
<1>3. CASE SetupFails
  BY <1>3 DEF SetupFails, SystemReset, Restarted
<1>4. CASE CheckLink
  BY <1>4 DEF CheckLink, SystemReset, Restarted
<1>5. CASE ServeTCP
  <2>1. ReadsOnly
    BY <1>5 DEF ServeTCP, NoClient, Accept, Drop, Quiet, Read, ReadPart, ReadRequest,
                ReadCorrupt
  <2> QED BY <2>1 DEF ReadsOnly, bootVars
<1>6. CASE ServeUDP
  <2>1. ServesOnly
    BY <1>6 DEF ServeUDP, RestartUDP, StartUDP, PassUDP, ReceiveUDP
  <2> QED BY <2>1 DEF ServesOnly, bootVars
<1>7. CASE Work
  BY <1>7 DEF Work, bootVars
<1>8. CASE HardwareReset
  <2>1. sig' \in {sig, FALSE} /\ asked' = FALSE /\ at # "boot" /\ at' = "boot"
    BY ONLY <1>8 DEF HardwareReset, Restarted
  <2>2. ~ sig
    BY <2>1
  <2>3. sig' = FALSE
    <3>1. sig = FALSE
      BY ONLY <2>2, TypeOK, Zenon DEF TypeOK
    <3> QED BY ONLY <2>1, <3>1, Zenon
  <2> QED BY <2>1, <2>3
<1>9. CASE Tick
  BY <1>9 DEF Tick, bootVars
<1>10. CASE Alone
  BY <1>10 DEF Alone, bootVars
<1>11. CASE UNCHANGED vars
  BY <1>11 DEF vars, bootVars
<1>12. Environment => Alone \/ Tick \/ HardwareReset
  BY DEF Environment, Knock, SendPart, Cut, Close, SendDatagram, Lose, LinkDown, LinkUp,
         Cable, ByTCP, ByUDP, Network
<1> QED
  BY <1>1, <1>2, <1>3, <1>4, <1>5, <1>6, <1>7, <1>8, <1>9, <1>10, <1>11, <1>12
  DEF Next, Firmware

\* The firmware resets the connected devices on every boot but those it asked
\* for itself (watchdog_AVR.cpp:10-26, main_loop.cpp:94-110).
THEOREM DevicesAreLeftAlone == Spec => []DevicesKeepRunning
<1>1. TypeOK /\ SignatureTellsWhoAsked => DevicesKeepRunning
  BY DEF SignatureTellsWhoAsked, DevicesKeepRunning
<1> QED
  BY <1>1, InitTypeOK, NextTypeOK, InitSignature, NextSignature, PTL DEF Spec
-----------------------------------------------------------------------------
(* The parts of packages that wait for the firmware.                       *)

\* What the client has sent and no request has used: the parts in the buffer,
\* then those received and not read.
Has == PkgSz - pkgLeft
Length == Has + Len(stream)
Line == [i \in 1 .. Length |-> IF i <= Has THEN rxBuff[i] ELSE stream[i - Has]]

\* A request made of two packages is counted when it goes to the ports.
Mixes == /\ at \in {"udp", "work"} /\ event.type = "NewRequest"
         /\ ~Whole(rxBuff)
Counted == IF Mixes THEN mixed + 1 ELSE mixed

\* Part i of a line is labelled with the packages given up before it was sent:
\* labels do not decrease, part follows part within a label, and the last label
\* is that of the package being sent (num s, u parts still to come).
InRange(lab, n, low, k) == \A i \in 1 .. n : lab[i] \in low .. k
Ascending(lab, n) == \A i \in 1 .. n : \A j \in 1 .. n : i <= j => lab[i] <= lab[j]
Continuous(line, lab, n) ==
  \A i \in 1 .. n : \A j \in 1 .. n :
    i <= j /\ lab[i] = lab[j] /\ j - i <= PkgSz - line[i].part =>
      line[j].num = line[i].num /\ line[j].part = line[i].part + (j - i)
Current(line, lab, n, k, s, u) ==
  \A i \in 1 .. n :
    lab[i] = k => \/ n - i >= PkgSz - line[i].part
                  \/ /\ line[i].num = s
                     /\ u > 0 /\ u = PkgSz - line[i].part - (n - i)

Labelled(line, lab, n, low, k, s, u) ==
  /\ InRange(lab, n, low, k)
  /\ Ascending(lab, n)
  /\ Continuous(line, lab, n)
  /\ Current(line, lab, n, k, s, u)

\* Every package given up accounts for one request at most: those counted have
\* labels below those of the parts that wait.
CutsAccountForMixes ==
  /\ Counted <= cuts
  /\ \E lab \in [1 .. Length -> 0 .. cuts] :
       Labelled(Line, lab, Length, Counted, cuts, sent, unsent)

OwnParts == \A i \in 1 .. Length : Line[i].conn = client

StreamInv ==
  /\ ~connected => stream = <<>>
  /\ connected => /\ at \notin {"boot", "net"}
                  /\ pkgLeft \in 1 .. PkgSz
                  /\ event.type = "NewRequest" => pkgLeft = PkgSz
                  /\ at = "udp" /\ event = NoEvent(FALSE) => pkgLeft = PkgSz
                  /\ OwnParts
                  /\ CutsAccountForMixes

\* The parts of a line, on fresh names.
IsLine(line, n, c) ==
  \A i \in 1 .. n : /\ line[i].part \in 1 .. PkgSz /\ line[i].conn = c
                    /\ line[i] \in Parts
Prolongs(line2, line, n) == \A i \in 1 .. n : line2[i] = line[i]
Shifts(f2, f, n, d) == \A i \in 1 .. n : f2[i] = f[i + d]

LEMMA SameLabels ==
  ASSUME NEW lab, NEW line, NEW line2, NEW n \in Nat, NEW low, NEW k, NEW s, NEW u,
         Labelled(line, lab, n, low, k, s, u), Prolongs(line2, line, n)
  PROVE  Labelled(line2, lab, n, low, k, s, u)
<1>1. Continuous(line2, lab, n)
  BY ONLY Labelled(line, lab, n, low, k, s, u), Prolongs(line2, line, n)
  DEF Labelled, Continuous, Prolongs
<1>2. Current(line2, lab, n, k, s, u)
  BY ONLY Labelled(line, lab, n, low, k, s, u), Prolongs(line2, line, n)
  DEF Labelled, Current, Prolongs
<1> QED
  BY <1>1, <1>2 DEF Labelled

\* Another part is sent.
LEMMA PartSent ==
  ASSUME NEW line, NEW line2, NEW lab, NEW lab2, NEW n \in Nat, NEW low \in Nat, NEW k \in Nat,
         low <= k, NEW s, NEW u \in 0 .. PkgSz - 1, NEW s2, NEW u2 \in 0 .. PkgSz - 1, NEW c,
         IsLine(line, n, c), Labelled(line, lab, n, low, k, s, u),
         Prolongs(line2, line, n), Prolongs(lab2, lab, n), lab2[n + 1] = k,
         line2[n + 1].num = s2, line2[n + 1].part = PkgSz - u2,
         \/ u > 0 /\ u2 = u - 1 /\ s2 = s
         \/ u = 0 /\ u2 = PkgSz - 1
  PROVE  Labelled(line2, lab2, n + 1, low, k, s2, u2)
<1>1. \A i \in 1 .. n + 1 : i \in 1 .. n \/ i = n + 1
  OBVIOUS
<1>2. \A i \in 1 .. n : /\ line2[i] = line[i] /\ lab2[i] = lab[i] /\ lab[i] \in low .. k
                        /\ line[i].part \in 1 .. PkgSz
  BY DEF Prolongs, IsLine, Labelled, InRange
<1>3. InRange(lab2, n + 1, low, k)
  <2> SUFFICES ASSUME NEW i \in 1 .. n + 1 PROVE lab2[i] \in low .. k
    BY DEF InRange
  <2> QED BY <1>1, <1>2
<1>4. Ascending(lab2, n + 1)
  <2> SUFFICES ASSUME NEW i \in 1 .. n + 1, NEW j \in 1 .. n + 1, i <= j
               PROVE  lab2[i] <= lab2[j]
    BY DEF Ascending
  <2>1. CASE j = n + 1
    BY <2>1, <1>1, <1>2
  <2>2. CASE j \in 1 .. n
    <3>1. i \in 1 .. n
      BY <2>2
    <3>2. lab[i] <= lab[j]
      BY <2>2, <3>1 DEF Labelled, Ascending
    <3> QED BY <2>2, <3>1, <3>2, <1>2
  <2> QED BY <1>1, <2>1, <2>2
<1>5. \A i \in 1 .. n : lab[i] = k =>
        \/ n - i >= PkgSz - line[i].part
        \/ line[i].num = s /\ u > 0 /\ u = PkgSz - line[i].part - (n - i)
  BY DEF Labelled, Current
<1>6. Continuous(line2, lab2, n + 1)
  <2> SUFFICES ASSUME NEW i \in 1 .. n + 1, NEW j \in 1 .. n + 1,
                      i <= j, lab2[i] = lab2[j], j - i <= PkgSz - line2[i].part
               PROVE  /\ line2[j].num = line2[i].num
                      /\ line2[j].part = line2[i].part + (j - i)
    BY DEF Continuous
  <2>1. CASE j \in 1 .. n
    <3>1. i \in 1 .. n
      BY <2>1
    <3>2. /\ line2[i] = line[i] /\ line2[j] = line[j]
          /\ lab2[i] = lab[i] /\ lab2[j] = lab[j]
      BY <2>1, <3>1, <1>2
    <3> QED BY <2>1, <3>1, <3>2 DEF Labelled, Continuous
  <2>2. CASE j = n + 1 /\ i = n + 1
    <3>1. PICK p \in Int : p = line2[n + 1].part
      OBVIOUS
    <3> QED BY <2>2, <3>1
  <2>3. CASE j = n + 1 /\ i \in 1 .. n
    <3>1. PICK p \in 1 .. PkgSz : p = line[i].part
      BY <1>2, <2>3
    <3>2. line2[i] = line[i] /\ lab[i] = k
      BY <1>2, <2>3
    <3>3. n + 1 - i <= PkgSz - p
      BY <2>3, <3>1, <3>2
    <3>4. line[i].num = s /\ u > 0 /\ u = PkgSz - p - (n - i)
      BY <1>5, <2>3, <3>1, <3>2, <3>3
    <3>5. s2 = s /\ u2 = u - 1
      BY <3>4
    <3>6. PkgSz - u2 = p + (n + 1 - i)
      BY <2>3, <3>4, <3>5
    <3> QED BY <2>3, <3>1, <3>2, <3>4, <3>5, <3>6
  <2> QED BY <1>1, <2>1, <2>2, <2>3
<1>7. Current(line2, lab2, n + 1, k, s2, u2)
  <2> SUFFICES ASSUME NEW i \in 1 .. n + 1, lab2[i] = k
               PROVE  \/ n + 1 - i >= PkgSz - line2[i].part
                      \/ /\ line2[i].num = s2
                         /\ u2 > 0 /\ u2 = PkgSz - line2[i].part - (n + 1 - i)
    BY DEF Current
  <2>1. CASE i = n + 1
    <3>1. line2[i].part = PkgSz - u2 /\ line2[i].num = s2
      BY <2>1
    <3>2. PICK p \in Int : p = line2[i].part /\ p = PkgSz - u2
      BY <3>1
    <3> QED BY <2>1, <3>1, <3>2
  <2>2. CASE i \in 1 .. n
    <3>1. PICK p \in 1 .. PkgSz : p = line[i].part
      BY <1>2, <2>2
    <3>2. line2[i] = line[i] /\ lab[i] = k
      BY <1>2, <2>2
    <3>3. CASE n - i >= PkgSz - p
      BY <2>2, <3>1, <3>2, <3>3
    <3>4. CASE line[i].num = s /\ u > 0 /\ u = PkgSz - p - (n - i)
      <4>1. s2 = s /\ u2 = u - 1
        BY <3>4
      <4> QED BY <2>2, <3>1, <3>2, <3>4, <4>1
    <3> QED BY <1>5, <2>2, <3>1, <3>2, <3>3, <3>4
  <2> QED BY <1>1, <2>1, <2>2
<1> QED
  BY <1>3, <1>4, <1>6, <1>7 DEF Labelled

\* A package is given up: no part has the new label yet.
LEMMA PackageCut ==
  ASSUME NEW line, NEW lab, NEW n \in Nat, NEW low \in Nat, NEW k \in Nat, NEW s, NEW u,
         Labelled(line, lab, n, low, k, s, u)
  PROVE  Labelled(line, lab, n, low, k + 1, s, 0)
<1>1. \A i \in 1 .. n : lab[i] \in low .. k
  BY DEF Labelled, InRange
<1>2. InRange(lab, n, low, k + 1)
  BY <1>1 DEF InRange
<1>3. \A i \in 1 .. n : lab[i] # k + 1
  BY <1>1
<1>4. Current(line, lab, n, k + 1, s, 0)
  BY <1>3 DEF Current
<1> QED
  BY <1>2, <1>4 DEF Labelled

\* With no package under way the number of the last one does not matter.
LEMMA NumberTaken ==
  ASSUME NEW line, NEW lab, NEW n \in Nat, NEW low, NEW k, NEW s, NEW s2,
         Labelled(line, lab, n, low, k, s, 0)
  PROVE  Labelled(line, lab, n, low, k, s2, 0)
BY DEF Labelled, Current

\* A request takes a package's size of parts.  If its labels are the same they
\* are of one package, since the first one is a header; if not, its last label
\* and all that follow are beyond its first.
LEMMA RequestTaken ==
  ASSUME NEW line, NEW line2, NEW lab, NEW lab2, NEW n \in Nat, NEW m \in Nat, n = m + PkgSz,
         NEW low \in Nat, NEW k \in Nat, NEW s, NEW u, NEW c,
         IsLine(line, n, c), Labelled(line, lab, n, low, k, s, u),
         Shifts(line2, line, m, PkgSz), Shifts(lab2, lab, m, PkgSz),
         line[1].part = 1,
         NEW buff, Prolongs(buff, line, PkgSz),
         NEW low2, low2 = IF Whole(buff) THEN low ELSE low + 1
  PROVE  /\ Labelled(line2, lab2, m, low2, k, s, u)
         /\ low2 <= k /\ low2 \in Nat
<1>1. \A i \in 1 .. n : /\ lab[i] \in low .. k /\ line[i].part \in 1 .. PkgSz
                        /\ line[i].conn = c /\ line[i] \in Parts
  BY DEF IsLine, Labelled, InRange
<1>2. \A i \in 1 .. m : /\ i + PkgSz \in 1 .. n
                        /\ line2[i] = line[i + PkgSz] /\ lab2[i] = lab[i + PkgSz]
  BY DEF Shifts
<1>3. 1 \in 1 .. n /\ PkgSz \in 1 .. n
  OBVIOUS
<1>4. \A i \in 1 .. n, j \in 1 .. n : i <= j => lab[i] <= lab[j]
  BY DEF Labelled, Ascending
<1>5. lab[1] = lab[PkgSz] => Whole(buff)
  <2> SUFFICES ASSUME lab[1] = lab[PkgSz], NEW i \in 1 .. PkgSz
               PROVE  buff[i] = [conn |-> buff[1].conn, num |-> buff[1].num, part |-> i]
    BY DEF Whole
  <2>1. i \in 1 .. n /\ 1 \in 1 .. PkgSz
    OBVIOUS
  <2>2. buff[i] = line[i] /\ buff[1] = line[1]
    BY <2>1 DEF Prolongs
  <2>3. lab[i] = lab[1]
    <3>1. lab[1] <= lab[i] /\ lab[i] <= lab[PkgSz]
      BY <1>3, <1>4, <2>1
    <3>2. PICK a \in Nat, b \in Nat : a = lab[1] /\ b = lab[i]
      BY <1>1, <1>3, <2>1
    <3> QED BY <3>1, <3>2
  <2>4. line[i].num = line[1].num /\ line[i].part = line[1].part + (i - 1)
    <3>1. i - 1 <= PkgSz - line[1].part
      OBVIOUS
    <3> QED BY <1>3, <2>1, <2>3, <3>1 DEF Labelled, Continuous
  <2>5. line[i].part = i
    BY <2>4
  <2>6. line[i].conn = line[1].conn /\ line[i] \in Parts
    BY <1>1, <1>3, <2>1
  <2>7. line[i] = [conn |-> line[i].conn, num |-> line[i].num, part |-> line[i].part]
    BY <2>6 DEF Parts
  <2> QED BY ONLY <2>2, <2>4, <2>5, <2>6, <2>7
<1>6. PICK a \in low .. k, b \in low .. k : a = lab[1] /\ b = lab[PkgSz] /\ a <= b
  BY <1>1, <1>3, <1>4
<1>7. low2 \in Nat /\ low2 <= k /\ low2 <= b
  BY <1>5, <1>6
<1>8. InRange(lab2, m, low2, k)
  <2> SUFFICES ASSUME NEW i \in 1 .. m PROVE lab2[i] \in low2 .. k
    BY DEF InRange
  <2>1. PICK x \in low .. k : x = lab[i + PkgSz]
    BY <1>1, <1>2
  <2>2. b <= x
    BY <1>2, <1>3, <1>4, <1>6, <2>1
  <2> QED BY <1>2, <1>7, <2>1, <2>2
<1>9. Ascending(lab2, m)
  <2> SUFFICES ASSUME NEW i \in 1 .. m, NEW j \in 1 .. m, i <= j PROVE lab2[i] <= lab2[j]
    BY DEF Ascending
  <2> QED BY <1>2, <1>4
<1>10. Continuous(line2, lab2, m)
  <2> SUFFICES ASSUME NEW i \in 1 .. m, NEW j \in 1 .. m,
                      i <= j, lab2[i] = lab2[j], j - i <= PkgSz - line2[i].part
               PROVE  /\ line2[j].num = line2[i].num
                      /\ line2[j].part = line2[i].part + (j - i)
    BY DEF Continuous
  <2>1. PICK x \in 1 .. n, y \in 1 .. n : x = i + PkgSz /\ y = j + PkgSz
    BY <1>2
  <2>2. line2[i] = line[x] /\ line2[j] = line[y] /\ lab[x] = lab[y]
    BY <1>2, <2>1
  <2>3. x <= y /\ y - x = j - i
    BY <2>1
  <2>4. y - x <= PkgSz - line[x].part
    BY <2>2, <2>3
  <2>5. line[y].num = line[x].num /\ line[y].part = line[x].part + (y - x)
    BY <2>2, <2>3, <2>4 DEF Labelled, Continuous
  <2> QED BY <2>2, <2>3, <2>5
<1>11. Current(line2, lab2, m, k, s, u)
  <2> SUFFICES ASSUME NEW i \in 1 .. m, lab2[i] = k
               PROVE  \/ m - i >= PkgSz - line2[i].part
                      \/ /\ line2[i].num = s
                         /\ u > 0 /\ u = PkgSz - line2[i].part - (m - i)
    BY DEF Current
  <2>1. PICK x \in 1 .. n : x = i + PkgSz
    BY <1>2
  <2>2. line2[i] = line[x] /\ lab[x] = k
    BY <1>2, <2>1
  <2>3. n - x = m - i
    BY <2>1
  <2>4. \/ n - x >= PkgSz - line[x].part
        \/ line[x].num = s /\ u > 0 /\ u = PkgSz - line[x].part - (n - x)
    BY <2>2 DEF Labelled, Current
  <2> QED BY <2>2, <2>3, <2>4
<1> QED
  BY <1>7, <1>8, <1>9, <1>10, <1>11 DEF Labelled

\* What Line is: its length, its parts, where each of them lies.
LEMMA LineIs ==
  ASSUME TypeOK
  PROVE  /\ Has \in 0 .. PkgSz /\ Has \in Nat /\ Has = PkgSz - pkgLeft /\ Len(stream) \in Nat
         /\ Length \in Nat /\ Length = Has + Len(stream)
         /\ \A i \in 1 .. Length :
              Line[i] = IF i <= Has THEN rxBuff[i] ELSE stream[i - Has]
         /\ \A i \in 1 .. Len(stream) : stream[i] \in Parts
<1>1. pkgLeft \in 0 .. PkgSz /\ stream \in Seq(Parts)
  BY DEF TypeOK
<1>2. Len(stream) \in Nat /\ \A i \in 1 .. Len(stream) : stream[i] \in Parts
  BY <1>1, LenProperties, ElementOfSeq
<1>3. Has = PkgSz - pkgLeft
  BY DEF Has
<1>4. Has \in 0 .. PkgSz /\ Has \in Nat
  BY <1>1, <1>3
<1>5. Length = Has + Len(stream)
  BY DEF Length
<1>6. Length \in Nat
  BY <1>2, <1>4, <1>5
<1>7. \A i \in 1 .. Length : Line[i] = IF i <= Has THEN rxBuff[i] ELSE stream[i - Has]
  BY DEF Line
<1> QED
  BY <1>2, <1>3, <1>4, <1>5, <1>6, <1>7

\* All parts of the line are parts of the client's packages.
LEMMA LineParts ==
  ASSUME TypeOK, connected, OwnParts
  PROVE  IsLine(Line, Length, client)
<1> SUFFICES ASSUME NEW i \in 1 .. Length
             PROVE  Line[i].part \in 1 .. PkgSz /\ Line[i].conn = client /\ Line[i] \in Parts
  BY DEF IsLine
<1>1. client \in Conns /\ None \notin Conns
  BY DEF TypeOK, Conns, None
<1>2. Line[i].conn = client
  BY DEF OwnParts
<1>3. PICK h \in Nat : h = Has /\ h <= PkgSz /\ Length = h + Len(stream) /\ Len(stream) \in Nat
  BY LineIs
<1>4. Line[i] \in Parts
  <2>1. CASE i <= h
    <3>1. Line[i] = rxBuff[i] /\ i \in 1 .. PkgSz
      BY <1>3, <2>1, LineIs
    <3>2. rxBuff[i] \in Parts \cup {NoPart}
      BY <3>1 DEF TypeOK
    <3>3. rxBuff[i] # NoPart
      BY <1>1, <1>2, <3>1 DEF NoPart
    <3> QED BY <3>1, <3>2, <3>3
  <2>2. CASE ~ (i <= h)
    <3>1. Line[i] = stream[i - h] /\ i - h \in 1 .. Len(stream)
      BY <1>3, <2>2, LineIs
    <3> QED BY <3>1, LineIs
  <2> QED BY <2>1, <2>2
<1>5. Line[i].part \in 1 .. PkgSz
  BY <1>4 DEF Parts
<1> QED
  BY <1>2, <1>4, <1>5

LEMMA CountedType ==
  ASSUME TypeOK
  PROVE  Counted \in Nat /\ mixed <= Counted
BY DEF TypeOK, Counted

\* A step that leaves the line, the counts and the client alone.
LEMMA SameStream ==
  ASSUME TypeOK, StreamInv, UNCHANGED <<stream, connected, client, pkgLeft, sent, unsent, cuts>>,
         rxBuff' = rxBuff \/ pkgLeft = PkgSz,
         connected => Counted' = Counted /\ at' \notin {"boot", "net"},
         connected /\ event'.type = "NewRequest" => pkgLeft = PkgSz,
         connected /\ at' = "udp" /\ event' = NoEvent(FALSE) => pkgLeft = PkgSz
  PROVE  StreamInv'
<1>1. Has' = Has
  BY DEF Has
<1>2. Length' = Length
  BY <1>1 DEF Length
<1>3. Line' = Line
  <2>1. CASE rxBuff' = rxBuff
    BY <1>1, <1>2, <2>1 DEF Line
  <2>2. CASE pkgLeft = PkgSz
    <3>1. Has = 0 /\ Has' = 0
      BY <1>1, <2>2 DEF Has
    <3>2. \A i \in 1 .. Length : ~ (i <= 0)
      OBVIOUS
    <3>3. Line = [i \in 1 .. Length |-> stream[i - 0]]
      BY <3>1, <3>2 DEF Line
    <3>4. Line' = [i \in 1 .. Length |-> stream[i - 0]]
      BY <1>2, <3>1, <3>2 DEF Line
    <3> QED BY <3>3, <3>4
  <2> QED BY <2>1, <2>2
<1>4. CASE ~ connected
  BY <1>4 DEF StreamInv
<1>5. CASE connected
  <2>1. CutsAccountForMixes'
    BY <1>2, <1>3, <1>5 DEF StreamInv, CutsAccountForMixes
  <2>2. OwnParts'
    BY <1>2, <1>3, <1>5 DEF StreamInv, OwnParts
  <2> QED BY <1>5, <2>1, <2>2 DEF StreamInv
<1> QED
  BY <1>4, <1>5

\* What the client leaves behind is forgotten.
LEMMA NobodyConnected ==
  ASSUME connected' = FALSE, stream' = <<>>
  PROVE  StreamInv'
BY DEF StreamInv

LEMMA InitStream == Init => StreamInv
BY DEF Init, StreamInv

\* The client accepted starts with an empty line.
LEMMA AcceptStream ==
  ASSUME TypeOK, StreamInv, Accept
  PROVE  StreamInv'
<1>1. /\ connected' = TRUE /\ pkgLeft' = PkgSz /\ mixed' = 0 /\ cuts' = 0 /\ at' = "udp"
      /\ stream' = stream /\ stream = <<>>
  BY DEF Accept, ReadsOnly, StreamInv
<1>2. event'.type = "Connected" /\ event' # NoEvent(FALSE)
  BY DEF Accept, Event, NoEvent
<1>3. Length' = 0
  BY <1>1 DEF Length, Has
<1>4. Counted' = 0
  BY <1>1, <1>2 DEF Counted, Mixes
<1>5. OwnParts'
  BY <1>3 DEF OwnParts
<1>6. CutsAccountForMixes'
  <2> DEFINE lab == [i \in 1 .. 0 |-> 0]
  <2>1. lab \in [1 .. 0 -> 0 .. 0]
    OBVIOUS
  <2>2. Labelled(Line', lab, 0, 0, 0, sent', unsent')
    BY DEF Labelled, InRange, Ascending, Continuous, Current
  <2> HIDE DEF lab
  <2>3. \E l \in [1 .. Length' -> 0 .. cuts'] :
          Labelled(Line', l, Length', Counted', cuts', sent', unsent')
    BY <1>1, <1>3, <1>4, <2>1, <2>2
  <2> QED BY <1>1, <1>4, <2>3 DEF CutsAccountForMixes
<1>7. pkgLeft' \in 1 .. PkgSz
  BY <1>1
<1> QED
  BY <1>1, <1>2, <1>5, <1>6, <1>7 DEF StreamInv

\* What client.read() puts into the buffer are the next parts of the line.
LEMMA FilledIsLine ==
  ASSUME TypeOK, NEW i \in 1 .. PkgSz, i <= Has + Taken
  PROVE  i \in 1 .. Length /\ Filled[i] = Line[i]
<1>1. PICK h \in Nat, n \in Nat : h = Has /\ n = Len(stream) /\ h <= PkgSz
  BY LineIs
<1>2. PICK t \in Nat : t = Taken /\ t <= n
  BY <1>1, TakenType
<1>3. i \in 1 .. Length
  BY <1>1, <1>2, LineIs
<1>4. Filled[i] = IF i \in h + 1 .. h + t THEN stream[i - h] ELSE rxBuff[i]
  BY <1>1, <1>2 DEF Filled, Has
<1>5. Line[i] = IF i <= h THEN rxBuff[i] ELSE stream[i - h]
  BY <1>1, <1>3, LineIs
<1>6. i \in h + 1 .. h + t <=> ~ (i <= h)
  BY <1>1, <1>2
<1> QED
  BY <1>3, <1>4, <1>5, <1>6

\* Of the parts received the ones not read stay in the stream.
LEMMA UnreadIs ==
  ASSUME TypeOK, Unread
  PROVE  /\ Len(stream') = Len(stream) - Taken
         /\ \A i \in 1 .. Len(stream') : stream'[i] = stream[i + Taken]
<1>1. PICK n \in Nat, t \in Nat : n = Len(stream) /\ t = Taken /\ t <= n
  BY TakenType
<1>2. stream' = SubSeq(stream, t + 1, n)
  BY <1>1 DEF Unread
<1>3. \A i \in 1 .. n : stream[i] \in Parts
  BY <1>1, LineIs
<1>4. stream \in Seq(Parts)
  BY DEF TypeOK
<1>5. Len(SubSeq(stream, t + 1, n)) = n - t
  BY ONLY <1>1, <1>3, <1>4, SubSeqProperties
<1>6. \A i \in 1 .. n - t : SubSeq(stream, t + 1, n)[i] = stream[i + t]
  <2> TAKE i \in 1 .. n - t
  <2>1. SubSeq(stream, t + 1, n)[i] = stream[(t + 1) + i - 1]
    BY ONLY <1>1, <1>3, <1>4, <1>5, i \in 1 .. n - t, SubSeqProperties
  <2>2. (t + 1) + i - 1 = i + t
    OBVIOUS
  <2> QED BY <2>1, <2>2
<1> QED
  BY <1>1, <1>2, <1>5, <1>6

\* Reading a part of a package leaves the line as it is.
LEMMA ReadPartStream ==
  ASSUME TypeOK, TypeOK', StreamInv, ReadPart
  PROVE  StreamInv'
<1>1. /\ connected /\ connected' /\ client' = client /\ rxBuff' = Filled /\ Unread
      /\ pkgLeft' = pkgLeft - Taken /\ Taken < pkgLeft
      /\ UNCHANGED <<sent, unsent, cuts, mixed>> /\ at' = "udp"
      /\ at = "tcp" /\ event' = NoEvent(TRUE)
  BY DEF ReadPart, Read, ReadsOnly
<1>2. event'.type = "NoEvent" /\ event' # NoEvent(FALSE)
  BY <1>1 DEF NoEvent
<1>3. PICK h \in Nat, n \in Nat, t \in Nat : h = Has /\ n = Len(stream) /\ t = Taken /\ t <= n
  BY LineIs, TakenType
<1>4. Len(stream') = n - t /\ \A i \in 1 .. n - t : stream'[i] = stream[i + t]
  BY <1>1, <1>3, UnreadIs
<1>5. pkgLeft \in 0 .. PkgSz
  BY DEF TypeOK
<1>6. Has' = h + t /\ pkgLeft' \in 1 .. PkgSz
  BY <1>1, <1>3, <1>5 DEF Has
<1>7. Length' = Length
  BY <1>3, <1>4, <1>6 DEF Length
<1>8. \A i \in 1 .. Length : Line'[i] = Line[i]
  <2> TAKE i \in 1 .. Length
  <2>1. Line'[i] = IF i <= h + t THEN rxBuff'[i] ELSE stream'[i - (h + t)]
    BY <1>6, <1>7 DEF Line
  <2>2. CASE i <= h + t
    <3>1. h + t <= PkgSz
      BY <1>1, <1>3, <1>5, <1>6 DEF Has
    <3>2. i \in 1 .. PkgSz /\ i <= Has + Taken
      BY <1>3, <2>2, <3>1, LineIs
    <3> QED BY <1>1, <2>1, <2>2, <3>2, FilledIsLine
  <2>3. CASE ~ (i <= h + t)
    <3>1. Length = h + n
      BY <1>3, LineIs
    <3>2. i - (h + t) \in 1 .. n - t /\ (i - (h + t)) + t = i - h /\ ~ (i <= h)
      BY <1>3, <2>3, <3>1, LineIs
    <3>3. Line[i] = stream[i - h]
      BY <1>3, <3>2, LineIs
    <3>4. stream'[i - (h + t)] = stream[i - h]
      <4>1. PICK j \in 1 .. n - t : j = i - (h + t) /\ j + t = i - h
        BY <3>2
      <4>2. stream'[j] = stream[j + t]
        BY <1>4
      <4> QED BY <4>1, <4>2
    <3> QED BY <2>1, <2>3, <3>3, <3>4
  <2> QED BY <2>2, <2>3
<1>9. Counted' = Counted
  BY <1>1, <1>2 DEF Counted, Mixes
<1>10. OwnParts'
  BY <1>1, <1>7, <1>8 DEF StreamInv, OwnParts
<1>11. CutsAccountForMixes'
  <2>1. PICK lab \in [1 .. Length -> 0 .. cuts] :
          Labelled(Line, lab, Length, Counted, cuts, sent, unsent)
    BY <1>1 DEF StreamInv, CutsAccountForMixes
  <2>2. PICK line2 : line2 = Line'
    OBVIOUS
  <2>3. Prolongs(line2, Line, Length)
    BY <1>8, <2>2 DEF Prolongs
  <2>4. Length \in Nat
    BY LineIs
  <2>5. Labelled(line2, lab, Length, Counted, cuts, sent, unsent)
    BY <2>1, <2>3, <2>4, SameLabels
  <2>6. Counted <= cuts
    BY <1>1 DEF StreamInv, CutsAccountForMixes
  <2>7. \E l \in [1 .. Length' -> 0 .. cuts'] :
          Labelled(Line', l, Length', Counted', cuts', sent', unsent')
    BY <1>1, <1>7, <1>9, <2>2, <2>5
  <2> QED BY <1>1, <1>9, <2>6, <2>7 DEF CutsAccountForMixes
<1> QED
  BY <1>1, <1>2, <1>6, <1>10, <1>11 DEF StreamInv

\* Reading the rest of a package takes a package's size of parts from the line.
LEMMA ReadRequestStream ==
  ASSUME TypeOK, TypeOK', StreamInv, ReadRequest
  PROVE  StreamInv' /\ Filled[1].conn = client
<1>1. /\ connected /\ connected' /\ client' = client /\ rxBuff' = Filled /\ Unread
      /\ pkgLeft' = PkgSz /\ Taken = pkgLeft /\ Filled[1].part = 1
      /\ UNCHANGED <<sent, unsent, cuts, mixed>> /\ at' = "udp" /\ at = "tcp"
  BY DEF ReadRequest, Read, ReadsOnly, ValidHeader
<1>2. event'.type = "NewRequest"
  BY DEF ReadRequest, Event
<1>3. PICK h \in Nat, n \in Nat, t \in Nat :
        h = Has /\ n = Len(stream) /\ t = Taken /\ t <= n /\ h + t = PkgSz
  BY <1>1, LineIs, TakenType
<1>4. Len(stream') = n - t /\ \A i \in 1 .. n - t : stream'[i] = stream[i + t]
  BY <1>1, <1>3, UnreadIs
<1>5. Has' = 0
  BY <1>1 DEF Has
<1>6. PICK m \in Nat : m = n - t /\ Length' = m /\ Length = m + PkgSz
  <2>1. Length' = n - t
    BY <1>4, <1>5 DEF Length
  <2>2. Length = h + n
    BY <1>3, LineIs
  <2>3. n - t \in Nat /\ h + n = (n - t) + PkgSz
    BY <1>3
  <2> QED BY <2>1, <2>2, <2>3
<1>7. PICK line2, buff : line2 = Line' /\ buff = rxBuff'
  OBVIOUS
<1>8. \A i \in 1 .. m : line2[i] = Line[i + PkgSz]
  <2> TAKE i \in 1 .. m
  <2>1. line2[i] = IF i <= 0 THEN rxBuff'[i] ELSE stream'[i - 0]
    BY <1>5, <1>6, <1>7 DEF Line
  <2>2. line2[i] = stream'[i]
    <3>1. ~ (i <= 0) /\ i - 0 = i
      OBVIOUS
    <3> QED BY <2>1, <3>1
  <2>3. stream'[i] = stream[i + t]
    BY <1>4, <1>6
  <2>4. PICK j \in 1 .. Length : j = i + PkgSz /\ ~ (j <= h) /\ j - h = i + t
    BY <1>3, <1>6
  <2>5. Line[j] = stream[j - h]
    BY <1>3, <2>4, LineIs
  <2> QED BY <2>2, <2>3, <2>4, <2>5
<1>9. \A i \in 1 .. PkgSz : i \in 1 .. Length /\ buff[i] = Line[i]
  <2> TAKE i \in 1 .. PkgSz
  <2>1. i <= Has + Taken
    BY <1>3
  <2> QED BY <1>1, <1>7, <2>1, FilledIsLine
<1>10. IsLine(Line, Length, client)
  BY <1>1, LineParts DEF StreamInv
<1>11. Line[1].part = 1 /\ 1 \in 1 .. Length /\ Filled[1] = Line[1]
  <2>1. 1 \in 1 .. PkgSz
    OBVIOUS
  <2> QED BY <1>1, <1>7, <1>9, <2>1
<1>12. Filled[1].conn = client
  BY <1>10, <1>11 DEF IsLine
<1>13. PICK lab \in [1 .. Length -> 0 .. cuts] :
         Labelled(Line, lab, Length, Counted, cuts, sent, unsent)
  BY <1>1 DEF StreamInv, CutsAccountForMixes
<1>14. Counted = mixed
  BY <1>1 DEF Counted, Mixes
<1>15. PICK lab2 : lab2 = [i \in 1 .. m |-> lab[i + PkgSz]]
  OBVIOUS
<1>16. lab2 \in [1 .. m -> 0 .. cuts]
  BY <1>6, <1>13, <1>15
<1>17. Shifts(line2, Line, m, PkgSz) /\ Shifts(lab2, lab, m, PkgSz) /\ Prolongs(buff, Line, PkgSz)
  BY <1>8, <1>9, <1>15 DEF Shifts, Prolongs
<1>18. Counted' = IF Whole(buff) THEN mixed ELSE mixed + 1
  <2>1. Whole(rxBuff)' = Whole(buff)
    BY <1>7 DEF Whole
  <2>2. Mixes' = ~ Whole(buff)
    BY <1>1, <1>2, <2>1 DEF Mixes
  <2>3. mixed' = mixed
    BY <1>1
  <2> QED BY <2>2, <2>3 DEF Counted
<1>19. mixed \in Nat /\ cuts \in Nat
  BY DEF TypeOK
<1>20. Labelled(line2, lab2, m, Counted', cuts, sent, unsent) /\ Counted' <= cuts
  <2>1. PICK low2 : low2 = IF Whole(buff) THEN mixed ELSE mixed + 1
    OBVIOUS
  <2>2. Length \in Nat /\ PkgSz \in Nat
    BY LineIs
  <2>3. Labelled(Line, lab, Length, mixed, cuts, sent, unsent)
    BY <1>13, <1>14
  <2>4. Labelled(line2, lab2, m, low2, cuts, sent, unsent) /\ low2 <= cuts
    BY ONLY <1>6, <1>10, <1>11, <1>17, <1>19, <2>1, <2>2, <2>3, RequestTaken
  <2> QED BY <1>18, <2>1, <2>4
<1>21. CutsAccountForMixes'
  <2>1. \E l \in [1 .. Length' -> 0 .. cuts'] :
          Labelled(Line', l, Length', Counted', cuts', sent', unsent')
    BY <1>1, <1>6, <1>7, <1>16, <1>20
  <2> QED BY <1>1, <1>20, <2>1 DEF CutsAccountForMixes
<1>22. OwnParts'
  <2>1. \A i \in 1 .. m : i + PkgSz \in 1 .. Length
    BY <1>6
  <2>2. \A i \in 1 .. m : line2[i].conn = client
    BY <1>8, <1>10, <2>1 DEF IsLine
  <2> QED BY <1>1, <1>6, <1>7, <2>2 DEF OwnParts
<1> QED
  BY <1>1, <1>2, <1>12, <1>21, <1>22 DEF StreamInv

\* Another part goes to the end of the line, with the label of now.
LEMMA SendPartStream ==
  ASSUME TypeOK, TypeOK', StreamInv, SendPart
  PROVE  StreamInv'
<1>1. /\ connected /\ at = "tcp" /\ UNCHANGED <<at, connected, client, pkgLeft, rxBuff, event, mixed, cuts>>
      /\ stream' = Append(stream, [conn |-> client, num |-> sent', part |-> PkgSz - unsent'])
      /\ \/ unsent > 0 /\ unsent' = unsent - 1 /\ sent' = sent
         \/ unsent = 0 /\ unsent' = PkgSz - 1
  BY DEF SendPart, ByTCP, Network, Alone, tcpVars
<1>2. PICK new : new = [conn |-> client, num |-> sent', part |-> PkgSz - unsent']
  OBVIOUS
<1>3. new.conn = client /\ new.num = sent' /\ new.part = PkgSz - unsent'
  BY <1>2
<1>4. new \in Parts
  <2>1. client \in Conns /\ sent' \in 1 .. MaxPackages
    BY <1>1 DEF TypeOK, SendPart
  <2>2. PkgSz - unsent' \in 1 .. PkgSz
    BY RestIsPart DEF TypeOK
  <2> QED BY ONLY <1>2, <2>1, <2>2 DEF Parts
<1>5. PICK h \in Nat, n \in Nat : h = Has /\ n = Len(stream) /\ Length = h + n
  BY LineIs
<1>6. Len(stream') = n + 1 /\ (\A i \in 1 .. n : stream'[i] = stream[i]) /\ stream'[n + 1] = new
  <2>1. stream \in Seq(Parts) /\ stream' = Append(stream, new)
    BY <1>1, <1>2 DEF TypeOK
  <2> QED BY ONLY <1>4, <1>5, <2>1, AppendProperties
<1>7. Has' = h
  BY <1>1, <1>5 DEF Has
<1>8. PICK l \in Nat : l = Length /\ l = h + n /\ Length' = l + 1
  BY <1>5, <1>6, <1>7 DEF Length
<1>9. PICK line2 : line2 = Line'
  OBVIOUS
<1>10. \A i \in 1 .. l : line2[i] = Line[i]
  <2> TAKE i \in 1 .. l
  <2>1. line2[i] = IF i <= h THEN rxBuff[i] ELSE stream'[i - h]
    <3>1. i \in 1 .. Length'
      BY <1>8
    <3> QED BY ONLY <1>1, <1>7, <1>9, <3>1 DEF Line
  <2>2. Line[i] = IF i <= h THEN rxBuff[i] ELSE stream[i - h]
    BY <1>5, <1>8, LineIs
  <2>3. ~ (i <= h) => i - h \in 1 .. n
    BY <1>8
  <2> QED BY <1>6, <2>1, <2>2, <2>3
<1>11. line2[l + 1] = new
  <2>1. l + 1 \in 1 .. Length' /\ ~ (l + 1 <= h) /\ (l + 1) - h = n + 1
    BY <1>8
  <2>2. line2[l + 1] = stream'[(l + 1) - h]
    BY <1>7, <1>9, <2>1 DEF Line
  <2> QED BY <1>6, <2>1, <2>2
<1>12. Counted' = Counted /\ Counted \in Nat /\ Counted <= cuts /\ cuts \in Nat
  BY <1>1, CountedType DEF Counted, Mixes, TypeOK, StreamInv, CutsAccountForMixes
<1>13. PICK lab \in [1 .. l -> 0 .. cuts] :
         Labelled(Line, lab, l, Counted, cuts, sent, unsent)
  BY <1>1, <1>8 DEF StreamInv, CutsAccountForMixes
<1>14. PICK lab2 : lab2 = [i \in 1 .. l + 1 |-> IF i <= l THEN lab[i] ELSE cuts]
  OBVIOUS
<1>15. lab2 \in [1 .. l + 1 -> 0 .. cuts] /\ lab2[l + 1] = cuts /\ Prolongs(lab2, lab, l)
  <2>1. \A i \in 1 .. l + 1 : (IF i <= l THEN lab[i] ELSE cuts) \in 0 .. cuts
    BY <1>12, <1>13
  <2>2. lab2 \in [1 .. l + 1 -> 0 .. cuts]
    BY ONLY <1>14, <2>1
  <2>3. lab2[l + 1] = cuts /\ \A i \in 1 .. l : lab2[i] = lab[i]
    BY <1>14
  <2> QED BY <2>2, <2>3 DEF Prolongs
<1>16. IsLine(Line, l, client) /\ Prolongs(line2, Line, l)
  BY <1>1, <1>8, <1>10, LineParts DEF StreamInv, Prolongs
<1>17. Labelled(line2, lab2, l + 1, Counted, cuts, sent', unsent')
  <2>1. unsent \in 0 .. PkgSz - 1 /\ unsent' \in 0 .. PkgSz - 1
    BY DEF TypeOK
  <2>2. line2[l + 1].num = sent' /\ line2[l + 1].part = PkgSz - unsent'
    BY <1>3, <1>11
  <2>3. PICK s2, u2 : s2 = sent' /\ u2 = unsent'
    OBVIOUS
  <2>4. /\ u2 \in 0 .. PkgSz - 1
        /\ line2[l + 1].num = s2 /\ line2[l + 1].part = PkgSz - u2
        /\ \/ unsent > 0 /\ u2 = unsent - 1 /\ s2 = sent
           \/ unsent = 0 /\ u2 = PkgSz - 1
    BY ONLY <1>1, <2>1, <2>2, <2>3
  <2>5. Labelled(line2, lab2, l + 1, Counted, cuts, s2, u2)
    BY ONLY <1>8, <1>12, <1>13, <1>15, <1>16, <2>1, <2>4, PartSent
  <2> QED BY <2>3, <2>5
<1>18. CutsAccountForMixes'
  <2>1. \E k \in [1 .. Length' -> 0 .. cuts'] :
          Labelled(Line', k, Length', Counted', cuts', sent', unsent')
    BY <1>1, <1>8, <1>9, <1>12, <1>15, <1>17
  <2> QED BY <1>1, <1>12, <2>1 DEF CutsAccountForMixes
<1>19. OwnParts'
  <2>1. \A i \in 1 .. l : line2[i].conn = client
    BY <1>10, <1>16 DEF IsLine
  <2>2. \A i \in 1 .. l + 1 : line2[i].conn = client
    <3>1. \A i \in 1 .. l + 1 : i \in 1 .. l \/ i = l + 1
      OBVIOUS
    <3> QED BY <1>3, <1>11, <2>1, <3>1
  <2> QED BY <1>1, <1>8, <1>9, <2>2 DEF OwnParts
<1> QED
  BY <1>1, <1>18, <1>19 DEF StreamInv

\* The package being sent is given up, or the next one goes by UDP.
LEMMA CountsChange ==
  ASSUME TypeOK, TypeOK', StreamInv, connected,
         UNCHANGED <<rxBuff, stream, connected, client, pkgLeft, at, event, mixed>>,
         \/ cuts' = cuts + 1 /\ unsent' = 0 /\ sent' = sent
         \/ cuts' = cuts /\ unsent = 0 /\ unsent' = 0
  PROVE  StreamInv'
<1>1. Has' = Has
  BY DEF Has
<1>2. Length' = Length
  BY <1>1 DEF Length
<1>3. Line' = Line
  BY <1>1, <1>2 DEF Line
<1>4. Counted' = Counted /\ Counted \in Nat /\ cuts \in Nat /\ Counted <= cuts
  <2>1. Counted' = Counted
    BY DEF Counted, Mixes
  <2>2. Counted \in Nat /\ cuts \in Nat /\ Counted <= cuts
    BY CountedType DEF TypeOK, StreamInv, CutsAccountForMixes
  <2> QED BY <2>1, <2>2
<1>5. PICK lab \in [1 .. Length -> 0 .. cuts] :
        Labelled(Line, lab, Length, Counted, cuts, sent, unsent)
  BY DEF StreamInv, CutsAccountForMixes
<1>6. Length \in Nat
  BY LineIs
<1>7. /\ Labelled(Line, lab, Length, Counted, cuts', sent', unsent')
      /\ Counted <= cuts' /\ lab \in [1 .. Length -> 0 .. cuts']
  <2>1. CASE cuts' = cuts + 1 /\ unsent' = 0 /\ sent' = sent
    <3>1. Labelled(Line, lab, Length, Counted, cuts + 1, sent, 0)
      BY <1>4, <1>5, <1>6, PackageCut
    <3>2. \A i \in 1 .. Length : lab[i] \in 0 .. cuts + 1
      BY <1>4, <1>5
    <3>3. lab \in [1 .. Length -> 0 .. cuts + 1]
      BY <1>5, <3>2
    <3> QED BY <1>4, <2>1, <3>1, <3>3
  <2>2. CASE cuts' = cuts /\ unsent = 0 /\ unsent' = 0
    <3>1. PICK s2 : s2 = sent'
      OBVIOUS
    <3>2. Labelled(Line, lab, Length, Counted, cuts, sent, 0)
      BY <1>5, <2>2
    <3>3. Labelled(Line, lab, Length, Counted, cuts, s2, 0)
      BY <1>6, <3>2, NumberTaken
    <3> QED BY <1>4, <1>5, <2>2, <3>1, <3>3
  <2> QED BY <2>1, <2>2
<1>8. CutsAccountForMixes'
  <2>1. \E k \in [1 .. Length' -> 0 .. cuts'] :
          Labelled(Line', k, Length', Counted', cuts', sent', unsent')
    BY <1>2, <1>3, <1>4, <1>7
  <2> QED BY <1>4, <1>7, <2>1 DEF CutsAccountForMixes
<1>9. OwnParts'
  BY <1>2, <1>3 DEF StreamInv, OwnParts
<1> QED
  BY <1>8, <1>9 DEF StreamInv

LEMMA NextStream == TypeOK /\ TypeOK' /\ StreamInv /\ [Next]_vars => StreamInv'
<1> SUFFICES ASSUME TypeOK, TypeOK', StreamInv, [Next]_vars PROVE StreamInv'
  OBVIOUS
<1> USE DEF bootVars, tcpVars, udpVars, callers, netVars
<1>1. ~ connected => stream = <<>>
  BY DEF StreamInv
<1>2. connected => at \notin {"boot", "net"}
  BY DEF StreamInv
<1>3. CASE Restarted
  BY <1>3, NobodyConnected DEF Restarted, Forgotten
<1>4. CASE Boot \/ Setup
  BY <1>1, <1>2, <1>4, NobodyConnected DEF Boot, Setup, TypeOK
<1>5. CASE NoClient
  BY <1>1, <1>5, NobodyConnected DEF NoClient, ReadsOnly, TypeOK
<1>6. CASE Accept
  BY <1>6, AcceptStream
<1>7. CASE Drop \/ ReadCorrupt
  BY <1>7, NobodyConnected DEF Drop, ReadCorrupt, Stop
<1>8. CASE Quiet
  <2>1. /\ at = "tcp" /\ at' = "udp" /\ event' = NoEvent(pkgLeft < PkgSz)
        /\ UNCHANGED <<rxBuff, stream, connected, client, pkgLeft, sent, unsent, cuts, mixed>>
    BY <1>8 DEF Quiet, ReadsOnly
  <2>2. event'.type = "NoEvent" /\ event'.data = (pkgLeft < PkgSz)
    BY <2>1 DEF NoEvent
  <2>3. Counted' = Counted
    BY <2>1, <2>2 DEF Counted, Mixes
  <2>4. connected /\ event' = NoEvent(FALSE) => pkgLeft = PkgSz
    <3> SUFFICES ASSUME connected, event' = NoEvent(FALSE) PROVE pkgLeft = PkgSz
      OBVIOUS
    <3>1. event'.data = FALSE
      BY DEF NoEvent
    <3>2. ~ (pkgLeft < PkgSz)
      BY ONLY <2>2, <3>1, Zenon
    <3> QED BY <3>2 DEF StreamInv
  <2> QED BY ONLY TypeOK, StreamInv, <2>1, <2>2, <2>3, <2>4, SameStream
<1>9. CASE ReadPart
  BY <1>9, ReadPartStream
<1>10. CASE ReadRequest
  BY <1>10, ReadRequestStream
<1>11. CASE RestartUDP \/ StartUDP \/ PassUDP
  <2>1. /\ at = "udp" /\ at' = "work"
        /\ UNCHANGED <<rxBuff, stream, connected, client, pkgLeft, sent, unsent, cuts, mixed, event>>
    BY <1>11 DEF RestartUDP, StartUDP, PassUDP, ServesOnly
  <2>2. Counted' = Counted
    BY <2>1 DEF Counted, Mixes, Whole
  <2>3. connected /\ event'.type = "NewRequest" => pkgLeft = PkgSz
    BY <2>1 DEF StreamInv
  <2> QED BY ONLY TypeOK, StreamInv, <2>1, <2>2, <2>3, SameStream
<1>12. ASSUME NEW d \in dgrams, NEW good \in BOOLEAN, ReceiveUDP(d, good)
       PROVE  StreamInv'
  <2>1. /\ at = "udp" /\ at' = "work" /\ event = NoEvent(FALSE)
        /\ UNCHANGED <<stream, connected, client, pkgLeft, sent, unsent, cuts, mixed>>
        /\ rxBuff' = [i \in 1 .. PkgSz |->
                        IF good THEN [conn |-> d.from.conn, num |-> d.num, part |-> i] ELSE NoPart]
    BY <1>12 DEF ReceiveUDP, ServesOnly
  <2>2. CASE ~ connected
    BY <1>1, <2>1, <2>2, NobodyConnected DEF TypeOK
  <2>3. CASE connected
    <3>1. pkgLeft = PkgSz
      BY <2>1, <2>3 DEF StreamInv
    <3>2. Has = 0 /\ Has' = 0
      BY <2>1, <3>1 DEF Has
    <3>3. Length' = Length /\ Length \in Nat
      BY <2>1, <3>2, LineIs DEF Length
    <3>4. Line' = Line
      <4>1. Line = [i \in 1 .. Length |-> stream[i - 0]]
        <5>1. \A i \in 1 .. Length : ~ (i <= 0)
          OBVIOUS
        <5> QED BY <3>2, <5>1 DEF Line
      <4>2. Line' = [i \in 1 .. Length |-> stream[i - 0]]
        <5>1. \A i \in 1 .. Length : ~ (i <= 0)
          OBVIOUS
        <5> QED BY <2>1, <3>2, <3>3, <5>1 DEF Line
      <4> QED BY <4>1, <4>2
    <3>5. ~ Mixes /\ ~ Mixes'
      <4>1. event.type = "NoEvent"
        BY <2>1 DEF NoEvent
      <4>2. CASE good /\ d.num > serverSeq
        <5>1. Whole(rxBuff')
          <6>1. \A i \in 1 .. PkgSz : rxBuff'[i] = [conn |-> d.from.conn, num |-> d.num, part |-> i]
            BY <2>1, <4>2
          <6>2. 1 \in 1 .. PkgSz
            OBVIOUS
          <6>3. rxBuff'[1] = [conn |-> d.from.conn, num |-> d.num, part |-> 1]
            BY <6>1, <6>2
          <6>4. rxBuff'[1].conn = d.from.conn /\ rxBuff'[1].num = d.num
            BY ONLY <6>3
          <6> QED BY ONLY <6>1, <6>4 DEF Whole
        <5> QED BY <4>1, <5>1 DEF Mixes
      <4>3. CASE ~ (good /\ d.num > serverSeq)
        <5>1. event' = event
          BY <1>12, <4>3 DEF ReceiveUDP
        <5> QED BY <4>1, <5>1 DEF Mixes
      <4> QED BY <4>2, <4>3
    <3>6. Counted' = Counted
      BY <2>1, <3>5 DEF Counted
    <3>7. CutsAccountForMixes' /\ OwnParts'
      BY <2>1, <2>3, <3>3, <3>4, <3>6 DEF StreamInv, CutsAccountForMixes, OwnParts
    <3> QED BY <2>1, <2>3, <3>1, <3>7 DEF StreamInv
  <2> QED BY <2>2, <2>3
<1>13. CASE Work
  <2>1. /\ at = "work" /\ at' = "tcp" /\ event' = NoEvent(FALSE)
        /\ rxBuff' = rxBuff \/ pkgLeft = PkgSz
        /\ UNCHANGED <<stream, connected, client, pkgLeft, sent, unsent, cuts>>
        /\ mixed' = IF event.type = "NewRequest" /\ ~Whole(rxBuff) THEN mixed + 1 ELSE mixed
    BY <1>13 DEF Work
  <2>2. event'.type = "NoEvent"
    BY <2>1 DEF NoEvent
  <2>3. Counted' = Counted
    BY <2>1 DEF Counted, Mixes
  <2> QED BY ONLY TypeOK, StreamInv, <2>1, <2>2, <2>3, SameStream
<1>14. CASE SendPart
  BY <1>14, SendPartStream
<1>15. CASE Cut
  BY <1>15, CountsChange DEF Cut, ByTCP, Network, Alone
<1>16. ASSUME NEW c \in Conns, SendDatagram(c)
       PROVE  StreamInv'
  <2>1. /\ UNCHANGED <<rxBuff, stream, connected, client, pkgLeft, at, event, mixed, cuts, unsent>>
        /\ unsent = 0
    BY <1>16 DEF SendDatagram, ByUDP, Network, Alone
  <2>2. CASE connected
    BY <2>1, <2>2, CountsChange
  <2>3. CASE ~ connected
    BY <1>1, <2>1, <2>3, NobodyConnected DEF TypeOK
  <2> QED BY <2>2, <2>3
<1>17. ASSUME UNCHANGED <<at, event, rxBuff, stream, connected, client, pkgLeft, sent, unsent, cuts, mixed>>
       PROVE  StreamInv'
  <2>1. Counted' = Counted
    BY <1>17 DEF Counted, Mixes, Whole
  <2>2. connected => /\ at' \notin {"boot", "net"}
                     /\ event'.type = "NewRequest" => pkgLeft = PkgSz
                     /\ at' = "udp" /\ event' = NoEvent(FALSE) => pkgLeft = PkgSz
    BY <1>17 DEF StreamInv
  <2> QED BY ONLY TypeOK, StreamInv, <1>17, <2>1, <2>2, SameStream
<1>18. CASE \E c \in Conns : Knock(c)
  BY <1>17, <1>18 DEF Knock, ByTCP, Network, Alone
<1>19. CASE Close \/ \E d \in dgrams : Lose(d)
  BY <1>17, <1>19 DEF Close, Lose, ByTCP, ByUDP, Network, Alone
<1>20. CASE LinkDown \/ LinkUp \/ Tick \/ UNCHANGED vars
  BY <1>17, <1>20 DEF LinkDown, LinkUp, Cable, Tick, Alone, vars
<1>21. SetupFails \/ CheckLink \/ HardwareReset => Restarted
  BY DEF SetupFails, CheckLink, HardwareReset, SystemReset
<1> QED
  BY <1>3, <1>4, <1>5, <1>6, <1>7, <1>8, <1>9, <1>10, <1>11, <1>12, <1>13, <1>14, <1>15,
     <1>16, <1>18, <1>19, <1>20, <1>21
  DEF Next, Firmware, ServeTCP, ServeUDP, Environment

\* A request that goes to the ports is one package, except for one request for
\* each package the client gave up half way (tcpserver.cpp:45-68,
\* udpserver.cpp:55-82).
THEOREM RequestsAreOnePackage == Spec => []RequestsAreWhole
<1>1. TypeOK /\ StreamInv => RequestsAreWhole
  <2> SUFFICES ASSUME TypeOK, StreamInv, connected PROVE mixed <= cuts
    BY DEF RequestsAreWhole
  <2>1. Counted <= cuts
    BY DEF StreamInv, CutsAccountForMixes
  <2> QED BY <2>1, CountedType DEF TypeOK
<1> QED
  BY <1>1, InitTypeOK, NextTypeOK, InitStream, NextStream, PTL DEF Spec
-----------------------------------------------------------------------------
(* Whom a response goes to.                                                *)

\* What the UDP server has learnt is of the client connected, but for the one
\* pass in which TCPServer::ProcessRX reports it, and the port is one from
\* which a client came that announced what this one did.
KnowsItsClient ==
  /\ \A d \in dgrams : conn[d.from.conn] # "none"
  /\ connected =>
       /\ conn[client] # "none"
       /\ at = "udp" => event.type # "Disconnected"
       /\ IF at = "udp" /\ event.type = "Connected"
            THEN event.data = host[client]
            ELSE /\ clientAddr = host[client]
                 /\ serverStarted => listens = announced[client]
                 /\ clientUDPPort # NoSource =>
                      /\ conn[clientUDPPort.conn] # "none"
                      /\ announced[clientUDPPort.conn] = announced[client]
                 /\ at = "udp" /\ event.type = "NewRequest" =>
                      event.data \in {None, announced[client]}

LEMMA InitKnows == Init => KnowsItsClient
BY DEF Init, KnowsItsClient

\* A client that has made its connection keeps its address and the port it
\* announces.
LEMMA ClientsStay ==
  ASSUME TypeOK, [Next]_vars, NEW x \in Conns, conn[x] # "none"
  PROVE  conn'[x] # "none" /\ host'[x] = host[x] /\ announced'[x] = announced[x]
<1> USE DEF callers, netVars
<1>1. ASSUME NEW c \in Conns, Knock(c)
      PROVE  conn'[x] # "none" /\ host'[x] = host[x] /\ announced'[x] = announced[x]
  <2>1. PICK h, p : /\ conn' = [conn EXCEPT ![c] = "waiting"]
                    /\ host' = [host EXCEPT ![c] = h]
                    /\ announced' = [announced EXCEPT ![c] = p]
    BY <1>1 DEF Knock
  <2>2. c # x
    BY <1>1 DEF Knock
  <2> QED BY <2>1, <2>2 DEF TypeOK
<1>2. ASSUME NEW c \in Conns, NEW s \in {"waiting", "open", "closed"},
             conn' = [conn EXCEPT ![c] = s], UNCHANGED callers
      PROVE  conn'[x] # "none" /\ host'[x] = host[x] /\ announced'[x] = announced[x]
  BY <1>2 DEF TypeOK
<1>3. CASE Forgotten
  BY <1>3 DEF Forgotten, TypeOK
<1>4. CASE UNCHANGED <<conn, callers>>
  BY <1>4
<1>5. SetupFails \/ CheckLink \/ HardwareReset => Forgotten
  BY DEF SetupFails, CheckLink, HardwareReset, SystemReset, Restarted
<1>6. CASE Accept
  <2>1. \E c \in Conns : conn' = [conn EXCEPT ![c] = "open"]
    BY <1>6 DEF Accept
  <2>2. UNCHANGED callers
    BY <1>6 DEF Accept
  <2> QED BY ONLY <1>2, <2>1, <2>2
<1>7. CASE Drop \/ ReadCorrupt \/ Close
  <2>1. connected /\ client \in Conns
    BY <1>7 DEF Drop, ReadCorrupt, Read, Close, TypeOK
  <2>2. conn' = [conn EXCEPT ![client] = "closed"] /\ UNCHANGED callers
    BY <1>7 DEF Drop, ReadCorrupt, Close, Stop
  <2> QED BY ONLY <1>2, <2>1, <2>2
<1>8. CASE Boot \/ Setup \/ NoClient \/ Quiet \/ ReadPart \/ ReadRequest
  BY <1>4, <1>8 DEF Boot, Setup, NoClient, Quiet, ReadPart, ReadRequest
<1>9. CASE ServeUDP
  <2>1. ServesOnly
    BY <1>9 DEF ServeUDP, RestartUDP, StartUDP, PassUDP, ReceiveUDP
  <2> QED BY <1>4, <2>1 DEF ServesOnly
<1>10. CASE Work \/ Tick \/ LinkDown \/ LinkUp \/ UNCHANGED vars
  BY <1>4, <1>10 DEF Work, Tick, LinkDown, LinkUp, Cable, vars
<1>11. CASE SendPart \/ Cut \/ (\E d \in dgrams : Lose(d))
  BY <1>4, <1>11 DEF SendPart, Cut, Lose
<1>12. CASE \E c \in Conns : SendDatagram(c)
  BY <1>4, <1>12 DEF SendDatagram
<1> QED
  BY <1>1, <1>3, <1>5, <1>6, <1>7, <1>8, <1>9, <1>10, <1>11, <1>12
  DEF Next, Firmware, ServeTCP, Environment

\* So the invariant outlives a step that leaves alone what the firmware knows,
\* if what it sends comes from a client that has made its connection.
LEMMA SameKnowledge ==
  ASSUME TypeOK, KnowsItsClient, [Next]_vars,
         UNCHANGED <<at, event, connected, client, udpVars>>,
         \A d \in dgrams' : \/ d \in dgrams
                            \/ d.from.conn \in Conns /\ conn'[d.from.conn] # "none"
  PROVE  KnowsItsClient'
<1>1. \A d \in dgrams : d.from.conn \in Conns
  BY DEF TypeOK, Datagrams, Sources
<1>2. \A d \in dgrams' : conn'[d.from.conn] # "none"
  BY <1>1, ClientsStay DEF KnowsItsClient
<1>3. UNCHANGED <<at, event, connected, client, clientAddr, serverStarted, listens, clientUDPPort>>
  BY DEF udpVars
<1>4. ASSUME connected
      PROVE  conn'[client] # "none" /\ host'[client] = host[client] /\ announced'[client] = announced[client]
  BY <1>4, ClientsStay DEF TypeOK, KnowsItsClient
<1>5. ASSUME clientUDPPort # NoSource, conn[clientUDPPort.conn] # "none"
      PROVE  conn'[clientUDPPort.conn] # "none" /\ announced'[clientUDPPort.conn] = announced[clientUDPPort.conn]
  <2>1. clientUDPPort.conn \in Conns
    BY <1>5 DEF TypeOK, Sources
  <2> QED BY <1>3, <1>5, <2>1, ClientsStay
<1> QED
  BY ONLY KnowsItsClient, <1>2, <1>3, <1>4, <1>5 DEF KnowsItsClient

LEMMA NextKnows ==
  TypeOK /\ TypeOK' /\ StreamInv /\ KnowsItsClient /\ [Next]_vars => KnowsItsClient'
<1> SUFFICES ASSUME TypeOK, TypeOK', StreamInv, KnowsItsClient, [Next]_vars
             PROVE  KnowsItsClient'
  OBVIOUS
<1> USE DEF bootVars, tcpVars, udpVars, callers, netVars
<1>0. ASSUME dgrams' \subseteq dgrams
      PROVE  \A d \in dgrams' : conn'[d.from.conn] # "none"
  <2> SUFFICES ASSUME NEW d \in dgrams PROVE conn'[d.from.conn] # "none"
    BY <1>0
  <2>1. d.from.conn \in Conns
    BY DEF TypeOK, Datagrams, Sources
  <2> QED BY <2>1, ClientsStay DEF KnowsItsClient
<1>1. CASE connected' = FALSE /\ UNCHANGED dgrams
  BY <1>0, <1>1 DEF KnowsItsClient
<1>2. SetupFails \/ CheckLink \/ HardwareReset \/ Setup \/ Drop \/ ReadCorrupt
        => connected' = FALSE /\ UNCHANGED dgrams
  BY DEF SetupFails, CheckLink, HardwareReset, SystemReset, Restarted, Forgotten, Setup, Drop,
         ReadCorrupt, Stop
<1>3. CASE Boot \/ NoClient
  <2>1. connected' = FALSE /\ UNCHANGED dgrams
    BY <1>3 DEF Boot, NoClient, ReadsOnly, StreamInv, TypeOK
  <2> QED BY <1>1, <2>1
<1>4. CASE Accept
  <2>1. PICK c \in Conns : /\ conn' = [conn EXCEPT ![c] = "open"]
                           /\ client' = c /\ event' = Event("Connected", host[c])
    BY <1>4 DEF Accept
  <2>2. at' = "udp" /\ UNCHANGED <<host, dgrams>>
    BY <1>4 DEF Accept, ReadsOnly
  <2>3. event'.type = "Connected" /\ event'.data = host'[client']
    BY <2>1, <2>2 DEF Event
  <2>4. conn'[client'] # "none"
    BY <2>1 DEF TypeOK
  <2> QED BY ONLY <1>0, <2>2, <2>3, <2>4 DEF KnowsItsClient
<1>5. ASSUME at = "tcp", at' = "udp", UNCHANGED <<connected, client, udpVars, conn, callers, dgrams>>,
             \/ event'.type = "NoEvent"
             \/ event'.type = "NewRequest" /\ event'.data \in {None, announced[client]}
      PROVE  KnowsItsClient'
  BY <1>5 DEF KnowsItsClient
<1>6. CASE Quiet \/ ReadPart
  <2>1. event'.type = "NoEvent"
    BY <1>6 DEF Quiet, ReadPart, NoEvent
  <2> QED BY <1>5, <1>6, <2>1 DEF Quiet, ReadPart, Read, ReadsOnly
<1>7. CASE ReadRequest
  <2>1. Filled[1].conn = client
    BY <1>7, ReadRequestStream
  <2>2. event'.type = "NewRequest" /\ event'.data \in {None, announced[client]}
    BY <1>7, <2>1 DEF ReadRequest, Event
  <2> QED BY <1>5, <1>7, <2>2 DEF ReadRequest, Read, ReadsOnly
<1>8. CASE RestartUDP
  <2>1. /\ at = "udp" /\ at' = "work" /\ event.type \in {"Connected", "Disconnected"}
        /\ serverStarted' = FALSE /\ clientUDPPort' = NoSource /\ clientAddr' = event.data
        /\ connected' = connected /\ client' = client
        /\ UNCHANGED <<conn, host, announced, dgrams>>
    BY <1>8 DEF RestartUDP, ServesOnly
  <2> QED BY <2>1 DEF KnowsItsClient
<1>9. CASE StartUDP
  <2>1. /\ at = "udp" /\ at' = "work" /\ event.type = "NewRequest" /\ event.data # None
        /\ UNCHANGED <<connected, client, clientAddr, clientUDPPort, conn, host, announced, dgrams>>
        /\ \/ listens' = event.data
           \/ serverStarted' = serverStarted /\ listens' = listens
    BY <1>9 DEF StartUDP, ServesOnly
  <2> QED BY <2>1 DEF KnowsItsClient
<1>10. CASE PassUDP
  <2>1. /\ at = "udp" /\ at' = "work" /\ event.type \in {"NewRequest", "NoEvent"}
        /\ UNCHANGED <<connected, client, udpVars, conn, host, announced, dgrams>>
    BY <1>10 DEF PassUDP, ServesOnly
  <2> QED BY <2>1 DEF KnowsItsClient
<1>11. ASSUME NEW d \in dgrams, NEW good \in BOOLEAN, ReceiveUDP(d, good)
       PROVE  KnowsItsClient'
  <2>1. /\ at = "udp" /\ at' = "work" /\ event = NoEvent(FALSE) /\ serverStarted
        /\ announced[d.from.conn] = listens
        /\ UNCHANGED <<connected, client, serverStarted, listens, clientAddr, conn, host,
                       announced, dgrams>>
    BY <1>11 DEF ReceiveUDP, ServesOnly
  <2>2. event.type = "NoEvent"
    BY <2>1 DEF NoEvent
  <2>3. clientUDPPort' \in {clientUDPPort, d.from}
    BY <1>11 DEF ReceiveUDP
  <2>4. conn[d.from.conn] # "none"
    BY DEF KnowsItsClient
  <2> QED BY ONLY KnowsItsClient, <2>1, <2>2, <2>3, <2>4 DEF KnowsItsClient
<1>12. CASE Work
  <2>1. /\ at = "work" /\ at' = "tcp"
        /\ UNCHANGED <<connected, client, udpVars, conn, host, announced, dgrams>>
    BY <1>12 DEF Work
  <2> QED BY <2>1 DEF KnowsItsClient
<1>13. ASSUME NEW c \in Conns, SendDatagram(c)
       PROVE  KnowsItsClient'
  <2>1. UNCHANGED <<at, event, connected, client, udpVars, conn>>
    BY <1>13 DEF SendDatagram, ByUDP, Network, Alone
  <2>2. conn[c] # "none"
    BY <1>13 DEF SendDatagram, Open
  <2>3. \A d \in dgrams' : d.from.conn = c
    BY <1>13 DEF SendDatagram
  <2> QED BY ONLY TypeOK, KnowsItsClient, [Next]_vars, <2>1, <2>2, <2>3, SameKnowledge
<1>14. ASSUME UNCHANGED <<at, event, connected, client, udpVars>>, dgrams' \subseteq dgrams
       PROVE  KnowsItsClient'
  BY ONLY TypeOK, KnowsItsClient, [Next]_vars, <1>14, SameKnowledge
<1>15. CASE Alone /\ dgrams' \subseteq dgrams
  BY <1>14, <1>15 DEF Alone
<1>16. CASE Tick \/ UNCHANGED vars
  BY <1>14, <1>16 DEF Tick, vars
<1>17. Environment => \/ Alone /\ dgrams' \subseteq dgrams
                      \/ \E c \in Conns : SendDatagram(c)
                      \/ Tick \/ HardwareReset
  BY DEF Environment, Knock, SendPart, Cut, Close, Lose, LinkDown, LinkUp,
         Cable, ByTCP, ByUDP, Network
<1> QED
  BY <1>1, <1>2, <1>3, <1>4, <1>6, <1>7, <1>8, <1>9, <1>10, <1>11, <1>12, <1>13, <1>15,
     <1>16, <1>17
  DEF Next, Firmware, ServeTCP, ServeUDP

\* A response over UDP goes to the address of the client that is connected and
\* to a port from which a client came that announced the same server port; what
\* was learnt of clients before is not used (udpserver.cpp:33-50, 73-75, 87).
THEOREM AnswersGoToTheClient == Spec => []AnswersAreForTheClient
<1>1. TypeOK /\ KnowsItsClient => AnswersAreForTheClient
  <2> SUFFICES ASSUME TypeOK, KnowsItsClient, at = "work", NEW a \in Answers, a.by = "UDP"
               PROVE  a.addr = host[client] /\ announced[a.to.conn] = announced[client]
    BY DEF AnswersAreForTheClient
  <2>1. connected
    BY DEF Answers
  <2>2. /\ a = [by |-> "UDP", addr |-> clientAddr, to |-> clientUDPPort]
        /\ clientUDPPort # NoSource
    BY DEF Answers
  <2>3. /\ clientAddr = host[client]
        /\ announced[clientUDPPort.conn] = announced[client]
    BY <2>1, <2>2 DEF KnowsItsClient
  <2> QED BY <2>2, <2>3
<1> QED
  BY <1>1, InitTypeOK, NextTypeOK, InitStream, NextStream, InitKnows, NextKnows, PTL DEF Spec
=============================================================================
