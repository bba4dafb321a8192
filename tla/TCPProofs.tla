----------------------------- MODULE TCPProofs -----------------------------
(***************************************************************************)
(* Theorems about the two programs that live on a TCP connection.          *)
(*                                                                         *)
(* TCPTransport, the client's: its types, for any number of connections    *)
(* and parts, that no socket is forgotten open, whatever numbers the       *)
(* kernel gives out again, and when a package can be put together from     *)
(* parts that do not belong together.                                      *)
(*                                                                         *)
(* Loopback, the test utility and the board that answers it: that the echo *)
(* is faithful and the verdict right, for every size of the block, of the  *)
(* socket, of the serial buffers and of the ring, and every number of      *)
(* bytes spoilt.                                                           *)
(***************************************************************************)
EXTENDS TCPTransport, Loopback, SequenceTheorems, TLAPS

\* Thread t is in GetConnection and holds the lock.
Renewing(t) == lock = t /\ t \in Users

\* A thread that disposes of a connection or uses one has one.
HasConnection ==
  \A t \in Threads : at[t] \in {"use", "dispose", "exchange"} => conn[t] # None

\* Who makes a connection holds the lock, and it does so only when the connection
\* there was is disposed of, which cannot be undone.
OldOneIsGone ==
  \A t \in Threads :
    /\ at[t] = "create" => /\ Renewing(t)
                           /\ remoteConn = None \/ remoteConn \in disposed
    /\ Renewing(t) /\ at[t] \in {"dispose", "exchange"} => remoteConn \in disposed

\* Every connection object has a number.
Numbered == \A c \in 1 .. conns : number[c] # None

TInv == TCPTypeOK /\ HasConnection /\ OldOneIsGone /\ Numbered

\* Connections before the present one are disposed of; a socket that is open is the
\* one of the present connection and has its number.
OnlyThePresent ==
  /\ remoteConn \in {None, conns}
  /\ \A c \in 1 .. conns : c = remoteConn \/ c \in disposed
  /\ \A f \in Conns : socket[f] # None =>
       socket[f] = remoteConn /\ remoteConn \notin disposed /\ number[remoteConn] = f
-----------------------------------------------------------------------------
LEMMA ThreadFacts ==
  /\ Threads = {"worker", "timer", "main"} /\ Users = {"worker", "timer"}
  /\ Nobody \notin Threads /\ None = 0
BY DEF Users, Threads, Nobody, None

LEMMA ExceptType ==
  ASSUME NEW D, NEW S, NEW f \in [D -> S], NEW d, NEW v \in S
  PROVE  [f EXCEPT ![d] = v] \in [D -> S]
OBVIOUS

LEMMA BeginningType ==
  ASSUME NEW c \in Conns, NEW k \in Nat, NEW n \in Nat \ {0}, k + n <= MaxParts
  PROVE  /\ Beginning(c, k, n) \in Seq(Conns \X (0 .. MaxParts))
         /\ Len(Beginning(c, k, n)) = n
<1>1. \A i \in 1 .. n : k + i - 1 \in 0 .. MaxParts
  BY TCPTransportAssumption
<1>2. \A i \in 1 .. n : <<c, k + i - 1>> \in Conns \X (0 .. MaxParts)
  BY <1>1
<1>3. Beginning(c, k, n) \in [1 .. n -> Conns \X (0 .. MaxParts)]
  BY <1>2 DEF Beginning
<1>4. QED BY <1>3

LEMMA InitInv == TCPInit => TInv
<1> SUFFICES ASSUME TCPInit PROVE TInv
  OBVIOUS
<1> USE TCPTransportAssumption, ThreadFacts DEF TCPInit
<1>1. ConnTypeOK
  <2>1. /\ [c \in Conns |-> None] \in [Conns -> 0 .. MaxConns]
        /\ [c \in Conns |-> None] \in [Conns -> 0 .. 0]
    OBVIOUS
  <2>2. {} \subseteq 1 .. 0 /\ 0 \in 0 .. MaxConns /\ 0 \in 0 .. 0
    OBVIOUS
  <2>3. FALSE \in BOOLEAN
    OBVIOUS
  <2>4. QED BY <2>1, <2>2, <2>3 DEF ConnTypeOK
<1>2. ThreadTypeOK
  <2>1. at \in [Threads -> Places]
    BY DEF Places
  <2>2. QED BY <2>1 DEF ThreadTypeOK
<1>3. DataTypeOK
  <2>1. << >> \in Seq(Conns \X (0 .. MaxParts)) /\ Len(<< >>) <= Parts
    OBVIOUS
  <2>2. [c \in Conns |-> 0] \in [Conns -> 0 .. MaxParts] /\ 0 \in 0 .. Parts /\ 0 \in 0 .. MaxShutdowns
    OBVIOUS
  <2>3. FALSE \in BOOLEAN /\ [c \in Conns |-> "open"] \in [Conns -> {"open", "closed", "reset"}]
    OBVIOUS
  <2>4. QED BY <2>1, <2>2, <2>3 DEF DataTypeOK
<1>4. HasConnection /\ OldOneIsGone /\ Numbered
  BY DEF HasConnection, OldOneIsGone, Renewing, Numbered
<1>5. QED BY <1>1, <1>2, <1>3, <1>4 DEF TInv, TCPTypeOK

\* A step of one thread that leaves the lock and the connections alone and goes to
\* a place that needs no more than the place it comes from.
LEMMA QuietStep ==
  ASSUME TInv, DataTypeOK', NEW t \in Threads, NEW place \in Places,
         UNCHANGED <<lock, connVars, conn, cut>>,
         at' = [at EXCEPT ![t] = place],
         expected' \in [Threads -> BOOLEAN],
         place # "create", lock # t \/ place \in {"dispose", "exchange"},
         place \in {"use", "dispose", "exchange"} => at[t] \in {"use", "dispose", "exchange"},
         place \in {"dispose", "exchange"} => lock # t \/ at[t] \in {"dispose", "exchange"}
  PROVE  TInv'
<1> USE ThreadFacts DEF TInv, TCPTypeOK, connVars, Renewing
<1>1. ConnTypeOK' /\ Numbered'
  BY DEF ConnTypeOK, Numbered
<1>2. ThreadTypeOK'
  BY DEF ThreadTypeOK
<1>3. HasConnection' /\ OldOneIsGone'
  BY DEF HasConnection, OldOneIsGone, ThreadTypeOK
<1>4. QED BY <1>1, <1>2, <1>3

\* The steps in which a thread finds, makes or gives up a connection.
LEMMA GetInv ==
  ASSUME TInv, NEW t \in Users, GetConnection(t) \/ Create(t) \/ CreateFails(t)
  PROVE  TInv'
<1> USE ThreadFacts, TCPTransportAssumption DEF TInv, TCPTypeOK, Renewing, Go
<1>1. CASE GetConnection(t)
  <2> USE <1>1 DEF GetConnection
  <2>1. ConnTypeOK' /\ Numbered' /\ DataTypeOK'
    BY DEF ConnTypeOK, Numbered, DataTypeOK, connVars, rxVars, stopVars
  <2>2. ThreadTypeOK'
    <3>1. at' \in [Threads -> Places] /\ conn' \in [Threads -> 0 .. conns']
      BY DEF ThreadTypeOK, ConnTypeOK, connVars, Places
    <3>2. lock' \in {Nobody} \cup Threads
          /\ (lock' # Nobody => at'[lock'] \in {"dispose", "exchange", "create"})
      BY DEF ThreadTypeOK
    <3>3. QED BY <3>1, <3>2 DEF ThreadTypeOK
  <2>3. HasConnection'
    BY DEF HasConnection, ThreadTypeOK
  <2>4. OldOneIsGone'
    BY DEF OldOneIsGone, ThreadTypeOK, connVars
  <2>5. QED BY <2>1, <2>2, <2>3, <2>4
<1>2. CASE Create(t)
  <2> USE <1>2 DEF Create
  <2>1. conns' = conns + 1 /\ conns' \in 1 .. MaxConns /\ conns' \in 1 .. conns' /\ remoteConn' = conns'
    BY DEF ConnTypeOK
  <2>2. PICK f \in Conns : /\ number' = [number EXCEPT ![conns'] = f]
                           /\ socket' = [socket EXCEPT ![f] = conns']
    BY <2>1 DEF FreeNumbers, Conns
  <2>3. at' = [at EXCEPT ![t] = "use"] /\ conn' = [conn EXCEPT ![t] = conns'] /\ lock' = Nobody
    BY <2>1
  <2>4. ConnTypeOK'
    BY <2>1, <2>2, SMTT(30) DEF ConnTypeOK, Conns
  <2>5. Numbered'
    BY <2>1, <2>2 DEF Numbered, Conns, ConnTypeOK
  <2>6. DataTypeOK'
    BY DEF DataTypeOK, rxVars, stopVars
  <2>7. ThreadTypeOK'
    BY <2>1, <2>3 DEF ThreadTypeOK, ConnTypeOK, Places
  <2>8. HasConnection' /\ OldOneIsGone'
    BY <2>1, <2>3 DEF HasConnection, OldOneIsGone, ThreadTypeOK
  <2>9. QED BY <2>4, <2>5, <2>6, <2>7, <2>8
<1>3. CASE CreateFails(t)
  <2> USE <1>3 DEF CreateFails
  <2>1. ConnTypeOK' /\ Numbered' /\ DataTypeOK'
    BY DEF ConnTypeOK, Numbered, DataTypeOK, rxVars, stopVars
  <2>2. ThreadTypeOK'
    BY DEF ThreadTypeOK, Places
  <2>3. HasConnection' /\ OldOneIsGone'
    BY DEF HasConnection, OldOneIsGone, ThreadTypeOK
  <2>4. QED BY <2>1, <2>2, <2>3
<1>4. QED BY <1>1, <1>2, <1>3

\* The steps of Dispose.
LEMMA DisposeInv ==
  ASSUME TInv, NEW t \in Threads, ReadFalseVal(t) \/ Exchange(t)
  PROVE  TInv'
<1> USE ThreadFacts DEF TInv, TCPTypeOK
<1>1. CASE ReadFalseVal(t)
  <2>1. DataTypeOK' /\ expected' \in [Threads -> BOOLEAN]
    BY <1>1 DEF ReadFalseVal, DataTypeOK, ThreadTypeOK, ConnTypeOK, rxVars, stopVars
  <2>2. UNCHANGED <<lock, connVars, conn, cut>> /\ at' = [at EXCEPT ![t] = "exchange"] /\ at[t] = "dispose"
    BY <1>1 DEF ReadFalseVal, Go
  <2>3. QED BY <2>1, <2>2, QuietStep DEF Places
<1>2. CASE Exchange(t)
  <2> USE <1>2 DEF Renewing
  <2>1. conn[t] \in 1 .. conns /\ conn[t] \in Conns /\ at[t] = "exchange"
    <3>1. at[t] = "exchange"
      BY DEF Exchange
    <3>2. conn[t] # None /\ conn[t] \in 0 .. conns /\ conns \in 0 .. MaxConns
      BY <3>1 DEF HasConnection, ThreadTypeOK, ConnTypeOK
    <3>3. QED BY <3>1, <3>2, TCPTransportAssumption DEF Conns
  <2>2. PICK place \in {"create", "loop", "idle"} :
           /\ at' = [at EXCEPT ![t] = place] /\ (place = "create" <=> Renewing(t))
           /\ lock' = IF lock = t /\ ~ Renewing(t) THEN Nobody ELSE lock
    BY DEF Exchange, Go
  <2>3. /\ disposed \subseteq disposed' /\ disposed' \subseteq 1 .. conns
        /\ socket' \in [Conns -> 0 .. conns] /\ arrived' \in [Conns -> 0 .. MaxParts]
    <3> DEFINE found == conn[t] \in disposed
               freed == [socket EXCEPT ![number[conn[t]]] = None]
               lost  == [a \in Conns |-> IF a = socket[number[conn[t]]] THEN taken[a] ELSE arrived[a]]
    <3>1. freed \in [Conns -> 0 .. conns] /\ socket \in [Conns -> 0 .. conns]
      <4>1. None \in 0 .. conns /\ socket \in [Conns -> 0 .. conns]
        BY TCPTransportAssumption DEF ConnTypeOK
      <4>2. QED BY <4>1, ExceptType
    <3>2. lost \in [Conns -> 0 .. MaxParts] /\ arrived \in [Conns -> 0 .. MaxParts]
      BY DEF DataTypeOK
    <3>3. disposed \cup {conn[t]} \subseteq 1 .. conns /\ disposed \subseteq 1 .. conns
      BY <2>1 DEF ConnTypeOK
    <3>4. CASE found = expected[t]
      BY <3>1, <3>2, <3>3, <3>4 DEF Exchange
    <3>5. CASE found # expected[t]
      BY <3>1, <3>2, <3>3, <3>5 DEF Exchange
    <3>6. QED BY <3>4, <3>5
  <2>4. falseVal' \in BOOLEAN
    <3>1. falseVal' = falseVal \/ falseVal' = (conn[t] \in disposed)
      BY Zenon DEF Exchange
    <3>2. (conn[t] \in disposed) \in BOOLEAN
      OBVIOUS
    <3>3. QED BY <3>1, <3>2, Zenon DEF ConnTypeOK
  <2>5. /\ conn' = [conn EXCEPT ![t] = None] /\ expected' = [expected EXCEPT ![t] = FALSE]
        /\ UNCHANGED <<remoteConn, conns, number, peer, rxVars, dataLeft, stopVars>>
    BY DEF Exchange
  <2>6. ConnTypeOK' /\ Numbered'
    <3>1. cut' \subseteq disposed'
      <4>1. cut \subseteq disposed
        BY DEF ConnTypeOK
      <4>2. cut' = cut \/ (cut' = cut \cup {conn[t]} /\ disposed' = disposed \cup {conn[t]})
        BY Zenon DEF Exchange
      <4>3. QED BY <2>3, <4>1, <4>2
    <3>2. QED BY <2>3, <2>4, <2>5, <3>1 DEF ConnTypeOK, Numbered
  <2>7. DataTypeOK'
    BY <2>3, <2>5 DEF DataTypeOK, rxVars, stopVars
  <2>8. ThreadTypeOK'
    BY <2>2, <2>5 DEF ThreadTypeOK, Places, ConnTypeOK
  <2>9. HasConnection'
    BY <2>2, <2>5 DEF HasConnection, ThreadTypeOK
  <2>10. OldOneIsGone'
    BY <2>1, <2>2, <2>3, <2>5 DEF OldOneIsGone, ThreadTypeOK
  <2>11. QED BY <2>6, <2>7, <2>8, <2>9, <2>10
<1>3. QED BY <1>1, <1>2

LEMMA ReachedType ==
  ASSUME TInv, NEW t \in Threads, at[t] = "use", Reached(t) # None
  PROVE  Reached(t) \in Conns
<1> USE TCPTransportAssumption, ThreadFacts DEF TInv, TCPTypeOK
<1>1. conn[t] # None /\ conn[t] \in 0 .. conns /\ conns \in 0 .. MaxConns
  BY DEF HasConnection, ThreadTypeOK, ConnTypeOK
<1>2. number[conn[t]] \in Conns
  BY <1>1 DEF Numbered, ConnTypeOK, Conns
<1>3. Reached(t) \in 0 .. conns
  BY <1>2 DEF Reached, ConnTypeOK
<1>4. QED BY <1>1, <1>3 DEF Conns

\* The other steps of the worker.
LEMMA WorkerInv ==
  ASSUME TInv,
         \/ Loop \/ StopReceiving \/ ReceiveTimeout \/ ReceiveEnd \/ ReceiveFails
         \/ \E n \in 1 .. Parts : Receive(n)
  PROVE  TInv'
<1> USE ThreadFacts, TCPTransportAssumption DEF TInv, TCPTypeOK, Go
<1>1. /\ "worker" \in Threads /\ expected \in [Threads -> BOOLEAN] /\ at \in [Threads -> Places]
      /\ at["worker"] \in {"loop", "use"} => lock # "worker"
  BY DEF ThreadTypeOK
<1>2. CASE Loop
  <2>1. PICK place \in {"done", "get"} : at' = [at EXCEPT !["worker"] = place]
    BY <1>2 DEF Loop
  <2>2. DataTypeOK'
    BY <1>2 DEF Loop, DataTypeOK, stopVars
  <2>3. at["worker"] = "loop" /\ UNCHANGED <<lock, connVars, conn, expected, cut>>
    BY <1>2 DEF Loop
  <2>4. QED BY <1>1, <2>1, <2>2, <2>3, QuietStep DEF Places
<1>3. CASE StopReceiving
  <2>1. DataTypeOK'
    BY <1>3 DEF StopReceiving, DataTypeOK, rxVars, stopVars
  <2>2. /\ at["worker"] = "use" /\ UNCHANGED <<lock, connVars, conn, expected, cut>>
        /\ at' = [at EXCEPT !["worker"] = "done"]
    BY <1>3 DEF StopReceiving
  <2>3. QED BY <1>1, <2>1, <2>2, QuietStep DEF Places
<1>4. CASE ReceiveTimeout
  <2>1. DataTypeOK'
    BY <1>4 DEF ReceiveTimeout, DataTypeOK, stopVars
  <2>2. UNCHANGED <<lock, connVars, threadVars, cut>>
    BY <1>4 DEF ReceiveTimeout
  <2>3. QED BY <2>1, <2>2
    DEF connVars, threadVars, ConnTypeOK, ThreadTypeOK, HasConnection, OldOneIsGone, Renewing, Numbered
<1>5. CASE ReceiveEnd \/ ReceiveFails
  <2>1. /\ at["worker"] = "use" /\ at' = [at EXCEPT !["worker"] = "dispose"]
        /\ UNCHANGED <<lock, connVars, conn, expected, cut>>
    BY <1>5 DEF ReceiveEnd, ReceiveFails, Receiving
  <2>2. DataTypeOK'
    BY <1>5 DEF ReceiveEnd, ReceiveFails, DataTypeOK, rxVars, stopVars
  <2>3. QED BY <1>1, <2>1, <2>2, QuietStep DEF Places
<1>6. ASSUME NEW n \in 1 .. Parts, Receive(n) PROVE TInv'
  <2> DEFINE c == Reached("worker")
             beginning == Beginning(c, taken[c], n)
  <2>1. at["worker"] = "use" /\ UNCHANGED <<lock, connVars, conn, expected, cut>>
    BY <1>6 DEF Receive, Receiving
  <2>2. c \in Conns
    BY <1>1, <1>6, <2>1, ReachedType DEF Receive
  <2>3. /\ n \in 1 .. Parts - Len(rxBuff) /\ taken[c] + n <= arrived[c]
        /\ rxBuff' = << >> \/ rxBuff' = rxBuff \o beginning
        /\ taken' = [taken EXCEPT ![c] = @ + n] /\ UNCHANGED <<peer, arrived, errno, dataLeft, stopVars>>
    BY <1>6 DEF Receive
  <2> HIDE DEF c
  <2>4. taken[c] \in Nat /\ arrived[c] \in 0 .. MaxParts /\ rxBuff \in Seq(Conns \X (0 .. MaxParts))
    BY <2>2 DEF DataTypeOK
  <2>5. beginning \in Seq(Conns \X (0 .. MaxParts)) /\ Len(beginning) = n
    <3>1. taken[c] + n <= MaxParts /\ n \in Nat \ {0}
      BY <2>3, <2>4
    <3>2. QED BY <2>2, <2>4, <3>1, BeginningType
  <2> HIDE DEF beginning
  <2>6. /\ rxBuff \o beginning \in Seq(Conns \X (0 .. MaxParts))
        /\ Len(rxBuff \o beginning) = Len(rxBuff) + n /\ Len(rxBuff) \in Nat
    BY ONLY <2>4, <2>5, ConcatProperties, LenProperties
  <2>7. rxBuff' \in Seq(Conns \X (0 .. MaxParts)) /\ Len(rxBuff') <= Parts
    <3>1. Len(<< >>) = 0 /\ << >> \in Seq(Conns \X (0 .. MaxParts))
      BY ONLY EmptySeq
    <3>2. Len(rxBuff) + n <= Parts
      BY <2>3, <2>6
    <3>3. CASE rxBuff' = << >>
      BY <3>1, <3>3
    <3>4. CASE rxBuff' = rxBuff \o beginning
      BY <2>6, <3>2, <3>4
    <3>5. QED BY <2>3, <3>3, <3>4
  <2>8. taken' \in [Conns -> 0 .. MaxParts]
    BY <2>3, <2>2, <2>4 DEF DataTypeOK
  <2>9. DataTypeOK'
    BY <2>3, <2>7, <2>8 DEF DataTypeOK, stopVars
  <2>10. PICK place \in {"use", "dispose"} : at' = [at EXCEPT !["worker"] = place]
    BY <1>1, <1>6, <2>1 DEF Receive
  <2>11. QED BY <1>1, <2>1, <2>9, <2>10, QuietStep DEF Places
<1>7. QED BY <1>2, <1>3, <1>4, <1>5, <1>6

\* The steps of the timer, the main thread and the firmware.
LEMMA OtherInv ==
  ASSUME TInv,
         \/ SendFails \/ \E n \in 1 .. Parts : SendParts(n)
         \/ OnShutdown \/ DisposeAtShutdown \/ Firmware
  PROVE  TInv'
<1> USE ThreadFacts, TCPTransportAssumption DEF TInv, TCPTypeOK, Go
<1>1. /\ "timer" \in Threads /\ "main" \in Threads /\ expected \in [Threads -> BOOLEAN]
      /\ at \in [Threads -> Places]
      /\ \A t \in Threads : at[t] \in {"idle", "use", "get"} => lock # t
  BY DEF ThreadTypeOK
<1>2. CASE SendFails
  <2>1. DataTypeOK'
    BY <1>2 DEF SendFails, DataTypeOK, rxVars, stopVars
  <2>2. /\ at["timer"] = "use" /\ at' = [at EXCEPT !["timer"] = "dispose"]
        /\ UNCHANGED <<lock, connVars, conn, expected, cut>>
    BY <1>2 DEF SendFails
  <2>3. QED BY <1>1, <2>1, <2>2, QuietStep DEF Places
<1>3. ASSUME NEW n \in 1 .. Parts, SendParts(n) PROVE TInv'
  <2>1. at["timer"] = "use" /\ UNCHANGED <<lock, connVars, conn, expected, cut>>
    BY <1>3 DEF SendParts
  <2>2. PICK place \in {"use", "idle"} : at' = [at EXCEPT !["timer"] = place]
    BY <1>1, <1>3, <2>1 DEF SendParts
  <2> DEFINE c == Reached("timer")
  <2>3. c \in Conns
    BY <1>1, <1>3, <2>1, ReachedType DEF SendParts
  <2>4. /\ n \in 1 .. dataLeft /\ dataLeft' = dataLeft - n /\ UNCHANGED <<arrived, rxVars, stopVars>>
        /\ peer' = [peer EXCEPT ![c] = IF @ = "closed" THEN "reset" ELSE @]
    BY <1>3 DEF SendParts
  <2> HIDE DEF c
  <2>5. DataTypeOK'
    BY <2>3, <2>4 DEF DataTypeOK, rxVars, stopVars
  <2>6. QED BY <1>1, <2>1, <2>2, <2>5, QuietStep DEF Places
<1>4. CASE OnShutdown
  <2>1. DataTypeOK'
    BY <1>4 DEF OnShutdown, DataTypeOK, rxVars
  <2>2. /\ at["main"] = "idle" /\ at' = [at EXCEPT !["main"] = "get"]
        /\ UNCHANGED <<lock, connVars, conn, expected, cut>>
    BY <1>4 DEF OnShutdown
  <2>3. QED BY <1>1, <2>1, <2>2, QuietStep DEF Places
<1>5. CASE DisposeAtShutdown
  <2> USE <1>5 DEF DisposeAtShutdown
  <2>1. ConnTypeOK' /\ Numbered' /\ DataTypeOK'
    BY DEF ConnTypeOK, Numbered, DataTypeOK, connVars, rxVars, stopVars
  <2>2. ThreadTypeOK'
    BY DEF ThreadTypeOK, ConnTypeOK, Places, connVars
  <2>3. HasConnection'
    BY DEF HasConnection, ThreadTypeOK
  <2>4. OldOneIsGone'
    BY DEF OldOneIsGone, ThreadTypeOK, Renewing, connVars
  <2>5. QED BY <2>1, <2>2, <2>3, <2>4
<1>6. CASE Firmware
  <2>1. DataTypeOK'
    <3>1. ASSUME NEW c \in Conns, FirmwareSends(c) PROVE DataTypeOK'
      BY <3>1 DEF FirmwareSends, DataTypeOK, rxVars, stopVars
    <3>2. ASSUME NEW c \in Conns, NEW how \in {"closed", "reset"}, FirmwareLeaves(c, how) PROVE DataTypeOK'
      BY <3>2 DEF FirmwareLeaves, DataTypeOK, rxVars, stopVars
    <3>3. QED BY <1>6, <3>1, <3>2 DEF Firmware
  <2>2. UNCHANGED <<lock, connVars, threadVars, cut>>
    BY <1>6 DEF Firmware, FirmwareSends, FirmwareLeaves
  <2>3. QED BY <2>1, <2>2
    DEF connVars, threadVars, ConnTypeOK, ThreadTypeOK, HasConnection, OldOneIsGone, Renewing, Numbered
<1>7. QED BY <1>2, <1>3, <1>4, <1>5, <1>6

LEMMA NextInv == TInv /\ [TCPNext]_tcpVars => TInv'
<1> SUFFICES ASSUME TInv, [TCPNext]_tcpVars PROVE TInv'
  OBVIOUS
<1>1. CASE UNCHANGED tcpVars
  BY <1>1 DEF TInv, TCPTypeOK, ConnTypeOK, ThreadTypeOK, DataTypeOK, HasConnection, OldOneIsGone, Renewing,
     Numbered, tcpVars, connVars, threadVars, rxVars, stopVars
<1>2. CASE Worker
  BY <1>2, ThreadFacts, GetInv, DisposeInv, WorkerInv DEF Worker
<1>3. CASE GetConnection("timer") \/ SendPackage
  BY <1>3, ThreadFacts, GetInv, DisposeInv, OtherInv DEF SendPackage
<1>4. CASE OnShutdown \/ Main \/ Firmware
  BY <1>4, ThreadFacts, DisposeInv, OtherInv DEF Main
<1>5. QED BY <1>1, <1>2, <1>3, <1>4 DEF TCPNext

LEMMA TInvHolds == TCPSpec => []TInv
BY InitInv, NextInv, PTL DEF TCPSpec

\* The types, the bounds and who may hold the lock.
THEOREM TCPTypeCorrect == TCPSpec => []TCPTypeOK
BY TInvHolds, PTL DEF TInv
-----------------------------------------------------------------------------
(* The sockets.                                                            *)

LEMMA OnlyThePresentInit == TCPInit => OnlyThePresent
BY TCPTransportAssumption DEF TCPInit, OnlyThePresent, Conns, None

LEMMA OnlyThePresentNext == TInv /\ OnlyThePresent /\ [TCPNext]_tcpVars => OnlyThePresent'
<1> SUFFICES ASSUME TInv, OnlyThePresent, [TCPNext]_tcpVars PROVE OnlyThePresent'
  OBVIOUS
<1> USE ThreadFacts, TCPTransportAssumption DEF TInv, TCPTypeOK
<1>1. CASE UNCHANGED connVars
  BY <1>1 DEF connVars, OnlyThePresent
<1>2. ASSUME NEW t \in Users, Create(t) PROVE OnlyThePresent'
  <2>1. conns' = conns + 1 /\ remoteConn' = conns' /\ conns' \in Conns /\ disposed' = disposed
    BY <1>2 DEF Create, ConnTypeOK, Conns
  <2>2. PICK f \in Conns : /\ number' = [number EXCEPT ![conns'] = f]
                           /\ socket' = [socket EXCEPT ![f] = conns']
    BY <1>2, <2>1 DEF Create, FreeNumbers
  <2>3. remoteConn = None \/ remoteConn \in disposed
    BY <1>2 DEF Create, OldOneIsGone
  <2>4. conns' \notin disposed /\ conns \in Nat
    BY <2>1 DEF ConnTypeOK
  <2>5. \A c \in 1 .. conns' : c = remoteConn' \/ c \in disposed'
    BY <2>1, <2>3, <2>4 DEF OnlyThePresent
  <2>6. \A g \in Conns : socket'[g] # None => g = f /\ socket'[g] = conns'
    BY <2>1, <2>2, <2>3 DEF OnlyThePresent, ConnTypeOK
  <2>7. number'[conns'] = f
    BY <2>1, <2>2 DEF ConnTypeOK
  <2>8. QED BY <2>1, <2>4, <2>5, <2>6, <2>7 DEF OnlyThePresent
<1>3. ASSUME NEW t \in Users, CreateFails(t) PROVE OnlyThePresent'
  <2>1. remoteConn' = None /\ UNCHANGED <<conns, number, socket, disposed>>
    BY <1>3 DEF CreateFails
  <2>2. remoteConn = None \/ remoteConn \in disposed
    BY <1>3 DEF CreateFails, OldOneIsGone
  <2>3. QED BY <2>1, <2>2 DEF OnlyThePresent, Conns
<1>4. ASSUME NEW t \in Threads, Exchange(t) PROVE OnlyThePresent'
  <2>1. conn[t] \in 1 .. conns /\ number[conn[t]] \in Conns
    BY <1>4 DEF Exchange, HasConnection, Numbered, ThreadTypeOK, ConnTypeOK, Conns
  <2>2. UNCHANGED <<remoteConn, conns, number>>
    BY <1>4 DEF Exchange
  <2>3. \/ UNCHANGED <<disposed, socket>>
        \/ /\ disposed' = disposed \cup {conn[t]}
           /\ socket' = [socket EXCEPT ![number[conn[t]]] = None]
    BY <1>4 DEF Exchange
  <2>4. \A f \in Conns : socket'[f] # None => socket'[f] = socket[f] /\ remoteConn \notin disposed'
    BY <2>1, <2>3 DEF OnlyThePresent, ConnTypeOK
  <2>5. \A c \in 1 .. conns : c = remoteConn \/ c \in disposed'
    BY <2>3 DEF OnlyThePresent
  <2>6. QED BY <2>2, <2>4, <2>5 DEF OnlyThePresent
<1>5. CASE Worker
  BY <1>1, <1>2, <1>3, <1>4, <1>5
    DEF Worker, Loop, GetConnection, ReadFalseVal, StopReceiving, Receive, ReceiveTimeout, ReceiveEnd,
        ReceiveFails
<1>6. CASE GetConnection("timer") \/ SendPackage
  BY <1>1, <1>2, <1>3, <1>4, <1>6 DEF SendPackage, GetConnection, ReadFalseVal, SendParts, SendFails
<1>7. CASE OnShutdown \/ Main \/ Firmware
  BY <1>1, <1>4, <1>7
    DEF Main, OnShutdown, DisposeAtShutdown, ReadFalseVal, Firmware, FirmwareSends, FirmwareLeaves
<1>8. QED BY <1>1, <1>5, <1>6, <1>7 DEF TCPNext, tcpVars

\* A socket that is open is the one of the present connection, which is in use: none
\* is forgotten and there is never a second one (TCPTransport.cpp:88-160), whatever
\* numbers the kernel gives out again, whichever Dispose does nothing because of
\* falseVal and whichever closes the number of another connection.
THEOREM SocketsAreClosed == TCPSpec => []NoSocketLeaks
<1>1. OnlyThePresent => NoSocketLeaks
  BY DEF OnlyThePresent, NoSocketLeaks, IsOpen, None
<1>2. QED BY <1>1, InitInv, NextInv, OnlyThePresentInit, OnlyThePresentNext, PTL DEF TCPSpec
-----------------------------------------------------------------------------
(***************************************************************************)
(* The packages.  As long as nothing but the worker ends its connections,  *)
(* it reads each from one package to the next.  A part received is the     *)
(* latest of its connection (IsLatest).  The worker reads from another     *)
(* connection in the middle of a package only if the one it read from was  *)
(* cut short and the other has its number (ReadsByNumber).  A connection   *)
(* it is out of step with has such a number, or gives it nothing more      *)
(* (StaysInStep).                                                          *)
(***************************************************************************)

\* k parts are a number of whole packages.
Packages(k) == \E q \in Nat : k = Parts * q

\* The worker will receive nothing more from connection c.
Dead(c) ==
  \/ ~ IsOpen(c)
  \/ peer[c] = "reset"
  \/ peer[c] = "closed" /\ taken[c] = arrived[c]

LastPart == rxBuff[Len(rxBuff)]

Aligned ==
  rxBuff # << >> =>
    \/ CutShort(LastPart[1])
    \/ Packages(rxBuff[1][2]) /\ rxBuff = Beginning(rxBuff[1][1], rxBuff[1][2], Len(rxBuff))

IsLatest ==
  rxBuff # << >> => LastPart[1] \in 1 .. conns /\ LastPart[2] = taken[LastPart[1]] - 1

ReadsByNumber ==
  at["worker"] = "use" /\ rxBuff # << >> =>
    /\ number[LastPart[1]] = number[conn["worker"]]
    /\ LastPart[1] \in disposed => LastPart[1] \in cut

StaysInStep ==
  \A c \in 1 .. conns :
    \/ Packages(taken[c])
    \/ Dead(c)
    \/ CutShort(c)
    \/ at["worker"] = "use" /\ rxBuff # << >> /\ LastPart[1] = c
    \/ at["worker"] = "done"

\* A connection starts, and the worker asks for one, with nothing received.
NothingKept ==
  /\ \A c \in Conns : c > conns => taken[c] = 0
  /\ at["worker"] \in {"get", "create"} \/ lock = "worker" => rxBuff = << >>

WholeInv == Aligned /\ IsLatest /\ ReadsByNumber /\ StaysInStep /\ NothingKept

LEMMA PackagesFacts ==
  /\ Packages(0)
  /\ \A k \in Nat : Packages(k) => k % Parts = 0 /\ Packages(k + Parts)
<1> USE TCPTransportAssumption
<1>1. Packages(0)
  <2>1. 0 = Parts * 0
    OBVIOUS
  <2>2. QED BY <2>1 DEF Packages
<1>2. ASSUME NEW k \in Nat, Packages(k) PROVE k % Parts = 0 /\ Packages(k + Parts)
  <2>1. PICK q \in Nat : k = Parts * q
    BY <1>2 DEF Packages
  <2>2. k % Parts = 0
    BY <2>1
  <2>3. k + Parts = Parts * (q + 1)
    BY <2>1
  <2>4. Packages(k + Parts)
    <3>1. q + 1 \in Nat
      OBVIOUS
    <3>2. QED BY <2>3, <3>1, Zenon DEF Packages
  <2>5. QED BY <2>2, <2>4
<1>3. QED BY <1>1, <1>2

LEMMA Joined ==
  ASSUME NEW S, NEW s \in Seq(S), NEW t \in Seq(S), NEW r \in Seq(S), Len(r) = Len(s) + Len(t),
         \A i \in 1 .. Len(s) : r[i] = s[i], \A i \in 1 .. Len(t) : r[Len(s) + i] = t[i]
  PROVE  s \o t = r
<1>1. Len(s \o t) = Len(r) /\ s \o t \in Seq(S)
  OBVIOUS
<1>2. ASSUME NEW i \in 1 .. Len(r) PROVE (s \o t)[i] = r[i]
  <2>1. CASE i <= Len(s)
    BY <2>1
  <2>2. CASE i > Len(s)
    <3>1. (s \o t)[i] = t[i - Len(s)]
      BY <2>2
    <3>2. i - Len(s) \in 1 .. Len(t) /\ Len(s) + (i - Len(s)) = i
      BY <2>2
    <3>3. QED BY <3>1, <3>2
  <2>3. QED BY <2>1, <2>2
<1>3. QED BY <1>1, <1>2

LEMMA BeginningJoins ==
  ASSUME NEW c \in Conns, NEW k \in Nat, NEW m \in Nat, NEW n \in Nat
  PROVE  /\ Beginning(c, k, m) \o Beginning(c, k + m, n) = Beginning(c, k, m + n)
         /\ Len(Beginning(c, k, m)) = m
         /\ m > 0 => Beginning(c, k, m)[1] = <<c, k>>
<1> DEFINE s == Beginning(c, k, m)
           t == Beginning(c, k + m, n)
           r == Beginning(c, k, m + n)
<1>1. /\ s \in Seq(Conns \X Nat) /\ Len(s) = m
      /\ t \in Seq(Conns \X Nat) /\ Len(t) = n
      /\ r \in Seq(Conns \X Nat) /\ Len(r) = m + n
  BY DEF Beginning
<1>2. \A i \in 1 .. m : r[i] = s[i]
  BY DEF Beginning
<1>3. \A i \in 1 .. n : r[m + i] = t[i]
  BY DEF Beginning
<1>4. m > 0 => s[1] = <<c, k>>
  BY DEF Beginning
<1> HIDE DEF s, t, r
<1>5. s \o t = r
  <2>1. Len(r) = Len(s) + Len(t)
    BY <1>1
  <2>2. (\A i \in 1 .. Len(s) : r[i] = s[i]) /\ \A i \in 1 .. Len(t) : r[Len(s) + i] = t[i]
    BY <1>1, <1>2, <1>3
  <2>3. s \in Seq(Conns \X Nat) /\ t \in Seq(Conns \X Nat) /\ r \in Seq(Conns \X Nat)
    BY <1>1
  <2>4. QED BY ONLY <2>1, <2>2, <2>3, Joined
<1>6. QED BY <1>1, <1>4, <1>5 DEF s, t, r

LEMMA EmptyBeginning ==
  ASSUME NEW c, NEW k
  PROVE  Beginning(c, k, 0) = << >>
BY DEF Beginning

\* What a thread that uses its connection reaches is nothing or the present one.
LEMMA OwnSocket ==
  ASSUME TInv, OnlyThePresent, NEW t \in Threads, at[t] = "use"
  PROVE  /\ conn[t] \in 1 .. conns /\ number[conn[t]] \in Conns
         /\ Reached(t) # None =>
              /\ Reached(t) = remoteConn /\ remoteConn \notin disposed
              /\ remoteConn = conns /\ remoteConn \in 1 .. conns /\ remoteConn \in Conns
              /\ number[remoteConn] = number[conn[t]] /\ IsOpen(remoteConn)
<1>1. conn[t] \in 1 .. conns /\ number[conn[t]] \in Conns
  <2>1. conn[t] # None /\ conn[t] \in 0 .. conns /\ conns \in 0 .. MaxConns
    BY DEF TInv, TCPTypeOK, HasConnection, ThreadTypeOK, ConnTypeOK
  <2>2. conn[t] \in 1 .. conns /\ conn[t] \in Conns
    BY <2>1, TCPTransportAssumption DEF Conns, None
  <2>3. number[conn[t]] # None /\ number[conn[t]] \in 0 .. MaxConns
    BY <2>2 DEF TInv, TCPTypeOK, Numbered, ConnTypeOK
  <2>4. QED BY <2>2, <2>3, TCPTransportAssumption DEF Conns, None
<1>2. remoteConn # None => remoteConn \in 1 .. conns /\ remoteConn \in Conns
  BY TCPTransportAssumption DEF TInv, TCPTypeOK, ConnTypeOK, Conns, None
<1>3. QED BY <1>1, <1>2 DEF Reached, OnlyThePresent, IsOpen

LEMMA WholeInit == TCPInit => WholeInv
<1> SUFFICES ASSUME TCPInit PROVE WholeInv
  OBVIOUS
<1>1. rxBuff = << >> /\ at["worker"] = "loop" /\ conns = 0 /\ \A c \in Conns : taken[c] = 0
  BY ThreadFacts DEF TCPInit
<1>2. 1 .. 0 = {}
  OBVIOUS
<1>3. QED BY <1>1, <1>2
  DEF WholeInv, Aligned, IsLatest, ReadsByNumber, StaysInStep, NothingKept

LEMMA CutShortForGood ==
  ASSUME UNCHANGED number, cut \subseteq cut', NEW c, CutShort(c)
  PROVE  CutShort(c)'
BY DEF CutShort

LEMMA ExchangeKillsOnly ==
  ASSUME TInv, NEW t \in Threads, Exchange(t), NEW c \in 1 .. conns, Dead(c)
  PROVE  Dead(c)'
<1> USE TCPTransportAssumption DEF TInv, TCPTypeOK, ConnTypeOK
<1>1. UNCHANGED <<peer, taken>>
  BY DEF Exchange, rxVars
<1>2. c \in Conns /\ c # None
  BY DEF Conns, None
<1>3. arrived'[c] = arrived[c] \/ arrived'[c] = taken[c]
  <2>1. \/ arrived' = arrived
        \/ arrived' = [a \in Conns |-> IF a = socket[number[conn[t]]] THEN taken[a] ELSE arrived[a]]
    BY DEF Exchange
  <2>2. QED BY <1>2, <2>1
<1>4. \A f \in Conns : socket'[f] = socket[f] \/ socket'[f] = None
  <2>1. socket' = socket \/ socket' = [socket EXCEPT ![number[conn[t]]] = None]
    BY DEF Exchange
  <2>2. QED BY <2>1
<1>5. IsOpen(c)' => IsOpen(c)
  BY <1>2, <1>4 DEF IsOpen
<1>6. QED BY <1>1, <1>3, <1>5 DEF Dead

\* A step that is not the worker's and makes no connection.
LEMMA QuietWhole ==
  ASSUME WholeInv,
         UNCHANGED <<conns, number, at["worker"], conn["worker"], taken, rxBuff>>,
         lock' = "worker" => lock = "worker", cut \subseteq cut',
         at["worker"] = "use" /\ rxBuff # << >> =>
           \A c \in 1 .. conns : c \in disposed' => c \in disposed \/ c \in cut',
         \A c \in 1 .. conns : Dead(c) => Dead(c)'
  PROVE  WholeInv'
<1> USE DEF WholeInv, LastPart
<1>1. Aligned'
  BY CutShortForGood DEF Aligned, Beginning
<1>2. IsLatest' /\ NothingKept'
  BY DEF IsLatest, NothingKept
<1>3. ReadsByNumber'
  BY DEF IsLatest, ReadsByNumber
<1>4. StaysInStep'
  BY CutShortForGood DEF StaysInStep
<1>5. QED BY <1>1, <1>2, <1>3, <1>4

\* The worker's steps that neither make a connection nor receive.
LEMMA WorkerWhole ==
  ASSUME TInv, OnlyThePresent, WholeInv,
         \/ Loop \/ GetConnection("worker") \/ CreateFails("worker") \/ ReadFalseVal("worker")
         \/ Exchange("worker") \/ StopReceiving \/ ReceiveTimeout \/ ReceiveEnd \/ ReceiveFails
  PROVE  WholeInv'
<1> USE ThreadFacts, TCPTransportAssumption DEF WholeInv
<1>1. /\ at \in [Threads -> Places] /\ "worker" \in Threads
      /\ at["worker"] = "use" => lock # "worker"
  BY DEF TInv, TCPTypeOK, ThreadTypeOK
<1>2. ASSUME UNCHANGED <<conns, number, taken, cut>>, rxBuff' = rxBuff \/ rxBuff' = << >>
      PROVE  Aligned' /\ IsLatest'
  BY <1>2, CutShortForGood DEF Aligned, IsLatest, LastPart, Beginning
<1>3. ASSUME UNCHANGED <<conns, number, taken, cut>>, \A c \in 1 .. conns : Dead(c) => Dead(c)',
             at["worker"] # "done",
             at["worker"] = "use" /\ rxBuff # << >> =>
               at'["worker"] = "done" \/ \A c \in 1 .. conns : LastPart[1] = c => Dead(c)'
      PROVE  StaysInStep'
  BY <1>3, CutShortForGood DEF StaysInStep, LastPart
<1>4. ASSUME at'["worker"] # "use" PROVE ReadsByNumber'
  BY <1>4 DEF ReadsByNumber
<1>5. CASE Loop
  <2>1. at["worker"] = "loop" /\ at'["worker"] \in {"done", "get"} /\ rxBuff' = << >>
        /\ UNCHANGED <<connVars, peer, arrived, taken, cut>>
    BY <1>1, <1>5 DEF Loop, Go
  <2>2. StaysInStep' /\ NothingKept'
    BY <1>3, <2>1 DEF Dead, IsOpen, NothingKept, connVars
  <2>3. QED BY <1>2, <1>4, <2>1, <2>2 DEF connVars
<1>6. CASE GetConnection("worker")
  <2>1. /\ at["worker"] = "get" /\ at'["worker"] \in {"use", "create", "dispose"}
        /\ UNCHANGED <<connVars, peer, arrived, taken, rxBuff, cut>>
    BY <1>1, <1>6 DEF GetConnection, Go, TInv, TCPTypeOK, ThreadTypeOK, rxVars
  <2>2. rxBuff = << >>
    BY <2>1 DEF NothingKept
  <2>3. StaysInStep' /\ NothingKept'
    BY <1>3, <2>1, <2>2 DEF Dead, IsOpen, NothingKept, connVars
  <2>4. ReadsByNumber'
    BY <2>1, <2>2 DEF ReadsByNumber
  <2>5. QED BY <1>2, <2>1, <2>3, <2>4 DEF connVars
<1>7. CASE CreateFails("worker")
  <2>1. at["worker"] = "create" /\ at'["worker"] = "loop" /\ lock' = Nobody
        /\ UNCHANGED <<conns, number, socket, peer, arrived, taken, rxBuff, cut>>
    BY <1>1, <1>7 DEF CreateFails, Go, rxVars
  <2>2. StaysInStep' /\ NothingKept'
    BY <1>3, <2>1 DEF Dead, IsOpen, NothingKept
  <2>3. QED BY <1>2, <1>4, <2>1, <2>2
<1>8. CASE ReadFalseVal("worker")
  <2>1. at["worker"] = "dispose" /\ at'["worker"] = "exchange"
        /\ UNCHANGED <<lock, connVars, peer, arrived, taken, rxBuff, cut>>
    BY <1>1, <1>8 DEF ReadFalseVal, Go, rxVars
  <2>2. StaysInStep' /\ NothingKept'
    BY <1>3, <2>1 DEF Dead, IsOpen, NothingKept, connVars
  <2>3. QED BY <1>2, <1>4, <2>1, <2>2 DEF connVars
<1>9. CASE Exchange("worker")
  <2>1. /\ at["worker"] = "exchange" /\ at'["worker"] \in {"create", "loop"}
        /\ at'["worker"] = "create" \/ lock' = "worker" => lock = "worker"
        /\ UNCHANGED <<conns, number, peer, taken, rxBuff, cut>>
    BY <1>1, <1>9 DEF Exchange, Go, rxVars
  <2>2. \A c \in 1 .. conns : Dead(c) => Dead(c)'
    BY <1>9, <2>1, ExchangeKillsOnly
  <2>3. StaysInStep' /\ NothingKept'
    BY <1>3, <2>1, <2>2 DEF NothingKept
  <2>4. QED BY <1>2, <1>4, <2>1, <2>3
<1>10. CASE StopReceiving
  <2>1. at["worker"] = "use" /\ at'["worker"] = "done"
        /\ UNCHANGED <<lock, connVars, peer, arrived, taken, rxBuff, cut>>
    BY <1>1, <1>10 DEF StopReceiving, Go, rxVars
  <2>2. StaysInStep' /\ NothingKept'
    BY <1>1, <1>3, <2>1 DEF Dead, IsOpen, NothingKept, connVars
  <2>3. QED BY <1>2, <1>4, <2>1, <2>2 DEF connVars
<1>11. CASE ReceiveTimeout
  <2>1. UNCHANGED <<lock, connVars, threadVars, peer, arrived, taken, rxBuff, cut>>
    BY <1>11 DEF ReceiveTimeout
  <2>2. QED BY <2>1, QuietWhole DEF connVars, threadVars, Dead, IsOpen
<1>12. CASE ReceiveEnd \/ ReceiveFails
  <2>1. at["worker"] = "use" /\ at'["worker"] = "dispose"
        /\ UNCHANGED <<lock, connVars, conn, peer, arrived, taken, rxBuff, cut>>
    BY <1>1, <1>12 DEF ReceiveEnd, ReceiveFails, Receiving, Go, rxVars
  <2>2. ASSUME rxBuff # << >> PROVE Dead(LastPart[1])
    <3>1. PICK c : c = LastPart[1]
      OBVIOUS
    <3>2. c \in 1 .. conns /\ number[c] = number[conn["worker"]] /\ c # None
      BY <2>1, <2>2, <3>1 DEF IsLatest, ReadsByNumber
    <3>3. CASE Reached("worker") = c
      BY <1>12, <3>1, <3>2, <3>3 DEF ReceiveEnd, ReceiveFails, Dead
    <3>4. CASE Reached("worker") # c
      <4>1. ASSUME NEW f \in Conns, socket[f] = c PROVE FALSE
        <5>1. socket[f] = remoteConn /\ number[remoteConn] = f
          BY <3>2, <4>1 DEF OnlyThePresent
        <5>2. Reached("worker") = socket[f]
          BY <3>2, <4>1, <5>1 DEF Reached
        <5>3. QED BY <3>4, <4>1, <5>2
      <4>2. QED BY <3>1, <4>1 DEF Dead, IsOpen
    <3>5. QED BY <3>3, <3>4
  <2>3. \A c \in 1 .. conns : Dead(c) => Dead(c)'
    BY <2>1 DEF Dead, IsOpen, connVars
  <2>4. StaysInStep' /\ NothingKept'
    BY <1>1, <1>3, <2>1, <2>2, <2>3 DEF NothingKept, connVars
  <2>5. QED BY <1>2, <1>4, <2>1, <2>4 DEF connVars
<1>13. QED BY <1>5, <1>6, <1>7, <1>8, <1>9, <1>10, <1>11, <1>12

\* What rxBuff holds after n more parts of connection c, and its last part.
LEMMA Appended ==
  ASSUME NEW buff \in Seq(Conns \X Nat), NEW c \in Conns, NEW k \in Nat, NEW n \in Nat \ {0}
  PROVE  /\ buff \o Beginning(c, k, n) # << >>
         /\ Len(buff \o Beginning(c, k, n)) = Len(buff) + n
         /\ (buff \o Beginning(c, k, n))[Len(buff) + n] = <<c, k + n - 1>>
<1> DEFINE s == Beginning(c, k, n)
<1>1. s \in Seq(Conns \X Nat) /\ Len(s) = n /\ s[n] = <<c, k + n - 1>>
  BY DEF Beginning
<1> HIDE DEF s
<1>2. /\ buff \o s \in Seq(Conns \X Nat) /\ Len(buff \o s) = Len(buff) + n
      /\ (buff \o s)[Len(buff) + n] = s[n] /\ Len(buff) \in Nat
  <2>1. Len(buff) \in Nat /\ Len(buff) + n \in 1 .. Len(buff) + Len(s)
    BY <1>1
  <2>2. Len(buff) + n > Len(buff) /\ Len(buff) + n - Len(buff) = n
    BY <2>1
  <2>3. buff \o s \in Seq(Conns \X Nat) /\ Len(buff \o s) = Len(buff) + Len(s)
    BY ONLY <1>1, buff \in Seq(Conns \X Nat), ConcatProperties
  <2>4. (buff \o s)[Len(buff) + n] = s[n]
    BY ONLY <1>1, <2>1, <2>2, buff \in Seq(Conns \X Nat), ConcatProperties
  <2>5. QED BY <1>1, <2>1, <2>3, <2>4
<1>3. buff \o s # << >>
  BY <1>2
<1>4. QED BY <1>1, <1>2, <1>3 DEF s

\* recv() continues what it began, unless the connection it reads is another one.
LEMMA ReceiveContinues ==
  ASSUME TInv, OnlyThePresent, WholeInv, NEW n \in 1 .. Parts, Receive(n), NEW c, c = Reached("worker")
  PROVE  \/ CutShort(c)
         \/ \E k \in Nat : /\ Packages(k) /\ k + Len(rxBuff) = taken[c]
                           /\ rxBuff \o Beginning(c, taken[c], n) = Beginning(c, k, Len(rxBuff) + n)
<1> USE ThreadFacts, TCPTransportAssumption DEF WholeInv
<1>1. at["worker"] = "use" /\ c # None /\ peer[c] # "reset" /\ taken[c] + n <= arrived[c]
  BY DEF Receive, Receiving
<1>2. /\ c = remoteConn /\ c = conns /\ c \in 1 .. conns /\ c \in Conns /\ c \notin disposed
      /\ number[c] = number[conn["worker"]] /\ IsOpen(c)
  BY <1>1, OwnSocket
<1>3. /\ taken[c] \in Nat /\ arrived[c] \in Nat /\ n \in Nat \ {0}
      /\ rxBuff \in Seq(Conns \X (0 .. MaxParts))
  BY <1>2 DEF TInv, TCPTypeOK, DataTypeOK
<1>4. CASE rxBuff = << >>
  <2>1. Packages(taken[c]) \/ CutShort(c)
    BY <1>1, <1>2, <1>3, <1>4 DEF StaysInStep, Dead
  <2>2. Len(rxBuff) = 0 /\ 0 + n = n /\ taken[c] + 0 = taken[c]
    BY <1>3, <1>4
  <2>3. rxBuff \o Beginning(c, taken[c], n) = Beginning(c, taken[c], n)
    <3>1. Beginning(c, taken[c], n) \in Seq(Conns \X Nat)
      BY <1>2, <1>3 DEF Beginning
    <3>2. QED BY <1>4, <3>1
  <2>4. QED BY <1>3, <2>1, <2>2, <2>3
<1>5. CASE rxBuff # << >>
  <2>1. PICK m : m = Len(rxBuff)
    OBVIOUS
  <2>2. m \in Nat \ {0} /\ rxBuff[m] = LastPart
    BY <1>3, <1>5, <2>1 DEF LastPart
  <2>3. LastPart[1] \in 1 .. conns /\ number[LastPart[1]] = number[c]
    BY <1>1, <1>2, <1>5 DEF IsLatest, ReadsByNumber
  <2>4. CASE LastPart[1] # c
    <3>1. LastPart[1] \in cut
      BY <1>1, <1>2, <1>5, <2>3, <2>4 DEF ReadsByNumber, OnlyThePresent
    <3>2. LastPart[1] < c
      BY <1>2, <2>3, <2>4 DEF TInv, TCPTypeOK, ConnTypeOK
    <3>3. QED BY <2>3, <3>1, <3>2 DEF CutShort
  <2>5. CASE LastPart[1] = c /\ ~ CutShort(c)
    <3>1. PICK b, k : b = rxBuff[1][1] /\ k = rxBuff[1][2]
      OBVIOUS
    <3>2. Packages(k) /\ rxBuff = Beginning(b, k, m)
      BY <1>5, <2>1, <2>5, <3>1 DEF Aligned
    <3>3. b \in Conns /\ k \in Nat
      BY <1>3, <2>1, <2>2, <3>1
    <3>4. rxBuff[m] = <<b, k + m - 1>>
      BY <2>2, <3>2, <3>3 DEF Beginning
    <3>5. LastPart[2] = taken[c] - 1
      BY <1>5, <2>5 DEF IsLatest
    <3>6. b = c /\ k + m = taken[c]
      <4>1. b = c /\ k + m - 1 = taken[c] - 1
        BY <2>2, <2>5, <3>4, <3>5
      <4>2. QED BY <1>3, <2>2, <3>3, <4>1
    <3>7. rxBuff \o Beginning(c, taken[c], n) = Beginning(c, k, m + n)
      <4>1. c \in Conns /\ k \in Nat /\ m \in Nat /\ n \in Nat
        BY <1>2, <1>3, <2>2, <3>3
      <4>2. Beginning(c, k, m) \o Beginning(c, k + m, n) = Beginning(c, k, m + n)
        BY ONLY <4>1, BeginningJoins
      <4>3. QED BY ONLY <3>2, <3>6, <4>2
    <3>8. QED BY <2>1, <3>2, <3>3, <3>6, <3>7
  <2>6. QED BY <2>4, <2>5
<1>6. QED BY <1>4, <1>5

LEMMA ReceiveWhole ==
  ASSUME TInv, OnlyThePresent, WholeInv, NEW n \in 1 .. Parts, Receive(n)
  PROVE  WholeInv'
<1> USE ThreadFacts, TCPTransportAssumption DEF WholeInv
<1>1. PICK c, m, old : c = Reached("worker") /\ m = Len(rxBuff) /\ old = taken[c]
  OBVIOUS
<1>2. PICK package : package = rxBuff \o Beginning(c, old, n)
  OBVIOUS
<1>3. at["worker"] = "use" /\ "worker" \in Threads /\ lock # "worker" /\ c # None
  BY <1>1 DEF Receive, Receiving, TInv, TCPTypeOK, ThreadTypeOK
<1>4. /\ c = remoteConn /\ c \in 1 .. conns /\ c \in Conns /\ c \notin disposed
      /\ number[c] = number[conn["worker"]]
  BY <1>1, <1>3, OwnSocket
<1>5. /\ n \in 1 .. Parts - m /\ old + n <= arrived[c]
      /\ taken' = [taken EXCEPT ![c] = old + n]
      /\ \/ Len(package) < Parts /\ rxBuff' = package /\ at' = at
         \/ Len(package) = Parts /\ rxBuff' = << >> /\ at' = at
         \/ /\ Len(package) = Parts /\ ~ Whole(package)
            /\ rxBuff' = package /\ at' = [at EXCEPT !["worker"] = "dispose"]
      /\ UNCHANGED <<lock, connVars, conn, peer, arrived, cut>>
  BY <1>1, <1>2 DEF Receive, Go
<1>6. /\ m \in Nat /\ old \in Nat /\ n \in Nat \ {0} /\ arrived[c] \in 0 .. MaxParts
      /\ taken \in [Conns -> 0 .. MaxParts] /\ rxBuff \in Seq(Conns \X Nat)
  <2>1. rxBuff \in Seq(Conns \X (0 .. MaxParts)) /\ taken \in [Conns -> 0 .. MaxParts]
    BY DEF TInv, TCPTypeOK, DataTypeOK
  <2>2. rxBuff \in Seq(Conns \X Nat)
    BY <2>1
  <2>3. QED BY <1>1, <1>4, <2>1, <2>2 DEF TInv, TCPTypeOK, DataTypeOK
<1>7. package # << >> /\ Len(package) = m + n /\ package[m + n] = <<c, old + n - 1>>
  <2>1. rxBuff \in Seq(Conns \X Nat) /\ c \in Conns /\ old \in Nat /\ n \in Nat \ {0}
    BY <1>4, <1>6
  <2>2. /\ rxBuff \o Beginning(c, old, n) # << >>
        /\ Len(rxBuff \o Beginning(c, old, n)) = Len(rxBuff) + n
        /\ (rxBuff \o Beginning(c, old, n))[Len(rxBuff) + n] = <<c, old + n - 1>>
    BY ONLY <2>1, Appended
  <2>3. QED BY ONLY <1>1, <1>2, <2>2
<1>8. \/ CutShort(c)
      \/ \E k \in Nat : Packages(k) /\ k + m = old /\ package = Beginning(c, k, m + n)
  BY ONLY <1>1, <1>2, TInv, OnlyThePresent, WholeInv, Receive(n), n \in 1 .. Parts, ReceiveContinues
<1>9. \/ CutShort(c)
      \/ m + n = Parts /\ Whole(package) /\ Packages(old + n)
      \/ m + n < Parts /\ \E k \in Nat : Packages(k) /\ package = Beginning(c, k, m + n)
  <2>1. ASSUME NEW k \in Nat, Packages(k), k + m = old, package = Beginning(c, k, m + n), m + n = Parts
        PROVE  Whole(package) /\ Packages(old + n)
    <3>1. k % Parts = 0 /\ Packages(k + Parts) /\ k + Parts = old + n
      <4>1. k % Parts = 0 /\ Packages(k + Parts)
        BY ONLY <2>1, k \in Nat, PackagesFacts
      <4>2. k + Parts = old + n
        <5>1. k \in Nat /\ m \in Nat /\ n \in Nat /\ k + m = old /\ m + n = Parts
          BY <1>6, <2>1
        <5>2. QED BY ONLY <5>1
      <4>3. QED BY ONLY <4>1, <4>2
    <3>2. k \in 0 .. MaxParts
      BY <1>5, <1>6, <2>1
    <3>3. QED BY <1>4, <2>1, <3>1, <3>2 DEF Whole
  <2>2. m + n <= Parts
    BY <1>5, <1>6
  <2>3. QED BY <1>6, <1>8, <2>1, <2>2
<1>10. CutShort(c) => CutShort(c)'
  BY <1>5, CutShortForGood DEF connVars
<1>11. taken'[c] = old + n /\ \A d \in Conns : d # c => taken'[d] = taken[d]
  BY <1>4, <1>5, <1>6
<1>12. ASSUME rxBuff' = package
       PROVE  LastPart' = <<c, old + n - 1>>
  BY <1>7, <1>12 DEF LastPart
<1>13. Aligned'
  <2>1. CASE rxBuff' = << >>
    BY <2>1 DEF Aligned
  <2>2. ASSUME rxBuff' = package, NEW k \in Nat, Packages(k), package = Beginning(c, k, m + n)
        PROVE  Aligned'
    <3>1. package[1] = <<c, k>>
      <4>1. m + n \in Nat /\ m + n > 0
        BY <1>6
      <4>2. QED BY <1>4, <2>2, <4>1, BeginningJoins
    <3>2. rxBuff'[1][1] = c /\ rxBuff'[1][2] = k /\ Len(rxBuff') = m + n
      BY <1>7, <2>2, <3>1
    <3>3. QED BY <2>2, <3>2 DEF Aligned, Beginning, Packages
  <2>3. CASE rxBuff' = package /\ CutShort(c)
    BY <1>10, <1>12, <2>3 DEF Aligned
  <2>4. rxBuff' = << >> \/ (rxBuff' = package /\ (Whole(package) => m + n # Parts))
    BY <1>5, <1>7
  <2>5. QED BY <1>6, <1>9, <2>1, <2>2, <2>3, <2>4
<1>14. IsLatest'
  BY <1>4, <1>5, <1>6, <1>11, <1>12 DEF IsLatest, connVars
<1>15. ReadsByNumber'
  BY <1>4, <1>5, <1>12 DEF ReadsByNumber, connVars
<1>16. StaysInStep'
  <2>1. ASSUME NEW d \in 1 .. conns, d # c
        PROVE  Packages(taken'[d]) \/ Dead(d)' \/ CutShort(d)'
    <3>1. d \in Conns /\ d # None /\ taken'[d] = taken[d]
      BY <1>11, <2>1 DEF TInv, TCPTypeOK, ConnTypeOK, Conns
    <3>2. ~ IsOpen(d)
      BY <1>4, <2>1, <3>1 DEF OnlyThePresent, IsOpen
    <3>3. QED BY <1>5, <3>2 DEF Dead, IsOpen, connVars
  <2>2. \/ Packages(taken'[c]) \/ CutShort(c)'
        \/ at'["worker"] = "use" /\ rxBuff' # << >> /\ LastPart'[1] = c
    <3>1. CASE CutShort(c)
      BY <1>10, <3>1
    <3>2. CASE Packages(old + n)
      BY <1>11, <3>2
    <3>3. CASE m + n < Parts
      <4>1. at' = at /\ rxBuff' = package
        BY <1>5, <1>6, <1>7, <3>3
      <4>2. QED BY <1>3, <1>7, <1>12, <4>1
    <3>4. QED BY <1>9, <3>1, <3>2, <3>3
  <2>3. conns' = conns
    BY <1>5 DEF connVars
  <2>4. QED BY <2>1, <2>2, <2>3 DEF StaysInStep, Packages
<1>17. NothingKept'
  <2>1. \A d \in Conns : d > conns => taken'[d] = taken[d]
    BY <1>4, <1>11 DEF TInv, TCPTypeOK, ConnTypeOK
  <2>2. at'["worker"] \notin {"get", "create"} /\ UNCHANGED <<conns, lock>>
    BY <1>3, <1>5 DEF connVars, TInv, TCPTypeOK, ThreadTypeOK
  <2>3. QED BY <1>3, <2>1, <2>2 DEF NothingKept
<1>18. QED BY <1>13, <1>14, <1>15, <1>16, <1>17

LEMMA CreateWhole ==
  ASSUME TInv, OnlyThePresent, WholeInv, NEW t \in Users, Create(t)
  PROVE  WholeInv'
<1> USE ThreadFacts, TCPTransportAssumption DEF WholeInv
<1>1. PICK c : c = conns + 1
  OBVIOUS
<1>2. /\ conns' = c /\ conn' = [conn EXCEPT ![t] = c] /\ at' = [at EXCEPT ![t] = "use"] /\ at[t] = "create"
      /\ lock' = Nobody /\ lock = t /\ UNCHANGED <<disposed, peer, arrived, taken, rxBuff, cut>>
  BY <1>1 DEF Create, Go, rxVars, TInv, OldOneIsGone, Renewing
<1>3. /\ c \in Conns /\ c > conns /\ 1 .. c = (1 .. conns) \cup {c} /\ taken[c] = 0 /\ conns \in Nat
      /\ at \in [Threads -> Places] /\ conn \in [Threads -> 0 .. conns] /\ "worker" \in Threads
  BY <1>1 DEF Create, TInv, TCPTypeOK, ConnTypeOK, ThreadTypeOK, NothingKept, Conns
<1>4. \E f \in Conns : number' = [number EXCEPT ![c] = f] /\ socket' = [socket EXCEPT ![f] = c]
  BY <1>1 DEF Create, FreeNumbers
<1>5. \A d \in 1 .. conns : number'[d] = number[d] /\ d \in Conns /\ d # c /\ (IsOpen(d)' => IsOpen(d))
  <2>1. ASSUME NEW d \in 1 .. conns PROVE number'[d] = number[d] /\ d \in Conns /\ d # c
    BY <1>3, <1>4 DEF TInv, TCPTypeOK, ConnTypeOK, Conns
  <2>2. \A g \in Conns : socket'[g] = socket[g] \/ socket'[g] = c
    BY <1>4 DEF TInv, TCPTypeOK, ConnTypeOK
  <2>3. QED BY <2>1, <2>2 DEF IsOpen
<1>6. ASSUME NEW d \in 1 .. conns, CutShort(d) PROVE CutShort(d)'
  <2>1. PICK old \in cut : old < d /\ number[old] = number[d]
    BY <1>6 DEF CutShort
  <2>2. old \in 1 .. conns /\ old \in cut'
    BY <1>2, <2>1 DEF TInv, TCPTypeOK, ConnTypeOK
  <2>3. QED BY <1>5, <2>1, <2>2 DEF CutShort
<1>7. IsLatest'
  BY <1>2, <1>3 DEF IsLatest, LastPart
<1>8. Aligned'
  BY <1>2, <1>6 DEF Aligned, IsLatest, LastPart, Beginning
<1>9. NothingKept'
  BY <1>2, <1>3 DEF NothingKept, Conns
<1>10. ReadsByNumber'
  <2>1. CASE t = "worker"
    BY <1>2, <2>1 DEF NothingKept, ReadsByNumber
  <2>2. CASE t # "worker" /\ at["worker"] = "use" /\ rxBuff # << >>
    <3>1. at'["worker"] = "use" /\ conn'["worker"] = conn["worker"] /\ LastPart' = LastPart
      BY <1>2, <1>3, <2>2 DEF LastPart
    <3>2. conn["worker"] \in 1 .. conns /\ LastPart[1] \in 1 .. conns
      BY <1>3, <2>2, OwnSocket DEF IsLatest
    <3>3. QED BY <1>2, <1>5, <2>2, <3>1, <3>2 DEF ReadsByNumber
  <2>3. CASE t # "worker" /\ ~ (at["worker"] = "use" /\ rxBuff # << >>)
    BY <1>2, <1>3, <2>3 DEF ReadsByNumber
  <2>4. QED BY <2>1, <2>2, <2>3
<1>11. StaysInStep'
  <2>1. Packages(taken'[c])
    BY <1>2, <1>3, PackagesFacts
  <2>2. \A d \in 1 .. conns : Dead(d) => Dead(d)'
    BY <1>2, <1>5 DEF Dead
  <2>3. at["worker"] \in {"use", "done"} => at'["worker"] = at["worker"]
    BY <1>2, <1>3
  <2>4. QED BY <1>2, <1>3, <1>6, <2>1, <2>2, <2>3 DEF StaysInStep, LastPart
<1>12. QED BY <1>7, <1>8, <1>9, <1>10, <1>11

LEMMA WholeNext ==
  ASSUME TInv, OnlyThePresent, WholeInv, [TCPNext]_tcpVars
  PROVE  WholeInv'
<1> USE ThreadFacts DEF connVars, threadVars, rxVars, stopVars, Go
<1>1. CASE UNCHANGED tcpVars
  BY <1>1, QuietWhole DEF tcpVars, Dead, IsOpen
<1>2. CASE Worker
  BY <1>2, WorkerWhole, ReceiveWhole, CreateWhole DEF Worker
<1>3. ASSUME NEW t \in {"timer", "main"}, ReadFalseVal(t) PROVE WholeInv'
  <2>1. /\ UNCHANGED <<lock, connVars, at["worker"], conn["worker"], peer, arrived, taken, rxBuff, cut>>
    BY <1>3 DEF ReadFalseVal, TInv, TCPTypeOK, ThreadTypeOK
  <2>2. QED BY <2>1, QuietWhole DEF Dead, IsOpen
<1>4. ASSUME NEW t \in {"timer", "main"}, Exchange(t) PROVE WholeInv'
  <2>1. /\ UNCHANGED <<conns, number, at["worker"], conn["worker"], taken, rxBuff>>
        /\ lock' = "worker" => lock = "worker"
    BY <1>4 DEF Exchange, TInv, TCPTypeOK, ThreadTypeOK
  <2>2. \A c \in 1 .. conns : Dead(c) => Dead(c)'
    BY <1>4, ExchangeKillsOnly
  <2>3. cut \subseteq cut'
    BY <1>4 DEF Exchange
  <2>4. ASSUME at["worker"] = "use", rxBuff # << >>, NEW c \in 1 .. conns, c \in disposed'
        PROVE  c \in disposed \/ c \in cut'
    <3>1. disposed' = disposed \/ (disposed' = disposed \cup {conn[t]} /\ (conn[t] \in disposed) = expected[t])
      BY <1>4, Zenon DEF Exchange
    <3>2. conn[t] \notin disposed /\ (conn[t] \in disposed) = expected[t] => conn[t] \in cut'
      BY <1>4, <2>4 DEF Exchange
    <3>3. QED BY <2>4, <3>1, <3>2
  <2>5. QED BY <2>1, <2>2, <2>3, <2>4, QuietWhole
<1>5. CASE GetConnection("timer") \/ CreateFails("timer") \/ SendFails \/ OnShutdown \/ DisposeAtShutdown
  <2>1. /\ UNCHANGED <<conns, number, socket, disposed, cut>>
        /\ UNCHANGED <<at["worker"], conn["worker"], peer, arrived, taken, rxBuff>>
        /\ lock' = "worker" => lock = "worker"
    BY <1>5 DEF GetConnection, CreateFails, SendFails, OnShutdown, DisposeAtShutdown,
                TInv, TCPTypeOK, ThreadTypeOK
  <2>2. QED BY <2>1, QuietWhole DEF Dead, IsOpen
<1>6. ASSUME NEW n \in 1 .. Parts, SendParts(n) PROVE WholeInv'
  <2>1. UNCHANGED <<lock, connVars, at["worker"], conn["worker"], arrived, taken, rxBuff, cut>>
    BY <1>6 DEF SendParts, TInv, TCPTypeOK, ThreadTypeOK
  <2>2. \A c \in Conns : peer'[c] = peer[c] \/ peer'[c] = "reset"
    <3>1. peer' = [peer EXCEPT ![Reached("timer")] = IF @ = "closed" THEN "reset" ELSE @]
      BY <1>6 DEF SendParts
    <3>2. QED BY <3>1 DEF TInv, TCPTypeOK, DataTypeOK
  <2>3. \A c \in 1 .. conns : c \in Conns
    BY TCPTransportAssumption DEF TInv, TCPTypeOK, ConnTypeOK, Conns
  <2>4. \A c \in 1 .. conns : Dead(c) => Dead(c)'
    BY <2>1, <2>2, <2>3 DEF Dead, IsOpen
  <2>5. QED BY <2>1, <2>4, QuietWhole
<1>7. CASE Firmware
  <2>1. UNCHANGED <<lock, connVars, at["worker"], conn["worker"], taken, rxBuff, cut>>
    BY <1>7 DEF Firmware, FirmwareSends, FirmwareLeaves
  <2>2. \A c \in 1 .. conns : Dead(c) => Dead(c)'
    <3> SUFFICES ASSUME NEW c \in 1 .. conns, Dead(c) PROVE Dead(c)'
      OBVIOUS
    <3>1. c \in Conns
      BY TCPTransportAssumption DEF TInv, TCPTypeOK, ConnTypeOK, Conns
    <3>2. ASSUME NEW d \in Conns, FirmwareSends(d) PROVE Dead(c)'
      BY <2>1, <3>1, <3>2 DEF FirmwareSends, Dead, IsOpen, TInv, TCPTypeOK, DataTypeOK
    <3>3. ASSUME NEW d \in Conns, NEW how \in {"closed", "reset"}, FirmwareLeaves(d, how) PROVE Dead(c)'
      BY <2>1, <3>1, <3>3 DEF FirmwareLeaves, Dead, IsOpen, TInv, TCPTypeOK, DataTypeOK
    <3>4. QED BY <1>7, <3>2, <3>3 DEF Firmware
  <2>3. QED BY <2>1, <2>2, QuietWhole
<1>8. QED BY <1>1, <1>2, <1>3, <1>4, <1>5, <1>6, <1>7, CreateWhole DEF TCPNext, SendPackage, Main

\* What the worker has received of a package is the beginning of one package of one
\* connection, so that its checksum is right, unless it reads from a number that an
\* earlier connection had too, which another thread disposed of while the worker was
\* in the middle of a package (TCPTransport.cpp:201, TCPConnection.cpp:21).  In
\* particular it is not enough that Dispose does nothing and the worker comes back to
\* a connection it left in the middle of a package.
THEOREM NoPackageIsMixed == TCPSpec => []PackagesStayWhole
<1>1. WholeInv => PackagesStayWhole
  <2> SUFFICES ASSUME WholeInv, rxBuff # << >>, ~ CutShort(LastPart[1]) PROVE InStep
    BY DEF PackagesStayWhole, InStep, LastPart
  <2>1. Packages(rxBuff[1][2]) /\ rxBuff = Beginning(rxBuff[1][1], rxBuff[1][2], Len(rxBuff))
    BY DEF WholeInv, Aligned
  <2>2. rxBuff[1][2] % Parts = 0
    <3>1. PICK k : k = rxBuff[1][2]
      OBVIOUS
    <3>2. k \in Nat
      BY <2>1, <3>1, TCPTransportAssumption DEF Packages
    <3>3. QED BY <2>1, <3>1, <3>2, PackagesFacts
  <2>3. QED BY <2>1, <2>2 DEF InStep
<1>2. TInv /\ OnlyThePresent /\ WholeInv /\ [TCPNext]_tcpVars => WholeInv'
  BY WholeNext
<1>3. QED BY <1>1, <1>2, InitInv, NextInv, OnlyThePresentInit, OnlyThePresentNext, WholeInit, PTL DEF TCPSpec
-----------------------------------------------------------------------------
(***************************************************************************)
(* The test utility and the board.                                         *)
(*                                                                         *)
(* The argument is LoopbackIInv: on a line that spoils nothing, what is on *)
(* its way (Transit) is what of the block was sent and not read yet, byte  *)
(* by byte; a test that shows no error has compared all it read.  A pass   *)
(* of the board moves bytes on and leaves Transit alone (EchoMovesOn), by  *)
(* the lemmas of RingBufferProofs.                                         *)
(***************************************************************************)
USE SizeAssumption, LoopbackAssumption
-----------------------------------------------------------------------------
(* The lemmas about DataBuffer.                                            *)

Buffer == INSTANCE RingBufferProofs WITH taken <- back, MaxPayload <- BlockSize

LEMMA BufferIsTheSame ==
  /\ Buffer!Rings = Rings /\ Buffer!Index = Index /\ Buffer!Slots = Slots
  /\ \A r : Buffer!GetHead(r) = GetHead(r) /\ Buffer!GetTail(r) = GetTail(r)
  /\ \A r : Buffer!Stored(r) = Stored(r)
  /\ \A r, s : Buffer!Held(r, s) = Held(r, s)
  /\ \A r, h, n : Buffer!Commit(r, h, n) = Commit(r, h, n)
  /\ \A s, h, d, n : Buffer!Fill(s, h, d, n) = Fill(s, h, d, n)
  /\ \A r, d : Buffer!PassSize(r, d) = PassSize(r, d)
<1>1. Buffer!Rings = Rings /\ Buffer!Index = Index /\ Buffer!Slots = Slots
  BY ONLY TRUE DEF Buffer!Rings, Rings, Buffer!Index, Index, Buffer!Slots, Slots
<1>2. \A r : Buffer!GetHead(r) = GetHead(r) /\ Buffer!GetTail(r) = GetTail(r)
  BY ONLY TRUE DEF Buffer!GetHead, GetHead, Buffer!GetTail, GetTail
<1>3. \A r : Buffer!Stored(r) = Stored(r)
  BY ONLY TRUE DEF Buffer!Stored, Stored
<1>4. \A r, s : Buffer!Held(r, s) = Held(r, s)
  BY ONLY TRUE DEF Buffer!Held, Held, Buffer!Slot, Slot, Buffer!Stored, Stored
<1>5. \A r, h, n : Buffer!Commit(r, h, n) = Commit(r, h, n)
  BY ONLY TRUE DEF Buffer!Commit, Commit, Buffer!Advance, Advance
<1>6. \A s, h, d, n : Buffer!Fill(s, h, d, n) = Fill(s, h, d, n)
  BY ONLY TRUE DEF Buffer!Fill, Fill, Buffer!Index, Index
<1>7. \A r, d : Buffer!PassSize(r, d) = PassSize(r, d)
  BY ONLY TRUE DEF Buffer!PassSize, PassSize, Buffer!GetHead, GetHead
<1>8. QED BY ONLY <1>1, <1>2, <1>3, <1>4, <1>5, <1>6, <1>7

LEMMA GeometryHead ==
  ASSUME NEW r \in Rings
  PROVE  GetHead(r).maxSz \in Nat
<1>1. r \in Buffer!Rings
  BY BufferIsTheSame
<1>2. Buffer!GetHead(r).maxSz \in 0 .. Size - r.head
  BY <1>1, Buffer!GeometryHead
<1>3. QED BY <1>2, BufferIsTheSame

LEMMA GeometryTail ==
  ASSUME NEW r \in Rings
  PROVE  GetTail(r).maxSz \in Nat
<1>1. r \in Buffer!Rings
  BY BufferIsTheSame
<1>2. Buffer!GetTail(r).maxSz \in 0 .. Size - r.tail
  BY <1>1, Buffer!GeometryTail
<1>3. QED BY <1>2, BufferIsTheSame

LEMMA HeldIsASeq ==
  ASSUME NEW r \in Rings, NEW s \in [Index -> Slots]
  PROVE  Held(r, s) \in Seq(Slots)
BY Buffer!HeldIsASeq, BufferIsTheSame

\* A run of data written at the head.
LEMMA FillAppends ==
  ASSUME NEW r \in Rings, NEW s \in [Index -> Slots], NEW data \in Seq(Byte)
  PROVE  LET n == PassSize(r, data)
             a == Commit(r, GetHead(r), n)
             b == Fill(s, GetHead(r), data, n)
         IN  /\ a \in Rings /\ b \in [Index -> Slots] /\ n \in 0 .. Len(data)
             /\ Held(a, b) = Held(r, s) \o SubSeq(data, 1, n)
<1> DEFINE x == [ring |-> r, storage |-> s, data |-> data]
           c == Buffer!CopyPass(x)
           n == PassSize(r, data)
<1>1. r \in Buffer!Rings /\ s \in [Buffer!Index -> Buffer!Slots]
  BY BufferIsTheSame
<1>2. /\ c.ring \in Buffer!Rings /\ c.storage \in [Buffer!Index -> Buffer!Slots]
      /\ Buffer!PassSize(r, data) \in 0 .. Len(data)
      /\ Buffer!Held(c.ring, c.storage)
           = Buffer!Held(r, s) \o SubSeq(data, 1, Buffer!PassSize(r, data))
  BY <1>1, Buffer!PassAppends
<1>3. /\ c.ring = Buffer!Commit(r, Buffer!GetHead(r), Buffer!PassSize(r, data))
      /\ c.storage = Buffer!Fill(s, Buffer!GetHead(r), data, Buffer!PassSize(r, data))
  BY DEF Buffer!CopyPass
<1> HIDE DEF c
<1>4. /\ c.ring \in Rings /\ c.storage \in [Index -> Slots] /\ n \in 0 .. Len(data)
      /\ Held(c.ring, c.storage) = Held(r, s) \o SubSeq(data, 1, n)
  BY ONLY <1>2, BufferIsTheSame DEF n
<1>5. /\ c.ring = Commit(r, GetHead(r), n)
      /\ c.storage = Fill(s, GetHead(r), data, n)
  BY ONLY <1>3, BufferIsTheSame DEF n
<1>6. QED BY ONLY <1>4, <1>5 DEF n

\* A drain removes the oldest bytes, and they are what it hands out.
LEMMA DrainRemoves ==
  ASSUME NEW r \in Rings, NEW s \in [Index -> Slots],
         NEW n \in 1 .. GetTail(r).maxSz
  PROVE  LET a   == Commit(r, GetTail(r), n)
             run == [i \in 1 .. n |-> s[GetTail(r).buffer + i - 1]]
         IN  /\ a \in Rings
             /\ n \in 1 .. Len(Held(r, s))
             /\ run = SubSeq(Held(r, s), 1, n)
             /\ Held(a, s) = SubSeq(Held(r, s), n + 1, Len(Held(r, s)))
BY Buffer!DrainRemoves, BufferIsTheSame
-----------------------------------------------------------------------------
(* Sequences.                                                              *)

\* A sequence in two parts.
LEMMA Cut ==
  ASSUME NEW S, NEW q \in Seq(S), NEW n \in 0 .. Len(q)
  PROVE  /\ SubSeq(q, 1, n) \in Seq(S) /\ Len(SubSeq(q, 1, n)) = n
         /\ \A i \in 1 .. n : SubSeq(q, 1, n)[i] = q[i]
         /\ SubSeq(q, n + 1, Len(q)) \in Seq(S)
         /\ Len(SubSeq(q, n + 1, Len(q))) = Len(q) - n
         /\ \A i \in 1 .. Len(q) - n : SubSeq(q, n + 1, Len(q))[i] = q[n + i]
         /\ SubSeq(q, 1, n) \o SubSeq(q, n + 1, Len(q)) = q
<1>1. Len(q) \in Nat /\ n \in Nat /\ \A i \in 1 .. Len(q) : q[i] \in S
  BY ElementOfSeq, LenProperties
<1>2. (\A i \in 1 .. n : q[i] \in S) /\ (\A i \in n + 1 .. Len(q) : q[i] \in S)
  BY <1>1
<1> DEFINE a == SubSeq(q, 1, n)  b == SubSeq(q, n + 1, Len(q))
<1>3. /\ a \in Seq(S) /\ Len(a) = (IF 1 <= n THEN n - 1 + 1 ELSE 0)
      /\ \A i \in 1 .. n - 1 + 1 : a[i] = q[1 + i - 1]
  BY <1>1, <1>2, SubSeqProperties
<1>4. /\ b \in Seq(S) /\ Len(b) = (IF n + 1 <= Len(q) THEN Len(q) - (n + 1) + 1 ELSE 0)
      /\ \A i \in 1 .. Len(q) - (n + 1) + 1 : b[i] = q[n + 1 + i - 1]
  BY <1>1, <1>2, SubSeqProperties
<1>5. a \o b = q
  <2>1. SubSeq(q, 1, n) \o SubSeq(q, n + 1, Len(q)) = SubSeq(q, 1, Len(q))
    <3>1. 1 \in 1 .. Len(q) + 1 /\ n \in 1 - 1 .. Len(q) /\ Len(q) \in n .. Len(q)
      BY <1>1
    <3>2. QED BY ONLY <3>1, q \in Seq(S), ConcatAdjacentSubSeq
  <2>2. QED BY <2>1, SubSeqFull
<1> HIDE DEF a, b
<1>6. Len(a) = n /\ Len(b) = Len(q) - n
  BY <1>1, <1>3, <1>4
<1>7. ASSUME NEW i \in 1 .. n PROVE a[i] = q[i]
  <2>1. i \in 1 .. n - 1 + 1 /\ 1 + i - 1 = i
    BY <1>1
  <2>2. QED BY <1>3, <2>1
<1>8. ASSUME NEW i \in 1 .. Len(q) - n PROVE b[i] = q[n + i]
  <2>1. i \in 1 .. Len(q) - (n + 1) + 1 /\ n + 1 + i - 1 = n + i
    BY <1>1
  <2>2. QED BY <1>4, <2>1
<1>9. QED BY <1>3, <1>4, <1>5, <1>6, <1>7, <1>8 DEF a, b

\* A stretch of a sequence that begins at m + 1 and holds n.
LEMMA Stretch ==
  ASSUME NEW S, NEW q \in Seq(S), NEW m \in Nat, NEW n \in Nat, m + n <= Len(q)
  PROVE  /\ SubSeq(q, m + 1, m + n) \in Seq(S) /\ Len(SubSeq(q, m + 1, m + n)) = n
         /\ \A i \in 1 .. n : SubSeq(q, m + 1, m + n)[i] = q[m + i]
<1> DEFINE a == SubSeq(q, m + 1, m + n)
<1>1. Len(q) \in Nat /\ \A i \in 1 .. Len(q) : q[i] \in S
  BY ElementOfSeq, LenProperties
<1>2. \A i \in m + 1 .. m + n : q[i] \in S
  BY <1>1
<1>3. /\ a \in Seq(S)
      /\ Len(a) = (IF m + 1 <= m + n THEN m + n - (m + 1) + 1 ELSE 0)
      /\ \A i \in 1 .. m + n - (m + 1) + 1 : a[i] = q[m + 1 + i - 1]
  BY <1>2, SubSeqProperties
<1> HIDE DEF a
<1>4. Len(a) = n
  BY <1>3
<1>5. ASSUME NEW i \in 1 .. n PROVE a[i] = q[m + i]
  <2>1. i \in 1 .. m + n - (m + 1) + 1 /\ m + 1 + i - 1 = m + i
    OBVIOUS
  <2>2. QED BY <1>3, <2>1
<1>6. QED BY <1>3, <1>4, <1>5 DEF a
-----------------------------------------------------------------------------
(* The board.                                                              *)

\* What the board has after it received is what it had and the next bytes.
LEMMA ReceivedFits ==
  ASSUME ring \in Rings, storage \in [Index -> Slots], serialIn \in Seq(Byte)
  PROVE  /\ Received.ring \in Rings /\ Received.storage \in [Index -> Slots]
         /\ Received.n \in 0 .. Len(serialIn)
         /\ Held(Received.ring, Received.storage)
              = Held(ring, storage) \o SubSeq(serialIn, 1, Received.n)
<1> DEFINE n == PassSize(ring, serialIn)
<1>1. GetHead(ring).maxSz \in Nat /\ Len(serialIn) \in Nat
  BY GeometryHead, LenProperties
<1>2. Least(GetHead(ring).maxSz, Len(serialIn)) = n
  BY <1>1 DEF Least, PassSize
<1>3. /\ Commit(ring, GetHead(ring), n) \in Rings
      /\ Fill(storage, GetHead(ring), serialIn, n) \in [Index -> Slots]
      /\ n \in 0 .. Len(serialIn)
      /\ Held(Commit(ring, GetHead(ring), n), Fill(storage, GetHead(ring), serialIn, n))
           = Held(ring, storage) \o SubSeq(serialIn, 1, n)
  BY FillAppends
<1> HIDE DEF n
<1>4. Received = IF n = 0 THEN [ring |-> ring, storage |-> storage, n |-> 0]
                 ELSE [ring |-> Commit(ring, GetHead(ring), n),
                       storage |-> Fill(storage, GetHead(ring), serialIn, n), n |-> n]
  BY <1>2 DEF Received
<1>5. CASE n = 0
  <2>1. Received.ring = ring /\ Received.storage = storage /\ Received.n = 0
    BY <1>4, <1>5
  <2>2. SubSeq(serialIn, 1, 0) = <<>> /\ 0 \in 0 .. Len(serialIn)
    BY <1>1, SubSeqEmpty
  <2>3. Held(ring, storage) \o <<>> = Held(ring, storage)
    BY HeldIsASeq, ConcatEmptySeq
  <2>4. /\ Held(Received.ring, Received.storage) = Held(ring, storage)
        /\ SubSeq(serialIn, 1, Received.n) = <<>>
    BY ONLY <2>1, <2>2
  <2>5. /\ Received.ring \in Rings /\ Received.storage \in [Index -> Slots]
        /\ Received.n \in 0 .. Len(serialIn)
    BY <2>1, <2>2
  <2>6. QED BY ONLY <2>3, <2>4, <2>5
<1>6. CASE n # 0
  <2>1. /\ Received.ring = Commit(ring, GetHead(ring), n)
        /\ Received.storage = Fill(storage, GetHead(ring), serialIn, n) /\ Received.n = n
    BY <1>4, <1>6
  <2>2. QED BY <1>3, <2>1
<1>7. QED BY <1>5, <1>6

\* What is on its way to the test.
Transit == back \o Held(ring, storage) \o serialIn \o toDevice

\* A pass of the board moves bytes on.
LEMMA EchoMovesOn ==
  ASSUME ring \in Rings, storage \in [Index -> Slots], serialIn \in Seq(Byte),
         back \in Seq(Byte), toDevice \in Seq(Byte), Held(ring, storage) \in Seq(Byte),
         NEW room \in Nat, Echo(room)
  PROVE  /\ ring' \in Rings /\ storage' \in [Index -> Slots] /\ serialIn' \in Seq(Byte)
         /\ back' \in Seq(Byte) /\ toDevice' = toDevice
         /\ Len(serialIn') <= Len(serialIn)
         /\ Held(ring, storage)' \in Seq(Byte)
         /\ Transit' = Transit
<1> DEFINE g == Received.ring  t == Received.storage  n == Received.n
           m == Least(GetTail(g).maxSz, room)
           run == [i \in 1 .. m |-> t[GetTail(g).buffer + i - 1]]
           h == Held(ring, storage)  h1 == Held(g, t)  h2 == Held(ring', storage')
           a == SubSeq(serialIn, 1, n)  b == SubSeq(serialIn, n + 1, Len(serialIn))
<1>1. /\ g \in Rings /\ t \in [Index -> Slots] /\ n \in 0 .. Len(serialIn)
      /\ h1 = h \o a
  BY ReceivedFits
<1>2. /\ serialIn' = b /\ storage' = t /\ back' = back \o run /\ toDevice' = toDevice
      /\ ring' = IF m = 0 THEN g ELSE Commit(g, GetTail(g), m)
  BY DEF Echo
<1>3. /\ a \in Seq(Byte) /\ b \in Seq(Byte) /\ a \o b = serialIn
      /\ Len(b) = Len(serialIn) - n /\ n \in Nat /\ Len(serialIn) \in Nat
  <2> HIDE DEF g, t, n, h, h1, h2
  <2>1. n \in 0 .. Len(serialIn) /\ Len(serialIn) \in Nat
    BY <1>1, LenProperties
  <2>2. /\ a \in Seq(Byte) /\ b \in Seq(Byte) /\ a \o b = serialIn
        /\ Len(b) = Len(serialIn) - n
    BY ONLY <2>1, serialIn \in Seq(Byte), Cut
  <2>3. n \in Nat
    BY ONLY <2>1
  <2>4. QED BY ONLY <2>1, <2>2, <2>3
<1>4. h \in Seq(Byte) /\ h1 \in Seq(Byte)
  BY <1>1, <1>3, ConcatProperties
<1>5. GetTail(g).maxSz \in Nat
  BY <1>1, GeometryTail
<1>6. m \in Nat /\ m <= GetTail(g).maxSz
  BY <1>5 DEF Least
<1> HIDE DEF m
<1>7. /\ ring' \in Rings /\ run \in Seq(Byte) /\ h2 \in Seq(Byte) /\ run \o h2 = h1
  <2>1. CASE m = 0
    <3>1. ring' = g /\ h2 = h1
      BY <1>2, <2>1
    <3>2. run = <<>>
      BY <2>1
    <3>3. <<>> \in Seq(Byte) /\ <<>> \o h1 = h1
      BY <1>4, EmptySeq, ConcatEmptySeq
    <3>4. QED BY ONLY <1>1, <1>4, <3>1, <3>2, <3>3
  <2>2. CASE m # 0
    <3>1. m \in 1 .. GetTail(g).maxSz
      BY <1>5, <1>6, <2>2
    <3>2. ring' = Commit(g, GetTail(g), m)
      BY <1>2, <2>2
    <3>3. /\ Commit(g, GetTail(g), m) \in Rings /\ m \in 1 .. Len(h1)
          /\ run = SubSeq(h1, 1, m)
          /\ Held(Commit(g, GetTail(g), m), t) = SubSeq(h1, m + 1, Len(h1))
      BY <1>1, <3>1, DrainRemoves
    <3>4. h2 = SubSeq(h1, m + 1, Len(h1))
      BY <1>2, <3>2, <3>3
    <3>5. /\ SubSeq(h1, 1, m) \in Seq(Byte) /\ SubSeq(h1, m + 1, Len(h1)) \in Seq(Byte)
          /\ SubSeq(h1, 1, m) \o SubSeq(h1, m + 1, Len(h1)) = h1
      <4>1. m \in 0 .. Len(h1)
        BY <3>3
      <4> HIDE DEF h1
      <4>2. QED BY <1>4, <4>1, Cut
    <3>6. QED BY ONLY <3>2, <3>3, <3>4, <3>5
  <2>3. QED BY <2>1, <2>2
<1>8. storage' \in [Index -> Slots] /\ serialIn' \in Seq(Byte) /\ Len(serialIn') <= Len(serialIn)
  <2> HIDE DEF g, t, n, h, h1, h2, a, b
  <2>1. QED BY <1>1, <1>2, <1>3
<1>9. \A x, y, z \in Seq(Byte) : (x \o y) \o z = x \o (y \o z)
  <2> TAKE x, y, z \in Seq(Byte)
  <2>1. QED BY ONLY x \in Seq(Byte), y \in Seq(Byte), z \in Seq(Byte), ConcatAssociative
<1>10. \A x, y \in Seq(Byte) : x \o y \in Seq(Byte)
  BY ConcatProperties
<1> HIDE DEF run, h, h1, h2, a, b, g, t, n
<1>11. (back \o run) \o h2 = (back \o h) \o a
  <2>1. (back \o run) \o h2 = back \o h1
    <3>1. (back \o run) \o h2 = back \o (run \o h2)
      BY ONLY <1>7, <1>9, back \in Seq(Byte), Zenon
    <3>2. QED BY ONLY <1>7, <3>1
  <2>2. back \o h1 = (back \o h) \o a
    <3>1. (back \o h) \o a = back \o (h \o a)
      BY ONLY <1>3, <1>4, <1>9, back \in Seq(Byte), Zenon
    <3>2. QED BY ONLY <1>1, <3>1
  <2>3. QED BY ONLY <2>1, <2>2
<1>12. ((back \o run) \o h2) \o b = (back \o h) \o serialIn
  <2>1. back \o h \in Seq(Byte)
    BY <1>4, <1>10
  <2>2. ((back \o h) \o a) \o b = (back \o h) \o (a \o b)
    BY ONLY <1>3, <1>9, <2>1, Zenon
  <2>3. QED BY ONLY <1>3, <1>11, <2>2
<1>13. Transit' = Transit
  BY <1>2, <1>12 DEF Transit, h, h2
<1>14. back' \in Seq(Byte)
  BY <1>2, <1>7, <1>10
<1>15. Held(ring, storage)' = h2
  BY DEF h2
<1>16. QED BY <1>2, <1>7, <1>8, <1>13, <1>14, <1>15
-----------------------------------------------------------------------------
(* The invariant.                                                          *)

ReadBytes == BlockSize - readLeft
SentBytes == BlockSize - dataToWrite

\* What is on its way is what was sent and not read yet.
Follows ==
  /\ Len(Transit) = SentBytes - ReadBytes
  /\ \A i \in 1 .. Len(Transit) : Transit[i] = source[ReadBytes + i]

\* What was read is what was sent.
ReadWell == \A i \in 1 .. ReadBytes : test[i] = source[i]

ProgressOK ==
  /\ source \in [1 .. BlockSize -> Byte] /\ Held(ring, storage) \in Seq(Byte)
  /\ spoilt \in Nat
  /\ tx # "done" => dataToWrite > 0
  /\ rx \in {"check", "asleep", "first"} => readLeft = BlockSize
  /\ main = "run" => told = {}

\* A test shows an error only for a reason, and shows none only when it has
\* compared what it read.
ShownOK ==
  /\ ~ failed \/ spoilt = 0 => ReadWell
  /\ failed => spoilt > 0 \/ (rx = "done" /\ "RX" \in told)

LoopbackIInv ==
  /\ TypeOK /\ ProgressOK /\ ShownOK
  /\ spoilt = 0 => Follows

LEMMA TransitIsASeq ==
  ASSUME TypeOK, ProgressOK
  PROVE  Transit \in Seq(Byte) /\ Len(Transit) \in Nat
<1>1. /\ back \in Seq(Byte) /\ serialIn \in Seq(Byte) /\ toDevice \in Seq(Byte)
      /\ Held(ring, storage) \in Seq(Byte)
  BY DEF TypeOK, ProgressOK
<1>2. \A x, y \in Seq(Byte) : x \o y \in Seq(Byte)
  BY ConcatProperties
<1>3. Transit \in Seq(Byte)
  BY ONLY <1>1, <1>2, Zenon DEF Transit
<1>4. QED BY <1>3, LenProperties

LEMMA InitFollows ==
  Init => LoopbackIInv
<1> SUFFICES ASSUME Init PROVE LoopbackIInv
  OBVIOUS
<1>1. EmptyRing \in Rings /\ Stored(EmptyRing) = 0
  BY DEF EmptyRing, Rings, Index, Stored
<1>2. Held(ring, storage) = <<>>
  BY <1>1 DEF Init, Held
<1>3. TypeOK
  <2>1. storage \in [Index -> Slots]
    BY DEF Init, Slots
  <2>2. <<>> \in Seq(Byte) /\ Len(<<>>) = 0
    BY EmptySeq
  <2>3. /\ {dataToWrite, readLeft} \subseteq 0 .. BlockSize
        /\ {toDevice, serialIn, back} \subseteq Seq(Byte) /\ Len(serialIn) <= SerialSize
    BY <2>2 DEF Init
  <2>4. ring \in Rings /\ test \in [1 .. BlockSize -> Byte] /\ failed \in BOOLEAN
    BY <1>1 DEF Init
  <2>5. QED BY <2>1, <2>3, <2>4 DEF Init, TypeOK
<1>4. ProgressOK
  <2>1. <<>> \in Seq(Byte)
    BY EmptySeq
  <2>2. QED BY <1>2, <2>1 DEF Init, ProgressOK
<1>5. ReadBytes = 0 /\ SentBytes = 0
  BY DEF Init, ReadBytes, SentBytes
<1>6. ShownOK
  BY <1>5 DEF Init, ShownOK, ReadWell
<1>7. Follows
  <2>1. Transit = <<>>
    BY <1>2 DEF Transit, Init
  <2>2. Len(Transit) = 0
    BY <2>1
  <2>3. QED BY <1>5, <2>2 DEF Follows
<1>8. QED BY <1>3, <1>4, <1>6, <1>7 DEF LoopbackIInv

\* Steps that leave alone what was read and compared, and what is on its way.
LEMMA AsideKeeps ==
  ASSUME LoopbackIInv, TypeOK', ProgressOK',
         UNCHANGED <<source, test, failed, readLeft, dataToWrite, spoilt>>,
         Transit' = Transit, rx = "done" => rx' = "done", told \subseteq told'
  PROVE  LoopbackIInv'
<1>1. ReadBytes' = ReadBytes /\ SentBytes' = SentBytes
  BY DEF ReadBytes, SentBytes
<1>2. ReadWell' <=> ReadWell
  BY <1>1 DEF ReadWell
<1>3. ShownOK'
  BY <1>2 DEF LoopbackIInv, ShownOK
<1>4. Follows' <=> Follows
  BY <1>1 DEF Follows
<1>5. QED BY <1>3, <1>4 DEF LoopbackIInv

LEMMA SameTransit ==
  ASSUME UNCHANGED <<deviceVars, back, toDevice>>
  PROVE  Transit' = Transit /\ Held(ring, storage)' = Held(ring, storage)
BY DEF Transit, deviceVars

\* The sender's steps but for send() itself.
LEMMA TXKeeps ==
  ASSUME LoopbackIInv, TXLoop \/ StartTest \/ SendTimeout \/ SendInterrupted \/ SendBreaks
  PROVE  LoopbackIInv'
<1>1. TXLeaves /\ UNCHANGED <<dataToWrite, toDevice>>
  BY DEF TXLoop, StartTest, SendTimeout, SendInterrupted, SendBreaks
<1>2. /\ UNCHANGED <<source, test, failed, main, told, readLeft, dataToWrite, spoilt, rxErrno>>
      /\ UNCHANGED <<serialIn, ring, storage, back, toDevice>>
  BY <1>1 DEF TXLeaves, testVars, mainVars, deviceVars
<1>3. Transit' = Transit /\ Held(ring, storage)' = Held(ring, storage)
  BY <1>2, SameTransit DEF deviceVars
<1>4. /\ rx' \in {"check", "asleep", "first", "rest", "done"}
      /\ rx = "done" => rx' = "done"
      /\ rx' \in {"check", "asleep", "first"} => rx \in {"check", "asleep", "first"}
  BY DEF LoopbackIInv, TypeOK, TXLoop, StartTest, SendTimeout, SendInterrupted, SendBreaks
<1>5. /\ tx' \in {"loop", "warmup", "send", "done"} /\ started' \in BOOLEAN
      /\ tx' = "send" => started'
      /\ tx' # "done" => tx # "done"
      /\ link' \in {"open", "closed", "broken", "disposed"}
  BY DEF LoopbackIInv, TypeOK, TXLoop, StartTest, SendTimeout, SendInterrupted, SendBreaks
<1>6. ProgressOK'
  BY <1>2, <1>3, <1>4, <1>5 DEF LoopbackIInv, ProgressOK
<1>7. TypeOK'
  BY <1>2, <1>4, <1>5, <1>6 DEF LoopbackIInv, TypeOK, ProgressOK
<1>8. QED BY <1>2, <1>3, <1>4, <1>6, <1>7, AsideKeeps

\* The receiver's steps that take nothing and show nothing.
LEMMA RXKeeps ==
  ASSUME LoopbackIInv, \/ AwaitStart \/ WakeSpuriously \/ ReadTimeout \/ ReadNothing
                       \/ ReadFails
  PROVE  LoopbackIInv'
<1>1. RXLeaves /\ UNCHANGED <<test, failed, readLeft, back>>
  BY DEF AwaitStart, WakeSpuriously, ReadTimeout, ReadNothing, ReadFails
<1>2. /\ UNCHANGED <<source, test, failed, main, told, readLeft, dataToWrite, spoilt, tx, started>>
      /\ UNCHANGED <<serialIn, ring, storage, back, toDevice>>
  BY <1>1 DEF RXLeaves, mainVars, deviceVars
<1>3. Transit' = Transit /\ Held(ring, storage)' = Held(ring, storage)
  BY <1>2, SameTransit DEF deviceVars
<1>4. /\ rx' \in {"check", "asleep", "first", "rest", "done"}
      /\ rx = "done" => rx' = "done"
      /\ rx' \in {"check", "asleep", "first"} => rx \in {"check", "asleep", "first"}
      /\ link' \in {"open", "closed", "broken", "disposed"}
  BY DEF LoopbackIInv, TypeOK, AwaitStart, WakeSpuriously, ReadTimeout, ReadNothing, ReadFails,
         Reading
<1>5. ProgressOK'
  BY <1>2, <1>3, <1>4 DEF LoopbackIInv, ProgressOK
<1>6. TypeOK'
  BY <1>2, <1>4 DEF LoopbackIInv, TypeOK
<1>7. QED BY <1>2, <1>3, <1>4, <1>5, <1>6, AsideKeeps

LEMMA MainKeeps ==
  ASSUME LoopbackIInv, RequestShutdown \/ Shutdown \/ PeerLeaves
  PROVE  LoopbackIInv'
<1>1. /\ UNCHANGED <<source, test, failed, readLeft, dataToWrite, spoilt, tx, rx, started>>
      /\ UNCHANGED <<serialIn, ring, storage, back, toDevice>>
  BY DEF RequestShutdown, Shutdown, PeerLeaves, OthersGoOn, Elsewhere, testVars, deviceVars
<1>2. Transit' = Transit /\ Held(ring, storage)' = Held(ring, storage)
  BY <1>1, SameTransit DEF deviceVars
<1>3. /\ main' \in {"run", "tell", "joinTX", "joinRX", "end"} /\ told' \subseteq {"TX", "RX"}
      /\ told \subseteq told'
      /\ main' = "run" => told' = {}
      /\ link' \in {"open", "closed", "broken", "disposed"}
  BY DEF LoopbackIInv, TypeOK, ProgressOK, RequestShutdown, Shutdown, PeerLeaves, OthersGoOn,
         Elsewhere, mainVars
<1>4. ProgressOK'
  BY <1>1, <1>2, <1>3 DEF LoopbackIInv, ProgressOK
<1>5. TypeOK'
  BY <1>1, <1>3 DEF LoopbackIInv, TypeOK
<1>6. QED BY <1>1, <1>2, <1>3, <1>4, <1>5, AsideKeeps

LEMMA BoardKeeps ==
  ASSUME LoopbackIInv, NEW room \in 0 .. SerialSize, Echo(room)
  PROVE  LoopbackIInv'
<1>1. /\ ring \in Rings /\ storage \in [Index -> Slots] /\ serialIn \in Seq(Byte)
      /\ back \in Seq(Byte) /\ toDevice \in Seq(Byte) /\ Held(ring, storage) \in Seq(Byte)
      /\ room \in Nat /\ Len(serialIn) <= SerialSize
  BY DEF LoopbackIInv, TypeOK, ProgressOK
<1>2. /\ ring' \in Rings /\ storage' \in [Index -> Slots] /\ serialIn' \in Seq(Byte)
      /\ back' \in Seq(Byte) /\ toDevice' = toDevice
      /\ Len(serialIn') <= Len(serialIn)
      /\ Held(ring, storage)' \in Seq(Byte)
      /\ Transit' = Transit
  BY <1>1, EchoMovesOn
<1>3. /\ UNCHANGED <<source, test, failed, main, told, readLeft, dataToWrite, spoilt, tx, rx>>
      /\ UNCHANGED <<started, link>>
  BY DEF Echo, Elsewhere, testVars, mainVars
<1>4. ProgressOK'
  BY <1>2, <1>3 DEF LoopbackIInv, ProgressOK
<1>5. TypeOK'
  <2>1. Len(serialIn') <= SerialSize
    BY <1>1, <1>2, LenProperties
  <2>2. QED BY <1>1, <1>2, <1>3, <2>1 DEF LoopbackIInv, TypeOK
<1>6. QED BY <1>2, <1>3, <1>4, <1>5, AsideKeeps

\* A byte that arrives only changes place.
LEMMA ArriveKeeps ==
  ASSUME LoopbackIInv, Arrive
  PROVE  LoopbackIInv'
<1>1. /\ serialIn \in Seq(Byte) /\ toDevice \in Seq(Byte) /\ toDevice # <<>>
      /\ back \in Seq(Byte) /\ Held(ring, storage) \in Seq(Byte)
      /\ Len(serialIn) < SerialSize
      /\ serialIn' = Append(serialIn, Head(toDevice)) /\ toDevice' = Tail(toDevice)
  BY DEF LoopbackIInv, TypeOK, ProgressOK, Arrive
<1>2. /\ UNCHANGED <<source, test, failed, main, told, readLeft, dataToWrite, spoilt, tx, rx>>
      /\ UNCHANGED <<started, link, ring, storage, back>>
  BY DEF Arrive, Elsewhere, testVars, mainVars
<1> DEFINE b == Head(toDevice)  d == Tail(toDevice)
<1>3. b \in Byte /\ d \in Seq(Byte)
  BY <1>1
<1>4. /\ Append(serialIn, b) \in Seq(Byte) /\ Len(Append(serialIn, b)) <= SerialSize
      /\ Append(serialIn, b) = serialIn \o <<b>> /\ <<b>> \o d = toDevice
      /\ <<b>> \in Seq(Byte)
  BY <1>1, <1>3
<1> DEFINE f == back \o Held(ring, storage)
<1>5. f \in Seq(Byte)
  BY <1>1, ConcatProperties
<1> HIDE DEF b, d, f
<1>6. \A x, y, z \in Seq(Byte) : (x \o y) \o z = x \o (y \o z)
  <2> TAKE x, y, z \in Seq(Byte)
  <2>1. QED BY ONLY x \in Seq(Byte), y \in Seq(Byte), z \in Seq(Byte), ConcatAssociative
<1>7. \A x, y \in Seq(Byte) : x \o y \in Seq(Byte)
  BY ConcatProperties
<1>8. (f \o (serialIn \o <<b>>)) \o d = (f \o serialIn) \o toDevice
  <2>1. serialIn \in Seq(Byte)
    BY ONLY <1>1
  <2>2. f \o (serialIn \o <<b>>) = (f \o serialIn) \o <<b>>
    <3>1. (f \o serialIn) \o <<b>> = f \o (serialIn \o <<b>>)
      BY ONLY <1>4, <1>5, <1>6, <2>1, Zenon
    <3>2. QED BY ONLY <3>1
  <2>3. f \o serialIn \in Seq(Byte)
    BY ONLY <1>5, <1>7, <2>1, Zenon
  <2>4. ((f \o serialIn) \o <<b>>) \o d = (f \o serialIn) \o (<<b>> \o d)
    BY ONLY <1>3, <1>4, <1>6, <2>3, Zenon
  <2>5. QED BY ONLY <1>4, <2>2, <2>4
<1>9. serialIn' = serialIn \o <<b>> /\ toDevice' = d
  BY <1>1, <1>4 DEF b, d
<1>10. Transit' = Transit
  BY <1>2, <1>8, <1>9 DEF Transit, f
<1>11. Held(ring, storage)' = Held(ring, storage)
  BY <1>2
<1>12. ProgressOK'
  BY <1>2, <1>11 DEF LoopbackIInv, ProgressOK
<1>13. TypeOK'
  <2>1. serialIn' \in Seq(Byte) /\ Len(serialIn') <= SerialSize /\ toDevice' \in Seq(Byte)
    BY <1>3, <1>4, <1>9
  <2>2. QED BY <1>2, <2>1 DEF LoopbackIInv, TypeOK
<1>14. QED BY <1>2, <1>10, <1>12, <1>13, AsideKeeps

LEMMA SpoilKeeps ==
  ASSUME LoopbackIInv, Spoil
  PROVE  LoopbackIInv'
<1>1. /\ toDevice \in Seq(Byte) /\ toDevice # <<>> /\ spoilt \in Nat
      /\ spoilt' = spoilt + 1
      /\ \/ toDevice' = Tail(toDevice)
         \/ \E b \in Byte : toDevice' = [toDevice EXCEPT ![1] = b]
  BY DEF LoopbackIInv, TypeOK, ProgressOK, Spoil
<1>2. /\ UNCHANGED <<source, test, failed, main, told, readLeft, dataToWrite, tx, rx>>
      /\ UNCHANGED <<started, link, ring, storage, back, serialIn>>
  BY DEF Spoil, Elsewhere, testVars, mainVars, deviceVars
<1>3. toDevice' \in Seq(Byte)
  <2>1. CASE toDevice' = Tail(toDevice)
    BY ONLY <1>1, <2>1
  <2>2. ASSUME NEW b \in Byte, toDevice' = [toDevice EXCEPT ![1] = b]
        PROVE  toDevice' \in Seq(Byte)
    BY ONLY <1>1, <2>2
  <2>3. QED BY ONLY <1>1, <2>1, <2>2
<1>4. spoilt' \in Nat /\ spoilt' # 0 /\ spoilt' > 0
  BY <1>1
<1>5. Held(ring, storage)' = Held(ring, storage)
  BY <1>2
<1>6. ProgressOK'
  BY <1>2, <1>4, <1>5 DEF LoopbackIInv, ProgressOK
<1>7. TypeOK'
  BY <1>2, <1>3 DEF LoopbackIInv, TypeOK
<1>8. ReadWell' <=> ReadWell
  BY <1>2 DEF ReadWell, ReadBytes
<1>9. ShownOK'
  BY <1>2, <1>4, <1>8 DEF LoopbackIInv, ShownOK
<1>10. QED BY <1>4, <1>6, <1>7, <1>9 DEF LoopbackIInv

-----------------------------------------------------------------------------
(* Bytes that are sent, and bytes that are read.                           *)

\* The block is a sequence of bytes.
LEMMA BlockIsASeq ==
  ASSUME NEW q \in [1 .. BlockSize -> Byte]
  PROVE  q \in Seq(Byte) /\ Len(q) = BlockSize /\ DOMAIN q = 1 .. BlockSize
OBVIOUS

\* What send() takes goes to the end of what is on its way.
LEMMA SendKeeps ==
  ASSUME LoopbackIInv, Send
  PROVE  LoopbackIInv'
<1>1. /\ source \in [1 .. BlockSize -> Byte] /\ toDevice \in Seq(Byte)
      /\ back \in Seq(Byte) /\ serialIn \in Seq(Byte) /\ Held(ring, storage) \in Seq(Byte)
      /\ dataToWrite \in 0 .. BlockSize /\ readLeft \in 0 .. BlockSize
  BY DEF LoopbackIInv, TypeOK, ProgressOK
<1>2. Transit \in Seq(Byte) /\ Len(Transit) \in Nat
  BY TransitIsASeq DEF LoopbackIInv
<1>3. PICK dw \in 1 .. Least(dataToWrite, SocketSize - Len(toDevice)) :
        /\ toDevice' = toDevice \o SubSeq(source, BlockSize - dataToWrite + 1,
                                          BlockSize - dataToWrite + dw)
        /\ dataToWrite' = dataToWrite - dw
  BY DEF Send
<1>4. /\ UNCHANGED <<source, test, failed, main, told, readLeft, spoilt, rx>>
      /\ UNCHANGED <<started, link, ring, storage, back, serialIn>>
  BY DEF Send, TXLeaves, testVars, mainVars, deviceVars
<1> DEFINE w == SentBytes
           c == SubSeq(source, w + 1, w + dw)
<1>5. dw \in Nat /\ dw > 0 /\ dw <= dataToWrite
  <2>1. Len(toDevice) \in Nat
    BY <1>1, LenProperties
  <2>2. QED BY <1>1, <1>3, <2>1 DEF Least
<1>6. w \in Nat /\ w + dw <= BlockSize /\ SentBytes' = w + dw
  BY <1>1, <1>3, <1>5 DEF SentBytes
<1>7. /\ c \in Seq(Byte) /\ Len(c) = dw
      /\ \A i \in 1 .. dw : c[i] = source[w + i]
  <2>1. source \in Seq(Byte) /\ Len(source) = BlockSize
    BY <1>1, BlockIsASeq
  <2> HIDE DEF w
  <2>2. QED BY ONLY <1>5, <1>6, <2>1, Stretch
<1>8. toDevice' = toDevice \o c
  BY <1>3 DEF SentBytes
<1> HIDE DEF w, c
<1>9. Transit' = Transit \o c
  <2> DEFINE f == back \o Held(ring, storage) \o serialIn
  <2>1. f \in Seq(Byte)
    BY <1>1, ConcatProperties
  <2>2. (f \o toDevice) \o c = f \o (toDevice \o c)
    <3> HIDE DEF f
    <3>1. toDevice \in Seq(Byte)
      BY ONLY <1>1
    <3>2. QED BY ONLY <1>7, <2>1, <3>1, ConcatAssociative
  <2>3. QED BY <1>4, <1>8, <2>2 DEF Transit
<1>10. /\ Len(Transit \o c) = Len(Transit) + dw
       /\ \A i \in 1 .. Len(Transit) + dw :
            (Transit \o c)[i] = IF i <= Len(Transit) THEN Transit[i]
                                ELSE c[i - Len(Transit)]
  BY ONLY <1>2, <1>7, ConcatProperties
<1>11. ReadBytes' = ReadBytes /\ ReadBytes \in Nat
  BY <1>1, <1>4 DEF ReadBytes
<1>12. ASSUME spoilt = 0 PROVE Follows'
  <2>1. /\ Len(Transit) = w - ReadBytes
        /\ \A i \in 1 .. Len(Transit) : Transit[i] = source[ReadBytes + i]
    BY <1>12 DEF LoopbackIInv, Follows, w
  <2>2. Len(Transit') = SentBytes' - ReadBytes'
    BY <1>2, <1>5, <1>6, <1>9, <1>10, <1>11, <2>1
  <2>3. ASSUME NEW i \in 1 .. Len(Transit) + dw
        PROVE  (Transit \o c)[i] = source[ReadBytes + i]
    <3>1. CASE i <= Len(Transit)
      <4>1. i \in 1 .. Len(Transit)
        BY ONLY <1>2, <1>5, <3>1, i \in 1 .. Len(Transit) + dw
      <4>2. (Transit \o c)[i] = Transit[i]
        BY <1>10, <3>1
      <4>3. QED BY ONLY <2>1, <4>1, <4>2
    <3>2. CASE ~ i <= Len(Transit)
      <4>1. /\ i - Len(Transit) \in 1 .. dw
            /\ w + (i - Len(Transit)) = ReadBytes + i
        BY <1>2, <1>5, <1>6, <1>11, <2>1, <3>2
      <4>2. (Transit \o c)[i] = c[i - Len(Transit)]
        BY <1>10, <3>2
      <4>3. QED BY ONLY <1>7, <4>1, <4>2
    <3>3. QED BY <3>1, <3>2
  <2>4. QED BY <1>4, <1>9, <1>10, <1>11, <2>2, <2>3 DEF Follows
<1>13. /\ tx' \in {"loop", "done"} /\ (tx' # "done" => dataToWrite' > 0)
       /\ dataToWrite' \in 0 .. BlockSize
  <2>1. tx' = IF dataToWrite' > 0 THEN "loop" ELSE "done"
    BY DEF Send
  <2>2. dataToWrite' \in 0 .. BlockSize
    BY <1>1, <1>3, <1>5
  <2>3. QED BY ONLY <2>1, <2>2
<1>14. toDevice' \in Seq(Byte)
  <2>1. toDevice \in Seq(Byte)
    BY ONLY <1>1
  <2>2. QED BY ONLY <1>7, <1>8, <2>1, ConcatProperties
<1>15. Held(ring, storage)' = Held(ring, storage)
  BY <1>4
<1>16. ProgressOK'
  BY <1>4, <1>13, <1>15 DEF LoopbackIInv, ProgressOK
<1>17. TypeOK'
  BY <1>4, <1>13, <1>14 DEF LoopbackIInv, TypeOK
<1>18. ReadWell' <=> ReadWell
  BY <1>4, <1>11 DEF ReadWell
<1>19. ShownOK'
  BY <1>4, <1>18 DEF LoopbackIInv, ShownOK
<1>20. QED BY <1>4, <1>12, <1>16, <1>17, <1>19 DEF LoopbackIInv

\* A loop that ends because it was told to reads nothing more.
LEMMA StopReadingKeeps ==
  ASSUME LoopbackIInv, StopReading
  PROVE  LoopbackIInv'
<1>1. /\ UNCHANGED <<source, test, main, told, readLeft, dataToWrite, spoilt, tx>>
      /\ UNCHANGED <<started, link, ring, storage, back, serialIn, toDevice>>
      /\ rx' = "done" /\ "RX" \in told /\ rx \in {"first", "rest"}
      /\ failed' = (failed \/ (rx = "first" /\ test[1] # source[1]))
  BY DEF StopReading, RXLeaves, mainVars, deviceVars
<1>2. Transit' = Transit /\ Held(ring, storage)' = Held(ring, storage)
  BY <1>1, SameTransit DEF deviceVars
<1>3. failed' \in BOOLEAN
  BY <1>1
<1>4. ProgressOK'
  BY <1>1, <1>2 DEF LoopbackIInv, ProgressOK
<1>5. TypeOK'
  BY <1>1, <1>3 DEF LoopbackIInv, TypeOK
<1>6. ReadBytes' = ReadBytes /\ SentBytes' = SentBytes
  BY <1>1 DEF ReadBytes, SentBytes
<1>7. ReadWell' <=> ReadWell
  BY <1>1, <1>6 DEF ReadWell
<1>8. Follows' <=> Follows
  BY <1>1, <1>2, <1>6 DEF Follows
<1>9. ~ failed' => ~ failed
  BY <1>1
<1>10. ShownOK'
  BY <1>1, <1>7, <1>9 DEF LoopbackIInv, ShownOK
<1>11. QED BY <1>1, <1>4, <1>5, <1>8, <1>10 DEF LoopbackIInv

\* What is read comes off the front of what is on its way.
LEMMA TakeShortens ==
  ASSUME back \in Seq(Byte), Held(ring, storage) \in Seq(Byte), serialIn \in Seq(Byte),
         toDevice \in Seq(Byte), NEW n \in 1 .. Len(back),
         back' = SubSeq(back, n + 1, Len(back)),
         UNCHANGED <<deviceVars, toDevice>>
  PROVE  /\ back' \in Seq(Byte)
         /\ Len(Transit') = Len(Transit) - n /\ Len(Transit') \in Nat
         /\ \A i \in 1 .. n : back[i] = Transit[i]
         /\ \A i \in 1 .. Len(Transit') : Transit'[i] = Transit[n + i]
<1> DEFINE a == SubSeq(back, 1, n)
           r == Held(ring, storage) \o serialIn \o toDevice
<1>1. /\ a \in Seq(Byte) /\ Len(a) = n /\ n \in Nat
      /\ \A i \in 1 .. n : a[i] = back[i]
      /\ back' \in Seq(Byte) /\ a \o back' = back
  <2>1. n \in 0 .. Len(back)
    BY LenProperties
  <2>2. QED BY <2>1, Cut
<1>2. /\ Held(ring, storage) \o serialIn \in Seq(Byte) /\ r \in Seq(Byte)
  BY ConcatProperties
<1>3. \A x, y, z \in Seq(Byte) : (x \o y) \o z = x \o (y \o z)
  <2> TAKE x, y, z \in Seq(Byte)
  <2>1. QED BY ONLY x \in Seq(Byte), y \in Seq(Byte), z \in Seq(Byte), ConcatAssociative
<1>4. \A x \in Seq(Byte) : ((x \o Held(ring, storage)) \o serialIn) \o toDevice = x \o r
  <2> TAKE x \in Seq(Byte)
  <2> DEFINE h == Held(ring, storage)
  <2>1. h \in Seq(Byte)
    OBVIOUS
  <2> HIDE DEF h
  <2>2. x \o h \in Seq(Byte)
    BY <2>1, ConcatProperties
  <2>3. ((x \o h) \o serialIn) \o toDevice = (x \o h) \o (serialIn \o toDevice)
    BY <1>3, <2>2, Zenon
  <2>4. serialIn \o toDevice \in Seq(Byte)
    BY ConcatProperties
  <2>5. (x \o h) \o (serialIn \o toDevice) = x \o (h \o (serialIn \o toDevice))
    <3> DEFINE s == serialIn \o toDevice
    <3> HIDE DEF s
    <3>1. s \in Seq(Byte)
      BY <2>4 DEF s
    <3>2. (x \o h) \o s = x \o (h \o s)
      BY ONLY x \in Seq(Byte), <1>3, <2>1, <3>1, Zenon
    <3>3. QED BY ONLY <3>2 DEF s
  <2>6. (h \o serialIn) \o toDevice = h \o (serialIn \o toDevice)
    BY <1>3, <2>1, Zenon
  <2>7. QED BY ONLY <2>3, <2>5, <2>6 DEF h
<1>5. Transit = back \o r /\ Transit' = back' \o r
  <2>1. Transit = back \o r
    BY ONLY <1>4, back \in Seq(Byte) DEF Transit
  <2>2. Transit' = ((back' \o Held(ring, storage)) \o serialIn) \o toDevice
    BY DEF Transit, deviceVars
  <2>3. ((back' \o Held(ring, storage)) \o serialIn) \o toDevice = back' \o r
    <3> HIDE DEF r
    <3>1. QED BY ONLY <1>1, <1>4, Zenon
  <2>4. QED BY ONLY <2>1, <2>2, <2>3
<1> HIDE DEF a, r
<1>6. Transit = a \o Transit' /\ Transit' \in Seq(Byte)
  <2>1. (a \o back') \o r = a \o (back' \o r)
    BY ONLY <1>1, <1>2, <1>3, Zenon
  <2>2. back' \o r \in Seq(Byte)
    BY ONLY <1>1, <1>2, ConcatProperties
  <2>3. QED BY ONLY <1>1, <1>5, <2>1, <2>2
<1>7. /\ Len(Transit) = n + Len(Transit') /\ Len(Transit') \in Nat
      /\ \A i \in 1 .. n + Len(Transit') :
           Transit[i] = IF i <= n THEN a[i] ELSE Transit'[i - n]
  <2> DEFINE u == Transit'
  <2>1. u \in Seq(Byte) /\ Transit = a \o u
    BY <1>6
  <2> HIDE DEF u
  <2>2. /\ Len(a \o u) = Len(a) + Len(u) /\ Len(u) \in Nat
        /\ \A i \in 1 .. Len(a) + Len(u) :
             (a \o u)[i] = IF i <= Len(a) THEN a[i] ELSE u[i - Len(a)]
    BY ONLY <1>1, <2>1, ConcatProperties, LenProperties
  <2>3. QED BY ONLY <1>1, <2>1, <2>2 DEF u
<1>8. ASSUME NEW i \in 1 .. n PROVE back[i] = Transit[i]
  <2>1. i \in 1 .. n + Len(Transit') /\ i <= n
    BY ONLY <1>1, <1>7, i \in 1 .. n
  <2>2. QED BY ONLY <1>1, <1>7, <2>1, i \in 1 .. n
<1>9. ASSUME NEW i \in 1 .. Len(Transit') PROVE Transit'[i] = Transit[n + i]
  <2>1. /\ n + i \in 1 .. n + Len(Transit') /\ ~ n + i <= n /\ (n + i) - n = i
    BY ONLY <1>1, <1>7, i \in 1 .. Len(Transit')
  <2>2. Transit[n + i] = Transit'[(n + i) - n]
    BY ONLY <1>7, <2>1
  <2>3. QED BY ONLY <2>1, <2>2
<1>10. Len(Transit') = Len(Transit) - n
  BY ONLY <1>1, <1>7
<1>11. QED BY ONLY <1>1, <1>7, <1>8, <1>9, <1>10

\* Bytes that are read: they are what was sent, or something was spoilt and
\* the comparison shows it.
LEMMA TakeKeeps ==
  ASSUME LoopbackIInv, NEW n \in 1 .. readLeft, n <= Len(back), Take(n),
         UNCHANGED <<source, told, main, dataToWrite, spoilt, tx, started, link>>,
         UNCHANGED <<deviceVars, toDevice>>, rx # "done", rx' \in {"rest", "done"}
  PROVE  LoopbackIInv'
<1> DEFINE r == ReadBytes
<1>1. /\ back \in Seq(Byte) /\ serialIn \in Seq(Byte) /\ toDevice \in Seq(Byte)
      /\ Held(ring, storage) \in Seq(Byte) /\ source \in [1 .. BlockSize -> Byte]
      /\ test \in [1 .. BlockSize -> Byte] /\ failed \in BOOLEAN /\ spoilt \in Nat
      /\ readLeft \in 0 .. BlockSize /\ dataToWrite \in 0 .. BlockSize
  BY DEF LoopbackIInv, TypeOK, ProgressOK
<1>2. Transit \in Seq(Byte) /\ Len(Transit) \in Nat
  BY TransitIsASeq DEF LoopbackIInv
<1>3. /\ readLeft' = readLeft - n /\ back' = SubSeq(back, n + 1, Len(back))
      /\ test' = [i \in 1 .. BlockSize |-> IF i \in r + 1 .. r + n THEN back[i - r] ELSE test[i]]
      /\ failed' = (failed \/ Validate(test', r, n))
  BY DEF Take, ReadBytes
<1>4. /\ n \in Nat /\ n > 0 /\ r \in Nat /\ r + n <= BlockSize /\ ReadBytes' = r + n
      /\ readLeft' \in 0 .. BlockSize
  BY <1>1, <1>3 DEF ReadBytes
<1>5. n \in 1 .. Len(back) /\ Len(back) \in Nat
  BY <1>1, <1>4, LenProperties
<1> HIDE DEF r
<1>6. /\ back' \in Seq(Byte)
      /\ Len(Transit') = Len(Transit) - n /\ Len(Transit') \in Nat
      /\ \A i \in 1 .. n : back[i] = Transit[i]
      /\ \A i \in 1 .. Len(Transit') : Transit'[i] = Transit[n + i]
  BY <1>1, <1>3, <1>5, TakeShortens
<1>7. SentBytes' = SentBytes /\ SentBytes \in Nat
  BY <1>1 DEF SentBytes
<1>8. /\ test' \in [1 .. BlockSize -> Byte]
      /\ \A i \in 1 .. r : test'[i] = test[i]
      /\ \A i \in r + 1 .. r + n : test'[i] = back[i - r]
  <2>1. ASSUME NEW i \in r + 1 .. r + n PROVE i \in 1 .. BlockSize /\ back[i - r] \in Byte
    <3>1. i \in 1 .. BlockSize /\ i - r \in 1 .. Len(back)
      BY ONLY <1>4, <1>5, i \in r + 1 .. r + n, LoopbackAssumption
    <3>2. QED BY <1>1, <3>1, ElementOfSeq
  <2>2. \A i \in 1 .. r : i \in 1 .. BlockSize /\ i \notin r + 1 .. r + n
    BY <1>4
  <2>3. QED BY <1>1, <1>3, <2>1, <2>2
<1>9. ASSUME spoilt = 0
      PROVE  /\ Len(Transit) = SentBytes - r
             /\ \A i \in 1 .. Len(Transit) : Transit[i] = source[r + i]
  BY <1>9 DEF LoopbackIInv, Follows, r
<1>10. ASSUME spoilt = 0 PROVE Follows'
  <2>1. Len(Transit') = SentBytes' - ReadBytes'
    BY ONLY <1>2, <1>4, <1>6, <1>7, <1>9, <1>10
  <2>2. ASSUME NEW i \in 1 .. Len(Transit') PROVE Transit'[i] = source[(r + n) + i]
    <3>1. n + i \in 1 .. Len(Transit) /\ r + (n + i) = (r + n) + i
      BY ONLY <1>2, <1>4, <1>6, i \in 1 .. Len(Transit')
    <3>2. Transit'[i] = Transit[n + i]
      BY ONLY <1>6, i \in 1 .. Len(Transit')
    <3>3. Transit[n + i] = source[r + (n + i)]
      BY ONLY <1>9, <1>10, <3>1
    <3>4. QED BY ONLY <3>1, <3>2, <3>3
  <2>3. source' = source
    OBVIOUS
  <2>4. QED BY ONLY <1>4, <2>1, <2>2, <2>3 DEF Follows
<1>11. ASSUME spoilt = 0, NEW i \in r + 1 .. r + n PROVE test'[i] = source[i]
  <2>1. i - r \in 1 .. n /\ i - r \in 1 .. Len(Transit) /\ r + (i - r) = i
    BY ONLY <1>2, <1>4, <1>6, i \in r + 1 .. r + n
  <2>2. test'[i] = back[i - r]
    BY ONLY <1>8, i \in r + 1 .. r + n
  <2>3. back[i - r] = Transit[i - r]
    BY ONLY <1>6, <2>1
  <2>4. Transit[i - r] = source[r + (i - r)]
    BY ONLY <1>9, <1>11, <2>1
  <2>5. QED BY ONLY <2>1, <2>2, <2>3, <2>4
<1>12. spoilt = 0 => ~ Validate(test', r, n)
  BY ONLY <1>11 DEF Validate
<1>13. ASSUME ~ failed' \/ spoilt = 0 PROVE ReadWell'
  <2>1. ReadWell
    BY <1>3, <1>13 DEF LoopbackIInv, ShownOK
  <2>2. ASSUME NEW i \in 1 .. r + n PROVE test'[i] = source[i]
    <3>1. CASE i \in 1 .. r
      BY ONLY <1>8, <2>1, <3>1 DEF ReadWell, r
    <3>2. CASE i \in r + 1 .. r + n
      <4>1. ~ Validate(test', r, n)
        BY <1>3, <1>12, <1>13
      <4>2. QED BY ONLY <3>2, <4>1 DEF Validate
    <3>3. i \in 1 .. r \/ i \in r + 1 .. r + n
      BY ONLY <1>4, i \in 1 .. r + n
    <3>4. QED BY ONLY <3>1, <3>2, <3>3
  <2>3. source' = source
    OBVIOUS
  <2>4. QED BY ONLY <1>4, <2>2, <2>3 DEF ReadWell
<1>14. ASSUME failed' PROVE spoilt > 0
  <2>1. CASE spoilt = 0
    <3>1. failed
      BY <1>3, <1>12, <1>14, <2>1
    <3>2. QED BY <2>1, <3>1 DEF LoopbackIInv, ShownOK
  <2>2. CASE spoilt # 0
    BY <1>1, <2>2
  <2>3. QED BY <2>1, <2>2
<1>15. ShownOK'
  BY <1>13, <1>14 DEF ShownOK
<1>16. failed' \in BOOLEAN
  BY <1>3
<1>17. ring' = ring /\ storage' = storage /\ serialIn' = serialIn
  BY DEF deviceVars
<1>18. ProgressOK'
  BY <1>17 DEF LoopbackIInv, ProgressOK
<1>19. TypeOK'
  BY <1>4, <1>6, <1>8, <1>16, <1>17 DEF LoopbackIInv, TypeOK
<1>20. spoilt' = spoilt
  OBVIOUS
<1>21. QED BY <1>10, <1>15, <1>18, <1>19, <1>20 DEF LoopbackIInv

LEMMA ReadKeeps ==
  ASSUME LoopbackIInv, ReadFirst \/ ReadRest
  PROVE  LoopbackIInv'
<1>1. /\ readLeft \in 0 .. BlockSize /\ back \in Seq(Byte) /\ back # <<>>
  BY DEF LoopbackIInv, TypeOK, ReadFirst, ReadRest, Readable
<1>2. Len(back) \in Nat /\ Len(back) > 0
  BY <1>1, LenProperties
<1>3. /\ UNCHANGED <<source, told, main, dataToWrite, spoilt, tx, started, link>>
      /\ UNCHANGED <<deviceVars, toDevice>>
  BY DEF ReadFirst, ReadRest, RXLeaves, mainVars
<1>4. rx # "done" /\ rx' \in {"rest", "done"}
  BY DEF ReadFirst, ReadRest
<1>5. \E n \in 1 .. readLeft : n <= Len(back) /\ Take(n)
  <2>1. CASE ReadFirst
    <3>1. 1 \in 1 .. readLeft /\ 1 <= Len(back)
      BY <1>1, <1>2, <2>1 DEF ReadFirst, LoopbackIInv, ProgressOK
    <3>2. Take(1)
      BY <2>1 DEF ReadFirst
    <3>3. QED BY ONLY <3>1, <3>2
  <2>2. CASE ReadRest
    <3>1. PICK dr \in 1 .. Least(readLeft, Len(back)) : Take(dr)
      BY <2>2 DEF ReadRest
    <3>2. dr \in 1 .. readLeft /\ dr <= Len(back)
      BY <1>1, <1>2 DEF Least
    <3>3. QED BY ONLY <3>1, <3>2
  <2>3. QED BY <2>1, <2>2
<1>6. QED BY <1>3, <1>4, <1>5, TakeKeeps
-----------------------------------------------------------------------------
(* The theorems.                                                           *)

LEMMA LoopbackStep ==
  ASSUME LoopbackIInv, [Next]_vars
  PROVE  LoopbackIInv'
<1>1. CASE TX
  BY <1>1, TXKeeps, SendKeeps DEF TX
<1>2. CASE RX \/ WakeSpuriously
  BY <1>2, RXKeeps, StopReadingKeeps, ReadKeeps DEF RX
<1>3. CASE RequestShutdown \/ Shutdown \/ PeerLeaves
  BY <1>3, MainKeeps
<1>4. CASE Arrive
  BY <1>4, ArriveKeeps
<1>5. CASE Spoil
  BY <1>5, SpoilKeeps
<1>6. CASE Board
  BY <1>6, BoardKeeps DEF Board
<1>7. CASE UNCHANGED vars
  <2>1. /\ UNCHANGED <<source, test, failed, main, told, readLeft, dataToWrite, spoilt, tx, rx>>
        /\ UNCHANGED <<started, link, serialIn, ring, storage, back, toDevice>>
    BY <1>7 DEF vars, testVars, mainVars, deviceVars
  <2>2. Transit' = Transit /\ Held(ring, storage)' = Held(ring, storage)
    BY <2>1, SameTransit DEF deviceVars
  <2>3. ProgressOK'
    BY <2>1, <2>2 DEF LoopbackIInv, ProgressOK
  <2>4. TypeOK'
    BY <2>1 DEF LoopbackIInv, TypeOK
  <2>5. QED BY <2>1, <2>2, <2>3, <2>4, AsideKeeps
<1>8. QED BY <1>1, <1>2, <1>3, <1>4, <1>5, <1>6, <1>7 DEF Next

LEMMA LoopbackInductive ==
  Spec => []LoopbackIInv
<1>1. Init => LoopbackIInv
  BY InitFollows
<1>2. LoopbackIInv /\ [Next]_vars => LoopbackIInv'
  BY LoopbackStep
<1>3. QED BY <1>1, <1>2, PTL DEF Spec

\* Every variable of test, board and line keeps its type: in particular the
\* serial buffer never holds more than it has room for, and no thread sends
\* before the test has started.
THEOREM TypeCorrect == Spec => []TypeOK
<1>1. LoopbackIInv => TypeOK
  BY DEF LoopbackIInv
<1>2. QED BY <1>1, LoopbackInductive, PTL

\* What was read and what is on its way make what was sent.
LEMMA InvariantIsFaithful ==
  ASSUME LoopbackIInv
  PROVE  EchoIsFaithful
<1> SUFFICES ASSUME spoilt = 0
             PROVE  SubSeq(test, 1, ReadBytes) \o back \o Held(ring, storage)
                      \o serialIn \o toDevice = SubSeq(source, 1, SentBytes)
  BY DEF EchoIsFaithful, ReadBytes, SentBytes
<1> DEFINE r == ReadBytes  w == SentBytes
           a == SubSeq(test, 1, r)  b == SubSeq(source, 1, w)
<1>1. /\ back \in Seq(Byte) /\ serialIn \in Seq(Byte) /\ toDevice \in Seq(Byte)
      /\ Held(ring, storage) \in Seq(Byte) /\ source \in [1 .. BlockSize -> Byte]
      /\ test \in [1 .. BlockSize -> Byte]
      /\ readLeft \in 0 .. BlockSize /\ dataToWrite \in 0 .. BlockSize
  BY DEF LoopbackIInv, TypeOK, ProgressOK
<1>2. Transit \in Seq(Byte) /\ Len(Transit) \in Nat
  BY TransitIsASeq DEF LoopbackIInv
<1>3. /\ test \in Seq(Byte) /\ Len(test) = BlockSize
      /\ source \in Seq(Byte) /\ Len(source) = BlockSize
  BY <1>1, BlockIsASeq
<1>4. r \in 0 .. Len(test) /\ w \in 0 .. Len(source)
  BY <1>1, <1>3 DEF ReadBytes, SentBytes
<1>5. /\ ReadWell /\ Len(Transit) = w - r
      /\ \A i \in 1 .. Len(Transit) : Transit[i] = source[r + i]
  BY DEF LoopbackIInv, ShownOK, Follows
<1> HIDE DEF r, w
<1>6. /\ a \in Seq(Byte) /\ Len(a) = r /\ \A i \in 1 .. r : a[i] = test[i]
  BY ONLY <1>3, <1>4, Cut
<1>7. /\ b \in Seq(Byte) /\ Len(b) = w /\ \A i \in 1 .. w : b[i] = source[i]
  BY ONLY <1>3, <1>4, Cut
<1> HIDE DEF a, b
<1>8. /\ a \o Transit \in Seq(Byte) /\ Len(a \o Transit) = r + Len(Transit)
      /\ \A i \in 1 .. r + Len(Transit) :
           (a \o Transit)[i] = IF i <= r THEN a[i] ELSE Transit[i - r]
  BY ONLY <1>2, <1>6, ConcatProperties
<1>9. r \in Nat /\ w \in Nat /\ r + Len(Transit) = w
  BY ONLY <1>2, <1>3, <1>4, <1>5, LoopbackAssumption
<1>10. ASSUME NEW i \in 1 .. w PROVE (a \o Transit)[i] = b[i]
  <2>1. CASE i <= r
    <3>1. i \in 1 .. r
      BY ONLY <1>9, <2>1, i \in 1 .. w
    <3>2. test[i] = source[i]
      BY ONLY <1>5, <3>1 DEF ReadWell, r
    <3>3. (a \o Transit)[i] = a[i]
      BY ONLY <1>8, <1>9, <2>1, i \in 1 .. w
    <3>4. QED BY ONLY <1>6, <1>7, <3>1, <3>2, <3>3, i \in 1 .. w
  <2>2. CASE ~ i <= r
    <3>1. i - r \in 1 .. Len(Transit) /\ r + (i - r) = i
      BY ONLY <1>2, <1>9, <2>2, i \in 1 .. w
    <3>2. (a \o Transit)[i] = Transit[i - r]
      BY ONLY <1>8, <1>9, <2>2, i \in 1 .. w
    <3>3. Transit[i - r] = source[r + (i - r)]
      BY ONLY <1>5, <3>1
    <3>4. QED BY ONLY <1>7, <3>1, <3>2, <3>3, i \in 1 .. w
  <2>3. QED BY <2>1, <2>2
<1>11. a \o Transit = b
  BY ONLY <1>7, <1>8, <1>9, <1>10, SeqEqual
<1>12. (((a \o back) \o Held(ring, storage)) \o serialIn) \o toDevice = a \o Transit
  <2> DEFINE h == Held(ring, storage)
  <2>1. /\ h \in Seq(Byte) /\ back \in Seq(Byte) /\ serialIn \in Seq(Byte)
        /\ toDevice \in Seq(Byte)
    BY ONLY <1>1
  <2> HIDE DEF h
  <2>2. \A x, y \in Seq(Byte) : x \o y \in Seq(Byte)
    BY ConcatProperties
  <2>3. \A x, y, z \in Seq(Byte) : (x \o y) \o z = x \o (y \o z)
    <3> TAKE x, y, z \in Seq(Byte)
    <3>1. QED BY ONLY x \in Seq(Byte), y \in Seq(Byte), z \in Seq(Byte), ConcatAssociative
  <2>4. back \o h \in Seq(Byte)
    BY ONLY <2>1, <2>2, Zenon
  <2>5. (back \o h) \o serialIn \in Seq(Byte)
    BY ONLY <2>1, <2>2, <2>4, Zenon
  <2>6. (a \o back) \o h = a \o (back \o h)
    BY ONLY <1>6, <2>1, <2>3, Zenon
  <2>7. (a \o (back \o h)) \o serialIn = a \o ((back \o h) \o serialIn)
    BY ONLY <1>6, <2>1, <2>3, <2>4, Zenon
  <2>8. (a \o ((back \o h) \o serialIn)) \o toDevice
          = a \o (((back \o h) \o serialIn) \o toDevice)
    BY ONLY <1>6, <2>1, <2>3, <2>5, Zenon
  <2>9. QED BY ONLY <2>6, <2>7, <2>8 DEF Transit, h
<1>13. QED BY ONLY <1>11, <1>12 DEF a, b, r, w

\* On a line that spoils nothing, what came back and what is on its way are,
\* in order, what was sent, in whatever parts send(), the serial buffers, the
\* ring and recv() cut it.
THEOREM EchoIsAlwaysFaithful == Spec => []EchoIsFaithful
<1>1. LoopbackIInv => EchoIsFaithful
  BY InvariantIsFaithful
<1>2. QED BY <1>1, LoopbackInductive, PTL

\* A test that has read the whole block and shows no error has got the block,
\* and one that shows an error was spoilt or broken off.
THEOREM VerdictIsAlwaysRight == Spec => []VerdictIsRight
<1>1. ASSUME LoopbackIInv PROVE VerdictIsRight
  <2>1. ASSUME readLeft = 0, ~ failed PROVE test = source
    <3>1. ReadBytes = BlockSize /\ ReadWell
      BY <1>1, <2>1 DEF LoopbackIInv, ShownOK, ReadBytes
    <3>2. /\ test \in [1 .. BlockSize -> Byte] /\ source \in [1 .. BlockSize -> Byte]
      BY <1>1 DEF LoopbackIInv, TypeOK, ProgressOK
    <3>3. QED BY <3>1, <3>2 DEF ReadWell
  <2>2. QED BY <1>1, <2>1 DEF VerdictIsRight, LoopbackIInv, ShownOK
<1>2. QED BY <1>1, LoopbackInductive, PTL
=============================================================================
