---------------------------- MODULE UDPProofs -----------------------------
(***************************************************************************)
(* Theorems about UDP on both sides.                                       *)
(*                                                                         *)
(* UDPTransport, the client's sockets: its types, and that no socket is    *)
(* forgotten open, for any number of ports announced and connections made. *)
(*                                                                         *)
(* UdpSequence, the numbers of the packages, for every width of the        *)
(* numbers, every start of both ends and any number of packages.           *)
(* FilterIsExact is not inductive: it says nothing of the packages still   *)
(* to be sent, nor what the number of a package becomes relative to a      *)
(* receiver that moves on.  NumberingIInv says it of all of them: a number *)
(* is the receiver's number plus the distance to the newest package,       *)
(* around the circle, and all distances stay within half of it.            *)
(*                                                                         *)
(* UdpUplink, the way of a port's data up to the firmware.  No package is  *)
(* taken for another: one damaged byte shows in the checksum whatever      *)
(* follows it (OneByteShows, by induction), so what gets through is what   *)
(* was sealed.  The firmware is not deaf for long: UplinkIInv takes the    *)
(* packages under way as one line (Stream) and says how far the next one   *)
(* is from the numbers the filter takes (Zone).  And the buffer is used as *)
(* in RingBuffer, whose theorems then hold of it.                          *)
(***************************************************************************)
EXTENDS UDPTransport, UdpSequence, UdpUplink, RingBufferProofs, WellFoundedInduction

Places == {"idle", "loop", "get", "create", "use", "dispose", "exchange", "end", "done"}

\* Thread t is in GetConnection and holds the lock.
Renewing(t) == lock = t /\ t \in Users /\ ~ (t = "worker" /\ left)

\* A thread that disposes of a connection or uses one has one.
HasConnection ==
  \A t \in Threads : at[t] \in {"use", "dispose", "exchange"} => conn[t] # None

\* Who makes a connection holds the lock, and it does so only when the connection
\* there was is disposed of, which cannot be undone.
OldOneIsGone ==
  \A t \in Threads :
    /\ at[t] = "create" => /\ Renewing(t)
                           /\ remoteConn = None \/ remoteConn \in disposed
    /\ Renewing(t) /\ at[t] \in {"dispose", "exchange"} => remoteConn \in disposed

\* The worker disposes of the last connection after its loop, and then makes none.
EndIsLeft ==
  /\ at["worker"] = "end" => left
  /\ left => at["worker"] \in {"end", "dispose", "exchange", "done"}

UDPIInv == UDPTypeOK /\ HasConnection /\ OldOneIsGone /\ EndIsLeft /\ NoSocketLeaks
-----------------------------------------------------------------------------
LEMMA ThreadFacts ==
  /\ Users \subseteq Threads /\ {"tcp", "main"} \subseteq Threads
  /\ "worker" \in Users /\ "timer" \in Users /\ "tcp" \notin Users /\ "main" \notin Users
  /\ Nobody \notin Threads /\ None = 0
BY DEF Users, Threads, Nobody, None

LEMMA InitInv == UDPInit => UDPIInv
<1> SUFFICES ASSUME UDPInit PROVE UDPIInv
  OBVIOUS
<1> USE TransportAssumption, ThreadFacts DEF UDPInit
<1>1. UDPTypeOK
  <2>1. at \in [Threads -> Places]
    BY DEF Places
  <2>2. 0 \in 0 .. MaxPorts /\ 0 \in 0 .. MaxConns /\ 0 \in 0 .. 0 /\ 0 \in 0 .. 2
    OBVIOUS
  <2>3. QED BY <2>1, <2>2 DEF UDPTypeOK, Places
<1>2. HasConnection
  BY DEF HasConnection
<1>3. OldOneIsGone
  BY DEF OldOneIsGone, Renewing
<1>4. EndIsLeft /\ NoSocketLeaks
  BY DEF EndIsLeft, NoSocketLeaks
<1>5. QED BY <1>1, <1>2, <1>3, <1>4 DEF UDPIInv

\* The steps in which a thread finds, makes or gives up a connection.
LEMMA GetInv ==
  ASSUME UDPIInv, NEW t \in Users, GetConnection(t) \/ Create(t) \/ CreateFails(t)
  PROVE  UDPIInv'
<1> USE ThreadFacts DEF UDPIInv, UDPTypeOK, HasConnection, OldOneIsGone, EndIsLeft, NoSocketLeaks, Conns,
            Renewing, Go, Release, Rest, connVars, stopVars, Unlocked
<1>1. CASE GetConnection(t)
  <2>1. at' \in [Threads -> Places]
    BY <1>1 DEF GetConnection, Places
  <2>2. conn' \in [Threads -> 0 .. conns'] /\ expected' \in [Threads -> BOOLEAN]
    BY <1>1 DEF GetConnection
  <2>3. lock' # Nobody => at'[lock'] \in {"dispose", "exchange", "create"}
    BY <1>1 DEF GetConnection
  <2>4. UDPTypeOK'
    BY <1>1, <2>1, <2>2, <2>3 DEF GetConnection, Places
  <2>5. HasConnection'
    BY <1>1 DEF GetConnection
  <2>6. OldOneIsGone'
    BY <1>1 DEF GetConnection
  <2>7. EndIsLeft' /\ NoSocketLeaks'
    BY <1>1 DEF GetConnection
  <2>8. QED BY <2>4, <2>5, <2>6, <2>7
<1>2. CASE Create(t)
  <2>1. conns + 1 \in 1 .. conns' /\ conns' \in 0 .. MaxConns
    BY <1>2, TransportAssumption DEF Create
  <2>2. UDPTypeOK'
    BY <1>2, <2>1 DEF Create
  <2>3. HasConnection'
    BY <1>2, <2>1 DEF Create
  <2>4. OldOneIsGone'
    BY <1>2 DEF Create
  <2>5. EndIsLeft' /\ NoSocketLeaks'
    BY <1>2 DEF Create
  <2>6. QED BY <2>2, <2>3, <2>4, <2>5
<1>3. CASE CreateFails(t)
  BY <1>3 DEF CreateFails
<1>4. QED BY <1>1, <1>2, <1>3

\* The steps of Dispose.
LEMMA DisposeInv ==
  ASSUME UDPIInv, NEW t \in Threads, ReadFalseVal(t) \/ Exchange(t)
  PROVE  UDPIInv'
<1> USE ThreadFacts DEF UDPIInv, UDPTypeOK, HasConnection, OldOneIsGone, EndIsLeft, NoSocketLeaks, Conns,
            Renewing, Go, Release, Rest, connVars, stopVars
<1>1. CASE ReadFalseVal(t)
  BY <1>1 DEF ReadFalseVal
<1>2. CASE Exchange(t)
  <2>1. conn[t] \in 1 .. conns
    BY <1>2 DEF Exchange
  <2>2. UDPTypeOK'
    <3>1. \/ falseVal' = falseVal
          \/ falseVal' = (conn[t] \in disposed)
      BY <1>2, Zenon DEF Exchange
    <3>2. /\ conn' = [conn EXCEPT ![t] = None] /\ expected' = [expected EXCEPT ![t] = FALSE]
          /\ UNCHANGED <<udpPort, remoteConn, conns, shutdownPending, shutdowns, left>>
      <4>1. CASE Renewing(t)
        BY <1>2, <4>1 DEF Exchange
      <4>2. CASE ~ Renewing(t)
        BY <1>2, <4>2 DEF Exchange
      <4>3. QED BY <4>1, <4>2
    <3>3. disposed' \subseteq 1 .. conns /\ broken' \subseteq (1 .. conns) \ disposed'
      BY <1>2, <2>1, ZenonT(60) DEF Exchange
    <3>4. falseVal' \in BOOLEAN
      <4>1. CASE falseVal' = falseVal
        BY <4>1
      <4>2. CASE falseVal' = (conn[t] \in disposed)
        <5>1. (conn[t] \in disposed) \in BOOLEAN
          OBVIOUS
        <5>2. QED BY <4>2, <5>1, Zenon
      <4>3. QED BY <3>1, <4>1, <4>2
    <3>5. PICK place \in Places : at' = [at EXCEPT ![t] = place]
      <4>1. CASE Renewing(t)
        BY <1>2, <4>1 DEF Exchange, Places
      <4>2. CASE ~ Renewing(t)
        BY <1>2, <4>2 DEF Exchange, Places
      <4>3. QED BY <4>1, <4>2
    <3>6. /\ lock' \in {Nobody} \cup Threads
          /\ \/ lock' = Nobody
             \/ lock' = lock /\ (lock = t => at'[t] = "create")
      <4>1. CASE Renewing(t)
        BY <1>2, <4>1 DEF Exchange
      <4>2. CASE ~ Renewing(t)
        BY <1>2, <4>2 DEF Exchange
      <4>3. QED BY <4>1, <4>2
    <3>7. lock' # Nobody => at'[lock'] \in {"dispose", "exchange", "create"}
      BY <3>5, <3>6
    <3>8. at' \in [Threads -> Places]
      BY <3>5 DEF Places
    <3>9. conn' \in [Threads -> 0 .. conns'] /\ expected' \in [Threads -> BOOLEAN]
      BY <3>2
    <3>10. /\ udpPort' \in 0 .. MaxPorts /\ conns' \in 0 .. MaxConns /\ remoteConn' \in 0 .. conns'
           /\ disposed' \subseteq 1 .. conns' /\ broken' \subseteq (1 .. conns') \ disposed'
           /\ shutdownPending' \in BOOLEAN /\ shutdowns' \in 0 .. 2 /\ left' \in BOOLEAN
      BY <3>2, <3>3
    <3>11. QED BY <3>4, <3>6, <3>7, <3>8, <3>9, <3>10 DEF Places
  <2>3. HasConnection'
    BY <1>2 DEF Exchange
  <2>4. OldOneIsGone'
    BY <1>2 DEF Exchange
  <2>5. EndIsLeft' /\ NoSocketLeaks'
    BY <1>2 DEF Exchange
  <2>6. QED BY <2>2, <2>3, <2>4, <2>5
<1>3. QED BY <1>1, <1>2

\* The steps of one thread only, and those of the network.
LEMMA OtherInv ==
  ASSUME UDPIInv,
         \/ \E t \in Users : Use(t) \/ Fail(t)
         \/ Loop \/ LastDispose \/ TimerEnds \/ OnConnected \/ OnShutdown \/ DisposeAtShutdown
         \/ \E c \in Conns : Break(c)
  PROVE  UDPIInv'
<1> USE ThreadFacts DEF UDPIInv, UDPTypeOK, HasConnection, OldOneIsGone, EndIsLeft, NoSocketLeaks, Conns,
            Renewing, Go, Release, Rest, connVars, threadVars, stopVars, Unlocked
<1>1. ASSUME NEW t \in Users, Use(t) \/ Fail(t) PROVE UDPIInv'
  <2>1. PICK place \in Places : place # "end" /\ place # "create" /\ place # "use"
                               /\ place # "exchange" /\ at' = [at EXCEPT ![t] = place]
                               /\ (place = "dispose" => conn' = conn)
    <3>1. CASE Use(t)
      BY <1>1, <3>1 DEF Use, Places
    <3>2. CASE Fail(t)
      BY <1>1, <3>2 DEF Fail, Places
    <3>3. QED BY <1>1, <3>1, <3>2
  <2>2. conn' \in [Threads -> 0 .. conns'] /\ expected' \in [Threads -> BOOLEAN]
    <3>1. CASE Use(t)
      BY <1>1, <3>1 DEF Use
    <3>2. CASE Fail(t)
      BY <1>1, <3>2 DEF Fail
    <3>3. QED BY <1>1, <3>1, <3>2
  <2>3. at[t] = "use" /\ t \in Threads
    BY <1>1 DEF Use, Fail
  <2>4. UNCHANGED <<udpPort, lock, remoteConn, conns, disposed, falseVal, broken, stopVars>>
    BY <1>1 DEF Use, Fail
  <2>5. \A u \in Threads : u # t => at'[u] = at[u] /\ conn'[u] = conn[u]
    BY <1>1 DEF Use, Fail
  <2>6. lock # t
    BY <2>3
  <2>7. at' \in [Threads -> Places]
    BY <2>1 DEF Places
  <2>8. lock' # Nobody => at'[lock'] \in {"dispose", "exchange", "create"}
    BY <2>4, <2>5, <2>6
  <2>9. UDPTypeOK'
    BY <2>2, <2>4, <2>7, <2>8 DEF Places
  <2>10. HasConnection'
    BY <2>1, <2>3, <2>5
  <2>11. OldOneIsGone'
    BY <2>1, <2>3, <2>4, <2>5, <2>6
  <2>12. EndIsLeft' /\ NoSocketLeaks'
    BY <2>1, <2>3, <2>4, <2>5
  <2>13. QED BY <2>9, <2>10, <2>11, <2>12
<1>2. CASE Loop
  BY <1>2 DEF Loop
<1>3. CASE LastDispose
  <2>1. at' \in [Threads -> Places]
    BY <1>3 DEF LastDispose, Places
  <2>2. conn' \in [Threads -> 0 .. conns'] /\ expected' \in [Threads -> BOOLEAN]
    BY <1>3 DEF LastDispose
  <2>3. lock' # Nobody => at'[lock'] \in {"dispose", "exchange", "create"}
    BY <1>3 DEF LastDispose
  <2>4. UDPTypeOK'
    BY <1>3, <2>1, <2>2, <2>3 DEF LastDispose, Places
  <2>5. HasConnection'
    BY <1>3 DEF LastDispose
  <2>6. OldOneIsGone'
    BY <1>3 DEF LastDispose
  <2>7. EndIsLeft' /\ NoSocketLeaks'
    BY <1>3 DEF LastDispose
  <2>8. QED BY <2>4, <2>5, <2>6, <2>7
<1>4. CASE TimerEnds
  BY <1>4 DEF TimerEnds
<1>5. CASE OnConnected
  BY <1>5, TransportAssumption DEF OnConnected
<1>6. CASE OnShutdown
  BY <1>6 DEF OnShutdown
<1>7. CASE DisposeAtShutdown
  BY <1>7 DEF DisposeAtShutdown
<1>8. ASSUME NEW c \in Conns, Break(c) PROVE UDPIInv'
  BY <1>8 DEF Break
<1>9. QED BY <1>1, <1>2, <1>3, <1>4, <1>5, <1>6, <1>7, <1>8

LEMMA NextInv == UDPIInv /\ [UDPNext]_udpVars => UDPIInv'
<1> SUFFICES ASSUME UDPIInv, [UDPNext]_udpVars PROVE UDPIInv'
  OBVIOUS
<1>1. CASE UNCHANGED udpVars
  BY <1>1 DEF UDPIInv, UDPTypeOK, HasConnection, OldOneIsGone, EndIsLeft, NoSocketLeaks, Renewing, udpVars, connVars,
     threadVars, stopVars
<1>2. ASSUME NEW t \in Users, UserStep(t) PROVE UDPIInv'
  BY <1>2, GetInv, DisposeInv, OtherInv DEF UserStep, Threads
<1>3. CASE Tcp \/ Main
  BY <1>3, DisposeInv, OtherInv DEF Tcp, Main, Threads
<1>4. CASE Loop \/ LastDispose \/ TimerEnds \/ OnConnected \/ OnShutdown
  BY <1>4, OtherInv
<1>5. CASE \E c \in Conns : Break(c)
  BY <1>5, OtherInv
<1>6. QED BY <1>1, <1>2, <1>3, <1>4, <1>5 DEF UDPNext, Worker, Timer, Users

LEMMA InvHolds == UDPSpec => []UDPIInv
BY InitInv, NextInv, PTL DEF UDPSpec

\* The variables keep their types, and who holds the lock is inside a call that
\* took it.
THEOREM UDPTypeCorrect == UDPSpec => []UDPTypeOK
BY InvHolds, PTL DEF UDPIInv

\* No socket but that of the present connection is open (UDPTransport.cpp:82-160):
\* a connection is replaced only under the lock and after it was disposed of.
THEOREM SocketsAreClosed == UDPSpec => []NoSocketLeaks
BY InvHolds, PTL DEF UDPIInv
-----------------------------------------------------------------------------
(* The numbers of the packages.                                            *)

USE HalfAssumption, SequenceAssumption DEF Modulus, Numbers, Increment

\* The number at a (positive or negative) distance from another, around the circle.
Around(seq, distance) ==
  IF seq + distance >= Modulus THEN seq + distance - Modulus
  ELSE IF seq + distance < 0 THEN seq + distance + Modulus
  ELSE seq + distance

InFlight(p) ==
  /\ p.k \in Nat /\ p.k < sent /\ p.seq \in Numbers
  /\ newest - Half <= p.k /\ p.k < newest + Half
  /\ p.seq = Around(rxSeq, p.k - newest)

NumberingIInv ==
  /\ NumberingTypeOK
  /\ \A p \in flight : InFlight(p)
  /\ - Half <= sent - newest /\ sent - newest <= Half
  /\ txSeq = Around(rxSeq, sent - newest)
-----------------------------------------------------------------------------
(* The arithmetic of the circle.                                           *)

\* Within half of the range, the comparison tells what is newer.
LEMMA ComparisonIsExact ==
  ASSUME NEW s \in Numbers, NEW d \in Int, - Half <= d, d < Half
  PROVE  Minus(s, Around(s, d)) > Minus(Around(s, d), s) <=> d > 0
BY DEF Minus, Around

\* Distances add up, as long as they stay within the range.
LEMMA AroundShifts ==
  ASSUME NEW s \in Numbers, NEW d \in Int, NEW e \in Int,
         - Half <= d, d <= Half, - Modulus < e - d, e - d < Modulus, - Half <= e, e <= Half
  PROVE  Around(s, e) = Around(Around(s, d), e - d)
BY DEF Around

LEMMA AroundNext ==
  ASSUME NEW s \in Numbers, NEW d \in Int, - Half <= d, d < Half
  PROVE  Around(s, d + 1) = IF Around(s, d) + 1 = Modulus THEN 0 ELSE Around(s, d) + 1
BY DEF Around

LEMMA AroundIsANumber ==
  ASSUME NEW s \in Numbers, NEW d \in Int, - Half <= d, d <= Half
  PROVE  Around(s, d) \in Numbers
BY DEF Around
-----------------------------------------------------------------------------
(* The invariant.                                                          *)

LEMMA InitNumbering == NumberingInit => NumberingIInv
BY DEF NumberingInit, NumberingIInv, NumberingTypeOK, Start, Minus, Around

LEMMA NextNumbering == NumberingIInv /\ [NumberingNext]_numberingVars => NumberingIInv'
<1> SUFFICES ASSUME NumberingIInv, [NumberingNext]_numberingVars
             PROVE  NumberingIInv'
  OBVIOUS
<1> USE DEF NumberingIInv, NumberingTypeOK, InFlight
<1>1. CASE Send
  <2>1. sent - newest \in Int /\ - Half <= sent - newest /\ sent - newest < Half
    BY <1>1 DEF Send
  <2>2. txSeq' = Around(rxSeq, sent' - newest) /\ txSeq' \in Numbers
    <3>1. txSeq' = Around(rxSeq, (sent - newest) + 1)
      BY <1>1, <2>1, AroundNext DEF Send
    <3>2. (sent - newest) + 1 = sent' - newest
      BY <1>1 DEF Send
    <3> QED BY <1>1, <2>1, <3>1, <3>2 DEF Send
  <2>3. ASSUME NEW p \in flight'
        PROVE  InFlight(p)'
    <3>1. CASE p \in flight
      BY <1>1, <3>1 DEF Send
    <3>2. CASE p = [k |-> sent, seq |-> txSeq]
      BY <1>1, <2>1, <3>2 DEF Send
    <3> QED BY <1>1, <3>1, <3>2 DEF Send
  <2>4. flight' \subseteq [k : Nat, seq : Numbers]
    BY <1>1 DEF Send
  <2> QED BY <1>1, <2>1, <2>2, <2>3, <2>4 DEF Send
<1>2. ASSUME NEW p \in flight, Lose(p)
      PROVE  NumberingIInv'
  BY <1>2 DEF Lose
<1>3. ASSUME NEW p \in flight, NEW again \in BOOLEAN, Receive(p, again)
      PROVE  NumberingIInv'
  <2>1. CASE ~ Accepts(p.seq)
    BY <1>3, <2>1 DEF Receive
  <2>2. CASE Accepts(p.seq)
    <3> DEFINE d == p.k - newest
    <3>1. d \in Int /\ - Half <= d /\ d < Half /\ p.seq = Around(rxSeq, d)
      OBVIOUS
    <3>2. d > 0
      BY <2>2, <3>1, ComparisonIsExact DEF Accepts
    <3>3. rxSeq' = p.seq /\ newest' = p.k /\ txSeq' = txSeq /\ sent' = sent
      BY <1>3, <2>2 DEF Receive
    <3>4. ASSUME NEW e \in Int, - Half <= e, e <= Half, - Half <= e - d
          PROVE  Around(rxSeq, e) = Around(p.seq, e - d)
      <4>1. - Modulus < e - d /\ e - d < Modulus
        BY <3>1, <3>2, <3>4
      <4> QED BY <3>1, <3>4, <4>1, AroundShifts
    <3>5. flight' \subseteq Recent(flight, p.k)
      BY <1>3, <2>2 DEF Receive, Recent
    <3>6. ASSUME NEW q \in flight'
          PROVE  InFlight(q)'
      <4>1. q \in flight /\ q.k >= p.k - Half
        BY <3>5 DEF Recent
      <4>2. /\ q.k - newest \in Int /\ - Half <= q.k - newest /\ q.k - newest <= Half
            /\ (q.k - newest) - d = q.k - p.k
        BY <4>1
      <4>3. q.seq = Around(p.seq, q.k - p.k)
        BY <3>4, <4>1, <4>2
      <4> QED BY <3>2, <3>3, <4>1, <4>3
    <3>7. /\ sent - newest \in Int /\ (sent - newest) - d = sent - p.k
          /\ sent - p.k > 0
      OBVIOUS
    <3>8. txSeq = Around(p.seq, sent - p.k)
      BY <3>4, <3>7
    <3>9. sent - p.k <= Half
      BY <3>2
    <3>10. flight' \subseteq flight
      BY <3>5 DEF Recent
    <3> HIDE DEF d
    <3> QED BY <3>3, <3>6, <3>7, <3>8, <3>9, <3>10
  <2> QED BY <2>1, <2>2
<1>4. CASE UNCHANGED numberingVars
  BY <1>4 DEF numberingVars
<1> QED
  BY <1>1, <1>2, <1>3, <1>4 DEF NumberingNext

\* The numbers stay within their width.
THEOREM NumbersFit == NumberingSpec => []NumberingTypeOK
<1>1. NumberingIInv => NumberingTypeOK
  BY DEF NumberingIInv
<1> QED
  BY <1>1, InitNumbering, NextNumbering, PTL DEF NumberingSpec

LEMMA FilterFollows == NumberingIInv => FilterIsExact
<1> SUFFICES ASSUME NumberingIInv, NEW p \in flight
             PROVE  Accepts(p.seq) <=> p.k > newest
  BY DEF FilterIsExact
<1> DEFINE d == p.k - newest
<1>1. rxSeq \in Numbers /\ d \in Int /\ - Half <= d /\ d < Half /\ p.seq = Around(rxSeq, d)
  BY DEF NumberingIInv, NumberingTypeOK, InFlight
<1>2. d > 0 <=> p.k > newest
  BY DEF NumberingIInv, NumberingTypeOK, InFlight
<1> HIDE DEF d
<1> QED
  BY <1>1, <1>2, ComparisonIsExact DEF Accepts

\* The comparison of the wrapped numbers is right for every package that can
\* arrive: newer ones are taken and only those (UDPConnection.cpp:36-44,
\* udpserver.cpp:17-26).
THEOREM FilterCorrect == NumberingSpec => []FilterIsExact
BY FilterFollows, InitNumbering, NextNumbering, PTL DEF NumberingSpec

\* What is delivered comes in the order it was sent, and once: UdpSequence
\* implements LossyChannel.
THEOREM DeliveryIsInOrder == NumberingSpec => DeliversInOrder
<1>1. NumberingInit => Channel!Init
  BY DEF NumberingInit, Channel!Init
<1>2. NumberingIInv /\ [NumberingNext]_numberingVars => [Channel!Next]_Channel!vars
  <2> SUFFICES ASSUME NumberingIInv, [NumberingNext]_numberingVars
               PROVE  [Channel!Next]_Channel!vars
    OBVIOUS
  <2> DEFINE pending == {p.k : p \in {q \in flight : q.k > newest}}
  <2>1. CASE Send
    <3>1. flight' = flight \cup {[k |-> sent, seq |-> txSeq]} /\ newest' = newest /\ sent' = sent + 1
      BY <2>1 DEF Send
    <3>2. \A q : q \in flight' <=> q \in flight \/ q = [k |-> sent, seq |-> txSeq]
      BY <3>1
    <3>3. pending' = IF sent > newest THEN pending \cup {sent} ELSE pending
      <4>1. \A j : j \in pending' <=> \E q \in flight' : q.k > newest /\ j = q.k
        BY <3>1
      <4>2. \A j : j \in pending <=> \E q \in flight : q.k > newest /\ j = q.k
        OBVIOUS
      <4>3. \A j : j \in pending' <=> j \in pending \/ (j = sent /\ sent > newest)
        <5> DEFINE new == [k |-> sent, seq |-> txSeq]
        <5>1. new.k = sent
          OBVIOUS
        <5> HIDE DEF new, pending
        <5>2. \A q : q \in flight' <=> q \in flight \/ q = new
          BY <3>2 DEF new
        <5> QED BY <4>1, <4>2, <5>1, <5>2
      <4> HIDE DEF pending
      <4> QED BY <4>3
    <3>4. Channel!Send
      BY <3>1, <3>3 DEF Channel!Send
    <3> QED BY <3>4 DEF Channel!Next
  <2>2. ASSUME newest' = newest, sent' = sent, flight' \subseteq flight
        PROVE  Channel!Next
    <3>1. Channel!Lose
      BY <2>2 DEF Channel!Lose
    <3> QED BY <3>1 DEF Channel!Next
  <2>3. ASSUME NEW p \in flight, Lose(p)
        PROVE  Channel!Next
    BY <2>2, <2>3 DEF Lose
  <2>4. ASSUME NEW p \in flight, NEW again \in BOOLEAN, Receive(p, again)
        PROVE  Channel!Next
    <3>1. CASE ~ Accepts(p.seq)
      BY <2>2, <2>4, <3>1 DEF Receive
    <3>2. CASE Accepts(p.seq)
      <4>1. p.k > newest
        BY <3>2, FilterFollows DEF FilterIsExact
      <4>2. newest' = p.k /\ sent' = sent
        BY <2>4, <3>2 DEF Receive
      <4>3. \A q \in flight : q.k > p.k => q \in flight'
        BY <2>4, <3>2 DEF Receive, Recent, NumberingIInv, NumberingTypeOK
      <4>4. flight' \subseteq flight
        BY <2>4, <3>2 DEF Receive, Recent
      <4>5. p.k \in pending /\ \A k \in pending : k \in Int
        BY <4>1 DEF NumberingIInv, NumberingTypeOK
      <4>6. pending' = {j \in pending : j > p.k}
        <5>1. ASSUME NEW j \in pending' PROVE j \in {i \in pending : i > p.k}
          <6>1. PICK q \in flight' : q.k > newest' /\ j = q.k
            BY <5>1
          <6>2. q \in flight /\ q.k > newest
            BY <4>1, <4>2, <4>4, <6>1 DEF NumberingIInv, NumberingTypeOK
          <6> QED BY <4>2, <6>1, <6>2
        <5>2. ASSUME NEW j \in pending, j > p.k PROVE j \in pending'
          <6>1. PICK q \in flight : q.k > newest /\ j = q.k
            BY <5>2
          <6>2. q \in flight' /\ q.k > newest'
            BY <4>2, <4>3, <5>2, <6>1
          <6> QED BY <6>1, <6>2
        <5> QED BY <5>1, <5>2
      <4>7. Channel!Deliver(p.k)
        BY <4>1, <4>2, <4>6 DEF Channel!Deliver
      <4> QED BY <4>5, <4>7 DEF Channel!Next
    <3> QED BY <3>1, <3>2
  <2>5. CASE UNCHANGED numberingVars
    BY <2>5 DEF numberingVars, Channel!vars
  <2> QED
    BY <2>1, <2>3, <2>4, <2>5 DEF NumberingNext
<1> QED
  BY <1>1, <1>2, InitNumbering, NextNumbering, PTL DEF NumberingSpec, DeliversInOrder, Channel!Spec
-----------------------------------------------------------------------------
(* Induction.                                                              *)

\* A set of numbers has a least one.
LEMMA LeastNumber ==
  ASSUME NEW T, T \subseteq Nat, T # {}
  PROVE  \E x \in T : \A y \in T : x <= y
<1>1. PICK x \in T : \A y \in T : ~ (<<y, x>> \in OpToRel(<, Nat))
  BY ONLY T \subseteq Nat, T # {}, NatLessThanWellFounded, WFMin
<1>2. ASSUME NEW y \in T PROVE x <= y
  <2>1. x \in Nat /\ y \in Nat
    OBVIOUS
  <2>2. ~ (<<y, x>> \in OpToRel(<, Nat))
    BY <1>1
  <2>3. ~ (y < x)
    BY <2>1, <2>2 DEF OpToRel
  <2>4. QED BY <2>1, <2>3
<1>3. QED BY <1>2

\* What holds of 0, and of n + 1 if it holds of n, holds of all up to a bound.
LEMMA UpTo ==
  ASSUME NEW N \in Nat, NEW T, 0 \in T, \A n \in 0 .. N - 1 : n \in T => n + 1 \in T
  PROVE  0 .. N \subseteq T
<1> DEFINE U == {n \in 0 .. N : n \notin T}
<1>1. CASE U = {}
  BY <1>1
<1>2. CASE U # {}
  <2>1. U \subseteq Nat
    OBVIOUS
  <2>2. PICK m \in U : \A n \in U : m <= n
    BY <1>2, <2>1, LeastNumber
  <2>3. m \in 1 .. N
    BY <2>2
  <2>4. m - 1 \in T
    BY <2>2, <2>3
  <2>5. m - 1 \in 0 .. N - 1 /\ (m - 1) + 1 = m
    BY <2>3
  <2>6. QED BY <2>2, <2>4, <2>5
<1>3. QED BY <1>1, <1>2
-----------------------------------------------------------------------------
(* The checksum.                                                           *)

\* A byte is the sum of its bits.
LEMMA BitsOfAByte ==
  ASSUME NEW a \in Octet
  PROVE  /\ \A w \in {1, 2, 4, 8, 16, 32, 64, 128} : Bit(a, w) \in {0, 1}
         /\ a = Bit(a, 1) + 2 * Bit(a, 2) + 4 * Bit(a, 4) + 8 * Bit(a, 8)
                + 16 * Bit(a, 16) + 32 * Bit(a, 32) + 64 * Bit(a, 64) + 128 * Bit(a, 128)
BY DEF Octet, Bit

LEMMA XorIsAByte ==
  ASSUME NEW a \in Octet, NEW b \in Octet
  PROVE  Xor(a, b) \in Octet
<1>1. \A w \in {1, 2, 4, 8, 16, 32, 64, 128} :
        (Bit(a, w) + Bit(b, w)) % 2 \in {0, 1}
  BY BitsOfAByte
<1>2. QED BY <1>1, SMTT(30) DEF Xor, Octet

\* Two bytes that become the same with a third one are the same.
LEMMA XorCancels ==
  ASSUME NEW a \in Octet, NEW b \in Octet, NEW c \in Octet, Xor(a, b) = Xor(a, c)
  PROVE  b = c
<1> DEFINE D(x, w) == (Bit(a, w) + Bit(x, w)) % 2
           W == {1, 2, 4, 8, 16, 32, 64, 128}
<1>1. \A w \in W : D(b, w) \in {0, 1} /\ D(c, w) \in {0, 1}
  BY BitsOfAByte
<1> DEFINE Sum(x) == 1 * D(x, 1) + 2 * D(x, 2) + 4 * D(x, 4) + 8 * D(x, 8)
                     + 16 * D(x, 16) + 32 * D(x, 32) + 64 * D(x, 64) + 128 * D(x, 128)
<1>2. Xor(a, b) = Sum(b) /\ Xor(a, c) = Sum(c)
  BY DEF Xor
<1> HIDE DEF D
<1>3. \A w \in W : D(b, w) = D(c, w)
  <2>1. Sum(b) = Sum(c)
    BY <1>2
  <2> DEFINE b1 == D(b, 1)  b2 == D(b, 2)  b4 == D(b, 4)  b8 == D(b, 8)
             b16 == D(b, 16)  b32 == D(b, 32)  b64 == D(b, 64)  b128 == D(b, 128)
             c1 == D(c, 1)  c2 == D(c, 2)  c4 == D(c, 4)  c8 == D(c, 8)
             c16 == D(c, 16)  c32 == D(c, 32)  c64 == D(c, 64)  c128 == D(c, 128)
  <2>2. /\ b1 \in {0, 1} /\ b2 \in {0, 1} /\ b4 \in {0, 1} /\ b8 \in {0, 1}
        /\ b16 \in {0, 1} /\ b32 \in {0, 1} /\ b64 \in {0, 1} /\ b128 \in {0, 1}
        /\ c1 \in {0, 1} /\ c2 \in {0, 1} /\ c4 \in {0, 1} /\ c8 \in {0, 1}
        /\ c16 \in {0, 1} /\ c32 \in {0, 1} /\ c64 \in {0, 1} /\ c128 \in {0, 1}
    BY ONLY <1>1
  <2>3. 1 * b1 + 2 * b2 + 4 * b4 + 8 * b8 + 16 * b16 + 32 * b32 + 64 * b64 + 128 * b128
          = 1 * c1 + 2 * c2 + 4 * c4 + 8 * c8 + 16 * c16 + 32 * c32 + 64 * c64 + 128 * c128
    BY <2>1
  <2> HIDE DEF b1, b2, b4, b8, b16, b32, b64, b128, c1, c2, c4, c8, c16, c32, c64, c128
  <2>4. b128 = c128
    BY ONLY <2>2, <2>3
  <2>5. b64 = c64
    BY ONLY <2>2, <2>3, <2>4
  <2>6. b32 = c32
    BY ONLY <2>2, <2>3, <2>4, <2>5
  <2>7. b16 = c16
    BY ONLY <2>2, <2>3, <2>4, <2>5, <2>6
  <2>8. b8 = c8
    BY ONLY <2>2, <2>3, <2>4, <2>5, <2>6, <2>7
  <2>9. b4 = c4
    BY ONLY <2>2, <2>3, <2>4, <2>5, <2>6, <2>7, <2>8
  <2>10. b2 = c2 /\ b1 = c1
    BY ONLY <2>2, <2>3, <2>4, <2>5, <2>6, <2>7, <2>8, <2>9
  <2>11. QED BY ONLY <2>4, <2>5, <2>6, <2>7, <2>8, <2>9, <2>10
               DEF b1, b2, b4, b8, b16, b32, b64, b128, c1, c2, c4, c8, c16, c32, c64, c128
<1> USE DEF D
<1>4. \A w \in W : Bit(b, w) = Bit(c, w)
  BY <1>3, BitsOfAByte
<1>5. QED BY <1>4, BitsOfAByte

LEMMA XorCommutes ==
  ASSUME NEW a \in Octet, NEW b \in Octet
  PROVE  Xor(a, b) = Xor(b, a)
<1>1. \A w \in {1, 2, 4, 8, 16, 32, 64, 128} : Bit(a, w) \in {0, 1} /\ Bit(b, w) \in {0, 1}
  BY BitsOfAByte
<1>2. \A w \in {1, 2, 4, 8, 16, 32, 64, 128} : Bit(a, w) + Bit(b, w) = Bit(b, w) + Bit(a, w)
  BY <1>1
<1>3. QED BY <1>2 DEF Xor

\* No entry of the table occurs twice.
LEMMA TableIsOneToOne ==
  /\ \A i \in 1 .. 256 : Crc8Table[i] \in Octet
  /\ \A i, j \in 1 .. 256 : Crc8Table[i] = Crc8Table[j] => i = j
<1>1. \A i \in 1 .. 256 : Crc8Table[i] \in Octet
  BY SMTT(100) DEF Crc8Table, Octet
<1>2. \A i, j \in 1 .. 256 : Crc8Table[i] = Crc8Table[j] => i = j
  BY SMTT(200) DEF Crc8Table
<1>3. QED BY <1>1, <1>2

\* The checksum with one byte more.
Crc(crc, byte) == Crc8Table[Xor(crc, byte) + 1]

\* f are the checksums of the beginnings of bytes.
Checksums(f, bytes) ==
  /\ f \in [0 .. Len(bytes) -> Octet]
  /\ f[0] = 255
  /\ \A n \in 1 .. Len(bytes) : f[n] = Crc(f[n - 1], bytes[n])

LEMMA CrcIsAByte ==
  ASSUME NEW crc \in Octet, NEW byte \in Octet
  PROVE  Crc(crc, byte) \in Octet
<1>1. Xor(crc, byte) \in Octet
  BY XorIsAByte
<1>2. Xor(crc, byte) + 1 \in 1 .. 256
  BY ONLY <1>1 DEF Octet
<1>3. QED BY ONLY <1>2, TableIsOneToOne DEF Crc

\* The recursion of CRC8 is well-founded.
LEMMA ChecksumsExist ==
  ASSUME NEW bytes \in Seq(Octet)
  PROVE  \E f : Checksums(f, bytes) /\ CRC8(bytes) = f[Len(bytes)]
<1> DEFINE N == Len(bytes)
           Begins(f, n) == /\ f \in [0 .. n -> Octet] /\ f[0] = 255
                           /\ \A i \in 1 .. n : f[i] = Crc(f[i - 1], bytes[i])
           T == {n \in 0 .. N : \E f : Begins(f, n)}
           c == CHOOSE g : g = [n \in 0 .. N |-> IF n = 0 THEN 255
                                                ELSE Crc8Table[Xor(g[n - 1], bytes[n]) + 1]]
<1>1. N \in Nat /\ \A i \in 1 .. N : bytes[i] \in Octet
  BY LenProperties, ElementOfSeq
<1> HIDE DEF N
<1>2. 0 \in T
  <2> DEFINE f == [i \in 0 .. 0 |-> 255]
  <2>1. Begins(f, 0)
    BY DEF Octet
  <2> HIDE DEF Begins, f
  <2>2. QED BY <1>1, <2>1
<1>3. ASSUME NEW n \in 0 .. N - 1, n \in T PROVE n + 1 \in T
  <2>1. PICK f : Begins(f, n)
    BY <1>3
  <2> DEFINE g == [i \in 0 .. n + 1 |-> IF i <= n THEN f[i] ELSE Crc(f[n], bytes[n + 1])]
  <2>2. n \in Nat /\ n + 1 \in 1 .. N
    BY <1>1
  <2>3. f[n] \in Octet /\ bytes[n + 1] \in Octet
    BY <1>1, <2>1, <2>2
  <2>4. Crc(f[n], bytes[n + 1]) \in Octet
    BY <2>3, CrcIsAByte
  <2>5. g \in [0 .. n + 1 -> Octet] /\ g[0] = 255
    BY <2>1, <2>2, <2>4
  <2>6. ASSUME NEW i \in 1 .. n + 1 PROVE g[i] = Crc(g[i - 1], bytes[i])
    <3>1. CASE i <= n
      BY <2>1, <2>2, <3>1
    <3>2. CASE i = n + 1
      BY <2>2, <3>2
    <3>3. QED BY <2>2, <3>1, <3>2
  <2>7. Begins(g, n + 1)
    BY <2>5, <2>6
  <2> HIDE DEF Begins, g
  <2>8. QED BY <2>2, <2>7
<1>4. N \in T
  <2>1. N \in Nat /\ \A n \in 0 .. N - 1 : n \in T => n + 1 \in T
    BY <1>1, <1>3
  <2> HIDE DEF T
  <2>2. 0 .. N \subseteq T
    BY ONLY <1>2, <2>1, UpTo
  <2>3. QED BY <2>1, <2>2
<1>5. PICK f : Begins(f, N)
  BY <1>4
<1>6. f = [n \in 0 .. N |-> IF n = 0 THEN 255 ELSE Crc8Table[Xor(f[n - 1], bytes[n]) + 1]]
  BY <1>1, <1>5 DEF Crc
<1>7. c = [n \in 0 .. N |-> IF n = 0 THEN 255 ELSE Crc8Table[Xor(c[n - 1], bytes[n]) + 1]]
  BY ONLY <1>6
<1>8. CRC8(bytes) = c[N]
  BY DEF CRC8, N
<1> HIDE DEF c
<1>9. c[0] = 255 /\ \A n \in 1 .. N : c[n] = Crc(c[n - 1], bytes[n])
  BY <1>1, <1>7 DEF Crc
<1>10. \A n \in 0 .. N : c[n] \in Octet
  <2> DEFINE U == {n \in 0 .. N : c[n] \in Octet}
  <2>1. 0 \in U
    BY <1>1, <1>9 DEF Octet
  <2>2. ASSUME NEW n \in 0 .. N - 1, n \in U PROVE n + 1 \in U
    <3>1. n + 1 \in 1 .. N /\ (n + 1) - 1 = n
      BY <1>1
    <3>2. c[n + 1] = Crc(c[n], bytes[n + 1])
      BY <1>9, <3>1
    <3>3. c[n] \in Octet /\ bytes[n + 1] \in Octet
      BY <1>1, <2>2, <3>1
    <3>4. QED BY <3>1, <3>2, <3>3, CrcIsAByte
  <2>3. N \in Nat /\ \A n \in 0 .. N - 1 : n \in U => n + 1 \in U
    BY <1>1, <2>2
  <2>4. 0 .. N \subseteq U
    <3> HIDE DEF U
    <3>1. QED BY ONLY <2>1, <2>3, UpTo
  <2>5. QED BY <2>4
<1>11. Checksums(c, bytes)
  BY <1>7, <1>9, <1>10 DEF Checksums, N
<1>12. QED BY <1>8, <1>11 DEF N

\* Two sequences of as many bytes that differ at one place have different
\* checksums.
LEMMA OneByteShows ==
  ASSUME NEW a \in Seq(Octet), NEW b \in Seq(Octet), Len(a) = Len(b),
         NEW place \in 1 .. Len(a), a[place] # b[place],
         \A i \in 1 .. Len(a) : i # place => a[i] = b[i]
  PROVE  CRC8(a) # CRC8(b)
<1> DEFINE N == Len(a)
<1>1. /\ N \in Nat /\ place \in 1 .. N
      /\ \A i \in 1 .. N : a[i] \in Octet /\ b[i] \in Octet
  BY LenProperties, ElementOfSeq
<1>2. PICK f : Checksums(f, a) /\ CRC8(a) = f[Len(a)]
  BY ChecksumsExist
<1>3. PICK g : Checksums(g, b) /\ CRC8(b) = g[Len(b)]
  BY ChecksumsExist
<1>4. /\ f \in [0 .. N -> Octet] /\ f[0] = 255
      /\ \A n \in 1 .. N : f[n] = Crc(f[n - 1], a[n])
      /\ g \in [0 .. N -> Octet] /\ g[0] = 255
      /\ \A n \in 1 .. N : g[n] = Crc(g[n - 1], b[n])
  BY <1>2, <1>3 DEF Checksums
<1>5. CRC8(a) = f[N] /\ CRC8(b) = g[N]
  BY <1>2, <1>3
<1> HIDE DEF N
<1>6. ASSUME NEW p \in Octet, NEW q \in Octet, NEW x \in Octet, NEW y \in Octet,
             Crc(p, x) = Crc(q, y)
      PROVE  p = q <=> x = y
  <2> DEFINE u == Xor(p, x)
             v == Xor(q, y)
  <2>1. u \in Octet /\ v \in Octet
    BY XorIsAByte
  <2>2. Crc8Table[u + 1] = Crc8Table[v + 1]
    BY <1>6 DEF Crc
  <2> HIDE DEF u, v
  <2>3. u \in 0 .. 255 /\ v \in 0 .. 255
    BY ONLY <2>1 DEF Octet
  <2>4. u + 1 \in 1 .. 256 /\ v + 1 \in 1 .. 256
    BY ONLY <2>3
  <2>5. u + 1 = v + 1
    BY ONLY <2>2, <2>4, TableIsOneToOne
  <2>6. u = v
    BY ONLY <2>3, <2>5
  <2>7. Xor(p, x) = Xor(q, y)
    BY ONLY <2>6 DEF u, v
  <2>8. CASE p = q
    BY <2>7, <2>8, XorCancels
  <2>9. CASE x = y
    BY <2>7, <2>9, XorCancels, XorCommutes
  <2>10. QED BY <2>8, <2>9
<1> DEFINE T == {n \in 0 .. N : f[n] = g[n] <=> n < place}
<1>7. 0 \in T
  BY <1>1, <1>4
<1>8. ASSUME NEW n \in 0 .. N - 1, n \in T PROVE n + 1 \in T
  <2>1. n + 1 \in 1 .. N /\ (n + 1) - 1 = n /\ n \in 0 .. N
    BY ONLY <1>1, n \in 0 .. N - 1
  <2>2. f[n + 1] = Crc(f[n], a[n + 1]) /\ g[n + 1] = Crc(g[n], b[n + 1])
    BY <1>4, <2>1
  <2>3. /\ f[n] \in Octet /\ g[n] \in Octet
        /\ a[n + 1] \in Octet /\ b[n + 1] \in Octet
    BY <1>1, <1>4, <2>1
  <2>4. a[n + 1] = b[n + 1] <=> n + 1 # place
    BY <2>1 DEF N
  <2>5. f[n] = g[n] <=> n < place
    BY <1>8
  <2>6. CASE n + 1 < place
    BY <1>1, <2>1, <2>2, <2>4, <2>5, <2>6
  <2>7. CASE ~ n + 1 < place
    <3>1. ~ (f[n] = g[n] <=> a[n + 1] = b[n + 1])
      BY <1>1, <2>1, <2>4, <2>5, <2>7
    <3>2. f[n + 1] # g[n + 1]
      BY <1>6, <2>2, <2>3, <3>1
    <3>3. QED BY <2>1, <2>7, <3>2
  <2>8. QED BY <2>6, <2>7
<1>9. N \in T
  <2>1. N \in Nat /\ \A n \in 0 .. N - 1 : n \in T => n + 1 \in T
    BY <1>1, <1>8
  <2> HIDE DEF T
  <2>2. 0 .. N \subseteq T
    BY ONLY <1>7, <2>1, UpTo
  <2>3. QED BY <2>1, <2>2
<1>10. QED BY <1>1, <1>5, <1>9
-----------------------------------------------------------------------------
(* The control block.                                                      *)

\* The requests of a header, field by field.
Asked(h) ==
  [i \in 1 .. PortCount |-> [type |-> h.requests[i].type, arg |-> h.requests[i].arg,
                             plSz |-> h.requests[i].plSz]]

LEMMA HeaderParts ==
  ASSUME NEW h \in Headers
  PROVE  /\ h.seq \in Numbers /\ h.seq \in Nat /\ h.seq < 65536
         /\ h.counter \in Nat /\ h.counter \div 65536 < 65536
         /\ \A i \in 1 .. PortCount : /\ h.requests[i].type \in Octet
                                      /\ h.requests[i].arg \in Octet
                                      /\ h.requests[i].plSz \in Octet
         /\ h.requests = Asked(h)
         /\ h = [seq |-> h.seq, counter |-> h.counter, requests |-> h.requests]
<1>1. PICK s \in Numbers, c \in Counters, n \in 0 .. MaxPayload : h = Header(s, c, n)
  BY DEF Headers
<1>2. s \in Nat /\ s < 65536 /\ c \in Nat /\ c \div 65536 < 65536 /\ n \in Nat /\ n < 256
  <2>1. s \in Nat /\ s < 65536
    BY UplinkAssumption
  <2>2. c \in Nat /\ c \div 65536 < 65536
    BY UplinkAssumption
  <2>3. n \in Nat /\ n < 256
    BY UplinkAssumption, PayloadAssumption
  <2>4. QED BY ONLY <2>1, <2>2, <2>3
<1> DEFINE Of(i) == IF i = 1 THEN n ELSE 0
<1>3. ASSUME NEW i \in 1 .. PortCount
      PROVE  /\ h.requests[i].type \in Octet /\ h.requests[i].arg \in Octet
             /\ h.requests[i].plSz \in Octet
             /\ Request(Of(i)) = [type |-> h.requests[i].type, arg |-> h.requests[i].arg,
                                  plSz |-> h.requests[i].plSz]
  <2>1. h.requests[i] = Request(Of(i))
    BY <1>1 DEF Header
  <2>2. Of(i) \in Octet
    BY ONLY <1>2, i \in 1 .. PortCount DEF Of, Octet
  <2> HIDE DEF Of
  <2>3. QED BY <2>1, <2>2 DEF Request, Octet, NoCommand, Data
<1>4. h.requests = [i \in 1 .. PortCount |-> Request(Of(i))]
  BY <1>1 DEF Header
<1>5. h = [seq |-> s, counter |-> c, requests |-> h.requests]
  BY <1>1 DEF Header
<1> HIDE DEF Of
<1>6. h.requests = Asked(h)
  BY <1>3, <1>4 DEF Asked
<1>7. h.seq = s /\ h.counter = c
  BY <1>5
<1>8. h.seq \in Numbers /\ h.seq \in Nat /\ h.seq < 65536
      /\ h.counter \in Nat /\ h.counter \div 65536 < 65536
  BY <1>2, <1>7
<1>9. h = [seq |-> h.seq, counter |-> h.counter, requests |-> h.requests]
  BY ONLY <1>5, <1>7
<1>10. \A i \in 1 .. PortCount : /\ h.requests[i].type \in Octet
                                  /\ h.requests[i].arg \in Octet
                                  /\ h.requests[i].plSz \in Octet
  BY ONLY <1>3
<1>11. QED BY ONLY <1>6, <1>8, <1>9, <1>10

LEMMA MetaBytes ==
  ASSUME NEW h \in Headers
  PROVE  /\ MetaSz \in Nat /\ MetaSz >= 9
         /\ Meta(h) \in Seq(Octet) /\ Len(Meta(h)) = MetaSz
         /\ Meta(h)[1] = h.seq % 256 /\ Meta(h)[2] = (h.seq \div 256) % 256
         /\ Meta(h)[3] = h.counter % 256
         /\ Meta(h)[4] = (h.counter \div 256) % 256
         /\ Meta(h)[5] = (h.counter \div 65536) % 256
         /\ Meta(h)[6] = ((h.counter \div 65536) \div 256) % 256
         /\ \A i \in 1 .. PortCount :
              /\ Meta(h)[6 + (i - 1) * 3 + 1] = h.requests[i].type
              /\ Meta(h)[6 + (i - 1) * 3 + 2] = h.requests[i].arg
              /\ Meta(h)[6 + (i - 1) * 3 + 3] = h.requests[i].plSz
<1> DEFINE m == Meta(h)
           M == 6 + 3 * PortCount
           s == h.seq
           c == h.counter
           Ask(i) == h.requests[i]
<1>1. MetaSz = M /\ M \in Nat /\ M >= 9
  BY PortCountAssumption DEF MetaSz, PkgHdrSz, CmdHdrSize
<1>2. /\ s \in Nat /\ c \in Nat
      /\ \A i \in 1 .. PortCount : Ask(i).type \in Octet /\ Ask(i).arg \in Octet /\ Ask(i).plSz \in Octet
  <2>1. s \in Nat /\ c \in Nat
    BY HeaderParts
  <2>2. \A i \in 1 .. PortCount : Ask(i).type \in Octet /\ Ask(i).arg \in Octet /\ Ask(i).plSz \in Octet
    BY HeaderParts
  <2>3. QED BY ONLY <2>1, <2>2
<1>3. /\ m[1] = s % 256 /\ m[2] = (s \div 256) % 256
      /\ m[3] = c % 256 /\ m[4] = (c \div 256) % 256
      /\ m[5] = (c \div 65536) % 256 /\ m[6] = ((c \div 65536) \div 256) % 256
  BY <1>1, SMTT(60) DEF Meta, CntOffset, PkgHdrSz, WriteU16Value, WriteU32Value
<1>4. /\ DOMAIN m = 1 .. M
      /\ \A k \in 7 .. M : m[k] = WriteRequest(Ask(((k - 6 - 1) \div 3) + 1))[((k - 6 - 1) % 3) + 1]
  BY <1>1 DEF Meta, CntOffset, PkgHdrSz, CmdHdrSize
<1> HIDE DEF s, c, m, M, Ask
<1>5. ASSUME NEW i \in 1 .. PortCount
      PROVE  /\ m[6 + (i - 1) * 3 + 1] = Ask(i).type
             /\ m[6 + (i - 1) * 3 + 2] = Ask(i).arg
             /\ m[6 + (i - 1) * 3 + 3] = Ask(i).plSz
  <2>1. ASSUME NEW j \in 1 .. 3
        PROVE  m[6 + (i - 1) * 3 + j] = WriteRequest(Ask(i))[j]
    <3> DEFINE k == 6 + (i - 1) * 3 + j
    <3>1. i \in Nat /\ i >= 1 /\ i <= PortCount /\ j \in {1, 2, 3} /\ PortCount \in Nat
      BY PortCountAssumption
    <3>2. k \in 7 .. M
      BY ONLY <3>1 DEF M
    <3>3. ((k - 6 - 1) \div 3) + 1 = i /\ ((k - 6 - 1) % 3) + 1 = j
      BY ONLY <3>1
    <3> HIDE DEF k
    <3>4. m[k] = WriteRequest(Ask(i))[j]
      BY ONLY <1>4, <3>2, <3>3
    <3>5. QED BY ONLY <3>4 DEF k
  <2>2. QED BY <2>1 DEF WriteRequest
<1>6. ASSUME NEW k \in 7 .. M PROVE m[k] \in Octet
  <2> DEFINE i == ((k - 6 - 1) \div 3) + 1
             j == ((k - 6 - 1) % 3) + 1
  <2>1. i \in 1 .. PortCount /\ j \in {1, 2, 3}
    BY PortCountAssumption DEF M
  <2>2. m[k] = WriteRequest(Ask(i))[j]
    BY <1>4
  <2> HIDE DEF i, j
  <2>3. QED BY <1>2, <2>1, <2>2 DEF WriteRequest
<1>7. ASSUME NEW k \in 1 .. M PROVE m[k] \in Octet
  <2>1. CASE k \in 7 .. M
    BY <1>6, <2>1
  <2>2. CASE k \notin 7 .. M
    <3>1. k \in 1 .. 6
      BY <1>1, <2>2
    <3>2. \A x \in Nat : x % 256 \in Octet /\ x \div 256 \in Nat /\ x \div 65536 \in Nat
      BY DEF Octet
    <3>3. c \div 256 \in Nat /\ c \div 65536 \in Nat /\ (c \div 65536) \div 256 \in Nat
          /\ s \div 256 \in Nat
      BY ONLY <1>2, <3>2
    <3>4. /\ m[1] \in Octet /\ m[2] \in Octet /\ m[3] \in Octet
          /\ m[4] \in Octet /\ m[5] \in Octet /\ m[6] \in Octet
      BY ONLY <1>2, <1>3, <3>2, <3>3
    <3>5. k \in {1, 2, 3, 4, 5, 6}
      BY ONLY <3>1
    <3>6. QED BY ONLY <3>4, <3>5
  <2>3. QED BY <2>1, <2>2
<1>8. m = [k \in 1 .. M |-> m[k]]
  <2>1. m = [k \in 1 .. MetaSz |-> m[k]]
    BY DEF m, Meta
  <2>2. QED BY <1>1, <2>1
<1>9. m \in Seq(Octet) /\ Len(m) = M
  <2>1. m \in [1 .. M -> Octet]
    BY <1>7, <1>8
  <2>2. QED BY <1>1, <2>1
<1>10. QED BY <1>1, <1>3, <1>5, <1>9 DEF s, c, m, Ask

LEMMA SealedBytes ==
  ASSUME NEW h \in Headers
  PROVE  /\ Sealed(h) \in Seq(Octet) /\ Len(Sealed(h)) = MetaSz + 1
         /\ \A i \in 1 .. MetaSz : Sealed(h)[i] = Meta(h)[i]
         /\ Sealed(h)[MetaSz + 1] = CRC8(Meta(h))
         /\ CRC8(Meta(h)) \in Octet
<1> DEFINE m == Meta(h)
           M == MetaSz
<1>1. M \in Nat /\ m \in Seq(Octet) /\ Len(m) = M
  BY MetaBytes
<1> HIDE DEF m, M
<1>2. CRC8(m) \in Octet
  <2>1. PICK f : Checksums(f, m) /\ CRC8(m) = f[Len(m)]
    BY <1>1, ChecksumsExist
  <2>2. f \in [0 .. M -> Octet] /\ CRC8(m) = f[M]
    BY ONLY <1>1, <2>1 DEF Checksums
  <2>3. QED BY ONLY <1>1, <2>2
<1>3. /\ Append(m, CRC8(m)) \in Seq(Octet) /\ Len(Append(m, CRC8(m))) = M + 1
      /\ \A i \in 1 .. M : Append(m, CRC8(m))[i] = m[i]
      /\ Append(m, CRC8(m))[M + 1] = CRC8(m)
  BY ONLY <1>1, <1>2, AppendProperties
<1>4. QED BY ONLY <1>2, <1>3 DEF m, M, Sealed

\* Whatever byte of a block is damaged, the checksum or the data it covers does
\* not fit any more.
LEMMA DamageShows ==
  ASSUME NEW h \in Headers, NEW b \in Damaged(Sealed(h))
  PROVE  ~ Intact(b)
<1> DEFINE m == Meta(h)
           M == MetaSz
           s == Sealed(h)
<1>1. /\ M \in Nat /\ m \in Seq(Octet) /\ Len(m) = M
      /\ \A i \in 1 .. M : m[i] \in Octet
      /\ s \in Seq(Octet) /\ Len(s) = M + 1
      /\ \A i \in 1 .. M : s[i] = m[i]
      /\ s[M + 1] = CRC8(m)
  <2>1. M \in Nat /\ m \in Seq(Octet) /\ Len(m) = M
    BY MetaBytes
  <2>2. \A i \in 1 .. M : m[i] \in Octet
    BY ONLY <2>1, ElementOfSeq
  <2>3. QED BY <2>1, <2>2, SealedBytes
<1>2. PICK place \in 1 .. M + 1, byte \in Octet : b = [s EXCEPT ![place] = byte] /\ b # s
  BY DEF Damaged
<1> HIDE DEF m, M, s
<1>3. DOMAIN s = 1 .. M + 1 /\ s = [i \in 1 .. M + 1 |-> s[i]]
  BY ONLY <1>1, LenProperties, Zenon
<1>4. /\ b = [i \in 1 .. M + 1 |-> IF i = place THEN byte ELSE s[i]]
      /\ byte # s[place]
  BY ONLY <1>2, <1>3
<1> DEFINE a == SubSeq(b, 1, M)
<1>5. b \in Seq(Octet) /\ Len(b) = M + 1
  <2>1. b \in [1 .. M + 1 -> Octet]
    <3>1. \A i \in 1 .. M + 1 : s[i] \in Octet
      BY ONLY <1>1, ElementOfSeq
    <3>2. QED BY ONLY <1>2, <1>4, <3>1
  <2>2. QED BY ONLY <1>1, <2>1
<1>6. a \in Seq(Octet) /\ Len(a) = M /\ \A i \in 1 .. M : a[i] = b[i]
  <2>1. 1 \in 1 .. Len(b) + 1 /\ M \in 1 - 1 .. Len(b) /\ (M - 1) + 1 = M
    BY ONLY <1>1, <1>5
  <2>2. /\ a \in Seq(Octet) /\ Len(a) = (M - 1) + 1
        /\ \A i \in 1 .. (M - 1) + 1 : a[i] = b[1 + i - 1]
    BY <1>5, <2>1, SubSeqProperties
  <2>3. QED BY ONLY <1>1, <2>1, <2>2
<1>7. \A i \in 1 .. M : a[i] = IF i = place THEN byte ELSE m[i]
  BY <1>1, <1>4, <1>6
<1> HIDE DEF a
<1>8. CASE place = M + 1
  <2>1. \A i \in 1 .. M : a[i] = m[i]
    BY <1>1, <1>7, <1>8
  <2>2. a = m
    BY ONLY <1>1, <1>6, <2>1, SeqEqual
  <2>3. CRC8(a) = CRC8(m) /\ b[M + 1] # CRC8(m)
    BY <1>1, <1>4, <1>8, <2>2
  <2>4. QED BY <2>3 DEF Intact, a, M
<1>9. CASE place # M + 1
  <2>1. place \in 1 .. M
    BY <1>1, <1>2, <1>9
  <2>2. a[place] # m[place] /\ \A i \in 1 .. M : i # place => a[i] = m[i]
    BY <1>1, <1>4, <1>7, <2>1
  <2>3. CRC8(a) # CRC8(m)
    BY ONLY <1>1, <1>6, <2>1, <2>2, OneByteShows
  <2>4. b[M + 1] = CRC8(m)
    BY <1>1, <1>4, <1>9
  <2>5. QED BY <2>3, <2>4 DEF Intact, a, M
<1>10. QED BY <1>8, <1>9

LEMMA OnlySealedGetThrough ==
  ASSUME NEW h \in Headers, NEW b \in LetThrough[h]
  PROVE  b = Sealed(h)
BY DamageShows DEF LetThrough

\* Two bytes hold a number of 16 bits, and four hold one of 32.
LEMMA TwoBytesHoldIt ==
  ASSUME NEW x \in Nat, x < 65536
  PROVE  (x % 256) + 256 * ((x \div 256) % 256) = x
OBVIOUS

LEMMA FourBytesHoldIt ==
  ASSUME NEW x \in Nat, x \div 65536 < 65536
  PROVE  (x % 256) + 256 * (((x \div 256) % 256)
           + 256 * (((x \div 65536) % 256) + 256 * (((x \div 65536) \div 256) % 256))) = x
<1> DEFINE y == x \div 65536
           z == x % 65536
<1>1. y \in Nat /\ y < 65536 /\ z \in Nat /\ z < 65536 /\ x = 65536 * y + z
  OBVIOUS
<1>2. (y % 256) + 256 * ((y \div 256) % 256) = y
  BY <1>1, TwoBytesHoldIt
<1>3. (z % 256) + 256 * ((z \div 256) % 256) = z
  BY <1>1, TwoBytesHoldIt
<1> HIDE DEF y, z
<1>4. x % 256 = z % 256 /\ (x \div 256) % 256 = (z \div 256) % 256
  BY ONLY <1>1
<1> DEFINE ly == y % 256
           hy == (y \div 256) % 256
           lz == z % 256
           hz == (z \div 256) % 256
<1>5. ly \in Nat /\ hy \in Nat /\ lz \in Nat /\ hz \in Nat
  BY ONLY <1>1
<1>6. ly + 256 * hy = y /\ lz + 256 * hz = z
  BY ONLY <1>2, <1>3
<1>7. lz + 256 * (hz + 256 * (ly + 256 * hy)) = x
  <2> HIDE DEF ly, hy, lz, hz
  <2>1. QED BY ONLY <1>1, <1>5, <1>6
<1>8. QED BY ONLY <1>4, <1>7 DEF ly, hy, lz, hz, y

\* The firmware reads what the client wrote.
LEMMA ReadsWhatWasWritten ==
  ASSUME NEW h \in Headers
  PROVE  Read(Sealed(h)) = h /\ Sequence(Sealed(h)) = h.seq
<1> DEFINE b == Sealed(h)
           m == Meta(h)
<1>1. /\ MetaSz \in Nat /\ MetaSz >= 9 /\ MetaSz = 6 + 3 * PortCount
      /\ \A i \in 1 .. MetaSz : b[i] = m[i]
  BY MetaBytes, SealedBytes DEF MetaSz, PkgHdrSz, CmdHdrSize
<1>2. /\ b[1] = h.seq % 256 /\ b[2] = (h.seq \div 256) % 256
      /\ b[3] = h.counter % 256 /\ b[4] = (h.counter \div 256) % 256
      /\ b[5] = (h.counter \div 65536) % 256
      /\ b[6] = ((h.counter \div 65536) \div 256) % 256
  <2>1. \A i \in {1, 2, 3, 4, 5, 6} : b[i] = m[i]
    BY <1>1
  <2>2. QED BY <2>1, MetaBytes
<1>3. Sequence(b) = h.seq
  BY <1>2, HeaderParts, TwoBytesHoldIt DEF Sequence
<1>4. Counter(b) = h.counter
  <2>1. h.counter \in Nat /\ h.counter \div 65536 < 65536
    BY HeaderParts
  <2>2. Counter(b) = b[3] + 256 * (b[4] + 256 * (b[5] + 256 * b[6]))
    BY DEF Counter, CntOffset
  <2>3. PICK c \in Nat : c = h.counter /\ c \div 65536 < 65536
    BY <2>1
  <2>4. (c % 256) + 256 * (((c \div 256) % 256)
         + 256 * (((c \div 65536) % 256) + 256 * (((c \div 65536) \div 256) % 256))) = c
    BY <2>3, FourBytesHoldIt
  <2> HIDE DEF b
  <2>5. QED BY <1>2, <2>2, <2>3, <2>4
<1>5. ASSUME NEW i \in 1 .. PortCount
      PROVE  MapRequest(i - 1, b) = [type |-> h.requests[i].type, arg |-> h.requests[i].arg,
                                     plSz |-> h.requests[i].plSz]
  <2> DEFINE o == 6 + (i - 1) * 3
  <2>1. o + 1 \in 1 .. MetaSz /\ o + 2 \in 1 .. MetaSz /\ o + 3 \in 1 .. MetaSz
    BY <1>1, PortCountAssumption
  <2>2. m[o + 1] = h.requests[i].type /\ m[o + 2] = h.requests[i].arg
        /\ m[o + 3] = h.requests[i].plSz
    BY MetaBytes
  <2> HIDE DEF m, b
  <2>3. b[o + 1] = h.requests[i].type /\ b[o + 2] = h.requests[i].arg
        /\ b[o + 3] = h.requests[i].plSz
    BY <1>1, <2>1, <2>2
  <2>4. QED BY <2>3 DEF MapRequest, PkgHdrSz, CmdHdrSize
<1>6. Read(b).requests = h.requests
  <2>1. h.requests = Asked(h)
    BY HeaderParts
  <2>2. QED BY <1>5, <2>1 DEF Read, Asked
<1>7. Read(b) = [seq |-> h.seq, counter |-> h.counter, requests |-> h.requests]
  BY <1>3, <1>4, <1>6 DEF Read
<1>8. h = [seq |-> h.seq, counter |-> h.counter, requests |-> h.requests]
  BY HeaderParts
<1>9. QED BY <1>3, <1>7, <1>8
-----------------------------------------------------------------------------
(* What goes up to the firmware.                                           *)

\* The packages under way and, after them, the next one to be sent.
Stream(i) ==
  IF i <= Len(underway) THEN underway[i] ELSE [seq |-> clientSeq, socket |-> socket]

UplinkTypeOK ==
  /\ clientSeq \in Numbers /\ socket \in Nat \ {0}
  /\ underway \in Seq([seq : Numbers, socket : Nat \ {0}])
  /\ serverSeq \in Numbers /\ heard \in Nat \ {0}
  /\ lost \in 0 .. MaxLost /\ steady \in BOOLEAN /\ misread \in BOOLEAN

LEMMA UnderwayIsASequence ==
  ASSUME UplinkTypeOK
  PROVE  /\ Len(underway) \in Nat
         /\ \A i \in 1 .. Len(underway) : underway[i].seq \in Numbers
                                          /\ underway[i].socket \in Nat \ {0}
         /\ underway # << >> =>
              /\ Len(underway) > 0 /\ Head(underway) = underway[1]
              /\ Len(Tail(underway)) = Len(underway) - 1
              /\ \A i \in 1 .. Len(underway) - 1 : Tail(underway)[i] = underway[i + 1]
              /\ Tail(underway) \in Seq([seq : Numbers, socket : Nat \ {0}])
<1> DEFINE P == [seq : Numbers, socket : Nat \ {0}]
<1>1. underway \in Seq(P)
  BY DEF UplinkTypeOK
<1>2. \A i \in 1 .. Len(underway) : underway[i] \in P
  BY <1>1, ElementOfSeq
<1>3. \A p \in P : p.seq \in Numbers /\ p.socket \in Nat \ {0}
  OBVIOUS
<1> HIDE DEF P
<1>4. Len(underway) \in Nat /\ (underway # << >> => Len(underway) > 0)
  BY ONLY <1>1, LenProperties, EmptySeq
<1>5. ASSUME underway # << >>
      PROVE  /\ Head(underway) = underway[1]
             /\ Len(Tail(underway)) = Len(underway) - 1
             /\ \A i \in 1 .. Len(underway) - 1 : Tail(underway)[i] = underway[i + 1]
             /\ Tail(underway) \in Seq(P)
  BY ONLY <1>1, <1>4, <1>5, HeadTailProperties
<1>6. QED BY ONLY <1>2, <1>3, <1>4, <1>5 DEF P

\* What the arrival of a package does: it is the package the client sent.
LEMMA ArrivalIsFaithful ==
  ASSUME UplinkTypeOK, NEW counter \in Counters, NEW data \in Payload \cup {<< >>},
         ReceivePackage(counter, data)
  PROVE  /\ underway # << >> /\ underway' = Tail(underway)
         /\ clientSeq' = clientSeq /\ socket' = socket /\ steady' = steady
         /\ heard' = underway[1].socket
         /\ misread' = misread
         /\ UNCHANGED vars \/ \E d \in Payload : Write(d)
         /\ \/ /\ Newer(underway[1].seq) /\ serverSeq' = underway[1].seq
               /\ refused' = 0 /\ lost' = 0
            \/ /\ ~ Newer(underway[1].seq) /\ serverSeq' = serverSeq /\ lost' = lost
               /\ refused' = IF underway[1].socket = heard THEN refused + 1 ELSE 1
<1> DEFINE package == underway[1]
           header == Header(package.seq, counter, Len(data))
<1>1. underway # << >>
  BY DEF ReceivePackage
<1>2. Head(underway) = package /\ package.seq \in Numbers
  BY <1>1, UnderwayIsASequence
<1>3. Len(data) \in 0 .. MaxPayload /\ (Len(data) # 0 => data \in Payload)
  <2>1. CASE data \in Payload
    <3>1. PICK n \in 1 .. MaxPayload : data \in [1 .. n -> Byte]
      BY <2>1 DEF Payload
    <3>2. Len(data) = n
      BY <3>1, PayloadAssumption
    <3>3. QED BY <2>1, <3>1, <3>2, PayloadAssumption
  <2>2. CASE data = << >>
    BY <2>2, PayloadAssumption
  <2>3. QED BY <2>1, <2>2
<1>4. header \in Headers
  BY <1>2, <1>3 DEF Headers
<1>5. PICK block \in LetThrough[header] :
        IF Newer(Sequence(block))
          THEN /\ serverSeq' = Sequence(block)
               /\ misread' = (misread \/ Read(block) # header)
               /\ refused' = 0 /\ lost' = 0
               /\ ProcessRequest(MapRequest(0, block), data)
          ELSE /\ refused' = IF package.socket = heard THEN refused + 1 ELSE 1
               /\ UNCHANGED <<vars, serverSeq, lost, misread>>
  BY <1>2 DEF ReceivePackage
<1>6. block = Sealed(header)
  BY <1>4, OnlySealedGetThrough
<1>7. Read(block) = header /\ Sequence(block) = header.seq
  BY <1>4, <1>6, ReadsWhatWasWritten
<1>8. header.seq = package.seq
  BY DEF Header
<1>9. MapRequest(0, block) = Request(Len(data))
  <2>1. header.requests = [i \in 1 .. PortCount |-> Request(IF i = 1 THEN Len(data) ELSE 0)]
    BY DEF Header
  <2>2. 1 \in 1 .. PortCount
    BY PortCountAssumption
  <2>3. header.requests[1] = Request(Len(data))
    BY <2>1, <2>2
  <2> HIDE DEF header
  <2>4. Read(block).requests[1] = MapRequest(1 - 1, block)
    BY <2>2 DEF Read
  <2>5. QED BY <1>7, <2>3, <2>4
<1> HIDE DEF header, package
<1>10. ASSUME ProcessRequest(MapRequest(0, block), data)
       PROVE  UNCHANGED vars \/ \E d \in Payload : Write(d)
  <2>1. CASE Len(data) = 0
    BY <1>9, <1>10, <2>1 DEF ProcessRequest, Request, NoCommand, Data
  <2>2. CASE Len(data) # 0
    BY <1>3, <1>9, <1>10, <2>2 DEF ProcessRequest, Request
  <2>3. QED BY <2>1, <2>2
<1>11. /\ underway' = Tail(underway) /\ clientSeq' = clientSeq /\ socket' = socket
       /\ steady' = steady /\ heard' = package.socket
  BY <1>2 DEF ReceivePackage
<1>12. CASE Newer(package.seq)
  <2>1. Newer(Sequence(block))
    BY <1>7, <1>8, <1>12
  <2>2. /\ serverSeq' = package.seq /\ refused' = 0 /\ lost' = 0
        /\ misread' = (misread \/ Read(block) # header)
        /\ ProcessRequest(MapRequest(0, block), data)
    BY <1>5, <1>7, <1>8, <2>1
  <2>3. misread' = misread
    BY <1>7, <2>2 DEF UplinkTypeOK
  <2>4. QED BY <1>1, <1>10, <1>11, <1>12, <2>2, <2>3 DEF package
<1>13. CASE ~ Newer(package.seq)
  BY <1>1, <1>5, <1>7, <1>8, <1>11, <1>13 DEF package
<1>14. QED BY <1>12, <1>13

LEMMA InitUplinkTypeOK == UplinkInit => UplinkTypeOK
<1> SUFFICES ASSUME UplinkInit PROVE UplinkTypeOK
  OBVIOUS
<1>1. /\ clientSeq \in Numbers /\ socket \in Nat \ {0} /\ serverSeq \in Numbers
      /\ heard \in Nat \ {0} /\ lost \in 0 .. MaxLost
  BY UplinkAssumption DEF UplinkInit
<1>2. underway \in Seq([seq : Numbers, socket : Nat \ {0}])
  BY DEF UplinkInit
<1>3. steady \in BOOLEAN /\ misread \in BOOLEAN
  BY DEF UplinkInit
<1>4. QED BY <1>1, <1>2, <1>3 DEF UplinkTypeOK

LEMMA NextUplinkTypeOK == UplinkTypeOK /\ [UplinkNext]_uplinkVars => UplinkTypeOK'
<1> SUFFICES ASSUME UplinkTypeOK, [UplinkNext]_uplinkVars PROVE UplinkTypeOK'
  OBVIOUS
<1> DEFINE P == [seq : Numbers, socket : Nat \ {0}]
<1>1. MaxLost \in Nat
  BY UplinkAssumption
<1>2. CASE SendPackage
  <2>1. Increment(clientSeq) \in Numbers
    BY DEF UplinkTypeOK
  <2>2. [seq |-> clientSeq, socket |-> socket] \in P
    BY DEF UplinkTypeOK
  <2>3. underway' \in Seq(P)
    BY <1>2, <2>2, AppendProperties DEF SendPackage, UplinkTypeOK
  <2>4. QED BY <1>2, <2>1, <2>3 DEF SendPackage, UplinkTypeOK, firmware
<1>3. CASE Renew
  <2>1. socket' \in Nat \ {0} /\ clientSeq' \in Numbers
    BY <1>3 DEF Renew, UplinkTypeOK
  <2>2. steady' \in BOOLEAN
    BY <1>3 DEF Renew
  <2>3. QED BY <1>3, <2>1, <2>2 DEF Renew, UplinkTypeOK, firmware
<1>4. CASE NewSession
  BY <1>1, <1>4 DEF NewSession, UplinkTypeOK, firmware
<1>5. CASE LosePackage \/ ReceiveDamaged
  <2>1. /\ underway # << >> /\ lost < MaxLost
        /\ underway' = Tail(underway) /\ lost' = lost + 1
        /\ UNCHANGED <<clientSeq, socket, steady, serverSeq, heard, misread>>
    BY <1>5 DEF LosePackage, ReceiveDamaged, Gone, firmware
  <2>2. underway' \in Seq(P)
    BY <2>1, UnderwayIsASequence
  <2>3. lost' \in 0 .. MaxLost
    BY <1>1, <2>1 DEF UplinkTypeOK
  <2>4. QED BY <2>1, <2>2, <2>3 DEF UplinkTypeOK
<1>6. ASSUME NEW counter \in Counters, NEW data \in Payload \cup {<< >>},
             ReceivePackage(counter, data)
      PROVE  UplinkTypeOK'
  <2>1. /\ underway # << >> /\ underway' = Tail(underway)
        /\ UNCHANGED <<clientSeq, socket, steady, misread>>
        /\ heard' = underway[1].socket
        /\ serverSeq' \in {serverSeq, underway[1].seq} /\ lost' \in {0, lost}
    BY <1>6, ArrivalIsFaithful
  <2>2. underway' \in Seq(P)
    BY <2>1, UnderwayIsASequence
  <2>3. underway[1].seq \in Numbers /\ underway[1].socket \in Nat \ {0}
    BY <2>1, UnderwayIsASequence
  <2>4. lost' \in 0 .. MaxLost
    BY <1>1, <2>1 DEF UplinkTypeOK
  <2>5. QED BY <2>1, <2>2, <2>3, <2>4 DEF UplinkTypeOK
<1>7. CASE UNCHANGED uplink
  BY <1>7 DEF uplink, firmware, UplinkTypeOK
<1>8. QED BY <1>2, <1>3, <1>4, <1>5, <1>6, <1>7 DEF UplinkNext, Uart, uplinkVars

\* No package is taken for another one, whatever byte of its control block was
\* damaged: the number, the counter and every request the firmware acts on are
\* those the client wrote.  For every number of ports, every width of the
\* numbers and every set of counters.
THEOREM NothingIsEverMisread == UplinkSpec => []NothingIsMisread
<1>1. UplinkInit => UplinkTypeOK /\ NothingIsMisread
  BY InitUplinkTypeOK DEF UplinkInit, NothingIsMisread
<1>2. UplinkTypeOK /\ NothingIsMisread /\ [UplinkNext]_uplinkVars
        => (UplinkTypeOK /\ NothingIsMisread)'
  <2> SUFFICES ASSUME UplinkTypeOK, NothingIsMisread, [UplinkNext]_uplinkVars
               PROVE  NothingIsMisread'
    BY NextUplinkTypeOK
  <2>1. misread' = misread
    <3>1. ASSUME NEW counter \in Counters, NEW data \in Payload \cup {<< >>},
                 ReceivePackage(counter, data)
          PROVE  misread' = misread
      BY <3>1, ArrivalIsFaithful
    <3>2. CASE \/ SendPackage \/ Renew \/ NewSession \/ LosePackage
               \/ ReceiveDamaged \/ Uart \/ UNCHANGED uplinkVars
      BY <3>2 DEF SendPackage, Renew, NewSession, LosePackage, ReceiveDamaged, Uart,
                  uplinkVars, uplink, firmware
    <3>3. QED BY <3>1, <3>2 DEF UplinkNext
  <2>2. QED BY <2>1 DEF NothingIsMisread
<1>3. QED BY <1>1, <1>2, PTL DEF UplinkSpec

\* Over UDP the ring buffer of the port is used as RingBuffer describes it: each
\* step of the uplink writes a payload, drains it, resets it, or leaves it alone.
THEOREM UplinkUsesTheBuffer == UplinkSpec => Spec
<1>1. UplinkInit => Init
  BY DEF UplinkInit
<1>2. UplinkTypeOK /\ [UplinkNext]_uplinkVars => [Next]_vars
  <2> SUFFICES ASSUME UplinkTypeOK, [UplinkNext]_uplinkVars PROVE [Next]_vars
    OBVIOUS
  <2>1. ASSUME NEW counter \in Counters, NEW data \in Payload \cup {<< >>},
               ReceivePackage(counter, data)
        PROVE  [Next]_vars
    BY <2>1, ArrivalIsFaithful DEF Next
  <2>2. CASE Uart
    BY <2>2 DEF Uart, Next
  <2>3. CASE \/ SendPackage \/ Renew \/ NewSession \/ LosePackage
             \/ ReceiveDamaged \/ UNCHANGED uplinkVars
    BY <2>3 DEF SendPackage, Renew, NewSession, LosePackage, ReceiveDamaged, Gone, uplinkVars
  <2>4. QED BY <2>1, <2>2, <2>3 DEF UplinkNext
<1>3. QED BY <1>1, <1>2, InitUplinkTypeOK, NextUplinkTypeOK, PTL DEF UplinkSpec, Spec

\* So the port's data is a bounded queue over UDP too: what the packages carry
\* leaves in the order it came in, and nothing is lost from the middle.
THEOREM UplinkIsAQueue == UplinkSpec => IsAQueue
BY UplinkUsesTheBuffer, RingBufferIsAQueue, PTL

\* And the flag the firmware reports back is never late.
THEOREM UplinkBackPressureIsSafe == UplinkSpec => []BackPressureIsNeverLate
BY UplinkUsesTheBuffer, BackPressureIsSafe, PTL
-----------------------------------------------------------------------------
(* How long the firmware is deaf.                                          *)

\* Where a number lies, counted from the first one the filter refuses: it
\* refuses those up to Half and takes the others.
Zone(seq) == Minus(Minus(seq, serverSeq), Half)

\* Package q was sent right after p, or over a later connection.
Succeeds(p, q) ==
  \/ p.socket < q.socket
  \/ p.socket = q.socket /\ q.seq = Increment(p.seq)

\* Packages arrive in the order they were sent in.
FlightOK ==
  /\ \A i \in 1 .. Len(underway) : /\ Succeeds(Stream(i), Stream(i + 1))
                                   /\ Stream(i).socket <= socket
  /\ heard <= Stream(1).socket

\* As long as the next package comes over the connection whose packages were
\* refused, each refusal and each loss has brought its number nearer to those
\* the filter takes.
DeafOK ==
  /\ refused \in 0 .. Half + 1
  /\ refused > 0 /\ Stream(1).socket = heard =>
       refused <= Zone(Stream(1).seq) /\ Zone(Stream(1).seq) <= Half + 1 + lost

\* With one connection there is nothing but the difference of the starting
\* numbers; then the next package is the next but for those lost.
SteadyOK ==
  steady =>
    /\ socket = 1
    /\ \/ /\ serverSeq = 0 /\ refused <= 2
          /\ Minus(Stream(1).seq, Modulus - 1) = refused + lost
       \/ refused = 0 /\ Minus(Stream(1).seq, serverSeq) = 1 + lost

UplinkIInv == UplinkTypeOK /\ FlightOK /\ DeafOK /\ SteadyOK

LEMMA MinusIsANumber ==
  ASSUME NEW a \in Numbers, NEW b \in Numbers
  PROVE  Minus(a, b) \in Numbers
BY DEF Minus

LEMMA MinusIncrement ==
  ASSUME NEW a \in Numbers, NEW b \in Numbers, Minus(a, b) < Modulus - 1
  PROVE  Minus(Increment(a), b) = Minus(a, b) + 1
BY DEF Minus

LEMMA ZoneIncrement ==
  ASSUME NEW seq \in Numbers, serverSeq \in Numbers, Zone(seq) < Modulus - 1
  PROVE  Zone(Increment(seq)) = Zone(seq) + 1
BY DEF Zone, Minus

LEMMA ZoneDecides ==
  ASSUME NEW seq \in Numbers, serverSeq \in Numbers
  PROVE  /\ Zone(seq) \in Numbers
         /\ Newer(seq) <=> Zone(seq) > Half
         /\ Newer(seq) <=> Minus(seq, serverSeq) \in 1 .. Half - 1
BY DEF Zone, Newer, Minus

LEMMA StreamTypes ==
  ASSUME UplinkTypeOK
  PROVE  \A i \in 1 .. Len(underway) + 1 : /\ Stream(i).seq \in Numbers
                                           /\ Stream(i).socket \in Nat \ {0}
<1>1. /\ clientSeq \in Numbers /\ socket \in Nat \ {0} /\ Len(underway) \in Nat
      /\ \A i \in 1 .. Len(underway) : underway[i].seq \in Numbers
                                       /\ underway[i].socket \in Nat \ {0}
  BY UnderwayIsASequence DEF UplinkTypeOK
<1>2. QED BY ONLY <1>1 DEF Stream

LEMMA InitUplinkIInv == UplinkInit => UplinkIInv
<1> SUFFICES ASSUME UplinkInit PROVE UplinkIInv
  OBVIOUS
<1>1. Len(underway) = 0 /\ Stream(1) = [seq |-> Modulus - 1, socket |-> 1]
  BY DEF UplinkInit, Stream
<1>2. /\ socket = 1 /\ heard = 1 /\ serverSeq = 0 /\ refused = 0 /\ lost = 0
  BY DEF UplinkInit
<1>3. FlightOK
  BY <1>1, <1>2 DEF FlightOK
<1>4. DeafOK
  BY <1>2 DEF DeafOK
<1>5. SteadyOK
  BY <1>1, <1>2 DEF SteadyOK, Minus
<1>6. QED BY <1>3, <1>4, <1>5, InitUplinkTypeOK DEF UplinkIInv

\* The first package under way leaves: the next one takes its place.
LEMMA FirstLeaves ==
  ASSUME UplinkTypeOK, FlightOK, underway # << >>, underway' = Tail(underway),
         clientSeq' = clientSeq, socket' = socket
  PROVE  /\ Stream(1) = underway[1] /\ Stream(1)' = Stream(2)
         /\ Stream(1).seq \in Numbers /\ Stream(1).socket \in Nat \ {0}
         /\ Stream(2).seq \in Numbers /\ Stream(2).socket \in Nat \ {0}
         /\ Succeeds(Stream(1), Stream(2))
         /\ Stream(1).socket <= socket /\ Stream(2).socket <= socket
         /\ \A i \in 1 .. Len(underway)' : /\ Succeeds(Stream(i), Stream(i + 1))'
                                           /\ (Stream(i).socket <= socket)'
<1> DEFINE n == Len(underway)
<1>1. /\ n \in Nat /\ n > 0 /\ Len(underway)' = n - 1
      /\ \A i \in 1 .. n - 1 : underway'[i] = underway[i + 1]
  BY UnderwayIsASequence
<1>2. \A i \in 1 .. n : Stream(i)' = Stream(i + 1)
  BY <1>1 DEF Stream
<1>3. /\ \A i \in 1 .. n : /\ Succeeds(Stream(i), Stream(i + 1))
                           /\ Stream(i).socket <= socket
      /\ \A i \in 1 .. n + 1 : Stream(i).seq \in Numbers /\ Stream(i).socket \in Nat \ {0}
      /\ socket \in Nat \ {0}
  BY StreamTypes DEF FlightOK, UplinkTypeOK
<1>4. Stream(1) = underway[1] /\ Stream(n + 1).socket = socket
  BY <1>1 DEF Stream
<1>5. \A i \in 1 .. n + 1 : Stream(i).socket <= socket
  <2> HIDE DEF n
  <2>1. QED BY ONLY <1>1, <1>3, <1>4
<1>6. ASSUME NEW i \in 1 .. n - 1
      PROVE  Succeeds(Stream(i), Stream(i + 1))' /\ (Stream(i).socket <= socket)'
  <2>1. i \in 1 .. n /\ i + 1 \in 1 .. n /\ i + 1 \in 1 .. n + 1
    BY <1>1
  <2>2. Stream(i)' = Stream(i + 1) /\ Stream(i + 1)' = Stream(i + 1 + 1)
    BY <1>2, <2>1
  <2>3. Succeeds(Stream(i + 1), Stream(i + 1 + 1)) /\ Stream(i + 1).socket <= socket
    BY <1>3, <1>5, <2>1
  <2>4. QED BY <2>2, <2>3 DEF Succeeds
<1>7. 1 \in 1 .. n /\ 1 \in 1 .. n + 1 /\ 2 \in 1 .. n + 1 /\ 1 + 1 = 2
  BY <1>1
<1> HIDE DEF n
<1>8. Stream(1)' = Stream(2) /\ Succeeds(Stream(1), Stream(2))
  BY ONLY <1>2, <1>3, <1>7
<1>9. /\ Stream(1).seq \in Numbers /\ Stream(1).socket \in Nat \ {0}
      /\ Stream(2).seq \in Numbers /\ Stream(2).socket \in Nat \ {0}
      /\ Stream(1).socket <= socket /\ Stream(2).socket <= socket
  BY ONLY <1>3, <1>5, <1>7
<1>10. QED BY <1>1, <1>4, <1>6, <1>8, <1>9

LEMMA SendKeepsUplinkIInv ==
  ASSUME UplinkIInv, SendPackage
  PROVE  FlightOK' /\ DeafOK' /\ SteadyOK'
<1> DEFINE n == Len(underway)
<1>1. /\ UplinkTypeOK /\ FlightOK /\ DeafOK /\ SteadyOK
      /\ underway' = Append(underway, [seq |-> clientSeq, socket |-> socket])
      /\ clientSeq' = Increment(clientSeq)
      /\ UNCHANGED <<socket, serverSeq, heard, refused, lost, steady>>
  BY DEF UplinkIInv, SendPackage, firmware
<1>2. n \in Nat
  BY <1>1, UnderwayIsASequence
<1>3. /\ Len(underway)' = n + 1
      /\ \A i \in 1 .. n : underway'[i] = underway[i]
      /\ underway'[n + 1] = [seq |-> clientSeq, socket |-> socket]
  BY <1>1, AppendProperties DEF UplinkTypeOK
<1>4. /\ \A i \in 1 .. n + 1 : Stream(i)' = Stream(i)
      /\ \A i \in Nat : i = n + 2 => Stream(i)' = [seq |-> Increment(clientSeq), socket |-> socket]
      /\ Stream(n + 1) = [seq |-> clientSeq, socket |-> socket]
  BY <1>1, <1>2, <1>3 DEF Stream
<1>5. Stream(1)' = Stream(1)
  BY <1>2, <1>4
<1>6. socket \in Nat
  BY <1>1 DEF UplinkTypeOK
<1>7. ASSUME NEW i \in 1 .. n + 1
      PROVE  (Succeeds(Stream(i), Stream(i + 1)) /\ Stream(i).socket <= socket)'
  <2>1. CASE i \in 1 .. n
    <3>1. Stream(i)' = Stream(i) /\ Stream(i + 1)' = Stream(i + 1)
      BY <1>2, <1>4, <2>1
    <3>2. Succeeds(Stream(i), Stream(i + 1)) /\ Stream(i).socket <= socket
      BY <1>1, <2>1 DEF FlightOK
    <3>3. QED BY <1>1, <3>1, <3>2 DEF Succeeds
  <2>2. CASE i = n + 1
    <3>1. Stream(i)' = [seq |-> clientSeq, socket |-> socket]
      BY <1>2, <1>4, <2>2
    <3>2. Stream(i + 1)' = [seq |-> Increment(clientSeq), socket |-> socket]
      <4>1. i + 1 \in Nat /\ i + 1 = n + 2
        BY <1>2, <2>2
      <4>2. QED BY <1>4, <4>1
    <3>3. QED BY <1>1, <1>6, <3>1, <3>2 DEF Succeeds
  <2>3. QED BY <1>2, <2>1, <2>2
<1>8. FlightOK'
  <2>1. heard' <= Stream(1)'.socket
    BY <1>1, <1>5 DEF FlightOK
  <2>2. QED BY <1>3, <1>7, <2>1 DEF FlightOK
<1>9. DeafOK'
  BY <1>1, <1>5 DEF DeafOK, Zone
<1>10. SteadyOK'
  BY <1>1, <1>5 DEF SteadyOK
<1>11. QED BY <1>8, <1>9, <1>10

LEMMA RenewKeepsUplinkIInv ==
  ASSUME UplinkIInv, Renew
  PROVE  FlightOK' /\ DeafOK' /\ SteadyOK'
<1> DEFINE n == Len(underway)
<1>1. /\ UplinkTypeOK /\ FlightOK /\ DeafOK
      /\ socket' = socket + 1 /\ clientSeq' = Modulus - 1 /\ steady' = FALSE
      /\ UNCHANGED <<underway, serverSeq, heard, refused, lost>>
  BY DEF UplinkIInv, Renew, firmware
<1>2. n \in Nat /\ socket \in Nat /\ heard \in Nat
  BY <1>1, UnderwayIsASequence DEF UplinkTypeOK
<1>3. /\ \A i \in 1 .. n : Stream(i)' = Stream(i)
      /\ \A i \in Nat : i = n + 1 => /\ Stream(i)' = [seq |-> Modulus - 1, socket |-> socket + 1]
                                     /\ Stream(i) = [seq |-> clientSeq, socket |-> socket]
  BY <1>1, <1>2 DEF Stream
<1>4. \A i \in 1 .. n : Succeeds(Stream(i), Stream(i + 1)) /\ Stream(i).socket <= socket
  BY <1>1 DEF FlightOK
<1>5. \A i \in 1 .. n : Stream(i).socket \in Nat
  BY <1>1, <1>2, StreamTypes
<1>6. ASSUME NEW i \in 1 .. n
      PROVE  (Succeeds(Stream(i), Stream(i + 1)) /\ Stream(i).socket <= socket)'
  <2>1. Stream(i)' = Stream(i) /\ Stream(i).socket <= socket /\ Stream(i).socket \in Nat
    BY <1>3, <1>4, <1>5
  <2>2. Stream(i)'.socket <= socket'
    BY <1>1, <1>2, <2>1
  <2>3. CASE i + 1 \in 1 .. n
    <3>1. Stream(i + 1)' = Stream(i + 1)
      BY <1>3, <2>3
    <3>2. QED BY <1>4, <2>1, <2>2, <3>1 DEF Succeeds
  <2>4. CASE i = n
    <3>1. Stream(i + 1)'.socket = socket + 1
      <4>1. i + 1 \in Nat /\ i + 1 = n + 1
        BY <1>2, <2>4
      <4>2. QED BY <1>3, <4>1
    <3>2. Stream(i)'.socket < Stream(i + 1)'.socket
      BY ONLY <1>2, <2>1, <3>1
    <3>3. QED BY <2>2, <3>2 DEF Succeeds
  <2>5. QED BY <1>2, <2>3, <2>4
<1>7. \/ Stream(1)' = Stream(1)
      \/ n = 0 /\ Stream(1)'.socket = socket + 1 /\ Stream(1).socket = socket
  <2>1. CASE n = 0
    <3>1. 1 \in Nat /\ 1 = n + 1
      BY <2>1
    <3>2. QED BY <1>3, <2>1, <3>1
  <2>2. CASE n # 0
    BY <1>2, <1>3, <2>2
  <2>3. QED BY <2>1, <2>2
<1>8. heard <= Stream(1).socket
  BY <1>1 DEF FlightOK
<1>9. FlightOK'
  <2>1. heard' <= Stream(1)'.socket
    BY <1>1, <1>2, <1>7, <1>8
  <2>2. Len(underway)' = n
    BY <1>1
  <2>3. QED BY <1>6, <2>1, <2>2 DEF FlightOK
<1>10. DeafOK'
  <2>1. CASE Stream(1)' = Stream(1)
    BY <1>1, <2>1 DEF DeafOK, Zone
  <2>2. CASE Stream(1)'.socket = socket + 1 /\ Stream(1).socket = socket
    <3>1. Stream(1)'.socket # heard'
      BY <1>1, <1>2, <1>8, <2>2
    <3>2. QED BY <1>1, <3>1 DEF DeafOK
  <2>3. QED BY <1>7, <2>1, <2>2
<1>11. SteadyOK'
  BY <1>1 DEF SteadyOK
<1>12. QED BY <1>9, <1>10, <1>11

LEMMA GoneKeepsUplinkIInv ==
  ASSUME UplinkIInv, Gone, UNCHANGED firmware
  PROVE  FlightOK' /\ DeafOK' /\ SteadyOK'
<1>1. /\ UplinkTypeOK /\ FlightOK /\ DeafOK /\ SteadyOK
      /\ underway # << >> /\ underway' = Tail(underway) /\ lost < MaxLost /\ lost' = lost + 1
      /\ UNCHANGED <<clientSeq, socket, steady, serverSeq, heard, refused>>
  BY DEF UplinkIInv, Gone, firmware
<1> DEFINE S1 == Stream(1)
           S2 == Stream(2)
<1>2. /\ Stream(1)' = S2 /\ S1.seq \in Numbers /\ S1.socket \in Nat
      /\ S2.seq \in Numbers /\ S2.socket \in Nat
      /\ Succeeds(S1, S2) /\ S1.socket <= socket /\ S2.socket <= socket
      /\ \A i \in 1 .. Len(underway)' : /\ Succeeds(Stream(i), Stream(i + 1))'
                                        /\ (Stream(i).socket <= socket)'
  BY <1>1, FirstLeaves
<1>3. /\ heard \in Nat /\ heard >= 1 /\ socket \in Nat /\ serverSeq \in Numbers
      /\ lost \in Nat /\ MaxLost \in Nat /\ MaxLost + 2 <= Half
      /\ heard <= S1.socket /\ refused \in 0 .. Half + 1
  BY <1>1, UplinkAssumption DEF UplinkTypeOK, FlightOK, DeafOK
<1>4. S1.socket <= S2.socket /\ (S1.socket = S2.socket => S2.seq = Increment(S1.seq))
  BY <1>2 DEF Succeeds
<1> HIDE DEF S1, S2
<1>5. FlightOK'
  <2>1. heard' <= Stream(1)'.socket
    BY <1>1, <1>2, <1>3, <1>4
  <2>2. QED BY <1>2, <2>1 DEF FlightOK
<1>6. DeafOK'
  <2>1. ASSUME refused > 0, S2.socket = heard
        PROVE  refused <= Zone(S2.seq) /\ Zone(S2.seq) <= Half + 1 + (lost + 1)
    <3>1. S1.socket = heard /\ S2.seq = Increment(S1.seq)
      BY <1>2, <1>3, <1>4, <2>1
    <3>2. refused <= Zone(S1.seq) /\ Zone(S1.seq) <= Half + 1 + lost
      BY <1>1, <2>1, <3>1 DEF DeafOK, S1
    <3>3. Zone(S1.seq) \in Numbers /\ Zone(S1.seq) < Modulus - 1
      <4>1. Zone(S1.seq) \in Numbers
        BY <1>2, <1>3, ZoneDecides
      <4>2. Zone(S1.seq) \in Nat
        BY <4>1
      <4>3. Half + 1 + lost < Modulus - 1
        BY <1>1, <1>3
      <4>4. QED BY <1>3, <3>2, <4>1, <4>2, <4>3
    <3>4. Zone(S2.seq) = Zone(S1.seq) + 1
      BY <1>2, <1>3, <3>1, <3>3, ZoneIncrement
    <3>5. QED BY <1>3, <3>2, <3>3, <3>4
  <2>2. Zone(Stream(1).seq)' = Zone(S2.seq)
    BY <1>1, <1>2 DEF Zone
  <2>3. QED BY <1>1, <1>2, <1>3, <2>1, <2>2 DEF DeafOK
<1>7. SteadyOK'
  <2>1. ASSUME steady
        PROVE  /\ socket = 1
               /\ \/ /\ serverSeq = 0 /\ refused <= 2
                     /\ Minus(S2.seq, Modulus - 1) = refused + (lost + 1)
                  \/ refused = 0 /\ Minus(S2.seq, serverSeq) = 1 + (lost + 1)
    <3>1. /\ socket = 1
          /\ \/ /\ serverSeq = 0 /\ refused <= 2
                /\ Minus(S1.seq, Modulus - 1) = refused + lost
             \/ refused = 0 /\ Minus(S1.seq, serverSeq) = 1 + lost
      BY <1>1, <2>1 DEF SteadyOK, S1
    <3>2. S2.seq = Increment(S1.seq)
      BY <1>2, <1>3, <1>4, <3>1
    <3>3. CASE serverSeq = 0 /\ refused <= 2 /\ Minus(S1.seq, Modulus - 1) = refused + lost
      <4>1. Modulus - 1 \in Numbers /\ Minus(S1.seq, Modulus - 1) < Modulus - 1
        BY <1>1, <1>3, <3>3
      <4>2. Minus(S2.seq, Modulus - 1) = Minus(S1.seq, Modulus - 1) + 1
        BY <1>2, <3>2, <4>1, MinusIncrement
      <4>3. QED BY <1>3, <3>1, <3>3, <4>2
    <3>4. CASE refused = 0 /\ Minus(S1.seq, serverSeq) = 1 + lost
      <4>1. Minus(S1.seq, serverSeq) < Modulus - 1
        BY <1>1, <1>3, <3>4
      <4>2. Minus(S2.seq, serverSeq) = Minus(S1.seq, serverSeq) + 1
        BY <1>2, <1>3, <3>2, <4>1, MinusIncrement
      <4>3. QED BY <1>3, <3>1, <3>4, <4>2
    <3>5. QED BY <3>1, <3>3, <3>4
  <2>2. QED BY <1>1, <1>2, <2>1 DEF SteadyOK
<1>8. QED BY <1>5, <1>6, <1>7

LEMMA ReceiveKeepsUplinkIInv ==
  ASSUME UplinkIInv, NEW counter \in Counters, NEW data \in Payload \cup {<< >>},
         ReceivePackage(counter, data)
  PROVE  FlightOK' /\ DeafOK' /\ SteadyOK'
<1> DEFINE S1 == Stream(1)
           S2 == Stream(2)
<1>1. UplinkTypeOK /\ FlightOK /\ DeafOK /\ SteadyOK
  BY DEF UplinkIInv
<1>2. /\ underway # << >> /\ underway' = Tail(underway)
      /\ UNCHANGED <<clientSeq, socket, steady>>
      /\ heard' = underway[1].socket
      /\ \/ /\ Newer(underway[1].seq) /\ serverSeq' = underway[1].seq
            /\ refused' = 0 /\ lost' = 0
         \/ /\ ~ Newer(underway[1].seq) /\ serverSeq' = serverSeq /\ lost' = lost
            /\ refused' = IF underway[1].socket = heard THEN refused + 1 ELSE 1
  BY <1>1, ArrivalIsFaithful
<1>3. /\ S1 = underway[1] /\ Stream(1)' = S2 /\ S1.seq \in Numbers /\ S1.socket \in Nat
      /\ S2.seq \in Numbers /\ S2.socket \in Nat
      /\ Succeeds(S1, S2) /\ S1.socket <= socket /\ S2.socket <= socket
      /\ \A i \in 1 .. Len(underway)' : /\ Succeeds(Stream(i), Stream(i + 1))'
                                        /\ (Stream(i).socket <= socket)'
  BY <1>1, <1>2, FirstLeaves
<1>4. /\ heard \in Nat /\ heard >= 1 /\ socket \in Nat /\ serverSeq \in Numbers
      /\ lost \in Nat /\ lost <= MaxLost /\ MaxLost \in Nat /\ MaxLost + 2 <= Half
      /\ heard <= S1.socket /\ refused \in 0 .. Half + 1
  BY <1>1, UplinkAssumption DEF UplinkTypeOK, FlightOK, DeafOK
<1>5. S1.socket <= S2.socket /\ (S1.socket = S2.socket => S2.seq = Increment(S1.seq))
  BY <1>3 DEF Succeeds
<1>6. /\ heard' = S1.socket
      /\ \/ Newer(S1.seq) /\ serverSeq' = S1.seq /\ refused' = 0 /\ lost' = 0
         \/ /\ ~ Newer(S1.seq) /\ serverSeq' = serverSeq /\ lost' = lost
            /\ refused' = IF S1.socket = heard THEN refused + 1 ELSE 1
  BY <1>2, <1>3
<1>7. refused > 0 /\ S1.socket = heard =>
        refused <= Zone(S1.seq) /\ Zone(S1.seq) <= Half + 1 + lost
  BY <1>1 DEF DeafOK
<1>8. steady =>
        /\ socket = 1
        /\ \/ /\ serverSeq = 0 /\ refused <= 2
              /\ Minus(S1.seq, Modulus - 1) = refused + lost
           \/ refused = 0 /\ Minus(S1.seq, serverSeq) = 1 + lost
  BY <1>1 DEF SteadyOK
<1> HIDE DEF S1, S2
<1>9. FlightOK'
  <2>1. heard' <= Stream(1)'.socket
    BY <1>3, <1>5, <1>6
  <2>2. QED BY <1>3, <2>1 DEF FlightOK
<1>10. DeafOK'
  <2>1. CASE Newer(S1.seq)
    BY <1>6, <2>1 DEF DeafOK
  <2>2. CASE ~ Newer(S1.seq)
    <3>1. /\ serverSeq' = serverSeq /\ lost' = lost
          /\ refused' = IF S1.socket = heard THEN refused + 1 ELSE 1
      BY <1>6, <2>2
    <3>2. Zone(S1.seq) \in Numbers /\ Zone(S1.seq) <= Half
      <4>1. Zone(S1.seq) \in Numbers /\ ~ Zone(S1.seq) > Half
        BY <1>3, <1>4, <2>2, ZoneDecides
      <4>2. QED BY <4>1
    <3>3. refused' \in 1 .. Half + 1 /\ refused' <= Zone(S1.seq) + 1
      BY <1>4, <1>7, <3>1, <3>2
    <3>4. ASSUME S2.socket = S1.socket PROVE Zone(S2.seq) = Zone(S1.seq) + 1
      <4>1. Zone(S1.seq) < Modulus - 1
        BY <1>4, <3>2
      <4>2. QED BY <1>3, <1>4, <1>5, <3>4, <4>1, ZoneIncrement
    <3>5. Zone(Stream(1).seq)' = Zone(S2.seq)
      BY <1>3, <3>1 DEF Zone
    <3>6. ASSUME S2.socket = S1.socket
          PROVE  refused' <= Zone(S2.seq) /\ Zone(S2.seq) <= Half + 1 + lost
      BY <1>4, <3>2, <3>3, <3>4, <3>6
    <3>7. QED BY <1>3, <1>4, <1>6, <3>1, <3>3, <3>5, <3>6 DEF DeafOK
  <2>3. QED BY <2>1, <2>2
<1>11. SteadyOK'
  <2>1. ASSUME steady
        PROVE  /\ socket = 1
               /\ \/ /\ serverSeq' = 0 /\ refused' <= 2
                     /\ Minus(S2.seq, Modulus - 1) = refused' + lost'
                  \/ refused' = 0 /\ Minus(S2.seq, serverSeq') = 1 + lost'
    <3>1. socket = 1 /\ S1.socket = 1 /\ heard = 1 /\ S2.seq = Increment(S1.seq)
      BY <1>3, <1>4, <1>5, <1>8, <2>1
    <3>2. Newer(S1.seq) <=> Minus(S1.seq, serverSeq) \in 1 .. Half - 1
      BY <1>3, <1>4, ZoneDecides
    <3>3. ASSUME Newer(S1.seq)
          PROVE  refused' = 0 /\ Minus(S2.seq, serverSeq') = 1 + lost'
      <4>1. serverSeq' = S1.seq /\ refused' = 0 /\ lost' = 0
        BY <1>6, <3>3
      <4>2. Minus(S1.seq, S1.seq) = 0
        BY <1>3 DEF Minus
      <4>3. Minus(S2.seq, S1.seq) = 1
        BY <1>3, <3>1, <4>2, MinusIncrement
      <4>4. QED BY <4>1, <4>3
    <3>4. CASE serverSeq = 0 /\ refused <= 2 /\ Minus(S1.seq, Modulus - 1) = refused + lost
      <4>1. CASE Newer(S1.seq)
        BY <3>1, <3>3, <4>1
      <4>2. CASE ~ Newer(S1.seq)
        <5>1. serverSeq' = 0 /\ lost' = lost /\ refused' = refused + 1
          BY <1>6, <3>1, <3>4, <4>2
        <5>2. refused + lost <= 1
          <6>1. Minus(S1.seq, 0) = S1.seq
            BY <1>3 DEF Minus
          <6>2. S1.seq \notin 1 .. Half - 1
            BY <3>2, <3>4, <4>2, <6>1
          <6>3. S1.seq \in Int /\ S1.seq >= 0 /\ S1.seq < Modulus
            BY <1>3
          <6>4. refused + lost = IF S1.seq = Modulus - 1 THEN 0 ELSE S1.seq + 1
            BY <3>4, <6>3 DEF Minus
          <6>5. refused + lost <= Half
            BY <1>4, <3>4
          <6>6. QED BY <1>4, <6>2, <6>3, <6>4, <6>5
        <5>3. Minus(S2.seq, Modulus - 1) = Minus(S1.seq, Modulus - 1) + 1
          <6>1. Modulus - 1 \in Numbers /\ Minus(S1.seq, Modulus - 1) < Modulus - 1
            BY <1>4, <3>4, <5>2
          <6>2. QED BY <1>3, <3>1, <6>1, MinusIncrement
        <5>4. QED BY <1>4, <3>1, <3>4, <5>1, <5>2, <5>3
      <4>3. QED BY <4>1, <4>2
    <3>5. CASE refused = 0 /\ Minus(S1.seq, serverSeq) = 1 + lost
      <4>1. Minus(S1.seq, serverSeq) \in 1 .. Half - 1
        BY <1>4, <3>5
      <4>2. QED BY <3>1, <3>2, <3>3, <4>1
    <3>6. QED BY <1>8, <2>1, <3>4, <3>5
  <2>2. QED BY <1>2, <1>3, <2>1 DEF SteadyOK
<1>12. QED BY <1>9, <1>10, <1>11

LEMMA NextUplinkIInv == UplinkIInv /\ [UplinkNext]_uplinkVars => UplinkIInv'
<1> SUFFICES ASSUME UplinkIInv, [UplinkNext]_uplinkVars PROVE UplinkIInv'
  OBVIOUS
<1>1. UplinkTypeOK'
  BY NextUplinkTypeOK DEF UplinkIInv
<1>2. CASE SendPackage
  BY <1>1, <1>2, SendKeepsUplinkIInv DEF UplinkIInv
<1>3. CASE Renew
  BY <1>1, <1>3, RenewKeepsUplinkIInv DEF UplinkIInv
<1>4. CASE NewSession
  <2>1. Len(underway)' = 0 /\ Stream(1)' = [seq |-> Modulus - 1, socket |-> 1]
    BY <1>4 DEF NewSession, Stream
  <2>2. /\ socket' = 1 /\ heard' = 1 /\ serverSeq' = 0 /\ refused' = 0 /\ lost' = 0
    BY <1>4 DEF NewSession
  <2>3. FlightOK'
    BY <2>1, <2>2 DEF FlightOK
  <2>4. DeafOK'
    BY <2>2 DEF DeafOK
  <2>5. SteadyOK'
    BY <2>1, <2>2 DEF SteadyOK, Minus
  <2>6. QED BY <1>1, <2>3, <2>4, <2>5 DEF UplinkIInv
<1>5. CASE LosePackage \/ ReceiveDamaged
  BY <1>1, <1>5, GoneKeepsUplinkIInv DEF UplinkIInv, LosePackage, ReceiveDamaged
<1>6. ASSUME NEW counter \in Counters, NEW data \in Payload \cup {<< >>},
             ReceivePackage(counter, data)
      PROVE  UplinkIInv'
  BY <1>1, <1>6, ReceiveKeepsUplinkIInv DEF UplinkIInv
<1>7. CASE UNCHANGED uplink
  <2>1. UNCHANGED <<clientSeq, socket, underway, serverSeq, heard, refused, lost, steady>>
    BY <1>7 DEF uplink, firmware
  <2>2. FlightOK' /\ DeafOK' /\ SteadyOK'
    BY <2>1 DEF UplinkIInv, FlightOK, DeafOK, SteadyOK, Stream, Zone
  <2>3. QED BY <1>1, <2>2 DEF UplinkIInv
<1>8. QED BY <1>2, <1>3, <1>4, <1>5, <1>6, <1>7 DEF UplinkNext, Uart, uplinkVars

\* Without a UDP connection replaced, the firmware refuses no more than two
\* packages in a row; with one, never more than half of the numbers and one of
\* the same connection.  For every width of the numbers, any number of
\* connections and packages under way, and any loss in a row up to two less than
\* half of the numbers.
THEOREM DeafnessIsAlwaysBounded == UplinkSpec => []DeafnessIsBounded
<1>1. UplinkIInv => DeafnessIsBounded
  BY DEF UplinkIInv, DeafOK, SteadyOK, DeafnessIsBounded
<1>2. QED BY <1>1, InitUplinkIInv, NextUplinkIInv, PTL DEF UplinkSpec
=============================================================================
