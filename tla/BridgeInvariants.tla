-------------------------- MODULE BridgeInvariants --------------------------
(***************************************************************************)
(* The inductive invariants behind the theorems of BridgeProofs and        *)
(* BridgeFlowProofs.  None of the properties of Bridge is inductive: each  *)
(* needs to be told what is still under way.                               *)
(***************************************************************************)
EXTENDS Bridge
-----------------------------------------------------------------------------
(* The fence between sessions: a session belongs to one local client.      *)

\* What is under way: packages of P to the firmware, responses of R back.
Queues(P, R) ==
  /\ up \in [1 .. MaxConns -> Seq(P)] /\ udpUp \in Seq(P)
  /\ down \in [1 .. MaxConns -> Seq(R)] /\ udpDown \in Seq(R)

\* With a reset at every local connection the session id is the number of the
\* local client, until the ids come round again.
FencedPackages == {p \in Packages : p.request.type = "Reset" => p.request.arg = p.from}

\* A response is stamped with the session of the reset the firmware had last,
\* or with none; its data fits into a package.
StampedResponses ==
  {r \in Responses : r.session \in {0, r.gen} /\ Len(r.data) <= PayloadSize}

\* What the receiver has taken for the local client, stored or still in hand.
Taken == got \o accepted

\* The bytes of an earlier local client are those that were in hand when the
\* present one came.
InHand ==
  /\ stray <= PayloadSize /\ Len(accepted) <= PayloadSize
  /\ \A i \in 1 .. Len(Taken) :
       Taken[i][1] <= clients /\ (Taken[i][1] # clients => i <= stray)

Fence ==
  /\ sessionId = clients
  /\ resetPending => client = clients
  /\ outbox \in Seq(FencedPackages)
  /\ Queues(FencedPackages, StampedResponses)
  /\ uart.session \in {0, gen}
  /\ InHand
-----------------------------------------------------------------------------
(* The line, over TCP: all that is under way and in the client's hands is  *)
(* in the order of the local clients, and behind the reset handled last.   *)

Carries(p) == p.request.type \in {"Data", "Reset"}

PayloadOf(p) == IF p.request.type = "Data" THEN p.request.data ELSE << >>

\* Bytes in the order in which the local clients wrote them.
Increasing(s) == \A i, j \in 1 .. Len(s) : i < j => Before(s[i], s[j])

Precedes(s, t) == \A i \in 1 .. Len(s), j \in 1 .. Len(t) : Before(s[i], t[j])

\* Packages with data or a reset of the local clients g to k, of whom k has
\* written m bytes; the data is of the local client the package was made for.
Current(g, k, m) ==
  {p \in Packages :
     /\ Carries(p) => g <= p.from /\ p.from <= k
     /\ p.request.type = "Data" =>
          /\ p.request.data \in Seq({b \in Bytes : b[1] = p.from /\ (p.from = k => b[2] <= m)})
          /\ Increasing(p.request.data)}

\* Bytes of the local client g and of those after it.
Young(g) == {b \in Bytes : b[1] >= g}

Ahead(p, q) ==
  /\ Carries(p) /\ Carries(q) => p.from <= q.from
  /\ Precedes(PayloadOf(p), PayloadOf(q))

\* Connections the firmware still reads from.
Waiting(c) == c = fwConn \/ c > fwConns

InLine ==
  \A c, d \in 1 .. MaxConns : Waiting(c) /\ Waiting(d) =>
    \A i \in 1 .. Len(up[c]), j \in 1 .. Len(up[d]) :
      c < d \/ (c = d /\ i < j) => Ahead(up[c][i], up[d][j])

\* The package with the transports is the last of the line.
LastInLine ==
  outbox # << >> =>
    \A c \in 1 .. MaxConns : Waiting(c) => \A i \in 1 .. Len(up[c]) : Ahead(up[c][i], outbox[1])

OnItsWay ==
  /\ udpUp = << >>
  /\ \A c \in 1 .. MaxConns : c > conns => up[c] = << >>
  /\ \A c \in 1 .. MaxConns : Waiting(c) => up[c] \in Seq(Current(gen, clients, consumed))
  /\ InLine

ToBeSent ==
  /\ outbox \in Seq(Current(gen, clients, consumed))
  /\ outbox # << >> => outbox[1].useTCP
  /\ LastInLine

Arrived ==
  /\ gen <= clients
  /\ out \in Seq(Young(gen)) /\ uart.ring \in Seq(Young(gen))

Line ==
  /\ resetPending => client = clients
  /\ OnItsWay /\ ToBeSent /\ Arrived
-----------------------------------------------------------------------------
(* The bytes of the device and of its ring are in front of the line.       *)

\* What was read of the local clients up to the k-th, who wrote m bytes so far.
Read(k, m) == {b \in Bytes : b[1] < k \/ (b[1] = k /\ b[2] <= m)}

\* The bytes of the line were written in this order, and before all those that
\* are still on their way.
InOrder(line) ==
  /\ line \in Seq(Read(clients, consumed)) /\ Increasing(line)
  /\ \A c \in 1 .. MaxConns : Waiting(c) =>
       \A i \in 1 .. Len(up[c]) : Precedes(line, PayloadOf(up[c][i]))
  /\ outbox # << >> => Precedes(line, PayloadOf(outbox[1]))

Order == InOrder(out \o uart.ring)
-----------------------------------------------------------------------------
(***************************************************************************)
(* The same when data goes over UDP.  The packages to the firmware take    *)
(* several ways, on each of which they stay in order, and none carries a   *)
(* byte that another one has or that is at the device.  Until a reset of   *)
(* another port takes a package with data to TCP, all data goes one way    *)
(* and stays in order.                                                     *)
(***************************************************************************)

\* UDP is way 0, a TCP connection has its number, and what the transports have
\* in hand is on the last one.
Ways == 0 .. MaxConns + 1

Way(c) ==
  IF c = 0 THEN udpUp
  ELSE IF c > MaxConns THEN outbox
  ELSE IF Waiting(c) THEN up[c] ELSE << >>

\* Byte c may come to the device after byte b.
MayFollow(strict, b, c) == IF strict THEN Before(b, c) ELSE b # c

AllFollow(strict, s, t) ==
  \A i \in 1 .. Len(s), j \in 1 .. Len(t) : MayFollow(strict, s[i], t[j])

\* Of the local clients up to the k-th, who wrote m bytes so far, the packages
\* on the ways carry bytes that may follow those of the line.
Carried(strict, line, way, k, m) ==
  \A c \in Ways : \A i \in 1 .. Len(way[c]) :
    LET p == way[c][i]
    IN  /\ PayloadOf(p) \in Seq(Read(k, m)) /\ Increasing(PayloadOf(p))
        /\ AllFollow(strict, line, PayloadOf(p))
        /\ c \in 1 .. MaxConns => p.useTCP
        /\ strict /\ p.useTCP => PayloadOf(p) = << >>

\* No two of them carry the same byte.
Sorted(strict, way) ==
  \A c, d \in Ways : \A i \in 1 .. Len(way[c]), j \in 1 .. Len(way[d]) :
    c < d \/ (c = d /\ i < j) => AllFollow(strict, PayloadOf(way[c][i]), PayloadOf(way[d][j]))

Spread(strict, line, way, k, m) ==
  /\ line \in Seq(Read(k, m))
  /\ \A i, j \in 1 .. Len(line) : i < j => MayFollow(strict, line[i], line[j])
  /\ Carried(strict, line, way, k, m) /\ Sorted(strict, way)

OrderOverUDP ==
  Spread(otherResets = 0, out \o uart.ring, [c \in Ways |-> Way(c)], clients, consumed)
-----------------------------------------------------------------------------
(* The first header the firmware takes is that of the Open.                *)

OpenIsNext == outbox # << >> /\ outbox[1].useTCP /\ outbox[1].header = Interval

\* Until the firmware handles a request of the connection, the first one it
\* will find there is the Open, if it finds any.
FirstIsOpen ==
  fwConns = 0 \/ pollIntervalSetPending =>
    \A c \in 1 .. MaxConns : c = conns =>
      /\ up[c] # << >> => Head(up[c]).header = Interval
      /\ up[c] = << >> => conn = 0 \/ eventCounter = 0 \/ OpenIsNext

FirstHeader ==
  /\ conns = 0 => eventCounter = 0
  /\ eventCounter = 0 => openPending /\ outbox = << >> /\ \A c \in 1 .. MaxConns : up[c] = << >>
  /\ conns # 0 => connected
  /\ pollIntervalSetPending => fwConn # 0
  /\ serverStarted => ~ pollIntervalSetPending /\ fwConns # 0
  /\ FirstIsOpen
  /\ IntervalIsMeant
-----------------------------------------------------------------------------
(***************************************************************************)
(* Flow control, for all sizes and bounds: on the first TCP connection,    *)
(* and after it broke, the device has what its local client wrote, byte    *)
(* for byte; the ring of its port never overflows; and what the client     *)
(* takes for confirmed the firmware has.  The local clients reset the      *)
(* device (-rst), the firmware is there before the first timer event       *)
(* (WarmSpec), and the ring has room for the limit of -rbs above its half. *)
(* That is as little room as will do: TLC finds NoRemoteOverrun violated   *)
(* with one byte less.                                                     *)
(*                                                                         *)
(* None of the three is inductive, and each needs the other two.  The      *)
(* invariant Flow looks at the stream of packages still to be handled:     *)
(*                                                                         *)
(*   Started   the Open comes first in it                                  *)
(*   Counted   the headers in it go up, from the one handled last to the   *)
(*             last timer event, and the answers are stamped in order      *)
(*   Chained   its data goes on, without a gap, from the byte the port     *)
(*             received last to the one the client read last               *)
(*   Narrow    the bytes in it, and those in the upper half of the ring,   *)
(*             are no further apart than the limit                         *)
(*   Ledger    the account lists what is under way, and nothing the        *)
(*             firmware has not; when an answer says that the ring is not  *)
(*             half full, all that window comes after what it confirms     *)
(***************************************************************************)

Live == Reaches(conn)

\* The packages the firmware will handle, in this order: those in the
\* connection, and the one with the transports if it will get there.
Stream ==
  IF Live THEN up[conns] \o outbox
  ELSE IF conns # 0 /\ Waiting(conns) THEN up[conns] ELSE << >>

\* The responses the client will get.
Answers == IF conn = 0 THEN << >> ELSE down[conn]

\* What the device's port has received since its last reset.
Received == Len(out) + Len(uart.ring)

AtStart == fwConns = 0 \/ pollIntervalSetPending

FreshPort == ~ uart.open /\ AtStart
-----------------------------------------------------------------------------
(* Its beginning, its headers and its bytes.                               *)

IsOpen(p)  == p.request.type = "Open"

IsData(p)  == p.request.type = "Data"

IsReset(p) == p.request.type = "Reset"

\* The beginning: the first package is the Open, and the firmware handles it
\* first.
Started ==
  /\ ~ serverStarted /\ udpDown = << >>
  /\ \A c \in 1 .. MaxConns : c > conns => down[c] = << >>
  /\ conns = 0 => eventCounter = 0
  /\ conns # 0 => connected
  /\ openPending <=> eventCounter = 0
  /\ eventCounter = 0 =>
       /\ Stream = << >> /\ outbox = << >> /\ tracker.sent = << >>
       /\ client # 0 => resetPending
       /\ ~ uart.open /\ (fwConn # 0 => pollIntervalSetPending)
  /\ resetPending => client = clients /\ consumed = 0 /\ tracker.sent = << >>
  /\ AtStart => /\ counter = 0
                /\ Stream # << >> => IsOpen(Head(Stream))
                /\ Stream = << >> => eventCounter = 0 \/ ~ Live

\* The headers of the stream s: above the counter c the firmware handled last, up
\* to the last timer event e, and increasing.  Only the Open, which carries the
\* poll interval, is an exception: it comes first, and to a fresh port.
Numbered(s, c, e, fresh) ==
  /\ \A i \in 1 .. Len(s) : IF IsOpen(s[i]) THEN i = 1 /\ fresh
                            ELSE c < s[i].header /\ s[i].header <= e
  /\ \A i, j \in 1 .. Len(s) : i < j /\ ~ IsOpen(s[i]) => s[i].header < s[j].header

\* The responses under way are in the order of their counters, the last of which
\* is not above c.
Answered(a, c) ==
  /\ \A i \in 1 .. Len(a) : a[i].counter <= c
  /\ \A i, j \in 1 .. Len(a) : i < j => a[i].counter <= a[j].counter

Counted ==
  /\ Numbered(Stream, counter, eventCounter, FreshPort)
  /\ counter <= eventCounter
  /\ Answered(Answers, counter)

\* The local client whose bytes come next, and how many of them came, when
\* package p is handled at mark m.
After(m, p) ==
  IF IsReset(p) THEN <<p.from, 0>> ELSE <<m[1], m[2] + Len(PayloadOf(p))>>

\* The data of p is what comes next at mark m.
Fits(m, p) ==
  IsData(p) => /\ p.from = m[1]
               /\ \A i \in 1 .. Len(PayloadOf(p)) : PayloadOf(p)[i] = <<m[1], m[2] + i>>

\* The marks of the stream s from the mark start on, when it has no gap.
Marks(s, start) ==
  {at \in [0 .. Len(s) -> Nat \X Nat] :
     /\ at[0] = start
     /\ \A i \in 1 .. Len(s) : at[i] = After(at[i - 1], s[i]) /\ Fits(at[i - 1], s[i])}

\* The stream goes on where the device's port has come to, and ends with what the
\* local client has written.
Chained ==
  \E at \in Marks(Stream, <<gen, Received>>) :
    Live /\ client # 0 /\ ~ resetPending => at[Len(Stream)] = <<clients, consumed>>
-----------------------------------------------------------------------------
(* The window of bytes that may still come to the upper half of the ring.  *)

Half == (RingCapacity + 1) \div 2

Contents(p) == {PayloadOf(p)[i] : i \in 1 .. Len(PayloadOf(p))}

\* The bytes of the upper half of the ring and of the stream.
Window(ring, s) ==
  {ring[i] : i \in Half + 1 .. Len(ring)}
    \cup {b \in Bytes : \E i \in 1 .. Len(s) : b \in Contents(s[i])}

\* No two bytes of a local client are further apart than the limit.
Narrow(window) ==
  \A x, y \in window : x[1] = y[1] => y[2] < x[2] + BufferLimit
-----------------------------------------------------------------------------
(* The account of unconfirmed data.                                        *)

\* Where each unconfirmed package ends in the bytes of the local client, and,
\* at 0, where the first begins; m bytes were read in all.
Ends(sent, m) ==
  {pos \in [0 .. Len(sent) -> Nat] :
     /\ pos[Len(sent)] = m
     /\ \A i \in 1 .. Len(sent) : pos[i] = pos[i - 1] + sent[i].size
     /\ \A i, j \in 0 .. Len(sent) : i <= j => pos[i] <= pos[j]}

\* Package p carries the j-th unconfirmed data of the local client k.
Covers(p, j, sent, pos, k) ==
  /\ IsData(p) /\ p.from = k /\ p.header = sent[j].counter /\ Len(PayloadOf(p)) = sent[j].size
  /\ \A i \in 1 .. sent[j].size : PayloadOf(p)[i] = <<k, pos[j - 1] + i>>

\* The account numbers what was sent up to the last timer event.
Booked(e, sent) ==
  /\ \A j \in 1 .. Len(sent) : sent[j].counter <= e
  /\ \A i, j \in 1 .. Len(sent) : i < j => sent[i].counter < sent[j].counter

\* What is confirmed, or is up to the firmware's counter, the firmware has: the
\* n bytes it got since the reset of the local client g.
Had(c, n, g, k, sent, pos) ==
  \A j \in 0 .. Len(sent) :
    pos[j] > 0 /\ (j = 0 \/ sent[j].counter <= c) => g = k /\ pos[j] <= n

\* All data of the local client k under way is in the account, and what it sent
\* before its reset request is not.
Listed(s, k, sent, pos) ==
  /\ \A i \in 1 .. Len(s) : IsData(s[i]) /\ s[i].from = k =>
       \E j \in 1 .. Len(sent) : Covers(s[i], j, sent, pos, k)
  /\ \A i \in 1 .. Len(s) : IsReset(s[i]) /\ s[i].from = k =>
       pos[0] = 0 /\ \A j \in 1 .. Len(sent) : s[i].header < sent[j].counter

\* What the firmware has not had is under way, or lost with the connection.
UnderWay(s, c, k, sent, live, pos) ==
  \A j \in 1 .. Len(sent) : c < sent[j].counter =>
    \/ \E i \in 1 .. Len(s) : Covers(s[i], j, sent, pos, k)
    \/ ~ live /\ \A i \in 1 .. Len(s) : IsOpen(s[i]) \/ s[i].header < sent[j].counter

Account(s, c, e, n, g, k, sent, live, pos) ==
  /\ Booked(e, sent) /\ Had(c, n, g, k, sent, pos) /\ Listed(s, k, sent, pos)
  /\ UnderWay(s, c, k, sent, live, pos)

\* When the last response, or one that comes, says that the buffer is free, the
\* window starts after what is, or will be, confirmed.
Free(window, a, blocked, k, sent, pos) ==
  /\ ~ blocked => \A x \in window : x[1] = k => pos[0] < x[2]
  /\ \A i \in 1 .. Len(a) : ~ a[i].blocked =>
       \A x \in window : x[1] = k =>
         \A j \in 0 .. Len(sent) : j = 0 \/ sent[j].counter <= a[i].counter => pos[j] < x[2]

Ledger ==
  \E pos \in Ends(tracker.sent, consumed) :
    /\ Account(Stream, counter, eventCounter, Received, gen, clients, tracker.sent, Live, pos)
    /\ Free(Window(uart.ring, Stream), Answers, tracker.blocked, clients, tracker.sent, pos)

Flow ==
  /\ Started /\ Counted /\ Chained
  /\ Narrow(Window(uart.ring, Stream)) /\ Ledger
  /\ DeviceGetsItsClient /\ NoRemoteOverrun

FlowOverTCP == TypeOK /\ (~ useUDP => Line /\ Order) /\ (~ useUDP /\ conns <= 1 => Flow)
-----------------------------------------------------------------------------
(***************************************************************************)
(* What the local client hears, over TCP and for all sizes and bounds.     *)
(* The local clients reset the device, and no session id is used twice.    *)
(*                                                                         *)
(*   InTurn    the Open comes before the resets in the stream, and these   *)
(*             in the order of the local clients; so the session of the    *)
(*             port only goes up                                           *)
(*   Rising    the sessions of the answers go up to that of the port;      *)
(*             hence, once the local client listens, that is an answer of    *)
(*             its session was taken for it, all the rest are for it       *)
(*   Heard     the answers go on from the byte the client heard last to    *)
(*             the one the device emitted last, but for what the package   *)
(*             in the making has                                           *)
(***************************************************************************)

\* Package p may be followed by q.
Turn(p, q) == IsReset(p) => ~ IsOpen(q) /\ (IsReset(q) => p.from < q.from)

\* Package p is still to be handled, while the port has this session, k local
\* clients have come, and an Open or a reset may still have to be asked for.
Due(p, session, k, opens, resets) ==
  /\ IsOpen(p) => session = 0 /\ ~ opens
  /\ IsReset(p) => /\ session < p.from /\ p.from <= k
                   /\ ~ opens /\ (p.from = k => ~ resets)

TakeTurns(s, session, k, opens, resets) ==
  /\ session <= k /\ (session # 0 => ~ opens) /\ (resets => session < k)
  /\ \A i \in 1 .. Len(s) : Due(s[i], session, k, opens, resets)
  /\ \A i, j \in 1 .. Len(s) : i < j => Turn(s[i], s[j])

\* What the client has put into the first connection and the firmware has not
\* taken out; the package with the transports comes after it.
Sent == IF conns = 0 THEN << >> ELSE up[conns]

InTurn == TakeTurns(Sent \o outbox, uart.session, clients, openPending, resetPending)
-----------------------------------------------------------------------------
(* Answers in order.                                                       *)

\* The sessions of the answers a go up to that of the port.
Rising(a, session) ==
  /\ \A i \in 1 .. Len(a) : a[i].session <= session
  /\ \A i, j \in 1 .. Len(a) : i < j => a[i].session <= a[j].session

\* All that is still to come is for the local client k.
ForClient(a, session, k) == k <= session /\ \A i \in 1 .. Len(a) : k <= a[i].session

\* The bytes s are the last of the n the device has emitted.
LastOf(s, n) == Len(s) <= n /\ \A m \in 1 .. Len(s) : s[m] = (n - Len(s)) + m

\* How far the device had come before each of the answers a, and after them,
\* when they have no gap.
Reports(a) ==
  {at \in [0 .. Len(a) -> Nat] :
     \A i \in 1 .. Len(a) : at[i] = at[i - 1] + Len(a[i].data) /\ LastOf(a[i].data, at[i])}

\* One who has heard the bytes up to heard goes on with the answers a, which go
\* up to the byte end.
Heard(a, listening, heard, live, end) ==
  \E at \in Reports(a) :
    (listening => at[0] = heard) /\ (live => at[Len(a)] = end)

\* The receiver has taken an answer of the session of the local client.
Listening == client # 0 /\ Taken # << >> /\ Taken[Len(Taken)][1] = clients

LastHeard == IF Taken = << >> THEN 0 ELSE Taken[Len(Taken)][2]

\* Neighbours the device emitted for the same local client follow one another.
Gapless(s) ==
  \A i \in 1 .. Len(s) - 1 : s[i][1] = s[i + 1][1] => s[i + 1][2] = s[i][2] + 1

\* Of what the device has emitted, this is in the package in the making.
Kept == IF segmentCounter = 0 THEN 0 ELSE Len(uart.tx)

Linked == conn # 0 /\ fwConn # 0

Quiet ==
  /\ ~ serverStarted /\ udpDown = << >>
  /\ \A c \in 1 .. MaxConns : c > conns => up[c] = << >> /\ down[c] = << >>
  /\ fwConns = 0 => Answers = << >> /\ Taken = << >>

Told ==
  /\ Rising(Answers, uart.session)
  /\ Listening => ForClient(Answers, uart.session, clients)
  /\ segmentCounter # 0 => LastOf(uart.tx, emitted)
  /\ Heard(Answers, Listening, LastHeard, Linked, emitted - Kept)
  /\ Gapless(Taken)

Hearing == Quiet /\ InTurn /\ Told

HearingOverTCP == TypeOK /\ Fence /\ (~ useUDP => Line) /\ (~ useUDP /\ conns <= 1 => Hearing)
=============================================================================
