---------------------------- MODULE BridgeProofs ----------------------------
(***************************************************************************)
(* Theorems about Bridge, for all bounds and sizes: its types, that no     *)
(* local client gets data from before its session, that over TCP no data   *)
(* from before a reset comes to the device after it, that by either        *)
(* transport none comes twice or out of order, and that the firmware gets  *)
(* its poll interval.  The invariants are those of BridgeInvariants; the   *)
(* flow of data is in BridgeFlowProofs.                                    *)
(***************************************************************************)
EXTENDS BridgeInvariants, SequenceTheorems, WellFoundedInduction, TLAPS

Ports == {w \in [open : BOOLEAN, session : 0 .. SessionLimit, ring : Seq(Bytes),
                 tx : Seq(1 .. MaxEmitted), resetting : BOOLEAN] :
            Len(w.ring) <= RingCapacity /\ Len(w.tx) <= PayloadSize}

LEMMA Bounds ==
  /\ MaxTicks \in Nat /\ MaxClients \in Nat /\ MaxBytes \in Nat /\ MaxEmitted \in Nat
  /\ MaxConns \in Nat /\ MaxFlight \in Nat /\ MaxOtherResets \in Nat
  /\ SessionLimit \in Nat \ {0} /\ Aggregate \in Nat \ {0} /\ Interval \in Nat \ {0}
  /\ ResetOnConnect \in BOOLEAN /\ UDPOptions \subseteq BOOLEAN
  /\ RingCapacity \in Nat /\ IOSize \in Nat \ {0} /\ PayloadSize \in Nat \ {0}
BY BridgeAssumption, UartAssumption
-----------------------------------------------------------------------------
(* The port.                                                               *)

LEMMA PrefixType ==
  ASSUME NEW S, NEW s \in Seq(S), NEW n \in Nat, n <= Len(s)
  PROVE  SubSeq(s, 1, n) \in Seq(S) /\ Len(SubSeq(s, 1, n)) = n
<1>1. \A i \in 1 .. n : s[i] \in S
  OBVIOUS
<1>2. QED BY <1>1, SubSeqProperties

LEMMA SuffixType ==
  ASSUME NEW S, NEW s \in Seq(S), NEW n \in Nat, n <= Len(s)
  PROVE  /\ SubSeq(s, n + 1, Len(s)) \in Seq(S) /\ Len(SubSeq(s, n + 1, Len(s))) = Len(s) - n
         /\ \A i \in 1 .. Len(s) - n : SubSeq(s, n + 1, Len(s))[i] = s[n + i]
<1>1. \A i \in n + 1 .. Len(s) : s[i] \in S
  OBVIOUS
<1>2. QED BY <1>1, SubSeqProperties

LEMMA LeastBounds ==
  ASSUME NEW m \in Nat, NEW n \in Nat
  PROVE  Least(m, n) \in 0 .. m /\ Least(m, n) <= n
BY DEF Least

LEMMA PortFields ==
  ASSUME NEW w \in Ports
  PROVE  /\ w.ring \in Seq(Bytes) /\ Len(w.ring) \in 0 .. RingCapacity
         /\ w.tx \in Seq(1 .. MaxEmitted) /\ Len(w.tx) \in 0 .. PayloadSize
         /\ w.session \in 0 .. SessionLimit
BY UartAssumption DEF Ports

LEMMA RequestKeepsPort ==
  ASSUME NEW w \in Ports, NEW r \in Requests
  PROVE  /\ ProcessRequest(w, r) \in Ports
         /\ r.type # "Reset" => ProcessRequest(w, r).session \in {0, w.session}
         /\ r.type = "Reset" => /\ ProcessRequest(w, r).session = r.arg
                                /\ ProcessRequest(w, r).ring = << >>
         /\ r.type \in {"NoCommand", "Open"} => ProcessRequest(w, r).ring \in {<< >>, w.ring}
         /\ r.type = "Data" => \E n \in 0 .. Len(r.data) :
                                 ProcessRequest(w, r).ring = w.ring \o SubSeq(r.data, 1, n)
<1> USE UartAssumption, BridgeAssumption DEF Requests
<1> DEFINE after == ProcessRequest(w, r)
<1>1. << >> \in Seq(Bytes) /\ Len(<< >>) = 0 /\ 0 \in 0 .. SessionLimit
  OBVIOUS
<1>2. CASE r.type = "NoCommand"
  BY <1>2 DEF ProcessRequest
<1>3. CASE r.type = "Open"
  <2>1. r.data = <<"speed">>
    BY <1>3
  <2>2. (r.data # << >>) = TRUE
    <3>1. <<"speed">> # << >>
      OBVIOUS
    <3>2. QED BY <2>1, <3>1, Zenon
  <2>3. after = OnOpen(w, r.data # << >>)
    BY <1>3 DEF ProcessRequest
  <2>4. PICK ring \in {<< >>, w.ring} : after = [w EXCEPT !.ring = ring, !.session = 0, !.open = TRUE]
    BY <2>2, <2>3 DEF OnOpen
  <2>5. ring \in Seq(Bytes) /\ Len(ring) <= RingCapacity
    <3>1. << >> \in Seq(Bytes) /\ Len(<< >>) <= RingCapacity
      BY <1>1
    <3>2. w.ring \in Seq(Bytes) /\ Len(w.ring) <= RingCapacity
      BY PortFields
    <3>3. QED BY ONLY <3>1, <3>2, ring \in {<< >>, w.ring}
  <2>6. after \in Ports /\ after.session = 0 /\ after.ring = ring
    BY ONLY <1>1, <2>4, <2>5, w \in Ports DEF Ports
  <2>7. QED BY <1>3, <2>6
<1>4. CASE r.type = "Reset"
  <2>1. r.arg \in 0 .. SessionLimit
    BY <1>4
  <2>2. after = [w EXCEPT !.resetting = TRUE, !.session = r.arg, !.ring = << >>]
    BY <1>4 DEF ProcessRequest, OnReset
  <2>3. << >> \in Seq(Bytes) /\ Len(<< >>) <= RingCapacity
    BY <1>1
  <2>4. after \in Ports /\ after.session = r.arg /\ after.ring = << >>
    BY ONLY <2>1, <2>2, <2>3, w \in Ports DEF Ports
  <2>5. QED BY <1>4, <2>4
<1>5. CASE r.type = "Data"
  <2>1. r.data \in Seq(Bytes) /\ Len(r.data) \in Nat
    BY <1>5
  <2>2. PICK n : n = Least(Len(r.data), RingCapacity - Len(w.ring))
    OBVIOUS
  <2>3. n \in 0 .. Len(r.data) /\ Len(w.ring) + n <= RingCapacity
    <3>1. Len(w.ring) \in 0 .. RingCapacity
      BY PortFields
    <3>2. Len(r.data) \in Nat
      BY <2>1
    <3>3. PICK used, size : used = Len(w.ring) /\ size = Len(r.data)
      OBVIOUS
    <3>4. used \in Nat /\ size \in Nat /\ RingCapacity - used \in Nat
      BY ONLY <3>1, <3>2, <3>3, UartAssumption
    <3>5. n \in 0 .. size /\ n <= RingCapacity - used
      BY ONLY <2>2, <3>3, <3>4, LeastBounds
    <3>6. QED BY ONLY <3>3, <3>4, <3>5, UartAssumption
  <2>4. PICK ring : ring = w.ring \o SubSeq(r.data, 1, n)
    OBVIOUS
  <2>5. after = [w EXCEPT !.ring = ring]
    BY <1>5, <2>2, <2>4 DEF ProcessRequest, OnData
  <2>6. SubSeq(r.data, 1, n) \in Seq(Bytes) /\ Len(SubSeq(r.data, 1, n)) = n
    BY <2>1, <2>3, PrefixType
  <2>7. ring \in Seq(Bytes) /\ Len(ring) = Len(w.ring) + n
    BY <2>4, <2>6, PortFields, ConcatProperties
  <2>8. w.session \in 0 .. SessionLimit
    BY PortFields
  <2>9. after \in Ports /\ after.session = w.session /\ after.ring = ring
    BY ONLY <2>3, <2>7, <2>5, w \in Ports DEF Ports
  <2>10. QED BY <1>5, <2>3, <2>4, <2>9
<1>6. QED BY <1>2, <1>3, <1>4, <1>5

LEMMA FeedKeepsPort ==
  ASSUME NEW w \in Ports, NEW room \in 1 .. IOSize, WriteSize(w, room) > 0
  PROVE  /\ ProcessRX(w, room) \in Ports /\ ProcessRX(w, room).session = w.session
         /\ Written(w, room) \in Seq(Bytes)
         /\ \E n \in 1 .. Len(w.ring) : /\ Written(w, room) = SubSeq(w.ring, 1, n)
                                        /\ ProcessRX(w, room).ring = SubSeq(w.ring, n + 1, Len(w.ring))
<1>1. PICK n : n = WriteSize(w, room)
  OBVIOUS
<1>2. n \in 1 .. Len(w.ring)
  BY <1>1, UartAssumption, PortFields DEF WriteSize, Least
<1>3. PICK rest : rest = SubSeq(w.ring, n + 1, Len(w.ring))
  OBVIOUS
<1>4. ProcessRX(w, room) = [w EXCEPT !.ring = rest] /\ Written(w, room) = SubSeq(w.ring, 1, n)
  BY <1>1, <1>3 DEF ProcessRX, Written
<1>5. w.ring \in Seq(Bytes) /\ Len(w.ring) \in 0 .. RingCapacity /\ RingCapacity \in Nat
  BY PortFields, UartAssumption
<1>6. /\ SubSeq(w.ring, 1, n) \in Seq(Bytes) /\ rest \in Seq(Bytes) /\ Len(rest) = Len(w.ring) - n
  BY <1>2, <1>3, <1>5, PrefixType, SuffixType
<1>7. Len(rest) <= RingCapacity
  BY ONLY <1>2, <1>5, <1>6
<1>8. /\ ProcessRX(w, room) \in Ports /\ ProcessRX(w, room).session = w.session
      /\ ProcessRX(w, room).ring = rest
  BY ONLY <1>4, <1>6, <1>7, w \in Ports DEF Ports
<1>9. QED BY <1>2, <1>3, <1>4, <1>6, <1>8

LEMMA CollectKeepsPort ==
  ASSUME NEW w \in Ports, NEW first \in BOOLEAN, NEW data \in Seq(1 .. MaxEmitted),
         Len(data) <= ReadSize(w, first) \/ ~ w.open
  PROVE  /\ Collect(w, first, data) \in Ports /\ Collect(w, first, data).session = w.session
         /\ Collect(w, first, data).ring = w.ring /\ Collect(w, first, data).open = w.open
<1>1. PICK kept : kept = IF first THEN << >> ELSE w.tx
  OBVIOUS
<1>2. kept \in Seq(1 .. MaxEmitted) /\ Len(kept) \in 0 .. PayloadSize
  <2>1. CASE first
    <3>1. << >> \in Seq(1 .. MaxEmitted) /\ Len(<< >>) = 0
      OBVIOUS
    <3>2. QED BY <1>1, <2>1, <3>1, UartAssumption
  <2>2. CASE ~ first
    BY <1>1, <2>2, PortFields
  <2>3. QED BY <2>1, <2>2
<1>3. w.open => Len(kept) + Len(data) <= PayloadSize
  <2>1. CASE first
    BY <1>1, <2>1, UartAssumption DEF ReadSize, Least
  <2>2. CASE ~ first
    BY <1>1, <1>2, <2>2, UartAssumption DEF ReadSize, Least
  <2>3. QED BY <2>1, <2>2
<1>4. kept \o data \in Seq(1 .. MaxEmitted) /\ Len(kept \o data) = Len(kept) + Len(data)
  BY <1>2, ConcatProperties
<1>5. PICK both : both = IF w.open THEN kept \o data ELSE kept
  OBVIOUS
<1>6. both \in Seq(1 .. MaxEmitted) /\ Len(both) <= PayloadSize
  <2>1. CASE w.open
    BY <1>2, <1>3, <1>4, <1>5, <2>1
  <2>2. CASE ~ w.open
    BY <1>2, <1>5, <2>2
  <2>3. QED BY <2>1, <2>2
<1>7. Collect(w, first, data) = [w EXCEPT !.tx = both]
  BY <1>1, <1>5 DEF Collect
<1>8. QED BY <1>6, <1>7 DEF Ports
\* What one poll collects, and what the response says of it.
LEMMA PolledPort ==
  ASSUME FirmwareTypeOK, NEW n \in 0 .. IOSize, NEW wrapped \in BOOLEAN, Poll(n, wrapped)
  PROVE  /\ uart' \in Ports /\ emitted' \in 0 .. MaxEmitted
         /\ uart'.session = uart.session /\ uart'.ring = uart.ring /\ uart'.open = uart.open
         /\ LET port == Collect(uart, segmentCounter = 0, [i \in 1 .. n |-> emitted + i])
            IN  /\ Response(port, wrapped) \in Responses
                /\ Response(port, wrapped).session = uart.session
                /\ Response(port, wrapped).gen = gen /\ Response(port, wrapped).counter = counter
                /\ Len(Response(port, wrapped).data) <= PayloadSize
                /\ ~ Response(port, wrapped).blocked => Len(uart.ring) <= (RingCapacity + 1) \div 2
<1>1. /\ uart \in Ports /\ emitted \in 0 .. MaxEmitted /\ counter \in Counters /\ gen \in 0 .. MaxClients
      /\ n \in Nat
  BY DEF FirmwareTypeOK, Ports
<1>2. PICK first \in BOOLEAN : first = (segmentCounter = 0)
  OBVIOUS
<1>3. PICK data : data = [i \in 1 .. n |-> emitted + i]
  OBVIOUS
<1>4. PICK port : port = Collect(uart, segmentCounter = 0, [i \in 1 .. n |-> emitted + i])
  OBVIOUS
<1>5. /\ n \in 0 .. (IF uart.open THEN Least(ReadSize(uart, first), MaxEmitted - emitted) ELSE 0)
      /\ uart' = port /\ emitted' = emitted + n
  BY ONLY Poll(n, wrapped), <1>2, <1>4, Zenon DEF Poll
<1>6. port = Collect(uart, first, data)
  BY ONLY <1>2, <1>3, <1>4, Zenon
<1>7. ReadSize(uart, first) \in Int /\ MaxEmitted - emitted \in Nat
  BY ONLY <1>1, Bounds, PortFields DEF ReadSize, Least
<1>8. /\ emitted + n <= MaxEmitted
      /\ n <= ReadSize(uart, first) \/ ~ uart.open
  BY ONLY <1>1, <1>5, <1>7, Bounds DEF Least
<1>9. data \in Seq(1 .. MaxEmitted) /\ Len(data) = n
  <2>1. \A i \in 1 .. n : emitted + i \in 1 .. MaxEmitted
    BY ONLY <1>1, <1>8, Bounds
  <2>2. data \in [1 .. n -> 1 .. MaxEmitted]
    BY ONLY <1>3, <2>1
  <2>3. data \in Seq(1 .. MaxEmitted)
    BY ONLY <1>1, <2>2, SeqDef
  <2>4. Len(data) = n
    BY ONLY <1>1, <1>3
  <2>5. QED BY ONLY <2>3, <2>4
<1>10. port \in Ports /\ port.session = uart.session /\ port.ring = uart.ring /\ port.open = uart.open
  BY ONLY <1>1, <1>2, <1>6, <1>8, <1>9, CollectKeepsPort
<1>11. /\ Response(port, wrapped) \in Responses
       /\ Response(port, wrapped).session = uart.session
       /\ Response(port, wrapped).gen = gen /\ Response(port, wrapped).counter = counter
       /\ Len(Response(port, wrapped).data) <= PayloadSize
       /\ ~ Response(port, wrapped).blocked => Len(uart.ring) <= (RingCapacity + 1) \div 2
  <2>1. PICK blocked : blocked = HalfUsed(port, wrapped)
    OBVIOUS
  <2>2. blocked \in BOOLEAN
    <3>1. blocked = (Len(port.ring) + (IF wrapped THEN 1 ELSE 0) > (RingCapacity + 1) \div 2)
      BY ONLY <2>1, Zenon DEF HalfUsed
    <3>2. QED BY ONLY <3>1
  <2>3. Response(port, wrapped) = [data |-> port.tx, session |-> port.session, blocked |-> blocked,
                                   counter |-> counter, gen |-> gen]
    BY ONLY <2>1 DEF Response, ProcessTX
  <2>4. /\ port.tx \in Seq(1 .. MaxEmitted) /\ port.session \in 0 .. SessionLimit
        /\ Len(port.tx) <= PayloadSize
    BY ONLY <1>10, PortFields
  <2>5. ~ blocked => Len(uart.ring) <= (RingCapacity + 1) \div 2
    <3>1. PICK used, half : used = Len(uart.ring) /\ half = (RingCapacity + 1) \div 2
      OBVIOUS
    <3>2. used \in Nat /\ half \in Nat
      <4>1. used \in Nat
        BY ONLY <1>1, <3>1, PortFields, LenProperties
      <4>2. half \in Nat
        BY ONLY <3>1, Bounds
      <4>3. QED BY ONLY <4>1, <4>2
    <3>3. blocked <=> used + (IF wrapped THEN 1 ELSE 0) > half
      BY ONLY <1>10, <2>1, <3>1, Zenon DEF HalfUsed
    <3>4. ~ blocked => used <= half
      BY ONLY <3>2, <3>3
    <3>5. QED BY ONLY <3>1, <3>4
  <2>6. QED BY ONLY <1>1, <1>10, <2>2, <2>3, <2>4, <2>5 DEF Responses
<1>12. emitted' \in 0 .. MaxEmitted
  BY ONLY <1>1, <1>5, <1>8, Bounds
<1>13. QED BY ONLY <1>4, <1>5, <1>10, <1>11, <1>12
-----------------------------------------------------------------------------
(* The client.                                                             *)

Trackers == [sent : Seq([counter : 1 .. MaxTicks, size : 1 .. PayloadSize]), blocked : BOOLEAN]

LEMMA MinIsElement ==
  ASSUME NEW T, T \subseteq Nat, T # {}
  PROVE  Min(T) \in T /\ \A n \in T : Min(T) <= n
<1>1. \A R : IsWellFoundedOn(R, Nat) => \E m \in T : \A n \in T : ~ (<<n, m>> \in R)
  BY ONLY T \subseteq Nat, T # {}, WFMin, Zenon
<1>2. IsWellFoundedOn({ss \in Nat \X Nat : ss[1] < ss[2]}, Nat)
  BY ONLY NatLessThanWellFounded DEF OpToRel
<1>3. PICK R : R = {ss \in Nat \X Nat : ss[1] < ss[2]}
  OBVIOUS
<1>4. IsWellFoundedOn(R, Nat)
  BY ONLY <1>2, <1>3
<1>5. PICK m \in T : \A n \in T : ~ (<<n, m>> \in R)
  BY ONLY <1>1, <1>4, Zenon
<1>6. \A n \in T : m <= n
  <2>1. SUFFICES ASSUME NEW n \in T PROVE m <= n
    OBVIOUS
  <2>2. m \in Nat /\ n \in Nat
    OBVIOUS
  <2>3. <<n, m>> \in R <=> n < m
    BY ONLY <1>3, <2>2
  <2>4. ~ (n < m)
    BY ONLY <1>5, <2>1, <2>3
  <2>5. QED BY ONLY <2>2, <2>4
<1>7. QED BY <1>6 DEF Min

\* Confirming takes packages from the front of the account.
LEMMA ConfirmKeepsTracker ==
  ASSUME NEW t \in Trackers, NEW refCounter, NEW blocked \in BOOLEAN
  PROVE  ConfirmPackage(t, refCounter, blocked) \in Trackers
<1> DEFINE Newer == {i \in 1 .. Len(t.sent) : t.sent[i].counter > refCounter}
<1>1. PICK k : k = IF Newer # {} THEN Min(Newer) ELSE 0
  OBVIOUS
<1>2. ConfirmPackage(t, refCounter, blocked)
        = [sent |-> IF k = 0 THEN << >> ELSE SubSeq(t.sent, k, Len(t.sent)), blocked |-> blocked]
  BY <1>1 DEF ConfirmPackage, SelectInSeq
<1>3. t.sent \in Seq([counter : 1 .. MaxTicks, size : 1 .. PayloadSize]) /\ Len(t.sent) \in Nat
  BY DEF Trackers
<1>4. k \in 0 .. Len(t.sent)
  <2>1. CASE Newer = {}
    BY <1>1, <1>3, <2>1
  <2>2. CASE Newer # {}
    <3>1. Min(Newer) \in Newer
      BY ONLY <2>2, Newer \subseteq Nat, MinIsElement
    <3>2. QED BY <1>1, <2>2, <3>1
  <2>3. QED BY <2>1, <2>2
<1>5. (IF k = 0 THEN << >> ELSE SubSeq(t.sent, k, Len(t.sent)))
        \in Seq([counter : 1 .. MaxTicks, size : 1 .. PayloadSize])
  <2>1. CASE k = 0
    BY <2>1
  <2>2. CASE k # 0
    <3>1. k - 1 \in Nat /\ k - 1 <= Len(t.sent) /\ (k - 1) + 1 = k
      BY <1>3, <1>4, <2>2
    <3>2. QED BY <1>3, <2>2, <3>1, SuffixType
  <2>3. QED BY <2>1, <2>2
<1>6. QED BY <1>2, <1>5 DEF Trackers

\* A package on its way to a transport.
LEMMA PackedIsPackage ==
  ASSUME ClientTypeOK, NEW request \in Requests, Tick, Pack(request)
  PROVE  /\ eventCounter' \in 1 .. MaxTicks /\ otherResets' \in 0 .. MaxOtherResets
         /\ outbox' \in Seq(Packages) /\ Len(outbox') = 1
         /\ outbox'[1] \in Packages /\ outbox'[1].request = request /\ outbox'[1].from = client
         /\ ~ useUDP => outbox'[1].useTCP
<1> USE Bounds DEF ClientTypeOK
<1>1. eventCounter' \in 1 .. MaxTicks
  BY DEF Tick
<1>2. PICK header \in {Interval, eventCounter'}, useTCP \in BOOLEAN :
        /\ outbox' = <<[request |-> request, header |-> header, useTCP |-> useTCP, from |-> client]>>
        /\ ~ useUDP => useTCP
  <2>1. PICK otherReset \in BOOLEAN :
          outbox' = <<[request |-> request,
                       header  |-> IF request.type = "Open" THEN Interval ELSE eventCounter',
                       useTCP  |-> UsesTCP(request) \/ otherReset,
                       from    |-> client]>>
    BY DEF Pack
  <2>2. PICK header : header = IF request.type = "Open" THEN Interval ELSE eventCounter'
    OBVIOUS
  <2>3. PICK useTCP \in BOOLEAN : useTCP = (UsesTCP(request) \/ otherReset)
    BY ONLY Zenon DEF UsesTCP
  <2>4. outbox' = <<[request |-> request, header |-> header,
                     useTCP |-> UsesTCP(request) \/ otherReset, from |-> client]>>
    BY ONLY <2>1, <2>2, Zenon
  <2>5. outbox' = <<[request |-> request, header |-> header, useTCP |-> useTCP, from |-> client]>>
    BY ONLY <2>3, <2>4, Zenon
  <2>6. header \in {Interval, eventCounter'}
    BY ONLY <2>2
  <2>7. ~ useUDP => useTCP
    BY ONLY <2>3, Zenon DEF UsesTCP
  <2>8. QED BY ONLY <2>5, <2>6, <2>7, useTCP \in BOOLEAN, Zenon
<1>3. PICK package : package = [request |-> request, header |-> header,
                                useTCP |-> useTCP, from |-> client]
  OBVIOUS
<1>4. package \in Packages
  BY <1>1, <1>2, <1>3 DEF Packages, Counters
<1>5. outbox' = <<package>>
  BY ONLY <1>2, <1>3, Zenon
<1>6. package.request = request /\ package.from = client /\ package.useTCP = useTCP
  BY ONLY <1>3, Zenon
<1>7. otherResets' \in 0 .. MaxOtherResets
  BY DEF Pack
<1>8. QED BY <1>1, <1>2, <1>7, <1>4, <1>5, <1>6

\* The bytes of a local client that go into a package.
LEMMA ReadBytes ==
  ASSUME NEW c \in 1 .. MaxClients, NEW k \in Nat, NEW n \in Nat, k + n <= MaxBytes
  PROVE  /\ [i \in 1 .. n |-> <<c, k + i>>] \in Seq(Bytes)
         /\ [i \in 1 .. n |-> <<c, k + i>>] \in Seq({b \in Bytes : b[1] = c})
         /\ Len([i \in 1 .. n |-> <<c, k + i>>]) = n
<1>1. \A i \in 1 .. n : <<c, k + i>> \in Bytes
  BY Bounds DEF Bytes
<1>2. [i \in 1 .. n |-> <<c, k + i>>] \in [1 .. n -> Bytes]
  BY <1>1
<1>3. [i \in 1 .. n |-> <<c, k + i>>] \in [1 .. n -> {b \in Bytes : b[1] = c}]
  BY <1>1
<1>4. [i \in 1 .. n |-> <<c, k + i>>] \in Seq(Bytes)
  BY <1>2, SeqDef
<1>5. [i \in 1 .. n |-> <<c, k + i>>] \in Seq({b \in Bytes : b[1] = c})
  BY <1>3, SeqDef
<1>6. QED BY <1>4, <1>5

\* The bytes of a response, stamped for the local client.
LEMMA StampedBytes ==
  ASSUME NEW g, NEW s \in Seq(1 .. MaxEmitted)
  PROVE  LET t == [i \in 1 .. Len(s) |-> <<g, s[i]>>]
         IN  t \in Seq({g} \X (1 .. MaxEmitted)) /\ Len(t) = Len(s)
<1>1. \A i \in 1 .. Len(s) : <<g, s[i]>> \in {g} \X (1 .. MaxEmitted)
  BY ElementOfSeq
<1>2. Len(s) \in Nat
  OBVIOUS
<1>3. [i \in 1 .. Len(s) |-> <<g, s[i]>>] \in [1 .. Len(s) -> {g} \X (1 .. MaxEmitted)]
  BY <1>1
<1>4. QED BY <1>2, <1>3, SeqDef

LEMMA ResponseTypes ==
  ASSUME ClientTypeOK, NEW response \in Responses, CheckResponse(response)
  PROVE  /\ tracker' \in Trackers
         /\ accepted' \in Seq((0 .. MaxClients) \X (1 .. MaxEmitted))
<1>1. tracker' \in Trackers
  <2>1. tracker \in Trackers /\ response.blocked \in BOOLEAN
    BY DEF ClientTypeOK, Trackers, Responses
  <2>2. QED BY <2>1, ConfirmKeepsTracker DEF CheckResponse
<1>2. PICK more : more = [i \in 1 .. Len(response.data) |-> <<response.gen, response.data[i]>>]
  OBVIOUS
<1>3. more \in Seq((0 .. MaxClients) \X (1 .. MaxEmitted))
  <2>1. response.gen \in 0 .. MaxClients /\ response.data \in Seq(1 .. MaxEmitted)
    BY DEF Responses
  <2>2. more \in Seq({response.gen} \X (1 .. MaxEmitted))
    BY <1>2, <2>1, StampedBytes
  <2>3. {response.gen} \X (1 .. MaxEmitted) \subseteq (0 .. MaxClients) \X (1 .. MaxEmitted)
    BY <2>1
  <2>4. QED BY ONLY <2>2, <2>3, SeqMonotonic
<1>4. accepted' \in {<< >>, more}
  BY <1>2 DEF CheckResponse
<1>5. << >> \in Seq((0 .. MaxClients) \X (1 .. MaxEmitted))
  BY ONLY EmptySeq
<1>6. QED BY ONLY <1>1, <1>3, <1>4, <1>5

LEMMA NextSessionType ==
  ASSUME NEW s \in 0 .. SessionLimit
  PROVE  NextSession(s) \in 1 .. SessionLimit
BY Bounds DEF NextSession

LEMMA DataIsRequest ==
  ASSUME ClientTypeOK, NEW n \in 1 .. MaxBytes, PrepareData(n)
  PROVE  /\ Request("Data", 0, [i \in 1 .. n |-> <<client, consumed + i>>]) \in Requests
         /\ [i \in 1 .. n |-> <<client, consumed + i>>] \in Seq({b \in Bytes : b[1] = client})
<1>1. client # 0 /\ consumed + n <= MaxBytes
  BY DEF PrepareData, MayRead
<1>2. client \in 1 .. MaxClients /\ consumed \in Nat /\ n \in Nat
  BY <1>1, Bounds DEF ClientTypeOK
<1>3. PICK data : data = [i \in 1 .. n |-> <<client, consumed + i>>]
  OBVIOUS
<1>4. data \in Seq(Bytes) /\ data \in Seq({b \in Bytes : b[1] = client})
  BY ONLY <1>1, <1>2, <1>3, ReadBytes
<1>5. Request("Data", 0, data) \in Requests
  BY ONLY <1>4 DEF Request, Requests
<1>6. QED BY ONLY <1>3, <1>4, <1>5

LEMMA ClientTypes ==
  ASSUME TypeOK, Next
  PROVE  ClientTypeOK'
<1> USE Bounds
<1>1. ClientTypeOK /\ useUDP' = useUDP /\ conns \in 0 .. MaxConns
  BY DEF TypeOK, NetworkTypeOK, Next
<1>2. ASSUME NEW request \in Requests, Tick, Pack(request),
             resetPending' \in BOOLEAN, openPending' \in BOOLEAN, client' \in {0, clients},
             consumed' \in 0 .. MaxBytes, tracker' \in Trackers,
             UNCHANGED <<connected, sessionId, clients, accepted, got, stray>>
      PROVE  ClientTypeOK'
  <2>1. /\ eventCounter' \in 1 .. MaxTicks /\ otherResets' \in 0 .. MaxOtherResets
        /\ outbox' \in Seq(Packages) /\ Len(outbox') = 1
    BY <1>1, <1>2, PackedIsPackage
  <2>2. eventCounter' \in 0 .. MaxTicks /\ Len(outbox') <= 1
    BY ONLY <2>1
  <2>3. QED BY ONLY <1>1, <1>2, <2>1, <2>2 DEF ClientTypeOK, Trackers
<1>3. /\ resetPending \in BOOLEAN /\ openPending \in BOOLEAN /\ client \in {0, clients}
       /\ clients \in 0 .. MaxClients /\ consumed \in 0 .. MaxBytes /\ tracker \in Trackers
       /\ sessionId \in 0 .. SessionLimit /\ got \in Seq((0 .. MaxClients) \X (1 .. MaxEmitted))
       /\ accepted \in Seq((0 .. MaxClients) \X (1 .. MaxEmitted)) /\ stray \in Nat
  BY ONLY <1>1 DEF ClientTypeOK, Trackers
<1>4. CASE UNCHANGED clientVars
  BY <1>1, <1>4 DEF ClientTypeOK, clientVars, roundVars, portVars
<1>5. CASE OnPortOpen
  <2>1. sessionId' \in 0 .. SessionLimit
    <3>1. NextSession(sessionId) \in 1 .. SessionLimit
      BY ONLY <1>3, NextSessionType
    <3>2. sessionId' \in {sessionId, NextSession(sessionId)}
      BY <1>5 DEF OnPortOpen
    <3>3. QED BY ONLY <1>3, <3>1, <3>2, Bounds
  <2>2. tracker' \in Trackers
    <3>1. tracker \in Trackers /\ << >> \in Seq([counter : 1 .. MaxTicks, size : 1 .. PayloadSize])
      BY <1>1 DEF ClientTypeOK, Trackers
    <3>2. tracker' \in {tracker, [tracker EXCEPT !.sent = << >>]}
      BY <1>5 DEF OnPortOpen, ResetTracker
    <3>3. QED BY <3>1, <3>2 DEF Trackers
  <2>3. got' \in Seq((0 .. MaxClients) \X (1 .. MaxEmitted))
    <3>1. got' \in {got, << >>}
      BY <1>5 DEF OnPortOpen
    <3>2. << >> \in Seq((0 .. MaxClients) \X (1 .. MaxEmitted))
      BY ONLY EmptySeq
    <3>3. QED BY ONLY <1>3, <3>1, <3>2
  <2>4. /\ clients' \in 0 .. MaxClients /\ client' \in {0, clients'} /\ consumed' \in 0 .. MaxBytes
        /\ resetPending' \in BOOLEAN
    BY <1>5, <1>3, Bounds DEF OnPortOpen
  <2>5. UNCHANGED <<eventCounter, otherResets, outbox, connected, openPending, accepted>>
    BY <1>5 DEF OnPortOpen, roundVars
  <2>6. stray' \in Nat
    <3>1. Len(accepted) \in Nat
      BY ONLY <1>3, LenProperties
    <3>2. stray' \in {stray, Len(accepted)}
      BY <1>5 DEF OnPortOpen
    <3>3. QED BY ONLY <1>3, <3>1, <3>2
  <2>7. QED BY ONLY <1>1, <2>1, <2>2, <2>3, <2>4, <2>5, <2>6 DEF ClientTypeOK, Trackers
<1>6. CASE PrepareNothing \/ PrepareIdle
  <2>1. NoCommand \in Requests
    BY DEF NoCommand, Request, Requests
  <2>2. Tick /\ Pack(NoCommand) /\ UNCHANGED portVars
    BY <1>6 DEF PrepareNothing, PrepareIdle
  <2>3. QED BY <1>2, <1>3, <2>1, <2>2 DEF portVars
<1>7. CASE PrepareOpen
  <2>1. Request("Open", 0, <<"speed">>) \in Requests
    BY DEF Request, Requests
  <2>2. Tick /\ Pack(Request("Open", 0, <<"speed">>)) 
    BY <1>7 DEF PrepareOpen
  <2>3. /\ resetPending' \in BOOLEAN /\ openPending' \in BOOLEAN /\ client' \in {0, clients}
        /\ consumed' \in 0 .. MaxBytes /\ tracker' \in Trackers
        /\ UNCHANGED <<connected, sessionId, clients, accepted, got, stray>>
    BY ONLY <1>7, <1>3 DEF PrepareOpen
  <2>4. QED BY ONLY <1>2, <2>1, <2>2, <2>3
<1>8. CASE PrepareReset
  <2>1. Request("Reset", sessionId, << >>) \in Requests
    BY <1>1 DEF Request, Requests, ClientTypeOK
  <2>2. Tick /\ Pack(Request("Reset", sessionId, << >>)) 
    BY <1>8 DEF PrepareReset
  <2>3. /\ resetPending' \in BOOLEAN /\ openPending' \in BOOLEAN /\ client' \in {0, clients}
        /\ consumed' \in 0 .. MaxBytes /\ tracker' \in Trackers
        /\ UNCHANGED <<connected, sessionId, clients, accepted, got, stray>>
    BY ONLY <1>8, <1>3 DEF PrepareReset
  <2>4. QED BY ONLY <1>2, <2>1, <2>2, <2>3
<1>9. CASE PrepareHangup
  <2>1. NoCommand \in Requests
    BY DEF NoCommand, Request, Requests
  <2>2. Tick /\ Pack(NoCommand)
    BY <1>9 DEF PrepareHangup, MayRead
  <2>3. /\ resetPending' \in BOOLEAN /\ openPending' \in BOOLEAN /\ client' \in {0, clients}
        /\ consumed' \in 0 .. MaxBytes /\ tracker' \in Trackers
        /\ UNCHANGED <<connected, sessionId, clients, accepted, got, stray>>
    BY ONLY <1>9, <1>3 DEF PrepareHangup
  <2>4. QED BY ONLY <1>2, <2>1, <2>2, <2>3
<1>10. ASSUME NEW n \in 1 .. MaxBytes, PrepareData(n)
      PROVE  ClientTypeOK'
  <2>1. /\ Tick /\ n \in 1 .. PayloadSize /\ consumed + n <= MaxBytes
        /\ consumed' = consumed + n
        /\ UNCHANGED <<connected, openPending, resetPending, sessionId, client, clients, accepted,
                       got, stray>>
    BY ONLY <1>10 DEF PrepareData, MayRead
  <2>2. consumed' \in 0 .. MaxBytes
    BY ONLY <1>3, <2>1, Bounds
  <2>3. PICK request : request = Request("Data", 0, [i \in 1 .. n |-> <<client, consumed + i>>])
    OBVIOUS
  <2>4. request \in Requests
    BY ONLY <1>1, <1>10, <2>3, DataIsRequest
  <2>5. Pack(request)
    BY ONLY <1>10, <2>3, Zenon DEF PrepareData
  <2>6. eventCounter' \in 1 .. MaxTicks
    BY ONLY <1>1, <2>1, <2>4, <2>5, PackedIsPackage
  <2>7. tracker' \in Trackers
    <3>1. tracker' = [tracker EXCEPT !.sent = Append(tracker.sent, [counter |-> eventCounter', size |-> n])]
      BY <1>10 DEF PrepareData, AddPackage
    <3>2. PICK package : package = [counter |-> eventCounter', size |-> n]
      OBVIOUS
    <3>3. package \in [counter : 1 .. MaxTicks, size : 1 .. PayloadSize]
      BY ONLY <2>1, <2>6, <3>2
    <3>4. tracker.sent \in Seq([counter : 1 .. MaxTicks, size : 1 .. PayloadSize])
      BY ONLY <1>3 DEF Trackers
    <3>5. PICK sent : sent = Append(tracker.sent, package)
      OBVIOUS
    <3>6. sent \in Seq([counter : 1 .. MaxTicks, size : 1 .. PayloadSize])
      BY ONLY <3>3, <3>4, <3>5
    <3>7. tracker' = [tracker EXCEPT !.sent = sent]
      BY ONLY <3>1, <3>2, <3>5
    <3>8. QED BY ONLY <1>3, <3>6, <3>7 DEF Trackers
  <2>8. client' \in {0, clients} /\ resetPending' \in BOOLEAN /\ openPending' \in BOOLEAN
    BY ONLY <1>3, <2>1
  <2>9. QED BY ONLY <1>2, <2>1, <2>2, <2>4, <2>5, <2>7, <2>8
<1>11. CASE Send
  BY <1>1, <1>11 DEF Send, ClientTypeOK, roundVars, portVars, NoPackage
<1>12. CASE Connect
  BY <1>1, <1>12 DEF Connect, ClientTypeOK, roundVars
<1>13. ASSUME NEW response \in Responses, CheckResponse(response)
       PROVE  ClientTypeOK'
  BY <1>1, <1>13, ResponseTypes DEF ClientTypeOK, Trackers, CheckResponse, roundVars
<1>14. CASE ReceiveTCP
  <2>1. conn \in 1 .. MaxConns /\ down[conn] \in Seq(Responses) /\ down[conn] # << >>
    BY <1>14 DEF ReceiveTCP, TypeOK, NetworkTypeOK
  <2>2. Head(down[conn]) \in Responses
    BY <2>1, HeadTailProperties
  <2>3. QED BY <1>13, <1>14, <2>2 DEF ReceiveTCP
<1>15. ASSUME NEW i \in 1 .. Len(udpDown), ReceiveUDP(i)
       PROVE  ClientTypeOK'
  <2>1. udpDown[i] \in Responses
    BY DEF TypeOK, NetworkTypeOK
  <2>2. QED BY <1>13, <1>15, <2>1 DEF ReceiveUDP
<1>16. CASE Disconnect
  BY <1>4, <1>16 DEF Disconnect
<1>17. CASE Firmware
  BY <1>4, <1>17 DEF Firmware, Accept, Drop, RequestTCP, RequestUDP, FeedUART, EndReset, Poll
<1>18. CASE StoreResponse
  <2>1. got' \in Seq((0 .. MaxClients) \X (1 .. MaxEmitted))
    BY ONLY <1>3, <1>18, ConcatProperties DEF StoreResponse
  <2>2. accepted' \in Seq((0 .. MaxClients) \X (1 .. MaxEmitted))
    BY ONLY <1>18, EmptySeq DEF StoreResponse
  <2>3. QED BY <1>1, <1>18, <2>1, <2>2 DEF StoreResponse, ClientTypeOK, roundVars
<1>19. QED
  BY <1>5, <1>6, <1>7, <1>8, <1>9, <1>10, <1>11, <1>12, <1>14, <1>15, <1>16, <1>17, <1>18
     DEF Next, Client
-----------------------------------------------------------------------------
(* The network.                                                            *)

\* Only Send and Poll put something into the queues.
LEMMA QueuesKept ==
  ASSUME NEW P, NEW R, NetworkTypeOK, FirmwareTypeOK, Queues(P, R), outbox \in Seq(P), Next,
         \A n \in 0 .. IOSize, wrapped \in BOOLEAN : Poll(n, wrapped) =>
           Response(Collect(uart, segmentCounter = 0, [i \in 1 .. n |-> emitted + i]), wrapped) \in R
  PROVE  Queues(P, R)'
<1>1. conns \in 0 .. MaxConns /\ conn \in {0, conns} /\ fwConns \in 0 .. conns /\ fwConn \in {0, fwConns}
  BY DEF NetworkTypeOK, FirmwareTypeOK
<1>2. /\ \A c \in 1 .. MaxConns : up[c] \in Seq(P) /\ down[c] \in Seq(R)
      /\ up \in [1 .. MaxConns -> Seq(P)] /\ udpUp \in Seq(P)
      /\ down \in [1 .. MaxConns -> Seq(R)] /\ udpDown \in Seq(R)
  BY DEF Queues
<1>3. conn # 0 => conn \in 1 .. MaxConns
  BY ONLY <1>1, Bounds
<1>4. fwConn # 0 => fwConn \in 1 .. MaxConns
  BY ONLY <1>1, Bounds
<1>5. << >> \in Seq(P) /\ << >> \in Seq(R)
  BY ONLY EmptySeq
<1>6. CASE UNCHANGED <<up, udpUp, down, udpDown>>
  BY ONLY <1>2, <1>6 DEF Queues
<1>7. CASE Send
  <2>1. PICK package : package = outbox[1]
    OBVIOUS
  <2>2. package \in P
    BY <1>7, <2>1 DEF Send, NoPackage
  <2>3. UNCHANGED <<down, udpDown>>
    BY <1>7 DEF Send
  <2>4. udpUp' \in {udpUp, Append(udpUp, package)}
    BY ONLY <1>7, <2>1 DEF Send
  <2>5. \/ up' = up
        \/ conn # 0 /\ up' = [up EXCEPT ![conn] = Append(@, package)]
    BY ONLY <1>7, <2>1 DEF Send, Reaches
  <2>6. udpUp' \in Seq(P)
    BY ONLY <1>2, <2>2, <2>4, AppendProperties
  <2>7. up' \in [1 .. MaxConns -> Seq(P)]
    <3>1. CASE up' = up
      BY ONLY <1>2, <3>1
    <3>2. CASE conn # 0 /\ up' = [up EXCEPT ![conn] = Append(@, package)]
      <4>1. conn \in 1 .. MaxConns /\ Append(up[conn], package) \in Seq(P)
        BY ONLY <1>2, <1>3, <2>2, <3>2, AppendProperties
      <4>2. QED BY ONLY <1>2, <3>2, <4>1
    <3>3. QED BY ONLY <2>5, <3>1, <3>2
  <2>8. QED BY ONLY <1>2, <2>3, <2>6, <2>7 DEF Queues
<1>8. CASE Connect
  BY ONLY <1>2, <1>5, <1>8 DEF Connect, Queues
<1>9. CASE ReceiveTCP
  <2>1. conn \in 1 .. MaxConns /\ down[conn] # << >> /\ down' = [down EXCEPT ![conn] = Tail(@)]
    BY ONLY <1>3, <1>9 DEF ReceiveTCP
  <2>2. Tail(down[conn]) \in Seq(R)
    BY ONLY <1>2, <2>1, HeadTailProperties
  <2>3. down' \in [1 .. MaxConns -> Seq(R)]
    BY ONLY <1>2, <2>1, <2>2
  <2>4. UNCHANGED <<up, udpUp, udpDown>>
    BY <1>9 DEF ReceiveTCP, udpVars
  <2>5. QED BY ONLY <1>2, <2>3, <2>4 DEF Queues
<1>10. ASSUME NEW i \in 1 .. Len(udpDown), ReceiveUDP(i)
       PROVE  Queues(P, R)'
  <2>1. i \in Nat /\ i <= Len(udpDown)
    BY ONLY <1>2, i \in 1 .. Len(udpDown), LenProperties
  <2>2. Later(udpDown, i) \in Seq(R)
    BY ONLY <1>2, <2>1, SuffixType DEF Later
  <2>3. UNCHANGED <<up, down, udpUp>> /\ udpDown' = Later(udpDown, i)
    BY ONLY <1>10 DEF ReceiveUDP, tcpVars
  <2>4. QED BY ONLY <1>2, <2>2, <2>3 DEF Queues
<1>11. CASE RequestTCP
  <2>1. fwConn \in 1 .. MaxConns /\ up[fwConn] # << >> /\ up' = [up EXCEPT ![fwConn] = Tail(@)]
    BY ONLY <1>4, <1>11 DEF RequestTCP
  <2>2. Tail(up[fwConn]) \in Seq(P)
    BY ONLY <1>2, <2>1, HeadTailProperties
  <2>3. up' \in [1 .. MaxConns -> Seq(P)]
    BY ONLY <1>2, <2>1, <2>2
  <2>4. UNCHANGED <<down, udpUp, udpDown>>
    BY <1>11 DEF RequestTCP, udpVars
  <2>5. QED BY ONLY <1>2, <2>3, <2>4 DEF Queues
<1>12. ASSUME NEW i \in 1 .. Len(udpUp), RequestUDP(i)
       PROVE  Queues(P, R)'
  <2>1. i \in Nat /\ i <= Len(udpUp)
    BY ONLY <1>2, i \in 1 .. Len(udpUp), LenProperties
  <2>2. Later(udpUp, i) \in Seq(P)
    BY ONLY <1>2, <2>1, SuffixType DEF Later
  <2>3. UNCHANGED <<up, down, udpDown>> /\ udpUp' = Later(udpUp, i)
    BY ONLY <1>12 DEF RequestUDP, tcpVars
  <2>4. QED BY ONLY <1>2, <2>2, <2>3 DEF Queues
<1>13. ASSUME NEW n \in 0 .. IOSize, NEW wrapped \in BOOLEAN, Poll(n, wrapped)
       PROVE  Queues(P, R)'
  <2>1. PICK response \in R :
          response = Response(Collect(uart, segmentCounter = 0, [i \in 1 .. n |-> emitted + i]), wrapped)
    BY <1>13
  <2>2. UNCHANGED <<up, udpUp>>
    BY <1>13 DEF Poll
  <2>3. UNCHANGED <<down, udpDown>> \/ Respond(response)
    BY <1>13, <2>1 DEF Poll
  <2>4. CASE Respond(response)
    <3>1. \/ down' = down
          \/ fwConn # 0 /\ fwConn = conn /\ down' = [down EXCEPT ![conn] = Append(@, response)]
      BY ONLY <2>4 DEF Respond
    <3>2. udpDown' \in {udpDown, Append(udpDown, response)}
      BY ONLY <2>4 DEF Respond
    <3>3. udpDown' \in Seq(R)
      <4>1. udpDown \in Seq(R) /\ Append(udpDown, response) \in Seq(R)
        BY ONLY <1>2, response \in R, AppendProperties
      <4>2. QED BY ONLY <3>2, <4>1
    <3>4. down' \in [1 .. MaxConns -> Seq(R)]
      <4>1. CASE down' = down
        BY ONLY <1>2, <4>1
      <4>2. CASE fwConn # 0 /\ fwConn = conn /\ down' = [down EXCEPT ![conn] = Append(@, response)]
        <5>1. conn \in 1 .. MaxConns /\ Append(down[conn], response) \in Seq(R)
          BY ONLY <1>2, <1>3, <4>2, response \in R, AppendProperties
        <5>2. QED BY ONLY <1>2, <4>2, <5>1
      <4>3. QED BY ONLY <3>1, <4>1, <4>2
    <3>5. QED BY ONLY <1>2, <2>2, <3>3, <3>4 DEF Queues
  <2>5. QED BY <1>6, <2>2, <2>3, <2>4
<1>14. CASE \/ OnPortOpen \/ PrepareNothing \/ PrepareOpen \/ PrepareReset \/ PrepareIdle
            \/ PrepareHangup \/ (\E n \in 1 .. MaxBytes : PrepareData(n)) \/ Disconnect
            \/ StoreResponse
            \/ Accept \/ Drop \/ EndReset \/ (\E room \in 1 .. IOSize : FeedUART(room))
  BY <1>6, <1>14 DEF OnPortOpen, PrepareNothing, PrepareOpen, PrepareReset, PrepareIdle, PrepareHangup,
     PrepareData, Pack, Disconnect, StoreResponse, Accept, Drop, EndReset, FeedUART, tcpVars, udpVars
<1>15. QED
  BY <1>7, <1>8, <1>9, <1>10, <1>11, <1>12, <1>13, <1>14 DEF Next, Client, Firmware
-----------------------------------------------------------------------------
(* The firmware.                                                           *)

\* Handling a request keeps the firmware's types.
LEMMA HandledTypes ==
  ASSUME FirmwareTypeOK, NEW package \in Packages, HandleRequest(package),
         fwConns' \in 0 .. conns', fwConn' \in {0, fwConns'},
         serverStarted' \in BOOLEAN, clientUDPPort' \in BOOLEAN
  PROVE  FirmwareTypeOK'
<1> USE Bounds
<1>1. package.request \in Requests /\ package.header \in Counters /\ package.from \in 0 .. MaxClients
  BY DEF Packages
<1>2. uart \in Ports
  BY DEF FirmwareTypeOK, Ports
<1>3. uart' \in Ports
  BY <1>1, <1>2, RequestKeepsPort DEF HandleRequest
<1>4. overrun' \in BOOLEAN
  <2>1. PICK full \in BOOLEAN : full = (/\ package.request.type = "Data"
                                       /\ Len(uart.ring) + Len(package.request.data) > RingCapacity)
    BY ONLY Zenon
  <2>2. overrun \in BOOLEAN
    BY ONLY FirmwareTypeOK DEF FirmwareTypeOK
  <2>3. overrun' = (overrun \/ full)
    BY ONLY <2>1, HandleRequest(package) DEF HandleRequest
  <2>4. QED BY ONLY <2>1, <2>2, <2>3, Zenon
<1>5. counter' \in Counters /\ pollIntervalSetPending' \in BOOLEAN
  <2>1. counter' \in {0, package.header} /\ pollIntervalSetPending' = FALSE
    BY ONLY HandleRequest(package) DEF HandleRequest
  <2>2. 0 \in Counters
    BY ONLY Bounds DEF Counters
  <2>3. QED BY ONLY <1>1, <2>1, <2>2
<1>6. pollInterval' \in {k \div Aggregate : k \in Counters}
  <2>1. package.header \div Aggregate \in {k \div Aggregate : k \in Counters}
    BY ONLY <1>1
  <2>2. pollInterval' \in {pollInterval, package.header \div Aggregate}
    BY DEF HandleRequest
  <2>3. pollInterval \in {k \div Aggregate : k \in Counters}
    BY DEF FirmwareTypeOK
  <2>4. QED BY ONLY <2>1, <2>2, <2>3
<1>7. gen' \in 0 .. MaxClients /\ out' \in Seq(Bytes)
  <2>1. << >> \in Seq(Bytes)
    BY ONLY EmptySeq
  <2>2. gen' \in {gen, package.from} /\ out' \in {out, << >>}
    BY DEF HandleRequest
  <2>3. QED BY <1>1, <2>1, <2>2 DEF FirmwareTypeOK
<1>8. UNCHANGED <<segmentCounter, emitted>>
  BY DEF HandleRequest
<1>9. QED BY ONLY FirmwareTypeOK, <1>3, <1>4, <1>5, <1>6, <1>7, <1>8, fwConns' \in 0 .. conns',
       fwConn' \in {0, fwConns'}, serverStarted' \in BOOLEAN, clientUDPPort' \in BOOLEAN
     DEF FirmwareTypeOK, Ports

LEMMA FirmwareTypes ==
  ASSUME TypeOK, Next
  PROVE  FirmwareTypeOK'
<1>1. /\ conns \in 0 .. MaxConns /\ fwConns \in 0 .. conns /\ fwConn \in {0, fwConns}
      /\ serverStarted \in BOOLEAN /\ clientUDPPort \in BOOLEAN /\ FirmwareTypeOK
  BY DEF TypeOK, NetworkTypeOK, FirmwareTypeOK
<1>2. uart \in Ports /\ out \in Seq(Bytes) /\ emitted \in 0 .. MaxEmitted
  BY DEF TypeOK, FirmwareTypeOK, Ports
<1>3. fwConn # 0 => fwConn \in 1 .. MaxConns
  BY ONLY <1>1, Bounds
<1>4. CASE /\ UNCHANGED <<linkVars, pollVars, uart, history>>
           /\ conns' = conns \/ conns' = conns + 1
  <2>1. fwConns' \in 0 .. conns'
    BY ONLY <1>1, <1>4, Bounds DEF linkVars
  <2>2. QED BY ONLY <1>1, <1>4, <2>1 DEF FirmwareTypeOK, linkVars, pollVars, history
<1>5. CASE Client
  BY <1>4, <1>5 DEF Client, OnPortOpen, PrepareNothing, PrepareOpen, PrepareReset, PrepareIdle,
     PrepareHangup, PrepareData, Pack, Send, Connect, Disconnect, StoreResponse, ReceiveTCP, ReceiveUDP,
     linkVars, pollVars, history, tcpVars
<1>6. CASE Accept \/ Drop
  <2>1. fwConns' \in 0 .. conns' /\ fwConn' \in {0, fwConns'}
    BY ONLY <1>1, <1>6, Bounds DEF Accept, Drop, ServeTCP, tcpVars
  <2>2. serverStarted' \in BOOLEAN /\ clientUDPPort' \in BOOLEAN /\ pollIntervalSetPending' \in BOOLEAN
    BY ONLY <1>6 DEF Accept, Drop, ServeTCP
  <2>3. pollInterval' \in {k \div Aggregate : k \in Counters}
    <3>1. pollInterval' = 0
      BY ONLY <1>6 DEF Accept, Drop, DefaultInterval
    <3>2. 0 \in Counters /\ 0 \div Aggregate = 0
      BY ONLY Bounds DEF Counters
    <3>3. QED BY ONLY <3>1, <3>2
  <2>4. segmentCounter' \in {0, segmentCounter} /\ UNCHANGED <<counter, uart, history>>
    BY ONLY <1>6 DEF Accept, Drop
  <2>5. segmentCounter' \in 0 .. Aggregate - 1
    BY ONLY <1>1, <2>4, Bounds DEF FirmwareTypeOK
  <2>6. QED BY ONLY <1>1, <2>1, <2>2, <2>3, <2>4, <2>5 DEF FirmwareTypeOK, history
<1>7. CASE RequestTCP
  <2>1. PICK package : package = Head(up[fwConn])
    OBVIOUS
  <2>2. up[fwConn] \in Seq(Packages) /\ up[fwConn] # << >>
    BY <1>3, <1>7 DEF RequestTCP, TypeOK, NetworkTypeOK
  <2>3. package \in Packages
    BY ONLY <2>1, <2>2, HeadTailProperties
  <2>4. HandleRequest(package) /\ UNCHANGED <<fwConn, fwConns, clientUDPPort, conns>>
    BY ONLY <1>7, <2>1 DEF RequestTCP
  <2>5. serverStarted' \in BOOLEAN
    BY ONLY <1>1, <1>7 DEF RequestTCP
  <2>6. QED BY ONLY <1>1, <2>3, <2>4, <2>5, HandledTypes
<1>8. ASSUME NEW i \in 1 .. Len(udpUp), RequestUDP(i)
      PROVE  FirmwareTypeOK'
  <2>1. udpUp[i] \in Packages
    BY DEF TypeOK, NetworkTypeOK
  <2>2. /\ HandleRequest(udpUp[i]) /\ UNCHANGED <<fwConn, fwConns, serverStarted, conns>>
        /\ clientUDPPort' = TRUE
    BY ONLY <1>8 DEF RequestUDP, tcpVars
  <2>3. QED BY ONLY <1>1, <2>1, <2>2, HandledTypes
<1>9. ASSUME NEW room \in 1 .. IOSize, FeedUART(room)
      PROVE  FirmwareTypeOK'
  <2>1. uart' = ProcessRX(uart, room) /\ out' = out \o Written(uart, room) /\ WriteSize(uart, room) > 0
    BY ONLY <1>9 DEF FeedUART
  <2>2. uart' \in Ports /\ Written(uart, room) \in Seq(Bytes)
    BY ONLY <1>2, <2>1, FeedKeepsPort, room \in 1 .. IOSize
  <2>3. out' \in Seq(Bytes)
    BY ONLY <1>2, <2>1, <2>2, ConcatProperties
  <2>4. UNCHANGED <<conns, linkVars, pollVars, gen, emitted, overrun>>
    BY ONLY <1>9 DEF FeedUART, tcpVars
  <2>5. QED BY ONLY <1>1, <2>2, <2>3, <2>4 DEF FirmwareTypeOK, Ports, linkVars, pollVars
<1>10. CASE EndReset
  <2>1. uart' = [uart EXCEPT !.resetting = FALSE] /\ UNCHANGED <<conns, linkVars, pollVars, history>>
    BY ONLY <1>10 DEF EndReset, ReleaseReset, tcpVars
  <2>2. uart' \in Ports
    BY ONLY <1>2, <2>1 DEF Ports
  <2>3. QED BY ONLY <1>1, <2>1, <2>2 DEF FirmwareTypeOK, Ports, linkVars, pollVars, history
<1>11. ASSUME NEW n \in 0 .. IOSize, NEW wrapped \in BOOLEAN, Poll(n, wrapped)
       PROVE  FirmwareTypeOK'
  <2>1. uart' \in Ports /\ emitted' \in 0 .. MaxEmitted
    BY <1>2, <1>11, PolledPort DEF FirmwareTypeOK, TypeOK
  <2>2. segmentCounter' \in 0 .. Aggregate - 1
    <3>1. \/ segmentCounter' = 0
          \/ ~ (segmentCounter + 1 >= Aggregate) /\ segmentCounter' = segmentCounter + 1
      BY ONLY <1>11, Zenon DEF Poll
    <3>2. segmentCounter \in 0 .. Aggregate - 1
      BY ONLY <1>1 DEF FirmwareTypeOK
    <3>3. QED BY ONLY <3>1, <3>2, Bounds
  <2>3. UNCHANGED <<conns, linkVars, counter, pollIntervalSetPending, pollInterval, gen, out, overrun>>
    BY ONLY <1>11 DEF Poll
  <2>4. QED BY ONLY <1>1, <2>1, <2>2, <2>3 DEF FirmwareTypeOK, Ports, linkVars
<1>12. QED
  BY <1>5, <1>6, <1>7, <1>8, <1>9, <1>10, <1>11 DEF Next, Firmware
-----------------------------------------------------------------------------
(* The types.                                                              *)

LEMMA InitTypes ==
  ASSUME Init
  PROVE  TypeOK
<1> USE Bounds
<1>1. /\ << >> \in Seq(Packages) /\ << >> \in Seq(Responses) /\ << >> \in Seq(Bytes)
      /\ << >> \in Seq(1 .. MaxEmitted) /\ << >> \in Seq((0 .. MaxClients) \X (1 .. MaxEmitted))
      /\ << >> \in Seq([counter : 1 .. MaxTicks, size : 1 .. PayloadSize]) /\ Len(<< >>) = 0
  BY ONLY EmptySeq
<1>2. ClientTypeOK
  <2>1. tracker \in [sent : Seq([counter : 1 .. MaxTicks, size : 1 .. PayloadSize]), blocked : BOOLEAN]
    BY ONLY <1>1, Init DEF Init, NewTracker
  <2>2. outbox \in Seq(Packages) /\ Len(outbox) <= 1
    BY ONLY <1>1, Init DEF Init, NoPackage
  <2>3. /\ got \in Seq((0 .. MaxClients) \X (1 .. MaxEmitted))
        /\ accepted \in Seq((0 .. MaxClients) \X (1 .. MaxEmitted)) /\ stray \in Nat
    BY ONLY <1>1, Init DEF Init
  <2>4. /\ useUDP \in BOOLEAN /\ eventCounter = 0 /\ otherResets = 0 /\ connected = FALSE
        /\ openPending = TRUE /\ resetPending = FALSE /\ sessionId = 0 /\ client = 0 /\ clients = 0
        /\ consumed = 0
    BY ONLY Init, Bounds DEF Init
  <2>5. /\ eventCounter \in 0 .. MaxTicks /\ otherResets \in 0 .. MaxOtherResets
        /\ sessionId \in 0 .. SessionLimit /\ clients \in 0 .. MaxClients /\ client \in {0, clients}
        /\ consumed \in 0 .. MaxBytes
    BY ONLY <2>4, Bounds
  <2>6. connected \in BOOLEAN /\ openPending \in BOOLEAN /\ resetPending \in BOOLEAN
    BY ONLY <2>4
  <2>7. QED BY ONLY <2>1, <2>2, <2>3, <2>4, <2>5, <2>6 DEF ClientTypeOK
<1>3. NetworkTypeOK
  BY <1>1 DEF Init, NetworkTypeOK
<1>4. FirmwareTypeOK
  <2>1. 0 \in Counters /\ 0 \div Aggregate = 0
    BY DEF Counters
  <2>2. pollInterval \in {k \div Aggregate : k \in Counters}
    BY ONLY <2>1, Init DEF Init, DefaultInterval
  <2>3. uart \in Ports
    <3>1. 0 <= RingCapacity /\ 0 <= PayloadSize /\ 0 \in 0 .. SessionLimit
      BY ONLY Bounds
    <3>2. uart = [open |-> FALSE, session |-> 0, ring |-> << >>, tx |-> << >>, resetting |-> FALSE]
      BY ONLY Init DEF Init, NewPort
    <3>3. QED BY ONLY <1>1, <3>1, <3>2 DEF Ports
  <2>4. /\ conns = 0 /\ fwConns = 0 /\ fwConn = 0 /\ counter = 0 /\ pollIntervalSetPending = FALSE
        /\ serverStarted = FALSE /\ clientUDPPort = FALSE /\ segmentCounter = 0
        /\ gen = 0 /\ out = << >> /\ emitted = 0 /\ overrun = FALSE
    BY ONLY Init DEF Init
  <2>5. /\ fwConns \in 0 .. conns /\ fwConn \in {0, fwConns} /\ counter \in Counters
        /\ segmentCounter \in 0 .. Aggregate - 1 /\ gen \in 0 .. MaxClients
        /\ emitted \in 0 .. MaxEmitted
    BY ONLY <2>1, <2>4, Bounds
  <2>6. /\ pollIntervalSetPending \in BOOLEAN /\ serverStarted \in BOOLEAN
        /\ clientUDPPort \in BOOLEAN /\ overrun \in BOOLEAN
    BY ONLY <2>4
  <2>7. out \in Seq(Bytes)
    BY ONLY <1>1, <2>4
  <2>8. QED BY ONLY <2>2, <2>3, <2>5, <2>6, <2>7 DEF FirmwareTypeOK, Ports
<1>5. QED BY <1>2, <1>3, <1>4 DEF TypeOK

LEMMA NextTypes ==
  ASSUME TypeOK, Next
  PROVE  TypeOK'
<1>1. NetworkTypeOK /\ FirmwareTypeOK /\ Queues(Packages, Responses) /\ outbox \in Seq(Packages)
  BY ONLY TypeOK DEF TypeOK, ClientTypeOK, NetworkTypeOK, Queues
<1>2. \A n \in 0 .. IOSize, wrapped \in BOOLEAN : Poll(n, wrapped) =>
        Response(Collect(uart, segmentCounter = 0, [i \in 1 .. n |-> emitted + i]), wrapped) \in Responses
  BY ONLY <1>1, PolledPort
<1>3. Queues(Packages, Responses)'
  BY ONLY <1>1, <1>2, Next, QueuesKept
<1>4. conns' \in 0 .. MaxConns /\ conn' \in {0, conns'}
  <2>1. conns \in 0 .. MaxConns /\ conn \in {0, conns}
    BY ONLY <1>1 DEF NetworkTypeOK
  <2>2. CASE Connect
    BY ONLY <2>1, <2>2, Bounds DEF Connect
  <2>3. CASE Disconnect
    BY ONLY <2>1, <2>3 DEF Disconnect
  <2>4. CASE UNCHANGED <<conn, conns>>
    BY ONLY <2>1, <2>4
  <2>5. Connect \/ Disconnect \/ UNCHANGED <<conn, conns>>
    BY ONLY Next DEF Next, Client, Firmware, OnPortOpen, PrepareNothing, PrepareOpen, PrepareReset,
       PrepareIdle, PrepareHangup, PrepareData, Pack, Send, StoreResponse, ReceiveTCP, ReceiveUDP, Accept, Drop,
       RequestTCP, RequestUDP, FeedUART, EndReset, Poll, tcpVars
  <2>6. QED BY ONLY <2>2, <2>3, <2>4, <2>5
<1>5. NetworkTypeOK'
  BY ONLY <1>3, <1>4 DEF NetworkTypeOK, Queues
<1>6. QED BY <1>5, ClientTypes, FirmwareTypes DEF TypeOK

LEMMA StutterTypes ==
  ASSUME TypeOK, UNCHANGED vars
  PROVE  TypeOK'
<1>1. ClientTypeOK'
  BY DEF TypeOK, ClientTypeOK, vars, clientVars, roundVars, portVars
<1>2. NetworkTypeOK'
  BY DEF TypeOK, NetworkTypeOK, vars, tcpVars, udpVars
<1>3. FirmwareTypeOK'
  BY DEF TypeOK, FirmwareTypeOK, vars, tcpVars, linkVars, pollVars, history
<1>4. QED BY <1>1, <1>2, <1>3 DEF TypeOK

\* Every variable keeps its type: among other things the ring and the response of
\* the firmware's port never hold more than they have room for, and an unconfirmed
\* package is never larger than the payload.
THEOREM TypeCorrect == Spec => []TypeOK
<1>1. Init => TypeOK
  BY InitTypes
<1>2. TypeOK /\ [Next]_vars => TypeOK'
  BY NextTypes, StutterTypes
<1>3. QED BY <1>1, <1>2, PTL DEF Spec
-----------------------------------------------------------------------------
(* The fence between sessions.                                             *)

LEMMA InitFence ==
  ASSUME Init
  PROVE  Fence
<1>1. << >> \in Seq(FencedPackages) /\ << >> \in Seq(StampedResponses) /\ Len(<< >>) = 0
  BY ONLY EmptySeq
<1>2. Queues(FencedPackages, StampedResponses)
  BY ONLY <1>1, Init DEF Init, Queues
<1>3. InHand
  <2>1. Taken = << >> /\ stray = 0 /\ accepted = << >>
    <3>1. << >> \o << >> = << >>
      BY ONLY EmptySeq, ConcatEmptySeq
    <3>2. QED BY ONLY <3>1, Init DEF Init, Taken
  <2>2. QED BY ONLY <1>1, <2>1, Bounds DEF InHand
<1>4. QED BY <1>1, <1>2, <1>3 DEF Init, Fence, NoPackage, NewPort

\* What a timer event packs for the port.
LEMMA PackedIsFenced ==
  ASSUME ClientTypeOK, NEW request \in Requests, Tick, Pack(request),
         request.type = "Reset" => request.arg = client
  PROVE  outbox' \in Seq(FencedPackages)
<1>1. /\ outbox' \in Seq(Packages) /\ Len(outbox') = 1 /\ outbox'[1] \in Packages
      /\ outbox'[1].request = request /\ outbox'[1].from = client
  BY PackedIsPackage
<1>2. outbox'[1] \in FencedPackages
  BY ONLY <1>1, request.type = "Reset" => request.arg = client DEF FencedPackages
<1>3. outbox' \in [1 .. 1 -> FencedPackages]
  BY ONLY <1>1, <1>2
<1>4. QED BY ONLY <1>3, SeqDef

LEMMA OutboxStaysFenced ==
  ASSUME TypeOK, Fence, Next
  PROVE  outbox' \in Seq(FencedPackages)
<1>1. /\ ClientTypeOK /\ outbox \in Seq(FencedPackages) /\ sessionId = clients
      /\ resetPending => client = clients
  BY ONLY TypeOK, Fence DEF TypeOK, Fence
<1>2. CASE PrepareNothing \/ PrepareIdle \/ PrepareHangup
  <2>1. NoCommand \in Requests /\ NoCommand.type # "Reset"
    BY ONLY TRUE DEF NoCommand, Request, Requests
  <2>2. Tick /\ Pack(NoCommand)
    BY ONLY <1>2 DEF PrepareNothing, PrepareIdle, PrepareHangup, MayRead
  <2>3. QED BY ONLY <1>1, <2>1, <2>2, PackedIsFenced
<1>3. CASE PrepareOpen
  <2>1. PICK request : request = Request("Open", 0, <<"speed">>)
    OBVIOUS
  <2>2. request \in Requests /\ request.type # "Reset"
    BY ONLY <2>1 DEF Request, Requests
  <2>3. Tick /\ Pack(request)
    BY ONLY <1>3, <2>1, Zenon DEF PrepareOpen
  <2>4. QED BY ONLY <1>1, <2>2, <2>3, PackedIsFenced
<1>4. CASE PrepareReset
  <2>1. PICK request : request = Request("Reset", sessionId, << >>)
    OBVIOUS
  <2>2. sessionId \in 0 .. SessionLimit
    BY ONLY <1>1 DEF ClientTypeOK
  <2>3. request \in Requests /\ request.arg = sessionId
    BY ONLY <2>1, <2>2 DEF Request, Requests
  <2>4. Tick /\ Pack(request) /\ resetPending
    BY ONLY <1>4, <2>1, Zenon DEF PrepareReset
  <2>5. QED BY ONLY <1>1, <2>3, <2>4, PackedIsFenced
<1>5. ASSUME NEW n \in 1 .. MaxBytes, PrepareData(n)
      PROVE  outbox' \in Seq(FencedPackages)
  <2>1. PICK request : request = Request("Data", 0, [i \in 1 .. n |-> <<client, consumed + i>>])
    OBVIOUS
  <2>2. request \in Requests
    BY ONLY <1>1, <1>5, <2>1, DataIsRequest
  <2>3. Tick /\ Pack(request)
    BY ONLY <1>5, <2>1, Zenon DEF PrepareData, MayRead
  <2>4. request.type # "Reset"
    BY ONLY <2>1 DEF Request
  <2>5. QED BY ONLY <1>1, <2>2, <2>4, <2>3, PackedIsFenced
<1>6. CASE Send
  BY ONLY <1>6, EmptySeq DEF Send, NoPackage
<1>7. CASE UNCHANGED outbox
  BY ONLY <1>1, <1>7
<1>8. \/ PrepareNothing \/ PrepareIdle \/ PrepareHangup \/ PrepareOpen \/ PrepareReset
      \/ (\E n \in 1 .. MaxBytes : PrepareData(n)) \/ Send \/ UNCHANGED outbox
  BY ONLY Next DEF Next, Client, Firmware, OnPortOpen, Connect, Disconnect, StoreResponse, ReceiveTCP, ReceiveUDP,
     CheckResponse, Accept, Drop, RequestTCP, RequestUDP, FeedUART, EndReset, Poll, clientVars
<1>9. QED BY ONLY <1>2, <1>3, <1>4, <1>5, <1>6, <1>7, <1>8

\* Only a request with a reset changes the session and the history of it.
LEMMA HandledSession ==
  ASSUME FirmwareTypeOK, uart.session \in {0, gen}, NEW package \in FencedPackages,
         HandleRequest(package)
  PROVE  uart'.session \in {0, gen'}
<1>1. /\ uart \in Ports /\ package.request \in Requests
      /\ package.request.type = "Reset" => package.request.arg = package.from
  BY DEF FirmwareTypeOK, Ports, FencedPackages, Packages
<1>2. uart' = ProcessRequest(uart, package.request)
  BY DEF HandleRequest
<1>3. CASE package.request.type = "Reset"
  <2>1. gen' = package.from
    BY <1>3 DEF HandleRequest
  <2>2. uart'.session = package.request.arg
    BY ONLY <1>1, <1>2, <1>3, RequestKeepsPort
  <2>3. QED BY ONLY <1>1, <1>3, <2>1, <2>2
<1>4. CASE package.request.type # "Reset"
  <2>1. gen' = gen
    BY <1>4 DEF HandleRequest
  <2>2. uart'.session \in {0, uart.session}
    BY ONLY <1>1, <1>2, <1>4, RequestKeepsPort
  <2>3. QED BY ONLY uart.session \in {0, gen}, <2>1, <2>2
<1>5. QED BY ONLY <1>3, <1>4

LEMMA SessionStaysStamped ==
  ASSUME TypeOK, Fence, Next
  PROVE  uart'.session \in {0, gen'}
<1>1. /\ FirmwareTypeOK /\ uart \in Ports /\ uart.session \in {0, gen}
      /\ Queues(FencedPackages, StampedResponses)
  BY DEF TypeOK, FirmwareTypeOK, Ports, Fence
<1>2. CASE UNCHANGED <<uart, gen>>
  BY ONLY <1>1, <1>2
<1>3. CASE RequestTCP
  <2>1. PICK package : package = Head(up[fwConn])
    OBVIOUS
  <2>2. up[fwConn] \in Seq(FencedPackages) /\ up[fwConn] # << >>
    <3>1. fwConn \in 1 .. MaxConns /\ up[fwConn] # << >>
      BY ONLY <1>3, TypeOK, Bounds DEF RequestTCP, TypeOK, NetworkTypeOK, FirmwareTypeOK
    <3>2. QED BY ONLY <1>1, <3>1 DEF Queues
  <2>3. package \in FencedPackages
    BY ONLY <2>1, <2>2, HeadTailProperties
  <2>4. HandleRequest(package)
    BY ONLY <1>3, <2>1 DEF RequestTCP
  <2>5. QED BY ONLY <1>1, <2>3, <2>4, HandledSession
<1>4. ASSUME NEW i \in 1 .. Len(udpUp), RequestUDP(i)
      PROVE  uart'.session \in {0, gen'}
  <2>1. udpUp[i] \in FencedPackages
    BY ONLY <1>1, i \in 1 .. Len(udpUp), ElementOfSeq DEF Queues
  <2>2. HandleRequest(udpUp[i])
    BY ONLY <1>4 DEF RequestUDP
  <2>3. QED BY ONLY <1>1, <2>1, <2>2, HandledSession
<1>5. ASSUME NEW room \in 1 .. IOSize, FeedUART(room)
      PROVE  uart'.session \in {0, gen'}
  <2>1. uart' = ProcessRX(uart, room) /\ WriteSize(uart, room) > 0 /\ gen' = gen
    BY ONLY <1>5 DEF FeedUART
  <2>2. uart'.session = uart.session
    BY ONLY <1>1, <2>1, FeedKeepsPort, room \in 1 .. IOSize
  <2>3. QED BY ONLY <1>1, <2>1, <2>2
<1>6. CASE EndReset
  <2>1. uart' = [uart EXCEPT !.resetting = FALSE] /\ gen' = gen
    BY ONLY <1>6 DEF EndReset, ReleaseReset, history
  <2>2. uart'.session = uart.session
    BY ONLY <1>1, <2>1 DEF Ports
  <2>3. QED BY ONLY <1>1, <2>1, <2>2
<1>7. ASSUME NEW n \in 0 .. IOSize, NEW wrapped \in BOOLEAN, Poll(n, wrapped)
      PROVE  uart'.session \in {0, gen'}
  <2>1. uart'.session = uart.session
    BY ONLY <1>1, <1>7, PolledPort, n \in 0 .. IOSize, wrapped \in BOOLEAN
  <2>2. gen' = gen
    BY ONLY <1>7 DEF Poll
  <2>3. QED BY ONLY <1>1, <2>1, <2>2
<1>8. CASE Client
  BY ONLY <1>2, <1>8 DEF Client, OnPortOpen, PrepareNothing, PrepareOpen, PrepareReset, PrepareIdle,
     PrepareHangup, PrepareData, Pack, Send, Connect, Disconnect, StoreResponse, ReceiveTCP, ReceiveUDP, history
<1>9. CASE Accept \/ Drop
  BY ONLY <1>2, <1>9 DEF Accept, Drop, history
<1>10. QED
  BY ONLY <1>3, <1>4, <1>5, <1>6, <1>7, <1>8, <1>9, Next DEF Next, Firmware

\* What a response adds for the local client is from its own session.
LEMMA FenceHolds ==
  ASSUME TypeOK, Fence, NEW response \in StampedResponses, CheckResponse(response)
  PROVE  InHand'
<1>1. /\ response.data \in Seq(1 .. MaxEmitted) /\ response.session \in {0, response.gen}
      /\ Len(response.data) <= PayloadSize
      /\ sessionId = clients /\ client \in {0, clients} /\ clients' = clients
      /\ got \in Seq((0 .. MaxClients) \X (1 .. MaxEmitted)) /\ got' = got
      /\ clients \in Nat /\ stray' = stray /\ stray <= PayloadSize /\ accepted = << >>
  BY Bounds DEF StampedResponses, Responses, Fence, TypeOK, ClientTypeOK, InHand, CheckResponse
<1>2. \A i \in 1 .. Len(got) : got[i][1] <= clients /\ (got[i][1] # clients => i <= stray)
  <2>1. Taken = got
    BY ONLY <1>1, ConcatEmptySeq DEF Taken
  <2>2. QED BY ONLY <2>1, Fence DEF Fence, InHand
<1>3. CASE ~ Accepts(response)
  <2>1. accepted' = << >> /\ Len(accepted') <= PayloadSize
    BY ONLY <1>3, CheckResponse(response), Bounds, EmptySeq DEF CheckResponse
  <2>2. Taken' = got
    BY ONLY <1>1, <2>1, ConcatEmptySeq DEF Taken
  <2>3. QED BY ONLY <1>1, <1>2, <2>1, <2>2 DEF InHand
<1>4. CASE Accepts(response)
  <2>1. response.gen = clients
    BY ONLY <1>1, <1>4 DEF Accepts
  <2>2. PICK more : more = [i \in 1 .. Len(response.data) |-> <<response.gen, response.data[i]>>]
    OBVIOUS
  <2>3. accepted' = more
    BY ONLY <1>4, <2>2, CheckResponse(response) DEF CheckResponse
  <2>4. more \in Seq({clients} \X (1 .. MaxEmitted)) /\ Len(more) <= PayloadSize
    BY ONLY <1>1, <2>1, <2>2, StampedBytes
  <2>5. \A i \in 1 .. Len(more) : more[i][1] = clients
    BY ONLY <2>4, ElementOfSeq
  <2>6. PICK S : S = ((0 .. MaxClients) \X (1 .. MaxEmitted)) \cup ({clients} \X (1 .. MaxEmitted))
    OBVIOUS
  <2>7. got \in Seq(S) /\ more \in Seq(S)
    BY ONLY <1>1, <2>4, <2>6, SeqMonotonic
  <2>8. PICK all : all = got \o more
    OBVIOUS
  <2>9. /\ Len(all) = Len(got) + Len(more) /\ Len(got) \in Nat /\ Len(more) \in Nat
        /\ \A i \in 1 .. Len(got) + Len(more) :
              all[i] = IF i <= Len(got) THEN got[i] ELSE more[i - Len(got)]
    BY ONLY <2>7, <2>8, ConcatProperties, LenProperties
  <2>10. ASSUME NEW i \in 1 .. Len(all)
         PROVE  all[i][1] <= clients /\ (all[i][1] # clients => i <= stray)
    <3>1. CASE i <= Len(got)
      <4>1. i \in 1 .. Len(got) /\ all[i] = got[i]
        BY ONLY <2>9, <3>1, i \in 1 .. Len(all)
      <4>2. QED BY ONLY <1>2, <4>1
    <3>2. CASE ~ (i <= Len(got))
      <4>1. i - Len(got) \in 1 .. Len(more) /\ all[i] = more[i - Len(got)]
        BY ONLY <2>9, <3>2, i \in 1 .. Len(all)
      <4>2. all[i][1] = clients
        BY ONLY <2>5, <4>1
      <4>3. QED BY ONLY <1>1, <4>2
    <3>3. QED BY ONLY <3>1, <3>2
  <2>11. Taken' = all
    BY ONLY <1>1, <2>3, <2>8 DEF Taken
  <2>12. QED BY ONLY <1>1, <2>3, <2>4, <2>10, <2>11 DEF InHand
<1>5. QED BY ONLY <1>3, <1>4

\* When another local client comes, what the receiver has in hand is the only thing
\* it will get of an earlier one.
LEMMA NewClientFence ==
  ASSUME ResetOnConnect = TRUE, TypeOK, Fence, OnPortOpen
  PROVE  InHand'
<1>1. /\ accepted \in Seq((0 .. MaxClients) \X (1 .. MaxEmitted))
      /\ got \in Seq((0 .. MaxClients) \X (1 .. MaxEmitted))
      /\ clients \in Nat /\ Len(accepted) <= PayloadSize
      /\ \A i \in 1 .. Len(Taken) : Taken[i][1] <= clients
  BY ONLY TypeOK, Fence, Bounds DEF TypeOK, ClientTypeOK, Fence, InHand
<1>2. /\ got' = << >> /\ accepted' = accepted /\ stray' = Len(accepted) /\ clients' = clients + 1
  BY ONLY OnPortOpen, ResetOnConnect = TRUE DEF OnPortOpen
<1>3. /\ Len(Taken) = Len(got) + Len(accepted) /\ Len(got) \in Nat /\ Len(accepted) \in Nat
      /\ \A i \in 1 .. Len(got) + Len(accepted) :
            Taken[i] = IF i <= Len(got) THEN got[i] ELSE accepted[i - Len(got)]
  BY ONLY <1>1, ConcatProperties, LenProperties DEF Taken
<1>4. Taken' = accepted
  BY ONLY <1>1, <1>2, ConcatEmptySeq DEF Taken
<1>5. ASSUME NEW i \in 1 .. Len(accepted)
      PROVE  accepted[i][1] <= clients
  <2>1. /\ Len(got) + i \in 1 .. Len(got) + Len(accepted) /\ ~ (Len(got) + i <= Len(got))
        /\ (Len(got) + i) - Len(got) = i
    BY ONLY <1>3, i \in 1 .. Len(accepted)
  <2>2. Taken[Len(got) + i] = accepted[i]
    BY ONLY <1>3, <2>1
  <2>3. QED BY ONLY <1>1, <1>3, <2>1, <2>2
<1>6. \A i \in 1 .. Len(accepted) : accepted[i][1] \in Int
  BY ONLY <1>1, ElementOfSeq
<1>7. QED BY ONLY <1>1, <1>2, <1>3, <1>4, <1>5, <1>6 DEF InHand

\* What is stored was in hand before.
LEMMA StoredWasTaken ==
  ASSUME TypeOK, StoreResponse
  PROVE  Taken' = Taken
<1>1. /\ got \in Seq((0 .. MaxClients) \X (1 .. MaxEmitted))
      /\ got \o accepted \in Seq((0 .. MaxClients) \X (1 .. MaxEmitted))
  BY ONLY TypeOK, ConcatProperties DEF TypeOK, ClientTypeOK
<1>2. got' = got \o accepted /\ accepted' = << >>
  BY ONLY StoreResponse DEF StoreResponse
<1>3. QED BY ONLY <1>1, <1>2, ConcatEmptySeq DEF Taken

LEMMA FenceHoldsForStored ==
  ASSUME TypeOK, Fence, InHand
  PROVE  SessionFence
<1>1. /\ accepted \in Seq((0 .. MaxClients) \X (1 .. MaxEmitted))
      /\ got \in Seq((0 .. MaxClients) \X (1 .. MaxEmitted))
  BY ONLY TypeOK DEF TypeOK, ClientTypeOK
<1>2. /\ Len(Taken) = Len(got) + Len(accepted) /\ Len(got) \in Nat /\ Len(accepted) \in Nat
      /\ \A i \in 1 .. Len(got) + Len(accepted) :
            Taken[i] = IF i <= Len(got) THEN got[i] ELSE accepted[i - Len(got)]
  BY ONLY <1>1, ConcatProperties, LenProperties DEF Taken
<1>3. ASSUME NEW i \in 1 .. Len(got)
      PROVE  got[i][1] # clients => i <= stray
  <2>1. i \in 1 .. Len(Taken) /\ Taken[i] = got[i]
    BY ONLY <1>2, i \in 1 .. Len(got)
  <2>2. QED BY ONLY <2>1, InHand DEF InHand
<1>4. QED BY ONLY <1>3, InHand DEF InHand, SessionFence

LEMMA NextFence ==
  ASSUME ResetOnConnect = TRUE, MaxClients <= SessionLimit, TypeOK, Fence, Next
  PROVE  Fence'
<1>1. /\ sessionId = clients /\ (resetPending => client = clients) /\ uart.session \in {0, gen}
      /\ Queues(FencedPackages, StampedResponses) /\ outbox \in Seq(FencedPackages) /\ InHand
      /\ NetworkTypeOK /\ FirmwareTypeOK
      /\ clients \in 0 .. MaxClients /\ client \in {0, clients} /\ conns \in 0 .. MaxConns
      /\ conn \in {0, conns}
  BY DEF Fence, TypeOK, ClientTypeOK, NetworkTypeOK
<1>2. ASSUME NEW n \in 0 .. IOSize, NEW wrapped \in BOOLEAN, Poll(n, wrapped)
      PROVE  Response(Collect(uart, segmentCounter = 0, [i \in 1 .. n |-> emitted + i]), wrapped)
               \in StampedResponses
  <2>1. PICK response : response
          = Response(Collect(uart, segmentCounter = 0, [i \in 1 .. n |-> emitted + i]), wrapped)
    OBVIOUS
  <2>2. /\ response \in Responses /\ response.session = uart.session /\ response.gen = gen
        /\ Len(response.data) <= PayloadSize
    BY ONLY <1>1, <1>2, <2>1, PolledPort, n \in 0 .. IOSize, wrapped \in BOOLEAN
  <2>3. QED BY ONLY <1>1, <2>1, <2>2 DEF StampedResponses
<1>3. Queues(FencedPackages, StampedResponses)'
  BY ONLY <1>1, <1>2, Next, QueuesKept DEF FencedPackages, StampedResponses
<1>4. outbox' \in Seq(FencedPackages) /\ uart'.session \in {0, gen'}
  BY ONLY TypeOK, Fence, Next, OutboxStaysFenced, SessionStaysStamped
<1>5. /\ sessionId' = clients' /\ (resetPending' => client' = clients')
      /\ InHand'
  <2>1. CASE OnPortOpen
    <3>1. /\ clients' = clients + 1 /\ client' = clients + 1 /\ sessionId' = NextSession(sessionId)
          /\ clients < MaxClients
      BY ONLY <2>1, ResetOnConnect = TRUE DEF OnPortOpen
    <3>2. sessionId' = clients'
      BY ONLY <1>1, <3>1, MaxClients <= SessionLimit, Bounds DEF NextSession
    <3>3. InHand'
      BY ONLY ResetOnConnect = TRUE, TypeOK, Fence, <2>1, NewClientFence
    <3>4. QED BY ONLY <3>1, <3>2, <3>3
  <2>2. CASE PrepareHangup
    BY ONLY <1>1, <2>2 DEF PrepareHangup, MayRead, InHand, Taken
  <2>3. CASE ReceiveTCP
    <3>1. conn \in 1 .. MaxConns /\ down[conn] # << >>
      BY ONLY <1>1, <2>3, Bounds DEF ReceiveTCP
    <3>2. PICK response : response = Head(down[conn])
      OBVIOUS
    <3>3. down[conn] \in Seq(StampedResponses)
      BY ONLY <1>1, <3>1 DEF Queues
    <3>4. response \in StampedResponses /\ CheckResponse(response)
      BY ONLY <2>3, <3>1, <3>2, <3>3, HeadTailProperties DEF ReceiveTCP
    <3>5. UNCHANGED <<sessionId, clients, resetPending, client>>
      BY ONLY <3>4 DEF CheckResponse
    <3>6. InHand'
      BY ONLY TypeOK, Fence, <3>4, FenceHolds
    <3>7. QED BY ONLY <1>1, <3>5, <3>6
  <2>4. ASSUME NEW i \in 1 .. Len(udpDown), ReceiveUDP(i)
        PROVE  sessionId' = clients' /\ (resetPending' => client' = clients') /\ InHand'
    <3>1. udpDown[i] \in StampedResponses
      BY ONLY <1>1, i \in 1 .. Len(udpDown), ElementOfSeq DEF Queues
    <3>2. CheckResponse(udpDown[i])
      BY ONLY <2>4 DEF ReceiveUDP
    <3>3. UNCHANGED <<sessionId, clients, resetPending, client>>
      BY ONLY <3>2 DEF CheckResponse
    <3>4. InHand'
      BY ONLY TypeOK, Fence, <3>1, <3>2, FenceHolds
    <3>5. QED BY ONLY <1>1, <3>3, <3>4
  <2>5. CASE /\ UNCHANGED <<sessionId, clients, client, accepted, got, stray>>
             /\ resetPending' => resetPending
    BY ONLY <1>1, <2>5 DEF InHand, Taken
  <2>6. CASE StoreResponse
    <3>1. Taken' = Taken
      BY ONLY TypeOK, <2>6, StoredWasTaken
    <3>2. /\ UNCHANGED <<sessionId, clients, client, resetPending, stray>> /\ accepted' = << >>
      BY ONLY <2>6 DEF StoreResponse
    <3>3. Len(accepted') <= PayloadSize
      BY ONLY <3>2, EmptySeq, Bounds
    <3>4. QED BY ONLY <1>1, <3>1, <3>2, <3>3 DEF InHand
  <2>7. \/ OnPortOpen \/ PrepareHangup \/ ReceiveTCP \/ (\E i \in 1 .. Len(udpDown) : ReceiveUDP(i))
        \/ StoreResponse
        \/ /\ UNCHANGED <<sessionId, clients, client, accepted, got, stray>>
           /\ resetPending' => resetPending
    BY ONLY Next DEF Next, Client, Firmware, PrepareNothing, PrepareOpen, PrepareReset, PrepareIdle,
       PrepareData, Send, Connect, Disconnect, Accept, Drop, RequestTCP, RequestUDP, FeedUART,
       EndReset, Poll, clientVars, portVars
  <2>8. QED BY ONLY <2>1, <2>2, <2>3, <2>4, <2>5, <2>6, <2>7
<1>6. QED BY ONLY <1>3, <1>4, <1>5 DEF Fence

\* With a reset at every local connection, and fewer of them than there are
\* session ids, a local client gets of what the device sent before the firmware had
\* the reset request of this client no more than the receiver had tested before
\* the client came, at most one package, and gets it first, whatever becomes of
\* the packages.
THEOREM SessionsAreFenced ==
  ASSUME ResetOnConnect = TRUE, MaxClients <= SessionLimit
  PROVE  Spec => []SessionFence
<1>1. Init => TypeOK /\ Fence
  BY InitTypes, InitFence
<1>2. TypeOK /\ Fence /\ [Next]_vars => TypeOK' /\ Fence'
  <2>1. ASSUME TypeOK, Fence, Next PROVE TypeOK' /\ Fence'
    BY <2>1, NextTypes, NextFence
  <2>2. ASSUME TypeOK, Fence, UNCHANGED vars PROVE TypeOK' /\ Fence'
    BY <2>2, StutterTypes DEF Fence, Queues, InHand, Taken, vars, clientVars, roundVars, portVars,
       tcpVars, udpVars, history
  <2>3. QED BY <2>1, <2>2
<1>3. TypeOK /\ Fence => SessionFence
  BY FenceHoldsForStored DEF Fence
<1>4. QED BY <1>1, <1>2, <1>3, PTL DEF Spec
-----------------------------------------------------------------------------
(* The order over TCP.                                                     *)

\* What a round reads of the local client.
Fresh == {b \in Bytes : b[1] = client /\ consumed < b[2] /\ b[2] <= consumed'}

LEMMA CurrentGrows ==
  ASSUME NEW g \in Nat, NEW k \in Nat, NEW m \in Nat, NEW k2 \in Nat, NEW m2 \in Nat,
         k < k2 \/ (k = k2 /\ m <= m2), NEW s \in Seq(Current(g, k, m))
  PROVE  s \in Seq(Current(g, k2, m2))
<1>1. ASSUME NEW p \in Current(g, k, m)
      PROVE  p \in Current(g, k2, m2)
  <2>1. p \in Packages /\ p.from \in Nat
    BY Bounds DEF Current, Packages
  <2>2. Carries(p) => g <= p.from /\ p.from <= k /\ p.from <= k2
    BY ONLY <2>1, p \in Current(g, k, m), k \in Nat, k2 \in Nat, k < k2 \/ k = k2 DEF Current
  <2>3. ASSUME p.request.type = "Data"
        PROVE  /\ p.request.data \in Seq({b \in Bytes : b[1] = p.from /\ (p.from = k2 => b[2] <= m2)})
               /\ Increasing(p.request.data)
    <3>1. PICK data : data = p.request.data
      OBVIOUS
    <3>2. data \in Seq({b \in Bytes : b[1] = p.from /\ (p.from = k => b[2] <= m)}) /\ Increasing(data)
      BY ONLY <2>3, <3>1, p \in Current(g, k, m) DEF Current
    <3>3. Carries(p)
      BY ONLY <2>3 DEF Carries
    <3>4. \A b \in Bytes : b[2] \in Nat
      BY Bounds DEF Bytes
    <3>5. {b \in Bytes : b[1] = p.from /\ (p.from = k => b[2] <= m)}
            \subseteq {b \in Bytes : b[1] = p.from /\ (p.from = k2 => b[2] <= m2)}
      BY ONLY <2>1, <2>2, <3>3, <3>4, k < k2 \/ (k = k2 /\ m <= m2), k \in Nat, k2 \in Nat,
         m \in Nat, m2 \in Nat
    <3>6. data \in Seq({b \in Bytes : b[1] = p.from /\ (p.from = k2 => b[2] <= m2)})
      BY ONLY <3>2, <3>5, SeqMonotonic
    <3>7. QED BY ONLY <3>1, <3>2, <3>6
  <2>4. QED BY ONLY <2>1, <2>2, <2>3 DEF Current
<1>2. Current(g, k, m) \subseteq Current(g, k2, m2)
  BY ONLY <1>1
<1>3. QED BY ONLY <1>2, s \in Seq(Current(g, k, m)), SeqMonotonic

\* Nothing moves at the firmware or on the way to it.
LEMMA StillOnItsWay ==
  ASSUME TypeOK, Line, UNCHANGED <<up, fwConn, fwConns, gen, out, uart>>,
         udpUp' \in {udpUp, << >>}, conns' \in {conns, conns + 1},
         clients' \in Nat, consumed' \in Nat,
         clients < clients' \/ (clients = clients' /\ consumed <= consumed')
  PROVE  OnItsWay' /\ Arrived'
<1>1. clients \in Nat /\ consumed \in Nat /\ gen \in Nat /\ conns \in Nat
  BY Bounds DEF TypeOK, ClientTypeOK, FirmwareTypeOK, NetworkTypeOK
<1>2. \A c \in 1 .. MaxConns : Waiting(c)' => up'[c] \in Seq(Current(gen, clients', consumed'))
  BY <1>1, CurrentGrows DEF Line, OnItsWay, Waiting
<1>3. InLine'
  BY DEF Line, OnItsWay, InLine, Waiting
<1>4. udpUp' = << >> /\ \A c \in 1 .. MaxConns : c > conns' => up'[c] = << >>
  BY <1>1 DEF Line, OnItsWay
<1>5. Arrived'
  BY <1>1 DEF Line, Arrived
<1>6. QED BY <1>2, <1>3, <1>4, <1>5 DEF OnItsWay

\* A package just made is the last of the line.
LEMMA PackedIsLast ==
  ASSUME TypeOK, ~ useUDP, Line, NEW request \in Requests, Tick, Pack(request),
         request.type \in {"Data", "Reset"} => client = clients,
         request.type = "Data" => /\ request.data \in Seq(Fresh)
                                  /\ Increasing(request.data),
         clients' = clients, consumed' \in Nat
  PROVE  ToBeSent'
<1>1. /\ outbox' \in Seq(Packages) /\ Len(outbox') = 1 /\ outbox'[1] \in Packages
      /\ outbox'[1].request = request /\ outbox'[1].from = client /\ outbox'[1].useTCP
  BY PackedIsPackage DEF TypeOK
<1>2. clients \in Nat /\ consumed \in Nat /\ gen \in Nat /\ gen <= clients
  BY Bounds DEF TypeOK, ClientTypeOK, FirmwareTypeOK, Line, Arrived
<1>3. UNCHANGED <<up, fwConn, fwConns, gen>>
  BY DEF Pack, tcpVars, linkVars, history
<1>4. PICK package : package = outbox'[1]
  OBVIOUS
<1>5. package \in Current(gen, clients, consumed')
  <2>1. ASSUME request.type = "Data"
        PROVE  request.data \in Seq({b \in Bytes : b[1] = client /\ (client = clients => b[2] <= consumed')})
    <3>1. Fresh \subseteq {b \in Bytes : b[1] = client /\ (client = clients => b[2] <= consumed')}
      BY ONLY DEF Fresh
    <3>2. QED BY ONLY <2>1, <3>1, SeqMonotonic, request.type = "Data" => request.data \in Seq(Fresh)
  <2>2. package \in Packages /\ package.request = request /\ package.from = client
    BY ONLY <1>1, <1>4
  <2>3. Carries(package) => gen <= package.from /\ package.from <= clients
    BY ONLY <1>2, <2>2, request.type \in {"Data", "Reset"} => client = clients DEF Carries
  <2>4. package.request.type = "Data" =>
          /\ package.request.data \in
               Seq({b \in Bytes : b[1] = package.from /\ (package.from = clients => b[2] <= consumed')})
          /\ Increasing(package.request.data)
    BY ONLY <2>1, <2>2, request.type = "Data" => Increasing(request.data)
  <2>5. QED BY ONLY <2>2, <2>3, <2>4 DEF Current
<1>6. outbox' \in Seq(Current(gen, clients, consumed'))
  <2>1. outbox' \in [1 .. 1 -> Current(gen, clients, consumed')]
    BY ONLY <1>1, <1>4, <1>5
  <2>2. QED BY ONLY <2>1, SeqDef
<1>7. ASSUME NEW c \in 1 .. MaxConns, Waiting(c), NEW i \in 1 .. Len(up[c])
      PROVE  Ahead(up[c][i], package)
  <2>1. up[c] \in Seq(Current(gen, clients, consumed))
    BY <1>7 DEF Line, OnItsWay
  <2>2. PICK older : older = up[c][i]
    OBVIOUS
  <2>3. older \in Current(gen, clients, consumed)
    BY ONLY <2>1, <2>2, i \in 1 .. Len(up[c]), ElementOfSeq
  <2>4. Carries(package) => package.from = clients
    BY <1>1, <1>4 DEF Carries
  <2>5. Carries(older) /\ Carries(package) => older.from <= package.from
    BY ONLY <2>3, <2>4 DEF Current
  <2>6. Precedes(PayloadOf(older), PayloadOf(package))
    <3>1. SUFFICES ASSUME NEW k \in 1 .. Len(PayloadOf(older)), NEW n \in 1 .. Len(PayloadOf(package))
                   PROVE  Before(PayloadOf(older)[k], PayloadOf(package)[n])
      BY DEF Precedes
    <3>2. older.request.type = "Data" /\ package.request.type = "Data"
      BY ONLY <3>1, EmptySeq DEF PayloadOf
    <3>3. PayloadOf(older) = older.request.data /\ PayloadOf(package) = package.request.data
      BY ONLY <3>2 DEF PayloadOf
    <3>4. PICK b : b = PayloadOf(older)[k]
      OBVIOUS
    <3>5. PICK d : d = PayloadOf(package)[n]
      OBVIOUS
    <3>6. b \in {x \in Bytes : x[1] = older.from /\ (older.from = clients => x[2] <= consumed)}
      BY ONLY <2>3, <3>2, <3>3, <3>4, k \in 1 .. Len(PayloadOf(older)), ElementOfSeq DEF Current
    <3>7. d \in Fresh
      BY ONLY <1>1, <1>4, <3>2, <3>3, <3>5, n \in 1 .. Len(PayloadOf(package)), ElementOfSeq,
         request.type = "Data" => request.data \in Seq(Fresh)
    <3>8. d[1] = clients /\ consumed < d[2] /\ d \in Bytes
      BY ONLY <1>1, <1>4, <2>4, <3>2, <3>7 DEF Fresh, Carries
    <3>9. older.from <= clients /\ older.from \in Nat /\ b[2] \in Nat /\ d[2] \in Nat
      BY ONLY <2>3, <3>2, <3>6, <3>8, Bounds DEF Current, Carries, Packages, Bytes
    <3>10. Before(b, d)
      BY ONLY <1>2, <3>6, <3>8, <3>9 DEF Before
    <3>11. QED BY ONLY <3>4, <3>5, <3>10
  <2>7. QED BY ONLY <2>2, <2>5, <2>6 DEF Ahead
<1>8. LastInLine'
  BY ONLY <1>3, <1>4, <1>7 DEF LastInLine, Waiting
<1>9. QED BY <1>1, <1>3, <1>6, <1>8 DEF ToBeSent

LEMMA DataIsFresh ==
  ASSUME ClientTypeOK, NEW n \in 1 .. MaxBytes, PrepareData(n)
  PROVE  /\ Request("Data", 0, [i \in 1 .. n |-> <<client, consumed + i>>]) \in Requests
         /\ [i \in 1 .. n |-> <<client, consumed + i>>] \in Seq(Fresh)
         /\ Increasing([i \in 1 .. n |-> <<client, consumed + i>>])
<1>1. PICK data : data = [i \in 1 .. n |-> <<client, consumed + i>>]
  OBVIOUS
<1>2. /\ Request("Data", 0, data) \in Requests
      /\ data \in Seq({b \in Bytes : b[1] = client})
  BY ONLY <1>1, DataIsRequest, ClientTypeOK, PrepareData(n), n \in 1 .. MaxBytes
<1>3. consumed \in Nat /\ consumed' = consumed + n /\ n \in Nat /\ Len(data) = n
  BY <1>1, Bounds DEF ClientTypeOK, PrepareData
<1>4. \A i \in 1 .. n : data[i] \in Bytes /\ data[i][1] = client /\ data[i][2] = consumed + i
  BY ONLY <1>1, <1>2, <1>3, ElementOfSeq
<1>5. \A i \in 1 .. n : data[i] \in Fresh
  BY ONLY <1>3, <1>4 DEF Fresh
<1>6. data \in [1 .. n -> Fresh]
  BY ONLY <1>1, <1>5
<1>7. data \in Seq(Fresh)
  BY ONLY <1>3, <1>6, SeqDef
<1>8. Increasing(data)
  BY ONLY <1>3, <1>4 DEF Increasing, Before
<1>9. QED BY ONLY <1>1, <1>2, <1>7, <1>8

LEMMA ClientKeepsLine ==
  ASSUME TypeOK, ~ useUDP, Line, Client, ~ Send
  PROVE  Line'
<1>1. /\ clients \in Nat /\ consumed \in Nat /\ gen \in Nat /\ client \in {0, clients} /\ ClientTypeOK
      /\ (resetPending => client = clients) /\ ToBeSent /\ gen <= clients
  BY Bounds DEF TypeOK, ClientTypeOK, FirmwareTypeOK, Line, Arrived
<1>2. /\ UNCHANGED <<up, fwConn, fwConns, gen, out, uart>>
      /\ udpUp' \in {udpUp, << >>} /\ conns' \in {conns, conns + 1}
      /\ \/ clients' = clients + 1 /\ consumed' = 0
         \/ clients' = clients /\ consumed' = consumed
         \/ clients' = clients /\ \E n \in 1 .. MaxBytes : consumed' = consumed + n
  BY ~ Send, Client DEF Client, OnPortOpen, PrepareNothing, PrepareOpen, PrepareReset, PrepareIdle,
     PrepareHangup, PrepareData, Pack, Connect, Disconnect, StoreResponse, ReceiveTCP, ReceiveUDP, CheckResponse,
     tcpVars, udpVars, linkVars, history, portVars, clientVars
<1>3. /\ clients' \in Nat /\ consumed' \in Nat
      /\ clients < clients' \/ (clients = clients' /\ consumed <= consumed')
  BY ONLY <1>1, <1>2
<1>4. OnItsWay' /\ Arrived'
  BY ONLY <1>2, <1>3, TypeOK, Line, StillOnItsWay
<1>5. CASE OnPortOpen \/ Connect \/ Disconnect \/ StoreResponse \/ ReceiveTCP
            \/ \E i \in 1 .. Len(udpDown) : ReceiveUDP(i)
  <2>1. UNCHANGED outbox /\ (resetPending' => client' = clients')
    BY ONLY <1>1, <1>5, SMTT(60) DEF OnPortOpen, Connect, Disconnect, StoreResponse, ReceiveTCP, ReceiveUDP, CheckResponse,
       clientVars, portVars
  <2>2. outbox \in Seq(Current(gen, clients', consumed'))
    BY ONLY <1>1, <1>3, CurrentGrows DEF ToBeSent
  <2>3. ToBeSent'
    BY ONLY <1>1, <1>2, <2>1, <2>2 DEF ToBeSent, LastInLine, Waiting
  <2>4. QED BY ONLY <1>4, <2>1, <2>3 DEF Line
<1>6. CASE PrepareNothing \/ PrepareIdle \/ PrepareHangup
  <2>1. PICK request : request = NoCommand
    OBVIOUS
  <2>2. request \in Requests /\ request.type \notin {"Data", "Reset"}
    BY ONLY <2>1 DEF NoCommand, Request, Requests
  <2>3. Tick /\ Pack(request) /\ clients' = clients
    BY ONLY <1>6, <2>1 DEF PrepareNothing, PrepareIdle, PrepareHangup, MayRead, portVars
  <2>4. ToBeSent'
    BY ONLY <1>3, <2>2, <2>3, PackedIsLast, TypeOK, ~ useUDP, Line
  <2>5. resetPending' => client' = clients'
    <3>1. CASE PrepareHangup
      BY ONLY <3>1 DEF PrepareHangup, MayRead
    <3>2. CASE PrepareNothing \/ PrepareIdle
      BY ONLY <1>1, <3>2 DEF PrepareNothing, PrepareIdle, portVars
    <3>3. QED BY ONLY <1>6, <3>1, <3>2
  <2>6. QED BY ONLY <1>4, <2>4, <2>5 DEF Line
<1>7. CASE PrepareOpen
  <2>1. PICK request : request = Request("Open", 0, <<"speed">>)
    OBVIOUS
  <2>2. request \in Requests /\ request.type \notin {"Data", "Reset"}
    BY ONLY <2>1 DEF Request, Requests
  <2>3. Tick /\ Pack(request) /\ clients' = clients
    BY ONLY <1>7, <2>1, Zenon DEF PrepareOpen
  <2>4. ToBeSent'
    BY ONLY <1>3, <2>2, <2>3, PackedIsLast, TypeOK, ~ useUDP, Line
  <2>5. resetPending' => client' = clients'
    BY ONLY <1>1, <1>7 DEF PrepareOpen
  <2>6. QED BY ONLY <1>4, <2>4, <2>5 DEF Line
<1>8. CASE PrepareReset
  <2>1. PICK request : request = Request("Reset", sessionId, << >>)
    OBVIOUS
  <2>2. sessionId \in 0 .. SessionLimit
    BY ONLY <1>1 DEF ClientTypeOK
  <2>3. request \in Requests /\ request.type = "Reset"
    BY ONLY <2>1, <2>2 DEF Request, Requests
  <2>4. Tick /\ Pack(request) /\ resetPending /\ ~ resetPending' /\ clients' = clients
    BY ONLY <1>8, <2>1, Zenon DEF PrepareReset
  <2>5. ToBeSent'
    BY ONLY <1>1, <1>3, <2>3, <2>4, PackedIsLast, TypeOK, ~ useUDP, Line
  <2>6. QED BY ONLY <1>4, <2>4, <2>5 DEF Line
<1>9. ASSUME NEW n \in 1 .. MaxBytes, PrepareData(n)
      PROVE  Line'
  <2>1. PICK data : data = [i \in 1 .. n |-> <<client, consumed + i>>]
    OBVIOUS
  <2>2. PICK request : request = Request("Data", 0, data)
    OBVIOUS
  <2>3. request \in Requests /\ data \in Seq(Fresh) /\ Increasing(data)
    BY ONLY <1>1, <1>9, <2>1, <2>2, DataIsFresh, n \in 1 .. MaxBytes
  <2>4. request.type = "Data" /\ request.data = data
    BY ONLY <2>2 DEF Request
  <2>5. Tick /\ Pack(request)
    BY ONLY <1>9, <2>1, <2>2, Zenon DEF PrepareData, MayRead
  <2>6. client = clients /\ clients' = clients /\ client' = clients'
    BY ONLY <1>1, <1>9 DEF PrepareData, MayRead
  <2>7. ToBeSent'
    BY ONLY <1>3, <2>3, <2>4, <2>5, <2>6, PackedIsLast, TypeOK, ~ useUDP, Line
  <2>8. QED BY ONLY <1>4, <2>6, <2>7 DEF Line
<1>10. QED BY ONLY <1>5, <1>6, <1>7, <1>8, <1>9, ~ Send, Client DEF Client

\* What the transports send goes behind all that waits.
LEMMA SendKeepsLine ==
  ASSUME TypeOK, ~ useUDP, Line, Send
  PROVE  Line'
<1>1. /\ conns \in 0 .. MaxConns /\ conn \in {0, conns} /\ fwConns \in 0 .. conns
      /\ fwConn \in {0, fwConns} /\ \A c \in 1 .. MaxConns : up[c] \in Seq(Packages)
      /\ up \in [1 .. MaxConns -> Seq(Packages)] /\ outbox \in Seq(Packages)
  BY DEF TypeOK, ClientTypeOK, NetworkTypeOK, FirmwareTypeOK
<1>2. /\ outbox # << >> /\ outbox[1].useTCP /\ outbox' = << >>
      /\ UNCHANGED <<resetPending, client, clients, consumed, conns, fwConn, fwConns, udpUp, gen, out,
                    uart>>
  BY DEF Send, Line, ToBeSent, portVars, linkVars, history, NoPackage
<1>3. PICK package : package = outbox[1]
  OBVIOUS
<1>4. package \in Current(gen, clients, consumed) /\ package \in Packages
  BY ONLY <1>1, <1>2, <1>3, Line DEF Line, ToBeSent
<1>5. up' = IF Reaches(conn) THEN [up EXCEPT ![conn] = Append(up[conn], package)] ELSE up
  BY ONLY <1>2, <1>3, Send DEF Send
<1>6. ToBeSent'
  BY ONLY <1>2, EmptySeq DEF ToBeSent, LastInLine
<1>7. Arrived' /\ (resetPending' => client' = clients') /\ udpUp' = << >>
  BY ONLY <1>2, Line DEF Line, Arrived, OnItsWay
<1>8. CASE ~ Reaches(conn)
  <2>1. UNCHANGED up
    BY ONLY <1>5, <1>8
  <2>2. OnItsWay'
    BY ONLY <1>2, <2>1, Line DEF Line, OnItsWay, InLine, Waiting
  <2>3. QED BY ONLY <1>6, <1>7, <2>2 DEF Line
<1>9. CASE Reaches(conn)
  <2>1. conn \in 1 .. MaxConns /\ conn = conns /\ Waiting(conn)
    BY ONLY <1>1, <1>9, Bounds DEF Reaches, Waiting
  <2>2. up' = [up EXCEPT ![conn] = Append(up[conn], package)]
    BY ONLY <1>5, <1>9
  <2>3. /\ up'[conn] = Append(up[conn], package)
        /\ \A c \in 1 .. MaxConns : c # conn => up'[c] = up[c]
    BY ONLY <1>1, <2>1, <2>2
  <2>4. PICK len \in Nat : len = Len(up[conn])
    BY ONLY <1>1, <2>1, LenProperties
  <2>5. /\ Len(up'[conn]) = len + 1 /\ up'[conn][len + 1] = package
        /\ \A i \in 1 .. len : up'[conn][i] = up[conn][i]
    BY ONLY <1>1, <1>4, <2>1, <2>3, <2>4, AppendProperties
  <2>6. \A c \in 1 .. MaxConns : c > conns => up'[c] = << >>
    BY ONLY <2>1, <2>3, Line DEF Line, OnItsWay
  <2>7. \A c \in 1 .. MaxConns : Waiting(c) => up'[c] \in Seq(Current(gen, clients, consumed))
    <3>1. up[conn] \in Seq(Current(gen, clients, consumed))
      BY ONLY <2>1, Line DEF Line, OnItsWay
    <3>2. up'[conn] \in Seq(Current(gen, clients, consumed))
      BY ONLY <1>4, <2>3, <3>1, AppendProperties
    <3>3. QED BY ONLY <2>3, <3>2, Line DEF Line, OnItsWay
  <2>8. \A c, d \in 1 .. MaxConns : Waiting(c) /\ Waiting(d) =>
          \A i \in 1 .. Len(up'[c]), j \in 1 .. Len(up'[d]) :
            c < d \/ (c = d /\ i < j) => Ahead(up'[c][i], up'[d][j])
    <3>1. SUFFICES ASSUME NEW c \in 1 .. MaxConns, NEW d \in 1 .. MaxConns, Waiting(c), Waiting(d),
                          NEW i \in 1 .. Len(up'[c]), NEW j \in 1 .. Len(up'[d]),
                          c < d \/ (c = d /\ i < j)
                   PROVE  Ahead(up'[c][i], up'[d][j])
      OBVIOUS
    <3>2. i \in 1 .. Len(up[c]) /\ up'[c][i] = up[c][i]
      <4>1. CASE c # conn
        BY ONLY <2>3, <4>1, c \in 1 .. MaxConns, i \in 1 .. Len(up'[c])
      <4>2. CASE c = conn /\ d = conn
        BY ONLY <2>1, <2>4, <2>5, <3>1, <4>2
      <4>3. CASE c = conn /\ d # conn
        <5>1. d > conns
          BY ONLY <1>1, <2>1, <3>1, <4>3
        <5>2. up'[d] = << >>
          BY ONLY <2>6, <5>1, d \in 1 .. MaxConns
        <5>3. QED BY ONLY <3>1, <5>2, EmptySeq
      <4>4. QED BY ONLY <4>1, <4>2, <4>3
    <3>3. CASE d = conn /\ j = len + 1
      BY ONLY <1>2, <1>3, <2>5, <3>1, <3>2, <3>3, Line DEF Line, ToBeSent, LastInLine
    <3>4. CASE ~ (d = conn /\ j = len + 1)
      <4>1. j \in 1 .. Len(up[d]) /\ up'[d][j] = up[d][j]
        <5>1. CASE d # conn
          BY ONLY <2>3, <5>1, d \in 1 .. MaxConns, j \in 1 .. Len(up'[d])
        <5>2. CASE d = conn
          BY ONLY <2>4, <2>5, <3>1, <3>4, <5>2
        <5>3. QED BY ONLY <5>1, <5>2
      <4>2. QED BY ONLY <3>1, <3>2, <4>1, Line DEF Line, OnItsWay, InLine
    <3>5. QED BY ONLY <3>3, <3>4
  <2>9. InLine'
    BY ONLY <1>2, <2>8 DEF InLine, Waiting
  <2>10. OnItsWay'
    BY ONLY <1>2, <1>7, <2>6, <2>7, <2>9 DEF OnItsWay, Waiting
  <2>11. QED BY ONLY <1>6, <1>7, <2>10 DEF Line
<1>10. QED BY ONLY <1>8, <1>9

\* What is handled or fed keeps its place behind the reset.
LEMMA HandledIsYoung ==
  ASSUME FirmwareTypeOK, Arrived, clients \in Nat, NEW package \in Current(gen, clients, consumed),
         HandleRequest(package)
  PROVE  /\ gen <= gen' /\ gen' <= clients /\ (Carries(package) => gen' <= package.from)
         /\ gen' \in Nat
         /\ out' \in Seq(Young(gen')) /\ uart'.ring \in Seq(Young(gen'))
<1>1. /\ uart \in Ports /\ gen \in Nat /\ gen <= clients /\ package.request \in Requests
      /\ out \in Seq(Young(gen)) /\ uart.ring \in Seq(Young(gen)) /\ package.from \in Nat
      /\ Carries(package) => gen <= package.from /\ package.from <= clients
  BY Bounds DEF FirmwareTypeOK, Ports, Arrived, Current, Packages
<1>2. uart' = ProcessRequest(uart, package.request)
  BY DEF HandleRequest
<1>3. CASE package.request.type = "Reset"
  <2>1. gen' = package.from /\ out' = << >>
    BY ONLY <1>3, HandleRequest(package) DEF HandleRequest
  <2>2. uart'.ring = << >>
    BY ONLY <1>1, <1>2, <1>3, RequestKeepsPort
  <2>3. Carries(package)
    BY ONLY <1>3 DEF Carries
  <2>4. out' \in Seq(Young(gen')) /\ uart'.ring \in Seq(Young(gen'))
    BY ONLY <2>1, <2>2, EmptySeq
  <2>5. QED BY ONLY <1>1, <2>1, <2>3, <2>4
<1>4. CASE package.request.type = "Data"
  <2>1. gen' = gen /\ out' = out
    BY ONLY <1>4, HandleRequest(package) DEF HandleRequest
  <2>2. Carries(package)
    BY ONLY <1>4 DEF Carries
  <2>3. PICK data : data = package.request.data
    OBVIOUS
  <2>4. data \in Seq(Young(gen))
    <3>1. {b \in Bytes : b[1] = package.from /\ (package.from = clients => b[2] <= consumed)}
            \subseteq Young(gen)
      BY ONLY <1>1, <2>2 DEF Young
    <3>2. data \in Seq({b \in Bytes : b[1] = package.from /\ (package.from = clients => b[2] <= consumed)})
      BY ONLY <1>4, <2>3, package \in Current(gen, clients, consumed) DEF Current
    <3>3. QED BY ONLY <3>1, <3>2, SeqMonotonic
  <2>5. PICK n \in 0 .. Len(data) : uart'.ring = uart.ring \o SubSeq(data, 1, n)
    BY ONLY <1>1, <1>2, <1>4, <2>3, RequestKeepsPort
  <2>6. n \in Nat /\ n <= Len(data)
    BY ONLY <2>4, <2>5, LenProperties
  <2>7. SubSeq(data, 1, n) \in Seq(Young(gen))
    BY ONLY <2>4, <2>6, PrefixType
  <2>8. uart'.ring \in Seq(Young(gen))
    BY ONLY <1>1, <2>5, <2>7, ConcatProperties
  <2>9. QED BY ONLY <1>1, <2>1, <2>2, <2>8
<1>5. CASE package.request.type \in {"NoCommand", "Open"}
  <2>1. gen' = gen /\ out' = out /\ ~ Carries(package)
    BY ONLY <1>5, HandleRequest(package) DEF HandleRequest, Carries
  <2>2. uart'.ring \in {<< >>, uart.ring}
    BY ONLY <1>1, <1>2, <1>5, RequestKeepsPort
  <2>3. << >> \in Seq(Young(gen))
    BY ONLY EmptySeq
  <2>4. uart'.ring \in Seq(Young(gen))
    BY ONLY <1>1, <2>2, <2>3
  <2>5. QED BY ONLY <1>1, <2>1, <2>4
<1>6. package.request.type \in {"NoCommand", "Open", "Reset", "Data"}
  BY ONLY <1>1 DEF Requests
<1>7. QED BY ONLY <1>3, <1>4, <1>5, <1>6

\* Once the first package is taken, all that waits in line was behind it.
LEMMA WaitingIsBehind ==
  ASSUME TypeOK, OnItsWay, RequestTCP, NEW c \in 1 .. MaxConns, Waiting(c),
         NEW i \in 1 .. Len(up'[c])
  PROVE  \E j \in 1 .. Len(up[c]) : /\ up'[c][i] = up[c][j]
                                    /\ Ahead(Head(up[fwConn]), up[c][j])
                                    /\ j = IF c = fwConn THEN i + 1 ELSE i
<1>1. /\ conns \in 0 .. MaxConns /\ fwConns \in 0 .. conns /\ fwConn \in {0, fwConns}
      /\ up \in [1 .. MaxConns -> Seq(Packages)]
  BY DEF TypeOK, NetworkTypeOK, FirmwareTypeOK
<1>2. /\ fwConn # 0 /\ up[fwConn] # << >>
      /\ up' = [up EXCEPT ![fwConn] = Tail(up[fwConn])]
  BY ONLY RequestTCP DEF RequestTCP
<1>3. fwConn \in 1 .. MaxConns /\ fwConn = fwConns
  BY ONLY <1>1, <1>2, Bounds
<1>4. PICK queue : queue = up[fwConn]
  OBVIOUS
<1>5. queue \in Seq(Packages) /\ queue # << >>
  BY ONLY <1>1, <1>2, <1>3, <1>4
<1>6. PICK package : package = Head(queue)
  OBVIOUS
<1>7. PICK len \in Nat : len = Len(queue)
  BY ONLY <1>5, LenProperties
<1>8. /\ package = queue[1] /\ len >= 1 /\ Len(Tail(queue)) = len - 1
      /\ \A k \in 1 .. len - 1 : Tail(queue)[k] = queue[k + 1]
  BY ONLY <1>5, <1>6, <1>7, HeadTailProperties, EmptySeq
<1>9. /\ up'[fwConn] = Tail(queue)
      /\ \A d \in 1 .. MaxConns : d # fwConn => up'[d] = up[d]
  BY ONLY <1>1, <1>2, <1>3, <1>4
<1>10. CASE c = fwConn
  <2>1. i \in 1 .. len - 1
    BY ONLY <1>8, <1>9, <1>10, i \in 1 .. Len(up'[c])
  <2>2. i + 1 \in 1 .. Len(up[c]) /\ 1 \in 1 .. Len(up[c]) /\ 1 < i + 1
    BY ONLY <1>4, <1>7, <1>8, <1>10, <2>1
  <2>3. up'[c][i] = up[c][i + 1] /\ package = up[c][1]
    BY ONLY <1>4, <1>8, <1>9, <1>10, <2>1
  <2>4. Ahead(up[c][1], up[c][i + 1])
    BY ONLY <2>2, OnItsWay, Waiting(c), c \in 1 .. MaxConns DEF OnItsWay, InLine
  <2>5. QED BY ONLY <1>4, <1>6, <1>10, <2>2, <2>3, <2>4
<1>11. CASE c # fwConn
  <2>1. up'[c] = up[c] /\ fwConn < c
    BY ONLY <1>1, <1>3, <1>9, <1>11, Waiting(c), c \in 1 .. MaxConns DEF Waiting
  <2>2. 1 \in 1 .. Len(up[fwConn]) /\ Waiting(fwConn) /\ up[fwConn][1] = package
    BY ONLY <1>4, <1>7, <1>8 DEF Waiting
  <2>3. i \in 1 .. Len(up[c])
    BY ONLY <2>1, i \in 1 .. Len(up'[c])
  <2>4. Ahead(up[fwConn][1], up[c][i])
    BY ONLY <1>3, <2>1, <2>2, <2>3, OnItsWay, Waiting(c), c \in 1 .. MaxConns DEF OnItsWay, InLine
  <2>5. QED BY ONLY <1>4, <1>6, <1>11, <2>1, <2>2, <2>3, <2>4
<1>12. QED BY ONLY <1>10, <1>11

\* The request that is handled is the first of the line.
LEMMA RequestKeepsLine ==
  ASSUME TypeOK, ~ useUDP, Line, RequestTCP
  PROVE  Line'
<1>1. /\ conns \in 0 .. MaxConns /\ fwConns \in 0 .. conns /\ fwConn \in {0, fwConns}
      /\ up \in [1 .. MaxConns -> Seq(Packages)] /\ outbox \in Seq(Packages) /\ Len(outbox) <= 1
      /\ FirmwareTypeOK /\ clients \in Nat /\ gen \in Nat
  BY Bounds DEF TypeOK, ClientTypeOK, NetworkTypeOK, FirmwareTypeOK
<1>2. /\ fwConn # 0 /\ up[fwConn] # << >> /\ HandleRequest(Head(up[fwConn]))
      /\ up' = [up EXCEPT ![fwConn] = Tail(up[fwConn])]
      /\ UNCHANGED <<fwConn, fwConns, outbox, resetPending, client, clients, consumed, conns, udpUp>>
  BY ONLY RequestTCP DEF RequestTCP, clientVars, portVars, udpVars
<1>3. fwConn \in 1 .. MaxConns /\ fwConn = fwConns
  BY ONLY <1>1, <1>2, Bounds
<1>4. PICK queue : queue = up[fwConn]
  OBVIOUS
<1>5. queue \in Seq(Current(gen, clients, consumed)) /\ queue # << >>
  BY ONLY <1>2, <1>3, <1>4, Line DEF Line, OnItsWay, Waiting
<1>6. PICK package : package = Head(queue)
  OBVIOUS
<1>7. PICK len \in Nat : len = Len(queue)
  BY ONLY <1>5, LenProperties
<1>8. /\ package \in Current(gen, clients, consumed) /\ package = queue[1] /\ len >= 1
      /\ Tail(queue) \in Seq(Current(gen, clients, consumed)) /\ Len(Tail(queue)) = len - 1
      /\ \A i \in 1 .. len - 1 : Tail(queue)[i] = queue[i + 1]
  BY ONLY <1>5, <1>6, <1>7, HeadTailProperties, EmptySeq
<1>9. /\ gen <= gen' /\ gen' <= clients /\ (Carries(package) => gen' <= package.from)
      /\ gen' \in Nat /\ out' \in Seq(Young(gen')) /\ uart'.ring \in Seq(Young(gen'))
      /\ (gen' = gen \/ (Carries(package) /\ gen' = package.from))
  <2>1. Arrived /\ HandleRequest(package)
    BY ONLY <1>2, <1>4, <1>6, Line DEF Line
  <2>2. gen' = gen \/ (Carries(package) /\ gen' = package.from)
    <3>1. CASE package.request.type = "Reset"
      BY ONLY <2>1, <3>1 DEF HandleRequest, Carries
    <3>2. CASE package.request.type # "Reset"
      <4>1. gen' = gen
        BY ONLY <2>1, <3>2 DEF HandleRequest
      <4>2. QED BY ONLY <4>1
    <3>3. QED BY ONLY <3>1, <3>2
  <2>3. QED BY ONLY <1>1, <1>8, <2>1, <2>2, HandledIsYoung
<1>10. /\ up'[fwConn] = Tail(queue)
       /\ \A c \in 1 .. MaxConns : c # fwConn => up'[c] = up[c]
  BY ONLY <1>1, <1>2, <1>3, <1>4
\* Everything that waits is behind the package.
<1>11. ASSUME NEW q \in Current(gen, clients, consumed), Ahead(package, q)
       PROVE  q \in Current(gen', clients, consumed)
  <2>1. q.from \in Nat /\ package.from \in Nat
    BY ONLY <1>8, q \in Current(gen, clients, consumed), Bounds DEF Current, Packages
  <2>2. QED BY ONLY <1>1, <1>9, <1>11, <2>1 DEF Current, Ahead
<1>12. ASSUME NEW c \in 1 .. MaxConns, Waiting(c), NEW i \in 1 .. Len(up'[c])
       PROVE  \E j \in 1 .. Len(up[c]) : /\ up'[c][i] = up[c][j] /\ Ahead(package, up[c][j])
                                         /\ j = IF c = fwConn THEN i + 1 ELSE i
  BY ONLY <1>4, <1>6, <1>12, WaitingIsBehind, TypeOK, RequestTCP, Line DEF Line
<1>13. \A c \in 1 .. MaxConns : Waiting(c) => up'[c] \in Seq(Current(gen', clients, consumed))
  <2>1. SUFFICES ASSUME NEW c \in 1 .. MaxConns, Waiting(c)
                 PROVE  up'[c] \in Seq(Current(gen', clients, consumed))
    OBVIOUS
  <2>2. PICK rest : rest = up'[c]
    OBVIOUS
  <2>3. rest \in Seq(Current(gen, clients, consumed))
    BY ONLY <1>8, <1>10, <2>1, <2>2, Line DEF Line, OnItsWay
  <2>4. \A i \in 1 .. Len(rest) : rest[i] \in Current(gen', clients, consumed)
    BY ONLY <1>11, <1>12, <2>1, <2>2, <2>3, ElementOfSeq
  <2>5. rest \in [1 .. Len(rest) -> Current(gen', clients, consumed)] /\ Len(rest) \in Nat
    BY ONLY <2>3, <2>4, LenProperties
  <2>6. QED BY ONLY <2>2, <2>5, SeqDef
<1>14. InLine'
  <2>1. \A c, d \in 1 .. MaxConns : Waiting(c) /\ Waiting(d) =>
          \A i \in 1 .. Len(up'[c]), j \in 1 .. Len(up'[d]) :
            c < d \/ (c = d /\ i < j) => Ahead(up'[c][i], up'[d][j])
    <3>1. SUFFICES ASSUME NEW c \in 1 .. MaxConns, NEW d \in 1 .. MaxConns, Waiting(c), Waiting(d),
                          NEW i \in 1 .. Len(up'[c]), NEW j \in 1 .. Len(up'[d]),
                          c < d \/ (c = d /\ i < j)
                   PROVE  Ahead(up'[c][i], up'[d][j])
      OBVIOUS
    <3>2. PICK k \in 1 .. Len(up[c]) : up'[c][i] = up[c][k] /\ k = IF c = fwConn THEN i + 1 ELSE i
      BY ONLY <1>12, <3>1
    <3>3. PICK m \in 1 .. Len(up[d]) : up'[d][j] = up[d][m] /\ m = IF d = fwConn THEN j + 1 ELSE j
      BY ONLY <1>12, <3>1
    <3>4. c < d \/ (c = d /\ k < m)
      <4>1. i \in Int /\ j \in Int
        OBVIOUS
      <4>2. QED BY ONLY <3>1, <3>2, <3>3, <4>1
    <3>5. Ahead(up[c][k], up[d][m])
      BY ONLY <3>1, <3>4, Line DEF Line, OnItsWay, InLine
    <3>6. QED BY ONLY <3>2, <3>3, <3>5
  <2>2. QED BY ONLY <1>2, <2>1 DEF InLine, Waiting
<1>15. OnItsWay'
  <2>1. \A c \in 1 .. MaxConns : c > conns => up'[c] = << >>
    BY ONLY <1>1, <1>3, <1>10, Line DEF Line, OnItsWay
  <2>2. QED BY ONLY <1>2, <1>13, <1>14, <2>1, Line DEF Line, OnItsWay, Waiting
<1>16. ToBeSent'
  <2>1. outbox \in Seq(Current(gen', clients, consumed))
    <3>1. \A k \in 1 .. Len(outbox) : outbox[k] \in Current(gen', clients, consumed)
      <4>1. SUFFICES ASSUME NEW k \in 1 .. Len(outbox) PROVE outbox[k] \in Current(gen', clients, consumed)
        OBVIOUS
      <4>2. k = 1 /\ outbox # << >>
        BY ONLY <1>1, k \in 1 .. Len(outbox), LenProperties, EmptySeq
      <4>3. Ahead(package, outbox[1])
        BY ONLY <1>3, <1>4, <1>7, <1>8, <4>2, Line DEF Line, ToBeSent, LastInLine, Waiting
      <4>4. outbox[k] \in Current(gen, clients, consumed)
        BY ONLY Line, k \in 1 .. Len(outbox), ElementOfSeq DEF Line, ToBeSent
      <4>5. QED BY ONLY <1>11, <4>2, <4>3, <4>4
    <3>2. outbox \in [1 .. Len(outbox) -> Current(gen', clients, consumed)] /\ Len(outbox) \in Nat
      BY ONLY <1>1, <3>1, LenProperties
    <3>3. QED BY ONLY <3>2, SeqDef
  <2>2. outbox # << >> => \A c \in 1 .. MaxConns : Waiting(c) =>
          \A i \in 1 .. Len(up'[c]) : Ahead(up'[c][i], outbox[1])
    BY ONLY <1>12, Line DEF Line, ToBeSent, LastInLine
  <2>3. LastInLine'
    BY ONLY <1>2, <2>2 DEF LastInLine, Waiting
  <2>4. QED BY ONLY <1>2, <2>1, <2>3, Line DEF Line, ToBeSent
<1>17. QED BY ONLY <1>2, <1>9, <1>15, <1>16, Line DEF Line, Arrived

LEMMA FirmwareKeepsLine ==
  ASSUME TypeOK, ~ useUDP, Line, Firmware, ~ RequestTCP
  PROVE  Line'
<1>1. /\ conns \in 0 .. MaxConns /\ fwConns \in 0 .. conns /\ fwConn \in {0, fwConns}
      /\ uart \in Ports /\ clients \in Nat /\ gen \in Nat /\ FirmwareTypeOK
  BY Bounds DEF TypeOK, ClientTypeOK, NetworkTypeOK, FirmwareTypeOK, Ports
<1>2. /\ OnItsWay /\ ToBeSent /\ gen <= clients /\ (resetPending => client = clients)
      /\ out \in Seq(Young(gen)) /\ uart.ring \in Seq(Young(gen)) /\ udpUp = << >>
  BY ONLY Line DEF Line, OnItsWay, Arrived
\* The packages stay, and what waits is among what waited.
<1>3. ASSUME UNCHANGED <<clients, consumed, client, resetPending, outbox, up, udpUp, conns, gen>>,
             \A c \in 1 .. MaxConns : Waiting(c)' => Waiting(c),
             out' \in Seq(Young(gen)), uart'.ring \in Seq(Young(gen))
      PROVE  Line'
  <2>1. OnItsWay'
    BY ONLY <1>2, <1>3 DEF OnItsWay, InLine
  <2>2. ToBeSent'
    BY ONLY <1>2, <1>3 DEF ToBeSent, LastInLine
  <2>3. QED BY ONLY <1>2, <1>3, <2>1, <2>2 DEF Line, Arrived
<1>4. CASE Accept \/ Drop
  <2>1. UNCHANGED <<clients, consumed, client, resetPending, outbox, up, udpUp, conns, gen, out, uart>>
    BY ONLY <1>4 DEF Accept, Drop, clientVars, portVars, tcpVars, udpVars, history
  <2>2. \A c \in 1 .. MaxConns : Waiting(c)' => Waiting(c)
    <3>1. \/ fwConn = 0 /\ fwConns' = fwConns + 1 /\ fwConn' = fwConns + 1
          \/ fwConn' = 0 /\ fwConns' = fwConns
      BY ONLY <1>4 DEF Accept, Drop, ServeTCP
    <3>2. QED BY ONLY <1>1, <3>1 DEF Waiting
  <2>3. QED BY ONLY <1>2, <1>3, <2>1, <2>2
<1>5. ASSUME NEW room \in 1 .. IOSize, FeedUART(room)
      PROVE  Line'
  <2>1. uart' = ProcessRX(uart, room) /\ out' = out \o Written(uart, room) /\ WriteSize(uart, room) > 0
    BY ONLY <1>5 DEF FeedUART
  <2>2. PICK n \in 1 .. Len(uart.ring) : /\ Written(uart, room) = SubSeq(uart.ring, 1, n)
                                         /\ uart'.ring = SubSeq(uart.ring, n + 1, Len(uart.ring))
    BY ONLY <1>1, <2>1, FeedKeepsPort, room \in 1 .. IOSize
  <2>3. n \in Nat /\ n <= Len(uart.ring)
    BY ONLY <1>2, n \in 1 .. Len(uart.ring), LenProperties
  <2>4. SubSeq(uart.ring, 1, n) \in Seq(Young(gen)) /\ uart'.ring \in Seq(Young(gen))
    BY ONLY <1>2, <2>2, <2>3, PrefixType, SuffixType
  <2>5. out' \in Seq(Young(gen))
    BY ONLY <1>2, <2>1, <2>2, <2>4, ConcatProperties
  <2>6. UNCHANGED <<clients, consumed, client, resetPending, outbox, up, udpUp, conns, gen, fwConn, fwConns>>
    BY ONLY <1>5 DEF FeedUART, clientVars, portVars, tcpVars, udpVars, linkVars
  <2>7. \A c \in 1 .. MaxConns : Waiting(c)' => Waiting(c)
    BY ONLY <2>6 DEF Waiting
  <2>8. QED BY ONLY <1>3, <2>4, <2>5, <2>6, <2>7
<1>6. CASE EndReset
  <2>1. uart' = [uart EXCEPT !.resetting = FALSE]
    BY ONLY <1>6 DEF EndReset, ReleaseReset
  <2>2. uart'.ring = uart.ring
    BY ONLY <1>1, <2>1 DEF Ports
  <2>3. UNCHANGED <<clients, consumed, client, resetPending, outbox, up, udpUp, conns, gen, out, fwConn, fwConns>>
    BY ONLY <1>6 DEF EndReset, clientVars, portVars, tcpVars, udpVars, linkVars, history
  <2>4. \A c \in 1 .. MaxConns : Waiting(c)' => Waiting(c)
    BY ONLY <2>3 DEF Waiting
  <2>5. QED BY ONLY <1>2, <1>3, <2>2, <2>3, <2>4
<1>7. ASSUME NEW n \in 0 .. IOSize, NEW wrapped \in BOOLEAN, Poll(n, wrapped)
      PROVE  Line'
  <2>1. uart'.ring = uart.ring
    BY ONLY <1>1, <1>7, PolledPort, n \in 0 .. IOSize, wrapped \in BOOLEAN
  <2>2. UNCHANGED <<clients, consumed, client, resetPending, outbox, up, udpUp, conns, gen, out, fwConn, fwConns>>
    BY ONLY <1>7 DEF Poll, clientVars, portVars, linkVars
  <2>3. \A c \in 1 .. MaxConns : Waiting(c)' => Waiting(c)
    BY ONLY <2>2 DEF Waiting
  <2>4. QED BY ONLY <1>2, <1>3, <2>1, <2>2, <2>3
<1>8. ASSUME NEW i \in 1 .. Len(udpUp), RequestUDP(i)
      PROVE  FALSE
  BY ONLY <1>2, i \in 1 .. Len(udpUp), EmptySeq
<1>9. QED BY ONLY <1>4, <1>5, <1>6, <1>7, <1>8, Firmware, ~ RequestTCP DEF Firmware

LEMMA InitLine ==
  ASSUME Init
  PROVE  Line
<1>1. \A S : << >> \in Seq(S)
  BY ONLY EmptySeq
<1>2. OnItsWay
  <2>1. \A c \in 1 .. MaxConns : up[c] = << >>
    BY ONLY Init DEF Init
  <2>2. InLine
    BY ONLY <2>1, EmptySeq DEF InLine
  <2>3. QED BY ONLY <1>1, <2>1, <2>2, Init DEF Init, OnItsWay
<1>3. ToBeSent
  BY ONLY <1>1, Init DEF Init, ToBeSent, LastInLine, NoPackage
<1>4. Arrived
  BY ONLY <1>1, Init DEF Init, Arrived, NewPort
<1>5. QED BY ONLY <1>2, <1>3, <1>4, Init DEF Init, Line

LEMMA LineIsYoung ==
  ASSUME TypeOK, Arrived
  PROVE  NothingOlderThanReset
<1>1. PICK line : line = out \o uart.ring
  OBVIOUS
<1>2. line \in Seq(Young(gen))
  BY ONLY <1>1, Arrived, ConcatProperties DEF Arrived
<1>3. \A i \in 1 .. Len(line) : line[i][1] >= gen
  BY ONLY <1>2, ElementOfSeq DEF Young
<1>4. QED BY ONLY <1>1, <1>3 DEF NothingOlderThanReset

\* Over TCP nothing a local client wrote reaches the device after the reset
\* request of a later one was handled, however often the connection is lost and
\* made again, and with or without data on the way.
THEOREM ResetIsABarrier == Spec => []NothingOlderThanReset
<1>1. Init => TypeOK /\ (~ useUDP => Line)
  BY InitTypes, InitLine
<1>2. TypeOK /\ (~ useUDP => Line) /\ [Next]_vars => TypeOK' /\ (~ useUDP' => Line')
  <2>1. ASSUME TypeOK, ~ useUDP => Line, Next PROVE TypeOK' /\ (~ useUDP' => Line')
    <3>1. useUDP' = useUDP /\ (Client \/ Firmware)
      BY ONLY <2>1 DEF Next
    <3>2. ~ useUDP => Line'
      BY ONLY <2>1, <3>1, ClientKeepsLine, SendKeepsLine, RequestKeepsLine, FirmwareKeepsLine
    <3>3. QED BY ONLY <2>1, <3>1, <3>2, NextTypes
  <2>2. ASSUME TypeOK, ~ useUDP => Line, UNCHANGED vars PROVE TypeOK' /\ (~ useUDP' => Line')
    <3>1. TypeOK'
      BY ONLY <2>2, StutterTypes
    <3>2. Line => Line'
      BY ONLY <2>2 DEF Line, OnItsWay, ToBeSent, Arrived, InLine, LastInLine, Waiting,
         vars, clientVars, portVars, tcpVars, udpVars, linkVars, history
    <3>3. useUDP' = useUDP
      BY ONLY <2>2 DEF vars
    <3>4. QED BY ONLY <2>2, <3>1, <3>2, <3>3
  <2>3. QED BY <2>1, <2>2
<1>3. TypeOK /\ (~ useUDP => Line) => NothingOlderThanReset
  BY LineIsYoung DEF Line, NothingOlderThanReset
<1>4. QED BY <1>1, <1>2, <1>3, PTL DEF Spec
-----------------------------------------------------------------------------
(* Every byte once and in order, over TCP.                                 *)

LEMMA ReadGrows ==
  ASSUME NEW k \in Nat, NEW m \in Nat, NEW k2 \in Nat, NEW m2 \in Nat,
         k < k2 \/ (k = k2 /\ m <= m2), NEW s \in Seq(Read(k, m))
  PROVE  s \in Seq(Read(k2, m2))
<1>1. \A b \in Bytes : b[1] \in Nat /\ b[2] \in Nat
  BY Bounds DEF Bytes
<1>2. Read(k, m) \subseteq Read(k2, m2)
  BY ONLY <1>1, k \in Nat, m \in Nat, k2 \in Nat, m2 \in Nat, k < k2 \/ (k = k2 /\ m <= m2) DEF Read
<1>3. QED BY ONLY <1>2, SeqMonotonic, s \in Seq(Read(k, m))

LEMMA PrefixKeepsOrder ==
  ASSUME NEW s \in Seq(Bytes), Increasing(s), NEW n \in 0 .. Len(s)
  PROVE  /\ SubSeq(s, 1, n) \in Seq(Bytes) /\ Len(SubSeq(s, 1, n)) = n
         /\ Increasing(SubSeq(s, 1, n)) /\ \A i \in 1 .. n : SubSeq(s, 1, n)[i] = s[i]
<1>1. PICK len \in Nat : len = Len(s)
  BY ONLY s \in Seq(Bytes), LenProperties
<1>2. n \in Nat /\ n <= len
  BY ONLY <1>1, n \in 0 .. Len(s)
<1>3. PICK front : front = SubSeq(s, 1, n)
  OBVIOUS
<1>4. front \in Seq(Bytes) /\ Len(front) = n
  BY ONLY <1>1, <1>2, <1>3, PrefixType, s \in Seq(Bytes)
<1>5. \A i \in 1 .. n : front[i] = s[i]
  <2>1. \A i \in 1 .. Len(s) : s[i] \in Bytes
    BY ONLY s \in Seq(Bytes), ElementOfSeq
  <2>2. \A i \in 1 .. n : s[i] \in Bytes
    BY ONLY <1>1, <1>2, <2>1
  <2>3. QED BY <1>1, <1>2, <1>3, <2>2, SubSeqProperties
<1>6. Increasing(front)
  BY ONLY <1>1, <1>2, <1>4, <1>5, Increasing(s) DEF Increasing
<1>7. QED BY ONLY <1>3, <1>4, <1>5, <1>6

LEMMA JoinKeepsOrder ==
  ASSUME NEW s \in Seq(Bytes), NEW t \in Seq(Bytes), Increasing(s), Increasing(t), Precedes(s, t)
  PROVE  Increasing(s \o t)
<1>1. PICK both : both = s \o t
  OBVIOUS
<1>2. PICK m \in Nat, n \in Nat : m = Len(s) /\ n = Len(t)
  BY ONLY s \in Seq(Bytes), t \in Seq(Bytes), LenProperties
<1>3. /\ Len(both) = m + n
      /\ \A i \in 1 .. m + n : both[i] = IF i <= m THEN s[i] ELSE t[i - m]
  BY ONLY <1>1, <1>2, ConcatProperties, s \in Seq(Bytes), t \in Seq(Bytes)
<1>4. ASSUME NEW i \in 1 .. m + n, NEW j \in 1 .. m + n, i < j
      PROVE  Before(both[i], both[j])
  <2>1. CASE j <= m
    BY ONLY <1>2, <1>3, <1>4, <2>1, Increasing(s) DEF Increasing
  <2>2. CASE i > m
    <3>1. PICK a, b : a = i - m /\ b = j - m
      OBVIOUS
    <3>2. a \in 1 .. n /\ b \in 1 .. n /\ a < b
      BY ONLY <1>2, <1>4, <2>2, <3>1
    <3>3. both[i] = t[a] /\ both[j] = t[b]
      BY ONLY <1>2, <1>3, <1>4, <2>2, <3>1
    <3>4. Before(t[a], t[b])
      BY ONLY <1>2, <3>2, Increasing(t) DEF Increasing
    <3>5. QED BY ONLY <3>3, <3>4
  <2>3. CASE i <= m /\ j > m
    <3>1. i \in 1 .. m /\ j - m \in 1 .. n
      BY ONLY <1>2, <1>4, <2>3
    <3>2. both[i] = s[i] /\ both[j] = t[j - m]
      BY ONLY <1>2, <1>3, <1>4, <2>3
    <3>3. QED BY ONLY <1>2, <3>1, <3>2, Precedes(s, t) DEF Precedes
  <2>4. QED BY ONLY <1>2, <1>4, <2>1, <2>2, <2>3
<1>5. QED BY ONLY <1>1, <1>3, <1>4 DEF Increasing

\* Bytes taken from s and t come before what both come before.
LEMMA JoinPrecedes ==
  ASSUME NEW s \in Seq(Bytes), NEW t \in Seq(Bytes), NEW n \in 0 .. Len(t),
         NEW u \in Seq(Bytes), Increasing(t), Precedes(s, u), Precedes(t, u)
  PROVE  Precedes(s \o SubSeq(t, 1, n), u)
<1>1. PICK front : front = SubSeq(t, 1, n)
  OBVIOUS
<1>2. front \in Seq(Bytes) /\ Len(front) = n /\ \A i \in 1 .. n : front[i] = t[i]
  BY ONLY <1>1, PrefixKeepsOrder, t \in Seq(Bytes), n \in 0 .. Len(t), Increasing(t)
<1>3. PICK both : both = s \o front
  OBVIOUS
<1>4. PICK m \in Nat, len \in Nat : m = Len(s) /\ len = Len(t)
  BY ONLY s \in Seq(Bytes), t \in Seq(Bytes), LenProperties
<1>5. n \in 0 .. len
  BY ONLY <1>4, n \in 0 .. Len(t)
<1>6. /\ Len(both) = m + n
      /\ \A i \in 1 .. m + n : both[i] = IF i <= m THEN s[i] ELSE front[i - m]
  BY ONLY <1>2, <1>3, <1>4, ConcatProperties, s \in Seq(Bytes)
<1>7. ASSUME NEW i \in 1 .. m + n, NEW j \in 1 .. Len(u)
      PROVE  Before(both[i], u[j])
  <2>1. CASE i <= m
    BY ONLY <1>4, <1>5, <1>6, <1>7, <2>1, Precedes(s, u) DEF Precedes
  <2>2. CASE i > m
    <3>1. i - m \in 1 .. n /\ i - m \in 1 .. len
      BY ONLY <1>4, <1>5, <1>7, <2>2
    <3>2. both[i] = t[i - m]
      BY ONLY <1>2, <1>4, <1>5, <1>6, <1>7, <2>2, <3>1
    <3>3. QED BY ONLY <1>4, <1>7, <3>1, <3>2, Precedes(t, u) DEF Precedes
  <2>3. QED BY ONLY <1>4, <1>5, <1>7, <2>1, <2>2
<1>8. QED BY ONLY <1>1, <1>3, <1>6, <1>7 DEF Precedes

\* The payload of a package on its way.
LEMMA PayloadWasRead ==
  ASSUME clients \in Nat, consumed \in Nat, NEW g \in Nat, NEW p \in Current(g, clients, consumed)
  PROVE  /\ PayloadOf(p) \in Seq(Read(clients, consumed)) /\ PayloadOf(p) \in Seq(Bytes)
         /\ Increasing(PayloadOf(p))
<1>1. CASE p.request.type # "Data"
  <2>1. PayloadOf(p) = << >>
    BY ONLY <1>1 DEF PayloadOf
  <2>2. QED BY ONLY <2>1, EmptySeq DEF Increasing
<1>2. CASE p.request.type = "Data"
  <2>1. PICK data : data = PayloadOf(p)
    OBVIOUS
  <2>2. /\ data \in Seq({b \in Bytes : b[1] = p.from /\ (p.from = clients => b[2] <= consumed)})
        /\ Increasing(data) /\ p.from <= clients /\ p.from \in Nat
    BY ONLY <1>2, <2>1, p \in Current(g, clients, consumed), Bounds
       DEF PayloadOf, Current, Carries, Packages
  <2>3. /\ {b \in Bytes : b[1] = p.from /\ (p.from = clients => b[2] <= consumed)}
             \subseteq Read(clients, consumed)
        /\ Read(clients, consumed) \subseteq Bytes
    BY ONLY <2>2, clients \in Nat DEF Read
  <2>4. data \in Seq(Read(clients, consumed)) /\ data \in Seq(Bytes)
    BY ONLY <2>2, <2>3, SeqMonotonic
  <2>5. QED BY ONLY <2>1, <2>2, <2>4
<1>3. QED BY ONLY <1>1, <1>2

\* What the line is after a request was handled.
LEMMA HandledInOrder ==
  ASSUME TypeOK, Order, NEW package \in Current(gen, clients, consumed), HandleRequest(package),
         Precedes(out \o uart.ring, PayloadOf(package))
  PROVE  LET after == out' \o uart'.ring
         IN  /\ after \in Seq(Read(clients, consumed)) /\ Increasing(after)
             /\ \A u \in Seq(Bytes) :
                  Precedes(out \o uart.ring, u) /\ Precedes(PayloadOf(package), u) => Precedes(after, u)
<1>1. /\ clients \in Nat /\ consumed \in Nat /\ gen \in Nat /\ uart \in Ports
      /\ out \in Seq(Bytes) /\ uart.ring \in Seq(Bytes) /\ package.request \in Requests
  BY Bounds DEF TypeOK, ClientTypeOK, FirmwareTypeOK, Ports, Current, Packages
<1>2. uart' = ProcessRequest(uart, package.request)
  BY ONLY HandleRequest(package) DEF HandleRequest
<1>3. PICK line : line = out \o uart.ring
  OBVIOUS
<1>4. line \in Seq(Read(clients, consumed)) /\ line \in Seq(Bytes) /\ Increasing(line)
  BY ONLY <1>1, <1>3, Order, ConcatProperties DEF Order, InOrder
<1>5. PICK after : after = out' \o uart'.ring
  OBVIOUS
<1>6. CASE package.request.type = "Reset"
  <2>1. out' = << >> /\ uart'.ring = << >>
    BY ONLY <1>1, <1>2, <1>6, HandleRequest(package), RequestKeepsPort DEF HandleRequest
  <2>2. << >> \in Seq(Bytes) /\ << >> \in Seq(Read(clients, consumed)) /\ Len(<< >>) = 0
    BY ONLY EmptySeq
  <2>3. after = << >>
    BY ONLY <1>5, <2>1, <2>2, ConcatEmptySeq
  <2>4. QED BY ONLY <1>5, <2>2, <2>3 DEF Increasing, Precedes
<1>7. CASE package.request.type \in {"NoCommand", "Open"}
  <2>1. out' = out /\ uart'.ring \in {<< >>, uart.ring}
    BY ONLY <1>1, <1>2, <1>7, HandleRequest(package), RequestKeepsPort DEF HandleRequest
  <2>2. CASE uart'.ring = uart.ring
    BY ONLY <1>3, <1>4, <1>5, <2>1, <2>2
  <2>3. CASE uart'.ring = << >>
    <3>1. after = out
      BY ONLY <1>1, <1>5, <2>1, <2>3, ConcatEmptySeq
    <3>2. PICK m \in Nat, n \in Nat : m = Len(out) /\ n = Len(uart.ring)
      BY ONLY <1>1, LenProperties
    <3>3. Len(line) = m + n /\ \A i \in 1 .. m : line[i] = out[i]
      <4>1. /\ Len(line) = m + n
            /\ \A i \in 1 .. m + n : line[i] = IF i <= m THEN out[i] ELSE uart.ring[i - m]
        BY ONLY <1>1, <1>3, <3>2, ConcatProperties
      <4>2. QED BY ONLY <3>2, <4>1
    <3>4. Increasing(out)
      BY ONLY <1>4, <3>2, <3>3 DEF Increasing
    <3>5. \A u : Precedes(line, u) => Precedes(out, u)
      BY ONLY <3>2, <3>3 DEF Precedes
    <3>6. out \in Seq(Read(clients, consumed))
      <4>1. \A i \in 1 .. Len(line) : line[i] \in Read(clients, consumed)
        BY ONLY <1>4, ElementOfSeq
      <4>2. \A i \in 1 .. m : out[i] \in Read(clients, consumed)
        BY ONLY <3>2, <3>3, <4>1
      <4>3. out \in [1 .. Len(out) -> Read(clients, consumed)]
        BY ONLY <1>1, <3>2, <4>2, LenProperties
      <4>4. QED BY ONLY <3>2, <4>3, SeqDef
    <3>7. QED BY ONLY <1>3, <1>5, <3>1, <3>4, <3>5, <3>6
  <2>4. QED BY ONLY <2>1, <2>2, <2>3
<1>8. CASE package.request.type = "Data"
  <2>1. PICK data : data = PayloadOf(package)
    OBVIOUS
  <2>2. data = package.request.data /\ out' = out
    BY ONLY <1>8, <2>1, HandleRequest(package) DEF HandleRequest, PayloadOf
  <2>3. PICK n \in 0 .. Len(data) : uart'.ring = uart.ring \o SubSeq(data, 1, n)
    BY ONLY <1>1, <1>2, <1>8, <2>2, RequestKeepsPort
  <2>4. /\ data \in Seq(Read(clients, consumed)) /\ data \in Seq(Bytes) /\ Increasing(data)
    BY ONLY <1>1, <2>1, PayloadWasRead, package \in Current(gen, clients, consumed)
  <2>5. PICK front : front = SubSeq(data, 1, n)
    OBVIOUS
  <2>6. front \in Seq(Bytes) /\ Len(front) = n /\ Increasing(front) /\ \A i \in 1 .. n : front[i] = data[i]
    BY ONLY <2>4, <2>5, PrefixKeepsOrder, n \in 0 .. Len(data)
  <2>7. after = line \o front
    <3>1. PICK ring : ring = uart.ring
      OBVIOUS
    <3>2. after = out \o (ring \o front)
      BY ONLY <1>5, <2>2, <2>3, <2>5, <3>1
    <3>3. (out \o ring) \o front = out \o (ring \o front)
      <4>1. ring \in Seq(Bytes)
        BY ONLY <1>1, <3>1
      <4>2. out \in Seq(Bytes) /\ front \in Seq(Bytes)
        BY ONLY <1>1, <2>6
      <4>3. \A x, y, z \in Seq(Bytes) : (x \o y) \o z = x \o (y \o z)
        BY ConcatAssociative
      <4>4. QED BY ONLY <4>1, <4>2, <4>3
    <3>4. QED BY ONLY <1>3, <3>1, <3>2, <3>3
  <2>8. front \in Seq(Read(clients, consumed))
    <3>1. n \in Nat /\ n <= Len(data)
      BY ONLY <2>4, LenProperties, n \in 0 .. Len(data)
    <3>2. QED BY ONLY <2>4, <2>5, <3>1, PrefixType
  <2>9. after \in Seq(Read(clients, consumed))
    BY ONLY <1>4, <2>7, <2>8, ConcatProperties
  <2>10. Precedes(line, front)
    <3>1. PICK len \in Nat : len = Len(data)
      BY ONLY <2>4, LenProperties
    <3>2. n \in 0 .. len
      BY ONLY <3>1, n \in 0 .. Len(data)
    <3>3. Precedes(line, data)
      BY ONLY <1>3, <2>1, Precedes(out \o uart.ring, PayloadOf(package))
    <3>4. QED BY ONLY <2>6, <3>1, <3>2, <3>3 DEF Precedes
  <2>11. Increasing(after)
    BY ONLY <1>4, <2>6, <2>7, <2>10, JoinKeepsOrder
  <2>12. \A u \in Seq(Bytes) : Precedes(line, u) /\ Precedes(data, u) => Precedes(after, u)
    BY ONLY <1>4, <2>4, <2>5, <2>7, JoinPrecedes, n \in 0 .. Len(data)
  <2>13. QED BY ONLY <1>3, <1>5, <2>1, <2>9, <2>11, <2>12
<1>9. package.request.type \in {"NoCommand", "Open", "Reset", "Data"}
  BY ONLY <1>1 DEF Requests
<1>10. QED BY ONLY <1>6, <1>7, <1>8, <1>9

LEMMA RequestKeepsOrder ==
  ASSUME TypeOK, Line, Order, RequestTCP
  PROVE  Order'
<1>1. /\ clients \in Nat /\ consumed \in Nat /\ gen \in Nat /\ outbox \in Seq(Packages)
      /\ fwConn \in 0 .. MaxConns /\ OnItsWay /\ ToBeSent
  BY Bounds DEF TypeOK, ClientTypeOK, NetworkTypeOK, FirmwareTypeOK, Line
<1>2. /\ fwConn # 0 /\ up[fwConn] # << >> /\ HandleRequest(Head(up[fwConn]))
      /\ UNCHANGED <<fwConn, fwConns, outbox, clients, consumed>>
  BY ONLY RequestTCP DEF RequestTCP, clientVars, portVars
<1>3. fwConn \in 1 .. MaxConns /\ Waiting(fwConn)
  BY ONLY <1>1, <1>2, Bounds DEF Waiting
<1>4. PICK package : package = Head(up[fwConn])
  OBVIOUS
<1>5. /\ up[fwConn] \in Seq(Current(gen, clients, consumed)) /\ 1 \in 1 .. Len(up[fwConn])
      /\ package = up[fwConn][1] /\ package \in Current(gen, clients, consumed)
  <2>1. PICK queue : queue = up[fwConn]
    OBVIOUS
  <2>2. queue \in Seq(Current(gen, clients, consumed)) /\ queue # << >>
    BY ONLY <1>1, <1>2, <1>3, <2>1 DEF OnItsWay
  <2>3. Len(queue) \in Nat /\ Len(queue) # 0
    BY ONLY <2>2, LenProperties, EmptySeq
  <2>4. package = queue[1] /\ 1 \in 1 .. Len(queue)
    BY ONLY <1>4, <2>1, <2>2, <2>3, HeadTailProperties
  <2>5. package \in Current(gen, clients, consumed)
    BY ONLY <2>2, <2>4, ElementOfSeq
  <2>6. QED BY ONLY <2>1, <2>2, <2>4, <2>5
<1>6. PICK line : line = out \o uart.ring
  OBVIOUS
<1>7. Precedes(line, PayloadOf(package))
  BY ONLY <1>3, <1>5, <1>6, Order DEF Order, InOrder
<1>8. PICK after : after = out' \o uart'.ring
  OBVIOUS
<1>9. /\ after \in Seq(Read(clients, consumed)) /\ Increasing(after)
      /\ \A u \in Seq(Bytes) : Precedes(line, u) /\ Precedes(PayloadOf(package), u) => Precedes(after, u)
  BY ONLY <1>2, <1>4, <1>5, <1>6, <1>7, <1>8, TypeOK, Order, HandledInOrder
<1>10. ASSUME NEW q \in Current(gen, clients, consumed), Ahead(package, q), Precedes(line, PayloadOf(q))
       PROVE  Precedes(after, PayloadOf(q))
  BY ONLY <1>1, <1>9, <1>10, PayloadWasRead DEF Ahead
<1>11. ASSUME NEW c \in 1 .. MaxConns, Waiting(c), NEW i \in 1 .. Len(up'[c])
       PROVE  Precedes(after, PayloadOf(up'[c][i]))
  <2>1. PICK j \in 1 .. Len(up[c]) : up'[c][i] = up[c][j] /\ Ahead(package, up[c][j])
    BY ONLY <1>1, <1>4, <1>11, TypeOK, RequestTCP, WaitingIsBehind
  <2>2. up[c][j] \in Current(gen, clients, consumed)
    BY ONLY <1>1, <1>11, j \in 1 .. Len(up[c]), ElementOfSeq DEF OnItsWay
  <2>3. Precedes(line, PayloadOf(up[c][j]))
    BY ONLY <1>6, <1>11, Order, j \in 1 .. Len(up[c]) DEF Order, InOrder
  <2>4. QED BY ONLY <1>10, <2>1, <2>2, <2>3
<1>12. ASSUME outbox # << >>
       PROVE  Precedes(after, PayloadOf(outbox[1]))
  <2>1. outbox[1] \in Current(gen, clients, consumed)
    <3>1. outbox \in Seq(Current(gen, clients, consumed)) /\ Len(outbox) \in Nat /\ Len(outbox) # 0
      BY ONLY <1>1, <1>12, LenProperties, EmptySeq DEF ToBeSent
    <3>2. QED BY ONLY <3>1, ElementOfSeq
  <2>2. Ahead(package, outbox[1])
    BY ONLY <1>1, <1>3, <1>5, <1>12 DEF ToBeSent, LastInLine
  <2>3. Precedes(line, PayloadOf(outbox[1]))
    BY ONLY <1>6, <1>12, Order DEF Order, InOrder
  <2>4. QED BY ONLY <1>10, <2>1, <2>2, <2>3
<1>13. InOrder(after)'
  BY ONLY <1>2, <1>9, <1>11, <1>12 DEF InOrder, Waiting
<1>14. QED BY ONLY <1>8, <1>13 DEF Order

\* What a round reads comes after all that was read before.
LEMMA PackedInOrder ==
  ASSUME TypeOK, Order, NEW request \in Requests, Tick, Pack(request),
         request.type = "Data" => client = clients /\ request.data \in Seq(Fresh)
  PROVE  Precedes(out \o uart.ring, PayloadOf(outbox'[1]))
<1>1. clients \in Nat /\ consumed \in Nat /\ outbox'[1].request = request
  BY PackedIsPackage, Bounds DEF TypeOK, ClientTypeOK
<1>2. PICK line : line = out \o uart.ring
  OBVIOUS
<1>3. line \in Seq(Read(clients, consumed))
  BY ONLY <1>2, Order DEF Order, InOrder
<1>4. CASE request.type = "Data"
  <2>1. PICK data : data = request.data
    OBVIOUS
  <2>2. PayloadOf(outbox'[1]) = data
    BY ONLY <1>1, <1>4, <2>1 DEF PayloadOf
  <2>3. ASSUME NEW i \in 1 .. Len(line), NEW j \in 1 .. Len(data)
        PROVE  Before(line[i], data[j])
    <3>1. PICK b, d : b = line[i] /\ d = data[j]
      OBVIOUS
    <3>2. b \in Read(clients, consumed)
      BY ONLY <1>3, <3>1, ElementOfSeq, i \in 1 .. Len(line)
    <3>3. data \in Seq(Fresh)
      BY ONLY <1>4, <2>1, request.type = "Data" => request.data \in Seq(Fresh)
    <3>4. d \in Fresh
      BY ONLY <3>1, <3>3, ElementOfSeq, j \in 1 .. Len(data)
    <3>5. b[1] \in Nat /\ b[2] \in Nat /\ d[2] \in Nat
      BY ONLY <3>2, <3>4, Bounds DEF Read, Fresh, Bytes
    <3>6. d[1] = clients /\ consumed < d[2]
      BY ONLY <1>4, <3>4, request.type = "Data" => client = clients DEF Fresh
    <3>7. Before(b, d)
      BY ONLY <1>1, <3>2, <3>5, <3>6 DEF Read, Before
    <3>8. QED BY ONLY <3>1, <3>7
  <2>4. QED BY ONLY <1>2, <2>2, <2>3 DEF Precedes
<1>5. CASE request.type # "Data"
  <2>1. PayloadOf(outbox'[1]) = << >>
    BY ONLY <1>1, <1>5 DEF PayloadOf
  <2>2. QED BY ONLY <2>1, EmptySeq DEF Precedes
<1>6. QED BY ONLY <1>4, <1>5

LEMMA ClientKeepsOrder ==
  ASSUME TypeOK, Order, Client, ~ Send
  PROVE  Order'
<1>1. /\ clients \in Nat /\ consumed \in Nat /\ client \in {0, clients} /\ ClientTypeOK
  BY Bounds DEF TypeOK, ClientTypeOK
<1>2. /\ UNCHANGED <<up, fwConn, fwConns, out, uart>>
      /\ \/ clients' = clients + 1 /\ consumed' = 0
         \/ clients' = clients /\ consumed' = consumed
         \/ clients' = clients /\ \E n \in 1 .. MaxBytes : consumed' = consumed + n
  BY ~ Send, Client DEF Client, OnPortOpen, PrepareNothing, PrepareOpen, PrepareReset, PrepareIdle,
     PrepareHangup, PrepareData, Pack, Connect, Disconnect, StoreResponse, ReceiveTCP, ReceiveUDP, CheckResponse,
     tcpVars, linkVars, history, portVars, clientVars
<1>3. /\ clients' \in Nat /\ consumed' \in Nat
      /\ clients < clients' \/ (clients = clients' /\ consumed <= consumed')
  BY ONLY <1>1, <1>2
<1>4. PICK line : line = out \o uart.ring
  OBVIOUS
<1>5. /\ line \in Seq(Read(clients', consumed')) /\ Increasing(line)
      /\ \A c \in 1 .. MaxConns : Waiting(c) =>
           \A i \in 1 .. Len(up[c]) : Precedes(line, PayloadOf(up[c][i]))
  <2>1. line \in Seq(Read(clients, consumed))
    BY ONLY <1>4, Order DEF Order, InOrder
  <2>2. line \in Seq(Read(clients', consumed'))
    BY ONLY <1>1, <1>3, <2>1, ReadGrows
  <2>3. QED BY ONLY <1>4, <2>2, Order DEF Order, InOrder
<1>6. outbox' # << >> => Precedes(line, PayloadOf(outbox'[1]))
  <2>1. CASE OnPortOpen \/ Connect \/ Disconnect \/ StoreResponse \/ ReceiveTCP
            \/ \E i \in 1 .. Len(udpDown) : ReceiveUDP(i)
    <3>1. UNCHANGED outbox
      BY ONLY <2>1 DEF OnPortOpen, Connect, Disconnect, StoreResponse, ReceiveTCP, ReceiveUDP, CheckResponse,
         clientVars
    <3>2. QED BY ONLY <1>4, <3>1, Order DEF Order, InOrder
  <2>2. CASE PrepareNothing \/ PrepareIdle \/ PrepareHangup
    <3>1. PICK request : request = NoCommand
      OBVIOUS
    <3>2. request \in Requests /\ request.type # "Data"
      BY ONLY <3>1 DEF NoCommand, Request, Requests
    <3>3. Tick /\ Pack(request)
      BY ONLY <2>2, <3>1 DEF PrepareNothing, PrepareIdle, PrepareHangup, MayRead
    <3>4. QED BY ONLY <1>4, <3>2, <3>3, PackedInOrder, TypeOK, Order
  <2>3. CASE PrepareOpen
    <3>1. PICK request : request = Request("Open", 0, <<"speed">>)
      OBVIOUS
    <3>2. request \in Requests /\ request.type # "Data"
      BY ONLY <3>1 DEF Request, Requests
    <3>3. Tick /\ Pack(request)
      BY ONLY <2>3, <3>1, Zenon DEF PrepareOpen
    <3>4. QED BY ONLY <1>4, <3>2, <3>3, PackedInOrder, TypeOK, Order
  <2>4. CASE PrepareReset
    <3>1. PICK request : request = Request("Reset", sessionId, << >>)
      OBVIOUS
    <3>2. sessionId \in 0 .. SessionLimit
      BY ONLY <1>1 DEF ClientTypeOK
    <3>3. request \in Requests /\ request.type # "Data"
      BY ONLY <3>1, <3>2 DEF Request, Requests
    <3>4. Tick /\ Pack(request)
      BY ONLY <2>4, <3>1, Zenon DEF PrepareReset
    <3>5. QED BY ONLY <1>4, <3>3, <3>4, PackedInOrder, TypeOK, Order
  <2>5. ASSUME NEW n \in 1 .. MaxBytes, PrepareData(n)
        PROVE  Precedes(line, PayloadOf(outbox'[1]))
    <3>1. PICK data : data = [i \in 1 .. n |-> <<client, consumed + i>>]
      OBVIOUS
    <3>2. PICK request : request = Request("Data", 0, data)
      OBVIOUS
    <3>3. request \in Requests /\ data \in Seq(Fresh)
      BY ONLY <1>1, <2>5, <3>1, <3>2, DataIsFresh, n \in 1 .. MaxBytes
    <3>4. request.data = data
      BY ONLY <3>2 DEF Request
    <3>5. Tick /\ Pack(request) /\ client = clients
      <4>1. Tick /\ client # 0
        BY ONLY <2>5 DEF PrepareData, MayRead
      <4>2. Pack(request)
        BY ONLY <2>5, <3>1, <3>2, Zenon DEF PrepareData
      <4>3. QED BY ONLY <1>1, <4>1, <4>2
    <3>6. QED BY ONLY <1>4, <3>3, <3>4, <3>5, PackedInOrder, TypeOK, Order
  <2>6. QED BY ONLY <2>1, <2>2, <2>3, <2>4, <2>5, ~ Send, Client DEF Client
<1>7. Order'
  BY ONLY <1>2, <1>4, <1>5, <1>6 DEF Order, InOrder, Waiting
<1>8. QED BY <1>7

LEMMA SendKeepsOrder ==
  ASSUME TypeOK, Line, Order, Send
  PROVE  Order'
<1>1. /\ conns \in 0 .. MaxConns /\ conn \in {0, conns}
      /\ up \in [1 .. MaxConns -> Seq(Packages)] /\ outbox \in Seq(Packages)
  BY DEF TypeOK, ClientTypeOK, NetworkTypeOK
<1>2. /\ outbox # << >> /\ outbox[1].useTCP /\ outbox' = << >>
      /\ UNCHANGED <<clients, consumed, fwConn, fwConns, out, uart>>
  BY DEF Send, Line, ToBeSent, portVars, linkVars, history, NoPackage
<1>3. PICK package : package = outbox[1]
  OBVIOUS
<1>4. package \in Packages
  BY ONLY <1>1, <1>2, <1>3
<1>5. up' = IF Reaches(conn) THEN [up EXCEPT ![conn] = Append(up[conn], package)] ELSE up
  BY ONLY <1>2, <1>3, Send DEF Send
<1>6. PICK line : line = out \o uart.ring
  OBVIOUS
<1>7. InOrder(line) /\ Precedes(line, PayloadOf(package))
  BY ONLY <1>2, <1>3, <1>6, Order DEF Order, InOrder
<1>8. ASSUME NEW c \in 1 .. MaxConns, Waiting(c), NEW i \in 1 .. Len(up'[c])
      PROVE  Precedes(line, PayloadOf(up'[c][i]))
  <2>1. CASE up'[c] = up[c]
    BY ONLY <1>7, <1>8, <2>1 DEF InOrder
  <2>2. CASE up'[c] = Append(up[c], package)
    <3>1. PICK queue : queue = up[c]
      OBVIOUS
    <3>2. queue \in Seq(Packages)
      BY ONLY <1>1, <3>1, c \in 1 .. MaxConns
    <3>3. PICK len \in Nat : len = Len(queue)
      BY ONLY <3>2, LenProperties
    <3>4. /\ Len(up'[c]) = len + 1 /\ up'[c][len + 1] = package
          /\ \A k \in 1 .. len : up'[c][k] = queue[k]
      BY ONLY <1>4, <2>2, <3>1, <3>2, <3>3, AppendProperties
    <3>5. CASE i = len + 1
      BY ONLY <1>7, <3>4, <3>5
    <3>6. CASE i # len + 1
      <4>1. i \in 1 .. len
        BY ONLY <3>4, <3>6, i \in 1 .. Len(up'[c])
      <4>2. up'[c][i] = up[c][i] /\ i \in 1 .. Len(up[c])
        BY ONLY <3>1, <3>3, <3>4, <4>1
      <4>3. QED BY ONLY <1>7, <1>8, <4>2 DEF InOrder
    <3>7. QED BY ONLY <3>5, <3>6
  <2>3. up'[c] = up[c] \/ up'[c] = Append(up[c], package)
    <3>1. CASE Reaches(conn)
      BY ONLY <1>1, <1>5, <3>1, c \in 1 .. MaxConns
    <3>2. CASE ~ Reaches(conn)
      BY ONLY <1>5, <3>2
    <3>3. QED BY ONLY <3>1, <3>2
  <2>4. QED BY ONLY <2>1, <2>2, <2>3
<1>9. line \in Seq(Read(clients, consumed)) /\ Increasing(line)
  BY ONLY <1>7 DEF InOrder
<1>10. Order'
  BY ONLY <1>2, <1>6, <1>8, <1>9 DEF Order, InOrder, Waiting
<1>11. QED BY <1>10

\* What goes from the ring to the device.
LEMMA FedBytes ==
  ASSUME TypeOK, NEW room \in 1 .. IOSize, FeedUART(room)
  PROVE  /\ \E n \in 1 .. Len(uart.ring) : uart'.ring = SubSeq(uart.ring, n + 1, Len(uart.ring))
         /\ out' \o uart'.ring = out \o uart.ring
         /\ Len(out') + Len(uart'.ring) = Len(out) + Len(uart.ring)
         /\ uart'.open = uart.open
<1>1. uart \in Ports /\ out \in Seq(Bytes) /\ uart.ring \in Seq(Bytes)
  BY DEF TypeOK, FirmwareTypeOK, Ports
<1>2. uart' = ProcessRX(uart, room) /\ out' = out \o Written(uart, room) /\ WriteSize(uart, room) > 0
  BY DEF FeedUART
<1>3. PICK n \in 1 .. Len(uart.ring) : /\ Written(uart, room) = SubSeq(uart.ring, 1, n)
                                       /\ uart'.ring = SubSeq(uart.ring, n + 1, Len(uart.ring))
  BY ONLY <1>1, <1>2, FeedKeepsPort, room \in 1 .. IOSize
<1>4. PICK ring, written, rest : /\ ring = uart.ring /\ written = SubSeq(ring, 1, n)
                                 /\ rest = SubSeq(ring, n + 1, Len(ring))
  OBVIOUS
<1>5. ring \in Seq(Bytes) /\ n \in Nat /\ n <= Len(ring)
  BY ONLY <1>1, <1>4, n \in 1 .. Len(uart.ring), LenProperties
<1>6. /\ written \in Seq(Bytes) /\ rest \in Seq(Bytes)
      /\ Len(written) = n /\ Len(rest) = Len(ring) - n
  BY ONLY <1>4, <1>5, PrefixType, SuffixType
<1>7. written \o rest = ring
  <2>1. PICK len \in Nat : len = Len(ring)
    BY ONLY <1>5, LenProperties
  <2>2. 1 \in 1 .. len + 1 /\ n \in 1 - 1 .. len /\ len \in n .. len
    BY ONLY <1>5, <2>1
  <2>3. SubSeq(ring, 1, n) \o SubSeq(ring, n + 1, len) = SubSeq(ring, 1, len)
    BY ONLY <1>5, <2>1, <2>2, ConcatAdjacentSubSeq
  <2>4. QED BY ONLY <1>4, <1>5, <2>1, <2>3, SubSeqFull
<1>8. (out \o written) \o rest = out \o (written \o rest)
  <2>1. \A x, y, z \in Seq(Bytes) : (x \o y) \o z = x \o (y \o z)
    BY ConcatAssociative
  <2>2. QED BY ONLY <1>1, <1>6, <2>1
<1>9. out' \o uart'.ring = out \o uart.ring
  BY ONLY <1>2, <1>3, <1>4, <1>7, <1>8
<1>10. Len(out \o written) + Len(rest) = Len(out) + Len(ring)
  <2>1. PICK used, more, left, len : /\ used = Len(out) /\ more = Len(written) /\ left = Len(rest)
                                     /\ len = Len(ring)
    OBVIOUS
  <2>2. used \in Nat /\ more \in Nat /\ left \in Nat /\ len \in Nat /\ more = n /\ left = len - n
    BY ONLY <1>1, <1>5, <1>6, <2>1, LenProperties
  <2>3. Len(out \o written) = used + more
    BY ONLY <1>1, <1>6, <2>1, ConcatProperties
  <2>4. QED BY ONLY <1>5, <2>1, <2>2, <2>3
<1>11. uart'.open = uart.open
  BY ONLY <1>1, <1>2 DEF ProcessRX, Ports
<1>12. QED BY ONLY <1>2, <1>3, <1>4, <1>9, <1>10, <1>11

LEMMA FirmwareKeepsOrder ==
  ASSUME TypeOK, Line, Order, Firmware, ~ RequestTCP
  PROVE  Order'
<1>1. /\ conns \in 0 .. MaxConns /\ fwConns \in 0 .. conns /\ fwConn \in {0, fwConns}
      /\ uart \in Ports /\ FirmwareTypeOK /\ out \in Seq(Bytes) /\ uart.ring \in Seq(Bytes)
      /\ udpUp = << >>
  BY Bounds DEF TypeOK, ClientTypeOK, NetworkTypeOK, FirmwareTypeOK, Ports, Line, OnItsWay
\* The line stays, and what waits is among what waited.
<1>2. ASSUME UNCHANGED <<clients, consumed, outbox, up>>,
             \A c \in 1 .. MaxConns : Waiting(c)' => Waiting(c),
             out' \o uart'.ring = out \o uart.ring
      PROVE  Order'
  <2>1. PICK line : line = out \o uart.ring
    OBVIOUS
  <2>2. InOrder(line)
    BY ONLY <2>1, Order DEF Order
  <2>3. InOrder(line)'
    BY ONLY <1>2, <2>2 DEF InOrder
  <2>4. QED BY ONLY <1>2, <2>1, <2>3 DEF Order
<1>3. CASE Accept \/ Drop
  <2>1. UNCHANGED <<clients, consumed, outbox, up, out, uart>>
    BY ONLY <1>3 DEF Accept, Drop, clientVars, portVars, tcpVars, history
  <2>2. \A c \in 1 .. MaxConns : Waiting(c)' => Waiting(c)
    <3>1. \/ fwConn = 0 /\ fwConns' = fwConns + 1 /\ fwConn' = fwConns + 1
          \/ fwConn' = 0 /\ fwConns' = fwConns
      BY ONLY <1>3 DEF Accept, Drop, ServeTCP
    <3>2. QED BY ONLY <1>1, <3>1 DEF Waiting
  <2>3. QED BY ONLY <1>2, <2>1, <2>2
<1>4. ASSUME NEW room \in 1 .. IOSize, FeedUART(room)
      PROVE  Order'
  <2>1. out' \o uart'.ring = out \o uart.ring
    BY ONLY <1>4, TypeOK, FedBytes, room \in 1 .. IOSize
  <2>2. UNCHANGED <<clients, consumed, outbox, up, fwConn, fwConns>>
    BY ONLY <1>4 DEF FeedUART, clientVars, portVars, tcpVars, linkVars
  <2>3. QED BY ONLY <1>2, <2>1, <2>2 DEF Waiting
<1>5. CASE EndReset
  <2>1. uart' = [uart EXCEPT !.resetting = FALSE]
    BY ONLY <1>5 DEF EndReset, ReleaseReset
  <2>2. uart'.ring = uart.ring
    BY ONLY <1>1, <2>1 DEF Ports
  <2>3. UNCHANGED <<clients, consumed, outbox, up, out, fwConn, fwConns>>
    BY ONLY <1>5 DEF EndReset, clientVars, portVars, tcpVars, linkVars, history
  <2>4. QED BY ONLY <1>2, <2>2, <2>3 DEF Waiting
<1>6. ASSUME NEW n \in 0 .. IOSize, NEW wrapped \in BOOLEAN, Poll(n, wrapped)
      PROVE  Order'
  <2>1. uart'.ring = uart.ring
    BY ONLY <1>1, <1>6, PolledPort, n \in 0 .. IOSize, wrapped \in BOOLEAN
  <2>2. UNCHANGED <<clients, consumed, outbox, up, out, fwConn, fwConns>>
    BY ONLY <1>6 DEF Poll, clientVars, portVars, linkVars
  <2>3. QED BY ONLY <1>2, <2>1, <2>2 DEF Waiting
<1>7. ASSUME NEW i \in 1 .. Len(udpUp), RequestUDP(i)
      PROVE  FALSE
  BY ONLY <1>1, i \in 1 .. Len(udpUp), EmptySeq
<1>8. QED BY ONLY <1>3, <1>4, <1>5, <1>6, <1>7, Firmware, ~ RequestTCP DEF Firmware

LEMMA InitOrder ==
  ASSUME Init
  PROVE  Order
<1>1. << >> \in Seq(Read(clients, consumed)) /\ Len(<< >>) = 0
  BY ONLY EmptySeq
<1>2. out = << >> /\ uart.ring = << >> /\ outbox = << >> /\ \A c \in 1 .. MaxConns : up[c] = << >>
  BY ONLY Init DEF Init, NewPort, NoPackage
<1>3. out \o uart.ring = << >>
  BY ONLY <1>1, <1>2, ConcatEmptySeq
<1>4. InOrder(<< >>)
  BY ONLY <1>1, <1>2 DEF InOrder, Increasing
<1>5. QED BY ONLY <1>3, <1>4 DEF Order

LEMMA OrderAtDevice ==
  ASSUME Order
  PROVE  DeviceInOrder
<1>1. PICK line : line = out \o uart.ring
  OBVIOUS
<1>2. line \in Seq(Read(clients, consumed)) /\ Increasing(line)
  BY ONLY <1>1, Order DEF Order, InOrder
<1>3. ASSUME NEW i \in 1 .. Len(line), NEW j \in 1 .. Len(line), i < j
      PROVE  Before(line[i], line[j]) /\ line[i] # line[j]
  <2>1. PICK b, d : b = line[i] /\ d = line[j]
    OBVIOUS
  <2>2. Before(b, d)
    BY ONLY <1>2, <1>3, <2>1 DEF Increasing
  <2>3. b \in Bytes
    BY ONLY <1>2, <2>1, ElementOfSeq, i \in 1 .. Len(line) DEF Read
  <2>4. b # d
    BY ONLY <2>2, <2>3, Bounds DEF Before, Bytes
  <2>5. QED BY ONLY <2>1, <2>2, <2>4
<1>4. QED BY ONLY <1>1, <1>3 DEF DeviceInOrder

-----------------------------------------------------------------------------
(* The same when data goes over UDP.                                      *)

\* Bytes that differ may come in any order, and those in order differ.
LEMMA FollowTurns ==
  ASSUME NEW s \in Seq(Bytes), NEW t \in Seq(Bytes)
  PROVE  /\ AllFollow(FALSE, s, t) => AllFollow(FALSE, t, s)
         /\ \A strict \in BOOLEAN : AllFollow(strict, s, t) => AllFollow(FALSE, s, t)
         /\ \A strict : s = << >> \/ t = << >> => AllFollow(strict, s, t)
<1>1. \A b, c \in Bytes : Before(b, c) => b # c
  BY Bounds DEF Before, Bytes
<1>2. /\ \A i \in 1 .. Len(s) : s[i] \in Bytes
      /\ \A i \in 1 .. Len(t) : t[i] \in Bytes
  BY ONLY s \in Seq(Bytes), t \in Seq(Bytes), ElementOfSeq
<1>3. AllFollow(FALSE, s, t) => AllFollow(FALSE, t, s)
  BY ONLY DEF AllFollow, MayFollow
<1>4. ASSUME NEW strict \in BOOLEAN, AllFollow(strict, s, t)
      PROVE  AllFollow(FALSE, s, t)
  BY ONLY <1>1, <1>2, <1>4 DEF AllFollow, MayFollow
<1>5. ASSUME NEW strict, s = << >> \/ t = << >>
      PROVE  AllFollow(strict, s, t)
  BY ONLY <1>5, EmptySeq DEF AllFollow
<1>6. QED BY ONLY <1>3, <1>4, <1>5

\* What the packages carry.
LEMMA CarriedBytes ==
  ASSUME NEW strict, NEW line, NEW way, NEW k, NEW m, Spread(strict, line, way, k, m)
  PROVE  /\ line \in Seq(Bytes)
         /\ \A c \in Ways : \A i \in 1 .. Len(way[c]) :
              PayloadOf(way[c][i]) \in Seq(Bytes) /\ PayloadOf(way[c][i]) \in Seq(Read(k, m))
<1>1. Read(k, m) \subseteq Bytes
  BY ONLY DEF Read
<1>2. \A s \in Seq(Read(k, m)) : s \in Seq(Bytes)
  BY ONLY <1>1, SeqMonotonic
<1>3. QED BY ONLY <1>2, Spread(strict, line, way, k, m) DEF Spread, Carried

\* The local clients write on.
LEMMA SpreadGrows ==
  ASSUME NEW k \in Nat, NEW m \in Nat, NEW k2 \in Nat, NEW m2 \in Nat,
         k < k2 \/ (k = k2 /\ m <= m2),
         NEW strict, NEW line, NEW way, Spread(strict, line, way, k, m)
  PROVE  Spread(strict, line, way, k2, m2)
<1>1. \A s \in Seq(Read(k, m)) : s \in Seq(Read(k2, m2))
  BY ONLY ReadGrows, k \in Nat, m \in Nat, k2 \in Nat, m2 \in Nat, k < k2 \/ (k = k2 /\ m <= m2)
<1>2. QED BY ONLY <1>1, Spread(strict, line, way, k, m) DEF Spread, Carried

\* The first packages of some ways are gone, and nothing is new.
LEMMA FewerSpread ==
  ASSUME NEW strict, NEW line, NEW k, NEW m, NEW way, NEW left,
         Spread(strict, line, way, k, m),
         NEW gone \in [Ways -> Nat],
         \A c \in Ways : \A i \in 1 .. Len(left[c]) :
           i + gone[c] \in 1 .. Len(way[c]) /\ left[c][i] = way[c][i + gone[c]]
  PROVE  Spread(strict, line, left, k, m)
<1>1. Carried(strict, line, left, k, m)
  <2>1. ASSUME NEW c \in Ways, NEW i \in 1 .. Len(left[c])
        PROVE  \E a \in 1 .. Len(way[c]) : left[c][i] = way[c][a]
    <3>1. PICK a \in 1 .. Len(way[c]) : a = i + gone[c] /\ left[c][i] = way[c][a]
      OBVIOUS
    <3>2. QED BY ONLY <3>1
  <2>2. ASSUME NEW c \in Ways, NEW i \in 1 .. Len(left[c]), NEW p, p = left[c][i]
        PROVE  /\ PayloadOf(p) \in Seq(Read(k, m)) /\ Increasing(PayloadOf(p))
               /\ AllFollow(strict, line, PayloadOf(p))
               /\ c \in 1 .. MaxConns => p.useTCP
               /\ strict /\ p.useTCP => PayloadOf(p) = << >>
    <3>1. PICK a \in 1 .. Len(way[c]) : p = way[c][a]
      BY ONLY <2>1, <2>2
    <3>2. QED BY ONLY <3>1, c \in Ways, Spread(strict, line, way, k, m) DEF Spread, Carried
  <2>3. QED BY ONLY <2>2 DEF Carried
<1>2. ASSUME NEW c \in Ways, NEW d \in Ways, NEW i \in 1 .. Len(left[c]), NEW j \in 1 .. Len(left[d]),
             c < d \/ (c = d /\ i < j)
      PROVE  AllFollow(strict, PayloadOf(left[c][i]), PayloadOf(left[d][j]))
  <2>1. PICK a \in 1 .. Len(way[c]) : a = i + gone[c] /\ left[c][i] = way[c][a]
    OBVIOUS
  <2>2. PICK b \in 1 .. Len(way[d]) : b = j + gone[d] /\ left[d][j] = way[d][b]
    OBVIOUS
  <2>3. c < d \/ (c = d /\ a < b)
    <3>1. gone[c] \in Nat /\ gone[d] \in Nat /\ i \in Int /\ j \in Int
      OBVIOUS
    <3>2. c = d => gone[c] = gone[d]
      OBVIOUS
    <3>3. QED BY ONLY <1>2, <2>1, <2>2, <3>1, <3>2
  <2>4. AllFollow(strict, PayloadOf(way[c][a]), PayloadOf(way[d][b]))
    BY ONLY <2>3, Spread(strict, line, way, k, m), c \in Ways, d \in Ways DEF Spread, Sorted
  <2>5. QED BY ONLY <2>1, <2>2, <2>4
<1>3. Sorted(strict, left)
  BY ONLY <1>2 DEF Sorted
<1>4. QED BY ONLY <1>1, <1>3, Spread(strict, line, way, k, m) DEF Spread

\* What the line is after a request: its beginning, and the beginning of what the
\* package brought.
Continued(line, payload, after) ==
  \E m \in 0 .. Len(line), n \in 0 .. Len(payload) :
    /\ Len(after) = m + n
    /\ \A i \in 1 .. m : after[i] = line[i]
    /\ \A i \in 1 .. n : after[m + i] = payload[i]

\* The payload of a package joins the line.
LEMMA JoinedSpread ==
  ASSUME NEW strict \in BOOLEAN, NEW line, NEW way, NEW k, NEW m, Spread(strict, line, way, k, m),
         NEW payload \in Seq(Read(k, m)), Increasing(payload), AllFollow(strict, line, payload),
         \A c \in Ways : \A i \in 1 .. Len(way[c]) : AllFollow(strict, payload, PayloadOf(way[c][i])),
         NEW after \in Seq(Bytes), Continued(line, payload, after)
  PROVE  Spread(strict, after, way, k, m)
<1>1. PICK a \in 0 .. Len(line), n \in 0 .. Len(payload) :
        /\ Len(after) = a + n
        /\ \A i \in 1 .. a : after[i] = line[i]
        /\ \A i \in 1 .. n : after[a + i] = payload[i]
  BY ONLY Continued(line, payload, after) DEF Continued
<1>2. PICK len \in Nat, size \in Nat : len = Len(line) /\ size = Len(payload)
  BY ONLY Spread(strict, line, way, k, m), payload \in Seq(Read(k, m)), LenProperties DEF Spread
<1>3. a \in 0 .. len /\ n \in 0 .. size
  BY ONLY <1>1, <1>2
<1>4. ASSUME NEW i \in 1 .. Len(after)
      PROVE  \/ i \in 1 .. a /\ i \in 1 .. Len(line) /\ after[i] = line[i]
             \/ i - a \in 1 .. n /\ i - a \in 1 .. Len(payload) /\ after[i] = payload[i - a]
  <2>1. i \in 1 .. a + n
    BY ONLY <1>1, i \in 1 .. Len(after)
  <2>2. CASE i <= a
    BY ONLY <1>1, <1>2, <1>3, <2>1, <2>2
  <2>3. CASE i > a
    <3>1. PICK j : j = i - a
      OBVIOUS
    <3>2. j \in 1 .. n /\ j \in 1 .. size /\ i = a + j
      BY ONLY <1>3, <2>1, <2>3, <3>1
    <3>3. after[i] = payload[j]
      BY ONLY <1>1, <3>2
    <3>4. QED BY ONLY <1>2, <3>1, <3>2, <3>3
  <2>4. QED BY ONLY <1>3, <2>1, <2>2, <2>3
<1>5. after \in Seq(Read(k, m))
  <2>1. line \in Seq(Read(k, m))
    BY ONLY Spread(strict, line, way, k, m) DEF Spread
  <2>2. /\ \A i \in 1 .. Len(line) : line[i] \in Read(k, m)
        /\ \A i \in 1 .. Len(payload) : payload[i] \in Read(k, m)
    BY ONLY <2>1, payload \in Seq(Read(k, m)), ElementOfSeq
  <2>3. \A i \in 1 .. Len(after) : after[i] \in Read(k, m)
    BY ONLY <1>4, <2>2
  <2>4. Len(after) \in Nat /\ after \in [1 .. Len(after) -> Bytes]
    BY ONLY after \in Seq(Bytes), LenProperties
  <2>5. after \in [1 .. Len(after) -> Read(k, m)]
    BY ONLY <2>3, <2>4
  <2>6. QED BY ONLY <2>4, <2>5, SeqDef
<1>6. ASSUME NEW i \in 1 .. Len(after), NEW j \in 1 .. Len(after), i < j
      PROVE  MayFollow(strict, after[i], after[j])
  <2>1. i \in Int /\ j \in Int /\ a \in Int
    BY ONLY <1>3, i \in 1 .. Len(after), j \in 1 .. Len(after)
  <2>2. CASE j \in 1 .. a
    <3>1. i \in 1 .. a /\ i \in 1 .. Len(line) /\ j \in 1 .. Len(line)
      BY ONLY <1>2, <1>3, <1>6, <2>1, <2>2
    <3>2. after[i] = line[i] /\ after[j] = line[j]
      BY ONLY <1>1, <2>2, <3>1
    <3>3. QED BY ONLY <1>6, <3>1, <3>2, Spread(strict, line, way, k, m) DEF Spread
  <2>3. CASE i - a \in 1 .. n
    <3>1. PICK x, y : x = i - a /\ y = j - a
      OBVIOUS
    <3>2. x \in 1 .. Len(payload) /\ y \in 1 .. Len(payload) /\ x < y
          /\ after[i] = payload[x] /\ after[j] = payload[y]
      BY ONLY <1>4, <1>6, <2>1, <2>3, <3>1
    <3>3. Before(payload[x], payload[y])
      BY ONLY <3>2, Increasing(payload) DEF Increasing
    <3>4. payload[x] \in Bytes /\ payload[y] \in Bytes
      <4>1. payload[x] \in Read(k, m) /\ payload[y] \in Read(k, m)
        BY ONLY <3>2, payload \in Seq(Read(k, m)), ElementOfSeq
      <4>2. QED BY ONLY <4>1 DEF Read
    <3>5. payload[x] # payload[y]
      BY <3>3, <3>4, Bounds DEF Before, Bytes
    <3>6. QED BY ONLY <3>2, <3>3, <3>5 DEF MayFollow
  <2>4. CASE i \in 1 .. a /\ j - a \in 1 .. n
    <3>1. PICK y : y = j - a
      OBVIOUS
    <3>2. /\ i \in 1 .. Len(line) /\ after[i] = line[i]
          /\ y \in 1 .. Len(payload) /\ after[j] = payload[y]
      BY ONLY <1>4, <1>6, <2>1, <2>4, <3>1
    <3>3. QED BY ONLY <3>2, AllFollow(strict, line, payload) DEF AllFollow
  <2>5. QED BY ONLY <1>4, <1>6, <2>2, <2>3, <2>4
<1>7. ASSUME NEW c \in Ways, NEW i \in 1 .. Len(way[c])
      PROVE  AllFollow(strict, after, PayloadOf(way[c][i]))
  <2>1. AllFollow(strict, line, PayloadOf(way[c][i]))
    BY ONLY Spread(strict, line, way, k, m), c \in Ways, i \in 1 .. Len(way[c]) DEF Spread, Carried
  <2>2. AllFollow(strict, payload, PayloadOf(way[c][i]))
    BY ONLY \A d \in Ways : \A j \in 1 .. Len(way[d]) : AllFollow(strict, payload, PayloadOf(way[d][j])),
       c \in Ways, i \in 1 .. Len(way[c])
  <2>3. QED BY ONLY <1>4, <2>1, <2>2 DEF AllFollow
<1>8. Carried(strict, after, way, k, m)
  BY ONLY <1>7, Spread(strict, line, way, k, m) DEF Spread, Carried
<1>9. QED BY ONLY <1>5, <1>6, <1>8, Spread(strict, line, way, k, m) DEF Spread

\* The transports have a package less, and one of the ways has it at its end.
LEMMA SentSpread ==
  ASSUME NEW strict \in BOOLEAN, NEW line, NEW k, NEW m, NEW way, NEW after,
         way \in [Ways -> Seq(Packages)], Spread(strict, line, way, k, m),
         Len(way[MaxConns + 1]) = 1, after[MaxConns + 1] = << >>,
         NEW e \in 0 .. MaxConns, after[e] = Append(way[e], way[MaxConns + 1][1]),
         \A c \in 0 .. MaxConns : c # e => after[c] = way[c],
         e # 0 => way[MaxConns + 1][1].useTCP
  PROVE  Spread(strict, line, after, k, m)
<1>1. PICK package : package = way[MaxConns + 1][1]
  OBVIOUS
<1>2. /\ MaxConns + 1 \in Ways /\ e \in Ways /\ e # MaxConns + 1 /\ MaxConns \in Nat
      /\ \A c \in Ways : c \in 0 .. MaxConns \/ c = MaxConns + 1
      /\ Ways \subseteq Nat
  BY Bounds DEF Ways
<1>3. package \in Packages /\ 1 \in 1 .. Len(way[MaxConns + 1])
  <2>1. way[MaxConns + 1] \in Seq(Packages)
    BY ONLY <1>2, way \in [Ways -> Seq(Packages)]
  <2>2. QED BY ONLY <1>1, <2>1, Len(way[MaxConns + 1]) = 1, ElementOfSeq
<1>4. PICK len \in Nat : len = Len(way[e])
  BY ONLY <1>2, way \in [Ways -> Seq(Packages)], LenProperties
<1>5. /\ Len(after[e]) = len + 1 /\ after[e][len + 1] = package
      /\ \A i \in 1 .. len : after[e][i] = way[e][i]
  <2>1. way[e] \in Seq(Packages) /\ after[e] = Append(way[e], package)
    BY ONLY <1>1, <1>2, way \in [Ways -> Seq(Packages)], after[e] = Append(way[e], way[MaxConns + 1][1])
  <2>2. PICK queue : queue = way[e]
    OBVIOUS
  <2>3. QED BY ONLY <1>3, <1>4, <2>1, <2>2, AppendProperties
\* Each package on the ways is the one that was sent, or was there before.
<1>6. ASSUME NEW c \in Ways, NEW i \in 1 .. Len(after[c])
      PROVE  \/ c = e /\ i = len + 1 /\ after[c][i] = package
             \/ /\ c # MaxConns + 1 /\ i \in 1 .. Len(way[c]) /\ after[c][i] = way[c][i]
                /\ c = e => i < len + 1
  <2>1. c # MaxConns + 1
    BY ONLY <1>6, after[MaxConns + 1] = << >>, EmptySeq
  <2>2. CASE c = e
    BY ONLY <1>4, <1>5, <1>6, <2>1, <2>2
  <2>3. CASE c # e
    BY ONLY <1>2, <1>6, <2>1, <2>3, \A d \in 0 .. MaxConns : d # e => after[d] = way[d]
  <2>4. QED BY ONLY <2>2, <2>3
<1>7. /\ PayloadOf(package) \in Seq(Read(k, m)) /\ PayloadOf(package) \in Seq(Bytes)
      /\ Increasing(PayloadOf(package)) /\ AllFollow(strict, line, PayloadOf(package))
      /\ strict /\ package.useTCP => PayloadOf(package) = << >>
  <2>1. PayloadOf(package) \in Seq(Bytes)
    BY ONLY <1>1, <1>2, <1>3, CarriedBytes, Spread(strict, line, way, k, m)
  <2>2. /\ PayloadOf(package) \in Seq(Read(k, m))
        /\ Increasing(PayloadOf(package)) /\ AllFollow(strict, line, PayloadOf(package))
        /\ strict /\ package.useTCP => PayloadOf(package) = << >>
    BY ONLY <1>1, <1>2, <1>3, Spread(strict, line, way, k, m) DEF Spread, Carried
  <2>3. QED BY ONLY <2>1, <2>2
<1>8. Carried(strict, line, after, k, m)
  <2>1. ASSUME NEW c \in Ways, NEW i \in 1 .. Len(after[c]), NEW p, p = after[c][i]
        PROVE  /\ PayloadOf(p) \in Seq(Read(k, m)) /\ Increasing(PayloadOf(p))
               /\ AllFollow(strict, line, PayloadOf(p))
               /\ c \in 1 .. MaxConns => p.useTCP
               /\ strict /\ p.useTCP => PayloadOf(p) = << >>
    <3>1. CASE c = e /\ p = package
      <4>1. c \in 1 .. MaxConns => p.useTCP
        BY ONLY <1>1, <1>2, <3>1, e # 0 => way[MaxConns + 1][1].useTCP
      <4>2. QED BY ONLY <1>7, <3>1, <4>1
    <3>2. CASE i \in 1 .. Len(way[c]) /\ p = way[c][i]
      BY ONLY <2>1, <3>2, Spread(strict, line, way, k, m) DEF Spread, Carried
    <3>3. QED BY ONLY <1>6, <2>1, <3>1, <3>2
  <2>2. QED BY ONLY <2>1 DEF Carried
\* Those on the ways come before it, and the other way round unless it is alone
\* with its data.
<1>9. ASSUME NEW c \in 0 .. MaxConns, NEW i \in 1 .. Len(way[c])
      PROVE  /\ AllFollow(strict, PayloadOf(way[c][i]), PayloadOf(package))
             /\ e < c => AllFollow(strict, PayloadOf(package), PayloadOf(way[c][i]))
  <2>1. c \in Ways /\ c < MaxConns + 1
    BY ONLY <1>2, c \in 0 .. MaxConns DEF Ways
  <2>2. PICK payload : payload = PayloadOf(way[c][i])
    OBVIOUS
  <2>3. payload \in Seq(Bytes)
    BY ONLY <2>1, <2>2, CarriedBytes, Spread(strict, line, way, k, m), i \in 1 .. Len(way[c])
  <2>4. AllFollow(strict, payload, PayloadOf(package))
    BY ONLY <1>1, <1>2, <1>3, <2>1, <2>2, Spread(strict, line, way, k, m), i \in 1 .. Len(way[c])
       DEF Spread, Sorted
  <2>5. ASSUME e < c
        PROVE  AllFollow(strict, PayloadOf(package), payload)
    <3>1. CASE ~ strict
      BY ONLY <1>7, <2>3, <2>4, <3>1, FollowTurns, strict \in BOOLEAN
    <3>2. CASE strict
      <4>1. c \in 1 .. MaxConns
        BY ONLY <1>2, <2>5, c \in 0 .. MaxConns, e \in 0 .. MaxConns
      <4>2. payload = << >>
        BY ONLY <2>1, <2>2, <3>2, <4>1, Spread(strict, line, way, k, m), i \in 1 .. Len(way[c])
           DEF Spread, Carried
      <4>3. QED BY ONLY <1>7, <2>3, <4>2, FollowTurns
    <3>3. QED BY ONLY <3>1, <3>2
  <2>6. QED BY ONLY <2>2, <2>4, <2>5
<1>10. ASSUME NEW c \in Ways, NEW d \in Ways,
              NEW i \in 1 .. Len(after[c]), NEW j \in 1 .. Len(after[d]), c < d \/ (c = d /\ i < j)
       PROVE  AllFollow(strict, PayloadOf(after[c][i]), PayloadOf(after[d][j]))
  <2>1. c \in Int /\ d \in Int /\ i \in Int /\ j \in Int /\ e \in Int
    BY ONLY <1>2, c \in Ways, d \in Ways, e \in Ways, i \in 1 .. Len(after[c]), j \in 1 .. Len(after[d])
  <2>2. CASE d = e /\ j = len + 1
    <3>1. c # e \/ i < len + 1
      BY ONLY <1>10, <2>1, <2>2
    <3>2. c \in 0 .. MaxConns /\ i \in 1 .. Len(way[c]) /\ after[c][i] = way[c][i]
      BY ONLY <1>2, <1>4, <1>6, <2>1, <3>1, c \in Ways, i \in 1 .. Len(after[c])
    <3>3. QED BY ONLY <1>5, <1>9, <2>2, <3>2
  <2>3. CASE c = e /\ i = len + 1
    <3>1. e < d
      <4>1. c = d => i < j
        BY ONLY <1>10, <2>1
      <4>2. c # d
        BY ONLY <1>4, <1>5, <2>1, <2>3, <4>1, j \in 1 .. Len(after[d])
      <4>3. QED BY ONLY <1>10, <2>1, <2>3, <4>2
    <3>2. d \in 0 .. MaxConns /\ j \in 1 .. Len(way[d]) /\ after[d][j] = way[d][j]
      BY ONLY <1>2, <1>4, <1>6, <2>1, <3>1, d \in Ways, j \in 1 .. Len(after[d])
    <3>3. QED BY ONLY <1>5, <1>9, <2>3, <3>1, <3>2
  <2>4. CASE ~ (d = e /\ j = len + 1) /\ ~ (c = e /\ i = len + 1)
    <3>1. /\ i \in 1 .. Len(way[c]) /\ after[c][i] = way[c][i]
          /\ j \in 1 .. Len(way[d]) /\ after[d][j] = way[d][j]
      BY ONLY <1>6, <2>4, c \in Ways, d \in Ways, i \in 1 .. Len(after[c]), j \in 1 .. Len(after[d])
    <3>2. QED BY ONLY <1>10, <3>1, Spread(strict, line, way, k, m) DEF Spread, Sorted
  <2>5. QED BY ONLY <2>2, <2>3, <2>4
<1>11. Sorted(strict, after)
  BY ONLY <1>10 DEF Sorted
<1>12. QED BY ONLY <1>8, <1>11, Spread(strict, line, way, k, m) DEF Spread

\* The transports get a package, whose bytes come after all those read before.
LEMMA PackedSpread ==
  ASSUME NEW strict \in BOOLEAN, NEW before \in BOOLEAN, strict => before,
         NEW line, NEW k \in Nat, NEW m \in Nat, NEW n \in Nat, m <= n,
         NEW way, NEW after, Spread(before, line, way, k, m),
         way[MaxConns + 1] = << >>, \A c \in 0 .. MaxConns : after[c] = way[c],
         NEW package, after[MaxConns + 1] = <<package>>,
         PayloadOf(package) \in Seq({b \in Bytes : b[1] = k /\ m < b[2] /\ b[2] <= n}),
         Increasing(PayloadOf(package)),
         strict /\ package.useTCP => PayloadOf(package) = << >>
  PROVE  Spread(strict, line, after, k, n)
<1>1. PICK fresh : fresh = PayloadOf(package)
  OBVIOUS
<1>2. /\ \A c \in Ways : c \in 0 .. MaxConns \/ c = MaxConns + 1
      /\ Ways \subseteq Nat /\ MaxConns \in Nat /\ MaxConns + 1 \in Ways
  BY Bounds DEF Ways
<1>3. Spread(before, line, way, k, n)
  BY ONLY SpreadGrows, Spread(before, line, way, k, m), k \in Nat, m \in Nat, n \in Nat, m <= n
<1>4. fresh \in Seq(Read(k, n)) /\ fresh \in Seq(Bytes)
  <2>1. /\ {b \in Bytes : b[1] = k /\ m < b[2] /\ b[2] <= n} \subseteq Read(k, n)
        /\ Read(k, n) \subseteq Bytes
    BY ONLY DEF Read
  <2>2. QED BY ONLY <1>1, <2>1, SeqMonotonic,
           PayloadOf(package) \in Seq({b \in Bytes : b[1] = k /\ m < b[2] /\ b[2] <= n})
\* Those of before may follow each other also in the new order, if it is one.
<1>5. ASSUME NEW s \in Seq(Bytes), NEW t \in Seq(Bytes), AllFollow(before, s, t)
      PROVE  AllFollow(strict, s, t)
  BY ONLY <1>5, FollowTurns, strict \in BOOLEAN, before \in BOOLEAN, strict => before
<1>6. ASSUME NEW s \in Seq(Read(k, m))
      PROVE  AllFollow(strict, s, fresh)
  <2>1. ASSUME NEW i \in 1 .. Len(s), NEW j \in 1 .. Len(fresh)
        PROVE  MayFollow(strict, s[i], fresh[j])
    <3>1. PICK b, d : b = s[i] /\ d = fresh[j]
      OBVIOUS
    <3>2. b \in Read(k, m)
      BY ONLY <1>6, <2>1, <3>1, ElementOfSeq
    <3>3. d \in {x \in Bytes : x[1] = k /\ m < x[2] /\ x[2] <= n}
      BY ONLY <1>1, <2>1, <3>1, ElementOfSeq,
         PayloadOf(package) \in Seq({x \in Bytes : x[1] = k /\ m < x[2] /\ x[2] <= n})
    <3>4. b[1] \in Nat /\ b[2] \in Nat /\ d[1] \in Nat /\ d[2] \in Nat
      <4>1. b \in Bytes /\ d \in Bytes
        BY ONLY <3>2, <3>3 DEF Read
      <4>2. \A x \in Bytes : x[1] \in Nat /\ x[2] \in Nat
        BY ONLY Bounds DEF Bytes
      <4>3. QED BY ONLY <4>1, <4>2
    <3>5. Before(b, d) /\ b # d
      BY ONLY <3>2, <3>3, <3>4, k \in Nat, m \in Nat DEF Read, Before
    <3>6. QED BY ONLY <3>1, <3>5 DEF MayFollow
  <2>2. QED BY ONLY <2>1 DEF AllFollow
<1>7. /\ line \in Seq(Read(k, m)) /\ line \in Seq(Bytes)
      /\ \A c \in Ways : \A i \in 1 .. Len(way[c]) :
           PayloadOf(way[c][i]) \in Seq(Bytes) /\ PayloadOf(way[c][i]) \in Seq(Read(k, m))
  BY ONLY CarriedBytes, Spread(before, line, way, k, m) DEF Spread
<1>8. ASSUME NEW c \in Ways, NEW i \in 1 .. Len(after[c])
      PROVE  \/ c = MaxConns + 1 /\ i = 1 /\ after[c][i] = package
             \/ c \in 0 .. MaxConns /\ i \in 1 .. Len(way[c]) /\ after[c][i] = way[c][i]
  <2>1. CASE c = MaxConns + 1
    <3>1. Len(<<package>>) = 1 /\ <<package>>[1] = package
      OBVIOUS
    <3>2. QED BY ONLY <1>8, <2>1, <3>1, after[MaxConns + 1] = <<package>>
  <2>2. CASE c \in 0 .. MaxConns
    BY ONLY <1>8, <2>2, \A d \in 0 .. MaxConns : after[d] = way[d]
  <2>3. QED BY ONLY <1>2, <2>1, <2>2
<1>9. /\ line \in Seq(Read(k, n))
      /\ \A i, j \in 1 .. Len(line) : i < j => MayFollow(strict, line[i], line[j])
  <2>1. \A i \in 1 .. Len(line) : line[i] \in Bytes
    BY ONLY <1>7, ElementOfSeq
  <2>2. \A b, c \in Bytes : Before(b, c) => b # c
    BY Bounds DEF Before, Bytes
  <2>3. \A i, j \in 1 .. Len(line) : i < j => MayFollow(before, line[i], line[j])
    BY ONLY <1>3 DEF Spread
  <2>4. \A i, j \in 1 .. Len(line) : i < j => MayFollow(strict, line[i], line[j])
    BY ONLY <2>1, <2>2, <2>3, strict => before DEF MayFollow
  <2>5. QED BY ONLY <1>3, <2>4 DEF Spread
<1>10. Carried(strict, line, after, k, n)
  <2>1. ASSUME NEW c \in Ways, NEW i \in 1 .. Len(after[c]), NEW p, p = after[c][i]
        PROVE  /\ PayloadOf(p) \in Seq(Read(k, n)) /\ Increasing(PayloadOf(p))
               /\ AllFollow(strict, line, PayloadOf(p))
               /\ c \in 1 .. MaxConns => p.useTCP
               /\ strict /\ p.useTCP => PayloadOf(p) = << >>
    <3>1. CASE c = MaxConns + 1 /\ p = package
      <4>1. ~ (c \in 1 .. MaxConns)
        BY ONLY <1>2, <3>1
      <4>2. AllFollow(strict, line, fresh)
        BY ONLY <1>6, <1>7
      <4>3. QED BY ONLY <1>1, <1>4, <3>1, <4>1, <4>2, Increasing(PayloadOf(package)),
               strict /\ package.useTCP => PayloadOf(package) = << >>
    <3>2. CASE i \in 1 .. Len(way[c]) /\ p = way[c][i]
      <4>1. /\ PayloadOf(p) \in Seq(Read(k, n)) /\ Increasing(PayloadOf(p))
            /\ AllFollow(before, line, PayloadOf(p))
            /\ c \in 1 .. MaxConns => p.useTCP
            /\ before /\ p.useTCP => PayloadOf(p) = << >>
        BY ONLY <1>3, <2>1, <3>2 DEF Spread, Carried
      <4>2. PayloadOf(p) \in Seq(Bytes)
        BY ONLY <1>7, <2>1, <3>2
      <4>3. QED BY ONLY <1>5, <1>7, <4>1, <4>2, strict => before
    <3>3. QED BY ONLY <1>8, <2>1, <3>1, <3>2
  <2>2. QED BY ONLY <2>1 DEF Carried
<1>11. ASSUME NEW c \in Ways, NEW d \in Ways,
              NEW i \in 1 .. Len(after[c]), NEW j \in 1 .. Len(after[d]), c < d \/ (c = d /\ i < j)
       PROVE  AllFollow(strict, PayloadOf(after[c][i]), PayloadOf(after[d][j]))
  <2>1. c \in Int /\ d \in Int /\ i \in Int /\ j \in Int
    BY ONLY <1>2, c \in Ways, d \in Ways, i \in 1 .. Len(after[c]), j \in 1 .. Len(after[d])
  <2>2. c \in 0 .. MaxConns /\ i \in 1 .. Len(way[c]) /\ after[c][i] = way[c][i]
    <3>1. CASE c = MaxConns + 1 /\ i = 1
      <4>1. ~ (c < d) /\ c = d /\ i < j
        BY ONLY <1>2, <1>11, <2>1, <3>1
      <4>2. j = 1
        BY ONLY <1>2, <1>8, <3>1, <4>1, d \in Ways, j \in 1 .. Len(after[d])
      <4>3. QED BY ONLY <3>1, <4>1, <4>2
    <3>2. QED BY ONLY <1>8, <3>1, c \in Ways, i \in 1 .. Len(after[c])
  <2>3. CASE after[d][j] = package
    BY ONLY <1>1, <1>6, <1>7, <2>2, <2>3, c \in Ways
  <2>4. CASE j \in 1 .. Len(way[d]) /\ after[d][j] = way[d][j]
    <3>1. AllFollow(before, PayloadOf(way[c][i]), PayloadOf(way[d][j]))
      BY ONLY <1>3, <1>11, <2>2, <2>4 DEF Spread, Sorted
    <3>2. QED BY ONLY <1>5, <1>7, <2>2, <2>4, <3>1, c \in Ways, d \in Ways
  <2>5. QED BY ONLY <1>8, <2>3, <2>4, d \in Ways, j \in 1 .. Len(after[d])
<1>12. Sorted(strict, after)
  BY ONLY <1>11 DEF Sorted
<1>13. QED BY ONLY <1>9, <1>10, <1>12 DEF Spread

\* The ways, one by one.
LEMMA WayCases ==
  ASSUME NEW way, way = [c \in Ways |-> Way(c)]
  PROVE  /\ way[0] = udpUp /\ way[MaxConns + 1] = outbox
         /\ \A c \in 1 .. MaxConns : way[c] = IF Waiting(c) THEN up[c] ELSE << >>
BY ONLY way = [c \in Ways |-> Way(c)], Bounds DEF Ways, Way

LEMMA NextWayCases ==
  ASSUME NEW way, way = ([c \in Ways |-> Way(c)])'
  PROVE  /\ way[0] = udpUp' /\ way[MaxConns + 1] = outbox'
         /\ \A c \in 1 .. MaxConns : way[c] = IF Waiting(c)' THEN up'[c] ELSE << >>
BY ONLY way = ([c \in Ways |-> Way(c)])', Bounds DEF Ways, Way

LEMMA WayTypes ==
  ASSUME TypeOK, NEW way, way = [c \in Ways |-> Way(c)]
  PROVE  way \in [Ways -> Seq(Packages)]
<1>1. /\ udpUp \in Seq(Packages) /\ outbox \in Seq(Packages) /\ << >> \in Seq(Packages)
      /\ \A c \in 1 .. MaxConns : up[c] \in Seq(Packages)
  BY TypeOK, EmptySeq DEF TypeOK, ClientTypeOK, NetworkTypeOK
<1>2. \A c \in Ways : Way(c) \in Seq(Packages)
  BY ONLY <1>1, Bounds DEF Ways, Way
<1>3. QED BY ONLY <1>2, way = [c \in Ways |-> Way(c)]

\* What queue s has when its first packages are gone.
RestOf(t, s) == \E n \in Nat : \A i \in 1 .. Len(t) : i + n \in 1 .. Len(s) /\ t[i] = s[i + n]

LEMMA RestCases ==
  ASSUME NEW S, NEW s \in Seq(S)
  PROVE  /\ RestOf(s, s) /\ RestOf(<< >>, s)
         /\ \A n \in 0 .. Len(s) : RestOf(SubSeq(s, n + 1, Len(s)), s)
         /\ s # << >> => RestOf(Tail(s), s)
<1>1. PICK len \in Nat : len = Len(s)
  BY ONLY s \in Seq(S), LenProperties
<1>2. RestOf(s, s)
  BY ONLY <1>1 DEF RestOf
<1>3. RestOf(<< >>, s)
  BY ONLY EmptySeq DEF RestOf
<1>4. ASSUME NEW n \in 0 .. Len(s)
      PROVE  RestOf(SubSeq(s, n + 1, Len(s)), s)
  <2>1. n \in Nat /\ n <= Len(s)
    BY ONLY <1>1, n \in 0 .. Len(s)
  <2>2. PICK t : t = SubSeq(s, n + 1, Len(s))
    OBVIOUS
  <2>3. Len(t) = len - n /\ \A i \in 1 .. len - n : t[i] = s[n + i]
    BY ONLY <1>1, <2>1, <2>2, SuffixType, s \in Seq(S)
  <2>4. \A i \in 1 .. Len(t) : i + n \in 1 .. Len(s) /\ t[i] = s[i + n]
    BY ONLY <1>1, <2>1, <2>3
  <2>5. QED BY ONLY <2>1, <2>2, <2>4 DEF RestOf
<1>5. ASSUME s # << >>
      PROVE  RestOf(Tail(s), s)
  <2>1. PICK t : t = Tail(s)
    OBVIOUS
  <2>2. len > 0
    BY ONLY <1>1, <1>5, EmptySeq, s \in Seq(S)
  <2>3. Len(t) = len - 1 /\ \A i \in 1 .. len - 1 : t[i] = s[i + 1]
    BY ONLY <1>1, <1>5, <2>1, s \in Seq(S), HeadTailProperties
  <2>4. \A i \in 1 .. Len(t) : i + 1 \in 1 .. Len(s) /\ t[i] = s[i + 1]
    BY ONLY <1>1, <2>2, <2>3
  <2>5. QED BY ONLY <2>1, <2>4 DEF RestOf
<1>6. QED BY ONLY <1>2, <1>3, <1>4, <1>5

LEMMA RestSpread ==
  ASSUME NEW strict, NEW line, NEW k, NEW m, NEW way, NEW left,
         Spread(strict, line, way, k, m), \A c \in Ways : RestOf(left[c], way[c])
  PROVE  Spread(strict, line, left, k, m)
<1>1. \A c \in Ways : \E n \in Nat :
        \A i \in 1 .. Len(left[c]) : i + n \in 1 .. Len(way[c]) /\ left[c][i] = way[c][i + n]
  BY ONLY \A c \in Ways : RestOf(left[c], way[c]) DEF RestOf
<1>2. PICK gone : gone = [c \in Ways |-> CHOOSE n \in Nat :
        \A i \in 1 .. Len(left[c]) : i + n \in 1 .. Len(way[c]) /\ left[c][i] = way[c][i + n]]
  OBVIOUS
<1>3. ASSUME NEW c \in Ways
      PROVE  /\ gone[c] \in Nat
             /\ \A i \in 1 .. Len(left[c]) :
                  i + gone[c] \in 1 .. Len(way[c]) /\ left[c][i] = way[c][i + gone[c]]
  BY ONLY <1>1, <1>2, c \in Ways
<1>4. gone \in [Ways -> Nat]
  BY ONLY <1>2, <1>3
<1>5. QED BY ONLY <1>3, <1>4, FewerSpread, Spread(strict, line, way, k, m)

\* Packages leave the ways, and none comes.
LEMMA FewerOnTheirWay ==
  ASSUME OrderOverUDP, RestOf(udpUp', udpUp), RestOf(outbox', outbox),
         \A c \in 1 .. MaxConns : Waiting(c)' => Waiting(c) /\ RestOf(up'[c], up[c])
  PROVE  Spread(otherResets = 0, out \o uart.ring, ([c \in Ways |-> Way(c)])', clients, consumed)
<1>1. PICK way, left : way = [c \in Ways |-> Way(c)] /\ left = ([c \in Ways |-> Way(c)])'
  OBVIOUS
<1>2. PICK strict, line : strict = (otherResets = 0) /\ line = out \o uart.ring
  OBVIOUS
<1>3. Spread(strict, line, way, clients, consumed)
  BY ONLY <1>1, <1>2, OrderOverUDP DEF OrderOverUDP
<1>4. ASSUME NEW c \in Ways
      PROVE  RestOf(left[c], way[c])
  <2>1. CASE c = 0
    BY ONLY <1>1, <2>1, WayCases, NextWayCases, RestOf(udpUp', udpUp)
  <2>2. CASE c = MaxConns + 1
    BY ONLY <1>1, <2>2, WayCases, NextWayCases, RestOf(outbox', outbox)
  <2>3. CASE c \in 1 .. MaxConns /\ Waiting(c)'
    <3>1. Waiting(c) /\ RestOf(up'[c], up[c])
      BY ONLY <2>3, \A d \in 1 .. MaxConns : Waiting(d)' => Waiting(d) /\ RestOf(up'[d], up[d])
    <3>2. left[c] = up'[c]
      BY ONLY <1>1, <2>3, NextWayCases
    <3>3. way[c] = up[c]
      BY ONLY <1>1, <2>3, <3>1, WayCases
    <3>4. QED BY ONLY <3>1, <3>2, <3>3
  <2>4. CASE c \in 1 .. MaxConns /\ ~ Waiting(c)'
    <3>1. left[c] = << >>
      BY ONLY <1>1, <2>4, NextWayCases
    <3>2. QED BY ONLY <3>1, EmptySeq DEF RestOf
  <2>5. QED BY ONLY <2>1, <2>2, <2>3, <2>4, c \in Ways, Bounds DEF Ways
<1>5. Spread(strict, line, left, clients, consumed)
  BY ONLY <1>3, <1>4, RestSpread
<1>6. QED BY ONLY <1>1, <1>2, <1>5

\* What the line is after a request was handled.
LEMMA HandledContinues ==
  ASSUME TypeOK, NEW package \in Packages, HandleRequest(package)
  PROVE  /\ out' \o uart'.ring \in Seq(Bytes)
         /\ Continued(out \o uart.ring, PayloadOf(package), out' \o uart'.ring)
<1>1. /\ uart \in Ports /\ out \in Seq(Bytes) /\ uart.ring \in Seq(Bytes)
      /\ package.request \in Requests
  BY DEF TypeOK, FirmwareTypeOK, Ports, Packages
<1>2. uart' = ProcessRequest(uart, package.request)
  BY ONLY HandleRequest(package) DEF HandleRequest
<1>3. PICK line, after : line = out \o uart.ring /\ after = out' \o uart'.ring
  OBVIOUS
<1>4. PICK a \in Nat, b \in Nat : a = Len(out) /\ b = Len(uart.ring)
  BY ONLY <1>1, LenProperties
<1>5. /\ line \in Seq(Bytes) /\ Len(line) = a + b
      /\ \A i \in 1 .. a + b : line[i] = IF i <= a THEN out[i] ELSE uart.ring[i - a]
  BY ONLY <1>1, <1>3, <1>4, ConcatProperties
<1>6. PayloadOf(package) \in Seq(Bytes)
  <2>1. package.request.type = "Data" => package.request.data \in Seq(Bytes)
    BY ONLY <1>1 DEF Requests
  <2>2. QED BY ONLY <2>1, EmptySeq DEF PayloadOf
<1>7. PICK payload : payload = PayloadOf(package)
  OBVIOUS
<1>8. PICK size \in Nat : size = Len(payload)
  BY ONLY <1>6, <1>7, LenProperties
\* No byte of the payload comes.
<1>9. ASSUME NEW m \in 0 .. Len(line), Len(after) = m, \A i \in 1 .. m : after[i] = line[i]
      PROVE  Continued(line, payload, after)
  <2>1. m \in Int
    BY ONLY <1>4, <1>5, m \in 0 .. Len(line)
  <2>2. 0 \in 0 .. Len(payload) /\ Len(after) = m + 0
    BY ONLY <1>8, <1>9, <2>1
  <2>3. \A i \in 1 .. 0 : after[m + i] = payload[i]
    OBVIOUS
  <2>4. QED BY ONLY <1>9, <2>2, <2>3 DEF Continued
<1>10. CASE package.request.type = "Reset"
  <2>1. out' = << >> /\ uart'.ring = << >>
    BY ONLY <1>1, <1>2, <1>10, HandleRequest(package), RequestKeepsPort DEF HandleRequest
  <2>2. << >> \in Seq(Bytes) /\ Len(<< >>) = 0
    BY ONLY EmptySeq
  <2>3. after = << >>
    BY ONLY <1>3, <2>1, <2>2, ConcatEmptySeq
  <2>4. 0 \in 0 .. Len(line)
    BY ONLY <1>4, <1>5
  <2>5. Continued(line, payload, after)
    BY ONLY <1>9, <2>2, <2>3, <2>4
  <2>6. QED BY ONLY <1>3, <1>7, <2>2, <2>3, <2>5
<1>11. CASE package.request.type \in {"NoCommand", "Open"}
  <2>1. out' = out /\ uart'.ring \in {<< >>, uart.ring}
    BY ONLY <1>1, <1>2, <1>11, HandleRequest(package), RequestKeepsPort DEF HandleRequest
  <2>2. CASE uart'.ring = uart.ring
    <3>1. after = line
      BY ONLY <1>3, <2>1, <2>2
    <3>2. Continued(line, payload, after)
      BY ONLY <1>4, <1>5, <1>9, <3>1
    <3>3. QED BY ONLY <1>3, <1>5, <1>7, <3>1, <3>2
  <2>3. CASE uart'.ring = << >>
    <3>1. after = out
      BY ONLY <1>1, <1>3, <2>1, <2>3, ConcatEmptySeq
    <3>2. a \in 0 .. Len(line) /\ \A i \in 1 .. a : after[i] = line[i]
      BY ONLY <1>4, <1>5, <3>1
    <3>3. Continued(line, payload, after)
      BY ONLY <1>4, <1>9, <3>1, <3>2
    <3>4. QED BY ONLY <1>1, <1>3, <1>7, <3>1, <3>3
  <2>4. QED BY ONLY <2>1, <2>2, <2>3
<1>12. CASE package.request.type = "Data"
  <2>1. payload = package.request.data /\ out' = out
    BY ONLY <1>7, <1>12, HandleRequest(package) DEF HandleRequest, PayloadOf
  <2>2. PICK n \in 0 .. Len(payload) : uart'.ring = uart.ring \o SubSeq(payload, 1, n)
    BY ONLY <1>1, <1>2, <1>12, <2>1, RequestKeepsPort
  <2>3. n \in Nat /\ n <= size
    BY ONLY <1>8, n \in 0 .. Len(payload)
  <2>4. PICK front : front = SubSeq(payload, 1, n)
    OBVIOUS
  <2>5. front \in Seq(Bytes) /\ Len(front) = n
    BY ONLY <1>6, <1>7, <1>8, <2>3, <2>4, PrefixType
  <2>6. \A i \in 1 .. n : front[i] = payload[i]
    <3>1. \A i \in 1 .. Len(payload) : payload[i] \in Bytes
      BY ONLY <1>6, <1>7, ElementOfSeq
    <3>2. \A i \in 1 .. n : payload[i] \in Bytes
      BY ONLY <1>8, <2>3, <3>1
    <3>3. Len(SubSeq(payload, 1, n)) = n /\ \A i \in 1 .. n : SubSeq(payload, 1, n)[i] = payload[i]
      BY <1>8, <2>3, <3>2, SubSeqProperties
    <3>4. QED BY ONLY <2>4, <3>3
  <2>7. after = line \o front
    <3>1. PICK ring : ring = uart.ring
      OBVIOUS
    <3>2. after = out \o (ring \o front)
      BY ONLY <1>3, <2>1, <2>2, <2>4, <3>1
    <3>3. \A x, y, z \in Seq(Bytes) : (x \o y) \o z = x \o (y \o z)
      BY ConcatAssociative
    <3>4. QED BY ONLY <1>1, <1>3, <2>5, <3>1, <3>2, <3>3
  <2>8. PICK len \in Nat : len = Len(line)
    BY ONLY <1>5, LenProperties
  <2>9. /\ after \in Seq(Bytes) /\ Len(after) = len + n
        /\ \A i \in 1 .. len + n : after[i] = IF i <= len THEN line[i] ELSE front[i - len]
    BY ONLY <1>5, <2>5, <2>7, <2>8, ConcatProperties
  <2>10. len \in 0 .. Len(line) /\ \A i \in 1 .. len : after[i] = line[i]
    BY ONLY <2>3, <2>8, <2>9
  <2>11. \A i \in 1 .. n : after[len + i] = payload[i]
    <3>1. ASSUME NEW i \in 1 .. n
          PROVE  after[len + i] = payload[i]
      <4>1. PICK j : j = len + i
        OBVIOUS
      <4>2. j \in 1 .. len + n /\ ~ (j <= len) /\ j - len = i
        BY ONLY <2>3, <2>8, <4>1, i \in 1 .. n
      <4>3. after[j] = front[i]
        BY ONLY <2>9, <4>2
      <4>4. QED BY ONLY <2>6, <4>1, <4>3
    <3>2. QED BY ONLY <3>1
  <2>12. Continued(line, payload, after)
    BY ONLY <2>9, <2>10, <2>11, n \in 0 .. Len(payload) DEF Continued
  <2>13. QED BY ONLY <1>3, <1>7, <2>9, <2>12
<1>13. package.request.type \in {"NoCommand", "Open", "Reset", "Data"}
  BY ONLY <1>1 DEF Requests
<1>14. QED BY ONLY <1>10, <1>11, <1>12, <1>13

\* A package is handled that was on one of the ways; after it the line takes up
\* its data, and what is left on the ways may follow.
LEMMA HandledSpread ==
  ASSUME TypeOK, OrderOverUDP, UNCHANGED <<outbox, clients, consumed, otherResets>>,
         RestOf(udpUp', udpUp),
         \A c \in 1 .. MaxConns : Waiting(c)' => Waiting(c) /\ RestOf(up'[c], up[c]),
         NEW way, way = [c \in Ways |-> Way(c)], NEW left, left = ([c \in Ways |-> Way(c)])',
         NEW strict \in BOOLEAN, strict = (otherResets = 0),
         NEW e \in Ways, NEW j \in 1 .. Len(way[e]), NEW package \in Packages, package = way[e][j],
         HandleRequest(package),
         \A c \in Ways : \A i \in 1 .. Len(left[c]) :
           AllFollow(strict, PayloadOf(package), PayloadOf(left[c][i]))
  PROVE  OrderOverUDP'
<1>1. PICK line, after : line = out \o uart.ring /\ after = out' \o uart'.ring
  OBVIOUS
<1>2. Spread(strict, line, way, clients, consumed)
  BY ONLY <1>1, OrderOverUDP, way = [c \in Ways |-> Way(c)], strict = (otherResets = 0) DEF OrderOverUDP
<1>3. Spread(strict, line, left, clients, consumed)
  <2>1. RestOf(outbox', outbox)
    BY ONLY TypeOK, RestCases, UNCHANGED <<outbox, clients, consumed, otherResets>>
       DEF TypeOK, ClientTypeOK
  <2>2. QED BY ONLY <1>1, <2>1, OrderOverUDP, RestOf(udpUp', udpUp),
           \A c \in 1 .. MaxConns : Waiting(c)' => Waiting(c) /\ RestOf(up'[c], up[c]),
           left = ([c \in Ways |-> Way(c)])', strict = (otherResets = 0), FewerOnTheirWay
<1>4. PICK payload : payload = PayloadOf(package)
  OBVIOUS
<1>5. payload \in Seq(Read(clients, consumed)) /\ Increasing(payload) /\ AllFollow(strict, line, payload)
  BY ONLY <1>2, <1>4, e \in Ways, j \in 1 .. Len(way[e]), package = way[e][j] DEF Spread, Carried
<1>6. after \in Seq(Bytes) /\ Continued(line, payload, after)
  BY ONLY <1>1, <1>4, HandledContinues, TypeOK, package \in Packages, HandleRequest(package)
<1>7. Spread(strict, after, left, clients, consumed)
  BY ONLY <1>3, <1>4, <1>5, <1>6, JoinedSpread, strict \in BOOLEAN,
     \A c \in Ways : \A i \in 1 .. Len(left[c]) :
       AllFollow(strict, PayloadOf(package), PayloadOf(left[c][i]))
<1>8. OrderOverUDP'
  BY ONLY <1>1, <1>7, UNCHANGED <<outbox, clients, consumed, otherResets>>,
     left = ([c \in Ways |-> Way(c)])', strict = (otherResets = 0) DEF OrderOverUDP
<1>9. QED BY <1>8

\* The first package of a TCP connection passes those that go over UDP.
LEMMA RequestTCPKeepsSpread ==
  ASSUME TypeOK, OrderOverUDP, RequestTCP
  PROVE  OrderOverUDP'
<1>1. /\ fwConn \in 0 .. MaxConns /\ fwConns \in Nat /\ fwConn \in {0, fwConns}
      /\ up \in [1 .. MaxConns -> Seq(Packages)] /\ udpUp \in Seq(Packages) /\ MaxConns \in Nat
  BY Bounds DEF TypeOK, NetworkTypeOK, FirmwareTypeOK
<1>2. /\ fwConn # 0 /\ up[fwConn] # << >> /\ HandleRequest(Head(up[fwConn]))
      /\ up' = [up EXCEPT ![fwConn] = Tail(up[fwConn])]
      /\ UNCHANGED <<fwConn, fwConns, outbox, clients, consumed, otherResets, udpUp>>
  BY ONLY RequestTCP DEF RequestTCP, clientVars, portVars, roundVars, udpVars
<1>3. /\ fwConn \in 1 .. MaxConns /\ fwConn \in Ways /\ Waiting(fwConn)
      /\ \A c \in 1 .. MaxConns : Waiting(c) => fwConn <= c
  BY ONLY <1>1, <1>2 DEF Ways, Waiting
<1>4. PICK way, left : way = [c \in Ways |-> Way(c)] /\ left = ([c \in Ways |-> Way(c)])'
  OBVIOUS
<1>5. PICK strict \in BOOLEAN : strict = (otherResets = 0)
  OBVIOUS
<1>6. PICK line : line = out \o uart.ring
  OBVIOUS
<1>7. Spread(strict, line, way, clients, consumed)
  BY ONLY <1>4, <1>5, <1>6, OrderOverUDP DEF OrderOverUDP
<1>8. PICK queue : queue = up[fwConn]
  OBVIOUS
<1>9. PICK len \in Nat : len = Len(queue)
  BY ONLY <1>1, <1>3, <1>8, LenProperties
<1>10. /\ queue \in Seq(Packages) /\ len # 0 /\ Head(queue) = queue[1] /\ queue[1] \in Packages
       /\ Len(Tail(queue)) = len - 1 /\ \A i \in 1 .. len - 1 : Tail(queue)[i] = queue[i + 1]
  <2>1. queue \in Seq(Packages) /\ queue # << >>
    BY ONLY <1>1, <1>2, <1>3, <1>8
  <2>2. len # 0
    BY ONLY <1>9, <2>1, EmptySeq
  <2>3. 1 \in 1 .. Len(queue)
    BY ONLY <1>9, <2>2
  <2>4. QED BY ONLY <1>9, <2>1, <2>2, <2>3, HeadTailProperties, ElementOfSeq
<1>11. PICK package : package = queue[1]
  OBVIOUS
<1>12. /\ way[fwConn] = queue /\ left[fwConn] = Tail(queue) /\ left[0] = way[0]
       /\ left[MaxConns + 1] = way[MaxConns + 1]
       /\ \A c \in 1 .. MaxConns : c # fwConn => left[c] = way[c]
       /\ \A c \in 1 .. MaxConns : c < fwConn => left[c] = << >>
  <2>1. up'[fwConn] = Tail(queue) /\ \A c \in 1 .. MaxConns : c # fwConn => up'[c] = up[c]
    BY ONLY <1>1, <1>2, <1>3, <1>8
  <2>2. \A c : Waiting(c)' = Waiting(c)
    BY ONLY <1>2 DEF Waiting
  <2>3. \A c \in 1 .. MaxConns : left[c] = IF Waiting(c) THEN up'[c] ELSE << >>
    BY ONLY <1>4, <2>2, NextWayCases
  <2>4. left[0] = udpUp /\ left[MaxConns + 1] = outbox
    BY ONLY <1>2, <1>4, NextWayCases
  <2>5. /\ way[0] = udpUp /\ way[MaxConns + 1] = outbox
        /\ \A c \in 1 .. MaxConns : way[c] = IF Waiting(c) THEN up[c] ELSE << >>
    BY ONLY <1>4, WayCases
  <2>6. \A c \in 1 .. MaxConns : c < fwConn => ~ Waiting(c)
    BY ONLY <1>3
  <2>7. way[fwConn] = queue /\ left[fwConn] = Tail(queue)
    BY ONLY <1>3, <1>8, <2>1, <2>3, <2>5
  <2>8. ASSUME NEW c \in 1 .. MaxConns
        PROVE  (c # fwConn => left[c] = way[c]) /\ (c < fwConn => left[c] = << >>)
    BY ONLY <2>1, <2>3, <2>5, <2>6, c \in 1 .. MaxConns
  <2>9. QED BY ONLY <2>4, <2>5, <2>7, <2>8
<1>13. /\ PayloadOf(package) \in Seq(Bytes)
       /\ strict => PayloadOf(package) = << >>
       /\ \A i \in 1 .. Len(way[0]) : PayloadOf(way[0][i]) \in Seq(Bytes)
  <2>1. 1 \in 1 .. Len(way[fwConn]) /\ package = way[fwConn][1]
    BY ONLY <1>9, <1>10, <1>11, <1>12
  <2>2. PayloadOf(package) \in Seq(Bytes)
    BY ONLY <1>3, <1>7, <2>1, CarriedBytes
  <2>3. strict => PayloadOf(package) = << >>
    BY ONLY <1>3, <1>7, <2>1 DEF Spread, Carried
  <2>4. 0 \in Ways
    BY ONLY <1>1 DEF Ways
  <2>5. QED BY ONLY <1>7, <2>2, <2>3, <2>4, CarriedBytes
<1>14. ASSUME NEW c \in Ways, NEW i \in 1 .. Len(left[c])
       PROVE  AllFollow(strict, PayloadOf(package), PayloadOf(left[c][i]))
  <2>1. fwConn \in Nat /\ 1 \in 1 .. Len(way[fwConn]) /\ package = way[fwConn][1]
    BY ONLY <1>1, <1>9, <1>10, <1>11, <1>12
  <2>2. CASE c = fwConn
    <3>1. i + 1 \in 1 .. Len(way[c]) /\ left[c][i] = way[c][i + 1] /\ 1 < i + 1
      BY ONLY <1>9, <1>10, <1>12, <2>2, i \in 1 .. Len(left[c])
    <3>2. QED BY ONLY <1>3, <1>7, <2>1, <2>2, <3>1 DEF Spread, Sorted
  <2>3. CASE c > fwConn
    <3>1. left[c] = way[c]
      <4>1. c \in 1 .. MaxConns \/ c = MaxConns + 1
        BY ONLY <1>1, <2>1, <2>3, c \in Ways DEF Ways
      <4>2. QED BY ONLY <1>12, <2>1, <2>3, <4>1
    <3>2. QED BY ONLY <1>3, <1>7, <2>1, <2>3, <3>1, c \in Ways, i \in 1 .. Len(left[c]) DEF Spread, Sorted
  <2>4. CASE c = 0
    <3>1. i \in 1 .. Len(way[0]) /\ left[c][i] = way[0][i]
      BY ONLY <1>12, <2>4, i \in 1 .. Len(left[c])
    <3>2. PICK payload : payload = PayloadOf(way[0][i])
      OBVIOUS
    <3>3. payload \in Seq(Bytes)
      BY ONLY <1>13, <3>1, <3>2
    <3>4. AllFollow(strict, payload, PayloadOf(package))
      <4>1. 0 \in Ways /\ 0 < fwConn
        BY ONLY <1>1, <1>2, <2>1 DEF Ways
      <4>2. QED BY ONLY <1>3, <1>7, <2>1, <3>1, <3>2, <4>1 DEF Spread, Sorted
    <3>5. AllFollow(strict, PayloadOf(package), payload)
      <4>1. PICK data : data = PayloadOf(package)
        OBVIOUS
      <4>2. data \in Seq(Bytes) /\ AllFollow(strict, payload, data)
        BY ONLY <1>13, <3>4, <4>1
      <4>3. CASE data = << >>
        BY ONLY <3>3, <4>1, <4>2, <4>3, FollowTurns
      <4>4. CASE strict = FALSE
        BY ONLY <3>3, <4>1, <4>2, <4>4, FollowTurns
      <4>5. QED BY ONLY <1>13, <4>1, <4>3, <4>4, strict \in BOOLEAN
    <3>6. QED BY ONLY <3>1, <3>2, <3>5
  <2>5. CASE c \in 1 .. MaxConns /\ c < fwConn
    BY ONLY <1>12, <2>5, i \in 1 .. Len(left[c]), EmptySeq
  <2>6. QED BY ONLY <1>1, <1>3, <2>2, <2>3, <2>4, <2>5, c \in Ways DEF Ways
<1>15. RestOf(udpUp', udpUp) /\ \A c \in 1 .. MaxConns : Waiting(c)' => Waiting(c) /\ RestOf(up'[c], up[c])
  <2>1. RestOf(udpUp, udpUp) /\ \A c \in 1 .. MaxConns : RestOf(up[c], up[c])
    BY ONLY <1>1, RestCases
  <2>2. RestOf(up'[fwConn], up[fwConn])
    BY ONLY <1>1, <1>2, <1>3, RestCases
  <2>3. \A c \in 1 .. MaxConns : c # fwConn => up'[c] = up[c]
    BY ONLY <1>1, <1>2, <1>3
  <2>4. \A c : Waiting(c)' = Waiting(c)
    BY ONLY <1>2 DEF Waiting
  <2>5. QED BY ONLY <1>2, <2>1, <2>2, <2>3, <2>4
<1>16. HandleRequest(package) /\ package \in Packages
  BY ONLY <1>2, <1>8, <1>10, <1>11
<1>17. PICK j \in 1 .. Len(way[fwConn]) : package = way[fwConn][j]
  BY ONLY <1>9, <1>10, <1>11, <1>12
<1>18. QED BY ONLY <1>2, <1>3, <1>4, <1>5, <1>14, <1>15, <1>16, <1>17, HandledSpread, TypeOK, OrderOverUDP

\* A package that came over UDP leaves those sent before it behind.
LEMMA RequestUDPKeepsSpread ==
  ASSUME TypeOK, OrderOverUDP, NEW n \in 1 .. Len(udpUp), RequestUDP(n)
  PROVE  OrderOverUDP'
<1>1. /\ up \in [1 .. MaxConns -> Seq(Packages)] /\ udpUp \in Seq(Packages) /\ MaxConns \in Nat
      /\ Len(udpUp) \in Nat
  BY Bounds, LenProperties DEF TypeOK, NetworkTypeOK
<1>2. /\ HandleRequest(udpUp[n]) /\ udpUp' = SubSeq(udpUp, n + 1, Len(udpUp))
      /\ UNCHANGED <<fwConn, fwConns, outbox, clients, consumed, otherResets, up>>
  BY ONLY RequestUDP(n) DEF RequestUDP, Later, clientVars, portVars, roundVars, tcpVars
<1>3. PICK way, left : way = [c \in Ways |-> Way(c)] /\ left = ([c \in Ways |-> Way(c)])'
  OBVIOUS
<1>4. PICK strict \in BOOLEAN : strict = (otherResets = 0)
  OBVIOUS
<1>5. PICK line : line = out \o uart.ring
  OBVIOUS
<1>6. Spread(strict, line, way, clients, consumed)
  BY ONLY <1>3, <1>4, <1>5, OrderOverUDP DEF OrderOverUDP
<1>7. PICK package : package = udpUp[n]
  OBVIOUS
<1>8. package \in Packages
  BY ONLY <1>1, <1>7, ElementOfSeq, n \in 1 .. Len(udpUp)
<1>9. PICK rest : rest = SubSeq(udpUp, n + 1, Len(udpUp))
  OBVIOUS
<1>10. Len(rest) = Len(udpUp) - n /\ \A i \in 1 .. Len(udpUp) - n : rest[i] = udpUp[n + i]
  <2>1. n \in Nat /\ n <= Len(udpUp)
    BY ONLY <1>1, n \in 1 .. Len(udpUp)
  <2>2. QED BY ONLY <1>1, <1>9, <2>1, SuffixType
<1>11. /\ way[0] = udpUp /\ left[0] = rest
       /\ \A c \in Ways : c # 0 => left[c] = way[c]
  <2>1. \A c : Waiting(c)' = Waiting(c)
    BY ONLY <1>2 DEF Waiting
  <2>2. way[0] = udpUp /\ left[0] = rest
    BY ONLY <1>2, <1>3, <1>9, WayCases, NextWayCases
  <2>3. \A c \in 1 .. MaxConns : left[c] = way[c]
    BY ONLY <1>2, <1>3, <2>1, WayCases, NextWayCases
  <2>4. left[MaxConns + 1] = way[MaxConns + 1]
    BY ONLY <1>2, <1>3, WayCases, NextWayCases
  <2>5. \A c \in Ways : c = 0 \/ c \in 1 .. MaxConns \/ c = MaxConns + 1
    BY ONLY <1>1 DEF Ways
  <2>6. QED BY ONLY <2>2, <2>3, <2>4, <2>5
<1>12. ASSUME NEW c \in Ways, NEW i \in 1 .. Len(left[c])
       PROVE  AllFollow(strict, PayloadOf(package), PayloadOf(left[c][i]))
  <2>1. 0 \in Ways /\ n \in 1 .. Len(way[0]) /\ package = way[0][n]
    BY ONLY <1>1, <1>7, <1>11, n \in 1 .. Len(udpUp) DEF Ways
  <2>2. CASE c = 0
    <3>1. PICK len : len = Len(udpUp) /\ len \in Nat
      BY ONLY <1>1
    <3>2. PICK size : size = len - n
      OBVIOUS
    <3>3. i \in 1 .. size /\ n \in 1 .. len
      BY ONLY <1>10, <1>11, <2>2, <3>1, <3>2, n \in 1 .. Len(udpUp), i \in 1 .. Len(left[c])
    <3>4. left[c][i] = way[0][n + i]
      BY ONLY <1>10, <1>11, <2>2, <3>1, <3>2, <3>3
    <3>5. n + i \in 1 .. Len(way[0]) /\ n < n + i
      BY ONLY <1>11, <3>1, <3>2, <3>3
    <3>6. PICK j \in 1 .. Len(way[0]) : left[c][i] = way[0][j] /\ n < j
      BY ONLY <3>4, <3>5
    <3>7. QED BY ONLY <1>6, <2>1, <2>2, <3>6 DEF Spread, Sorted
  <2>3. CASE c # 0
    <3>1. 0 < c /\ i \in 1 .. Len(way[c]) /\ left[c][i] = way[c][i]
      BY ONLY <1>1, <1>11, <2>3, c \in Ways, i \in 1 .. Len(left[c]) DEF Ways
    <3>2. QED BY ONLY <1>6, <2>1, <3>1, c \in Ways DEF Spread, Sorted
  <2>4. QED BY ONLY <2>2, <2>3
<1>13. RestOf(udpUp', udpUp) /\ \A c \in 1 .. MaxConns : Waiting(c)' => Waiting(c) /\ RestOf(up'[c], up[c])
  <2>1. \A c \in 1 .. MaxConns : RestOf(up[c], up[c])
    BY ONLY <1>1, RestCases
  <2>2. n \in 0 .. Len(udpUp)
    BY ONLY <1>1, n \in 1 .. Len(udpUp)
  <2>3. RestOf(udpUp', udpUp)
    BY ONLY <1>1, <1>2, <2>2, RestCases
  <2>4. QED BY ONLY <1>2, <2>1, <2>3 DEF Waiting
<1>14. /\ 0 \in Ways /\ n \in 1 .. Len(way[0]) /\ package = way[0][n]
  BY ONLY <1>1, <1>7, <1>11, n \in 1 .. Len(udpUp) DEF Ways
<1>15. HandleRequest(package)
  BY ONLY <1>2, <1>7
<1>16. QED BY ONLY <1>2, <1>3, <1>4, <1>8, <1>12, <1>13, <1>14, <1>15, HandledSpread, TypeOK, OrderOverUDP

\* Data that the port has packed stays on the way of UDP, unless another port's
\* reset takes it to TCP.
LEMMA PackedForUDP ==
  ASSUME TypeOK, useUDP, NEW request \in Requests, Tick, Pack(request)
  PROVE  /\ otherResets' = 0 => otherResets = 0
         /\ otherResets' = 0 /\ outbox'[1].useTCP => request.type # "Data"
         /\ outbox' = <<outbox'[1]>>
<1>1. otherResets \in Nat
  BY Bounds DEF TypeOK, ClientTypeOK
<1>2. PICK otherReset \in BOOLEAN :
        /\ otherResets' = IF otherReset THEN otherResets + 1 ELSE otherResets
        /\ outbox' = <<[request |-> request,
                        header  |-> IF request.type = "Open" THEN Interval ELSE eventCounter',
                        useTCP  |-> UsesTCP(request) \/ otherReset,
                        from    |-> client]>>
  BY ONLY Pack(request) DEF Pack
<1>3. outbox' = <<outbox'[1]>>
  BY ONLY TypeOK, PackedIsPackage, request \in Requests, Tick, Pack(request) DEF TypeOK
<1>4. otherResets' = 0 => otherResets = 0 /\ ~ otherReset
  BY ONLY <1>1, <1>2
<1>5. PICK header : header = IF request.type = "Open" THEN Interval ELSE eventCounter'
  OBVIOUS
<1>6. PICK useTCP \in BOOLEAN : useTCP = (UsesTCP(request) \/ otherReset)
  BY ONLY Zenon DEF UsesTCP
<1>7. outbox' = <<[request |-> request, header |-> header, useTCP |-> useTCP, from |-> client]>>
  <2>1. outbox' = <<[request |-> request, header |-> header,
                     useTCP |-> UsesTCP(request) \/ otherReset, from |-> client]>>
    BY ONLY <1>2, <1>5, Zenon
  <2>2. QED BY ONLY <1>6, <2>1, Zenon
<1>8. PICK package : package = [request |-> request, header |-> header, useTCP |-> useTCP, from |-> client]
  OBVIOUS
<1>9. outbox'[1] = package
  <2>1. outbox' = <<package>>
    BY ONLY <1>7, <1>8, Zenon
  <2>2. QED BY ONLY <2>1
<1>10. package.useTCP = useTCP
  BY ONLY <1>8, Zenon
<1>11. ASSUME otherResets' = 0, outbox'[1].useTCP
       PROVE  request.type # "Data"
  <2>1. UsesTCP(request)
    BY ONLY <1>4, <1>6, <1>9, <1>10, <1>11, Zenon
  <2>2. request.type \in {"Open", "Close", "Reset"}
    BY ONLY <2>1, useUDP, Zenon DEF UsesTCP
  <2>3. QED BY ONLY <2>2
<1>12. QED BY ONLY <1>3, <1>4, <1>11

LEMMA PackedKeepsSpread ==
  ASSUME TypeOK, useUDP, OrderOverUDP, NEW request \in Requests, Tick, Pack(request),
         clients' = clients, consumed' \in Nat, consumed <= consumed',
         request.type = "Data" => /\ client = clients /\ request.data \in Seq(Fresh)
                                  /\ Increasing(request.data)
  PROVE  OrderOverUDP'
<1>1. clients \in Nat /\ consumed \in Nat /\ outbox'[1].request = request
  BY PackedIsPackage, Bounds DEF TypeOK, ClientTypeOK
<1>2. outbox = << >> /\ UNCHANGED <<up, udpUp, fwConn, fwConns, out, uart>>
  BY ONLY Tick, Pack(request) DEF Tick, NoPackage, Pack, tcpVars, udpVars, linkVars, history
<1>3. PICK way, left : way = [c \in Ways |-> Way(c)] /\ left = ([c \in Ways |-> Way(c)])'
  OBVIOUS
<1>4. PICK before \in BOOLEAN, strict \in BOOLEAN : before = (otherResets = 0) /\ strict = (otherResets' = 0)
  OBVIOUS
<1>5. PICK line : line = out \o uart.ring
  OBVIOUS
<1>6. Spread(before, line, way, clients, consumed)
  BY ONLY <1>3, <1>4, <1>5, OrderOverUDP DEF OrderOverUDP
<1>7. PICK package : package = outbox'[1]
  OBVIOUS
<1>8. /\ way[MaxConns + 1] = << >> /\ left[MaxConns + 1] = <<package>>
      /\ \A c \in 0 .. MaxConns : left[c] = way[c]
  <2>1. way[MaxConns + 1] = << >>
    BY ONLY <1>2, <1>3, WayCases
  <2>2. left[MaxConns + 1] = <<package>>
    BY ONLY <1>3, <1>7, NextWayCases, PackedForUDP, TypeOK, useUDP, request \in Requests, Tick, Pack(request)
  <2>3. left[0] = way[0]
    BY ONLY <1>2, <1>3, WayCases, NextWayCases
  <2>4. \A c : Waiting(c)' = Waiting(c)
    BY ONLY <1>2 DEF Waiting
  <2>5. \A c \in 1 .. MaxConns : left[c] = way[c]
    BY ONLY <1>2, <1>3, <2>4, WayCases, NextWayCases
  <2>6. \A c \in 0 .. MaxConns : c = 0 \/ c \in 1 .. MaxConns
    BY Bounds
  <2>7. QED BY ONLY <2>1, <2>2, <2>3, <2>5, <2>6
<1>9. strict => before
  BY ONLY <1>4, PackedForUDP, TypeOK, useUDP, request \in Requests, Tick, Pack(request)
<1>10. PICK S : S = {b \in Bytes : b[1] = clients /\ consumed < b[2] /\ b[2] <= consumed'}
  OBVIOUS
<1>11. /\ PayloadOf(package) \in Seq(S) /\ Increasing(PayloadOf(package))
       /\ strict /\ package.useTCP => PayloadOf(package) = << >>
  <2>1. CASE request.type = "Data"
    <3>1. PayloadOf(package) = request.data
      BY ONLY <1>1, <1>7, <2>1 DEF PayloadOf
    <3>2. Fresh \subseteq S
      BY ONLY <1>10, <2>1, request.type = "Data" => client = clients /\ request.data \in Seq(Fresh)
                                                    /\ Increasing(request.data) DEF Fresh
    <3>3. PayloadOf(package) \in Seq(S)
      BY ONLY <2>1, <3>1, <3>2, SeqMonotonic,
         request.type = "Data" => client = clients /\ request.data \in Seq(Fresh) /\ Increasing(request.data)
    <3>4. ~ (strict /\ package.useTCP)
      BY ONLY <1>4, <1>7, <2>1, PackedForUDP, TypeOK, useUDP, request \in Requests, Tick, Pack(request)
    <3>5. QED BY ONLY <2>1, <3>1, <3>3, <3>4,
             request.type = "Data" => client = clients /\ request.data \in Seq(Fresh) /\ Increasing(request.data)
  <2>2. CASE request.type # "Data"
    <3>1. PayloadOf(package) = << >>
      BY ONLY <1>1, <1>7, <2>2 DEF PayloadOf
    <3>2. QED BY ONLY <3>1, EmptySeq DEF Increasing
  <2>3. QED BY ONLY <2>1, <2>2
<1>12. Spread(strict, line, left, clients, consumed')
  BY ONLY <1>1, <1>6, <1>8, <1>9, <1>10, <1>11, PackedSpread, before \in BOOLEAN, strict \in BOOLEAN,
     consumed' \in Nat, consumed <= consumed'
<1>13. OrderOverUDP'
  BY ONLY <1>2, <1>3, <1>4, <1>5, <1>12, clients' = clients DEF OrderOverUDP
<1>14. QED BY <1>13

\* A step that puts nothing on the ways, and leaves the line alone.
LEMMA ReadingKeepsSpread ==
  ASSUME TypeOK, OrderOverUDP, UNCHANGED otherResets, out' \o uart'.ring = out \o uart.ring,
         clients' \in Nat, consumed' \in Nat,
         clients < clients' \/ (clients = clients' /\ consumed <= consumed'),
         outbox' \in {outbox, << >>}, udpUp' \in {udpUp, << >>}, UNCHANGED up,
         \A c \in 1 .. MaxConns : Waiting(c)' => Waiting(c)
  PROVE  OrderOverUDP'
<1>1. /\ up \in [1 .. MaxConns -> Seq(Packages)] /\ udpUp \in Seq(Packages)
      /\ outbox \in Seq(Packages) /\ clients \in Nat /\ consumed \in Nat
  BY Bounds DEF TypeOK, ClientTypeOK, NetworkTypeOK
<1>2. RestOf(outbox', outbox)
  BY ONLY <1>1, RestCases, outbox' \in {outbox, << >>}
<1>3. RestOf(udpUp', udpUp)
  BY ONLY <1>1, RestCases, udpUp' \in {udpUp, << >>}
<1>4. \A c \in 1 .. MaxConns : Waiting(c)' => Waiting(c) /\ RestOf(up'[c], up[c])
  BY ONLY <1>1, RestCases, UNCHANGED up, \A c \in 1 .. MaxConns : Waiting(c)' => Waiting(c)
<1>5. PICK left : left = ([c \in Ways |-> Way(c)])'
  OBVIOUS
<1>6. PICK strict, line : strict = (otherResets = 0) /\ line = out \o uart.ring
  OBVIOUS
<1>7. Spread(strict, line, left, clients, consumed)
  BY ONLY <1>2, <1>3, <1>4, <1>5, <1>6, OrderOverUDP, FewerOnTheirWay
<1>8. Spread(strict, line, left, clients', consumed')
  BY ONLY <1>1, <1>7, SpreadGrows, clients' \in Nat, consumed' \in Nat,
     clients < clients' \/ (clients = clients' /\ consumed <= consumed')
<1>9. OrderOverUDP'
  BY ONLY <1>5, <1>6, <1>8, UNCHANGED otherResets, out' \o uart'.ring = out \o uart.ring DEF OrderOverUDP
<1>10. QED BY <1>9

LEMMA ClientKeepsSpread ==
  ASSUME TypeOK, useUDP, OrderOverUDP, Client, ~ Send
  PROVE  OrderOverUDP'
<1>1. /\ clients \in Nat /\ consumed \in Nat /\ client \in {0, clients} /\ ClientTypeOK
  BY Bounds DEF TypeOK, ClientTypeOK
<1>2. \/ clients' = clients + 1 /\ consumed' = 0
      \/ clients' = clients /\ consumed' = consumed
      \/ clients' = clients /\ \E n \in 1 .. MaxBytes : consumed' = consumed + n
  BY ~ Send, Client DEF Client, OnPortOpen, PrepareNothing, PrepareOpen, PrepareReset, PrepareIdle,
     PrepareHangup, PrepareData, Pack, Connect, Disconnect, StoreResponse, ReceiveTCP, ReceiveUDP, CheckResponse,
     tcpVars, linkVars, history, portVars, clientVars
<1>3. /\ clients' \in Nat /\ consumed' \in Nat
      /\ clients < clients' \/ (clients = clients' /\ consumed <= consumed')
  BY ONLY <1>1, <1>2
<1>4. CASE OnPortOpen \/ Connect \/ Disconnect \/ StoreResponse \/ ReceiveTCP
            \/ \E i \in 1 .. Len(udpDown) : ReceiveUDP(i)
  <2>1. /\ UNCHANGED <<outbox, otherResets, up, fwConn, fwConns, out, uart>>
        /\ udpUp' \in {udpUp, << >>}
    BY ONLY <1>4 DEF OnPortOpen, Connect, Disconnect, StoreResponse, ReceiveTCP, ReceiveUDP, CheckResponse,
       clientVars, roundVars, tcpVars, udpVars, linkVars, history
  <2>2. \A c \in 1 .. MaxConns : Waiting(c)' => Waiting(c)
    BY ONLY <2>1 DEF Waiting
  <2>3. out' \o uart'.ring = out \o uart.ring /\ outbox' \in {outbox, << >>}
    BY ONLY <2>1
  <2>4. QED BY ONLY <1>3, <2>1, <2>2, <2>3, ReadingKeepsSpread, TypeOK, OrderOverUDP
<1>5. CASE PrepareNothing \/ PrepareIdle \/ PrepareHangup
  <2>1. PICK request : request = NoCommand
    OBVIOUS
  <2>2. request \in Requests /\ request.type # "Data"
    BY ONLY <2>1 DEF NoCommand, Request, Requests
  <2>3. Tick /\ Pack(request)
    BY ONLY <1>5, <2>1 DEF PrepareNothing, PrepareIdle, PrepareHangup, MayRead
  <2>4. clients' = clients
    BY ONLY <1>5 DEF PrepareNothing, PrepareIdle, PrepareHangup, portVars
  <2>5. QED BY ONLY <1>1, <1>3, <2>2, <2>3, <2>4, PackedKeepsSpread, TypeOK, useUDP, OrderOverUDP
<1>6. CASE PrepareOpen
  <2>1. PICK request : request = Request("Open", 0, <<"speed">>)
    OBVIOUS
  <2>2. request \in Requests /\ request.type # "Data"
    BY ONLY <2>1 DEF Request, Requests
  <2>3. Tick /\ Pack(request)
    BY ONLY <1>6, <2>1, Zenon DEF PrepareOpen
  <2>4. clients' = clients
    BY ONLY <1>6 DEF PrepareOpen
  <2>5. QED BY ONLY <1>1, <1>3, <2>2, <2>3, <2>4, PackedKeepsSpread, TypeOK, useUDP, OrderOverUDP
<1>7. CASE PrepareReset
  <2>1. PICK request : request = Request("Reset", sessionId, << >>)
    OBVIOUS
  <2>2. sessionId \in 0 .. SessionLimit
    BY ONLY <1>1 DEF ClientTypeOK
  <2>3. request \in Requests /\ request.type # "Data"
    BY ONLY <2>1, <2>2 DEF Request, Requests
  <2>4. Tick /\ Pack(request)
    BY ONLY <1>7, <2>1, Zenon DEF PrepareReset
  <2>5. clients' = clients
    BY ONLY <1>7 DEF PrepareReset
  <2>6. QED BY ONLY <1>1, <1>3, <2>3, <2>4, <2>5, PackedKeepsSpread, TypeOK, useUDP, OrderOverUDP
<1>8. ASSUME NEW n \in 1 .. MaxBytes, PrepareData(n)
      PROVE  OrderOverUDP'
  <2>1. PICK data : data = [i \in 1 .. n |-> <<client, consumed + i>>]
    OBVIOUS
  <2>2. PICK request : request = Request("Data", 0, data)
    OBVIOUS
  <2>3. request \in Requests /\ data \in Seq(Fresh) /\ Increasing(data)
    BY ONLY <1>1, <1>8, <2>1, <2>2, DataIsFresh, n \in 1 .. MaxBytes
  <2>4. request.data = data
    BY ONLY <2>2 DEF Request
  <2>5. Tick /\ client = clients
    BY ONLY <1>1, <1>8 DEF PrepareData, MayRead
  <2>6. Pack(request)
    BY ONLY <1>8, <2>1, <2>2, Zenon DEF PrepareData
  <2>7. clients' = clients
    BY ONLY <1>8 DEF PrepareData
  <2>8. request.type = "Data" => /\ client = clients /\ request.data \in Seq(Fresh)
                                 /\ Increasing(request.data)
    BY ONLY <2>3, <2>4, <2>5
  <2>9. QED BY ONLY <1>1, <1>3, <2>3, <2>5, <2>6, <2>7, <2>8, PackedKeepsSpread, TypeOK, useUDP, OrderOverUDP
<1>9. QED BY ONLY <1>4, <1>5, <1>6, <1>7, <1>8, ~ Send, Client DEF Client

\* What the transports send goes to one of the ways, or is lost.
LEMMA SendKeepsSpread ==
  ASSUME TypeOK, OrderOverUDP, Send
  PROVE  OrderOverUDP'
<1>1. /\ conns \in 0 .. MaxConns /\ conn \in {0, conns} /\ MaxConns \in Nat
      /\ up \in [1 .. MaxConns -> Seq(Packages)] /\ udpUp \in Seq(Packages)
      /\ outbox \in Seq(Packages) /\ Len(outbox) <= 1 /\ clients \in Nat /\ consumed \in Nat
  BY Bounds DEF TypeOK, ClientTypeOK, NetworkTypeOK
<1>2. /\ outbox # << >> /\ outbox' = << >>
      /\ UNCHANGED <<clients, consumed, fwConn, fwConns, out, uart, otherResets>>
  BY ONLY Send DEF Send, portVars, roundVars, linkVars, history, NoPackage
<1>3. PICK package : package = outbox[1]
  OBVIOUS
<1>4. Len(outbox) = 1
  <2>1. PICK queue : queue = outbox
    OBVIOUS
  <2>2. queue \in Seq(Packages) /\ Len(queue) <= 1 /\ queue # << >>
    BY ONLY <1>1, <1>2, <2>1
  <2>3. PICK len \in Nat : len = Len(queue) /\ len # 0
    BY ONLY <2>2, LenProperties, EmptySeq
  <2>4. len <= 1
    BY ONLY <2>2, <2>3
  <2>5. QED BY ONLY <2>1, <2>3, <2>4
<1>5. PICK way, left : way = [c \in Ways |-> Way(c)] /\ left = ([c \in Ways |-> Way(c)])'
  OBVIOUS
<1>6. PICK strict \in BOOLEAN : strict = (otherResets = 0)
  OBVIOUS
<1>7. PICK line : line = out \o uart.ring
  OBVIOUS
<1>8. Spread(strict, line, way, clients, consumed)
  BY ONLY <1>5, <1>6, <1>7, OrderOverUDP DEF OrderOverUDP
<1>9. way \in [Ways -> Seq(Packages)] /\ Len(way[MaxConns + 1]) = 1 /\ way[MaxConns + 1][1] = package
  BY ONLY <1>3, <1>4, <1>5, TypeOK, WayTypes, WayCases
<1>10. \A c : Waiting(c)' = Waiting(c)
  BY ONLY <1>2 DEF Waiting
<1>11. /\ way[0] = udpUp /\ left[0] = udpUp' /\ left[MaxConns + 1] = << >>
       /\ \A c \in 1 .. MaxConns : way[c] = IF Waiting(c) THEN up[c] ELSE << >>
       /\ \A c \in 1 .. MaxConns : left[c] = IF Waiting(c) THEN up'[c] ELSE << >>
  BY ONLY <1>2, <1>5, <1>10, WayCases, NextWayCases
\* It is on one of the ways now.
<1>12. ASSUME NEW e \in 0 .. MaxConns, left[e] = Append(way[e], package),
              \A c \in 0 .. MaxConns : c # e => left[c] = way[c], e # 0 => package.useTCP
       PROVE  OrderOverUDP'
  <2>1. Spread(strict, line, left, clients, consumed)
    BY ONLY <1>8, <1>9, <1>11, <1>12, SentSpread, strict \in BOOLEAN
  <2>2. OrderOverUDP'
    BY ONLY <1>2, <1>5, <1>6, <1>7, <2>1 DEF OrderOverUDP
  <2>3. QED BY <2>2
<1>13. CASE UNCHANGED <<up, udpUp>>
  <2>1. \A c \in 1 .. MaxConns : Waiting(c)' => Waiting(c)
    BY ONLY <1>10
  <2>2. /\ out' \o uart'.ring = out \o uart.ring /\ outbox' \in {outbox, << >>}
        /\ udpUp' \in {udpUp, << >>} /\ clients' \in Nat /\ consumed' \in Nat
        /\ clients = clients' /\ consumed <= consumed'
    BY ONLY <1>1, <1>2, <1>13
  <2>3. QED BY ONLY <1>2, <1>13, <2>1, <2>2, ReadingKeepsSpread, TypeOK, OrderOverUDP
<1>14. CASE package.useTCP /\ Reaches(conn)
  <2>1. conn \in 1 .. MaxConns /\ Waiting(conn)
    BY ONLY <1>1, <1>14 DEF Reaches, Waiting
  <2>2. up' = [up EXCEPT ![conn] = Append(up[conn], package)] /\ udpUp' = udpUp
    BY ONLY <1>3, <1>14, Send DEF Send
  <2>3. up'[conn] = Append(up[conn], package) /\ \A c \in 1 .. MaxConns : c # conn => up'[c] = up[c]
    BY ONLY <1>1, <2>1, <2>2
  <2>4. left[conn] = Append(way[conn], package)
    BY ONLY <1>11, <2>1, <2>3
  <2>5. \A c \in 1 .. MaxConns : c # conn => left[c] = way[c]
    BY ONLY <1>11, <2>3
  <2>6. left[0] = way[0]
    BY ONLY <1>11, <2>2
  <2>7. conn \in 0 .. MaxConns /\ \A c \in 0 .. MaxConns : c = 0 \/ c \in 1 .. MaxConns
    BY ONLY <1>1, <2>1
  <2>8. QED BY ONLY <1>12, <1>14, <2>4, <2>5, <2>6, <2>7
<1>15. CASE ~ package.useTCP /\ conns # 0
  <2>1. udpUp' = Append(udpUp, package) /\ up' = up
    BY ONLY <1>3, <1>15, Send DEF Send
  <2>2. left[0] = Append(way[0], package) /\ \A c \in 1 .. MaxConns : left[c] = way[c]
    BY ONLY <1>11, <2>1
  <2>3. 0 \in 0 .. MaxConns /\ \A c \in 0 .. MaxConns : c = 0 \/ c \in 1 .. MaxConns
    BY ONLY <1>1
  <2>4. QED BY ONLY <1>12, <2>2, <2>3
<1>16. UNCHANGED <<up, udpUp>> \/ (package.useTCP /\ Reaches(conn)) \/ (~ package.useTCP /\ conns # 0)
  BY ONLY <1>3, Send DEF Send
<1>17. QED BY ONLY <1>13, <1>14, <1>15, <1>16

LEMMA FirmwareKeepsSpread ==
  ASSUME TypeOK, OrderOverUDP, Firmware
  PROVE  OrderOverUDP'
<1>1. /\ fwConns \in Nat /\ fwConn \in {0, fwConns} /\ uart \in Ports /\ FirmwareTypeOK
      /\ clients \in Nat /\ consumed \in Nat
  BY Bounds DEF TypeOK, ClientTypeOK, NetworkTypeOK, FirmwareTypeOK, Ports
\* Nothing moves on the ways, though a connection may be gone.
<1>2. ASSUME UNCHANGED <<clients, consumed, otherResets, outbox, up, udpUp>>,
             \A c \in 1 .. MaxConns : Waiting(c)' => Waiting(c),
             out' \o uart'.ring = out \o uart.ring
      PROVE  OrderOverUDP'
  <2>1. /\ clients' \in Nat /\ consumed' \in Nat /\ clients = clients' /\ consumed <= consumed'
        /\ outbox' \in {outbox, << >>} /\ udpUp' \in {udpUp, << >>}
    BY ONLY <1>1, <1>2
  <2>2. QED BY ONLY <1>2, <2>1, ReadingKeepsSpread, TypeOK, OrderOverUDP
<1>3. CASE Accept \/ Drop
  <2>1. UNCHANGED <<clients, consumed, otherResets, outbox, up, udpUp, out, uart>>
    BY ONLY <1>3 DEF Accept, Drop, clientVars, roundVars, portVars, tcpVars, udpVars, history
  <2>2. \A c \in 1 .. MaxConns : Waiting(c)' => Waiting(c)
    <3>1. \/ fwConn = 0 /\ fwConns' = fwConns + 1 /\ fwConn' = fwConns + 1
          \/ fwConn' = 0 /\ fwConns' = fwConns
      BY ONLY <1>3 DEF Accept, Drop, ServeTCP
    <3>2. QED BY ONLY <1>1, <3>1 DEF Waiting
  <2>3. QED BY ONLY <1>2, <2>1, <2>2
<1>4. ASSUME NEW room \in 1 .. IOSize, FeedUART(room)
      PROVE  OrderOverUDP'
  <2>1. out' \o uart'.ring = out \o uart.ring
    BY ONLY <1>4, TypeOK, FedBytes, room \in 1 .. IOSize
  <2>2. UNCHANGED <<clients, consumed, otherResets, outbox, up, udpUp, fwConn, fwConns>>
    BY ONLY <1>4 DEF FeedUART, clientVars, roundVars, portVars, tcpVars, udpVars, linkVars
  <2>3. QED BY ONLY <1>2, <2>1, <2>2 DEF Waiting
<1>5. CASE EndReset
  <2>1. uart' = [uart EXCEPT !.resetting = FALSE]
    BY ONLY <1>5 DEF EndReset, ReleaseReset
  <2>2. uart'.ring = uart.ring
    BY ONLY <1>1, <2>1 DEF Ports
  <2>3. UNCHANGED <<clients, consumed, otherResets, outbox, up, udpUp, out, fwConn, fwConns>>
    BY ONLY <1>5 DEF EndReset, clientVars, roundVars, portVars, tcpVars, udpVars, linkVars, history
  <2>4. QED BY ONLY <1>2, <2>2, <2>3 DEF Waiting
<1>6. ASSUME NEW n \in 0 .. IOSize, NEW wrapped \in BOOLEAN, Poll(n, wrapped)
      PROVE  OrderOverUDP'
  <2>1. uart'.ring = uart.ring
    BY ONLY <1>1, <1>6, PolledPort, n \in 0 .. IOSize, wrapped \in BOOLEAN
  <2>2. UNCHANGED <<clients, consumed, otherResets, outbox, up, udpUp, out, fwConn, fwConns>>
    BY ONLY <1>6 DEF Poll, clientVars, roundVars, portVars, linkVars
  <2>3. QED BY ONLY <1>2, <2>1, <2>2 DEF Waiting
<1>7. CASE RequestTCP
  BY ONLY <1>7, RequestTCPKeepsSpread, TypeOK, OrderOverUDP
<1>8. ASSUME NEW n \in 1 .. Len(udpUp), RequestUDP(n)
      PROVE  OrderOverUDP'
  BY ONLY <1>8, RequestUDPKeepsSpread, TypeOK, OrderOverUDP
<1>9. QED BY ONLY <1>3, <1>4, <1>5, <1>6, <1>7, <1>8, Firmware DEF Firmware

LEMMA InitSpread ==
  ASSUME Init
  PROVE  OrderOverUDP
<1>1. PICK way : way = [c \in Ways |-> Way(c)]
  OBVIOUS
<1>2. << >> \in Seq(Read(clients, consumed)) /\ Len(<< >>) = 0
  BY ONLY EmptySeq
<1>3. /\ out = << >> /\ uart.ring = << >> /\ outbox = << >> /\ udpUp = << >>
      /\ \A c \in 1 .. MaxConns : up[c] = << >>
  BY ONLY Init DEF Init, NewPort, NoPackage
<1>4. out \o uart.ring = << >>
  BY ONLY <1>2, <1>3, ConcatEmptySeq
<1>5. \A c \in Ways : way[c] = << >>
  BY ONLY <1>1, <1>3, Bounds DEF Ways, Way
<1>6. \A c \in Ways : 1 .. Len(way[c]) = {}
  BY ONLY <1>2, <1>5
<1>7. PICK strict : strict = (otherResets = 0)
  OBVIOUS
<1>8. Spread(strict, << >>, way, clients, consumed)
  BY ONLY <1>2, <1>6 DEF Spread, Carried, Sorted
<1>9. QED BY ONLY <1>1, <1>4, <1>7, <1>8 DEF OrderOverUDP

LEMMA SpreadAtDevice ==
  ASSUME OrderOverUDP
  PROVE  DeviceInOrder
<1>1. PICK way, line : way = [c \in Ways |-> Way(c)] /\ line = out \o uart.ring
  OBVIOUS
<1>2. PICK strict \in BOOLEAN : strict = (otherResets = 0)
  OBVIOUS
<1>3. \A i, j \in 1 .. Len(line) : i < j => MayFollow(strict, line[i], line[j])
  BY ONLY <1>1, <1>2, OrderOverUDP DEF OrderOverUDP, Spread
<1>4. \A i, j \in 1 .. Len(line) :
        i < j => IF otherResets = 0 THEN Before(line[i], line[j]) ELSE line[i] # line[j]
  BY ONLY <1>2, <1>3 DEF MayFollow
<1>5. QED BY ONLY <1>1, <1>4 DEF DeviceInOrder

\* Whatever is lost on the way, by either transport, no byte of a local client comes
\* to the device twice, and none before one that was written earlier, until a reset
\* of another port takes a package with data to TCP.
THEOREM BytesStayInOrder == Spec => []DeviceInOrder
<1> DEFINE Inv == TypeOK /\ (~ useUDP => Line /\ Order) /\ (useUDP => OrderOverUDP)
<1>1. Init => Inv
  BY InitTypes, InitLine, InitOrder, InitSpread
<1>2. Inv /\ [Next]_vars => Inv'
  <2>1. ASSUME TypeOK, ~ useUDP => Line /\ Order, useUDP => OrderOverUDP, Next
        PROVE  TypeOK' /\ (~ useUDP' => Line' /\ Order') /\ (useUDP' => OrderOverUDP')
    <3>1. useUDP' = useUDP /\ (Client \/ Firmware)
      BY ONLY <2>1 DEF Next
    <3>2. ~ useUDP => Line' /\ Order'
      BY ONLY <2>1, <3>1, ClientKeepsLine, SendKeepsLine, RequestKeepsLine, FirmwareKeepsLine,
         ClientKeepsOrder, SendKeepsOrder, RequestKeepsOrder, FirmwareKeepsOrder
    <3>3. useUDP => OrderOverUDP'
      BY ONLY <2>1, <3>1, ClientKeepsSpread, SendKeepsSpread, FirmwareKeepsSpread
    <3>4. QED BY ONLY <2>1, <3>1, <3>2, <3>3, NextTypes
  <2>2. ASSUME TypeOK, ~ useUDP => Line /\ Order, useUDP => OrderOverUDP, UNCHANGED vars
        PROVE  TypeOK' /\ (~ useUDP' => Line' /\ Order') /\ (useUDP' => OrderOverUDP')
    <3>1. TypeOK'
      BY ONLY <2>2, StutterTypes
    <3>2. Line /\ Order => Line' /\ Order'
      BY ONLY <2>2 DEF Line, OnItsWay, ToBeSent, Arrived, InLine, LastInLine, Waiting, Order, InOrder,
         vars, clientVars, portVars, tcpVars, udpVars, linkVars, history
    <3>3. OrderOverUDP => OrderOverUDP'
      BY ONLY <2>2 DEF OrderOverUDP, Way, Waiting,
         vars, clientVars, roundVars, portVars, tcpVars, udpVars, linkVars, history
    <3>4. useUDP' = useUDP
      BY ONLY <2>2 DEF vars
    <3>5. QED BY ONLY <2>2, <3>1, <3>2, <3>3, <3>4
  <2>3. QED BY <2>1, <2>2
<1>3. Inv => DeviceInOrder
  BY OrderAtDevice, SpreadAtDevice
<1>4. QED BY <1>1, <1>2, <1>3, PTL DEF Spec
-----------------------------------------------------------------------------
(* The poll interval, on the first connection.                             *)

LEMMA RoundKeepsHeader ==
  ASSUME TypeOK, FirstHeader, ConnectFirst,
         \/ PrepareNothing \/ PrepareOpen \/ PrepareReset \/ PrepareIdle \/ PrepareHangup
         \/ \E n \in 1 .. MaxBytes : PrepareData(n)
  PROVE  FirstHeader'
<1>1. /\ eventCounter \in Nat /\ Tick /\ UNCHANGED connected
      /\ UNCHANGED <<up, conn, conns, fwConn, fwConns, serverStarted, pollIntervalSetPending, pollInterval>>
  <2>1. eventCounter \in Nat
    BY ONLY TypeOK, Bounds DEF TypeOK, ClientTypeOK
  <2>2. Tick /\ UNCHANGED connected /\ \E request : Pack(request)
    BY ONLY \/ PrepareNothing \/ PrepareOpen \/ PrepareReset \/ PrepareIdle \/ PrepareHangup
            \/ \E n \in 1 .. MaxBytes : PrepareData(n)
       DEF PrepareNothing, PrepareOpen, PrepareReset, PrepareIdle, PrepareHangup, PrepareData, MayRead,
           portVars
  <2>3. ASSUME NEW request, Pack(request)
        PROVE  UNCHANGED <<up, conn, conns, fwConn, fwConns, serverStarted, pollIntervalSetPending,
                           pollInterval>>
    BY ONLY <2>3 DEF Pack, tcpVars, linkVars, pollVars
  <2>4. QED BY ONLY <2>1, <2>2, <2>3
<1>2. outbox = << >> /\ eventCounter' = eventCounter + 1 /\ eventCounter' # 0
  BY ONLY <1>1 DEF Tick, NoPackage
<1>3. conns # 0 /\ connected
  BY ONLY <1>2, ConnectFirst, FirstHeader DEF ConnectFirst, FirstHeader
<1>4. eventCounter = 0 => OpenIsNext'
  <2>1. SUFFICES ASSUME eventCounter = 0 PROVE OpenIsNext'
    OBVIOUS
  <2>2. openPending /\ PrepareOpen
    BY ONLY <1>3, <2>1, FirstHeader, Zenon,
       \/ PrepareNothing \/ PrepareOpen \/ PrepareReset \/ PrepareIdle \/ PrepareHangup
       \/ \E n \in 1 .. MaxBytes : PrepareData(n)
       DEF FirstHeader, PrepareNothing, PrepareReset, PrepareIdle, PrepareHangup, PrepareData, MayRead
  <2>3. PICK request : request = Request("Open", 0, <<"speed">>)
    OBVIOUS
  <2>4. Pack(request) /\ request.type = "Open"
    <3>1. Pack(request)
      BY ONLY <2>2, <2>3, Zenon DEF PrepareOpen
    <3>2. QED BY ONLY <2>3, <3>1 DEF Request
  <2>5. PICK useTCP : /\ useTCP = TRUE
                      /\ outbox' = <<[request |-> request, header |-> Interval, useTCP |-> useTCP,
                                      from |-> client]>>
    <3>1. PICK otherReset \in BOOLEAN :
            outbox' = <<[request |-> request,
                         header  |-> IF request.type = "Open" THEN Interval ELSE eventCounter',
                         useTCP  |-> UsesTCP(request) \/ otherReset,
                         from    |-> client]>>
      BY ONLY <2>4, Zenon DEF Pack
    <3>2. (UsesTCP(request) \/ otherReset) = TRUE
      BY ONLY <2>4, otherReset \in BOOLEAN DEF UsesTCP
    <3>3. (IF request.type = "Open" THEN Interval ELSE eventCounter') = Interval
      BY ONLY <2>4
    <3>4. QED BY ONLY <3>1, <3>2, <3>3, Zenon
  <2>6. outbox' # << >> /\ outbox'[1].useTCP /\ outbox'[1].header = Interval
    BY ONLY <2>5
  <2>7. QED BY ONLY <2>6 DEF OpenIsNext
<1>5. FirstIsOpen'
  <2>1. ~ OpenIsNext
    BY ONLY <1>2 DEF OpenIsNext
  <2>2. QED BY ONLY <1>1, <1>4, <2>1, FirstHeader DEF FirstHeader, FirstIsOpen
<1>6. QED BY ONLY <1>1, <1>2, <1>3, <1>5, FirstHeader DEF FirstHeader, IntervalIsMeant

LEMMA SendKeepsHeader ==
  ASSUME TypeOK, conns <= 1, FirstHeader, Send
  PROVE  FirstHeader'
<1>1. /\ conns \in 0 .. MaxConns /\ conn \in {0, conns} /\ fwConns \in 0 .. conns
      /\ fwConn \in {0, fwConns} /\ MaxConns \in Nat /\ outbox \in Seq(Packages)
      /\ up \in [1 .. MaxConns -> Seq(Packages)]
  BY Bounds DEF TypeOK, ClientTypeOK, NetworkTypeOK, FirmwareTypeOK
<1>2. /\ outbox # << >> /\ outbox' = << >>
      /\ UNCHANGED <<eventCounter, connected, openPending, conn, conns, fwConn, fwConns, serverStarted,
                    pollIntervalSetPending, pollInterval>>
  BY DEF Send, roundVars, portVars, linkVars, pollVars, NoPackage
<1>3. eventCounter # 0
  BY ONLY <1>2, FirstHeader DEF FirstHeader
<1>4. PICK package : package = outbox[1]
  OBVIOUS
<1>5. package \in Packages
  BY ONLY <1>1, <1>2, <1>4
<1>6. /\ package.useTCP => up' = IF Reaches(conn) THEN [up EXCEPT ![conn] = Append(up[conn], package)] ELSE up
      /\ ~ package.useTCP => up' = up
  BY ONLY <1>4, Send DEF Send
<1>7. ASSUME fwConns = 0 \/ pollIntervalSetPending, NEW c \in 1 .. MaxConns, c = conns
      PROVE  /\ up'[c] # << >> => Head(up'[c]).header = Interval
             /\ up'[c] = << >> => conn = 0
  <2>1. PICK queue : queue = up[c]
    OBVIOUS
  <2>2. queue \in Seq(Packages)
    BY ONLY <1>1, <2>1, c \in 1 .. MaxConns
  <2>3. /\ queue # << >> => Head(queue).header = Interval
        /\ queue = << >> => conn = 0 \/ (package.useTCP /\ package.header = Interval)
    BY ONLY <1>3, <1>4, <1>7, <2>1, FirstHeader DEF FirstHeader, FirstIsOpen, OpenIsNext
  <2>4. CASE conn # 0 /\ package.useTCP
    <3>1. conn = c /\ Reaches(conn)
      BY ONLY <1>1, <1>7, <2>4, FirstHeader, conns <= 1 DEF FirstHeader, Reaches
    <3>2. up'[c] = Append(queue, package)
      BY ONLY <1>1, <1>6, <2>1, <2>4, <3>1, c \in 1 .. MaxConns
    <3>3. Append(queue, package) # << >>
      BY ONLY <1>5, <2>2, AppendProperties
    <3>4. Head(Append(queue, package)) = IF queue = << >> THEN package ELSE Head(queue)
      BY ONLY <2>2, HeadTailAppend
    <3>5. QED BY ONLY <2>3, <2>4, <3>2, <3>3, <3>4
  <2>5. CASE ~ (conn # 0 /\ package.useTCP)
    <3>1. up' = up
      BY ONLY <1>6, <2>5 DEF Reaches
    <3>2. QED BY ONLY <2>1, <2>3, <2>5, <3>1
  <2>6. QED BY ONLY <2>4, <2>5
<1>8. FirstIsOpen'
  BY ONLY <1>2, <1>7 DEF FirstIsOpen
<1>9. QED BY ONLY <1>2, <1>3, <1>8, FirstHeader DEF FirstHeader, IntervalIsMeant

LEMMA ClientKeepsHeader ==
  ASSUME TypeOK, conns <= 1, conns' <= 1, FirstHeader, ConnectFirst, Client
  PROVE  FirstHeader'
<1>1. CASE \/ PrepareNothing \/ PrepareOpen \/ PrepareReset \/ PrepareIdle \/ PrepareHangup
           \/ \E n \in 1 .. MaxBytes : PrepareData(n)
  BY ONLY <1>1, TypeOK, FirstHeader, ConnectFirst, RoundKeepsHeader
<1>2. CASE Send
  BY ONLY <1>2, TypeOK, conns <= 1, FirstHeader, SendKeepsHeader
<1>3. CASE Connect
  <2>1. /\ conns' = conns + 1 /\ connected'
        /\ UNCHANGED <<eventCounter, outbox, openPending, up, fwConn, fwConns, serverStarted,
                      pollIntervalSetPending, pollInterval>>
    BY ONLY <1>3 DEF Connect, roundVars, linkVars, pollVars
  <2>2. conns = 0 /\ conns' = 1
    BY ONLY <2>1, conns' <= 1, TypeOK, Bounds DEF TypeOK, NetworkTypeOK
  <2>3. eventCounter = 0 /\ \A c \in 1 .. MaxConns : up[c] = << >>
    BY ONLY <2>2, FirstHeader DEF FirstHeader
  <2>4. FirstIsOpen'
    BY ONLY <2>1, <2>3 DEF FirstIsOpen
  <2>5. QED BY ONLY <2>1, <2>2, <2>3, <2>4, FirstHeader DEF FirstHeader, IntervalIsMeant
<1>4. CASE Disconnect \/ OnPortOpen \/ StoreResponse \/ ReceiveTCP \/ \E i \in 1 .. Len(udpDown) : ReceiveUDP(i)
  <2>1. /\ conn' \in {conn, 0}
        /\ UNCHANGED <<eventCounter, outbox, connected, openPending, conns, up, fwConn, fwConns,
                      serverStarted, pollIntervalSetPending, pollInterval>>
    BY ONLY <1>4 DEF Disconnect, OnPortOpen, StoreResponse, ReceiveTCP, ReceiveUDP, CheckResponse, clientVars,
       roundVars, portVars, tcpVars, udpVars, linkVars, pollVars
  <2>2. FirstIsOpen'
    BY ONLY <2>1, FirstHeader DEF FirstHeader, FirstIsOpen, OpenIsNext
  <2>3. QED BY ONLY <2>1, <2>2, FirstHeader DEF FirstHeader, IntervalIsMeant
<1>5. QED BY ONLY <1>1, <1>2, <1>3, <1>4, Client DEF Client

LEMMA FirmwareKeepsHeader ==
  ASSUME TypeOK, conns <= 1, FirstHeader, Firmware
  PROVE  FirstHeader'
<1>1. /\ conns \in 0 .. MaxConns /\ fwConns \in 0 .. conns /\ fwConn \in {0, fwConns}
      /\ MaxConns \in Nat
  BY Bounds DEF TypeOK, NetworkTypeOK, FirmwareTypeOK
<1>2. CASE Accept \/ Drop
  <2>1. /\ UNCHANGED <<eventCounter, outbox, connected, openPending, conns, conn, up>>
        /\ serverStarted' = FALSE /\ pollInterval' = DefaultInterval
        /\ \/ fwConn = 0 /\ fwConns < conns /\ fwConns' = fwConns + 1 /\ fwConn' = fwConns + 1
           \/ fwConn # 0 /\ fwConns' = fwConns /\ ~ pollIntervalSetPending'
    BY ONLY <1>2 DEF Accept, Drop, ServeTCP, clientVars, roundVars, portVars, tcpVars
  <2>2. fwConns' = 0 \/ pollIntervalSetPending' => fwConns = 0 /\ fwConn' # 0
    BY ONLY <1>1, <2>1, conns <= 1
  <2>3. FirstIsOpen'
    BY ONLY <2>1, <2>2, FirstHeader DEF FirstHeader, FirstIsOpen, OpenIsNext
  <2>4. IntervalIsMeant'
    BY ONLY <2>1 DEF IntervalIsMeant
  <2>5. QED BY ONLY <2>1, <2>2, <2>3, <2>4, FirstHeader DEF FirstHeader
<1>3. CASE RequestTCP
  <2>1. /\ UNCHANGED <<eventCounter, outbox, connected, openPending, conns, conn, fwConn, fwConns>>
        /\ ~ pollIntervalSetPending' /\ fwConn # 0 /\ up[fwConn] # << >>
        /\ pollInterval' \in
             {pollInterval, IF pollIntervalSetPending /\ Head(up[fwConn]).header \div Aggregate > 0
                              THEN Head(up[fwConn]).header \div Aggregate ELSE pollInterval}
    BY ONLY <1>3 DEF RequestTCP, HandleRequest, clientVars, roundVars, portVars
  <2>2. fwConn \in 1 .. MaxConns /\ fwConn = conns /\ fwConns # 0
    BY ONLY <1>1, <2>1, conns <= 1
  <2>3. eventCounter # 0
    BY ONLY <2>1, <2>2, FirstHeader DEF FirstHeader
  <2>4. pollIntervalSetPending => Head(up[fwConn]).header = Interval
    BY ONLY <2>1, <2>2, FirstHeader DEF FirstHeader, FirstIsOpen
  <2>5. IntervalIsMeant'
    BY ONLY <2>1, <2>4, FirstHeader DEF FirstHeader, IntervalIsMeant
  <2>6. FirstIsOpen'
    BY ONLY <2>1, <2>2 DEF FirstIsOpen
  <2>7. QED BY ONLY <2>1, <2>2, <2>3, <2>5, <2>6, FirstHeader DEF FirstHeader
<1>4. CASE \E i \in 1 .. Len(udpUp) : RequestUDP(i)
  <2>1. /\ UNCHANGED <<eventCounter, outbox, connected, openPending, conns, conn, up, fwConn, fwConns,
                      serverStarted>>
        /\ ~ pollIntervalSetPending' /\ serverStarted
        /\ ~ pollIntervalSetPending => pollInterval' = pollInterval
    BY ONLY <1>4 DEF RequestUDP, HandleRequest, clientVars, roundVars, portVars, tcpVars
  <2>2. fwConns # 0 /\ pollInterval' = pollInterval
    BY ONLY <2>1, FirstHeader DEF FirstHeader
  <2>3. FirstIsOpen'
    BY ONLY <2>1, <2>2 DEF FirstIsOpen
  <2>4. QED BY ONLY <2>1, <2>2, <2>3, FirstHeader DEF FirstHeader, IntervalIsMeant
<1>5. CASE \/ \E room \in 1 .. IOSize : FeedUART(room)
           \/ EndReset \/ \E n \in 0 .. IOSize, wrapped \in BOOLEAN : Poll(n, wrapped)
  <2>1. UNCHANGED <<eventCounter, outbox, connected, openPending, conns, conn, up, fwConn, fwConns,
                   serverStarted, pollIntervalSetPending, pollInterval>>
    BY ONLY <1>5 DEF FeedUART, EndReset, Poll, clientVars, roundVars, portVars, tcpVars, linkVars, pollVars
  <2>2. FirstIsOpen'
    BY ONLY <2>1, FirstHeader DEF FirstHeader, FirstIsOpen, OpenIsNext
  <2>3. QED BY ONLY <2>1, <2>2, FirstHeader DEF FirstHeader, IntervalIsMeant
<1>6. QED BY ONLY <1>2, <1>3, <1>4, <1>5, Firmware DEF Firmware

\* When the client finds the firmware at its start, the firmware polls at the
\* interval it was given, or at its default, as long as no second connection is
\* made: whatever is lost or sent before, the first header it takes is the Open's.
THEOREM FirstIntervalIsMeant == WarmSpec => [](conns <= 1 => IntervalIsMeant)
<1> DEFINE Inv == TypeOK /\ (conns <= 1 => FirstHeader)
<1>1. Init => Inv
  <2>1. Init => FirstHeader
    BY DEF Init, FirstHeader, FirstIsOpen, IntervalIsMeant, NoPackage
  <2>2. QED BY <2>1, InitTypes
<1>2. Inv /\ [Next /\ ConnectFirst]_vars => Inv'
  <2>1. ASSUME TypeOK, conns <= 1 => FirstHeader, Next, ConnectFirst
        PROVE  TypeOK' /\ (conns' <= 1 => FirstHeader')
    <3>1. conns \in Nat /\ conns' \in {conns, conns + 1}
      <4>1. conns \in Nat
        BY ONLY <2>1, Bounds DEF TypeOK, NetworkTypeOK
      <4>2. conns' \in {conns, conns + 1}
        BY ONLY <2>1 DEF Next, Client, OnPortOpen, PrepareNothing, PrepareOpen, PrepareReset, PrepareIdle,
           PrepareHangup, PrepareData, Pack, Send, Connect, Disconnect, StoreResponse, ReceiveTCP, ReceiveUDP,
           Firmware, Accept, Drop, RequestTCP, RequestUDP, FeedUART, EndReset, Poll,
           tcpVars, udpVars
      <4>3. QED BY ONLY <4>1, <4>2
    <3>2. conns' <= 1 => FirstHeader'
      BY ONLY <2>1, <3>1, ClientKeepsHeader, FirmwareKeepsHeader DEF Next
    <3>3. QED BY ONLY <2>1, <3>2, NextTypes
  <2>2. ASSUME TypeOK, conns <= 1 => FirstHeader, UNCHANGED vars
        PROVE  TypeOK' /\ (conns' <= 1 => FirstHeader')
    <3>1. UNCHANGED <<eventCounter, outbox, connected, openPending, conns, conn, up, fwConn, fwConns,
                     serverStarted, pollIntervalSetPending, pollInterval>>
      BY ONLY <2>2 DEF vars, clientVars, roundVars, portVars, tcpVars, linkVars, pollVars
    <3>2. FirstHeader => FirstHeader'
      BY ONLY <3>1 DEF FirstHeader, FirstIsOpen, OpenIsNext, IntervalIsMeant
    <3>3. QED BY ONLY <2>2, <3>1, <3>2, StutterTypes
  <2>3. QED BY <2>1, <2>2
<1>3. Inv => (conns <= 1 => IntervalIsMeant)
  BY DEF FirstHeader
<1>4. QED BY <1>1, <1>2, <1>3, PTL DEF WarmSpec
=============================================================================
