-------------------------- MODULE BridgeFlowProofs --------------------------
(***************************************************************************)
(* Theorems about Bridge, for all bounds and sizes, on the first TCP       *)
(* connection and with a reset at every local connection: that the device  *)
(* gets what its client wrote, whole; that flow control keeps the firmware *)
(* from dropping any of it and confirms only what was handled; and that a  *)
(* client hears its device from the first byte on without a gap.  They     *)
(* rest on the types and the fence of BridgeProofs.                        *)
(***************************************************************************)
EXTENDS BridgeProofs
-----------------------------------------------------------------------------
(* Flow control: first the sum of the unconfirmed data.                    *)

\* What is unconfirmed is the rest of what was read, though the code adds it up
\* package by package: were it wrong, there would be a first package from which
\* on it is (RemoteBufferTracker.cpp:31-33).
LEMMA OutstandingIsRest ==
  ASSUME NEW t \in Trackers, NEW m \in Nat, NEW pos \in Ends(t.sent, m)
  PROVE  Outstanding(t) = m - pos[0]
<1>1. PICK sent : sent = t.sent
  OBVIOUS
<1>2. PICK len \in Nat : len = Len(sent)
  BY ONLY <1>1, t \in Trackers, LenProperties DEF Trackers
<1>3. /\ pos \in [0 .. len -> Nat] /\ pos[len] = m
      /\ \A i \in 1 .. len : pos[i] = pos[i - 1] + sent[i].size
  BY ONLY <1>1, <1>2, pos \in Ends(t.sent, m) DEF Ends
<1>4. PICK size : size = [i \in 1 .. len |-> sent[i].size]
  OBVIOUS
<1>5. \A i \in 1 .. len : size[i] \in Nat /\ pos[i] = pos[i - 1] + size[i]
  <2>1. sent \in Seq([counter : 1 .. MaxTicks, size : 1 .. PayloadSize])
    BY ONLY <1>1, t \in Trackers DEF Trackers
  <2>2. \A i \in 1 .. len : sent[i] \in [counter : 1 .. MaxTicks, size : 1 .. PayloadSize]
    BY ONLY <1>2, <2>1, ElementOfSeq
  <2>3. \A i \in 1 .. len : size[i] = sent[i].size
    BY ONLY <1>4
  <2>4. \A i \in 1 .. len : sent[i].size \in 1 .. PayloadSize
    BY ONLY <2>2
  <2>5. \A i \in 1 .. len : size[i] \in Nat
    BY ONLY <2>3, <2>4, Bounds
  <2>6. QED BY ONLY <1>3, <2>3, <2>5
<1> DEFINE Sum(f) == f = [i \in 0 .. len |-> IF i = 0 THEN 0 ELSE f[i - 1] + sent[i].size]
<1>6. Sum([i \in 0 .. len |-> pos[i] - pos[0]])
  <2>1. PICK g : g = [i \in 0 .. len |-> pos[i] - pos[0]]
    OBVIOUS
  <2>2. \A i \in 0 .. len : g[i] = IF i = 0 THEN 0 ELSE g[i - 1] + sent[i].size
    BY ONLY <1>3, <1>4, <1>5, <2>1, len \in Nat, SMTT(30)
  <2>3. Sum(g)
    BY ONLY <2>1, <2>2
  <2>4. QED BY ONLY <2>1, <2>3
<1>7. PICK f : f = CHOOSE g : Sum(g)
  OBVIOUS
<1>8. Sum(f)
  BY ONLY <1>6, <1>7
<1>9. Outstanding(t) = f[len]
  BY ONLY <1>1, <1>2, <1>7, Zenon DEF Outstanding
<1>10. \A i \in 0 .. len : f[i] = IF i = 0 THEN 0 ELSE f[i - 1] + size[i]
  BY ONLY <1>4, <1>8
<1>11. \A i \in 0 .. len : f[i] = pos[i] - pos[0]
  <2> DEFINE Wrong == {i \in 0 .. len : f[i] # pos[i] - pos[0]}
  <2>1. SUFFICES ASSUME Wrong # {} PROVE FALSE
    OBVIOUS
  <2>2. PICK least \in Wrong : \A i \in Wrong : least <= i
    BY ONLY <2>1, Wrong \subseteq Nat, MinIsElement
  <2>3. least # 0
    BY ONLY <1>3, <1>10, <2>2
  <2>4. least - 1 \in 0 .. len /\ least \in 1 .. len /\ ~ (least - 1 \in Wrong)
    BY ONLY <2>2, <2>3, len \in Nat
  <2>5. f[least - 1] = pos[least - 1] - pos[0]
    BY ONLY <2>4
  <2>6. f[least] = f[least - 1] + size[least]
    BY ONLY <1>10, <2>3, <2>4
  <2>7. pos[least] = pos[least - 1] + size[least] /\ pos[least] \in Nat /\ pos[least - 1] \in Nat
        /\ pos[0] \in Nat /\ size[least] \in Nat
    BY ONLY <1>3, <1>5, <2>4
  <2>8. QED BY ONLY <2>2, <2>5, <2>6, <2>7
<1>12. QED BY ONLY <1>3, <1>9, <1>11
-----------------------------------------------------------------------------
(* The stream of packages to the firmware.                                 *)

LEMMA PackageFields ==
  ASSUME NEW p \in Packages
  PROVE  /\ p.from \in Nat /\ p.header \in Nat /\ p.request \in Requests
         /\ PayloadOf(p) \in Seq(Bytes) /\ Len(PayloadOf(p)) \in Nat
         /\ IsData(p) => PayloadOf(p) = p.request.data
         /\ ~ IsData(p) => PayloadOf(p) = << >> /\ Len(PayloadOf(p)) = 0
         /\ p.request.type \in {"NoCommand", "Open", "Reset", "Data"}
<1>1. p.from \in Nat /\ p.header \in Nat /\ p.request \in Requests
  BY Bounds DEF Packages, Counters
<1>2. p.request.type \in {"NoCommand", "Open", "Reset", "Data"}
  BY ONLY <1>1 DEF Requests
<1>3. IsData(p) => p.request.data \in Seq(Bytes)
  BY ONLY <1>1 DEF IsData, Requests
<1>4. << >> \in Seq(Bytes) /\ Len(<< >>) = 0
  OBVIOUS
<1>5. /\ PayloadOf(p) \in Seq(Bytes)
      /\ IsData(p) => PayloadOf(p) = p.request.data
      /\ ~ IsData(p) => PayloadOf(p) = << >> /\ Len(PayloadOf(p)) = 0
  BY ONLY <1>3, <1>4 DEF PayloadOf, IsData
<1>6. Len(PayloadOf(p)) \in Nat
  BY ONLY <1>5, LenProperties
<1>7. QED BY ONLY <1>1, <1>2, <1>5, <1>6

LEMMA AfterType ==
  ASSUME NEW m \in Nat \X Nat, NEW p \in Packages
  PROVE  After(m, p) \in Nat \X Nat
<1>1. p.from \in Nat /\ Len(PayloadOf(p)) \in Nat
  BY ONLY p \in Packages, PackageFields
<1>2. QED BY ONLY <1>1, m \in Nat \X Nat DEF After

LEMMA MarksOfNone ==
  ASSUME NEW start \in Nat \X Nat
  PROVE  \E at \in Marks(<< >>, start) : at[0] = start
<1>1. PICK at : at = [i \in 0 .. 0 |-> start]
  OBVIOUS
<1>2. at \in Marks(<< >>, start) /\ at[0] = start
  BY ONLY <1>1, start \in Nat \X Nat DEF Marks
<1>3. QED BY ONLY <1>2

LEMMA MarksGrow ==
  ASSUME NEW s \in Seq(Packages), NEW q \in Packages, NEW start, NEW at \in Marks(s, start),
         Fits(at[Len(s)], q)
  PROVE  \E to \in Marks(Append(s, q), start) :
           to[Len(Append(s, q))] = After(at[Len(s)], q)
<1>1. PICK len \in Nat : len = Len(s)
  BY ONLY s \in Seq(Packages), LenProperties
<1>2. PICK t : t = Append(s, q)
  OBVIOUS
<1>3. Len(t) = len + 1 /\ t[len + 1] = q /\ \A i \in 1 .. len : t[i] = s[i]
  BY ONLY <1>1, <1>2, s \in Seq(Packages), q \in Packages, AppendProperties
<1>4. /\ at \in [0 .. len -> Nat \X Nat] /\ at[0] = start
      /\ \A i \in 1 .. len : at[i] = After(at[i - 1], s[i]) /\ Fits(at[i - 1], s[i])
  BY ONLY <1>1, at \in Marks(s, start) DEF Marks
<1>5. PICK last : last = After(at[len], q)
  OBVIOUS
<1>6. last \in Nat \X Nat
  BY ONLY <1>4, <1>5, len \in Nat, q \in Packages, AfterType
<1>7. PICK to : to = [i \in 0 .. len + 1 |-> IF i = len + 1 THEN last ELSE at[i]]
  OBVIOUS
<1>8. to \in [0 .. len + 1 -> Nat \X Nat] /\ to[0] = start /\ to[len + 1] = last
  BY ONLY <1>4, <1>6, <1>7, len \in Nat
<1>9. ASSUME NEW i \in 1 .. len + 1
      PROVE  to[i] = After(to[i - 1], t[i]) /\ Fits(to[i - 1], t[i])
  <2>1. to[i - 1] = at[i - 1]
    BY ONLY <1>7, i \in 1 .. len + 1, len \in Nat
  <2>2. CASE i = len + 1
    <3>1. i - 1 = len /\ t[i] = q /\ to[i] = last
      BY ONLY <1>3, <1>8, <2>2, len \in Nat
    <3>2. QED BY ONLY <1>1, <1>5, <2>1, <3>1, Fits(at[Len(s)], q)
  <2>3. CASE i # len + 1
    <3>1. i \in 1 .. len /\ to[i] = at[i]
      BY ONLY <1>7, <2>3, i \in 1 .. len + 1, len \in Nat
    <3>2. QED BY ONLY <1>3, <1>4, <2>1, <3>1
  <2>4. QED BY ONLY <2>2, <2>3
<1>10. to \in Marks(t, start) /\ to[Len(t)] = last
  BY ONLY <1>3, <1>8, <1>9 DEF Marks
<1>11. QED BY ONLY <1>1, <1>2, <1>5, <1>10

LEMMA MarksOfTail ==
  ASSUME NEW s \in Seq(Packages), s # << >>, NEW start, NEW at \in Marks(s, start)
  PROVE  /\ at[1] = After(start, Head(s)) /\ Fits(start, Head(s))
         /\ \E to \in Marks(Tail(s), at[1]) : to[Len(Tail(s))] = at[Len(s)]
<1>1. PICK len \in Nat : len = Len(s)
  BY ONLY s \in Seq(Packages), LenProperties
<1>2. PICK t : t = Tail(s)
  OBVIOUS
<1>3. len >= 1 /\ Head(s) = s[1] /\ Len(t) = len - 1 /\ \A i \in 1 .. len - 1 : t[i] = s[i + 1]
  BY ONLY <1>1, <1>2, s \in Seq(Packages), s # << >>, HeadTailProperties, EmptySeq
<1>4. /\ at \in [0 .. len -> Nat \X Nat] /\ at[0] = start
      /\ \A i \in 1 .. len : at[i] = After(at[i - 1], s[i]) /\ Fits(at[i - 1], s[i])
  BY ONLY <1>1, at \in Marks(s, start) DEF Marks
<1>5. at[1] = After(start, Head(s)) /\ Fits(start, Head(s))
  <2>1. 1 \in 1 .. len /\ 1 - 1 = 0
    BY ONLY <1>3, len \in Nat
  <2>2. at[1] = After(at[1 - 1], s[1]) /\ Fits(at[1 - 1], s[1])
    BY ONLY <1>4, <2>1
  <2>3. QED BY ONLY <1>3, <1>4, <2>1, <2>2
<1>6. PICK to : to = [i \in 0 .. len - 1 |-> at[i + 1]]
  OBVIOUS
<1>7. to \in [0 .. len - 1 -> Nat \X Nat] /\ to[0] = at[1] /\ to[len - 1] = at[len]
  BY ONLY <1>3, <1>4, <1>6, len \in Nat
<1>8. ASSUME NEW i \in 1 .. len - 1
      PROVE  to[i] = After(to[i - 1], t[i]) /\ Fits(to[i - 1], t[i])
  <2>1. to[i] = at[i + 1] /\ to[i - 1] = at[i] /\ t[i] = s[i + 1] /\ i + 1 \in 1 .. len /\ (i + 1) - 1 = i
    BY ONLY <1>3, <1>6, i \in 1 .. len - 1, len \in Nat
  <2>2. at[i + 1] = After(at[(i + 1) - 1], s[i + 1]) /\ Fits(at[(i + 1) - 1], s[i + 1])
    BY ONLY <1>4, <2>1
  <2>3. QED BY ONLY <2>1, <2>2
<1>9. to \in Marks(t, at[1]) /\ to[Len(t)] = at[len]
  BY ONLY <1>3, <1>7, <1>8 DEF Marks
<1>10. QED BY ONLY <1>1, <1>2, <1>5, <1>9

\* t is the front of s.
FrontOf(t, s) == Len(t) <= Len(s) /\ \A i \in 1 .. Len(t) : t[i] = s[i]

LEMMA MarksOfFront ==
  ASSUME NEW s \in Seq(Packages), NEW t \in Seq(Packages), FrontOf(t, s),
         NEW start, NEW at \in Marks(s, start)
  PROVE  \E to \in Marks(t, start) : TRUE
<1>1. PICK len \in Nat, n \in Nat : len = Len(s) /\ n = Len(t)
  BY ONLY s \in Seq(Packages), t \in Seq(Packages), LenProperties
<1>2. n <= len /\ \A i \in 1 .. n : t[i] = s[i]
  BY ONLY <1>1, FrontOf(t, s) DEF FrontOf
<1>3. /\ at \in [0 .. len -> Nat \X Nat] /\ at[0] = start
      /\ \A i \in 1 .. len : at[i] = After(at[i - 1], s[i]) /\ Fits(at[i - 1], s[i])
  BY ONLY <1>1, at \in Marks(s, start) DEF Marks
<1>4. PICK to : to = [i \in 0 .. n |-> at[i]]
  OBVIOUS
<1>5. to \in [0 .. n -> Nat \X Nat] /\ to[0] = start
  BY ONLY <1>2, <1>3, <1>4, len \in Nat, n \in Nat
<1>6. ASSUME NEW i \in 1 .. n
      PROVE  to[i] = After(to[i - 1], t[i]) /\ Fits(to[i - 1], t[i])
  <2>1. to[i] = at[i] /\ to[i - 1] = at[i - 1] /\ t[i] = s[i] /\ i \in 1 .. len
    BY ONLY <1>2, <1>4, i \in 1 .. n, len \in Nat, n \in Nat
  <2>2. QED BY ONLY <1>3, <2>1
<1>7. to \in Marks(t, start)
  BY ONLY <1>1, <1>5, <1>6 DEF Marks
<1>8. QED BY ONLY <1>7

LEMMA NumbersGrow ==
  ASSUME NEW s \in Seq(Packages), NEW q \in Packages, NEW c \in Nat, NEW e \in Nat, NEW fresh,
         Numbered(s, c, e, fresh), c <= e,
         IF IsOpen(q) THEN s = << >> /\ fresh ELSE q.header = e + 1
  PROVE  Numbered(s, c, e + 1, fresh) /\ Numbered(Append(s, q), c, e + 1, fresh)
<1>1. PICK len \in Nat : len = Len(s)
  BY ONLY s \in Seq(Packages), LenProperties
<1>2. PICK t : t = Append(s, q)
  OBVIOUS
<1>3. Len(t) = len + 1 /\ t[len + 1] = q /\ \A i \in 1 .. len : t[i] = s[i]
  BY ONLY <1>1, <1>2, s \in Seq(Packages), q \in Packages, AppendProperties
<1>4. IsOpen(q) => len = 0
  BY ONLY <1>1, IF IsOpen(q) THEN s = << >> /\ fresh ELSE q.header = e + 1
<1>5. \A i \in 1 .. len : s[i].header \in Nat
  BY ONLY <1>1, s \in Seq(Packages), ElementOfSeq, PackageFields
<1>6. /\ \A i \in 1 .. len : IF IsOpen(s[i]) THEN i = 1 /\ fresh
                             ELSE c < s[i].header /\ s[i].header <= e
      /\ \A i, j \in 1 .. len : i < j /\ ~ IsOpen(s[i]) => s[i].header < s[j].header
  BY ONLY <1>1, Numbered(s, c, e, fresh) DEF Numbered
<1>7. \A i \in 1 .. len : IF IsOpen(s[i]) THEN i = 1 /\ fresh
                          ELSE c < s[i].header /\ s[i].header <= e + 1
  BY ONLY <1>5, <1>6, e \in Nat
<1>8. Numbered(s, c, e + 1, fresh)
  BY ONLY <1>1, <1>6, <1>7 DEF Numbered
<1>9. \A i \in 1 .. len + 1 : IF IsOpen(t[i]) THEN i = 1 /\ fresh
                              ELSE c < t[i].header /\ t[i].header <= e + 1
  <2>1. TAKE i \in 1 .. len + 1
  <2>2. CASE i = len + 1
    BY ONLY <1>3, <1>4, <2>2, c \in Nat, e \in Nat, c <= e,
       IF IsOpen(q) THEN s = << >> /\ fresh ELSE q.header = e + 1
  <2>3. CASE i # len + 1
    BY ONLY <1>3, <1>7, <2>3, i \in 1 .. len + 1, len \in Nat
  <2>4. QED BY ONLY <2>2, <2>3
<1>10. \A i, j \in 1 .. len + 1 : i < j /\ ~ IsOpen(t[i]) => t[i].header < t[j].header
  <2>1. SUFFICES ASSUME NEW i \in 1 .. len + 1, NEW j \in 1 .. len + 1, i < j, ~ IsOpen(t[i])
                 PROVE  t[i].header < t[j].header
    OBVIOUS
  <2>2. i \in 1 .. len /\ t[i] = s[i]
    BY ONLY <1>3, <2>1, len \in Nat
  <2>3. CASE j = len + 1
    <3>1. t[j] = q /\ ~ IsOpen(q)
      BY ONLY <1>3, <1>4, <2>2, <2>3
    <3>2. q.header = e + 1 /\ s[i].header <= e /\ s[i].header \in Nat
      BY ONLY <1>5, <1>6, <2>1, <2>2, <3>1, IF IsOpen(q) THEN s = << >> /\ fresh ELSE q.header = e + 1
    <3>3. QED BY ONLY <2>2, <3>1, <3>2, e \in Nat
  <2>4. CASE j # len + 1
    <3>1. j \in 1 .. len /\ t[j] = s[j]
      BY ONLY <1>3, <2>1, <2>4, len \in Nat
    <3>2. QED BY ONLY <1>6, <2>1, <2>2, <3>1
  <2>5. QED BY ONLY <2>3, <2>4
<1>11. Numbered(t, c, e + 1, fresh)
  BY ONLY <1>3, <1>9, <1>10 DEF Numbered
<1>12. QED BY ONLY <1>2, <1>8, <1>11

LEMMA NumbersOfTail ==
  ASSUME NEW s \in Seq(Packages), s # << >>, NEW c \in Nat, NEW e \in Nat, NEW fresh, NEW fresh2,
         Numbered(s, c, e, fresh), c <= e
  PROVE  LET c2 == IF IsOpen(Head(s)) THEN c ELSE Head(s).header
         IN  /\ Numbered(Tail(s), c2, e, fresh2) /\ c2 \in Nat /\ c <= c2 /\ c2 <= e
             /\ ~ IsOpen(Head(s)) => c < c2
             /\ \A i \in 1 .. Len(Tail(s)) : ~ IsOpen(Tail(s)[i]) /\ c2 < Tail(s)[i].header
<1>1. PICK len \in Nat : len = Len(s)
  BY ONLY s \in Seq(Packages), LenProperties
<1>2. PICK t, h : t = Tail(s) /\ h = Head(s)
  OBVIOUS
<1>3. len >= 1 /\ h = s[1] /\ Len(t) = len - 1 /\ \A i \in 1 .. len - 1 : t[i] = s[i + 1]
  BY ONLY <1>1, <1>2, s \in Seq(Packages), s # << >>, HeadTailProperties, EmptySeq
<1>4. /\ \A i \in 1 .. len : IF IsOpen(s[i]) THEN i = 1 /\ fresh
                             ELSE c < s[i].header /\ s[i].header <= e
      /\ \A i, j \in 1 .. len : i < j /\ ~ IsOpen(s[i]) => s[i].header < s[j].header
  BY ONLY <1>1, Numbered(s, c, e, fresh) DEF Numbered
<1>5. PICK c2 : c2 = IF IsOpen(h) THEN c ELSE h.header
  OBVIOUS
<1>6. 1 \in 1 .. len /\ h.header \in Nat
  <2>1. 1 \in 1 .. len
    BY ONLY <1>3, len \in Nat
  <2>2. h \in Packages
    BY ONLY <1>1, <1>3, <2>1, s \in Seq(Packages), ElementOfSeq
  <2>3. QED BY ONLY <2>1, <2>2, PackageFields
<1>7. c2 \in Nat /\ c <= c2 /\ c2 <= e /\ (~ IsOpen(h) => c < c2)
  <2>1. ~ IsOpen(h) => c < h.header /\ h.header <= e
    BY ONLY <1>3, <1>4, <1>6
  <2>2. CASE IsOpen(h)
    BY ONLY <1>5, <2>2, c \in Nat, c <= e
  <2>3. CASE ~ IsOpen(h)
    BY ONLY <1>5, <1>6, <2>1, <2>3, c \in Nat
  <2>4. QED BY ONLY <2>2, <2>3
<1>8. ASSUME NEW i \in 1 .. len - 1
      PROVE  ~ IsOpen(t[i]) /\ c2 < t[i].header /\ t[i].header <= e
  <2>1. i + 1 \in 1 .. len /\ 1 < i + 1 /\ i + 1 # 1 /\ t[i] = s[i + 1]
    BY ONLY <1>3, i \in 1 .. len - 1, len \in Nat
  <2>2. ~ IsOpen(s[i + 1]) /\ c < s[i + 1].header /\ s[i + 1].header <= e
    BY ONLY <1>4, <2>1
  <2>3. ~ IsOpen(s[1]) => s[1].header < s[i + 1].header
    BY ONLY <1>4, <1>6, <2>1
  <2>4. QED BY ONLY <1>3, <1>5, <2>1, <2>2, <2>3
<1>9. \A i, j \in 1 .. len - 1 : i < j => t[i].header < t[j].header
  <2>1. SUFFICES ASSUME NEW i \in 1 .. len - 1, NEW j \in 1 .. len - 1, i < j
                 PROVE  t[i].header < t[j].header
    OBVIOUS
  <2>2. /\ i + 1 \in 1 .. len /\ j + 1 \in 1 .. len /\ i + 1 < j + 1
        /\ t[i] = s[i + 1] /\ t[j] = s[j + 1]
    BY ONLY <1>3, <2>1, len \in Nat
  <2>3. ~ IsOpen(s[i + 1])
    BY ONLY <1>8, <2>2
  <2>4. QED BY ONLY <1>4, <2>2, <2>3
<1>10. Numbered(t, c2, e, fresh2)
  BY ONLY <1>3, <1>8, <1>9 DEF Numbered
<1>11. \A i \in 1 .. Len(t) : ~ IsOpen(t[i]) /\ c2 < t[i].header
  BY ONLY <1>3, <1>8
<1>12. QED BY ONLY <1>2, <1>5, <1>7, <1>10, <1>11

LEMMA NumbersOfFront ==
  ASSUME NEW s \in Seq(Packages), NEW t \in Seq(Packages), FrontOf(t, s),
         NEW c, NEW e, NEW fresh, Numbered(s, c, e, fresh)
  PROVE  Numbered(t, c, e, fresh)
<1>1. PICK len \in Nat, n \in Nat : len = Len(s) /\ n = Len(t)
  BY ONLY s \in Seq(Packages), t \in Seq(Packages), LenProperties
<1>2. n <= len /\ \A i \in 1 .. n : t[i] = s[i]
  BY ONLY <1>1, FrontOf(t, s) DEF FrontOf
<1>3. \A i \in 1 .. n : i \in 1 .. len
  BY ONLY <1>2, len \in Nat, n \in Nat
<1>4. QED BY ONLY <1>1, <1>2, <1>3, Numbered(s, c, e, fresh) DEF Numbered
-----------------------------------------------------------------------------
(* The window of bytes that may still come to the upper half of the ring.  *)

LEMMA HalfType == Half \in Nat /\ Half <= RingCapacity
BY Bounds DEF Half

LEMMA ContentsType ==
  ASSUME NEW p \in Packages
  PROVE  Contents(p) \subseteq Bytes
<1>1. PICK data : data = PayloadOf(p)
  OBVIOUS
<1>2. data \in Seq(Bytes)
  BY ONLY <1>1, p \in Packages, PackageFields
<1>3. \A i \in 1 .. Len(data) : data[i] \in Bytes
  BY ONLY <1>2, ElementOfSeq
<1>4. QED BY ONLY <1>1, <1>3 DEF Contents

LEMMA WindowGrows ==
  ASSUME NEW ring, NEW s \in Seq(Packages), NEW q \in Packages
  PROVE  Window(ring, Append(s, q)) = Window(ring, s) \cup Contents(q)
<1>1. PICK len \in Nat : len = Len(s)
  BY ONLY s \in Seq(Packages), LenProperties
<1>2. PICK t : t = Append(s, q)
  OBVIOUS
<1>3. Len(t) = len + 1 /\ t[len + 1] = q /\ \A i \in 1 .. len : t[i] = s[i]
  BY ONLY <1>1, <1>2, s \in Seq(Packages), q \in Packages, AppendProperties
<1>4. ASSUME NEW b \in Bytes
      PROVE  (\E i \in 1 .. len + 1 : b \in Contents(t[i]))
               <=> (\E i \in 1 .. len : b \in Contents(s[i])) \/ b \in Contents(q)
  <2>1. \A i \in 1 .. len + 1 : i = len + 1 \/ i \in 1 .. len
    BY ONLY len \in Nat
  <2>2. len + 1 \in 1 .. len + 1 /\ \A i \in 1 .. len : i \in 1 .. len + 1
    BY ONLY len \in Nat
  <2>3. QED BY ONLY <1>3, <2>1, <2>2
<1>5. Contents(q) \subseteq Bytes
  BY ONLY q \in Packages, ContentsType
<1>6. QED BY ONLY <1>1, <1>2, <1>3, <1>4, <1>5 DEF Window

\* The stream loses packages.
LEMMA WindowOfPart ==
  ASSUME NEW ring, NEW s, NEW t,
         \A i \in 1 .. Len(t) : \E j \in 1 .. Len(s) : t[i] = s[j]
  PROVE  Window(ring, t) \subseteq Window(ring, s)
BY DEF Window

\* The ring loses bytes at its front.
LEMMA WindowOfRest ==
  ASSUME NEW ring \in Seq(Bytes), NEW s, NEW n \in 0 .. Len(ring)
  PROVE  Window(SubSeq(ring, n + 1, Len(ring)), s) \subseteq Window(ring, s)
<1>1. PICK len \in Nat : len = Len(ring)
  BY ONLY ring \in Seq(Bytes), LenProperties
<1>2. PICK rest : rest = SubSeq(ring, n + 1, Len(ring))
  OBVIOUS
<1>3. n \in Nat /\ n <= len
  BY ONLY <1>1, n \in 0 .. Len(ring)
<1>4. Len(rest) = len - n /\ \A i \in 1 .. len - n : rest[i] = ring[n + i]
  BY ONLY <1>1, <1>2, <1>3, ring \in Seq(Bytes), SuffixType
<1>5. \A i \in Half + 1 .. len - n : n + i \in Half + 1 .. len /\ i \in 1 .. len - n
  BY ONLY <1>3, len \in Nat, HalfType
<1>6. QED BY ONLY <1>1, <1>2, <1>4, <1>5 DEF Window

\* The data of the first package of the stream goes to the ring.
LEMMA WindowOfHandled ==
  ASSUME NEW ring \in Seq(Bytes), NEW s \in Seq(Packages), s # << >>
  PROVE  Window(ring \o PayloadOf(Head(s)), Tail(s)) \subseteq Window(ring, s)
<1>1. PICK len \in Nat : len = Len(s)
  BY ONLY s \in Seq(Packages), LenProperties
<1>2. PICK t, h : t = Tail(s) /\ h = Head(s)
  OBVIOUS
<1>3. len >= 1 /\ h = s[1] /\ Len(t) = len - 1 /\ \A i \in 1 .. len - 1 : t[i] = s[i + 1]
  BY ONLY <1>1, <1>2, s \in Seq(Packages), s # << >>, HeadTailProperties, EmptySeq
<1>4. 1 \in 1 .. len /\ h \in Packages
  BY ONLY <1>1, <1>3, s \in Seq(Packages), ElementOfSeq
<1>5. PICK data : data = PayloadOf(h)
  OBVIOUS
<1>6. data \in Seq(Bytes)
  BY ONLY <1>4, <1>5, PackageFields
<1>7. PICK used \in Nat, size \in Nat : used = Len(ring) /\ size = Len(data)
  BY ONLY <1>6, ring \in Seq(Bytes), LenProperties
<1>8. PICK both : both = ring \o data
  OBVIOUS
<1>9. /\ Len(both) = used + size
      /\ \A i \in 1 .. used + size : both[i] = IF i <= used THEN ring[i] ELSE data[i - used]
  BY ONLY <1>6, <1>7, <1>8, ring \in Seq(Bytes), ConcatProperties
<1>10. ASSUME NEW i \in Half + 1 .. used + size
       PROVE  both[i] \in Window(ring, s)
  <2>1. i \in 1 .. used + size
    BY ONLY i \in Half + 1 .. used + size, HalfType, used \in Nat, size \in Nat
  <2>2. CASE i <= used
    <3>1. i \in Half + 1 .. used /\ both[i] = ring[i]
      BY ONLY <1>9, <2>1, <2>2, i \in Half + 1 .. used + size, used \in Nat
    <3>2. QED BY ONLY <1>7, <3>1 DEF Window
  <2>3. CASE ~ (i <= used)
    <3>1. i - used \in 1 .. size /\ both[i] = data[i - used]
      BY ONLY <1>9, <2>1, <2>3, used \in Nat, size \in Nat
    <3>2. both[i] \in Contents(h)
      BY ONLY <1>5, <1>7, <3>1 DEF Contents
    <3>3. both[i] \in Bytes
      BY ONLY <1>4, <3>2, ContentsType
    <3>4. QED BY ONLY <1>1, <1>3, <1>4, <3>2, <3>3 DEF Window
  <2>4. QED BY ONLY <2>2, <2>3
<1>11. ASSUME NEW b \in Bytes, NEW i \in 1 .. len - 1, b \in Contents(t[i])
       PROVE  b \in Window(ring, s)
  <2>1. i + 1 \in 1 .. len /\ t[i] = s[i + 1]
    BY ONLY <1>3, i \in 1 .. len - 1, len \in Nat
  <2>2. QED BY ONLY <1>1, <1>11, <2>1 DEF Window
<1>12. ASSUME NEW b \in Window(both, t)
       PROVE  b \in Window(ring, s)
  <2>1. \/ \E i \in Half + 1 .. used + size : b = both[i]
        \/ b \in Bytes /\ \E i \in 1 .. len - 1 : b \in Contents(t[i])
    BY ONLY <1>3, <1>9, <1>12 DEF Window
  <2>2. QED BY ONLY <1>10, <1>11, <2>1
<1>13. QED BY ONLY <1>2, <1>5, <1>8, <1>12

\* The bytes of client k after the first m.
Run(k, m, n) == {<<k, m + i>> : i \in 1 .. n}

\* What w holds of client k lies after the byte numbered first, up to m.
Within(w, k, first, m) == \A x \in w : x[1] = k => first < x[2] /\ x[2] <= m

\* What a round reads keeps the window narrow, when the limit counts from a byte
\* of the local client that is before the window.
LEMMA NarrowGrows ==
  ASSUME NEW w \in SUBSET (Nat \X Nat), NEW w2, Narrow(w), NEW k \in Nat, NEW m \in Nat, NEW n \in Nat,
         NEW first \in Nat, first <= m, m + n <= first + BufferLimit,
         Within(w, k, first, m), w2 \subseteq w \cup Run(k, m, n)
  PROVE  Narrow(w2)
<1> DEFINE new == {<<k, m + i>> : i \in 1 .. n}
<1>1. \A x \in w : x[1] = k => first < x[2] /\ x[2] <= m
  BY ONLY Within(w, k, first, m) DEF Within
<1>2. w2 \subseteq w \cup new
  BY ONLY w2 \subseteq w \cup Run(k, m, n) DEF Run
<1>3. SUFFICES ASSUME NEW x \in w \cup new, NEW y \in w \cup new, x[1] = y[1]
               PROVE  y[2] < x[2] + BufferLimit
  BY ONLY <1>3, <1>2 DEF Narrow
<1>4. BufferLimit \in Nat
  BY BufferLimitAssumption
<1>5. ASSUME NEW z \in new
      PROVE  /\ z[1] = k /\ z[2] \in Nat /\ m < z[2] /\ z[2] <= m + n
  BY ONLY <1>5, k \in Nat, m \in Nat, n \in Nat
<1>6. \A z \in w : z[1] \in Nat /\ z[2] \in Nat
  BY ONLY w \in SUBSET (Nat \X Nat)
<1>7. CASE x \in w /\ y \in w
  BY ONLY <1>3, <1>7, Narrow(w) DEF Narrow
<1>8. CASE x \in w /\ y \in new
  <2>1. first < x[2] /\ x[2] \in Nat
    BY ONLY <1>3, <1>5, <1>6, <1>8, <1>1
  <2>2. y[2] \in Nat /\ y[2] <= m + n
    BY ONLY <1>5, <1>8
  <2>3. QED BY ONLY <1>4, <2>1, <2>2, m \in Nat, n \in Nat, first \in Nat, m + n <= first + BufferLimit
<1>9. CASE x \in new /\ y \in w
  <2>1. y[2] <= m /\ y[2] \in Nat
    BY ONLY <1>3, <1>5, <1>6, <1>9, <1>1
  <2>2. x[2] \in Nat /\ m < x[2]
    BY ONLY <1>5, <1>9
  <2>3. QED BY ONLY <1>4, <2>1, <2>2, m \in Nat
<1>10. CASE x \in new /\ y \in new
  <2>1. x[2] \in Nat /\ y[2] \in Nat /\ m < x[2] /\ y[2] <= m + n
    BY ONLY <1>5, <1>10
  <2>2. QED BY ONLY <1>4, <2>1, m \in Nat, n \in Nat, first \in Nat, first <= m, m + n <= first + BufferLimit
<1>11. QED BY ONLY <1>3, <1>7, <1>8, <1>9, <1>10

\* The bytes of s are those of client g after its first o.
Follows(s, g, o) == \A i \in 1 .. Len(s) : s[i] = <<g, o + i>>

\* The first package of the stream finds room in the ring when its data follows
\* what the ring holds: else the window would reach over more than the limit.
LEMMA RoomInRing ==
  ASSUME BufferLimit + Half <= RingCapacity,
         NEW ring \in Seq(Bytes), Len(ring) <= RingCapacity,
         NEW s \in Seq(Packages), s # << >>, Narrow(Window(ring, s)),
         NEW g \in Nat, NEW o \in Nat, Follows(ring, g, o),
         NEW n, n = o + Len(ring), Follows(PayloadOf(Head(s)), g, n)
  PROVE  Len(ring) + Len(PayloadOf(Head(s))) <= RingCapacity
<1>1. PICK len \in Nat : len = Len(s)
  BY ONLY s \in Seq(Packages), LenProperties
<1>2. len >= 1 /\ Head(s) = s[1] /\ 1 \in 1 .. len
  BY ONLY <1>1, s \in Seq(Packages), s # << >>, HeadTailProperties, EmptySeq
<1>3. PICK h : h = Head(s)
  OBVIOUS
<1>4. h \in Packages
  BY ONLY <1>1, <1>2, <1>3, s \in Seq(Packages), ElementOfSeq
<1>5. PICK data, used, size : data = PayloadOf(h) /\ used = Len(ring) /\ size = Len(data)
  OBVIOUS
<1>6. used \in Nat /\ size \in Nat /\ used <= RingCapacity
  BY ONLY <1>4, <1>5, PackageFields, ring \in Seq(Bytes), LenProperties, Len(ring) <= RingCapacity
<1>7. BufferLimit \in Nat /\ RingCapacity \in Nat /\ Half \in Nat
  BY BufferLimitAssumption, Bounds, HalfType
<1>8. ASSUME NEW i \in Nat, Half < i, i <= used + size
      PROVE  <<g, o + i>> \in Window(ring, s)
  <2>1. CASE i <= used
    <3>1. i \in Half + 1 .. used /\ i \in 1 .. used
      BY ONLY <1>6, <1>7, <1>8, <2>1
    <3>2. ring[i] = <<g, o + i>>
      BY ONLY <1>5, <3>1, Follows(ring, g, o) DEF Follows
    <3>3. ring[i] \in Window(ring, s)
      BY ONLY <1>5, <3>1 DEF Window
    <3>4. QED BY ONLY <3>2, <3>3
  <2>2. CASE ~ (i <= used)
    <3>1. PICK j \in 1 .. size : j = i - used
      BY ONLY <1>6, <1>8, <2>2
    <3>2. data[j] = <<g, o + used + j>> /\ o + used + j = o + i
      <4>1. data[j] = <<g, n + j>>
        BY ONLY <1>3, <1>5, <3>1, Follows(PayloadOf(Head(s)), g, n) DEF Follows
      <4>2. n + j = o + used + j /\ o + used + j = o + i
        BY ONLY <1>5, <1>6, <1>8, <3>1, o \in Nat, n = o + Len(ring)
      <4>3. QED BY ONLY <4>1, <4>2
    <3>3. data[j] \in Contents(s[1])
      BY ONLY <1>2, <1>3, <1>5, <3>1 DEF Contents
    <3>4. data[j] \in Bytes
      BY ONLY <1>2, <1>3, <1>4, <3>3, ContentsType
    <3>5. data[j] \in Window(ring, s)
      BY ONLY <1>1, <1>2, <3>3, <3>4 DEF Window
    <3>6. QED BY ONLY <3>2, <3>5
  <2>3. QED BY ONLY <2>1, <2>2
<1>9. SUFFICES ASSUME used + size > RingCapacity PROVE FALSE
  BY ONLY <1>3, <1>5, <1>6, <1>7, <1>9
<1>10. CASE BufferLimit = 0
  <2>1. used + size \in Nat /\ Half < used + size
    BY ONLY <1>6, <1>7, <1>9, BufferLimit + Half <= RingCapacity
  <2>2. <<g, o + (used + size)>> \in Window(ring, s)
    BY ONLY <1>8, <2>1
  <2>3. o + (used + size) < o + (used + size) + BufferLimit
    BY ONLY <2>2, Narrow(Window(ring, s)) DEF Narrow
  <2>4. QED BY ONLY <1>6, <1>10, <2>3, o \in Nat
<1>11. CASE BufferLimit # 0
  <2>1. /\ Half + 1 \in Nat /\ Half < Half + 1 /\ Half + 1 <= used + size
        /\ used + size \in Nat /\ Half < used + size
    BY ONLY <1>6, <1>7, <1>9, <1>11, BufferLimit + Half <= RingCapacity
  <2>2. <<g, o + (Half + 1)>> \in Window(ring, s) /\ <<g, o + (used + size)>> \in Window(ring, s)
    BY ONLY <1>8, <2>1
  <2>3. o + (used + size) < o + (Half + 1) + BufferLimit
    BY ONLY <2>2, Narrow(Window(ring, s)) DEF Narrow
  <2>4. QED BY ONLY <1>6, <1>7, <1>9, <2>3, o \in Nat, BufferLimit + Half <= RingCapacity
<1>12. QED BY ONLY <1>10, <1>11
-----------------------------------------------------------------------------
(* The account of unconfirmed data.                                        *)

Sendings == Seq([counter : 1 .. MaxTicks, size : 1 .. PayloadSize])

LEMMA SentFields ==
  ASSUME NEW sent \in Sendings
  PROVE  /\ Len(sent) \in Nat
         /\ \A j \in 1 .. Len(sent) : sent[j].counter \in Nat \ {0} /\ sent[j].size \in Nat \ {0}
<1>1. sent \in Seq([counter : 1 .. MaxTicks, size : 1 .. PayloadSize])
  BY DEF Sendings
<1>2. \A j \in 1 .. Len(sent) : sent[j] \in [counter : 1 .. MaxTicks, size : 1 .. PayloadSize]
  BY ONLY <1>1, ElementOfSeq
<1>3. QED BY ONLY <1>1, <1>2, Bounds, LenProperties

\* A round that reads nothing of the local client.
LEMMA IdleKeepsAccount ==
  ASSUME NEW s \in Seq(Packages), NEW q \in Packages, ~ IsData(q),
         NEW sent \in Sendings, NEW m \in Nat, NEW pos \in Ends(sent, m),
         IsReset(q) => m = 0 /\ sent = << >>,
         NEW c \in Nat, NEW e \in Nat, NEW n \in Nat, NEW g, NEW k, NEW live,
         Account(s, c, e, n, g, k, sent, live, pos),
         NEW t, t = IF live THEN Append(s, q) ELSE s
  PROVE  Account(t, c, e + 1, n, g, k, sent, live, pos)
<1>1. PICK len \in Nat : len = Len(s)
  BY ONLY s \in Seq(Packages), LenProperties
<1>2. Booked(e + 1, sent)
  <2>1. Booked(e, sent)
    BY ONLY Account(s, c, e, n, g, k, sent, live, pos) DEF Account
  <2>2. \A j \in 1 .. Len(sent) : sent[j].counter \in Nat
    BY ONLY SentFields, sent \in Sendings
  <2>3. QED BY ONLY <2>1, <2>2, e \in Nat DEF Booked
<1>3. CASE ~ live
  BY ONLY <1>2, <1>3, t = IF live THEN Append(s, q) ELSE s, Account(s, c, e, n, g, k, sent, live, pos)
     DEF Account
<1>4. CASE live
  <2>1. Len(t) = len + 1 /\ t[len + 1] = q /\ \A i \in 1 .. len : t[i] = s[i]
    BY ONLY <1>1, <1>4, t = IF live THEN Append(s, q) ELSE s, s \in Seq(Packages), q \in Packages,
       AppendProperties
  <2>2. \A i \in 1 .. len + 1 : i = len + 1 \/ i \in 1 .. len
    BY ONLY len \in Nat
  <2>3. \A i \in 1 .. len : i \in 1 .. len + 1
    BY ONLY len \in Nat
  <2>4. IsReset(q) => pos[0] = 0 /\ Len(sent) = 0
    <3>1. pos[Len(sent)] = m
      BY ONLY pos \in Ends(sent, m) DEF Ends
    <3>2. QED BY ONLY <3>1, IsReset(q) => m = 0 /\ sent = << >>
  <2>5. Listed(t, k, sent, pos)
    <3>1. Listed(s, k, sent, pos)
      BY ONLY Account(s, c, e, n, g, k, sent, live, pos) DEF Account
    <3>2. QED BY ONLY <1>1, <2>1, <2>2, <2>4, <3>1, ~ IsData(q) DEF Listed
  <2>6. UnderWay(t, c, k, sent, live, pos)
    <3>1. UnderWay(s, c, k, sent, live, pos)
      BY ONLY Account(s, c, e, n, g, k, sent, live, pos) DEF Account
    <3>2. QED BY ONLY <1>1, <1>4, <2>1, <2>3, <3>1 DEF UnderWay
  <2>7. QED BY ONLY <1>2, <2>5, <2>6, Account(s, c, e, n, g, k, sent, live, pos) DEF Account
<1>5. QED BY ONLY <1>3, <1>4

\* The package at the head of the stream is handled: c2 is its counter.
LEMMA HandledKeepsAccount ==
  ASSUME NEW s \in Seq(Packages), s # << >>,
         NEW sent \in Sendings, NEW m \in Nat, NEW pos \in Ends(sent, m),
         NEW c \in Nat, NEW e \in Nat, NEW n \in Nat, NEW g \in Nat, NEW k \in Nat, NEW live, NEW fresh,
         Account(s, c, e, n, g, k, sent, live, pos), Numbered(s, c, e, fresh), c <= e,
         Fits(<<g, n>>, Head(s)),
         IsReset(Head(s)) => g <= Head(s).from /\ Head(s).from <= k,
         NEW c2, c2 = (IF IsOpen(Head(s)) THEN c ELSE Head(s).header),
         NEW g2, NEW n2, <<g2, n2>> = After(<<g, n>>, Head(s))
  PROVE  Account(Tail(s), c2, e, n2, g2, k, sent, live, pos)
<1>1. PICK len \in Nat : len = Len(s)
  BY ONLY s \in Seq(Packages), LenProperties
<1>2. PICK t, h : t = Tail(s) /\ h = Head(s)
  OBVIOUS
<1>3. len >= 1 /\ h = s[1] /\ Len(t) = len - 1 /\ \A i \in 1 .. len - 1 : t[i] = s[i + 1]
  BY ONLY <1>1, <1>2, s \in Seq(Packages), s # << >>, HeadTailProperties, EmptySeq
<1>4. 1 \in 1 .. len /\ h \in Packages /\ h.header \in Nat /\ h.from \in Nat /\ Len(PayloadOf(h)) \in Nat
  <2>1. 1 \in 1 .. len
    BY ONLY <1>3, len \in Nat
  <2>2. h \in Packages
    BY ONLY <1>1, <1>3, <2>1, s \in Seq(Packages), ElementOfSeq
  <2>3. QED BY ONLY <2>1, <2>2, PackageFields
<1>5. /\ c2 \in Nat /\ c <= c2 /\ c2 <= e
      /\ \A i \in 1 .. len - 1 : ~ IsOpen(t[i]) /\ c2 < t[i].header
  BY ONLY <1>2, <1>3, s \in Seq(Packages), s # << >>, c \in Nat, e \in Nat, Numbered(s, c, e, fresh), c <= e,
     c2 = (IF IsOpen(Head(s)) THEN c ELSE Head(s).header), NumbersOfTail
<1>6. PICK sends \in Nat : sends = Len(sent)
  BY ONLY sent \in Sendings, SentFields
<1>7. /\ \A j \in 1 .. sends : sent[j].counter \in Nat \ {0} /\ sent[j].size \in Nat \ {0}
      /\ \A j \in 0 .. sends : pos[j] \in Nat
      /\ \A j \in 1 .. sends : pos[j] = pos[j - 1] + sent[j].size
  BY ONLY <1>6, sent \in Sendings, SentFields, pos \in Ends(sent, m) DEF Ends
<1>8. /\ Booked(e, sent) /\ Had(c, n, g, k, sent, pos) /\ Listed(s, k, sent, pos)
      /\ UnderWay(s, c, k, sent, live, pos)
  BY ONLY Account(s, c, e, n, g, k, sent, live, pos) DEF Account
\* What the counter reaches now was in this package.
<1>9. ASSUME NEW j \in 1 .. sends, c < sent[j].counter, sent[j].counter <= c2
      PROVE  Covers(h, j, sent, pos, k)
  <2>1. CASE \E i \in 1 .. len : Covers(s[i], j, sent, pos, k)
    <3>1. PICK i \in 1 .. len : Covers(s[i], j, sent, pos, k)
      BY ONLY <2>1
    <3>2. s[i].header = sent[j].counter
      BY ONLY <3>1 DEF Covers
    <3>3. CASE i = 1
      BY ONLY <1>3, <3>1, <3>3
    <3>4. CASE i # 1
      <4>1. i - 1 \in 1 .. len - 1 /\ t[i - 1] = s[i]
        BY ONLY <1>3, <3>4, i \in 1 .. len, len \in Nat
      <4>2. c2 < s[i].header
        BY ONLY <1>5, <4>1
      <4>3. QED BY ONLY <1>5, <1>7, <1>9, <3>2, <4>2
    <3>5. QED BY ONLY <3>3, <3>4
  <2>2. CASE \A i \in 1 .. len : IsOpen(s[i]) \/ s[i].header < sent[j].counter
    <3>1. IsOpen(h) \/ h.header < sent[j].counter
      BY ONLY <1>3, <1>4, <2>2
    <3>2. QED BY ONLY <1>2, <1>4, <1>5, <1>7, <1>9, <3>1, c \in Nat,
       c2 = (IF IsOpen(Head(s)) THEN c ELSE Head(s).header)
  <2>3. QED BY ONLY <1>1, <1>6, <1>8, <1>9, <2>1, <2>2 DEF UnderWay
<1>10. /\ IsReset(h) => g2 = h.from /\ n2 = 0
       /\ ~ IsReset(h) => g2 = g /\ n2 = n + Len(PayloadOf(h))
  BY ONLY <1>2, <<g2, n2>> = After(<<g, n>>, Head(s)) DEF After
<1>11. Had(c2, n2, g2, k, sent, pos)
  <2>1. SUFFICES ASSUME NEW j \in 0 .. sends, pos[j] > 0, j = 0 \/ sent[j].counter <= c2
                 PROVE  g2 = k /\ pos[j] <= n2
    BY ONLY <1>6, <2>1 DEF Had
  <2>2. CASE j = 0 \/ sent[j].counter <= c
    <3>1. g = k /\ pos[j] <= n
      BY ONLY <1>6, <1>8, <2>1, <2>2 DEF Had
    <3>2. CASE IsReset(h)
      <4>1. h.from = k
        BY ONLY <1>2, <1>4, <3>1, <3>2, k \in Nat, IsReset(Head(s)) => g <= Head(s).from /\ Head(s).from <= k
      <4>2. pos[0] = 0 /\ \A i \in 1 .. sends : h.header < sent[i].counter
        BY ONLY <1>1, <1>3, <1>4, <1>6, <1>8, <3>2, <4>1 DEF Listed
      <4>3. c <= h.header
        BY ONLY <1>2, <1>5, <3>2, c2 = (IF IsOpen(Head(s)) THEN c ELSE Head(s).header)
           DEF IsReset, IsOpen
      <4>4. j \in 1 .. sends /\ sent[j].counter <= c
        BY ONLY <2>1, <2>2, <4>2
      <4>5. QED BY ONLY <1>4, <1>7, <4>2, <4>3, <4>4, c \in Nat
    <3>3. CASE ~ IsReset(h)
      BY ONLY <1>4, <1>7, <1>10, <2>1, <3>1, <3>3, n \in Nat
    <3>4. QED BY ONLY <3>2, <3>3
  <2>3. CASE ~ (j = 0 \/ sent[j].counter <= c)
    <3>1. j \in 1 .. sends /\ c < sent[j].counter /\ sent[j].counter <= c2
      BY ONLY <1>7, <2>1, <2>3, c \in Nat
    <3>2. Covers(h, j, sent, pos, k)
      BY ONLY <1>9, <3>1
    <3>3. PICK data, size : data = PayloadOf(h) /\ size = sent[j].size
      OBVIOUS
    <3>4. /\ IsData(h) /\ h.from = k /\ Len(data) = size /\ size \in Nat /\ 1 \in 1 .. size
          /\ data[1] = <<k, pos[j - 1] + 1>>
      <4>1. size \in Nat /\ 1 \in 1 .. size
        BY ONLY <1>7, <3>1, <3>3
      <4>2. QED BY ONLY <3>2, <3>3, <4>1 DEF Covers
    <3>5. h.from = g /\ data[1] = <<g, n + 1>>
      BY ONLY <1>2, <3>3, <3>4, Fits(<<g, n>>, Head(s)) DEF Fits
    <3>6. g = k /\ pos[j - 1] + 1 = n + 1
      BY ONLY <3>4, <3>5
    <3>7. pos[j - 1] \in Nat /\ pos[j] = pos[j - 1] + size
      <4>1. j - 1 \in 0 .. sends
        BY ONLY <3>1, sends \in Nat
      <4>2. QED BY ONLY <1>7, <3>1, <3>3, <4>1
    <3>8. g2 = g /\ n2 = n + size
      BY ONLY <1>10, <3>3, <3>4 DEF IsData, IsReset
    <3>9. QED BY ONLY <3>4, <3>6, <3>7, <3>8, n \in Nat
  <2>4. QED BY ONLY <2>2, <2>3
<1>12. Listed(t, k, sent, pos)
  <2>1. \A i \in 1 .. len - 1 : i + 1 \in 1 .. len /\ t[i] = s[i + 1]
    BY ONLY <1>3, len \in Nat
  <2>2. QED BY ONLY <1>1, <1>3, <1>8, <2>1 DEF Listed
<1>13. UnderWay(t, c2, k, sent, live, pos)
  <2>1. SUFFICES ASSUME NEW j \in 1 .. sends, c2 < sent[j].counter
                 PROVE  \/ \E i \in 1 .. len - 1 : Covers(t[i], j, sent, pos, k)
                        \/ ~ live /\ \A i \in 1 .. len - 1 : IsOpen(t[i]) \/ t[i].header < sent[j].counter
    BY ONLY <1>3, <1>6, <2>1 DEF UnderWay
  <2>2. c < sent[j].counter
    BY ONLY <1>5, <1>7, <2>1, c \in Nat
  <2>3. CASE \E i \in 1 .. len : Covers(s[i], j, sent, pos, k)
    <3>1. PICK i \in 1 .. len : Covers(s[i], j, sent, pos, k)
      BY ONLY <2>3
    <3>2. i # 1
      <4>1. SUFFICES ASSUME i = 1 PROVE FALSE
        OBVIOUS
      <4>2. IsData(h) /\ h.header = sent[j].counter
        BY ONLY <1>3, <3>1, <4>1 DEF Covers
      <4>3. c2 = h.header
        BY ONLY <1>2, <4>2, c2 = (IF IsOpen(Head(s)) THEN c ELSE Head(s).header) DEF IsData, IsOpen
      <4>4. QED BY ONLY <1>4, <2>1, <4>2, <4>3
    <3>3. i - 1 \in 1 .. len - 1 /\ t[i - 1] = s[i]
      BY ONLY <1>3, <3>2, i \in 1 .. len, len \in Nat
    <3>4. QED BY ONLY <3>1, <3>3
  <2>4. CASE ~ live /\ \A i \in 1 .. len : IsOpen(s[i]) \/ s[i].header < sent[j].counter
    <3>1. \A i \in 1 .. len - 1 : i + 1 \in 1 .. len /\ t[i] = s[i + 1]
      BY ONLY <1>3, len \in Nat
    <3>2. QED BY ONLY <2>4, <3>1
  <2>5. QED BY ONLY <1>1, <1>6, <1>8, <2>2, <2>3, <2>4 DEF UnderWay
<1>14. QED BY ONLY <1>2, <1>8, <1>11, <1>12, <1>13 DEF Account

\* Package q of timer event h carries the n bytes of the local client k after m.
Reads(q, k, m, n, h) ==
  /\ IsData(q) /\ q.from = k /\ q.header = h /\ Len(PayloadOf(q)) = n
  /\ \A i \in 1 .. n : PayloadOf(q)[i] = <<k, m + i>>

\* What the account more has after the account sent: a package of timer event h.
OneMore(more, sent, h) ==
  /\ Len(more) = Len(sent) + 1 /\ more[Len(more)].counter = h
  /\ \A j \in 1 .. Len(sent) : more[j] = sent[j]

\* What was sent before ends where it did.
SameEnds(to, pos, sent, m) ==
  \A j \in 0 .. Len(sent) : to[j] = pos[j] /\ pos[j] \in Nat /\ pos[j] <= m

\* The account more with m2 bytes read, where what was sent before ends where it did.
MoreAccount(t, c, h, n, g, k, more, live, m2, pos, sent, m) ==
  \E to \in Ends(more, m2) :
    Account(t, c, h, n, g, k, more, live, to) /\ SameEnds(to, pos, sent, m)

\* A round that reads size bytes of the local client.
LEMMA DataKeepsAccount ==
  ASSUME NEW s \in Seq(Packages), NEW q \in Packages, NEW size \in Nat \ {0},
         NEW sent \in Sendings, NEW m \in Nat, NEW pos \in Ends(sent, m),
         NEW c \in Nat, NEW e \in Nat, NEW n \in Nat, NEW g, NEW k \in Nat, NEW live, NEW fresh,
         Account(s, c, e, n, g, k, sent, live, pos), Numbered(s, c, e, fresh), c <= e,
         NEW h, h = e + 1, Reads(q, k, m, size, h),
         NEW t, t = (IF live THEN Append(s, q) ELSE s),
         NEW sending, sending = [counter |-> h, size |-> size],
         NEW more, more = Append(sent, sending), more \in Sendings, NEW m2, m2 = m + size
  PROVE  OneMore(more, sent, h) /\ MoreAccount(t, c, h, n, g, k, more, live, m2, pos, sent, m)
<1> DEFINE new == [counter |-> e + 1, size |-> size]
<1>1. /\ IsData(q) /\ q.from = k /\ q.header = e + 1 /\ Len(PayloadOf(q)) = size
       /\ \A i \in 1 .. size : PayloadOf(q)[i] = <<k, m + i>>
       /\ more = Append(sent, new)
  BY ONLY h = e + 1, Reads(q, k, m, size, h), sending = [counter |-> h, size |-> size],
     more = Append(sent, sending) DEF Reads
<1>2. PICK len \in Nat, sends \in Nat : len = Len(s) /\ sends = Len(sent)
  BY ONLY s \in Seq(Packages), sent \in Sendings, SentFields, LenProperties
<1>3. Len(more) = sends + 1 /\ more[sends + 1] = new
      /\ \A j \in 1 .. sends : more[j] = sent[j]
  <2>1. PICK S : sent \in Seq(S) /\ new \in S
    <3>1. PICK S : S = [counter : Nat, size : Nat]
      OBVIOUS
    <3>2. [counter : 1 .. MaxTicks, size : 1 .. PayloadSize] \subseteq S
      BY ONLY <3>1, Bounds
    <3>3. sent \in Seq(S)
      BY ONLY <3>2, sent \in Sendings, SeqMonotonic DEF Sendings
    <3>4. new \in S
      BY ONLY <3>1, e \in Nat, size \in Nat \ {0}
    <3>5. QED BY ONLY <3>3, <3>4
  <2>2. more = Append(sent, new)
    BY ONLY <1>1
  <2>3. QED BY ONLY <1>2, <2>1, <2>2, AppendProperties
<1>4. /\ more[sends + 1].counter = e + 1 /\ more[sends + 1].size = size
      /\ \A j \in 1 .. sends : more[j].counter = sent[j].counter /\ more[j].size = sent[j].size
  BY ONLY <1>3
<1>5. /\ pos \in [0 .. sends -> Nat] /\ pos[sends] = m
      /\ \A j \in 1 .. sends : pos[j] = pos[j - 1] + sent[j].size
      /\ \A i, j \in 0 .. sends : i <= j => pos[i] <= pos[j]
  BY ONLY <1>2, pos \in Ends(sent, m) DEF Ends
<1>6. \A j \in 0 .. sends : pos[j] \in Nat /\ pos[j] <= m
  BY ONLY <1>5, sends \in Nat
<1>7. PICK to : to = [j \in 0 .. sends + 1 |-> IF j = sends + 1 THEN m + size ELSE pos[j]]
  OBVIOUS
<1>8. /\ to[sends + 1] = m + size /\ \A j \in 0 .. sends : to[j] = pos[j]
      /\ to \in [0 .. sends + 1 -> Nat]
  BY ONLY <1>5, <1>7, sends \in Nat, m \in Nat, size \in Nat \ {0}
<1>9. to \in Ends(more, m + size)
  <2>1. ASSUME NEW j \in 1 .. sends + 1
        PROVE  to[j] = to[j - 1] + more[j].size
    <3>1. CASE j = sends + 1
      <4>1. j - 1 = sends /\ sends \in 0 .. sends
        BY ONLY <3>1, sends \in Nat
      <4>2. QED BY ONLY <1>4, <1>5, <1>8, <3>1, <4>1
    <3>2. CASE j # sends + 1
      <4>1. j \in 1 .. sends /\ j - 1 \in 0 .. sends /\ j \in 0 .. sends
        BY ONLY <3>2, j \in 1 .. sends + 1, sends \in Nat
      <4>2. QED BY ONLY <1>4, <1>5, <1>8, <4>1
    <3>3. QED BY ONLY <3>1, <3>2
  <2>2. ASSUME NEW i \in 0 .. sends + 1, NEW j \in 0 .. sends + 1, i <= j
        PROVE  to[i] <= to[j]
    <3>1. CASE j = sends + 1
      <4>1. i = sends + 1 \/ i \in 0 .. sends
        BY ONLY i \in 0 .. sends + 1, sends \in Nat
      <4>2. QED BY ONLY <1>6, <1>8, <3>1, <4>1, m \in Nat, size \in Nat \ {0}
    <3>2. CASE j # sends + 1
      <4>1. i \in 0 .. sends /\ j \in 0 .. sends
        BY ONLY <2>2, <3>2, sends \in Nat
      <4>2. QED BY ONLY <1>5, <1>8, <2>2, <4>1
    <3>3. QED BY ONLY <3>1, <3>2
  <2>3. QED BY ONLY <1>3, <1>8, <2>1, <2>2 DEF Ends
<1>10. /\ Booked(e, sent) /\ Had(c, n, g, k, sent, pos) /\ Listed(s, k, sent, pos)
      /\ UnderWay(s, c, k, sent, live, pos)
  BY ONLY Account(s, c, e, n, g, k, sent, live, pos) DEF Account
<1>11. \A j \in 1 .. sends + 1 : j = sends + 1 \/ j \in 1 .. sends
  BY ONLY sends \in Nat
<1>12. sends + 1 \in 1 .. sends + 1 /\ \A j \in 1 .. sends : j \in 1 .. sends + 1
  BY ONLY sends \in Nat
<1>13. \A j \in 1 .. sends : sent[j].counter \in Nat /\ sent[j].counter <= e
  BY ONLY <1>2, <1>10, sent \in Sendings, SentFields DEF Booked
<1>14. Booked(e + 1, more)
  <2>1. \A j \in 1 .. sends + 1 : more[j].counter <= e + 1
    BY ONLY <1>4, <1>11, <1>13, e \in Nat
  <2>2. ASSUME NEW i \in 1 .. sends + 1, NEW j \in 1 .. sends + 1, i < j
        PROVE  more[i].counter < more[j].counter
    <3>1. i \in 1 .. sends
      BY ONLY <2>2, sends \in Nat
    <3>2. CASE j = sends + 1
      BY ONLY <1>4, <1>13, <3>1, <3>2, e \in Nat
    <3>3. CASE j \in 1 .. sends
      BY ONLY <1>2, <1>4, <1>10, <2>2, <3>1, <3>3 DEF Booked
    <3>4. QED BY ONLY <1>11, <3>2, <3>3
  <2>3. QED BY ONLY <1>3, <2>1, <2>2 DEF Booked
<1>15. Had(c, n, g, k, more, to)
  <2>1. SUFFICES ASSUME NEW j \in 0 .. sends + 1, to[j] > 0, j = 0 \/ more[j].counter <= c
                 PROVE  g = k /\ to[j] <= n
    BY ONLY <1>3, <2>1 DEF Had
  <2>2. j # sends + 1
    BY ONLY <1>4, <2>1, c \in Nat, e \in Nat, c <= e, sends \in Nat
  <2>3. j \in 0 .. sends /\ to[j] = pos[j] /\ (j = 0 \/ sent[j].counter <= c)
    BY ONLY <1>4, <1>8, <2>1, <2>2, sends \in Nat
  <2>4. QED BY ONLY <1>2, <1>10, <2>1, <2>3 DEF Had
<1>16. ASSUME NEW p, NEW j \in 1 .. sends
       PROVE  Covers(p, j, more, to, k) <=> Covers(p, j, sent, pos, k)
  <2>1. j - 1 \in 0 .. sends
    BY ONLY sends \in Nat, j \in 1 .. sends
  <2>2. to[j - 1] = pos[j - 1] /\ more[j].counter = sent[j].counter /\ more[j].size = sent[j].size
    BY ONLY <1>4, <1>8, <2>1
  <2>3. QED BY ONLY <2>2 DEF Covers
<1>17. Covers(q, sends + 1, more, to, k)
  <2>1. to[(sends + 1) - 1] = m
    BY ONLY <1>5, <1>8, sends \in Nat
  <2>2. QED BY ONLY <1>4, <1>1, <2>1 DEF Covers
<1>18. Listed(s, k, more, to) /\ UnderWay(s, c, k, sent, live, pos)
  <2>1. \A i \in 1 .. len : IsData(s[i]) /\ s[i].from = k =>
          \E j \in 1 .. sends + 1 : Covers(s[i], j, more, to, k)
    BY ONLY <1>2, <1>10, <1>12, <1>16 DEF Listed
  <2>2. ASSUME NEW i \in 1 .. len, IsReset(s[i]), s[i].from = k
        PROVE  to[0] = 0 /\ \A j \in 1 .. sends + 1 : s[i].header < more[j].counter
    <3>1. pos[0] = 0 /\ \A j \in 1 .. sends : s[i].header < sent[j].counter
      BY ONLY <1>2, <1>10, <2>2 DEF Listed
    <3>2. s[i].header <= e /\ s[i].header \in Nat
      <4>1. s[i].header \in Nat
        BY ONLY <1>2, s \in Seq(Packages), ElementOfSeq, PackageFields
      <4>2. ~ IsOpen(s[i])
        BY ONLY <2>2 DEF IsReset, IsOpen
      <4>3. QED BY ONLY <1>2, <4>1, <4>2, Numbered(s, c, e, fresh) DEF Numbered
    <3>3. 0 \in 0 .. sends
      BY ONLY sends \in Nat
    <3>4. to[0] = 0
      BY ONLY <1>8, <3>1, <3>3
    <3>5. ASSUME NEW j \in 1 .. sends + 1
          PROVE  s[i].header < more[j].counter
      <4>1. CASE j = sends + 1
        BY ONLY <1>4, <3>2, <4>1, e \in Nat
      <4>2. CASE j \in 1 .. sends
        BY ONLY <1>4, <3>1, <4>2
      <4>3. QED BY ONLY <1>11, <4>1, <4>2
    <3>6. QED BY ONLY <3>4, <3>5
  <2>3. QED BY ONLY <1>2, <1>3, <1>10, <2>1, <2>2 DEF Listed
<1>19. Listed(t, k, more, to) /\ UnderWay(t, c, k, more, live, to)
  <2>1. CASE live
    <3>1. Len(t) = len + 1 /\ t[len + 1] = q /\ \A i \in 1 .. len : t[i] = s[i]
      BY ONLY <1>2, <2>1, t = (IF live THEN Append(s, q) ELSE s), s \in Seq(Packages), q \in Packages,
         AppendProperties
    <3>2. \A i \in 1 .. len + 1 : i = len + 1 \/ i \in 1 .. len
      BY ONLY len \in Nat
    <3>3. len + 1 \in 1 .. len + 1 /\ \A i \in 1 .. len : i \in 1 .. len + 1
      BY ONLY len \in Nat
    <3>4. Listed(t, k, more, to)
      <4>1. ~ IsReset(q)
        BY ONLY <1>1 DEF IsData, IsReset
      <4>2. ASSUME NEW i \in 1 .. len + 1, IsData(t[i]), t[i].from = k
            PROVE  \E j \in 1 .. Len(more) : Covers(t[i], j, more, to, k)
        <5>1. CASE i = len + 1
          BY ONLY <1>3, <1>12, <1>17, <3>1, <5>1
        <5>2. CASE i \in 1 .. len
          BY ONLY <1>2, <1>18, <3>1, <4>2, <5>2 DEF Listed
        <5>3. QED BY ONLY <3>2, <5>1, <5>2
      <4>3. ASSUME NEW i \in 1 .. len + 1, IsReset(t[i]), t[i].from = k
            PROVE  to[0] = 0 /\ \A j \in 1 .. Len(more) : t[i].header < more[j].counter
        <5>1. i \in 1 .. len /\ t[i] = s[i]
          BY ONLY <3>1, <3>2, <4>1, <4>3
        <5>2. QED BY ONLY <1>2, <1>18, <4>3, <5>1 DEF Listed
      <4>4. QED BY ONLY <3>1, <4>2, <4>3 DEF Listed
    <3>5. UnderWay(t, c, k, more, live, to)
      <4>1. SUFFICES ASSUME NEW j \in 1 .. sends + 1, c < more[j].counter
                     PROVE  \E i \in 1 .. len + 1 : Covers(t[i], j, more, to, k)
        BY ONLY <1>3, <3>1, <4>1 DEF UnderWay
      <4>2. CASE j = sends + 1
        BY ONLY <1>17, <3>1, <3>3, <4>2
      <4>3. CASE j \in 1 .. sends
        <5>1. PICK i \in 1 .. len : Covers(s[i], j, sent, pos, k)
          BY ONLY <1>2, <1>4, <1>18, <2>1, <4>1, <4>3 DEF UnderWay
        <5>2. QED BY ONLY <1>16, <3>1, <3>3, <4>3, <5>1
      <4>4. QED BY ONLY <1>11, <4>2, <4>3
    <3>6. QED BY ONLY <3>4, <3>5
  <2>2. CASE ~ live
    <3>1. t = s
      BY ONLY <2>2, t = (IF live THEN Append(s, q) ELSE s)
    <3>2. UnderWay(s, c, k, more, live, to)
      <4>1. SUFFICES ASSUME NEW j \in 1 .. sends + 1, c < more[j].counter
                     PROVE  \/ \E i \in 1 .. len : Covers(s[i], j, more, to, k)
                            \/ \A i \in 1 .. len : IsOpen(s[i]) \/ s[i].header < more[j].counter
        BY ONLY <1>2, <1>3, <2>2, <4>1 DEF UnderWay
      <4>2. CASE j = sends + 1
        <5>1. \A i \in 1 .. len : s[i].header \in Nat
          BY ONLY <1>2, s \in Seq(Packages), ElementOfSeq, PackageFields
        <5>2. \A i \in 1 .. len : IsOpen(s[i]) \/ s[i].header <= e
          BY ONLY <1>2, Numbered(s, c, e, fresh) DEF Numbered
        <5>3. QED BY ONLY <1>4, <4>2, <5>1, <5>2, e \in Nat
      <4>3. CASE j \in 1 .. sends
        BY ONLY <1>2, <1>4, <1>16, <1>18, <4>1, <4>3 DEF UnderWay
      <4>4. QED BY ONLY <1>11, <4>2, <4>3
    <3>3. QED BY ONLY <1>18, <3>1, <3>2
  <2>3. QED BY ONLY <2>1, <2>2
<1>20. Account(t, c, e + 1, n, g, k, more, live, to)
  BY ONLY <1>14, <1>15, <1>19 DEF Account
<1>21. OneMore(more, sent, h)
  BY ONLY <1>2, <1>3, <1>4, h = e + 1 DEF OneMore
<1>22. SameEnds(to, pos, sent, m)
  BY ONLY <1>2, <1>6, <1>8 DEF SameEnds
<1>23. QED BY ONLY <1>9, <1>20, <1>21, <1>22, h = e + 1, m2 = m + size DEF MoreAccount

\* The end of the stream is lost with the connection.
LEMMA CutKeepsAccount ==
  ASSUME NEW s \in Seq(Packages), NEW t \in Seq(Packages), FrontOf(t, s),
         NEW c, NEW e, NEW n, NEW g, NEW k, NEW sent, NEW live, NEW pos, NEW fresh,
         Account(s, c, e, n, g, k, sent, live, pos), Numbered(s, c, e, fresh)
  PROVE  Account(t, c, e, n, g, k, sent, FALSE, pos)
<1>1. PICK len \in Nat, cut \in Nat : len = Len(s) /\ cut = Len(t)
  BY ONLY s \in Seq(Packages), t \in Seq(Packages), LenProperties
<1>2. cut <= len /\ \A i \in 1 .. cut : t[i] = s[i]
  BY ONLY <1>1, FrontOf(t, s) DEF FrontOf
<1>3. \A i \in 1 .. cut : i \in 1 .. len
  BY ONLY <1>2, len \in Nat, cut \in Nat
<1>4. /\ Booked(e, sent) /\ Had(c, n, g, k, sent, pos) /\ Listed(s, k, sent, pos)
      /\ UnderWay(s, c, k, sent, live, pos)
  BY ONLY Account(s, c, e, n, g, k, sent, live, pos) DEF Account
<1>5. Listed(t, k, sent, pos)
  BY ONLY <1>1, <1>2, <1>3, <1>4 DEF Listed
<1>6. UnderWay(t, c, k, sent, FALSE, pos)
  <2>1. SUFFICES ASSUME NEW j \in 1 .. Len(sent), c < sent[j].counter
                 PROVE  \/ \E i \in 1 .. cut : Covers(t[i], j, sent, pos, k)
                        \/ \A i \in 1 .. cut : IsOpen(t[i]) \/ t[i].header < sent[j].counter
    BY ONLY <1>1, <2>1 DEF UnderWay
  <2>2. CASE \E i \in 1 .. len : Covers(s[i], j, sent, pos, k)
    <3>1. PICK i \in 1 .. len : Covers(s[i], j, sent, pos, k)
      BY ONLY <2>2
    <3>2. CASE i <= cut
      <4>1. i \in 1 .. cut
        BY ONLY <3>2, i \in 1 .. len, len \in Nat, cut \in Nat
      <4>2. QED BY ONLY <1>2, <3>1, <4>1
    <3>3. CASE ~ (i <= cut)
      <4>1. s[i].header = sent[j].counter
        BY ONLY <3>1 DEF Covers
      <4>2. ASSUME NEW h \in 1 .. cut
            PROVE  IsOpen(t[h]) \/ t[h].header < sent[j].counter
        <5>1. h \in 1 .. len /\ h < i /\ t[h] = s[h]
          BY ONLY <1>2, <1>3, <3>3, i \in 1 .. len, len \in Nat, cut \in Nat
        <5>2. QED BY ONLY <1>1, <4>1, <5>1, Numbered(s, c, e, fresh) DEF Numbered
      <4>3. QED BY ONLY <4>2
    <3>4. QED BY ONLY <3>2, <3>3
  <2>3. CASE \A i \in 1 .. len : IsOpen(s[i]) \/ s[i].header < sent[j].counter
    BY ONLY <1>2, <1>3, <2>3
  <2>4. QED BY ONLY <1>1, <1>4, <2>1, <2>2, <2>3 DEF UnderWay
<1>7. QED BY ONLY <1>4, <1>5, <1>6 DEF Account

LEMMA ResponseFields ==
  ASSUME NEW a \in Seq(Responses)
  PROVE  Len(a) \in Nat /\ \A i \in 1 .. Len(a) : a[i] \in Responses /\ a[i].counter \in Nat
<1>1. \A i \in 1 .. Len(a) : a[i] \in Responses
  BY ONLY a \in Seq(Responses), ElementOfSeq
<1>2. \A r \in Responses : r.counter \in Nat
  BY Bounds DEF Responses, Counters
<1>3. QED BY ONLY <1>1, <1>2, a \in Seq(Responses), LenProperties

\* ConfirmPackage takes the first d packages from the account.
\* What a confirmation of the counter c leaves of an account: it takes the first d.
LeavesOf(rest, sent, d, c) ==
  /\ Len(rest) = Len(sent) - d
  /\ \A i \in 1 .. Len(sent) - d : rest[i] = sent[d + i]
  /\ d > 0 => sent[d].counter <= c

HasLedger(window, a, blocked, s, c, e, n, g, k, sent, live, m) ==
  \E pos \in Ends(sent, m) :
    Account(s, c, e, n, g, k, sent, live, pos) /\ Free(window, a, blocked, k, sent, pos)

LEMMA ConfirmedIsFront ==
  ASSUME NEW t \in Trackers, NEW refCounter \in Nat, NEW blocked
  PROVE  LET u == ConfirmPackage(t, refCounter, blocked)
         IN  /\ u.blocked = blocked /\ u.sent \in Sendings
             /\ \E d \in 0 .. Len(t.sent) : LeavesOf(u.sent, t.sent, d, refCounter)
<1>1. PICK sent : sent = t.sent
  OBVIOUS
<1>2. sent \in Sendings
  BY ONLY <1>1, t \in Trackers DEF Trackers, Sendings
<1>3. PICK len \in Nat : len = Len(sent)
  BY ONLY <1>2, SentFields
<1>4. \A j \in 1 .. len : sent[j].counter \in Nat
  BY ONLY <1>2, <1>3, SentFields
<1> DEFINE Newer == {i \in 1 .. len : sent[i].counter > refCounter}
<1>5. PICK k : k = IF Newer # {} THEN Min(Newer) ELSE 0
  OBVIOUS
<1>6. PICK rest : rest = IF k = 0 THEN << >> ELSE SubSeq(sent, k, len)
  OBVIOUS
<1>7. ConfirmPackage(t, refCounter, blocked) = [sent |-> rest, blocked |-> blocked]
  BY ONLY <1>1, <1>3, <1>5, <1>6 DEF ConfirmPackage, SelectInSeq
<1>8. PICK d \in 0 .. len : /\ rest \in Sendings /\ Len(rest) = len - d
                            /\ \A i \in 1 .. len - d : rest[i] = sent[d + i]
                            /\ d > 0 => sent[d].counter <= refCounter
  <2>1. CASE Newer = {}
    <3>1. k = 0 /\ rest = << >>
      BY ONLY <1>5, <1>6, <2>1
    <3>2. rest \in Sendings /\ Len(rest) = 0
      BY ONLY <3>1, EmptySeq DEF Sendings
    <3>3. len > 0 => sent[len].counter <= refCounter
      <4>1. len > 0 => len \in 1 .. len /\ ~ (len \in Newer)
        BY ONLY <2>1, len \in Nat
      <4>2. QED BY ONLY <1>4, <4>1, refCounter \in Nat
    <3>4. len \in 0 .. len /\ Len(rest) = len - len /\ \A i \in 1 .. len - len : rest[i] = sent[len + i]
      BY ONLY <3>2, len \in Nat
    <3>5. QED BY ONLY <3>2, <3>3, <3>4
  <2>2. CASE Newer # {}
    <3>1. k \in Newer /\ \A i \in Newer : k <= i
      BY ONLY <1>5, <2>2, Newer \subseteq Nat, MinIsElement
    <3>2. PICK d \in Nat : k = d + 1 /\ d \in 0 .. len /\ d <= len /\ k # 0
      BY ONLY <3>1, len \in Nat
    <3>3. rest = SubSeq(sent, d + 1, Len(sent))
      BY ONLY <1>3, <1>6, <3>2
    <3>4. /\ rest \in Sendings /\ Len(rest) = len - d
          /\ \A i \in 1 .. len - d : rest[i] = sent[d + i]
      BY ONLY <1>2, <1>3, <3>2, <3>3, SuffixType DEF Sendings
    <3>5. d > 0 => sent[d].counter <= refCounter
      <4>1. d > 0 => d \in 1 .. len /\ ~ (d \in Newer)
        BY ONLY <3>1, <3>2, len \in Nat
      <4>2. QED BY ONLY <1>4, <4>1, refCounter \in Nat
    <3>6. QED BY ONLY <3>2, <3>4, <3>5
  <2>3. QED BY ONLY <2>1, <2>2
<1>9. LeavesOf(rest, sent, d, refCounter) /\ d \in 0 .. Len(t.sent)
  BY ONLY <1>1, <1>3, <1>8 DEF LeavesOf
<1>10. QED BY ONLY <1>1, <1>7, <1>8, <1>9

\* A response confirms the first d packages of the account.
LEMMA ConfirmKeepsAccount ==
  ASSUME NEW s \in Seq(Packages), NEW sent \in Sendings, NEW m \in Nat, NEW pos \in Ends(sent, m),
         NEW c \in Nat, NEW e \in Nat, NEW n \in Nat, NEW g, NEW k, NEW live, NEW fresh,
         Account(s, c, e, n, g, k, sent, live, pos), Numbered(s, c, e, fresh),
         NEW a \in Seq(Responses), a # << >>, Answered(a, c),
         NEW w, NEW blocked, Free(w, a, blocked, k, sent, pos),
         NEW rest \in Sendings, NEW d \in 0 .. Len(sent), LeavesOf(rest, sent, d, Head(a).counter)
  PROVE  HasLedger(w, Tail(a), Head(a).blocked, s, c, e, n, g, k, rest, live, m)
<1>1. PICK len \in Nat, sends \in Nat, left \in Nat : len = Len(s) /\ sends = Len(sent) /\ left = Len(rest)
  BY ONLY s \in Seq(Packages), sent \in Sendings, rest \in Sendings, SentFields, LenProperties
<1>2. d \in Nat /\ d <= sends /\ left = sends - d /\ \A i \in 1 .. left : rest[i] = sent[d + i]
  BY ONLY <1>1, d \in 0 .. Len(sent), LeavesOf(rest, sent, d, Head(a).counter) DEF LeavesOf
<1>3. /\ pos \in [0 .. sends -> Nat] /\ pos[sends] = m
      /\ \A j \in 1 .. sends : pos[j] = pos[j - 1] + sent[j].size
      /\ \A i, j \in 0 .. sends : i <= j => pos[i] <= pos[j]
  BY ONLY <1>1, pos \in Ends(sent, m) DEF Ends
<1>4. PICK first : first = Head(a)
  OBVIOUS
<1>5. PICK answers \in Nat : answers = Len(a)
  BY ONLY a \in Seq(Responses), LenProperties
<1>6. PICK b : b = Tail(a)
  OBVIOUS
<1>7. /\ answers >= 1 /\ first = a[1] /\ Len(b) = answers - 1
      /\ \A i \in 1 .. answers - 1 : b[i] = a[i + 1]
  BY ONLY <1>4, <1>5, <1>6, a \in Seq(Responses), a # << >>, HeadTailProperties, EmptySeq
<1>8. /\ 1 \in 1 .. answers /\ first.counter \in Nat /\ first.counter <= c
      /\ \A i \in 1 .. answers - 1 : b[i].counter \in Nat /\ first.counter <= b[i].counter
  <2>1. 1 \in 1 .. answers
    BY ONLY <1>7, answers \in Nat
  <2>2. \A i \in 1 .. answers - 1 : i + 1 \in 1 .. answers /\ 1 < i + 1
    BY ONLY answers \in Nat
  <2>3. \A i \in 1 .. answers : a[i].counter \in Nat
    BY ONLY <1>5, a \in Seq(Responses), ResponseFields
  <2>4. QED BY ONLY <1>5, <1>7, <2>1, <2>2, <2>3, Answered(a, c) DEF Answered
<1>9. \A j \in 1 .. sends : sent[j].counter \in Nat
  BY ONLY <1>1, sent \in Sendings, SentFields
<1>10. /\ Booked(e, sent) /\ Had(c, n, g, k, sent, pos) /\ Listed(s, k, sent, pos)
       /\ UnderWay(s, c, k, sent, live, pos)
  BY ONLY Account(s, c, e, n, g, k, sent, live, pos) DEF Account
\* What is confirmed was sent at the counter of the response or before.
<1>11. \A j \in 1 .. sends : j <= d => sent[j].counter <= first.counter
  <2>1. SUFFICES ASSUME NEW j \in 1 .. sends, j <= d
                 PROVE  sent[j].counter <= first.counter
    OBVIOUS
  <2>2. d \in 1 .. sends /\ d > 0
    BY ONLY <1>2, <2>1, sends \in Nat
  <2>3. sent[d].counter <= first.counter /\ sent[d].counter \in Nat
    BY ONLY <1>4, <1>9, <2>2, LeavesOf(rest, sent, d, Head(a).counter) DEF LeavesOf
  <2>4. CASE j = d
    BY ONLY <2>3, <2>4
  <2>5. CASE j # d
    <3>1. j < d
      BY ONLY <1>2, <2>1, <2>5
    <3>2. sent[j].counter < sent[d].counter /\ sent[j].counter \in Nat
      BY ONLY <1>1, <1>9, <1>10, <2>1, <2>2, <3>1 DEF Booked
    <3>3. QED BY ONLY <1>8, <2>3, <3>2
  <2>6. QED BY ONLY <2>4, <2>5
<1>12. PICK to : to = [j \in 0 .. left |-> pos[d + j]]
  OBVIOUS
<1>13. /\ \A j \in 0 .. left : d + j \in 0 .. sends /\ to[j] = pos[d + j]
       /\ \A j \in 1 .. left : /\ d + j \in 1 .. sends /\ j - 1 \in 0 .. left /\ d + (j - 1) = (d + j) - 1
                               /\ rest[j] = sent[d + j]
  BY ONLY <1>2, <1>12, sends \in Nat, left \in Nat
<1>14. to \in Ends(rest, m)
  <2>1. to \in [0 .. left -> Nat]
    BY ONLY <1>3, <1>12, <1>13
  <2>2. to[left] = m
    <3>1. left \in 0 .. left /\ d + left = sends
      BY ONLY <1>2, sends \in Nat, left \in Nat
    <3>2. QED BY ONLY <1>3, <1>13, <3>1
  <2>3. ASSUME NEW j \in 1 .. left
        PROVE  to[j] = to[j - 1] + rest[j].size
    <3>1. pos[d + j] = pos[(d + j) - 1] + sent[d + j].size
      BY ONLY <1>3, <1>13
    <3>2. j \in 0 .. left
      BY ONLY j \in 1 .. left, left \in Nat
    <3>3. to[j] = pos[d + j] /\ to[j - 1] = pos[(d + j) - 1] /\ rest[j] = sent[d + j]
      BY ONLY <1>13, <3>2
    <3>4. QED BY ONLY <3>1, <3>3
  <2>4. ASSUME NEW i \in 0 .. left, NEW j \in 0 .. left, i <= j
        PROVE  to[i] <= to[j]
    <3>1. d + i <= d + j
      BY ONLY <1>2, <2>4, left \in Nat
    <3>2. QED BY ONLY <1>3, <1>13, <3>1
  <2>5. QED BY ONLY <1>1, <2>1, <2>2, <2>3, <2>4 DEF Ends
<1>15. ASSUME NEW p, NEW j \in 1 .. left
       PROVE  Covers(p, j, rest, to, k) <=> Covers(p, d + j, sent, pos, k)
  <2>1. rest[j] = sent[d + j] /\ to[j - 1] = pos[(d + j) - 1]
    BY ONLY <1>13
  <2>2. QED BY ONLY <2>1 DEF Covers
<1>16. Booked(e, rest)
  <2>1. \A j \in 1 .. left : rest[j].counter <= e
    BY ONLY <1>1, <1>10, <1>13 DEF Booked
  <2>2. ASSUME NEW i \in 1 .. left, NEW j \in 1 .. left, i < j
        PROVE  rest[i].counter < rest[j].counter
    <3>1. d + i < d + j
      BY ONLY <1>2, <2>2, left \in Nat
    <3>2. QED BY ONLY <1>1, <1>10, <1>13, <3>1 DEF Booked
  <2>3. QED BY ONLY <1>1, <2>1, <2>2 DEF Booked
<1>17. Had(c, n, g, k, rest, to)
  <2>1. SUFFICES ASSUME NEW j \in 0 .. left, to[j] > 0, j = 0 \/ rest[j].counter <= c
                 PROVE  g = k /\ to[j] <= n
    BY ONLY <1>1, <2>1 DEF Had
  <2>2. d + j \in 0 .. sends /\ pos[d + j] > 0 /\ to[j] = pos[d + j]
    BY ONLY <1>13, <2>1
  <2>3. d + j = 0 \/ sent[d + j].counter <= c
    <3>1. CASE j = 0
      <4>1. CASE d = 0
        BY ONLY <3>1, <4>1
      <4>2. CASE d # 0
        <5>1. d + j = d /\ d \in 1 .. sends /\ d <= d
          BY ONLY <1>2, <3>1, <4>2, sends \in Nat
        <5>2. sent[d].counter <= first.counter /\ sent[d].counter \in Nat
          BY ONLY <1>9, <1>11, <5>1
        <5>3. QED BY ONLY <1>8, <5>1, <5>2, c \in Nat
      <4>3. QED BY ONLY <4>1, <4>2
    <3>2. CASE j # 0
      <4>1. j \in 1 .. left
        BY ONLY <3>2, j \in 0 .. left, left \in Nat
      <4>2. QED BY ONLY <1>13, <2>1, <3>2, <4>1
    <3>3. QED BY ONLY <3>1, <3>2
  <2>4. QED BY ONLY <1>1, <1>10, <2>2, <2>3 DEF Had
<1>18. Listed(s, k, rest, to)
  <2>1. ASSUME NEW i \in 1 .. len, IsData(s[i]), s[i].from = k
        PROVE  \E j \in 1 .. left : Covers(s[i], j, rest, to, k)
    <3>1. PICK j \in 1 .. sends : Covers(s[i], j, sent, pos, k)
      BY ONLY <1>1, <1>10, <2>1 DEF Listed
    <3>2. c < s[i].header /\ s[i].header = sent[j].counter
      <4>1. ~ IsOpen(s[i])
        BY ONLY <2>1 DEF IsData, IsOpen
      <4>2. c < s[i].header
        BY ONLY <1>1, <4>1, Numbered(s, c, e, fresh) DEF Numbered
      <4>3. QED BY ONLY <3>1, <4>2 DEF Covers
    <3>3. ~ (j <= d)
      BY ONLY <1>8, <1>9, <1>11, <3>2, c \in Nat
    <3>4. PICK i2 \in 1 .. left : d + i2 = j
      <4>1. j - d \in 1 .. left /\ d + (j - d) = j
        BY ONLY <1>2, <3>3, sends \in Nat
      <4>2. QED BY ONLY <4>1
    <3>5. QED BY ONLY <1>15, <3>1, <3>4
  <2>2. ASSUME NEW i \in 1 .. len, IsReset(s[i]), s[i].from = k
        PROVE  to[0] = 0 /\ \A j \in 1 .. left : s[i].header < rest[j].counter
    <3>1. pos[0] = 0 /\ \A j \in 1 .. sends : s[i].header < sent[j].counter
      BY ONLY <1>1, <1>10, <2>2 DEF Listed
    <3>2. c < s[i].header /\ s[i].header \in Nat
      <4>1. ~ IsOpen(s[i])
        BY ONLY <2>2 DEF IsReset, IsOpen
      <4>2. s[i].header \in Nat
        BY ONLY <1>1, s \in Seq(Packages), ElementOfSeq, PackageFields
      <4>3. QED BY ONLY <1>1, <4>1, <4>2, Numbered(s, c, e, fresh) DEF Numbered
    <3>3. d = 0
      <4>1. SUFFICES ASSUME d # 0 PROVE FALSE
        OBVIOUS
      <4>2. d \in 1 .. sends /\ d <= d
        BY ONLY <1>2, <4>1, sends \in Nat
      <4>3. sent[d].counter <= first.counter /\ s[i].header < sent[d].counter /\ sent[d].counter \in Nat
        BY ONLY <1>9, <1>11, <3>1, <4>2
      <4>4. PICK x, y, z : x = s[i].header /\ y = sent[d].counter /\ z = first.counter
        OBVIOUS
      <4>5. x \in Nat /\ y \in Nat /\ z \in Nat /\ y <= z /\ x < y /\ c < x /\ z <= c
        BY ONLY <1>8, <3>2, <4>3, <4>4
      <4>6. QED BY ONLY <4>5, c \in Nat
    <3>4. 0 \in 0 .. left /\ d + 0 = 0
      BY ONLY <3>3, left \in Nat
    <3>5. QED BY ONLY <1>13, <3>1, <3>4
  <2>3. QED BY ONLY <1>1, <2>1, <2>2 DEF Listed
<1>19. UnderWay(s, c, k, rest, live, to)
  <2>1. SUFFICES ASSUME NEW j \in 1 .. left, c < rest[j].counter
                 PROVE  \/ \E i \in 1 .. len : Covers(s[i], j, rest, to, k)
                        \/ ~ live /\ \A i \in 1 .. len : IsOpen(s[i]) \/ s[i].header < rest[j].counter
    BY ONLY <1>1, <2>1 DEF UnderWay
  <2>2. d + j \in 1 .. sends /\ c < sent[d + j].counter /\ rest[j] = sent[d + j]
    BY ONLY <1>13, <2>1
  <2>3. \/ \E i \in 1 .. len : Covers(s[i], d + j, sent, pos, k)
        \/ ~ live /\ \A i \in 1 .. len : IsOpen(s[i]) \/ s[i].header < sent[d + j].counter
    BY ONLY <1>1, <1>10, <2>2 DEF UnderWay
  <2>4. QED BY ONLY <1>15, <2>2, <2>3
<1>20. Free(w, b, first.blocked, k, rest, to)
  <2>1. ASSUME NEW i \in 1 .. answers, ~ a[i].blocked, first.counter <= a[i].counter, a[i].counter \in Nat,
               NEW x \in w, x[1] = k, NEW j \in 0 .. left, j = 0 \/ rest[j].counter <= a[i].counter
        PROVE  to[j] < x[2]
    <3>1. d + j \in 0 .. sends /\ to[j] = pos[d + j]
      BY ONLY <1>13
    <3>2. d + j = 0 \/ sent[d + j].counter <= a[i].counter
      <4>1. CASE j = 0
        <5>1. CASE d = 0
          BY ONLY <4>1, <5>1
        <5>2. CASE d # 0
          <6>1. d + j = d /\ d \in 1 .. sends /\ d <= d
            BY ONLY <1>2, <4>1, <5>2, sends \in Nat
          <6>2. sent[d].counter <= first.counter /\ sent[d].counter \in Nat
            BY ONLY <1>9, <1>11, <6>1
          <6>3. PICK u, y, z : u = a[i].counter /\ y = sent[d].counter /\ z = first.counter
            OBVIOUS
          <6>4. u \in Nat /\ y \in Nat /\ z \in Nat /\ y <= z /\ z <= u
            BY ONLY <1>8, <2>1, <6>2, <6>3
          <6>5. y <= u /\ sent[d + j].counter = y
            BY ONLY <6>1, <6>3, <6>4
          <6>6. QED BY ONLY <6>3, <6>5
        <5>3. QED BY ONLY <5>1, <5>2
      <4>2. CASE j # 0
        <5>1. j \in 1 .. left
          BY ONLY <4>2, j \in 0 .. left, left \in Nat
        <5>2. QED BY ONLY <1>13, <2>1, <4>2, <5>1
      <4>3. QED BY ONLY <4>1, <4>2
    <3>3. QED BY ONLY <1>1, <1>5, <2>1, <3>1, <3>2, Free(w, a, blocked, k, sent, pos) DEF Free
  <2>2. ~ first.blocked => \A x \in w : x[1] = k => to[0] < x[2]
    <3>1. 0 \in 0 .. left /\ first.counter <= first.counter
      BY ONLY <1>8, left \in Nat
    <3>2. QED BY ONLY <1>7, <1>8, <2>1, <3>1
  <2>3. ASSUME NEW i \in 1 .. answers - 1, ~ b[i].blocked, NEW x \in w, x[1] = k,
               NEW j \in 0 .. left, j = 0 \/ rest[j].counter <= b[i].counter
        PROVE  to[j] < x[2]
    <3>1. i + 1 \in 1 .. answers /\ b[i] = a[i + 1]
      BY ONLY <1>7, answers \in Nat
    <3>2. first.counter <= a[i + 1].counter /\ a[i + 1].counter \in Nat
      BY ONLY <1>8, <3>1
    <3>3. QED BY ONLY <2>1, <2>3, <3>1, <3>2
  <2>4. QED BY ONLY <1>1, <1>7, <2>2, <2>3 DEF Free
<1>21. QED
  <2>1. Account(s, c, e, n, g, k, rest, live, to)
    BY ONLY <1>10, <1>16, <1>17, <1>18, <1>19 DEF Account
  <2>2. QED BY ONLY <1>4, <1>6, <1>14, <1>20, <2>1 DEF HasLedger

\* A new local client has nothing in the account, and nothing under way.
LEMMA ClientStartsAccount ==
  ASSUME NEW s, NEW k \in Nat, \A i \in 1 .. Len(s) : Carries(s[i]) => s[i].from \in Nat /\ s[i].from <= k,
         NEW w \in SUBSET (Nat \X Nat), \A x \in w : x[1] <= k,
         NEW c, NEW e, NEW n, NEW g, NEW live, NEW a, NEW blocked
  PROVE  \E to \in Ends(<< >>, 0) :
           /\ Account(s, c, e, n, g, k + 1, << >>, live, to)
           /\ Free(w, a, blocked, k + 1, << >>, to)
<1>1. PICK to : to = [j \in 0 .. 0 |-> 0]
  OBVIOUS
<1>2. Len(<< >>) = 0 /\ to[0] = 0 /\ (\A j \in 0 .. 0 : j = 0) /\ 1 .. 0 = {}
  BY ONLY <1>1
<1>3. to \in Ends(<< >>, 0)
  BY ONLY <1>1 DEF Ends
<1>4. \A i \in 1 .. Len(s) : Carries(s[i]) => s[i].from # k + 1
  BY ONLY k \in Nat, \A i \in 1 .. Len(s) : Carries(s[i]) => s[i].from \in Nat /\ s[i].from <= k
<1>5. Booked(e, << >>) /\ UnderWay(s, c, k + 1, << >>, live, to)
  BY ONLY <1>2 DEF Booked, UnderWay
<1>6. Had(c, n, g, k + 1, << >>, to)
  BY ONLY <1>2 DEF Had
<1>7. Listed(s, k + 1, << >>, to)
  BY ONLY <1>2, <1>4 DEF Listed, Carries, IsData, IsReset
<1>8. \A x \in w : x[1] # k + 1
  BY ONLY k \in Nat, w \in SUBSET (Nat \X Nat), \A x \in w : x[1] <= k
<1>9. Free(w, a, blocked, k + 1, << >>, to)
  BY ONLY <1>8 DEF Free
<1>10. QED BY ONLY <1>3, <1>5, <1>6, <1>7, <1>9 DEF Account

LEMMA FreeNarrows ==
  ASSUME NEW w, NEW w2, w2 \subseteq w, NEW a, NEW blocked, NEW k, NEW sent, NEW pos,
         Free(w, a, blocked, k, sent, pos)
  PROVE  Free(w2, a, blocked, k, sent, pos)
BY DEF Free

\* What a round reads lies behind all that was read before.
LEMMA DataKeepsFree ==
  ASSUME NEW w, NEW w2, NEW a \in Seq(Responses), NEW k \in Nat, NEW m \in Nat, NEW size \in Nat,
         NEW sent \in Sendings, NEW pos, Free(w, a, FALSE, k, sent, pos),
         NEW c \in Nat, NEW e \in Nat, Answered(a, c), c <= e, NEW h, h = e + 1,
         NEW q, w2 \subseteq w \cup Contents(q), Reads(q, k, m, size, h),
         NEW more, OneMore(more, sent, h), NEW to, SameEnds(to, pos, sent, m)
  PROVE  Free(w2, a, FALSE, k, more, to)
<1>1. Contents(q) = {<<k, m + i>> : i \in 1 .. size}
  <2>1. Len(PayloadOf(q)) = size /\ \A i \in 1 .. size : PayloadOf(q)[i] = <<k, m + i>>
    BY ONLY Reads(q, k, m, size, h) DEF Reads
  <2>2. QED BY ONLY <2>1 DEF Contents
<1>2. /\ Len(more) = Len(sent) + 1 /\ more[Len(more)].counter = e + 1
      /\ \A j \in 1 .. Len(sent) : more[j] = sent[j]
      /\ \A j \in 0 .. Len(sent) : to[j] = pos[j] /\ pos[j] \in Nat /\ pos[j] <= m
  BY ONLY OneMore(more, sent, h), SameEnds(to, pos, sent, m), h = e + 1 DEF OneMore, SameEnds
<1>3. PICK sends \in Nat, answers \in Nat : sends = Len(sent) /\ answers = Len(a)
  BY ONLY sent \in Sendings, SentFields, a \in Seq(Responses), LenProperties
<1>4. \A i \in 1 .. answers : a[i].counter \in Nat /\ a[i].counter <= c
  BY ONLY <1>3, a \in Seq(Responses), ResponseFields, Answered(a, c) DEF Answered
<1>5. ASSUME NEW x \in w2, x[1] = k, NEW j \in 0 .. sends, x \in w => pos[j] < x[2]
      PROVE  to[j] < x[2]
  <2>1. to[j] = pos[j] /\ pos[j] \in Nat /\ pos[j] <= m
    BY ONLY <1>3, <1>2
  <2>2. CASE x \in w
    BY ONLY <1>5, <2>1, <2>2
  <2>3. CASE x \notin w
    <3>1. PICK i \in 1 .. size : x = <<k, m + i>>
      BY ONLY <1>5, <1>1, <2>3, w2 \subseteq w \cup Contents(q)
    <3>2. x[2] = m + i /\ i \in Nat /\ i >= 1
      BY ONLY <3>1, size \in Nat
    <3>3. QED BY ONLY <2>1, <3>2, m \in Nat
  <2>4. QED BY ONLY <2>2, <2>3
<1>6. ASSUME NEW x \in w2, x[1] = k
      PROVE  to[0] < x[2]
  <2>1. 0 \in 0 .. sends
    BY ONLY sends \in Nat
  <2>2. x \in w => pos[0] < x[2]
    BY ONLY <1>6, Free(w, a, FALSE, k, sent, pos) DEF Free
  <2>3. QED BY ONLY <1>5, <1>6, <2>1, <2>2
<1>7. ASSUME NEW i \in 1 .. answers, ~ a[i].blocked, NEW x \in w2, x[1] = k,
             NEW j \in 0 .. sends + 1, j = 0 \/ more[j].counter <= a[i].counter
      PROVE  to[j] < x[2]
  <2>1. j # sends + 1
    BY ONLY <1>3, <1>4, <1>7, <1>2, c \in Nat, e \in Nat, c <= e, sends \in Nat
  <2>2. j \in 0 .. sends
    BY ONLY <2>1, sends \in Nat, j \in 0 .. sends + 1
  <2>3. j = 0 \/ sent[j].counter <= a[i].counter
    <3>1. j # 0 => j \in 1 .. sends
      BY ONLY <2>2, sends \in Nat
    <3>2. QED BY ONLY <1>3, <1>7, <1>2, <3>1
  <2>4. x \in w => pos[j] < x[2]
    BY ONLY <1>3, <1>7, <2>2, <2>3, Free(w, a, FALSE, k, sent, pos) DEF Free
  <2>5. QED BY ONLY <1>5, <1>7, <2>2, <2>4
<1>8. QED BY ONLY <1>3, <1>6, <1>7, <1>2 DEF Free

\* What the window w holds of client k is in its packages.
AllOnTheWay(w, s, k) ==
  \A x \in w : x[1] = k => \E i \in 1 .. Len(s) : x \in Contents(s[i]) /\ s[i].from = k

\* A response that finds the buffer less than half full: what may come to its
\* upper half is under way, behind all that the counter confirms.
LEMMA AnswerKeepsFree ==
  ASSUME NEW s \in Seq(Packages), NEW sent \in Sendings, NEW m \in Nat, NEW pos \in Ends(sent, m),
         NEW c \in Nat, NEW e \in Nat, NEW n, NEW g, NEW k, NEW live, NEW fresh,
         Account(s, c, e, n, g, k, sent, live, pos), Numbered(s, c, e, fresh),
         NEW a \in Seq(Responses), NEW r \in Responses, r.counter = c,
         NEW w, NEW blocked, Free(w, a, blocked, k, sent, pos),
         ~ r.blocked => AllOnTheWay(w, s, k)
  PROVE  Free(w, Append(a, r), blocked, k, sent, pos)
<1>1. PICK len \in Nat, sends \in Nat, answers \in Nat :
        len = Len(s) /\ sends = Len(sent) /\ answers = Len(a)
  BY ONLY s \in Seq(Packages), sent \in Sendings, SentFields, a \in Seq(Responses), LenProperties
<1>2. PICK b : b = Append(a, r)
  OBVIOUS
<1>3. Len(b) = answers + 1 /\ b[answers + 1] = r /\ \A i \in 1 .. answers : b[i] = a[i]
  BY ONLY <1>1, <1>2, a \in Seq(Responses), r \in Responses, AppendProperties
<1>4. /\ \A j \in 0 .. sends : pos[j] \in Nat
      /\ \A i, j \in 0 .. sends : i <= j => pos[i] <= pos[j]
  BY ONLY <1>1, pos \in Ends(sent, m) DEF Ends
<1>5. \A j \in 1 .. sends : sent[j].counter \in Nat /\ sent[j].size \in Nat
  BY ONLY <1>1, sent \in Sendings, SentFields
<1>6. Booked(e, sent) /\ Listed(s, k, sent, pos)
  BY ONLY Account(s, c, e, n, g, k, sent, live, pos) DEF Account
<1>7. ASSUME ~ r.blocked, NEW x \in w, x[1] = k, NEW j \in 0 .. sends, j = 0 \/ sent[j].counter <= c
      PROVE  pos[j] < x[2]
  <2>1. PICK i \in 1 .. len : x \in Contents(s[i]) /\ s[i].from = k
    BY ONLY <1>1, <1>7, ~ r.blocked => AllOnTheWay(w, s, k) DEF AllOnTheWay
  <2>2. s[i] \in Packages /\ s[i].header \in Nat
    BY ONLY <1>1, s \in Seq(Packages), ElementOfSeq, PackageFields
  <2>3. PICK data : data = PayloadOf(s[i])
    OBVIOUS
  <2>4. PICK at \in 1 .. Len(data) : x = data[at]
    BY ONLY <2>1, <2>3 DEF Contents
  <2>5. IsData(s[i])
    <3>1. SUFFICES ASSUME ~ IsData(s[i]) PROVE FALSE
      OBVIOUS
    <3>2. Len(data) = 0
      BY ONLY <2>2, <2>3, <3>1, PackageFields
    <3>3. QED BY ONLY <2>4, <3>2
  <2>6. PICK h \in 1 .. sends : Covers(s[i], h, sent, pos, k)
    BY ONLY <1>1, <1>6, <2>1, <2>5 DEF Listed
  <2>7. x = <<k, pos[h - 1] + at>> /\ at \in Nat /\ at >= 1 /\ s[i].header = sent[h].counter
    BY ONLY <1>5, <2>3, <2>4, <2>6 DEF Covers
  <2>8. c < sent[h].counter
    <3>1. ~ IsOpen(s[i])
      BY ONLY <2>5 DEF IsData, IsOpen
    <3>2. QED BY ONLY <1>1, <2>7, <3>1, Numbered(s, c, e, fresh) DEF Numbered
  <2>9. j < h
    <3>1. CASE j = 0
      BY ONLY <3>1, h \in 1 .. sends, sends \in Nat
    <3>2. CASE j # 0
      <4>1. j \in 1 .. sends /\ sent[j].counter <= c
        BY ONLY <1>7, <3>2, sends \in Nat
      <4>2. h < j => sent[h].counter < sent[j].counter
        BY ONLY <1>1, <1>6, <4>1 DEF Booked
      <4>3. PICK y, z : y = sent[j].counter /\ z = sent[h].counter
        OBVIOUS
      <4>4. y \in Nat /\ z \in Nat /\ y <= c /\ c < z /\ (h < j => z < y) /\ (h = j => z = y)
        BY ONLY <1>5, <2>8, <4>1, <4>2, <4>3
      <4>5. QED BY ONLY <4>1, <4>4, c \in Nat, sends \in Nat
    <3>3. QED BY ONLY <3>1, <3>2
  <2>10. h - 1 \in 0 .. sends /\ j <= h - 1
    BY ONLY <2>9, sends \in Nat
  <2>11. pos[j] <= pos[h - 1] /\ pos[j] \in Nat /\ pos[h - 1] \in Nat
    BY ONLY <1>4, <2>10
  <2>12. QED BY ONLY <2>7, <2>11
<1>8. ASSUME NEW i \in 1 .. answers + 1, ~ b[i].blocked, NEW x \in w, x[1] = k,
             NEW j \in 0 .. sends, j = 0 \/ sent[j].counter <= b[i].counter
      PROVE  pos[j] < x[2]
  <2>1. CASE i = answers + 1
    BY ONLY <1>3, <1>7, <1>8, <2>1, r.counter = c
  <2>2. CASE i # answers + 1
    <3>1. i \in 1 .. answers /\ b[i] = a[i]
      BY ONLY <1>3, <2>2, answers \in Nat
    <3>2. QED BY ONLY <1>1, <1>8, <3>1, Free(w, a, blocked, k, sent, pos) DEF Free
  <2>3. QED BY ONLY <2>1, <2>2
<1>9. QED BY ONLY <1>1, <1>2, <1>3, <1>8, Free(w, a, blocked, k, sent, pos) DEF Free

-----------------------------------------------------------------------------
(* The first connection.                                                   *)

LEMMA LinkTypes ==
  ASSUME TypeOK, conns <= 1
  PROVE  /\ conns \in {0, 1} /\ conn \in {0, conns} /\ fwConns \in 0 .. conns /\ fwConn \in {0, fwConns}
         /\ conns = 1 => 1 \in 1 .. MaxConns
         /\ up \in [1 .. MaxConns -> Seq(Packages)] /\ down \in [1 .. MaxConns -> Seq(Responses)]
         /\ outbox \in Seq(Packages) /\ Len(outbox) <= 1
         /\ gen \in Nat /\ clients \in Nat /\ consumed \in Nat /\ client \in {0, clients}
         /\ counter \in Nat /\ eventCounter \in Nat
         /\ out \in Seq(Bytes) /\ uart \in Ports /\ uart.ring \in Seq(Bytes)
         /\ Len(uart.ring) <= RingCapacity
         /\ Received \in Nat /\ Len(out) \in Nat /\ Len(uart.ring) \in Nat
         /\ tracker \in Trackers /\ tracker.sent \in Sendings
<1>1. /\ conns \in 0 .. MaxConns /\ conn \in {0, conns} /\ fwConns \in 0 .. conns /\ fwConn \in {0, fwConns}
      /\ up \in [1 .. MaxConns -> Seq(Packages)] /\ down \in [1 .. MaxConns -> Seq(Responses)]
      /\ outbox \in Seq(Packages) /\ Len(outbox) <= 1
  BY ONLY TypeOK DEF TypeOK, ClientTypeOK, NetworkTypeOK, FirmwareTypeOK
<1>2. conns \in {0, 1} /\ (conns = 1 => 1 \in 1 .. MaxConns)
  BY ONLY <1>1, Bounds, conns <= 1
<1>3. /\ gen \in Nat /\ clients \in Nat /\ consumed \in Nat /\ client \in {0, clients}
      /\ counter \in Nat /\ eventCounter \in Nat
  BY ONLY TypeOK, Bounds DEF TypeOK, ClientTypeOK, FirmwareTypeOK, Counters
<1>4. out \in Seq(Bytes) /\ uart \in Ports
  BY ONLY TypeOK DEF TypeOK, FirmwareTypeOK, Ports
<1>5. uart.ring \in Seq(Bytes) /\ Len(uart.ring) <= RingCapacity
  BY ONLY <1>4, PortFields, Bounds
<1>6. Len(out) \in Nat /\ Len(uart.ring) \in Nat /\ Received \in Nat
  BY ONLY <1>4, <1>5, LenProperties DEF Received
<1>7. tracker \in Trackers
  BY ONLY TypeOK DEF TypeOK, ClientTypeOK, Trackers
<1>8. tracker.sent \in Sendings
  BY ONLY <1>7 DEF Trackers, Sendings
<1>9. QED BY ONLY <1>1, <1>2, <1>3, <1>4, <1>5, <1>6, <1>7, <1>8

\* The stream, case by case.
Shape ==
  /\ Live <=> conn = 1 /\ (fwConn = 1 \/ fwConns = 0)
  /\ Live => conns = 1 /\ conn = 1 /\ Stream = up[1] \o outbox
  /\ ~ Live /\ conns = 1 /\ (fwConn = 1 \/ fwConns = 0) => Stream = up[1]
  /\ ~ Live /\ ~ (conns = 1 /\ (fwConn = 1 \/ fwConns = 0)) => Stream = << >>

LEMMA StreamCases ==
  ASSUME TypeOK, conns <= 1
  PROVE  Shape
<1>1. conns \in {0, 1} /\ conn \in {0, conns} /\ fwConns \in 0 .. conns /\ fwConn \in {0, fwConns}
  BY ONLY TypeOK, conns <= 1, LinkTypes
<1>2. Live <=> conn = 1 /\ (fwConn = 1 \/ fwConns = 0)
  BY ONLY <1>1 DEF Live, Reaches
<1>3. conns = 1 => (Waiting(conns) <=> (fwConn = 1 \/ fwConns = 0))
  BY ONLY <1>1 DEF Waiting
<1>4. QED BY ONLY <1>1, <1>2, <1>3 DEF Stream, Shape

LEMMA NextStreamCases == (TypeOK /\ conns <= 1 => Shape)'
<1>1. TypeOK /\ conns <= 1 => Shape
  BY StreamCases
<1>2. QED BY <1>1, PTL

LEMMA StreamTypes ==
  ASSUME TypeOK, Line, conns <= 1
  PROVE  Stream \in Seq(Current(gen, clients, consumed)) /\ Stream \in Seq(Packages)
<1>1. PICK C : C = Current(gen, clients, consumed)
  OBVIOUS
<1>2. C \subseteq Packages
  BY ONLY <1>1 DEF Current
<1>3. outbox \in Seq(C)
  BY ONLY <1>1, Line DEF Line, ToBeSent
<1>4. conns = 1 /\ (fwConn = 1 \/ fwConns = 0) => up[1] \in Seq(C)
  <2>1. conns = 1 /\ (fwConn = 1 \/ fwConns = 0) => 1 \in 1 .. MaxConns /\ Waiting(1)
    BY ONLY TypeOK, conns <= 1, LinkTypes DEF Waiting
  <2>2. QED BY ONLY <1>1, <2>1, Line DEF Line, OnItsWay
<1>5. << >> \in Seq(C)
  BY ONLY EmptySeq
<1>6. Stream \in Seq(C)
  BY ONLY <1>3, <1>4, <1>5, TypeOK, conns <= 1, StreamCases, ConcatProperties DEF Shape
<1>7. QED BY ONLY <1>1, <1>2, <1>6, SeqMonotonic

LEMMA NextStreamTypes == (TypeOK /\ Line /\ conns <= 1 => Stream \in Seq(Packages))'
<1>1. TypeOK /\ Line /\ conns <= 1 => Stream \in Seq(Packages)
  BY StreamTypes
<1>2. QED BY <1>1, PTL

\* The bytes of the window were read from the local clients.
LEMMA WindowBounds ==
  ASSUME TypeOK, Line, Order, conns <= 1
  PROVE  /\ Window(uart.ring, Stream) \subseteq Nat \X Nat
         /\ \A x \in Window(uart.ring, Stream) : x[1] <= clients /\ (x[1] = clients => x[2] <= consumed)
         /\ \A i \in 1 .. Len(Stream) : \A x \in Contents(Stream[i]) : x[1] = Stream[i].from
<1>1. PICK s, ring : s = Stream /\ ring = uart.ring
  OBVIOUS
<1>2. PICK k, m : k = clients /\ m = consumed
  OBVIOUS
<1>3. k \in Nat /\ m \in Nat /\ gen \in Nat /\ ring \in Seq(Bytes)
  BY ONLY <1>1, <1>2, TypeOK, conns <= 1, LinkTypes
<1>4. s \in Seq(Current(gen, k, m))
  BY ONLY <1>1, <1>2, TypeOK, Line, conns <= 1, StreamTypes
<1>5. Bytes \subseteq Nat \X Nat
  BY Bounds DEF Bytes
<1>6. ASSUME NEW i \in 1 .. Len(s), NEW x \in Contents(s[i])
      PROVE  x \in Bytes /\ x[1] = s[i].from /\ x[1] <= k /\ (x[1] = k => x[2] <= m)
  <2>1. PICK p : p = s[i]
    OBVIOUS
  <2>2. p \in Current(gen, k, m)
    BY ONLY <1>4, <2>1, ElementOfSeq
  <2>3. p \in Packages
    BY ONLY <2>2 DEF Current
  <2>4. PICK data : data = PayloadOf(p)
    OBVIOUS
  <2>5. PICK at \in 1 .. Len(data) : x = data[at]
    BY ONLY <1>6, <2>1, <2>4 DEF Contents
  <2>6. IsData(p)
    <3>1. ~ IsData(p) => Len(data) = 0
      BY ONLY <2>3, <2>4, PackageFields
    <3>2. Len(data) # 0
      BY ONLY <2>5
    <3>3. QED BY ONLY <3>1, <3>2
  <2>7. data = p.request.data
    BY ONLY <2>3, <2>4, <2>6, PackageFields
  <2>8. p.from <= k /\ data \in Seq({b \in Bytes : b[1] = p.from /\ (p.from = k => b[2] <= m)})
    BY ONLY <2>2, <2>6, <2>7 DEF Current, IsData, Carries
  <2>9. x \in {b \in Bytes : b[1] = p.from /\ (p.from = k => b[2] <= m)}
    BY ONLY <2>5, <2>8, ElementOfSeq
  <2>10. QED BY ONLY <2>1, <2>8, <2>9
<1>7. ASSUME NEW i \in 1 .. Len(ring)
      PROVE  ring[i] \in Read(k, m)
  <2>1. PICK line : line = out \o ring
    OBVIOUS
  <2>2. line \in Seq(Read(k, m))
    BY ONLY <1>1, <1>2, <2>1, Order DEF Order, InOrder
  <2>3. PICK o \in Nat, r \in Nat : o = Len(out) /\ r = Len(ring) /\ out \in Seq(Bytes)
    BY ONLY <1>1, TypeOK, conns <= 1, LinkTypes
  <2>4. Len(line) = o + r /\ \A j \in 1 .. o + r : line[j] = IF j <= o THEN out[j] ELSE ring[j - o]
    BY ONLY <1>3, <2>1, <2>3, ConcatProperties
  <2>5. o + i \in 1 .. o + r /\ ~ (o + i <= o) /\ (o + i) - o = i
    BY ONLY <2>3
  <2>6. line[o + i] = ring[i]
    BY ONLY <2>4, <2>5
  <2>7. line[o + i] \in Read(k, m)
    BY ONLY <2>2, <2>4, <2>5, ElementOfSeq
  <2>8. QED BY ONLY <2>6, <2>7
<1>8. ASSUME NEW x \in Window(ring, s)
      PROVE  x \in Bytes /\ x[1] <= k /\ (x[1] = k => x[2] <= m)
  <2>1. CASE \E i \in 1 .. Len(s) : x \in Contents(s[i])
    BY ONLY <1>6, <2>1
  <2>2. CASE \E i \in Half + 1 .. Len(ring) : x = ring[i]
    <3>1. PICK i \in Half + 1 .. Len(ring) : x = ring[i]
      BY ONLY <2>2
    <3>2. i \in 1 .. Len(ring)
      BY ONLY <1>3, HalfType, LenProperties
    <3>3. x \in Read(k, m)
      BY ONLY <1>7, <3>1, <3>2
    <3>4. x \in Bytes /\ (x[1] < k \/ (x[1] = k /\ x[2] <= m))
      BY ONLY <3>3 DEF Read
    <3>5. x[1] \in Nat
      BY ONLY <1>5, <3>4
    <3>6. QED BY ONLY <1>3, <3>4, <3>5
  <2>3. QED BY ONLY <1>8, <2>1, <2>2 DEF Window
<1>9. QED BY ONLY <1>1, <1>2, <1>5, <1>6, <1>8

-----------------------------------------------------------------------------
(* The steps that leave the stream alone or cut it.                        *)

\* A connection is lost, or one is made before anything was sent.
LEMMA LiveKeepsAccount ==
  ASSUME NEW s, NEW c, NEW e, NEW n, NEW g, NEW k, NEW sent, NEW live, NEW pos,
         Account(s, c, e, n, g, k, sent, live, pos), NEW live2,
         live2 => live \/ sent = << >>
  PROVE  Account(s, c, e, n, g, k, sent, live2, pos)
<1>1. sent = << >> => 1 .. Len(sent) = {}
  OBVIOUS
<1>2. UnderWay(s, c, k, sent, live2, pos)
  BY ONLY <1>1, live2 => live \/ sent = << >>, Account(s, c, e, n, g, k, sent, live, pos)
     DEF Account, UnderWay
<1>3. QED BY ONLY <1>2, Account(s, c, e, n, g, k, sent, live, pos) DEF Account

LEMMA StillKeepsFlow ==
  ASSUME Flow, Stream' = Stream, Answers' = Answers, Live' => Live \/ tracker.sent = << >>,
         FreshPort' <=> FreshPort, Received' = Received,
         UNCHANGED <<counter, eventCounter, gen, clients, consumed, tracker>>,
         Live' /\ client' # 0 /\ ~ resetPending' => Live /\ client # 0 /\ ~ resetPending,
         Window(uart'.ring, Stream) \subseteq Window(uart.ring, Stream)
  PROVE  Counted' /\ Chained' /\ Narrow(Window(uart.ring, Stream))' /\ Ledger'
<1>1. Counted /\ Chained /\ Narrow(Window(uart.ring, Stream)) /\ Ledger
  BY ONLY Flow DEF Flow
<1>2. Counted'
  <2>1. PICK fresh \in BOOLEAN : fresh <=> FreshPort
    OBVIOUS
  <2>2. Numbered(Stream, counter, eventCounter, fresh)
    BY ONLY <1>1, <2>1, Zenon DEF Counted, Numbered
  <2>3. Numbered(Stream', counter', eventCounter', FreshPort')
    BY ONLY <2>1, <2>2, FreshPort' <=> FreshPort, Stream' = Stream, UNCHANGED <<counter, eventCounter>>
       DEF Numbered
  <2>4. QED BY ONLY <1>1, <2>3, Answers' = Answers, UNCHANGED <<counter, eventCounter>> DEF Counted
<1>3. Chained'
  <2>1. PICK at \in Marks(Stream, <<gen, Received>>) :
          Live /\ client # 0 /\ ~ resetPending => at[Len(Stream)] = <<clients, consumed>>
    BY ONLY <1>1 DEF Chained
  <2>2. /\ at \in Marks(Stream', <<gen', Received'>>)
        /\ Live' /\ client' # 0 /\ ~ resetPending' => at[Len(Stream')] = <<clients', consumed'>>
    BY ONLY <2>1, Stream' = Stream, Received' = Received, UNCHANGED <<gen, clients, consumed>>,
       Live' /\ client' # 0 /\ ~ resetPending' => Live /\ client # 0 /\ ~ resetPending
  <2>3. QED BY ONLY <2>2 DEF Chained
<1>4. Narrow(Window(uart.ring, Stream))'
  BY ONLY <1>1, Stream' = Stream, Window(uart'.ring, Stream) \subseteq Window(uart.ring, Stream) DEF Narrow
<1>5. Ledger'
  <2>1. PICK pos \in Ends(tracker.sent, consumed) :
          /\ Account(Stream, counter, eventCounter, Received, gen, clients, tracker.sent, Live, pos)
          /\ Free(Window(uart.ring, Stream), Answers, tracker.blocked, clients, tracker.sent, pos)
    BY ONLY <1>1 DEF Ledger
  <2>2. Account(Stream, counter, eventCounter, Received, gen, clients, tracker.sent, Live', pos)
    BY ONLY <2>1, Live' => Live \/ tracker.sent = << >>, LiveKeepsAccount
  <2>3. Account(Stream', counter', eventCounter', Received', gen', clients', tracker'.sent, Live', pos)
    BY ONLY <2>2, Stream' = Stream, Received' = Received,
       UNCHANGED <<counter, eventCounter, gen, clients, tracker>>
  <2>4. Free(Window(uart'.ring, Stream), Answers, tracker.blocked, clients, tracker.sent, pos)
    BY ONLY <2>1, Window(uart'.ring, Stream) \subseteq Window(uart.ring, Stream), FreeNarrows
  <2>5. Free(Window(uart'.ring, Stream'), Answers', tracker'.blocked, clients', tracker'.sent, pos)
    BY ONLY <2>4, Stream' = Stream, Answers' = Answers, UNCHANGED <<clients, tracker>>
  <2>6. pos \in Ends(tracker'.sent, consumed')
    BY ONLY <2>1, UNCHANGED <<consumed, tracker>>
  <2>7. QED BY ONLY <2>3, <2>5, <2>6 DEF Ledger
<1>6. QED BY ONLY <1>2, <1>3, <1>4, <1>5

LEMMA FrontInWindow ==
  ASSUME NEW ring, NEW s \in Seq(Packages), NEW t \in Seq(Packages), FrontOf(t, s)
  PROVE  Window(ring, t) \subseteq Window(ring, s)
<1>1. PICK len \in Nat, cut \in Nat : len = Len(s) /\ cut = Len(t)
  BY ONLY s \in Seq(Packages), t \in Seq(Packages), LenProperties
<1>2. cut <= len /\ \A i \in 1 .. cut : t[i] = s[i]
  BY ONLY <1>1, FrontOf(t, s) DEF FrontOf
<1>3. \A i \in 1 .. cut : i \in 1 .. len
  BY ONLY <1>2, len \in Nat, cut \in Nat
<1>4. \A i \in 1 .. Len(t) : \E j \in 1 .. Len(s) : t[i] = s[j]
  BY ONLY <1>1, <1>2, <1>3
<1>5. QED BY ONLY <1>4, WindowOfPart

LEMMA CutKeepsFlow ==
  ASSUME Flow, Stream \in Seq(Packages), Stream' \in Seq(Packages), FrontOf(Stream', Stream), ~ Live',
         Answers' \in {Answers, << >>}, (FreshPort' <=> FreshPort) \/ Stream' = << >>,
         UNCHANGED <<counter, eventCounter, gen, clients, consumed, tracker, out, uart>>
  PROVE  Counted' /\ Chained' /\ Narrow(Window(uart.ring, Stream))' /\ Ledger'
<1>1. Counted /\ Chained /\ Narrow(Window(uart.ring, Stream)) /\ Ledger
  BY ONLY Flow DEF Flow
<1>2. PICK s, t : s = Stream /\ t = Stream'
  OBVIOUS
<1>3. s \in Seq(Packages) /\ t \in Seq(Packages) /\ FrontOf(t, s)
  BY ONLY <1>2, Stream \in Seq(Packages), Stream' \in Seq(Packages), FrontOf(Stream', Stream)
<1>4. Received' = Received
  BY ONLY UNCHANGED <<out, uart>> DEF Received
<1>5. Window(uart'.ring, t) \subseteq Window(uart.ring, s)
  BY ONLY <1>3, FrontInWindow, UNCHANGED uart
<1>6. PICK fresh \in BOOLEAN : fresh <=> FreshPort
  OBVIOUS
<1>7. Numbered(s, counter, eventCounter, fresh)
  BY ONLY <1>1, <1>2, <1>6, Zenon DEF Counted, Numbered
<1>8. Counted'
  <2>1. Numbered(t, counter, eventCounter, fresh)
    BY ONLY <1>3, <1>7, NumbersOfFront
  <2>2. Numbered(t, counter, eventCounter, FreshPort')
    <3>1. CASE FreshPort' <=> FreshPort
      BY ONLY <1>6, <2>1, <3>1 DEF Numbered
    <3>2. CASE t = << >>
      BY ONLY <3>2 DEF Numbered
    <3>3. QED BY ONLY <1>2, <3>1, <3>2, (FreshPort' <=> FreshPort) \/ Stream' = << >>
  <2>3. Answered(Answers', counter)
    <3>1. CASE Answers' = Answers
      BY ONLY <1>1, <3>1 DEF Counted
    <3>2. CASE Answers' = << >>
      BY ONLY <3>2 DEF Answered
    <3>3. QED BY ONLY <3>1, <3>2, Answers' \in {Answers, << >>}
  <2>4. QED BY ONLY <1>1, <1>2, <2>2, <2>3, UNCHANGED <<counter, eventCounter>> DEF Counted
<1>9. Chained'
  <2>1. PICK at : at \in Marks(s, <<gen, Received>>)
    BY ONLY <1>1, <1>2 DEF Chained
  <2>2. \E to \in Marks(t, <<gen, Received>>) : TRUE
    BY ONLY <1>3, <2>1, MarksOfFront
  <2>3. QED BY ONLY <1>2, <1>4, <2>2, ~ Live', UNCHANGED gen DEF Chained
<1>10. Narrow(Window(uart.ring, Stream))'
  BY ONLY <1>1, <1>2, <1>5 DEF Narrow
<1>11. Ledger'
  <2>1. PICK pos \in Ends(tracker.sent, consumed) :
          /\ Account(s, counter, eventCounter, Received, gen, clients, tracker.sent, Live, pos)
          /\ Free(Window(uart.ring, s), Answers, tracker.blocked, clients, tracker.sent, pos)
    BY ONLY <1>1, <1>2 DEF Ledger
  <2>2. Account(t, counter, eventCounter, Received, gen, clients, tracker.sent, FALSE, pos)
    BY ONLY <1>3, <1>7, <2>1, CutKeepsAccount
  <2>3. Account(t, counter, eventCounter, Received, gen, clients, tracker.sent, Live', pos)
    BY ONLY <2>2, ~ Live', LiveKeepsAccount
  <2>4. Account(Stream', counter', eventCounter', Received', gen', clients', tracker'.sent, Live', pos)
    BY ONLY <1>2, <1>4, <2>3, UNCHANGED <<counter, eventCounter, gen, clients, tracker>>
  <2>5. Free(Window(uart'.ring, t), Answers, tracker.blocked, clients, tracker.sent, pos)
    BY ONLY <1>5, <2>1, FreeNarrows
  <2>6. Free(Window(uart'.ring, t), Answers', tracker.blocked, clients, tracker.sent, pos)
    <3>1. CASE Answers' = Answers
      BY ONLY <2>5, <3>1
    <3>2. CASE Answers' = << >>
      BY ONLY <2>5, <3>2 DEF Free
    <3>3. QED BY ONLY <3>1, <3>2, Answers' \in {Answers, << >>}
  <2>7. Free(Window(uart'.ring, Stream'), Answers', tracker'.blocked, clients', tracker'.sent, pos)
    BY ONLY <1>2, <2>6, UNCHANGED <<clients, tracker>>
  <2>8. pos \in Ends(tracker'.sent, consumed')
    BY ONLY <2>1, UNCHANGED <<consumed, tracker>>
  <2>9. QED BY ONLY <2>4, <2>7, <2>8 DEF Ledger
<1>12. QED BY ONLY <1>8, <1>9, <1>10, <1>11

LEMMA DeviceStays ==
  ASSUME Flow, UNCHANGED <<gen, out, overrun>>, uart'.ring = uart.ring
  PROVE  DeviceGetsItsClient' /\ NoRemoteOverrun'
BY DEF Flow, DeviceGetsItsClient, NoRemoteOverrun

LEMMA SendKeepsFlow ==
  ASSUME TypeOK, TypeOK', Line, conns <= 1, Flow, Send
  PROVE  Flow'
<1>1. /\ conns \in {0, 1} /\ conn \in {0, conns} /\ fwConns \in 0 .. conns /\ fwConn \in {0, fwConns}
      /\ conns = 1 => 1 \in 1 .. MaxConns
      /\ up \in [1 .. MaxConns -> Seq(Packages)] /\ outbox \in Seq(Packages) /\ Len(outbox) <= 1
  BY ONLY TypeOK, conns <= 1, LinkTypes
<1>2. PICK package : package = outbox[1]
  OBVIOUS
<1>3. /\ outbox # << >> /\ package.useTCP /\ outbox' = << >>
      /\ UNCHANGED <<eventCounter, openPending, resetPending, connected, client, clients, consumed,
                     tracker, conn, conns, down, udpDown, fwConn, fwConns, serverStarted, counter,
                     pollIntervalSetPending, uart, gen, out, overrun>>
  BY ONLY <1>2, Send, Line DEF Send, Line, ToBeSent, roundVars, portVars, linkVars, pollVars, history, NoPackage
<1>4. up' = IF Live THEN [up EXCEPT ![conn] = Append(up[conn], package)] ELSE up
  BY ONLY <1>2, <1>3, Send DEF Send, Live
<1>5. outbox = <<package>> /\ package \in Packages
  <2>1. Len(outbox) = 1
    <3>1. outbox \in Seq(Packages) /\ outbox # << >> /\ Len(outbox) <= 1
      BY ONLY <1>1, <1>3
    <3>2. PICK len : len = Len(outbox)
      OBVIOUS
    <3>3. len \in Nat \ {0}
      BY ONLY <3>1, <3>2, EmptySeq
    <3>4. QED BY ONLY <3>1, <3>2, <3>3
  <2>2. package \in Packages
    BY ONLY <1>1, <1>2, <2>1, ElementOfSeq
  <2>3. outbox \in [1 .. 1 -> Packages]
    BY ONLY <1>1, <2>1, LenProperties
  <2>4. QED BY ONLY <1>2, <2>2, <2>3
<1>6. Shape /\ Shape'
  BY ONLY <1>3, TypeOK, TypeOK', conns <= 1, StreamCases, NextStreamCases
<1>7. Live' <=> Live
  BY ONLY <1>3 DEF Live, Reaches
<1>8. Stream' = Stream
  <2>1. CASE Live
    <3>1. conn = 1 /\ conns = 1 /\ up[1] \in Seq(Packages) /\ up'[1] = Append(up[1], package)
      BY ONLY <1>1, <1>4, <1>6, <2>1 DEF Shape
    <3>2. Append(up[1], package) = up[1] \o <<package>> /\ Append(up[1], package) \in Seq(Packages)
      BY ONLY <1>5, <3>1, AppendIsConcat, AppendProperties
    <3>3. Append(up[1], package) \o << >> = Append(up[1], package)
      BY ONLY <3>2, ConcatEmptySeq
    <3>4. Stream = up[1] \o outbox /\ Stream' = up'[1] \o outbox'
      BY ONLY <1>6, <1>7, <2>1 DEF Shape
    <3>5. QED BY ONLY <1>3, <1>5, <3>1, <3>2, <3>3, <3>4
  <2>2. CASE ~ Live
    BY ONLY <1>3, <1>4, <1>6, <1>7, <2>2 DEF Shape
  <2>3. QED BY ONLY <2>1, <2>2
<1>9. /\ Answers' = Answers /\ (FreshPort' <=> FreshPort) /\ (AtStart' <=> AtStart) /\ Received' = Received
      /\ UNCHANGED <<counter, eventCounter, gen, clients, consumed, tracker>>
  BY ONLY <1>3 DEF Answers, FreshPort, AtStart, Received
<1>10. Window(uart'.ring, Stream) \subseteq Window(uart.ring, Stream)
  BY ONLY <1>3
<1>11. Counted' /\ Chained' /\ Narrow(Window(uart.ring, Stream))' /\ Ledger'
  BY ONLY <1>3, <1>7, <1>8, <1>9, <1>10, Flow, StillKeepsFlow
<1>12. Started'
  <2>1. eventCounter # 0
    BY ONLY <1>3, Flow DEF Flow, Started
  <2>2. QED BY ONLY <1>3, <1>7, <1>8, <1>9, <2>1, Flow DEF Flow, Started
<1>13. DeviceGetsItsClient' /\ NoRemoteOverrun'
  BY ONLY <1>3, Flow, DeviceStays
<1>14. QED BY ONLY <1>11, <1>12, <1>13 DEF Flow

\* Without packages to the firmware that were sent, it has nothing to go by.
LEMMA FrontHead ==
  ASSUME NEW s \in Seq(Packages), NEW t \in Seq(Packages), FrontOf(t, s), t # << >>
  PROVE  s # << >> /\ Head(t) = Head(s)
<1>1. PICK len \in Nat, cut \in Nat : len = Len(s) /\ cut = Len(t)
  BY ONLY s \in Seq(Packages), t \in Seq(Packages), LenProperties
<1>2. cut # 0
  BY ONLY <1>1, t \in Seq(Packages), t # << >>, EmptySeq
<1>3. cut <= len /\ \A i \in 1 .. cut : t[i] = s[i]
  BY ONLY <1>1, FrontOf(t, s) DEF FrontOf
<1>4. len # 0 /\ 1 \in 1 .. cut
  BY ONLY <1>2, <1>3, len \in Nat, cut \in Nat
<1>5. s # << >>
  BY ONLY <1>1, <1>4, EmptySeq
<1>6. Head(s) = s[1] /\ Head(t) = t[1]
  BY ONLY <1>5, t # << >>, s \in Seq(Packages), t \in Seq(Packages), HeadTailProperties
<1>7. QED BY ONLY <1>3, <1>4, <1>5, <1>6

LEMMA DisconnectKeepsFlow ==
  ASSUME TypeOK, TypeOK', Line, Line', conns <= 1, Flow, Disconnect
  PROVE  Flow'
<1>1. /\ conns \in {0, 1} /\ conn \in {0, conns} /\ fwConns \in 0 .. conns /\ fwConn \in {0, fwConns}
      /\ conns = 1 => 1 \in 1 .. MaxConns
      /\ up \in [1 .. MaxConns -> Seq(Packages)] /\ outbox \in Seq(Packages)
  BY ONLY TypeOK, conns <= 1, LinkTypes
<1>2. /\ conn # 0 /\ conn' = 0
      /\ UNCHANGED <<eventCounter, openPending, resetPending, connected, client, clients, consumed, outbox,
                     tracker, conns, up, down, udpDown, fwConn, fwConns, serverStarted, counter,
                     pollIntervalSetPending, uart, gen, out, overrun>>
  BY ONLY Disconnect DEF Disconnect, clientVars, roundVars, portVars, udpVars, linkVars, pollVars, history
<1>3. Shape /\ Shape' /\ Stream \in Seq(Packages) /\ Stream' \in Seq(Packages)
  BY ONLY <1>2, TypeOK, TypeOK', Line, Line', conns <= 1, StreamCases, NextStreamCases, StreamTypes,
     NextStreamTypes
<1>4. ~ Live'
  BY ONLY <1>2, <1>3 DEF Shape
<1>5. conns = 1 /\ up[1] \in Seq(Packages)
  BY ONLY <1>1, <1>2
<1>6. FrontOf(Stream', Stream)
  <2>1. CASE Live
    <3>1. Stream' = up[1] /\ Stream = up[1] \o outbox
      BY ONLY <1>2, <1>3, <1>4, <1>5, <2>1 DEF Shape
    <3>2. PICK s, t : s = up[1] /\ t = outbox
      OBVIOUS
    <3>3. PICK len \in Nat, size \in Nat : len = Len(s) /\ size = Len(t)
      BY ONLY <1>1, <1>5, <3>2, LenProperties
    <3>4. /\ Len(s \o t) = len + size
          /\ \A i \in 1 .. len + size : (s \o t)[i] = IF i <= len THEN s[i] ELSE t[i - len]
      BY ONLY <1>1, <1>5, <3>2, <3>3, ConcatProperties
    <3>5. FrontOf(s, s \o t)
      BY ONLY <3>3, <3>4 DEF FrontOf
    <3>6. QED BY ONLY <3>1, <3>2, <3>5
  <2>2. CASE ~ Live
    <3>1. Stream' = << >>
      BY ONLY <1>1, <1>2, <1>3, <1>4, <2>2 DEF Shape
    <3>2. Len(<< >>) = 0 /\ Len(Stream) \in Nat
      BY ONLY <1>3, LenProperties
    <3>3. QED BY ONLY <3>1, <3>2 DEF FrontOf
  <2>3. QED BY ONLY <2>1, <2>2
<1>7. (FreshPort' <=> FreshPort) /\ (AtStart' <=> AtStart) /\ Answers' = << >>
  BY ONLY <1>2 DEF FreshPort, AtStart, Answers
<1>8. Counted' /\ Chained' /\ Narrow(Window(uart.ring, Stream))' /\ Ledger'
  BY ONLY <1>2, <1>3, <1>4, <1>6, <1>7, Flow, CutKeepsFlow
<1>9. Stream' # << >> => Stream # << >> /\ Head(Stream') = Head(Stream)
  BY ONLY <1>3, <1>6, FrontHead
<1>10. Started'
  BY ONLY <1>2, <1>4, <1>7, <1>9, Flow DEF Flow, Started
<1>11. DeviceGetsItsClient' /\ NoRemoteOverrun'
  BY ONLY <1>2, Flow, DeviceStays
<1>12. QED BY ONLY <1>8, <1>10, <1>11 DEF Flow

LEMMA DropKeepsFlow ==
  ASSUME TypeOK, TypeOK', Line, conns <= 1, Flow, Drop
  PROVE  Flow'
<1>1. conns \in {0, 1} /\ conn \in {0, conns} /\ fwConns \in 0 .. conns /\ fwConn \in {0, fwConns}
  BY ONLY TypeOK, conns <= 1, LinkTypes
<1>2. /\ fwConn # 0 /\ fwConn' = 0 /\ ~ serverStarted' /\ ~ pollIntervalSetPending'
      /\ UNCHANGED <<eventCounter, openPending, resetPending, connected, client, clients, consumed, outbox,
                     tracker, conn, conns, up, down, udpDown, fwConns, counter, uart, gen, out, overrun>>
  BY ONLY Drop DEF Drop, ServeTCP, clientVars, roundVars, portVars, tcpVars, udpVars, history
<1>3. Shape' /\ Stream \in Seq(Packages)
  BY ONLY <1>2, TypeOK, TypeOK', Line, conns <= 1, NextStreamCases, StreamTypes
<1>4. fwConns = 1
  BY ONLY <1>1, <1>2
<1>5. ~ Live' /\ Stream' = << >>
  BY ONLY <1>2, <1>3, <1>4 DEF Shape
<1>6. << >> \in Seq(Packages) /\ Len(<< >>) = 0 /\ Len(Stream) \in Nat
  BY ONLY <1>3, EmptySeq, LenProperties
<1>7. Stream' \in Seq(Packages) /\ FrontOf(Stream', Stream)
  BY ONLY <1>5, <1>6 DEF FrontOf
<1>8. Answers' = Answers
  BY ONLY <1>2 DEF Answers
<1>9. Counted' /\ Chained' /\ Narrow(Window(uart.ring, Stream))' /\ Ledger'
  BY ONLY <1>2, <1>3, <1>5, <1>7, <1>8, Flow, CutKeepsFlow
<1>10. Started'
  BY ONLY <1>2, <1>4, <1>5, Flow DEF Flow, Started, AtStart
<1>11. DeviceGetsItsClient' /\ NoRemoteOverrun'
  BY ONLY <1>2, Flow, DeviceStays
<1>12. QED BY ONLY <1>9, <1>10, <1>11 DEF Flow

LEMMA ConnectKeepsFlow ==
  ASSUME TypeOK, TypeOK', Line, conns <= 1, conns' <= 1, Flow, Connect
  PROVE  Flow'
<1>1. conns \in {0, 1} /\ conn \in {0, conns} /\ fwConns \in 0 .. conns /\ fwConn \in {0, fwConns}
  BY ONLY TypeOK, conns <= 1, LinkTypes
<1>2. /\ conn = 0 /\ conns = 0 /\ conns < MaxConns /\ conn' = 1 /\ conns' = 1 /\ connected' /\ udpDown' = << >>
      /\ UNCHANGED <<eventCounter, openPending, resetPending, client, clients, consumed, outbox,
                     tracker, up, down, fwConn, fwConns, serverStarted, counter,
                     pollIntervalSetPending, uart, gen, out, overrun>>
  BY ONLY <1>1, conns' <= 1, Connect DEF Connect, roundVars, linkVars, pollVars, history
<1>3. Shape /\ Shape'
  BY ONLY TypeOK, TypeOK', conns <= 1, conns' <= 1, StreamCases, NextStreamCases
<1>4. 1 \in 1 .. MaxConns /\ 1 > conns /\ fwConns = 0 /\ fwConn = 0
  BY ONLY <1>1, <1>2, Bounds
<1>5. up[1] = << >> /\ down[1] = << >>
  BY ONLY <1>4, Line, Flow DEF Line, OnItsWay, Flow, Started
<1>6. eventCounter = 0 /\ outbox = << >> /\ tracker.sent = << >> /\ (client # 0 => resetPending)
  BY ONLY <1>2, Flow DEF Flow, Started
<1>7. << >> \o << >> = << >>
  BY ONLY EmptySeq, ConcatEmptySeq
<1>8. Stream = << >> /\ Stream' = << >> /\ Live'
  BY ONLY <1>2, <1>3, <1>4, <1>5, <1>6, <1>7 DEF Shape
<1>9. Answers' = Answers /\ (FreshPort' <=> FreshPort) /\ (AtStart' <=> AtStart) /\ Received' = Received
  BY ONLY <1>2, <1>5 DEF Answers, FreshPort, AtStart, Received
<1>10. Window(uart'.ring, Stream) \subseteq Window(uart.ring, Stream)
  BY ONLY <1>2
<1>11. Counted' /\ Chained' /\ Narrow(Window(uart.ring, Stream))' /\ Ledger'
  BY ONLY <1>2, <1>6, <1>8, <1>9, <1>10, Flow, StillKeepsFlow
<1>12. Started'
  <2>1. \A c \in 1 .. MaxConns : c > 1 => down[c] = << >>
    BY ONLY <1>2, Flow, Bounds DEF Flow, Started
  <2>2. QED BY ONLY <1>2, <1>4, <1>6, <1>8, <1>9, <2>1, Flow DEF Flow, Started
<1>13. DeviceGetsItsClient' /\ NoRemoteOverrun'
  BY ONLY <1>2, Flow, DeviceStays
<1>14. QED BY ONLY <1>11, <1>12, <1>13 DEF Flow

LEMMA AcceptKeepsFlow ==
  ASSUME TypeOK, TypeOK', conns <= 1, Flow, Accept
  PROVE  Flow'
<1>1. conns \in {0, 1} /\ conn \in {0, conns} /\ fwConns \in 0 .. conns /\ fwConn \in {0, fwConns}
  BY ONLY TypeOK, conns <= 1, LinkTypes
<1>2. /\ fwConns = 0 /\ conns = 1 /\ fwConns' = 1 /\ fwConn' = 1 /\ ~ serverStarted' /\ pollIntervalSetPending'
      /\ UNCHANGED <<eventCounter, openPending, resetPending, connected, client, clients, consumed, outbox,
                     tracker, conn, conns, up, down, udpDown, counter, uart, gen, out, overrun>>
  BY ONLY <1>1, Accept DEF Accept, ServeTCP, clientVars, roundVars, portVars, tcpVars, udpVars, history
<1>3. Shape /\ Shape'
  BY ONLY <1>2, TypeOK, TypeOK', conns <= 1, StreamCases, NextStreamCases
<1>4. (Live' <=> Live) /\ Stream' = Stream
  BY ONLY <1>2, <1>3 DEF Shape
<1>5. Answers' = Answers /\ (FreshPort' <=> FreshPort) /\ AtStart' /\ AtStart /\ Received' = Received
  BY ONLY <1>2 DEF Answers, FreshPort, AtStart, Received
<1>6. Window(uart'.ring, Stream) \subseteq Window(uart.ring, Stream)
  BY ONLY <1>2
<1>7. Counted' /\ Chained' /\ Narrow(Window(uart.ring, Stream))' /\ Ledger'
  BY ONLY <1>2, <1>4, <1>5, <1>6, Flow, StillKeepsFlow
<1>8. Started'
  BY ONLY <1>2, <1>4, <1>5, Flow DEF Flow, Started
<1>9. DeviceGetsItsClient' /\ NoRemoteOverrun'
  BY ONLY <1>2, Flow, DeviceStays
<1>10. QED BY ONLY <1>7, <1>8, <1>9 DEF Flow

LEMMA UartKeepsFlow ==
  ASSUME TypeOK, TypeOK', conns <= 1, Flow, EndReset \/ \E room \in 1 .. IOSize : FeedUART(room)
  PROVE  Flow'
<1>1. uart \in Ports /\ uart.ring \in Seq(Bytes) /\ Len(uart.ring) \in Nat
  BY ONLY TypeOK, conns <= 1, LinkTypes
<1>2. /\ UNCHANGED <<eventCounter, openPending, resetPending, connected, client, clients, consumed, outbox,
                     tracker, conn, conns, up, down, udpDown, fwConn, fwConns, serverStarted,
                     pollIntervalSetPending, counter, gen, overrun>>
  BY ONLY EndReset \/ \E room \in 1 .. IOSize : FeedUART(room)
     DEF EndReset, FeedUART, linkVars, pollVars, clientVars, roundVars, portVars, tcpVars, udpVars, history
<1>3. /\ uart'.open = uart.open /\ Received' = Received /\ out' \o uart'.ring = out \o uart.ring
      /\ Window(uart'.ring, Stream) \subseteq Window(uart.ring, Stream)
  <2>1. CASE EndReset
    <3>1. uart' = [uart EXCEPT !.resetting = FALSE] /\ UNCHANGED out
      BY ONLY <2>1 DEF EndReset, ReleaseReset, history
    <3>2. uart'.ring = uart.ring /\ uart'.open = uart.open
      BY ONLY <1>1, <3>1 DEF Ports
    <3>3. QED BY ONLY <3>1, <3>2 DEF Received
  <2>2. ASSUME NEW room \in 1 .. IOSize, FeedUART(room)
        PROVE  /\ uart'.open = uart.open /\ Received' = Received /\ out' \o uart'.ring = out \o uart.ring
               /\ Window(uart'.ring, Stream) \subseteq Window(uart.ring, Stream)
    <3>1. /\ out' \o uart'.ring = out \o uart.ring
          /\ Len(out') + Len(uart'.ring) = Len(out) + Len(uart.ring)
          /\ uart'.open = uart.open
      BY ONLY <2>2, TypeOK, FedBytes, room \in 1 .. IOSize
    <3>2. PICK n \in 1 .. Len(uart.ring) : uart'.ring = SubSeq(uart.ring, n + 1, Len(uart.ring))
      BY ONLY <2>2, TypeOK, FedBytes, room \in 1 .. IOSize
    <3>3. n \in 0 .. Len(uart.ring)
      BY ONLY <1>1, n \in 1 .. Len(uart.ring)
    <3>4. Window(uart'.ring, Stream) \subseteq Window(uart.ring, Stream)
      BY ONLY <1>1, <3>2, <3>3, WindowOfRest
    <3>5. QED BY ONLY <3>1, <3>4 DEF Received
  <2>3. QED BY ONLY <2>1, <2>2, EndReset \/ \E room \in 1 .. IOSize : FeedUART(room)
<1>4. Shape /\ Shape'
  BY ONLY <1>2, TypeOK, TypeOK', conns <= 1, StreamCases, NextStreamCases
<1>5. (Live' <=> Live) /\ Stream' = Stream
  BY ONLY <1>2, <1>4 DEF Shape
<1>6. Answers' = Answers /\ (FreshPort' <=> FreshPort) /\ (AtStart' <=> AtStart)
  BY ONLY <1>2, <1>3 DEF Answers, FreshPort, AtStart
<1>7. Counted' /\ Chained' /\ Narrow(Window(uart.ring, Stream))' /\ Ledger'
  BY ONLY <1>2, <1>3, <1>5, <1>6, Flow, StillKeepsFlow
<1>8. Started'
  BY ONLY <1>2, <1>3, <1>5, <1>6, Flow DEF Flow, Started
<1>9. DeviceGetsItsClient' /\ NoRemoteOverrun'
  BY ONLY <1>2, <1>3, Flow DEF Flow, DeviceGetsItsClient, NoRemoteOverrun
<1>10. QED BY ONLY <1>7, <1>8, <1>9 DEF Flow

\* A round on the first connection: the package q is the next of the stream.
LEMMA RoundGrowsStream ==
  ASSUME TypeOK, TypeOK', ~ useUDP, conns <= 1, Flow, ConnectFirst, NEW request \in Requests,
         Tick, Pack(request), UNCHANGED connected
  PROVE  /\ conns = 1 /\ connected /\ eventCounter' = eventCounter + 1 /\ eventCounter \in Nat /\ outbox = << >>
         /\ UNCHANGED <<conn, conns, up, down, udpDown, fwConn, fwConns, serverStarted, counter,
                        pollIntervalSetPending, uart, gen, out, overrun>>
         /\ Live' <=> Live
         /\ \E q \in Packages :
              /\ q.request = request /\ q.from = client
              /\ request.type # "Open" => q.header = eventCounter + 1
              /\ outbox' = <<q>>
              /\ Stream' = IF Live THEN Append(Stream, q) ELSE Stream
<1>1. /\ conns \in {0, 1} /\ conn \in {0, conns} /\ eventCounter \in Nat
      /\ conns = 1 => 1 \in 1 .. MaxConns
      /\ up \in [1 .. MaxConns -> Seq(Packages)]
  BY ONLY TypeOK, conns <= 1, LinkTypes
<1>2. /\ UNCHANGED <<conn, conns, up, down, udpDown, fwConn, fwConns, serverStarted, counter,
                     pollIntervalSetPending, uart, gen, out, overrun>>
  BY ONLY Pack(request) DEF Pack, tcpVars, udpVars, linkVars, pollVars, history
<1>3. outbox = << >> /\ eventCounter' = eventCounter + 1
  BY ONLY Tick DEF Tick, NoPackage
<1>4. conns = 1 /\ connected
  <2>1. eventCounter' # 0
    BY ONLY <1>1, <1>3
  <2>2. conns # 0
    BY ONLY <2>1, ConnectFirst DEF ConnectFirst
  <2>3. QED BY ONLY <1>1, <2>2, Flow DEF Flow, Started
<1>5. Live' <=> Live
  BY ONLY <1>2 DEF Live, Reaches
<1>6. PICK q : q = outbox'[1]
  OBVIOUS
<1>7. q \in Packages /\ q.request = request /\ q.from = client /\ outbox' = <<q>>
  <2>1. /\ outbox' \in Seq(Packages) /\ Len(outbox') = 1
        /\ q \in Packages /\ q.request = request /\ q.from = client
    BY ONLY <1>6, PackedIsPackage, TypeOK, Tick, Pack(request), request \in Requests DEF TypeOK
  <2>2. outbox' \in [1 .. 1 -> Packages]
    BY ONLY <2>1, LenProperties
  <2>3. QED BY ONLY <1>6, <2>1, <2>2
<1>8. request.type # "Open" => q.header = eventCounter + 1
  <2>1. PICK otherReset \in BOOLEAN :
          outbox' = <<[request |-> request,
                       header  |-> IF request.type = "Open" THEN Interval ELSE eventCounter',
                       useTCP  |-> UsesTCP(request) \/ otherReset,
                       from    |-> client]>>
    BY ONLY Pack(request), Zenon DEF Pack
  <2>2. PICK useTCP : useTCP = (UsesTCP(request) \/ otherReset)
    OBVIOUS
  <2>3. outbox' = <<[request |-> request,
                     header  |-> IF request.type = "Open" THEN Interval ELSE eventCounter',
                     useTCP  |-> useTCP, from |-> client]>>
    BY ONLY <2>1, <2>2, Zenon
  <2>4. QED BY ONLY <1>3, <1>6, <2>3
<1>9. Stream' = IF Live THEN Append(Stream, q) ELSE Stream
  <2>1. Shape /\ Shape'
    BY ONLY <1>2, TypeOK, TypeOK', conns <= 1, StreamCases, NextStreamCases
  <2>2. up[1] \in Seq(Packages)
    BY ONLY <1>1, <1>4
  <2>3. up[1] \o << >> = up[1] /\ Append(up[1], q) = up[1] \o <<q>>
    BY ONLY <1>7, <2>2, ConcatEmptySeq, AppendIsConcat
  <2>4. CASE Live
    <3>1. Stream = up[1] \o outbox /\ Stream' = up'[1] \o outbox'
      BY ONLY <1>5, <2>1, <2>4 DEF Shape
    <3>2. QED BY ONLY <1>2, <1>3, <1>7, <2>3, <2>4, <3>1
  <2>5. CASE ~ Live
    BY ONLY <1>2, <1>5, <2>1, <2>5 DEF Shape
  <2>6. QED BY ONLY <2>4, <2>5
<1>10. QED BY ONLY <1>1, <1>2, <1>3, <1>4, <1>5, <1>7, <1>8, <1>9

\* The first request of the connection stays the Open.
LEMMA RoundKeepsStart ==
  ASSUME Flow, conns = 1, connected', eventCounter' = eventCounter + 1, eventCounter \in Nat, ~ openPending',
         Stream \in Seq(Packages), Live' <=> Live,
         UNCHANGED <<conns, down, udpDown, fwConns, serverStarted, counter, pollIntervalSetPending>>,
         NEW q \in Packages, Stream' = (IF Live THEN Append(Stream, q) ELSE Stream),
         eventCounter = 0 => IsOpen(q),
         resetPending' => client' = clients' /\ consumed' = 0 /\ tracker'.sent = << >>
  PROVE  Started'
<1>1. eventCounter' # 0
  BY ONLY eventCounter' = eventCounter + 1, eventCounter \in Nat
<1>2. AtStart' <=> AtStart
  BY ONLY UNCHANGED <<fwConns, pollIntervalSetPending>> DEF AtStart
<1>3. PICK s, t : s = Stream /\ t = Append(s, q)
  OBVIOUS
<1>4. t # << >> /\ Head(t) = IF s = << >> THEN q ELSE Head(s)
  BY ONLY <1>3, Stream \in Seq(Packages), q \in Packages, AppendProperties, HeadTailAppend
<1>5. AtStart => /\ s # << >> => IsOpen(Head(s))
                 /\ s = << >> => eventCounter = 0 \/ ~ Live
  BY ONLY <1>3, Flow DEF Flow, Started
<1>6. ASSUME AtStart
      PROVE  /\ Stream' # << >> => IsOpen(Head(Stream'))
             /\ Stream' = << >> => ~ Live
  <2>1. CASE Live
    BY ONLY <1>3, <1>4, <1>5, <1>6, <2>1, Stream' = (IF Live THEN Append(Stream, q) ELSE Stream),
       eventCounter = 0 => IsOpen(q)
  <2>2. CASE ~ Live
    BY ONLY <1>3, <1>5, <1>6, <2>2, Stream' = (IF Live THEN Append(Stream, q) ELSE Stream)
  <2>3. QED BY ONLY <2>1, <2>2
<1>7. QED BY ONLY <1>1, <1>2, <1>6, Flow, conns = 1, connected', ~ openPending', Live' <=> Live,
         UNCHANGED <<conns, down, udpDown, fwConns, serverStarted, counter, pollIntervalSetPending>>,
         resetPending' => client' = clients' /\ consumed' = 0 /\ tracker'.sent = << >>
      DEF Flow, Started

\* A round that reads nothing of the local client.
LEMMA IdleRoundKeepsFlow ==
  ASSUME TypeOK, TypeOK', Line, ~ useUDP, conns <= 1, Flow, ConnectFirst, NEW request \in Requests,
         Tick, Pack(request), request.type # "Data", UNCHANGED <<connected, clients, consumed, tracker>>,
         ~ openPending', eventCounter = 0 => request.type = "Open", request.type = "Open" => eventCounter = 0,
         IF request.type = "Reset" THEN resetPending /\ ~ resetPending' ELSE UNCHANGED resetPending,
         client' = client \/ (client' = 0 /\ ~ resetPending)
  PROVE  Flow'
<1>1. /\ conns = 1 /\ connected /\ eventCounter' = eventCounter + 1 /\ eventCounter \in Nat /\ outbox = << >>
      /\ UNCHANGED <<conn, conns, up, down, udpDown, fwConn, fwConns, serverStarted, counter,
                     pollIntervalSetPending, uart, gen, out, overrun>>
      /\ Live' <=> Live
  BY ONLY TypeOK, TypeOK', ~ useUDP, conns <= 1, Flow, ConnectFirst, Tick, Pack(request), UNCHANGED connected,
     request \in Requests, RoundGrowsStream
<1>2. PICK q \in Packages :
        /\ q.request = request /\ q.from = client
        /\ request.type # "Open" => q.header = eventCounter + 1
        /\ Stream' = IF Live THEN Append(Stream, q) ELSE Stream
  BY ONLY TypeOK, TypeOK', ~ useUDP, conns <= 1, Flow, ConnectFirst, Tick, Pack(request), UNCHANGED connected,
     request \in Requests, RoundGrowsStream
<1>3. PICK s, t : s = Stream /\ t = Stream'
  OBVIOUS
<1>4. s \in Seq(Packages) /\ t = IF Live THEN Append(s, q) ELSE s
  BY ONLY <1>2, <1>3, TypeOK, Line, conns <= 1, StreamTypes
<1>5. /\ Counted /\ Chained /\ Narrow(Window(uart.ring, s)) /\ Ledger
      /\ DeviceGetsItsClient /\ NoRemoteOverrun
      /\ resetPending => client = clients /\ consumed = 0 /\ tracker.sent = << >>
      /\ eventCounter = 0 => Stream = << >> /\ ~ uart.open /\ (fwConn # 0 => pollIntervalSetPending)
  BY ONLY <1>3, Flow DEF Flow, Started
<1>6. /\ clients \in Nat /\ consumed \in Nat /\ client \in {0, clients} /\ counter \in Nat /\ gen \in Nat
      /\ tracker.sent \in Sendings /\ Received \in Nat
  BY ONLY TypeOK, conns <= 1, LinkTypes
<1>7. /\ IsOpen(q) <=> request.type = "Open"
      /\ IsReset(q) <=> request.type = "Reset"
      /\ ~ IsData(q) /\ Len(PayloadOf(q)) = 0
  BY ONLY <1>2, request.type # "Data", PackageFields DEF IsOpen, IsReset, IsData
<1>8. Started'
  <2>1. resetPending' => client' = clients' /\ consumed' = 0 /\ tracker'.sent = << >>
    BY ONLY <1>5, UNCHANGED <<clients, consumed, tracker>>, client' = client \/ (client' = 0 /\ ~ resetPending),
       IF request.type = "Reset" THEN resetPending /\ ~ resetPending' ELSE UNCHANGED resetPending
  <2>2. eventCounter = 0 => IsOpen(q)
    BY ONLY <1>7, eventCounter = 0 => request.type = "Open"
  <2>3. connected'
    BY ONLY <1>1, UNCHANGED connected
  <2>4. QED BY ONLY <1>1, <1>2, <1>3, <1>4, <2>1, <2>2, <2>3, Flow, ~ openPending', RoundKeepsStart
<1>9. PICK fresh \in BOOLEAN : fresh <=> FreshPort
  OBVIOUS
<1>10. Counted'
  <2>1. Numbered(s, counter, eventCounter, fresh) /\ counter <= eventCounter /\ Answered(Answers, counter)
    BY ONLY <1>3, <1>5, <1>9, Zenon DEF Counted, Numbered
  <2>2. Numbered(t, counter, eventCounter + 1, fresh)
    <3>1. CASE ~ Live /\ request.type = "Open"
      <4>1. t = << >>
        BY ONLY <1>3, <1>4, <1>5, <3>1, request.type = "Open" => eventCounter = 0
      <4>2. QED BY ONLY <4>1 DEF Numbered
    <3>2. CASE ~ (~ Live /\ request.type = "Open")
      <4>1. ASSUME request.type = "Open"
            PROVE  s = << >> /\ fresh
        <5>1. s = << >> /\ ~ uart.open /\ (fwConn # 0 => pollIntervalSetPending)
          BY ONLY <1>3, <1>5, <4>1, request.type = "Open" => eventCounter = 0
        <5>2. Shape /\ Live
          BY ONLY <3>2, <4>1, TypeOK, conns <= 1, StreamCases
        <5>3. fwConn = 1 \/ fwConns = 0
          BY ONLY <5>2 DEF Shape
        <5>4. QED BY ONLY <1>9, <5>1, <5>3 DEF FreshPort, AtStart
      <4>2. IF IsOpen(q) THEN s = << >> /\ fresh ELSE q.header = eventCounter + 1
        BY ONLY <1>2, <1>7, <4>1
      <4>3. /\ Numbered(s, counter, eventCounter + 1, fresh)
            /\ Numbered(Append(s, q), counter, eventCounter + 1, fresh)
        BY ONLY <1>1, <1>4, <1>6, <2>1, <4>2, NumbersGrow
      <4>4. QED BY ONLY <1>4, <4>3
    <3>3. QED BY ONLY <3>1, <3>2
  <2>3. FreshPort' <=> fresh
    BY ONLY <1>1, <1>9 DEF FreshPort, AtStart
  <2>4. Numbered(Stream', counter', eventCounter', FreshPort')
    BY ONLY <1>1, <1>3, <2>2, <2>3, Zenon DEF Numbered
  <2>5. counter' <= eventCounter'
    BY ONLY <1>1, <1>6, <2>1
  <2>6. Answers' = Answers
    BY ONLY <1>1 DEF Answers
  <2>7. QED BY ONLY <1>1, <2>1, <2>4, <2>5, <2>6 DEF Counted
<1>11. Chained'
  <2>1. PICK start : start = <<gen, Received>>
    OBVIOUS
  <2>2. start = <<gen, Received>>' 
    BY ONLY <1>1, <2>1 DEF Received
  <2>3. PICK at \in Marks(s, start) :
          Live /\ client # 0 /\ ~ resetPending => at[Len(s)] = <<clients, consumed>>
    BY ONLY <1>3, <1>5, <2>1 DEF Chained
  <2>4. CASE ~ Live
    BY ONLY <1>1, <1>3, <1>4, <2>2, <2>3, <2>4 DEF Chained
  <2>5. CASE Live
    <3>1. Fits(at[Len(s)], q)
      BY ONLY <1>7 DEF Fits
    <3>2. PICK to \in Marks(t, start) : to[Len(t)] = After(at[Len(s)], q)
      BY ONLY <1>4, <2>3, <2>5, <3>1, MarksGrow
    <3>3. at[Len(s)] \in Nat \X Nat
      <4>1. Len(s) \in 0 .. Len(s)
        BY ONLY <1>4, LenProperties
      <4>2. QED BY ONLY <2>3, <4>1 DEF Marks
    <3>4. ASSUME client' # 0, ~ resetPending'
          PROVE  After(at[Len(s)], q) = <<clients, consumed>>
      <4>1. client # 0 /\ client = clients
        BY ONLY <1>6, <3>4, client' = client \/ (client' = 0 /\ ~ resetPending)
      <4>2. CASE IsReset(q)
        <5>1. consumed = 0 /\ q.from = clients
          BY ONLY <1>2, <1>5, <1>7, <4>1, <4>2,
             IF request.type = "Reset" THEN resetPending /\ ~ resetPending' ELSE UNCHANGED resetPending
        <5>2. QED BY ONLY <4>2, <5>1 DEF After
      <4>3. CASE ~ IsReset(q)
        <5>1. at[Len(s)] = <<clients, consumed>>
          BY ONLY <1>7, <2>3, <2>5, <3>4, <4>1, <4>3,
             IF request.type = "Reset" THEN resetPending /\ ~ resetPending' ELSE UNCHANGED resetPending
        <5>2. After(at[Len(s)], q) = <<clients, consumed + 0>>
          BY ONLY <1>7, <4>3, <5>1 DEF After
        <5>3. QED BY ONLY <1>6, <5>2
      <4>4. QED BY ONLY <4>2, <4>3
    <3>5. Live' /\ client' # 0 /\ ~ resetPending' => to[Len(t)] = <<clients', consumed'>>
      BY ONLY <3>2, <3>4, UNCHANGED <<clients, consumed>>
    <3>6. QED BY ONLY <1>3, <2>2, <3>2, <3>5 DEF Chained
  <2>6. QED BY ONLY <2>4, <2>5
<1>12. Window(uart.ring, t) = Window(uart.ring, s)
  <2>1. CASE ~ Live
    BY ONLY <1>4, <2>1
  <2>2. CASE Live
    <3>1. Window(uart.ring, t) = Window(uart.ring, s) \cup Contents(q)
      BY ONLY <1>4, <2>2, WindowGrows, q \in Packages
    <3>2. Contents(q) = {}
      BY ONLY <1>7 DEF Contents
    <3>3. QED BY ONLY <3>1, <3>2
  <2>3. QED BY ONLY <2>1, <2>2
<1>13. Window(uart'.ring, Stream') = Window(uart.ring, s)
  BY ONLY <1>1, <1>3, <1>12
<1>14. Narrow(Window(uart.ring, Stream))'
  BY ONLY <1>5, <1>13 DEF Narrow
<1>15. Ledger'
  <2>1. PICK live \in BOOLEAN : live <=> Live
    OBVIOUS
  <2>2. PICK pos \in Ends(tracker.sent, consumed) :
          /\ Account(s, counter, eventCounter, Received, gen, clients, tracker.sent, live, pos)
          /\ Free(Window(uart.ring, s), Answers, tracker.blocked, clients, tracker.sent, pos)
    BY ONLY <1>3, <1>5, <2>1, Zenon DEF Ledger, Account, UnderWay
  <2>3. IsReset(q) => consumed = 0 /\ tracker.sent = << >>
    BY ONLY <1>5, <1>7,
       IF request.type = "Reset" THEN resetPending /\ ~ resetPending' ELSE UNCHANGED resetPending
  <2>4. t = IF live THEN Append(s, q) ELSE s
    BY ONLY <1>4, <2>1
  <2>5. Account(t, counter, eventCounter + 1, Received, gen, clients, tracker.sent, live, pos)
    BY ONLY <1>1, <1>4, <1>6, <1>7, <2>2, <2>3, <2>4, q \in Packages, IdleKeepsAccount
  <2>6. Account(Stream', counter', eventCounter', Received', gen', clients', tracker'.sent, live, pos)
    BY ONLY <1>1, <1>3, <2>5, UNCHANGED <<clients, tracker>> DEF Received
  <2>7. Account(Stream', counter', eventCounter', Received', gen', clients', tracker'.sent, Live', pos)
    BY ONLY <1>1, <2>1, <2>6, LiveKeepsAccount
  <2>8. Answers' = Answers
    BY ONLY <1>1 DEF Answers
  <2>9. Free(Window(uart'.ring, Stream'), Answers', tracker'.blocked, clients', tracker'.sent, pos)
    BY ONLY <1>13, <2>2, <2>8, UNCHANGED <<clients, tracker>>
  <2>10. pos \in Ends(tracker'.sent, consumed')
    BY ONLY <2>2, UNCHANGED <<consumed, tracker>>
  <2>11. QED BY ONLY <2>7, <2>9, <2>10 DEF Ledger
<1>16. DeviceGetsItsClient' /\ NoRemoteOverrun'
  BY ONLY <1>1, Flow, DeviceStays
<1>17. QED BY ONLY <1>8, <1>10, <1>11, <1>14, <1>15, <1>16 DEF Flow

\* The limit counts from the first byte that is not confirmed.
LEMMA RoomAtRemote ==
  ASSUME NEW t \in Trackers, NEW m \in Nat, NEW pos \in Ends(t.sent, m), NEW n \in Nat \ {0},
         n <= GetAvailSpace(t)
  PROVE  /\ ~ t.blocked /\ pos[0] \in Nat /\ pos[0] <= m /\ m + n <= pos[0] + BufferLimit
<1>1. Outstanding(t) = m - pos[0]
  BY ONLY t \in Trackers, m \in Nat, pos \in Ends(t.sent, m), OutstandingIsRest
<1>2. pos[0] \in Nat /\ pos[0] <= m
  <2>1. t.sent \in Sendings
    BY ONLY t \in Trackers DEF Trackers, Sendings
  <2>2. Len(t.sent) \in Nat
    BY ONLY <2>1, SentFields
  <2>3. 0 \in 0 .. Len(t.sent) /\ Len(t.sent) \in 0 .. Len(t.sent) /\ 0 <= Len(t.sent)
    BY ONLY <2>2
  <2>4. pos[0] \in Nat /\ pos[0] <= pos[Len(t.sent)] /\ pos[Len(t.sent)] = m
    BY ONLY <2>3, pos \in Ends(t.sent, m) DEF Ends
  <2>5. QED BY ONLY <2>4
<1>3. PICK rest, blocked : rest = Outstanding(t) /\ blocked = t.blocked
  OBVIOUS
<1>4. GetAvailSpace(t) = IF blocked \/ rest > BufferLimit THEN 0 ELSE BufferLimit - rest
  BY ONLY <1>3 DEF GetAvailSpace
<1>5. BufferLimit \in Nat
  BY BufferLimitAssumption
<1>6. PICK first : first = pos[0]
  OBVIOUS
<1>7. ~ blocked
  BY ONLY <1>4, n \in Nat \ {0}, n <= GetAvailSpace(t)
<1>8. m + n <= first + BufferLimit
  BY ONLY <1>1, <1>2, <1>3, <1>4, <1>5, <1>6, m \in Nat, n \in Nat \ {0}, n <= GetAvailSpace(t)
<1>9. QED BY ONLY <1>2, <1>3, <1>6, <1>7, <1>8

\* A round that reads of the local client.
LEMMA DataRoundKeepsFlow ==
  ASSUME TypeOK, TypeOK', Line, Order, ~ useUDP, conns <= 1, Flow, ConnectFirst, NEW n \in 1 .. MaxBytes,
         PrepareData(n)
  PROVE  Flow'
<1>1. PICK data : data = [i \in 1 .. n |-> <<client, consumed + i>>]
  OBVIOUS
<1>2. PICK request : request = Request("Data", 0, data)
  OBVIOUS
<1>3. request \in Requests /\ request.type = "Data" /\ request.data = data
  <2>1. request \in Requests
    BY ONLY <1>1, <1>2, DataIsFresh, TypeOK, PrepareData(n), n \in 1 .. MaxBytes DEF TypeOK
  <2>2. QED BY ONLY <1>2, <2>1 DEF Request
<1>4. Pack(request)
  BY ONLY <1>1, <1>2, PrepareData(n), Zenon DEF PrepareData
<1>5. /\ Tick /\ UNCHANGED <<connected, clients, client, openPending, resetPending>>
      /\ ~ openPending /\ ~ resetPending /\ client # 0 /\ n <= GetAvailSpace(tracker)
      /\ consumed' = consumed + n /\ tracker' = AddPackage(tracker, n, eventCounter')
  BY ONLY PrepareData(n) DEF PrepareData, MayRead
<1>6. /\ conns = 1 /\ connected /\ eventCounter' = eventCounter + 1 /\ eventCounter \in Nat /\ outbox = << >>
      /\ UNCHANGED <<conn, conns, up, down, udpDown, fwConn, fwConns, serverStarted, counter,
                     pollIntervalSetPending, uart, gen, out, overrun>>
      /\ Live' <=> Live
  BY ONLY <1>3, <1>4, <1>5, TypeOK, TypeOK', ~ useUDP, conns <= 1, Flow, ConnectFirst, RoundGrowsStream
<1>7. PICK q \in Packages :
        /\ q.request = request /\ q.from = client
        /\ request.type # "Open" => q.header = eventCounter + 1
        /\ Stream' = IF Live THEN Append(Stream, q) ELSE Stream
  BY ONLY <1>3, <1>4, <1>5, TypeOK, TypeOK', ~ useUDP, conns <= 1, Flow, ConnectFirst, RoundGrowsStream
<1>8. PICK s, t : s = Stream /\ t = Stream'
  OBVIOUS
<1>9. s \in Seq(Packages) /\ t = IF Live THEN Append(s, q) ELSE s
  BY ONLY <1>7, <1>8, TypeOK, Line, conns <= 1, StreamTypes
<1>10. /\ Counted /\ Chained /\ Narrow(Window(uart.ring, s)) /\ Ledger
       /\ DeviceGetsItsClient /\ NoRemoteOverrun /\ eventCounter # 0
  BY ONLY <1>5, <1>8, Flow DEF Flow, Started
<1>11. /\ clients \in Nat /\ consumed \in Nat /\ client = clients /\ counter \in Nat /\ gen \in Nat
       /\ tracker \in Trackers /\ tracker' \in Trackers /\ tracker.sent \in Sendings /\ tracker'.sent \in Sendings
       /\ Received \in Nat
  <2>1. tracker' \in Trackers
    BY ONLY TypeOK' DEF TypeOK, ClientTypeOK, Trackers
  <2>2. tracker'.sent \in Sendings
    BY ONLY <2>1 DEF Trackers, Sendings
  <2>3. QED BY ONLY <1>5, <2>1, <2>2, TypeOK, conns <= 1, LinkTypes
<1>12. /\ IsData(q) /\ ~ IsOpen(q) /\ ~ IsReset(q) /\ PayloadOf(q) = data /\ Len(data) = n /\ n \in Nat \ {0}
       /\ q.header = eventCounter + 1 /\ q.from = clients
       /\ \A i \in 1 .. n : PayloadOf(q)[i] = <<clients, consumed + i>>
  <2>1. n \in Nat \ {0} /\ Len(data) = n /\ \A i \in 1 .. n : data[i] = <<client, consumed + i>>
    BY ONLY <1>1, n \in 1 .. MaxBytes, Bounds
  <2>2. IsData(q) /\ ~ IsOpen(q) /\ ~ IsReset(q) /\ PayloadOf(q) = data
    BY ONLY <1>3, <1>7 DEF IsData, IsOpen, IsReset, PayloadOf
  <2>3. QED BY ONLY <1>3, <1>7, <1>11, <2>1, <2>2
<1>13. /\ tracker'.sent = Append(tracker.sent, [counter |-> eventCounter + 1, size |-> n])
       /\ tracker'.blocked = tracker.blocked
  BY ONLY <1>5, <1>6, <1>11 DEF AddPackage, Trackers
<1>14. Started'
  BY ONLY <1>5, <1>6, <1>7, <1>8, <1>9, <1>10, Flow, RoundKeepsStart
<1>15. PICK fresh \in BOOLEAN : fresh <=> FreshPort
  OBVIOUS
<1>16. Numbered(s, counter, eventCounter, fresh) /\ counter <= eventCounter /\ Answered(Answers, counter)
  BY ONLY <1>8, <1>10, <1>15, Zenon DEF Counted, Numbered
<1>17. Answers' = Answers
  BY ONLY <1>6 DEF Answers
<1>18. Counted'
  <2>1. /\ Numbered(s, counter, eventCounter + 1, fresh)
        /\ Numbered(Append(s, q), counter, eventCounter + 1, fresh)
    BY ONLY <1>6, <1>9, <1>11, <1>12, <1>16, NumbersGrow
  <2>2. FreshPort' <=> fresh
    BY ONLY <1>6, <1>15 DEF FreshPort, AtStart
  <2>3. Numbered(Stream', counter', eventCounter', FreshPort')
    BY ONLY <1>6, <1>8, <1>9, <2>1, <2>2, Zenon DEF Numbered
  <2>4. counter' <= eventCounter'
    BY ONLY <1>6, <1>11, <1>16
  <2>5. QED BY ONLY <1>6, <1>16, <1>17, <2>3, <2>4 DEF Counted
<1>19. Chained'
  <2>1. PICK start : start = <<gen, Received>>
    OBVIOUS
  <2>2. start = <<gen, Received>>'
    BY ONLY <1>6, <2>1 DEF Received
  <2>3. PICK at \in Marks(s, start) :
          Live /\ client # 0 /\ ~ resetPending => at[Len(s)] = <<clients, consumed>>
    BY ONLY <1>8, <1>10, <2>1 DEF Chained
  <2>4. CASE ~ Live
    BY ONLY <1>6, <1>8, <1>9, <2>2, <2>3, <2>4 DEF Chained
  <2>5. CASE Live
    <3>1. at[Len(s)] = <<clients, consumed>>
      BY ONLY <1>5, <2>3, <2>5
    <3>2. Fits(at[Len(s)], q)
      BY ONLY <1>12, <3>1 DEF Fits
    <3>3. PICK to \in Marks(t, start) : to[Len(t)] = After(at[Len(s)], q)
      BY ONLY <1>9, <2>3, <2>5, <3>2, MarksGrow
    <3>4. After(at[Len(s)], q) = <<clients, consumed + n>>
      BY ONLY <1>12, <3>1 DEF After
    <3>5. Live' /\ client' # 0 /\ ~ resetPending' => to[Len(t)] = <<clients', consumed'>>
      BY ONLY <1>5, <3>3, <3>4
    <3>6. QED BY ONLY <1>8, <2>2, <3>3, <3>5 DEF Chained
  <2>6. QED BY ONLY <2>4, <2>5
<1>20. PICK w, w2 : w = Window(uart.ring, s) /\ w2 = Window(uart.ring, t)
  OBVIOUS
<1>21. w2 \subseteq w \cup Contents(q) /\ Window(uart'.ring, Stream') = w2
  <2>1. CASE ~ Live
    BY ONLY <1>6, <1>8, <1>9, <1>20, <2>1
  <2>2. CASE Live
    <3>1. w2 = w \cup Contents(q)
      BY ONLY <1>9, <1>20, <2>2, WindowGrows, q \in Packages
    <3>2. QED BY ONLY <1>6, <1>8, <1>20, <3>1
  <2>3. QED BY ONLY <2>1, <2>2
<1>22. PICK live \in BOOLEAN : live <=> Live
  OBVIOUS
<1>23. PICK pos \in Ends(tracker.sent, consumed) :
         /\ Account(s, counter, eventCounter, Received, gen, clients, tracker.sent, live, pos)
         /\ Free(w, Answers, tracker.blocked, clients, tracker.sent, pos)
  BY ONLY <1>8, <1>10, <1>20, <1>22, Zenon DEF Ledger, Account, UnderWay
<1>24. ~ tracker.blocked /\ pos[0] \in Nat /\ pos[0] <= consumed /\ consumed + n <= pos[0] + BufferLimit
  BY ONLY <1>5, <1>11, <1>12, <1>23, RoomAtRemote
<1>25. /\ w \in SUBSET (Nat \X Nat)
       /\ \A x \in w : x[1] = clients => x[2] <= consumed
  BY ONLY <1>8, <1>20, TypeOK, Line, Order, conns <= 1, WindowBounds
<1>26. Narrow(w2)
  <2>1. PICK first : first = pos[0]
    OBVIOUS
  <2>2. Within(w, clients, first, consumed)
    BY ONLY <1>23, <1>24, <1>25, <2>1 DEF Free, Within
  <2>3. Narrow(w) /\ n \in Nat
    BY ONLY <1>10, <1>12, <1>20
  <2>4. Contents(q) = Run(clients, consumed, n)
    BY ONLY <1>12 DEF Contents, Run
  <2>5. w2 \subseteq w \cup Run(clients, consumed, n)
    BY ONLY <1>21, <2>4
  <2>6. QED BY ONLY <1>11, <1>24, <1>25, <2>2, <2>1, <2>3, <2>5, NarrowGrows
<1>27. Ledger'
  <2>1. t = IF live THEN Append(s, q) ELSE s
    BY ONLY <1>9, <1>22
  <2>2. PICK sent, more, k, m, c, e, h, a, received, sending :
          /\ sent = tracker.sent /\ more = tracker'.sent /\ k = clients /\ m = consumed
          /\ c = counter /\ e = eventCounter /\ h = eventCounter + 1 /\ a = Answers /\ received = Received
          /\ sending = [counter |-> eventCounter + 1, size |-> n]
    OBVIOUS
  <2>3. /\ sent \in Sendings /\ more \in Sendings /\ k \in Nat /\ m \in Nat /\ c \in Nat /\ e \in Nat
        /\ received \in Nat /\ n \in Nat \ {0} /\ h = e + 1
        /\ sending = [counter |-> h, size |-> n] /\ more = Append(sent, sending)
    BY ONLY <1>6, <1>11, <1>12, <1>13, <2>2
  <2>4. Reads(q, k, m, n, h)
    BY ONLY <1>12, <2>2 DEF Reads
  <2>5. /\ Numbered(s, c, e, fresh) /\ c <= e /\ Answered(a, c)
        /\ pos \in Ends(sent, m) /\ Account(s, c, e, received, gen, k, sent, live, pos)
    BY ONLY <1>16, <1>23, <2>2
  <2>6. Free(w, a, FALSE, k, sent, pos)
    BY ONLY <1>23, <1>24, <2>2 DEF Free
  <2>7. PICK m2 : m2 = m + n
    OBVIOUS
  <2>8. OneMore(more, sent, h)
    BY ONLY <1>9, <2>1, <2>3, <2>4, <2>5, <2>7, q \in Packages, DataKeepsAccount
  <2>9. MoreAccount(t, c, h, received, gen, k, more, live, m2, pos, sent, m)
    BY ONLY <1>9, <2>1, <2>3, <2>4, <2>5, <2>7, q \in Packages, DataKeepsAccount
  <2>10. PICK to \in Ends(more, m2) :
          Account(t, c, h, received, gen, k, more, live, to) /\ SameEnds(to, pos, sent, m)
    BY ONLY <2>9, Zenon DEF MoreAccount
  <2>11. a \in Seq(Responses)
    <3>1. conn \in {0, 1} /\ down \in [1 .. MaxConns -> Seq(Responses)] /\ 1 \in 1 .. MaxConns
      BY ONLY <1>6, TypeOK, conns <= 1, LinkTypes
    <3>2. QED BY ONLY <2>2, <3>1, EmptySeq DEF Answers
  <2>12. Free(w2, a, FALSE, k, more, to)
    <3>1. n \in Nat
      BY ONLY <2>3
    <3>2. QED BY ONLY <1>21, <2>3, <2>4, <2>5, <2>6, <2>8, <2>10, <2>11, <3>1, DataKeepsFree
  <2>13. Account(Stream', counter', eventCounter', Received', gen', clients', tracker'.sent, live, to)
    BY ONLY <1>5, <1>6, <1>8, <2>2, <2>10 DEF Received
  <2>14. Account(Stream', counter', eventCounter', Received', gen', clients', tracker'.sent, Live', to)
    BY ONLY <1>6, <1>22, <2>13, LiveKeepsAccount
  <2>15. Free(Window(uart'.ring, Stream'), Answers', tracker'.blocked, clients', tracker'.sent, to)
    BY ONLY <1>5, <1>13, <1>17, <1>21, <1>24, <2>2, <2>12 DEF Free
  <2>16. to \in Ends(tracker'.sent, consumed')
    BY ONLY <1>5, <2>2, <2>7, <2>10
  <2>17. QED BY ONLY <2>14, <2>15, <2>16 DEF Ledger
<1>28. Narrow(Window(uart.ring, Stream))'
  BY ONLY <1>21, <1>26 DEF Narrow
<1>29. DeviceGetsItsClient' /\ NoRemoteOverrun'
  BY ONLY <1>6, Flow, DeviceStays
<1>30. QED BY ONLY <1>14, <1>18, <1>19, <1>27, <1>28, <1>29 DEF Flow

LEMMA RoundKeepsFlow ==
  ASSUME TypeOK, TypeOK', Line, Order, ~ useUDP, conns <= 1, Flow, ConnectFirst,
         \/ PrepareNothing \/ PrepareOpen \/ PrepareReset \/ PrepareIdle \/ PrepareHangup
         \/ \E n \in 1 .. MaxBytes : PrepareData(n)
  PROVE  Flow'
<1>1. /\ openPending <=> eventCounter = 0
      /\ sessionId \in 0 .. SessionLimit
  BY ONLY Flow, TypeOK DEF Flow, Started, TypeOK, ClientTypeOK
<1>2. CASE PrepareNothing \/ PrepareIdle \/ PrepareHangup
  <2>1. PICK request : request = NoCommand
    OBVIOUS
  <2>2. request \in Requests /\ request.type = "NoCommand"
    BY ONLY <2>1 DEF NoCommand, Request, Requests
  <2>3. Tick /\ Pack(request)
    BY ONLY <1>2, <2>1 DEF PrepareNothing, PrepareIdle, PrepareHangup, MayRead
  <2>4. /\ UNCHANGED <<connected, clients, consumed, tracker, openPending, resetPending>>
        /\ client' = client \/ (client' = 0 /\ ~ resetPending)
    BY ONLY <1>2 DEF PrepareNothing, PrepareIdle, PrepareHangup, MayRead, portVars
  <2>5. ~ openPending
    <3>1. CASE PrepareIdle \/ PrepareHangup
      BY ONLY <3>1 DEF PrepareIdle, PrepareHangup, MayRead
    <3>2. CASE PrepareNothing
      <4>1. ~ connected
        BY ONLY <3>2 DEF PrepareNothing
      <4>2. connected
        BY ONLY <2>2, <2>3, <2>4, TypeOK, TypeOK', ~ useUDP, conns <= 1, Flow, ConnectFirst, RoundGrowsStream
      <4>3. QED BY ONLY <4>1, <4>2
    <3>3. QED BY ONLY <1>2, <3>1, <3>2
  <2>6. /\ ~ openPending' /\ request.type # "Data" /\ request.type # "Open" /\ request.type # "Reset"
        /\ eventCounter # 0
    BY ONLY <1>1, <2>2, <2>4, <2>5
  <2>7. QED
    BY ONLY <2>2, <2>3, <2>4, <2>6, TypeOK, TypeOK', Line, ~ useUDP, conns <= 1, Flow, ConnectFirst,
       IdleRoundKeepsFlow
<1>3. CASE PrepareOpen
  <2>1. PICK request : request = Request("Open", 0, <<"speed">>)
    OBVIOUS
  <2>2. request \in Requests /\ request.type = "Open"
    BY ONLY <2>1 DEF Request, Requests
  <2>3. Tick /\ Pack(request)
    BY ONLY <1>3, <2>1, Zenon DEF PrepareOpen
  <2>4. /\ UNCHANGED <<connected, clients, consumed, tracker, resetPending, client>>
        /\ openPending /\ ~ openPending'
    BY ONLY <1>3 DEF PrepareOpen
  <2>5. request.type # "Data" /\ request.type # "Reset" /\ eventCounter = 0
    BY ONLY <1>1, <2>2, <2>4
  <2>6. QED
    BY ONLY <2>2, <2>3, <2>4, <2>5, TypeOK, TypeOK', Line, ~ useUDP, conns <= 1, Flow, ConnectFirst,
       IdleRoundKeepsFlow
<1>4. CASE PrepareReset
  <2>1. PICK request : request = Request("Reset", sessionId, << >>)
    OBVIOUS
  <2>2. request \in Requests /\ request.type = "Reset"
    BY ONLY <1>1, <2>1 DEF Request, Requests
  <2>3. Tick /\ Pack(request)
    BY ONLY <1>4, <2>1, Zenon DEF PrepareReset
  <2>4. /\ UNCHANGED <<connected, clients, consumed, tracker, openPending, client>>
        /\ ~ openPending /\ resetPending /\ ~ resetPending'
    BY ONLY <1>4 DEF PrepareReset
  <2>5. request.type # "Data" /\ request.type # "Open" /\ eventCounter # 0 /\ ~ openPending'
    BY ONLY <1>1, <2>2, <2>4
  <2>6. QED
    BY ONLY <2>2, <2>3, <2>4, <2>5, TypeOK, TypeOK', Line, ~ useUDP, conns <= 1, Flow, ConnectFirst,
       IdleRoundKeepsFlow
<1>5. CASE \E n \in 1 .. MaxBytes : PrepareData(n)
  BY ONLY <1>5, TypeOK, TypeOK', Line, Order, ~ useUDP, conns <= 1, Flow, ConnectFirst, DataRoundKeepsFlow
<1>6. QED
  BY ONLY <1>2, <1>3, <1>4, <1>5,
     \/ PrepareNothing \/ PrepareOpen \/ PrepareReset \/ PrepareIdle \/ PrepareHangup
     \/ \E n \in 1 .. MaxBytes : PrepareData(n)

\* A local client connects: its account is empty and its bytes come after all of
\* those before it.
LEMMA PortOpenKeepsFlow ==
  ASSUME ResetOnConnect = TRUE, TypeOK, Line, Order, conns <= 1, Flow, OnPortOpen
  PROVE  Flow'
<1>1. /\ clients' = clients + 1 /\ client' = clients + 1 /\ consumed' = 0 /\ resetPending'
      /\ tracker' = ResetTracker(tracker)
      /\ UNCHANGED <<eventCounter, openPending, connected, outbox, conn, conns, up, down, udpDown, fwConn,
                     fwConns, serverStarted, counter, pollIntervalSetPending, uart, gen, out, overrun>>
  BY ONLY OnPortOpen, ResetOnConnect = TRUE
     DEF OnPortOpen, roundVars, tcpVars, udpVars, linkVars, pollVars, history
<1>2. /\ clients \in Nat /\ tracker \in Trackers /\ counter \in Nat /\ eventCounter \in Nat
  BY ONLY TypeOK, conns <= 1, LinkTypes
<1>3. tracker'.sent = << >> /\ tracker'.blocked = tracker.blocked
  BY ONLY <1>1, <1>2 DEF ResetTracker, Trackers
<1>4. Stream' = Stream /\ (Live' <=> Live) /\ Answers' = Answers /\ Received' = Received
      /\ (AtStart' <=> AtStart) /\ (FreshPort' <=> FreshPort)
  BY ONLY <1>1 DEF Stream, Live, Reaches, Waiting, Answers, Received, AtStart, FreshPort
<1>5. PICK s, w : s = Stream /\ w = Window(uart.ring, Stream)
  OBVIOUS
<1>6. /\ s \in Seq(Current(gen, clients, consumed)) /\ s \in Seq(Packages)
      /\ w \in SUBSET (Nat \X Nat) /\ \A x \in w : x[1] <= clients
  <2>1. Window(uart.ring, Stream) \subseteq Nat \X Nat /\ \A x \in Window(uart.ring, Stream) : x[1] <= clients
    BY ONLY TypeOK, Line, Order, conns <= 1, WindowBounds
  <2>2. Stream \in Seq(Current(gen, clients, consumed)) /\ Stream \in Seq(Packages)
    BY ONLY TypeOK, Line, conns <= 1, StreamTypes
  <2>3. QED BY ONLY <1>5, <2>1, <2>2
<1>7. \A i \in 1 .. Len(s) : Carries(s[i]) => s[i].from \in Nat /\ s[i].from <= clients
  <2>1. ASSUME NEW i \in 1 .. Len(s) PROVE Carries(s[i]) => s[i].from \in Nat /\ s[i].from <= clients
    <3>1. s[i] \in Current(gen, clients, consumed) /\ s[i] \in Packages
      BY ONLY <1>6, <2>1, ElementOfSeq
    <3>2. s[i].from \in Nat
      BY ONLY <3>1, PackageFields
    <3>3. QED BY ONLY <3>1, <3>2 DEF Current
  <2>2. QED BY ONLY <2>1
<1>8. Started'
  BY ONLY <1>1, <1>3, <1>4, Flow DEF Flow, Started
<1>9. Counted'
  <2>1. PICK fresh \in BOOLEAN : fresh <=> FreshPort
    OBVIOUS
  <2>2. Numbered(s, counter, eventCounter, fresh) /\ counter <= eventCounter /\ Answered(Answers, counter)
    BY ONLY <1>5, <2>1, Flow, Zenon DEF Flow, Counted, Numbered
  <2>3. Numbered(Stream', counter', eventCounter', FreshPort')
    BY ONLY <1>1, <1>4, <1>5, <2>1, <2>2, Zenon DEF Numbered
  <2>4. QED BY ONLY <1>1, <1>4, <2>2, <2>3 DEF Counted
<1>10. Chained'
  BY ONLY <1>1, <1>4, Flow DEF Flow, Chained
<1>11. Narrow(Window(uart.ring, Stream))'
  BY ONLY <1>1, <1>4, Flow DEF Flow, Narrow
<1>12. Ledger'
  <2>1. PICK live, a, blocked : live = Live /\ a = Answers /\ blocked = tracker.blocked
    OBVIOUS
  <2>2. PICK to \in Ends(<< >>, 0) :
          /\ Account(s, counter, eventCounter, Received, gen, clients + 1, << >>, live, to)
          /\ Free(w, a, blocked, clients + 1, << >>, to)
    BY ONLY <1>2, <1>6, <1>7, ClientStartsAccount
  <2>3. to \in Ends(tracker'.sent, consumed')
    BY ONLY <1>1, <1>3, <2>2
  <2>4. Account(Stream', counter', eventCounter', Received', gen', clients', tracker'.sent, live, to)
    BY ONLY <1>1, <1>3, <1>4, <1>5, <2>2
  <2>5. Account(Stream', counter', eventCounter', Received', gen', clients', tracker'.sent, Live', to)
    <3>1. Live' => live \/ tracker'.sent = << >>
      BY ONLY <1>3
    <3>2. QED BY ONLY <2>4, <3>1, LiveKeepsAccount
  <2>6. Free(Window(uart'.ring, Stream'), Answers', tracker'.blocked, clients', tracker'.sent, to)
    BY ONLY <1>1, <1>3, <1>4, <1>5, <2>1, <2>2
  <2>7. QED BY ONLY <2>3, <2>5, <2>6 DEF Ledger
<1>13. DeviceGetsItsClient' /\ NoRemoteOverrun'
  BY ONLY <1>1, Flow, DeviceStays
<1>14. QED BY ONLY <1>8, <1>9, <1>10, <1>11, <1>12, <1>13 DEF Flow

\* What the client hears is no part of the flow.
LEMMA StoreKeepsFlow ==
  ASSUME TypeOK, conns <= 1, Flow, StoreResponse
  PROVE  Flow'
<1>1. UNCHANGED <<eventCounter, openPending, resetPending, connected, client, clients, consumed, outbox,
                  tracker, conn, conns, up, down, udpDown, fwConn, fwConns, serverStarted,
                  pollIntervalSetPending, counter, uart, gen, out, overrun>>
  BY ONLY StoreResponse
     DEF StoreResponse, roundVars, tcpVars, udpVars, linkVars, pollVars, history
<1>2. /\ Stream' = Stream /\ (Live' <=> Live) /\ Received' = Received /\ Answers' = Answers
      /\ (AtStart' <=> AtStart) /\ (FreshPort' <=> FreshPort)
  BY ONLY <1>1 DEF Stream, Live, Reaches, Waiting, Answers, Received, AtStart, FreshPort
<1>3. Counted' /\ Chained' /\ Narrow(Window(uart.ring, Stream))' /\ Ledger'
  BY ONLY <1>1, <1>2, Flow, StillKeepsFlow
<1>4. Started'
  BY ONLY <1>1, <1>2, Flow DEF Flow, Started
<1>5. DeviceGetsItsClient' /\ NoRemoteOverrun'
  BY ONLY <1>1, Flow, DeviceStays
<1>6. QED BY ONLY <1>3, <1>4, <1>5 DEF Flow

\* A response comes to the client: it confirms packages at the front of the
\* account, and what it says of the buffer holds from now on.
LEMMA ReceiveKeepsFlow ==
  ASSUME TypeOK, TypeOK', Line, conns <= 1, Flow, ReceiveTCP
  PROVE  Flow'
<1>1. /\ conn # 0 /\ down[conn] # << >> /\ down' = [down EXCEPT ![conn] = Tail(@)]
      /\ tracker' = ConfirmPackage(tracker, Head(down[conn]).counter, Head(down[conn]).blocked)
      /\ UNCHANGED <<eventCounter, openPending, resetPending, connected, client, clients, consumed, outbox,
                     conn, conns, up, udpDown, fwConn, fwConns, serverStarted, counter,
                     pollIntervalSetPending, uart, gen, out, overrun>>
  BY ONLY ReceiveTCP DEF ReceiveTCP, CheckResponse, roundVars, udpVars, linkVars, pollVars, history
<1>2. /\ conns = 1 /\ conn = 1 /\ 1 \in 1 .. MaxConns /\ down \in [1 .. MaxConns -> Seq(Responses)]
  BY ONLY <1>1, TypeOK, conns <= 1, LinkTypes
<1>3. /\ tracker \in Trackers /\ tracker.sent \in Sendings /\ consumed \in Nat /\ counter \in Nat
      /\ eventCounter \in Nat /\ Received \in Nat
  BY ONLY TypeOK, conns <= 1, LinkTypes
<1>4. PICK a, r : a = Answers /\ r = Head(a)
  OBVIOUS
<1>5. a \in Seq(Responses) /\ a # << >> /\ a = down[1] /\ r \in Responses
  <2>1. a \in Seq(Responses) /\ a # << >> /\ a = down[1]
    BY ONLY <1>1, <1>2, <1>4 DEF Answers
  <2>2. QED BY ONLY <1>4, <2>1, HeadTailProperties
<1>6. Answers' = Tail(a)
  <2>1. down'[1] = Tail(down[1])
    BY ONLY <1>1, <1>2
  <2>2. QED BY ONLY <1>1, <1>2, <1>5, <2>1 DEF Answers
<1>7. /\ Stream' = Stream /\ (Live' <=> Live) /\ Received' = Received
      /\ (AtStart' <=> AtStart) /\ (FreshPort' <=> FreshPort)
  BY ONLY <1>1 DEF Stream, Live, Reaches, Waiting, Received, AtStart, FreshPort
<1>8. r.counter \in Nat
  BY ONLY <1>5, Bounds DEF Responses, Counters
<1>9. PICK rest : rest = tracker'.sent
  OBVIOUS
<1>10. /\ tracker'.blocked = r.blocked /\ rest \in Sendings
       /\ \E d \in 0 .. Len(tracker.sent) : LeavesOf(rest, tracker.sent, d, r.counter)
  <2>1. PICK h, blocked : h = r.counter /\ blocked = r.blocked
    OBVIOUS
  <2>2. tracker' = ConfirmPackage(tracker, h, blocked)
    BY ONLY <1>1, <1>2, <1>4, <1>5, <2>1
  <2>3. QED BY ONLY <1>3, <1>8, <1>9, <2>1, <2>2, ConfirmedIsFront
<1>11. PICK d \in 0 .. Len(tracker.sent) : LeavesOf(rest, tracker.sent, d, r.counter)
  BY ONLY <1>10
<1>12. PICK fresh \in BOOLEAN : fresh <=> FreshPort
  OBVIOUS
<1>13. PICK s : s = Stream
  OBVIOUS
<1>14. s \in Seq(Packages)
  BY ONLY <1>13, TypeOK, Line, conns <= 1, StreamTypes
<1>15. Numbered(s, counter, eventCounter, fresh) /\ counter <= eventCounter /\ Answered(a, counter)
  BY ONLY <1>4, <1>12, <1>13, Flow, Zenon DEF Flow, Counted, Numbered
<1>16. Counted'
  <2>1. Numbered(Stream', counter', eventCounter', FreshPort')
    BY ONLY <1>1, <1>7, <1>12, <1>13, <1>15, Zenon DEF Numbered
  <2>2. PICK n \in Nat : n = Len(a)
    BY ONLY <1>5, LenProperties
  <2>3. PICK b : b = Tail(a)
    OBVIOUS
  <2>4. Len(b) = n - 1 /\ \A i \in 1 .. n - 1 : b[i] = a[i + 1]
    BY ONLY <1>5, <2>2, <2>3, HeadTailProperties
  <2>5. Answered(b, counter)
    BY ONLY <1>15, <2>2, <2>4, n \in Nat DEF Answered
  <2>6. QED BY ONLY <1>1, <1>6, <1>15, <2>1, <2>3, <2>5 DEF Counted
<1>17. Chained'
  BY ONLY <1>1, <1>7, Flow DEF Flow, Chained
<1>18. Narrow(Window(uart.ring, Stream))'
  BY ONLY <1>1, <1>7, Flow DEF Flow, Narrow
<1>19. Ledger'
  <2>1. PICK live, sent, w, blocked : live = Live /\ sent = tracker.sent /\ blocked = tracker.blocked
          /\ w = Window(uart.ring, Stream)
    OBVIOUS
  <2>2. PICK pos \in Ends(sent, consumed) :
          /\ Account(s, counter, eventCounter, Received, gen, clients, sent, live, pos)
          /\ Free(w, a, blocked, clients, sent, pos)
    BY ONLY <1>4, <1>13, <2>1, Flow DEF Flow, Ledger
  <2>3. HasLedger(w, Tail(a), Head(a).blocked, s, counter, eventCounter, Received, gen, clients, rest, live,
                  consumed)
    BY ONLY <1>3, <1>4, <1>5, <1>10, <1>11, <1>14, <1>15, <2>1, <2>2, ConfirmKeepsAccount
  <2>4. PICK to \in Ends(rest, consumed) :
          /\ Account(s, counter, eventCounter, Received, gen, clients, rest, live, to)
          /\ Free(w, Tail(a), r.blocked, clients, rest, to)
    BY ONLY <1>4, <2>3 DEF HasLedger
  <2>5. to \in Ends(tracker'.sent, consumed')
    BY ONLY <1>1, <1>9, <2>4
  <2>6. Account(Stream', counter', eventCounter', Received', gen', clients', tracker'.sent, live, to)
    BY ONLY <1>1, <1>7, <1>9, <1>13, <2>4
  <2>7. Account(Stream', counter', eventCounter', Received', gen', clients', tracker'.sent, Live', to)
    <3>1. Live' => live \/ tracker'.sent = << >>
      BY ONLY <1>7, <2>1
    <3>2. QED BY ONLY <2>6, <3>1, LiveKeepsAccount
  <2>8. Free(Window(uart'.ring, Stream'), Answers', tracker'.blocked, clients', tracker'.sent, to)
    BY ONLY <1>1, <1>6, <1>7, <1>9, <1>10, <2>1, <2>4
  <2>9. QED BY ONLY <2>5, <2>7, <2>8 DEF Ledger
<1>20. Started'
  <2>1. /\ tracker.sent = << >> => tracker'.sent = << >>
        /\ \A c \in 1 .. MaxConns : c > conns => down'[c] = down[c]
    <3>1. tracker.sent = << >> => Len(rest) = 0
      BY ONLY <1>11, EmptySeq DEF LeavesOf
    <3>2. Len(rest) = 0 => rest = << >>
      BY ONLY <1>10, EmptySeq DEF Sendings
    <3>3. QED BY ONLY <1>1, <1>2, <1>9, <3>1, <3>2
  <2>2. QED BY ONLY <1>1, <1>7, <2>1, Flow DEF Flow, Started
<1>21. DeviceGetsItsClient' /\ NoRemoteOverrun'
  BY ONLY <1>1, Flow, DeviceStays
<1>22. QED BY ONLY <1>16, <1>17, <1>18, <1>19, <1>20, <1>21 DEF Flow
-----------------------------------------------------------------------------
(* The firmware handles a request, and answers.                            *)

\* With room in the ring a request adds its data to it, and a reset empties it.
LEMMA RequestAtPort ==
  ASSUME NEW w \in Ports, NEW q \in Packages, IsOpen(q) => ~ w.open,
         Len(w.ring) + Len(PayloadOf(q)) <= RingCapacity
  PROVE  ProcessRequest(w, q.request).ring = IF IsReset(q) THEN << >> ELSE w.ring \o PayloadOf(q)
<1>1. /\ w.ring \in Seq(Bytes) /\ Len(w.ring) \in Nat
  <2>1. w.ring \in Seq(Bytes)
    BY ONLY w \in Ports, PortFields
  <2>2. QED BY ONLY <2>1, LenProperties
<1>2. PICK r, data : r = q.request /\ data = PayloadOf(q)
  OBVIOUS
<1>3. /\ r \in Requests /\ data \in Seq(Bytes) /\ Len(data) \in Nat
      /\ r.type \in {"NoCommand", "Open", "Reset", "Data"}
      /\ r.type = "Data" => data = r.data
      /\ r.type # "Data" => data = << >>
  BY ONLY <1>2, q \in Packages, PackageFields DEF IsData
<1>4. w.ring \o << >> = w.ring
  BY ONLY <1>1, ConcatEmptySeq
<1>5. CASE r.type = "Reset"
  <2>1. ProcessRequest(w, r).ring = << >>
    BY ONLY <1>3, <1>5, w \in Ports, RequestKeepsPort
  <2>2. QED BY ONLY <1>2, <1>5, <2>1 DEF IsReset
<1>6. CASE r.type = "NoCommand"
  <2>1. ProcessRequest(w, r) = w
    BY ONLY <1>6 DEF ProcessRequest
  <2>2. QED BY ONLY <1>2, <1>3, <1>4, <1>6, <2>1 DEF IsReset
<1>7. CASE r.type = "Open"
  <2>1. ~ w.open
    BY ONLY <1>2, <1>7, IsOpen(q) => ~ w.open DEF IsOpen
  <2>2. ProcessRequest(w, r) = OnOpen(w, r.data # << >>)
    BY ONLY <1>7 DEF ProcessRequest
  <2>3. OnOpen(w, r.data # << >>).ring = w.ring
    BY ONLY <2>1, w \in Ports DEF OnOpen, Ports
  <2>4. QED BY ONLY <1>2, <1>3, <1>4, <1>7, <2>2, <2>3 DEF IsReset
<1>8. CASE r.type = "Data"
  <2>1. ProcessRequest(w, r) = OnData(w, data)
    BY ONLY <1>3, <1>8 DEF ProcessRequest
  <2>2. PICK used, size, ring : used = Len(w.ring) /\ size = Len(data) /\ ring = w.ring
    OBVIOUS
  <2>3. Least(size, RingCapacity - used) = size
    BY ONLY <1>1, <1>2, <1>3, <2>2, Bounds, Len(w.ring) + Len(PayloadOf(q)) <= RingCapacity DEF Least
  <2>4. SubSeq(data, 1, size) = data
    BY ONLY <1>3, <2>2, SubSeqFull
  <2>5. OnData(w, data) = [w EXCEPT !.ring = ring \o SubSeq(data, 1, Least(size, RingCapacity - used))]
    BY ONLY <2>2, w \in Ports DEF OnData, Ports
  <2>6. OnData(w, data) = [w EXCEPT !.ring = ring \o data]
    BY ONLY <2>3, <2>4, <2>5
  <2>7. OnData(w, data).ring = ring \o data
    BY ONLY <2>6, w \in Ports DEF Ports
  <2>8. QED BY ONLY <1>2, <1>8, <2>1, <2>2, <2>7 DEF IsReset
<1>9. QED BY ONLY <1>3, <1>5, <1>6, <1>7, <1>8

\* What the device has received goes on with the data of the request.
LEMMA HandledGoesOn ==
  ASSUME TypeOK, conns <= 1, NEW q \in Packages, HandleRequest(q), IsOpen(q) => ~ uart.open,
         Len(uart.ring) + Len(PayloadOf(q)) <= RingCapacity, Fits(<<gen, Received>>, q),
         DeviceGetsItsClient, NoRemoteOverrun
  PROVE  /\ <<gen', Received'>> = After(<<gen, Received>>, q)
         /\ uart'.ring = IF IsReset(q) THEN << >> ELSE uart.ring \o PayloadOf(q)
         /\ DeviceGetsItsClient' /\ NoRemoteOverrun'
<1>1. /\ uart \in Ports /\ uart.ring \in Seq(Bytes) /\ out \in Seq(Bytes) /\ Len(out) \in Nat
      /\ Len(uart.ring) \in Nat /\ Received \in Nat /\ gen \in Nat
  BY ONLY TypeOK, conns <= 1, LinkTypes
<1>2. PICK data : data = PayloadOf(q)
  OBVIOUS
<1>3. /\ data \in Seq(Bytes) /\ Len(data) \in Nat /\ (~ IsData(q) => Len(data) = 0)
  BY ONLY <1>2, q \in Packages, PackageFields
<1>4. /\ uart' = ProcessRequest(uart, q.request)
      /\ IF IsReset(q) THEN gen' = q.from /\ out' = << >> ELSE gen' = gen /\ out' = out
  BY ONLY HandleRequest(q) DEF HandleRequest, IsReset
<1>5. uart'.ring = IF IsReset(q) THEN << >> ELSE uart.ring \o data
  BY ONLY <1>1, <1>2, <1>4, q \in Packages, IsOpen(q) => ~ uart.open,
     Len(uart.ring) + Len(PayloadOf(q)) <= RingCapacity, RequestAtPort
<1>6. NoRemoteOverrun'
  <2>1. q.request.type = "Data" => data = q.request.data
    BY ONLY <1>2, q \in Packages, PackageFields DEF IsData
  <2>2. overrun' = (overrun \/ (q.request.type = "Data" /\ Len(uart.ring) + Len(q.request.data) > RingCapacity))
    BY ONLY HandleRequest(q) DEF HandleRequest
  <2>3. PICK used, size : used = Len(uart.ring) /\ size = Len(data)
    OBVIOUS
  <2>4. ~ (q.request.type = "Data" /\ Len(uart.ring) + Len(q.request.data) > RingCapacity)
    <3>1. used \in Nat /\ size \in Nat /\ used + size <= RingCapacity /\ RingCapacity \in Nat
      BY ONLY <1>1, <1>2, <1>3, <2>3, Bounds, Len(uart.ring) + Len(PayloadOf(q)) <= RingCapacity
    <3>2. ~ (used + size > RingCapacity)
      BY ONLY <3>1
    <3>3. QED BY ONLY <2>1, <2>3, <3>2
  <2>5. QED BY ONLY <2>2, <2>4, NoRemoteOverrun, Zenon DEF NoRemoteOverrun
<1>7. PICK line : line = out \o uart.ring
  OBVIOUS
<1>8. line \in Seq(Bytes) /\ Len(line) = Received /\ \A i \in 1 .. Received : line[i] = <<gen, i>>
  <2>1. line \in Seq(Bytes) /\ Len(line) = Received
    BY ONLY <1>1, <1>7, ConcatProperties DEF Received
  <2>2. QED BY ONLY <1>7, <2>1, DeviceGetsItsClient DEF DeviceGetsItsClient
<1>9. CASE IsReset(q)
  <2>1. out' \o uart'.ring = << >> /\ Received' = 0
    <3>1. Len(<< >>) = 0 /\ << >> \o << >> = << >>
      BY ONLY EmptySeq, ConcatEmptySeq
    <3>2. QED BY ONLY <1>4, <1>5, <1>9, <3>1 DEF Received
  <2>2. DeviceGetsItsClient'
    BY ONLY <2>1, EmptySeq DEF DeviceGetsItsClient
  <2>3. <<gen', Received'>> = After(<<gen, Received>>, q)
    BY ONLY <1>4, <1>9, <2>1 DEF After
  <2>4. QED BY ONLY <1>2, <1>5, <1>6, <2>2, <2>3
<1>10. CASE ~ IsReset(q)
  <2>1. gen' = gen /\ out' = out /\ uart'.ring = uart.ring \o data
    BY ONLY <1>4, <1>5, <1>10
  <2>2. out' \o uart'.ring = line \o data
    <3>1. \A x, y, z \in Seq(Bytes) : (x \o y) \o z = x \o (y \o z)
      BY ConcatAssociative
    <3>2. PICK ring : ring = uart.ring
      OBVIOUS
    <3>3. (out \o ring) \o data = out \o (ring \o data)
      BY ONLY <1>1, <1>3, <3>1, <3>2
    <3>4. QED BY ONLY <1>7, <2>1, <3>2, <3>3
  <2>3. Received' = Received + Len(data)
    <3>1. Len(uart.ring \o data) = Len(uart.ring) + Len(data)
      BY ONLY <1>1, <1>3, ConcatProperties
    <3>2. QED BY ONLY <1>1, <1>3, <2>1, <3>1 DEF Received
  <2>4. <<gen', Received'>> = After(<<gen, Received>>, q)
    BY ONLY <1>2, <1>10, <2>1, <2>3 DEF After
  <2>5. \A i \in 1 .. Len(data) : data[i] = <<gen, Received + i>>
    BY ONLY <1>2, <1>3, Fits(<<gen, Received>>, q) DEF Fits
  <2>6. PICK n \in Nat, size \in Nat : n = Received /\ size = Len(data)
    BY ONLY <1>1, <1>3
  <2>7. PICK after : after = line \o data
    OBVIOUS
  <2>8. /\ Len(after) = n + size /\ \A i \in 1 .. n : after[i] = line[i]
        /\ \A i \in 1 .. size : after[n + i] = data[i]
    <3>1. /\ Len(line \o data) = n + size
          /\ \A i \in 1 .. n + size : (line \o data)[i] = IF i <= n THEN line[i] ELSE data[i - n]
      BY ONLY <1>3, <1>8, <2>6, ConcatProperties
    <3>2. /\ \A i \in 1 .. n : i \in 1 .. n + size /\ i <= n
          /\ \A i \in 1 .. size : n + i \in 1 .. n + size /\ ~ (n + i <= n) /\ (n + i) - n = i
      BY ONLY n \in Nat, size \in Nat
    <3>3. QED BY ONLY <2>7, <3>1, <3>2
  <2>9. ASSUME NEW i \in 1 .. n + size PROVE after[i] = <<gen, i>>
    <3>1. CASE i <= n
      <4>1. i \in 1 .. n
        BY ONLY <2>9, <3>1, n \in Nat, size \in Nat
      <4>2. QED BY ONLY <1>8, <2>6, <2>8, <4>1
    <3>2. CASE ~ (i <= n)
      <4>1. PICK j \in 1 .. size : i = n + j
        <5>1. i - n \in 1 .. size /\ i = n + (i - n)
          BY ONLY <2>9, <3>2, n \in Nat, size \in Nat
        <5>2. QED BY ONLY <5>1
      <4>2. QED BY ONLY <2>5, <2>6, <2>8, <4>1
    <3>3. QED BY ONLY <3>1, <3>2
  <2>10. DeviceGetsItsClient'
    BY ONLY <2>1, <2>2, <2>7, <2>8, <2>9 DEF DeviceGetsItsClient
  <2>11. QED BY ONLY <1>2, <1>5, <1>6, <2>4, <2>10
<1>11. QED BY ONLY <1>9, <1>10

LEMMA TailOfConcat ==
  ASSUME NEW s \in Seq(Packages), s # << >>, NEW t \in Seq(Packages)
  PROVE  /\ s \o t # << >> /\ Head(s \o t) = Head(s) /\ Tail(s \o t) = Tail(s) \o t
         /\ s \o t \in Seq(Packages)
<1>1. PICK front, tail : front = <<Head(s)>> /\ tail = Tail(s)
  OBVIOUS
<1>2. /\ tail \in Seq(Packages) /\ Head(s) \in Packages /\ front \in Seq(Packages)
      /\ s = front \o tail
  BY ONLY <1>1, s \in Seq(Packages), s # << >>
<1>3. PICK rest : rest = tail \o t
  OBVIOUS
<1>4. rest \in Seq(Packages)
  BY ONLY <1>2, <1>3, t \in Seq(Packages), ConcatProperties
<1>5. (front \o tail) \o t = front \o (tail \o t)
  <2>1. \A x, y, z \in Seq(Packages) : (x \o y) \o z = x \o (y \o z)
    BY ConcatAssociative
  <2>2. QED BY ONLY <1>2, <2>1, t \in Seq(Packages)
<1>6. s \o t = front \o rest
  BY ONLY <1>2, <1>3, <1>5
<1>7. front \o rest # << >> /\ Head(front \o rest) = Head(s) /\ Tail(front \o rest) = rest
  BY ONLY <1>1, <1>2, <1>4
<1>8. s \o t \in Seq(Packages)
  BY ONLY s \in Seq(Packages), t \in Seq(Packages), ConcatProperties
<1>9. QED BY ONLY <1>1, <1>3, <1>6, <1>7, <1>8

\* The firmware takes the first package of the stream.
LEMMA RequestShiftsStream ==
  ASSUME TypeOK, TypeOK', Line, ~ useUDP, conns <= 1, Flow, RequestTCP
  PROVE  /\ conns = 1 /\ fwConn = 1 /\ fwConns = 1 /\ (Live' <=> Live)
         /\ UNCHANGED <<eventCounter, openPending, resetPending, connected, client, clients, consumed, outbox,
                        tracker, conn, conns, down, udpDown, fwConn, fwConns, serverStarted>>
         /\ Stream \in Seq(Packages) /\ Stream # << >> /\ HandleRequest(Head(Stream))
         /\ Stream' = Tail(Stream) /\ Head(Stream) \in Current(gen, clients, consumed)
<1>1. /\ fwConn # 0 /\ up[fwConn] # << >> /\ HandleRequest(Head(up[fwConn]))
      /\ up' = [up EXCEPT ![fwConn] = Tail(@)]
      /\ serverStarted' \in IF useUDP /\ ~ serverStarted THEN BOOLEAN ELSE {serverStarted}
      /\ UNCHANGED <<eventCounter, openPending, resetPending, connected, client, clients, consumed, outbox,
                     tracker, conn, conns, down, udpDown, fwConn, fwConns>>
  BY ONLY RequestTCP DEF RequestTCP, clientVars, roundVars, portVars, udpVars
<1>2. /\ conns = 1 /\ fwConn = 1 /\ fwConns = 1 /\ 1 \in 1 .. MaxConns
      /\ up \in [1 .. MaxConns -> Seq(Packages)] /\ outbox \in Seq(Packages)
  <2>1. /\ conns \in {0, 1} /\ conn \in {0, conns} /\ fwConns \in 0 .. conns /\ fwConn \in {0, fwConns}
        /\ conns = 1 => 1 \in 1 .. MaxConns
        /\ up \in [1 .. MaxConns -> Seq(Packages)] /\ outbox \in Seq(Packages)
    BY ONLY TypeOK, conns <= 1, LinkTypes
  <2>2. QED BY ONLY <1>1, <2>1
<1>3. Shape /\ Shape'
  BY ONLY <1>1, <1>2, TypeOK, TypeOK', StreamCases, NextStreamCases
<1>4. Live' <=> Live
  BY ONLY <1>1, <1>3 DEF Shape
<1>5. PICK queue : queue = up[1]
  OBVIOUS
<1>6. queue \in Seq(Packages) /\ queue # << >> /\ up'[1] = Tail(queue) /\ HandleRequest(Head(queue))
  BY ONLY <1>1, <1>2, <1>5
<1>7. PICK box : box = outbox
  OBVIOUS
<1>8. /\ queue \o box # << >> /\ Head(queue \o box) = Head(queue) /\ Tail(queue \o box) = Tail(queue) \o box
      /\ queue \o box \in Seq(Packages)
  BY ONLY <1>2, <1>6, <1>7, TailOfConcat
<1>9. Stream # << >> /\ Stream \in Seq(Packages) /\ Head(Stream) = Head(queue) /\ Stream' = Tail(Stream)
  <2>1. CASE Live
    <3>1. Stream = queue \o box
      BY ONLY <1>3, <1>5, <1>7, <2>1 DEF Shape
    <3>2. Stream' = Tail(queue) \o box
      BY ONLY <1>1, <1>3, <1>4, <1>6, <1>7, <2>1 DEF Shape
    <3>3. QED BY ONLY <1>8, <3>1, <3>2
  <2>2. CASE ~ Live
    <3>1. Stream = queue
      BY ONLY <1>2, <1>3, <1>5, <2>2 DEF Shape
    <3>2. Stream' = Tail(queue)
      BY ONLY <1>1, <1>2, <1>3, <1>4, <1>6, <2>2 DEF Shape
    <3>3. QED BY ONLY <1>6, <3>1, <3>2
  <2>3. QED BY ONLY <2>1, <2>2
<1>10. Head(Stream) \in Current(gen, clients, consumed)
  <2>1. PICK s, S : s = Stream /\ S = Current(gen, clients, consumed)
    OBVIOUS
  <2>2. s \in Seq(S) /\ s # << >>
    BY ONLY <1>2, <1>9, <2>1, TypeOK, Line, StreamTypes
  <2>3. QED BY ONLY <2>1, <2>2, HeadTailProperties
<1>11. serverStarted' = serverStarted
  BY ONLY <1>1, ~ useUDP
<1>12. QED BY ONLY <1>1, <1>2, <1>4, <1>6, <1>9, <1>10, <1>11

\* The limit and the half of the ring together fit the ring: then the first
\* package of the stream has room, and its data is what the device is to get next.
LEMMA RequestKeepsFlow ==
  ASSUME BufferLimit + Half <= RingCapacity,
         TypeOK, TypeOK', Line, ~ useUDP, conns <= 1, Flow, RequestTCP
  PROVE  Flow'
<1>1. /\ conns = 1 /\ fwConn = 1 /\ fwConns = 1 /\ (Live' <=> Live)
      /\ UNCHANGED <<eventCounter, openPending, resetPending, connected, client, clients, consumed, outbox,
                     tracker, conn, conns, down, udpDown, fwConn, fwConns, serverStarted>>
      /\ Stream \in Seq(Packages) /\ Stream # << >> /\ HandleRequest(Head(Stream))
      /\ Stream' = Tail(Stream) /\ Head(Stream) \in Current(gen, clients, consumed)
  BY ONLY TypeOK, TypeOK', Line, ~ useUDP, conns <= 1, Flow, RequestTCP, RequestShiftsStream
<1>2. PICK s, t, q : s = Stream /\ t = Stream' /\ q = Head(s)
  OBVIOUS
<1>3. /\ s \in Seq(Packages) /\ s # << >> /\ t = Tail(s) /\ HandleRequest(q)
      /\ q \in Current(gen, clients, consumed) /\ q \in Packages
  <2>1. q \in Packages
    BY ONLY <1>1, <1>2, HeadTailProperties
  <2>2. QED BY ONLY <1>1, <1>2, <2>1
<1>4. /\ tracker \in Trackers /\ tracker.sent \in Sendings /\ consumed \in Nat /\ clients \in Nat
      /\ counter \in Nat /\ eventCounter \in Nat /\ Received \in Nat /\ gen \in Nat
      /\ uart.ring \in Seq(Bytes) /\ Len(uart.ring) <= RingCapacity /\ Len(uart.ring) \in Nat
      /\ out \in Seq(Bytes) /\ Len(out) \in Nat
  BY ONLY TypeOK, conns <= 1, LinkTypes
<1>5. PICK fresh \in BOOLEAN : fresh <=> FreshPort
  OBVIOUS
<1>6. Numbered(s, counter, eventCounter, fresh) /\ counter <= eventCounter /\ Answered(Answers, counter)
  BY ONLY <1>2, <1>5, Flow, Zenon DEF Flow, Counted, Numbered
<1>7. PICK c2 : c2 = IF IsOpen(q) THEN counter ELSE q.header
  OBVIOUS
<1>8. PICK fresh2 \in BOOLEAN : fresh2 <=> FreshPort'
  OBVIOUS
<1>9. Numbered(t, c2, eventCounter, fresh2) /\ c2 \in Nat /\ counter <= c2 /\ c2 <= eventCounter
  BY ONLY <1>2, <1>3, <1>4, <1>6, <1>7, NumbersOfTail
<1>10. IsOpen(q) => fresh
  <2>1. PICK len \in Nat : len = Len(s)
    BY ONLY <1>3, LenProperties
  <2>2. len # 0 /\ s[1] = q
    BY ONLY <1>2, <1>3, <2>1, HeadTailProperties, EmptySeq
  <2>3. QED BY ONLY <1>6, <2>1, <2>2 DEF Numbered
<1>11. (pollIntervalSetPending <=> AtStart) /\ (AtStart => counter = 0 /\ IsOpen(q))
  BY ONLY <1>1, <1>2, <1>3, Flow DEF Flow, Started, AtStart
<1>12. counter' = c2 /\ ~ pollIntervalSetPending'
  <2>1. /\ ~ pollIntervalSetPending'
        /\ IF pollIntervalSetPending THEN counter' = 0 ELSE counter' = q.header
    BY ONLY <1>3 DEF HandleRequest
  <2>2. IsOpen(q) => AtStart
    BY ONLY <1>5, <1>10 DEF FreshPort
  <2>3. QED BY ONLY <1>7, <1>11, <2>1, <2>2
<1>13. PICK at \in Marks(s, <<gen, Received>>) :
         Live /\ client # 0 /\ ~ resetPending => at[Len(s)] = <<clients, consumed>>
  BY ONLY <1>2, Flow DEF Flow, Chained
<1>14. /\ at[1] = After(<<gen, Received>>, q) /\ Fits(<<gen, Received>>, q)
       /\ \E to \in Marks(t, at[1]) : to[Len(t)] = at[Len(s)]
  BY ONLY <1>2, <1>3, MarksOfTail
<1>15. PICK w : w = Window(uart.ring, s)
  OBVIOUS
<1>16. Narrow(w)
  BY ONLY <1>2, <1>15, Flow DEF Flow
<1>17. Len(uart.ring) + Len(PayloadOf(q)) <= RingCapacity
  <2>1. PICK o, n : o = Len(out) /\ n = o + Len(uart.ring)
    OBVIOUS
  <2>2. Received = n
    BY ONLY <2>1 DEF Received
  <2>3. Follows(uart.ring, gen, o)
    <3>1. PICK line, ring : line = out \o uart.ring /\ ring = uart.ring
      OBVIOUS
    <3>2. PICK used \in Nat : used = Len(ring)
      BY ONLY <1>4, <3>1
    <3>3. \A i \in 1 .. Len(line) : line[i] = <<gen, i>>
      BY ONLY <3>1, Flow DEF Flow, DeviceGetsItsClient
    <3>4. Len(line) = o + used /\ \A i \in 1 .. o + used : line[i] = IF i <= o THEN out[i] ELSE ring[i - o]
      BY ONLY <1>4, <2>1, <3>1, <3>2, ConcatProperties
    <3>5. o \in Nat
      BY ONLY <1>4, <2>1
    <3>6. \A i \in 1 .. used : o + i \in 1 .. o + used /\ ~ (o + i <= o) /\ (o + i) - o = i
      BY ONLY <3>5, used \in Nat
    <3>7. \A i \in 1 .. used : ring[i] = <<gen, o + i>>
      BY ONLY <3>3, <3>4, <3>6
    <3>8. QED BY ONLY <3>1, <3>2, <3>7 DEF Follows
  <2>4. Follows(PayloadOf(q), gen, n)
    <3>1. CASE IsData(q)
      BY ONLY <1>14, <2>2, <3>1 DEF Fits, Follows
    <3>2. CASE ~ IsData(q)
      <4>1. Len(PayloadOf(q)) = 0
        BY ONLY <1>3, <3>2, PackageFields
      <4>2. QED BY ONLY <4>1 DEF Follows
    <3>3. QED BY ONLY <3>1, <3>2
  <2>5. o \in Nat
    BY ONLY <1>4, <2>1
  <2>6. QED
    BY ONLY <1>2, <1>3, <1>4, <1>15, <1>16, <2>1, <2>3, <2>4, <2>5, BufferLimit + Half <= RingCapacity,
       RoomInRing
<1>18. IsOpen(q) => ~ uart.open
  BY ONLY <1>5, <1>10 DEF FreshPort
<1>19. /\ <<gen', Received'>> = After(<<gen, Received>>, q)
       /\ uart'.ring = IF IsReset(q) THEN << >> ELSE uart.ring \o PayloadOf(q)
       /\ DeviceGetsItsClient' /\ NoRemoteOverrun'
  <2>1. DeviceGetsItsClient /\ NoRemoteOverrun
    BY ONLY Flow DEF Flow
  <2>2. QED
    BY ONLY <1>3, <1>14, <1>17, <1>18, <2>1, TypeOK, conns <= 1, HandledGoesOn
<1>20. Started'
  <2>1. ~ AtStart'
    BY ONLY <1>1, <1>12 DEF AtStart
  <2>2. eventCounter # 0
    BY ONLY <1>1, Flow DEF Flow, Started
  <2>3. QED BY ONLY <1>1, <2>1, <2>2, Flow DEF Flow, Started
<1>21. Answers' = Answers
  BY ONLY <1>1 DEF Answers
<1>22. Counted'
  <2>1. Numbered(Stream', counter', eventCounter', FreshPort')
    BY ONLY <1>1, <1>2, <1>8, <1>9, <1>12, Zenon DEF Numbered
  <2>2. Answered(Answers', counter')
    <3>1. PICK a : a = Answers
      OBVIOUS
    <3>2. a \in Seq(Responses)
      <4>1. conn \in {0, 1} /\ down \in [1 .. MaxConns -> Seq(Responses)] /\ 1 \in 1 .. MaxConns
        BY ONLY <1>1, TypeOK, conns <= 1, LinkTypes
      <4>2. QED BY ONLY <3>1, <4>1, EmptySeq DEF Answers
    <3>3. \A i \in 1 .. Len(a) : a[i].counter \in Nat
      BY ONLY <3>2, ResponseFields
    <3>4. \A i \in 1 .. Len(a) : a[i].counter <= c2
      BY ONLY <1>4, <1>6, <1>9, <3>1, <3>3 DEF Answered
    <3>5. QED BY ONLY <1>6, <1>12, <1>21, <3>1, <3>4 DEF Answered
  <2>3. QED BY ONLY <1>1, <1>9, <1>12, <2>1, <2>2 DEF Counted
<1>23. Chained'
  <2>1. PICK to \in Marks(t, at[1]) : to[Len(t)] = at[Len(s)]
    BY ONLY <1>14
  <2>2. to \in Marks(Stream', <<gen', Received'>>)
    BY ONLY <1>2, <1>14, <1>19, <2>1
  <2>3. Live' /\ client' # 0 /\ ~ resetPending' => to[Len(Stream')] = <<clients', consumed'>>
    BY ONLY <1>1, <1>2, <1>13, <2>1
  <2>4. QED BY ONLY <2>2, <2>3 DEF Chained
<1>24. PICK w2 : w2 = Window(uart'.ring, t)
  OBVIOUS
<1>25. w2 \subseteq w
  <2>1. Window(uart.ring \o PayloadOf(q), t) \subseteq w
    BY ONLY <1>2, <1>3, <1>4, <1>15, WindowOfHandled
  <2>2. Window(<< >>, t) \subseteq Window(uart.ring \o PayloadOf(q), t)
    <3>1. Half + 1 .. Len(<< >>) = {}
      BY ONLY HalfType, EmptySeq
    <3>2. QED BY ONLY <3>1 DEF Window
  <2>3. QED BY ONLY <1>19, <1>24, <2>1, <2>2
<1>26. Narrow(Window(uart.ring, Stream))'
  BY ONLY <1>2, <1>16, <1>24, <1>25 DEF Narrow
<1>27. Ledger'
  <2>1. PICK live, sent, a, blocked, g2, n2 :
          /\ live = Live /\ sent = tracker.sent /\ a = Answers /\ blocked = tracker.blocked
          /\ g2 = gen' /\ n2 = Received'
    OBVIOUS
  <2>2. PICK pos \in Ends(sent, consumed) :
          /\ Account(s, counter, eventCounter, Received, gen, clients, sent, live, pos)
          /\ Free(w, a, blocked, clients, sent, pos)
    BY ONLY <1>2, <1>15, <2>1, Flow DEF Flow, Ledger
  <2>3. IsReset(q) => gen <= q.from /\ q.from <= clients
    BY ONLY <1>3 DEF Current, Carries, IsReset
  <2>4. <<g2, n2>> = After(<<gen, Received>>, q)
    BY ONLY <1>19, <2>1
  <2>5. Account(t, c2, eventCounter, n2, g2, clients, sent, live, pos)
    <3>1. PICK c, e, n, g, k, m : c = counter /\ e = eventCounter /\ n = Received /\ g = gen
                                  /\ k = clients /\ m = consumed
      OBVIOUS
    <3>2. /\ c \in Nat /\ e \in Nat /\ n \in Nat /\ g \in Nat /\ k \in Nat /\ m \in Nat
          /\ sent \in Sendings /\ c <= e
      BY ONLY <1>4, <1>6, <2>1, <3>1
    <3>3. /\ pos \in Ends(sent, m) /\ Account(s, c, e, n, g, k, sent, live, pos)
          /\ Numbered(s, c, e, fresh)
      BY ONLY <1>6, <2>2, <3>1
    <3>4. /\ Fits(<<g, n>>, Head(s))
          /\ IsReset(Head(s)) => g <= Head(s).from /\ Head(s).from <= k
      BY ONLY <1>2, <1>14, <2>3, <3>1
    <3>5. c2 = (IF IsOpen(Head(s)) THEN c ELSE Head(s).header)
      BY ONLY <1>2, <1>7, <3>1
    <3>6. <<g2, n2>> = After(<<g, n>>, Head(s))
      BY ONLY <1>2, <2>4, <3>1
    <3>7. Account(Tail(s), c2, e, n2, g2, k, sent, live, pos)
      BY ONLY <1>3, <3>2, <3>3, <3>4, <3>5, <3>6, HandledKeepsAccount
    <3>8. QED BY ONLY <1>3, <3>1, <3>7
  <2>6. Free(w2, a, blocked, clients, sent, pos)
    BY ONLY <1>25, <2>2, FreeNarrows
  <2>7. Account(Stream', counter', eventCounter', Received', gen', clients', tracker'.sent, live, pos)
    BY ONLY <1>1, <1>2, <1>12, <2>1, <2>5
  <2>8. Account(Stream', counter', eventCounter', Received', gen', clients', tracker'.sent, Live', pos)
    <3>1. Live' => live \/ tracker'.sent = << >>
      BY ONLY <1>1, <2>1
    <3>2. QED BY ONLY <2>7, <3>1, LiveKeepsAccount
  <2>9. Free(Window(uart'.ring, Stream'), Answers', tracker'.blocked, clients', tracker'.sent, pos)
    BY ONLY <1>1, <1>2, <1>21, <1>24, <2>1, <2>6
  <2>10. pos \in Ends(tracker'.sent, consumed')
    BY ONLY <1>1, <2>1, <2>2
  <2>11. QED BY ONLY <2>8, <2>9, <2>10 DEF Ledger
<1>28. QED BY ONLY <1>19, <1>20, <1>22, <1>23, <1>26, <1>27 DEF Flow

\* A response holds for what was handled when it is made.
LEMMA PollKeepsFlow ==
  ASSUME TypeOK, TypeOK', Line, Order, conns <= 1, Flow,
         NEW n \in 0 .. IOSize, NEW wrapped \in BOOLEAN, Poll(n, wrapped)
  PROVE  Flow'
<1>1. PICK r, last : r = Response(Collect(uart, segmentCounter = 0, [i \in 1 .. n |-> emitted + i]), wrapped)
                     /\ last = (segmentCounter + 1 >= Aggregate)
  OBVIOUS
<1>2. /\ r \in Responses /\ r.counter = counter /\ (~ r.blocked => Len(uart.ring) <= Half)
      /\ uart'.ring = uart.ring /\ uart'.open = uart.open
  <2>1. FirmwareTypeOK
    BY ONLY TypeOK DEF TypeOK
  <2>2. QED
    BY ONLY <1>1, <2>1, n \in 0 .. IOSize, wrapped \in BOOLEAN, Poll(n, wrapped), PolledPort DEF Half
<1>3. /\ IF last THEN Respond(r) ELSE UNCHANGED <<down, udpDown>>
      /\ UNCHANGED <<eventCounter, openPending, resetPending, connected, client, clients, consumed, outbox,
                     tracker, conn, conns, up, fwConn, fwConns, serverStarted, pollIntervalSetPending,
                     counter, gen, out, overrun>>
  BY ONLY <1>1, Poll(n, wrapped), Zenon
     DEF Poll, clientVars, roundVars, portVars, linkVars
<1>4. /\ conns \in {0, 1} /\ conn \in {0, conns} /\ (conns = 1 => 1 \in 1 .. MaxConns)
      /\ down \in [1 .. MaxConns -> Seq(Responses)]
      /\ tracker.sent \in Sendings /\ consumed \in Nat /\ counter \in Nat
      /\ eventCounter \in Nat /\ uart.ring \in Seq(Bytes) /\ Len(uart.ring) \in Nat
  BY ONLY TypeOK, conns <= 1, LinkTypes
<1>5. /\ Stream' = Stream /\ (Live' <=> Live) /\ Received' = Received
      /\ (AtStart' <=> AtStart) /\ (FreshPort' <=> FreshPort)
  BY ONLY <1>2, <1>3 DEF Stream, Live, Reaches, Waiting, Received, AtStart, FreshPort
<1>6. PICK a, s, w : a = Answers /\ s = Stream /\ w = Window(uart.ring, Stream)
  OBVIOUS
<1>7. a \in Seq(Responses)
  BY ONLY <1>4, <1>6, EmptySeq DEF Answers
<1>8. /\ udpDown' = udpDown /\ \A c \in 1 .. MaxConns : c > conns => down'[c] = down[c]
      /\ Answers' = a \/ Answers' = Append(a, r)
  <2>1. CASE ~ last
    BY ONLY <1>3, <1>6, <2>1 DEF Answers
  <2>2. CASE last
    <3>1. /\ udpDown' = udpDown
          /\ down' = IF fwConn # 0 /\ fwConn = conn THEN [down EXCEPT ![conn] = Append(@, r)] ELSE down
      BY ONLY <1>3, <2>2, Flow DEF Flow, Started, Respond
    <3>2. CASE fwConn # 0 /\ fwConn = conn
      <4>1. conn = 1 /\ conns = 1 /\ down'[1] = Append(down[1], r) /\ \A c \in 1 .. MaxConns : c > 1 => down'[c] = down[c]
        BY ONLY <1>4, <3>1, <3>2
      <4>2. QED BY ONLY <1>3, <1>6, <3>1, <4>1 DEF Answers
    <3>3. CASE ~ (fwConn # 0 /\ fwConn = conn)
      BY ONLY <1>3, <1>6, <3>1, <3>3 DEF Answers
    <3>4. QED BY ONLY <3>2, <3>3
  <2>3. QED BY ONLY <2>1, <2>2
<1>9. PICK fresh \in BOOLEAN : fresh <=> FreshPort
  OBVIOUS
<1>10. Numbered(s, counter, eventCounter, fresh) /\ counter <= eventCounter /\ Answered(a, counter)
  BY ONLY <1>6, <1>9, Flow, Zenon DEF Flow, Counted, Numbered
<1>11. Counted'
  <2>1. Numbered(Stream', counter', eventCounter', FreshPort')
    BY ONLY <1>3, <1>5, <1>6, <1>9, <1>10, Zenon DEF Numbered
  <2>2. Answered(Append(a, r), counter)
    <3>1. PICK b : b = Append(a, r)
      OBVIOUS
    <3>2. PICK len \in Nat : len = Len(a)
      BY ONLY <1>7, LenProperties
    <3>3. b = Append(a, r) /\ len = Len(a)
      BY ONLY <3>1, <3>2
    <3>4. Len(b) = len + 1 /\ b[len + 1] = r /\ \A i \in 1 .. len : b[i] = a[i]
      BY ONLY <1>2, <1>7, <3>3, AppendProperties
    <3>5. /\ \A i \in 1 .. len : a[i].counter <= counter
          /\ \A i, j \in 1 .. len : i < j => a[i].counter <= a[j].counter
      BY ONLY <1>10, <3>3 DEF Answered
    <3>6. \A i \in 1 .. len + 1 : i \in 1 .. len \/ i = len + 1
      BY ONLY len \in Nat
    <3>7. \A i \in 1 .. len + 1 : b[i].counter <= counter
      BY ONLY <1>2, <1>4, <3>4, <3>5, <3>6
    <3>8. ASSUME NEW i \in 1 .. len + 1, NEW j \in 1 .. len + 1, i < j
          PROVE  b[i].counter <= b[j].counter
      <4>1. i \in 1 .. len
        BY ONLY <3>8, len \in Nat
      <4>2. CASE j \in 1 .. len
        BY ONLY <3>4, <3>5, <3>8, <4>1, <4>2
      <4>3. CASE j = len + 1
        BY ONLY <1>2, <3>4, <3>5, <4>1, <4>3
      <4>4. QED BY ONLY <3>6, <4>2, <4>3
    <3>9. QED BY ONLY <3>3, <3>4, <3>7, <3>8 DEF Answered
  <2>3. Answered(Answers', counter')
    <3>1. PICK b : b = Answers'
      OBVIOUS
    <3>2. Answered(b, counter)
      BY ONLY <1>8, <1>10, <2>2, <3>1
    <3>3. QED BY ONLY <1>3, <3>1, <3>2
  <2>4. QED BY ONLY <1>3, <1>10, <2>1, <2>3 DEF Counted
<1>12. Chained'
  BY ONLY <1>3, <1>5, Flow DEF Flow, Chained
<1>13. Narrow(Window(uart.ring, Stream))'
  BY ONLY <1>2, <1>5, Flow DEF Flow, Narrow
<1>14. ~ r.blocked => AllOnTheWay(w, s, clients)
  <2>1. ASSUME ~ r.blocked PROVE AllOnTheWay(w, s, clients)
    <3>1. Half + 1 .. Len(uart.ring) = {}
      <4>1. Len(uart.ring) <= Half
        BY ONLY <1>2, <2>1, Zenon
      <4>2. QED BY ONLY <1>4, <4>1, HalfType
    <3>2. ASSUME NEW x \in w, x[1] = clients
          PROVE  \E i \in 1 .. Len(s) : x \in Contents(s[i]) /\ s[i].from = clients
      <4>1. PICK i \in 1 .. Len(s) : x \in Contents(s[i])
        BY ONLY <1>6, <3>1, <3>2 DEF Window
      <4>2. x[1] = s[i].from
        BY ONLY <1>6, <4>1, TypeOK, Line, Order, conns <= 1, WindowBounds
      <4>3. QED BY ONLY <3>2, <4>1, <4>2
    <3>3. QED BY ONLY <3>2 DEF AllOnTheWay
  <2>2. QED BY ONLY <2>1, Zenon
<1>15. Ledger'
  <2>1. PICK live, sent, blocked, c, e, n1, g, k, m :
          /\ live = Live /\ sent = tracker.sent /\ blocked = tracker.blocked
          /\ c = counter /\ e = eventCounter /\ n1 = Received /\ g = gen /\ k = clients /\ m = consumed
    OBVIOUS
  <2>2. PICK pos \in Ends(sent, m) :
          Account(s, c, e, n1, g, k, sent, live, pos) /\ Free(w, a, blocked, k, sent, pos)
    BY ONLY <1>6, <2>1, Flow DEF Flow, Ledger
  <2>3. s \in Seq(Packages)
    BY ONLY <1>6, TypeOK, Line, conns <= 1, StreamTypes
  <2>4. /\ sent \in Sendings /\ m \in Nat /\ c \in Nat /\ e \in Nat /\ Numbered(s, c, e, fresh)
        /\ r.counter = c
    BY ONLY <1>2, <1>4, <1>10, <2>1
  <2>5. ~ r.blocked => AllOnTheWay(w, s, k)
    BY ONLY <1>14, <2>1
  <2>6. Free(w, Append(a, r), blocked, k, sent, pos)
    BY ONLY <1>2, <1>7, <2>2, <2>3, <2>4, <2>5, AnswerKeepsFree
  <2>7. Free(Window(uart'.ring, Stream'), Answers', tracker'.blocked, clients', tracker'.sent, pos)
    BY ONLY <1>2, <1>3, <1>5, <1>6, <1>8, <2>1, <2>2, <2>6
  <2>8. Account(Stream', counter', eventCounter', Received', gen', clients', tracker'.sent, live, pos)
    BY ONLY <1>3, <1>5, <1>6, <2>1, <2>2
  <2>9. Account(Stream', counter', eventCounter', Received', gen', clients', tracker'.sent, Live', pos)
    <3>1. Live' => live \/ tracker'.sent = << >>
      BY ONLY <1>5, <2>1
    <3>2. QED BY ONLY <2>8, <3>1, LiveKeepsAccount
  <2>10. pos \in Ends(tracker'.sent, consumed')
    BY ONLY <1>3, <2>1, <2>2
  <2>11. QED BY ONLY <2>7, <2>9, <2>10 DEF Ledger
<1>16. Started'
  BY ONLY <1>2, <1>3, <1>5, <1>8, Flow DEF Flow, Started
<1>17. DeviceGetsItsClient' /\ NoRemoteOverrun'
  BY ONLY <1>2, <1>3, Flow, DeviceStays
<1>18. QED BY ONLY <1>11, <1>12, <1>13, <1>15, <1>16, <1>17 DEF Flow
-----------------------------------------------------------------------------
(* Every step keeps the flow, and what follows from it.                    *)

LEMMA InitFlow ==
  ASSUME Init
  PROVE  Flow
<1>1. /\ eventCounter = 0 /\ connected = FALSE /\ openPending = TRUE /\ resetPending = FALSE
      /\ client = 0 /\ clients = 0 /\ consumed = 0 /\ tracker = NewTracker /\ outbox = << >>
      /\ conn = 0 /\ conns = 0 /\ down = [c \in 1 .. MaxConns |-> << >>] /\ udpDown = << >>
      /\ fwConn = 0 /\ fwConns = 0 /\ uart = NewPort /\ counter = 0 /\ serverStarted = FALSE
      /\ gen = 0 /\ out = << >> /\ overrun = FALSE
  BY ONLY Init DEF Init, NoPackage
<1>2. ~ Live /\ Stream = << >> /\ Answers = << >>
  BY ONLY <1>1 DEF Live, Stream, Answers, Reaches
<1>3. tracker.sent = << >> /\ uart.ring = << >> /\ ~ uart.open /\ Len(<< >>) = 0
  BY ONLY <1>1, EmptySeq DEF NewTracker, NewPort
<1>4. Received = 0
  BY ONLY <1>1, <1>3 DEF Received
<1>5. Started
  BY ONLY <1>1, <1>2, <1>3 DEF Started
<1>6. Counted
  BY ONLY <1>1, <1>2, <1>3 DEF Counted, Numbered, Answered
<1>7. Chained
  <2>1. PICK start : start = <<gen, Received>>
    OBVIOUS
  <2>2. start \in Nat \X Nat
    BY ONLY <1>1, <1>4, <2>1
  <2>3. \E at \in Marks(<< >>, start) : at[0] = start
    BY ONLY <2>2, MarksOfNone
  <2>4. QED BY ONLY <1>1, <1>2, <2>1, <2>3 DEF Chained
<1>8. PICK w : w = Window(uart.ring, Stream)
  OBVIOUS
<1>9. w = {}
  <2>1. Half + 1 .. Len(<< >>) = {} /\ 1 .. Len(<< >>) = {}
    BY ONLY <1>3, HalfType
  <2>2. QED BY ONLY <1>2, <1>3, <1>8, <2>1 DEF Window
<1>10. Narrow(Window(uart.ring, Stream))
  BY ONLY <1>8, <1>9 DEF Narrow
<1>11. Ledger
  <2>1. PICK pos : pos = [j \in 0 .. 0 |-> 0]
    OBVIOUS
  <2>2. pos \in Ends(<< >>, 0) /\ pos[0] = 0
    BY ONLY <1>3, <2>1 DEF Ends
  <2>3. Account(<< >>, 0, 0, 0, 0, 0, << >>, FALSE, pos)
    BY ONLY <1>3, <2>2 DEF Account, Booked, Had, Listed, UnderWay
  <2>4. Account(<< >>, 0, 0, 0, 0, 0, << >>, Live, pos)
    BY ONLY <1>2, <2>3, LiveKeepsAccount
  <2>5. Free(w, << >>, tracker.blocked, 0, << >>, pos)
    BY ONLY <1>9 DEF Free
  <2>6. QED BY ONLY <1>1, <1>2, <1>3, <1>4, <1>8, <2>2, <2>4, <2>5 DEF Ledger
<1>12. DeviceGetsItsClient
  <2>1. out \o uart.ring = << >>
    BY ONLY <1>1, <1>3, ConcatEmptySeq
  <2>2. QED BY ONLY <1>3, <2>1 DEF DeviceGetsItsClient
<1>13. QED BY ONLY <1>1, <1>5, <1>6, <1>7, <1>10, <1>11, <1>12 DEF Flow, NoRemoteOverrun

LEMMA NextFlow ==
  ASSUME ResetOnConnect = TRUE, BufferLimit + Half <= RingCapacity,
         TypeOK, TypeOK', Line, Line', Order, ~ useUDP, conns <= 1, conns' <= 1, Flow, ConnectFirst, Next
  PROVE  Flow'
<1>1. Client \/ Firmware
  BY ONLY Next DEF Next
<1>2. udpDown = << >> /\ ~ serverStarted /\ Len(<< >>) = 0
  BY ONLY Flow, EmptySeq DEF Flow, Started
<1>3. CASE Client
  <2>1. ~ \E i \in 1 .. Len(udpDown) : ReceiveUDP(i)
    BY ONLY <1>2
  <2>2. QED
    BY ONLY <1>3, <2>1, ResetOnConnect = TRUE, TypeOK, TypeOK', Line, Line', Order, ~ useUDP, conns <= 1,
       conns' <= 1, Flow, ConnectFirst, PortOpenKeepsFlow, RoundKeepsFlow, SendKeepsFlow, ConnectKeepsFlow,
       DisconnectKeepsFlow, StoreKeepsFlow, ReceiveKeepsFlow DEF Client
<1>4. CASE Firmware
  <2>1. ~ \E i \in 1 .. Len(udpUp) : RequestUDP(i)
    BY ONLY <1>2 DEF RequestUDP
  <2>2. CASE \E n \in 0 .. IOSize, wrapped \in BOOLEAN : Poll(n, wrapped)
    BY ONLY <2>2, TypeOK, TypeOK', Line, Order, conns <= 1, Flow, PollKeepsFlow
  <2>3. CASE RequestTCP
    BY ONLY <2>3, BufferLimit + Half <= RingCapacity, TypeOK, TypeOK', Line, ~ useUDP, conns <= 1, Flow,
       RequestKeepsFlow
  <2>4. CASE Accept \/ Drop \/ EndReset \/ \E room \in 1 .. IOSize : FeedUART(room)
    BY ONLY <2>4, TypeOK, TypeOK', Line, conns <= 1, Flow, AcceptKeepsFlow, DropKeepsFlow, UartKeepsFlow
  <2>5. QED BY ONLY <1>4, <2>1, <2>2, <2>3, <2>4 DEF Firmware
<1>5. QED BY ONLY <1>1, <1>3, <1>4

LEMMA StutterFlow ==
  ASSUME TypeOK, conns <= 1, Flow, UNCHANGED vars
  PROVE  Flow'
<1>1. UNCHANGED <<eventCounter, openPending, resetPending, connected, client, clients, consumed, outbox,
                  tracker, conn, conns, up, down, udpDown, fwConn, fwConns, serverStarted,
                  pollIntervalSetPending, counter, uart, gen, out, overrun>>
  BY ONLY UNCHANGED vars
     DEF vars, clientVars, roundVars, portVars, tcpVars, udpVars, linkVars, pollVars, history
<1>2. /\ Stream' = Stream /\ (Live' <=> Live) /\ Received' = Received /\ Answers' = Answers
      /\ (AtStart' <=> AtStart) /\ (FreshPort' <=> FreshPort)
  BY ONLY <1>1 DEF Stream, Live, Reaches, Waiting, Answers, Received, AtStart, FreshPort
<1>3. Counted' /\ Chained' /\ Narrow(Window(uart.ring, Stream))' /\ Ledger'
  BY ONLY <1>1, <1>2, Flow, StillKeepsFlow
<1>4. Started'
  BY ONLY <1>1, <1>2, Flow DEF Flow, Started
<1>5. DeviceGetsItsClient' /\ NoRemoteOverrun'
  BY ONLY <1>1, Flow, DeviceStays
<1>6. QED BY ONLY <1>3, <1>4, <1>5 DEF Flow

\* What is confirmed is at the front of what the device has received.
LEMMA FlowConfirms ==
  ASSUME TypeOK, conns <= 1, Flow
  PROVE  ConfirmedIsHandled
<1>1. /\ tracker \in Trackers /\ consumed \in Nat /\ Received \in Nat
      /\ out \in Seq(Bytes) /\ uart.ring \in Seq(Bytes)
  BY ONLY TypeOK, conns <= 1, LinkTypes
<1>2. PICK pos \in Ends(tracker.sent, consumed) :
        Account(Stream, counter, eventCounter, Received, gen, clients, tracker.sent, Live, pos)
  BY ONLY Flow DEF Flow, Ledger
<1>3. Outstanding(tracker) = consumed - pos[0]
  BY ONLY <1>1, <1>2, OutstandingIsRest
<1>4. Len(tracker.sent) \in Nat
  BY ONLY <1>1, LenProperties DEF Trackers
<1>5. pos[0] \in Nat /\ (pos[0] > 0 => gen = clients /\ pos[0] <= Received)
  <2>1. 0 \in 0 .. Len(tracker.sent)
    BY ONLY <1>4
  <2>2. pos[0] \in Nat
    BY ONLY <1>2, <2>1 DEF Ends
  <2>3. QED BY ONLY <1>2, <2>1, <2>2 DEF Account, Had
<1>6. PICK line : line = out \o uart.ring
  OBVIOUS
<1>7. Len(line) = Received /\ \A i \in 1 .. Len(line) : line[i] = <<gen, i>>
  <2>1. Len(line) = Received
    BY ONLY <1>1, <1>6, ConcatProperties DEF Received
  <2>2. QED BY ONLY <1>6, <2>1, Flow DEF Flow, DeviceGetsItsClient
<1>8. PICK first, rest : first = pos[0] /\ rest = Outstanding(tracker)
  OBVIOUS
<1>9. consumed - rest = first
  BY ONLY <1>1, <1>3, <1>5, <1>8
<1>10. ASSUME NEW k \in 1 .. first
       PROVE  \E i \in 1 .. Len(line) : line[i] = <<clients, k>>
  <2>1. gen = clients /\ k \in 1 .. Received
    BY ONLY <1>1, <1>5, <1>8, <1>10
  <2>2. QED BY ONLY <1>7, <2>1
<1>11. QED BY ONLY <1>6, <1>8, <1>9, <1>10 DEF ConfirmedIsHandled

LEMMA FlowIsKept ==
  ASSUME ResetOnConnect = TRUE, BufferLimit + Half <= RingCapacity
  PROVE  WarmSpec => []FlowOverTCP
<1>1. Init => FlowOverTCP
  BY InitTypes, InitLine, InitOrder, InitFlow DEF FlowOverTCP
<1>2. FlowOverTCP /\ [Next /\ ConnectFirst]_vars => FlowOverTCP'
  <2>1. ASSUME TypeOK, ~ useUDP => Line /\ Order, ~ useUDP /\ conns <= 1 => Flow, Next, ConnectFirst
        PROVE  TypeOK' /\ (~ useUDP' => Line' /\ Order') /\ (~ useUDP' /\ conns' <= 1 => Flow')
    <3>1. useUDP' = useUDP /\ (Client \/ Firmware) /\ TypeOK'
      BY ONLY <2>1, NextTypes DEF Next
    <3>2. ~ useUDP => Line' /\ Order'
      BY ONLY <2>1, <3>1, ClientKeepsLine, SendKeepsLine, RequestKeepsLine, FirmwareKeepsLine,
         ClientKeepsOrder, SendKeepsOrder, RequestKeepsOrder, FirmwareKeepsOrder
    <3>3. conns \in Nat /\ conns' \in {conns, conns + 1}
      <4>1. conns \in Nat
        BY ONLY <2>1, Bounds DEF TypeOK, NetworkTypeOK
      <4>2. conns' \in {conns, conns + 1}
        BY ONLY <2>1 DEF Next, Client, OnPortOpen, PrepareNothing, PrepareOpen, PrepareReset, PrepareIdle,
           PrepareHangup, PrepareData, Pack, Send, Connect, Disconnect, StoreResponse, ReceiveTCP,
           ReceiveUDP,
           Firmware, Accept, Drop, RequestTCP, RequestUDP, FeedUART, EndReset, Poll, tcpVars, udpVars
      <4>3. QED BY ONLY <4>1, <4>2
    <3>4. conns' <= 1 => conns <= 1
      BY ONLY <3>3
    <3>5. ~ useUDP /\ conns' <= 1 => Flow'
      BY ONLY <2>1, <3>1, <3>2, <3>4, ResetOnConnect = TRUE, BufferLimit + Half <= RingCapacity, NextFlow
    <3>6. QED BY ONLY <3>1, <3>2, <3>5
  <2>2. ASSUME TypeOK, ~ useUDP => Line /\ Order, ~ useUDP /\ conns <= 1 => Flow, UNCHANGED vars
        PROVE  TypeOK' /\ (~ useUDP' => Line' /\ Order') /\ (~ useUDP' /\ conns' <= 1 => Flow')
    <3>1. TypeOK'
      BY ONLY <2>2, StutterTypes
    <3>2. Line /\ Order => Line' /\ Order'
      BY ONLY <2>2 DEF Line, OnItsWay, ToBeSent, Arrived, InLine, LastInLine, Waiting, Order, InOrder,
         vars, clientVars, portVars, tcpVars, udpVars, linkVars, history
    <3>3. useUDP' = useUDP /\ conns' = conns
      BY ONLY <2>2 DEF vars, tcpVars
    <3>4. ~ useUDP /\ conns <= 1 => Flow'
      BY ONLY <2>2, StutterFlow
    <3>5. QED BY ONLY <2>2, <3>1, <3>2, <3>3, <3>4
  <2>3. QED BY <2>1, <2>2 DEF FlowOverTCP
<1>3. QED BY <1>1, <1>2, PTL DEF WarmSpec

\* While the first TCP connection lasts, and after it, a device that is reset at
\* every local connection receives exactly what its local client wrote, from the
\* first byte on (PortWorker.cpp:43-127, uartworker.cpp:18-41), if the ring has
\* room for the limit of -rbs above its half.
THEOREM DeviceGetsItsClientWhole ==
  ASSUME ResetOnConnect = TRUE, BufferLimit + Half <= RingCapacity
  PROVE  WarmSpec => [](~ useUDP /\ conns <= 1 => DeviceGetsItsClient)
<1>1. FlowOverTCP => (~ useUDP /\ conns <= 1 => DeviceGetsItsClient)
  BY DEF FlowOverTCP, Flow
<1>2. QED BY <1>1, FlowIsKept, PTL

\* The limit and the half-full flag keep the ring of the firmware from
\* overflowing (RemoteBufferTracker.cpp:18-37, uartworker.cpp:31): the firmware
\* has room for all the client may have sent since the flag was last clear.
THEOREM RingNeverOverflows ==
  ASSUME ResetOnConnect = TRUE, BufferLimit + Half <= RingCapacity
  PROVE  WarmSpec => [](~ useUDP /\ conns <= 1 => NoRemoteOverrun)
<1>1. FlowOverTCP => (~ useUDP /\ conns <= 1 => NoRemoteOverrun)
  BY DEF FlowOverTCP, Flow
<1>2. QED BY <1>1, FlowIsKept, PTL

\* What the client drops from its account of unconfirmed data the firmware has
\* (RemoteBufferTracker.cpp:18-25, main_loop.cpp:200-220).
THEOREM ConfirmationsAreTrue ==
  ASSUME ResetOnConnect = TRUE, BufferLimit + Half <= RingCapacity
  PROVE  WarmSpec => [](~ useUDP /\ conns <= 1 => ConfirmedIsHandled)
<1>1. FlowOverTCP => (~ useUDP /\ conns <= 1 => ConfirmedIsHandled)
  BY FlowConfirms DEF FlowOverTCP
<1>2. QED BY <1>1, FlowIsKept, PTL
-----------------------------------------------------------------------------
(* What the local client hears: first the requests in turn.                *)

LEMMA TurnsOfFront ==
  ASSUME NEW s \in Seq(Packages), NEW t \in Seq(Packages), FrontOf(t, s),
         NEW session, NEW k, NEW opens, NEW resets, TakeTurns(s, session, k, opens, resets)
  PROVE  TakeTurns(t, session, k, opens, resets)
<1>1. Len(s) \in Nat /\ Len(t) \in Nat
  BY ONLY s \in Seq(Packages), t \in Seq(Packages), LenProperties
<1>2. \A i \in 1 .. Len(t) : i \in 1 .. Len(s) /\ t[i] = s[i]
  BY ONLY <1>1, FrontOf(t, s) DEF FrontOf
<1>3. QED BY ONLY <1>2, TakeTurns(s, session, k, opens, resets) DEF TakeTurns

\* A package is added, and with it what was to be asked for may be asked.
LEMMA TurnsGrow ==
  ASSUME NEW s \in Seq(Packages), NEW p \in Packages,
         NEW session \in Nat, NEW k \in Nat,
         NEW opens \in BOOLEAN, NEW resets \in BOOLEAN, NEW opens2 \in BOOLEAN, NEW resets2 \in BOOLEAN,
         TakeTurns(s, session, k, opens, resets), opens2 => opens, resets2 => resets,
         IsOpen(p) => opens /\ ~ opens2,
         IsReset(p) => resets /\ ~ resets2 /\ ~ opens /\ p.from = k
  PROVE  TakeTurns(Append(s, p), session, k, opens2, resets2)
<1>1. PICK len \in Nat : len = Len(s)
  BY ONLY s \in Seq(Packages), LenProperties
<1>2. PICK t : t = Append(s, p)
  OBVIOUS
<1>3. Len(t) = len + 1 /\ t[len + 1] = p /\ \A i \in 1 .. len : t[i] = s[i]
  BY ONLY <1>1, <1>2, s \in Seq(Packages), p \in Packages, AppendProperties
<1>4. /\ session <= k /\ (session # 0 => ~ opens) /\ (resets => session < k)
      /\ \A i \in 1 .. len : Due(s[i], session, k, opens, resets)
      /\ \A i, j \in 1 .. len : i < j => Turn(s[i], s[j])
  BY ONLY <1>1, TakeTurns(s, session, k, opens, resets) DEF TakeTurns
<1>5. \A i \in 1 .. len + 1 : i \in 1 .. len \/ i = len + 1
  BY ONLY len \in Nat
<1>6. ~ (IsOpen(p) /\ IsReset(p))
  BY ONLY TRUE DEF IsOpen, IsReset
<1>7. Due(p, session, k, opens2, resets2)
  BY ONLY <1>4, IsOpen(p) => opens /\ ~ opens2, opens2 => opens,
     IsReset(p) => resets /\ ~ resets2 /\ ~ opens /\ p.from = k, session \in Nat, k \in Nat DEF Due
<1>8. ASSUME NEW i \in 1 .. len + 1
      PROVE  Due(t[i], session, k, opens2, resets2)
  <2>1. CASE i \in 1 .. len
    <3>1. Due(s[i], session, k, opens, resets) /\ t[i] = s[i]
      BY ONLY <1>3, <1>4, <2>1
    <3>2. QED BY ONLY <3>1, opens2 => opens, resets2 => resets DEF Due
  <2>2. CASE i = len + 1
    BY ONLY <1>3, <1>7, <2>2
  <2>3. QED BY ONLY <1>5, <2>1, <2>2
<1>9. ASSUME NEW i \in 1 .. len + 1, NEW j \in 1 .. len + 1, i < j
      PROVE  Turn(t[i], t[j])
  <2>1. i \in 1 .. len /\ t[i] = s[i]
    BY ONLY <1>3, <1>9, len \in Nat
  <2>2. CASE j \in 1 .. len
    BY ONLY <1>3, <1>4, <1>9, <2>1, <2>2
  <2>3. CASE j = len + 1
    <3>1. Due(s[i], session, k, opens, resets)
      BY ONLY <1>4, <2>1
    <3>2. PICK q, f : q = s[i] /\ f = q.from
      OBVIOUS
    <3>3. IsReset(q) => f <= k /\ ~ opens /\ (f = k => ~ resets)
      BY ONLY <3>1, <3>2 DEF Due
    <3>4. q \in Packages
      BY ONLY <1>1, <2>1, <3>2, s \in Seq(Packages), ElementOfSeq
    <3>5. f \in Nat
      BY ONLY <3>2, <3>4, PackageFields
    <3>6. IsReset(q) => ~ IsOpen(p) /\ (IsReset(p) => f < p.from)
      BY ONLY <3>3, <3>5, IsOpen(p) => opens /\ ~ opens2,
         IsReset(p) => resets /\ ~ resets2 /\ ~ opens /\ p.from = k, k \in Nat
    <3>7. QED BY ONLY <1>3, <2>1, <2>3, <3>2, <3>6 DEF Turn
  <2>4. QED BY ONLY <1>5, <2>2, <2>3
<1>10. (session # 0 => ~ opens2) /\ (resets2 => session < k)
  BY ONLY <1>4, opens2 => opens, resets2 => resets
<1>11. QED BY ONLY <1>2, <1>3, <1>4, <1>8, <1>9, <1>10 DEF TakeTurns

\* A local client comes, and its reset is to be asked for.
LEMMA TurnsOfNewClient ==
  ASSUME NEW s \in Seq(Packages), NEW session \in Nat, NEW k \in Nat, NEW opens, NEW resets,
         TakeTurns(s, session, k, opens, resets)
  PROVE  TakeTurns(s, session, k + 1, opens, TRUE)
<1>1. ASSUME NEW i \in 1 .. Len(s)
      PROVE  Due(s[i], session, k + 1, opens, TRUE)
  <2>1. Due(s[i], session, k, opens, resets)
    BY ONLY i \in 1 .. Len(s), TakeTurns(s, session, k, opens, resets) DEF TakeTurns
  <2>2. PICK q, f : q = s[i] /\ f = q.from
    OBVIOUS
  <2>3. f \in Nat
    BY ONLY <2>2, i \in 1 .. Len(s), s \in Seq(Packages), ElementOfSeq, PackageFields
  <2>4. /\ IsOpen(q) => session = 0 /\ ~ opens
        /\ IsReset(q) => session < f /\ f <= k /\ ~ opens
    BY ONLY <2>1, <2>2 DEF Due
  <2>5. IsReset(q) => session < f /\ f <= k + 1 /\ f # k + 1 /\ ~ opens
    BY ONLY <2>3, <2>4, k \in Nat
  <2>6. QED BY ONLY <2>2, <2>4, <2>5 DEF Due
<1>2. session <= k /\ (session # 0 => ~ opens)
  BY ONLY TakeTurns(s, session, k, opens, resets) DEF TakeTurns
<1>3. session <= k + 1 /\ session < k + 1
  BY ONLY <1>2, session \in Nat, k \in Nat
<1>4. QED BY ONLY <1>1, <1>2, <1>3, TakeTurns(s, session, k, opens, resets) DEF TakeTurns

\* The first package is handled: the session of the port does not go down.
LEMMA TurnsOfTail ==
  ASSUME NEW s \in Seq(Packages), s # << >>, NEW session \in Nat, NEW k \in Nat,
         NEW opens, NEW resets, TakeTurns(s, session, k, opens, resets), NEW next \in Nat,
         next = IF IsReset(Head(s)) THEN Head(s).from ELSE IF IsOpen(Head(s)) THEN 0 ELSE session
  PROVE  TakeTurns(Tail(s), next, k, opens, resets) /\ session <= next
<1>1. PICK len \in Nat : len = Len(s)
  BY ONLY s \in Seq(Packages), LenProperties
<1>2. PICK t, q : t = Tail(s) /\ q = Head(s)
  OBVIOUS
<1>3. len >= 1 /\ q = s[1] /\ Len(t) = len - 1 /\ \A i \in 1 .. len - 1 : t[i] = s[i + 1]
  BY ONLY <1>1, <1>2, s \in Seq(Packages), s # << >>, HeadTailProperties, EmptySeq
<1>4. /\ session <= k /\ (session # 0 => ~ opens) /\ (resets => session < k)
      /\ \A i \in 1 .. len : Due(s[i], session, k, opens, resets)
      /\ \A i, j \in 1 .. len : i < j => Turn(s[i], s[j])
  BY ONLY <1>1, TakeTurns(s, session, k, opens, resets) DEF TakeTurns
<1>5. Due(q, session, k, opens, resets)
  <2>1. 1 \in 1 .. len
    BY ONLY <1>3, len \in Nat
  <2>2. QED BY ONLY <1>3, <1>4, <2>1
<1>6. q.from \in Nat
  BY ONLY <1>2, s \in Seq(Packages), s # << >>, HeadTailProperties, PackageFields
<1>7. next = IF IsReset(q) THEN q.from ELSE IF IsOpen(q) THEN 0 ELSE session
  BY ONLY <1>2, next = IF IsReset(Head(s)) THEN Head(s).from ELSE IF IsOpen(Head(s)) THEN 0 ELSE session
<1>8. /\ session <= next /\ next <= k /\ (next # 0 => ~ opens) /\ (resets => next < k)
      /\ next = session \/ (IsReset(q) /\ next = q.from)
  BY ONLY <1>4, <1>5, <1>6, <1>7, session \in Nat, k \in Nat, next \in Nat DEF Due
<1>9. ASSUME NEW i \in 1 .. len - 1
      PROVE  Due(t[i], next, k, opens, resets)
  <2>1. i + 1 \in 1 .. len /\ 1 \in 1 .. len /\ 1 < i + 1 /\ t[i] = s[i + 1]
    BY ONLY <1>3, i \in 1 .. len - 1, len \in Nat
  <2>2. Due(t[i], session, k, opens, resets) /\ Turn(q, t[i])
    BY ONLY <1>3, <1>4, <2>1
  <2>3. QED BY ONLY <1>8, <2>2 DEF Due, Turn
<1>10. ASSUME NEW i \in 1 .. len - 1, NEW j \in 1 .. len - 1, i < j
       PROVE  Turn(t[i], t[j])
  <2>1. i + 1 \in 1 .. len /\ j + 1 \in 1 .. len /\ i + 1 < j + 1 /\ t[i] = s[i + 1] /\ t[j] = s[j + 1]
    BY ONLY <1>3, <1>10, len \in Nat
  <2>2. QED BY ONLY <1>4, <2>1
<1>11. QED BY ONLY <1>2, <1>3, <1>8, <1>9, <1>10 DEF TakeTurns

-----------------------------------------------------------------------------
(* Answers in order.                                                       *)

\* The answers a go on from the bytes s, which one hears who has heard the byte
\* before.
GoOn(a, s, listening, heard, live, end) ==
  \E at \in Reports(a) :
    /\ at[0] \in Nat /\ LastOf(s, at[0])
    /\ listening => at[0] = heard + Len(s)
    /\ live => at[Len(a)] = end

\* Without a gap the answers a take the device from byte m to byte n.
FromTo(a, m, n) == \E at \in Reports(a) : at[0] = m /\ at[Len(a)] = n

LEMMA NothingHeard ==
  ASSUME NEW heard \in Nat, NEW end \in Nat, NEW listening \in BOOLEAN, NEW live \in BOOLEAN,
         ~ (listening /\ live)
  PROVE  Heard(<< >>, listening, heard, live, end)
<1>1. Len(<< >>) = 0 /\ 1 .. 0 = {} /\ 0 \in 0 .. 0
  OBVIOUS
<1>2. PICK n : n = IF listening THEN heard ELSE end
  OBVIOUS
<1>3. PICK at : at = [i \in 0 .. 0 |-> n]
  OBVIOUS
<1>4. at \in [0 .. 0 -> Nat] /\ at[0] = n
  BY ONLY <1>1, <1>2, <1>3, heard \in Nat, end \in Nat
<1>5. at \in Reports(<< >>)
  BY ONLY <1>1, <1>4 DEF Reports
<1>6. (listening => at[0] = heard) /\ (live => at[0] = end)
  BY ONLY <1>2, <1>4, ~ (listening /\ live), listening \in BOOLEAN
<1>7. QED BY ONLY <1>1, <1>5, <1>6 DEF Heard

LEMMA AnswerFields ==
  ASSUME NEW a \in Seq(Responses)
  PROVE  /\ Len(a) \in Nat
         /\ \A i \in 1 .. Len(a) : /\ a[i] \in Responses /\ a[i].session \in Nat
                                  /\ a[i].data \in Seq(1 .. MaxEmitted) /\ Len(a[i].data) \in Nat
<1>1. Len(a) \in Nat
  BY ONLY a \in Seq(Responses), LenProperties
<1>2. \A r \in Responses : r.session \in Nat /\ r.data \in Seq(1 .. MaxEmitted)
  BY Bounds DEF Responses
<1>3. \A i \in 1 .. Len(a) : a[i] \in Responses
  BY ONLY a \in Seq(Responses), ElementOfSeq
<1>4. \A r \in Responses : Len(r.data) \in Nat
  BY ONLY <1>2, LenProperties
<1>5. QED BY ONLY <1>1, <1>2, <1>3, <1>4

\* The firmware answers with the last bytes of the device.
LEMMA AnswerIsHeard ==
  ASSUME NEW a \in Seq(Responses), NEW r \in Responses,
         NEW session \in Nat, r.session = session, Rising(a, session),
         NEW at \in Reports(a), NEW n \in Nat, n = at[Len(a)] + Len(r.data), LastOf(r.data, n)
  PROVE  Rising(Append(a, r), session) /\ FromTo(Append(a, r), at[0], n)
<1>1. PICK len \in Nat : len = Len(a)
  BY ONLY a \in Seq(Responses), LenProperties
<1>2. PICK b : b = Append(a, r)
  OBVIOUS
<1>3. Len(b) = len + 1 /\ b[len + 1] = r /\ \A i \in 1 .. len : b[i] = a[i]
  BY ONLY <1>1, <1>2, a \in Seq(Responses), r \in Responses, AppendProperties
<1>4. \A i \in 1 .. len + 1 : i \in 1 .. len \/ i = len + 1
  BY ONLY len \in Nat
<1>5. n = at[len] + Len(r.data)
  BY ONLY <1>1, n = at[Len(a)] + Len(r.data)
<1>6. /\ at \in [0 .. len -> Nat]
      /\ \A i \in 1 .. len : at[i] = at[i - 1] + Len(a[i].data) /\ LastOf(a[i].data, at[i])
  BY ONLY <1>1, at \in Reports(a) DEF Reports
<1>7. PICK to : to = [i \in 0 .. len + 1 |-> IF i = len + 1 THEN n ELSE at[i]]
  OBVIOUS
<1>8. to \in [0 .. len + 1 -> Nat] /\ to[0] = at[0] /\ to[len + 1] = n
  BY ONLY <1>6, <1>7, len \in Nat, n \in Nat
<1>9. ASSUME NEW i \in 1 .. len + 1
      PROVE  to[i] = to[i - 1] + Len(b[i].data) /\ LastOf(b[i].data, to[i])
  <2>1. to[i - 1] = at[i - 1]
    BY ONLY <1>7, i \in 1 .. len + 1, len \in Nat
  <2>2. CASE i = len + 1
    <3>1. i - 1 = len /\ b[i] = r /\ to[i] = n
      BY ONLY <1>3, <1>8, <2>2, len \in Nat
    <3>2. QED BY ONLY <1>5, <2>1, <3>1, LastOf(r.data, n)
  <2>3. CASE i # len + 1
    <3>1. i \in 1 .. len /\ to[i] = at[i]
      BY ONLY <1>7, <2>3, i \in 1 .. len + 1, len \in Nat
    <3>2. QED BY ONLY <1>3, <1>6, <2>1, <3>1
  <2>4. QED BY ONLY <2>2, <2>3
<1>10. to \in Reports(b) /\ to[Len(b)] = n
  BY ONLY <1>3, <1>8, <1>9 DEF Reports
<1>11. /\ \A i \in 1 .. len : a[i].session <= session
       /\ \A i, j \in 1 .. len : i < j => a[i].session <= a[j].session
  BY ONLY <1>1, Rising(a, session) DEF Rising
<1>12. \A i \in 1 .. len + 1 : b[i].session <= session
  BY ONLY <1>3, <1>4, <1>11, r.session = session, session \in Nat
<1>13. ASSUME NEW i \in 1 .. len + 1, NEW j \in 1 .. len + 1, i < j
       PROVE  b[i].session <= b[j].session
  <2>1. i \in 1 .. len
    BY ONLY <1>13, len \in Nat
  <2>2. CASE j \in 1 .. len
    BY ONLY <1>3, <1>11, <1>13, <2>1, <2>2
  <2>3. CASE j = len + 1
    BY ONLY <1>3, <1>12, <2>3, r.session = session, i \in 1 .. len + 1
  <2>4. QED BY ONLY <1>4, <2>2, <2>3
<1>14. Rising(b, session)
  BY ONLY <1>3, <1>12, <1>13 DEF Rising
<1>15. FromTo(b, at[0], n)
  BY ONLY <1>8, <1>10 DEF FromTo
<1>16. QED BY ONLY <1>2, <1>14, <1>15

\* The client takes the first answer.
LEMMA RestIsHeard ==
  ASSUME NEW a \in Seq(Responses), a # << >>, NEW session,
         NEW listening \in BOOLEAN, NEW heard \in Nat, NEW live \in BOOLEAN, NEW end,
         Rising(a, session), Heard(a, listening, heard, live, end)
  PROVE  /\ Rising(Tail(a), session) /\ Head(a).session <= session
         /\ ForClient(Tail(a), session, Head(a).session)
         /\ GoOn(Tail(a), Head(a).data, listening, heard, live, end)
<1>1. PICK len \in Nat : len = Len(a)
  BY ONLY a \in Seq(Responses), LenProperties
<1>2. PICK t, r : t = Tail(a) /\ r = Head(a)
  OBVIOUS
<1>3. len >= 1 /\ r = a[1] /\ Len(t) = len - 1 /\ \A i \in 1 .. len - 1 : t[i] = a[i + 1]
  BY ONLY <1>1, <1>2, a \in Seq(Responses), a # << >>, HeadTailProperties, EmptySeq
<1>4. PICK at \in Reports(a) : (listening => at[0] = heard) /\ (live => at[len] = end)
  BY ONLY <1>1, Heard(a, listening, heard, live, end) DEF Heard
<1>5. /\ at \in [0 .. len -> Nat]
      /\ \A i \in 1 .. len : at[i] = at[i - 1] + Len(a[i].data) /\ LastOf(a[i].data, at[i])
  BY ONLY <1>1, <1>4 DEF Reports
<1>6. PICK to : to = [i \in 0 .. len - 1 |-> at[i + 1]]
  OBVIOUS
<1>7. to \in [0 .. len - 1 -> Nat] /\ to[0] = at[1] /\ to[len - 1] = at[len] /\ at[1] \in Nat
  <2>1. /\ 0 \in 0 .. len - 1 /\ len - 1 \in 0 .. len - 1 /\ 1 \in 0 .. len
        /\ 0 + 1 = 1 /\ (len - 1) + 1 = len
    BY ONLY <1>3, len \in Nat
  <2>2. \A i \in 0 .. len - 1 : i + 1 \in 0 .. len
    BY ONLY len \in Nat
  <2>3. \A i \in 0 .. len : at[i] \in Nat
    BY ONLY <1>5
  <2>4. to \in [0 .. len - 1 -> Nat]
    BY ONLY <1>6, <2>2, <2>3
  <2>5. to[0] = at[0 + 1] /\ to[len - 1] = at[(len - 1) + 1]
    BY ONLY <1>6, <2>1
  <2>6. QED BY ONLY <2>1, <2>3, <2>4, <2>5
<1>8. ASSUME NEW i \in 1 .. len - 1
      PROVE  to[i] = to[i - 1] + Len(t[i].data) /\ LastOf(t[i].data, to[i])
  <2>1. to[i] = at[i + 1] /\ to[i - 1] = at[i] /\ t[i] = a[i + 1] /\ i + 1 \in 1 .. len /\ (i + 1) - 1 = i
    <3>1. /\ i \in 0 .. len - 1 /\ i - 1 \in 0 .. len - 1 /\ (i - 1) + 1 = i
          /\ i + 1 \in 1 .. len /\ (i + 1) - 1 = i
      BY ONLY i \in 1 .. len - 1, len \in Nat
    <3>2. to[i - 1] = at[(i - 1) + 1]
      BY ONLY <1>6, <3>1
    <3>3. to[i] = at[i + 1] /\ t[i] = a[i + 1]
      BY ONLY <1>3, <1>6, <3>1, i \in 1 .. len - 1
    <3>4. QED BY ONLY <3>1, <3>2, <3>3
  <2>2. at[i + 1] = at[(i + 1) - 1] + Len(a[i + 1].data) /\ LastOf(a[i + 1].data, at[i + 1])
    BY ONLY <1>5, <2>1
  <2>3. QED BY ONLY <2>1, <2>2
<1>9. to \in Reports(t) /\ to[Len(t)] = at[len] /\ to[0] = at[1]
  BY ONLY <1>3, <1>7, <1>8 DEF Reports
<1>10. LastOf(r.data, at[1]) /\ at[1] = at[0] + Len(r.data)
  <2>1. 1 \in 1 .. len /\ 1 - 1 = 0
    BY ONLY <1>3, len \in Nat
  <2>2. at[1] = at[1 - 1] + Len(a[1].data) /\ LastOf(a[1].data, at[1])
    BY ONLY <1>5, <2>1
  <2>3. QED BY ONLY <1>3, <2>1, <2>2
<1>11. /\ to[0] \in Nat /\ LastOf(r.data, to[0]) /\ (listening => to[0] = heard + Len(r.data))
       /\ live => to[Len(t)] = end
  BY ONLY <1>4, <1>7, <1>9, <1>10
<1>12. /\ \A i \in 1 .. len : a[i].session <= session
       /\ \A i, j \in 1 .. len : i < j => a[i].session <= a[j].session
  BY ONLY <1>1, Rising(a, session) DEF Rising
<1>13. \A i \in 1 .. len - 1 : /\ i + 1 \in 1 .. len /\ 1 \in 1 .. len /\ 1 < i + 1 /\ t[i] = a[i + 1]
                               /\ \A j \in 1 .. len - 1 : i < j => i + 1 < j + 1
  BY ONLY <1>3, len \in Nat
<1>14. /\ \A i \in 1 .. len - 1 : t[i].session <= session /\ r.session <= t[i].session
       /\ \A i, j \in 1 .. len - 1 : i < j => t[i].session <= t[j].session
  BY ONLY <1>3, <1>12, <1>13
<1>15. r.session <= session
  <2>1. 1 \in 1 .. len
    BY ONLY <1>3, len \in Nat
  <2>2. QED BY ONLY <1>3, <1>12, <2>1
<1>16. Rising(t, session) /\ ForClient(t, session, r.session)
  BY ONLY <1>3, <1>14, <1>15 DEF Rising, ForClient
<1>17. GoOn(t, r.data, listening, heard, live, end)
  BY ONLY <1>9, <1>11 DEF GoOn
<1>18. QED BY ONLY <1>2, <1>15, <1>16, <1>17

\* If the last of the bytes g was for the client k, it is the one heard last, and
\* size bytes later it is n.
Advances(g, k, heard, size, n) ==
  g # << >> /\ g[Len(g)][1] = k => g[Len(g)][2] = heard /\ n = heard + size

\* The last of the bytes g, if it is for the client k, is the byte n of the device.
EndsAt(g, k, n) == g # << >> /\ g[Len(g)][1] = k => g[Len(g)][2] = n

\* What the client has heard goes on with the data of an answer.
LEMMA ClientHearsOn ==
  ASSUME NEW S, NEW g \in Seq(S), NEW data \in Seq(1 .. MaxEmitted), NEW n \in Nat, NEW heard \in Nat,
         NEW t \in Seq(S), Len(t) = Len(data), NEW k,
         \A i \in 1 .. Len(data) : t[i][1] = k /\ t[i][2] = data[i],
         Gapless(g), LastOf(data, n), Advances(g, k, heard, Len(data), n)
  PROVE  Gapless(g \o t) /\ EndsAt(g \o t, k, n)
<1>1. PICK p \in Nat, q \in Nat : p = Len(g) /\ q = Len(data)
  BY ONLY g \in Seq(S), data \in Seq(1 .. MaxEmitted), LenProperties
<1>2. q <= n /\ \A m \in 1 .. q : data[m] = (n - q) + m
  BY ONLY <1>1, LastOf(data, n) DEF LastOf
<1>3. Len(t) = q /\ \A m \in 1 .. q : t[m][1] = k /\ t[m][2] = (n - q) + m
  BY ONLY <1>1, <1>2, Len(t) = Len(data), \A i \in 1 .. Len(data) : t[i][1] = k /\ t[i][2] = data[i]
<1>4. PICK h : h = g \o t
  OBVIOUS
<1>5. /\ h \in Seq(S) /\ Len(h) = p + q
      /\ \A i \in 1 .. p + q : h[i] = IF i <= p THEN g[i] ELSE t[i - p]
  <2>1. h \in Seq(S) /\ Len(h) = Len(g) + Len(t)
    BY ONLY <1>4, g \in Seq(S), t \in Seq(S), ConcatProperties
  <2>2. \A i \in 1 .. Len(g) + Len(t) : h[i] = IF i <= Len(g) THEN g[i] ELSE t[i - Len(g)]
    BY ONLY <1>4, g \in Seq(S), t \in Seq(S), ConcatProperties
  <2>3. QED BY ONLY <1>1, <1>3, <2>1, <2>2
<1>6. \A i \in 1 .. p - 1 : g[i][1] = g[i + 1][1] => g[i + 1][2] = g[i][2] + 1
  BY ONLY <1>1, Gapless(g) DEF Gapless
<1>7. p # 0 /\ g[p][1] = k => g[p][2] = n - q
  <2>1. p # 0 => g # << >>
    BY ONLY <1>1, EmptySeq
  <2>2. p # 0 /\ g[p][1] = k => g[p][2] = heard /\ n = heard + q
    BY ONLY <1>1, <2>1, Advances(g, k, heard, Len(data), n) DEF Advances
  <2>3. n = heard + q => heard = n - q
    BY ONLY heard \in Nat, q \in Nat, n \in Nat
  <2>4. QED BY ONLY <2>2, <2>3
<1>8. ASSUME NEW i \in 1 .. (p + q) - 1, h[i][1] = h[i + 1][1]
      PROVE  h[i + 1][2] = h[i][2] + 1
  <2>1. i \in 1 .. p + q /\ i + 1 \in 1 .. p + q
    BY ONLY <1>8, p \in Nat, q \in Nat
  <2>2. CASE i + 1 <= p
    <3>1. i <= p /\ i \in 1 .. p - 1
      BY ONLY <2>1, <2>2, p \in Nat, q \in Nat
    <3>2. h[i] = g[i] /\ h[i + 1] = g[i + 1]
      BY ONLY <1>5, <2>1, <2>2, <3>1
    <3>3. QED BY ONLY <1>6, <1>8, <3>1, <3>2
  <2>3. CASE i = p
    <3>1. i <= p /\ ~ (i + 1 <= p) /\ (i + 1) - p = 1 /\ 1 \in 1 .. q /\ p # 0
      BY ONLY <1>8, <2>3, p \in Nat, q \in Nat
    <3>2. h[i] = g[p] /\ h[i + 1] = t[1]
      BY ONLY <1>5, <2>1, <2>3, <3>1
    <3>3. t[1][1] = k /\ t[1][2] = (n - q) + 1
      BY ONLY <1>3, <3>1
    <3>4. QED BY ONLY <1>7, <1>8, <3>1, <3>2, <3>3
  <2>4. CASE i > p
    <3>1. PICK m : m = i - p
      OBVIOUS
    <3>2. m \in 1 .. q /\ m + 1 \in 1 .. q /\ ~ (i <= p) /\ ~ (i + 1 <= p) /\ (i + 1) - p = m + 1
      BY ONLY <1>8, <2>4, <3>1, p \in Nat, q \in Nat
    <3>3. h[i] = t[m] /\ h[i + 1] = t[m + 1]
      BY ONLY <1>5, <2>1, <3>1, <3>2
    <3>4. t[m][2] = (n - q) + m /\ t[m + 1][2] = (n - q) + (m + 1)
      BY ONLY <1>3, <3>2
    <3>5. QED BY ONLY <3>2, <3>3, <3>4, n \in Nat, q \in Nat
  <2>5. QED BY ONLY <2>1, <2>2, <2>3, <2>4, p \in Nat, q \in Nat
<1>9. p + q # 0 /\ h[p + q][1] = k => h[p + q][2] = n
  <2>1. CASE q # 0
    <3>1. p + q \in 1 .. p + q /\ ~ (p + q <= p) /\ (p + q) - p = q /\ q \in 1 .. q
      BY ONLY <2>1, p \in Nat, q \in Nat
    <3>2. h[p + q] = t[q]
      BY ONLY <1>5, <3>1
    <3>3. t[q][2] = (n - q) + q
      BY ONLY <1>3, <3>1
    <3>4. QED BY ONLY <3>2, <3>3, n \in Nat, q \in Nat
  <2>2. CASE q = 0
    <3>1. p # 0 => p + q = p /\ p \in 1 .. p + q /\ p <= p /\ n - q = n
      BY ONLY <2>2, p \in Nat, q \in Nat, n \in Nat
    <3>2. p # 0 => h[p] = g[p]
      BY ONLY <1>5, <3>1
    <3>3. p + q # 0 => p # 0
      BY ONLY <2>2, p \in Nat
    <3>4. QED BY ONLY <1>7, <3>1, <3>2, <3>3
  <2>3. QED BY ONLY <2>1, <2>2
<1>10. Gapless(h)
  BY ONLY <1>5, <1>8 DEF Gapless
<1>11. h # << >> => Len(h) # 0
  BY ONLY <1>5, EmptySeq
<1>12. EndsAt(h, k, n)
  BY ONLY <1>5, <1>9, <1>11 DEF EndsAt
<1>13. QED BY ONLY <1>4, <1>10, <1>12
-----------------------------------------------------------------------------
(* The invariant.                                                          *)

LEMMA HearTypes ==
  ASSUME TypeOK, conns <= 1
  PROVE  /\ Sent \in Seq(Packages) /\ outbox \in Seq(Packages) /\ Sent \o outbox \in Seq(Packages)
         /\ uart \in Ports /\ uart.session \in Nat /\ clients \in Nat /\ emitted \in Nat
         /\ Len(uart.tx) \in Nat /\ openPending \in BOOLEAN /\ resetPending \in BOOLEAN
         /\ Taken \in Seq((0 .. MaxClients) \X (1 .. MaxEmitted)) /\ LastHeard \in Nat
         /\ Answers \in Seq(Responses) /\ (Listening => clients # 0 /\ client = clients)
<1>1. /\ conns \in {0, 1} /\ conn \in {0, conns} /\ (conns = 1 => 1 \in 1 .. MaxConns)
      /\ up \in [1 .. MaxConns -> Seq(Packages)] /\ down \in [1 .. MaxConns -> Seq(Responses)]
      /\ outbox \in Seq(Packages) /\ clients \in Nat /\ client \in {0, clients} /\ uart \in Ports
  BY ONLY TypeOK, conns <= 1, LinkTypes
<1>2. Sent \in Seq(Packages)
  BY ONLY <1>1, EmptySeq DEF Sent
<1>3. Answers \in Seq(Responses)
  BY ONLY <1>1, EmptySeq DEF Answers
<1>4. Sent \o outbox \in Seq(Packages)
  BY ONLY <1>1, <1>2, ConcatProperties
<1>5. uart.session \in Nat /\ Len(uart.tx) \in Nat
  <2>1. uart.session \in 0 .. SessionLimit /\ Len(uart.tx) \in 0 .. PayloadSize
    BY ONLY <1>1, PortFields
  <2>2. QED BY ONLY <2>1, Bounds
<1>6. /\ emitted \in Nat /\ openPending \in BOOLEAN /\ resetPending \in BOOLEAN
      /\ Taken \in Seq((0 .. MaxClients) \X (1 .. MaxEmitted))
  BY ONLY TypeOK, Bounds, ConcatProperties DEF TypeOK, ClientTypeOK, FirmwareTypeOK, Taken
<1>7. LastHeard \in Nat
  <2>1. PICK S : S = (0 .. MaxClients) \X (1 .. MaxEmitted)
    OBVIOUS
  <2>2. CASE Taken # << >>
    <3>1. Taken \in Seq(S) /\ Len(Taken) \in Nat /\ Len(Taken) # 0
      BY ONLY <1>6, <2>1, <2>2, LenProperties, EmptySeq
    <3>2. Len(Taken) \in 1 .. Len(Taken)
      BY ONLY <3>1
    <3>3. Taken[Len(Taken)] \in S
      BY ONLY <3>1, <3>2, ElementOfSeq
    <3>4. Taken[Len(Taken)][2] \in 1 .. MaxEmitted
      BY ONLY <2>1, <3>3
    <3>5. QED BY ONLY <2>2, <3>4, Bounds DEF LastHeard
  <2>3. QED BY ONLY <2>2 DEF LastHeard
<1>8. Listening => clients # 0 /\ client = clients
  BY ONLY <1>1 DEF Listening
<1>9. QED BY ONLY <1>1, <1>2, <1>3, <1>4, <1>5, <1>6, <1>7, <1>8

LEMMA HeardStays ==
  ASSUME NEW a, NEW listening, NEW heard, NEW live, NEW end, Heard(a, listening, heard, live, end),
         NEW listening2, NEW heard2, NEW live2, NEW end2,
         listening2 => listening /\ heard2 = heard, live2 => live /\ end2 = end
  PROVE  Heard(a, listening2, heard2, live2, end2)
<1>1. PICK at \in Reports(a) : (listening => at[0] = heard) /\ (live => at[Len(a)] = end)
  BY ONLY Heard(a, listening, heard, live, end) DEF Heard
<1>2. (listening2 => at[0] = heard2) /\ (live2 => at[Len(a)] = end2)
  BY ONLY <1>1, listening2 => listening /\ heard2 = heard, live2 => live /\ end2 = end
<1>3. QED BY ONLY <1>1, <1>2 DEF Heard

\* Neither an answer comes or goes nor a byte.
LEMMA StillTold ==
  ASSUME TypeOK, TypeOK', conns <= 1, conns' <= 1, Told, Answers' = Answers, uart.session <= uart'.session,
         uart'.tx = uart.tx, client' \in {0, client}, UNCHANGED <<clients, Taken, segmentCounter, emitted>>,
         Linked' => Linked
  PROVE  Told'
<1>1. uart.session \in Nat /\ clients \in Nat /\ Answers \in Seq(Responses)
  BY ONLY TypeOK, conns <= 1, HearTypes
<1>2. uart'.session \in Nat
  BY ONLY TypeOK', Bounds DEF TypeOK, FirmwareTypeOK
<1>3. /\ Rising(Answers, uart.session)
      /\ Listening => ForClient(Answers, uart.session, clients)
      /\ segmentCounter # 0 => LastOf(uart.tx, emitted)
      /\ Heard(Answers, Listening, LastHeard, Linked, emitted - Kept)
      /\ Gapless(Taken)
  BY ONLY Told DEF Told
<1>4. PICK a, s, s2 : a = Answers /\ s = uart.session /\ s2 = uart'.session
  OBVIOUS
<1>5. \A i \in 1 .. Len(a) : a[i].session \in Nat
  BY ONLY <1>1, <1>4, AnswerFields
<1>6. Rising(a, s2)
  BY ONLY <1>1, <1>2, <1>3, <1>4, <1>5, uart.session <= uart'.session DEF Rising
<1>7. Listening' => Listening
  BY ONLY client' \in {0, client}, UNCHANGED <<clients, Taken>> DEF Listening
<1>8. Listening' => ForClient(a, s2, clients)
  BY ONLY <1>1, <1>2, <1>3, <1>4, <1>7, uart.session <= uart'.session DEF ForClient
<1>9. Kept' = Kept /\ LastHeard' = LastHeard
  BY ONLY uart'.tx = uart.tx, UNCHANGED <<Taken, segmentCounter>> DEF Kept, LastHeard
<1>10. Heard(a, Listening', LastHeard', Linked', emitted' - Kept')
  BY ONLY <1>3, <1>4, <1>7, <1>9, emitted' = emitted, Linked' => Linked, HeardStays
<1>11. Gapless(Taken')
  BY ONLY <1>3, Taken' = Taken
<1>12. segmentCounter' # 0 => LastOf(uart'.tx, emitted')
  BY ONLY <1>3, uart'.tx = uart.tx, UNCHANGED <<segmentCounter, emitted>>
<1>13. QED BY ONLY <1>4, <1>6, <1>8, <1>10, <1>11, <1>12, Answers' = Answers, clients' = clients DEF Told

LEMMA StillInTurn ==
  ASSUME InTurn, Sent' = Sent, outbox' = outbox, uart'.session = uart.session,
         UNCHANGED <<clients, openPending, resetPending>>
  PROVE  InTurn'
BY ONLY InTurn, Sent' = Sent, outbox' = outbox, uart'.session = uart.session,
   UNCHANGED <<clients, openPending, resetPending>> DEF InTurn
-----------------------------------------------------------------------------
(* The client's steps.                                                     *)

\* What is in hand when another local client comes is the end of what was taken.
LEMMA InHandOfNewClient ==
  ASSUME ResetOnConnect = TRUE, TypeOK, Fence, Gapless(Taken), OnPortOpen
  PROVE  /\ Gapless(Taken') /\ (Taken = << >> => Taken' = << >>)
         /\ Taken' # << >> => Taken'[Len(Taken')][1] <= clients /\ Taken'[Len(Taken')][1] \in Int
<1>1. PICK S, g, s : S = (0 .. MaxClients) \X (1 .. MaxEmitted) /\ g = got /\ s = accepted
  OBVIOUS
<1>2. g \in Seq(S) /\ s \in Seq(S)
  BY ONLY <1>1, TypeOK DEF TypeOK, ClientTypeOK
<1>3. PICK p \in Nat, q \in Nat : p = Len(g) /\ q = Len(s)
  BY ONLY <1>2, LenProperties
<1>4. Taken' = s
  <2>1. got' = << >> /\ accepted' = accepted
    BY ONLY OnPortOpen, ResetOnConnect = TRUE DEF OnPortOpen
  <2>2. QED BY ONLY <1>1, <1>2, <2>1, ConcatEmptySeq DEF Taken
<1>5. PICK h : h = Taken
  OBVIOUS
<1>6. h \in Seq(S) /\ Len(h) = p + q /\ \A i \in 1 .. p + q : h[i] = IF i <= p THEN g[i] ELSE s[i - p]
  BY ONLY <1>1, <1>2, <1>3, <1>5, ConcatProperties DEF Taken
<1>7. ASSUME NEW i \in 1 .. q
      PROVE  p + i \in 1 .. p + q /\ h[p + i] = s[i]
  <2>1. p + i \in 1 .. p + q /\ ~ (p + i <= p) /\ (p + i) - p = i
    BY ONLY p \in Nat, q \in Nat, i \in 1 .. q
  <2>2. QED BY ONLY <1>6, <2>1
<1>8. ASSUME NEW i \in 1 .. q - 1, s[i][1] = s[i + 1][1]
      PROVE  s[i + 1][2] = s[i][2] + 1
  <2>1. /\ i \in 1 .. q /\ i + 1 \in 1 .. q /\ p + i \in 1 .. (p + q) - 1
        /\ p + (i + 1) = (p + i) + 1
    BY ONLY p \in Nat, q \in Nat, i \in 1 .. q - 1
  <2>2. h[p + i] = s[i] /\ h[(p + i) + 1] = s[i + 1]
    BY ONLY <1>7, <2>1
  <2>3. h[p + i][1] = h[(p + i) + 1][1] => h[(p + i) + 1][2] = h[p + i][2] + 1
    BY ONLY <1>5, <1>6, <2>1, Gapless(Taken) DEF Gapless
  <2>4. QED BY ONLY <1>8, <2>2, <2>3
<1>9. Gapless(s)
  BY ONLY <1>3, <1>8 DEF Gapless
<1>10. h = << >> => s = << >>
  BY ONLY <1>2, <1>3, <1>6, EmptySeq
<1>11. s # << >> => s[q][1] <= clients /\ s[q][1] \in Int
  <2>1. ASSUME s # << >> PROVE s[q][1] <= clients /\ s[q][1] \in Int
    <3>1. q # 0
      BY ONLY <1>2, <1>3, <2>1, EmptySeq
    <3>2. q \in 1 .. q
      BY ONLY <3>1, q \in Nat
    <3>3. p + q \in 1 .. Len(h) /\ h[p + q] = s[q]
      BY ONLY <1>6, <1>7, <3>2
    <3>4. h[p + q][1] <= clients
      BY ONLY <1>5, <3>3, Fence DEF Fence, InHand
    <3>5. s[q] \in S
      BY ONLY <1>2, <1>3, <3>2, ElementOfSeq
    <3>6. s[q][1] \in Int
      BY ONLY <1>1, <3>5
    <3>7. QED BY ONLY <3>3, <3>4, <3>6
  <2>2. QED BY ONLY <2>1
<1>12. QED BY ONLY <1>3, <1>4, <1>5, <1>9, <1>10, <1>11

LEMMA NewClientHears ==
  ASSUME ResetOnConnect = TRUE, TypeOK, conns <= 1, Fence, Hearing, OnPortOpen
  PROVE  Hearing'
<1>1. /\ clients' = clients + 1 /\ resetPending' = TRUE
      /\ UNCHANGED <<outbox, openPending, conn, conns, up, down, udpDown, fwConn, fwConns, serverStarted,
                     segmentCounter, uart, emitted>>
  BY ONLY ResetOnConnect = TRUE, OnPortOpen
     DEF OnPortOpen, tcpVars, udpVars, linkVars, pollVars, history
<1>2. /\ Sent \o outbox \in Seq(Packages) /\ uart.session \in Nat /\ clients \in Nat
  BY ONLY TypeOK, conns <= 1, HearTypes
<1>3. Sent' = Sent /\ Answers' = Answers /\ Kept' = Kept /\ (Linked' <=> Linked) /\ ~ Listening'
  <2>1. Sent' = Sent /\ Answers' = Answers /\ Kept' = Kept /\ (Linked' <=> Linked)
    BY ONLY <1>1 DEF Sent, Answers, Kept, Linked
  <2>2. Taken' # << >> => Taken'[Len(Taken')][1] <= clients /\ Taken'[Len(Taken')][1] \in Int
    BY ONLY ResetOnConnect = TRUE, TypeOK, Fence, Hearing, OnPortOpen, InHandOfNewClient
       DEF Hearing, Told
  <2>3. ~ Listening'
    BY ONLY <1>1, <1>2, <2>2 DEF Listening
  <2>4. QED BY ONLY <2>1, <2>3
<1>4. InTurn'
  <2>1. TakeTurns(Sent \o outbox, uart.session, clients, openPending, resetPending)
    BY ONLY Hearing DEF Hearing, InTurn
  <2>2. TakeTurns(Sent \o outbox, uart.session, clients + 1, openPending, TRUE)
    BY ONLY <1>2, <2>1, TurnsOfNewClient
  <2>3. QED BY ONLY <1>1, <1>3, <2>2 DEF InTurn
<1>5. Quiet'
  <2>1. Taken = << >> => Taken' = << >>
    BY ONLY ResetOnConnect = TRUE, TypeOK, Fence, Hearing, OnPortOpen, InHandOfNewClient
       DEF Hearing, Told
  <2>2. QED BY ONLY <1>1, <1>3, <2>1, Hearing DEF Hearing, Quiet
<1>6. Heard(Answers, Listening', LastHeard', Linked', emitted' - Kept')
  <2>1. Heard(Answers, Listening, LastHeard, Linked, emitted - Kept)
    BY ONLY Hearing DEF Hearing, Told
  <2>2. QED BY ONLY <1>1, <1>3, <2>1, HeardStays
<1>7. Gapless(Taken')
  BY ONLY ResetOnConnect = TRUE, TypeOK, Fence, Hearing, OnPortOpen, InHandOfNewClient
     DEF Hearing, Told
<1>8. Told'
  BY ONLY <1>1, <1>3, <1>6, <1>7, Hearing DEF Hearing, Told
<1>9. QED BY ONLY <1>4, <1>5, <1>8 DEF Hearing

\* A round adds its package to the stream.
LEMMA RoundInTurn ==
  ASSUME TypeOK, conns <= 1, InTurn, NEW request \in Requests, Tick, Pack(request), clients' = clients,
         openPending' \in BOOLEAN, resetPending' \in BOOLEAN,
         openPending' => openPending, resetPending' => resetPending,
         request.type = "Open" => openPending /\ ~ openPending',
         request.type = "Reset" => /\ resetPending /\ ~ resetPending' /\ ~ openPending
                                   /\ client = clients
  PROVE  InTurn'
<1>1. /\ outbox = << >> /\ UNCHANGED <<up, conns, uart>>
  BY ONLY Tick, Pack(request) DEF Tick, Pack, NoPackage, tcpVars
<1>2. /\ Sent \in Seq(Packages) /\ uart.session \in Nat /\ clients \in Nat
      /\ openPending \in BOOLEAN /\ resetPending \in BOOLEAN
  BY ONLY TypeOK, conns <= 1, HearTypes
<1>3. PICK p : p = outbox'[1]
  OBVIOUS
<1>4. /\ p \in Packages /\ p.request = request /\ p.from = client /\ outbox' = <<p>>
  <2>1. /\ outbox' \in Seq(Packages) /\ Len(outbox') = 1 /\ outbox'[1] \in Packages
        /\ outbox'[1].request = request /\ outbox'[1].from = client
    <3>1. ClientTypeOK
      BY ONLY TypeOK DEF TypeOK
    <3>2. QED BY ONLY <3>1, request \in Requests, Tick, Pack(request), PackedIsPackage
  <2>2. PICK box : box = outbox'
    OBVIOUS
  <2>3. box = <<p>>
    BY ONLY <1>3, <2>1, <2>2
  <2>4. QED BY ONLY <1>3, <2>1, <2>2, <2>3
<1>5. Sent' = Sent /\ Sent \o outbox = Sent /\ Sent \o <<p>> = Append(Sent, p)
  <2>1. Sent' = Sent
    BY ONLY <1>1 DEF Sent
  <2>2. Sent \o << >> = Sent
    BY ONLY <1>2, ConcatEmptySeq
  <2>3. Sent \o <<p>> = Append(Sent, p)
    BY ONLY <1>2, <1>4, AppendIsConcat
  <2>4. QED BY ONLY <1>1, <2>1, <2>2, <2>3
<1>6. TakeTurns(Sent, uart.session, clients, openPending, resetPending)
  BY ONLY <1>5, InTurn DEF InTurn
<1>7. /\ IsOpen(p) => openPending /\ ~ openPending'
      /\ IsReset(p) => resetPending /\ ~ resetPending' /\ ~ openPending /\ p.from = clients
  BY ONLY <1>4, request.type = "Open" => openPending /\ ~ openPending',
     request.type = "Reset" => /\ resetPending /\ ~ resetPending' /\ ~ openPending
                               /\ client = clients
     DEF IsOpen, IsReset
<1>8. TakeTurns(Append(Sent, p), uart.session, clients, openPending', resetPending')
  BY ONLY <1>2, <1>4, <1>6, <1>7, openPending' \in BOOLEAN, resetPending' \in BOOLEAN,
     openPending' => openPending, resetPending' => resetPending, TurnsGrow
<1>9. QED BY ONLY <1>1, <1>4, <1>5, <1>8, clients' = clients DEF InTurn

LEMMA RoundHears ==
  ASSUME TypeOK, TypeOK', conns <= 1, Fence, Hearing,
         \/ PrepareNothing \/ PrepareOpen \/ PrepareReset \/ PrepareIdle \/ PrepareHangup
         \/ \E n \in 1 .. MaxBytes : PrepareData(n)
  PROVE  Hearing'
<1>1. openPending' \in BOOLEAN /\ resetPending' \in BOOLEAN /\ openPending \in BOOLEAN /\ resetPending \in BOOLEAN
  BY ONLY TypeOK, TypeOK' DEF TypeOK, ClientTypeOK
<1>2. /\ InTurn /\ (resetPending => client = clients) /\ sessionId \in 0 .. SessionLimit
  BY ONLY Hearing, Fence, TypeOK DEF Hearing, Fence, TypeOK, ClientTypeOK
<1>3. InTurn'
  <2>1. CASE PrepareNothing \/ PrepareIdle \/ PrepareHangup
    <3>1. PICK request : request = NoCommand
      OBVIOUS
    <3>2. request \in Requests /\ request.type # "Open" /\ request.type # "Reset"
      BY ONLY <3>1 DEF NoCommand, Request, Requests
    <3>3. Tick /\ Pack(request) /\ UNCHANGED <<clients, openPending, resetPending>>
      BY ONLY <2>1, <3>1 DEF PrepareNothing, PrepareIdle, PrepareHangup, MayRead, portVars
    <3>4. QED BY ONLY <1>1, <1>2, <3>2, <3>3, TypeOK, conns <= 1, RoundInTurn
  <2>2. CASE PrepareOpen
    <3>1. PICK request : request = Request("Open", 0, <<"speed">>)
      OBVIOUS
    <3>2. request \in Requests /\ request.type # "Reset"
      BY ONLY <3>1 DEF Request, Requests
    <3>3. /\ Tick /\ Pack(request) /\ UNCHANGED <<clients, resetPending>>
          /\ openPending /\ ~ openPending'
      BY ONLY <2>2, <3>1, Zenon DEF PrepareOpen
    <3>4. QED BY ONLY <1>1, <1>2, <3>2, <3>3, TypeOK, conns <= 1, RoundInTurn
  <2>3. CASE PrepareReset
    <3>1. PICK request : request = Request("Reset", sessionId, << >>)
      OBVIOUS
    <3>2. request \in Requests /\ request.type # "Open"
      BY ONLY <1>2, <3>1 DEF Request, Requests
    <3>3. /\ Tick /\ Pack(request) /\ UNCHANGED <<clients, openPending>>
          /\ ~ openPending /\ resetPending /\ ~ resetPending'
      BY ONLY <2>3, <3>1, Zenon DEF PrepareReset
    <3>4. QED BY ONLY <1>1, <1>2, <3>2, <3>3, TypeOK, conns <= 1, RoundInTurn
  <2>4. CASE \E n \in 1 .. MaxBytes : PrepareData(n)
    <3>1. PICK n \in 1 .. MaxBytes : PrepareData(n)
      BY ONLY <2>4
    <3>2. PICK request : request = Request("Data", 0, [i \in 1 .. n |-> <<client, consumed + i>>])
      OBVIOUS
    <3>3. request \in Requests
      <4>1. ClientTypeOK
        BY ONLY TypeOK DEF TypeOK
      <4>2. QED BY ONLY <3>1, <3>2, <4>1, DataIsRequest
    <3>4. request.type # "Open" /\ request.type # "Reset"
      BY ONLY <3>2 DEF Request
    <3>5. Tick /\ Pack(request) /\ UNCHANGED <<clients, openPending, resetPending>>
      BY ONLY <3>1, <3>2, Zenon DEF PrepareData, MayRead
    <3>6. QED BY ONLY <1>1, <1>2, <3>3, <3>4, <3>5, TypeOK, conns <= 1, RoundInTurn
  <2>5. QED
    BY ONLY <2>1, <2>2, <2>3, <2>4,
       \/ PrepareNothing \/ PrepareOpen \/ PrepareReset \/ PrepareIdle \/ PrepareHangup
       \/ \E n \in 1 .. MaxBytes : PrepareData(n)
<1>4. /\ client' \in {0, client}
      /\ UNCHANGED <<clients, Taken, conn, conns, up, down, udpDown, fwConn, fwConns, serverStarted,
                     segmentCounter, uart, emitted>>
  BY ONLY \/ PrepareNothing \/ PrepareOpen \/ PrepareReset \/ PrepareIdle \/ PrepareHangup
          \/ \E n \in 1 .. MaxBytes : PrepareData(n)
     DEF PrepareNothing, PrepareOpen, PrepareReset, PrepareIdle, PrepareHangup, PrepareData, MayRead, Pack,
         Taken, portVars, tcpVars, udpVars, linkVars, pollVars, history
<1>5. Answers' = Answers /\ (Linked' => Linked) /\ uart.session <= uart'.session
  <2>1. uart.session \in Nat
    BY ONLY TypeOK, conns <= 1, HearTypes
  <2>2. QED BY ONLY <1>4, <2>1 DEF Answers, Linked
<1>6. Told'
  BY ONLY <1>4, <1>5, TypeOK, TypeOK', conns <= 1, Hearing, StillTold DEF Hearing
<1>7. Quiet'
  BY ONLY <1>4, <1>5, Hearing DEF Hearing, Quiet
<1>8. QED BY ONLY <1>3, <1>6, <1>7 DEF Hearing

LEMMA SendHears ==
  ASSUME TypeOK, TypeOK', Line, ~ useUDP, conns <= 1, Hearing, Send
  PROVE  Hearing'
<1>1. PICK package : package = outbox[1]
  OBVIOUS
<1>2. /\ outbox # << >> /\ package.useTCP /\ outbox' = << >>
      /\ UNCHANGED <<openPending, resetPending, client, clients, Taken, conn, conns, down, udpDown, fwConn,
                     fwConns, serverStarted, segmentCounter, uart, emitted>>
  BY ONLY <1>1, Send, Line
     DEF Send, Line, ToBeSent, Taken, roundVars, portVars, linkVars, pollVars, history, NoPackage
<1>3. /\ conns \in {0, 1} /\ conn \in {0, conns} /\ (conns = 1 => 1 \in 1 .. MaxConns)
      /\ up \in [1 .. MaxConns -> Seq(Packages)] /\ outbox \in Seq(Packages) /\ Len(outbox) <= 1
  BY ONLY TypeOK, conns <= 1, LinkTypes
<1>4. Sent \in Seq(Packages) /\ Sent \o outbox \in Seq(Packages)
  BY ONLY TypeOK, conns <= 1, HearTypes
<1>5. up' = IF Live THEN [up EXCEPT ![conn] = Append(up[conn], package)] ELSE up
  BY ONLY <1>1, <1>2, Send DEF Send, Live
<1>6. outbox = <<package>> /\ package \in Packages
  <2>1. Len(outbox) = 1
    <3>1. PICK len : len = Len(outbox)
      OBVIOUS
    <3>2. len \in Nat \ {0}
      BY ONLY <1>2, <1>3, <3>1, EmptySeq
    <3>3. QED BY ONLY <1>3, <3>1, <3>2
  <2>2. package \in Packages
    BY ONLY <1>1, <1>3, <2>1, ElementOfSeq
  <2>3. outbox \in [1 .. 1 -> Packages]
    BY ONLY <1>3, <2>1, LenProperties
  <2>4. QED BY ONLY <1>1, <2>2, <2>3
<1>7. Sent' \in {Sent, Append(Sent, package)} /\ \A c \in 1 .. MaxConns : c > conns => up'[c] = up[c]
  <2>1. CASE Live
    <3>1. conn = 1 /\ conns = 1
      BY ONLY <1>3, <2>1 DEF Live, Reaches
    <3>2. up'[1] = Append(up[1], package) /\ \A c \in 1 .. MaxConns : c > conns => up'[c] = up[c]
      BY ONLY <1>3, <1>5, <2>1, <3>1
    <3>3. Sent' = Append(Sent, package)
      BY ONLY <1>2, <3>1, <3>2 DEF Sent
    <3>4. QED BY ONLY <3>2, <3>3
  <2>2. CASE ~ Live
    BY ONLY <1>2, <1>5, <2>2 DEF Sent
  <2>3. QED BY ONLY <2>1, <2>2
<1>8. InTurn'
  <2>1. PICK s, t : s = Sent \o outbox /\ t = Sent' \o outbox'
    OBVIOUS
  <2>2. s \in Seq(Packages) /\ s = Append(Sent, package)
    BY ONLY <1>4, <1>6, <2>1, AppendIsConcat
  <2>3. t = Sent'
    <3>1. Append(Sent, package) \in Seq(Packages)
      BY ONLY <1>4, <1>6, AppendProperties
    <3>2. Sent' \in Seq(Packages)
      BY ONLY <1>4, <1>7, <3>1
    <3>3. QED BY ONLY <1>2, <2>1, <3>2, ConcatEmptySeq
  <2>4. TakeTurns(s, uart.session, clients, openPending, resetPending)
    BY ONLY <2>1, Hearing DEF Hearing, InTurn
  <2>5. CASE t = s
    BY ONLY <1>2, <2>1, <2>4, <2>5 DEF InTurn
  <2>6. CASE t = Sent
    <3>1. FrontOf(Sent, s)
      <4>1. /\ Len(s) = Len(Sent) + 1 /\ Len(Sent) \in Nat
            /\ \A i \in 1 .. Len(Sent) : s[i] = Sent[i]
        BY ONLY <1>4, <1>6, <2>2, AppendProperties, LenProperties
      <4>2. QED BY ONLY <4>1 DEF FrontOf
    <3>2. TakeTurns(t, uart.session, clients, openPending, resetPending)
      BY ONLY <1>4, <2>2, <2>4, <2>6, <3>1, TurnsOfFront
    <3>3. QED BY ONLY <1>2, <2>1, <3>2 DEF InTurn
  <2>7. QED BY ONLY <1>7, <2>2, <2>3, <2>5, <2>6
<1>9. Answers' = Answers /\ (Linked' => Linked) /\ uart.session <= uart'.session
  <2>1. uart.session \in Nat
    BY ONLY TypeOK, conns <= 1, HearTypes
  <2>2. QED BY ONLY <1>2, <2>1 DEF Answers, Linked
<1>10. Told'
  BY ONLY <1>2, <1>9, TypeOK, TypeOK', conns <= 1, Hearing, StillTold DEF Hearing
<1>11. Quiet'
  BY ONLY <1>2, <1>7, <1>9, Hearing DEF Hearing, Quiet
<1>12. QED BY ONLY <1>8, <1>10, <1>11 DEF Hearing

\* A connection is made, which is empty, or given up.
LEMMA LinkChangeHears ==
  ASSUME TypeOK, TypeOK', conns <= 1, conns' <= 1, Hearing, Connect \/ Disconnect
  PROVE  Hearing'
<1>1. UNCHANGED <<outbox, openPending, resetPending, client, clients, Taken, up, down, fwConn,
                  fwConns, serverStarted, segmentCounter, uart, emitted>>
  BY ONLY Connect \/ Disconnect
     DEF Connect, Disconnect, Taken, clientVars, roundVars, portVars, udpVars, linkVars, pollVars, history
<1>2. /\ conns \in {0, 1} /\ fwConns \in 0 .. conns /\ fwConn \in {0, fwConns}
      /\ up \in [1 .. MaxConns -> Seq(Packages)] /\ down \in [1 .. MaxConns -> Seq(Responses)]
  BY ONLY TypeOK, conns <= 1, LinkTypes
<1>3. /\ udpDown' = << >> /\ conns <= conns'
      /\ Sent' = Sent /\ Answers' = << >> /\ ~ Linked' /\ (Taken # << >> => fwConns # 0)
  <2>1. CASE Connect
    <3>1. conn = 0 /\ conns' = conns + 1 /\ conn' = conns + 1 /\ udpDown' = << >> /\ conns' \in 0 .. MaxConns
      BY ONLY <2>1, TypeOK' DEF Connect, TypeOK, NetworkTypeOK
    <3>2. conns = 0 /\ conns' = 1 /\ conn' = 1 /\ 1 \in 1 .. MaxConns /\ fwConn = 0
      BY ONLY <1>2, <3>1, conns' <= 1, Bounds
    <3>3. up[1] = << >> /\ down[1] = << >>
      BY ONLY <3>2, Hearing DEF Hearing, Quiet
    <3>4. Sent' = Sent /\ Answers' = << >>
      BY ONLY <1>1, <3>2, <3>3 DEF Sent, Answers
    <3>5. ~ Linked' /\ (Taken # << >> => fwConns # 0)
      BY ONLY <1>1, <3>2, Hearing DEF Linked, Hearing, Quiet
    <3>6. QED BY ONLY <3>1, <3>2, <3>4, <3>5
  <2>2. CASE Disconnect
    <3>1. conn' = 0 /\ conns' = conns /\ udpDown' = udpDown
      BY ONLY <2>2 DEF Disconnect, udpVars
    <3>2. QED BY ONLY <1>1, <1>2, <3>1, Hearing DEF Hearing, Quiet, Sent, Answers, Linked
  <2>3. QED BY ONLY <2>1, <2>2, Connect \/ Disconnect
<1>4. InTurn'
  BY ONLY <1>1, <1>3, Hearing, StillInTurn DEF Hearing
<1>5. Quiet'
  <2>1. \A c \in 1 .. MaxConns : c > conns' => c > conns
    <3>1. conns \in Nat /\ conns' \in Nat
      BY ONLY TypeOK', <1>2, Bounds DEF TypeOK, NetworkTypeOK
    <3>2. QED BY ONLY <1>3, <3>1, Bounds
  <2>2. QED BY ONLY <1>1, <1>3, <2>1, Hearing DEF Hearing, Quiet
<1>6. Told'
  <2>1. Len(<< >>) = 0 /\ 1 .. 0 = {} /\ ~ \E i \in 1 .. 0 : TRUE
    OBVIOUS
  <2>2. /\ uart.session \in Nat /\ emitted \in Nat /\ LastHeard \in Nat /\ Len(uart.tx) \in Nat
    BY ONLY TypeOK, conns <= 1, HearTypes
  <2>3. Rising(<< >>, uart.session)
    BY ONLY <2>1 DEF Rising
  <2>4. Listening => ForClient(<< >>, uart.session, clients)
    <3>1. Listening => clients <= uart.session
      BY ONLY Hearing DEF Hearing, Told, ForClient
    <3>2. QED BY ONLY <2>1, <3>1 DEF ForClient
  <2>5. PICK listening \in BOOLEAN : listening <=> Listening
    OBVIOUS
  <2>6. Heard(<< >>, listening, LastHeard, FALSE, 0)
    BY ONLY <2>2, <2>5, NothingHeard
  <2>7. Heard(<< >>, Listening', LastHeard', Linked', emitted' - Kept')
    <3>1. (Listening' => listening) /\ LastHeard' = LastHeard /\ ~ Linked'
      BY ONLY <1>1, <1>3, <2>5 DEF Listening, LastHeard
    <3>2. PICK listening2 \in BOOLEAN, live2 \in BOOLEAN : (listening2 <=> Listening') /\ (live2 <=> Linked')
      OBVIOUS
    <3>3. PICK heard2, end2 : heard2 = LastHeard' /\ end2 = emitted' - Kept'
      OBVIOUS
    <3>4. Heard(<< >>, listening2, heard2, live2, end2)
      BY ONLY <2>6, <3>1, <3>2, <3>3, HeardStays
    <3>5. QED BY ONLY <3>2, <3>3, <3>4 DEF Heard
  <2>8. QED BY ONLY <1>1, <1>3, <2>3, <2>4, <2>7, Hearing DEF Hearing, Told, Listening
<1>7. QED BY ONLY <1>4, <1>5, <1>6 DEF Hearing

\* The receiver stores what it has in hand.
LEMMA StoreHears ==
  ASSUME TypeOK, TypeOK', conns <= 1, Hearing, StoreResponse
  PROVE  Hearing'
<1>1. UNCHANGED <<openPending, resetPending, client, clients, outbox, conn, conns, up, down, udpDown,
                  fwConn, fwConns, serverStarted, segmentCounter, uart, emitted>>
  BY ONLY StoreResponse
     DEF StoreResponse, tcpVars, udpVars, linkVars, pollVars, history
<1>2. Sent' = Sent /\ Answers' = Answers /\ (Linked' => Linked) /\ Taken' = Taken
  <2>1. Taken' = Taken
    BY ONLY TypeOK, StoreResponse, StoredWasTaken
  <2>2. QED BY ONLY <1>1, <2>1 DEF Sent, Answers, Linked
<1>3. InTurn'
  BY ONLY <1>1, <1>2, Hearing, StillInTurn DEF Hearing
<1>4. Told'
  <2>1. uart.session <= uart'.session
    BY ONLY <1>1, TypeOK, conns <= 1, HearTypes
  <2>2. conns' <= 1 /\ client' \in {0, client} /\ Told /\ uart'.tx = uart.tx
    BY ONLY <1>1, conns <= 1, Hearing DEF Hearing
  <2>3. QED BY ONLY <1>1, <1>2, <2>1, <2>2, TypeOK, TypeOK', conns <= 1, StillTold
<1>5. Quiet'
  BY ONLY <1>1, <1>2, Hearing DEF Hearing, Quiet
<1>6. QED BY ONLY <1>3, <1>4, <1>5 DEF Hearing

\* The local client takes the first answer, or lets it pass.
LEMMA ReceiveHears ==
  ASSUME TypeOK, TypeOK', conns <= 1, Fence, Hearing, ReceiveTCP
  PROVE  Hearing'
<1>1. PICK r : r = Head(down[conn])
  OBVIOUS
<1>2. /\ conn # 0 /\ down[conn] # << >> /\ CheckResponse(r) /\ down' = [down EXCEPT ![conn] = Tail(@)]
      /\ UNCHANGED <<conn, conns, up, udpDown, fwConn, fwConns, serverStarted, segmentCounter, uart, emitted>>
  BY ONLY <1>1, ReceiveTCP DEF ReceiveTCP, udpVars, linkVars, pollVars, history
<1>3. /\ Taken' = IF Accepts(r) THEN Taken \o [i \in 1 .. Len(r.data) |-> <<r.gen, r.data[i]>>] ELSE Taken
      /\ UNCHANGED <<openPending, resetPending, client, clients, outbox>>
  <2>1. accepted = << >> /\ got \in Seq((0 .. MaxClients) \X (1 .. MaxEmitted))
    BY ONLY <1>2, TypeOK DEF CheckResponse, TypeOK, ClientTypeOK
  <2>2. Taken = got /\ got \o << >> = got
    BY ONLY <2>1, ConcatEmptySeq DEF Taken
  <2>3. /\ got' = got
        /\ accepted' = IF Accepts(r) THEN [i \in 1 .. Len(r.data) |-> <<r.gen, r.data[i]>>] ELSE << >>
        /\ UNCHANGED <<openPending, resetPending, client, clients, outbox>>
    BY ONLY <1>2 DEF CheckResponse
  <2>4. QED BY ONLY <2>2, <2>3 DEF Taken
<1>4. /\ conns \in {0, 1} /\ conn \in {0, conns} /\ (conns = 1 => 1 \in 1 .. MaxConns)
      /\ down \in [1 .. MaxConns -> Seq(Responses)]
  BY ONLY TypeOK, conns <= 1, LinkTypes
<1>5. conn = 1 /\ conns = 1 /\ 1 \in 1 .. MaxConns
  BY ONLY <1>2, <1>4
<1>6. PICK a, session, k : a = Answers /\ session = uart.session /\ k = clients
  OBVIOUS
<1>7. /\ a \in Seq(Responses) /\ a # << >> /\ r = Head(a) /\ Answers' = Tail(a) /\ r \in Responses
  <2>1. a = down[1] /\ Answers' = down'[1]
    BY ONLY <1>2, <1>5, <1>6 DEF Answers
  <2>2. down'[1] = Tail(down[1]) /\ down[1] \in Seq(Responses)
    BY ONLY <1>2, <1>4, <1>5
  <2>3. QED BY ONLY <1>1, <1>2, <1>5, <2>1, <2>2, HeadTailProperties
<1>8. /\ session \in Nat /\ k \in Nat /\ LastHeard \in Nat /\ (Listening => k # 0 /\ client = k)
      /\ Taken \in Seq((0 .. MaxClients) \X (1 .. MaxEmitted))
  BY ONLY <1>6, TypeOK, conns <= 1, HearTypes
<1>9. /\ Rising(a, session) /\ (Listening => ForClient(a, session, k)) /\ session <= k
      /\ segmentCounter # 0 => LastOf(uart.tx, emitted)
      /\ Heard(a, Listening, LastHeard, Linked, emitted - Kept)
      /\ Gapless(Taken)
  BY ONLY <1>6, Hearing DEF Hearing, Told, InTurn, TakeTurns
<1>10. PICK listening \in BOOLEAN, live \in BOOLEAN : (listening <=> Listening) /\ (live <=> Linked)
  OBVIOUS
<1>11. Heard(a, listening, LastHeard, live, emitted - Kept)
  BY ONLY <1>9, <1>10, HeardStays
<1>12. PICK heard, end, t : heard = LastHeard /\ end = emitted - Kept /\ t = Tail(a)
  OBVIOUS
<1>13. /\ Rising(t, session) /\ r.session <= session /\ ForClient(t, session, r.session)
       /\ GoOn(t, r.data, listening, heard, live, end)
  <2>1. heard \in Nat /\ Heard(a, listening, heard, live, end)
    BY ONLY <1>8, <1>11, <1>12
  <2>2. /\ Rising(Tail(a), session) /\ Head(a).session <= session
        /\ ForClient(Tail(a), session, Head(a).session)
        /\ GoOn(Tail(a), Head(a).data, listening, heard, live, end)
    BY ONLY <1>7, <1>9, <2>1, listening \in BOOLEAN, live \in BOOLEAN, RestIsHeard, Zenon
  <2>3. QED BY ONLY <1>7, <1>12, <2>2
<1>14. PICK n \in Nat, at \in Reports(t) : /\ at[0] = n /\ LastOf(r.data, n)
                                           /\ listening => n = heard + Len(r.data)
                                           /\ live => at[Len(t)] = end
  BY ONLY <1>13 DEF GoOn
<1>15. /\ r.session \in Nat /\ r.data \in Seq(1 .. MaxEmitted) /\ r.gen \in 0 .. MaxClients
  BY ONLY <1>7, Bounds DEF Responses
<1>16. Accepts(r) => client # 0 /\ r.session = k /\ r.gen = k
  <2>1. Accepts(r) => client # 0 /\ r.session = k
    BY ONLY <1>6, Fence DEF Accepts, Fence
  <2>2. Accepts(r) => k # 0
    BY ONLY <1>6, <2>1, TypeOK DEF TypeOK, ClientTypeOK
  <2>3. r \in StampedResponses
    <3>1. down[conn] \in Seq(StampedResponses)
      BY ONLY <1>5, Fence DEF Fence, Queues
    <3>2. QED BY ONLY <1>1, <1>2, <3>1, HeadTailProperties
  <2>4. QED BY ONLY <2>1, <2>2, <2>3 DEF StampedResponses
<1>17. Listening => Accepts(r)
  <2>1. ASSUME Listening PROVE Accepts(r)
    <3>1. 1 \in 1 .. Len(a) /\ a[1] = r
      BY ONLY <1>7, EmptySeq, LenProperties, HeadTailProperties
    <3>2. k <= r.session
      BY ONLY <1>9, <2>1, <3>1 DEF ForClient
    <3>3. r.session = k
      <4>1. r.session <= session /\ session <= k
        BY ONLY <1>9, <1>13
      <4>2. r.session \in Nat /\ session \in Nat /\ k \in Nat
        BY ONLY <1>8, <1>15
      <4>3. QED BY ONLY <3>2, <4>1, <4>2
    <3>4. sessionId = k
      BY ONLY <1>6, Fence DEF Fence
    <3>5. QED BY ONLY <1>8, <2>1, <3>3, <3>4 DEF Accepts
  <2>2. QED BY ONLY <2>1
<1>18. /\ Gapless(Taken') /\ (Listening' => LastHeard' = n)
       /\ Listening' => ForClient(t, session, k)
  <2>1. CASE Accepts(r)
    <3>1. PICK data, g, more, h : /\ data = r.data /\ g = Taken /\ h = r.gen
                                  /\ more = [i \in 1 .. Len(data) |-> <<h, data[i]>>]
      OBVIOUS
    <3>2. PICK S : S = (0 .. MaxClients) \X (1 .. MaxEmitted)
      OBVIOUS
    <3>3. /\ more \in Seq(S) /\ Len(more) = Len(data)
          /\ \A i \in 1 .. Len(data) : more[i][1] = k /\ more[i][2] = data[i]
      <4>1. data \in Seq(1 .. MaxEmitted) /\ Len(data) \in Nat /\ h \in 0 .. MaxClients
        BY ONLY <1>15, <3>1, LenProperties
      <4>2. \A i \in 1 .. Len(data) : <<h, data[i]>> \in S
        BY ONLY <3>2, <4>1, ElementOfSeq
      <4>3. more \in [1 .. Len(data) -> S]
        BY ONLY <3>1, <4>2
      <4>4. more \in Seq(S)
        BY ONLY <4>1, <4>3, SeqDef
      <4>5. Len(more) = Len(data)
        BY ONLY <4>1, <4>3, <4>4, LenProperties
      <4>6. h = k
        BY ONLY <1>16, <2>1, <3>1
      <4>7. QED BY ONLY <3>1, <4>4, <4>5, <4>6
    <3>4. Advances(g, k, heard, Len(data), n)
      <4>1. g # << >> /\ g[Len(g)][1] = k => listening
        BY ONLY <1>6, <1>10, <1>16, <2>1, <3>1 DEF Listening
      <4>2. g # << >> => g[Len(g)][2] = heard
        BY ONLY <1>12, <3>1 DEF LastHeard
      <4>3. QED BY ONLY <1>14, <3>1, <4>1, <4>2 DEF Advances
    <3>5. g \in Seq(S) /\ data \in Seq(1 .. MaxEmitted) /\ Gapless(g) /\ LastOf(data, n) /\ heard \in Nat
      BY ONLY <1>8, <1>9, <1>12, <1>14, <1>15, <3>1, <3>2
    <3>6. PICK all : all = g \o more
      OBVIOUS
    <3>7. Gapless(all) /\ EndsAt(all, k, n)
      <4>1. Gapless(g \o more) /\ EndsAt(g \o more, k, n)
        BY ONLY <3>3, <3>4, <3>5, n \in Nat, ClientHearsOn, Zenon
      <4>2. QED BY ONLY <3>6, <4>1
    <3>8. Taken' = all
      BY ONLY <1>3, <2>1, <3>1, <3>6
    <3>9. Listening' => LastHeard' = n
      BY ONLY <1>3, <1>6, <3>7, <3>8 DEF Listening, LastHeard, EndsAt
    <3>10. ForClient(t, session, k)
      <4>1. k <= session /\ \A i \in 1 .. Len(t) : k <= t[i].session
        BY ONLY <1>13, <1>16, <2>1 DEF ForClient
      <4>2. QED BY ONLY <4>1 DEF ForClient
    <3>11. QED BY ONLY <3>7, <3>8, <3>9, <3>10
  <2>2. CASE ~ Accepts(r)
    <3>1. Taken' = Taken /\ ~ Listening'
      BY ONLY <1>3, <1>17, <2>2 DEF Listening
    <3>2. QED BY ONLY <1>9, <3>1
  <2>3. QED BY ONLY <2>1, <2>2
<1>19. Told'
  <2>1. (Linked' => live /\ emitted' - Kept' = end) /\ (Listening' => LastHeard' = n)
    BY ONLY <1>2, <1>10, <1>12, <1>18 DEF Linked, Kept
  <2>2. Heard(t, Listening', LastHeard', Linked', emitted' - Kept')
    <3>1. (Listening' => at[0] = LastHeard') /\ (Linked' => at[Len(t)] = emitted' - Kept')
      BY ONLY <1>14, <2>1
    <3>2. QED BY ONLY <1>14, <3>1 DEF Heard
  <2>3. Answers' = t /\ uart'.session = session /\ clients' = k
    BY ONLY <1>2, <1>3, <1>6, <1>7, <1>12
  <2>4. segmentCounter' # 0 => LastOf(uart'.tx, emitted')
    BY ONLY <1>2, <1>9
  <2>5. Gapless(Taken')
    BY ONLY <1>18
  <2>6. Rising(Answers', uart'.session) /\ (Listening' => ForClient(Answers', uart'.session, clients'))
    BY ONLY <1>13, <1>18, <2>3
  <2>7. Heard(Answers', Listening', LastHeard', Linked', emitted' - Kept')
    BY ONLY <2>2, <2>3
  <2>8. QED BY ONLY <2>4, <2>5, <2>6, <2>7 DEF Told
<1>20. InTurn'
  <2>1. Sent' = Sent
    BY ONLY <1>2 DEF Sent
  <2>2. QED BY ONLY <1>2, <1>3, <2>1, Hearing, StillInTurn DEF Hearing
<1>21. Quiet'
  <2>1. \A c \in 1 .. MaxConns : c > conns => down'[c] = down[c]
    BY ONLY <1>2, <1>4, <1>5
  <2>2. fwConns # 0
    BY ONLY <1>6, <1>7, Hearing DEF Hearing, Quiet
  <2>3. QED BY ONLY <1>2, <2>1, <2>2, Hearing DEF Hearing, Quiet
<1>22. QED BY ONLY <1>19, <1>20, <1>21 DEF Hearing
-----------------------------------------------------------------------------
(* The firmware's steps.                                                   *)

LEMMA SessionAfterRequest ==
  ASSUME NEW w \in Ports, NEW r \in Requests
  PROVE  /\ ProcessRequest(w, r).tx = w.tx
         /\ ProcessRequest(w, r).session
              = IF r.type = "Reset" THEN r.arg ELSE IF r.type = "Open" THEN 0 ELSE w.session
<1>1. r.type \in {"NoCommand", "Open", "Reset", "Data"}
  BY ONLY r \in Requests DEF Requests
<1>2. CASE r.type = "NoCommand"
  BY ONLY <1>2 DEF ProcessRequest
<1>3. CASE r.type = "Data"
  <2>1. ProcessRequest(w, r) = OnData(w, r.data)
    BY ONLY <1>3 DEF ProcessRequest
  <2>2. OnData(w, r.data).tx = w.tx /\ OnData(w, r.data).session = w.session
    BY ONLY w \in Ports DEF OnData, Ports
  <2>3. QED BY ONLY <1>3, <2>1, <2>2
<1>4. CASE r.type = "Reset"
  <2>1. ProcessRequest(w, r) = OnReset(w, r.arg)
    BY ONLY <1>4 DEF ProcessRequest
  <2>2. OnReset(w, r.arg).tx = w.tx /\ OnReset(w, r.arg).session = r.arg
    BY ONLY w \in Ports DEF OnReset, Ports
  <2>3. QED BY ONLY <1>4, <2>1, <2>2
<1>5. CASE r.type = "Open"
  <2>1. ProcessRequest(w, r) = OnOpen(w, r.data # << >>)
    BY ONLY <1>5 DEF ProcessRequest
  <2>2. OnOpen(w, r.data # << >>).tx = w.tx /\ OnOpen(w, r.data # << >>).session = 0
    BY ONLY w \in Ports DEF OnOpen, Ports
  <2>3. QED BY ONLY <1>5, <2>1, <2>2
<1>6. QED BY ONLY <1>1, <1>2, <1>3, <1>4, <1>5

\* The firmware handles the first package of the connection: the session of the
\* port goes up to the local client of a reset, or stays.
LEMMA RequestHears ==
  ASSUME TypeOK, TypeOK', ~ useUDP, conns <= 1, Fence, Hearing, RequestTCP
  PROVE  Hearing'
<1>1. /\ fwConn # 0 /\ up[fwConn] # << >> /\ HandleRequest(Head(up[fwConn]))
      /\ up' = [up EXCEPT ![fwConn] = Tail(@)]
      /\ serverStarted' \in IF useUDP /\ ~ serverStarted THEN BOOLEAN ELSE {serverStarted}
      /\ UNCHANGED <<openPending, resetPending, client, clients, Taken, outbox, conn, conns, down, udpDown,
                     fwConn, fwConns, segmentCounter, emitted>>
  BY ONLY RequestTCP DEF RequestTCP, HandleRequest, Taken, clientVars, roundVars, portVars, udpVars
<1>2. /\ conns = 1 /\ fwConn = 1 /\ fwConns = 1 /\ 1 \in 1 .. MaxConns
      /\ up \in [1 .. MaxConns -> Seq(Packages)] /\ outbox \in Seq(Packages)
  <2>1. /\ conns \in {0, 1} /\ fwConns \in 0 .. conns /\ fwConn \in {0, fwConns}
        /\ conns = 1 => 1 \in 1 .. MaxConns
        /\ up \in [1 .. MaxConns -> Seq(Packages)] /\ outbox \in Seq(Packages)
    BY ONLY TypeOK, conns <= 1, LinkTypes
  <2>2. QED BY ONLY <1>1, <2>1
<1>3. PICK queue, box, q : queue = up[1] /\ box = outbox /\ q = Head(queue)
  OBVIOUS
<1>4. /\ queue \in Seq(Packages) /\ queue # << >> /\ up'[1] = Tail(queue) /\ HandleRequest(q)
      /\ \A c \in 1 .. MaxConns : c > 1 => up'[c] = up[c]
  BY ONLY <1>1, <1>2, <1>3
<1>5. q \in FencedPackages /\ q \in Packages /\ q.request \in Requests
  <2>1. queue \in Seq(FencedPackages)
    BY ONLY <1>2, <1>3, Fence DEF Fence, Queues
  <2>2. q \in FencedPackages
    BY ONLY <1>3, <1>4, <2>1, HeadTailProperties
  <2>3. QED BY ONLY <2>2, PackageFields DEF FencedPackages
<1>6. PICK session, k, next : session = uart.session /\ k = clients /\ next = uart'.session
  OBVIOUS
<1>7. /\ uart \in Ports /\ session \in Nat /\ k \in Nat
  BY ONLY <1>6, TypeOK, conns <= 1, HearTypes
<1>8. /\ uart'.tx = uart.tx /\ next \in Nat
      /\ next = IF IsReset(q) THEN q.from ELSE IF IsOpen(q) THEN 0 ELSE session
  <2>1. uart' = ProcessRequest(uart, q.request)
    BY ONLY <1>4 DEF HandleRequest
  <2>2. /\ ProcessRequest(uart, q.request).tx = uart.tx
        /\ ProcessRequest(uart, q.request).session
             = IF q.request.type = "Reset" THEN q.request.arg
               ELSE IF q.request.type = "Open" THEN 0 ELSE uart.session
    BY ONLY <1>5, <1>7, SessionAfterRequest
  <2>3. q.request.type = "Reset" => q.request.arg = q.from
    BY ONLY <1>5 DEF FencedPackages
  <2>4. next = IF IsReset(q) THEN q.from ELSE IF IsOpen(q) THEN 0 ELSE session
    BY ONLY <1>6, <2>1, <2>2, <2>3 DEF IsReset, IsOpen
  <2>5. next \in Nat
    BY ONLY <1>5, <1>7, <2>4, PackageFields
  <2>6. QED BY ONLY <2>1, <2>2, <2>4, <2>5
<1>9. Sent = queue /\ Sent' = Tail(queue)
  BY ONLY <1>1, <1>2, <1>3, <1>4 DEF Sent
<1>10. /\ queue \o box # << >> /\ Head(queue \o box) = q /\ Tail(queue \o box) = Tail(queue) \o box
       /\ queue \o box \in Seq(Packages)
  BY ONLY <1>2, <1>3, <1>4, TailOfConcat
<1>11. PICK s : s = queue \o box
  OBVIOUS
<1>12. TakeTurns(s, session, k, openPending, resetPending)
  BY ONLY <1>3, <1>6, <1>9, <1>11, Hearing DEF Hearing, InTurn
<1>13. TakeTurns(Tail(s), next, k, openPending, resetPending) /\ session <= next
  <2>1. next = IF IsReset(Head(s)) THEN Head(s).from ELSE IF IsOpen(Head(s)) THEN 0 ELSE session
    BY ONLY <1>8, <1>10, <1>11
  <2>2. s \in Seq(Packages) /\ s # << >>
    BY ONLY <1>10, <1>11
  <2>3. QED BY ONLY <1>7, <1>8, <1>12, <2>1, <2>2, TurnsOfTail
<1>14. InTurn'
  <2>1. Tail(s) = Sent' \o outbox'
    BY ONLY <1>1, <1>3, <1>9, <1>10, <1>11
  <2>2. QED BY ONLY <1>1, <1>6, <1>13, <2>1 DEF InTurn
<1>15. Answers' = Answers /\ (Linked' => Linked) /\ serverStarted' = serverStarted
  BY ONLY <1>1, ~ useUDP DEF Answers, Linked
<1>16. Told'
  <2>1. conns' <= 1 /\ uart.session <= uart'.session /\ client' \in {0, client} /\ Told
    BY ONLY <1>1, <1>6, <1>13, conns <= 1, Hearing DEF Hearing
  <2>2. QED BY ONLY <1>1, <1>8, <1>15, <2>1, TypeOK, TypeOK', conns <= 1, StillTold
<1>17. Quiet'
  BY ONLY <1>1, <1>2, <1>4, <1>15, Hearing DEF Hearing, Quiet
<1>18. QED BY ONLY <1>14, <1>16, <1>17 DEF Hearing

LEMMA UartHears ==
  ASSUME TypeOK, TypeOK', conns <= 1, Hearing, EndReset \/ \E room \in 1 .. IOSize : FeedUART(room)
  PROVE  Hearing'
<1>1. UNCHANGED <<openPending, resetPending, client, clients, Taken, outbox, conn, conns, up, down, udpDown,
                  fwConn, fwConns, serverStarted, segmentCounter, emitted>>
  BY ONLY EndReset \/ \E room \in 1 .. IOSize : FeedUART(room)
     DEF EndReset, FeedUART, Taken, linkVars, pollVars, clientVars, roundVars, portVars, tcpVars, udpVars, history
<1>2. uart'.session = uart.session /\ uart'.tx = uart.tx
  <2>1. uart \in Ports
    BY ONLY TypeOK, conns <= 1, HearTypes
  <2>2. CASE EndReset
    BY ONLY <2>1, <2>2 DEF EndReset, ReleaseReset, Ports
  <2>3. ASSUME NEW room \in 1 .. IOSize, FeedUART(room)
        PROVE  uart'.session = uart.session /\ uart'.tx = uart.tx
    <3>1. uart' = ProcessRX(uart, room)
      BY ONLY <2>3 DEF FeedUART
    <3>2. QED BY ONLY <2>1, <3>1 DEF ProcessRX, Ports
  <2>4. QED BY ONLY <2>2, <2>3, EndReset \/ \E room \in 1 .. IOSize : FeedUART(room)
<1>3. Sent' = Sent /\ Answers' = Answers /\ (Linked' => Linked)
  BY ONLY <1>1 DEF Sent, Answers, Linked
<1>4. InTurn'
  BY ONLY <1>1, <1>2, <1>3, Hearing, StillInTurn DEF Hearing
<1>5. Told'
  <2>1. uart.session <= uart'.session
    BY ONLY <1>2, TypeOK, conns <= 1, HearTypes
  <2>2. conns' <= 1 /\ client' \in {0, client} /\ Told
    BY ONLY <1>1, conns <= 1, Hearing DEF Hearing
  <2>3. QED BY ONLY <1>1, <1>2, <1>3, <2>1, <2>2, TypeOK, TypeOK', conns <= 1, StillTold
<1>6. Quiet'
  BY ONLY <1>1, <1>3, Hearing DEF Hearing, Quiet
<1>7. QED BY ONLY <1>4, <1>5, <1>6 DEF Hearing

LEMMA DropHears ==
  ASSUME TypeOK, TypeOK', conns <= 1, Hearing, Drop
  PROVE  Hearing'
<1>1. /\ ~ serverStarted' /\ fwConn' = 0
      /\ UNCHANGED <<openPending, resetPending, client, clients, Taken, outbox, conn, conns, up, down, udpDown,
                     fwConns, segmentCounter, uart, emitted>>
  BY ONLY Drop DEF Drop, ServeTCP, Taken, clientVars, roundVars, portVars, tcpVars, udpVars, history
<1>2. Sent' = Sent /\ Answers' = Answers /\ ~ Linked'
  BY ONLY <1>1 DEF Sent, Answers, Linked
<1>3. InTurn'
  BY ONLY <1>1, <1>2, Hearing, StillInTurn DEF Hearing
<1>4. Told'
  <2>1. uart.session <= uart'.session
    BY ONLY <1>1, TypeOK, conns <= 1, HearTypes
  <2>2. conns' <= 1 /\ client' \in {0, client} /\ Told /\ uart'.tx = uart.tx
    BY ONLY <1>1, conns <= 1, Hearing DEF Hearing
  <2>3. QED BY ONLY <1>1, <1>2, <2>1, <2>2, TypeOK, TypeOK', conns <= 1, StillTold
<1>5. Quiet'
  BY ONLY <1>1, <1>2, Hearing DEF Hearing, Quiet
<1>6. QED BY ONLY <1>3, <1>4, <1>5 DEF Hearing

\* The first connection begins at the firmware: nothing is heard yet.
LEMMA AcceptHears ==
  ASSUME TypeOK, TypeOK', conns <= 1, Hearing, Accept
  PROVE  Hearing'
<1>1. /\ fwConns < conns /\ fwConns' = fwConns + 1 /\ ~ serverStarted' /\ segmentCounter' = 0
      /\ UNCHANGED <<openPending, resetPending, client, clients, Taken, outbox, conn, conns, up, down, udpDown,
                     uart, emitted>>
  BY ONLY Accept DEF Accept, ServeTCP, Taken, clientVars, roundVars, portVars, tcpVars, udpVars, history
<1>2. fwConns = 0 /\ fwConns' = 1
  <2>1. conns \in {0, 1} /\ fwConns \in 0 .. conns
    BY ONLY TypeOK, conns <= 1, LinkTypes
  <2>2. QED BY ONLY <1>1, <2>1
<1>3. Answers = << >> /\ Taken = << >>
  BY ONLY <1>2, Hearing DEF Hearing, Quiet
<1>4. Sent' = Sent /\ Answers' = << >> /\ Taken' = << >>
  BY ONLY <1>1, <1>3 DEF Sent, Answers
<1>5. InTurn'
  BY ONLY <1>1, <1>4, Hearing, StillInTurn DEF Hearing
<1>6. Told'
  <2>1. Len(<< >>) = 0 /\ 1 .. 0 = {} /\ 1 .. 0 - 1 = {}
    OBVIOUS
  <2>2. Rising(Answers', uart'.session)
    BY ONLY <1>4, <2>1 DEF Rising
  <2>3. ~ Listening' /\ LastHeard' = 0 /\ Kept' = 0
    BY ONLY <1>1, <1>4 DEF Listening, LastHeard, Kept
  <2>4. PICK live \in BOOLEAN, n \in Nat, listening \in BOOLEAN :
          (live <=> Linked') /\ n = emitted' - Kept' /\ ~ listening
    <3>1. emitted \in Nat
      BY ONLY TypeOK, conns <= 1, HearTypes
    <3>2. emitted' - Kept' = emitted
      BY ONLY <1>1, <2>3, <3>1
    <3>3. QED BY ONLY <3>1, <3>2
  <2>5. Heard(<< >>, listening, 0, live, n)
    BY ONLY <2>4, NothingHeard
  <2>6. Heard(<< >>, Listening', LastHeard', Linked', emitted' - Kept')
    BY ONLY <2>3, <2>4, <2>5 DEF Heard
  <2>7. Gapless(Taken')
    BY ONLY <1>4, <2>1 DEF Gapless
  <2>8. QED BY ONLY <1>1, <1>4, <2>2, <2>3, <2>6, <2>7 DEF Told
<1>7. Quiet'
  BY ONLY <1>1, <1>2, Hearing DEF Hearing, Quiet
<1>8. QED BY ONLY <1>5, <1>6, <1>7 DEF Hearing

\* The package in the making ends with the byte the device emitted last.
LEMMA PolledBytes ==
  ASSUME FirmwareTypeOK, segmentCounter # 0 => LastOf(uart.tx, emitted),
         NEW n \in 0 .. IOSize, NEW wrapped \in BOOLEAN, Poll(n, wrapped)
  PROVE  LastOf(uart'.tx, emitted') /\ emitted' = (emitted - Kept) + Len(uart'.tx)
<1>1. uart \in Ports /\ emitted \in Nat /\ n \in Nat
  BY Bounds DEF FirmwareTypeOK, Ports
<1>2. PICK first, data, port :
        /\ first = (segmentCounter = 0) /\ data = [i \in 1 .. n |-> emitted + i]
        /\ port = Collect(uart, segmentCounter = 0, [i \in 1 .. n |-> emitted + i])
  OBVIOUS
<1>3. PICK kept : kept = IF first THEN << >> ELSE uart.tx
  OBVIOUS
<1>4. /\ n \in 0 .. (IF uart.open THEN Least(ReadSize(uart, first), MaxEmitted - emitted) ELSE 0)
      /\ uart' = port /\ emitted' = emitted + n
  BY ONLY Poll(n, wrapped), <1>2, Zenon DEF Poll
<1>5. port = Collect(uart, first, data)
  BY ONLY <1>2, Zenon
<1>6. uart'.tx = IF uart.open THEN kept \o data ELSE kept
  <2>1. PICK both : both = IF uart.open THEN kept \o data ELSE kept
    OBVIOUS
  <2>2. port = [uart EXCEPT !.tx = both]
    BY ONLY <1>3, <1>5, <2>1 DEF Collect
  <2>3. QED BY ONLY <1>1, <1>4, <2>1, <2>2 DEF Ports
<1>7. ~ uart.open => n = 0
  BY ONLY <1>4
<1>8. PICK size \in Nat : size = Len(kept)
  <2>1. kept \in Seq(1 .. MaxEmitted)
    BY ONLY <1>1, <1>3, EmptySeq, PortFields
  <2>2. QED BY ONLY <2>1, LenProperties
<1>9. Kept = size /\ size <= emitted /\ \A m \in 1 .. size : kept[m] = (emitted - size) + m
  <2>1. CASE first
    <3>1. kept = << >> /\ size = 0 /\ segmentCounter = 0
      BY ONLY <1>2, <1>3, <1>8, <2>1, EmptySeq
    <3>2. QED BY ONLY <1>1, <3>1 DEF Kept
  <2>2. CASE ~ first
    <3>1. kept = uart.tx /\ segmentCounter # 0
      BY ONLY <1>2, <1>3, <2>2
    <3>2. LastOf(kept, emitted)
      BY ONLY <3>1, segmentCounter # 0 => LastOf(uart.tx, emitted)
    <3>3. QED BY ONLY <1>8, <3>1, <3>2 DEF Kept, LastOf
  <2>3. QED BY ONLY <2>1, <2>2
<1>10. PICK tx, end : tx = uart'.tx /\ end = emitted'
  OBVIOUS
<1>11. /\ Len(tx) = size + n
       /\ \A i \in 1 .. size + n : tx[i] = IF i <= size THEN kept[i] ELSE data[i - size]
  <2>1. CASE uart.open
    <3>1. tx = kept \o data
      BY ONLY <1>6, <1>10, <2>1
    <3>2. kept \in Seq(1 .. MaxEmitted)
      BY ONLY <1>1, <1>3, EmptySeq, PortFields
    <3>3. data \in Seq(Nat) /\ Len(data) = n
      BY ONLY <1>1, <1>2
    <3>4. kept \in Seq(Nat)
      BY ONLY <3>2, Bounds
    <3>5. /\ Len(tx) = Len(kept) + Len(data)
          /\ \A i \in 1 .. Len(kept) + Len(data) :
               tx[i] = IF i <= Len(kept) THEN kept[i] ELSE data[i - Len(kept)]
      BY ONLY <3>1, <3>3, <3>4, ConcatProperties
    <3>6. QED BY ONLY <1>8, <3>3, <3>5
  <2>2. CASE ~ uart.open
    <3>1. tx = kept /\ n = 0 /\ size + n = size
      BY ONLY <1>6, <1>7, <1>8, <1>10, <2>2
    <3>2. \A i \in 1 .. size : i <= size
      BY ONLY size \in Nat
    <3>3. QED BY ONLY <1>8, <3>1, <3>2
  <2>3. QED BY ONLY <2>1, <2>2
<1>12. end = emitted + n /\ size + n <= end /\ end = (emitted - size) + (size + n)
  BY ONLY <1>1, <1>4, <1>9, <1>10, size \in Nat
<1>13. ASSUME NEW i \in 1 .. size + n
       PROVE  tx[i] = (end - (size + n)) + i
  <2>1. CASE i <= size
    <3>1. i \in 1 .. size
      BY ONLY <2>1, i \in 1 .. size + n, n \in Nat, size \in Nat, <1>1
    <3>2. tx[i] = (emitted - size) + i
      BY ONLY <1>9, <1>11, <2>1, <3>1, i \in 1 .. size + n
    <3>3. QED BY ONLY <1>1, <1>12, <3>2, size \in Nat, i \in 1 .. size + n
  <2>2. CASE i > size
    <3>1. PICK m : m = i - size
      OBVIOUS
    <3>2. m \in 1 .. n /\ ~ (i <= size) /\ i = size + m
      BY ONLY <1>1, <2>2, <3>1, i \in 1 .. size + n, size \in Nat
    <3>3. tx[i] = data[m] /\ data[m] = emitted + m
      BY ONLY <1>2, <1>11, <3>1, <3>2, i \in 1 .. size + n
    <3>4. QED BY ONLY <1>1, <1>12, <3>2, <3>3, size \in Nat
  <2>3. QED BY ONLY <1>1, <2>1, <2>2, i \in 1 .. size + n, size \in Nat
<1>14. LastOf(tx, end)
  BY ONLY <1>11, <1>12, <1>13 DEF LastOf
<1>15. end = (emitted - Kept) + Len(tx)
  BY ONLY <1>9, <1>11, <1>12
<1>16. QED BY ONLY <1>10, <1>14, <1>15

\* What the port says of itself in the answer of a poll.
LEMMA PolledAnswer ==
  ASSUME FirmwareTypeOK, NEW n \in 0 .. IOSize, NEW wrapped \in BOOLEAN, Poll(n, wrapped), NEW r,
         r = Response(Collect(uart, segmentCounter = 0, [i \in 1 .. n |-> emitted + i]), wrapped)
  PROVE  r.data = uart'.tx
<1>1. PICK port : port = Collect(uart, segmentCounter = 0, [i \in 1 .. n |-> emitted + i])
  OBVIOUS
<1>2. uart' = port
  BY ONLY Poll(n, wrapped), <1>1, Zenon DEF Poll
<1>3. r = Response(port, wrapped)
  BY ONLY <1>1, r = Response(Collect(uart, segmentCounter = 0, [i \in 1 .. n |-> emitted + i]), wrapped), Zenon
<1>4. Response(port, wrapped).data = port.tx
  BY ONLY TRUE DEF Response, ProcessTX
<1>5. QED BY ONLY <1>2, <1>3, <1>4

LEMMA PollHears ==
  ASSUME TypeOK, TypeOK', conns <= 1, Hearing,
         NEW n \in 0 .. IOSize, NEW wrapped \in BOOLEAN, Poll(n, wrapped)
  PROVE  Hearing'
<1>1. PICK r, last : r = Response(Collect(uart, segmentCounter = 0, [i \in 1 .. n |-> emitted + i]), wrapped)
                     /\ last = (segmentCounter + 1 >= Aggregate)
  OBVIOUS
<1>2. FirmwareTypeOK /\ segmentCounter \in Nat
  BY ONLY TypeOK DEF TypeOK, FirmwareTypeOK
<1>3. /\ r \in Responses /\ r.session = uart.session /\ r.data = uart'.tx /\ uart'.session = uart.session
      /\ LastOf(uart'.tx, emitted') /\ emitted' = (emitted - Kept) + Len(uart'.tx)
  <2>1. segmentCounter # 0 => LastOf(uart.tx, emitted)
    BY ONLY Hearing DEF Hearing, Told
  <2>2. r.data = uart'.tx
    BY ONLY <1>1, <1>2, n \in 0 .. IOSize, wrapped \in BOOLEAN, Poll(n, wrapped), PolledAnswer
  <2>3. LastOf(uart'.tx, emitted') /\ emitted' = (emitted - Kept) + Len(uart'.tx)
    BY ONLY <1>2, <2>1, n \in 0 .. IOSize, wrapped \in BOOLEAN, Poll(n, wrapped), PolledBytes
  <2>4. r \in Responses /\ r.session = uart.session /\ uart'.session = uart.session
    BY ONLY <1>1, <1>2, n \in 0 .. IOSize, wrapped \in BOOLEAN, Poll(n, wrapped), PolledPort
  <2>5. QED BY ONLY <2>2, <2>3, <2>4
<1>4. /\ IF last THEN Respond(r) /\ segmentCounter' = 0
                 ELSE UNCHANGED <<down, udpDown>> /\ segmentCounter' = segmentCounter + 1
      /\ UNCHANGED <<openPending, resetPending, client, clients, Taken, outbox, conn, conns, up, fwConn, fwConns,
                     serverStarted>>
  BY ONLY <1>1, Poll(n, wrapped), Zenon DEF Poll, Taken, clientVars, roundVars, portVars, linkVars
<1>5. /\ conns \in {0, 1} /\ conn \in {0, conns} /\ (conns = 1 => 1 \in 1 .. MaxConns)
      /\ fwConns \in 0 .. conns /\ fwConn \in {0, fwConns}
      /\ down \in [1 .. MaxConns -> Seq(Responses)]
  BY ONLY TypeOK, conns <= 1, LinkTypes
<1>6. PICK a, session, k, heard, end, stop :
        /\ a = Answers /\ session = uart.session /\ k = clients /\ heard = LastHeard
        /\ end = emitted - Kept /\ stop = emitted'
  OBVIOUS
<1>7. a \in Seq(Responses) /\ session \in Nat /\ stop \in Nat
  <2>1. emitted' \in Nat
    BY ONLY TypeOK', Bounds DEF TypeOK, FirmwareTypeOK
  <2>2. QED BY ONLY <1>6, <2>1, TypeOK, conns <= 1, HearTypes
<1>8. /\ udpDown' = udpDown /\ (\A c \in 1 .. MaxConns : c > conns => down'[c] = down[c])
      /\ \/ Answers' = a /\ (last => ~ Linked)
         \/ Answers' = Append(a, r) /\ last /\ Linked /\ fwConns # 0
  <2>1. CASE ~ last
    BY ONLY <1>4, <1>6, <2>1 DEF Answers
  <2>2. CASE last
    <3>1. /\ udpDown' = udpDown
          /\ down' = IF fwConn # 0 /\ fwConn = conn THEN [down EXCEPT ![conn] = Append(@, r)] ELSE down
      BY ONLY <1>4, <2>2, Hearing DEF Hearing, Quiet, Respond
    <3>2. CASE fwConn # 0 /\ fwConn = conn
      <4>1. /\ conn = 1 /\ conns = 1 /\ down'[1] = Append(down[1], r) /\ fwConns # 0
            /\ \A c \in 1 .. MaxConns : c > 1 => down'[c] = down[c]
        BY ONLY <1>5, <3>1, <3>2
      <4>2. QED BY ONLY <1>4, <1>6, <2>2, <3>1, <3>2, <4>1 DEF Answers, Linked
    <3>3. CASE ~ (fwConn # 0 /\ fwConn = conn)
      <4>1. ~ Linked
        BY ONLY <1>5, <3>3 DEF Linked
      <4>2. QED BY ONLY <1>4, <1>6, <3>1, <3>3, <4>1 DEF Answers
    <3>4. QED BY ONLY <3>2, <3>3
  <2>3. QED BY ONLY <2>1, <2>2
<1>9. (Linked' <=> Linked) /\ (Listening' <=> Listening) /\ LastHeard' = heard /\ Sent' = Sent
  BY ONLY <1>4, <1>6 DEF Linked, Listening, LastHeard, Sent
<1>10. /\ Rising(a, session) /\ (Listening => ForClient(a, session, k))
       /\ Heard(a, Listening, heard, Linked, end) /\ Gapless(Taken)
  BY ONLY <1>6, Hearing DEF Hearing, Told
<1>11. stop = end + Len(r.data) /\ LastOf(r.data, stop)
  BY ONLY <1>3, <1>6
<1>12. Rising(Answers', session) /\ (Listening => ForClient(Answers', session, k))
       /\ Heard(Answers', Listening', LastHeard', Linked', emitted' - Kept')
  <2>1. CASE Answers' = a /\ (last => ~ Linked)
    <3>1. Linked => emitted' - Kept' = end
      <4>1. ASSUME Linked PROVE emitted' - Kept' = end
        <5>1. segmentCounter' # 0
          BY ONLY <1>2, <1>4, <2>1, <4>1
        <5>2. Kept' = Len(uart'.tx)
          BY ONLY <5>1 DEF Kept
        <5>3. PICK size : size = Len(uart'.tx)
          OBVIOUS
        <5>4. size \in Nat /\ end \in Int
          <6>1. uart' \in Ports
            BY ONLY <1>2, n \in 0 .. IOSize, wrapped \in BOOLEAN, Poll(n, wrapped), PolledPort
          <6>2. size \in 0 .. PayloadSize
            BY ONLY <5>3, <6>1, PortFields
          <6>3. end \in Int
            BY ONLY <1>6, TypeOK, conns <= 1, HearTypes DEF Kept
          <6>4. QED BY ONLY <6>2, <6>3, Bounds
        <5>5. emitted' = end + size /\ Kept' = size
          BY ONLY <1>3, <1>6, <5>2, <5>3
        <5>6. QED BY ONLY <5>4, <5>5
      <4>2. QED BY ONLY <4>1
    <3>2. PICK end2 : end2 = emitted' - Kept'
      OBVIOUS
    <3>3. PICK at \in Reports(a) : (Listening => at[0] = heard) /\ (Linked => at[Len(a)] = end)
      BY ONLY <1>10 DEF Heard
    <3>4. (Listening' => at[0] = LastHeard') /\ (Linked' => at[Len(a)] = end2)
      BY ONLY <1>9, <3>1, <3>2, <3>3
    <3>5. Heard(a, Listening', LastHeard', Linked', end2)
      BY ONLY <3>3, <3>4 DEF Heard
    <3>6. QED BY ONLY <1>10, <2>1, <3>2, <3>5
  <2>2. CASE Answers' = Append(a, r) /\ last /\ Linked
    <3>1. PICK at \in Reports(a) : (Listening => at[0] = heard) /\ at[Len(a)] = end
      BY ONLY <1>10, <2>2 DEF Heard
    <3>2. PICK b : b = Append(a, r)
      OBVIOUS
    <3>3. stop = at[Len(a)] + Len(r.data)
      BY ONLY <1>11, <3>1
    <3>4. Rising(b, session) /\ \E to \in Reports(b) : to[0] = at[0] /\ to[Len(b)] = stop
      <4>1. r \in Responses /\ r.session = session
        BY ONLY <1>3, <1>6
      <4>2. Rising(Append(a, r), session) /\ FromTo(Append(a, r), at[0], stop)
        BY ONLY <1>7, <1>10, <1>11, <3>3, <4>1, at \in Reports(a), AnswerIsHeard
      <4>3. QED BY ONLY <3>2, <4>2 DEF FromTo
    <3>5. PICK to \in Reports(b) : to[0] = at[0] /\ to[Len(b)] = stop
      BY ONLY <3>4
    <3>6. emitted' - Kept' = stop
      <4>1. Kept' = 0
        BY ONLY <1>4, <2>2 DEF Kept
      <4>2. emitted' = stop
        BY ONLY <1>6
      <4>3. stop - 0 = stop
        BY ONLY <1>7
      <4>4. QED BY ONLY <4>1, <4>2, <4>3
    <3>7. (Listening' => to[0] = LastHeard') /\ (Linked' => to[Len(b)] = emitted' - Kept')
      BY ONLY <1>9, <3>1, <3>5, <3>6
    <3>8. Heard(b, Listening', LastHeard', Linked', emitted' - Kept')
      BY ONLY <3>5, <3>7 DEF Heard
    <3>9. Listening => ForClient(b, session, k)
      <4>1. ASSUME ForClient(a, session, k) PROVE ForClient(b, session, k)
        <5>1. PICK len \in Nat : len = Len(a)
          BY ONLY <1>7, LenProperties
        <5>2. Len(b) = len + 1 /\ b[len + 1] = r /\ \A i \in 1 .. len : b[i] = a[i]
          BY ONLY <1>3, <1>7, <3>2, <5>1, AppendProperties
        <5>3. \A i \in 1 .. len + 1 : i \in 1 .. len \/ i = len + 1
          BY ONLY len \in Nat
        <5>4. k <= session /\ r.session = session /\ \A i \in 1 .. len : k <= a[i].session
          BY ONLY <1>3, <1>6, <4>1, <5>1 DEF ForClient
        <5>5. QED BY ONLY <5>2, <5>3, <5>4 DEF ForClient
      <4>2. QED BY ONLY <1>10, <4>1
    <3>10. QED BY ONLY <2>2, <3>2, <3>4, <3>8, <3>9
  <2>3. QED BY ONLY <1>8, <2>1, <2>2
<1>13. Told'
  <2>1. Gapless(Taken')
    BY ONLY <1>4, <1>10
  <2>2. Rising(Answers', uart'.session) /\ (Listening' => ForClient(Answers', uart'.session, clients'))
    BY ONLY <1>3, <1>4, <1>6, <1>9, <1>12
  <2>3. QED BY ONLY <1>3, <1>12, <2>1, <2>2 DEF Told
<1>14. InTurn'
  BY ONLY <1>3, <1>4, <1>9, Hearing, StillInTurn DEF Hearing
<1>15. Quiet'
  <2>1. fwConns = 0 => Answers' = Answers
    BY ONLY <1>6, <1>8
  <2>2. QED BY ONLY <1>4, <1>8, <2>1, Hearing DEF Hearing, Quiet
<1>16. QED BY ONLY <1>13, <1>14, <1>15 DEF Hearing
-----------------------------------------------------------------------------
(* Every step keeps what the client hears.                                 *)

LEMMA InitHears ==
  ASSUME Init
  PROVE  Hearing
<1>1. /\ openPending = TRUE /\ resetPending = FALSE /\ client = 0 /\ clients = 0 /\ Taken = << >>
      /\ outbox = << >> /\ conn = 0 /\ conns = 0 /\ udpDown = << >> /\ fwConn = 0 /\ fwConns = 0
      /\ up = [c \in 1 .. MaxConns |-> << >>] /\ down = [c \in 1 .. MaxConns |-> << >>]
      /\ serverStarted = FALSE /\ segmentCounter = 0 /\ uart = NewPort /\ emitted = 0
  BY ONLY Init, EmptySeq, ConcatEmptySeq DEF Init, NoPackage, Taken
<1>2. Len(<< >>) = 0 /\ 1 .. 0 = {} /\ 1 .. 0 - 1 = {} /\ uart.session = 0
  BY ONLY <1>1 DEF NewPort
<1>3. Answers = << >> /\ Sent = << >> /\ ~ Listening /\ LastHeard = 0 /\ Kept = 0 /\ ~ Linked
  BY ONLY <1>1 DEF Answers, Sent, Listening, LastHeard, Kept, Linked
<1>4. Quiet
  BY ONLY <1>1, <1>3 DEF Quiet
<1>5. InTurn
  <2>1. Sent \o outbox = << >>
    BY ONLY <1>1, <1>3, EmptySeq, ConcatEmptySeq
  <2>2. TakeTurns(<< >>, uart.session, clients, openPending, resetPending)
    BY ONLY <1>1, <1>2 DEF TakeTurns
  <2>3. QED BY ONLY <2>1, <2>2 DEF InTurn
<1>6. Told
  <2>1. PICK listening \in BOOLEAN, live \in BOOLEAN : ~ listening /\ ~ live
    OBVIOUS
  <2>2. Heard(<< >>, listening, 0, live, 0)
    BY ONLY <2>1, NothingHeard
  <2>3. Heard(<< >>, Listening, LastHeard, Linked, emitted - Kept)
    BY ONLY <1>3, <2>2, HeardStays
  <2>4. Rising(<< >>, uart.session) /\ Gapless(Taken)
    BY ONLY <1>1, <1>2 DEF Rising, Gapless
  <2>5. QED BY ONLY <1>1, <1>3, <2>3, <2>4 DEF Told
<1>7. QED BY ONLY <1>4, <1>5, <1>6 DEF Hearing

\* What is stored is the front of what was taken.
LEMMA GaplessFront ==
  ASSUME TypeOK, Gapless(Taken)
  PROVE  ClientGetsARun
<1>1. /\ accepted \in Seq((0 .. MaxClients) \X (1 .. MaxEmitted))
      /\ got \in Seq((0 .. MaxClients) \X (1 .. MaxEmitted))
  BY ONLY TypeOK DEF TypeOK, ClientTypeOK
<1>2. /\ Len(Taken) = Len(got) + Len(accepted) /\ Len(got) \in Nat /\ Len(accepted) \in Nat
      /\ \A i \in 1 .. Len(got) + Len(accepted) :
            Taken[i] = IF i <= Len(got) THEN got[i] ELSE accepted[i - Len(got)]
  BY ONLY <1>1, ConcatProperties, LenProperties DEF Taken
<1>3. ASSUME NEW i \in 1 .. Len(got) - 1, got[i][1] = got[i + 1][1]
      PROVE  got[i + 1][2] = got[i][2] + 1
  <2>1. /\ i \in 1 .. Len(Taken) - 1 /\ Taken[i] = got[i] /\ Taken[i + 1] = got[i + 1]
    BY ONLY <1>2, i \in 1 .. Len(got) - 1
  <2>2. QED BY ONLY <1>3, <2>1, Gapless(Taken) DEF Gapless
<1>4. QED BY ONLY <1>3 DEF ClientGetsARun

LEMMA StutterHears ==
  ASSUME TypeOK, TypeOK', conns <= 1, Hearing, UNCHANGED vars
  PROVE  Hearing'
<1>1. UNCHANGED <<openPending, resetPending, client, clients, Taken, outbox, conn, conns, up, down, udpDown,
                  fwConn, fwConns, serverStarted, segmentCounter, uart, emitted>>
  BY ONLY UNCHANGED vars
     DEF vars, Taken, clientVars, roundVars, portVars, tcpVars, udpVars, linkVars, pollVars, history
<1>2. Sent' = Sent /\ Answers' = Answers /\ (Linked' => Linked)
  BY ONLY <1>1 DEF Sent, Answers, Linked
<1>3. InTurn'
  BY ONLY <1>1, <1>2, Hearing, StillInTurn DEF Hearing
<1>4. Told'
  <2>1. uart.session <= uart'.session
    BY ONLY <1>1, TypeOK, conns <= 1, HearTypes
  <2>2. conns' <= 1 /\ client' \in {0, client} /\ Told /\ uart'.tx = uart.tx
    BY ONLY <1>1, conns <= 1, Hearing DEF Hearing
  <2>3. QED BY ONLY <1>1, <1>2, <2>1, <2>2, TypeOK, TypeOK', conns <= 1, StillTold
<1>5. Quiet'
  BY ONLY <1>1, <1>2, Hearing DEF Hearing, Quiet
<1>6. QED BY ONLY <1>3, <1>4, <1>5 DEF Hearing

LEMMA NextHears ==
  ASSUME ResetOnConnect = TRUE, TypeOK, TypeOK', Fence, Line, ~ useUDP, conns <= 1, conns' <= 1,
         Hearing, Next
  PROVE  Hearing'
<1>1. Client \/ Firmware
  BY ONLY Next DEF Next
<1>2. udpDown = << >> /\ ~ serverStarted /\ Len(<< >>) = 0
  BY ONLY Hearing, EmptySeq DEF Hearing, Quiet
<1>3. CASE Client
  <2>1. ~ \E i \in 1 .. Len(udpDown) : ReceiveUDP(i)
    BY ONLY <1>2
  <2>2. CASE OnPortOpen
    BY ONLY <2>2, ResetOnConnect = TRUE, TypeOK, conns <= 1, Fence, Hearing, NewClientHears
  <2>3. CASE \/ PrepareNothing \/ PrepareOpen \/ PrepareReset \/ PrepareIdle \/ PrepareHangup
             \/ \E n \in 1 .. MaxBytes : PrepareData(n)
    BY ONLY <2>3, TypeOK, TypeOK', conns <= 1, Fence, Hearing, RoundHears
  <2>4. CASE Send
    BY ONLY <2>4, TypeOK, TypeOK', Line, ~ useUDP, conns <= 1, Hearing, SendHears
  <2>5. CASE Connect \/ Disconnect
    BY ONLY <2>5, TypeOK, TypeOK', conns <= 1, conns' <= 1, Hearing, LinkChangeHears
  <2>6. CASE ReceiveTCP
    BY ONLY <2>6, TypeOK, TypeOK', conns <= 1, Fence, Hearing, ReceiveHears
  <2>7. CASE StoreResponse
    BY ONLY <2>7, TypeOK, TypeOK', conns <= 1, Hearing, StoreHears
  <2>8. QED BY ONLY <1>3, <2>1, <2>2, <2>3, <2>4, <2>5, <2>6, <2>7 DEF Client
<1>4. CASE Firmware
  <2>1. ~ \E i \in 1 .. Len(udpUp) : RequestUDP(i)
    BY ONLY <1>2 DEF RequestUDP
  <2>2. CASE \E n \in 0 .. IOSize, wrapped \in BOOLEAN : Poll(n, wrapped)
    BY ONLY <2>2, TypeOK, TypeOK', conns <= 1, Hearing, PollHears
  <2>3. CASE RequestTCP
    BY ONLY <2>3, TypeOK, TypeOK', ~ useUDP, conns <= 1, Fence, Hearing, RequestHears
  <2>4. CASE Accept \/ Drop \/ EndReset \/ \E room \in 1 .. IOSize : FeedUART(room)
    BY ONLY <2>4, TypeOK, TypeOK', conns <= 1, Hearing, AcceptHears, DropHears, UartHears
  <2>5. QED BY ONLY <1>4, <2>1, <2>2, <2>3, <2>4 DEF Firmware
<1>5. QED BY ONLY <1>1, <1>3, <1>4

\* While the first TCP connection lasts, and after it, a local client gets the
\* bytes the device sent since its reset without a gap from the first of them on
\* (PortWorker.cpp:134-141): the answers of earlier sessions come before those of
\* its own, and once it has had one of these none is dropped, whatever the receiver
\* had in hand when the client came.
THEOREM ClientHearsARun ==
  ASSUME ResetOnConnect = TRUE, MaxClients <= SessionLimit
  PROVE  Spec => [](~ useUDP /\ conns <= 1 => ClientGetsARun)
<1>1. Init => HearingOverTCP
  BY InitTypes, InitFence, InitLine, InitHears DEF HearingOverTCP
<1>2. HearingOverTCP /\ [Next]_vars => HearingOverTCP'
  <2>1. ASSUME TypeOK, Fence, ~ useUDP => Line, ~ useUDP /\ conns <= 1 => Hearing, Next
        PROVE  TypeOK' /\ Fence' /\ (~ useUDP' => Line') /\ (~ useUDP' /\ conns' <= 1 => Hearing')
    <3>1. useUDP' = useUDP /\ (Client \/ Firmware) /\ TypeOK' /\ Fence'
      BY ONLY <2>1, ResetOnConnect = TRUE, MaxClients <= SessionLimit, NextTypes, NextFence DEF Next
    <3>2. ~ useUDP => Line'
      BY ONLY <2>1, <3>1, ClientKeepsLine, SendKeepsLine, RequestKeepsLine, FirmwareKeepsLine
    <3>3. conns \in Nat /\ conns' \in {conns, conns + 1}
      <4>1. conns \in Nat
        BY ONLY <2>1, Bounds DEF TypeOK, NetworkTypeOK
      <4>2. conns' \in {conns, conns + 1}
        BY ONLY <2>1 DEF Next, Client, OnPortOpen, PrepareNothing, PrepareOpen, PrepareReset, PrepareIdle,
           PrepareHangup, PrepareData, Pack, Send, Connect, Disconnect, StoreResponse, ReceiveTCP,
           ReceiveUDP,
           Firmware, Accept, Drop, RequestTCP, RequestUDP, FeedUART, EndReset, Poll, tcpVars, udpVars
      <4>3. QED BY ONLY <4>1, <4>2
    <3>4. conns' <= 1 => conns <= 1
      BY ONLY <3>3
    <3>5. ~ useUDP /\ conns' <= 1 => Hearing'
      BY ONLY <2>1, <3>1, <3>4, ResetOnConnect = TRUE, NextHears
    <3>6. QED BY ONLY <3>1, <3>2, <3>5
  <2>2. ASSUME TypeOK, Fence, ~ useUDP => Line, ~ useUDP /\ conns <= 1 => Hearing, UNCHANGED vars
        PROVE  TypeOK' /\ Fence' /\ (~ useUDP' => Line') /\ (~ useUDP' /\ conns' <= 1 => Hearing')
    <3>1. TypeOK'
      BY ONLY <2>2, StutterTypes
    <3>2. Fence'
      BY ONLY <2>2 DEF Fence, Queues, InHand, Taken, vars, clientVars, roundVars, portVars,
         tcpVars, udpVars, history
    <3>3. Line => Line'
      BY ONLY <2>2 DEF Line, OnItsWay, ToBeSent, Arrived, InLine, LastInLine, Waiting,
         vars, clientVars, portVars, tcpVars, udpVars, linkVars, history
    <3>4. useUDP' = useUDP /\ conns' = conns
      BY ONLY <2>2 DEF vars, tcpVars
    <3>5. ~ useUDP /\ conns <= 1 => Hearing'
      BY ONLY <2>2, <3>1, StutterHears
    <3>6. QED BY ONLY <2>2, <3>1, <3>2, <3>3, <3>4, <3>5
  <2>3. QED BY <2>1, <2>2 DEF HearingOverTCP
<1>3. HearingOverTCP => (~ useUDP /\ conns <= 1 => ClientGetsARun)
  BY GaplessFront DEF HearingOverTCP, Hearing, Told
<1>4. QED BY <1>1, <1>2, <1>3, PTL DEF Spec
=============================================================================
