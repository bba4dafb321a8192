---------------------------- MODULE TCPTransport ----------------------------
(***************************************************************************)
(* The client's TCP transport (Client/Src/TCPTransport.cpp,                *)
(* TCPConnection.cpp) below the level of whole packages, and the three     *)
(* threads that use its connection:                                        *)
(*                                                                         *)
(*   worker   Worker(), receives packages in a loop                        *)
(*   timer    OnSendPackage, sends a package                               *)
(*   main     OnShutdown                                                   *)
(*                                                                         *)
(* GetConnection and OnShutdown hold remoteConnLock, recv and send do not. *)
(* A thread names its socket by the number in its connection object.  The  *)
(* kernel gives a new socket the lowest free number, mostly that of the    *)
(* one closed last; as the process opens and closes other files too, it    *)
(* may here be any free one.  A thread that still has the old object then  *)
(* reads from or writes to the new connection.                             *)
(*                                                                         *)
(* A package is Parts parts, each of which is sent or received as a whole. *)
(* Name lookup and socket options are left out.                            *)
(***************************************************************************)
EXTENDS Integers, Sequences, FiniteSets

CONSTANTS Parts,          \* parts of a package
          UseUDP,         \* option -up: data is not sent by this transport
          MaxConns,       \* bound: connections made
          MaxParts,       \* bound: parts the firmware sends on a connection
          MaxShutdowns    \* bound: calls of OnShutdown; the process makes two

ASSUME TCPTransportAssumption ==
  /\ Parts \in Nat \ {0} /\ UseUDP \in BOOLEAN
  /\ MaxConns \in Nat \ {0} /\ MaxParts \in Nat /\ MaxShutdowns \in Nat

Users == {"worker", "timer"}
Threads == Users \cup {"main"}
Conns == 1 .. MaxConns
None == 0                   \* nullptr, or no connection
Nobody == "nobody"

VARIABLES
  lock,            \* who holds remoteConnLock
  remoteConn,
  conns,           \* how many connections were made
  number,          \* number[c], the descriptor number in connection object c
  socket,          \* socket[f], the connection whose socket has number f, or None
  disposed,        \* the connections whose isDisposed is set
  falseVal,        \* TCPConnection.cpp's static variable
  at,              \* at[t], what thread t is about to do
  conn,            \* conn[t], the connection object it works with
  expected,        \* expected[t], what its compare_exchange compares with
  peer,            \* peer[c], what the firmware did to the connection
  arrived,         \* arrived[c], how many parts have come from the firmware
  taken,           \* taken[c], how many of them were received
  rxBuff,          \* the parts of the package being received
  errno,           \* the worker's errno: a timeout was the last error, or another
  dataLeft,        \* how many parts of its package the timer has yet to send
  shutdownPending,
  shutdowns,       \* calls of OnShutdown: RequestShutdown's and Shutdown's
  cut              \* history: the connections another thread disposed of while the
                   \* worker was in the middle of a package

connVars   == <<remoteConn, conns, number, socket, disposed, falseVal>>
threadVars == <<at, conn, expected>>
rxVars     == <<taken, rxBuff, errno>>
stopVars   == <<shutdownPending, shutdowns>>
tcpVars == <<lock, connVars, threadVars, peer, arrived, rxVars, dataLeft, stopVars, cut>>

TCPInit ==
  /\ lock = Nobody /\ remoteConn = None /\ conns = 0
  /\ number = [c \in Conns |-> None] /\ socket = [f \in Conns |-> None]
  /\ disposed = {} /\ falseVal = FALSE
  /\ at = [t \in Threads |-> IF t = "worker" THEN "loop" ELSE "idle"]
  /\ conn = [t \in Threads |-> None] /\ expected = [t \in Threads |-> FALSE]
  /\ peer = [c \in Conns |-> "open"]
  /\ arrived = [c \in Conns |-> 0] /\ taken = [c \in Conns |-> 0]
  /\ rxBuff = << >> /\ errno = "other"
  /\ dataLeft = 0 /\ shutdownPending = FALSE /\ shutdowns = 0 /\ cut = {}

Go(t, place) == at' = [at EXCEPT ![t] = place]

IsOpen(c) == \E f \in Conns : socket[f] = c

\* The connection a system call of thread t works on.
Reached(t) == socket[number[conn[t]]]
-----------------------------------------------------------------------------
(* Faulty variants, one plausible slip each.                               *)

\* What was received of a package is kept over to the next connection.
LoopKeepsPart ==
  /\ at["worker"] = "loop"
  /\ Go("worker", IF shutdownPending THEN "done" ELSE "get")
  /\ UNCHANGED <<lock, connVars, conn, expected, peer, arrived, rxVars, dataLeft, stopVars, cut>>

\* The outer loop does not look at the flag.
LoopForEver ==
  /\ at["worker"] = "loop"
  /\ Go("worker", "get")
  /\ rxBuff' = << >>
  /\ UNCHANGED <<lock, connVars, conn, expected, peer, arrived, taken, errno, dataLeft, stopVars, cut>>

\* A new connection is made although the present one is in use.
AlwaysRenew(t) ==
  /\ at[t] = (IF t = "worker" THEN "get" ELSE "idle") /\ lock = Nobody
  /\ lock' = t /\ Go(t, "create")
  /\ dataLeft' = IF t = "timer" THEN Parts ELSE dataLeft
  /\ UNCHANGED <<connVars, conn, expected, peer, arrived, rxVars, stopVars, cut>>

\* A failed send is given up without disposing of the connection.
SendGivenUp ==
  /\ at["timer"] = "use"
  /\ Go("timer", "idle")
  /\ dataLeft' = 0
  /\ UNCHANGED <<lock, connVars, conn, expected, peer, arrived, rxVars, stopVars, cut>>
-----------------------------------------------------------------------------
(* TCPConnection::Dispose, on conn[t].                                     *)

ReadFalseVal(t) ==
  /\ at[t] = "dispose"
  /\ expected' = [expected EXCEPT ![t] = falseVal]
  /\ Go(t, "exchange")
  /\ UNCHANGED <<lock, connVars, conn, peer, arrived, rxVars, dataLeft, stopVars, cut>>

\* isDisposed.compare_exchange_strong(falseVal, true), then close(fd), which
\* throws away what was not received.  A user that holds the lock is in
\* GetConnection and goes on there.
Exchange(t) ==
  LET c     == conn[t]
      found == c \in disposed
  IN  /\ at[t] = "exchange"
      /\ IF found = expected[t]
           THEN /\ disposed' = disposed \cup {c}
                /\ arrived' = [a \in Conns |->
                     IF a = socket[number[c]] THEN taken[a] ELSE arrived[a]]
                /\ socket' = [socket EXCEPT ![number[c]] = None]
                /\ UNCHANGED falseVal
           ELSE /\ falseVal' = found
                /\ UNCHANGED <<disposed, socket, arrived>>
      /\ IF lock = t /\ t \in Users
           THEN Go(t, "create") /\ UNCHANGED lock
           ELSE /\ Go(t, IF t = "worker" THEN "loop" ELSE "idle")
                /\ lock' = IF lock = t THEN Nobody ELSE lock
      /\ conn' = [conn EXCEPT ![t] = None]
      /\ expected' = [expected EXCEPT ![t] = FALSE]
      /\ cut' = IF t # "worker" /\ found = expected[t] /\ ~ found
                   /\ at["worker"] = "use" /\ rxBuff # << >>
                  THEN cut \cup {c} ELSE cut
      /\ UNCHANGED <<remoteConn, conns, number, peer, rxVars, dataLeft, stopVars>>
-----------------------------------------------------------------------------
(* GetConnection.                                                          *)

\* Use the connection there is, or make a new one after Dispose of the old.  The
\* timer calls it at the start of OnSendPackage.
GetConnection(t) ==
  /\ at[t] = (IF t = "worker" THEN "get" ELSE "idle") /\ lock = Nobody
  /\ conn' = [conn EXCEPT ![t] = remoteConn]
  /\ IF remoteConn # None /\ remoteConn \notin disposed
       THEN Go(t, "use") /\ UNCHANGED lock
       ELSE lock' = t /\ Go(t, IF remoteConn = None THEN "create" ELSE "dispose")
  /\ dataLeft' = IF t = "timer" THEN Parts ELSE dataLeft
  /\ UNCHANGED <<connVars, expected, peer, arrived, rxVars, stopVars, cut>>

\* The numbers the kernel may give to a new socket.  They stand for descriptors in
\* the order in which these are first used.
FreeNumbers == {f \in Conns : socket[f] = None /\ 1 .. f - 1 \subseteq {number[c] : c \in Conns}}

\* socket() and connect() succeed; ConnectedMessage is sent with the lock held.
Create(t) ==
  /\ at[t] = "create" /\ conns < MaxConns
  /\ LET c == conns + 1
     IN  \E f \in FreeNumbers :
           /\ conns' = c
           /\ remoteConn' = c
           /\ number' = [number EXCEPT ![c] = f]
           /\ socket' = [socket EXCEPT ![f] = c]
           /\ conn' = [conn EXCEPT ![t] = c]
  /\ Go(t, "use")
  /\ lock' = Nobody
  /\ UNCHANGED <<disposed, falseVal, expected, peer, arrived, rxVars, dataLeft, stopVars, cut>>

\* The lookup, socket() or connect() fails: the worker sleeps and tries again,
\* the timer drops its package.
CreateFails(t) ==
  /\ at[t] = "create"
  /\ remoteConn' = None
  /\ Go(t, IF t = "worker" THEN "loop" ELSE "idle")
  /\ dataLeft' = IF t = "timer" THEN 0 ELSE dataLeft
  /\ lock' = Nobody
  /\ UNCHANGED <<conns, number, socket, disposed, falseVal, conn, expected, peer, arrived,
                 rxVars, stopVars, cut>>
-----------------------------------------------------------------------------
(* The worker.                                                             *)

\* The outer loop.
Loop ==
  /\ at["worker"] = "loop"
  /\ Go("worker", IF shutdownPending THEN "done" ELSE "get")
  /\ rxBuff' = << >>
  /\ UNCHANGED <<lock, connVars, conn, expected, peer, arrived, taken, errno, dataLeft,
                 stopVars, cut>>

\* The condition of the inner loop, and of the outer one after it, is false.
StopReceiving ==
  /\ at["worker"] = "use" /\ shutdownPending
  /\ Go("worker", "done")
  /\ UNCHANGED <<lock, connVars, conn, expected, peer, arrived, rxVars, dataLeft, stopVars, cut>>

Receiving == at["worker"] = "use" /\ ~ shutdownPending

\* The first n parts of a package of connection c that begins with part k.
Beginning(c, k, n) == [i \in 1 .. n |-> <<c, k + i - 1>>]

Whole(package) == \E k \in 0 .. MaxParts :
  k % Parts = 0 /\ \E c \in Conns : package = Beginning(c, k, Parts)

\* recv() returns n parts.  A package that is complete is handed on if its
\* checksum is right, else the connection is disposed of.  As the checksum is that of
\* the control block, it may be right although the parts do not belong together.
Receive(n) ==
  LET c       == Reached("worker")
      package == rxBuff \o Beginning(c, taken[c], n)
  IN  /\ Receiving /\ c # None /\ peer[c] # "reset"
      /\ n \in 1 .. Parts - Len(rxBuff) /\ taken[c] + n <= arrived[c]
      /\ taken' = [taken EXCEPT ![c] = @ + n]
      /\ \/ Len(package) < Parts /\ rxBuff' = package /\ UNCHANGED at
         \/ Len(package) = Parts /\ rxBuff' = << >> /\ UNCHANGED at
         \/ /\ Len(package) = Parts /\ ~ Whole(package)
            /\ rxBuff' = package /\ Go("worker", "dispose")
      /\ UNCHANGED <<lock, connVars, conn, expected, peer, arrived, errno, dataLeft, stopVars, cut>>

\* recv() ends after the service interval with EAGAIN.
ReceiveTimeout ==
  LET c == Reached("worker")
  IN  /\ Receiving /\ c # None /\ peer[c] = "open" /\ taken[c] = arrived[c]
      /\ errno' = "again"
      /\ UNCHANGED <<lock, connVars, threadVars, peer, arrived, taken, rxBuff, dataLeft,
                     stopVars, cut>>

\* recv() returns 0, which does not set errno: what is left there from an
\* earlier timeout makes the worker go on as after a timeout.
ReceiveEnd ==
  LET c == Reached("worker")
  IN  /\ Receiving /\ c # None /\ peer[c] = "closed" /\ taken[c] = arrived[c]
      /\ errno # "again"
      /\ Go("worker", "dispose")
      /\ UNCHANGED <<lock, connVars, conn, expected, peer, arrived, rxVars, dataLeft, stopVars, cut>>

\* recv() fails: the connection was reset, or the number is no longer open.
ReceiveFails ==
  LET c == Reached("worker")
  IN  /\ Receiving /\ (c # None => peer[c] = "reset")
      /\ errno' = "other"
      /\ Go("worker", "dispose")
      /\ UNCHANGED <<lock, connVars, conn, expected, peer, arrived, taken, rxBuff, dataLeft,
                     stopVars, cut>>
-----------------------------------------------------------------------------
(* The timer.                                                              *)

\* send() takes n parts.  A connection the firmware has closed answers with a reset.
SendParts(n) ==
  LET c == Reached("timer")
  IN  /\ at["timer"] = "use" /\ c # None /\ peer[c] # "reset"
      /\ n \in 1 .. dataLeft
      /\ dataLeft' = dataLeft - n
      /\ peer' = [peer EXCEPT ![c] = IF @ = "closed" THEN "reset" ELSE @]
      /\ IF n = dataLeft THEN Go("timer", "idle") ELSE UNCHANGED at
      /\ UNCHANGED <<lock, connVars, conn, expected, arrived, rxVars, stopVars, cut>>

\* send() fails, or finds no room within the service interval.
SendFails ==
  /\ at["timer"] = "use"
  /\ Go("timer", "dispose")
  /\ dataLeft' = 0
  /\ UNCHANGED <<lock, connVars, conn, expected, peer, arrived, rxVars, stopVars, cut>>
-----------------------------------------------------------------------------
(* The main thread, and the firmware.                                      *)

\* OnShutdown: the flag first, then the connection under the lock.
OnShutdown ==
  /\ at["main"] = "idle" /\ shutdowns < MaxShutdowns
  /\ shutdowns' = shutdowns + 1
  /\ shutdownPending' = TRUE
  /\ Go("main", "get")
  /\ UNCHANGED <<lock, connVars, conn, expected, peer, arrived, rxVars, dataLeft, cut>>

DisposeAtShutdown ==
  /\ at["main"] = "get" /\ lock = Nobody
  /\ conn' = [conn EXCEPT !["main"] = remoteConn]
  /\ IF remoteConn = None
       THEN Go("main", "idle") /\ UNCHANGED lock
       ELSE Go("main", "dispose") /\ lock' = "main"
  /\ UNCHANGED <<connVars, expected, peer, arrived, rxVars, dataLeft, stopVars, cut>>

\* What the firmware does, as far as an open socket shows it.
FirmwareSends(c) ==
  /\ IsOpen(c) /\ peer[c] = "open" /\ arrived[c] < MaxParts
  /\ arrived' = [arrived EXCEPT ![c] = @ + 1]
  /\ UNCHANGED <<lock, connVars, threadVars, peer, rxVars, dataLeft, stopVars, cut>>

\* client.stop(), or a reboot or a broken way, which the client learns as a reset.
FirmwareLeaves(c, how) ==
  /\ IsOpen(c) /\ peer[c] = "open"
  /\ how \in {"closed", "reset"}
  /\ peer' = [peer EXCEPT ![c] = how]
  /\ UNCHANGED <<lock, connVars, threadVars, arrived, rxVars, dataLeft, stopVars, cut>>
-----------------------------------------------------------------------------
Worker ==
  \/ Loop \/ GetConnection("worker") \/ Create("worker") \/ CreateFails("worker")
  \/ ReadFalseVal("worker") \/ Exchange("worker") \/ StopReceiving
  \/ \E n \in 1 .. Parts : Receive(n)
  \/ ReceiveTimeout \/ ReceiveEnd \/ ReceiveFails

SendPackage ==
  \/ Create("timer") \/ CreateFails("timer") \/ ReadFalseVal("timer") \/ Exchange("timer")
  \/ (\E n \in 1 .. Parts : SendParts(n)) \/ SendFails

Main == DisposeAtShutdown \/ ReadFalseVal("main") \/ Exchange("main")

Firmware ==
  \E c \in Conns : FirmwareSends(c) \/ \E how \in {"closed", "reset"} : FirmwareLeaves(c, how)

TCPNext == Worker \/ GetConnection("timer") \/ SendPackage \/ OnShutdown \/ Main \/ Firmware

TCPSpec == TCPInit /\ [][TCPNext]_tcpVars

\* Every thread goes on with what it has begun, and the worker, when it waits for
\* the lock, gets it, because nobody who releases it takes it again at once.  The
\* timer sends packages for ever unless they go by UDP.
TCPFairSpec ==
  /\ TCPSpec
  /\ WF_tcpVars(Worker) /\ SF_tcpVars(GetConnection("worker"))
  /\ WF_tcpVars(SendPackage \/ (~ UseUDP /\ GetConnection("timer")))
  /\ WF_tcpVars(Main)
-----------------------------------------------------------------------------
(* Properties.                                                             *)

\* The types, and who may hold the lock.
Places == {"idle", "loop", "get", "create", "use", "dispose", "exchange", "done"}

ConnTypeOK ==
  /\ conns \in 0 .. MaxConns /\ remoteConn \in 0 .. conns
  /\ number \in [Conns -> 0 .. MaxConns] /\ socket \in [Conns -> 0 .. conns]
  /\ disposed \subseteq 1 .. conns /\ falseVal \in BOOLEAN /\ cut \subseteq disposed

ThreadTypeOK ==
  /\ at \in [Threads -> Places]
  /\ conn \in [Threads -> 0 .. conns] /\ expected \in [Threads -> BOOLEAN]
  /\ lock \in {Nobody} \cup Threads
  /\ lock # Nobody => at[lock] \in {"dispose", "exchange", "create"}

DataTypeOK ==
  /\ peer \in [Conns -> {"open", "closed", "reset"}]
  /\ arrived \in [Conns -> 0 .. MaxParts] /\ taken \in [Conns -> 0 .. MaxParts]
  /\ rxBuff \in Seq(Conns \X (0 .. MaxParts)) /\ Len(rxBuff) <= Parts
  /\ errno \in {"again", "other"}
  /\ dataLeft \in 0 .. Parts
  /\ shutdownPending \in BOOLEAN /\ shutdowns \in 0 .. MaxShutdowns

TCPTypeOK == ConnTypeOK /\ ThreadTypeOK /\ DataTypeOK

\* "This should not happen normally" (TCPTransport.cpp:201): the parts in rxBuff
\* are the beginning of one package.  They may be anything else only while the
\* worker reads from a number that an earlier connection had too, which the timer
\* or the main thread disposed of in the middle of a package (TCPConnection.cpp:21).
InStep ==
  rxBuff # << >> => /\ rxBuff[1][2] % Parts = 0
                    /\ rxBuff = Beginning(rxBuff[1][1], rxBuff[1][2], Len(rxBuff))

CutShort(c) == \E old \in cut : old < c /\ number[old] = number[c]

PackagesStayWhole == InStep \/ CutShort(rxBuff[Len(rxBuff)][1])

\* "Package CRC mismatch! This should not happen normally, check your
\* configuration!" (TCPTransport.cpp:201): no package that is complete is mixed.  It
\* does not hold: the number under recv may come again.
ChecksumsMatch == Len(rxBuff) < Parts

\* However the three threads dispose of the connections and replace them, and
\* although one of them may close a number that has come again: a socket that is
\* open is the one of the present connection, which is in use, so none is forgotten
\* and there is never a second one (TCPTransport.cpp:88-160, TCPConnection.cpp:19-23).
NoSocketLeaks ==
  \A c \in 1 .. conns : IsOpen(c) => c = remoteConn /\ c \notin disposed

\* "socket was closed or errored, close connection from our side and stop
\* reading" (TCPTransport.cpp:187): by the firmware, or by a thread that closed the
\* number for a connection that had it before.
IsLost(c) == peer[c] # "open" \/ (c = remoteConn /\ ~ IsOpen(c))

EndIsNoticed == \A c \in Conns : IsLost(c) ~> c \in disposed

\* OnShutdown "must be threadsafe and notify Worker to stop" (WorkerBase.h:16).
ShutdownCompletes == shutdownPending ~> at["worker"] = "done"
=============================================================================
