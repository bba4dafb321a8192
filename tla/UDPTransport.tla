---------------------------- MODULE UDPTransport ----------------------------
(***************************************************************************)
(* The connection of the client's UDP transport (Client/Src/               *)
(* UDPTransport.cpp, UDPConnection.cpp) and the four threads that share    *)
(* it:                                                                     *)
(*                                                                         *)
(*   worker   Worker(), receives in a loop                                 *)
(*   timer    OnSendPackage, sends                                         *)
(*   tcp      OnConnected, called by the TCP transport with every new TCP  *)
(*            connection and the UDP port that goes with it                *)
(*   main     OnShutdown, which RequestShutdown calls, and Shutdown again  *)
(*            after the timer has ended                                    *)
(*                                                                         *)
(* OnConnected, GetConnection, OnShutdown and the end of Worker hold       *)
(* remoteConnLock, which is here the thread that has it; the Dispose of a  *)
(* receiver or sender that failed does not.  Dispose compares isDisposed   *)
(* with falseVal, a static variable all connections share: a               *)
(* compare_exchange that fails stores what it found there.  It takes two   *)
(* steps, the read of falseVal and the exchange.                           *)
(***************************************************************************)
EXTENDS Integers, FiniteSets

CONSTANTS MaxPorts,   \* bound: TCP connections, each with a UDP port
          MaxConns    \* bound: UDP connections made

ASSUME TransportAssumption == MaxPorts \in Nat /\ MaxConns \in Nat \ {0}

Users == {"worker", "timer"}   \* the threads that use the connection
Threads == Users \cup {"tcp", "main"}
Conns == 1 .. MaxConns
None == 0                      \* nullptr, or no port
Nobody == "nobody"

VARIABLES
  udpPort,     \* the port announced last
  lock,        \* who holds remoteConnLock
  remoteConn,
  conns,       \* how many connections were made
  disposed,    \* the connections whose isDisposed is set and descriptor closed
  falseVal,
  broken,      \* connections not disposed of every use of which fails
  at,          \* at[t], what thread t is about to do
  conn,        \* conn[t], the connection it works with
  expected,    \* expected[t], what its compare_exchange compares with
  shutdownPending,
  shutdowns,   \* calls of OnShutdown so far
  left         \* the worker has left its loop

connVars   == <<conns, disposed>>
threadVars == <<at, conn, expected>>
stopVars   == <<shutdownPending, shutdowns, left>>
udpVars == <<udpPort, lock, remoteConn, connVars, falseVal, broken, threadVars, stopVars>>

UDPInit ==
  /\ udpPort = None /\ lock = Nobody /\ remoteConn = None
  /\ conns = 0 /\ disposed = {} /\ falseVal = FALSE /\ broken = {}
  /\ at = [t \in Threads |-> IF t = "worker" THEN "loop" ELSE "idle"] /\ conn = [t \in Threads |-> None]
  /\ expected = [t \in Threads |-> FALSE]
  /\ shutdownPending = FALSE /\ shutdowns = 0 /\ left = FALSE

Unlocked == lock = Nobody

\* Thread t goes on to the given place.
Go(t, place) == at' = [at EXCEPT ![t] = place]

\* Where thread t is when it is done with a connection.
Rest(t) == IF t = "worker" THEN IF left THEN "done" ELSE "loop" ELSE "idle"

\* Thread t is done with its connection.
Release(t) ==
  /\ Go(t, Rest(t))
  /\ conn' = [conn EXCEPT ![t] = None]
  /\ expected' = [expected EXCEPT ![t] = FALSE]
-----------------------------------------------------------------------------
(* Faulty variants, one plausible slip each.                               *)

\* A new connection is made although the present one is in use.
AlwaysRenew(t) ==
  /\ at[t] = (IF t = "worker" THEN "get" ELSE "idle") /\ udpPort # None /\ Unlocked
  /\ lock' = t
  /\ Go(t, "create")
  /\ UNCHANGED <<udpPort, remoteConn, connVars, falseVal, broken, conn, expected, stopVars>>

\* A failed use is tried again on the same connection.
FailAndKeep(t) ==
  /\ at[t] = "use"
  /\ Release(t)
  /\ UNCHANGED <<udpPort, lock, remoteConn, connVars, falseVal, broken, stopVars>>

\* The worker goes straight on to the next receive.
LoopForEver ==
  /\ at["worker"] = "loop" /\ udpPort # None
  /\ Go("worker", "get")
  /\ UNCHANGED <<udpPort, lock, remoteConn, connVars, falseVal, broken, conn, expected, stopVars>>
-----------------------------------------------------------------------------
(* UDPConnection::Dispose, on conn[t].                                     *)

ReadFalseVal(t) ==
  /\ at[t] = "dispose"
  /\ expected' = [expected EXCEPT ![t] = falseVal]
  /\ Go(t, "exchange")
  /\ UNCHANGED <<udpPort, lock, remoteConn, connVars, falseVal, broken, conn, stopVars>>

\* isDisposed.compare_exchange_strong(falseVal, true), then close(fd).  A user
\* that holds the lock is in GetConnection and goes on there, unless it is the
\* worker at its end; the others that hold it give it up.
Exchange(t) ==
  LET c     == conn[t]
      found == c \in disposed
  IN  /\ at[t] = "exchange"
      /\ IF found = expected[t]
           THEN /\ disposed' = disposed \cup {c}
                /\ broken' = broken \ {c}
                /\ UNCHANGED falseVal
           ELSE /\ falseVal' = found
                /\ UNCHANGED <<disposed, broken>>
      /\ IF lock = t /\ t \in Users /\ ~ (t = "worker" /\ left)
           THEN /\ Go(t, "create")
                /\ conn' = [conn EXCEPT ![t] = None]
                /\ expected' = [expected EXCEPT ![t] = FALSE]
                /\ UNCHANGED lock
           ELSE Release(t) /\ lock' = IF lock = t THEN Nobody ELSE lock
      /\ UNCHANGED <<udpPort, remoteConn, conns, stopVars>>
-----------------------------------------------------------------------------
(* GetConnection, and what its callers do with the connection.             *)

\* Use the connection there is, or make a new one, after Dispose of the old.  The
\* timer calls it at the start of OnSendPackage.
GetConnection(t) ==
  /\ at[t] = (IF t = "worker" THEN "get" ELSE "idle") /\ udpPort # None /\ Unlocked
  /\ conn' = [conn EXCEPT ![t] = remoteConn]
  /\ IF remoteConn # None /\ remoteConn \notin disposed
       THEN Go(t, "use") /\ UNCHANGED lock
       ELSE /\ lock' = t
            /\ Go(t, IF remoteConn = None THEN "create" ELSE "dispose")
  /\ UNCHANGED <<udpPort, remoteConn, connVars, falseVal, broken, expected, stopVars>>

Create(t) ==
  /\ at[t] = "create" /\ conns < MaxConns
  /\ conns' = conns + 1
  /\ remoteConn' = conns + 1
  /\ conn' = [conn EXCEPT ![t] = conns + 1]
  /\ Go(t, "use")
  /\ lock' = Nobody
  /\ UNCHANGED <<udpPort, disposed, falseVal, broken, expected, stopVars>>

\* The name is not resolved, or socket() or connect() fails.
CreateFails(t) ==
  /\ at[t] = "create"
  /\ remoteConn' = None
  /\ Release(t)
  /\ lock' = Nobody
  /\ UNCHANGED <<udpPort, connVars, falseVal, broken, stopVars>>

\* recvmsg, with what it brought or without, or send.
Use(t) ==
  /\ at[t] = "use" /\ conn[t] \notin broken
  /\ Release(t)
  /\ UNCHANGED <<udpPort, lock, remoteConn, connVars, falseVal, broken, stopVars>>

Fail(t) ==
  /\ at[t] = "use"
  /\ Go(t, "dispose")
  /\ UNCHANGED <<udpPort, lock, remoteConn, connVars, falseVal, broken, conn, expected, stopVars>>
-----------------------------------------------------------------------------
(* The threads.                                                            *)

\* The loop of the worker; as long as no port is known GetConnection returns
\* nothing.
Loop ==
  /\ at["worker"] = "loop"
  /\ IF shutdownPending
       THEN Go("worker", "end") /\ left' = TRUE
       ELSE udpPort # None /\ Go("worker", "get") /\ UNCHANGED left
  /\ UNCHANGED <<udpPort, lock, remoteConn, connVars, falseVal, broken, conn, expected,
                 shutdownPending, shutdowns>>

\* After its loop the worker disposes of the connection.
LastDispose ==
  /\ at["worker"] = "end" /\ Unlocked
  /\ IF remoteConn = None
       THEN Go("worker", "done") /\ UNCHANGED <<lock, conn>>
       ELSE /\ Go("worker", "dispose") /\ lock' = "worker"
            /\ conn' = [conn EXCEPT !["worker"] = remoteConn]
  /\ UNCHANGED <<udpPort, remoteConn, connVars, falseVal, broken, expected, stopVars>>

\* Timer::Worker has seen its own flag, which is set before this transport's.
TimerEnds ==
  /\ at["timer"] = "idle" /\ shutdownPending
  /\ Go("timer", "done")
  /\ UNCHANGED <<udpPort, lock, remoteConn, connVars, falseVal, broken, conn, expected, stopVars>>

\* OnConnected: a new port, and the connection to the old one is disposed of.
OnConnected ==
  /\ at["tcp"] = "idle" /\ udpPort < MaxPorts /\ Unlocked
  /\ udpPort' = udpPort + 1
  /\ IF remoteConn = None
       THEN UNCHANGED <<lock, threadVars>>
       ELSE /\ lock' = "tcp"
            /\ Go("tcp", "dispose")
            /\ conn' = [conn EXCEPT !["tcp"] = remoteConn]
            /\ UNCHANGED expected
  /\ UNCHANGED <<remoteConn, connVars, falseVal, broken, stopVars>>

\* OnShutdown: the flag first, then the connection under the lock.  The second
\* call comes when the timer has been joined.
OnShutdown ==
  /\ at["main"] = "idle"
  /\ shutdowns = 0 \/ (shutdowns = 1 /\ at["timer"] = "done")
  /\ shutdowns' = shutdowns + 1
  /\ shutdownPending' = TRUE
  /\ Go("main", "get")
  /\ UNCHANGED <<udpPort, lock, remoteConn, connVars, falseVal, broken, conn, expected, left>>

DisposeAtShutdown ==
  /\ at["main"] = "get" /\ Unlocked
  /\ IF remoteConn = None
       THEN Go("main", "idle") /\ UNCHANGED <<lock, conn>>
       ELSE /\ Go("main", "dispose") /\ lock' = "main"
            /\ conn' = [conn EXCEPT !["main"] = remoteConn]
  /\ UNCHANGED <<udpPort, remoteConn, connVars, falseVal, broken, expected, stopVars>>

\* From some moment on nothing can be sent or received on a connection.
Break(c) ==
  /\ c \in 1 .. conns \ (broken \cup disposed)
  /\ broken' = broken \cup {c}
  /\ UNCHANGED <<udpPort, lock, remoteConn, connVars, falseVal, threadVars, stopVars>>

UserStep(t) ==
  \/ GetConnection(t) \/ Create(t) \/ CreateFails(t) \/ Use(t) \/ Fail(t)
  \/ ReadFalseVal(t) \/ Exchange(t)

Worker == UserStep("worker") \/ Loop \/ LastDispose
Timer == UserStep("timer") \/ TimerEnds
Tcp == ReadFalseVal("tcp") \/ Exchange("tcp")
Main == DisposeAtShutdown \/ ReadFalseVal("main") \/ Exchange("main")

UDPNext ==
  \/ Worker \/ Timer \/ OnConnected \/ Tcp \/ OnShutdown \/ Main
  \/ \E c \in Conns : Break(c)

UDPSpec == UDPInit /\ [][UDPNext]_udpVars

\* The worker loops, and gets the lock sooner or later when it wants it; the timer
\* calls OnSendPackage again and again; a shutdown, once begun, goes on.  Nothing
\* makes a TCP connection or begins a shutdown.
FairSpec ==
  /\ UDPSpec
  /\ WF_udpVars(Worker) /\ SF_udpVars(GetConnection("worker")) /\ SF_udpVars(LastDispose)
  /\ WF_udpVars(Timer) /\ WF_udpVars(Tcp)
  /\ WF_udpVars(Main) /\ WF_udpVars(shutdownPending /\ OnShutdown) /\ WF_udpVars(TimerEnds)
-----------------------------------------------------------------------------
(* Properties.                                                             *)

\* The types, and who may hold the lock.
UDPTypeOK ==
  /\ udpPort \in 0 .. MaxPorts /\ lock \in {Nobody} \cup Threads
  /\ conns \in 0 .. MaxConns /\ remoteConn \in 0 .. conns
  /\ disposed \subseteq 1 .. conns /\ broken \subseteq (1 .. conns) \ disposed
  /\ falseVal \in BOOLEAN
  /\ at \in [Threads -> {"idle", "loop", "get", "create", "use", "dispose", "exchange", "end",
                        "done"}]
  /\ conn \in [Threads -> 0 .. conns]
  /\ expected \in [Threads -> BOOLEAN]
  /\ shutdownPending \in BOOLEAN /\ shutdowns \in 0 .. 2 /\ left \in BOOLEAN
  /\ lock # Nobody => at[lock] \in {"dispose", "exchange", "create"}

\* At most one socket is open at a time, and it is the one the transport uses:
\* whatever thread finds the connection disposed of, replaces it or fails on it,
\* none is forgotten open (UDPTransport.cpp:82-160, UDPConnection.cpp:20-24).
NoSocketLeaks ==
  \A c \in 1 .. conns : c \notin disposed => c = remoteConn

\* A connection that no longer works is disposed of as long as the transport runs,
\* even though a Dispose may be spent on setting falseVal right (UDPTransport.cpp:
\* 188-199, 286-296).
BrokenIsDisposed ==
  \A c \in Conns : c \in broken ~> c \notin broken \/ at["worker"] = "done"

\* OnShutdown "must be threadsafe and notify Worker to stop" (WorkerBase.h:16):
\* whatever connections are made and disposed of meanwhile, the worker ends.
ShutdownCompletes == shutdownPending ~> at["worker"] = "done"

\* Not so: each descriptor is closed once.  A Dispose that finds falseVal set on a
\* connection disposed of before closes the number a second time.
ClosedOnce ==
  \A t \in Threads : ~ (at[t] = "exchange" /\ expected[t] /\ conn[t] \in disposed)
=============================================================================
