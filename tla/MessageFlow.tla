---------------------------- MODULE MessageFlow ----------------------------
(***************************************************************************)
(* How the threads of the client call each other: a message is a call, in  *)
(* the sender's thread, of every subscriber that is ready for it           *)
(* (MessageBroker.cpp), so that handlers nest and each takes its own mutex *)
(* while those of the callers are held.                                    *)
(*                                                                         *)
(* A thread is a stack of steps still to do.  A call is replaced by one of *)
(* the ways through the function, which differ in mutexes taken, messages  *)
(* sent and functions called.  A mutex stands on the stack with what is    *)
(* done under it, as in the scope of a guard.  What the steps do to data   *)
(* is in the other modules.                                                *)
(*                                                                         *)
(* The debug build keeps, per thread, the senders whose messages are being *)
(* handled, and drops a message of one of them as a recursion; the release *)
(* build delivers everything.  This is the debug build; GuardIsExact       *)
(* makes it do what the release build does.                                *)
(***************************************************************************)
EXTENDS Integers, Sequences, FiniteSets

CONSTANTS PortCount,    \* config.GetPortCount(), ports from 1
          UDPEnabled    \* config.GetUDPEnabled()

ASSUME FlowAssumption == PortCount \in Nat /\ UDPEnabled \in BOOLEAN

PortIds == 1 .. PortCount
None == 0

\* A thread, and the object that runs it and sends in its name.
Timer       == <<"Timer", None>>
TCP         == <<"TCPTransport", None>>
UDP         == <<"UDPTransport", None>>
Listener(p) == <<"Listener", p>>
WorkerOf(p) == <<"PortWorker", p>>
MainThread  == <<"main", None>>

\* Objects without a thread.
DataProcessor   == <<"DataProcessor", None>>
ShutdownHandler == <<"ShutdownHandler", None>>

PortListeners == {Listener(p) : p \in PortIds}
PortWorkers   == {WorkerOf(p) : p \in PortIds}
Background    == {Timer, TCP, UDP} \cup PortListeners \cup PortWorkers
AllThreads    == Background \cup {MainThread}

PollLock      == <<"pollLock", None>>
PushLock      == <<"pushLock", None>>
TCPLock       == <<"TCPTransport::remoteConnLock", None>>
UDPLock       == <<"UDPTransport::remoteConnLock", None>>
ClientLock(p) == <<"clientLock", p>>
RingLock(p)   == <<"ringBuffLock", p>>
ClientLocks   == {ClientLock(p) : p \in PortIds}
RingLocks     == {RingLock(p) : p \in PortIds}
Locks == {PollLock, PushLock, TCPLock, UDPLock} \cup ClientLocks \cup RingLocks

VARIABLES
  todo,        \* todo[t], the steps thread t has before it
  owner,       \* owner[l], the thread that holds mutex l
  callers,     \* the threads that have an entry in callers, and
  senders,     \* senders[t], the set that entry points to
  toldToStop,  \* threads whose shutdownPending is set
  ended,       \* threads that have returned
  stopping,    \* main has left its loop
  dropped      \* history: a message was taken for a recursion

flowVars == <<todo, owner, callers, senders, toldToStop, ended, stopping, dropped>>

Nobody == <<"nobody", None>>

FlowInit ==
  /\ todo = [t \in AllThreads |-> <<>>] /\ owner = [l \in Locks |-> Nobody]
  /\ callers = {} /\ senders = [t \in AllThreads |-> {}]
  /\ toldToStop = {} /\ ended = {} /\ stopping = FALSE /\ dropped = FALSE
-----------------------------------------------------------------------------
(* Steps, and programs made of them.                                       *)

Step(op, on)      == [op |-> op, on |-> on]
Lock(l, section)  == [op |-> "lock", on |-> l, section |-> section]
Send(from, type, arg) ==
  [op |-> "send", on |-> from, type |-> type, arg |-> arg]
Call(object, function, arg) ==
  [op |-> "call", on |-> object, function |-> function, arg |-> arg]

\* The programs that do one of S under mutex l.
Locked(l, S) == {<<Lock(l, s)>> : s \in S}
Nothing      == {<<>>}

\* A function of every PortWorker, in turn.
EachPort(function) == [p \in PortIds |-> Call(WorkerOf(p), function, p)]

\* Faulty: a package that cannot be sent is handed to the other transport.
TCPResend == Locked(TCPLock, Nothing \cup
                             {<<Send(DataProcessor, "SEND_PACKAGE", FALSE)>>})

\* GetConnection, in whatever thread: the connection is there or cannot be
\* made, or no socket can, or a new one is announced to the others.
TCPGetConnection ==
  Locked(TCPLock, Nothing \cup {<<Send(TCP, "SHUTDOWN", None)>>,
                                <<Send(TCP, "CONNECTED", None)>>})

UDPGetConnection ==
  IF ~UDPEnabled THEN Nothing
  ELSE Nothing \cup Locked(UDPLock, Nothing \cup {<<Send(UDP, "SHUTDOWN", None)>>})

\* PortWorker::ProcessTX: not connected or to be opened, or under the mutex.
ProcessTX(p) == Nothing \cup Locked(ClientLock(p), Nothing)

\* Faulty: the receiver holds the buffer's mutex while it looks at the client.
ProcessRXNested(p) == {<<Lock(RingLock(p), <<Lock(ClientLock(p), <<>>)>>)>>}

\* PortWorker::ProcessRX gives up one mutex before it takes the other.
ProcessRX(p) == {<<Lock(ClientLock(p), <<>>)>>,
                 <<Lock(ClientLock(p), <<>>), Lock(RingLock(p), <<>>)>>}

\* PortWorker::OnPortOpen with and without reset on connect.
OnPortOpen(p) ==
  Locked(ClientLock(p), Nothing \cup Locked(RingLock(p), Nothing))

\* DataProcessor::OnPollEvent
OnPollEvent ==
  Locked(PollLock, {Append(EachPort("ProcessTX"),
                           Send(DataProcessor, "SEND_PACKAGE", useTCP)) :
                      useTCP \in IF UDPEnabled THEN BOOLEAN ELSE {TRUE}})

\* DataProcessor::OnIncomingPackageEvent
OnIncomingPackageEvent == Locked(PushLock, {EachPort("ProcessRX")})

\* UDPTransport::OnConnected and OnShutdown, TCPTransport::OnShutdown
OnConnected == Locked(UDPLock, Nothing)

OnShutdown(t) ==
  CASE t = TCP -> <<Step("stop", t), Lock(TCPLock, <<>>)>>
    [] t = UDP -> <<Step("stop", t), Lock(UDPLock, <<>>)>>
    [] OTHER   -> <<Step("stop", t)>>
-----------------------------------------------------------------------------
\* The subscribers that are ready for a message of a type.  The code keeps
\* them in a set ordered by address: here they come in one order.
Subscribers(type) ==
  CASE type = "SHUTDOWN"     -> <<ShutdownHandler>>
    [] type = "SEND_PACKAGE" -> <<TCP, UDP>>
    [] type = "CONNECTED"    -> <<UDP, Timer>> \o [p \in PortIds |-> WorkerOf(p)]
    [] type = "PORT_OPEN"    -> [p \in PortIds |-> WorkerOf(p)]
    [] OTHER                 -> <<DataProcessor>>

\* The calls of OnMessage, one after another.
Handle(m) == [i \in DOMAIN Subscribers(m.type) |->
                Call(Subscribers(m.type)[i], m.type, m.arg)]

\* The ways through OnMessage of s.  Timer and PortWorker only store a flag
\* when they are told of a connection, ShutdownHandler when of a shutdown.
OnMessage(s, type, arg) ==
  CASE type = "SEND_PACKAGE" /\ s = TCP /\ arg  -> TCPGetConnection
    [] type = "SEND_PACKAGE" /\ s = UDP /\ ~arg -> UDPGetConnection
    [] type = "CONNECTED" /\ s = UDP            -> OnConnected
    [] type = "PORT_OPEN" /\ s = WorkerOf(arg)  -> OnPortOpen(arg)
    [] type = "TIMER"                           -> OnPollEvent
    [] type = "INCOMING_PACKAGE"                -> OnIncomingPackageEvent
    [] OTHER                                    -> Nothing

\* The ways through what is called.
Ways(c) ==
  CASE c.function = "ProcessTX"       -> ProcessTX(c.arg)
    [] c.function = "ProcessRX"       -> ProcessRX(c.arg)
    [] c.function = "RequestShutdown" -> {OnShutdown(c.on)}
    [] c.function = "Shutdown"        -> {Append(OnShutdown(c.on), Step("join", c.on))}
    [] OTHER                          -> OnMessage(c.on, c.function, c.arg)

\* A part of a round of a thread's loop: a transport looks for its connection,
\* or has received a package on the one it has; a worker takes one mutex or
\* the other, in turn, and never both.
Round(t) ==
  CASE t = Timer -> {<<Send(Timer, "TIMER", None)>>}
    [] t = TCP   -> TCPGetConnection \cup {<<Send(TCP, "INCOMING_PACKAGE", None)>>}
    [] t = UDP   -> IF UDPEnabled
                    THEN UDPGetConnection
                         \cup {<<Send(UDP, "INCOMING_PACKAGE", None)>>}
                    ELSE {<<Step("return", UDP)>>}
    [] t \in PortListeners -> {<<Send(t, "PORT_OPEN", t[2])>>,
                               <<Send(t, "SHUTDOWN", None), Step("return", t)>>}
    [] t \in PortWorkers   -> {<<Lock(l, <<>>)>> :
                                 l \in {RingLock(t[2]), ClientLock(t[2])}}

\* What a thread does when it finds shutdownPending: the UDP transport
\* disposes of its connection, a listener may fail in closing what it opened.
LastRound(t) ==
  CASE t = UDP /\ UDPEnabled  -> {<<Lock(UDPLock, <<>>), Step("return", UDP)>>}
    [] t \in PortListeners    -> {<<Step("return", t)>>,
                                  <<Send(t, "SHUTDOWN", None), Step("return", t)>>}
    [] OTHER                  -> {<<Step("return", t)>>}

\* The two loops at the end of main().
ShutdownOrder == [p \in PortIds |-> Listener(p)] \o <<Timer, UDP, TCP>>
                 \o [p \in PortIds |-> WorkerOf(p)]

InOrder(function) == [i \in DOMAIN ShutdownOrder |->
                        Call(ShutdownOrder[i], function, None)]

ShutdownAll == InOrder("RequestShutdown") \o InOrder("Shutdown")
-----------------------------------------------------------------------------
Rest(t) == Tail(todo[t])
Before(t, op) == todo[t] # <<>> /\ Head(todo[t]).op = op
Object(t) == Head(todo[t]).on
GoOn(t, steps) == todo' = [todo EXCEPT ![t] = steps \o Rest(t)]
Done(t) == GoOn(t, <<>>)

(* Calling, sending and coming back from it touch nothing of other threads, *)
(* and to release a mutex stops no one: a thread does these at once.  Who   *)
(* waits for whom is the same as if others came between.                    *)
AllAtRest ==
  \A t \in AllThreads :
    todo[t] # <<>> => Head(todo[t]).op \notin {"call", "send", "sent", "unlock"}

Begin(t) ==
  /\ t # MainThread /\ t \notin ended /\ todo[t] = <<>>
  /\ \E s \in IF t \in toldToStop THEN LastRound(t) ELSE Round(t) :
       todo' = [todo EXCEPT ![t] = s]
  /\ UNCHANGED <<owner, callers, senders, toldToStop, ended, stopping, dropped>>

LeaveLoop ==
  /\ ~stopping
  /\ stopping' = TRUE
  /\ todo' = [todo EXCEPT ![MainThread] = ShutdownAll]
  /\ UNCHANGED <<owner, callers, senders, toldToStop, ended, dropped>>

CallFunction(t) ==
  /\ Before(t, "call")
  /\ \E s \in Ways(Head(todo[t])) : GoOn(t, s)
  /\ UNCHANGED <<owner, callers, senders, toldToStop, ended, stopping, dropped>>

\* Faulty: the mutex is taken without a guard, and a way out forgets it.
AcquireUnguarded(t) ==
  /\ Before(t, "lock") /\ owner[Object(t)] = Nobody
  /\ owner' = [owner EXCEPT ![Object(t)] = t]
  /\ GoOn(t, Head(todo[t]).section)
  /\ UNCHANGED <<callers, senders, toldToStop, ended, stopping, dropped>>

\* The scope of a guard: what is done under the mutex, and its release.
Acquire(t) ==
  /\ Before(t, "lock") /\ owner[Object(t)] = Nobody
  /\ owner' = [owner EXCEPT ![Object(t)] = t]
  /\ GoOn(t, Append(Head(todo[t]).section, Step("unlock", Object(t))))
  /\ UNCHANGED <<callers, senders, toldToStop, ended, stopping, dropped>>

Release(t) ==
  /\ Before(t, "unlock")
  /\ owner' = [owner EXCEPT ![Object(t)] = Nobody]
  /\ Done(t)
  /\ UNCHANGED <<callers, senders, toldToStop, ended, stopping, dropped>>

\* SendMessage from its beginning to the first subscriber.  A sender that is
\* found among those whose messages the thread is handling is not heard.
SendMessage(t) ==
  /\ Before(t, "send")
  /\ IF t \in callers /\ Object(t) \in senders[t]
     THEN /\ dropped' = TRUE
          /\ Done(t)
          /\ UNCHANGED <<callers, senders>>
     ELSE /\ callers' = callers \cup {t}
          /\ senders' = [senders EXCEPT ![t] =
                           (IF t \in callers THEN @ ELSE {}) \cup {Object(t)}]
          /\ GoOn(t, Append(Handle(Head(todo[t])), Step("sent", Object(t))))
          /\ UNCHANGED dropped
  /\ UNCHANGED <<owner, toldToStop, ended, stopping>>

\* The end of SendMessage; the last sender takes the entry away.
Sent(t) ==
  /\ Before(t, "sent")
  /\ senders' = [senders EXCEPT ![t] = @ \ {Object(t)}]
  /\ callers' = IF senders'[t] = {} THEN callers \ {t} ELSE callers
  /\ Done(t)
  /\ UNCHANGED <<owner, toldToStop, ended, stopping, dropped>>

Tell(t) ==
  /\ Before(t, "stop")
  /\ toldToStop' = toldToStop \cup {Object(t)}
  /\ Done(t)
  /\ UNCHANGED <<owner, callers, senders, ended, stopping, dropped>>

Return(t) ==
  /\ Before(t, "return")
  /\ ended' = ended \cup {t}
  /\ Done(t)
  /\ UNCHANGED <<owner, callers, senders, toldToStop, stopping, dropped>>

Join(t) ==
  /\ Before(t, "join") /\ Object(t) \in ended
  /\ Done(t)
  /\ UNCHANGED <<owner, callers, senders, toldToStop, ended, stopping, dropped>>

Alone(t) == CallFunction(t) \/ Release(t) \/ SendMessage(t) \/ Sent(t)

AmongOthers(t) == Begin(t) \/ Acquire(t) \/ Tell(t) \/ Return(t) \/ Join(t)

FlowNext ==
  \/ \E t \in AllThreads : Alone(t)
  \/ AllAtRest /\ (LeaveLoop \/ \E t \in AllThreads : AmongOthers(t))

FlowSpec == FlowInit /\ [][FlowNext]_flowVars
-----------------------------------------------------------------------------
(* Properties.                                                             *)

\* What the frames of SendMessage on a thread's stack are for.
Sending(t) == {todo[t][i].on : i \in {j \in DOMAIN todo[t] :
                                        todo[t][j].op = "sent"}}

\* A mutex is held by the thread that has still to release it, in whatever
\* handler it took it, and by no other (lock_guard in all of them).
FlowTypeOK ==
  /\ owner \in [Locks -> AllThreads \cup {Nobody}]
  /\ callers \subseteq Background
  /\ senders \in [AllThreads -> SUBSET (Background \cup {DataProcessor})]
  /\ toldToStop \subseteq Background /\ ended \subseteq Background
  /\ stopping \in BOOLEAN /\ dropped \in BOOLEAN
  /\ \A l \in Locks, t \in AllThreads :
       owner[l] = t <=> \E i \in DOMAIN todo[t] : todo[t][i] = Step("unlock", l)

\* The thread that t cannot go on without, if any.
WaitsFor(t) ==
  CASE Before(t, "lock") -> owner[Object(t)]
    [] Before(t, "join") -> Object(t)
    [] OTHER             -> Nobody

\* The mutexes that handlers take inside each other's calls, and the joins
\* of the shutdown, never close a circle: poll before connection before
\* connection, poll before client before ring, push before client and ring,
\* in four kinds of threads (DataProcessor.cpp:32, TCPTransport.cpp:153,
\* PortWorker.cpp:43).
NoCircularWait ==
  LET waiting == {t \in AllThreads : WaitsFor(t) # Nobody}
  IN \A S \in (SUBSET waiting) \ {{}} : \E t \in S : WaitsFor(t) \notin S

\* The recursion guard of the debug build never takes a message that the
\* release build delivers for a recursion: no object sends, in one thread,
\* from under a message of its own (MessageBroker.cpp:91).  And a thread has an
\* entry in callers, with exactly the senders whose calls it is in, as long as
\* it is in such a call: the pointer there is to a set on its stack
\* (MessageBroker.cpp:84, :106).
GuardIsExact ==
  /\ ~dropped
  /\ \A t \in Background : /\ t \in callers <=> Sending(t) # {}
                           /\ t \in callers => senders[t] = Sending(t)
=============================================================================
