------------------------ MODULE ClientThreadsProofs ------------------------
(***************************************************************************)
(* Theorems about the threads of the client, for every number of ports,    *)
(* listeners and terminals.                                                *)
(*                                                                         *)
(* Their life (Lifecycle): the process ends only for a cause, and when it  *)
(* ends in good order it leaves no thread and no link behind.              *)
(*                                                                         *)
(* Their calls (MessageFlow): no circle of threads waits for each other,   *)
(* and the recursion guard of the debug build drops nothing.  Mutexes have *)
(* ranks and senders have ranks; what is on a stack is of a kind that      *)
(* takes and sends upwards only (StacksOK), whatever way is taken through  *)
(* the functions (WaysKeep, HandleKeeps), and the holders of mutexes and   *)
(* the entries of callers are read off the stacks (FlowParts).             *)
(***************************************************************************)
EXTENDS Lifecycle, MessageFlow, TLAPS

\* Both loops go through groups of workers.
LEMMA Groups ==
  /\ Len(StartOrder) = 6 /\ Len(StopOrder) = 6
  /\ \A i \in 1 .. 6 : StartOrder[i] \subseteq Workers /\ StopOrder[i] \subseteq Workers
<1>1. \A i \in 1 .. 6 : i = 1 \/ i = 2 \/ i = 3 \/ i = 4 \/ i = 5 \/ i = 6
  OBVIOUS
<1>2. Len(StartOrder) = 6 /\ Len(StopOrder) = 6
  BY DEF StartOrder, StopOrder
<1>3. ASSUME NEW i \in 1 .. 6 PROVE StartOrder[i] \subseteq Workers
  BY <1>1 DEF StartOrder, Workers, Transports
<1>4. ASSUME NEW i \in 1 .. 6 PROVE StopOrder[i] \subseteq Workers
  BY <1>1 DEF StopOrder, Workers, Transports
<1>5. QED BY <1>2, <1>3, <1>4
-----------------------------------------------------------------------------
(* Types.                                                                  *)

LEMMA InitType == Init => TypeOK
<1> SUFFICES ASSUME Init PROVE TypeOK
  OBVIOUS
<1>1. 1 \in 1 .. 6 /\ 0 \in 0 .. MaxNudges
  BY LifecycleAssumption
<1>2. left \subseteq Workers
  BY <1>1, Groups DEF Init
<1>3. thread \in [Workers -> {"none", "opening", "running", "done"}]
  BY DEF Init
<1>4. report \in [Threads -> {"no", "exchange", "kill"}]
  BY DEF Init
<1>5. QED BY <1>1, <1>2, <1>3, <1>4 DEF Init, TypeOK

LEMMA NextType == TypeOK /\ [Next]_vars => TypeOK'
<1> SUFFICES ASSUME TypeOK, [Next]_vars PROVE TypeOK'
  OBVIOUS
<1> USE LifecycleAssumption
<1>1. ASSUME NEW t \in Threads, Report(t) PROVE TypeOK'
  BY <1>1, ZenonT(60) DEF Report, Exchange, Kill, TypeOK, Running, mainVars, workVars, history
<1>2. ASSUME NEW w \in Workers, Worker(w) PROVE TypeOK'
  <2> USE DEF TypeOK, At, Advance, Threads, HandleError, mainVars, signalVars, workVars,
             history
  <2>1. CASE Open(w)
    <3>1. thread' \in [Workers -> {"none", "opening", "running", "done"}]
      BY <2>1 DEF Open
    <3>2. \A v \in Workers : thread[v] # "none" => thread'[v] # "none"
      BY <2>1 DEF Open
    <3>3. link' \in [Terminals -> {"absent", "present"}]
      BY <2>1 DEF Open
    <3>4. QED BY <2>1, <3>1, <3>2, <3>3 DEF Open
  <2>2. CASE OpenFails(w)
    BY <2>2 DEF OpenFails
  <2>3. CASE Fail(w)
    BY <2>3 DEF Fail
  <2>4. CASE FailAndGoOn(w)
    BY <2>4 DEF FailAndGoOn
  <2>5. CASE Finish(w)
    <3>1. thread' \in [Workers -> {"none", "opening", "running", "done"}]
      BY <2>5 DEF Finish
    <3>2. \A v \in Workers : thread[v] # "none" => thread'[v] # "none"
      BY <2>5 DEF Finish
    <3>3. link' \in [Terminals -> {"absent", "present"}]
      BY <2>5 DEF Finish
    <3>4. QED BY <2>5, <3>1, <3>2, <3>3 DEF Finish
  <2>6. CASE FinishFails(w)
    BY <2>6 DEF FinishFails
  <2>7. QED BY <1>2, <2>1, <2>2, <2>3, <2>4, <2>5, <2>6 DEF Worker
<1>3. ASSUME Startups PROVE TypeOK'
  <2> USE DEF TypeOK, signalVars, workVars, history
  <2>1. CASE NextGroup("startup", StartOrder, "wait", StopOrder)
    BY <2>1, Groups DEF NextGroup
  <2>2. ASSUME NEW w \in Workers, Startup(w) PROVE TypeOK'
    BY <2>2 DEF Startup, Advance
  <2>3. ASSUME NEW w \in Workers, StartupFails(w) PROVE TypeOK'
    BY <2>3 DEF StartupFails, HandleError, Threads
  <2>4. QED BY <1>3, <2>1, <2>2, <2>3 DEF Startups
<1>4. ASSUME Requests PROVE TypeOK'
  <2> USE DEF TypeOK, signalVars, workVars, history
  <2>1. CASE NextGroup("request", StopOrder, "join", StopOrder)
    BY <2>1, Groups DEF NextGroup
  <2>2. ASSUME NEW w \in Workers, RequestShutdown(w) PROVE TypeOK'
    BY <2>2 DEF RequestShutdown
  <2>3. QED BY <1>4, <2>1, <2>2 DEF Requests
<1>5. ASSUME Joins PROVE TypeOK'
  <2> USE DEF TypeOK, signalVars, workVars, history
  <2>1. CASE NextGroup("join", StopOrder, "exited", StopOrder)
    BY <2>1, Groups DEF NextGroup
  <2>2. ASSUME NEW w \in Workers, Shutdown(w) PROVE TypeOK'
    BY <2>2 DEF Shutdown
  <2>3. QED BY <1>5, <2>1, <2>2 DEF Joins
<1>6. CASE Mask
  <2>1. masked' \in BOOLEAN /\ main' = "startup"
    BY <1>6 DEF Mask
  <2>2. QED BY <1>6, <2>1 DEF Mask, TypeOK, workVars, history
<1>7. CASE Wait
  <2>1. group' \in 1 .. 6 /\ left' \subseteq Workers
    BY <1>7, Groups DEF Wait, TypeOK
  <2>2. main' \in {"request", "check"} /\ signals' \subseteq signals
    BY <1>7 DEF Wait
  <2>3. QED BY <1>7, <2>1, <2>2 DEF Wait, TypeOK, workVars, history
<1>8. CASE Check
  <2>1. group' \in 1 .. 6 /\ left' \subseteq Workers /\ main' \in {"request", "wait"}
    BY <1>8, Groups DEF Check, TypeOK
  <2>2. QED BY <1>8, <2>1 DEF Check, TypeOK, signalVars, workVars, history
<1>9. ASSUME NEW s \in Signals, Signal(s) PROVE TypeOK'
  <2>1. told' \in BOOLEAN
    BY <1>9 DEF Signal
  <2>2. nudges' \in 0 .. MaxNudges
    BY <1>9 DEF Signal, TypeOK
  <2>3. signals' \subseteq {"TERM", "USR2"} /\ main' \in {main, "killed"}
    BY <1>9 DEF Signal, Signals, TypeOK
  <2>4. QED BY <1>9, <2>1, <2>2, <2>3 DEF Signal, TypeOK, workVars
<1>10. CASE UNCHANGED vars
  BY <1>10 DEF vars, TypeOK, mainVars, signalVars, workVars, history
<1>11. QED
  BY <1>1, <1>2, <1>3, <1>4, <1>5, <1>6, <1>7, <1>8, <1>9, <1>10 DEF Next, Main

\* The variables of the process keep their types, and only a worker that was
\* started is joined or told to end (WorkerBase.cpp:3-31).
THEOREM TypeCorrect == Spec => []TypeOK
<1>1. QED BY InitType, NextType, PTL DEF Spec
-----------------------------------------------------------------------------
(* The end of the process.                                                 *)

\* What stands behind every way to the end: reports, the flag of the handler and
\* a pending TERM have their cause, and no thread can signal before the mask is set.
Causes ==
  /\ ~ masked => /\ main \in {"mask", "killed"}
                 /\ \A w \in Workers : thread[w] = "none"
                 /\ \A t \in Threads : report[t] = "no"
  /\ shutdownRequested => failed # {}
  /\ \A t \in Threads : report[t] # "no" => failed # {}
  /\ "TERM" \in signals => told
  /\ EndsForCause

LEMMA InitCauses == Init => Causes
BY DEF Init, Causes, EndsForCause

LEMMA NextCauses == TypeOK /\ Causes /\ [Next]_vars => Causes'
<1> SUFFICES ASSUME TypeOK, Causes, [Next]_vars PROVE Causes'
  OBVIOUS
<1> USE DEF Causes, EndsForCause, TypeOK
<1>1. ASSUME NEW t \in Threads, Exchange(t) PROVE Causes'
  BY <1>1 DEF Exchange, mainVars, workVars, history, Running
<1>2. ASSUME NEW t \in Threads, Kill(t) PROVE Causes'
  <2>1. masked /\ signals' = signals \cup {"USR2"} /\ main' = main
    BY <1>2 DEF Kill
  <2>2. QED BY <1>2, <2>1 DEF Kill, workVars, history
<1>3. ASSUME NEW w \in Workers, Worker(w) PROVE Causes'
  <2>1. masked
    BY <1>3 DEF Worker, Open, OpenFails, Fail, FailAndGoOn, Finish, FinishFails, At
  <2>2. UNCHANGED <<main, masked, signals, shutdownRequested, told>>
    BY <1>3 DEF Worker, Open, OpenFails, Fail, FailAndGoOn, Finish, FinishFails, HandleError,
                mainVars, signalVars, history
  <2>3. \/ report' = report /\ failed' = failed
        \/ failed' # {}
    BY <1>3 DEF Worker, Open, OpenFails, Fail, FailAndGoOn, Finish, FinishFails, HandleError,
                history
  <2>4. QED BY <2>1, <2>2, <2>3
<1>4. ASSUME Startups PROVE Causes'
  <2>1. masked /\ masked' /\ UNCHANGED <<signals, shutdownRequested, told>>
    BY <1>4 DEF Startups, NextGroup, Startup, StartupFails, HandleError, signalVars, history
  <2>2. main' \in {"startup", "wait"}
    BY <1>4 DEF Startups, NextGroup, Startup, StartupFails, mainVars
  <2>3. \/ report' = report /\ failed' = failed
        \/ failed' # {}
    BY <1>4 DEF Startups, NextGroup, Startup, StartupFails, HandleError, history
  <2>4. QED BY <2>1, <2>2, <2>3
<1>5. ASSUME Requests \/ Joins PROVE Causes'
  <2>1. main \in {"request", "join"} /\ main' \in {"request", "join", "exited"}
    BY <1>5 DEF Requests, Joins, NextGroup, RequestShutdown, Shutdown
  <2>2. UNCHANGED <<masked, signals, shutdownRequested, report, failed, told>>
    BY <1>5 DEF Requests, Joins, NextGroup, RequestShutdown, Shutdown, signalVars, history
  <2>3. QED BY <2>1, <2>2
<1>6. CASE Mask
  BY <1>6 DEF Mask, workVars, history
<1>7. CASE Wait
  BY <1>7 DEF Wait, workVars, history
<1>8. CASE Check
  BY <1>8 DEF Check, signalVars, workVars, history
<1>9. ASSUME NEW s \in Signals, Signal(s) PROVE Causes'
  <2>1. told => told'
    BY <1>9 DEF Signal
  <2>2. main' = main \/ main' = "killed"
    BY <1>9 DEF Signal
  <2>3. main' = "killed" => told'
    BY <1>9 DEF Signal, Signals, Running
  <2>4. "TERM" \in signals' => told'
    BY <1>9, <2>1 DEF Signal, Signals
  <2>5. UNCHANGED <<masked, shutdownRequested, thread, report, failed>>
    BY <1>9 DEF Signal, workVars
  <2>6. QED BY <2>1, <2>2, <2>3, <2>4, <2>5
<1>10. CASE UNCHANGED vars
  BY <1>10 DEF vars, mainVars, signalVars, workVars, history
<1>11. QED
  BY <1>1, <1>2, <1>3, <1>4, <1>5, <1>6, <1>7, <1>8, <1>9, <1>10 DEF Next, Main, Report

\* The process ends only because it was told to or because something failed, for
\* every set of workers (ShutdownHandler.cpp:27-34, Main.cpp:298-371).
THEOREM EndsOnlyForCause == Spec => []EndsForCause
<1>1. Init => TypeOK /\ Causes
  BY InitType, InitCauses
<1>2. TypeOK /\ Causes /\ [Next]_vars => TypeOK' /\ Causes'
  BY NextType, NextCauses
<1>3. Causes => EndsForCause
  BY DEF Causes
<1>4. QED BY <1>1, <1>2, <1>3, PTL DEF Spec
-----------------------------------------------------------------------------
(* What the process leaves behind.                                         *)

Ended(w) == thread[w] \in {"none", "done"} /\ report[w] = "no"

\* The workers the loop of Shutdown() has done.
Joined ==
  {w \in Workers : \E i \in 1 .. group : w \in StopOrder[i] /\ (i < group \/ w \notin left)}

\* A worker that is not started, or no more, has no thread that runs, and a
\* terminal that ended took its link away unless it failed.
Leavings ==
  /\ \A w \in Workers \ started : Ended(w)
  /\ main = "join" => Joined \cap started = {}
  /\ main = "exited" => started = {}
  /\ \A t \in Terminals : thread[t] = "done" /\ link[t] = "present" => t \in failed

LEMMA EachInAGroup == \A w \in Workers : \E i \in 1 .. 6 : w \in StopOrder[i]
<1>1. 1 \in 1 .. 6 /\ 2 \in 1 .. 6 /\ 3 \in 1 .. 6 /\ 4 \in 1 .. 6 /\ 5 \in 1 .. 6 /\ 6 \in 1 .. 6
  OBVIOUS
<1>2. /\ StopOrder[1] = Listeners /\ StopOrder[2] = Terminals /\ StopOrder[3] = {"timer"}
      /\ StopOrder[4] = {"udp"} /\ StopOrder[5] = {"tcp"} /\ StopOrder[6] = Ports
  BY DEF StopOrder
<1>3. QED BY <1>1, <1>2 DEF Workers, Transports

LEMMA InitLeavings == Init => Leavings
<1> SUFFICES ASSUME Init PROVE Leavings
  OBVIOUS
<1>1. \A w \in Workers : thread[w] = "none" /\ report[w] = "no"
  BY DEF Init, Threads
<1>2. main = "mask" /\ Terminals \subseteq Workers
  BY DEF Init, Workers
<1>3. QED BY <1>1, <1>2 DEF Leavings, Ended

\* Everything but the loop of Shutdown(): the joined stay joined.
LEMMA StillJoined ==
  ASSUME TypeOK, Leavings, started' = started,
         \/ UNCHANGED mainVars
         \/ main' \notin {"join", "exited"}
  PROVE  /\ main' = "join" => Joined' \cap started' = {}
         /\ main' = "exited" => started' = {}
BY DEF Leavings, Joined, mainVars

LEMMA NextLeavings == TypeOK /\ Leavings /\ [Next]_vars => Leavings'
<1> SUFFICES ASSUME TypeOK, Leavings, [Next]_vars PROVE Leavings'
  OBVIOUS
<1> USE LifecycleAssumption
<1>1. ASSUME NEW t \in Threads, Report(t) PROVE Leavings'
  <2>1. report[t] # "no" /\ (report' = [report EXCEPT ![t] = report'[t]])
    BY <1>1 DEF Report, Exchange, Kill, TypeOK
  <2>2. UNCHANGED workVars /\ failed' = failed /\ group' = group /\ left' = left
    BY <1>1 DEF Report, Exchange, Kill, mainVars, history
  <2>3. main' \in {main, "killed"}
    BY <1>1 DEF Report, Exchange, Kill, mainVars
  <2>4. \A w \in Workers \ started : Ended(w)'
    BY <2>1, <2>2 DEF Leavings, Ended, workVars, Threads, TypeOK
  <2>5. QED BY <2>2, <2>3, <2>4 DEF Leavings, workVars, Joined
<1>2. ASSUME NEW w \in Workers, Worker(w) PROVE Leavings'
  <2>1. At(w, "opening") \/ At(w, "running")
    BY <1>2 DEF Worker, Open, OpenFails, Fail, FailAndGoOn, Finish, FinishFails
  <2>2. w \in started
    BY <2>1 DEF At, Leavings, Ended
  <2>3. UNCHANGED <<mainVars, started>>
    BY <1>2 DEF Worker, Open, OpenFails, Fail, FailAndGoOn, Finish, FinishFails, signalVars,
                workVars
  <2>4. \A v \in Workers : v # w => thread'[v] = thread[v] /\ report'[v] = report[v]
    BY <1>2 DEF Worker, Open, OpenFails, Fail, FailAndGoOn, Finish, FinishFails, Advance,
                HandleError, workVars, TypeOK, Threads
  <2>5. \A t \in Terminals : t # w => link'[t] = link[t]
    BY <1>2 DEF Worker, Open, OpenFails, Fail, FailAndGoOn, Finish, FinishFails, workVars, TypeOK
  <2>6. failed \subseteq failed'
    BY <1>2 DEF Worker, Open, OpenFails, Fail, FailAndGoOn, Finish, FinishFails, HandleError,
                history
  <2>7. w \in Terminals /\ thread'[w] = "done" /\ link'[w] = "present" => w \in failed'
    <3> SUFFICES ASSUME w \in Terminals, thread'[w] = "done", link'[w] = "present"
                 PROVE  w \in failed'
      OBVIOUS
    <3>1. ~ Open(w)
      BY DEF Open, Advance, TypeOK, Transports
    <3>2. ~ Finish(w)
      BY DEF Finish
    <3>3. ~ FailAndGoOn(w)
      BY DEF FailAndGoOn, Sturdy
    <3>4. QED BY <1>2, <3>1, <3>2, <3>3 DEF Worker, OpenFails, Fail, FinishFails, HandleError
  <2>8. \A v \in Workers \ started' : Ended(v)'
    BY <2>2, <2>3, <2>4 DEF Leavings, Ended
  <2>9. \A t \in Terminals : thread'[t] = "done" /\ link'[t] = "present" => t \in failed'
    BY <2>4, <2>5, <2>6, <2>7 DEF Leavings, Workers
  <2>10. QED BY <2>3, <2>8, <2>9, StillJoined DEF Leavings
<1>3. ASSUME Startups PROVE Leavings'
  <2>1. main' \in {"startup", "wait"} /\ link' = link /\ failed \subseteq failed'
    BY <1>3 DEF Startups, NextGroup, Startup, StartupFails, HandleError, workVars, history
  <2>2. CASE NextGroup("startup", StartOrder, "wait", StopOrder)
    BY <2>1, <2>2 DEF NextGroup, Leavings, Ended, workVars, history
  <2>3. ASSUME NEW w \in Workers, Startup(w) PROVE Leavings'
    <3>1. started' = started \cup {w} /\ thread' = [thread EXCEPT ![w] = "opening"]
      BY <2>3 DEF Startup, Advance
    <3>2. report' = report /\ main' = "startup" /\ failed' = failed
      BY <2>3 DEF Startup, history
    <3>3. QED BY <2>1, <3>1, <3>2 DEF Leavings, Ended, TypeOK, Workers
  <2>4. ASSUME NEW w \in Workers, StartupFails(w) PROVE Leavings'
    <3>1. UNCHANGED <<started, thread>> /\ main' = "startup"
      BY <2>4 DEF StartupFails, workVars
    <3>2. \A v \in Workers : report'[v] = report[v]
      BY <2>4 DEF StartupFails, HandleError, TypeOK, Threads
    <3>3. QED BY <2>1, <3>1, <3>2 DEF Leavings, Ended
  <2>5. QED BY <1>3, <2>2, <2>3, <2>4 DEF Startups
<1>4. ASSUME Requests PROVE Leavings'
  <2>1. UNCHANGED <<started, thread, link, report, failed>>
    BY <1>4 DEF Requests, NextGroup, RequestShutdown, workVars, history
  <2>2. main' = "request" \/ (main' = "join" /\ group' = 1 /\ left' = StopOrder[1])
    BY <1>4, Groups DEF Requests, NextGroup, RequestShutdown
  <2>3. main' = "join" => Joined' = {}
    BY <2>2 DEF Joined
  <2>4. QED BY <2>1, <2>2, <2>3 DEF Leavings, Ended
<1>5. ASSUME Joins PROVE Leavings'
  <2>1. UNCHANGED <<thread, link, report, failed>> /\ main = "join"
    BY <1>5 DEF Joins, NextGroup, Shutdown, workVars, history
  <2>2. CASE NextGroup("join", StopOrder, "exited", StopOrder)
    <3>1. left = {} /\ started' = started
      BY <2>2 DEF NextGroup, workVars
    <3>2. CASE group < 6
      <4>1. group' = group + 1 /\ left' = StopOrder[group + 1] /\ main' = "join"
        BY <2>1, <2>2, <3>2, Groups DEF NextGroup
      <4>2. Joined' \subseteq Joined
        <5>1. \A i \in 1 .. group' : i \in 1 .. group \/ (i = group' /\ ~ i < group')
          BY <4>1 DEF TypeOK
        <5>2. QED BY <3>1, <4>1, <5>1 DEF Joined
      <4>3. QED BY <2>1, <3>1, <4>1, <4>2 DEF Leavings, Ended
    <3>3. CASE ~ group < 6
      <4>1. group = 6 /\ main' = "exited"
        BY <2>2, <3>3, Groups DEF NextGroup, TypeOK
      <4>2. Workers \subseteq Joined
        BY <3>1, <4>1, EachInAGroup DEF Joined
      <4>3. started = {}
        BY <2>1, <4>2 DEF Leavings, TypeOK
      <4>4. QED BY <2>1, <3>1, <4>1, <4>3 DEF Leavings, Ended
    <3>4. QED BY <3>2, <3>3
  <2>3. ASSUME NEW w \in Workers, Shutdown(w) PROVE Leavings'
    <3>1. /\ main' = "join" /\ group' = group /\ left' = left \ {w}
          /\ started' = started \ {w}
          /\ w \in started => Ended(w)
      BY <2>1, <2>3 DEF Shutdown, Ended
    <3>2. Joined' \subseteq Joined \cup {w}
      BY <3>1 DEF Joined
    <3>3. Joined' \cap started' = {}
      <4>1. Joined \cap started = {}
        BY <2>1 DEF Leavings
      <4>2. QED BY <3>1, <3>2, <4>1
    <3>4. \A v \in Workers \ started' : Ended(v)'
      BY <2>1, <3>1 DEF Leavings, Ended
    <3>5. QED BY <2>1, <3>1, <3>3, <3>4 DEF Leavings
  <2>4. QED BY <1>5, <2>2, <2>3 DEF Joins
<1>6. ASSUME Mask \/ Wait \/ Check PROVE Leavings'
  <2>1. UNCHANGED <<workVars, report, failed>> /\ main' \notin {"join", "exited"}
    BY <1>6 DEF Mask, Wait, Check, history
  <2>2. QED BY <2>1 DEF Leavings, Ended, workVars
<1>7. ASSUME NEW s \in Signals, Signal(s) PROVE Leavings'
  <2>1. UNCHANGED <<workVars, report, failed, group, left>> /\ main' \in {main, "killed"}
    BY <1>7 DEF Signal
  <2>2. QED BY <2>1 DEF Leavings, Ended, workVars, Joined
<1>8. CASE UNCHANGED vars
  BY <1>8 DEF vars, mainVars, signalVars, workVars, history, Leavings, Ended, Joined
<1>9. QED
  BY <1>1, <1>2, <1>3, <1>4, <1>5, <1>6, <1>7, <1>8 DEF Next, Main

\* When main() returns, every thread has ended, and the only links left are those
\* of terminals that failed or were never started (Main.cpp:350-373,
\* WorkerBase.cpp:13-22).
THEOREM LeavesNothingBehind == Spec => []NothingLeftBehind
<1>1. Init => TypeOK /\ Leavings
  BY InitType, InitLeavings
<1>2. TypeOK /\ Leavings /\ [Next]_vars => TypeOK' /\ Leavings'
  BY NextType, NextLeavings
<1>3. TypeOK /\ Leavings => NothingLeftBehind
  <2> SUFFICES ASSUME TypeOK, Leavings, main = "exited" PROVE NothingLeftBehind
    BY DEF NothingLeftBehind
  <2>1. \A w \in Workers : Ended(w)
    BY DEF Leavings
  <2>2. Terminals \subseteq Workers
    BY DEF Workers
  <2>3. QED BY <2>1, <2>2 DEF Leavings, Ended, NothingLeftBehind
<1>4. QED BY <1>1, <1>2, <1>3, PTL DEF Spec
-----------------------------------------------------------------------------
(* How the threads call each other.                                        *)

\* The order in which mutexes are taken: a thread that holds one takes only
\* mutexes of a higher rank.
Rank(l) ==
  IF l[1] \in {"pollLock", "pushLock"} THEN 1
  ELSE IF l[1] \in {"TCPTransport::remoteConnLock", "clientLock"} THEN 2
  ELSE 3

\* The rank of the first mutex that what is called so may take.
LeastRank(function) ==
  CASE function = "Shutdown" -> 0
    [] function \in {"TIMER", "INCOMING_PACKAGE"} -> 1
    [] function \in {"SEND_PACKAGE", "PORT_OPEN", "ProcessTX", "ProcessRX",
                     "RequestShutdown"} -> 2
    [] function = "CONNECTED" -> 3
    [] OTHER -> 4

\* The same for a step.  To join counts as less than any mutex.
Floor(f) ==
  CASE f.op \in {"lock", "unlock"} -> Rank(f.on)
    [] f.op \in {"send"}           -> LeastRank(f.type)
    [] f.op = "call"               -> LeastRank(f.function)
    [] f.op = "join"               -> 0
    [] OTHER                       -> 4

\* The order in which objects send from under each other's messages.
SenderRank(object) ==
  IF object[1] \in {"Timer", "Listener"} THEN 1
  ELSE IF object[1] = "DataProcessor" THEN 2
  ELSE 3

\* The rank of the first object that may send in a handler.
LeastSender(function) ==
  CASE function = "TIMER" -> 2 [] function = "SEND_PACKAGE" -> 3 [] OTHER -> 4

SectionSender(l) ==
  IF l = PollLock THEN 2 ELSE IF l \in {TCPLock, UDPLock} THEN 3 ELSE 4

SenderFloor(f) ==
  CASE f.op \in {"send", "sent"} -> SenderRank(f.on)
    [] f.op = "call"             -> LeastSender(f.function)
    [] f.op = "lock" /\ f.section # <<>> -> SectionSender(f.on)
    [] OTHER                     -> 4

\* What may stand above g on a stack: nothing that takes a mutex out of order
\* while g's is held, nor sends out of order under g's message.
Above(f, g) ==
  /\ g.op = "unlock" => Floor(f) > Rank(g.on)
  /\ g.op = "sent" => SenderFloor(f) > SenderRank(g.on)

Ordered(q) == \A i, j \in 1 .. Len(q) : i < j => Above(q[i], q[j])

Has(q, f) == \E i \in DOMAIN q : q[i] = f

\* f starts nothing that g would not.
Under(f, g) == Floor(f) >= Floor(g) /\ SenderFloor(f) >= SenderFloor(g)
-----------------------------------------------------------------------------
(* What the stacks are made of.                                            *)

Senders == Background \cup {DataProcessor}
Args    == PortIds \cup {None} \cup BOOLEAN
PortFunctions == {"ProcessTX", "ProcessRX"}
MessageTypes  == {"SHUTDOWN", "SEND_PACKAGE", "CONNECTED", "PORT_OPEN", "TIMER",
                  "INCOMING_PACKAGE"}

\* A handler sends only what is of a higher rank than the message it handles.
Sends ==
  {f \in [op : {"send"}, on : Senders, type : MessageTypes, arg : Args] :
     LeastSender(f.type) > SenderRank(f.on)}

Calls ==
  {f \in [op : {"call"}, on : Senders \cup {ShutdownHandler},
          function : MessageTypes \cup PortFunctions, arg : Args] :
     /\ f.function = "PORT_OPEN" => f.on \in PortWorkers
     /\ f.function \in PortFunctions => f.arg \in PortIds}

BareLocks == [op : {"lock"}, on : Locks, section : {<<>>}]

\* What is done under a mutex takes and sends in order.
Guards ==
  {f \in [op : {"lock"}, on : Locks, section : Seq(Sends \cup Calls \cup BareLocks)] :
     \A i \in 1 .. Len(f.section) : /\ Floor(f.section[i]) > Rank(f.on)
                                    /\ SenderFloor(f.section[i]) >= SenderFloor(f)}

Returns == [op : {"return"}, on : Background]
Begun   == Sends \cup Calls \cup Guards \cup Returns

Unlocks == [op : {"unlock"}, on : Locks]
Sents   == [op : {"sent"}, on : Senders]
WorkFrames == Begun \cup Unlocks \cup Sents

Shutdowns == [op : {"call"}, on : Background,
              function : {"RequestShutdown", "Shutdown"}, arg : {None}]
Stops == [op : {"stop"}, on : Background]
JoinFrames == [op : {"join"}, on : Background]
MainBegun  == Shutdowns \cup Stops \cup JoinFrames \cup BareLocks
MainFrames == MainBegun \cup Unlocks

Frames(t) == IF t = MainThread THEN MainFrames ELSE WorkFrames
AllFrames == WorkFrames \cup MainFrames

StacksOK ==
  /\ todo \in [AllThreads -> Seq(AllFrames)]
  /\ \A t \in AllThreads : todo[t] \in Seq(Frames(t)) /\ Ordered(todo[t])
  /\ ~stopping => todo[MainThread] = <<>>

FlowIInv == FlowTypeOK /\ StacksOK /\ GuardIsExact
-----------------------------------------------------------------------------
LEMMA ThreadKinds ==
  /\ MainThread \notin Background /\ Nobody \notin AllThreads
  /\ DataProcessor \notin AllThreads /\ Background \subseteq AllThreads
  /\ MainThread \in AllThreads
BY DEF MainThread, Background, Nobody, AllThreads, DataProcessor, Timer, TCP, UDP,
       PortListeners, PortWorkers, Listener, WorkerOf, None

LEMMA Floors ==
  ASSUME NEW f
  PROVE  /\ Floor(f) \in 0 .. 4 /\ SenderFloor(f) \in 1 .. 4
         /\ \A l : Rank(l) \in 1 .. 3
         /\ \A x : SenderRank(x) \in 1 .. 3
<1>1. \A l : Rank(l) \in 1 .. 3
  BY DEF Rank
<1>2. \A x : SenderRank(x) \in 1 .. 3
  BY DEF SenderRank
<1>3. \A x : LeastRank(x) \in 0 .. 4
  BY DEF LeastRank
<1>4. \A x : LeastSender(x) \in 1 .. 4
  BY DEF LeastSender
<1>8. \A x : SectionSender(x) \in 2 .. 4
  BY DEF SectionSender
<1>5. Floor(f) \in 0 .. 4
  BY <1>1, <1>3 DEF Floor
<1>6. SenderFloor(f) \in 1 .. 4
  BY <1>2, <1>4, <1>8 DEF SenderFloor
<1>7. QED BY <1>1, <1>2, <1>5, <1>6

\* The kind of a step tells the set it is from.
LEMMA Kinds ==
  ASSUME NEW f \in AllFrames
  PROVE  /\ f.op = "unlock" => f = Step("unlock", f.on) /\ f.on \in Locks
         /\ f.op = "sent" => f = Step("sent", f.on) /\ f.on \in Senders
         /\ f.op = "lock" => f \in Guards \cup BareLocks
         /\ f.op = "send" => f \in Sends
         /\ f.op = "call" => f \in Calls \cup Shutdowns
         /\ f.op = "join" => f \in JoinFrames
         /\ f.op = "stop" => f \in Stops
         /\ f.op = "return" => f \in Returns
BY DEF AllFrames, WorkFrames, MainFrames, Begun, MainBegun, Sends, Calls, BareLocks, Guards, Returns,
       Unlocks, Sents, Shutdowns, Stops, JoinFrames, Step

\* A stack is its first step and the rest of it.
LEMMA HeadAndRest ==
  ASSUME NEW F, NEW q \in Seq(F), q # <<>>
  PROVE  /\ Head(q) \in F /\ Tail(q) \in Seq(F) /\ Len(Tail(q)) = Len(q) - 1
         /\ Len(q) \in Nat \ {0} /\ Head(q) = q[1]
         /\ \A i \in 1 .. Len(Tail(q)) : Tail(q)[i] = q[i + 1]
         /\ \A f : Has(q, f) <=> f = Head(q) \/ Has(Tail(q), f)
<1>1. /\ Head(q) \in F /\ Tail(q) \in Seq(F) /\ Len(Tail(q)) = Len(q) - 1
      /\ Len(q) \in Nat \ {0} /\ Head(q) = q[1]
      /\ \A i \in 1 .. Len(Tail(q)) : Tail(q)[i] = q[i + 1]
  OBVIOUS
<1>2. ASSUME NEW f, Has(q, f) PROVE f = Head(q) \/ Has(Tail(q), f)
  <2>1. PICK i \in 1 .. Len(q) : q[i] = f
    BY <1>2 DEF Has
  <2>2. CASE i = 1
    BY <1>1, <2>1, <2>2
  <2>3. CASE i # 1
    <3>1. i - 1 \in 1 .. Len(Tail(q)) /\ Tail(q)[i - 1] = f
      BY <1>1, <2>1, <2>3
    <3>2. DOMAIN Tail(q) = 1 .. Len(Tail(q))
      BY <1>1
    <3>3. QED BY <3>1, <3>2 DEF Has
  <2>4. QED BY <2>2, <2>3
<1>3. ASSUME NEW f, f = Head(q) \/ Has(Tail(q), f) PROVE Has(q, f)
  <2>1. CASE f = Head(q)
    BY <1>1, <2>1 DEF Has
  <2>2. CASE Has(Tail(q), f)
    <3>1. PICK i \in 1 .. Len(Tail(q)) : Tail(q)[i] = f
      BY <1>1, <2>2 DEF Has
    <3>2. i + 1 \in 1 .. Len(q) /\ q[i + 1] = f
      BY <1>1, <3>1
    <3>3. QED BY <3>2 DEF Has
  <2>3. QED BY <1>3, <2>1, <2>2
<1>4. QED BY <1>1, <1>2, <1>3

LEMMA HasConcat ==
  ASSUME NEW F, NEW s \in Seq(F), NEW r \in Seq(F)
  PROVE  /\ s \o r \in Seq(F) /\ Len(s \o r) = Len(s) + Len(r)
         /\ \A i \in 1 .. Len(s) : (s \o r)[i] = s[i]
         /\ \A i \in 1 .. Len(r) : (s \o r)[i + Len(s)] = r[i]
         /\ \A f : Has(s \o r, f) <=> Has(s, f) \/ Has(r, f)
<1>1. /\ s \o r \in Seq(F) /\ Len(s \o r) = Len(s) + Len(r)
      /\ \A i \in 1 .. Len(s) : (s \o r)[i] = s[i]
      /\ \A i \in 1 .. Len(r) : (s \o r)[i + Len(s)] = r[i]
      /\ Len(s) \in Nat /\ Len(r) \in Nat
  OBVIOUS
<1>2. ASSUME NEW f, Has(s \o r, f) PROVE Has(s, f) \/ Has(r, f)
  <2>1. PICK i \in 1 .. Len(s \o r) : (s \o r)[i] = f
    BY <1>1, <1>2 DEF Has
  <2>2. CASE i <= Len(s)
    BY <1>1, <2>1, <2>2 DEF Has
  <2>3. CASE i > Len(s)
    <3>1. i - Len(s) \in 1 .. Len(r) /\ r[i - Len(s)] = f
      BY <1>1, <2>1, <2>3
    <3>2. QED BY <3>1 DEF Has
  <2>4. QED BY <1>1, <2>1, <2>2, <2>3
<1>3. ASSUME NEW f, Has(s, f) \/ Has(r, f) PROVE Has(s \o r, f)
  <2>1. CASE Has(s, f)
    <3>1. PICK i \in 1 .. Len(s) : s[i] = f
      BY <2>1 DEF Has
    <3>2. QED BY <1>1, <3>1 DEF Has
  <2>2. CASE Has(r, f)
    <3>1. PICK i \in 1 .. Len(r) : r[i] = f
      BY <2>2 DEF Has
    <3>2. i + Len(s) \in 1 .. Len(s \o r) /\ (s \o r)[i + Len(s)] = f
      BY <1>1, <3>1
    <3>3. QED BY <1>1, <3>2 DEF Has
  <2>3. QED BY <1>3, <2>1, <2>2
<1>4. QED BY <1>1, <1>2, <1>3

\* In place of the first step come steps that start nothing it would not.
LEMMA ReplaceKeepsOrder ==
  ASSUME NEW F, NEW q \in Seq(F), q # <<>>, Ordered(q),
         NEW s \in Seq(F), Ordered(s), \A i \in 1 .. Len(s) : Under(s[i], Head(q))
  PROVE  Ordered(s \o Tail(q)) /\ Ordered(Tail(q))
<1> DEFINE r == Tail(q)
<1>1. /\ r \in Seq(F) /\ Len(r) = Len(q) - 1 /\ Len(q) \in Nat \ {0} /\ Head(q) = q[1]
      /\ \A i \in 1 .. Len(r) : r[i] = q[i + 1]
  BY HeadAndRest
<1> HIDE DEF r
<1>2. Ordered(r)
  <2> SUFFICES ASSUME NEW i \in 1 .. Len(r), NEW j \in 1 .. Len(r), i < j
               PROVE  Above(r[i], r[j])
    BY DEF Ordered
  <2>1. i + 1 \in 1 .. Len(q) /\ j + 1 \in 1 .. Len(q) /\ i + 1 < j + 1
    BY <1>1
  <2>2. Above(q[i + 1], q[j + 1])
    BY <2>1 DEF Ordered
  <2>3. QED BY <1>1, <2>2
<1>3. ASSUME NEW i \in 1 .. Len(s), NEW j \in 1 .. Len(r) PROVE Above(s[i], r[j])
  <2>1. j + 1 \in 1 .. Len(q) /\ 1 \in 1 .. Len(q) /\ 1 < j + 1
    BY <1>1
  <2>2. Above(Head(q), r[j])
    BY <1>1, <2>1 DEF Ordered
  <2>3. Under(s[i], Head(q))
    OBVIOUS
  <2>4. QED BY <2>2, <2>3, Floors, SMTT(30) DEF Above, Under
<1>4. /\ s \o r \in Seq(F) /\ Len(s \o r) = Len(s) + Len(r)
      /\ \A i \in 1 .. Len(s) : (s \o r)[i] = s[i]
      /\ \A i \in 1 .. Len(r) : (s \o r)[i + Len(s)] = r[i]
      /\ Len(s) \in Nat /\ Len(r) \in Nat
  BY <1>1, HasConcat
<1>5. ASSUME NEW i \in 1 .. Len(s \o r), NEW j \in 1 .. Len(s \o r), i < j
      PROVE  Above((s \o r)[i], (s \o r)[j])
  <2>1. CASE j <= Len(s)
    <3>1. i \in 1 .. Len(s) /\ j \in 1 .. Len(s)
      BY <1>4, <1>5, <2>1
    <3>2. Above(s[i], s[j])
      BY <1>5, <3>1 DEF Ordered
    <3>3. QED BY <1>4, <3>1, <3>2
  <2>2. CASE i <= Len(s) /\ j > Len(s)
    <3>1. i \in 1 .. Len(s) /\ j - Len(s) \in 1 .. Len(r)
      BY <1>4, <1>5, <2>2
    <3>2. (s \o r)[i] = s[i] /\ (s \o r)[(j - Len(s)) + Len(s)] = r[j - Len(s)]
      BY <1>4, <3>1
    <3>3. (j - Len(s)) + Len(s) = j
      BY <1>4
    <3>4. QED BY <1>3, <3>1, <3>2, <3>3
  <2>3. CASE i > Len(s)
    <3>1. i - Len(s) \in 1 .. Len(r) /\ j - Len(s) \in 1 .. Len(r) /\ i - Len(s) < j - Len(s)
      BY <1>4, <1>5, <2>3
    <3>2. /\ (s \o r)[(i - Len(s)) + Len(s)] = r[i - Len(s)]
          /\ (s \o r)[(j - Len(s)) + Len(s)] = r[j - Len(s)]
      BY <1>4, <3>1
    <3>3. (j - Len(s)) + Len(s) = j /\ (i - Len(s)) + Len(s) = i
      BY <1>4
    <3>4. Above(r[i - Len(s)], r[j - Len(s)])
      BY <1>2, <3>1 DEF Ordered
    <3>5. QED BY <3>2, <3>3, <3>4
  <2>4. QED BY <1>4, <1>5, <2>1, <2>2, <2>3
<1>6. Ordered(s \o r)
  BY <1>5 DEF Ordered
<1>7. QED BY <1>2, <1>6 DEF r
-----------------------------------------------------------------------------
(* Programs.                                                               *)

\* A program begins anew: it releases no mutex and ends no sending of before.
LEMMA BegunAnew ==
  ASSUME NEW s \in Seq(Begun \cup MainBegun)
  PROVE  /\ Ordered(s)
         /\ \A x : ~ Has(s, Step("unlock", x)) /\ ~ Has(s, Step("sent", x))
<1>1. \A f \in Begun \cup MainBegun : f.op # "unlock" /\ f.op # "sent"
  BY DEF Begun, MainBegun, Sends, Calls, Guards, BareLocks, Returns, Shutdowns, Stops, JoinFrames
<1>2. \A i \in 1 .. Len(s) : s[i] \in Begun \cup MainBegun
  OBVIOUS
<1>3. Ordered(s)
  BY <1>1, <1>2 DEF Ordered, Above
<1>4. DOMAIN s = 1 .. Len(s)
  OBVIOUS
<1>5. \A x : Step("unlock", x).op = "unlock" /\ Step("sent", x).op = "sent"
  BY DEF Step
<1>6. QED BY <1>1, <1>2, <1>3, <1>4, <1>5 DEF Has

\* s is made of steps of threads, takes no mutex below k and sends nothing from
\* an object below m.
Keeps(s, k, m) ==
  /\ s \in Seq(Begun)
  /\ \A i \in 1 .. Len(s) : Floor(s[i]) >= k /\ SenderFloor(s[i]) >= m

LEMMA LocksFit ==
  /\ {PollLock, PushLock, TCPLock, UDPLock} \subseteq Locks
  /\ \A p \in PortIds : ClientLock(p) \in Locks /\ RingLock(p) \in Locks
  /\ Rank(PollLock) = 1 /\ Rank(PushLock) = 1 /\ Rank(TCPLock) = 2 /\ Rank(UDPLock) = 3
  /\ \A p : Rank(ClientLock(p)) = 2 /\ Rank(RingLock(p)) = 3
  /\ SectionSender(PollLock) = 2 /\ SectionSender(PushLock) = 4
  /\ SectionSender(TCPLock) = 3 /\ SectionSender(UDPLock) = 3
  /\ \A p : SectionSender(ClientLock(p)) = 4
<1> USE DEF PollLock, PushLock, TCPLock, UDPLock, ClientLock, RingLock
<1>1. /\ {PollLock, PushLock, TCPLock, UDPLock} \subseteq Locks
      /\ \A p \in PortIds : ClientLock(p) \in Locks /\ RingLock(p) \in Locks
  BY DEF Locks, ClientLocks, RingLocks
<1>2. /\ Rank(PollLock) = 1 /\ Rank(PushLock) = 1 /\ Rank(TCPLock) = 2 /\ Rank(UDPLock) = 3
      /\ \A p : Rank(ClientLock(p)) = 2 /\ Rank(RingLock(p)) = 3
  BY DEF Rank
<1>3. /\ SectionSender(PollLock) = 2 /\ SectionSender(PushLock) = 4
      /\ SectionSender(TCPLock) = 3 /\ SectionSender(UDPLock) = 3
      /\ \A p : SectionSender(ClientLock(p)) = 4
  BY DEF SectionSender
<1>4. QED BY <1>1, <1>2, <1>3

\* A guard with its section, as a program.
LEMMA GuardFits ==
  ASSUME NEW l \in Locks, NEW s \in Seq(Sends \cup Calls \cup BareLocks),
         \A i \in 1 .. Len(s) : Floor(s[i]) > Rank(l) /\ SenderFloor(s[i]) >= SectionSender(l)
  PROVE  /\ Lock(l, s) \in Guards
         /\ Floor(Lock(l, s)) = Rank(l)
         /\ SenderFloor(Lock(l, s)) = IF s = <<>> THEN 4 ELSE SectionSender(l)
<1> DEFINE f == Lock(l, s)
<1>1. f.op = "lock" /\ f.on = l /\ f.section = s
  BY DEF Lock
<1>2. f \in [op : {"lock"}, on : Locks, section : Seq(Sends \cup Calls \cup BareLocks)]
  BY DEF Lock
<1> HIDE DEF f
<1>3. Floor(f) = Rank(l)
  BY <1>1 DEF Floor
<1>4. SenderFloor(f) = IF s = <<>> THEN 4 ELSE SectionSender(l)
  BY <1>1 DEF SenderFloor
<1>5. \A i \in 1 .. Len(s) : SenderFloor(s[i]) >= SenderFloor(f)
  <2>1. CASE s = <<>>
    BY <2>1
  <2>2. CASE s # <<>>
    BY <1>4, <2>2
  <2>3. QED BY <2>1, <2>2
<1>6. f \in Guards
  BY <1>1, <1>2, <1>5 DEF Guards
<1>7. QED BY <1>3, <1>4, <1>6 DEF f

LEMMA BareLockFits ==
  ASSUME NEW l \in Locks
  PROVE  /\ Lock(l, <<>>) \in Guards /\ Lock(l, <<>>) \in BareLocks
         /\ Floor(Lock(l, <<>>)) = Rank(l) /\ SenderFloor(Lock(l, <<>>)) = 4
<1>1. Lock(l, <<>>) \in BareLocks
  BY DEF Lock, BareLocks
<1>2. <<>> \in Seq(Sends \cup Calls \cup BareLocks) /\ Len(<<>>) = 0
  OBVIOUS
<1>3. \A i \in 1 .. Len(<<>>) : FALSE
  BY <1>2
<1>4. /\ Lock(l, <<>>) \in Guards /\ Floor(Lock(l, <<>>)) = Rank(l)
      /\ SenderFloor(Lock(l, <<>>)) = IF <<>> = <<>> THEN 4 ELSE SectionSender(l)
  BY ONLY <1>2, <1>3, GuardFits, l \in Locks
<1>5. QED BY <1>1, <1>4

LEMMA OneStepKeeps ==
  ASSUME NEW f \in Begun, NEW k, NEW m, Floor(f) >= k, SenderFloor(f) >= m
  PROVE  Keeps(<<f>>, k, m)
<1>1. <<f>> \in Seq(Begun) /\ Len(<<f>>) = 1 /\ <<f>>[1] = f
  OBVIOUS
<1>2. \A i \in 1 .. Len(<<f>>) : i = 1
  BY <1>1
<1>3. QED BY <1>1, <1>2 DEF Keeps

LEMMA NothingKeeps ==
  ASSUME NEW k, NEW m
  PROVE  Keeps(<<>>, k, m)
<1>1. <<>> \in Seq(Begun) /\ Len(<<>>) = 0
  OBVIOUS
<1>2. QED BY <1>1 DEF Keeps

\* A sequence of one step, as what is done under a mutex.
LEMMA OneStepUnder ==
  ASSUME NEW l \in Locks, NEW f \in Sends \cup Calls \cup BareLocks,
         Floor(f) > Rank(l), SenderFloor(f) >= SectionSender(l)
  PROVE  /\ Lock(l, <<f>>) \in Guards
         /\ Floor(Lock(l, <<f>>)) = Rank(l)
         /\ SenderFloor(Lock(l, <<f>>)) = SectionSender(l)
<1>1. /\ <<f>> \in Seq(Sends \cup Calls \cup BareLocks) /\ Len(<<f>>) = 1 /\ <<f>>[1] = f
      /\ <<f>> # <<>>
  OBVIOUS
<1>2. \A i \in 1 .. Len(<<f>>) : Floor(<<f>>[i]) > Rank(l) /\ SenderFloor(<<f>>[i]) >= SectionSender(l)
  BY <1>1
<1>3. QED BY <1>1, <1>2, GuardFits

LEMMA SendFits ==
  ASSUME NEW from \in Senders, NEW type \in MessageTypes, NEW arg \in Args,
         LeastSender(type) > SenderRank(from)
  PROVE  /\ Send(from, type, arg) \in Sends
         /\ Floor(Send(from, type, arg)) = LeastRank(type)
         /\ SenderFloor(Send(from, type, arg)) = SenderRank(from)
BY DEF Send, Sends, Floor, SenderFloor

LEMMA CallFits ==
  ASSUME NEW object \in Senders \cup {ShutdownHandler},
         NEW function \in MessageTypes \cup PortFunctions, NEW arg \in Args,
         function = "PORT_OPEN" => object \in PortWorkers,
         function \in PortFunctions => arg \in PortIds
  PROVE  /\ Call(object, function, arg) \in Calls
         /\ Floor(Call(object, function, arg)) = LeastRank(function)
         /\ SenderFloor(Call(object, function, arg)) = LeastSender(function)
BY DEF Call, Calls, Floor, SenderFloor

LEMMA Names ==
  /\ LeastRank("TIMER") = 1 /\ LeastRank("INCOMING_PACKAGE") = 1
  /\ LeastRank("SEND_PACKAGE") = 2 /\ LeastRank("PORT_OPEN") = 2
  /\ LeastRank("ProcessTX") = 2 /\ LeastRank("ProcessRX") = 2
  /\ LeastRank("CONNECTED") = 3 /\ LeastRank("SHUTDOWN") = 4
  /\ LeastSender("TIMER") = 2 /\ LeastSender("INCOMING_PACKAGE") = 4
  /\ LeastSender("SEND_PACKAGE") = 3 /\ LeastSender("PORT_OPEN") = 4
  /\ LeastSender("ProcessTX") = 4 /\ LeastSender("ProcessRX") = 4
  /\ LeastSender("CONNECTED") = 4 /\ LeastSender("SHUTDOWN") = 4
BY DEF LeastRank, LeastSender

LEMMA SenderRanks ==
  /\ {Timer, TCP, UDP, DataProcessor} \subseteq Senders
  /\ PortListeners \subseteq Senders /\ PortWorkers \subseteq Senders
  /\ SenderRank(Timer) = 1 /\ SenderRank(DataProcessor) = 2
  /\ SenderRank(TCP) = 3 /\ SenderRank(UDP) = 3
  /\ \A t \in PortListeners : SenderRank(t) = 1
BY DEF SenderRank, Timer, TCP, UDP, DataProcessor, PortListeners, PortWorkers, Listener, Senders,
       Background

LEMMA ConnectionKeeps ==
  /\ \A s \in TCPGetConnection : Keeps(s, 2, 3)
  /\ \A s \in UDPGetConnection : Keeps(s, 2, 3)
  /\ \A s \in OnConnected : Keeps(s, 3, 4)
<1>1. /\ Guards \subseteq Begun /\ None \in Args
      /\ {"SHUTDOWN", "CONNECTED"} \subseteq MessageTypes
  BY DEF Begun, Args, MessageTypes
<1>2. ASSUME NEW s \in TCPGetConnection PROVE Keeps(s, 2, 3)
  <2>1. PICK body \in {<<>>, <<Send(TCP, "SHUTDOWN", None)>>, <<Send(TCP, "CONNECTED", None)>>} :
          s = <<Lock(TCPLock, body)>>
    BY <1>2 DEF TCPGetConnection, Locked, Nothing
  <2>2. ASSUME NEW type \in {"SHUTDOWN", "CONNECTED"} PROVE
          /\ Lock(TCPLock, <<Send(TCP, type, None)>>) \in Guards
          /\ Floor(Lock(TCPLock, <<Send(TCP, type, None)>>)) = 2
          /\ SenderFloor(Lock(TCPLock, <<Send(TCP, type, None)>>)) = 3
    <3>1. /\ Send(TCP, type, None) \in Sends
          /\ Floor(Send(TCP, type, None)) > 2 /\ SenderFloor(Send(TCP, type, None)) = 3
      BY <1>1, SendFits, SenderRanks, Names
    <3>2. QED BY <3>1, OneStepUnder, LocksFit
  <2>3. /\ Lock(TCPLock, <<>>) \in Guards /\ Floor(Lock(TCPLock, <<>>)) = 2
        /\ SenderFloor(Lock(TCPLock, <<>>)) = 4
    BY BareLockFits, LocksFit
  <2>4. /\ Lock(TCPLock, body) \in Guards /\ Floor(Lock(TCPLock, body)) = 2
        /\ SenderFloor(Lock(TCPLock, body)) >= 3
    BY <2>2, <2>3
  <2>5. Lock(TCPLock, body) \in Begun /\ Floor(Lock(TCPLock, body)) >= 2
    BY <1>1, <2>4
  <2>6. QED BY <2>1, <2>4, <2>5, OneStepKeeps
<1>3. ASSUME NEW s \in UDPGetConnection PROVE Keeps(s, 2, 3)
  <2>1. CASE s = <<>>
    BY <2>1, NothingKeeps
  <2>2. CASE s # <<>>
    <3>1. PICK body \in {<<>>, <<Send(UDP, "SHUTDOWN", None)>>} : s = <<Lock(UDPLock, body)>>
      BY <1>3, <2>2 DEF UDPGetConnection, Locked, Nothing
    <3>2. /\ Send(UDP, "SHUTDOWN", None) \in Sends
          /\ Floor(Send(UDP, "SHUTDOWN", None)) > 3 /\ SenderFloor(Send(UDP, "SHUTDOWN", None)) = 3
      BY <1>1, SendFits, SenderRanks, Names
    <3>3. /\ Lock(UDPLock, <<Send(UDP, "SHUTDOWN", None)>>) \in Guards
          /\ Floor(Lock(UDPLock, <<Send(UDP, "SHUTDOWN", None)>>)) = 3
          /\ SenderFloor(Lock(UDPLock, <<Send(UDP, "SHUTDOWN", None)>>)) = 3
      BY <3>2, OneStepUnder, LocksFit
    <3>4. /\ Lock(UDPLock, <<>>) \in Guards /\ Floor(Lock(UDPLock, <<>>)) = 3
          /\ SenderFloor(Lock(UDPLock, <<>>)) = 4
      BY BareLockFits, LocksFit
    <3>5. /\ Lock(UDPLock, body) \in Begun /\ Floor(Lock(UDPLock, body)) >= 2
          /\ SenderFloor(Lock(UDPLock, body)) >= 3
      BY <1>1, <3>3, <3>4
    <3>6. QED BY <3>1, <3>5, OneStepKeeps
  <2>3. QED BY <2>1, <2>2
<1>4. ASSUME NEW s \in OnConnected PROVE Keeps(s, 3, 4)
  <2>1. s = <<Lock(UDPLock, <<>>)>>
    BY <1>4 DEF OnConnected, Locked, Nothing
  <2>2. /\ Lock(UDPLock, <<>>) \in Begun /\ Floor(Lock(UDPLock, <<>>)) >= 3
        /\ SenderFloor(Lock(UDPLock, <<>>)) >= 4
    BY <1>1, BareLockFits, LocksFit
  <2>3. QED BY <2>1, <2>2, OneStepKeeps
<1>5. QED BY <1>2, <1>3, <1>4

LEMMA PortsKeep ==
  ASSUME NEW p \in PortIds
  PROVE  /\ \A s \in ProcessTX(p) : Keeps(s, 2, 4)
         /\ \A s \in ProcessRX(p) : Keeps(s, 2, 4)
         /\ \A s \in OnPortOpen(p) : Keeps(s, 2, 4)
<1> DEFINE c == Lock(ClientLock(p), <<>>)  r == Lock(RingLock(p), <<>>)
<1>1. /\ c \in Begun /\ Floor(c) = 2 /\ SenderFloor(c) = 4
      /\ r \in Begun /\ Floor(r) = 3 /\ SenderFloor(r) = 4 /\ r \in BareLocks
      /\ ClientLock(p) \in Locks /\ Rank(ClientLock(p)) = 2 /\ SectionSender(ClientLock(p)) = 4
  BY BareLockFits, LocksFit DEF Begun
<1>2. /\ Lock(ClientLock(p), <<r>>) \in Begun
      /\ Floor(Lock(ClientLock(p), <<r>>)) = 2 /\ SenderFloor(Lock(ClientLock(p), <<r>>)) = 4
  <2> HIDE DEF c, r
  <2>1. QED BY <1>1, OneStepUnder DEF Begun
<1>3. Keeps(<<c>>, 2, 4) /\ Keeps(<<>>, 2, 4) /\ Keeps(<<Lock(ClientLock(p), <<r>>)>>, 2, 4)
  <2> HIDE DEF c, r
  <2>1. QED BY <1>1, <1>2, OneStepKeeps, NothingKeeps
<1>4. Keeps(<<c, r>>, 2, 4)
  <2> HIDE DEF c, r
  <2>1. /\ <<c, r>> \in Seq(Begun) /\ Len(<<c, r>>) = 2 /\ <<c, r>>[1] = c /\ <<c, r>>[2] = r
    BY <1>1
  <2>2. \A i \in 1 .. Len(<<c, r>>) : i = 1 \/ i = 2
    BY <2>1
  <2>3. QED BY <1>1, <2>1, <2>2 DEF Keeps
<1>5. /\ ProcessTX(p) = {<<>>, <<c>>} /\ ProcessRX(p) = {<<c>>, <<c, r>>}
      /\ OnPortOpen(p) = {<<c>>, <<Lock(ClientLock(p), <<r>>)>>}
  BY DEF ProcessTX, ProcessRX, OnPortOpen, Locked, Nothing
<1>6. QED BY <1>3, <1>4, <1>5

LEMMA EachPortFits ==
  ASSUME NEW function \in PortFunctions
  PROVE  /\ EachPort(function) \in Seq(Calls)
         /\ \A i \in 1 .. Len(EachPort(function)) :
              /\ Floor(EachPort(function)[i]) = 2
              /\ SenderFloor(EachPort(function)[i]) = 4
<1>1. ASSUME NEW p \in PortIds
      PROVE  /\ Call(WorkerOf(p), function, p) \in Calls
             /\ Floor(Call(WorkerOf(p), function, p)) = 2
             /\ SenderFloor(Call(WorkerOf(p), function, p)) = 4
  <2>1. WorkerOf(p) \in Senders /\ p \in Args /\ function # "PORT_OPEN"
    BY SenderRanks DEF PortWorkers, Args, PortFunctions
  <2>2. LeastRank(function) = 2 /\ LeastSender(function) = 4
    BY Names DEF PortFunctions
  <2>3. QED BY <2>1, <2>2, CallFits
<1>2. /\ EachPort(function) \in [1 .. PortCount -> Calls]
      /\ \A p \in PortIds : EachPort(function)[p] = Call(WorkerOf(p), function, p)
  BY <1>1 DEF EachPort, PortIds
<1>3. EachPort(function) \in Seq(Calls) /\ Len(EachPort(function)) = PortCount
  BY <1>2, FlowAssumption
<1>4. QED BY <1>1, <1>2, <1>3 DEF PortIds

LEMMA EventsKeep ==
  /\ \A s \in OnPollEvent : Keeps(s, 1, 2)
  /\ \A s \in OnIncomingPackageEvent : Keeps(s, 1, 4)
<1>1. ASSUME NEW s \in OnPollEvent PROVE Keeps(s, 1, 2)
  <2>1. PICK useTCP \in BOOLEAN :
          s = <<Lock(PollLock, Append(EachPort("ProcessTX"),
                                      Send(DataProcessor, "SEND_PACKAGE", useTCP)))>>
    BY <1>1 DEF OnPollEvent, Locked
  <2> DEFINE e == EachPort("ProcessTX")
             m == Send(DataProcessor, "SEND_PACKAGE", useTCP)
  <2>2. /\ e \in Seq(Calls)
        /\ \A i \in 1 .. Len(e) : Floor(e[i]) = 2 /\ SenderFloor(e[i]) = 4
    BY EachPortFits DEF PortFunctions
  <2>3. m \in Sends /\ Floor(m) = 2 /\ SenderFloor(m) = 2
    BY SendFits, SenderRanks, Names DEF MessageTypes, Args
  <2> HIDE DEF e, m
  <2>4. /\ Append(e, m) \in Seq(Sends \cup Calls \cup BareLocks)
        /\ Len(Append(e, m)) = Len(e) + 1 /\ Len(e) \in Nat
        /\ \A i \in 1 .. Len(e) : Append(e, m)[i] = e[i]
        /\ Append(e, m)[Len(e) + 1] = m /\ Append(e, m) # <<>>
    BY <2>2, <2>3
  <2>5. \A i \in 1 .. Len(Append(e, m)) :
          /\ Floor(Append(e, m)[i]) > Rank(PollLock)
          /\ SenderFloor(Append(e, m)[i]) >= SectionSender(PollLock)
    <3> TAKE i \in 1 .. Len(Append(e, m))
    <3>1. i \in 1 .. Len(e) \/ i = Len(e) + 1
      BY <2>4
    <3>2. QED BY <2>2, <2>3, <2>4, <3>1, LocksFit
  <2>6. /\ Lock(PollLock, Append(e, m)) \in Guards
        /\ Floor(Lock(PollLock, Append(e, m))) = 1
        /\ SenderFloor(Lock(PollLock, Append(e, m))) = 2
    BY <2>4, <2>5, GuardFits, LocksFit
  <2>7. s = <<Lock(PollLock, Append(e, m))>>
    BY <2>1 DEF e, m
  <2>8. Lock(PollLock, Append(e, m)) \in Begun
    BY <2>6 DEF Begun
  <2>9. QED BY <2>6, <2>7, <2>8, OneStepKeeps
<1>2. ASSUME NEW s \in OnIncomingPackageEvent PROVE Keeps(s, 1, 4)
  <2> DEFINE e == EachPort("ProcessRX")
  <2>1. s = <<Lock(PushLock, e)>>
    BY <1>2 DEF OnIncomingPackageEvent, Locked
  <2>2. /\ e \in Seq(Calls)
        /\ \A i \in 1 .. Len(e) : Floor(e[i]) = 2 /\ SenderFloor(e[i]) = 4
    BY EachPortFits DEF PortFunctions
  <2> HIDE DEF e
  <2>3. e \in Seq(Sends \cup Calls \cup BareLocks)
    BY <2>2
  <2>4. \A i \in 1 .. Len(e) : Floor(e[i]) > Rank(PushLock) /\ SenderFloor(e[i]) >= SectionSender(PushLock)
    BY <2>2, LocksFit
  <2>5. /\ Lock(PushLock, e) \in Guards /\ Floor(Lock(PushLock, e)) = 1
        /\ SenderFloor(Lock(PushLock, e)) = 4
    BY <2>3, <2>4, GuardFits, LocksFit
  <2>6. Lock(PushLock, e) \in Begun
    BY <2>5 DEF Begun
  <2>7. QED BY <2>1, <2>5, <2>6, OneStepKeeps
<1>3. QED BY <1>1, <1>2

LEMMA WeakerKeeps ==
  ASSUME NEW s, NEW k \in Int, NEW m \in Int, NEW a \in Int, NEW b \in Int,
         Keeps(s, a, b), k <= a, m <= b
  PROVE  Keeps(s, k, m)
<1>1. s \in Seq(Begun)
  BY DEF Keeps
<1>2. ASSUME NEW i \in 1 .. Len(s) PROVE Floor(s[i]) >= k /\ SenderFloor(s[i]) >= m
  <2>1. Floor(s[i]) >= a /\ SenderFloor(s[i]) >= b
    BY DEF Keeps
  <2>2. Floor(s[i]) \in Int /\ SenderFloor(s[i]) \in Int
    BY Floors
  <2>3. QED BY <2>1, <2>2
<1>3. QED BY <1>1, <1>2 DEF Keeps

\* A function that is called starts nothing its call may not.
LEMMA WaysKeep ==
  ASSUME NEW c \in Calls, NEW s \in Ways(c)
  PROVE  Keeps(s, Floor(c), SenderFloor(c))
<1>1. /\ c.op = "call" /\ c.on \in Senders \cup {ShutdownHandler}
      /\ c.function \in MessageTypes \cup PortFunctions /\ c.arg \in Args
      /\ c.function = "PORT_OPEN" => c.on \in PortWorkers
      /\ c.function \in PortFunctions => c.arg \in PortIds
  BY DEF Calls
<1>2. Floor(c) = LeastRank(c.function) /\ SenderFloor(c) = LeastSender(c.function)
  BY <1>1 DEF Floor, SenderFloor
<1>3. CASE s = <<>>
  BY <1>3, NothingKeeps
<1>4. CASE c.function = "ProcessTX"
  <2>1. s \in ProcessTX(c.arg) /\ c.arg \in PortIds
    BY <1>1, <1>4 DEF Ways, PortFunctions
  <2>2. QED BY <1>2, <1>4, <2>1, PortsKeep, Names
<1>5. CASE c.function = "ProcessRX"
  <2>1. s \in ProcessRX(c.arg) /\ c.arg \in PortIds
    BY <1>1, <1>5 DEF Ways, PortFunctions
  <2>2. QED BY <1>2, <1>5, <2>1, PortsKeep, Names
<1>6. CASE c.function \in MessageTypes /\ s # <<>>
  <2>1. s \in OnMessage(c.on, c.function, c.arg)
    BY <1>6 DEF Ways, MessageTypes
  <2>2. CASE c.function = "SEND_PACKAGE"
    <3>1. s \in TCPGetConnection \cup UDPGetConnection
      BY <1>6, <2>1, <2>2 DEF OnMessage, Nothing
    <3>2. QED BY <1>2, <2>2, <3>1, ConnectionKeeps, Names
  <2>3. CASE c.function = "CONNECTED"
    <3>1. s \in OnConnected
      BY <1>6, <2>1, <2>3 DEF OnMessage, Nothing
    <3>2. QED BY <1>2, <2>3, <3>1, ConnectionKeeps, Names
  <2>4. CASE c.function = "PORT_OPEN"
    <3>1. s \in OnPortOpen(c.arg) /\ c.on = WorkerOf(c.arg)
      BY <1>6, <2>1, <2>4 DEF OnMessage, Nothing
    <3>2. c.arg \in PortIds
      BY <1>1, <2>4, <3>1 DEF PortWorkers, WorkerOf
    <3>3. QED BY <1>2, <2>4, <3>1, <3>2, PortsKeep, Names
  <2>5. CASE c.function = "TIMER"
    <3>1. s \in OnPollEvent
      BY <1>6, <2>1, <2>5 DEF OnMessage, Nothing
    <3>2. QED BY <1>2, <2>5, <3>1, EventsKeep, Names
  <2>6. CASE c.function = "INCOMING_PACKAGE"
    <3>1. s \in OnIncomingPackageEvent
      BY <1>6, <2>1, <2>6 DEF OnMessage, Nothing
    <3>2. QED BY <1>2, <2>6, <3>1, EventsKeep, Names
  <2>7. CASE c.function = "SHUTDOWN"
    <3>1. s \in Nothing
      BY <1>6, <2>1, <2>7 DEF OnMessage
    <3>2. QED BY <1>6, <3>1 DEF Nothing
  <2>8. QED BY <1>6, <2>2, <2>3, <2>4, <2>5, <2>6, <2>7 DEF MessageTypes
<1>7. QED BY <1>1, <1>3, <1>4, <1>5, <1>6 DEF PortFunctions

\* The calls of the subscribers take and send no more than the message says.
LEMMA HandleKeeps ==
  ASSUME NEW m \in Sends
  PROVE  /\ Handle(m) \in Seq(Calls)
         /\ \A i \in 1 .. Len(Handle(m)) : /\ Floor(Handle(m)[i]) = Floor(m)
                                           /\ SenderFloor(Handle(m)[i]) > SenderFloor(m)
<1> DEFINE q == Subscribers(m.type)  S == Senders \cup {ShutdownHandler}
<1>1. /\ m.op = "send" /\ m.type \in MessageTypes /\ m.arg \in Args
      /\ LeastSender(m.type) > SenderRank(m.on)
      /\ Floor(m) = LeastRank(m.type) /\ SenderFloor(m) = SenderRank(m.on)
  BY DEF Sends, Floor, SenderFloor
<1>2. [p \in PortIds |-> WorkerOf(p)] \in Seq(PortWorkers)
  <2>1. [p \in PortIds |-> WorkerOf(p)] \in [1 .. PortCount -> PortWorkers]
    BY DEF PortIds, PortWorkers
  <2>2. QED BY <2>1, FlowAssumption
<1>3. q \in Seq(S) /\ (m.type = "PORT_OPEN" => q \in Seq(PortWorkers))
  <2>1. PortWorkers \subseteq S /\ {Timer, TCP, UDP, DataProcessor, ShutdownHandler} \subseteq S
    BY SenderRanks
  <2> DEFINE w == [p \in PortIds |-> WorkerOf(p)]
  <2>2. w \in Seq(S) /\ w \in Seq(PortWorkers)
    BY <1>2, <2>1
  <2>3. q = CASE m.type = "SHUTDOWN"     -> <<ShutdownHandler>>
              [] m.type = "SEND_PACKAGE" -> <<TCP, UDP>>
              [] m.type = "CONNECTED"    -> <<UDP, Timer>> \o w
              [] m.type = "PORT_OPEN"    -> w
              [] OTHER                   -> <<DataProcessor>>
    BY DEF Subscribers
  <2> HIDE DEF w, q, S
  <2>4. CASE m.type = "SHUTDOWN"
    BY <2>1, <2>3, <2>4
  <2>5. CASE m.type = "SEND_PACKAGE"
    BY <2>1, <2>3, <2>5
  <2>6. CASE m.type = "CONNECTED"
    <3>1. <<UDP, Timer>> \in Seq(S)
      BY <2>1
    <3>2. q = <<UDP, Timer>> \o w
      BY <2>3, <2>6
    <3>3. QED BY <2>2, <2>6, <3>1, <3>2
  <2>7. CASE m.type = "PORT_OPEN"
    BY <2>2, <2>3, <2>7
  <2>8. CASE m.type \in {"TIMER", "INCOMING_PACKAGE"}
    BY <2>1, <2>3, <2>8
  <2>9. QED BY <1>1, <2>4, <2>5, <2>6, <2>7, <2>8 DEF MessageTypes
<1> HIDE DEF q
<1>4. ASSUME NEW i \in 1 .. Len(q)
      PROVE  /\ Call(q[i], m.type, m.arg) \in Calls
             /\ Floor(Call(q[i], m.type, m.arg)) = LeastRank(m.type)
             /\ SenderFloor(Call(q[i], m.type, m.arg)) = LeastSender(m.type)
  <2>1. q[i] \in S
    BY <1>3
  <2>2. m.type = "PORT_OPEN" => q[i] \in PortWorkers
    BY <1>3
  <2>3. m.type \notin PortFunctions
    BY <1>1 DEF MessageTypes, PortFunctions
  <2>4. QED BY <1>1, <2>1, <2>2, <2>3, CallFits
<1>5. Handle(m) = [i \in 1 .. Len(q) |-> Call(q[i], m.type, m.arg)]
  BY <1>3 DEF Handle, q
<1>6. Len(q) \in Nat
  BY <1>3
<1>7. Handle(m) \in Seq(Calls) /\ Len(Handle(m)) = Len(q)
  <2>1. Handle(m) \in [1 .. Len(q) -> Calls]
    BY <1>4, <1>5
  <2>2. QED BY <1>6, <2>1
<1>8. QED BY <1>1, <1>4, <1>5, <1>7

\* What a thread begins with.
LEMMA RoundsFit ==
  ASSUME NEW t \in Background, NEW s \in Round(t) \cup LastRound(t)
  PROVE  s \in Seq(Begun)
<1>1. /\ Sends \subseteq Begun /\ Guards \subseteq Begun /\ Returns \subseteq Begun
      /\ None \in Args /\ PortIds \subseteq Args
      /\ {"SHUTDOWN", "INCOMING_PACKAGE", "TIMER", "PORT_OPEN"} \subseteq MessageTypes
  BY DEF Begun, Args, MessageTypes
<1>2. Step("return", t) \in Begun
  BY DEF Step, Returns, Begun
<1>3. \A r \in TCPGetConnection \cup UDPGetConnection : r \in Seq(Begun)
  BY ConnectionKeeps DEF Keeps
<1>4. Lock(UDPLock, <<>>) \in Begun
  BY <1>1, BareLockFits, LocksFit
<1>5. /\ Send(Timer, "TIMER", None) \in Begun
      /\ Send(TCP, "INCOMING_PACKAGE", None) \in Begun
      /\ Send(UDP, "INCOMING_PACKAGE", None) \in Begun
  BY <1>1, SendFits, SenderRanks, Names
<1>6. Timer # TCP /\ Timer # UDP /\ TCP # UDP
  BY DEF Timer, TCP, UDP
<1>7. CASE t = Timer
  <2>1. t \notin PortListeners /\ t \notin PortWorkers
    BY <1>7 DEF Timer, PortListeners, Listener, PortWorkers, WorkerOf
  <2>2. Round(t) = {<<Send(Timer, "TIMER", None)>>}
    BY <1>6, <1>7, <2>1 DEF Round
  <2>3. LastRound(t) = {<<Step("return", t)>>}
    BY <1>6, <1>7, <2>1 DEF LastRound
  <2>4. s = <<Send(Timer, "TIMER", None)>> \/ s = <<Step("return", t)>>
    BY ONLY <2>2, <2>3, s \in Round(t) \cup LastRound(t)
  <2>5. <<Send(Timer, "TIMER", None)>> \in Seq(Begun) /\ <<Step("return", t)>> \in Seq(Begun)
    BY <1>2, <1>5
  <2>6. QED BY ONLY <2>4, <2>5
<1>8. CASE t = TCP
  <2>1. t \notin PortListeners /\ t \notin PortWorkers
    BY <1>8 DEF TCP, PortListeners, Listener, PortWorkers, WorkerOf
  <2>2. Round(t) = TCPGetConnection \cup {<<Send(TCP, "INCOMING_PACKAGE", None)>>}
    BY <1>6, <1>8, <2>1 DEF Round
  <2>3. LastRound(t) = {<<Step("return", t)>>}
    BY <1>6, <1>8, <2>1 DEF LastRound
  <2>4. \/ s \in TCPGetConnection \/ s = <<Send(TCP, "INCOMING_PACKAGE", None)>>
        \/ s = <<Step("return", t)>>
    BY ONLY <2>2, <2>3, s \in Round(t) \cup LastRound(t)
  <2>5. /\ <<Send(TCP, "INCOMING_PACKAGE", None)>> \in Seq(Begun)
        /\ <<Step("return", t)>> \in Seq(Begun)
    BY <1>2, <1>5
  <2>6. QED BY ONLY <1>3, <2>4, <2>5
<1>9. CASE t = UDP
  <2>1. t \notin PortListeners /\ t \notin PortWorkers
    BY <1>9 DEF UDP, PortListeners, Listener, PortWorkers, WorkerOf
  <2>2. Round(t) = IF UDPEnabled
                   THEN UDPGetConnection \cup {<<Send(UDP, "INCOMING_PACKAGE", None)>>}
                   ELSE {<<Step("return", UDP)>>}
    BY <1>6, <1>9, <2>1 DEF Round
  <2>3. \/ LastRound(t) = {<<Lock(UDPLock, <<>>), Step("return", UDP)>>}
        \/ LastRound(t) = {<<Step("return", t)>>}
    BY <1>9, <2>1 DEF LastRound
  <2>4. \/ s \in UDPGetConnection \/ s = <<Send(UDP, "INCOMING_PACKAGE", None)>>
        \/ s = <<Step("return", UDP)>> \/ s = <<Lock(UDPLock, <<>>), Step("return", UDP)>>
    BY ONLY <1>9, <2>2, <2>3, s \in Round(t) \cup LastRound(t)
  <2>5. /\ <<Send(UDP, "INCOMING_PACKAGE", None)>> \in Seq(Begun)
        /\ <<Step("return", UDP)>> \in Seq(Begun)
        /\ <<Lock(UDPLock, <<>>), Step("return", UDP)>> \in Seq(Begun)
    BY <1>2, <1>4, <1>5, <1>9
  <2>6. QED BY ONLY <1>3, <2>4, <2>5
<1>10. CASE t \in PortListeners
  <2>1. PICK p \in PortIds : t = Listener(p)
    BY <1>10 DEF PortListeners
  <2>2. t # Timer /\ t # TCP /\ t # UDP /\ t[2] = p /\ t \notin PortWorkers
    BY <2>1 DEF Listener, Timer, TCP, UDP, PortWorkers, WorkerOf
  <2>3. Send(t, "PORT_OPEN", t[2]) \in Begun /\ Send(t, "SHUTDOWN", None) \in Begun
    <3>1. t \in Senders /\ SenderRank(t) = 1
      BY <1>10, SenderRanks
    <3>2. QED BY <1>1, <2>2, <3>1, SendFits, Names
  <2>4. Round(t) = {<<Send(t, "PORT_OPEN", t[2])>>, <<Send(t, "SHUTDOWN", None), Step("return", t)>>}
    BY <1>10, <2>2 DEF Round
  <2>5. LastRound(t) = {<<Step("return", t)>>, <<Send(t, "SHUTDOWN", None), Step("return", t)>>}
    BY <1>10, <2>2 DEF LastRound
  <2>6. \/ s = <<Send(t, "PORT_OPEN", t[2])>> \/ s = <<Send(t, "SHUTDOWN", None), Step("return", t)>>
        \/ s = <<Step("return", t)>>
    BY ONLY <2>4, <2>5, s \in Round(t) \cup LastRound(t)
  <2>7. /\ <<Send(t, "PORT_OPEN", t[2])>> \in Seq(Begun)
        /\ <<Send(t, "SHUTDOWN", None), Step("return", t)>> \in Seq(Begun)
        /\ <<Step("return", t)>> \in Seq(Begun)
    BY <1>2, <2>3
  <2>8. QED BY ONLY <2>6, <2>7
<1>11. CASE t \in PortWorkers
  <2>1. PICK p \in PortIds : t = WorkerOf(p)
    BY <1>11 DEF PortWorkers
  <2>2. /\ t # Timer /\ t # TCP /\ t # UDP /\ t[2] = p /\ t \notin PortListeners
    BY <2>1 DEF WorkerOf, Timer, TCP, UDP, PortListeners, Listener
  <2>3. Lock(RingLock(p), <<>>) \in Begun /\ Lock(ClientLock(p), <<>>) \in Begun
    BY <1>1, BareLockFits, LocksFit
  <2>4. Round(t) = {<<Lock(l, <<>>)>> : l \in {RingLock(t[2]), ClientLock(t[2])}}
    BY <1>11, <2>2 DEF Round
  <2>5. LastRound(t) = {<<Step("return", t)>>}
    BY <2>2 DEF LastRound
  <2>6. \/ s = <<Lock(RingLock(p), <<>>)>> \/ s = <<Lock(ClientLock(p), <<>>)>>
        \/ s = <<Step("return", t)>>
    BY ONLY <2>2, <2>4, <2>5, s \in Round(t) \cup LastRound(t)
  <2>7. /\ <<Lock(RingLock(p), <<>>)>> \in Seq(Begun)
        /\ <<Lock(ClientLock(p), <<>>)>> \in Seq(Begun)
        /\ <<Step("return", t)>> \in Seq(Begun)
    BY <1>2, <2>3
  <2>8. QED BY ONLY <2>6, <2>7
<1>12. QED BY <1>7, <1>8, <1>9, <1>10, <1>11 DEF Background

\* A program that ends with a release, or with the end of a sending.
LEMMA ClosedFits ==
  ASSUME NEW s \in Seq(Begun), NEW u \in Unlocks \cup Sents,
         \A i \in 1 .. Len(s) : Above(s[i], u)
  PROVE  /\ Append(s, u) \in Seq(WorkFrames) /\ Ordered(Append(s, u))
         /\ \A f : Has(Append(s, u), f) <=> Has(s, f) \/ f = u
         /\ \A i \in 1 .. Len(Append(s, u)) :
              Append(s, u)[i] = u \/ (i \in 1 .. Len(s) /\ Append(s, u)[i] = s[i])
<1> DEFINE q == Append(s, u)
<1>1. Begun \subseteq WorkFrames /\ u \in WorkFrames
  BY DEF WorkFrames
<1>2. /\ q \in Seq(WorkFrames) /\ Len(q) = Len(s) + 1 /\ Len(s) \in Nat /\ q[Len(s) + 1] = u
      /\ \A i \in 1 .. Len(s) : q[i] = s[i]
      /\ DOMAIN q = 1 .. Len(q) /\ DOMAIN s = 1 .. Len(s)
  BY <1>1
<1>3. \A f \in Begun : f.op # "unlock" /\ f.op # "sent"
  BY DEF Begun, Sends, Calls, Guards, Returns
<1>4. \A i \in 1 .. Len(s) : s[i] \in Begun
  OBVIOUS
<1> HIDE DEF q
<1>5. ASSUME NEW i \in 1 .. Len(q) PROVE q[i] = u \/ (i \in 1 .. Len(s) /\ q[i] = s[i])
  <2>1. i \in 1 .. Len(s) \/ i = Len(s) + 1
    BY <1>2
  <2>2. QED BY <1>2, <2>1
<1>6. Ordered(q)
  <2> SUFFICES ASSUME NEW i \in 1 .. Len(q), NEW j \in 1 .. Len(q), i < j
               PROVE  Above(q[i], q[j])
    BY DEF Ordered
  <2>1. i \in 1 .. Len(s) /\ q[i] = s[i]
    BY <1>2
  <2>2. CASE j \in 1 .. Len(s)
    BY <1>2, <1>3, <1>4, <2>2 DEF Above
  <2>3. CASE j = Len(s) + 1
    BY <1>2, <2>1, <2>3
  <2>4. QED BY <1>2, <2>2, <2>3
<1>7. \A f : Has(q, f) <=> Has(s, f) \/ f = u
  <2>1. Len(s) + 1 \in 1 .. Len(q) /\ \A i \in 1 .. Len(s) : i \in 1 .. Len(q)
    BY <1>2
  <2>2. ASSUME NEW f, Has(q, f) PROVE Has(s, f) \/ f = u
    BY ONLY <1>2, <1>5, <2>2 DEF Has
  <2>3. ASSUME NEW f, Has(s, f) \/ f = u PROVE Has(q, f)
    <3>1. CASE f = u
      BY ONLY <1>2, <2>1, <3>1 DEF Has
    <3>2. CASE Has(s, f)
      <4>1. PICK i \in 1 .. Len(s) : s[i] = f
        BY <1>2, <3>2 DEF Has
      <4>2. i \in 1 .. Len(q) /\ q[i] = f
        BY ONLY <1>2, <2>1, <4>1
      <4>3. QED BY ONLY <1>2, <4>2 DEF Has
    <3>3. QED BY <2>3, <3>1, <3>2
  <2>4. QED BY ONLY <2>2, <2>3
<1>8. QED BY <1>2, <1>5, <1>6, <1>7 DEF q

\* What is done under a mutex that is taken.
LEMMA SectionFits ==
  ASSUME NEW f \in Guards
  PROVE  LET s == Append(f.section, Step("unlock", f.on))
         IN  /\ s \in Seq(WorkFrames) /\ Ordered(s)
             /\ \A i \in 1 .. Len(s) : Under(s[i], f)
             /\ \A x : Has(s, Step("unlock", x)) <=> x = f.on
             /\ \A x : ~ Has(s, Step("sent", x))
<1> DEFINE u == Step("unlock", f.on)  b == f.section
<1>1. /\ f.op = "lock" /\ f.on \in Locks /\ b \in Seq(Sends \cup Calls \cup BareLocks)
      /\ \A i \in 1 .. Len(b) : Floor(b[i]) > Rank(f.on) /\ SenderFloor(b[i]) >= SenderFloor(f)
  BY DEF Guards
<1>2. BareLocks \subseteq Guards
  <2> SUFFICES ASSUME NEW g \in BareLocks PROVE g \in Guards
    OBVIOUS
  <2>1. g = Lock(g.on, <<>>) /\ g.on \in Locks
    BY DEF BareLocks, Lock
  <2>2. QED BY <2>1, BareLockFits
<1>3. b \in Seq(Begun)
  <2>1. Sends \cup Calls \cup BareLocks \subseteq Begun
    BY <1>2 DEF Begun
  <2>2. QED BY <1>1, <2>1
<1>4. /\ u \in Unlocks /\ u.op = "unlock" /\ u.on = f.on /\ Floor(u) = Rank(f.on)
      /\ SenderFloor(u) = 4 /\ Floor(f) = Rank(f.on)
  BY <1>1 DEF Unlocks, Step, Floor, SenderFloor
<1> HIDE DEF u, b
<1>5. \A i \in 1 .. Len(b) : Above(b[i], u)
  BY <1>1, <1>4 DEF Above
<1>6. /\ Append(b, u) \in Seq(WorkFrames) /\ Ordered(Append(b, u))
      /\ \A g : Has(Append(b, u), g) <=> Has(b, g) \/ g = u
      /\ \A i \in 1 .. Len(Append(b, u)) :
           Append(b, u)[i] = u \/ (i \in 1 .. Len(b) /\ Append(b, u)[i] = b[i])
  BY <1>3, <1>4, <1>5, ClosedFits
<1>7. \A i \in 1 .. Len(Append(b, u)) : Under(Append(b, u)[i], f)
  <2>1. Under(u, f)
    BY <1>4, Floors DEF Under
  <2>2. \A i \in 1 .. Len(b) : Under(b[i], f)
    BY <1>1, <1>4, Floors DEF Under
  <2>3. QED BY <1>6, <2>1, <2>2
<1>8. \A x : ~ Has(b, Step("unlock", x)) /\ ~ Has(b, Step("sent", x))
  <2>1. b \in Seq(Begun \cup MainBegun)
    BY <1>3
  <2>2. QED BY <2>1, BegunAnew
<1>9. \A x : /\ (Step("unlock", x) = u <=> x = f.on)
             /\ Step("sent", x) # u
  BY DEF Step, u
<1>10. /\ \A x : Has(Append(b, u), Step("unlock", x)) <=> x = f.on
       /\ \A x : ~ Has(Append(b, u), Step("sent", x))
  BY ONLY <1>6, <1>8, <1>9
<1>11. QED BY <1>6, <1>7, <1>10 DEF b, u

\* The calls of a message that is sent.
LEMMA MessageFits ==
  ASSUME NEW f \in Sends
  PROVE  LET s == Append(Handle(f), Step("sent", f.on))
         IN  /\ s \in Seq(WorkFrames) /\ Ordered(s)
             /\ \A i \in 1 .. Len(s) : Under(s[i], f)
             /\ \A x : Has(s, Step("sent", x)) <=> x = f.on
             /\ \A x : ~ Has(s, Step("unlock", x))
<1> DEFINE u == Step("sent", f.on)  b == Handle(f)
<1>1. /\ b \in Seq(Calls)
      /\ \A i \in 1 .. Len(b) : /\ Floor(b[i]) = Floor(f)
                                /\ SenderFloor(b[i]) > SenderFloor(f)
  BY HandleKeeps
<1>2. /\ u \in Sents /\ u.op = "sent" /\ u.on = f.on /\ Floor(u) = 4
      /\ SenderFloor(u) = SenderRank(f.on) /\ SenderFloor(f) = SenderRank(f.on)
  BY DEF Sents, Sends, Step, Floor, SenderFloor
<1>3. b \in Seq(Begun) /\ b \in Seq(Begun \cup MainBegun)
  <2>1. Calls \subseteq Begun
    BY DEF Begun
  <2>2. QED BY <1>1, <2>1
<1> HIDE DEF u, b
<1>5. \A i \in 1 .. Len(b) : Above(b[i], u)
  BY <1>1, <1>2 DEF Above
<1>6. /\ Append(b, u) \in Seq(WorkFrames) /\ Ordered(Append(b, u))
      /\ \A g : Has(Append(b, u), g) <=> Has(b, g) \/ g = u
      /\ \A i \in 1 .. Len(Append(b, u)) :
           Append(b, u)[i] = u \/ (i \in 1 .. Len(b) /\ Append(b, u)[i] = b[i])
  BY <1>2, <1>3, <1>5, ClosedFits
<1>7. \A i \in 1 .. Len(Append(b, u)) : Under(Append(b, u)[i], f)
  <2>1. Under(u, f)
    BY <1>2, Floors DEF Under
  <2>2. \A i \in 1 .. Len(b) : Under(b[i], f)
    BY <1>1, Floors DEF Under
  <2>3. QED BY <1>6, <2>1, <2>2
<1>8. \A x : ~ Has(b, Step("unlock", x)) /\ ~ Has(b, Step("sent", x))
  BY <1>3, BegunAnew
<1>9. \A x : /\ (Step("sent", x) = u <=> x = f.on)
             /\ Step("unlock", x) # u
  BY DEF Step, u
<1>10. /\ \A x : Has(Append(b, u), Step("sent", x)) <=> x = f.on
       /\ \A x : ~ Has(Append(b, u), Step("unlock", x))
  BY ONLY <1>6, <1>8, <1>9
<1>11. QED BY <1>6, <1>7, <1>10 DEF b, u

\* What main does for a call of the shutdown.
LEMMA ShutdownFits ==
  ASSUME NEW c \in Shutdowns, NEW s \in Ways(c)
  PROVE  s \in Seq(MainBegun) /\ \A i \in 1 .. Len(s) : Under(s[i], c)
<1>1. /\ c.op = "call" /\ c.on \in Background /\ c.function \in {"RequestShutdown", "Shutdown"}
  BY DEF Shutdowns
<1>2. /\ SenderFloor(c) = 4 /\ Floor(c) <= 2 /\ Floor(c) \in Nat
      /\ c.function = "Shutdown" => Floor(c) = 0
  BY <1>1 DEF Floor, SenderFloor, LeastSender, LeastRank
<1> DEFINE a == Step("stop", c.on)  j == Step("join", c.on)
<1>3. /\ a \in MainBegun /\ Under(a, c)
  BY <1>1, <1>2 DEF MainBegun, Stops, Step, Under, Floor, SenderFloor
<1>4. j \in MainBegun /\ (c.function = "Shutdown" => Under(j, c))
  BY <1>1, <1>2 DEF MainBegun, JoinFrames, Step, Under, Floor, SenderFloor
<1>5. ASSUME NEW l \in {TCPLock, UDPLock} PROVE Lock(l, <<>>) \in MainBegun /\ Under(Lock(l, <<>>), c)
  <2>1. l \in Locks /\ Rank(l) \in 2 .. 3
    BY LocksFit
  <2>2. QED BY <1>2, <2>1, BareLockFits DEF Under, MainBegun
<1> HIDE DEF a, j
<1>6. PICK r : /\ r \in Seq(MainBegun) /\ \A i \in 1 .. Len(r) : Under(r[i], c)
               /\ r = OnShutdown(c.on)
  <2>1. \/ OnShutdown(c.on) = <<a>>
        \/ \E l \in {TCPLock, UDPLock} : OnShutdown(c.on) = <<a, Lock(l, <<>>)>>
    BY DEF OnShutdown, a
  <2>2. CASE OnShutdown(c.on) = <<a>>
    <3>1. <<a>> \in Seq(MainBegun) /\ Len(<<a>>) = 1 /\ <<a>>[1] = a
      BY <1>3
    <3>2. \A i \in 1 .. Len(<<a>>) : i = 1
      BY <3>1
    <3>3. QED BY <1>3, <2>2, <3>1, <3>2
  <2>3. CASE \E l \in {TCPLock, UDPLock} : OnShutdown(c.on) = <<a, Lock(l, <<>>)>>
    <3>1. PICK l \in {TCPLock, UDPLock} : OnShutdown(c.on) = <<a, Lock(l, <<>>)>>
      BY <2>3
    <3> DEFINE k == Lock(l, <<>>)
    <3>2. k \in MainBegun /\ Under(k, c)
      BY <1>5
    <3> HIDE DEF k
    <3>3. <<a, k>> \in Seq(MainBegun) /\ Len(<<a, k>>) = 2 /\ <<a, k>>[1] = a /\ <<a, k>>[2] = k
      BY <1>3, <3>2
    <3>4. \A i \in 1 .. Len(<<a, k>>) : i = 1 \/ i = 2
      BY <3>3
    <3>5. \A i \in 1 .. Len(<<a, k>>) : Under(<<a, k>>[i], c)
      BY ONLY <1>3, <3>2, <3>3, <3>4
    <3>6. OnShutdown(c.on) = <<a, k>>
      BY <3>1 DEF k
    <3>7. QED BY ONLY <3>3, <3>5, <3>6
  <2>4. QED BY <2>1, <2>2, <2>3
<1>7. CASE c.function = "RequestShutdown"
  <2>1. s = OnShutdown(c.on)
    BY <1>7 DEF Ways
  <2>2. QED BY <1>6, <2>1
<1>8. CASE c.function = "Shutdown"
  <2>1. s = Append(r, j)
    BY <1>6, <1>8 DEF Ways, j
  <2>2. /\ Append(r, j) \in Seq(MainBegun) /\ Len(Append(r, j)) = Len(r) + 1 /\ Len(r) \in Nat
        /\ \A i \in 1 .. Len(r) : Append(r, j)[i] = r[i]
        /\ Append(r, j)[Len(r) + 1] = j
    BY <1>4, <1>6
  <2>3. \A i \in 1 .. Len(Append(r, j)) : i \in 1 .. Len(r) \/ i = Len(r) + 1
    BY <2>2
  <2>4. QED BY ONLY <1>4, <1>6, <1>8, <2>1, <2>2, <2>3
<1>9. QED BY <1>1, <1>7, <1>8

LEMMA ShutdownAllFits ==
  ShutdownAll \in Seq(Shutdowns)
<1>1. ShutdownOrder \in Seq(Background)
  <2>1. /\ [p \in PortIds |-> Listener(p)] \in [1 .. PortCount -> Background]
        /\ [p \in PortIds |-> WorkerOf(p)] \in [1 .. PortCount -> Background]
        /\ <<Timer, UDP, TCP>> \in Seq(Background)
    BY DEF PortIds, Background, PortListeners, PortWorkers
  <2>2. /\ [p \in PortIds |-> Listener(p)] \in Seq(Background)
        /\ [p \in PortIds |-> WorkerOf(p)] \in Seq(Background)
    BY <2>1, FlowAssumption
  <2> DEFINE a == [p \in PortIds |-> Listener(p)]  b == [p \in PortIds |-> WorkerOf(p)]
             m == <<Timer, UDP, TCP>>
  <2> HIDE DEF a, b, m
  <2>3. a \in Seq(Background) /\ b \in Seq(Background) /\ m \in Seq(Background)
    BY <2>1, <2>2 DEF a, b, m
  <2>4. a \o m \o b \in Seq(Background)
    BY <2>3
  <2>5. QED BY <2>4 DEF ShutdownOrder, a, b, m
<1>2. ASSUME NEW function \in {"RequestShutdown", "Shutdown"}
      PROVE  InOrder(function) \in Seq(Shutdowns)
  <2>1. \A t \in Background : Call(t, function, None) \in Shutdowns
    BY DEF Call, Shutdowns
  <2> DEFINE o == ShutdownOrder
  <2> HIDE DEF o
  <2>2. o \in Seq(Background)
    BY <1>1 DEF o
  <2>3. InOrder(function) = [i \in 1 .. Len(o) |-> Call(o[i], function, None)]
    BY <2>2 DEF InOrder, o
  <2>4. InOrder(function) \in [1 .. Len(o) -> Shutdowns] /\ Len(o) \in Nat
    BY <2>1, <2>2, <2>3
  <2>5. QED BY <2>4
<1>3. QED BY <1>2 DEF ShutdownAll
-----------------------------------------------------------------------------
(* Stacks as they go.                                                      *)

\* The release of a mutex, and the end of a sending, stands once on a stack.
LEMMA Once ==
  ASSUME NEW F, NEW q \in Seq(F), q # <<>>, Ordered(q)
  PROVE  /\ \A l : Head(q) = Step("unlock", l) => ~ Has(Tail(q), Step("unlock", l))
         /\ \A x : Head(q) = Step("sent", x) => ~ Has(Tail(q), Step("sent", x))
         /\ \A x : Head(q) \in Sends /\ Head(q).on = x => ~ Has(q, Step("sent", x))
<1>1. /\ Tail(q) \in Seq(F) /\ Len(Tail(q)) = Len(q) - 1
      /\ Len(q) \in Nat \ {0} /\ Head(q) = q[1]
      /\ \A i \in 1 .. Len(Tail(q)) : Tail(q)[i] = q[i + 1]
      /\ \A f : Has(q, f) <=> f = Head(q) \/ Has(Tail(q), f)
  BY HeadAndRest
<1>2. ASSUME NEW f, Has(Tail(q), f) PROVE Above(Head(q), f)
  <2>1. PICK i \in 1 .. Len(Tail(q)) : Tail(q)[i] = f
    BY <1>1, <1>2 DEF Has
  <2>2. i + 1 \in 1 .. Len(q) /\ 1 \in 1 .. Len(q) /\ 1 < i + 1 /\ q[i + 1] = f
    BY <1>1, <2>1
  <2>3. QED BY <1>1, <2>2 DEF Ordered
<1>3. ASSUME NEW l PROVE ~ Above(Step("unlock", l), Step("unlock", l))
  <2>1. Floor(Step("unlock", l)) = Rank(l) /\ Rank(l) \in Nat
    BY Floors DEF Floor, Step
  <2>2. QED BY <2>1 DEF Above, Step
<1>4. ASSUME NEW x, NEW f, f \in Sends \/ f.op = "sent", f.on = x
      PROVE  ~ Above(f, Step("sent", x))
  <2>1. f.op \in {"send", "sent"}
    BY <1>4 DEF Sends
  <2>2. SenderFloor(f) = SenderRank(x) /\ SenderRank(x) \in Nat
    BY <1>4, <2>1, Floors DEF SenderFloor
  <2>3. QED BY <2>2 DEF Above, Step
<1>5. \A x : Step("sent", x).op = "sent" /\ Step("sent", x).on = x
  BY DEF Step
<1>6. \A x : Head(q) \in Sends => Step("sent", x) # Head(q)
  BY <1>5 DEF Sends
<1>7. ASSUME NEW x, Head(q) \in Sends, Head(q).on = x PROVE ~ Has(q, Step("sent", x))
  BY <1>1, <1>2, <1>4, <1>6, <1>7
<1>8. ASSUME NEW x, Head(q) = Step("sent", x) PROVE ~ Has(Tail(q), Step("sent", x))
  BY <1>2, <1>4, <1>5, <1>8
<1>9. ASSUME NEW l, Head(q) = Step("unlock", l) PROVE ~ Has(Tail(q), Step("unlock", l))
  BY <1>2, <1>3, <1>9
<1>10. QED BY <1>7, <1>8, <1>9

LEMMA HeadFits ==
  ASSUME StacksOK, NEW t \in AllThreads, todo[t] # <<>>
  PROVE  /\ todo[t] \in Seq(Frames(t)) /\ Ordered(todo[t])
         /\ Head(todo[t]) \in Frames(t) /\ Head(todo[t]) \in AllFrames
         /\ Tail(todo[t]) \in Seq(Frames(t))
         /\ \A f : Has(todo[t], f) <=> f = Head(todo[t]) \/ Has(Tail(todo[t]), f)
<1>1. todo[t] \in Seq(Frames(t)) /\ Ordered(todo[t])
  BY DEF StacksOK
<1>2. Frames(t) \subseteq AllFrames
  BY DEF Frames, AllFrames
<1>3. QED BY <1>1, <1>2, HeadAndRest

\* Other steps in place of the first on the stack of t.
LEMMA Replaced ==
  ASSUME StacksOK, NEW t \in AllThreads, todo[t] # <<>>, NEW s \in Seq(Frames(t)), Ordered(s),
         \A i \in 1 .. Len(s) : Under(s[i], Head(todo[t])),
         GoOn(t, s), stopping' = stopping
  PROVE  /\ StacksOK'
         /\ \A u \in AllThreads : u # t => todo'[u] = todo[u]
         /\ \A f : Has(todo'[t], f) <=> Has(s, f) \/ Has(Tail(todo[t]), f)
<1>1. /\ todo[t] \in Seq(Frames(t)) /\ Ordered(todo[t])
      /\ Tail(todo[t]) \in Seq(Frames(t))
  BY HeadFits
<1>2. Frames(t) \subseteq AllFrames
  BY DEF Frames, AllFrames
<1>3. Ordered(s \o Tail(todo[t]))
  BY <1>1, ReplaceKeepsOrder
<1> DEFINE n == s \o Tail(todo[t])
<1>4. /\ n \in Seq(Frames(t))
      /\ \A f : Has(n, f) <=> Has(s, f) \/ Has(Tail(todo[t]), f)
  BY <1>1, HasConcat
<1>5. todo' = [todo EXCEPT ![t] = n] /\ todo \in [AllThreads -> Seq(AllFrames)]
  BY DEF GoOn, Rest, StacksOK
<1> HIDE DEF n
<1>6. n \in Seq(AllFrames)
  BY <1>2, <1>4
<1>7. /\ todo' \in [AllThreads -> Seq(AllFrames)] /\ todo'[t] = n
      /\ \A u \in AllThreads : u # t => todo'[u] = todo[u]
  BY <1>5, <1>6
<1>8. \A u \in AllThreads : todo'[u] \in Seq(Frames(u)) /\ Ordered(todo'[u])
  BY <1>3, <1>4, <1>7 DEF StacksOK, n
<1>9. ~ stopping' => todo'[MainThread] = <<>>
  BY <1>7, ThreadKinds DEF StacksOK
<1>10. StacksOK'
  BY <1>7, <1>8, <1>9 DEF StacksOK
<1>11. QED BY <1>4, <1>7, <1>10

\* The first step is done.
LEMMA Popped ==
  ASSUME StacksOK, NEW t \in AllThreads, todo[t] # <<>>, Done(t), stopping' = stopping
  PROVE  /\ StacksOK'
         /\ \A u \in AllThreads : u # t => todo'[u] = todo[u]
         /\ \A f : Has(todo'[t], f) <=> Has(Tail(todo[t]), f)
<1>1. <<>> \in Seq(Frames(t)) /\ Len(<<>>) = 0 /\ DOMAIN <<>> = {}
  OBVIOUS
<1>2. Ordered(<<>>)
  BY <1>1 DEF Ordered
<1>3. \A i \in 1 .. Len(<<>>) : Under(<<>>[i], Head(todo[t]))
  BY <1>1
<1>4. GoOn(t, <<>>)
  BY DEF Done
<1>5. /\ StacksOK'
      /\ \A u \in AllThreads : u # t => todo'[u] = todo[u]
      /\ \A f : Has(todo'[t], f) <=> Has(<<>>, f) \/ Has(Tail(todo[t]), f)
  BY <1>1, <1>2, <1>3, <1>4, Replaced
<1>6. \A f : ~ Has(<<>>, f)
  BY <1>1 DEF Has
<1>7. QED BY ONLY <1>5, <1>6

\* What the frames of SendMessage say, as a set.
SentIn(q) == {x \in Senders : Has(q, Step("sent", x))}

LEMMA SendingIs ==
  ASSUME NEW q \in Seq(AllFrames)
  PROVE  {q[i].on : i \in {j \in DOMAIN q : q[j].op = "sent"}} = SentIn(q)
<1>1. DOMAIN q = 1 .. Len(q) /\ \A i \in 1 .. Len(q) : q[i] \in AllFrames
  OBVIOUS
<1>2. \A i \in 1 .. Len(q) : q[i].op = "sent" => q[i] = Step("sent", q[i].on) /\ q[i].on \in Senders
  BY <1>1, Kinds
<1>3. \A x : Step("sent", x).op = "sent" /\ Step("sent", x).on = x
  BY DEF Step
<1>4. ASSUME NEW x, x \in {q[i].on : i \in {j \in DOMAIN q : q[j].op = "sent"}} PROVE x \in SentIn(q)
  <2>1. PICK i \in 1 .. Len(q) : q[i].op = "sent" /\ x = q[i].on
    BY <1>1, <1>4
  <2>2. q[i] = Step("sent", x) /\ x \in Senders
    BY <1>2, <2>1
  <2>3. QED BY <1>1, <2>2 DEF SentIn, Has
<1>5. ASSUME NEW x \in SentIn(q) PROVE x \in {q[i].on : i \in {j \in DOMAIN q : q[j].op = "sent"}}
  <2>1. PICK i \in 1 .. Len(q) : q[i] = Step("sent", x)
    BY <1>1 DEF SentIn, Has
  <2>2. q[i].op = "sent" /\ q[i].on = x
    BY <1>3, <2>1
  <2>3. QED BY <1>1, <2>1, <2>2
<1>6. QED BY <1>4, <1>5

\* The invariant, in terms of what the stacks have.
OwnersOK ==
  \A l \in Locks, t \in AllThreads : owner[l] = t <=> Has(todo[t], Step("unlock", l))

CallersOK ==
  /\ ~ dropped
  /\ \A t \in Background : /\ t \in callers <=> SentIn(todo[t]) # {}
                           /\ t \in callers => senders[t] = SentIn(todo[t])

TypesOK ==
  /\ owner \in [Locks -> AllThreads \cup {Nobody}]
  /\ callers \subseteq Background
  /\ senders \in [AllThreads -> SUBSET Senders]
  /\ toldToStop \subseteq Background /\ ended \subseteq Background
  /\ stopping \in BOOLEAN /\ dropped \in BOOLEAN

FlowParts == TypesOK /\ OwnersOK /\ StacksOK /\ CallersOK

LEMMA PartsAreAll ==
  FlowIInv <=> FlowParts
<1>1. FlowTypeOK <=> TypesOK /\ OwnersOK
  BY DEF FlowTypeOK, TypesOK, OwnersOK, Has, Senders
<1>2. ASSUME StacksOK, NEW t \in Background PROVE Sending(t) = SentIn(todo[t])
  <2>1. todo[t] \in Seq(AllFrames)
    BY <1>2, ThreadKinds DEF StacksOK
  <2>2. QED BY <2>1, SendingIs DEF Sending
<1>3. StacksOK => (GuardIsExact <=> CallersOK)
  BY <1>2 DEF GuardIsExact, CallersOK
<1>4. QED BY ONLY <1>1, <1>3 DEF FlowIInv, FlowParts

\* Steps that neither take nor release a mutex, nor begin nor end a sending.
LEMMA QuietStep ==
  ASSUME FlowParts, StacksOK', UNCHANGED <<owner, callers, senders, dropped>>,
         toldToStop' \subseteq Background, ended' \subseteq Background, stopping' \in BOOLEAN,
         \A t \in AllThreads : \A x :
           /\ Has(todo'[t], Step("unlock", x)) <=> Has(todo[t], Step("unlock", x))
           /\ Has(todo'[t], Step("sent", x)) <=> Has(todo[t], Step("sent", x))
  PROVE  FlowParts'
<1>1. TypesOK'
  BY DEF FlowParts, TypesOK
<1>2. OwnersOK'
  BY DEF FlowParts, OwnersOK
<1>3. \A t \in Background : SentIn(todo'[t]) = SentIn(todo[t])
  BY ThreadKinds DEF SentIn
<1>4. CallersOK'
  BY <1>3 DEF FlowParts, CallersOK
<1>5. QED BY <1>1, <1>2, <1>4 DEF FlowParts
-----------------------------------------------------------------------------
LEMMA EmptyStack ==
  ASSUME NEW F
  PROVE  <<>> \in Seq(F) /\ Ordered(<<>>) /\ \A f : ~ Has(<<>>, f)
<1>1. <<>> \in Seq(F) /\ Len(<<>>) = 0 /\ DOMAIN <<>> = {}
  OBVIOUS
<1>2. QED BY <1>1 DEF Ordered, Has

LEMMA FlowStart ==
  FlowInit => FlowParts
<1> SUFFICES ASSUME FlowInit PROVE FlowParts
  OBVIOUS
<1>1. todo = [t \in AllThreads |-> <<>>] /\ \A t \in AllThreads : todo[t] = <<>>
  BY DEF FlowInit
<1>2. TypesOK
  BY ThreadKinds DEF FlowInit, TypesOK
<1>3. OwnersOK
  BY <1>1, EmptyStack, ThreadKinds DEF FlowInit, OwnersOK
<1>4. StacksOK
  <2>1. <<>> \in Seq(AllFrames) /\ \A t : <<>> \in Seq(Frames(t))
    BY EmptyStack
  <2>2. QED BY <1>1, <2>1, EmptyStack, ThreadKinds DEF StacksOK
<1>5. CallersOK
  <2>1. \A t \in Background : SentIn(todo[t]) = {}
    BY <1>1, EmptyStack, ThreadKinds DEF SentIn
  <2>2. QED BY <2>1 DEF FlowInit, CallersOK
<1>6. QED BY <1>2, <1>3, <1>4, <1>5 DEF FlowParts

LEMMA BeginKeeps ==
  ASSUME FlowParts, NEW t \in AllThreads, Begin(t)
  PROVE  FlowParts'
<1>1. t \in Background
  BY DEF Begin, AllThreads
<1>2. PICK s \in Round(t) \cup LastRound(t) : todo' = [todo EXCEPT ![t] = s]
  BY DEF Begin
<1>3. s \in Seq(Begun)
  BY <1>1, <1>2, RoundsFit
<1>4. s \in Seq(Begun \cup MainBegun) /\ s \in Seq(Frames(t)) /\ s \in Seq(AllFrames)
  <2>1. Begun \subseteq Frames(t) /\ Begun \subseteq AllFrames
    BY <1>1, ThreadKinds DEF Frames, WorkFrames, AllFrames
  <2>2. QED BY <1>3, <2>1
<1>5. /\ Ordered(s)
      /\ \A x : ~ Has(s, Step("unlock", x)) /\ ~ Has(s, Step("sent", x))
  BY <1>4, BegunAnew
<1>6. /\ todo \in [AllThreads -> Seq(AllFrames)] /\ todo[t] = <<>> /\ StacksOK
  BY DEF FlowParts, StacksOK, Begin
<1>7. /\ todo' \in [AllThreads -> Seq(AllFrames)] /\ todo'[t] = s
      /\ \A u \in AllThreads : u # t => todo'[u] = todo[u]
  BY <1>2, <1>4, <1>6
<1>8. StacksOK'
  <2>1. \A u \in AllThreads : todo'[u] \in Seq(Frames(u)) /\ Ordered(todo'[u])
    BY <1>4, <1>5, <1>6, <1>7 DEF StacksOK
  <2>2. ~ stopping' => todo'[MainThread] = <<>>
    BY <1>1, <1>6, <1>7, ThreadKinds DEF StacksOK, Begin
  <2>3. QED BY <1>7, <2>1, <2>2 DEF StacksOK
<1>9. \A u \in AllThreads : \A x :
        /\ Has(todo'[u], Step("unlock", x)) <=> Has(todo[u], Step("unlock", x))
        /\ Has(todo'[u], Step("sent", x)) <=> Has(todo[u], Step("sent", x))
  <2>1. \A x : ~ Has(todo[t], Step("unlock", x)) /\ ~ Has(todo[t], Step("sent", x))
    BY <1>6, EmptyStack
  <2>2. QED BY ONLY <1>5, <1>7, <2>1
<1>10. /\ toldToStop' \subseteq Background /\ ended' \subseteq Background /\ stopping' \in BOOLEAN
       /\ UNCHANGED <<owner, callers, senders, dropped>>
  BY DEF FlowParts, TypesOK, Begin
<1>11. QED BY <1>8, <1>9, <1>10, QuietStep

LEMMA LeaveLoopKeeps ==
  ASSUME FlowParts, LeaveLoop
  PROVE  FlowParts'
<1>1. ShutdownAll \in Seq(Shutdowns)
  BY ShutdownAllFits
<1> DEFINE s == ShutdownAll  t == MainThread
<1> HIDE DEF s
<1>2. s \in Seq(Begun \cup MainBegun) /\ s \in Seq(Frames(t)) /\ s \in Seq(AllFrames)
  <2>1. Shutdowns \subseteq MainBegun /\ Shutdowns \subseteq Frames(t) /\ Shutdowns \subseteq AllFrames
    BY DEF MainBegun, Frames, MainFrames, AllFrames
  <2>2. QED BY <1>1, <2>1 DEF s
<1>3. /\ Ordered(s)
      /\ \A x : ~ Has(s, Step("unlock", x)) /\ ~ Has(s, Step("sent", x))
  BY <1>2, BegunAnew
<1>4. /\ todo \in [AllThreads -> Seq(AllFrames)] /\ todo[t] = <<>> /\ StacksOK
  BY DEF FlowParts, StacksOK, LeaveLoop
<1>5. /\ todo' \in [AllThreads -> Seq(AllFrames)] /\ todo'[t] = s
      /\ \A u \in AllThreads : u # t => todo'[u] = todo[u]
  BY <1>2, <1>4, ThreadKinds DEF LeaveLoop, s
<1>6. StacksOK'
  <2>1. \A u \in AllThreads : todo'[u] \in Seq(Frames(u)) /\ Ordered(todo'[u])
    BY <1>2, <1>3, <1>4, <1>5 DEF StacksOK
  <2>2. stopping'
    BY DEF LeaveLoop
  <2>3. QED BY <1>5, <2>1, <2>2 DEF StacksOK
<1>7. \A u \in AllThreads : \A x :
        /\ Has(todo'[u], Step("unlock", x)) <=> Has(todo[u], Step("unlock", x))
        /\ Has(todo'[u], Step("sent", x)) <=> Has(todo[u], Step("sent", x))
  <2>1. \A x : ~ Has(todo[t], Step("unlock", x)) /\ ~ Has(todo[t], Step("sent", x))
    BY <1>4, EmptyStack
  <2>2. QED BY ONLY <1>3, <1>5, <2>1
<1>8. /\ toldToStop' \subseteq Background /\ ended' \subseteq Background /\ stopping' \in BOOLEAN
      /\ UNCHANGED <<owner, callers, senders, dropped>>
  BY DEF FlowParts, TypesOK, LeaveLoop
<1>9. QED BY <1>6, <1>7, <1>8, QuietStep

LEMMA CallKeeps ==
  ASSUME FlowParts, NEW t \in AllThreads, CallFunction(t)
  PROVE  FlowParts'
<1> DEFINE f == Head(todo[t])
<1>1. /\ todo[t] # <<>> /\ f.op = "call" /\ StacksOK
      /\ UNCHANGED <<owner, callers, senders, toldToStop, ended, stopping, dropped>>
  BY DEF CallFunction, Before, FlowParts
<1>2. PICK s \in Ways(f) : GoOn(t, s)
  BY DEF CallFunction
<1>3. /\ f \in Frames(t) /\ f \in Calls \cup Shutdowns
      /\ \A g : Has(todo[t], g) <=> g = f \/ Has(Tail(todo[t]), g)
  BY <1>1, HeadFits, Kinds
<1>4. /\ s \in Seq(Frames(t)) /\ s \in Seq(Begun \cup MainBegun)
      /\ \A i \in 1 .. Len(s) : Under(s[i], f)
  <2>1. CASE t # MainThread
    <3>1. f \in Calls
      BY <1>1, <1>3, <2>1 DEF Frames, WorkFrames, Begun, Sends, Calls, Guards, Returns, Unlocks, Sents
    <3>2. Keeps(s, Floor(f), SenderFloor(f))
      BY <3>1, WaysKeep
    <3>3. Begun \subseteq Frames(t)
      BY <2>1 DEF Frames, WorkFrames
    <3>4. s \in Seq(Begun) /\ \A i \in 1 .. Len(s) : Under(s[i], f)
      BY <3>2 DEF Keeps, Under
    <3>5. QED BY <3>3, <3>4
  <2>2. CASE t = MainThread
    <3>1. f \in Shutdowns
      BY <1>1, <1>3, <2>2 DEF Frames, MainFrames, MainBegun, Shutdowns, Stops, JoinFrames, BareLocks, Unlocks
    <3>2. s \in Seq(MainBegun) /\ \A i \in 1 .. Len(s) : Under(s[i], f)
      BY <3>1, ShutdownFits
    <3>3. MainBegun \subseteq Frames(t)
      BY <2>2 DEF Frames, MainFrames
    <3>4. QED BY <3>2, <3>3
  <2>3. QED BY <2>1, <2>2
<1>5. /\ Ordered(s)
      /\ \A x : ~ Has(s, Step("unlock", x)) /\ ~ Has(s, Step("sent", x))
  BY <1>4, BegunAnew
<1>6. /\ StacksOK'
      /\ \A u \in AllThreads : u # t => todo'[u] = todo[u]
      /\ \A g : Has(todo'[t], g) <=> Has(s, g) \/ Has(Tail(todo[t]), g)
  BY <1>1, <1>2, <1>4, <1>5, Replaced
<1>7. \A x : Step("unlock", x) # f /\ Step("sent", x) # f
  BY <1>1 DEF Step
<1>8. \A u \in AllThreads : \A x :
        /\ Has(todo'[u], Step("unlock", x)) <=> Has(todo[u], Step("unlock", x))
        /\ Has(todo'[u], Step("sent", x)) <=> Has(todo[u], Step("sent", x))
  BY ONLY <1>3, <1>5, <1>6, <1>7
<1>9. /\ toldToStop' \subseteq Background /\ ended' \subseteq Background /\ stopping' \in BOOLEAN
      /\ UNCHANGED <<owner, callers, senders, dropped>>
  BY <1>1 DEF FlowParts, TypesOK
<1>10. QED BY <1>6, <1>8, <1>9, QuietStep

\* Tell, Return and Join.
LEMMA StopKeeps ==
  ASSUME FlowParts, NEW t \in AllThreads, Tell(t) \/ Return(t) \/ Join(t)
  PROVE  FlowParts'
<1> DEFINE f == Head(todo[t])
<1>1. /\ todo[t] # <<>> /\ f.op \in {"stop", "return", "join"} /\ StacksOK /\ Done(t)
      /\ UNCHANGED <<owner, callers, senders, stopping, dropped>>
  BY DEF Tell, Return, Join, Before, FlowParts
<1>2. /\ f \in Frames(t) /\ f \in AllFrames
      /\ \A g : Has(todo[t], g) <=> g = f \/ Has(Tail(todo[t]), g)
  BY <1>1, HeadFits
<1>3. /\ StacksOK'
      /\ \A u \in AllThreads : u # t => todo'[u] = todo[u]
      /\ \A g : Has(todo'[t], g) <=> Has(Tail(todo[t]), g)
  BY <1>1, Popped
<1>4. \A x : Step("unlock", x) # f /\ Step("sent", x) # f
  BY <1>1 DEF Step
<1>5. \A u \in AllThreads : \A x :
        /\ Has(todo'[u], Step("unlock", x)) <=> Has(todo[u], Step("unlock", x))
        /\ Has(todo'[u], Step("sent", x)) <=> Has(todo[u], Step("sent", x))
  BY ONLY <1>2, <1>3, <1>4
<1>6. toldToStop' \subseteq Background /\ ended' \subseteq Background
  <2>1. f.op = "stop" => f.on \in Background
    BY <1>2, Kinds DEF Stops
  <2>2. f.op = "return" => t \in Background
    <3>1. \A g \in MainFrames : g.op # "return"
      BY DEF MainFrames, MainBegun, Shutdowns, Stops, JoinFrames, BareLocks, Unlocks
    <3>2. QED BY <1>2, <3>1 DEF Frames, AllThreads
  <2>3. toldToStop \subseteq Background /\ ended \subseteq Background
    BY DEF FlowParts, TypesOK
  <2>4. QED BY <2>1, <2>2, <2>3 DEF Tell, Return, Join, Before, Object
<1>7. stopping' \in BOOLEAN
  BY <1>1 DEF FlowParts, TypesOK
<1>8. QED BY <1>1, <1>3, <1>5, <1>6, <1>7, QuietStep

LEMMA AcquireKeeps ==
  ASSUME FlowParts, NEW t \in AllThreads, Acquire(t)
  PROVE  FlowParts'
<1> DEFINE f == Head(todo[t])  l == f.on  s == Append(f.section, Step("unlock", f.on))
<1>1. /\ todo[t] # <<>> /\ f.op = "lock" /\ StacksOK /\ owner[l] = Nobody
      /\ GoOn(t, s) /\ owner' = [owner EXCEPT ![l] = t]
      /\ UNCHANGED <<callers, senders, toldToStop, ended, stopping, dropped>>
  BY DEF Acquire, Before, FlowParts, Object
<1>2. /\ f \in Frames(t) /\ f \in Guards \cup BareLocks
      /\ \A g : Has(todo[t], g) <=> g = f \/ Has(Tail(todo[t]), g)
  BY <1>1, HeadFits, Kinds
<1>3. f \in Guards /\ (t = MainThread => f \in BareLocks)
  <2>1. ASSUME f \in BareLocks PROVE f \in Guards
    <3>1. f = Lock(f.on, <<>>) /\ f.on \in Locks
      BY <2>1 DEF BareLocks, Lock
    <3>2. QED BY <3>1, BareLockFits
  <2>2. ASSUME t = MainThread PROVE f \in BareLocks
    BY <1>1, <1>2, <2>2 DEF Frames, MainFrames, MainBegun, Shutdowns, Stops, JoinFrames, BareLocks, Unlocks
  <2>3. QED BY <1>2, <2>1, <2>2
<1>4. /\ l \in Locks /\ s \in Seq(WorkFrames) /\ Ordered(s)
      /\ \A i \in 1 .. Len(s) : Under(s[i], f)
      /\ \A x : Has(s, Step("unlock", x)) <=> x = l
      /\ \A x : ~ Has(s, Step("sent", x))
  BY <1>3, SectionFits DEF Guards
<1>5. s \in Seq(Frames(t))
  <2>1. CASE t # MainThread
    BY <1>4, <2>1 DEF Frames
  <2>2. CASE t = MainThread
    <3>1. f.section = <<>> /\ Step("unlock", f.on) \in MainFrames
      BY <1>3, <2>2 DEF BareLocks, MainFrames, Unlocks, Step
    <3>2. \A x \in MainFrames : Append(<<>>, x) \in Seq(MainFrames)
      OBVIOUS
    <3>3. Append(f.section, Step("unlock", f.on)) \in Seq(MainFrames)
      BY ONLY <3>1, <3>2
    <3>4. QED BY <2>2, <3>3 DEF Frames
  <2>3. QED BY <2>1, <2>2
<1> HIDE DEF s, l, f
<1>6. /\ StacksOK'
      /\ \A u \in AllThreads : u # t => todo'[u] = todo[u]
      /\ \A g : Has(todo'[t], g) <=> Has(s, g) \/ Has(Tail(todo[t]), g)
  BY <1>1, <1>4, <1>5, Replaced DEF f
<1>7. \A x : Step("unlock", x) # f /\ Step("sent", x) # f
  BY <1>1 DEF Step
<1>8. /\ \A x : Has(todo'[t], Step("unlock", x)) <=> x = l \/ Has(todo[t], Step("unlock", x))
      /\ \A x : Has(todo'[t], Step("sent", x)) <=> Has(todo[t], Step("sent", x))
  BY ONLY <1>2, <1>4, <1>6, <1>7
<1>9. TypesOK'
  BY <1>1, <1>4 DEF FlowParts, TypesOK
<1>10. OwnersOK'
  <2> SUFFICES ASSUME NEW k \in Locks, NEW u \in AllThreads
               PROVE  owner'[k] = u <=> Has(todo'[u], Step("unlock", k))
    BY DEF OwnersOK
  <2>1. /\ owner'[k] = IF k = l THEN t ELSE owner[k]
        /\ owner[k] = u <=> Has(todo[u], Step("unlock", k))
        /\ owner[l] = u <=> Has(todo[u], Step("unlock", l))
    BY <1>1, <1>4 DEF FlowParts, TypesOK, OwnersOK
  <2>2. u # Nobody
    BY ThreadKinds
  <2>3. CASE u = t
    BY <1>1, <1>8, <2>1, <2>2, <2>3
  <2>4. CASE u # t
    BY <1>1, <1>6, <2>1, <2>2, <2>4
  <2>5. QED BY <2>3, <2>4
<1>11. CallersOK'
  <2>1. \A u \in Background : SentIn(todo'[u]) = SentIn(todo[u])
    BY <1>6, <1>8, ThreadKinds DEF SentIn
  <2>2. QED BY <1>1, <2>1 DEF FlowParts, CallersOK
<1>12. QED BY <1>6, <1>9, <1>10, <1>11 DEF FlowParts

LEMMA ReleaseKeeps ==
  ASSUME FlowParts, NEW t \in AllThreads, Release(t)
  PROVE  FlowParts'
<1> DEFINE f == Head(todo[t])  l == f.on
<1>1. /\ todo[t] # <<>> /\ f.op = "unlock" /\ StacksOK
      /\ Done(t) /\ owner' = [owner EXCEPT ![l] = Nobody]
      /\ UNCHANGED <<callers, senders, toldToStop, ended, stopping, dropped>>
  BY DEF Release, Before, FlowParts, Object
<1>2. /\ todo[t] \in Seq(Frames(t)) /\ Ordered(todo[t]) /\ f \in AllFrames
      /\ \A g : Has(todo[t], g) <=> g = f \/ Has(Tail(todo[t]), g)
  BY <1>1, HeadFits
<1>3. f = Step("unlock", l) /\ l \in Locks
  BY <1>1, <1>2, Kinds
<1>4. ~ Has(Tail(todo[t]), Step("unlock", l))
  BY <1>1, <1>2, <1>3, Once
<1>5. /\ StacksOK'
      /\ \A u \in AllThreads : u # t => todo'[u] = todo[u]
      /\ \A g : Has(todo'[t], g) <=> Has(Tail(todo[t]), g)
  BY <1>1, Popped
<1>6. \A x : (Step("unlock", x) = f <=> x = l) /\ Step("sent", x) # f
  BY <1>3 DEF Step
<1> HIDE DEF l, f
<1>7. /\ \A x : Has(todo'[t], Step("unlock", x)) <=> x # l /\ Has(todo[t], Step("unlock", x))
      /\ \A x : Has(todo'[t], Step("sent", x)) <=> Has(todo[t], Step("sent", x))
  BY ONLY <1>2, <1>4, <1>5, <1>6
<1>8. Has(todo[t], Step("unlock", l))
  BY ONLY <1>2, <1>3
<1>9. TypesOK'
  BY <1>1, <1>3 DEF FlowParts, TypesOK
<1>10. OwnersOK'
  <2> SUFFICES ASSUME NEW k \in Locks, NEW u \in AllThreads
               PROVE  owner'[k] = u <=> Has(todo'[u], Step("unlock", k))
    BY DEF OwnersOK
  <2>1. /\ owner'[k] = IF k = l THEN Nobody ELSE owner[k]
        /\ owner[k] = u <=> Has(todo[u], Step("unlock", k))
        /\ owner[l] = u <=> Has(todo[u], Step("unlock", l))
        /\ owner[l] = t
    BY <1>1, <1>3, <1>8 DEF FlowParts, TypesOK, OwnersOK
  <2>2. u # Nobody
    BY ThreadKinds
  <2>3. CASE u = t
    BY <1>7, <2>1, <2>2, <2>3
  <2>4. CASE u # t
    BY <1>5, <2>1, <2>2, <2>4
  <2>5. QED BY <2>3, <2>4
<1>11. CallersOK'
  <2>1. \A u \in Background : SentIn(todo'[u]) = SentIn(todo[u])
    BY <1>5, <1>7, ThreadKinds DEF SentIn
  <2>2. QED BY <1>1, <2>1 DEF FlowParts, CallersOK
<1>12. QED BY <1>5, <1>9, <1>10, <1>11 DEF FlowParts

LEMMA SendKeeps ==
  ASSUME FlowParts, NEW t \in AllThreads, SendMessage(t)
  PROVE  FlowParts'
<1> DEFINE f == Head(todo[t])  from == f.on  s == Append(Handle(f), Step("sent", f.on))
<1>1. /\ todo[t] # <<>> /\ f.op = "send" /\ StacksOK
      /\ UNCHANGED <<owner, toldToStop, ended, stopping>>
  BY DEF SendMessage, Before, FlowParts
<1>2. /\ todo[t] \in Seq(Frames(t)) /\ Ordered(todo[t]) /\ f \in Frames(t) /\ f \in Sends
      /\ \A g : Has(todo[t], g) <=> g = f \/ Has(Tail(todo[t]), g)
  BY <1>1, HeadFits, Kinds
<1>3. t \in Background /\ t # MainThread
  <2>1. \A g \in MainFrames : g.op # "send"
    BY DEF MainFrames, MainBegun, Shutdowns, Stops, JoinFrames, BareLocks, Unlocks
  <2>2. QED BY <1>1, <1>2, <2>1 DEF Frames, AllThreads
<1>4. /\ from \in Senders /\ s \in Seq(WorkFrames) /\ Ordered(s)
      /\ \A i \in 1 .. Len(s) : Under(s[i], f)
      /\ \A x : Has(s, Step("sent", x)) <=> x = from
      /\ \A x : ~ Has(s, Step("unlock", x))
  BY <1>2, MessageFits DEF Sends
<1>5. ~ Has(todo[t], Step("sent", from))
  BY <1>1, <1>2, Once
<1> HIDE DEF s, from, f
<1>6. from \notin SentIn(todo[t])
  BY <1>5 DEF SentIn
<1>7. ~ (t \in callers /\ from \in senders[t])
  BY <1>3, <1>6 DEF FlowParts, CallersOK
<1>8. /\ callers' = callers \cup {t}
      /\ senders' = [senders EXCEPT ![t] = (IF t \in callers THEN @ ELSE {}) \cup {from}]
      /\ GoOn(t, s) /\ UNCHANGED dropped
  BY <1>7 DEF SendMessage, Object, from, f, s
<1>9. s \in Seq(Frames(t))
  BY <1>3, <1>4 DEF Frames
<1>10. /\ StacksOK'
       /\ \A u \in AllThreads : u # t => todo'[u] = todo[u]
       /\ \A g : Has(todo'[t], g) <=> Has(s, g) \/ Has(Tail(todo[t]), g)
  BY <1>1, <1>4, <1>8, <1>9, Replaced DEF f
<1>11. \A x : Step("unlock", x) # f /\ Step("sent", x) # f
  BY <1>1 DEF Step
<1>12. /\ \A x : Has(todo'[t], Step("unlock", x)) <=> Has(todo[t], Step("unlock", x))
       /\ \A x : Has(todo'[t], Step("sent", x)) <=> x = from \/ Has(todo[t], Step("sent", x))
  BY ONLY <1>2, <1>4, <1>10, <1>11
<1>13. OwnersOK'
  BY <1>1, <1>10, <1>12 DEF FlowParts, OwnersOK
<1>14. senders[t] \in SUBSET Senders /\ senders \in [AllThreads -> SUBSET Senders]
  BY DEF FlowParts, TypesOK
<1>15. TypesOK'
  <2>1. senders' \in [AllThreads -> SUBSET Senders]
    BY <1>4, <1>8, <1>14
  <2>2. QED BY <1>1, <1>3, <1>8, <2>1 DEF FlowParts, TypesOK
<1>16. CallersOK'
  <2>1. SentIn(todo'[t]) = SentIn(todo[t]) \cup {from}
    BY <1>4, <1>12 DEF SentIn
  <2>2. /\ t \in callers <=> SentIn(todo[t]) # {}
        /\ t \in callers => senders[t] = SentIn(todo[t])
    BY <1>3 DEF FlowParts, CallersOK
  <2>3. senders'[t] = SentIn(todo'[t]) /\ t \in callers' /\ SentIn(todo'[t]) # {}
    BY <1>8, <1>14, <2>1, <2>2
  <2>4. ASSUME NEW u \in Background, u # t
        PROVE  /\ u \in callers' <=> SentIn(todo'[u]) # {}
               /\ u \in callers' => senders'[u] = SentIn(todo'[u])
    <3>1. todo'[u] = todo[u] /\ senders'[u] = senders[u] /\ (u \in callers' <=> u \in callers)
      BY <1>8, <1>10, <1>14, <2>4, ThreadKinds
    <3>2. QED BY <3>1 DEF FlowParts, CallersOK
  <2>5. ~ dropped'
    BY <1>8 DEF FlowParts, CallersOK
  <2>6. QED BY <2>3, <2>4, <2>5 DEF CallersOK
<1>17. QED BY <1>10, <1>13, <1>15, <1>16 DEF FlowParts

LEMMA SentKeeps ==
  ASSUME FlowParts, NEW t \in AllThreads, Sent(t)
  PROVE  FlowParts'
<1> DEFINE f == Head(todo[t])  from == f.on
<1>1. /\ todo[t] # <<>> /\ f.op = "sent" /\ StacksOK /\ Done(t)
      /\ UNCHANGED <<owner, toldToStop, ended, stopping, dropped>>
      /\ senders' = [senders EXCEPT ![t] = @ \ {from}]
      /\ callers' = IF senders'[t] = {} THEN callers \ {t} ELSE callers
  BY DEF Sent, Before, FlowParts, Object
<1>2. /\ todo[t] \in Seq(Frames(t)) /\ Ordered(todo[t]) /\ f \in Frames(t) /\ f \in AllFrames
      /\ \A g : Has(todo[t], g) <=> g = f \/ Has(Tail(todo[t]), g)
  BY <1>1, HeadFits
<1>3. f = Step("sent", from) /\ from \in Senders
  BY <1>1, <1>2, Kinds
<1>4. t \in Background /\ t # MainThread
  <2>1. \A g \in MainFrames : g.op # "sent"
    BY DEF MainFrames, MainBegun, Shutdowns, Stops, JoinFrames, BareLocks, Unlocks
  <2>2. QED BY <1>1, <1>2, <2>1 DEF Frames, AllThreads
<1>5. ~ Has(Tail(todo[t]), Step("sent", from))
  BY <1>1, <1>2, <1>3, Once
<1>6. /\ StacksOK'
      /\ \A u \in AllThreads : u # t => todo'[u] = todo[u]
      /\ \A g : Has(todo'[t], g) <=> Has(Tail(todo[t]), g)
  BY <1>1, Popped
<1>7. \A x : (Step("sent", x) = f <=> x = from) /\ Step("unlock", x) # f
  BY <1>3 DEF Step
<1> HIDE DEF from, f
<1>8. /\ \A x : Has(todo'[t], Step("sent", x)) <=> x # from /\ Has(todo[t], Step("sent", x))
      /\ \A x : Has(todo'[t], Step("unlock", x)) <=> Has(todo[t], Step("unlock", x))
      /\ Has(todo[t], Step("sent", from))
  BY ONLY <1>2, <1>3, <1>5, <1>6, <1>7
<1>9. OwnersOK'
  BY <1>1, <1>6, <1>8 DEF FlowParts, OwnersOK
<1>10. senders[t] \in SUBSET Senders /\ senders \in [AllThreads -> SUBSET Senders]
  BY DEF FlowParts, TypesOK
<1>11. TypesOK'
  <2>1. senders' \in [AllThreads -> SUBSET Senders]
    BY <1>1, <1>10
  <2>2. QED BY <1>1, <2>1 DEF FlowParts, TypesOK
<1>12. CallersOK'
  <2>1. SentIn(todo'[t]) = SentIn(todo[t]) \ {from} /\ from \in SentIn(todo[t])
    BY <1>3, <1>8 DEF SentIn
  <2>2. t \in callers /\ senders[t] = SentIn(todo[t])
    BY <1>4, <2>1 DEF FlowParts, CallersOK
  <2>3. senders'[t] = SentIn(todo'[t]) /\ (t \in callers' <=> SentIn(todo'[t]) # {})
    BY <1>1, <1>10, <2>1, <2>2
  <2>4. ASSUME NEW u \in Background, u # t
        PROVE  /\ u \in callers' <=> SentIn(todo'[u]) # {}
               /\ u \in callers' => senders'[u] = SentIn(todo'[u])
    <3>1. todo'[u] = todo[u] /\ senders'[u] = senders[u] /\ (u \in callers' <=> u \in callers)
      BY <1>1, <1>6, <1>10, <2>4, ThreadKinds
    <3>2. QED BY <3>1 DEF FlowParts, CallersOK
  <2>5. ~ dropped'
    BY <1>1 DEF FlowParts, CallersOK
  <2>6. QED BY <2>3, <2>4, <2>5 DEF CallersOK
<1>13. QED BY <1>6, <1>9, <1>11, <1>12 DEF FlowParts

LEMMA FlowGoesOn ==
  FlowParts /\ [FlowNext]_flowVars => FlowParts'
<1> SUFFICES ASSUME FlowParts, [FlowNext]_flowVars PROVE FlowParts'
  OBVIOUS
<1>1. ASSUME NEW t \in AllThreads, Alone(t) PROVE FlowParts'
  BY <1>1, CallKeeps, ReleaseKeeps, SendKeeps, SentKeeps DEF Alone
<1>2. CASE LeaveLoop
  BY <1>2, LeaveLoopKeeps
<1>3. ASSUME NEW t \in AllThreads, AmongOthers(t) PROVE FlowParts'
  BY <1>3, BeginKeeps, AcquireKeeps, StopKeeps DEF AmongOthers
<1>4. CASE UNCHANGED flowVars
  BY <1>4 DEF flowVars, FlowParts, TypesOK, OwnersOK, StacksOK, CallersOK
<1>5. QED BY <1>1, <1>2, <1>3, <1>4 DEF FlowNext

LEMMA FlowHolds ==
  FlowSpec => []FlowParts
<1>1. QED BY FlowStart, FlowGoesOn, PTL DEF FlowSpec
-----------------------------------------------------------------------------
(* Who waits for whom.                                                     *)

\* What holds a thread up: how high in the order of mutexes it wants to go.
Height(t) == Floor(Head(todo[t]))

\* A thread that is waited for, and waits itself, wants to go higher.
LEMMA WaitersClimb ==
  ASSUME FlowParts, NEW t \in AllThreads, WaitsFor(t) # Nobody,
         WaitsFor(WaitsFor(t)) # Nobody, WaitsFor(t) \in AllThreads
  PROVE  Height(t) \in 0 .. 3 /\ Height(WaitsFor(t)) > Height(t)
<1> DEFINE f == Head(todo[t])  u == WaitsFor(t)  g == Head(todo[u])
<1>1. \A v : WaitsFor(v) # Nobody =>
               /\ todo[v] # <<>> /\ Head(todo[v]).op \in {"lock", "join"}
               /\ Head(todo[v]).op = "lock" => WaitsFor(v) = owner[Head(todo[v]).on]
               /\ Head(todo[v]).op = "join" => WaitsFor(v) = Head(todo[v]).on
  BY DEF WaitsFor, Before, Object
<1>2. /\ todo[t] # <<>> /\ f.op \in {"lock", "join"}
      /\ f.op = "lock" => u = owner[f.on]
      /\ f.op = "join" => u = f.on
      /\ todo[u] # <<>> /\ g.op \in {"lock", "join"} /\ u \in AllThreads
  BY <1>1
<1>3. /\ f \in Frames(t) /\ f \in AllFrames
      /\ g \in Frames(u) /\ g \in AllFrames
      /\ todo[u] \in Seq(Frames(u)) /\ Ordered(todo[u])
      /\ \A h : Has(todo[u], h) <=> h = g \/ Has(Tail(todo[u]), h)
  BY <1>2, HeadFits DEF FlowParts
<1>4. /\ f.op = "lock" => f.on \in Locks /\ Floor(f) = Rank(f.on)
      /\ f.op = "join" => f.on \in Background /\ Floor(f) = 0
      /\ g.op = "lock" => Floor(g) = Rank(g.on)
  <2>1. \A h \in Guards \cup BareLocks : h.on \in Locks
    BY DEF Guards, BareLocks
  <2>2. \A h \in JoinFrames : h.on \in Background
    BY DEF JoinFrames
  <2>3. QED BY <1>3, <2>1, <2>2, Kinds DEF Floor
<1> HIDE DEF f, u, g
<1>5. CASE f.op = "join"
  <2>1. u \in Background /\ u # MainThread
    BY <1>2, <1>4, <1>5, ThreadKinds
  <2>2. \A h \in WorkFrames : h.op # "join"
    BY DEF WorkFrames, Begun, Sends, Calls, Guards, Returns, Unlocks, Sents
  <2>3. g.op = "lock"
    BY <1>2, <1>3, <2>1, <2>2 DEF Frames
  <2>4. Floor(f) = 0 /\ Floor(g) \in 1 .. 3
    BY <1>4, <1>5, <2>3, Floors
  <2>5. QED BY <2>4 DEF Height, f, u, g
<1>6. CASE f.op = "lock"
  <2> DEFINE k == Step("unlock", f.on)
  <2>1. Has(todo[u], k) /\ g # k
    <3>1. owner[f.on] = u
      BY <1>2, <1>6
    <3>2. Has(todo[u], k)
      BY <1>2, <1>4, <1>6, <3>1 DEF FlowParts, OwnersOK
    <3>3. k.op = "unlock"
      BY DEF Step
    <3>4. QED BY <1>2, <3>2, <3>3
  <2>2. k.op = "unlock" /\ k.on = f.on
    BY DEF Step
  <2> HIDE DEF k
  <2>3. PICK i \in 1 .. Len(todo[u]) : todo[u][i] = k
    BY <1>3, <2>1 DEF Has
  <2>4. g = todo[u][1] /\ Len(todo[u]) \in Nat
    BY <1>2, <1>3, HeadAndRest DEF g
  <2>5. 1 \in 1 .. Len(todo[u]) /\ 1 < i
    BY <2>1, <2>3, <2>4
  <2>6. Above(g, k)
    BY <1>3, <2>3, <2>4, <2>5 DEF Ordered
  <2>7. Floor(g) > Rank(f.on) /\ Rank(f.on) \in 1 .. 3
    BY <2>2, <2>6, Floors DEF Above
  <2>8. QED BY <1>4, <1>6, <2>7 DEF Height, f, u, g
<1>7. QED BY <1>2, <1>5, <1>6

\* A set of threads in which each waits for one of the set would climb on.
LEMMA NoClosedSet ==
  ASSUME FlowParts, NEW S, S \subseteq AllThreads,
         \A t \in S : WaitsFor(t) # Nobody /\ WaitsFor(t) \in S
  PROVE  S = {}
<1>1. \A t \in S : Height(t) \in 0 .. 3 /\ WaitsFor(t) \in S /\ Height(WaitsFor(t)) > Height(t)
  BY WaitersClimb
<1>2. \A t \in S : Height(t) # 3
  BY <1>1
<1>3. \A t \in S : Height(t) # 2
  BY <1>1, <1>2
<1>4. \A t \in S : Height(t) # 1
  BY <1>1, <1>2, <1>3
<1>5. \A t \in S : Height(t) # 0
  BY <1>1, <1>2, <1>3, <1>4
<1>6. \A n \in 0 .. 3 : n = 0 \/ n = 1 \/ n = 2 \/ n = 3
  OBVIOUS
<1>7. \A t \in S : FALSE
  BY ONLY <1>1, <1>2, <1>3, <1>4, <1>5, <1>6
<1>8. QED BY <1>7

LEMMA NoCircle ==
  FlowParts => NoCircularWait
<1> DEFINE waiting == {t \in AllThreads : WaitsFor(t) # Nobody}
<1>1. ASSUME FlowParts, NEW S \in (SUBSET waiting) \ {{}} PROVE \E t \in S : WaitsFor(t) \notin S
  <2>1. S # {}
    BY Zenon
  <2>2. S \subseteq waiting
    BY Zenon
  <2>3. S \subseteq AllThreads /\ \A t \in S : WaitsFor(t) # Nobody
    BY <2>2
  <2>4. QED BY <1>1, <2>1, <2>3, NoClosedSet
<1>2. QED BY <1>1 DEF NoCircularWait

\* A mutex is held by the thread that has still to release it, for every
\* number of ports, with and without UDP.
THEOREM FlowTypeCorrect == FlowSpec => []FlowTypeOK
<1>1. FlowParts => FlowTypeOK
  BY PartsAreAll DEF FlowIInv
<1>2. QED BY <1>1, FlowHolds, PTL

\* The threads of the client never wait for each other in a circle.
THEOREM NoDeadlock == FlowSpec => []NoCircularWait
<1>1. QED BY NoCircle, FlowHolds, PTL

\* The recursion guard of the debug build drops no message.
THEOREM NoMessageIsDropped == FlowSpec => []GuardIsExact
<1>1. FlowParts => GuardIsExact
  BY PartsAreAll DEF FlowIInv
<1>2. QED BY <1>1, FlowHolds, PTL
=============================================================================
