----------------------------- MODULE Lifecycle -----------------------------
(***************************************************************************)
(* The life of the client process: Main.cpp from the signal mask on, the   *)
(* start and stop of its threads (WorkerBase.cpp), what the threads of     *)
(* TCPListener, PTYListener and the transports do when they fail           *)
(* (HandleError, which runs ShutdownHandler::OnMessage in their thread),   *)
(* and the symbolic links the terminals leave in the file system.          *)
(*                                                                         *)
(* What a worker does while it runs is in the other modules: here it runs  *)
(* until it sees its flag or fails.  Main.cpp goes through its workers in  *)
(* groups; within a group the order is left open.  The exit code that      *)
(* OnMessage stores is only logged and left out.                           *)
(***************************************************************************)
EXTENDS Integers, Sequences, FiniteSets

CONSTANTS Ports,       \* the PortWorkers
          Listeners,   \* the TCPListeners
          Terminals,   \* the PTYListeners
          UseUDP,      \* option -up
          MaxNudges    \* bound: SIGUSR2 from elsewhere

Transports == {"tcp", "udp"}
Workers == Ports \cup Transports \cup {"timer"} \cup Listeners \cup Terminals
Threads == Workers \cup {"main"}

ASSUME LifecycleAssumption ==
  /\ "main" \notin Workers /\ UseUDP \in BOOLEAN /\ MaxNudges \in Nat
  /\ Terminals \cap (Ports \cup Transports \cup {"timer"} \cup Listeners) = {}

\* The groups in the order of Main.cpp:314-322 and of its lines 351-370.
StartOrder == <<Ports, {"tcp"}, {"udp"}, {"timer"}, Listeners, Terminals>>
StopOrder  == <<Listeners, Terminals, {"timer"}, {"udp"}, {"tcp"}, Ports>>

\* The workers that end when they fail; the timer's sending and the transports go on.
Fragile == Listeners \cup Terminals
Sturdy  == Transports \cup {"timer"}

\* TERM stands for HUP and USR1 as well.
Signals == {"TERM", "USR2", "INT"}

VARIABLES
  main,              \* where main() is
  group, left,       \* its loop: the group and the workers still to do in it
  masked,            \* pthread_sigmask was called
  signals,           \* pending
  shutdownRequested, \* of the ShutdownHandler
  started,           \* the workers whose workerStarted is set
  thread,            \* thread[w], how far the thread of w has come
  shutdownPending,   \* the workers whose flag is set
  report,            \* report[t], where thread t is in OnMessage
  link,              \* link[t], the symbolic link of terminal t
  nudges,            \* how often SIGUSR2 came from elsewhere
  failed,            \* history: workers that failed
  told               \* history: the process was sent a signal to end

mainVars   == <<main, group, left>>
signalVars == <<masked, signals, shutdownRequested>>
workVars   == <<started, thread, shutdownPending, link>>
history    == <<nudges, failed, told>>
vars == <<mainVars, signalVars, workVars, report, history>>

Running == main \notin {"exited", "killed"}

\* A link may be there already: an earlier run that failed or was killed left it.
Init ==
  /\ main = "mask" /\ group = 1 /\ left = StartOrder[1]
  /\ masked = FALSE /\ signals = {} /\ shutdownRequested = FALSE
  /\ started = {} /\ thread = [w \in Workers |-> "none"] /\ shutdownPending = {}
  /\ report = [t \in Threads |-> "no"]
  /\ link \in [Terminals -> {"absent", "present"}]
  /\ nudges = 0 /\ failed = {} /\ told = FALSE

\* Thread t fails: HandleError.
HandleError(t) ==
  /\ report' = [report EXCEPT ![t] = "exchange"]
  /\ failed' = failed \cup {t}
  /\ UNCHANGED <<nudges, told>>

Advance(w, place) == thread' = [thread EXCEPT ![w] = place]

At(w, place) == Running /\ thread[w] = place /\ report[w] = "no"
-----------------------------------------------------------------------------
(* Faulty variants, one plausible slip each.                               *)

\* A worker that could not be set up returns and says nothing.
OpenFailsSilently(w) ==
  /\ At(w, "opening") /\ w \in Fragile
  /\ Advance(w, "done")
  /\ failed' = failed \cup {w}
  /\ UNCHANGED <<mainVars, signalVars, started, shutdownPending, link, report, nudges, told>>

\* Any signal ends the loop.
WaitForAnySignal ==
  /\ main = "wait" /\ report["main"] = "no"
  /\ \/ signals = {} /\ main' = "check" /\ UNCHANGED <<group, left, signals>>
     \/ \E s \in signals :
          /\ signals' = signals \ {s}
          /\ main' = "request" /\ group' = 1 /\ left' = StopOrder[1]
  /\ UNCHANGED <<masked, shutdownRequested, workVars, report, history>>

\* The workers are told to end and not waited for.
JoinAtOnce(w) ==
  /\ main = "join" /\ w \in left
  /\ left' = left \ {w}
  /\ started' = started \ {w}
  /\ shutdownPending' = shutdownPending \cup ({w} \cap started)
  /\ UNCHANGED <<main, group, signalVars, thread, link, report, history>>

\* The mask is not set before the workers start.
MaskForgotten ==
  /\ main = "mask"
  /\ main' = "startup"
  /\ UNCHANGED <<group, left, signalVars, workVars, report, history>>
-----------------------------------------------------------------------------
(* ShutdownHandler::OnMessage, in the thread that failed.                  *)

Exchange(t) ==
  /\ Running /\ report[t] = "exchange"
  /\ report' = [report EXCEPT ![t] = IF shutdownRequested THEN "no" ELSE "kill"]
  /\ shutdownRequested' = TRUE
  /\ UNCHANGED <<mainVars, masked, signals, workVars, history>>

\* kill(getpid(), SIGUSR2)
Kill(t) ==
  /\ Running /\ report[t] = "kill"
  /\ report' = [report EXCEPT ![t] = "no"]
  /\ IF masked THEN signals' = signals \cup {"USR2"} /\ UNCHANGED main
               ELSE main' = "killed" /\ UNCHANGED signals
  /\ UNCHANGED <<group, left, masked, shutdownRequested, workVars, history>>
-----------------------------------------------------------------------------
(* The workers.                                                            *)

\* The thread sets itself up.  A terminal makes its link; without UDP the UDP
\* transport has nothing to do.
Open(w) ==
  /\ At(w, "opening")
  /\ IF w \in Terminals
       THEN link[w] = "absent" /\ link' = [link EXCEPT ![w] = "present"]
       ELSE UNCHANGED link
  /\ Advance(w, IF w = "udp" /\ ~ UseUDP THEN "done" ELSE "running")
  /\ UNCHANGED <<mainVars, signalVars, started, shutdownPending, report, history>>

\* A step of the setup fails, such as bind(), or symlink() when the link exists.
OpenFails(w) ==
  /\ At(w, "opening") /\ w \in Fragile
  /\ Advance(w, "done")
  /\ HandleError(w)
  /\ UNCHANGED <<mainVars, signalVars, started, shutdownPending, link>>

\* An error in the loop ends the worker at once: a terminal leaves its link.
Fail(w) ==
  /\ At(w, "running") /\ w \in Fragile
  /\ Advance(w, "done")
  /\ HandleError(w)
  /\ UNCHANGED <<mainVars, signalVars, started, shutdownPending, link>>

\* No socket could be made: reported, and tried again later.  Bound: once per
\* worker, since OnMessage does nothing the second time.
FailAndGoOn(w) ==
  /\ At(w, "running") /\ w \in Sturdy \ failed
  /\ HandleError(w)
  /\ UNCHANGED <<mainVars, signalVars, workVars>>

\* The loop ends, and a terminal takes its link away.
Finish(w) ==
  /\ At(w, "running") /\ w \in shutdownPending
  /\ Advance(w, "done")
  /\ link' = [t \in Terminals |-> IF t = w THEN "absent" ELSE link[t]]
  /\ UNCHANGED <<mainVars, signalVars, started, shutdownPending, report, history>>

\* One of the calls after the loop fails, with the link gone or not.
FinishFails(w) ==
  /\ At(w, "running") /\ w \in shutdownPending /\ w \in Fragile
  /\ Advance(w, "done")
  /\ \/ UNCHANGED link
     \/ link' = [t \in Terminals |-> IF t = w THEN "absent" ELSE link[t]]
  /\ HandleError(w)
  /\ UNCHANGED <<mainVars, signalVars, started, shutdownPending>>
-----------------------------------------------------------------------------
(* main().                                                                 *)

Mask ==
  /\ main = "mask"
  /\ main' = "startup" /\ masked' = TRUE
  /\ UNCHANGED <<group, left, signals, shutdownRequested, workVars, report, history>>

\* The next group of a loop over all workers, or what comes after it.
NextGroup(loop, order, next, nextOrder) ==
  /\ main = loop /\ left = {} /\ report["main"] = "no"
  /\ IF group < Len(order)
       THEN group' = group + 1 /\ left' = order[group + 1] /\ UNCHANGED main
       ELSE main' = next /\ group' = 1 /\ left' = nextOrder[1]
  /\ UNCHANGED <<signalVars, workVars, report, history>>

Startup(w) ==
  /\ main = "startup" /\ w \in left /\ report["main"] = "no"
  /\ left' = left \ {w}
  /\ started' = started \cup {w}
  /\ Advance(w, "opening")
  /\ UNCHANGED <<main, group, signalVars, shutdownPending, link, report, history>>

\* openpty() fails in PTYListener::Startup, and the worker is not started.
StartupFails(w) ==
  /\ main = "startup" /\ w \in left /\ w \in Terminals /\ report["main"] = "no"
  /\ left' = left \ {w}
  /\ HandleError("main")
  /\ UNCHANGED <<main, group, signalVars, workVars>>

\* sigtimedwait(): a signal that is pending, or a timeout.
Wait ==
  /\ main = "wait" /\ report["main"] = "no"
  /\ \/ signals = {} /\ main' = "check" /\ UNCHANGED <<group, left, signals>>
     \/ /\ "USR2" \in signals
        /\ signals' = signals \ {"USR2"}
        /\ main' = "check" /\ UNCHANGED <<group, left>>
     \/ /\ "TERM" \in signals
        /\ signals' = signals \ {"TERM"}
        /\ main' = "request" /\ group' = 1 /\ left' = StopOrder[1]
  /\ UNCHANGED <<masked, shutdownRequested, workVars, report, history>>

\* if(shutdownHandler.IsShutdownRequested())
Check ==
  /\ main = "check"
  /\ IF shutdownRequested
       THEN main' = "request" /\ group' = 1 /\ left' = StopOrder[1]
       ELSE main' = "wait" /\ UNCHANGED <<group, left>>
  /\ UNCHANGED <<signalVars, workVars, report, history>>

\* A worker that was not started is passed over.
RequestShutdown(w) ==
  /\ main = "request" /\ w \in left
  /\ left' = left \ {w}
  /\ shutdownPending' = shutdownPending \cup ({w} \cap started)
  /\ UNCHANGED <<main, group, signalVars, started, thread, link, report, history>>

\* Shutdown() waits for the thread.
Shutdown(w) ==
  /\ main = "join" /\ w \in left
  /\ w \in started => thread[w] = "done" /\ report[w] = "no"
  /\ left' = left \ {w}
  /\ started' = started \ {w}
  /\ shutdownPending' = shutdownPending \cup ({w} \cap started)
  /\ UNCHANGED <<main, group, signalVars, thread, link, report, history>>
-----------------------------------------------------------------------------
(* The world.                                                              *)

\* A signal from outside.  INT is never in the mask, the others are once it is set.
Signal(s) ==
  /\ Running
  /\ nudges' = IF s = "USR2" THEN nudges + 1 ELSE nudges
  /\ nudges' <= MaxNudges
  /\ IF masked /\ s # "INT"
       THEN signals' = signals \cup {s} /\ UNCHANGED main
       ELSE main' = "killed" /\ UNCHANGED signals
  /\ told' = (told \/ s # "USR2" \/ ~ masked)
  /\ UNCHANGED <<group, left, masked, shutdownRequested, workVars, report, failed>>
-----------------------------------------------------------------------------
Report(t) == Exchange(t) \/ Kill(t)

Worker(w) ==
  Open(w) \/ OpenFails(w) \/ Fail(w) \/ FailAndGoOn(w) \/ Finish(w) \/ FinishFails(w)

Startups == NextGroup("startup", StartOrder, "wait", StopOrder)
              \/ \E w \in Workers : Startup(w) \/ StartupFails(w)

Requests == NextGroup("request", StopOrder, "join", StopOrder)
              \/ \E w \in Workers : RequestShutdown(w)

Joins == NextGroup("join", StopOrder, "exited", StopOrder)
           \/ \E w \in Workers : Shutdown(w)

Main == Mask \/ Startups \/ Wait \/ Check \/ Requests \/ Joins

Next ==
  \/ Main
  \/ \E t \in Threads : Report(t)
  \/ \E w \in Workers : Worker(w)
  \/ \E s \in Signals : Signal(s)

Spec == Init /\ [][Next]_vars

\* Main goes on, and some other thread does as long as one can: all they do is
\* bounded but for the loop of main, so nobody is passed over for ever.
FairSpec ==
  /\ Spec
  /\ WF_vars(Main)
  /\ WF_vars(\/ \E t \in Threads : Report(t)
             \/ \E w \in Workers : Open(w) \/ OpenFails(w) \/ Finish(w) \/ FinishFails(w))
-----------------------------------------------------------------------------
(* Properties.                                                             *)

\* The types; only a worker that was started is ever joined or told to end.
TypeOK ==
  /\ main \in {"mask", "startup", "wait", "check", "request", "join", "exited", "killed"}
  /\ group \in 1 .. 6 /\ left \subseteq Workers
  /\ masked \in BOOLEAN /\ signals \subseteq {"TERM", "USR2"} /\ shutdownRequested \in BOOLEAN
  /\ started \cup shutdownPending \subseteq {w \in Workers : thread[w] # "none"}
  /\ thread \in [Workers -> {"none", "opening", "running", "done"}]
  /\ report \in [Threads -> {"no", "exchange", "kill"}]
  /\ link \in [Terminals -> {"absent", "present"}]
  /\ nudges \in 0 .. MaxNudges /\ failed \subseteq Threads /\ told \in BOOLEAN

\* The process ends only because it was told to or because something failed: a
\* SIGUSR2 from elsewhere does nothing, and the one it sends to itself only wakes
\* it, also when it comes before the loop of main (Main.cpp:298-348).
EndsForCause ==
  /\ main = "killed" => told
  /\ main \in {"request", "join", "exited"} => told \/ failed # {}

\* "Clean shutdown" (Main.cpp:372): no thread is left, and no link but that of a
\* terminal that failed, wherever the request to end met the start of a worker.
NothingLeftBehind ==
  main = "exited" =>
    /\ \A w \in Workers : thread[w] \in {"none", "done"} /\ report[w] = "no"
    /\ \A t \in Terminals : link[t] = "present" => t \in failed \/ thread[t] = "none"

\* A signal, or a failure of any thread at any time, also of several at once or
\* during the start, ends the process (ShutdownHandler.cpp:27-34, Main.cpp:324-371).
ProcessEnds == (told \/ failed # {}) ~> ~ Running
=============================================================================
