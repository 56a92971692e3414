----------------------------- MODULE RxPipeline -----------------------------
(***************************************************************************)
(* RxPipeline (src/rx/RxPipeline.cpp) with the dsd-neo engine: start(),    *)
(* stop() and the destructor on the control thread (the GUI, or main() of  *)
(* uplink_test), dsd_engine_run() on a thread of its own, and the thread   *)
(* that reads the stderr the engine prints to.                             *)
(*                                                                         *)
(* The control thread and the engine share m_running and the engine's      *)
(* global exitflag, which either may set and the engine also clears as it  *)
(* comes up.  stderr is redirected into a pipe for as long as capture is   *)
(* on; a line is the unit of what the engine prints and the reader logs.   *)
(* A thread object is joinable from its creation to the join, whether or   *)
(* not its thread has ended: assigning to it, or destroying it, then       *)
(* terminates the program.                                                 *)
(*                                                                         *)
(* Responses are counted: ControlChannel says what happens to each.  The    *)
(* log of the requests is left out.                                        *)
(***************************************************************************)
EXTENDS Integers

CONSTANTS
  PipeCap,      \* lines the pipe holds before a write to it blocks
  QueueCap,     \* capacity of ControlChannel's m_tsbkQueue
  MaxRequests   \* bound of the model: requests decoded in a behaviour

ASSUME RxAssumption ==
  PipeCap \in Nat \ {0} /\ QueueCap \in Nat /\ MaxRequests \in Nat

VARIABLES
  cpc,                   \* control thread: place inside a call
  running, exitflag,     \* m_running; the engine's exitflag
  epc,                   \* engine thread: place; "done" is ended, not joined
  reader,                \* stderr reader thread
  capture, pipe,         \* stderr goes into the pipe; lines in the pipe
  savedFd,               \* m_stderrSavedFd >= 0: stderr can be restored
  alive,                 \* *m_opts and *m_state exist
  ispHook, writeHook,    \* who has installed the engine's hooks
  handler,               \* whose handler SIGINT and SIGTERM call
  waiting,               \* m_tsbkQueue.size()
  requests               \* history: requests answered

lifeVars == <<cpc, running, alive, ispHook>>
pipeVars == <<capture, pipe, savedFd>>
flagVars == <<exitflag, writeHook, handler>>
respVars == <<waiting, requests>>
vars     == <<lifeVars, pipeVars, flagVars, respVars, epc, reader>>

TypeOK ==
  /\ cpc \in {"idle", "capture", "spawn", "flag", "join", "restore",
              "joinReader", "clear", "dead", "terminated"}
  /\ running \in BOOLEAN /\ exitflag \in BOOLEAN
  /\ epc \in {"none", "spawned", "hooks", "setup", "open", "scan", "print",
              "respond", "cleanup", "stats", "leave", "done"}
  /\ reader \in {"none", "reading", "done"}
  /\ capture \in BOOLEAN /\ pipe \in 0 .. PipeCap /\ savedFd \in BOOLEAN
  /\ alive \in BOOLEAN
  /\ ispHook \in {"none", "site"} /\ writeHook \in {"none", "site", "engine"}
  /\ handler \in {"app", "engine"}
  /\ waiting \in 0 .. QueueCap /\ requests \in 0 .. MaxRequests

Init ==
  /\ cpc = "idle" /\ running = FALSE /\ exitflag = FALSE
  /\ epc = "none" /\ reader = "none" /\ capture = FALSE /\ pipe = 0 /\ savedFd = FALSE
  /\ alive = FALSE /\ ispHook = "none" /\ writeHook = "none" /\ handler = "app"
  /\ waiting = 0 /\ requests = 0

Up == cpc \notin {"dead", "terminated"}

-----------------------------------------------------------------------------
(* The control thread.                                                     *)

Start ==
  /\ cpc = "idle" /\ ~running
  /\ alive' = TRUE /\ ispHook' = "site" /\ writeHook' = "site"
  /\ running' = TRUE /\ exitflag' = FALSE
  /\ cpc' = "capture"
  /\ UNCHANGED <<handler, pipeVars, respVars, epc, reader>>

\* startStderrCapture(): pipe() may fail, and so may dup(), after which capture
\* goes on all the same; assigning m_stderrThread terminates the program if it is
\* still joinable.
Capture ==
  /\ cpc = "capture"
  /\ \/ cpc' = "spawn" /\ UNCHANGED <<pipeVars, reader>>
     \/ /\ capture' = TRUE /\ pipe' = 0 /\ savedFd' \in BOOLEAN
        /\ cpc' = IF reader = "none" THEN "spawn" ELSE "terminated"
        /\ reader' = "reading"
  /\ UNCHANGED <<running, alive, ispHook, flagVars, respVars, epc>>

Spawn ==
  /\ cpc = "spawn"
  /\ cpc' = IF epc = "none" THEN "idle" ELSE "terminated"
  /\ epc' = "spawned"
  /\ UNCHANGED <<running, alive, ispHook, pipeVars, flagVars, respVars, reader>>

\* stop() returns at once unless m_running.
Stop ==
  /\ cpc = "idle" /\ running
  /\ running' = FALSE
  /\ cpc' = "flag"
  /\ UNCHANGED <<alive, ispHook, pipeVars, flagVars, respVars, epc, reader>>

\* Mutant: stop() does not join the engine, nor undo anything.
SetExitOnly ==
  /\ cpc = "flag"
  /\ exitflag' = TRUE
  /\ cpc' = "idle"
  /\ UNCHANGED <<running, alive, ispHook, writeHook, handler, pipeVars, respVars,
                 epc, reader>>

SetExit ==
  /\ cpc = "flag"
  /\ exitflag' = TRUE
  /\ cpc' = "join"
  /\ UNCHANGED <<running, alive, ispHook, writeHook, handler, pipeVars, respVars,
                 epc, reader>>

\* Mutant: stop() goes on without joining the engine.
JoinNot ==
  /\ cpc = "join"
  /\ cpc' = "restore"
  /\ UNCHANGED <<running, alive, ispHook, pipeVars, flagVars, respVars, epc, reader>>

Join ==
  /\ cpc = "join" /\ epc = "done"
  /\ epc' = "none"
  /\ cpc' = "restore"
  /\ UNCHANGED <<running, alive, ispHook, pipeVars, flagVars, respVars, reader>>

\* stopStderrCapture(): stderr restored if it was saved, m_pipeWrite closed, ...
Restore ==
  /\ cpc = "restore"
  /\ capture' = (capture /\ ~savedFd) /\ savedFd' = FALSE
  /\ cpc' = "joinReader"
  /\ UNCHANGED <<running, alive, ispHook, pipe, flagVars, respVars, epc, reader>>

\* Mutant: the read end is closed without waiting for the reader.
JoinReaderNot ==
  /\ cpc = "joinReader"
  /\ reader' = "none"
  /\ cpc' = "clear"
  /\ UNCHANGED <<running, alive, ispHook, pipeVars, flagVars, respVars, epc>>

\* ... the reader joined, if there is one, and the read end closed.
JoinReader ==
  /\ cpc = "joinReader" /\ reader # "reading"
  /\ reader' = "none"
  /\ cpc' = "clear"
  /\ UNCHANGED <<running, alive, ispHook, pipeVars, flagVars, respVars, epc>>

Clear ==
  /\ cpc = "clear"
  /\ alive' = FALSE /\ ispHook' = "none" /\ writeHook' = "none"
  /\ cpc' = "idle"
  /\ UNCHANGED <<running, exitflag, handler, pipeVars, respVars, epc, reader>>

\* The destructor runs stop(), then destroys the members.
Destroy ==
  /\ cpc = "idle" /\ ~running
  /\ cpc' = IF epc = "none" /\ reader = "none" THEN "dead" ELSE "terminated"
  /\ UNCHANGED <<running, alive, ispHook, pipeVars, flagVars, respVars, epc, reader>>

InCall == Capture \/ Spawn \/ SetExit \/ Join \/ Restore \/ JoinReader \/ Clear
Control == Start \/ Stop \/ Destroy \/ InCall

-----------------------------------------------------------------------------
(* The engine thread: engineThread() and dsd_engine_run().                 *)

\* Sockets fail to come up, or exitflag is cleared.
Enter ==
  /\ epc = "spawned"
  /\ \/ epc' = "leave" /\ UNCHANGED exitflag
     \/ epc' = "hooks" /\ exitflag' = FALSE
  /\ UNCHANGED <<writeHook, handler, lifeVars, pipeVars, respVars, reader>>

\* dsd_engine_run_install_hooks() replaces the optional hooks, not the ISP ones.
InstallHooks ==
  /\ epc = "hooks"
  /\ writeHook' = "engine"
  /\ epc' = "setup"
  /\ UNCHANGED <<exitflag, handler, lifeVars, pipeVars, respVars, reader>>

\* common_setup(): may fail or, with no device, raise exitflag; then installs
\* the signal handlers unless exitflag is up.
Setup ==
  /\ epc = "setup"
  /\ \/ epc' = "cleanup" /\ exitflag' \in {exitflag, TRUE} /\ UNCHANGED handler
     \/ epc' = "open" /\ handler' = "engine" /\ ~exitflag /\ UNCHANGED exitflag
  /\ UNCHANGED <<writeHook, lifeVars, pipeVars, respVars, reader>>

\* liveScanner() starts the RTL stream and opens the audio output, or fails.
OpenInput ==
  /\ epc = "open"
  /\ epc' \in {"scan", "cleanup"}
  /\ UNCHANGED <<flagVars, lifeVars, pipeVars, respVars, reader>>

\* A turn of live_scanner_main_loop(): it decodes a request, or prints.
Scan ==
  /\ epc = "scan"
  /\ \/ exitflag /\ epc' = "cleanup"
     \/ ~exitflag /\ epc' = "print"
     \/ ~exitflag /\ ispHook = "site" /\ requests < MaxRequests /\ epc' = "respond"
  /\ UNCHANGED <<flagVars, lifeVars, pipeVars, respVars, reader>>

\* The RTL stream ends, or a signal arrives while the handler is the engine's.
RaiseExit ==
  /\ Up
  /\ epc \in {"scan", "print", "respond"} \/ handler = "engine"
  /\ exitflag' = TRUE
  /\ UNCHANGED <<writeHook, handler, lifeVars, pipeVars, respVars, epc, reader>>

\* A line on stderr; into the pipe it has to wait for room.
Emit(next) ==
  /\ capture => pipe < PipeCap
  /\ pipe' = IF capture THEN pipe + 1 ELSE pipe
  /\ epc' = next
  /\ UNCHANGED <<capture, savedFd, lifeVars, flagVars, respVars, reader>>

PrintLine == epc = "print" /\ Emit("scan")

\* handleIspTsbk() of a GRP_AFF_Q or U_REG_REQ: queueTSBK() drops the response
\* when the queue is full.  The engine then prints the TSBK.
Respond ==
  /\ epc = "respond"
  /\ waiting' = IF waiting < QueueCap THEN waiting + 1 ELSE waiting
  /\ requests' = requests + 1
  /\ epc' = "print"
  /\ UNCHANGED <<lifeVars, pipeVars, flagVars, reader>>

\* dsd_engine_cleanup() raises exitflag and prints statistics.
Cleanup ==
  /\ epc = "cleanup"
  /\ exitflag' = TRUE
  /\ epc' = "stats"
  /\ UNCHANGED <<writeHook, handler, lifeVars, pipeVars, respVars, reader>>

Stats == epc = "stats" /\ Emit("leave")

\* Mutant: m_running is left set when the engine returns.
LeaveRunning ==
  /\ epc = "leave"
  /\ epc' = "done"
  /\ UNCHANGED <<lifeVars, pipeVars, flagVars, respVars, reader>>

\* dsd_engine_run() has returned.
Leave ==
  /\ epc = "leave"
  /\ running' = FALSE
  /\ epc' = "done"
  /\ UNCHANGED <<cpc, alive, ispHook, pipeVars, flagVars, respVars, reader>>

Engine ==
  /\ Up
  /\ \/ Enter \/ InstallHooks \/ Setup \/ OpenInput \/ Scan \/ PrintLine
     \/ Respond \/ Cleanup \/ Stats \/ Leave

-----------------------------------------------------------------------------
(* The reader thread, and the producer of ControlChannel.                  *)

\* Mutant: the reader polls m_running and stops reading too early.
ReadLinesRunning ==
  /\ Up /\ reader = "reading" /\ pipe > 0 /\ running
  /\ \E n \in 1 .. pipe : pipe' = pipe - n
  /\ UNCHANGED <<capture, savedFd, lifeVars, flagVars, respVars, epc, reader>>

\* stderrReaderThread(): read() returns what there is, or blocks, or says
\* that no write end is left.
ReadLines ==
  /\ Up /\ reader = "reading" /\ pipe > 0
  /\ \E n \in 1 .. pipe : pipe' = pipe - n
  /\ UNCHANGED <<capture, savedFd, lifeVars, flagVars, respVars, epc, reader>>

ReadEnd ==
  /\ Up /\ reader = "reading" /\ pipe = 0 /\ ~capture
  /\ reader' = "done"
  /\ UNCHANGED <<lifeVars, pipeVars, flagVars, respVars, epc>>

Reader == ReadLines \/ ReadEnd

TakeResponse ==
  /\ Up /\ waiting > 0
  /\ waiting' = waiting - 1
  /\ UNCHANGED <<requests, lifeVars, pipeVars, flagVars, epc, reader>>

Next == Control \/ Engine \/ RaiseExit \/ Reader \/ TakeResponse

Spec == Init /\ [][Next]_vars

(***************************************************************************)
(* The engine, the reader, and the control thread inside a call run when   *)
(* they can.  No fairness on RaiseExit (devices need not fail and signals  *)
(* need not come), on TakeResponse (the control channel may be off the     *)
(* air) or on the calls themselves.                                        *)
(***************************************************************************)
FairSpec == Spec /\ WF_vars(Engine) /\ WF_vars(Reader) /\ WF_vars(InCall)

-----------------------------------------------------------------------------
(* What the pipeline must keep true.                                       *)

\* The engine and its callbacks only run while dsd_opts, dsd_state and the ISP
\* hook exist: nothing is freed under a running engine, and no hook, of whoever
\* installed it last, outlives them ("so dangling calls cannot fire").
EngineHoldsState ==
  cpc # "terminated" =>
    /\ epc \notin {"none", "done"} => alive /\ ispHook = "site"
    /\ ~alive => ispHook = "none" /\ writeHook = "none"

\* When stop() has returned, every line the engine printed has been logged, the
\* reader is gone and stderr is the terminal again.
CaptureUndone ==
  cpc \in {"clear", "dead"} => ~capture /\ pipe = 0 /\ reader = "none"

\* The engine outlives m_running only under a stop() that will join it: the
\* GUI never sees a stopped pipeline whose engine still decodes.
NoStrayEngine ==
  ~running /\ Up => epc \in {"none", "done"} \/ cpc \in {"flag", "join"}

\* To its callers start() and stop() of the pipeline, with the engine's own end
\* in between, are the single steps of Receiver; the program is only terminated
\* by a call over an engine that ended by itself.  A terminated program keeps
\* the state it was terminated in.
EngineSeen ==
  CASE cpc = "terminated" \/ epc = "done" -> "ended"
    [] cpc # "terminated" /\ epc = "none" -> "none"
    [] OTHER -> "live"
RunningSeen == running /\ cpc \notin {"capture", "spawn", "terminated"}
CallerSeen ==
  CASE cpc \in {"flag", "join"} -> "waiting"
    [] cpc = "terminated" -> "terminated"
    [] OTHER -> "free"

Life == INSTANCE Receiver WITH
  engine <- EngineSeen, shown <- RunningSeen, caller <- CallerSeen
ImplementsReceiver == Life!Spec

\* stop() returns once the engine is past the point where it clears exitflag,
\* even with the pipe full of what it prints while it shuts down.  Only a stderr
\* that could not be saved keeps it, in the join of the reader: still a write end of
\* the pipe, it withholds the end of file that the comment at line 251 counts on.
StopReturns ==
  (cpc = "flag" /\ epc # "spawned") ~>
    (cpc \in {"idle", "dead"} \/ (cpc = "joinReader" /\ capture))

\* An engine that has begun to shut down ends and is seen as stopped, whoever
\* told it to and whether or not anybody calls stop().
EngineEnds == (epc = "cleanup") ~> ((epc \in {"done", "none"} /\ ~running) \/ ~Up)

\* The comment in stop(): exitflag "signals dsd_engine_run() to exit its loop".
EveryStopReturns == (cpc = "join") ~> (cpc # "join")

\* uplink_test: "Press Ctrl-C to stop."  No sequence of start(), stop(), an end
\* of the engine and the destructor terminates the program.
NeverTerminates == cpc # "terminated"
=============================================================================
