-------------------------- MODULE RxPipeline_proofs --------------------------
(***************************************************************************)
(* Proofs about RxPipeline: types, the life of the engine's state, and the *)
(* capture of stderr, for every capacity of the pipe and of the queue.     *)
(*                                                                         *)
(* The inductive invariant says where the control thread can be while an   *)
(* engine lives (LifeInv), that lines are only left in the pipe while the  *)
(* reader reads it (ReaderInv), and that the bound on requests leaves room *)
(* for the one at hand (CountInv).                                         *)
(***************************************************************************)
EXTENDS RxPipeline, TLAPS

EngineLive == epc \notin {"none", "done"}

LifeInv ==
  /\ EngineLive /\ cpc # "terminated" =>
       cpc \in {"idle", "flag", "join"} /\ alive /\ ispHook = "site"
  /\ cpc = "idle" /\ ~running => ~EngineLive
  /\ cpc \in {"capture", "spawn"} => running /\ alive /\ ispHook = "site"
  /\ ~alive /\ cpc # "terminated" => ispHook = "none" /\ writeHook = "none"

ReaderInv ==
  /\ cpc # "terminated" /\ reader # "reading" => ~capture /\ pipe = 0
  /\ cpc \in {"clear", "dead"} => reader = "none"

CountInv == epc = "respond" => requests < MaxRequests

\* TypeOK in three parts: of the control thread, the engine and the streams.
TypeLife ==
  /\ cpc \in {"idle", "capture", "spawn", "flag", "join", "restore",
              "joinReader", "clear", "dead", "terminated"}
  /\ running \in BOOLEAN /\ alive \in BOOLEAN
  /\ ispHook \in {"none", "site"} /\ writeHook \in {"none", "site", "engine"}

TypeEngine ==
  /\ epc \in {"none", "spawned", "hooks", "setup", "open", "scan", "print",
              "respond", "cleanup", "stats", "leave", "done"}
  /\ exitflag \in BOOLEAN /\ handler \in {"app", "engine"}

TypeStream ==
  /\ reader \in {"none", "reading", "done"}
  /\ capture \in BOOLEAN /\ pipe \in 0 .. PipeCap /\ savedFd \in BOOLEAN
  /\ waiting \in 0 .. QueueCap /\ requests \in 0 .. MaxRequests

Types == TypeLife /\ TypeEngine /\ TypeStream

IInv == Types /\ LifeInv /\ ReaderInv /\ CountInv

LEMMA InitOK == Init => IInv
  <1> SUFFICES ASSUME Init PROVE IInv
    OBVIOUS
  <1>1. Types
    <2>1. TypeStream
      <3>1. 0 \in 0 .. PipeCap /\ 0 \in 0 .. QueueCap /\ 0 \in 0 .. MaxRequests
        BY RxAssumption
      <3>2. QED
        BY <3>1, Zenon DEF Init, TypeStream
    <2>2. TypeLife
      BY Zenon DEF Init, TypeLife
    <2>3. TypeEngine
      BY Zenon DEF Init, TypeEngine
    <2>4. QED
      BY <2>1, <2>2, <2>3 DEF Types
  <1>2. LifeInv /\ CountInv
    BY DEF Init, LifeInv, CountInv, EngineLive
  <1>3. ReaderInv
    BY Zenon DEF Init, ReaderInv
  <1>4. QED
    BY <1>1, <1>2, <1>3 DEF IInv

LEMMA ControlStep ==
  ASSUME IInv, Control
  PROVE  IInv'
  <1> USE RxAssumption DEF IInv, Types, lifeVars, pipeVars, flagVars, respVars
  <1>1. CASE Start
    <2>1. Types'
      <3>1. TypeLife'
        BY <1>1 DEF Start, TypeLife
      <3>2. TypeEngine'
        BY <1>1 DEF Start, TypeEngine
      <3>3. TypeStream'
        BY <1>1 DEF Start, TypeStream
      <3>4. QED
        BY <3>1, <3>2, <3>3
    <2>2. LifeInv'
      BY <1>1 DEF Start, LifeInv, EngineLive
    <2>3. ReaderInv' /\ CountInv'
      BY <1>1 DEF Start, ReaderInv, CountInv
    <2>4. QED
      BY <2>1, <2>2, <2>3
  <1>2. CASE Capture
    <2>1. Types'
      <3>1. TypeLife'
        BY <1>2 DEF Capture, TypeLife
      <3>2. TypeEngine'
        BY <1>2 DEF Capture, TypeEngine
      <3>3. capture' \in BOOLEAN /\ savedFd' \in BOOLEAN
        BY <1>2 DEF Capture, TypeStream
      <3>4. pipe' \in 0 .. PipeCap /\ reader' \in {"none", "reading", "done"}
        BY <1>2 DEF Capture, TypeStream
      <3>5. QED
        BY <1>2, <3>1, <3>2, <3>3, <3>4 DEF Capture, TypeStream
    <2>2. LifeInv'
      BY <1>2 DEF Capture, LifeInv, EngineLive
    <2>3. ReaderInv' /\ CountInv'
      BY <1>2 DEF Capture, ReaderInv, CountInv
    <2>4. QED
      BY <2>1, <2>2, <2>3
  <1>3. CASE Spawn
    <2>1. Types'
      <3>1. TypeLife'
        BY <1>3 DEF Spawn, TypeLife
      <3>2. TypeEngine'
        BY <1>3 DEF Spawn, TypeEngine
      <3>3. TypeStream'
        BY <1>3 DEF Spawn, TypeStream
      <3>4. QED
        BY <3>1, <3>2, <3>3
    <2>2. LifeInv'
      BY <1>3 DEF Spawn, LifeInv, EngineLive
    <2>3. ReaderInv' /\ CountInv'
      BY <1>3 DEF Spawn, ReaderInv, CountInv, LifeInv, EngineLive
    <2>4. QED
      BY <2>1, <2>2, <2>3
  <1>4. CASE Stop
    <2>1. Types'
      <3>1. TypeLife'
        BY <1>4 DEF Stop, TypeLife
      <3>2. TypeEngine'
        BY <1>4 DEF Stop, TypeEngine
      <3>3. TypeStream'
        BY <1>4 DEF Stop, TypeStream
      <3>4. QED
        BY <3>1, <3>2, <3>3
    <2>2. LifeInv'
      BY <1>4 DEF Stop, LifeInv, EngineLive
    <2>3. ReaderInv' /\ CountInv'
      BY <1>4 DEF Stop, ReaderInv, CountInv
    <2>4. QED
      BY <2>1, <2>2, <2>3
  <1>5. CASE SetExit
    <2>1. Types'
      <3>1. TypeLife'
        BY <1>5 DEF SetExit, TypeLife
      <3>2. TypeEngine'
        BY <1>5 DEF SetExit, TypeEngine
      <3>3. TypeStream'
        BY <1>5 DEF SetExit, TypeStream
      <3>4. QED
        BY <3>1, <3>2, <3>3
    <2>2. LifeInv'
      BY <1>5 DEF SetExit, LifeInv, EngineLive
    <2>3. ReaderInv' /\ CountInv'
      BY <1>5 DEF SetExit, ReaderInv, CountInv
    <2>4. QED
      BY <2>1, <2>2, <2>3
  <1>6. CASE Join
    <2>1. Types'
      <3>1. TypeLife'
        BY <1>6 DEF Join, TypeLife
      <3>2. TypeEngine'
        BY <1>6 DEF Join, TypeEngine
      <3>3. TypeStream'
        BY <1>6 DEF Join, TypeStream
      <3>4. QED
        BY <3>1, <3>2, <3>3
    <2>2. LifeInv'
      BY <1>6 DEF Join, LifeInv, EngineLive
    <2>3. ReaderInv' /\ CountInv'
      BY <1>6 DEF Join, ReaderInv, CountInv
    <2>4. QED
      BY <2>1, <2>2, <2>3
  <1>7. CASE Restore
    <2>1. Types'
      <3>1. TypeLife'
        BY <1>7 DEF Restore, TypeLife
      <3>2. TypeEngine'
        BY <1>7 DEF Restore, TypeEngine
      <3>3. TypeStream'
        BY <1>7 DEF Restore, TypeStream
      <3>4. QED
        BY <3>1, <3>2, <3>3
    <2>2. LifeInv'
      BY <1>7 DEF Restore, LifeInv, EngineLive
    <2>3. ReaderInv' /\ CountInv'
      BY <1>7 DEF Restore, ReaderInv, CountInv
    <2>4. QED
      BY <2>1, <2>2, <2>3
  <1>8. CASE JoinReader
    <2>1. Types'
      <3>1. TypeLife'
        BY <1>8 DEF JoinReader, TypeLife
      <3>2. TypeEngine'
        BY <1>8 DEF JoinReader, TypeEngine
      <3>3. TypeStream'
        BY <1>8 DEF JoinReader, TypeStream
      <3>4. QED
        BY <3>1, <3>2, <3>3
    <2>2. LifeInv'
      BY <1>8 DEF JoinReader, LifeInv, EngineLive
    <2>3. ReaderInv' /\ CountInv'
      BY <1>8 DEF JoinReader, ReaderInv, CountInv
    <2>4. QED
      BY <2>1, <2>2, <2>3
  <1>9. CASE Clear
    <2>1. Types'
      <3>1. TypeLife'
        BY <1>9 DEF Clear, TypeLife
      <3>2. TypeEngine'
        BY <1>9 DEF Clear, TypeEngine
      <3>3. TypeStream'
        BY <1>9 DEF Clear, TypeStream
      <3>4. QED
        BY <3>1, <3>2, <3>3
    <2>2. LifeInv'
      BY <1>9 DEF Clear, LifeInv, EngineLive
    <2>3. ReaderInv' /\ CountInv'
      BY <1>9 DEF Clear, ReaderInv, CountInv
    <2>4. QED
      BY <2>1, <2>2, <2>3
  <1>10. CASE Destroy
    <2>1. Types'
      <3>1. TypeLife'
        BY <1>10 DEF Destroy, TypeLife
      <3>2. TypeEngine'
        BY <1>10 DEF Destroy, TypeEngine
      <3>3. TypeStream'
        BY <1>10 DEF Destroy, TypeStream
      <3>4. QED
        BY <3>1, <3>2, <3>3
    <2>2. LifeInv'
      BY <1>10 DEF Destroy, LifeInv, EngineLive
    <2>3. ReaderInv' /\ CountInv'
      BY <1>10 DEF Destroy, ReaderInv, CountInv
    <2>4. QED
      BY <2>1, <2>2, <2>3
  <1>11. QED
    BY <1>1, <1>2, <1>3, <1>4, <1>5, <1>6, <1>7, <1>8, <1>9, <1>10
       DEF Control, InCall

LEMMA EngineStep ==
  ASSUME IInv, Engine
  PROVE  IInv'
  <1> USE RxAssumption DEF IInv, Types, lifeVars, pipeVars, flagVars, respVars
  <1>0. Up
    BY DEF Engine
  <1>1. CASE Enter
    <2>1. Types'
      <3>1. TypeLife'
        BY <1>1 DEF Enter, TypeLife
      <3>2. TypeEngine'
        BY <1>1 DEF Enter, TypeEngine
      <3>3. TypeStream'
        BY <1>1 DEF Enter, TypeStream
      <3>4. QED
        BY <3>1, <3>2, <3>3
    <2>2. LifeInv'
      BY <1>1 DEF Enter, LifeInv, EngineLive
    <2>3. ReaderInv' /\ CountInv'
      BY <1>1 DEF Enter, ReaderInv, CountInv
    <2>4. QED
      BY <2>1, <2>2, <2>3
  <1>2. CASE InstallHooks
    <2>1. Types'
      <3>1. TypeLife'
        BY <1>2 DEF InstallHooks, TypeLife
      <3>2. TypeEngine'
        BY <1>2 DEF InstallHooks, TypeEngine
      <3>3. TypeStream'
        BY <1>2 DEF InstallHooks, TypeStream
      <3>4. QED
        BY <3>1, <3>2, <3>3
    <2>2. LifeInv'
      BY <1>2 DEF InstallHooks, LifeInv, EngineLive
    <2>3. ReaderInv' /\ CountInv'
      BY <1>2 DEF InstallHooks, ReaderInv, CountInv
    <2>4. QED
      BY <2>1, <2>2, <2>3
  <1>3. CASE Setup
    <2>1. Types'
      <3>1. TypeLife'
        BY <1>3 DEF Setup, TypeLife
      <3>2. TypeEngine'
        BY <1>3 DEF Setup, TypeEngine
      <3>3. TypeStream'
        BY <1>3 DEF Setup, TypeStream
      <3>4. QED
        BY <3>1, <3>2, <3>3
    <2>2. LifeInv'
      BY <1>3 DEF Setup, LifeInv, EngineLive
    <2>3. ReaderInv' /\ CountInv'
      BY <1>3 DEF Setup, ReaderInv, CountInv
    <2>4. QED
      BY <2>1, <2>2, <2>3
  <1>4. CASE OpenInput
    <2>1. Types'
      <3>1. TypeLife'
        BY <1>4 DEF OpenInput, TypeLife
      <3>2. TypeEngine'
        BY <1>4 DEF OpenInput, TypeEngine
      <3>3. TypeStream'
        BY <1>4 DEF OpenInput, TypeStream
      <3>4. QED
        BY <3>1, <3>2, <3>3
    <2>2. LifeInv'
      BY <1>4 DEF OpenInput, LifeInv, EngineLive
    <2>3. ReaderInv' /\ CountInv'
      BY <1>4 DEF OpenInput, ReaderInv, CountInv
    <2>4. QED
      BY <2>1, <2>2, <2>3
  <1>5. CASE Scan
    <2>1. Types'
      <3>1. TypeLife'
        BY <1>5 DEF Scan, TypeLife
      <3>2. TypeEngine'
        BY <1>5 DEF Scan, TypeEngine
      <3>3. TypeStream'
        BY <1>5 DEF Scan, TypeStream
      <3>4. QED
        BY <3>1, <3>2, <3>3
    <2>2. LifeInv'
      BY <1>5 DEF Scan, LifeInv, EngineLive
    <2>3. ReaderInv' /\ CountInv'
      BY <1>5 DEF Scan, ReaderInv, CountInv
    <2>4. QED
      BY <2>1, <2>2, <2>3
  <1>6. ASSUME NEW next \in {"scan", "leave"}, Emit(next), EngineLive
        PROVE  IInv'
    <2>1. Types'
      <3>1. TypeLife'
        BY <1>6 DEF Emit, TypeLife
      <3>2. TypeEngine'
        BY <1>6 DEF Emit, TypeEngine
      <3>3. TypeStream'
        BY <1>6 DEF Emit, TypeStream
      <3>4. QED
        BY <3>1, <3>2, <3>3
    <2>2. LifeInv'
      BY <1>6 DEF Emit, LifeInv, EngineLive
    <2>3. ReaderInv'
      BY <1>0, <1>6 DEF Emit, ReaderInv, Up
    <2>4. CountInv'
      BY <1>6 DEF Emit, CountInv
    <2>5. QED
      BY <2>1, <2>2, <2>3, <2>4
  <1>7. CASE PrintLine
    BY <1>6, <1>7 DEF PrintLine, EngineLive
  <1>8. CASE Respond
    <2>1. Types'
      <3>1. TypeLife'
        BY <1>8 DEF Respond, TypeLife
      <3>2. TypeEngine'
        BY <1>8 DEF Respond, TypeEngine
      <3>3. TypeStream'
        BY <1>8 DEF Respond, TypeStream, CountInv
      <3>4. QED
        BY <3>1, <3>2, <3>3
    <2>2. LifeInv'
      BY <1>8 DEF Respond, LifeInv, EngineLive
    <2>3. ReaderInv' /\ CountInv'
      BY <1>8 DEF Respond, ReaderInv, CountInv
    <2>4. QED
      BY <2>1, <2>2, <2>3
  <1>10. CASE Cleanup
    <2>1. Types'
      <3>1. TypeLife'
        BY <1>10 DEF Cleanup, TypeLife
      <3>2. TypeEngine'
        BY <1>10 DEF Cleanup, TypeEngine
      <3>3. TypeStream'
        BY <1>10 DEF Cleanup, TypeStream
      <3>4. QED
        BY <3>1, <3>2, <3>3
    <2>2. LifeInv'
      BY <1>10 DEF Cleanup, LifeInv, EngineLive
    <2>3. ReaderInv' /\ CountInv'
      BY <1>10 DEF Cleanup, ReaderInv, CountInv
    <2>4. QED
      BY <2>1, <2>2, <2>3
  <1>11. CASE Stats
    BY <1>6, <1>11 DEF Stats, EngineLive
  <1>12. CASE Leave
    <2>1. Types'
      <3>1. TypeLife'
        BY <1>12 DEF Leave, TypeLife
      <3>2. TypeEngine'
        BY <1>12 DEF Leave, TypeEngine
      <3>3. TypeStream'
        BY <1>12 DEF Leave, TypeStream
      <3>4. QED
        BY <3>1, <3>2, <3>3
    <2>2. LifeInv'
      BY <1>12 DEF Leave, LifeInv, EngineLive
    <2>3. ReaderInv' /\ CountInv'
      BY <1>12 DEF Leave, ReaderInv, CountInv
    <2>4. QED
      BY <2>1, <2>2, <2>3
  <1>13. QED
    BY <1>1, <1>2, <1>3, <1>4, <1>5, <1>7, <1>8, <1>10, <1>11, <1>12 DEF Engine

LEMMA NextOK ==
  ASSUME IInv, [Next]_vars
  PROVE  IInv'
  <1> USE RxAssumption DEF IInv, Types, lifeVars, pipeVars, flagVars, respVars
  <1>1. CASE RaiseExit
    <2>1. Types'
      <3>1. TypeLife'
        BY <1>1 DEF RaiseExit, TypeLife
      <3>2. TypeEngine'
        BY <1>1 DEF RaiseExit, TypeEngine
      <3>3. TypeStream'
        BY <1>1 DEF RaiseExit, TypeStream
      <3>4. QED
        BY <3>1, <3>2, <3>3
    <2>2. LifeInv'
      BY <1>1 DEF RaiseExit, LifeInv, EngineLive
    <2>3. ReaderInv' /\ CountInv'
      BY <1>1 DEF RaiseExit, ReaderInv, CountInv
    <2>4. QED
      BY <2>1, <2>2, <2>3
  <1>2. CASE ReadLines
    <2>1. Types'
      <3>1. TypeLife'
        BY <1>2 DEF ReadLines, TypeLife
      <3>2. TypeEngine'
        BY <1>2 DEF ReadLines, TypeEngine
      <3>3. TypeStream'
        BY <1>2 DEF ReadLines, TypeStream
      <3>4. QED
        BY <3>1, <3>2, <3>3
    <2>2. LifeInv' /\ ReaderInv' /\ CountInv'
      BY <1>2 DEF ReadLines, LifeInv, EngineLive, ReaderInv, CountInv
    <2>3. QED
      BY <2>1, <2>2
  <1>3. CASE ReadEnd
    <2>1. Types'
      <3>1. TypeLife'
        BY <1>3 DEF ReadEnd, TypeLife
      <3>2. TypeEngine'
        BY <1>3 DEF ReadEnd, TypeEngine
      <3>3. TypeStream'
        BY <1>3 DEF ReadEnd, TypeStream
      <3>4. QED
        BY <3>1, <3>2, <3>3
    <2>2. LifeInv'
      BY <1>3 DEF ReadEnd, LifeInv, EngineLive, Up
    <2>3. ReaderInv' /\ CountInv'
      BY <1>3 DEF ReadEnd, ReaderInv, CountInv, Up
    <2>4. QED
      BY <2>1, <2>2, <2>3
  <1>4. CASE TakeResponse
    <2>1. Types'
      <3>1. TypeLife'
        BY <1>4 DEF TakeResponse, TypeLife
      <3>2. TypeEngine'
        BY <1>4 DEF TakeResponse, TypeEngine
      <3>3. TypeStream'
        BY <1>4 DEF TakeResponse, TypeStream
      <3>4. QED
        BY <3>1, <3>2, <3>3
    <2>2. LifeInv'
      BY <1>4 DEF TakeResponse, LifeInv, EngineLive
    <2>3. ReaderInv' /\ CountInv'
      BY <1>4 DEF TakeResponse, ReaderInv, CountInv
    <2>4. QED
      BY <2>1, <2>2, <2>3
  <1>5. CASE UNCHANGED vars
    <2>1. Types'
      <3>1. TypeLife'
        BY <1>5 DEF vars, TypeLife
      <3>2. TypeEngine'
        BY <1>5 DEF vars, TypeEngine
      <3>3. TypeStream'
        BY <1>5 DEF vars, TypeStream
      <3>4. QED
        BY <3>1, <3>2, <3>3
    <2>2. LifeInv'
      BY <1>5 DEF vars, LifeInv, EngineLive
    <2>3. ReaderInv' /\ CountInv'
      BY <1>5 DEF vars, ReaderInv, CountInv
    <2>4. QED
      BY <2>1, <2>2, <2>3
  <1>6. QED
    BY ControlStep, EngineStep, <1>1, <1>2, <1>3, <1>4, <1>5 DEF Next, Reader

LEMMA Invariance == Spec => []IInv
  BY InitOK, NextOK, PTL DEF Spec

\* Every variable keeps its type: the pipe and the queue stay within bounds.
THEOREM TypeCorrect == Spec => []TypeOK
  <1>1. IInv => TypeOK
    BY DEF IInv, Types, TypeLife, TypeEngine, TypeStream, TypeOK
  <1>2. QED
    BY Invariance, <1>1, PTL

\* stop() frees dsd_opts and dsd_state, and clears the hooks, only when no engine
\* runs on them, whoever ended it, and leaves no hook behind.
THEOREM StateOutlivesEngine == Spec => []EngineHoldsState
  <1>1. IInv => EngineHoldsState
    BY DEF IInv, LifeInv, EngineLive, EngineHoldsState
  <1>2. QED
    BY Invariance, <1>1, PTL

\* An engine that still works while m_running is false is under a stop() that
\* waits for it.
THEOREM EngineNeverStray == Spec => []NoStrayEngine
  <1>1. IInv => NoStrayEngine
    BY DEF IInv, LifeInv, EngineLive, NoStrayEngine, Up
  <1>2. QED
    BY Invariance, <1>1, PTL

\* When stopStderrCapture() has returned, every line was read, the reader is
\* joined and stderr is restored.
THEOREM CaptureIsUndone == Spec => []CaptureUndone
  <1>1. IInv => CaptureUndone
    BY DEF IInv, ReaderInv, CaptureUndone
  <1>2. QED
    BY Invariance, <1>1, PTL

-----------------------------------------------------------------------------
(* The calls as single steps.                                              *)

\* There is a reader only beside an engine, while start() can be called; and
\* between start() and the creation of the engine's thread none runs.
BesideEngine ==
  /\ cpc \in {"idle", "capture"} /\ epc = "none" => reader = "none"
  /\ cpc \in {"capture", "spawn"} => epc \in {"none", "done"}

CallInv == IInv /\ BesideEngine

LEMMA CallInvariance == Spec => []CallInv
  <1> USE DEF BesideEngine, lifeVars, pipeVars, flagVars, respVars
  <1>1. Init => BesideEngine
    BY DEF Init
  <1>2. ASSUME IInv, BesideEngine, [Next]_vars
        PROVE  BesideEngine'
    <2>1. /\ cpc = "idle" /\ ~running => epc \in {"none", "done"}
          /\ cpc \in {"capture", "spawn"} => ~EngineLive
          /\ cpc = "clear" => reader = "none"
      BY <1>2 DEF IInv, Types, TypeEngine, LifeInv, EngineLive, ReaderInv
    <2>2. CASE Control
      BY <1>2, <2>1, <2>2 DEF Control, InCall, Start, Capture, Spawn, Stop, SetExit, Join,
         Restore, JoinReader, Clear, Destroy
    <2>3. CASE Engine
      <3>1. cpc' = cpc /\ reader' = reader /\ EngineLive /\ epc' # "none"
        BY <2>3 DEF Engine, Enter, InstallHooks, Setup, OpenInput, Scan, PrintLine, Respond,
           Cleanup, Stats, Leave, Emit, EngineLive
      <3> QED BY <1>2, <2>1, <3>1
    <2>4. CASE Reader
      <3>1. cpc' = cpc /\ epc' = epc /\ reader = "reading"
        BY <2>4 DEF Reader, ReadLines, ReadEnd
      <3> QED BY <1>2, <3>1
    <2>5. CASE RaiseExit \/ TakeResponse \/ UNCHANGED vars
      BY <1>2, <2>5 DEF RaiseExit, TakeResponse, vars
    <2> QED BY <1>2, <2>2, <2>3, <2>4, <2>5 DEF Next
  <1> QED BY Invariance, <1>1, <1>2, PTL DEF Spec, CallInv

\* Three threads, their shared flags and the pipe do what Receiver says its
\* callers see: whoever ends the engine, and wherever it is when they do.
THEOREM CallsAreReceiver == Spec => ImplementsReceiver
  <1> USE DEF EngineSeen, RunningSeen, CallerSeen, lifeVars, pipeVars, flagVars, respVars
  <1>1. Init => Life!Init
    BY DEF Init, Life!Init
  <1>2. ASSUME CallInv, [Next]_vars
        PROVE  [Life!Next]_(Life!vars)
    <2>1. /\ cpc = "idle" /\ ~running => epc \in {"none", "done"}
          /\ cpc \in {"capture", "spawn"} => epc \in {"none", "done"} /\ running
          /\ cpc \in {"idle", "capture"} /\ epc = "none" => reader = "none"
          /\ EngineLive /\ cpc # "terminated" => cpc \in {"idle", "flag", "join"}
          /\ running \in BOOLEAN
      BY <1>2 DEF CallInv, BesideEngine, IInv, Types, TypeLife, TypeEngine, LifeInv, EngineLive
    <2>2. CASE Control
      <3>1. CASE Start \/ SetExit \/ Restore \/ JoinReader \/ Clear
        BY <3>1 DEF Start, SetExit, Restore, JoinReader, Clear, Life!vars
      <3>2. CASE Capture
        BY <2>1, <3>2 DEF Capture, Life!vars, Life!Next, Life!Replace
      <3>3. CASE Spawn
        BY <2>1, <3>3 DEF Spawn, Life!Next, Life!Start, Life!Replace
      <3>4. CASE Stop
        BY <3>4 DEF Stop, Life!Next, Life!Stop
      <3>5. CASE Join
        BY <3>5 DEF Join, Life!Next, Life!Return
      <3>6. CASE Destroy
        BY <2>1, <3>6 DEF Destroy, Life!vars, Life!Next, Life!Replace
      <3> QED BY <2>2, <3>1, <3>2, <3>3, <3>4, <3>5, <3>6 DEF Control, InCall
    <2>3. CASE Engine
      <3>1. CASE Leave
        BY <2>1, <2>3, <3>1 DEF Engine, Leave, Up, EngineLive, Life!Next, Life!End
      <3>2. CASE ~Leave
        <4>1. UNCHANGED <<cpc, running>> /\ EngineLive /\ epc' \notin {"none", "done"}
          BY <2>3, <3>2 DEF Engine, Enter, InstallHooks, Setup, OpenInput, Scan, PrintLine,
             Respond, Cleanup, Stats, Emit, EngineLive
        <4> QED BY <4>1 DEF EngineLive, Life!vars
      <3> QED BY <3>1, <3>2
    <2>4. CASE RaiseExit \/ Reader \/ TakeResponse \/ UNCHANGED vars
      <3>1. UNCHANGED <<cpc, running, epc>>
        BY <2>4 DEF RaiseExit, Reader, ReadLines, ReadEnd, TakeResponse, vars
      <3> QED BY <3>1 DEF Life!vars
    <2> QED BY <1>2, <2>2, <2>3, <2>4 DEF Next
  <1> QED BY <1>1, <1>2, CallInvariance, PTL DEF Spec, ImplementsReceiver, Life!Spec
=============================================================================
