--------------------------- MODULE ControlChannel ---------------------------
(***************************************************************************)
(* ControlChannel (src/tx/ControlChannel.cpp): the producer thread that    *)
(* schedules system broadcasts and queued responses into bursts, modulates *)
(* them into the transmit ring and throttles itself on its fill, under the *)
(* calls of the GUI thread (start, stop, and Apply of the site panel) and  *)
(* of the receive thread (queueTSBK).                                      *)
(*                                                                         *)
(* The ring is its fill level here: module SoapyTx shows that what goes in *)
(* comes out in order.  A frame is FrameBytes bytes, a TDU as many.        *)
(* frameN and sysIdx are only read modulo kBurstLen and are kept modulo    *)
(* BurstLen.  The activity log and the frame counter, which only the       *)
(* screen reads, are left out.                                             *)
(*                                                                         *)
(* A response is the number, from 1, that it has among all accepted ones.  *)
(***************************************************************************)
EXTENDS Integers, Sequences

CONSTANTS
  RingSize,      \* SoapyTx::kRingSize
  FrameBytes,    \* bytes of one modulated frame
  ChunkBytes,    \* bytes the transmit thread takes in one turn
  BurstLen,      \* kBurstLen
  QueueCap,      \* capacity of m_tsbkQueue
  Configs,       \* values of SiteConfig
  MaxResponses   \* bound of the model: responses accepted in a behaviour

\* With 4 MiB of ring and 180000 bytes per frame the last conjunct holds.
ASSUME ChannelAssumption ==
  /\ RingSize \in Nat /\ FrameBytes \in Nat \ {0} /\ ChunkBytes \in Nat \ {0}
  /\ BurstLen \in Nat \ {0} /\ QueueCap \in Nat /\ MaxResponses \in Nat
  /\ RingSize \div 2 + 2 * FrameBytes < RingSize

VARIABLES
  running, cfg,          \* m_running, m_cfg
  guipc, wasRunning,     \* GUI thread: place inside a call, local of Apply
  pc, built,             \* producer: place, configuration its TSBKs carry
  slot, sysIdx, msg,     \* frameN and sysIdx modulo BurstLen; tsbk
  queue,                 \* m_tsbkQueue
  fill, txOn,            \* ringAvailable(); a transmit thread exists
  accepted, aired,       \* history: responses accepted, responses written
  age                    \* history: frames since each system message was written

guiVars  == <<running, cfg, guipc, wasRunning>>
prodVars == <<pc, built, slot, sysIdx, msg>>
histVars == <<aired, age>>
vars     == <<guiVars, prodVars, histVars, queue, fill, txOn, accepted>>

SysIds == 0 .. BurstLen - 1   \* the last one is the live SYNC_BCAST
Sys(i) == <<"sys", i>>
Rsp(n) == <<"rsp", n>>
NoMsg  == <<"none", 0>>

TypeOK ==
  /\ running \in BOOLEAN /\ wasRunning \in BOOLEAN /\ txOn \in BOOLEAN
  /\ cfg \in Configs /\ built \in Configs
  /\ guipc \in {"idle", "stopJoin", "applyJoin", "configure", "restart"}
  /\ pc \in {"none", "spawned", "test", "throttle", "pick", "write", "tdu", "done"}
  /\ slot \in SysIds /\ sysIdx \in SysIds
  /\ msg \in {NoMsg} \cup {Sys(i) : i \in SysIds} \cup {Rsp(n) : n \in 1 .. MaxResponses}
  /\ queue \in Seq(1 .. MaxResponses) /\ Len(queue) <= QueueCap
  /\ fill \in 0 .. RingSize - 1
  /\ accepted \in 0 .. MaxResponses /\ aired \in 0 .. MaxResponses
  /\ age \in [SysIds -> Nat]

Init ==
  /\ running = FALSE /\ wasRunning = FALSE /\ guipc = "idle"
  /\ cfg \in Configs /\ built = cfg
  /\ pc = "none" /\ slot = 0 /\ sysIdx = 0 /\ msg = NoMsg
  /\ queue = << >> /\ fill = 0 /\ txOn = FALSE
  /\ accepted = 0 /\ aired = 0
  /\ age = [i \in SysIds |-> 0]

-----------------------------------------------------------------------------
(* The producer thread.                                                    *)

\* The static TSBKs and the TDU are built from m_cfg once per thread.
Build ==
  /\ pc = "spawned"
  /\ built' = cfg
  /\ slot' = 0 /\ sysIdx' = 0
  /\ pc' = "test"
  /\ age' = [i \in SysIds |-> 0]
  /\ UNCHANGED <<msg, aired, queue, fill, txOn, accepted, guiVars>>

TestRunning ==
  /\ pc = "test"
  /\ pc' = IF running THEN "throttle" ELSE "done"
  /\ UNCHANGED <<built, slot, sysIdx, msg, histVars, queue, fill, txOn, accepted, guiVars>>

\* Mutants of OverHalf: room for one frame, not for the TDU; the test inverted.
OverFull == fill + FrameBytes >= RingSize
UnderHalf == fill <= RingSize \div 2

\* while (ringAvailable() > kRingSize / 2)
OverHalf == fill > RingSize \div 2

PassThrottle ==
  /\ pc = "throttle" /\ ~OverHalf
  /\ pc' = "pick"
  /\ UNCHANGED <<built, slot, sysIdx, msg, histVars, queue, fill, txOn, accepted, guiVars>>

\* Mutant: the back-off loop does not test m_running.
LeaveThrottleNever == FALSE

\* The back-off loop tests m_running too, and returns from the thread.
LeaveThrottle ==
  /\ pc = "throttle" /\ OverHalf /\ ~running
  /\ pc' = "done"
  /\ UNCHANGED <<built, slot, sysIdx, msg, histVars, queue, fill, txOn, accepted, guiVars>>

\* Mutants of PickSystem: the mandatory slot does not advance the rotation;
\* a waiting response is passed over.
PickSystemStuck ==
  /\ pc = "pick"
  /\ slot = 0 \/ queue = << >>
  /\ msg' = Sys(sysIdx)
  /\ sysIdx' = IF slot = 0 THEN sysIdx ELSE (sysIdx + 1) % BurstLen
  /\ pc' = "write"
  /\ UNCHANGED <<built, slot, histVars, queue, fill, txOn, accepted, guiVars>>

PickSystemFirst ==
  /\ pc = "pick"
  /\ msg' = Sys(sysIdx)
  /\ sysIdx' = (sysIdx + 1) % BurstLen
  /\ pc' = "write"
  /\ UNCHANGED <<built, slot, histVars, queue, fill, txOn, accepted, guiVars>>

\* The mandatory slot of a burst, or any slot with no response queued.
PickSystem ==
  /\ pc = "pick"
  /\ slot = 0 \/ queue = << >>
  /\ msg' = Sys(sysIdx)
  /\ sysIdx' = (sysIdx + 1) % BurstLen
  /\ pc' = "write"
  /\ UNCHANGED <<built, slot, histVars, queue, fill, txOn, accepted, guiVars>>

\* Mutants of PickResponse: the mandatory slot is given away too; the response is
\* read and not popped.
PickResponseAlways ==
  /\ pc = "pick"
  /\ queue # << >>
  /\ msg' = Rsp(Head(queue)) /\ queue' = Tail(queue)
  /\ pc' = "write"
  /\ UNCHANGED <<built, slot, sysIdx, histVars, fill, txOn, accepted, guiVars>>

PickResponseKept ==
  /\ pc = "pick"
  /\ slot # 0 /\ queue # << >>
  /\ msg' = Rsp(Head(queue))
  /\ pc' = "write"
  /\ UNCHANGED <<built, slot, sysIdx, histVars, queue, fill, txOn, accepted, guiVars>>

PickResponse ==
  /\ pc = "pick"
  /\ slot # 0 /\ queue # << >>
  /\ msg' = Rsp(Head(queue)) /\ queue' = Tail(queue)
  /\ pc' = "write"
  /\ UNCHANGED <<built, slot, sysIdx, histVars, fill, txOn, accepted, guiVars>>

\* SoapyTx::write() returns only when the block fits.
HasRoom == fill + FrameBytes < RingSize

\* sendFrame() of the TSBK, then frameN++.
WriteFrame ==
  /\ pc = "write" /\ HasRoom
  /\ fill' = fill + FrameBytes
  /\ slot' = (slot + 1) % BurstLen
  /\ pc' = IF slot' = 0 THEN "tdu" ELSE "test"
  /\ msg' = NoMsg
  /\ aired' = IF msg[1] = "rsp" THEN msg[2] ELSE aired
  /\ age' = [i \in SysIds |-> IF msg = Sys(i) THEN 0 ELSE age[i] + 1]
  /\ UNCHANGED <<built, sysIdx, queue, txOn, accepted, guiVars>>

\* sendFrame() of the TDU that ends a burst.
WriteTDU ==
  /\ pc = "tdu" /\ HasRoom
  /\ fill' = fill + FrameBytes
  /\ pc' = "test"
  /\ UNCHANGED <<built, slot, sysIdx, msg, histVars, queue, txOn, accepted, guiVars>>

Producer ==
  \/ Build \/ TestRunning \/ PassThrottle \/ LeaveThrottle
  \/ PickSystem \/ PickResponse \/ WriteFrame \/ WriteTDU

-----------------------------------------------------------------------------
(* The transmit thread, the receive thread and the GUI thread.             *)

\* One turn of txThread(): a chunk, or what there is.
Drain ==
  /\ txOn /\ fill > 0
  /\ fill' = IF fill >= ChunkBytes THEN fill - ChunkBytes ELSE 0
  /\ UNCHANGED <<txOn, queue, accepted, prodVars, histVars, guiVars>>

\* Mutant: the queue is not bounded.
QueueTSBKUnbounded ==
  /\ accepted < MaxResponses
  /\ accepted' = accepted + 1
  /\ queue' = Append(queue, accepted')
  /\ UNCHANGED <<fill, txOn, prodVars, histVars, guiVars>>

\* queueTSBK() with room in the queue; without, it changes nothing.
QueueTSBK ==
  /\ Len(queue) < QueueCap
  /\ accepted < MaxResponses
  /\ accepted' = accepted + 1
  /\ queue' = Append(queue, accepted')
  /\ UNCHANGED <<fill, txOn, prodVars, histVars, guiVars>>

\* startTx(), stopTx() and the Device menu, all on the GUI thread.
SwitchTx ==
  /\ guipc = "idle"
  /\ txOn' = ~txOn
  /\ UNCHANGED <<fill, queue, accepted, prodVars, histVars, guiVars>>

Start ==
  /\ guipc = "idle" /\ ~running
  /\ running' = TRUE /\ pc' = "spawned"
  /\ UNCHANGED <<cfg, guipc, wasRunning, built, slot, sysIdx, msg,
                 histVars, queue, fill, txOn, accepted>>

Stop ==
  /\ guipc = "idle" /\ running
  /\ running' = FALSE /\ guipc' = "stopJoin"
  /\ UNCHANGED <<cfg, wasRunning, prodVars, histVars, queue, fill, txOn, accepted>>

\* Mutant: Apply configures under the running producer.
ApplyRunning ==
  /\ guipc = "idle"
  /\ wasRunning' = FALSE
  /\ guipc' = "configure"
  /\ UNCHANGED <<running, cfg, prodVars, histVars, queue, fill, txOn, accepted>>

\* Apply: stop() if running, configure(), and start() again.
Apply ==
  /\ guipc = "idle"
  /\ wasRunning' = running
  /\ running' = FALSE
  /\ guipc' = IF running THEN "applyJoin" ELSE "configure"
  /\ UNCHANGED <<cfg, prodVars, histVars, queue, fill, txOn, accepted>>

Join ==
  /\ guipc \in {"stopJoin", "applyJoin"}
  /\ pc = "done"
  /\ pc' = "none"
  /\ guipc' = IF guipc = "stopJoin" THEN "idle" ELSE "configure"
  /\ UNCHANGED <<running, cfg, wasRunning, built, slot, sysIdx, msg,
                 histVars, queue, fill, txOn, accepted>>

Configure ==
  /\ guipc = "configure"
  /\ cfg' \in Configs
  /\ guipc' = IF wasRunning THEN "restart" ELSE "idle"
  /\ UNCHANGED <<running, wasRunning, prodVars, histVars, queue, fill, txOn, accepted>>

Restart ==
  /\ guipc = "restart"
  /\ running' = TRUE /\ pc' = "spawned" /\ guipc' = "idle"
  /\ UNCHANGED <<cfg, wasRunning, built, slot, sysIdx, msg,
                 histVars, queue, fill, txOn, accepted>>

Gui == SwitchTx \/ Start \/ Stop \/ Apply \/ Join \/ Configure \/ Restart

Next == Producer \/ Drain \/ QueueTSBK \/ Gui

Spec == Init /\ [][Next]_vars

(***************************************************************************)
(* Threads that can run do run: the producer, the transmit thread while it *)
(* exists, and the GUI thread inside a call.  Nobody has to press a button *)
(* or send a request.                                                      *)
(***************************************************************************)
Fairness ==
  /\ WF_vars(Producer)
  /\ WF_vars(Drain)
  /\ WF_vars(Join \/ Configure \/ Restart)

FairSpec == Spec /\ Fairness

-----------------------------------------------------------------------------
(* What the control channel must keep true.                                *)

\* The producer, having passed the throttle, never finds the ring too full for
\* its frame or for the TDU after it, so write() never spins: its loop has no
\* test of m_running and a stop() could not end it.
WriteNeverSpins == pc \in {"write", "tdu"} => HasRoom

InHand == IF pc = "write" /\ msg[1] = "rsp" THEN <<msg[2]>> ELSE << >>

\* Every accepted response is on the air, in the producer's hand or queued, once
\* and in the order of acceptance, also across stop(), start() and Apply.
ResponsesInOrder ==
  InHand \o queue = [k \in 1 .. accepted - aired |-> aired + k]

\* However many responses wait, each system message is on the air again within
\* BurstLen bursts: the mandatory slots alone walk through all of them.
SystemRotation == \A i \in SysIds : age[i] < BurstLen * BurstLen

\* While the producer transmits, its prebuilt TSBKs and the NAC it puts into
\* every frame, read from m_cfg each time, belong to the same configuration.
OneConfigPerRun == pc \notin {"none", "spawned", "done"} => built = cfg

\* start() never assigns over a producer thread that was not joined.
NoThreadReplaced ==
  (guipc = "restart" \/ (guipc = "idle" /\ ~running)) => pc = "none"

\* To its callers start(), stop() and configure() are the single steps of
\* Channel: the producer is there from start() to the join in stop(), and what
\* it has not built yet it builds from the configuration it was started with.
Calls == INSTANCE Channel WITH
  on <- pc # "none", cfg <- cfg, built <- IF pc = "spawned" THEN cfg ELSE built
ImplementsChannel == Calls!Spec

\* To a radio the slots, bursts, waits and restarts are the steps of Schedule: no
\* system message is skipped or aired twice in a row, no response passes another,
\* and never more than BurstLen - 1 responses keep a system message waiting.
DueSystem == IF pc = "write" /\ msg[1] = "sys" THEN msg[2] ELSE sysIdx
Traffic == INSTANCE Schedule WITH
  waiting <- InHand \o queue, due <- DueSystem,
  left <- IF slot = 0 THEN 0 ELSE BurstLen - slot
ImplementsSchedule == Traffic!Spec

\* stop() and Apply return, even when no transmit thread empties the ring.
StopReturns == (guipc # "idle") ~> (guipc = "idle")

\* While both threads run the stream never dries up.
StreamContinues == []<>(pc = "write" \/ ~running \/ ~txOn)

\* An accepted response goes on the air while both threads run.
ResponseAired ==
  \A n \in 1 .. MaxResponses : (accepted >= n) ~> (aired >= n \/ ~running \/ ~txOn)
=============================================================================
