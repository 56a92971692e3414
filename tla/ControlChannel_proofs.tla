----------------------- MODULE ControlChannel_proofs -----------------------
(***************************************************************************)
(* Proofs about the control channel, for every ring, frame, chunk and      *)
(* queue size and every burst length.                                      *)
(***************************************************************************)
EXTENDS ControlChannel, SequenceTheorems, TLAPS

Half == RingSize \div 2

LEMMA HalfFits == Half \in Nat /\ Half + 2 * FrameBytes < RingSize
  BY ChannelAssumption DEF Half

\* The throttle leaves room for a frame and a TDU.
ThrottleInv ==
  /\ pc \in {"pick", "write"} => fill <= Half
  /\ pc = "tdu" => fill <= Half + FrameBytes

HandLen == IF pc = "write" /\ msg[1] = "rsp" THEN 1 ELSE 0

\* The queue holds the accepted responses after the one in hand.
QueueInv ==
  /\ Len(queue) + HandLen = accepted - aired
  /\ HandLen = 1 => msg[2] = aired + 1
  /\ \A k \in 1 .. Len(queue) : queue[k] = aired + HandLen + k

LifeInv ==
  /\ (guipc = "idle" /\ ~running) => pc = "none"
  /\ guipc \in {"configure", "restart"} => pc = "none"
  /\ guipc # "idle" => ~running
  /\ pc \notin {"none", "spawned", "done"} => built = cfg

IInv == TypeOK /\ ThrottleInv /\ QueueInv /\ LifeInv

\* Frames that can precede the next mandatory slot, and system messages that
\* precede message i in the rotation.
ToMandatory(p) == IF p = 0 THEN 0 ELSE BurstLen - p
Before(i) == IF i >= sysIdx THEN i - sysIdx ELSE i - sysIdx + BurstLen

\* The age of a system message and the frames that may still precede it never
\* exceed BurstLen bursts together.  While a frame is in hand sysIdx is already
\* the one after it, and slot still its own.
RotationInv ==
  \A i \in SysIds :
    IF pc = "write"
    THEN /\ age[i] < BurstLen * BurstLen
         /\ msg = Sys(i) => Before(i) = BurstLen - 1
         /\ msg # Sys(i) => age[i] + 1 + ToMandatory((slot + 1) % BurstLen)
                              + Before(i) * BurstLen < BurstLen * BurstLen
    ELSE age[i] + ToMandatory(slot) + Before(i) * BurstLen < BurstLen * BurstLen

-----------------------------------------------------------------------------
(* Types.                                                                   *)

\* The slot after another one is a slot.
LEMMA NextSlot ==
  ASSUME NEW N \in Nat \ {0}, NEW p \in 0 .. N - 1
  PROVE  (p + 1) % N = IF p + 1 < N THEN p + 1 ELSE 0
  <1>1. CASE p + 1 < N
    BY <1>1, SMT
  <1>2. CASE p + 1 = N
    BY <1>2, SMT
  <1>3. QED
    BY <1>1, <1>2

LEMMA NextSlotIsSlot ==
  ASSUME NEW p \in SysIds
  PROVE  (p + 1) % BurstLen \in SysIds
  BY NextSlot, ChannelAssumption DEF SysIds

LEMMA InitInv == Init => IInv
  <1> SUFFICES ASSUME Init PROVE IInv
    OBVIOUS
  <1> USE ChannelAssumption DEF Init
  <1>1. TypeOK
    <2>1. running \in BOOLEAN /\ wasRunning \in BOOLEAN /\ txOn \in BOOLEAN
      OBVIOUS
    <2>2. slot \in SysIds /\ sysIdx \in SysIds
      BY DEF SysIds
    <2>3. queue \in Seq(1 .. MaxResponses) /\ Len(queue) <= QueueCap
      OBVIOUS
    <2>4. age \in [SysIds -> Nat]
      OBVIOUS
    <2>5. /\ fill \in 0 .. RingSize - 1
          /\ accepted \in 0 .. MaxResponses /\ aired \in 0 .. MaxResponses
      OBVIOUS
    <2>6. QED
      BY <2>1, <2>2, <2>3, <2>4, <2>5 DEF TypeOK
  <1>2. ThrottleInv /\ QueueInv /\ LifeInv
    BY DEF ThrottleInv, QueueInv, LifeInv, HandLen
  <1>3. QED
    BY <1>1, <1>2 DEF IInv

LEMMA TypeStep ==
  ASSUME TypeOK, ThrottleInv, QueueInv, [Next]_vars
  PROVE  TypeOK'
  <1> USE ChannelAssumption DEF TypeOK
  <1>1. CASE Build
    <2>1. age' \in [SysIds -> Nat] /\ slot' \in SysIds /\ sysIdx' \in SysIds
      BY <1>1 DEF Build, SysIds
    <2>2. QED
      BY <1>1, <2>1 DEF Build, guiVars
  <1>2. CASE TestRunning \/ PassThrottle \/ LeaveThrottle
    BY <1>2 DEF TestRunning, PassThrottle, LeaveThrottle, guiVars, histVars
  <1>3. CASE PickSystem
    <2>1. sysIdx' \in SysIds
      BY <1>3, NextSlotIsSlot DEF PickSystem
    <2>2. QED
      BY <1>3, <2>1 DEF PickSystem, guiVars, histVars
  <1>4. CASE PickResponse
    <2>1. /\ queue' \in Seq(1 .. MaxResponses) /\ Len(queue') <= QueueCap
          /\ Head(queue) \in 1 .. MaxResponses
      BY <1>4 DEF PickResponse
    <2>2. QED
      BY <1>4, <2>1 DEF PickResponse, guiVars, histVars
  <1>5. CASE WriteFrame
    <2>1. slot' \in SysIds
      BY <1>5, NextSlotIsSlot DEF WriteFrame
    <2>2. aired' \in 0 .. MaxResponses
      <3>1. CASE msg[1] = "rsp"
        <4>1. \E n \in 1 .. MaxResponses : msg = Rsp(n)
          BY <3>1 DEF NoMsg, Sys
        <4>2. QED
          BY <1>5, <3>1, <4>1 DEF WriteFrame, Rsp
      <3>2. QED
        BY <1>5, <3>1 DEF WriteFrame
    <2>3. age' \in [SysIds -> Nat]
      <3>1. \A i \in SysIds : (IF msg = Sys(i) THEN 0 ELSE age[i] + 1) \in Nat
        OBVIOUS
      <3>2. QED
        BY <1>5, <3>1 DEF WriteFrame
    <2>4. fill' \in 0 .. RingSize - 1
      <3>1. fill' = fill + FrameBytes /\ HasRoom
        BY <1>5 DEF WriteFrame
      <3>2. QED
        BY <3>1 DEF HasRoom
    <2>5. pc' \in {"tdu", "test"} /\ msg' = NoMsg
      BY <1>5 DEF WriteFrame
    <2>6. UNCHANGED <<built, sysIdx, queue, txOn, accepted, guiVars>>
      BY <1>5 DEF WriteFrame
    <2>7. QED
      BY <2>1, <2>2, <2>3, <2>4, <2>5, <2>6 DEF guiVars
  <1>6. CASE WriteTDU
    BY <1>6 DEF WriteTDU, HasRoom, guiVars, histVars
  <1>7. CASE Drain
    <2>1. fill' \in 0 .. RingSize - 1
      BY <1>7 DEF Drain
    <2>2. QED
      BY <1>7, <2>1 DEF Drain, guiVars, histVars, prodVars
  <1>8. CASE QueueTSBK
    <2>1. /\ accepted' \in 1 .. MaxResponses
          /\ queue' \in Seq(1 .. MaxResponses) /\ Len(queue') <= QueueCap
      BY <1>8 DEF QueueTSBK
    <2>2. QED
      BY <1>8, <2>1 DEF QueueTSBK, guiVars, histVars, prodVars
  <1>9. CASE Gui
    <2>1. UNCHANGED <<slot, sysIdx, msg, histVars, queue, fill, accepted, built>>
      BY <1>9 DEF Gui, SwitchTx, Start, Stop, Apply, Join, Configure, Restart, prodVars
    <2>2. /\ running' \in BOOLEAN /\ wasRunning' \in BOOLEAN /\ txOn' \in BOOLEAN
          /\ guipc' \in {"idle", "stopJoin", "applyJoin", "configure", "restart"}
          /\ pc' \in {pc, "none", "spawned"} /\ cfg' \in Configs
      BY <1>9 DEF Gui, SwitchTx, Start, Stop, Apply, Join, Configure, Restart,
                  prodVars, guiVars
    <2>3. QED
      BY <2>1, <2>2 DEF histVars
  <1>10. CASE UNCHANGED vars
    BY <1>10 DEF vars, guiVars, prodVars, histVars
  <1>11. QED
    BY <1>1, <1>2, <1>3, <1>4, <1>5, <1>6, <1>7, <1>8, <1>9, <1>10 DEF Next, Producer

-----------------------------------------------------------------------------
(* The throttle, the queue and the life cycle.                              *)

LEMMA ThrottleStep ==
  ASSUME TypeOK, ThrottleInv, [Next]_vars
  PROVE  ThrottleInv'
  <1> USE HalfFits, ChannelAssumption DEF TypeOK, ThrottleInv
  <1>1. CASE PassThrottle
    BY <1>1 DEF PassThrottle, OverHalf, Half
  <1>2. CASE Build \/ TestRunning \/ LeaveThrottle \/ PickSystem \/ PickResponse
    BY <1>2 DEF Build, TestRunning, LeaveThrottle, PickSystem, PickResponse
  <1>3. CASE WriteFrame
    BY <1>3 DEF WriteFrame
  <1>4. CASE WriteTDU
    BY <1>4 DEF WriteTDU
  <1>5. CASE Drain
    <2>1. fill' <= fill /\ pc' = pc
      BY <1>5 DEF Drain, prodVars
    <2>2. fill' \in Int
      BY <1>5 DEF Drain
    <2>3. QED
      BY <1>5, <2>1, <2>2 DEF Drain, prodVars
  <1>6. CASE QueueTSBK
    BY <1>6 DEF QueueTSBK, prodVars
  <1>7. CASE Gui
    <2>1. fill' = fill /\ pc' \in {pc, "none", "spawned"}
      BY <1>7 DEF Gui, SwitchTx, Start, Stop, Apply, Join, Configure, Restart, prodVars
    <2>2. QED
      BY <2>1
  <1>8. CASE UNCHANGED vars
    BY <1>8 DEF vars, prodVars
  <1>9. QED
    BY <1>1, <1>2, <1>3, <1>4, <1>5, <1>6, <1>7, <1>8 DEF Next, Producer

LEMMA QueueStep ==
  ASSUME TypeOK, QueueInv, LifeInv, [Next]_vars
  PROVE  QueueInv'
  <1>0. /\ queue \in Seq(Nat) /\ Len(queue) \in Nat
        /\ accepted \in Nat /\ aired \in Nat
    BY ChannelAssumption DEF TypeOK
  <1>1. CASE Producer /\ ~PickSystem /\ ~PickResponse /\ ~WriteFrame
    <2>1. UNCHANGED <<queue, accepted, aired, msg>> /\ pc # "write" /\ pc' # "write"
      BY <1>1 DEF Producer, Build, TestRunning, PassThrottle, LeaveThrottle, WriteTDU, histVars
    <2>2. QED
      BY <2>1 DEF QueueInv, HandLen
  <1>2. CASE PickSystem
    <2>1. msg'[1] # "rsp" /\ pc # "write" /\ UNCHANGED <<queue, accepted, aired>>
      BY <1>2 DEF PickSystem, Sys, histVars
    <2>2. QED
      BY <2>1 DEF QueueInv, HandLen
  <1>3. CASE PickResponse
    <2>1. /\ queue # << >> /\ queue' = Tail(queue)
          /\ pc = "pick" /\ pc' = "write"
          /\ msg'[1] = "rsp" /\ msg'[2] = Head(queue)
          /\ UNCHANGED <<accepted, aired>>
      BY <1>3 DEF PickResponse, Rsp, histVars
    <2>2. HandLen = 0 /\ HandLen' = 1
      BY <2>1 DEF HandLen
    <2>3. /\ Head(queue) = queue[1] /\ Len(queue) >= 1
          /\ Len(Tail(queue)) = Len(queue) - 1
          /\ \A k \in 1 .. Len(queue) - 1 : Tail(queue)[k] = queue[k + 1]
      BY <1>0, <2>1
    <2>4. \A k \in 1 .. Len(queue) - 1 : Tail(queue)[k] = aired + 1 + k
      BY <1>0, <2>2, <2>3 DEF QueueInv
    <2>5. Head(queue) = aired + 1
      BY <1>0, <2>2, <2>3 DEF QueueInv
    <2>6. Len(queue) - 1 + 1 = accepted - aired
      BY <1>0, <2>2 DEF QueueInv
    <2>7. QED
      BY <2>1, <2>2, <2>3, <2>4, <2>5, <2>6 DEF QueueInv
  <1>4. CASE WriteFrame
    <2>1. /\ pc = "write" /\ pc' # "write"
          /\ aired' = IF msg[1] = "rsp" THEN msg[2] ELSE aired
          /\ UNCHANGED <<queue, accepted>>
      BY <1>4 DEF WriteFrame
    <2>2. aired' = aired + HandLen /\ HandLen' = 0
      BY <1>0, <2>1 DEF QueueInv, HandLen
    <2>3. /\ Len(queue) = accepted - (aired + HandLen)
          /\ \A k \in 1 .. Len(queue) : queue[k] = aired + HandLen + k
      BY <1>0, <2>1 DEF QueueInv, HandLen
    <2>4. QED
      BY <1>0, <2>1, <2>2, <2>3 DEF QueueInv, HandLen
  <1>5. CASE QueueTSBK
    <2> DEFINE longer == Append(queue, accepted + 1)
    <2>1. /\ queue' = longer /\ accepted' = accepted + 1
          /\ UNCHANGED <<aired, msg, pc>>
      BY <1>5 DEF QueueTSBK, prodVars, histVars
    <2>2. /\ Len(longer) = Len(queue) + 1
          /\ longer[Len(queue) + 1] = accepted + 1
          /\ \A k \in 1 .. Len(queue) : longer[k] = queue[k]
      BY <1>0
    <2> HIDE DEF longer
    <2>3. HandLen' = HandLen /\ HandLen \in Nat
      BY <2>1 DEF HandLen
    <2>4. \A k \in 1 .. Len(longer) : longer[k] = aired + HandLen + k
      BY <1>0, <2>2, <2>3 DEF QueueInv
    <2>5. Len(longer) + HandLen = (accepted + 1) - aired
      BY <1>0, <2>2, <2>3 DEF QueueInv
    <2>6. HandLen = 1 => msg[2] = aired + 1
      BY DEF QueueInv
    <2>7. Len(queue') + HandLen' = accepted' - aired'
      <3>1. Len(queue') + HandLen' = Len(longer) + HandLen
        BY <2>1, <2>3, Zenon
      <3>2. accepted' - aired' = (accepted + 1) - aired
        BY <2>1, Zenon
      <3>3. QED
        BY <2>5, <3>1, <3>2, Zenon
    <2>8. HandLen' = 1 => msg'[2] = aired' + 1
      BY <2>1, <2>3, <2>6, Zenon
    <2>9. \A k \in 1 .. Len(queue') : queue'[k] = aired' + HandLen' + k
      BY <2>1, <2>3, <2>4, Zenon
    <2>10. QED
      BY <2>7, <2>8, <2>9 DEF QueueInv
  <1>6. CASE Drain
    <2>1. UNCHANGED <<queue, accepted, aired, msg, pc>>
      BY <1>6 DEF Drain, prodVars, histVars
    <2>2. QED
      BY <2>1 DEF QueueInv, HandLen
  <1>7. CASE Gui
    <2>1. /\ UNCHANGED <<queue, accepted, aired, msg>>
          /\ pc' # pc => pc # "write" /\ pc' # "write"
      BY <1>7 DEF Gui, SwitchTx, Start, Stop, Apply, Join, Configure, Restart,
                  prodVars, histVars, LifeInv
    <2>2. QED
      BY <2>1 DEF QueueInv, HandLen
  <1>8. CASE UNCHANGED vars
    BY <1>8 DEF vars, prodVars, histVars, QueueInv, HandLen
  <1>9. QED
    BY <1>1, <1>2, <1>3, <1>4, <1>5, <1>6, <1>7, <1>8 DEF Next

LEMMA LifeStep ==
  ASSUME TypeOK, LifeInv, [Next]_vars
  PROVE  LifeInv'
  <1> USE DEF LifeInv
  <1>1. CASE Producer
    <2>1. /\ pc \notin {"none", "done"} /\ pc' # "none" /\ UNCHANGED guiVars
          /\ pc = "spawned" => built' = cfg
          /\ pc # "spawned" => built' = built
      BY <1>1 DEF Producer, Build, TestRunning, PassThrottle, LeaveThrottle, PickSystem,
                  PickResponse, WriteFrame, WriteTDU
    <2>2. QED
      BY <2>1 DEF guiVars
  <1>2. CASE Drain \/ QueueTSBK
    BY <1>2 DEF Drain, QueueTSBK, guiVars, prodVars
  <1>3. CASE Gui
    BY <1>3 DEF Gui, SwitchTx, Start, Stop, Apply, Join, Configure, Restart,
                guiVars, prodVars, TypeOK
  <1>4. CASE UNCHANGED vars
    BY <1>4 DEF vars, guiVars, prodVars
  <1>5. QED
    BY <1>1, <1>2, <1>3, <1>4 DEF Next

LEMMA Invariance == Spec => []IInv
  <1>1. IInv /\ [Next]_vars => IInv'
    BY TypeStep, ThrottleStep, QueueStep, LifeStep DEF IInv
  <1>2. QED
    BY InitInv, <1>1, PTL DEF Spec

-----------------------------------------------------------------------------
(* The results.                                                             *)

\* Every variable keeps its type; in particular the queue stays within its
\* capacity and the ring below its size.
THEOREM TypeCorrect == Spec => []TypeOK
  BY Invariance, PTL DEF IInv

\* SoapyTx::write() never spins in the producer, whatever drains the ring.
THEOREM WritesNeverSpin == Spec => []WriteNeverSpins
  <1>1. IInv => WriteNeverSpins
    BY HalfFits, ChannelAssumption DEF IInv, TypeOK, ThrottleInv, WriteNeverSpins, HasRoom
  <1>2. QED
    BY Invariance, <1>1, PTL

\* No accepted response is lost, repeated or overtaken.
THEOREM ResponsesAreFifo == Spec => []ResponsesInOrder
  <1>1. ASSUME IInv PROVE ResponsesInOrder
    <2> USE <1>1 DEF IInv
    <2> DEFINE expected == [k \in 1 .. accepted - aired |-> aired + k]
    <2>1. /\ queue \in Seq(Nat) /\ Len(queue) \in Nat
          /\ aired \in Nat /\ accepted \in Nat
      BY ChannelAssumption DEF TypeOK
    <2>2. accepted - aired \in Nat => /\ expected \in Seq(Nat)
                                      /\ Len(expected) = accepted - aired
                                      /\ \A k \in 1 .. accepted - aired : expected[k] = aired + k
      BY <2>1
    <2> HIDE DEF expected
    <2>3. CASE HandLen = 1
      <3>1. InHand = <<aired + 1>>
        BY <2>3 DEF HandLen, InHand, QueueInv
      <3> DEFINE whole == <<aired + 1>> \o queue
      <3>2. /\ whole \in Seq(Nat) /\ Len(whole) = 1 + Len(queue)
            /\ \A k \in 1 .. 1 + Len(queue) : whole[k] = aired + k
        BY <2>1, <2>3 DEF QueueInv
      <3> HIDE DEF whole
      <3>3. Len(whole) = accepted - aired /\ Len(whole) \in Nat
        BY <2>1, <2>3, <3>2 DEF QueueInv
      <3>4. \A k \in 1 .. Len(whole) : whole[k] = expected[k]
        BY <2>2, <3>2, <3>3
      <3>5. whole = expected
        BY <2>2, <3>2, <3>3, <3>4, SeqEqual
      <3>6. QED
        BY <3>1, <3>5 DEF ResponsesInOrder, expected, whole
    <2>4. CASE HandLen = 0
      <3>1. InHand = << >>
        BY <2>4 DEF HandLen, InHand
      <3>2. queue = expected
        <4>1. /\ Len(queue) = accepted - aired
              /\ \A k \in 1 .. Len(queue) : queue[k] = aired + k
          BY <2>1, <2>4 DEF QueueInv
        <4>2. QED
          BY <2>1, <2>2, <4>1, SeqEqual
      <3>3. QED
        BY <2>1, <3>1, <3>2 DEF ResponsesInOrder, expected
    <2>5. QED
      BY <2>3, <2>4 DEF HandLen
  <1>2. QED
    BY Invariance, <1>1, PTL

\* A producer thread transmits one configuration from its start to its end.
THEOREM ConfigIsStable == Spec => []OneConfigPerRun
  <1>1. IInv => OneConfigPerRun
    BY DEF IInv, LifeInv, OneConfigPerRun
  <1>2. QED
    BY Invariance, <1>1, PTL

\* start() never overwrites a thread that has not been joined.
THEOREM ThreadNeverReplaced == Spec => []NoThreadReplaced
  <1>1. IInv => NoThreadReplaced
    BY DEF IInv, LifeInv, NoThreadReplaced
  <1>2. QED
    BY Invariance, <1>1, PTL

-----------------------------------------------------------------------------
(* The rotation of the system messages.                                     *)

LEMMA Products ==
  ASSUME NEW B \in Nat \ {0}, NEW d \in 0 .. B - 1
  PROVE  /\ d * B \in Nat
         /\ d * B <= B * B - B
         /\ (d - 1) * B = d * B - B
         /\ (B - 1) * B = B * B - B
         /\ B * B \in Nat
  <1>1. d * B <= (B - 1) * B
    BY SMT
  <1>2. QED
    BY <1>1, SMT

\* The turn of message i comes within the burst length of system messages.
LEMMA BeforeRange ==
  ASSUME TypeOK, NEW i \in SysIds
  PROVE  Before(i) \in 0 .. BurstLen - 1
  BY ChannelAssumption DEF TypeOK, SysIds, Before

\* One frame brings the next mandatory slot one frame nearer, and the frame of
\* a mandatory slot puts the next one a burst away.
LEMMA NextMandatory ==
  ASSUME NEW p \in SysIds
  PROVE  /\ ToMandatory(p) \in 0 .. BurstLen - 1
         /\ ToMandatory((p + 1) % BurstLen) \in 0 .. BurstLen - 1
         /\ p # 0 => 1 + ToMandatory((p + 1) % BurstLen) = ToMandatory(p)
         /\ 1 + ToMandatory((p + 1) % BurstLen) <= BurstLen + ToMandatory(p)
  <1>1. (p + 1) % BurstLen = IF p + 1 < BurstLen THEN p + 1 ELSE 0
    BY NextSlot, ChannelAssumption DEF SysIds
  <1> DEFINE q == (p + 1) % BurstLen
  <1>2. q = IF p + 1 < BurstLen THEN p + 1 ELSE 0
    BY <1>1
  <1> HIDE DEF q
  <1>3. /\ ToMandatory(p) \in 0 .. BurstLen - 1
        /\ ToMandatory(q) \in 0 .. BurstLen - 1
        /\ p # 0 => 1 + ToMandatory(q) = ToMandatory(p)
        /\ 1 + ToMandatory(q) <= BurstLen + ToMandatory(p)
    BY <1>2, ChannelAssumption DEF ToMandatory, SysIds
  <1>4. QED
    BY <1>3 DEF q

LEMMA RotationStep ==
  ASSUME TypeOK, LifeInv, RotationInv, [Next]_vars
  PROVE  RotationInv'
  <1> DEFINE B == BurstLen
             BB == BurstLen * BurstLen
  <1>0. /\ B \in Nat \ {0} /\ BB \in Nat
        /\ \A i \in SysIds : age[i] \in Nat
        /\ slot \in SysIds /\ sysIdx \in SysIds
    BY Products, ChannelAssumption DEF TypeOK
  <1>1. CASE Build
    <2>1. \A i \in SysIds : i * B < BB
      <3>1. ASSUME NEW i \in SysIds PROVE i * B < BB
        <4>1. i * B \in Nat /\ i * B <= BB - B
          BY Products, ChannelAssumption DEF SysIds
        <4>2. QED
          BY <1>0, <4>1
      <3>2. QED
        BY <3>1
    <2>2. /\ pc' = "test" /\ slot' = 0 /\ sysIdx' = 0
          /\ age' = [i \in SysIds |-> 0]
      BY <1>1 DEF Build
    <2>3. ASSUME NEW i \in SysIds
          PROVE  age'[i] + ToMandatory(slot') + Before(i)' * B < BB
      <3>1. Before(i)' = i /\ ToMandatory(slot') = 0 /\ age'[i] = 0
        BY <1>0, <2>2 DEF Before, ToMandatory, SysIds
      <3>2. 0 + 0 + i * B < BB
        BY <1>0, <2>1 DEF SysIds
      <3>3. QED
        BY <3>1, <3>2
    <2>4. QED
      BY <2>2, <2>3 DEF RotationInv
  <1>2. CASE PickSystem
    <2> DEFINE next == (slot + 1) % BurstLen
    <2>1. /\ pc = "pick" /\ pc' = "write" /\ msg' = Sys(sysIdx)
          /\ sysIdx' = IF sysIdx + 1 < B THEN sysIdx + 1 ELSE 0
          /\ UNCHANGED <<slot, age>>
      BY <1>2, NextSlot, ChannelAssumption DEF PickSystem, TypeOK, SysIds, histVars
    <2>2. ASSUME NEW i \in SysIds
          PROVE  /\ age[i] < BB
                 /\ i = sysIdx => Before(i)' = B - 1
                 /\ i # sysIdx =>
                      age[i] + 1 + ToMandatory(next) + Before(i)' * B < BB
      <3>1. age[i] + ToMandatory(slot) + Before(i) * B < BB
        BY <2>1 DEF RotationInv
      <3>2. /\ Before(i) * B \in Nat
            /\ (Before(i) - 1) * B = Before(i) * B - B
        BY Products, BeforeRange, ChannelAssumption
      <3>3. /\ ToMandatory(slot) \in Nat /\ ToMandatory(next) \in Nat
            /\ 1 + ToMandatory(next) <= B + ToMandatory(slot)
        BY <1>0, NextMandatory
      <3>4. age[i] < BB
        <4> DEFINE x == Before(i) * B
        <4>1. x \in Nat /\ age[i] + ToMandatory(slot) + x < BB
          BY <3>1, <3>2
        <4> HIDE DEF x
        <4>2. QED
          BY <1>0, <3>3, <4>1
      <3>5. i = sysIdx => Before(i)' = B - 1
        BY <1>0, <2>1 DEF Before, SysIds
      <3>6. ASSUME i # sysIdx
            PROVE  age[i] + 1 + ToMandatory(next) + Before(i)' * B < BB
        <4>1. Before(i)' = Before(i) - 1
          BY <1>0, <2>1, <3>6 DEF Before, SysIds
        <4>2. Before(i)' * B = Before(i) * B - B
          BY <3>2, <4>1
        <4> DEFINE x == Before(i) * B
        <4>3. x \in Nat /\ age[i] + ToMandatory(slot) + x < BB
          BY <3>1, <3>2
        <4> HIDE DEF x
        <4>4. age[i] + 1 + ToMandatory(next) + (x - B) < BB
          BY <1>0, <3>3, <4>3
        <4>5. QED
          BY <4>2, <4>4 DEF x
      <3>7. QED
        BY <3>4, <3>5, <3>6
    <2>3. \A i \in SysIds : msg' = Sys(i) <=> i = sysIdx
      BY <2>1 DEF Sys
    <2>4. QED
      BY <2>1, <2>2, <2>3 DEF RotationInv
  <1>3. CASE PickResponse
    <2> DEFINE next == (slot + 1) % BurstLen
    <2>1. /\ pc = "pick" /\ pc' = "write" /\ slot # 0
          /\ \A i \in SysIds : msg' # Sys(i)
          /\ UNCHANGED <<slot, age, sysIdx>>
      BY <1>3 DEF PickResponse, Rsp, Sys, histVars
    <2>2. ASSUME NEW i \in SysIds
          PROVE  /\ age[i] < BB
                 /\ age[i] + 1 + ToMandatory(next) + Before(i) * B < BB
      <3> DEFINE x == Before(i) * B
      <3>1. x \in Nat
        BY Products, BeforeRange, ChannelAssumption
      <3>2. age[i] + ToMandatory(slot) + x < BB
        BY <2>1 DEF RotationInv
      <3>3. /\ ToMandatory(slot) \in Nat /\ ToMandatory(next) \in Nat
            /\ 1 + ToMandatory(next) = ToMandatory(slot)
        BY <1>0, <2>1, NextMandatory
      <3> HIDE DEF x
      <3>4. age[i] < BB /\ age[i] + 1 + ToMandatory(next) + x < BB
        BY <1>0, <3>1, <3>2, <3>3
      <3>5. QED
        BY <3>4 DEF x
    <2>3. \A i \in SysIds : Before(i)' = Before(i)
      BY <2>1 DEF Before
    <2>4. QED
      BY <2>1, <2>2, <2>3 DEF RotationInv
  <1>4. CASE WriteFrame
    <2> DEFINE next == (slot + 1) % BurstLen
    <2>1. /\ pc = "write" /\ pc' # "write" /\ slot' = next
          /\ age' = [i \in SysIds |-> IF msg = Sys(i) THEN 0 ELSE age[i] + 1]
          /\ UNCHANGED sysIdx
      BY <1>4 DEF WriteFrame
    <2>2. ASSUME NEW i \in SysIds
          PROVE  age'[i] + ToMandatory(next) + Before(i) * B < BB
      <3>1. CASE msg = Sys(i)
        <4>1. Before(i) = B - 1 /\ age'[i] = 0
          BY <2>1, <3>1 DEF RotationInv
        <4>2. (B - 1) * B = BB - B
          BY Products, ChannelAssumption
        <4>3. ToMandatory(next) \in 0 .. B - 1
          BY <1>0, NextMandatory
        <4> HIDE DEF BB, next
        <4>4. 0 + ToMandatory(next) + (BB - B) < BB
          BY <1>0, <4>3
        <4>5. QED
          BY <4>1, <4>2, <4>4
      <3>2. CASE msg # Sys(i)
        <4>1. age'[i] = age[i] + 1
          BY <2>1, <3>2
        <4>2. QED
          BY <2>1, <3>2, <4>1 DEF RotationInv
      <3>3. QED
        BY <3>1, <3>2
    <2>3. \A i \in SysIds : Before(i)' = Before(i)
      BY <2>1 DEF Before
    <2>4. QED
      BY <2>1, <2>2, <2>3 DEF RotationInv
  <1>5. ASSUME ~Build, ~PickSystem, ~PickResponse, ~WriteFrame
        PROVE  RotationInv'
    <2>1. UNCHANGED <<slot, sysIdx, age>>
      BY <1>5 DEF Next, Producer, TestRunning, PassThrottle, LeaveThrottle, WriteTDU,
         Drain, QueueTSBK, Gui, SwitchTx, Start, Stop, Apply, Join, Configure,
         Restart, vars, prodVars, histVars
    <2>2. (pc' = pc /\ msg' = msg) \/ (pc # "write" /\ pc' # "write")
      <3>1. CASE Producer
        BY <1>5, <3>1 DEF Producer, TestRunning, PassThrottle, LeaveThrottle, WriteTDU
      <3>2. CASE Drain \/ QueueTSBK \/ UNCHANGED vars
        BY <3>2 DEF Drain, QueueTSBK, vars, prodVars
      <3>3. CASE Gui
        BY <3>3 DEF Gui, SwitchTx, Start, Stop, Apply, Join, Configure, Restart,
           prodVars, LifeInv
      <3>4. QED
        BY <3>1, <3>2, <3>3 DEF Next
    <2>3. \A i \in SysIds : Before(i)' = Before(i)
      BY <2>1 DEF Before
    <2>4. QED
      BY <2>1, <2>2, <2>3 DEF RotationInv
  <1>6. QED
    BY <1>1, <1>2, <1>3, <1>4, <1>5

\* Every system message is on the air again within BurstLen bursts, however
\* many responses compete with it, for every burst length.
THEOREM RotationIsBounded == Spec => []SystemRotation
  <1>1. Init => RotationInv
    <2> SUFFICES ASSUME Init, NEW i \in SysIds
                 PROVE  age[i] + ToMandatory(slot) + Before(i) * BurstLen
                          < BurstLen * BurstLen
      BY DEF Init, RotationInv
    <2>1. age[i] = 0 /\ ToMandatory(slot) = 0 /\ Before(i) = i
      BY ChannelAssumption DEF Init, ToMandatory, Before, SysIds
    <2> DEFINE x == i * BurstLen
               BB == BurstLen * BurstLen
    <2>2. x \in Nat /\ BB \in Nat /\ x <= BB - BurstLen
      BY Products, ChannelAssumption DEF SysIds
    <2> HIDE DEF x, BB
    <2>3. 0 + 0 + x < BB
      BY <2>2, ChannelAssumption
    <2>4. QED
      BY <2>1, <2>3 DEF x, BB
  <1>2. IInv /\ RotationInv /\ [Next]_vars => RotationInv'
    BY RotationStep DEF IInv
  <1>3. IInv /\ RotationInv => SystemRotation
    <2> SUFFICES ASSUME IInv, RotationInv, NEW i \in SysIds
                 PROVE  age[i] < BurstLen * BurstLen
      BY DEF SystemRotation
    <2>1. CASE pc = "write"
      BY <2>1 DEF RotationInv
    <2>2. CASE pc # "write"
      <3> DEFINE x == Before(i) * BurstLen
                 BB == BurstLen * BurstLen
      <3>1. x \in Nat /\ BB \in Nat
        BY Products, BeforeRange, ChannelAssumption DEF IInv
      <3>2. age[i] + ToMandatory(slot) + x < BB
        BY <2>2 DEF RotationInv
      <3>3. ToMandatory(slot) \in Nat /\ age[i] \in Nat
        BY NextMandatory, ChannelAssumption DEF IInv, TypeOK
      <3> HIDE DEF x, BB
      <3>4. age[i] < BB
        BY <3>1, <3>2, <3>3
      <3>5. QED
        BY <3>4 DEF BB
    <2>3. QED
      BY <2>1, <2>2
  <1>4. QED
    BY Invariance, <1>1, <1>2, <1>3, PTL DEF Spec


-----------------------------------------------------------------------------
(* What callers and radios see.                                            *)

\* A producer thread with its locals does what Channel says its callers see: the
\* configuration changes only while there is no producer, and every message
\* on the air is built from it.
THEOREM CallsAreChannel == Spec => ImplementsChannel
  <1> DEFINE carried == IF pc = "spawned" THEN cfg ELSE built
  <1>1. Init => Calls!Init
    BY DEF Init, Calls!Init
  <1>2. ASSUME IInv, [Next]_vars
        PROVE  [Calls!Next]_(Calls!vars)
    <2>1. LifeInv
      BY <1>2 DEF IInv
    <2>2. CASE Producer
      <3>1. pc # "none" /\ pc' # "none" /\ cfg' = cfg /\ carried' = carried
        BY <2>2 DEF Producer, Build, TestRunning, PassThrottle, LeaveThrottle, PickSystem,
           PickResponse, WriteFrame, WriteTDU, guiVars
      <3> QED BY <3>1 DEF Calls!vars
    <2>3. CASE Start \/ Restart
      BY <2>1, <2>3 DEF LifeInv, Start, Restart, Calls!Next, Calls!Start
    <2>4. CASE Join
      BY <2>4 DEF Join, Calls!Next, Calls!Stop
    <2>5. CASE Configure
      BY <2>1, <2>5 DEF LifeInv, Configure, prodVars, Calls!Next, Calls!Configure
    <2>6. CASE SwitchTx \/ Stop \/ Apply \/ Drain \/ QueueTSBK \/ UNCHANGED vars
      <3>1. UNCHANGED <<pc, cfg, built>>
        BY <2>6 DEF SwitchTx, Stop, Apply, Drain, QueueTSBK, vars, prodVars, guiVars
      <3> QED BY <3>1 DEF Calls!vars
    <2> QED BY <1>2, <2>2, <2>3, <2>4, <2>5, <2>6 DEF Next, Gui
  <1> QED BY <1>1, <1>2, Invariance, PTL DEF Spec, ImplementsChannel, Calls!Spec

\* A system message in hand is the one the rotation has just passed; a response
\* in hand is in an optional slot.
HandInv ==
  pc = "write" => \/ \E k \in SysIds : msg = Sys(k) /\ sysIdx = (k + 1) % BurstLen
                  \/ msg[1] = "rsp" /\ slot # 0

LEMMA HandStep == TypeOK /\ LifeInv /\ HandInv /\ [Next]_vars => HandInv'
  <1> SUFFICES ASSUME TypeOK, LifeInv, HandInv, [Next]_vars, pc' = "write"
               PROVE  HandInv'
    BY DEF HandInv
  <1>1. CASE PickSystem
    BY <1>1 DEF PickSystem, HandInv, TypeOK
  <1>2. CASE PickResponse
    BY <1>2 DEF PickResponse, HandInv, Rsp
  <1>3. CASE pc = "write" /\ UNCHANGED <<slot, sysIdx, msg>>
    BY <1>3 DEF HandInv
  <1>4. PickSystem \/ PickResponse \/ UNCHANGED <<pc, slot, sysIdx, msg>>
    BY DEF Next, Producer, Build, TestRunning, PassThrottle, LeaveThrottle, WriteFrame,
       WriteTDU, Drain, QueueTSBK, Gui, SwitchTx, Start, Stop, Apply, Join, Configure,
       Restart, vars, prodVars
  <1> QED BY <1>1, <1>2, <1>3, <1>4

TrafficInv == IInv /\ HandInv

LEMMA TrafficInvariance == Spec => []TrafficInv
  <1>1. Init => HandInv
    BY DEF Init, HandInv
  <1>2. IInv /\ HandInv /\ [Next]_vars => HandInv'
    BY HandStep DEF IInv
  <1> QED BY Invariance, <1>1, <1>2, PTL DEF Spec, TrafficInv

\* A response in hand and those behind it.
LEMMA InFront ==
  ASSUME NEW S, NEW q \in Seq(S), NEW e \in S
  PROVE  /\ Tail(<<e>> \o q) = q /\ <<e>> \o q # << >>
         /\ q # << >> => <<Head(q)>> \o Tail(q) = q
<1>1. <<e>> \o q \in Seq(S) /\ <<e>> \o q # << >> /\ Len(<<e>> \o q) = Len(q) + 1
  OBVIOUS
<1>2. Tail(<<e>> \o q) = q
  <2>1. /\ Tail(<<e>> \o q) \in Seq(S)
        /\ Len(Tail(<<e>> \o q)) = Len(q)
        /\ \A k \in 1 .. Len(q) : Tail(<<e>> \o q)[k] = (<<e>> \o q)[k + 1]
    BY <1>1, HeadTailProperties
  <2>2. \A k \in 1 .. Len(q) : (<<e>> \o q)[k + 1] = q[k]
    OBVIOUS
  <2> QED BY <2>1, <2>2, SeqEqual
<1>3. ASSUME q # << >> PROVE <<Head(q)>> \o Tail(q) = q
  <2>1. /\ Head(q) \in S /\ Tail(q) \in Seq(S) /\ Len(Tail(q)) = Len(q) - 1
        /\ \A k \in 1 .. Len(Tail(q)) : Tail(q)[k] = q[k + 1]
    BY <1>3, HeadTailProperties
  <2>2. /\ <<Head(q)>> \o Tail(q) \in Seq(S)
        /\ Len(<<Head(q)>> \o Tail(q)) = Len(q)
    BY <1>3, <2>1
  <2>3. ASSUME NEW k \in 1 .. Len(q) PROVE (<<Head(q)>> \o Tail(q))[k] = q[k]
    <3>1. CASE k = 1
      BY <1>3, <2>1, <3>1
    <3>2. CASE k # 1
      <4>1. k - 1 \in 1 .. Len(Tail(q)) /\ (k - 1) + 1 = k
        BY <2>1, <3>2
      <4>2. (<<Head(q)>> \o Tail(q))[k] = Tail(q)[k - 1]
        BY <2>1, <3>2, <4>1
      <4> QED BY <2>1, <4>1, <4>2
    <3> QED BY <3>1, <3>2
  <2> QED BY <2>2, <2>3, SeqEqual
<1> QED BY <1>1, <1>2, <1>3

\* The producer's slots, its queue and the message in its hands do what Schedule
\* promises a radio, through every stop, start and reconfiguration.
THEOREM TrafficIsSchedule == Spec => ImplementsSchedule
  <1> DEFINE behind == InHand \o queue
             left == IF slot = 0 THEN 0 ELSE BurstLen - slot
  <1>1. Init => Traffic!Init
    <2> SUFFICES ASSUME Init PROVE Traffic!Init
      OBVIOUS
    <2>1. behind = << >> /\ DueSystem = 0 /\ left = 0 /\ accepted = 0
      BY DEF Init, InHand, DueSystem
    <2> QED BY <2>1 DEF Traffic!Init
  <1>2. ASSUME TrafficInv, [Next]_vars
        PROVE  [Traffic!Next]_(Traffic!vars)
    <2>1. /\ queue \in Seq(Nat) /\ accepted \in Nat /\ slot \in SysIds /\ sysIdx \in SysIds
          /\ Len(queue) \in Nat
      BY <1>2, ChannelAssumption DEF TrafficInv, IInv, TypeOK
    <2>2. left = ToMandatory(slot) /\ left' = ToMandatory(slot')
      BY DEF ToMandatory
    <2>3. CASE WriteFrame
      <3>1. /\ pc = "write" /\ pc' # "write" /\ slot' = (slot + 1) % BurstLen
            /\ UNCHANGED <<sysIdx, queue, accepted>>
        BY <2>3 DEF WriteFrame
      <3>2. behind' = queue /\ DueSystem' = sysIdx
        <4>1. InHand' = << >> /\ DueSystem' = sysIdx
          BY <3>1 DEF InHand, DueSystem
        <4> QED BY <2>1, <3>1, <4>1
      <3>3. CASE \E k \in SysIds : msg = Sys(k) /\ sysIdx = (k + 1) % BurstLen
        <4>1. behind = queue /\ DueSystem' = (DueSystem + 1) % BurstLen
          <5>1. msg[1] = "sys" /\ sysIdx = (msg[2] + 1) % BurstLen
            BY <3>3 DEF Sys
          <5>2. InHand = << >> /\ DueSystem = msg[2]
            BY <3>1, <5>1 DEF InHand, DueSystem
          <5> QED BY <2>1, <3>2, <5>1, <5>2
        <4>2. left' \in 0 .. BurstLen - 1
          BY <2>1, <2>2, <3>1, NextMandatory
        <4>3. Traffic!AirSystem
          BY <3>1, <3>2, <4>1, <4>2 DEF Traffic!AirSystem
        <4> QED BY <4>3 DEF Traffic!Next
      <3>4. CASE msg[1] = "rsp" /\ slot # 0
        <4>1. InHand = <<msg[2]>> /\ msg[2] \in Nat /\ DueSystem = sysIdx
          <5>1. msg[2] \in Nat
            BY <1>2, <3>4, ChannelAssumption DEF TrafficInv, IInv, TypeOK, NoMsg, Sys, Rsp
          <5> QED BY <3>1, <3>4, <5>1 DEF InHand, DueSystem
        <4>2. behind # << >> /\ behind' = Tail(behind)
          BY <2>1, <3>2, <4>1, InFront
        <4>3. left > 0 /\ left' = left - 1
          <5>1. /\ 1 + ToMandatory((slot + 1) % BurstLen) = ToMandatory(slot)
                /\ ToMandatory((slot + 1) % BurstLen) \in 0 .. BurstLen - 1
            BY <2>1, <3>4, NextMandatory
          <5> HIDE DEF left
          <5> QED BY <2>2, <3>1, <5>1, ChannelAssumption
        <4>4. Traffic!AirResponse
          BY <3>1, <3>2, <4>1, <4>2, <4>3 DEF Traffic!AirResponse
        <4> QED BY <4>4 DEF Traffic!Next
      <3> QED BY <1>2, <3>1, <3>3, <3>4 DEF TrafficInv, HandInv
    <2>4. CASE PickSystem \/ PickResponse
      <3>1. /\ pc = "pick" /\ pc' = "write" /\ UNCHANGED <<slot, accepted>>
            /\ InHand = << >> /\ DueSystem = sysIdx
        BY <2>4 DEF PickSystem, PickResponse, InHand, DueSystem
      <3>2. behind' = queue /\ DueSystem' = sysIdx
        <4>1. CASE PickSystem
          <5>1. msg'[1] = "sys" /\ msg'[2] = sysIdx /\ queue' = queue
            BY <4>1 DEF PickSystem, Sys
          <5>2. InHand' = << >> /\ DueSystem' = sysIdx
            BY <3>1, <5>1 DEF InHand, DueSystem
          <5> QED BY <2>1, <5>1, <5>2
        <4>2. CASE PickResponse
          <5>1. /\ msg'[1] = "rsp" /\ msg'[2] = Head(queue) /\ queue' = Tail(queue)
                /\ queue # << >> /\ sysIdx' = sysIdx
            BY <4>2 DEF PickResponse, Rsp
          <5>2. InHand' = <<Head(queue)>> /\ DueSystem' = sysIdx
            BY <3>1, <5>1 DEF InHand, DueSystem
          <5>3. Head(queue) \in Nat
            BY <2>1, <5>1
          <5>4. <<Head(queue)>> \o Tail(queue) = queue
            BY <2>1, <5>1, <5>3, InFront
          <5> QED BY <5>1, <5>2, <5>4
        <4> QED BY <2>4, <4>1, <4>2
      <3>3. UNCHANGED <<behind, accepted, DueSystem, left>>
        BY <2>1, <3>1, <3>2
      <3> QED BY <3>3 DEF Traffic!vars
    <2>5. CASE QueueTSBK
      <3>1. /\ Len(queue) < QueueCap /\ accepted < MaxResponses /\ accepted' = accepted + 1
            /\ queue' = Append(queue, accepted')
            /\ UNCHANGED <<pc, msg, slot, sysIdx>>
        BY <2>5 DEF QueueTSBK, prodVars
      <3>2. InHand' = InHand /\ DueSystem' = DueSystem /\ left' = left
        BY <3>1 DEF InHand, DueSystem
      <3>3. InHand \in Seq(Nat) /\ Len(InHand) <= 1
        <4>1. pc = "write" /\ msg[1] = "rsp" => msg[2] \in Nat
          BY <1>2, ChannelAssumption DEF TrafficInv, IInv, TypeOK, NoMsg, Sys, Rsp
        <4>2. \/ InHand = << >>
              \/ InHand = <<msg[2]>> /\ msg[2] \in Nat
          BY <4>1 DEF InHand
        <4>3. \A h \in Nat : <<h>> \in Seq(Nat) /\ Len(<<h>>) <= 1
          OBVIOUS
        <4>4. << >> \in Seq(Nat) /\ Len(<< >>) <= 1
          OBVIOUS
        <4> QED BY <4>2, <4>3, <4>4, Zenon
      <3>4. behind' = Append(behind, accepted') /\ Len(behind) <= QueueCap
        <4>1. accepted' \in Nat
          BY <2>1, <3>1
        <4>2. queue' = queue \o <<accepted'>>
          BY <2>1, <3>1, <4>1, AppendIsConcat
        <4>3. (InHand \o queue) \o <<accepted'>> = InHand \o (queue \o <<accepted'>>)
          BY <2>1, <3>3, <4>1, ConcatAssociative
        <4>4. behind \in Seq(Nat) /\ Len(behind) = Len(InHand) + Len(queue)
          BY <2>1, <3>3
        <4>5. Append(behind, accepted') = behind \o <<accepted'>>
          BY <4>1, <4>4, AppendIsConcat
        <4>6. Len(behind) <= QueueCap
          <5>1. Len(queue) + 1 <= QueueCap /\ QueueCap \in Nat
            BY <2>1, <3>1, ChannelAssumption
          <5>2. Len(InHand) \in Nat
            BY <3>3
          <5> HIDE DEF behind
          <5> QED BY <2>1, <3>3, <4>4, <5>1, <5>2
        <4> QED BY <3>2, <4>2, <4>3, <4>5, <4>6
      <3>5. Traffic!Accept
        BY <3>1, <3>2, <3>4 DEF Traffic!Accept
      <3> QED BY <3>5 DEF Traffic!Next
    <2>6. CASE Build
      <3>1. /\ pc # "write" /\ pc' # "write" /\ slot' = 0 /\ sysIdx' = 0
            /\ UNCHANGED <<queue, accepted>>
        BY <2>6 DEF Build
      <3>2. InHand = << >> /\ InHand' = << >> /\ DueSystem' = 0 /\ left' = 0
        BY <3>1 DEF InHand, DueSystem
      <3>3. Traffic!Restart
        BY <3>1, <3>2 DEF Traffic!Restart
      <3> QED BY <3>3 DEF Traffic!Next
    <2>7. CASE \/ TestRunning \/ PassThrottle \/ LeaveThrottle \/ WriteTDU \/ Drain \/ Gui
               \/ UNCHANGED vars
      <3>1. /\ UNCHANGED <<msg, slot, sysIdx, queue, accepted>>
            /\ pc' = pc \/ (pc # "write" /\ pc' # "write")
        <4>1. LifeInv
          BY <1>2 DEF TrafficInv, IInv
        <4> QED BY <2>7, <4>1 DEF LifeInv, TestRunning, PassThrottle, LeaveThrottle, WriteTDU,
              Drain, Gui, SwitchTx, Start, Stop, Apply, Join, Configure, Restart, vars,
              prodVars, histVars
      <3>2. InHand' = InHand /\ DueSystem' = DueSystem
        BY <3>1 DEF InHand, DueSystem
      <3> QED BY <3>1, <3>2 DEF Traffic!vars
    <2> QED BY <1>2, <2>3, <2>4, <2>5, <2>6, <2>7 DEF Next, Producer
  <1> QED BY <1>1, <1>2, TrafficInvariance, PTL DEF Spec, ImplementsSchedule, Traffic!Spec
=============================================================================
