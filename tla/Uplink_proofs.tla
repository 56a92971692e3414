--------------------------- MODULE Uplink_proofs ---------------------------
(***************************************************************************)
(* For every set of commands, every configuration of the site and every    *)
(* size of frame, transfer and queue: subscriber_test and libhackrf share  *)
(* the buffer safely and lose no sample silently but the last transfers,   *)
(* and every request logged and every response read belongs to a command   *)
(* that was given.                                                         *)
(***************************************************************************)
EXTENDS Uplink, Tsbk_proofs

USE DEF hostVars, callVars, siteVars

\* The callback only runs inside Transmit(), after the copy of the samples.
TransferInv ==
  /\ stream # "off" => buffer /\ spc \in {"wait", "deadline", "stop"} /\ command \in asked
  /\ spc = "start" => buffer
  /\ spc # "idle" => command \in asked

\* The callback's position, for a length that fits into an int.
Fits == len < IntSize \div 2
TailInv ==
  /\ aired <= pos /\ pos - aired <= Depth * Chunk
  /\ spc \in {"open", "start"} => pos = 0 /\ aired = 0 /\ result = "ok"
  /\ spc = "stop" /\ result = "ok" => txDone
  /\ spc = "done" => result = "ok"
  /\ Fits =>
       /\ pos <= len
       /\ spc \in {"wait", "deadline", "stop"} => txLen = len /\ (txDone => pos = len)
       /\ spc \in {"free", "done"} /\ result = "ok" => pos = len

\* What is on the air, logged, queued and read comes from commands given.
Answers(c) == Responses(Request(c), Site.sysid)
RequestInv ==
  /\ airing \subseteq {Request(c) : c \in asked}
  /\ heard # None => \E c \in asked : heard = Logged(Request(c))
  /\ queue \in Seq(UNION {Answers(c) : c \in Commands})
  /\ \A i \in 1 .. Len(queue) : \E c \in asked : queue[i] \in Answers(c)
  /\ \/ read = None \/ read \in SystemReadings
     \/ \E c \in asked : \E r \in Answers(c) : read = Reading(r)

IInv == TypeOK /\ TransferInv /\ TailInv /\ RequestInv

-----------------------------------------------------------------------------
(* Arithmetic.                                                             *)

\* A length that fits is what the callback gets.
LEMMA CIntFits ==
  ASSUME NEW n \in Nat, n < IntSize \div 2
  PROVE  CInt(n) = n
<1>1. IntSize \in Nat /\ IntSize > 0
  BY UplinkAssumption
<1>2. n % IntSize = n
  BY <1>1
<1> QED BY <1>1, <1>2 DEF CInt

\* Any other length is some integer.
LEMMA CIntInt ==
  ASSUME NEW n \in Nat
  PROVE  CInt(n) \in Int
<1>1. IntSize \in Nat /\ IntSize > 0
  BY UplinkAssumption
<1>2. n % IntSize \in Int
  BY <1>1
<1> QED BY <1>1, <1>2 DEF CInt

\* Room for one more transfer.
LEMMA Transfers ==
  /\ Chunk \in Nat /\ Chunk > 0 /\ Depth * Chunk \in Nat
  /\ (Depth - 1) * Chunk \in Int /\ (Depth - 1) * Chunk + Chunk = Depth * Chunk
BY UplinkAssumption

-----------------------------------------------------------------------------
(* The inductive invariant.                                                *)

\* The empty queue is a sequence of anything.
LEMMA InitInv == Init => IInv
<1> SUFFICES ASSUME Init PROVE IInv
  OBVIOUS
<1> USE DEF Init
<1>1. TypeOK
  <2>1. txDone \in BOOLEAN /\ buffer \in BOOLEAN
    OBVIOUS
  <2>2. runs \in 0 .. MaxRuns /\ Len(queue) <= QueueCap
    BY UplinkAssumption
  <2> QED BY <2>1, <2>2 DEF TypeOK
<1>2. TransferInv
  BY DEF TransferInv
<1>3. TailInv
  BY Transfers DEF TailInv, Fits
<1>4. RequestInv
  BY DEF RequestInv
<1> QED BY <1>1, <1>2, <1>3, <1>4 DEF IInv

\* The buffer outlives the callback, whoever gives up first.
LEMMA TransferStep ==
  ASSUME IInv, [Next]_vars
  PROVE  TransferInv'
<1> USE DEF IInv, TransferInv, TypeOK
<1>1. CASE Run
  BY <1>1 DEF Run
<1>2. CASE Prepare
  BY <1>2 DEF Prepare
<1>3. CASE StartTx
  BY <1>3 DEF StartTx
<1>4. CASE TestDone
  BY <1>4 DEF TestDone
<1>5. CASE TestDeadline
  BY <1>5 DEF TestDeadline
<1>6. CASE StopTx
  BY <1>6 DEF StopTx
<1>7. CASE Free
  BY <1>7 DEF Free
<1>8. CASE Exit
  BY <1>8 DEF Exit
<1>9. CASE Fill
  BY <1>9 DEF Fill
<1>10. CASE Radiate
  BY <1>10 DEF Radiate
<1>11. CASE Unplug
  BY <1>11 DEF Unplug
<1>12. CASE Hear
  BY <1>12 DEF Hear
<1>13. CASE Pass
  BY <1>13 DEF Pass
<1>14. CASE SendResponse
  BY <1>14 DEF SendResponse
<1>15. CASE SendSystem
  BY <1>15 DEF SendSystem
<1>16. CASE UNCHANGED vars
  BY <1>16 DEF vars
<1> QED
  BY <1>1, <1>2, <1>3, <1>4, <1>5, <1>6, <1>7, <1>8, <1>9, <1>10, <1>11, <1>12, <1>13, <1>14, <1>15, <1>16 DEF Next, Subscriber

\* The flags are flags.
LEMMA FlagsStep ==
  ASSUME IInv, [Next]_vars
  PROVE  txDone' \in BOOLEAN /\ buffer' \in BOOLEAN
<1> USE DEF IInv, TypeOK
<1>1. CASE Run
  BY <1>1, Zenon DEF Run
<1>2. CASE Prepare
  BY <1>2, Zenon DEF Prepare
<1>3. CASE StartTx
  BY <1>3, Zenon DEF StartTx
<1>4. CASE TestDone
  BY <1>4, Zenon DEF TestDone
<1>5. CASE TestDeadline
  BY <1>5, Zenon DEF TestDeadline
<1>6. CASE StopTx
  BY <1>6, Zenon DEF StopTx
<1>7. CASE Free
  BY <1>7, Zenon DEF Free
<1>8. CASE Exit
  BY <1>8, Zenon DEF Exit
<1>9. CASE Fill
  BY <1>9, Zenon DEF Fill
<1>10. CASE Radiate
  BY <1>10, Zenon DEF Radiate
<1>11. CASE Unplug
  BY <1>11, Zenon DEF Unplug
<1>12. CASE Hear
  BY <1>12, Zenon DEF Hear
<1>13. CASE Pass
  BY <1>13, Zenon DEF Pass
<1>14. CASE SendResponse
  BY <1>14, Zenon DEF SendResponse
<1>15. CASE SendSystem
  BY <1>15, Zenon DEF SendSystem
<1>16. CASE UNCHANGED vars
  BY <1>16 DEF vars
<1> QED
  BY <1>1, <1>2, <1>3, <1>4, <1>5, <1>6, <1>7, <1>8, <1>9, <1>10, <1>11, <1>12, <1>13, <1>14, <1>15, <1>16 DEF Next, Subscriber

\* The lengths are numbers.
LEMMA NumbersStep ==
  ASSUME IInv, [Next]_vars
  PROVE  len' \in Nat /\ txLen' \in Int /\ pos' \in Nat /\ aired' \in Nat
<1> USE DEF IInv, TypeOK
<1>1. CASE Run
  BY <1>1, UplinkAssumption DEF Run
<1>2. CASE Prepare
  BY <1>2, UplinkAssumption DEF Prepare
<1>3. CASE StartTx
  BY <1>3, CIntInt DEF StartTx
<1>4. CASE TestDone
  BY <1>4, UplinkAssumption DEF TestDone
<1>5. CASE TestDeadline
  BY <1>5, UplinkAssumption DEF TestDeadline
<1>6. CASE StopTx
  BY <1>6, UplinkAssumption DEF StopTx
<1>7. CASE Free
  BY <1>7, UplinkAssumption DEF Free
<1>8. CASE Exit
  BY <1>8, UplinkAssumption DEF Exit
<1>9. CASE Fill
  BY <1>9, UplinkAssumption DEF Fill, Least
<1>10. CASE Radiate
  BY <1>10, UplinkAssumption DEF Radiate, Least
<1>11. CASE Unplug
  BY <1>11, UplinkAssumption DEF Unplug
<1>12. CASE Hear
  BY <1>12, UplinkAssumption DEF Hear
<1>13. CASE Pass
  BY <1>13, UplinkAssumption DEF Pass
<1>14. CASE SendResponse
  BY <1>14, UplinkAssumption DEF SendResponse
<1>15. CASE SendSystem
  BY <1>15, UplinkAssumption DEF SendSystem
<1>16. CASE UNCHANGED vars
  BY <1>16 DEF vars
<1> QED
  BY <1>1, <1>2, <1>3, <1>4, <1>5, <1>6, <1>7, <1>8, <1>9, <1>10, <1>11, <1>12, <1>13, <1>14, <1>15, <1>16 DEF Next, Subscriber

\* The program is at one of its places, with one of its commands.
LEMMA PlacesStep ==
  ASSUME IInv, [Next]_vars
  PROVE  /\ spc' \in {"idle", "open", "start", "wait", "deadline", "stop", "free", "done", "failed"}
         /\ stream' \in {"off", "on", "drain"} /\ result' \in {"ok", "error"}
         /\ command' \in Commands \cup {None} /\ asked' \subseteq Commands
         /\ runs' \in 0 .. MaxRuns
<1> USE DEF IInv, TypeOK
<1>1. CASE Run
  BY <1>1, UplinkAssumption DEF Run
<1>2. CASE Prepare
  BY <1>2, UplinkAssumption DEF Prepare
<1>3. CASE StartTx
  BY <1>3, UplinkAssumption DEF StartTx
<1>4. CASE TestDone
  BY <1>4, UplinkAssumption DEF TestDone
<1>5. CASE TestDeadline
  BY <1>5, UplinkAssumption DEF TestDeadline
<1>6. CASE StopTx
  BY <1>6, UplinkAssumption DEF StopTx
<1>7. CASE Free
  BY <1>7, UplinkAssumption DEF Free
<1>8. CASE Exit
  BY <1>8, UplinkAssumption DEF Exit
<1>9. CASE Fill
  BY <1>9, UplinkAssumption DEF Fill
<1>10. CASE Radiate
  BY <1>10, UplinkAssumption DEF Radiate
<1>11. CASE Unplug
  BY <1>11, UplinkAssumption DEF Unplug
<1>12. CASE Hear
  BY <1>12, UplinkAssumption DEF Hear
<1>13. CASE Pass
  BY <1>13, UplinkAssumption DEF Pass
<1>14. CASE SendResponse
  BY <1>14, UplinkAssumption DEF SendResponse
<1>15. CASE SendSystem
  BY <1>15, UplinkAssumption DEF SendSystem
<1>16. CASE UNCHANGED vars
  BY <1>16 DEF vars
<1> QED
  BY <1>1, <1>2, <1>3, <1>4, <1>5, <1>6, <1>7, <1>8, <1>9, <1>10, <1>11, <1>12, <1>13, <1>14, <1>15, <1>16 DEF Next, Subscriber

\* The callback never passes the end, and no more is pending than the transfers hold.
LEMMA TailStep ==
  ASSUME IInv, [Next]_vars
  PROVE  TailInv'
<1> USE DEF IInv, TypeOK, TailInv, TransferInv, Fits
<1>1. CASE Run
  BY <1>1, UplinkAssumption, Transfers DEF Run
<1>2. CASE Prepare
  BY <1>2, Transfers DEF Prepare
<1>3. CASE StartTx
  BY <1>3, CIntFits, CIntInt, Transfers DEF StartTx
<1>4. CASE TestDone
  BY <1>4, Transfers DEF TestDone
<1>5. CASE TestDeadline
  BY <1>5, Transfers DEF TestDeadline
<1>6. CASE StopTx
  BY <1>6, Transfers DEF StopTx
<1>7. CASE Free
  BY <1>7, Transfers DEF Free
<1>8. CASE Exit
  BY <1>8, Transfers DEF Exit
<1>9. CASE Fill
  BY <1>9, Transfers DEF Fill, Least
<1>10. CASE Radiate
  BY <1>10, Transfers DEF Radiate, Least
<1>11. CASE Unplug
  BY <1>11, Transfers DEF Unplug
<1>12. CASE Hear
  BY <1>12, Transfers DEF Hear
<1>13. CASE Pass
  BY <1>13, Transfers DEF Pass
<1>14. CASE SendResponse
  BY <1>14, Transfers DEF SendResponse
<1>15. CASE SendSystem
  BY <1>15, Transfers DEF SendSystem
<1>16. CASE UNCHANGED vars
  BY <1>16 DEF vars
<1> QED
  BY <1>1, <1>2, <1>3, <1>4, <1>5, <1>6, <1>7, <1>8, <1>9, <1>10, <1>11, <1>12, <1>13, <1>14, <1>15, <1>16 DEF Next, Subscriber

\* Only what was asked for is on the air.
LEMMA AirStep ==
  ASSUME IInv, [Next]_vars
  PROVE  /\ airing' \subseteq {Request(c) : c \in asked'}
         /\ heard' # None => \E c \in asked' : heard' = Logged(Request(c))
<1> USE DEF IInv, RequestInv, TransferInv
<1>1. CASE Run
  BY <1>1 DEF Run
<1>2. CASE Prepare
  BY <1>2 DEF Prepare
<1>3. CASE StartTx
  BY <1>3 DEF StartTx
<1>4. CASE TestDone
  BY <1>4 DEF TestDone
<1>5. CASE TestDeadline
  BY <1>5 DEF TestDeadline
<1>6. CASE StopTx
  BY <1>6 DEF StopTx
<1>7. CASE Free
  BY <1>7 DEF Free
<1>8. CASE Exit
  BY <1>8 DEF Exit
<1>9. CASE Fill
  BY <1>9 DEF Fill
<1>10. CASE Radiate
  BY <1>10 DEF Radiate
<1>11. CASE Unplug
  BY <1>11 DEF Unplug
<1>12. CASE Hear
  BY <1>12 DEF Hear
<1>13. CASE Pass
  BY <1>13 DEF Pass
<1>14. CASE SendResponse
  BY <1>14 DEF SendResponse
<1>15. CASE SendSystem
  BY <1>15 DEF SendSystem
<1>16. CASE UNCHANGED vars
  BY <1>16 DEF vars
<1> QED
  BY <1>1, <1>2, <1>3, <1>4, <1>5, <1>6, <1>7, <1>8, <1>9, <1>10, <1>11, <1>12, <1>13, <1>14, <1>15, <1>16 DEF Next, Subscriber

\* Only answers to what was asked for are queued, as many as fit.
LEMMA QueueStep ==
  ASSUME IInv, [Next]_vars
  PROVE  /\ queue' \in Seq(UNION {Answers(c) : c \in Commands})
         /\ Len(queue') <= QueueCap
         /\ \A i \in 1 .. Len(queue') : \E c \in asked' : queue'[i] \in Answers(c)
<1> USE DEF IInv, RequestInv, TypeOK
<1>1. CASE Run
  BY <1>1 DEF Run
<1>2. CASE Prepare
  BY <1>2 DEF Prepare
<1>3. CASE StartTx
  BY <1>3 DEF StartTx
<1>4. CASE TestDone
  BY <1>4 DEF TestDone
<1>5. CASE TestDeadline
  BY <1>5 DEF TestDeadline
<1>6. CASE StopTx
  BY <1>6 DEF StopTx
<1>7. CASE Free
  BY <1>7 DEF Free
<1>8. CASE Exit
  BY <1>8 DEF Exit
<1>9. CASE Fill
  BY <1>9 DEF Fill
<1>10. CASE Radiate
  BY <1>10 DEF Radiate
<1>11. CASE Unplug
  BY <1>11 DEF Unplug
<1>12. CASE Hear
  <2> SUFFICES ASSUME NEW c \in asked, NEW r \in Answers(c), queue' = Append(queue, r),
                      Len(queue) < QueueCap, asked' = asked
               PROVE  /\ queue' \in Seq(UNION {Answers(d) : d \in Commands})
                      /\ Len(queue') <= QueueCap
                      /\ \A i \in 1 .. Len(queue') : \E d \in asked' : queue'[i] \in Answers(d)
    BY <1>12 DEF Hear, Answers
  <2>1. r \in UNION {Answers(d) : d \in Commands}
    OBVIOUS
  <2>2. QueueCap \in Nat
    BY UplinkAssumption
  <2> HIDE DEF Answers
  <2> QED BY <2>1, <2>2
<1>13. CASE Pass
  BY <1>13 DEF Pass
<1>14. CASE SendResponse
  <2> DEFINE all == UNION {Answers(c) : c \in Commands}
  <2>1. /\ queue # << >> /\ queue' = Tail(queue) /\ asked' = asked
        /\ queue \in Seq(all) /\ Len(queue) <= QueueCap /\ QueueCap \in Nat
    BY <1>14, UplinkAssumption DEF SendResponse
  <2> HIDE DEF all, Answers
  <2>2. /\ Tail(queue) \in Seq(all) /\ Len(queue) \in Nat
        /\ Len(Tail(queue)) = Len(queue) - 1
        /\ \A i \in 1 .. Len(queue) - 1 : Tail(queue)[i] = queue[i + 1]
    BY <2>1
  <2> QED BY <2>1, <2>2 DEF all
<1>15. CASE SendSystem
  BY <1>15 DEF SendSystem
<1>16. CASE UNCHANGED vars
  BY <1>16 DEF vars
<1> QED
  BY <1>1, <1>2, <1>3, <1>4, <1>5, <1>6, <1>7, <1>8, <1>9, <1>10, <1>11, <1>12, <1>13, <1>14, <1>15, <1>16 DEF Next, Subscriber

\* Only answers and system messages are read.
LEMMA ReadStep ==
  ASSUME IInv, [Next]_vars
  PROVE  \/ read' = None \/ read' \in SystemReadings
         \/ \E c \in asked' : \E r \in Answers(c) : read' = Reading(r)
<1> USE DEF IInv, RequestInv, TypeOK
<1>1. CASE Run
  BY <1>1 DEF Run
<1>2. CASE Prepare
  BY <1>2 DEF Prepare
<1>3. CASE StartTx
  BY <1>3 DEF StartTx
<1>4. CASE TestDone
  BY <1>4 DEF TestDone
<1>5. CASE TestDeadline
  BY <1>5 DEF TestDeadline
<1>6. CASE StopTx
  BY <1>6 DEF StopTx
<1>7. CASE Free
  BY <1>7 DEF Free
<1>8. CASE Exit
  BY <1>8 DEF Exit
<1>9. CASE Fill
  BY <1>9 DEF Fill
<1>10. CASE Radiate
  BY <1>10 DEF Radiate
<1>11. CASE Unplug
  BY <1>11 DEF Unplug
<1>12. CASE Hear
  BY <1>12 DEF Hear
<1>13. CASE Pass
  BY <1>13 DEF Pass
<1>14. CASE SendResponse
  <2>1. queue # << >> /\ Len(queue) \in Nat /\ Len(queue) > 0 /\ Head(queue) = queue[1]
    BY <1>14 DEF SendResponse
  <2>2. 1 \in 1 .. Len(queue)
    BY <2>1
  <2> QED BY <1>14, <2>1, <2>2 DEF SendResponse
<1>15. CASE SendSystem
  BY <1>15 DEF SendSystem
<1>16. CASE UNCHANGED vars
  BY <1>16 DEF vars
<1> QED
  BY <1>1, <1>2, <1>3, <1>4, <1>5, <1>6, <1>7, <1>8, <1>9, <1>10, <1>11, <1>12, <1>13, <1>14, <1>15, <1>16 DEF Next, Subscriber

\* What is on the air is a block.
LEMMA AiringInBlocks ==
  ASSUME IInv, [Next]_vars
  PROVE  airing' \subseteq Blocks
BY AirStep, PlacesStep DEF Blocks

\* Every step keeps the invariant.
LEMMA Invariance == Spec => []IInv
<1>1. ASSUME IInv, [Next]_vars PROVE IInv'
  <2>1. TypeOK'
    BY <1>1, FlagsStep, NumbersStep, PlacesStep, AirStep, QueueStep, AiringInBlocks DEF TypeOK
  <2>2. RequestInv'
    BY <1>1, AirStep, QueueStep, ReadStep DEF RequestInv, Answers
  <2> QED BY <1>1, <2>1, <2>2, TransferStep, TailStep DEF IInv
<1> QED BY <1>1, InitInv, PTL DEF Spec

-----------------------------------------------------------------------------
(* What the invariant is for.                                              *)

\* The receiver's entry of a request is what was meant by it.
LEMMA LoggedAsMeant ==
  ASSUME NEW c \in Commands
  PROVE  Logged(Request(c)) = Meant(c)
<1> DEFINE group == Low(c.tgid, 16)
<1>0. /\ c.cmd \in {"aff", "vch", "uu", "reg", "dereg", "emrg"}
      /\ IsWord(c.src) /\ IsWord(c.tgid) /\ IsWord(c.target) /\ IsWord(c.sysID)
      /\ IsWord(Low(c.sysID, 16))
  BY UplinkAssumption, LowIsWord DEF IsCommand
<1>1. CASE c.cmd = "aff"
  <2> DEFINE a == Request(c).args
  <2>1. Request(c) = [op |-> 40, args |-> BuildGrpAffReq(group, c.src)]
    BY <1>1 DEF Request
  <2>2. SrcId(a) = Low(c.src, 24) /\ Tgid(a) = group
    BY <1>0, <2>1, GrpAffReqRead
  <2> HIDE DEF a
  <2>3. Logged(Request(c)) = Entry("aff", a, {}, group, {})
    BY <2>1, <2>2 DEF Logged, a
  <2> QED BY <1>1, <2>2, <2>3 DEF Entry, Meant
<1>2. CASE c.cmd = "vch"
  <2> DEFINE a == Request(c).args
  <2>1. Request(c) = [op |-> 0, args |-> BuildGrpVchReq({}, group, c.src)]
    BY <1>2 DEF Request
  <2>2. SrcId(a) = Low(c.src, 24) /\ Tgid(a) = group /\ Field(a, 63, 1) = {}
    BY <1>0, <2>1, GrpVchReqRead DEF Word
  <2> HIDE DEF a
  <2>3. Logged(Request(c)) = Entry("vch", a, {}, group, {})
    BY <2>1, <2>2 DEF Logged, a
  <2> QED BY <1>2, <2>2, <2>3 DEF Entry, Meant
<1>3. CASE c.cmd = "uu"
  <2> DEFINE a == Request(c).args
  <2>1. Request(c) = [op |-> 3, args |-> BuildUuVchReq({}, c.target, c.src)]
    BY <1>3 DEF Request
  <2>2. SrcId(a) = Low(c.src, 24) /\ Target(a) = Low(c.target, 24)
    BY <1>0, <2>1, UuVchReqRead DEF Word
  <2> HIDE DEF a
  <2>3. Logged(Request(c)) = Entry("uu", a, {}, {}, Low(c.target, 24))
    BY <2>1, <2>2 DEF Logged, a
  <2> QED BY <1>3, <2>2, <2>3 DEF Entry, Meant
<1>4. CASE c.cmd = "reg"
  <2> DEFINE a == Request(c).args
  <2>1. Request(c) = [op |-> 44, args |-> BuildURegReq(Low(c.sysID, 16), c.src)]
    BY <1>4 DEF Request
  <2>2. SrcId(a) = Low(c.src, 24)
    BY <1>0, <2>1, URegReqRead
  <2> HIDE DEF a
  <2>3. Logged(Request(c)) = Entry("reg", a, {}, {}, {})
    BY <2>1, <2>2 DEF Logged, a
  <2> QED BY <1>4, <2>2, <2>3 DEF Entry, Meant
<1>5. CASE c.cmd = "dereg"
  <2> DEFINE a == Request(c).args
  <2>1. Request(c) = [op |-> 47, args |-> BuildUDeRegAck(c.src)]
    BY <1>5 DEF Request
  <2>2. SrcId(a) = Low(c.src, 24)
    BY <1>0, <2>1, UDeRegAckRead
  <2> HIDE DEF a
  <2>3. Logged(Request(c)) = Entry("dereg", a, {}, {}, {})
    BY <2>1, <2>2 DEF Logged, a
  <2> QED BY <1>5, <2>2, <2>3 DEF Entry, Meant
<1>6. CASE c.cmd = "emrg"
  <2> DEFINE a == Request(c).args
  <2>1. Request(c) = [op |-> 15, args |-> BuildEmrgAlrmReq(group, c.src)]
    BY <1>6 DEF Request
  <2>2. SrcId(a) = Low(c.src, 24) /\ Tgid(a) = group
    BY <1>0, <2>1, EmrgAlrmReqRead
  <2> HIDE DEF a
  <2>3. Logged(Request(c)) = Entry("emrg", a, {}, group, {})
    BY <2>1, <2>2 DEF Logged, a
  <2> QED BY <1>6, <2>2, <2>3 DEF Entry, Meant
<1> QED BY <1>0, <1>1, <1>2, <1>3, <1>4, <1>5, <1>6

\* Only affiliations and registrations are answered, with their own numbers.
LEMMA AnswerRead ==
  ASSUME NEW c \in Commands, NEW r \in Answers(c)
  PROVE  \/ /\ c.cmd = "aff"
            /\ Reading(r) = [kind |-> "aff",
                             msg |-> [lg |-> {}, gav |-> {}, aga |-> Low(c.tgid, 16),
                                      ga |-> Low(c.tgid, 16), ta |-> Low(c.src, 24)]]
         \/ /\ c.cmd = "reg"
            /\ Reading(r) = [kind |-> "reg",
                             msg |-> [rv |-> {0}, site |-> Low(Site.sysid, 12),
                                      target |-> Low(c.src, 24), src |-> Low(c.src, 24)]]
<1>0. /\ c.cmd \in {"aff", "vch", "uu", "reg", "dereg", "emrg"}
      /\ IsWord(c.src) /\ IsWord(c.tgid) /\ IsWord(Site.sysid)
      /\ IsWord(Low(c.sysID, 16)) /\ IsWord(Low(c.src, 24))
      /\ Low(Low(c.src, 24), 24) = Low(c.src, 24)
  BY UplinkAssumption, LowIsWord, LowLow DEF IsCommand
<1>1. CASE c.cmd = "aff"
  <2> DEFINE group == Low(c.tgid, 16)
             src == Low(c.src, 24)
  <2>1. Request(c) = [op |-> 40, args |-> BuildGrpAffReq(group, c.src)]
    BY <1>1 DEF Request
  <2>2. Tgid(Request(c).args) = group /\ SrcId(Request(c).args) = src
    BY <1>0, <2>1, GrpAffReqRead
  <2> HIDE DEF group, src
  <2>3. r = [op |-> 40, args |-> BuildGrpAffRsp({}, {}, group, group, src)]
    <3> DEFINE b == Request(c)
    <3>1. b.op = 40 /\ Tgid(b.args) = group /\ SrcId(b.args) = src /\ r \in Responses(b, Site.sysid)
      BY <2>1, <2>2 DEF Answers
    <3> HIDE DEF b
    <3> QED BY <3>1 DEF Responses
  <2>4. Reading(r) = [kind |-> "aff", msg |-> GroupAffiliationResponse(r.args)]
    BY <2>3 DEF Reading
  <2>5. GroupAffiliationResponse(r.args)
          = [lg |-> {}, gav |-> {}, aga |-> group, ga |-> group, ta |-> src]
    BY <1>0, <2>3, GrpAffRspRead DEF group, src
  <2> QED BY <1>1, <2>4, <2>5 DEF group, src
<1>2. CASE c.cmd = "reg"
  <2> DEFINE src == Low(c.src, 24)
             rsp == BuildURegRsp({0}, Site.sysid, src, src)
  <2>1. Request(c) = [op |-> 44, args |-> BuildURegReq(Low(c.sysID, 16), c.src)]
    BY <1>2 DEF Request
  <2>2. SrcId(Request(c).args) = src
    BY <1>0, <2>1, URegReqRead
  <2>3. UnitRegistrationResponse(rsp)
          = [rv |-> {0}, site |-> Low(Site.sysid, 12), target |-> src, src |-> src]
    BY <1>0, URegRspRead
  <2> HIDE DEF src
  <2>4. r = [op |-> 44, args |-> rsp]
    <3> DEFINE b == Request(c)
    <3>1. b.op = 44 /\ SrcId(b.args) = src /\ r \in Responses(b, Site.sysid)
      BY <2>1, <2>2 DEF Answers
    <3> HIDE DEF b
    <3> QED BY <3>1 DEF Responses
  <2>5. Reading(r) = [kind |-> "reg", msg |-> UnitRegistrationResponse(rsp)]
    BY <2>4 DEF Reading
  <2> QED BY <1>2, <2>3, <2>5 DEF src
<1>3. CASE c.cmd \notin {"aff", "reg"}
  <2>1. Request(c).op # 40 /\ Request(c).op # 44
    BY <1>0, <1>3 DEF Request
  <2> DEFINE b == Request(c)
  <2> HIDE DEF b
  <2>2. Responses(b, Site.sysid) = {}
    BY <2>1 DEF Responses, b
  <2> QED BY <2>2 DEF Answers, b
<1> QED BY <1>1, <1>2, <1>3

\* A system message is none of the two responses.
LEMMA SystemIsNoAnswer ==
  ASSUME NEW m \in SystemReadings
  PROVE  m.kind \notin {"aff", "reg"}
<1>1. PICK now \in Clocks : \E b \in SystemTSBKs(now) : m = Reading(b)
  BY DEF SystemReadings
<1>2. PICK b \in SystemTSBKs(now) : m = Reading(b)
  BY <1>1
<1>3. b.op \in {61, 59, 58, 60, 48}
  BY DEF SystemTSBKs
<1> QED BY <1>2, <1>3 DEF Reading

\* Bit 0 tells odd numbers from even ones, so the neighbour is another site.
LEMMA NeighbourDiffers ==
  ASSUME NEW s \in 0 .. 255
  PROVE  /\ (s + 1) % 256 \in 0 .. 255
         /\ Bits((s + 1) % 256) # Bits(s)
<1> DEFINE t == (s + 1) % 256
<1>1. t \in 0 .. 255 /\ t % 2 # s % 2 /\ s % 2 \in {0, 1} /\ t % 2 \in {0, 1}
  OBVIOUS
<1> HIDE DEF t
<1>2. ASSUME NEW x \in Nat PROVE 0 \in Bits(x) <=> x % 2 = 1
  <2>1. 0 \in Bits(x) <=> 0 \in Word(30) /\ (x \div 2^0) % 2 = 1
    BY Zenon DEF Bits
  <2>2. x \div 2^0 = x /\ 0 \in Word(30)
    BY DEF Word
  <2> QED BY <2>1, <2>2
<1>3. 0 \in Bits(s) <=> s % 2 = 1
  BY <1>2
<1>4. 0 \in Bits(t) <=> t % 2 = 1
  BY <1>1, <1>2
<1> QED BY <1>1, <1>3, <1>4 DEF t

\* A clock's numbers fit their fields.
LEMMA TimeFits ==
  ASSUME NEW now, IsTime(now)
  PROVE  /\ LocalOffset(now.halfHours) \subseteq Word(6)
         /\ 5 \in LocalOffset(now.halfHours) <=> now.halfHours < 0
         /\ LocalOffset(now.halfHours) \ {5}
              = Bits(IF now.halfHours < 0 THEN 0 - now.halfHours ELSE now.halfHours)
         /\ Bits(now.year % 100) \subseteq Word(7) /\ Bits(now.month) \subseteq Word(4)
         /\ Bits(now.day) \subseteq Word(5) /\ Bits(now.hour) \subseteq Word(5)
         /\ Bits(now.min) \subseteq Word(6) /\ Bits(now.sec * 135) \subseteq Word(13)
<1>1. /\ Bits(now.year % 100) \subseteq Word(7) /\ Bits(now.month) \subseteq Word(4)
      /\ Bits(now.day) \subseteq Word(5) /\ Bits(now.hour) \subseteq Word(5)
      /\ Bits(now.min) \subseteq Word(6) /\ Bits(now.sec * 135) \subseteq Word(13)
  <2>1. /\ now.year % 100 \in Nat /\ now.year % 100 < 128
        /\ now.month \in Nat /\ now.month < 16 /\ now.day \in Nat /\ now.day < 32
        /\ now.hour \in Nat /\ now.hour < 32 /\ now.min \in Nat /\ now.min < 64
        /\ now.sec * 135 \in Nat /\ now.sec * 135 < 8192
    BY DEF IsTime
  <2> QED BY <2>1, NumberInField
<1> DEFINE h == now.halfHours
           m == IF h < 0 THEN 0 - h ELSE h
<1>2. h \in -31 .. 31 /\ m \in Nat /\ m < 32
  BY DEF IsTime
<1> HIDE DEF h
<1>3. LocalOffset(h) = IF h < 0 THEN {5} \cup Bits(m) ELSE Bits(m)
  BY <1>2 DEF LocalOffset
<1> HIDE DEF m
<1>4. Bits(m) \subseteq Word(5)
  BY <1>2, NumberInField
<1>5. Word(5) \subseteq Word(6) /\ 5 \in Word(6) /\ 5 \notin Word(5)
  BY DEF Word
<1>6. /\ LocalOffset(h) \subseteq Word(6)
      /\ 5 \in LocalOffset(h) <=> h < 0
      /\ LocalOffset(h) \ {5} = Bits(m)
  BY <1>3, <1>4, <1>5
<1> QED BY <1>1, <1>6 DEF h, m

\* A radio reads of a system message what the site's configuration says.
Announces(m) ==
  /\ m.kind = "net" => m.msg.wacn = Low(Site.wacn, 20) /\ m.msg.sysid = Low(Site.sysid, 12)
  /\ m.kind = "rfss" => /\ m.msg.sysid = Low(Site.sysid, 12)
                        /\ m.msg.rfssid = Site.rfssid
                        /\ m.msg.siteid = Bits(Site.siteid)
                        /\ m.msg.channel = Shl(Low(Site.chanId, 4), 12)
  /\ m.kind = "adj" => /\ m.msg.cfva = {}
                       /\ m.msg.rfssid = Site.rfssid
                       /\ m.msg.siteid # Bits(Site.siteid)
  /\ m.kind = "iden" => /\ m.msg.iden = Low(Site.chanId, 4)
                        /\ m.msg.bw = Low(Site.bw, 9)
                        /\ m.msg.spacing = Low(Site.spacing, 10)
                        /\ m.msg.magnitude = Low(Site.magnitude, 8)
                        /\ m.msg.positive = (Site.positive /\ Site.magnitude # {})
                        /\ m.msg.base = Low(Site.base, 32)
  /\ m.kind = "sync" => \E now \in Clocks : Told(m.msg, now)

LEMMA SystemAnnounces ==
  ASSUME NEW m \in SystemReadings
  PROVE  Announces(m)
<1>1. PICK now \in Clocks : \E b \in SystemTSBKs(now) : m = Reading(b)
  BY DEF SystemReadings
<1>2. PICK b \in SystemTSBKs(now) : m = Reading(b)
  BY <1>1
<1>3. /\ IsWord(Site.wacn) /\ IsWord(Site.sysid) /\ IsWord(Site.chanId) /\ IsWord(Site.bw)
      /\ IsWord(Site.magnitude) /\ IsWord(Site.spacing) /\ IsWord(Site.base) /\ IsWord({})
      /\ {} \subseteq Word(8)
  BY UplinkAssumption DEF IsWord
<1>4. /\ Site.siteid \in 0 .. 255 /\ Site.positive \in BOOLEAN /\ IsTime(now)
      /\ Site.rfssid \subseteq Word(8)
  BY UplinkAssumption DEF Word
<1>5. /\ Bits(Site.siteid) \subseteq Word(8)
      /\ Bits((Site.siteid + 1) % 256) \subseteq Word(8)
      /\ Bits((Site.siteid + 1) % 256) # Bits(Site.siteid)
  <2> DEFINE next == (Site.siteid + 1) % 256
  <2>1. Site.siteid \in Nat /\ Site.siteid < 256 /\ next \in Nat /\ next < 256
    BY <1>4
  <2>2. Bits(next) # Bits(Site.siteid)
    BY <1>4, NeighbourDiffers
  <2> HIDE DEF next
  <2>3. Bits(Site.siteid) \subseteq Word(8) /\ Bits(next) \subseteq Word(8)
    BY <2>1, NumberInField
  <2> QED BY <2>2, <2>3 DEF next
<1>6. ASSUME b = [op |-> 61, args |-> BuildIDENUp(Site.chanId, Site.bw, Site.positive,
                                        Site.magnitude, Site.spacing, Site.base)]
      PROVE  Announces(m)
  <2>1. m = [kind |-> "iden", msg |-> IdenUpdate(b.args)]
    BY <1>2, <1>6 DEF Reading
  <2> QED BY <1>3, <1>4, <1>6, <2>1, IdenUpRead DEF Announces
<1>7. ASSUME b = [op |-> 59, args |-> BuildNetStatusBcast(Site.wacn, Site.sysid, {}, {}, {})]
      PROVE  Announces(m)
  <2>1. m = [kind |-> "net", msg |-> NetworkStatus(b.args)]
    BY <1>2, <1>7 DEF Reading
  <2> QED BY <1>3, <1>7, <2>1, NetStatusRead DEF Announces
<1>8. ASSUME b = [op |-> 58, args |-> BuildRFSSStatusBcast({}, Site.sysid, Site.rfssid,
                                        Bits(Site.siteid), Site.chanId, {}, {})]
      PROVE  Announces(m)
  <2>1. m = [kind |-> "rfss", msg |-> RfssStatus(b.args)]
    BY <1>2, <1>8 DEF Reading
  <2>2. Channel(Site.chanId, {}) = Shl(Low(Site.chanId, 4), 12)
    BY DEF Channel, Low
  <2> QED BY <1>3, <1>4, <1>5, <1>8, <2>1, <2>2, RfssStatusRead DEF Announces
<1>9. ASSUME b = [op |-> 60, args |-> BuildAdjStsBcast(Site.sysid, Site.rfssid,
                                        Bits((Site.siteid + 1) % 256), {}, {}, {})]
      PROVE  Announces(m)
  <2>1. m = [kind |-> "adj", msg |-> AdjacentStatus(b.args)]
    BY <1>2, <1>9 DEF Reading
  <2> QED BY <1>3, <1>4, <1>5, <1>9, <2>1, AdjStatusRead DEF Announces
<1>10. ASSUME b = [op |-> 48, args |-> BuildSyncBcast(now)]
       PROVE  Announces(m)
  <2>1. m = [kind |-> "sync", msg |-> Synchronization(b.args)]
    BY <1>2, <1>10 DEF Reading
  <2>2. /\ m.msg.flags = {3} /\ m.msg.valid
        /\ m.msg.ltoff = LocalOffset(now.halfHours)
        /\ m.msg.year = Bits(now.year % 100) /\ m.msg.month = Bits(now.month)
        /\ m.msg.day = Bits(now.day) /\ m.msg.hour = Bits(now.hour)
        /\ m.msg.min = Bits(now.min) /\ m.msg.slots = Bits(now.sec * 135)
    <3> DEFINE lt == LocalOffset(now.halfHours)
               yy == Bits(now.year % 100)
               mo == Bits(now.month)
               dd == Bits(now.day)
               hh == Bits(now.hour)
               mi == Bits(now.min)
               sl == Bits(now.sec * 135)
    <3>1. /\ lt \subseteq Word(6) /\ yy \subseteq Word(7) /\ mo \subseteq Word(4)
          /\ dd \subseteq Word(5) /\ hh \subseteq Word(5) /\ mi \subseteq Word(6)
          /\ sl \subseteq Word(13)
      BY <1>4, TimeFits
    <3>2. m.msg = Synchronization(SyncArgs(lt, yy, mo, dd, hh, mi, sl))
      BY <1>10, <2>1 DEF BuildSyncBcast
    <3> HIDE DEF lt, yy, mo, dd, hh, mi, sl
    <3>3. /\ IsWord(yy) /\ IsWord(mo) /\ IsWord(dd)
          /\ IsWord(hh) /\ IsWord(mi) /\ IsWord(sl)
      BY <3>1, FieldIsWord
    <3>4. /\ Low(yy, 7) = yy /\ Low(mo, 4) = mo /\ Low(dd, 5) = dd
          /\ Low(hh, 5) = hh /\ Low(mi, 6) = mi /\ Low(sl, 13) = sl
      BY <3>1, LowOfFitting
    <3> DEFINE r == Synchronization(SyncArgs(lt, yy, mo, dd, hh, mi, sl))
    <3>5. /\ r.flags = {3} /\ r.valid /\ r.ltoff = lt
          /\ r.year = Low(yy, 7) /\ r.month = Low(mo, 4) /\ r.day = Low(dd, 5)
          /\ r.hour = Low(hh, 5) /\ r.min = Low(mi, 6) /\ r.slots = Low(sl, 13)
      BY <3>1, <3>3, SyncRead
    <3> HIDE DEF r
    <3>6. m.msg = r
      BY <3>2 DEF r
    <3>7. /\ m.msg.flags = {3} /\ m.msg.valid /\ m.msg.ltoff = lt
          /\ m.msg.year = yy /\ m.msg.month = mo /\ m.msg.day = dd
          /\ m.msg.hour = hh /\ m.msg.min = mi /\ m.msg.slots = sl
      BY <3>4, <3>5, <3>6
    <3> QED BY <3>7 DEF lt, yy, mo, dd, hh, mi, sl
  <2>3. now.sec * 135 = 135 * now.sec
    BY <1>4 DEF IsTime
  <2>4. Told(m.msg, now)
    BY <1>4, <2>2, <2>3, TimeFits DEF Told
  <2> QED BY <2>1, <2>4 DEF Announces
<1> QED BY <1>2, <1>6, <1>7, <1>8, <1>9, <1>10 DEF SystemTSBKs

-----------------------------------------------------------------------------
(* The theorems.                                                           *)

\* The variables of subscriber_test, libhackrf, the site and the radio keep
\* their types.
THEOREM Typing == Spec => []TypeOK
BY Invariance, PTL DEF IInv

\* The C copy of the samples is there as long as the callback may run.
THEOREM Held == Spec => []BufferHeld
<1>1. IInv => BufferHeld
  BY DEF IInv, TransferInv, BufferHeld
<1> QED BY <1>1, Invariance, PTL

\* A run that ends with "Done." lost the last Depth transfers at most.
THEOREM TailOnly == Spec => []TailOnlyLost
<1>1. IInv => TailOnlyLost
  BY Transfers DEF IInv, TypeOK, TailInv, Fits, TailOnlyLost
<1> QED BY <1>1, Invariance, PTL

\* The log shows requests that were made, as they were made.
THEOREM Understood == Spec => []RequestUnderstood
<1>1. IInv => RequestUnderstood
  BY LoggedAsMeant DEF IInv, TypeOK, RequestInv, RequestUnderstood
<1> QED BY <1>1, Invariance, PTL

\* A response carries the numbers of a request of its kind.
THEOREM Matches == Spec => []ResponseMatches
<1>1. IInv => ResponseMatches
  <2> SUFFICES ASSUME IInv, read # None PROVE ResponseMatches
    BY DEF ResponseMatches
  <2> USE DEF IInv, TypeOK, RequestInv
  <2>1. CASE read \in SystemReadings
    BY <2>1, SystemIsNoAnswer DEF ResponseMatches
  <2>2. CASE \E c \in asked : \E r \in Answers(c) : read = Reading(r)
    <3>1. PICK c \in asked : \E r \in Answers(c) : read = Reading(r)
      BY <2>2
    <3>2. PICK r \in Answers(c) : read = Reading(r)
      BY <3>1
    <3>3. c \in Commands
      OBVIOUS
    <3> QED BY <3>2, <3>3, AnswerRead DEF ResponseMatches
  <2> QED BY <2>1, <2>2
<1> QED BY <1>1, Invariance, PTL

\* A radio that listens learns the site's configuration, the date and the time,
\* and a neighbour that is not the site, for every configuration and every clock.
THEOREM Announced == Spec => []SiteAnnounced
<1>1. IInv => SiteAnnounced
  <2> SUFFICES ASSUME IInv, read # None PROVE SiteAnnounced
    BY DEF SiteAnnounced
  <2>1. CASE read \in SystemReadings
    BY <2>1, SystemAnnounces DEF Announces, SiteAnnounced
  <2>2. CASE \E c \in asked : \E r \in Answers(c) : read = Reading(r)
    <3>1. read.kind \in {"aff", "reg"}
      BY <2>2, AnswerRead DEF IInv, TypeOK
    <3> QED BY <3>1 DEF SiteAnnounced
  <2> QED BY <2>1, <2>2 DEF IInv, RequestInv
<1> QED BY <1>1, Invariance, PTL
=============================================================================
