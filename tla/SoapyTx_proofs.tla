--------------------------- MODULE SoapyTx_proofs ---------------------------
(***************************************************************************)
(* Proofs about the transmit ring, for every ring size, chunk size and set *)
(* of block sizes.  The argument measures the ring by walking: Ahead(a, b) *)
(* is the number of steps from position a forward to position b, and       *)
(* Step(a, k) the position k steps after a.  The inductive invariant says  *)
(* that the byte Ahead(rpos, j) steps into the pending part is the one     *)
(* numbered got + 1 + Ahead(rpos, j), the part the producer has copied but *)
(* not published included, and that the room it was promised is still free.*)
(***************************************************************************)
EXTENDS SoapyTx, SequenceTheorems, TLAPS

Ahead(a, b) == IF a <= b THEN b - a ELSE b - a + RingSize
Step(a, k)  == IF a + k < RingSize THEN a + k ELSE a + k - RingSize

Pending  == sent - got
InFlight == IF wpc = "copy" THEN copied ELSE 0

WriterInv ==
  /\ wpc # "idle" => block \in BlockSizes /\ sent + block <= MaxBytes
  /\ wpc = "copy" => /\ copied <= block
                     /\ w = Step(wpos, copied)
                     /\ Pending + block < RingSize

ReaderInv ==
  /\ txpc = "read" => /\ taken <= want /\ want <= Pending
                      /\ r = Step(rpos, taken)
                      /\ hw => \A i \in 1 .. taken : buf[i] = got + i
  /\ txpc = "send" => /\ want <= got
                      /\ \A i \in 1 .. want : buf[i] = got - want + i

RingInv ==
  /\ Pending = Ahead(rpos, wpos)
  /\ \A j \in 0 .. RingSize - 1 :
       Ahead(rpos, j) < Pending + InFlight => ring[j] = got + 1 + Ahead(rpos, j)

IInv == TypeOK /\ WriterInv /\ ReaderInv /\ RingInv

-----------------------------------------------------------------------------
(* Arithmetic of the ring positions.                                        *)

\* The next position, as ringWrite() and ringRead() compute it.
LEMMA NextPosition ==
  ASSUME NEW N \in Nat \ {0}, NEW a \in 0 .. N - 1
  PROVE  (a + 1) % N = IF a + 1 < N THEN a + 1 ELSE 0
  <1>1. CASE a + 1 < N
    BY <1>1, SMT
  <1>2. CASE a + 1 = N
    BY <1>2, SMT
  <1>3. QED
    BY <1>1, <1>2

\* A sum below twice the ring size wraps at most once.
LEMMA WrapOnce ==
  ASSUME NEW N \in Nat \ {0}, NEW a \in 0 .. 2 * N - 1
  PROVE  a % N = IF a < N THEN a ELSE a - N
  <1>1. CASE a < N
    BY <1>1, SMT
  <1>2. CASE a >= N
    BY <1>2, SMT
  <1>3. QED
    BY <1>1, <1>2

\* ringAvailable() is the walk from m_rpos to m_wpos.
LEMMA AvailableIsAhead ==
  ASSUME TypeOK
  PROVE  RingAvailable = Ahead(rpos, wpos)
  <1>1. wpos - rpos + RingSize \in 0 .. 2 * RingSize - 1
    BY RingAssumption DEF TypeOK
  <1> DEFINE a == wpos - rpos + RingSize
  <1> HIDE DEF a
  <1>2. a % RingSize = IF a < RingSize THEN a ELSE a - RingSize
    BY <1>1, WrapOnce, RingAssumption DEF a
  <1>3. RingAvailable = a % RingSize
    BY DEF RingAvailable, a
  <1>4. RingAvailable = IF a < RingSize THEN a ELSE a - RingSize
    BY <1>2, <1>3
  <1>5. QED
    BY <1>4, RingAssumption DEF TypeOK, Ahead, a

\* A walk between two positions is shorter than the ring.
LEMMA AheadInRing ==
  ASSUME NEW a \in 0 .. RingSize - 1, NEW b \in 0 .. RingSize - 1
  PROVE  Ahead(a, b) \in 0 .. RingSize - 1
  BY RingAssumption DEF Ahead

\* Walking different distances from the same position ends in different ones.
LEMMA AheadInjective ==
  ASSUME NEW a \in 0 .. RingSize - 1,
         NEW i \in 0 .. RingSize - 1, NEW j \in 0 .. RingSize - 1,
         Ahead(a, i) = Ahead(a, j)
  PROVE  i = j
  BY RingAssumption DEF Ahead

\* A walk that starts k steps later is k steps shorter.
LEMMA AheadOfStep ==
  ASSUME NEW a \in 0 .. RingSize - 1, NEW k \in 0 .. RingSize - 1,
         NEW j \in 0 .. RingSize - 1
  PROVE  /\ Step(a, k) \in 0 .. RingSize - 1
         /\ Ahead(a, Step(a, k)) = k
         /\ Ahead(Step(a, k), j) + k < RingSize =>
              Ahead(a, j) = Ahead(Step(a, k), j) + k
         /\ k <= Ahead(a, j) => Ahead(Step(a, k), j) = Ahead(a, j) - k
  BY RingAssumption DEF Ahead, Step

\* What is pending is the walk to m_wpos, so it never fills the ring.
LEMMA PendingFits ==
  ASSUME TypeOK, RingInv
  PROVE  /\ Pending \in 0 .. RingSize - 1
         /\ Pending = Ahead(rpos, wpos)
         /\ Pending = RingAvailable
  <1>1. Pending = Ahead(rpos, wpos)
    BY DEF RingInv
  <1>2. Ahead(rpos, wpos) \in 0 .. RingSize - 1
    BY AheadInRing DEF TypeOK
  <1>3. QED
    BY <1>1, <1>2, AvailableIsAhead

-----------------------------------------------------------------------------
(* The invariant holds initially and every action keeps it.                 *)

LEMMA InitInv == Init => IInv
  <1> SUFFICES ASSUME Init PROVE IInv
    OBVIOUS
  <1> USE RingAssumption DEF Init
  <1>1. TypeOK
    <2>1. device \in BOOLEAN /\ running \in BOOLEAN /\ hw \in BOOLEAN
      OBVIOUS
    <2>2. /\ ring \in [0 .. RingSize - 1 -> 0 .. MaxBytes]
          /\ buf \in [1 .. ChunkBytes -> 0 .. MaxBytes]
      BY DEF Silence
    <2>3. QED
      BY <2>1, <2>2 DEF TypeOK
  <1>2. WriterInv /\ ReaderInv
    BY DEF WriterInv, ReaderInv
  <1>3. RingInv
    BY DEF RingInv, Pending, InFlight, Ahead
  <1>4. QED
    BY <1>1, <1>2, <1>3 DEF IInv

LEMMA WriterKeepsInv ==
  ASSUME IInv, Writer
  PROVE  IInv'
  <1> USE RingAssumption DEF IInv
  <1>1. ASSUME NEW n \in BlockSizes, BeginWrite(n)
        PROVE  IInv'
    <2> USE <1>1 DEF BeginWrite, ringVars, txVars, guiVars
    <2>1. TypeOK'
      BY DEF TypeOK
    <2>2. WriterInv'
      BY DEF WriterInv
    <2>3. ReaderInv'
      BY DEF ReaderInv, Pending
    <2>4. RingInv'
      BY DEF RingInv, Pending, InFlight, Ahead
    <2>5. QED
      BY <2>1, <2>2, <2>3, <2>4
  <1>2. CASE FindRoom
    <2> USE <1>2 DEF FindRoom, ringVars, txVars, guiVars
    <2>1. TypeOK'
      BY DEF TypeOK
    <2>2. WriterInv'
      <3>1. Pending + block < RingSize
        BY AvailableIsAhead DEF RingInv
      <3>2. wpos = Step(wpos, 0)
        BY DEF Step, TypeOK
      <3>3. block \in BlockSizes /\ sent + block <= MaxBytes /\ 0 <= block
        BY DEF WriterInv, TypeOK
      <3>4. w' = Step(wpos', copied') /\ Pending' + block' < RingSize
        BY <3>1, <3>2 DEF Pending, Step
      <3>5. QED
        BY <3>3, <3>4 DEF WriterInv
    <2>3. ReaderInv'
      BY DEF ReaderInv, Pending
    <2>4. RingInv'
      BY DEF RingInv, Pending, InFlight, Ahead
    <2>5. QED
      BY <2>1, <2>2, <2>3, <2>4
  <1>3. CASE CopyIn
    <2>1. w' = IF w + 1 < RingSize THEN w + 1 ELSE 0
      BY <1>3, NextPosition DEF TypeOK, CopyIn
    <2>2. /\ wpc = "copy" /\ copied < block
          /\ ring' = [ring EXCEPT ![w] = sent + copied + 1]
          /\ copied' = copied + 1
          /\ UNCHANGED <<wpc, block, wpos, rpos, sent, got, txVars, guiVars>>
      BY <1>3 DEF CopyIn
    <2> USE <2>2 DEF txVars, guiVars
    <2>3. TypeOK'
      <3>1. block \in 1 .. RingSize - 1 /\ sent + block <= MaxBytes
        BY DEF WriterInv
      <3>2. w' \in 0 .. RingSize - 1
        BY <2>1 DEF TypeOK
      <3>3. QED
        BY <3>1, <3>2 DEF TypeOK
    <2>4. WriterInv'
      BY <2>1 DEF WriterInv, Pending, Step, TypeOK
    <2>5. ReaderInv'
      BY DEF ReaderInv, Pending
    <2>6. RingInv'
      <3>1. Ahead(rpos, w) = Pending + copied
        BY DEF WriterInv, RingInv, Pending, Ahead, Step, TypeOK
      <3>2. \A j \in 0 .. RingSize - 1 : Ahead(rpos, j) = Ahead(rpos, w) => j = w
        BY AheadInjective DEF TypeOK
      <3>3. ASSUME NEW j \in 0 .. RingSize - 1, Ahead(rpos, j) < Pending + copied + 1
            PROVE  ring'[j] = got + 1 + Ahead(rpos, j)
        <4>1. CASE j = w
          BY <3>1, <4>1 DEF Pending, TypeOK
        <4>2. CASE j # w
          BY <3>1, <3>2, <3>3, <4>2 DEF RingInv, InFlight, Ahead, Pending, TypeOK
        <4>3. QED
          BY <4>1, <4>2
      <3>4. QED
        BY <3>3 DEF RingInv, Pending, InFlight, Ahead, TypeOK
    <2>7. QED
      BY <2>3, <2>4, <2>5, <2>6
  <1>4. CASE PublishWrite
    <2> USE <1>4 DEF PublishWrite, txVars, guiVars
    <2>1. TypeOK'
      BY DEF TypeOK, WriterInv
    <2>2. WriterInv'
      BY DEF WriterInv
    <2>3. ReaderInv'
      BY DEF ReaderInv, Pending, TypeOK
    <2>4. RingInv'
      <3>1. Ahead(rpos, w) = Pending + block
        BY DEF WriterInv, RingInv, Pending, Ahead, Step, TypeOK
      <3>2. QED
        BY <3>1 DEF RingInv, Pending, InFlight, Ahead, TypeOK
    <2>5. QED
      BY <2>1, <2>2, <2>3, <2>4
  <1>5. QED
    BY <1>1, <1>2, <1>3, <1>4 DEF Writer

LEMMA TxThreadKeepsInv ==
  ASSUME IInv, TxThread
  PROVE  IInv'
  <1> USE RingAssumption DEF IInv
  <1>1. CASE Enter
    <2> USE <1>1 DEF Enter, ringVars, writerVars, guiVars
    <2>1. TypeOK'
      <3>1. buf' \in [1 .. ChunkBytes -> 0 .. MaxBytes]
        BY DEF Silence
      <3>2. hw' \in BOOLEAN
        BY DEF TypeOK
      <3>3. QED
        BY <3>1, <3>2 DEF TypeOK
    <2>2. WriterInv' /\ ReaderInv'
      BY DEF WriterInv, ReaderInv, Pending
    <2>3. RingInv'
      BY DEF RingInv, Pending, InFlight, Ahead
    <2>4. QED
      BY <2>1, <2>2, <2>3
  <1>2. CASE TestRunning
    <2> USE <1>2 DEF TestRunning, ringVars, writerVars, guiVars
    <2>1. TypeOK'
      BY DEF TypeOK
    <2>2. WriterInv' /\ ReaderInv'
      BY DEF WriterInv, ReaderInv, Pending
    <2>3. RingInv'
      BY DEF RingInv, Pending, InFlight, Ahead
    <2>4. QED
      BY <2>1, <2>2, <2>3
  <1>3. CASE Measure
    <2>1. Portion \in 0 .. ChunkBytes /\ Portion <= Pending
      <3>1. Pending \in Nat /\ Pending = RingAvailable
        BY PendingFits
      <3>2. QED
        BY <3>1 DEF Portion
    <2>2. /\ want' = Portion /\ taken' = 0 /\ r' = rpos
          /\ txpc' \in {"read", "send", "test"}
          /\ txpc' = "send" => want' = 0
          /\ UNCHANGED <<hw, buf, ringVars, writerVars, guiVars>>
      <3>1. Portion > 0 \/ Portion = 0
        BY <2>1
      <3>2. QED
        BY <1>3, <3>1 DEF Measure
    <2> USE <2>2 DEF ringVars, writerVars, guiVars
    <2>3. TypeOK'
      BY <2>1 DEF TypeOK
    <2>4. WriterInv'
      BY DEF WriterInv, Pending
    <2>5. ReaderInv'
      BY <2>1 DEF ReaderInv, Pending, Step, TypeOK
    <2>6. RingInv'
      BY DEF RingInv, Pending, InFlight, Ahead
    <2>7. QED
      BY <2>3, <2>4, <2>5, <2>6
  <1>4. CASE CopyOut
    <2>1. r' = IF r + 1 < RingSize THEN r + 1 ELSE 0
      BY <1>4, NextPosition DEF TypeOK, CopyOut
    <2>2. /\ txpc = "read" /\ taken < want
          /\ buf' = IF hw THEN [buf EXCEPT ![taken + 1] = ring[r]] ELSE buf
          /\ taken' = taken + 1
          /\ UNCHANGED <<txpc, hw, want, ringVars, writerVars, guiVars>>
      BY <1>4 DEF CopyOut
    <2> USE <2>2 DEF ringVars, writerVars, guiVars
    <2>3. /\ taken \in 0 .. ChunkBytes - 1
          /\ taken + 1 \in 1 .. ChunkBytes
      BY DEF TypeOK
    <2>4. ring[r] = got + 1 + taken
      <3>1. /\ taken < Pending /\ taken \in 0 .. RingSize - 1
            /\ r = Step(rpos, taken)
        <4>1. Pending \in 0 .. RingSize - 1
          BY PendingFits
        <4>2. taken \in Nat /\ want \in Nat
          BY DEF TypeOK
        <4>3. want <= Pending /\ r = Step(rpos, taken)
          BY DEF ReaderInv
        <4>4. QED
          BY <4>1, <4>2, <4>3
      <3>2. Ahead(rpos, r) = taken
        BY <3>1, AheadOfStep DEF TypeOK
      <3>3. Ahead(rpos, r) < Pending + InFlight
        BY <3>1, <3>2 DEF InFlight, Pending, TypeOK
      <3>4. QED
        BY <3>2, <3>3 DEF RingInv, TypeOK
    <2>5. TypeOK'
      <3>1. ring[r] \in 0 .. MaxBytes
        BY DEF TypeOK
      <3>2. buf' \in [1 .. ChunkBytes -> 0 .. MaxBytes]
        BY <2>3, <3>1 DEF TypeOK
      <3>3. r' \in 0 .. RingSize - 1
        BY <2>1 DEF TypeOK
      <3>4. taken' \in 0 .. ChunkBytes
        BY <2>2, <2>3
      <3>5. txpc' \in {"none", "spawned", "test", "measure", "read", "send", "done"}
        BY <2>2
      <3>6. QED
        BY <3>2, <3>3, <3>4, <3>5 DEF TypeOK
    <2>6. WriterInv'
      BY DEF WriterInv, Pending
    <2>7. ReaderInv'
      <3>1. r' = Step(rpos, taken + 1)
        <4>1. Pending \in 0 .. RingSize - 1
          BY PendingFits
        <4>2. want <= Pending /\ r = Step(rpos, taken)
          BY DEF ReaderInv
        <4>3. /\ rpos \in 0 .. RingSize - 1
              /\ taken \in Nat /\ want \in Nat
          BY DEF TypeOK
        <4>4. QED
          BY <2>1, <4>1, <4>2, <4>3 DEF Step
      <3>2. ASSUME hw, NEW i \in 1 .. taken + 1
            PROVE  buf'[i] = got + i
        <4>1. buf' = [buf EXCEPT ![taken + 1] = got + 1 + taken]
          BY <2>4, <3>2
        <4>2. /\ buf \in [1 .. ChunkBytes -> 0 .. MaxBytes]
              /\ got \in Nat /\ i \in 1 .. ChunkBytes
          BY <2>3, <3>2 DEF TypeOK
        <4>3. CASE i = taken + 1
          BY <2>3, <4>1, <4>2, <4>3
        <4>4. CASE i \in 1 .. taken
          <5>1. buf[i] = got + i
            BY <3>2, <4>4 DEF ReaderInv
          <5>2. buf'[i] = buf[i]
            BY <2>3, <4>1, <4>2, <4>4
          <5>3. QED
            BY <5>1, <5>2
        <4>5. QED
          BY <2>3, <3>2, <4>3, <4>4
      <3>3. taken + 1 <= want /\ want <= Pending
        BY <2>3 DEF ReaderInv, TypeOK
      <3>4. QED
        BY <3>1, <3>2, <3>3 DEF ReaderInv, Pending
    <2>8. RingInv'
      BY DEF RingInv, Pending, InFlight, Ahead
    <2>9. QED
      BY <2>5, <2>6, <2>7, <2>8
  <1>5. CASE PublishRead
    <2>1. /\ rpos' = r /\ got' = got + want
          /\ txpc' \in {"send", "test"}
          /\ txpc' = "send" => hw
          /\ UNCHANGED <<ring, wpos, sent, hw, want, r, taken, buf,
                         writerVars, guiVars>>
      BY <1>5 DEF PublishRead
    <2>2. /\ Pending \in 0 .. RingSize - 1 /\ Pending = Ahead(rpos, wpos)
          /\ sent \in Nat /\ got \in Nat /\ want \in Nat
          /\ rpos \in 0 .. RingSize - 1 /\ wpos \in 0 .. RingSize - 1
      BY PendingFits DEF TypeOK
    <2>3. /\ want <= Pending /\ r = Step(rpos, want)
          /\ hw => \A i \in 1 .. want : buf[i] = got + i
      BY <1>5 DEF PublishRead, ReaderInv
    <2>4. want \in 0 .. RingSize - 1
      BY <2>2, <2>3
    <2>5. Pending' = Pending - want
      BY <2>1, <2>2 DEF Pending
    <2>6. TypeOK'
      <3>1. got' \in 0 .. MaxBytes
        BY <2>1, <2>2, <2>3 DEF Pending, TypeOK
      <3>2. QED
        BY <2>1, <3>1 DEF TypeOK, writerVars, guiVars
    <2>7. WriterInv'
      <3>1. ASSUME wpc = "copy" PROVE Pending - want + block < RingSize
        <4>1. Pending + block < RingSize
          BY <3>1 DEF WriterInv
        <4>2. block \in Nat
          BY DEF TypeOK
        <4>3. QED
          BY <2>2, <4>1, <4>2
      <3>2. QED
        BY <2>1, <2>5, <3>1 DEF WriterInv, writerVars
    <2>8. ReaderInv'
      <3>1. want' <= got'
        BY <2>1, <2>2
      <3>2. ASSUME txpc' = "send", NEW i \in 1 .. want'
            PROVE  buf'[i] = got' - want' + i
        <4>1. buf[i] = got + i
          BY <2>1, <2>3, <3>2
        <4>2. QED
          BY <2>1, <2>2, <4>1
      <3>3. QED
        BY <2>1, <3>1, <3>2 DEF ReaderInv
    <2>9. RingInv'
      <3>1. Pending' = Ahead(rpos', wpos)
        BY <2>1, <2>2, <2>3, <2>4, <2>5, AheadOfStep
      <3>2. Pending + InFlight < RingSize /\ InFlight \in Nat
        <4>1. CASE wpc = "copy"
          <5>1. /\ copied \in Nat /\ block \in Nat
                /\ copied <= block /\ Pending + block < RingSize
            BY <4>1 DEF WriterInv, TypeOK
          <5>2. QED
            BY <2>2, <4>1, <5>1 DEF InFlight
        <4>2. CASE wpc # "copy"
          BY <2>2, <4>2 DEF InFlight
        <4>3. QED
          BY <4>1, <4>2
      <3>3. ASSUME NEW j \in 0 .. RingSize - 1,
                   Ahead(r, j) < Pending - want + InFlight
            PROVE  ring[j] = got + want + 1 + Ahead(r, j)
        <4>1. Ahead(r, j) \in Nat
          <5>1. r \in 0 .. RingSize - 1
            BY DEF TypeOK
          <5>2. Ahead(r, j) \in 0 .. RingSize - 1
            BY <5>1, AheadInRing
          <5>3. QED
            BY <5>2
        <4>2. Ahead(r, j) + want < Pending + InFlight
          BY <2>2, <3>2, <3>3, <4>1
        <4>3. Ahead(r, j) + want < RingSize
          BY <2>2, <3>2, <4>1, <4>2
        <4>4. Ahead(rpos, j) = Ahead(r, j) + want
          BY <2>2, <2>3, <2>4, <4>3, AheadOfStep
        <4>5. ring[j] = got + 1 + Ahead(rpos, j)
          BY <4>2, <4>4 DEF RingInv
        <4>6. QED
          BY <2>2, <4>1, <4>4, <4>5
      <3>4. QED
        BY <2>1, <2>5, <3>1, <3>3 DEF RingInv, InFlight, writerVars
    <2>10. QED
      BY <2>6, <2>7, <2>8, <2>9
  <1>6. CASE Send
    <2> USE <1>6 DEF Send, ringVars, writerVars, guiVars
    <2>1. TypeOK'
      <3>1. buf' \in [1 .. ChunkBytes -> 0 .. MaxBytes]
        BY DEF Outgoing, Silence, TypeOK
      <3>2. QED
        BY <3>1 DEF TypeOK
    <2>2. WriterInv' /\ ReaderInv'
      BY DEF WriterInv, ReaderInv, Pending
    <2>3. RingInv'
      BY DEF RingInv, Pending, InFlight, Ahead
    <2>4. QED
      BY <2>1, <2>2, <2>3
  <1>7. QED
    BY <1>1, <1>2, <1>3, <1>4, <1>5, <1>6 DEF TxThread

LEMMA GuiKeepsInv ==
  ASSUME IInv, Gui
  PROVE  IInv'
  <1> USE RingAssumption DEF IInv
  <1>1. UNCHANGED <<ringVars, writerVars, hw, want, r, taken, buf>>
    BY DEF Gui, StartTx, StopTx, Close, Join, Release, Open, txVars
  <1>2. txpc' # txpc => txpc' \in {"spawned", "none"}
    BY DEF Gui, StartTx, StopTx, Close, Join, Release, Open, txVars
  <1>3. /\ running' \in BOOLEAN /\ device' \in BOOLEAN
        /\ guipc' \in {"idle", "stopJoin", "closeJoin", "release", "open"}
    BY DEF Gui, StartTx, StopTx, Close, Join, Release, Open, TypeOK
  <1> USE DEF ringVars, writerVars
  <1>4. TypeOK'
    BY <1>1, <1>2, <1>3 DEF TypeOK
  <1>5. WriterInv' /\ RingInv'
    BY <1>1 DEF WriterInv, RingInv, Pending, InFlight, Ahead
  <1>6. ReaderInv'
    BY <1>1, <1>2 DEF ReaderInv, Pending
  <1>7. QED
    BY <1>4, <1>5, <1>6

LEMMA Invariance == Spec => []IInv
  <1>1. ASSUME IInv, [Next]_vars
        PROVE  IInv'
    <2>1. CASE Writer
      BY <1>1, <2>1, WriterKeepsInv
    <2>2. CASE TxThread
      BY <1>1, <2>2, TxThreadKeepsInv
    <2>3. CASE Gui
      BY <1>1, <2>3, GuiKeepsInv
    <2>4. CASE UNCHANGED vars
      BY <1>1, <2>4 DEF IInv, TypeOK, WriterInv, ReaderInv, RingInv, Pending,
         InFlight, Ahead, vars, ringVars, writerVars, txVars, guiVars
    <2>5. QED
      BY <1>1, <2>1, <2>2, <2>3, <2>4 DEF Next
  <1>2. QED
    BY InitInv, <1>1, PTL DEF Spec

-----------------------------------------------------------------------------
(* The results.                                                             *)

\* Every variable keeps its type: no position leaves the ring, and no copy
\* leaves the block or the chunk.
THEOREM TypeCorrect == Spec => []TypeOK
  BY Invariance, PTL DEF IInv

\* The pending part of the ring is exactly the bytes published and not yet
\* consumed, in order, whatever the interleaving of producer and consumer.
THEOREM RingIsFifo == Spec => []UnreadIntact
  <1>1. IInv => UnreadIntact
    <2> SUFFICES ASSUME IInv PROVE UnreadIntact
      OBVIOUS
    <2> USE RingAssumption DEF IInv
    <2>1. RingAvailable = sent - got
      BY AvailableIsAhead DEF RingInv, Pending
    <2>2. ASSUME NEW k \in 1 .. sent - got
          PROVE  ring[(rpos + k - 1) % RingSize] = got + k
      <3>1. k - 1 \in 0 .. RingSize - 1 /\ k - 1 < Pending
        BY DEF RingInv, Pending, Ahead, TypeOK
      <3>2. rpos + k - 1 \in 0 .. 2 * RingSize - 1
        BY <3>1 DEF TypeOK
      <3> DEFINE a == rpos + k - 1
      <3> HIDE DEF a
      <3>3. a % RingSize = IF a < RingSize THEN a ELSE a - RingSize
        BY <3>2, WrapOnce DEF a
      <3>4. a % RingSize = Step(rpos, k - 1)
        BY <3>1, <3>3 DEF a, Step, TypeOK
      <3>5. /\ Step(rpos, k - 1) \in 0 .. RingSize - 1
            /\ Ahead(rpos, Step(rpos, k - 1)) = k - 1
        BY <3>1, AheadOfStep DEF TypeOK
      <3>6. ring[Step(rpos, k - 1)] = got + k
        <4>1. InFlight \in Nat /\ Pending \in Nat /\ got \in Nat
          BY PendingFits DEF InFlight, TypeOK
        <4>2. k - 1 < Pending + InFlight
          BY <3>1, <4>1
        <4>3. ring[Step(rpos, k - 1)] = got + 1 + (k - 1)
          BY <3>5, <4>2 DEF RingInv
        <4>4. QED
          BY <4>1, <4>3
      <3>7. QED
        BY <3>4, <3>6 DEF a
    <2>3. QED
      BY <2>1, <2>2 DEF UnreadIntact
  <1>2. QED
    BY Invariance, <1>1, PTL

\* What the device is handed is the next bytes of the stream and then silence.
THEOREM ChunksInOrder == Spec => []ChunkInOrder
  <1>1. IInv => ChunkInOrder
    BY RingAssumption DEF IInv, ChunkInOrder, ReaderInv, Outgoing, Silence, TypeOK
  <1>2. QED
    BY Invariance, <1>1, PTL

-----------------------------------------------------------------------------
(* The life cycle of the thread and the device.  The flag m_running and the *)
(* place of the GUI thread tell whether a transmit thread can exist.        *)

LifeInv ==
  /\ (guipc = "idle" /\ ~running) => txpc = "none"
  /\ guipc \in {"release", "open"} => txpc = "none"
  /\ guipc # "idle" => ~running

LEMMA LifeInvariance == Spec => []LifeInv
  <1>1. Init => LifeInv
    BY DEF Init, LifeInv
  <1>2. ASSUME LifeInv, TypeOK, [Next]_vars
        PROVE  LifeInv'
    <2> USE <1>2 DEF LifeInv, TypeOK
    <2>1. CASE Writer
      BY <2>1 DEF Writer, BeginWrite, FindRoom, CopyIn, PublishWrite, txVars, guiVars
    <2>2. CASE TxThread
      <3>1. txpc # "none" /\ txpc' # "none" /\ UNCHANGED guiVars
        BY <2>2 DEF TxThread, Enter, TestRunning, Measure, CopyOut, PublishRead, Send
      <3>2. QED
        BY <3>1 DEF guiVars
    <2>3. CASE Gui
      <3>1. CASE StartTx
        BY <3>1 DEF StartTx
      <3>2. CASE StopTx
        BY <3>2 DEF StopTx
      <3>3. CASE Close
        BY <3>3 DEF Close, txVars
      <3>4. CASE Join
        BY <3>4 DEF Join
      <3>5. CASE Release
        BY <3>5 DEF Release, txVars
      <3>6. CASE Open
        BY <3>6 DEF Open, txVars
      <3>7. QED
        BY <2>3, <3>1, <3>2, <3>3, <3>4, <3>5, <3>6 DEF Gui
    <2>4. CASE UNCHANGED vars
      BY <2>4 DEF vars, txVars, guiVars
    <2>5. QED
      BY <1>2, <2>1, <2>2, <2>3, <2>4 DEF Next
  <1>3. QED
    BY <1>1, <1>2, TypeCorrect, PTL DEF Spec

\* startTx() never overwrites a thread that has not been joined.
THEOREM ThreadNeverReplaced == Spec => []NoThreadReplaced
  <1>1. LifeInv => NoThreadReplaced
    BY DEF LifeInv, NoThreadReplaced
  <1>2. QED
    BY LifeInvariance, <1>1, PTL

\* The device changes only while there is no transmit thread to use it.
THEOREM DeviceIsHeld == Spec => DeviceHeld
  <1>1. ASSUME LifeInv, [Next]_vars
        PROVE  [device' # device => txpc = "none"]_vars
    <2>1. CASE Release \/ Open
      BY <1>1, <2>1 DEF Release, Open, LifeInv
    <2>2. CASE ~(Release \/ Open)
      BY <1>1, <2>2 DEF Next, Gui, StartTx, StopTx, Close, Join, Writer, BeginWrite,
         FindRoom, CopyIn, PublishWrite, TxThread, Enter, TestRunning, Measure,
         CopyOut, PublishRead, Send, guiVars, vars
    <2>3. QED
      BY <2>1, <2>2
  <1>2. QED
    BY LifeInvariance, <1>1, PTL DEF Spec, DeviceHeld

-----------------------------------------------------------------------------
(* The refinement.  What is pending is a window of the stream of positions: *)
(* the m positions after g.  Publishing a block makes the window longer,    *)
(* publishing a read moves its beginning, and nothing else touches it.      *)

Window(g, m) == [k \in 1 .. m |-> g + k]

PendingBytes == [k \in 1 .. RingAvailable |-> ring[(rpos + k - 1) % RingSize]]

LEMMA WindowIsSeq ==
  ASSUME NEW g \in Nat, NEW m \in Nat
  PROVE  Window(g, m) \in Seq(Nat) /\ Len(Window(g, m)) = m
  BY DEF Window

\* A block of n put behind a window.
LEMMA WindowGrows ==
  ASSUME NEW g \in Nat, NEW m \in Nat, NEW n \in Nat
  PROVE  Window(g, m) \o Window(g + m, n) = Window(g, m + n)
  <1> DEFINE a == Window(g, m)
             b == Window(g + m, n)
             c == Window(g, m + n)
  <1>1. /\ a \in Seq(Nat) /\ Len(a) = m
        /\ b \in Seq(Nat) /\ Len(b) = n
        /\ c \in Seq(Nat) /\ Len(c) = m + n
    <2>1. g + m \in Nat /\ m + n \in Nat
      OBVIOUS
    <2>2. a \in Seq(Nat) /\ Len(a) = m
      BY WindowIsSeq
    <2>3. b \in Seq(Nat) /\ Len(b) = n
      BY <2>1, WindowIsSeq
    <2>4. c \in Seq(Nat) /\ Len(c) = m + n
      BY <2>1, WindowIsSeq
    <2> QED BY <2>2, <2>3, <2>4
  <1>2. /\ \A k \in 1 .. m : a[k] = g + k
        /\ \A k \in 1 .. n : b[k] = g + m + k
        /\ \A k \in 1 .. m + n : c[k] = g + k
    BY DEF Window
  <1> HIDE DEF a, b, c
  <1>3. /\ a \o b \in Seq(Nat) /\ Len(a \o b) = m + n
        /\ \A k \in 1 .. m + n : (a \o b)[k] = IF k <= m THEN a[k] ELSE b[k - m]
    BY <1>1, ConcatProperties
  <1>4. ASSUME NEW k \in 1 .. m + n PROVE (a \o b)[k] = c[k]
    <2>1. CASE k <= m
      BY <1>2, <1>3, <2>1
    <2>2. CASE k > m
      <3>1. k - m \in 1 .. n /\ g + m + (k - m) = g + k
        BY <2>2
      <3>2. b[k - m] = g + m + (k - m)
        BY <1>2, <3>1
      <3> QED BY <1>2, <1>3, <2>2, <3>1, <3>2
    <2>3. k <= m \/ k > m
      OBVIOUS
    <2> QED BY <2>1, <2>2, <2>3
  <1>5. a \o b = c
    BY <1>1, <1>3, <1>4, SeqEqual
  <1> QED BY <1>5 DEF a, b, c

\* n samples taken off the front of a window.
LEMMA WindowShrinks ==
  ASSUME NEW g \in Nat, NEW m \in Nat, NEW n \in 0 .. m
  PROVE  SubSeq(Window(g, m), n + 1, m) = Window(g + n, m - n)
  <1> DEFINE a == Window(g, m)
             c == Window(g + n, m - n)
             d == SubSeq(a, n + 1, m)
  <1>1. c \in Seq(Nat) /\ Len(c) = m - n
    <2>1. m - n \in Nat /\ g + n \in Nat
      OBVIOUS
    <2> QED BY <2>1, WindowIsSeq
  <1>2. /\ \A k \in 1 .. m : a[k] = g + k
        /\ \A k \in 1 .. m - n : c[k] = g + n + k
    BY DEF Window
  <1> HIDE DEF a, c
  <1>3. /\ d \in Seq(Nat)
        /\ Len(d) = IF n + 1 <= m THEN m - (n + 1) + 1 ELSE 0
        /\ \A k \in 1 .. m - (n + 1) + 1 : d[k] = a[n + 1 + k - 1]
    <2>1. \A k \in n + 1 .. m : a[k] \in Nat
      BY <1>2
    <2> QED BY <2>1, SubSeqProperties
  <1> HIDE DEF d
  <1>4. Len(d) = m - n
    BY <1>3
  <1>5. ASSUME NEW k \in 1 .. m - n PROVE d[k] = c[k]
    <2>1. /\ k \in 1 .. m - (n + 1) + 1 /\ n + 1 + k - 1 \in 1 .. m
          /\ g + (n + 1 + k - 1) = g + n + k
      OBVIOUS
    <2> QED BY <1>2, <1>3, <2>1
  <1>6. d = c
    BY <1>1, <1>3, <1>4, <1>5, SeqEqual
  <1> QED BY <1>6 DEF a, c, d

\* A thread that copies has something to copy.
ReadsSome == txpc = "read" => want > 0

LEMMA ReadsSomething == Spec => []ReadsSome
  <1>1. Init => ReadsSome
    BY DEF Init, ReadsSome
  <1>2. ASSUME ReadsSome, [Next]_vars PROVE ReadsSome'
    <2>1. CASE Measure
      <3>1. txpc' = "read" => Portion > 0 /\ want' = Portion
        BY <2>1 DEF Measure
      <3> QED BY <3>1 DEF ReadsSome
    <2>2. CASE Enter \/ TestRunning \/ CopyOut \/ PublishRead \/ Send
      BY <1>2, <2>2 DEF ReadsSome, Enter, TestRunning, CopyOut, PublishRead, Send
    <2>3. CASE Writer \/ UNCHANGED vars
      BY <1>2, <2>3 DEF ReadsSome, Writer, BeginWrite, FindRoom, CopyIn, PublishWrite,
         vars, txVars
    <2>4. CASE Gui
      BY <1>2, <2>4 DEF ReadsSome, Gui, StartTx, StopTx, Close, Join, Release, Open, txVars
    <2> QED BY <1>2, <2>1, <2>2, <2>3, <2>4 DEF Next, TxThread
  <1> QED BY <1>1, <1>2, PTL DEF Spec

StreamInv ==
  /\ IInv
  /\ ReadsSome
  /\ PendingBytes = Window(got, sent - got)

LEMMA StreamInvariance == Spec => []StreamInv
  <1>1. UnreadIntact => PendingBytes = Window(got, sent - got)
    BY DEF UnreadIntact, PendingBytes, Window
  <1> QED BY <1>1, Invariance, RingIsFifo, ReadsSomething, PTL DEF StreamInv

\* The ring implements the abstract stream of samples, for rings, chunks and
\* blocks of every size: bytes come out in the order in which they went in, and
\* no interleaving of the copying lets the other thread see half a block.
THEOREM RingImplementsStream == Spec => ImplementsStream
  <1> USE DEF PendingBytes
  <1>1. Init => Stream!Init
    <2> SUFFICES ASSUME Init PROVE Stream!Init
      OBVIOUS
    <2>1. RingAvailable = 0
      BY RingAssumption DEF Init, RingAvailable
    <2>2. PendingBytes = << >> /\ sent = 0
      BY <2>1 DEF Init
    <2> QED BY <2>2 DEF Stream!Init
  <1>2. ASSUME StreamInv, StreamInv', [Next]_vars
        PROVE  [Stream!Next]_(Stream!vars)
    <2> HIDE DEF PendingBytes
    <2>1. sent \in Nat /\ got \in Nat /\ want \in Nat /\ block \in Nat /\ sent - got \in Nat
      <3>1. sent \in Nat /\ got \in Nat /\ want \in Nat /\ block \in Nat
        <4>1. TypeOK
          BY <1>2 DEF StreamInv, IInv
        <4>2. block \in Nat
          BY <4>1, RingAssumption DEF TypeOK
        <4> QED BY <4>1, <4>2 DEF TypeOK
      <3>2. Pending \in 0 .. RingSize - 1
        BY <1>2, PendingFits DEF StreamInv, IInv
      <3> QED BY <3>1, <3>2 DEF Pending
    <2>2. /\ PendingBytes = Window(got, sent - got)
          /\ PendingBytes' = Window(got', sent' - got')
          /\ Len(PendingBytes) = sent - got
      BY <1>2, <2>1, WindowIsSeq DEF StreamInv, Window
    <2>3. CASE PublishWrite
      <3>1. sent' = sent + block /\ got' = got /\ block \in BlockSizes
        BY <1>2, <2>3 DEF PublishWrite, StreamInv, IInv, WriterInv
      <3>2. Len(PendingBytes) + block < RingSize /\ sent + block <= MaxBytes
        BY <1>2, <2>2, <2>3 DEF PublishWrite, StreamInv, IInv, WriterInv, Pending
      <3>3. PendingBytes' = PendingBytes \o [k \in 1 .. block |-> sent + k]
        <4>1. Window(got, sent - got) \o Window(got + (sent - got), block)
                = Window(got, sent - got + block)
          BY <2>1, WindowGrows
        <4>2. got + (sent - got) = sent /\ sent' - got' = sent - got + block
          BY <2>1, <3>1
        <4> QED BY <2>2, <3>1, <4>1, <4>2 DEF Window
      <3>4. \E n \in BlockSizes : Stream!Put(n)
        BY <3>1, <3>2, <3>3 DEF Stream!Put, PendingBytes
      <3> QED BY <3>4 DEF Stream!Next
    <2>4. CASE PublishRead
      <3>1. got' = got + want /\ sent' = sent
        BY <2>4 DEF PublishRead
      <3>2. want \in 1 .. ChunkBytes /\ want <= sent - got
        BY <1>2, <2>4 DEF PublishRead, StreamInv, IInv, TypeOK, ReaderInv, ReadsSome, Pending
      <3>3. PendingBytes' = SubSeq(PendingBytes, want + 1, Len(PendingBytes))
        <4>1. SubSeq(Window(got, sent - got), want + 1, sent - got)
                = Window(got + want, sent - got - want)
          <5>1. want \in 0 .. sent - got
            BY <2>1, <3>2
          <5> QED BY <2>1, <5>1, WindowShrinks
        <4>2. sent' - got' = sent - got - want
          BY <2>1, <3>1
        <4> QED BY <2>2, <3>1, <4>1, <4>2
      <3>4. \E n \in 1 .. ChunkBytes : Stream!Take(n)
        BY <2>2, <3>1, <3>2, <3>3 DEF Stream!Take, PendingBytes
      <3> QED BY <3>4 DEF Stream!Next
    <2>5. CASE UNCHANGED <<sent, got>>
      <3>1. PendingBytes' = PendingBytes /\ sent' = sent
        BY <2>2, <2>5
      <3> QED BY <3>1 DEF Stream!vars, PendingBytes
    <2>6. UNCHANGED <<sent, got>> \/ PublishWrite \/ PublishRead
      BY <1>2 DEF Next, Writer, BeginWrite, FindRoom, CopyIn, TxThread, Enter, TestRunning,
         Measure, CopyOut, Send, Gui, StartTx, StopTx, Close, Join, Release, Open,
         ringVars, vars
    <2> QED BY <2>3, <2>4, <2>5, <2>6
  <1> QED BY <1>1, <1>2, StreamInvariance, PTL DEF Spec, ImplementsStream, Stream!Spec
=============================================================================
