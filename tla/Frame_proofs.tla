---------------------------- MODULE Frame_proofs ----------------------------
(***************************************************************************)
(* What the codes of a frame are worth, for blocks of every length: an     *)
(* undamaged block is never refused, a burst of up to 16 wrong bits always *)
(* is, and after a fade of up to 24 dibits one message alone fits what was *)
(* received. And for every site: its NIDs can be read and told apart from  *)
(* all others, and the decoder counts symbols right.                       *)
(*                                                                         *)
(* The sender's register holds the receiver's in its low 16 bits. What a   *)
(* burst leaves in both is a remainder that 16 linear steps without loss   *)
(* carry on, and nothing but nothing becomes nothing.                      *)
(*   A bit of a codeword is the parity of the data in its column of the    *)
(* matrix. Parities add up, so two codewords differ by the codeword of     *)
(* what their data differ in.                                              *)
(*   A pair that arrived whole names the two states it leads between; the  *)
(* interleaver puts neighbouring pairs 12 places apart or more, so a fade  *)
(* hits two neighbours in one way only, by a half of each.  Of the first   *)
(* the first dibit is left, which tells odd from even, of the other the    *)
(* second, which tells the rest.                                           *)
(*   Sender and decoder count the same 180 symbols; a damaged flag makes   *)
(* the decoder read on for at most two blocks, and Pos says into what.     *)
(***************************************************************************)
EXTENDS Frame, Tsbk_proofs

USE DEF crcVars, nidVars, codeVars, buildVars, sendVars, readVars

-----------------------------------------------------------------------------
(* The checksum.                                                           *)

CrcInv ==
  stage = "crc" =>
    /\ n \in 0 .. Total
    /\ tx \subseteq Word(32) /\ rx \subseteq Word(16)
    /\ first = Total => Low(tx, 16) = rx /\ ~refused

\* One step of the two registers with the same bit.
LEMMA CrcLockStep ==
  ASSUME NEW t, NEW r, NEW bit \in BOOLEAN,
         t \subseteq Word(32), r \subseteq Word(16), Low(t, 16) = r
  PROVE  /\ CrcStep(t, bit) \subseteq Word(32)
         /\ CheckStep(r, bit) \subseteq Word(16)
         /\ Low(CrcStep(t, bit), 16) = CheckStep(r, bit)
<1> DEFINE st == {j \in Word(32) : j - 1 \in t}
           sr == {j \in Word(16) : j - 1 \in r}
<1>1. st \subseteq Word(32) /\ sr \subseteq Word(16) /\ Low(st, 16) = sr
  BY DEF Word, Low
<1>2. (16 \in st) = (15 \in r)
  BY DEF Word, Low
<1> HIDE DEF st, sr
<1>3. /\ SymDiff(st, Poly) \subseteq Word(32) /\ SymDiff(sr, Poly) \subseteq Word(16)
      /\ Low(SymDiff(st, Poly), 16) = SymDiff(sr, Poly)
  BY <1>1 DEF SymDiff, Poly, Word, Low
<1>4. /\ CrcStep(t, bit) = IF (16 \in st) # bit THEN SymDiff(st, Poly) ELSE st
      /\ CheckStep(r, bit) = IF (15 \in r) # bit THEN SymDiff(sr, Poly) ELSE sr
  BY Zenon DEF CrcStep, CheckStep, st, sr
<1> QED BY <1>1, <1>2, <1>3, <1>4

\* A clean bit leaves the registers in step; a wrong one is remembered.
LEMMA CrcStep1 ==
  ASSUME CrcInv, BlockBit
  PROVE  CrcInv'
<1>1. /\ stage = "crc" /\ n \in Nat /\ n < BlockBits /\ BlockBits \in Nat
      /\ stage' = "crc" /\ n' = n + 1 /\ refused' = refused
      /\ tx \subseteq Word(32) /\ rx \subseteq Word(16)
      /\ first = Total => Low(tx, 16) = rx /\ ~refused
  BY CodingAssumption DEF BlockBit, CrcInv, Total
<1>2. PICK bit \in BOOLEAN, flip \in {FALSE, MayFlip} :
        /\ tx' = CrcStep(tx, bit) /\ rx' = CheckStep(rx, bit # flip)
        /\ first' = Flipped(flip)
  BY DEF BlockBit
<1>3. tx' \subseteq Word(32) /\ rx' \subseteq Word(16)
  BY <1>2 DEF CrcStep, CheckStep, SymDiff, Poly, Word
<1>4. ASSUME first' = Total PROVE first = Total /\ ~flip
  BY <1>1, <1>2, <1>4 DEF Flipped, Total
<1>5. ASSUME first' = Total PROVE Low(tx', 16) = rx'
  <2>1. flip = FALSE
    BY <1>4, <1>5 DEF MayFlip
  <2>2. (bit # FALSE) = bit
    BY Zenon
  <2>3. CheckStep(rx, bit # flip) = CheckStep(rx, bit)
    BY <2>1, <2>2, Zenon
  <2> QED BY <1>1, <1>2, <1>4, <1>5, <2>3, CrcLockStep
<1> QED BY <1>1, <1>3, <1>4, <1>5 DEF CrcInv, Total

\* The two checksums agree bit by bit.
LEMMA CrcStep2 ==
  ASSUME CrcInv, CrcBit
  PROVE  CrcInv'
<1>1. /\ stage = "crc" /\ n \in BlockBits .. Total - 1 /\ BlockBits \in Nat
      /\ stage' = "crc" /\ n' = n + 1 /\ tx' = tx /\ rx' = rx
      /\ tx \subseteq Word(32) /\ rx \subseteq Word(16)
      /\ first = Total => Low(tx, 16) = rx /\ ~refused
  BY CodingAssumption DEF CrcBit, CrcInv, Total
<1> DEFINE j == 15 - (n - BlockBits)
<1>2. PICK flip \in {FALSE, MayFlip} :
        /\ refused' = (refused \/ ((j \notin Low(tx, 16)) # flip) # (j \notin rx))
        /\ first' = Flipped(flip)
  BY DEF CrcBit
<1> HIDE DEF j
<1>3. ASSUME first' = Total PROVE first = Total /\ ~flip
  BY <1>1, <1>2, <1>3 DEF Flipped, Total
<1>4. ASSUME first' = Total PROVE ~refused'
  <2>1. Low(tx, 16) = rx /\ ~refused /\ flip = FALSE
    BY <1>1, <1>3, <1>4 DEF MayFlip
  <2>2. ((j \notin rx) # FALSE) = (j \notin rx)
    OBVIOUS
  <2> QED BY <1>2, <2>1, <2>2
<1> QED BY <1>1, <1>3, <1>4 DEF CrcInv, Total

-----------------------------------------------------------------------------
(* Why the checksum sees every burst of up to 16 bits.  Step() is the       *)
(* receiver's register when a zero comes in: it is linear and loses        *)
(* nothing, because the polynomial has a constant term.  The wrong bits of *)
(* the block and of its checksum, run through such a register from below,  *)
(* are a remainder; what they do to the two registers is the remainder 16  *)
(* steps later.                                                            *)

Step(a)   == {j \in Word(16) : (j - 1 \in a) # (15 \in a /\ j \in Poly)}
Step4(a)  == Step(Step(Step(Step(a))))
Step16(a) == Step4(Step4(Step4(Step4(a))))

Unit(flip) == IF flip THEN {0} ELSE {}

LEMMA StepLinear ==
  ASSUME NEW a, NEW b
  PROVE  Step(SymDiff(a, b)) = SymDiff(Step(a), Step(b))
BY DEF Step, SymDiff

LEMMA Step16Linear ==
  ASSUME NEW a, NEW b
  PROVE  Step16(SymDiff(a, b)) = SymDiff(Step16(a), Step16(b))
<1>1. ASSUME NEW c, NEW d PROVE Step4(SymDiff(c, d)) = SymDiff(Step4(c), Step4(d))
  <2>1. /\ Step(SymDiff(c, d)) = SymDiff(Step(c), Step(d))
        /\ Step(Step(SymDiff(c, d))) = SymDiff(Step(Step(c)), Step(Step(d)))
    BY StepLinear
  <2> QED BY <2>1, StepLinear DEF Step4
<1>2. /\ Step4(SymDiff(a, b)) = SymDiff(Step4(a), Step4(b))
      /\ Step4(Step4(SymDiff(a, b))) = SymDiff(Step4(Step4(a)), Step4(Step4(b)))
  BY <1>1
<1> QED BY <1>1, <1>2 DEF Step16

\* The register never leaves its 16 bits.
LEMMA StepFits ==
  ASSUME NEW a
  PROVE  Step(a) \subseteq Word(16) /\ Step16(a) \subseteq Word(16)
<1>1. \A b : Step(b) \subseteq Word(16)
  BY DEF Step
<1>2. \A b : Step4(b) \subseteq Word(16)
  BY <1>1 DEF Step4
<1> QED BY <1>1, <1>2 DEF Step16

LEMMA StepCommutes ==
  ASSUME NEW a
  PROVE  Step16(Step(a)) = Step(Step16(a))
BY Zenon DEF Step16, Step4

LEMMA StepLoses ==
  ASSUME NEW a, a \subseteq Word(16), a # {}
  PROVE  Step(a) # {}
<1>1. CASE 15 \in a
  <2>1. 0 \in Step(a)
    BY <1>1 DEF Step, Poly, Word
  <2> QED BY <2>1
<1>2. CASE 15 \notin a
  <2>1. PICK k \in a : TRUE
    OBVIOUS
  <2>2. k + 1 \in Step(a)
    BY <1>2, <2>1 DEF Step, Word
  <2> QED BY <2>2
<1> QED BY <1>1, <1>2

LEMMA Step16Loses ==
  ASSUME NEW a, a \subseteq Word(16), a # {}
  PROVE  Step16(a) # {}
<1>1. ASSUME NEW c, c \subseteq Word(16), c # {}
      PROVE  Step4(c) \subseteq Word(16) /\ Step4(c) # {}
  BY <1>1, StepLoses, StepFits DEF Step4
<1> QED BY <1>1 DEF Step16

\* A single bit is the polynomial 16 steps later.
LEMMA Step16Unit == Step16({0}) = Poly
<1>1. ASSUME NEW k \in Word(15) PROVE Step({k}) = {k + 1}
  BY DEF Step, Word
<1>2. Step4({0}) = {4} /\ Step4({4}) = {8} /\ Step4({8}) = {12}
  <2>1. Step({0}) = {1} /\ Step({1}) = {2} /\ Step({2}) = {3} /\ Step({3}) = {4}
    BY <1>1 DEF Word
  <2>2. Step({4}) = {5} /\ Step({5}) = {6} /\ Step({6}) = {7} /\ Step({7}) = {8}
    BY <1>1 DEF Word
  <2>3. Step({8}) = {9} /\ Step({9}) = {10} /\ Step({10}) = {11} /\ Step({11}) = {12}
    BY <1>1 DEF Word
  <2> QED BY <2>1, <2>2, <2>3 DEF Step4
<1>3. Step4({12}) = Poly
  <2>1. Step({12}) = {13} /\ Step({13}) = {14} /\ Step({14}) = {15}
    BY <1>1 DEF Word
  <2>2. Step({15}) = Poly
    BY DEF Step, Word, Poly
  <2> QED BY <2>1, <2>2, Zenon DEF Step4
<1> QED BY <1>2, <1>3, Zenon DEF Step16

LEMMA Xor ==
  ASSUME NEW u \in BOOLEAN, NEW v \in BOOLEAN, NEW bit \in BOOLEAN, NEW flip \in BOOLEAN
  PROVE  ((u # bit) # (v # (bit # flip))) = ((u # v) # flip)
BY SMT

LEMMA XorBoth ==
  ASSUME NEW u \in BOOLEAN, NEW v \in BOOLEAN, NEW p \in BOOLEAN, NEW q \in BOOLEAN,
         NEW y \in BOOLEAN
  PROVE  ((u # (p /\ y)) # (v # (q /\ y))) = ((u # v) # ((p # q) /\ y))
BY SMT

\* What one bit does to the difference of the registers.
LEMMA Difference ==
  ASSUME NEW t, NEW r, NEW bit \in BOOLEAN, NEW flip \in BOOLEAN,
         t \subseteq Word(32), r \subseteq Word(16)
  PROVE  SymDiff(Low(CrcStep(t, bit), 16), CheckStep(r, bit # flip))
           = SymDiff(Step(SymDiff(Low(t, 16), r)), IF flip THEN Poly ELSE {})
<1> DEFINE st == {j \in Word(32) : j - 1 \in t}
           sr == {j \in Word(16) : j - 1 \in r}
           d  == SymDiff(Low(t, 16), r)
           p  == (16 \in st) # bit
           q  == (15 \in r) # (bit # flip)
<1>1. (16 \in st) = (15 \in t)
  BY DEF Word
<1>2. (15 \in d) = ((15 \in t) # (15 \in r))
  BY DEF Word, Low, SymDiff
<1>3. (p # q) = ((15 \in d) # flip)
  BY <1>1, <1>2, Xor
<1>4. /\ CrcStep(t, bit) = IF p THEN SymDiff(st, Poly) ELSE st
      /\ CheckStep(r, bit # flip) = IF q THEN SymDiff(sr, Poly) ELSE sr
  BY Zenon DEF CrcStep, CheckStep, st, sr
<1>5. /\ st \subseteq Word(32) /\ sr \subseteq Word(16)
      /\ \A j \in Word(16) : /\ (j \in st) = (j - 1 \in t) /\ (j \in sr) = (j - 1 \in r)
                             /\ (j - 1 \in d) = ((j - 1 \in t) # (j - 1 \in r))
  BY DEF Word, Low, SymDiff
<1>6. \A j \in Word(16) : (j \in Step(d)) = ((j - 1 \in d) # (15 \in d /\ j \in Poly))
  BY DEF Step
<1> HIDE DEF st, sr, d, p, q
<1>7. \A j \in Word(16) :
        (j \in SymDiff(Low(CrcStep(t, bit), 16), CheckStep(r, bit # flip)))
          = (((j \in st) # (j \in sr)) # ((p # q) /\ j \in Poly))
  <2>1. TAKE j \in Word(16)
  <2>2. /\ p \in BOOLEAN /\ q \in BOOLEAN /\ (j \in Poly) \in BOOLEAN
        /\ (j \in st) \in BOOLEAN /\ (j \in sr) \in BOOLEAN
    BY DEF p, q
  <2>3. (j \in CrcStep(t, bit)) = ((j \in st) # (p /\ j \in Poly))
    BY <1>4 DEF SymDiff
  <2>4. (j \in CheckStep(r, bit # flip)) = ((j \in sr) # (q /\ j \in Poly))
    BY <1>4 DEF SymDiff
  <2>5. (j \in SymDiff(Low(CrcStep(t, bit), 16), CheckStep(r, bit # flip)))
          = ((j \in CrcStep(t, bit)) # (j \in CheckStep(r, bit # flip)))
    BY <2>1 DEF SymDiff, Low
  <2> QED BY <2>2, <2>3, <2>4, <2>5, XorBoth
<1>8. \A j \in Word(16) :
        (j \in SymDiff(Step(d), IF flip THEN Poly ELSE {}))
          = (((j - 1 \in d) # (15 \in d /\ j \in Poly)) # (flip /\ j \in Poly))
  <2>1. CASE flip = TRUE
    BY <1>6, <2>1 DEF SymDiff
  <2>2. CASE flip = FALSE
    BY <1>6, <2>2 DEF SymDiff
  <2> QED BY <2>1, <2>2
<1>9. /\ SymDiff(Low(CrcStep(t, bit), 16), CheckStep(r, bit # flip)) \subseteq Word(16)
      /\ SymDiff(Step(d), IF flip THEN Poly ELSE {}) \subseteq Word(16)
  <2>1. Poly \subseteq Word(16)
    BY DEF Poly, Word
  <2>2. CheckStep(r, bit # flip) \subseteq Word(16)
    BY <1>4, <1>5, <2>1 DEF SymDiff
  <2> QED BY <2>1, <2>2, StepFits DEF Low, SymDiff
<1> QED BY <1>3, <1>5, <1>7, <1>8, <1>9 DEF d

\* The remainder of the wrong bits so far: none while all bits are right, and
\* as long as the burst may last it has not come round.
Remainder(a) ==
  /\ first = Total => a = {}
  /\ first # Total => first < n /\ a # {} /\ (n - first <= 16 => a \subseteq Word(n - first))

Up(d, m) == {j \in Word(16) : j - m \in d}

\* The difference of the registers; of the checksum, the part still to come.
Explains(a) ==
  LET d == SymDiff(Low(tx, 16), rx)
  IN  /\ n <= BlockBits => d = Step16(a)
      /\ n >= BlockBits => refused \/ Up(d, n - BlockBits) = Step16(a)

BurstInv ==
  stage = "crc" =>
    /\ n \in 0 .. Total /\ tx \subseteq Word(32) /\ rx \subseteq Word(16)
    /\ first \in 0 .. Total /\ refused \in BOOLEAN
    /\ \E a \in SUBSET Word(16) : Remainder(a) /\ Explains(a)

\* One bit more, right or wrong.
LEMMA RemainderStep ==
  ASSUME ErrorBurst <= 16, n \in 0 .. Total - 1, n' = n + 1, first \in 0 .. Total,
         NEW flip \in {FALSE, MayFlip}, first' = Flipped(flip),
         NEW a, a \subseteq Word(16), Remainder(a)
  PROVE  LET b == SymDiff(Step(a), Unit(flip))
         IN  /\ b \subseteq Word(16) /\ Remainder(b)' /\ first' \in 0 .. Total
             /\ Step16(b) = SymDiff(Step(Step16(a)), IF flip THEN Poly ELSE {})
<1> DEFINE b == SymDiff(Step(a), Unit(flip))
<1> USE CodingAssumption
<1>1. flip \in BOOLEAN
  BY DEF MayFlip
<1>2. b \subseteq Word(16)
  BY StepFits DEF SymDiff, Unit, Word
<1>3. Step16(b) = SymDiff(Step(Step16(a)), IF flip THEN Poly ELSE {})
  <2>1. Step16({}) = {}
    <3>1. Step({}) = {}
      BY DEF Step
    <3> QED BY <3>1, Zenon DEF Step16, Step4
  <2>2. Step16(Unit(flip)) = IF flip THEN Poly ELSE {}
    BY <2>1, Step16Unit DEF Unit
  <2>3. Step16(b) = SymDiff(Step16(Step(a)), Step16(Unit(flip)))
    BY Step16Linear
  <2> QED BY <2>2, <2>3, StepCommutes
<1>4. CASE flip = FALSE
  <2>1. b = Step(a) /\ first' = first
    BY <1>4 DEF SymDiff, Unit, Flipped
  <2>2. ASSUME first = Total PROVE b = {}
    BY <2>1, <2>2 DEF Remainder, Step
  <2>3. ASSUME first # Total PROVE b # {}
    BY <2>1, <2>3, StepLoses DEF Remainder
  <2>4. ASSUME first # Total, n + 1 - first <= 16 PROVE b \subseteq Word(n + 1 - first)
    <3>1. a \subseteq Word(n - first) /\ n - first \in 0 .. 15
      BY <2>4 DEF Remainder, Total
    <3> QED BY <2>1, <3>1 DEF Step, Word
  <2> QED BY <1>2, <1>3, <2>1, <2>2, <2>3, <2>4 DEF Remainder, Total
<1>5. CASE flip = TRUE /\ first = Total
  <2>1. Step(a) = {}
    BY <1>5 DEF Remainder, Step
  <2>2. b = {0} /\ first' = n
    BY <1>5, <2>1 DEF SymDiff, Unit, Flipped
  <2>3. b # {} /\ b \subseteq Word(1) /\ n' - n = 1
    BY <2>2 DEF Word, Total
  <2> QED BY <1>2, <1>3, <2>2, <2>3 DEF Remainder, Total
<1>6. CASE flip = TRUE /\ first # Total
  <2>1. first' = first /\ n - first < ErrorBurst /\ first < n
    BY <1>6 DEF Flipped, MayFlip, Remainder
  <2>2. a \subseteq Word(n - first) /\ n - first \in 0 .. 15
    BY <1>6, <2>1 DEF Remainder, Total
  <2>3. Step(a) \subseteq Word(n + 1 - first) /\ 0 \notin Step(a)
    BY <2>2 DEF Step, Word
  <2>4. 0 \in b /\ b \subseteq Word(n + 1 - first)
    BY <1>6, <2>1, <2>2, <2>3 DEF SymDiff, Unit, Word
  <2>5. b # {}
    BY <2>4
  <2>6. first' # Total' /\ first' < n' /\ n' - first' = n + 1 - first
    BY <1>6, <2>1 DEF Total
  <2>7. Remainder(b)'
    <3> HIDE DEF b
    <3> QED BY <2>4, <2>5, <2>6 DEF Remainder
  <2> QED BY <1>2, <1>3, <2>1, <2>7
<1> QED BY <1>1, <1>4, <1>5, <1>6

\* Clean registers need no explanation.
LEMMA BurstStart ==
  ASSUME n = 0, tx = {}, rx = {}, first = Total, refused = FALSE
  PROVE  /\ n \in 0 .. Total /\ tx \subseteq Word(32) /\ rx \subseteq Word(16)
         /\ first \in 0 .. Total /\ refused \in BOOLEAN
         /\ \E a \in SUBSET Word(16) : Remainder(a) /\ Explains(a)
<1>1. Step16({}) = {}
  <2>1. Step({}) = {}
    BY DEF Step
  <2> QED BY <2>1, Zenon DEF Step16, Step4
<1>2. SymDiff(Low(tx, 16), rx) = {} /\ \A m : Up({}, m) = {}
  BY DEF Up, SymDiff, Low
<1>3. Remainder({}) /\ Explains({})
  BY <1>1, <1>2 DEF Remainder, Explains
<1>4. Total \in Nat
  BY CodingAssumption DEF Total
<1>5. {} \in SUBSET Word(16) /\ {} \subseteq Word(32)
  OBVIOUS
<1>6. \E a \in SUBSET Word(16) : Remainder(a) /\ Explains(a)
  BY <1>3, <1>5
<1>7. n \in 0 .. Total /\ first \in 0 .. Total
  BY <1>4
<1>8. refused \in BOOLEAN
  OBVIOUS
<1> QED BY <1>5, <1>6, <1>7, <1>8

\* A bit of the block.
LEMMA BurstStep1 ==
  ASSUME ErrorBurst <= 16, BurstInv, BlockBit
  PROVE  BurstInv'
<1>1. /\ stage = "crc" /\ n \in 0 .. Total - 1 /\ n < BlockBits
      /\ stage' = "crc" /\ n' = n + 1 /\ refused' = refused
      /\ tx \subseteq Word(32) /\ rx \subseteq Word(16)
      /\ first \in 0 .. Total /\ refused \in BOOLEAN
  BY CodingAssumption DEF BlockBit, BurstInv, Total
<1>2. PICK bit \in BOOLEAN, flip \in {FALSE, MayFlip} :
        /\ tx' = CrcStep(tx, bit) /\ rx' = CheckStep(rx, bit # flip)
        /\ first' = Flipped(flip)
  BY DEF BlockBit
<1>3. PICK a \in SUBSET Word(16) : Remainder(a) /\ Explains(a)
  BY <1>1 DEF BurstInv
<1> DEFINE b == SymDiff(Step(a), Unit(flip))
           d == SymDiff(Low(tx, 16), rx)
           e == SymDiff(Low(CrcStep(tx, bit), 16), CheckStep(rx, bit # flip))
<1>4. flip \in BOOLEAN /\ d = Step16(a)
  <2>1. flip \in BOOLEAN
    BY DEF MayFlip
  <2>2. n <= BlockBits
    BY <1>1, CodingAssumption DEF Total
  <2> QED BY <1>3, <2>1, <2>2 DEF Explains
<1>5. /\ b \subseteq Word(16) /\ Remainder(b)' /\ first' \in 0 .. Total
      /\ Step16(b) = SymDiff(Step(Step16(a)), IF flip THEN Poly ELSE {})
  BY <1>1, <1>2, <1>3, RemainderStep
<1>6. e = SymDiff(Step(d), IF flip THEN Poly ELSE {})
  BY <1>1, <1>2, <1>4, Difference
<1>7. tx' \subseteq Word(32) /\ rx' \subseteq Word(16)
  BY <1>2 DEF CrcStep, CheckStep, SymDiff, Poly, Word
<1>8. e = Step16(b) /\ e \subseteq Word(16)
  BY <1>4, <1>5, <1>6, StepFits
<1>9. SymDiff(Low(tx', 16), rx') = e
  BY <1>2
<1> HIDE DEF b, d, e
<1>10. Up(e, 0) = e
  BY <1>8 DEF Up, Word
<1>11. Explains(b)'
  BY <1>1, <1>8, <1>9, <1>10, CodingAssumption DEF Explains, Total
<1> QED BY <1>1, <1>5, <1>7, <1>11, CodingAssumption DEF BurstInv, Total

\* A bit of the checksum: until it is refused, the next bit is wrong if, and
\* only if, the difference is one there.
LEMMA BurstStep2 ==
  ASSUME ErrorBurst <= 16, BurstInv, CrcBit
  PROVE  BurstInv'
<1>1. /\ stage = "crc" /\ n \in 0 .. Total - 1 /\ n >= BlockBits /\ BlockBits \in Nat
      /\ stage' = "crc" /\ n' = n + 1 /\ tx' = tx /\ rx' = rx
      /\ tx \subseteq Word(32) /\ rx \subseteq Word(16)
      /\ first \in 0 .. Total /\ refused \in BOOLEAN
  BY CodingAssumption DEF CrcBit, BurstInv, Total
<1> DEFINE m == n - BlockBits
           j == 15 - m
           d == SymDiff(Low(tx, 16), rx)
<1>2. PICK flip \in {FALSE, MayFlip} :
        /\ refused' = (refused \/ ((j \notin Low(tx, 16)) # flip) # (j \notin rx))
        /\ first' = Flipped(flip)
  BY DEF CrcBit
<1>3. PICK a \in SUBSET Word(16) : Remainder(a) /\ Explains(a)
  BY <1>1 DEF BurstInv
<1> DEFINE b == SymDiff(Step(a), Unit(flip))
<1>4. flip \in BOOLEAN /\ m \in Word(16)
  <2>1. flip \in BOOLEAN
    BY DEF MayFlip
  <2>2. m \in Word(16)
    BY <1>1 DEF Total, Word
  <2> QED BY <2>1, <2>2
<1>5. /\ b \subseteq Word(16) /\ Remainder(b)' /\ first' \in 0 .. Total
      /\ Step16(b) = SymDiff(Step(Step16(a)), IF flip THEN Poly ELSE {})
  BY <1>1, <1>2, <1>3, RemainderStep
<1>6. ASSUME ~refused' PROVE Up(d, m + 1) = Step16(b)
  <2>1. ~refused /\ (((j \notin Low(tx, 16)) # flip) = (j \notin rx))
    BY <1>2, <1>6
  <2>2. Up(d, m) = Step16(a)
    BY <1>1, <1>3, <2>1 DEF Explains
  <2>3. (j \in d) = flip
    <3>1. (j \in d) = ((j \in Low(tx, 16)) # (j \in rx))
      BY DEF SymDiff
    <3> QED BY <1>4, <2>1, <3>1
  <2>4. (15 \in Up(d, m)) = (j \in d)
    BY DEF Up, Word
  <2>5. Up(d, m + 1) = SymDiff(Step(Up(d, m)), IF flip THEN Poly ELSE {})
    <3>0. d \subseteq Word(16)
      BY <1>1 DEF SymDiff, Low
    <3> HIDE DEF d, j
    <3>1. \A k \in Word(16) : (k - 1 \in Up(d, m)) = (k \in Up(d, m + 1))
      <4>1. TAKE k \in Word(16)
      <4>2. m \in Nat /\ k \in Nat /\ (k - 1) - m = k - (m + 1)
        BY <1>4, <4>1 DEF Word
      <4>3. ASSUME k - (m + 1) \in d PROVE k - 1 \in Word(16)
        BY <3>0, <4>1, <4>2, <4>3 DEF Word
      <4> HIDE DEF m
      <4> QED BY <4>1, <4>2, <4>3 DEF Up
    <3>2. Up(d, m + 1) \subseteq Word(16) /\ Poly \subseteq Word(16)
      BY DEF Up, Poly, Word
    <3>3. CASE flip = TRUE
      <4>1. 15 \in Up(d, m)
        BY <2>3, <2>4, <3>3
      <4>2. Step(Up(d, m)) = {k \in Word(16) : (k - 1 \in Up(d, m)) # (k \in Poly)}
        BY <4>1 DEF Step
      <4> HIDE DEF m
      <4> QED BY <3>1, <3>2, <3>3, <4>2 DEF SymDiff
    <3>4. CASE flip = FALSE
      <4>1. 15 \notin Up(d, m)
        BY <2>3, <2>4, <3>4
      <4>2. Step(Up(d, m)) = {k \in Word(16) : k - 1 \in Up(d, m)}
        BY <4>1 DEF Step
      <4> HIDE DEF m
      <4> QED BY <3>1, <3>2, <3>4, <4>2 DEF SymDiff
    <3> QED BY <1>4, <3>3, <3>4
  <2> QED BY <1>5, <2>2, <2>5
<1>7. refused' \in BOOLEAN
  BY <1>1, <1>2
<1> HIDE DEF b, j
<1>8. Explains(b)'
  <2>1. SymDiff(Low(tx', 16), rx') = d /\ n' - BlockBits = m + 1 /\ ~(n' <= BlockBits)
    BY <1>1
  <2> QED BY <1>6, <2>1 DEF Explains
<1> QED BY <1>1, <1>5, <1>7, <1>8, CodingAssumption DEF BurstInv, Total

-----------------------------------------------------------------------------
(* The network identifier.                                                 *)

\* Powers of two as literals.
Pow == <<1, 2, 4, 8, 16, 32, 64, 128, 256, 512, 1024, 2048, 4096, 8192, 16384, 32768>>
LEMMA PowIs ==
  ASSUME NEW j \in 0 .. 15
  PROVE  2^j = Pow[j + 1]
<1>1. 2^0 = Pow[0 + 1] /\ 2^1 = Pow[1 + 1] /\ 2^2 = Pow[2 + 1] /\ 2^3 = Pow[3 + 1]
  BY DEF Pow
<1>2. 2^4 = Pow[4 + 1] /\ 2^5 = Pow[5 + 1] /\ 2^6 = Pow[6 + 1] /\ 2^7 = Pow[7 + 1]
  BY DEF Pow
<1>3. 2^8 = Pow[8 + 1] /\ 2^9 = Pow[9 + 1] /\ 2^10 = Pow[10 + 1] /\ 2^11 = Pow[11 + 1]
  BY DEF Pow
<1>4. 2^12 = Pow[12 + 1] /\ 2^13 = Pow[13 + 1] /\ 2^14 = Pow[14 + 1] /\ 2^15 = Pow[15 + 1]
  BY DEF Pow
<1>5. j \in 0 .. 3 => j = 0 \/ j = 1 \/ j = 2 \/ j = 3
  OBVIOUS
<1>6. j \in 4 .. 7 => j = 4 \/ j = 5 \/ j = 6 \/ j = 7
  OBVIOUS
<1>7. j \in 8 .. 11 => j = 8 \/ j = 9 \/ j = 10 \/ j = 11
  OBVIOUS
<1>8. j \in 12 .. 15 => j = 12 \/ j = 13 \/ j = 14 \/ j = 15
  OBVIOUS
<1>9. j \in 0 .. 3 \/ j \in 4 .. 7 \/ j \in 8 .. 11 \/ j \in 12 .. 15
  OBVIOUS
<1>10. CASE j \in 0 .. 3
  BY <1>1, <1>5, <1>10, Zenon
<1>11. CASE j \in 4 .. 7
  BY <1>2, <1>6, <1>11, Zenon
<1>12. CASE j \in 8 .. 11
  BY <1>3, <1>7, <1>12, Zenon
<1>13. CASE j \in 12 .. 15
  BY <1>4, <1>8, <1>13, Zenon
<1> QED BY <1>9, <1>10, <1>11, <1>12, <1>13

\* A power of two has one bit.
LEMMA OneBit ==
  ASSUME NEW a \in 0 .. 15, NEW j \in 0 .. 15
  PROVE  j \in Bits(Pow[a + 1]) <=> j = a
<1> DEFINE p == 2^j
<1>1. p = Pow[j + 1]
  BY PowIs
<1>2. j \in Bits(Pow[a + 1]) <=> (Pow[a + 1] \div p) % 2 = 1
  BY DEF Bits, Word
<1> HIDE DEF p
<1>3. (Pow[a + 1] \div Pow[j + 1]) % 2 = 1 <=> j = a
  BY DEF Pow
<1> QED BY <1>1, <1>2, <1>3

\* The rows in words: the first is the row's own bit of the data, the last bit of
\* all, the parity, is set in the rows of the two lowest bits.
LEMMA RowWords ==
  ASSUME NEW k \in 0 .. 15
  PROVE  /\ BchMatrix[k + 1][1] = Pow[(15 - k) + 1]
         /\ (BchMatrix[k + 1][4] % 2 = 1) <=> k \in {14, 15}
         /\ \A w \in 1 .. 4 : BchMatrix[k + 1][w] \in Nat /\ BchMatrix[k + 1][w] < 65536
<1>1. BchMatrix[k + 1][1] = Pow[16 - k]
  BY DEF BchMatrix, Pow
<1>2. (BchMatrix[k + 1][4] % 2 = 1) <=> k \in {14, 15}
  BY DEF BchMatrix
<1>3. ASSUME NEW w \in 1 .. 4 PROVE BchMatrix[k + 1][w] < 65536
  BY DEF BchMatrix
<1>4. BchMatrix[k + 1] \in Nat \X Nat \X Nat \X Nat
  BY DEF BchMatrix
<1>5. \A w \in 1 .. 4 : BchMatrix[k + 1][w] \in Nat
  BY <1>4
<1>6. (15 - k) + 1 = 16 - k
  OBVIOUS
<1> QED BY <1>1, <1>2, <1>3, <1>5, <1>6

\* A number below 65536 is a word of 16 bits.
LEMMA WordOfBits ==
  ASSUME NEW x \in Nat
  PROVE  x < 65536 => Bits(x) \subseteq Word(16)
<1>1. ASSUME x < 65536 PROVE Bits(x) \subseteq Word(16)
  <2> DEFINE p == 65536
  <2>1. p = 2^16
    BY SMT
  <2>2. x < p
    BY <1>1
  <2> HIDE DEF p
  <2>3. x < 2^16
    BY <2>1, <2>2, Zenon
  <2>4. 16 \in Nat
    BY SMT
  <2> QED BY <2>3, <2>4, BitsFit, Zenon
<1> QED BY <1>1

\* Of a row the first word is its own bit of the data; the parity bit is set in
\* the rows of the two lowest bits.
LEMMA RowBits ==
  ASSUME NEW k \in Word(16)
  PROVE  /\ \A j \in Word(16) : j + 48 \in BchRows[k] <=> j = 15 - k
         /\ 0 \in BchRows[k] <=> k \in {14, 15}
         /\ BchRows[k] \subseteq Word(64)
<1>1. k \in 0 .. 15
  BY DEF Word
<1> DEFINE M(w) == BchMatrix[k + 1][w]
<1>2. \A x : x \in BchRows[k] <=> \E w \in 1 .. 4 : \E b \in Bits(M(w)) : x = b + 16 * (4 - w)
  BY DEF BchRows
<1>3. \A w \in 1 .. 4 : Bits(M(w)) \subseteq Word(16)
  <2>1. ASSUME NEW w \in 1 .. 4 PROVE Bits(M(w)) \subseteq Word(16)
    <3>1. M(w) \in Nat /\ M(w) < 65536
      BY <1>1, RowWords
    <3> QED BY <3>1, WordOfBits
  <2> QED BY <2>1
<1>4. \A j \in 0 .. 15 : j \in Bits(M(1)) <=> j = 15 - k
  BY <1>1, RowWords, OneBit
<1>5. 0 \in Bits(M(4)) <=> k \in {14, 15}
  <2>1. 2^0 = 1 /\ M(4) \div 1 = M(4)
    BY <1>1, RowWords
  <2>2. 0 \in Bits(M(4)) <=> M(4) % 2 = 1
    BY <2>1 DEF Bits, Word
  <2> QED BY <1>1, <2>2, RowWords
<1> HIDE DEF M
<1>6. ASSUME NEW j \in Word(16) PROVE j + 48 \in BchRows[k] <=> j = 15 - k
  <2>1. j \in 0 .. 15
    BY DEF Word
  <2>2. ASSUME NEW w \in 1 .. 4, NEW b \in Bits(M(w)), j + 48 = b + 16 * (4 - w)
        PROVE  w = 1 /\ b = j
    <3>1. b \in 0 .. 15
      BY <1>3 DEF Word
    <3> QED BY <2>1, <2>2, <3>1
  <2>3. j + 48 \in BchRows[k] <=> j \in Bits(M(1))
    <3>1. j + 48 = j + 16 * (4 - 1)
      BY <2>1
    <3> QED BY <1>2, <2>2, <3>1
  <2> QED BY <1>4, <2>1, <2>3
<1>7. 0 \in BchRows[k] <=> k \in {14, 15}
  <2>1. ASSUME NEW w \in 1 .. 4, NEW b \in Bits(M(w)), 0 = b + 16 * (4 - w)
        PROVE  w = 4 /\ b = 0
    <3>1. b \in 0 .. 15
      BY <1>3 DEF Word
    <3> QED BY <2>1, <3>1
  <2>2. 0 = 0 + 16 * (4 - 4)
    OBVIOUS
  <2> QED BY <1>2, <1>5, <2>1, <2>2
<1>8. BchRows[k] \subseteq Word(64)
  <2>1. ASSUME NEW w \in 1 .. 4, NEW b \in Bits(M(w)) PROVE b + 16 * (4 - w) \in Word(64)
    <3>1. b \in 0 .. 15
      BY <1>3 DEF Word
    <3> QED BY <3>1 DEF Word
  <2> QED BY <1>2, <2>1
<1> QED BY <1>6, <1>7, <1>8

\* A bit of a codeword is the parity of the data in its column.
LEMMA InCodeword ==
  ASSUME NEW d, NEW b
  PROVE  b \in CodewordOf(d, BchColumns)
           <=> /\ b \in Word(64)
               /\ Cardinality(d \cap BchColumn(b)) % 2 = 1
<1> DEFINE odd(c) == Cardinality(d \cap c[2]) % 2 = 1
           pairs == {<<x, BchColumn(x)>> : x \in Word(64)}
           chosen == {c \in pairs : odd(c)}
<1>1. CodewordOf(d, BchColumns) = {c[1] : c \in chosen}
  BY DEF CodewordOf, BchColumns
<1>2. ASSUME b \in CodewordOf(d, BchColumns)
      PROVE  b \in Word(64) /\ Cardinality(d \cap BchColumn(b)) % 2 = 1
  <2>1. PICK c \in chosen : b = c[1]
    BY <1>1, <1>2
  <2>2. PICK x \in Word(64) : c = <<x, BchColumn(x)>>
    OBVIOUS
  <2> QED BY <2>1, <2>2
<1>3. ASSUME b \in Word(64), Cardinality(d \cap BchColumn(b)) % 2 = 1
      PROVE  b \in CodewordOf(d, BchColumns)
  <2> DEFINE c == <<b, BchColumn(b)>>
  <2>1. c \in chosen /\ c[1] = b
    BY <1>3
  <2> QED BY <1>1, <2>1
<1> QED BY <1>2, <1>3

\* Parities add up.
LEMMA Parity ==
  ASSUME NEW A, NEW B, IsFiniteSet(A), IsFiniteSet(B)
  PROVE  Cardinality(SymDiff(A, B)) % 2 = 1
           <=> (Cardinality(A) % 2 = 1) # (Cardinality(B) % 2 = 1)
<1>1. /\ IsFiniteSet(A \cap B)
      /\ Cardinality(A \cap B) \in Nat /\ Cardinality(A) \in Nat /\ Cardinality(B) \in Nat
  BY FS_Intersection, FS_CardinalityType
<1>2. /\ IsFiniteSet(A \ B) /\ IsFiniteSet(B \ A)
      /\ Cardinality(A \ B) = Cardinality(A) - Cardinality(A \cap B)
      /\ Cardinality(B \ A) = Cardinality(B) - Cardinality(B \cap A)
  BY FS_Difference
<1>3. Cardinality(A \ B) \in Nat /\ Cardinality(B \ A) \in Nat
  BY <1>2, FS_CardinalityType
<1>4. (A \ B) \cap (B \ A) = {} /\ B \cap A = A \cap B
  OBVIOUS
<1>5. Cardinality(SymDiff(A, B))
        = Cardinality(A \ B) + Cardinality(B \ A) - Cardinality((A \ B) \cap (B \ A))
  <2>1. SymDiff(A, B) = (A \ B) \cup (B \ A)
    BY Zenon DEF SymDiff
  <2> QED BY <1>2, <2>1, FS_Union
<1>6. Cardinality((A \ B) \cap (B \ A)) = 0
  BY <1>4, FS_EmptySet, Zenon
<1>7. Cardinality(B \cap A) = Cardinality(A \cap B)
  BY <1>4, Zenon
<1> DEFINE a == Cardinality(A)
           b == Cardinality(B)
           c == Cardinality(A \cap B)
           s == Cardinality(SymDiff(A, B))
<1>8. a \in Nat /\ b \in Nat /\ c \in Nat /\ s = (a - c) + (b - c) - 0
  BY <1>1, <1>2, <1>5, <1>6, <1>7, Zenon
<1> HIDE DEF a, b, c, s
<1>9. s % 2 = 1 <=> (a % 2 = 1) # (b % 2 = 1)
  BY <1>8
<1> QED BY <1>9 DEF a, b, s

\* The code is linear: the codewords of two data differ by that of their difference.
LEMMA Linear ==
  ASSUME NEW d, NEW e, d \subseteq Word(16), e \subseteq Word(16)
  PROVE  CodewordOf(SymDiff(d, e), BchColumns)
           = SymDiff(CodewordOf(d, BchColumns), CodewordOf(e, BchColumns))
<1>1. ASSUME NEW b
      PROVE  b \in CodewordOf(SymDiff(d, e), BchColumns)
               <=> b \in SymDiff(CodewordOf(d, BchColumns), CodewordOf(e, BchColumns))
  <2> DEFINE A == d \cap BchColumn(b)
             B == e \cap BchColumn(b)
  <2>1. IsFiniteSet(A) /\ IsFiniteSet(B)
    <3>1. Word(16) = 0 .. 15 /\ IsFiniteSet(0 .. 15)
      <4>1. 0 \in Int /\ 15 \in Int
        OBVIOUS
      <4>2. IsFiniteSet(0 .. 15)
        BY <4>1, FS_Interval, Zenon
      <4> QED BY <4>2 DEF Word
    <3>2. A \subseteq Word(16) /\ B \subseteq Word(16)
      OBVIOUS
    <3> QED BY <3>1, <3>2, FS_Subset
  <2>2. SymDiff(d, e) \cap BchColumn(b) = SymDiff(A, B)
    BY DEF SymDiff
  <2>3. Cardinality(SymDiff(A, B)) % 2 = 1
          <=> (Cardinality(A) % 2 = 1) # (Cardinality(B) % 2 = 1)
    BY <2>1, Parity
  <2>4. \A x : b \in CodewordOf(x, BchColumns)
               <=> b \in Word(64) /\ Cardinality(x \cap BchColumn(b)) % 2 = 1
    BY InCodeword
  <2> HIDE DEF A, B
  <2>5. b \in CodewordOf(SymDiff(d, e), BchColumns)
          <=> b \in Word(64) /\ Cardinality(SymDiff(A, B)) % 2 = 1
    BY <2>2, <2>4, Zenon
  <2>6. /\ b \in CodewordOf(d, BchColumns) <=> b \in Word(64) /\ Cardinality(A) % 2 = 1
        /\ b \in CodewordOf(e, BchColumns) <=> b \in Word(64) /\ Cardinality(B) % 2 = 1
    BY <2>4, Zenon DEF A, B
  <2> QED BY <2>3, <2>5, <2>6 DEF SymDiff
<1> QED BY <1>1

\* Adding a bit to the data adds its row to the codeword.
LEMMA AddRow ==
  ASSUME NEW k \in Word(16), NEW d, d \subseteq Word(16), 15 - k \notin d
  PROVE  CodewordOf(d \cup {15 - k}, BchColumns) = SymDiff(CodewordOf(d, BchColumns), BchRows[k])
<1>1. k \in 0 .. 15 /\ 15 - k \in Word(16) /\ 15 - (15 - k) = k
  BY DEF Word
<1>2. d \cup {15 - k} = SymDiff(d, {15 - k})
  BY DEF SymDiff
<1>3. CodewordOf({15 - k}, BchColumns) = BchRows[k]
  <2>1. ASSUME NEW b
        PROVE  b \in CodewordOf({15 - k}, BchColumns) <=> b \in BchRows[k]
    <3>1. 15 - k \in BchColumn(b) <=> b \in BchRows[k]
      BY <1>1 DEF BchColumn
    <3>2. CASE b \in BchRows[k]
      <4>1. {15 - k} \cap BchColumn(b) = {15 - k} /\ Cardinality({15 - k}) = 1
        BY <3>1, <3>2, FS_Singleton
      <4>2. b \in Word(64)
        BY <3>2, RowBits
      <4>3. 1 % 2 = 1
        OBVIOUS
      <4>4. Cardinality({15 - k} \cap BchColumn(b)) % 2 = 1
        BY <4>1, <4>3, Zenon
      <4> QED BY <3>2, <4>2, <4>4, InCodeword
    <3>3. CASE b \notin BchRows[k]
      <4>1. {15 - k} \cap BchColumn(b) = {} /\ Cardinality({}) = 0
        BY <3>1, <3>3, FS_EmptySet
      <4>2. 0 % 2 # 1
        OBVIOUS
      <4>3. Cardinality({15 - k} \cap BchColumn(b)) % 2 # 1
        BY <4>1, <4>2, Zenon
      <4> QED BY <3>3, <4>3, InCodeword
    <3> QED BY <3>2, <3>3
  <2> QED BY <2>1
<1>4. {15 - k} \subseteq Word(16)
  BY <1>1
<1>5. CodewordOf(SymDiff(d, {15 - k}), BchColumns)
        = SymDiff(CodewordOf(d, BchColumns), CodewordOf({15 - k}, BchColumns))
  BY <1>4, Linear
<1> QED BY <1>2, <1>3, <1>5, Zenon

\* How far the data of a NID have come at row k: bit 3 is clear, bits 0 and 1 are
\* set in the end.
Part(d, k) ==
  /\ d \subseteq Word(16)
  /\ \A j \in d : j >= 16 - k
  /\ 3 \notin d
  /\ 1 \in d <=> k >= 15
  /\ 0 \in d <=> k = 16

NidInv ==
  /\ stage = "crc" => data = {} /\ other = {} /\ codeword = {} /\ rival = {}
  /\ stage = "nid" =>
       /\ n \in 0 .. 16
       /\ Part(data, n) /\ codeword = CodewordOf(data, BchColumns)
       /\ Part(other, n) /\ rival = CodewordOf(other, BchColumns)

\* One row, of either NID.
LEMMA PartStep ==
  ASSUME NEW k \in 0 .. 15, NEW d, Part(d, k), NEW S \in SUBSET BOOLEAN, NEW bit \in NidBits(k, S)
  PROVE  /\ Part(d \cup Flag(bit, {15 - k}), k + 1)
         /\ CodewordOf(d \cup Flag(bit, {15 - k}), BchColumns)
              = EncodeBCH(CodewordOf(d, BchColumns), k, bit)
<1>1. bit \in BOOLEAN /\ (k = 12 => ~bit) /\ (k > 13 => bit)
  <2>1. CASE k < 12
    <3>1. k # 12 /\ k # 13 /\ ~(k > 13)
      BY <2>1
    <3>2. NidBits(k, S) = S
      BY <2>1, <3>1, Zenon DEF NidBits
    <3>3. bit \in BOOLEAN
      BY <3>2, Zenon
    <3> QED BY <2>1, <3>3
  <2>2. CASE k = 12
    BY <2>2 DEF NidBits
  <2>3. CASE k = 13
    BY <2>3 DEF NidBits
  <2>4. CASE k > 13
    BY <2>4 DEF NidBits
  <2> QED BY <2>1, <2>2, <2>3, <2>4
<1>2. k \in Word(16) /\ 15 - k \in Word(16) /\ 15 - k \notin d
  BY DEF Part, Word
<1>3. CASE bit
  <2>1. Flag(bit, {15 - k}) = {15 - k}
    BY <1>3 DEF Flag
  <2>2. Part(d \cup {15 - k}, k + 1)
    BY <1>1, <1>2, <1>3 DEF Part
  <2>3. CodewordOf(d \cup {15 - k}, BchColumns) = EncodeBCH(CodewordOf(d, BchColumns), k, bit)
    BY <1>2, <1>3, AddRow DEF EncodeBCH, Part
  <2> QED BY <2>1, <2>2, <2>3
<1>4. CASE ~bit
  <2>1. d \cup Flag(bit, {15 - k}) = d
    BY <1>4 DEF Flag
  <2>2. k <= 13 /\ (\A j \in d : j >= 16 - k) /\ (1 \in d <=> k >= 15) /\ (0 \in d <=> k = 16)
    BY <1>1, <1>4 DEF Part
  <2>3. \A j \in d : j >= 16 - (k + 1)
    BY <2>2 DEF Part, Word
  <2>4. (1 \in d <=> k + 1 >= 15) /\ (0 \in d <=> k + 1 = 16)
    BY <2>2
  <2>5. Part(d, k + 1)
    BY <2>3, <2>4 DEF Part
  <2> QED BY <1>4, <2>1, <2>5 DEF EncodeBCH
<1> QED BY <1>1, <1>3, <1>4

LEMMA NoData == CodewordOf({}, BchColumns) = {}
<1>1. ASSUME NEW b PROVE b \notin CodewordOf({}, BchColumns)
  <2>1. {} \cap BchColumn(b) = {} /\ Cardinality({}) = 0
    BY FS_EmptySet
  <2>2. 0 % 2 # 1
    OBVIOUS
  <2>3. Cardinality({} \cap BchColumn(b)) % 2 # 1
    BY <2>1, <2>2, Zenon
  <2> QED BY <2>3, InCodeword
<1> QED BY <1>1

\* The step of either NID, and the steps into and past its stage.
LEMMA NidRowStep ==
  ASSUME NidInv, NidRow
  PROVE  NidInv'
<1>1. /\ stage = "nid" /\ stage' = "nid" /\ n \in 0 .. 15 /\ n' = n + 1
      /\ Part(data, n) /\ codeword = CodewordOf(data, BchColumns)
      /\ Part(other, n) /\ rival = CodewordOf(other, BchColumns)
  BY DEF NidInv, NidRow
<1>2. PICK bit \in NidBits(n, {11 - n \in Nac}), its \in NidBits(n, BOOLEAN) :
        /\ data'  = data  \cup Flag(bit, {15 - n})
        /\ other' = other \cup Flag(its, {15 - n})
        /\ codeword' = EncodeBCH(codeword, n, bit)
        /\ rival'    = EncodeBCH(rival, n, its)
  BY DEF NidRow
<1>3. {11 - n \in Nac} \in SUBSET BOOLEAN
  OBVIOUS
<1>4. Part(data', n + 1) /\ codeword' = CodewordOf(data', BchColumns)
  BY <1>1, <1>2, <1>3, PartStep
<1>5. Part(other', n + 1) /\ rival' = CodewordOf(other', BchColumns)
  BY <1>1, <1>2, PartStep
<1>6. n' \in 0 .. 16
  BY <1>1
<1> QED BY <1>1, <1>4, <1>5, <1>6 DEF NidInv

LEMMA NidInvariant == Spec => []NidInv
<1>1. Init => NidInv
  BY DEF Init, BuildInit, NidInv
<1>2. NidInv /\ [Next]_vars => NidInv'
  <2> SUFFICES ASSUME NidInv, [Next]_vars PROVE NidInv'
    OBVIOUS
  <2>1. CASE BlockBit \/ CrcBit
    BY <2>1 DEF BlockBit, CrcBit, NidInv
  <2>2. CASE EndCrc
    <3>1. Part({}, 0)
      BY DEF Part
    <3>2. /\ stage' = "nid" /\ n' = 0
          /\ data' = {} /\ other' = {} /\ codeword' = {} /\ rival' = {}
      BY <2>2 DEF EndCrc, NidInv
    <3> QED BY <3>1, <3>2, NoData DEF NidInv
  <2>3. CASE NidRow
    BY <2>3, NidRowStep
  <2>4. CASE EndNid \/ CodeDibit \/ Start
    BY <2>4 DEF EndNid, CodeDibit, EndCode, Start, NidInv
  <2>5. CASE Air
    BY <2>5 DEF Air, NidInv
  <2>6. CASE UNCHANGED vars
    BY <2>6 DEF vars, NidInv
  <2>7. CASE EndCode
    BY <2>7 DEF EndCode, NidInv
  <2> QED BY <2>1, <2>2, <2>3, <2>4, <2>5, <2>6, <2>7 DEF Next, Build
<1> QED BY <1>1, <1>2, PTL DEF Spec

\* At the head of a codeword are its data, and the sum of their parities is even.
LEMMA HeadOfCodeword ==
  ASSUME NEW d, Part(d, 16)
  PROVE  /\ Field(CodewordOf(d, BchColumns), 48, 16) = d
         /\ 0 \notin CodewordOf(d, BchColumns)
<1>1. 0 % 2 # 1 /\ 1 % 2 = 1 /\ 2 % 2 # 1
  OBVIOUS
<1>2. ASSUME NEW j \in Word(16) PROVE j + 48 \in CodewordOf(d, BchColumns) <=> j \in d
  <2>1. BchColumn(j + 48) = {j}
    <3>1. ASSUME NEW x \in Word(16) PROVE j + 48 \in BchRows[15 - x] <=> x = j
      <4>1. 15 - x \in Word(16) /\ (j = 15 - (15 - x) <=> x = j)
        BY DEF Word
      <4> QED BY <4>1, RowBits
    <3> QED BY <3>1 DEF BchColumn
  <2>2. j + 48 \in Word(64)
    BY DEF Word
  <2>3. CASE j \in d
    <3>1. d \cap BchColumn(j + 48) = {j} /\ Cardinality({j}) = 1
      BY <2>1, <2>3, FS_Singleton
    <3>2. Cardinality(d \cap BchColumn(j + 48)) % 2 = 1
      BY <1>1, <3>1, Zenon
    <3> QED BY <2>2, <2>3, <3>2, InCodeword
  <2>4. CASE j \notin d
    <3>1. d \cap BchColumn(j + 48) = {} /\ Cardinality({}) = 0
      BY <2>1, <2>4, FS_EmptySet
    <3>2. Cardinality(d \cap BchColumn(j + 48)) % 2 # 1
      BY <1>1, <3>1, Zenon
    <3> QED BY <2>2, <2>4, <3>2, InCodeword
  <2> QED BY <2>3, <2>4
<1>3. Field(CodewordOf(d, BchColumns), 48, 16) = d
  BY <1>2 DEF Field, Part
<1>4. 0 \notin CodewordOf(d, BchColumns)
  <2>1. BchColumn(0) = 0 .. 1
    <3>1. ASSUME NEW x \in Word(16) PROVE 0 \in BchRows[15 - x] <=> x \in 0 .. 1
      <4>1. 15 - x \in Word(16) /\ (15 - x \in {14, 15} <=> x \in 0 .. 1)
        BY DEF Word
      <4> QED BY <4>1, RowBits
    <3>2. 0 .. 1 \subseteq Word(16)
      BY DEF Word
    <3> QED BY <3>1, <3>2 DEF BchColumn
  <2>2. d \cap BchColumn(0) = 0 .. 1
    BY <2>1 DEF Part
  <2>3. Cardinality(0 .. 1) = 2
    <3>1. 0 \in Int /\ 1 \in Int
      OBVIOUS
    <3>2. Cardinality(0 .. 1) = IF 0 > 1 THEN 0 ELSE 1 - 0 + 1
      BY <3>1, FS_Interval, Zenon
    <3> QED BY <3>2
  <2>4. Cardinality(d \cap BchColumn(0)) % 2 # 1
    BY <1>1, <2>2, <2>3, Zenon
  <2> QED BY <2>4, InCodeword
<1> QED BY <1>3, <1>4

-----------------------------------------------------------------------------
(* The trellis code.                                                       *)

Whole(k) == Received(2 * ChannelOf(k)) /\ Received(2 * ChannelOf(k) + 1)

\* The place of a pair, and the pair in that place.
LEMMA Places ==
  ASSUME NEW k \in 0 .. 48
  PROVE  ChannelOf(k) \in 0 .. 48 /\ SourceOf(ChannelOf(k)) = k
BY DEF ChannelOf, SourceOf

\* Of two neighbouring pairs the second is 12 places or more behind the first,
\* or 36 before it.
LEMMA Apart ==
  ASSUME NEW k \in 0 .. 47
  PROVE  \/ ChannelOf(k) + 12 <= ChannelOf(k + 1)
         \/ ChannelOf(k + 1) + 36 = ChannelOf(k)
BY DEF ChannelOf

\* Two different transitions have different pairs; the decoder's pair of a
\* transition is the encoder's.
LEMMA PairsDiffer ==
  ASSUME NEW s \in 0 .. 3, NEW d \in 0 .. 3, NEW g \in 0 .. 3, NEW e \in 0 .. 3
  PROVE  /\ Encoded(s, d) = Expected(s, d)
         /\ Encoded(s, d)[1] = Expected(g, e)[1] /\ Encoded(s, d)[2] = Expected(g, e)[2]
              => s = g /\ d = e
BY DEF Encoded, Expected, TrellisTable, Dtm

\* Of a pair the first dibit alone tells an odd next state from an even one.
\* After that, the second dibit alone of the next pair never fits two paths that
\* meet: paths that are together stay so, and others stay apart.
Alike(a, b) == a % 2 = b % 2

LEMMA FirstAlone ==
  ASSUME NEW s \in 0 .. 3, NEW d \in 0 .. 3, NEW e \in 0 .. 3,
         Encoded(s, d)[1] = Expected(s, e)[1]
  PROVE  Alike(d, e)
BY DEF Encoded, Expected, TrellisTable, Dtm, Alike

LEMMA SecondAlone ==
  ASSUME NEW s \in 0 .. 3, NEW d \in 0 .. 3, NEW g \in 0 .. 3, NEW e \in 0 .. 3,
         Alike(s, g), Encoded(s, d)[2] = Expected(g, e)[2]
  PROVE  s = g <=> d = e
BY DEF Encoded, Expected, TrellisTable, Dtm, Alike

\* The fade begins in the middle of the pair.
Half(k) == lost = 2 * ChannelOf(k) + 1

\* A fade of up to 24 dibits hits two neighbours only in one way: it begins in
\* the middle of the first one and ends in the middle of the second.
LEMMA TwoHit ==
  ASSUME NEW k \in 0 .. 47, lost \in 0 .. 98, Fade <= 24, ~Whole(k), ~Whole(k + 1)
  PROVE  /\ k < 47 /\ Half(k) /\ ~Half(k + 1)
         /\ Received(2 * ChannelOf(k + 1) + 1)
<1> DEFINE a == ChannelOf(k)
           b == ChannelOf(k + 1)
<1>1. k + 1 \in 0 .. 48 /\ Fade \in Nat
  BY CodingAssumption
<1>2. a \in 0 .. 48 /\ b \in 0 .. 48
  BY <1>1, Places
<1>3. a + 12 <= b \/ b + 36 = a
  BY Apart
<1>4. k = 47 => b + 36 = a
  BY DEF ChannelOf
<1>5. \A j \in Nat : ~Received(j) <=> lost <= j /\ j < lost + Fade
  BY CodingAssumption DEF Received
<1>6. (~Received(2 * a) \/ ~Received(2 * a + 1)) /\ (~Received(2 * b) \/ ~Received(2 * b + 1))
  BY DEF Whole
<1> HIDE DEF a, b
<1>7. 2 * a \in Nat /\ 2 * a + 1 \in Nat /\ 2 * b \in Nat /\ 2 * b + 1 \in Nat
  BY <1>2
<1>8. lost <= 2 * a + 1 /\ 2 * a < lost + Fade /\ lost <= 2 * b + 1 /\ 2 * b < lost + Fade
  BY <1>1, <1>2, <1>5, <1>6, <1>7
<1>9. b = a + 12 /\ lost = 2 * a + 1
  BY <1>1, <1>2, <1>3, <1>8
<1>10. k < 47 /\ lost # 2 * b + 1 /\ ~(2 * b + 1 < lost + Fade)
  BY <1>1, <1>2, <1>4, <1>9
<1>11. Received(2 * b + 1)
  BY <1>5, <1>7, <1>10
<1> QED BY <1>9, <1>10, <1>11 DEF Half, a, b

\* Of a pair the fade begins in, the first dibit is received.
LEMMA HalfHeard ==
  ASSUME NEW k \in 0 .. 48, Half(k)
  PROVE  Received(2 * ChannelOf(k))
<1>1. ChannelOf(k) \in Nat
  BY Places
<1> QED BY <1>1, CodingAssumption DEF Half, Received

\* A path is in doubt only behind a pair that was hit.
Doubt == n \in 1 .. 48 /\ ~Whole(n - 1)
CodeInv ==
  /\ stage = "nid" => n \in 0 .. 16 /\ sent = 0 /\ guess = 0 /\ ~apart /\ ~costly
  /\ stage = "crc" => sent = 0 /\ guess = 0 /\ ~apart /\ ~costly
  /\ stage = "code" =>
       /\ n \in 0 .. 49 /\ sent \in 0 .. 3 /\ guess \in 0 .. 3 /\ lost \in 0 .. 98
       /\ ~costly => /\ sent # guess => n = 49 \/ Doubt
                     /\ apart => sent # guess /\ Doubt
                     /\ n \in 1 .. 48 /\ Half(n - 1) => Alike(sent, guess)

\* One pair more.
LEMMA CodeStep ==
  ASSUME CodeInv, CodeDibit, Fade <= 24
  PROVE  CodeInv'
<1>1. /\ stage = "code" /\ stage' = "code" /\ n \in 0 .. 48 /\ n' = n + 1
      /\ sent \in 0 .. 3 /\ guess \in 0 .. 3 /\ lost \in 0 .. 98 /\ lost' = lost
      /\ ~costly => /\ sent # guess => Doubt
                    /\ apart => sent # guess /\ Doubt
                    /\ n \in 1 .. 48 /\ Half(n - 1) => Alike(sent, guess)
  BY DEF CodeInv, CodeDibit, Doubt
<1>2. PICK d \in 0 .. 3, e \in 0 .. 3 :
        /\ costly' = (costly \/ \E j \in {0, 1} :
                                  /\ Received(2 * ChannelOf(n) + j)
                                  /\ Encoded(sent, d)[j + 1] # Expected(guess, e)[j + 1])
        /\ apart' = (apart \/ (n < 48 /\ d # e))
        /\ sent' = d /\ guess' = e
  BY DEF CodeDibit
<1>3. ASSUME ~costly'
      PROVE  /\ ~costly
             /\ Received(2 * ChannelOf(n)) => Encoded(sent, d)[1] = Expected(guess, e)[1]
             /\ Received(2 * ChannelOf(n) + 1) => Encoded(sent, d)[2] = Expected(guess, e)[2]
  <2>1. /\ ~costly
        /\ \A j \in {0, 1} : Received(2 * ChannelOf(n) + j)
             => Encoded(sent, d)[j + 1] = Expected(guess, e)[j + 1]
    BY <1>2, <1>3
  <2>2. ChannelOf(n) \in 0 .. 48
    BY <1>1, Places
  <2>3. 2 * ChannelOf(n) + 0 = 2 * ChannelOf(n)
    BY <2>2
  <2> QED BY <2>1, <2>3
\* What is left to show of the invariant, of a path that has cost nothing.
<1> DEFINE Goal == /\ d # e => n = 48 \/ ~Whole(n)
                   /\ apart' => d # e /\ n < 48 /\ ~Whole(n)
                   /\ n < 48 /\ Half(n) => Alike(d, e)
<1>4. ASSUME ~costly', Whole(n) PROVE Goal
  <2>1. sent = guess /\ d = e
    BY <1>1, <1>3, <1>4, PairsDiffer DEF Whole
  <2>2. ~apart'
    BY <1>1, <1>2, <1>3, <1>4, <2>1
  <2> QED BY <2>1, <2>2 DEF Alike
<1>5. ASSUME ~costly', ~Whole(n), Doubt PROVE Goal
  <2>1. n - 1 \in 0 .. 47 /\ (n - 1) + 1 = n
    BY <1>5 DEF Doubt
  <2>2. ~Whole(n - 1) /\ ~Whole((n - 1) + 1)
    BY <1>5, <2>1 DEF Doubt
  <2>3. n < 48 /\ Half(n - 1) /\ ~Half(n) /\ Received(2 * ChannelOf(n) + 1)
    <3>1. /\ n - 1 < 47 /\ Half(n - 1) /\ ~Half((n - 1) + 1)
          /\ Received(2 * ChannelOf((n - 1) + 1) + 1)
      BY <1>1, <2>1, <2>2, TwoHit
    <3> QED BY <1>1, <2>1, <3>1
  <2>4. sent = guess <=> d = e
    BY <1>1, <1>3, <1>5, <2>3, SecondAlone DEF Doubt
  <2>5. apart' => d # e
    BY <1>1, <1>2, <1>3, <1>5, <2>4
  <2> QED BY <1>5, <2>3, <2>5
<1>6. ASSUME ~costly', ~Whole(n), ~Doubt PROVE Goal
  <2>1. sent = guess /\ ~apart
    BY <1>1, <1>3, <1>6
  <2>2. Half(n) => Alike(d, e)
    BY <1>1, <1>3, <1>6, <2>1, HalfHeard, FirstAlone
  <2>3. apart' => n < 48 /\ d # e
    BY <1>2, <2>1
  <2> QED BY <1>6, <2>2, <2>3
<1>7. ~costly' => Goal
  BY <1>4, <1>5, <1>6
<1>8. /\ n < 48 => Doubt' = ~Whole(n)
      /\ n' \in 1 .. 48 /\ Half(n - 1)' => n < 48 /\ Half(n)
  <2>1. n' - 1 = n /\ lost' = lost
    BY <1>1
  <2>2. Whole(n - 1)' = Whole(n) /\ Half(n - 1)' = Half(n)
    BY <2>1 DEF Whole, Received, Half
  <2> QED BY <1>1, <2>2 DEF Doubt
<1>9. ~costly' => /\ sent' # guess' => n' = 49 \/ Doubt'
                  /\ apart' => sent' # guess' /\ Doubt'
                  /\ n' \in 1 .. 48 /\ Half(n - 1)' => Alike(sent, guess)'
  <2>1. Alike(sent, guess)' = Alike(d, e)
    BY <1>2 DEF Alike
  <2>2. sent' # guess' <=> d # e
    BY <1>2
  <2>3. ASSUME ~costly', sent' # guess' PROVE n' = 49 \/ Doubt'
    <3>1. n = 48 \/ ~Whole(n)
      BY <1>7, <2>2, <2>3
    <3>2. CASE n = 48
      BY <1>1, <3>2
    <3>3. CASE n # 48
      <4>1. n < 48
        BY <1>1, <3>3
      <4> QED BY <1>8, <3>1, <3>3, <4>1
    <3> QED BY <3>2, <3>3
  <2>4. ASSUME ~costly', apart' PROVE sent' # guess' /\ Doubt'
    BY <1>7, <1>8, <2>2, <2>4
  <2>5. ASSUME ~costly', n' \in 1 .. 48, Half(n - 1)' PROVE Alike(sent, guess)'
    BY <1>7, <1>8, <2>1, <2>5
  <2> QED BY <2>3, <2>4, <2>5
<1> QED BY <1>1, <1>2, <1>9 DEF CodeInv

-----------------------------------------------------------------------------
(* Frames on the air.                                                      *)

\* No TSBK follows on another, unless there is nothing else.
Spaced ==
  \A s \in Streams : Len(s) > 1 =>
    \A k \in 1 .. Len(s) : s[k] = "TSBK" => s[(k % Len(s)) + 1] # "TSBK"

\* Status symbols sent of the 5, and symbols sent of the 180 of the frame.
StatusSent == 5 - remaining
Pos        == i - 1 + StatusSent

SendInv ==
  /\ remaining \in 1 .. 5 /\ i \in 35 * StatusSent + 1 .. 35 * StatusSent + 36
  /\ owed <=> i = 35 * StatusSent + 36
  /\ hurt \in BOOLEAN /\ hurtBefore \in BOOLEAN

\* Where the decoder is in the frame.  A second block ends in the next frame,
\* and a third with it.
ReadInv ==
  /\ mode \in {"hunt", "nid", "TSBK", "TDU"}
  /\ mode = "hunt" => matched = 0 \/ (matched = Pos /\ matched \in 1 .. 23)
  /\ mode = "nid" => count \in 0 .. 32 /\ Pos = 24 + count
  /\ mode = "TDU" => count \in 0 .. 14 /\ Pos = 57 + count
  /\ mode = "TSBK" =>
       /\ block \in 1 .. 3 /\ count \in 0 .. 100
       /\ block = 1 => /\ Pos = 57 + count /\ stream[at] = "TSBK"
                       /\ got = i - 57 /\ skip = i - 35 * StatusSent
       /\ block = 2 => \/ Pos = 158 + count /\ hurt /\ stream[at] = "TSBK"
                       \/ /\ Pos + 22 = count /\ hurtBefore
                          /\ Len(stream) > 1 => stream[at] # "TSBK"
       /\ block = 3 => Pos = 79 + count

\* A frame whose block should be decoded is read from its first dibit on.
TrackInv ==
  Due => /\ Pos <= 23 => mode = "hunt" /\ matched = Pos
         /\ Pos \in 24 .. 56 => mode = "nid"
         /\ Pos \in 57 .. 157 => mode = "TSBK" /\ block = 1
         /\ Pos >= 158 => found

FrameInv ==
  /\ ~wrong /\ ~missed
  /\ IF stage = "air"
     THEN /\ stream \in Streams /\ at \in 1 .. Len(stream)
          /\ SendInv /\ ReadInv /\ TrackInv
     ELSE /\ at = 1 /\ i = 1 /\ remaining = NumSS /\ ~owed /\ hurtBefore = TRUE
          /\ mode = "hunt" /\ matched = 0 /\ ~found

\* Within a frame, and from one frame to the next.
More ==
  /\ Pos < 179 /\ Pos' = Pos + 1 /\ i' # 1
  /\ IF owed THEN i' = i /\ remaining' = remaining - 1 ELSE i' = i + 1 /\ remaining' = remaining
  /\ at' = at /\ hurt' = hurt /\ hurtBefore' = hurtBefore
Turn == Pos = 179 /\ Pos' = 0 /\ i' = 1 /\ at' = (at % Len(stream)) + 1 /\ hurtBefore' = hurt

LEMMA FrameSize == NumSS = 5 /\ DataDibits = 154
BY DEF NumSS, DataDibits, SyncDibits, NidDibits, BlockDibits

\* A frame is 180 symbols; then the next one begins.
LEMMA Sends ==
  ASSUME SendInv, Send
  PROVE  SendInv' /\ stream' = stream /\ (More \/ Turn)
<1>1. NumSS = 5 /\ DataDibits = 154
  BY FrameSize
<1>2. /\ remaining \in 1 .. 5
      /\ i \in 35 * (5 - remaining) + 1 .. 35 * (5 - remaining) + 36
      /\ owed <=> i = 35 * (5 - remaining) + 36
      /\ hurt \in BOOLEAN /\ hurtBefore \in BOOLEAN
      /\ Pos = i + 4 - remaining
  BY <1>1 DEF SendInv, StatusSent, Pos
<1>3. stream' = stream
  BY DEF Send
<1>4. CASE owed /\ remaining = 1
  <2>1. Complete(i, remaining - 1) /\ Pos = 179
    BY <1>1, <1>2, <1>4 DEF Complete
  <2>2. /\ at' = (at % Len(stream)) + 1 /\ i' = 1 /\ remaining' = 5 /\ owed' = FALSE
        /\ hurt' \in BOOLEAN /\ hurtBefore' = hurt
    BY <1>1, <1>4, <2>1 DEF Send, Continue
  <2>3. Pos' = 0 /\ SendInv'
    BY <1>1, <1>2, <2>2 DEF SendInv, StatusSent, Pos
  <2> QED BY <1>3, <2>1, <2>2, <2>3 DEF Turn
<1>5. CASE owed /\ remaining # 1
  <2>1. ~Complete(i, remaining - 1)
    BY <1>2, <1>5 DEF Complete
  <2>2. /\ i' = i /\ remaining' = remaining - 1 /\ owed' = FALSE
        /\ at' = at /\ hurt' = hurt /\ hurtBefore' = hurtBefore
    BY <1>5, <2>1 DEF Send, Continue
  <2>3. Pos' = Pos + 1 /\ Pos < 179 /\ i' # 1
    BY <1>1, <1>2, <1>5, <2>2 DEF StatusSent, Pos
  <2>4. SendInv'
    BY <1>1, <1>2, <1>5, <2>2 DEF SendInv, StatusSent
  <2> QED BY <1>3, <1>5, <2>2, <2>3, <2>4 DEF More
<1>6. CASE ~owed
  <2>1. ~Complete(i + 1, remaining)
    BY <1>2 DEF Complete
  <2>2. /\ i' = i + 1 /\ remaining' = remaining /\ owed' = (i % 35 = 0 /\ remaining > 0)
        /\ at' = at /\ hurt' = hurt /\ hurtBefore' = hurtBefore
    BY <1>6, <2>1 DEF Send, Continue
  <2>3. i % 35 = 0 <=> i = 35 * (5 - remaining) + 35
    BY <1>2, <1>6
  <2>4. Pos' = Pos + 1 /\ Pos < 179 /\ i' # 1
    BY <1>1, <1>2, <1>6, <2>2 DEF StatusSent, Pos
  <2>5. SendInv'
    <3>1. owed' <=> i' = 35 * (5 - remaining') + 36
      <4>1. remaining > 0
        BY <1>2
      <4>2. owed' <=> i % 35 = 0
        BY <2>2, <4>1, Zenon
      <4>3. i' = 35 * (5 - remaining') + 36 <=> i = 35 * (5 - remaining) + 35
        BY <1>2, <2>2
      <4> QED BY <2>3, <4>2, <4>3
    <3>2. remaining' \in 1 .. 5 /\ i' \in 35 * (5 - remaining') + 1 .. 35 * (5 - remaining') + 36
      BY <1>2, <1>6, <2>2
    <3> QED BY <1>2, <2>2, <3>1, <3>2 DEF SendInv, StatusSent
  <2> QED BY <1>3, <1>6, <2>2, <2>4, <2>5 DEF More
<1> QED BY <1>4, <1>5, <1>6

\* What is on the air, by its place.
LEMMA OnAir ==
  ASSUME SendInv
  PROVE  /\ Symbol = Status <=> owed
         /\ \A k \in 0 .. 153 : Symbol = Dibit(k) <=> ~owed /\ k = i - 1
<1>1. DataDibits = 154 /\ i \in Nat \ {0}
  BY FrameSize DEF SendInv, StatusSent
<1>2. \A k : Dibit(k) # Status /\ Padding # Status /\ Padding # Dibit(k)
  BY DEF Dibit, Status, Padding
<1>3. \A k, m : Dibit(k) = Dibit(m) <=> k = m
  BY DEF Dibit
<1>4. CASE owed
  BY <1>2, <1>4 DEF Symbol
<1>5. CASE ~owed /\ i <= 154
  <2>1. Symbol = Dibit(i - 1)
    BY <1>1, <1>5 DEF Symbol
  <2> QED BY <1>2, <1>3, <1>5, <2>1
<1>6. CASE ~owed /\ ~(i <= 154)
  <2>1. Symbol = Padding
    BY <1>1, <1>6 DEF Symbol
  <2> QED BY <1>1, <1>2, <1>6, <2>1
<1> QED BY <1>4, <1>5, <1>6

\* Status symbols are 36 places apart.
LEMMA Places36 ==
  ASSUME SendInv
  PROVE  /\ i = Pos + 1 - StatusSent /\ Pos \in 0 .. 179 /\ StatusSent \in 0 .. 4
         /\ 36 * StatusSent <= Pos /\ Pos <= 36 * StatusSent + 35
         /\ owed <=> Pos = 36 * StatusSent + 35
<1>1. StatusSent \in 0 .. 4
  BY FrameSize DEF SendInv, StatusSent
<1> QED BY <1>1 DEF SendInv, Pos

\* The decoder's part of a step, whatever the sender does next.
ReadStep ==
  /\ SendInv /\ SendInv' /\ stream' = stream /\ (More \/ Turn)
  /\ ReadInv /\ ~wrong /\ stream \in Streams /\ at \in 1 .. Len(stream)

LEMMA HuntStep ==
  ASSUME ReadStep, Hunt(Symbol)
  PROVE  ReadInv' /\ ~wrong'
<1> DEFINE s == Symbol
<1>1. /\ mode = "hunt" /\ wrong' = wrong /\ ~wrong
      /\ matched = 0 \/ (matched = Pos /\ matched \in 1 .. 23)
      /\ SendInv /\ (More \/ Turn)
  BY DEF Hunt, ReadStep, ReadInv
<1>2. /\ Pos \in 0 .. 179
      /\ \A k \in 0 .. 153 : Symbol = Dibit(k) <=> ~owed /\ k = i - 1
      /\ i = Pos + 1 - StatusSent /\ StatusSent \in 0 .. 4 /\ 36 * StatusSent <= Pos
  BY <1>1, OnAir, Places36
<1>3. ASSUME Symbol = Dibit(matched) PROVE matched = Pos /\ Pos \in 0 .. 23 /\ More
  <2>1. matched \in 0 .. 23 /\ ~owed /\ matched = i - 1
    BY <1>1, <1>2, <1>3
  <2>2. StatusSent = 0
    BY <1>1, <1>2, <2>1 DEF SendInv
  <2> QED BY <1>1, <1>2, <2>1, <2>2 DEF More, Turn
<1>4. ASSUME Symbol = Dibit(0) PROVE matched = 0 /\ Pos = 0
  BY <1>1, <1>2, <1>4 DEF SendInv
<1>5. CASE mode' = "hunt" /\ matched' = 0
  BY <1>1, <1>5 DEF ReadInv
<1>6. CASE mode' = "hunt" /\ matched' = matched + 1 /\ matched + 1 < 24 /\ Symbol = Dibit(matched)
  BY <1>1, <1>3, <1>6 DEF ReadInv, More
<1>7. CASE mode' = "nid" /\ count' = 0 /\ matched + 1 = 24 /\ Symbol = Dibit(matched)
  BY <1>1, <1>3, <1>7 DEF ReadInv, More
<1>8. CASE mode' = "hunt" /\ matched' = 1 /\ Symbol = Dibit(0) /\ Symbol # Dibit(matched)
  BY <1>4, <1>8
<1> QED BY <1>1, <1>5, <1>6, <1>7, <1>8 DEF Hunt, SyncDibits

LEMMA NidStep ==
  ASSUME ReadStep, ReadNid(Symbol)
  PROVE  ReadInv' /\ ~wrong'
<1>1. /\ mode = "nid" /\ ~wrong /\ count \in 0 .. 32 /\ Pos = 24 + count
      /\ SendInv /\ SendInv' /\ (More \/ Turn)
  BY DEF ReadNid, ReadStep, ReadInv
<1>2. /\ Symbol = Status <=> owed
      /\ \A k \in 0 .. 153 : Symbol = Dibit(k) <=> ~owed /\ k = i - 1
      /\ i = Pos + 1 - StatusSent /\ StatusSent \in 0 .. 4
      /\ 36 * StatusSent <= Pos /\ Pos <= 36 * StatusSent + 35
      /\ owed <=> Pos = 36 * StatusSent + 35
  BY <1>1, OnAir, Places36
<1>3. More /\ Pos' = 25 + count
  BY <1>1 DEF More, Turn
<1>4. ~wrong'
  <2>1. CASE count < 11
    <3>1. ~owed /\ 24 + count = i - 1 /\ 24 + count \in 0 .. 153
      BY <1>1, <1>2, <2>1
    <3>2. Symbol = Dibit(24 + count)
      BY <1>2, <3>1
    <3> QED BY <1>1, <2>1, <3>2 DEF ReadNid, SyncDibits
  <2>2. CASE count = 11
    <3>1. Symbol = Status
      BY <1>1, <1>2, <2>2
    <3>2. ~(count < 11)
      BY <2>2
    <3> QED BY <1>1, <2>2, <3>1, <3>2 DEF ReadNid
  <2>3. CASE count > 11
    <3>1. ~owed /\ 24 + count - 1 = i - 1 /\ 24 + count - 1 \in 0 .. 153
      BY <1>1, <1>2, <2>3
    <3>2. Symbol = Dibit(24 + count - 1)
      BY <1>2, <3>1
    <3>3. ~(count < 11) /\ count # 11
      BY <1>1, <2>3
    <3> QED BY <1>1, <3>2, <3>3 DEF ReadNid, SyncDibits
  <2> QED BY <1>1, <2>1, <2>2, <2>3
<1>5. CASE count < 32
  BY <1>1, <1>3, <1>4, <1>5 DEF ReadNid, ReadInv, NidDibits
<1>6. CASE count = 32
  <2>1. /\ count' = 0 /\ got' = 0 /\ skip' = 22 /\ block' = 1 /\ matched' = 0
        /\ mode' = stream[at] \/ mode' = "hunt"
    BY <1>6 DEF ReadNid, NidDibits
  <2>2. Pos' = 57 /\ at' = at /\ stream' = stream
    BY <1>3, <1>6 DEF More, ReadStep
  <2>3. i' = 57 /\ StatusSent' = 1
    <3>1. ~owed /\ StatusSent = 1 /\ i = 56
      BY <1>1, <1>2, <1>6
    <3> QED BY <1>3, <3>1 DEF More, StatusSent
  <2>4. stream[at] \in {"TSBK", "TDU"}
    BY FrameAssumption DEF ReadStep
  <2> QED BY <1>4, <2>1, <2>2, <2>3, <2>4 DEF ReadInv
<1> QED BY <1>1, <1>5, <1>6

LEMMA TduStep ==
  ASSUME ReadStep, ReadTDU(Symbol)
  PROVE  ReadInv' /\ ~wrong'
<1>1. /\ mode = "TDU" /\ ~wrong /\ count \in 0 .. 14 /\ Pos = 57 + count
      /\ SendInv /\ (More \/ Turn)
  BY DEF ReadTDU, ReadStep, ReadInv
<1>2. Symbol = Status <=> count = 14
  BY <1>1, OnAir, Places36
<1>3. More /\ ~wrong'
  <2>1. More
    BY <1>1 DEF More, Turn
  <2>2. (Symbol = Status) = (count = 14)
    BY <1>2
  <2> QED BY <1>1, <2>1, <2>2 DEF ReadTDU
<1> QED BY <1>1, <1>3 DEF ReadTDU, Hunting, More, ReadInv

\* skipdibit counts from one status symbol to the next.
LEMMA BlockStep ==
  ASSUME ReadStep, ReadBlock(Symbol), Spaced
  PROVE  ReadInv' /\ ~wrong'
<1>1. /\ mode = "TSBK" /\ ~wrong /\ block \in 1 .. 3 /\ count \in 0 .. 100
      /\ SendInv /\ SendInv' /\ (More \/ Turn) /\ stream' = stream
      /\ block = 1 => /\ Pos = 57 + count /\ stream[at] = "TSBK"
                      /\ got = i - 57 /\ skip = i - 35 * StatusSent
      /\ block = 2 => \/ Pos = 158 + count /\ hurt /\ stream[at] = "TSBK"
                      \/ /\ Pos + 22 = count /\ hurtBefore
                         /\ Len(stream) > 1 => stream[at] # "TSBK"
      /\ block = 3 => Pos = 79 + count
  BY DEF ReadBlock, ReadStep, ReadInv
<1>2. /\ Symbol = Status <=> owed
      /\ \A k \in 0 .. 153 : Symbol = Dibit(k) <=> ~owed /\ k = i - 1
      /\ i = Pos + 1 - StatusSent /\ Pos \in 0 .. 179 /\ StatusSent \in 0 .. 4
      /\ 36 * StatusSent <= Pos /\ Pos <= 36 * StatusSent + 35
      /\ owed <=> Pos = 36 * StatusSent + 35
      /\ remaining \in 1 .. 5 /\ i \in 35 * (5 - remaining) + 1 .. 35 * (5 - remaining) + 36
      /\ owed <=> i = 35 * (5 - remaining) + 36
  BY <1>1, OnAir, Places36 DEF SendInv, StatusSent
<1> DEFINE taken == skip \div 36 = 0
<1>3. ASSUME block = 1
      PROVE  /\ skip \in 1 .. 36
             /\ taken <=> ~owed
             /\ ~owed => got \in 0 .. 97 /\ Symbol = Dibit(56 + got)
  <2>1. skip = i - 35 * StatusSent /\ skip \in 1 .. 36
    BY <1>1, <1>2, <1>3
  <2>2. skip \div 36 = 0 <=> skip # 36
    BY <2>1
  <2>3. taken <=> ~owed
    BY <1>2, <2>1, <2>2
  <2>4. ASSUME ~owed PROVE got \in 0 .. 97 /\ Symbol = Dibit(56 + got)
    <3>1. got = i - 57 /\ i + 4 - remaining = 57 + count /\ count \in 0 .. 100
      BY <1>1, <1>2, <1>3 DEF Pos, StatusSent
    <3>2. got \in 0 .. 97
      BY <1>2, <3>1
    <3>3. 56 + got \in 0 .. 153 /\ 56 + got = i - 1
      BY <1>2, <3>1, <3>2
    <3> QED BY <1>2, <2>4, <3>2, <3>3
  <2> QED BY <2>1, <2>3, <2>4
<1>4. ~wrong'
  <2>1. wrong' = (wrong \/ (block = 1 /\ Symbol # IF taken THEN Dibit(56 + got) ELSE Status))
    BY DEF ReadBlock, SyncDibits, NidDibits
  <2> HIDE DEF taken
  <2>2. CASE block = 1 /\ owed
    <3>1. ~taken
      BY <1>3, <2>2
    <3>2. Symbol = Status
      BY <1>2, <2>2
    <3> QED BY <1>1, <2>1, <3>1, <3>2
  <2>3. CASE block = 1 /\ ~owed
    BY <1>1, <1>2, <1>3, <2>1, <2>3
  <2> QED BY <1>1, <2>1, <2>2, <2>3
<1>5. CASE count < 100
  <2>1. /\ mode' = "TSBK" /\ block' = block /\ count' = count + 1
        /\ got' = (IF taken THEN got + 1 ELSE got) /\ skip' = IF taken THEN skip + 1 ELSE 1
    BY <1>1, <1>5 DEF ReadBlock
  <2> HIDE DEF taken
  <2>2. CASE block = 1
    <3>1. More
      BY <1>1, <1>5, <2>2 DEF More, Turn
    <3>2. Pos' = 57 + count' /\ count' \in 0 .. 100 /\ stream'[at'] = "TSBK"
      BY <1>1, <1>5, <2>1, <2>2, <3>1 DEF More
    <3>3. got' = i' - 57 /\ skip' = i' - 35 * (5 - remaining')
      <4>1. got = i - 57 /\ skip = i - 35 * (5 - remaining)
        BY <1>1, <2>2 DEF StatusSent
      <4>2. CASE owed
        BY <1>2, <1>3, <2>1, <2>2, <3>1, <4>1, <4>2 DEF More
      <4>3. CASE ~owed
        BY <1>2, <1>3, <2>1, <2>2, <3>1, <4>1, <4>3 DEF More
      <4> QED BY <4>2, <4>3
    <3> QED BY <1>4, <2>1, <2>2, <3>2, <3>3 DEF ReadInv, StatusSent
  <2>3. CASE block = 2 /\ More
    <3>1. \/ Pos' = 158 + count' /\ hurt' /\ stream'[at'] = "TSBK"
          \/ /\ Pos' + 22 = count' /\ hurtBefore'
             /\ Len(stream') > 1 => stream'[at'] # "TSBK"
      BY <1>1, <1>2, <1>5, <2>1, <2>3 DEF More
    <3> QED BY <1>1, <1>4, <1>5, <2>1, <2>3, <3>1 DEF ReadInv
  <2>4. CASE block = 2 /\ Turn
    <3>1. Pos = 158 + count /\ hurt /\ stream[at] = "TSBK"
      BY <1>1, <2>4 DEF Turn
    <3>2. Len(stream) > 1 => stream[(at % Len(stream)) + 1] # "TSBK"
      BY <3>1 DEF Spaced, ReadStep
    <3>3. /\ Pos' + 22 = count' /\ hurtBefore'
          /\ Len(stream') > 1 => stream'[at'] # "TSBK"
      BY <1>1, <2>1, <2>4, <3>1, <3>2 DEF Turn
    <3> QED BY <1>1, <1>4, <1>5, <2>1, <2>4, <3>3 DEF ReadInv
  <2>5. CASE block = 3
    <3>1. More
      BY <1>1, <1>5, <2>5 DEF More, Turn
    <3> QED BY <1>1, <1>4, <1>5, <2>1, <2>5, <3>1 DEF ReadInv, More
  <2> QED BY <1>1, <2>2, <2>3, <2>4, <2>5
<1>6. CASE count = 100
  <2>1. PICK last \in IF block = 1 /\ ~hurt THEN {TRUE} ELSE BOOLEAN :
          IF last \/ block = 3 THEN mode' = "hunt" /\ matched' = 0
          ELSE block' = block + 1 /\ mode' = mode
    <3>1. ~(count < 100)
      BY <1>6
    <3> QED BY <3>1 DEF ReadBlock, Hunting
  <2>2. count' = 0
    BY <1>6 DEF ReadBlock
  <2>3. CASE last \/ block = 3
    BY <1>4, <2>1, <2>3 DEF ReadInv
  <2>4. CASE ~last /\ block = 1
    <3>1. More
      BY <1>1, <1>6, <2>4 DEF Turn
    <3>0. hurt
      BY <2>1, <2>4
    <3>2. /\ mode' = "TSBK" /\ block' = 2
          /\ Pos' = 158 + count' /\ hurt' /\ stream'[at'] = "TSBK"
      BY <1>1, <1>6, <2>1, <2>2, <2>4, <3>0, <3>1 DEF More
    <3> QED BY <1>4, <2>2, <3>2 DEF ReadInv
  <2>5. CASE ~last /\ block = 2
    <3>1. More /\ Pos = 78
      <4>1. Pos = 78
        <5>1. ~(Pos = 158 + count)
          BY <1>2, <1>6 DEF Pos, StatusSent
        <5>2. Pos + 22 = 100
          BY <1>1, <1>6, <2>5, <5>1
        <5> QED BY <1>2, <5>2 DEF Pos, StatusSent
      <4> QED BY <1>1, <4>1 DEF Turn
    <3>2. mode' = "TSBK" /\ block' = 3 /\ Pos' = 79 + count'
      BY <1>1, <1>6, <2>1, <2>2, <2>5, <3>1 DEF More
    <3> QED BY <1>4, <2>2, <3>2 DEF ReadInv
  <2> QED BY <1>1, <2>3, <2>4, <2>5
<1> QED BY <1>1, <1>5, <1>6

\* A frame that is due is followed dibit by dibit.
LEMMA TrackStep ==
  ASSUME ReadStep, TrackInv, Air, Spaced
  PROVE  TrackInv' /\ (~missed => ~missed')
<1>1. /\ SendInv /\ SendInv' /\ stream' = stream /\ (More \/ Turn) /\ ReadInv
      /\ stream \in Streams /\ at \in 1 .. Len(stream)
  BY DEF ReadStep
<1> DEFINE decoded == found \/ (mode = "TSBK" /\ block = 1 /\ count = 100)
<1>2. IF i' = 1 THEN found' = FALSE /\ missed' = (missed \/ (Due /\ ~decoded))
                ELSE found' = decoded /\ missed' = missed
  BY DEF Air
<1>3. CASE Turn
  <2>1. Pos = 179 /\ Pos' = 0 /\ hurtBefore' = hurt
    BY <1>3 DEF Turn
  <2>2. Due => found
    BY <2>1 DEF TrackInv
  <2>3. ASSUME Due' PROVE mode' = "hunt" /\ matched' = 0
    <3>1. CASE mode = "hunt"
      <4>1. matched = 0
        <5>1. matched = 0 \/ (matched = Pos /\ matched \in 1 .. 23)
          BY <1>1, <3>1 DEF ReadInv
        <5> QED BY <2>1, <5>1
      <4>2. owed
        BY <1>1, <2>1, Places36
      <4>3. Symbol # Dibit(0)
        BY <1>1, <4>2, OnAir
      <4> QED BY <3>1, <4>1, <4>3 DEF Air, Hunt, ReadNid, ReadBlock, ReadTDU
    <3>2. CASE mode = "nid" \/ mode = "TDU"
      <4>1. count \in 0 .. 32 /\ (179 = 24 + count \/ 179 = 57 + count)
        BY <1>1, <2>1, <3>2 DEF ReadInv
      <4> QED BY <4>1
    <3>3. CASE mode = "TSBK"
      <4>1. /\ block \in 1 .. 3 /\ count \in 0 .. 100
            /\ block = 1 => 179 = 57 + count
            /\ block = 2 => 179 + 22 = count \/ (hurt /\ stream[at] = "TSBK")
            /\ block = 3 => 179 = 79 + count
        BY <1>1, <2>1, <3>3 DEF ReadInv
      <4>2. block # 1
        BY <4>1
      <4>3. CASE block = 2
        <5>1. hurt /\ stream[at] = "TSBK"
          BY <4>1, <4>3
        <5>2. Len(stream) > 1
          BY <1>1, <2>1, <2>3, <5>1 DEF Due
        <5>3. stream[(at % Len(stream)) + 1] # "TSBK"
          BY <1>1, <5>1, <5>2 DEF Spaced
        <5> QED BY <1>1, <1>3, <2>3, <5>3 DEF Due, Turn
      <4>4. CASE block = 3
        <5>1. ~(count < 100)
          BY <4>1, <4>4
        <5>2. ReadBlock(Symbol)
          BY <3>3 DEF Air, Hunt, ReadNid, ReadTDU
        <5> QED BY <4>4, <5>1, <5>2 DEF ReadBlock, Hunting
      <4> QED BY <4>1, <4>2, <4>3, <4>4
    <3> QED BY <1>1, <3>1, <3>2, <3>3 DEF ReadInv
  <2>4. Due' => TrackInv'
    BY <2>1, <2>3 DEF TrackInv
  <2>5. ~Due' => TrackInv'
    BY DEF TrackInv
  <2> QED BY <1>2, <1>3, <2>2, <2>4, <2>5 DEF Turn
<1>4. CASE More
  <2>1. missed' = missed /\ found' = decoded
    BY <1>2, <1>4 DEF More
  <2>2. SUFFICES ASSUME Due' PROVE TrackInv'
    BY <2>1 DEF TrackInv
  <2>3. Due /\ ~hurt /\ stream[at] = "TSBK"
    BY <1>1, <1>4, <2>2 DEF Due, More
  <2>4. Pos' = Pos + 1 /\ Pos \in 0 .. 179
    BY <1>1, <1>4, Places36 DEF More
  <2>5. CASE Pos <= 23
    <3>1. mode = "hunt" /\ matched = Pos /\ matched \in 0 .. 23
      BY <2>3, <2>4, <2>5 DEF TrackInv
    <3>2. Symbol = Dibit(matched)
      <4>1. ~owed /\ Pos = i - 1
        BY <1>1, <2>4, <2>5, Places36
      <4>2. Pos \in 0 .. 153
        BY <2>4, <2>5
      <4> QED BY <1>1, <3>1, <4>1, <4>2, OnAir
    <3>3. \/ mode' = "hunt" /\ matched' = matched + 1 /\ matched + 1 < 24
          \/ mode' = "nid" /\ matched + 1 = 24
      BY <2>3, <3>1, <3>2 DEF Air, Hunt, ReadNid, ReadBlock, ReadTDU, SyncDibits
    <3>4. CASE mode' = "hunt" /\ matched' = matched + 1 /\ matched + 1 < 24
      <4>1. Pos' \in 0 .. 23 /\ matched' = Pos'
        BY <2>4, <3>1, <3>4
      <4> QED BY <3>4, <4>1 DEF TrackInv
    <3>5. CASE mode' = "nid" /\ matched + 1 = 24
      <4>1. Pos' = 24
        BY <2>4, <3>1, <3>5
      <4> QED BY <3>5, <4>1 DEF TrackInv
    <3> QED BY <3>3, <3>4, <3>5
  <2>6. CASE Pos \in 24 .. 56
    <3>1. mode = "nid" /\ Pos = 24 + count /\ count \in 0 .. 32
      BY <1>1, <2>3, <2>6 DEF TrackInv, ReadInv
    <3>2. ReadNid(Symbol)
      BY <3>1 DEF Air, Hunt, ReadBlock, ReadTDU
    <3>3. CASE count < 32
      <4>1. mode' = "nid" /\ Pos' \in 24 .. 56
        BY <2>4, <3>1, <3>2, <3>3 DEF ReadNid, NidDibits
      <4> QED BY <4>1 DEF TrackInv
    <3>4. CASE count = 32
      <4>1. mode' = "TSBK" /\ block' = 1
        BY <2>3, <3>2, <3>4 DEF ReadNid, NidDibits
      <4>2. Pos' = 57
        BY <2>4, <3>1, <3>4
      <4> QED BY <4>1, <4>2 DEF TrackInv
    <3> QED BY <3>1, <3>3, <3>4
  <2>7. CASE Pos \in 57 .. 157
    <3>1. mode = "TSBK" /\ block = 1 /\ Pos = 57 + count /\ count \in 0 .. 100
      BY <1>1, <2>3, <2>7 DEF TrackInv, ReadInv
    <3>2. ReadBlock(Symbol)
      BY <3>1 DEF Air, Hunt, ReadNid, ReadTDU
    <3>3. CASE count < 100
      <4>1. mode' = "TSBK" /\ block' = 1
        BY <3>1, <3>2, <3>3 DEF ReadBlock
      <4>2. Pos' \in 57 .. 157
        BY <2>4, <3>1, <3>3
      <4> QED BY <4>1, <4>2 DEF TrackInv
    <3>4. CASE count = 100
      <4>1. found'
        BY <2>1, <3>1, <3>4, Zenon
      <4>2. Pos' = 158
        BY <2>4, <3>1, <3>4
      <4> QED BY <4>1, <4>2 DEF TrackInv
    <3> QED BY <3>1, <3>3, <3>4
  <2>8. CASE Pos >= 158
    <3>1. Pos \in 158 .. 179 /\ Pos' \in 159 .. 180
      BY <2>4, <2>8
    <3>2. found'
      BY <2>1, <2>3, <2>8 DEF TrackInv
    <3> QED BY <3>1, <3>2 DEF TrackInv
  <2> QED BY <2>4, <2>5, <2>6, <2>7, <2>8
<1> QED BY <1>1, <1>3, <1>4

-----------------------------------------------------------------------------
(* The theorems.                                                           *)

\* The registers stay in step, whatever is going on.
LEMMA CrcInvariant == Spec => []CrcInv
<1>1. Init => CrcInv
  BY CodingAssumption DEF Init, BuildInit, CrcInv, Total, Word, Low
<1>2. ASSUME CrcInv, [Next]_vars PROVE CrcInv'
  <2>1. CASE BlockBit
    BY <1>2, <2>1, CrcStep1
  <2>2. CASE CrcBit
    BY <1>2, <2>2, CrcStep2
  <2>3. CASE EndCrc \/ NidRow \/ EndNid \/ CodeDibit \/ Start
    BY <2>3 DEF EndCrc, NidRow, EndNid, CodeDibit, Start, EndCode, CrcInv
  <2>4. CASE Air \/ UNCHANGED vars
    BY <1>2, <2>4 DEF Air, vars, CrcInv
  <2> QED BY <1>2, <2>1, <2>2, <2>3, <2>4 DEF Next, Build
<1> QED BY <1>1, <1>2, PTL DEF Spec

\* The remainder explains the difference, whatever is going on.
LEMMA BurstInvariant ==
  ASSUME ErrorBurst <= 16
  PROVE  Spec => []BurstInv
<1>1. Init => BurstInv
  <2> SUFFICES ASSUME Init PROVE BurstInv
    OBVIOUS
  <2>1. n = 0 /\ tx = {} /\ rx = {} /\ first = Total /\ refused = FALSE
    BY DEF Init, BuildInit
  <2> QED BY <2>1, BurstStart DEF BurstInv
<1>2. ASSUME BurstInv, [Next]_vars PROVE BurstInv'
  <2>1. CASE BlockBit
    BY <1>2, <2>1, BurstStep1
  <2>2. CASE CrcBit
    BY <1>2, <2>2, BurstStep2
  <2>3. CASE EndCrc \/ NidRow \/ EndNid \/ CodeDibit \/ Start
    BY <2>3 DEF EndCrc, NidRow, EndNid, CodeDibit, Start, EndCode, BurstInv
  <2>4. CASE Air \/ UNCHANGED vars
    BY <1>2, <2>4 DEF Air, vars, BurstInv, Remainder, Explains
  <2> QED BY <1>2, <2>1, <2>2, <2>3, <2>4 DEF Next, Build
<1> QED BY <1>1, <1>2, PTL DEF Spec

\* The doubts stay where the fade is.
LEMMA CodeInvariant ==
  ASSUME Fade <= 24
  PROVE  Spec => []CodeInv
<1>1. Init => CodeInv
  BY DEF Init, BuildInit, CodeInv
<1>2. ASSUME CodeInv, [Next]_vars PROVE CodeInv'
  <2>1. CASE BlockBit \/ CrcBit \/ EndCrc
    <3>1. /\ stage = "crc"
          /\ stage' = "crc" \/ (stage' = "nid" /\ n' = 0)
          /\ sent' = sent /\ guess' = guess /\ apart' = apart /\ costly' = costly
      BY <2>1 DEF BlockBit, CrcBit, EndCrc
    <3> QED BY <1>2, <3>1 DEF CodeInv
  <2>2. CASE NidRow \/ EndNid
    BY <1>2, <2>2 DEF NidRow, EndNid, CodeInv
  <2>3. CASE CodeDibit
    BY <1>2, <2>3, CodeStep
  <2>4. CASE Start
    BY <2>4 DEF Start, EndCode, CodeInv
  <2>5. CASE Air \/ UNCHANGED vars
    BY <1>2, <2>5 DEF Air, vars, CodeInv, Doubt, Whole, Received, Half
  <2> QED BY <1>2, <2>1, <2>2, <2>3, <2>4, <2>5 DEF Next, Build
<1> QED BY <1>1, <1>2, PTL DEF Spec

\* Sender and decoder keep step, whatever is damaged.
LEMMA FrameInvariant ==
  ASSUME Spaced
  PROVE  Spec => []FrameInv
<1>1. Init => FrameInv
  BY DEF Init, BuildInit, FrameInv
<1>2. ASSUME FrameInv, [Next]_vars PROVE FrameInv'
  <2>1. CASE (Build /\ UNCHANGED <<sendVars, readVars>>)
    <3>1. stage # "air" /\ stage' # "air"
      BY <2>1 DEF Build, BlockBit, CrcBit, EndCrc, NidRow, EndNid, CodeDibit
    <3> QED BY <1>2, <2>1, <3>1 DEF FrameInv
  <2>2. CASE Start
    <3>1. /\ stage = "code" /\ stage' = "air" /\ stream' \in Streams /\ hurt' \in BOOLEAN
          /\ UNCHANGED <<at, i, remaining, owed, hurtBefore, readVars>>
      BY <2>2 DEF Start, EndCode
    <3>2. /\ at' = 1 /\ i' = 1 /\ remaining' = 5 /\ ~owed' /\ hurtBefore' = TRUE
          /\ mode' = "hunt" /\ matched' = 0 /\ ~wrong' /\ ~missed'
      BY <1>2, <3>1, FrameSize DEF FrameInv
    <3>3. Len(stream') \in Nat \ {0}
      BY <3>1, FrameAssumption
    <3>4. Pos' = 0 /\ SendInv'
      BY <3>1, <3>2 DEF Pos, SendInv, StatusSent
    <3>5. ReadInv' /\ TrackInv'
      BY <3>2, <3>4 DEF ReadInv, TrackInv
    <3> QED BY <3>1, <3>2, <3>3, <3>4, <3>5 DEF FrameInv
  <2>3. CASE Air
    <3>1. stage = "air" /\ stage' = "air" /\ Send
      BY <2>3 DEF Air
    <3>2. SendInv /\ ReadInv /\ TrackInv /\ ~wrong /\ ~missed /\ stream \in Streams
          /\ at \in 1 .. Len(stream)
      BY <1>2, <3>1 DEF FrameInv
    <3>3. SendInv' /\ stream' = stream /\ (More \/ Turn)
      BY <3>1, <3>2, Sends
    <3>4. ReadStep
      BY <3>2, <3>3 DEF ReadStep
    <3>5. ReadInv' /\ ~wrong'
      BY <2>3, <3>4, HuntStep, NidStep, BlockStep, TduStep DEF Air
    <3>6. TrackInv' /\ ~missed'
      BY <2>3, <3>2, <3>4, TrackStep
    <3>7. at' \in 1 .. Len(stream')
      <4>1. Len(stream) \in Nat \ {0}
        BY <3>2, FrameAssumption
      <4> QED BY <3>2, <3>3, <4>1 DEF More, Turn
    <3> QED BY <3>1, <3>2, <3>3, <3>5, <3>6, <3>7 DEF FrameInv
  <2>4. CASE UNCHANGED vars
    BY <1>2, <2>4 DEF vars, FrameInv, SendInv, ReadInv, TrackInv, Due, Pos, StatusSent
  <2> QED BY <1>2, <2>1, <2>2, <2>3, <2>4 DEF Next
<1> QED BY <1>1, <1>2, PTL DEF Spec

\* A block that no error hit is never refused: the sender's 32-bit register and
\* the receiver's 16-bit one give the same checksum of a block of any length.
CleanAccepted == stage = "crc" /\ n = Total /\ first = Total => ~refused
THEOREM CleanIsAccepted == Spec => []CleanAccepted
<1>1. CrcInv => CleanAccepted
  BY DEF CrcInv, CleanAccepted
<1> QED BY <1>1, CrcInvariant, PTL

\* A block is refused if, and only if, an error burst of up to 16 bits hit it or
\* its checksum: whatever the length of the block.
THEOREM BurstIsRefused ==
  ASSUME ErrorBurst <= 16
  PROVE  Spec => []CrcExact
<1>1. CrcInv /\ BurstInv => CrcExact
  <2> SUFFICES ASSUME CrcInv, BurstInv, stage = "crc", n = Total PROVE refused <=> first # Total
    BY DEF CrcExact
  <2>1. first = Total => ~refused
    BY DEF CrcInv
  <2>2. ASSUME ~refused PROVE first = Total
    <3> DEFINE d == SymDiff(Low(tx, 16), rx)
    <3>1. PICK a \in SUBSET Word(16) : Remainder(a) /\ Explains(a)
      BY DEF BurstInv
    <3>2. Up(d, 16) = Step16(a)
      BY <2>2, <3>1, CodingAssumption DEF Explains, Total
    <3>3. d \subseteq Word(16)
      BY DEF BurstInv, SymDiff, Low
    <3> HIDE DEF d
    <3>4. Up(d, 16) = {}
      BY <3>3 DEF Up, Word
    <3> QED BY <3>1, <3>2, <3>4, Step16Loses DEF Remainder
  <2> QED BY <2>1, <2>2
<1> QED BY <1>1, CrcInvariant, BurstInvariant, PTL

\* Whatever the NAC, the decoder finds the data at the head of the codeword and
\* the parity bit it expects; and two NIDs differ in 23 of the other bits, whatever
\* the site's NAC and the other's: the code is linear, so its least weight is its
\* least distance.
THEOREM NidsAreSeparated ==
  ASSUME LeastWeight
  PROVE  Spec => []NidSeparated
<1>1. NidInv => NidSeparated
  <2> SUFFICES ASSUME NidInv, stage = "nid", n = 16
               PROVE  /\ Field(codeword, 48, 16) = data /\ 0 \notin codeword
                      /\ data # other => Cardinality(SymDiff(codeword, rival) \ {0}) >= 23
    BY DEF NidSeparated
  <2> DEFINE d == SymDiff(data, other)
  <2>1. /\ Part(data, 16) /\ codeword = CodewordOf(data, BchColumns)
        /\ Part(other, 16) /\ rival = CodewordOf(other, BchColumns)
    BY DEF NidInv
  <2>2. Field(codeword, 48, 16) = data /\ 0 \notin codeword
    BY <2>1, HeadOfCodeword
  <2>3. ASSUME data # other
        PROVE  Cardinality(SymDiff(codeword, rival) \ {0}) >= 23
    <3>1. SymDiff(codeword, rival) = CodewordOf(d, BchColumns)
      BY <2>1, Linear DEF Part
    <3>2. d # {}
      BY <2>3 DEF SymDiff
    <3>3. ASSUME NEW j \in d PROVE j \in {2} \cup 4 .. 15
      <4>1. j \in Word(16) /\ j \notin {0, 1, 3}
        BY <2>1 DEF Part, SymDiff
      <4>2. j \in 0 .. 15 /\ j # 0 /\ j # 1 /\ j # 3
        BY <4>1 DEF Word
      <4>3. j = 2 \/ j \in 4 .. 15
        BY <4>2
      <4> QED BY <4>3, Zenon
    <3>4. d \in Differences
      BY <3>2, <3>3 DEF Differences
    <3>5. Cardinality(CodewordOf(d, BchColumns) \ {0}) >= 23
      BY <3>4, Zenon DEF LeastWeight
    <3> QED BY <3>1, <3>5
  <2> QED BY <2>2, <2>3
<1> QED BY <1>1, NidInvariant, PTL

\* After a fade of up to 24 dibits one message fits what was received.
THEOREM FadeIsSurvived ==
  ASSUME Fade <= 24
  PROVE  Spec => []BlockDetermined
<1>1. CodeInv => BlockDetermined
  <2> SUFFICES ASSUME CodeInv, stage = "code" PROVE BlockDetermined
    BY DEF BlockDetermined
  <2>1. ASSUME n < 49
        PROVE  SourceOf(ChannelOf(n)) = n /\ \A d \in 0 .. 3 : Encoded(sent, d) = Expected(sent, d)
    <3>1. n \in 0 .. 48 /\ sent \in 0 .. 3
      BY <2>1 DEF CodeInv
    <3>2. SourceOf(ChannelOf(n)) = n
      BY <3>1, Places
    <3>3. ASSUME NEW d \in 0 .. 3 PROVE Encoded(sent, d) = Expected(sent, d)
      BY <3>1, PairsDiffer
    <3> QED BY <3>2, <3>3
  <2>2. n = 49 /\ apart => costly
    BY DEF CodeInv, Doubt
  <2> QED BY <2>1, <2>2 DEF BlockDetermined
<1> QED BY <1>1, CodeInvariant, PTL

\* The decoder counts right in every stream of frames in which TSBKs stand
\* apart or nothing else is sent, whatever is damaged: no dibit is taken for
\* another, and no block is missed that need not be.
THEOREM BlocksAreFound ==
  ASSUME Spaced
  PROVE  Spec => []BlocksFound
<1>1. FrameInv => BlocksFound
  BY DEF FrameInv, BlocksFound
<1> QED BY <1>1, FrameInvariant, PTL
=============================================================================
