------------------------------- MODULE Coding -------------------------------
(***************************************************************************)
(* The making of a frame, loop by loop: the checksum of the block, the     *)
(* network identifier, the trellis code and the interleaver of             *)
(* src/p25/TSBK.cpp, NID.hpp and Frame.cpp, each beside what the dsd-neo   *)
(* decoder does with the result.  One step is one iteration of a loop.     *)
(* The data are not fixed: every bit and dibit is chosen as it is used, so *)
(* what holds of a step holds for every block.  A stage begins with clean  *)
(* registers, because no stage looks into the work of another.             *)
(*                                                                         *)
(* A word is a set of bit positions, as in Tsbk; a dibit is 0 .. 3.        *)
(***************************************************************************)
EXTENDS Tsbk, FiniteSets, Sequences

CONSTANTS
  BlockBits,    \* bits of a block under the checksum: 80 in the code
  ErrorBurst,   \* bound of the fault: bits from the first wrong one to the last
  Fade,         \* bound of the fault: dibits in a row lost on the channel
  Nac           \* the site's network access code, a word of 12 bits

ASSUME CodingAssumption ==
  /\ BlockBits \in Nat /\ ErrorBurst \in Nat /\ Fade \in Nat
  /\ Nac \subseteq Word(12)

VARIABLES
  stage,     \* "crc", "nid", "code", or "air" when the frame is complete
  n,         \* the loop's counter
  tx, rx,    \* the two CRC registers
  first,     \* first wrong bit, the length of the block if there is none
  refused,   \* the received checksum differs from the computed one
  data, other,        \* two NIDs' data: this frame's, and another one's
  codeword, rival,    \* their codewords
  sent, guess,        \* states of the encoder, and of a path the decoder tries
  lost,      \* first dibit of the fade
  apart,     \* the path differs from what was sent
  costly     \* the path disagrees with a dibit received

crcVars   == <<tx, rx, first, refused>>
nidVars   == <<data, other, codeword, rival>>
codeVars  == <<sent, guess, lost, apart, costly>>
buildVars == <<stage, n, crcVars, nidVars, codeVars>>

SymDiff(a, b) == (a \ b) \cup (b \ a)    \* a ^ b

Total == BlockBits + 16

BuildInit ==
  /\ stage = "crc" /\ n = 0
  /\ tx = {} /\ rx = {} /\ first = Total /\ refused = FALSE
  /\ data = {} /\ other = {} /\ codeword = {} /\ rival = {}
  /\ sent = 0 /\ guess = 0 /\ lost = 0 /\ apart = FALSE /\ costly = FALSE

-----------------------------------------------------------------------------
(* The checksum.                                                           *)

Poly == {0, 5, 12}

\* Mutant: the bit is tested before the shift, as the receiver does.
CrcStepEarly(crc, bit) ==
  LET s == {j \in Word(32) : j - 1 \in crc}
  IN  IF (16 \in crc) # bit THEN SymDiff(s, Poly) ELSE s

\* crcCCITT(): a 32-bit register, never masked, whose bit 16 is tested after
\* the shift.
CrcStep(crc, bit) ==
  LET s == {j \in Word(32) : j - 1 \in crc}
  IN  IF (16 \in s) # bit THEN SymDiff(s, Poly) ELSE s

\* ComputeCrcCCITT16b(): 16 bits, of which bit 15 is tested before the shift.
CheckStep(crc, bit) ==
  LET s == {j \in Word(16) : j - 1 \in crc}
  IN  IF (15 \in crc) # bit THEN SymDiff(s, Poly) ELSE s

\* The channel may turn a bit over, near the first one it turned over.
MayFlip == first = Total \/ n - first < ErrorBurst
Flipped(flip) == IF flip /\ first = Total THEN n ELSE first

BlockBit ==
  /\ stage = "crc" /\ n < BlockBits
  /\ \E bit \in BOOLEAN, flip \in {FALSE, MayFlip} :
       /\ tx' = CrcStep(tx, bit) /\ rx' = CheckStep(rx, bit # flip)
       /\ first' = Flipped(flip)
  /\ n' = n + 1
  /\ UNCHANGED <<stage, refused, nidVars, codeVars>>

\* The low 16 bits are sent inverted; crc16_ok() compares.
CrcBit ==
  /\ stage = "crc" /\ n \in BlockBits .. Total - 1
  /\ \E flip \in {FALSE, MayFlip} :
       LET j == 15 - (n - BlockBits)
       IN  /\ refused' = (refused \/ ((j \notin Low(tx, 16)) # flip) # (j \notin rx))
           /\ first' = Flipped(flip)
  /\ n' = n + 1
  /\ UNCHANGED <<stage, tx, rx, nidVars, codeVars>>

EndCrc ==
  /\ stage = "crc" /\ n = Total
  /\ stage' = "nid" /\ n' = 0
  /\ tx' = {} /\ rx' = {} /\ first' = Total /\ refused' = FALSE
  /\ UNCHANGED <<nidVars, codeVars>>

-----------------------------------------------------------------------------
(* The network identifier.                                                 *)

\* kBchMatrix, in words of 16 bits.
BchMatrix ==
  << <<\h8000, \hcd93, \h0bdd, \h3b2a>>, <<\h4000, \hab5a, \h8e33, \ha6be>>,
     <<\h2000, \h983e, \h4cc4, \he874>>, <<\h1000, \h4c1f, \h2662, \h743a>>,
     <<\h0800, \heb9c, \h98ec, \h0136>>, <<\h0400, \hb85d, \h47ab, \h3bb0>>,
     <<\h0200, \h5c2e, \ha3d5, \h9dd8>>, <<\h0100, \h2e17, \h51ea, \hceec>>,
     <<\h0080, \h170b, \ha8f5, \h6776>>, <<\h0040, \hc616, \hdfa7, \h8890>>,
     <<\h0020, \h630b, \h6fd3, \hc448>>, <<\h0010, \h3185, \hb7e9, \he224>>,
     <<\h0008, \h18c2, \hdbf4, \hf112>>, <<\h0004, \hc1f2, \h6627, \h43a2>>,
     <<\h0002, \had6a, \h38ce, \h9afb>>, <<\h0001, \h9b26, \h17ba, \h7657>> >>

BchRows ==
  [k \in Word(16) |->
     UNION { {b + 16 * (4 - w) : b \in Bits(BchMatrix[k + 1][w])} : w \in 1 .. 4 }]

\* Mutant: the rows are or-ed.
EncodeBCHOr(code, k, bit) == IF bit THEN code \cup BchRows[k] ELSE code

\* encodeBCH(), row k.
EncodeBCH(code, k, bit) == IF bit THEN SymDiff(code, BchRows[k]) ELSE code

\* Bit 15 - k of NAC << 4 | DUID: the DUID is 0011 of a TDU or 0111 of a TSBK.
NidBits(k, nacBits) ==
  CASE k < 12 -> nacBits
    [] k = 12 -> {FALSE}
    [] k = 13 -> BOOLEAN
    [] k > 13 -> {TRUE}

NidRow ==
  /\ stage = "nid" /\ n < 16
  /\ \E bit \in NidBits(n, {11 - n \in Nac}), its \in NidBits(n, BOOLEAN) :
       /\ data'  = data  \cup Flag(bit, {15 - n})
       /\ other' = other \cup Flag(its, {15 - n})
       /\ codeword' = EncodeBCH(codeword, n, bit)
       /\ rival'    = EncodeBCH(rival, n, its)
  /\ n' = n + 1
  /\ UNCHANGED <<stage, crcVars, codeVars>>

\* The fade begins anywhere in the block, or after it.
EndNid ==
  /\ stage = "nid" /\ n = 16
  /\ stage' = "code" /\ n' = 0
  /\ data' = {} /\ other' = {} /\ codeword' = {} /\ rival' = {}
  /\ lost' \in 0 .. 98
  /\ UNCHANGED <<crcVars, sent, guess, apart, costly>>

-----------------------------------------------------------------------------
(* The trellis code and the interleaver: 49 pairs of dibits.               *)

\* kTrellisTable: the pair sent for a dibit in a state; the dibit is the next.
TrellisTable ==
  << << <<0, 2>>, <<3, 0>>, <<0, 1>>, <<3, 3>> >>,
     << <<3, 2>>, <<0, 0>>, <<3, 1>>, <<0, 3>> >>,
     << <<2, 1>>, <<1, 3>>, <<2, 2>>, <<1, 0>> >>,
     << <<1, 1>>, <<2, 3>>, <<1, 2>>, <<2, 0>> >> >>

\* p25_dtm: the pair the decoder expects, as four bits.
Dtm == <<2, 12, 1, 15, 14, 0, 13, 3, 9, 7, 10, 4, 5, 11, 6, 8>>

Encoded(s, d)  == TrellisTable[s + 1][d + 1]
Expected(s, d) == LET e == Dtm[4 * s + d + 1] IN <<e \div 4, e % 4>>

\* Mutant: the pairs are sent in their order.
ChannelOfPlain(k) == k

\* dataInterleave(): where pair k goes.
ChannelOf(k) ==
  IF k % 4 = 0 THEN k \div 4 ELSE 13 + 12 * ((k % 4) - 1) + k \div 4

\* p25_interleave: the pair that arrives in place p.
SourceOf(p) ==
  IF p < 13 THEN 4 * p ELSE 1 + (p - 13) \div 12 + 4 * ((p - 13) % 12)

Received(j) == j \notin lost .. lost + Fade - 1

\* The 49th input is the zero that flushes the encoder.  A path that has cost
\* something is not followed any further.
CodeDibit ==
  /\ stage = "code" /\ n < 49
  /\ \E d \in IF n = 48 THEN {0} ELSE 0 .. 3 : \E e \in IF costly THEN {d} ELSE 0 .. 3 :
       /\ costly' = (costly \/ \E j \in {0, 1} :
                                 /\ Received(2 * ChannelOf(n) + j)
                                 /\ Encoded(sent, d)[j + 1] # Expected(guess, e)[j + 1])
       /\ apart' = (apart \/ (n < 48 /\ d # e))
       /\ sent' = d /\ guess' = e
  /\ n' = n + 1
  /\ UNCHANGED <<stage, crcVars, nidVars, lost>>

EndCode ==
  /\ stage = "code" /\ n = 49
  /\ stage' = "air" /\ n' = 0
  /\ sent' = 0 /\ guess' = 0 /\ lost' = 0 /\ apart' = FALSE /\ costly' = FALSE
  /\ UNCHANGED <<crcVars, nidVars>>

Build == BlockBit \/ CrcBit \/ EndCrc \/ NidRow \/ EndNid \/ CodeDibit

-----------------------------------------------------------------------------
(* Properties.                                                             *)

\* Sender and receiver compute the same checksum, though one keeps 32 bits and
\* the other 16: a block is refused if, and only if, a burst of errors hit it.
CrcExact == stage = "crc" /\ n = Total => (refused <=> first # Total)

\* The decoder finds the data at the head of the codeword and the parity bit it
\* expects of a TSBK and a TDU; and two different NIDs differ in 23 of the 63
\* other bits at least, so that 11 errors turn neither the site's NAC into
\* another's nor its TDU into a TSBK.
NidSeparated ==
  stage = "nid" /\ n = 16 =>
    /\ Field(codeword, 48, 16) = data /\ 0 \notin codeword
    /\ data # other => Cardinality(SymDiff(codeword, rival) \ {0}) >= 23

\* The codeword of some data, in closed form: a bit of it is the parity of those
\* bits of the data whose rows contain it, the bit's column of the matrix.
BchColumn(b) == {i \in Word(16) : b \in BchRows[15 - i]}
BchColumns   == {<<b, BchColumn(b)>> : b \in Word(64)}
CodewordOf(d, columns) ==
  {c[1] : c \in {c \in columns : Cardinality(d \cap c[2]) % 2 = 1}}

\* What two NIDs can differ in: the NAC, and the bit that tells a TSBK from a TDU.
Differences == (SUBSET ({2} \cup 4 .. 15)) \ {{}}

\* The code's least weight, over all of these.
LeastWeight ==
  LET columns == BchColumns
  IN  \A d \in Differences : Cardinality(CodewordOf(d, columns) \ {0}) >= 23

\* The decoder reads the pairs in the order they were made, the path sent costs
\* it nothing, and, after a fade, every path of another message costs something:
\* the interleaver leaves of any two neighbouring pairs one.
BlockDetermined ==
  stage = "code" =>
    /\ n < 49 => /\ SourceOf(ChannelOf(n)) = n
                 /\ \A d \in 0 .. 3 : Encoded(sent, d) = Expected(sent, d)
    /\ n = 49 /\ apart => costly
=============================================================================
