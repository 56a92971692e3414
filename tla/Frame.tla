-------------------------------- MODULE Frame --------------------------------
(***************************************************************************)
(* Frames on the air.  BuildFrame() and BuildTDUFrame() make frames of 154 *)
(* dibits: synchronization, network identifier, block, each made as Coding *)
(* says.  insertStatusSymbols() puts a status symbol after every 35 and    *)
(* fills the frame up.  The frames follow each other without a gap: the    *)
(* control channel sends a TSBK and a TDU in turn, subscriber_test the     *)
(* same TSBK again and again.                                              *)
(*                                                                         *)
(* The decoder knows where the status symbols are by counting.  It reads   *)
(* up to three blocks, until one says that it is the last, and does not    *)
(* ask whether that block was damaged.  A frame may be damaged anywhere;   *)
(* the search for the synchronization and what a damaged frame decodes to  *)
(* are left open.  A dibit on the air is the place in the frame it has.    *)
(***************************************************************************)
EXTENDS Coding

CONSTANT Streams    \* the orders of frames: sequences of "TSBK" and "TDU"

ASSUME FrameAssumption == Streams \subseteq Seq({"TSBK", "TDU"}) \ {<< >>}

SyncDibits  == 24
NidDibits   == 32
BlockDibits == 98
DataDibits  == SyncDibits + NidDibits + BlockDibits
NumSS       == (DataDibits + 34) \div 35

VARIABLES
  stream, at,          \* the order of frames, the one being sent
  i, remaining, owed,  \* insertStatusSymbols(): its loop, a status symbol is next
  hurt, hurtBefore,    \* this frame is damaged, the one before was
  mode,      \* the decoder: "hunt", "nid", "TSBK", "TDU"
  matched,   \* dibits of a synchronization found
  count,     \* symbols of the NID, the block or the TDU read
  got,       \* dibits of the block among them
  skip,      \* skipdibit
  block,     \* which block of the TSBK
  found,     \* history: this frame's block was decoded
  missed,    \* history: a block was not decoded that should have been
  wrong      \* history: a dibit was taken for another

sendVars == <<stream, at, i, remaining, owed, hurt, hurtBefore>>
readVars == <<mode, matched, count, got, skip, block, found, missed, wrong>>
vars     == <<buildVars, sendVars, readVars>>

TypeOK ==
  /\ stage \in {"crc", "nid", "code", "air"}
  /\ at \in 1 .. Len(stream) /\ i \in 1 .. 180 /\ remaining \in 0 .. NumSS
  /\ mode \in {"hunt", "nid", "TSBK", "TDU"} /\ matched \in 0 .. SyncDibits - 1
  /\ count \in 0 .. 100 /\ got \in 0 .. BlockDibits /\ skip \in 0 .. 36 /\ block \in 1 .. 3

Init ==
  /\ BuildInit
  /\ stream = <<"TSBK">> /\ at = 1 /\ i = 1 /\ remaining = NumSS /\ owed = FALSE
  /\ hurt = TRUE /\ hurtBefore = TRUE
  /\ mode = "hunt" /\ matched = 0 /\ count = 0 /\ got = 0 /\ skip = 0 /\ block = 1
  /\ found = FALSE /\ missed = FALSE /\ wrong = FALSE

\* The first frame goes out.
Start ==
  /\ EndCode
  /\ stream' \in Streams /\ hurt' \in BOOLEAN
  /\ UNCHANGED <<at, i, remaining, owed, hurtBefore, readVars>>

-----------------------------------------------------------------------------
(* The sender.                                                             *)

Dibit(k)  == [kind |-> "data", at |-> k]
Status    == [kind |-> "status", at |-> 0]
Padding   == [kind |-> "pad", at |-> 0]

Symbol == IF owed THEN Status ELSE IF i <= DataDibits THEN Dibit(i - 1) ELSE Padding

\* Mutant: the frame ends with its data.
CompleteUnpadded(k, left) == k > DataDibits

\* Both loops of insertStatusSymbols() have ended.
Complete(k, left) == k > DataDibits /\ left = 0

\* The frame goes on, or the next one begins, damaged or not.
Continue(k, left, due) ==
  IF Complete(k, left) /\ ~due
  THEN /\ at' = (at % Len(stream)) + 1
       /\ i' = 1 /\ remaining' = NumSS /\ owed' = FALSE
       /\ hurt' \in BOOLEAN /\ hurtBefore' = hurt
  ELSE /\ i' = k /\ remaining' = left /\ owed' = due
       /\ UNCHANGED <<at, hurt, hurtBefore>>

Send ==
  /\ \/ owed /\ Continue(i, remaining - 1, FALSE)
     \/ ~owed /\ Continue(i + 1, remaining, i % 35 = 0 /\ remaining > 0)
  /\ UNCHANGED stream

-----------------------------------------------------------------------------
(* The decoder.                                                            *)

Hunting == mode' = "hunt" /\ matched' = 0

\* The synchronization is found when all of it was seen; not always in a
\* damaged frame.
Hunt(symbol) ==
  /\ mode = "hunt"
  /\ IF symbol = Dibit(matched)
     THEN \/ /\ matched + 1 < SyncDibits
             /\ matched' = matched + 1 /\ UNCHANGED <<mode, count>>
          \/ /\ matched + 1 = SyncDibits
             /\ mode' = "nid" /\ matched' = 0 /\ count' = 0
          \/ hurt /\ matched' = 0 /\ UNCHANGED <<mode, count>>
     ELSE matched' = (IF symbol = Dibit(0) THEN 1 ELSE 0) /\ UNCHANGED <<mode, count>>
  /\ UNCHANGED <<got, skip, block, wrong>>

\* p25p1_read_nid_fields(): 11 dibits, a status symbol, 21 dibits.  A damaged
\* identifier may be beyond repair.
ReadNid(symbol) ==
  /\ mode = "nid"
  /\ wrong' = (wrong \/ symbol # IF count < 11 THEN Dibit(SyncDibits + count)
                                 ELSE IF count = 11 THEN Status
                                 ELSE Dibit(SyncDibits + count - 1))
  /\ IF count < NidDibits
     THEN count' = count + 1 /\ UNCHANGED <<mode, got, skip, block, matched>>
     ELSE /\ count' = 0 /\ got' = 0 /\ skip' = 36 - 14 /\ block' = 1 /\ matched' = 0
          /\ mode' \in {stream[at]} \cup (IF hurt THEN {"hunt"} ELSE {})

\* tsbk_read_repetition_samples() and the loop of processTSBK().
ReadBlock(symbol) ==
  /\ mode = "TSBK"
  /\ LET taken == skip \div 36 = 0
     IN  /\ wrong' = (wrong \/ (block = 1 /\ symbol # IF taken
                                                      THEN Dibit(SyncDibits + NidDibits + got)
                                                      ELSE Status))
         /\ skip' = IF taken THEN skip + 1 ELSE 1
         /\ IF count < 100
            THEN /\ count' = count + 1 /\ got' = IF taken THEN got + 1 ELSE got
                 /\ UNCHANGED <<mode, block, matched>>
            ELSE /\ count' = 0 /\ got' = 0
                 /\ \E last \in IF block = 1 /\ ~hurt THEN {TRUE} ELSE BOOLEAN :
                      IF last \/ block = 3 THEN Hunting /\ UNCHANGED block
                      ELSE block' = block + 1 /\ UNCHANGED <<mode, matched>>

\* processTDU(): 14 dibits and a status symbol.
ReadTDU(symbol) ==
  /\ mode = "TDU"
  /\ wrong' = (wrong \/ (symbol = Status) # (count = 14))
  /\ IF count < 14 THEN count' = count + 1 /\ UNCHANGED <<mode, matched>>
                   ELSE count' = 0 /\ Hunting
  /\ UNCHANGED <<got, skip, block>>

\* A block that should be decoded: not damaged, and it is no repetition that
\* follows at once on a damaged block.
Due == stream[at] = "TSBK" /\ ~hurt /\ (hurtBefore => Len(stream) > 1)

\* One symbol, sent and read.
Air ==
  /\ stage = "air"
  /\ Send
  /\ Hunt(Symbol) \/ ReadNid(Symbol) \/ ReadBlock(Symbol) \/ ReadTDU(Symbol)
  /\ LET decoded == found \/ (mode = "TSBK" /\ block = 1 /\ count = 100)
     IN  IF i' = 1 THEN found' = FALSE /\ missed' = (missed \/ (Due /\ ~decoded))
                   ELSE found' = decoded /\ UNCHANGED missed
  /\ UNCHANGED buildVars

Next == (Build /\ UNCHANGED <<sendVars, readVars>>) \/ Start \/ Air

Spec == Init /\ [][Next]_vars

-----------------------------------------------------------------------------
(* Properties.                                                             *)

\* The decoder counts right: every dibit it takes is the one it takes it for,
\* every status symbol it drops is one.  And damage does not spread: a block
\* that is read on and on, because it seems not to be the last, ends in time
\* for the next one, a TDU later, and of a repeated block one copy is missed.
BlocksFound == ~wrong /\ ~missed
=============================================================================
