------------------------------ MODULE SoapyTx ------------------------------
(***************************************************************************)
(* SoapyTx (src/tx/SoapyTx.cpp): the byte ring between one producer and    *)
(* the transmit thread, and the life cycle of that thread and of the SDR   *)
(* device under the calls of the GUI thread.                               *)
(*                                                                         *)
(* Three threads run.  The producer calls write(), which waits for room,   *)
(* copies its block into the ring byte by byte and then publishes m_wpos.  *)
(* The transmit thread measures what is pending, copies it out byte by     *)
(* byte, publishes m_rpos and hands a chunk to the device, or throws the   *)
(* bytes away when no device was open as it started.  The GUI thread       *)
(* starts and stops it and selects devices.                                *)
(*                                                                         *)
(* The ring never looks at a byte, so a byte is the position it has in the *)
(* stream of all bytes written, from 1; Silence is the 0 of a fresh ring   *)
(* and of padding.  sent and got are history variables: how many bytes     *)
(* have been published and consumed since the program started.             *)
(***************************************************************************)
EXTENDS Integers, Sequences

CONSTANTS
  RingSize,     \* kRingSize
  ChunkBytes,   \* kChunkBytes, which is also trash.size()
  BlockSizes,   \* sizes n the producer passes to write()
  MaxBytes      \* bound of the model: bytes written in a behaviour

ASSUME RingAssumption ==
  /\ RingSize \in Nat \ {0}
  /\ ChunkBytes \in Nat \ {0}
  /\ BlockSizes \subseteq 1 .. RingSize - 1
  /\ MaxBytes \in Nat

Silence == 0

VARIABLES
  ring, wpos, rpos,          \* m_ring, m_wpos, m_rpos
  wpc, block, w, copied,     \* producer in write(): its place, n, w and i
  txpc, hw, want, r, taken, buf, \* transmit thread: its place, branch, locals
  running, device,           \* m_running; m_device and m_stream not null
  guipc,                     \* GUI thread: place inside stopTx, close, open
  sent, got                  \* history: bytes published, bytes consumed

ringVars   == <<ring, wpos, rpos, sent, got>>
writerVars == <<wpc, block, w, copied>>
txVars     == <<txpc, hw, want, r, taken, buf>>
guiVars    == <<running, device, guipc>>
vars       == <<ringVars, writerVars, txVars, guiVars>>

TypeOK ==
  /\ ring \in [0 .. RingSize - 1 -> 0 .. MaxBytes]
  /\ wpos \in 0 .. RingSize - 1 /\ rpos \in 0 .. RingSize - 1
  /\ wpc \in {"idle", "wait", "copy"}
  /\ block \in BlockSizes \cup {0}
  /\ w \in 0 .. RingSize - 1 /\ copied \in 0 .. RingSize
  /\ txpc \in {"none", "spawned", "test", "measure", "read", "send", "done"}
  /\ hw \in BOOLEAN
  /\ want \in 0 .. ChunkBytes /\ taken \in 0 .. ChunkBytes
  /\ r \in 0 .. RingSize - 1
  /\ buf \in [1 .. ChunkBytes -> 0 .. MaxBytes]
  /\ running \in BOOLEAN /\ device \in BOOLEAN
  /\ guipc \in {"idle", "stopJoin", "closeJoin", "release", "open"}
  /\ sent \in 0 .. MaxBytes /\ got \in 0 .. MaxBytes

\* ringAvailable(): both positions loaded, whatever the calling thread
RingAvailable == (wpos - rpos + RingSize) % RingSize

Init ==
  /\ ring = [i \in 0 .. RingSize - 1 |-> Silence]
  /\ wpos = 0 /\ rpos = 0 /\ sent = 0 /\ got = 0
  /\ wpc = "idle" /\ block = 0 /\ w = 0 /\ copied = 0
  /\ txpc = "none" /\ hw = FALSE /\ want = 0 /\ r = 0 /\ taken = 0
  /\ buf = [i \in 1 .. ChunkBytes |-> Silence]
  /\ running = FALSE /\ device \in BOOLEAN /\ guipc = "idle"

-----------------------------------------------------------------------------
(* The producer: write(), which runs ringWrite().                          *)

BeginWrite(n) ==
  /\ wpc = "idle"
  /\ sent + n <= MaxBytes
  /\ wpc' = "wait" /\ block' = n
  /\ UNCHANGED <<w, copied, ringVars, txVars, guiVars>>

\* Mutants of FindRoom: a full ring is allowed; one slot too many is kept free.
FindRoomFull ==
  /\ wpc = "wait" /\ RingAvailable + block <= RingSize
  /\ wpc' = "copy" /\ w' = wpos /\ copied' = 0
  /\ UNCHANGED <<block, ringVars, txVars, guiVars>>

FindRoomTight ==
  /\ wpc = "wait" /\ RingAvailable + block < RingSize - 1
  /\ wpc' = "copy" /\ w' = wpos /\ copied' = 0
  /\ UNCHANGED <<block, ringVars, txVars, guiVars>>

\* The spin of write() ends, and ringWrite() loads m_wpos.
FindRoom ==
  /\ wpc = "wait"
  /\ RingAvailable + block < RingSize
  /\ wpc' = "copy" /\ w' = wpos /\ copied' = 0
  /\ UNCHANGED <<block, ringVars, txVars, guiVars>>

CopyIn ==
  /\ wpc = "copy" /\ copied < block
  /\ ring' = [ring EXCEPT ![w] = sent + copied + 1]
  /\ w' = (w + 1) % RingSize
  /\ copied' = copied + 1
  /\ UNCHANGED <<wpc, block, wpos, rpos, sent, got, txVars, guiVars>>

PublishWrite ==
  /\ wpc = "copy" /\ copied = block
  /\ wpos' = w /\ sent' = sent + block
  /\ wpc' = "idle"
  /\ UNCHANGED <<block, w, copied, ring, rpos, got, txVars, guiVars>>

Writer == (\E n \in BlockSizes : BeginWrite(n)) \/ FindRoom \/ CopyIn \/ PublishWrite

-----------------------------------------------------------------------------
(* The transmit thread: txThread(), both of its loops.                     *)

\* if (!m_stream || !m_device): the branch is chosen once.
Enter ==
  /\ txpc = "spawned"
  /\ txpc' = "test" /\ hw' = device
  /\ buf' = [i \in 1 .. ChunkBytes |-> Silence]
  /\ UNCHANGED <<want, r, taken, ringVars, writerVars, guiVars>>

\* Mutant: the loop without hardware does not test m_running.
TestRunningOnAir ==
  /\ txpc = "test"
  /\ txpc' = IF running \/ ~hw THEN "measure" ELSE "done"
  /\ UNCHANGED <<hw, want, r, taken, buf, ringVars, writerVars, guiVars>>

TestRunning ==
  /\ txpc = "test"
  /\ txpc' = IF running THEN "measure" ELSE "done"
  /\ UNCHANGED <<hw, want, r, taken, buf, ringVars, writerVars, guiVars>>

\* Mutant: less than a chunk is left.
PortionWhole == IF RingAvailable >= ChunkBytes THEN ChunkBytes ELSE 0

\* What this turn will take: a chunk at most, a part of one on underrun.
Portion == IF RingAvailable >= ChunkBytes THEN ChunkBytes ELSE RingAvailable

Measure ==
  /\ txpc = "measure"
  /\ want' = Portion /\ taken' = 0 /\ r' = rpos
  /\ txpc' = CASE Portion > 0 -> "read"
               [] Portion = 0 /\ hw -> "send"
               [] OTHER -> "test"
  /\ UNCHANGED <<hw, buf, ringVars, writerVars, guiVars>>

CopyOut ==
  /\ txpc = "read" /\ taken < want
  /\ buf' = IF hw THEN [buf EXCEPT ![taken + 1] = ring[r]] ELSE buf
  /\ r' = (r + 1) % RingSize
  /\ taken' = taken + 1
  /\ UNCHANGED <<txpc, hw, want, ringVars, writerVars, guiVars>>

\* Mutant: the reader catches up with the writer instead of with itself.
PublishReadToWriter ==
  /\ txpc = "read" /\ taken = want
  /\ rpos' = wpos /\ got' = got + want
  /\ txpc' = IF hw THEN "send" ELSE "test"
  /\ UNCHANGED <<ring, wpos, sent, hw, want, r, taken, buf, writerVars, guiVars>>

PublishRead ==
  /\ txpc = "read" /\ taken = want
  /\ rpos' = r /\ got' = got + want
  /\ txpc' = IF hw THEN "send" ELSE "test"
  /\ UNCHANGED <<ring, wpos, sent, hw, want, r, taken, buf, writerVars, guiVars>>

\* Mutant: the rest of the chunk is not cleared on underrun.
OutgoingUnpadded == buf

\* The chunk for writeStream(): the bytes read, zero padded.
Outgoing == [i \in 1 .. ChunkBytes |-> IF i <= want THEN buf[i] ELSE Silence]

\* writeStream(); its result is ignored.
Send ==
  /\ txpc = "send"
  /\ buf' = Outgoing
  /\ txpc' = "test"
  /\ UNCHANGED <<hw, want, r, taken, ringVars, writerVars, guiVars>>

TxThread == Enter \/ TestRunning \/ Measure \/ CopyOut \/ PublishRead \/ Send

-----------------------------------------------------------------------------
(* The GUI thread: startTx(), stopTx() and the Device menu, which calls    *)
(* close() and then open().                                                *)

StartTx ==
  /\ guipc = "idle" /\ ~running
  /\ running' = TRUE
  /\ txpc' = "spawned"
  /\ UNCHANGED <<guipc, device, hw, want, r, taken, buf, ringVars, writerVars>>

StopTx ==
  /\ guipc = "idle" /\ running
  /\ running' = FALSE
  /\ guipc' = "stopJoin"
  /\ UNCHANGED <<device, ringVars, writerVars, txVars>>

\* Mutant: close() does not stop the transmit thread.
CloseRunning ==
  /\ guipc = "idle"
  /\ guipc' = "release"
  /\ UNCHANGED <<running, device, ringVars, writerVars, txVars>>

\* close() begins with stopTx().
Close ==
  /\ guipc = "idle"
  /\ running' = FALSE
  /\ guipc' = IF running THEN "closeJoin" ELSE "release"
  /\ UNCHANGED <<device, ringVars, writerVars, txVars>>

Join ==
  /\ guipc \in {"stopJoin", "closeJoin"}
  /\ txpc = "done"
  /\ txpc' = "none"
  /\ guipc' = IF guipc = "stopJoin" THEN "idle" ELSE "release"
  /\ UNCHANGED <<running, device, hw, want, r, taken, buf, ringVars, writerVars>>

\* closeStream() and unmake(), if a device is open.
Release ==
  /\ guipc = "release"
  /\ device' = FALSE
  /\ guipc' = "open"
  /\ UNCHANGED <<running, ringVars, writerVars, txVars>>

\* open() succeeds, or fails and leaves m_device null.
Open ==
  /\ guipc = "open"
  /\ device' \in BOOLEAN
  /\ guipc' = "idle"
  /\ UNCHANGED <<running, ringVars, writerVars, txVars>>

Gui == StartTx \/ StopTx \/ Close \/ Join \/ Release \/ Open

Next == Writer \/ TxThread \/ Gui

Spec == Init /\ [][Next]_vars

(***************************************************************************)
(* The scheduler runs a thread that can run: the producer once it is in    *)
(* write(), the transmit thread, and the GUI thread inside a call.  What   *)
(* the GUI does next, and whether the producer writes again, is free.      *)
(***************************************************************************)
Fairness ==
  /\ WF_vars(FindRoom \/ CopyIn \/ PublishWrite)
  /\ WF_vars(TxThread)
  /\ WF_vars(Join \/ Release \/ Open)

FairSpec == Spec /\ Fairness

-----------------------------------------------------------------------------
(* What the ring must keep true.                                           *)

\* The bytes between m_rpos and m_wpos are exactly the ones published and not
\* consumed, in order: ringWrite() never reaches a byte the transmit thread
\* has not finished with, and a full ring is never taken for an empty one.
UnreadIntact ==
  /\ RingAvailable = sent - got
  /\ \A k \in 1 .. sent - got : ring[(rpos + k - 1) % RingSize] = got + k

\* A chunk handed to the device holds the next bytes of the stream and then
\* only silence: no byte torn, skipped or played twice, and on underrun
\* nothing left over from the previous chunk.
ChunkInOrder ==
  txpc = "send" =>
    \A i \in 1 .. ChunkBytes :
      Outgoing[i] = IF i <= want THEN got - want + i ELSE Silence

\* startTx() never assigns over a thread object that still owns a thread,
\* which would terminate the program.
NoThreadReplaced == (guipc = "idle" /\ ~running) => txpc = "none"

\* The device is only closed, opened or replaced while no transmit thread
\* exists that could be inside writeStream() on it.
DeviceHeld == [][device' # device => txpc = "none"]_vars

\* A write() that waits for room gets it as long as the transmit thread runs.
WriteCompletes == (wpc = "wait") ~> (wpc # "wait" \/ ~running)

\* stopTx() and close() return, however the ring is filled.
StopReturns == (guipc # "idle") ~> (guipc = "idle")

\* While the transmit thread runs, every published byte leaves the ring.
EverythingRead == \A k \in 1 .. MaxBytes : (sent >= k) ~> (got >= k \/ ~running)

\* The ring implements the abstract stream: a block enters it when m_wpos is
\* published and bytes leave it when m_rpos is.
Stream == INSTANCE SampleStream WITH
  Capacity   <- RingSize,
  MaxTake    <- ChunkBytes,
  MaxSamples <- MaxBytes,
  pending    <- [k \in 1 .. RingAvailable |-> ring[(rpos + k - 1) % RingSize]],
  count      <- sent

ImplementsStream == Stream!Spec
=============================================================================
