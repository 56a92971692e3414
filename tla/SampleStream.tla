--------------------------- MODULE SampleStream ---------------------------
(***************************************************************************)
(* What the transmit ring of SoapyTx promises its producer and its         *)
(* transmit thread: an unbroken stream of samples.  Blocks go in whole,    *)
(* samples come out in the order in which they went in, none is lost,      *)
(* repeated or torn, and fewer than Capacity are ever pending.             *)
(*                                                                         *)
(* A sample is identified by its position in the stream, counted from 1.   *)
(***************************************************************************)
EXTENDS Integers, Sequences

CONSTANTS
  Capacity,     \* pending samples stay below this number
  BlockSizes,   \* sizes of the blocks a producer may put
  MaxTake,      \* most samples one read takes
  MaxSamples    \* bound of the model: samples put in a behaviour

VARIABLES
  pending,      \* samples put and not yet taken, oldest first
  count         \* samples put so far

vars == <<pending, count>>

TypeOK ==
  /\ pending \in Seq(1 .. MaxSamples)
  /\ count \in 0 .. MaxSamples

Init ==
  /\ pending = << >>
  /\ count = 0

Put(n) ==
  /\ Len(pending) + n < Capacity
  /\ count + n <= MaxSamples
  /\ pending' = pending \o [i \in 1 .. n |-> count + i]
  /\ count' = count + n

Take(n) ==
  /\ n <= Len(pending)
  /\ pending' = SubSeq(pending, n + 1, Len(pending))
  /\ UNCHANGED count

Next ==
  \/ \E n \in BlockSizes : Put(n)
  \/ \E n \in 1 .. MaxTake : Take(n)

Spec == Init /\ [][Next]_vars
=============================================================================
