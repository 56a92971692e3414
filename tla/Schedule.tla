------------------------------ MODULE Schedule ------------------------------
(***************************************************************************)
(* What the control channel promises a radio that listens to it: the       *)
(* system messages in their order, over and over, fewer than BurstLen      *)
(* responses in a row between two of them, and every response once, first  *)
(* come, first served.  Only a restart begins the order anew.              *)
(***************************************************************************)
EXTENDS Integers, Sequences

CONSTANTS
  BurstLen,      \* number of system messages, and of messages in a burst
  QueueCap,      \* responses that may wait
  MaxResponses   \* bound of the model: responses accepted in a behaviour

VARIABLES
  waiting,       \* responses accepted and not yet aired, oldest first
  accepted,      \* responses accepted so far; a response is its number
  due,           \* the system message that is aired next
  left           \* responses that may be aired before it

vars == <<waiting, accepted, due, left>>

TypeOK ==
  /\ waiting \in Seq(1 .. MaxResponses)
  /\ accepted \in 0 .. MaxResponses
  /\ due \in 0 .. BurstLen - 1 /\ left \in 0 .. BurstLen - 1

Init == waiting = << >> /\ accepted = 0 /\ due = 0 /\ left = 0

\* One more than the queue holds may wait, the one that is just being aired.
Accept ==
  /\ Len(waiting) <= QueueCap /\ accepted < MaxResponses
  /\ accepted' = accepted + 1
  /\ waiting' = Append(waiting, accepted')
  /\ UNCHANGED <<due, left>>

AirSystem ==
  /\ due' = (due + 1) % BurstLen
  /\ left' \in 0 .. BurstLen - 1
  /\ UNCHANGED <<waiting, accepted>>

AirResponse ==
  /\ waiting # << >> /\ left > 0
  /\ waiting' = Tail(waiting)
  /\ left' = left - 1
  /\ UNCHANGED <<accepted, due>>

Restart ==
  /\ due' = 0 /\ left' = 0
  /\ UNCHANGED <<waiting, accepted>>

Next == Accept \/ AirSystem \/ AirResponse \/ Restart

Spec == Init /\ [][Next]_vars
=============================================================================
