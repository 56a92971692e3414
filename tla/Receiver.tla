------------------------------ MODULE Receiver ------------------------------
(***************************************************************************)
(* What its callers may expect of the receive pipeline: start() and stop() *)
(* as single steps, a stop() that waits for the engine, and an engine that *)
(* may end at any time and is then seen as stopped.                        *)
(*                                                                         *)
(* RxPipeline implements this with three threads; Site relies on it.       *)
(***************************************************************************)

VARIABLES
  engine,   \* "none", "live", or "ended" and not joined
  shown,    \* whether the pipeline says that it runs
  caller    \* "free", "waiting" in stop(), or "terminated"

vars == <<engine, shown, caller>>

TypeOK ==
  /\ engine \in {"none", "live", "ended"}
  /\ shown \in BOOLEAN
  /\ caller \in {"free", "waiting", "terminated"}

Init == engine = "none" /\ shown = FALSE /\ caller = "free"

Start ==
  /\ caller = "free" /\ ~shown
  /\ engine = "none" /\ engine' = "live"
  /\ shown' = TRUE
  /\ UNCHANGED caller

\* Starting again, or destroying the pipeline, over an engine that ended by itself.
Replace ==
  /\ caller = "free" /\ ~shown
  /\ engine = "ended"
  /\ caller' = "terminated"
  /\ UNCHANGED <<engine, shown>>

Stop ==
  /\ caller = "free" /\ shown
  /\ shown' = FALSE
  /\ caller' = "waiting"
  /\ UNCHANGED engine

Return ==
  /\ caller = "waiting"
  /\ engine = "ended" /\ engine' = "none"
  /\ caller' = "free"
  /\ UNCHANGED shown

End ==
  /\ caller # "terminated"
  /\ engine = "live" /\ engine' = "ended"
  /\ shown' = FALSE
  /\ UNCHANGED caller

Next == Start \/ Replace \/ Stop \/ Return \/ End

Spec == Init /\ [][Next]_vars
=============================================================================
