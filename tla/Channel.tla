------------------------------- MODULE Channel -------------------------------
(***************************************************************************)
(* What its callers may expect of the control channel: a configuration     *)
(* that only changes while nothing is on the air, and messages that are    *)
(* built from it whenever something is.                                    *)
(*                                                                         *)
(* ControlChannel implements this with its producer thread; Site relies on *)
(* it.                                                                     *)
(***************************************************************************)

CONSTANT
  Configs   \* values of SiteConfig

VARIABLES
  on,       \* a producer exists
  cfg,      \* its configuration
  built     \* the configuration its messages were built from

vars == <<on, cfg, built>>

TypeOK == on \in BOOLEAN /\ cfg \in Configs /\ built \in Configs

Init == on = FALSE /\ cfg \in Configs /\ built = cfg

Start == ~on /\ on' = TRUE /\ built' = cfg /\ UNCHANGED cfg

Stop == on /\ on' = FALSE /\ UNCHANGED <<cfg, built>>

\* configure(), or, at the end of Apply, configure() and start().
Configure ==
  /\ ~on
  /\ cfg' \in Configs
  /\ \/ UNCHANGED <<on, built>>
     \/ on' = TRUE /\ built' = cfg'

Next == Start \/ Stop \/ Configure

Spec == Init /\ [][Next]_vars
=============================================================================
