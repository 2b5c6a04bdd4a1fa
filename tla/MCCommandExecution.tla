------------------------- MODULE MCCommandExecution -------------------------
(* Instances of CommandExecution for TLC. *)
EXTENDS CommandExecution, TLC

CONSTANTS c1, c2, c3

TwoCmds == {c1, c2}
ThreeCmds == {c1, c2, c3}
=============================================================================
