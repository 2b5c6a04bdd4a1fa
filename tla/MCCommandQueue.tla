--------------------------- MODULE MCCommandQueue ---------------------------
(* Instances of CommandQueue for TLC. *)
EXTENDS CommandQueue, TLC

CONSTANTS c1, c2, c3

OneCmd == {c1}
TwoCmds == {c1, c2}
ThreeCmds == {c1, c2, c3}
CmdSymmetry == Permutations(Cmds)

(* Bound of the restore run: the shell is at most one answer behind. *)
FewOutstanding == outstanding <= 1
=============================================================================
