----------------------------- MODULE MCSessions -----------------------------
(* Instances of Sessions for TLC. *)
EXTENDS Sessions, TLC

CONSTANTS s1, s2

TwoIds == {s1, s2}
Local == {[s \in Ids |-> "local"]}
Either == {[s \in Ids |-> t] : t \in {"local", "other"}}

(* Bounds of the safety run: two chains of attempts on one session and one on *)
(* the other; and, where the recovery does nothing, so that no session makes  *)
(* another, one session at a time.                                            *)
ThreeTimers == Pending(s1) + Pending(s2) <= 3
OthersAlone ==
    (\E s \in Ids : type[s] = "other") => Cardinality(Consoles \cup Registered) <= 1

IdSymmetry == Permutations(Ids)
=============================================================================
