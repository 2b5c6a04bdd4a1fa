----------------------------- MODULE MCConsole -----------------------------
(* Instances of Console for TLC. *)
EXTENDS Console

CONSTANTS s1, s2

OneSession == {s1}
TwoSessions == {s1, s2}

(* For the runs with two sessions; those with one take all the protocols. *)
TwoProfiles == {Local, PowerShellDirect}
=============================================================================
