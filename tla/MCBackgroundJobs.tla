-------------------------- MODULE MCBackgroundJobs --------------------------
(* Instances of BackgroundJobs for TLC. *)
EXTENDS BackgroundJobs, TLC

CONSTANTS j1, j2, j3

ThreeJobs == {j1, j2, j3}

TwoPriorities == {1, 2}
=============================================================================
