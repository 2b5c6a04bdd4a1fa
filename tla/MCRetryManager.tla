---------------------------- MODULE MCRetryManager ----------------------------
(* Instances of RetryManager for TLC. *)
EXTENDS RetryManager, TLC

CONSTANTS c1, c2, c3, connect, input

ThreeCalls == {c1, c2, c3}
TwoOps     == {connect, input}
=============================================================================
