--------------------------- MODULE MCConnectionPool ---------------------------
(* Instances of ConnectionPool for TLC. *)
EXTENDS ConnectionPool, TLC

CONSTANTS k1, k2, c1, c2

OneCaller == {k1}
TwoCallers == {k1, k2}
OneConn == {c1}
TwoConns == {c1, c2}
===============================================================================
