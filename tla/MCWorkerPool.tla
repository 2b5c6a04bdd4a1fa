---------------------------- MODULE MCWorkerPool ----------------------------
(* Instances of WorkerPool for TLC. *)
EXTENDS WorkerPool

CONSTANTS t1, t2, t3, t4

TwoTasks == {t1, t2}
ThreeTasks == {t1, t2, t3}
LastHooked == {t3}
NoneHooked == {}
=============================================================================
