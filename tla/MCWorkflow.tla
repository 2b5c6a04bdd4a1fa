----------------------------- MODULE MCWorkflow -----------------------------
(* Instances of Workflow for TLC. *)
EXTENDS Workflow, TLC

CONSTANTS t1, t2, t3

ThreeTasks == {t1, t2, t3}

NoDeps == [t \in ThreeTasks |-> {}]
Shapes == { NoDeps,
            (t1 :> {} @@ t2 :> {t1} @@ t3 :> {t2}),       \* a chain
            (t1 :> {} @@ t2 :> {} @@ t3 :> {t1, t2}),     \* a join
            (t1 :> {} @@ t2 :> {t1, t3} @@ t3 :> {t2}),   \* a cycle behind a task
            (t1 :> {t3} @@ t2 :> {t1} @@ t3 :> {t2}) }    \* nothing but a cycle

(* A state machine runs no task: one definition of one stands for all. *)
StateMachine ==
    [dependsOn |-> NoDeps, condition |-> {}, approval |-> {}, retryPolicy |-> {},
     onErrorFail |-> TRUE, machine |-> TRUE]

Mixed == {StateMachine} \cup [dependsOn : Shapes, condition : {{}, {t2}}, approval : {{}, {t1}, {t3}},
          retryPolicy : {{}, {t1}, {t2, t3}}, onErrorFail : BOOLEAN, machine : {FALSE}]
=============================================================================
