----------------------------- MODULE TaskService -----------------------------
(* What a pool of workers promises: tasks are given out in the order in which *)
(* they were submitted, each to one worker and once, and a caller is answered *)
(* once, with the result of its own task or an error.                         *)
EXTENDS Naturals, Sequences

CONSTANTS
    Tasks,
    NoTask

VARIABLES
    waiting,   \* the tasks that were submitted and not given out, in order
    held,      \* the tasks that were given out, and not answered by a worker
    answer,    \* what the caller of each task has got: nothing, an error, a result
    got        \* the task whose result it is

vars == <<waiting, held, answer, got>>

Init ==
    /\ waiting = <<>> /\ held = {}
    /\ answer = [t \in Tasks |-> "none"]
    /\ got = [t \in Tasks |-> NoTask]

(* Some of the tasks in q are given out, the first ones first; busy are the   *)
(* tasks that are still with a worker.                                        *)
GiveOut(q, busy) ==
    \E n \in 0..Len(q) :
        /\ waiting' = SubSeq(q, n + 1, Len(q))
        /\ held' = busy \cup {q[i] : i \in 1..n}

(* A task may be kept although its caller is told that it failed. *)
Submit(t) ==
    /\ answer[t] = "none"
    /\ \E a \in {"pending", "error"} : answer' = [answer EXCEPT ![t] = a]
    /\ GiveOut(Append(waiting, t), held)
    /\ UNCHANGED got

Refuse(t) ==
    /\ answer[t] = "none"
    /\ answer' = [answer EXCEPT ![t] = "error"]
    /\ UNCHANGED <<waiting, held, got>>

(* The worker has answered; its answer is lost on a caller who has one.       *)
Finish(t) ==
    /\ t \in held
    /\ \/ /\ answer[t] = "pending"
          /\ answer' = [answer EXCEPT ![t] = "result"]
          /\ got' = [got EXCEPT ![t] = t]
       \/ /\ answer[t] = "pending"
          /\ answer' = [answer EXCEPT ![t] = "error"]
          /\ UNCHANGED got
       \/ /\ answer[t] \in {"result", "error"}
          /\ UNCHANGED <<answer, got>>
    /\ GiveOut(waiting, held \ {t})

(* The caller is told that the worker failed or took too long: a task that    *)
(* was not given out does not fail.                                           *)
Fail(t) ==
    /\ t \in held /\ answer[t] = "pending"
    /\ answer' = [answer EXCEPT ![t] = "error"]
    /\ UNCHANGED <<waiting, held, got>>

Next == \E t \in Tasks : Submit(t) \/ Refuse(t) \/ Finish(t) \/ Fail(t)

Spec == Init /\ [][Next]_vars
=============================================================================
