------------------------------ MODULE Workflow ------------------------------
(* WorkflowEngine (src/core/WorkflowEngine.ts): one execution of a workflow.   *)
(* Tasks run in rounds: every task whose dependencies are completed is         *)
(* started, the round ends when all of them have settled, and the next one is  *)
(* computed. The body of a task - a command, a request, a wait, or a loop or   *)
(* parallel block of them - is one step that succeeds or fails.                *)
EXTENDS Naturals, FiniteSets

CONSTANTS Tasks,       \* task ids
          Workflows,   \* the definitions an execution may be of
          MaxFailures  \* bound: failures of one execution, for TLC

(* A workflow that names state machines among its dependencies has machine     *)
(* set; a retry policy allows at least one attempt.                            *)
Definitions ==
    [dependsOn : [Tasks -> SUBSET Tasks], condition : SUBSET Tasks,
     approval : SUBSET Tasks, retryPolicy : SUBSET Tasks,
     onErrorFail : BOOLEAN, machine : BOOLEAN]

ASSUME WorkflowAssumption ==
    /\ IsFiniteSet(Tasks) /\ Workflows \subseteq Definitions
    /\ MaxFailures \in Nat

VARIABLES
    workflow,   \* the definition
    execution,  \* its status, "none" before the call
    listed,     \* the execution is in the map of executions
    call,       \* the promise of executeWorkflow
    readyTasks, \* the tasks of the present round
    phase,      \* how far executeTask is with each of them
    completedTasks,
    leftRunning, \* tasks with a record that nothing will set from 'running'
    refused,    \* tasks whose approval was rejected, and not given since
    failures

vars == <<workflow, execution, listed, call, readyTasks, phase, completedTasks,
          leftRunning, refused, failures>>

Init ==
    /\ workflow \in Workflows
    /\ execution = "none" /\ listed = FALSE /\ call = "none"
    /\ readyTasks = {} /\ completedTasks = {} /\ leftRunning = {} /\ refused = {}
    /\ phase = [t \in Tasks |-> "idle"]
    /\ failures = 0

Busy(t) == phase[t] \in {"approving", "running", "waiting", "retrying"}
Settled(t) == phase[t] \in {"fulfilled", "rejected"}

(* Rounds without a task await nothing but a settled promise: the loop keeps   *)
(* the thread, and no other event of the program is handled.                   *)
Spinning == call = "pending" /\ readyTasks = {}

(* Mutant: one dependency is enough. *)
GetReadyTasksSome(completed) ==
    {t \in Tasks \ completed :
        workflow.dependsOn[t] = {} \/ workflow.dependsOn[t] \cap completed # {}}

GetReadyTasks(completed) ==
    {t \in Tasks \ completed : workflow.dependsOn[t] \subseteq completed}

(* executeTask of every ready task, up to its first wait. A condition that     *)
(* does not hold skips the task, and the round takes it for done.              *)
StartRound(ready) ==
    \E skipped \in SUBSET (ready \cap workflow.condition) :
        /\ readyTasks' = ready
        /\ phase' = [t \in Tasks |->
                        IF t \notin ready THEN "idle"
                        ELSE IF t \in skipped THEN "fulfilled"
                        ELSE IF t \in workflow.approval THEN "approving" ELSE "running"]

Ends(status) ==
    /\ execution' = status
    /\ call' = IF status = "completed" THEN "resolved" ELSE "rejected"
    /\ UNCHANGED <<readyTasks, phase>>

(* executeWorkflow. The state machine made from a workflow has a start, an end *)
(* and no tasks.                                                               *)
ExecuteWorkflow ==
    /\ call = "none"
    /\ listed' = TRUE
    /\ IF workflow.machine \/ GetReadyTasks({}) = {}
       THEN Ends("completed")
       ELSE /\ execution' = "running" /\ call' = "pending"
            /\ StartRound(GetReadyTasks({}))
    /\ UNCHANGED <<workflow, completedTasks, leftRunning, refused, failures>>

(* executeTask, the catch block: a task with a retry policy is retried once,   *)
(* whatever failed, and the record that counts the attempt is a new one each   *)
(* time.                                                                       *)
Fails(t) ==
    /\ failures < MaxFailures
    /\ failures' = failures + 1
    /\ phase' = [phase EXCEPT ![t] = IF t \in workflow.retryPolicy
                                     THEN "waiting" ELSE "rejected"]

(* approveTask. *)
ApproveTask(t, approved) ==
    /\ phase[t] = "approving"
    /\ IF approved
       THEN /\ phase' = [phase EXCEPT ![t] = "running"]
            /\ refused' = refused \ {t}
            /\ UNCHANGED failures
       ELSE /\ Fails(t)
            /\ refused' = refused \cup {t}
    /\ UNCHANGED <<workflow, execution, listed, call, readyTasks, completedTasks, leftRunning>>

TaskSucceeds(t) ==
    /\ phase[t] = "running"
    /\ phase' = [phase EXCEPT ![t] = "fulfilled"]
    /\ UNCHANGED <<workflow, execution, listed, call, readyTasks, completedTasks, leftRunning,
                   refused, failures>>

TaskFails(t) ==
    /\ phase[t] = "running"
    /\ Fails(t)
    /\ UNCHANGED <<workflow, execution, listed, call, readyTasks, completedTasks, leftRunning,
                   refused>>

(* retryTask: the body alone, after the delay. *)
RetryTask(t) ==
    /\ phase[t] = "waiting"
    /\ phase' = [phase EXCEPT ![t] = "retrying"]
    /\ UNCHANGED <<workflow, execution, listed, call, readyTasks, completedTasks, leftRunning,
                   refused, failures>>

(* However the retry ends, the status it set stays 'running'. *)
RetryEnds(t, succeeds) ==
    /\ phase[t] = "retrying"
    /\ phase' = [phase EXCEPT ![t] = IF succeeds THEN "fulfilled" ELSE "rejected"]
    /\ failures' = IF succeeds THEN failures ELSE failures + 1
    /\ succeeds \/ failures < MaxFailures
    /\ leftRunning' = leftRunning \cup {t}
    /\ UNCHANGED <<workflow, execution, listed, call, readyTasks, completedTasks, refused>>

Fulfilled == {t \in readyTasks : phase[t] = "fulfilled"}
Rejected == {t \in readyTasks : phase[t] = "rejected"}

(* Mutant: the set of the completed tasks is made anew in each round. *)
DoneInRound == Fulfilled

Done == completedTasks \cup Fulfilled
Throws == workflow.onErrorFail /\ Rejected # {}
NextReady == GetReadyTasks(Done)

(* Mutant: the first rejection ends the wait for the round. *)
RoundEndsEarly ==
    call = "pending" /\ ((\A t \in readyTasks : Settled(t)) \/ Throws)

(* Promise.allSettled. *)
RoundEnds ==
    call = "pending" /\ \A t \in readyTasks : Settled(t)

(* executeSequentialWorkflow, after a round: the first error is thrown; no     *)
(* task is ready and some are not completed; everything is done; or there is   *)
(* another round, of no tasks if a record still says 'running'.                *)
TaskErrorThrown ==
    /\ RoundEnds /\ Throws
    /\ Ends("failed")
    /\ UNCHANGED <<workflow, listed, completedTasks, leftRunning, refused, failures>>

DeadlockDetected ==
    /\ RoundEnds /\ ~Throws /\ NextReady = {} /\ Done # Tasks
    /\ Ends("failed")
    /\ completedTasks' = Done
    /\ UNCHANGED <<workflow, listed, leftRunning, refused, failures>>

(* Mutant: the loop ends as soon as nothing is ready. *)
WorkflowCompletesUnchecked ==
    /\ RoundEnds /\ ~Throws /\ NextReady = {} /\ leftRunning = {}
    /\ Ends("completed")
    /\ completedTasks' = Done
    /\ UNCHANGED <<workflow, listed, leftRunning, refused, failures>>

WorkflowCompletes ==
    /\ RoundEnds /\ ~Throws /\ NextReady = {} /\ Done = Tasks /\ leftRunning = {}
    /\ Ends("completed")
    /\ completedTasks' = Done
    /\ UNCHANGED <<workflow, listed, leftRunning, refused, failures>>

NextRound ==
    /\ RoundEnds /\ ~Throws
    /\ NextReady # {} \/ (Done = Tasks /\ leftRunning # {})
    /\ StartRound(NextReady)
    /\ completedTasks' = Done
    /\ UNCHANGED <<workflow, execution, listed, call, leftRunning, refused, failures>>

(* cancelExecution: the status alone; no task has a session to stop, and the   *)
(* loop does not look at the status.                                           *)
CancelExecution ==
    /\ listed /\ ~Spinning
    /\ execution' = "cancelled"
    /\ UNCHANGED <<workflow, listed, call, readyTasks, phase, completedTasks, leftRunning,
                   refused, failures>>

(* cleanup of an execution that has an end time, a cancelled one included. *)
Cleanup ==
    /\ listed /\ ~Spinning
    /\ execution \in {"completed", "failed", "cancelled"}
    /\ listed' = FALSE
    /\ UNCHANGED <<workflow, execution, call, readyTasks, phase, completedTasks, leftRunning,
                   refused, failures>>

TaskStep(t) ==
    \/ \E approved \in BOOLEAN : ApproveTask(t, approved)
    \/ TaskSucceeds(t) \/ TaskFails(t) \/ RetryTask(t)
    \/ \E succeeds \in BOOLEAN : RetryEnds(t, succeeds)

LoopStep == TaskErrorThrown \/ DeadlockDetected \/ WorkflowCompletes \/ NextRound

Next ==
    \/ ExecuteWorkflow
    \/ \E t \in Tasks : TaskStep(t)
    \/ LoopStep
    \/ CancelExecution \/ Cleanup

Spec == Init /\ [][Next]_vars

(* Bodies end, approvals are answered, timers fire, and a loop whose round is  *)
(* settled goes on. Commands and waits have time limits, requests those of     *)
(* fetch; nothing limits an approval, so that it is answered is a condition on *)
(* the people who give it.                                                     *)
Fairness == /\ \A t \in Tasks : WF_vars(TaskStep(t))
            /\ WF_vars(LoopStep)
FairSpec == Spec /\ Fairness

(* --------------------------------------------------------------------------*)
(* Properties.                                                                *)

(* Every variable has its type. *)
TypeOK ==
    /\ workflow \in Workflows
    /\ execution \in {"none", "running", "completed", "failed", "cancelled"}
    /\ listed \in BOOLEAN
    /\ call \in {"none", "pending", "resolved", "rejected"}
    /\ readyTasks \subseteq Tasks /\ completedTasks \subseteq Tasks
    /\ leftRunning \subseteq Tasks /\ refused \subseteq Tasks
    /\ phase \in [Tasks -> {"idle", "approving", "running", "waiting", "retrying",
                            "fulfilled", "rejected"}]
    /\ failures \in 0..MaxFailures

(* Across rounds, retries and failures that are passed over: a body begins     *)
(* only when everything it depends on is done, and a task that is done is not  *)
(* started again.                                                              *)
Begins(t) == phase'[t] \in {"running", "retrying"} /\ phase'[t] # phase[t]
StartsInOrder ==
    [][\A t \in Tasks : Begins(t) =>
          /\ workflow.dependsOn[t] \subseteq completedTasks'
          /\ t \notin completedTasks']_vars

(* When executeWorkflow has answered, no task of the execution goes on: no     *)
(* body, no approval and no retry delay outlives the error of another task.    *)
SettledIsQuiet ==
    call \in {"resolved", "rejected"} => \A t \in Tasks : ~Busy(t)

(* A workflow reported as completed has all its tasks done or skipped,         *)
(* cancelled, failed and retried as they may be. It excepts the two ways to    *)
(* complete without looking at the tasks: a state machine, and a workflow that *)
(* has no task to begin with (a cycle of all tasks is not detected).           *)
CompletedMeansDone ==
    call = "resolved" =>
        \/ completedTasks = Tasks
        \/ workflow.machine
        \/ \A t \in Tasks : workflow.dependsOn[t] # {}

(* Every execution of a workflow without retry policies ends once its failures *)
(* end: a cycle among its tasks is found, no round is repeated for nothing.    *)
(* With a retry policy it may not end: EveryWorkflowEnds. With a task that     *)
(* fails for ever and an onError other than 'fail' nothing ends it either:     *)
(* the task is ready again in every round (MaxFailures stands for its end).    *)
WorkflowEnds ==
    (call = "pending" /\ workflow.retryPolicy = {}) ~> call \in {"resolved", "rejected"}

(* Every execution ends. Violated: a retry leaves its record 'running' for     *)
(* ever, and the loop then turns without giving up the thread.                 *)
EveryWorkflowEnds == call = "pending" ~> call \in {"resolved", "rejected"}

(* A task whose approval was rejected does not run: "approval gates",          *)
(* examples/advanced-workflows.ts:21. Violated: a rejection is a failure like  *)
(* any other, and the retry runs the body alone.                               *)
RefusedDoesNotRun == [][\A t \in Tasks : Begins(t) => t \notin refused']_vars

(* A cancelled execution stays cancelled. Violated: the loop goes on and ends  *)
(* with a status of its own.                                                   *)
CancelledStaysCancelled == [][execution = "cancelled" => execution' = "cancelled"]_vars
=============================================================================
