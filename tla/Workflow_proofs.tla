--------------------------- MODULE Workflow_proofs ---------------------------
(* Proofs about Workflow for any finite set of tasks, any definitions and any  *)
(* number of failures.                                                         *)
EXTENDS Workflow, TLAPS

(* While the call is pending its round is that of the tasks completed so far.  *)
RoundIsReady ==
    /\ call = "none" => readyTasks = {} /\ completedTasks = {}
    /\ call = "pending" => readyTasks = GetReadyTasks(completedTasks)

(* executeTask has only been called for the tasks of the round.                *)
OnlyRoundMoves == \A t \in Tasks \ readyTasks : phase[t] = "idle"

IInv == TypeOK /\ RoundIsReady /\ OnlyRoundMoves /\ SettledIsQuiet /\ CompletedMeansDone

Phases == {"idle", "approving", "running", "waiting", "retrying", "fulfilled", "rejected"}

-------------------------------------------------------------------------------
(* What several actions have in common. *)

LEMMA Types ==
    ASSUME IInv
    PROVE  /\ workflow \in Workflows /\ workflow \in Definitions
           /\ phase \in [Tasks -> Phases]
           /\ readyTasks \subseteq Tasks /\ completedTasks \subseteq Tasks
           /\ failures \in 0..MaxFailures /\ MaxFailures \in Nat
           /\ call \in {"none", "pending", "resolved", "rejected"}
BY WorkflowAssumption DEF IInv, TypeOK, Phases

(* A task that is busy is one of the round of a pending call.                  *)
LEMMA BusyIsReady ==
    ASSUME IInv, NEW t \in Tasks, Busy(t)
    PROVE  /\ call = "pending" /\ t \in readyTasks
           /\ t \notin completedTasks
           /\ workflow.dependsOn[t] \subseteq completedTasks
<1>1. t \in readyTasks
  BY DEF IInv, OnlyRoundMoves, Busy
<1>2. call = "pending"
  BY <1>1, Types DEF IInv, RoundIsReady, SettledIsQuiet
<1> QED BY <1>1, <1>2 DEF IInv, RoundIsReady, GetReadyTasks

(* GetReadyTasks chooses tasks that are not done and whose dependencies are.   *)
LEMMA ReadyTasksAreTasks ==
    \A completed : /\ GetReadyTasks(completed) \subseteq Tasks
                   /\ \A t \in GetReadyTasks(completed) :
                         t \notin completed /\ workflow.dependsOn[t] \subseteq completed
BY DEF GetReadyTasks

(* A step of one task of the round.                                            *)
LEMMA OnePhaseChanges ==
    ASSUME IInv, NEW t \in Tasks, Busy(t), NEW p \in Phases,
           phase' = [phase EXCEPT ![t] = p],
           UNCHANGED <<workflow, execution, listed, call, readyTasks, completedTasks>>,
           leftRunning' \subseteq Tasks, refused' \subseteq Tasks,
           failures' \in 0..MaxFailures
    PROVE  IInv'
<1>1. call = "pending" /\ t \in readyTasks
  BY BusyIsReady
<1>2. phase' \in [Tasks -> Phases]
  BY Types
<1>3. TypeOK'
  BY <1>2 DEF IInv, TypeOK, Phases
<1>4. OnlyRoundMoves'
  BY <1>1, Types DEF IInv, OnlyRoundMoves
<1>5. RoundIsReady' /\ SettledIsQuiet' /\ CompletedMeansDone'
  BY <1>1 DEF IInv, RoundIsReady, GetReadyTasks, SettledIsQuiet, CompletedMeansDone
<1> QED BY <1>3, <1>4, <1>5 DEF IInv

(* A step that leaves the tasks alone.                                         *)
LEMMA TasksStay ==
    ASSUME IInv,
           UNCHANGED <<workflow, call, readyTasks, phase, completedTasks, leftRunning,
                       refused, failures>>,
           execution' \in {"none", "running", "completed", "failed", "cancelled"},
           listed' \in BOOLEAN
    PROVE  IInv'
<1>1. TypeOK'
  BY DEF IInv, TypeOK
<1>2. RoundIsReady' /\ OnlyRoundMoves' /\ SettledIsQuiet' /\ CompletedMeansDone'
  BY DEF IInv, RoundIsReady, GetReadyTasks, OnlyRoundMoves, SettledIsQuiet, Busy,
         CompletedMeansDone
<1> QED BY <1>1, <1>2 DEF IInv

(* A round of the tasks that completed makes ready.                            *)
LEMMA RoundStarts ==
    ASSUME IInv, NEW completed \in SUBSET Tasks, StartRound(GetReadyTasks(completed)),
           completedTasks' = completed, workflow' = workflow, call' = "pending"
    PROVE  /\ readyTasks' \subseteq Tasks /\ phase' \in [Tasks -> Phases]
           /\ RoundIsReady' /\ OnlyRoundMoves' /\ SettledIsQuiet' /\ CompletedMeansDone'
<1> DEFINE ready == GetReadyTasks(completed)
<1>0. ready \subseteq Tasks
  BY ReadyTasksAreTasks
<1>1. PICK skipped \in SUBSET (ready \cap workflow.condition) :
        /\ readyTasks' = ready
        /\ phase' = [t \in Tasks |->
                        IF t \notin ready THEN "idle"
                        ELSE IF t \in skipped THEN "fulfilled"
                        ELSE IF t \in workflow.approval THEN "approving" ELSE "running"]
  BY DEF StartRound
<1>2. readyTasks' = GetReadyTasks(completedTasks)'
  BY <1>1 DEF GetReadyTasks
<1> HIDE DEF ready
<1>3. phase' \in [Tasks -> Phases] /\ OnlyRoundMoves'
  BY <1>1 DEF Phases, OnlyRoundMoves
<1>4. RoundIsReady' /\ SettledIsQuiet' /\ CompletedMeansDone'
  BY <1>2 DEF RoundIsReady, SettledIsQuiet, CompletedMeansDone
<1> QED BY <1>0, <1>1, <1>3, <1>4

(* The end of a pending call, when its round is settled.                       *)
LEMMA EndingIsQuiet ==
    ASSUME IInv, RoundEnds, NEW status \in {"completed", "failed"}, Ends(status),
           completedTasks' \in {completedTasks, Done},
           status = "completed" => completedTasks' = Tasks,
           UNCHANGED <<workflow, listed, leftRunning, refused, failures>>
    PROVE  IInv'
<1>1. /\ call' = (IF status = "completed" THEN "resolved" ELSE "rejected")
      /\ execution' = status
      /\ UNCHANGED <<readyTasks, phase>>
  BY DEF Ends
<1>2. TypeOK'
  BY <1>1, Types DEF IInv, TypeOK, Done, Fulfilled
<1>3. SettledIsQuiet'
  <2> SUFFICES ASSUME NEW t \in Tasks PROVE ~Busy(t)'
    BY DEF SettledIsQuiet
  <2>1. phase[t] \in {"fulfilled", "rejected", "idle"}
    BY DEF IInv, OnlyRoundMoves, RoundEnds, Settled
  <2> QED BY <1>1, <2>1 DEF Busy
<1>4. RoundIsReady' /\ OnlyRoundMoves' /\ CompletedMeansDone'
  BY <1>1 DEF IInv, RoundIsReady, OnlyRoundMoves, CompletedMeansDone
<1> QED BY <1>2, <1>3, <1>4 DEF IInv

-------------------------------------------------------------------------------
(* Each action. *)

LEMMA InitHolds == Init => IInv
<1> SUFFICES ASSUME Init PROVE IInv
  OBVIOUS
<1>1. TypeOK
  <2>1. 0 \in 0..MaxFailures
    BY WorkflowAssumption
  <2>2. phase \in [Tasks -> Phases]
    BY DEF Init, Phases
  <2> QED BY <2>1, <2>2 DEF Init, TypeOK, Phases
<1>2. RoundIsReady /\ OnlyRoundMoves /\ SettledIsQuiet /\ CompletedMeansDone
  BY DEF Init, RoundIsReady, OnlyRoundMoves, SettledIsQuiet, CompletedMeansDone
<1> QED BY <1>1, <1>2 DEF IInv

LEMMA ExecuteHolds ==
    ASSUME IInv, ExecuteWorkflow
    PROVE  IInv'
<1>0. /\ call = "none" /\ listed' = TRUE /\ readyTasks = {} /\ completedTasks = {}
      /\ UNCHANGED <<workflow, completedTasks, leftRunning, refused, failures>>
  BY DEF ExecuteWorkflow, IInv, RoundIsReady
<1>1. CASE workflow.machine \/ GetReadyTasks({}) = {}
  <2>1. /\ execution' = "completed" /\ call' = "resolved"
        /\ UNCHANGED <<readyTasks, phase>>
    BY <1>1 DEF ExecuteWorkflow, Ends
  <2>2. TypeOK'
    BY <1>0, <2>1 DEF IInv, TypeOK
  <2>3. RoundIsReady' /\ OnlyRoundMoves'
    BY <2>1 DEF IInv, RoundIsReady, OnlyRoundMoves
  <2>4. SettledIsQuiet'
    BY <1>0, <2>1 DEF IInv, OnlyRoundMoves, SettledIsQuiet, Busy
  <2>5. CompletedMeansDone'
    BY <1>0, <1>1 DEF CompletedMeansDone, GetReadyTasks
  <2> QED BY <2>2, <2>3, <2>4, <2>5 DEF IInv
<1>2. CASE ~ (workflow.machine \/ GetReadyTasks({}) = {})
  <2>1. /\ execution' = "running" /\ call' = "pending"
        /\ StartRound(GetReadyTasks({}))
    BY <1>2 DEF ExecuteWorkflow
  <2>2. /\ readyTasks' \subseteq Tasks /\ phase' \in [Tasks -> Phases]
        /\ RoundIsReady' /\ OnlyRoundMoves' /\ SettledIsQuiet' /\ CompletedMeansDone'
    BY <1>0, <2>1, RoundStarts
  <2>3. TypeOK'
    BY <1>0, <2>1, <2>2 DEF IInv, TypeOK, Phases
  <2> QED BY <2>2, <2>3 DEF IInv
<1> QED BY <1>1, <1>2

(* What Fails leaves of a task: waiting for its retry, or rejected.            *)
LEMMA FailsChangesOnePhase ==
    ASSUME IInv, NEW t \in Tasks, Fails(t)
    PROVE  /\ \E p \in Phases : phase' = [phase EXCEPT ![t] = p]
           /\ \A u \in Tasks : phase'[u] # phase[u] => phase'[u] \in {"waiting", "rejected"}
           /\ failures' \in 0..MaxFailures
<1>1. failures' \in 0..MaxFailures
  BY Types DEF Fails
<1>2. PICK p \in {"waiting", "rejected"} : phase' = [phase EXCEPT ![t] = p]
  BY DEF Fails
<1>3. p \in Phases /\ \A u \in Tasks : phase'[u] # phase[u] => phase'[u] = p
  BY <1>2, Types DEF Phases
<1> QED BY <1>1, <1>2, <1>3

LEMMA TaskStepHolds ==
    ASSUME IInv, NEW t \in Tasks, TaskStep(t)
    PROVE  IInv'
<1>0. leftRunning \subseteq Tasks /\ refused \subseteq Tasks
  BY DEF IInv, TypeOK
<1>1. ASSUME NEW approved \in BOOLEAN, ApproveTask(t, approved)
      PROVE  IInv'
  <2>1. Busy(t) /\ refused' \subseteq Tasks
    BY <1>0, <1>1 DEF ApproveTask, Busy
  <2>2. /\ \E p \in Phases : phase' = [phase EXCEPT ![t] = p]
        /\ failures' \in 0..MaxFailures
    BY <1>1, FailsChangesOnePhase, Types DEF ApproveTask, Phases
  <2> QED BY <1>0, <1>1, <2>1, <2>2, OnePhaseChanges DEF ApproveTask
<1>2. CASE TaskSucceeds(t) \/ RetryTask(t)
  <2>1. Busy(t) /\ \E p \in Phases : phase' = [phase EXCEPT ![t] = p]
    BY <1>2 DEF TaskSucceeds, RetryTask, Busy, Phases
  <2> QED BY <1>0, <1>2, <2>1, Types, OnePhaseChanges DEF TaskSucceeds, RetryTask
<1>3. CASE TaskFails(t)
  <2>1. Busy(t)
    BY <1>3 DEF TaskFails, Busy
  <2> QED BY <1>0, <1>3, <2>1, FailsChangesOnePhase, OnePhaseChanges DEF TaskFails
<1>4. ASSUME NEW succeeds \in BOOLEAN, RetryEnds(t, succeeds)
      PROVE  IInv'
  <2>1. Busy(t) /\ leftRunning' \subseteq Tasks
    BY <1>0, <1>4 DEF RetryEnds, Busy
  <2>2. \E p \in Phases : phase' = [phase EXCEPT ![t] = p]
    BY <1>4 DEF RetryEnds, Phases
  <2>3. failures' \in 0..MaxFailures
    BY <1>4, Types DEF RetryEnds
  <2> QED BY <1>0, <1>4, <2>1, <2>2, <2>3, OnePhaseChanges DEF RetryEnds
<1> QED BY <1>1, <1>2, <1>3, <1>4 DEF TaskStep

LEMMA LoopStepHolds ==
    ASSUME IInv, LoopStep
    PROVE  IInv'
<1>1. CASE TaskErrorThrown
  BY <1>1, EndingIsQuiet DEF TaskErrorThrown
<1>2. CASE DeadlockDetected
  BY <1>2, EndingIsQuiet DEF DeadlockDetected
<1>3. CASE WorkflowCompletes
  BY <1>3, EndingIsQuiet DEF WorkflowCompletes
<1>4. CASE NextRound
  <2>1. /\ call' = "pending" /\ StartRound(GetReadyTasks(Done)) /\ completedTasks' = Done
        /\ UNCHANGED <<workflow, execution, listed, call, leftRunning, refused, failures>>
    BY <1>4 DEF NextRound, RoundEnds, NextReady
  <2>2. Done \in SUBSET Tasks
    BY Types DEF Done, Fulfilled
  <2>3. /\ readyTasks' \subseteq Tasks /\ phase' \in [Tasks -> Phases]
        /\ RoundIsReady' /\ OnlyRoundMoves' /\ SettledIsQuiet' /\ CompletedMeansDone'
    BY <2>1, <2>2, RoundStarts
  <2>4. TypeOK'
    BY <2>1, <2>2, <2>3 DEF IInv, TypeOK, Phases
  <2> QED BY <2>3, <2>4 DEF IInv
<1> QED BY <1>1, <1>2, <1>3, <1>4 DEF LoopStep

LEMMA NextHolds == IInv /\ [Next]_vars => IInv'
<1> SUFFICES ASSUME IInv, [Next]_vars PROVE IInv'
  OBVIOUS
<1>1. CASE ExecuteWorkflow
  BY <1>1, ExecuteHolds
<1>2. CASE \E t \in Tasks : TaskStep(t)
  BY <1>2, TaskStepHolds
<1>3. CASE LoopStep
  BY <1>3, LoopStepHolds
<1>4. CASE CancelExecution \/ Cleanup \/ UNCHANGED vars
  BY <1>4, TasksStay DEF CancelExecution, Cleanup, vars, IInv, TypeOK
<1> QED BY <1>1, <1>2, <1>3, <1>4 DEF Next

-------------------------------------------------------------------------------
(* The theorems. *)

(* Every reachable state satisfies the inductive invariant.                    *)
THEOREM InductiveInvariant == Spec => []IInv
BY InitHolds, NextHolds, PTL DEF Spec

(* Every variable keeps its type.                                              *)
THEOREM TypeCorrect == Spec => []TypeOK
<1>1. IInv => TypeOK
  BY DEF IInv
<1> QED BY <1>1, InductiveInvariant, PTL

(* When executeWorkflow has answered, nothing of the execution goes on: no     *)
(* body, approval or retry delay outlives the error of another task, because   *)
(* the loop looks at a round only when all of it has settled.                  *)
THEOREM AnsweredIsQuiet == Spec => []SettledIsQuiet
<1>1. IInv => SettledIsQuiet
  BY DEF IInv
<1> QED BY <1>1, InductiveInvariant, PTL

(* A workflow reported as completed has all its tasks done or skipped, but for *)
(* a state machine and one without a task to begin with.                       *)
THEOREM CompletedIsDone == Spec => []CompletedMeansDone
<1>1. IInv => CompletedMeansDone
  BY DEF IInv
<1> QED BY <1>1, InductiveInvariant, PTL

(* A body begins, and begins again as a retry, only when everything the task   *)
(* depends on is done, and not when the task itself is (getReadyTasks,         *)
(* approveTask, retryTask).                                                    *)
THEOREM BodiesStartInOrder == Spec => StartsInOrder
<1>1. ASSUME IInv, [Next]_vars, NEW t \in Tasks, Begins(t)
      PROVE  workflow.dependsOn[t] \subseteq completedTasks' /\ t \notin completedTasks'
  <2>1. phase'[t] # phase[t] /\ phase'[t] \in {"running", "retrying"}
    BY <1>1 DEF Begins
  <2>2. ASSUME NEW completed, StartRound(GetReadyTasks(completed)), completedTasks' = completed
        PROVE  workflow.dependsOn[t] \subseteq completedTasks' /\ t \notin completedTasks'
    <3>1. t \in GetReadyTasks(completed)
      BY <2>1, <2>2 DEF StartRound
    <3> QED BY <2>2, <3>1, ReadyTasksAreTasks
  <2>3. CASE ExecuteWorkflow
    <3>1. StartRound(GetReadyTasks({})) /\ completedTasks' = {}
      BY <1>1, <2>1, <2>3 DEF ExecuteWorkflow, Ends, IInv, RoundIsReady
    <3> QED BY <2>2, <3>1
  <2>4. ASSUME NEW u \in Tasks, TaskStep(u)
        PROVE  workflow.dependsOn[t] \subseteq completedTasks' /\ t \notin completedTasks'
    <3>1. completedTasks' = completedTasks
      BY <2>4 DEF TaskStep, ApproveTask, TaskSucceeds, TaskFails, RetryTask, RetryEnds
    <3>2. Busy(u)
      BY <2>4 DEF TaskStep, ApproveTask, TaskSucceeds, TaskFails, RetryTask, RetryEnds, Busy
    <3>3. \E p : phase' = [phase EXCEPT ![u] = p]
      BY <2>4 DEF TaskStep, ApproveTask, TaskSucceeds, TaskFails, RetryTask, RetryEnds, Fails
    <3>4. t = u
      BY <1>1, <2>1, <3>3, Types
    <3> QED BY <1>1, <3>1, <3>2, <3>4, BusyIsReady
  <2>5. CASE NextRound
    BY <2>2, <2>5 DEF NextRound, NextReady
  <2>6. ASSUME \/ TaskErrorThrown \/ DeadlockDetected \/ WorkflowCompletes
               \/ CancelExecution \/ Cleanup \/ UNCHANGED vars
        PROVE  FALSE
    BY <2>1, <2>6
       DEF TaskErrorThrown, DeadlockDetected, WorkflowCompletes, Ends, CancelExecution,
           Cleanup, vars
  <2> QED BY <1>1, <2>3, <2>4, <2>5, <2>6 DEF Next, LoopStep
<1>2. IInv /\ [Next]_vars =>
          [\A t \in Tasks : Begins(t) =>
              /\ workflow.dependsOn[t] \subseteq completedTasks'
              /\ t \notin completedTasks']_vars
  BY <1>1
<1> QED BY <1>2, InductiveInvariant, PTL DEF Spec, StartsInOrder
===============================================================================
