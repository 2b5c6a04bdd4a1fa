------------------------- MODULE RetryManager_proofs -------------------------
(***************************************************************************)
(* Proofs about RetryManager for any set of callers and operations, any    *)
(* number of attempts and any thresholds.                                  *)
(***************************************************************************)
EXTENDS RetryManager, TLAPS

(* The breaker on its own: its type and its consistency.                   *)
BreakerType ==
  breaker \in [state : {"closed", "open", "half-open"},
               failures : 0..Threshold,
               successCount : 0..SuccessesToClose,
               windowOver : BOOLEAN]

(* Everything about calls.                                                 *)
CallsType ==
  /\ pc \in [Calls -> {"idle", "attempting", "waiting",
                       "resolved", "rejected"}]
  /\ attemptNumber \in [Calls -> 0..MaxAttempts]
  /\ op \in [Calls -> Ops]
  /\ activeRetries \in [Ops -> Calls \cup {NoCall}]
  /\ probing \in SUBSET Calls

IInv == BreakerType /\ BreakerConsistent /\ CallsType
        /\ AttemptsWithinBudget /\ NoRetryLeak

LEMMA TypesTogether == IInv => TypeOK
BY DEF IInv, BreakerType, CallsType, TypeOK

-----------------------------------------------------------------------------
(* Each update of the breaker keeps it consistent. *)

(* A breaker is consistent whose fields are those of a consistent one.     *)
LEMMA BreakerFromFields ==
  ASSUME NEW s \in {"closed", "open", "half-open"}, NEW f \in 0..Threshold,
         NEW n \in 0..SuccessesToClose, NEW w \in BOOLEAN,
         breaker' = [state |-> s, failures |-> f, successCount |-> n,
                     windowOver |-> w],
         s = "closed" <=> f < Threshold,
         s = "half-open" => n < SuccessesToClose
  PROVE  BreakerType' /\ BreakerConsistent'
BY DEF BreakerType, BreakerConsistent

(* What BreakerType says of each field.                                    *)
LEMMA BreakerFields ==
  ASSUME BreakerType
  PROVE  /\ breaker = [state        |-> breaker.state,
                       failures     |-> breaker.failures,
                       successCount |-> breaker.successCount,
                       windowOver   |-> breaker.windowOver]
         /\ breaker.state \in {"closed", "open", "half-open"}
         /\ breaker.failures \in 0..Threshold
         /\ breaker.successCount \in 0..SuccessesToClose
         /\ breaker.windowOver \in BOOLEAN
BY DEF BreakerType

LEMMA CheckKeepsBreaker ==
  ASSUME BreakerType, BreakerConsistent, breaker' = BreakerAfterCheck
  PROVE  BreakerType' /\ BreakerConsistent'
<1>1. CASE breaker.state = "open" /\ breaker.windowOver
  <2>1. breaker' = [state |-> "half-open", failures |-> breaker.failures,
                    successCount |-> 0, windowOver |-> breaker.windowOver]
    BY <1>1, BreakerFields DEF BreakerAfterCheck
  <2>2. /\ ~(breaker.failures < Threshold)
        /\ 0 \in 0..SuccessesToClose
        /\ 0 < SuccessesToClose
    BY <1>1, BoundsAssumption DEF BreakerConsistent
  <2> QED BY <2>1, <2>2, BreakerFields, BreakerFromFields
<1>2. CASE ~(breaker.state = "open" /\ breaker.windowOver)
  BY <1>2 DEF BreakerAfterCheck, BreakerType, BreakerConsistent
<1> QED BY <1>1, <1>2

LEMMA SuccessKeepsBreaker ==
  ASSUME BreakerType, BreakerConsistent, breaker' = RecordSuccess
  PROVE  BreakerType' /\ BreakerConsistent'
<1>1. CASE breaker.state = "half-open"
  <2>1. breaker.successCount + 1 \in 0..SuccessesToClose
    BY <1>1, BreakerFields, BoundsAssumption DEF BreakerConsistent
  <2>2. CASE breaker.successCount + 1 >= SuccessesToClose
    <3>1. breaker' = [state |-> "closed", failures |-> 0,
                      successCount |-> breaker.successCount + 1,
                      windowOver |-> breaker.windowOver]
      BY <1>1, <2>2, BreakerFields DEF RecordSuccess
    <3>2. 0 \in 0..Threshold /\ 0 < Threshold
      BY BoundsAssumption
    <3> QED BY <2>1, <3>1, <3>2, BreakerFields, BreakerFromFields
  <2>3. CASE ~(breaker.successCount + 1 >= SuccessesToClose)
    <3>1. breaker' = [state |-> breaker.state, failures |-> breaker.failures,
                      successCount |-> breaker.successCount + 1,
                      windowOver |-> breaker.windowOver]
      BY <1>1, <2>3, BreakerFields DEF RecordSuccess
    <3>2. /\ breaker.state = "closed" <=> breaker.failures < Threshold
          /\ breaker.successCount + 1 < SuccessesToClose
      BY <2>1, <2>3, BoundsAssumption DEF BreakerConsistent
    <3> QED BY <2>1, <3>1, <3>2, BreakerFields, BreakerFromFields
  <2> QED BY <2>2, <2>3
<1>2. CASE breaker.state # "half-open"
  BY <1>2, BoundsAssumption DEF BreakerType, BreakerConsistent, RecordSuccess
<1> QED BY <1>1, <1>2

LEMMA FailureKeepsBreaker ==
  ASSUME BreakerType, BreakerConsistent, breaker' = RecordFailure
  PROVE  BreakerType' /\ BreakerConsistent'
<1> DEFINE failures == CountUp(breaker.failures, Threshold)
<1>1. /\ failures \in 0..Threshold
      /\ breaker.state # "closed" => ~(failures < Threshold)
  BY BoundsAssumption, BreakerFields DEF BreakerConsistent, CountUp
<1>2. breaker' = IF \/ breaker.state = "half-open"
                    \/ breaker.state = "closed" /\ failures >= Threshold
                   THEN [breaker EXCEPT !.state = "open", !.failures = failures,
                                        !.windowOver = FALSE]
                   ELSE [breaker EXCEPT !.failures = failures]
  BY DEF RecordFailure
<1> HIDE DEF failures
<1>3. CASE \/ breaker.state = "half-open"
           \/ breaker.state = "closed" /\ failures >= Threshold
  <2>1. breaker' = [state |-> "open", failures |-> failures,
                    successCount |-> breaker.successCount,
                    windowOver |-> FALSE]
    BY <1>2, <1>3, BreakerFields
  <2>2. ~(failures < Threshold)
    BY <1>1, <1>3, BoundsAssumption
  <2> QED BY <1>1, <2>1, <2>2, BreakerFields, BreakerFromFields
<1>4. CASE ~(\/ breaker.state = "half-open"
             \/ breaker.state = "closed" /\ failures >= Threshold)
  <2>1. breaker' = [state |-> breaker.state, failures |-> failures,
                    successCount |-> breaker.successCount,
                    windowOver |-> breaker.windowOver]
    BY <1>2, <1>4, BreakerFields
  <2>2. /\ breaker.state = "closed" <=> failures < Threshold
        /\ breaker.state # "half-open"
    BY <1>1, <1>4, BoundsAssumption
  <2> QED BY <1>1, <2>1, <2>2, BreakerFields, BreakerFromFields
<1> QED BY <1>3, <1>4

(* The updates that are not made by a call.                                *)
LEMMA ResetKeepsBreaker ==
  ASSUME BreakerType, BreakerConsistent,
         \/ breaker' = [breaker EXCEPT !.state = "closed", !.failures = 0,
                                       !.successCount = 0]
         \/ breaker' = ClosedBreaker
         \/ breaker' = [breaker EXCEPT !.windowOver = TRUE]
  PROVE  BreakerType' /\ BreakerConsistent'
<1>1. /\ 0 \in 0..Threshold
      /\ 0 \in 0..SuccessesToClose
      /\ 0 < Threshold
  BY BoundsAssumption
<1>2. CASE breaker' = [breaker EXCEPT !.state = "closed", !.failures = 0,
                                      !.successCount = 0]
  <2>1. breaker' = [state |-> "closed", failures |-> 0, successCount |-> 0,
                    windowOver |-> breaker.windowOver]
    BY <1>2, BreakerFields
  <2> QED BY <1>1, <2>1, BreakerFields, BreakerFromFields
<1>3. CASE breaker' = ClosedBreaker
  BY <1>1, <1>3, BreakerFromFields DEF ClosedBreaker
<1>4. CASE breaker' = [breaker EXCEPT !.windowOver = TRUE]
  BY <1>4 DEF BreakerType, BreakerConsistent
<1> QED BY <1>2, <1>3, <1>4

LEMMA CountUpInRange ==
  ASSUME NEW n \in 0..Threshold
  PROVE  CountUp(n, Threshold) \in 0..Threshold
BY BoundsAssumption DEF CountUp

-----------------------------------------------------------------------------
(* What the calls' variables say after a call ended.                       *)
LEMMA FinishKeepsCalls ==
  ASSUME CallsType, AttemptsWithinBudget, NoRetryLeak,
         NEW c \in Calls, NEW r \in {"resolved", "rejected"}, Finish(c, r),
         op' = op
  PROVE  CallsType' /\ AttemptsWithinBudget' /\ NoRetryLeak'
<1>1. /\ pc' = [pc EXCEPT ![c] = r]
      /\ attemptNumber' = [attemptNumber EXCEPT ![c] = 0]
      /\ activeRetries' = [activeRetries EXCEPT ![op[c]] = NoCall]
      /\ probing' = probing \ {c}
  BY DEF Finish
<1>2. CallsType'
  BY <1>1, BoundsAssumption DEF CallsType
<1>3. AttemptsWithinBudget'
  BY <1>1, BoundsAssumption DEF CallsType, AttemptsWithinBudget, InFlight
<1>4. NoRetryLeak'
  <2> SUFFICES ASSUME NEW o \in Ops, activeRetries'[o] # NoCall
               PROVE  activeRetries'[o] \in InFlight' /\ op'[activeRetries'[o]] = o
    BY DEF NoRetryLeak
  <2>1. o # op[c] /\ activeRetries'[o] = activeRetries[o]
    BY <1>1 DEF CallsType
  <2>2. activeRetries[o] \in InFlight /\ op[activeRetries[o]] = o
    BY <2>1 DEF NoRetryLeak
  <2>3. activeRetries[o] # c
    BY <2>1, <2>2
  <2> QED BY <1>1, <2>1, <2>2, <2>3 DEF InFlight, CallsType
<1> QED BY <1>2, <1>3, <1>4

LEMMA InitIInv == Init => IInv
BY BoundsAssumption
   DEF Init, IInv, BreakerType, BreakerConsistent, CallsType, ClosedBreaker,
       AttemptsWithinBudget, NoRetryLeak, InFlight

LEMMA ExecuteIInv ==
  ASSUME IInv, NEW c \in Calls, NEW o \in Ops, ExecuteWithRetry(c, o)
  PROVE  IInv'
<1> USE DEF IInv
<1>1. /\ pc[c] = "idle"
      /\ op' = [op EXCEPT ![c] = o]
      /\ breaker' = BreakerAfterCheck
  BY DEF ExecuteWithRetry
<1>2. BreakerType' /\ BreakerConsistent'
  BY <1>1, CheckKeepsBreaker
<1>3. \A k \in Ops : activeRetries[k] # NoCall => activeRetries[k] # c
  BY <1>1 DEF NoRetryLeak, InFlight
<1>4. CASE IsCircuitOpen
  <2>1. /\ pc' = [pc EXCEPT ![c] = "rejected"]
        /\ UNCHANGED <<attemptNumber, activeRetries, probing>>
    BY <1>4 DEF ExecuteWithRetry
  <2>2. CallsType'
    BY <1>1, <2>1 DEF CallsType
  <2>3. AttemptsWithinBudget'
    BY <1>1, <2>1 DEF CallsType, AttemptsWithinBudget, InFlight
  <2>4. NoRetryLeak'
    BY <1>1, <1>3, <2>1 DEF CallsType, NoRetryLeak, InFlight
  <2> QED BY <1>1, <1>2, <2>2, <2>3, <2>4
<1>5. CASE ~IsCircuitOpen
  <2>1. /\ pc' = [pc EXCEPT ![c] = "attempting"]
        /\ attemptNumber' = [attemptNumber EXCEPT ![c] = 1]
        /\ activeRetries' = [activeRetries EXCEPT ![o] = c]
        /\ probing' \in {probing, probing \cup {c}}
    BY <1>5 DEF ExecuteWithRetry
  <2>2. CallsType'
    BY <1>1, <2>1, BoundsAssumption DEF CallsType
  <2>3. AttemptsWithinBudget'
    BY <1>1, <2>1, BoundsAssumption DEF CallsType, AttemptsWithinBudget, InFlight
  <2>4. NoRetryLeak'
    <3> SUFFICES ASSUME NEW k \in Ops, activeRetries'[k] # NoCall
                 PROVE  activeRetries'[k] \in InFlight' /\ op'[activeRetries'[k]] = k
      BY DEF NoRetryLeak
    <3>1. CASE k = o
      BY <1>1, <2>1, <3>1 DEF InFlight, CallsType
    <3>2. CASE k # o
      <4>1. activeRetries'[k] = activeRetries[k] /\ activeRetries[k] # c
        BY <1>3, <2>1, <3>2 DEF CallsType
      <4>2. activeRetries[k] \in InFlight /\ op[activeRetries[k]] = k
        BY <4>1 DEF NoRetryLeak
      <4> QED BY <1>1, <2>1, <4>1, <4>2 DEF InFlight, CallsType
    <3> QED BY <3>1, <3>2
  <2> QED BY <1>1, <1>2, <2>2, <2>3, <2>4
<1> QED BY <1>4, <1>5

LEMMA AttemptSucceedsIInv ==
  ASSUME IInv, NEW c \in Calls, AttemptSucceeds(c)
  PROVE  IInv'
<1> USE DEF IInv
<1>1. /\ breaker' = RecordSuccess
      /\ Finish(c, "resolved")
      /\ op' = op
  BY DEF AttemptSucceeds
<1>2. BreakerType' /\ BreakerConsistent'
  BY <1>1, SuccessKeepsBreaker
<1>3. CallsType' /\ AttemptsWithinBudget' /\ NoRetryLeak'
  BY <1>1, FinishKeepsCalls
<1> QED BY <1>1, <1>2, <1>3, BoundsAssumption

LEMMA AttemptFailsIInv ==
  ASSUME IInv, NEW c \in Calls, NEW retryable \in BOOLEAN,
         AttemptFails(c, retryable)
  PROVE  IInv'
<1> USE DEF IInv
<1>1. /\ pc[c] = "attempting"
      /\ breaker' = RecordFailure
      /\ op' = op
  BY DEF AttemptFails
<1>2. BreakerType' /\ BreakerConsistent'
  BY <1>1, FailureKeepsBreaker
<1>3. CASE retryable /\ attemptNumber[c] < MaxAttempts
  <2>1. /\ pc' = [pc EXCEPT ![c] = "waiting"]
        /\ UNCHANGED <<attemptNumber, activeRetries, probing>>
    BY <1>3 DEF AttemptFails
  <2>2. CallsType'
    BY <1>1, <2>1 DEF CallsType
  <2>3. AttemptsWithinBudget'
    BY <1>1, <1>3, <2>1 DEF CallsType, AttemptsWithinBudget, InFlight
  <2>4. NoRetryLeak'
    BY <1>1, <2>1 DEF CallsType, NoRetryLeak, InFlight
  <2> QED BY <1>2, <2>2, <2>3, <2>4
<1>4. CASE ~(retryable /\ attemptNumber[c] < MaxAttempts)
  <2>1. Finish(c, "rejected")
    BY <1>4 DEF AttemptFails
  <2>2. CallsType' /\ AttemptsWithinBudget' /\ NoRetryLeak'
    BY <1>1, <2>1, FinishKeepsCalls
  <2> QED BY <1>2, <2>2
<1> QED BY <1>3, <1>4

LEMMA DelayEndsIInv ==
  ASSUME IInv, NEW c \in Calls, DelayEnds(c)
  PROVE  IInv'
<1> USE DEF IInv
<1>1. /\ pc[c] = "waiting"
      /\ pc' = [pc EXCEPT ![c] = "attempting"]
      /\ attemptNumber' = [attemptNumber EXCEPT ![c] = @ + 1]
      /\ UNCHANGED <<breaker, op, activeRetries, probing>>
  BY DEF DelayEnds
<1>2. attemptNumber[c] \in 1..MaxAttempts /\ attemptNumber[c] < MaxAttempts
  BY <1>1 DEF AttemptsWithinBudget, InFlight
<1>3. CallsType'
  BY <1>1, <1>2, BoundsAssumption DEF CallsType
<1>4. AttemptsWithinBudget'
  BY <1>1, <1>2, BoundsAssumption DEF CallsType, AttemptsWithinBudget, InFlight
<1>5. NoRetryLeak'
  BY <1>1 DEF CallsType, NoRetryLeak, InFlight
<1>6. BreakerType' /\ BreakerConsistent'
  BY <1>1 DEF BreakerType, BreakerConsistent
<1> QED BY <1>3, <1>4, <1>5, <1>6

LEMMA ReturnIInv ==
  ASSUME IInv, NEW c \in Calls, Return(c)
  PROVE  IInv'
BY DEF IInv, Return, BreakerType, BreakerConsistent, CallsType,
       AttemptsWithinBudget, NoRetryLeak, InFlight

(* The steps that touch the breaker only, and destroy.                     *)
LEMMA BreakerStepsIInv ==
  ASSUME IInv, WindowEnds \/ ResetCircuitBreaker \/ Destroy
  PROVE  IInv'
<1>1. BreakerType' /\ BreakerConsistent'
  BY ResetKeepsBreaker DEF IInv, WindowEnds, ResetCircuitBreaker, Destroy
<1>2. /\ UNCHANGED <<pc, attemptNumber, op, probing>>
      /\ \/ activeRetries' = activeRetries
         \/ activeRetries' = [o \in Ops |-> NoCall]
  BY BoundsAssumption
     DEF IInv, WindowEnds, ResetCircuitBreaker, Destroy, callVars
<1>3. CallsType' /\ AttemptsWithinBudget' /\ NoRetryLeak'
  BY <1>2 DEF IInv, CallsType, AttemptsWithinBudget, NoRetryLeak, InFlight
<1> QED BY <1>1, <1>2, <1>3 DEF IInv

LEMMA NextIInv == IInv /\ [Next]_vars => IInv'
<1> SUFFICES ASSUME IInv, [Next]_vars PROVE IInv'
  OBVIOUS
<1>1. CASE \E c \in Calls : \E o \in Ops : ExecuteWithRetry(c, o)
  BY <1>1, ExecuteIInv
<1>2. CASE \E c \in Calls : CallStep(c)
  BY <1>2, AttemptSucceedsIInv, AttemptFailsIInv, DelayEndsIInv DEF CallStep
<1>3. CASE \E c \in Calls : Return(c)
  BY <1>3, ReturnIInv
<1>4. CASE WindowEnds \/ ResetCircuitBreaker \/ Destroy
  BY <1>4, BreakerStepsIInv
<1>5. CASE UNCHANGED vars
  BY <1>5 DEF vars, IInv, BreakerType, BreakerConsistent, CallsType,
     AttemptsWithinBudget, NoRetryLeak, InFlight
<1> QED BY <1>1, <1>2, <1>3, <1>4, <1>5 DEF Next

-----------------------------------------------------------------------------
(* IInv holds throughout every behaviour.                                  *)
THEOREM InductiveInvariant == Spec => []IInv
<1>1. Init => IInv
  BY InitIInv
<1>2. IInv /\ [Next]_vars => IInv'
  BY NextIInv
<1> QED BY <1>1, <1>2, PTL DEF Spec

(* The variables keep their types.                                         *)
THEOREM TypeCorrect == Spec => []TypeOK
BY InductiveInvariant, TypesTogether, PTL

(* A breaker's state and counters agree, whatever calls end in whatever    *)
(* order: recordSuccess, recordFailure, isCircuitOpen and the resets.      *)
THEOREM BreakerStaysConsistent == Spec => []BreakerConsistent
BY InductiveInvariant, PTL DEF IInv

(* No call makes more than maxAttempts attempts.                           *)
THEOREM BudgetIsKept == Spec => []AttemptsWithinBudget
BY InductiveInvariant, PTL DEF IInv

(* activeRetries holds no entry of a call that ended, although calls for   *)
(* the same operation overwrite and delete each other's entries.           *)
THEOREM ActiveRetriesDoNotLeak == Spec => []NoRetryLeak
BY InductiveInvariant, PTL DEF IInv

-----------------------------------------------------------------------------
(* What a step of a call may do to an open breaker.                        *)
OpenStep ==
  breaker.state = "open" =>
    /\ breaker'.state = "half-open" => breaker.windowOver
    /\ breaker'.state = "closed" => pc' = pc

(* A success or a failure that comes while the breaker is open leaves its  *)
(* state alone.                                                            *)
LEMMA LateAnswerKeepsOpen ==
  ASSUME BreakerType, breaker.state = "open",
         breaker' = RecordSuccess \/ breaker' = RecordFailure
  PROVE  breaker'.state = "open"
<1>1. CASE breaker' = RecordSuccess
  BY <1>1 DEF RecordSuccess
<1>2. CASE breaker' = RecordFailure
  <2>1. breaker' = [breaker EXCEPT !.failures = CountUp(breaker.failures, Threshold)]
    BY <1>2 DEF RecordFailure
  <2> QED BY <2>1 DEF BreakerType
<1> QED BY <1>1, <1>2

LEMMA NextOpenStep == IInv /\ [Next]_vars => OpenStep
<1> SUFFICES ASSUME IInv, [Next]_vars, breaker.state = "open"
             PROVE  /\ breaker'.state = "half-open" => breaker.windowOver
                    /\ breaker'.state = "closed" => pc' = pc
  BY DEF OpenStep
<1> USE DEF IInv
<1>1. CASE \E c \in Calls, o \in Ops : ExecuteWithRetry(c, o)
  <2>1. breaker' = BreakerAfterCheck
    BY <1>1 DEF ExecuteWithRetry
  <2>2. CASE breaker.windowOver
    <3>1. breaker'.state = "half-open"
      BY <2>1, <2>2 DEF BreakerAfterCheck, BreakerType
    <3> QED BY <2>2, <3>1
  <2>3. CASE ~breaker.windowOver
    BY <2>1, <2>3 DEF BreakerAfterCheck
  <2> QED BY <2>2, <2>3
<1>2. CASE \E c \in Calls : AttemptSucceeds(c)
  <2>1. breaker'.state = "open"
    BY <1>2, LateAnswerKeepsOpen DEF AttemptSucceeds
  <2> QED BY <2>1
<1>3. CASE \E c \in Calls, retryable \in BOOLEAN : AttemptFails(c, retryable)
  <2>1. breaker'.state = "open"
    BY <1>3, LateAnswerKeepsOpen DEF AttemptFails
  <2> QED BY <2>1
<1>4. CASE \E c \in Calls : DelayEnds(c) \/ Return(c)
  BY <1>4 DEF DelayEnds, Return
<1>5. CASE WindowEnds
  BY <1>5 DEF WindowEnds, callVars, BreakerType
<1>6. CASE ResetCircuitBreaker \/ Destroy
  <2>1. pc' = pc
    BY <1>6 DEF ResetCircuitBreaker, Destroy, callVars
  <2>2. breaker'.state = "closed"
    <3>1. CASE ResetCircuitBreaker
      BY <3>1, BreakerFields DEF ResetCircuitBreaker
    <3>2. CASE Destroy
      BY <3>2 DEF Destroy, ClosedBreaker
    <3> QED BY <1>6, <3>1, <3>2
  <2> QED BY <2>1, <2>2
<1>7. CASE UNCHANGED vars
  BY <1>7 DEF vars
<1> QED BY <1>1, <1>2, <1>3, <1>4, <1>5, <1>6, <1>7 DEF Next, CallStep

(* An open breaker turns half-open only when its window is over, and is    *)
(* closed by a reset and never by a call: a late success of a call that    *)
(* was admitted before it opened does not close it (recordSuccess).        *)
THEOREM OpenBreakerWaits == Spec => OpenStaysUntilWindow
<1>1. IInv /\ [Next]_vars =>
        [breaker.state = "open" =>
           /\ breaker'.state = "half-open" => breaker.windowOver
           /\ breaker'.state = "closed" => pc' = pc]_vars
  BY NextOpenStep DEF OpenStep
<1> QED BY <1>1, InductiveInvariant, PTL DEF Spec, OpenStaysUntilWindow
=============================================================================
