---------------------------- MODULE RetryManager ----------------------------
(***************************************************************************)
(* RetryManager (src/core/RetryManager.ts): executeWithRetry and the       *)
(* circuit breaker it consults.  One breaker key is modelled, shared by    *)
(* concurrent calls; breakers of different keys do not interact.           *)
(*                                                                         *)
(* A call is a coroutine: it is suspended while operation() runs           *)
(* ("attempting") and while it sleeps before the next attempt ("waiting"). *)
(* An action is what runs between two suspensions.                         *)
(*                                                                         *)
(* Abstracted: what the operation does (it succeeds, or fails with an      *)
(* error that shouldRetry accepts or not); delays (a sleep may end at any  *)
(* time); the clock, of which only "nextAttemptTime has passed" is kept.   *)
(* breaker.failures is compared with the threshold only while it is below  *)
(* it, so counting stops at the threshold.  No entry in circuitBreakers    *)
(* and a closed breaker with zero counters behave alike and are one state. *)
(***************************************************************************)
EXTENDS Integers, FiniteSets

CONSTANTS
  Calls,             \* the concurrent callers of executeWithRetry
  Ops,               \* operation names
  MaxAttempts,       \* strategy.maxAttempts
  Threshold,         \* strategy.circuitBreakerThreshold
  SuccessesToClose   \* 3 in the code

NoCall == "no call"

ASSUME CallsAssumption == NoCall \notin Calls
ASSUME BoundsAssumption ==
  /\ MaxAttempts \in Nat \ {0}
  /\ Threshold \in Nat \ {0}
  /\ SuccessesToClose \in Nat \ {0}

VARIABLES
  breaker,        \* the circuit breaker of the key
  pc,             \* where each call is
  attemptNumber,  \* context.attemptNumber of each call
  op,             \* the operation each call was made for
  activeRetries,  \* the map: operation -> the call whose context it holds
  probing         \* history: the calls admitted by a half-open breaker

vars == <<breaker, pc, attemptNumber, op, activeRetries, probing>>
callVars == <<pc, attemptNumber, op, activeRetries, probing>>

InFlight == {c \in Calls : pc[c] \in {"attempting", "waiting"}}

ClosedBreaker == [state |-> "closed", failures |-> 0, successCount |-> 0,
                  windowOver |-> FALSE]

Init ==
  /\ breaker = ClosedBreaker
  /\ pc = [c \in Calls |-> "idle"]
  /\ attemptNumber = [c \in Calls |-> 0]
  /\ op \in [Calls -> Ops]
  /\ activeRetries = [o \in Ops |-> NoCall]
  /\ probing = {}

-----------------------------------------------------------------------------
CountUp(n, bound) == IF n < bound THEN n + 1 ELSE n

(* isCircuitOpen: reading an open breaker whose window is over turns it    *)
(* half-open.                                                              *)
IsCircuitOpen == breaker.state = "open" /\ ~breaker.windowOver

BreakerAfterCheck ==
  IF breaker.state = "open" /\ breaker.windowOver
    THEN [breaker EXCEPT !.state = "half-open", !.successCount = 0]
    ELSE breaker

(* Mutant: a success counts in whatever state the breaker is.              *)
RecordSuccessAnyState ==
  IF breaker.state # "closed"
    THEN IF breaker.successCount + 1 >= SuccessesToClose
           THEN [breaker EXCEPT !.state = "closed", !.failures = 0,
                                !.successCount = @ + 1]
           ELSE [breaker EXCEPT !.successCount = @ + 1]
    ELSE IF breaker.failures > 0
           THEN [breaker EXCEPT !.failures = @ - 1]
           ELSE breaker

(* Mutant: the failure count survives closing.                             *)
RecordSuccessKeepsFailures ==
  IF breaker.state = "half-open"
    THEN IF breaker.successCount + 1 >= SuccessesToClose
           THEN [breaker EXCEPT !.state = "closed",
                                !.successCount = @ + 1]
           ELSE [breaker EXCEPT !.successCount = @ + 1]
    ELSE IF breaker.state = "closed" /\ breaker.failures > 0
           THEN [breaker EXCEPT !.failures = @ - 1]
           ELSE breaker

RecordSuccess ==
  IF breaker.state = "half-open"
    THEN IF breaker.successCount + 1 >= SuccessesToClose
           THEN [breaker EXCEPT !.state = "closed", !.failures = 0,
                                !.successCount = @ + 1]
           ELSE [breaker EXCEPT !.successCount = @ + 1]
    ELSE IF breaker.state = "closed" /\ breaker.failures > 0
           THEN [breaker EXCEPT !.failures = @ - 1]
           ELSE breaker

(* recordFailure: a closed breaker opens at the threshold, a half-open one *)
(* at once, each with a new window; an open one only counts.               *)
RecordFailure ==
  LET failures == CountUp(breaker.failures, Threshold)
  IN  IF \/ breaker.state = "half-open"
         \/ breaker.state = "closed" /\ failures >= Threshold
        THEN [breaker EXCEPT !.state = "open", !.failures = failures,
                             !.windowOver = FALSE]
        ELSE [breaker EXCEPT !.failures = failures]

-----------------------------------------------------------------------------
(* executeWithRetry up to the first await of operation().                  *)
ExecuteWithRetry(c, o) ==
  /\ pc[c] = "idle"
  /\ op' = [op EXCEPT ![c] = o]
  /\ breaker' = BreakerAfterCheck
  /\ IF IsCircuitOpen
       THEN /\ pc' = [pc EXCEPT ![c] = "rejected"]
            /\ UNCHANGED <<attemptNumber, activeRetries, probing>>
       ELSE /\ pc' = [pc EXCEPT ![c] = "attempting"]
            /\ attemptNumber' = [attemptNumber EXCEPT ![c] = 1]
            /\ activeRetries' = [activeRetries EXCEPT ![o] = c]
            /\ probing' = IF breaker'.state = "half-open"
                            THEN probing \cup {c} ELSE probing

(* The end of a call: the finally block of executeWithRetry deletes the    *)
(* entry of the operation, whoever put it there.                           *)
Finish(c, result) ==
  /\ pc' = [pc EXCEPT ![c] = result]
  /\ attemptNumber' = [attemptNumber EXCEPT ![c] = 0]
  /\ activeRetries' = [activeRetries EXCEPT ![op[c]] = NoCall]
  /\ probing' = probing \ {c}

(* operation() resolved.                                                   *)
AttemptSucceeds(c) ==
  /\ pc[c] = "attempting"
  /\ breaker' = RecordSuccess
  /\ Finish(c, "resolved")
  /\ UNCHANGED op

(* operation() rejected, with an error the strategy retries or not.        *)
AttemptFails(c, retryable) ==
  /\ pc[c] = "attempting"
  /\ breaker' = RecordFailure
  /\ IF retryable /\ attemptNumber[c] < MaxAttempts
       THEN /\ pc' = [pc EXCEPT ![c] = "waiting"]
            /\ UNCHANGED <<attemptNumber, activeRetries, probing>>
       ELSE Finish(c, "rejected")
  /\ UNCHANGED op

(* Mutant: the loop does not count its rounds.                             *)
DelayEndsUncounted(c) ==
  /\ pc[c] = "waiting"
  /\ pc' = [pc EXCEPT ![c] = "attempting"]
  /\ UNCHANGED <<breaker, attemptNumber, op, activeRetries, probing>>

(* The delay is over: the next attempt starts without asking the breaker.  *)
DelayEnds(c) ==
  /\ pc[c] = "waiting"
  /\ pc' = [pc EXCEPT ![c] = "attempting"]
  /\ attemptNumber' = [attemptNumber EXCEPT ![c] = @ + 1]
  /\ UNCHANGED <<breaker, op, activeRetries, probing>>

(* The caller has its answer and may call again.                           *)
Return(c) ==
  /\ pc[c] \in {"resolved", "rejected"}
  /\ pc' = [pc EXCEPT ![c] = "idle"]
  /\ UNCHANGED <<breaker, attemptNumber, op, activeRetries, probing>>

(* nextAttemptTime passes.                                                 *)
WindowEnds ==
  /\ breaker.state = "open" /\ ~breaker.windowOver
  /\ breaker' = [breaker EXCEPT !.windowOver = TRUE]
  /\ UNCHANGED callVars

(* resetCircuitBreaker and resetAllCircuitBreakers.                        *)
ResetCircuitBreaker ==
  /\ breaker' = [breaker EXCEPT !.state = "closed", !.failures = 0,
                                !.successCount = 0]
  /\ UNCHANGED callVars

(* destroy: both maps are cleared; calls in flight go on.                  *)
Destroy ==
  /\ breaker' = ClosedBreaker
  /\ activeRetries' = [o \in Ops |-> NoCall]
  /\ UNCHANGED <<pc, attemptNumber, op, probing>>

CallStep(c) ==
  \/ AttemptSucceeds(c)
  \/ \E retryable \in BOOLEAN : AttemptFails(c, retryable)
  \/ DelayEnds(c)

Next ==
  \/ \E c \in Calls : \/ \E o \in Ops : ExecuteWithRetry(c, o)
                      \/ CallStep(c)
                      \/ Return(c)
  \/ WindowEnds
  \/ ResetCircuitBreaker
  \/ Destroy

Spec == Init /\ [][Next]_vars

(* operation() settles and timers fire; time passes.                       *)
Fairness ==
  /\ \A c \in Calls : WF_vars(CallStep(c))
  /\ WF_vars(WindowEnds)

FairSpec == Spec /\ Fairness

-----------------------------------------------------------------------------
(* Every variable has its type.                                            *)
TypeOK ==
  /\ breaker \in [state : {"closed", "open", "half-open"},
                  failures : 0..Threshold,
                  successCount : 0..SuccessesToClose,
                  windowOver : BOOLEAN]
  /\ pc \in [Calls -> {"idle", "attempting", "waiting",
                       "resolved", "rejected"}]
  /\ attemptNumber \in [Calls -> 0..MaxAttempts]
  /\ op \in [Calls -> Ops]
  /\ activeRetries \in [Ops -> Calls \cup {NoCall}]
  /\ probing \in SUBSET Calls

(* The state and the counters agree whatever calls end in whatever order,  *)
(* late ones included: a closed breaker is below its threshold (so the     *)
(* next failure is what can open it, and it never opens late), one that is *)
(* not closed reached it, and a half-open one lacks a success.             *)
BreakerConsistent ==
  /\ breaker.state = "closed" <=> breaker.failures < Threshold
  /\ breaker.state = "half-open" => breaker.successCount < SuccessesToClose

(* No entry of activeRetries outlives the calls: an entry belongs to a     *)
(* call in flight for that operation, although concurrent calls overwrite  *)
(* and delete each other's.                                                *)
NoRetryLeak ==
  \A o \in Ops : activeRetries[o] # NoCall =>
    activeRetries[o] \in InFlight /\ op[activeRetries[o]] = o

(* A call in flight has attempts left to account for, and makes at most    *)
(* maxAttempts of them, however the breaker changes meanwhile; one that is *)
(* waiting will make another.                                              *)
AttemptsWithinBudget ==
  \A c \in Calls :
    /\ c \in InFlight <=> attemptNumber[c] \in 1..MaxAttempts
    /\ pc[c] = "waiting" => attemptNumber[c] < MaxAttempts

(* An open breaker turns half-open when its window is over, and otherwise  *)
(* closes only when no call takes a step (a manual reset, destroy): a      *)
(* success that comes late, from a call admitted before it opened, changes *)
(* nothing.                                                                *)
OpenStaysUntilWindow ==
  [][breaker.state = "open" =>
       /\ breaker'.state = "half-open" => breaker.windowOver
       /\ breaker'.state = "closed" => pc' = pc]_vars

(* Every call made ends.                                                   *)
CallsEnd == \A c \in Calls : c \in InFlight ~> c \notin InFlight

(* What the code's own comments say, and the code does not do.             *)

(* src/core/RetryManager.ts:415 "Allow limited attempts in half-open       *)
(* state": no more calls are let through than it takes to close it.        *)
HalfOpenAttemptsLimited ==
  breaker.state = "half-open" => Cardinality(probing) <= SuccessesToClose
=============================================================================
