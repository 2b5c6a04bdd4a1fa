--------------------------- MODULE BackgroundJobs ---------------------------
(***************************************************************************)
(* The background job runner of SessionManager (src/core/SessionManager.ts,*)
(* "Background Job Management Methods").                                   *)
(*                                                                         *)
(* The Node.js event loop runs one callback at a time.  An action is one   *)
(* callback together with the promise continuations that drain before the  *)
(* next one: a call of executeBackgroundJob, cancelJob,                    *)
(* cleanupCompletedJobs or destroy; a setImmediate callback; an event of a *)
(* child process; a timer.  An activation of processJobQueue spends its    *)
(* life suspended at `await this.runJob(job)`; `awaiting` is the set of    *)
(* jobs some activation is suspended on.                                   *)
(*                                                                         *)
(* Abstracted: the text a job prints, exit codes other than zero and       *)
(* non-zero, and time (a timer may fire at any moment, and a cut-off date  *)
(* may separate the finished jobs in any way).                             *)
(***************************************************************************)
EXTENDS Integers, Sequences, FiniteSets

CONSTANTS
  Jobs,               \* the jobs that may be submitted, each at most once
  Priorities,         \* the priorities callers ask for
  MaxConcurrentJobs   \* maxConcurrentJobs, 5 in the code

ASSUME JobsAssumption == IsFiniteSet(Jobs)
ASSUME PrioritiesAssumption == Priorities \subseteq Int
ASSUME MaxAssumption == MaxConcurrentJobs \in Nat \ {0}

VARIABLES
  priority,        \* the priority each caller passes (never changes)
  backgroundJobs,  \* the keys of the map the job tools look jobs up in
  jobQueue,        \* jobs waiting for a slot
  activeJobs,      \* jobs holding a slot
  status,          \* job.status; "none" before the job is submitted
  proc,            \* the operating-system process behind job.process
  awaiting,        \* jobs whose processJobQueue activation awaits runJob
  wakeups,         \* setImmediate(processJobQueue) callbacks not yet run
  metrics          \* this.metrics: executed, successful, failed

vars == <<priority, backgroundJobs, jobQueue, activeJobs, status, proc,
          awaiting, wakeups, metrics>>

Statuses  == {"none", "pending", "running", "completed", "failed", "cancelled"}
Finished  == {"completed", "failed", "cancelled"}
ProcStates == {"none",    \* never spawned
               "live",    \* spawned, nobody asked it to stop
               "killed",  \* sent SIGTERM, not yet closed
               "error",   \* spawn reported an error
               "closed"}  \* the 'close' event was delivered

-----------------------------------------------------------------------------
(* jobQueue.sort by descending priority; Array.prototype.sort is stable.   *)

Before(q, i, k) ==
  \/ priority[q[i]] > priority[q[k]]
  \/ priority[q[i]] = priority[q[k]] /\ i < k

Rank(q, k) == 1 + Cardinality({i \in DOMAIN q : Before(q, i, k)})

(* Mutant: the sort is dropped.                                            *)
UnsortedQueue(q) == q

SortByPriority(q) ==
  [r \in DOMAIN q |-> q[CHOOSE k \in DOMAIN q : Rank(q, k) = r]]

-----------------------------------------------------------------------------
Init ==
  /\ priority \in [Jobs -> Priorities]
  /\ backgroundJobs = {}
  /\ jobQueue = <<>>
  /\ activeJobs = {}
  /\ status = [j \in Jobs |-> "none"]
  /\ proc = [j \in Jobs |-> "none"]
  /\ awaiting = {}
  /\ wakeups = 0
  /\ metrics = [executed |-> 0, successful |-> 0, failed |-> 0]

SlotFree == Cardinality(activeJobs) < MaxConcurrentJobs

(* The synchronous part of processJobQueue on queue q with job statuses s: *)
(* up to the await.  A full pool returns before the queue is even sorted.  *)
ProcessJobQueue(q, s) ==
  IF SlotFree /\ q # <<>>
    THEN LET sorted == SortByPriority(q)
             job    == Head(sorted)
         IN  /\ jobQueue' = Tail(sorted)
             /\ activeJobs' = activeJobs \cup {job}
             /\ status' = [s EXCEPT ![job] = "running"]
             /\ proc' = [proc EXCEPT ![job] = "live"]
             /\ awaiting' = awaiting \cup {job}
    ELSE /\ jobQueue' = q
         /\ status' = s
         /\ UNCHANGED <<activeJobs, proc, awaiting>>

(* executeBackgroundJob: record the job, queue it, try to start a job.     *)
ExecuteBackgroundJob(j) ==
  /\ status[j] = "none"
  /\ backgroundJobs' = backgroundJobs \cup {j}
  /\ ProcessJobQueue(Append(jobQueue, j), [status EXCEPT ![j] = "pending"])
  /\ UNCHANGED <<priority, wakeups, metrics>>

(* A setImmediate callback runs processJobQueue.                           *)
Wakeup ==
  /\ wakeups > 0
  /\ wakeups' = wakeups - 1
  /\ ProcessJobQueue(jobQueue, status)
  /\ UNCHANGED <<priority, backgroundJobs, metrics>>

(* Mutant: the queue is looked at again only by a job that held a slot.    *)
SettleWakesIfSlotHeld(j, successful) ==
  IF j \in awaiting
    THEN /\ awaiting' = awaiting \ {j}
         /\ activeJobs' = activeJobs \ {j}
         /\ metrics' = [executed   |-> metrics.executed + 1,
                        successful |-> metrics.successful +
                                         (IF successful THEN 1 ELSE 0),
                        failed     |-> metrics.failed +
                                         (IF successful THEN 0 ELSE 1)]
         /\ wakeups' = wakeups + (IF jobQueue # <<>> /\ j \in activeJobs
                                    THEN 1 ELSE 0)
    ELSE UNCHANGED <<awaiting, activeJobs, metrics, wakeups>>

(* Mutant: the end of a job is counted each time it is reported.           *)
SettleEachTime(j, successful) ==
  /\ awaiting' = awaiting \ {j}
  /\ activeJobs' = activeJobs \ {j}
  /\ metrics' = [executed   |-> metrics.executed + 1,
                 successful |-> metrics.successful +
                                  (IF successful THEN 1 ELSE 0),
                 failed     |-> metrics.failed +
                                  (IF successful THEN 0 ELSE 1)]
  /\ wakeups' = wakeups + (IF jobQueue # <<>> THEN 1 ELSE 0)

(* The promise of runJob(j) is settled: the rest of processJobQueue, its   *)
(* catch included, runs.  Nobody awaits a promise settled before.          *)
Settle(j, successful) ==
  IF j \in awaiting
    THEN /\ awaiting' = awaiting \ {j}
         /\ activeJobs' = activeJobs \ {j}
         /\ metrics' = [executed   |-> metrics.executed + 1,
                        successful |-> metrics.successful +
                                         (IF successful THEN 1 ELSE 0),
                        failed     |-> metrics.failed +
                                         (IF successful THEN 0 ELSE 1)]
         /\ wakeups' = wakeups + (IF jobQueue # <<>> THEN 1 ELSE 0)
    ELSE UNCHANGED <<awaiting, activeJobs, metrics, wakeups>>

(* The 'close' event.  It overwrites whatever status the job has.          *)
ProcessClose(j) ==
  /\ proc[j] \in {"live", "killed", "error"}
  /\ \E zero \in (IF proc[j] = "error" THEN {FALSE} ELSE BOOLEAN) :
       /\ status' = [status EXCEPT ![j] = IF zero THEN "completed"
                                                  ELSE "failed"]
       /\ Settle(j, zero)
  /\ proc' = [proc EXCEPT ![j] = "closed"]
  /\ UNCHANGED <<priority, backgroundJobs, jobQueue>>

(* The 'error' event, or spawn throwing: there is no process.              *)
ProcessError(j) ==
  /\ proc[j] = "live"
  /\ proc' = [proc EXCEPT ![j] = "error"]
  /\ status' = [status EXCEPT ![j] = "failed"]
  /\ Settle(j, FALSE)
  /\ UNCHANGED <<priority, backgroundJobs, jobQueue>>

KillAll(S) ==
  [i \in Jobs |-> IF i \in S /\ proc[i] = "live" THEN "killed" ELSE proc[i]]

(* The timeout of runJob; it does nothing unless the job still runs.       *)
JobTimeout(j) ==
  /\ proc[j] # "none"
  /\ status[j] = "running"
  /\ proc' = KillAll({j})
  /\ status' = [status EXCEPT ![j] = "failed"]
  /\ Settle(j, FALSE)
  /\ UNCHANGED <<priority, backgroundJobs, jobQueue>>

(* Mutant: the slot is left to the end of the process, which may have been *)
(* reported already.                                                       *)
CancelKeepsSlot(j) ==
  /\ j \in backgroundJobs
  /\ proc' = KillAll({j})
  /\ status' = [status EXCEPT ![j] = "cancelled"]
  /\ UNCHANGED <<priority, backgroundJobs, jobQueue, activeJobs, awaiting,
                 wakeups, metrics>>

(* Mutant: the process is not killed.                                      *)
CancelWithoutKill(j) ==
  /\ j \in backgroundJobs
  /\ status' = [status EXCEPT ![j] = "cancelled"]
  /\ activeJobs' = activeJobs \ {j}
  /\ UNCHANGED <<priority, backgroundJobs, jobQueue, proc, awaiting, wakeups,
                 metrics>>

(* cancelJob: any job of the map, whatever its status; the job stays in    *)
(* jobQueue if it is there, and nothing is woken up.                       *)
CancelJob(j) ==
  /\ j \in backgroundJobs
  /\ proc' = KillAll({j})
  /\ status' = [status EXCEPT ![j] = "cancelled"]
  /\ activeJobs' = activeJobs \ {j}
  /\ UNCHANGED <<priority, backgroundJobs, jobQueue, awaiting, wakeups,
                 metrics>>

(* cleanupCompletedJobs: drop finished jobs from the map, and only there.  *)
CleanupCompletedJobs(S) ==
  /\ S \subseteq {j \in backgroundJobs : status[j] \in Finished}
  /\ S # {}
  /\ backgroundJobs' = backgroundJobs \ S
  /\ UNCHANGED <<priority, jobQueue, activeJobs, status, proc, awaiting,
                 wakeups, metrics>>

(* destroy: kill what runs, forget everything.                             *)
Destroy ==
  /\ proc' = KillAll({j \in backgroundJobs : status[j] = "running"})
  /\ backgroundJobs' = {}
  /\ jobQueue' = <<>>
  /\ activeJobs' = {}
  /\ UNCHANGED <<priority, status, awaiting, wakeups, metrics>>

Next ==
  \/ \E j \in Jobs : \/ ExecuteBackgroundJob(j)
                     \/ ProcessClose(j)
                     \/ ProcessError(j)
                     \/ JobTimeout(j)
                     \/ CancelJob(j)
  \/ Wakeup
  \/ \E S \in SUBSET Jobs : CleanupCompletedJobs(S)
  \/ Destroy

Spec == Init /\ [][Next]_vars

(* The event loop runs every immediate and every timer.  Nothing is assumed *)
(* of a process, killed or not: it runs in a shell, SIGTERM is all it is    *)
(* ever sent, and 'close' waits for every holder of its output besides.     *)
Fairness ==
  /\ WF_vars(Wakeup)
  /\ \A j \in Jobs : WF_vars(JobTimeout(j))

FairSpec == Spec /\ Fairness

-----------------------------------------------------------------------------
(* Every variable has its type.                                            *)
TypeOK ==
  /\ priority \in [Jobs -> Priorities]
  /\ backgroundJobs \in SUBSET Jobs
  /\ jobQueue \in Seq(Jobs)
  /\ activeJobs \in SUBSET Jobs
  /\ status \in [Jobs -> Statuses]
  /\ proc \in [Jobs -> ProcStates]
  /\ awaiting \in SUBSET Jobs
  /\ wakeups \in Nat
  /\ metrics \in [executed : Nat, successful : Nat, failed : Nat]

QueuedJobs == {jobQueue[i] : i \in DOMAIN jobQueue}

(* The pool never hands out more slots than maxConcurrentJobs, whatever    *)
(* the interleaving of submissions, immediates and endings of jobs.        *)
SlotBound == Cardinality(activeJobs) <= MaxConcurrentJobs

(* A slot belongs to a job that is running and whose end will release it:  *)
(* no cancellation, timeout or late 'close' event leaves a slot taken.     *)
SlotsAreReleasable ==
  \A j \in activeJobs : j \in awaiting /\ status[j] = "running"

(* No job waits without a cause that will look at the queue again: while   *)
(* jobs wait, every slot is accounted for by an unfinished runJob, whose   *)
(* end schedules processJobQueue, or by a callback already scheduled.      *)
(* cancelJob frees a slot without waking anybody, so this rests on the     *)
(* killed process's activation still being there to do it.                 *)
NoLostWakeup ==
  jobQueue # <<>> =>
    Cardinality(awaiting) + wakeups >= MaxConcurrentJobs

(* The counters agree with what happened: every job that was started and   *)
(* is no longer awaited was counted once, as successful or as failed, even *)
(* if it was cancelled, timed out and closed.                              *)
MetricsConserved ==
  LET started == {j \in Jobs : proc[j] # "none"}
  IN  /\ metrics.executed = metrics.successful + metrics.failed
      /\ metrics.executed + Cardinality(awaiting) = Cardinality(started)

(* A waiting job is in the queue once and was never started.               *)
QueueHoldsFreshJobs ==
  /\ \A i, k \in DOMAIN jobQueue : jobQueue[i] = jobQueue[k] => i = k
  /\ \A j \in QueuedJobs : proc[j] = "none" /\ status[j] \in
                                                 {"pending", "cancelled"}

(* A step that starts a job starts one of the highest priority waiting,    *)
(* and among those the one that came first; the one submitted by the step  *)
(* itself came last.                                                       *)
Started(j) == proc[j] = "none" /\ proc'[j] # "none"
InOrder ==
  \A j \in Jobs : Started(j) =>
    /\ \A k \in QueuedJobs : priority[k] <= priority[j]
    /\ \A i, k \in DOMAIN jobQueue :
         /\ jobQueue[k] = j
         /\ priority[jobQueue[i]] = priority[j]
         => k <= i
    /\ j \notin QueuedJobs =>
         \A k \in QueuedJobs : priority[k] < priority[j]
StartsInPriorityOrder == [][InOrder]_vars

(* A job that was cancelled, whose process was told to end and has not.    *)
Lingers(j) == j \in awaiting /\ status[j] = "cancelled" /\ proc[j] = "killed"

(* The timers and callbacks keep the jobs moving whatever the processes do: *)
(* a started job is accounted for in the end, and a job leaves the queue,   *)
(* unless it, or a job that held a slot before it, was cancelled and its    *)
(* killed process lingers: no timer settles that one, and nothing else      *)
(* wakes the queue up.                                                      *)
JobsMoveOn ==
  \A j \in Jobs :
    /\ j \in awaiting ~> j \notin awaiting \/ Lingers(j)
    /\ j \in QueuedJobs ~> j \notin QueuedJobs \/ \E i \in Jobs : Lingers(i)

(* What the documents and tests say, and the code does not do.             *)

(* docs/RACE_CONDITION_SOLUTION_PLAN.md:83 "Concurrency control (max 5     *)
(* concurrent jobs)": no more than that many processes at a time.          *)
LiveProcessBound ==
  Cardinality({j \in Jobs : proc[j] \in {"live", "killed"}})
    <= MaxConcurrentJobs

(* docs/TOOLS.md:722 lists 'cancelled' as a status of its own, and the     *)
(* test at tests/integration/background-jobs.test.ts.disabled:247 expects  *)
(* it of a job that was cancelled: the status of a cancelled job stays.    *)
CancelledStaysCancelled ==
  [][\A j \in Jobs : status[j] = "cancelled" => status'[j] = "cancelled"]_vars

(* A job cancelled before it was started is not started afterwards         *)
(* (README.md:55 "Job Control: Cancel, pause, or resume background         *)
(* operations").                                                           *)
CancelledJobNeverStarts ==
  [][\A j \in Jobs : status[j] = "cancelled" => ~Started(j)]_vars

(* docs/RACE_CONDITION_SOLUTION_PLAN.md:84 "Full lifecycle management       *)
(* (pending -> running -> completed/failed)": no job waits for ever.        *)
QueuedJobsStart == \A j \in Jobs : j \in QueuedJobs ~> j \notin QueuedJobs

=============================================================================
