----------------------------- MODULE WorkerPool -----------------------------
(* WorkerPool of the test framework: a queue of tasks, worker threads that    *)
(* run one task each, a timer per task, the heartbeat monitor, replacement of *)
(* workers that end, and shutdown.                                            *)
(*                                                                            *)
(* Every handler runs to its end in one turn of the event loop: createWorker  *)
(* is async in name only, and terminateWorker is not awaited by its callers   *)
(* but shutdown. Worker threads run beside it.                                *)
EXTENDS Naturals, Sequences, FiniteSets

CONSTANTS
    Tasks,
    NoTask,
    Hooked,       \* tasks of tests with a setup or teardown function, which cannot be posted
    MaxWorkers,   \* WorkerPoolConfig.maxWorkers
    MaxFailures   \* bound: threads that fail by themselves, heartbeats missed, threads not made

ASSUME WorkerPoolAssumption ==
    /\ IsFiniteSet(Tasks) /\ NoTask \notin Tasks /\ Hooked \subseteq Tasks
    /\ MaxWorkers \in Nat \ {0} /\ MaxFailures \in Nat

VARIABLES
    queue,     \* taskQueue
    listed,    \* ids in this.workers
    task,      \* currentTask of each worker, NoTask when it is not busy
    timer,     \* the task whose taskTimeout is pending, of each worker
    thread,    \* the worker threads; "unmade" for an id whose creation failed
    running,   \* the task a thread has, until its message is handled
    promise,   \* the promises of executeTask
    got,       \* the task whose result a promise was resolved with
    phase,     \* shutdown
    leaving,   \* the workers shutdown waits for
    failures   \* failures so far

vars == <<queue, listed, task, timer, thread, running, promise, got, phase, leaving, failures>>

(* Timeouts and failures make workers: no more than one each. *)
WorkerIds == 1..(MaxWorkers + Cardinality(Tasks) + MaxFailures)

TypeOK ==
    /\ queue \in Seq(Tasks)
    /\ listed \subseteq WorkerIds /\ leaving \subseteq WorkerIds
    /\ task \in [WorkerIds -> Tasks \cup {NoTask}]
    /\ timer \in [WorkerIds -> Tasks \cup {NoTask}]
    /\ running \in [WorkerIds -> Tasks \cup {NoTask}]
    /\ thread \in [WorkerIds -> {"none", "alive", "failing", "ending", "gone", "unmade"}]
    /\ promise \in [Tasks -> {"none", "pending", "result", "error"}]
    /\ got \in [Tasks -> Tasks \cup {NoTask}]
    /\ phase \in {"open", "draining", "terminating", "down"}
    /\ failures \in 0..MaxFailures

(* The pool after initialize, which fails if one of its workers is not made. *)
Init ==
    /\ queue = <<>>
    /\ listed = 1..MaxWorkers /\ leaving = {}
    /\ task = [w \in WorkerIds |-> NoTask]
    /\ timer = [w \in WorkerIds |-> NoTask]
    /\ running = [w \in WorkerIds |-> NoTask]
    /\ thread = [w \in WorkerIds |-> IF w <= MaxWorkers THEN "alive" ELSE "none"]
    /\ promise = [t \in Tasks |-> "none"]
    /\ got = [t \in Tasks |-> NoTask]
    /\ phase = "open" /\ failures = 0

(* createWorker: the next id, whatever the number of workers. *)
NewWorker == 1 + Cardinality({w \in WorkerIds : thread[w] # "none"})

(* createWorker, with others and thr the values of listed and thread before:  *)
(* a thread starts, or `new Worker` throws, which its callers only log. The   *)
(* id is used up in both cases, and nobody tries again.                       *)
CreateWorker(others, thr) ==
    \/ /\ thread' = [thr EXCEPT ![NewWorker] = "alive"]
       /\ listed' = others \cup {NewWorker}
       /\ UNCHANGED failures
    \/ /\ failures < MaxFailures /\ failures' = failures + 1
       /\ thread' = [thr EXCEPT ![NewWorker] = "unmade"]
       /\ listed' = others

(* The replacements that were not made. *)
Unmade == {w \in WorkerIds : thread[w] = "unmade"}

(* terminateWorker(force): the thread will exit. One that failed by itself    *)
(* still reports its error first, one that is gone is not in the map.         *)
Terminated(w) == IF thread[w] = "alive" THEN "ending" ELSE thread[w]

(* emit('task-error'): the listeners of a settled promise are gone. *)
Rejected(t) ==
    [s \in Tasks |-> IF s = t /\ promise[s] = "pending" THEN "error" ELSE promise[s]]

(* How many tasks assignTasks takes off the queue q for the idle workers: a   *)
(* task that cannot be posted ends the loop with an exception.                *)
Taken(q, idle) ==
    Cardinality({i \in DOMAIN q : /\ i <= Cardinality(idle)
                                  /\ \A j \in 1..(i - 1) : q[j] \notin Hooked})

(* assignTasks on the queue q, with tk, tm and run the values of task, timer  *)
(* and running: the first tasks to the idle workers in the order of the map.  *)
(* The worker of a task that cannot be posted is busy, without a timer; a     *)
(* thread that is ending does not get to run what is posted to it.            *)
AssignTasks(q, tk, tm, run) ==
    LET idle == {w \in listed : tk[w] = NoTask}
        Rank(w) == Cardinality({v \in idle : v <= w})
        given == {w \in idle : Rank(w) <= Taken(q, idle)}
        posted == {w \in given : q[Rank(w)] \notin Hooked}
    IN  /\ queue' = SubSeq(q, Taken(q, idle) + 1, Len(q))
        /\ task' = [w \in WorkerIds |-> IF w \in given THEN q[Rank(w)] ELSE tk[w]]
        /\ timer' = [w \in WorkerIds |-> IF w \in posted THEN q[Rank(w)] ELSE tm[w]]
        /\ running' = [w \in WorkerIds |->
               IF w \in posted /\ thread[w] = "alive" THEN q[Rank(w)] ELSE run[w]]

(* postMessage throws for the last task that assignTasks takes. *)
PostThrows(q) ==
    LET n == Taken(q, {w \in listed : task[w] = NoTask}) IN n > 0 /\ q[n] \in Hooked

(* executeTask. The exception of a task that cannot be posted rejects the     *)
(* promise of this call, whichever call the task came from.                   *)
ExecuteTask(t) ==
    /\ phase = "open" /\ promise[t] = "none"
    /\ promise' = [promise EXCEPT ![t] = IF PostThrows(Append(queue, t)) THEN "error"
                                         ELSE "pending"]
    /\ AssignTasks(Append(queue, t), task, timer, running)
    /\ UNCHANGED <<listed, thread, got, phase, leaving, failures>>

(* executeTask once shutdown was called. *)
RefuseTask(t) ==
    /\ phase # "open" /\ promise[t] = "none"
    /\ promise' = [promise EXCEPT ![t] = "error"]
    /\ UNCHANGED <<queue, listed, task, timer, thread, running, got, phase, leaving, failures>>

(* A 'result' or 'error' message: handleTaskComplete, handleTaskError. It is  *)
(* taken for the answer to currentTask. What a thread sent before it ended is *)
(* delivered before its exit.                                                 *)
TaskMessage(w) ==
    /\ running[w] # NoTask /\ w \in listed /\ task[w] # NoTask
    /\ \E answer \in {"result", "error"} :
           /\ promise' = [promise EXCEPT ![task[w]] = IF @ = "pending" THEN answer ELSE @]
           /\ got' = [got EXCEPT ![task[w]] =
                  IF promise[task[w]] = "pending" /\ answer = "result" THEN running[w] ELSE @]
    /\ AssignTasks(queue, [task EXCEPT ![w] = NoTask], [timer EXCEPT ![w] = NoTask],
                   [running EXCEPT ![w] = NoTask])
    /\ UNCHANGED <<listed, thread, phase, leaving, failures>>

(* Mutant: the worker is used again instead of being terminated. *)
TaskTimeoutReuses(w) ==
    /\ timer[w] # NoTask /\ task[w] = timer[w]
    /\ promise' = Rejected(task[w])
    /\ AssignTasks(queue, [task EXCEPT ![w] = NoTask], [timer EXCEPT ![w] = NoTask], running)
    /\ UNCHANGED <<listed, thread, got, phase, leaving, failures>>

(* The timer of the current task, also of a worker that has exited since:     *)
(* handleTaskTimeout terminates the worker, if it is still there, and tries   *)
(* to create another. Queued tasks are not looked at.                         *)
TaskTimeout(w) ==
    /\ timer[w] # NoTask /\ task[w] = timer[w]
    /\ timer' = [timer EXCEPT ![w] = NoTask]
    /\ CreateWorker(listed, [thread EXCEPT ![w] = Terminated(w)])
    /\ promise' = Rejected(task[w])
    /\ UNCHANGED <<queue, task, running, got, phase, leaving>>

(* A thread fails: an uncaught exception is reported before it exits, the end *)
(* of the process that a test asks for is not.                                *)
ThreadFails(w) ==
    /\ thread[w] = "alive" /\ failures < MaxFailures
    /\ \E how \in {"failing", "ending"} : thread' = [thread EXCEPT ![w] = how]
    /\ failures' = failures + 1
    /\ UNCHANGED <<queue, listed, task, timer, running, promise, got, phase, leaving>>

(* 'error': handleWorkerError. *)
WorkerError(w) ==
    /\ thread[w] = "failing"
    /\ promise' = Rejected(task[w])
    /\ thread' = [thread EXCEPT ![w] = "ending"]
    /\ UNCHANGED <<queue, listed, task, timer, running, got, phase, leaving, failures>>

(* The monitor misses three heartbeats of a worker, busy or not; shutdown     *)
(* stops it.                                                                  *)
HeartbeatMissed(w) ==
    /\ phase = "open" /\ w \in listed /\ failures < MaxFailures
    /\ promise' = Rejected(task[w])
    /\ thread' = [thread EXCEPT ![w] = Terminated(w)]
    /\ failures' = failures + 1
    /\ UNCHANGED <<queue, listed, task, timer, running, got, phase, leaving>>

(* Mutant: no worker is replaced. *)
WorkerExitsUnreplaced(w) ==
    /\ thread[w] = "ending"
    /\ promise' = Rejected(task[w])
    /\ running' = [running EXCEPT ![w] = NoTask]
    /\ thread' = [thread EXCEPT ![w] = "gone"]
    /\ listed' = listed \ {w}
    /\ UNCHANGED <<queue, task, timer, got, phase, leaving, failures>>

(* Mutant: the timer is cleared and nobody is told. *)
WorkerExitsSilent(w) ==
    /\ thread[w] = "ending"
    /\ timer' = [timer EXCEPT ![w] = NoTask]
    /\ running' = [running EXCEPT ![w] = NoTask]
    /\ CreateWorker(listed \ {w}, [thread EXCEPT ![w] = "gone"])
    /\ UNCHANGED <<queue, task, promise, got, phase, leaving>>

(* 'exit': handleWorkerExit. currentTask and the timer of the task stay. *)
WorkerExits(w) ==
    /\ thread[w] = "ending"
    /\ promise' = Rejected(task[w])
    /\ running' = [running EXCEPT ![w] = NoTask]
    /\ IF phase = "open" /\ Cardinality(listed \ {w}) < MaxWorkers
       THEN CreateWorker(listed \ {w}, [thread EXCEPT ![w] = "gone"])
       ELSE /\ thread' = [thread EXCEPT ![w] = "gone"]
            /\ listed' = listed \ {w}
            /\ UNCHANGED failures
    /\ UNCHANGED <<queue, task, timer, got, phase, leaving>>

(* shutdown. *)
Shutdown ==
    /\ phase = "open"
    /\ phase' = "draining"
    /\ UNCHANGED <<queue, listed, task, timer, thread, running, promise, got, leaving, failures>>

(* Mutant: no end to the wait for busy workers. *)
DrainedPatiently ==
    /\ phase = "draining" /\ \A w \in listed : task[w] = NoTask
    /\ phase' = "terminating" /\ leaving' = listed
    /\ thread' = [w \in WorkerIds |-> IF w \in listed THEN Terminated(w) ELSE thread[w]]
    /\ UNCHANGED <<queue, listed, task, timer, running, promise, got, failures>>

(* No worker is busy, or gracefulShutdownTimeout has passed: every worker     *)
(* there is now is terminated.                                                *)
Drained ==
    /\ phase = "draining"
    /\ phase' = "terminating" /\ leaving' = listed
    /\ thread' = [w \in WorkerIds |-> IF w \in listed THEN Terminated(w) ELSE thread[w]]
    /\ UNCHANGED <<queue, listed, task, timer, running, promise, got, failures>>

ShutdownDone ==
    /\ phase = "terminating" /\ \A w \in leaving : thread[w] = "gone"
    /\ phase' = "down" /\ leaving' = {}
    /\ UNCHANGED <<queue, listed, task, timer, thread, running, promise, got, failures>>

WorkerStep(w) ==
    \/ TaskMessage(w) \/ TaskTimeout(w)
    \/ ThreadFails(w) \/ WorkerError(w) \/ HeartbeatMissed(w) \/ WorkerExits(w)

Next ==
    \/ \E t \in Tasks : ExecuteTask(t) \/ RefuseTask(t)
    \/ \E w \in WorkerIds : WorkerStep(w)
    \/ Shutdown \/ Drained \/ ShutdownDone

Spec == Init /\ [][Next]_vars

(* Timers fire and terminated threads exit; tests need not end.               *)
Fairness ==
    /\ \A w \in WorkerIds : /\ WF_vars(TaskTimeout(w))
                            /\ WF_vars(WorkerError(w)) /\ WF_vars(WorkerExits(w))
    /\ WF_vars(Drained) /\ WF_vars(ShutdownDone)
FairSpec == Spec /\ Fairness

(* --------------------------------------------------------------------------*)
(* Properties.                                                                *)

(* A result is given to the caller whose task it is, although a message is    *)
(* taken for the answer to whatever the worker's current task is, and workers *)
(* are reused, terminated and replaced meanwhile.                             *)
AnswersAreOwn == \A t \in Tasks : promise[t] = "result" => got[t] = t

(* No task is run twice: it is with one worker at most, and not in the queue  *)
(* as well, whatever fails.                                                   *)
RunsOnce ==
    /\ \A v, w \in WorkerIds : v # w /\ task[v] # NoTask => task[v] # task[w]
    /\ \A i, j \in DOMAIN queue : i # j => queue[i] # queue[j]
    /\ \A w \in WorkerIds, i \in DOMAIN queue : task[w] # queue[i]

(* Nobody waits for a task that nothing will report: while its caller waits,  *)
(* a posted task has a timer, also when its worker is gone.                   *)
PostedIsWatched ==
    \A w \in WorkerIds :
        task[w] \in Tasks \ Hooked /\ promise[task[w]] = "pending" => timer[w] = task[w]

(* Every worker that ends is made good for, or an attempt to do so failed: an *)
(* open pool is short of maxWorkers workers by no more than the replacements  *)
(* that could not be created, in whatever order timeouts and exits come.      *)
(* Nothing tries again, so short it may stay.                                 *)
NeverShort ==
    phase = "open" => Cardinality(listed) + Cardinality(Unmade) >= MaxWorkers

Service == INSTANCE TaskService WITH
    waiting <- queue,
    held <- {task[w] : w \in WorkerIds} \ {NoTask},
    answer <- promise

(* Submission, assignTasks, messages, timeouts, exits and replacements keep   *)
(* the promise of TaskService: tasks are given out in order and once, one     *)
(* that waits in the queue does not fail, and each caller is answered once,   *)
(* with the result of its own task.                                           *)
ImplementsTaskService == Service!Spec

(* A task given to a worker is answered, whatever becomes of the worker.      *)
PostedIsAnswered ==
    \A t \in Tasks : (\E w \in WorkerIds : timer[w] = t) ~> promise[t] \in {"result", "error"}

(* A shutdown ends, although workers may be stuck and others still be made.   *)
ShutdownEnds == phase = "draining" ~> phase = "down"

(* "Wait for all tasks to complete" (ParallelExecutor.ts:137): every task     *)
(* that was accepted is answered, unless the pool is shut down before.        *)
AcceptedIsAnswered ==
    \A t \in Tasks : promise[t] = "pending" ~> promise[t] # "pending" \/ phase # "open"

(* "maxWorkers: number" is the size of the pool (WorkerPool.ts:33).           *)
WorkersBounded == Cardinality({w \in listed : thread[w] = "alive"}) <= MaxWorkers
=============================================================================
