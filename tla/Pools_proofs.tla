---------------------------- MODULE Pools_proofs ----------------------------
(* Proofs about the two pools. The first part is about WorkerPool, for any    *)
(* finite set of tasks, any number of workers and any number of failures; the *)
(* second about ConnectionPool, for any callers, connections and limits.      *)
EXTENDS WorkerPool, ConnectionPool, FiniteSetTheorems, TLAPS

MaybeTask == Tasks \cup {NoTask}
Promises == {"none", "pending", "result", "error"}

(* What holds of the queue, the current tasks, the timers, the tasks of the   *)
(* threads and the promises, before assignTasks and after it: a task at hand  *)
(* has been submitted, a thread has the task of its worker, no task is there  *)
(* twice, and a posted one whose caller waits has a timer.                    *)
Consistent(q, tk, tm, run, p) ==
    /\ q \in Seq(Tasks)
    /\ tk \in [WorkerIds -> MaybeTask] /\ tm \in [WorkerIds -> MaybeTask]
    /\ run \in [WorkerIds -> MaybeTask]
    /\ p \in [Tasks -> Promises]
    /\ \A i \in DOMAIN q : p[q[i]] # "none"
    /\ \A w \in WorkerIds : tk[w] # NoTask => p[tk[w]] # "none"
    /\ \A w \in WorkerIds : run[w] # NoTask => run[w] = tk[w]
    /\ \A v, w \in WorkerIds : v # w /\ tk[v] # NoTask => tk[v] # tk[w]
    /\ \A i, j \in DOMAIN q : i # j => q[i] # q[j]
    /\ \A w \in WorkerIds, i \in DOMAIN q : tk[w] # q[i]
    /\ \A w \in WorkerIds : tk[w] \in Tasks \ Hooked /\ p[tk[w]] = "pending" => tm[w] = tk[w]

(* The inductive invariant. *)
IInv ==
    /\ Consistent(queue, task, timer, running, promise)
    /\ got \in [Tasks -> MaybeTask] /\ AnswersAreOwn
    /\ listed \subseteq Nat /\ IsFiniteSet(listed)

-------------------------------------------------------------------------------
(* Workers and ranks. *)

LEMMA WorkersAreNumbers ==
    /\ IsFiniteSet(WorkerIds) /\ WorkerIds \subseteq Nat
    /\ NewWorker \in Nat
<1>1. Cardinality(Tasks) \in Nat
  BY WorkerPoolAssumption, FS_CardinalityType
<1>2. IsFiniteSet(WorkerIds) /\ WorkerIds \subseteq Nat
  <2> DEFINE N == MaxWorkers + Cardinality(Tasks) + MaxFailures
  <2>1. N \in Int /\ 1 \in Int
    BY <1>1, WorkerPoolAssumption
  <2>2. WorkerIds = 1..N
    BY DEF WorkerIds
  <2> HIDE DEF N
  <2>3. IsFiniteSet(1..N)
    BY <2>1, FS_Interval
  <2> QED BY <2>1, <2>2, <2>3
<1>3. IsFiniteSet({w \in WorkerIds : thread[w] # "none"})
  BY <1>2, FS_Subset
<1>4. NewWorker \in Nat
  BY <1>3, FS_CardinalityType DEF NewWorker
<1> QED BY <1>2, <1>4

(* Workers come and go one by one. *)
LEMMA ListedChanges ==
    ASSUME IsFiniteSet(listed), listed \subseteq Nat, NEW w
    PROVE  /\ IsFiniteSet(listed \cup {NewWorker}) /\ listed \cup {NewWorker} \subseteq Nat
           /\ IsFiniteSet(listed \ {w}) /\ listed \ {w} \subseteq Nat
           /\ IsFiniteSet((listed \ {w}) \cup {NewWorker})
           /\ (listed \ {w}) \cup {NewWorker} \subseteq Nat
<1>1. IsFiniteSet(listed \ {w})
  BY FS_RemoveElement
<1> QED BY <1>1, WorkersAreNumbers, FS_AddElement

LEMMA TakenBound ==
    ASSUME NEW q \in Seq(Tasks), NEW idle
    PROVE  Taken(q, idle) \in 0..Len(q)
<1> DEFINE T == {i \in DOMAIN q : /\ i <= Cardinality(idle)
                                  /\ \A j \in 1..(i - 1) : q[j] \notin Hooked}
<1>1. T \subseteq 1..Len(q) /\ Len(q) \in Nat
  OBVIOUS
<1>2. IsFiniteSet(1..Len(q)) /\ Cardinality(1..Len(q)) = Len(q)
  <2>1. 1 \in Int /\ Len(q) \in Int
    BY <1>1
  <2>2. IsFiniteSet(1..Len(q))
    BY <2>1, FS_Interval
  <2>3. Cardinality(1..Len(q)) = IF 1 > Len(q) THEN 0 ELSE Len(q) - 1 + 1
    BY <2>1, FS_Interval
  <2> QED BY <1>1, <2>2, <2>3
<1>3. IsFiniteSet(T) /\ Cardinality(T) <= Len(q)
  BY <1>1, <1>2, FS_Subset
<1>4. Cardinality(T) \in Nat
  BY <1>3, FS_CardinalityType
<1>5. Taken(q, idle) = Cardinality(T)
  BY DEF Taken
<1> HIDE DEF T
<1> QED BY <1>1, <1>3, <1>4, <1>5

Rank(S, w) == Cardinality({v \in S : v <= w})

(* Ranks are positive, and tell the members of a set of numbers apart.        *)
LEMMA RankPositive ==
    ASSUME NEW S, IsFiniteSet(S), S \subseteq Nat, NEW w \in S
    PROVE  Rank(S, w) \in Nat \ {0}
<1> DEFINE W == {u \in S : u <= w}
<1>1. IsFiniteSet(W) /\ w \in W
  BY FS_Subset
<1>2. Cardinality(W) \in Nat /\ Cardinality(W) # 0
  <2>1. W # {}
    BY <1>1
  <2> HIDE DEF W
  <2> QED BY <1>1, <2>1, FS_CardinalityType, FS_EmptySet
<1> QED BY <1>2 DEF Rank

LEMMA RankSmaller ==
    ASSUME NEW S, IsFiniteSet(S), S \subseteq Nat, NEW v \in S, NEW w \in S, v < w
    PROVE  Rank(S, v) < Rank(S, w)
<1> DEFINE V == {u \in S : u <= v}
           W == {u \in S : u <= w}
<1>1. IsFiniteSet(V) /\ IsFiniteSet(W)
  BY FS_Subset
<1>2. w \notin V /\ V \cup {w} \subseteq W
  <2>1. v \in Nat /\ w \in Nat
    OBVIOUS
  <2>2. \A u \in V : u \in S /\ u \in Nat /\ u <= v
    OBVIOUS
  <2>3. \A u \in V : u <= w /\ u # w
    BY <2>1, <2>2
  <2>4. w \in W
    BY <2>1
  <2>5. V \subseteq W
    BY <2>2, <2>3
  <2>6. w \notin V
    BY <2>3
  <2> HIDE DEF V, W
  <2> QED BY <2>4, <2>5, <2>6
<1>3. Cardinality(V \cup {w}) = Cardinality(V) + 1
  <2> HIDE DEF V
  <2> QED BY <1>1, <1>2, FS_AddElement
<1>4. Cardinality(V \cup {w}) <= Cardinality(W)
  <2> HIDE DEF V, W
  <2> QED BY <1>1, <1>2, FS_Subset
<1>5. Cardinality(V) \in Nat /\ Cardinality(W) \in Nat
  BY <1>1, FS_CardinalityType
<1>6. Rank(S, v) = Cardinality(V) /\ Rank(S, w) = Cardinality(W)
  BY DEF Rank
<1> HIDE DEF V, W
<1> QED BY <1>3, <1>4, <1>5, <1>6

LEMMA RankInjective ==
    ASSUME NEW S, IsFiniteSet(S), S \subseteq Nat, NEW v \in S, NEW w \in S, v # w
    PROVE  Rank(S, v) # Rank(S, w)
<1>1. v < w \/ w < v
  OBVIOUS
<1>2. Rank(S, v) \in Nat /\ Rank(S, w) \in Nat
  BY RankPositive
<1>3. Rank(S, v) < Rank(S, w) \/ Rank(S, w) < Rank(S, v)
  BY <1>1, RankSmaller
<1> QED BY <1>2, <1>3

-------------------------------------------------------------------------------
(* assignTasks gives different tasks to different idle workers and leaves the *)
(* others where they are.                                                     *)
LEMMA AssignKeeps ==
    ASSUME IsFiniteSet(listed), listed \subseteq Nat,
           NEW q, NEW tk, NEW tm, NEW run, NEW p, Consistent(q, tk, tm, run, p),
           AssignTasks(q, tk, tm, run)
    PROVE  Consistent(queue', task', timer', running', p)
<1> DEFINE idle == {w \in listed : tk[w] = NoTask}
           n == Taken(q, idle)
           given == {w \in idle : Rank(idle, w) <= n}
           posted == {w \in given : q[Rank(idle, w)] \notin Hooked}
<1>1. /\ queue' = SubSeq(q, n + 1, Len(q))
      /\ task' = [w \in WorkerIds |-> IF w \in given THEN q[Rank(idle, w)] ELSE tk[w]]
      /\ timer' = [w \in WorkerIds |-> IF w \in posted THEN q[Rank(idle, w)] ELSE tm[w]]
      /\ running' = [w \in WorkerIds |->
             IF w \in posted /\ thread[w] = "alive" THEN q[Rank(idle, w)] ELSE run[w]]
  BY DEF AssignTasks, Rank
<1>2. /\ q \in Seq(Tasks) /\ Len(q) \in Nat /\ DOMAIN q = 1..Len(q) /\ n \in 0..Len(q)
      /\ \A i \in DOMAIN q : q[i] \in Tasks /\ q[i] # NoTask
  BY TakenBound, WorkerPoolAssumption DEF Consistent
<1>3. IsFiniteSet(idle) /\ idle \subseteq Nat
  BY FS_Subset
<1>4. \A w \in given : /\ Rank(idle, w) \in 1..n /\ Rank(idle, w) \in DOMAIN q
                       /\ tk[w] = NoTask
  <2> SUFFICES ASSUME NEW w \in given
               PROVE  /\ Rank(idle, w) \in 1..n /\ Rank(idle, w) \in DOMAIN q
                      /\ tk[w] = NoTask
    OBVIOUS
  <2>1. w \in idle /\ Rank(idle, w) <= n /\ tk[w] = NoTask
    OBVIOUS
  <2>2. Rank(idle, w) \in Nat \ {0}
    BY <1>3, <2>1, RankPositive
  <2> QED BY <1>2, <2>1, <2>2
<1>5. \A v, w \in given : v # w => Rank(idle, v) # Rank(idle, w)
  BY <1>3, RankInjective
<1>6. posted \subseteq given /\ \A w \in posted : q[Rank(idle, w)] \notin Hooked
  OBVIOUS
<1>7. \A w \in given : q[Rank(idle, w)] \in Hooked \/ w \in posted
  OBVIOUS
<1> DEFINE r == [w \in given |-> Rank(idle, w)]
<1>8. /\ \A w \in given : r[w] \in 1..n /\ r[w] \in DOMAIN q /\ tk[w] = NoTask
      /\ \A v, w \in given : v # w => r[v] # r[w]
      /\ \A w \in given : q[r[w]] \in Hooked \/ w \in posted
      /\ posted \subseteq given
      /\ task' = [w \in WorkerIds |-> IF w \in given THEN q[r[w]] ELSE tk[w]]
      /\ timer' = [w \in WorkerIds |-> IF w \in posted THEN q[r[w]] ELSE tm[w]]
      /\ running' = [w \in WorkerIds |->
             IF w \in posted /\ thread[w] = "alive" THEN q[r[w]] ELSE run[w]]
  BY <1>1, <1>4, <1>5, <1>6, <1>7
<1> HIDE DEF idle, n, given, posted, r
<1>9. /\ queue' \in Seq(Tasks) /\ DOMAIN queue' = 1..(Len(q) - n)
      /\ \A i \in DOMAIN queue' : i + n \in DOMAIN q /\ queue'[i] = q[i + n]
  BY <1>1, <1>2
<1>10. /\ task' \in [WorkerIds -> MaybeTask] /\ timer' \in [WorkerIds -> MaybeTask]
       /\ running' \in [WorkerIds -> MaybeTask]
  BY <1>2, <1>8 DEF Consistent, MaybeTask
<1>11. \A i \in DOMAIN queue' : p[queue'[i]] # "none"
  BY <1>9 DEF Consistent
<1>12. \A w \in WorkerIds : task'[w] # NoTask => p[task'[w]] # "none"
  BY <1>8 DEF Consistent
<1>13. \A w \in WorkerIds : running'[w] # NoTask => running'[w] = task'[w]
  BY <1>8 DEF Consistent
<1>14. \A v, w \in WorkerIds : v # w /\ task'[v] # NoTask => task'[v] # task'[w]
  <2> SUFFICES ASSUME NEW v \in WorkerIds, NEW w \in WorkerIds, v # w, task'[v] # NoTask,
                      task'[v] = task'[w]
               PROVE  FALSE
    OBVIOUS
  <2>1. CASE v \in given /\ w \in given
    BY <1>2, <1>8, <2>1 DEF Consistent
  <2>2. CASE v \in given /\ w \notin given
    BY <1>8, <2>2 DEF Consistent
  <2>3. CASE v \notin given /\ w \in given
    BY <1>8, <2>3 DEF Consistent
  <2>4. CASE v \notin given /\ w \notin given
    BY <1>8, <2>4 DEF Consistent
  <2> QED BY <2>1, <2>2, <2>3, <2>4
<1>15. \A i, j \in DOMAIN queue' : i # j => queue'[i] # queue'[j]
  BY <1>2, <1>9 DEF Consistent
<1>16. \A w \in WorkerIds, i \in DOMAIN queue' : task'[w] # queue'[i]
  <2> SUFFICES ASSUME NEW w \in WorkerIds, NEW i \in DOMAIN queue'
               PROVE  task'[w] # queue'[i]
    OBVIOUS
  <2>1. i + n \in DOMAIN q /\ queue'[i] = q[i + n] /\ i + n > n
    BY <1>2, <1>9
  <2>2. CASE w \in given
    BY <1>2, <1>8, <2>1, <2>2 DEF Consistent
  <2>3. CASE w \notin given
    BY <1>8, <2>1, <2>3 DEF Consistent
  <2> QED BY <2>2, <2>3
<1>17. \A w \in WorkerIds : task'[w] \in Tasks \ Hooked /\ p[task'[w]] = "pending"
                               => timer'[w] = task'[w]
  BY <1>8 DEF Consistent
<1> QED BY <1>9, <1>10, <1>11, <1>12, <1>13, <1>14, <1>15, <1>16, <1>17 DEF Consistent

-------------------------------------------------------------------------------
(* Each action. *)

LEMMA InitHolds == Init => IInv
<1> SUFFICES ASSUME Init PROVE IInv
  OBVIOUS
<1>1. queue \in Seq(Tasks) /\ DOMAIN queue = {}
  BY DEF Init
<1>2. Consistent(queue, task, timer, running, promise)
  BY <1>1 DEF Init, Consistent, MaybeTask, Promises
<1>3. listed \subseteq Nat /\ IsFiniteSet(listed)
  <2>1. 1 \in Int /\ MaxWorkers \in Int /\ 1..MaxWorkers \subseteq Nat
    BY WorkerPoolAssumption
  <2> QED BY <2>1, FS_Interval DEF Init
<1> QED BY <1>2, <1>3 DEF Init, IInv, AnswersAreOwn, MaybeTask

(* Promises are settled, and only those of submitted tasks.                   *)
LEMMA SettlingKeeps ==
    ASSUME NEW q, NEW tk, NEW tm, NEW run, Consistent(q, tk, tm, run, promise),
           NEW p \in [Tasks -> Promises],
           \A s \in Tasks : p[s] = "none" <=> promise[s] = "none",
           \A s \in Tasks : p[s] = "pending" => promise[s] = "pending"
    PROVE  Consistent(q, tk, tm, run, p)
<1>1. /\ \A i \in DOMAIN q : q[i] \in Tasks
      /\ \A w \in WorkerIds : tk[w] # NoTask => tk[w] \in Tasks
  BY DEF Consistent, MaybeTask
<1>2. \A i \in DOMAIN q : p[q[i]] # "none"
  BY <1>1 DEF Consistent
<1>3. \A w \in WorkerIds : tk[w] # NoTask => p[tk[w]] # "none"
  BY <1>1 DEF Consistent
<1>4. \A w \in WorkerIds : tk[w] \in Tasks \ Hooked /\ p[tk[w]] = "pending" => tm[w] = tk[w]
  BY <1>1 DEF Consistent
<1> QED BY <1>2, <1>3, <1>4 DEF Consistent

(* A rejection settles a promise at most. *)
LEMMA RejectedKeeps ==
    ASSUME IInv, NEW t, promise' = Rejected(t), UNCHANGED got
    PROVE  /\ Consistent(queue, task, timer, running, promise')
           /\ AnswersAreOwn'
           /\ t \in Tasks => promise'[t] # "pending"
<1>1. promise' \in [Tasks -> Promises]
  BY DEF Rejected, IInv, Consistent, Promises
<1>2. \A s \in Tasks : /\ promise'[s] = "none" <=> promise[s] = "none"
                       /\ promise'[s] = "result" => promise[s] = "result"
                       /\ promise'[s] = "pending" => promise[s] = "pending" /\ s # t
  BY DEF Rejected
<1>3. Consistent(queue, task, timer, running, promise)
  BY DEF IInv
<1>4. Consistent(queue, task, timer, running, promise')
  BY <1>1, <1>2, <1>3, SettlingKeeps
<1>5. AnswersAreOwn'
  BY <1>2 DEF IInv, AnswersAreOwn
<1> QED BY <1>2, <1>4, <1>5

LEMMA ExecuteTaskHolds ==
    ASSUME IInv, NEW t \in Tasks, ExecuteTask(t)
    PROVE  IInv'
<1> DEFINE q == Append(queue, t)
<1>1. /\ queue \in Seq(Tasks) /\ Len(queue) \in Nat /\ q \in Seq(Tasks)
      /\ DOMAIN q = 1..(Len(queue) + 1) /\ DOMAIN queue = 1..Len(queue)
      /\ \A i \in DOMAIN queue : q[i] = queue[i] /\ queue[i] \in Tasks
      /\ q[Len(queue) + 1] = t
  BY DEF IInv, Consistent
<1>2. /\ promise' \in [Tasks -> Promises] /\ promise[t] = "none"
      /\ promise'[t] \in {"pending", "error"}
      /\ \A s \in Tasks : s # t => promise'[s] = promise[s]
  BY DEF ExecuteTask, IInv, Consistent, Promises
<1>3. /\ \A w \in WorkerIds : task[w] # t
      /\ \A i \in DOMAIN queue : queue[i] # t
  BY <1>2, WorkerPoolAssumption DEF IInv, Consistent
<1> HIDE DEF q
<1>4. \A i \in DOMAIN q : promise'[q[i]] # "none"
  BY <1>1, <1>2, <1>3 DEF IInv, Consistent
<1>5. \A i, j \in DOMAIN q : i # j => q[i] # q[j]
  BY <1>1, <1>3 DEF IInv, Consistent
<1>6. \A w \in WorkerIds, i \in DOMAIN q : task[w] # q[i]
  BY <1>1, <1>3 DEF IInv, Consistent
<1>7. \A w \in WorkerIds : task[w] # NoTask
          => task[w] \in Tasks /\ promise'[task[w]] = promise[task[w]]
  BY <1>2, <1>3 DEF IInv, Consistent, MaybeTask
<1>8. Consistent(q, task, timer, running, promise')
  BY <1>1, <1>2, <1>4, <1>5, <1>6, <1>7, WorkerPoolAssumption DEF IInv, Consistent
<1>9. AssignTasks(q, task, timer, running) /\ UNCHANGED <<listed, got>>
  BY DEF ExecuteTask, q
<1>10. Consistent(queue', task', timer', running', promise')
  BY <1>8, <1>9, AssignKeeps DEF IInv
<1>11. AnswersAreOwn'
  BY <1>2, <1>9 DEF IInv, AnswersAreOwn
<1> QED BY <1>9, <1>10, <1>11 DEF IInv

LEMMA TaskMessageHolds ==
    ASSUME IInv, NEW w \in WorkerIds, TaskMessage(w)
    PROVE  IInv'
<1> DEFINE tk == [task EXCEPT ![w] = NoTask]
           tm == [timer EXCEPT ![w] = NoTask]
           run == [running EXCEPT ![w] = NoTask]
<1>1. running[w] = task[w] /\ task[w] \in Tasks /\ task[w] # NoTask
  BY DEF TaskMessage, IInv, Consistent, MaybeTask
<1>2. PICK answer \in {"result", "error"} :
          /\ promise' = [promise EXCEPT ![task[w]] = IF @ = "pending" THEN answer ELSE @]
          /\ got' = [got EXCEPT ![task[w]] =
                 IF promise[task[w]] = "pending" /\ answer = "result" THEN running[w] ELSE @]
  BY DEF TaskMessage
<1>3. /\ promise' \in [Tasks -> Promises] /\ got' \in [Tasks -> MaybeTask]
      /\ \A s \in Tasks : /\ promise'[s] = "none" <=> promise[s] = "none"
                          /\ promise'[s] = "pending" => promise[s] = "pending"
  BY <1>1, <1>2 DEF IInv, Consistent, Promises, MaybeTask
<1>4. AnswersAreOwn'
  BY <1>1, <1>2 DEF IInv, Consistent, AnswersAreOwn
<1>5. /\ tk \in [WorkerIds -> MaybeTask] /\ tm \in [WorkerIds -> MaybeTask]
      /\ run \in [WorkerIds -> MaybeTask]
      /\ tk[w] = NoTask /\ run[w] = NoTask
      /\ \A v \in WorkerIds : v # w => tk[v] = task[v] /\ tm[v] = timer[v] /\ run[v] = running[v]
  BY DEF IInv, Consistent, MaybeTask
<1> HIDE DEF tk, tm, run
<1>6. /\ \A i \in DOMAIN queue : queue[i] \in Tasks
      /\ \A v \in WorkerIds : task[v] # NoTask => task[v] \in Tasks
  BY DEF IInv, Consistent, MaybeTask
<1>7. Consistent(queue, tk, tm, run, promise)
  <2>1. \A v, u \in WorkerIds : v # u /\ tk[v] # NoTask => tk[v] # tk[u]
    BY <1>5 DEF IInv, Consistent
  <2>2. \A v \in WorkerIds, i \in DOMAIN queue : tk[v] # queue[i]
    BY <1>5, <1>6, WorkerPoolAssumption DEF IInv, Consistent
  <2>3. \A v \in WorkerIds : tk[v] \in Tasks \ Hooked /\ promise[tk[v]] = "pending" => tm[v] = tk[v]
    BY <1>5, WorkerPoolAssumption DEF IInv, Consistent
  <2>4. \A v \in WorkerIds : /\ tk[v] # NoTask => promise[tk[v]] # "none"
                             /\ run[v] # NoTask => run[v] = tk[v]
    BY <1>5 DEF IInv, Consistent
  <2> QED BY <1>5, <2>1, <2>2, <2>3, <2>4 DEF IInv, Consistent
<1>7a. Consistent(queue, tk, tm, run, promise')
  BY <1>3, <1>7, SettlingKeeps
<1>8. AssignTasks(queue, tk, tm, run) /\ UNCHANGED listed
  BY DEF TaskMessage, tk, tm, run
<1>9. Consistent(queue', task', timer', running', promise')
  BY <1>7a, <1>8, AssignKeeps DEF IInv
<1> QED BY <1>3, <1>4, <1>8, <1>9 DEF IInv

LEMMA TaskTimeoutHolds ==
    ASSUME IInv, NEW w \in WorkerIds, TaskTimeout(w)
    PROVE  IInv'
<1>1. /\ promise' = Rejected(task[w]) /\ UNCHANGED <<queue, task, running, got>>
      /\ timer' = [timer EXCEPT ![w] = NoTask]
      /\ listed' \in {listed, listed \cup {NewWorker}}
  BY DEF TaskTimeout, CreateWorker
<1>2. /\ Consistent(queue, task, timer, running, promise') /\ AnswersAreOwn'
      /\ task[w] \in Tasks => promise'[task[w]] # "pending"
  BY <1>1, RejectedKeeps
<1>3. timer' \in [WorkerIds -> MaybeTask] /\ \A v \in WorkerIds : v # w => timer'[v] = timer[v]
  BY <1>1 DEF IInv, Consistent, MaybeTask
<1>4. Consistent(queue, task, timer', running, promise')
  BY <1>2, <1>3 DEF Consistent
<1>5. listed' \subseteq Nat /\ IsFiniteSet(listed')
  BY <1>1, ListedChanges DEF IInv
<1>6. Consistent(queue', task', timer', running', promise')
  BY <1>1, <1>4
<1>7. got' \in [Tasks -> MaybeTask]
  BY <1>1 DEF IInv
<1> QED BY <1>2, <1>5, <1>6, <1>7 DEF IInv

LEMMA WorkerExitsHolds ==
    ASSUME IInv, NEW w \in WorkerIds, WorkerExits(w)
    PROVE  IInv'
<1>1. /\ promise' = Rejected(task[w]) /\ UNCHANGED <<queue, task, timer, got>>
      /\ running' = [running EXCEPT ![w] = NoTask]
      /\ listed' \in {listed \ {w}, (listed \ {w}) \cup {NewWorker}}
  BY DEF WorkerExits, CreateWorker
<1>2. Consistent(queue, task, timer, running, promise') /\ AnswersAreOwn'
  BY <1>1, RejectedKeeps
<1>3. /\ running' \in [WorkerIds -> MaybeTask] /\ running'[w] = NoTask
      /\ \A v \in WorkerIds : v # w => running'[v] = running[v]
  BY <1>1 DEF IInv, Consistent, MaybeTask
<1>4. Consistent(queue, task, timer, running', promise')
  BY <1>2, <1>3 DEF Consistent
<1>5. listed' \subseteq Nat /\ IsFiniteSet(listed')
  BY <1>1, ListedChanges DEF IInv
<1>6. Consistent(queue', task', timer', running', promise')
  BY <1>1, <1>4
<1>7. got' \in [Tasks -> MaybeTask]
  BY <1>1 DEF IInv
<1> QED BY <1>2, <1>5, <1>6, <1>7 DEF IInv

(* Steps that leave the tasks and the promises alone.                         *)
LEMMA OthersHold ==
    ASSUME IInv, UNCHANGED <<queue, listed, task, timer, running, promise, got>>
    PROVE  IInv'
BY DEF IInv, Consistent, AnswersAreOwn

-------------------------------------------------------------------------------
(* The number of workers. A worker is made for a timeout, of which a task has *)
(* one at most, or in place of one that ended while no more than maxWorkers   *)
(* were left: the ends, those of workers that could not be made among them,   *)
(* are paid for by timeouts and failures. So the ids last, each new worker    *)
(* has one of its own, and a replacement counts.                              *)

States == {"none", "alive", "failing", "ending", "gone", "unmade"}

Size == MaxWorkers + Cardinality(Tasks) + MaxFailures

Started == {w \in WorkerIds : thread[w] # "none"}
Ended == {w \in WorkerIds : thread[w] \in {"failing", "ending", "gone", "unmade"}}

(* The tasks that may still time out. *)
Untimed ==
    {t \in Tasks : \/ promise[t] = "none"
                   \/ \E i \in DOMAIN queue : queue[i] = t
                   \/ \E w \in WorkerIds : timer[w] = t /\ task[w] = t}

(* The inductive invariant of the number of workers. *)
PoolInv ==
    /\ thread \in [WorkerIds -> States] /\ failures \in 0..MaxFailures
    /\ \E n \in 0..Size : Started = 1..n
    /\ listed = {w \in WorkerIds : thread[w] \in {"alive", "failing", "ending"}}
    /\ \A w \in WorkerIds : task[w] # NoTask => thread[w] # "none"
    /\ NeverShort
    /\ Cardinality(Started) + Cardinality(Untimed) <= MaxWorkers + Cardinality(Tasks) + failures
    /\ phase = "open" =>
           Cardinality(Ended) + Cardinality(Untimed) <= Cardinality(Tasks) + failures

LEMMA Sizes ==
    /\ Cardinality(Tasks) \in Nat /\ MaxWorkers \in Nat \ {0} /\ MaxFailures \in Nat
    /\ Size \in Nat /\ WorkerIds = 1..Size
    /\ \A S \in SUBSET WorkerIds : IsFiniteSet(S) /\ Cardinality(S) \in Nat
    /\ \A S \in SUBSET Tasks :
           IsFiniteSet(S) /\ Cardinality(S) \in Nat /\ Cardinality(S) <= Cardinality(Tasks)
<1>1. /\ Cardinality(Tasks) \in Nat /\ MaxWorkers \in Nat \ {0} /\ MaxFailures \in Nat
      /\ IsFiniteSet(Tasks)
  BY WorkerPoolAssumption, FS_CardinalityType
<1>2. Size \in Nat
  BY <1>1 DEF Size
<1>3. WorkerIds = 1..Size
  BY DEF WorkerIds, Size
<1>4. \A S \in SUBSET WorkerIds : IsFiniteSet(S) /\ Cardinality(S) \in Nat
  BY WorkersAreNumbers, FS_Subset, FS_CardinalityType
<1>5. \A S \in SUBSET Tasks :
          IsFiniteSet(S) /\ Cardinality(S) \in Nat /\ Cardinality(S) <= Cardinality(Tasks)
  BY <1>1, FS_Subset, FS_CardinalityType
<1> QED BY <1>1, <1>2, <1>3, <1>4, <1>5

LEMMA IntervalSize ==
    ASSUME NEW n \in Nat
    PROVE  Cardinality(1..n) = n
<1>1. 1 \in Int /\ n \in Int
  OBVIOUS
<1>2. Cardinality(1..n) = IF 1 > n THEN 0 ELSE n - 1 + 1
  BY <1>1, FS_Interval
<1> QED BY <1>2

LEMMA Counts ==
    /\ Started \subseteq WorkerIds /\ Ended \subseteq WorkerIds /\ Untimed \subseteq Tasks
    /\ Started' \subseteq WorkerIds /\ Ended' \subseteq WorkerIds /\ Untimed' \subseteq Tasks
    /\ Unmade \subseteq WorkerIds /\ Unmade' \subseteq WorkerIds
    /\ IsFiniteSet(Started) /\ IsFiniteSet(Ended) /\ IsFiniteSet(Untimed)
    /\ IsFiniteSet(Unmade) /\ Cardinality(Unmade) \in Nat /\ Cardinality(Unmade') \in Nat
    /\ Cardinality(Started) \in Nat /\ Cardinality(Ended) \in Nat
    /\ Cardinality(Untimed) \in Nat
    /\ Cardinality(Started') \in Nat /\ Cardinality(Ended') \in Nat
    /\ Cardinality(Untimed') \in Nat
<1>1. /\ Started \subseteq WorkerIds /\ Ended \subseteq WorkerIds /\ Untimed \subseteq Tasks
      /\ Started' \subseteq WorkerIds /\ Ended' \subseteq WorkerIds /\ Untimed' \subseteq Tasks
      /\ Unmade \subseteq WorkerIds /\ Unmade' \subseteq WorkerIds
  BY DEF Started, Ended, Untimed, Unmade
<1> QED BY <1>1, Sizes

(* The two bounds, in numbers. *)
LEMMA Bounds ==
    ASSUME PoolInv
    PROVE  /\ Cardinality(Tasks) \in Nat /\ MaxWorkers \in Nat /\ failures \in Nat
           /\ Cardinality(Started) \in Nat /\ Cardinality(Ended) \in Nat
           /\ Cardinality(Untimed) \in Nat
           /\ Cardinality(Started) + Cardinality(Untimed)
                  <= MaxWorkers + Cardinality(Tasks) + failures
           /\ phase = "open" =>
                  Cardinality(Ended) + Cardinality(Untimed) <= Cardinality(Tasks) + failures
<1>1. failures \in Nat
  BY Sizes DEF PoolInv
<1> QED BY <1>1, Counts, Sizes DEF PoolInv

(* The id of createWorker has not been given before, as long as there are ids.*)
LEMMA NewIsNew ==
    ASSUME PoolInv, Cardinality(Started) < Size
    PROVE  /\ NewWorker \in WorkerIds /\ NewWorker \notin Started
           /\ NewWorker \notin listed /\ thread[NewWorker] = "none"
           /\ Cardinality(Started \cup {NewWorker}) = Cardinality(Started) + 1
           /\ \E n \in 0..Size : Started \cup {NewWorker} = 1..n
<1>1. PICK n \in 0..Size : Started = 1..n
  BY DEF PoolInv
<1>2. Cardinality(Started) = n /\ n \in Nat
  BY <1>1, IntervalSize, Sizes
<1>3. NewWorker = n + 1
  BY <1>2 DEF NewWorker, Started
<1>4. NewWorker \in WorkerIds
  BY <1>2, <1>3, Sizes
<1>5. NewWorker \notin Started
  BY <1>1, <1>2, <1>3
<1>6. thread[NewWorker] = "none" /\ NewWorker \notin listed
  BY <1>4, <1>5 DEF Started, PoolInv
<1>7. Cardinality(Started \cup {NewWorker}) = Cardinality(Started) + 1
  BY <1>5, Counts, Sizes, FS_AddElement
<1>8. Started \cup {NewWorker} = 1..(n + 1) /\ n + 1 \in 0..Size
  BY <1>1, <1>2, <1>3, Sizes
<1> QED BY <1>4, <1>5, <1>6, <1>7, <1>8

(* What createWorker makes of the new id, with who the worker that ends and   *)
(* how the state of its thread.                                               *)
LEMMA Creation ==
    ASSUME PoolInv, NEW new \in WorkerIds, thread[new] = "none", NewWorker = new,
           NEW w \in WorkerIds, thread[w] # "none", NEW how \in States \ {"none", "alive"},
           how = "unmade" <=> thread[w] = "unmade", NEW others,
           CreateWorker(others, [thread EXCEPT ![w] = how])
    PROVE  \E made \in {"alive", "unmade"} :
               /\ thread' \in [WorkerIds -> States] /\ thread'[new] = made
               /\ thread'[w] = how /\ new # w
               /\ \A v \in WorkerIds : v # new /\ v # w => thread'[v] = thread[v]
               /\ Started' = Started \cup {new}
               /\ failures' \in 0..MaxFailures
               /\ \/ /\ made = "alive" /\ failures' = failures /\ Unmade' = Unmade
                     /\ listed' = others \cup {new} /\ Ended' \subseteq Ended \cup {w}
                  \/ /\ made = "unmade" /\ failures' = failures + 1
                     /\ Unmade' = Unmade \cup {new} /\ listed' = others
                     /\ Ended' \subseteq (Ended \cup {w}) \cup {new}
<1>0. thread \in [WorkerIds -> States] /\ failures \in 0..MaxFailures /\ failures \in Nat
      /\ new # w /\ MaxFailures \in Nat
  BY Sizes DEF PoolInv
<1>1. CASE /\ thread' = [[thread EXCEPT ![w] = how] EXCEPT ![new] = "alive"]
           /\ listed' = others \cup {new} /\ failures' = failures
  <2>1. /\ thread' \in [WorkerIds -> States] /\ thread'[new] = "alive" /\ thread'[w] = how
        /\ \A v \in WorkerIds : v # new /\ v # w => thread'[v] = thread[v]
    BY <1>0, <1>1 DEF States
  <2>2. Started' = Started \cup {new}
    BY <1>0, <2>1 DEF Started
  <2>3. Unmade' = Unmade
    BY <1>0, <2>1 DEF Unmade
  <2>4. Ended' \subseteq Ended \cup {w}
    BY <1>0, <2>1 DEF Ended
  <2> QED BY <1>0, <1>1, <2>1, <2>2, <2>3, <2>4
<1>2. CASE /\ thread' = [[thread EXCEPT ![w] = how] EXCEPT ![new] = "unmade"]
           /\ listed' = others /\ failures < MaxFailures /\ failures' = failures + 1
  <2>1. /\ thread' \in [WorkerIds -> States] /\ thread'[new] = "unmade" /\ thread'[w] = how
        /\ \A v \in WorkerIds : v # new /\ v # w => thread'[v] = thread[v]
    BY <1>0, <1>2 DEF States
  <2>2. Started' = Started \cup {new}
    BY <1>0, <2>1 DEF Started
  <2>3. Unmade' = Unmade \cup {new}
    BY <1>0, <2>1 DEF Unmade
  <2>4. Ended' \subseteq (Ended \cup {w}) \cup {new}
    BY <1>0, <2>1 DEF Ended
  <2>5. failures' \in 0..MaxFailures
    BY <1>0, <1>2
  <2> QED BY <1>0, <1>2, <2>1, <2>2, <2>3, <2>4, <2>5
<1> QED BY <1>1, <1>2 DEF CreateWorker

(* The new id and the worker that ends, in numbers.                           *)
LEMMA CreationCounts ==
    ASSUME PoolInv, NEW new \in WorkerIds, thread[new] = "none", NEW w,
           \/ failures' = failures /\ Unmade' = Unmade /\ Ended' \subseteq Ended \cup {w}
           \/ /\ failures' = failures + 1 /\ Unmade' = Unmade \cup {new}
              /\ Ended' \subseteq (Ended \cup {w}) \cup {new}
    PROVE  /\ Cardinality(Ended') + failures <= Cardinality(Ended \cup {w}) + failures'
           /\ Cardinality(Ended \cup {w}) \in Nat
           /\ Cardinality(Ended \cup {w}) <= Cardinality(Ended) + 1
           /\ Cardinality(Unmade') + failures = Cardinality(Unmade) + failures'
<1>0. failures \in Nat
  BY Sizes DEF PoolInv
<1>1. /\ IsFiniteSet(Ended \cup {w}) /\ Cardinality(Ended \cup {w}) \in Nat
      /\ Cardinality(Ended \cup {w}) <= Cardinality(Ended) + 1
  <2>1. IsFiniteSet(Ended) /\ Cardinality(Ended) \in Nat
    BY Counts
  <2>2. /\ IsFiniteSet(Ended \cup {w})
        /\ Cardinality(Ended \cup {w}) =
               IF w \in Ended THEN Cardinality(Ended) ELSE Cardinality(Ended) + 1
    BY <2>1, FS_AddElement
  <2> QED BY <2>1, <2>2
<1>2. CASE failures' = failures /\ Unmade' = Unmade /\ Ended' \subseteq Ended \cup {w}
  <2>1. Cardinality(Ended') <= Cardinality(Ended \cup {w})
    BY <1>1, <1>2, FS_Subset
  <2> QED BY <1>0, <1>1, <1>2, <2>1, Counts
<1>3. CASE /\ failures' = failures + 1 /\ Unmade' = Unmade \cup {new}
           /\ Ended' \subseteq (Ended \cup {w}) \cup {new}
  <2> DEFINE E == Ended \cup {w}
  <2>0. IsFiniteSet(E) /\ Cardinality(E) \in Nat
    BY <1>1
  <2>1. new \notin Unmade
    BY DEF Unmade
  <2>2. Cardinality(Unmade') = Cardinality(Unmade) + 1
    BY <1>3, <2>1, Counts, FS_AddElement
  <2>3. Ended' \subseteq E \cup {new}
    BY <1>3
  <2> HIDE DEF E
  <2>4. /\ IsFiniteSet(E \cup {new})
        /\ Cardinality(E \cup {new}) = IF new \in E THEN Cardinality(E) ELSE Cardinality(E) + 1
    BY <2>0, FS_AddElement
  <2>5. Cardinality(Ended') <= Cardinality(E \cup {new})
    BY <2>3, <2>4, FS_Subset
  <2>6. Cardinality(Ended') <= Cardinality(E) + 1
    BY <2>0, <2>4, <2>5, Counts
  <2>7. Cardinality(Ended') + failures <= Cardinality(E) + failures'
    BY <1>0, <1>3, <2>0, <2>6, Counts
  <2>8. Cardinality(Unmade') + failures = Cardinality(Unmade) + failures'
    BY <1>0, <1>3, <2>2, Counts
  <2> QED BY <1>1, <2>7, <2>8 DEF E
<1> QED BY <1>2, <1>3

(* What assignTasks gives out was in its queue, and goes to listed workers.   *)
LEMMA AssignTakes ==
    ASSUME NEW q \in Seq(Tasks), NEW tk, NEW tm, NEW run,
           listed \subseteq Nat, IsFiniteSet(listed), AssignTasks(q, tk, tm, run)
    PROVE  /\ \A i \in DOMAIN queue' : \E j \in DOMAIN q : queue'[i] = q[j]
           /\ \A w \in WorkerIds :
                 \/ task'[w] = tk[w] /\ timer'[w] = tm[w]
                 \/ w \in listed /\ \E j \in DOMAIN q : task'[w] = q[j]
<1> DEFINE idle == {w \in listed : tk[w] = NoTask}
           n == Taken(q, idle)
           given == {w \in idle : Rank(idle, w) <= n}
           posted == {w \in given : q[Rank(idle, w)] \notin Hooked}
<1>1. /\ queue' = SubSeq(q, n + 1, Len(q))
      /\ task' = [w \in WorkerIds |-> IF w \in given THEN q[Rank(idle, w)] ELSE tk[w]]
      /\ timer' = [w \in WorkerIds |-> IF w \in posted THEN q[Rank(idle, w)] ELSE tm[w]]
  BY DEF AssignTasks, Rank
<1>2. n \in 0..Len(q) /\ Len(q) \in Nat /\ DOMAIN q = 1..Len(q)
  BY TakenBound
<1>3. IsFiniteSet(idle) /\ idle \subseteq Nat
  BY FS_Subset
<1>4. \A w \in given : w \in listed /\ Rank(idle, w) \in DOMAIN q
  <2> SUFFICES ASSUME NEW w \in given PROVE w \in listed /\ Rank(idle, w) \in DOMAIN q
    OBVIOUS
  <2>1. w \in idle /\ Rank(idle, w) <= n
    OBVIOUS
  <2>2. w \in listed
    BY <2>1
  <2> HIDE DEF idle, n
  <2>3. Rank(idle, w) \in Nat \ {0}
    BY <1>3, <2>1, RankPositive
  <2> QED BY <1>2, <2>1, <2>2, <2>3
<1>5. posted \subseteq given
  OBVIOUS
<1> HIDE DEF idle, n, given, posted
<1>6. \A i \in DOMAIN queue' : \E j \in DOMAIN q : queue'[i] = q[j]
  <2> SUFFICES ASSUME NEW i \in DOMAIN queue' PROVE \E j \in DOMAIN q : queue'[i] = q[j]
    OBVIOUS
  <2>1. i \in 1..(Len(q) - n) /\ queue'[i] = q[i + n] /\ i + n \in DOMAIN q
    BY <1>1, <1>2
  <2> QED BY <2>1
<1>7. \A w \in WorkerIds :
          \/ task'[w] = tk[w] /\ timer'[w] = tm[w]
          \/ w \in listed /\ \E j \in DOMAIN q : task'[w] = q[j]
  BY <1>1, <1>4, <1>5
<1> QED BY <1>6, <1>7

(* A step that changes no thread, and after which no more tasks may time out. *)
LEMMA TasksMove ==
    ASSUME IInv, PoolInv, UNCHANGED <<thread, listed, failures>>,
           phase' = "open" => phase = "open",
           Untimed' \subseteq Untimed,
           \A w \in WorkerIds : task'[w] # NoTask => task[w] # NoTask \/ w \in listed
    PROVE  PoolInv'
<1>1. Started' = Started /\ Ended' = Ended /\ Unmade' = Unmade
  BY DEF Started, Ended, Unmade
<1>2. Cardinality(Untimed') <= Cardinality(Untimed)
  BY Counts, Sizes, FS_Subset
<1>3. \A w \in WorkerIds : task'[w] # NoTask => thread'[w] # "none"
  BY DEF PoolInv
<1>4. /\ Cardinality(Started') + Cardinality(Untimed')
             <= MaxWorkers + Cardinality(Tasks) + failures'
      /\ phase' = "open" =>
             Cardinality(Ended') + Cardinality(Untimed') <= Cardinality(Tasks) + failures'
  BY <1>1, <1>2, Counts, Sizes DEF PoolInv
<1> QED BY <1>1, <1>3, <1>4 DEF PoolInv, NeverShort

(* A worker goes on to its end; a failure counts as one.                      *)
LEMMA WorkerTurns ==
    ASSUME IInv, PoolInv, UNCHANGED <<queue, listed, task, timer, phase>>,
           NEW w \in WorkerIds, thread[w] \in {"alive", "failing", "ending"},
           NEW how \in {"failing", "ending"}, thread' = [thread EXCEPT ![w] = how],
           failures' \in failures..MaxFailures,
           thread[w] = "alive" => failures' = failures + 1,
           Untimed' \subseteq Untimed
    PROVE  PoolInv'
<1>0. thread \in [WorkerIds -> States] /\ failures \in Nat /\ failures' \in Nat
  BY Sizes DEF PoolInv
<1>1. Started' = Started /\ Unmade' = Unmade
  BY <1>0 DEF Started, Unmade
<1>2. thread' \in [WorkerIds -> States]
  BY <1>0 DEF States
<1>3. listed' = {v \in WorkerIds : thread'[v] \in {"alive", "failing", "ending"}}
  BY <1>0 DEF PoolInv
<1>4. Cardinality(Untimed') <= Cardinality(Untimed)
  BY Counts, Sizes, FS_Subset
<1>5. Cardinality(Ended') + failures <= Cardinality(Ended) + failures'
  <2>1. CASE thread[w] = "alive"
    <3>1. Ended' = Ended \cup {w}
      BY <1>0 DEF Ended
    <3>2. Cardinality(Ended') <= Cardinality(Ended) + 1
      <4>1. /\ IsFiniteSet(Ended) /\ Cardinality(Ended) \in Nat
        BY Counts
      <4>2. Cardinality(Ended \cup {w}) =
                IF w \in Ended THEN Cardinality(Ended) ELSE Cardinality(Ended) + 1
        BY <4>1, FS_AddElement
      <4> QED BY <3>1, <4>1, <4>2
    <3> QED BY <1>0, <2>1, <3>2, Counts
  <2>2. CASE thread[w] # "alive"
    <3>1. Ended' = Ended
      BY <1>0, <2>2 DEF Ended
    <3> QED BY <1>0, <3>1, Counts
  <2> QED BY <2>1, <2>2
<1>6. \A v \in WorkerIds : task'[v] # NoTask => thread'[v] # "none"
  BY <1>0 DEF PoolInv
<1>7. /\ Cardinality(Started') + Cardinality(Untimed')
             <= MaxWorkers + Cardinality(Tasks) + failures'
      /\ phase' = "open" =>
             Cardinality(Ended') + Cardinality(Untimed') <= Cardinality(Tasks) + failures'
  <2>1. Cardinality(Ended') \in Nat /\ Cardinality(Untimed') \in Nat
    BY Counts
  <2> QED BY <1>0, <1>1, <1>4, <1>5, <2>1, Bounds
<1>8. failures' \in 0..MaxFailures
  BY <1>0, Sizes
<1> QED BY <1>1, <1>2, <1>3, <1>6, <1>7, <1>8 DEF PoolInv, NeverShort

LEMMA RejectionTakesNoTime ==
    ASSUME NEW t, promise' = Rejected(t), UNCHANGED <<queue, task, timer>>
    PROVE  Untimed' \subseteq Untimed
BY DEF Untimed, Rejected

LEMMA ExecuteTaskCounts ==
    ASSUME IInv, PoolInv, NEW t \in Tasks, ExecuteTask(t)
    PROVE  PoolInv'
<1> DEFINE q == Append(queue, t)
<1>1. /\ AssignTasks(q, task, timer, running) /\ q \in Seq(Tasks)
      /\ promise[t] = "none" /\ UNCHANGED <<listed, thread, phase, failures>>
      /\ \A s \in Tasks : promise'[s] = "none" => promise[s] = "none"
  BY DEF ExecuteTask, IInv, Consistent
<1>2. \A j \in DOMAIN q : q[j] = t \/ \E i \in DOMAIN queue : queue[i] = q[j]
  BY DEF IInv, Consistent
<1> HIDE DEF q
<1>3. /\ \A i \in DOMAIN queue' : \E j \in DOMAIN q : queue'[i] = q[j]
      /\ \A w \in WorkerIds :
            \/ task'[w] = task[w] /\ timer'[w] = timer[w]
            \/ w \in listed /\ \E j \in DOMAIN q : task'[w] = q[j]
  BY <1>1, AssignTakes DEF IInv
<1>4. Untimed' \subseteq Untimed
  BY <1>1, <1>2, <1>3 DEF Untimed
<1>5. \A w \in WorkerIds : task'[w] # NoTask => task[w] # NoTask \/ w \in listed
  BY <1>3
<1> QED BY <1>1, <1>4, <1>5, TasksMove

LEMMA TaskMessageCounts ==
    ASSUME IInv, PoolInv, NEW w \in WorkerIds, TaskMessage(w)
    PROVE  PoolInv'
<1> DEFINE tk == [task EXCEPT ![w] = NoTask]
           tm == [timer EXCEPT ![w] = NoTask]
           run == [running EXCEPT ![w] = NoTask]
<1>0. task \in [WorkerIds -> MaybeTask] /\ timer \in [WorkerIds -> MaybeTask]
      /\ queue \in Seq(Tasks) /\ promise \in [Tasks -> Promises]
      /\ task[w] \in Tasks
  BY DEF IInv, Consistent, TaskMessage, MaybeTask
<1>1. /\ AssignTasks(queue, tk, tm, run) /\ UNCHANGED <<listed, thread, phase, failures>>
      /\ \A s \in Tasks : promise'[s] = "none" => promise[s] = "none"
  BY <1>0 DEF TaskMessage
<1>2. \A v \in WorkerIds : \/ tk[v] = NoTask
                           \/ tk[v] = task[v] /\ tm[v] = timer[v]
  BY <1>0
<1> HIDE DEF tk, tm, run
<1>3. /\ \A i \in DOMAIN queue' : \E j \in DOMAIN queue : queue'[i] = queue[j]
      /\ \A v \in WorkerIds :
            \/ task'[v] = tk[v] /\ timer'[v] = tm[v]
            \/ v \in listed /\ \E j \in DOMAIN queue : task'[v] = queue[j]
  BY <1>0, <1>1, AssignTakes DEF IInv
<1>4. Untimed' \subseteq Untimed
  BY <1>1, <1>2, <1>3, WorkerPoolAssumption DEF Untimed
<1>5. \A v \in WorkerIds : task'[v] # NoTask => task[v] # NoTask \/ v \in listed
  BY <1>2, <1>3
<1> QED BY <1>1, <1>4, <1>5, TasksMove

(* A timeout makes a worker, and ends one.                                    *)
LEMMA TaskTimeoutCounts ==
    ASSUME IInv, PoolInv, NEW w \in WorkerIds, TaskTimeout(w)
    PROVE  PoolInv'
<1> DEFINE new == NewWorker
<1>0. /\ thread \in [WorkerIds -> States] /\ failures \in 0..MaxFailures /\ failures \in Nat
      /\ task[w] \in Tasks /\ timer[w] = task[w] /\ thread[w] # "none"
      /\ timer \in [WorkerIds -> MaybeTask] /\ promise \in [Tasks -> Promises]
      /\ promise[task[w]] # "none" /\ task[w] # NoTask
  <2>1. timer[w] # NoTask /\ task[w] = timer[w]
    BY DEF TaskTimeout
  <2>2. /\ task[w] \in Tasks /\ timer \in [WorkerIds -> MaybeTask]
        /\ promise \in [Tasks -> Promises] /\ promise[task[w]] # "none"
    BY <2>1 DEF IInv, Consistent, MaybeTask
  <2>3. /\ thread \in [WorkerIds -> States] /\ failures \in 0..MaxFailures
        /\ thread[w] # "none"
    BY <2>1 DEF PoolInv
  <2> QED BY <2>1, <2>2, <2>3, Sizes
<1>1. /\ timer' = [timer EXCEPT ![w] = NoTask] /\ promise' = Rejected(task[w])
      /\ UNCHANGED <<queue, task, phase>>
      /\ CreateWorker(listed, [thread EXCEPT ![w] = Terminated(w)])
  BY DEF TaskTimeout
<1>2. task[w] \in Untimed
  BY <1>0 DEF Untimed
<1>3. Untimed' \subseteq Untimed \ {task[w]}
  <2> SUFFICES ASSUME NEW t \in Untimed' PROVE t \in Untimed /\ t # task[w]
    OBVIOUS
  <2>1. t \in Tasks /\ (promise'[t] = "none" => promise[t] = "none")
    BY <1>1 DEF Untimed, Rejected
  <2>2. \A v \in WorkerIds : timer'[v] = t => v # w /\ timer[v] = t
    BY <1>0, <1>1, <2>1, WorkerPoolAssumption
  <2>3. t \in Untimed
    BY <1>1, <2>1, <2>2 DEF Untimed
  <2>4. t # task[w]
    BY <1>0, <1>1, <2>1, <2>2 DEF Untimed, IInv, Consistent
  <2> QED BY <2>3, <2>4
<1>4. Cardinality(Untimed') + 1 <= Cardinality(Untimed)
  <2>1. Cardinality(Untimed \ {task[w]}) = Cardinality(Untimed) - 1
    BY <1>2, Counts, Sizes, FS_RemoveElement
  <2>2. Untimed \ {task[w]} \subseteq Tasks
    BY Counts
  <2>3. Cardinality(Untimed') <= Cardinality(Untimed \ {task[w]})
    BY <1>3, <2>2, Sizes, FS_Subset
  <2> QED BY <2>1, <2>3, Counts
<1>5. Cardinality(Started) < Size
  <2>1. /\ MaxFailures \in Nat /\ failures <= MaxFailures /\ Cardinality(Untimed') \in Nat
        /\ Size = MaxWorkers + Cardinality(Tasks) + MaxFailures
    BY <1>0, Counts, Sizes DEF Size
  <2> QED BY <1>0, <1>4, <2>1, Bounds
<1>6. /\ new \in WorkerIds /\ new \notin Started /\ new \notin listed /\ thread[new] = "none"
      /\ Cardinality(Started \cup {new}) = Cardinality(Started) + 1
      /\ \E n \in 0..Size : Started \cup {new} = 1..n
  BY <1>5, NewIsNew
<1>7. /\ Terminated(w) \in States \ {"none", "alive"}
      /\ (Terminated(w) = "gone" <=> thread[w] = "gone")
      /\ (Terminated(w) = "unmade" <=> thread[w] = "unmade")
  BY <1>0 DEF Terminated, States
<1>8. new = NewWorker
  OBVIOUS
<1> HIDE DEF new
<1>9. PICK made \in {"alive", "unmade"} :
          /\ thread' \in [WorkerIds -> States] /\ thread'[new] = made
          /\ thread'[w] = Terminated(w) /\ new # w
          /\ \A v \in WorkerIds : v # new /\ v # w => thread'[v] = thread[v]
          /\ Started' = Started \cup {new}
          /\ failures' \in 0..MaxFailures
          /\ \/ /\ made = "alive" /\ failures' = failures /\ Unmade' = Unmade
                /\ listed' = listed \cup {new} /\ Ended' \subseteq Ended \cup {w}
             \/ /\ made = "unmade" /\ failures' = failures + 1
                /\ Unmade' = Unmade \cup {new} /\ listed' = listed
                /\ Ended' \subseteq (Ended \cup {w}) \cup {new}
  <2> DEFINE how == Terminated(w)
  <2>1. /\ how \in States \ {"none", "alive"} /\ (how = "unmade" <=> thread[w] = "unmade")
        /\ how = Terminated(w)
    BY <1>7
  <2>2. CreateWorker(listed, [thread EXCEPT ![w] = how])
    BY <1>1
  <2> HIDE DEF how
  <2>3. new \in WorkerIds /\ thread[new] = "none" /\ thread[w] # "none"
    BY <1>0, <1>6
  <2> QED BY <1>8, <2>1, <2>2, <2>3, Creation
<1>9a. /\ listed' \in {listed, listed \cup {new}} /\ failures' \in {failures, failures + 1}
       /\ failures' \in 0..MaxFailures /\ Started' = Started \cup {new}
       /\ thread' \in [WorkerIds -> States]
       /\ UNCHANGED <<phase, task>>
  BY <1>1, <1>9
<1>9b. \E n \in 0..Size : Started' = 1..n
  BY <1>6, <1>9a
<1>10. /\ Cardinality(Ended') + failures <= Cardinality(Ended \cup {w}) + failures'
       /\ Cardinality(Ended \cup {w}) \in Nat
       /\ Cardinality(Ended \cup {w}) <= Cardinality(Ended) + 1
       /\ Cardinality(Unmade') + failures = Cardinality(Unmade) + failures'
  BY <1>6, <1>9, CreationCounts
<1>11. failures' \in Nat
  BY <1>9, Sizes
<1>12. Cardinality(Ended') + failures <= Cardinality(Ended) + 1 + failures'
  BY <1>0, <1>10, <1>11, Counts
<1>13. listed' = {v \in WorkerIds : thread'[v] \in {"alive", "failing", "ending"}}
  <2>1. thread[w] \in {"alive", "failing", "ending"}
            <=> thread'[w] \in {"alive", "failing", "ending"}
    BY <1>0, <1>7, <1>9 DEF States
  <2> QED BY <1>6, <1>9, <2>1 DEF PoolInv
<1>14. \A v \in WorkerIds : task'[v] # NoTask => thread'[v] # "none"
  BY <1>0, <1>1, <1>7, <1>9 DEF PoolInv
<1>15. NeverShort'
  <2>1. IsFiniteSet(listed) /\ Cardinality(listed) \in Nat
    BY FS_CardinalityType DEF IInv
  <2>2. /\ Cardinality(listed \cup {new}) = Cardinality(listed) + 1
        /\ Cardinality(listed') + Cardinality(Unmade')
               >= Cardinality(listed) + Cardinality(Unmade)
    <3>1. Cardinality(listed \cup {new}) = Cardinality(listed) + 1
      BY <1>6, <2>1, FS_AddElement
    <3>2. Cardinality(Unmade) \in Nat /\ Cardinality(Unmade') \in Nat
      BY Counts
    <3>3. CASE listed' = listed \cup {new} /\ failures' = failures
      BY <1>0, <1>10, <2>1, <3>1, <3>2, <3>3
    <3>4. CASE listed' = listed /\ failures' = failures + 1
      BY <1>0, <1>10, <2>1, <3>1, <3>2, <3>4
    <3> QED BY <1>9, <3>1, <3>3, <3>4
  <2>3. Cardinality(listed') \in Nat
    <3>1. Cardinality(listed \cup {new}) \in Nat
      BY <2>1, <2>2
    <3>2. listed' = listed \/ listed' = listed \cup {new}
      BY <1>9a
    <3> QED BY <2>1, <3>1, <3>2
  <2>4. /\ NeverShort /\ MaxWorkers \in Nat
        /\ Cardinality(Unmade) \in Nat /\ Cardinality(Unmade') \in Nat
    BY Counts, Sizes DEF PoolInv
  <2> QED BY <1>9a, <2>1, <2>2, <2>3, <2>4 DEF NeverShort
<1>16. /\ Cardinality(Started') + Cardinality(Untimed')
              <= MaxWorkers + Cardinality(Tasks) + failures'
       /\ phase' = "open" =>
              Cardinality(Ended') + Cardinality(Untimed') <= Cardinality(Tasks) + failures'
  <2>1. Cardinality(Ended') \in Nat /\ Cardinality(Untimed') \in Nat
    BY Counts
  <2>2. failures' >= failures
    BY <1>0, <1>9a
  <2>3. Cardinality(Started') = Cardinality(Started) + 1
    BY <1>6, <1>9a
  <2>4. phase' = phase /\ failures \in Nat
    BY <1>0, <1>9a
  <2>5. /\ Cardinality(Tasks) \in Nat /\ MaxWorkers \in Nat
        /\ Cardinality(Started) \in Nat /\ Cardinality(Ended) \in Nat
        /\ Cardinality(Untimed) \in Nat
        /\ Cardinality(Started) + Cardinality(Untimed)
               <= MaxWorkers + Cardinality(Tasks) + failures
        /\ phase = "open" =>
               Cardinality(Ended) + Cardinality(Untimed) <= Cardinality(Tasks) + failures
    BY Bounds
  <2>6. Cardinality(Started') + Cardinality(Untimed')
            <= MaxWorkers + Cardinality(Tasks) + failures'
    BY <1>4, <1>11, <2>1, <2>2, <2>3, <2>4, <2>5
  <2>7. ASSUME phase' = "open"
        PROVE  Cardinality(Ended') + Cardinality(Untimed') <= Cardinality(Tasks) + failures'
    <3>1. Cardinality(Ended) + Cardinality(Untimed) <= Cardinality(Tasks) + failures
      BY <2>4, <2>5, <2>7
    <3> QED BY <1>4, <1>11, <1>12, <2>1, <2>4, <2>5, <3>1
  <2> QED BY <2>6, <2>7
<1>17. failures' \in 0..MaxFailures /\ thread' \in [WorkerIds -> States]
  BY <1>9a
<1> QED BY <1>17, <1>9b, <1>13, <1>14, <1>15, <1>16 DEF PoolInv

(* An exit makes a worker only when no more than maxWorkers were listed.      *)
LEMMA WorkerExitsCounts ==
    ASSUME IInv, PoolInv, NEW w \in WorkerIds, WorkerExits(w)
    PROVE  PoolInv'
<1> DEFINE new == NewWorker
           others == listed \ {w}
<1>0. /\ thread \in [WorkerIds -> States] /\ failures \in 0..MaxFailures /\ failures \in Nat
      /\ thread[w] = "ending" /\ w \in listed
  BY Sizes DEF WorkerExits, PoolInv
<1>1. promise' = Rejected(task[w]) /\ UNCHANGED <<queue, task, timer, phase>>
  BY DEF WorkerExits
<1>2. Untimed' \subseteq Untimed
  BY <1>1, RejectionTakesNoTime
<1>3. Cardinality(Untimed') <= Cardinality(Untimed)
  BY <1>2, Counts, Sizes, FS_Subset
<1>4. /\ IsFiniteSet(listed) /\ Cardinality(listed) \in Nat
      /\ IsFiniteSet(others) /\ Cardinality(others) = Cardinality(listed) - 1
      /\ Cardinality(others) \in Nat
  BY <1>0, FS_CardinalityType, FS_RemoveElement DEF IInv
<1> HIDE DEF others
<1>5. CASE ~ (phase = "open" /\ Cardinality(others) < MaxWorkers)
  <2>1. thread' = [thread EXCEPT ![w] = "gone"] /\ listed' = others /\ UNCHANGED failures
    BY <1>5 DEF WorkerExits, others
  <2>2. thread' \in [WorkerIds -> States]
    BY <1>0, <2>1 DEF States
  <2>3. Started' = Started /\ Ended' = Ended
    BY <1>0, <2>1 DEF Started, Ended
  <2>4. listed' = {v \in WorkerIds : thread'[v] \in {"alive", "failing", "ending"}}
    BY <1>0, <2>1 DEF PoolInv, others
  <2>5. \A v \in WorkerIds : task'[v] # NoTask => thread'[v] # "none"
    BY <1>0, <1>1, <2>1 DEF PoolInv
  <2>6. NeverShort'
    BY <1>1, <1>4, <1>5, <2>1, Counts, Sizes DEF NeverShort
  <2>7. /\ Cardinality(Started') + Cardinality(Untimed')
               <= MaxWorkers + Cardinality(Tasks) + failures'
        /\ phase' = "open" =>
               Cardinality(Ended') + Cardinality(Untimed') <= Cardinality(Tasks) + failures'
    <3>1. failures' = failures /\ phase' = phase /\ Cardinality(Untimed') \in Nat
      BY <1>1, <2>1, Counts
    <3> QED BY <1>3, <2>3, <3>1, Bounds
  <2>8. failures' \in 0..MaxFailures /\ \E n \in 0..Size : Started' = 1..n
    BY <1>0, <2>1, <2>3 DEF PoolInv
  <2> QED BY <2>2, <2>4, <2>5, <2>6, <2>7, <2>8 DEF PoolInv
<1>6. CASE phase = "open" /\ Cardinality(others) < MaxWorkers
  <2>1. CreateWorker(others, [thread EXCEPT ![w] = "gone"])
    BY <1>6 DEF WorkerExits, others
  <2>2. Started = others \cup Ended
    BY <1>0 DEF Started, Ended, PoolInv, States, others
  <2>3. Cardinality(Started) <= Cardinality(others) + Cardinality(Ended)
    <3>1. IsFiniteSet(Ended)
      BY Counts, Sizes
    <3>2. IsFiniteSet(others \cap Ended) /\ Cardinality(others \cap Ended) \in Nat
      BY <1>4, FS_Intersection, FS_CardinalityType
    <3>3. Cardinality(others \cup Ended)
              = Cardinality(others) + Cardinality(Ended) - Cardinality(others \cap Ended)
      BY <1>4, <3>1, FS_Union
    <3> QED BY <1>4, <2>2, <3>2, <3>3, Counts
  <2>4. Cardinality(Started) + 1 + Cardinality(Untimed)
            <= MaxWorkers + Cardinality(Tasks) + failures
    <3>1. /\ MaxWorkers \in Nat /\ Cardinality(others) \in Nat
          /\ Cardinality(others) + 1 <= MaxWorkers
      BY <1>4, <1>6, Sizes
    <3> QED BY <1>6, <2>3, <3>1, Bounds
  <2>5. Cardinality(Started) < Size
    <3>1. /\ MaxFailures \in Nat /\ failures <= MaxFailures
          /\ Size = MaxWorkers + Cardinality(Tasks) + MaxFailures
      BY <1>0, Sizes DEF Size
    <3> QED BY <1>0, <2>4, <3>1, Bounds
  <2>6. /\ new \in WorkerIds /\ new \notin Started /\ new \notin listed
        /\ thread[new] = "none"
        /\ Cardinality(Started \cup {new}) = Cardinality(Started) + 1
        /\ \E n \in 0..Size : Started \cup {new} = 1..n
    BY <2>5, NewIsNew
  <2>6a. new = NewWorker
    OBVIOUS
  <2> HIDE DEF new
  <2>7. PICK made \in {"alive", "unmade"} :
            /\ thread' \in [WorkerIds -> States] /\ thread'[new] = made
            /\ thread'[w] = "gone" /\ new # w
            /\ \A v \in WorkerIds : v # new /\ v # w => thread'[v] = thread[v]
            /\ Started' = Started \cup {new}
            /\ failures' \in 0..MaxFailures
            /\ \/ /\ made = "alive" /\ failures' = failures /\ Unmade' = Unmade
                  /\ listed' = others \cup {new} /\ Ended' \subseteq Ended \cup {w}
               \/ /\ made = "unmade" /\ failures' = failures + 1
                  /\ Unmade' = Unmade \cup {new} /\ listed' = others
                  /\ Ended' \subseteq (Ended \cup {w}) \cup {new}
    <3>1. "gone" \in States \ {"none", "alive"} /\ thread[w] # "none" /\ thread[w] # "unmade"
      BY <1>0 DEF States
    <3> QED BY <2>1, <2>6, <2>6a, <3>1, Creation
  <2>8. /\ Cardinality(Ended') + failures <= Cardinality(Ended) + failures'
        /\ Cardinality(Unmade') + failures = Cardinality(Unmade) + failures'
    <3>1. Ended \cup {w} = Ended
      BY <1>0 DEF Ended
    <3> QED BY <2>6, <2>7, <3>1, CreationCounts
  <2>9. listed' = {v \in WorkerIds : thread'[v] \in {"alive", "failing", "ending"}}
    BY <2>6, <2>7 DEF PoolInv, others
  <2>10. \A v \in WorkerIds : task'[v] # NoTask => thread'[v] # "none"
    BY <1>1, <2>7 DEF PoolInv
  <2>10a. failures' \in Nat /\ failures' >= failures
    BY <1>0, <2>7
  <2>11. NeverShort'
    <3>1. new \notin others
      BY <2>6 DEF others
    <3>2. Cardinality(others \cup {new}) = Cardinality(others) + 1
      BY <1>4, <3>1, FS_AddElement
    <3>3. Cardinality(listed') + Cardinality(Unmade')
              = Cardinality(listed) + Cardinality(Unmade)
      <4>1. Cardinality(Unmade) \in Nat /\ Cardinality(Unmade') \in Nat
        BY Counts
      <4>2. CASE listed' = others \cup {new} /\ failures' = failures
        BY <1>0, <1>4, <2>8, <3>2, <4>1, <4>2
      <4>3. CASE listed' = others /\ failures' = failures + 1
        BY <1>0, <1>4, <2>8, <4>1, <4>3
      <4> QED BY <2>7, <4>2, <4>3
    <3> QED BY <1>1, <3>3 DEF PoolInv, NeverShort
  <2>12. /\ Cardinality(Started') + Cardinality(Untimed')
                <= MaxWorkers + Cardinality(Tasks) + failures'
         /\ phase' = "open" =>
                Cardinality(Ended') + Cardinality(Untimed') <= Cardinality(Tasks) + failures'
    <3>1. Cardinality(Untimed') \in Nat /\ Cardinality(Ended') \in Nat
      BY Counts
    <3>2. Cardinality(Started') = Cardinality(Started) + 1
      BY <2>6, <2>7
    <3> QED BY <1>0, <1>1, <1>3, <1>6, <2>4, <2>8, <2>10a, <3>1, <3>2, Bounds
  <2> QED BY <1>1, <2>6, <2>7, <2>9, <2>10, <2>11, <2>12 DEF PoolInv
<1> QED BY <1>5, <1>6

LEMMA DrainedCounts ==
    ASSUME IInv, PoolInv, Drained
    PROVE  PoolInv'
<1>1. /\ phase' = "terminating" /\ UNCHANGED <<queue, listed, task, timer, promise, failures>>
      /\ thread' = [w \in WorkerIds |-> IF w \in listed THEN Terminated(w) ELSE thread[w]]
  BY DEF Drained
<1>2. thread' \in [WorkerIds -> States]
  BY <1>1 DEF PoolInv, States, Terminated
<1>3. Started' = Started /\ Untimed' = Untimed
  BY <1>1 DEF Started, Untimed, Terminated, PoolInv
<1>4. listed' = {v \in WorkerIds : thread'[v] \in {"alive", "failing", "ending"}}
  BY <1>1 DEF PoolInv, Terminated
<1>5. \A v \in WorkerIds : task'[v] # NoTask => thread'[v] # "none"
  BY <1>1 DEF PoolInv, Terminated
<1> QED BY <1>1, <1>2, <1>3, <1>4, <1>5 DEF PoolInv, NeverShort

LEMMA InitCounts == Init => PoolInv
<1> SUFFICES ASSUME Init PROVE PoolInv
  OBVIOUS
<1>1. MaxWorkers \in Nat \ {0} /\ MaxWorkers \in 0..Size /\ 1..MaxWorkers \subseteq WorkerIds
  BY Sizes DEF Size
<1>2. \A w \in WorkerIds : w \in Nat \ {0}
  BY Sizes
<1>3. thread = [w \in WorkerIds |-> IF w <= MaxWorkers THEN "alive" ELSE "none"]
  BY DEF Init
<1>4. Started = 1..MaxWorkers /\ Ended = {} /\ Unmade = {}
  BY <1>1, <1>2, <1>3 DEF Started, Ended, Unmade
<1>5. listed = {w \in WorkerIds : thread[w] \in {"alive", "failing", "ending"}}
  BY <1>1, <1>2, <1>3 DEF Init
<1>6. Untimed = Tasks
  BY DEF Untimed, Init
<1>7. Cardinality(Started) = MaxWorkers /\ Cardinality(Ended) = 0
      /\ Cardinality(Untimed) = Cardinality(Tasks)
  BY <1>1, <1>4, <1>6, IntervalSize, FS_EmptySet
<1>8. thread \in [WorkerIds -> States]
  BY <1>3 DEF States
<1>9. NeverShort
  BY <1>1, <1>4, <1>7, FS_EmptySet DEF NeverShort, Init
<1>10. failures = 0 /\ failures \in 0..MaxFailures
  BY Sizes DEF Init
<1>11. \A w \in WorkerIds : task[w] # NoTask => thread[w] # "none"
  BY DEF Init
<1>12. /\ Cardinality(Started) + Cardinality(Untimed)
              <= MaxWorkers + Cardinality(Tasks) + failures
       /\ Cardinality(Ended) + Cardinality(Untimed) <= Cardinality(Tasks) + failures
  BY <1>1, <1>7, <1>10, Sizes
<1> QED BY <1>1, <1>4, <1>5, <1>8, <1>9, <1>10, <1>11, <1>12 DEF PoolInv

-------------------------------------------------------------------------------
(* The theorems. *)

(* Every reachable state satisfies the inductive invariant: tasks stay apart, *)
(* a thread has the task of its worker and a waiting caller's task has a      *)
(* timer, in whatever order messages, timeouts and exits are handled.         *)
THEOREM InductiveInvariant == Spec => []IInv
<1>1. IInv /\ [Next]_vars => IInv'
  <2> SUFFICES ASSUME IInv, [Next]_vars PROVE IInv'
    OBVIOUS
  <2>1. ASSUME NEW t \in Tasks, ExecuteTask(t) PROVE IInv'
    BY <2>1, ExecuteTaskHolds
  <2>2. ASSUME NEW t \in Tasks, RefuseTask(t) PROVE IInv'
    <3>1. promise[t] = "none" /\ promise' = [promise EXCEPT ![t] = "error"]
          /\ UNCHANGED <<queue, listed, task, timer, running, got>>
      BY <2>2 DEF RefuseTask
    <3>2. /\ \A i \in DOMAIN queue : queue[i] \in Tasks /\ queue[i] # t
          /\ \A w \in WorkerIds : task[w] # NoTask => task[w] \in Tasks /\ task[w] # t
      BY <3>1 DEF IInv, Consistent, MaybeTask
    <3>3. /\ promise' \in [Tasks -> Promises] /\ promise'[t] = "error"
          /\ \A s \in Tasks : s # t => promise'[s] = promise[s]
      BY <3>1 DEF IInv, Consistent, Promises
    <3>4. Consistent(queue, task, timer, running, promise')
      BY <3>2, <3>3, WorkerPoolAssumption DEF IInv, Consistent
    <3>5. AnswersAreOwn'
      BY <3>1, <3>3 DEF IInv, AnswersAreOwn
    <3> QED BY <3>1, <3>4, <3>5 DEF IInv
  <2>3. ASSUME NEW w \in WorkerIds, WorkerStep(w) PROVE IInv'
    <3>1. CASE TaskMessage(w)
      BY <3>1, TaskMessageHolds
    <3>2. CASE TaskTimeout(w)
      BY <3>2, TaskTimeoutHolds
    <3>3. CASE ThreadFails(w)
      BY <3>3, OthersHold DEF ThreadFails
    <3>4. CASE WorkerError(w) \/ HeartbeatMissed(w)
      <4>1. /\ promise' = Rejected(task[w]) /\ UNCHANGED listed
            /\ UNCHANGED <<queue, task, timer, running, got>>
        BY <3>4 DEF WorkerError, HeartbeatMissed
      <4>2. /\ Consistent(queue, task, timer, running, promise') /\ AnswersAreOwn'
        BY <4>1, RejectedKeeps
      <4>3. Consistent(queue', task', timer', running', promise')
        BY <4>1, <4>2
      <4> QED BY <4>1, <4>2, <4>3 DEF IInv
    <3>5. CASE WorkerExits(w)
      BY <3>5, WorkerExitsHolds
    <3> QED BY <2>3, <3>1, <3>2, <3>3, <3>4, <3>5 DEF WorkerStep
  <2>4. CASE Shutdown \/ Drained \/ ShutdownDone
    BY <2>4, OthersHold DEF Shutdown, Drained, ShutdownDone
  <2>5. CASE UNCHANGED vars
    BY <2>5, OthersHold DEF vars
  <2> QED BY <2>1, <2>2, <2>3, <2>4, <2>5 DEF Next
<1> QED BY InitHolds, <1>1, PTL DEF Spec

(* A caller is given the result of its own task, although a message is taken  *)
(* for the answer to whatever its worker's current task is.                   *)
THEOREM AnswersStayOwn == Spec => []AnswersAreOwn
<1>1. IInv => AnswersAreOwn
  BY DEF IInv
<1> QED BY <1>1, InductiveInvariant, PTL

(* No task is run twice, whatever workers and timers do.                      *)
THEOREM TasksRunOnce == Spec => []RunsOnce
<1>1. IInv => RunsOnce
  BY DEF IInv, Consistent, RunsOnce
<1> QED BY <1>1, InductiveInvariant, PTL

(* While the caller of a posted task waits, the task has a timer: nothing     *)
(* that happens to its worker can leave the caller unanswered.                *)
THEOREM PostedStaysWatched == Spec => []PostedIsWatched
<1>1. IInv => PostedIsWatched
  BY DEF IInv, Consistent, PostedIsWatched
<1> QED BY <1>1, InductiveInvariant, PTL

(* Each worker has an id of its own, the ids last, and an exit is made good   *)
(* for before the next event is handled.                                      *)
LEMMA PoolCounted == Spec => []PoolInv
<1>1. IInv /\ PoolInv /\ [Next]_vars => PoolInv'
  <2> SUFFICES ASSUME IInv, PoolInv, [Next]_vars PROVE PoolInv'
    OBVIOUS
  <2>1. ASSUME NEW t \in Tasks, ExecuteTask(t) PROVE PoolInv'
    BY <2>1, ExecuteTaskCounts
  <2>2. ASSUME NEW t \in Tasks, RefuseTask(t) PROVE PoolInv'
    <3>1. Untimed' \subseteq Untimed
      BY <2>2 DEF RefuseTask, Untimed
    <3> QED BY <2>2, <3>1, TasksMove DEF RefuseTask
  <2>3. ASSUME NEW w \in WorkerIds, WorkerStep(w) PROVE PoolInv'
    <3>0. /\ thread[w] \in {"alive", "failing", "ending"} <=> w \in listed
          /\ failures \in Nat /\ MaxFailures \in Nat /\ failures <= MaxFailures
      BY Sizes DEF PoolInv
    <3>1. CASE TaskMessage(w)
      BY <3>1, TaskMessageCounts
    <3>2. CASE TaskTimeout(w)
      BY <3>2, TaskTimeoutCounts
    <3>3. CASE ThreadFails(w)
      <4>1. Untimed' \subseteq Untimed
        BY <3>3 DEF ThreadFails, Untimed
      <4>2. failures' \in failures..MaxFailures /\ failures' = failures + 1
        BY <3>0, <3>3 DEF ThreadFails
      <4> QED BY <3>0, <3>3, <4>1, <4>2, WorkerTurns DEF ThreadFails
    <3>4. CASE WorkerError(w)
      <4>1. Untimed' \subseteq Untimed
        BY <3>4, RejectionTakesNoTime DEF WorkerError
      <4>2. failures' \in failures..MaxFailures
        BY <3>0, <3>4 DEF WorkerError
      <4> QED BY <3>0, <3>4, <4>1, <4>2, WorkerTurns DEF WorkerError
    <3>5. CASE HeartbeatMissed(w)
      <4>1. Untimed' \subseteq Untimed
        BY <3>5, RejectionTakesNoTime DEF HeartbeatMissed
      <4>2. failures' \in failures..MaxFailures /\ failures' = failures + 1
        BY <3>0, <3>5 DEF HeartbeatMissed
      <4>3. Terminated(w) \in {"failing", "ending"}
        BY <3>0, <3>5 DEF Terminated, HeartbeatMissed
      <4> QED BY <3>0, <3>5, <4>1, <4>2, <4>3, WorkerTurns DEF HeartbeatMissed
    <3>6. CASE WorkerExits(w)
      BY <3>6, WorkerExitsCounts
    <3> QED BY <2>3, <3>1, <3>2, <3>3, <3>4, <3>5, <3>6 DEF WorkerStep
  <2>4. CASE Drained
    BY <2>4, DrainedCounts
  <2>5. CASE Shutdown \/ ShutdownDone \/ UNCHANGED vars
    <3>1. Untimed' \subseteq Untimed
      BY <2>5 DEF Shutdown, ShutdownDone, vars, Untimed
    <3> QED BY <2>5, <3>1, TasksMove DEF Shutdown, ShutdownDone, vars
  <2> QED BY <2>1, <2>2, <2>3, <2>4, <2>5 DEF Next
<1> QED BY InitCounts, <1>1, InductiveInvariant, PTL DEF Spec

(* While the pool is open it lists maxWorkers workers but for the             *)
(* replacements that could not be created, in whatever order timeouts, exits  *)
(* and failures of createWorker come.                                         *)
THEOREM PoolNeverShort == Spec => []NeverShort
<1>1. PoolInv => NeverShort
  BY DEF PoolInv
<1> QED BY <1>1, PoolCounted, PTL

-------------------------------------------------------------------------------
(* The worker pool implements TaskService. *)

Held(tk) == {tk[w] : w \in WorkerIds} \ {NoTask}

(* Every rank up to the size of the set is the rank of a member.              *)
LEMMA RanksAreAll ==
    ASSUME NEW S, IsFiniteSet(S), S \subseteq Nat, NEW r \in 1..Cardinality(S)
    PROVE  \E w \in S : Rank(S, w) = r
<1> DEFINE N == Cardinality(S)
           f == [w \in S |-> Rank(S, w)]
<1>1. N \in Nat /\ IsFiniteSet(1..N) /\ Cardinality(1..N) = N
  <2>1. N \in Nat
    BY FS_CardinalityType
  <2> HIDE DEF N
  <2>2. 1 \in Int /\ N \in Int
    BY <2>1
  <2> QED BY <2>1, <2>2, IntervalSize, FS_Interval
<1>2. \A w \in S : Rank(S, w) \in 1..N
  <2> SUFFICES ASSUME NEW w \in S PROVE Rank(S, w) \in 1..N
    OBVIOUS
  <2>1. Rank(S, w) <= N
    BY FS_Subset DEF Rank
  <2>2. Rank(S, w) \in Nat \ {0}
    BY RankPositive
  <2> HIDE DEF N
  <2> QED BY <1>1, <2>1, <2>2
<1>3. f \in Injection(S, 1..N)
  <2>1. \A v, w \in S : v # w => Rank(S, v) # Rank(S, w)
    BY RankInjective
  <2> HIDE DEF N
  <2> QED BY <1>2, <2>1 DEF Injection, IsInjective
<1> HIDE DEF N, f
<1>4. f \in Surjection(S, 1..N)
  BY <1>1, <1>3, FS_Injection DEF N
<1> QED BY <1>4 DEF Surjection, f, N

(* assignTasks gives out the first tasks of its queue, none of them twice and *)
(* none left out, however many workers are idle.                              *)
LEMMA AssignGives ==
    ASSUME listed \subseteq WorkerIds, NEW q \in Seq(Tasks),
           NEW tk \in [WorkerIds -> MaybeTask], NEW tm, NEW run, AssignTasks(q, tk, tm, run)
    PROVE  \E n \in 0..Len(q) :
               /\ queue' = SubSeq(q, n + 1, Len(q))
               /\ Held(task') = Held(tk) \cup {q[i] : i \in 1..n}
<1> DEFINE idle == {w \in listed : tk[w] = NoTask}
           n == Taken(q, idle)
           given == {w \in idle : Rank(idle, w) <= n}
<1>1. /\ queue' = SubSeq(q, n + 1, Len(q))
      /\ task' = [w \in WorkerIds |-> IF w \in given THEN q[Rank(idle, w)] ELSE tk[w]]
  BY DEF AssignTasks, Rank
<1>2. n \in 0..Len(q) /\ Len(q) \in Nat /\ DOMAIN q = 1..Len(q)
  BY TakenBound
<1>3. IsFiniteSet(idle) /\ idle \subseteq Nat /\ Cardinality(idle) \in Nat
  BY WorkersAreNumbers, FS_Subset, FS_CardinalityType
<1>4. n <= Cardinality(idle)
  <2> DEFINE T == {i \in DOMAIN q : /\ i <= Cardinality(idle)
                                    /\ \A j \in 1..(i - 1) : q[j] \notin Hooked}
  <2>1. T \subseteq 1..Cardinality(idle)
    BY <1>2, <1>3
  <2>2. Cardinality(1..Cardinality(idle)) = Cardinality(idle)
    BY <1>3, IntervalSize
  <2>3. 1 \in Int /\ Cardinality(idle) \in Int
    BY <1>3
  <2>4. IsFiniteSet(1..Cardinality(idle))
    BY <2>3, FS_Interval
  <2>5. n = Cardinality(T)
    BY DEF Taken
  <2> HIDE DEF T, n, idle
  <2> QED BY <2>1, <2>2, <2>4, <2>5, FS_Subset
<1>5. \A w \in given : /\ w \in idle /\ w \in WorkerIds /\ tk[w] = NoTask
                       /\ Rank(idle, w) \in 1..n
  <2> SUFFICES ASSUME NEW w \in given
               PROVE  /\ w \in idle /\ w \in WorkerIds /\ tk[w] = NoTask
                      /\ Rank(idle, w) \in 1..n
    OBVIOUS
  <2>1. w \in idle /\ w \in WorkerIds /\ tk[w] = NoTask /\ Rank(idle, w) <= n
    OBVIOUS
  <2> HIDE DEF idle, n
  <2>2. Rank(idle, w) \in Nat \ {0}
    BY <1>3, <2>1, RankPositive
  <2> QED BY <1>2, <2>1, <2>2
<1>6. \A i \in 1..n : \E w \in given : Rank(idle, w) = i
  <2> SUFFICES ASSUME NEW i \in 1..n PROVE \E w \in given : Rank(idle, w) = i
    OBVIOUS
  <2>1. PICK w \in idle : Rank(idle, w) = i
    <3> HIDE DEF idle, n
    <3>1. i \in 1..Cardinality(idle)
      BY <1>2, <1>3, <1>4
    <3> QED BY <1>3, <3>1, RanksAreAll
  <2>2. i <= n
    BY <1>2
  <2>3. w \in given
    BY <2>1, <2>2
  <2> QED BY <2>1, <2>3
<1>7. \A i \in 1..n : q[i] \in Tasks /\ q[i] # NoTask
  <2> HIDE DEF n
  <2> QED BY <1>2, WorkerPoolAssumption
<1> HIDE DEF idle, n, given
<1>8. Held(task') \subseteq Held(tk) \cup {q[i] : i \in 1..n}
  <2> SUFFICES ASSUME NEW w \in WorkerIds, task'[w] # NoTask
               PROVE  task'[w] \in Held(tk) \cup {q[i] : i \in 1..n}
    BY DEF Held
  <2>1. CASE w \in given
    BY <1>1, <1>5, <2>1
  <2>2. CASE w \notin given
    BY <1>1, <2>2 DEF Held
  <2> QED BY <2>1, <2>2
<1>9. Held(tk) \subseteq Held(task')
  <2> SUFFICES ASSUME NEW w \in WorkerIds, tk[w] # NoTask
               PROVE  tk[w] \in Held(task')
    BY DEF Held
  <2>1. w \notin given /\ task'[w] = tk[w]
    BY <1>1, <1>5
  <2> QED BY <2>1 DEF Held
<1>10. {q[i] : i \in 1..n} \subseteq Held(task')
  <2> SUFFICES ASSUME NEW i \in 1..n PROVE q[i] \in Held(task')
    OBVIOUS
  <2>1. PICK w \in given : Rank(idle, w) = i
    BY <1>6
  <2>2. w \in WorkerIds /\ task'[w] = q[i]
    BY <1>1, <1>5, <2>1
  <2> QED BY <1>7, <2>2 DEF Held
<1>11. Held(task') = Held(tk) \cup {q[i] : i \in 1..n}
  BY <1>8, <1>9, <1>10
<1> QED BY <1>1, <1>2, <1>11

LEMMA PoolListsWorkers == PoolInv => listed \subseteq WorkerIds
BY DEF PoolInv

LEMMA PoolInitImplements == Init => Service!Init
<1> SUFFICES ASSUME Init PROVE Service!Init
  OBVIOUS
<1>1. {task[w] : w \in WorkerIds} \ {NoTask} = {}
  BY DEF Init
<1> QED BY <1>1 DEF Init, Service!Init

LEMMA ExecuteImplements ==
    ASSUME IInv, PoolInv, NEW t \in Tasks, ExecuteTask(t)
    PROVE  Service!Submit(t)
<1>1. /\ AssignTasks(Append(queue, t), task, timer, running) /\ UNCHANGED got
      /\ promise[t] = "none"
      /\ \E a \in {"pending", "error"} : promise' = [promise EXCEPT ![t] = a]
  BY DEF ExecuteTask
<1>2. Append(queue, t) \in Seq(Tasks) /\ task \in [WorkerIds -> MaybeTask]
  BY DEF IInv, Consistent
<1>3. \E n \in 0..Len(Append(queue, t)) :
          /\ queue' = SubSeq(Append(queue, t), n + 1, Len(Append(queue, t)))
          /\ Held(task') = Held(task) \cup {Append(queue, t)[i] : i \in 1..n}
  BY <1>1, <1>2, PoolListsWorkers, AssignGives
<1>4. Service!GiveOut(Append(queue, t), {task[w] : w \in WorkerIds} \ {NoTask})
  BY <1>3 DEF Service!GiveOut, Held
<1> QED BY <1>1, <1>4 DEF Service!Submit

(* The worker's task is held by no other worker, and the result is the task's. *)
LEMMA MessageImplements ==
    ASSUME IInv, PoolInv, NEW w \in WorkerIds, TaskMessage(w)
    PROVE  task[w] \in Tasks /\ Service!Finish(task[w])
<1> DEFINE t == task[w]
           tk == [task EXCEPT ![w] = NoTask]
           tm == [timer EXCEPT ![w] = NoTask]
           run == [running EXCEPT ![w] = NoTask]
<1>1. /\ running[w] = t /\ t \in Tasks /\ t # NoTask /\ promise[t] # "none"
      /\ promise[t] \in Promises /\ queue \in Seq(Tasks)
      /\ promise \in [Tasks -> Promises] /\ got \in [Tasks -> MaybeTask]
  BY DEF TaskMessage, IInv, Consistent, MaybeTask
<1>2. tk \in [WorkerIds -> MaybeTask]
  BY DEF IInv, Consistent, MaybeTask
<1>3. Held(tk) = Held(task) \ {t}
  <2>1. tk[w] = NoTask /\ \A v \in WorkerIds : v # w => tk[v] = task[v] /\ task[v] # t
    BY <1>1 DEF IInv, Consistent
  <2> HIDE DEF tk
  <2> QED BY <1>1, <2>1 DEF Held
<1>4. AssignTasks(queue, tk, tm, run)
  BY DEF TaskMessage
<1> HIDE DEF tk, tm, run
<1>5. \E n \in 0..Len(queue) :
          /\ queue' = SubSeq(queue, n + 1, Len(queue))
          /\ Held(task') = Held(tk) \cup {queue[i] : i \in 1..n}
  BY <1>1, <1>2, <1>4, PoolListsWorkers, AssignGives
<1>5a. \E n \in 0..Len(queue) :
           /\ queue' = SubSeq(queue, n + 1, Len(queue))
           /\ {task'[v] : v \in WorkerIds} \ {NoTask}
                 = (({task[v] : v \in WorkerIds} \ {NoTask}) \ {t}) \cup {queue[i] : i \in 1..n}
  BY <1>3, <1>5 DEF Held
<1>6. PICK answer \in {"result", "error"} :
          /\ promise' = [promise EXCEPT ![t] = IF @ = "pending" THEN answer ELSE @]
          /\ got' = [got EXCEPT ![t] =
                 IF promise[t] = "pending" /\ answer = "result" THEN running[w] ELSE @]
  BY DEF TaskMessage
<1>7. \/ /\ promise[t] = "pending" /\ promise' = [promise EXCEPT ![t] = "result"]
         /\ got' = [got EXCEPT ![t] = t]
      \/ /\ promise[t] = "pending" /\ promise' = [promise EXCEPT ![t] = "error"]
         /\ UNCHANGED got
      \/ promise[t] \in {"result", "error"} /\ UNCHANGED <<promise, got>>
  <2> HIDE DEF t
  <2>1. CASE promise[t] = "pending" /\ answer = "result"
    BY <1>1, <1>6, <2>1
  <2>2. CASE promise[t] = "pending" /\ answer = "error"
    BY <1>1, <1>6, <2>2
  <2>3. CASE promise[t] # "pending"
    BY <1>1, <1>6, <2>3 DEF Promises
  <2> QED BY <2>1, <2>2, <2>3
<1>8. t \in {task[v] : v \in WorkerIds} \ {NoTask}
  BY <1>1
<1> HIDE DEF t
<1>9. Service!Finish(t)
  <2>1. CASE promise[t] \in {"result", "error"} /\ UNCHANGED <<promise, got>>
    BY <1>5a, <1>8, <2>1 DEF Service!Finish, Service!GiveOut
  <2>2. CASE /\ promise[t] = "pending" /\ promise' = [promise EXCEPT ![t] = "result"]
             /\ got' = [got EXCEPT ![t] = t]
    BY <1>5a, <1>8, <2>2 DEF Service!Finish, Service!GiveOut
  <2>3. CASE /\ promise[t] = "pending" /\ promise' = [promise EXCEPT ![t] = "error"]
             /\ UNCHANGED got
    BY <1>5a, <1>8, <2>3 DEF Service!Finish, Service!GiveOut
  <2> QED BY <1>7, <2>1, <2>2, <2>3
<1> QED BY <1>1, <1>9 DEF t

LEMMA PoolStutters ==
    ASSUME UNCHANGED <<queue, task, promise, got>>
    PROVE  [Service!Next]_(Service!vars)
BY DEF Service!vars

(* A rejection fails a task that a worker has, or comes too late.             *)
LEMMA RejectionImplements ==
    ASSUME IInv, NEW w \in WorkerIds, promise' = Rejected(task[w]),
           UNCHANGED <<queue, task, got>>
    PROVE  [Service!Next]_(Service!vars)
<1>0. promise \in [Tasks -> Promises] /\ task[w] \in MaybeTask
  BY DEF IInv, Consistent
<1>1. CASE task[w] \in Tasks /\ promise[task[w]] = "pending"
  <2>1. task[w] \in {task[v] : v \in WorkerIds} \ {NoTask}
    BY <1>1, WorkerPoolAssumption
  <2>2. promise' = [promise EXCEPT ![task[w]] = "error"]
    BY <1>0, <1>1 DEF Rejected
  <2>3. Service!Fail(task[w])
    BY <1>1, <2>1, <2>2 DEF Service!Fail
  <2> QED BY <1>1, <2>3 DEF Service!Next
<1>2. CASE ~ (task[w] \in Tasks /\ promise[task[w]] = "pending")
  <2>1. promise' = promise
    BY <1>0, <1>2 DEF Rejected
  <2> QED BY <2>1, PoolStutters
<1> QED BY <1>1, <1>2

LEMMA PoolStepImplements ==
    ASSUME IInv, PoolInv, [Next]_vars
    PROVE  [Service!Next]_(Service!vars)
<1>1. ASSUME NEW t \in Tasks, ExecuteTask(t) PROVE [Service!Next]_(Service!vars)
  BY <1>1, ExecuteImplements DEF Service!Next
<1>2. ASSUME NEW t \in Tasks, RefuseTask(t) PROVE [Service!Next]_(Service!vars)
  <2>1. Service!Refuse(t)
    BY <1>2 DEF RefuseTask, Service!Refuse
  <2> QED BY <2>1 DEF Service!Next
<1>3. ASSUME NEW w \in WorkerIds, WorkerStep(w) PROVE [Service!Next]_(Service!vars)
  <2>1. CASE TaskMessage(w)
    BY <2>1, MessageImplements DEF Service!Next
  <2>2. CASE TaskTimeout(w) \/ WorkerError(w) \/ HeartbeatMissed(w) \/ WorkerExits(w)
    <3>1. promise' = Rejected(task[w]) /\ UNCHANGED <<queue, task, got>>
      BY <2>2 DEF TaskTimeout, WorkerError, HeartbeatMissed, WorkerExits
    <3> QED BY <3>1, RejectionImplements
  <2>3. CASE ThreadFails(w)
    BY <2>3, PoolStutters DEF ThreadFails
  <2> QED BY <1>3, <2>1, <2>2, <2>3 DEF WorkerStep
<1>4. CASE Shutdown \/ Drained \/ ShutdownDone \/ UNCHANGED vars
  BY <1>4, PoolStutters DEF Shutdown, Drained, ShutdownDone, vars
<1> QED BY <1>1, <1>2, <1>3, <1>4 DEF Next

(* Submission, assignTasks, messages, timeouts and exits keep the promise of  *)
(* TaskService, for any number of tasks, workers and failures: tasks are      *)
(* given out in order and once, and each caller is answered once.             *)
THEOREM TaskServiceImplemented == Spec => ImplementsTaskService
<1> QED BY PoolInitImplements, PoolStepImplements, InductiveInvariant, PoolCounted, PTL
        DEF Spec, ImplementsTaskService, Service!Spec

-------------------------------------------------------------------------------
(* The connection pool. *)

(* A pooled connection counts the callers that use it. *)
UsersAreCounted == \A c \in tracked : sessions[c] = Cardinality(Users(c))

(* A connection that is dialled for a caller is nobody else's business: the   *)
(* pool does not have it, nothing reconnects or tests it.                     *)
DialsAreAlone ==
    \A k \in Callers, c \in Conns : call[k] = Connecting(c) =>
        /\ c \notin tracked /\ client[c] = "dialing" /\ sessions[c] = 1
        /\ pending[c] = "none" /\ test[c] = "none"
        /\ \A j \in Callers \ {k} : call[j] # Connecting(c) /\ call[j] # Using(c)

PooledIsOpenOrClosed == \A c \in tracked : client[c] \in {"open", "closed"}

(* A health check that may still succeed looks at a client that has not closed. *)
TestedHasLived == \A c \in Conns : test[c] = "alive" => client[c] \in {"open", "ending"}

(* The inductive invariant of the connection pool. *)
CPInv ==
    /\ CPTypeOK /\ UsersAreCounted /\ DialsAreAlone
    /\ PooledIsOpenOrClosed /\ TestedHasLived /\ HealthyIsAlive

-------------------------------------------------------------------------------
(* Callers and breaker. *)

LEMMA CallsDiffer ==
    /\ \A c : Idle # Connecting(c) /\ Idle # Using(c)
    /\ \A c, d : Connecting(c) # Using(d)
    /\ \A c, d : Connecting(c) = Connecting(d) => c = d
    /\ \A c, d : Using(c) = Using(d) => c = d
<1>1. \A c : Idle.pc = "idle" /\ Connecting(c).pc = "connecting" /\ Using(c).pc = "using"
  BY DEF Idle, Connecting, Using
<1>2. \A c : Connecting(c).on = c /\ Using(c).on = c
  BY DEF Connecting, Using
<1>3. "idle" # "connecting" /\ "idle" # "using" /\ "connecting" # "using"
  OBVIOUS
<1>4. \A c : Idle # Connecting(c) /\ Idle # Using(c)
  BY <1>1, <1>3
<1>5. \A c, d : Connecting(c) # Using(d)
  BY <1>1, <1>3
<1> QED BY <1>2, <1>4, <1>5

LEMMA CallersCounted ==
    /\ Cardinality(Callers) \in Nat
    /\ \A c : /\ IsFiniteSet(Users(c)) /\ Cardinality(Users(c)) \in 0..Cardinality(Callers)
              /\ Cardinality(Users(c)) = 0 => Users(c) = {}
<1>1. IsFiniteSet(Callers) /\ Cardinality(Callers) \in Nat
  BY PoolAssumption, FS_CardinalityType
<1> SUFFICES ASSUME NEW c
             PROVE  /\ IsFiniteSet(Users(c)) /\ Cardinality(Users(c)) \in 0..Cardinality(Callers)
                    /\ Cardinality(Users(c)) = 0 => Users(c) = {}
  BY <1>1
<1>2. Users(c) \subseteq Callers
  BY DEF Users
<1>3. IsFiniteSet(Users(c)) /\ Cardinality(Users(c)) <= Cardinality(Callers)
  BY <1>1, <1>2, FS_Subset
<1>4. Cardinality(Users(c)) \in Nat /\ (Cardinality(Users(c)) = 0 => Users(c) = {})
  BY <1>3, FS_CardinalityType, FS_EmptySet
<1> QED BY <1>1, <1>3, <1>4

LEMMA BreakerTyped ==
    ASSUME breaker \in Breakers
    PROVE  /\ CheckedBreaker \in Breakers
           /\ RecordFailure(breaker) \in Breakers /\ RecordHealthy(breaker) \in Breakers
           /\ [breaker EXCEPT !.due = TRUE] \in Breakers
<1>1. CircuitBreakerThreshold \in Nat /\ SuccessesToClose \in Nat \ {0}
  BY PoolAssumption
<1>2. /\ \A b \in Breakers : [b EXCEPT !.due = TRUE] \in Breakers
      /\ \A b \in Breakers : [b EXCEPT !.due = FALSE] \in Breakers
  BY DEF Breakers
<1>3. \A b \in Breakers : [b EXCEPT !.state = "half-open"] \in Breakers
  BY DEF Breakers
<1>4. \A b \in Breakers, n \in 0..(SuccessesToClose - 1) : [b EXCEPT !.successes = n] \in Breakers
  BY DEF Breakers
<1>5. \A b \in Breakers, n \in 0..CircuitBreakerThreshold : [b EXCEPT !.failures = n] \in Breakers
  BY DEF Breakers
<1>6. CheckedBreaker \in Breakers
  <2>1. 0 \in 0..(SuccessesToClose - 1)
    BY <1>1
  <2>2. [[[breaker EXCEPT !.state = "half-open"] EXCEPT !.successes = 0] EXCEPT !.due = FALSE] \in Breakers
    BY <2>1, <1>2, <1>3, <1>4
  <2>3. CheckedBreaker \in {breaker, [[[breaker EXCEPT !.state = "half-open"] EXCEPT !.successes = 0] EXCEPT !.due = FALSE]}
    BY DEF CheckedBreaker
  <2> QED BY <2>2, <2>3
<1>7. RecordHealthy(breaker) \in Breakers
  <2>1. CASE breaker.state = "half-open" /\ breaker.successes + 1 >= SuccessesToClose
    <3>1. RecordHealthy(breaker) =
            [state |-> "closed", failures |-> 0, successes |-> 0, due |-> FALSE]
      BY <2>1 DEF RecordHealthy
    <3>2. 0 \in 0..CircuitBreakerThreshold /\ 0 \in 0..(SuccessesToClose - 1)
      BY <1>1
    <3> QED BY <3>1, <3>2 DEF Breakers
  <2>2. CASE breaker.state = "half-open" /\ ~ breaker.successes + 1 >= SuccessesToClose
    <3>1. breaker.successes + 1 \in 0..(SuccessesToClose - 1)
      BY <1>1, <2>2 DEF Breakers
    <3>2. RecordHealthy(breaker) = [breaker EXCEPT !.successes = breaker.successes + 1]
      BY <2>2 DEF RecordHealthy
    <3> QED BY <1>4, <3>1, <3>2
  <2>3. CASE breaker.state = "closed" /\ breaker.failures > 0
    <3>1. breaker.failures - 1 \in 0..CircuitBreakerThreshold
      BY <1>1, <2>3 DEF Breakers
    <3>2. RecordHealthy(breaker) = [breaker EXCEPT !.failures = breaker.failures - 1]
      BY <2>3 DEF RecordHealthy
    <3> QED BY <1>5, <3>1, <3>2
  <2>4. CASE breaker.state # "half-open" /\ ~ (breaker.state = "closed" /\ breaker.failures > 0)
    BY <2>4 DEF RecordHealthy
  <2> QED BY <2>1, <2>2, <2>3, <2>4
<1>8. RecordFailure(breaker) \in Breakers
  <2> DEFINE n == IF breaker.failures < CircuitBreakerThreshold
                  THEN breaker.failures + 1 ELSE breaker.failures
  <2>1. n \in 0..CircuitBreakerThreshold
    BY <1>1 DEF Breakers
  <2>2. OpenBreaker(n) \in Breakers /\ [breaker EXCEPT !.failures = n] \in Breakers
    BY <1>1, <2>1 DEF Breakers, OpenBreaker
  <2>3. RecordFailure(breaker) \in {OpenBreaker(n), [breaker EXCEPT !.failures = n]}
    BY DEF RecordFailure
  <2> QED BY <2>2, <2>3
<1> QED BY <1>2, <1>6, <1>7, <1>8

-------------------------------------------------------------------------------
(* The initial states and the actions. *)

LEMMA CPInitHolds == CPInit => CPInv
<1> SUFFICES ASSUME CPInit PROVE CPInv
  OBVIOUS
<1>1. 0 \in 0..Cardinality(Callers) /\ 0 \in 0..MaxReconnectAttempts
  BY CallersCounted, PoolAssumption
<1>2. breaker \in Breakers
  <2>1. 0 \in 0..CircuitBreakerThreshold /\ 0 \in 0..(SuccessesToClose - 1)
    BY PoolAssumption
  <2> QED BY <2>1 DEF CPInit, Breakers
<1>3. CPTypeOK
  BY <1>1, <1>2 DEF CPInit, CPTypeOK
<1>4. DialsAreAlone
  BY CallsDiffer DEF CPInit, DialsAreAlone
<1>5. UsersAreCounted /\ PooledIsOpenOrClosed /\ TestedHasLived /\ HealthyIsAlive
  BY DEF CPInit, UsersAreCounted, PooledIsOpenOrClosed, TestedHasLived, HealthyIsAlive
<1> QED BY <1>3, <1>4, <1>5 DEF CPInv

(* Steps that change no caller, no session count and no connection of the     *)
(* pool but what they close keep the counts right.                            *)
LEMMA CountsStay ==
    ASSUME UsersAreCounted, UNCHANGED <<sessions, call>>, tracked' \subseteq tracked
    PROVE  UsersAreCounted'
<1>1. \A c : Users(c)' = Users(c)
  BY DEF Users
<1> QED BY <1>1 DEF UsersAreCounted

(* A caller is added to or taken from the users of one connection. *)
LEMMA UsersMove ==
    ASSUME CPTypeOK, NEW k \in Callers, NEW v, call' = [call EXCEPT ![k] = v]
    PROVE  /\ \A c : v = Using(c) => Users(c)' = Users(c) \cup {k}
           /\ \A c : v # Using(c) => Users(c)' = Users(c) \ {k}
           /\ \A c : call[k] # Using(c) => k \notin Users(c)
           /\ call'[k] = v /\ \A j \in Callers \ {k} : call'[j] = call[j]
BY DEF CPTypeOK, Users

LEMMA ReuseHolds ==
    ASSUME CPInv, NEW k \in Callers, NEW c \in Conns, Reuse(k, c)
    PROVE  CPInv'
<1> USE DEF Reuse, Asks
<1>1. call[k] # Using(c) /\ call[k] = Idle /\ c \in tracked
  BY CallsDiffer
<1>2. Users(c)' = Users(c) \cup {k} /\ k \notin Users(c)
  BY <1>1, UsersMove DEF CPInv
<1>3. \A d : d # c => Users(d)' = Users(d)
  <2> SUFFICES ASSUME NEW d, d # c PROVE Users(d)' = Users(d)
    OBVIOUS
  <2>1. Using(c) # Using(d) /\ call[k] # Using(d)
    BY CallsDiffer
  <2>2. Users(d)' = Users(d) \ {k}
    BY <2>1, UsersMove DEF CPInv
  <2>3. k \notin Users(d)
    BY <2>1, UsersMove DEF CPInv
  <2> QED BY <2>2, <2>3
<1>4. sessions'[c] = Cardinality(Users(c)')
  <2>1. Cardinality(Users(c)') = Cardinality(Users(c)) + 1
    <3>1. IsFiniteSet(Users(c))
      BY CallersCounted
    <3> QED BY <1>2, <3>1, FS_AddElement
  <2>2. sessions[c] = Cardinality(Users(c))
    BY <1>1 DEF CPInv, UsersAreCounted
  <2> QED BY <2>1, <2>2 DEF CPInv, CPTypeOK
<1>5. sessions'[c] \in 0..Cardinality(Callers)
  <2>1. Users(c)' \subseteq Callers
    BY DEF Users
  <2>2. Cardinality(Users(c)') <= Cardinality(Callers) /\ Cardinality(Users(c)') \in Nat
    BY <2>1, PoolAssumption, FS_Subset, FS_CardinalityType
  <2> QED BY <1>4, <2>2, CallersCounted
<1>6. CPTypeOK'
  BY <1>5, BreakerTyped DEF CPInv, CPTypeOK
<1>7. UsersAreCounted'
  BY <1>3, <1>4 DEF CPInv, CPTypeOK, UsersAreCounted
<1>8. DialsAreAlone'
  BY <1>1, CallsDiffer DEF CPInv, CPTypeOK, DialsAreAlone
<1>9. (PooledIsOpenOrClosed /\ TestedHasLived /\ HealthyIsAlive)'
  BY DEF CPInv, PooledIsOpenOrClosed, TestedHasLived, HealthyIsAlive
<1> QED BY <1>6, <1>7, <1>8, <1>9 DEF CPInv

LEMMA RefusedFullHolds ==
    ASSUME CPInv, NEW k \in Callers, RefusedFull(k)
    PROVE  CPInv'
<1> USE DEF RefusedFull
<1>1. CPTypeOK'
  BY BreakerTyped DEF CPInv, CPTypeOK
<1>2. UsersAreCounted'
  BY CountsStay DEF CPInv
<1>3. (DialsAreAlone /\ PooledIsOpenOrClosed /\ TestedHasLived /\ HealthyIsAlive)'
  BY DEF CPInv, DialsAreAlone, PooledIsOpenOrClosed, TestedHasLived, HealthyIsAlive
<1> QED BY <1>1, <1>2, <1>3 DEF CPInv

LEMMA CreateHolds ==
    ASSUME CPInv, NEW k \in Callers, NEW c \in Conns, Create(k, c)
    PROVE  CPInv'
<1> USE DEF Create, Asks, Fresh
<1>1. call[k] = Idle /\ c \notin tracked /\ call' = [call EXCEPT ![k] = Connecting(c)]
  OBVIOUS
<1>2. \A d \in Conns : Users(d)' = Users(d)
  <2> SUFFICES ASSUME NEW d \in Conns PROVE Users(d)' = Users(d)
    OBVIOUS
  <2>1. Connecting(c) # Using(d) /\ call[k] # Using(d)
    BY CallsDiffer
  <2> HIDE DEF Create, Asks, Fresh
  <2>2. Users(d)' = Users(d) \ {k}
    BY <1>1, <2>1, UsersMove DEF CPInv
  <2>3. k \notin Users(d)
    BY <1>1, <2>1, UsersMove DEF CPInv
  <2> QED BY <2>2, <2>3
<1>3. CPTypeOK'
  <2>1. 1 \in 0..Cardinality(Callers) /\ 0 \in 0..MaxReconnectAttempts
    BY PoolAssumption, FS_CardinalityType, FS_EmptySet
  <2> QED BY <2>1, BreakerTyped DEF CPInv, CPTypeOK
<1>4. UsersAreCounted'
  BY <1>1, <1>2 DEF CPInv, CPTypeOK, UsersAreCounted
<1>5. DialsAreAlone'
  <2> SUFFICES ASSUME NEW j \in Callers, NEW d \in Conns, call'[j] = Connecting(d)
               PROVE  /\ d \notin tracked' /\ client'[d] = "dialing" /\ sessions'[d] = 1
                      /\ pending'[d] = "none" /\ test'[d] = "none"
                      /\ \A i \in Callers \ {j} : call'[i] # Connecting(d) /\ call'[i] # Using(d)
    BY DEF DialsAreAlone
  <2>1. CASE j = k
    <3>1. d = c
      BY <2>1, CallsDiffer DEF CPInv, CPTypeOK
    <3> QED BY <2>1, <3>1 DEF CPInv, CPTypeOK
  <2>2. CASE j # k
    <3>1. call[j] = Connecting(d)
      BY <2>2 DEF CPInv, CPTypeOK
    <3>2. d # c
      BY <3>1
    <3>3. call'[k] # Connecting(d) /\ call'[k] # Using(d)
      BY <3>2, CallsDiffer DEF CPInv, CPTypeOK
    <3> QED BY <3>1, <3>2, <3>3 DEF CPInv, CPTypeOK, DialsAreAlone
  <2> QED BY <2>1, <2>2
<1>6. PooledIsOpenOrClosed'
  BY DEF CPInv, CPTypeOK, PooledIsOpenOrClosed
<1>7. TestedHasLived'
  BY DEF CPInv, CPTypeOK, TestedHasLived
<1>8. HealthyIsAlive'
  BY DEF CPInv, CPTypeOK, HealthyIsAlive
<1> QED BY <1>3, <1>4, <1>5, <1>6, <1>7, <1>8 DEF CPInv

LEMMA ConnectReadyHolds ==
    ASSUME CPInv, NEW k \in Callers, NEW c \in Conns, ConnectReady(k, c)
    PROVE  CPInv'
<1> USE DEF ConnectReady
<1>1. /\ call[k] = Connecting(c) /\ call' = [call EXCEPT ![k] = Using(c)]
      /\ c \notin tracked /\ sessions[c] = 1 /\ pending[c] = "none" /\ test[c] = "none"
      /\ \A j \in Callers \ {k} : call[j] # Connecting(c) /\ call[j] # Using(c)
  BY DEF CPInv, DialsAreAlone
<1>2. Users(c)' = {k}
  <2>1. Users(c)' = Users(c) \cup {k}
    BY <1>1, UsersMove DEF CPInv
  <2>2. Users(c) = {}
    BY <1>1, CallsDiffer DEF Users
  <2> QED BY <2>1, <2>2
<1>3. \A d : d # c => Users(d)' = Users(d)
  <2> SUFFICES ASSUME NEW d, d # c PROVE Users(d)' = Users(d)
    OBVIOUS
  <2>1. Using(c) # Using(d) /\ call[k] # Using(d)
    BY <1>1, CallsDiffer
  <2>2. Users(d)' = Users(d) \ {k}
    BY <1>1, <2>1, UsersMove DEF CPInv
  <2>3. k \notin Users(d)
    BY <1>1, <2>1, UsersMove DEF CPInv
  <2> QED BY <2>2, <2>3
<1>4. CPTypeOK'
  BY DEF CPInv, CPTypeOK
<1>5. UsersAreCounted'
  <2>1. Cardinality(Users(c)') = 1
    BY <1>2, FS_Singleton
  <2> QED BY <1>1, <1>3, <2>1 DEF CPInv, UsersAreCounted
<1>6. DialsAreAlone'
  <2> SUFFICES ASSUME NEW j \in Callers, NEW d \in Conns, call'[j] = Connecting(d)
               PROVE  /\ d \notin tracked' /\ client'[d] = "dialing" /\ sessions'[d] = 1
                      /\ pending'[d] = "none" /\ test'[d] = "none"
                      /\ \A i \in Callers \ {j} : call'[i] # Connecting(d) /\ call'[i] # Using(d)
    BY DEF DialsAreAlone
  <2>1. j # k /\ call[j] = Connecting(d)
    BY <1>1, CallsDiffer DEF CPInv, CPTypeOK
  <2>2. d # c
    BY <1>1, <2>1
  <2>3. call'[k] # Connecting(d) /\ call'[k] # Using(d)
    BY <1>1, <2>2, CallsDiffer DEF CPInv, CPTypeOK
  <2> QED BY <1>1, <2>1, <2>2, <2>3 DEF CPInv, CPTypeOK, DialsAreAlone
<1>7. PooledIsOpenOrClosed'
  BY DEF CPInv, CPTypeOK, PooledIsOpenOrClosed
<1>8. TestedHasLived'
  BY DEF CPInv, CPTypeOK, TestedHasLived
<1>9. HealthyIsAlive'
  BY DEF CPInv, CPTypeOK, HealthyIsAlive
<1> QED BY <1>4, <1>5, <1>6, <1>7, <1>8, <1>9 DEF CPInv

(* A caller that leaves a connection, or gives up a dial. *)
LEMMA LeavingKeepsDials ==
    ASSUME CPInv, NEW k \in Callers, NEW c \in Conns, call' = [call EXCEPT ![k] = Idle],
           UNCHANGED <<tracked, pending, test>>,
           \A d \in Conns \ {c} : client'[d] = client[d] /\ sessions'[d] = sessions[d],
           \A j \in Callers \ {k} : call[j] # Connecting(c)
    PROVE  DialsAreAlone'
<1> SUFFICES ASSUME NEW j \in Callers, NEW d \in Conns, call'[j] = Connecting(d)
             PROVE  /\ d \notin tracked' /\ client'[d] = "dialing" /\ sessions'[d] = 1
                    /\ pending'[d] = "none" /\ test'[d] = "none"
                    /\ \A i \in Callers \ {j} : call'[i] # Connecting(d) /\ call'[i] # Using(d)
  BY DEF DialsAreAlone
<1>1. j # k /\ call[j] = Connecting(d)
  BY CallsDiffer DEF CPInv, CPTypeOK
<1>2. d # c
  BY <1>1
<1>3. call'[k] # Connecting(d) /\ call'[k] # Using(d)
  BY CallsDiffer DEF CPInv, CPTypeOK
<1> QED BY <1>1, <1>2, <1>3 DEF CPInv, CPTypeOK, DialsAreAlone

LEMMA ConnectFailsHolds ==
    ASSUME CPInv, NEW k \in Callers, NEW c \in Conns, ConnectFails(k, c)
    PROVE  CPInv'
<1> USE DEF ConnectFails
<1>1. /\ call[k] = Connecting(c) /\ call' = [call EXCEPT ![k] = Idle]
      /\ c \notin tracked /\ test[c] = "none"
      /\ \A j \in Callers \ {k} : call[j] # Connecting(c) /\ call[j] # Using(c)
  BY DEF CPInv, DialsAreAlone
<1>2. \A d : Users(d)' = Users(d)
  <2> SUFFICES ASSUME NEW d PROVE Users(d)' = Users(d)
    OBVIOUS
  <2>1. Idle # Using(d) /\ call[k] # Using(d)
    BY <1>1, CallsDiffer
  <2>2. Users(d)' = Users(d) \ {k}
    BY <1>1, <2>1, UsersMove DEF CPInv
  <2>3. k \notin Users(d)
    BY <1>1, <2>1, UsersMove DEF CPInv
  <2> QED BY <2>2, <2>3
<1>3. CPTypeOK'
  BY BreakerTyped DEF CPInv, CPTypeOK
<1>4. UsersAreCounted'
  BY <1>2 DEF CPInv, UsersAreCounted
<1>5. DialsAreAlone'
  <2>1. \A d \in Conns \ {c} : client'[d] = client[d] /\ sessions'[d] = sessions[d]
    BY DEF CPInv, CPTypeOK
  <2>2. UNCHANGED <<tracked, pending, test>>
    OBVIOUS
  <2> HIDE DEF ConnectFails
  <2> QED BY <1>1, <2>1, <2>2, LeavingKeepsDials
<1>6. PooledIsOpenOrClosed'
  BY <1>1 DEF CPInv, CPTypeOK, PooledIsOpenOrClosed
<1>7. TestedHasLived'
  BY <1>1 DEF CPInv, CPTypeOK, TestedHasLived
<1>8. HealthyIsAlive'
  BY <1>1 DEF CPInv, CPTypeOK, HealthyIsAlive
<1> QED BY <1>3, <1>4, <1>5, <1>6, <1>7, <1>8 DEF CPInv

LEMMA ReleaseHolds ==
    ASSUME CPInv, NEW k \in Callers, NEW c \in Conns, Release(k, c)
    PROVE  CPInv'
<1> USE DEF Release
<1>1. call[k] = Using(c) /\ call' = [call EXCEPT ![k] = Idle] /\ k \in Users(c)
  BY DEF Users
<1>2. Users(c)' = Users(c) \ {k}
  <2>1. Idle # Using(c)
    BY CallsDiffer
  <2> QED BY <1>1, <2>1, UsersMove DEF CPInv
<1>3. \A d : d # c => Users(d)' = Users(d)
  <2> SUFFICES ASSUME NEW d, d # c PROVE Users(d)' = Users(d)
    OBVIOUS
  <2>1. Idle # Using(d) /\ call[k] # Using(d)
    BY <1>1, CallsDiffer
  <2>2. Users(d)' = Users(d) \ {k}
    BY <1>1, <2>1, UsersMove DEF CPInv
  <2>3. k \notin Users(d)
    BY <1>1, <2>1, UsersMove DEF CPInv
  <2> QED BY <2>2, <2>3
<1>4. c \in tracked => sessions'[c] = Cardinality(Users(c)')
  <2> SUFFICES ASSUME c \in tracked PROVE sessions'[c] = Cardinality(Users(c)')
    OBVIOUS
  <2>1. IsFiniteSet(Users(c)) /\ Cardinality(Users(c)) \in Nat
    BY CallersCounted
  <2>2. Cardinality(Users(c)') = Cardinality(Users(c)) - 1
    BY <1>1, <1>2, <2>1, FS_RemoveElement
  <2>3. sessions[c] = Cardinality(Users(c)) /\ Cardinality(Users(c)) # 0
    BY <1>1, <2>1, CallersCounted DEF CPInv, UsersAreCounted
  <2> QED BY <2>1, <2>2, <2>3 DEF CPInv, CPTypeOK
<1>5. CPTypeOK'
  <2>1. sessions' \in [Conns -> 0..Cardinality(Callers)]
    BY CallersCounted DEF CPInv, CPTypeOK
  <2>2. call' \in [Callers -> {Idle} \cup {Connecting(d) : d \in Conns} \cup {Using(d) : d \in Conns}]
    BY DEF CPInv, CPTypeOK
  <2> QED BY <2>1, <2>2 DEF CPInv, CPTypeOK
<1>6. \A d \in Conns \ {c} : client'[d] = client[d] /\ sessions'[d] = sessions[d]
  BY DEF CPInv, CPTypeOK
<1>7. UsersAreCounted'
  BY <1>3, <1>4, <1>6 DEF CPInv, CPTypeOK, UsersAreCounted
<1>8. DialsAreAlone'
  <2>1. \A j \in Callers \ {k} : call[j] # Connecting(c)
    BY <1>1, CallsDiffer DEF CPInv, DialsAreAlone
  <2>2. UNCHANGED <<tracked, pending, test>>
    OBVIOUS
  <2> HIDE DEF Release
  <2> QED BY <1>1, <1>6, <2>1, <2>2, LeavingKeepsDials
<1>9. (PooledIsOpenOrClosed /\ TestedHasLived /\ HealthyIsAlive)'
  BY DEF CPInv, PooledIsOpenOrClosed, TestedHasLived, HealthyIsAlive
<1> QED BY <1>5, <1>7, <1>8, <1>9 DEF CPInv

LEMMA ClientErrorHolds ==
    ASSUME CPInv, NEW c \in Conns, ClientError(c)
    PROVE  CPInv'
<1> USE DEF ClientError
<1>1. CPTypeOK'
  BY DEF CPInv, CPTypeOK
<1>2. UsersAreCounted'
  BY CountsStay DEF CPInv
<1>3. (DialsAreAlone /\ PooledIsOpenOrClosed /\ TestedHasLived /\ HealthyIsAlive)'
  BY DEF CPInv, DialsAreAlone, PooledIsOpenOrClosed, TestedHasLived, HealthyIsAlive
<1> QED BY <1>1, <1>2, <1>3 DEF CPInv

LEMMA ClientCloseHolds ==
    ASSUME CPInv, NEW c \in Conns, ClientClose(c)
    PROVE  CPInv'
<1> USE DEF ClientClose, Loses
<1>1. CPTypeOK'
  <2>1. attempts' \in [Conns -> 0..MaxReconnectAttempts]
    BY PoolAssumption DEF CPInv, CPTypeOK
  <2>2. pending' \in [Conns -> {"none", "delay", "dialing"}]
    BY DEF CPInv, CPTypeOK
  <2>3. test' \in [Conns -> {"none", "alive", "lost"}]
    BY DEF CPInv, CPTypeOK
  <2> QED BY <2>1, <2>2, <2>3 DEF CPInv, CPTypeOK
<1>2. UsersAreCounted'
  BY CountsStay DEF CPInv
<1>3. DialsAreAlone'
  <2>1. \A k \in Callers : call[k] # Connecting(c)
    BY DEF CPInv, DialsAreAlone
  <2>2. \A d \in Conns \ {c} : client'[d] = client[d] /\ pending'[d] = pending[d] /\ test'[d] = test[d]
    BY DEF CPInv, CPTypeOK
  <2>3. UNCHANGED <<sessions, call, tracked>>
    OBVIOUS
  <2> HIDE DEF ClientClose, Loses
  <2>4. \A k \in Callers, d \in Conns : call'[k] = Connecting(d) => d # c
    BY <2>1, <2>3
  <2> QED BY <2>2, <2>3, <2>4 DEF CPInv, DialsAreAlone
<1>4. PooledIsOpenOrClosed'
  BY DEF CPInv, CPTypeOK, PooledIsOpenOrClosed
<1>5. TestedHasLived'
  BY DEF CPInv, CPTypeOK, TestedHasLived
<1>6. HealthyIsAlive'
  BY DEF CPInv, CPTypeOK, HealthyIsAlive
<1> QED BY <1>1, <1>2, <1>3, <1>4, <1>5, <1>6 DEF CPInv

LEMMA ReconnectTimerHolds ==
    ASSUME CPInv, NEW c \in Conns, ReconnectTimer(c)
    PROVE  CPInv'
<1> USE DEF ReconnectTimer
<1>1. CPTypeOK'
  BY DEF CPInv, CPTypeOK
<1>2. UsersAreCounted'
  BY CountsStay DEF CPInv
<1>3. DialsAreAlone'
  BY DEF CPInv, CPTypeOK, DialsAreAlone
<1>4. (PooledIsOpenOrClosed /\ TestedHasLived /\ HealthyIsAlive)'
  BY DEF CPInv, PooledIsOpenOrClosed, TestedHasLived, HealthyIsAlive
<1> QED BY <1>1, <1>2, <1>3, <1>4 DEF CPInv

LEMMA ReconnectReadyHolds ==
    ASSUME CPInv, NEW c \in Conns, ReconnectReady(c)
    PROVE  CPInv'
<1> USE DEF ReconnectReady
<1>1. CPTypeOK'
  BY PoolAssumption DEF CPInv, CPTypeOK
<1>2. UsersAreCounted'
  BY CountsStay DEF CPInv
<1>3. DialsAreAlone'
  BY DEF CPInv, CPTypeOK, DialsAreAlone
<1>4. PooledIsOpenOrClosed'
  BY DEF CPInv, CPTypeOK, PooledIsOpenOrClosed
<1>5. TestedHasLived'
  BY DEF CPInv, CPTypeOK, TestedHasLived
<1>6. HealthyIsAlive'
  BY DEF CPInv, CPTypeOK, HealthyIsAlive
<1> QED BY <1>1, <1>2, <1>3, <1>4, <1>5, <1>6 DEF CPInv

(* closeConnection: what it takes out of the pool it also ends. *)
LEMMA ClosingHolds ==
    ASSUME CPInv, NEW S \in SUBSET Conns, CloseConnections(S),
           UNCHANGED <<sessions, healthy, test, call>>
    PROVE  /\ tracked' \subseteq tracked
           /\ client' \in [Conns -> {"none", "dialing", "open", "ending", "closed"}]
           /\ UsersAreCounted'
           /\ \A c \in Conns : client[c] = "dialing" => client'[c] = "dialing"
           /\ (PooledIsOpenOrClosed /\ TestedHasLived /\ HealthyIsAlive)'
<1> USE DEF CloseConnections
<1>1. tracked' \subseteq tracked
  OBVIOUS
<1>2. UsersAreCounted'
  BY <1>1, CountsStay DEF CPInv
<1>3. client' \in [Conns -> {"none", "dialing", "open", "ending", "closed"}]
  BY DEF CPInv, CPTypeOK
<1>4. \A c \in Conns : client[c] = "dialing" => client'[c] = "dialing"
  OBVIOUS
<1>5. PooledIsOpenOrClosed'
  BY DEF CPInv, CPTypeOK, PooledIsOpenOrClosed
<1>6. TestedHasLived'
  BY DEF CPInv, CPTypeOK, TestedHasLived
<1>7. HealthyIsAlive'
  BY DEF CPInv, CPTypeOK, HealthyIsAlive
<1> QED BY <1>1, <1>2, <1>3, <1>4, <1>5, <1>6, <1>7

LEMMA ReconnectFailsHolds ==
    ASSUME CPInv, NEW c \in Conns, ReconnectFails(c)
    PROVE  CPInv'
<1>1. \A k \in Callers : call[k] # Connecting(c)
  BY DEF ReconnectFails, CPInv, DialsAreAlone
<1>2. CASE attempts[c] < MaxReconnectAttempts
  <2> USE <1>2 DEF ReconnectFails
  <2>1. CPTypeOK'
    BY PoolAssumption DEF CPInv, CPTypeOK
  <2>2. UsersAreCounted'
    BY CountsStay DEF CPInv
  <2>3. DialsAreAlone'
    BY <1>1 DEF CPInv, CPTypeOK, DialsAreAlone
  <2>4. (PooledIsOpenOrClosed /\ TestedHasLived /\ HealthyIsAlive)'
    BY DEF CPInv, PooledIsOpenOrClosed, TestedHasLived, HealthyIsAlive
  <2> QED BY <2>1, <2>2, <2>3, <2>4 DEF CPInv
<1>3. CASE ~ attempts[c] < MaxReconnectAttempts
  <2>1. /\ CloseConnections({c} \cap tracked) /\ pending' = [pending EXCEPT ![c] = "none"]
        /\ UNCHANGED <<attempts, sessions, healthy, test, breaker, call, down>>
    BY <1>3 DEF ReconnectFails
  <2>2. {c} \cap tracked \in SUBSET Conns
    OBVIOUS
  <2>3. /\ tracked' \subseteq tracked
        /\ client' \in [Conns -> {"none", "dialing", "open", "ending", "closed"}]
        /\ UsersAreCounted'
        /\ \A d \in Conns : client[d] = "dialing" => client'[d] = "dialing"
        /\ (PooledIsOpenOrClosed /\ TestedHasLived /\ HealthyIsAlive)'
    BY <2>1, <2>2, ClosingHolds
  <2>4. CPTypeOK'
    BY <2>1, <2>3 DEF CPInv, CPTypeOK
  <2>5. DialsAreAlone'
    BY <1>1, <2>1, <2>3 DEF CPInv, CPTypeOK, DialsAreAlone
  <2> QED BY <2>3, <2>4, <2>5 DEF CPInv
<1> QED BY <1>2, <1>3

(* cleanupIdleConnections and shutdown. *)
LEMMA DroppingHolds ==
    ASSUME CPInv, NEW S \in SUBSET tracked, CloseConnections(S), down' \in BOOLEAN,
           UNCHANGED <<sessions, healthy, attempts, pending, test, breaker, call>>
    PROVE  CPInv'
<1>1. S \in SUBSET Conns
  BY DEF CPInv, CPTypeOK
<1>2. /\ tracked' \subseteq tracked
      /\ client' \in [Conns -> {"none", "dialing", "open", "ending", "closed"}]
      /\ UsersAreCounted'
      /\ \A d \in Conns : client[d] = "dialing" => client'[d] = "dialing"
      /\ (PooledIsOpenOrClosed /\ TestedHasLived /\ HealthyIsAlive)'
  BY <1>1, ClosingHolds
<1>3. CPTypeOK'
  BY <1>2 DEF CPInv, CPTypeOK
<1>4. DialsAreAlone'
  BY <1>2 DEF CPInv, DialsAreAlone
<1> QED BY <1>2, <1>3, <1>4 DEF CPInv

LEMMA HealthChecksStartHolds ==
    ASSUME CPInv, HealthChecksStart
    PROVE  CPInv'
<1> USE DEF HealthChecksStart
<1>1. CPTypeOK'
  BY DEF CPInv, CPTypeOK
<1>2. UsersAreCounted'
  BY CountsStay DEF CPInv
<1>3. DialsAreAlone'
  BY DEF CPInv, DialsAreAlone
<1>4. (PooledIsOpenOrClosed /\ TestedHasLived /\ HealthyIsAlive)'
  BY DEF CPInv, PooledIsOpenOrClosed, TestedHasLived, HealthyIsAlive
<1> QED BY <1>1, <1>2, <1>3, <1>4 DEF CPInv

LEMMA HealthCheckEndsHolds ==
    ASSUME CPInv, NEW c \in Conns, NEW status \in Statuses, HealthCheckEnds(c, status)
    PROVE  CPInv'
<1> USE DEF HealthCheckEnds
<1>1. CPTypeOK'
  BY BreakerTyped DEF CPInv, CPTypeOK
<1>2. UsersAreCounted'
  BY CountsStay DEF CPInv
<1>3. DialsAreAlone'
  BY DEF CPInv, CPTypeOK, DialsAreAlone
<1>4. (PooledIsOpenOrClosed /\ TestedHasLived)'
  BY DEF CPInv, CPTypeOK, PooledIsOpenOrClosed, TestedHasLived
<1>5. HealthyIsAlive'
  <2>1. CASE status # "unhealthy"
    <3>1. test[c] = "alive"
      BY <2>1 DEF Outcomes
    <3>2. c \in tracked => client[c] = "open"
      BY <3>1 DEF CPInv, PooledIsOpenOrClosed, TestedHasLived
    <3> QED BY <2>1, <3>2 DEF CPInv, HealthyIsAlive
  <2>2. CASE status = "unhealthy"
    BY <2>2 DEF CPInv, HealthyIsAlive
  <2> QED BY <2>1, <2>2
<1> QED BY <1>1, <1>2, <1>3, <1>4, <1>5 DEF CPInv

LEMMA WindowEndsHolds ==
    ASSUME CPInv, WindowEnds
    PROVE  CPInv'
<1> USE DEF WindowEnds
<1>1. CPTypeOK'
  BY BreakerTyped DEF CPInv, CPTypeOK
<1>2. UsersAreCounted'
  BY CountsStay DEF CPInv
<1>3. (DialsAreAlone /\ PooledIsOpenOrClosed /\ TestedHasLived /\ HealthyIsAlive)'
  BY DEF CPInv, DialsAreAlone, PooledIsOpenOrClosed, TestedHasLived, HealthyIsAlive
<1> QED BY <1>1, <1>2, <1>3 DEF CPInv

LEMMA CPNextHolds == CPInv /\ [CPNext]_cpVars => CPInv'
<1> SUFFICES ASSUME CPInv, [CPNext]_cpVars PROVE CPInv'
  OBVIOUS
<1>1. CASE UNCHANGED cpVars
  <2>1. UsersAreCounted'
    BY <1>1, CountsStay DEF CPInv, cpVars
  <2>2. CPTypeOK'
    BY <1>1 DEF CPInv, CPTypeOK, cpVars
  <2>3. (DialsAreAlone /\ PooledIsOpenOrClosed /\ TestedHasLived /\ HealthyIsAlive)'
    BY <1>1 DEF CPInv, cpVars, DialsAreAlone, PooledIsOpenOrClosed, TestedHasLived, HealthyIsAlive
  <2> QED BY <2>1, <2>2, <2>3 DEF CPInv
<1>2. ASSUME NEW k \in Callers, Caller(k) PROVE CPInv'
  BY <1>2, RefusedFullHolds, ReuseHolds, CreateHolds, ConnectReadyHolds, ConnectFailsHolds,
     ReleaseHolds DEF Caller
<1>3. ASSUME NEW c \in Conns, Connection(c) PROVE CPInv'
  BY <1>3, ClientErrorHolds, ClientCloseHolds, ReconnectTimerHolds, ReconnectReadyHolds,
     ReconnectFailsHolds, HealthCheckEndsHolds DEF Connection
<1>4. ASSUME NEW S \in SUBSET tracked, CleanupIdleConnections(S) PROVE CPInv'
  <2>1. /\ CloseConnections(S) /\ down' \in BOOLEAN
        /\ UNCHANGED <<sessions, healthy, attempts, pending, test, breaker, call>>
    BY <1>4 DEF CleanupIdleConnections, CPInv, CPTypeOK
  <2> QED BY <2>1, DroppingHolds
<1>5. CASE CPShutdown
  <2>1. /\ CloseConnections(tracked) /\ down' \in BOOLEAN
        /\ UNCHANGED <<sessions, healthy, attempts, pending, test, breaker, call>>
    BY <1>5 DEF CPShutdown
  <2> QED BY <2>1, DroppingHolds
<1> QED BY <1>1, <1>2, <1>3, <1>4, <1>5, HealthChecksStartHolds, WindowEndsHolds DEF CPNext

(* A step takes out of the pool what nobody uses, what is given up, or all. *)
LEMMA UsedStays ==
    ASSUME CPInv, [CPNext]_cpVars, NEW c \in tracked \ tracked'
    PROVE  Users(c) = {} \/ down' \/ attempts[c] = MaxReconnectAttempts
<1>1. CASE UNCHANGED cpVars
  BY <1>1 DEF cpVars
<1>2. ASSUME NEW k \in Callers, Caller(k) PROVE FALSE
  BY <1>2 DEF Caller, RefusedFull, Reuse, Create, ConnectReady, ConnectFails, Release
<1>3. ASSUME NEW d \in Conns, Connection(d)
      PROVE attempts[c] = MaxReconnectAttempts
  <2>1. CASE ReconnectFails(d)
    <3>1. c = d /\ ~ attempts[d] < MaxReconnectAttempts
      BY <2>1 DEF ReconnectFails, CloseConnections
    <3>2. attempts[d] \in 0..MaxReconnectAttempts /\ MaxReconnectAttempts \in Nat
      BY PoolAssumption DEF CPInv, CPTypeOK
    <3> QED BY <3>1, <3>2
  <2>2. CASE ~ReconnectFails(d)
    BY <1>3, <2>2 DEF Connection, ClientError, ClientClose, Loses, ReconnectTimer,
       ReconnectReady, HealthCheckEnds
  <2> QED BY <2>1, <2>2
<1>4. ASSUME NEW S \in SUBSET tracked, CleanupIdleConnections(S) PROVE Users(c) = {}
  <2>1. c \in S /\ sessions[c] = 0
    BY <1>4 DEF CleanupIdleConnections, CloseConnections
  <2> QED BY <2>1, CallersCounted DEF CPInv, UsersAreCounted
<1>5. CASE HealthChecksStart \/ WindowEnds \/ CPShutdown
  BY <1>5 DEF HealthChecksStart, WindowEnds, CPShutdown
<1> QED BY <1>1, <1>2, <1>3, <1>4, <1>5 DEF CPNext

-------------------------------------------------------------------------------
(* Every reachable state of the pool satisfies the inductive invariant.       *)
THEOREM CPInductiveInvariant == CPSpec => []CPInv
BY CPInitHolds, CPNextHolds, PTL DEF CPSpec

(* Every variable keeps its type: no reconnection is counted beyond the last  *)
(* one, and no connection counts more sessions than there are callers.        *)
THEOREM CPTypeCorrect == CPSpec => []CPTypeOK
<1>1. CPInv => CPTypeOK
  BY DEF CPInv
<1> QED BY <1>1, CPInductiveInvariant, PTL

(* getConnection hands out no connection whose client has closed, however     *)
(* late the result of a health check is written (performHealthChecks).        *)
THEOREM HandedOutIsAlive == CPSpec => []HealthyIsAlive
<1>1. CPInv => HealthyIsAlive
  BY DEF CPInv
<1> QED BY <1>1, CPInductiveInvariant, PTL

(* A connection in use leaves the pool only with its reconnections used up or *)
(* by shutdown: cleanupIdleConnections may trust activeSessionCount.          *)
THEOREM UsedStaysPooled == CPSpec => UsedIsKept
<1>1. CPInv /\ [CPNext]_cpVars
        => [\A c \in tracked \ tracked' :
              Users(c) = {} \/ down' \/ attempts[c] = MaxReconnectAttempts]_cpVars
  BY UsedStays
<1> QED BY <1>1, CPInductiveInvariant, PTL DEF CPSpec, UsedIsKept

=============================================================================
