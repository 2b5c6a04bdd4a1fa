----------------------- MODULE BackgroundJobs_proofs -----------------------
(***************************************************************************)
(* Proofs about BackgroundJobs for any finite set of jobs, any priorities  *)
(* and any number of slots.                                                *)
(***************************************************************************)
EXTENDS BackgroundJobs, FiniteSetTheorems, TLAPS

-----------------------------------------------------------------------------
(* The sort of jobQueue. *)

(* How many numbers there are from 1 to n. *)
LEMMA IntervalCardinality ==
  ASSUME NEW n \in Nat
  PROVE  IsFiniteSet(1..n) /\ Cardinality(1..n) = n
BY FS_Interval

BeforeSet(q, k) == {i \in DOMAIN q : Before(q, i, k)}

(* Each position of a queue has a rank, and no two have the same.          *)
LEMMA RankInjective ==
  ASSUME NEW q \in Seq(Jobs), priority \in [Jobs -> Priorities]
  PROVE  /\ \A k \in 1..Len(q) : Rank(q, k) \in 1..Len(q)
         /\ \A i, k \in 1..Len(q) : Rank(q, i) = Rank(q, k) => i = k
<1>1. DOMAIN q = 1..Len(q) /\ Len(q) \in Nat
  OBVIOUS
<1>p. \A k \in 1..Len(q) : priority[q[k]] \in Int
  <2>1. \A k \in 1..Len(q) : priority[q[k]] \in Priorities
    OBVIOUS
  <2> QED BY <2>1, PrioritiesAssumption
<1>2. IsFiniteSet(1..Len(q)) /\ Cardinality(1..Len(q)) = Len(q)
  BY <1>1, IntervalCardinality
<1>3. ASSUME NEW k \in 1..Len(q)
      PROVE  /\ IsFiniteSet(BeforeSet(q, k))
             /\ Cardinality(BeforeSet(q, k)) \in Nat
             /\ Cardinality(BeforeSet(q, k)) < Len(q)
  <2>a. ~Before(q, k, k)
    BY <1>p DEF Before
  <2>1. BeforeSet(q, k) \in SUBSET ((1..Len(q)) \ {k})
    BY <1>1, <2>a DEF BeforeSet
  <2>2. /\ IsFiniteSet((1..Len(q)) \ {k})
        /\ Cardinality((1..Len(q)) \ {k}) = Len(q) - 1
    BY <1>2, <1>3, FS_RemoveElement
  <2>3. /\ IsFiniteSet(BeforeSet(q, k))
        /\ Cardinality(BeforeSet(q, k)) <= Len(q) - 1
    BY <2>1, <2>2, FS_Subset
  <2> QED BY <1>1, <2>3, FS_CardinalityType
<1>r. \A k : Rank(q, k) = 1 + Cardinality(BeforeSet(q, k))
  BY DEF Rank, BeforeSet
<1>4. ASSUME NEW i \in 1..Len(q), NEW k \in 1..Len(q), Before(q, i, k)
      PROVE  Rank(q, i) # Rank(q, k)
  <2>a. \A h \in 1..Len(q) : Before(q, h, i) => Before(q, h, k)
    BY <1>p, <1>4 DEF Before
  <2>b. ~Before(q, i, i)
    BY <1>p DEF Before
  <2>1. BeforeSet(q, i) \in SUBSET BeforeSet(q, k)
    BY <1>1, <2>a DEF BeforeSet
  <2>2. i \in BeforeSet(q, k) /\ i \notin BeforeSet(q, i)
    BY <1>1, <1>4, <2>b DEF BeforeSet
  <2>3. Cardinality(BeforeSet(q, i)) # Cardinality(BeforeSet(q, k))
    BY <1>3, <2>1, <2>2, FS_Subset
  <2> QED BY <1>3, <1>r, <2>3
<1>5. ASSUME NEW i \in 1..Len(q), NEW k \in 1..Len(q), i # k
      PROVE  Before(q, i, k) \/ Before(q, k, i)
  BY <1>1, <1>p, <1>5 DEF Before
<1>6. \A k \in 1..Len(q) : Rank(q, k) \in 1..Len(q)
  BY <1>1, <1>3, <1>r
<1> QED BY <1>4, <1>5, <1>6

(* Every rank is the rank of some position.                                *)
LEMMA RankSurjective ==
  ASSUME NEW q \in Seq(Jobs), priority \in [Jobs -> Priorities]
  PROVE  \A r \in 1..Len(q) : \E k \in 1..Len(q) : Rank(q, k) = r
<1> DEFINE S == 1..Len(q)
           f == [k \in S |-> Rank(q, k)]
<1>1. IsFiniteSet(S)
  BY FS_Interval
<1>2. f \in Injection(S, S)
  BY RankInjective DEF Injection, IsInjective
<1>3. f \in Surjection(S, S)
  BY <1>1, <1>2, FS_Injection
<1> QED BY <1>3 DEF Surjection

(* What SortByPriority does to a queue: it permutes it, and it puts no job *)
(* behind one that a stable sort by descending priority puts after it.     *)
LEMMA SortPermutes ==
  ASSUME NEW q \in Seq(Jobs), priority \in [Jobs -> Priorities]
  PROVE  /\ SortByPriority(q) \in Seq(Jobs)
         /\ Len(SortByPriority(q)) = Len(q)
         /\ \A r \in 1..Len(q) : \E k \in 1..Len(q) :
               SortByPriority(q)[r] = q[k] /\ Rank(q, k) = r
         /\ \A k \in 1..Len(q) : SortByPriority(q)[Rank(q, k)] = q[k]
<1> DEFINE s == SortByPriority(q)
           Pos(r) == CHOOSE k \in DOMAIN q : Rank(q, k) = r
<1>1. DOMAIN q = 1..Len(q) /\ Len(q) \in Nat
  OBVIOUS
<1>2. ASSUME NEW r \in 1..Len(q)
      PROVE  Pos(r) \in 1..Len(q) /\ Rank(q, Pos(r)) = r
  BY <1>1, RankSurjective
<1>3. /\ s = [r \in 1..Len(q) |-> q[Pos(r)]]
  BY <1>1 DEF SortByPriority
<1>4. s \in [1..Len(q) -> Jobs]
  BY <1>2, <1>3
<1>5. s \in Seq(Jobs) /\ Len(s) = Len(q)
  BY <1>1, <1>4
<1>6. ASSUME NEW k \in 1..Len(q)
      PROVE  s[Rank(q, k)] = q[k]
  <2>1. Rank(q, k) \in 1..Len(q)
    BY RankInjective
  <2>2. Pos(Rank(q, k)) = k
    BY <1>2, <2>1, RankInjective
  <2> QED BY <1>3, <2>1, <2>2
<1> QED BY <1>2, <1>3, <1>5, <1>6

-----------------------------------------------------------------------------
(* The inductive invariant: the safety invariants of BackgroundJobs, and   *)
(* two facts that tie a job's life together.                               *)

NoRepeats(q) == \A i, k \in DOMAIN q : q[i] = q[k] => i = k

(* Only started jobs are awaited.                                          *)
AwaitedWereStarted == \A j \in awaiting : proc[j] # "none"

(* A job nobody submitted yet has left no trace.                           *)
UnsubmittedLeavesNoTrace ==
  \A j \in Jobs : status[j] = "none" =>
                    /\ proc[j] = "none"
                    /\ \A i \in DOMAIN jobQueue : jobQueue[i] # j

IInv ==
  /\ TypeOK
  /\ SlotBound
  /\ SlotsAreReleasable
  /\ NoLostWakeup
  /\ MetricsConserved
  /\ QueueHoldsFreshJobs
  /\ AwaitedWereStarted
  /\ UnsubmittedLeavesNoTrace

(* Subsets of Jobs are finite.                                             *)
LEMMA FiniteJobs ==
  ASSUME NEW S \in SUBSET Jobs
  PROVE  IsFiniteSet(S) /\ Cardinality(S) \in Nat
BY JobsAssumption, FS_Subset, FS_CardinalityType

(* What removing the head of the sorted queue does: the queue loses one    *)
(* job, the one that is returned, and nothing else.                        *)
LEMMA ShiftRemovesOne ==
  ASSUME NEW q \in Seq(Jobs), q # <<>>, NoRepeats(q),
         priority \in [Jobs -> Priorities]
  PROVE  LET sorted == SortByPriority(q)
             job == Head(sorted)
         IN  /\ job \in Jobs
             /\ \E k \in DOMAIN q : q[k] = job
             /\ Tail(sorted) \in Seq(Jobs)
             /\ Len(Tail(sorted)) = Len(q) - 1
             /\ NoRepeats(Tail(sorted))
             /\ \A i \in DOMAIN Tail(sorted) :
                  /\ Tail(sorted)[i] # job
                  /\ \E k \in DOMAIN q : Tail(sorted)[i] = q[k]
<1> DEFINE s == SortByPriority(q)
           t == Tail(s)
           n == Len(q)
<1>1. /\ s \in Seq(Jobs)
      /\ Len(s) = n
      /\ \A r \in 1..n : \E k \in 1..n : s[r] = q[k] /\ Rank(q, k) = r
  BY SortPermutes
<1>2. n \in Nat \ {0} /\ DOMAIN q = 1..n
  OBVIOUS
<1>3. ASSUME NEW a \in 1..n, NEW b \in 1..n, s[a] = s[b]
      PROVE  a = b
  <2>1. PICK k \in 1..n : s[a] = q[k] /\ Rank(q, k) = a
    BY <1>1
  <2>2. PICK l \in 1..n : s[b] = q[l] /\ Rank(q, l) = b
    BY <1>1
  <2>3. k = l
    BY <1>2, <1>3, <2>1, <2>2 DEF NoRepeats
  <2> QED BY <2>1, <2>2, <2>3
<1> HIDE DEF s, n
<1>4. /\ s # <<>>
      /\ Head(s) = s[1]
      /\ t \in Seq(Jobs)
      /\ Len(t) = n - 1
      /\ DOMAIN t = 1..(n - 1)
      /\ \A i \in 1..(n - 1) : t[i] = s[i + 1]
  BY <1>1, <1>2
<1>5. Head(s) \in Jobs /\ \E k \in DOMAIN q : q[k] = Head(s)
  <2>1. PICK k \in 1..n : s[1] = q[k]
    BY <1>1, <1>2
  <2> QED BY <1>2, <1>4, <2>1
<1>6. NoRepeats(t)
  <2> SUFFICES ASSUME NEW i \in 1..(n - 1), NEW k \in 1..(n - 1), t[i] = t[k]
               PROVE  i = k
    BY <1>4 DEF NoRepeats
  <2> QED BY <1>2, <1>3, <1>4
<1>7. ASSUME NEW i \in 1..(n - 1)
      PROVE  t[i] # Head(s) /\ \E k \in DOMAIN q : t[i] = q[k]
  <2>1. i + 1 \in 1..n /\ 1 \in 1..n /\ i + 1 # 1
    BY <1>2
  <2>2. t[i] = s[i + 1]
    BY <1>4
  <2>3. s[i + 1] # s[1]
    BY <1>3, <2>1
  <2>4. \E k \in 1..n : s[i + 1] = q[k]
    BY <1>1, <2>1
  <2> QED BY <1>2, <1>4, <2>2, <2>3, <2>4
<1> QED BY <1>4, <1>5, <1>6, <1>7 DEF s, n

(* The synchronous part of processJobQueue, run on a queue q of jobs that  *)
(* were never started: it keeps every part of IInv that speaks about slots *)
(* and queued jobs, starts at most one job, and leaves jobs waiting only   *)
(* if it started one or found no free slot.                                *)
LEMMA ProcessJobQueueStep ==
  ASSUME TypeOK, SlotBound, AwaitedWereStarted,
         NEW q \in Seq(Jobs), NoRepeats(q),
         NEW s \in [Jobs -> Statuses],
         \A i \in DOMAIN q : /\ proc[q[i]] = "none"
                             /\ s[q[i]] \in {"pending", "cancelled"},
         \A j \in activeJobs : j \in awaiting /\ s[j] = "running",
         ProcessJobQueue(q, s)
  PROVE  /\ jobQueue' \in Seq(Jobs)
         /\ activeJobs' \in SUBSET Jobs
         /\ status' \in [Jobs -> Statuses]
         /\ proc' \in [Jobs -> ProcStates]
         /\ awaiting' \in SUBSET Jobs
         /\ SlotBound'
         /\ SlotsAreReleasable'
         /\ QueueHoldsFreshJobs'
         /\ AwaitedWereStarted'
         /\ \A j \in Jobs : status'[j] = "none" =>
              s[j] = "none" /\ proc'[j] = proc[j]
         /\ \A i \in DOMAIN jobQueue' : \E k \in DOMAIN q : jobQueue'[i] = q[k]
         /\ \/ \E job \in Jobs :
                 /\ proc[job] = "none"
                 /\ proc' = [proc EXCEPT ![job] = "live"]
                 /\ awaiting' = awaiting \cup {job}
                 /\ Len(jobQueue') = Len(q) - 1
            \/ /\ proc' = proc
               /\ awaiting' = awaiting
               /\ jobQueue' = q
               /\ q # <<>> => Cardinality(activeJobs) = MaxConcurrentJobs
<1>t. /\ priority \in [Jobs -> Priorities]
      /\ activeJobs \in SUBSET Jobs
      /\ awaiting \in SUBSET Jobs
      /\ proc \in [Jobs -> ProcStates]
      /\ MaxConcurrentJobs \in Nat
      /\ Cardinality(activeJobs) \in Nat
  BY MaxAssumption, FiniteJobs DEF TypeOK
<1>1. CASE SlotFree /\ q # <<>>
  <2> DEFINE sorted == SortByPriority(q)
             job == Head(sorted)
  <2>1. /\ job \in Jobs
        /\ \E k \in DOMAIN q : q[k] = job
        /\ Tail(sorted) \in Seq(Jobs)
        /\ Len(Tail(sorted)) = Len(q) - 1
        /\ NoRepeats(Tail(sorted))
        /\ \A i \in DOMAIN Tail(sorted) :
             /\ Tail(sorted)[i] # job
             /\ \E k \in DOMAIN q : Tail(sorted)[i] = q[k]
    BY <1>1, <1>t, ShiftRemovesOne
  <2>2. /\ jobQueue' = Tail(sorted)
        /\ activeJobs' = activeJobs \cup {job}
        /\ status' = [s EXCEPT ![job] = "running"]
        /\ proc' = [proc EXCEPT ![job] = "live"]
        /\ awaiting' = awaiting \cup {job}
    BY <1>1 DEF ProcessJobQueue
  <2> HIDE DEF sorted, job
  <2>3. proc[job] = "none"
    BY <2>1
  <2>4. SlotBound'
    <3>a. IsFiniteSet(activeJobs)
      BY <1>t, FiniteJobs
    <3>b. Cardinality(activeJobs \cup {job}) =
            IF job \in activeJobs THEN Cardinality(activeJobs)
                                  ELSE Cardinality(activeJobs) + 1
      BY <3>a, FS_AddElement
    <3>1. Cardinality(activeJobs \cup {job}) <= Cardinality(activeJobs) + 1
      BY <1>t, <3>b
    <3>2. Cardinality(activeJobs \cup {job}) \in Nat
      BY <1>t, <2>1, FiniteJobs
    <3> QED BY <1>1, <1>t, <2>2, <3>1, <3>2 DEF SlotFree, SlotBound
  <2>5. SlotsAreReleasable'
    BY <1>t, <2>1, <2>2 DEF SlotsAreReleasable
  <2>6. QueueHoldsFreshJobs'
    <3>1. \A i \in DOMAIN Tail(sorted) :
            /\ Tail(sorted)[i] \in Jobs
            /\ Tail(sorted)[i] # job
            /\ proc[Tail(sorted)[i]] = "none"
            /\ s[Tail(sorted)[i]] \in {"pending", "cancelled"}
      BY <2>1
    <3>2. \A i \in DOMAIN Tail(sorted) :
            /\ proc'[Tail(sorted)[i]] = "none"
            /\ status'[Tail(sorted)[i]] \in {"pending", "cancelled"}
      BY <1>t, <2>2, <3>1
    <3> QED BY <2>1, <2>2, <3>2 DEF QueueHoldsFreshJobs, QueuedJobs, NoRepeats
  <2>7. AwaitedWereStarted'
    BY <1>t, <2>1, <2>2 DEF AwaitedWereStarted
  <2>8. /\ jobQueue' \in Seq(Jobs)
        /\ activeJobs' \in SUBSET Jobs
        /\ awaiting' \in SUBSET Jobs
    BY <1>t, <2>1, <2>2
  <2>9. status' \in [Jobs -> Statuses]
    BY <2>1, <2>2 DEF Statuses
  <2>10. proc' \in [Jobs -> ProcStates]
    BY <1>t, <2>1, <2>2 DEF ProcStates
  <2>11. \A j \in Jobs : status'[j] = "none" =>
           s[j] = "none" /\ proc'[j] = proc[j]
    BY <1>t, <2>1, <2>2
  <2>12. \A i \in DOMAIN jobQueue' : \E k \in DOMAIN q : jobQueue'[i] = q[k]
    BY <2>1, <2>2
  <2> QED BY <2>1, <2>2, <2>3, <2>4, <2>5, <2>6, <2>7, <2>8, <2>9, <2>10,
             <2>11, <2>12
<1>2. CASE ~(SlotFree /\ q # <<>>)
  <2>1. /\ jobQueue' = q
        /\ status' = s
        /\ UNCHANGED <<activeJobs, proc, awaiting>>
    BY <1>2 DEF ProcessJobQueue
  <2>2. q # <<>> => Cardinality(activeJobs) = MaxConcurrentJobs
    BY <1>2, <1>t DEF SlotFree, SlotBound
  <2>3. SlotBound' /\ SlotsAreReleasable' /\ AwaitedWereStarted'
    BY <2>1 DEF SlotBound, SlotsAreReleasable, AwaitedWereStarted
  <2>4. QueueHoldsFreshJobs'
    BY <2>1 DEF QueueHoldsFreshJobs, QueuedJobs, NoRepeats
  <2> QED BY <1>t, <2>1, <2>2, <2>3, <2>4
<1> QED BY <1>1, <1>2

(* The end of an activation of processJobQueue: it gives back the slot if  *)
(* the job still has it, is counted once, and leaves a wakeup behind if    *)
(* jobs are waiting.                                                       *)
LEMMA SettleStep ==
  ASSUME TypeOK, SlotBound, SlotsAreReleasable, NEW j \in Jobs,
         NEW x \in BOOLEAN, Settle(j, x)
  PROVE  /\ activeJobs' = activeJobs \ {j}
         /\ awaiting' = awaiting \ {j}
         /\ wakeups' \in Nat
         /\ metrics' \in [executed : Nat, successful : Nat, failed : Nat]
         /\ SlotBound'
         /\ jobQueue # <<>> => Cardinality(awaiting') + wakeups'
                                 = Cardinality(awaiting) + wakeups
         /\ metrics'.executed + Cardinality(awaiting')
              = metrics.executed + Cardinality(awaiting)
         /\ metrics.executed = metrics.successful + metrics.failed =>
              metrics'.executed = metrics'.successful + metrics'.failed
<1>1. /\ activeJobs \in SUBSET Jobs
      /\ awaiting \in SUBSET Jobs
      /\ wakeups \in Nat
      /\ metrics \in [executed : Nat, successful : Nat, failed : Nat]
      /\ MaxConcurrentJobs \in Nat
  BY MaxAssumption DEF TypeOK
<1>2. /\ IsFiniteSet(activeJobs) /\ Cardinality(activeJobs) \in Nat
      /\ IsFiniteSet(awaiting) /\ Cardinality(awaiting) \in Nat
  BY <1>1, FiniteJobs
<1>3. CASE j \in awaiting
  <2>1. /\ awaiting' = awaiting \ {j}
        /\ activeJobs' = activeJobs \ {j}
        /\ metrics' = [executed   |-> metrics.executed + 1,
                       successful |-> metrics.successful +
                                        (IF x THEN 1 ELSE 0),
                       failed     |-> metrics.failed +
                                        (IF x THEN 0 ELSE 1)]
        /\ wakeups' = wakeups + (IF jobQueue # <<>> THEN 1 ELSE 0)
    BY <1>3 DEF Settle
  <2>2. Cardinality(awaiting \ {j}) = Cardinality(awaiting) - 1
    BY <1>2, <1>3, FS_RemoveElement
  <2>a. Cardinality(activeJobs \ {j}) =
          IF j \in activeJobs THEN Cardinality(activeJobs) - 1
                              ELSE Cardinality(activeJobs)
    BY <1>2, FS_RemoveElement
  <2>3. Cardinality(activeJobs \ {j}) <= Cardinality(activeJobs)
    BY <1>2, <2>a
  <2>4. Cardinality(activeJobs \ {j}) \in Nat
    BY <1>1, FiniteJobs
  <2>5. SlotBound'
    BY <1>1, <1>2, <2>1, <2>3, <2>4 DEF SlotBound
  <2>6. wakeups' \in Nat
    BY <1>1, <2>1
  <2>7. /\ metrics'.executed = metrics.executed + 1
        /\ metrics'.successful = metrics.successful + (IF x THEN 1 ELSE 0)
        /\ metrics'.failed = metrics.failed + (IF x THEN 0 ELSE 1)
    BY <2>1
  <2>8. metrics' \in [executed : Nat, successful : Nat, failed : Nat]
    BY <1>1, <2>1
  <2>9. jobQueue # <<>> => Cardinality(awaiting') + wakeups'
                             = Cardinality(awaiting) + wakeups
    BY <1>1, <1>2, <2>1, <2>2
  <2>10. metrics'.executed + Cardinality(awaiting')
           = metrics.executed + Cardinality(awaiting)
    BY <1>1, <1>2, <2>1, <2>2, <2>7
  <2>11. metrics.executed = metrics.successful + metrics.failed =>
           metrics'.executed = metrics'.successful + metrics'.failed
    BY <1>1, <2>7
  <2> QED BY <2>1, <2>5, <2>6, <2>8, <2>9, <2>10, <2>11
<1>4. CASE j \notin awaiting
  <2>1. UNCHANGED <<awaiting, activeJobs, metrics, wakeups>>
    BY <1>4 DEF Settle
  <2>2. j \notin activeJobs
    BY <1>4 DEF SlotsAreReleasable
  <2>3. SlotBound'
    BY <2>1 DEF SlotBound
  <2> QED BY <1>1, <1>2, <1>4, <2>1, <2>2, <2>3
<1> QED BY <1>3, <1>4

(* Starting job adds one to the started jobs and one to the awaited ones;  *)
(* a step that starts none leaves both sets alone.                         *)
LEMMA CountsAfterStart ==
  ASSUME TypeOK, AwaitedWereStarted, MetricsConserved, metrics' = metrics,
         \/ \E job \in Jobs : /\ proc[job] = "none"
                              /\ proc' = [proc EXCEPT ![job] = "live"]
                              /\ awaiting' = awaiting \cup {job}
         \/ proc' = proc /\ awaiting' = awaiting
  PROVE  /\ MetricsConserved'
         /\ awaiting' # awaiting =>
              Cardinality(awaiting') = Cardinality(awaiting) + 1
<1> DEFINE started == {j \in Jobs : proc[j] # "none"}
<1>1. CASE proc' = proc /\ awaiting' = awaiting
  BY <1>1 DEF MetricsConserved
<1>2. CASE \E job \in Jobs : /\ proc[job] = "none"
                             /\ proc' = [proc EXCEPT ![job] = "live"]
                             /\ awaiting' = awaiting \cup {job}
  <2>1. PICK job \in Jobs : /\ proc[job] = "none"
                            /\ proc' = [proc EXCEPT ![job] = "live"]
                            /\ awaiting' = awaiting \cup {job}
    BY <1>2
  <2>2. awaiting \in SUBSET Jobs /\ started \in SUBSET Jobs
    BY DEF TypeOK
  <2>3. job \notin awaiting /\ job \notin started
    BY <2>1 DEF AwaitedWereStarted
  <2>4. {j \in Jobs : proc'[j] # "none"} = started \cup {job}
    BY <2>1 DEF TypeOK
  <2>5. /\ IsFiniteSet(awaiting) /\ Cardinality(awaiting) \in Nat
        /\ IsFiniteSet(started) /\ Cardinality(started) \in Nat
    BY <2>2, FiniteJobs
  <2>6. /\ Cardinality(awaiting \cup {job}) = Cardinality(awaiting) + 1
        /\ Cardinality(started \cup {job}) = Cardinality(started) + 1
    BY <2>3, <2>5, FS_AddElement
  <2>7. /\ metrics.executed = metrics.successful + metrics.failed
        /\ metrics.executed + Cardinality(awaiting) = Cardinality(started)
    BY DEF MetricsConserved
  <2>8. metrics.executed \in Nat
    BY DEF TypeOK
  <2>9. metrics.executed + Cardinality(awaiting \cup {job})
          = Cardinality(started \cup {job})
    BY <2>5, <2>6, <2>7, <2>8
  <2>10. /\ metrics'.executed = metrics'.successful + metrics'.failed
         /\ metrics'.executed + Cardinality(awaiting')
              = Cardinality({j \in Jobs : proc'[j] # "none"})
    BY <2>1, <2>4, <2>7, <2>9
  <2> QED BY <2>1, <2>6, <2>10 DEF MetricsConserved
<1> QED BY <1>1, <1>2

-----------------------------------------------------------------------------
(* IInv is inductive: initially, and one lemma per action. *)

LEMMA InitIInv == Init => IInv
<1> SUFFICES ASSUME Init PROVE IInv
  OBVIOUS
<1>1. TypeOK
  BY DEF Init, TypeOK, Statuses, ProcStates
<1>2. Cardinality({}) = 0 /\ {j \in Jobs : proc[j] # "none"} = {}
  BY FS_EmptySet DEF Init
<1>3. SlotBound
  BY <1>2, MaxAssumption DEF Init, SlotBound
<1>4. MetricsConserved
  <2>1. Cardinality({j \in Jobs : proc[j] # "none"}) = 0
    BY <1>2
  <2>2. awaiting = {} /\ metrics = [executed |-> 0, successful |-> 0, failed |-> 0]
    BY DEF Init
  <2>3. /\ metrics.executed = metrics.successful + metrics.failed
        /\ metrics.executed + Cardinality(awaiting) = 0
    BY <1>2, <2>2
  <2> QED BY <2>1, <2>3 DEF MetricsConserved
<1>5. /\ SlotsAreReleasable
      /\ NoLostWakeup
      /\ QueueHoldsFreshJobs
      /\ AwaitedWereStarted
      /\ UnsubmittedLeavesNoTrace
  BY DEF Init, SlotsAreReleasable, NoLostWakeup, QueueHoldsFreshJobs,
         QueuedJobs, AwaitedWereStarted, UnsubmittedLeavesNoTrace
<1> QED BY <1>1, <1>3, <1>4, <1>5 DEF IInv

(* NoLostWakeup after processJobQueue ran: either it used the free slot,   *)
(* and the activation it left behind makes up for the callback it spent,   *)
(* or every slot is taken by an activation that is still there.            *)
LEMMA WakeupsAfterStart ==
  ASSUME TypeOK, SlotsAreReleasable, wakeups' \in Nat,
         NEW q \in Seq(Jobs),
         q # <<>> /\ Len(q) # 1 =>
           Cardinality(awaiting) + wakeups' >= MaxConcurrentJobs - 1,
         \/ /\ awaiting' # awaiting
            /\ Cardinality(awaiting') = Cardinality(awaiting) + 1
            /\ Len(jobQueue') = Len(q) - 1
            /\ jobQueue' \in Seq(Jobs)
         \/ /\ awaiting' = awaiting
            /\ jobQueue' = q
            /\ q # <<>> => Cardinality(activeJobs) = MaxConcurrentJobs
  PROVE  NoLostWakeup'
<1>1. /\ activeJobs \in SUBSET awaiting
      /\ IsFiniteSet(awaiting)
      /\ Cardinality(awaiting) \in Nat
      /\ MaxConcurrentJobs \in Nat
  BY FiniteJobs, MaxAssumption DEF TypeOK, SlotsAreReleasable
<1>2. Cardinality(activeJobs) <= Cardinality(awaiting)
  BY <1>1, FS_Subset
<1>3. ASSUME awaiting' = awaiting, jobQueue' = q, q # <<>>,
             Cardinality(activeJobs) = MaxConcurrentJobs
      PROVE  Cardinality(awaiting') + wakeups' >= MaxConcurrentJobs
  BY <1>1, <1>2, <1>3
<1>4. ASSUME Cardinality(awaiting') = Cardinality(awaiting) + 1,
             Len(jobQueue') = Len(q) - 1, jobQueue' # <<>>,
             jobQueue' \in Seq(Jobs)
      PROVE  Cardinality(awaiting') + wakeups' >= MaxConcurrentJobs
  <2>a. Len(jobQueue') \in Nat \ {0}
    BY <1>4
  <2>1. q # <<>> /\ Len(q) # 1
    BY <1>4, <2>a
  <2> QED BY <1>1, <1>4, <2>1
<1> QED BY <1>3, <1>4 DEF NoLostWakeup

LEMMA ExecuteIInv ==
  ASSUME IInv, NEW j \in Jobs, ExecuteBackgroundJob(j)
  PROVE  IInv'
<1> DEFINE q == Append(jobQueue, j)
           s == [status EXCEPT ![j] = "pending"]
<1> USE DEF IInv
<1>1. /\ status[j] = "none"
      /\ backgroundJobs' = backgroundJobs \cup {j}
      /\ ProcessJobQueue(q, s)
      /\ UNCHANGED <<priority, wakeups, metrics>>
  BY DEF ExecuteBackgroundJob
<1>2. /\ jobQueue \in Seq(Jobs)
      /\ status \in [Jobs -> Statuses]
      /\ wakeups \in Nat
  BY DEF TypeOK
<1>3. q \in Seq(Jobs) /\ s \in [Jobs -> Statuses]
  BY <1>2 DEF Statuses
<1>4. /\ DOMAIN q = 1..(Len(jobQueue) + 1)
      /\ DOMAIN jobQueue = 1..Len(jobQueue)
      /\ Len(jobQueue) \in Nat
      /\ \A i \in 1..Len(jobQueue) : q[i] = jobQueue[i]
      /\ q[Len(jobQueue) + 1] = j
  BY <1>2
<1>5. /\ proc[j] = "none"
      /\ \A i \in 1..Len(jobQueue) : jobQueue[i] # j
  BY <1>1, <1>4 DEF UnsubmittedLeavesNoTrace
<1>6. /\ NoRepeats(jobQueue)
      /\ \A i \in 1..Len(jobQueue) :
           /\ jobQueue[i] \in Jobs
           /\ proc[jobQueue[i]] = "none"
           /\ status[jobQueue[i]] \in {"pending", "cancelled"}
  BY <1>2, <1>4 DEF QueueHoldsFreshJobs, QueuedJobs, NoRepeats
<1>7. NoRepeats(q)
  BY <1>4, <1>5, <1>6 DEF NoRepeats
<1>8. \A i \in DOMAIN q : /\ proc[q[i]] = "none"
                          /\ s[q[i]] \in {"pending", "cancelled"}
  <2> SUFFICES ASSUME NEW i \in DOMAIN q
               PROVE  /\ proc[q[i]] = "none"
                      /\ s[q[i]] \in {"pending", "cancelled"}
    OBVIOUS
  <2>1. CASE i = Len(jobQueue) + 1
    BY <1>2, <1>4, <1>5, <2>1
  <2>2. CASE i \in 1..Len(jobQueue)
    BY <1>2, <1>4, <1>5, <1>6, <2>2
  <2> QED BY <1>4, <2>1, <2>2
<1>9. \A k \in activeJobs : k \in awaiting /\ s[k] = "running"
  BY <1>1, <1>2 DEF SlotsAreReleasable, TypeOK
<1> HIDE DEF q, s
<1>10. /\ jobQueue' \in Seq(Jobs)
       /\ activeJobs' \in SUBSET Jobs
       /\ status' \in [Jobs -> Statuses]
       /\ proc' \in [Jobs -> ProcStates]
       /\ awaiting' \in SUBSET Jobs
       /\ SlotBound'
       /\ SlotsAreReleasable'
       /\ QueueHoldsFreshJobs'
       /\ AwaitedWereStarted'
       /\ \A k \in Jobs : status'[k] = "none" =>
            s[k] = "none" /\ proc'[k] = proc[k]
       /\ \A i \in DOMAIN jobQueue' : \E k \in DOMAIN q : jobQueue'[i] = q[k]
       /\ \/ \E job \in Jobs :
               /\ proc[job] = "none"
               /\ proc' = [proc EXCEPT ![job] = "live"]
               /\ awaiting' = awaiting \cup {job}
               /\ Len(jobQueue') = Len(q) - 1
          \/ /\ proc' = proc
             /\ awaiting' = awaiting
             /\ jobQueue' = q
             /\ q # <<>> => Cardinality(activeJobs) = MaxConcurrentJobs
  BY <1>1, <1>3, <1>7, <1>8, <1>9, ProcessJobQueueStep
<1>11. TypeOK'
  BY <1>1, <1>10 DEF TypeOK
<1>12. /\ MetricsConserved'
       /\ awaiting' # awaiting =>
            Cardinality(awaiting') = Cardinality(awaiting) + 1
  BY <1>1, <1>10, CountsAfterStart
<1>13. NoLostWakeup'
  <2>1. Len(q) # 1 => jobQueue # <<>>
    BY <1>2 DEF q
  <2>2. q # <<>> /\ Len(q) # 1 =>
          Cardinality(awaiting) + wakeups' >= MaxConcurrentJobs - 1
    <3>1. ASSUME jobQueue # <<>>
          PROVE  Cardinality(awaiting) + wakeups >= MaxConcurrentJobs
      BY <3>1 DEF NoLostWakeup
    <3>2. Cardinality(awaiting) \in Nat /\ MaxConcurrentJobs \in Nat
      BY FiniteJobs, MaxAssumption DEF TypeOK
    <3> QED BY <1>1, <1>2, <2>1, <3>1, <3>2
  <2>3. \A job \in Jobs : proc[job] = "none" => awaiting # awaiting \cup {job}
    BY DEF AwaitedWereStarted
  <2>4. \/ /\ awaiting' # awaiting
           /\ Cardinality(awaiting') = Cardinality(awaiting) + 1
           /\ Len(jobQueue') = Len(q) - 1
           /\ jobQueue' \in Seq(Jobs)
        \/ /\ awaiting' = awaiting
           /\ jobQueue' = q
           /\ q # <<>> => Cardinality(activeJobs) = MaxConcurrentJobs
    BY <1>10, <1>12, <2>3
  <2>5. wakeups' \in Nat
    BY <1>1, <1>2
  <2> QED BY <1>3, <2>2, <2>4, <2>5, WakeupsAfterStart
<1>14. UnsubmittedLeavesNoTrace'
  <2> SUFFICES ASSUME NEW k \in Jobs, status'[k] = "none"
               PROVE  /\ proc'[k] = "none"
                      /\ \A i \in DOMAIN jobQueue' : jobQueue'[i] # k
    BY DEF UnsubmittedLeavesNoTrace
  <2>1. s[k] = "none" /\ proc'[k] = proc[k]
    BY <1>10
  <2>2. k # j /\ status[k] = "none"
    BY <1>2, <2>1 DEF s
  <2>3. proc[k] = "none" /\ \A i \in DOMAIN jobQueue : jobQueue[i] # k
    BY <2>2 DEF UnsubmittedLeavesNoTrace
  <2>4. \A i \in DOMAIN q : q[i] # k
    BY <1>4, <2>2, <2>3
  <2> QED BY <1>10, <2>1, <2>3, <2>4
<1> QED BY <1>10, <1>11, <1>12, <1>13, <1>14

LEMMA WakeupIInv ==
  ASSUME IInv, Wakeup
  PROVE  IInv'
<1> USE DEF IInv
<1>1. /\ wakeups \in Nat \ {0}
      /\ wakeups' = wakeups - 1
      /\ ProcessJobQueue(jobQueue, status)
      /\ UNCHANGED <<priority, backgroundJobs, metrics>>
  BY DEF Wakeup, TypeOK
<1>2. /\ jobQueue \in Seq(Jobs)
      /\ status \in [Jobs -> Statuses]
  BY DEF TypeOK
<1>3. /\ NoRepeats(jobQueue)
      /\ \A i \in DOMAIN jobQueue :
           /\ proc[jobQueue[i]] = "none"
           /\ status[jobQueue[i]] \in {"pending", "cancelled"}
  BY DEF QueueHoldsFreshJobs, QueuedJobs, NoRepeats
<1>4. \A k \in activeJobs : k \in awaiting /\ status[k] = "running"
  BY DEF SlotsAreReleasable
<1>5. /\ jobQueue' \in Seq(Jobs)
      /\ activeJobs' \in SUBSET Jobs
      /\ status' \in [Jobs -> Statuses]
      /\ proc' \in [Jobs -> ProcStates]
      /\ awaiting' \in SUBSET Jobs
      /\ SlotBound'
      /\ SlotsAreReleasable'
      /\ QueueHoldsFreshJobs'
      /\ AwaitedWereStarted'
      /\ \A k \in Jobs : status'[k] = "none" =>
           status[k] = "none" /\ proc'[k] = proc[k]
      /\ \A i \in DOMAIN jobQueue' :
           \E k \in DOMAIN jobQueue : jobQueue'[i] = jobQueue[k]
      /\ \/ \E job \in Jobs :
              /\ proc[job] = "none"
              /\ proc' = [proc EXCEPT ![job] = "live"]
              /\ awaiting' = awaiting \cup {job}
              /\ Len(jobQueue') = Len(jobQueue) - 1
         \/ /\ proc' = proc
            /\ awaiting' = awaiting
            /\ jobQueue' = jobQueue
            /\ jobQueue # <<>> => Cardinality(activeJobs) = MaxConcurrentJobs
  BY <1>1, <1>2, <1>3, <1>4, ProcessJobQueueStep
<1>6. TypeOK'
  BY <1>1, <1>5 DEF TypeOK
<1>7. /\ MetricsConserved'
      /\ awaiting' # awaiting =>
           Cardinality(awaiting') = Cardinality(awaiting) + 1
  BY <1>1, <1>5, CountsAfterStart
<1>8. NoLostWakeup'
  <2>1. jobQueue # <<>> /\ Len(jobQueue) # 1 =>
          Cardinality(awaiting) + wakeups' >= MaxConcurrentJobs - 1
    <3>1. ASSUME jobQueue # <<>>
          PROVE  Cardinality(awaiting) + wakeups >= MaxConcurrentJobs
      BY <3>1 DEF NoLostWakeup
    <3>2. Cardinality(awaiting) \in Nat /\ MaxConcurrentJobs \in Nat
      BY FiniteJobs, MaxAssumption DEF TypeOK
    <3> QED BY <1>1, <3>1, <3>2
  <2>2. \A job \in Jobs : proc[job] = "none" => awaiting # awaiting \cup {job}
    BY DEF AwaitedWereStarted
  <2>3. \/ /\ awaiting' # awaiting
           /\ Cardinality(awaiting') = Cardinality(awaiting) + 1
           /\ Len(jobQueue') = Len(jobQueue) - 1
           /\ jobQueue' \in Seq(Jobs)
        \/ /\ awaiting' = awaiting
           /\ jobQueue' = jobQueue
           /\ jobQueue # <<>> => Cardinality(activeJobs) = MaxConcurrentJobs
    BY <1>5, <1>7, <2>2
  <2>4. wakeups' \in Nat
    BY <1>1
  <2> QED BY <1>2, <2>1, <2>3, <2>4, WakeupsAfterStart
<1>9. UnsubmittedLeavesNoTrace'
  BY <1>5 DEF UnsubmittedLeavesNoTrace
<1> QED BY <1>5, <1>6, <1>7, <1>8, <1>9

(* The three ways a job ends: an activation, if it still waits, settles,   *)
(* and the job gets a final status.                                        *)
LEMMA EndIInv ==
  ASSUME IInv, NEW j \in Jobs, NEW x \in BOOLEAN, Settle(j, x),
         proc[j] # "none",
         NEW p \in ProcStates, p # "none", proc' = [proc EXCEPT ![j] = p],
         NEW f \in Finished, status' = [status EXCEPT ![j] = f],
         UNCHANGED <<priority, backgroundJobs, jobQueue>>
  PROVE  IInv'
<1> USE DEF IInv
<1>1. /\ activeJobs' = activeJobs \ {j}
      /\ awaiting' = awaiting \ {j}
      /\ wakeups' \in Nat
      /\ metrics' \in [executed : Nat, successful : Nat, failed : Nat]
      /\ SlotBound'
      /\ jobQueue # <<>> => Cardinality(awaiting') + wakeups'
                              = Cardinality(awaiting) + wakeups
      /\ metrics'.executed + Cardinality(awaiting')
           = metrics.executed + Cardinality(awaiting)
      /\ metrics.executed = metrics.successful + metrics.failed =>
           metrics'.executed = metrics'.successful + metrics'.failed
  BY SettleStep
<1>2. status' \in [Jobs -> Statuses]
  BY DEF TypeOK, Statuses, Finished
<1>3. TypeOK'
  BY <1>1, <1>2 DEF TypeOK
<1>4. SlotsAreReleasable'
  BY <1>1 DEF SlotsAreReleasable, TypeOK
<1>5. NoLostWakeup'
  BY <1>1 DEF NoLostWakeup
<1>6. \A k \in Jobs : proc'[k] # "none" <=> proc[k] # "none"
  BY DEF TypeOK
<1>7. MetricsConserved'
  <2>1. {k \in Jobs : proc'[k] # "none"} = {k \in Jobs : proc[k] # "none"}
    BY <1>6
  <2> QED BY <1>1, <2>1 DEF MetricsConserved
<1>8. QueueHoldsFreshJobs'
  <2>1. \A k \in QueuedJobs : k # j /\ k \in Jobs
    BY DEF QueueHoldsFreshJobs, QueuedJobs, TypeOK
  <2>2. QueuedJobs' = QueuedJobs
    BY DEF QueuedJobs
  <2>3. \A k \in QueuedJobs : proc'[k] = proc[k] /\ status'[k] = status[k]
    BY <2>1 DEF TypeOK
  <2> QED BY <2>2, <2>3 DEF QueueHoldsFreshJobs
<1>9. AwaitedWereStarted'
  BY <1>1, <1>6 DEF AwaitedWereStarted, TypeOK
<1>10. UnsubmittedLeavesNoTrace'
  <2>1. \A k \in Jobs : status'[k] = "none" => k # j /\ status[k] = "none"
    BY DEF TypeOK, Finished
  <2> QED BY <1>6, <2>1 DEF UnsubmittedLeavesNoTrace
<1> QED BY <1>1, <1>3, <1>4, <1>5, <1>7, <1>8, <1>9, <1>10

(* KillAll changes no job that was never started into one that was, nor    *)
(* the other way round.                                                    *)
LEMMA KillAllKeepsStarted ==
  ASSUME TypeOK, NEW S, proc' = KillAll(S)
  PROVE  /\ proc' \in [Jobs -> ProcStates]
         /\ \A k \in Jobs : proc'[k] # "none" <=> proc[k] # "none"
         /\ {k \in Jobs : proc'[k] # "none"} = {k \in Jobs : proc[k] # "none"}
<1>1. proc' \in [Jobs -> ProcStates]
  BY DEF TypeOK, KillAll, ProcStates
<1>2. \A k \in Jobs : proc'[k] # "none" <=> proc[k] # "none"
  BY DEF TypeOK, KillAll
<1> QED BY <1>1, <1>2

LEMMA ProcessCloseIInv ==
  ASSUME IInv, NEW j \in Jobs, ProcessClose(j)
  PROVE  IInv'
<1>1. PICK zero \in BOOLEAN :
        /\ status' = [status EXCEPT ![j] = IF zero THEN "completed" ELSE "failed"]
        /\ Settle(j, zero)
  BY DEF ProcessClose
<1>2. /\ proc[j] # "none"
      /\ proc' = [proc EXCEPT ![j] = "closed"]
      /\ UNCHANGED <<priority, backgroundJobs, jobQueue>>
  BY DEF ProcessClose
<1>3. "closed" \in ProcStates /\ "completed" \in Finished /\ "failed" \in Finished
  BY DEF ProcStates, Finished
<1> QED BY <1>1, <1>2, <1>3, EndIInv

LEMMA ProcessErrorIInv ==
  ASSUME IInv, NEW j \in Jobs, ProcessError(j)
  PROVE  IInv'
<1>1. "error" \in ProcStates /\ "failed" \in Finished
  BY DEF ProcStates, Finished
<1>2. /\ proc[j] # "none"
      /\ proc' = [proc EXCEPT ![j] = "error"]
      /\ status' = [status EXCEPT ![j] = "failed"]
      /\ Settle(j, FALSE)
      /\ UNCHANGED <<priority, backgroundJobs, jobQueue>>
  BY DEF ProcessError
<1> QED BY <1>1, <1>2, EndIInv

LEMMA JobTimeoutIInv ==
  ASSUME IInv, NEW j \in Jobs, JobTimeout(j)
  PROVE  IInv'
<1> DEFINE p == IF proc[j] = "live" THEN "killed" ELSE proc[j]
<1>1. /\ proc[j] # "none"
      /\ proc' = KillAll({j})
      /\ status' = [status EXCEPT ![j] = "failed"]
      /\ Settle(j, FALSE)
      /\ UNCHANGED <<priority, backgroundJobs, jobQueue>>
  BY DEF JobTimeout
<1>2. proc' = [proc EXCEPT ![j] = p]
  BY <1>1 DEF KillAll, IInv, TypeOK
<1>3. p \in ProcStates /\ p # "none" /\ "failed" \in Finished
  BY <1>1 DEF ProcStates, Finished, IInv, TypeOK
<1> QED BY <1>1, <1>2, <1>3, EndIInv

LEMMA CancelJobIInv ==
  ASSUME IInv, NEW j \in Jobs, CancelJob(j)
  PROVE  IInv'
<1> USE DEF IInv
<1>1. /\ proc' = KillAll({j})
      /\ status' = [status EXCEPT ![j] = "cancelled"]
      /\ activeJobs' = activeJobs \ {j}
      /\ UNCHANGED <<priority, backgroundJobs, jobQueue, awaiting, wakeups,
                     metrics>>
  BY DEF CancelJob
<1>2. /\ proc' \in [Jobs -> ProcStates]
      /\ \A k \in Jobs : proc'[k] # "none" <=> proc[k] # "none"
      /\ {k \in Jobs : proc'[k] # "none"} = {k \in Jobs : proc[k] # "none"}
  BY <1>1, KillAllKeepsStarted
<1>3. TypeOK'
  BY <1>1, <1>2 DEF TypeOK, Statuses
<1>4. SlotBound'
  <2>1. activeJobs \in SUBSET Jobs /\ activeJobs' \in SUBSET activeJobs
    BY <1>1 DEF TypeOK
  <2>2. /\ IsFiniteSet(activeJobs)
        /\ Cardinality(activeJobs) \in Nat
        /\ Cardinality(activeJobs') \in Nat
    BY <2>1, FiniteJobs
  <2>3. Cardinality(activeJobs') <= Cardinality(activeJobs)
    BY <2>1, <2>2, FS_Subset
  <2> QED BY <2>2, <2>3, MaxAssumption DEF SlotBound
<1>5. SlotsAreReleasable'
  BY <1>1 DEF SlotsAreReleasable, TypeOK
<1>6. NoLostWakeup'
  BY <1>1 DEF NoLostWakeup
<1>7. MetricsConserved'
  BY <1>1, <1>2 DEF MetricsConserved
<1>8. QueueHoldsFreshJobs'
  <2>1. QueuedJobs' = QueuedJobs /\ QueuedJobs \subseteq Jobs
    BY <1>1 DEF QueuedJobs, TypeOK
  <2>2. \A k \in QueuedJobs :
          proc'[k] = "none" /\ status'[k] \in {"pending", "cancelled"}
    BY <1>1, <1>2, <2>1 DEF QueueHoldsFreshJobs, TypeOK
  <2> QED BY <1>1, <2>1, <2>2 DEF QueueHoldsFreshJobs
<1>9. AwaitedWereStarted'
  BY <1>1, <1>2 DEF AwaitedWereStarted, TypeOK
<1>10. UnsubmittedLeavesNoTrace'
  BY <1>1, <1>2 DEF UnsubmittedLeavesNoTrace, TypeOK
<1> QED BY <1>3, <1>4, <1>5, <1>6, <1>7, <1>8, <1>9, <1>10

LEMMA CleanupIInv ==
  ASSUME IInv, NEW S \in SUBSET Jobs, CleanupCompletedJobs(S)
  PROVE  IInv'
BY DEF IInv, CleanupCompletedJobs, TypeOK, SlotBound, SlotsAreReleasable,
       NoLostWakeup, MetricsConserved, QueueHoldsFreshJobs, QueuedJobs,
       AwaitedWereStarted, UnsubmittedLeavesNoTrace

LEMMA DestroyIInv ==
  ASSUME IInv, Destroy
  PROVE  IInv'
<1> USE DEF IInv
<1>1. /\ proc' = KillAll({j \in backgroundJobs : status[j] = "running"})
      /\ backgroundJobs' = {}
      /\ jobQueue' = <<>>
      /\ activeJobs' = {}
      /\ UNCHANGED <<priority, status, awaiting, wakeups, metrics>>
  BY DEF Destroy
<1>2. /\ proc' \in [Jobs -> ProcStates]
      /\ \A k \in Jobs : proc'[k] # "none" <=> proc[k] # "none"
      /\ {k \in Jobs : proc'[k] # "none"} = {k \in Jobs : proc[k] # "none"}
  BY <1>1, KillAllKeepsStarted
<1>3. TypeOK'
  BY <1>1, <1>2 DEF TypeOK
<1>4. SlotBound'
  BY <1>1, FS_EmptySet, MaxAssumption DEF SlotBound
<1>5. /\ SlotsAreReleasable'
      /\ NoLostWakeup'
      /\ QueueHoldsFreshJobs'
  BY <1>1 DEF SlotsAreReleasable, NoLostWakeup, QueueHoldsFreshJobs, QueuedJobs
<1>6. MetricsConserved'
  BY <1>1, <1>2 DEF MetricsConserved
<1>7. AwaitedWereStarted'
  BY <1>1, <1>2 DEF AwaitedWereStarted, TypeOK
<1>8. UnsubmittedLeavesNoTrace'
  BY <1>1, <1>2 DEF UnsubmittedLeavesNoTrace
<1> QED BY <1>3, <1>4, <1>5, <1>6, <1>7, <1>8

LEMMA NextIInv == IInv /\ [Next]_vars => IInv'
<1> SUFFICES ASSUME IInv, [Next]_vars PROVE IInv'
  OBVIOUS
<1>1. CASE \E j \in Jobs : ExecuteBackgroundJob(j)
  BY <1>1, ExecuteIInv
<1>2. CASE \E j \in Jobs : ProcessClose(j)
  BY <1>2, ProcessCloseIInv
<1>3. CASE \E j \in Jobs : ProcessError(j)
  BY <1>3, ProcessErrorIInv
<1>4. CASE \E j \in Jobs : JobTimeout(j)
  BY <1>4, JobTimeoutIInv
<1>5. CASE \E j \in Jobs : CancelJob(j)
  BY <1>5, CancelJobIInv
<1>6. CASE Wakeup
  BY <1>6, WakeupIInv
<1>7. CASE \E S \in SUBSET Jobs : CleanupCompletedJobs(S)
  BY <1>7, CleanupIInv
<1>8. CASE Destroy
  BY <1>8, DestroyIInv
<1>9. CASE UNCHANGED vars
  BY <1>9 DEF vars, IInv, TypeOK, SlotBound, SlotsAreReleasable,
     NoLostWakeup, MetricsConserved, QueueHoldsFreshJobs, QueuedJobs,
     AwaitedWereStarted, UnsubmittedLeavesNoTrace
<1> QED BY <1>1, <1>2, <1>3, <1>4, <1>5, <1>6, <1>7, <1>8, <1>9 DEF Next

-----------------------------------------------------------------------------
(* IInv holds throughout every behaviour of the job runner.                *)
THEOREM InductiveInvariant == Spec => []IInv
<1>1. Init => IInv
  BY InitIInv
<1>2. IInv /\ [Next]_vars => IInv'
  BY NextIInv
<1> QED BY <1>1, <1>2, PTL DEF Spec

(* The variables keep their types.                                         *)
THEOREM TypeCorrect == Spec => []TypeOK
BY InductiveInvariant, PTL DEF IInv

(* processJobQueue never has more than maxConcurrentJobs slots handed out. *)
THEOREM SlotsAreBounded == Spec => []SlotBound
BY InductiveInvariant, PTL DEF IInv

(* Every slot taken belongs to a running job whose end releases it.        *)
THEOREM SlotsComeBack == Spec => []SlotsAreReleasable
BY InductiveInvariant, PTL DEF IInv

(* Waiting jobs are never forgotten, although cancelJob, the timeout and   *)
(* destroy free slots without looking at the queue.                        *)
THEOREM NoWakeupIsLost == Spec => []NoLostWakeup
BY InductiveInvariant, PTL DEF IInv

(* Every job that was started is counted exactly once when it ends.        *)
THEOREM MetricsAddUp == Spec => []MetricsConserved
BY InductiveInvariant, PTL DEF IInv

-----------------------------------------------------------------------------
(* The order in which jobs start. *)

(* The head of the sorted queue is a job that no other comes before.       *)
LEMMA HeadIsFirst ==
  ASSUME NEW q \in Seq(Jobs), q # <<>>, priority \in [Jobs -> Priorities]
  PROVE  \E k \in 1..Len(q) : /\ Head(SortByPriority(q)) = q[k]
                              /\ \A i \in 1..Len(q) : ~Before(q, i, k)
<1> DEFINE s == SortByPriority(q)
<1>1. Len(q) \in Nat \ {0} /\ DOMAIN q = 1..Len(q)
  OBVIOUS
<1>2. /\ s \in Seq(Jobs) /\ Len(s) = Len(q)
      /\ \A r \in 1..Len(q) : \E k \in 1..Len(q) : s[r] = q[k] /\ Rank(q, k) = r
  BY SortPermutes
<1>3. PICK k \in 1..Len(q) : s[1] = q[k] /\ Rank(q, k) = 1
  BY <1>1, <1>2
<1> HIDE DEF s
<1>4. Head(s) = q[k]
  BY <1>1, <1>2, <1>3
<1>5. IsFiniteSet(BeforeSet(q, k))
  <2>1. BeforeSet(q, k) \in SUBSET (1..Len(q)) /\ IsFiniteSet(1..Len(q))
    BY <1>1, IntervalCardinality DEF BeforeSet
  <2> QED BY <2>1, FS_Subset
<1>6. Cardinality(BeforeSet(q, k)) = 0
  BY <1>3, <1>5, FS_CardinalityType DEF Rank, BeforeSet
<1>7. BeforeSet(q, k) = {}
  BY <1>5, <1>6, FS_EmptySet
<1> QED BY <1>1, <1>4, <1>7 DEF BeforeSet, s

(* What InOrder says of one job that starts.                               *)
IsNext(j) ==
  /\ \A k \in QueuedJobs : priority[k] <= priority[j]
  /\ \A i, k \in DOMAIN jobQueue :
       /\ jobQueue[k] = j
       /\ priority[jobQueue[i]] = priority[j]
       => k <= i
  /\ j \notin QueuedJobs =>
       \A k \in QueuedJobs : priority[k] < priority[j]

(* The queue processJobQueue works on is the queue, or the queue and a job *)
(* that was not submitted before.                                          *)
LEMMA ShiftIsInOrder ==
  ASSUME IInv, NEW q \in Seq(Jobs), NEW s, ProcessJobQueue(q, s),
         \/ q = jobQueue
         \/ \E j \in Jobs : /\ q = Append(jobQueue, j)
                            /\ j \notin QueuedJobs,
         NEW j \in Jobs, Started(j)
  PROVE  IsNext(j)
<1> DEFINE n == Len(jobQueue)
<1>1. /\ priority \in [Jobs -> Priorities] /\ jobQueue \in Seq(Jobs)
      /\ proc \in [Jobs -> ProcStates]
      /\ \A i, k \in DOMAIN jobQueue : jobQueue[i] = jobQueue[k] => i = k
  BY DEF IInv, TypeOK, QueueHoldsFreshJobs
<1>2. n \in Nat /\ DOMAIN jobQueue = 1..n
  BY <1>1
<1>3. /\ Len(q) \in {n, n + 1}
      /\ \A i \in 1..n : q[i] = jobQueue[i] /\ i \in 1..Len(q)
      /\ Len(q) = n + 1 => q[n + 1] \notin QueuedJobs
  BY <1>1, <1>2
<1>4. q # <<>> /\ proc' = [proc EXCEPT ![Head(SortByPriority(q))] = "live"]
  <2>1. proc' # proc
    BY DEF Started
  <2> QED BY <2>1 DEF ProcessJobQueue
<1>5. j = Head(SortByPriority(q))
  BY <1>1, <1>4 DEF Started
<1>6. PICK k \in 1..Len(q) : q[k] = j /\ \A i \in 1..Len(q) : ~Before(q, i, k)
  BY <1>1, <1>4, <1>5, HeadIsFirst
<1>7. \A i \in 1..Len(q) : priority[q[i]] \in Int
  <2>1. \A i \in 1..Len(q) : priority[q[i]] \in Priorities
    BY <1>1
  <2> QED BY <2>1, PrioritiesAssumption
<1>8. \A i \in 1..n : /\ priority[jobQueue[i]] <= priority[j]
                      /\ priority[jobQueue[i]] = priority[j] => k <= i
  <2> SUFFICES ASSUME NEW i \in 1..n
               PROVE  /\ priority[jobQueue[i]] <= priority[j]
                      /\ priority[jobQueue[i]] = priority[j] => k <= i
    OBVIOUS
  <2>1. ~Before(q, i, k) /\ q[i] = jobQueue[i]
    BY <1>3, <1>6
  <2>2. priority[q[i]] \in Int /\ priority[q[k]] \in Int
    BY <1>3, <1>7
  <2>3. i \in Nat /\ k \in Nat
    BY <1>2, <1>3
  <2> HIDE DEF n
  <2> QED BY <1>6, <2>1, <2>2, <2>3 DEF Before
<1> HIDE DEF n
<1>9. \A m \in QueuedJobs : \E i \in 1..n : jobQueue[i] = m
  BY <1>2 DEF QueuedJobs
<1>10. CASE k \in 1..n
  <2>1. jobQueue[k] = j /\ j \in QueuedJobs
    BY <1>2, <1>3, <1>6, <1>10 DEF QueuedJobs
  <2>2. \A i \in 1..n : jobQueue[i] = j => i = k
    BY <1>1, <1>2, <1>10, <2>1
  <2> QED BY <1>2, <1>8, <1>9, <2>1, <2>2 DEF IsNext
<1>11. CASE k \notin 1..n
  <2>1. k = n + 1 /\ j \notin QueuedJobs
    BY <1>2, <1>3, <1>6, <1>11
  <2>2. \A i \in 1..n : jobQueue[i] # j
    BY <1>2, <2>1 DEF QueuedJobs
  <2>3. \A i \in 1..n : priority[jobQueue[i]] < priority[j]
    <3> SUFFICES ASSUME NEW i \in 1..n PROVE priority[jobQueue[i]] < priority[j]
      OBVIOUS
    <3>1. /\ priority[jobQueue[i]] <= priority[j]
          /\ priority[jobQueue[i]] # priority[j]
      BY <1>2, <1>8, <2>1
    <3>2. priority[jobQueue[i]] \in Int /\ priority[j] \in Int
      BY <1>3, <1>6, <1>7
    <3> QED BY <3>1, <3>2
  <2> QED BY <1>2, <1>8, <1>9, <2>2, <2>3 DEF IsNext
<1> QED BY <1>10, <1>11

LEMMA NextInOrder == IInv /\ [Next]_vars => InOrder
<1> SUFFICES ASSUME IInv, [Next]_vars, NEW j \in Jobs, Started(j)
             PROVE  IsNext(j)
  BY DEF InOrder, IsNext
<1>1. proc \in [Jobs -> ProcStates] /\ jobQueue \in Seq(Jobs)
  BY DEF IInv, TypeOK
<1>2. proc'[j] # "none" /\ proc[j] = "none"
  BY DEF Started
<1>3. ASSUME NEW i \in Jobs, ExecuteBackgroundJob(i)
      PROVE  IsNext(j)
  <2>1. i \notin QueuedJobs
    BY <1>3 DEF ExecuteBackgroundJob, IInv, UnsubmittedLeavesNoTrace, QueuedJobs
  <2> DEFINE q == Append(jobQueue, i)
             s == [status EXCEPT ![i] = "pending"]
  <2>2. ProcessJobQueue(q, s)
    BY <1>3 DEF ExecuteBackgroundJob
  <2>3. q \in Seq(Jobs)
    BY <1>1
  <2>4. \E k \in Jobs : q = Append(jobQueue, k) /\ k \notin QueuedJobs
    BY <2>1
  <2> HIDE DEF q, s
  <2> QED BY <2>2, <2>3, <2>4, ShiftIsInOrder
<1>4. CASE Wakeup
  <2>1. ProcessJobQueue(jobQueue, status)
    BY <1>4 DEF Wakeup
  <2> QED BY <1>1, <2>1, ShiftIsInOrder
<1>5. ASSUME NEW i \in Jobs, ProcessClose(i) \/ ProcessError(i)
      PROVE  FALSE
  BY <1>1, <1>2, <1>5 DEF ProcessClose, ProcessError
<1>6. \A S : KillAll(S)[j] = "none"
  BY <1>2 DEF KillAll
<1>7. ASSUME \/ \E i \in Jobs : JobTimeout(i) \/ CancelJob(i)
             \/ Destroy
      PROVE  FALSE
  BY <1>2, <1>6, <1>7 DEF JobTimeout, CancelJob, Destroy
<1>8. ASSUME \/ \E S \in SUBSET Jobs : CleanupCompletedJobs(S)
             \/ UNCHANGED vars
      PROVE  FALSE
  BY <1>2, <1>8 DEF CleanupCompletedJobs, vars
<1> QED BY <1>3, <1>4, <1>5, <1>7, <1>8 DEF Next

(* Jobs start in the order of their priorities, and in the order of their  *)
(* submission within one: the job a step starts (executeBackgroundJob, the *)
(* wakeup of processJobQueue) is the one that a stable sort puts first,    *)
(* whatever was submitted, cancelled or finished meanwhile.                *)
THEOREM JobsStartInPriorityOrder == Spec => StartsInPriorityOrder
<1>1. IInv /\ [Next]_vars => [InOrder]_vars
  BY NextInOrder
<1> QED BY <1>1, InductiveInvariant, PTL DEF Spec, StartsInPriorityOrder
=============================================================================
