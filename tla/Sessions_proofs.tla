--------------------------- MODULE Sessions_proofs ---------------------------
(* Proofs about Sessions for any number of sessions, any limits, any number of *)
(* attempts and any bounds on timers and restarts.                             *)
EXTENDS Sessions, FiniteSetTheorems, TLAPS

Timers == [Ids -> [delay : Nat, check : Nat]]

(* The file obeys what the registry obeys, since it is read back.              *)
FileExhausted ==
    \A s \in Ids : disk[s].status = "failed" => disk[s].attempts >= MaxRecoveryAttempts

(* The registry, its timers and its file.                                      *)
RegInv ==
    /\ registry \in [Ids -> Entry] /\ disk \in [Ids -> Entry]
    /\ timers \in Timers
    /\ old \subseteq Ids /\ unsaved \subseteq Ids
    /\ FailedOnlyWhenExhausted /\ FileExhausted /\ RecoveringIsDriven

(* The calls and the console's table: a call that waits has a try left.        *)
CallInv ==
    /\ console \in [Ids -> {"none", "initializing", "running", "ended", "stopped", "crashed"}]
    /\ call \in [Ids -> Call]
    /\ \A s \in Ids : call[s].pc = "waiting" => call[s].tries < MaxTries
    /\ type \in Typings
    /\ restarts \in 0..MaxRestarts

IInv == RegInv /\ CallInv

LEMMA TypesTogether == IInv => TypeOK
BY DEF IInv, RegInv, CallInv, Timers, TypeOK

-------------------------------------------------------------------------------
(* The registry. *)

(* A file nothing can be read from.                                            *)
LEMMA UnreadableIsFile ==
    /\ Unreadable \in [Ids -> Entry]
    /\ \A s \in Ids : Unreadable[s].status = "absent"
BY SessionsAssumption DEF Unreadable, Absent, Entry

(* What a write may leave.                                                     *)
LEMMA WriteLeaves ==
    ASSUME RegInv, NEW S \in SUBSET Ids, Persisted(S)
    PROVE  disk' \in {disk, registry', Unreadable} /\ unsaved' \subseteq Ids
<1>1. Registered' \subseteq Ids
  BY DEF Registered
<1> QED BY <1>1 DEF RegInv, Persisted

(* One entry changes, and with it the timers: none loses its last timer but    *)
(* that of the entry, which keeps one when it is recovering.                   *)
LEMMA EntryChanges ==
    ASSUME RegInv, NEW s \in Ids, NEW e \in Entry, NEW tm \in Timers,
           e.status = "failed" => e.attempts >= MaxRecoveryAttempts,
           e.status = "recovering" => tm[s].delay + tm[s].check > 0,
           \A t \in Ids \ {s} : Pending(t) > 0 => tm[t].delay + tm[t].check > 0,
           registry' = [registry EXCEPT ![s] = e],
           timers' = tm, old' \in {old, old \ {s}},
           disk' \in {disk, registry', Unreadable}, unsaved' \subseteq Ids
    PROVE  RegInv'
<1>1. /\ registry' \in [Ids -> Entry]
      /\ registry'[s] = e
      /\ \A t \in Ids \ {s} : registry'[t] = registry[t]
  BY DEF RegInv
<1>2. /\ timers' \in Timers
      /\ \A t \in Ids : Pending(t)' = tm[t].delay + tm[t].check
  BY DEF Pending
<1>3. FailedOnlyWhenExhausted'
  BY <1>1 DEF RegInv, FailedOnlyWhenExhausted
<1>4. RecoveringIsDriven'
  BY <1>1, <1>2 DEF RegInv, RecoveringIsDriven
<1>5. disk' \in [Ids -> Entry] /\ FileExhausted'
  BY <1>1, <1>3, UnreadableIsFile DEF RegInv, FailedOnlyWhenExhausted, FileExhausted
<1>6. old' \subseteq Ids
  BY DEF RegInv
<1> QED BY <1>1, <1>2, <1>3, <1>4, <1>5, <1>6 DEF RegInv

(* Only timers change.                                                         *)
LEMMA TimersChange ==
    ASSUME RegInv, NEW tm \in Timers,
           \A t \in Ids : /\ registry[t].status = "recovering"
                          /\ Pending(t) > 0
                          => tm[t].delay + tm[t].check > 0,
           timers' = tm, UNCHANGED <<registry, old>>,
           disk' \in {disk, registry, Unreadable}, unsaved' \subseteq Ids
    PROVE  RegInv'
<1>1. \A t \in Ids : Pending(t)' = tm[t].delay + tm[t].check
  BY DEF Pending
<1>2. RecoveringIsDriven'
  BY <1>1 DEF RegInv, RecoveringIsDriven
<1>3. FailedOnlyWhenExhausted'
  BY DEF RegInv, FailedOnlyWhenExhausted
<1>4. disk' \in [Ids -> Entry] /\ FileExhausted'
  BY UnreadableIsFile DEF RegInv, FailedOnlyWhenExhausted, FileExhausted
<1> QED BY <1>2, <1>3, <1>4 DEF RegInv

(* What a failure makes of an entry.                                           *)
LEMMA FailedEntry ==
    ASSUME NEW e \in Entry, e.status = "failed" => e.attempts >= MaxRecoveryAttempts
    PROVE  /\ Failed(e) \in Entry
           /\ Failed(e).status = "failed" => Failed(e).attempts >= MaxRecoveryAttempts
           /\ Failed(e).status = "recovering" /\ e.status # "recovering"
                => e.attempts < MaxRecoveryAttempts
           /\ e.attempts >= MaxRecoveryAttempts => Failed(e).status = "failed"
BY SessionsAssumption DEF Failed, Entry

(* The timers of one session change.                                           *)
LEMMA DelayAdded ==
    ASSUME NEW tm \in Timers, NEW s \in Ids
    PROVE  /\ [tm EXCEPT ![s].delay = @ + 1] \in Timers
           /\ [tm EXCEPT ![s].delay = @ + 1][s].delay = tm[s].delay + 1
           /\ [tm EXCEPT ![s].delay = @ + 1][s].check = tm[s].check
           /\ \A t \in Ids \ {s} : [tm EXCEPT ![s].delay = @ + 1][t] = tm[t]
           /\ tm[s].delay \in Nat /\ tm[s].check \in Nat
BY DEF Timers

LEMMA AttemptKeepsTimers ==
    ASSUME timers \in Timers, NEW s \in Ids, AttemptDue(s)
    PROVE  /\ AttemptMade(s) \in Timers
           /\ \A t \in Ids : AttemptMade(s)[t].delay + AttemptMade(s)[t].check = Pending(t)
<1>1. timers[s] \in [delay : Nat, check : Nat] /\ timers[s].delay - 1 \in Nat
  BY DEF Timers, AttemptDue
<1>2. [delay |-> timers[s].delay - 1, check |-> timers[s].check + 1] \in [delay : Nat, check : Nat]
  BY <1>1
<1>3. AttemptMade(s) \in Timers
  BY <1>2 DEF AttemptMade, Timers
<1>4. \A t \in Ids \ {s} : AttemptMade(s)[t] = timers[t]
  BY DEF AttemptMade, Timers
<1>5. AttemptMade(s)[s].delay = timers[s].delay - 1 /\ AttemptMade(s)[s].check = timers[s].check + 1
  BY DEF AttemptMade, Timers
<1>6. AttemptMade(s)[s].delay + AttemptMade(s)[s].check = Pending(s)
  BY <1>1, <1>5 DEF Pending
<1> QED BY <1>3, <1>4, <1>6 DEF Pending

LEMMA CheckKeepsTimers ==
    ASSUME timers \in Timers, NEW s \in Ids, timers[s].check > 0
    PROVE  /\ CheckDone(s) \in Timers
           /\ \A t \in Ids \ {s} : CheckDone(s)[t] = timers[t]
BY DEF Timers, CheckDone

(* An update of a status from any timers that kept what they had.              *)
LEMMA UpdateKeepsRegInv ==
    ASSUME RegInv, NEW s \in Ids, NEW tm \in Timers,
           NEW status \in {"running", "paused", "stopped", "failed"},
           \A t \in Ids \ {s} : Pending(t) > 0 => tm[t].delay + tm[t].check > 0,
           UpdateSessionStatus(s, status, tm)
    PROVE  RegInv'
<1> DEFINE e == IF status = "failed" THEN Failed(registry[s])
                ELSE [registry[s] EXCEPT !.status = status]
           tn == IF status = "failed" /\ registry[s].attempts < MaxRecoveryAttempts
                 THEN [tm EXCEPT ![s].delay = @ + 1] ELSE tm
<1>1. registry[s] \in Entry /\ (registry[s].status = "failed"
                                  => registry[s].attempts >= MaxRecoveryAttempts)
  BY DEF RegInv, FailedOnlyWhenExhausted
<1>2. registry[s].attempts \in Nat /\ MaxRecoveryAttempts \in Nat
  BY <1>1, SessionsAssumption DEF Entry
<1>3. e \in Entry /\ (e.status = "failed" => e.attempts >= MaxRecoveryAttempts)
  <2>1. CASE status = "failed"
    BY <2>1, <1>1, FailedEntry
  <2>2. CASE status # "failed"
    BY <2>2, <1>1 DEF Entry
  <2> QED BY <2>1, <2>2
<1>4. tn \in Timers
  BY DelayAdded
<1>5. e.status = "recovering" => tn[s].delay + tn[s].check > 0
  <2> SUFFICES ASSUME e.status = "recovering" PROVE tn[s].delay + tn[s].check > 0
    OBVIOUS
  <2>1. status = "failed"
    BY <1>1 DEF Entry
  <2>2. registry[s].attempts < MaxRecoveryAttempts
    BY <2>1, <1>1, <1>2, FailedEntry
  <2>3. tn[s].delay = tm[s].delay + 1 /\ tn[s].check = tm[s].check
    BY <2>1, <2>2, DelayAdded
  <2>4. tm[s].delay \in Nat /\ tm[s].check \in Nat
    BY DEF Timers
  <2> HIDE DEF tn
  <2> QED BY <2>3, <2>4
<1>6. \A t \in Ids \ {s} : tn[t] = tm[t]
  BY DelayAdded
<1>7. /\ registry' = [registry EXCEPT ![s] = e] /\ timers' = tn
      /\ old' = old \ {s} /\ Persisted({s})
  BY DEF UpdateSessionStatus, RegInv
<1> HIDE DEF e, tn
<1>8. disk' \in {disk, registry', Unreadable} /\ unsaved' \subseteq Ids
  BY <1>7, WriteLeaves
<1> QED BY <1>3, <1>4, <1>5, <1>6, <1>7, <1>8, EntryChanges

LEMMA TimersStay ==
    ASSUME RegInv
    PROVE  /\ timers \in Timers /\ unsaved \subseteq Ids
           /\ \A t \in Ids : Pending(t) > 0 => timers[t].delay + timers[t].check > 0
BY DEF RegInv, Pending

LEMMA TellKeepsRegInv ==
    ASSUME RegInv, NEW s \in Ids, NEW tm \in Timers,
           NEW status \in {"running", "paused", "stopped", "failed"},
           \A t \in Ids : Pending(t) > 0 => tm[t].delay + tm[t].check > 0,
           TellRegistry(s, status, tm)
    PROVE  RegInv'
<1>1. CASE UpdateSessionStatus(s, status, tm)
  BY <1>1, UpdateKeepsRegInv
<1>2. CASE timers' = tm /\ UNCHANGED <<registry, disk, unsaved, old>>
  BY <1>2, TimersStay, TimersChange
<1> QED BY <1>1, <1>2 DEF TellRegistry

LEMMA CreateKeepsRegInv ==
    ASSUME RegInv, NEW s \in Ids, NEW made, NEW tm \in Timers,
           \A t \in Ids : Pending(t) > 0 => tm[t].delay + tm[t].check > 0,
           CreateSessionInternal(s, made, tm)
    PROVE  RegInv'
<1>1. CASE RegisterSession(s, tm)
  <2>1. /\ NewEntry \in Entry
        /\ NewEntry.status = "initializing"
    BY SessionsAssumption DEF NewEntry, Entry
  <2>2. /\ registry' = [registry EXCEPT ![s] = NewEntry] /\ timers' = tm
        /\ old' = old \ {s} /\ Persisted({s})
    BY <1>1 DEF RegisterSession
  <2>3. disk' \in {disk, registry', Unreadable} /\ unsaved' \subseteq Ids
    BY <2>2, WriteLeaves
  <2> QED BY <2>1, <2>2, <2>3, EntryChanges
<1>2. CASE TellRegistry(s, "failed", tm)
  BY <1>2, TellKeepsRegInv
<1> QED BY <1>1, <1>2 DEF CreateSessionInternal

LEMMA CreateKeepsCallInv ==
    ASSUME CallInv, NEW s \in Ids, NEW made \in Call, NEW tm,
           CreateSessionInternal(s, made, tm), UNCHANGED <<type, restarts>>
    PROVE  CallInv'
<1>1. \E pc \in {"connecting", "failing"} : call' = [call EXCEPT ![s] = [made EXCEPT !.pc = pc]]
  BY DEF CreateSessionInternal
<1>2. \E c \in {"initializing", "crashed"} : console' = [console EXCEPT ![s] = c]
  BY DEF CreateSessionInternal
<1>3. /\ call' \in [Ids -> Call]
      /\ \A t \in Ids : call'[t].pc = "waiting" => call'[t].tries < MaxTries
  <2>1. PICK pc \in {"connecting", "failing"} : call' = [call EXCEPT ![s] = [made EXCEPT !.pc = pc]]
    BY <1>1
  <2>2. [made EXCEPT !.pc = pc] \in Call /\ [made EXCEPT !.pc = pc].pc = pc
    BY DEF Call
  <2> QED BY <2>1, <2>2 DEF CallInv
<1> QED BY <1>2, <1>3 DEF CallInv

(* A call without effect on the table of calls but one entry.                  *)
LEMMA CallChanges ==
    ASSUME CallInv, NEW s \in Ids, NEW c \in Call,
           c.pc = "waiting" => c.tries < MaxTries,
           call' = [call EXCEPT ![s] = c],
           console' \in [Ids -> {"none", "initializing", "running", "ended", "stopped", "crashed"}],
           UNCHANGED <<type, restarts>>
    PROVE  CallInv'
BY DEF CallInv

LEMMA NoCallIsCall == NoCall \in Call /\ NoCall.pc = "none"
BY SessionsAssumption DEF NoCall, Call

(* The calls that createSession, a recovery and executeCommand start with.     *)
LEMMA FirstTryIsCall ==
    /\ [NoCall EXCEPT !.tries = 1] \in Call
    /\ [NoCall EXCEPT !.tries = 1, !.oneShot = TRUE] \in Call
    /\ \A s \in Ids : [NoCall EXCEPT !.tries = 1, !.parent = s] \in Call
<1>1. 1 \in 0..MaxTries /\ NoCall \in Call
  BY NoCallIsCall, SessionsAssumption
<1>2. [NoCall EXCEPT !.tries = 1] \in Call
  BY <1>1 DEF Call
<1>3. /\ [[NoCall EXCEPT !.tries = 1] EXCEPT !.oneShot = TRUE] \in Call
      /\ \A s \in Ids : [[NoCall EXCEPT !.tries = 1] EXCEPT !.parent = s] \in Call
  BY <1>2 DEF Call
<1> QED BY <1>2, <1>3

LEMMA ConsoleChanges ==
    ASSUME CallInv, NEW s \in Ids,
           NEW c \in {"none", "initializing", "running", "ended", "stopped", "crashed"}
    PROVE  /\ [console EXCEPT ![s] = c]
                \in [Ids -> {"none", "initializing", "running", "ended", "stopped", "crashed"}]
           /\ console \in [Ids -> {"none", "initializing", "running", "ended", "stopped", "crashed"}]
BY DEF CallInv

-------------------------------------------------------------------------------
(* Each action. *)

LEMMA InitHolds == Init => IInv
<1> SUFFICES ASSUME Init PROVE IInv
  OBVIOUS
<1>1. Absent \in Entry /\ Absent.status = "absent"
  BY SessionsAssumption DEF Absent, Entry
<1>2. RegInv
  BY <1>1 DEF Init, RegInv, Timers, NoTimers, FailedOnlyWhenExhausted, FileExhausted,
     RecoveringIsDriven
<1>3. CallInv
  BY NoCallIsCall, SessionsAssumption DEF Init, CallInv
<1> QED BY <1>2, <1>3 DEF IInv

LEMMA CreationHolds ==
    ASSUME IInv, NEW s \in Ids, Creation(s)
    PROVE  IInv'
<1> USE DEF IInv
<1>0. /\ [NoCall EXCEPT !.tries = 1] \in Call
      /\ [NoCall EXCEPT !.tries = 1, !.oneShot = TRUE] \in Call
  BY FirstTryIsCall
<1>1. CASE CreateSession(s)
  BY <1>0, <1>1, TimersStay, CreateKeepsRegInv, CreateKeepsCallInv DEF CreateSession
<1>2. CASE ExecuteCommand(s)
  BY <1>0, <1>2, TimersStay, CreateKeepsRegInv, CreateKeepsCallInv DEF ExecuteCommand
<1>3. CASE Connected(s)
  <2>1. RegInv'
    <3>1. CASE call[s].parent = NoId
      <4>1. UNCHANGED <<registry, timers, disk, unsaved, old>>
        BY <1>3, <3>1 DEF Connected
      <4> QED BY <4>1, TimersStay, TimersChange
    <3>2. CASE call[s].parent # NoId
      <4>1. call[s].parent \in Ids /\ TellRegistry(call[s].parent, "running", timers)
        BY <1>3, <3>2 DEF Connected, CallInv, Call
      <4> QED BY <4>1, TimersStay, TellKeepsRegInv
    <3> QED BY <3>1, <3>2
  <2>2. CallInv'
    <3> DEFINE c == IF call[s].oneShot THEN [call[s] EXCEPT !.pc = "executing"] ELSE NoCall
    <3>1. c \in Call /\ c.pc # "waiting"
      BY NoCallIsCall DEF CallInv, Call
    <3>2. call' = [call EXCEPT ![s] = c] /\ console' = [console EXCEPT ![s] = "running"]
          /\ UNCHANGED <<type, restarts>>
      BY <1>3 DEF Connected, CallInv
    <3> HIDE DEF c
    <3> QED BY <3>1, <3>2, CallChanges, ConsoleChanges
  <2> QED BY <2>1, <2>2
<1>4. CASE ConnectFails(s)
  <2>1. RegInv'
    BY <1>4, TimersStay, TellKeepsRegInv DEF ConnectFails
  <2>2. [call[s] EXCEPT !.pc = "failing"] \in Call /\ [call[s] EXCEPT !.pc = "failing"].pc # "waiting"
    BY DEF CallInv, Call
  <2>3. call' = [call EXCEPT ![s] = [call[s] EXCEPT !.pc = "failing"]]
    BY <1>4 DEF ConnectFails, CallInv
  <2>4. CallInv'
    BY <1>4, <2>2, <2>3, CallChanges, ConsoleChanges DEF ConnectFails
  <2> QED BY <2>1, <2>4
<1>5. CASE Retry(s)
  <2>1. RegInv'
    BY <1>5, TimersStay, TimersChange DEF Retry
  <2>2. /\ [call[s] EXCEPT !.pc = "waiting"] \in Call
        /\ [call[s] EXCEPT !.pc = "waiting"].tries < MaxTries
    BY <1>5 DEF CallInv, Call, Retry
  <2>3. call' = [call EXCEPT ![s] = [call[s] EXCEPT !.pc = "waiting"]]
    BY <1>5 DEF Retry, CallInv
  <2>4. CallInv'
    BY <1>5, <2>2, <2>3, CallChanges, ConsoleChanges DEF Retry
  <2> QED BY <2>1, <2>4
<1>6. CASE RetryStarts(s)
  <2>1. call[s].tries + 1 \in 0..MaxTries
    BY <1>6, SessionsAssumption DEF RetryStarts, CallInv, Call
  <2>2. [call[s] EXCEPT !.tries = @ + 1] \in Call
    BY <2>1 DEF CallInv, Call
  <2> QED BY <1>6, <2>2, TimersStay, CreateKeepsRegInv, CreateKeepsCallInv DEF RetryStarts
<1>7. CASE GiveUp(s)
  <2>1. RegInv'
    <3>1. CASE call[s].parent = NoId
      <4>1. UNCHANGED <<registry, timers, disk, unsaved, old>>
        BY <1>7, <3>1 DEF GiveUp
      <4> QED BY <4>1, TimersStay, TimersChange
    <3>2. CASE call[s].parent # NoId
      <4>1. call[s].parent \in Ids /\ TellRegistry(call[s].parent, "failed", timers)
        BY <1>7, <3>2 DEF GiveUp, CallInv, Call
      <4> QED BY <4>1, TimersStay, TellKeepsRegInv
    <3> QED BY <3>1, <3>2
  <2>2. CallInv'
    BY <1>7, NoCallIsCall, CallChanges, ConsoleChanges DEF GiveUp
  <2> QED BY <2>1, <2>2
<1>8. CASE OneShotEnds(s)
  <2>1. RegInv'
    BY <1>8, TimersStay, TimersChange DEF OneShotEnds
  <2>2. CallInv'
    BY <1>8, NoCallIsCall, CallChanges, ConsoleChanges DEF OneShotEnds
  <2> QED BY <2>1, <2>2
<1>9. CASE OneShotInputFails(s)
  <2>1. RegInv'
    BY <1>9, TimersStay, TimersChange DEF OneShotInputFails
  <2>2. CallInv'
    BY <1>9, NoCallIsCall, CallChanges, ConsoleChanges DEF OneShotInputFails
  <2> QED BY <2>1, <2>2
<1> QED BY <1>1, <1>2, <1>3, <1>4, <1>5, <1>6, <1>7, <1>8, <1>9 DEF Creation

LEMMA LifeHolds ==
    ASSUME IInv, NEW s \in Ids, Life(s)
    PROVE  IInv'
<1> USE DEF IInv
<1>1. CASE ProcessEnds(s) \/ StopSession(s) \/ ResourceMonitor(s)
  <2>1. RegInv'
    BY <1>1, TimersStay, TimersChange DEF ProcessEnds, StopSession, ResourceMonitor
  <2>2. UNCHANGED <<call, type, restarts>>
    BY <1>1 DEF ProcessEnds, StopSession, ResourceMonitor
  <2>3. \E c \in {"none", "ended", "stopped"} : console' = [console EXCEPT ![s] = c]
    BY <1>1 DEF ProcessEnds, StopSession, ResourceMonitor
  <2> QED BY <2>1, <2>2, <2>3, ConsoleChanges DEF CallInv
<1>2. CASE PauseSession(s) \/ ResumeSession(s) \/ HealthCheck(s)
  <2>1. /\ \E status \in {"running", "paused", "stopped", "failed"} :
                UpdateSessionStatus(s, status, timers)
        /\ UNCHANGED <<console, call, type, restarts>>
    BY <1>2 DEF PauseSession, ResumeSession, HealthCheck
  <2>2. RegInv'
    BY <2>1, TimersStay, UpdateKeepsRegInv
  <2> QED BY <2>1, <2>2 DEF CallInv
<1>3. CASE UnregisterSession(s)
  <2>1. Absent \in Entry /\ Absent.status = "absent"
    BY SessionsAssumption DEF Absent, Entry
  <2>2. RegInv'
    BY <1>3, <2>1, TimersStay, WriteLeaves, EntryChanges DEF UnregisterSession
  <2> QED BY <1>3, <2>2 DEF CallInv, UnregisterSession
<1> QED BY <1>1, <1>2, <1>3 DEF Life

LEMMA RecoveryAttemptHolds ==
    ASSUME IInv, NEW s \in Ids, RecoveryAttempt(s)
    PROVE  IInv'
<1> USE DEF IInv
<1>0. /\ AttemptMade(s) \in Timers
      /\ \A t \in Ids : Pending(t) > 0 => AttemptMade(s)[t].delay + AttemptMade(s)[t].check > 0
  BY TimersStay, AttemptKeepsTimers
     DEF RecoveryAttempt, RecoveryRefused, RecoveryIgnored, RecoverLocalSession
<1>1. CASE RecoveryRefused(s)
  BY <1>0, <1>1, TellKeepsRegInv DEF RecoveryRefused, CallInv
<1>2. CASE RecoveryIgnored(s)
  BY <1>0, <1>2, TimersStay, TimersChange DEF RecoveryIgnored, CallInv
<1>3. ASSUME NEW n \in Ids, RecoverLocalSession(s, n)
      PROVE  IInv'
  BY <1>0, <1>3, FirstTryIsCall, CreateKeepsRegInv, CreateKeepsCallInv DEF RecoverLocalSession
<1> QED BY <1>1, <1>2, <1>3 DEF RecoveryAttempt

LEMMA RecoveryCheckHolds ==
    ASSUME IInv, NEW s \in Ids, RecoveryCheck(s)
    PROVE  IInv'
<1> USE DEF IInv
<1>0. /\ CheckDone(s) \in Timers
      /\ \A t \in Ids \ {s} : CheckDone(s)[t] = timers[t]
  BY TimersStay, CheckKeepsTimers DEF RecoveryCheck, StillRecovering, HasRecovered, RecoveryOver
<1>00. \A t \in Ids \ {s} : Pending(t) > 0 => CheckDone(s)[t].delay + CheckDone(s)[t].check > 0
  BY <1>0 DEF Pending
<1>01. registry[s] \in Entry /\ (registry[s].status = "failed"
                                  => registry[s].attempts >= MaxRecoveryAttempts)
  BY DEF RegInv, FailedOnlyWhenExhausted
<1>1. CASE StillRecovering(s)
  <2>1. CASE UpdateSessionStatus(s, "failed", CheckDone(s))
    BY <1>0, <1>00, <1>1, <2>1, UpdateKeepsRegInv DEF StillRecovering, CallInv
  <2>2. CASE /\ registry' = [registry EXCEPT ![s] = Failed(@)]
             /\ timers' = [CheckDone(s) EXCEPT ![s].delay = @ + 1]
             /\ old' = old \ {s} /\ UNCHANGED <<disk, unsaved>>
    <3> DEFINE tn == [CheckDone(s) EXCEPT ![s].delay = @ + 1]
    <3>1. /\ tn \in Timers
          /\ tn[s].delay = CheckDone(s)[s].delay + 1 /\ tn[s].check = CheckDone(s)[s].check
          /\ \A t \in Ids \ {s} : tn[t] = CheckDone(s)[t]
          /\ CheckDone(s)[s].delay \in Nat /\ CheckDone(s)[s].check \in Nat
      BY <1>0, DelayAdded
    <3>2. registry' = [registry EXCEPT ![s] = Failed(registry[s])] /\ timers' = tn
      BY <2>2 DEF RegInv
    <3> HIDE DEF tn
    <3>3. tn[s].delay + tn[s].check > 0
      BY <3>1
    <3>4. \A t \in Ids \ {s} : Pending(t) > 0 => tn[t].delay + tn[t].check > 0
      BY <3>1, <1>00
    <3>5. RegInv'
      BY <1>01, <2>2, <3>1, <3>2, <3>3, <3>4, TimersStay, FailedEntry, EntryChanges
    <3> QED BY <1>1, <3>5 DEF StillRecovering, CallInv
  <2> QED BY <1>1, <2>1, <2>2 DEF StillRecovering
<1>2. CASE HasRecovered(s)
  <2> DEFINE e == [registry[s] EXCEPT !.attempts = 0]
  <2>1. e \in Entry /\ e.status = "running"
    BY <1>2, <1>01, SessionsAssumption DEF HasRecovered, Entry
  <2>2. registry' = [registry EXCEPT ![s] = e]
    BY <1>2 DEF HasRecovered, RegInv
  <2>3. timers' = CheckDone(s) /\ UNCHANGED <<console, call, type, disk, unsaved, old, restarts>>
    BY <1>2 DEF HasRecovered
  <2> HIDE DEF e
  <2>4. RegInv'
    BY <1>0, <1>00, <2>1, <2>2, <2>3, TimersStay, EntryChanges
  <2> QED BY <2>3, <2>4 DEF CallInv
<1>3. CASE RecoveryOver(s)
  <2>1. \A t \in Ids : /\ registry[t].status = "recovering"
                       /\ Pending(t) > 0
                      => CheckDone(s)[t].delay + CheckDone(s)[t].check > 0
    BY <1>00, <1>3 DEF RecoveryOver
  <2> QED BY <1>0, <1>3, <2>1, TimersStay, TimersChange DEF RecoveryOver, CallInv
<1> QED BY <1>1, <1>2, <1>3 DEF RecoveryCheck

LEMMA RestartHolds ==
    ASSUME IInv, Restart
    PROVE  IInv'
<1> USE DEF IInv
<1>1. PICK kept \in SUBSET {s \in Ids : disk[s].status # "absent"} :
          registry' = [s \in Ids |->
               IF s \notin kept THEN Absent
               ELSE IF disk[s].status = "running"
               THEN [status |-> "recovering", attempts |-> 0]
               ELSE disk[s]]
  BY DEF Restart
<1>2. /\ Absent \in Entry /\ Absent.status = "absent"
      /\ [status |-> "recovering", attempts |-> 0] \in Entry
  BY SessionsAssumption DEF Absent, Entry
<1>3. registry' \in [Ids -> Entry] /\ FailedOnlyWhenExhausted'
  BY <1>1, <1>2 DEF RegInv, FileExhausted, FailedOnlyWhenExhausted
<1>4. timers' \in Timers
  BY DEF Restart, Timers, NoTimers
<1>5. RecoveringIsDriven'
  BY <1>1, <1>2 DEF Restart, RecoveringIsDriven
<1>6. /\ disk' \in [Ids -> Entry] /\ FileExhausted'
      /\ old' \subseteq Ids /\ unsaved' \subseteq Ids
  BY DEF Restart, RegInv, FileExhausted
<1>7. RegInv'
  BY <1>3, <1>4, <1>5, <1>6 DEF RegInv
<1>8. /\ restarts' \in 0..MaxRestarts /\ type' = type
      /\ console' = [s \in Ids |-> "none"] /\ call' = [s \in Ids |-> NoCall]
  BY SessionsAssumption DEF Restart, CallInv
<1>9. CallInv'
  BY <1>8, NoCallIsCall DEF CallInv
<1> QED BY <1>7, <1>9

-------------------------------------------------------------------------------
(* The theorems. *)

(* Every reachable state satisfies the inductive invariant: what the registry, *)
(* its timers and its file agree on survives every operation, timer and restart.*)
THEOREM InductiveInvariant == Spec => []IInv
<1>1. IInv /\ [Next]_vars => IInv'
  <2> SUFFICES ASSUME IInv, [Next]_vars PROVE IInv'
    OBVIOUS
  <2>1. ASSUME NEW s \in Ids, Creation(s) \/ Life(s) \/ RecoveryAttempt(s) \/ RecoveryCheck(s)
        PROVE  IInv'
    BY <2>1, CreationHolds, LifeHolds, RecoveryAttemptHolds, RecoveryCheckHolds
  <2>2. CASE PersistSessions
    <3>1. disk' \in {disk, registry', Unreadable} /\ unsaved' \subseteq Ids
      BY <2>2, WriteLeaves DEF IInv, PersistSessions
    <3> QED BY <2>2, <3>1, TimersStay, TimersChange DEF IInv, PersistSessions, CallInv
  <2>3. CASE Restart
    BY <2>3, RestartHolds
  <2>4. CASE UNCHANGED vars
    BY <2>4, TimersStay, TimersChange DEF vars, IInv, CallInv
  <2> QED BY <2>1, <2>2, <2>3, <2>4 DEF Next
<1> QED BY InitHolds, <1>1, PTL DEF Spec

(* Types: among them, a session never counts more recovery attempts than there *)
(* are, nor a creation more tries, whatever chains and retries overlap.        *)
THEOREM TypeCorrect == Spec => []TypeOK
BY InductiveInvariant, TypesTogether, PTL

(* A session is given up only with its recovery attempts used up: no path      *)
(* through pause, registration under the same id, overlapping chains or the    *)
(* file read at start makes one failed early.                                  *)
THEOREM GivenUpOnlyWhenExhausted == Spec => []FailedOnlyWhenExhausted
<1>1. IInv => FailedOnlyWhenExhausted
  BY DEF IInv, RegInv
<1> QED BY <1>1, InductiveInvariant, PTL

(* A session that is recovering has a timer that will look at it again, unless *)
(* it was read from the file at start.                                         *)
THEOREM RecoveriesAreDriven == Spec => []RecoveringIsDriven
<1>1. IInv => RecoveringIsDriven
  BY DEF IInv, RegInv
<1> QED BY <1>1, InductiveInvariant, PTL

-------------------------------------------------------------------------------
(* The size of the registry. *)

OnDisk == {s \in Ids : disk[s].status # "absent"}
BoundInv == RegistryBounded /\ Cardinality(OnDisk) <= MaxSessions

(* What a step may do to the ids in the registry and in the file.              *)
RegistryStep ==
    /\ \/ Registered' \subseteq Registered
       \/ ~ RegistryFull /\ \E s \in Ids : Registered' \subseteq Registered \cup {s}
       \/ Registered' \subseteq OnDisk
    /\ OnDisk' = {} \/ OnDisk' = Registered' \/ OnDisk' = OnDisk

LEMMA FileHolds ==
    ASSUME disk' \in {disk, registry', Unreadable}
    PROVE  OnDisk' = {} \/ OnDisk' = Registered' \/ OnDisk' = OnDisk
BY UnreadableIsFile DEF OnDisk, Registered

LEMMA EntryStep ==
    ASSUME IInv, NEW s \in Registered, NEW e \in Entry,
           registry' = [registry EXCEPT ![s] = e], disk' \in {disk, registry', Unreadable}
    PROVE  RegistryStep
<1>1. \A t \in Ids \ {s} : registry'[t] = registry[t]
  BY DEF IInv, RegInv
<1>2. Registered' \subseteq Registered
  BY <1>1 DEF Registered
<1> QED BY <1>2, FileHolds DEF RegistryStep

LEMMA UpdateStep ==
    ASSUME IInv, NEW s, NEW tm, NEW status \in {"running", "paused", "stopped", "failed"},
           UpdateSessionStatus(s, status, tm)
    PROVE  RegistryStep
<1>1. s \in Registered /\ s \in Ids
  BY DEF UpdateSessionStatus, Registered
<1>2. registry[s] \in Entry /\ (registry[s].status = "failed"
                                  => registry[s].attempts >= MaxRecoveryAttempts)
  BY <1>1 DEF IInv, RegInv, FailedOnlyWhenExhausted
<1> DEFINE e == IF status = "failed" THEN Failed(registry[s])
                ELSE [registry[s] EXCEPT !.status = status]
<1>3. e \in Entry
  BY <1>2, FailedEntry DEF Entry
<1>4. registry' = [registry EXCEPT ![s] = e] /\ Persisted({s})
  BY <1>1 DEF UpdateSessionStatus, IInv, RegInv
<1>5. disk' \in {disk, registry', Unreadable}
  BY <1>1, <1>4, WriteLeaves DEF IInv
<1> HIDE DEF e
<1> QED BY <1>1, <1>3, <1>4, <1>5, EntryStep

LEMMA NoStep ==
    ASSUME UNCHANGED registry, disk' \in {disk, registry', Unreadable}
    PROVE  RegistryStep
<1>1. Registered' = Registered
  BY DEF Registered
<1> QED BY <1>1, FileHolds DEF RegistryStep

LEMMA TellStep ==
    ASSUME IInv, NEW s, NEW tm, NEW status \in {"running", "paused", "stopped", "failed"},
           TellRegistry(s, status, tm)
    PROVE  RegistryStep
BY UpdateStep, NoStep DEF TellRegistry

LEMMA CreateStep ==
    ASSUME IInv, NEW s \in Ids, NEW made, NEW tm, CreateSessionInternal(s, made, tm)
    PROVE  RegistryStep
<1>1. CASE RegisterSession(s, tm)
  <2>1. /\ ~ RegistryFull /\ registry' = [registry EXCEPT ![s] = NewEntry]
        /\ Persisted({s})
    BY <1>1 DEF RegisterSession
  <2>2. \A t \in Ids \ {s} : registry'[t] = registry[t]
    BY <2>1 DEF IInv, RegInv
  <2>3. Registered' \subseteq Registered \cup {s}
    BY <2>2 DEF Registered
  <2>4. disk' \in {disk, registry', Unreadable}
    BY <2>1, WriteLeaves DEF IInv
  <2> QED BY <2>1, <2>3, <2>4, FileHolds DEF RegistryStep
<1>2. CASE TellRegistry(s, "failed", tm)
  BY <1>2, TellStep
<1> QED BY <1>1, <1>2 DEF CreateSessionInternal

LEMMA EveryStep ==
    ASSUME IInv, [Next]_vars
    PROVE  RegistryStep
<1>1. ASSUME NEW s \in Ids, Creation(s)
      PROVE  RegistryStep
  <2>1. CASE CreateSession(s) \/ ExecuteCommand(s) \/ RetryStarts(s)
    BY <2>1, CreateStep DEF CreateSession, ExecuteCommand, RetryStarts
  <2>2. CASE Connected(s) \/ ConnectFails(s) \/ GiveUp(s)
    BY <2>2, TellStep, NoStep DEF Connected, ConnectFails, GiveUp
  <2>3. CASE Retry(s) \/ OneShotEnds(s) \/ OneShotInputFails(s)
    BY <2>3, NoStep DEF Retry, OneShotEnds, OneShotInputFails
  <2> QED BY <1>1, <2>1, <2>2, <2>3 DEF Creation
<1>2. ASSUME NEW s \in Ids, Life(s)
      PROVE  RegistryStep
  <2>1. CASE ProcessEnds(s) \/ StopSession(s) \/ ResourceMonitor(s)
    BY <2>1, NoStep DEF ProcessEnds, StopSession, ResourceMonitor
  <2>2. CASE PauseSession(s) \/ ResumeSession(s) \/ HealthCheck(s)
    BY <2>2, UpdateStep DEF PauseSession, ResumeSession, HealthCheck
  <2>3. CASE UnregisterSession(s)
    <3>1. Absent \in Entry
      BY SessionsAssumption DEF Absent, Entry
    <3> QED BY <2>3, <3>1, WriteLeaves, EntryStep DEF UnregisterSession, IInv, Registered
  <2> QED BY <1>2, <2>1, <2>2, <2>3 DEF Life
<1>3. ASSUME NEW s \in Ids, RecoveryAttempt(s)
      PROVE  RegistryStep
  BY <1>3, TellStep, NoStep, CreateStep
     DEF RecoveryAttempt, RecoveryRefused, RecoveryIgnored, RecoverLocalSession
<1>4. ASSUME NEW s \in Ids, RecoveryCheck(s)
      PROVE  RegistryStep
  <2>0. registry[s] \in Entry /\ (registry[s].status = "failed"
                                    => registry[s].attempts >= MaxRecoveryAttempts)
    BY DEF IInv, RegInv, FailedOnlyWhenExhausted
  <2>1. CASE StillRecovering(s)
    <3>1. s \in Registered /\ Failed(registry[s]) \in Entry
      BY <2>0, <2>1, FailedEntry DEF StillRecovering, Registered
    <3> QED BY <2>1, <3>1, UpdateStep, EntryStep DEF StillRecovering
  <2>2. CASE HasRecovered(s)
    <3> DEFINE e == [registry[s] EXCEPT !.attempts = 0]
    <3>1. s \in Registered /\ e \in Entry
      BY <2>0, <2>2, SessionsAssumption DEF HasRecovered, Registered, Entry
    <3>2. registry' = [registry EXCEPT ![s] = e] /\ disk' = disk
      BY <2>2 DEF HasRecovered, IInv, RegInv
    <3> HIDE DEF e
    <3> QED BY <3>1, <3>2, EntryStep
  <2>3. CASE RecoveryOver(s)
    BY <2>3, NoStep DEF RecoveryOver
  <2> QED BY <1>4, <2>1, <2>2, <2>3 DEF RecoveryCheck
<1>5. CASE PersistSessions
  BY <1>5, WriteLeaves, NoStep DEF PersistSessions, IInv
<1>6. CASE Restart
  <2>1. PICK kept \in SUBSET {s \in Ids : disk[s].status # "absent"} :
            registry' = [s \in Ids |->
                 IF s \notin kept THEN Absent
                 ELSE IF disk[s].status = "running"
                 THEN [status |-> "recovering", attempts |-> 0]
                 ELSE disk[s]]
    BY <1>6 DEF Restart
  <2>2. Registered' \subseteq OnDisk
    BY <2>1 DEF Registered, OnDisk, Absent
  <2>3. OnDisk' = OnDisk
    BY <1>6 DEF Restart, OnDisk
  <2> QED BY <2>2, <2>3 DEF RegistryStep
<1>7. CASE UNCHANGED vars
  BY <1>7, NoStep DEF vars
<1> QED BY <1>1, <1>2, <1>3, <1>4, <1>5, <1>6, <1>7 DEF Next

(* The registry never holds more than maxSessions entries, whatever recoveries,*)
(* retries under the same id and the file read at start put into it.           *)
THEOREM RegistryStaysBounded == Spec => []RegistryBounded
<1>1. Init => BoundInv
  <2> SUFFICES ASSUME Init PROVE BoundInv
    OBVIOUS
  <2>1. Registered = {} /\ OnDisk = {}
    BY DEF Init, Registered, OnDisk, Absent
  <2>2. Cardinality({}) = 0
    BY FS_EmptySet
  <2> QED BY <2>1, <2>2, SessionsAssumption DEF BoundInv, RegistryBounded
<1>2. IInv /\ BoundInv /\ [Next]_vars => BoundInv'
  <2> SUFFICES ASSUME IInv, BoundInv, [Next]_vars PROVE BoundInv'
    OBVIOUS
  <2>0. /\ IsFiniteSet(Registered) /\ IsFiniteSet(OnDisk)
        /\ Cardinality(Registered) \in Nat /\ Cardinality(OnDisk) \in Nat
    <3>1. IsFiniteSet(Ids) /\ Registered \subseteq Ids /\ OnDisk \subseteq Ids
      BY SessionsAssumption DEF Registered, OnDisk
    <3> QED BY <3>1, FS_Subset, FS_CardinalityType
  <2>1. Cardinality(Registered') <= MaxSessions
    <3>1. CASE Registered' \subseteq Registered
      <4>1. Cardinality(Registered') <= Cardinality(Registered) /\ Cardinality(Registered') \in Nat
        BY <2>0, <3>1, FS_Subset, FS_CardinalityType
      <4> QED BY <2>0, <4>1, SessionsAssumption DEF BoundInv, RegistryBounded
    <3>2. CASE Registered' \subseteq OnDisk
      <4>1. Cardinality(Registered') <= Cardinality(OnDisk) /\ Cardinality(Registered') \in Nat
        BY <2>0, <3>2, FS_Subset, FS_CardinalityType
      <4> QED BY <2>0, <4>1, SessionsAssumption DEF BoundInv
    <3>3. CASE ~ RegistryFull /\ \E s \in Ids : Registered' \subseteq Registered \cup {s}
      <4>1. PICK s \in Ids : Registered' \subseteq Registered \cup {s}
        BY <3>3
      <4>2. /\ IsFiniteSet(Registered \cup {s})
            /\ Cardinality(Registered \cup {s}) <= Cardinality(Registered) + 1
            /\ Cardinality(Registered \cup {s}) \in Nat
        <5>1. IsFiniteSet(Registered \cup {s})
          BY <2>0, FS_AddElement
        <5>2. Cardinality(Registered \cup {s}) = Cardinality(Registered)
              \/ Cardinality(Registered \cup {s}) = Cardinality(Registered) + 1
          BY <2>0, FS_AddElement
        <5>3. Cardinality(Registered \cup {s}) \in Nat
          BY <5>1, FS_CardinalityType
        <5> QED BY <2>0, <5>1, <5>2, <5>3
      <4>3. /\ Cardinality(Registered') <= Cardinality(Registered \cup {s})
            /\ Cardinality(Registered') \in Nat
        BY <4>1, <4>2, FS_Subset, FS_CardinalityType
      <4>4. Cardinality(Registered) < MaxSessions
        BY <2>0, <3>3, SessionsAssumption DEF RegistryFull
      <4> QED BY <2>0, <4>2, <4>3, <4>4, SessionsAssumption
    <3> QED BY <3>1, <3>2, <3>3, EveryStep DEF RegistryStep
  <2>2. Cardinality(OnDisk') <= MaxSessions
    <3>1. Cardinality({}) = 0
      BY FS_EmptySet
    <3> QED BY <2>1, <3>1, EveryStep, SessionsAssumption DEF RegistryStep, BoundInv
  <2> QED BY <2>1, <2>2 DEF BoundInv, RegistryBounded
<1>3. BoundInv => RegistryBounded
  BY DEF BoundInv
<1> QED BY InductiveInvariant, <1>1, <1>2, <1>3, PTL DEF Spec
-------------------------------------------------------------------------------
(* The file. *)

(* An entry read from the file that nothing touched since has no timer: no     *)
(* timer survives the restart, and what sets one touches the entry.            *)
OldIsUntimed == \A s \in old : timers[s] = NoTimers

FileInv == FileIsCurrent /\ OldIsUntimed

(* What a step may do to one session: it is written to the file, or neither    *)
(* its status nor the file's changes, or it was just read from the file, or    *)
(* its write fails; and it gets no timer without being touched.                *)
FileStepOf(t) ==
    /\ \/ disk'[t].status = registry'[t].status
       \/ /\ disk'[t].status = disk[t].status /\ registry'[t].status = registry[t].status
          /\ t \in old => t \in old'
          /\ t \in unsaved => t \in unsaved'
       \/ t \in old' \cup unsaved'
    /\ t \in old' => \/ t \in old /\ timers'[t] = timers[t]
                     \/ timers'[t] = NoTimers

FileStep == old' \subseteq Ids /\ \A t \in Ids : FileStepOf(t)

LEMMA FileStepKeepsFileInv ==
    ASSUME IInv, FileInv, FileStep
    PROVE  FileInv'
<1>1. ASSUME NEW t \in Ids \ (old' \cup unsaved')
      PROVE  disk'[t].status = registry'[t].status
  BY <1>1 DEF FileStep, FileStepOf, FileInv, FileIsCurrent
<1>2. ASSUME NEW t \in old'
      PROVE  timers'[t] = NoTimers
  BY <1>2 DEF FileStep, FileStepOf, FileInv, OldIsUntimed
<1> QED BY <1>1, <1>2 DEF FileInv, FileIsCurrent, OldIsUntimed

(* The entries of S change, a write of the file is tried, and no untouched     *)
(* entry gets a timer.                                                         *)
LEMMA WrittenStep ==
    ASSUME IInv, NEW S \in SUBSET Ids, Persisted(S), old' = old \ S,
           \A t \in Ids \ S : registry'[t] = registry[t],
           \A t \in old' : timers'[t] = timers[t]
    PROVE  FileStep
<1>1. old' \subseteq Ids /\ \A t \in old' : t \in old
  BY DEF IInv, RegInv
<1> SUFFICES ASSUME NEW t \in Ids
             PROVE  \/ disk'[t].status = registry'[t].status
                    \/ /\ disk'[t].status = disk[t].status
                       /\ registry'[t].status = registry[t].status
                       /\ t \in old => t \in old'
                       /\ t \in unsaved => t \in unsaved'
                    \/ t \in old' \cup unsaved'
  BY <1>1 DEF FileStep, FileStepOf
<1>2. CASE disk' = registry'
  BY <1>2
<1>3. CASE unsaved' = unsaved \cup S /\ UNCHANGED disk
  BY <1>3
<1>4. CASE unsaved' = Registered' /\ disk' = Unreadable
  BY <1>4, UnreadableIsFile DEF Registered
<1> QED BY <1>2, <1>3, <1>4 DEF Persisted

(* Neither the registry nor the file is touched.                               *)
LEMMA UntouchedStep ==
    ASSUME IInv, UNCHANGED <<registry, disk, unsaved, old>>,
           \A t \in old : timers'[t] = timers[t]
    PROVE  FileStep
BY DEF FileStep, FileStepOf, IInv, RegInv

LEMMA UpdateWrites ==
    ASSUME IInv, NEW s, NEW status, NEW tm \in Timers,
           \A t \in old \ {s} : tm[t] = timers[t],
           UpdateSessionStatus(s, status, tm)
    PROVE  FileStep
<1>1. s \in Ids /\ Persisted({s}) /\ old' = old \ {s}
  BY DEF UpdateSessionStatus, Registered
<1>2. \A t \in Ids \ {s} : timers'[t] = tm[t]
  BY <1>1, DelayAdded DEF UpdateSessionStatus
<1>3. \A t \in old' : timers'[t] = timers[t]
  BY <1>1, <1>2 DEF IInv, RegInv
<1>4. \A t \in Ids \ {s} : registry'[t] = registry[t]
  BY DEF UpdateSessionStatus, IInv, RegInv
<1> QED BY <1>1, <1>3, <1>4, WrittenStep

LEMMA TellWrites ==
    ASSUME IInv, NEW s, NEW status, NEW tm \in Timers,
           \A t \in old : tm[t] = timers[t],
           TellRegistry(s, status, tm)
    PROVE  FileStep
<1>1. CASE UpdateSessionStatus(s, status, tm)
  BY <1>1, UpdateWrites
<1>2. CASE timers' = tm /\ UNCHANGED <<registry, disk, unsaved, old>>
  BY <1>2, UntouchedStep
<1> QED BY <1>1, <1>2 DEF TellRegistry

LEMMA CreateWrites ==
    ASSUME IInv, NEW s \in Ids, NEW made, NEW tm \in Timers,
           \A t \in old : tm[t] = timers[t],
           CreateSessionInternal(s, made, tm)
    PROVE  FileStep
<1>1. CASE RegisterSession(s, tm)
  <2>1. /\ \A t \in Ids \ {s} : registry'[t] = registry[t]
        /\ \A t \in old' : timers'[t] = timers[t]
        /\ old' = old \ {s} /\ Persisted({s})
    BY <1>1 DEF RegisterSession, IInv, RegInv
  <2> QED BY <2>1, WrittenStep
<1>2. CASE TellRegistry(s, "failed", tm)
  BY <1>2, TellWrites
<1> QED BY <1>1, <1>2 DEF CreateSessionInternal

(* A timer that runs is not one of an untouched entry.                         *)
LEMMA TimedIsTouched ==
    ASSUME FileInv, NEW s \in Ids, timers[s].delay > 0 \/ timers[s].check > 0
    PROVE  s \notin old
BY DEF FileInv, OldIsUntimed, NoTimers

LEMMA TimersAreTyped == IInv => timers \in Timers
BY DEF IInv, RegInv

LEMMA EveryFileStep ==
    ASSUME IInv, FileInv, [Next]_vars
    PROVE  FileStep
<1>0. timers \in Timers
  BY TimersAreTyped
<1>1. ASSUME NEW s \in Ids, Creation(s)
      PROVE  FileStep
  <2>1. CASE CreateSession(s) \/ ExecuteCommand(s) \/ RetryStarts(s)
    BY <1>0, <2>1, CreateWrites DEF CreateSession, ExecuteCommand, RetryStarts
  <2>2. CASE Connected(s) \/ ConnectFails(s) \/ GiveUp(s)
    BY <1>0, <2>2, TellWrites, UntouchedStep DEF Connected, ConnectFails, GiveUp
  <2>3. CASE Retry(s) \/ OneShotEnds(s) \/ OneShotInputFails(s)
    BY <2>3, UntouchedStep DEF Retry, OneShotEnds, OneShotInputFails
  <2> QED BY <1>1, <2>1, <2>2, <2>3 DEF Creation
<1>2. ASSUME NEW s \in Ids, Life(s)
      PROVE  FileStep
  <2>1. CASE ProcessEnds(s) \/ StopSession(s) \/ ResourceMonitor(s)
    BY <2>1, UntouchedStep DEF ProcessEnds, StopSession, ResourceMonitor
  <2>2. CASE PauseSession(s) \/ ResumeSession(s) \/ HealthCheck(s)
    BY <1>0, <2>2, UpdateWrites DEF PauseSession, ResumeSession, HealthCheck
  <2>3. CASE UnregisterSession(s)
    <3>1. /\ \A t \in Ids \ {s} : registry'[t] = registry[t]
          /\ \A t \in old' : timers'[t] = timers[t]
          /\ old' = old \ {s} /\ Persisted({s})
      BY <2>3 DEF UnregisterSession, IInv, RegInv
    <3> QED BY <3>1, WrittenStep
  <2> QED BY <1>2, <2>1, <2>2, <2>3 DEF Life
<1>3. ASSUME NEW s \in Ids, RecoveryAttempt(s)
      PROVE  FileStep
  <2>1. AttemptDue(s) /\ s \notin old
    BY <1>3, TimedIsTouched
       DEF RecoveryAttempt, RecoveryRefused, RecoveryIgnored, RecoverLocalSession, AttemptDue
  <2>2. AttemptMade(s) \in Timers
    BY <1>0, <2>1, AttemptKeepsTimers
  <2>3. \A t \in old : AttemptMade(s)[t] = timers[t]
    BY <1>0, <2>1 DEF AttemptMade, Timers, IInv, RegInv
  <2>4. CASE RecoveryRefused(s)
    BY <2>2, <2>3, <2>4, TellWrites DEF RecoveryRefused
  <2>5. CASE RecoveryIgnored(s)
    BY <2>3, <2>5, UntouchedStep DEF RecoveryIgnored
  <2>6. ASSUME NEW n \in Ids, RecoverLocalSession(s, n)
        PROVE  FileStep
    BY <2>2, <2>3, <2>6, CreateWrites DEF RecoverLocalSession
  <2> QED BY <1>3, <2>4, <2>5, <2>6 DEF RecoveryAttempt
<1>4. ASSUME NEW s \in Ids, RecoveryCheck(s)
      PROVE  FileStep
  <2>1. timers[s].check > 0 /\ s \notin old
    BY <1>4, TimedIsTouched DEF RecoveryCheck, StillRecovering, HasRecovered, RecoveryOver
  <2>2. CheckDone(s) \in Timers /\ \A t \in Ids \ {s} : CheckDone(s)[t] = timers[t]
    BY <1>0, <2>1, CheckKeepsTimers
  <2>3. \A t \in old : CheckDone(s)[t] = timers[t]
    BY <2>1, <2>2 DEF IInv, RegInv
  <2>4. registry[s] \in Entry /\ \A t \in Ids : registry[t] \in Entry
    BY DEF IInv, RegInv
  <2>5. CASE StillRecovering(s)
    <3>1. CASE UpdateSessionStatus(s, "failed", CheckDone(s))
      BY <2>2, <2>3, <3>1, UpdateWrites
    <3>2. CASE /\ ~ (registry[s].attempts >= MaxRecoveryAttempts)
               /\ registry' = [registry EXCEPT ![s] = Failed(@)]
               /\ timers' = [CheckDone(s) EXCEPT ![s].delay = @ + 1]
               /\ old' = old \ {s} /\ UNCHANGED <<disk, unsaved>>
      <4>1. Failed(registry[s]).status = "recovering"
        BY <2>4, <3>2, SessionsAssumption DEF Failed, Entry
      <4>2. \A t \in Ids : registry'[t].status = registry[t].status
        BY <2>5, <3>2, <4>1 DEF StillRecovering, IInv, RegInv
      <4>3. \A t \in Ids \ {s} : timers'[t] = timers[t]
        BY <2>2, <3>2, DelayAdded
      <4> QED BY <2>1, <3>2, <4>2, <4>3 DEF FileStep, FileStepOf, IInv, RegInv
    <3> QED BY <2>5, <3>1, <3>2 DEF StillRecovering
  <2>6. CASE HasRecovered(s)
    <3>1. \A t \in Ids : registry'[t].status = registry[t].status
      BY <2>4, <2>6 DEF HasRecovered, IInv, RegInv, Entry
    <3>2. timers' = CheckDone(s) /\ UNCHANGED <<disk, unsaved, old>>
      BY <2>6 DEF HasRecovered
    <3> QED BY <2>3, <3>1, <3>2 DEF FileStep, FileStepOf, IInv, RegInv
  <2>7. CASE RecoveryOver(s)
    BY <2>3, <2>7, UntouchedStep DEF RecoveryOver
  <2> QED BY <1>4, <2>5, <2>6, <2>7 DEF RecoveryCheck
<1>5. CASE PersistSessions
  <2>1. /\ Persisted({}) /\ old' = old \ {}
        /\ UNCHANGED <<registry, timers>>
    BY <1>5 DEF PersistSessions
  <2> QED BY <2>1, WrittenStep
<1>6. CASE Restart
  <2>1. PICK kept \in SUBSET {s \in Ids : disk[s].status # "absent"} :
            registry' = [s \in Ids |->
                 IF s \notin kept THEN Absent
                 ELSE IF disk[s].status = "running"
                 THEN [status |-> "recovering", attempts |-> 0]
                 ELSE disk[s]]
    BY <1>6 DEF Restart
  <2>2. /\ old' = {s \in Ids : disk[s].status # "absent"} /\ disk' = disk
        /\ timers' = [s \in Ids |-> NoTimers]
    BY <1>6 DEF Restart
  <2>3. \A t \in Ids \ old' : registry'[t].status = disk'[t].status
    BY <2>1, <2>2 DEF Absent
  <2> QED BY <2>2, <2>3 DEF FileStep, FileStepOf
<1>7. CASE UNCHANGED vars
  BY <1>7, UntouchedStep DEF vars
<1> QED BY <1>1, <1>2, <1>3, <1>4, <1>5, <1>6, <1>7 DEF Next

(* What the file and the untouched entries obey survives every operation, with *)
(* its write done, failed or cut short, every timer and every restart.         *)
THEOREM FileInvariant == Spec => []FileInv
<1>1. Init => FileInv
  BY DEF Init, FileInv, FileIsCurrent, OldIsUntimed
<1>2. IInv /\ FileInv /\ [Next]_vars => FileInv'
  BY EveryFileStep, FileStepKeepsFileInv
<1> QED BY InductiveInvariant, <1>1, <1>2, PTL DEF Spec

(* The file holds the status that the registry has of each session touched     *)
(* since the last start, except where the last write of that session failed,   *)
(* although the recovery checks change entries without writing them            *)
(* (persistSessions).                                                          *)
THEOREM FileStaysCurrent == Spec => []FileIsCurrent
<1>1. FileInv => FileIsCurrent
  BY DEF FileInv
<1> QED BY FileInvariant, <1>1, PTL

(* Only Restart counts a restart.                                              *)
LEMMA OnlyRestart ==
    ASSUME [Next]_vars, restarts' # restarts
    PROVE  Restart
<1>1. ASSUME NEW s \in Ids, Creation(s) PROVE FALSE
  BY <1>1 DEF Creation, CreateSession, ExecuteCommand, Connected, ConnectFails, Retry,
     RetryStarts, GiveUp, OneShotEnds, OneShotInputFails
<1>2. ASSUME NEW s \in Ids, Life(s) PROVE FALSE
  BY <1>2 DEF Life, ProcessEnds, StopSession, ResourceMonitor, PauseSession, ResumeSession,
     HealthCheck, UnregisterSession
<1>3. ASSUME NEW s \in Ids, RecoveryAttempt(s) PROVE FALSE
  BY <1>3 DEF RecoveryAttempt, RecoveryRefused, RecoveryIgnored, RecoverLocalSession
<1>4. ASSUME NEW s \in Ids, RecoveryCheck(s) PROVE FALSE
  BY <1>4 DEF RecoveryCheck, StillRecovering, HasRecovered, RecoveryOver
<1>5. ~ PersistSessions /\ ~ UNCHANGED vars
  BY DEF PersistSessions, vars
<1> QED BY <1>1, <1>2, <1>3, <1>4, <1>5 DEF Next

(* Whatever moment the program ends at, a restart forgets a session or brings  *)
(* it back with the status it had, a running one as recovering, unless its     *)
(* last write failed or never happened (loadSessions).                         *)
THEOREM RestartsRestore == Spec => RestartRestores
<1> DEFINE Restored == restarts' # restarts =>
         \A s \in Ids \ (old \cup unsaved) :
             \/ registry'[s].status \in {"absent", registry[s].status}
             \/ registry[s].status = "running" /\ registry'[s].status = "recovering"
<1>1. FileInv /\ [Next]_vars => Restored
  <2> SUFFICES ASSUME FileInv, [Next]_vars, restarts' # restarts,
                      NEW s \in Ids \ (old \cup unsaved)
               PROVE  \/ registry'[s].status \in {"absent", registry[s].status}
                      \/ registry[s].status = "running" /\ registry'[s].status = "recovering"
    OBVIOUS
  <2>1. Restart
    BY OnlyRestart
  <2>2. disk[s].status = registry[s].status
    BY DEF FileInv, FileIsCurrent
  <2>3. PICK kept \in SUBSET {t \in Ids : disk[t].status # "absent"} :
            registry' = [t \in Ids |->
                 IF t \notin kept THEN Absent
                 ELSE IF disk[t].status = "running"
                 THEN [status |-> "recovering", attempts |-> 0]
                 ELSE disk[t]]
    BY <2>1 DEF Restart
  <2> QED BY <2>2, <2>3 DEF Absent
<1> QED BY FileInvariant, <1>1, PTL DEF Spec, RestartRestores
=============================================================================
