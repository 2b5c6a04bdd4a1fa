--------------------------- MODULE ConnectionPool ---------------------------
(* The SSH connection pool (src/core/ConnectionPool.ts) for one host key:      *)
(* connections of different keys share nothing but the timers. Callers get a   *)
(* connection, which may be a pooled one or have to be dialled first, and      *)
(* release it; clients close when they like; the pool reconnects, checks,      *)
(* cleans up and shuts down. getExistingConnection awaits nothing, so all of   *)
(* getConnection up to the connect is one action. Names that WorkerPool has    *)
(* too begin with CP here, for Pools_proofs, which extends both.               *)
EXTENDS Naturals, FiniteSets

CONSTANTS Callers,               \* whoever calls getConnection
          Conns,                 \* connection ids
          MaxConnectionsPerHost,
          MaxReconnectAttempts,
          CircuitBreakerThreshold,
          SuccessesToClose       \* healthy checks that close a half-open breaker: 3

ASSUME PoolAssumption ==
    /\ IsFiniteSet(Callers) /\ IsFiniteSet(Conns)
    /\ {MaxConnectionsPerHost, MaxReconnectAttempts, CircuitBreakerThreshold,
        SuccessesToClose} \subseteq Nat \ {0}

VARIABLES
    tracked,    \* ids in `connections` and in the set of the host
    sessions,   \* activeSessionCount
    healthy,    \* ids with isHealthy
    attempts,   \* reconnectAttempts
    client,     \* the present SSH client of a connection
    pending,    \* its reconnection: "none", "delay" (timer set) or "dialing"
    test,       \* its health check: "none", or whether the client it tests has lived on
    breaker,    \* the breaker of the host
    call,       \* per caller: what it is doing, and with which connection
    down        \* shutdown was called

cpVars == <<tracked, sessions, healthy, attempts, client, pending, test, breaker, call, down>>

Idle == [pc |-> "idle"]
Connecting(c) == [pc |-> "connecting", on |-> c]
Using(c) == [pc |-> "using", on |-> c]

Users(c) == {k \in Callers : call[k] = Using(c)}

CPInit ==
    /\ tracked = {} /\ healthy = {}
    /\ sessions = [c \in Conns |-> 0]
    /\ attempts = [c \in Conns |-> 0]
    /\ client = [c \in Conns |-> "none"]
    /\ pending = [c \in Conns |-> "none"]
    /\ test = [c \in Conns |-> "none"]
    /\ breaker = [state |-> "closed", failures |-> 0, successes |-> 0, due |-> FALSE]
    /\ call = [k \in Callers |-> Idle]
    /\ down = FALSE

(* --------------------------------------------------------------------------*)
(* The breaker.                                                               *)

OpenBreaker(n) == [state |-> "open", failures |-> n, successes |-> 0, due |-> FALSE]

(* The count is compared with nothing beyond the threshold. *)
RecordFailure(b) ==
    LET n == IF b.failures < CircuitBreakerThreshold THEN b.failures + 1 ELSE b.failures
    IN  CASE b.state = "closed" /\ n >= CircuitBreakerThreshold -> OpenBreaker(n)
          [] b.state = "half-open" -> OpenBreaker(n)
          [] OTHER -> [b EXCEPT !.failures = n]

(* A healthy check. A connect that succeeds does not reach the breaker. *)
RecordHealthy(b) ==
    CASE b.state = "half-open" ->
            IF b.successes + 1 >= SuccessesToClose
            THEN [state |-> "closed", failures |-> 0, successes |-> 0, due |-> FALSE]
            ELSE [b EXCEPT !.successes = @ + 1]
      [] b.state = "closed" /\ b.failures > 0 -> [b EXCEPT !.failures = @ - 1]
      [] OTHER -> b

Admits == breaker.state = "open" => breaker.due
CheckedBreaker ==
    IF breaker.state = "open"
    THEN [breaker EXCEPT !.state = "half-open", !.successes = 0, !.due = FALSE]
    ELSE breaker

(* The window of an open breaker is over. *)
WindowEnds ==
    /\ breaker.state = "open" /\ ~breaker.due
    /\ breaker' = [breaker EXCEPT !.due = TRUE]
    /\ UNCHANGED <<tracked, sessions, healthy, attempts, client, pending, test, call, down>>

(* --------------------------------------------------------------------------*)
(* Callers. After shutdown nobody calls getConnection; a call may be under way.*)

(* An id stands for a new connection once nothing is left of the old one. *)
Fresh(c) ==
    /\ c \notin tracked /\ client[c] \in {"none", "closed"}
    /\ pending[c] = "none" /\ test[c] = "none"
    /\ \A k \in Callers : call[k] \notin {Connecting(c), Using(c)}

Asks(k) == call[k] = Idle /\ ~down /\ Admits

(* Mutant: a reused connection counts no further session. *)
ReuseUncounted(k, c) ==
    /\ Asks(k) /\ c \in tracked \cap healthy
    /\ call' = [call EXCEPT ![k] = Using(c)]
    /\ breaker' = CheckedBreaker
    /\ UNCHANGED <<tracked, sessions, healthy, attempts, client, pending, test, down>>

(* Whichever strategy is configured, a healthy connection is chosen if any is. *)
Reuse(k, c) ==
    /\ Asks(k) /\ c \in tracked \cap healthy
    /\ sessions' = [sessions EXCEPT ![c] = @ + 1]
    /\ call' = [call EXCEPT ![k] = Using(c)]
    /\ breaker' = CheckedBreaker
    /\ UNCHANGED <<tracked, healthy, attempts, client, pending, test, down>>

HostFull == Cardinality(tracked) >= MaxConnectionsPerHost

(* No healthy connection and no room: the call throws, and may have half-opened *)
(* the breaker before.                                                          *)
RefusedFull(k) ==
    /\ Asks(k) /\ tracked \cap healthy = {} /\ HostFull
    /\ breaker' = CheckedBreaker
    /\ UNCHANGED <<tracked, sessions, healthy, attempts, client, pending, test, call, down>>

(* createConnection up to the await of connectSSH: the pool does not have the *)
(* connection yet.                                                             *)
Create(k, c) ==
    /\ Asks(k) /\ tracked \cap healthy = {} /\ ~HostFull /\ Fresh(c)
    /\ call' = [call EXCEPT ![k] = Connecting(c)]
    /\ client' = [client EXCEPT ![c] = "dialing"]
    /\ sessions' = [sessions EXCEPT ![c] = 1]
    /\ attempts' = [attempts EXCEPT ![c] = 0]
    /\ healthy' = healthy \ {c}
    /\ breaker' = CheckedBreaker
    /\ UNCHANGED <<tracked, pending, test, down>>

(* 'ready': the connection enters the pool, whatever came in between. *)
ConnectReady(k, c) ==
    /\ call[k] = Connecting(c)
    /\ tracked' = tracked \cup {c} /\ healthy' = healthy \cup {c}
    /\ client' = [client EXCEPT ![c] = "open"]
    /\ call' = [call EXCEPT ![k] = Using(c)]
    /\ UNCHANGED <<sessions, attempts, pending, test, breaker, down>>

(* 'error', or the timeout that destroys the client. *)
ConnectFails(k, c) ==
    /\ call[k] = Connecting(c)
    /\ client' = [client EXCEPT ![c] = "closed"]
    /\ call' = [call EXCEPT ![k] = Idle]
    /\ breaker' = RecordFailure(breaker)
    /\ UNCHANGED <<tracked, sessions, healthy, attempts, pending, test, down>>

(* releaseConnection: of a connection the pool has dropped, it is ignored. *)
Release(k, c) ==
    /\ call[k] = Using(c)
    /\ call' = [call EXCEPT ![k] = Idle]
    /\ sessions' = IF c \in tracked /\ sessions[c] > 0
                   THEN [sessions EXCEPT ![c] = @ - 1] ELSE sessions
    /\ UNCHANGED <<tracked, healthy, attempts, client, pending, test, breaker, down>>

(* --------------------------------------------------------------------------*)
(* Clients and reconnection.                                                  *)

(* The 'error' handler; 'end' does the same. *)
ClientError(c) ==
    /\ client[c] \in {"open", "ending"} /\ c \in healthy
    /\ healthy' = healthy \ {c}
    /\ UNCHANGED <<tracked, sessions, attempts, client, pending, test, breaker, call, down>>

Loses(c) ==
    /\ client' = [client EXCEPT ![c] = "closed"]
    /\ test' = [test EXCEPT ![c] = IF @ = "none" THEN @ ELSE "lost"]
    /\ IF sessions[c] > 0 /\ attempts[c] < MaxReconnectAttempts
       THEN /\ attempts' = [attempts EXCEPT ![c] = @ + 1]
            /\ pending' = [pending EXCEPT ![c] = "delay"]
       ELSE UNCHANGED <<attempts, pending>>
    /\ UNCHANGED <<tracked, sessions, breaker, call, down>>

(* Mutant: a closed connection is still taken for a healthy one. *)
ClientCloseUnmarked(c) ==
    /\ client[c] \in {"open", "ending"}
    /\ Loses(c) /\ UNCHANGED healthy

(* The 'close' handler: it reconnects for the sessions it counts, whether the *)
(* pool still has the connection or not.                                       *)
ClientClose(c) ==
    /\ client[c] \in {"open", "ending"}
    /\ Loses(c) /\ healthy' = healthy \ {c}

ReconnectTimer(c) ==
    /\ pending[c] = "delay"
    /\ pending' = [pending EXCEPT ![c] = "dialing"]
    /\ UNCHANGED <<tracked, sessions, healthy, attempts, client, test, breaker, call, down>>

(* Mutant: a connection that came back keeps the count of its attempts. *)
ReconnectReadyKeepsCount(c) ==
    /\ pending[c] = "dialing"
    /\ pending' = [pending EXCEPT ![c] = "none"]
    /\ client' = [client EXCEPT ![c] = "open"]
    /\ healthy' = healthy \cup {c}
    /\ UNCHANGED <<tracked, sessions, attempts, test, breaker, call, down>>

ReconnectReady(c) ==
    /\ pending[c] = "dialing"
    /\ pending' = [pending EXCEPT ![c] = "none"]
    /\ client' = [client EXCEPT ![c] = "open"]
    /\ healthy' = healthy \cup {c}
    /\ attempts' = [attempts EXCEPT ![c] = 0]
    /\ UNCHANGED <<tracked, sessions, test, breaker, call, down>>

(* closeConnection of the connections in S: `end` on their clients, which close *)
(* later.                                                                       *)
CloseConnections(S) ==
    /\ tracked' = tracked \ S
    /\ client' = [c \in Conns |-> IF c \in S /\ client[c] = "open" THEN "ending" ELSE client[c]]

(* The next attempt, or after the last one the end of the connection. *)
ReconnectFails(c) ==
    /\ pending[c] = "dialing"
    /\ IF attempts[c] < MaxReconnectAttempts
       THEN /\ attempts' = [attempts EXCEPT ![c] = @ + 1]
            /\ pending' = [pending EXCEPT ![c] = "delay"]
            /\ UNCHANGED <<tracked, client>>
       ELSE /\ pending' = [pending EXCEPT ![c] = "none"]
            /\ CloseConnections({c} \cap tracked)
            /\ UNCHANGED attempts
    /\ UNCHANGED <<sessions, healthy, test, breaker, call, down>>

(* --------------------------------------------------------------------------*)
(* Timers of the pool.                                                        *)

(* performHealthChecks opens a shell on every client; an interval is longer   *)
(* than a test.                                                                *)
HealthChecksStart ==
    /\ ~down /\ tracked # {} /\ \A c \in Conns : test[c] = "none"
    /\ test' = [c \in Conns |-> IF c \notin tracked THEN "none"
                                ELSE IF client[c] = "open" THEN "alive" ELSE "lost"]
    /\ UNCHANGED <<tracked, sessions, healthy, attempts, client, pending, breaker, call, down>>

(* The test opens a shell: on a client that has closed it fails ("critical"    *)
(* does what "unhealthy" does), and on a live one it may be slow, or too slow. *)
(* A connection with reconnections behind it gets a warning at best.           *)
Statuses == {"healthy", "warning", "unhealthy"}
Outcomes(c) ==
    {status \in Statuses : /\ test[c] # "alive" => status = "unhealthy"
                           /\ attempts[c] > 0 => status # "healthy"}

(* A result counts for a connection that has been dropped or reconnected       *)
(* meanwhile, too. A warning leaves it healthy and counts against the breaker.  *)
HealthCheckEnds(c, status) ==
    /\ test[c] # "none" /\ status \in Outcomes(c)
    /\ test' = [test EXCEPT ![c] = "none"]
    /\ healthy' = IF status = "unhealthy" THEN healthy \ {c} ELSE healthy \cup {c}
    /\ breaker' = IF status = "healthy" THEN RecordHealthy(breaker) ELSE RecordFailure(breaker)
    /\ UNCHANGED <<tracked, sessions, attempts, client, pending, call, down>>

(* cleanupIdleConnections: those without sessions and unused for long enough. *)
CleanupIdleConnections(S) ==
    /\ ~down /\ S # {} /\ \A c \in S : c \in tracked /\ sessions[c] = 0
    /\ CloseConnections(S)
    /\ UNCHANGED <<sessions, healthy, attempts, pending, test, breaker, call, down>>

(* The intervals are cleared; reconnections, dials and tests under way are not. *)
CPShutdown ==
    /\ ~down /\ down' = TRUE
    /\ CloseConnections(tracked)
    /\ UNCHANGED <<sessions, healthy, attempts, pending, test, breaker, call>>

(* --------------------------------------------------------------------------*)
Caller(k) ==
    \/ RefusedFull(k)
    \/ \E c \in Conns : Reuse(k, c) \/ Create(k, c) \/ ConnectReady(k, c)
                        \/ ConnectFails(k, c) \/ Release(k, c)
Connection(c) ==
    \/ ClientError(c) \/ ClientClose(c)
    \/ ReconnectTimer(c) \/ ReconnectReady(c) \/ ReconnectFails(c)
    \/ \E status \in Statuses : HealthCheckEnds(c, status)

CPNext ==
    \/ \E k \in Callers : Caller(k)
    \/ \E c \in Conns : Connection(c)
    \/ \E S \in SUBSET tracked : CleanupIdleConnections(S)
    \/ HealthChecksStart \/ WindowEnds \/ CPShutdown

CPSpec == CPInit /\ [][CPNext]_cpVars

(* Timers fire, and a connect has a time limit. Nothing is assumed of callers, *)
(* nor that a client closes or a dial succeeds.                                 *)
CPFairness ==
    /\ \A c \in Conns : WF_cpVars(ReconnectTimer(c)) /\ WF_cpVars(ReconnectReady(c) \/ ReconnectFails(c))
    /\ \A k \in Callers : WF_cpVars(\E c \in Conns : ConnectReady(k, c) \/ ConnectFails(k, c))
CPFairSpec == CPSpec /\ CPFairness

(* --------------------------------------------------------------------------*)
(* Properties.                                                                *)

Breakers ==
    [state : {"closed", "open", "half-open"}, failures : 0..CircuitBreakerThreshold,
     successes : 0..(SuccessesToClose - 1), due : BOOLEAN]

(* Every variable has its type. *)
CPTypeOK ==
    /\ tracked \subseteq Conns /\ healthy \subseteq Conns /\ down \in BOOLEAN
    /\ sessions \in [Conns -> 0..Cardinality(Callers)]
    /\ attempts \in [Conns -> 0..MaxReconnectAttempts]
    /\ client \in [Conns -> {"none", "dialing", "open", "ending", "closed"}]
    /\ pending \in [Conns -> {"none", "delay", "dialing"}]
    /\ test \in [Conns -> {"none", "alive", "lost"}]
    /\ breaker \in Breakers
    /\ call \in [Callers -> {Idle} \cup {Connecting(c) : c \in Conns} \cup {Using(c) : c \in Conns}]

(* getConnection hands out no connection whose client has closed, although    *)
(* health checks write isHealthy long after they looked at the client.         *)
HealthyIsAlive == \A c \in tracked \cap healthy : client[c] = "open"

(* A connection in use leaves the pool only when its reconnections are used   *)
(* up or the pool is shut down: the session counts on which the idle cleanup   *)
(* relies stay right through reuse, late releases and reconnections.           *)
UsedIsKept ==
    [][\A c \in tracked \ tracked' :
          Users(c) = {} \/ down' \/ attempts[c] = MaxReconnectAttempts]_cpVars

(* A connection that closed under its sessions comes back or is given up. *)
BrokenIsSettled ==
    \A c \in Conns : (c \in tracked /\ client[c] = "closed" /\ sessions[c] > 0)
                     ~> (client[c] # "closed" \/ c \notin tracked \/ sessions[c] = 0)

(* "Check if we can create a new connection" (line 146). Violated: the limit is *)
(* tested before the await of the connect.                                      *)
HostBound == Cardinality(tracked) <= MaxConnectionsPerHost

(* "Close all connections" (line 344). Violated: the 'close' event of a        *)
(* connection with sessions starts a reconnection, and a dial under way enters *)
(* the pool, after the shutdown.                                                *)
ShutdownIsFinal ==
    [][down => \A c \in Conns : client'[c] = "open" => client[c] = "open"]_cpVars
=============================================================================
