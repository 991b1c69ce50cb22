------------------------------- MODULE DbClient -------------------------------
(***************************************************************************)
(* The database client (internal/database/client.go) with its circuit      *)
(* breaker and health loop (failover.go).                                  *)
(*                                                                         *)
(* The breaker is four atomics; every load, store and compare-and-swap of  *)
(* Allow, RecordSuccess and RecordFailure is a step of its own.  Time is   *)
(* kept as `cooled`, whether breakerCooldown has passed since openedAt.    *)
(* The primary is up or down, a replica may fail at any time; pools are     *)
(* counters of connections in use.                                         *)
(***************************************************************************)
EXTENDS Naturals, FiniteSets

CONSTANTS Callers,   \* goroutines that use the client
          Health,    \* the goroutine of healthLoop
          Replicas,  \* number of read replicas, len(ReplicaDSNs)
          Kinds,     \* the calls the callers make
          Threshold, \* breakerFailureThreshold (3)
          MaxConnsPerPool, MinConnsPerPool, MaxTotalConns   \* Config

AllKinds == {"exec", "tx", "read", "metadata", "analytical"}

ASSUME ClientAssumption == /\ Health \notin Callers
                           /\ Kinds \subseteq AllKinds
                           /\ Replicas \in Nat
                           /\ Threshold \in Nat \ {0}
                           /\ MinConnsPerPool \in Nat \ {0}
                           /\ MaxConnsPerPool \in Nat \ {0}
                           /\ MaxTotalConns \in Nat

VARIABLES state,    \* CircuitBreaker.state
          failures, \* CircuitBreaker.failures, up to Threshold
          cooled,   \* now - openedAt >= breakerCooldown
          probing,  \* CircuitBreaker.probing
          up,       \* the primary answers
          readRR,   \* DatabaseClient.readRR, modulo the number of replicas
          inUse,    \* inUse[p]: connections of pool p given out
          call      \* call[c]: the call goroutine c is in

breakerVars == <<state, failures, cooled, probing>>
clientVars == <<state, failures, cooled, probing, up, readRR, inUse, call>>

Procs == Callers \cup {Health}

\* NewDatabaseClient: the write and the metadata pool on the primary, one
\* pool per replica, the analytical pool on the first replica or, without
\* replicas, on the primary.
WritePool == 0
MetadataPool == Replicas + 1
AnalyticalPool == Replicas + 2
NoPool == Replicas + 3
Pools == 0 .. AnalyticalPool

\* newPool: a pool's share of the connection budget, unless the share is
\* smaller than MinConns.
MaxConns == LET budget == MaxTotalConns \div 4
            IN  IF MaxConnsPerPool > budget /\ budget >= MinConnsPerPool
                THEN budget ELSE MaxConnsPerPool

\* The pools on the primary: the write pool, the metadata pool, and without
\* replicas the analytical pool.
OnPrimary(p) == \/ p \in {WritePool, MetadataPool}
                \/ p = AnalyticalPool /\ Replicas = 0

\* Whether the host of call c's pool can answer.  A replica may answer or fail
\* at any time.
Answers(c) == OnPrimary(call[c].pool) => up

\* held: the pool whose connection the call has; retried: the reroute is used.
Call == [pc: {"idle", "load", "cooldown", "elect", "half", "acquire", "run",
              "open", "closing", "clear", "unprobe", "close",
              "count", "trip", "stamp"},
         kind: AllKinds \cup {"ping"},
         pool: Pools, held: Pools \cup {NoPool}, retried: BOOLEAN]

NoCall == [pc |-> "idle", kind |-> "ping", pool |-> WritePool,
           held |-> NoPool, retried |-> FALSE]

ClientInit ==
    /\ state = "closed"
    /\ failures = 0
    /\ cooled = TRUE
    /\ probing = FALSE
    /\ up = TRUE
    /\ readRR = 0
    /\ inUse = [p \in Pools |-> 0]
    /\ call = [c \in Procs |-> NoCall]

ClientTypeOK ==
    /\ state \in {"closed", "open", "half"}
    /\ failures \in 0 .. Threshold
    /\ cooled \in BOOLEAN
    /\ probing \in BOOLEAN
    /\ up \in BOOLEAN
    /\ readRR \in 0 .. Replicas
    /\ inUse \in [Pools -> 0 .. MaxConns]
    /\ call \in [Procs -> Call]

Goto(c, pc) == call' = [call EXCEPT ![c].pc = pc]

\* The call returns; an error and a result are not told apart.
Done(c) == call' = [call EXCEPT ![c] = NoCall]

-----------------------------------------------------------------------------
(* Routing *)

NextReplica == (readRR % Replicas) + 1

\* pickPool: reads go to the next replica, or to the write pool when there is
\* none; the other classes have a pool of their own.
PoolOf(k) == CASE k = "read" /\ Replicas > 0 -> NextReplica
               [] k = "metadata" -> MetadataPool
               [] k = "analytical" -> AnalyticalPool
               [] OTHER -> WritePool

\* acquire: what goes to the write pool passes the breaker.  Any other class
\* is an error before a pool is asked, and changes nothing.
Route(c, k) ==
    /\ c \in Callers
    /\ call[c].pc = "idle"
    /\ call' = [call EXCEPT ![c] = [NoCall EXCEPT
                   !.pc = IF PoolOf(k) = WritePool THEN "load" ELSE "acquire",
                   !.kind = k, !.pool = PoolOf(k)]]
    /\ readRR' = IF k = "read" /\ Replicas > 0 THEN (readRR + 1) % Replicas ELSE readRR
    /\ UNCHANGED <<breakerVars, up, inUse>>

-----------------------------------------------------------------------------
(* CircuitBreaker.Allow *)

\* Faulty variant: in the half-open state every caller proceeds.
LoadStateOpenDoor(c) ==
    /\ call[c].pc = "load"
    /\ Goto(c, IF state = "open" THEN "cooldown" ELSE "acquire")
    /\ UNCHANGED <<breakerVars, up, readRR, inUse>>

\* Refused: ErrPrimaryUnavailable, which no one records.
LoadState(c) ==
    /\ call[c].pc = "load"
    /\ CASE state = "closed" -> Goto(c, "acquire")
         [] state = "open"   -> Goto(c, "cooldown")
         [] state = "half"   -> Done(c)
    /\ UNCHANGED <<breakerVars, up, readRR, inUse>>

CheckCooldown(c) ==
    /\ call[c].pc = "cooldown"
    /\ IF cooled THEN Goto(c, "elect") ELSE Done(c)
    /\ UNCHANGED <<breakerVars, up, readRR, inUse>>

\* probing.CompareAndSwap(false, true).
Elect(c) ==
    /\ call[c].pc = "elect"
    /\ IF probing THEN Done(c) ELSE Goto(c, "half")
    /\ probing' = TRUE
    /\ UNCHANGED <<state, failures, cooled, up, readRR, inUse>>

EnterHalfOpen(c) ==
    /\ call[c].pc = "half"
    /\ state' = "half"
    /\ Goto(c, "acquire")
    /\ UNCHANGED <<failures, cooled, probing, up, readRR, inUse>>

-----------------------------------------------------------------------------
(* Pools *)

\* What a transport error of call c leads to: a write and a ping count it, and
\* so does a read on its first replica, which is then rerouted; a transaction
\* whose connection was never obtained, and everything else, just returns.
Fail(c) == IF \/ call[c].kind \in {"exec", "ping"}
              \/ call[c].kind = "tx" /\ call[c].pc = "run"
              \/ call[c].kind = "read" /\ Replicas > 0 /\ ~call[c].retried
           THEN "count" ELSE "idle"

\* pool.Acquire within AcquireTimeout.
Acquire(c) ==
    /\ call[c].pc = "acquire"
    /\ inUse[call[c].pool] < MaxConns
    /\ inUse' = [inUse EXCEPT ![call[c].pool] = @ + 1]
    /\ call' = [call EXCEPT ![c].pc = "run", ![c].held = call[c].pool]
    /\ UNCHANGED <<breakerVars, up, readRR>>

\* The pool is saturated, the host is gone, or the caller's context is
\* cancelled: all three are ErrPoolTimeout or a dial error.
AcquireFails(c) ==
    /\ call[c].pc = "acquire"
    /\ \/ inUse[call[c].pool] >= MaxConns
       \/ ~Answers(c)
       \/ c # Health
    /\ IF Fail(c) = "idle" THEN Done(c) ELSE Goto(c, "count")
    /\ UNCHANGED <<breakerVars, up, readRR, inUse>>

\* Faulty variant: release is not guarded by sync.Once.
ReleaseAlways(c) == [inUse EXCEPT ![call[c].pool] = @ - 1]

\* release() through sync.Once: the connection goes back the first time only.
Release(c) == IF call[c].held = NoPool THEN inUse
              ELSE [inUse EXCEPT ![call[c].held] = @ - 1]

\* How a statement ends, as isTransportErr tells errors apart: a dead host and
\* a deadline of the caller's are transport errors; a server that answers with
\* a SQL error is no evidence against its host.
Outcomes(c) == {o \in {"ok", "transport", "sql"} :
                  CASE o = "ok"        -> Answers(c)
                    [] o = "transport" -> ~Answers(c) \/ c # Health
                    [] o = "sql"       -> Answers(c) /\ c # Health}

\* Exec and Ping: the connection is released before the outcome is recorded.
Exec(c) ==
    /\ call[c].pc = "run"
    /\ call[c].kind \in {"exec", "ping"}
    /\ inUse' = Release(c)
    /\ \E o \in Outcomes(c) :
         call' = [call EXCEPT ![c] =
            CASE o = "ok"        -> [@ EXCEPT !.pc = "clear", !.held = NoPool]
              [] o = "transport" -> [@ EXCEPT !.pc = "count", !.held = NoPool]
              [] o = "sql"       -> NoCall]
    /\ UNCHANGED <<breakerVars, up, readRR>>

\* The connection is kept for the rows or the transaction, or released at
\* once on an error.
KeptOrReleased(c) ==
    /\ \E o \in Outcomes(c) :
         /\ inUse' = IF o = "ok" THEN inUse ELSE Release(c)
         /\ call' = [call EXCEPT ![c] =
               CASE o = "ok" -> [@ EXCEPT !.pc = "open"]
                 [] o = "transport" /\ Fail(c) = "count" ->
                      [@ EXCEPT !.pc = "count", !.held = NoPool]
                 [] OTHER -> NoCall]
    /\ UNCHANGED <<breakerVars, up, readRR>>

OpenRows(c) ==
    /\ call[c].pc = "run"
    /\ call[c].kind \in {"read", "metadata", "analytical"}
    /\ KeptOrReleased(c)

BeginWriteTx(c) ==
    /\ call[c].pc = "run"
    /\ call[c].kind = "tx"
    /\ KeptOrReleased(c)

\* Rows are exhausted, or the transaction commits or rolls back: done() and
\* finish() release the connection, whatever the outcome was.
Finish(c) ==
    /\ call[c].pc = "open"
    /\ inUse' = Release(c)
    /\ call' = [call EXCEPT ![c].pc = "closing", ![c].held = NoPool]
    /\ UNCHANGED <<breakerVars, up, readRR>>

\* The deferred rows.Close() or tx.Rollback() releases a second time.
DeferredClose(c) ==
    /\ call[c].pc = "closing"
    /\ inUse' = Release(c)
    /\ Done(c)
    /\ UNCHANGED <<breakerVars, up, readRR>>

-----------------------------------------------------------------------------
(* RecordSuccess and RecordFailure *)

ClearFailures(c) ==
    /\ call[c].pc = "clear"
    /\ failures' = 0
    /\ Goto(c, "unprobe")
    /\ UNCHANGED <<state, cooled, probing, up, readRR, inUse>>

ClearProbing(c) ==
    /\ call[c].pc = "unprobe"
    /\ probing' = FALSE
    /\ Goto(c, "close")
    /\ UNCHANGED <<state, failures, cooled, up, readRR, inUse>>

\* Faulty variant: only a half-open breaker is closed.
CloseHalfOpen(c) ==
    /\ call[c].pc = "close"
    /\ state' = IF state = "half" THEN "closed" ELSE state
    /\ Done(c)
    /\ UNCHANGED <<failures, cooled, probing, up, readRR, inUse>>

CloseBreaker(c) ==
    /\ call[c].pc = "close"
    /\ state' = "closed"
    /\ Done(c)
    /\ UNCHANGED <<failures, cooled, probing, up, readRR, inUse>>

\* After the breaker was fed, a read is rerouted once, to the next replica.
AfterFailure(c) ==
    IF call[c].kind = "read" /\ ~call[c].retried
    THEN [call[c] EXCEPT !.pc = "acquire", !.pool = NextReplica, !.retried = TRUE]
    ELSE NoCall

Rerouted(c) == IF call[c].kind = "read" /\ ~call[c].retried
               THEN (readRR + 1) % Replicas ELSE readRR

CountFailure(c) ==
    /\ call[c].pc = "count"
    /\ failures' = IF failures < Threshold THEN failures + 1 ELSE failures
    /\ IF failures' >= Threshold
       THEN Goto(c, "trip") /\ UNCHANGED readRR
       ELSE /\ call' = [call EXCEPT ![c] = AfterFailure(c)]
            /\ readRR' = Rerouted(c)
    /\ UNCHANGED <<state, cooled, probing, up, inUse>>

\* state.CompareAndSwap(closed, open).
Trip(c) ==
    /\ call[c].pc = "trip"
    /\ IF state = "closed"
       THEN /\ state' = "open"
            /\ Goto(c, "stamp")
            /\ UNCHANGED readRR
       ELSE /\ call' = [call EXCEPT ![c] = AfterFailure(c)]
            /\ readRR' = Rerouted(c)
            /\ UNCHANGED state
    /\ UNCHANGED <<failures, cooled, probing, up, inUse>>

\* openedAt is stored after the swap.
StampOpened(c) ==
    /\ call[c].pc = "stamp"
    /\ cooled' = FALSE
    /\ call' = [call EXCEPT ![c] = AfterFailure(c)]
    /\ readRR' = Rerouted(c)
    /\ UNCHANGED <<state, failures, probing, up, inUse>>

-----------------------------------------------------------------------------
(* Health loop, clock and hosts *)

\* The ticker fires: writePool.Ping, past the breaker.
HealthTick ==
    /\ call[Health].pc = "idle"
    /\ call' = [call EXCEPT ![Health].pc = "acquire"]
    /\ UNCHANGED <<breakerVars, up, readRR, inUse>>

\* breakerCooldown passes.
Cool ==
    /\ ~cooled
    /\ cooled' = TRUE
    /\ UNCHANGED <<state, failures, probing, up, readRR, inUse, call>>

\* The primary fails or comes back.
Flip ==
    /\ up' = ~up
    /\ UNCHANGED <<breakerVars, readRR, inUse, call>>

Step(c) ==
    \/ LoadState(c) \/ CheckCooldown(c) \/ Elect(c) \/ EnterHalfOpen(c)
    \/ Acquire(c) \/ AcquireFails(c) \/ Exec(c) \/ OpenRows(c)
    \/ BeginWriteTx(c) \/ Finish(c) \/ DeferredClose(c)
    \/ ClearFailures(c) \/ ClearProbing(c) \/ CloseBreaker(c)
    \/ CountFailure(c) \/ Trip(c) \/ StampOpened(c)

ClientNext ==
    \/ \E c \in Callers, k \in Kinds : Route(c, k)
    \/ \E c \in Procs : Step(c)
    \/ HealthTick
    \/ Cool
    \/ Flip

ClientSpec == ClientInit /\ [][ClientNext]_clientVars

\* Goroutines that have begun a call go on with it; the ticker keeps firing
\* and time passes.  Nothing is assumed of the hosts or of new calls.
ClientFairSpec ==
    /\ ClientSpec
    /\ \A c \in Procs : WF_clientVars(Step(c))
    /\ WF_clientVars(HealthTick)
    /\ WF_clientVars(Cool)

-----------------------------------------------------------------------------
(* Properties *)

\* "callers cannot strand connections": the connections a pool has given out
\* are those of the calls that still hold one, whichever way calls end and
\* however often rows and transactions are closed; none is returned twice.
ConnsAccounted ==
    \A p \in Pools : /\ inUse[p] = Cardinality({c \in Procs : call[c].held = p})
                     /\ inUse[p] <= MaxConns

\* "rather than piling onto a dying node": when the primary stays down, writes
\* stop reaching it; only the health loop keeps asking.
DyingPrimaryShed ==
    <>[]~up => <>[](\A c \in Callers : call[c].held # WritePool)

\* When the primary stays up, the breaker closes again and again, whatever
\* probes, replica failures, cancelled calls and late answers did before.
BreakerRecovers == <>[]up => []<>(state = "closed")

=============================================================================
