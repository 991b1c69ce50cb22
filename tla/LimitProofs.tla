---------------------------- MODULE LimitProofs -----------------------------
(***************************************************************************)
(* Counts that may not pass a limit, proved for any number of processes:   *)
(* the connections of the database client's pools (ConnsAccounted) and the *)
(* requests of a tenant in a sliding window (WindowBound).                 *)
(*                                                                         *)
(* The argument for connections: a pool's counter is the number of calls   *)
(* that hold one, and only a call at its statement or its open rows holds  *)
(* one.                                                                    *)
(***************************************************************************)
EXTENDS DbClient, SlidingWindow, FiniteSetTheorems, TLAPS

-----------------------------------------------------------------------------
(* The connection pools *)

Holders(p) == {c \in Procs : call[c].held = p}

\* Every pool's counter is the number of calls that hold one of its
\* connections.
PoolsExact ==
    \A p \in Pools : /\ IsFiniteSet(Holders(p))
                     /\ inUse[p] = Cardinality(Holders(p))

\* A call holds a connection from Acquire to the end of its statement or of its
\* rows; only with replicas is a failed read counted.
CallOK(x) ==
    /\ x \in Call
    /\ x.held # NoPool => x.pc \in {"run", "open"}
    /\ x.kind = "read" /\ x.pc \in {"count", "trip", "stamp"} => Replicas > 0

ConnInv == /\ ClientTypeOK
           /\ PoolsExact
           /\ \A c \in Procs : CallOK(call[c])

\* What the steps change besides calls and pools.
RestOK == /\ state \in {"closed", "open", "half"}
          /\ failures \in 0 .. Threshold
          /\ cooled \in BOOLEAN
          /\ probing \in BOOLEAN
          /\ up \in BOOLEAN
          /\ readRR \in 0 .. Replicas

\* The constants are numbers, and no pool is NoPool.
LEMMA PoolFacts ==
    /\ Replicas \in Nat /\ Threshold \in Nat \ {0} /\ MaxConns \in Nat
    /\ Pools = 0 .. (Replicas + 2) /\ NoPool = Replicas + 3
    /\ WritePool \in Pools /\ MetadataPool \in Pools /\ AnalyticalPool \in Pools
    /\ NoPool \notin Pools
<1>1. MaxTotalConns \div 4 \in Nat
  BY ClientAssumption
<1>2. MaxConns \in Nat
  BY <1>1, ClientAssumption DEF MaxConns
<1> QED
  BY <1>2, ClientAssumption
  DEF Pools, NoPool, WritePool, MetadataPool, AnalyticalPool

\* A goroutine at rest holds nothing.
LEMMA NoCallOK == CallOK(NoCall) /\ NoCall.held = NoPool /\ NoCall \in Call
<1>1. NoCall \in Call
  BY PoolFacts DEF NoCall, Call, AllKinds
<1>2. NoCall.held = NoPool /\ NoCall.pc = "idle"
  BY DEF NoCall
<1> QED
  BY <1>1, <1>2 DEF CallOK

\* The next replica is a pool.
LEMMA ReplicaFacts ==
    ASSUME readRR \in 0 .. Replicas, Replicas > 0
    PROVE  NextReplica \in Pools /\ (readRR + 1) % Replicas \in 0 .. Replicas
<1>1. Replicas \in Nat
  BY ClientAssumption
<1>2. readRR % Replicas \in 0 .. (Replicas - 1)
  BY <1>1
<1>3. (readRR + 1) % Replicas \in 0 .. (Replicas - 1)
  BY <1>1
<1> QED
  BY <1>1, <1>2, <1>3, PoolFacts DEF NextReplica

\* A call moves on and keeps what it holds.
LEMMA KeepConn ==
    ASSUME ConnInv, NEW c \in Procs, NEW x, CallOK(x), x.held = call[c].held,
           call' = [call EXCEPT ![c] = x], inUse' = inUse, RestOK'
    PROVE  ConnInv'
<1>1. call \in [Procs -> Call]
  BY DEF ConnInv, ClientTypeOK
<1>2. \A d \in Procs : call'[d] = IF d = c THEN x ELSE call[d]
  BY <1>1
<1>3. call' \in [Procs -> Call] /\ \A d \in Procs : CallOK(call'[d])
  BY <1>1, <1>2 DEF ConnInv, CallOK
<1>4. ClientTypeOK'
  BY <1>3 DEF ConnInv, ClientTypeOK, RestOK
<1>5. \A p : Holders(p)' = Holders(p)
  BY <1>2 DEF Holders
<1>6. PoolsExact'
  BY <1>5 DEF ConnInv, PoolsExact
<1> QED
  BY <1>3, <1>4, <1>6 DEF ConnInv, CallOK

\* A call without a connection takes one from a pool that is not used up.
LEMMA TakeConn ==
    ASSUME ConnInv, NEW c \in Procs, NEW x, CallOK(x), call[c].held = NoPool,
           NEW h \in Pools, x.held = h, inUse[h] < MaxConns,
           call' = [call EXCEPT ![c] = x], inUse' = [inUse EXCEPT ![h] = @ + 1],
           RestOK'
    PROVE  ConnInv'
<1>1. call \in [Procs -> Call] /\ inUse \in [Pools -> 0 .. MaxConns]
  BY DEF ConnInv, ClientTypeOK
<1>2. \A d \in Procs : call'[d] = IF d = c THEN x ELSE call[d]
  BY <1>1
<1>3. call' \in [Procs -> Call] /\ \A d \in Procs : CallOK(call'[d])
  BY <1>1, <1>2 DEF ConnInv, CallOK
<1>4. inUse' \in [Pools -> 0 .. MaxConns]
  BY <1>1, PoolFacts
<1>5. ClientTypeOK'
  BY <1>3, <1>4 DEF ClientTypeOK, RestOK
<1>6. \A p \in Pools \ {h} : Holders(p)' = Holders(p) /\ inUse'[p] = inUse[p]
  BY <1>1, <1>2, PoolFacts DEF Holders
<1>7. Holders(h)' = Holders(h) \cup {c} /\ c \notin Holders(h)
      /\ inUse'[h] = inUse[h] + 1
  BY <1>1, <1>2, PoolFacts DEF Holders
<1>8. IsFiniteSet(Holders(h)) /\ inUse[h] = Cardinality(Holders(h))
  BY DEF ConnInv, PoolsExact
<1>9. IsFiniteSet(Holders(h)') /\ inUse'[h] = Cardinality(Holders(h)')
  BY <1>7, <1>8, FS_AddElement
<1>10. PoolsExact'
  BY <1>6, <1>9 DEF ConnInv, PoolsExact
<1> QED
  BY <1>3, <1>5, <1>10 DEF ConnInv

\* A call gives its connection back.
LEMMA GiveConn ==
    ASSUME ConnInv, NEW c \in Procs, NEW x, CallOK(x), x.held = NoPool,
           NEW h \in Pools, call[c].held = h, call' = [call EXCEPT ![c] = x],
           inUse' = [inUse EXCEPT ![h] = @ - 1], RestOK'
    PROVE  ConnInv'
<1>1. call \in [Procs -> Call] /\ inUse \in [Pools -> 0 .. MaxConns]
  BY DEF ConnInv, ClientTypeOK
<1>2. \A d \in Procs : call'[d] = IF d = c THEN x ELSE call[d]
  BY <1>1
<1>3. call' \in [Procs -> Call] /\ \A d \in Procs : CallOK(call'[d])
  BY <1>1, <1>2 DEF ConnInv, CallOK
<1>4. IsFiniteSet(Holders(h)) /\ inUse[h] = Cardinality(Holders(h)) /\ c \in Holders(h)
  BY DEF ConnInv, PoolsExact, Holders
<1>5. inUse[h] > 0
  BY <1>4, FS_EmptySet, FS_CardinalityType
<1>6. inUse' \in [Pools -> 0 .. MaxConns]
  BY <1>1, <1>5, PoolFacts
<1>7. ClientTypeOK'
  BY <1>3, <1>6 DEF ClientTypeOK, RestOK
<1>8. \A p \in Pools \ {h} : Holders(p)' = Holders(p) /\ inUse'[p] = inUse[p]
  BY <1>1, <1>2, PoolFacts DEF Holders
<1>9. Holders(h)' = Holders(h) \ {c} /\ inUse'[h] = inUse[h] - 1
  BY <1>1, <1>2, PoolFacts DEF Holders
<1>10. IsFiniteSet(Holders(h)') /\ inUse'[h] = Cardinality(Holders(h)')
  BY <1>4, <1>9, FS_RemoveElement
<1>11. PoolsExact'
  BY <1>8, <1>10 DEF ConnInv, PoolsExact
<1> QED
  BY <1>3, <1>7, <1>11 DEF ConnInv

\* release(), however often it is called.
LEMMA ReleaseConn ==
    ASSUME ConnInv, NEW c \in Procs, NEW x, CallOK(x), x.held = NoPool,
           call' = [call EXCEPT ![c] = x], inUse' = Release(c), RestOK'
    PROVE  ConnInv'
<1>1. CASE call[c].held = NoPool
  BY <1>1, KeepConn DEF Release
<1>2. CASE call[c].held # NoPool
  <2>1. call[c].held \in Pools
    BY <1>2 DEF ConnInv, CallOK, Call
  <2> QED
    BY <1>2, <2>1, GiveConn DEF Release
<1> QED
  BY <1>1, <1>2

\* A change of a call's position only.
LEMMA AtPC ==
    ASSUME ConnInv, NEW c \in Procs, NEW k,
           k \in {"load", "cooldown", "elect", "half", "acquire", "closing",
                  "clear", "unprobe", "close", "count", "trip", "stamp"},
           call[c].pc \notin {"run", "open"},
           call[c].kind = "read" /\ k \in {"count", "trip", "stamp"} => Replicas > 0,
           Goto(c, k), inUse' = inUse, RestOK'
    PROVE  ConnInv'
<1> DEFINE x == [call[c] EXCEPT !.pc = k]
<1>1. call \in [Procs -> Call] /\ CallOK(call[c])
  BY DEF ConnInv, ClientTypeOK
<1>2. call' = [call EXCEPT ![c] = x]
  BY <1>1 DEF Goto
<1>3. x \in Call
  BY <1>1 DEF Call
<1>4. x.pc = k /\ x.held = call[c].held /\ x.kind = call[c].kind
  BY <1>1 DEF Call
<1>5. call[c].held = NoPool
  BY <1>1 DEF CallOK
<1> HIDE DEF x
<1>6. CallOK(x)
  BY <1>3, <1>4, <1>5 DEF CallOK
<1> QED
  BY <1>2, <1>4, <1>6, KeepConn

\* A call that holds nothing returns.
LEMMA Returns ==
    ASSUME ConnInv, NEW c \in Procs, call[c].pc \notin {"run", "open"},
           Done(c), inUse' = inUse, RestOK'
    PROVE  ConnInv'
<1>1. call[c].held = NoPool
  BY DEF ConnInv, CallOK
<1> QED
  BY <1>1, NoCallOK, KeepConn DEF Done

\* After the breaker was fed: a read starts over at the next replica, any other
\* call returns.
LEMMA Reroutes ==
    ASSUME ConnInv, NEW c \in Procs, call[c].pc \in {"count", "trip", "stamp"}
    PROVE  /\ CallOK(AfterFailure(c)) /\ AfterFailure(c).held = call[c].held
           /\ Rerouted(c) \in 0 .. Replicas
<1>1. call[c] \in Call /\ CallOK(call[c]) /\ readRR \in 0 .. Replicas
  BY DEF ConnInv, ClientTypeOK
<1>2. call[c].held = NoPool
  BY <1>1 DEF CallOK
<1>3. CASE call[c].kind = "read" /\ ~call[c].retried
  <2> DEFINE x == [call[c] EXCEPT !.pc = "acquire", !.pool = NextReplica, !.retried = TRUE]
  <2>1. Replicas > 0
    BY <1>1, <1>3 DEF CallOK
  <2>2. NextReplica \in Pools /\ (readRR + 1) % Replicas \in 0 .. Replicas
    BY <1>1, <2>1, ReplicaFacts
  <2>3. x \in Call
    BY <1>1, <2>2 DEF Call
  <2>4. x.pc = "acquire" /\ x.held = call[c].held
    BY <1>1 DEF Call
  <2>5. AfterFailure(c) = x /\ Rerouted(c) = (readRR + 1) % Replicas
    BY <1>3 DEF AfterFailure, Rerouted
  <2> HIDE DEF x
  <2>6. CallOK(x)
    BY <1>2, <2>3, <2>4 DEF CallOK
  <2> QED
    BY <2>2, <2>4, <2>5, <2>6
<1>4. CASE ~(call[c].kind = "read" /\ ~call[c].retried)
  <2>1. AfterFailure(c) = NoCall /\ Rerouted(c) = readRR
    BY <1>4 DEF AfterFailure, Rerouted
  <2> QED
    BY <1>1, <1>2, <2>1, NoCallOK
<1> QED
  BY <1>3, <1>4

\* Routing and the breaker's Allow keep the invariant.
LEMMA AllowKeeps ==
    ASSUME ConnInv, NEW c \in Procs,
           \/ \E k \in Kinds : Route(c, k)
           \/ LoadState(c) \/ CheckCooldown(c) \/ Elect(c) \/ EnterHalfOpen(c)
    PROVE  ConnInv'
<1>0. RestOK /\ call \in [Procs -> Call]
  BY DEF ConnInv, ClientTypeOK, RestOK
<1>1. ASSUME NEW k \in Kinds, Route(c, k) PROVE ConnInv'
  <2> DEFINE x == [NoCall EXCEPT !.pc = IF PoolOf(k) = WritePool THEN "load" ELSE "acquire",
                                 !.kind = k, !.pool = PoolOf(k)]
  <2>1. k \in AllKinds
    BY ClientAssumption
  <2>2. PoolOf(k) \in Pools /\ readRR' \in 0 .. Replicas
    <3>1. CASE k = "read" /\ Replicas > 0
      <4>1. NextReplica \in Pools /\ (readRR + 1) % Replicas \in 0 .. Replicas
        BY <1>0, <3>1, ReplicaFacts DEF RestOK
      <4> QED
        BY <1>1, <3>1, <4>1 DEF Route, PoolOf
    <3>2. CASE ~(k = "read" /\ Replicas > 0)
      <4>1. readRR' = readRR
        BY <1>1, <3>2 DEF Route
      <4>2. PoolOf(k) \in {MetadataPool, AnalyticalPool, WritePool}
        BY <3>2 DEF PoolOf
      <4> QED
        BY <1>0, <4>1, <4>2, PoolFacts DEF RestOK
    <3> QED
      BY <3>1, <3>2
  <2>3. call' = [call EXCEPT ![c] = x] /\ UNCHANGED <<breakerVars, up, inUse>>
        /\ call[c].pc = "idle"
    BY <1>1 DEF Route
  <2>4. x \in Call
    BY <2>1, <2>2, NoCallOK DEF Call
  <2>5. x.held = NoPool /\ x.pc \in {"load", "acquire"}
    BY NoCallOK DEF NoCall
  <2> HIDE DEF x
  <2>6. CallOK(x)
    BY <2>4, <2>5 DEF CallOK
  <2>7. call[c].held = NoPool
    BY <2>3 DEF ConnInv, CallOK
  <2>8. RestOK' /\ inUse' = inUse
    BY <1>0, <2>2, <2>3 DEF RestOK, breakerVars
  <2> QED
    BY <2>3, <2>5, <2>6, <2>7, <2>8, KeepConn
<1>2. CASE LoadState(c)
  <2>1. /\ call[c].pc = "load" /\ UNCHANGED <<breakerVars, up, readRR, inUse>>
        /\ Goto(c, "acquire") \/ Goto(c, "cooldown") \/ Done(c)
    BY <1>0, <1>2 DEF LoadState, RestOK
  <2>2. RestOK' /\ inUse' = inUse
    BY <1>0, <2>1 DEF RestOK, breakerVars
  <2> QED
    BY <2>1, <2>2, AtPC, Returns
<1>3. CASE CheckCooldown(c)
  <2>1. /\ call[c].pc = "cooldown" /\ UNCHANGED <<breakerVars, up, readRR, inUse>>
        /\ Goto(c, "elect") \/ Done(c)
    BY <1>3 DEF CheckCooldown
  <2>2. RestOK' /\ inUse' = inUse
    BY <1>0, <2>1 DEF RestOK, breakerVars
  <2> QED
    BY <2>1, <2>2, AtPC, Returns
<1>4. CASE Elect(c)
  <2>1. /\ call[c].pc = "elect"
        /\ Goto(c, "half") \/ Done(c)
        /\ probing' = TRUE /\ UNCHANGED <<state, failures, cooled, up, readRR, inUse>>
    BY <1>4 DEF Elect
  <2>2. RestOK' /\ inUse' = inUse
    BY <1>0, <2>1 DEF RestOK
  <2> QED
    BY <2>1, <2>2, AtPC, Returns
<1>5. CASE EnterHalfOpen(c)
  <2>1. /\ call[c].pc = "half" /\ Goto(c, "acquire") /\ state' = "half"
        /\ UNCHANGED <<failures, cooled, probing, up, readRR, inUse>>
    BY <1>5 DEF EnterHalfOpen
  <2>2. RestOK' /\ inUse' = inUse
    BY <1>0, <2>1 DEF RestOK
  <2> QED
    BY <2>1, <2>2, AtPC
<1> QED
  BY <1>1, <1>2, <1>3, <1>4, <1>5

\* Taking and giving back connections keeps the invariant, whichever way a
\* statement ends.
LEMMA PoolKeeps ==
    ASSUME ConnInv, NEW c \in Procs,
           \/ Acquire(c) \/ AcquireFails(c) \/ Exec(c) \/ OpenRows(c)
           \/ BeginWriteTx(c) \/ Finish(c) \/ DeferredClose(c)
    PROVE  ConnInv'
<1> DEFINE drop(k) == [call[c] EXCEPT !.pc = k, !.held = NoPool]
<1>0. /\ RestOK /\ call \in [Procs -> Call] /\ call[c] \in Call /\ CallOK(call[c])
  BY DEF ConnInv, ClientTypeOK, RestOK
<1>1. ASSUME UNCHANGED <<breakerVars, up, readRR>> PROVE RestOK'
  BY <1>0, <1>1 DEF RestOK, breakerVars
<1>2. ASSUME NEW k \in {"clear", "count", "closing"},
             k = "count" /\ call[c].kind = "read" => Replicas > 0
      PROVE  CallOK(drop(k)) /\ drop(k).held = NoPool
  <2>1. drop(k) \in Call
    BY <1>0 DEF Call
  <2>2. drop(k).pc = k /\ drop(k).held = NoPool /\ drop(k).kind = call[c].kind
    BY <1>0 DEF Call
  <2> HIDE DEF drop
  <2> QED
    BY <1>2, <2>1, <2>2 DEF CallOK
<1>3. Fail(c) = "count" /\ call[c].kind = "read" => Replicas > 0
  BY DEF Fail
<1>4. CASE Acquire(c)
  <2> DEFINE h == call[c].pool
             x == [call[c] EXCEPT !.pc = "run", !.held = h]
  <2>1. /\ call[c].pc = "acquire" /\ inUse[h] < MaxConns
        /\ inUse' = [inUse EXCEPT ![h] = @ + 1]
        /\ UNCHANGED <<breakerVars, up, readRR>>
    BY <1>4 DEF Acquire
  <2>2. call' = [call EXCEPT ![c] = x]
    BY <1>0, <1>4 DEF Acquire
  <2>3. h \in Pools /\ x \in Call /\ x.pc = "run" /\ x.held = h
    BY <1>0 DEF Call
  <2>4. call[c].held = NoPool
    BY <1>0, <2>1 DEF CallOK
  <2> HIDE DEF x, h
  <2>5. CallOK(x)
    BY <2>3 DEF CallOK
  <2> QED
    BY <1>1, <2>1, <2>2, <2>3, <2>4, <2>5, TakeConn
<1>5. CASE AcquireFails(c)
  <2>1. /\ call[c].pc = "acquire" /\ UNCHANGED <<breakerVars, up, readRR>> /\ inUse' = inUse
        /\ Done(c) \/ (Fail(c) = "count" /\ Goto(c, "count"))
    BY <1>5 DEF AcquireFails, Fail
  <2> QED
    BY <1>1, <1>3, <2>1, AtPC, Returns
<1>6. CASE Exec(c)
  <2>1. call[c].kind \in {"exec", "ping"} /\ inUse' = Release(c)
        /\ UNCHANGED <<breakerVars, up, readRR>>
    BY <1>6 DEF Exec
  <2>2. \/ call' = [call EXCEPT ![c] = drop("clear")]
        \/ call' = [call EXCEPT ![c] = drop("count")]
        \/ call' = [call EXCEPT ![c] = NoCall]
    BY <1>0, <1>6 DEF Exec, Outcomes
  <2> HIDE DEF drop
  <2> QED
    BY <1>1, <1>2, <2>1, <2>2, NoCallOK, ReleaseConn
<1>7. CASE OpenRows(c) \/ BeginWriteTx(c)
  <2> DEFINE x == [call[c] EXCEPT !.pc = "open"]
  <2>1. call[c].pc = "run" /\ KeptOrReleased(c)
    BY <1>7 DEF OpenRows, BeginWriteTx
  <2>2. UNCHANGED <<breakerVars, up, readRR>>
    BY <2>1 DEF KeptOrReleased
  <2>3. \/ inUse' = inUse /\ call' = [call EXCEPT ![c] = x]
        \/ inUse' = Release(c) /\ call' = [call EXCEPT ![c] = NoCall]
        \/ /\ inUse' = Release(c) /\ call' = [call EXCEPT ![c] = drop("count")]
           /\ Fail(c) = "count"
    BY <1>0, <2>1 DEF KeptOrReleased, Outcomes
  <2>4. x \in Call /\ x.pc = "open" /\ x.held = call[c].held
    BY <1>0 DEF Call
  <2> HIDE DEF x, drop
  <2>5. CallOK(x)
    BY <2>4 DEF CallOK
  <2> QED
    BY <1>1, <1>2, <1>3, <2>2, <2>3, <2>4, <2>5, NoCallOK, ReleaseConn, KeepConn
<1>8. CASE Finish(c)
  <2>1. /\ inUse' = Release(c) /\ UNCHANGED <<breakerVars, up, readRR>>
        /\ call' = [call EXCEPT ![c] = drop("closing")]
    BY <1>0, <1>8 DEF Finish
  <2> HIDE DEF drop
  <2> QED
    BY <1>1, <1>2, <2>1, ReleaseConn
<1>9. CASE DeferredClose(c)
  <2>1. /\ inUse' = Release(c) /\ UNCHANGED <<breakerVars, up, readRR>>
        /\ call' = [call EXCEPT ![c] = NoCall]
    BY <1>9 DEF DeferredClose, Done
  <2> QED
    BY <1>1, <2>1, NoCallOK, ReleaseConn
<1> QED
  BY <1>4, <1>5, <1>6, <1>7, <1>8, <1>9

\* RecordSuccess and RecordFailure keep the invariant.
LEMMA RecordKeeps ==
    ASSUME ConnInv, NEW c \in Procs,
           \/ ClearFailures(c) \/ ClearProbing(c) \/ CloseBreaker(c)
           \/ CountFailure(c) \/ Trip(c) \/ StampOpened(c)
    PROVE  ConnInv'
<1>0. RestOK /\ CallOK(call[c]) /\ Threshold \in Nat \ {0}
  BY ClientAssumption DEF ConnInv, ClientTypeOK, RestOK
<1>1. ASSUME call[c].pc \in {"count", "trip", "stamp"}, inUse' = inUse, RestOK',
             call' = [call EXCEPT ![c] = AfterFailure(c)]
      PROVE  ConnInv'
  BY <1>1, Reroutes, KeepConn
<1>2. CASE ClearFailures(c)
  <2>1. /\ call[c].pc = "clear" /\ failures' = 0 /\ Goto(c, "unprobe")
        /\ UNCHANGED <<state, cooled, probing, up, readRR, inUse>>
    BY <1>2 DEF ClearFailures
  <2>2. RestOK' /\ inUse' = inUse
    BY <1>0, <2>1 DEF RestOK
  <2> QED
    BY <2>1, <2>2, AtPC
<1>3. CASE ClearProbing(c)
  <2>1. /\ call[c].pc = "unprobe" /\ probing' = FALSE /\ Goto(c, "close")
        /\ UNCHANGED <<state, failures, cooled, up, readRR, inUse>>
    BY <1>3 DEF ClearProbing
  <2>2. RestOK' /\ inUse' = inUse
    BY <1>0, <2>1 DEF RestOK
  <2> QED
    BY <2>1, <2>2, AtPC
<1>4. CASE CloseBreaker(c)
  <2>1. /\ call[c].pc = "close" /\ state' = "closed" /\ Done(c)
        /\ UNCHANGED <<failures, cooled, probing, up, readRR, inUse>>
    BY <1>4 DEF CloseBreaker
  <2>2. RestOK' /\ inUse' = inUse
    BY <1>0, <2>1 DEF RestOK
  <2> QED
    BY <2>1, <2>2, Returns
<1>5. CASE CountFailure(c)
  <2>1. /\ call[c].pc = "count" /\ UNCHANGED <<state, cooled, probing, up, inUse>>
        /\ failures' = IF failures < Threshold THEN failures + 1 ELSE failures
        /\ \/ Goto(c, "trip") /\ readRR' = readRR
           \/ call' = [call EXCEPT ![c] = AfterFailure(c)] /\ readRR' = Rerouted(c)
    BY <1>5 DEF CountFailure
  <2>2. Rerouted(c) \in 0 .. Replicas
    BY <2>1, Reroutes
  <2>3. failures' \in 0 .. Threshold
    BY <1>0, <2>1 DEF RestOK
  <2>4. RestOK' /\ inUse' = inUse
    BY <1>0, <2>1, <2>2, <2>3 DEF RestOK
  <2>5. call[c].kind = "read" => Replicas > 0
    BY <1>0, <2>1 DEF CallOK
  <2> QED
    BY <1>1, <2>1, <2>4, <2>5, AtPC
<1>6. CASE Trip(c)
  <2>1. /\ call[c].pc = "trip" /\ UNCHANGED <<failures, cooled, probing, up, inUse>>
        /\ state' \in {"open", state}
        /\ \/ Goto(c, "stamp") /\ readRR' = readRR
           \/ call' = [call EXCEPT ![c] = AfterFailure(c)] /\ readRR' = Rerouted(c)
    BY <1>6 DEF Trip
  <2>2. Rerouted(c) \in 0 .. Replicas
    BY <2>1, Reroutes
  <2>3. RestOK' /\ inUse' = inUse
    BY <1>0, <2>1, <2>2 DEF RestOK
  <2>4. call[c].kind = "read" => Replicas > 0
    BY <1>0, <2>1 DEF CallOK
  <2> QED
    BY <1>1, <2>1, <2>3, <2>4, AtPC
<1>7. CASE StampOpened(c)
  <2>1. /\ call[c].pc = "stamp" /\ UNCHANGED <<state, failures, probing, up, inUse>>
        /\ cooled' = FALSE /\ readRR' = Rerouted(c)
        /\ call' = [call EXCEPT ![c] = AfterFailure(c)]
    BY <1>7 DEF StampOpened
  <2>2. Rerouted(c) \in 0 .. Replicas
    BY <2>1, Reroutes
  <2>3. RestOK' /\ inUse' = inUse
    BY <1>0, <2>1, <2>2 DEF RestOK
  <2> QED
    BY <1>1, <2>1, <2>3
<1> QED
  BY <1>2, <1>3, <1>4, <1>5, <1>6, <1>7

\* Every step of the client, of the health loop, of the clock or of the hosts
\* keeps the invariant.
LEMMA ConnNextInv == ConnInv /\ [ClientNext]_clientVars => ConnInv'
<1> SUFFICES ASSUME ConnInv, [ClientNext]_clientVars PROVE ConnInv'
  OBVIOUS
<1>0. RestOK
  BY DEF ConnInv, ClientTypeOK, RestOK
<1>1. ASSUME NEW c \in Callers, NEW k \in Kinds, Route(c, k) PROVE ConnInv'
  BY <1>1, AllowKeeps DEF Procs
<1>2. ASSUME NEW c \in Procs, Step(c) PROVE ConnInv'
  BY <1>2, AllowKeeps, PoolKeeps, RecordKeeps DEF Step
<1>3. CASE HealthTick
  <2>1. /\ call[Health].pc = "idle" /\ Goto(Health, "acquire")
        /\ UNCHANGED <<breakerVars, up, readRR, inUse>> /\ Health \in Procs
    BY <1>3 DEF HealthTick, Goto, Procs
  <2>2. RestOK' /\ inUse' = inUse
    BY <1>0, <2>1 DEF RestOK, breakerVars
  <2> QED
    BY <2>1, <2>2, AtPC
<1>4. CASE Cool \/ Flip \/ UNCHANGED clientVars
  <2>1. RestOK' /\ inUse' = inUse /\ call' = call
    BY <1>0, <1>4 DEF Cool, Flip, clientVars, RestOK, breakerVars
  <2>2. ClientTypeOK'
    BY <2>1 DEF ConnInv, ClientTypeOK, RestOK
  <2>3. PoolsExact' /\ \A c \in Procs : CallOK(call'[c])
    BY <2>1 DEF ConnInv, PoolsExact, Holders
  <2> QED
    BY <2>1, <2>2, <2>3 DEF ConnInv
<1> QED
  BY <1>1, <1>2, <1>3, <1>4 DEF ClientNext

\* The invariant of the client holds in every reachable state, types included.
THEOREM ConnInvariance == ClientSpec => []ConnInv
<1>1. ClientInit => ConnInv
  <2> SUFFICES ASSUME ClientInit PROVE ConnInv
    OBVIOUS
  <2>0. 0 \in 0 .. Threshold /\ 0 \in 0 .. Replicas /\ 0 \in 0 .. MaxConns
    BY PoolFacts
  <2>1. ClientTypeOK
    <3>1. inUse \in [Pools -> 0 .. MaxConns] /\ call \in [Procs -> Call]
      BY <2>0, NoCallOK DEF ClientInit
    <3> QED
      BY <2>0, <3>1 DEF ClientInit, ClientTypeOK
  <2>2. \A c \in Procs : call[c] = NoCall
    BY DEF ClientInit
  <2>3. \A p \in Pools : Holders(p) = {} /\ inUse[p] = 0
    BY <2>2, NoCallOK, PoolFacts DEF Holders, ClientInit
  <2>4. PoolsExact
    BY <2>3, FS_EmptySet DEF PoolsExact
  <2> QED
    BY <2>1, <2>2, <2>4, NoCallOK DEF ConnInv
<1> QED
  BY <1>1, ConnNextInv, PTL DEF ClientSpec

\* ConnsAccounted: whichever way calls end, and however often rows and
\* transactions are closed, a pool's connections in use are those of the calls
\* that still hold one, never more than the pool has.
THEOREM ConnsKept == ClientSpec => []ConnsAccounted
<1>1. ConnInv => ConnsAccounted
  <2>1. ASSUME ConnInv, NEW p \in Pools PROVE inUse[p] <= MaxConns
    <3>1. inUse[p] \in 0 .. MaxConns
      BY <2>1 DEF ConnInv, ClientTypeOK
    <3> QED
      BY <3>1, PoolFacts
  <2> QED
    BY <2>1 DEF ConnInv, PoolsExact, Holders, ConnsAccounted
<1> QED
  BY <1>1, ConnInvariance, PTL

-----------------------------------------------------------------------------
(* The sliding window *)

\* A member leaves the set, with the key or by a later call, only when it is a
\* window old.
WindowInv ==
    /\ WindowTypeOK
    /\ IsFiniteSet(hits)
    /\ zset \subseteq hits
    /\ \A p \in Pods : req[p].pc = "run" => req[p].now <= wclock
    /\ \A m \in hits : m[2] <= wclock
    /\ \A m \in zset : m[2] + Window <= ttl
    /\ \A m \in hits \ zset : m[2] + Window <= wclock
    /\ WindowBound

\* The members of a stretch that starts at s, given the delay d.
Stretch(h, s, d) == {m \in h : m[2] >= s /\ m[2] + d < s + Window}

\* A call that is admitted: the earlier members of any stretch with the new one
\* are still in the set, whichever calls have pruned it since, so the script
\* has counted them.
LEMMA AdmitKeeps ==
    ASSUME WindowInv, NEW n \in Nat, n <= wclock, NEW hit, hit[2] = n,
           Cardinality(Counted(n)) < Limit,
           NEW d \in Nat, d >= lag, d >= wclock - n, NEW s \in WindowTimes
    PROVE  Cardinality(Stretch(hits \cup {hit}, s, d)) <= Limit
<1> DEFINE W == Stretch(hits \cup {hit}, s, d)
           K == Counted(n)
<1>0. /\ Window \in Nat /\ Limit \in Nat /\ s \in Nat
      /\ wclock \in Nat /\ lag \in Nat
      /\ \A m \in hits : m[2] \in Nat
  BY WindowAssumption DEF WindowInv, WindowTypeOK, WindowTimes
<1>1. IsFiniteSet(hits) /\ zset \subseteq hits
      /\ \A m \in hits \ zset : m[2] + Window <= wclock
  BY DEF WindowInv
<1>2. IsFiniteSet(K)
  BY <1>1, FS_Subset DEF Counted
<1>3. Cardinality(K) \in Nat
  BY <1>2, FS_CardinalityType
<1>4. CASE hit \in W
  <2>1. s <= n /\ n + d < s + Window
    BY <1>4 DEF Stretch
  <2>2. wclock < s + Window
    BY <1>0, <2>1
  <2>3. ASSUME NEW m \in W, m # hit PROVE m \in K
    <3>1. m \in hits /\ m[2] >= s /\ m[2] \in Nat
      BY <1>0, <2>3 DEF Stretch
    <3>2. m[2] + Window > wclock
      BY <1>0, <2>2, <3>1
    <3>3. m \in zset
      BY <1>0, <1>1, <3>1, <3>2
    <3> QED
      BY <1>0, <3>1, <3>2, <3>3 DEF Counted
  <2>4. W \subseteq K \cup {hit}
    BY <2>3
  <2> HIDE DEF W, K
  <2>5. IsFiniteSet(K \cup {hit}) /\ Cardinality(K \cup {hit}) <= Cardinality(K) + 1
    BY <1>2, <1>3, FS_AddElement
  <2>6. Cardinality(W) <= Cardinality(K \cup {hit})
    BY <2>4, <2>5, FS_Subset
  <2>7. IsFiniteSet(W) /\ Cardinality(W) \in Nat /\ Cardinality(K \cup {hit}) \in Nat
    BY <2>4, <2>5, FS_Subset, FS_CardinalityType
  <2>8. Cardinality(K) < Limit
    BY DEF K
  <2>9. Cardinality(W) <= Limit
    BY <1>0, <1>3, <2>5, <2>6, <2>7, <2>8
  <2> QED
    BY <2>9 DEF W
<1>5. CASE hit \notin W
  <2> DEFINE V == Stretch(hits, s, lag)
  <2>1. W \subseteq V
    BY <1>0, <1>5 DEF Stretch
  <2>2. IsFiniteSet(V) /\ Cardinality(V) <= Limit
    BY <1>1, FS_Subset DEF WindowInv, WindowBound, Stretch
  <2> HIDE DEF W, V
  <2>3. /\ Cardinality(W) <= Cardinality(V) /\ Cardinality(V) \in Nat
        /\ Cardinality(W) \in Nat
    BY <2>1, <2>2, FS_Subset, FS_CardinalityType
  <2>4. Cardinality(W) <= Limit
    BY <1>0, <2>2, <2>3
  <2> QED
    BY <2>4 DEF W
<1> QED
  BY <1>4, <1>5

\* A refused call only makes the delay known longer: the stretches shrink.
LEMMA RefuseKeeps ==
    ASSUME WindowInv, NEW d \in Nat, d >= lag, NEW s \in WindowTimes
    PROVE  Cardinality(Stretch(hits, s, d)) <= Limit
<1> DEFINE W == Stretch(hits, s, d)
           V == Stretch(hits, s, lag)
<1>0. /\ Window \in Nat /\ Limit \in Nat /\ s \in Nat /\ lag \in Nat
      /\ \A m \in hits : m[2] \in Nat
  BY WindowAssumption DEF WindowInv, WindowTypeOK, WindowTimes
<1>1. W \subseteq V
  BY <1>0 DEF Stretch
<1>2. IsFiniteSet(V) /\ Cardinality(V) <= Limit
  BY FS_Subset DEF WindowInv, WindowBound, Stretch
<1> HIDE DEF W, V
<1>3. /\ Cardinality(W) <= Cardinality(V) /\ Cardinality(V) \in Nat
      /\ Cardinality(W) \in Nat
  BY <1>1, <1>2, FS_Subset, FS_CardinalityType
<1>4. Cardinality(W) <= Limit
  BY <1>0, <1>2, <1>3
<1> QED
  BY <1>4 DEF W

\* The script keeps the invariant.
LEMMA ScriptKeeps ==
    ASSUME WindowInv, NEW p \in Pods, SlidingWindowScript(p)
    PROVE  WindowInv'
<1> DEFINE n == req[p].now
           hit == <<Cardinality(hits) + 1, n>>
           d == IF wclock - n > lag THEN wclock - n ELSE lag
           Members == (1 .. MaxHits) \X WindowTimes
<1>0. /\ Window \in Nat /\ Limit \in Nat /\ MaxHits \in Nat /\ WindowEnd \in Nat
      /\ WindowTimes \subseteq Nat
  BY WindowAssumption DEF WindowTimes
<1>1. /\ wclock \in WindowTimes /\ ttl \in Nat /\ lag \in WindowTimes
      /\ req \in [Pods -> [pc: {"idle", "run"}, now: WindowTimes]]
      /\ hits \subseteq Members /\ zset \subseteq hits /\ IsFiniteSet(hits)
  BY DEF WindowInv, WindowTypeOK
<1>2. /\ \A q \in Pods : req[q].pc = "run" => req[q].now <= wclock
      /\ \A m \in hits : m[2] <= wclock /\ m[2] \in Nat
      /\ \A m \in zset : m[2] + Window <= ttl
      /\ \A m \in hits \ zset : m[2] + Window <= wclock
  BY <1>0 DEF WindowInv, WindowTypeOK
<1>3. /\ req[p].pc = "run" /\ Cardinality(hits) < MaxHits
      /\ lag' = d /\ wclock' = wclock
      /\ req' = [req EXCEPT ![p].pc = "idle"]
  BY DEF SlidingWindowScript
<1>4. n \in WindowTimes /\ n \in Nat /\ n <= wclock /\ wclock \in Nat /\ lag \in Nat
  BY <1>0, <1>1, <1>2, <1>3
<1>5. d \in WindowTimes /\ d \in Nat /\ d >= lag /\ d >= wclock - n
  BY <1>0, <1>1, <1>4 DEF WindowTimes
<1>6. /\ req' \in [Pods -> [pc: {"idle", "run"}, now: WindowTimes]]
      /\ \A q \in Pods : req'[q].pc = "run" => req'[q].now <= wclock
  BY <1>1, <1>2, <1>3
<1>7. hit \in Members /\ hit[2] = n
  BY <1>0, <1>1, <1>3, <1>4, FS_CardinalityType
<1>8. /\ Counted(n) \subseteq zset
      /\ \A m \in zset \ Counted(n) : m[2] + Window <= wclock
  BY <1>0, <1>1, <1>2, <1>4 DEF Counted
<1>9. \/ /\ Cardinality(Counted(n)) < Limit
         /\ zset' = Counted(n) \cup {hit} /\ ttl' = wclock + Window
         /\ hits' = hits \cup {hit}
      \/ zset' = Counted(n) /\ ttl' = ttl /\ hits' = hits
  BY DEF SlidingWindowScript
<1> HIDE DEF n, hit, d, Members
<1>10. CASE /\ Cardinality(Counted(n)) < Limit
            /\ zset' = Counted(n) \cup {hit} /\ ttl' = wclock + Window
            /\ hits' = hits \cup {hit}
  <2>1. /\ zset' \subseteq hits' /\ hits' \subseteq Members /\ zset' \subseteq Members
        /\ IsFiniteSet(hits') /\ ttl' \in Nat
    BY <1>0, <1>1, <1>4, <1>7, <1>8, <1>10, FS_AddElement
  <2>2. WindowTypeOK'
    BY <1>1, <1>3, <1>5, <1>6, <2>1 DEF WindowTypeOK, Members
  <2>3. \A m \in hits' : m[2] <= wclock
    BY <1>2, <1>4, <1>7, <1>10
  <2>4. \A m \in zset' : m[2] + Window <= ttl'
    <3>1. \A m \in zset' : m[2] \in Nat /\ m[2] <= wclock
      BY <1>1, <1>2, <1>4, <1>7, <1>8, <1>10
    <3> QED
      BY <1>0, <1>4, <1>10, <3>1
  <2>5. \A m \in hits' \ zset' : m[2] + Window <= wclock
    BY <1>2, <1>8, <1>10
  <2>6. \A s \in WindowTimes : Cardinality(Stretch(hits \cup {hit}, s, d)) <= Limit
    BY <1>4, <1>5, <1>7, <1>10, AdmitKeeps
  <2>7. WindowBound'
    BY <1>3, <1>10, <2>6 DEF WindowBound, Stretch
  <2> QED
    BY <1>3, <1>6, <2>1, <2>2, <2>3, <2>4, <2>5, <2>7 DEF WindowInv
<1>11. CASE zset' = Counted(n) /\ ttl' = ttl /\ hits' = hits
  <2>1. WindowTypeOK'
    BY <1>1, <1>3, <1>5, <1>6, <1>8, <1>11 DEF WindowTypeOK, Members
  <2>2. \A m \in hits' \ zset' : m[2] + Window <= wclock
    BY <1>2, <1>8, <1>11
  <2>3. \A s \in WindowTimes : Cardinality(Stretch(hits, s, d)) <= Limit
    BY <1>5, RefuseKeeps
  <2>4. WindowBound'
    BY <1>3, <1>11, <2>3 DEF WindowBound, Stretch
  <2>5. /\ IsFiniteSet(hits') /\ zset' \subseteq hits'
        /\ \A m \in hits' : m[2] <= wclock
        /\ \A m \in zset' : m[2] + Window <= ttl'
    BY <1>1, <1>2, <1>8, <1>11
  <2> QED
    BY <1>3, <1>6, <2>1, <2>2, <2>4, <2>5 DEF WindowInv
<1> QED
  BY <1>9, <1>10, <1>11

\* Every step of the limiter, of the clock or of a pod keeps the invariant.
LEMMA WindowNextInv == WindowInv /\ [WindowNext]_windowVars => WindowInv'
<1> SUFFICES ASSUME WindowInv, [WindowNext]_windowVars PROVE WindowInv'
  OBVIOUS
<1>0. /\ Window \in Nat /\ WindowEnd \in Nat /\ WindowTimes \subseteq Nat
      /\ wclock \in WindowTimes /\ ttl \in Nat /\ zset \subseteq hits
      /\ req \in [Pods -> [pc: {"idle", "run"}, now: WindowTimes]]
      /\ \A m \in hits : m[2] \in Nat
  BY WindowAssumption DEF WindowTimes, WindowInv, WindowTypeOK
<1>1. CASE WindowTick
  <2>1. /\ wclock' = wclock + 1 /\ wclock' \in WindowTimes
        /\ zset' = IF wclock + 1 >= ttl THEN {} ELSE zset
        /\ UNCHANGED <<ttl, req, hits, lag>>
    BY <1>0, <1>1 DEF WindowTick, WindowTimes
  <2>2. WindowTypeOK'
    BY <2>1 DEF WindowInv, WindowTypeOK
  <2>3. WindowBound'
    BY <2>1 DEF WindowInv, WindowBound
  <2>4. \A m \in hits' \ zset' : m[2] + Window <= wclock'
    <3> SUFFICES ASSUME NEW m \in hits, m \notin zset' PROVE m[2] + Window <= wclock + 1
      BY <2>1
    <3>1. CASE m \in zset
      <4>1. m[2] + Window <= ttl /\ ttl <= wclock + 1
        BY <2>1, <3>1 DEF WindowInv
      <4> QED
        BY <1>0, <4>1
    <3>2. CASE m \notin zset
      <4>1. m[2] + Window <= wclock
        BY <3>2 DEF WindowInv
      <4> QED
        BY <1>0, <4>1
    <3> QED
      BY <3>1, <3>2
  <2>5. /\ \A p \in Pods : req[p].pc = "run" => req[p].now <= wclock + 1
        /\ \A m \in hits : m[2] <= wclock + 1
    <3>1. ASSUME NEW k \in Nat, k <= wclock PROVE k <= wclock + 1
      BY <1>0, <3>1
    <3>2. \A p \in Pods : req[p].pc = "run" => req[p].now \in Nat /\ req[p].now <= wclock
      BY <1>0 DEF WindowInv
    <3>3. \A m \in hits : m[2] \in Nat /\ m[2] <= wclock
      BY <1>0 DEF WindowInv
    <3> QED
      BY <3>1, <3>2, <3>3
  <2>6. /\ zset' \subseteq hits /\ IsFiniteSet(hits)
        /\ \A m \in zset' : m[2] + Window <= ttl
    BY <2>1 DEF WindowInv
  <2> QED
    BY <2>1, <2>2, <2>3, <2>4, <2>5, <2>6 DEF WindowInv
<1>2. ASSUME NEW p \in Pods, Middleware(p) \/ FailOpen(p) PROVE WindowInv'
  <2>1. /\ UNCHANGED <<wclock, zset, ttl, hits, lag>>
        /\ \/ req' = [req EXCEPT ![p] = [pc |-> "run", now |-> wclock]]
           \/ req' = [req EXCEPT ![p].pc = "idle"]
    BY <1>2 DEF Middleware, FailOpen
  <2>2. req' \in [Pods -> [pc: {"idle", "run"}, now: WindowTimes]]
    BY <1>0, <2>1
  <2>3. \A q \in Pods : req[q].pc = "run" => req[q].now <= wclock
    BY DEF WindowInv
  <2>4. \A q \in Pods : req'[q].pc = "run" => req'[q].now <= wclock
    BY <1>0, <2>1, <2>3
  <2>5. WindowTypeOK' /\ WindowBound'
    BY <2>1, <2>2 DEF WindowInv, WindowTypeOK, WindowBound
  <2> QED
    BY <2>1, <2>4, <2>5 DEF WindowInv
<1>3. CASE UNCHANGED windowVars
  BY <1>3 DEF windowVars, WindowInv, WindowTypeOK, WindowBound
<1> QED
  BY <1>1, <1>2, <1>3, ScriptKeeps DEF WindowNext

\* The invariant of the sliding window holds in every reachable state.
THEOREM WindowInvariance == WindowSpec => []WindowInv
<1>1. WindowInit => WindowInv
  <2> SUFFICES ASSUME WindowInit PROVE WindowInv
    OBVIOUS
  <2>1. 0 \in WindowTimes /\ Limit \in Nat
    BY WindowAssumption DEF WindowTimes
  <2>2. WindowTypeOK
    BY <2>1 DEF WindowInit, WindowTypeOK
  <2>3. WindowBound
    <3> SUFFICES ASSUME NEW s \in WindowTimes
                 PROVE  Cardinality({m \in {} : m[2] >= s /\ m[2] + lag < s + Window})
                           <= Limit
      BY DEF WindowInit, WindowBound
    <3>1. {m \in {} : m[2] >= s /\ m[2] + lag < s + Window} = {}
      OBVIOUS
    <3> QED
      BY <2>1, <3>1, FS_EmptySet
  <2> QED
    BY <2>2, <2>3, FS_EmptySet DEF WindowInit, WindowInv
<1> QED
  BY <1>1, WindowNextInv, PTL DEF WindowSpec

\* WindowBound: for any window, limit, number of pods and delays between a
\* pod's clock and the script, no stretch shorter than the window by the longest
\* delay has more than Limit admitted requests.
THEOREM WindowsBounded == WindowSpec => []WindowBound
<1>1. WindowInv => WindowBound
  BY DEF WindowInv
<1> QED
  BY <1>1, WindowInvariance, PTL

=============================================================================
