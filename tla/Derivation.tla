------------------------------ MODULE Derivation ------------------------------
(***************************************************************************)
(* From a committed version to the workers, along the two routes the       *)
(* repository has.  "bridge": cmd/ingest publishes to an in-process        *)
(* channel (derivation_bridge.go).  "kafka": Debezium streams the WAL,     *)
(* cmd/cdc-router turns inserts into tasks (internal/cdc/router.go) and    *)
(* cmd/worker consumes them (internal/events/consumer.go).  The routes     *)
(* share no state, so a behaviour has one of them.                         *)
(*                                                                         *)
(* Versions are numbered in commit order.  Readers keep a position in      *)
(* memory and a committed offset at the broker.                            *)
(***************************************************************************)
EXTENDS WorkerPool, Sequences, FiniteSets

CONSTANTS WalLen,     \* messages of aegis-db.public.file_versions
          Capacity,   \* of the bridge's channel (256)
          Partitions, \* of aegis.derivation.tasks
          None,       \* no event, no partition
          MaxCrashes  \* bound on the crashes

\* WAL message i is the INSERT of version i, or of another operation.
ASSUME DerivationAssumption == /\ WalLen \in Nat
                               /\ Versions \subseteq 1 .. WalLen
                               /\ None \notin Versions \cup Partitions
                               /\ Capacity \in Nat
                               /\ MaxCrashes \in Nat

VARIABLES mode,    \* the route
          wal,     \* length of the WAL topic
          outbox,  \* committed versions handleCommit has not yet published
          chan,    \* derivationBridge.events
          bridge,  \* derivationBridge.consume
          router,  \* Router.Start
          topic,   \* topic[p]: the tasks of partition p
          cons,    \* DerivationConsumer.Start
          cur,     \* the event in the pool
          kdlq,    \* aegis.derivation.dlq
          missed,  \* history: versions dropped, or whose write failed
          undlq,   \* history: versions whose dead letter was not written
          crashes

routeVars == <<wal, outbox, chan, bridge, router, topic, cons, cur, kdlq,
               missed, undlq, crashes>>
derivationVars == <<mode, poolVars, routeVars>>

Bridge == {"consume", "work", "drain", "drainwork", "exited"}

Router == [pc: {"fetch", "route", "commit"}, pos: Nat, committed: Nat]

Consumer == [pc: {"fetch", "work", "dlq", "commit"}, part: Partitions \cup {None},
             pos: [Partitions -> Nat], committed: [Partitions -> Nat]]

NoRouter(c) == [pc |-> "fetch", pos |-> c, committed |-> c]

NoConsumer(c) == [pc |-> "fetch", part |-> None, pos |-> c, committed |-> c]

DerivationInit ==
    /\ PoolInit
    /\ mode \in {"bridge", "kafka"}
    /\ wal = 0
    /\ outbox = {}
    /\ chan = <<>>
    /\ bridge = "consume"
    /\ router = NoRouter(0)
    /\ topic = [p \in Partitions |-> <<>>]
    /\ cons = NoConsumer([p \in Partitions |-> 0])
    /\ cur = None
    /\ kdlq = {}
    /\ missed = {}
    /\ undlq = {}
    /\ crashes = 0

DerivationTypeOK ==
    /\ PoolTypeOK
    /\ wal \in 0 .. WalLen
    /\ outbox \subseteq Versions
    /\ Len(chan) <= Capacity
    /\ bridge \in Bridge
    /\ router \in Router
    /\ cons \in Consumer
    /\ cur \in Versions \cup {None}
    /\ kdlq \cup missed \cup undlq \subseteq Versions

\* A transaction writes file_versions; the INSERTs are commits whose handler
\* goes on to publish the event.
Commit ==
    /\ wal < WalLen
    /\ wal' = wal + 1
    /\ outbox' = IF mode = "bridge" THEN outbox \cup ({wal + 1} \cap Versions)
                 ELSE outbox
    /\ UNCHANGED <<mode, poolVars, chan, bridge, router, topic, cons, cur, kdlq,
                   missed, undlq, crashes>>

-----------------------------------------------------------------------------
(* The bridge *)

\* PublishFileCommitted: a full channel drops the event.
PublishFileCommitted(v) ==
    /\ v \in outbox
    /\ outbox' = outbox \ {v}
    /\ IF Len(chan) < Capacity
       THEN chan' = Append(chan, v) /\ UNCHANGED missed
       ELSE missed' = missed \cup {v} /\ UNCHANGED chan
    /\ UNCHANGED <<mode, poolVars, wal, bridge, router, topic, cons, cur, kdlq,
                   undlq, crashes>>

\* consume and drain receive an event and call ProcessEvent.
Receive ==
    /\ mode = "bridge"
    /\ bridge \in {"consume", "drain"}
    /\ chan # <<>>
    /\ cur' = Head(chan)
    /\ chan' = Tail(chan)
    /\ ProcessEvent(Head(chan))
    /\ bridge' = IF bridge = "consume" THEN "work" ELSE "drainwork"
    /\ UNCHANGED <<mode, results, dlq, settled, wal, outbox, router, topic,
                   cons, kdlq, missed, undlq, crashes>>

Processed ==
    /\ bridge \in {"work", "drainwork"}
    /\ AllDone
    /\ cur' = None
    /\ job' = [w \in Workers |-> NoJob]
    /\ bridge' = IF bridge = "work" THEN "consume" ELSE "drain"
    /\ UNCHANGED <<mode, results, dlq, settled, wal, outbox, chan, router,
                   topic, cons, kdlq, missed, undlq, crashes>>

\* Faulty variant: the consumer returns at once.
StopBridgeNoDrain ==
    /\ mode = "bridge"
    /\ bridge = "consume"
    /\ bridge' = "exited"
    /\ UNCHANGED <<mode, poolVars, wal, outbox, chan, router, topic, cons, cur,
                   kdlq, missed, undlq, crashes>>

\* SIGTERM: ctx is cancelled, or Stop closes stopCh.
StopBridge ==
    /\ mode = "bridge"
    /\ bridge = "consume"
    /\ bridge' = "drain"
    /\ UNCHANGED <<mode, poolVars, wal, outbox, chan, router, topic, cons, cur,
                   kdlq, missed, undlq, crashes>>

Drained ==
    /\ bridge = "drain"
    /\ chan = <<>>
    /\ bridge' = "exited"
    /\ UNCHANGED <<mode, poolVars, wal, outbox, chan, router, topic, cons, cur,
                   kdlq, missed, undlq, crashes>>

-----------------------------------------------------------------------------
(* The CDC router *)

RouterFetch ==
    /\ mode = "kafka"
    /\ router.pc = "fetch"
    /\ router.pos < wal
    /\ router' = [router EXCEPT !.pc = "route", !.pos = @ + 1]
    /\ UNCHANGED <<mode, poolVars, wal, outbox, chan, bridge, topic, cons, cur,
                   kdlq, missed, undlq, crashes>>

\* routeMessage: an INSERT becomes a task on some partition (LeastBytes).
\* A failed write, though it may have reached the broker, is only logged.
RouteMessage ==
    /\ router.pc = "route"
    /\ IF router.pos \in Versions
       THEN \/ /\ \E p \in Partitions :
                    topic' = [topic EXCEPT ![p] = Append(@, router.pos)]
               /\ \/ UNCHANGED missed
                  \/ missed' = missed \cup {router.pos}
            \/ missed' = missed \cup {router.pos} /\ UNCHANGED topic
       ELSE UNCHANGED <<topic, missed>>
    /\ router' = [router EXCEPT !.pc = "commit"]
    /\ UNCHANGED <<mode, poolVars, wal, outbox, chan, bridge, cons, cur, kdlq,
                   undlq, crashes>>

\* CommitMessages; its error is dropped.
RouterCommit ==
    /\ router.pc = "commit"
    /\ router' \in {[router EXCEPT !.pc = "fetch"],
                    [router EXCEPT !.pc = "fetch", !.committed = router.pos]}
    /\ UNCHANGED <<mode, poolVars, wal, outbox, chan, bridge, topic, cons, cur,
                   kdlq, missed, undlq, crashes>>

-----------------------------------------------------------------------------
(* The derivation consumer *)

\* Faulty variant: the offset is committed when the message is fetched.
AutoCommitFetch(p) ==
    /\ mode = "kafka"
    /\ cons.pc = "fetch"
    /\ cons.pos[p] < Len(topic[p])
    /\ cons' = [cons EXCEPT !.pc = "work", !.part = p, !.pos[p] = @ + 1,
                            !.committed[p] = cons.pos[p] + 1]
    /\ cur' = topic[p][cons.pos[p] + 1]
    /\ ProcessEvent(cur')
    /\ UNCHANGED <<mode, results, dlq, settled, wal, outbox, chan, bridge,
                   router, topic, kdlq, missed, undlq, crashes>>

ConsumerFetch(p) ==
    /\ mode = "kafka"
    /\ cons.pc = "fetch"
    /\ cons.pos[p] < Len(topic[p])
    /\ cons' = [cons EXCEPT !.pc = "work", !.part = p, !.pos[p] = @ + 1]
    /\ cur' = topic[p][cons.pos[p] + 1]
    /\ ProcessEvent(cur')
    /\ UNCHANGED <<mode, results, dlq, settled, wal, outbox, chan, bridge,
                   router, topic, kdlq, missed, undlq, crashes>>

\* processMessage returns: an error when a result is FAILED.
ProcessMessage ==
    /\ cons.pc = "work"
    /\ AllDone
    /\ cons' = [cons EXCEPT !.pc = IF AnyFailed THEN "dlq" ELSE "commit"]
    /\ job' = [w \in Workers |-> NoJob]
    /\ UNCHANGED <<mode, results, dlq, settled, wal, outbox, chan, bridge,
                   router, topic, cur, kdlq, missed, undlq, crashes>>

\* The error of the dead letter's write is dropped.
SendToDLQ ==
    /\ cons.pc = "dlq"
    /\ \/ kdlq' = kdlq \cup {cur} /\ UNCHANGED undlq
       \/ undlq' = undlq \cup {cur} /\ UNCHANGED kdlq
    /\ cons' = [cons EXCEPT !.pc = "commit"]
    /\ UNCHANGED <<mode, poolVars, wal, outbox, chan, bridge, router, topic,
                   cur, missed, crashes>>

ConsumerCommit ==
    /\ cons.pc = "commit"
    /\ LET fetch == [cons EXCEPT !.pc = "fetch", !.part = None]
       IN  cons' \in {fetch, [fetch EXCEPT !.committed[cons.part] = cons.pos[cons.part]]}
    /\ cur' = None
    /\ UNCHANGED <<mode, poolVars, wal, outbox, chan, bridge, router, topic,
                   kdlq, missed, undlq, crashes>>

-----------------------------------------------------------------------------
(* Workers and crashes *)

\* A consumer's event has no chunks: processMessage copies only the version,
\* the tenant and the MIME type.
Work(w) ==
    /\ cur # None
    /\ PoolStep(cur, w, mode = "bridge", bridge # "work")
    /\ UNCHANGED <<mode, routeVars>>

\* cmd/ingest dies, or main returns after SIGTERM without waiting for the
\* bridge.  What is queued or not yet published is gone.
IngestDies ==
    /\ mode = "bridge"
    /\ crashes < MaxCrashes
    /\ crashes' = crashes + 1
    /\ missed' = missed \cup outbox \cup {v \in Versions :
                    v = cur \/ \E i \in 1 .. Len(chan) : chan[i] = v}
    /\ outbox' = {}
    /\ chan' = <<>>
    /\ cur' = None
    /\ bridge' = "consume"
    /\ PoolDies
    /\ UNCHANGED <<mode, wal, router, topic, cons, kdlq, undlq>>

RouterDies ==
    /\ mode = "kafka"
    /\ crashes < MaxCrashes
    /\ crashes' = crashes + 1
    /\ router' = NoRouter(router.committed)
    /\ UNCHANGED <<mode, poolVars, wal, outbox, chan, bridge, topic, cons, cur,
                   kdlq, missed, undlq>>

ConsumerDies ==
    /\ mode = "kafka"
    /\ crashes < MaxCrashes
    /\ crashes' = crashes + 1
    /\ cons' = NoConsumer(cons.committed)
    /\ cur' = None
    /\ PoolDies
    /\ UNCHANGED <<mode, wal, outbox, chan, bridge, router, topic, kdlq,
                   missed, undlq>>

BridgeStep == Receive \/ Processed \/ Drained

RouterStep == RouterFetch \/ RouteMessage \/ RouterCommit

ConsumerStep == \/ \E p \in Partitions : ConsumerFetch(p)
                \/ ProcessMessage \/ SendToDLQ \/ ConsumerCommit

DerivationNext ==
    \/ Commit
    \/ \E v \in Versions : PublishFileCommitted(v)
    \/ BridgeStep \/ StopBridge
    \/ RouterStep \/ ConsumerStep
    \/ \E w \in Workers : Work(w)
    \/ IngestDies \/ RouterDies \/ ConsumerDies

DerivationSpec == DerivationInit /\ [][DerivationNext]_derivationVars

\* The loops run, and a goroutine of the pool goes on until it is done.
DerivationFairSpec ==
    /\ DerivationSpec
    /\ WF_derivationVars(BridgeStep)
    /\ WF_derivationVars(RouterStep)
    /\ WF_derivationVars(ConsumerStep)
    /\ \A w \in Workers : WF_derivationVars(Work(w))

-----------------------------------------------------------------------------
(* Properties *)

\* "Manual Explicit Offset Commit after processing or DLQ routing": whatever
\* crashes and failed offset commits do, a task below the committed offset
\* was finished by every worker that wants it, and if one wants it, it is in
\* the dead letter topic, or that write failed: no task of this route can
\* succeed, since its event has no chunks.
CommittedTasksAccounted ==
    \A p \in Partitions : \A i \in 1 .. cons.committed[p] :
        LET v == topic[p][i]
        IN  Settled(v) /\ (WantedBy(v) # {} => v \in kdlq \cup undlq)

\* A version inserted in the WAL, or accepted by the bridge's channel before
\* the bridge has drained it and left, reaches every worker that wants it, or
\* one of the places where the code gives it up was passed: a full channel, a
\* failed write, the death of cmd/ingest.
EveryVersionSettled ==
    \A v \in Versions :
        /\ mode = "kafka" /\ wal >= v ~> Settled(v) \/ v \in missed
        /\ bridge # "exited" /\ (\E i \in 1 .. Len(chan) : chan[i] = v)
              ~> Settled(v) \/ v \in missed

=============================================================================
