---------------------------------- MODULE Gc ----------------------------------
(***************************************************************************)
(* The garbage collector (internal/gc/gc.go over cmd/ingest/gc_adapter.go): *)
(* every pod runs a session-cleanup loop and a block-sweep loop, and        *)
(* tombstone consumers delete blobs out of band.  Each call to the          *)
(* database, to the bucket and to the message bus is a step; between two    *)
(* of them any other process may run.  A pod or a consumer may crash        *)
(* anywhere.                                                                *)
(***************************************************************************)
EXTENDS Ingest

CONSTANTS Pods,             \* replicas running GarbageCollector.Start
          Consumers,        \* running TombstoneConsumers
          BatchSize,        \* Config.BatchSize
          MaxBlocksPerHour, \* Config.MaxBlocksPerHour
          Hour,             \* the rate limiter's period
          DryRun            \* Config.DryRun

ASSUME GcAssumption == /\ BatchSize \in Nat \ {0}
                       /\ MaxBlocksPerHour \in Nat
                       /\ Hour \in Nat
                       /\ DryRun \in BOOLEAN

VARIABLES gc,       \* gc[p]: the block sweep of pod p
          marking,  \* marking[p]: expired sessions pod p has read, not yet marked
          topic,    \* tombstones published and not acknowledged
          con       \* con[c]: the message consumer c works on

gcVars == <<gc, marking, topic, con>>

\* count and resetAt are deletionCount and rateResetAt (zero time at start).
Sweep == [pc: {"idle", "check", "publish", "blob", "row"},
          batch: SUBSET Blocks, cur: Blocks \cup {None},
          count: Nat, resetAt: Int]

NoSweep == [pc |-> "idle", batch |-> {}, cur |-> None,
            count |-> 0, resetAt |-> 0 - (Hour + 1)]

Consumer == [pc: {"read", "blob", "row"}, cur: Blocks \cup {None}]

NoMessage == [pc |-> "read", cur |-> None]

GcInit ==
    /\ gc = [p \in Pods |-> NoSweep]
    /\ marking = [p \in Pods |-> {}]
    /\ topic = {}
    /\ con = [c \in Consumers |-> NoMessage]

GcTypeOK ==
    /\ gc \in [Pods -> Sweep]
    /\ marking \in [Pods -> SUBSET Sessions]
    /\ topic \in SUBSET Blocks
    /\ con \in [Consumers -> Consumer]

-----------------------------------------------------------------------------
(* Phase 1: cleanupExpiredSessions *)

\* B is what ORDER BY t LIMIT BatchSize selects of the rows in All.
OldestBatch(B, All, t) ==
    /\ B \subseteq All
    /\ \/ Cardinality(B) = BatchSize
       \/ B = All /\ Cardinality(B) < BatchSize
    /\ \A x \in B, y \in All \ B : t[x] <= t[y]

\* status != 'COMPLETED' AND expires_at < now().
StaleSessions == {s \in Sessions : /\ SessionExists(s)
                                   /\ sessions[s].status # "COMPLETED"
                                   /\ SessionExpired(s)}

GetExpiredSessions(p) ==
    /\ marking[p] = {}
    /\ \E S \in SUBSET Sessions :
          /\ S # {}
          /\ OldestBatch(S, StaleSessions,
                         [s \in Sessions |-> sessions[s].expires_at])
          /\ marking' = [marking EXCEPT ![p] = S]
    /\ UNCHANGED <<dbVars, tx, gc, topic, con>>

\* MarkSessionExpired: SET status = 'EXPIRED' WHERE id = s, whatever the
\* status is by now; or the call fails and the loop goes on.
MarkSessionExpired(p, s) ==
    /\ s \in marking[p]
    /\ \/ /\ SessionFree(s)
          /\ sessions' = IF SessionExists(s)
                         THEN [sessions EXCEPT ![s].status = "EXPIRED"]
                         ELSE sessions
       \/ UNCHANGED sessions
    /\ marking' = [marking EXCEPT ![p] = @ \ {s}]
    /\ UNCHANGED <<now, cas, manifest, versions, purged, blobs, tx,
                   gc, topic, con>>

-----------------------------------------------------------------------------
(* Phase 2: sweepOrphanedBlocks and processBatch *)

\* FindOrphanedBlocks (which may fail: no batch); the first sweep after an
\* hour resets the rate limiter.
SweepStart(p) ==
    /\ gc[p].pc = "idle"
    /\ \E B \in SUBSET Blocks :
          /\ \/ OldestBatch(B, Orphans, [x \in Blocks |-> cas[x].created_at])
             \/ B = {}
          /\ gc' = [gc EXCEPT ![p] =
                [pc |-> IF B = {} THEN "idle" ELSE "check",
                 batch |-> B, cur |-> None,
                 count |-> IF now - gc[p].resetAt > Hour THEN 0 ELSE gc[p].count,
                 resetAt |-> IF now - gc[p].resetAt > Hour THEN now
                             ELSE gc[p].resetAt]]
    /\ UNCHANGED <<dbVars, tx, marking, topic, con>>

\* Leave block b of the batch and go on with the next one.
NextInBatch(p, b) ==
    [gc[p] EXCEPT !.batch = @ \ {b}, !.cur = None,
                  !.pc = IF gc[p].batch \subseteq {b} THEN "idle" ELSE "check"]

\* The budget of the hour is used up: the rest of the batch is deferred.
RateLimited(p) ==
    /\ gc[p].pc = "check"
    /\ gc[p].count >= MaxBlocksPerHour
    /\ gc' = [gc EXCEPT ![p] = [@ EXCEPT !.pc = "idle", !.batch = {}]]
    /\ UNCHANGED <<dbVars, tx, marking, topic, con>>

\* Faulty variant: the rate limit is tested once per batch only.
DoubleCheckNoBudget(p, b) ==
    /\ gc[p].pc = "check"
    /\ b \in gc[p].batch
    /\ \/ /\ Deletable(b) /\ ~DryRun
          /\ gc' = [gc EXCEPT ![p].pc = "publish", ![p].cur = b]
       \/ gc' = [gc EXCEPT ![p] = NextInBatch(p, b)]
    /\ UNCHANGED <<dbVars, tx, marking, topic, con>>

\* DoubleCheckBlock re-reads ref_count; the block is skipped when it is
\* referenced again, gone, when the read fails, or on a dry run.
DoubleCheckBlock(p, b) ==
    /\ gc[p].pc = "check"
    /\ gc[p].count < MaxBlocksPerHour
    /\ b \in gc[p].batch
    /\ \/ /\ Deletable(b) /\ ~DryRun
          /\ gc' = [gc EXCEPT ![p].pc = "publish", ![p].cur = b]
       \/ gc' = [gc EXCEPT ![p] = NextInBatch(p, b)]
    /\ UNCHANGED <<dbVars, tx, marking, topic, con>>

PublishBlockTombstone(p) ==
    /\ gc[p].pc = "publish"
    /\ \/ /\ topic' = topic \cup {gc[p].cur}
          /\ gc' = [gc EXCEPT ![p].pc = "blob"]
       \/ /\ gc' = [gc EXCEPT ![p] = NextInBatch(p, gc[p].cur)]
          /\ UNCHANGED topic
    /\ UNCHANGED <<dbVars, tx, marking, con>>

\* blob.DeleteBlock, a no-op (noopBlobDeleter) in a server without a blob
\* store; an error leaves the row for a later sweep.
DeleteBlob(p) ==
    /\ gc[p].pc = "blob"
    /\ \/ /\ blobs' = IF HasBlobStore THEN blobs \ {gc[p].cur} ELSE blobs
          /\ gc' = [gc EXCEPT ![p].pc = "row"]
       \/ /\ gc' = [gc EXCEPT ![p] = NextInBatch(p, gc[p].cur)]
          /\ UNCHANGED blobs
    /\ UNCHANGED <<now, cas, manifest, versions, purged, sessions, tx,
                   marking, topic, con>>

\* HardDeleteBlocks: the DELETE waits for a locked row, then re-checks
\* ref_count = 0; only a row really deleted counts against the budget.
HardDelete(p) ==
    /\ gc[p].pc = "row"
    /\ \/ /\ BlockFree(gc[p].cur)
          /\ cas' = AfterDelete(gc[p].cur)
          /\ gc' = [gc EXCEPT ![p] = [NextInBatch(p, gc[p].cur) EXCEPT
                       !.count = IF Deletable(gc[p].cur) THEN @ + 1 ELSE @]]
       \/ /\ gc' = [gc EXCEPT ![p] = NextInBatch(p, gc[p].cur)]
          /\ UNCHANGED cas
    /\ UNCHANGED <<now, manifest, versions, purged, sessions, blobs, tx,
                   marking, topic, con>>

\* A pod restarts: its batch, its list and its rate counter are memory.
PodCrash(p) ==
    /\ gc[p] # NoSweep \/ marking[p] # {}
    /\ gc' = [gc EXCEPT ![p] = NoSweep]
    /\ marking' = [marking EXCEPT ![p] = {}]
    /\ UNCHANGED <<dbVars, tx, topic, con>>

-----------------------------------------------------------------------------
(* Phase 3: TombstoneConsumer *)

\* Run reads a message.  Until it is acknowledged the bus may deliver it
\* again, to any consumer.
ReadTombstone(c) ==
    /\ con[c].pc = "read"
    /\ \E b \in topic : con' = [con EXCEPT ![c] = [pc |-> "blob", cur |-> b]]
    /\ UNCHANGED <<dbVars, tx, gc, marking, topic>>

\* processMessage deletes the blob without reading ref_count; an error
\* returns without acknowledging.
ConsumerDeleteBlob(c) ==
    /\ con[c].pc = "blob"
    /\ \/ /\ blobs' = blobs \ {con[c].cur}
          /\ con' = [con EXCEPT ![c].pc = "row"]
       \/ /\ con' = [con EXCEPT ![c] = NoMessage]
          /\ UNCHANGED blobs
    /\ UNCHANGED <<now, cas, manifest, versions, purged, sessions, tx,
                   gc, marking, topic>>

\* HardDeleteBlocks (its error is ignored) and CommitMessage (its error is
\* ignored too: the message stays).
ConsumerHardDelete(c) ==
    /\ con[c].pc = "row"
    /\ \/ BlockFree(con[c].cur) /\ cas' = AfterDelete(con[c].cur)
       \/ UNCHANGED cas
    /\ topic' \in {topic, topic \ {con[c].cur}}
    /\ con' = [con EXCEPT ![c] = NoMessage]
    /\ UNCHANGED <<now, manifest, versions, purged, sessions, blobs, tx,
                   gc, marking>>

ConsumerCrash(c) ==
    /\ con[c].pc # "read"
    /\ con' = [con EXCEPT ![c] = NoMessage]
    /\ UNCHANGED <<dbVars, tx, gc, marking, topic>>

=============================================================================
