------------------------------ MODULE AegisStore ------------------------------
(***************************************************************************)
(* The ingest API, the garbage collector and the clock over one database   *)
(* and one bucket: the system cmd/ingest starts, with any number of        *)
(* replicas, and its correctness properties.                               *)
(***************************************************************************)
EXTENDS Gc

vars == <<dbVars, tx, gcVars>>

Init == DbInit /\ IngestInit /\ GcInit

\* The steps of request r after the one that starts it.
ServeCommit(r) ==
    \/ LockSession(r)
    \/ LockNode(r)
    \/ EnsureBlockRow(r)
    \/ AddManifestRow(r)
    \/ CommitTx(r)
    \/ VerifyBlock(r)
    \/ MarkBlockVerified(r)
    \/ DeadlockVictim(r)

\* The steps of the ingest API and of the database, requests left out.
IngestStep ==
    \/ \E r \in Reqs : ServeCommit(r) \/ Abort(r)
    \/ \E s \in Sessions : ReapSession(s)
    \/ \E v \in versions : PurgeVersion(v)

GcStep ==
    \/ \E p \in Pods :
          \/ GetExpiredSessions(p)
          \/ \E s \in Sessions : MarkSessionExpired(p, s)
          \/ SweepStart(p)
          \/ RateLimited(p)
          \/ \E b \in Blocks : DoubleCheckBlock(p, b)
          \/ PublishBlockTombstone(p)
          \/ DeleteBlob(p)
          \/ HardDelete(p)
          \/ PodCrash(p)
    \/ \E c \in Consumers :
          \/ ReadTombstone(c)
          \/ ConsumerDeleteBlob(c)
          \/ ConsumerHardDelete(c)
          \/ ConsumerCrash(c)

\* What the system does by itself.
SystemStep ==
    \/ IngestStep /\ UNCHANGED gcVars
    \/ GcStep
    \/ Tick /\ UNCHANGED <<tx, gcVars>>

\* What clients ask for: the server must be right for every list of blocks.
ClientRequest ==
    /\ \/ \E s \in Sessions, n \in Nodes, f \in Files : Initiate(s, n, f)
       \/ \E r \in Reqs, s \in Sessions, f \in Files : StartCommit(r, s, f)
    /\ UNCHANGED gcVars

Next == SystemStep \/ ClientRequest

Spec == Init /\ [][Next]_vars

-----------------------------------------------------------------------------
(* Properties *)

TypeOK == DbTypeOK /\ IngestTypeOK /\ GcTypeOK

\* The invariant the schema states for cas_blocks.ref_count: it is the number
\* of manifest rows of the block, and a block without a row has none.  The
\* triggers, the commit transactions, version purges and every deleter keep
\* it together.
RefCountExact ==
    \A b \in Blocks :
        /\ cas[b].ref_count = Cardinality(RowsOf(b))
        /\ RowsOf(b) # {} => cas[b].live

\* CommitFile's FOR UPDATE on the session: however often a commit is retried
\* or duplicated, and whatever the cleanup loops do to the status meanwhile,
\* a session produces at most one version.
OneVersionPerSession ==
    \A v, w \in versions \cup purged : v.sess = w.sess => v = w

\* next_version_number under the node lock: a number being used by an open
\* transaction is neither taken nor used by another one, so UNIQUE (node_id,
\* version_number) never rejects a commit.
VersionFence ==
    /\ \A v, w \in versions : v.node = w.node /\ v.num = w.num => v = w
    /\ \A r \in Reqs : tx[r].pc \in {"ensure", "manifest", "commit"} =>
          /\ tx[r].num \notin NumbersOf(TxNode(r))
          /\ \A q \in Reqs \ {r} : ~HoldsNode(q, TxNode(r))

\* "Dense gapless version numbers": rolled back commits leave no hole; the
\* only numbers missing below the highest are those of purged versions.
VersionsGapless ==
    \A v \in versions : \A k \in 1..(v.num - 1) :
        \E w \in versions \cup purged : w.node = v.node /\ w.num = k

\* A cas_blocks row only ever disappears while no manifest row, committed or
\* being inserted by a transaction that has passed its trigger, refers to it.
ReapedUnreferenced ==
    [][\A b \in Blocks : cas[b].live /\ ~cas'[b].live =>
          /\ RowsOf(b) = {}
          /\ \A r \in Reqs : ~HoldsBlock(r, b)]_vars

\* The collector never deletes more rows per hour than its budget.
RateBudget == \A p \in Pods : gc[p].count <= MaxBlocksPerHour

\* Every commit request is answered, deadlocks between requests included.
CommitAnswered == \A r \in Reqs : tx[r].pc # "idle" ~> tx[r].pc = "idle"

\* The registry, refined: its rows and the manifest behave as RefStore says.
Registry == INSTANCE RefStore WITH
    AllBlocks <- Blocks, registered <- {b \in Blocks : cas[b].live}, refs <- manifest

RegistrySpec == Registry!Spec

=============================================================================
