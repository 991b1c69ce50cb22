------------------------------- MODULE AegisDb -------------------------------
(***************************************************************************)
(* The tables the ingest path and the garbage collector share             *)
(* (db/schema.sql), the two manifest triggers and the stored procedures    *)
(* they go through (db/stored-procedures.sql), and the blob bucket.        *)
(*                                                                         *)
(* A table holds its committed rows only.  What an open transaction has    *)
(* written, and the row locks it has, belong to the transaction (module    *)
(* Ingest): PostgreSQL runs at READ COMMITTED, every statement sees the    *)
(* rows committed before it starts, and a writer waits for the holder of   *)
(* a row lock.  A single-statement write is one step of this model.        *)
(***************************************************************************)
EXTENDS Naturals, Integers, FiniteSets, Sequences

CONSTANTS Blocks,       \* chunk hashes, the key of cas_blocks
          Nodes,        \* files of the namespace
          Sessions,     \* upload session ids (random UUIDs: never reused)
          None,         \* no block / no session / no node
          SafetyWindow, \* gc.Config.SafetyWindow (7 days)
          SessionTTL,   \* expires_at - created_at of a session (24 hours)
          ReaperGrace,  \* p_grace of expire_stale_upload_sessions (7 days)
          MaxTime       \* bound of the clock

ASSUME NoneAssumption == None \notin Blocks \cup Sessions \cup Nodes
ASSUME TimeAssumption == /\ SafetyWindow \in Nat
                         /\ SessionTTL \in Nat
                         /\ ReaperGrace \in Nat
                         /\ MaxTime \in Nat

VARIABLES now,       \* the clock now() and time.Now() read
          cas,       \* cas_blocks
          manifest,  \* file_manifest_blocks
          versions,  \* file_versions
          purged,    \* history: the versions that were deleted
          sessions,  \* upload_sessions
          blobs      \* the hashes whose object is in the bucket

dbVars == <<now, cas, manifest, versions, purged, sessions, blobs>>

-----------------------------------------------------------------------------
(* Rows *)

\* A row of cas_blocks; `live` tells whether the row exists.
CasRow == [live: BOOLEAN, ref_count: Nat, created_at: Nat, verified: BOOLEAN]

NoRow == [live |-> FALSE, ref_count |-> 0, created_at |-> 0, verified |-> FALSE]

\* An inserted row; NOW(), the default of created_at, is the time the
\* inserting transaction began.
NewRow(refs, began) ==
    [live |-> TRUE, ref_count |-> refs, created_at |-> began, verified |-> FALSE]

\* A row of file_versions.  The session that produced it is history: the
\* table has no such column.
Version == [node: Nodes, num: Nat \ {0}, sess: Sessions]

ManifestRow == [ver: Version, idx: Nat \ {0}, block: Blocks]

\* The Go code reads and writes a column `status`; NONE is an id that is not
\* used yet, DELETED a row the session reaper removed.
Status == {"NONE", "PENDING", "COMPLETED", "EXPIRED", "DELETED"}

SessionRow == [status: Status, node: Nodes \cup {None},
               expected_chunks: Nat, expires_at: Nat]

NoSessionRow == [status |-> "NONE", node |-> None,
                 expected_chunks |-> 0, expires_at |-> 0]

SessionExists(s) == sessions[s].status \notin {"NONE", "DELETED"}

SessionExpired(s) == now > sessions[s].expires_at

RowsOf(b) == {m \in manifest : m.block = b}

VersionRows(v) == {m \in manifest : m.ver = v}

NumbersOf(n) == {v.num : v \in {w \in versions : w.node = n}}

-----------------------------------------------------------------------------
(* Stored procedures *)

\* Faulty variant: COALESCE(MAX(version_number), 1) + 1.
NextFromTwo(n) ==
    IF NumbersOf(n) = {} THEN 2
    ELSE 1 + CHOOSE m \in NumbersOf(n) : \A k \in NumbersOf(n) : k <= m

\* next_version_number: COALESCE(MAX(version_number), 0) + 1.
next_version_number(n) ==
    IF NumbersOf(n) = {} THEN 1
    ELSE 1 + CHOOSE m \in NumbersOf(n) : \A k \in NumbersOf(n) : k <= m

\* The WHERE clause of gc_find_unreferenced, of the collector's
\* FindOrphanedBlocks and of the registry's FindOrphans.
Orphans == {b \in Blocks : /\ cas[b].live
                           /\ cas[b].ref_count = 0
                           /\ cas[b].created_at < now - SafetyWindow}

\* DELETE FROM cas_blocks WHERE block_hash = b AND ref_count = 0.
Deletable(b) == cas[b].live /\ cas[b].ref_count = 0

\* Faulty variant: the DELETE trusts the earlier check of ref_count.
DeleteUnchecked(b) == IF cas[b].live THEN [cas EXCEPT ![b] = NoRow] ELSE cas

AfterDelete(b) == IF Deletable(b) THEN [cas EXCEPT ![b] = NoRow] ELSE cas

DbInit ==
    /\ now = 0
    /\ cas = [b \in Blocks |-> NoRow]
    /\ manifest = {}
    /\ versions = {}
    /\ purged = {}
    /\ sessions = [s \in Sessions |-> NoSessionRow]
    /\ blobs = {}

DbTypeOK ==
    /\ now \in Nat
    /\ cas \in [Blocks -> CasRow]
    /\ manifest \in SUBSET ManifestRow
    /\ IsFiniteSet(manifest)
    /\ versions \in SUBSET Version
    /\ purged \in SUBSET Version
    /\ sessions \in [Sessions -> SessionRow]
    /\ blobs \in SUBSET Blocks

\* Wall-clock time passes.
Tick ==
    /\ now < MaxTime
    /\ now' = now + 1
    /\ UNCHANGED <<cas, manifest, versions, purged, sessions, blobs>>

=============================================================================
