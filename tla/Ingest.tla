-------------------------------- MODULE Ingest --------------------------------
(***************************************************************************)
(* The ingest API: POST /initiate (handleInitiate), POST /commit           *)
(* (handleCommit and PgStore.CommitFile) and the session reaper of the     *)
(* server.  Several commit requests run at once, two of them possibly for  *)
(* the same session (a retry of a request whose answer was late).          *)
(* CommitFile is a READ COMMITTED transaction: it is modelled statement by *)
(* statement, and row by row where a statement locks several rows.         *)
(***************************************************************************)
EXTENDS AegisDb

CONSTANTS Reqs,          \* commit requests being served at the same time
          Files,         \* block lists a client may send: sequences of Blocks
          HasBlobStore   \* whether the server has a BlobStore (s.blob != nil)

ASSUME FilesAssumption == Files \subseteq Seq(Blocks) \ {<< >>}
ASSUME BlobStoreAssumption == HasBlobStore \in BOOLEAN

VARIABLE tx    \* tx[r]: the progress of commit request r

PC == {"idle", "begin", "node", "ensure", "manifest", "commit",
       "verify", "mark"}

\* pc:   the statement CommitFile (handleCommit after "commit") is at
\* start: when it began: NOW() in PostgreSQL is the start of the transaction
\* pos:  the index in `file` the current statement has reached
\* num:  the version number next_version_number returned
\* ins:  blocks whose cas_blocks row this transaction has inserted
\* bump: what the manifest trigger has added to ref_count in this transaction
Request == [pc: PC, sess: Sessions \cup {None}, file: Files \cup {<< >>},
            start: Nat, pos: Nat, num: Nat,
            ins: SUBSET Blocks, bump: [Blocks -> Nat]]

Idle == [pc |-> "idle", sess |-> None, file |-> << >>, start |-> 0,
         pos |-> 0, num |-> 0, ins |-> {}, bump |-> [b \in Blocks |-> 0]]

IngestInit == tx = [r \in Reqs |-> Idle]

IngestTypeOK == tx \in [Reqs -> Request]

-----------------------------------------------------------------------------
(* Row locks: a lock is held from the statement that takes it to the end of *)
(* the transaction.                                                         *)

InTx == {"node", "ensure", "manifest", "commit"}

\* SELECT ... FROM upload_sessions ... FOR UPDATE.
HoldsSession(r, s) == tx[r].pc \in InTx /\ tx[r].sess = s

\* SELECT ... FROM namespace_nodes ... FOR UPDATE.
HoldsNode(r, n) ==
    /\ tx[r].pc \in {"ensure", "manifest", "commit"}
    /\ sessions[tx[r].sess].node = n

\* The trigger's UPDATE of the cas_blocks row.  A row the transaction inserted
\* itself is not visible to others: nobody waits for that one.
HoldsBlock(r, b) == cas[b].live /\ tx[r].bump[b] > 0

SessionFree(s) == \A r \in Reqs : ~HoldsSession(r, s)

\* Faulty variant: the DELETE does not wait for the row lock.
NeverLocked(b) == TRUE

BlockFree(b) == \A r \in Reqs : ~HoldsBlock(r, b)

Block(r) == tx[r].file[tx[r].pos]

TxNode(r) == sessions[tx[r].sess].node

\* The version the transaction of r has inserted.
TxVersion(r) == [node |-> TxNode(r), num |-> tx[r].num, sess |-> tx[r].sess]

LastPos(r) == tx[r].pos = Len(tx[r].file)

\* Move r to the next block of its list, or to `next` after the last one.
Advance(r, next) ==
    IF LastPos(r) THEN [tx[r] EXCEPT !.pc = next, !.pos = 1]
                  ELSE [tx[r] EXCEPT !.pos = @ + 1]

-----------------------------------------------------------------------------
(* POST /initiate *)

\* Faulty variant: the answer names positions of the list, not hashes.
MissingPositions(f) == {i \in DOMAIN f : ~cas[f[i]].live}

\* What the dedup query (BatchQueryExistingCAS) answers: the blocks of f that
\* have no row, for which the client gets upload URLs.
MissingBlocks(f) == {x \in {f[i] : i \in DOMAIN f} : ~cas[x].live}

\* handleInitiate creates a session for ALL the chunks of the file.  Nothing
\* pins the rows the dedup query found.
Initiate(s, n, f) ==
    /\ sessions[s].status = "NONE"
    /\ sessions' = [sessions EXCEPT ![s] =
          [status |-> "PENDING", node |-> n, expected_chunks |-> Len(f),
           expires_at |-> now + SessionTTL]]
    /\ UNCHANGED <<now, cas, manifest, versions, purged, blobs, tx>>

-----------------------------------------------------------------------------
(* POST /commit *)

\* handleCommit's pre-flight read of the session, outside the transaction.
\* Requests it rejects (404, 409, 410) change nothing.
StartCommit(r, s, f) ==
    /\ tx[r].pc = "idle"
    /\ SessionExists(s)
    /\ sessions[s].status # "COMPLETED"
    /\ ~SessionExpired(s)
    /\ tx' = [tx EXCEPT ![r] = [Idle EXCEPT !.pc = "begin", !.sess = s,
                                           !.file = f, !.start = now]]
    /\ UNCHANGED dbVars

\* Faulty variant: CommitFile trusts the pre-flight check of the status.
AdmitsCompleted(r) ==
    /\ SessionExists(tx[r].sess)
    /\ ~SessionExpired(tx[r].sess)
    /\ Len(tx[r].file) = sessions[tx[r].sess].expected_chunks

\* The conditions CommitFile checks on the session row it has locked.
SessionAdmits(r) ==
    LET s == tx[r].sess IN
    /\ SessionExists(s)
    /\ sessions[s].status # "COMPLETED"
    /\ ~SessionExpired(s)
    /\ Len(tx[r].file) = sessions[s].expected_chunks

\* SELECT the session FOR UPDATE, then validate it; an error rolls back.
LockSession(r) ==
    /\ tx[r].pc = "begin"
    /\ SessionFree(tx[r].sess)
    /\ tx' = [tx EXCEPT ![r] = IF SessionAdmits(r) THEN [@ EXCEPT !.pc = "node"]
                                                 ELSE Idle]
    /\ UNCHANGED dbVars

\* Faulty variant: the number is allocated without the node's row lock.
NumberWithoutLock(r) ==
    /\ tx[r].pc = "node"
    /\ tx' = [tx EXCEPT ![r].pc = "ensure", ![r].pos = 1,
                        ![r].num = next_version_number(TxNode(r))]
    /\ UNCHANGED dbVars

\* Lock the node row, allocate the version number, insert the version.
LockNode(r) ==
    /\ tx[r].pc = "node"
    /\ \A q \in Reqs : ~HoldsNode(q, TxNode(r))
    /\ tx' = [tx EXCEPT ![r].pc = "ensure", ![r].pos = 1,
                        ![r].num = next_version_number(TxNode(r))]
    /\ UNCHANGED dbVars

\* INSERT INTO cas_blocks ... ON CONFLICT DO NOTHING, one row: a committed
\* row is left as it is (and is not locked); a row another transaction has
\* inserted and not committed makes the statement wait for its outcome.
EnsureBlockRow(r) ==
    /\ tx[r].pc = "ensure"
    /\ \/ /\ cas[Block(r)].live \/ Block(r) \in tx[r].ins
          /\ tx' = [tx EXCEPT ![r] = Advance(r, "manifest")]
       \/ /\ ~cas[Block(r)].live
          /\ \A q \in Reqs : Block(r) \notin tx[q].ins
          /\ tx' = [tx EXCEPT ![r] = [Advance(r, "manifest") EXCEPT
                                        !.ins = @ \cup {Block(r)}]]
    /\ UNCHANGED dbVars

\* INSERT INTO file_manifest_blocks, one row, and its trigger
\* manifest_block_added: lock the cas_blocks row and add one to ref_count.
\* A row that is gone raises CAS_ROW_MISSING and rolls back.
AddManifestRow(r) ==
    /\ tx[r].pc = "manifest"
    /\ \/ /\ ~cas[Block(r)].live /\ Block(r) \notin tx[r].ins
          /\ tx' = [tx EXCEPT ![r] = Idle]
       \/ /\ cas[Block(r)].live \/ Block(r) \in tx[r].ins
          /\ \A q \in Reqs \ {r} : ~HoldsBlock(q, Block(r))
          /\ tx' = [tx EXCEPT ![r] = [Advance(r, "commit") EXCEPT
                                        !.bump[Block(r)] = @ + 1]]
    /\ UNCHANGED dbVars

\* The manifest rows the transaction of r has inserted.
TxRows(r) ==
    {[ver |-> TxVersion(r), idx |-> i, block |-> tx[r].file[i]] :
        i \in DOMAIN tx[r].file}

\* The cas_blocks row of b as the transaction of r leaves it.
TxCasRow(r, b) ==
    IF b \in tx[r].ins THEN NewRow(tx[r].bump[b], tx[r].start)
    ELSE [cas[b] EXCEPT !.ref_count = @ + tx[r].bump[b]]

\* Mark the session COMPLETED and COMMIT: every write becomes visible.
CommitTx(r) ==
    /\ tx[r].pc = "commit"
    /\ cas' = [b \in Blocks |-> TxCasRow(r, b)]
    /\ manifest' = manifest \cup TxRows(r)
    /\ versions' = versions \cup {TxVersion(r)}
    /\ sessions' = [sessions EXCEPT ![tx[r].sess].status = "COMPLETED"]
    /\ tx' = [tx EXCEPT ![r] =
          IF HasBlobStore THEN [Idle EXCEPT !.pc = "verify", !.sess = tx[r].sess,
                                           !.file = tx[r].file, !.pos = 1]
                          ELSE Idle]
    /\ UNCHANGED <<now, purged, blobs>>

\* Faulty variant: a failed HEAD starts the pass over the blocks again.
VerifyFromStart(r) ==
    /\ tx[r].pc = "verify"
    /\ \/ /\ Block(r) \in blobs
          /\ tx' = [tx EXCEPT ![r].pc = "mark"]
       \/ tx' = [tx EXCEPT ![r].pos = 1]
    /\ UNCHANGED dbVars

\* After the commit, per block: HEAD the object (VerifyBlock) ...
VerifyBlock(r) ==
    /\ tx[r].pc = "verify"
    /\ \/ /\ Block(r) \in blobs
          /\ tx' = [tx EXCEPT ![r].pc = "mark"]
       \/ tx' = [tx EXCEPT ![r] = IF LastPos(r) THEN Idle ELSE Advance(r, "idle")]
    /\ UNCHANGED dbVars

\* ... and UPDATE cas_blocks SET verified = TRUE when the ETag matched.
MarkBlockVerified(r) ==
    /\ tx[r].pc = "mark"
    /\ BlockFree(Block(r))
    /\ cas' = [cas EXCEPT ![Block(r)].verified = cas[Block(r)].live]
    /\ tx' = [tx EXCEPT ![r] = IF LastPos(r) THEN Idle
                               ELSE [tx[r] EXCEPT !.pc = "verify", !.pos = @ + 1]]
    /\ UNCHANGED <<now, manifest, versions, purged, sessions, blobs>>

\* r waits for a row that q has locked, or inserted and not committed.
WaitsFor(r, q) ==
    /\ r # q
    /\ \/ tx[r].pc = "begin" /\ HoldsSession(q, tx[r].sess)
       \/ tx[r].pc = "node" /\ HoldsNode(q, TxNode(r))
       \/ tx[r].pc = "ensure" /\ ~cas[Block(r)].live /\ Block(r) \in tx[q].ins
       \/ tx[r].pc = "manifest" /\ HoldsBlock(q, Block(r))

\* PostgreSQL's deadlock detector rolls back a member of a cycle of waiters
\* (40P01); CommitFile returns the error.
DeadlockVictim(r) ==
    /\ \E S \in SUBSET Reqs : /\ r \in S
                             /\ \A p \in S : \E q \in S : WaitsFor(p, q)
    /\ tx' = [tx EXCEPT ![r] = Idle]
    /\ UNCHANGED dbVars

\* Faulty variant: the cas_blocks rows are inserted outside the transaction.
AbortKeepsRows(r) ==
    /\ tx[r].pc # "idle"
    /\ cas' = [b \in Blocks |-> IF b \in tx[r].ins THEN NewRow(0, tx[r].start)
                                                   ELSE cas[b]]
    /\ tx' = [tx EXCEPT ![r] = Idle]
    /\ UNCHANGED <<now, manifest, versions, purged, sessions, blobs>>

\* A statement fails (a lost connection, a cancelled request) or the process
\* dies: the deferred Rollback, or the server, undoes an open transaction.
Abort(r) ==
    /\ tx[r].pc # "idle"
    /\ tx' = [tx EXCEPT ![r] = Idle]
    /\ UNCHANGED dbVars

-----------------------------------------------------------------------------
(* StartSessionReaper: expire_stale_upload_sessions deletes, row by row, the *)
(* sessions that expired before the grace period.  Its other condition, NOT  *)
(* is_completed, holds of every row: the commit writes `status` instead.     *)
ReapSession(s) ==
    /\ SessionExists(s)
    /\ sessions[s].expires_at < now - ReaperGrace
    /\ SessionFree(s)
    /\ sessions' = [sessions EXCEPT ![s].status = "DELETED"]
    /\ UNCHANGED <<now, cas, manifest, versions, purged, blobs, tx>>

\* Faulty variant: the removal trigger fires twice per row.
PurgeCountsTwice(v) ==
    /\ v \in versions
    /\ \A m \in VersionRows(v) : BlockFree(m.block) /\ cas[m.block].live
    /\ versions' = versions \ {v}
    /\ purged' = purged \cup {v}
    /\ manifest' = manifest \ VersionRows(v)
    /\ cas' = [b \in Blocks |-> [cas[b] EXCEPT !.ref_count =
                 @ - 2 * Cardinality(RowsOf(b) \cap VersionRows(v))]]
    /\ UNCHANGED <<now, sessions, blobs, tx>>

(* DELETE FROM file_versions: the cascade removes the manifest rows of v and *)
(* the trigger manifest_block_removed takes one off ref_count for each.  The *)
(* statement waits for the cas_blocks rows open transactions have locked.    *)
PurgeVersion(v) ==
    /\ v \in versions
    /\ \A m \in VersionRows(v) : BlockFree(m.block) /\ cas[m.block].live
    /\ versions' = versions \ {v}
    /\ purged' = purged \cup {v}
    /\ manifest' = manifest \ VersionRows(v)
    /\ cas' = [b \in Blocks |-> [cas[b] EXCEPT
                 !.ref_count = @ - Cardinality(RowsOf(b) \cap VersionRows(v))]]
    /\ UNCHANGED <<now, sessions, blobs, tx>>

=============================================================================
