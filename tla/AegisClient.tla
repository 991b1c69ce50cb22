------------------------------ MODULE AegisClient ------------------------------
(***************************************************************************)
(* The storage system with the repository's own client (package aegis): it *)
(* initiates a file, PUTs the blocks it was given upload URLs for, and     *)
(* commits the file when they are all stored.                              *)
(***************************************************************************)
EXTENDS AegisStore

VARIABLE client  \* client[s]: the file of session s, the blocks still to PUT

clientVars == <<vars, client>>

ClientTypeOK ==
    client \in [Sessions -> [file: Files \cup {<< >>}, missing: SUBSET Blocks]]

ClientInit ==
    /\ Init
    /\ client = [s \in Sessions |-> [file |-> << >>, missing |-> {}]]

\* UploadFile sends the chunk list and keeps the URLs of the answer.
ClientInitiate(s, n, f) ==
    /\ Initiate(s, n, f)
    /\ client' = [client EXCEPT ![s] = [file |-> f, missing |-> MissingBlocks(f)]]
    /\ UNCHANGED gcVars

\* uploadChunksParallel: one PUT of a block that has a URL.
PutBlob(s, b) ==
    /\ b \in client[s].missing
    /\ blobs' = blobs \cup {b}
    /\ client' = [client EXCEPT ![s].missing = @ \ {b}]
    /\ UNCHANGED <<now, cas, manifest, versions, purged, sessions, tx, gcVars>>

\* Faulty variant: the client commits before its uploads are done.
CommitEarly(r, s) ==
    /\ StartCommit(r, s, client[s].file)
    /\ UNCHANGED <<gcVars, client>>

\* The commit names every chunk of the file.
ClientCommit(r, s) ==
    /\ client[s].missing = {}
    /\ StartCommit(r, s, client[s].file)
    /\ UNCHANGED <<gcVars, client>>

ClientNext ==
    \/ SystemStep /\ UNCHANGED client
    \/ \E s \in Sessions, n \in Nodes, f \in Files : ClientInitiate(s, n, f)
    \/ \E s \in Sessions, b \in Blocks : PutBlob(s, b)
    \/ \E r \in Reqs, s \in Sessions : ClientCommit(r, s)

ClientSpec == ClientInit /\ [][ClientNext]_clientVars

\* A request handler keeps running; a waiter for a row lock is queued, so it
\* is not overtaken for ever (strong fairness); a deadlock is detected.
ClientFairSpec ==
    /\ ClientSpec
    /\ \A r \in Reqs : SF_clientVars(ServeCommit(r) /\ UNCHANGED <<gcVars, client>>)

-----------------------------------------------------------------------------
(* Properties *)

\* A blob is lost only to a purge of its own block: as long as no version with
\* the block was deleted, a committed block is stored, whatever the sweeps, the
\* consumers, crashes and failed calls in between do.
OnlyReleasedBlocksLost ==
    \A m \in manifest : m.block \in blobs
        \/ \E v \in purged : m.block \in {client[v.sess].file[i] :
                                            i \in DOMAIN client[v.sess].file}

\* I-1d: once a commit is acknowledged, every block of the version is in the
\* bucket.
BlobsPresent == \A m \in manifest : m.block \in blobs

=============================================================================
