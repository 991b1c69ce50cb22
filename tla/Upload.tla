--------------------------------- MODULE Upload ---------------------------------
(***************************************************************************)
(* UploadFile and ResumeUpload of the SDK (package aegis) down to the      *)
(* bytes: the file is opened three times (to chunk it, to read the chunks, *)
(* to hash it), the chunks are PUT by parallel goroutines with retries,    *)
(* and the first error returns while the other goroutines go on.  The      *)
(* server's handlers are reduced to what they promise the client: Ingest   *)
(* has their transactions.                                                 *)
(***************************************************************************)
EXTENDS FastCdc, FiniteSets

CONSTANTS Uploads,     \* calls of UploadFile or ResumeUpload
          Files,       \* contents the local file may have
          MaxParallel, \* defaultMaxParallel
          MaxRetries,  \* defaultMaxRetries
          MaxFaults,   \* bound on failed or unanswered calls
          MaxEdits,    \* bound on edits of the local file
          NoSha        \* the empty content_sha256

ASSUME UploadAssumption == /\ << >> \notin Files
                           /\ MaxParallel > 0 /\ MaxRetries > 0

VARIABLES file,     \* the local file
          up,       \* up[u]: the call u
          put,      \* put[u]: its work items, by position in the list asked for
          named,    \* the file's node exists in the namespace
          sessions, \* upload_sessions, in order of creation
          cas,      \* hashes with a row in cas_blocks
          bucket,   \* the stored blobs: key (a hash) to bytes
          single,   \* whether URLs carry a single-use token: no BlobStore
          spent,    \* URLs whose token was consumed
          versions, \* committed versions
          faults, edits,
          torn      \* history: the file was edited under a running upload

client == <<up, put>>
server == <<named, sessions, cas, bucket, single, spent, versions>>
world == <<file, faults, edits, torn>>
uploadVars == <<client, server, world>>

\* ask: the chunks sent to /initiate, all of them or, in a resume, the missing
\* why: what a failed call failed of (history)
NoUpload == [pc |-> "idle", kind |-> "new", chunks |-> << >>, ask |-> << >>,
             sess |-> 0, sha |-> NoSha, why |-> "none"]

UploadInit ==
    /\ file \in Files
    /\ up = [u \in Uploads |-> NoUpload]
    /\ put = [u \in Uploads |-> << >>]
    /\ named = FALSE
    /\ sessions = << >>
    /\ cas = {}
    /\ bucket = << >>
    /\ single \in BOOLEAN
    /\ spent = {}
    /\ versions = {}
    /\ faults = 0 /\ edits = 0 /\ torn = FALSE

Hashes(chunks) == {chunks[i].hash : i \in DOMAIN chunks}

Failed(u, why) == [up EXCEPT ![u].pc = "failed", ![u].why = why]

Fault == faults < MaxFaults /\ faults' = faults + 1 /\ UNCHANGED <<file, edits, torn>>

\* doJSON: the connection fails, or the status is not 2xx; the upload returns
\* the error.
NoAnswer(u) == Fault /\ up' = Failed(u, "fault")

-----------------------------------------------------------------------------
(* UploadFile and ResumeUpload, up to /initiate *)

\* The node is created ("new", no NodeID in the options) or given ("node").
UploadFile(u, kind) ==
    /\ up[u].pc = "idle"
    /\ kind = "node" => named
    /\ up' = [up EXCEPT ![u] = [NoUpload EXCEPT
                 !.pc = "node", !.kind = kind,
                 !.chunks = ChunkAll(file), !.ask = ChunkAll(file)]]
    /\ UNCHANGED <<put, server, world>>

\* state.Uploaded: the chunks OnChunkComplete reported.
Uploaded(x) == {up[x].ask[i].hash : i \in {j \in DOMAIN put[x] : put[x][j].pc = "done"}}

\* commitSession: nothing is missing, and the saved session is committed.
CommitSession(x, chunks) == [NoUpload EXCEPT !.pc = "hash", !.kind = "resume",
                                             !.sess = up[x].sess, !.chunks = chunks]

\* The application saves the session of the failed call x (SaveSession,
\* LoadSession) and resumes it: the file is chunked again, and what was not
\* uploaded is asked for.
ResumeUpload(u, x) ==
    LET chunks  == ChunkAll(file)
        missing == SelectSeq(chunks, LAMBDA c : c.hash \notin Uploaded(x))
    IN  /\ up[u].pc = "idle"
        /\ up[x].pc = "failed" /\ up[x].sess # 0
        /\ up' = [up EXCEPT ![u] =
              IF missing = << >> THEN CommitSession(x, chunks)
              ELSE [NoUpload EXCEPT !.pc = "node", !.kind = "resume",
                                    !.chunks = chunks, !.ask = missing]]
        /\ UNCHANGED <<put, server, world>>

\* A transaction of its own; it fails on a name that is taken.
CreateFileNode(u) ==
    /\ up[u].kind = "new"
    /\ up' = IF named THEN Failed(u, "name") ELSE [up EXCEPT ![u].pc = "session"]
    /\ named' = TRUE
    /\ UNCHANGED <<sessions, cas, bucket, single, spent, versions, world>>

\* The node that the options or the saved session name is there.
ValidateFileNode(u) ==
    /\ up[u].kind # "new"
    /\ up' = [up EXCEPT ![u].pc = "session"]
    /\ UNCHANGED <<server, world>>

\* handleInitiate's second step.
FileNode(u) ==
    /\ up[u].pc = "node"
    /\ \/ CreateFileNode(u)
       \/ ValidateFileNode(u)
       \/ NoAnswer(u) /\ UNCHANGED server
    /\ UNCHANGED put

\* Faulty variant: the session expects the chunks that are uploaded only.
ExpectedMissing(chunks) == Cardinality({i \in DOMAIN chunks : chunks[i].hash \notin cas})

\* expected_chunks = total, not just missing.
ExpectedChunks(chunks) == Len(chunks)

NewSession(u) == Append(sessions, [expected |-> ExpectedChunks(up[u].ask),
                                   status |-> "PENDING"])

\* The client makes a work item of every chunk that has a URL.
WorkItems(u) == [i \in {j \in DOMAIN up[u].ask : up[u].ask[j].hash \notin cas} |->
                    [pc |-> "wait", data |-> << >>, attempt |-> 0]]

\* After the uploads: ResumeUpload does not compute a hash.
AfterUpload(u) == IF up[u].kind = "resume" THEN "commit" ELSE "hash"

\* The rest of handleInitiate (dedup query, URLs, session) and its answer.  A
\* call that fails, or is not answered, ends the upload.
InitiateUpload(u) ==
    /\ up[u].pc = "session"
    /\ \/ /\ sessions' = NewSession(u)
          /\ put' = [put EXCEPT ![u] = WorkItems(u)]
          /\ up' = [up EXCEPT ![u].sess = Len(sessions) + 1,
                              ![u].pc = IF WorkItems(u) = << >> THEN AfterUpload(u)
                                                               ELSE "upload"]
          /\ UNCHANGED world
       \/ /\ NoAnswer(u)
          /\ sessions' \in {sessions, NewSession(u)}
          /\ UNCHANGED put
    /\ UNCHANGED <<named, cas, bucket, single, spent, versions>>

-----------------------------------------------------------------------------
(* uploadChunksParallel: the goroutine of work item i *)

Active(u) == {i \in DOMAIN put[u] : put[u][i].pc = "put"}

\* ReadAt of a chunk, short at the end of the file.
ReadAt(c) ==
    SubSeq(file, c.offset + 1,
           IF c.offset + c.size < Len(file) THEN c.offset + c.size ELSE Len(file))

\* Faulty variant: a goroutine that starts late opens the file again.
ReadReopened(u, i) ==
    /\ put[u][i].pc = "wait"
    /\ Cardinality(Active(u)) < MaxParallel
    /\ put' = [put EXCEPT ![u][i] =
                  [@ EXCEPT !.pc = "put", !.data = ReadAt(up[u].ask[i])]]
    /\ UNCHANGED <<up, server, world>>

\* The semaphore, then readChunkFromFile: an error once the call has returned
\* and closed the file.
ReadChunk(u, i) ==
    /\ put[u][i].pc = "wait"
    /\ Cardinality(Active(u)) < MaxParallel
    /\ put' = [put EXCEPT ![u][i] =
                  IF up[u].pc = "failed" THEN [@ EXCEPT !.pc = "failed"]
                  ELSE [@ EXCEPT !.pc = "put", !.data = ReadAt(up[u].ask[i])]]
    /\ UNCHANGED <<up, server, world>>

\* urlMap keeps one URL for a hash.
Url(u, i) == <<up[u].sess, up[u].ask[i].hash>>

Retried(u, i) ==
    [put EXCEPT ![u][i] = IF @.attempt + 1 < MaxRetries
                          THEN [@ EXCEPT !.attempt = @ + 1]
                          ELSE [@ EXCEPT !.pc = "failed"]]

\* isTransientError decides whether an error is worth another attempt.
AfterError(u, i) == {Retried(u, i), [put EXCEPT ![u][i].pc = "failed"]}

Store(u, i) == bucket' = (up[u].ask[i].hash :> put[u][i].data) @@ bucket

\* uploadChunkWithRetry: a PUT is stored and answered; or is refused, its
\* token spent (401, not transient); or the answer is lost, or a gateway
\* fails (502), before or behind the point where it is stored; or it fails
\* for good.  The edge consumes the token before it forwards the request.
PutChunk(u, i) ==
    /\ put[u][i].pc = "put"
    /\ \/ /\ single /\ Url(u, i) \in spent
          /\ put' = [put EXCEPT ![u][i].pc = "failed"]
          /\ UNCHANGED <<spent, bucket, world>>
       \/ /\ single => Url(u, i) \notin spent
          /\ spent' = spent \cup {Url(u, i)}
          /\ \/ Store(u, i) /\ put' = [put EXCEPT ![u][i].pc = "done"] /\ UNCHANGED world
             \/ Fault /\ Store(u, i) /\ put' = Retried(u, i)
             \/ Fault /\ UNCHANGED bucket /\ put' = Retried(u, i)
       \/ /\ Fault
          /\ put' \in AfterError(u, i)
          /\ UNCHANGED <<spent, bucket>>
    /\ UNCHANGED <<up, named, sessions, cas, single, versions>>

\* Faulty variant: the collector counts successes and drops errors.
CollectSuccesses(u) ==
    /\ up[u].pc = "upload"
    /\ \A i \in DOMAIN put[u] : put[u][i].pc = "done"
    /\ up' = [up EXCEPT ![u].pc = AfterUpload(u)]
    /\ UNCHANGED <<put, server, world>>

\* The loop over errChan: the first error returns, without waiting for the
\* other goroutines.
Collect(u) ==
    /\ up[u].pc = "upload"
    /\ \/ /\ \E i \in DOMAIN put[u] : put[u][i].pc = "failed"
          /\ up' = Failed(u, "chunk")
       \/ /\ \A i \in DOMAIN put[u] : put[u][i].pc = "done"
          /\ up' = [up EXCEPT ![u].pc = AfterUpload(u)]
    /\ UNCHANGED <<put, server, world>>

-----------------------------------------------------------------------------
(* Hash and /commit *)

\* ComputeFileSHA256FromReader, on the file opened once more.
HashFile(u) ==
    /\ up[u].pc = "hash"
    /\ up' = [up EXCEPT ![u].pc = "commit", ![u].sha = file]
    /\ UNCHANGED <<put, server, world>>

\* CommitRequest.Validate, and CommitFile's checks of the session.
Admitted(u) ==
    /\ up[u].sha # NoSha
    /\ sessions[up[u].sess].status # "COMPLETED"
    /\ sessions[up[u].sess].expected = Len(up[u].chunks)

CommitFile(u) ==
    /\ versions' = versions \cup {[sess |-> up[u].sess, sha |-> up[u].sha,
                                   blocks |-> up[u].chunks]}
    /\ cas' = cas \cup Hashes(up[u].chunks)
    /\ sessions' = [sessions EXCEPT ![up[u].sess].status = "COMPLETED"]

\* The whole block list is sent; a failed call is not retried.
CommitUpload(u) ==
    /\ up[u].pc = "commit"
    /\ \/ /\ Admitted(u)
          /\ CommitFile(u)
          /\ \/ up' = [up EXCEPT ![u].pc = "done"] /\ UNCHANGED world
             \/ NoAnswer(u)
       \/ /\ ~Admitted(u)
          /\ up' = Failed(u, "refused")
          /\ UNCHANGED <<versions, cas, sessions, world>>
       \/ NoAnswer(u) /\ UNCHANGED <<versions, cas, sessions>>
    /\ UNCHANGED <<put, named, bucket, single, spent>>

\* Someone writes the local file.
Edit(f) ==
    /\ edits < MaxEdits
    /\ f # file
    /\ file' = f
    /\ edits' = edits + 1
    /\ torn' = (torn \/ \E u \in Uploads : up[u].pc \in {"node", "session", "upload", "hash"})
    /\ UNCHANGED <<client, server, faults>>

-----------------------------------------------------------------------------
Items(u) == DOMAIN put[u]

CallStep(u) == \/ FileNode(u) \/ InitiateUpload(u) \/ Collect(u)
               \/ HashFile(u) \/ CommitUpload(u)

ItemStep(u, i) == ReadChunk(u, i) \/ PutChunk(u, i)

UploadNext ==
    \/ \E u \in Uploads :
          \/ \E kind \in {"new", "node"} : UploadFile(u, kind)
          \/ \E x \in Uploads : ResumeUpload(u, x)
          \/ CallStep(u)
          \/ \E i \in Items(u) : ItemStep(u, i)
    \/ \E f \in Files : Edit(f)

UploadSpec == UploadInit /\ [][UploadNext]_uploadVars

\* Calls have deadlines, and runnable goroutines run.
UploadFairSpec ==
    /\ UploadSpec
    /\ \A u \in Uploads : /\ WF_uploadVars(CallStep(u))
                          /\ WF_uploadVars(\E i \in Items(u) : ItemStep(u, i))

-----------------------------------------------------------------------------
(* Properties *)

Bytes(blocks) == FoldLeft(LAMBDA s, c : s \o bucket[c.hash], << >>, blocks)

\* What a version promises its readers: the blobs of its manifest, put together
\* in order, have its content_sha256.  It holds whatever calls fail, goroutines
\* of failed uploads are still writing, chunks are shared or uploads resumed, as
\* long as nobody edits the file under a running upload.
CommittedReassembles ==
    ~torn => \A v \in versions : /\ Hashes(v.blocks) \subseteq DOMAIN bucket
                                 /\ Bytes(v.blocks) = v.sha

\* The first upload of a name, or one that gives the node, fails only when a
\* call fails, or when single-use URLs meet a chunk that occurs twice: in
\* particular /commit never refuses what /initiate accepted.
FailsForCause ==
    \A u \in Uploads :
        up[u].pc = "failed" /\ up[u].kind # "resume" /\ faults = 0
            => \/ up[u].why = "name" /\ up[u].kind = "new"
               \/ /\ up[u].why = "chunk" /\ single
                  /\ Cardinality(Hashes(up[u].ask)) < Len(up[u].ask)

\* Every call returns, though its collector leaves goroutines behind.
UploadReturns ==
    \A u \in Uploads : up[u].pc # "idle" ~> up[u].pc \in {"done", "failed"}

\* "ResumeUpload resumes an upload from a saved session": /commit does not
\* refuse a resumed upload whose session is open.
ResumeCommits ==
    \A u \in Uploads :
        up[u].pc = "failed" /\ up[u].kind = "resume" /\ up[u].why = "refused"
            => sessions[up[u].sess].status = "COMPLETED"

=============================================================================
