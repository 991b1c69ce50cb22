------------------------------ MODULE WorkerPool ------------------------------
(***************************************************************************)
(* The derivation worker pool (internal/derivation/pool.go, retry.go,      *)
(* dlq.go, store.go) and its workers (internal/workers).  One event is     *)
(* processed at a time, by one goroutine per worker that wants it; the     *)
(* goroutines interleave.  Results and dead letters live in the memory of  *)
(* the process, as both programs wire them.                                *)
(***************************************************************************)
EXTENDS Naturals

CONSTANTS Versions,     \* committed file versions
          Workers,      \* registered workers
          MimeType,     \* MimeType[v]: the kind of file v is; a PDF is an image
          MaxAttempts   \* RetryConfig.MaxAttempts

ASSUME PoolAssumption ==
    /\ Workers \subseteq {"clamav", "ocr", "ffmpeg", "vector-embed"}
    /\ MimeType \in [Versions -> {"image", "video", "audio", "text", "other"}]
    /\ MaxAttempts \in Nat \ {0}

VARIABLES job,     \* job[w]: the goroutine of worker w for the current event
          results, \* the result store
          dlq,     \* the pool's dead letter queue
          settled  \* history: <<v, w>> that some processWithRetry finished

poolVars == <<job, results, dlq, settled>>

Job == [pc: {"idle", "attempt", "again", "enqueue", "save", "done"},
        n: 1 .. MaxAttempts, status: {"SUCCESS", "FAILED"}]

NoJob == [pc |-> "idle", n |-> 1, status |-> "SUCCESS"]

PoolInit == /\ job = [w \in Workers |-> NoJob]
            /\ results = {}
            /\ dlq = {}
            /\ settled = {}

PoolTypeOK == /\ job \in [Workers -> Job]
              /\ results \subseteq Versions \X Workers \X {"SUCCESS", "FAILED"}
              /\ dlq \subseteq Versions \X Workers
              /\ settled \subseteq Versions \X Workers

IsImage(mime) == mime = "image"

IsVideo(mime) == mime = "video"

IsEmbeddable(mime) == IsImage(mime) \/ IsVideo(mime) \/ mime \in {"audio", "text"}

ShouldProcess(w, mime) == CASE w = "clamav" -> TRUE
                            [] w = "ocr" -> IsImage(mime)
                            [] w = "ffmpeg" -> IsVideo(mime)
                            [] w = "vector-embed" -> IsEmbeddable(mime)

WantedBy(v) == {w \in Workers : ShouldProcess(w, MimeType[v])}

\* Process of OCR, ffmpeg and the embedder: without chunks an error that is
\* not transient; otherwise the block reader and the tool decide: a result, a
\* transient or a permanent error.
Derived(chunks) == IF chunks THEN {"success", "transient", "permanent"}
                   ELSE {"permanent"}

\* Process of the scanner, to which a virus is a FAILED result and no error.
Scanned(chunks) == Derived(chunks) \cup (IF chunks THEN {"infected"} ELSE {})

Outcomes(w, chunks) == IF w = "clamav" THEN Scanned(chunks) ELSE Derived(chunks)

\* IsTransient: timeouts, refused connections, throttling.
Transient(o) == o = "transient"

\* ProcessEvent starts one goroutine per worker that wants the event.
ProcessEvent(v) ==
    job' = [w \in Workers |-> [NoJob EXCEPT
              !.pc = IF w \in WantedBy(v) THEN "attempt" ELSE "done"]]

\* wg.Wait().
AllDone == \A w \in Workers : job[w].pc = "done"

\* Some returned result is FAILED.
AnyFailed == \E w \in Workers : job[w].status = "FAILED"

\* One round of RetryWithBackoff; the backoff ends early when ctx is done.
Attempt(w, chunks, cancelled) ==
    /\ job[w].pc = "attempt"
    /\ \E o \in Outcomes(w, chunks) :
         job' = [job EXCEPT ![w] =
           CASE o \in {"success", "infected"} -> [@ EXCEPT !.pc = "again"]
             [] Transient(o) /\ @.n < MaxAttempts /\ ~cancelled ->
                  [@ EXCEPT !.n = @ + 1]
             [] OTHER -> [@ EXCEPT !.pc = "enqueue", !.status = "FAILED"]]
    /\ UNCHANGED <<results, dlq, settled>>

\* The worker runs once more for its result; an error now is a FAILED result
\* and no dead letter.
ProcessAgain(w, chunks) ==
    /\ job[w].pc = "again"
    /\ \E o \in Outcomes(w, chunks) :
         job' = [job EXCEPT ![w].pc = "save",
                            ![w].status = IF o = "success" THEN "SUCCESS" ELSE "FAILED"]
    /\ UNCHANGED <<results, dlq, settled>>

Enqueue(v, w) ==
    /\ job[w].pc = "enqueue"
    /\ dlq' = dlq \cup {<<v, w>>}
    /\ job' = [job EXCEPT ![w].pc = "save"]
    /\ UNCHANGED <<results, settled>>

\* saveResult; the in-memory store cannot fail.
SaveResult(v, w) ==
    /\ job[w].pc = "save"
    /\ results' = results \cup {<<v, w, job[w].status>>}
    /\ settled' = settled \cup {<<v, w>>}
    /\ job' = [job EXCEPT ![w].pc = "done"]
    /\ UNCHANGED dlq

PoolStep(v, w, chunks, cancelled) ==
    Attempt(w, chunks, cancelled) \/ ProcessAgain(w, chunks)
        \/ Enqueue(v, w) \/ SaveResult(v, w)

\* The process dies: everything but history is gone.
PoolDies == /\ job' = [w \in Workers |-> NoJob]
            /\ results' = {}
            /\ dlq' = {}
            /\ UNCHANGED settled

\* Every worker that wants the version has finished with it at least once.
Settled(v) == \A w \in WantedBy(v) : <<v, w>> \in settled

=============================================================================
