------------------------------ MODULE Idempotency ------------------------------
(***************************************************************************)
(* The idempotency middleware (internal/ingress/idempotency.go): requests  *)
(* with one Idempotency-Key of one tenant.  An execution of the wrapped    *)
(* handler is known by its number; its answer, success or error, is that   *)
(* number.  A key may expire at any moment, sooner than a handler ends.    *)
(***************************************************************************)
EXTENDS Naturals

CONSTANTS Requests, \* requests with the key, the client's retries included
          MaxRuns   \* bound on the executions

ASSUME IdempotencyAssumption == MaxRuns \in Nat

VARIABLES slot,     \* aegis:idempotency:{tenant}:{key}
          hreq,     \* hreq[r]: the request
          runs,     \* history: executions so far
          fenced,   \* history: the last execution that had won the key
          outlived  \* history: a key expired while its handler ran

idemVars == <<slot, hreq, runs, fenced, outlived>>

\* "IN_PROGRESS", or the CachedResponse of execution run.
Slot == [state: {"free", "IN_PROGRESS", "cached"}, run: Nat]

Free == [state |-> "free", run |-> 0]

\* own: this execution won the key and will record its answer.
HReq == [pc: {"idle", "fence", "get", "next", "set"}, run: Nat, own: BOOLEAN]

NoHReq == [pc |-> "idle", run |-> 0, own |-> FALSE]

IdemTypeOK == /\ slot \in Slot
              /\ hreq \in [Requests -> HReq]
              /\ runs \in Nat
              /\ fenced \in Nat
              /\ outlived \in BOOLEAN

IdemInit == /\ slot = Free
            /\ hreq = [r \in Requests |-> NoHReq]
            /\ runs = 0
            /\ fenced = 0
            /\ outlived = FALSE

Arrive(r) ==
    /\ hreq[r].pc = "idle"
    /\ hreq' = [hreq EXCEPT ![r].pc = "fence"]
    /\ UNCHANGED <<slot, runs, fenced, outlived>>

\* next(w, r) begins.
Execute(r, own) ==
    /\ runs < MaxRuns
    /\ runs' = runs + 1
    /\ hreq' = [hreq EXCEPT ![r] = [pc |-> "next", run |-> runs + 1, own |-> own]]

\* Faulty variant: GET and SET instead of SETNX.
FenceOverwrites(r) ==
    /\ hreq[r].pc = "fence"
    /\ slot.state # "cached"
    /\ Execute(r, TRUE)
    /\ slot' = [state |-> "IN_PROGRESS", run |-> runs + 1]
    /\ fenced' = runs + 1
    /\ UNCHANGED outlived

\* SETNX: won, taken, or an error, on which the request goes ahead unfenced.
Fence(r) ==
    /\ hreq[r].pc = "fence"
    /\ \/ /\ slot.state = "free"
          /\ Execute(r, TRUE)
          /\ slot' = [state |-> "IN_PROGRESS", run |-> runs + 1]
          /\ fenced' = runs + 1
       \/ /\ slot.state # "free"
          /\ hreq' = [hreq EXCEPT ![r].pc = "get"]
          /\ UNCHANGED <<slot, runs, fenced>>
       \/ /\ Execute(r, FALSE)
          /\ UNCHANGED <<slot, fenced>>
    /\ UNCHANGED outlived

\* GET: the cached answer is replayed; otherwise 409, also when the key has
\* expired since, or cannot be read.
Replay(r) ==
    /\ hreq[r].pc = "get"
    /\ hreq' = [hreq EXCEPT ![r] = NoHReq]
    /\ UNCHANGED <<slot, runs, fenced, outlived>>

\* The handler has answered; an unfenced one leaves no trace.
Handled(r) ==
    /\ hreq[r].pc = "next"
    /\ hreq' = [hreq EXCEPT ![r] = IF @.own THEN [@ EXCEPT !.pc = "set"] ELSE NoHReq]
    /\ UNCHANGED <<slot, runs, fenced, outlived>>

\* SET of the recorded answer; its error is dropped.
Record(r) ==
    /\ hreq[r].pc = "set"
    /\ \/ slot' = [state |-> "cached", run |-> hreq[r].run]
       \/ UNCHANGED slot
    /\ hreq' = [hreq EXCEPT ![r] = NoHReq]
    /\ UNCHANGED <<runs, fenced, outlived>>

\* The process dies, or the request is cancelled before its SET.
Die(r) ==
    /\ hreq[r].pc # "idle"
    /\ hreq' = [hreq EXCEPT ![r] = NoHReq]
    /\ UNCHANGED <<slot, runs, fenced, outlived>>

\* Some request still runs under the key.
Running == \E r \in Requests : hreq[r].own

\* Faulty variant: SETNX without an expiry.
NoExpiry ==
    /\ slot.state = "cached"
    /\ slot' = Free
    /\ UNCHANGED <<hreq, runs, fenced, outlived>>

KeyExpires ==
    /\ slot.state # "free"
    /\ slot' = Free
    /\ outlived' = (outlived \/ Running)
    /\ UNCHANGED <<hreq, runs, fenced>>

IdemNext == \/ KeyExpires
            \/ \E r \in Requests : \/ Arrive(r) \/ Fence(r) \/ Replay(r)
                                   \/ Handled(r) \/ Record(r) \/ Die(r)

IdemSpec == IdemInit /\ [][IdemNext]_idemVars

-----------------------------------------------------------------------------
(* Properties *)

\* As long as no handler outlived its key, one execution at a time runs under
\* the key, and what the middleware replays is the answer of the last
\* execution that won it: a retry is never told an older outcome.  Requests
\* that went ahead because Redis failed are outside the fence.
ReplaysLatestRun ==
    ~outlived =>
        /\ slot.state # "free" => slot.run = fenced
        /\ \A r, q \in Requests : hreq[r].own /\ hreq[q].own => r = q

\* An execution that died without an answer does not block the key for good:
\* retries stop getting 409.
KeyReleased == slot.state = "IN_PROGRESS" /\ ~Running ~> slot.state # "IN_PROGRESS"

=============================================================================
