----------------------------- MODULE TenantBucket -----------------------------
(***************************************************************************)
(* The token bucket of one tenant (internal/ingress/ratelimit.go).  The    *)
(* clock is read before the bucket's mutex is taken, so requests may       *)
(* consume in another order than they read it.  Tokens are fractions in    *)
(* the code; here they are counted in units, Cost of them to a request.    *)
(***************************************************************************)
EXTENDS Naturals

CONSTANTS Calls,     \* calls of Allow
          Cost,      \* units in one token
          Burst,     \* units in a full bucket
          Refill,    \* units per tick of the clock
          ClockEnd   \* bound on the clock

ASSUME BucketAssumption == {Cost, Burst, Refill, ClockEnd} \subseteq Nat

VARIABLES clock,  \* the time
          bucket, \* the bucket; made is FALSE until the first request
          call,   \* call[c]: pending with the time it read, or idle
          since   \* history: since[s]: requests granted with lastTime >= s

bucketVars == <<clock, bucket, call, since>>

Times == 0 .. ClockEnd

BucketInit ==
    /\ clock = 0
    /\ bucket = [made |-> FALSE, tokens |-> 0, lastTime |-> 0]
    /\ call = [c \in Calls |-> [pc |-> "idle", t |-> 0]]
    /\ since = [s \in Times |-> 0]

BucketTypeOK ==
    /\ clock \in Times
    /\ bucket \in [made: BOOLEAN, tokens: 0 .. Burst, lastTime: Times]
    /\ call \in [Calls -> [pc: {"idle", "allow"}, t: Times]]
    /\ since \in [Times -> Nat]

\* getBucket makes a full bucket for a new tenant; then the clock is read.
GetBucket(c) ==
    /\ call[c].pc = "idle"
    /\ bucket' = IF bucket.made THEN bucket
                 ELSE [made |-> TRUE, tokens |-> Burst, lastTime |-> clock]
    /\ call' = [call EXCEPT ![c] = [pc |-> "allow", t |-> clock]]
    /\ UNCHANGED <<clock, since>>

\* Faulty variant: the bucket keeps growing while its tenant is idle.
RefilledUncapped(t) ==
    IF t > bucket.lastTime
    THEN [bucket EXCEPT !.tokens = @ + (t - bucket.lastTime) * Refill, !.lastTime = t]
    ELSE bucket

\* The bucket refilled for a caller that read time t: not at all when a
\* later reader came first.
Refilled(t) ==
    LET full == bucket.tokens + (t - bucket.lastTime) * Refill
    IN  IF t > bucket.lastTime
        THEN [bucket EXCEPT !.tokens = IF full > Burst THEN Burst ELSE full,
                            !.lastTime = t]
        ELSE bucket

Allow(c) ==
    LET b == Refilled(call[c].t)
    IN  /\ call[c].pc = "allow"
        /\ \/ /\ b.tokens >= Cost
              /\ bucket' = [b EXCEPT !.tokens = @ - Cost]
              /\ since' = [s \in Times |-> IF s <= b.lastTime THEN since[s] + 1
                                              ELSE since[s]]
           \/ /\ b.tokens < Cost
              /\ bucket' = b
              /\ UNCHANGED since
        /\ call' = [call EXCEPT ![c].pc = "idle"]
        /\ UNCHANGED clock

ClockTick == /\ clock < ClockEnd
             /\ clock' = clock + 1
             /\ UNCHANGED <<bucket, call, since>>

BucketNext == ClockTick \/ \E c \in Calls : GetBucket(c) \/ Allow(c)

BucketSpec == BucketInit /\ [][BucketNext]_bucketVars

-----------------------------------------------------------------------------
\* "request-per-second budget with burst capacity": over any stretch of the
\* bucket's time, however callers overtake each other between the clock and
\* the mutex, a tenant gets at most a full bucket and what the stretch
\* refilled.
BurstBound ==
    \A s \in Times :
        s <= bucket.lastTime =>
            Cost * since[s] <= Burst + (bucket.lastTime - s) * Refill

=============================================================================
