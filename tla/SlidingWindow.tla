----------------------------- MODULE SlidingWindow -----------------------------
(***************************************************************************)
(* The sliding window of one tenant shared by all API pods                 *)
(* (internal/ingress/redis_ratelimit.go).  A pod reads its own clock, then *)
(* has Redis run the script; calls overtake each other in between, so the  *)
(* script may run with times that go back.  The pods' clocks agree.        *)
(***************************************************************************)
EXTENDS Naturals, FiniteSets

CONSTANTS Pods,       \* requests in flight, one to a pod
          Window,     \* windowSize
          Limit,      \* defaultLimit
          MaxHits,    \* bound on the requests the script admits
          WindowEnd   \* bound on the clock

ASSUME WindowAssumption == {Window, Limit, MaxHits, WindowEnd} \subseteq Nat

VARIABLES wclock, \* the time
          zset,   \* aegis:ratelimit:{tenant}: members <<number, score>>
          ttl,    \* when the key expires
          req,    \* req[p]: pending with the time it read, or idle
          hits,   \* history: every member ever added
          lag     \* history: the longest any call took to reach the script

windowVars == <<wclock, zset, ttl, req, hits, lag>>

WindowTimes == 0 .. WindowEnd

WindowInit == /\ wclock = 0
              /\ zset = {}
              /\ ttl = 0
              /\ req = [p \in Pods |-> [pc |-> "idle", now |-> 0]]
              /\ hits = {}
              /\ lag = 0

WindowTypeOK == /\ wclock \in WindowTimes
                /\ zset \subseteq (1 .. MaxHits) \X WindowTimes
                /\ ttl \in Nat
                /\ req \in [Pods -> [pc: {"idle", "run"}, now: WindowTimes]]
                /\ hits \subseteq (1 .. MaxHits) \X WindowTimes
                /\ lag \in WindowTimes

\* Middleware up to the call of Redis.
Middleware(p) ==
    /\ req[p].pc = "idle"
    /\ req' = [req EXCEPT ![p] = [pc |-> "run", now |-> wclock]]
    /\ UNCHANGED <<wclock, zset, ttl, hits, lag>>

\* Faulty variant: a member that is Window old to the tick is kept out of the
\* count one tick early.
CountedEarly(now) == {m \in zset : m[2] + Window > now + 1}

\* ZREMRANGEBYSCORE and ZCARD: what is left at the caller's time.
Counted(now) == {m \in zset : m[2] + Window > now}

\* The script, atomic in Redis.  A refused call has removed members too.
SlidingWindowScript(p) ==
    LET now == req[p].now
        hit == <<Cardinality(hits) + 1, now>>
    IN  /\ req[p].pc = "run"
        /\ Cardinality(hits) < MaxHits
        /\ IF Cardinality(Counted(now)) < Limit
           THEN /\ zset' = Counted(now) \cup {hit}
                /\ ttl' = wclock + Window
                /\ hits' = hits \cup {hit}
           ELSE /\ zset' = Counted(now)
                /\ UNCHANGED <<ttl, hits>>
        /\ lag' = IF wclock - now > lag THEN wclock - now ELSE lag
        /\ req' = [req EXCEPT ![p].pc = "idle"]
        /\ UNCHANGED wclock

\* Redis fails: the request is served and leaves no trace.
FailOpen(p) ==
    /\ req[p].pc = "run"
    /\ req' = [req EXCEPT ![p].pc = "idle"]
    /\ UNCHANGED <<wclock, zset, ttl, hits, lag>>

\* PEXPIRE: the key goes Window after the last member was added.
WindowTick == /\ wclock < WindowEnd
              /\ wclock' = wclock + 1
              /\ zset' = IF wclock + 1 >= ttl THEN {} ELSE zset
              /\ UNCHANGED <<ttl, req, hits, lag>>

WindowNext == WindowTick \/ \E p \in Pods :
                  Middleware(p) \/ SlidingWindowScript(p) \/ FailOpen(p)

WindowSpec == WindowInit /\ [][WindowNext]_windowVars

-----------------------------------------------------------------------------
\* "atomic sliding-window rate limiting across API pods": calls that overtake
\* each other cost the limiter no more than their delay.  In a stretch of time
\* shorter than the window by the longest delay, at most Limit requests pass
\* the script, on whichever pods; when no call is delayed, that is the window.
WindowBound ==
    \A s \in WindowTimes :
        Cardinality({m \in hits : m[2] >= s /\ m[2] + lag < s + Window}) <= Limit

=============================================================================
