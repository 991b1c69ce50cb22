------------------------------- MODULE LeaderGc -------------------------------
(***************************************************************************)
(* The leader-elected sweep: LeaderElection (internal/lock/leader.go),     *)
(* LeaderGCSweeper (internal/gc/leader.go) and, beside it, the lock-free   *)
(* worker of the block registry (internal/cas/gc.go, registry.go).         *)
(*                                                                         *)
(* Every pod runs its campaign and its sweep in two goroutines that share  *)
(* only isLeader.  A row of cas_blocks is absent, live (ref_count > 0) or  *)
(* an orphan past the safety window.  Failures (an error or a lost answer  *)
(* of a remote call, a lease that lapses in use, a crash, a shutdown) are  *)
(* drawn from a budget, so that liveness can speak of what happens after   *)
(* the last of them.                                                       *)
(***************************************************************************)
EXTENDS RedisLock, FiniteSets

CONSTANTS Pods,      \* replicas that campaign and sweep
          Blocks,    \* block hashes; each is a lock resource too
          LeaderKey, \* LeaderConfig.Resource
          None,      \* no block in hand
          MaxFaults  \* bound on the failures

ASSUME LeaderAssumption == /\ Resources = Blocks \cup {LeaderKey}
                           /\ LeaderKey \notin Blocks
                           /\ None \notin Blocks
                           /\ MaxFaults \in Nat
                           /\ Tokens \subseteq Nat

\* uuid.New() never runs out: more tokens than keys and goroutines can have.
ASSUME FreshAssumption ==
    /\ IsFiniteSet(Resources) /\ IsFiniteSet(Pods)
    /\ IsFiniteSet(Tokens) =>
          Cardinality(Tokens) > Cardinality(Resources) + 2 * Cardinality(Pods)

VARIABLES el,     \* el[p]: the election goroutine; tok is activeTok
          sw,     \* sw[p]: RunLeaderSweep
          wk,     \* the GCWorker's sweep
          row,    \* row[b]: the row of cas_blocks
          blobs,  \* stored objects
          tombs,  \* blocks with a published tombstone
          faults  \* failures so far

leaderVars == <<key, el, sw, wk, row, blobs, tombs, faults>>

Election == [pc: {"run", "resigned", "down"}, tok: Tokens \cup {NoToken}]

NoElection == [pc |-> "run", tok |-> NoToken]

Sweep == [pc: {"idle", "find", "lock", "check", "publish", "delete", "unlock"},
          todo: SUBSET Blocks, cur: Blocks \cup {None},
          tok: Tokens \cup {NoToken}]

NoSweep == [pc |-> "idle", todo |-> {}, cur |-> None, tok |-> NoToken]

Worker == [pc: {"idle", "blobs", "rows"}, batch: SUBSET Blocks,
           todo: SUBSET Blocks]

NoWorker == [pc |-> "idle", batch |-> {}, todo |-> {}]

LeaderTypeOK ==
    /\ LockTypeOK
    /\ el \in [Pods -> Election]
    /\ sw \in [Pods -> Sweep]
    /\ wk \in Worker
    /\ row \in [Blocks -> {"absent", "live", "orphan"}]
    /\ blobs \subseteq Blocks
    /\ tombs \subseteq Blocks
    /\ faults \in 0 .. MaxFaults

LeaderInit ==
    /\ LockInit
    /\ el = [p \in Pods |-> NoElection]
    /\ sw = [p \in Pods |-> NoSweep]
    /\ wk = NoWorker
    /\ row = [b \in Blocks |-> "orphan"]
    /\ blobs = Blocks
    /\ tombs = {}
    /\ faults = 0

\* IsLeader(): isLeader and activeTok are set and cleared together.
IsLeader(p) == el[p].tok # NoToken

\* uuid.New(): a token no key and no goroutine has.
FreshToken == CHOOSE t \in Tokens :
                 /\ \A r \in Resources : key[r] # t
                 /\ \A p \in Pods : el[p].tok # t /\ sw[p].tok # t

Fault == faults < MaxFaults /\ faults' = faults + 1

Orphans == {b \in Blocks : row[b] = "orphan"}

-----------------------------------------------------------------------------
(* LeaderElection *)

\* step() of a leader: refresh, or step down when the lease is not its own.
Renew(p) ==
    /\ el[p].pc = "run"
    /\ IsLeader(p)
    /\ ~Refreshed(LeaderKey, el[p].tok)
    /\ el' = [el EXCEPT ![p].tok = NoToken]
    /\ UNCHANGED <<key, sw, wk, row, blobs, tombs, faults>>

\* The refresh fails, done or not: step down, and the key stays.
RenewFails(p) ==
    /\ el[p].pc = "run"
    /\ IsLeader(p)
    /\ Fault
    /\ el' = [el EXCEPT ![p].tok = NoToken]
    /\ UNCHANGED <<key, sw, wk, row, blobs, tombs>>

\* step() of a follower: campaign.
Campaign(p) ==
    /\ el[p].pc = "run"
    /\ ~IsLeader(p)
    /\ SetNX(LeaderKey, FreshToken)
    /\ \/ /\ el' = [el EXCEPT ![p].tok = FreshToken]
          /\ UNCHANGED faults
       \/ Fault /\ UNCHANGED el          \* the answer is lost
    /\ UNCHANGED <<sw, wk, row, blobs, tombs>>

\* ctx.Done or stopChan: Resign releases the lease, then clears isLeader.
Resign(p) ==
    /\ el[p].pc = "run"
    /\ Fault
    /\ IF IsLeader(p)
       THEN /\ Unlock(LeaderKey, el[p].tok) \/ UNCHANGED key
            /\ el' = [el EXCEPT ![p].pc = "resigned"]
       ELSE /\ el' = [el EXCEPT ![p].pc = "down"]
            /\ UNCHANGED key
    /\ UNCHANGED <<sw, wk, row, blobs, tombs>>

Resigned(p) ==
    /\ el[p].pc = "resigned"
    /\ el' = [el EXCEPT ![p] = [pc |-> "down", tok |-> NoToken]]
    /\ UNCHANGED <<key, sw, wk, row, blobs, tombs, faults>>

\* The process is killed in the middle of whatever it does.
Crash(p) ==
    /\ el[p].pc # "down"
    /\ Fault
    /\ el' = [el EXCEPT ![p] = [pc |-> "down", tok |-> NoToken]]
    /\ sw' = [sw EXCEPT ![p] = NoSweep]
    /\ UNCHANGED <<key, wk, row, blobs, tombs>>

\* A new process campaigns under the pod's name, once the old one is gone.
StartCampaign(p) ==
    /\ el[p].pc = "down"
    /\ sw[p].pc = "idle"
    /\ el' = [el EXCEPT ![p] = NoElection]
    /\ UNCHANGED <<key, sw, wk, row, blobs, tombs, faults>>

\* Faulty variant: SET NX without PX.
NoTTL(r) ==
    /\ \E p \in Pods : key[r] \in {el[p].tok, sw[p].tok}
    /\ Expires(r)
    /\ Fault
    /\ UNCHANGED <<el, sw, wk, row, blobs, tombs>>

\* A lease in use lapses when its owner is late, a fault; a key whose owner is
\* gone just runs out.
Lapse(r) ==
    /\ Expires(r)
    /\ IF \E p \in Pods : key[r] \in {el[p].tok, sw[p].tok}
       THEN Fault ELSE UNCHANGED faults
    /\ UNCHANGED <<el, sw, wk, row, blobs, tombs>>

-----------------------------------------------------------------------------
(* LeaderGCSweeper.RunLeaderSweep *)

SweepAt(p, pc) == sw' = [sw EXCEPT ![p].pc = pc]

RunLeaderSweep(p) ==
    /\ sw[p].pc = "idle"
    /\ IsLeader(p)
    /\ SweepAt(p, "find")
    /\ UNCHANGED <<key, el, wk, row, blobs, tombs, faults>>

FindOrphanedBlocks(p) ==
    /\ sw[p].pc = "find"
    /\ \/ /\ sw' = [sw EXCEPT ![p].todo = Orphans,
                              ![p].pc = IF Orphans = {} THEN "idle" ELSE "lock"]
          /\ UNCHANGED faults
       \/ Fault /\ SweepAt(p, "idle")
    /\ UNCHANGED <<key, el, wk, row, blobs, tombs>>

\* The next block of the batch without block b: the lock, or the end.
Next(s, b) == [NoSweep EXCEPT !.todo = s.todo \ {b},
                              !.pc = IF s.todo \subseteq {b} THEN "idle" ELSE "lock"]

\* The lock of a block for 10 s; a held lock, or an error, skips the block.
LockBlock(p, b) ==
    /\ sw[p].pc = "lock"
    /\ b \in sw[p].todo
    /\ \/ /\ SetNX(b, FreshToken)
          /\ sw' = [sw EXCEPT ![p].pc = "check", ![p].cur = b,
                              ![p].tok = FreshToken]
          /\ UNCHANGED faults
       \/ /\ key[b] # NoToken
          /\ sw' = [sw EXCEPT ![p] = Next(sw[p], b)]
          /\ UNCHANGED <<key, faults>>
       \/ /\ Fault
          /\ SetNX(b, FreshToken) \/ UNCHANGED key
          /\ sw' = [sw EXCEPT ![p] = Next(sw[p], b)]
    /\ UNCHANGED <<el, wk, row, blobs, tombs>>

DoubleCheckBlock(p) ==
    /\ sw[p].pc = "check"
    /\ \/ /\ SweepAt(p, IF row[sw[p].cur] = "orphan" THEN "publish" ELSE "unlock")
          /\ UNCHANGED faults
       \/ Fault /\ SweepAt(p, "unlock")
    /\ UNCHANGED <<key, el, wk, row, blobs, tombs>>

\* KafkaBus: the message reaches the topic, or it does not; an asynchronous
\* writer does not even answer with an error.
PublishBlockTombstone(b) ==
    \/ tombs' = tombs \cup {b} /\ UNCHANGED faults
    \/ Fault /\ UNCHANGED tombs

\* The publisher's error is dropped, and the row goes all the same.
PublishTombstone(p) ==
    /\ sw[p].pc = "publish"
    /\ PublishBlockTombstone(sw[p].cur)
    /\ SweepAt(p, "delete")
    /\ UNCHANGED <<key, el, wk, row, blobs>>

\* DELETE ... AND ref_count = 0, of the rows in the set.
AfterDelete(bs) == [b \in Blocks |-> IF b \in bs /\ row[b] = "orphan"
                                     THEN "absent" ELSE row[b]]

HardDeleteBlock(p) ==
    /\ sw[p].pc = "delete"
    /\ \/ row' = AfterDelete({sw[p].cur}) /\ UNCHANGED faults
       \/ Fault /\ UNCHANGED row
    /\ SweepAt(p, "unlock")
    /\ UNCHANGED <<key, el, wk, blobs, tombs>>

UnlockBlock(p) ==
    /\ sw[p].pc = "unlock"
    /\ \/ Unlock(sw[p].cur, sw[p].tok) /\ UNCHANGED faults
       \/ Fault /\ UNCHANGED key
    /\ sw' = [sw EXCEPT ![p] = Next(sw[p], sw[p].cur)]
    /\ UNCHANGED <<el, wk, row, blobs, tombs>>

-----------------------------------------------------------------------------
(* cas.GCWorker.sweep, and the transactions that use the registry *)

FindOrphans ==
    /\ wk.pc = "idle"
    /\ Orphans # {}
    /\ wk' = [pc |-> "blobs", batch |-> Orphans, todo |-> Orphans]
    /\ UNCHANGED <<key, el, sw, row, blobs, tombs, faults>>

\* Best effort: a failed blob delete is logged.
WorkerDeleteBlob(b) ==
    /\ wk.pc = "blobs"
    /\ b \in wk.todo
    /\ \/ blobs' = blobs \ {b} /\ UNCHANGED faults
       \/ Fault /\ UNCHANGED blobs
    /\ wk' = [wk EXCEPT !.todo = @ \ {b},
                        !.pc = IF wk.todo = {b} THEN "rows" ELSE @]
    /\ UNCHANGED <<key, el, sw, row, tombs>>

DeleteBlocks ==
    /\ wk.pc = "rows"
    /\ \/ row' = AfterDelete(wk.batch) /\ UNCHANGED faults
       \/ Fault /\ UNCHANGED row
    /\ wk' = NoWorker
    /\ UNCHANGED <<key, el, sw, blobs, tombs>>

\* A commit inserts the row if it is missing, its block being uploaded then,
\* and counts a reference.
Reference(b) ==
    /\ row[b] # "live"
    /\ row' = [row EXCEPT ![b] = "live"]
    /\ blobs' = IF row[b] = "absent" THEN blobs \cup {b} ELSE blobs
    /\ UNCHANGED <<key, el, sw, wk, tombs, faults>>

\* The last version with the block is deleted.
Unreference(b) ==
    /\ row[b] = "live"
    /\ row' = [row EXCEPT ![b] = "orphan"]
    /\ UNCHANGED <<key, el, sw, wk, blobs, tombs, faults>>

-----------------------------------------------------------------------------
ElectionStep(p) == \/ Renew(p) \/ Campaign(p) \/ Resigned(p)
                   \/ StartCampaign(p)

SweepStep(p) == \/ FindOrphanedBlocks(p)
                \/ \E b \in Blocks : LockBlock(p, b)
                \/ DoubleCheckBlock(p) \/ PublishTombstone(p)
                \/ HardDeleteBlock(p) \/ UnlockBlock(p)

WorkerStep == FindOrphans \/ DeleteBlocks \/ \E b \in Blocks : WorkerDeleteBlob(b)

LeaderNext ==
    \/ \E p \in Pods : \/ ElectionStep(p) \/ RenewFails(p) \/ Resign(p)
                       \/ Crash(p) \/ RunLeaderSweep(p) \/ SweepStep(p)
    \/ \E r \in Resources : Lapse(r)
    \/ WorkerStep
    \/ \E b \in Blocks : Reference(b) \/ Unreference(b)

LeaderSpec == LeaderInit /\ [][LeaderNext]_leaderVars

\* Campaigns tick, a stopped pod is started again, a leader sweeps again and
\* again and finishes the sweeps it begins, a TTL of a dead owner's key runs
\* out.  Nothing is assumed of the registry's worker or of commits.
LeaderFairSpec ==
    /\ LeaderSpec
    /\ \A p \in Pods : /\ WF_leaderVars(ElectionStep(p))
                       /\ WF_leaderVars(RunLeaderSweep(p))
                       /\ WF_leaderVars(SweepStep(p))
    /\ \A r \in Resources : WF_leaderVars(Lapse(r))

-----------------------------------------------------------------------------
(* Properties *)

HoldsToken(p, t) == t \in {el[p].tok, sw[p].tok}

\* A lock is taken from its owner by no one: a key with a token disappears by
\* its TTL or by a step of the goroutine that has the token.  In particular a
\* pod that comes back after its lease lapsed does not release its
\* successor's lease or block lock.
OnlyOwnerUnlocks ==
    [][\A r \in Resources : key[r] \notin {NoToken, key'[r]} =>
          \/ Lapse(r)
          \/ \E p \in Pods : /\ HoldsToken(p, key[r])
                             /\ <<el[p], sw[p]>>' # <<el[p], sw[p]>>]_leaderVars

\* Once failures end, an orphan that is not referenced again is deleted by the
\* leader's sweep, whatever locks and leases crashed pods left behind.
OrphansReaped ==
    \A b \in Blocks : <>[](row[b] # "live") => <>[](row[b] = "absent")

=============================================================================
