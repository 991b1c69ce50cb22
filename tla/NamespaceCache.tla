---------------------------- MODULE NamespaceCache ----------------------------
(***************************************************************************)
(* The Redis cache of namespace metadata (internal/database/cache.go) and  *)
(* the database wrappers that invalidate it (internal/database/client.go). *)
(*                                                                         *)
(* An entry is stored under the generation its reader saw; a mutation      *)
(* commits in PostgreSQL and then increments the generation, in two steps  *)
(* that may fail between.  The metadata of a node is the number of moves   *)
(* it has seen: what matters is which state a read shows.  The loader      *)
(* reads the primary, the default of MetadataDSN.                          *)
(***************************************************************************)
EXTENDS Naturals, FiniteSets

CONSTANTS Readers,  \* goroutines in GetNodeMetadataCached
          Writers,  \* goroutines in a mutating wrapper
          None,     \* no entry, no value, no leader
          MaxMoves, \* bound on the committed moves
          MaxGen    \* bound on the generation

ASSUME CacheAssumption == /\ None \notin Nat
                          /\ None \notin Readers
                          /\ MaxMoves \in Nat
                          /\ MaxGen \in Nat

VARIABLES row,    \* the node's metadata in namespace_nodes: moves committed
          gen,    \* aegis:ns:gen:{tenant}; a missing key reads as 0
          entry,  \* entry[g]: aegis:ns:{tenant}:g{g}:{node}
          flight, \* flight[g]: the reader that leads the singleflight call
          wr,     \* wr[w]: what the mutator w still has to do
          rd,     \* rd[r]: the read r
          acked   \* history: the newest move whose bump succeeded

cacheVars == <<row, gen, entry, flight, wr, rd, acked>>

Gens == 0 .. MaxGen

\* floor is history: acked when the read began.
Read == [pc: {"idle", "gen", "get", "bypass", "join", "load", "set", "share",
              "wait", "done"},
         g: Nat, val: Nat \cup {None}, floor: Nat]

NoRead == [pc |-> "idle", g |-> 0, val |-> None, floor |-> 0]

\* moved is the state the mutation committed, None when it moved nothing.
Write == [pc: {"idle", "bump"}, moved: Nat \cup {None}]

NoWrite == [pc |-> "idle", moved |-> None]

CacheTypeOK ==
    /\ row \in Nat
    /\ gen \in Nat
    /\ entry \in [Gens -> Nat \cup {None}]
    /\ flight \in [Gens -> Readers \cup {None}]
    /\ wr \in [Writers -> Write]
    /\ rd \in [Readers -> Read]
    /\ acked \in Nat

CacheInit ==
    /\ row = 0
    /\ gen = 0
    /\ entry = [g \in Gens |-> None]
    /\ flight = [g \in Gens |-> None]
    /\ wr = [w \in Writers |-> NoWrite]
    /\ rd = [r \in Readers |-> NoRead]
    /\ acked = 0

-----------------------------------------------------------------------------
(* Mutating wrappers: a write transaction, then the bump *)

\* move_directory commits; the wrapper goes on to the bump, or COMMIT's
\* answer is lost and the wrapper returns an error without bumping.  A
\* transaction that fails before its COMMIT changes nothing.
MoveDirectory(w) ==
    /\ wr[w].pc = "idle"
    /\ row < MaxMoves
    /\ row' = row + 1
    /\ \/ wr' = [wr EXCEPT ![w] = [pc |-> "bump", moved |-> row + 1]]
       \/ UNCHANGED wr
    /\ UNCHANGED <<gen, entry, flight, rd, acked>>

\* A grant writes acl_entries: the cached row does not change.
GrantACLEntry(w) ==
    /\ wr[w].pc = "idle"
    /\ wr' = [wr EXCEPT ![w] = [pc |-> "bump", moved |-> None]]
    /\ UNCHANGED <<row, gen, entry, flight, rd, acked>>

\* A new version writes file_versions: neither does this.
CommitFileVersion(w) ==
    /\ wr[w].pc = "idle"
    /\ wr' = [wr EXCEPT ![w] = [pc |-> "bump", moved |-> None]]
    /\ UNCHANGED <<row, gen, entry, flight, rd, acked>>

AckMove(m) == IF m # None /\ m > acked THEN m ELSE acked

Incr == /\ gen < MaxGen
        /\ gen' = gen + 1

\* bumpGenerationOnSuccess: INCR; its error is logged and the mutation
\* stands.  A process that dies here does not bump either.
BumpGeneration(w) ==
    /\ wr[w].pc = "bump"
    /\ \/ /\ Incr
          /\ acked' = AckMove(wr[w].moved)
       \/ UNCHANGED <<gen, acked>>
    /\ wr' = [wr EXCEPT ![w] = NoWrite]
    /\ UNCHANGED <<row, entry, flight, rd>>

-----------------------------------------------------------------------------
(* GetNodeMetadataCached *)

ReadStart(r) ==
    /\ rd[r].pc = "idle"
    /\ rd' = [rd EXCEPT ![r] = [NoRead EXCEPT !.pc = "gen", !.floor = acked]]
    /\ UNCHANGED <<row, gen, entry, flight, wr, acked>>

\* generation(): GET of the counter; an error bypasses the cache.
Generation(r) ==
    /\ rd[r].pc = "gen"
    /\ \/ rd' = [rd EXCEPT ![r].pc = "get", ![r].g = gen]
       \/ rd' = [rd EXCEPT ![r].pc = "bypass"]
    /\ UNCHANGED <<row, gen, entry, flight, wr, acked>>

\* GET of the entry: a hit, a miss, or an error that bypasses the cache.
GetEntry(r) ==
    /\ rd[r].pc = "get"
    /\ \/ /\ entry[rd[r].g] # None
          /\ rd' = [rd EXCEPT ![r].pc = "done", ![r].val = entry[rd[r].g]]
       \/ /\ entry[rd[r].g] = None
          /\ rd' = [rd EXCEPT ![r].pc = "join"]
       \/ rd' = [rd EXCEPT ![r].pc = "bypass"]
    /\ UNCHANGED <<row, gen, entry, flight, wr, acked>>

\* The loader alone; val stays None when the query fails.
Bypass(r) ==
    /\ rd[r].pc = "bypass"
    /\ \E v \in {row, None} : rd' = [rd EXCEPT ![r].pc = "done", ![r].val = v]
    /\ UNCHANGED <<row, gen, entry, flight, wr, acked>>

\* sf.Do(key): the first caller leads, the others wait for its result.
Join(r) ==
    /\ rd[r].pc = "join"
    /\ IF flight[rd[r].g] = None
       THEN /\ flight' = [flight EXCEPT ![rd[r].g] = r]
            /\ rd' = [rd EXCEPT ![r].pc = "load"]
       ELSE /\ rd' = [rd EXCEPT ![r].pc = "wait"]
            /\ UNCHANGED flight
    /\ UNCHANGED <<row, gen, entry, wr, acked>>

\* The leader's query on the metadata pool; a failure is shared as it is.
Load(r) ==
    /\ rd[r].pc = "load"
    /\ \/ rd' = [rd EXCEPT ![r].pc = "set", ![r].val = row]
       \/ rd' = [rd EXCEPT ![r].pc = "share"]
    /\ UNCHANGED <<row, gen, entry, flight, wr, acked>>

\* Faulty variant: the entry is stored under the generation of this moment.
SetUnderLiveGeneration(r) ==
    /\ rd[r].pc = "set"
    /\ entry' = [entry EXCEPT ![gen] = rd[r].val]
    /\ rd' = [rd EXCEPT ![r].pc = "share"]
    /\ UNCHANGED <<row, gen, flight, wr, acked>>

\* SET under the generation read at the start; its error is only logged.
SetEntry(r) ==
    /\ rd[r].pc = "set"
    /\ \/ entry' = [entry EXCEPT ![rd[r].g] = rd[r].val]
       \/ UNCHANGED entry
    /\ rd' = [rd EXCEPT ![r].pc = "share"]
    /\ UNCHANGED <<row, gen, flight, wr, acked>>

\* The call ends: the leader and everyone who joined it get its result.
Share(r) ==
    /\ rd[r].pc = "share"
    /\ flight' = [flight EXCEPT ![rd[r].g] = None]
    /\ rd' = [x \in Readers |->
                IF x = r \/ (rd[x].pc = "wait" /\ rd[x].g = rd[r].g)
                THEN [rd[x] EXCEPT !.pc = "done", !.val = rd[r].val]
                ELSE rd[x]]
    /\ UNCHANGED <<row, gen, entry, wr, acked>>

Return(r) ==
    /\ rd[r].pc = "done"
    /\ rd' = [rd EXCEPT ![r] = NoRead]
    /\ UNCHANGED <<row, gen, entry, flight, wr, acked>>

\* Faulty variant: SET without an expiry.
NeverExpires(g) == g \notin Gens /\ UNCHANGED cacheVars

\* The TTL given to SET runs out.
Expire(g) ==
    /\ entry[g] # None
    /\ entry' = [entry EXCEPT ![g] = None]
    /\ UNCHANGED <<row, gen, flight, wr, rd, acked>>

-----------------------------------------------------------------------------
ReadStep(r) == \/ Generation(r) \/ GetEntry(r) \/ Bypass(r) \/ Join(r)
               \/ Load(r) \/ SetEntry(r) \/ Share(r) \/ Return(r)

WriteStep(w) == \/ MoveDirectory(w) \/ GrantACLEntry(w)
                \/ CommitFileVersion(w) \/ BumpGeneration(w)

CacheNext == \/ \E r \in Readers : ReadStart(r) \/ ReadStep(r)
             \/ \E w \in Writers : WriteStep(w)
             \/ \E g \in Gens : Expire(g)

CacheSpec == CacheInit /\ [][CacheNext]_cacheVars

\* A read that has begun goes on (the calls it makes have deadlines), and
\* Redis drops a key when its TTL is over.
CacheFairSpec == /\ CacheSpec
                 /\ \A r \in Readers : WF_cacheVars(ReadStep(r))
                 /\ \A g \in Gens : WF_cacheVars(Expire(g))

-----------------------------------------------------------------------------
(* Properties *)

\* "Invalidation is immediate": a read that begins after a mutator's bump
\* succeeded shows that mutation, whether it hits, misses, joins another
\* reader's load or bypasses the cache.
InvalidationImmediate ==
    \A r \in Readers : rd[r].pc = "done" /\ rd[r].val # None
                          => rd[r].val >= rd[r].floor

\* The backstop bumpGenerationOnSuccess relies on: when the bump of a move
\* failed, what the live generation still holds of the old state goes away.
StaleEntriesDrain == []<>(entry[gen] \in {None, row})

=============================================================================
