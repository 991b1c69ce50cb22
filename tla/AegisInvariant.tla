--------------------------- MODULE AegisInvariant ---------------------------
(***************************************************************************)
(* The inductive invariant of AegisStore, for any sets of blocks, nodes,   *)
(* sessions, concurrent requests, pods and consumers, any file lists and   *)
(* any bounds; and the steps of the collector, of the session loops and of *)
(* the clock, which keep it.                                               *)
(***************************************************************************)
EXTENDS AegisStore, FiniteSetTheorems, TLAPS

-----------------------------------------------------------------------------
(* The inductive invariant *)

\* The statements at which a transaction has a version and the node's lock.
Writing == {"ensure", "manifest", "commit"}

\* The manifest rows 1..k of the version of r.
TxRowsTo(r, k) ==
    {[ver |-> TxVersion(r), idx |-> i, block |-> tx[r].file[i]] : i \in 1..k}

\* How many manifest rows the transaction of r has inserted.
Done(r) == IF tx[r].pc = "commit" THEN Len(tx[r].file) ELSE tx[r].pos - 1

\* Which fields of a request mean something at which statement.
TxShape ==
    \A r \in Reqs :
        /\ tx[r].pc # "idle" => /\ tx[r].sess \in Sessions
                                /\ tx[r].file \in Files
                                /\ sessions[tx[r].sess].status # "NONE"
        /\ tx[r].pc \in InTx => SessionExists(tx[r].sess)
        /\ tx[r].pc \in {"ensure", "manifest", "verify", "mark"} =>
              tx[r].pos \in 1..Len(tx[r].file)
        /\ tx[r].pc \in Writing => tx[r].num # 0
        /\ tx[r].pc \notin Writing => tx[r].ins = {}
        /\ tx[r].pc \notin {"manifest", "commit"} =>
              \A b \in Blocks : tx[r].bump[b] = 0

\* The trigger has added one to ref_count for each row inserted so far.
TxCounts ==
    \A r \in Reqs : tx[r].pc \in {"manifest", "commit"} =>
        /\ IsFiniteSet(TxRowsTo(r, Done(r)))
        /\ \A b \in Blocks : tx[r].bump[b] =
              Cardinality({m \in TxRowsTo(r, Done(r)) : m.block = b})

\* A row whose count a transaction has raised is there until it commits, and
\* no other transaction raises it.
TxBumps ==
    \A r \in Reqs, b \in Blocks : tx[r].bump[b] > 0 =>
        /\ cas[b].live \/ b \in tx[r].ins
        /\ \A q \in Reqs \ {r} : tx[q].bump[b] = 0

\* A row a transaction has inserted is nobody else's.
TxInserts ==
    \A r \in Reqs : \A b \in tx[r].ins :
        /\ ~cas[b].live
        /\ \E i \in DOMAIN tx[r].file : b = tx[r].file[i]
        /\ \A q \in Reqs \ {r} : b \notin tx[q].ins

\* One transaction per session, and one per node past the fence.
TxExclusive ==
    \A r \in Reqs : \A q \in Reqs \ {r} :
        /\ tx[r].pc \in InTx /\ tx[q].pc \in InTx => tx[r].sess # tx[q].sess
        /\ tx[r].pc \in Writing /\ tx[q].pc \in Writing => TxNode(r) # TxNode(q)

\* The session of an open transaction has produced nothing yet.
TxFresh ==
    \A r \in Reqs : tx[r].pc \in InTx =>
        \A v \in versions \cup purged : v.sess # tx[r].sess

\* A session that has produced a version cannot commit again: it is COMPLETED,
\* or its status was overwritten, but then its time is over.
SessionSpent ==
    \A v \in versions \cup purged :
        /\ sessions[v.sess].status # "NONE"
        /\ sessions[v.sess].status = "COMPLETED" \/ SessionExpired(v.sess)

SessionNodes ==
    \A s \in Sessions : sessions[s].status # "NONE" => sessions[s].node \in Nodes

\* The cleanup loop's list, however stale, holds expired sessions only.
MarkedExpired ==
    \A p \in Pods : \A s \in marking[p] :
        sessions[s].status # "NONE" /\ SessionExpired(s)

ManifestOfVersions == \A m \in manifest : m.ver \in versions

\* Every set of version numbers in use has a maximum.
NumbersBounded ==
    \A n \in Nodes : \A S \in SUBSET NumbersOf(n) :
        S # {} => \E m \in S : \A k \in S : k <= m

\* The number of an open transaction is above all in use, and all the numbers
\* below it have been used.
TxNumber ==
    \A r \in Reqs : tx[r].pc \in Writing =>
        /\ \A k \in NumbersOf(TxNode(r)) : k < tx[r].num
        /\ \A k \in 1..(tx[r].num - 1) :
              \E w \in versions \cup purged : w.node = TxNode(r) /\ w.num = k

NumbersUnique ==
    \A v, w \in versions : v.node = w.node /\ v.num = w.num => v = w

\* A sweep past its budget check works on a block and has budget left.
SweepOK(x) ==
    /\ x \in Sweep
    /\ x.count <= MaxBlocksPerHour
    /\ x.pc \in {"publish", "blob", "row"} =>
          x.cur \in Blocks /\ x.count < MaxBlocksPerHour

GcShape ==
    /\ \A p \in Pods : SweepOK(gc[p])
    /\ \A c \in Consumers : con[c].pc # "read" => con[c].cur \in Blocks

CasInv == RefCountExact /\ TxCounts /\ TxBumps /\ TxInserts /\ ManifestOfVersions

SessInv == /\ TxExclusive /\ TxFresh /\ SessionSpent /\ SessionNodes
           /\ OneVersionPerSession

NumInv == NumbersBounded /\ TxNumber /\ NumbersUnique /\ VersionsGapless

GcInv == GcShape /\ MarkedExpired

IInv == TypeOK /\ TxShape /\ CasInv /\ SessInv /\ NumInv /\ GcInv

-----------------------------------------------------------------------------
(* Facts about the operators *)

\* A block list is a non-empty sequence of blocks.
LEMMA FileFacts ==
    ASSUME NEW f \in Files
    PROVE  /\ Len(f) \in Nat \ {0}
           /\ DOMAIN f = 1..Len(f)
           /\ \A i \in 1..Len(f) : f[i] \in Blocks
<1>1. f \in Seq(Blocks) /\ f # << >>
  BY FilesAssumption
<1> QED
  BY <1>1

\* The state of a request slot that serves nothing is well typed.
LEMMA IdleFacts ==
    /\ Idle \in Request
    /\ Idle.pc = "idle" /\ Idle.ins = {}
    /\ \A b \in Blocks : Idle.bump[b] = 0
BY DEF Idle, Request, PC

\* What is left of the row of a block after a DELETE that found it deletable.
LEMMA NoRowFacts == NoRow \in CasRow /\ ~NoRow.live /\ NoRow.ref_count = 0
BY DEF NoRow, CasRow

\* next_version_number is the successor of the highest number in use, given
\* that there is a highest one.
LEMMA NextNumber ==
    ASSUME TypeOK, NumbersBounded, NEW n \in Nodes
    PROVE  /\ next_version_number(n) \in Nat \ {0}
           /\ \A k \in NumbersOf(n) : k < next_version_number(n)
           /\ \/ next_version_number(n) = 1
              \/ \E k \in NumbersOf(n) : next_version_number(n) = k + 1
<1>1. NumbersOf(n) \subseteq Nat \ {0}
  BY DEF NumbersOf, TypeOK, DbTypeOK, Version
<1>2. CASE NumbersOf(n) = {}
  BY <1>2 DEF next_version_number
<1>3. CASE NumbersOf(n) # {}
  <2> DEFINE top == CHOOSE m \in NumbersOf(n) : \A k \in NumbersOf(n) : k <= m
  <2>1. \E m \in NumbersOf(n) : \A k \in NumbersOf(n) : k <= m
    BY <1>3 DEF NumbersBounded
  <2>2. top \in NumbersOf(n) /\ \A k \in NumbersOf(n) : k <= top
    BY <2>1
  <2>3. next_version_number(n) = 1 + top
    BY <1>3 DEF next_version_number
  <2> HIDE DEF top
  <2> QED
    BY <1>1, <2>2, <2>3
<1> QED
  BY <1>2, <1>3

-----------------------------------------------------------------------------
(* The initial state *)

\* The empty store satisfies the inductive invariant.
LEMMA InitIInv == Init => IInv
<1> SUFFICES ASSUME Init PROVE IInv
  OBVIOUS
<1> USE DEF Init, DbInit, IngestInit, GcInit
<1>1. TypeOK
  <2>1. DbTypeOK
    BY FS_EmptySet, NoRowFacts
    DEF DbTypeOK, SessionRow, NoSessionRow, Status
  <2>2. IngestTypeOK
    BY IdleFacts DEF IngestTypeOK
  <2>3. GcTypeOK
    BY GcAssumption DEF GcTypeOK, NoSweep, Sweep, NoMessage, Consumer
  <2> QED
    BY <2>1, <2>2, <2>3 DEF TypeOK
<1>2. TxShape
  BY IdleFacts DEF TxShape, InTx, Writing
<1>3. CasInv
  <2>1. \A b \in Blocks : RowsOf(b) = {}
    BY DEF RowsOf
  <2>2. \A b \in Blocks : cas[b] = NoRow
    OBVIOUS
  <2>3. RefCountExact
    <3> HIDE DEF Init
    <3> QED
      BY <2>1, <2>2, FS_EmptySet, NoRowFacts DEF RefCountExact
  <2> QED
    BY <2>3, IdleFacts
    DEF CasInv, TxCounts, TxBumps, TxInserts, ManifestOfVersions
<1>4. SessInv
  BY IdleFacts DEF SessInv, TxExclusive, TxFresh, SessionSpent, SessionNodes,
     OneVersionPerSession, NoSessionRow, InTx, Writing
<1>5. NumInv
  <2>1. \A n \in Nodes : NumbersOf(n) = {}
    BY DEF NumbersOf
  <2> QED
    BY <2>1, IdleFacts DEF NumInv, NumbersBounded, TxNumber, NumbersUnique,
       VersionsGapless, Writing
<1>6. GcInv
  BY GcAssumption DEF GcInv, GcShape, SweepOK, Sweep, MarkedExpired, NoSweep,
     NoMessage
<1> QED
  BY <1>1, <1>2, <1>3, <1>4, <1>5, <1>6 DEF IInv

-----------------------------------------------------------------------------
(* Frames: what a step leaves alone *)

\* The rows of a transaction depend on its session's node only.
LEMMA CountsFrame ==
    ASSUME TxCounts, tx' = tx,
           \A r \in Reqs : tx[r].pc # "idle" => TxNode(r)' = TxNode(r)
    PROVE  TxCounts'
<1> SUFFICES ASSUME NEW r \in Reqs, tx[r].pc \in {"manifest", "commit"}
             PROVE  /\ IsFiniteSet(TxRowsTo(r, Done(r))')
                    /\ \A b \in Blocks : tx[r].bump[b] =
                          Cardinality({m \in TxRowsTo(r, Done(r))' : m.block = b})
  BY DEF TxCounts
<1>1. TxRowsTo(r, Done(r))' = TxRowsTo(r, Done(r))
  BY DEF TxRowsTo, Done, TxVersion
<1> QED
  BY <1>1 DEF TxCounts

\* A step that writes neither cas_blocks nor the manifest nor a transaction.
LEMMA CasFrame ==
    ASSUME CasInv, UNCHANGED <<cas, manifest, versions, tx>>,
           \A r \in Reqs : tx[r].pc # "idle" => TxNode(r)' = TxNode(r)
    PROVE  CasInv'
<1>1. RefCountExact'
  BY DEF CasInv, RefCountExact, RowsOf
<1>2. TxCounts'
  BY CountsFrame DEF CasInv
<1>3. TxBumps' /\ TxInserts'
  BY DEF CasInv, TxBumps, TxInserts
<1>4. ManifestOfVersions'
  BY DEF CasInv, ManifestOfVersions
<1> QED
  BY <1>1, <1>2, <1>3, <1>4 DEF CasInv

\* A step that writes neither versions nor a transaction.
LEMMA NumFrame ==
    ASSUME NumInv, UNCHANGED <<versions, purged, tx>>,
           \A r \in Reqs : tx[r].pc # "idle" => TxNode(r)' = TxNode(r)
    PROVE  NumInv'
<1>1. \A n : NumbersOf(n)' = NumbersOf(n)
  BY DEF NumbersOf
<1>2. NumbersBounded'
  BY <1>1 DEF NumInv, NumbersBounded
<1>3. TxNumber'
  BY <1>1 DEF NumInv, TxNumber, Writing
<1>4. NumbersUnique' /\ VersionsGapless'
  BY DEF NumInv, NumbersUnique, VersionsGapless
<1> QED
  BY <1>2, <1>3, <1>4 DEF NumInv

\* The same of the part of SessInv that does not read the sessions' times.
LEMMA SessFrame ==
    ASSUME SessInv, UNCHANGED <<versions, purged, tx>>,
           \A r \in Reqs : tx[r].pc # "idle" => TxNode(r)' = TxNode(r)
    PROVE  TxExclusive' /\ TxFresh' /\ OneVersionPerSession'
<1>1. TxExclusive'
  BY DEF SessInv, TxExclusive, InTx, Writing
<1>2. TxFresh' /\ OneVersionPerSession'
  BY DEF SessInv, TxFresh, OneVersionPerSession
<1> QED
  BY <1>1, <1>2

-----------------------------------------------------------------------------
(* Steps of the collector's memory *)

\* A step that leaves the database and the requests alone, blobs excepted,
\* keeps the invariant when the collector's own state stays well formed.
LEMMA MemoryStep ==
    ASSUME IInv, blobs' \in SUBSET Blocks, GcTypeOK', GcInv',
           UNCHANGED <<now, cas, manifest, versions, purged, sessions, tx>>
    PROVE  IInv'
<1>1. TypeOK'
  BY DEF IInv, TypeOK, DbTypeOK, IngestTypeOK
<1>2. TxShape'
  BY DEF IInv, TxShape, SessionExists
<1>3. \A r \in Reqs : tx[r].pc # "idle" => TxNode(r)' = TxNode(r)
  BY DEF TxNode
<1>4. CasInv' /\ NumInv'
  BY <1>3, CasFrame, NumFrame DEF IInv
<1>5. SessInv'
  <2>1. SessInv
    BY DEF IInv
  <2>2. SessionSpent' /\ SessionNodes'
    BY <2>1 DEF SessInv, SessionSpent, SessionNodes, SessionExpired
  <2> QED
    BY <1>3, <2>1, <2>2, SessFrame DEF SessInv
<1> QED
  BY <1>1, <1>2, <1>4, <1>5 DEF IInv

\* A pod's sweep moves to a well-formed state.
LEMMA PodStep ==
    ASSUME GcTypeOK, GcInv, NEW p \in Pods, NEW x, SweepOK(x),
           gc' = [gc EXCEPT ![p] = x], topic' \in SUBSET Blocks,
           UNCHANGED <<now, sessions, marking, con>>
    PROVE  GcTypeOK' /\ GcInv'
BY DEF GcTypeOK, GcInv, GcShape, SweepOK, MarkedExpired, SessionExpired

\* Leaving a block of the batch keeps the sweep well formed.
LEMMA NextInBatchOK ==
    ASSUME GcInv, NEW p \in Pods, NEW b
    PROVE  /\ SweepOK(NextInBatch(p, b))
           /\ NextInBatch(p, b).count = gc[p].count
           /\ NextInBatch(p, b).pc \in {"idle", "check"}
BY ZenonT(30) DEF GcInv, GcShape, SweepOK, NextInBatch, Sweep

\* The steps of a pod that change no table of the database (GetExpiredSessions to
\* DeleteBlob, and a restart) keep the inductive invariant.
LEMMA CollectorMemory ==
    ASSUME IInv, NEW p \in Pods,
           \/ GetExpiredSessions(p) \/ SweepStart(p) \/ RateLimited(p)
           \/ \E b \in Blocks : DoubleCheckBlock(p, b)
           \/ PublishBlockTombstone(p) \/ DeleteBlob(p) \/ PodCrash(p)
    PROVE  IInv'
<1> USE DEF dbVars
<1>0. /\ GcTypeOK /\ GcInv /\ SweepOK(gc[p]) /\ gc \in [Pods -> Sweep]
      /\ topic \in SUBSET Blocks /\ blobs \in SUBSET Blocks /\ now \in Nat
      /\ \A b : SweepOK(NextInBatch(p, b))
  BY NextInBatchOK DEF IInv, TypeOK, DbTypeOK, GcTypeOK, GcInv, GcShape
<1>1. CASE GetExpiredSessions(p)
  <2>1. PICK S \in SUBSET Sessions :
            /\ S \subseteq StaleSessions
            /\ marking' = [marking EXCEPT ![p] = S]
    BY ZenonT(30), <1>1 DEF GetExpiredSessions, OldestBatch
  <2>2. GcTypeOK'
    BY <1>0, <1>1, <2>1 DEF GetExpiredSessions, GcTypeOK
  <2>3. GcInv'
    BY <1>0, <1>1, <2>1 DEF GetExpiredSessions, GcInv, GcShape, MarkedExpired,
       GcTypeOK, StaleSessions, SessionExpired, SessionExists
  <2> QED
    BY <1>0, <1>1, <2>2, <2>3, MemoryStep DEF GetExpiredSessions
<1>2. CASE SweepStart(p)
  <2> DEFINE x(B) ==
        [pc |-> IF B = {} THEN "idle" ELSE "check",
         batch |-> B, cur |-> None,
         count |-> IF now - gc[p].resetAt > Hour THEN 0 ELSE gc[p].count,
         resetAt |-> IF now - gc[p].resetAt > Hour THEN now ELSE gc[p].resetAt]
  <2>1. PICK B \in SUBSET Blocks : gc' = [gc EXCEPT ![p] = x(B)]
    BY Zenon, <1>2 DEF SweepStart
  <2>2. SweepOK(x(B))
    <3>0. /\ gc[p].count \in Nat /\ gc[p].count <= MaxBlocksPerHour
          /\ gc[p].resetAt \in Int
      BY <1>0 DEF SweepOK, Sweep
    <3>1. /\ x(B).count \in Nat /\ x(B).count <= MaxBlocksPerHour
          /\ x(B).resetAt \in Int
      BY <1>0, <3>0, GcAssumption
    <3>2. x(B) \in Sweep
      BY <3>1 DEF Sweep
    <3> QED
      BY <3>1, <3>2 DEF SweepOK
  <2> HIDE DEF x
  <2> QED
    BY <1>0, <1>2, <2>1, <2>2, PodStep, MemoryStep DEF SweepStart
<1>3. CASE RateLimited(p)
  <2> DEFINE x == [gc[p] EXCEPT !.pc = "idle", !.batch = {}]
  <2>1. SweepOK(x) /\ gc' = [gc EXCEPT ![p] = x]
    BY Zenon, <1>0, <1>3 DEF RateLimited, SweepOK, Sweep
  <2> HIDE DEF x
  <2> QED
    BY Zenon, <1>0, <1>3, <2>1, PodStep, MemoryStep DEF RateLimited
<1>4. ASSUME NEW b \in Blocks, DoubleCheckBlock(p, b) PROVE IInv'
  <2> DEFINE x == [gc[p] EXCEPT !.pc = "publish", !.cur = b]
  <2>1. SweepOK(x)
    BY Zenon, <1>0, <1>4, GcAssumption DEF DoubleCheckBlock, SweepOK, Sweep
  <2>2. \/ gc' = [gc EXCEPT ![p] = x]
        \/ gc' = [gc EXCEPT ![p] = NextInBatch(p, b)]
    BY Zenon, <1>4 DEF DoubleCheckBlock
  <2> HIDE DEF x
  <2> QED
    BY <1>0, <1>4, <2>1, <2>2, PodStep, MemoryStep DEF DoubleCheckBlock
<1>5. CASE PublishBlockTombstone(p)
  <2> DEFINE x == [gc[p] EXCEPT !.pc = "blob"]
  <2>1. SweepOK(x) /\ gc[p].cur \in Blocks
    BY <1>0, <1>5 DEF PublishBlockTombstone, SweepOK, Sweep
  <2>2. \/ gc' = [gc EXCEPT ![p] = x]
        \/ gc' = [gc EXCEPT ![p] = NextInBatch(p, gc[p].cur)]
    BY <1>5 DEF PublishBlockTombstone
  <2> HIDE DEF x
  <2>3. topic' \in SUBSET Blocks
    BY <1>0, <1>5, <2>1 DEF PublishBlockTombstone
  <2> QED
    BY <1>0, <1>5, <2>1, <2>2, <2>3, PodStep, MemoryStep DEF PublishBlockTombstone
<1>6. CASE DeleteBlob(p)
  <2> DEFINE x == [gc[p] EXCEPT !.pc = "row"]
  <2>1. SweepOK(x)
    BY <1>0, <1>6 DEF DeleteBlob, SweepOK, Sweep
  <2>2. \/ gc' = [gc EXCEPT ![p] = x]
        \/ gc' = [gc EXCEPT ![p] = NextInBatch(p, gc[p].cur)]
    BY <1>6 DEF DeleteBlob
  <2> HIDE DEF x
  <2>3. blobs' \in SUBSET Blocks
    BY <1>0, <1>6 DEF DeleteBlob
  <2> QED
    BY <1>0, <1>6, <2>1, <2>2, <2>3, PodStep, MemoryStep DEF DeleteBlob
<1>7. CASE PodCrash(p)
  <2>1. SweepOK(NoSweep)
    <3>1. 0 - (Hour + 1) \in Int /\ 0 <= MaxBlocksPerHour
      BY GcAssumption
    <3> QED
      BY <3>1 DEF SweepOK, NoSweep, Sweep
  <2>2. GcTypeOK' /\ GcInv'
    BY <1>0, <1>7, <2>1 DEF PodCrash, GcTypeOK, GcInv, GcShape, SweepOK,
       MarkedExpired, SessionExpired
  <2> QED
    BY <1>0, <1>7, <2>2, MemoryStep DEF PodCrash
<1> QED
  BY <1>1, <1>2, <1>3, <1>4, <1>5, <1>6, <1>7

\* So do the steps of a tombstone consumer before HardDeleteBlocks.
LEMMA ConsumerMemory ==
    ASSUME IInv, NEW c \in Consumers,
           ReadTombstone(c) \/ ConsumerDeleteBlob(c) \/ ConsumerCrash(c)
    PROVE  IInv'
<1> USE DEF dbVars
<1>0. /\ GcTypeOK /\ GcInv /\ blobs \in SUBSET Blocks
      /\ con \in [Consumers -> Consumer] /\ topic \in SUBSET Blocks
  BY DEF IInv, TypeOK, DbTypeOK, GcTypeOK
<1>1. GcTypeOK'
  BY <1>0 DEF ReadTombstone, ConsumerDeleteBlob, ConsumerCrash, GcTypeOK,
     Consumer, NoMessage
<1>2. GcInv'
  BY <1>0 DEF ReadTombstone, ConsumerDeleteBlob, ConsumerCrash, GcInv, GcShape,
     MarkedExpired, SessionExpired, SweepOK, Consumer, NoMessage
<1>3. blobs' \in SUBSET Blocks
  BY <1>0 DEF ReadTombstone, ConsumerDeleteBlob, ConsumerCrash
<1> QED
  BY <1>1, <1>2, <1>3, MemoryStep
  DEF ReadTombstone, ConsumerDeleteBlob, ConsumerCrash

-----------------------------------------------------------------------------
(* Steps that delete a cas_blocks row *)

\* A block with ref_count = 0 has no manifest row.
LEMMA ZeroRefs ==
    ASSUME TypeOK, RefCountExact, NEW b \in Blocks, cas[b].ref_count = 0
    PROVE  RowsOf(b) = {}
<1>1. IsFiniteSet(RowsOf(b))
  BY FS_Subset DEF TypeOK, DbTypeOK, RowsOf
<1> QED
  BY <1>1, FS_EmptySet DEF RefCountExact

\* The DELETE of the collector and of the tombstone consumer, which waits for
\* the row's lock and tests ref_count again.
LEMMA DeleteStep ==
    ASSUME IInv, NEW b \in Blocks, BlockFree(b), cas' = AfterDelete(b),
           GcTypeOK', GcInv',
           UNCHANGED <<now, manifest, versions, purged, sessions, blobs, tx>>
    PROVE  IInv'
<1>0. \A r \in Reqs : tx[r].pc # "idle" => TxNode(r)' = TxNode(r)
  BY DEF TxNode
<1>1. CASE ~Deletable(b)
  BY <1>1, MemoryStep DEF AfterDelete, IInv, TypeOK, DbTypeOK
<1>2. CASE Deletable(b)
  <2>1. cas' = [cas EXCEPT ![b] = NoRow] /\ cas \in [Blocks -> CasRow]
    BY <1>2 DEF AfterDelete, IInv, TypeOK, DbTypeOK
  <2>2. RowsOf(b) = {}
    BY <1>2, ZeroRefs DEF Deletable, IInv, CasInv
  <2>3. TypeOK'
    BY <2>1, NoRowFacts DEF IInv, TypeOK, DbTypeOK, IngestTypeOK
  <2>4. TxShape'
    BY DEF IInv, TxShape, SessionExists
  <2>5. RefCountExact'
    <3> SUFFICES ASSUME NEW x \in Blocks
                 PROVE  /\ cas'[x].ref_count = Cardinality(RowsOf(x)')
                        /\ RowsOf(x)' # {} => cas'[x].live
      BY DEF RefCountExact
    <3>1. RowsOf(x)' = RowsOf(x)
      BY DEF RowsOf
    <3>2. CASE x = b
      BY <2>1, <2>2, <3>1, <3>2, NoRowFacts, FS_EmptySet
    <3>3. CASE x # b
      BY <2>1, <3>1, <3>3 DEF IInv, CasInv, RefCountExact
    <3> QED
      BY <3>2, <3>3
  <2>6. TxCounts' /\ ManifestOfVersions'
    <3>1. TxCounts'
      BY <1>0, CountsFrame DEF IInv, CasInv
    <3>2. ManifestOfVersions'
      BY DEF IInv, CasInv, ManifestOfVersions
    <3> QED
      BY <3>1, <3>2
  <2>7. \A r \in Reqs : ~(tx[r].bump[b] > 0)
    BY <1>2 DEF Deletable, BlockFree, HoldsBlock
  <2>8. TxBumps' /\ TxInserts'
    <3>1. TxBumps'
      BY <2>1, <2>7 DEF IInv, CasInv, TxBumps
    <3>2. TxInserts'
      <4>1. TxInserts /\ \A r \in Reqs : tx[r].ins \subseteq Blocks
        BY DEF IInv, CasInv, TypeOK, IngestTypeOK, Request
      <4>2. \A x \in Blocks : cas'[x].live => cas[x].live
        BY <2>1, NoRowFacts
      <4> QED
        BY <4>1, <4>2 DEF TxInserts
    <3> QED
      BY <3>1, <3>2
  <2>9. SessInv'
    <3>1. SessInv
      BY DEF IInv
    <3>2. SessionSpent' /\ SessionNodes'
      BY <3>1 DEF SessInv, SessionSpent, SessionNodes, SessionExpired
    <3> QED
      BY <1>0, <3>1, <3>2, SessFrame DEF SessInv
  <2>10. NumInv'
    BY <1>0, NumFrame DEF IInv
  <2> QED
    BY <2>3, <2>4, <2>5, <2>6, <2>8, <2>9, <2>10 DEF IInv, CasInv
<1> QED
  BY <1>1, <1>2

\* HardDeleteBlocks, of a sweep or of a consumer, keeps the inductive invariant.
LEMMA RowDeleters ==
    ASSUME IInv,
           \/ \E p \in Pods : HardDelete(p)
           \/ \E c \in Consumers : ConsumerHardDelete(c)
    PROVE  IInv'
<1>0. GcTypeOK /\ GcInv /\ blobs \in SUBSET Blocks
  BY DEF IInv, TypeOK, DbTypeOK
<1>1. ASSUME NEW p \in Pods, HardDelete(p) PROVE IInv'
  <2> DEFINE b == gc[p].cur
             y == NextInBatch(p, b)
             x == [y EXCEPT !.count = IF Deletable(b) THEN @ + 1 ELSE @]
  <2>1. b \in Blocks /\ gc[p].count < MaxBlocksPerHour /\ gc[p].count \in Nat
    BY <1>0, <1>1 DEF HardDelete, GcInv, GcShape, SweepOK, Sweep
  <2>2. SweepOK(y) /\ y.count = gc[p].count /\ y.pc \in {"idle", "check"}
    BY <1>0, NextInBatchOK
  <2>3. SweepOK(x)
    <3> HIDE DEF y, b
    <3> QED
      BY <2>1, <2>2, GcAssumption DEF SweepOK, Sweep
  <2>4. gc' = [gc EXCEPT ![p] = x] \/ gc' = [gc EXCEPT ![p] = y]
    BY <1>1 DEF HardDelete
  <2>5. (BlockFree(b) /\ cas' = AfterDelete(b)) \/ UNCHANGED cas
    BY <1>1 DEF HardDelete
  <2> HIDE DEF x, y, b
  <2>6. GcTypeOK' /\ GcInv'
    <3>1. topic' \in SUBSET Blocks /\ UNCHANGED <<now, sessions, marking, con>>
      BY <1>0, <1>1 DEF HardDelete, GcTypeOK
    <3> QED
      BY <1>0, <2>2, <2>3, <2>4, <3>1, PodStep
  <2> QED
    BY <1>0, <1>1, <2>1, <2>5, <2>6, DeleteStep, MemoryStep DEF HardDelete
<1>2. ASSUME NEW c \in Consumers, ConsumerHardDelete(c) PROVE IInv'
  <2>1. con[c].cur \in Blocks
    BY <1>0, <1>2 DEF ConsumerHardDelete, GcInv, GcShape
  <2>2. GcTypeOK'
    BY <1>0, <1>2 DEF ConsumerHardDelete, GcTypeOK, Consumer, NoMessage
  <2>3. GcInv'
    BY <1>0, <1>2 DEF ConsumerHardDelete, GcInv, GcShape, SweepOK,
       MarkedExpired, SessionExpired, GcTypeOK, NoMessage
  <2> QED
    BY <1>0, <1>2, <2>1, <2>2, <2>3, DeleteStep, MemoryStep DEF ConsumerHardDelete
<1> QED
  BY <1>1, <1>2

-----------------------------------------------------------------------------
(* Steps that write upload_sessions, and the clock *)

\* The cleanup loops overwrite the status of an expired session that no open
\* transaction has locked.
LEMMA StatusStep ==
    ASSUME IInv, NEW s \in Sessions, NEW st \in {"EXPIRED", "DELETED"},
           SessionExists(s), SessionExpired(s), SessionFree(s),
           sessions' = [sessions EXCEPT ![s].status = st],
           GcTypeOK', GcInv',
           UNCHANGED <<now, cas, manifest, versions, purged, blobs, tx>>
    PROVE  IInv'
<1>0. /\ sessions \in [Sessions -> SessionRow]
      /\ \A t \in Sessions \ {s} : sessions'[t] = sessions[t]
      /\ sessions'[s].status = st /\ sessions'[s].node = sessions[s].node
      /\ sessions'[s].expires_at = sessions[s].expires_at
  BY DEF IInv, TypeOK, DbTypeOK, SessionRow
<1>1. TypeOK'
  BY <1>0 DEF IInv, TypeOK, DbTypeOK, IngestTypeOK, SessionRow, Status
<1>2. \A r \in Reqs : tx[r].pc # "idle" => tx[r].sess \in Sessions
  BY DEF IInv, TxShape
<1>3. \A r \in Reqs : tx[r].pc # "idle" => TxNode(r)' = TxNode(r)
  BY <1>0, <1>2 DEF TxNode
<1>4. TxShape'
  <2>1. \A r \in Reqs : tx[r].pc \in InTx => tx[r].sess # s
    BY DEF SessionFree, HoldsSession
  <2> QED
    <3>1. TxShape /\ tx' = tx
      BY DEF IInv
    <3>2. \A r \in Reqs : tx[r].pc # "idle" => sessions'[tx[r].sess].status # "NONE"
      BY <1>0, <1>2, <3>1 DEF TxShape
    <3>3. \A r \in Reqs : tx[r].pc \in InTx => SessionExists(tx[r].sess)'
      BY <1>0, <1>2, <2>1, <3>1 DEF TxShape, SessionExists, InTx
    <3> QED
      BY <3>1, <3>2, <3>3 DEF TxShape
<1>5. CasInv' /\ NumInv'
  BY <1>3, CasFrame, NumFrame DEF IInv
<1>6. SessInv'
  <2>1. SessInv /\ versions \in SUBSET Version /\ purged \in SUBSET Version
    BY DEF IInv, TypeOK, DbTypeOK
  <2>2. SessionSpent' /\ SessionNodes'
    BY <1>0, <2>1 DEF SessInv, SessionSpent, SessionNodes, SessionExpired,
       SessionExists, Version
  <2> QED
    BY <1>3, <2>1, <2>2, SessFrame DEF SessInv
<1> QED
  BY <1>1, <1>4, <1>5, <1>6 DEF IInv

\* expire_stale_upload_sessions keeps the inductive invariant: no open
\* transaction holds a session that it deletes.
LEMMA ReapSessionStep ==
    ASSUME IInv, NEW s \in Sessions, ReapSession(s), UNCHANGED gcVars
    PROVE  IInv'
<1>1. SessionExpired(s)
  BY TimeAssumption DEF ReapSession, SessionExpired, IInv, TypeOK, DbTypeOK,
     SessionRow
<1>2. GcTypeOK'
  BY DEF ReapSession, gcVars, IInv, TypeOK, GcTypeOK
<1>3. GcInv'
  BY DEF ReapSession, gcVars, IInv, GcInv, GcShape, SweepOK, MarkedExpired,
         SessionExpired, TypeOK, DbTypeOK, SessionRow, GcTypeOK
<1> QED
  BY ZenonT(30), <1>1, <1>2, <1>3, StatusStep DEF ReapSession

\* MarkSessionExpired keeps it too, even over a COMPLETED session: a marked
\* session has expired, so no commit is admitted again.
LEMMA MarkSessionStep ==
    ASSUME IInv, NEW p \in Pods, NEW s \in Sessions, MarkSessionExpired(p, s)
    PROVE  IInv'
<1>1. SessionExpired(s)
  BY DEF MarkSessionExpired, IInv, GcInv, MarkedExpired
<1>2. GcTypeOK'
  BY DEF MarkSessionExpired, IInv, TypeOK, GcTypeOK
<1>3. GcInv'
  BY DEF MarkSessionExpired, IInv, GcInv, GcShape, SweepOK, MarkedExpired,
         SessionExpired, TypeOK, DbTypeOK, SessionRow, GcTypeOK
<1>4. blobs' \in SUBSET Blocks
  BY DEF MarkSessionExpired, IInv, TypeOK, DbTypeOK
<1> QED
  BY <1>1, <1>2, <1>3, <1>4, StatusStep, MemoryStep DEF MarkSessionExpired

\* handleInitiate uses a fresh session id and keeps the inductive invariant.
LEMMA InitiateStep ==
    ASSUME IInv, NEW s \in Sessions, NEW n \in Nodes, NEW f \in Files,
           Initiate(s, n, f), UNCHANGED gcVars
    PROVE  IInv'
<1> DEFINE row == [status |-> "PENDING", node |-> n, expected_chunks |-> Len(f),
                   expires_at |-> now + SessionTTL]
<1>0. /\ sessions \in [Sessions -> SessionRow] /\ now \in Nat
      /\ sessions[s].status = "NONE"
      /\ sessions' = [sessions EXCEPT ![s] = row]
      /\ UNCHANGED <<now, cas, manifest, versions, purged, blobs, tx>>
  BY DEF IInv, TypeOK, DbTypeOK, Initiate
<1>1. /\ row \in SessionRow /\ row.status = "PENDING" /\ row.node = n
      /\ row.expires_at = now + SessionTTL
  <2>1. Len(f) \in Nat /\ now + SessionTTL \in Nat
    BY <1>0, FileFacts, TimeAssumption
  <2> QED
    BY <2>1 DEF SessionRow, Status
<1> HIDE DEF row
<1>2. /\ \A t \in Sessions \ {s} : sessions'[t] = sessions[t]
      /\ sessions'[s] = row
  BY <1>0
<1>3. TypeOK'
  <2>1. DbTypeOK'
    BY <1>0, <1>1 DEF IInv, TypeOK, DbTypeOK
  <2>2. IngestTypeOK' /\ GcTypeOK'
    BY <1>0 DEF IInv, TypeOK, IngestTypeOK, GcTypeOK, gcVars
  <2> QED
    BY <2>1, <2>2 DEF TypeOK
<1>4. TxShape
  BY DEF IInv
<1>5. \A r \in Reqs : tx[r].pc # "idle" => tx[r].sess \in Sessions \ {s}
  <2>1. sessions[s].status = "NONE"
    BY <1>0
  <2> QED
    BY <1>4, <2>1 DEF TxShape
<1>6. \A r \in Reqs : tx[r].pc # "idle" => TxNode(r)' = TxNode(r)
  <2>1. tx' = tx
    BY <1>0
  <2> QED
    BY <1>2, <1>5, <2>1 DEF TxNode
<1>7. TxShape'
  <2>1. \A r \in Reqs : tx[r].pc # "idle" => sessions'[tx[r].sess] = sessions[tx[r].sess]
    BY <1>2, <1>5
  <2>2. tx' = tx
    BY <1>0
  <2> QED
    BY <1>4, <2>1, <2>2 DEF TxShape, SessionExists, InTx
<1>8. CasInv' /\ NumInv'
  BY <1>0, <1>6, CasFrame, NumFrame DEF IInv
<1>9. SessInv'
  <2>1. SessInv /\ versions \in SUBSET Version /\ purged \in SUBSET Version
    BY DEF IInv, TypeOK, DbTypeOK
  <2>2. SessionSpent'
    <3>1. \A v \in versions \cup purged :
             v.sess \in Sessions /\ sessions'[v.sess] = sessions[v.sess]
      BY <1>0, <1>2, <2>1 DEF SessInv, SessionSpent, Version
    <3>2. UNCHANGED <<now, versions, purged>>
      BY <1>0
    <3> QED
      BY <2>1, <3>1, <3>2 DEF SessInv, SessionSpent, SessionExpired
  <2>3. SessionNodes'
    BY <1>1, <1>2, <2>1 DEF SessInv, SessionNodes
  <2> QED
    BY <1>0, <1>6, <2>1, <2>2, <2>3, SessFrame DEF SessInv
<1>10. GcInv'
  <2>1. GcInv /\ marking \in [Pods -> SUBSET Sessions]
    BY DEF IInv, TypeOK, GcTypeOK
  <2>2. GcShape'
    BY <2>1 DEF GcInv, GcShape, SweepOK, gcVars
  <2>3. MarkedExpired'
    BY <1>0, <1>2, <2>1 DEF GcInv, MarkedExpired, SessionExpired, gcVars
  <2> QED
    BY <2>2, <2>3 DEF GcInv
<1> QED
  BY <1>3, <1>7, <1>8, <1>9, <1>10 DEF IInv

\* Time only makes sessions expire: the inductive invariant is kept.
LEMMA TickStep ==
    ASSUME IInv, Tick, UNCHANGED <<tx, gcVars>>
    PROVE  IInv'
<1> SUFFICES ASSUME now' = now + 1, IInv,
                    UNCHANGED <<cas, manifest, versions, purged, sessions, blobs,
                                tx, gc, marking, topic, con>>
             PROVE  IInv'
  BY DEF Tick, gcVars
<1>0. \A s \in Sessions : SessionExpired(s) => SessionExpired(s)'
  <2>1. now \in Nat
    BY DEF IInv, TypeOK, DbTypeOK
  <2>2. \A s \in Sessions : sessions[s].expires_at \in Nat
    BY DEF IInv, TypeOK, DbTypeOK, SessionRow
  <2> QED
    BY <2>1, <2>2 DEF SessionExpired
<1>1. TypeOK'
  <2>1. DbTypeOK'
    BY DEF IInv, TypeOK, DbTypeOK
  <2>2. IngestTypeOK' /\ GcTypeOK'
    BY DEF IInv, TypeOK, IngestTypeOK, GcTypeOK
  <2> QED
    BY <2>1, <2>2 DEF TypeOK
<1>2. TxShape'
  BY DEF IInv, TxShape, SessionExists
<1>3. \A r \in Reqs : tx[r].pc # "idle" => TxNode(r)' = TxNode(r)
  BY DEF TxNode
<1>4. CasInv' /\ NumInv'
  BY <1>3, CasFrame, NumFrame DEF IInv
<1>5. SessInv'
  <2>1. SessInv /\ versions \in SUBSET Version /\ purged \in SUBSET Version
    BY DEF IInv, TypeOK, DbTypeOK
  <2>2. SessionSpent'
    BY <1>0, <2>1 DEF SessInv, SessionSpent, Version
  <2>3. SessionNodes'
    BY <2>1 DEF SessInv, SessionNodes
  <2> QED
    BY <1>3, <2>1, <2>2, <2>3, SessFrame DEF SessInv
<1>6. GcInv'
  <2>1. GcInv /\ marking \in [Pods -> SUBSET Sessions]
    BY DEF IInv, TypeOK, GcTypeOK
  <2>2. GcShape'
    BY <2>1 DEF GcInv, GcShape, SweepOK
  <2>3. MarkedExpired'
    BY <1>0, <2>1 DEF GcInv, MarkedExpired
  <2> QED
    BY <2>2, <2>3 DEF GcInv
<1> QED
  BY <1>1, <1>2, <1>4, <1>5, <1>6 DEF IInv

=============================================================================
