---------------------------- MODULE ClientProofs ----------------------------
(***************************************************************************)
(* The storage system with its client: the invariant of the store holds    *)
(* with the client's uploads too, and no blob is lost but to a purge of its*)
(* own block, for every value of the constants.                            *)
(***************************************************************************)
EXTENDS AegisStoreTheorems, AegisClient

-----------------------------------------------------------------------------
(* The client: no blob is lost but to a purge of its own block *)

\* The blocks of a list.
ListOf(f) == {f[i] : i \in DOMAIN f}

\* Block b belongs to the file of a version that was deleted.
Released(b) == \E v \in purged : b \in ListOf(client[v.sess].file)

Covered(b) == b \in blobs \/ Released(b)

\* A request commits the file of its session, and all of it was uploaded.
ReqFiles ==
    \A r \in Reqs : tx[r].pc # "idle" =>
        /\ tx[r].file = client[tx[r].sess].file
        /\ client[tx[r].sess].missing = {}

\* A client has a file from the moment its session exists; a block it need not
\* upload, or has uploaded, is stored.
ClientFiles ==
    \A s \in Sessions :
        /\ sessions[s].status # "NONE" => client[s].file \in Files
        /\ \A b \in ListOf(client[s].file) \ client[s].missing : Covered(b)

\* The rows of a version are blocks of its session's file.
ManifestFiles == \A m \in manifest : m.block \in ListOf(client[m.ver.sess].file)

\* A block with a row is stored, and has manifest rows until a purge takes them.
RowsCovered ==
    \A b \in Blocks : cas[b].live => /\ Covered(b)
                                     /\ RowsOf(b) = {} => Released(b)

\* What a sweep, a tombstone or a consumer is about to delete was released.
DoomedReleased ==
    /\ \A p \in Pods : gc[p].pc \in {"publish", "blob"} => Released(gc[p].cur)
    /\ \A b \in topic : Released(b)
    /\ \A c \in Consumers : con[c].pc = "blob" => Released(con[c].cur)

ClientInv == /\ ClientTypeOK /\ ReqFiles /\ ClientFiles /\ ManifestFiles
             /\ RowsCovered /\ DoomedReleased

\* The empty store with clients that have no file.
LEMMA ClientInitInv == ClientInit => ClientInv
<1> SUFFICES ASSUME ClientInit PROVE ClientInv
  OBVIOUS
<1>1. ClientTypeOK
  BY DEF ClientInit, ClientTypeOK
<1>2. ReqFiles
  BY IdleFacts DEF ClientInit, Init, IngestInit, ReqFiles
<1>3. ClientFiles /\ ManifestFiles
  BY DEF ClientInit, Init, DbInit, NoSessionRow, ClientFiles, ManifestFiles, ListOf
<1>4. RowsCovered
  BY DEF ClientInit, Init, DbInit, RowsCovered, NoRow
<1>5. DoomedReleased
  BY DEF ClientInit, Init, GcInit, DoomedReleased, NoSweep, NoMessage
<1> QED
  BY <1>1, <1>2, <1>3, <1>4, <1>5 DEF ClientInv

\* What was released stays released while the files of the deleted versions
\* stay what they are.
LEMMA ReleasedGrows ==
    ASSUME purged \subseteq purged',
           \A v \in purged : client'[v.sess].file = client[v.sess].file
    PROVE  \A b : Released(b) => Released(b)'
BY DEF Released, ListOf

-----------------------------------------------------------------------------
(* Steps of the system, with the clients at rest *)

\* A request moves on with its session and its list, or ends.
LEMMA MoveTx ==
    ASSUME NEW r \in Reqs, NEW x, tx \in [Reqs -> Request],
           tx' = [tx EXCEPT ![r] = x], tx[r].pc # "idle",
           x.pc # "idle" => x.sess = tx[r].sess /\ x.file = tx[r].file
    PROVE  \A q \in Reqs : tx'[q].pc # "idle" =>
              /\ tx[q].pc # "idle"
              /\ tx'[q].sess = tx[q].sess /\ tx'[q].file = tx[q].file
OBVIOUS

\* Only a client starts a request or a session.
LEMMA SystemTx ==
    ASSUME IInv, SystemStep
    PROVE  \A q \in Reqs : tx'[q].pc # "idle" =>
              /\ tx[q].pc # "idle"
              /\ tx'[q].sess = tx[q].sess /\ tx'[q].file = tx[q].file
<1> DEFINE P == \A q \in Reqs : tx'[q].pc # "idle" =>
                   /\ tx[q].pc # "idle"
                   /\ tx'[q].sess = tx[q].sess /\ tx'[q].file = tx[q].file
<1>0. tx \in [Reqs -> Request]
  BY DEF IInv, TypeOK, IngestTypeOK
<1>1. ASSUME UNCHANGED tx PROVE P
  BY <1>1
<1>2. ASSUME NEW r \in Reqs, tx' = [tx EXCEPT ![r] = Idle], tx[r].pc # "idle"
      PROVE  P
  BY <1>0, <1>2, IdleFacts, MoveTx
<1>3. ASSUME NEW r \in Reqs, NEW x, tx' = [tx EXCEPT ![r] = x], tx[r].pc # "idle",
             x.sess = tx[r].sess, x.file = tx[r].file
      PROVE  P
  BY <1>0, <1>3, MoveTx
<1> HIDE DEF P
<1>4. ASSUME NEW r \in Reqs, ServeCommit(r) \/ Abort(r) PROVE P
  <2> DEFINE goes(k) == [tx[r] EXCEPT !.pc = k]
             adv(k) == Advance(r, k)
             ins == [adv("manifest") EXCEPT !.ins = @ \cup {Block(r)}]
             bump == [adv("commit") EXCEPT !.bump[Block(r)] = @ + 1]
             num == [tx[r] EXCEPT !.pc = "ensure", !.pos = 1,
                                  !.num = next_version_number(TxNode(r))]
             ver == [Idle EXCEPT !.pc = "verify", !.sess = tx[r].sess,
                                 !.file = tx[r].file, !.pos = 1]
             next == [tx[r] EXCEPT !.pc = "verify", !.pos = @ + 1]
  <2>1. tx[r] \in Request
    BY <1>0
  <2>2. \A k : goes(k).sess = tx[r].sess /\ goes(k).file = tx[r].file
    BY <2>1 DEF Request
  <2>3. \A k : adv(k).sess = tx[r].sess /\ adv(k).file = tx[r].file
    <3> SUFFICES ASSUME NEW k
                 PROVE  adv(k).sess = tx[r].sess /\ adv(k).file = tx[r].file
      OBVIOUS
    <3>1. CASE LastPos(r)
      BY <2>1, <3>1 DEF Advance, Request
    <3>2. CASE ~LastPos(r)
      BY <2>1, <3>2 DEF Advance, Request
    <3> QED
      BY <3>1, <3>2
  <2>4. ver.sess = tx[r].sess /\ ver.file = tx[r].file
    BY DEF Idle
  <2>5. num.sess = tx[r].sess /\ num.file = tx[r].file
    BY <2>1 DEF Request
  <2>6. next.sess = tx[r].sess /\ next.file = tx[r].file
    BY <2>1 DEF Request
  <2>7. /\ ins.sess = tx[r].sess /\ ins.file = tx[r].file
        /\ bump.sess = tx[r].sess /\ bump.file = tx[r].file
    BY <2>3
  <2>8. CASE LockSession(r)
    <3>1. /\ tx[r].pc # "idle"
          /\ tx' = [tx EXCEPT ![r] = goes("node")] \/ tx' = [tx EXCEPT ![r] = Idle]
      BY <2>8 DEF LockSession
    <3> HIDE DEF goes
    <3> QED
      BY <1>2, <1>3, <2>2, <3>1
  <2>9. CASE LockNode(r)
    <3>1. tx[r].pc # "idle" /\ tx' = [tx EXCEPT ![r] = num]
      BY <2>9 DEF LockNode
    <3> HIDE DEF num
    <3> QED
      BY <1>3, <2>5, <3>1
  <2>10. CASE EnsureBlockRow(r)
    <3>1. /\ tx[r].pc # "idle"
          /\ \/ tx' = [tx EXCEPT ![r] = adv("manifest")]
             \/ tx' = [tx EXCEPT ![r] = ins]
      BY <2>10 DEF EnsureBlockRow
    <3> HIDE DEF adv, ins
    <3> QED
      BY <1>3, <2>3, <2>7, <3>1
  <2>11. CASE AddManifestRow(r)
    <3>1. /\ tx[r].pc # "idle"
          /\ tx' = [tx EXCEPT ![r] = Idle] \/ tx' = [tx EXCEPT ![r] = bump]
      BY <2>11 DEF AddManifestRow
    <3> HIDE DEF adv, bump
    <3> QED
      BY <1>2, <1>3, <2>7, <3>1
  <2>12. CASE CommitTx(r)
    <3>1. /\ tx[r].pc # "idle"
          /\ tx' = [tx EXCEPT ![r] = ver] \/ tx' = [tx EXCEPT ![r] = Idle]
      BY <2>12 DEF CommitTx
    <3> HIDE DEF ver
    <3> QED
      BY <1>2, <1>3, <2>4, <3>1
  <2>13. CASE VerifyBlock(r)
    <3>1. /\ tx[r].pc # "idle"
          /\ \/ tx' = [tx EXCEPT ![r] = goes("mark")]
             \/ tx' = [tx EXCEPT ![r] = Idle]
             \/ tx' = [tx EXCEPT ![r] = adv("idle")]
      BY <2>13 DEF VerifyBlock
    <3> HIDE DEF adv, goes
    <3> QED
      BY <1>2, <1>3, <2>2, <2>3, <3>1
  <2>14. CASE MarkBlockVerified(r)
    <3>1. /\ tx[r].pc # "idle"
          /\ tx' = [tx EXCEPT ![r] = Idle] \/ tx' = [tx EXCEPT ![r] = next]
      BY <2>14 DEF MarkBlockVerified
    <3> HIDE DEF next
    <3> QED
      BY <1>2, <1>3, <2>6, <3>1
  <2>15. CASE DeadlockVictim(r) \/ Abort(r)
    <3>1. tx[r].pc # "idle" /\ tx' = [tx EXCEPT ![r] = Idle]
      BY <2>15 DEF DeadlockVictim, Abort, WaitsFor
    <3> QED
      BY <1>2, <3>1
  <2> QED
    BY <1>4, <2>8, <2>9, <2>10, <2>11, <2>12, <2>13, <2>14, <2>15 DEF ServeCommit
<1>5. ASSUME NEW s \in Sessions, ReapSession(s) PROVE P
  BY <1>1, <1>5 DEF ReapSession
<1>6. ASSUME NEW v \in versions, PurgeVersion(v) PROVE P
  BY <1>1, <1>6 DEF PurgeVersion
<1>7. ASSUME GcStep PROVE P
  <2>1. ASSUME NEW p \in Pods,
               \/ GetExpiredSessions(p)
               \/ \E s \in Sessions : MarkSessionExpired(p, s)
               \/ SweepStart(p) \/ RateLimited(p)
               \/ \E b \in Blocks : DoubleCheckBlock(p, b)
               \/ PublishBlockTombstone(p) \/ DeleteBlob(p) \/ HardDelete(p)
               \/ PodCrash(p)
        PROVE  UNCHANGED tx
    BY <2>1 DEF GetExpiredSessions, MarkSessionExpired, SweepStart, RateLimited,
       DoubleCheckBlock, PublishBlockTombstone, DeleteBlob, HardDelete, PodCrash
  <2>2. ASSUME NEW c \in Consumers,
               \/ ReadTombstone(c) \/ ConsumerDeleteBlob(c)
               \/ ConsumerHardDelete(c) \/ ConsumerCrash(c)
        PROVE  UNCHANGED tx
    BY <2>2 DEF ReadTombstone, ConsumerDeleteBlob, ConsumerHardDelete, ConsumerCrash
  <2>3. UNCHANGED tx
    BY Zenon, <1>7, <2>1, <2>2 DEF GcStep
  <2> QED
    BY <1>1, <2>3
<1>8. ASSUME Tick, UNCHANGED <<tx, gcVars>> PROVE P
  BY <1>1, <1>8
<1>9. P
  BY Zenon, <1>4, <1>5, <1>6, <1>7, <1>8 DEF SystemStep, IngestStep
<1> QED
  BY <1>9 DEF P

\* Nor does anything but a client use a new session id.
LEMMA SystemSessions ==
    ASSUME IInv, SystemStep
    PROVE  \A s \in Sessions : sessions'[s].status # "NONE" =>
              sessions[s].status # "NONE"
<1> DEFINE P == \A s \in Sessions : sessions'[s].status # "NONE" =>
                   sessions[s].status # "NONE"
<1>0. sessions \in [Sessions -> SessionRow]
  BY DEF IInv, TypeOK, DbTypeOK
<1>1. ASSUME UNCHANGED sessions PROVE P
  BY <1>1
<1>2. ASSUME NEW z \in Sessions, NEW st, sessions[z].status # "NONE",
             sessions' = [sessions EXCEPT ![z].status = st]
      PROVE  P
  BY <1>0, <1>2
<1> HIDE DEF P
<1>3. ASSUME NEW r \in Reqs, ServeCommit(r) \/ Abort(r) PROVE P
  <2>1. CASE CommitTx(r)
    <3>1. /\ tx[r].sess \in Sessions /\ sessions[tx[r].sess].status # "NONE"
          /\ sessions' = [sessions EXCEPT ![tx[r].sess].status = "COMPLETED"]
      BY <2>1 DEF IInv, TxShape, CommitTx
    <3> QED
      BY <1>2, <3>1
  <2>2. CASE ~CommitTx(r)
    <3>1. UNCHANGED sessions
      BY <1>3, <2>2 DEF ServeCommit, Abort, LockSession, LockNode, EnsureBlockRow,
         AddManifestRow, VerifyBlock, MarkBlockVerified, DeadlockVictim, dbVars
    <3> QED
      BY <1>1, <3>1
  <2> QED
    BY <2>1, <2>2
<1>4. ASSUME NEW s \in Sessions, ReapSession(s) PROVE P
  BY <1>2, <1>4 DEF ReapSession, SessionExists
<1>5. ASSUME NEW v \in versions, PurgeVersion(v) PROVE P
  BY <1>1, <1>5 DEF PurgeVersion
<1>6. ASSUME NEW p \in Pods, NEW s \in Sessions, MarkSessionExpired(p, s) PROVE P
  <2>1. \/ UNCHANGED sessions
        \/ /\ SessionExists(s)
           /\ sessions' = [sessions EXCEPT ![s].status = "EXPIRED"]
    BY <1>6 DEF MarkSessionExpired
  <2> QED
    BY <1>1, <1>2, <2>1 DEF SessionExists
<1>7. ASSUME NEW p \in Pods,
             \/ GetExpiredSessions(p) \/ SweepStart(p) \/ RateLimited(p)
             \/ \E b \in Blocks : DoubleCheckBlock(p, b)
             \/ PublishBlockTombstone(p) \/ DeleteBlob(p) \/ HardDelete(p)
             \/ PodCrash(p)
      PROVE  P
  <2>1. UNCHANGED sessions
    BY <1>7 DEF GetExpiredSessions, SweepStart, RateLimited, DoubleCheckBlock,
       PublishBlockTombstone, DeleteBlob, HardDelete, PodCrash, dbVars
  <2> QED
    BY <1>1, <2>1
<1>8. ASSUME NEW c \in Consumers,
             \/ ReadTombstone(c) \/ ConsumerDeleteBlob(c)
             \/ ConsumerHardDelete(c) \/ ConsumerCrash(c)
      PROVE  P
  <2>1. UNCHANGED sessions
    BY <1>8 DEF ReadTombstone, ConsumerDeleteBlob, ConsumerHardDelete,
       ConsumerCrash, dbVars
  <2> QED
    BY <1>1, <2>1
<1>9. ASSUME Tick PROVE P
  BY <1>1, <1>9 DEF Tick
<1>10. P
  BY Zenon, <1>3, <1>4, <1>5, <1>6, <1>7, <1>8, <1>9 DEF SystemStep, IngestStep, GcStep
<1> QED
  BY <1>10 DEF P

\* A blob is deleted only when its block was released, and no version comes
\* back from a purge.
LEMMA SystemBlobs ==
    ASSUME DoomedReleased, SystemStep
    PROVE  /\ purged \subseteq purged'
           /\ \A b \in blobs \ blobs' : Released(b)
<1> DEFINE P == purged \subseteq purged' /\ \A b \in blobs \ blobs' : Released(b)
<1>1. ASSUME purged' = purged, blobs' = blobs PROVE P
  BY <1>1
<1>2. ASSUME NEW d, purged' = purged, blobs' = blobs \ {d}, Released(d) PROVE P
  BY <1>2
<1>3. ASSUME purged \subseteq purged', blobs' = blobs PROVE P
  BY <1>3
<1> HIDE DEF P
<1>4. ASSUME NEW r \in Reqs, ServeCommit(r) \/ Abort(r) PROVE P
  <2>1. UNCHANGED <<purged, blobs>>
    BY <1>4 DEF ServeCommit, Abort, LockSession, LockNode, EnsureBlockRow,
       AddManifestRow, CommitTx, VerifyBlock, MarkBlockVerified, DeadlockVictim, dbVars
  <2> QED
    BY <1>1, <2>1
<1>5. ASSUME NEW s \in Sessions, ReapSession(s) PROVE P
  BY <1>1, <1>5 DEF ReapSession
<1>6. ASSUME NEW v \in versions, PurgeVersion(v) PROVE P
  BY <1>3, <1>6 DEF PurgeVersion
<1>7. ASSUME NEW p \in Pods, DeleteBlob(p) PROVE P
  <2>1. gc[p].pc = "blob" /\ Released(gc[p].cur)
    BY <1>7 DEF DeleteBlob, DoomedReleased
  <2>2. purged' = purged /\ (blobs' = blobs \/ blobs' = blobs \ {gc[p].cur})
    BY <1>7 DEF DeleteBlob
  <2> QED
    BY <1>1, <1>2, <2>1, <2>2
<1>8. ASSUME NEW c \in Consumers, ConsumerDeleteBlob(c) PROVE P
  <2>1. con[c].pc = "blob" /\ Released(con[c].cur)
    BY <1>8 DEF ConsumerDeleteBlob, DoomedReleased
  <2>2. purged' = purged /\ (blobs' = blobs \/ blobs' = blobs \ {con[c].cur})
    BY <1>8 DEF ConsumerDeleteBlob
  <2> QED
    BY <1>1, <1>2, <2>1, <2>2
<1>9. ASSUME NEW p \in Pods,
             \/ GetExpiredSessions(p)
             \/ \E s \in Sessions : MarkSessionExpired(p, s)
             \/ SweepStart(p) \/ RateLimited(p)
             \/ \E b \in Blocks : DoubleCheckBlock(p, b)
             \/ PublishBlockTombstone(p) \/ HardDelete(p) \/ PodCrash(p)
      PROVE  P
  <2>1. UNCHANGED <<purged, blobs>>
    BY <1>9 DEF GetExpiredSessions, MarkSessionExpired, SweepStart, RateLimited,
       DoubleCheckBlock, PublishBlockTombstone, HardDelete, PodCrash, dbVars
  <2> QED
    BY <1>1, <2>1
<1>10. ASSUME NEW c \in Consumers,
              ReadTombstone(c) \/ ConsumerHardDelete(c) \/ ConsumerCrash(c)
       PROVE  P
  <2>1. UNCHANGED <<purged, blobs>>
    BY <1>10 DEF ReadTombstone, ConsumerHardDelete, ConsumerCrash, dbVars
  <2> QED
    BY <1>1, <2>1
<1>11. ASSUME Tick PROVE P
  BY <1>1, <1>11 DEF Tick
<1>12. P
  BY Zenon, <1>4, <1>5, <1>6, <1>7, <1>8, <1>9, <1>10, <1>11
  DEF SystemStep, IngestStep, GcStep
<1> QED
  BY <1>12 DEF P

\* One pod moves on: what it is about to delete was released.
LEMMA DoomedPod ==
    ASSUME DoomedReleased, NEW p \in Pods, NEW x, gc \in [Pods -> Sweep],
           gc' = [gc EXCEPT ![p] = x],
           x.pc \in {"publish", "blob"} => Released(x.cur)
    PROVE  \A q \in Pods : gc'[q].pc \in {"publish", "blob"} => Released(gc'[q].cur)
BY DEF DoomedReleased

\* One consumer moves on.
LEMMA DoomedConsumer ==
    ASSUME DoomedReleased, NEW c \in Consumers, NEW x, con \in [Consumers -> Consumer],
           con' = [con EXCEPT ![c] = x],
           x.pc = "blob" => Released(x.cur)
    PROVE  \A d \in Consumers : con'[d].pc = "blob" => Released(con'[d].cur)
BY DEF DoomedReleased

\* The collector dooms a block only when it finds no references: then a purge
\* has released it.
LEMMA SystemDoomed ==
    ASSUME IInv, RowsCovered, DoomedReleased, SystemStep
    PROVE  /\ \A p \in Pods : gc'[p].pc \in {"publish", "blob"} => Released(gc'[p].cur)
           /\ \A b \in topic' : Released(b)
           /\ \A c \in Consumers : con'[c].pc = "blob" => Released(con'[c].cur)
<1> DEFINE G == \A p \in Pods : gc'[p].pc \in {"publish", "blob"} => Released(gc'[p].cur)
           T == \A b \in topic' : Released(b)
           C == \A c \in Consumers : con'[c].pc = "blob" => Released(con'[c].cur)
<1>0. gc \in [Pods -> Sweep] /\ con \in [Consumers -> Consumer]
  BY DEF IInv, TypeOK, GcTypeOK
<1>1. gc' = gc => G
  BY DEF DoomedReleased
<1>2. topic' \subseteq topic => T
  BY DEF DoomedReleased
<1>3. con' = con => C
  BY DEF DoomedReleased
<1>4. ASSUME NEW p \in Pods, NEW x, gc' = [gc EXCEPT ![p] = x],
             x.pc \in {"publish", "blob"} => Released(x.cur)
      PROVE  G
  BY <1>0, <1>4, DoomedPod
<1>5. ASSUME NEW c \in Consumers, NEW x, con' = [con EXCEPT ![c] = x],
             x.pc = "blob" => Released(x.cur)
      PROVE  C
  BY <1>0, <1>5, DoomedConsumer
<1>6. NoMessage.pc = "read" /\ NoSweep.pc = "idle"
  BY DEF NoMessage, NoSweep
<1> HIDE DEF G, T, C
<1>7. ASSUME NEW p \in Pods, NEW b, gc' = [gc EXCEPT ![p] = NextInBatch(p, b)] PROVE G
  <2>1. NextInBatch(p, b).pc \in {"idle", "check"}
    BY NextInBatchOK DEF IInv
  <2> QED
    BY <1>4, <1>7, <2>1
<1>8. ASSUME NEW p \in Pods, PodCrash(p) \/ GetExpiredSessions(p) PROVE G /\ T /\ C
  <2>1. /\ topic' = topic /\ con' = con
        /\ gc' = gc \/ gc' = [gc EXCEPT ![p] = NoSweep]
    BY <1>8 DEF PodCrash, GetExpiredSessions
  <2> QED
    BY <1>1, <1>2, <1>3, <1>4, <1>6, <2>1
<1>9. ASSUME NEW p \in Pods, NEW s \in Sessions, MarkSessionExpired(p, s)
      PROVE  G /\ T /\ C
  BY <1>1, <1>2, <1>3, <1>9 DEF MarkSessionExpired
<1>10. ASSUME NEW p \in Pods, SweepStart(p) PROVE G /\ T /\ C
  <2>1. topic' = topic /\ con' = con
    BY <1>10 DEF SweepStart
  <2> DEFINE x(B) ==
        [pc |-> IF B = {} THEN "idle" ELSE "check",
         batch |-> B, cur |-> None,
         count |-> IF now - gc[p].resetAt > Hour THEN 0 ELSE gc[p].count,
         resetAt |-> IF now - gc[p].resetAt > Hour THEN now ELSE gc[p].resetAt]
  <2>2. PICK B \in SUBSET Blocks : gc' = [gc EXCEPT ![p] = x(B)]
    BY Zenon, <1>10 DEF SweepStart
  <2>3. x(B).pc \in {"idle", "check"}
    OBVIOUS
  <2> HIDE DEF x
  <2> QED
    BY <1>2, <1>3, <1>4, <2>1, <2>2, <2>3
<1>11. ASSUME NEW p \in Pods, RateLimited(p) PROVE G /\ T /\ C
  <2> DEFINE x == [gc[p] EXCEPT !.pc = "idle", !.batch = {}]
  <2>1. topic' = topic /\ con' = con /\ gc' = [gc EXCEPT ![p] = x]
    BY <1>0, <1>11 DEF RateLimited
  <2>2. x.pc = "idle"
    BY <1>0 DEF Sweep
  <2> HIDE DEF x
  <2> QED
    BY <1>2, <1>3, <1>4, <2>1, <2>2
<1>12. ASSUME NEW p \in Pods, NEW b \in Blocks, DoubleCheckBlock(p, b)
       PROVE  G /\ T /\ C
  <2> DEFINE x == [gc[p] EXCEPT !.pc = "publish", !.cur = b]
  <2>1. /\ topic' = topic /\ con' = con
        /\ \/ Deletable(b) /\ gc' = [gc EXCEPT ![p] = x]
           \/ gc' = [gc EXCEPT ![p] = NextInBatch(p, b)]
    BY <1>0, <1>12 DEF DoubleCheckBlock
  <2>2. x.cur = b
    BY <1>0 DEF Sweep
  <2>3. Deletable(b) => Released(b)
    BY ZeroRefs DEF Deletable, RowsCovered, IInv, CasInv
  <2> HIDE DEF x
  <2> QED
    BY <1>2, <1>3, <1>4, <1>7, <2>1, <2>2, <2>3
<1>13. ASSUME NEW p \in Pods, PublishBlockTombstone(p) PROVE G /\ T /\ C
  <2> DEFINE x == [gc[p] EXCEPT !.pc = "blob"]
  <2>1. Released(gc[p].cur)
    BY <1>13 DEF PublishBlockTombstone, DoomedReleased
  <2>2. /\ con' = con
        /\ \/ topic' = topic \cup {gc[p].cur} /\ gc' = [gc EXCEPT ![p] = x]
           \/ topic' = topic /\ gc' = [gc EXCEPT ![p] = NextInBatch(p, gc[p].cur)]
    BY <1>0, <1>13 DEF PublishBlockTombstone
  <2>3. x.cur = gc[p].cur
    BY <1>0 DEF Sweep
  <2>4. T
    BY <2>1, <2>2 DEF DoomedReleased, T
  <2> HIDE DEF x
  <2> QED
    BY <1>3, <1>4, <1>7, <2>1, <2>2, <2>3, <2>4
<1>14. ASSUME NEW p \in Pods, DeleteBlob(p) PROVE G /\ T /\ C
  <2> DEFINE x == [gc[p] EXCEPT !.pc = "row"]
  <2>1. /\ topic' = topic /\ con' = con
        /\ \/ gc' = [gc EXCEPT ![p] = x]
           \/ gc' = [gc EXCEPT ![p] = NextInBatch(p, gc[p].cur)]
    BY <1>0, <1>14 DEF DeleteBlob
  <2>2. x.pc = "row"
    BY <1>0 DEF Sweep
  <2> HIDE DEF x
  <2> QED
    BY <1>2, <1>3, <1>4, <1>7, <2>1, <2>2
<1>15. ASSUME NEW p \in Pods, HardDelete(p) PROVE G /\ T /\ C
  <2> DEFINE n == NextInBatch(p, gc[p].cur)
             x == [n EXCEPT !.count = IF Deletable(gc[p].cur) THEN @ + 1 ELSE @]
  <2>1. /\ topic' = topic /\ con' = con
        /\ gc' = [gc EXCEPT ![p] = x] \/ gc' = [gc EXCEPT ![p] = n]
    BY <1>15 DEF HardDelete
  <2>2. n \in Sweep /\ n.pc \in {"idle", "check"}
    BY NextInBatchOK DEF IInv, SweepOK
  <2> HIDE DEF n
  <2>3. x.pc \in {"idle", "check"}
    BY <2>2 DEF Sweep
  <2> HIDE DEF x
  <2> QED
    BY <1>2, <1>3, <1>4, <2>1, <2>2, <2>3
<1>16. ASSUME NEW c \in Consumers, ReadTombstone(c) PROVE G /\ T /\ C
  <2>1. PICK b \in topic : con' = [con EXCEPT ![c] = [pc |-> "blob", cur |-> b]]
    BY <1>16 DEF ReadTombstone
  <2>2. gc' = gc /\ topic' = topic /\ Released(b)
    BY <1>16, <2>1 DEF ReadTombstone, DoomedReleased
  <2> QED
    BY <1>1, <1>2, <1>5, <2>1, <2>2
<1>17. ASSUME NEW c \in Consumers,
              ConsumerDeleteBlob(c) \/ ConsumerHardDelete(c) \/ ConsumerCrash(c)
       PROVE  G /\ T /\ C
  <2> DEFINE x == [con[c] EXCEPT !.pc = "row"]
  <2>1. /\ gc' = gc /\ topic' \subseteq topic
        /\ con' = [con EXCEPT ![c] = x] \/ con' = [con EXCEPT ![c] = NoMessage]
    BY <1>0, <1>17 DEF ConsumerDeleteBlob, ConsumerHardDelete, ConsumerCrash
  <2>2. x.pc = "row"
    BY <1>0 DEF Consumer
  <2> HIDE DEF x
  <2> QED
    BY <1>1, <1>2, <1>5, <1>6, <2>1, <2>2
<1>18. ASSUME UNCHANGED gcVars PROVE G /\ T /\ C
  BY <1>1, <1>2, <1>3, <1>18 DEF gcVars
<1>19. G /\ T /\ C
  BY Zenon, <1>8, <1>9, <1>10, <1>11, <1>12, <1>13, <1>14, <1>15, <1>16, <1>17, <1>18
  DEF SystemStep, GcStep
<1> QED
  BY <1>19 DEF G, T, C

\* A step of the system keeps the clients' invariant.
LEMMA SystemKeeps ==
    ASSUME IInv, ClientInv, SystemStep, UNCHANGED client
    PROVE  ClientInv'
<1>0. /\ ClientTypeOK /\ ReqFiles /\ ClientFiles /\ ManifestFiles
      /\ RowsCovered /\ DoomedReleased
  BY DEF ClientInv
<1>1. purged \subseteq purged' /\ \A b \in blobs \ blobs' : Released(b)
  BY <1>0, SystemBlobs
<1>2. \A b : Released(b) => Released(b)'
  BY <1>1, ReleasedGrows
<1>3. \A b : Covered(b) => Covered(b)'
  BY <1>1, <1>2 DEF Covered
<1>4. ClientTypeOK'
  BY <1>0 DEF ClientTypeOK
<1>5. ReqFiles'
  <2>1. \A q \in Reqs : tx'[q].pc # "idle" =>
           /\ tx[q].pc # "idle"
           /\ tx'[q].sess = tx[q].sess /\ tx'[q].file = tx[q].file
    BY SystemTx
  <2> QED
    BY <1>0, <2>1 DEF ReqFiles
<1>6. ClientFiles'
  <2>1. \A s \in Sessions : sessions'[s].status # "NONE" => sessions[s].status # "NONE"
    BY SystemSessions
  <2> QED
    BY <1>0, <1>3, <2>1 DEF ClientFiles, ListOf
<1>7. DoomedReleased'
  <2>1. /\ \A p \in Pods : gc'[p].pc \in {"publish", "blob"} => Released(gc'[p].cur)
        /\ \A b \in topic' : Released(b)
        /\ \A c \in Consumers : con'[c].pc = "blob" => Released(con'[c].cur)
    BY <1>0, SystemDoomed
  <2> QED
    BY <1>2, <2>1 DEF DoomedReleased
<1>8. ASSUME NEW r \in Reqs, CommitTx(r) PROVE ManifestFiles' /\ RowsCovered'
  <2>1. manifest' = manifest \cup TxRows(r)
    BY <1>8 DEF CommitTx
  <2>2. /\ tx[r].file = client[tx[r].sess].file /\ client[tx[r].sess].missing = {}
        /\ tx[r].sess \in Sessions
    BY <1>0, <1>8 DEF CommitTx, ReqFiles, IInv, TxShape
  <2>3. \A m \in TxRows(r) : m.block \in ListOf(client[m.ver.sess].file)
    <3> SUFFICES ASSUME NEW i \in DOMAIN tx[r].file
                 PROVE  tx[r].file[i] \in ListOf(client[tx[r].sess].file)
      BY DEF TxRows, TxVersion
    <3> QED
      BY <2>2 DEF ListOf
  <2>4. ManifestFiles'
    BY <1>0, <2>1, <2>3 DEF ManifestFiles, ListOf
  <2>5. ASSUME NEW b \in Blocks, cas[b].live
        PROVE  Covered(b)' /\ (RowsOf(b)' = {} => Released(b)')
    <3>1. Covered(b) /\ (RowsOf(b) = {} => Released(b))
      BY <1>0, <2>5 DEF RowsCovered
    <3>2. RowsOf(b) \subseteq RowsOf(b)'
      BY <2>1 DEF RowsOf
    <3> QED
      BY <1>2, <1>3, <3>1, <3>2
  <2>6. ASSUME NEW b \in Blocks, b \in tx[r].ins
        PROVE  Covered(b)' /\ RowsOf(b)' # {}
    <3>1. PICK i \in DOMAIN tx[r].file : b = tx[r].file[i]
      BY <2>6 DEF IInv, CasInv, TxInserts
    <3>2. Covered(b)
      BY <1>0, <2>2, <3>1 DEF ClientFiles, ListOf
    <3> DEFINE m == [ver |-> TxVersion(r), idx |-> i, block |-> tx[r].file[i]]
    <3>3. m \in TxRows(r) /\ m.block = b
      BY <3>1 DEF TxRows
    <3> HIDE DEF m
    <3>4. m \in RowsOf(b)'
      BY <2>1, <3>3 DEF RowsOf
    <3> QED
      BY <1>3, <3>2, <3>4
  <2>7. \A b \in Blocks : cas'[b].live <=> cas[b].live \/ b \in tx[r].ins
    BY <1>8, CommitRows
  <2> QED
    BY <2>4, <2>5, <2>6, <2>7 DEF RowsCovered
<1>9. ASSUME NEW v \in versions, PurgeVersion(v) PROVE ManifestFiles' /\ RowsCovered'
  <2>1. manifest' = manifest \ VersionRows(v) /\ purged' = purged \cup {v}
    BY <1>9 DEF PurgeVersion
  <2>2. ManifestFiles'
    BY <1>0, <2>1 DEF ManifestFiles, ListOf
  <2>3. ASSUME NEW b \in Blocks, RowsOf(b) # {}, RowsOf(b)' = {} PROVE Released(b)'
    <3>1. PICK m \in manifest : m.block = b /\ m.ver = v
      BY <2>1, <2>3 DEF RowsOf, VersionRows
    <3>2. b \in ListOf(client[v.sess].file)
      BY <1>0, <3>1 DEF ManifestFiles
    <3> QED
      BY <2>1, <3>2 DEF Released, ListOf
  <2>4. \A b \in Blocks : cas'[b].live = cas[b].live
    BY <1>9, PurgeRows
  <2> QED
    BY <1>0, <1>2, <1>3, <2>2, <2>3, <2>4 DEF RowsCovered
<1>10. ASSUME manifest' = manifest,
              \A b \in Blocks : cas'[b].live => cas[b].live
       PROVE  ManifestFiles' /\ RowsCovered'
  <2>1. ManifestFiles'
    BY <1>0, <1>10 DEF ManifestFiles, ListOf
  <2>2. \A b : RowsOf(b)' = RowsOf(b)
    BY <1>10 DEF RowsOf
  <2> QED
    BY <1>0, <1>2, <1>3, <1>10, <2>1, <2>2 DEF RowsCovered
<1>11. ASSUME NEW b \in Blocks, cas' = [cas EXCEPT ![b] = NoRow]
       PROVE  \A x \in Blocks : cas'[x].live => cas[x].live
  BY <1>11, NoRowFacts DEF IInv, TypeOK, DbTypeOK
<1>12. ManifestFiles' /\ RowsCovered'
  <2>1. \/ \E r \in Reqs : CommitTx(r)
        \/ \E v \in versions : PurgeVersion(v)
        \/ \E b \in Blocks : /\ cas' = [cas EXCEPT ![b] = NoRow]
                             /\ UNCHANGED manifest
        \/ /\ UNCHANGED manifest
           /\ \A b \in Blocks : cas'[b].live = cas[b].live
    BY StepKinds DEF Next
  <2> QED
    BY <1>8, <1>9, <1>10, <1>11, <2>1
<1> QED
  BY <1>4, <1>5, <1>6, <1>7, <1>12 DEF ClientInv

-----------------------------------------------------------------------------
(* Steps of a client *)

\* POST /initiate: the blocks the answer does not name have a row, so they are
\* stored; no version, request or row is of a session that did not exist.
LEMMA InitiateKeeps ==
    ASSUME IInv, ClientInv, NEW s \in Sessions, NEW n \in Nodes, NEW f \in Files,
           ClientInitiate(s, n, f)
    PROVE  ClientInv'
<1> DEFINE new == [file |-> f, missing |-> MissingBlocks(f)]
<1>0. /\ ClientTypeOK /\ ReqFiles /\ ClientFiles /\ ManifestFiles
      /\ RowsCovered /\ DoomedReleased
  BY DEF ClientInv
<1>1. /\ client' = [client EXCEPT ![s] = new]
      /\ sessions[s].status = "NONE"
      /\ cas' = cas /\ manifest' = manifest /\ purged' = purged
      /\ blobs' = blobs /\ tx' = tx
      /\ gc' = gc /\ topic' = topic /\ con' = con
  BY DEF ClientInitiate, Initiate, gcVars
<1>2. DOMAIN client = Sessions /\ client'[s] = new
      /\ \A z \in Sessions \ {s} : client'[z] = client[z]
  BY <1>0, <1>1 DEF ClientTypeOK
<1>3. new.file = f /\ new.missing = MissingBlocks(f)
  OBVIOUS
<1> HIDE DEF new
<1>4. \A v \in versions \cup purged : v.sess \in Sessions /\ v.sess # s
  <2>1. versions \cup purged \subseteq Version
    BY DEF IInv, TypeOK, DbTypeOK
  <2> QED
    BY <1>1, <2>1 DEF IInv, SessInv, SessionSpent, Version
<1>5. \A b : Released(b) => Released(b)'
  BY <1>1, <1>2, <1>4, ReleasedGrows
<1>6. \A b : Covered(b) => Covered(b)'
  BY <1>1, <1>5 DEF Covered
<1>7. ClientTypeOK'
  <2>1. MissingBlocks(f) \subseteq Blocks
    BY FileFacts DEF MissingBlocks
  <2> QED
    BY <1>0, <1>1, <2>1 DEF ClientTypeOK, new
<1>8. ReqFiles'
  <2>1. \A r \in Reqs : tx[r].pc # "idle" => tx[r].sess \in Sessions \ {s}
    BY <1>1 DEF IInv, TxShape
  <2> QED
    BY <1>0, <1>1, <1>2, <2>1 DEF ReqFiles
<1>9. ClientFiles'
  <2>1. \A b \in ListOf(f) \ MissingBlocks(f) : Covered(b)
    <3>1. \A b \in ListOf(f) \ MissingBlocks(f) : b \in Blocks /\ cas[b].live
      BY FileFacts DEF ListOf, MissingBlocks
    <3> QED
      BY <1>0, <3>1 DEF RowsCovered
  <2>2. ASSUME NEW z \in Sessions \ {s}
        PROVE  /\ sessions'[z].status # "NONE" => client'[z].file \in Files
               /\ \A b \in ListOf(client'[z].file) \ client'[z].missing : Covered(b)
    <3>1. sessions'[z] = sessions[z]
      BY DEF ClientInitiate, Initiate
    <3> QED
      BY <1>0, <1>2, <3>1 DEF ClientFiles
  <2>3. \A z \in Sessions :
          /\ sessions'[z].status # "NONE" => client'[z].file \in Files
          /\ \A b \in ListOf(client'[z].file) \ client'[z].missing : Covered(b)
    BY <1>2, <1>3, <2>1, <2>2
  <2> QED
    BY <1>6, <2>3 DEF ClientFiles, ListOf
<1>10. ManifestFiles'
  <2>1. \A m \in manifest : m.ver.sess \in Sessions \ {s}
    BY <1>4 DEF IInv, CasInv, ManifestOfVersions
  <2>2. \A m \in manifest : client'[m.ver.sess] = client[m.ver.sess]
    BY <1>2, <2>1
  <2>3. manifest' = manifest
    BY <1>1
  <2> QED
    BY <1>0, <2>2, <2>3 DEF ManifestFiles, ListOf
<1>11. RowsCovered'
  BY <1>0, <1>1, <1>5, <1>6 DEF RowsCovered, RowsOf
<1>12. DoomedReleased'
  BY <1>0, <1>1, <1>5 DEF DoomedReleased
<1> QED
  BY <1>7, <1>8, <1>9, <1>10, <1>11, <1>12 DEF ClientInv

\* A PUT stores the block it takes off the list.
LEMMA PutKeeps ==
    ASSUME IInv, ClientInv, NEW s \in Sessions, NEW b \in Blocks, PutBlob(s, b)
    PROVE  IInv' /\ ClientInv'
<1>0. /\ ClientTypeOK /\ ReqFiles /\ ClientFiles /\ ManifestFiles
      /\ RowsCovered /\ DoomedReleased
  BY DEF ClientInv
<1>1. /\ blobs' = blobs \cup {b} /\ sessions' = sessions
      /\ client' = [client EXCEPT ![s].missing = @ \ {b}]
      /\ cas' = cas /\ manifest' = manifest /\ purged' = purged /\ tx' = tx
      /\ gc' = gc /\ topic' = topic /\ con' = con
  BY DEF PutBlob, gcVars
<1>2. ClientTypeOK'
  BY <1>0, <1>1 DEF ClientTypeOK
<1>3. \A z \in Sessions : /\ client'[z].file = client[z].file
                          /\ client'[z].missing \subseteq client[z].missing
                          /\ client[z].missing \subseteq client'[z].missing \cup {b}
  BY <1>0, <1>1 DEF ClientTypeOK
<1>4. \A v \in purged : v.sess \in Sessions
  BY DEF IInv, TypeOK, DbTypeOK, Version
<1>5. \A x : Released(x) => Released(x)'
  BY <1>1, <1>3, <1>4, ReleasedGrows
<1>6. \A x : Covered(x) => Covered(x)'
  BY <1>1, <1>5 DEF Covered
<1>7. ReqFiles'
  <2>1. \A r \in Reqs : tx[r].pc # "idle" => tx[r].sess \in Sessions
    BY DEF IInv, TxShape
  <2> QED
    BY <1>0, <1>1, <1>3, <2>1 DEF ReqFiles
<1>8. ClientFiles'
  <2>1. Covered(b)'
    BY <1>1 DEF Covered
  <2>2. \A z \in Sessions :
          /\ sessions[z].status # "NONE" => client[z].file \in Files
          /\ \A x \in ListOf(client[z].file) \ client[z].missing : Covered(x)
    BY <1>0 DEF ClientFiles
  <2>3. \A z \in Sessions : ListOf(client[z].file)' = ListOf(client[z].file)
    BY <1>3 DEF ListOf
  <2> QED
    BY <1>1, <1>3, <1>6, <2>1, <2>2, <2>3 DEF ClientFiles
<1>9. ManifestFiles'
  <2>1. \A m \in manifest : m.ver.sess \in Sessions
    BY DEF IInv, TypeOK, DbTypeOK, ManifestRow, Version
  <2> QED
    BY <1>0, <1>1, <1>3, <2>1 DEF ManifestFiles, ListOf
<1>10. RowsCovered'
  BY <1>0, <1>1, <1>5, <1>6 DEF RowsCovered, RowsOf
<1>11. DoomedReleased'
  BY <1>0, <1>1, <1>5 DEF DoomedReleased
<1>12. IInv'
  <2>1. UNCHANGED <<now, cas, manifest, versions, purged, sessions, tx>>
    BY DEF PutBlob
  <2>2. blobs' \in SUBSET Blocks
    BY <1>1 DEF IInv, TypeOK, DbTypeOK
  <2>3. GcTypeOK' /\ GcInv'
    BY DEF PutBlob, gcVars, IInv, TypeOK, GcTypeOK, GcInv, GcShape, MarkedExpired,
       SessionExpired
  <2> QED
    BY <2>1, <2>2, <2>3, MemoryStep
<1> QED
  BY <1>2, <1>7, <1>8, <1>9, <1>10, <1>11, <1>12 DEF ClientInv

\* The client commits the list it initiated, with nothing left to upload.
LEMMA CommitKeeps ==
    ASSUME IInv, ClientInv, NEW r \in Reqs, NEW s \in Sessions, ClientCommit(r, s)
    PROVE  IInv' /\ ClientInv'
<1> DEFINE x == [Idle EXCEPT !.pc = "begin", !.sess = s, !.file = client[s].file,
                             !.start = now]
<1>0. /\ ClientTypeOK /\ ReqFiles /\ ClientFiles /\ ManifestFiles
      /\ RowsCovered /\ DoomedReleased
  BY DEF ClientInv
<1>1. /\ client[s].missing = {} /\ client' = client /\ SessionExists(s)
      /\ StartCommit(r, s, client[s].file)
      /\ sessions' = sessions /\ cas' = cas /\ manifest' = manifest
      /\ purged' = purged /\ blobs' = blobs
      /\ gc' = gc /\ topic' = topic /\ con' = con /\ UNCHANGED gcVars
  BY DEF ClientCommit, StartCommit, gcVars, dbVars
<1>2. client[s].file \in Files
  BY <1>0, <1>1 DEF ClientFiles, SessionExists
<1>3. IInv'
  BY <1>1, <1>2, StartCommitStep
<1>4. tx' = [tx EXCEPT ![r] = x]
  BY DEF ClientCommit, StartCommit
<1>5. x.sess = s /\ x.file = client[s].file
  BY DEF Idle
<1> HIDE DEF x
<1>6. \A q \in Reqs : tx'[q] = IF q = r THEN x ELSE tx[q]
  BY <1>4 DEF IInv, TypeOK, IngestTypeOK
<1>7. ReqFiles'
  BY <1>0, <1>1, <1>5, <1>6 DEF ReqFiles
<1>8. ClientTypeOK' /\ ManifestFiles'
  BY <1>0, <1>1 DEF ClientTypeOK, ManifestFiles, ListOf
<1>9. \A b : (Released(b) <=> Released(b)') /\ (Covered(b) <=> Covered(b)')
  BY <1>1 DEF Released, Covered, ListOf
<1>10. ClientFiles'
  BY <1>0, <1>1, <1>9 DEF ClientFiles, ListOf
<1>11. RowsCovered'
  BY <1>0, <1>1, <1>9 DEF RowsCovered, RowsOf
<1>12. DoomedReleased'
  BY <1>0, <1>1, <1>9 DEF DoomedReleased
<1> QED
  BY <1>3, <1>7, <1>8, <1>10, <1>11, <1>12 DEF ClientInv

\* Every step of the system or of a client keeps both invariants.
LEMMA ClientNextInv ==
    IInv /\ ClientInv /\ [ClientNext]_clientVars => IInv' /\ ClientInv'
<1> SUFFICES ASSUME IInv, ClientInv, [ClientNext]_clientVars PROVE IInv' /\ ClientInv'
  OBVIOUS
<1>1. CASE SystemStep /\ UNCHANGED client
  <2>1. IInv'
    BY <1>1, NextIInv DEF Next
  <2>2. ClientInv'
    BY <1>1, SystemKeeps
  <2> QED
    BY <2>1, <2>2
<1>2. ASSUME NEW s \in Sessions, NEW n \in Nodes, NEW f \in Files,
             ClientInitiate(s, n, f)
      PROVE  IInv' /\ ClientInv'
  <2>1. Initiate(s, n, f) /\ UNCHANGED gcVars
    BY <1>2 DEF ClientInitiate
  <2>2. IInv'
    BY <2>1, InitiateStep
  <2>3. ClientInv'
    BY <1>2, InitiateKeeps
  <2> QED
    BY <2>2, <2>3
<1>3. CASE UNCHANGED clientVars
  <2>1. UNCHANGED vars /\ UNCHANGED client
    BY <1>3 DEF clientVars
  <2>2. IInv'
    BY <2>1, NextIInv
  <2>3. UNCHANGED <<client, tx, sessions, blobs, purged, manifest, cas, gc, topic, con>>
    BY <2>1 DEF vars, dbVars, gcVars
  <2>4. \A b : (Released(b) <=> Released(b)') /\ (Covered(b) <=> Covered(b)')
    BY <2>3 DEF Released, Covered, ListOf
  <2>5. ClientTypeOK' /\ ReqFiles'
    BY <2>3 DEF ClientInv, ClientTypeOK, ReqFiles
  <2>6. ManifestFiles'
    BY <2>3 DEF ClientInv, ManifestFiles, ListOf
  <2>7. ClientFiles'
    BY <2>3, <2>4 DEF ClientInv, ClientFiles, ListOf
  <2>8. RowsCovered'
    BY <2>3, <2>4 DEF ClientInv, RowsCovered, RowsOf
  <2>9. DoomedReleased'
    BY <2>3, <2>4 DEF ClientInv, DoomedReleased
  <2> QED
    BY <2>2, <2>5, <2>6, <2>7, <2>8, <2>9 DEF ClientInv
<1> QED
  BY Zenon, <1>1, <1>2, <1>3, PutKeeps, CommitKeeps DEF ClientNext

-----------------------------------------------------------------------------
(* Theorems *)

\* The store keeps its inductive invariant when clients upload blobs too, and
\* the clients keep theirs.
THEOREM ClientInvariance == ClientSpec => [](IInv /\ ClientInv)
<1>1. ClientInit => IInv /\ ClientInv
  BY InitIInv, ClientInitInv DEF ClientInit
<1> QED
  BY <1>1, ClientNextInv, PTL DEF ClientSpec

\* ClientTypeOK: a client's file is one of the lists, what is left to upload a
\* set of blocks.
THEOREM ClientTypeCorrect == ClientSpec => []ClientTypeOK
<1>1. ClientInv => ClientTypeOK
  BY DEF ClientInv
<1> QED
  BY <1>1, ClientInvariance, PTL

\* OnlyReleasedBlocksLost: whatever sweeps, tombstone consumers, crashes and
\* failed calls do, a committed block is stored unless a version with that block
\* was deleted.
THEOREM BlobsKept == ClientSpec => []OnlyReleasedBlocksLost
<1>1. IInv /\ ClientInv => OnlyReleasedBlocksLost
  <2> SUFFICES ASSUME IInv, ClientInv, NEW m \in manifest
               PROVE  m.block \in blobs \/ \E v \in purged :
                         m.block \in ListOf(client[v.sess].file)
    BY DEF OnlyReleasedBlocksLost, ListOf
  <2>1. m.block \in Blocks
    BY DEF IInv, TypeOK, DbTypeOK, ManifestRow
  <2>2. cas[m.block].live
    BY <2>1 DEF IInv, CasInv, RefCountExact, RowsOf
  <2> QED
    BY <2>1, <2>2 DEF ClientInv, RowsCovered, Covered, Released
<1> QED
  BY <1>1, ClientInvariance, PTL

=============================================================================
