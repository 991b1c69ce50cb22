--------------------------- MODULE RequestProofs ----------------------------
(***************************************************************************)
(* The steps of a commit request before its COMMIT keep the inductive      *)
(* invariant: the pre-flight check, the session and node locks, the        *)
(* inserts of block rows and of manifest rows with their trigger; and the  *)
(* verification pass after the COMMIT.                                     *)
(***************************************************************************)
EXTENDS AegisInvariant

-----------------------------------------------------------------------------
(* Steps of a commit request *)

\* A step after which an open transaction was open before, for the same
\* session and node, keeps the transactions apart and their sessions unspent.
LEMMA ApartFrame ==
    ASSUME SessInv, UNCHANGED <<versions, purged>>,
           \A q \in Reqs : tx'[q].pc \in InTx =>
                /\ tx[q].pc \in InTx /\ tx'[q].sess = tx[q].sess
                /\ TxNode(q)' = TxNode(q),
           \A q \in Reqs : tx'[q].pc \in Writing => tx[q].pc \in Writing
    PROVE  TxExclusive' /\ TxFresh'
<1>1. Writing \subseteq InTx
  BY DEF Writing, InTx
<1>2. TxExclusive'
  <2> SUFFICES ASSUME NEW p \in Reqs, NEW q \in Reqs \ {p}
               PROVE  /\ tx'[p].pc \in InTx /\ tx'[q].pc \in InTx =>
                            tx'[p].sess # tx'[q].sess
                      /\ tx'[p].pc \in Writing /\ tx'[q].pc \in Writing =>
                            TxNode(p)' # TxNode(q)'
    BY DEF TxExclusive
  <2> QED
    BY <1>1 DEF SessInv, TxExclusive
<1>3. TxFresh'
  BY DEF SessInv, TxFresh
<1> QED
  BY <1>2, <1>3

\* A step after which a transaction with a number had it before keeps what is
\* known of the numbers.
LEMMA NumberFrame ==
    ASSUME NumInv, UNCHANGED <<versions, purged>>,
           \A q \in Reqs : tx'[q].pc \in Writing =>
                /\ tx[q].pc \in Writing /\ tx'[q].num = tx[q].num
                /\ TxNode(q)' = TxNode(q)
    PROVE  TxNumber'
<1>1. \A n : NumbersOf(n)' = NumbersOf(n)
  BY DEF NumbersOf
<1> QED
  BY <1>1 DEF NumInv, TxNumber

\* A step that leaves the rows inserted, the lists and cas_blocks alone.
LEMMA InsertsFrame ==
    ASSUME CasInv, cas' = cas,
           \A q \in Reqs : tx'[q].ins = tx[q].ins /\ tx'[q].file = tx[q].file
    PROVE  TxInserts'
BY DEF CasInv, TxInserts

\* What a step of a request keeps whatever it does to the request, as long as
\* it writes nothing but `verified`.
LEMMA RequestFrame ==
    ASSUME IInv, NEW r \in Reqs, NEW x \in Request, tx' = [tx EXCEPT ![r] = x],
           cas' \in [Blocks -> CasRow],
           \A b \in Blocks : /\ cas'[b].live = cas[b].live
                             /\ cas'[b].ref_count = cas[b].ref_count,
           UNCHANGED <<now, manifest, versions, purged, sessions, blobs, gcVars>>
    PROVE  /\ TypeOK' /\ GcInv'
           /\ RefCountExact' /\ ManifestOfVersions'
           /\ SessionSpent' /\ SessionNodes' /\ OneVersionPerSession'
           /\ NumbersBounded' /\ NumbersUnique' /\ VersionsGapless'
<1>1. TypeOK'
  BY DEF IInv, TypeOK, DbTypeOK, IngestTypeOK, GcTypeOK, gcVars
<1>2. GcInv'
  BY DEF IInv, GcInv, GcShape, SweepOK, MarkedExpired, SessionExpired, gcVars
<1>3. RefCountExact'
  BY DEF IInv, CasInv, RefCountExact, RowsOf
<1>4. ManifestOfVersions' /\ SessionSpent' /\ SessionNodes' /\ OneVersionPerSession'
  BY DEF IInv, CasInv, SessInv, ManifestOfVersions, SessionSpent, SessionNodes,
         OneVersionPerSession, SessionExpired
<1>5. NumbersBounded' /\ NumbersUnique' /\ VersionsGapless'
  BY DEF IInv, NumInv, NumbersBounded, NumbersUnique, VersionsGapless, NumbersOf
<1> QED
  BY <1>1, <1>2, <1>3, <1>4, <1>5

\* A step of a request that gives it the fields its statement needs keeps the
\* shape of all requests.
LEMMA ShapeStep ==
    ASSUME IInv, NEW r \in Reqs, NEW x, tx' = [tx EXCEPT ![r] = x],
           sessions' = sessions,
           x.pc # "idle" => /\ x.sess \in Sessions /\ x.file \in Files
                            /\ sessions[x.sess].status # "NONE",
           x.pc \in InTx => SessionExists(x.sess),
           x.pc \in {"ensure", "manifest", "verify", "mark"} =>
              x.pos \in 1..Len(x.file),
           x.pc \in Writing => x.num # 0,
           x.pc \notin Writing => x.ins = {},
           x.pc \notin {"manifest", "commit"} => \A b \in Blocks : x.bump[b] = 0
    PROVE  TxShape'
<1>0. TxShape /\ tx'[r] = x /\ \A q \in Reqs \ {r} : tx'[q] = tx[q]
  BY DEF IInv, TypeOK, IngestTypeOK
<1> SUFFICES ASSUME NEW q \in Reqs
             PROVE
      /\ tx'[q].pc # "idle" => /\ tx'[q].sess \in Sessions
                               /\ tx'[q].file \in Files
                               /\ sessions'[tx'[q].sess].status # "NONE"
      /\ tx'[q].pc \in InTx => SessionExists(tx[q].sess)'
      /\ tx'[q].pc \in {"ensure", "manifest", "verify", "mark"} =>
            tx'[q].pos \in 1..Len(tx'[q].file)
      /\ tx'[q].pc \in Writing => tx'[q].num # 0
      /\ tx'[q].pc \notin Writing => tx'[q].ins = {}
      /\ tx'[q].pc \notin {"manifest", "commit"} =>
            \A b \in Blocks : tx'[q].bump[b] = 0
  BY DEF TxShape
<1>2. SessionExists(tx[q].sess)' <=> SessionExists(tx'[q].sess)
  BY DEF SessionExists
<1>3. CASE q = r
  BY <1>0, <1>2, <1>3
<1>4. CASE q # r
  <2>1. tx'[q] = tx[q]
    BY <1>0, <1>4
  <2>2. SessionExists(tx[q].sess)' <=> SessionExists(tx[q].sess)
    BY <1>2, <2>1
  <2>3. /\ tx[q].pc # "idle" => /\ tx[q].sess \in Sessions
                               /\ tx[q].file \in Files
                               /\ sessions[tx[q].sess].status # "NONE"
        /\ tx[q].pc \in InTx => SessionExists(tx[q].sess)
    BY <1>0 DEF TxShape
  <2>4. /\ tx[q].pc \in {"ensure", "manifest", "verify", "mark"} =>
              tx[q].pos \in 1..Len(tx[q].file)
        /\ tx[q].pc \in Writing => tx[q].num # 0
        /\ tx[q].pc \notin Writing => tx[q].ins = {}
        /\ tx[q].pc \notin {"manifest", "commit"} =>
              \A b \in Blocks : tx[q].bump[b] = 0
    BY <1>0 DEF TxShape
  <2> QED
    BY <2>1, <2>2, <2>3, <2>4
<1> QED
  BY <1>3, <1>4

\* A request moves to a statement outside the transaction.
LEMMA QuietStep ==
    ASSUME IInv, NEW r \in Reqs, NEW x \in Request, tx' = [tx EXCEPT ![r] = x],
           x.pc \notin InTx, x.ins = {}, \A b \in Blocks : x.bump[b] = 0,
           x.pc # "idle" => /\ x.sess \in Sessions /\ x.file \in Files
                            /\ sessions[x.sess].status # "NONE",
           x.pc \in {"verify", "mark"} => x.pos \in 1..Len(x.file),
           cas' \in [Blocks -> CasRow],
           \A b \in Blocks : /\ cas'[b].live = cas[b].live
                             /\ cas'[b].ref_count = cas[b].ref_count,
           UNCHANGED <<now, manifest, versions, purged, sessions, blobs, gcVars>>
    PROVE  IInv'
<1>0. tx \in [Reqs -> Request] /\ tx'[r] = x /\ \A q \in Reqs \ {r} : tx'[q] = tx[q]
  BY DEF IInv, TypeOK, IngestTypeOK
<1>1. /\ TypeOK' /\ GcInv'
      /\ RefCountExact' /\ ManifestOfVersions'
      /\ SessionSpent' /\ SessionNodes' /\ OneVersionPerSession'
      /\ NumbersBounded' /\ NumbersUnique' /\ VersionsGapless'
  BY Zenon, RequestFrame
<1>2. TxShape'
  <2>1. x.pc \notin Writing /\ x.pc \notin {"ensure", "manifest"}
    BY DEF InTx, Writing
  <2> QED
    BY <2>1, ShapeStep
<1>3. TxCounts'
  <2> SUFFICES ASSUME NEW q \in Reqs, tx'[q].pc \in {"manifest", "commit"}
               PROVE  /\ IsFiniteSet(TxRowsTo(q, Done(q))')
                      /\ \A b \in Blocks : tx'[q].bump[b] =
                           Cardinality({m \in TxRowsTo(q, Done(q))' : m.block = b})
    BY DEF TxCounts
  <2>1. q # r /\ tx'[q] = tx[q]
    BY <1>0 DEF InTx
  <2>2. TxRowsTo(q, Done(q))' = TxRowsTo(q, Done(q))
    BY <2>1 DEF TxRowsTo, Done, TxVersion, TxNode
  <2> QED
    BY <2>1, <2>2 DEF IInv, CasInv, TxCounts
<1>4. TxBumps'
  BY <1>0 DEF IInv, CasInv, TxBumps
<1>5. TxInserts'
  <2> SUFFICES ASSUME NEW q \in Reqs, NEW b \in tx'[q].ins
               PROVE  /\ ~cas'[b].live
                      /\ \E i \in DOMAIN tx'[q].file : b = tx'[q].file[i]
                      /\ \A z \in Reqs \ {q} : b \notin tx'[z].ins
    BY DEF TxInserts
  <2>1. q # r /\ tx'[q] = tx[q] /\ b \in tx[q].ins /\ b \in Blocks
    BY <1>0 DEF Request
  <2>2. /\ ~cas[b].live
        /\ \E i \in DOMAIN tx[q].file : b = tx[q].file[i]
        /\ \A z \in Reqs \ {q} : b \notin tx[z].ins
    BY <2>1 DEF IInv, CasInv, TxInserts
  <2> QED
    BY <1>0, <2>1, <2>2
<1>6. TxExclusive'
  BY <1>0 DEF IInv, SessInv, TxExclusive, TxNode, InTx, Writing
<1>7. TxFresh'
  BY <1>0 DEF IInv, SessInv, TxFresh
<1>8. TxNumber'
  BY <1>0 DEF IInv, NumInv, TxNumber, TxNode, NumbersOf, InTx, Writing
<1> QED
  BY <1>1, <1>2, <1>3, <1>4, <1>5, <1>6, <1>7, <1>8
  DEF IInv, CasInv, SessInv, NumInv

\* A request that fails, or ends: the transaction leaves nothing behind.
LEMMA IdleStep ==
    ASSUME IInv, NEW r \in Reqs, tx' = [tx EXCEPT ![r] = Idle],
           UNCHANGED <<dbVars, gcVars>>
    PROVE  IInv'
<1>1. cas' \in [Blocks -> CasRow]
  BY DEF IInv, TypeOK, DbTypeOK, dbVars
<1> QED
  BY Zenon, <1>1, IdleFacts, QuietStep DEF dbVars, InTx

\* The pre-flight check of handleCommit starts a request with no row written.
LEMMA StartCommitStep ==
    ASSUME IInv, NEW r \in Reqs, NEW s \in Sessions, NEW f \in Files,
           StartCommit(r, s, f), UNCHANGED gcVars
    PROVE  IInv'
<1> DEFINE x == [Idle EXCEPT !.pc = "begin", !.sess = s, !.file = f, !.start = now]
<1>1. /\ x \in Request /\ x.pc = "begin" /\ x.sess = s /\ x.file = f
      /\ x.ins = {} /\ \A b \in Blocks : x.bump[b] = 0
  BY Zenon DEF Idle, Request, PC, IInv, TypeOK, DbTypeOK
<1>2. cas' \in [Blocks -> CasRow] /\ tx' = [tx EXCEPT ![r] = x]
  BY DEF IInv, TypeOK, DbTypeOK, StartCommit, dbVars
<1>3. sessions[s].status # "NONE"
  BY DEF StartCommit, SessionExists
<1> HIDE DEF x
<1> QED
  BY ZenonT(30), <1>1, <1>2, <1>3, QuietStep DEF StartCommit, dbVars, InTx

\* The verification of the blocks after the commit.
LEMMA VerifyStep ==
    ASSUME IInv, NEW r \in Reqs, VerifyBlock(r) \/ MarkBlockVerified(r),
           UNCHANGED gcVars
    PROVE  IInv'
<1> DEFINE f == tx[r].file
           x == [tx[r] EXCEPT !.pc = "mark"]
           y == [tx[r] EXCEPT !.pos = @ + 1]
           z == [tx[r] EXCEPT !.pc = "verify", !.pos = @ + 1]
<1>1. /\ tx[r] \in Request /\ tx[r].pc \in {"verify", "mark"}
      /\ tx[r].sess \in Sessions /\ f \in Files
      /\ sessions[tx[r].sess].status # "NONE"
      /\ tx[r].pos \in 1..Len(f)
      /\ tx[r].ins = {} /\ \A b \in Blocks : tx[r].bump[b] = 0
  BY DEF VerifyBlock, MarkBlockVerified, IInv, TypeOK, IngestTypeOK, TxShape,
         Writing
<1>2. Len(f) \in Nat /\ Block(r) \in Blocks
  BY <1>1, FileFacts DEF Block
<1>3. /\ x \in Request /\ y \in Request /\ z \in Request
      /\ x.pc = "mark" /\ y.pc = tx[r].pc /\ z.pc = "verify"
      /\ x.pos = tx[r].pos /\ y.pos = tx[r].pos + 1 /\ z.pos = tx[r].pos + 1
      /\ \A w \in {x, y, z} :
            /\ w.sess = tx[r].sess /\ w.file = tx[r].file
            /\ w.ins = tx[r].ins /\ w.bump = tx[r].bump
  <2>1. tx[r].pos \in Nat
    BY <1>1 DEF Request
  <2>2. x.pc = "mark" /\ y.pc = tx[r].pc /\ z.pc = "verify"
    BY <1>1 DEF Request
  <2>3. x.pos = tx[r].pos /\ y.pos = tx[r].pos + 1 /\ z.pos = tx[r].pos + 1
    BY <1>1 DEF Request
  <2>4. "mark" \in PC /\ "verify" \in PC /\ tx[r].pos + 1 \in Nat
    BY <2>1 DEF PC
  <2>5. /\ x \in Request /\ x.sess = tx[r].sess /\ x.file = tx[r].file
        /\ x.ins = tx[r].ins /\ x.bump = tx[r].bump
    BY <1>1, <2>4 DEF Request
  <2>6. /\ y \in Request /\ y.sess = tx[r].sess /\ y.file = tx[r].file
        /\ y.ins = tx[r].ins /\ y.bump = tx[r].bump
    BY <1>1, <2>4 DEF Request
  <2>7. /\ z \in Request /\ z.sess = tx[r].sess /\ z.file = tx[r].file
        /\ z.ins = tx[r].ins /\ z.bump = tx[r].bump
    BY Zenon, <1>1, <2>4 DEF Request
  <2> HIDE DEF x, y, z
  <2> QED
    BY <2>2, <2>3, <2>5, <2>6, <2>7
<1>4. ~LastPos(r) => tx[r].pos + 1 \in 1..Len(f)
  BY <1>1, <1>2 DEF LastPos
<1>5. /\ cas' \in [Blocks -> CasRow]
      /\ \A b \in Blocks : /\ cas'[b].live = cas[b].live
                           /\ cas'[b].ref_count = cas[b].ref_count
  <2>1. cas \in [Blocks -> CasRow]
    BY DEF IInv, TypeOK, DbTypeOK
  <2>2. CASE VerifyBlock(r)
    BY <2>1, <2>2 DEF VerifyBlock, dbVars
  <2>3. CASE MarkBlockVerified(r)
    <3> DEFINE row == [cas[Block(r)] EXCEPT !.verified = cas[Block(r)].live]
    <3>1. /\ row \in CasRow /\ row.live = cas[Block(r)].live
          /\ row.ref_count = cas[Block(r)].ref_count
      BY <1>2, <2>1 DEF CasRow
    <3>2. cas' = [cas EXCEPT ![Block(r)] = row]
      BY <2>3 DEF MarkBlockVerified
    <3> HIDE DEF row
    <3> QED
      BY <1>2, <2>1, <3>1, <3>2
  <2> QED
    BY <2>2, <2>3
<1>6. \/ tx' = [tx EXCEPT ![r] = x]
      \/ tx' = [tx EXCEPT ![r] = Idle]
      \/ ~LastPos(r) /\ tx' = [tx EXCEPT ![r] = y]
      \/ ~LastPos(r) /\ tx' = [tx EXCEPT ![r] = z]
  <2>1. CASE VerifyBlock(r)
    BY <2>1 DEF VerifyBlock, Advance
  <2>2. CASE MarkBlockVerified(r)
    BY Zenon, <2>2 DEF MarkBlockVerified
  <2> QED
    BY <2>1, <2>2
<1>7. UNCHANGED <<now, manifest, versions, purged, sessions, blobs, gcVars>>
  BY DEF VerifyBlock, MarkBlockVerified, dbVars
<1> HIDE DEF x, y, z, f
<1>8. CASE tx' = [tx EXCEPT ![r] = Idle]
  BY Zenon, <1>5, <1>7, <1>8, IdleFacts, QuietStep DEF InTx
<1>9. ASSUME NEW w \in {x, y, z}, w.pos \in 1..Len(f), tx' = [tx EXCEPT ![r] = w]
      PROVE  IInv'
  <2>1. /\ w \in Request /\ w.pc \notin InTx /\ w.ins = {}
        /\ \A b \in Blocks : w.bump[b] = 0
        /\ w.sess \in Sessions /\ w.file \in Files /\ w.pos \in 1..Len(w.file)
        /\ sessions[w.sess].status # "NONE"
    BY <1>1, <1>3, <1>9 DEF InTx, f
  <2> QED
    BY Zenon, <1>5, <1>7, <1>9, <2>1, QuietStep
<1> QED
  BY <1>1, <1>3, <1>4, <1>6, <1>8, <1>9

\* A step of a request that counts no reference and gives up no row keeps what
\* the counts of the transactions rest on.
LEMMA BumpsStep ==
    ASSUME IInv, NEW r \in Reqs, NEW x, tx' = [tx EXCEPT ![r] = x], cas' = cas,
           x.bump = tx[r].bump, tx[r].ins \subseteq x.ins
    PROVE  TxBumps'
<1>1. TxBumps /\ tx'[r] = x /\ \A q \in Reqs \ {r} : tx'[q] = tx[q]
  BY DEF IInv, CasInv, TypeOK, IngestTypeOK
<1>2. \A q \in Reqs : tx'[q].bump = tx[q].bump /\ tx[q].ins \subseteq tx'[q].ins
  BY <1>1
<1> SUFFICES ASSUME NEW q \in Reqs, NEW b \in Blocks, tx'[q].bump[b] > 0
             PROVE  /\ cas'[b].live \/ b \in tx'[q].ins
                    /\ \A z \in Reqs \ {q} : tx'[z].bump[b] = 0
  BY DEF TxBumps
<1>3. /\ cas[b].live \/ b \in tx[q].ins
      /\ \A z \in Reqs \ {q} : tx[z].bump[b] = 0
  BY <1>1, <1>2 DEF TxBumps
<1> QED
  BY <1>2, <1>3

\* The session row is locked: from here on the transaction is the only one of
\* its session, and the session has produced no version.
LEMMA LockSessionStep ==
    ASSUME IInv, NEW r \in Reqs, LockSession(r), UNCHANGED gcVars
    PROVE  IInv'
<1>1. CASE ~SessionAdmits(r)
  BY Zenon, <1>1, IdleStep DEF LockSession
<1>2. CASE SessionAdmits(r)
  <2> DEFINE x == [tx[r] EXCEPT !.pc = "node"]
  <2>1. /\ tx \in [Reqs -> Request] /\ tx[r] \in Request
        /\ tx[r].pc = "begin" /\ tx[r].sess \in Sessions /\ tx[r].file \in Files
        /\ tx[r].ins = {} /\ \A b \in Blocks : tx[r].bump[b] = 0
    BY DEF LockSession, IInv, TypeOK, IngestTypeOK, TxShape, Writing
  <2>2. /\ x \in Request /\ x.pc = "node" /\ x.sess = tx[r].sess
        /\ x.file = tx[r].file /\ x.ins = tx[r].ins /\ x.bump = tx[r].bump
    BY Zenon, <2>1 DEF Request, PC
  <2>3. tx' = [tx EXCEPT ![r] = x] /\ UNCHANGED dbVars
    BY <1>2 DEF LockSession
  <2> HIDE DEF x
  <2>4. tx'[r] = x /\ \A q \in Reqs \ {r} : tx'[q] = tx[q]
    BY <2>1, <2>3
  <2>5. /\ TypeOK' /\ GcInv'
        /\ RefCountExact' /\ ManifestOfVersions'
        /\ SessionSpent' /\ SessionNodes' /\ OneVersionPerSession'
        /\ NumbersBounded' /\ NumbersUnique' /\ VersionsGapless'
    BY ZenonT(30), <2>2, <2>3, RequestFrame DEF dbVars, IInv, TypeOK, DbTypeOK
  <2>6. TxShape'
    <3>1. /\ sessions' = sessions /\ SessionExists(x.sess)
          /\ sessions[x.sess].status # "NONE"
      BY <1>2, <2>2, <2>3 DEF SessionExists, SessionAdmits, dbVars
    <3>2. x.pc \notin Writing
      BY <2>2 DEF Writing
    <3> QED
      BY <2>1, <2>2, <2>3, <3>1, <3>2, ShapeStep
  <2>7. TxCounts'
    <3> SUFFICES ASSUME NEW q \in Reqs, tx'[q].pc \in {"manifest", "commit"}
                 PROVE  /\ IsFiniteSet(TxRowsTo(q, Done(q))')
                        /\ \A b \in Blocks : tx'[q].bump[b] =
                             Cardinality({m \in TxRowsTo(q, Done(q))' : m.block = b})
      BY DEF TxCounts
    <3>1. q # r /\ tx'[q] = tx[q]
      BY <2>2, <2>4
    <3>2. TxRowsTo(q, Done(q))' = TxRowsTo(q, Done(q))
      BY <2>3, <3>1 DEF TxRowsTo, Done, TxVersion, TxNode, dbVars
    <3> QED
      BY <3>1, <3>2 DEF IInv, CasInv, TxCounts
  <2>8. TxBumps'
    BY <2>2, <2>3, BumpsStep DEF dbVars
  <2>9. TxInserts'
    <3>1. \A q \in Reqs : tx'[q].ins = tx[q].ins /\ tx'[q].file = tx[q].file
      BY <2>2, <2>4
    <3> QED
      BY <2>3, <3>1, InsertsFrame DEF IInv, dbVars
  <2>10. TxExclusive'
    BY <2>1, <2>2, <2>3, <2>4 DEF IInv, SessInv, TxExclusive, TxNode, InTx,
       Writing, dbVars, LockSession, SessionFree, HoldsSession
  <2>11. TxFresh'
    <3>1. \A v \in versions \cup purged : v.sess # tx[r].sess
      BY <1>2 DEF IInv, SessInv, SessionSpent, SessionAdmits
    <3>2. /\ TxFresh /\ versions' = versions /\ purged' = purged
          /\ \A q \in Reqs : tx'[q].sess = tx[q].sess
          /\ \A q \in Reqs \ {r} : tx'[q].pc = tx[q].pc
      BY <2>2, <2>3, <2>4 DEF IInv, SessInv, dbVars
    <3> QED
      BY <3>1, <3>2 DEF TxFresh
  <2>12. TxNumber'
    <3>1. \A q \in Reqs : tx'[q].pc \in Writing => q # r /\ tx'[q] = tx[q]
      BY <2>2, <2>4 DEF Writing
    <3>2. \A q \in Reqs : tx'[q] = tx[q] => TxNode(q)' = TxNode(q)
      BY <2>3 DEF TxNode, dbVars
    <3> QED
      BY <2>3, <3>1, <3>2, NumberFrame DEF IInv, dbVars
  <2> QED
    BY <2>5, <2>6, <2>7, <2>8, <2>9, <2>10, <2>11, <2>12
    DEF IInv, CasInv, SessInv, NumInv
<1> QED
  BY <1>1, <1>2

\* A step of a request leaves the counts of the other ones alone.
LEMMA OtherCounts ==
    ASSUME IInv, NEW r \in Reqs, NEW x, tx' = [tx EXCEPT ![r] = x],
           UNCHANGED <<dbVars, gcVars>>,
           x.pc \in {"manifest", "commit"} =>
              /\ IsFiniteSet(TxRowsTo(r, Done(r))')
              /\ \A b \in Blocks : x.bump[b] =
                    Cardinality({m \in TxRowsTo(r, Done(r))' : m.block = b})
    PROVE  TxCounts'
<1>0. tx'[r] = x /\ \A q \in Reqs \ {r} : tx'[q] = tx[q]
  BY DEF IInv, TypeOK, IngestTypeOK
<1> SUFFICES ASSUME NEW q \in Reqs, tx'[q].pc \in {"manifest", "commit"}
             PROVE  /\ IsFiniteSet(TxRowsTo(q, Done(q))')
                    /\ \A b \in Blocks : tx'[q].bump[b] =
                         Cardinality({m \in TxRowsTo(q, Done(q))' : m.block = b})
  BY DEF TxCounts
<1>1. CASE q = r
  BY <1>0, <1>1
<1>2. CASE q # r
  <2>1. TxRowsTo(q, Done(q))' = TxRowsTo(q, Done(q)) /\ tx'[q] = tx[q]
    <3>1. tx'[q] = tx[q] /\ sessions' = sessions
      BY <1>0, <1>2 DEF dbVars
    <3>2. TxVersion(q)' = TxVersion(q)
      BY <3>1 DEF TxVersion, TxNode
    <3>3. Done(q)' = Done(q)
      BY <3>1 DEF Done
    <3> QED
      BY <3>1, <3>2, <3>3 DEF TxRowsTo
  <2> QED
    BY <2>1 DEF IInv, CasInv, TxCounts
<1> QED
  BY <1>1, <1>2

\* The node row is locked and the version number allocated: it is above all
\* the numbers in use, and every number below it has been used.
LEMMA LockNodeStep ==
    ASSUME IInv, NEW r \in Reqs, LockNode(r), UNCHANGED gcVars
    PROVE  IInv'
<1> DEFINE n == TxNode(r)
           k == next_version_number(n)
           x == [tx[r] EXCEPT !.pc = "ensure", !.pos = 1, !.num = k]
<1>1. /\ tx \in [Reqs -> Request] /\ tx[r] \in Request
      /\ tx[r].pc = "node" /\ tx[r].sess \in Sessions /\ tx[r].file \in Files
      /\ SessionExists(tx[r].sess) /\ sessions[tx[r].sess].status # "NONE"
      /\ tx[r].ins = {} /\ \A b \in Blocks : tx[r].bump[b] = 0
  BY DEF LockNode, IInv, TypeOK, IngestTypeOK, TxShape, Writing, InTx
<1>2. n \in Nodes
  BY <1>1 DEF IInv, SessInv, SessionNodes, TxNode
<1>3. /\ k \in Nat \ {0}
      /\ \A j \in NumbersOf(n) : j < k
      /\ k = 1 \/ \E j \in NumbersOf(n) : k = j + 1
  BY <1>2, NextNumber DEF IInv, NumInv
<1> HIDE DEF n, k
<1>4. /\ x \in Request /\ x.pc = "ensure" /\ x.pos = 1 /\ x.num = k
      /\ x.sess = tx[r].sess /\ x.file = tx[r].file
      /\ x.ins = tx[r].ins /\ x.bump = tx[r].bump
  <2>1. "ensure" \in PC
    BY DEF PC
  <2> QED
    BY Zenon, <1>1, <1>3, <2>1 DEF Request
<1>5. tx' = [tx EXCEPT ![r] = x] /\ UNCHANGED dbVars
  BY Zenon DEF LockNode, n, k
<1> HIDE DEF x
<1>6. tx'[r] = x /\ \A q \in Reqs \ {r} : tx'[q] = tx[q]
  BY <1>1, <1>5
<1>7. /\ TypeOK' /\ GcInv'
      /\ RefCountExact' /\ ManifestOfVersions'
      /\ SessionSpent' /\ SessionNodes' /\ OneVersionPerSession'
      /\ NumbersBounded' /\ NumbersUnique' /\ VersionsGapless'
  BY Zenon, <1>4, <1>5, RequestFrame DEF dbVars, IInv, TypeOK, DbTypeOK
<1>8. TxShape'
  <2>1. sessions' = sessions /\ 1 \in 1..Len(x.file)
    <3>1. Len(x.file) \in Nat \ {0}
      BY <1>1, <1>4, FileFacts
    <3> QED
      BY <1>5, <3>1 DEF dbVars
  <2>2. x.pc \in Writing /\ x.num # 0
    BY <1>3, <1>4 DEF Writing
  <2> QED
    BY <1>1, <1>4, <1>5, <2>1, <2>2, ShapeStep
<1>9. TxCounts'
  BY Zenon, <1>4, <1>5, OtherCounts
<1>10. TxBumps'
  BY <1>4, <1>5, BumpsStep DEF dbVars
<1>11. TxInserts'
  <2>1. \A q \in Reqs : tx'[q].ins = tx[q].ins /\ tx'[q].file = tx[q].file
    BY <1>4, <1>6
  <2> QED
    BY <1>5, <2>1, InsertsFrame DEF IInv, dbVars
<1>12. TxExclusive'
  <2>1. /\ \A q \in Reqs : tx'[q].sess = tx[q].sess /\ TxNode(q)' = TxNode(q)
        /\ \A q \in Reqs : tx'[q].pc \in InTx => tx[q].pc \in InTx
        /\ \A q \in Reqs \ {r} : tx'[q].pc = tx[q].pc
    BY <1>1, <1>4, <1>5, <1>6 DEF InTx, TxNode, dbVars
  <2>2. \A q \in Reqs \ {r} : tx[q].pc \in Writing => TxNode(q) # TxNode(r)
    BY DEF LockNode, HoldsNode, TxNode, Writing
  <2>3. TxExclusive
    BY DEF IInv, SessInv
  <2> SUFFICES ASSUME NEW p \in Reqs, NEW q \in Reqs \ {p}
               PROVE  /\ tx'[p].pc \in InTx /\ tx'[q].pc \in InTx =>
                            tx'[p].sess # tx'[q].sess
                      /\ tx'[p].pc \in Writing /\ tx'[q].pc \in Writing =>
                            TxNode(p)' # TxNode(q)'
    BY DEF TxExclusive
  <2>4. tx'[p].pc \in InTx /\ tx'[q].pc \in InTx => tx'[p].sess # tx'[q].sess
    BY <2>1, <2>3 DEF TxExclusive
  <2>5. tx'[p].pc \in Writing /\ tx'[q].pc \in Writing => TxNode(p) # TxNode(q)
    <3>1. CASE p = r \/ q = r
      BY <2>1, <2>2, <3>1
    <3>2. CASE p # r /\ q # r
      BY <2>1, <2>3, <3>2 DEF TxExclusive
    <3> QED
      BY <3>1, <3>2
  <2> QED
    BY <2>1, <2>4, <2>5
<1>13. TxFresh'
  <2>1. \A q \in Reqs : /\ tx'[q].sess = tx[q].sess
                        /\ tx'[q].pc \in InTx => tx[q].pc \in InTx
    BY <1>1, <1>4, <1>6 DEF InTx
  <2>2. TxFresh /\ versions' = versions /\ purged' = purged
    BY <1>5 DEF IInv, SessInv, dbVars
  <2> QED
    BY <2>1, <2>2 DEF TxFresh
<1>14. TxNumber'
  <2> SUFFICES ASSUME NEW q \in Reqs, tx'[q].pc \in Writing
               PROVE  /\ \A j \in NumbersOf(TxNode(q))' : j < tx'[q].num
                      /\ \A j \in 1..(tx'[q].num - 1) :
                            \E w \in (versions \cup purged)' :
                                w.node = TxNode(q)' /\ w.num = j
    BY DEF TxNumber
  <2>1. TxNode(q)' = TxNode(q) /\ NumbersOf(TxNode(q))' = NumbersOf(TxNode(q))
    <3>1. tx'[q].sess = tx[q].sess /\ UNCHANGED <<sessions, versions>>
      BY <1>4, <1>5, <1>6 DEF dbVars
    <3>2. TxNode(q)' = TxNode(q)
      BY <3>1 DEF TxNode
    <3> QED
      BY <3>1, <3>2 DEF NumbersOf
  <2>2. CASE q # r
    BY <1>5, <1>6, <2>1, <2>2 DEF IInv, NumInv, TxNumber, dbVars
  <2>3. CASE q = r
    <3>1. \A j \in NumbersOf(n) : j \in Nat /\ \A i \in 1..j :
             \E w \in versions \cup purged : w.node = n /\ w.num = i
      <4> SUFFICES ASSUME NEW v \in versions, v.node = n, NEW i \in 1..v.num
                   PROVE  \E w \in versions \cup purged : w.node = n /\ w.num = i
        BY DEF NumbersOf, IInv, TypeOK, DbTypeOK, Version
      <4>1. v.num \in Nat
        BY DEF IInv, TypeOK, DbTypeOK, Version
      <4>2. CASE i = v.num
        BY <4>2
      <4>3. CASE i # v.num
        BY <4>1, <4>3 DEF IInv, NumInv, VersionsGapless
      <4> QED
        BY <4>2, <4>3
    <3> QED
      BY <1>3, <1>4, <1>5, <1>6, <2>1, <2>3, <3>1 DEF n, dbVars
  <2> QED
    BY <2>2, <2>3
<1> QED
  BY <1>7, <1>8, <1>9, <1>10, <1>11, <1>12, <1>13, <1>14
  DEF IInv, CasInv, SessInv, NumInv

\* What a step of a transaction that has its version keeps when it leaves the
\* session, the list and the number alone.
LEMMA WriteFrame ==
    ASSUME IInv, NEW r \in Reqs, NEW x \in Request, tx' = [tx EXCEPT ![r] = x],
           UNCHANGED <<dbVars, gcVars>>,
           tx[r].pc \in Writing, x.pc \in Writing,
           x.sess = tx[r].sess, x.file = tx[r].file, x.num = tx[r].num
    PROVE  /\ TypeOK' /\ SessInv' /\ NumInv' /\ GcInv'
           /\ RefCountExact' /\ ManifestOfVersions'
           /\ \A k : TxRowsTo(r, k)' = TxRowsTo(r, k)
<1>0. tx \in [Reqs -> Request] /\ tx'[r] = x /\ \A q \in Reqs \ {r} : tx'[q] = tx[q]
  BY DEF IInv, TypeOK, IngestTypeOK
<1>1. /\ TypeOK' /\ GcInv'
      /\ RefCountExact' /\ ManifestOfVersions'
      /\ SessionSpent' /\ SessionNodes' /\ OneVersionPerSession'
      /\ NumbersBounded' /\ NumbersUnique' /\ VersionsGapless'
  BY ZenonT(30), RequestFrame DEF dbVars, IInv, TypeOK, DbTypeOK
<1>5. /\ \A q \in Reqs : tx'[q].sess = tx[q].sess /\ tx'[q].num = tx[q].num
      /\ \A q \in Reqs : tx'[q].pc \in Writing <=> tx[q].pc \in Writing
      /\ \A q \in Reqs : tx'[q].pc \in InTx => tx[q].pc \in InTx
  <2>1. Writing \subseteq InTx
    BY DEF Writing, InTx
  <2> QED
    BY <1>0, <2>1
<1>6. \A q \in Reqs : TxNode(q)' = TxNode(q)
  BY <1>5 DEF TxNode, dbVars
<1>7. UNCHANGED <<versions, purged>> /\ SessInv /\ NumInv
  BY DEF IInv, dbVars
<1>2. TxExclusive' /\ TxFresh'
  BY <1>5, <1>6, <1>7, ApartFrame
<1>3. TxNumber'
  BY <1>5, <1>6, <1>7, NumberFrame
<1>4. \A k : TxRowsTo(r, k)' = TxRowsTo(r, k)
  BY <1>0 DEF TxRowsTo, TxVersion, TxNode, dbVars
<1> QED
  BY <1>1, <1>2, <1>3, <1>4 DEF SessInv, NumInv

\* Where a transaction that works through its list goes after a block.
LEMMA AdvanceFacts ==
    ASSUME NEW r \in Reqs, tx[r] \in Request, tx[r].file \in Files,
           tx[r].pos \in 1..Len(tx[r].file), NEW next \in PC
    PROVE  LET x == Advance(r, next) IN
           /\ x \in Request
           /\ x.sess = tx[r].sess /\ x.file = tx[r].file /\ x.num = tx[r].num
           /\ x.start = tx[r].start
           /\ x.ins = tx[r].ins /\ x.bump = tx[r].bump
           /\ \/ LastPos(r) /\ x.pc = next /\ x.pos = 1
              \/ ~LastPos(r) /\ x.pc = tx[r].pc /\ x.pos = tx[r].pos + 1
           /\ x.pos \in 1..Len(tx[r].file)
<1>0. Len(tx[r].file) \in Nat \ {0}
  BY FileFacts
<1>1. CASE LastPos(r)
  <2> DEFINE x == [tx[r] EXCEPT !.pc = next, !.pos = 1]
  <2>1. Advance(r, next) = x
    BY <1>1 DEF Advance
  <2>2. /\ x \in Request /\ x.pc = next /\ x.pos = 1
        /\ x.sess = tx[r].sess /\ x.file = tx[r].file /\ x.num = tx[r].num
        /\ x.start = tx[r].start
        /\ x.ins = tx[r].ins /\ x.bump = tx[r].bump
    BY Zenon DEF Request
  <2> HIDE DEF x
  <2> QED
    <3>1. 1 \in 1..Len(tx[r].file)
      BY <1>0
    <3> QED
      BY <1>1, <2>1, <2>2, <3>1
<1>2. CASE ~LastPos(r)
  <2> DEFINE x == [tx[r] EXCEPT !.pos = @ + 1]
  <2>1. Advance(r, next) = x
    BY <1>2 DEF Advance
  <2>2. /\ x \in Request /\ x.pc = tx[r].pc /\ x.pos = tx[r].pos + 1
        /\ x.sess = tx[r].sess /\ x.file = tx[r].file /\ x.num = tx[r].num
        /\ x.start = tx[r].start
        /\ x.ins = tx[r].ins /\ x.bump = tx[r].bump
    BY DEF Request
  <2>3. tx[r].pos + 1 \in 1..Len(tx[r].file)
    BY <1>0, <1>2 DEF LastPos
  <2> HIDE DEF x
  <2> QED
    BY <1>2, <2>1, <2>2, <2>3
<1> QED
  BY <1>1, <1>2

\* INSERT INTO cas_blocks: a row that is there is left alone, a row that is
\* missing becomes this transaction's.
LEMMA EnsureStep ==
    ASSUME IInv, NEW r \in Reqs, EnsureBlockRow(r), UNCHANGED gcVars
    PROVE  IInv'
<1> DEFINE a == Advance(r, "manifest")
           b0 == Block(r)
           y == [a EXCEPT !.ins = @ \cup {b0}]
<1>1. /\ tx \in [Reqs -> Request] /\ tx[r] \in Request
      /\ tx[r].pc = "ensure" /\ tx[r].sess \in Sessions /\ tx[r].file \in Files
      /\ tx[r].pos \in 1..Len(tx[r].file) /\ tx[r].num # 0
      /\ \A b \in Blocks : tx[r].bump[b] = 0
      /\ SessionExists(tx[r].sess) /\ sessions[tx[r].sess].status # "NONE"
  BY DEF EnsureBlockRow, IInv, TypeOK, IngestTypeOK, TxShape, Writing, InTx
<1>2. b0 \in Blocks /\ \E i \in DOMAIN tx[r].file : b0 = tx[r].file[i]
  BY <1>1, FileFacts DEF Block
<1>3. /\ a \in Request /\ a.sess = tx[r].sess /\ a.file = tx[r].file
      /\ a.num = tx[r].num /\ a.ins = tx[r].ins /\ a.bump = tx[r].bump
      /\ a.pc = "ensure" \/ (a.pc = "manifest" /\ a.pos = 1)
      /\ a.pos \in 1..Len(tx[r].file)
  <2>1. "manifest" \in PC
    BY DEF PC
  <2> QED
    BY <1>1, <2>1, AdvanceFacts
<1> HIDE DEF a, b0
<1>4. /\ y \in Request /\ y.sess = a.sess /\ y.file = a.file /\ y.num = a.num
      /\ y.ins = a.ins \cup {b0} /\ y.bump = a.bump /\ y.pc = a.pc /\ y.pos = a.pos
  BY SMTT(30), <1>2, <1>3 DEF Request
<1>5. /\ UNCHANGED dbVars
      /\ \/ tx' = [tx EXCEPT ![r] = a]
         \/ /\ tx' = [tx EXCEPT ![r] = y]
            /\ ~cas[b0].live /\ \A q \in Reqs : b0 \notin tx[q].ins
  BY DEF EnsureBlockRow, a, b0
<1> HIDE DEF y
<1>6. PICK x \in Request :
          /\ tx' = [tx EXCEPT ![r] = x]
          /\ x.sess = tx[r].sess /\ x.file = tx[r].file /\ x.num = tx[r].num
          /\ x.bump = tx[r].bump /\ x.pos \in 1..Len(tx[r].file)
          /\ x.pc = "ensure" \/ (x.pc = "manifest" /\ x.pos = 1)
          /\ \/ x.ins = tx[r].ins
             \/ /\ x.ins = tx[r].ins \cup {b0}
                /\ ~cas[b0].live /\ \A q \in Reqs : b0 \notin tx[q].ins
  BY <1>3, <1>4, <1>5
<1>7. tx'[r] = x /\ \A q \in Reqs \ {r} : tx'[q] = tx[q]
  <2>1. tx \in [Reqs -> Request] /\ tx' = [tx EXCEPT ![r] = x]
    BY <1>1, <1>6
  <2> QED
    BY <2>1
<1>8. /\ TypeOK' /\ SessInv' /\ NumInv' /\ GcInv'
      /\ RefCountExact' /\ ManifestOfVersions'
      /\ \A k : TxRowsTo(r, k)' = TxRowsTo(r, k)
  BY ZenonT(30), <1>1, <1>5, <1>6, WriteFrame DEF Writing
<1>9. TxShape'
  <2>1. x.pc \in Writing /\ sessions' = sessions /\ x.num # 0
    BY <1>1, <1>5, <1>6 DEF Writing, dbVars
  <2> QED
    BY <1>1, <1>6, <2>1, ShapeStep
<1>10. TxCounts'
  <2> SUFFICES ASSUME x.pc \in {"manifest", "commit"}
               PROVE  /\ IsFiniteSet(TxRowsTo(r, Done(r))')
                      /\ \A b \in Blocks : x.bump[b] =
                           Cardinality({m \in TxRowsTo(r, Done(r))' : m.block = b})
    BY ZenonT(30), <1>5, <1>6, OtherCounts
  <2>1. Done(r)' = 0
    <3>1. tx'[r].pc # "commit" /\ tx'[r].pos = 1
      BY <1>6, <1>7
    <3> QED
      BY <3>1 DEF Done
  <2>2. TxRowsTo(r, Done(r))' = {}
    BY <2>1 DEF TxRowsTo
  <2>3. \A b \in Blocks : {m \in TxRowsTo(r, Done(r))' : m.block = b} = {}
    BY <2>2
  <2> QED
    BY <1>1, <1>6, <2>2, <2>3, FS_EmptySet
<1>11. TxBumps'
  BY <1>5, <1>6, BumpsStep DEF dbVars
<1>12. TxInserts'
  <2>1. TxInserts /\ cas' = cas /\ \A q \in Reqs : tx'[q].file = tx[q].file
    BY <1>5, <1>6, <1>7 DEF IInv, CasInv, dbVars
  <2>2. \A q \in Reqs \ {r} : tx'[q].ins = tx[q].ins
    BY <1>7
  <2>3. CASE x.ins = tx[r].ins
    <3>1. \A q \in Reqs : tx'[q].ins = tx[q].ins
      BY <1>7, <2>2, <2>3
    <3> QED
      BY <2>1, <3>1, InsertsFrame DEF IInv
  <2>4. CASE /\ x.ins = tx[r].ins \cup {b0}
             /\ ~cas[b0].live /\ \A q \in Reqs : b0 \notin tx[q].ins
    <3>1. tx'[r].ins = tx[r].ins \cup {b0}
      BY <1>7, <2>4
    <3> SUFFICES ASSUME NEW q \in Reqs, NEW b \in tx'[q].ins
                 PROVE  /\ ~cas[b].live
                        /\ \E i \in DOMAIN tx[q].file : b = tx[q].file[i]
                        /\ \A z \in Reqs \ {q} : b \notin tx'[z].ins
      <4>1. cas' = cas /\ \A p \in Reqs : tx'[p].file = tx[p].file
        BY <2>1
      <4> QED
        BY <4>1 DEF TxInserts
    <3>2. CASE b = b0
      BY <1>2, <2>2, <2>4, <3>1, <3>2
    <3>3. CASE b # b0
      <4>1. \A z \in Reqs : b \in tx'[z].ins <=> b \in tx[z].ins
        BY <2>2, <3>1, <3>3
      <4> QED
        BY <2>1, <4>1 DEF TxInserts
    <3> QED
      BY <3>2, <3>3
  <2> QED
    BY <1>6, <2>3, <2>4
<1> QED
  BY <1>8, <1>9, <1>10, <1>11, <1>12 DEF IInv, CasInv

\* The rows of a transaction up to position k, by block.
LEMMA NextRow ==
    ASSUME NEW r \in Reqs, tx[r].file \in Files, NEW k \in 1..Len(tx[r].file)
    PROVE  LET row == [ver |-> TxVersion(r), idx |-> k, block |-> tx[r].file[k]]
           IN  /\ TxRowsTo(r, k) = TxRowsTo(r, k - 1) \cup {row}
               /\ row \notin TxRowsTo(r, k - 1)
<1>1. Len(tx[r].file) \in Nat
  BY FileFacts
<1>2. 1..k = 1..(k - 1) \cup {k} /\ k \notin 1..(k - 1)
  BY <1>1
<1> QED
  BY Zenon, <1>2 DEF TxRowsTo

\* INSERT INTO file_manifest_blocks and its trigger: one more row, one more
\* reference, under the lock of the cas_blocks row.
LEMMA AddManifestStep ==
    ASSUME IInv, NEW r \in Reqs, AddManifestRow(r), UNCHANGED gcVars
    PROVE  IInv'
<1> DEFINE a == Advance(r, "commit")
           b0 == Block(r)
           x == [a EXCEPT !.bump[b0] = @ + 1]
<1>1. CASE tx' = [tx EXCEPT ![r] = Idle]
  BY ZenonT(30), <1>1, IdleStep DEF AddManifestRow
<1>2. CASE tx' # [tx EXCEPT ![r] = Idle]
  <2>0. PICK k : k = tx[r].pos
    OBVIOUS
  <2>1. /\ tx \in [Reqs -> Request] /\ tx[r] \in Request
        /\ tx[r].pc = "manifest" /\ tx[r].sess \in Sessions /\ tx[r].file \in Files
        /\ k \in 1..Len(tx[r].file) /\ tx[r].num # 0
        /\ SessionExists(tx[r].sess) /\ sessions[tx[r].sess].status # "NONE"
    BY <2>0 DEF AddManifestRow, IInv, TypeOK, IngestTypeOK, TxShape, Writing, InTx
  <2>2. /\ b0 \in Blocks /\ b0 = tx[r].file[k] /\ Len(tx[r].file) \in Nat
        /\ tx[r].bump \in [Blocks -> Nat]
    BY <2>0, <2>1, FileFacts DEF Block, Request
  <2>3. /\ a \in Request /\ a.sess = tx[r].sess /\ a.file = tx[r].file
        /\ a.num = tx[r].num /\ a.ins = tx[r].ins /\ a.bump = tx[r].bump
        /\ \/ k = Len(tx[r].file) /\ a.pc = "commit"
           \/ a.pc = "manifest" /\ a.pos = k + 1
        /\ a.pos \in 1..Len(tx[r].file)
    <3>1. "commit" \in PC
      BY DEF PC
    <3> QED
      BY <2>0, <2>1, <3>1, AdvanceFacts DEF LastPos
  <2>4. /\ UNCHANGED dbVars /\ tx' = [tx EXCEPT ![r] = x]
        /\ cas[b0].live \/ b0 \in tx[r].ins
        /\ \A q \in Reqs \ {r} : ~HoldsBlock(q, b0)
    BY <1>2 DEF AddManifestRow
  <2> HIDE DEF a, b0
  <2>5. /\ x \in Request /\ x.sess = a.sess /\ x.file = a.file /\ x.num = a.num
        /\ x.ins = a.ins /\ x.pc = a.pc /\ x.pos = a.pos
        /\ x.bump = [tx[r].bump EXCEPT ![b0] = @ + 1]
    <3> DEFINE bp == [tx[r].bump EXCEPT ![b0] = @ + 1]
    <3>1. bp \in [Blocks -> Nat]
      BY SMTT(30), <2>2
    <3>2. x = [a EXCEPT !.bump = bp]
      BY <2>3
    <3> HIDE DEF bp, x
    <3>3. /\ x \in Request /\ x.bump = bp /\ x.sess = a.sess /\ x.file = a.file
          /\ x.num = a.num /\ x.ins = a.ins /\ x.pc = a.pc /\ x.pos = a.pos
      BY Zenon, <2>3, <3>1, <3>2 DEF Request
    <3> QED
      BY <3>3 DEF bp
  <2> HIDE DEF x
  <2>6. tx'[r] = x /\ \A q \in Reqs \ {r} : tx'[q] = tx[q]
    BY <2>1, <2>4
  <2>7. /\ TypeOK' /\ SessInv' /\ NumInv' /\ GcInv'
        /\ RefCountExact' /\ ManifestOfVersions'
        /\ \A j : TxRowsTo(r, j)' = TxRowsTo(r, j)
    BY ZenonT(30), <2>1, <2>3, <2>4, <2>5, WriteFrame DEF Writing
  <2>8. TxShape'
    <3>1. x.pc \in Writing /\ x.pc \in {"manifest", "commit"} /\ sessions' = sessions
      BY <2>3, <2>4, <2>5 DEF Writing, dbVars
    <3>2. x.num # 0 /\ x.sess = tx[r].sess /\ x.file = tx[r].file
      BY <2>1, <2>3, <2>5
    <3>3. x.pos \in 1..Len(x.file)
      BY <2>3, <2>5, <3>2
    <3> QED
      BY <2>1, <2>4, <3>1, <3>2, <3>3, ShapeStep
  <2>9. TxCounts'
    <3> DEFINE row == [ver |-> TxVersion(r), idx |-> k, block |-> tx[r].file[k]]
               S == TxRowsTo(r, k - 1)
    <3>1. Done(r) = k - 1 /\ Done(r)' = k
      <4>1. Done(r) = k - 1
        BY <2>0, <2>1 DEF Done
      <4>2. CASE k = Len(tx[r].file) /\ a.pc = "commit"
        <5>1. tx'[r].pc = "commit" /\ tx'[r].file = tx[r].file
          BY <2>3, <2>5, <2>6, <4>2
        <5> QED
          BY <4>1, <4>2, <5>1 DEF Done
      <4>3. CASE a.pc = "manifest" /\ a.pos = k + 1
        <5>1. tx'[r].pc = "manifest" /\ tx'[r].pos = k + 1 /\ k \in Nat
          <6>1. k \in Nat
            BY <2>1, <2>2
          <6> QED
            BY <2>5, <2>6, <4>3, <6>1
        <5> QED
          BY <4>1, <5>1 DEF Done
      <4> QED
        BY <2>3, <4>2, <4>3
    <3>2. TxRowsTo(r, k) = S \cup {row} /\ row \notin S /\ row.block = b0
      BY <2>1, <2>2, NextRow
    <3>3. /\ IsFiniteSet(S)
          /\ \A b \in Blocks : tx[r].bump[b] = Cardinality({m \in S : m.block = b})
      BY <2>1, <3>1 DEF IInv, CasInv, TxCounts
    <3>4. TxRowsTo(r, Done(r))' = S \cup {row}
      <4>1. TxRowsTo(r, Done(r))' = TxRowsTo(r, k)'
        BY <3>1 DEF TxRowsTo
      <4> QED
        BY <2>7, <3>2, <4>1
    <3> HIDE DEF row, S
    <3>5. IsFiniteSet(S \cup {row})
      BY <3>3, FS_AddElement
    <3>6. ASSUME NEW b \in Blocks
          PROVE  x.bump[b] = Cardinality({m \in S \cup {row} : m.block = b})
      <4>1. Cardinality({m \in S \cup {row} : m.block = b}) =
              IF b0 = b THEN tx[r].bump[b] + 1 ELSE tx[r].bump[b]
        <5> DEFINE B == {m \in S : m.block = b}
        <5>1. IsFiniteSet(B) /\ row \notin B /\ tx[r].bump[b] = Cardinality(B)
          BY <3>2, <3>3, FS_Subset
        <5>2. CASE b0 = b
          <6>1. {m \in S \cup {row} : m.block = b} = B \cup {row}
            BY <3>2, <5>2
          <6> HIDE DEF B
          <6>2. Cardinality(B \cup {row}) = Cardinality(B) + 1
            BY Zenon, <5>1, FS_AddElement
          <6> QED
            BY Zenon, <5>1, <5>2, <6>1, <6>2
        <5>3. CASE b0 # b
          <6>1. {m \in S \cup {row} : m.block = b} = B
            BY <3>2, <5>3
          <6> QED
            BY <5>1, <5>3, <6>1
        <5> QED
          BY <5>2, <5>3
      <4> QED
        BY <2>2, <2>5, <4>1
    <3> QED
      BY ZenonT(30), <2>4, <3>4, <3>5, <3>6, OtherCounts
  <2>10. \A q \in Reqs \ {r} : tx[q].bump[b0] = 0
    <3> SUFFICES ASSUME NEW q \in Reqs \ {r}, tx[q].bump[b0] # 0 PROVE FALSE
      OBVIOUS
    <3>1. tx[q].bump[b0] > 0
      <4>1. tx[q].bump \in [Blocks -> Nat]
        BY <2>1 DEF Request
      <4>2. tx[q].bump[b0] \in Nat
        BY <2>2, <4>1
      <4> QED
        BY <4>2
    <3>2. ~cas[b0].live /\ b0 \in tx[r].ins
      BY <2>4, <3>1 DEF HoldsBlock
    <3>3. b0 \in tx[q].ins
      BY <2>2, <3>1, <3>2 DEF IInv, CasInv, TxBumps
    <3> QED
      BY <3>2, <3>3 DEF IInv, CasInv, TxInserts
  <2>11. TxBumps'
    <3> SUFFICES ASSUME NEW q \in Reqs, NEW b \in Blocks, tx'[q].bump[b] > 0
                 PROVE  /\ cas'[b].live \/ b \in tx'[q].ins
                        /\ \A z \in Reqs \ {q} : tx'[z].bump[b] = 0
      BY DEF TxBumps
    <3>1. UNCHANGED cas /\ \A z \in Reqs : tx'[z].ins = tx[z].ins
      BY <2>3, <2>4, <2>5, <2>6 DEF dbVars
    <3>2. CASE b = b0
      <4>1. q = r
        BY <2>6, <2>10, <3>2
      <4>2. \A z \in Reqs \ {r} : tx'[z].bump[b] = 0
        BY <2>6, <2>10, <3>2
      <4> QED
        BY <2>4, <3>1, <3>2, <4>1, <4>2
    <3>3. CASE b # b0
      <4>1. \A z \in Reqs : tx'[z].bump[b] = tx[z].bump[b]
        <5>1. tx'[r].bump[b] = tx[r].bump[b]
          BY <2>2, <2>5, <2>6, <3>3
        <5> QED
          BY <2>6, <5>1
      <4> QED
        BY <3>1, <4>1 DEF IInv, CasInv, TxBumps
    <3> QED
      BY <3>2, <3>3
  <2>12. TxInserts'
    <3>1. \A q \in Reqs : tx'[q].ins = tx[q].ins /\ tx'[q].file = tx[q].file
      BY <2>3, <2>5, <2>6
    <3>2. cas' = cas
      BY <2>4 DEF dbVars
    <3> QED
      BY <3>1, <3>2 DEF IInv, CasInv, TxInserts
  <2> QED
    BY <2>7, <2>8, <2>9, <2>11, <2>12 DEF IInv, CasInv
<1> QED
  BY <1>1, <1>2

=============================================================================
