-------------------------- MODULE AegisStoreTheorems --------------------------
(***************************************************************************)
(* COMMIT, the delete of a version and so every step of AegisStore keep    *)
(* the inductive invariant; and what that gives: the invariants of         *)
(* AegisStore, its action property, and that it implements RefStore, for   *)
(* every value of the constants.                                           *)
(***************************************************************************)
EXTENDS RequestProofs

-----------------------------------------------------------------------------
(* COMMIT *)

\* COMMIT: the rows become visible with exactly the references counted for
\* them, under a number above all others of the node.
LEMMA CommitStep ==
    ASSUME IInv, NEW r \in Reqs, CommitTx(r), UNCHANGED gcVars
    PROVE  IInv'
<1> DEFINE x == IF HasBlobStore
                THEN [Idle EXCEPT !.pc = "verify", !.sess = tx[r].sess,
                                  !.file = tx[r].file, !.pos = 1]
                ELSE Idle
<1>1. /\ tx \in [Reqs -> Request] /\ tx[r] \in Request
      /\ tx[r].pc = "commit" /\ tx[r].sess \in Sessions /\ tx[r].file \in Files
      /\ tx[r].num \in Nat \ {0} /\ tx[r].bump \in [Blocks -> Nat]
      /\ tx[r].ins \in SUBSET Blocks /\ tx[r].start \in Nat
      /\ SessionExists(tx[r].sess) /\ sessions[tx[r].sess].status # "NONE"
  BY DEF CommitTx, IInv, TypeOK, IngestTypeOK, TxShape, Writing, InTx, Request
<1>2. /\ Len(tx[r].file) \in Nat \ {0} /\ DOMAIN tx[r].file = 1..Len(tx[r].file)
      /\ \A i \in 1..Len(tx[r].file) : tx[r].file[i] \in Blocks
  BY <1>1, FileFacts
<1>3. PICK s, n, v, R : /\ s = tx[r].sess /\ n = TxNode(r)
                        /\ v = TxVersion(r) /\ R = TxRows(r)
  OBVIOUS
<1>4. /\ s \in Sessions /\ n \in Nodes /\ v \in Version
      /\ v.node = n /\ v.num = tx[r].num /\ v.sess = s
  BY <1>1, <1>3 DEF IInv, SessInv, SessionNodes, TxNode, TxVersion, Version
<1>5. /\ manifest' = manifest \cup R /\ versions' = versions \cup {v}
      /\ sessions' = [sessions EXCEPT ![s].status = "COMPLETED"]
      /\ cas' = [b \in Blocks |-> TxCasRow(r, b)]
      /\ tx' = [tx EXCEPT ![r] = x]
      /\ UNCHANGED <<now, purged, blobs>>
  BY <1>3 DEF CommitTx
<1>6. /\ x \in Request /\ x.pc \in {"idle", "verify"} /\ x.ins = {}
      /\ \A b \in Blocks : x.bump[b] = 0
      /\ x.pc = "verify" => x.sess = s /\ x.file = tx[r].file /\ x.pos = 1
  BY Zenon, <1>1, <1>3 DEF Idle, Request, PC
<1> HIDE DEF x
<1>7. tx'[r] = x /\ \A q \in Reqs \ {r} : tx'[q] = tx[q]
  BY <1>1, <1>5
<1>8. /\ sessions \in [Sessions -> SessionRow]
      /\ sessions' \in [Sessions -> SessionRow]
      /\ sessions'[s].status = "COMPLETED"
      /\ \A t \in Sessions : /\ sessions'[t].node = sessions[t].node
                             /\ sessions'[t].expires_at = sessions[t].expires_at
                             /\ t # s => sessions'[t].status = sessions[t].status
  BY <1>4, <1>5 DEF IInv, TypeOK, DbTypeOK, SessionRow, Status
<1>9. \A q \in Reqs \ {r} : tx[q].pc # "idle" =>
          tx[q].sess \in Sessions /\ TxNode(q)' = TxNode(q)
  BY <1>7, <1>8 DEF IInv, TxShape, TxNode
<1>10. /\ R = TxRowsTo(r, Done(r)) /\ IsFiniteSet(R) /\ R \subseteq ManifestRow
       /\ \A m \in R : m.ver = v
       /\ \A b \in Blocks : tx[r].bump[b] = Cardinality({m \in R : m.block = b})
  <2>1. R = TxRowsTo(r, Done(r))
    BY <1>1, <1>2, <1>3 DEF TxRows, TxRowsTo, Done
  <2>2. R \subseteq ManifestRow /\ \A m \in R : m.ver = v
    BY <1>2, <1>3, <1>4 DEF TxRows, ManifestRow
  <2> QED
    BY <1>1, <2>1, <2>2 DEF IInv, CasInv, TxCounts
<1>11. v \notin versions /\ manifest \cap R = {}
  <2>1. \A w \in versions \cup purged : w.sess # s
    BY <1>1, <1>3 DEF IInv, SessInv, TxFresh, InTx
  <2> QED
    BY <1>4, <1>10, <2>1 DEF IInv, CasInv, ManifestOfVersions
<1>12. /\ cas \in [Blocks -> CasRow] /\ cas' \in [Blocks -> CasRow]
       /\ \A b \in Blocks :
             /\ cas'[b].live = (cas[b].live \/ b \in tx[r].ins)
             /\ b \in tx[r].ins => cas'[b].ref_count = tx[r].bump[b]
             /\ b \notin tx[r].ins =>
                   cas'[b].ref_count = cas[b].ref_count + tx[r].bump[b]
  <2>1. cas \in [Blocks -> CasRow]
    BY DEF IInv, TypeOK, DbTypeOK
  <2>2. ASSUME NEW b \in Blocks
        PROVE  /\ TxCasRow(r, b) \in CasRow
               /\ TxCasRow(r, b).live = (cas[b].live \/ b \in tx[r].ins)
               /\ b \in tx[r].ins => TxCasRow(r, b).ref_count = tx[r].bump[b]
               /\ b \notin tx[r].ins => TxCasRow(r, b).ref_count =
                     cas[b].ref_count + tx[r].bump[b]
    <3>1. tx[r].bump[b] \in Nat /\ cas[b] \in CasRow
      BY <1>1, <2>1
    <3>2. CASE b \in tx[r].ins
      BY Zenon, <1>1, <3>1, <3>2 DEF TxCasRow, NewRow, CasRow
    <3>3. CASE b \notin tx[r].ins
      BY <1>1, <3>1, <3>3 DEF TxCasRow, CasRow
    <3> QED
      BY <3>2, <3>3
  <2> QED
    BY <1>5, <2>1, <2>2
<1>13. TypeOK'
  <2>1. IsFiniteSet(manifest') /\ manifest' \in SUBSET ManifestRow
    BY ZenonT(30), <1>5, <1>10, FS_Union DEF IInv, TypeOK, DbTypeOK
  <2> QED
    BY <1>1, <1>4, <1>5, <1>6, <1>8, <1>12, <2>1
    DEF IInv, TypeOK, DbTypeOK, IngestTypeOK, GcTypeOK, gcVars
<1>14. TxShape'
  <2> SUFFICES ASSUME NEW q \in Reqs
               PROVE
        /\ tx'[q].pc # "idle" => /\ tx'[q].sess \in Sessions
                                 /\ tx'[q].file \in Files
                                 /\ sessions'[tx'[q].sess].status # "NONE"
        /\ tx'[q].pc \in InTx => SessionExists(tx[q].sess)'
        /\ tx'[q].pc \in {"ensure", "manifest", "verify", "mark"} =>
              tx'[q].pos \in 1..Len(tx'[q].file)
        /\ tx'[q].pc \in Writing => tx'[q].num # 0
        /\ tx'[q].pc \notin Writing => tx'[q].ins = {}
        /\ tx'[q].pc \notin {"manifest", "commit"} =>
              \A b \in Blocks : tx'[q].bump[b] = 0
    BY DEF TxShape
  <2>1. CASE q = r
    BY SMTT(30), <1>1, <1>2, <1>4, <1>6, <1>7, <1>8, <2>1 DEF InTx, Writing
  <2>2. CASE q # r
    <3>1. tx'[q] = tx[q]
      BY <1>7, <2>2
    <3>2. tx[q].pc # "idle" => /\ tx[q].sess \in Sessions
                               /\ sessions[tx[q].sess].status # "NONE"
      BY DEF IInv, TxShape
    <3>3. tx[q].pc # "idle" => sessions'[tx[q].sess].status # "NONE"
      BY <1>8, <3>2
    <3>4. tx[q].pc \in InTx => SessionExists(tx[q].sess)'
      <4>1. tx[q].pc \in InTx => SessionExists(tx[q].sess) /\ tx[q].pc # "idle"
        BY DEF IInv, TxShape, InTx
      <4> QED
        BY <1>8, <3>1, <3>2, <4>1 DEF SessionExists
    <3> QED
      BY <3>1, <3>2, <3>3, <3>4 DEF IInv, TxShape
  <2> QED
    BY <2>1, <2>2
<1>15. GcInv'
  BY <1>5, <1>8 DEF IInv, GcInv, GcShape, SweepOK, MarkedExpired, SessionExpired,
     gcVars, TypeOK, GcTypeOK
<1>16. ManifestOfVersions'
  BY <1>5, <1>10 DEF IInv, CasInv, ManifestOfVersions
<1>17. RefCountExact'
  <2> SUFFICES ASSUME NEW b \in Blocks
               PROVE  /\ cas'[b].ref_count = Cardinality(RowsOf(b)')
                      /\ RowsOf(b)' # {} => cas'[b].live
    BY DEF RefCountExact
  <2> DEFINE A == RowsOf(b)
             B == {m \in R : m.block = b}
  <2>1. RowsOf(b)' = A \cup B /\ A \cap B = {}
    BY <1>5, <1>11 DEF RowsOf
  <2>2. IsFiniteSet(A) /\ IsFiniteSet(B)
    BY <1>10, FS_Subset DEF RowsOf, IInv, TypeOK, DbTypeOK
  <2>3. /\ cas[b].ref_count = Cardinality(A) /\ (A # {} => cas[b].live)
        /\ tx[r].bump[b] = Cardinality(B)
    BY <1>10 DEF IInv, CasInv, RefCountExact
  <2>4. b \in tx[r].ins => ~cas[b].live
    BY DEF IInv, CasInv, TxInserts
  <2>5. B # {} => cas[b].live \/ b \in tx[r].ins
    <3> HIDE DEF B
    <3>1. B # {} => tx[r].bump[b] > 0
      <4>1. Cardinality(B) \in Nat /\ (Cardinality(B) = 0 => B = {})
        BY <2>2, FS_EmptySet, FS_CardinalityType
      <4> QED
        BY <2>3, <4>1
    <3> QED
      BY <3>1 DEF IInv, CasInv, TxBumps
  <2> HIDE DEF A, B
  <2>6. Cardinality(A \cup B) = Cardinality(A) + Cardinality(B)
    <3>1. Cardinality(A \cap B) = 0
      BY <2>1, FS_EmptySet
    <3>2. Cardinality(A \cup B) =
            Cardinality(A) + Cardinality(B) - Cardinality(A \cap B)
      BY <2>2, FS_Union
    <3>3. Cardinality(A) \in Nat /\ Cardinality(B) \in Nat
      BY <2>2, FS_CardinalityType
    <3> QED
      BY <3>1, <3>2, <3>3
  <2>7. CASE b \in tx[r].ins
    <3>1. A = {} /\ Cardinality(A) = 0
      BY <2>3, <2>4, <2>7, FS_EmptySet
    <3> QED
      BY Zenon, <1>12, <2>1, <2>2, <2>3, <2>6, <2>7, <3>1, FS_CardinalityType
  <2>8. CASE b \notin tx[r].ins
    BY ZenonT(30), <1>12, <2>1, <2>3, <2>5, <2>6, <2>8
  <2> QED
    BY <2>7, <2>8
<1>18. TxCounts'
  <2> SUFFICES ASSUME NEW q \in Reqs, tx'[q].pc \in {"manifest", "commit"}
               PROVE  /\ IsFiniteSet(TxRowsTo(q, Done(q))')
                      /\ \A b \in Blocks : tx'[q].bump[b] =
                           Cardinality({m \in TxRowsTo(q, Done(q))' : m.block = b})
    BY DEF TxCounts
  <2>1. q # r /\ tx'[q] = tx[q]
    BY <1>6, <1>7
  <2>2. TxRowsTo(q, Done(q))' = TxRowsTo(q, Done(q))
    BY SMTT(30), <1>9, <2>1 DEF TxRowsTo, Done, TxVersion
  <2> QED
    BY <2>1, <2>2 DEF IInv, CasInv, TxCounts
<1>19. TxBumps'
  <2> SUFFICES ASSUME NEW q \in Reqs, NEW b \in Blocks, tx'[q].bump[b] > 0
               PROVE  /\ cas'[b].live \/ b \in tx'[q].ins
                      /\ \A z \in Reqs \ {q} : tx'[z].bump[b] = 0
    BY DEF TxBumps
  <2>1. q # r /\ tx'[q] = tx[q]
    BY <1>6, <1>7
  <2>2. /\ cas[b].live \/ b \in tx[q].ins
        /\ \A z \in Reqs \ {q} : tx[z].bump[b] = 0
    BY <2>1 DEF IInv, CasInv, TxBumps
  <2>3. cas'[b].live \/ b \in tx'[q].ins
    BY <1>12, <2>1, <2>2
  <2>4. \A z \in Reqs \ {q} : tx'[z].bump[b] = 0
    <3> SUFFICES ASSUME NEW z \in Reqs \ {q} PROVE tx'[z].bump[b] = 0
      OBVIOUS
    <3>1. CASE z = r
      BY <1>6, <1>7, <3>1
    <3>2. CASE z # r
      BY <1>7, <2>2, <3>2
    <3> QED
      BY <3>1, <3>2
  <2> QED
    BY <2>3, <2>4
<1>20. TxInserts'
  <2> SUFFICES ASSUME NEW q \in Reqs, NEW b \in tx'[q].ins
               PROVE  /\ ~cas'[b].live
                      /\ \E i \in DOMAIN tx'[q].file : b = tx'[q].file[i]
                      /\ \A z \in Reqs \ {q} : b \notin tx'[z].ins
    BY DEF TxInserts
  <2>1. q # r /\ tx'[q] = tx[q] /\ b \in tx[q].ins /\ b \in Blocks
    BY SMTT(30), <1>1, <1>6, <1>7 DEF Request
  <2>2. /\ ~cas[b].live
        /\ \E i \in DOMAIN tx[q].file : b = tx[q].file[i]
        /\ \A z \in Reqs \ {q} : b \notin tx[z].ins
    BY <2>1 DEF IInv, CasInv, TxInserts
  <2> QED
    BY Zenon, <1>6, <1>7, <1>12, <2>1, <2>2
<1>21. TxExclusive'
  BY <1>6, <1>7, <1>9 DEF IInv, SessInv, TxExclusive, InTx, Writing
<1>22. TxFresh'
  <2>1. \A q \in Reqs \ {r} : tx[q].pc \in InTx => tx[q].sess # s
    BY <1>1, <1>3 DEF IInv, SessInv, TxExclusive, InTx
  <2> QED
    BY <1>4, <1>5, <1>6, <1>7, <2>1 DEF IInv, SessInv, TxFresh, InTx
<1>23. SessionSpent' /\ SessionNodes'
  <2>1. SessionSpent'
    <3> SUFFICES ASSUME NEW w \in (versions \cup purged)'
                 PROVE  /\ sessions'[w.sess].status # "NONE"
                        /\ \/ sessions'[w.sess].status = "COMPLETED"
                           \/ SessionExpired(w.sess)'
      BY DEF SessionSpent
    <3>1. CASE w.sess = s
      BY <1>8, <3>1
    <3>2. CASE w.sess # s
      <4>1. w \in versions \cup purged /\ w.sess \in Sessions
        BY <1>4, <1>5, <3>2 DEF IInv, TypeOK, DbTypeOK, Version
      <4>2. /\ sessions[w.sess].status # "NONE"
            /\ sessions[w.sess].status = "COMPLETED" \/ SessionExpired(w.sess)
        BY <4>1 DEF IInv, SessInv, SessionSpent
      <4> QED
        BY <1>5, <1>8, <3>2, <4>1, <4>2 DEF SessionExpired
    <3> QED
      BY <3>1, <3>2
  <2>2. SessionNodes'
    <3>1. sessions[s].node \in Nodes
      BY <1>3, <1>4 DEF TxNode
    <3> QED
      BY <1>8, <3>1 DEF IInv, SessInv, SessionNodes
  <2> QED
    BY <2>1, <2>2
<1>24. OneVersionPerSession'
  BY <1>1, <1>3, <1>4, <1>5 DEF IInv, SessInv, OneVersionPerSession, TxFresh, InTx
<1>25. /\ \A k \in NumbersOf(n) : k < v.num
       /\ \A k \in 1..(v.num - 1) :
             \E w \in versions \cup purged : w.node = n /\ w.num = k
       /\ NumbersOf(n)' = NumbersOf(n) \cup {v.num}
       /\ \A m \in Nodes \ {n} : NumbersOf(m)' = NumbersOf(m)
       /\ \A m \in Nodes : NumbersOf(m) \subseteq Nat
  <2>1. /\ \A k \in NumbersOf(n) : k < v.num
        /\ \A k \in 1..(v.num - 1) :
              \E w \in versions \cup purged : w.node = n /\ w.num = k
    <3>1. TxNumber /\ tx[r].pc \in Writing
      BY <1>1 DEF IInv, NumInv, Writing
    <3> QED
      BY <1>3, <1>4, <3>1 DEF TxNumber
  <2>2. /\ NumbersOf(n)' = NumbersOf(n) \cup {v.num}
        /\ \A m \in Nodes \ {n} : NumbersOf(m)' = NumbersOf(m)
    BY <1>4, <1>5 DEF NumbersOf
  <2>3. \A m \in Nodes : NumbersOf(m) \subseteq Nat
    BY DEF NumbersOf, IInv, TypeOK, DbTypeOK, Version
  <2> QED
    BY <2>1, <2>2, <2>3
<1>26. NumbersBounded'
  <2> SUFFICES ASSUME NEW m \in Nodes, NEW S \in SUBSET NumbersOf(m)', S # {}
               PROVE  \E k \in S : \A j \in S : j <= k
    BY DEF NumbersBounded
  <2>1. CASE S \subseteq NumbersOf(m)
    BY <2>1 DEF IInv, NumInv, NumbersBounded
  <2>2. CASE ~(S \subseteq NumbersOf(m))
    <3>1. m = n /\ v.num \in S
      BY <1>25, <2>2
    <3>2. \A j \in S : j <= v.num
      BY SMTT(30), <1>1, <1>4, <1>25, <3>1
    <3> QED
      BY <3>1, <3>2
  <2> QED
    BY <2>1, <2>2
<1>27. NumbersUnique'
  <2>1. \A w \in versions : w.node = n => w.num # v.num
    <3> SUFFICES ASSUME NEW w \in versions, w.node = n, w.num = v.num PROVE FALSE
      OBVIOUS
    <3>1. v.num \in NumbersOf(n)
      BY DEF NumbersOf
    <3> QED
      <4>1. v.num \in Nat /\ v.num < v.num
        BY <1>4, <1>25, <3>1 DEF Version
      <4> QED
        BY <4>1
  <2> QED
    BY <1>4, <1>5, <2>1 DEF IInv, NumInv, NumbersUnique
<1>28. VersionsGapless'
  BY <1>4, <1>5, <1>25 DEF IInv, NumInv, VersionsGapless
<1>29. TxNumber'
  <2> SUFFICES ASSUME NEW q \in Reqs, tx'[q].pc \in Writing
               PROVE  /\ \A j \in NumbersOf(TxNode(q))' : j < tx'[q].num
                      /\ \A j \in 1..(tx'[q].num - 1) :
                            \E w \in (versions \cup purged)' :
                                w.node = TxNode(q)' /\ w.num = j
    BY DEF TxNumber
  <2>1. q # r /\ tx'[q] = tx[q] /\ tx[q].pc \in Writing /\ tx[q].pc # "idle"
    BY SMTT(30), <1>6, <1>7 DEF Writing
  <2>2. TxNode(q) # n /\ TxNode(q)' = TxNode(q) /\ tx[q].sess \in Sessions
    <3>1. TxExclusive /\ TxShape /\ tx[r].pc \in Writing
      BY <1>1 DEF IInv, SessInv, Writing
    <3>2. TxNode(q) # n
      BY <1>3, <2>1, <3>1 DEF TxExclusive
    <3>3. tx[q].sess \in Sessions
      BY <2>1, <3>1 DEF TxShape
    <3> QED
      BY <1>9, <2>1, <3>2, <3>3
  <2>3. TxNode(q) \in Nodes
    BY <2>1, <2>2 DEF IInv, TxShape, SessInv, SessionNodes, TxNode
  <2>4. NumbersOf(TxNode(q))' = NumbersOf(TxNode(q))
    BY <1>4, <1>5, <2>2 DEF NumbersOf
  <2> QED
    BY <1>5, <2>1, <2>2, <2>4 DEF IInv, NumInv, TxNumber
<1> QED
  BY SMTT(30), <1>13, <1>14, <1>15, <1>16, <1>17, <1>18, <1>19, <1>20, <1>21, <1>22,
     <1>23, <1>24, <1>26, <1>27, <1>28, <1>29
  DEF IInv, CasInv, SessInv, NumInv

-----------------------------------------------------------------------------
(* Purging a version *)

\* The cascade and the trigger manifest_block_removed take away the rows of
\* the version and as many references.
LEMMA PurgeStep ==
    ASSUME IInv, NEW v \in versions, PurgeVersion(v), UNCHANGED gcVars
    PROVE  IInv'
<1>1. /\ versions' = versions \ {v} /\ purged' = purged \cup {v}
      /\ manifest' = manifest \ VersionRows(v)
      /\ UNCHANGED <<now, sessions, blobs, tx>>
  BY DEF PurgeVersion
<1>2. (versions \cup purged)' = versions \cup purged
  BY <1>1
<1>3. \A b \in Blocks :
         LET A == RowsOf(b)
             B == RowsOf(b) \cap VersionRows(v)
         IN  /\ IsFiniteSet(A) /\ IsFiniteSet(B)
             /\ RowsOf(b)' = A \ B
             /\ Cardinality(A) \in Nat /\ Cardinality(B) \in Nat
             /\ Cardinality(A \ B) = Cardinality(A) - Cardinality(B)
             /\ Cardinality(A \ B) \in Nat
  <2> SUFFICES ASSUME NEW b \in Blocks, NEW A, NEW B,
                      A = RowsOf(b), B = RowsOf(b) \cap VersionRows(v)
               PROVE  /\ IsFiniteSet(A) /\ IsFiniteSet(B)
                      /\ RowsOf(b)' = A \ B
                      /\ Cardinality(A) \in Nat /\ Cardinality(B) \in Nat
                      /\ Cardinality(A \ B) = Cardinality(A) - Cardinality(B)
                      /\ Cardinality(A \ B) \in Nat
    BY Zenon
  <2>1. IsFiniteSet(A)
    BY FS_Subset DEF RowsOf, IInv, TypeOK, DbTypeOK
  <2>2. IsFiniteSet(B) /\ A \cap B = B
    BY <2>1, FS_Subset
  <2>3. RowsOf(b)' = A \ B
    BY <1>1 DEF RowsOf, VersionRows
  <2>4. /\ IsFiniteSet(A \ B)
        /\ Cardinality(A \ B) = Cardinality(A) - Cardinality(A \cap B)
    BY Zenon, <2>1, FS_Difference
  <2> QED
    BY Zenon, <2>1, <2>2, <2>3, <2>4, FS_CardinalityType
<1>4. /\ cas \in [Blocks -> CasRow] /\ cas' \in [Blocks -> CasRow]
      /\ \A b \in Blocks : /\ cas'[b].live = cas[b].live
                           /\ cas'[b].ref_count = Cardinality(RowsOf(b)')
  <2>1. cas \in [Blocks -> CasRow]
    BY DEF IInv, TypeOK, DbTypeOK
  <2>2. ASSUME NEW b \in Blocks
        PROVE  LET row == [cas[b] EXCEPT !.ref_count =
                             @ - Cardinality(RowsOf(b) \cap VersionRows(v))]
               IN  /\ row \in CasRow /\ row.live = cas[b].live
                   /\ row.ref_count = Cardinality(RowsOf(b)')
    <3>1. /\ cas[b].ref_count = Cardinality(RowsOf(b))
          /\ Cardinality(RowsOf(b)') = Cardinality(RowsOf(b)) -
                Cardinality(RowsOf(b) \cap VersionRows(v))
          /\ Cardinality(RowsOf(b)') \in Nat
      BY Zenon, <1>3 DEF IInv, CasInv, RefCountExact
    <3> QED
      BY <2>1, <3>1 DEF CasRow
  <2>3. cas' = [b \in Blocks |-> [cas[b] EXCEPT
                  !.ref_count = @ - Cardinality(RowsOf(b) \cap VersionRows(v))]]
    BY DEF PurgeVersion
  <2> QED
    BY Zenon, <2>1, <2>2, <2>3
<1>5. TypeOK'
  <2>1. IsFiniteSet(manifest')
    BY SMTT(30), <1>1, FS_Subset DEF IInv, TypeOK, DbTypeOK
  <2> QED
    BY <1>1, <1>4, <2>1 DEF IInv, TypeOK, DbTypeOK, IngestTypeOK, GcTypeOK, gcVars
<1>6. TxShape'
  BY <1>1 DEF IInv, TxShape, SessionExists
<1>7. RefCountExact'
  BY ZenonT(30), <1>3, <1>4 DEF IInv, CasInv, RefCountExact
<1>8. TxCounts'
  BY SMTT(30), <1>1, CountsFrame DEF TxNode, IInv, CasInv
<1>9. TxBumps'
  BY <1>1, <1>4 DEF IInv, CasInv, TxBumps
<1>10. TxInserts'
  BY <1>1, <1>4 DEF IInv, CasInv, TxInserts, TypeOK, IngestTypeOK, Request
<1>11. ManifestOfVersions'
  BY SMTT(30), <1>1 DEF IInv, CasInv, ManifestOfVersions, VersionRows
<1>12. SessInv'
  BY <1>1, <1>2 DEF IInv, SessInv, TxExclusive, TxFresh, SessionSpent,
     SessionNodes, OneVersionPerSession, TxNode, SessionExpired
<1>13. NumInv'
  <2>1. \A n \in Nodes : NumbersOf(n)' \subseteq NumbersOf(n)
    BY <1>1 DEF NumbersOf
  <2>2. NumbersBounded'
    BY <2>1 DEF IInv, NumInv, NumbersBounded
  <2>3. TxNumber'
    <3>1. \A r \in Reqs : TxNode(r)' = TxNode(r)
      BY <1>1 DEF TxNode
    <3>2. \A r \in Reqs : tx[r].pc \in Writing => TxNode(r) \in Nodes
      BY DEF IInv, TxShape, SessInv, SessionNodes, TxNode, Writing
    <3>3. \A r \in Reqs : NumbersOf(TxNode(r))' \subseteq NumbersOf(TxNode(r))
      BY <1>1, <3>1 DEF NumbersOf
    <3>4. TxNumber /\ tx' = tx /\ (versions \cup purged)' = versions \cup purged
      BY <1>1 DEF IInv, NumInv
    <3> SUFFICES ASSUME NEW r \in Reqs, tx[r].pc \in Writing
                 PROVE  /\ \A k \in NumbersOf(TxNode(r))' : k < tx[r].num
                        /\ \A k \in 1..(tx[r].num - 1) :
                              \E w \in versions \cup purged :
                                  w.node = TxNode(r) /\ w.num = k
      BY <3>1, <3>4 DEF TxNumber
    <3> QED
      BY <3>3, <3>4 DEF TxNumber
  <2>4. NumbersUnique' /\ VersionsGapless'
    BY SMTT(30), <1>1, <1>2 DEF IInv, NumInv, NumbersUnique, VersionsGapless
  <2> QED
    BY SMTT(30), <2>2, <2>3, <2>4 DEF NumInv
<1>14. GcInv'
  BY <1>1 DEF IInv, GcInv, GcShape, SweepOK, MarkedExpired, SessionExpired, gcVars
<1> QED
  BY <1>5, <1>6, <1>7, <1>8, <1>9, <1>10, <1>11, <1>12, <1>13, <1>14
  DEF IInv, CasInv

-----------------------------------------------------------------------------
(* Every step keeps the invariant *)

\* Every step of the system keeps the inductive invariant.
LEMMA NextIInv == IInv /\ [Next]_vars => IInv'
<1> SUFFICES ASSUME IInv, [Next]_vars PROVE IInv'
  OBVIOUS
<1>1. CASE UNCHANGED vars
  <2>1. GcTypeOK' /\ GcInv' /\ blobs' \in SUBSET Blocks
    BY <1>1 DEF vars, dbVars, gcVars, IInv, TypeOK, DbTypeOK, GcTypeOK, GcInv,
       GcShape, SweepOK, MarkedExpired, SessionExpired
  <2> QED
    BY <1>1, <2>1, MemoryStep DEF vars, dbVars
<1>2. CASE IngestStep /\ UNCHANGED gcVars
  <2>1. ASSUME NEW r \in Reqs, ServeCommit(r) PROVE IInv'
    <3>1. CASE DeadlockVictim(r)
      BY Zenon, <1>2, <3>1, IdleStep DEF DeadlockVictim
    <3> QED
      BY <1>2, <2>1, <3>1, LockSessionStep, LockNodeStep, EnsureStep,
         AddManifestStep, CommitStep, VerifyStep DEF ServeCommit
  <2>2. ASSUME NEW r \in Reqs, Abort(r) PROVE IInv'
    BY ZenonT(30), <1>2, <2>2, IdleStep DEF Abort
  <2> QED
    BY <1>2, <2>1, <2>2, ReapSessionStep, PurgeStep DEF IngestStep
<1>3. CASE GcStep
  BY <1>3, CollectorMemory, MarkSessionStep, RowDeleters, ConsumerMemory DEF GcStep
<1>4. CASE Tick /\ UNCHANGED <<tx, gcVars>>
  BY <1>4, TickStep
<1>5. CASE ClientRequest
  BY <1>5, InitiateStep, StartCommitStep DEF ClientRequest
<1> QED
  BY <1>1, <1>2, <1>3, <1>4, <1>5 DEF Next, SystemStep

\* The inductive invariant holds in every reachable state.
THEOREM Invariance == Spec => []IInv
BY InitIInv, NextIInv, PTL DEF Spec

-----------------------------------------------------------------------------
(* Invariants *)

\* Every variable stays in its type: what TypeOK checks of the tables, the
\* requests and the collector.
THEOREM TypeCorrect == Spec => []TypeOK
<1>1. IInv => TypeOK
  BY DEF IInv
<1> QED
  BY <1>1, Invariance, PTL

\* RefCountExact: the triggers, the commit transactions, version purges and
\* every deleter together keep ref_count the number of manifest rows, and no
\* row with references is ever deleted.
THEOREM RefCountsExact == Spec => []RefCountExact
<1>1. IInv => RefCountExact
  BY DEF IInv, CasInv
<1> QED
  BY <1>1, Invariance, PTL

\* OneVersionPerSession: retries and duplicates of a commit, and cleanup loops
\* that overwrite the status of a session, never let it produce two versions.
THEOREM SessionsCommitOnce == Spec => []OneVersionPerSession
<1>1. IInv => OneVersionPerSession
  BY DEF IInv, SessInv
<1> QED
  BY <1>1, Invariance, PTL

\* VersionFence: numbers are allocated under the node's lock, so no two
\* versions of a node share one and UNIQUE (node_id, version_number) never
\* rejects a commit.
THEOREM VersionsFenced == Spec => []VersionFence
<1>1. IInv => VersionFence
  <2> SUFFICES ASSUME IInv PROVE VersionFence
    OBVIOUS
  <2>1. \A v, w \in versions : v.node = w.node /\ v.num = w.num => v = w
    BY DEF IInv, NumInv, NumbersUnique
  <2>2. ASSUME NEW r \in Reqs, tx[r].pc \in {"ensure", "manifest", "commit"}
        PROVE  /\ tx[r].num \notin NumbersOf(TxNode(r))
               /\ \A q \in Reqs \ {r} : ~HoldsNode(q, TxNode(r))
    <3>1. tx[r].num \in Nat /\ \A k \in NumbersOf(TxNode(r)) : k < tx[r].num
      BY <2>2 DEF IInv, TypeOK, IngestTypeOK, Request, NumInv, TxNumber, Writing
    <3>2. \A q \in Reqs \ {r} : ~HoldsNode(q, TxNode(r))
      BY <2>2 DEF IInv, SessInv, TxExclusive, Writing, HoldsNode, TxNode
    <3> QED
      BY <3>1, <3>2
  <2> QED
    BY <2>1, <2>2 DEF VersionFence
<1> QED
  BY <1>1, Invariance, PTL

\* VersionsGapless: every number below a version's number was given to a
\* version of the node that was committed.
THEOREM VersionsDense == Spec => []VersionsGapless
<1>1. IInv => VersionsGapless
  BY DEF IInv, NumInv
<1> QED
  BY <1>1, Invariance, PTL

\* RateBudget: a pod never deletes more rows per period than its budget.
THEOREM BudgetKept == Spec => []RateBudget
<1>1. IInv => RateBudget
  BY DEF IInv, GcInv, GcShape, SweepOK, RateBudget
<1> QED
  BY <1>1, Invariance, PTL

-----------------------------------------------------------------------------
(* Steps, as the registry sees them *)

\* A step commits a transaction, purges a version, deletes one row that is
\* free and unreferenced, or leaves the manifest and the set of rows alone.
LEMMA StepKinds ==
    ASSUME IInv, [Next]_vars
    PROVE  \/ \E r \in Reqs : CommitTx(r)
           \/ \E v \in versions : PurgeVersion(v)
           \/ \E b \in Blocks : /\ Deletable(b) /\ BlockFree(b)
                                /\ cas' = [cas EXCEPT ![b] = NoRow]
                                /\ UNCHANGED manifest
           \/ /\ UNCHANGED manifest
              /\ \A b \in Blocks : cas'[b].live = cas[b].live
<1>1. CASE UNCHANGED vars
  BY <1>1 DEF vars, dbVars
<1>2. CASE IngestStep
  <2>1. ASSUME NEW r \in Reqs, MarkBlockVerified(r)
        PROVE  UNCHANGED manifest /\ \A b \in Blocks : cas'[b].live = cas[b].live
    <3>1. cas \in [Blocks -> CasRow]
      BY DEF IInv, TypeOK, DbTypeOK
    <3> QED
      BY <2>1, <3>1 DEF MarkBlockVerified, CasRow
  <2>2. ASSUME NEW r \in Reqs, ServeCommit(r), ~CommitTx(r), ~MarkBlockVerified(r)
        PROVE  UNCHANGED <<cas, manifest>>
    BY <2>2 DEF ServeCommit, LockSession, LockNode, EnsureBlockRow,
       AddManifestRow, VerifyBlock, DeadlockVictim, dbVars
  <2>3. ASSUME NEW r \in Reqs, Abort(r) PROVE UNCHANGED <<cas, manifest>>
    BY <2>3 DEF Abort, dbVars
  <2>4. ASSUME NEW s \in Sessions, ReapSession(s) PROVE UNCHANGED <<cas, manifest>>
    BY <2>4 DEF ReapSession
  <2> QED
    BY <1>2, <2>1, <2>2, <2>3, <2>4 DEF IngestStep
<1>3. CASE GcStep
  <2>1. ASSUME NEW b \in Blocks, BlockFree(b), cas' = AfterDelete(b),
               UNCHANGED manifest
        PROVE  \/ UNCHANGED <<cas, manifest>>
               \/ /\ Deletable(b) /\ BlockFree(b)
                  /\ cas' = [cas EXCEPT ![b] = NoRow] /\ UNCHANGED manifest
    BY <2>1 DEF AfterDelete
  <2>2. ASSUME NEW p \in Pods, HardDelete(p)
        PROVE  \/ UNCHANGED <<cas, manifest>>
               \/ \E b \in Blocks : /\ Deletable(b) /\ BlockFree(b)
                                    /\ cas' = [cas EXCEPT ![b] = NoRow]
                                    /\ UNCHANGED manifest
    <3>1. gc[p].cur \in Blocks
      BY <2>2 DEF HardDelete, IInv, GcInv, GcShape, SweepOK
    <3> QED
      BY <2>1, <2>2, <3>1 DEF HardDelete
  <2>3. ASSUME NEW c \in Consumers, ConsumerHardDelete(c)
        PROVE  \/ UNCHANGED <<cas, manifest>>
               \/ \E b \in Blocks : /\ Deletable(b) /\ BlockFree(b)
                                    /\ cas' = [cas EXCEPT ![b] = NoRow]
                                    /\ UNCHANGED manifest
    <3>1. con[c].cur \in Blocks
      BY <2>3 DEF ConsumerHardDelete, IInv, GcInv, GcShape
    <3> QED
      BY <2>1, <2>3, <3>1 DEF ConsumerHardDelete
  <2>4. ASSUME NEW p \in Pods,
               \/ GetExpiredSessions(p)
               \/ \E s \in Sessions : MarkSessionExpired(p, s)
               \/ SweepStart(p) \/ RateLimited(p)
               \/ \E b \in Blocks : DoubleCheckBlock(p, b)
               \/ PublishBlockTombstone(p) \/ DeleteBlob(p) \/ PodCrash(p)
        PROVE  UNCHANGED <<cas, manifest>>
    BY <2>4 DEF GetExpiredSessions, MarkSessionExpired, SweepStart, RateLimited,
       DoubleCheckBlock, PublishBlockTombstone, DeleteBlob, PodCrash, dbVars
  <2>5. ASSUME NEW c \in Consumers,
               ReadTombstone(c) \/ ConsumerDeleteBlob(c) \/ ConsumerCrash(c)
        PROVE  UNCHANGED <<cas, manifest>>
    BY <2>5 DEF ReadTombstone, ConsumerDeleteBlob, ConsumerCrash, dbVars
  <2>6. \/ UNCHANGED <<cas, manifest>>
        \/ \E b \in Blocks : /\ Deletable(b) /\ BlockFree(b)
                             /\ cas' = [cas EXCEPT ![b] = NoRow]
                             /\ UNCHANGED manifest
    BY <1>3, <2>2, <2>3, <2>4, <2>5 DEF GcStep
  <2> QED
    BY <2>6
<1>4. CASE Tick
  BY SMTT(30), <1>4 DEF Tick
<1>5. CASE ClientRequest
  BY Zenon, <1>5 DEF ClientRequest, Initiate, StartCommit, dbVars
<1> QED
  BY <1>1, <1>2, <1>3, <1>4, <1>5 DEF Next, SystemStep

\* What a commit does to the rows: none goes, and the ones it inserted come.
LEMMA CommitRows ==
    ASSUME IInv, NEW r \in Reqs, CommitTx(r), NEW b \in Blocks
    PROVE  cas'[b].live <=> cas[b].live \/ b \in tx[r].ins
<1>1. cas[b] \in CasRow /\ cas'[b] = TxCasRow(r, b)
  BY DEF IInv, TypeOK, DbTypeOK, CommitTx
<1>2. CASE b \in tx[r].ins
  BY <1>1, <1>2 DEF TxCasRow, NewRow, CasRow
<1>3. CASE b \notin tx[r].ins
  BY <1>1, <1>3 DEF TxCasRow, CasRow
<1> QED
  BY <1>2, <1>3

\* Deleting a version (the cascade and its trigger) removes no block row.
LEMMA PurgeRows ==
    ASSUME IInv, NEW v, PurgeVersion(v), NEW b \in Blocks
    PROVE  cas'[b].live = cas[b].live
<1>1. cas[b] \in CasRow
  BY DEF IInv, TypeOK, DbTypeOK
<1> QED
  BY <1>1 DEF PurgeVersion, CasRow

\* ReapedUnreferenced: whichever pod or consumer deletes a cas_blocks row, no
\* manifest row refers to it and no open transaction has counted one for it.
THEOREM ReapedSafely == Spec => ReapedUnreferenced
<1>1. ASSUME IInv, [Next]_vars
      PROVE  [\A b \in Blocks : cas[b].live /\ ~cas'[b].live =>
                 /\ RowsOf(b) = {}
                 /\ \A r \in Reqs : ~HoldsBlock(r, b)]_vars
  <2> SUFFICES ASSUME NEW b \in Blocks, cas[b].live, ~cas'[b].live
               PROVE  RowsOf(b) = {} /\ \A r \in Reqs : ~HoldsBlock(r, b)
    OBVIOUS
  <2>1. PICK x \in Blocks : /\ Deletable(x) /\ BlockFree(x)
                            /\ cas' = [cas EXCEPT ![x] = NoRow]
    BY <1>1, StepKinds, CommitRows, PurgeRows
  <2>2. x = b
    BY <2>1 DEF IInv, TypeOK, DbTypeOK
  <2>3. RowsOf(b) = {}
    BY <1>1, <2>1, <2>2, ZeroRefs DEF Deletable, IInv, CasInv
  <2> QED
    BY <2>1, <2>2, <2>3 DEF BlockFree
<1> QED
  BY <1>1, Invariance, PTL DEF Spec, ReapedUnreferenced

-----------------------------------------------------------------------------
(* AegisStore implements RefStore *)

\* RegistrySpec: committing a transaction registers and references the blocks
\* of a new version in one step, purging a version drops its references, a
\* deleted row was unreferenced, and nothing else changes either.
THEOREM ImplementsRegistry == Spec => RegistrySpec
<1> DEFINE reg == {b \in Blocks : cas[b].live}
<1>1. Init => Registry!Init
  BY DEF Init, DbInit, NoRow, Registry!Init
<1>2. ASSUME IInv, [Next]_vars
      PROVE  [Registry!Next]_<<reg, manifest>>
  <2>1. ASSUME NEW r \in Reqs, CommitTx(r) PROVE Registry!Reference
    <3> DEFINE R == TxRows(r)
               new == manifest' \ manifest
    <3>1. /\ tx[r].pc = "commit" /\ tx[r].file \in Files
          /\ DOMAIN tx[r].file = 1..Len(tx[r].file) /\ Len(tx[r].file) \in Nat \ {0}
          /\ \A i \in 1..Len(tx[r].file) : tx[r].file[i] \in Blocks
          /\ tx[r].ins \in SUBSET Blocks
      BY <1>2, <2>1, FileFacts
      DEF CommitTx, IInv, TypeOK, IngestTypeOK, Request, TxShape
    <3> DEFINE row(i) ==
          [ver |-> TxVersion(r), idx |-> i, block |-> tx[r].file[i]]
    <3>2. R # {} /\ \A m \in R : m.ver = TxVersion(r)
      <4>1. 1 \in DOMAIN tx[r].file
        BY <3>1
      <4>2. row(1) \in R
        BY <4>1 DEF TxRows
      <4>3. \A m \in R : m.ver = TxVersion(r)
        BY DEF TxRows
      <4> QED
        BY <4>2, <4>3
    <3>3. \A m \in manifest : m.ver # TxVersion(r)
      <4>1. \A w \in versions : w.sess # tx[r].sess
        BY <1>2, <3>1 DEF IInv, SessInv, TxFresh, InTx
      <4> QED
        BY <1>2, <4>1 DEF IInv, CasInv, ManifestOfVersions, TxVersion
    <3>4. manifest' = manifest \cup R /\ new = R
      BY <2>1, <3>2, <3>3 DEF CommitTx
    <3>5. reg' = reg \cup {m.block : m \in R}
      <4>1. \A b \in Blocks : b \in tx[r].ins => b \in {m.block : m \in R}
        <5> SUFFICES ASSUME NEW b \in tx[r].ins PROVE \E m \in R : b = m.block
          OBVIOUS
        <5>1. PICK i \in DOMAIN tx[r].file : b = tx[r].file[i]
          BY <1>2 DEF IInv, CasInv, TxInserts
        <5>2. row(i) \in R /\ row(i).block = b
          BY <5>1 DEF TxRows
        <5> QED
          BY <5>2
      <4>2. ASSUME NEW m \in R
            PROVE  m.block \in Blocks /\ (cas[m.block].live \/ m.block \in tx[r].ins)
        <5> DEFINE b == m.block
                   B == {o \in R : o.block = b}
        <5>1. b \in Blocks
          BY <3>1 DEF TxRows
        <5>2. R = TxRowsTo(r, Done(r))
          BY <3>1 DEF TxRows, TxRowsTo, Done
        <5>3. IsFiniteSet(R) /\ tx[r].bump[b] = Cardinality(B)
          BY <1>2, <3>1, <5>1, <5>2 DEF IInv, CasInv, TxCounts
        <5>4. IsFiniteSet(B) /\ B # {}
          BY <5>3, FS_Subset
        <5> HIDE DEF B, b, R
        <5>5. Cardinality(B) \in Nat /\ Cardinality(B) # 0
          BY <5>4, FS_EmptySet, FS_CardinalityType
        <5>6. tx[r].bump[b] > 0
          BY <5>3, <5>5
        <5>7. cas[b].live \/ b \in tx[r].ins
          BY <1>2, <5>1, <5>6 DEF IInv, CasInv, TxBumps
        <5> QED
          BY <5>1, <5>7 DEF b
      <4>3. \A b \in Blocks : cas'[b].live <=> cas[b].live \/ b \in tx[r].ins
        BY <1>2, <2>1, CommitRows
      <4> HIDE DEF R
      <4> QED
        BY <4>1, <4>2, <4>3
    <3> HIDE DEF R
    <3> QED
      BY <3>2, <3>3, <3>4, <3>5 DEF Registry!Reference, Registry!BlocksOf
  <2>2. ASSUME NEW v \in versions, PurgeVersion(v)
        PROVE  [Registry!Next]_<<reg, manifest>>
    <3>1. reg' = reg
      BY <1>2, <2>2, PurgeRows
    <3>2. manifest' = {m \in manifest : m.ver # v}
      BY <2>2 DEF PurgeVersion, VersionRows
    <3>3. CASE \E m \in manifest : m.ver = v
      BY <3>1, <3>2, <3>3 DEF Registry!Next, Registry!Release
    <3>4. CASE ~\E m \in manifest : m.ver = v
      BY <3>1, <3>2, <3>4
    <3> QED
      BY <3>3, <3>4
  <2>3. ASSUME NEW b \in Blocks, Deletable(b), cas' = [cas EXCEPT ![b] = NoRow],
               UNCHANGED manifest
        PROVE  Registry!Reap(b)
    <3>1. RowsOf(b) = {}
      BY <1>2, <2>3, ZeroRefs DEF Deletable, IInv, CasInv
    <3>2. reg' = reg \ {b} /\ b \in reg
      BY <1>2, <2>3, NoRowFacts DEF IInv, TypeOK, DbTypeOK, Deletable
    <3> QED
      BY <2>3, <3>1, <3>2 DEF Registry!Reap, Registry!BlocksOf, RowsOf
  <2>4. ASSUME UNCHANGED manifest, \A b \in Blocks : cas'[b].live = cas[b].live
        PROVE  UNCHANGED <<reg, manifest>>
    BY <2>4
  <2> HIDE DEF reg
  <2> QED
    BY <1>2, <2>1, <2>2, <2>3, <2>4, StepKinds DEF Registry!Next
<1> QED
  BY <1>1, <1>2, Invariance, PTL DEF Spec, RegistrySpec, Registry!Spec

=============================================================================
