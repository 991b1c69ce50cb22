----------------------------- MODULE LockProofs -----------------------------
(***************************************************************************)
(* Keys in Redis and who may use them, proved for any number of processes: *)
(* the locks of elections and sweeps (OnlyOwnerUnlocks) and the keys of    *)
(* idempotent requests (ReplaysLatestRun).                                 *)
(*                                                                         *)
(* The argument for locks: no two goroutines have the same token, because  *)
(* a fresh one is had by nobody and tokens are never handed over           *)
(* (OneHolder).                                                            *)
(***************************************************************************)
EXTENDS LeaderGc, Idempotency, FiniteSetTheorems, TLAPS

-----------------------------------------------------------------------------
(* Leases and block locks *)

\* No two goroutines have the same token.
OneHolder ==
    /\ \A p, q \in Pods : el[p].tok = el[q].tok => p = q \/ el[p].tok = NoToken
    /\ \A p, q \in Pods : sw[p].tok = sw[q].tok => p = q \/ sw[p].tok = NoToken
    /\ \A p, q \in Pods : el[p].tok = sw[q].tok => el[p].tok = NoToken

\* From its lock to its unlock, a sweep has a block in hand.
InHand(s) == s.pc \in {"check", "publish", "delete", "unlock"} => s.cur \in Blocks

LeaderInv == /\ LeaderTypeOK
             /\ OneHolder
             /\ \A p \in Pods : InHand(sw[p])

\* What the steps change besides the keys and the pods.
RowsOK == /\ wk \in Worker
          /\ row \in [Blocks -> {"absent", "live", "orphan"}]
          /\ blobs \subseteq Blocks
          /\ tombs \subseteq Blocks
          /\ faults \in 0 .. MaxFaults

\* The values a function takes on a finite set are at most as many.
LEMMA ImageBound ==
    ASSUME NEW S, IsFiniteSet(S), NEW f, NEW T, f \in [S -> T]
    PROVE  LET R == {f[x] : x \in S}
           IN  IsFiniteSet(R) /\ Cardinality(R) <= Cardinality(S)
<1> DEFINE R == {f[x] : x \in S}
<1>1. f \in Surjection(S, R)
  BY DEF Surjection
<1> HIDE DEF R
<1>2. IsFiniteSet(R) /\ Cardinality(R) <= Cardinality(S)
  BY <1>1, FS_Surjection
<1> QED
  BY <1>2 DEF R

\* There is always a token that no key and no goroutine has.
LEMMA TokenIsFresh ==
    ASSUME LeaderTypeOK
    PROVE  /\ FreshToken \in Tokens
           /\ \A r \in Resources : key[r] # FreshToken
           /\ \A p \in Pods : el[p].tok # FreshToken /\ sw[p].tok # FreshToken
<1> DEFINE f == [p \in Pods |-> el[p].tok]
           g == [p \in Pods |-> sw[p].tok]
           A == {key[r] : r \in Resources}
           B == {f[p] : p \in Pods}
           C == {g[p] : p \in Pods}
           T == Tokens \cup {NoToken}
<1>1. key \in [Resources -> T] /\ f \in [Pods -> T] /\ g \in [Pods -> T]
  BY DEF LeaderTypeOK, LockTypeOK, Election, Sweep
<1>2. /\ \A p \in Pods : el[p].tok \in B /\ sw[p].tok \in C
      /\ \A r \in Resources : key[r] \in A
  OBVIOUS
<1> HIDE DEF f, g, T
<1>3. IsFiniteSet(A) /\ Cardinality(A) <= Cardinality(Resources)
  BY <1>1, ImageBound, FreshAssumption
<1>4. IsFiniteSet(B) /\ Cardinality(B) <= Cardinality(Pods)
  BY <1>1, ImageBound, FreshAssumption
<1>5. IsFiniteSet(C) /\ Cardinality(C) <= Cardinality(Pods)
  BY <1>1, ImageBound, FreshAssumption
<1> HIDE DEF A, B, C
<1>6. IsFiniteSet(A \cup B) /\ Cardinality(A \cup B) <= Cardinality(A) + Cardinality(B)
  <2>1. Cardinality(A \cap B) \in Nat
    BY <1>3, FS_Intersection, FS_CardinalityType
  <2>2. Cardinality(A) \in Nat /\ Cardinality(B) \in Nat
    BY <1>3, <1>4, FS_CardinalityType
  <2>3. /\ IsFiniteSet(A \cup B)
        /\ Cardinality(A \cup B) = Cardinality(A) + Cardinality(B) - Cardinality(A \cap B)
    BY <1>3, <1>4, FS_Union
  <2> QED
    BY <2>1, <2>2, <2>3
<1> DEFINE D == A \cup B
<1> HIDE DEF D
<1>7. IsFiniteSet(D \cup C) /\ Cardinality(D \cup C) <= Cardinality(D) + Cardinality(C)
  <2>0. IsFiniteSet(D)
    BY <1>6 DEF D
  <2>1. Cardinality(D \cap C) \in Nat
    BY <2>0, FS_Intersection, FS_CardinalityType
  <2>2. Cardinality(D) \in Nat /\ Cardinality(C) \in Nat
    BY <2>0, <1>5, FS_CardinalityType
  <2> QED
    BY <2>0, <1>5, <2>1, <2>2, FS_Union
<1> DEFINE U == D \cup C
<1>8. ~(Tokens \subseteq U)
  <2> SUFFICES ASSUME Tokens \subseteq U PROVE FALSE
    OBVIOUS
  <2> HIDE DEF U
  <2>1. IsFiniteSet(U) /\ Cardinality(U) <= Cardinality(D) + Cardinality(C)
    BY <1>7 DEF U
  <2>2. IsFiniteSet(Tokens) /\ Cardinality(Tokens) <= Cardinality(U)
    BY <2>1, FS_Subset
  <2>3. Cardinality(Tokens) > Cardinality(Resources) + 2 * Cardinality(Pods)
    BY <2>2, FreshAssumption
  <2>4. /\ Cardinality(D) <= Cardinality(A) + Cardinality(B) /\ IsFiniteSet(D)
    BY <1>6 DEF D
  <2>5. /\ Cardinality(A) \in Nat /\ Cardinality(B) \in Nat /\ Cardinality(C) \in Nat
        /\ Cardinality(D) \in Nat /\ Cardinality(U) \in Nat
        /\ Cardinality(Tokens) \in Nat
        /\ Cardinality(Resources) \in Nat /\ Cardinality(Pods) \in Nat
    BY <1>3, <1>4, <1>5, <2>1, <2>2, <2>4, FreshAssumption, FS_CardinalityType
  <2> QED
    BY <1>3, <1>4, <1>5, <2>1, <2>2, <2>3, <2>4, <2>5
<1>9. PICK t \in Tokens : t \notin U
  BY <1>8
<1>10. /\ \A r \in Resources : key[r] # t
       /\ \A p \in Pods : el[p].tok # t /\ sw[p].tok # t
  BY <1>2, <1>9 DEF D
<1> QED
  BY <1>9, <1>10 DEF FreshToken

\* The scripts write tokens, or nothing, into keys.
LEMMA KeysTyped ==
    ASSUME LockTypeOK, NEW r, NEW t,
           \/ t \in Tokens /\ SetNX(r, t)
           \/ Unlock(r, t) \/ Expires(r) \/ UNCHANGED key
    PROVE  LockTypeOK'
  BY DEF LockTypeOK, SetNX, Unlock, Expires

\* The faults stay within their budget.
LEMMA FaultsTyped ==
    ASSUME faults \in 0 .. MaxFaults, Fault \/ UNCHANGED faults
    PROVE  faults' \in 0 .. MaxFaults
  BY LeaderAssumption DEF Fault

\* Goroutines that only drop tokens leave the others' alone.
LEMMA HoldersShrink ==
    ASSUME OneHolder,
           \A p \in Pods : /\ el'[p].tok \in {el[p].tok, NoToken}
                           /\ sw'[p].tok \in {sw[p].tok, NoToken}
    PROVE  OneHolder'
<1>1. \A p, q \in Pods : el'[p].tok = el'[q].tok => p = q \/ el'[p].tok = NoToken
  BY DEF OneHolder
<1>2. \A p, q \in Pods : sw'[p].tok = sw'[q].tok => p = q \/ sw'[p].tok = NoToken
  BY DEF OneHolder
<1>3. \A p, q \in Pods : el'[p].tok = sw'[q].tok => el'[p].tok = NoToken
  BY DEF OneHolder
<1> QED
  BY <1>1, <1>2, <1>3 DEF OneHolder

\* A step of one election goroutine, and of its pod's sweep when it dies.
LEMMA ElectionKeeps ==
    ASSUME LeaderInv, NEW p \in Pods, NEW e \in Election,
           \/ e.tok \in {el[p].tok, NoToken}
           \/ /\ \A q \in Pods : el[q].tok # e.tok /\ sw[q].tok # e.tok
              /\ UNCHANGED sw,
           el' = [el EXCEPT ![p] = e],
           UNCHANGED sw \/ sw' = [sw EXCEPT ![p] = NoSweep],
           LockTypeOK', RowsOK'
    PROVE  LeaderInv'
<1>1. el \in [Pods -> Election] /\ sw \in [Pods -> Sweep] /\ OneHolder
  BY DEF LeaderInv, LeaderTypeOK
<1>2. NoSweep \in Sweep /\ NoSweep.tok = NoToken /\ InHand(NoSweep)
  BY DEF NoSweep, Sweep, InHand
<1>3. el' \in [Pods -> Election] /\ sw' \in [Pods -> Sweep]
  BY <1>1, <1>2
<1>4. \A q \in Pods : /\ el'[q] = IF q = p THEN e ELSE el[q]
                      /\ sw'[q] \in {sw[q], NoSweep}
  BY <1>1
<1>5. OneHolder'
  <2>1. CASE e.tok \in {el[p].tok, NoToken}
    BY <1>1, <1>2, <1>4, <2>1, HoldersShrink
  <2>2. CASE /\ \A q \in Pods : el[q].tok # e.tok /\ sw[q].tok # e.tok
             /\ UNCHANGED sw
    <3>1. \A q \in Pods : el'[q].tok = IF q = p THEN e.tok ELSE el[q].tok
      BY <1>4
    <3>2. \A q, s \in Pods : el'[q].tok = el'[s].tok => q = s \/ el'[q].tok = NoToken
      BY <1>1, <2>2, <3>1 DEF OneHolder
    <3>3. \A q, s \in Pods : el'[q].tok = sw'[s].tok => el'[q].tok = NoToken
      BY <1>1, <2>2, <3>1 DEF OneHolder
    <3> QED
      BY <1>1, <2>2, <3>2, <3>3 DEF OneHolder
  <2> QED
    BY <2>1, <2>2
<1>6. \A q \in Pods : InHand(sw'[q])
  BY <1>2, <1>4 DEF LeaderInv
<1> QED
  BY <1>3, <1>5, <1>6 DEF LeaderInv, LeaderTypeOK, RowsOK

\* A step of one sweep.
LEMMA SweepKeeps ==
    ASSUME LeaderInv, NEW p \in Pods, NEW s \in Sweep, InHand(s),
           \/ s.tok \in {sw[p].tok, NoToken}
           \/ \A q \in Pods : el[q].tok # s.tok /\ sw[q].tok # s.tok,
           sw' = [sw EXCEPT ![p] = s], UNCHANGED el, LockTypeOK', RowsOK'
    PROVE  LeaderInv'
<1>1. el \in [Pods -> Election] /\ sw \in [Pods -> Sweep] /\ OneHolder
  BY DEF LeaderInv, LeaderTypeOK
<1>2. el' \in [Pods -> Election] /\ sw' \in [Pods -> Sweep]
  BY <1>1
<1>3. \A q \in Pods : sw'[q] = (IF q = p THEN s ELSE sw[q]) /\ el'[q] = el[q]
  BY <1>1
<1>4. OneHolder'
  <2>1. CASE s.tok \in {sw[p].tok, NoToken}
    BY <1>1, <1>3, <2>1, HoldersShrink
  <2>2. CASE \A q \in Pods : el[q].tok # s.tok /\ sw[q].tok # s.tok
    <3>1. \A q \in Pods : sw'[q].tok = (IF q = p THEN s.tok ELSE sw[q].tok)
                          /\ el'[q].tok = el[q].tok
      BY <1>3
    <3>2. \A q, o \in Pods : sw'[q].tok = sw'[o].tok => q = o \/ sw'[q].tok = NoToken
      BY <1>1, <2>2, <3>1 DEF OneHolder
    <3>3. \A q, o \in Pods : el'[q].tok = sw'[o].tok => el'[q].tok = NoToken
      BY <1>1, <2>2, <3>1 DEF OneHolder
    <3> QED
      BY <1>1, <3>1, <3>2, <3>3 DEF OneHolder
  <2> QED
    BY <2>1, <2>2
<1>5. \A q \in Pods : InHand(sw'[q])
  BY <1>3 DEF LeaderInv
<1> QED
  BY <1>2, <1>4, <1>5 DEF LeaderInv, LeaderTypeOK, RowsOK

\* Every step of an election keeps the invariant.
LEMMA ElectionInv ==
    ASSUME LeaderInv, NEW p \in Pods,
           ElectionStep(p) \/ RenewFails(p) \/ Resign(p) \/ Crash(p)
    PROVE  LeaderInv'
<1> DEFINE gone == [el[p] EXCEPT !.tok = NoToken]
           down == [pc |-> "down", tok |-> NoToken]
           to(k) == [el[p] EXCEPT !.pc = k]
<1>0. /\ LockTypeOK /\ RowsOK /\ el \in [Pods -> Election] /\ el[p] \in Election
      /\ LeaderTypeOK
  BY DEF LeaderInv, LeaderTypeOK, RowsOK
<1>1. ASSUME UNCHANGED <<wk, row, blobs, tombs>>, Fault \/ UNCHANGED faults
      PROVE  RowsOK'
  BY <1>0, <1>1, FaultsTyped DEF RowsOK
<1>2. gone \in Election /\ gone.tok = NoToken
  BY <1>0 DEF Election
<1>3. down \in Election /\ down.tok = NoToken /\ NoElection \in Election
      /\ NoElection.tok = NoToken
  BY DEF Election, NoElection
<1>4. \A k \in {"resigned", "down"} : to(k) \in Election /\ to(k).tok = el[p].tok
  BY <1>0 DEF Election
<1>5. CASE Renew(p) \/ RenewFails(p)
  <2>1. /\ el' = [el EXCEPT ![p] = gone] /\ UNCHANGED <<key, sw, wk, row, blobs, tombs>>
        /\ (Fault \/ UNCHANGED faults)
    BY <1>0, <1>5 DEF Renew, RenewFails
  <2>2. LockTypeOK'
    BY <1>0, <2>1 DEF LockTypeOK
  <2> HIDE DEF gone
  <2> QED
    BY <1>1, <1>2, <2>1, <2>2, ElectionKeeps
<1>6. CASE Campaign(p)
  <2> DEFINE e == [el[p] EXCEPT !.tok = FreshToken]
  <2>1. /\ FreshToken \in Tokens /\ SetNX(LeaderKey, FreshToken)
        /\ \A q \in Pods : el[q].tok # FreshToken /\ sw[q].tok # FreshToken
    BY <1>0, <1>6, TokenIsFresh DEF Campaign
  <2>2. LockTypeOK'
    BY <1>0, <2>1, KeysTyped
  <2>3. e \in Election /\ e.tok = FreshToken
    BY <1>0, <2>1 DEF Election
  <2>4. /\ UNCHANGED <<sw, wk, row, blobs, tombs>> /\ (Fault \/ UNCHANGED faults)
        /\ el' = [el EXCEPT ![p] = e] \/ el' = [el EXCEPT ![p] = el[p]]
    BY <1>0, <1>6 DEF Campaign
  <2>5. RowsOK'
    BY <1>1, <2>4
  <2> HIDE DEF e
  <2>6. CASE el' = [el EXCEPT ![p] = e]
    BY <2>1, <2>2, <2>3, <2>4, <2>5, <2>6, ElectionKeeps
  <2>7. CASE el' = [el EXCEPT ![p] = el[p]]
    BY <1>0, <2>2, <2>4, <2>5, <2>7, ElectionKeeps
  <2> QED
    BY <2>4, <2>6, <2>7
<1>7. CASE Resign(p)
  <2>1. /\ el' = [el EXCEPT ![p] = to("resigned")] \/ el' = [el EXCEPT ![p] = to("down")]
        /\ UNCHANGED <<sw, wk, row, blobs, tombs>> /\ Fault
        /\ Unlock(LeaderKey, el[p].tok) \/ UNCHANGED key
    BY <1>0, <1>7 DEF Resign
  <2>2. LockTypeOK'
    BY <1>0, <2>1, KeysTyped
  <2> HIDE DEF to
  <2> QED
    BY <1>1, <1>4, <2>1, <2>2, ElectionKeeps
<1>8. CASE Resigned(p) \/ Crash(p)
  <2>1. /\ el' = [el EXCEPT ![p] = down] /\ UNCHANGED <<key, wk, row, blobs, tombs>>
        /\ (Fault \/ UNCHANGED faults)
        /\ UNCHANGED sw \/ sw' = [sw EXCEPT ![p] = NoSweep]
    BY <1>8 DEF Resigned, Crash
  <2>2. LockTypeOK'
    BY <1>0, <2>1 DEF LockTypeOK
  <2> HIDE DEF down
  <2> QED
    BY <1>1, <1>3, <2>1, <2>2, ElectionKeeps
<1>9. CASE StartCampaign(p)
  <2>1. /\ el' = [el EXCEPT ![p] = NoElection]
        /\ UNCHANGED <<key, sw, wk, row, blobs, tombs, faults>>
    BY <1>9 DEF StartCampaign
  <2>2. LockTypeOK'
    BY <1>0, <2>1 DEF LockTypeOK
  <2> QED
    BY <1>1, <1>3, <2>1, <2>2, ElectionKeeps
<1> QED
  BY <1>5, <1>6, <1>7, <1>8, <1>9 DEF ElectionStep

\* Every step of a sweep keeps the invariant.
LEMMA SweepInv ==
    ASSUME LeaderInv, NEW p \in Pods, RunLeaderSweep(p) \/ SweepStep(p)
    PROVE  LeaderInv'
<1> DEFINE to(k) == [sw[p] EXCEPT !.pc = k]
<1>0. /\ LockTypeOK /\ RowsOK /\ sw \in [Pods -> Sweep] /\ sw[p] \in Sweep
      /\ LeaderTypeOK /\ InHand(sw[p])
  BY DEF LeaderInv, LeaderTypeOK, RowsOK
<1>1. ASSUME UNCHANGED <<wk, row, blobs, tombs>>, Fault \/ UNCHANGED faults
      PROVE  RowsOK'
  BY <1>0, <1>1, FaultsTyped DEF RowsOK
<1>2. UNCHANGED key => LockTypeOK'
  BY <1>0 DEF LockTypeOK
<1>3. \A k \in {"idle", "find", "lock", "check", "publish", "delete", "unlock"} :
         /\ to(k) \in Sweep /\ to(k).tok = sw[p].tok
         /\ to(k).pc = k /\ to(k).cur = sw[p].cur
  BY <1>0 DEF Sweep
<1>4. \A b : /\ Next(sw[p], b) \in Sweep /\ Next(sw[p], b).tok = NoToken
             /\ InHand(Next(sw[p], b))
  BY <1>0 DEF Next, Sweep, NoSweep, InHand
<1>5. ASSUME NEW k \in {"idle", "find", "lock", "check", "publish", "delete", "unlock"},
             k \in {"publish", "delete", "unlock"} =>
                 sw[p].pc \in {"check", "publish", "delete"},
             k # "check", SweepAt(p, k), UNCHANGED <<key, el>>, RowsOK'
      PROVE  LeaderInv'
  <2>1. sw' = [sw EXCEPT ![p] = to(k)]
    BY <1>0, <1>5 DEF SweepAt
  <2> HIDE DEF to
  <2>2. InHand(to(k))
    BY <1>0, <1>3, <1>5 DEF InHand
  <2> QED
    BY <1>2, <1>3, <1>5, <2>1, <2>2, SweepKeeps
<1>6. CASE RunLeaderSweep(p) \/ DoubleCheckBlock(p)
  BY <1>1, <1>5, <1>6 DEF RunLeaderSweep, DoubleCheckBlock
<1>7. CASE FindOrphanedBlocks(p)
  <2> DEFINE s == [sw[p] EXCEPT !.todo = Orphans, !.pc = IF Orphans = {} THEN "idle" ELSE "lock"]
  <2>1. /\ UNCHANGED <<key, el, wk, row, blobs, tombs>> /\ (Fault \/ UNCHANGED faults)
        /\ SweepAt(p, "idle") \/ sw' = [sw EXCEPT ![p] = s]
    BY <1>0, <1>7 DEF FindOrphanedBlocks
  <2>2. Orphans \subseteq Blocks
    BY DEF Orphans
  <2>3. s \in Sweep /\ s.tok = sw[p].tok /\ s.pc \in {"idle", "lock"}
    BY <1>0, <2>2 DEF Sweep
  <2>4. RowsOK' /\ LockTypeOK'
    BY <1>1, <1>2, <2>1
  <2> HIDE DEF s
  <2>5. InHand(s)
    BY <2>3 DEF InHand
  <2>6. CASE SweepAt(p, "idle")
    BY <1>5, <2>1, <2>4, <2>6
  <2>7. CASE sw' = [sw EXCEPT ![p] = s]
    BY <2>1, <2>3, <2>4, <2>5, <2>7, SweepKeeps
  <2> QED
    BY <2>1, <2>6, <2>7
<1>8. ASSUME NEW b \in Blocks, LockBlock(p, b) PROVE LeaderInv'
  <2> DEFINE s == [sw[p] EXCEPT !.pc = "check", !.cur = b, !.tok = FreshToken]
  <2>1. /\ FreshToken \in Tokens
        /\ \A q \in Pods : el[q].tok # FreshToken /\ sw[q].tok # FreshToken
    BY <1>0, TokenIsFresh
  <2>2. /\ UNCHANGED <<el, wk, row, blobs, tombs>> /\ (Fault \/ UNCHANGED faults)
        /\ SetNX(b, FreshToken) \/ UNCHANGED key
        /\ sw' = [sw EXCEPT ![p] = s] \/ sw' = [sw EXCEPT ![p] = Next(sw[p], b)]
    BY <1>0, <1>8 DEF LockBlock
  <2>3. s \in Sweep /\ s.tok = FreshToken /\ s.cur = b
    BY <1>0, <2>1 DEF Sweep
  <2>4. LockTypeOK'
    BY <1>0, <2>1, <2>2, KeysTyped
  <2>5. RowsOK'
    BY <1>1, <2>2
  <2> HIDE DEF s
  <2>6. InHand(s)
    BY <2>3 DEF InHand
  <2>7. CASE sw' = [sw EXCEPT ![p] = s]
    BY <2>1, <2>2, <2>3, <2>4, <2>5, <2>6, <2>7, SweepKeeps
  <2>8. CASE sw' = [sw EXCEPT ![p] = Next(sw[p], b)]
    BY <1>4, <2>2, <2>4, <2>5, <2>8, SweepKeeps
  <2> QED
    BY <2>2, <2>7, <2>8
<1>9. CASE PublishTombstone(p)
  <2>1. /\ UNCHANGED <<key, el, wk, row, blobs>> /\ SweepAt(p, "delete")
        /\ sw[p].pc = "publish" /\ (Fault \/ UNCHANGED faults)
        /\ tombs' \in {tombs, tombs \cup {sw[p].cur}}
    BY <1>9 DEF PublishTombstone, PublishBlockTombstone
  <2>2. sw[p].cur \in Blocks
    BY <1>0, <2>1 DEF InHand
  <2>3. RowsOK'
    BY <1>0, <2>1, <2>2, FaultsTyped DEF RowsOK
  <2> QED
    BY <1>5, <2>1, <2>3
<1>10. CASE HardDeleteBlock(p)
  <2>1. /\ UNCHANGED <<key, el, wk, blobs, tombs>> /\ SweepAt(p, "unlock")
        /\ sw[p].pc = "delete" /\ (Fault \/ UNCHANGED faults)
        /\ row' = AfterDelete({sw[p].cur}) \/ UNCHANGED row
    BY <1>10 DEF HardDeleteBlock
  <2>2. RowsOK'
    BY <1>0, <2>1, FaultsTyped DEF RowsOK, AfterDelete
  <2> QED
    BY <1>5, <2>1, <2>2
<1>11. CASE UnlockBlock(p)
  <2>1. /\ UNCHANGED <<el, wk, row, blobs, tombs>> /\ (Fault \/ UNCHANGED faults)
        /\ Unlock(sw[p].cur, sw[p].tok) \/ UNCHANGED key
        /\ sw' = [sw EXCEPT ![p] = Next(sw[p], sw[p].cur)]
    BY <1>11 DEF UnlockBlock
  <2>2. LockTypeOK'
    BY <1>0, <2>1, KeysTyped
  <2>3. RowsOK'
    BY <1>1, <2>1
  <2> QED
    BY <1>4, <2>1, <2>2, <2>3, SweepKeeps
<1> QED
  BY <1>6, <1>7, <1>8, <1>9, <1>10, <1>11 DEF SweepStep

\* Every step of the sweeps, of the registry's worker and of commits keeps the
\* invariant.
LEMMA LeaderNextInv == LeaderInv /\ [LeaderNext]_leaderVars => LeaderInv'
<1> SUFFICES ASSUME LeaderInv, [LeaderNext]_leaderVars PROVE LeaderInv'
  OBVIOUS
<1>0. LockTypeOK /\ RowsOK
  BY DEF LeaderInv, LeaderTypeOK, RowsOK
<1>1. ASSUME UNCHANGED <<el, sw>>, LockTypeOK', RowsOK' PROVE LeaderInv'
  <2>1. LeaderTypeOK'
    BY <1>1 DEF LeaderInv, LeaderTypeOK, RowsOK
  <2>2. OneHolder' /\ \A p \in Pods : InHand(sw'[p])
    BY <1>1 DEF LeaderInv, OneHolder
  <2> QED
    BY <1>1, <2>1, <2>2 DEF LeaderInv
<1>2. UNCHANGED key => LockTypeOK'
  BY <1>0 DEF LockTypeOK
<1>3. ASSUME NEW p \in Pods,
             \/ ElectionStep(p) \/ RenewFails(p) \/ Resign(p)
             \/ Crash(p) \/ RunLeaderSweep(p) \/ SweepStep(p)
      PROVE  LeaderInv'
  BY <1>3, ElectionInv, SweepInv
<1>4. ASSUME NEW r \in Resources, Lapse(r) PROVE LeaderInv'
  <2>1. /\ Expires(r) /\ UNCHANGED <<el, sw, wk, row, blobs, tombs>>
        /\ (Fault \/ UNCHANGED faults)
    BY <1>4 DEF Lapse
  <2>2. LockTypeOK'
    BY <1>0, <2>1, KeysTyped
  <2>3. RowsOK'
    BY <1>0, <2>1, FaultsTyped DEF RowsOK
  <2> QED
    BY <1>1, <2>1, <2>2, <2>3
<1>5. CASE WorkerStep
  <2>1. UNCHANGED <<key, el, sw, tombs>> /\ (Fault \/ UNCHANGED faults)
    BY <1>5 DEF WorkerStep, FindOrphans, DeleteBlocks, WorkerDeleteBlob
  <2>2. wk' \in Worker
    <3>1. CASE FindOrphans \/ DeleteBlocks
      BY <3>1 DEF FindOrphans, DeleteBlocks, Worker, NoWorker, Orphans
    <3>2. ASSUME NEW b \in Blocks, WorkerDeleteBlob(b) PROVE wk' \in Worker
      BY <1>0, <3>2 DEF WorkerDeleteBlob, Worker, RowsOK
    <3> QED
      BY <1>5, <3>1, <3>2 DEF WorkerStep
  <2>3. row' \in [Blocks -> {"absent", "live", "orphan"}] /\ blobs' \subseteq Blocks
    BY <1>0, <1>5
    DEF WorkerStep, FindOrphans, DeleteBlocks, WorkerDeleteBlob, RowsOK, AfterDelete
  <2>4. RowsOK'
    BY <1>0, <2>1, <2>2, <2>3, FaultsTyped DEF RowsOK
  <2> QED
    BY <1>1, <1>2, <2>1, <2>4
<1>6. ASSUME NEW b \in Blocks, Reference(b) \/ Unreference(b) PROVE LeaderInv'
  <2>1. UNCHANGED <<key, el, sw, wk, tombs, faults>>
    BY <1>6 DEF Reference, Unreference
  <2>2. row' \in [Blocks -> {"absent", "live", "orphan"}] /\ blobs' \subseteq Blocks
    BY <1>0, <1>6 DEF Reference, Unreference, RowsOK
  <2>3. RowsOK'
    BY <1>0, <2>1, <2>2 DEF RowsOK
  <2> QED
    BY <1>1, <1>2, <2>1, <2>3
<1>7. CASE UNCHANGED leaderVars
  <2>1. RowsOK'
    BY <1>0, <1>7 DEF leaderVars, RowsOK
  <2> QED
    BY <1>1, <1>2, <1>7, <2>1 DEF leaderVars
<1> QED
  BY <1>3, <1>4, <1>5, <1>6, <1>7 DEF LeaderNext

\* Every token has one owner: the invariant of elections and sweeps holds in
\* every reachable state, types included.
THEOREM LeaderInvariance == LeaderSpec => []LeaderInv
<1>1. LeaderInit => LeaderInv
  <2> SUFFICES ASSUME LeaderInit PROVE LeaderInv
    OBVIOUS
  <2>1. NoElection \in Election /\ NoSweep \in Sweep /\ NoWorker \in Worker
    BY DEF NoElection, Election, NoSweep, Sweep, NoWorker, Worker
  <2>2. \A p \in Pods : el[p] = NoElection /\ sw[p] = NoSweep
    BY DEF LeaderInit
  <2>3. LeaderTypeOK
    BY <2>1, LeaderAssumption DEF LeaderInit, LeaderTypeOK, LockInit, LockTypeOK
  <2>4. OneHolder /\ \A p \in Pods : InHand(sw[p])
    <3>1. \A p \in Pods : el[p].tok = NoToken /\ sw[p].tok = NoToken /\ sw[p].pc = "idle"
      BY <2>2 DEF NoElection, NoSweep
    <3> QED
      BY <3>1 DEF OneHolder, InHand
  <2> QED
    BY <2>3, <2>4 DEF LeaderInv
<1> QED
  BY <1>1, LeaderNextInv, PTL DEF LeaderSpec

\* OnlyOwnerUnlocks: a key with a token disappears by its TTL or by a step of
\* the one goroutine that has the token.
THEOREM OwnersUnlock == LeaderSpec => OnlyOwnerUnlocks
<1>1. ASSUME LeaderInv, LeaderNext, NEW r \in Resources, key[r] \notin {NoToken, key'[r]}
      PROVE  \/ Lapse(r)
             \/ \E p \in Pods : /\ HoldsToken(p, key[r])
                                /\ <<el[p], sw[p]>>' # <<el[p], sw[p]>>
  <2>0. /\ el \in [Pods -> Election] /\ sw \in [Pods -> Sweep]
        /\ key \in [Resources -> Tokens \cup {NoToken}]
    BY <1>1 DEF LeaderInv, LeaderTypeOK, LockTypeOK
  <2>1. ASSUME NEW s, NEW t, SetNX(s, t) PROVE FALSE
    BY <1>1, <2>0, <2>1 DEF SetNX
  <2>2. ASSUME NEW s, NEW t, Unlock(s, t) PROVE key[r] = t
    BY <1>1, <2>0, <2>2 DEF Unlock
  <2>3. key' # key
    BY <1>1
  <2>4. ASSUME NEW p \in Pods, Resign(p)
        PROVE  HoldsToken(p, key[r]) /\ el'[p] # el[p]
    <3>1. el[p].pc = "run" /\ Unlock(LeaderKey, el[p].tok) /\ el'[p].pc = "resigned"
      BY <2>0, <2>3, <2>4 DEF Resign, Election
    <3> QED
      BY <2>2, <3>1 DEF HoldsToken
  <2>5. ASSUME NEW p \in Pods, UnlockBlock(p)
        PROVE  HoldsToken(p, key[r]) /\ sw'[p] # sw[p]
    <3>1. /\ sw[p].pc = "unlock" /\ Unlock(sw[p].cur, sw[p].tok)
          /\ sw'[p] = Next(sw[p], sw[p].cur)
      BY <2>0, <2>3, <2>5 DEF UnlockBlock
    <3>2. Next(sw[p], sw[p].cur).pc \in {"idle", "lock"}
      BY DEF Next, NoSweep
    <3> QED
      BY <2>2, <3>1, <3>2 DEF HoldsToken
  <2>6. ASSUME NEW s \in Resources, Lapse(s) PROVE Lapse(r)
    BY <1>1, <2>0, <2>6 DEF Lapse, Expires
  <2>7. ASSUME NEW p \in Pods, ElectionStep(p) PROVE FALSE
    BY <2>1, <2>3, <2>7 DEF ElectionStep, Renew, Campaign, Resigned, StartCampaign
  <2>8. ASSUME NEW p \in Pods, RenewFails(p) \/ Crash(p) \/ RunLeaderSweep(p) PROVE FALSE
    BY <2>3, <2>8 DEF RenewFails, Crash, RunLeaderSweep
  <2>9. ASSUME NEW p \in Pods, SweepStep(p) PROVE UnlockBlock(p)
    <3>1. ASSUME NEW b \in Blocks, LockBlock(p, b) PROVE FALSE
      BY <2>1, <2>3, <3>1 DEF LockBlock
    <3> QED
      BY <2>3, <2>9, <3>1
      DEF SweepStep, FindOrphanedBlocks, DoubleCheckBlock, PublishTombstone, HardDeleteBlock
  <2>10. ~WorkerStep /\ \A b \in Blocks : ~Reference(b) /\ ~Unreference(b)
    BY <2>3
    DEF WorkerStep, FindOrphans, DeleteBlocks, WorkerDeleteBlob, Reference, Unreference
  <2> QED
    BY <1>1, <2>4, <2>5, <2>6, <2>7, <2>8, <2>9, <2>10 DEF LeaderNext
<1>2. LeaderInv /\ [LeaderNext]_leaderVars =>
        [\A r \in Resources : key[r] \notin {NoToken, key'[r]} =>
            \/ Lapse(r)
            \/ \E p \in Pods : /\ HoldsToken(p, key[r])
                               /\ <<el[p], sw[p]>>' # <<el[p], sw[p]>>]_leaderVars
  BY <1>1
<1> QED
  BY <1>2, LeaderInvariance, PTL DEF LeaderSpec, OnlyOwnerUnlocks

-----------------------------------------------------------------------------
(* Idempotency keys *)

\* While no handler has outlived its key: an execution that owns the key holds
\* it IN_PROGRESS under its own number, and no other owns it.
KeyOwned ==
    /\ slot.state # "free" => slot.run = fenced
    /\ \A r \in Requests : hreq[r].own => /\ slot.state = "IN_PROGRESS"
                                          /\ slot.run = hreq[r].run
    /\ \A r, q \in Requests : hreq[r].own /\ hreq[q].own => r = q

IdemInv == /\ IdemTypeOK
           /\ \A r \in Requests : hreq[r].pc = "set" => hreq[r].own
           /\ ~outlived => KeyOwned

\* One request moves on and no longer owns the key, or did not before.
LEMMA KeyStep ==
    ASSUME NEW r \in Requests, NEW x \in HReq, hreq \in [Requests -> HReq], KeyOwned,
           hreq' = [hreq EXCEPT ![r] = x],
           slot' = slot, fenced' = fenced,
           x.own => hreq[r].own /\ x.run = hreq[r].run
    PROVE  KeyOwned'
BY DEF KeyOwned

\* Every step of the middleware, of a handler or of the key's expiry keeps the
\* invariant.
LEMMA IdemNextInv == IdemInv /\ [IdemNext]_idemVars => IdemInv'
<1> SUFFICES ASSUME IdemInv, [IdemNext]_idemVars PROVE IdemInv'
  OBVIOUS
<1>0. /\ slot \in Slot /\ hreq \in [Requests -> HReq] /\ runs \in Nat
      /\ fenced \in Nat /\ outlived \in BOOLEAN
      /\ \A r \in Requests : hreq[r].pc = "set" => hreq[r].own
      /\ ~outlived => KeyOwned
  BY DEF IdemInv, IdemTypeOK
<1>1. NoHReq \in HReq /\ NoHReq.pc = "idle" /\ ~NoHReq.own
  BY DEF NoHReq, HReq
<1>2. Free \in Slot /\ Free.state = "free"
  BY DEF Free, Slot
<1>3. ASSUME NEW r \in Requests, NEW x \in HReq, hreq' = [hreq EXCEPT ![r] = x],
             x.pc = "set" => x.own,
             slot' \in Slot, runs' \in Nat, fenced' \in Nat, outlived' \in BOOLEAN,
             ~outlived' => KeyOwned'
      PROVE  IdemInv'
  <2>1. IdemTypeOK'
    BY <1>0, <1>3 DEF IdemTypeOK
  <2>2. \A q \in Requests : hreq'[q].pc = "set" => hreq'[q].own
    BY <1>0, <1>3
  <2> QED
    BY <1>3, <2>1, <2>2 DEF IdemInv
<1>4. ASSUME NEW r \in Requests, NEW x \in HReq, hreq' = [hreq EXCEPT ![r] = x],
             x.pc = "set" => x.own,
             x.own => hreq[r].own /\ x.run = hreq[r].run,
             slot' = slot, fenced' = fenced, runs' \in Nat, outlived' = outlived
      PROVE  IdemInv'
  <2>1. ~outlived' => KeyOwned'
    BY <1>0, <1>4, KeyStep
  <2> QED
    BY <1>0, <1>3, <1>4, <2>1
<1>5. ASSUME NEW r \in Requests, Arrive(r) PROVE IdemInv'
  <2> DEFINE x == [hreq[r] EXCEPT !.pc = "fence"]
  <2>1. /\ x \in HReq /\ x.pc = "fence" /\ x.own = hreq[r].own
        /\ x.run = hreq[r].run
    BY <1>0 DEF HReq
  <2>2. hreq' = [hreq EXCEPT ![r] = x] /\ UNCHANGED <<slot, runs, fenced, outlived>>
    BY <1>0, <1>5 DEF Arrive
  <2> HIDE DEF x
  <2> QED
    BY <1>0, <1>4, <2>1, <2>2
<1>6. ASSUME NEW r \in Requests, Fence(r) PROVE IdemInv'
  <2> DEFINE won == [pc |-> "next", run |-> runs + 1, own |-> TRUE]
             unfenced == [pc |-> "next", run |-> runs + 1, own |-> FALSE]
             get == [hreq[r] EXCEPT !.pc = "get"]
             taken == [state |-> "IN_PROGRESS", run |-> runs + 1]
  <2>1. /\ won \in HReq /\ won.pc = "next" /\ won.own /\ won.run = runs + 1
        /\ unfenced \in HReq /\ unfenced.pc = "next" /\ ~unfenced.own
    BY <1>0 DEF HReq
  <2>2. /\ get \in HReq /\ get.pc = "get" /\ get.own = hreq[r].own
        /\ get.run = hreq[r].run
    BY <1>0 DEF HReq
  <2>3. taken \in Slot /\ taken.state = "IN_PROGRESS" /\ taken.run = runs + 1
    BY <1>0 DEF Slot
  <2>4. /\ UNCHANGED outlived
        /\ \/ /\ slot.state = "free" /\ hreq' = [hreq EXCEPT ![r] = won]
              /\ runs' = runs + 1 /\ slot' = taken /\ fenced' = runs + 1
           \/ /\ hreq' = [hreq EXCEPT ![r] = get]
              /\ UNCHANGED <<slot, runs, fenced>>
           \/ /\ hreq' = [hreq EXCEPT ![r] = unfenced]
              /\ runs' = runs + 1 /\ UNCHANGED <<slot, fenced>>
    BY <1>0, <1>6 DEF Fence, Execute
  <2> HIDE DEF won, unfenced, get, taken
  <2>5. CASE slot.state = "free" /\ hreq' = [hreq EXCEPT ![r] = won]
             /\ runs' = runs + 1 /\ slot' = taken /\ fenced' = runs + 1
    <3>1. ~outlived => \A q \in Requests : ~hreq[q].own
      BY <1>0, <2>5 DEF KeyOwned
    <3>2. \A q \in Requests : hreq'[q] = IF q = r THEN won ELSE hreq[q]
      BY <1>0, <2>5
    <3>3. ~outlived => KeyOwned'
      BY <2>1, <2>3, <2>5, <3>1, <3>2 DEF KeyOwned
    <3>4. slot' \in Slot /\ runs' \in Nat /\ fenced' \in Nat
      BY <1>0, <2>3, <2>5
    <3> QED
      BY <1>0, <1>3, <2>1, <2>4, <2>5, <3>3, <3>4
  <2>6. CASE hreq' = [hreq EXCEPT ![r] = get] /\ UNCHANGED <<slot, runs, fenced>>
    BY <1>0, <1>4, <2>2, <2>4, <2>6
  <2>7. CASE hreq' = [hreq EXCEPT ![r] = unfenced]
             /\ runs' = runs + 1 /\ UNCHANGED <<slot, fenced>>
    <3>1. runs' \in Nat
      BY <1>0, <2>7
    <3> QED
      BY <1>4, <2>1, <2>4, <2>7, <3>1
  <2> QED
    BY <2>4, <2>5, <2>6, <2>7
<1>7. ASSUME NEW r \in Requests, Replay(r) \/ Die(r) PROVE IdemInv'
  <2>1. hreq' = [hreq EXCEPT ![r] = NoHReq] /\ UNCHANGED <<slot, runs, fenced, outlived>>
    BY <1>7 DEF Replay, Die
  <2> QED
    BY <1>0, <1>1, <1>4, <2>1
<1>8. ASSUME NEW r \in Requests, Handled(r) PROVE IdemInv'
  <2> DEFINE x == [hreq[r] EXCEPT !.pc = "set"]
  <2>1. x \in HReq /\ x.own = hreq[r].own /\ x.run = hreq[r].run
    BY <1>0 DEF HReq
  <2>2. /\ \/ hreq[r].own /\ hreq' = [hreq EXCEPT ![r] = x]
           \/ hreq' = [hreq EXCEPT ![r] = NoHReq]
        /\ UNCHANGED <<slot, runs, fenced, outlived>>
    BY <1>0, <1>8 DEF Handled
  <2> HIDE DEF x
  <2> QED
    BY <1>0, <1>1, <1>4, <2>1, <2>2
<1>9. ASSUME NEW r \in Requests, Record(r) PROVE IdemInv'
  <2> DEFINE answer == [state |-> "cached", run |-> hreq[r].run]
  <2>1. answer \in Slot /\ answer.state = "cached" /\ answer.run = hreq[r].run
    BY <1>0 DEF Slot, HReq
  <2>2. /\ hreq[r].own /\ hreq' = [hreq EXCEPT ![r] = NoHReq]
        /\ slot' = answer \/ slot' = slot
        /\ UNCHANGED <<runs, fenced, outlived>>
    BY <1>0, <1>9 DEF Record
  <2> HIDE DEF answer
  <2>3. CASE slot' = slot
    BY <1>0, <1>1, <1>4, <2>2, <2>3
  <2>4. CASE slot' = answer
    <3>1. \A q \in Requests : hreq'[q] = IF q = r THEN NoHReq ELSE hreq[q]
      BY <1>0, <2>2
    <3>2. ~outlived => answer.run = fenced /\ \A q \in Requests : ~hreq'[q].own
      BY <1>0, <1>1, <2>1, <2>2, <3>1 DEF KeyOwned
    <3>3. ~outlived' => KeyOwned'
      BY <2>2, <2>4, <3>2 DEF KeyOwned
    <3> QED
      BY <1>0, <1>1, <1>3, <2>1, <2>2, <2>4, <3>3
  <2> QED
    BY <2>2, <2>3, <2>4
<1>10. CASE KeyExpires
  <2>1. /\ slot' = Free /\ outlived' = (outlived \/ Running)
        /\ UNCHANGED <<hreq, runs, fenced>>
    BY <1>10 DEF KeyExpires
  <2>2. outlived' \in BOOLEAN
    BY <1>0, <2>1 DEF Running
  <2>3. ~outlived' => KeyOwned'
    BY <1>2, <2>1 DEF Running, KeyOwned
  <2> QED
    BY <1>0, <1>2, <2>1, <2>2, <2>3 DEF IdemInv, IdemTypeOK
<1>11. CASE UNCHANGED idemVars
  BY <1>11 DEF idemVars, IdemInv, IdemTypeOK, KeyOwned
<1> QED
  BY <1>5, <1>6, <1>7, <1>8, <1>9, <1>10, <1>11 DEF IdemNext

\* The invariant of the middleware holds in every reachable state.
THEOREM IdemInvariance == IdemSpec => []IdemInv
<1>1. IdemInit => IdemInv
  <2> SUFFICES ASSUME IdemInit PROVE IdemInv
    OBVIOUS
  <2>1. /\ Free \in Slot /\ Free.state = "free"
        /\ NoHReq \in HReq /\ NoHReq.pc = "idle" /\ ~NoHReq.own
    BY DEF Free, Slot, NoHReq, HReq
  <2>2. IdemTypeOK
    BY <2>1 DEF IdemInit, IdemTypeOK
  <2>3. \A r \in Requests : hreq[r] = NoHReq
    BY DEF IdemInit
  <2>4. KeyOwned
    BY <2>1, <2>3 DEF IdemInit, KeyOwned
  <2> QED
    BY <2>1, <2>2, <2>3, <2>4 DEF IdemInv
<1> QED
  BY <1>1, IdemNextInv, PTL DEF IdemSpec

\* ReplaysLatestRun: for any number of requests, retries, dying handlers and
\* expiring keys, one execution at a time runs under a key it has not outlived,
\* and a replayed answer is that of the last execution that won it.
THEOREM RepliesCurrent == IdemSpec => []ReplaysLatestRun
<1>1. IdemInv => ReplaysLatestRun
  BY DEF IdemInv, KeyOwned, ReplaysLatestRun
<1> QED
  BY <1>1, IdemInvariance, PTL

=============================================================================
