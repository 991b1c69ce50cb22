-------------------------- MODULE CacheTokenProofs --------------------------
(***************************************************************************)
(* What a process keeps in its own memory: the listing cache               *)
(* (InvalidationImmediate) and the upload tokens with their nonces and     *)
(* keys (SingleUse, TokensOutliveRotation), proved for any number of       *)
(* readers and mutators, and of tokens, validators, rotations and          *)
(* restarts.                                                               *)
(*                                                                         *)
(* The argument for the cache: acked changes only when the generation      *)
(* does, so while a generation is live, what is loaded for it is at least  *)
(* as new as every acknowledged move (LiveFresh), and a reader that holds  *)
(* a generation, live or not, meets nothing older than its own floor there *)
(* (HeldFresh).                                                            *)
(*                                                                         *)
(* The argument for SingleUse: an expiry is at most one TTL ahead, so the  *)
(* entry Consume makes outlives the token's last valid moment (Kept).  The *)
(* entry is lost only in a restart, after which the token's key is unknown *)
(* and no validation of it reaches Consume (KeyHeld).                      *)
(***************************************************************************)
EXTENDS NamespaceCache, UploadTokens, TLAPS

-----------------------------------------------------------------------------
(* The listing cache *)

\* A read that has a generation and is about to use it.
Holding == {"get", "join", "load", "set", "share", "wait"}

\* Only a finished load has a value.
ValShape == \A r \in Readers :
               rd[r].pc \notin {"set", "share", "done"} => rd[r].val = None

\* Acknowledged moves are committed, and so are those still to be bumped.
AckedCommitted == /\ acked <= row
                  /\ \A w \in Writers : wr[w].moved # None => wr[w].moved <= row

ReadsPast == \A r \in Readers : rd[r].floor <= acked /\ rd[r].g <= gen

FutureEmpty == gen \in Gens /\ \A g \in Gens : g > gen => entry[g] = None

LiveFresh ==
    /\ entry[gen] # None => entry[gen] >= acked
    /\ \A r \in Readers : rd[r].val # None /\ rd[r].g = gen => rd[r].val >= acked

HeldFresh ==
    \A y \in Readers : rd[y].pc \in Holding =>
        /\ entry[rd[y].g] # None => entry[rd[y].g] >= rd[y].floor
        /\ \A x \in Readers :
              rd[x].val # None /\ rd[x].g = rd[y].g => rd[x].val >= rd[y].floor

CacheInv == /\ CacheTypeOK /\ ValShape /\ AckedCommitted /\ ReadsPast
            /\ FutureEmpty /\ LiveFresh /\ HeldFresh /\ InvalidationImmediate

-----------------------------------------------------------------------------
\* The empty cache satisfies the invariant.
LEMMA CacheInitInv == CacheInit => CacheInv
BY CacheAssumption, SMTT(30)
DEF CacheInit, CacheInv, CacheTypeOK, ValShape, AckedCommitted, ReadsPast, FutureEmpty,
    LiveFresh, HeldFresh, InvalidationImmediate, NoRead, NoWrite, Read, Write, Gens, Holding

\* A step of one reader that touches no shared state but its own record keeps
\* the invariant if the new record fits: what it says of the generation it
\* names, of acked and of the value it shows.
LEMMA ReaderFrame ==
    ASSUME CacheInv, NEW r \in Readers, NEW x \in Read,
           rd' = [rd EXCEPT ![r] = x],
           UNCHANGED <<row, gen, entry, wr, acked>>,
           x.pc \notin {"set", "share", "done"} => x.val = None,
           x.floor <= acked, x.g <= gen,
           x.val # None => \/ x.val >= acked
                           \/ x.g = rd[r].g /\ x.val = rd[r].val
                           \/ x.g = rd[r].g /\ x.val = entry[x.g],
           x.pc \in Holding => \/ x.g = gen
                               \/ /\ rd[r].pc \in Holding
                                  /\ x.g = rd[r].g /\ x.floor = rd[r].floor,
           x.pc = "done" /\ x.val # None => x.val >= x.floor,
           flight' \in [Gens -> Readers \cup {None}]
    PROVE  CacheInv'
<1> USE CacheAssumption
<1>1. CacheTypeOK' /\ ValShape' /\ AckedCommitted' /\ ReadsPast' /\ FutureEmpty'
  BY DEF CacheInv, CacheTypeOK, ValShape, AckedCommitted, ReadsPast, FutureEmpty
<1>2. LiveFresh'
  BY SMTT(30) DEF CacheInv, CacheTypeOK, LiveFresh, FutureEmpty, Read, Gens
<1>3. HeldFresh'
  BY SMTT(30) DEF CacheInv, CacheTypeOK, HeldFresh, LiveFresh, FutureEmpty, ReadsPast, Read, Gens
<1>4. InvalidationImmediate'
  BY DEF CacheInv, CacheTypeOK, InvalidationImmediate
<1> QED
  BY <1>1, <1>2, <1>3, <1>4 DEF CacheInv

-----------------------------------------------------------------------------
(* Readers *)

\* The steps of a read that change only its own record and, at most, which
\* reader leads a flight, are instances of ReaderFrame.
LEMMA OwnSteps ==
    ASSUME CacheInv, NEW r \in Readers,
           \/ ReadStart(r) \/ Generation(r) \/ GetEntry(r) \/ Bypass(r)
           \/ Join(r) \/ Load(r) \/ Return(r)
    PROVE  CacheInv'
<1> USE CacheAssumption
<1>0. /\ rd[r] \in Read /\ rd \in [Readers -> Read] /\ row \in Nat /\ gen \in Nat
      /\ acked \in Nat /\ flight \in [Gens -> Readers \cup {None}]
      /\ entry \in [Gens -> Nat \cup {None}]
  BY DEF CacheInv, CacheTypeOK
<1>1. PICK x \in Read :
        /\ rd' = [rd EXCEPT ![r] = x]
        /\ x.pc \notin {"set", "share", "done"} => x.val = None
        /\ x.floor <= acked /\ x.g <= gen
        /\ x.val # None => \/ x.val >= acked
                           \/ x.g = rd[r].g /\ x.val = rd[r].val
                           \/ x.g = rd[r].g /\ x.val = entry[x.g]
        /\ x.pc \in Holding => \/ x.g = gen
                               \/ /\ rd[r].pc \in Holding
                                  /\ x.g = rd[r].g /\ x.floor = rd[r].floor
        /\ x.pc = "done" /\ x.val # None => x.val >= x.floor
        /\ flight' \in [Gens -> Readers \cup {None}]
        /\ UNCHANGED <<row, gen, entry, wr, acked>>
  <2>1. CASE ReadStart(r)
    <3> DEFINE x == [NoRead EXCEPT !.pc = "gen", !.floor = acked]
    <3>1. x \in Read /\ x.pc = "gen" /\ x.g = 0 /\ x.val = None /\ x.floor = acked
      BY <1>0 DEF NoRead, Read
    <3>2. rd' = [rd EXCEPT ![r] = x] /\ UNCHANGED <<row, gen, entry, flight, wr, acked>>
      BY <2>1 DEF ReadStart
    <3> HIDE DEF x
    <3>3. x \in Read
      BY <3>1
    <3>4. WITNESS x \in Read
    <3> QED  BY <1>0, <3>1, <3>2 DEF Holding
  <2>2. CASE Generation(r)
    <3> DEFINE x == [rd[r] EXCEPT !.pc = "get", !.g = gen]
               y == [rd[r] EXCEPT !.pc = "bypass"]
    <3>1. rd' = [rd EXCEPT ![r] = x] \/ rd' = [rd EXCEPT ![r] = y]
      BY <2>2, <1>0 DEF Generation
    <3>2. x \in Read /\ x.pc = "get" /\ x.g = gen /\ x.val = None /\ x.floor <= acked
      BY <2>2, <1>0 DEF Generation, CacheInv, ValShape, ReadsPast, Read
    <3>3. /\ y \in Read /\ y.pc = "bypass" /\ y.g <= gen /\ y.val = None
          /\ y.floor <= acked
      BY <2>2, <1>0 DEF Generation, CacheInv, ValShape, ReadsPast, Read
    <3> HIDE DEF x, y
    <3> QED  BY <2>2, <1>0, <3>1, <3>2, <3>3 DEF Generation, Holding
  <2>3. CASE GetEntry(r)
    <3>1. /\ rd[r].g \in Gens /\ rd[r].g <= gen /\ rd[r].val = None
          /\ rd[r].floor <= acked /\ rd[r].pc = "get"
          /\ entry[rd[r].g] # None => entry[rd[r].g] >= rd[r].floor
      <4>1. rd[r].pc = "get" /\ rd[r].val = None
        BY <2>3 DEF GetEntry, CacheInv, ValShape
      <4>2. rd[r].g <= gen /\ rd[r].floor <= acked /\ gen \in Gens /\ rd[r].g \in Nat
        BY <1>0 DEF CacheInv, ReadsPast, FutureEmpty, Read
      <4>3. entry[rd[r].g] # None => entry[rd[r].g] >= rd[r].floor
        BY <4>1 DEF CacheInv, HeldFresh, Holding
      <4>4. rd[r].g \in Gens
        BY <4>2, <1>0 DEF Gens
      <4> QED  BY <4>1, <4>2, <4>3, <4>4
    <3> DEFINE x == [rd[r] EXCEPT !.pc = "done", !.val = entry[rd[r].g]]
               y == [rd[r] EXCEPT !.pc = "join"]
               z == [rd[r] EXCEPT !.pc = "bypass"]
    <3>2. \/ rd' = [rd EXCEPT ![r] = x]
          \/ rd' = [rd EXCEPT ![r] = y]
          \/ rd' = [rd EXCEPT ![r] = z]
      BY <2>3, <1>0 DEF GetEntry
    <3>3. /\ x \in Read /\ x.pc = "done" /\ x.val = entry[rd[r].g]
          /\ x.g = rd[r].g /\ x.floor = rd[r].floor
      BY <1>0, <3>1 DEF Read
    <3>4. /\ y \in Read /\ y.pc = "join" /\ y.val = None
          /\ y.g = rd[r].g /\ y.floor = rd[r].floor
      BY <1>0, <3>1 DEF Read
    <3>5. /\ z \in Read /\ z.pc = "bypass" /\ z.val = None
          /\ z.g = rd[r].g /\ z.floor = rd[r].floor
      BY <1>0, <3>1 DEF Read
    <3> HIDE DEF x, y, z
    <3> QED  BY <2>3, <1>0, <3>1, <3>2, <3>3, <3>4, <3>5 DEF GetEntry, Holding
  <2>4. CASE Bypass(r)
    <3>1. PICK v \in {row, None} : rd' = [rd EXCEPT ![r].pc = "done", ![r].val = v]
      BY <2>4 DEF Bypass
    <3> DEFINE x == [rd[r] EXCEPT !.pc = "done", !.val = v]
    <3>2. rd' = [rd EXCEPT ![r] = x]
      BY <3>1, <1>0
    <3>3. /\ x \in Read /\ x.pc = "done" /\ x.val = v /\ x.g <= gen
          /\ x.floor <= acked /\ acked <= row
      BY <1>0 DEF CacheInv, ReadsPast, AckedCommitted, Read
    <3>4. UNCHANGED <<row, gen, entry, flight, wr, acked>> /\ x.floor \in Nat
      BY <2>4, <3>3 DEF Bypass, Read
    <3> HIDE DEF x
    <3>5. x.val # None => x.val >= acked /\ x.val >= x.floor
      BY <1>0, <3>3, <3>4
    <3> QED  BY <1>0, <3>2, <3>3, <3>4, <3>5 DEF Holding
  <2>5. CASE Join(r)
    <3> DEFINE x == [rd[r] EXCEPT !.pc = "load"]
               y == [rd[r] EXCEPT !.pc = "wait"]
    <3>1. rd' = [rd EXCEPT ![r] = x] \/ rd' = [rd EXCEPT ![r] = y]
      BY <2>5, <1>0 DEF Join
    <3>2. rd[r].pc = "join" /\ rd[r].val = None /\ rd[r].g <= gen /\ rd[r].floor <= acked
      BY <2>5, <1>0 DEF Join, CacheInv, ValShape, ReadsPast
    <3>3. /\ x \in Read /\ x.pc = "load" /\ x.val = None
          /\ x.g = rd[r].g /\ x.floor = rd[r].floor
      BY <1>0, <3>2 DEF Read
    <3>4. /\ y \in Read /\ y.pc = "wait" /\ y.val = None
          /\ y.g = rd[r].g /\ y.floor = rd[r].floor
      BY <1>0, <3>2 DEF Read
    <3>5. flight' \in [Gens -> Readers \cup {None}]
      BY <2>5, <1>0 DEF Join
    <3> HIDE DEF x, y
    <3> QED  BY <2>5, <1>0, <3>1, <3>2, <3>3, <3>4, <3>5 DEF Join, Holding
  <2>6. CASE Load(r)
    <3> DEFINE x == [rd[r] EXCEPT !.pc = "set", !.val = row]
               y == [rd[r] EXCEPT !.pc = "share"]
    <3>1. rd' = [rd EXCEPT ![r] = x] \/ rd' = [rd EXCEPT ![r] = y]
      BY <2>6, <1>0 DEF Load
    <3>2. /\ rd[r].pc = "load" /\ rd[r].val = None /\ rd[r].g <= gen
          /\ rd[r].floor <= acked /\ acked <= row
      BY <2>6, <1>0 DEF Load, CacheInv, ValShape, ReadsPast, AckedCommitted
    <3>3. /\ x \in Read /\ x.pc = "set" /\ x.val = row
          /\ x.g = rd[r].g /\ x.floor = rd[r].floor
      BY <1>0, <3>2 DEF Read
    <3>4. /\ y \in Read /\ y.pc = "share" /\ y.val = None
          /\ y.g = rd[r].g /\ y.floor = rd[r].floor
      BY <1>0, <3>2 DEF Read
    <3> HIDE DEF x, y
    <3> QED  BY <2>6, <1>0, <3>1, <3>2, <3>3, <3>4 DEF Load, Holding
  <2>7. CASE Return(r)
    <3> DEFINE x == NoRead
    <3>1. x \in Read /\ x.pc = "idle" /\ x.val = None /\ x.g = 0 /\ x.floor = 0
      BY DEF NoRead, Read
    <3>2. rd' = [rd EXCEPT ![r] = x] /\ UNCHANGED <<row, gen, entry, flight, wr, acked>>
      BY <2>7 DEF Return
    <3> HIDE DEF x
    <3>3. x \in Read
      BY <3>1
    <3>4. WITNESS x \in Read
    <3> QED  BY <1>0, <3>1, <3>2 DEF Holding
  <2> QED  BY <2>1, <2>2, <2>3, <2>4, <2>5, <2>6, <2>7
<1> QED  BY <1>1, ReaderFrame

\* Storing a load under the generation its reader holds: the value is as new
\* as the floor of everyone who holds that generation.
LEMMA SetEntryKeeps == ASSUME CacheInv, NEW r \in Readers, SetEntry(r) PROVE CacheInv'
<1> USE CacheAssumption
<1> DEFINE x == [rd[r] EXCEPT !.pc = "share"]
<1>0. /\ rd \in [Readers -> Read] /\ rd[r] \in Read /\ row \in Nat /\ gen \in Nat
      /\ acked \in Nat /\ entry \in [Gens -> Nat \cup {None}]
  BY DEF CacheInv, CacheTypeOK
<1>1. /\ rd[r].pc = "set" /\ rd' = [rd EXCEPT ![r] = x]
      /\ UNCHANGED <<row, gen, flight, wr, acked>>
      /\ entry' = [entry EXCEPT ![rd[r].g] = rd[r].val] \/ entry' = entry
  BY <1>0 DEF SetEntry
<1>2. /\ x \in Read /\ x.pc = "share" /\ x.val = rd[r].val
      /\ x.g = rd[r].g /\ x.floor = rd[r].floor
  BY <1>0 DEF Read
<1>3. rd[r].g \in Gens /\ rd[r].g <= gen /\ rd[r].val \in Nat \cup {None}
  BY <1>0 DEF CacheInv, ReadsPast, FutureEmpty, Gens, Read
<1> HIDE DEF x
<1>4. CacheTypeOK'
  BY <1>0, <1>1, <1>2, <1>3 DEF CacheInv, CacheTypeOK
<1>5. ValShape' /\ AckedCommitted' /\ ReadsPast' /\ InvalidationImmediate'
  BY <1>0, <1>1, <1>2 DEF CacheInv, ValShape, AckedCommitted, ReadsPast, InvalidationImmediate
<1>6. FutureEmpty'
  BY <1>0, <1>1, <1>3 DEF CacheInv, FutureEmpty, Gens
<1>7. LiveFresh'
  BY <1>0, <1>1, <1>2, <1>3, SMTT(30) DEF CacheInv, LiveFresh, FutureEmpty
<1>8. HeldFresh'
  <2> SUFFICES ASSUME NEW y \in Readers, rd'[y].pc \in Holding
               PROVE  /\ entry'[rd'[y].g] # None => entry'[rd'[y].g] >= rd'[y].floor
                      /\ \A z \in Readers : rd'[z].val # None /\ rd'[z].g = rd'[y].g
                                             => rd'[z].val >= rd'[y].floor
    BY DEF HeldFresh
  <2>1. /\ rd[y].pc \in Holding
        /\ rd'[y].g = rd[y].g /\ rd'[y].floor = rd[y].floor
    BY <1>0, <1>1, <1>2 DEF Holding
  <2>2. \A z \in Readers : rd'[z].val = rd[z].val /\ rd'[z].g = rd[z].g
    BY <1>0, <1>1, <1>2
  <2>3. /\ entry[rd[y].g] # None => entry[rd[y].g] >= rd[y].floor
        /\ \A z \in Readers : rd[z].val # None /\ rd[z].g = rd[y].g
                               => rd[z].val >= rd[y].floor
    BY <2>1 DEF CacheInv, HeldFresh
  <2>4. rd[y].g \in Gens
    BY <1>0 DEF CacheInv, ReadsPast, FutureEmpty, Gens, Read
  <2>5. \/ entry'[rd[y].g] = entry[rd[y].g]
        \/ rd[y].g = rd[r].g /\ entry'[rd[y].g] = rd[r].val
    BY <1>0, <1>1, <1>3, <2>4
  <2> QED  BY <2>1, <2>2, <2>3, <2>5
<1> QED  BY <1>4, <1>5, <1>6, <1>7, <1>8 DEF CacheInv

\* Everyone who joined a flight gets a value as new as their own floor.
LEMMA ShareKeeps == ASSUME CacheInv, NEW r \in Readers, Share(r) PROVE CacheInv'
<1> USE CacheAssumption
<1>0. /\ rd \in [Readers -> Read] /\ rd[r] \in Read /\ row \in Nat /\ gen \in Nat
      /\ acked \in Nat /\ entry \in [Gens -> Nat \cup {None}]
      /\ flight \in [Gens -> Readers \cup {None}]
  BY DEF CacheInv, CacheTypeOK
<1>1. /\ rd[r].pc = "share" /\ UNCHANGED <<row, gen, entry, wr, acked>>
      /\ flight' \in [Gens -> Readers \cup {None}]
  BY <1>0 DEF Share
<1>2. /\ rd' \in [Readers -> Read]
      /\ \A x \in Readers :
            /\ rd'[x].g = rd[x].g /\ rd'[x].floor = rd[x].floor
            /\ \/ rd'[x] = rd[x] /\ x # r
               \/ /\ rd'[x].pc = "done" /\ rd'[x].val = rd[r].val
                  /\ rd[x].g = rd[r].g /\ rd[x].pc \in Holding
  <2> DEFINE told(x) == [rd[x] EXCEPT !.pc = "done", !.val = rd[r].val]
  <2>1. ASSUME NEW x \in Readers
        PROVE  /\ told(x) \in Read /\ told(x).g = rd[x].g
               /\ told(x).floor = rd[x].floor
               /\ told(x).pc = "done" /\ told(x).val = rd[r].val
    BY <1>0 DEF Read
  <2>2. rd' = [x \in Readers |->
                IF x = r \/ (rd[x].pc = "wait" /\ rd[x].g = rd[r].g)
                THEN told(x) ELSE rd[x]]
    BY DEF Share
  <2> HIDE DEF told
  <2>3. "share" \in Holding /\ "wait" \in Holding
    BY DEF Holding
  <2> QED  BY <1>0, <1>1, <2>1, <2>2, <2>3
<1>3. CacheTypeOK'
  BY <1>0, <1>1, <1>2 DEF CacheInv, CacheTypeOK
<1>4. ValShape' /\ AckedCommitted' /\ ReadsPast' /\ FutureEmpty'
  BY <1>0, <1>1, <1>2 DEF CacheInv, ValShape, AckedCommitted, ReadsPast, FutureEmpty
<1>5. LiveFresh'
  BY <1>0, <1>1, <1>2 DEF CacheInv, LiveFresh
<1>6. HeldFresh'
  <2> SUFFICES ASSUME NEW y \in Readers, rd'[y].pc \in Holding
               PROVE  /\ entry[rd[y].g] # None => entry[rd[y].g] >= rd[y].floor
                      /\ \A z \in Readers : rd'[z].val # None /\ rd[z].g = rd[y].g
                                             => rd'[z].val >= rd[y].floor
    BY <1>1, <1>2 DEF HeldFresh
  <2>1. rd[y].pc \in Holding
    BY <1>2 DEF Holding
  <2> QED  BY <1>2, <2>1 DEF CacheInv, HeldFresh
<1>7. InvalidationImmediate'
  BY <1>0, <1>1, <1>2 DEF CacheInv, HeldFresh, InvalidationImmediate, Holding
<1> QED  BY <1>3, <1>4, <1>5, <1>6, <1>7 DEF CacheInv

\* An expired entry is a missing one.
LEMMA ExpireKeeps == ASSUME CacheInv, NEW g \in Gens, Expire(g) PROVE CacheInv'
<1> USE CacheAssumption
<1>1. /\ entry \in [Gens -> Nat \cup {None}] /\ rd \in [Readers -> Read]
      /\ gen \in Gens /\ \A r \in Readers : rd[r].g \in Gens
  BY DEF CacheInv, CacheTypeOK, FutureEmpty, ReadsPast, Gens, Read
<1>2. /\ entry' = [entry EXCEPT ![g] = None]
      /\ UNCHANGED <<row, gen, flight, wr, rd, acked>>
  BY DEF Expire
<1>3. \A h \in Gens : entry'[h] = entry[h] \/ entry'[h] = None
  BY <1>1, <1>2
<1>4. /\ CacheTypeOK' /\ ValShape' /\ AckedCommitted' /\ ReadsPast' /\ FutureEmpty'
      /\ InvalidationImmediate'
  BY <1>1, <1>2, <1>3 DEF CacheInv, CacheTypeOK, ValShape, AckedCommitted, ReadsPast,
                          FutureEmpty, InvalidationImmediate
<1>5. LiveFresh' /\ HeldFresh'
  BY <1>1, <1>2, <1>3 DEF CacheInv, LiveFresh, HeldFresh
<1> QED  BY <1>4, <1>5 DEF CacheInv

-----------------------------------------------------------------------------
(* Mutators *)

\* A mutation commits: the row only moves forward.
LEMMA MutateKeeps ==
    ASSUME CacheInv, NEW w \in Writers,
           MoveDirectory(w) \/ GrantACLEntry(w) \/ CommitFileVersion(w)
    PROVE  CacheInv'
<1> USE CacheAssumption
<1>1. /\ UNCHANGED <<gen, entry, flight, rd, acked>>
      /\ row \in Nat /\ row' \in Nat /\ row' >= row
      /\ acked \in Nat /\ wr \in [Writers -> Write] /\ wr' \in [Writers -> Write]
  BY DEF CacheInv, CacheTypeOK, MoveDirectory, GrantACLEntry, CommitFileVersion, Write
<1>2. AckedCommitted'
  BY <1>1 DEF CacheInv, AckedCommitted, MoveDirectory, GrantACLEntry, CommitFileVersion, Write
<1>3. CacheTypeOK'
  BY <1>1 DEF CacheInv, CacheTypeOK
<1>4. /\ ValShape' /\ ReadsPast' /\ FutureEmpty' /\ LiveFresh' /\ HeldFresh'
      /\ InvalidationImmediate'
  BY <1>1 DEF CacheInv, ValShape, ReadsPast, FutureEmpty, LiveFresh, HeldFresh,
              InvalidationImmediate
<1> QED  BY <1>2, <1>3, <1>4 DEF CacheInv

\* The bump starts a generation under which nothing is stored or loaded yet.
LEMMA BumpKeeps == ASSUME CacheInv, NEW w \in Writers, BumpGeneration(w) PROVE CacheInv'
<1> USE CacheAssumption
<1>1. /\ UNCHANGED <<row, entry, flight, rd>>
      /\ row \in Nat /\ acked \in Nat /\ gen \in Nat
      /\ wr \in [Writers -> Write] /\ wr' = [wr EXCEPT ![w] = NoWrite]
      /\ wr[w] \in Write /\ acked <= row /\ rd \in [Readers -> Read]
      /\ entry \in [Gens -> Nat \cup {None}]
  BY DEF CacheInv, CacheTypeOK, BumpGeneration, AckedCommitted
<1>2. NoWrite \in Write /\ NoWrite.moved = None
  BY DEF NoWrite, Write
<1>3. \/ gen' = gen /\ acked' = acked
      \/ /\ gen' = gen + 1 /\ gen < MaxGen
         /\ acked' \in Nat /\ acked' >= acked /\ acked' <= row
  <2>1. wr[w].moved # None => wr[w].moved \in Nat /\ wr[w].moved <= row
    BY <1>1 DEF CacheInv, AckedCommitted, Write
  <2> QED  BY <1>1, <2>1 DEF BumpGeneration, Incr, AckMove
<1>4. CacheTypeOK' /\ ValShape' /\ AckedCommitted' /\ ReadsPast' /\ InvalidationImmediate'
  BY <1>1, <1>2, <1>3 DEF CacheInv, CacheTypeOK, ValShape, AckedCommitted, ReadsPast,
                          InvalidationImmediate, Read
<1>5. FutureEmpty'
  BY <1>1, <1>3 DEF CacheInv, FutureEmpty, Gens
<1>6. LiveFresh'
  BY <1>1, <1>3 DEF CacheInv, FutureEmpty, LiveFresh, ReadsPast, Gens, Read
<1>7. HeldFresh'
  BY <1>1 DEF CacheInv, HeldFresh
<1> QED  BY <1>4, <1>5, <1>6, <1>7 DEF CacheInv

-----------------------------------------------------------------------------
\* The invariant holds in every state the cache, its readers and its mutators
\* can reach.
THEOREM CacheInvariance == CacheSpec => []CacheInv
<1>1. CacheInv /\ [CacheNext]_cacheVars => CacheInv'
  <2> SUFFICES ASSUME CacheInv, [CacheNext]_cacheVars PROVE CacheInv'
    OBVIOUS
  <2>1. ASSUME NEW r \in Readers, ReadStart(r) \/ ReadStep(r) PROVE CacheInv'
    BY <2>1, OwnSteps, SetEntryKeeps, ShareKeeps DEF ReadStep
  <2>2. ASSUME NEW w \in Writers, WriteStep(w) PROVE CacheInv'
    BY <2>2, MutateKeeps, BumpKeeps DEF WriteStep
  <2>3. ASSUME NEW g \in Gens, Expire(g) PROVE CacheInv'
    BY <2>3, ExpireKeeps
  <2>4. CASE UNCHANGED cacheVars
    BY <2>4 DEF cacheVars, CacheInv, CacheTypeOK, ValShape, AckedCommitted, ReadsPast,
                FutureEmpty, LiveFresh, HeldFresh, InvalidationImmediate
  <2> QED  BY <2>1, <2>2, <2>3, <2>4 DEF CacheNext
<1> QED  BY CacheInitInv, <1>1, PTL DEF CacheSpec

\* A read that begins after the bump of a mutation (cache.go BumpGeneration)
\* never shows what the mutation replaced, for any number of goroutines.
THEOREM InvalidatesImmediately == CacheSpec => []InvalidationImmediate
<1>1. CacheInv => InvalidationImmediate
  BY DEF CacheInv
<1> QED  BY CacheInvariance, <1>1, PTL

-----------------------------------------------------------------------------
(* The upload tokens *)

\* A consumed nonce, whether or not OwnsBlock has answered yet.
Claims == accepted \cup {<<val[v].tok, val[v].at, v>> :
                            v \in {u \in Validators : val[u].pc = "own"}}

Signed(n) == n \in Tokens /\ tok[n] # Unset /\ tok[n].exp # Unset

\* What a minted token says of the clock and of the keys of its process.
Minted ==
    \A n \in Tokens : tok[n] # Unset =>
        /\ tok[n].boot <= boot
        /\ tok[n].at <= now
        /\ tok[n].exp # Unset => tok[n].exp <= now + TTL
        /\ tok[n].boot = boot =>
              /\ tok[n].kv \in 1 .. kms.current
              /\ kms.superseded[tok[n].kv] # Unset
                    => kms.superseded[tok[n].kv] >= tok[n].at

\* The signing version and those after it are not superseded.
KeysOrdered == /\ kms.current <= MaxVersion
               /\ \A i \in 1 .. MaxVersion :
                     i >= kms.current => kms.superseded[i] = Unset

\* Past the signature check, the process is the one that signed.
KeyHeld == \A v \in Validators :
              /\ val[v].pc # "idle" => Signed(val[v].tok)
              /\ val[v].pc \in {"consume", "own"} => tok[val[v].tok].boot = boot

Kept == \A c \in Claims :
           /\ Signed(c[1])
           /\ \/ nonce[c[1]] >= tok[c[1]].exp + Skew
              \/ tok[c[1]].boot # boot

OneClaim == \A x, y \in Claims :
               /\ x[1] = y[1]
               /\ x[2] < tok[x[1]].exp + Skew
               /\ y[2] < tok[x[1]].exp + Skew
               => x = y

TokenInv == TokenTypeOK /\ Minted /\ KeysOrdered /\ KeyHeld /\ Kept /\ OneClaim

-----------------------------------------------------------------------------
\* Before anything is minted the invariant holds.
LEMMA TokenInitInv == TokenInit => TokenInv
<1> SUFFICES ASSUME TokenInit PROVE TokenInv
  OBVIOUS
<1>1. Claims = {}
  BY DEF TokenInit, Claims, NoValidation
<1>2. TokenTypeOK
  BY TokenAssumption DEF TokenInit, TokenTypeOK, NoKeys, Kms, NoValidation, Validation
<1>3. Minted /\ KeysOrdered /\ KeyHeld
  BY TokenAssumption DEF TokenInit, Minted, KeysOrdered, KeyHeld, NoKeys, NoValidation
<1> QED  BY <1>1, <1>2, <1>3 DEF TokenInv, Kept, OneClaim

\* The claims are triples of a token, a time and a validator.
LEMMA ClaimsType == TokenInv => Claims \subseteq Tokens \X Nat \X Validators
<1> SUFFICES ASSUME TokenInv, NEW v \in Validators, val[v].pc = "own"
             PROVE  <<val[v].tok, val[v].at, v>> \in Tokens \X Nat \X Validators
  BY DEF Claims, TokenInv, TokenTypeOK
<1>1. val[v] \in Validation /\ val[v].tok \in Tokens
  BY DEF TokenInv, TokenTypeOK, KeyHeld, Signed
<1> QED  BY <1>1 DEF Validation

\* A step that signs no token anew, keeps the nonces and adds no claim keeps
\* what the invariant says of claims.
LEMMA ClaimsFrame ==
    ASSUME TokenInv, Claims' \subseteq Claims,
           \A n \in Tokens : Signed(n) => tok'[n] = tok[n],
           UNCHANGED <<boot, nonce>>
    PROVE  Kept' /\ OneClaim'
<1>1. \A c \in Claims' : c \in Claims /\ Signed(c[1]) /\ tok'[c[1]] = tok[c[1]]
  BY DEF TokenInv, Kept, Signed
<1>2. Kept'
  BY <1>1 DEF TokenInv, Kept, Signed
<1>3. OneClaim'
  BY <1>1 DEF TokenInv, OneClaim
<1> QED  BY <1>2, <1>3

-----------------------------------------------------------------------------
(* Keys and signing *)

\* Provisioning draws version 1 or changes nothing.
LEMMA ProvisionedKeys ==
    TokenInv => /\ Provisioned \in Kms /\ Provisioned.current \in 1 .. MaxVersion
                /\ Provisioned.superseded = kms.superseded
                /\ Provisioned.current >= kms.current
                /\ kms.current = 0 \/ Provisioned.current = kms.current
<1> SUFFICES ASSUME TokenInv
             PROVE  /\ Provisioned \in Kms /\ Provisioned.current \in 1 .. MaxVersion
                    /\ Provisioned.superseded = kms.superseded
                    /\ Provisioned.current >= kms.current
                    /\ kms.current = 0 \/ Provisioned.current = kms.current
  OBVIOUS
<1>1. /\ kms \in Kms /\ kms.current \in Nat /\ kms.current <= MaxVersion
      /\ MaxVersion \in Nat \ {0}
  BY TokenAssumption DEF TokenInv, TokenTypeOK, KeysOrdered, Kms
<1>2. CASE kms.current = 0
  <2> DEFINE k == [kms EXCEPT !.current = 1]
  <2>1. k \in Kms /\ k.current = 1 /\ k.superseded = kms.superseded
    BY <1>1 DEF Kms
  <2>2. Provisioned = k
    BY <1>2 DEF Provisioned
  <2> HIDE DEF k
  <2> QED  BY <1>1, <1>2, <2>1, <2>2
<1>3. CASE kms.current # 0
  BY <1>1, <1>3 DEF Provisioned
<1> QED  BY <1>2, <1>3

\* Rotate supersedes the signing version at this moment: no token of it was
\* signed later.
LEMMA RotateKeeps == ASSUME TokenInv, Rotate PROVE TokenInv'
<1> USE TokenAssumption
<1>1. /\ kms \in Kms /\ now \in Nat /\ kms.current \in 1 .. MaxVersion - 1
      /\ kms' = [current |-> kms.current + 1,
                 superseded |-> [kms.superseded EXCEPT ![kms.current] = now]]
      /\ UNCHANGED <<now, boot, tok, nonce, val, accepted, inMemory>>
  BY DEF TokenInv, TokenTypeOK, Rotate
<1>2. /\ kms'.current = kms.current + 1
      /\ kms'.superseded = [kms.superseded EXCEPT ![kms.current] = now]
      /\ kms' \in Kms
      /\ kms.superseded \in [1 .. MaxVersion -> Nat \cup {Unset}] /\ kms.current \in Nat
  BY SMTT(30), <1>1 DEF Kms
<1>3. TokenTypeOK'
  BY <1>1, <1>2 DEF TokenInv, TokenTypeOK
<1>4. Minted'
  <2> SUFFICES ASSUME NEW n \in Tokens, tok[n] # Unset, tok[n].boot = boot
               PROVE  /\ tok[n].kv \in 1 .. kms'.current
                      /\ kms'.superseded[tok[n].kv] # Unset
                            => kms'.superseded[tok[n].kv] >= tok[n].at
    BY <1>1 DEF Minted, TokenInv
  <2>1. /\ tok[n].kv \in 1 .. kms.current /\ tok[n].at <= now
        /\ kms.superseded[tok[n].kv] # Unset => kms.superseded[tok[n].kv] >= tok[n].at
    BY DEF TokenInv, Minted
  <2> QED  BY SMTT(30), <1>1, <1>2, <2>1
<1>5. KeysOrdered'
  BY SMTT(30), <1>1, <1>2 DEF TokenInv, KeysOrdered
<1>6. KeyHeld'
  BY <1>1 DEF TokenInv, KeyHeld, Signed
<1>7. Kept' /\ OneClaim'
  BY <1>1, ClaimsFrame DEF Claims
<1> QED  BY <1>3, <1>4, <1>5, <1>6, <1>7 DEF TokenInv

\* A restart may empty the nonce store; no token signed before it belongs to
\* the new process.
LEMMA RestartKeeps == ASSUME TokenInv, Restart PROVE TokenInv'
<1> USE TokenAssumption
<1>1. /\ boot \in Nat /\ boot' = boot + 1 /\ kms' = NoKeys
      /\ val' = [v \in Validators |-> NoValidation]
      /\ UNCHANGED <<now, inMemory, accepted>>
      /\ nonce' \in [Tokens -> Nat] /\ tok \in [Tokens -> Token \cup {Unset}]
      /\ tok' \in [Tokens -> Token \cup {Unset}]
      /\ \A n \in Tokens : /\ tok'[n] = tok[n] \/ tok'[n] = Unset
                           /\ Signed(n) => tok'[n] = tok[n]
  BY DEF TokenInv, TokenTypeOK, Restart, Signed
<1>2. NoKeys \in Kms /\ NoKeys.current = 0 /\ \A i \in 1 .. MaxVersion : NoKeys.superseded[i] = Unset
  BY DEF NoKeys, Kms
<1>3. NoValidation \in Validation /\ NoValidation.pc = "idle"
  BY DEF NoValidation, Validation
<1>4. \A n \in Tokens : tok[n] # Unset => tok[n].boot \in Nat /\ tok[n].boot <= boot
  BY <1>1 DEF TokenInv, Minted, Token
<1>5. TokenTypeOK'
  BY <1>1, <1>2, <1>3 DEF TokenInv, TokenTypeOK
<1>6. Minted'
  BY <1>1, <1>4 DEF TokenInv, Minted
<1>7. KeysOrdered' /\ KeyHeld'
  BY <1>1, <1>2, <1>3 DEF KeysOrdered, KeyHeld
<1>8. Claims' \subseteq Claims
  BY <1>1, <1>3 DEF Claims
<1>9. \A c \in Claims' : /\ c \in Claims /\ Signed(c[1]) /\ tok'[c[1]] = tok[c[1]]
                         /\ tok[c[1]].boot # boot'
  BY <1>1, <1>4, <1>8 DEF TokenInv, Kept, Signed
<1>10. Kept' /\ OneClaim'
  BY <1>9 DEF TokenInv, Kept, OneClaim, Signed
<1> QED  BY <1>5, <1>6, <1>7, <1>10 DEF TokenInv

\* SigningKey names the version that is current now.
LEMMA SigningKeyKeeps ==
    ASSUME TokenInv, NEW n \in Tokens, SigningKey(n) PROVE TokenInv'
<1> USE TokenAssumption
<1> DEFINE t == [kv |-> Provisioned.current, boot |-> boot, at |-> now, exp |-> Unset]
<1>1. /\ tok[n] = Unset /\ kms' = Provisioned /\ tok' = [tok EXCEPT ![n] = t]
      /\ UNCHANGED <<now, boot, nonce, val, accepted, inMemory>>
      /\ now \in Nat /\ boot \in Nat /\ tok \in [Tokens -> Token \cup {Unset}]
      /\ kms \in Kms
  BY DEF TokenInv, TokenTypeOK, SigningKey
<1>2. /\ kms' \in Kms /\ kms'.current \in 1 .. MaxVersion
      /\ kms'.superseded = kms.superseded /\ kms'.current >= kms.current
      /\ kms.current = 0 \/ kms'.current = kms.current
      /\ kms.current \in Nat
  BY <1>1, ProvisionedKeys DEF Kms
<1>3. /\ t \in Token /\ t.kv = kms'.current /\ t.boot = boot /\ t.at = now
      /\ t.exp = Unset
  BY <1>1, <1>2 DEF Token
<1> HIDE DEF t
<1>4. KeysOrdered'
  BY <1>1, <1>2 DEF TokenInv, KeysOrdered
<1>5. TokenTypeOK'
  BY <1>1, <1>2, <1>3 DEF TokenInv, TokenTypeOK
<1>6. Minted'
  <2> SUFFICES ASSUME NEW m \in Tokens, tok'[m] # Unset
               PROVE  /\ tok'[m].boot <= boot
                      /\ tok'[m].at <= now
                      /\ tok'[m].exp # Unset => tok'[m].exp <= now + TTL
                      /\ tok'[m].boot = boot =>
                            /\ tok'[m].kv \in 1 .. kms'.current
                            /\ kms'.superseded[tok'[m].kv] # Unset
                                  => kms'.superseded[tok'[m].kv] >= tok'[m].at
    BY <1>1 DEF Minted
  <2>1. CASE m = n
    BY <2>1, <1>1, <1>2, <1>3, <1>4 DEF KeysOrdered
  <2>2. CASE m # n
    BY <2>2, <1>1, <1>2 DEF TokenInv, Minted
  <2> QED  BY <2>1, <2>2
<1>7. \A m \in Tokens : Signed(m) => tok'[m] = tok[m]
  BY <1>1 DEF Signed
<1>8. KeyHeld'
  BY <1>1, <1>7 DEF TokenInv, KeyHeld, Signed
<1>9. Kept' /\ OneClaim'
  BY <1>1, <1>7, ClaimsFrame DEF Claims
<1> QED  BY <1>4, <1>5, <1>6, <1>8, <1>9 DEF TokenInv

\* The expiry is one TTL from now.
LEMMA SignClaimsKeeps ==
    ASSUME TokenInv, NEW n \in Tokens, SignClaims(n) PROVE TokenInv'
<1> USE TokenAssumption
<1> DEFINE t == [tok[n] EXCEPT !.exp = now + TTL]
<1>1. /\ tok[n] # Unset /\ tok[n].exp = Unset /\ tok' = [tok EXCEPT ![n] = t]
      /\ UNCHANGED <<now, boot, kms, nonce, val, accepted, inMemory>>
      /\ now \in Nat /\ tok \in [Tokens -> Token \cup {Unset}] /\ tok[n] \in Token
  BY DEF TokenInv, TokenTypeOK, SignClaims
<1>2. /\ t \in Token /\ t.kv = tok[n].kv /\ t.boot = tok[n].boot /\ t.at = tok[n].at
      /\ t.exp = now + TTL
  BY <1>1 DEF Token
<1> HIDE DEF t
<1>3. TokenTypeOK'
  BY <1>1, <1>2 DEF TokenInv, TokenTypeOK
<1>4. Minted' /\ KeysOrdered'
  BY <1>1, <1>2 DEF TokenInv, Minted, KeysOrdered
<1>5. \A m \in Tokens : Signed(m) => tok'[m] = tok[m]
  BY <1>1 DEF Signed
<1>6. KeyHeld'
  BY <1>1, <1>5 DEF TokenInv, KeyHeld, Signed
<1>7. Kept' /\ OneClaim'
  BY <1>1, <1>5, ClaimsFrame DEF Claims
<1> QED  BY <1>3, <1>4, <1>6, <1>7 DEF TokenInv

-----------------------------------------------------------------------------
(* Validation *)

\* A step of one validator that reaches no claim: the claims shrink at most.
LEMMA ValidatorFrame ==
    ASSUME TokenInv, NEW v \in Validators, NEW x \in Validation,
           val' = [val EXCEPT ![v] = x], x.pc # "own",
           x.pc # "idle" => Signed(x.tok),
           x.pc = "consume" => tok[x.tok].boot = boot,
           kms' = kms \/ kms' = Provisioned,
           UNCHANGED <<now, boot, tok, nonce, accepted, inMemory>>
    PROVE  TokenInv'
<1> USE TokenAssumption
<1>1. val \in [Validators -> Validation] /\ kms \in Kms
  BY DEF TokenInv, TokenTypeOK
<1>2. /\ kms' \in Kms /\ kms'.superseded = kms.superseded /\ kms'.current <= MaxVersion
      /\ kms'.current >= kms.current /\ kms'.current \in Nat /\ kms.current \in Nat
      /\ kms.current = 0 \/ kms'.current = kms.current
  BY <1>1, ProvisionedKeys DEF TokenInv, KeysOrdered, Kms
<1>3. TokenTypeOK'
  BY <1>1, <1>2 DEF TokenInv, TokenTypeOK
<1>4. Minted' /\ KeysOrdered'
  BY SMTT(30), <1>2 DEF TokenInv, Minted, KeysOrdered
<1>5. KeyHeld'
  BY <1>1 DEF TokenInv, KeyHeld, Signed
<1>6. Claims' \subseteq Claims
  BY <1>1 DEF Claims
<1>7. Kept' /\ OneClaim'
  BY <1>6, ClaimsFrame
<1> QED  BY <1>3, <1>4, <1>5, <1>7 DEF TokenInv

\* Present and VerificationKey are such steps.
LEMMA CheckKeeps ==
    ASSUME TokenInv, NEW v \in Validators,
           (\E n \in Tokens : Present(v, n)) \/ VerificationKey(v)
    PROVE  TokenInv'
<1> USE TokenAssumption
<1>0. NoValidation \in Validation /\ NoValidation.pc = "idle"
  BY DEF NoValidation, Validation
<1>1. ASSUME NEW n \in Tokens, Present(v, n) PROVE TokenInv'
  <2> DEFINE x == [pc |-> "key", tok |-> n, at |-> now]
  <2>1. x \in Validation /\ x.pc = "key" /\ x.tok = n
    BY DEF TokenInv, TokenTypeOK, Validation
  <2>2. /\ val' = [val EXCEPT ![v] = x] /\ Signed(n)
        /\ UNCHANGED <<now, boot, kms, tok, nonce, accepted, inMemory>>
    BY <1>1 DEF Present, Signed
  <2> HIDE DEF x
  <2> QED  BY <2>1, <2>2, ValidatorFrame
<1>2. CASE VerificationKey(v)
  <2> DEFINE x == [val[v] EXCEPT !.pc = "consume"]
  <2>1. val[v] \in Validation /\ val[v].pc = "key" /\ Signed(val[v].tok)
    BY <1>2 DEF VerificationKey, TokenInv, TokenTypeOK, KeyHeld
  <2>2. x \in Validation /\ x.pc = "consume" /\ x.tok = val[v].tok
    BY <2>1 DEF Validation
  <2>3. /\ kms' = Provisioned
        /\ UNCHANGED <<now, boot, tok, nonce, accepted, inMemory>>
        /\ \/ val' = [val EXCEPT ![v] = x] /\ tok[val[v].tok].boot = boot
           \/ val' = [val EXCEPT ![v] = NoValidation]
    BY <1>2 DEF VerificationKey, Verifies, TokenInv, TokenTypeOK
  <2> HIDE DEF x
  <2>4. CASE val' = [val EXCEPT ![v] = x] /\ tok[val[v].tok].boot = boot
    BY <2>1, <2>2, <2>3, <2>4, ValidatorFrame
  <2>5. CASE val' = [val EXCEPT ![v] = NoValidation]
    BY <1>0, <2>3, <2>5, ValidatorFrame
  <2> QED  BY <2>3, <2>4, <2>5
<1> QED  BY <1>1, <1>2

\* Consume makes a claim only when no entry of the nonce is alive; by then
\* every earlier claim's token is past its last valid moment.
LEMMA ConsumeKeeps == ASSUME TokenInv, NEW v \in Validators, Consume(v) PROVE TokenInv'
<1> USE TokenAssumption
<1> DEFINE n == val[v].tok
           x == [val[v] EXCEPT !.pc = "own", !.at = now]
<1>0. NoValidation \in Validation /\ NoValidation.pc = "idle"
  BY DEF NoValidation, Validation
<1>1. /\ val \in [Validators -> Validation] /\ val[v] \in Validation
      /\ val[v].pc = "consume" /\ now \in Nat /\ nonce \in [Tokens -> Nat]
      /\ UNCHANGED <<now, boot, kms, tok, accepted, inMemory>>
  BY DEF Consume, TokenInv, TokenTypeOK
<1>2. /\ Signed(n) /\ n \in Tokens /\ tok[n].boot = boot
      /\ tok[n].exp \in Nat /\ tok[n].exp <= now + TTL
  <2>1. Signed(n) /\ n \in Tokens /\ tok[n].boot = boot
    BY <1>1 DEF TokenInv, KeyHeld, Signed
  <2>2. tok[n] \in Token /\ tok[n].exp # Unset
    BY <2>1 DEF TokenInv, TokenTypeOK, Signed
  <2> QED  BY <2>1, <2>2 DEF TokenInv, Minted, Token, Signed
<1>3. /\ x \in Validation /\ x.pc = "own" /\ x.tok = n /\ x.at = now
  BY <1>1 DEF Validation
<1>4. \/ /\ nonce[n] <= now /\ nonce' = [nonce EXCEPT ![n] = now + TTL + Skew]
         /\ val' = [val EXCEPT ![v] = x] \/ val' = [val EXCEPT ![v] = NoValidation]
      \/ nonce' = nonce /\ val' = [val EXCEPT ![v] = NoValidation]
  BY <1>1 DEF Consume
<1> HIDE DEF x, n
<1>5. CASE nonce' = nonce /\ val' = [val EXCEPT ![v] = NoValidation]
  BY <1>0, <1>1, <1>5, ValidatorFrame
<1>6. CASE /\ nonce[n] <= now /\ nonce' = [nonce EXCEPT ![n] = now + TTL + Skew]
           /\ val' = [val EXCEPT ![v] = x] \/ val' = [val EXCEPT ![v] = NoValidation]
  <2>1. /\ nonce' \in [Tokens -> Nat] /\ val' \in [Validators -> Validation]
        /\ \A m \in Tokens : nonce'[m] >= nonce[m]
        /\ nonce'[n] >= tok[n].exp + Skew
    BY <1>0, <1>1, <1>2, <1>3, <1>6
  <2>2. TokenTypeOK' /\ Minted' /\ KeysOrdered'
    BY <1>1, <2>1 DEF TokenInv, TokenTypeOK, Minted, KeysOrdered
  <2>3. KeyHeld'
    BY <1>0, <1>1, <1>2, <1>3, <1>6 DEF TokenInv, KeyHeld, Signed
  <2>4. Claims' \subseteq Claims \cup {<<n, now, v>>}
    BY <1>0, <1>1, <1>3, <1>6 DEF Claims
  <2>5. \A c \in Claims : /\ c[1] \in Tokens /\ tok[c[1]] \in Token
                          /\ tok[c[1]].exp \in Nat /\ Signed(c[1])
    BY DEF TokenInv, Kept, Signed, TokenTypeOK, Token
  <2>6. Kept'
    <3> SUFFICES ASSUME NEW c \in Claims'
                 PROVE  /\ Signed(c[1])
                        /\ \/ nonce'[c[1]] >= tok[c[1]].exp + Skew
                           \/ tok[c[1]].boot # boot
      BY <1>1 DEF Kept, Signed
    <3>1. CASE c \in Claims
      BY <3>1, <1>1, <2>1, <2>5 DEF TokenInv, Kept
    <3>2. CASE c = <<n, now, v>>
      BY <3>2, <1>2, <2>1
    <3> QED  BY <2>4, <3>1, <3>2
  <2>7. \A c \in Claims : c[1] = n => now >= tok[n].exp + Skew
    BY <1>1, <1>2, <1>6, <2>5 DEF TokenInv, Kept
  <2>8. OneClaim'
    <3> SUFFICES ASSUME NEW c \in Claims', NEW d \in Claims', c[1] = d[1],
                        c[2] < tok[c[1]].exp + Skew, d[2] < tok[c[1]].exp + Skew
                 PROVE  c = d
      BY <1>1 DEF OneClaim
    <3>1. CASE c \in Claims /\ d \in Claims
      BY <3>1 DEF TokenInv, OneClaim
    <3>2. ASSUME NEW e \in Claims, e[1] = n, now < tok[n].exp + Skew PROVE FALSE
      BY <3>2, <2>7, <1>1, <1>2
    <3>3. CASE c = <<n, now, v>> /\ d \in Claims
      BY <3>3, <3>2
    <3>4. CASE d = <<n, now, v>> /\ c \in Claims
      BY <3>4, <3>2
    <3> QED  BY <2>4, <3>1, <3>3, <3>4
  <2> QED  BY <2>2, <2>3, <2>6, <2>8 DEF TokenInv
<1> QED  BY <1>4, <1>5, <1>6

\* OwnsBlock turns a claim into an acceptance or drops it.
LEMMA OwnsBlockKeeps ==
    ASSUME TokenInv, NEW v \in Validators, OwnsBlock(v) PROVE TokenInv'
<1> USE TokenAssumption
<1>0. NoValidation \in Validation /\ NoValidation.pc = "idle"
  BY DEF NoValidation, Validation
<1>1. /\ val[v].pc = "own" /\ val' = [val EXCEPT ![v] = NoValidation]
      /\ UNCHANGED <<now, boot, kms, tok, nonce, inMemory>>
      /\ \/ accepted' = accepted \cup {<<val[v].tok, val[v].at, v>>}
         \/ accepted' = accepted
      /\ val \in [Validators -> Validation]
  BY DEF OwnsBlock, TokenInv, TokenTypeOK
<1>2. <<val[v].tok, val[v].at, v>> \in Claims
  BY <1>1 DEF Claims
<1>3. Claims' \subseteq Claims
  BY <1>0, <1>1, <1>2 DEF Claims
<1>4. accepted' \subseteq Tokens \X Nat \X Validators
  BY <1>1, <1>2, ClaimsType DEF TokenInv, TokenTypeOK
<1>5. TokenTypeOK' /\ Minted' /\ KeysOrdered'
  BY <1>0, <1>1, <1>4 DEF TokenInv, TokenTypeOK, Minted, KeysOrdered
<1>6. KeyHeld'
  BY <1>0, <1>1 DEF TokenInv, KeyHeld, Signed
<1>7. Kept' /\ OneClaim'
  BY <1>1, <1>3, ClaimsFrame
<1> QED  BY <1>5, <1>6, <1>7 DEF TokenInv

\* Time passes.
LEMMA TickKeeps == ASSUME TokenInv, TokenTick PROVE TokenInv'
<1> USE TokenAssumption
<1>1. /\ now \in Nat /\ now' = now + 1
      /\ UNCHANGED <<boot, kms, tok, nonce, val, accepted, inMemory>>
      /\ tok \in [Tokens -> Token \cup {Unset}]
  BY DEF TokenTick, TokenInv, TokenTypeOK
<1>2. Minted'
  BY <1>1 DEF TokenInv, Minted, Token
<1>3. TokenTypeOK' /\ KeysOrdered' /\ KeyHeld'
  BY SMTT(30), <1>1 DEF TokenInv, TokenTypeOK, KeysOrdered, KeyHeld, Signed
<1>4. Kept' /\ OneClaim'
  BY <1>1, ClaimsFrame DEF Claims
<1> QED  BY <1>2, <1>3, <1>4 DEF TokenInv

-----------------------------------------------------------------------------
\* The invariant holds in every state signers and validators can reach.
THEOREM TokenInvariance == TokenSpec => []TokenInv
<1>1. TokenInv /\ [TokenNext]_tokenVars => TokenInv'
  <2> SUFFICES ASSUME TokenInv, [TokenNext]_tokenVars PROVE TokenInv'
    OBVIOUS
  <2>1. CASE Rotate \/ Restart \/ TokenTick
    BY <2>1, RotateKeeps, RestartKeeps, TickKeeps
  <2>2. ASSUME NEW n \in Tokens, SigningKey(n) \/ SignClaims(n) PROVE TokenInv'
    BY <2>2, SigningKeyKeeps, SignClaimsKeeps
  <2>3. ASSUME NEW v \in Validators,
               \/ \E n \in Tokens : Present(v, n)
               \/ VerificationKey(v) \/ Consume(v) \/ OwnsBlock(v)
        PROVE  TokenInv'
    BY <2>3, CheckKeeps, ConsumeKeeps, OwnsBlockKeeps
  <2>4. CASE UNCHANGED tokenVars
    <3>1. TokenTypeOK' /\ KeysOrdered'
      BY <2>4 DEF tokenVars, TokenInv, TokenTypeOK, KeysOrdered
    <3>2. Minted' /\ KeyHeld'
      BY <2>4 DEF tokenVars, TokenInv, Minted, KeyHeld, Signed
    <3>3. Claims' \subseteq Claims /\ (\A n \in Tokens : Signed(n) => tok'[n] = tok[n])
          /\ UNCHANGED <<boot, nonce>>
      BY <2>4 DEF tokenVars, Claims
    <3> QED  BY <3>1, <3>2, <3>3, ClaimsFrame DEF TokenInv
  <2> QED  BY <2>1, <2>2, <2>3, <2>4 DEF TokenNext
<1> QED  BY TokenInitInv, <1>1, PTL DEF TokenSpec

\* Validate (hmac.go) accepts a token once before its expiry plus the skew,
\* with either nonce store, for any number of validators and restarts.
THEOREM AcceptedOnce == TokenSpec => []SingleUse
<1>1. TokenInv => SingleUse
  BY DEF TokenInv, OneClaim, SingleUse, Claims
<1> QED  BY TokenInvariance, <1>1, PTL

\* Rotations (keys.go) never invalidate a token younger than the overlap.
THEOREM RotationSafe == TokenSpec => []TokensOutliveRotation
<1>1. TokenInv => TokensOutliveRotation
  <2> SUFFICES ASSUME TokenInv, NEW n \in Tokens, tok[n] # Unset, tok[n].boot = boot,
                      now < tok[n].at + Overlap
               PROVE  Verifies(n)
    BY DEF TokensOutliveRotation
  <2>1. /\ tok[n] \in Token /\ tok[n].kv \in 1 .. kms.current
        /\ kms.superseded[tok[n].kv] # Unset => kms.superseded[tok[n].kv] >= tok[n].at
        /\ kms.superseded \in [1 .. MaxVersion -> Nat \cup {Unset}]
        /\ kms.current \in Nat /\ kms.current <= MaxVersion /\ now \in Nat
    BY DEF TokenInv, TokenTypeOK, Minted, KeysOrdered, Kms
  <2>2. Provisioned = kms
    BY <2>1 DEF Provisioned
  <2>3. tok[n].at \in Nat /\ Overlap \in Nat /\ tok[n].kv \in 1 .. MaxVersion
    BY <2>1, TokenAssumption DEF Token
  <2>4. Active(tok[n].kv)
    <3> DEFINE at == kms.superseded[tok[n].kv]
    <3>1. at \in Nat \cup {Unset} /\ (at # Unset => at >= tok[n].at)
      BY <2>1, <2>3
    <3>2. at # Unset => now < at + Overlap
      <4> HIDE DEF at
      <4> QED  BY <3>1, <2>1, <2>3
    <3> QED  BY <3>2 DEF Active
  <2> QED  BY <2>1, <2>2, <2>4 DEF Verifies
<1> QED  BY TokenInvariance, <1>1, PTL

=============================================================================
