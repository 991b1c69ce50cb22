----------------------------- MODULE UploadTokens -----------------------------
(***************************************************************************)
(* The signed upload URLs of the ingest API: key versions of a tenant      *)
(* (internal/auth/keys.go), minting and validation (internal/auth/hmac.go) *)
(* and the nonce store (internal/auth/replay.go).                          *)
(*                                                                         *)
(* A token is named by its nonce.  HMAC is ideal: a signature verifies     *)
(* with the key that made it and no other.  The key of a version is told   *)
(* apart by the process that drew it, since StaticKMS lives in memory.     *)
(***************************************************************************)
EXTENDS Naturals, FiniteSets

CONSTANTS Tokens,     \* nonces of the tokens minted
          Validators, \* goroutines in Validate
          Unset,      \* not minted, no token
          TTL,        \* DefaultTokenTTL
          Skew,       \* DefaultClockSkew
          Overlap,    \* OverlapWindow
          MaxTime,    \* bound on the clock
          MaxVersion, \* bound on the key versions
          MaxBoots    \* bound on the restarts of the signer

ASSUME TokenAssumption == /\ {TTL, Skew, Overlap, MaxTime, MaxBoots} \subseteq Nat
                          /\ MaxVersion \in Nat \ {0}
                          /\ Unset \notin Tokens
                          /\ Unset \notin Nat

VARIABLES now,      \* the wall clock
          boot,     \* restarts of the signer; names the keys it draws
          kms,      \* StaticKMS: the tenant's versions and when superseded
          tok,      \* tok[n]: the signed token with nonce n
          inMemory, \* InMemoryNonceStore, not RedisNonceStore
          nonce,    \* nonce[n]: when the nonce n may be consumed again
          val,      \* val[v]: the validation v
          accepted  \* history: <<n, t, v>>: v accepted n, its nonce consumed at t

tokenVars == <<now, boot, kms, tok, inMemory, nonce, val, accepted>>

\* The next version is drawn but not yet used: versions are 1 .. current.
\* superseded[i] is the SupersededAt of version i, Unset for the zero time.
Kms == [current: Nat, superseded: [1 .. MaxVersion -> Nat \cup {Unset}]]

NoKeys == [current |-> 0, superseded |-> [i \in 1 .. MaxVersion |-> Unset]]

\* at is history: when SigningKey was called.
Token == [kv: Nat, boot: Nat, at: Nat, exp: Nat \cup {Unset}]

Validation == [pc: {"idle", "key", "consume", "own"}, tok: Tokens \cup {Unset},
               at: Nat]

NoValidation == [pc |-> "idle", tok |-> Unset, at |-> 0]

TokenTypeOK ==
    /\ now \in Nat
    /\ boot \in Nat
    /\ kms \in Kms
    /\ tok \in [Tokens -> Token \cup {Unset}]
    /\ inMemory \in BOOLEAN
    /\ nonce \in [Tokens -> Nat]
    /\ val \in [Validators -> Validation]
    /\ accepted \subseteq Tokens \X Nat \X Validators

TokenInit ==
    /\ now = 0
    /\ boot = 0
    /\ kms = NoKeys
    /\ tok = [n \in Tokens |-> Unset]
    /\ inMemory \in BOOLEAN
    /\ nonce = [n \in Tokens |-> 0]
    /\ val = [v \in Validators |-> NoValidation]
    /\ accepted = {}

-----------------------------------------------------------------------------
(* Keys *)

\* Auto-provisioning: a tenant without keys gets version 1.
Provisioned == IF kms.current = 0 THEN [kms EXCEPT !.current = 1] ELSE kms

\* KeyRecord.Active.
Active(i) == \/ kms.superseded[i] = Unset
             \/ now < kms.superseded[i] + Overlap

\* Faulty variant: the old version gets no overlap.
RotateDropsOld ==
    /\ kms.current \in 1 .. MaxVersion - 1
    /\ kms' = [current |-> kms.current + 1,
               superseded |-> [kms.superseded EXCEPT ![kms.current] = 0]]
    /\ UNCHANGED <<now, boot, tok, nonce, val, accepted, inMemory>>

Rotate ==
    /\ kms.current \in 1 .. MaxVersion - 1
    /\ kms' = [current |-> kms.current + 1,
               superseded |-> [kms.superseded EXCEPT ![kms.current] = now]]
    /\ UNCHANGED <<now, boot, tok, nonce, val, accepted, inMemory>>

\* The process restarts: keys are drawn anew; nonces stay if they are in Redis.
Restart ==
    /\ boot < MaxBoots
    /\ boot' = boot + 1
    /\ kms' = NoKeys
    /\ tok' = [n \in Tokens |-> IF tok[n] # Unset /\ tok[n].exp = Unset THEN Unset
                                ELSE tok[n]]
    /\ val' = [v \in Validators |-> NoValidation]
    /\ nonce' = IF inMemory THEN [n \in Tokens |-> 0] ELSE nonce
    /\ UNCHANGED <<now, inMemory, accepted>>

-----------------------------------------------------------------------------
(* SignClaims *)

\* SigningKey: the current version.
SigningKey(n) ==
    /\ tok[n] = Unset
    /\ kms' = Provisioned
    /\ tok' = [tok EXCEPT ![n] = [kv |-> Provisioned.current, boot |-> boot,
                                  at |-> now, exp |-> Unset]]
    /\ UNCHANGED <<now, boot, nonce, val, accepted, inMemory>>

\* The nonce is drawn, the expiry computed, the claims signed.
SignClaims(n) ==
    /\ tok[n] # Unset
    /\ tok[n].exp = Unset
    /\ tok' = [tok EXCEPT ![n].exp = now + TTL]
    /\ UNCHANGED <<now, boot, kms, nonce, val, accepted, inMemory>>

-----------------------------------------------------------------------------
(* Validate *)

\* Neither expired nor implausibly far out.
Fresh(n) == /\ tok[n].exp + Skew >= now
            /\ tok[n].exp <= now + TTL + Skew

\* Structure and freshness.
Present(v, n) ==
    /\ val[v].pc = "idle"
    /\ tok[n] # Unset
    /\ tok[n].exp # Unset
    /\ Fresh(n)
    /\ val' = [val EXCEPT ![v] = [pc |-> "key", tok |-> n, at |-> now]]
    /\ UNCHANGED <<now, boot, kms, tok, nonce, accepted, inMemory>>

\* The version is known to this process and active, and its key made the
\* signature.
Verifies(n) == /\ tok[n].kv <= Provisioned.current
               /\ Active(tok[n].kv)
               /\ tok[n].boot = boot

\* VerificationKey and the comparison of the signatures.
VerificationKey(v) ==
    /\ val[v].pc = "key"
    /\ kms' = Provisioned
    /\ val' = [val EXCEPT ![v] = IF Verifies(@.tok) THEN [@ EXCEPT !.pc = "consume"]
                                 ELSE NoValidation]
    /\ UNCHANGED <<now, boot, tok, nonce, accepted, inMemory>>

\* Faulty variant: the nonce is kept for the token's lifetime only.
ConsumeForTTL(v) ==
    LET n == val[v].tok
    IN  /\ val[v].pc = "consume"
        /\ IF nonce[n] > now
           THEN /\ val' = [val EXCEPT ![v] = NoValidation]
                /\ UNCHANGED nonce
           ELSE /\ nonce' = [nonce EXCEPT ![n] = now + TTL]
                /\ val' = [val EXCEPT ![v] = [@ EXCEPT !.pc = "own", !.at = now]]
        /\ UNCHANGED <<now, boot, kms, tok, accepted, inMemory>>

\* Consume: SET NX EX ttl+skew, or the same in a map under a mutex; a replay,
\* or a store that cannot be reached or whose answer is lost, fails the
\* validation.
Consume(v) ==
    LET n == val[v].tok
    IN  /\ val[v].pc = "consume"
        /\ \/ /\ nonce[n] <= now
              /\ nonce' = [nonce EXCEPT ![n] = now + TTL + Skew]
              /\ \/ val' = [val EXCEPT ![v] = [@ EXCEPT !.pc = "own", !.at = now]]
                 \/ ~inMemory /\ val' = [val EXCEPT ![v] = NoValidation]
           \/ /\ nonce[n] > now \/ ~inMemory
              /\ val' = [val EXCEPT ![v] = NoValidation]
              /\ UNCHANGED nonce
        /\ UNCHANGED <<now, boot, kms, tok, accepted, inMemory>>

\* OwnsBlock, where a checker is installed: the nonce is gone either way.
OwnsBlock(v) ==
    /\ val[v].pc = "own"
    /\ \/ accepted' = accepted \cup {<<val[v].tok, val[v].at, v>>}
       \/ UNCHANGED accepted
    /\ val' = [val EXCEPT ![v] = NoValidation]
    /\ UNCHANGED <<now, boot, kms, tok, nonce, inMemory>>

TokenTick ==
    /\ now < MaxTime
    /\ now' = now + 1
    /\ UNCHANGED <<boot, kms, tok, nonce, val, accepted, inMemory>>

-----------------------------------------------------------------------------
TokenNext ==
    \/ Rotate \/ Restart \/ TokenTick
    \/ \E n \in Tokens : SigningKey(n) \/ SignClaims(n)
    \/ \E v \in Validators : \/ \E n \in Tokens : Present(v, n)
                             \/ VerificationKey(v) \/ Consume(v) \/ OwnsBlock(v)

TokenSpec == TokenInit /\ [][TokenNext]_tokenVars

-----------------------------------------------------------------------------
(* Properties *)

\* "Validation consumes the nonce exactly once": however validators interleave
\* and however long one pauses between its checks, of the acceptances of a
\* token that happen before its expiry plus the clock skew there is one.  A
\* restart that empties an in-memory store forgets the keys as well.
SingleUse ==
    \A x, y \in accepted :
        /\ x[1] = y[1]
        /\ x[2] < tok[x[1]].exp + Skew
        /\ y[2] < tok[x[1]].exp + Skew
        => x = y

\* "in-flight pre-signed URLs survive rotation": while the process that signed
\* a token lives, the token's version can be refused only when Overlap has
\* passed since it was the signing version, whatever rotations happened.
TokensOutliveRotation ==
    \A n \in Tokens :
        tok[n] # Unset /\ tok[n].boot = boot /\ now < tok[n].at + Overlap
            => Verifies(n)

=============================================================================
