------------------------------ MODULE RedisLock -------------------------------
(***************************************************************************)
(* RedisLocker (internal/lock/redlock.go): a lock is a Redis key that      *)
(* holds the token of the last successful SET NX, until the token's owner  *)
(* deletes it or its TTL runs out.  The two Lua scripts compare the token  *)
(* before they touch the key.                                              *)
(***************************************************************************)
EXTENDS Naturals

CONSTANTS Resources, \* what can be locked
          Tokens,    \* the UUIDs of Acquire
          NoToken    \* no key, no token

ASSUME TokenAssumption == NoToken \notin Tokens

VARIABLE key   \* key[r]: aegis:lock:{r}

LockInit == key = [r \in Resources |-> NoToken]

LockTypeOK == key \in [Resources -> Tokens \cup {NoToken}]

\* SET NX PX succeeds.
SetNX(r, t) == /\ key[r] = NoToken
               /\ key' = [key EXCEPT ![r] = t]

\* Faulty variant: DEL without comparing the token.
Del(r, t) == key' = [key EXCEPT ![r] = NoToken]

\* unlockScript; when the token is not the key's, the answer is ErrLockExpired.
Unlock(r, t) == key' = IF key[r] = t THEN [key EXCEPT ![r] = NoToken] ELSE key

\* refreshScript: PEXPIRE, answered 0 when the token is not the key's.
Refreshed(r, t) == key[r] = t

\* The TTL runs out.
Expires(r) == /\ key[r] # NoToken
              /\ key' = [key EXCEPT ![r] = NoToken]

=============================================================================
