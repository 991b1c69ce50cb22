------------------------------- MODULE MCGuards -------------------------------
(***************************************************************************)
(* The guards of the ingest API that keep state of their own: signed       *)
(* tokens, idempotency keys and the two rate limiters.  They share         *)
(* nothing, so a behaviour runs one of them, chosen at the start, and      *)
(* their state spaces add up instead of multiplying.                       *)
(***************************************************************************)
EXTENDS UploadTokens, Idempotency, TenantBucket, SlidingWindow

VARIABLE guard

guardVars == <<guard, tokenVars, idemVars, bucketVars, windowVars>>

GuardsInit == /\ guard \in {"tokens", "idempotency", "limiter", "window"}
              /\ TokenInit
              /\ IdemInit
              /\ BucketInit
              /\ WindowInit

GuardsNext ==
    /\ UNCHANGED guard
    /\ \/ guard = "tokens" /\ TokenNext
          /\ UNCHANGED <<idemVars, bucketVars, windowVars>>
       \/ guard = "idempotency" /\ IdemNext
          /\ UNCHANGED <<tokenVars, bucketVars, windowVars>>
       \/ guard = "limiter" /\ BucketNext
          /\ UNCHANGED <<tokenVars, idemVars, windowVars>>
       \/ guard = "window" /\ WindowNext
          /\ UNCHANGED <<tokenVars, idemVars, bucketVars>>

\* Redis drops a key when its TTL is over.
GuardsSpec == /\ GuardsInit
              /\ [][GuardsNext]_guardVars
              /\ WF_guardVars(/\ guard = "idempotency" /\ KeyExpires
                              /\ UNCHANGED <<guard, tokenVars, bucketVars, windowVars>>)

=============================================================================
