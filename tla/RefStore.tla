------------------------------- MODULE RefStore -------------------------------
(***************************************************************************)
(* What the content-addressed registry promises (invariant I-1 of          *)
(* docs/ARCHITECTURE_VALIDATION.md, the comments on cas_blocks): a set of  *)
(* registered blocks and a set of references to them.  A file version      *)
(* references its blocks in one atomic step, which also registers them; a  *)
(* version's references are dropped together; and a block is dropped from  *)
(* the registry only when nothing references it.                           *)
(***************************************************************************)
CONSTANT AllBlocks

VARIABLES registered,  \* the blocks that are registered
          refs         \* references: records with fields `ver` and `block`

Init == registered = {} /\ refs = {}

BlocksOf(R) == {m.block : m \in R}

\* A new version references all its blocks.
Reference ==
    LET new == refs' \ refs IN
    /\ refs \subseteq refs'
    /\ new # {}
    /\ \A m \in new, o \in new : m.ver = o.ver
    /\ \A m \in new, o \in refs : m.ver # o.ver
    /\ registered' = registered \cup BlocksOf(new)

\* A version goes, and all its references with it.
Release(v) ==
    /\ refs' = {m \in refs : m.ver # v}
    /\ UNCHANGED registered

Reap(b) ==
    /\ b \in registered
    /\ b \notin BlocksOf(refs)
    /\ registered' = registered \ {b}
    /\ UNCHANGED refs

Next == \/ Reference
        \/ \E m \in refs : Release(m.ver)
        \/ \E b \in AllBlocks : Reap(b)

Spec == Init /\ [][Next]_<<registered, refs>>

=============================================================================
