----------------------------- MODULE MCAegisStore -----------------------------
(* AegisStore on small sets, for TLC. *)
EXTENDS AegisStore, TLC

CONSTANTS a, b

\* Lists of different lengths, a block listed twice, two different blocks.
MCFiles == {<<a>>, <<a, a>>, <<a, b>>}

\* Requests and sessions are interchangeable.
MCSymmetry == Permutations(Reqs) \cup Permutations(Sessions)

=============================================================================
