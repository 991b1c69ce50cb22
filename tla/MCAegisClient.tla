----------------------------- MODULE MCAegisClient -----------------------------
(* AegisClient on small sets, for TLC. *)
EXTENDS AegisClient

CONSTANTS a, b

\* Files that share a block.
MCFiles == {<<a>>, <<a, b>>}

\* Two blocks in both orders: commits can deadlock.
MCOrderedFiles == {<<a, b>>, <<b, a>>}

=============================================================================
