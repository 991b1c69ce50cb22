-------------------------------- MODULE MCUpload --------------------------------
(* Upload on small files, for TLC. *)
EXTENDS Upload

\* One byte leaves the low bits of the fingerprint zero, one does not.
MCGear == 0 :> 4 @@ 1 :> 1

\* A file of two equal chunks, and one that shares a chunk with it, takes two
\* reads and leaves a byte in the buffer between them.
MCFiles == {<<0, 0, 0, 0>>, <<1, 0, 0, 0, 0>>}

=============================================================================
