----------------------------- MODULE MCDerivation -----------------------------
(***************************************************************************)
(* A WAL of three messages, two of them INSERTs; the scanner wants both    *)
(* versions, OCR the first.                                                *)
(***************************************************************************)
EXTENDS Derivation

MCVersions == {1, 3}

MCWorkers == {"clamav", "ocr"}

MCMimeType == [v \in MCVersions |-> IF v = 1 THEN "image" ELSE "other"]

=============================================================================
