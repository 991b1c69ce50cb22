-------------------------------- MODULE FastCdc --------------------------------
(***************************************************************************)
(* The content-defined chunker of the Go client                            *)
(* (internal/fastcdc/fastcdc.go).  A file is a sequence of bytes.  The     *)
(* masks have all their low bits set, so the test of a masked fingerprint  *)
(* is a test of divisibility.  NewWithConfig's defaults are not applied:   *)
(* the sizes are positive.                                                 *)
(***************************************************************************)
EXTENDS Naturals, SequencesExt

CONSTANTS Gear,      \* gearTable: a number for every byte
          MinChunk, AvgChunk, MaxChunk,
          MaskS,     \* MaskS + 1, a power of two
          MaskL,     \* MaskL + 1, a power of two
          Word       \* 2^32: the fingerprint is a uint32

ASSUME ChunkAssumption == /\ 0 < MinChunk
                          /\ MinChunk < AvgChunk
                          /\ AvgChunk <= MaxChunk
                          /\ MaskS > 0 /\ MaskL > 0 /\ Word > 0

\* The rolling fingerprint after the bytes of s.
Roll(fp, s) == FoldLeft(LAMBDA f, b : (f * 2 + Gear[b]) % Word, fp, s)

First(S) == CHOOSE k \in S : \A x \in S : k <= x

\* Where phase 1 cuts: sizes from MinChunk up to, without, AvgChunk.
SubAverage(data) ==
    {k \in MinChunk .. AvgChunk - 1 :
        k <= Len(data) /\ Roll(0, SubSeq(data, 1, k)) % MaskS = 0}

\* Where phase 2 cuts.  It starts over at the first byte, with the
\* fingerprint of AvgChunk bytes, and does not look at MinChunk.
PostAverage(data) ==
    {k \in 1 .. Len(data) :
        \/ k >= MaxChunk
        \/ Roll(Roll(0, SubSeq(data, 1, AvgChunk)), SubSeq(data, 1, k)) % MaskL = 0}

\* findCut; 0 is no cut.
FindCut(data) ==
    CASE SubAverage(data) # {} -> First(SubAverage(data))
      [] SubAverage(data) = {} /\ Len(data) >= AvgChunk /\ PostAverage(data) # {} ->
            First(PostAverage(data))
      [] OTHER -> 0

\* The loop of readUntilCut over a buffer: the sizes of the chunks it emits.
\* What is shorter than MinChunk waits for more bytes.
RECURSIVE Cuts(_, _)
Cuts(data, eof) ==
    IF data = <<>> \/ (Len(data) < MinChunk /\ ~eof) THEN <<>>
    ELSE LET cut == FindCut(data)
             len == IF cut = 0 THEN Len(data) ELSE cut
         IN  <<len>> \o Cuts(SubSeq(data, len + 1, Len(data)), eof)

Total(sizes) == FoldLeft(LAMBDA a, b : a + b, 0, sizes)

\* Faulty variant: the bytes left in the buffer are forgotten.
RECURSIVE ForgetRest(_, _)
ForgetRest(buf, rest) ==
    LET n   == IF Len(rest) < MaxChunk THEN Len(rest) ELSE MaxChunk
        eof == n < MaxChunk
        all == buf \o SubSeq(rest, 1, n)
    IN  Cuts(all, eof) \o
        (IF eof THEN <<>> ELSE ForgetRest(<<>>, SubSeq(rest, n + 1, Len(rest))))

\* readUntilCut, call after call: MaxChunk bytes are read behind what the
\* last call left; a short read is the end of the file.
RECURSIVE ReadUntilCut(_, _)
ReadUntilCut(buf, rest) ==
    LET n     == IF Len(rest) < MaxChunk THEN Len(rest) ELSE MaxChunk
        eof   == n < MaxChunk
        all   == buf \o SubSeq(rest, 1, n)
        sizes == Cuts(all, eof)
    IN  sizes \o
        (IF eof THEN <<>>
         ELSE ReadUntilCut(SubSeq(all, Total(sizes) + 1, Len(all)),
                           SubSeq(rest, n + 1, Len(rest))))

\* A chunk has a hash, an offset and a size.  Distinct contents have distinct
\* SHA-256 sums, so the content stands for its hash.
ChunkAll(file) ==
    LET sizes == ReadUntilCut(<<>>, file)
        Offset(i) == Total(SubSeq(sizes, 1, i - 1))
    IN  [i \in 1 .. Len(sizes) |->
            [hash |-> SubSeq(file, Offset(i) + 1, Offset(i) + sizes[i]),
             offset |-> Offset(i), size |-> sizes[i]]]

=============================================================================
