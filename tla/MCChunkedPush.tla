--------------------------- MODULE MCChunkedPush ---------------------------
(* Small instances of ChunkedPush for TLC: every file starts with two blocks. *)
EXTENDS ChunkedPush, TLC

TwoBlocks == [f \in Files |-> 2]

StreamSymmetry == Permutations(Streams)

=============================================================================
