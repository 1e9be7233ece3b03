----------------------------- MODULE MCRunLedger -----------------------------
(* A ledger of at most two tasks out of three valid ids, with two invalid   *)
(* answers at the edges of (0, MaxTaskId].  Bytes and inodes are only       *)
(* compared for equality, so permuting them is a symmetry.                  *)
EXTENDS RunLedger, TLC

MCRawIds == 0..4
MCSymmetry == Permutations(Contents) \cup Permutations(Inodes)

=============================================================================
