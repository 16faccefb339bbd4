---------------------------- MODULE MCFileStore -----------------------------
(* Small instances of FileStore. *)
EXTENDS FileStore, TLC

RowSymmetry == Permutations(Rows)
=============================================================================
