--------------------------- MODULE MCMemorySync ----------------------------
(* Small instances of MemorySync: a content of no chunk (an empty file) and of
   two, or of one chunk and of two. *)
EXTENDS MemorySync, TLC

MCContents == {"blank", "long"}
MCNChunks == [c \in MCContents |-> IF c = "long" THEN 2 ELSE 0]

(* For two syncers. *)
TwoContents == {"short", "long"}
TwoNChunks == [c \in TwoContents |-> IF c = "long" THEN 2 ELSE 1]
SyncerSymmetry == Permutations(Syncers)
=============================================================================
