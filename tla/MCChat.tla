------------------------------- MODULE MCChat -------------------------------
(* Small instances of Chat. *)
EXTENDS Chat

ChatSymmetry == Permutations(Chats)
=============================================================================
