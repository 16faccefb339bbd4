------------------------------- MODULE MCIndex ------------------------------
(* A small instance of Index: one process syncs or adds a note, the other
   chats; a local embedder, and a model server configured with the
   size of its model and with another. *)
EXTENDS Index

MCEmbedders == {"hash3", "ollama2", "ollama3"}
MCIdOf == [e \in MCEmbedders |-> IF e \in {"ollama2", "ollama3"} THEN "ollama" ELSE e]
MCDimOf == [e \in MCEmbedders |-> IF e = "ollama2" THEN 2 ELSE 3]
MCNatural == [i \in {"hash3", "ollama"} |-> IF i = "hash3" THEN 3 ELSE 2]
MCCommands == [p \in Procs |-> IF p = "syncer" THEN {"sync", "add"} ELSE {"chat"}]
=============================================================================
