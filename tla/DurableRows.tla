---------------------------- MODULE DurableRows -----------------------------
(***************************************************************************)
(* What the file-backed memory store promises: a durable set of rows.  A   *)
(* process works on a private view, read when it opens the store.  A       *)
(* writer changes its view row by row and commits the view as a whole; a   *)
(* process that ends loses its view, never what was committed.             *)
(***************************************************************************)
CONSTANTS
    Rows,       \* memories
    Procs,      \* processes that open the store
    Writers     \* those that save or delete

VARIABLES
    durable,    \* rows a process that opens the store now will see
    opened,     \* processes that have it open
    view        \* rows each of them sees

vars == <<durable, opened, view>>

Init ==
    /\ durable = {}
    /\ opened = {}
    /\ view = [p \in Procs |-> {}]

Open(p) ==
    /\ p \notin opened
    /\ opened' = opened \cup {p}
    /\ view' = [view EXCEPT ![p] = durable]
    /\ UNCHANGED durable

Change(p) ==
    /\ p \in opened
    /\ \E r \in Rows : view' = [view EXCEPT ![p] = @ \cup {r}]
                    \/ view' = [view EXCEPT ![p] = @ \ {r}]
    /\ UNCHANGED <<durable, opened>>

Commit(p) ==
    /\ p \in opened
    /\ durable' = view[p]
    /\ UNCHANGED <<opened, view>>

Close(p) ==
    /\ p \in opened
    /\ opened' = opened \ {p}
    /\ view' = [view EXCEPT ![p] = {}]
    /\ UNCHANGED durable

Next ==
    \/ \E p \in Procs : Open(p) \/ Close(p)
    \/ \E p \in Writers : Change(p) \/ Commit(p)

Spec == Init /\ [][Next]_vars
=============================================================================
