----------------------------- MODULE FileStore ------------------------------
(***************************************************************************)
(* The memory backend without a database (`storage: type: file`,           *)
(* internal/memory/store/file_store.go): a JSON file read once when a      *)
(* process opens the store, and rewritten as a whole by every Save and     *)
(* Delete through a temporary file and a rename.                           *)
(*                                                                         *)
(* The mutex orders the goroutines of one process, so each process has at  *)
(* most one operation in progress; nothing orders processes.  The name of  *)
(* the temporary file is the same in all of them, hence the model keeps    *)
(* the directory (two names) and the inodes behind it.                     *)
(***************************************************************************)
EXTENDS Naturals

CONSTANTS
    Rows,       \* memories (a row is its random id: none is saved twice)
    Procs,      \* processes that open the store: a chat, `ai memory ...`
    Writers,    \* those that save or delete
    Inodes,     \* inodes of the directory
    None,       \* no inode
    MaxOps,     \* bound: Saves and Deletes
    MaxFaults   \* bound: errors and crashes

ASSUME FileStoreAssumption ==
    /\ Writers \subseteq Procs
    /\ None \notin Inodes
    /\ MaxOps \in Nat
    /\ MaxFaults \in Nat

VARIABLES
    data,       \* content of each inode
    path, tmp,  \* inode named memory.json, and memory.json.tmp
    pc,         \* where each process is
    mem,        \* s.rows of each process
    fd,         \* inode each process has open
    op,         \* the operation each process is in
    issued,     \* history: rows some Save was called for
    acked,      \* history: the last acknowledged operation on each row
    overlapped, \* history: were two writers ever open at the same time?
    ops, faults

vars == <<data, path, tmp, pc, mem, fd, op, issued, acked, overlapped, ops, faults>>

Content == [text : {"whole", "empty", "garbled"}, rows : SUBSET Rows]
EmptyFile == [text |-> "empty", rows |-> {}]
Garbled == [text |-> "garbled", rows |-> {}]
Whole(rs) == [text |-> "whole", rows |-> rs]

Flushing(p) == pc[p] \in {"create", "write", "rename"}

Outcomes == {"none", "saved", "deleted"}
Op == [row : Rows \cup {None}, kind : Outcomes]
NoOp == [row |-> None, kind |-> "none"]

Init ==
    /\ data = [i \in Inodes |-> EmptyFile]
    /\ path = None
    /\ tmp = None
    /\ pc = [p \in Procs |-> "closed"]
    /\ mem = [p \in Procs |-> {}]
    /\ fd = [p \in Procs |-> None]
    /\ op = [p \in Procs |-> NoOp]
    /\ issued = {}
    /\ acked = [r \in Rows |-> "none"]
    /\ overlapped = FALSE
    /\ ops = 0
    /\ faults = 0

-----------------------------------------------------------------------------
Started(p) ==
    /\ pc[p] = "closed"
    /\ pc' = [pc EXCEPT ![p] = "ready"]
    /\ overlapped' = (overlapped \/ (p \in Writers /\ \E q \in Writers : pc[q] # "closed"))
    /\ UNCHANGED <<data, path, tmp, fd, op, issued, acked, ops, faults>>

(* Mutant: the file is not loaded. *)
OpenUnread(p) == Started(p) /\ UNCHANGED mem

(* NewFileStore and load: a missing file is an empty store, and a file that
   does not parse keeps the process from starting. *)
Open(p) ==
    /\ Started(p)
    /\ \/ path = None /\ mem' = [mem EXCEPT ![p] = {}]
       \/ /\ path # None
          /\ data[path].text = "whole"
          /\ mem' = [mem EXCEPT ![p] = data[path].rows]

Begin(p, r, kind) ==
    /\ pc[p] = "ready"
    /\ ops < MaxOps
    /\ ops' = ops + 1
    /\ op' = [op EXCEPT ![p] = [row |-> r, kind |-> kind]]
    /\ acked' = [acked EXCEPT ![r] = "none"]
    /\ pc' = [pc EXCEPT ![p] = "create"]
    /\ UNCHANGED <<data, path, tmp, fd, overlapped, faults>>

(* Save and Delete change the map in memory, then flush. *)
Save(p, r) ==
    /\ r \notin issued
    /\ issued' = issued \cup {r}
    /\ Begin(p, r, "saved")
    /\ mem' = [mem EXCEPT ![p] = @ \cup {r}]

Delete(p, r) ==
    /\ Begin(p, r, "deleted")
    /\ UNCHANGED issued
    /\ mem' = [mem EXCEPT ![p] = @ \ {r}]

OpenFile(p, i) ==
    /\ pc[p] = "create"
    /\ data' = [data EXCEPT ![i] = EmptyFile]
    /\ fd' = [fd EXCEPT ![p] = i]
    /\ tmp' = i
    /\ pc' = [pc EXCEPT ![p] = "write"]
    /\ UNCHANGED <<path, mem, op, issued, acked, overlapped, ops, faults>>

Unused(i) == i # path /\ \A q \in Procs : fd[q] # i

(* Mutant: memory.json itself is rewritten. *)
CreateInPlace(p) ==
    \E i \in Inodes : (IF path # None THEN i = path ELSE Unused(i)) /\ OpenFile(p, i)

(* flush, os.WriteFile: open the temporary file, creating or truncating it ... *)
CreateTmp(p) ==
    \E i \in Inodes : (IF tmp # None THEN i = tmp ELSE Unused(i)) /\ OpenFile(p, i)

(* ... write it: over a text another process has written meanwhile, the tail
   of the longer one may remain ... *)
WriteTmp(p) ==
    /\ pc[p] = "write"
    /\ \/ data' = [data EXCEPT ![fd[p]] = Whole(mem[p])]
       \/ /\ data[fd[p]].text # "empty"
          /\ data' = [data EXCEPT ![fd[p]] = Garbled]
    /\ fd' = [fd EXCEPT ![p] = None]
    /\ pc' = [pc EXCEPT ![p] = "rename"]
    /\ UNCHANGED <<path, tmp, mem, op, issued, acked, overlapped, ops, faults>>

Return(p) ==
    /\ pc' = [pc EXCEPT ![p] = "ready"]
    /\ op' = [op EXCEPT ![p] = NoOp]

Renamed(p) ==
    /\ tmp # None
    /\ path' = tmp
    /\ tmp' = None
    /\ acked' = [acked EXCEPT ![op[p].row] = op[p].kind]
    /\ Return(p)
    /\ UNCHANGED <<data, mem, fd, issued, overlapped, ops, faults>>

(* Mutant: an error of the write is ignored. *)
RenameUnchecked(p) == pc[p] \in {"write", "rename"} /\ Renamed(p)

(* ... and rename whatever the temporary name stands for by now. *)
Rename(p) == pc[p] = "rename" /\ Renamed(p)

(* The temporary file is gone: another process has renamed it. *)
RenameMissing(p) ==
    /\ pc[p] = "rename"
    /\ tmp = None
    /\ Return(p)
    /\ UNCHANGED <<data, path, tmp, mem, fd, issued, acked, overlapped, ops, faults>>

(* Mutant: an error leaves the temporary file open. *)
FlushErrorOpen(p) ==
    /\ Flushing(p)
    /\ faults < MaxFaults
    /\ faults' = faults + 1
    /\ Return(p)
    /\ UNCHANGED <<data, path, tmp, mem, fd, issued, acked, overlapped, ops>>

(* An error of the file system: Save or Delete returns it; the map in memory
   stays changed. *)
FlushError(p) ==
    /\ Flushing(p)
    /\ faults < MaxFaults
    /\ faults' = faults + 1
    /\ fd' = [fd EXCEPT ![p] = None]
    /\ Return(p)
    /\ UNCHANGED <<data, path, tmp, mem, issued, acked, overlapped, ops>>

Stop(p) ==
    /\ mem' = [mem EXCEPT ![p] = {}]
    /\ fd' = [fd EXCEPT ![p] = None]
    /\ pc' = [pc EXCEPT ![p] = "closed"]
    /\ op' = [op EXCEPT ![p] = NoOp]
    /\ UNCHANGED <<data, path, tmp, issued, acked, overlapped, ops>>

(* The command is done. *)
Exit(p) == pc[p] = "ready" /\ Stop(p) /\ UNCHANGED faults

(* The process is killed, wherever it is. *)
Crash(p) ==
    /\ Flushing(p)
    /\ faults < MaxFaults
    /\ faults' = faults + 1
    /\ Stop(p)

Next ==
    \/ \E p \in Procs : Open(p) \/ Exit(p)
    \/ \E p \in Writers :
         \/ \E r \in Rows : Save(p, r) \/ Delete(p, r)
         \/ CreateTmp(p)
         \/ WriteTmp(p)
         \/ Rename(p)
         \/ RenameMissing(p)
         \/ FlushError(p)
         \/ Crash(p)

Spec == Init /\ [][Next]_vars

-----------------------------------------------------------------------------
(* Properties. *)

TypeOK ==
    /\ data \in [Inodes -> Content]
    /\ path \in Inodes \cup {None}
    /\ tmp \in Inodes \cup {None}
    /\ pc \in [Procs -> {"closed", "ready", "create", "write", "rename"}]
    /\ mem \in [Procs -> SUBSET Rows]
    /\ fd \in [Procs -> Inodes \cup {None}]
    /\ op \in [Procs -> Op]
    /\ issued \subseteq Rows
    /\ acked \in [Rows -> Outcomes]
    /\ overlapped \in BOOLEAN
    /\ ops \in Nat
    /\ faults \in Nat

Stored == IF path = None THEN {} ELSE data[path].rows
Reflects(rs) == \A r \in Rows : /\ acked[r] = "saved" => r \in rs
                                /\ acked[r] = "deleted" => r \notin rs

(* While no two writers have overlapped, a process that opens the store finds
   a complete file, at any point of a writer's flush and after any crash. *)
FileWhole == ~overlapped /\ path # None => data[path].text = "whole"

(* What Save or Delete returned without an error for is what the next process
   to open the store will see, again if no two writers have overlapped. *)
AckedOnDisk == ~overlapped => Reflects(Stored)

(* While no two writers have overlapped, every step of the store is a step of
   the durable set of rows it promises to be (DurableRows), or none. *)
Opened == {p \in Procs : pc[p] # "closed"}
Durable == INSTANCE DurableRows WITH durable <- Stored, opened <- Opened, view <- mem
DurableStep == ~overlapped' => [Durable!Next]_<<Stored, Opened, mem>>
StepsAreDurable == [][DurableStep]_vars

(* file_store.go:15 "it survives across invocations (so `memory add` and
   `sync` persist)": between operations, a row that was saved, and not
   deleted since, is in the file. *)
SavesPersist ==
    (\A p \in Procs : ~Flushing(p)) => \A r \in Rows : acked[r] = "saved" => r \in Stored

-----------------------------------------------------------------------------
(* The inductive invariant behind them (proved in FileStoreProofs). *)

WriterInv(p) ==
    /\ pc[p] = "write" => fd[p] = tmp /\ tmp # None /\ data[tmp] = EmptyFile
    /\ pc[p] = "rename" => tmp # None /\ data[tmp] = Whole(mem[p])
    /\ Flushing(p) => /\ op[p].row \in Rows /\ acked[op[p].row] = "none"
                      /\ op[p].kind = "saved" => op[p].row \in mem[p]
                      /\ op[p].kind = "deleted" => op[p].row \notin mem[p]
    /\ pc[p] # "closed" => Reflects(mem[p])

DiskInv ==
    /\ \A p \in Procs : pc[p] # "write" => fd[p] = None
    /\ \A p \in Procs \ Writers : pc[p] \in {"closed", "ready"}
    /\ tmp # None => tmp # path
    /\ ~overlapped =>
         /\ path # None => data[path].text = "whole"
         /\ Reflects(Stored)
         /\ \A p, q \in Writers : pc[p] # "closed" /\ pc[q] # "closed" => p = q
         /\ \A p \in Writers : WriterInv(p)

IInv == TypeOK /\ DiskInv
=============================================================================
