-------------------------- MODULE FileStoreProofs ---------------------------
(***************************************************************************)
(* Proofs about FileStore, for every set of rows, processes and inodes.    *)
(***************************************************************************)
EXTENDS FileStore, TLAPS

USE FileStoreAssumption

LEMMA NoOpType == NoOp \in Op
BY DEF NoOp, Op, Outcomes

LEMMA TypeInit == Init => TypeOK
<1> SUFFICES ASSUME Init PROVE TypeOK
  OBVIOUS
<1>1. EmptyFile \in Content
  BY DEF EmptyFile, Content
<1>2. data \in [Inodes -> Content] /\ op \in [Procs -> Op]
  BY <1>1, NoOpType DEF Init
<1> QED
  BY <1>2 DEF Init, TypeOK, Outcomes

(* Every step keeps the types. *)
LEMMA TypeStep == TypeOK /\ [Next]_vars => TypeOK'
<1> SUFFICES ASSUME TypeOK, [Next]_vars PROVE TypeOK'
  OBVIOUS
<1> USE DEF TypeOK
<1>1. ASSUME NEW p \in Procs, Open(p) PROVE TypeOK'
  BY <1>1 DEF Open, Started, Content
<1>2. ASSUME NEW p \in Procs, NEW r \in Rows, Save(p, r) PROVE TypeOK'
  BY <1>2 DEF Save, Begin, Op, Outcomes
<1>3. ASSUME NEW p \in Procs, NEW r \in Rows, Delete(p, r) PROVE TypeOK'
  BY <1>3 DEF Delete, Begin, Op, Outcomes
<1>4. ASSUME NEW p \in Procs, CreateTmp(p) PROVE TypeOK'
  BY <1>4 DEF CreateTmp, OpenFile, Unused, Content, EmptyFile
<1>5. ASSUME NEW p \in Procs, WriteTmp(p) PROVE TypeOK'
  <2>1. Whole(mem[p]) \in Content /\ Garbled \in Content
    BY DEF Whole, Garbled, Content
  <2>2. data' \in [Inodes -> Content]
    BY <1>5, <2>1 DEF WriteTmp
  <2> QED BY <1>5, <2>2 DEF WriteTmp
<1>6. ASSUME NEW p \in Procs, Rename(p) PROVE TypeOK'
  <2>1. op[p].kind \in Outcomes
    BY DEF Op
  <2>2. op' \in [Procs -> Op]
    BY <1>6, NoOpType DEF Rename, Renamed, Return
  <2>3. acked' \in [Rows -> Outcomes]
    BY <1>6, <2>1 DEF Rename, Renamed
  <2> QED BY <1>6, <2>2, <2>3 DEF Rename, Renamed, Return
<1>7. ASSUME NEW p \in Procs, RenameMissing(p) \/ FlushError(p) PROVE TypeOK'
  <2>1. op' \in [Procs -> Op]
    BY <1>7, NoOpType DEF RenameMissing, FlushError, Return
  <2> QED BY <1>7, <2>1 DEF RenameMissing, FlushError, Return
<1>8. ASSUME NEW p \in Procs, Exit(p) \/ Crash(p) PROVE TypeOK'
  <2>1. op' \in [Procs -> Op]
    BY <1>8, NoOpType DEF Exit, Crash, Stop
  <2> QED BY <1>8, <2>1 DEF Exit, Crash, Stop
<1>9. CASE UNCHANGED vars
  BY <1>9 DEF vars
<1> QED
  BY <1>1, <1>2, <1>3, <1>4, <1>5, <1>6, <1>7, <1>8, <1>9 DEF Next

(* Every variable keeps its type. *)
THEOREM TypeCorrect == Spec => []TypeOK
BY TypeInit, TypeStep, PTL DEF Spec

-----------------------------------------------------------------------------
LEMMA InitInv == Init => DiskInv
BY DEF Init, DiskInv, WriterInv, Flushing, Reflects, Stored

(* The invariant is inductive. *)
LEMMA InvStep == IInv /\ [Next]_vars => DiskInv'
<1> SUFFICES ASSUME TypeOK, DiskInv, TypeOK', [Next]_vars PROVE DiskInv'
  BY TypeStep DEF IInv
<1>1. ASSUME NEW p \in Procs, Open(p) PROVE DiskInv'
  <2>1. ~overlapped' => ~overlapped /\ (p \in Writers => \A q \in Writers : pc[q] = "closed")
    BY <1>1, Zenon DEF Open, Started
  <2>2. pc[p] = "closed" /\ pc' = [pc EXCEPT ![p] = "ready"]
    BY <1>1 DEF Open, Started
  <2>3. /\ pc' = [pc EXCEPT ![p] = "ready"]
        /\ mem' = [mem EXCEPT ![p] = mem'[p]] /\ mem'[p] = Stored
        /\ UNCHANGED <<data, path, tmp, fd, op, acked>>
    BY <1>1 DEF Open, Started, TypeOK, Stored
  <2>4. \A q \in Procs : pc'[q] # "write" => fd'[q] = None
    BY <2>2, <2>3 DEF TypeOK, DiskInv
  <2>5. \A q \in Procs \ Writers : pc'[q] \in {"closed", "ready"}
    BY <2>3 DEF TypeOK, DiskInv
  <2>6. tmp' # None => tmp' # path'
    BY <2>3 DEF DiskInv
  <2>7. ASSUME ~overlapped' PROVE /\ path' # None => data'[path'].text = "whole"
                                  /\ Reflects(Stored)'
                                  /\ \A q, t \in Writers : pc'[q] # "closed" /\ pc'[t] # "closed" => q = t
                                  /\ \A q \in Writers : WriterInv(q)'
    BY <2>1, <2>3, <2>7 DEF TypeOK, DiskInv, WriterInv, Flushing, Reflects, Stored
  <2> QED BY <2>4, <2>5, <2>6, <2>7, Zenon DEF DiskInv
<1>2. ASSUME NEW p \in Writers, NEW r \in Rows, Save(p, r) PROVE DiskInv'
  BY <1>2 DEF Save, Begin, TypeOK, DiskInv, WriterInv, Flushing, Reflects, Stored
<1>3. ASSUME NEW p \in Writers, NEW r \in Rows, Delete(p, r) PROVE DiskInv'
  BY <1>3 DEF Delete, Begin, TypeOK, DiskInv, WriterInv, Flushing, Reflects, Stored
<1>4. ASSUME NEW p \in Writers, CreateTmp(p) PROVE DiskInv'
  BY <1>4 DEF CreateTmp, OpenFile, Unused, TypeOK, DiskInv, WriterInv, Flushing, Reflects, Stored
<1>5. ASSUME NEW p \in Writers, WriteTmp(p) PROVE DiskInv'
  BY <1>5 DEF WriteTmp, TypeOK, DiskInv, WriterInv, Flushing, Reflects, Stored, EmptyFile
<1>6. ASSUME NEW p \in Writers, Rename(p) PROVE DiskInv'
  <2>1. /\ pc[p] = "rename" /\ pc' = [pc EXCEPT ![p] = "ready"]
        /\ tmp # None /\ path' = tmp /\ tmp' = None
        /\ acked' = [acked EXCEPT ![op[p].row] = op[p].kind]
        /\ UNCHANGED <<data, mem, fd>>
        /\ overlapped' = overlapped
    BY <1>6 DEF Rename, Renamed, Return
  <2>2. /\ \A q \in Procs : pc'[q] # "write" => fd'[q] = None
        /\ \A q \in Procs \ Writers : pc'[q] \in {"closed", "ready"}
    BY <2>1 DEF TypeOK, DiskInv
  <2>3. ASSUME ~overlapped PROVE /\ path' # None => data'[path'].text = "whole"
                                 /\ Reflects(Stored)'
                                 /\ \A q, t \in Writers : pc'[q] # "closed" /\ pc'[t] # "closed" => q = t
                                 /\ \A q \in Writers : WriterInv(q)'
    <3>1. WriterInv(p) /\ data[tmp] = Whole(mem[p]) /\ \A q \in Writers : pc[q] # "closed" => q = p
      BY <2>1, <2>3 DEF DiskInv, WriterInv
    <3>2. Reflects(mem[p])'
      BY <2>1, <3>1 DEF WriterInv, Flushing, Reflects, TypeOK
    <3>3. Stored' = mem[p] /\ data[tmp].text = "whole"
      BY <2>1, <3>1 DEF Stored, Whole
    <3>4. \A q \in Writers : q # p => pc'[q] = "closed"
      BY <2>1, <3>1 DEF TypeOK
    <3>5. pc'[p] = "ready"
      BY <2>1 DEF TypeOK
    <3>6. \A q \in Writers : WriterInv(q)'
      BY <2>1, <3>2, <3>4, <3>5 DEF WriterInv, Flushing
    <3> QED BY <2>1, <3>2, <3>3, <3>4, <3>5, <3>6 DEF Reflects
  <2> QED BY <2>1, <2>2, <2>3, Zenon DEF DiskInv
<1>7. ASSUME NEW p \in Writers, RenameMissing(p) \/ FlushError(p) PROVE DiskInv'
  BY <1>7 DEF RenameMissing, FlushError, Return, NoOp, TypeOK, DiskInv, WriterInv,
              Flushing, Reflects, Stored
<1>8. ASSUME NEW p \in Procs, Exit(p) \/ Crash(p) PROVE DiskInv'
  BY <1>8 DEF Exit, Crash, Stop, NoOp, TypeOK, DiskInv, WriterInv, Flushing, Reflects, Stored
<1>9. CASE UNCHANGED vars
  BY <1>9 DEF vars, DiskInv, WriterInv, Flushing, Reflects, Stored
<1> QED
  BY <1>1, <1>2, <1>3, <1>4, <1>5, <1>6, <1>7, <1>8, <1>9 DEF Next

(* The invariant holds for any number of processes, rows and inodes. *)
THEOREM Invariant == Spec => []IInv
BY TypeInit, InitInv, TypeStep, InvStep, PTL DEF Spec, IInv

(* As long as no two writers were open together, memory.json is complete
   whenever it exists: flush replaces it atomically, through any crash. *)
THEOREM FileWholeAlways == Spec => []FileWhole
<1>1. IInv => FileWhole
  BY DEF IInv, DiskInv, FileWhole
<1> QED
  BY <1>1, Invariant, PTL

(* As long as no two writers were open together, an acknowledged Save or
   Delete is what the next process reads. *)
THEOREM AckedOnDiskAlways == Spec => []AckedOnDisk
<1>1. IInv => AckedOnDisk
  BY DEF IInv, DiskInv, AckedOnDisk
<1> QED
  BY <1>1, Invariant, PTL

-----------------------------------------------------------------------------
(* One step of the file store is a step of the durable set, or none. *)
LEMMA Refines == IInv /\ [Next]_vars => DurableStep
<1> SUFFICES ASSUME TypeOK, DiskInv, [Next]_vars, ~overlapped'
             PROVE  [Durable!Next]_<<Stored, Opened, mem>>
  BY DEF IInv, DurableStep
<1> USE FileStoreAssumption DEF Opened
<1>1. ASSUME NEW p \in Procs, Open(p) PROVE Durable!Open(p)
  BY <1>1 DEF Open, Started, Stored, TypeOK, Durable!Open
<1>2. ASSUME NEW p \in Writers, NEW r \in Rows, Save(p, r) \/ Delete(p, r)
      PROVE  Durable!Change(p)
  <2>1. UNCHANGED <<Stored, Opened>> /\ p \in Opened
    BY <1>2 DEF Save, Delete, Begin, Stored, TypeOK
  <2> QED BY <1>2, <2>1 DEF Save, Delete, Durable!Change
<1>3. ASSUME NEW p \in Writers, CreateTmp(p) PROVE UNCHANGED <<Stored, Opened, mem>>
  BY <1>3 DEF CreateTmp, OpenFile, Unused, Stored, TypeOK, DiskInv
<1>4. ASSUME NEW p \in Writers, WriteTmp(p) PROVE UNCHANGED <<Stored, Opened, mem>>
  <2>1. ~overlapped
    BY <1>4 DEF WriteTmp
  <2>2. fd[p] = tmp /\ tmp # path /\ tmp # None
    BY <1>4, <2>1 DEF WriteTmp, DiskInv, WriterInv
  <2>3. UNCHANGED Opened
    BY <1>4 DEF WriteTmp, TypeOK
  <2> QED BY <1>4, <2>2, <2>3 DEF WriteTmp, Stored, TypeOK
<1>5. ASSUME NEW p \in Writers, Rename(p) PROVE Durable!Commit(p)
  <2>1. ~overlapped
    BY <1>5 DEF Rename, Renamed
  <2>2. data[tmp] = Whole(mem[p])
    BY <1>5, <2>1 DEF Rename, Renamed, DiskInv, WriterInv
  <2>3. UNCHANGED Opened /\ p \in Opened
    BY <1>5 DEF Rename, Renamed, Return, TypeOK
  <2> QED BY <1>5, <2>2, <2>3 DEF Rename, Renamed, Stored, Whole, Durable!Commit
<1>6. ASSUME NEW p \in Writers, RenameMissing(p) \/ FlushError(p)
      PROVE  UNCHANGED <<Stored, Opened, mem>>
  BY <1>6 DEF RenameMissing, FlushError, Flushing, Return, Stored, TypeOK
<1>7. ASSUME NEW p \in Procs, Exit(p) \/ Crash(p) PROVE Durable!Close(p)
  BY <1>7 DEF Exit, Crash, Flushing, Stop, Stored, TypeOK, Durable!Close
<1>8. CASE UNCHANGED vars
  BY <1>8 DEF vars, Stored
<1> QED
  BY <1>1, <1>2, <1>3, <1>4, <1>5, <1>6, <1>7, <1>8 DEF Next, Durable!Next

(* With one writer at a time the file store implements the durable set. *)
THEOREM StepsAreDurableAlways == Spec => StepsAreDurable
BY Invariant, Refines, PTL DEF Spec, StepsAreDurable
=============================================================================
