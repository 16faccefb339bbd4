-------------------------- MODULE MemorySyncProofs --------------------------
(***************************************************************************)
(* Proofs about MemorySync, for every set of documents, contents and       *)
(* syncers, and every bound on edits, commands and faults.                 *)
(***************************************************************************)
EXTENDS MemorySync, FiniteSetTheorems, TLAPS

USE ConstantsAssumption

-----------------------------------------------------------------------------
(* Types. *)

(* The values a process and the state file are reset to are of their types. *)
LEMMA ResetTypes == NoView \in View /\ NoJob \in Job /\ NoEntry \in Entry
BY DEF NoView, View, NoJob, Job, NoEntry, Entry

(* Saving a row keeps the table a function from ids to rows. *)
LEMMA SaveType ==
    ASSUME TypeOK, NEW id \in Nat, NEW r \in Row, Save(id, r)
    PROVE  /\ rows' \in [DOMAIN rows' -> Row]
           /\ DOMAIN rows' = Live \cup {id}
           /\ DOMAIN rows' \subseteq Nat
BY DEF TypeOK, Save, Live

(* So does deleting one. *)
LEMMA DeleteType ==
    ASSUME TypeOK, NEW id, Delete(id)
    PROVE  /\ rows' \in [DOMAIN rows' -> Row]
           /\ DOMAIN rows' = Live \ {id}
           /\ DOMAIN rows' \subseteq Nat
BY DEF TypeOK, Delete, Live

(* The end of a process keeps the types of what it held. *)
LEMMA ExitType ==
    ASSUME TypeOK, NEW s \in Syncers, Exit(s)
    PROVE  /\ pc' \in [Syncers -> {"idle", "list", "walk", "replace", "forget", "write"}]
           /\ st' \in [Syncers -> View]
           /\ todo' \in [Syncers -> SUBSET Paths]
           /\ seen' \in [Syncers -> SUBSET Paths]
           /\ job' \in [Syncers -> Job]
BY ResetTypes DEF TypeOK, Exit

(* Every step of every process and of the user keeps the types. *)
LEMMA TypeStep == TypeOK /\ [Next]_vars => TypeOK'
<1> SUFFICES ASSUME TypeOK, [Next]_vars PROVE TypeOK'
  OBVIOUS
<1> USE DEF fileVars, procVars, storeVars, userVars, runVars
<1>1. ASSUME NEW s \in Syncers, LoadState(s) PROVE TypeOK'
  BY <1>1 DEF TypeOK, LoadState, Live
<1>2. ASSUME NEW s \in Syncers, ListDir(s) PROVE TypeOK'
  BY <1>2 DEF TypeOK, ListDir, Live
<1>3. ASSUME NEW s \in Syncers, NEW p \in Paths, VisitUnchanged(s, p) PROVE TypeOK'
  BY <1>3 DEF TypeOK, VisitUnchanged, Live
<1>4. ASSUME NEW s \in Syncers, NEW p \in Paths, VisitChanged(s, p) PROVE TypeOK'
  <2>1. st[s][p] \in Entry
    BY DEF TypeOK, View
  <2>2. [path |-> p, content |-> disk[p], drop |-> st[s][p].ids,
         ids |-> {}, part |-> 1] \in Job
    BY <2>1 DEF TypeOK, Job, Entry
  <2> QED BY <1>4, <2>2 DEF TypeOK, VisitChanged, Visited, Live
<1>5. ASSUME NEW s \in Syncers, NEW p \in Paths, VisitGone(s, p) PROVE TypeOK'
  <2>1. st[s][p] \in Entry
    BY DEF TypeOK, View
  <2>2. [path |-> p, content |-> Absent, drop |-> st[s][p].ids,
         ids |-> {}, part |-> 1] \in Job
    BY <2>1 DEF TypeOK, Job, Entry
  <2> QED BY <1>5, <2>2 DEF TypeOK, VisitGone, Gone, Live
<1>6. ASSUME NEW s \in Syncers, NEW p \in Paths, VisitVanished(s, p) PROVE TypeOK'
  <2>1. Exit(s)
    BY <1>6 DEF VisitVanished, EndEarly
  <2>2. pc'[s] = "idle" /\ (\A t \in Syncers \ {s} : pc'[t] = pc[t] /\ job'[t] = job[t])
    BY <2>1 DEF TypeOK, Exit
  <2>3. \A t \in Syncers : /\ pc'[t] \in {"replace", "forget"} => job'[t].path \in Paths
                           /\ pc'[t] = "replace" => job'[t].content \in Contents
    BY <2>2 DEF TypeOK
  <2> HIDE DEF Exit
  <2>4. UNCHANGED <<disk, rows, nextId, saved, file, past, reverted, tampered>>
    BY <1>6 DEF VisitVanished, EndEarly, fileVars, storeVars, userVars
  <2>5. UNCHANGED <<edits, commands, faults>> /\ failed' = TRUE /\ last' = "dirty"
    BY <1>6 DEF VisitVanished, EndEarly, userVars
  <2> QED BY <2>1, <2>3, <2>4, <2>5, ExitType DEF TypeOK, Live
<1>7. ASSUME NEW s \in Syncers, NEW id \in job[s].drop, DeleteStale(s, id) PROVE TypeOK'
  <2>1. job[s] \in Job
    BY DEF TypeOK
  <2>2. [job[s] EXCEPT !.drop = @ \ {id}] \in Job
    BY <2>1 DEF Job
  <2>3. job' = [job EXCEPT ![s] = [job[s] EXCEPT !.drop = @ \ {id}]]
    BY <1>7 DEF DeleteStale
  <2>4. job' \in [Syncers -> Job]
    BY <2>2, <2>3 DEF TypeOK
  <2>5. \A t \in Syncers : job'[t].path = job[t].path /\ job'[t].content = job[t].content
    BY <2>1, <2>3 DEF TypeOK, Job
  <2>6. Delete(id)
    BY <1>7 DEF DeleteStale
  <2> QED BY <1>7, <2>4, <2>5, <2>6, DeleteType DEF TypeOK, DeleteStale, Live
<1>8. ASSUME NEW s \in Syncers, SaveChunk(s) PROVE TypeOK'
  <2>1. job[s] \in Job /\ job[s].path \in Paths /\ job[s].content \in Contents
    BY <1>8 DEF TypeOK, SaveChunk
  <2>2. [job[s] EXCEPT !.ids = @ \cup {nextId}, !.part = @ + 1] \in Job
    <3>1. nextId \in Nat
      BY DEF TypeOK
    <3>2. job[s].ids \cup {nextId} \in SUBSET Nat /\ job[s].part + 1 \in Nat
      BY <2>1, <3>1 DEF Job
    <3> QED BY <2>1, <3>2 DEF Job
  <2>3. job' = [job EXCEPT ![s] = [job[s] EXCEPT !.ids = @ \cup {nextId}, !.part = @ + 1]]
    BY <1>8 DEF SaveChunk
  <2>4. job' \in [Syncers -> Job]
    BY <2>2, <2>3 DEF TypeOK
  <2>5. \A t \in Syncers : job'[t].path = job[t].path /\ job'[t].content = job[t].content
    BY <2>1, <2>3 DEF TypeOK, Job
  <2>6. [owner |-> job[s].path, content |-> job[s].content, part |-> job[s].part] \in Row
    BY <2>1 DEF Row, Job
  <2>7. nextId \in Nat /\ nextId' \in Nat
    BY <1>8 DEF SaveChunk, TypeOK
  <2>8. /\ rows' \in [DOMAIN rows' -> Row]
        /\ DOMAIN rows' \subseteq Nat
    BY <1>8, <2>6, <2>7, SaveType DEF SaveChunk
  <2> QED BY <1>8, <2>4, <2>5, <2>7, <2>8 DEF TypeOK, SaveChunk, Live
<1>9. ASSUME NEW s \in Syncers, Replaced(s) PROVE TypeOK'
  <2>1. job[s] \in Job /\ job[s].path \in Paths /\ st[s] \in View
    BY <1>9 DEF TypeOK, Replaced, Record
  <2>2. [hash |-> job[s].content, ids |-> job[s].ids] \in Entry
    BY <2>1 DEF Job, Entry
  <2>3. st' \in [Syncers -> View]
    BY <1>9, <2>1, <2>2 DEF TypeOK, Replaced, Record, View
  <2> QED BY <1>9, <2>3, ResetTypes DEF TypeOK, Replaced, Record, Live
<1>10. ASSUME NEW s \in Syncers, Forgotten(s) PROVE TypeOK'
  <2>1. st[s] \in View
    BY DEF TypeOK
  <2>2. st' \in [Syncers -> View]
    BY <1>10, <2>1, ResetTypes DEF TypeOK, Forgotten, View
  <2> QED BY <1>10, <2>2, ResetTypes DEF TypeOK, Forgotten, Live
<1>11. ASSUME NEW s \in Syncers, TruncateState(s) PROVE TypeOK'
  BY <1>11, ResetTypes DEF TypeOK, TruncateState, Live
<1>12. ASSUME NEW s \in Syncers, WriteState(s) PROVE TypeOK'
  <2>1. Exit(s)
    BY <1>12 DEF WriteState
  <2> QED BY <1>12, <2>1, ExitType, ResetTypes DEF TypeOK, WriteState, Exit, Live
<1>13. ASSUME NEW s \in Syncers, Abort(s) PROVE TypeOK'
  <2>1. Exit(s)
    BY <1>13 DEF Abort, EndEarly
  <2>2. \A t \in Syncers : pc'[t] = "idle" \/ (pc'[t] = pc[t] /\ job'[t] = job[t])
    BY <2>1 DEF Exit, TypeOK
  <2>3. failed' = TRUE /\ last' = "dirty" /\ faults' = faults + 1
    BY <1>13 DEF Abort, EndEarly
  <2> QED BY <1>13, <2>1, <2>2, <2>3, ExitType DEF TypeOK, Abort, EndEarly, Live
<1>14. ASSUME NEW p \in Paths, NEW c \in Contents \cup {Absent}, EditFile(p, c) PROVE TypeOK'
  BY <1>14 DEF TypeOK, EditFile, Live
<1>15. ASSUME NEW c \in Contents, AddNote(c) PROVE TypeOK'
  <2>1. [owner |-> Note, content |-> c, part |-> 1] \in Row
    BY DEF Row
  <2>2. nextId \in Nat /\ nextId' \in Nat
    BY <1>15 DEF AddNote, TypeOK
  <2>3. /\ rows' \in [DOMAIN rows' -> Row]
        /\ DOMAIN rows' \subseteq Nat
    BY <1>15, <2>1, <2>2, SaveType DEF AddNote
  <2> QED BY <1>15, <2>2, <2>3 DEF TypeOK, AddNote, Live
<1>16. ASSUME NEW id \in Live, RemoveRow(id) PROVE TypeOK'
  <2>1. rows[id].owner \in Paths \cup {Note}
    BY DEF TypeOK, Row
  <2>2. Delete(id)
    BY <1>16 DEF RemoveRow
  <2>3. rows' \in [DOMAIN rows' -> Row] /\ DOMAIN rows' \subseteq Nat
    BY <2>2, DeleteType
  <2>4. tampered' \subseteq Paths \cup {Note} /\ commands' \in Nat
    BY <1>16, <2>1 DEF RemoveRow, TypeOK
  <2> QED BY <1>16, <2>3, <2>4 DEF TypeOK, RemoveRow, Live
<1>17. CASE UNCHANGED vars
  BY <1>17 DEF TypeOK, vars, Live
<1>18. CASE RemoveState
  BY <1>18, ResetTypes DEF TypeOK, RemoveState, Live
<1> QED
  BY <1>1, <1>2, <1>3, <1>4, <1>5, <1>6, <1>7, <1>8, <1>9, <1>10, <1>11, <1>12,
     <1>13, <1>14, <1>15, <1>16, <1>17, <1>18 DEF Next, Progress, User

(* The initial states are of the types. *)
LEMMA TypeInit == Init => TypeOK
<1> SUFFICES ASSUME Init PROVE TypeOK
  OBVIOUS
<1>1. Live = {} /\ rows \in [Live -> Row]
  BY DEF Init, Live
<1>2. /\ pc \in [Syncers -> {"idle", "list", "walk", "replace", "forget", "write"}]
      /\ \A s \in Syncers : pc[s] = "idle"
  BY DEF Init
<1>3. st \in [Syncers -> View] /\ job \in [Syncers -> Job] /\ saved \in View
  BY ResetTypes DEF Init
<1>4. past \in [Paths -> SUBSET Contents]
  BY DEF Init
<1> QED BY <1>1, <1>2, <1>3, <1>4 DEF Init, TypeOK

(* Every variable keeps its type, and a syncer that replaces or forgets a
   document holds that document's path and content. *)
THEOREM TypeCorrect == Spec => []TypeOK
BY TypeInit, TypeStep, PTL DEF Spec

-----------------------------------------------------------------------------
(* The inductive invariant.  Frame collects what every step guarantees to the
   entries it does not touch: rows keep their contents and ids are not reused,
   a path never returns to an earlier content without being excused, and a row
   of the version on disk is never deleted. *)

Frame ==
    /\ nextId <= nextId'
    /\ Excused \subseteq Excused'
    /\ \A p \in Paths : past[p] \subseteq past'[p]
    /\ \A id \in Live' : id < nextId => id \in Live /\ rows'[id] = rows[id]
    /\ \A p \in Paths : p \notin Excused' /\ disk'[p] \in past[p] => disk'[p] = disk[p]
    /\ \A id \in Live \ Live' :
         rows[id].owner \in Paths /\ rows[id].owner \notin Excused' =>
           rows[id].content # disk'[rows[id].owner]

(* OwnIds and HasParts after the step, for arguments taken before it. *)
OwnIdsAfter(p, h, ids) ==
    \A id \in ids :
        id < nextId' /\ (id \in Live' => rows'[id].owner = p /\ rows'[id].content = h)
HasPartsAfter(ids, n) == \A k \in 1..n : \E id \in ids \cap Live' : rows'[id].part = k

(* Ids of a version of a document remain ids of it. *)
LEMMA FrameOwnIds ==
    ASSUME TypeOK, TypeOK', Frame, NEW p, NEW h, NEW ids \in SUBSET Nat, OwnIds(p, h, ids)
    PROVE  OwnIdsAfter(p, h, ids)
<1> SUFFICES ASSUME NEW id \in ids
             PROVE  id < nextId' /\ (id \in Live' => rows'[id].owner = p /\ rows'[id].content = h)
  BY DEF OwnIdsAfter
<1>1. id < nextId /\ (id \in Live => rows[id].owner = p /\ rows[id].content = h)
  BY DEF OwnIds
<1>2. id \in Nat /\ nextId \in Nat /\ nextId' \in Nat
  BY DEF TypeOK
<1> QED BY <1>1, <1>2 DEF Frame

(* The chunks stored of the version on disk remain stored. *)
LEMMA FrameHasParts ==
    ASSUME TypeOK, Frame, NEW p \in Paths, NEW ids \in SUBSET Nat, NEW n,
           p \notin Excused', OwnIds(p, disk'[p], ids), HasParts(ids, n)
    PROVE  HasPartsAfter(ids, n)
<1> SUFFICES ASSUME NEW k \in 1..n
             PROVE  \E id \in ids \cap Live' : rows'[id].part = k
  BY DEF HasPartsAfter
<1>1. PICK id \in ids \cap Live : rows[id].part = k
  BY DEF HasParts
<1>2. id < nextId /\ rows[id].owner = p /\ rows[id].content = disk'[p]
  BY <1>1 DEF OwnIds
<1>3. id \in Live'
  BY <1>1, <1>2 DEF Frame
<1> QED BY <1>1, <1>2, <1>3 DEF Frame

(* An entry remains true of its document. *)
LEMMA FrameEntry ==
    ASSUME TypeOK, TypeOK', Frame, NEW p \in Paths, NEW e \in Entry, EntryInv(p, e)
    PROVE  EntryInv(p, e)'
<1>1. e.ids \in SUBSET Nat
  BY DEF Entry
<1>2. OwnIds(p, e.hash, e.ids) /\ OwnIdsAfter(p, e.hash, e.ids)
  BY <1>1, FrameOwnIds DEF EntryInv
<1>3. SUFFICES ASSUME p \notin Excused', e.hash # Absent
               PROVE  /\ e.hash \in past'[p]
                      /\ disk'[p] = e.hash => Complete(e)'
  BY <1>2 DEF EntryInv, OwnIds, OwnIdsAfter
<1>4. p \notin Excused
  BY <1>3 DEF Frame
<1>5. e.hash \in past[p] /\ (disk[p] = e.hash => Complete(e))
  BY <1>3, <1>4 DEF EntryInv
<1>6. e.hash \in past'[p]
  BY <1>5 DEF Frame
<1>7. ASSUME disk'[p] = e.hash PROVE HasPartsAfter(e.ids, NChunks[e.hash])
  <2>1. disk[p] = e.hash
    BY <1>3, <1>5, <1>7 DEF Frame
  <2>2. HasParts(e.ids, NChunks[e.hash])
    BY <1>5, <2>1 DEF Complete
  <2> QED BY <1>1, <1>2, <1>3, <1>7, <2>2, FrameHasParts
<1> QED BY <1>6, <1>7 DEF Complete, HasParts, HasPartsAfter

(* A loaded version that is not on disk remains so. *)
LEMMA FrameStale ==
    ASSUME TypeOK, Frame, NEW s \in Syncers, NEW p \in Paths,
           EntryInv(p, st[s][p]), Stale(s, p),
           p \notin Excused', st[s][p].hash # Absent
    PROVE  disk'[p] # st[s][p].hash
<1>1. p \notin Excused
  BY DEF Frame
<1>2. st[s][p].hash \in past[p] /\ disk[p] # st[s][p].hash
  BY <1>1 DEF EntryInv, Stale
<1> QED BY <1>2 DEF Frame

(* What is known of the document a syncer works on is so after any step. *)
LEMMA FrameJob ==
    ASSUME TypeOK, Frame, NEW s \in Syncers, SyncerInv(s), TypeOK',
           pc[s] \in {"replace", "forget"}, NEW j, j = job[s]
    PROVE  /\ j.path \notin Excused' /\ st[s][j.path].hash # Absent =>
                disk'[j.path] # st[s][j.path].hash
           /\ OwnIdsAfter(j.path, st[s][j.path].hash, j.drop)
           /\ pc[s] = "replace" =>
                /\ j.path \in seen[s]
                /\ OwnIdsAfter(j.path, j.content, j.ids)
                /\ j.path \notin Excused' =>
                     /\ j.content \in past'[j.path]
                     /\ disk'[j.path] = j.content => HasPartsAfter(j.ids, j.part - 1)
<1>1. j \in Job /\ j.path \in Paths
  BY DEF TypeOK
<1>2. JobInv(s) /\ EntryInv(j.path, st[s][j.path])
  BY <1>1 DEF SyncerInv
<1>3. Stale(s, j.path) /\ OwnIds(j.path, st[s][j.path].hash, j.drop)
  BY <1>2 DEF JobInv
<1>4. j.drop \in SUBSET Nat /\ j.ids \in SUBSET Nat
  BY <1>1 DEF Job
<1>5. j.path \notin Excused' /\ st[s][j.path].hash # Absent =>
        disk'[j.path] # st[s][j.path].hash
  BY <1>1, <1>2, <1>3, FrameStale
<1>6. OwnIdsAfter(j.path, st[s][j.path].hash, j.drop)
  BY <1>3, <1>4, FrameOwnIds
<1>7. ASSUME pc[s] = "replace"
      PROVE  /\ j.path \in seen[s]
             /\ OwnIdsAfter(j.path, j.content, j.ids)
             /\ j.path \notin Excused' =>
                  /\ j.content \in past'[j.path]
                  /\ disk'[j.path] = j.content => HasPartsAfter(j.ids, j.part - 1)
  <2>1. OwnIds(j.path, j.content, j.ids) /\ j.path \in seen[s]
    BY <1>2, <1>7 DEF JobInv
  <2>2. OwnIdsAfter(j.path, j.content, j.ids)
    BY <2>1, <1>4, FrameOwnIds
  <2>3. ASSUME j.path \notin Excused'
        PROVE  /\ j.content \in past'[j.path]
               /\ disk'[j.path] = j.content => HasPartsAfter(j.ids, j.part - 1)
    <3>1. j.path \notin Excused
      BY <2>3 DEF Frame
    <3>2. j.content \in past[j.path]
      BY <1>2, <1>7, <3>1 DEF JobInv
    <3>3. j.content \in past'[j.path]
      BY <1>1, <3>2 DEF Frame
    <3>4. ASSUME disk'[j.path] = j.content PROVE HasPartsAfter(j.ids, j.part - 1)
      <4>1. disk[j.path] = j.content
        BY <1>1, <2>3, <3>2, <3>4 DEF Frame
      <4>2. HasParts(j.ids, j.part - 1)
        BY <1>2, <1>7, <3>1, <4>1 DEF JobInv
      <4> QED BY <1>1, <1>4, <2>1, <2>3, <3>4, <4>2, FrameHasParts
    <3> QED BY <3>3, <3>4
  <2> QED BY <2>1, <2>2, <2>3
<1> QED BY <1>5, <1>6, <1>7

(* The entries a syncer has loaded, after a step that does not change them. *)
LEMMA FrameView ==
    ASSUME TypeOK, TypeOK', Frame, NEW s \in Syncers, SyncerInv(s), st'[s] = st[s]
    PROVE  \A p \in Paths : EntryInv(p, st[s][p])'
<1> TAKE p \in Paths
<1> DEFINE e == st[s][p]
<1>1. e \in Entry /\ EntryInv(p, e) /\ st'[s][p] = e
  BY DEF SyncerInv, TypeOK, View
<1> HIDE DEF e
<1> QED BY <1>1, FrameEntry DEF EntryInv, OwnIds, Complete, HasParts

(* So do the versions it knows to be gone from the disk. *)
LEMMA FrameGone ==
    ASSUME TypeOK, Frame, NEW s \in Syncers, SyncerInv(s), st'[s] = st[s],
           pc[s] \in {"walk", "replace", "forget"}
    PROVE  \A p \in Paths \ (todo[s] \cup seen[s]) : Stale(s, p)'
<1> TAKE p \in Paths \ (todo[s] \cup seen[s])
<1>1. Stale(s, p) /\ EntryInv(p, st[s][p])
  BY DEF SyncerInv
<1> QED BY <1>1, FrameStale DEF Stale

(* A syncer that a step leaves alone keeps its part of the invariant. *)
LEMMA FrameSyncer ==
    ASSUME TypeOK, TypeOK', Frame, NEW s \in Syncers, SyncerInv(s),
           pc'[s] = pc[s], st'[s] = st[s], job'[s] = job[s],
           todo'[s] = todo[s], seen'[s] = seen[s]
    PROVE  SyncerInv(s)'
<1>1. ASSUME pc[s] \in {"replace", "forget"} PROVE JobInv(s)'
  BY <1>1, FrameJob DEF JobInv, Stale, OwnIds, OwnIdsAfter, HasParts, HasPartsAfter
<1> QED BY <1>1, FrameView, FrameGone DEF SyncerInv

(* A step that leaves the store and the user's state alone. *)
LEMMA FrameQuiet ==
    ASSUME TypeOK, UNCHANGED <<rows, nextId, disk, past, reverted, tampered>>
    PROVE  Frame
BY DEF TypeOK, Frame, Excused, Live

(* Saving a row under a fresh id. *)
LEMMA FrameSave ==
    ASSUME TypeOK, IdsIssued, NEW r, Save(nextId, r), nextId' = nextId + 1,
           UNCHANGED <<disk, past, reverted, tampered>>
    PROVE  Frame
<1>1. Live' = Live \cup {nextId} /\ \A id \in Live : id # nextId => rows'[id] = rows[id]
  BY DEF Save, Live
<1> QED BY <1>1 DEF TypeOK, IdsIssued, Frame, Excused

(* Deleting a row that is not one of the version on disk. *)
LEMMA FrameDelete ==
    ASSUME TypeOK, NEW id, Delete(id), nextId' = nextId,
           UNCHANGED <<disk, past, reverted>>, tampered \subseteq tampered',
           id \in Live => \/ rows[id].owner \notin Paths
                          \/ rows[id].owner \in Excused'
                          \/ rows[id].content # disk[rows[id].owner]
    PROVE  Frame
<1>1. Live' = Live \ {id} /\ \A i \in Live' : rows'[i] = rows[i]
  BY DEF Delete, Live
<1> QED BY <1>1 DEF TypeOK, Frame, Excused

(* The frame holds of every step. *)
LEMMA FrameStep == IInv /\ [Next]_vars => Frame
<1> SUFFICES ASSUME IInv, [Next]_vars PROVE Frame
  OBVIOUS
<1>0. TypeOK /\ IdsIssued
  BY DEF IInv
<1> USE DEF fileVars, procVars, storeVars, userVars, runVars
<1>1. ASSUME NEW s \in Syncers, NEW id \in job[s].drop, DeleteStale(s, id) PROVE Frame
  <2> DEFINE j == job[s]
  <2>1. j.path \in Paths /\ JobInv(s) /\ id \in j.drop
    BY <1>0, <1>1 DEF TypeOK, IInv, SyncerInv, DeleteStale
  <2>2. id \in Live => rows[id].owner = j.path /\ rows[id].content = st[s][j.path].hash
    BY <2>1 DEF JobInv, OwnIds
  <2>3. id \in Live => rows[id].content # Absent
    BY <1>0 DEF TypeOK, Row
  <2>4. id \in Live /\ j.path \notin Excused => disk[j.path] # st[s][j.path].hash
    BY <2>1, <2>2, <2>3 DEF JobInv, Stale
  <2>5. Delete(id) /\ nextId' = nextId /\ UNCHANGED <<disk, past, reverted, tampered>>
    BY <1>1 DEF DeleteStale
  <2>6. Excused' = Excused
    BY <2>5 DEF Excused
  <2> HIDE DEF j
  <2> QED BY <1>0, <2>1, <2>2, <2>4, <2>5, <2>6, FrameDelete
<1>2. ASSUME NEW s \in Syncers, SaveChunk(s) PROVE Frame
  BY <1>0, <1>2, FrameSave DEF SaveChunk
<1>3. ASSUME NEW p \in Paths, NEW c \in Contents \cup {Absent}, EditFile(p, c) PROVE Frame
  <2>1. /\ disk' = [disk EXCEPT ![p] = c]
        /\ past' = [past EXCEPT ![p] = @ \cup ({c} \ {Absent})]
        /\ reverted' = reverted \cup {q \in {p} : c \in past[q]}
        /\ rows' = rows /\ nextId' = nextId /\ tampered' = tampered
    BY <1>3 DEF EditFile
  <2>2. Live' = Live /\ Excused \subseteq Excused'
    BY <2>1 DEF Live, Excused
  <2>3. \A q \in Paths : past[q] \subseteq past'[q]
    BY <1>0, <2>1 DEF TypeOK
  <2>4. c \in past[p] => p \in Excused'
    BY <2>1 DEF Excused
  <2>5. \A q \in Paths : q \notin Excused' /\ disk'[q] \in past[q] => disk'[q] = disk[q]
    BY <1>0, <2>1, <2>4 DEF TypeOK
  <2> QED BY <1>0, <2>1, <2>2, <2>3, <2>5 DEF Frame, TypeOK
<1>4. ASSUME NEW c \in Contents, AddNote(c) PROVE Frame
  BY <1>0, <1>4, FrameSave DEF AddNote
<1>5. ASSUME NEW id \in Live, RemoveRow(id) PROVE Frame
  <2>1. rows[id].owner \in Excused'
    BY <1>5 DEF RemoveRow, Excused
  <2> QED BY <1>0, <1>5, <2>1, FrameDelete DEF RemoveRow
<1>6. ASSUME UNCHANGED <<rows, nextId, disk, past, reverted, tampered>> PROVE Frame
  BY <1>0, <1>6, FrameQuiet
<1> QED
  BY <1>1, <1>2, <1>3, <1>4, <1>5, <1>6
     DEF Next, Progress, User, LoadState, ListDir, VisitUnchanged, VisitChanged, Visited,
         VisitGone, Gone, VisitVanished, Replaced, Record, Forgotten, TruncateState, WriteState,
         Abort, EndEarly, RemoveState, vars

(* A process that ends, and a fresh view, satisfy the invariant. *)
LEMMA FreshEntry ==
    ASSUME NEW p \in Paths
    PROVE  EntryInv(p, NoEntry) /\ EntryInv(p, NoEntry)'
BY DEF EntryInv, NoEntry, OwnIds

LEMMA ResetSyncer ==
    ASSUME TypeOK, NEW s \in Syncers, Exit(s)
    PROVE  SyncerInv(s)'
<1>1. pc'[s] = "idle" /\ st'[s] = NoView
  BY DEF Exit, TypeOK
<1>2. \A p \in Paths : st'[s][p] = NoEntry
  BY <1>1 DEF NoView
<1>3. \A p \in Paths : EntryInv(p, st[s][p])'
  BY <1>2, FreshEntry DEF EntryInv, OwnIds, NoEntry
<1> QED BY <1>1, <1>3 DEF SyncerInv

(* The views a step does not change keep the invariant. *)
LEMMA FrameSaved ==
    ASSUME IInv, TypeOK', Frame, saved' = saved
    PROVE  \A p \in Paths : EntryInv(p, saved[p])'
<1> TAKE p \in Paths
<1> DEFINE e == saved[p]
<1>1. e \in Entry /\ EntryInv(p, e) /\ saved'[p] = e /\ TypeOK
  BY DEF IInv, TypeOK, View
<1> HIDE DEF e
<1> QED BY <1>1, FrameEntry DEF EntryInv, OwnIds, Complete, HasParts

(* A step that resets the state file leaves no entry to keep. *)
LEMMA ResetSaved ==
    ASSUME saved' = NoView
    PROVE  \A p \in Paths : EntryInv(p, saved[p])'
BY FreshEntry DEF NoView, EntryInv, OwnIds, NoEntry

(* Ids stay issued and the contents on disk stay known. *)
LEMMA HistoryStep == IInv /\ TypeOK' /\ [Next]_vars => IdsIssued' /\ PastKnown'
<1> SUFFICES ASSUME IInv, TypeOK', [Next]_vars PROVE IdsIssued' /\ PastKnown'
  OBVIOUS
<1>0. TypeOK /\ IdsIssued /\ PastKnown
  BY DEF IInv
<1> USE DEF fileVars, procVars, storeVars, userVars, runVars
<1>1. ASSUME NEW r, Save(nextId, r), nextId' = nextId + 1, UNCHANGED <<disk, past>>
      PROVE  IdsIssued' /\ PastKnown'
  BY <1>0, <1>1 DEF Save, Live, TypeOK, IdsIssued, PastKnown
<1>2. ASSUME NEW id, Delete(id), UNCHANGED <<nextId, disk, past>>
      PROVE  IdsIssued' /\ PastKnown'
  BY <1>0, <1>2 DEF Delete, Live, IdsIssued, PastKnown
<1>3. ASSUME NEW p \in Paths, NEW c \in Contents \cup {Absent}, EditFile(p, c)
      PROVE  IdsIssued' /\ PastKnown'
  BY <1>0, <1>3 DEF EditFile, Live, TypeOK, IdsIssued, PastKnown
<1>4. ASSUME UNCHANGED <<rows, nextId, disk, past>> PROVE IdsIssued' /\ PastKnown'
  BY <1>0, <1>4 DEF Live, IdsIssued, PastKnown
<1>5. ASSUME NEW s \in Syncers, Progress(s) \/ Abort(s) PROVE IdsIssued' /\ PastKnown'
  BY <1>1, <1>2, <1>4, <1>5
     DEF Progress, LoadState, ListDir, VisitUnchanged, VisitChanged, Visited, VisitGone, Gone,
         VisitVanished, DeleteStale, SaveChunk, Replaced, Record, Forgotten, TruncateState,
         WriteState, Abort, EndEarly
<1> QED
  BY <1>1, <1>2, <1>3, <1>4, <1>5 DEF Next, User, AddNote, RemoveRow, RemoveState, vars

(* The step of a syncer keeps that syncer's part of the invariant. *)
LEMMA ProgressInv ==
    ASSUME IInv, TypeOK', Frame, NEW s \in Syncers, Progress(s)
    PROVE  SyncerInv(s)'
<1>0. TypeOK /\ PastKnown /\ SyncerInv(s)
  BY DEF IInv
<1> USE DEF fileVars, procVars, storeVars, userVars, runVars
<1>1. CASE LoadState(s)
  <2>1. st'[s] = saved /\ pc'[s] = "list"
    BY <1>0, <1>1 DEF LoadState, TypeOK
  <2>2. ASSUME NEW p \in Paths PROVE EntryInv(p, st[s][p])'
    <3> DEFINE e == saved[p]
    <3>1. e \in Entry /\ EntryInv(p, e) /\ st'[s][p] = e
      BY <1>0, <2>1 DEF IInv, TypeOK, View
    <3> HIDE DEF e
    <3> QED BY <1>0, <3>1, FrameEntry DEF EntryInv, OwnIds, Complete, HasParts
  <2> QED BY <2>1, <2>2 DEF SyncerInv
<1>2. CASE ListDir(s)
  <2>1. /\ st' = st /\ disk' = disk /\ pc'[s] = "walk"
        /\ todo'[s] = {p \in Paths : disk[p] # Absent}
    BY <1>0, <1>2 DEF ListDir, TypeOK
  <2>2. \A p \in Paths \ todo'[s] : Stale(s, p)'
    BY <2>1 DEF Stale
  <2> QED BY <1>0, <2>1, <2>2, FrameView DEF SyncerInv
<1>3. CASE \E p \in Paths : VisitUnchanged(s, p)
  <2>1. /\ st' = st /\ pc[s] = "walk" /\ pc'[s] = "walk"
        /\ todo'[s] \cup seen'[s] = todo[s] \cup seen[s]
        /\ UNCHANGED <<disk, reverted, tampered>>
    BY <1>0, <1>3 DEF VisitUnchanged, TypeOK
  <2>2. \A p \in Paths \ (todo'[s] \cup seen'[s]) : Stale(s, p)'
    BY <1>0, <2>1 DEF Stale, SyncerInv, Excused
  <2> QED BY <1>0, <2>1, <2>2, FrameView DEF SyncerInv
<1>4. CASE \E p \in Paths : VisitChanged(s, p)
  <2>1. PICK p \in Paths : VisitChanged(s, p)
    BY <1>4
  <2> DEFINE j == [path |-> p, content |-> disk[p], drop |-> st[s][p].ids,
                   ids |-> {}, part |-> 1]
  <2>2. /\ st' = st /\ pc[s] = "walk" /\ pc'[s] = "replace" /\ job'[s] = j
        /\ todo'[s] \cup seen'[s] = todo[s] \cup seen[s]
        /\ UNCHANGED <<rows, nextId, disk, past, reverted, tampered>>
        /\ disk[p] # Absent /\ disk[p] # st[s][p].hash
    BY <1>0, <2>1 DEF VisitChanged, Visited, TypeOK
  <2>3. /\ \A q \in Paths \ (todo'[s] \cup seen'[s]) : Stale(s, q)'
        /\ p \in seen'[s]
    BY <1>0, <2>1, <2>2, FrameGone DEF VisitChanged, Visited, TypeOK
  <2>4. OwnIds(p, st[s][p].hash, st[s][p].ids) /\ disk[p] \in past[p]
    BY <1>0, <2>2 DEF SyncerInv, EntryInv, PastKnown
  <2>5. JobInv(s)'
    BY <2>2, <2>3, <2>4 DEF JobInv, Stale, OwnIds, HasParts, Excused, Live
  <2> QED BY <1>0, <2>2, <2>3, <2>5, FrameView DEF SyncerInv
<1>5. CASE \E p \in Paths : VisitGone(s, p)
  <2>1. PICK p \in Paths : VisitGone(s, p)
    BY <1>5
  <2> DEFINE j == [path |-> p, content |-> Absent, drop |-> st[s][p].ids,
                   ids |-> {}, part |-> 1]
  <2>2. /\ st' = st /\ pc[s] = "walk" /\ pc'[s] = "forget" /\ job'[s] = j
        /\ todo'[s] = todo[s] /\ seen'[s] = seen[s]
        /\ UNCHANGED <<rows, nextId, disk, past, reverted, tampered>>
        /\ p \in Paths \ (todo[s] \cup seen[s])
    BY <1>0, <2>1 DEF VisitGone, Gone, TypeOK
  <2>3. \A q \in Paths \ (todo'[s] \cup seen'[s]) : Stale(s, q)'
    BY <1>0, <2>2, FrameGone
  <2>4. OwnIds(p, st[s][p].hash, st[s][p].ids)
    BY <1>0 DEF SyncerInv, EntryInv
  <2>5. JobInv(s)'
    BY <2>2, <2>3, <2>4 DEF JobInv, OwnIds, Live
  <2> QED BY <1>0, <2>2, <2>3, <2>5, FrameView DEF SyncerInv
<1>6. CASE \E p \in Paths : VisitVanished(s, p)
  BY <1>0, <1>6, ResetSyncer DEF VisitVanished, EndEarly
<1>7. CASE \E id \in job[s].drop : DeleteStale(s, id)
  <2>1. PICK id \in job[s].drop : DeleteStale(s, id)
    BY <1>7
  <2> DEFINE j == job[s]
  <2>2. j \in Job
    BY <1>0 DEF TypeOK
  <2>3. /\ st' = st /\ pc' = pc /\ todo' = todo /\ seen' = seen
        /\ pc[s] \in {"replace", "forget"}
        /\ job'[s] = [j EXCEPT !.drop = @ \ {id}]
    BY <1>0, <2>1 DEF DeleteStale, TypeOK
  <2>4. /\ job'[s].path = j.path /\ job'[s].content = j.content
        /\ job'[s].ids = j.ids /\ job'[s].part = j.part
        /\ job'[s].drop = j.drop \ {id}
    BY <2>2, <2>3 DEF Job
  <2> HIDE DEF j
  <2>5. JobInv(s)'
    BY <1>0, <2>3, <2>4, FrameJob
       DEF j, JobInv, Stale, OwnIds, OwnIdsAfter, HasParts, HasPartsAfter
  <2> QED BY <1>0, <2>3, <2>5, FrameView, FrameGone DEF SyncerInv
<1>8. CASE SaveChunk(s)
  <2> DEFINE j == job[s]
             r == [owner |-> j.path, content |-> j.content, part |-> j.part]
  <2>1. j \in Job /\ nextId \in Nat
    BY <1>0 DEF TypeOK
  <2>2. /\ st' = st /\ pc' = pc /\ todo' = todo /\ seen' = seen
        /\ pc[s] = "replace" /\ j.drop = {} /\ nextId' = nextId + 1
        /\ job'[s] = [j EXCEPT !.ids = @ \cup {nextId}, !.part = @ + 1]
        /\ UNCHANGED <<disk, past, reverted, tampered>>
    BY <1>0, <1>8 DEF SaveChunk, TypeOK
  <2>3. /\ job'[s].path = j.path /\ job'[s].content = j.content /\ job'[s].drop = {}
        /\ job'[s].ids = j.ids \cup {nextId} /\ job'[s].part = j.part + 1
    BY <2>1, <2>2 DEF Job
  <2>4. nextId \in Live' /\ rows'[nextId] = r
    BY <1>8 DEF SaveChunk, Save, Live
  <2>5. j.part \in Nat
    BY <2>1 DEF Job
  <2>6. OwnIdsAfter(j.path, j.content, j.ids \cup {nextId})
    BY <1>0, <2>1, <2>2, <2>4, FrameJob DEF OwnIdsAfter
  <2>7. HasPartsAfter(j.ids, j.part - 1) => HasPartsAfter(j.ids \cup {nextId}, j.part)
    BY <2>4, <2>5 DEF HasPartsAfter
  <2>8. (j.part + 1) - 1 = j.part
    BY <2>5
  <2> HIDE DEF j
  <2>9. /\ j.path \notin Excused' /\ st[s][j.path].hash # Absent =>
             disk'[j.path] # st[s][j.path].hash
        /\ j.path \in seen[s]
        /\ j.path \notin Excused' =>
             /\ j.content \in past'[j.path]
             /\ disk'[j.path] = j.content => HasPartsAfter(j.ids, j.part - 1)
    BY <1>0, <2>2, FrameJob DEF j
  <2>10. JobInv(s)'
    BY <2>2, <2>3, <2>6, <2>7, <2>8, <2>9
       DEF JobInv, Stale, OwnIds, OwnIdsAfter, HasParts, HasPartsAfter
  <2> QED BY <1>0, <2>2, <2>10, FrameView, FrameGone DEF SyncerInv
<1>9. CASE Replaced(s)
  <2> DEFINE j == job[s]
             e == [hash |-> j.content, ids |-> j.ids]
  <2>1. j \in Job /\ j.path \in Paths /\ j.content \in Contents /\ st[s] \in View
    BY <1>0, <1>9 DEF TypeOK, Replaced, Record
  <2>2. /\ st'[s] = [st[s] EXCEPT ![j.path] = e]
        /\ pc[s] = "replace" /\ pc'[s] = "walk"
        /\ j.part > NChunks[j.content]
        /\ UNCHANGED <<rows, nextId, disk, past, reverted, tampered, todo, seen>>
    BY <1>0, <1>9 DEF Replaced, Record, TypeOK
  <2>3. EntryInv(j.path, e)
    <3>1. JobInv(s)
      BY <1>0, <2>2 DEF SyncerInv
    <3>2. NChunks[j.content] \in Nat /\ j.part \in Nat
      BY <2>1 DEF Job
    <3>3. ASSUME HasParts(j.ids, j.part - 1) PROVE HasParts(j.ids, NChunks[j.content])
      BY <2>2, <3>2, <3>3 DEF HasParts
    <3> QED BY <2>2, <3>1, <3>3 DEF JobInv, EntryInv, Complete
  <2>4. \A p \in Paths : st'[s][p] = IF p = j.path THEN e ELSE st[s][p]
    BY <2>1, <2>2 DEF View
  <2>5. \A p \in Paths : EntryInv(p, st'[s][p])
    BY <1>0, <2>3, <2>4 DEF SyncerInv
  <2>6. ASSUME NEW p \in Paths PROVE EntryInv(p, st[s][p])'
    <3>1. EntryInv(p, st'[s][p])
      BY <2>5
    <3> QED BY <2>2, <3>1 DEF EntryInv, OwnIds, Complete, HasParts, Live, Excused
  <2>7. ASSUME NEW p \in Paths \ (todo[s] \cup seen[s]) PROVE Stale(s, p)'
    <3>1. Stale(s, p) /\ p # j.path
      BY <1>0, <2>2 DEF SyncerInv, JobInv
    <3> QED BY <2>2, <2>4, <3>1 DEF Stale, Excused
  <2> QED BY <2>2, <2>6, <2>7 DEF SyncerInv
<1>10. CASE Forgotten(s)
  <2> DEFINE j == job[s]
  <2>1. j.path \in Paths /\ st[s] \in View
    BY <1>0, <1>10 DEF TypeOK, Forgotten
  <2>2. /\ st'[s] = [st[s] EXCEPT ![j.path] = NoEntry]
        /\ pc[s] = "forget" /\ pc'[s] = "walk"
        /\ UNCHANGED <<rows, nextId, disk, past, reverted, tampered, todo, seen>>
    BY <1>0, <1>10 DEF Forgotten, TypeOK
  <2>3. \A p \in Paths : st'[s][p] = IF p = j.path THEN NoEntry ELSE st[s][p]
    BY <2>1, <2>2 DEF View
  <2>4. \A p \in Paths : EntryInv(p, st'[s][p])
    BY <1>0, <2>3, FreshEntry DEF SyncerInv
  <2>5. \A p \in Paths : EntryInv(p, st[s][p])'
    BY <2>2, <2>4 DEF EntryInv, OwnIds, Complete, HasParts, Live, Excused
  <2>6. \A p \in Paths \ (todo[s] \cup seen[s]) : Stale(s, p)'
    BY <1>0, <2>2, <2>3 DEF Stale, Excused, SyncerInv, NoEntry
  <2> QED BY <2>2, <2>5, <2>6 DEF SyncerInv
<1>11. CASE TruncateState(s)
  <2>1. st' = st /\ pc'[s] = "write"
    BY <1>0, <1>11 DEF TruncateState, TypeOK
  <2> QED BY <1>0, <2>1, FrameView DEF SyncerInv
<1>12. CASE WriteState(s)
  BY <1>0, <1>12, ResetSyncer DEF WriteState
<1> QED
  BY <1>1, <1>2, <1>3, <1>4, <1>5, <1>6, <1>7, <1>8, <1>9, <1>10, <1>11, <1>12
     DEF Progress

(* The invariant is inductive. *)
LEMMA InvStep == IInv /\ [Next]_vars => IInv'
<1> SUFFICES ASSUME IInv, [Next]_vars PROVE IInv'
  OBVIOUS
<1>1. TypeOK /\ TypeOK' /\ Frame
  BY TypeStep, FrameStep DEF IInv
<1>2. IdsIssued' /\ PastKnown'
  BY <1>1, HistoryStep
<1>3. ASSUME NEW s \in Syncers, Progress(s) \/ Abort(s)
      PROVE  /\ \A p \in Paths : EntryInv(p, saved[p])'
             /\ \A t \in Syncers : SyncerInv(t)'
  <2>1. \A p \in Paths : EntryInv(p, saved[p])'
    <3>1. CASE saved' = saved
      BY <1>1, <3>1, FrameSaved
    <3>2. CASE saved' = NoView
      BY <3>2, ResetSaved
    <3>3. CASE WriteState(s) /\ saved' = st[s]
      <4> TAKE p \in Paths
      <4> DEFINE e == st[s][p]
      <4>1. e \in Entry /\ EntryInv(p, e) /\ saved'[p] = e
        BY <1>1, <3>3 DEF IInv, SyncerInv, TypeOK, View
      <4> HIDE DEF e
      <4> QED BY <1>1, <4>1, FrameEntry DEF EntryInv, OwnIds, Complete, HasParts
    <3> QED
      BY <1>3, <3>1, <3>2, <3>3
         DEF Progress, LoadState, ListDir, VisitUnchanged, VisitChanged, Visited, VisitGone, Gone,
             VisitVanished, DeleteStale, SaveChunk, Replaced, Record, Forgotten, TruncateState,
             WriteState, Abort, EndEarly, fileVars, storeVars
  <2>2. SyncerInv(s)'
    <3>1. CASE Progress(s)
      BY <1>1, <3>1, ProgressInv
    <3>2. CASE Abort(s)
      BY <1>1, <3>2, ResetSyncer DEF Abort, EndEarly
    <3> QED BY <1>3, <3>1, <3>2
  <2>3. ASSUME NEW t \in Syncers, t # s PROVE SyncerInv(t)'
    <3>1. /\ pc'[t] = pc[t] /\ st'[t] = st[t] /\ job'[t] = job[t]
          /\ todo'[t] = todo[t] /\ seen'[t] = seen[t]
      BY <1>1, <1>3, <2>3
         DEF Progress, LoadState, ListDir, VisitUnchanged, VisitChanged, Visited, VisitGone, Gone,
             VisitVanished, DeleteStale, SaveChunk, Replaced, Record, Forgotten, TruncateState,
             WriteState, Abort, EndEarly, Exit, TypeOK
    <3>2. SyncerInv(t)
      BY DEF IInv
    <3> QED BY <1>1, <3>1, <3>2, FrameSyncer
  <2> QED BY <2>1, <2>2, <2>3
<1>4. ASSUME UNCHANGED <<saved, pc, st, todo, seen, job>>
      PROVE  /\ \A p \in Paths : EntryInv(p, saved[p])'
             /\ \A t \in Syncers : SyncerInv(t)'
  BY <1>1, <1>4, FrameSaved, FrameSyncer DEF IInv
<1>5. ASSUME RemoveState
      PROVE  /\ \A p \in Paths : EntryInv(p, saved[p])'
             /\ \A t \in Syncers : SyncerInv(t)'
  BY <1>1, <1>5, ResetSaved, FrameSyncer DEF IInv, RemoveState, procVars
<1> QED
  BY <1>1, <1>2, <1>3, <1>4, <1>5
     DEF IInv, Next, User, EditFile, AddNote, RemoveRow, vars, fileVars, procVars

-----------------------------------------------------------------------------
(* The properties. *)

LEMMA InitInv == Init => IInv
<1> SUFFICES ASSUME Init PROVE IInv
  OBVIOUS
<1>1. TypeOK
  BY TypeInit
<1>2. IdsIssued /\ PastKnown
  BY DEF Init, IdsIssued, PastKnown, Live
<1>3. \A p \in Paths : saved[p] = NoEntry /\ EntryInv(p, saved[p])
  BY FreshEntry DEF Init, NoView
<1>4. ASSUME NEW s \in Syncers PROVE SyncerInv(s)
  BY FreshEntry DEF Init, NoView, SyncerInv
<1> QED BY <1>1, <1>2, <1>3, <1>4 DEF IInv

(* The inductive invariant holds in every reachable state. *)
THEOREM Invariant == Spec => []IInv
BY InitInv, InvStep, PTL DEF Spec

(* The persisted state names only rows of the very version of the very
   document each entry is about (EntriesTrue), whatever syncs crashed, failed
   or ran side by side. *)
THEOREM EntriesTrueAlways == Spec => []EntriesTrue
<1>1. IInv => EntriesTrue
  BY DEF IInv, EntryInv, OwnIds, EntriesTrue
<1> QED BY <1>1, Invariant, PTL

(* A document Sync reports as unchanged is completely stored
   (UnchangedIsIndexed), for any number of concurrent syncers and of faults,
   unless the user went back to an earlier version of it or removed its rows. *)
THEOREM UnchangedIsIndexedAlways == Spec => []UnchangedIsIndexed
<1>1. IInv => UnchangedIsIndexed
  BY DEF IInv, EntryInv, UnchangedIsIndexed
<1> QED BY <1>1, Invariant, PTL

(* A syncer deletes a row only if it is one of a document. *)
LEMMA StaleDropOwner ==
    ASSUME IInv, NEW s \in Syncers, NEW id \in job[s].drop, DeleteStale(s, id), id \in Live
    PROVE  rows[id].owner \in Paths
<1>1. TypeOK /\ JobInv(s) /\ job[s].path \in Paths
  BY DEF IInv, SyncerInv, DeleteStale, TypeOK
<1> QED BY <1>1 DEF JobInv, OwnIds

(* How the live rows change: by a deletion of a syncer, by `ai memory rm`, or
   they only grow. *)
LEMMA LiveStep ==
    ASSUME IInv, [Next]_vars
    PROVE  \/ \E s \in Syncers : \E id \in job[s].drop : DeleteStale(s, id)
           \/ \E id \in Live : RemoveRow(id)
           \/ Live \subseteq Live'
<1>1. ASSUME NEW s \in Syncers, Progress(s)
      PROVE  (\E id \in job[s].drop : DeleteStale(s, id)) \/ Live \subseteq Live'
  <2>1. CASE LoadState(s) \/ ListDir(s) \/ TruncateState(s) \/ WriteState(s)
    BY <2>1 DEF LoadState, ListDir, TruncateState, WriteState, Live, storeVars
  <2>2. CASE \E p \in Paths : VisitUnchanged(s, p) \/ VisitChanged(s, p)
    BY <2>2 DEF VisitUnchanged, VisitChanged, Visited, Live, storeVars
  <2>3. CASE \E p \in Paths : VisitGone(s, p) \/ VisitVanished(s, p)
    BY <2>3 DEF VisitGone, Gone, VisitVanished, EndEarly, Live, storeVars
  <2>4. CASE Replaced(s) \/ Forgotten(s)
    BY <2>4 DEF Replaced, Record, Forgotten, Live, storeVars
  <2>5. CASE SaveChunk(s)
    BY <2>5 DEF SaveChunk, Save, Live
  <2> QED BY <1>1, <2>1, <2>2, <2>3, <2>4, <2>5 DEF Progress
<1>2. ASSUME NEW s \in Syncers, Abort(s) PROVE Live \subseteq Live'
  BY <1>2 DEF Abort, EndEarly, Live, storeVars
<1>3. CASE User
  BY <1>3 DEF User, EditFile, AddNote, RemoveState, Save, Live, storeVars
<1>4. CASE UNCHANGED vars
  BY <1>4 DEF vars, Live
<1> QED BY <1>1, <1>2, <1>3, <1>4 DEF Next

(* No sync ever removes a note (NotesUntouched). *)
THEOREM NotesUntouchedAlways == Spec => NotesUntouched
<1>1. ASSUME IInv, [Next]_vars PROVE DropsNoNote
  <2>1. ASSUME NEW s \in Syncers, NEW id \in job[s].drop, DeleteStale(s, id) PROVE DropsNoNote
    <3>1. Live \ Live' \subseteq {id}
      BY <2>1 DEF DeleteStale, Delete, Live
    <3>2. id \in Live => rows[id].owner # Note
      BY <1>1, <2>1, StaleDropOwner
    <3> QED BY <3>1, <3>2 DEF DropsNoNote
  <2>2. ASSUME NEW id \in Live, RemoveRow(id) PROVE DropsNoNote
    BY <2>2 DEF DropsNoNote, RemoveRow
  <2>3. CASE Live \subseteq Live'
    BY <2>3 DEF DropsNoNote
  <2> QED BY <1>1, <2>1, <2>2, <2>3, LiveStep
<1> QED BY <1>1, Invariant, PTL DEF Spec, NotesUntouched

(* No step deletes a chunk of the version of a document that is on disk
   (NeverDropsCurrent), however stale the state a syncer works from. *)
THEOREM NeverDropsCurrentAlways == Spec => NeverDropsCurrent
<1>1. ASSUME IInv, [Next]_vars PROVE DropsOnlyStale
  <2>1. Frame
    BY <1>1, FrameStep
  <2>2. CASE disk' = disk
    BY <2>1, <2>2 DEF Frame, DropsOnlyStale
  <2>3. CASE Live \subseteq Live'
    BY <2>3 DEF DropsOnlyStale
  <2> QED BY <1>1, <2>2, <2>3, LiveStep DEF DeleteStale, RemoveRow, userVars
<1> QED BY <1>1, Invariant, PTL DEF Spec, NeverDropsCurrent

-----------------------------------------------------------------------------
(* What one syncer at a time promises of the store as a whole.  With one
   syncer the state in memory is the only copy of the state file, so that
   nothing is forgotten. *)

(* While no document has been edited since the sync began: what was visited is
   recorded as it is on disk, what is on disk was listed, and the state that is
   written is that of the directory.  (A "clean" last sync is over.) *)
Follows(s) ==
    /\ pc[s] \in {"walk", "replace", "forget"} =>
        /\ \A p \in Paths : disk[p] # Absent => p \in todo[s] \cup seen[s]
        /\ \A p \in seen[s] :
            /\ disk[p] # Absent
            /\ st[s][p].hash = disk[p] \/ (pc[s] = "replace" /\ p = job[s].path)
    /\ pc[s] = "replace" => job[s].content = disk[job[s].path]
    /\ pc[s] = "forget" => job[s].path \notin seen[s]
    /\ pc[s] = "write" => \A p \in Paths : st[s][p].hash = disk[p]

MirrorInv ==
    /\ \A s \in Syncers : /\ pc[s] = "write" => file = "empty"
                          /\ pc[s] \in {"idle", "list"} => seen[s] = {}
    /\ last = "running" => \A s \in Syncers : Follows(s)
    /\ last = "clean" => Idle /\ \A p \in Paths : saved[p].hash = disk[p]

LEMMA InitMirror == Init => MirrorInv
BY DEF Init, MirrorInv

(* One syncer: what it does not touch, nothing touches. *)
LEMMA Only ==
    ASSUME OneSyncer, NEW s \in Syncers
    PROVE  Syncers = {s}
BY DEF OneSyncer

(* The state of the syncer, and a sync that runs is not "clean". *)
LEMMA RunningMirror ==
    ASSUME OneSyncer, MirrorInv, NEW s \in Syncers, pc[s] # "idle", UNCHANGED last,
           pc'[s] \notin {"idle", "list"}, pc'[s] = "write" => file' = "empty",
           last = "running" => Follows(s)'
    PROVE  MirrorInv'
<1>1. last # "clean"
  BY DEF MirrorInv, Idle
<1> QED BY <1>1, Only DEF MirrorInv

LEMMA WalkMirror ==
    ASSUME TypeOK, OneSyncer, MirrorInv, NEW s \in Syncers, pc[s] = "walk", pc'[s] = "walk",
           NEW p \in todo[s], UNCHANGED <<disk, st, last>>, st[s][p].hash = disk[p], disk[p] # Absent,
           todo'[s] = todo[s] \ {p}, seen'[s] = seen[s] \cup {p}
    PROVE  MirrorInv'
<1>1. last = "running" => Follows(s)'
  BY DEF MirrorInv, Follows
<1> QED BY <1>1, RunningMirror

LEMMA EndMirror ==
    ASSUME TypeOK, OneSyncer, NEW s \in Syncers, EndEarly(s)
    PROVE  MirrorInv'
<1>1. pc'[s] = "idle" /\ seen'[s] = {} /\ last' = "dirty"
  BY DEF TypeOK, EndEarly, Exit
<1> QED BY <1>1, Only DEF MirrorInv

LEMMA ProgressMirror ==
    ASSUME TypeOK, OneSyncer, MirrorInv, NEW s \in Syncers, Progress(s)
    PROVE  MirrorInv'
<1> USE DEF fileVars, procVars, storeVars, userVars, runVars
<1>1. CASE LoadState(s)
  <2>1. pc'[s] = "list" /\ last' = "running" /\ pc[s] = "idle" /\ seen' = seen
    BY <1>1 DEF LoadState, TypeOK
  <2> QED BY <2>1, Only DEF MirrorInv, Follows
<1>2. CASE ListDir(s)
  <2>1. /\ pc[s] = "list" /\ pc'[s] = "walk" /\ UNCHANGED <<disk, last, seen>>
        /\ todo'[s] = {p \in Paths : disk[p] # Absent}
    BY <1>2 DEF ListDir, TypeOK
  <2>2. seen[s] = {}
    BY <2>1 DEF MirrorInv
  <2>3. Follows(s)'
    BY <2>1, <2>2 DEF Follows
  <2> QED BY <2>1, <2>3, RunningMirror
<1>3. ASSUME NEW p \in Paths, VisitUnchanged(s, p) PROVE MirrorInv'
  <2>1. /\ pc[s] = "walk" /\ p \in todo[s] /\ disk[p] # Absent /\ disk[p] = st[s][p].hash
        /\ todo'[s] = todo[s] \ {p} /\ seen'[s] = seen[s] \cup {p}
        /\ UNCHANGED <<disk, st, last, pc>>
    BY <1>3 DEF VisitUnchanged, TypeOK
  <2> QED BY <2>1, WalkMirror
<1>4. ASSUME NEW p \in Paths, VisitChanged(s, p) PROVE MirrorInv'
  <2>1. /\ pc[s] = "walk" /\ p \in todo[s] /\ disk[p] # Absent
        /\ todo'[s] = todo[s] \ {p} /\ seen'[s] = seen[s] \cup {p}
        /\ pc'[s] = "replace" /\ job'[s].path = p /\ job'[s].content = disk[p]
        /\ UNCHANGED <<disk, st, last>>
    BY <1>4 DEF VisitChanged, Visited, TypeOK
  <2>2. last = "running" => Follows(s)'
    BY <2>1 DEF MirrorInv, Follows
  <2> QED BY <2>1, <2>2, RunningMirror
<1>5. ASSUME NEW p \in Paths, VisitGone(s, p) PROVE MirrorInv'
  <2>1. /\ pc[s] = "walk" /\ p \notin seen[s] /\ pc'[s] = "forget" /\ job'[s].path = p
        /\ UNCHANGED <<disk, st, last, todo, seen>>
    BY <1>5 DEF VisitGone, Gone, TypeOK
  <2>2. last = "running" => Follows(s)'
    BY <2>1 DEF MirrorInv, Follows
  <2> QED BY <2>1, <2>2, RunningMirror
<1>6. ASSUME NEW p \in Paths, VisitVanished(s, p) PROVE MirrorInv'
  BY <1>6, EndMirror DEF VisitVanished
<1>7. CASE (\E id \in job[s].drop : DeleteStale(s, id)) \/ SaveChunk(s)
  <2>1. /\ pc[s] \in {"replace", "forget"} /\ job[s] \in Job
        /\ UNCHANGED <<disk, st, last, todo, seen, pc>>
    BY <1>7 DEF DeleteStale, SaveChunk, TypeOK
  <2>2. job'[s].path = job[s].path /\ job'[s].content = job[s].content
    BY <1>7, <2>1 DEF DeleteStale, SaveChunk, TypeOK, Job
  <2>3. last = "running" => Follows(s)'
    BY <2>1, <2>2 DEF MirrorInv, Follows
  <2> QED BY <2>1, <2>3, RunningMirror
<1>8. CASE Replaced(s) \/ Forgotten(s)
  <2>1. /\ pc[s] \in {"replace", "forget"} /\ pc'[s] = "walk" /\ job[s].path \in Paths
        /\ UNCHANGED <<disk, last, todo, seen>>
    BY <1>8 DEF Replaced, Forgotten, Record, TypeOK
  <2>2. /\ pc[s] = "replace" => st'[s][job[s].path].hash = job[s].content
        /\ \A q \in Paths \ {job[s].path} : st'[s][q] = st[s][q]
    BY <1>8, <2>1 DEF Replaced, Forgotten, Record, TypeOK, View
  <2>3. seen[s] \subseteq Paths
    BY DEF TypeOK
  <2>4. last = "running" => Follows(s)'
    BY <2>1, <2>2, <2>3 DEF MirrorInv, Follows
  <2> QED BY <2>1, <2>4, RunningMirror
<1>9. CASE TruncateState(s)
  <2>1. /\ pc[s] = "walk" /\ todo[s] = {} /\ \A p \in Paths \ seen[s] : st[s][p] = NoEntry
        /\ pc'[s] = "write" /\ file' = "empty" /\ UNCHANGED <<disk, st, last>>
    BY <1>9 DEF TruncateState, TypeOK
  <2>2. ASSUME last = "running", NEW p \in Paths PROVE st[s][p].hash = disk[p]
    BY <2>1, <2>2 DEF MirrorInv, Follows, NoEntry
  <2>3. last = "running" => Follows(s)'
    BY <2>1, <2>2 DEF Follows
  <2> QED BY <2>1, <2>3, RunningMirror
<1>10. CASE WriteState(s)
  <2>1. pc[s] = "write" /\ file = "empty"
    BY <1>10 DEF WriteState, MirrorInv
  <2>2. saved' = st[s] /\ disk' = disk /\ pc'[s] = "idle" /\ seen'[s] = {}
        /\ last' = IF last = "running" THEN "clean" ELSE last
    BY <1>10, <2>1 DEF WriteState, Exit, TypeOK
  <2>3. last # "clean"
    BY <2>1 DEF MirrorInv, Idle
  <2>4. last = "running" => \A p \in Paths : st[s][p].hash = disk[p]
    BY <2>1 DEF MirrorInv, Follows
  <2>5. last' \in {"clean", "dirty"}
    BY <2>2, <2>3 DEF TypeOK
  <2> QED BY <2>2, <2>3, <2>4, <2>5, Only DEF MirrorInv, Idle
<1> QED BY <1>1, <1>2, <1>3, <1>4, <1>5, <1>6, <1>7, <1>8, <1>9, <1>10 DEF Progress

LEMMA NextMirror == TypeOK /\ OneSyncer /\ MirrorInv /\ [Next]_vars => MirrorInv'
<1> SUFFICES ASSUME TypeOK, OneSyncer, MirrorInv, [Next]_vars PROVE MirrorInv'
  OBVIOUS
<1> USE DEF fileVars, procVars, storeVars, userVars, runVars
<1>1. CASE UNCHANGED vars
  BY <1>1 DEF vars, MirrorInv, Follows, Idle
<1>2. ASSUME NEW s \in Syncers, Progress(s) PROVE MirrorInv'
  BY <1>2, ProgressMirror
<1>3. ASSUME NEW s \in Syncers, Abort(s) PROVE MirrorInv'
  BY <1>3, EndMirror DEF Abort
<1>4. CASE User /\ ~RemoveState
  <2>1. UNCHANGED <<pc, file, seen, st, todo, job, saved>>
        /\ (last' = "dirty" \/ UNCHANGED <<last, disk>>)
    BY <1>4 DEF User, EditFile, AddNote, RemoveRow
  <2> QED BY <2>1 DEF MirrorInv, Follows, Idle
<1>5. CASE RemoveState
  BY <1>5 DEF RemoveState, MirrorInv
<1> QED BY <1>1, <1>2, <1>3, <1>4, <1>5 DEF Next

(* sync.go:61: with one syncer, a sync that succeeded while no document was
   edited leaves a state that names the documents as they are on disk, each of
   them completely stored - whatever failed before, save for the documents that
   went back to an old text or whose rows were removed by hand. *)
THEOREM CleanSyncMirrorsAlways == Spec => []CleanSyncMirrors
<1>1. CASE OneSyncer
  <2>1. TypeOK /\ MirrorInv /\ [Next]_vars => MirrorInv'
    BY <1>1, NextMirror
  <2>2. MirrorInv /\ UnchangedIsIndexed => CleanSyncMirrors
    BY DEF MirrorInv, UnchangedIsIndexed, CleanSyncMirrors
  <2> QED BY <2>1, <2>2, InitMirror, TypeCorrect, UnchangedIsIndexedAlways, PTL DEF Spec
<1>2. CASE ~OneSyncer
  <2>1. CleanSyncMirrors
    BY <1>2 DEF CleanSyncMirrors
  <2> QED BY <2>1, PTL
<1> QED BY <1>1, <1>2

-----------------------------------------------------------------------------
(* While no sync has ended early: the rows of a document are those the syncer
   knows of, or those of the state file when none runs; no two of them are the
   same chunk. *)
Known(s, p) ==
    IF pc[s] \in {"replace", "forget"} /\ p = job[s].path THEN job[s].drop \cup job[s].ids
    ELSE st[s][p].ids
Distinct(p) == \A i, j \in RowsOf(p) : rows[i].part = rows[j].part => i = j
OrphanFree(s) ==
    /\ pc[s] # "idle" => \A p \in Paths : RowsOf(p) \subseteq Known(s, p)
    /\ pc[s] = "replace" =>
        \A i \in RowsOf(job[s].path) \cap job[s].ids : rows[i].part < job[s].part
    /\ pc[s] = "forget" => job[s].ids = {}
OrphanInv ==
    ~failed =>
        /\ \A p \in Paths : Distinct(p)
        /\ Idle => \A p \in Paths : RowsOf(p) \subseteq saved[p].ids
        /\ \A s \in Syncers : OrphanFree(s)

LEMMA InitOrphan == Init => OrphanInv
BY DEF Init, OrphanInv, Distinct, OrphanFree, RowsOf, Live

(* A step that leaves the store alone and goes on. *)
LEMMA RunningOrphan ==
    ASSUME OneSyncer, OrphanInv, NEW s \in Syncers, pc'[s] # "idle", UNCHANGED <<rows, failed>>,
           ~failed => OrphanFree(s)'
    PROVE  OrphanInv'
BY Only DEF OrphanInv, Idle, Distinct, RowsOf, Live

LEMMA DeleteOrphan ==
    ASSUME TypeOK, OneSyncer, OrphanInv, NEW s \in Syncers, NEW id \in job[s].drop, DeleteStale(s, id)
    PROVE  OrphanInv'
<1> USE DEF fileVars, procVars, storeVars, userVars, runVars
<1>1. /\ pc[s] \in {"replace", "forget"} /\ Delete(id) /\ job[s] \in Job
      /\ job' = [job EXCEPT ![s] = [job[s] EXCEPT !.drop = job[s].drop \ {id}]]
      /\ UNCHANGED <<pc, st, failed>>
  BY DEF DeleteStale, TypeOK
<1>2. /\ job'[s].path = job[s].path /\ job'[s].ids = job[s].ids /\ job'[s].part = job[s].part
      /\ job'[s].drop = job[s].drop \ {id}
  BY <1>1 DEF Job, TypeOK
<1>3. Live' = Live \ {id} /\ \A i \in Live' : rows'[i] = rows[i]
  BY <1>1 DEF Delete, Live
<1>4. \A p \in Paths : RowsOf(p)' = RowsOf(p) \ {id}
  BY <1>3 DEF RowsOf
<1>5. ASSUME ~failed PROVE OrphanFree(s)' /\ \A p \in Paths : Distinct(p)'
  <2>1. OrphanFree(s) /\ job[s].path \in Paths /\ \A p \in Paths : Distinct(p)
    BY <1>1, <1>5 DEF OrphanInv, TypeOK
  <2>2. \A p \in Paths : RowsOf(p)' \subseteq Known(s, p)'
    BY <1>1, <1>2, <1>4, <2>1 DEF OrphanFree, Known
  <2>3. \A p \in Paths : \A i \in RowsOf(p)' : rows'[i] = rows[i] /\ i \in RowsOf(p)
    BY <1>3, <1>4 DEF RowsOf
  <2>4. \A p \in Paths : Distinct(p)'
    BY <2>1, <2>3 DEF Distinct
  <2> QED BY <1>1, <1>2, <2>1, <2>2, <2>3, <2>4 DEF OrphanFree
<1> QED BY <1>1, <1>5, Only DEF OrphanInv, Idle

LEMMA SaveOrphan ==
    ASSUME TypeOK, IdsIssued, OneSyncer, OrphanInv, NEW s \in Syncers, SaveChunk(s)
    PROVE  OrphanInv'
<1> USE DEF fileVars, procVars, storeVars, userVars, runVars
<1> DEFINE j == job[s]
           r == [owner |-> j.path, content |-> j.content, part |-> j.part]
<1>1. /\ pc[s] = "replace" /\ j.drop = {} /\ j \in Job /\ j.path \in Paths /\ Save(nextId, r)
      /\ job' = [job EXCEPT ![s] = [j EXCEPT !.ids = j.ids \cup {nextId}, !.part = j.part + 1]]
      /\ UNCHANGED <<pc, st, failed>>
  BY DEF SaveChunk, TypeOK
<1>0. PICK q \in Paths : q = j.path
  BY <1>1
<1>2. /\ job'[s].path = j.path /\ job'[s].ids = j.ids \cup {nextId} /\ job'[s].part = j.part + 1
      /\ job'[s].drop = {} /\ j.part \in Nat
  BY <1>1 DEF Job, TypeOK
<1>3. nextId \notin Live
  BY DEF IdsIssued, TypeOK
<1>4. /\ Live' = Live \cup {nextId} /\ rows'[nextId] = r
      /\ \A i \in Live : rows'[i] = rows[i]
  BY <1>1, <1>3 DEF Save, Live
<1>5. /\ RowsOf(q)' = RowsOf(q) \cup {nextId}
      /\ \A p \in Paths \ {q} : RowsOf(p)' = RowsOf(p)
  BY <1>0, <1>3, <1>4 DEF RowsOf
<1>6. ASSUME ~failed PROVE OrphanFree(s)' /\ \A p \in Paths : Distinct(p)'
  <2>1. OrphanFree(s) /\ \A p \in Paths : Distinct(p)
    BY <1>6 DEF OrphanInv
  <2>2. RowsOf(q) \subseteq j.ids /\ \A i \in RowsOf(q) : rows[i].part < j.part
    BY <1>0, <1>1, <2>1 DEF OrphanFree, Known
  <2>3. \A p \in Paths : \A i \in RowsOf(p) : i \in Live /\ rows'[i] = rows[i]
                                               /\ rows[i].part \in Nat
    BY <1>4 DEF RowsOf, TypeOK, Row
  <2>4. \A p \in Paths : RowsOf(p)' \subseteq Known(s, p)'
    BY <1>0, <1>1, <1>2, <1>5, <2>1, <2>2 DEF OrphanFree, Known
  <2>5. Distinct(q)'
    <3>1. \A i \in RowsOf(q) : rows'[i].part < j.part /\ rows'[i].part \in Nat
      BY <1>1, <2>2, <2>3
    <3>2. rows'[nextId].part = j.part
      BY <1>4
    <3> QED BY <1>1, <1>2, <1>5, <2>1, <2>3, <3>1, <3>2 DEF Distinct
  <2>6. \A p \in Paths \ {q} : Distinct(p)'
    BY <1>5, <2>1, <2>3 DEF Distinct
  <2>7. \A i \in RowsOf(q)' : rows'[i].part < j.part + 1
    BY <1>1, <1>2, <1>4, <1>5, <2>2, <2>3
  <2>8. pc'[s] = "replace"
    BY <1>1
  <2> QED BY <1>0, <1>2, <2>4, <2>5, <2>6, <2>7, <2>8 DEF OrphanFree
<1> QED BY <1>1, <1>6, Only DEF OrphanInv, Idle

LEMMA ProgressOrphan ==
    ASSUME TypeOK, IdsIssued, OneSyncer, MirrorInv, OrphanInv, NEW s \in Syncers, Progress(s)
    PROVE  OrphanInv'
<1> USE DEF fileVars, procVars, storeVars, userVars, runVars
<1>1. CASE LoadState(s)
  <2>1. /\ pc[s] = "idle" /\ pc'[s] = "list" /\ st'[s] = saved /\ UNCHANGED <<rows, failed>>
    BY <1>1 DEF LoadState, TypeOK
  <2>2. ~failed => OrphanFree(s)'
    BY <2>1, Only DEF OrphanInv, Idle, OrphanFree, Known, RowsOf, Live
  <2> QED BY <2>1, <2>2, RunningOrphan
<1>2. CASE ListDir(s) \/ (\E p \in Paths : VisitUnchanged(s, p)) \/ TruncateState(s)
  <2>1. /\ pc[s] \in {"list", "walk"} /\ pc'[s] \in {"walk", "write"}
        /\ UNCHANGED <<rows, failed, st>>
    BY <1>2 DEF ListDir, VisitUnchanged, TruncateState, TypeOK
  <2>2. ~failed => OrphanFree(s)'
    BY <2>1 DEF OrphanInv, OrphanFree, Known, RowsOf, Live
  <2> QED BY <2>1, <2>2, RunningOrphan
<1>3. CASE \E p \in Paths : VisitChanged(s, p) \/ VisitGone(s, p)
  <2>1. PICK p \in Paths : VisitChanged(s, p) \/ VisitGone(s, p)
    BY <1>3
  <2>2. /\ pc[s] = "walk" /\ pc'[s] \in {"replace", "forget"} /\ job'[s].path = p
        /\ job'[s].drop = st[s][p].ids /\ job'[s].ids = {} /\ UNCHANGED <<rows, failed, st>>
    BY <2>1 DEF VisitChanged, Visited, VisitGone, Gone, TypeOK
  <2>3. ~failed => OrphanFree(s)'
    BY <2>2 DEF OrphanInv, OrphanFree, Known, RowsOf, Live
  <2> QED BY <2>2, <2>3, RunningOrphan
<1>4. CASE \E p \in Paths : VisitVanished(s, p)
  BY <1>4 DEF VisitVanished, EndEarly, OrphanInv
<1>5. CASE Replaced(s) \/ Forgotten(s)
  <2>1. /\ pc[s] \in {"replace", "forget"} /\ pc'[s] = "walk" /\ job[s].path \in Paths
        /\ job[s].drop = {} /\ UNCHANGED <<rows, failed>>
    BY <1>5 DEF Replaced, Forgotten, Record, TypeOK
  <2>2. /\ pc[s] = "replace" => st'[s][job[s].path].ids = job[s].ids
        /\ \A q \in Paths \ {job[s].path} : st'[s][q] = st[s][q]
    BY <1>5, <2>1 DEF Replaced, Forgotten, Record, TypeOK, View
  <2>3. ~failed => OrphanFree(s)'
    BY <2>1, <2>2 DEF OrphanInv, OrphanFree, Known, RowsOf, Live
  <2> QED BY <2>1, <2>3, RunningOrphan
<1>6. CASE WriteState(s)
  <2>1. pc[s] = "write" /\ file = "empty"
    BY <1>6 DEF WriteState, MirrorInv
  <2>2. saved' = st[s] /\ pc'[s] = "idle" /\ UNCHANGED <<rows, failed>>
    BY <1>6, <2>1 DEF WriteState, Exit, TypeOK
  <2> QED BY <2>1, <2>2, Only DEF OrphanInv, OrphanFree, Known, Idle, Distinct, RowsOf, Live
<1> QED BY <1>1, <1>2, <1>3, <1>4, <1>5, <1>6, DeleteOrphan, SaveOrphan DEF Progress

(* A note belongs to no document; a row removed by hand leaves the others. *)
LEMMA UserOrphan ==
    ASSUME TypeOK, IdsIssued, OrphanInv, User, ~RemoveState
    PROVE  OrphanInv'
<1> USE DEF fileVars, procVars, storeVars, userVars, runVars
<1>1. UNCHANGED <<pc, st, job, saved, failed>>
  BY DEF User, EditFile, AddNote, RemoveRow
<1>2. \A p \in Paths : RowsOf(p)' \subseteq RowsOf(p) /\ \A i \in RowsOf(p)' : rows'[i] = rows[i]
  <2>1. CASE \E p \in Paths, c \in Contents \cup {Absent} : EditFile(p, c)
    BY <2>1 DEF EditFile, RowsOf, Live
  <2>2. ASSUME NEW c \in Contents, AddNote(c) PROVE \A p \in Paths :
        RowsOf(p)' \subseteq RowsOf(p) /\ \A i \in RowsOf(p)' : rows'[i] = rows[i]
    <3>1. Save(nextId, [owner |-> Note, content |-> c, part |-> 1]) /\ nextId \notin Live
      BY <2>2 DEF AddNote, IdsIssued, TypeOK
    <3>2. /\ Live' = Live \cup {nextId} /\ \A i \in Live : rows'[i] = rows[i]
          /\ rows'[nextId].owner = Note
      BY <3>1 DEF Save, Live
    <3> QED BY <3>2 DEF RowsOf
  <2>3. ASSUME NEW id \in Live, RemoveRow(id) PROVE \A p \in Paths :
        RowsOf(p)' \subseteq RowsOf(p) /\ \A i \in RowsOf(p)' : rows'[i] = rows[i]
    <3>1. Live' = Live \ {id} /\ \A i \in Live' : rows'[i] = rows[i]
      BY <2>3 DEF RemoveRow, Delete, Live
    <3> QED BY <3>1 DEF RowsOf
  <2> QED BY <2>1, <2>2, <2>3 DEF User
<1>3. ASSUME ~failed PROVE \A p \in Paths : Distinct(p)'
  BY <1>2, <1>3 DEF OrphanInv, Distinct
<1>4. ASSUME ~failed, NEW s \in Syncers PROVE OrphanFree(s)'
  <2>1. OrphanFree(s) /\ (pc[s] = "replace" => job[s].path \in Paths)
    BY <1>4 DEF OrphanInv, TypeOK
  <2> QED BY <1>1, <1>2, <2>1 DEF OrphanFree, Known
<1> QED BY <1>1, <1>2, <1>3, <1>4 DEF OrphanInv, Idle

LEMMA NextOrphan ==
    TypeOK /\ IdsIssued /\ OneSyncer /\ MirrorInv /\ OrphanInv /\ [Next]_vars => OrphanInv'
<1> SUFFICES ASSUME TypeOK, IdsIssued, OneSyncer, MirrorInv, OrphanInv, [Next]_vars
             PROVE  OrphanInv'
  OBVIOUS
<1>1. CASE UNCHANGED vars
  BY <1>1 DEF vars, OrphanInv, Distinct, OrphanFree, Known, Idle, RowsOf, Live
<1>2. ASSUME NEW s \in Syncers, Abort(s) PROVE OrphanInv'
  BY <1>2 DEF Abort, EndEarly, OrphanInv
<1>3. CASE RemoveState
  BY <1>3 DEF RemoveState, OrphanInv
<1> QED BY <1>1, <1>2, <1>3, ProgressOrphan, UserOrphan DEF Next

(* With one syncer that has never ended early, the store holds between two
   syncs no chunk the state does not know of, and none twice. *)
THEOREM NoOrphansAlways == Spec => []NoOrphans
<1>1. CASE OneSyncer
  <2>1. TypeOK /\ MirrorInv /\ [Next]_vars => MirrorInv'
    BY <1>1, NextMirror
  <2>2. TypeOK /\ IdsIssued /\ MirrorInv /\ OrphanInv /\ [Next]_vars => OrphanInv'
    BY <1>1, NextOrphan
  <2>3. OrphanInv => NoOrphans
    BY DEF OrphanInv, NoOrphans, Distinct
  <2>4. IInv => IdsIssued
    BY DEF IInv
  <2> QED BY <2>1, <2>2, <2>3, <2>4, InitMirror, InitOrphan, TypeCorrect, Invariant, PTL DEF Spec
<1>2. CASE ~OneSyncer
  <2>1. NoOrphans
    BY <1>2 DEF NoOrphans
  <2> QED BY <2>1, PTL
<1> QED BY <1>1, <1>2
-----------------------------------------------------------------------------
(* Termination of a sync. *)

(* Where a sync is, the listed documents it has not dealt with, and the entries
   of documents it has not seen. *)
Place(s) ==
    CASE pc[s] = "list" -> 3 [] pc[s] = "write" -> 1 [] pc[s] = "idle" -> 0 [] OTHER -> 2
Waiting(s) == todo[s] \cup {p \in {job[s].path} : pc[s] = "replace"}
Leaving(s) == {p \in Paths \ seen[s] : st[s][p] # NoEntry}

Shrinks(A, B) == B \subseteq A /\ B # A

(* In the order of what weighs more: the place; the documents waiting; the
   entries leaving; a document or entry is taken up, loses one of its old ids,
   or gets one of its chunks. *)
JobCloser(s) ==
    \/ pc[s] = "walk" /\ pc'[s] \in {"replace", "forget"}
    \/ /\ pc[s] \in {"replace", "forget"} /\ pc'[s] = pc[s]
       /\ IsFiniteSet(job[s].drop) /\ Shrinks(job[s].drop, job'[s].drop)
    \/ /\ pc[s] = "replace" /\ pc'[s] = "replace"
       /\ job'[s].drop = job[s].drop /\ job'[s].content = job[s].content
       /\ job'[s].part = job[s].part + 1 /\ job[s].part <= NChunks[job[s].content]

SyncCloser(s) ==
    \/ Place(s)' < Place(s)
    \/ /\ Place(s) = 2 /\ Place(s)' = 2
       /\ Waiting(s)' \subseteq Waiting(s)
       /\ \/ Waiting(s)' # Waiting(s)
          \/ Shrinks(Leaving(s), Leaving(s)')
          \/ Leaving(s)' = Leaving(s) /\ JobCloser(s)

Local(s) == <<pc[s], st[s], todo[s], seen[s], job[s]>>
OthersMove(s) == User \/ \E t \in Syncers \ {s} : Progress(t) \/ Abort(t)

SyncsAdvance ==
    \A s \in Syncers :
        /\ pc[s] # "idle" /\ (Progress(s) \/ Abort(s)) => SyncCloser(s)
        /\ OthersMove(s) => UNCHANGED Local(s)

(* A document seen is not listed any more, an entry is not both; and only
   finitely many ids are anywhere. *)
WalkInv(s) ==
    /\ pc[s] \in {"idle", "list"} => seen[s] = {}
    /\ pc[s] \in {"walk", "replace", "forget"} => todo[s] \cap seen[s] = {}
    /\ pc[s] = "replace" => job[s].path \in seen[s]
    /\ pc[s] = "forget" => job[s].path \in Paths \ seen[s] /\ st[s][job[s].path] # NoEntry
    /\ \A p \in Paths : IsFiniteSet(st[s][p].ids)
    /\ IsFiniteSet(job[s].ids) /\ IsFiniteSet(job[s].drop)

AdvanceInv ==
    /\ \A s \in Syncers : WalkInv(s)
    /\ \A p \in Paths : IsFiniteSet(saved[p].ids)

LEMMA OthersStay ==
    ASSUME TypeOK, NEW s \in Syncers, OthersMove(s)
    PROVE  UNCHANGED Local(s)
<1> USE DEF fileVars, procVars, storeVars, userVars, runVars, Local
<1>1. CASE User
  BY <1>1 DEF User, EditFile, AddNote, RemoveRow, RemoveState
<1>2. ASSUME NEW t \in Syncers \ {s}, Progress(t) \/ Abort(t)
      PROVE  UNCHANGED Local(s)
  <2>1. CASE LoadState(t) \/ ListDir(t) \/ TruncateState(t)
    BY <1>2, <2>1 DEF LoadState, ListDir, TruncateState, TypeOK
  <2>2. CASE \E p \in Paths : VisitUnchanged(t, p) \/ VisitChanged(t, p) \/ VisitGone(t, p)
    BY <1>2, <2>2 DEF VisitUnchanged, VisitChanged, Visited, VisitGone, Gone, TypeOK
  <2>3. CASE (\E p \in Paths : VisitVanished(t, p)) \/ WriteState(t) \/ Abort(t)
    BY <1>2, <2>3 DEF VisitVanished, WriteState, Abort, EndEarly, Exit, TypeOK
  <2>4. CASE (\E id \in job[t].drop : DeleteStale(t, id)) \/ SaveChunk(t)
    BY <1>2, <2>4 DEF DeleteStale, SaveChunk, TypeOK
  <2>5. CASE Replaced(t) \/ Forgotten(t)
    BY <1>2, <2>5 DEF Replaced, Forgotten, Record, TypeOK
  <2> QED BY <1>2, <2>1, <2>2, <2>3, <2>4, <2>5 DEF Progress
<1> QED BY <1>1, <1>2 DEF OthersMove

LEMMA NoViewIsFinite ==
    /\ \A p \in Paths : IsFiniteSet(NoView[p].ids)
    /\ IsFiniteSet(NoEntry.ids) /\ IsFiniteSet(NoJob.ids) /\ IsFiniteSet(NoJob.drop)
BY FS_EmptySet DEF NoView, NoEntry, NoJob

(* A step of a sync at s: closer to its end, and the invariant again. *)
Moved(s) ==
    /\ WalkInv(s)'
    /\ \A p \in Paths : IsFiniteSet(saved'[p].ids)
    /\ pc[s] # "idle" => SyncCloser(s)

LEMMA EndMoved ==
    ASSUME TypeOK, AdvanceInv, NEW s \in Syncers, Exit(s),
           \A p \in Paths : IsFiniteSet(saved'[p].ids)
    PROVE  Moved(s)
<1>1. pc'[s] = "idle" /\ st'[s] = NoView /\ seen'[s] = {} /\ job'[s] = NoJob
  BY DEF Exit, TypeOK
<1>2. WalkInv(s)'
  BY <1>1, NoViewIsFinite DEF WalkInv
<1>3. pc[s] # "idle" => Place(s)' < Place(s)
  BY <1>1 DEF Place
<1> QED BY <1>2, <1>3 DEF Moved, SyncCloser

(* A listed document, unchanged or to be replaced. *)
LEMMA VisitMoved ==
    ASSUME TypeOK, AdvanceInv, NEW s \in Syncers, NEW p \in todo[s], pc[s] = "walk",
           todo'[s] = todo[s] \ {p}, seen'[s] = seen[s] \cup {p}, UNCHANGED <<saved, st>>,
           \/ pc'[s] = "walk" /\ job'[s] = job[s]
           \/ /\ pc'[s] = "replace" /\ job'[s].path = p
              /\ IsFiniteSet(job'[s].drop) /\ IsFiniteSet(job'[s].ids)
    PROVE  Moved(s)
<1>1. WalkInv(s) /\ \A q \in Paths : IsFiniteSet(saved[q].ids)
  BY DEF AdvanceInv
<1>2. WalkInv(s)'
  <2>1. /\ todo[s] \cap seen[s] = {} /\ \A q \in Paths : IsFiniteSet(st[s][q].ids)
        /\ IsFiniteSet(job[s].ids) /\ IsFiniteSet(job[s].drop)
    BY <1>1 DEF WalkInv
  <2>2. todo'[s] \cap seen'[s] = {}
    BY <2>1
  <2>3. IsFiniteSet(job'[s].ids) /\ IsFiniteSet(job'[s].drop)
    BY <2>1
  <2>4. \A q \in Paths : IsFiniteSet(st'[s][q].ids)
    BY <2>1
  <2>5. pc'[s] = "replace" => job'[s].path \in seen'[s]
    OBVIOUS
  <2>6. pc'[s] \in {"walk", "replace"}
    OBVIOUS
  <2> QED BY <2>2, <2>3, <2>4, <2>5, <2>6 DEF WalkInv
<1>3. Place(s) = 2 /\ Place(s)' = 2
  BY DEF Place
<1>4. Leaving(s)' \subseteq Leaving(s)
  BY DEF Leaving
<1>5. CASE pc'[s] = "walk"
  <2>1. Waiting(s) = todo[s] /\ Waiting(s)' = todo[s] \ {p}
    BY <1>5 DEF Waiting
  <2>2. SyncCloser(s)
    BY <1>3, <2>1 DEF SyncCloser
  <2> QED BY <1>1, <1>2, <2>2 DEF Moved
<1>6. CASE pc'[s] = "replace"
  <2>1. job'[s].path = p
    BY <1>6
  <2>2. Waiting(s) = todo[s] /\ Waiting(s)' = todo[s]
    BY <1>6, <2>1 DEF Waiting
  <2>3. JobCloser(s)
    BY <1>6 DEF JobCloser
  <2>4. SyncCloser(s)
    BY <1>3, <1>4, <2>2, <2>3 DEF SyncCloser, Shrinks
  <2> QED BY <1>1, <1>2, <2>4 DEF Moved
<1> QED BY <1>5, <1>6

LEMMA ProgressMoved ==
    ASSUME TypeOK, AdvanceInv, NEW s \in Syncers, Progress(s)
    PROVE  Moved(s)
<1> USE DEF fileVars, procVars, storeVars, userVars, runVars
<1>0. /\ WalkInv(s) /\ \A q \in Paths : IsFiniteSet(saved[q].ids)
      /\ job[s] \in Job /\ st[s] \in View /\ todo[s] \subseteq Paths /\ seen[s] \subseteq Paths
  BY DEF AdvanceInv, TypeOK
<1>1. CASE LoadState(s)
  <2>1. /\ pc[s] = "idle" /\ pc'[s] = "list" /\ st'[s] = saved
        /\ UNCHANGED <<saved, todo, seen, job>>
    BY <1>1 DEF LoadState, TypeOK
  <2>2. WalkInv(s)'
    BY <1>0, <2>1 DEF WalkInv
  <2> QED BY <1>0, <2>1, <2>2 DEF Moved
<1>2. CASE ListDir(s)
  <2>1. pc[s] = "list" /\ pc'[s] = "walk" /\ UNCHANGED <<saved, st, seen, job>>
    BY <1>2 DEF ListDir, TypeOK
  <2>2. WalkInv(s)'
    BY <1>0, <2>1 DEF WalkInv
  <2>3. Place(s)' < Place(s)
    BY <2>1 DEF Place
  <2> QED BY <1>0, <2>1, <2>2, <2>3 DEF Moved, SyncCloser
<1>3. ASSUME NEW p \in Paths, VisitUnchanged(s, p) PROVE Moved(s)
  <2>1. /\ pc[s] = "walk" /\ p \in todo[s] /\ pc'[s] = "walk" /\ UNCHANGED <<saved, st, job>>
        /\ todo'[s] = todo[s] \ {p} /\ seen'[s] = seen[s] \cup {p}
    BY <1>3 DEF VisitUnchanged, TypeOK
  <2> QED BY <2>1, VisitMoved
<1>4. ASSUME NEW p \in Paths, VisitChanged(s, p) PROVE Moved(s)
  <2>1. /\ pc[s] = "walk" /\ p \in todo[s] /\ pc'[s] = "replace" /\ UNCHANGED <<saved, st>>
        /\ todo'[s] = todo[s] \ {p} /\ seen'[s] = seen[s] \cup {p}
        /\ job'[s].path = p /\ job'[s].drop = st[s][p].ids /\ job'[s].ids = {}
    BY <1>4 DEF VisitChanged, Visited, TypeOK
  <2>2. IsFiniteSet(job'[s].drop) /\ IsFiniteSet(job'[s].ids)
    BY <1>0, <2>1, FS_EmptySet DEF WalkInv
  <2> QED BY <2>1, <2>2, VisitMoved
<1>5. ASSUME NEW p \in Paths, VisitGone(s, p) PROVE Moved(s)
  <2>1. /\ pc[s] = "walk" /\ p \notin seen[s] /\ pc'[s] = "forget" /\ st[s][p].hash # Absent
        /\ UNCHANGED <<saved, st, todo, seen>>
        /\ job'[s].path = p /\ job'[s].drop = st[s][p].ids /\ job'[s].ids = {}
    BY <1>5 DEF VisitGone, Gone, TypeOK
  <2>2. st[s][p] # NoEntry
    BY <2>1 DEF NoEntry
  <2>3. WalkInv(s)'
    BY <1>0, <2>1, <2>2, FS_EmptySet DEF WalkInv
  <2>4. /\ Place(s) = 2 /\ Place(s)' = 2
        /\ Waiting(s)' = Waiting(s) /\ Leaving(s)' = Leaving(s) /\ JobCloser(s)
    BY <2>1 DEF Place, Waiting, Leaving, JobCloser
  <2> QED BY <1>0, <2>1, <2>3, <2>4 DEF Moved, SyncCloser
<1>6. CASE (\E p \in Paths : VisitVanished(s, p)) \/ WriteState(s)
  <2>1. Exit(s) /\ (saved' = saved \/ saved' = st[s] \/ saved' = NoView)
    BY <1>6 DEF VisitVanished, EndEarly, WriteState
  <2>2. \A p \in Paths : IsFiniteSet(NoView[p].ids)
    BY NoViewIsFinite
  <2>3. \A p \in Paths : IsFiniteSet(st[s][p].ids)
    BY <1>0 DEF WalkInv
  <2>4. \A p \in Paths : IsFiniteSet(saved'[p].ids)
    BY <1>0, <2>1, <2>2, <2>3
  <2> QED BY <2>1, <2>4, EndMoved
<1>7. ASSUME NEW id \in job[s].drop, DeleteStale(s, id) PROVE Moved(s)
  <2>1. /\ pc[s] \in {"replace", "forget"} /\ pc'[s] = pc[s] /\ UNCHANGED <<saved, st, todo, seen>>
        /\ job'[s].drop = job[s].drop \ {id}
        /\ job'[s].path = job[s].path /\ job'[s].ids = job[s].ids
    BY <1>0, <1>7 DEF DeleteStale, TypeOK, Job
  <2>2. IsFiniteSet(job[s].drop) /\ IsFiniteSet(job'[s].drop)
    BY <1>0, <2>1, FS_RemoveElement DEF WalkInv
  <2>3. WalkInv(s)'
    BY <1>0, <2>1, <2>2 DEF WalkInv
  <2>4. JobCloser(s)
    BY <2>1, <2>2 DEF JobCloser, Shrinks
  <2>5. /\ Place(s) = 2 /\ Place(s)' = 2
        /\ Waiting(s)' = Waiting(s) /\ Leaving(s)' = Leaving(s)
    BY <2>1 DEF Place, Waiting, Leaving
  <2> QED BY <1>0, <2>1, <2>3, <2>4, <2>5 DEF Moved, SyncCloser
<1>8. CASE SaveChunk(s)
  <2>1. /\ pc[s] = "replace" /\ pc'[s] = pc[s] /\ UNCHANGED <<saved, st, todo, seen>>
        /\ job'[s].drop = job[s].drop /\ job'[s].path = job[s].path
        /\ job'[s].content = job[s].content /\ job'[s].part = job[s].part + 1
        /\ job[s].part <= NChunks[job[s].content] /\ job'[s].ids = job[s].ids \cup {nextId}
    BY <1>0, <1>8 DEF SaveChunk, TypeOK, Job
  <2>2. IsFiniteSet(job'[s].ids)
    <3>1. IsFiniteSet(job[s].ids)
      BY <1>0 DEF WalkInv
    <3>2. IsFiniteSet(job[s].ids \cup {nextId})
      BY <3>1, FS_AddElement
    <3> QED BY <2>1, <3>2
  <2>3. WalkInv(s)'
    BY <1>0, <2>1, <2>2 DEF WalkInv
  <2>4. JobCloser(s)
    BY <2>1 DEF JobCloser
  <2>5. /\ Place(s) = 2 /\ Place(s)' = 2
        /\ Waiting(s)' = Waiting(s) /\ Leaving(s)' = Leaving(s)
    BY <2>1 DEF Place, Waiting, Leaving
  <2> QED BY <1>0, <2>1, <2>3, <2>4, <2>5 DEF Moved, SyncCloser
<1>9. CASE Replaced(s) \/ Forgotten(s)
  <2> DEFINE q == job[s].path
  <2>1. /\ pc[s] \in {"replace", "forget"} /\ pc'[s] = "walk" /\ q \in Paths
        /\ UNCHANGED <<saved, todo, seen>> /\ job'[s] = NoJob
        /\ pc[s] = "replace" => st'[s][q].ids = job[s].ids
        /\ pc[s] = "forget" => st'[s][q] = NoEntry
        /\ \A p \in Paths \ {q} : st'[s][p] = st[s][p]
    BY <1>0, <1>9 DEF Replaced, Forgotten, Record, TypeOK, View
  <2>2. \A p \in Paths : IsFiniteSet(st'[s][p].ids)
    <3>1. IsFiniteSet(job[s].ids) /\ \A p \in Paths : IsFiniteSet(st[s][p].ids)
      BY <1>0 DEF WalkInv
    <3>2. IsFiniteSet(st'[s][q].ids)
      BY <2>1, <3>1, NoViewIsFinite
    <3>3. \A p \in Paths \ {q} : IsFiniteSet(st'[s][p].ids)
      BY <2>1, <3>1
    <3> QED BY <3>2, <3>3
  <2>3. WalkInv(s)'
    BY <1>0, <2>1, <2>2, FS_EmptySet DEF WalkInv, NoJob
  <2>4. Place(s) = 2 /\ Place(s)' = 2 /\ Waiting(s)' = todo[s] /\ todo[s] \subseteq Waiting(s)
    BY <2>1 DEF Place, Waiting
  <2>5. CASE pc[s] = "replace"
    <3>1. q \in Waiting(s) /\ q \notin todo[s]
      BY <1>0, <2>5 DEF WalkInv, Waiting
    <3> QED BY <1>0, <2>1, <2>3, <2>4, <3>1 DEF Moved, SyncCloser
  <2>6. CASE pc[s] = "forget"
    <3>1. Leaving(s)' = Leaving(s) \ {q} /\ q \in Leaving(s)
      BY <1>0, <2>1, <2>6 DEF WalkInv, Leaving
    <3> QED BY <1>0, <2>1, <2>3, <2>4, <3>1 DEF Moved, SyncCloser, Shrinks
  <2> QED BY <2>1, <2>5, <2>6
<1>10. CASE TruncateState(s)
  <2>1. pc[s] = "walk" /\ pc'[s] = "write" /\ saved' = NoView /\ UNCHANGED <<st, todo, seen, job>>
    BY <1>10 DEF TruncateState, TypeOK
  <2>2. \A p \in Paths : IsFiniteSet(saved'[p].ids)
    BY <2>1, FS_EmptySet DEF NoView, NoEntry
  <2>3. WalkInv(s)'
    BY <1>0, <2>1 DEF WalkInv
  <2>4. Place(s)' < Place(s)
    BY <2>1 DEF Place
  <2> QED BY <2>2, <2>3, <2>4 DEF Moved, SyncCloser
<1> QED BY <1>1, <1>2, <1>3, <1>4, <1>5, <1>6, <1>7, <1>8, <1>9, <1>10 DEF Progress

LEMMA InitAdvance == Init => AdvanceInv
<1> SUFFICES ASSUME Init PROVE AdvanceInv
  OBVIOUS
<1>1. IsFiniteSet({})
  BY FS_EmptySet
<1> QED BY <1>1 DEF Init, AdvanceInv, WalkInv, NoView, NoEntry, NoJob

LEMMA NextAdvance == TypeOK /\ AdvanceInv /\ [Next]_vars => AdvanceInv' /\ [SyncsAdvance]_vars
<1> SUFFICES ASSUME TypeOK, AdvanceInv, [Next]_vars PROVE AdvanceInv' /\ [SyncsAdvance]_vars
  OBVIOUS
<1>1. ASSUME UNCHANGED vars PROVE AdvanceInv'
  BY <1>1 DEF vars, AdvanceInv, WalkInv
<1>2. ASSUME NEW s \in Syncers, Progress(s) \/ Abort(s)
      PROVE  Moved(s)
  <2>1. CASE Abort(s)
    <3>1. Exit(s) /\ saved' = saved
      BY <2>1 DEF Abort, EndEarly, fileVars
    <3> QED BY <3>1, EndMoved DEF AdvanceInv
  <2> QED BY <1>2, <2>1, ProgressMoved
<1>3. SyncsAdvance
  BY <1>2, OthersStay DEF SyncsAdvance, Moved
<1>4. ASSUME NEW s \in Syncers, Progress(s) \/ Abort(s)
      PROVE  AdvanceInv'
  <2>1. Moved(s)
    BY <1>2, <1>4
  <2>2. ASSUME NEW t \in Syncers \ {s} PROVE WalkInv(t)'
    <3>1. UNCHANGED Local(t)
      BY <1>4, OthersStay DEF OthersMove
    <3> QED BY <3>1 DEF Local, AdvanceInv, WalkInv
  <2> QED BY <2>1, <2>2 DEF Moved, AdvanceInv
<1>5. ASSUME User PROVE AdvanceInv'
  <2>1. \A p \in Paths : IsFiniteSet(saved'[p].ids)
    <3>1. CASE RemoveState
      BY <3>1, FS_EmptySet DEF RemoveState, NoView, NoEntry
    <3>2. CASE ~RemoveState
      BY <1>5, <3>2 DEF User, EditFile, AddNote, RemoveRow, AdvanceInv, fileVars
    <3> QED BY <3>1, <3>2
  <2>2. ASSUME NEW t \in Syncers PROVE WalkInv(t)'
    <3>1. UNCHANGED Local(t)
      BY <1>5, OthersStay DEF OthersMove
    <3> QED BY <3>1 DEF Local, AdvanceInv, WalkInv
  <2> QED BY <2>1, <2>2 DEF AdvanceInv
<1>6. AdvanceInv'
  BY <1>1, <1>4, <1>5 DEF Next
<1> QED BY <1>3, <1>6

(* sync.go:61: every sync of a finite directory comes to an end, by itself: each
   of its steps brings it closer, in an order in which nothing gets closer for
   ever, and nothing that the user or another sync does meanwhile sets it back.
   In particular a document is replaced at most once, however it is edited.
   (That the steps are taken is the fairness that Converges needs.) *)
THEOREM SyncsEnd == Spec => [][SyncsAdvance]_vars
<1> QED BY InitAdvance, NextAdvance, TypeCorrect, PTL DEF Spec
=============================================================================
