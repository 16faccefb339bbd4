----------------------------- MODULE MemorySync -----------------------------
(***************************************************************************)
(* `ai memory sync`: the incremental mirror of a directory of markdown     *)
(* files into the memory store (internal/memory/sync, and the Add / Delete *)
(* of internal/memory/service it drives).                                  *)
(*                                                                         *)
(* Each element of Syncers is one process that runs Sync; several may run  *)
(* at once (two terminals, a cron job).  The store is a shared table of    *)
(* rows whose Save and Delete are atomic, which is what the Postgres       *)
(* backend gives; FileStore models the JSON file.  Documents are           *)
(* edited, and rows added and removed by `ai memory add` / `ai memory rm`, *)
(* between any two steps of a sync; a sync may fail or be killed at every  *)
(* step.  A content is abstracted to its hash and its number of chunks.    *)
(***************************************************************************)
EXTENDS Integers

CONSTANTS
    Paths,      \* relative paths of the markdown files of the source
    Contents,   \* contents a document can have (a content is its hash)
    Absent,     \* "no such file" and "no such entry"
    Note,       \* owner of the rows no sync has made
    Syncers,    \* processes that run `ai memory sync`
    NChunks,    \* number of chunks chunk.Chunk cuts a content into
    MaxEdits,   \* bound: changes of documents
    Removes,    \* whether the user removes a state file that cannot be read
    MaxCommands,\* bound: `ai memory add` and `ai memory rm`
    MaxFaults   \* bound: errors and crashes

ASSUME ConstantsAssumption ==
    /\ Absent \notin Contents
    /\ Note \notin Paths
    /\ NChunks \in [Contents -> Nat]
    /\ Removes \in BOOLEAN
    /\ MaxEdits \in Nat
    /\ MaxCommands \in Nat
    /\ MaxFaults \in Nat

VARIABLES
    disk,       \* the source directory: content of each path, or Absent
    rows,       \* the store: a function from the live ids to rows
    nextId,     \* next id of newID()
    saved,      \* the view in sync-<name>.json
    file,       \* whether that file is "whole", "empty" (truncated) or "garbled"
    pc,         \* where each syncer is
    st,         \* the view each syncer has in memory
    todo,       \* listed files still to visit
    seen,       \* files visited
    job,        \* the document a syncer is replacing or forgetting
    past,       \* history: every content a path ever had on disk
    reverted,   \* history: paths that went back to an earlier content
    tampered,   \* history: owners of rows removed by `ai memory rm`
    failed,     \* history: has a sync ended early, or its state been lost?
    last,       \* history: "clean" once a sync has succeeded and no document
                \* was edited since it began, else "running" or "dirty"
    edits, commands, faults

vars == <<disk, rows, nextId, saved, file, pc, st, todo, seen, job,
          past, reverted, tampered, failed, last,
          edits, commands, faults>>

fileVars == <<saved, file>>
procVars == <<pc, st, todo, seen, job>>
storeVars == <<rows, nextId>>
userVars == <<disk, past, reverted, tampered, edits, commands>>
runVars == <<failed, last, faults>>

-----------------------------------------------------------------------------
(* fileState and state: hash Absent stands for a path with no entry. *)
Entry == [hash : Contents \cup {Absent}, ids : SUBSET Nat]
NoEntry == [hash |-> Absent, ids |-> {}]
View == [Paths -> Entry]
NoView == [p \in Paths |-> NoEntry]

Row == [owner : Paths \cup {Note}, content : Contents, part : Nat]

Job == [path : Paths \cup {Note}, content : Contents \cup {Absent},
        drop : SUBSET Nat, ids : SUBSET Nat, part : Nat]
NoJob == [path |-> Note, content |-> Absent, drop |-> {}, ids |-> {}, part |-> 0]

Live == DOMAIN rows

(* Store.Save of a fresh id, Store.Delete (deleting an unknown id is no error). *)
Save(id, r) == rows' = [i \in Live \cup {id} |-> IF i = id THEN r ELSE rows[i]]
Delete(id) == rows' = [i \in Live \ {id} |-> rows[i]]

Init ==
    /\ disk \in [Paths -> Contents \cup {Absent}]
    /\ rows = [i \in {} |-> [owner |-> Note, content |-> Absent, part |-> 0]]
    /\ nextId = 0
    /\ saved = NoView
    /\ file = "whole"
    /\ pc = [s \in Syncers |-> "idle"]
    /\ st = [s \in Syncers |-> NoView]
    /\ todo = [s \in Syncers |-> {}]
    /\ seen = [s \in Syncers |-> {}]
    /\ job = [s \in Syncers |-> NoJob]
    /\ past = [p \in Paths |-> {disk[p]} \ {Absent}]
    /\ reverted = {}
    /\ tampered = {}
    /\ failed = FALSE
    /\ last = "dirty"
    /\ edits = 0
    /\ commands = 0
    /\ faults = 0

-----------------------------------------------------------------------------
(* Steps of a sync. *)

(* loadState; a file that does not parse ends the sync before it does anything. *)
LoadState(s) ==
    /\ pc[s] = "idle"
    /\ file = "whole"
    /\ st' = [st EXCEPT ![s] = saved]
    /\ last' = "running"
    /\ pc' = [pc EXCEPT ![s] = "list"]
    /\ UNCHANGED <<fileVars, todo, seen, job, storeVars, failed, faults, userVars>>

(* WalkDir reads the directory; a missing directory is an empty one. *)
ListDir(s) ==
    /\ pc[s] = "list"
    /\ todo' = [todo EXCEPT ![s] = {p \in Paths : disk[p] # Absent}]
    /\ pc' = [pc EXCEPT ![s] = "walk"]
    /\ UNCHANGED <<fileVars, st, seen, job, storeVars, runVars, userVars>>

(* Mutant: any indexed file counts as unchanged. *)
VisitUnchangedNoHash(s, p) ==
    /\ pc[s] = "walk"
    /\ p \in todo[s]
    /\ disk[p] # Absent
    /\ st[s][p].hash # Absent
    /\ todo' = [todo EXCEPT ![s] = @ \ {p}]
    /\ seen' = [seen EXCEPT ![s] = @ \cup {p}]
    /\ UNCHANGED <<fileVars, pc, st, job, storeVars, runVars, userVars>>

VisitUnchanged(s, p) ==
    /\ pc[s] = "walk"
    /\ p \in todo[s]
    /\ disk[p] # Absent
    /\ disk[p] = st[s][p].hash
    /\ todo' = [todo EXCEPT ![s] = @ \ {p}]
    /\ seen' = [seen EXCEPT ![s] = @ \cup {p}]
    /\ UNCHANGED <<fileVars, pc, st, job, storeVars, runVars, userVars>>

Visited(s, p, drop, ids) ==
    /\ pc[s] = "walk"
    /\ p \in todo[s]
    /\ disk[p] # Absent
    /\ todo' = [todo EXCEPT ![s] = @ \ {p}]
    /\ seen' = [seen EXCEPT ![s] = @ \cup {p}]
    /\ job' = [job EXCEPT ![s] = [path |-> p, content |-> disk[p],
                                  drop |-> drop, ids |-> ids, part |-> 1]]
    /\ pc' = [pc EXCEPT ![s] = "replace"]
    /\ UNCHANGED <<fileVars, st, storeVars, runVars, userVars>>

(* Mutants: the new ids are appended to the previous ones; the previous chunks
   are not deleted; an unchanged file is indexed again. *)
VisitChangedAppend(s, p) == disk[p] # st[s][p].hash /\ Visited(s, p, {}, st[s][p].ids)
VisitChangedKeep(s, p) == disk[p] # st[s][p].hash /\ Visited(s, p, {}, {})
VisitAlways(s, p) == Visited(s, p, st[s][p].ids, {})

(* New or changed: the ids of the previous version are to be dropped first. *)
VisitChanged(s, p) ==
    /\ disk[p] # st[s][p].hash
    /\ Visited(s, p, st[s][p].ids, {})

(* deleteIDs, one id at a time. *)
DeleteStale(s, id) ==
    /\ pc[s] \in {"replace", "forget"}
    /\ id \in job[s].drop
    /\ Delete(id)
    /\ job' = [job EXCEPT ![s].drop = @ \ {id}]
    /\ UNCHANGED <<fileVars, pc, st, todo, seen, nextId, runVars, userVars>>

(* Mutant: an id is issued twice. *)
SaveChunkSameId(s) ==
    /\ pc[s] = "replace"
    /\ job[s].drop = {}
    /\ job[s].part <= NChunks[job[s].content]
    /\ Save(nextId, [owner |-> job[s].path, content |-> job[s].content,
                     part |-> job[s].part])
    /\ job' = [job EXCEPT ![s].ids = @ \cup {nextId}, ![s].part = @ + 1]
    /\ UNCHANGED <<fileVars, pc, st, todo, seen, nextId, runVars, userVars>>

(* One turn of the loop of Service.Add: embed a chunk and save it. *)
SaveChunk(s) ==
    /\ pc[s] = "replace"
    /\ job[s].drop = {}
    /\ job[s].part <= NChunks[job[s].content]
    /\ Save(nextId, [owner |-> job[s].path, content |-> job[s].content,
                     part |-> job[s].part])
    /\ nextId' = nextId + 1
    /\ job' = [job EXCEPT ![s].ids = @ \cup {nextId}, ![s].part = @ + 1]
    /\ UNCHANGED <<fileVars, pc, st, todo, seen, runVars, userVars>>

Record(s, hash) ==
    /\ job[s].drop = {}
    /\ st' = [st EXCEPT ![s][job[s].path] = [hash |-> hash, ids |-> job[s].ids]]
    /\ job' = [job EXCEPT ![s] = NoJob]
    /\ pc' = [pc EXCEPT ![s] = "walk"]
    /\ UNCHANGED <<fileVars, todo, seen, storeVars, runVars, userVars>>

(* Mutants: the last chunk is not waited for; the file is hashed again after
   its chunks were stored. *)
ReplacedEarly(s) ==
    /\ pc[s] = "replace"
    /\ job[s].part >= NChunks[job[s].content]
    /\ Record(s, job[s].content)
ReplacedRehash(s) ==
    /\ pc[s] = "replace"
    /\ job[s].part > NChunks[job[s].content]
    /\ Record(s, disk[job[s].path])

(* Add returned the ids of all chunks: st.Files[rel] = fileState{hash, ids}. *)
Replaced(s) ==
    /\ pc[s] = "replace"
    /\ job[s].part > NChunks[job[s].content]
    /\ Record(s, job[s].content)

Gone(s, p, owner) ==
    /\ pc[s] = "walk"
    /\ todo[s] = {}
    /\ st[s][p].hash # Absent
    /\ job' = [job EXCEPT ![s] = [path |-> owner, content |-> Absent,
                                  drop |-> st[s][p].ids, ids |-> {}, part |-> 1]]
    /\ pc' = [pc EXCEPT ![s] = "forget"]
    /\ UNCHANGED <<fileVars, st, todo, seen, storeVars, runVars, userVars>>

(* Mutants: the entry to delete is not recorded; the files seen are not
   excepted. *)
VisitGoneNoPath(s, p) == p \notin seen[s] /\ Gone(s, p, Note)
VisitGoneAll(s, p) == Gone(s, p, p)

(* Files gone from disk: delete their rows, then the entry. *)
VisitGone(s, p) == p \notin seen[s] /\ Gone(s, p, p)

Forgotten(s) ==
    /\ pc[s] = "forget"
    /\ job[s].drop = {}
    /\ st' = [st EXCEPT ![s][job[s].path] = NoEntry]
    /\ job' = [job EXCEPT ![s] = NoJob]
    /\ pc' = [pc EXCEPT ![s] = "walk"]
    /\ UNCHANGED <<fileVars, todo, seen, storeVars, runVars, userVars>>

(* Mutant: the state is saved before the files gone are dealt with. *)
TruncateStateEarly(s) ==
    /\ pc[s] = "walk"
    /\ todo[s] = {}
    /\ file' = "empty"
    /\ saved' = NoView
    /\ pc' = [pc EXCEPT ![s] = "write"]
    /\ UNCHANGED <<st, todo, seen, job, storeVars, runVars, userVars>>

(* saveState is a plain os.WriteFile: it truncates the file ... *)
TruncateState(s) ==
    /\ pc[s] = "walk"
    /\ todo[s] = {}
    /\ \A p \in Paths \ seen[s] : st[s][p] = NoEntry
    /\ file' = "empty"
    /\ saved' = NoView
    /\ pc' = [pc EXCEPT ![s] = "write"]
    /\ UNCHANGED <<st, todo, seen, job, storeVars, runVars, userVars>>

(* The process ends; what it held in memory is gone. *)
Exit(s) ==
    /\ pc' = [pc EXCEPT ![s] = "idle"]
    /\ st' = [st EXCEPT ![s] = NoView]
    /\ todo' = [todo EXCEPT ![s] = {}]
    /\ seen' = [seen EXCEPT ![s] = {}]
    /\ job' = [job EXCEPT ![s] = NoJob]

(* ... and writes it.  If another process has written since the truncation,
   the tail of a longer text may be left after this one, and the result does
   not parse. *)
WriteState(s) ==
    /\ pc[s] = "write"
    /\ \/ /\ file' = "whole"
          /\ saved' = st[s]
       \/ /\ file # "empty"
          /\ file' = "garbled"
          /\ saved' = NoView
    /\ last' = IF last = "running" THEN "clean" ELSE last
    /\ Exit(s)
    /\ UNCHANGED <<storeVars, failed, faults, userVars>>

EndEarly(s) ==
    /\ failed' = TRUE
    /\ last' = "dirty"
    /\ Exit(s)
    /\ UNCHANGED <<fileVars, storeVars, userVars>>

(* os.ReadFile of a listed file that has been removed: the sync fails. *)
VisitVanished(s, p) ==
    /\ pc[s] = "walk"
    /\ p \in todo[s]
    /\ disk[p] = Absent
    /\ EndEarly(s)
    /\ UNCHANGED faults

(* Any other error return (embedder, store, file system), or the process dies. *)
Abort(s) ==
    /\ pc[s] # "idle"
    /\ faults < MaxFaults
    /\ faults' = faults + 1
    /\ EndEarly(s)

-----------------------------------------------------------------------------
(* The user. *)

(* A document is created, changed or removed. *)
EditFile(p, c) ==
    /\ edits < MaxEdits
    /\ edits' = edits + 1
    /\ c # disk[p]
    /\ disk' = [disk EXCEPT ![p] = c]
    /\ past' = [past EXCEPT ![p] = @ \cup ({c} \ {Absent})]
    /\ reverted' = reverted \cup {q \in {p} : c \in past[q]}
    /\ last' = "dirty"
    /\ UNCHANGED <<fileVars, procVars, storeVars, tampered, commands, failed, faults>>

(* Mutant: the smallest free id is used. *)
AddNoteFreeId(c) ==
    /\ commands < MaxCommands
    /\ commands' = commands + 1
    /\ \E id \in 0..nextId :
         /\ id \notin Live
         /\ \A i \in 0..id - 1 : i \in Live
         /\ Save(id, [owner |-> Note, content |-> c, part |-> 1])
         /\ nextId' = IF id = nextId THEN id + 1 ELSE nextId
    /\ UNCHANGED <<fileVars, procVars, disk, past, reverted, tampered, edits, runVars>>

(* `ai memory add`, or a chat turn that is remembered. *)
AddNote(c) ==
    /\ commands < MaxCommands
    /\ commands' = commands + 1
    /\ Save(nextId, [owner |-> Note, content |-> c, part |-> 1])
    /\ nextId' = nextId + 1
    /\ UNCHANGED <<fileVars, procVars, disk, past, reverted, tampered, edits, runVars>>

(* `ai memory rm <id>`. *)
RemoveRow(id) ==
    /\ commands < MaxCommands
    /\ commands' = commands + 1
    /\ id \in Live
    /\ Delete(id)
    /\ tampered' = tampered \cup {rows[id].owner}
    /\ UNCHANGED <<fileVars, procVars, disk, past, reverted, edits, nextId, runVars>>

(* The user removes a state file that no sync can read: to the next sync nothing
   has been indexed. *)
RemoveState ==
    /\ Removes
    /\ file # "whole"
    /\ \A s \in Syncers : pc[s] # "write"
    /\ file' = "whole"
    /\ saved' = NoView
    /\ failed' = TRUE
    /\ last' = "dirty"
    /\ UNCHANGED <<procVars, storeVars, userVars, faults>>

-----------------------------------------------------------------------------
Progress(s) ==
    \/ LoadState(s)
    \/ ListDir(s)
    \/ \E p \in Paths : VisitUnchanged(s, p)
    \/ \E p \in Paths : VisitChanged(s, p)
    \/ \E p \in Paths : VisitGone(s, p)
    \/ \E p \in Paths : VisitVanished(s, p)
    \/ \E id \in job[s].drop : DeleteStale(s, id)
    \/ SaveChunk(s)
    \/ Replaced(s)
    \/ Forgotten(s)
    \/ TruncateState(s)
    \/ WriteState(s)

User ==
    \/ \E p \in Paths, c \in Contents \cup {Absent} : EditFile(p, c)
    \/ \E c \in Contents : AddNote(c)
    \/ \E id \in Live : RemoveRow(id)
    \/ RemoveState

Next ==
    \/ \E s \in Syncers : Progress(s) \/ Abort(s)
    \/ User

Spec == Init /\ [][Next]_vars

(* The user keeps running `ai memory sync`, and a sync that runs takes its
   steps; nothing is assumed of edits, crashes or errors. *)
FairSpec == Spec /\ \A s \in Syncers : WF_vars(Progress(s))

-----------------------------------------------------------------------------
(* Properties. *)

Idle == \A s \in Syncers : pc[s] = "idle"
OneSyncer == \A s, t \in Syncers : s = t
RowsOf(p) == {id \in Live : rows[id].owner = p}

(* Documents the user reverted or whose rows were removed by hand. *)
Excused == reverted \cup tampered

HasParts(ids, n) == \A k \in 1..n : \E id \in ids \cap Live : rows[id].part = k

(* All chunks of the version an entry names are in the store, under its ids. *)
Complete(e) == HasParts(e.ids, NChunks[e.hash])

TypeOK ==
    /\ disk \in [Paths -> Contents \cup {Absent}]
    /\ Live \subseteq Nat
    /\ rows \in [Live -> Row]
    /\ nextId \in Nat
    /\ saved \in View
    /\ file \in {"whole", "empty", "garbled"}
    /\ pc \in [Syncers -> {"idle", "list", "walk", "replace", "forget", "write"}]
    /\ st \in [Syncers -> View]
    /\ todo \in [Syncers -> SUBSET Paths]
    /\ seen \in [Syncers -> SUBSET Paths]
    /\ job \in [Syncers -> Job]
    /\ \A s \in Syncers :
         /\ pc[s] \in {"replace", "forget"} => job[s].path \in Paths
         /\ pc[s] = "replace" => job[s].content \in Contents
    /\ past \in [Paths -> SUBSET Contents]
    /\ reverted \subseteq Paths
    /\ tampered \subseteq Paths \cup {Note}
    /\ failed \in BOOLEAN
    /\ last \in {"dirty", "running", "clean"}
    /\ edits \in Nat
    /\ commands \in Nat
    /\ faults \in Nat

(* An entry of the persisted state never names a row of another document, of
   another version of the document, or a note: deleting an entry's ids can
   only ever delete that version of that document, whatever syncs crashed or
   ran side by side before. *)
EntriesTrue ==
    \A p \in Paths : \A id \in saved[p].ids \cap Live :
        rows[id].owner = p /\ rows[id].content = saved[p].hash

(* What Sync would report as unchanged is in the store: a path whose entry has
   the hash on disk has all its chunks stored, unless the document went back
   to an earlier version or its rows were removed by hand.  It holds through
   crashes, errors and concurrent syncs. *)
UnchangedIsIndexed ==
    \A p \in Paths \ Excused :
        disk[p] # Absent /\ disk[p] = saved[p].hash => Complete(saved[p])

(* While a single syncer has never failed, the store holds between two syncs
   exactly the rows the state knows of: no orphan, no duplicate chunk. *)
NoOrphans ==
    OneSyncer /\ ~failed /\ Idle =>
        \A p \in Paths :
            /\ RowsOf(p) \subseteq saved[p].ids
            /\ \A i, j \in RowsOf(p) : rows[i].part = rows[j].part => i = j

(* After a successful sync with no edit since it began, the state names the
   documents on disk, and each of them is completely stored - even if earlier
   syncs failed half way.  (It cannot say that nothing else is stored.) *)
CleanSyncMirrors ==
    OneSyncer /\ last = "clean" =>
        \A p \in Paths :
            /\ saved[p].hash = disk[p]
            /\ disk[p] # Absent /\ p \notin Excused => Complete(saved[p])

(* A sync never deletes a row of `ai memory add` or of a chat: only a command
   of the user removes a note. *)
DropsNoNote == \A id \in Live \ Live' : rows[id].owner = Note => commands' = commands + 1
NotesUntouched == [][DropsNoNote]_vars

(* No step deletes a chunk of the version of a document that is on disk,
   however stale the state a syncer works from; the same exceptions. *)
DropsOnlyStale ==
    \A id \in Live \ Live' :
        LET r == rows[id] IN
        r.owner \in Paths \ Excused' => r.content # disk[r.owner]
NeverDropsCurrent == [][DropsOnlyStale]_vars

(* If the user stops editing, syncs go on running, and a state file left
   unreadable by a sync that died while it wrote it is removed, the state file
   and the store end up mirroring the disk for good. *)
StateRestored == WF_vars(RemoveState)
Mirrored ==
    \A p \in Paths \ Excused :
        /\ saved[p].hash = disk[p]
        /\ disk[p] # Absent => Complete(saved[p])
Converges ==
    StateRestored => <>[]((\E s \in Syncers : pc[s] = "write") \/ (file = "whole" /\ Mirrored))

(* sync.go:61 "Sync reconciles the source directory with the memory store":
   after a successful sync of unchanging documents no one tampered with, every
   document is completely stored. *)
SyncReconciles ==
    OneSyncer /\ last = "clean" =>
        \A p \in Paths \ tampered : disk[p] # Absent => Complete(saved[p])

-----------------------------------------------------------------------------
(* The inductive invariant behind EntriesTrue, UnchangedIsIndexed,
   NotesUntouched and NeverDropsCurrent (proved in MemorySyncProofs). *)

(* The ids were issued, and those alive are rows of version h of p. *)
OwnIds(p, h, ids) ==
    \A id \in ids : id < nextId /\ (id \in Live => rows[id].owner = p /\ rows[id].content = h)

(* An entry for p, in the state file or in the memory of a syncer. *)
EntryInv(p, e) ==
    /\ OwnIds(p, e.hash, e.ids)
    /\ p \notin Excused /\ e.hash # Absent =>
         e.hash \in past[p] /\ (disk[p] = e.hash => Complete(e))

(* The version of p that syncer s has loaded is not the one on disk. *)
Stale(s, p) == p \notin Excused /\ st[s][p].hash # Absent => disk[p] # st[s][p].hash

(* The document a syncer replaces or forgets. *)
JobInv(s) ==
    LET j == job[s] IN
    /\ Stale(s, j.path)
    /\ OwnIds(j.path, st[s][j.path].hash, j.drop)
    /\ pc[s] = "replace" =>
         /\ j.path \in seen[s]
         /\ OwnIds(j.path, j.content, j.ids)
         /\ j.path \notin Excused =>
              j.content \in past[j.path] /\ (disk[j.path] = j.content => HasParts(j.ids, j.part - 1))

SyncerInv(s) ==
    /\ \A p \in Paths : EntryInv(p, st[s][p])
    /\ pc[s] \in {"replace", "forget"} => JobInv(s)
    /\ pc[s] \in {"walk", "replace", "forget"} =>
         \A p \in Paths \ (todo[s] \cup seen[s]) : Stale(s, p)

IdsIssued == \A id \in Live : id < nextId
PastKnown == \A p \in Paths : disk[p] # Absent => disk[p] \in past[p]

IInv ==
    /\ TypeOK
    /\ IdsIssued
    /\ PastKnown
    /\ \A p \in Paths : EntryInv(p, saved[p])
    /\ \A s \in Syncers : SyncerInv(s)
=============================================================================
