------------------------------- MODULE Index --------------------------------
(***************************************************************************)
(* The semantic index over its life: the Postgres table and its migration  *)
(* (internal/memory/store/pgvector_store.go), the embedder the workspace   *)
(* is configured with and its cache (internal/memory/embed), and the sync  *)
(* state that says which documents are in the table.  The user edits       *)
(* documents, changes the embedder, drops the table, deletes .ai/.cache    *)
(* and runs commands; the database is down at times; commands are killed.  *)
(*                                                                         *)
(* A document is one chunk here, and is read, stored and recorded in one   *)
(* run of the syncer; MemorySync has several chunks, the order of the walk *)
(* and concurrent syncers.                                                 *)
(***************************************************************************)
EXTENDS Naturals

CONSTANTS
    Docs,       \* documents of the workspace
    Texts,      \* what a document, a note or a query may say
    Absent,     \* not a text: the document does not exist
    Note,       \* not a document: the owner of rows of `ai memory add`
    Embedders,  \* configurations of the embedder
    IdOf,       \* Embedder.ID of each
    DimOf,      \* Embedder.Dim of each: what is configured
    Natural,    \* by ID: the dimension the model really produces
    Procs,      \* processes
    Commands,   \* the commands each process may run
    Queries,    \* texts that are asked for
    MaxEvents   \* bound: edits, switches, losses, notes and faults, together

Kinds == {"sync", "add", "chat"}

ASSUME IndexAssumption ==
    /\ Absent \notin Texts /\ Note \notin Docs
    /\ DimOf \in [Embedders -> Nat \ {0}]
    /\ \A e \in Embedders : Natural[IdOf[e]] \in Nat \ {0}
    /\ Commands \in [Procs -> SUBSET Kinds]
    /\ Queries \subseteq Texts /\ MaxEvents \in Nat

VARIABLES
    disk, config,           \* the documents and workspace.yaml
    up, table, rows,        \* Postgres
    cacheFile, stateFile,   \* .ai/.cache: embed-cache.json, sync-*.json
    pc, cmd, emb,           \* per process: where it is, command, embedder
    once,             \* ... sync.Once of the store
    mem, st, todo, job,     \* ... cache map, sync state, documents to visit, task
    nextId,
    touched, torn, lost, raced, last,   \* history, see below
    events

worldVars == <<disk, config>>
dbVars == <<table, rows, nextId>>
fileVars == <<cacheFile, stateFile>>
procVars == <<cmd, emb, once, mem, st, todo, job, touched>>
runVars == <<torn, lost, raced, last>>
vars == <<worldVars, up, dbVars, fileVars, pc, procVars, runVars, events>>

-----------------------------------------------------------------------------
(* Data. *)

NoTable == [dim |-> 0, full |-> FALSE]
NoRows == [i \in {} |-> Absent]
NoEntry == [text |-> Absent, id |-> 0]
NoVector == [by |-> Absent, text |-> Absent, dim |-> 0]
NoJob == [owner |-> Note, text |-> Absent, vec |-> NoVector]
NoEmbedder == CHOOSE e \in Embedders : TRUE
Unsynced == [d \in Docs |-> NoEntry]

(* The vector a model gives a text. *)
Vector(id, t) == [by |-> id, text |-> t, dim |-> Natural[id]]

(* Mutant: the key is the text only. *)
KeyText(id, t) == <<Absent, t>>
(* CachedEmbedder.key *)
Key(id, t) == <<id, t>>

Live == DOMAIN rows

Init ==
    /\ disk \in [Docs -> Texts \cup {Absent}]
    /\ config \in Embedders
    /\ up = FALSE
    /\ table = NoTable
    /\ rows = NoRows
    /\ cacheFile = {}
    /\ stateFile = Unsynced
    /\ pc = [p \in Procs |-> "idle"]
    /\ cmd = [p \in Procs |-> "sync"]
    /\ emb = [p \in Procs |-> NoEmbedder]
    /\ once = [p \in Procs |-> "new"]
    /\ mem = [p \in Procs |-> {}]
    /\ st = [p \in Procs |-> Unsynced]
    /\ todo = [p \in Procs |-> {}]
    /\ job = [p \in Procs |-> NoJob]
    /\ nextId = 1
    /\ touched = [p \in Procs |-> FALSE]    \* this sync changed rows
    /\ torn = FALSE                         \* a sync that changed rows ended early
    /\ lost = {}                            \* "table" and "cache", when dropped
    /\ raced = {}           \* processes whose table changed after they looked at it
    /\ last = "dirty"                       \* "clean": nothing changed since a sync
    /\ events = 0

-----------------------------------------------------------------------------
Event == events < MaxEvents /\ events' = events + 1

(* Commands: openWorkspace reads the configuration and embed.New the cache
   file; store.New connects to nothing. *)

Begin(p, c, to, task) ==
    /\ pc[p] = "idle"
    /\ c \in Commands[p]
    /\ pc' = [pc EXCEPT ![p] = to]
    /\ cmd' = [cmd EXCEPT ![p] = c]
    /\ emb' = [emb EXCEPT ![p] = config]
    /\ mem' = [mem EXCEPT ![p] = cacheFile]
    /\ once' = [once EXCEPT ![p] = "new"]
    /\ job' = [job EXCEPT ![p] = task]
    /\ touched' = [touched EXCEPT ![p] = FALSE]
    /\ UNCHANGED <<worldVars, up, dbVars, fileVars, torn, lost, raced>>

Task(owner, t) == [owner |-> owner, text |-> t, vec |-> NoVector]

Sync(p) ==
    /\ Begin(p, "sync", "walk", NoJob)
    /\ st' = [st EXCEPT ![p] = stateFile]
    /\ todo' = [todo EXCEPT ![p] = Docs]
    /\ last' = IF \E q \in Procs : pc[q] # "idle" /\ cmd[q] = "sync" THEN "dirty" ELSE "running"
    /\ UNCHANGED events

AddNote(p, t) ==
    /\ Event
    /\ Begin(p, "add", "embed", Task(Note, t))
    /\ UNCHANGED <<st, todo, last>>

(* `ai chat`; `ai run` and `ai memory search` are chats of one turn. *)
Chat(p) == Begin(p, "chat", "open", NoJob) /\ UNCHANGED <<st, todo, last, events>>

(* A turn of the chat: the context builder searches the memory. *)
Turn(p, t) ==
    /\ pc[p] = "open"
    /\ pc' = [pc EXCEPT ![p] = "ask"]
    /\ job' = [job EXCEPT ![p] = Task(Note, t)]
    /\ UNCHANGED <<worldVars, up, dbVars, fileVars, cmd, emb, once, mem, st, todo, touched,
                   runVars, events>>

Forget(p) ==
    /\ mem' = [mem EXCEPT ![p] = {}]
    /\ st' = [st EXCEPT ![p] = Unsynced]
    /\ todo' = [todo EXCEPT ![p] = {}]
    /\ job' = [job EXCEPT ![p] = NoJob]
    /\ once' = [once EXCEPT ![p] = "new"]
    /\ touched' = [touched EXCEPT ![p] = FALSE]
    /\ cmd' = [cmd EXCEPT ![p] = "sync"]
    /\ emb' = [emb EXCEPT ![p] = NoEmbedder]
    /\ raced' = raced \ {p}

(* The process is gone: a sync leaves what it did to the table. *)
Gone(p) ==
    /\ pc' = [pc EXCEPT ![p] = "idle"]
    /\ Forget(p)
    /\ torn' = (torn \/ touched[p])
    /\ last' = IF cmd[p] = "sync" THEN "dirty" ELSE last
    /\ UNCHANGED lost

(* The chat goes on, with its store as it is. *)
NextTurn(p) ==
    /\ cmd[p] = "chat"
    /\ pc' = [pc EXCEPT ![p] = "open"]
    /\ job' = [job EXCEPT ![p] = NoJob]
    /\ UNCHANGED <<cmd, emb, once, st, todo, touched, runVars>>

(* An error ends every command; the chat prints it, or ignores it when it was
   storing an exchange, and goes on. *)
Fails(p) ==
    \/ cmd[p] # "chat" /\ Gone(p)
    \/ NextTurn(p) /\ UNCHANGED mem

-----------------------------------------------------------------------------
(* Syncer.Sync. *)

(* What there is to do about a document: nothing, drop its row, embed it. *)
Visit(p, d) ==
    LET known == st[p][d].text # Absent
        same == st[p][d].text = disk[d]
    IN
    /\ pc[p] = "walk"
    /\ d \in todo[p]
    /\ todo' = [todo EXCEPT ![p] = @ \ {d}]
    /\ job' = [job EXCEPT ![p] = IF same THEN NoJob ELSE Task(d, disk[d])]
    /\ pc' = [pc EXCEPT ![p] = IF same THEN "walk" ELSE IF known THEN "drop" ELSE "embed"]
    /\ UNCHANGED <<worldVars, up, dbVars, fileVars, cmd, emb, once, mem, st, touched, runVars,
                   events>>

Record(p, entry) == st' = [st EXCEPT ![p][job[p].owner] = entry]

WriteState(p) ==
    /\ pc[p] = "walk"
    /\ todo[p] = {}
    /\ stateFile' = st[p]
    /\ pc' = [pc EXCEPT ![p] = "idle"]
    /\ Forget(p)
    /\ last' = IF last = "running" THEN "clean" ELSE last
    /\ UNCHANGED <<worldVars, up, dbVars, cacheFile, torn, lost, events>>

-----------------------------------------------------------------------------
(* CachedEmbedder.Embed, of what is to be stored or of a question. *)

AtEmbedder(p) == pc[p] \in {"embed", "ask"}

Embedded(p, v) ==
    /\ job' = [job EXCEPT ![p].vec = v]
    /\ pc' = [pc EXCEPT ![p] = IF @ = "embed" THEN "save" ELSE "query"]

EmbedHit(p) ==
    /\ AtEmbedder(p)
    /\ \E x \in mem[p] : x.key = Key(IdOf[emb[p]], job[p].text) /\ Embedded(p, x.vec)
    /\ UNCHANGED <<worldVars, up, dbVars, fileVars, cmd, emb, once, mem, st, todo, touched,
                   runVars, events>>

Misses(p) == \A x \in mem[p] : x.key # Key(IdOf[emb[p]], job[p].text)
Works(e) == DimOf[e] = Natural[IdOf[e]]

(* fileCache.put: the map, then the whole file. *)
Extended(p) ==
    LET id == IdOf[emb[p]] IN
    mem[p] \cup {[key |-> Key(id, job[p].text), vec |-> Vector(id, job[p].text)]}
Put(p) == mem' = [mem EXCEPT ![p] = Extended(p)]

EmbedMiss(p) ==
    /\ AtEmbedder(p)
    /\ Misses(p)
    /\ Works(emb[p])
    /\ Put(p)
    /\ cacheFile' = Extended(p)
    /\ Embedded(p, Vector(IdOf[emb[p]], job[p].text))
    /\ UNCHANGED <<worldVars, up, dbVars, stateFile, cmd, emb, once, st, todo, touched,
                   runVars, events>>

(* The model gives vectors of another size than configured (Ollama). *)
EmbedRefused(p) ==
    /\ AtEmbedder(p)
    /\ Misses(p)
    /\ ~Works(emb[p])
    /\ Fails(p)
    /\ UNCHANGED <<worldVars, up, dbVars, fileVars, events>>

(* The server does not answer. *)
EmbedFails(p) ==
    /\ AtEmbedder(p)
    /\ Misses(p)
    /\ Event
    /\ Fails(p)
    /\ UNCHANGED <<worldVars, up, dbVars, fileVars>>

(* No disk space, or another process renamed the temporary file first: the
   cache file is what was in it, the whole map of this process or a part that
   does not parse, which is the same as no entry.  The map of this process has
   the entry all the same. *)
PutFails(p) ==
    /\ AtEmbedder(p)
    /\ Misses(p)
    /\ Works(emb[p])
    /\ Event
    /\ \/ UNCHANGED cacheFile
       \/ cacheFile' \in {{}, Extended(p)} /\ \E q \in Procs \ {p} : pc[q] # "idle"
    /\ \/ cmd[p] # "chat" /\ Gone(p)
       \/ NextTurn(p) /\ Put(p)
    /\ UNCHANGED <<worldVars, up, dbVars, stateFile>>

-----------------------------------------------------------------------------
(* PgVectorStore.ready: the first operation of a process pings and migrates. *)

AtStore(p) == pc[p] \in {"drop", "save", "query"}

Ready(p, o) ==
    /\ once' = [once EXCEPT ![p] = o]
    /\ UNCHANGED <<worldVars, up, rows, nextId, fileVars, pc, cmd, emb, mem, st, todo, job, touched,
                   torn, lost, last, events>>

(* Mutant: no look at the dimension. *)
GuardOpen(p) ==
    /\ AtStore(p)
    /\ once[p] = "new"
    /\ Ready(p, IF up THEN "create" ELSE "failed")
    /\ UNCHANGED <<table, raced>>

(* The ping, and the dimension of the table if there is one. *)
Guard(p) ==
    /\ AtStore(p)
    /\ once[p] = "new"
    /\ Ready(p, IF up /\ table.dim \in {0, DimOf[emb[p]]} THEN "create" ELSE "failed")
    /\ UNCHANGED <<table, raced>>

Created(p) ==
    /\ AtStore(p)
    /\ once[p] = "create"
    /\ up
    /\ table' = IF table.dim = 0 THEN [dim |-> DimOf[emb[p]], full |-> FALSE] ELSE table
    /\ raced' = raced \cup IF table.dim # 0 THEN {}
                          ELSE {q \in Procs : once[q] = "create" /\ DimOf[emb[q]] # DimOf[emb[p]]}

(* Mutants: CREATE TABLE without IF NOT EXISTS; the store is ready as soon as
   there is a table. *)
CreateNewTable(p) == table.dim = 0 /\ Created(p) /\ Ready(p, "extend")
CreateOnly(p) == Created(p) /\ Ready(p, "ready")

(* CREATE TABLE IF NOT EXISTS *)
CreateTable(p) == Created(p) /\ Ready(p, "extend")

(* ADD COLUMN IF NOT EXISTS content_tsv, CREATE INDEX IF NOT EXISTS *)
ExtendTable(p) ==
    /\ AtStore(p)
    /\ once[p] = "extend"
    /\ up /\ table.dim # 0
    /\ table' = [table EXCEPT !.full = TRUE]
    /\ Ready(p, "ready")
    /\ UNCHANGED raced

MigrateFails(p) ==
    /\ AtStore(p)
    /\ \/ once[p] \in {"create", "extend"} /\ ~up
       \/ once[p] = "extend" /\ table.dim = 0
    /\ Ready(p, "failed")
    /\ UNCHANGED <<table, raced>>

-----------------------------------------------------------------------------
(* The operations of the store, once ready. *)

(* What Postgres accepts: a vector of the dimension of the column, a search on
   a table that has the text column. *)
Accepts(p) ==
    /\ up
    /\ table.dim # 0
    /\ pc[p] \in {"save", "query"} => table.dim = job[p].vec.dim
    /\ pc[p] = "query" => table.full

Store(p, at) == pc[p] = at /\ once[p] = "ready" /\ Accepts(p)

DropRow(p) ==
    LET d == job[p].owner IN
    /\ Store(p, "drop")
    /\ rows' = [i \in Live \ {st[p][d].id} |-> rows[i]]
    /\ IF job[p].text = Absent
       THEN /\ Record(p, NoEntry)
            /\ job' = [job EXCEPT ![p] = NoJob]
            /\ pc' = [pc EXCEPT ![p] = "walk"]
       ELSE /\ UNCHANGED <<st, job>>
            /\ pc' = [pc EXCEPT ![p] = "embed"]
    /\ touched' = [touched EXCEPT ![p] = TRUE]
    /\ UNCHANGED <<worldVars, up, table, nextId, fileVars, cmd, emb, once, mem, todo,
                   runVars, events>>

Insert(p) ==
    rows' = [i \in Live \cup {nextId} |->
                IF i = nextId THEN [owner |-> job[p].owner, vec |-> job[p].vec] ELSE rows[i]]

SaveDoc(p) ==
    /\ cmd[p] = "sync"
    /\ Store(p, "save")
    /\ Insert(p)
    /\ nextId' = nextId + 1
    /\ Record(p, [text |-> job[p].text, id |-> nextId])
    /\ job' = [job EXCEPT ![p] = NoJob]
    /\ pc' = [pc EXCEPT ![p] = "walk"]
    /\ touched' = [touched EXCEPT ![p] = TRUE]
    /\ UNCHANGED <<worldVars, up, table, fileVars, cmd, emb, once, mem, todo, runVars,
                   events>>

(* A note is stored, and the command is over. *)
Added(p) ==
    /\ cmd[p] = "add"
    /\ pc' = [pc EXCEPT ![p] = "idle"]
    /\ Forget(p)
    /\ UNCHANGED <<torn, lost, last>>

(* Mutant: the id of a note is not used up. *)
SaveNoteSameId(p) ==
    /\ Store(p, "save")
    /\ Insert(p)
    /\ Added(p) \/ (NextTurn(p) /\ UNCHANGED mem)
    /\ UNCHANGED <<worldVars, up, table, nextId, fileVars, events>>

SaveNote(p) ==
    /\ Store(p, "save")
    /\ Insert(p)
    /\ nextId' = nextId + 1
    /\ Added(p) \/ (NextTurn(p) /\ UNCHANGED mem)
    /\ UNCHANGED <<worldVars, up, table, fileVars, events>>

(* Service.Search: the rows found go to the prompt or to the terminal. *)
Query(p) ==
    /\ Store(p, "query")
    /\ NextTurn(p)
    /\ UNCHANGED <<worldVars, up, dbVars, fileVars, mem, events>>

(* ... and the exchange, once the provider has answered, is to be stored as a
   row of the same kind as a note (Session.remember). *)
QueryAndRemember(p, t) ==
    /\ Store(p, "query")
    /\ Event
    /\ pc' = [pc EXCEPT ![p] = "embed"]
    /\ job' = [job EXCEPT ![p] = Task(Note, t)]
    /\ UNCHANGED <<worldVars, up, dbVars, fileVars, cmd, emb, once, mem, st, todo, touched, runVars>>

(* Mutant: the error of Save is not looked at. *)
StoreErrorIgnored(p) ==
    /\ AtStore(p)
    /\ once[p] = "failed" \/ (once[p] = "ready" /\ ~Accepts(p))
    /\ IF cmd[p] = "sync" /\ pc[p] = "save"
       THEN /\ Record(p, [text |-> job[p].text, id |-> 0])
            /\ job' = [job EXCEPT ![p] = NoJob]
            /\ pc' = [pc EXCEPT ![p] = "walk"]
            /\ UNCHANGED <<cmd, emb, once, mem, todo, touched, runVars>>
       ELSE Fails(p)
    /\ UNCHANGED <<worldVars, up, dbVars, fileVars, events>>

(* The store was not ready at the first operation - sync.Once keeps the error
   - or Postgres refuses this one. *)
StoreError(p) ==
    /\ AtStore(p)
    /\ once[p] = "failed" \/ (once[p] = "ready" /\ ~Accepts(p))
    /\ Fails(p)
    /\ UNCHANGED <<worldVars, up, dbVars, fileVars, events>>

-----------------------------------------------------------------------------
(* The user and the environment. *)

Edit(d, t) ==
    /\ Event
    /\ t # disk[d]
    /\ disk' = [disk EXCEPT ![d] = t]
    /\ last' = "dirty"
    /\ UNCHANGED <<config, up, dbVars, fileVars, pc, procVars, torn, lost, raced>>

Switch(e) ==
    /\ Event
    /\ e # config
    /\ config' = e
    /\ UNCHANGED <<disk, up, dbVars, fileVars, pc, procVars, runVars>>

Lose(what) ==
    /\ Event
    /\ lost' = lost \cup {what}
    /\ last' = "dirty"
    /\ UNCHANGED <<worldVars, up, pc, procVars, torn>>

(* DROP TABLE memory *)
DropTable ==
    /\ table.dim # 0
    /\ table' = NoTable
    /\ rows' = NoRows
    /\ raced' = raced \cup {p \in Procs : once[p] \in {"extend", "ready"}}
    /\ Lose("table")
    /\ UNCHANGED <<nextId, fileVars>>

(* rm -r .ai/.cache *)
DeleteCache ==
    /\ cacheFile' = {}
    /\ stateFile' = Unsynced
    /\ Lose("cache")
    /\ UNCHANGED <<dbVars, raced>>

GoDown ==
    /\ up
    /\ Event
    /\ up' = FALSE
    /\ UNCHANGED <<worldVars, dbVars, fileVars, pc, procVars, runVars>>

ComeUp ==
    /\ ~up
    /\ up' = TRUE
    /\ UNCHANGED <<worldVars, dbVars, fileVars, pc, procVars, runVars, events>>

Kill(p) ==
    /\ pc[p] # "idle"
    /\ Event
    /\ Gone(p)
    /\ UNCHANGED <<worldVars, up, dbVars, fileVars>>

(* The user leaves the chat. *)
Quit(p) == pc[p] = "open" /\ Gone(p) /\ UNCHANGED <<worldVars, up, dbVars, fileVars, events>>

(* What a process does by itself. *)
Step(p) ==
    \/ \E d \in Docs : Visit(p, d)
    \/ WriteState(p)
    \/ EmbedHit(p)
    \/ EmbedMiss(p)
    \/ EmbedRefused(p)
    \/ Guard(p)
    \/ CreateTable(p)
    \/ ExtendTable(p)
    \/ MigrateFails(p)
    \/ DropRow(p)
    \/ SaveDoc(p)
    \/ SaveNote(p)
    \/ Query(p)
    \/ \E t \in Texts : QueryAndRemember(p, t)
    \/ StoreError(p)

Start(p) ==
    \/ Sync(p)
    \/ \E t \in Texts : AddNote(p, t)
    \/ \E t \in Queries : Turn(p, t)
    \/ Chat(p)
    \/ Quit(p)

World ==
    \/ \E d \in Docs, t \in Texts \cup {Absent} : Edit(d, t)
    \/ \E e \in Embedders : Switch(e)
    \/ DropTable
    \/ DeleteCache
    \/ GoDown
    \/ ComeUp

Next ==
    \/ \E p \in Procs : Step(p) \/ Start(p) \/ EmbedFails(p) \/ PutFails(p) \/ Kill(p)
    \/ World

Spec == Init /\ [][Next]_vars

(* The user keeps running `ai memory sync`, and the syncer takes its steps.
   Nothing is assumed of the database or of other commands. *)
Syncers == {p \in Procs : "sync" \in Commands[p]}
FairSpec == Spec /\ \A p \in Syncers : WF_vars(Step(p)) /\ WF_vars(Sync(p))

-----------------------------------------------------------------------------
(* Properties. *)

Vectors == [by : {Absent} \cup {IdOf[e] : e \in Embedders}, text : Texts \cup {Absent}, dim : Nat]
Entries == [text : Texts \cup {Absent}, id : Nat]
Keys == {Key(IdOf[e], t) : e \in Embedders, t \in Texts \cup {Absent}}
Cached == [key : Keys, vec : Vectors]
Owners == Docs \cup {Note}

TypeOK ==
    /\ disk \in [Docs -> Texts \cup {Absent}]
    /\ config \in Embedders
    /\ up \in BOOLEAN
    /\ table \in [dim : Nat, full : BOOLEAN]
    /\ rows \in [Live -> [owner : Owners, vec : Vectors]]
    /\ nextId \in Nat \ {0} /\ \A i \in Live : i \in 1..(nextId - 1)
    /\ cacheFile \subseteq Cached
    /\ stateFile \in [Docs -> Entries]
    /\ pc \in [Procs -> {"idle", "open", "ask", "walk", "drop", "embed", "save", "query"}]
    /\ cmd \in [Procs -> Kinds]
    /\ emb \in [Procs -> Embedders]
    /\ once \in [Procs -> {"new", "create", "extend", "ready", "failed"}]
    /\ mem \in [Procs -> SUBSET Cached]
    /\ st \in [Procs -> [Docs -> Entries]]
    /\ todo \in [Procs -> SUBSET Docs]
    /\ job \in [Procs -> [owner : Owners, text : Texts \cup {Absent}, vec : Vectors]]
    /\ touched \in [Procs -> BOOLEAN]
    /\ torn \in BOOLEAN /\ raced \subseteq Procs
    /\ lost \subseteq {"table", "cache"}
    /\ last \in {"dirty", "running", "clean"}

Rows(d) == {i \in Live : rows[i].owner = d}
Current(d) == {i \in Rows(d) : rows[i].vec.text = disk[d]}

OneSyncer == \A p, q \in Syncers : p = q

(* cache.go:13 "The cache key includes the inner embedder's ID, so switching
   models never returns stale vectors": what any process finds in its map, or
   will load from the file, is what the model of that ID makes of that text. *)
CacheSound ==
    \A x \in cacheFile \cup UNION {mem[p] : p \in Procs} :
        \A e \in Embedders, t \in Texts :
            x.key = Key(IdOf[e], t) => x.vec = Vector(IdOf[e], t)

(* While nobody dropped the table or deleted .ai/.cache, and no sync ended
   halfway after it had changed rows, a clean sync leaves one row per document,
   with its text - whatever went wrong with the database, the migration, the
   embedder and the cache before. *)
CleanSyncMirrors ==
    OneSyncer /\ last = "clean" /\ lost = {} /\ ~torn =>
        \A d \in Docs :
            IF disk[d] = Absent THEN Rows(d) = {}
            ELSE \E i \in Live : Rows(d) = {i} /\ Current(d) = {i}

(* pgvector_store.go:77 "Guard against a dimension mismatch with an existing
   table, which would otherwise surface as a cryptic insert-time error": a
   process that is ready works on a table of its own dimension, whoever created
   or dropped the table before the process looked at it; only a process that
   was overtaken between its own look and its last statement is excepted. *)
GuardHolds ==
    \A p \in Procs \ raced : once[p] = "ready" => table.dim = DimOf[emb[p]]

(* No row is stored in, or deleted from, a table whose migration is not
   complete, whoever migrates it, unless the table was dropped meanwhile. *)
MigratedFirst ==
    [][rows' # rows /\ "table" \notin lost' => table.full]_vars

(* If the database stays up, the embedder is one that works and fits the table,
   and syncs go on running, the documents end up indexed: a migration or a
   cache write that failed, whenever it did, stands in the way of no later
   process.  (Not so of a dropped table: Refilled.) *)
Reindexed ==
    <>[](up /\ Works(config) /\ table.dim \in {0, DimOf[config]})
    => <>[]("table" \notin lost /\ ~torn =>
              \A d \in Docs : disk[d] # Absent => stateFile[d].id \in Current(d))

(* SETUP.md:201 "Changing the model/dimension after you already have data
   requires recreating the table", with, in the lines that follow, "DROP TABLE
   memory; then `ai memory sync` again" as the way to do it: a clean sync after
   the drop fills the table again. *)
Refilled ==
    OneSyncer /\ last = "clean" /\ lost \subseteq {"table"} /\ ~torn =>
        \A d \in Docs : disk[d] # Absent => Current(d) # {}
=============================================================================
