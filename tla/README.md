# Formal models of aistack

`ai` is a command line program that keeps, for one workspace, a store of
memories, chats with agent CLIs about it, runs recipes of shell and agent steps,
and mirrors a directory of markdown documents into the store.  There is no
server of its own: the state is a Postgres table (the default) or a JSON file,
and some more JSON files, that any number of `ai` processes open, change and
rewrite; the work is done by external tools it starts.  The hard behaviour is
therefore between processes, across crashes, and at the boundary to the tools.
These TLA+ modules model that behaviour from the source.

## Inventory

| Component | State | Operations | What is hard | What makes it correct |
|---|---|---|---|---|
| memory sync (`internal/memory/sync`) | `sync-<source>.json`: per file a hash and the ids of its chunks | `Sync` | deletes before it adds, saves its state last and not atomically; edits during a sync; several syncs | the state never names rows that are not the document's; "unchanged" means stored; notes are never touched; repeated syncs converge |
| memory service (`internal/memory/service`, `chunk`, `ranking`) | none | `Add`, `Search`, `Delete` | an `Add` fails between two chunks; boundaries of chunking and fusion | no text is lost; chunks are bounded; fusion respects both rankings |
| pgvector store (`store/pgvector_store.go`, the default backend, `app.go:50`) | the table `memory`; per process `sync.Once` and its error | `Save`, `Delete`, `Search`, `List`, `HybridSearch`, `ai db migrate` | lazy connection; a migration of several statements that several processes run; a failure that is remembered for good; the dimension of the column | no row goes into a table of another dimension or one that is not complete; a failure harms no later process |
| file store (`store/file_store.go`) | `memory.json`, copied to memory at start | `Save`, `Delete`, `Search`, `List` | kill or error during a flush; processes that overlap | the file is always whole; what was acknowledged survives |
| in-memory store | a map per process | the same | nothing | it starts empty |
| embedders and cache (`internal/memory/embed`) | `embed-cache.json`, loaded once, rewritten as a whole | `Embed` | cache shared by processes; identity and dimension of a model | a cached vector is the one the model of that name gives |
| chat (`internal/chat`) | history, active provider, record, /remember | a turn; `/reset`, `/use`, `/remember` | a turn fails or the process dies between its steps; failed saves | history and record agree; transcripts are faithful |
| session store (`internal/session`) | one JSON file per session | `Save`, `Load`, `List`, `Delete` | the same session in two chats; `rm` during a chat | unshared sessions only grow |
| provider CLIs (`internal/provider/cli`) | one child process per call | `Execute`, `Ask`, `Health` | pipes, timeout, kill, processes left behind, overlong lines | the outcome tells the truth; the call returns |
| workspace (`internal/workspace`) | `.ai/`: agents, rules, skills, providers, defaults; read once per command | `Load` | edited while a command runs; names that clash or are missing | a command works on one version of it |
| recipes (`internal/recipe`) | the outputs of the steps so far | `Parse`, `Run`, `render` | partial effects; references between steps; refusals found out late | steps run in order, on outputs of earlier steps |
| agent runner, context builder (`internal/agent`, `internal/ctxbuilder`) | none | `Run`, `Build` | the memory changes between steps; which provider | the agent and its provider are those the step names, the memory is what the backend can see |
| application wiring (`internal/app`) | none | `New` | store, embedder and providers by configuration | part of the models above |
| command line, rendering, export, scaffold, dry-run provider, vector arithmetic | none | see `PROJECT.json` | | not modelled or part of a model, see below |

Interactions: commands of `cmd/ai` call the memory service, which calls chunking,
the embedder and a store; the syncer drives the same service; a chat calls the
context builder (a search), a provider, then the memory service and the session
store; a recipe calls the agent runner, which calls the context builder and a
provider.  Nothing is shared in memory between goroutines apart from the mutexes
in the stores and the goroutines of `os/exec`; processes share the files and the
table.

## Modules

| Module | Models | Checked by |
|---|---|---|
| `MemorySync` | `Syncer.Sync` and the `Add` / `Delete` it drives | `MCMemorySync` |
| `Index` | the table over its life: migration, embedders and their cache, sync state; syncs, notes and chats | `MCIndex` |
| `FileStore` | the JSON store and its flush, with inodes and names | `MCFileStore` |
| `DurableRows` | what a store promises: a durable set of rows, private views of open processes | refined by `FileStore` |
| `Chat` | chat turns, session records and files | `MCChat` |
| `Recipes` | `ai recipe run` and `ai run`: workspace, recipe runner, agent runner, context builder | `MCRecipes` |
| `ProviderRun` | `CmdProvider.Execute`, the tool, a helper of the tool, the timeout | itself |
| `Retrieval` | `chunk.Chunk`, `ranking.Fuse`, `hybridSearch` as operators | `MCRetrieval` |
| `ChatProofs`, `SessionProofs` | theorems about `Chat` | `tlapm` |
| `MemorySyncProofs`, `IndexProofs`, `FileStoreProofs`, `RecipesProofs`, `ProviderRunProofs`, `RetrievalProofs` | theorems about the module of that name | `tlapm` |

Operators named "Mutant" in a comment are slightly wrong versions of a
definition.  They are used by no specification; replacing the definition by its
mutant must make TLC reject the property that guards it (`mutants` in
`PROJECT.json`).

### MemorySync

`disk` is the source directory, `rows` the store, `saved` and `file` the state
file, and `pc`, `st`, `todo`, `seen`, `job` the local variables of each running
`Sync`: `st.Files`, the entries of the walk still to come, `seen`, and the
document being replaced (`ids` to be deleted, new ids so far).  Actions follow
the code: `LoadState`, `ListDir`, then for each listed file `VisitUnchanged` or
`VisitChanged`; `DeleteStale` once per old id, `SaveChunk` once per chunk,
`Replaced`; after the walk `VisitGone`, `DeleteStale`, `Forgotten`; and
`TruncateState` / `WriteState` for `os.WriteFile`.  `VisitVanished` is the read
error of a file removed since the listing, `Abort` any other error return or a
kill.  The user edits documents (`EditFile`), adds notes and removes rows at any
time; a state file that a killed sync left torn stops every later one until the
user removes it (`RemoveState`).  A content is its hash and its number of chunks (0, 1 or 2).  The files of
a walk are visited in any order, the code takes them in lexical order; the
directory is listed in one step, which is exact for one without subdirectories.

Rows are saved and deleted atomically, as in Postgres.  With the file store this
holds for one process at a time (see `FileStore`).

`reverted` and `tampered` are history variables for the two known exceptions:
documents that went back to an earlier content, and rows removed with
`ai memory rm`.  All promises about completeness exclude them; the run
`sync_reverted` shows that the first exclusion is needed.

### Index

One level up from `MemorySync`: what surrounds the rows.  `table` is the
dimension of the `embedding` column (0 when there is no table) and whether the
migration is complete; `up` is the server; `config` the embedder of
`workspace.yaml`; `cacheFile` and `stateFile` are what is in `.ai/.cache`.  A
process has the embedder it was started with (`emb`), the cache map it loaded
(`mem`), the task at hand (`job`), and `once`, which follows `PgVectorStore.ready`: "new", then inside
`migrate` "create" (the guard has passed) and "extend" (there is a table), and
at the end "ready" or "failed", for good.  Commands are `Sync`, `AddNote` and
`Chat` with a `Turn` per question; `ai run` and `ai memory search` are chats of
one turn.  A turn embeds the question and searches (`Query`), and with /remember
on it then embeds and stores the exchange (`QueryAndRemember`, `SaveNote`): to the
table an exchange is a note.  An error ends a command, but not a chat
(`Fails`, `NextTurn`).

A command embeds (`EmbedHit`, `EmbedMiss`, which also rewrites the cache file,
`EmbedRefused` when the model's vector has not the configured size, `EmbedFails`,
`PutFails`: another process renamed the one temporary file, which may hold the map
of either, whole or torn, by then), then reaches the store, where the first operation migrates (`Guard`,
`CreateTable`, `ExtendTable`, `MigrateFails`, each a statement of its own), and
then does its operation or gets `StoreError`.  The user edits documents,
switches the embedder, drops the table, deletes `.ai/.cache`; the server goes
down and comes up; commands are killed at any point.

A document is one chunk here and is read, stored and recorded in one run of the
syncer: what happens between chunks and in the walk is `MemorySync`.  A vector
is the model, the text and the dimension it was made with.  The history
variables name what a property must exclude: `torn` (a sync that had changed
rows ended early), `lost` (the table or the cache was deleted), `raced` (the
processes that were overtaken: the table was created by a process of another
dimension between their guard and their `CREATE`, or dropped while they used it;
a process leaves it when it ends), and `last` ("clean" from the end of a sync until
something changes).

### FileStore and DurableRows

`data` maps inodes to contents and `path`, `tmp` are the two names, since two
processes that open the same temporary name write the same inode.  `CreateTmp`,
`WriteTmp`, `Rename` are the three system calls of `flush`; writing over what
another process wrote meanwhile may leave a text that does not parse.
`RenameMissing` is the `ENOENT` of a process whose temporary file was renamed by
another; `FlushError` and `Crash` end an operation anywhere.  `acked` is the last
operation on a row that returned without an error.

`DurableRows` is the abstract specification: `durable` changes only by a commit
of the view of a process that has the store open, a view is loaded when a process
opens the store.  The mapping is `durable <- Stored` (the rows of the file called
memory.json), `opened <- Opened` and `view <- mem`.
It holds while no two writers have overlapped; the run `filestore_overlap` shows
what happens when they do.

### Chat

`rec` and `history` are the record and the in-memory history of each chat, `live`
and `tmp` the session file and its temporary file, `fd` what a chat has open.  A
turn is `Ask`, `Send`, `Reply` or `TurnFails`, `Remember` (with the append to the
record), `CreateTmp`, `WriteTmp`, `Rename` or `SaveFails`.  `Ask` takes any
provider, as `/<provider> <msg>` does; `SwitchProvider` changes the active one.
A message is the number of the user's message it is or answers.  `/remember` is
on or off; a memory that fails to be stored is ignored, as in the code.

### Recipes

`disk`, `recipeFile` and `index` are what is on disk and in the memory; `ws` and
`loaded` what the process read when it was started.  `Open` and `ReadRecipe` load
and validate; then each step is `RunShell`, or `CallAgent`, `Build`, `Ask`; a
shell step without `--allow-shell` or a text that does not render is `Refuse`.
`ai run` is `Open`, `Build`, `Ask`.  `outputs` and `order` are the `Result` of
the runner, `context` what the context builder puts into the prompt, and `ran`
the history of what was really executed.

The pure parts are operators: `Agent` (the last file of a name wins), `Registry`
(the configured providers over the builtins over `dryrun`), `Resolve` (request,
agent, workspace, "dryrun"), `Selected` (`selectDocs`), `Kind`, `Valid`,
`Renders` and `Rendered`.  A text is a sequence of pieces: plain, a reference to a
step, a variable, or a template error; rendering replaces the pieces.  `Visible`
says what a search goes over with each backend: the JSON file is read once when
the store is opened, Postgres is asked every time.  Postgres goes by an HNSW index
over the rows of all workspaces and filters them afterwards, so it may return
fewer rows than there are: `Missable` lets it miss any.  What was missed is kept
with the context (`missed`), where only the property looks at it.

### ProviderRun

`mode` tells the three ways of `Execute` apart: stream-json, plain with an event
sink (both scan the pipe), and plain without (os/exec copies it).  The tool
writes lines of five kinds: text, a final result that is good, an error with
text, an error without, and a line too long for the scanner.  `helper` is a process
the tool started which shares its pipes.  The behaviour of `os/exec` (`Wait`
ends after the process and the copying goroutines ended; `CommandContext` kills
the process and nothing else, and a tool that has exited but was not waited for
can still be signalled, upon which `Wait` returns the error of the context) is
external and modelled from its documentation; `child = "killed"` stands for both
cases.

### Retrieval

Chunking and fusion are operators; `Add` and `Search` apply them to every input
of a set.  A text is the sequence of the paragraphs it is split into, a string a
sequence of runes some of which are white space.  `PackParagraph` is the body of
the outer loop of `Chunk` (trim, skip a blank paragraph, cut, pack the pieces),
`Pack` that of the inner one, on a buffer of the chunks written, the text at
hand and its length *as the code counts it*, that is without separators.  The
loops are `Fold`, a recursive function, so that they can be reasoned about.

`Fuse` gives each id of either list its score and sorts: since the comparison is
a strict total order, the place of an id is one more than the number of ids
before it (`Places`), which is what `sort.Slice` computes whatever the order in
which the map is read.  Scores are exact fractions instead of `float64`: two
different sums of `w / (60 + rank)` that the properties compare differ by far
more than a rounding error, and equal ones are left to the order of the ids.
The ids are numbers, in their own order.  What each search returns is a parameter,
`Neighbors` and `Matches`, as long or as short as it may be: the vector search of
Postgres is approximate and filtered, and may return fewer rows than there are.

## Runs

| Run | Instance | Shows |
|---|---|---|
| `sync_single` | 1 syncer, 2 documents, contents of 0 and 2 chunks, 2 edits, 1 note or `rm`, 1 fault, a torn state file removed, under `FairSpec` | `EntriesTrue`, `UnchangedIsIndexed`, `NoOrphans`, `CleanSyncMirrors`, `NotesUntouched`, `NeverDropsCurrent`, `Converges` |
| `sync_concurrent` | 2 syncers, 1 document of 1 or 2 chunks, 2 edits, 1 fault; a torn state file stays | the inductive invariant and the two properties that concurrency endangers |
| `sync_reverted` | 1 syncer, 1 document | violated: see Findings |
| `index` | 1 document, 2 texts, a local embedder and a model server configured with the right and a wrong dimension; 1 process that syncs or adds notes, 1 that chats; 2 events (edits, switches, losses, notes, exchanges remembered, faults), under `FairSpec` | `CacheSound`, `CleanSyncMirrors`, `GuardHolds`, `MigratedFirst`, `Reindexed` |
| `index_refilled` | the same | violated: see Findings |
| `filestore` | 2 writers, 1 reader, 2 rows, 3 operations, 1 fault | `FileWhole`, `AckedOnDisk`, refinement of `DurableRows` |
| `filestore_overlap` | 2 writers | violated: see Findings |
| `chat` | 2 chats, 1 session, 2 providers, 3 messages, window of 2, 1 command, 1 fault | `TranscriptsFaithful`, `SavedIsCurrent`, `HistoryIsRecord`, `SessionsOnlyGrow` |
| `recipes` | 3 workspaces (one does not load), 7 recipe files (one clean, one with a reference to a later step, five that do not validate or render), 4 command lines, 3 backends, 2 memories of which a search of Postgres may miss any, 2 edits, under `FairSpec` | `RanInOrder`, `InputsEarlier`, `AgentsStable`, `MemorySeen`, `Ends` |
| `provider` | pipe of 2 lines, 4 lines written, all modes, under `FairSpec` | `CompletedIsWhole`, `KilledIsReported`, `FailuresAreErrors`, `Returns` |
| `provider_bound` | the same | violated: see Findings |
| `retrieval` | MaxRunes 3; every text of 2 paragraphs of up to 3 runes, of 1 of up to 6, of 3 of up to 2, white space and blank paragraphs included; 25 rows, of which the vector search finds all, every second, three or none; overscan 20, limits 0 and 5 | `NothingLost`, `ChunksBounded`, `FusionSound` |

Each run of a component also checks its type invariant.

Why the bounds are enough.  A document goes wrong by itself or through ids that
another one holds, so two documents; two edits reach "changed during the sync",
"changed and back" and "removed"; contents of 0 and 2 chunks reach the empty
document and a failure between two chunks.  Two processes are needed for a lost
update, and a third only repeats one of them.  One fault at every step followed by
any continuation is the case the code has to survive; a second one starts from a
state that the first has made reachable.  In `index` the two events are any two of
all kinds, at any point of any command: the embedder switched and the table
dropped, a kill inside the migration while another process migrates, a cache
deleted while a chat holds its map.  A pipe of two lines fills and empties, and
five kinds of four lines put a result before, after and between others.  The
clean recipe has a shell step, an agent step on its output and one on both.  In
`retrieval` a paragraph is cut into one piece or two with MaxRunes 3, white
space falls on every place of a cut, and lists are cut at 20 of 25 rows.
Where the bounds matter most, the theorems below hold without them.

The `index` runs check for deadlock: whatever happened, some command can be run.
`CHECK_DEADLOCK FALSE` is set in the others: programs that just end, and the
bounds on edits, operations and faults, leave states without a successor.

Fairness is always of this program's own steps.

* `MemorySync!FairSpec`: weak fairness of the steps of each syncer: the user goes
  on running `ai memory sync`, and a sync that runs makes progress; nothing is
  assumed of edits, errors or kills.  A state file torn by a kill ends every later
  sync with an error, so `Converges` has the premise that the user removes such a
  file (`StateRestored`).
* `Index!FairSpec`: weak fairness of `Step` and `Sync` of the processes that
  sync.  Nothing is assumed of the server, of the embedder or of other commands;
  `Reindexed` states as premises that the server stays up and that the
  configured embedder works and fits the table.
* `Recipes!FairSpec`: weak fairness of the steps that wait for no tool (`Own`).
  Nothing is assumed of tools: `recipe run` and `ai run` set no timeout, a shell
  step has none to set, and `ProviderRun` is about the calls of providers only.
  `Ends` therefore has the premise that the tools that are called return
  (`ToolsReturn`).
* `ProviderRun!FairSpec`: weak fairness of `Execute` (goroutines run), of `Expire`
  (time passes) and of `Kill` (the watcher runs); nothing is assumed of the tool,
  so `Returns` states its premises: the helper ends, and the tool ends or a
  timeout is set.

## Proofs

`tlapm` checks these for every value of the constants that satisfies the named
assumptions of each module.  Every listed theorem is `Spec => []P`, or
`Spec => P` for an action property.

* `MemorySyncProofs`: `TypeCorrect`, `Invariant`, and from it
  `EntriesTrueAlways`, `UnchangedIsIndexedAlways`, `NotesUntouchedAlways`,
  `NeverDropsCurrentAlways`, for any number of syncers and documents.  The
  properties speak of the state file; they are not inductive, as the file is
  written from the memory of a syncer that loaded it long ago.  `IInv` says
  the same of every entry in the memory of every syncer, that every id in use was
  issued (so that fresh ids collide with nothing), and what is known of a
  document while it is replaced: its old version is not on disk (`Stale`), and
  the chunks stored so far are those of the new one.  A document that is edited
  while it is replaced keeps this because the new content has never been
  there before, or the document counts as reverted.  The proof first
  establishes a *frame*: what every step, of the user or of another
  syncer, leaves true of issued ids and of stale entries (`Frame`, `FrameStep`);
  the lemmas `FrameEntry`, `FrameJob`, ... carry each part of the invariant of a
  syncer that does not move across such a step; then `ProgressInv` treats the
  syncer that does.
  The same module has `CleanSyncMirrorsAlways` and `NoOrphansAlways`, for one
  syncer.  `MirrorInv` follows a sync during which nothing is edited: what it has seen is in
  its state with the hash on disk, what it has not seen is in `todo` or not on
  disk, so that at the end the state names exactly what is on disk.  `OrphanInv` holds until a sync ends
  early: the rows of a document are those the state in memory names, those still
  to be deleted and those stored so far, each part once.
  `SyncsEnd`: a sync comes to an end by itself.  `SyncCloser` is a lexicographic
  order: where the sync is, the listed documents it has not dealt with, the entries
  of documents it has not seen, and within a document the old ids still to delete
  and the chunks still to store.  It is well-founded for a finite directory, as
  the ids of an entry are finitely many (`WalkInv`).  It holds while documents are
  edited and other syncs run, because a sync lists the directory once and takes up
  each path at most once.
* `IndexProofs`: `TypeCorrect`, `CachesAreSound`, `GuardIsEnough`,
  `MigrationComesFirst`, `CleanSyncLeavesAMirror`, for any processes, embedders
  and documents (the run has one document).
  `CacheMade`: every entry, in any map and in the file, is under the key of the
  model and text that made it; a hit and a lost update keep that, because keys
  of different models differ.  `GuardInv`: from "create" to "ready" the
  dimension of the table is 0 or the process's own - this is what a race breaks,
  for the processes that were overtaken, and `raced` has exactly those.  `FullInv`: a process at "extend"
  or "ready" has a table, and at "ready" a complete one, until it is dropped.
  The mirror rests on three more: `PlaceInv`, where a command is and what its task
  is by then (the vector about to be saved is that of its text, by `CacheMade`);
  `RowsInv`, the table agrees with the state the sync carries except at the
  document it is replacing, which has no row then, and with the state on file as
  long as no sync has changed a row; `FreshInv`, the state carried has the texts
  of the documents visited if nothing was edited since the sync began.  Without
  `~torn` the second half of `RowsInv` fails: that is the sync cut off
  between its first change and the state file.
* `FileStoreProofs`: `TypeCorrect`, `Invariant`, `FileWholeAlways`,
  `AckedOnDiskAlways` and `StepsAreDurableAlways`, the refinement.  The
  strengthening (`WriterInv`) says, for the only writer, what is in the temporary
  file at each point of a flush and that its map reflects all acknowledged
  operations.
* `ChatProofs`: `TypeCorrect` and `TranscriptsStayFaithful`, for any number of
  chats on any sessions.  `AnswerInv`: the messages in progress are distinct and
  not answered yet, or by the provider of the turn; so an answer never changes
  what is said of an earlier one.  `RecordInv`: every transcript, on disk, in a
  temporary file or in a chat, is faithful and ends before the message in
  progress.
* `SessionProofs`: `HistoryFollowsTheRecord`, `SavedStaysCurrent` and
  `SavedSessionsGrow`.  `HistoryInv`: the history is the record from the last
  `/reset` on, including the exchange that is about to be added to it; that a
  prompt begins with a question needs that transcripts are whole exchanges and
  that the window is even (`ChatAssumption`; it is 20).  `OwnInv`: a chat alone
  on a session finds its own text in the temporary file at each point of a save,
  the file on disk is a prefix of its record, and equal to it after a save; it is
  needed because a crashed chat may leave any temporary file behind.  `MintInv`:
  an id that was not minted has no file.
* `RecipesProofs`: `TypeCorrect`, `StepsInOrder`, `InputsComeEarlier`,
  `AgentsStayTheSame`, `MemoryIsSeen`, `RunsAdvance`, for any workspaces, recipes and commands.
  `OrderInv` ties the history to the outputs: every call is of the first step
  that has none.  `InputInv`: what the agent at hand was given is its prompt
  rendered with outputs of earlier calls.  `StableInv`: every call so far was made by
  the agent and provider its step names, as defined in `ws`.  `MemoryInv`: the
  memory only grows, so what an earlier call left is in what a later search
  goes over; a search that finds fewer rows than its limit has found all that it
  did not miss.
  `RunsAdvance`: each step of a run lowers its stage or what is `Ahead` of it, a
  natural number of at most `3 * n` for a recipe of `n` steps, and no edit raises it.
* `ProviderRunProofs`: `TypeCorrect`, `Invariant`, `CompletedIsWholeAlways`,
  `KilledIsReportedAlways`, `FailuresAreErrorsAlways`, for any pipe and any
  output.  `OutputInv` says that what was written is what was read followed by
  what is in the pipe, and what is over at each point of `Execute`.
* `RetrievalProofs`: `NothingIsLost`, `ChunksAreBounded`, `FusionIsSound`, and the
  facts about the operators they rest on, for any texts, any `MaxRunes`, any
  number of rows and any results of the two searches.  Induction is done over sets instead of
  predicates: of a set of naturals that is not all of them, a least element is
  missing (`Induction`, from `WellFoundedInduction`); from it follow the equations of
  `Fold` and induction over sequences (`SeqInduction`), and from these what
  `Joined`, `Without` and `Trim` preserve.  For the loops of `Chunk` two invariants:
  `Fits`, the buffer has at most `MaxRunes` runes of the text and at most
  `3 * len - 2` with the separators (every piece after the first brings two line
  breaks and at least one rune), and `Held`, chunks and buffer put together have
  the text so far.  `HardSplitCuts`: the pieces are the paragraph.
  For `Fuse`: `BetterIsTotalOrder`, by cross multiplication; `Places` are
  one to one, so `SortedIsSorted`; and that each case of `Beats` makes the score
  greater.  That one needs `OverscanDampened`, at most 27 hits per search (the
  code has 20): with 28 the last row of both searches would score less than the
  first one of the vector search.

Only model-checked: the liveness properties `Converges`, `Reindexed`, `Ends` and
`Returns`: fairness is out of the prover's reach.  What `Ends` and `Converges` rest
on besides fairness is proved.

## Findings

* `sync_reverted` - `SyncReconciles`: a sync deletes the old chunks, then
  fails; the user undoes the edit; from then on every sync says "unchanged"
  and the document is not in the store.
* `index_refilled` - `Refilled`: after `DROP TABLE memory`, the documented way to
  change the dimension, `ai memory sync` finds every document unchanged in its
  state file and leaves the new table empty.
* `filestore_overlap` - `SavesPersist`: with the JSON file, a chat left open
  overwrites the rows that other commands saved.
* `provider_bound` - `HardBound`: a process left behind by the tool makes
  `Execute` wait beyond its timeout.

Five more observations are in the models or proofs, without a run of their own.

* Chunks that an aborted sync stored are recorded nowhere and outlive their
  document (`NoOrphans` says when there are none).
* `rm -r .ai/.cache`, documented as safe, deletes the ids of what is in Postgres:
  the next sync stores every document a second time (`CleanSyncMirrors` excludes it
  by `lost`; without that exclusion TLC finds the duplicate).
* The record of a session keeps the backend session id of an older turn after a
  turn of another provider; nothing reads it yet.
* Separators are not counted against `MaxRunes`: "packs paragraphs into chunks up to
  opts.MaxRunes" (`chunker.go:18`) holds of the runes of the paragraphs, and a chunk of
  one-rune paragraphs is almost three times as long (`ChunksBounded`, both bounds
  are attained).  A piece of white space cut out of a long paragraph becomes an
  empty chunk.
* `src/README.md:173` says that with hybrid search "exact identifiers ... both surface
  correctly".  With weights 0.7 and 0.3 and 20 hits each, a row that only the
  keyword search finds comes after all of the vector search (`FusionSound`), so
  whenever the vector search returns at least as many rows as the limit it is cut
  off (`KeywordOnlyIsCutOff`, proved): the keyword search then only reorders what the
  vector search found.  An exact search returns that many in every workspace that
  has them; the filtered scan of the index may return fewer, and then such a row can
  be in the result.

## Not modelled, and why

* Sessions by name or prefix (`List`, `resolveID`): `Resume` opens any session
  there is, so which one a name selects, and that one file that does not parse
  makes every lookup by name fail (`store.go:112`), is not covered.
* The SQL of the searches, index settings, vectors and cosine similarity
  (`internal/vector`, `rank.go`): floating point.  `Retrieval` takes the ranking of
  each search as given, and `Recipes` which rows the index misses.
* The flags of a provider call with write permission: they change only the command
  line of the tool.
* Rendering, session export, scaffold, argument parsing, `ai health` and `ai info`:
  they print, or write a template once.  Usage accounting of stream-json and the
  kinds of its events: they affect no outcome.  The layout of a prompt.
* The upward search for `.ai/` and the YAML of the definitions: a definition
  parses or it does not.
* Two calls of `newID` or `session.NewID` never give the same id (128 random
  bits).  File systems lose nothing on a crash of the program; a crash of the
  machine is not considered.

## What is left

1. Sessions by name and prefix: `List`, `resolveID`, ambiguity, a corrupt file.
2. Composition of `MemorySync` with `FileStore`: a sync and a chat on the JSON
   backend.
