---------------------------- MODULE IndexProofs -----------------------------
(***************************************************************************)
(* Proofs about Index, for any documents, embedders and processes.         *)
(***************************************************************************)
EXTENDS Index, TLAPS

USE IndexAssumption

(* The data that actions put together. *)
LEMMA DataTypes ==
    /\ NoVector \in Vectors
    /\ NoJob \in [owner : Owners, text : Texts \cup {Absent}, vec : Vectors]
    /\ NoEntry \in Entries
    /\ Unsynced \in [Docs -> Entries]
    /\ NoTable \in [dim : Nat, full : BOOLEAN]
    /\ \A o \in Owners, t \in Texts \cup {Absent} :
        Task(o, t) \in [owner : Owners, text : Texts \cup {Absent}, vec : Vectors]
<1>1. NoVector \in Vectors /\ NoEntry \in Entries
  BY DEF NoVector, Vectors, NoEntry, Entries
<1> QED BY <1>1 DEF NoJob, Unsynced, NoTable, Task, Owners

LEMMA EmbeddedTypes ==
    ASSUME NEW e \in Embedders, NEW t \in Texts \cup {Absent}
    PROVE  /\ Vector(IdOf[e], t) \in Vectors
           /\ [key |-> Key(IdOf[e], t), vec |-> Vector(IdOf[e], t)] \in Cached
<1>1. Vector(IdOf[e], t) \in Vectors
  BY DEF Vector, Vectors
<1>2. Key(IdOf[e], t) \in Keys
  BY DEF Keys
<1> QED BY <1>1, <1>2 DEF Cached

Phases == {"idle", "open", "ask", "walk", "drop", "embed", "save", "query"}
Jobs == [owner : Owners, text : Texts \cup {Absent}, vec : Vectors]
Readiness == {"new", "create", "extend", "ready", "failed"}

(* The types of the variables of the processes, and of the rest. *)
ProcTypes ==
    /\ pc \in [Procs -> Phases]
    /\ cmd \in [Procs -> Kinds]
    /\ emb \in [Procs -> Embedders]
    /\ once \in [Procs -> Readiness]
    /\ mem \in [Procs -> SUBSET Cached]
    /\ st \in [Procs -> [Docs -> Entries]]
    /\ todo \in [Procs -> SUBSET Docs]
    /\ job \in [Procs -> Jobs]
    /\ touched \in [Procs -> BOOLEAN]
RunTypes ==
    /\ torn \in BOOLEAN
    /\ lost \subseteq {"table", "cache"}
    /\ raced \subseteq Procs
    /\ last \in {"dirty", "running", "clean"}
WorldTypes ==
    /\ disk \in [Docs -> Texts \cup {Absent}]
    /\ config \in Embedders
    /\ up \in BOOLEAN
    /\ cacheFile \subseteq Cached
    /\ stateFile \in [Docs -> Entries]
TableTypes ==
    /\ table \in [dim : Nat, full : BOOLEAN]
    /\ rows \in [Live -> [owner : Owners, vec : Vectors]]
    /\ nextId \in Nat \ {0} /\ \A i \in Live : i \in 1..(nextId - 1)

LEMMA TypeParts ==
    /\ TypeOK <=> ProcTypes /\ RunTypes /\ WorldTypes /\ TableTypes
    /\ TypeOK' <=> ProcTypes' /\ RunTypes' /\ WorldTypes' /\ TableTypes'
  BY DEF TypeOK, ProcTypes, RunTypes, WorldTypes, TableTypes, Phases, Jobs, Readiness

LEMMA InitTypes == Init => TypeOK
<1> SUFFICES ASSUME Init PROVE TypeOK
  OBVIOUS
<1>1. NoEmbedder \in Embedders
  BY DEF Init, NoEmbedder
<1>2. ProcTypes
  BY <1>1, DataTypes DEF Init, ProcTypes, Phases, Kinds, Readiness, Jobs
<1>3. RunTypes /\ WorldTypes
  BY DataTypes DEF Init, RunTypes, WorldTypes
<1>4. TableTypes
  <2>1. Live = {} /\ rows \in [Live -> [owner : Owners, vec : Vectors]]
    BY DEF Init, NoRows, Live
  <2>2. nextId = 1 /\ table = NoTable
    BY DEF Init
  <2>3. \A i \in Live : i \in 1..(nextId - 1)
    BY <2>1
  <2>4. table \in [dim : Nat, full : BOOLEAN]
    BY <2>2, DataTypes
  <2>5. nextId \in Nat \ {0}
    BY <2>2
  <2> QED BY <2>1, <2>2, <2>3, <2>4, <2>5 DEF TableTypes
<1> QED BY <1>2, <1>3, <1>4, TypeParts

(* What a process that ends, or an error, leaves behind. *)
LEMMA ForgetTypes ==
    ASSUME TypeOK, NEW p \in Procs, Forget(p)
    PROVE  /\ cmd' \in [Procs -> Kinds] /\ emb' \in [Procs -> Embedders]
           /\ once' \in [Procs -> Readiness] /\ mem' \in [Procs -> SUBSET Cached]
           /\ st' \in [Procs -> [Docs -> Entries]] /\ todo' \in [Procs -> SUBSET Docs]
           /\ job' \in [Procs -> Jobs] /\ touched' \in [Procs -> BOOLEAN]
           /\ raced' \subseteq Procs
<1>1. NoEmbedder \in Embedders
  BY DEF TypeOK, NoEmbedder
<1> QED BY <1>1, DataTypes DEF TypeOK, Forget, Kinds, Readiness, Jobs

LEMMA GoneTypes ==
    ASSUME TypeOK, NEW p \in Procs, Gone(p)
    PROVE  ProcTypes' /\ RunTypes'
<1>1. pc' \in [Procs -> Phases] /\ Forget(p)
  BY DEF TypeOK, Gone, Phases
<1>2. ProcTypes'
  BY <1>1, ForgetTypes DEF ProcTypes
<1>3. RunTypes'
  BY <1>1, ForgetTypes DEF TypeOK, Gone, RunTypes
<1> QED BY <1>2, <1>3

LEMMA FailsTypes ==
    ASSUME TypeOK, NEW p \in Procs, Fails(p)
    PROVE  ProcTypes' /\ RunTypes'
<1>1. CASE Gone(p)
  BY <1>1, GoneTypes
<1>2. CASE ~Gone(p)
  <2>1. /\ pc' = [pc EXCEPT ![p] = "open"]
        /\ job' = [job EXCEPT ![p] = NoJob]
        /\ UNCHANGED <<cmd, emb, once, mem, st, todo, touched, torn, lost, raced, last>>
    BY <1>2 DEF Fails, NextTurn, runVars
  <2>2. ProcTypes /\ RunTypes /\ NoJob \in Jobs
    BY TypeParts, DataTypes DEF Jobs
  <2>3. pc' \in [Procs -> Phases] /\ job' \in [Procs -> Jobs]
    BY <2>1, <2>2 DEF ProcTypes, Phases
  <2> QED BY <2>1, <2>2, <2>3 DEF ProcTypes, RunTypes
<1> QED BY <1>1, <1>2

LEMMA BeginTypes ==
    ASSUME TypeOK, NEW p \in Procs, NEW c, NEW to \in Phases, NEW task \in Jobs,
           Begin(p, c, to, task),
           st' \in [Procs -> [Docs -> Entries]], todo' \in [Procs -> SUBSET Docs]
    PROVE  /\ ProcTypes' /\ WorldTypes' /\ TableTypes'
           /\ torn' \in BOOLEAN /\ lost' \subseteq {"table", "cache"} /\ raced' \subseteq Procs
<1>1. c \in Kinds
  BY DEF Begin
<1>2. ProcTypes'
  <2>1. ProcTypes /\ WorldTypes
    BY TypeParts
  <2>2. pc' \in [Procs -> Phases] /\ cmd' \in [Procs -> Kinds] /\ emb' \in [Procs -> Embedders]
    BY <1>1, <2>1 DEF Begin, ProcTypes, WorldTypes
  <2>3. /\ mem' \in [Procs -> SUBSET Cached] /\ once' \in [Procs -> Readiness]
        /\ job' \in [Procs -> Jobs] /\ touched' \in [Procs -> BOOLEAN]
    BY <2>1 DEF Begin, ProcTypes, WorldTypes, Readiness
  <2> QED BY <2>2, <2>3 DEF ProcTypes
<1>3. WorldTypes' /\ TableTypes' /\ torn' \in BOOLEAN /\ lost' \subseteq {"table", "cache"} /\ raced' \subseteq Procs
  BY DEF TypeOK, Begin, WorldTypes, TableTypes, worldVars, dbVars, fileVars, Live
<1> QED BY <1>2, <1>3

LEMMA StartTypes ==
    ASSUME TypeOK, NEW p \in Procs, Start(p)
    PROVE  TypeOK'
<1> SUFFICES ProcTypes' /\ RunTypes' /\ WorldTypes' /\ TableTypes'
  BY TypeParts
<1>1. CASE Sync(p)
  <2>1. Begin(p, "sync", "walk", NoJob) /\ "walk" \in Phases /\ NoJob \in Jobs
    BY <1>1, DataTypes DEF Sync, Phases, Jobs
  <2>2. st' \in [Procs -> [Docs -> Entries]] /\ todo' \in [Procs -> SUBSET Docs]
    BY <1>1 DEF Sync, TypeOK
  <2>3. last' \in {"dirty", "running", "clean"}
    BY <1>1 DEF Sync
  <2> QED BY <2>1, <2>2, <2>3, BeginTypes DEF RunTypes
<1>2. ASSUME NEW t \in Texts, AddNote(p, t)
      PROVE  ProcTypes' /\ RunTypes' /\ WorldTypes' /\ TableTypes'
  <2>1. Begin(p, "add", "embed", Task(Note, t)) /\ "embed" \in Phases /\ Task(Note, t) \in Jobs
    BY <1>2, DataTypes DEF AddNote, Phases, Jobs, Owners
  <2>2. st' \in [Procs -> [Docs -> Entries]] /\ todo' \in [Procs -> SUBSET Docs]
    BY <1>2 DEF AddNote, TypeOK
  <2>3. last' \in {"dirty", "running", "clean"}
    BY <1>2 DEF AddNote, TypeOK
  <2> QED BY <2>1, <2>2, <2>3, BeginTypes DEF RunTypes
<1>3. ASSUME NEW t \in Queries, Turn(p, t)
      PROVE  ProcTypes' /\ RunTypes' /\ WorldTypes' /\ TableTypes'
  <2>1. Task(Note, t) \in Jobs
    BY DataTypes DEF Jobs, Owners
  <2> QED BY <2>1, <1>3
          DEF Turn, TypeOK, ProcTypes, RunTypes, WorldTypes, TableTypes, Phases, Jobs, Readiness,
              worldVars, dbVars, fileVars, runVars, Live
<1>4. CASE Chat(p)
  <2>1. Begin(p, "chat", "open", NoJob) /\ "open" \in Phases /\ NoJob \in Jobs
    BY <1>4, DataTypes DEF Chat, Phases, Jobs
  <2>2. st' \in [Procs -> [Docs -> Entries]] /\ todo' \in [Procs -> SUBSET Docs]
        /\ last' \in {"dirty", "running", "clean"}
    BY <1>4 DEF Chat, TypeOK
  <2> QED BY <2>1, <2>2, BeginTypes DEF RunTypes
<1>5. CASE Quit(p)
  <2>1. Gone(p)
    BY <1>5 DEF Quit
  <2>2. ProcTypes' /\ RunTypes'
    BY <2>1, GoneTypes
  <2> QED BY <2>2, <1>5 DEF Quit, TypeOK, WorldTypes, TableTypes, worldVars, dbVars, fileVars, Live
<1> QED BY <1>1, <1>2, <1>3, <1>4, <1>5 DEF Start

(* What the steps of a sync and of an embedder change. *)
LEMMA WalkTypes ==
    ASSUME TypeOK, NEW p \in Procs, (\E d \in Docs : Visit(p, d)) \/ WriteState(p)
    PROVE  TypeOK'
<1> SUFFICES ProcTypes' /\ RunTypes' /\ WorldTypes' /\ TableTypes'
  BY TypeParts
<1>1. ASSUME NEW d \in Docs, Visit(p, d)
      PROVE  ProcTypes' /\ RunTypes' /\ WorldTypes' /\ TableTypes'
  <2>1. Task(d, disk[d]) \in Jobs /\ NoJob \in Jobs
    BY DataTypes DEF Jobs, Owners, TypeOK
  <2>2. job' \in [Procs -> Jobs] /\ pc' \in [Procs -> Phases] /\ todo' \in [Procs -> SUBSET Docs]
    BY <1>1, <2>1 DEF Visit, TypeOK, Jobs, Phases
  <2> QED BY <2>2, <1>1
          DEF Visit, TypeOK, ProcTypes, RunTypes, WorldTypes, TableTypes, Readiness,
              worldVars, dbVars, fileVars, runVars, Live
<1>2. CASE WriteState(p)
  <2>1. ProcTypes' /\ raced' \subseteq Procs
    <3>1. Forget(p) /\ pc' \in [Procs -> Phases]
      BY <1>2 DEF WriteState, TypeOK, Phases
    <3> QED BY <3>1, ForgetTypes DEF ProcTypes
  <2> QED BY <2>1, <1>2
          DEF WriteState, TypeOK, RunTypes, WorldTypes, TableTypes, worldVars, dbVars, Live
<1> QED BY <1>1, <1>2

LEMMA EmbedTypes ==
    ASSUME TypeOK, NEW p \in Procs,
           EmbedHit(p) \/ EmbedMiss(p) \/ EmbedRefused(p) \/ EmbedFails(p) \/ PutFails(p)
    PROVE  TypeOK'
<1> SUFFICES ProcTypes' /\ RunTypes' /\ WorldTypes' /\ TableTypes'
  BY TypeParts
<1>1. ASSUME NEW v \in Vectors, Embedded(p, v)
      PROVE  job' \in [Procs -> Jobs] /\ pc' \in [Procs -> Phases]
  <2>1. job \in [Procs -> Jobs] /\ pc \in [Procs -> Phases]
    BY TypeParts DEF ProcTypes
  <2>2. [job[p] EXCEPT !.vec = v] \in Jobs
    BY <2>1 DEF Jobs
  <2>3. job' \in [Procs -> Jobs]
    BY <1>1, <2>1, <2>2 DEF Embedded
  <2>4. "save" \in Phases /\ "query" \in Phases
    BY DEF Phases
  <2> QED BY <1>1, <2>1, <2>3, <2>4 DEF Embedded
<1>2. Extended(p) \subseteq Cached /\ (Put(p) => mem' \in [Procs -> SUBSET Cached])
  <2>1. [key |-> Key(IdOf[emb[p]], job[p].text), vec |-> Vector(IdOf[emb[p]], job[p].text)] \in Cached
    BY EmbeddedTypes DEF TypeOK
  <2>2. Extended(p) \subseteq Cached
    BY <2>1 DEF Extended, TypeOK
  <2>3. ASSUME Put(p)
        PROVE  mem' \in [Procs -> SUBSET Cached]
    <3>1. mem \in [Procs -> SUBSET Cached] /\ mem' = [mem EXCEPT ![p] = Extended(p)]
      BY <2>3 DEF Put, TypeOK
    <3> QED BY <2>2, <3>1
  <2> QED BY <2>2, <2>3
<1>3. CASE EmbedHit(p)
  <2>1. PICK x \in mem[p] : Embedded(p, x.vec)
    BY <1>3 DEF EmbedHit
  <2>2. x.vec \in Vectors
    BY DEF TypeOK, Cached
  <2> QED BY <2>1, <2>2, <1>1, <1>3
          DEF EmbedHit, TypeOK, ProcTypes, RunTypes, WorldTypes, TableTypes, Readiness,
              worldVars, dbVars, fileVars, runVars, Live
<1>4. CASE EmbedMiss(p)
  <2>1. Vector(IdOf[emb[p]], job[p].text) \in Vectors
    BY EmbeddedTypes DEF TypeOK
  <2>2. job' \in [Procs -> Jobs] /\ pc' \in [Procs -> Phases]
    BY <2>1, <1>1, <1>4 DEF EmbedMiss
  <2>3. mem' \in [Procs -> SUBSET Cached] /\ cacheFile' \subseteq Cached
    BY <1>2, <1>4 DEF EmbedMiss
  <2> QED BY <2>2, <2>3, <1>4
          DEF EmbedMiss, TypeOK, ProcTypes, RunTypes, WorldTypes, TableTypes, Readiness,
              worldVars, dbVars, runVars, Live
<1>5. CASE EmbedRefused(p) \/ EmbedFails(p)
  <2>1. Fails(p) /\ UNCHANGED <<worldVars, up, dbVars, fileVars>>
    BY <1>5 DEF EmbedRefused, EmbedFails
  <2>2. ProcTypes' /\ RunTypes'
    BY <2>1, FailsTypes
  <2> QED BY <2>1, <2>2 DEF TypeOK, WorldTypes, TableTypes, worldVars, dbVars, fileVars, Live
<1>6. CASE PutFails(p)
  <2>1. WorldTypes' /\ TableTypes'
    BY <1>2, <1>6 DEF PutFails, TypeOK, WorldTypes, TableTypes, worldVars, dbVars, Live
  <2>2. CASE Gone(p)
    BY <2>1, <2>2, GoneTypes
  <2>3. CASE ~Gone(p)
    <3>1. /\ Put(p)
          /\ pc' = [pc EXCEPT ![p] = "open"]
          /\ job' = [job EXCEPT ![p] = NoJob]
          /\ UNCHANGED <<cmd, emb, once, st, todo, touched, torn, lost, raced, last>>
      BY <2>3, <1>6 DEF PutFails, NextTurn, runVars
    <3>2. mem' \in [Procs -> SUBSET Cached]
      BY <3>1, <1>2
    <3>3. pc' \in [Procs -> Phases] /\ job' \in [Procs -> Jobs]
      BY <3>1, DataTypes DEF TypeOK, Phases, Jobs
    <3>4. ProcTypes'
      BY <3>1, <3>2, <3>3 DEF TypeOK, ProcTypes, Readiness
    <3> QED BY <2>1, <3>1, <3>4 DEF TypeOK, RunTypes
  <2> QED BY <2>2, <2>3
<1> QED BY <1>3, <1>4, <1>5, <1>6

(* What the steps of the migration change. *)
LEMMA MigrateTypes ==
    ASSUME TypeOK, NEW p \in Procs,
           Guard(p) \/ CreateTable(p) \/ ExtendTable(p) \/ MigrateFails(p)
    PROVE  TypeOK'
<1>1. PICK o \in Readiness : Ready(p, o)
  BY DEF Guard, CreateTable, ExtendTable, MigrateFails, Readiness
<1>2. DimOf[emb[p]] \in Nat
  BY DEF TypeOK
<1>3. table' \in [dim : Nat, full : BOOLEAN] /\ raced' \subseteq Procs
  <2>1. table \in [dim : Nat, full : BOOLEAN] /\ raced \subseteq Procs
    BY DEF TypeOK
  <2>2. CASE CreateTable(p)
    BY <1>2, <2>1, <2>2 DEF CreateTable, Created
  <2>3. CASE ExtendTable(p)
    BY <2>1, <2>3 DEF ExtendTable
  <2>4. CASE Guard(p) \/ MigrateFails(p)
    BY <2>1, <2>4 DEF Guard, MigrateFails
  <2> QED BY <2>2, <2>3, <2>4
<1> QED BY <1>1, <1>3
        DEF Ready, TypeOK, Readiness, worldVars, fileVars, runVars, Live

(* What the operations of the store change. *)
LEMMA InsertTypes ==
    ASSUME TypeOK, NEW p \in Procs, Insert(p), nextId' = nextId + 1, UNCHANGED table
    PROVE  TableTypes'
<1>1. [owner |-> job[p].owner, vec |-> job[p].vec] \in [owner : Owners, vec : Vectors]
  BY DEF TypeOK
<1>2. rows' \in [Live \cup {nextId} -> [owner : Owners, vec : Vectors]]
  BY <1>1 DEF Insert, TypeOK
<1>3. Live' = Live \cup {nextId}
  BY DEF Insert, Live
<1>4. nextId \in Nat \ {0} /\ \A i \in Live : i \in 1..(nextId - 1)
  BY DEF TypeOK
<1>5. nextId' \in Nat \ {0} /\ \A i \in Live' : i \in 1..(nextId' - 1)
  <2>1. nextId' = nextId + 1
    OBVIOUS
  <2>2. SUFFICES ASSUME NEW i \in Live' PROVE i \in 1..(nextId' - 1)
    BY <1>4, <2>1
  <2> QED BY <1>3, <1>4, <2>1
<1> QED BY <1>2, <1>3, <1>5 DEF TypeOK, TableTypes

LEMMA StoreTypes ==
    ASSUME TypeOK, NEW p \in Procs,
           \/ DropRow(p) \/ SaveDoc(p) \/ SaveNote(p) \/ Query(p) \/ StoreError(p)
           \/ \E t \in Texts : QueryAndRemember(p, t)
    PROVE  TypeOK'
<1> SUFFICES ProcTypes' /\ RunTypes' /\ WorldTypes' /\ TableTypes'
  BY TypeParts
<1>0. ASSUME NEW x \in Entries, Record(p, x)
      PROVE  st' \in [Procs -> [Docs -> Entries]]
  BY <1>0 DEF Record, TypeOK
<1>1. CASE DropRow(p)
  <2> DEFINE d == job[p].owner
  <2>1. TableTypes'
    <3>1. rows' \in [Live \ {st[p][d].id} -> [owner : Owners, vec : Vectors]]
          /\ Live' = Live \ {st[p][d].id}
      BY <1>1 DEF DropRow, TypeOK, Live
    <3> QED BY <3>1, <1>1 DEF DropRow, TypeOK, TableTypes
  <2>2. /\ st' \in [Procs -> [Docs -> Entries]] /\ job' \in [Procs -> Jobs]
        /\ pc' \in [Procs -> Phases] /\ touched' \in [Procs -> BOOLEAN]
    <3>1. /\ job \in [Procs -> Jobs] /\ pc \in [Procs -> Phases] /\ touched \in [Procs -> BOOLEAN]
          /\ st \in [Procs -> [Docs -> Entries]]
      BY TypeParts DEF ProcTypes
    <3>2. NoEntry \in Entries /\ NoJob \in Jobs /\ "walk" \in Phases /\ "embed" \in Phases
      BY DataTypes DEF Jobs, Phases
    <3>3. CASE job[p].text = Absent
      <4>1. /\ Record(p, NoEntry)
            /\ job' = [job EXCEPT ![p] = NoJob]
            /\ pc' = [pc EXCEPT ![p] = "walk"]
            /\ touched' = [touched EXCEPT ![p] = TRUE]
        BY <1>1, <3>3 DEF DropRow
      <4>2. st' \in [Procs -> [Docs -> Entries]]
        BY <1>0, <3>2, <4>1
      <4> QED BY <3>1, <3>2, <4>1, <4>2
    <3>4. CASE job[p].text # Absent
      BY <1>1, <3>1, <3>2, <3>4 DEF DropRow
    <3> QED BY <3>3, <3>4
  <2> QED BY <2>1, <2>2, <1>1
          DEF DropRow, TypeOK, ProcTypes, RunTypes, WorldTypes, Readiness, worldVars, fileVars, runVars
<1>2. CASE SaveDoc(p)
  <2>1. TableTypes'
    BY <1>2, InsertTypes DEF SaveDoc
  <2>2. [text |-> job[p].text, id |-> nextId] \in Entries
    BY DEF TypeOK, Entries
  <2>3. /\ st' \in [Procs -> [Docs -> Entries]] /\ job' \in [Procs -> Jobs]
        /\ pc' \in [Procs -> Phases] /\ touched' \in [Procs -> BOOLEAN]
    BY <1>0, <2>2, <1>2, DataTypes DEF SaveDoc, TypeOK, Jobs, Phases
  <2> QED BY <2>1, <2>3, <1>2
          DEF SaveDoc, TypeOK, ProcTypes, RunTypes, WorldTypes, Readiness, worldVars, fileVars, runVars
<1>3. CASE SaveNote(p)
  <2>1. TableTypes'
    BY <1>3, InsertTypes DEF SaveNote
  <2>2. ProcTypes' /\ RunTypes'
    <3>1. CASE Added(p)
      <4>1. Forget(p) /\ pc' \in [Procs -> Phases] /\ UNCHANGED <<torn, lost, last>>
        BY <3>1 DEF Added, TypeOK, Phases
      <4> QED BY <4>1, ForgetTypes DEF TypeOK, ProcTypes, RunTypes
    <3>2. CASE NextTurn(p) /\ UNCHANGED mem
      BY <3>2, FailsTypes DEF Fails
    <3> QED BY <1>3, <3>1, <3>2 DEF SaveNote
  <2> QED BY <2>1, <2>2, <1>3
          DEF SaveNote, TypeOK, WorldTypes, worldVars, fileVars
<1>4. CASE Query(p)
  <2>1. ProcTypes' /\ RunTypes'
    BY <1>4, FailsTypes DEF Query, Fails
  <2> QED BY <2>1, <1>4
          DEF Query, TypeOK, WorldTypes, TableTypes, worldVars, dbVars, fileVars, Live
<1>6. ASSUME NEW t \in Texts, QueryAndRemember(p, t)
      PROVE  ProcTypes' /\ RunTypes' /\ WorldTypes' /\ TableTypes'
  <2>1. Task(Note, t) \in Jobs
    BY DataTypes DEF Jobs, Owners
  <2>2. job' \in [Procs -> Jobs] /\ pc' \in [Procs -> Phases]
    BY <1>6, <2>1 DEF QueryAndRemember, TypeOK, Jobs, Phases
  <2> QED BY <2>2, <1>6
          DEF QueryAndRemember, TypeOK, ProcTypes, RunTypes, WorldTypes, TableTypes, Readiness,
              worldVars, dbVars, fileVars, runVars, Live
<1>5. CASE StoreError(p)
  <2>1. Fails(p) /\ UNCHANGED <<worldVars, up, dbVars, fileVars>>
    BY <1>5 DEF StoreError
  <2>2. ProcTypes' /\ RunTypes'
    BY <2>1, FailsTypes
  <2> QED BY <2>1, <2>2 DEF TypeOK, WorldTypes, TableTypes, worldVars, dbVars, fileVars, Live
<1> QED BY <1>1, <1>2, <1>3, <1>4, <1>5, <1>6

LEMMA KillTypes ==
    ASSUME TypeOK, NEW p \in Procs, Kill(p)
    PROVE  TypeOK'
<1>1. ProcTypes' /\ RunTypes'
  BY GoneTypes DEF Kill
<1>2. WorldTypes' /\ TableTypes'
  BY DEF Kill, TypeOK, WorldTypes, TableTypes, worldVars, dbVars, fileVars, Live
<1> QED BY <1>1, <1>2, TypeParts

LEMMA WorldSteps ==
    ASSUME TypeOK, World
    PROVE  TypeOK'
<1>1. CASE \E d \in Docs, t \in Texts \cup {Absent} : Edit(d, t)
  BY <1>1 DEF Edit, TypeOK, Live, dbVars, fileVars, procVars
<1>2. CASE \E e \in Embedders : Switch(e)
  BY <1>2 DEF Switch, TypeOK, Live, dbVars, fileVars, procVars, runVars
<1>3. CASE DropTable
  <2>1. rows' \in [Live' -> [owner : Owners, vec : Vectors]] /\ Live' = {}
    BY <1>3 DEF DropTable, NoRows, Live
  <2> QED BY <1>3, <2>1, DataTypes DEF DropTable, Lose, TypeOK, fileVars, worldVars, procVars
<1>4. CASE DeleteCache
  BY <1>4, DataTypes DEF DeleteCache, Lose, TypeOK, Live, dbVars, worldVars, procVars
<1>5. CASE GoDown \/ ComeUp
  BY <1>5 DEF GoDown, ComeUp, TypeOK, Live, worldVars, dbVars, fileVars, procVars, runVars
<1> QED BY <1>1, <1>2, <1>3, <1>4, <1>5 DEF World

(* Every variable keeps to its type: in particular the ids of the rows stay
   below the next one, and nothing but vectors of the configured models under
   their own keys is ever in a cache. *)
THEOREM TypeCorrect == Spec => []TypeOK
<1>1. TypeOK /\ [Next]_vars => TypeOK'
  <2> SUFFICES ASSUME TypeOK, [Next]_vars PROVE TypeOK'
    OBVIOUS
  <2>1. CASE UNCHANGED vars
    BY <2>1 DEF vars, worldVars, dbVars, fileVars, procVars, runVars, TypeOK, Live
  <2>2. CASE World
    BY <2>2, WorldSteps
  <2>3. ASSUME NEW p \in Procs,
               Step(p) \/ Start(p) \/ EmbedFails(p) \/ PutFails(p) \/ Kill(p)
        PROVE  TypeOK'
    BY <2>3, WalkTypes, EmbedTypes, MigrateTypes, StoreTypes, KillTypes, StartTypes DEF Step
  <2> QED BY <2>1, <2>2, <2>3 DEF Next
<1> QED BY <1>1, InitTypes, PTL DEF Spec

-----------------------------------------------------------------------------
(* The cache: every entry holds what the model its key names makes of the text
   its key names. *)
Made(x) == x.vec = Vector(x.key[1], x.key[2])
CacheMade ==
    /\ \A x \in cacheFile : Made(x)
    /\ \A p \in Procs : \A x \in mem[p] : Made(x)

LEMMA PutMade ==
    ASSUME TypeOK, CacheMade, NEW p \in Procs
    PROVE  /\ \A x \in Extended(p) : Made(x)
           /\ Put(p) => \A q \in Procs : \A x \in mem'[q] : Made(x)
<1> DEFINE new == [key |-> Key(IdOf[emb[p]], job[p].text),
                   vec |-> Vector(IdOf[emb[p]], job[p].text)]
<1>1. Made(new)
  BY DEF Made, Key
<1>2. mem \in [Procs -> SUBSET Cached] /\ Extended(p) = mem[p] \cup {new}
      /\ (Put(p) => mem' = [mem EXCEPT ![p] = Extended(p)])
  BY DEF Put, Extended, TypeOK
<1> HIDE DEF new
<1> QED BY <1>1, <1>2 DEF CacheMade

(* A step that only empties maps, or the file, or loads the file. *)
LEMMA KeepsMade ==
    ASSUME TypeOK, CacheMade, cacheFile' \subseteq cacheFile,
           \A p \in Procs : mem'[p] \in {mem[p], cacheFile, {}}
    PROVE  CacheMade'
  BY DEF CacheMade, Made, Vector

LEMMA GoneForgets ==
    ASSUME TypeOK, NEW p \in Procs, Forget(p)
    PROVE  \A q \in Procs : mem'[q] \in {mem[q], cacheFile, {}}
  BY DEF TypeOK, Forget

LEMMA CacheInvariant == Spec => []CacheMade
<1>1. Init => CacheMade
  BY DEF Init, CacheMade
<1>2. TypeOK /\ CacheMade /\ [Next]_vars => CacheMade'
  <2> SUFFICES ASSUME TypeOK, CacheMade, [Next]_vars PROVE CacheMade'
    OBVIOUS
  <2>1. CASE UNCHANGED vars
    BY <2>1 DEF vars, fileVars, procVars, CacheMade, Made, Vector
  <2>2. CASE World
    <3>1. cacheFile' \subseteq cacheFile /\ mem' = mem
      BY <2>2 DEF World, Edit, Switch, DropTable, DeleteCache, GoDown, ComeUp, Lose, fileVars, procVars
    <3> QED BY <3>1, KeepsMade
  <2>3. ASSUME NEW p \in Procs, EmbedMiss(p)
        PROVE  CacheMade'
    <3>1. Put(p) /\ cacheFile' = Extended(p)
      BY <2>3 DEF EmbedMiss
    <3> QED BY <3>1, PutMade DEF CacheMade, Made, Vector
  <2>4. ASSUME NEW p \in Procs, PutFails(p)
        PROVE  CacheMade'
    <3>1. \A x \in cacheFile' : Made(x)
      BY <2>4, PutMade DEF PutFails, CacheMade
    <3>2. CASE Gone(p)
      BY <3>1, <3>2, GoneForgets DEF Gone, CacheMade, Made, Vector
    <3>3. CASE Put(p)
      BY <3>1, <3>3, PutMade DEF CacheMade, Made, Vector
    <3> QED BY <2>4, <3>2, <3>3 DEF PutFails
  <2>5. ASSUME NEW p \in Procs, Start(p)
        PROVE  CacheMade'
    <3>1. cacheFile' = cacheFile
      BY <2>5 DEF Start, Sync, AddNote, Chat, Turn, Quit, Begin, fileVars
    <3>2. \A q \in Procs : mem'[q] \in {mem[q], cacheFile, {}}
      <4>1. CASE Quit(p)
        BY <4>1, GoneForgets DEF Quit, Gone
      <4>2. CASE ~Quit(p)
        BY <2>5, <4>2 DEF Start, Sync, AddNote, Chat, Turn, Begin, TypeOK
      <4> QED BY <4>1, <4>2
    <3> QED BY <3>1, <3>2, KeepsMade
  <2>6. ASSUME NEW p \in Procs, Fails(p), cacheFile' = cacheFile
        PROVE  CacheMade'
    <3>1. CASE Gone(p)
      BY <2>6, <3>1, KeepsMade, GoneForgets DEF Gone
    <3>2. CASE ~Gone(p)
      BY <2>6, <3>2, KeepsMade DEF Fails, NextTurn
    <3> QED BY <3>1, <3>2
  <2>7. ASSUME NEW p \in Procs, EmbedFails(p) \/ EmbedRefused(p) \/ StoreError(p)
        PROVE  CacheMade'
    BY <2>6, <2>7 DEF EmbedFails, EmbedRefused, StoreError, fileVars
  <2>8. ASSUME NEW p \in Procs, Forget(p), cacheFile' = cacheFile
        PROVE  CacheMade'
    BY <2>8, KeepsMade, GoneForgets
  <2>9. ASSUME NEW p \in Procs, Kill(p) \/ WriteState(p)
        PROVE  CacheMade'
    BY <2>8, <2>9 DEF Kill, Gone, WriteState, fileVars
  <2>11. ASSUME NEW p \in Procs, SaveNote(p)
         PROVE  CacheMade'
    <3>1. CASE Added(p)
      BY <2>8, <2>11, <3>1 DEF SaveNote, Added, fileVars
    <3>2. CASE ~Added(p)
      BY <2>11, <3>2, KeepsMade DEF SaveNote, fileVars
    <3> QED BY <3>1, <3>2
  <2>10. ASSUME NEW p \in Procs,
                \/ \E d \in Docs : Visit(p, d)
                \/ EmbedHit(p) \/ Guard(p) \/ CreateTable(p) \/ ExtendTable(p) \/ MigrateFails(p)
                \/ DropRow(p) \/ SaveDoc(p) \/ Query(p)
                \/ \E t \in Texts : QueryAndRemember(p, t)
         PROVE  CacheMade'
    <3>1. UNCHANGED <<mem, cacheFile>>
      BY <2>10 DEF Visit, EmbedHit, Guard, CreateTable, ExtendTable, MigrateFails, Ready, DropRow,
                   SaveDoc, Query, QueryAndRemember, fileVars
    <3> QED BY <3>1, KeepsMade
  <2> QED BY <2>1, <2>2, <2>3, <2>4, <2>5, <2>7, <2>9, <2>10, <2>11 DEF Next, Step
<1> QED BY <1>1, <1>2, TypeCorrect, PTL DEF Spec

(* cache.go:13: no lookup, in the map of any process or in a file any process
   left, gives a vector of another model or of another text. *)
THEOREM CachesAreSound == Spec => []CacheSound
<1>1. CacheMade => CacheSound
  <2> SUFFICES ASSUME CacheMade,
                      NEW x \in cacheFile \cup UNION {mem[p] : p \in Procs},
                      NEW e \in Embedders, NEW t \in Texts,
                      x.key = Key(IdOf[e], t)
               PROVE  x.vec = Vector(IdOf[e], t)
    BY DEF CacheSound
  <2>1. Made(x)
    BY DEF CacheMade
  <2> QED BY <2>1 DEF Made, Key
<1> QED BY <1>1, CacheInvariant, PTL
-----------------------------------------------------------------------------
(* The migration.  Only its own steps and DropTable change the table; any other
   step leaves a process as ready as it was, with the same embedder, or
   makes it start over. *)
StartsOver(p) == once'[p] = "new"
SameStore(p) == once'[p] = once[p] /\ emb'[p] = emb[p] /\ (p \in raced' <=> p \in raced)
Migrates(p) == Guard(p) \/ CreateTable(p) \/ ExtendTable(p) \/ MigrateFails(p)

LEMMA ForgetStartsOver ==
    ASSUME TypeOK, NEW p \in Procs, Forget(p)
    PROVE  \A q \in Procs : StartsOver(q) \/ SameStore(q)
  BY DEF TypeOK, Forget, StartsOver, SameStore

LEMMA OtherSteps ==
    ASSUME TypeOK, [Next]_vars, ~DropTable, \A p \in Procs : ~Migrates(p)
    PROVE  /\ table' = table
           /\ \A p \in Procs : StartsOver(p) \/ SameStore(p)
<1> DEFINE Goal == /\ table' = table
                   /\ \A p \in Procs : StartsOver(p) \/ SameStore(p)
<1>1. CASE UNCHANGED vars
  BY <1>1 DEF vars, dbVars, procVars, runVars, SameStore
<1>2. CASE World
  BY <1>2 DEF World, Edit, Switch, DeleteCache, GoDown, ComeUp, Lose, dbVars, procVars, runVars, SameStore
<1>3. ASSUME NEW p \in Procs, Start(p)
      PROVE  Goal
  <2>1. table' = table
    BY <1>3 DEF Start, Sync, AddNote, Chat, Turn, Quit, Begin, dbVars
  <2>2. CASE Quit(p)
    BY <2>1, <2>2, ForgetStartsOver DEF Quit, Gone
  <2>3. CASE ~Quit(p)
    BY <1>3, <2>1, <2>3
       DEF Start, Sync, AddNote, Chat, Turn, Begin, TypeOK, runVars, StartsOver, SameStore
  <2> QED BY <2>2, <2>3
<1>4. ASSUME NEW p \in Procs, Fails(p), table' = table
      PROVE  Goal
  <2>1. CASE Gone(p)
    BY <1>4, <2>1, ForgetStartsOver DEF Gone
  <2>2. CASE ~Gone(p)
    BY <1>4, <2>2 DEF Fails, NextTurn, runVars, SameStore
  <2> QED BY <2>1, <2>2
<1>5. ASSUME NEW p \in Procs, EmbedFails(p) \/ EmbedRefused(p) \/ StoreError(p)
      PROVE  Goal
  BY <1>4, <1>5 DEF EmbedFails, EmbedRefused, StoreError, dbVars
<1>6. ASSUME NEW p \in Procs, PutFails(p)
      PROVE  Goal
  <2>1. table' = table
    BY <1>6 DEF PutFails, dbVars
  <2>2. CASE Gone(p)
    BY <2>1, <2>2, ForgetStartsOver DEF Gone
  <2>3. CASE ~Gone(p)
    BY <1>6, <2>1, <2>3 DEF PutFails, NextTurn, runVars, SameStore
  <2> QED BY <2>2, <2>3
<1>7. ASSUME NEW p \in Procs, Kill(p) \/ WriteState(p)
      PROVE  Goal
  <2>1. Forget(p) /\ table' = table
    BY <1>7 DEF Kill, Gone, WriteState, dbVars
  <2> QED BY <2>1, ForgetStartsOver
<1>8. ASSUME NEW p \in Procs,
             \/ \E d \in Docs : Visit(p, d)
             \/ EmbedHit(p) \/ EmbedMiss(p) \/ DropRow(p) \/ SaveDoc(p) \/ Query(p)
             \/ \E t \in Texts : QueryAndRemember(p, t)
      PROVE  Goal
  <2>1. UNCHANGED <<once, emb, table, raced>>
    BY <1>8 DEF Visit, EmbedHit, EmbedMiss, DropRow, SaveDoc, Query, QueryAndRemember, NextTurn,
                dbVars, runVars
  <2> QED BY <2>1 DEF SameStore
<1>9. ASSUME NEW p \in Procs, SaveNote(p)
      PROVE  Goal
  <2>1. CASE Added(p)
    BY <1>9, <2>1, ForgetStartsOver DEF SaveNote, Added
  <2>2. CASE ~Added(p)
    BY <1>9, <2>2 DEF SaveNote, NextTurn, runVars, SameStore
  <2> QED BY <2>1, <2>2
<1> QED BY <1>1, <1>2, <1>3, <1>5, <1>6, <1>7, <1>8, <1>9 DEF Next, Step, Migrates

(* Why the guard holds: a process between the guard and the end of the
   migration, and a ready one, works on no table or on one of its own
   dimension; and whoever created the table is past the creation. *)
Guarded(p) ==
    /\ once[p] \in {"create", "extend", "ready"} => table.dim \in {0, DimOf[emb[p]]}
    /\ once[p] \in {"extend", "ready"} => table.dim # 0
GuardInv == \A p \in Procs \ raced : Guarded(p)

(* pgvector_store.go:77: whatever is created and dropped by others, a process
   that is ready works on a table of its own dimension unless that happened
   between its own look at the table and the end of its work. *)
THEOREM GuardIsEnough == Spec => []GuardHolds
<1>1. Init => GuardInv
  BY DEF Init, GuardInv, Guarded
<1>2. TypeOK /\ GuardInv /\ [Next]_vars => GuardInv'
  <2> SUFFICES ASSUME TypeOK, GuardInv, [Next]_vars, NEW q \in Procs, q \notin raced'
               PROVE  Guarded(q)'
    BY DEF GuardInv
  <2>1. ASSUME NEW p \in Procs, Migrates(p)
        PROVE  Guarded(q)'
    <3>1. q \notin raced
      BY <2>1 DEF Migrates, Guard, CreateTable, Created, ExtendTable, MigrateFails
    <3>2. Guarded(q)
      BY <3>1 DEF GuardInv
    <3>3. emb' = emb /\ once \in [Procs -> {"new", "create", "extend", "ready", "failed"}]
          /\ table \in [dim : Nat, full : BOOLEAN]
      BY <2>1 DEF Migrates, Guard, CreateTable, ExtendTable, MigrateFails, Ready, TypeOK
    <3>4. CASE Guard(p)
      BY <3>2, <3>3, <3>4 DEF Guard, Ready, Guarded
    <3>5. CASE CreateTable(p)
      <4>1. /\ once[p] = "create" /\ once' = [once EXCEPT ![p] = "extend"]
            /\ table' = IF table.dim = 0 THEN [dim |-> DimOf[emb[p]], full |-> FALSE] ELSE table
        BY <3>5 DEF CreateTable, Created, Ready
      <4>2. table.dim = 0 /\ once[q] = "create" => DimOf[emb[q]] = DimOf[emb[p]]
        BY <3>5 DEF CreateTable, Created
      <4>3. DimOf[emb[p]] # 0
        BY DEF TypeOK
      <4>4. CASE table.dim = 0
        BY <3>2, <3>3, <4>1, <4>2, <4>3, <4>4 DEF Guarded
      <4>5. CASE table.dim # 0
        BY <3>2, <3>3, <4>1, <4>5 DEF Guarded
      <4> QED BY <4>4, <4>5
    <3>6. CASE ExtendTable(p)
      BY <3>2, <3>3, <3>6 DEF ExtendTable, Ready, Guarded
    <3>7. CASE MigrateFails(p)
      BY <3>2, <3>3, <3>7 DEF MigrateFails, Ready, Guarded
    <3> QED BY <2>1, <3>4, <3>5, <3>6, <3>7 DEF Migrates
  <2>2. CASE DropTable
    BY <2>2 DEF DropTable, Lose, NoTable, procVars, Guarded
  <2>3. CASE ~DropTable /\ \A p \in Procs : ~Migrates(p)
    <3>1. table' = table /\ (StartsOver(q) \/ SameStore(q))
      BY <2>3, OtherSteps
    <3>2. CASE StartsOver(q)
      BY <3>2 DEF StartsOver, Guarded
    <3>3. CASE SameStore(q)
      BY <3>1, <3>3 DEF SameStore, GuardInv, Guarded
    <3> QED BY <3>1, <3>2, <3>3
  <2> QED BY <2>1, <2>2, <2>3
<1>3. TypeOK /\ GuardInv => GuardHolds
  BY DEF TypeOK, GuardInv, Guarded, GuardHolds
<1> QED BY <1>1, <1>2, <1>3, TypeCorrect, PTL DEF Spec

(* Why rows only change in a table that is complete. *)
Complete(p) ==
    /\ once[p] \in {"extend", "ready"} => table.dim # 0
    /\ once[p] = "ready" => table.full
FullInv == "table" \notin lost => \A p \in Procs : Complete(p)

LEMMA LostGrows == TypeOK /\ [Next]_vars => lost \subseteq lost'
<1> SUFFICES ASSUME TypeOK, [Next]_vars PROVE lost \subseteq lost'
  OBVIOUS
<1>1. CASE UNCHANGED vars
  BY <1>1 DEF vars, runVars
<1>2. CASE World
  BY <1>2 DEF World, Edit, Switch, DropTable, DeleteCache, GoDown, ComeUp, Lose, runVars
<1>3. ASSUME NEW p \in Procs, Start(p) \/ EmbedFails(p) \/ PutFails(p) \/ Kill(p)
      PROVE  lost' = lost
  BY <1>3 DEF Start, Sync, AddNote, Chat, Turn, Quit, Begin, EmbedFails, PutFails, Kill, Fails, Gone,
              NextTurn, runVars
<1>4. ASSUME NEW p \in Procs, Step(p)
      PROVE  lost' = lost
  <2>1. CASE EmbedRefused(p) \/ StoreError(p)
    BY <2>1 DEF EmbedRefused, StoreError, Fails, Gone, NextTurn, runVars
  <2>2. CASE ~(EmbedRefused(p) \/ StoreError(p))
    BY <1>4, <2>2 DEF Step, Visit, WriteState, EmbedHit, EmbedMiss, Guard, CreateTable, ExtendTable,
                      MigrateFails, Ready, DropRow, SaveDoc, SaveNote, Added, NextTurn,
                      Query, QueryAndRemember, runVars
  <2> QED BY <2>1, <2>2
<1> QED BY <1>1, <1>2, <1>3, <1>4 DEF Next

(* However migrations of several processes interleave, and wherever they fail,
   no process stores or deletes a row before the table has all it needs, until
   the table is dropped. *)
THEOREM MigrationComesFirst == Spec => MigratedFirst
<1>1. Init => FullInv
  BY DEF Init, FullInv, Complete
<1>2. TypeOK /\ FullInv /\ [Next]_vars => FullInv'
  <2> SUFFICES ASSUME TypeOK, FullInv, [Next]_vars, "table" \notin lost', NEW q \in Procs
               PROVE  Complete(q)'
    BY DEF FullInv
  <2>1. "table" \notin lost
    BY LostGrows
  <2>2. ASSUME NEW p \in Procs, Migrates(p)
        PROVE  Complete(q)'
    <3>1. Complete(p) /\ Complete(q)
      BY <2>1 DEF FullInv
    <3>2. once \in [Procs -> {"new", "create", "extend", "ready", "failed"}]
          /\ table \in [dim : Nat, full : BOOLEAN] /\ DimOf[emb[p]] # 0
      BY DEF TypeOK
    <3>3. CASE Guard(p)
      BY <3>1, <3>2, <3>3 DEF Guard, Ready, Complete
    <3>4. CASE CreateTable(p)
      <4>1. /\ once' = [once EXCEPT ![p] = "extend"]
            /\ table' = IF table.dim = 0 THEN [dim |-> DimOf[emb[p]], full |-> FALSE] ELSE table
        BY <3>4 DEF CreateTable, Created, Ready
      <4>2. CASE table.dim = 0
        BY <3>1, <3>2, <4>1, <4>2 DEF Complete
      <4>3. CASE table.dim # 0
        BY <3>1, <3>2, <4>1, <4>3 DEF Complete
      <4> QED BY <4>2, <4>3
    <3>5. CASE ExtendTable(p)
      <4>1. /\ once' = [once EXCEPT ![p] = "ready"]
            /\ table.dim # 0 /\ table' = [table EXCEPT !.full = TRUE]
        BY <3>5 DEF ExtendTable, Ready
      <4>2. table'.dim # 0 /\ table'.full
        BY <3>2, <4>1
      <4> QED BY <4>2 DEF Complete
    <3>6. CASE MigrateFails(p)
      BY <3>1, <3>2, <3>6 DEF MigrateFails, Ready, Complete
    <3> QED BY <2>2, <3>3, <3>4, <3>5, <3>6 DEF Migrates
  <2>3. CASE DropTable
    BY <2>3 DEF DropTable, Lose
  <2>4. CASE ~DropTable /\ \A p \in Procs : ~Migrates(p)
    <3>1. table' = table /\ (StartsOver(q) \/ SameStore(q)) /\ Complete(q)
      BY <2>1, <2>4, OtherSteps DEF FullInv
    <3> QED BY <3>1 DEF Complete, StartsOver, SameStore
  <2> QED BY <2>2, <2>3, <2>4
<1>3. TypeOK /\ FullInv /\ [Next]_vars => (rows' # rows /\ "table" \notin lost' => table.full)
  <2> SUFFICES ASSUME TypeOK, FullInv, [Next]_vars, rows' # rows, "table" \notin lost'
               PROVE  table.full
    OBVIOUS
  <2>1. "table" \notin lost
    BY LostGrows
  <2>2. ASSUME NEW p \in Procs, DropRow(p) \/ SaveDoc(p) \/ SaveNote(p)
        PROVE  table.full
    BY <2>1, <2>2 DEF DropRow, SaveDoc, SaveNote, Store, FullInv, Complete
  <2>3. CASE DropTable
    BY <2>3 DEF DropTable, Lose
  <2>4. CASE UNCHANGED vars
    BY <2>4 DEF vars, dbVars
  <2>5. CASE World /\ ~DropTable
    BY <2>5 DEF World, Edit, Switch, DeleteCache, GoDown, ComeUp, Lose, dbVars
  <2>6. ASSUME NEW p \in Procs, Start(p) \/ EmbedFails(p) \/ PutFails(p) \/ Kill(p)
        PROVE  rows' = rows
    BY <2>6 DEF Start, Sync, AddNote, Chat, Turn, Quit, Begin, EmbedFails, PutFails, Kill, dbVars
  <2>7. ASSUME NEW p \in Procs, Step(p), ~(DropRow(p) \/ SaveDoc(p) \/ SaveNote(p))
        PROVE  rows' = rows
    BY <2>7 DEF Step, Visit, WriteState, EmbedHit, EmbedMiss, EmbedRefused, Guard, CreateTable,
                ExtendTable, MigrateFails, Ready, Query, QueryAndRemember, StoreError, dbVars
  <2> QED BY <2>2, <2>3, <2>4, <2>5, <2>6, <2>7 DEF Next
<1>4. TypeOK /\ FullInv /\ [Next]_vars
      => [rows' # rows /\ "table" \notin lost' => table.full]_vars
  BY <1>3
<1> QED BY <1>1, <1>2, <1>4, TypeCorrect, PTL DEF Spec, MigratedFirst

-----------------------------------------------------------------------------
(* A clean sync mirrors the documents.  A step of one process leaves what the
   others do alone. *)
Same(p) ==
    /\ pc'[p] = pc[p] /\ cmd'[p] = cmd[p] /\ job'[p] = job[p]
    /\ st'[p] = st[p] /\ todo'[p] = todo[p] /\ touched'[p] = touched[p]
ByItself(p) == Step(p) \/ Start(p) \/ EmbedFails(p) \/ PutFails(p) \/ Kill(p)

LEMMA GoneAlone ==
    ASSUME TypeOK, NEW p \in Procs, pc' = [pc EXCEPT ![p] = "idle"], Forget(p)
    PROVE  \A q \in Procs \ {p} : Same(q)
  BY DEF TypeOK, Forget, Same

LEMMA FailsAlone ==
    ASSUME TypeOK, NEW p \in Procs, Fails(p)
    PROVE  \A q \in Procs \ {p} : Same(q)
<1>1. CASE Gone(p)
  BY <1>1, GoneAlone DEF Gone
<1>2. CASE ~Gone(p)
  BY <1>2 DEF Fails, NextTurn, TypeOK, Same
<1> QED BY <1>1, <1>2

LEMMA MigratesSame ==
    ASSUME NEW p \in Procs, Migrates(p)
    PROVE  \A q \in Procs : Same(q)
  BY DEF Migrates, Guard, CreateTable, ExtendTable, MigrateFails, Ready, Same

LEMMA OthersSame ==
    ASSUME TypeOK, NEW p \in Procs, ByItself(p)
    PROVE  \A q \in Procs \ {p} : Same(q)
<1>1. CASE Sync(p) \/ (\E t \in Texts : AddNote(p, t)) \/ Chat(p)
  BY <1>1 DEF Sync, AddNote, Chat, Begin, TypeOK, Same
<1>2. CASE (\E t \in Queries : Turn(p, t)) \/ \E d \in Docs : Visit(p, d)
  BY <1>2 DEF Turn, Visit, TypeOK, Same
<1>3. CASE Quit(p) \/ Kill(p) \/ WriteState(p)
  BY <1>3, GoneAlone DEF Quit, Kill, Gone, WriteState
<1>9. CASE SaveNote(p)
  <2>1. CASE Added(p)
    BY <2>1, GoneAlone DEF Added
  <2>2. CASE NextTurn(p)
    BY <2>2 DEF NextTurn, TypeOK, Same
  <2> QED BY <1>9, <2>1, <2>2 DEF SaveNote
<1>4. CASE EmbedRefused(p) \/ EmbedFails(p) \/ StoreError(p)
  BY <1>4, FailsAlone DEF EmbedRefused, EmbedFails, StoreError
<1>5. CASE PutFails(p)
  <2>1. CASE Gone(p)
    BY <2>1, GoneAlone DEF Gone
  <2>2. CASE ~Gone(p)
    BY <1>5, <2>2 DEF PutFails, NextTurn, TypeOK, Same
  <2> QED BY <2>1, <2>2
<1>6. CASE EmbedHit(p) \/ EmbedMiss(p)
  BY <1>6 DEF EmbedHit, EmbedMiss, Embedded, TypeOK, Same
<1>7. CASE Migrates(p)
  BY <1>7, MigratesSame
<1>8. CASE DropRow(p) \/ SaveDoc(p) \/ Query(p) \/ \E t \in Texts : QueryAndRemember(p, t)
  BY <1>8 DEF DropRow, SaveDoc, Query, NextTurn, QueryAndRemember, Record, TypeOK, Same
<1> QED BY <1>1, <1>2, <1>3, <1>4, <1>5, <1>6, <1>7, <1>8, <1>9 DEF ByItself, Step, Start, Migrates

(* Where a command is, and what its task is by then. *)
Syncing(p) == pc[p] # "idle" /\ cmd[p] = "sync"
Placed(p) ==
    /\ Syncing(p) => p \in Syncers /\ pc[p] \in {"walk", "drop", "embed", "save"}
    /\ pc[p] \in {"walk", "drop"} => Syncing(p)
    /\ pc[p] # "idle" /\ cmd[p] # "sync" => job[p].owner = Note
    /\ Syncing(p) /\ pc[p] # "walk" => job[p].owner \in Docs
    /\ pc[p] = "drop" => st[p][job[p].owner].text # Absent
    /\ Syncing(p) /\ pc[p] \in {"embed", "save"} => job[p].text # Absent
    /\ Syncing(p) /\ pc[p] = "save" => job[p].vec.text = job[p].text
PlaceInv == \A p \in Procs : Placed(p)

LEMMA PlacedAtRest ==
    ASSUME NEW p, \/ pc'[p] = "idle"
                  \/ pc'[p] = "open" /\ cmd'[p] = "chat" /\ job'[p] = NoJob
    PROVE  Placed(p)'
  BY DEF Placed, Syncing, NoJob

LEMMA GonePlaced ==
    ASSUME TypeOK, NEW p \in Procs, Fails(p) \/ Gone(p)
    PROVE  \/ pc'[p] = "idle"
           \/ pc'[p] = "open" /\ cmd'[p] = "chat" /\ job'[p] = NoJob
  BY DEF TypeOK, Fails, NextTurn, Gone

LEMMA EmbeddedPlaced ==
    ASSUME TypeOK, CacheMade, PlaceInv, NEW p \in Procs, EmbedHit(p) \/ EmbedMiss(p)
    PROVE  /\ AtEmbedder(p) /\ cmd' = cmd
           /\ pc'[p] = IF pc[p] = "embed" THEN "save" ELSE "query"
           /\ job'[p].owner = job[p].owner /\ job'[p].text = job[p].text
           /\ job'[p].vec.text = job[p].text
<1>1. PICK v : Embedded(p, v) /\ v = Vector(IdOf[emb[p]], job[p].text)
  <2>1. CASE EmbedHit(p)
    <3>1. PICK x \in mem[p] : x.key = Key(IdOf[emb[p]], job[p].text) /\ Embedded(p, x.vec)
      BY <2>1 DEF EmbedHit
    <3>2. Made(x)
      BY DEF CacheMade
    <3> QED BY <3>1, <3>2 DEF Made, Key
  <2>2. CASE EmbedMiss(p)
    BY <2>2 DEF EmbedMiss
  <2> QED BY <2>1, <2>2
<1>2. v.text = job[p].text
  BY <1>1 DEF Vector
<1>3. job \in [Procs -> Jobs] /\ pc \in [Procs -> Phases]
  BY TypeParts DEF ProcTypes
<1>4. job' = [job EXCEPT ![p].vec = v]
      /\ pc' = [pc EXCEPT ![p] = IF pc[p] = "embed" THEN "save" ELSE "query"]
  BY <1>1 DEF Embedded
<1>5. job'[p] = [job[p] EXCEPT !.vec = v] /\ job[p] \in Jobs
  BY <1>3, <1>4
<1>6. /\ job'[p].owner = job[p].owner /\ job'[p].text = job[p].text /\ job'[p].vec = v
  BY <1>5 DEF Jobs
<1>7. AtEmbedder(p) /\ cmd' = cmd
  BY DEF EmbedHit, EmbedMiss
<1> QED BY <1>2, <1>3, <1>4, <1>6, <1>7

LEMMA PlaceInvariant == Spec => []PlaceInv
<1>1. Init => PlaceInv
  BY DEF Init, PlaceInv, Placed, Syncing
<1>2. TypeOK /\ CacheMade /\ PlaceInv /\ [Next]_vars => PlaceInv'
  <2> SUFFICES ASSUME TypeOK, CacheMade, PlaceInv, [Next]_vars, NEW q \in Procs
               PROVE  Placed(q)'
    BY DEF PlaceInv
  <2>0. ASSUME Same(q)
        PROVE  Placed(q)'
    BY <2>0 DEF Same, PlaceInv, Placed, Syncing
  <2>1. CASE UNCHANGED vars
    BY <2>0, <2>1 DEF vars, procVars, Same
  <2>2. CASE World
    BY <2>0, <2>2 DEF World, Edit, Switch, DropTable, DeleteCache, GoDown, ComeUp, Lose, procVars,
                      Same
  <2>3. ASSUME NEW p \in Procs, ByItself(p), q # p
        PROVE  Placed(q)'
    BY <2>0, <2>3, OthersSame
  <2>4. ASSUME ByItself(q)
        PROVE  Placed(q)'
    <3>0. Placed(q)
      BY DEF PlaceInv
    <3>1. CASE Sync(q)
      BY <3>1 DEF Sync, Begin, TypeOK, Placed, Syncing, Syncers
    <3>2. CASE \E t \in Texts : AddNote(q, t)
      BY <3>2 DEF AddNote, Begin, Task, TypeOK, Placed, Syncing
    <3>3. CASE Chat(q)
      BY <3>3 DEF Chat, Begin, NoJob, TypeOK, Placed, Syncing
    <3>4. CASE \E t \in Queries : Turn(q, t)
      BY <3>0, <3>4 DEF Turn, Task, TypeOK, Placed, Syncing
    <3>5. CASE \/ Quit(q) \/ Kill(q) \/ EmbedRefused(q) \/ EmbedFails(q) \/ StoreError(q)
      BY <3>5, GonePlaced, PlacedAtRest DEF Quit, Kill, EmbedRefused, EmbedFails, StoreError
    <3>6. CASE WriteState(q) \/ SaveNote(q) \/ Query(q)
      BY <3>6, PlacedAtRest DEF WriteState, SaveNote, Added, Query, NextTurn, TypeOK
    <3>7. CASE PutFails(q)
      <4>1. CASE Gone(q)
        BY <4>1, GonePlaced, PlacedAtRest
      <4>2. CASE ~Gone(q)
        BY <3>7, <4>2, PlacedAtRest DEF PutFails, NextTurn, TypeOK
      <4> QED BY <4>1, <4>2
    <3>8. CASE EmbedHit(q) \/ EmbedMiss(q)
      BY <3>0, <3>8, EmbeddedPlaced DEF AtEmbedder, Placed, Syncing
    <3>9. CASE Migrates(q)
      BY <2>0, <3>9, MigratesSame
    <3>10. ASSUME NEW d \in Docs, Visit(q, d)
           PROVE  Placed(q)'
      <4>1. /\ pc[q] = "walk" /\ cmd' = cmd /\ st' = st
            /\ job' = [job EXCEPT ![q] = IF st[q][d].text = disk[d] THEN NoJob ELSE Task(d, disk[d])]
            /\ pc' = [pc EXCEPT ![q] = IF st[q][d].text = disk[d] THEN "walk"
                                       ELSE IF st[q][d].text # Absent THEN "drop" ELSE "embed"]
        BY <3>10 DEF Visit
      <4>2. job'[q] = (IF st[q][d].text = disk[d] THEN NoJob ELSE Task(d, disk[d]))
            /\ pc'[q] = IF st[q][d].text = disk[d] THEN "walk"
                        ELSE IF st[q][d].text # Absent THEN "drop" ELSE "embed"
        BY <4>1 DEF TypeOK
      <4> QED BY <3>0, <4>1, <4>2 DEF Task, Placed, Syncing
    <3>11. CASE DropRow(q)
      <4>1. pc[q] = "drop" /\ cmd' = cmd /\ Syncing(q)
        BY <3>0, <3>11 DEF DropRow, Store, Placed
      <4>2. CASE job[q].text = Absent
        BY <3>0, <3>11, <4>1, <4>2 DEF DropRow, TypeOK, Placed, Syncing
      <4>3. CASE job[q].text # Absent
        BY <3>0, <3>11, <4>1, <4>3 DEF DropRow, TypeOK, Placed, Syncing
      <4> QED BY <4>2, <4>3
    <3>12. CASE SaveDoc(q)
      BY <3>0, <3>12 DEF SaveDoc, Store, TypeOK, Placed, Syncing
    <3>13. ASSUME NEW t \in Texts, QueryAndRemember(q, t)
           PROVE  Placed(q)'
      BY <3>0, <3>13 DEF QueryAndRemember, Store, Task, TypeOK, Placed, Syncing
    <3> QED BY <2>4, <3>1, <3>2, <3>3, <3>4, <3>5, <3>6, <3>7, <3>8, <3>9, <3>10, <3>11, <3>12,
               <3>13
            DEF ByItself, Step, Start, Migrates
  <2> QED BY <2>1, <2>2, <2>3, <2>4 DEF Next, ByItself
<1> QED BY <1>1, <1>2, TypeCorrect, CacheInvariant, PTL DEF Spec

(* What the table r holds of a document, and what an entry of the sync state
   says it holds. *)
Of(r, d) == {i \in DOMAIN r : r[i].owner = d}
Fits(r, e, d) ==
    IF e.text = Absent THEN Of(r, d) = {}
    ELSE Of(r, d) = {e.id} /\ r[e.id].vec.text = e.text
Kept(r, s, d) == Of(s, d) = Of(r, d) /\ \A i \in Of(r, d) : s[i] = r[i]

LEMMA KeptFits ==
    ASSUME NEW r, NEW s, NEW d, NEW e, Kept(r, s, d), Fits(r, e, d)
    PROVE  Fits(s, e, d)
  BY DEF Kept, Fits

LEMMA DropOne ==
    ASSUME NEW k, NEW d, rows' = [i \in Live \ {k} |-> rows[i]], Of(rows, d) = {k}
    PROVE  Of(rows', d) = {} /\ \A c : c # d => Kept(rows, rows', c)
<1>1. DOMAIN rows' = Live \ {k} /\ \A i \in Live \ {k} : rows'[i] = rows[i]
  OBVIOUS
<1> QED BY <1>1 DEF Of, Kept, Live

LEMMA InsertOne ==
    ASSUME NEW p \in Procs, Insert(p), nextId \notin Live
    PROVE  /\ Of(rows', job[p].owner) = Of(rows, job[p].owner) \cup {nextId}
           /\ rows'[nextId].vec = job[p].vec
           /\ \A c : c # job[p].owner => Kept(rows, rows', c)
<1>1. /\ DOMAIN rows' = Live \cup {nextId} /\ \A i \in Live : rows'[i] = rows[i]
      /\ rows'[nextId] = [owner |-> job[p].owner, vec |-> job[p].vec]
  BY DEF Insert
<1> QED BY <1>1 DEF Of, Kept, Live

(* The document a sync is at has no rows between the deletion of the old and
   the insertion of the new; the table agrees on all others with the state
   the sync carries, and with the state on file while no sync has changed it. *)
Doing(p, d) == pc[p] \in {"drop", "embed", "save"} /\ job[p].owner = d
Worked(p) ==
    Syncing(p) => \A d \in Docs :
        IF Doing(p, d) /\ pc[p] # "drop" THEN Of(rows, d) = {} ELSE Fits(rows, st[p][d], d)
Known ==
    (\A p \in Procs : Syncing(p) => ~touched[p]) => \A d \in Docs : Fits(rows, stateFile[d], d)
RowsInv == OneSyncer /\ lost = {} /\ ~torn => (\A p \in Procs : Worked(p)) /\ Known

LEMMA TornStays == [Next]_vars /\ torn \in BOOLEAN /\ ~torn' => ~torn
<1> SUFFICES ASSUME [Next]_vars, torn \in BOOLEAN, torn PROVE torn'
  OBVIOUS
<1>1. CASE UNCHANGED vars \/ World
  BY <1>1 DEF vars, World, Edit, Switch, DropTable, DeleteCache, GoDown, ComeUp, Lose, runVars
<1>2. ASSUME NEW p \in Procs, Start(p) \/ EmbedFails(p) \/ PutFails(p) \/ Kill(p)
      PROVE  torn'
  BY <1>2 DEF Start, Sync, AddNote, Chat, Turn, Quit, Begin, EmbedFails, PutFails, Kill, Fails, Gone,
              NextTurn, runVars
<1>3. ASSUME NEW p \in Procs, Step(p)
      PROVE  torn'
  <2>1. CASE EmbedRefused(p) \/ StoreError(p)
    BY <2>1 DEF EmbedRefused, StoreError, Fails, Gone, NextTurn, runVars
  <2>2. CASE ~(EmbedRefused(p) \/ StoreError(p))
    BY <1>3, <2>2 DEF Step, Visit, WriteState, EmbedHit, EmbedMiss, Guard, CreateTable, ExtendTable,
                      MigrateFails, Ready, DropRow, SaveDoc, SaveNote, Added, NextTurn,
                      Query, QueryAndRemember, runVars
  <2> QED BY <2>1, <2>2
<1> QED BY <1>1, <1>2, <1>3 DEF Next

(* The only process that syncs. *)
LEMMA TheSyncer ==
    ASSUME OneSyncer, PlaceInv, NEW p \in Syncers, NEW q \in Procs, q # p
    PROVE  ~Syncing(q)
  BY DEF OneSyncer, PlaceInv, Placed

DocsKept == \A d \in Docs : Kept(rows, rows', d)

(* A step that has nothing to do with a sync, or ends one that did nothing. *)
LEMMA RestKeeps ==
    ASSUME DocsKept, stateFile' = stateFile,
           \A q \in Procs : Same(q) \/ (~Syncing(q)' /\ (Syncing(q) => ~touched[q])),
           \A q \in Procs : Worked(q), Known
    PROVE  (\A q \in Procs : Worked(q)') /\ Known'
<1>1. ASSUME NEW q \in Procs
      PROVE  Worked(q)'
  <2>1. CASE ~Syncing(q)'
    BY <2>1 DEF Worked
  <2>2. CASE Same(q)
    <3> SUFFICES ASSUME Syncing(q)', NEW d \in Docs
                 PROVE  IF Doing(q, d)' /\ pc'[q] # "drop" THEN Of(rows', d) = {}
                        ELSE Fits(rows', st'[q][d], d)
      BY DEF Worked
    <3>1. Syncing(q) /\ (Doing(q, d)' <=> Doing(q, d)) /\ pc'[q] = pc[q] /\ st'[q] = st[q]
      BY <2>2 DEF Same, Syncing, Doing
    <3>2. Kept(rows, rows', d)
      BY DEF DocsKept
    <3>3. IF Doing(q, d) /\ pc[q] # "drop" THEN Of(rows, d) = {} ELSE Fits(rows, st[q][d], d)
      BY <3>1 DEF Worked
    <3> QED BY <3>1, <3>2, <3>3, KeptFits DEF Kept
  <2> QED BY <2>1, <2>2
<1>2. Known'
  <2> SUFFICES ASSUME \A q \in Procs : Syncing(q)' => ~touched'[q], NEW d \in Docs
               PROVE  Fits(rows', stateFile'[d], d)
    BY DEF Known
  <2>1. \A q \in Procs : Syncing(q) => ~touched[q]
    BY DEF Same, Syncing
  <2>2. Fits(rows, stateFile[d], d) /\ Kept(rows, rows', d)
    BY <2>1 DEF Known, DocsKept
  <2> QED BY <2>2, KeptFits
<1> QED BY <1>1, <1>2

LEMMA SameRows ==
    ASSUME rows' = rows
    PROVE  DocsKept
  BY DEF DocsKept, Kept

LEMMA RowsStep == TypeOK /\ CacheMade /\ PlaceInv /\ RowsInv /\ [Next]_vars => RowsInv'
<1> SUFFICES ASSUME TypeOK, CacheMade, PlaceInv, RowsInv, [Next]_vars,
                    OneSyncer, lost' = {}, ~torn'
             PROVE  (\A q \in Procs : Worked(q)') /\ Known'
  BY DEF RowsInv, OneSyncer, Syncers
<1> DEFINE Goal == (\A q \in Procs : Worked(q)') /\ Known'
<1>1. (\A q \in Procs : Worked(q)) /\ Known
  <2>1. lost = {} /\ ~torn
    BY LostGrows, TornStays DEF TypeOK
  <2> QED BY <2>1 DEF RowsInv
<1>2. CASE UNCHANGED vars
  <2>1. DocsKept /\ stateFile' = stateFile /\ \A q \in Procs : Same(q)
    BY <1>2, SameRows DEF vars, dbVars, fileVars, procVars, Same
  <2> QED BY <1>1, <2>1, RestKeeps
<1>3. CASE World
  <2>1. rows' = rows /\ stateFile' = stateFile /\ \A q \in Procs : Same(q)
    BY <1>3 DEF World, Edit, Switch, DropTable, DeleteCache, GoDown, ComeUp, Lose, dbVars, fileVars,
                procVars, Same
  <2> QED BY <1>1, <2>1, RestKeeps, SameRows
<1> SUFFICES ASSUME NEW p \in Procs, ByItself(p) PROVE Goal
  BY <1>2, <1>3 DEF Next, ByItself
<1> HIDE DEF Goal
<1>4. \A q \in Procs \ {p} : Same(q)
  BY OthersSame
<1>5. Placed(p)
  BY DEF PlaceInv
<1>6. ASSUME DocsKept, stateFile' = stateFile,
             Same(p) \/ (~Syncing(p)' /\ (Syncing(p) => ~touched[p]))
      PROVE  Goal
  BY <1>1, <1>4, <1>6, RestKeeps DEF Goal
<1>7. ASSUME Gone(p) \/ Fails(p), rows' = rows, stateFile' = stateFile
      PROVE  Goal
  <2>1. ~Syncing(p)'
    BY <1>7, GonePlaced DEF Syncing
  <2>2. Syncing(p) => ~touched[p]
    BY <1>7 DEF Syncing, Gone, Fails, NextTurn
  <2> QED BY <1>6, <1>7, <2>1, <2>2, SameRows
<1>8. CASE Quit(p) \/ Kill(p) \/ EmbedRefused(p) \/ EmbedFails(p) \/ StoreError(p)
  BY <1>7, <1>8 DEF Quit, Kill, EmbedRefused, EmbedFails, StoreError, dbVars, fileVars
<1>9. CASE PutFails(p)
  <2>1. rows' = rows /\ stateFile' = stateFile
    BY <1>9 DEF PutFails, dbVars
  <2>2. CASE Gone(p)
    BY <1>7, <2>1, <2>2
  <2>3. CASE ~Gone(p)
    <3>1. cmd[p] = "chat" /\ cmd' = cmd
      BY <1>9, <2>3 DEF PutFails, NextTurn
    <3> QED BY <1>6, <2>1, <3>1, SameRows DEF Syncing
  <2> QED BY <2>2, <2>3
<1>10. CASE (\E t \in Texts : AddNote(p, t)) \/ Chat(p)
  <2>1. rows' = rows /\ stateFile' = stateFile /\ cmd'[p] # "sync" /\ pc[p] = "idle"
    BY <1>10 DEF AddNote, Chat, Begin, TypeOK, dbVars, fileVars
  <2> QED BY <1>6, <2>1, SameRows DEF Syncing
<1>11. CASE (\E t \in Queries : Turn(p, t)) \/ Query(p) \/ \E t \in Texts : QueryAndRemember(p, t)
  <2>1. rows' = rows /\ stateFile' = stateFile /\ cmd' = cmd /\ pc[p] \in {"open", "query"}
    BY <1>11 DEF Turn, Query, NextTurn, QueryAndRemember, Store, dbVars, fileVars
  <2>2. cmd[p] # "sync"
    BY <1>5, <2>1 DEF Placed, Syncing
  <2> QED BY <1>6, <2>1, <2>2, SameRows DEF Syncing
<1>12. CASE Migrates(p)
  <2>1. rows' = rows /\ stateFile' = stateFile
    BY <1>12 DEF Migrates, Guard, CreateTable, ExtendTable, MigrateFails, Ready, fileVars
  <2> QED BY <1>6, <1>12, <2>1, MigratesSame, SameRows
<1>13. CASE SaveNote(p)
  <2>1. /\ cmd[p] # "sync" /\ pc[p] = "save" /\ stateFile' = stateFile /\ Insert(p)
        /\ pc'[p] = "idle" \/ cmd'[p] # "sync"
    BY <1>13 DEF SaveNote, Added, NextTurn, Store, TypeOK, fileVars
  <2>2. job[p].owner = Note
    BY <1>5, <2>1 DEF Placed
  <2>3. nextId \notin Live
    BY DEF TypeOK
  <2>4. DocsKept
    BY <2>1, <2>2, <2>3, InsertOne DEF DocsKept
  <2> QED BY <1>6, <2>1, <2>4 DEF Syncing
<1>14. CASE Sync(p)
  <2>1. /\ pc[p] = "idle" /\ pc'[p] = "walk" /\ p \in Syncers /\ ~touched'[p]
        /\ st'[p] = stateFile /\ stateFile' = stateFile /\ rows' = rows
    BY <1>14 DEF Sync, Begin, Syncers, TypeOK, dbVars, fileVars
  <2>2. \A q \in Procs : ~Syncing(q)
    BY <2>1, TheSyncer DEF Syncing
  <2>3. \A d \in Docs : Fits(rows, stateFile[d], d)
    BY <1>1, <2>2 DEF Known
  <2>4. Worked(p)'
    BY <2>1, <2>3 DEF Worked, Doing
  <2>5. \A q \in Procs \ {p} : ~Syncing(q)'
    BY <1>4, <2>2 DEF Same, Syncing
  <2> QED BY <2>1, <2>3, <2>4, <2>5 DEF Worked, Known, Goal
<1>15. ASSUME UNCHANGED <<rows, stateFile, cmd, touched>>, Worked(p)', pc[p] # "idle",
              pc'[p] # "idle"
       PROVE  Goal
  <2>1. \A q \in Procs \ {p} : Worked(q)'
    BY <1>1, <1>4, <1>15 DEF Same, Worked, Doing, Syncing
  <2>2. Known'
    BY <1>1, <1>4, <1>15 DEF Same, Known, Syncing
  <2> QED BY <1>15, <2>1, <2>2 DEF Goal
<1>16. ASSUME NEW d \in Docs, Visit(p, d)
       PROVE  Goal
  <2>1. /\ pc[p] = "walk" /\ UNCHANGED <<rows, stateFile, cmd, st, touched>>
        /\ st[p][d].text # disk[d] => job'[p] = Task(d, disk[d])
        /\ pc'[p] = IF st[p][d].text = disk[d] THEN "walk"
                    ELSE IF st[p][d].text # Absent THEN "drop" ELSE "embed"
    BY <1>16 DEF Visit, TypeOK, dbVars, fileVars
  <2>2. \A c \in Docs : Fits(rows, st[p][c], c)
    BY <1>1, <1>5, <2>1 DEF Worked, Doing, Placed
  <2>3. Worked(p)'
    BY <2>1, <2>2 DEF Worked, Doing, Task, Fits
  <2> QED BY <1>15, <2>1, <2>3
<1>17. CASE EmbedHit(p) \/ EmbedMiss(p)
  <2>1. UNCHANGED <<rows, stateFile, cmd, touched, st>>
    BY <1>17 DEF EmbedHit, EmbedMiss, dbVars, fileVars
  <2>2. /\ AtEmbedder(p) /\ job'[p].owner = job[p].owner
        /\ pc'[p] = IF pc[p] = "embed" THEN "save" ELSE "query"
    BY <1>17, EmbeddedPlaced
  <2>3. Worked(p)'
    BY <1>1, <1>5, <2>1, <2>2 DEF AtEmbedder, Placed, Worked, Doing, Syncing
  <2> QED BY <1>15, <2>1, <2>2, <2>3 DEF AtEmbedder
<1>18. CASE WriteState(p)
  <2>1. /\ pc[p] = "walk" /\ pc'[p] = "idle" /\ stateFile' = st[p] /\ rows' = rows
    BY <1>18 DEF WriteState, TypeOK, dbVars
  <2>2. \A d \in Docs : Fits(rows, st[p][d], d)
    BY <1>1, <1>5, <2>1 DEF Worked, Doing, Placed
  <2>3. \A q \in Procs \ {p} : Worked(q)'
    BY <1>1, <1>4, <2>1 DEF Same, Worked, Doing, Syncing
  <2> QED BY <2>1, <2>2, <2>3 DEF Worked, Syncing, Known, Goal
<1>19. ASSUME Syncing(p), Syncing(p)', touched'[p], Worked(p)'
       PROVE  Goal
  <2>1. \A q \in Procs \ {p} : ~Syncing(q)'
    BY <1>4, <1>5, <1>19, TheSyncer DEF Same, Syncing, Placed
  <2> QED BY <1>19, <2>1 DEF Worked, Known, Goal
<1>20. CASE DropRow(p)
  <2> DEFINE d == job[p].owner
             k == st[p][d].id
  <2>1. /\ pc[p] = "drop" /\ Syncing(p) /\ d \in Docs /\ st[p][d].text # Absent
        /\ rows' = [i \in Live \ {k} |-> rows[i]]
        /\ cmd' = cmd /\ touched'[p]
    BY <1>5, <1>20 DEF DropRow, Store, Placed, TypeOK
  <2>2. \A c \in Docs : Fits(rows, st[p][c], c)
    BY <1>1, <2>1 DEF Worked
  <2>3. Of(rows, d) = {k}
    BY <2>1, <2>2 DEF Fits
  <2>4. Of(rows', d) = {} /\ \A c : c # d => Kept(rows, rows', c)
    BY <2>1, <2>3, DropOne
  <2>5. \A c \in Docs : c # d => Fits(rows', st[p][c], c)
    BY <2>2, <2>4, KeptFits
  <2>6. CASE job[p].text = Absent
    <3>1. /\ st'[p] = [st[p] EXCEPT ![d] = NoEntry] /\ pc'[p] = "walk"
          /\ st[p] \in [Docs -> Entries]
      BY <1>20, <2>6 DEF DropRow, Record, TypeOK
    <3>2. \A c \in Docs : Fits(rows', st'[p][c], c)
      <4>1. Fits(rows', st'[p][d], d)
        <5>1. st'[p][d] = NoEntry
          BY <2>1, <3>1
        <5>2. NoEntry.text = Absent /\ Of(rows', d) = {}
          BY <2>4 DEF NoEntry
        <5> QED BY <5>1, <5>2 DEF Fits
      <4>2. \A c \in Docs : c # d => st'[p][c] = st[p][c]
        BY <3>1
      <4> QED BY <2>5, <4>1, <4>2
    <3>3. Worked(p)' /\ Syncing(p)'
      BY <2>1, <3>1, <3>2 DEF Worked, Doing, Syncing
    <3> QED BY <1>19, <2>1, <3>3
  <2>7. CASE job[p].text # Absent
    <3>1. UNCHANGED <<st, job>> /\ pc'[p] = "embed"
      BY <1>20, <2>7 DEF DropRow, TypeOK
    <3>2. Worked(p)' /\ Syncing(p)'
      BY <2>1, <2>4, <2>5, <3>1 DEF Worked, Doing, Syncing
    <3> QED BY <1>19, <2>1, <3>2
  <2> QED BY <2>6, <2>7
<1>21. CASE SaveDoc(p)
  <2> DEFINE d == job[p].owner
  <2>1. /\ pc[p] = "save" /\ Syncing(p) /\ d \in Docs
        /\ job[p].text # Absent /\ job[p].vec.text = job[p].text
        /\ cmd' = cmd /\ touched'[p] /\ pc'[p] = "walk"
    BY <1>5, <1>21 DEF SaveDoc, Store, Placed, Syncing, TypeOK
  <2>2. nextId \notin Live
    BY DEF TypeOK
  <2>3. /\ Of(rows', d) = Of(rows, d) \cup {nextId} /\ rows'[nextId].vec = job[p].vec
        /\ \A c : c # d => Kept(rows, rows', c)
    BY <1>21, <2>2, InsertOne DEF SaveDoc
  <2>4. Of(rows, d) = {} /\ \A c \in Docs : c # d => Fits(rows, st[p][c], c)
    BY <1>1, <2>1 DEF Worked, Doing
  <2>5. /\ st'[p] = [st[p] EXCEPT ![d] = [text |-> job[p].text, id |-> nextId]]
        /\ st[p] \in [Docs -> Entries]
    BY <1>21 DEF SaveDoc, Record, TypeOK
  <2>6. \A c \in Docs : c # d => Fits(rows', st'[p][c], c)
    BY <2>3, <2>4, <2>5, KeptFits
  <2>7. Fits(rows', st'[p][d], d)
    BY <2>1, <2>3, <2>4, <2>5 DEF Fits
  <2>8. Worked(p)' /\ Syncing(p)'
    BY <2>1, <2>6, <2>7 DEF Worked, Doing, Syncing
  <2> QED BY <1>19, <2>1, <2>8
<1> QED BY <1>8, <1>9, <1>10, <1>11, <1>12, <1>13, <1>14, <1>16, <1>17, <1>18, <1>20, <1>21
        DEF ByItself, Step, Start, Migrates

(* While nothing was edited since a sync began, the state it carries has the
   texts of the documents it has visited; and after it, so has the file. *)
Fresh ==
    /\ last = "running" =>
        \A p \in Procs : Syncing(p) => \A d \in Docs \ todo[p] :
            disk[d] = IF Doing(p, d) THEN job[p].text ELSE st[p][d].text
    /\ last = "clean" =>
        (\A p \in Procs : ~Syncing(p)) /\ \A d \in Docs : stateFile[d].text = disk[d]
FreshInv == OneSyncer => Fresh

LEMMA RestStaysFresh ==
    ASSUME Fresh, UNCHANGED <<disk, stateFile, last>>, \A q \in Procs : Same(q) \/ ~Syncing(q)'
    PROVE  Fresh'
  BY DEF Fresh, Same, Syncing, Doing

LEMMA FreshStep == TypeOK /\ CacheMade /\ PlaceInv /\ FreshInv /\ [Next]_vars => FreshInv'
<1> SUFFICES ASSUME TypeOK, CacheMade, PlaceInv, FreshInv, [Next]_vars, OneSyncer
             PROVE  Fresh'
  BY DEF FreshInv, OneSyncer, Syncers
<1>0. Fresh
  BY DEF FreshInv
<1>1. ASSUME last' = "dirty"
      PROVE  Fresh'
  BY <1>1 DEF Fresh
<1>2. CASE UNCHANGED vars
  <2>1. UNCHANGED <<disk, stateFile, last>> /\ \A q \in Procs : Same(q)
    BY <1>2 DEF vars, worldVars, fileVars, procVars, runVars, Same
  <2> QED BY <1>0, <2>1, RestStaysFresh
<1>3. CASE World
  <2>1. \/ last' = "dirty"
        \/ UNCHANGED <<disk, stateFile, last>> /\ \A q \in Procs : Same(q)
    BY <1>3 DEF World, Edit, Switch, DropTable, DeleteCache, GoDown, ComeUp, Lose, worldVars, fileVars,
                procVars, runVars, Same
  <2> QED BY <1>0, <1>1, <2>1, RestStaysFresh
<1> SUFFICES ASSUME NEW p \in Procs, ByItself(p) PROVE Fresh'
  BY <1>2, <1>3 DEF Next, ByItself
<1>4. \A q \in Procs \ {p} : Same(q)
  BY OthersSame
<1>5. Placed(p)
  BY DEF PlaceInv
<1>6. ASSUME UNCHANGED <<disk, stateFile, last>>, Same(p) \/ ~Syncing(p)'
      PROVE  Fresh'
  BY <1>0, <1>4, <1>6, RestStaysFresh
<1>7. ASSUME Gone(p) \/ Fails(p), UNCHANGED <<disk, stateFile>>
      PROVE  Fresh'
  <2>1. ~Syncing(p)'
    BY <1>7, GonePlaced DEF Syncing
  <2>2. last' = "dirty" \/ last' = last
    BY <1>7 DEF Gone, Fails, NextTurn, runVars
  <2> QED BY <1>1, <1>6, <1>7, <2>1, <2>2
<1>8. CASE Quit(p) \/ Kill(p) \/ EmbedRefused(p) \/ EmbedFails(p) \/ StoreError(p)
  BY <1>7, <1>8 DEF Quit, Kill, EmbedRefused, EmbedFails, StoreError, worldVars, fileVars
<1>9. CASE PutFails(p)
  <2>1. UNCHANGED <<disk, stateFile>>
    BY <1>9 DEF PutFails, worldVars
  <2>2. CASE Gone(p)
    BY <1>7, <2>1, <2>2
  <2>3. CASE ~Gone(p)
    <3>1. cmd[p] = "chat" /\ cmd' = cmd /\ last' = last
      BY <1>9, <2>3 DEF PutFails, NextTurn, runVars
    <3> QED BY <1>6, <2>1, <3>1 DEF Syncing
  <2> QED BY <2>2, <2>3
<1>10. CASE (\E t \in Texts : AddNote(p, t)) \/ Chat(p)
  <2>1. UNCHANGED <<disk, stateFile, last>> /\ cmd'[p] # "sync"
    BY <1>10 DEF AddNote, Chat, Begin, TypeOK, worldVars, fileVars
  <2> QED BY <1>6, <2>1 DEF Syncing
<1>11. CASE (\E t \in Queries : Turn(p, t)) \/ Query(p) \/ \E t \in Texts : QueryAndRemember(p, t)
  <2>1. UNCHANGED <<disk, stateFile, last>> /\ cmd' = cmd /\ pc[p] \in {"open", "query"}
    BY <1>11 DEF Turn, Query, NextTurn, QueryAndRemember, Store, worldVars, fileVars, runVars
  <2>2. cmd[p] # "sync"
    BY <1>5, <2>1 DEF Placed, Syncing
  <2> QED BY <1>6, <2>1, <2>2 DEF Syncing
<1>12. CASE Migrates(p)
  <2>1. UNCHANGED <<disk, stateFile, last>>
    BY <1>12 DEF Migrates, Guard, CreateTable, ExtendTable, MigrateFails, Ready, worldVars, fileVars,
                 runVars
  <2> QED BY <1>6, <1>12, <2>1, MigratesSame
<1>13. CASE SaveNote(p)
  <2>1. UNCHANGED <<disk, stateFile, last>> /\ (pc'[p] = "idle" \/ cmd'[p] # "sync")
    BY <1>13 DEF SaveNote, Added, NextTurn, TypeOK, worldVars, fileVars, runVars
  <2> QED BY <1>6, <2>1 DEF Syncing
<1>14. CASE Sync(p)
  <2>1. /\ p \in Syncers /\ todo'[p] = Docs /\ last' \in {"dirty", "running"}
    BY <1>14 DEF Sync, Begin, Syncers, TypeOK
  <2>2. \A q \in Procs \ {p} : ~Syncing(q)'
    BY <1>4, <2>1, TheSyncer DEF Same, Syncing
  <2> QED BY <2>1, <2>2 DEF Fresh
<1>15. ASSUME UNCHANGED <<disk, stateFile, last>>, Syncing(p),
              \A d \in Docs \ todo'[p] :
                  last = "running" =>
                      disk[d] = IF Doing(p, d)' THEN job'[p].text ELSE st'[p][d].text
       PROVE  Fresh'
  BY <1>0, <1>4, <1>15 DEF Fresh, Same, Syncing, Doing
<1>16. ASSUME NEW d \in Docs, Visit(p, d)
       PROVE  Fresh'
  <2>1. /\ pc[p] = "walk" /\ UNCHANGED <<disk, stateFile, last, st>> /\ todo'[p] = todo[p] \ {d}
        /\ st[p][d].text # disk[d] => job'[p] = Task(d, disk[d])
        /\ pc'[p] = IF st[p][d].text = disk[d] THEN "walk"
                    ELSE IF st[p][d].text # Absent THEN "drop" ELSE "embed"
    BY <1>16 DEF Visit, TypeOK, worldVars, fileVars, runVars
  <2>2. Syncing(p)
    BY <1>5, <2>1 DEF Placed
  <2>3. ASSUME last = "running", NEW c \in Docs \ todo'[p]
        PROVE  disk[c] = IF Doing(p, c)' THEN job'[p].text ELSE st'[p][c].text
    BY <1>0, <2>1, <2>2, <2>3 DEF Fresh, Doing, Task
  <2> QED BY <1>15, <2>1, <2>2, <2>3
<1>17. CASE EmbedHit(p) \/ EmbedMiss(p)
  <2>1. UNCHANGED <<disk, stateFile, last, cmd, st, todo>>
    BY <1>17 DEF EmbedHit, EmbedMiss, worldVars, fileVars, runVars
  <2>2. /\ AtEmbedder(p) /\ job'[p].owner = job[p].owner /\ job'[p].text = job[p].text
        /\ pc'[p] = IF pc[p] = "embed" THEN "save" ELSE "query"
    BY <1>17, EmbeddedPlaced
  <2>3. CASE Syncing(p)
    BY <1>0, <1>5, <1>15, <2>1, <2>2, <2>3 DEF AtEmbedder, Placed, Fresh, Doing, Syncing
  <2>4. CASE ~Syncing(p)
    BY <1>6, <2>1, <2>2, <2>4 DEF AtEmbedder, Syncing
  <2> QED BY <2>3, <2>4
<1>18. CASE WriteState(p)
  <2>1. /\ pc[p] = "walk" /\ pc'[p] = "idle" /\ stateFile' = st[p] /\ disk' = disk /\ todo[p] = {}
        /\ last' = IF last = "running" THEN "clean" ELSE last
    BY <1>18 DEF WriteState, TypeOK, worldVars
  <2>2. Syncing(p) /\ p \in Syncers
    BY <1>5, <2>1 DEF Placed
  <2>3. \A q \in Procs : ~Syncing(q)'
    BY <1>4, <2>1, <2>2, TheSyncer DEF Same, Syncing
  <2>4. last = "running" => \A d \in Docs : st[p][d].text = disk[d]
    BY <1>0, <2>1, <2>2 DEF Fresh, Doing
  <2>5. last \in {"dirty", "running"}
    BY <1>0, <2>2 DEF Fresh, TypeOK
  <2> QED BY <2>1, <2>3, <2>4, <2>5 DEF Fresh
<1>19. CASE DropRow(p)
  <2> DEFINE d == job[p].owner
  <2>1. /\ pc[p] = "drop" /\ Syncing(p) /\ d \in Docs
        /\ UNCHANGED <<disk, stateFile, last, cmd, todo>> /\ st[p] \in [Docs -> Entries]
    BY <1>5, <1>19 DEF DropRow, Store, Placed, TypeOK, worldVars, fileVars, runVars
  <2>2. last = "running" => \A c \in Docs \ todo[p] :
            disk[c] = IF c = d THEN job[p].text ELSE st[p][c].text
    BY <1>0, <2>1 DEF Fresh, Doing
  <2>3. CASE job[p].text = Absent
    <3>1. st'[p] = [st[p] EXCEPT ![d] = NoEntry] /\ pc'[p] = "walk"
      BY <1>19, <2>3 DEF DropRow, Record, TypeOK
    <3> QED BY <1>15, <2>1, <2>2, <2>3, <3>1 DEF Doing, NoEntry
  <2>4. CASE job[p].text # Absent
    <3>1. UNCHANGED <<st, job>> /\ pc'[p] = "embed"
      BY <1>19, <2>4 DEF DropRow, TypeOK
    <3> QED BY <1>15, <2>1, <2>2, <3>1 DEF Doing
  <2> QED BY <2>3, <2>4
<1>20. CASE SaveDoc(p)
  <2> DEFINE d == job[p].owner
  <2>1. /\ pc[p] = "save" /\ Syncing(p) /\ d \in Docs /\ pc'[p] = "walk"
        /\ UNCHANGED <<disk, stateFile, last, todo>>
        /\ st'[p] = [st[p] EXCEPT ![d] = [text |-> job[p].text, id |-> nextId]]
        /\ st[p] \in [Docs -> Entries]
    BY <1>5, <1>20 DEF SaveDoc, Store, Record, Placed, Syncing, TypeOK, worldVars, fileVars, runVars
  <2>2. last = "running" => \A c \in Docs \ todo[p] :
            disk[c] = IF c = d THEN job[p].text ELSE st[p][c].text
    BY <1>0, <2>1 DEF Fresh, Doing
  <2> QED BY <1>15, <2>1, <2>2 DEF Doing
<1> QED BY <1>8, <1>9, <1>10, <1>11, <1>12, <1>13, <1>14, <1>16, <1>17, <1>18, <1>19, <1>20
        DEF ByItself, Step, Start, Migrates

(* A sync that finds nothing else going on leaves exactly one row per document,
   with its text, however often the database, the migration, the embedder or
   the cache failed it or other commands before, as long as no sync was cut off
   between its first change to the table and the state file. *)
THEOREM CleanSyncLeavesAMirror == Spec => []CleanSyncMirrors
<1>1. Init => RowsInv /\ FreshInv
  <2> SUFFICES ASSUME Init PROVE RowsInv /\ FreshInv
    OBVIOUS
  <2>1. \A d \in Docs : Fits(rows, stateFile[d], d)
    BY DEF Init, NoRows, Unsynced, NoEntry, Fits, Of
  <2>2. (\A p \in Procs : ~Syncing(p)) /\ last = "dirty"
    BY DEF Init, Syncing
  <2> QED BY <2>1, <2>2 DEF RowsInv, Worked, Known, FreshInv, Fresh
<1>2. TypeOK /\ RowsInv /\ FreshInv => CleanSyncMirrors
  <2> SUFFICES ASSUME RowsInv, FreshInv, OneSyncer, last = "clean", lost = {}, ~torn, NEW d \in Docs
               PROVE  IF disk[d] = Absent THEN Rows(d) = {}
                      ELSE \E i \in Live : Rows(d) = {i} /\ Current(d) = {i}
    BY DEF CleanSyncMirrors
  <2>1. Fits(rows, stateFile[d], d) /\ stateFile[d].text = disk[d]
    BY DEF RowsInv, FreshInv, Fresh, Known
  <2>2. Rows(d) = Of(rows, d)
    BY DEF Rows, Of, Live
  <2>3. CASE disk[d] = Absent
    BY <2>1, <2>2, <2>3 DEF Fits
  <2>4. CASE disk[d] # Absent
    <3> DEFINE i == stateFile[d].id
    <3>1. Rows(d) = {i} /\ rows[i].vec.text = disk[d]
      BY <2>1, <2>2, <2>4 DEF Fits
    <3>2. i \in Live /\ Current(d) = {i}
      BY <3>1 DEF Rows, Current
    <3> QED BY <2>4, <3>1, <3>2
  <2> QED BY <2>3, <2>4
<1> QED BY <1>1, <1>2, RowsStep, FreshStep, TypeCorrect, CacheInvariant, PlaceInvariant, PTL DEF Spec
=============================================================================
