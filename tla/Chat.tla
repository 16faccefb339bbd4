-------------------------------- MODULE Chat --------------------------------
(***************************************************************************)
(* `ai chat` and its sessions (internal/chat, internal/session, and the    *)
(* session commands of cmd/ai).                                            *)
(*                                                                         *)
(* A chat is a process: it opens a new or an existing session, takes the   *)
(* user's messages one at a time, sends each to a provider with the recent *)
(* history, and appends question and answer to the record of the session,  *)
(* which it saves as a whole (temporary file and rename).  Any number of   *)
(* chats may run, also on the same session; each can fail or be killed at  *)
(* every step.  A message is abstracted to the number of the user's        *)
(* message it is or answers.                                               *)
(***************************************************************************)
EXTENDS Integers, SequencesExt

CONSTANTS
    Chats,      \* processes running `ai chat`
    Sessions,   \* ids session.New can mint
    Providers,  \* registered providers
    Executors,  \* those that implement provider.Executor
    NoOne,      \* no provider, no session
    Window,     \* historyWindow
    SaveChat,   \* the workspace's SaveChatMemory()
    MaxAsked,   \* bound: messages of the user
    MaxStarts,  \* bound: chats started
    MaxCommands,\* bound: /reset, /use, /remember and `ai session rm`
    MaxFaults   \* bound: errors of the file system and crashes

ASSUME ChatAssumption ==
    /\ Executors \subseteq Providers
    /\ SaveChat \in BOOLEAN
    /\ NoOne \notin Providers \cup Sessions
    /\ {Window, MaxAsked, MaxStarts, MaxCommands, MaxFaults} \subseteq Nat
    /\ Window % 2 = 0       \* whole exchanges; 20 in the code

VARIABLES
    live,       \* the file of each session: [text, rec]
    tmp,        \* its temporary file, one name for all processes
    fd,         \* file a chat has open: "none", the one called "tmp" or
                \* "live", or one with no name any more ("gone")
    pc,         \* where each chat is
    on,         \* session each chat is on
    rec,        \* s.record
    history,    \* s.history
    active,     \* s.provider
    save,       \* s.saveMemory
    cur,        \* the turn in progress: message and provider
    prompt,     \* the history in the prompt being answered
    memories,   \* the memory store: messages remembered
    minted,     \* history: ids used
    by,         \* history: provider that answered each message
    shared,     \* history: sessions that two chats were ever on together
    unsaved,    \* history: chats whose last save failed
    cleared,    \* history: length of the record at the last /reset
    asked, starts, commands, faults

vars == <<live, tmp, fd, pc, on, rec, history, active, save, cur, prompt,
          memories, minted, by, shared, unsaved, cleared, asked, starts, commands, faults>>

diskVars == <<live, tmp, fd>>
talkVars == <<rec, history, active, save, prompt, cleared>>
histVars == <<minted, by, shared>>
bounds == <<asked, starts, commands, faults>>

-----------------------------------------------------------------------------
(* session.Message: a question, or the answer of a provider. *)
Messages == [role : {"user"}, provider : {NoOne}, turn : 1..MaxAsked]
            \cup [role : {"assistant"}, provider : Providers, turn : 1..MaxAsked]
Question(n) == [role |-> "user", provider |-> NoOne, turn |-> n]
Answer(n, p) == [role |-> "assistant", provider |-> p, turn |-> n]

(* chat.message: the label in the prompt is "User" or "Assistant (<provider>)";
   displayRole computes the same labels for the messages of a record. *)
Label(m) == [role |-> IF m.role = "assistant" THEN m.provider ELSE "User", turn |-> m.turn]
Labels(ms) == [i \in DOMAIN ms |-> Label(ms[i])]

(* session.Record: backend is ProviderSession, an id of the backend being
   abstracted to the turn it came with; 0 is none. *)
Records == [messages : Seq(Messages), provider : Providers \cup {NoOne}, backend : 0..MaxAsked]
NewRecord(p) == [messages |-> << >>, provider |-> p, backend |-> 0]
NoRecord == NewRecord(NoOne)

Texts == {"missing", "empty", "whole", "garbled"}
Missing == [text |-> "missing", rec |-> NoRecord]
EmptyFile == [text |-> "empty", rec |-> NoRecord]
Garbled == [text |-> "garbled", rec |-> NoRecord]
Whole(r) == [text |-> "whole", rec |-> r]

NoTurn == [turn |-> 0, provider |-> NoOne]

Recent(h) == IF Len(h) <= Window THEN h ELSE SubSeq(h, Len(h) - Window + 1, Len(h))

Init ==
    /\ live = [i \in Sessions |-> Missing]
    /\ tmp = [i \in Sessions |-> Missing]
    /\ fd = [c \in Chats |-> "none"]
    /\ pc = [c \in Chats |-> "off"]
    /\ on = [c \in Chats |-> NoOne]
    /\ rec = [c \in Chats |-> NoRecord]
    /\ history = [c \in Chats |-> << >>]
    /\ active = [c \in Chats |-> NoOne]
    /\ save = [c \in Chats |-> FALSE]
    /\ cur = [c \in Chats |-> NoTurn]
    /\ prompt = [c \in Chats |-> << >>]
    /\ memories = {}
    /\ minted = {}
    /\ by = [n \in 1..MaxAsked |-> NoOne]
    /\ shared = {}
    /\ unsaved = {}
    /\ cleared = [c \in Chats |-> 0]
    /\ asked = 0
    /\ starts = 0
    /\ commands = 0
    /\ faults = 0

-----------------------------------------------------------------------------
(* Starting and ending a chat. *)

(* Persist, and New with the provider of the agent or of --provider. *)
Start(c, i, r, p) ==
    /\ pc[c] = "off"
    /\ starts < MaxStarts
    /\ starts' = starts + 1
    /\ on' = [on EXCEPT ![c] = i]
    /\ rec' = [rec EXCEPT ![c] = r]
    /\ history' = [history EXCEPT ![c] = Labels(r.messages)]
    /\ active' = [active EXCEPT ![c] = p]
    /\ save' = [save EXCEPT ![c] = SaveChat]
    /\ pc' = [pc EXCEPT ![c] = "ready"]
    /\ shared' = shared \cup {j \in {i} : \E d \in Chats : on[d] = j}
    /\ UNCHANGED <<diskVars, cur, prompt, memories, by, unsaved, cleared,
                   asked, commands, faults>>

(* Mutant: the id is not taken over. *)
StartNewNoId(c, i, p) ==
    /\ i \notin minted
    /\ minted' = minted \cup {i}
    /\ Start(c, NoOne, NewRecord(p), p)

(* session.New: nothing is written before the first turn is saved. *)
StartNew(c, i, p) ==
    /\ i \notin minted
    /\ minted' = minted \cup {i}
    /\ Start(c, i, NewRecord(p), p)

(* --resume, or --session with a name in use.  Which record a name or a prefix
   stands for is left open; the file must parse. *)
Resume(c, i, p) ==
    /\ live[i].text = "whole"
    /\ Start(c, i, live[i].rec, p)
    /\ UNCHANGED minted

Stop(c) ==
    /\ fd' = [fd EXCEPT ![c] = "none"]
    /\ pc' = [pc EXCEPT ![c] = "off"]
    /\ on' = [on EXCEPT ![c] = NoOne]
    /\ rec' = [rec EXCEPT ![c] = NoRecord]
    /\ history' = [history EXCEPT ![c] = << >>]
    /\ active' = [active EXCEPT ![c] = NoOne]
    /\ save' = [save EXCEPT ![c] = FALSE]
    /\ cur' = [cur EXCEPT ![c] = NoTurn]
    /\ prompt' = [prompt EXCEPT ![c] = << >>]
    /\ unsaved' = unsaved \ {c}
    /\ cleared' = [cleared EXCEPT ![c] = 0]
    /\ UNCHANGED <<live, tmp, memories, histVars, asked, starts, commands>>

(* /exit or end of input. *)
Exit(c) == pc[c] = "ready" /\ Stop(c) /\ UNCHANGED faults

(* The process is killed, wherever it is. *)
Crash(c) ==
    /\ pc[c] # "off"
    /\ faults < MaxFaults
    /\ faults' = faults + 1
    /\ Stop(c)

-----------------------------------------------------------------------------
(* One turn. *)

(* A message, for the active provider or, as `/<provider> <msg>`, for another. *)
Ask(c, p) ==
    /\ pc[c] = "ready"
    /\ asked < MaxAsked
    /\ asked' = asked + 1
    /\ cur' = [cur EXCEPT ![c] = [turn |-> asked + 1, provider |-> p]]
    /\ pc' = [pc EXCEPT ![c] = "build"]
    /\ UNCHANGED <<diskVars, on, talkVars, memories, histVars, unsaved,
                   starts, commands, faults>>

(* Build and assemble: the prompt is on its way to the provider. *)
Send(c) ==
    /\ pc[c] = "build"
    /\ prompt' = [prompt EXCEPT ![c] = Recent(history[c])]
    /\ pc' = [pc EXCEPT ![c] = "wait"]
    /\ UNCHANGED <<diskVars, on, rec, history, active, save, cleared, cur,
                   memories, histVars, unsaved, bounds>>

(* Mutant: the question is added to the history before it is answered. *)
TurnFailsAfterAdding(c) ==
    /\ pc[c] \in {"build", "wait"}
    /\ history' = [history EXCEPT ![c] = Append(@, Label(Question(cur[c].turn)))]
    /\ cur' = [cur EXCEPT ![c] = NoTurn]
    /\ prompt' = [prompt EXCEPT ![c] = << >>]
    /\ pc' = [pc EXCEPT ![c] = "ready"]
    /\ UNCHANGED <<diskVars, on, rec, active, save, cleared, memories, histVars, unsaved, bounds>>

(* The memory search, the lookup of the provider, or the provider fails: turn
   returns the error. *)
TurnFails(c) ==
    /\ pc[c] \in {"build", "wait"}
    /\ cur' = [cur EXCEPT ![c] = NoTurn]
    /\ prompt' = [prompt EXCEPT ![c] = << >>]
    /\ pc' = [pc EXCEPT ![c] = "ready"]
    /\ UNCHANGED <<diskVars, on, rec, history, active, save, cleared,
                   memories, histVars, unsaved, bounds>>

(* The provider answers; an executor may report the id of its session. *)
Reply(c) ==
    LET n == cur[c].turn
        p == cur[c].provider
    IN
    /\ pc[c] = "wait"
    /\ \/ UNCHANGED rec
       \/ p \in Executors /\ rec' = [rec EXCEPT ![c].backend = n]
    /\ history' = [history EXCEPT ![c] = @ \o Labels(<<Question(n), Answer(n, p)>>)]
    /\ by' = [by EXCEPT ![n] = p]
    /\ prompt' = [prompt EXCEPT ![c] = << >>]
    /\ pc' = [pc EXCEPT ![c] = "remember"]
    /\ UNCHANGED <<diskVars, on, active, save, cleared, cur, memories,
                   minted, shared, unsaved, bounds>>

Persist(c, p, next) ==
    LET n == cur[c].turn IN
    /\ pc[c] = "remember"
    /\ \/ UNCHANGED memories
       \/ save[c] /\ memories' = memories \cup {n}
    /\ rec' = [rec EXCEPT ![c].messages = @ \o <<Question(n), Answer(n, p)>>,
                          ![c].provider = active[c]]
    /\ pc' = [pc EXCEPT ![c] = next]
    /\ UNCHANGED <<diskVars, on, history, active, save, prompt, cleared, cur,
                   histVars, unsaved, bounds>>

(* Mutants: the answer is filed under the active provider; a turn that is not
   remembered is not saved either. *)
RememberAsActive(c) == Persist(c, active[c], "create")
RememberOrReturn(c) == Persist(c, cur[c].provider, IF save[c] THEN "create" ELSE "ready")

(* remember: nothing is stored when it is off, when the answer is blank or
   when the store fails, and no one is told; then persistTurn extends the
   record. *)
Remember(c) == Persist(c, cur[c].provider, "create")

(* FileStore.Save, os.WriteFile: open the temporary file, or truncate it ... *)
CreateTmp(c) ==
    /\ pc[c] = "create"
    /\ tmp' = [tmp EXCEPT ![on[c]] = EmptyFile]
    /\ fd' = [fd EXCEPT ![c] = "tmp"]
    /\ pc' = [pc EXCEPT ![c] = "write"]
    /\ UNCHANGED <<live, on, talkVars, cur, memories, histVars, unsaved, bounds>>

(* ... write it: what is left of the text of another chat may make it
   unreadable ... *)
Written(f, r) == {Whole(r)} \cup IF f.text = "empty" THEN {} ELSE {Garbled}

WriteTmp(c) ==
    LET i == on[c] IN
    /\ pc[c] = "write"
    /\ \/ /\ fd[c] = "tmp"
          /\ \E f \in Written(tmp[i], rec[c]) : tmp' = [tmp EXCEPT ![i] = f]
          /\ UNCHANGED live
       \/ /\ fd[c] = "live"
          /\ \E f \in Written(live[i], rec[c]) : live' = [live EXCEPT ![i] = f]
          /\ UNCHANGED tmp
       \/ fd[c] = "gone" /\ UNCHANGED <<live, tmp>>
    /\ fd' = [fd EXCEPT ![c] = "none"]
    /\ pc' = [pc EXCEPT ![c] = "rename"]
    /\ UNCHANGED <<on, talkVars, cur, memories, histVars, unsaved, bounds>>

(* A name is given to another file, or removed: what the chats on i have open. *)
Unlinked(i, names) == [d \in Chats |-> IF on[d] = i /\ fd[d] \in DOMAIN names
                                       THEN names[fd[d]] ELSE fd[d]]

TurnEnds(c) ==
    /\ cur' = [cur EXCEPT ![c] = NoTurn]
    /\ pc' = [pc EXCEPT ![c] = "ready"]
    /\ UNCHANGED <<on, talkVars, memories, histVars>>

(* ... and rename it. *)
Rename(c) ==
    LET i == on[c] IN
    /\ pc[c] = "rename"
    /\ tmp[i].text # "missing"
    /\ live' = [live EXCEPT ![i] = tmp[i]]
    /\ tmp' = [tmp EXCEPT ![i] = Missing]
    /\ fd' = Unlinked(i, [tmp |-> "live", live |-> "gone"])
    /\ unsaved' = unsaved \ {c}
    /\ TurnEnds(c)
    /\ UNCHANGED bounds

(* The save fails: the user is warned, and the chat goes on. *)
SaveFails(c) ==
    /\ \/ /\ pc[c] \in {"create", "write", "rename"}
          /\ faults < MaxFaults
          /\ faults' = faults + 1
       \/ /\ pc[c] = "rename"
          /\ tmp[on[c]].text = "missing"
          /\ UNCHANGED faults
    /\ fd' = [fd EXCEPT ![c] = "none"]
    /\ unsaved' = unsaved \cup {c}
    /\ TurnEnds(c)
    /\ UNCHANGED <<live, tmp, asked, starts, commands>>

-----------------------------------------------------------------------------
(* Commands. *)

Command(c) ==
    /\ pc[c] = "ready"
    /\ commands < MaxCommands
    /\ commands' = commands + 1
    /\ UNCHANGED <<diskVars, pc, on, rec, cur, prompt, memories, histVars,
                   unsaved, asked, starts, faults>>

(* Mutant: /reset clears the record as well. *)
ResetRecord(c) ==
    /\ pc[c] = "ready"
    /\ commands < MaxCommands
    /\ commands' = commands + 1
    /\ history' = [history EXCEPT ![c] = << >>]
    /\ rec' = [rec EXCEPT ![c].messages = << >>]
    /\ UNCHANGED <<diskVars, pc, on, cur, prompt, active, save, cleared, memories, histVars,
                   unsaved, asked, starts, faults>>

Reset(c) ==
    /\ Command(c)
    /\ history' = [history EXCEPT ![c] = << >>]
    /\ cleared' = [cleared EXCEPT ![c] = Len(rec[c].messages)]
    /\ UNCHANGED <<active, save>>

SwitchProvider(c, p) ==
    /\ Command(c)
    /\ active' = [active EXCEPT ![c] = p]
    /\ UNCHANGED <<history, save, cleared>>

ToggleSave(c) ==
    /\ Command(c)
    /\ save' = [save EXCEPT ![c] = ~@]
    /\ UNCHANGED <<history, active, cleared>>

(* `ai session rm`, from another terminal. *)
RemoveSession(i) ==
    /\ commands < MaxCommands
    /\ commands' = commands + 1
    /\ live[i].text = "whole"
    /\ live' = [live EXCEPT ![i] = Missing]
    /\ fd' = Unlinked(i, [live |-> "gone"])
    /\ UNCHANGED <<tmp, pc, on, talkVars, cur, memories, histVars, unsaved,
                   asked, starts, faults>>

Turn(c) ==
    \/ \E p \in Providers : Ask(c, p)
    \/ Send(c)
    \/ TurnFails(c)
    \/ Reply(c)
    \/ Remember(c)
    \/ CreateTmp(c)
    \/ WriteTmp(c)
    \/ Rename(c)
    \/ SaveFails(c)

Next ==
    \/ \E c \in Chats :
         \/ \E i \in Sessions, p \in Providers :
              StartNew(c, i, p) \/ Resume(c, i, p)
         \/ Turn(c)
         \/ Reset(c)
         \/ \E p \in Providers \ {active[c]} : SwitchProvider(c, p)
         \/ ToggleSave(c)
         \/ Exit(c)
         \/ Crash(c)
    \/ \E i \in Sessions : RemoveSession(i)

Spec == Init /\ [][Next]_vars

-----------------------------------------------------------------------------
(* Properties. *)

TypeOK ==
    /\ live \in [Sessions -> [text : Texts, rec : Records]]
    /\ tmp \in [Sessions -> [text : Texts, rec : Records]]
    /\ fd \in [Chats -> {"none", "tmp", "live", "gone"}]
    /\ pc \in [Chats -> {"off", "ready", "build", "wait", "remember",
                         "create", "write", "rename"}]
    /\ on \in [Chats -> Sessions \cup {NoOne}]
    /\ rec \in [Chats -> Records]
    /\ history \in [Chats -> Seq([role : Providers \cup {"User"}, turn : 1..MaxAsked])]
    /\ active \in [Chats -> Providers \cup {NoOne}]
    /\ save \in [Chats -> BOOLEAN]
    /\ cur \in [Chats -> [turn : 0..MaxAsked, provider : Providers \cup {NoOne}]]
    /\ memories \subseteq 1..MaxAsked
    /\ \A c \in Chats : pc[c] # "off" => on[c] \in Sessions

(* A transcript of whole exchanges, each question before its answer, in the
   order they were asked, each answer under the name of the provider that gave
   it, and no trace of a turn that failed. *)
Faithful(ms) ==
    \A k \in 1..Len(ms) :
        LET n == ms[k].turn IN
        IF k % 2 = 1
        THEN /\ ms[k] = Question(n) /\ by[n] # NoOne
             /\ k < Len(ms) /\ ms[k + 1] = Answer(n, by[n])
        ELSE k < Len(ms) => n < ms[k + 1].turn

(* Every session file that can be read at all holds such a transcript, also
   when chats share a session, fail to save or crash half way. *)
TranscriptsFaithful ==
    \A i \in Sessions : live[i].text = "whole" => Faithful(live[i].rec.messages)

(* A chat that is alone on its session and has saved its last turn has the
   session on disk exactly as in memory - a failed save is made good by the
   next one - unless the file was removed. *)
SavedIsCurrent ==
    \A c \in Chats :
        LET i == on[c] IN
        pc[c] \in {"ready", "build"} /\ i \notin shared /\ c \notin unsaved =>
            live[i].text = "missing" \/ live[i] = Whole(rec[c])

(* What a chat replays is what the record says since the last /reset: the
   history in memory and the transcript that a later chat would resume never
   drift apart, and a prompt is always the end of it, in whole exchanges. *)
HistoryIsRecord ==
    \A c \in Chats :
        pc[c] \in {"ready", "build", "wait"} =>
            LET h == SubSeq(Labels(rec[c].messages), cleared[c] + 1, Len(rec[c].messages)) IN
            /\ history[c] = h
            /\ pc[c] = "wait" => /\ IsSuffix(prompt[c], h)
                                 /\ Len(prompt[c]) = Window \/ prompt[c] = h
                                 /\ prompt[c] # << >> => prompt[c][1].role = "User"

(* A session that was never shared only ever grows: no crash, failed save or
   resume loses an exchange that a save has put on disk; only `ai session rm`
   removes them. *)
OnlyGrows ==
    \A i \in Sessions \ shared' :
        live[i].text = "whole" =>
            \/ live'[i] = Missing /\ commands' = commands + 1
            \/ /\ live'[i].text = "whole"
               /\ IsPrefix(live[i].rec.messages, live'[i].rec.messages)
SessionsOnlyGrow == [][OnlyGrows]_vars
=============================================================================
