----------------------------- MODULE ChatProofs -----------------------------
(***************************************************************************)
(* Proofs about Chat, for any chats, sessions and providers, any history   *)
(* window and any bounds.                                                  *)
(***************************************************************************)
EXTENDS Chat, TLAPS

USE ChatAssumption

Entries == [role : Providers \cup {"User"}, turn : 1..MaxAsked]

(* What is put together from messages. *)
LEMMA LabelTypes ==
    ASSUME NEW ms \in Seq(Messages)
    PROVE  Labels(ms) \in Seq(Entries)
<1>1. \A m \in Messages : Label(m) \in Entries
  BY DEF Messages, Label, Entries
<1>2. \A i \in 1..Len(ms) : ms[i] \in Messages
  OBVIOUS
<1> QED BY <1>1, <1>2 DEF Labels

LEMMA MessageTypes ==
    ASSUME NEW n \in 1..MaxAsked, NEW p \in Providers
    PROVE  /\ Question(n) \in Messages /\ Answer(n, p) \in Messages
           /\ <<Question(n), Answer(n, p)>> \in Seq(Messages)
<1>1. Question(n) \in Messages /\ Answer(n, p) \in Messages
  BY DEF Question, Answer, Messages
<1> QED BY <1>1

LEMMA RecordTypes ==
    /\ \A p \in Providers \cup {NoOne} : NewRecord(p) \in Records
    /\ NoRecord \in Records
    /\ {Missing, EmptyFile, Garbled} \subseteq [text : Texts, rec : Records]
    /\ \A r \in Records : Whole(r) \in [text : Texts, rec : Records]
<1>1. \A p \in Providers \cup {NoOne} : NewRecord(p) \in Records
  BY DEF NewRecord, Records
<1> QED BY <1>1 DEF NoRecord, Missing, EmptyFile, Garbled, Whole, Texts

Files == [text : Texts, rec : Records]
Places == {"off", "ready", "build", "wait", "remember", "create", "write", "rename"}
Turns == [turn : 0..MaxAsked, provider : Providers \cup {NoOne}]

(* The types of the files, of what a chat is, and of what it holds. *)
DiskTypes ==
    /\ live \in [Sessions -> Files]
    /\ tmp \in [Sessions -> Files]
    /\ fd \in [Chats -> {"none", "tmp", "live", "gone"}]
PlaceTypes ==
    /\ pc \in [Chats -> Places]
    /\ on \in [Chats -> Sessions \cup {NoOne}]
    /\ \A c \in Chats : pc[c] # "off" => on[c] \in Sessions
TalkTypes ==
    /\ rec \in [Chats -> Records]
    /\ history \in [Chats -> Seq(Entries)]
    /\ active \in [Chats -> Providers \cup {NoOne}]
    /\ save \in [Chats -> BOOLEAN]
(* A turn in progress has a message and a provider. *)
TurnTypes ==
    /\ cur \in [Chats -> Turns]
    /\ memories \subseteq 1..MaxAsked
    /\ asked \in 0..MaxAsked
    /\ \A c \in Chats : pc[c] \in {"build", "wait", "remember"} =>
                            cur[c].turn \in 1..MaxAsked /\ cur[c].provider \in Providers

TypeInv == DiskTypes /\ PlaceTypes /\ TalkTypes /\ TurnTypes

LEMMA InitTypes == Init => TypeInv
<1> SUFFICES ASSUME Init PROVE TypeInv
  OBVIOUS
<1>1. DiskTypes
  BY RecordTypes DEF Init, DiskTypes, Files
<1>2. PlaceTypes
  BY DEF Init, PlaceTypes, Places
<1>3. TalkTypes
  BY RecordTypes DEF Init, TalkTypes
<1>4. TurnTypes
  BY DEF Init, TurnTypes, Turns, NoTurn
<1> QED BY <1>1, <1>2, <1>3, <1>4 DEF TypeInv

LEMMA StartTypes ==
    ASSUME TypeInv, NEW c \in Chats, NEW i \in Sessions, NEW p \in Providers,
           StartNew(c, i, p) \/ Resume(c, i, p)
    PROVE  TypeInv'
<1>1. PICK r \in Records : Start(c, i, r, p)
  BY RecordTypes DEF StartNew, Resume, TypeInv, DiskTypes, Files
<1>2. DiskTypes'
  BY <1>1 DEF Start, diskVars, TypeInv, DiskTypes
<1>3. PlaceTypes'
  BY <1>1 DEF Start, TypeInv, PlaceTypes, Places
<1>4. TalkTypes'
  <2>1. Labels(r.messages) \in Seq(Entries)
    BY LabelTypes DEF Records
  <2> QED BY <1>1, <2>1 DEF Start, TypeInv, TalkTypes
<1>5. TurnTypes'
  BY <1>1 DEF Start, TypeInv, PlaceTypes, TurnTypes
<1> QED BY <1>2, <1>3, <1>4, <1>5 DEF TypeInv

LEMMA StopTypes ==
    ASSUME TypeInv, NEW c \in Chats, Stop(c)
    PROVE  TypeInv'
<1>1. DiskTypes'
  BY DEF Stop, TypeInv, DiskTypes
<1>2. PlaceTypes'
  BY DEF Stop, TypeInv, PlaceTypes, Places
<1>3. TalkTypes'
  BY RecordTypes DEF Stop, TypeInv, TalkTypes
<1>4. TurnTypes'
  BY DEF Stop, TypeInv, PlaceTypes, TurnTypes, Turns, NoTurn
<1> QED BY <1>1, <1>2, <1>3, <1>4 DEF TypeInv

(* From the question to the record. *)
LEMMA TalkStepTypes ==
    ASSUME TypeInv, NEW c \in Chats,
           \/ \E p \in Providers : Ask(c, p)
           \/ Send(c) \/ TurnFails(c) \/ Reply(c) \/ Remember(c)
    PROVE  TypeInv'
<1>1. CASE \E p \in Providers : Ask(c, p)
  <2>1. DiskTypes' /\ PlaceTypes' /\ TalkTypes'
    BY <1>1 DEF Ask, diskVars, talkVars, TypeInv, DiskTypes, PlaceTypes, TalkTypes, Places
  <2>2. TurnTypes'
    <3>1. asked + 1 \in 1..MaxAsked
      BY <1>1 DEF Ask, TypeInv, TurnTypes
    <3> QED BY <1>1, <3>1 DEF Ask, TypeInv, PlaceTypes, TurnTypes, Turns
  <2> QED BY <2>1, <2>2 DEF TypeInv
<1>2. CASE Send(c) \/ TurnFails(c)
  <2>1. DiskTypes' /\ PlaceTypes' /\ TalkTypes'
    BY <1>2 DEF Send, TurnFails, diskVars, TypeInv, DiskTypes, PlaceTypes, TalkTypes, Places
  <2>2. TurnTypes'
    <3>1. CASE Send(c)
      BY <3>1 DEF Send, TypeInv, PlaceTypes, TurnTypes, bounds
    <3>2. CASE TurnFails(c)
      BY <3>2 DEF TurnFails, TypeInv, PlaceTypes, TurnTypes, Turns, NoTurn, bounds
    <3> QED BY <1>2, <3>1, <3>2
  <2> QED BY <2>1, <2>2 DEF TypeInv
<1>3. CASE Reply(c)
  <2> DEFINE n == cur[c].turn
             p == cur[c].provider
  <2>1. n \in 1..MaxAsked /\ p \in Providers
    BY <1>3 DEF Reply, TypeInv, TurnTypes
  <2>2. DiskTypes' /\ PlaceTypes' /\ TurnTypes'
    BY <1>3 DEF Reply, diskVars, bounds, TypeInv, DiskTypes, PlaceTypes, TurnTypes, Places
  <2>3. rec' \in [Chats -> Records]
    <3>1. rec' = rec \/ rec' = [rec EXCEPT ![c].backend = n]
      BY <1>3 DEF Reply
    <3>2. [rec[c] EXCEPT !.backend = n] \in Records
      <4>1. rec[c] \in Records /\ n \in 0..MaxAsked
        BY <2>1 DEF TypeInv, TalkTypes
      <4> HIDE DEF n
      <4> QED BY <4>1 DEF Records
    <3> QED BY <3>1, <3>2 DEF TypeInv, TalkTypes
  <2>4. history' \in [Chats -> Seq(Entries)]
    <3>1. Labels(<<Question(n), Answer(n, p)>>) \in Seq(Entries)
      BY <2>1, MessageTypes, LabelTypes
    <3>2. history' = [history EXCEPT ![c] = history[c] \o Labels(<<Question(n), Answer(n, p)>>)]
      BY <1>3 DEF Reply
    <3>3. history[c] \o Labels(<<Question(n), Answer(n, p)>>) \in Seq(Entries)
      BY <3>1 DEF TypeInv, TalkTypes
    <3> QED BY <3>2, <3>3 DEF TypeInv, TalkTypes
  <2>5. UNCHANGED <<active, save>>
    BY <1>3 DEF Reply
  <2> QED BY <2>2, <2>3, <2>4, <2>5 DEF TypeInv, TalkTypes
<1>4. CASE Remember(c)
  <2> DEFINE n == cur[c].turn
             p == cur[c].provider
             both == <<Question(n), Answer(n, p)>>
  <2>1. n \in 1..MaxAsked /\ p \in Providers
    BY <1>4 DEF Remember, Persist, TypeInv, TurnTypes
  <2>2. DiskTypes' /\ PlaceTypes' /\ TurnTypes'
    BY <1>4, <2>1
       DEF Remember, Persist, diskVars, bounds, TypeInv, DiskTypes, PlaceTypes, TurnTypes, Places
  <2>3. rec' = [rec EXCEPT ![c].messages = rec[c].messages \o both, ![c].provider = active[c]]
    BY <1>4 DEF Remember, Persist
  <2>4. both \in Seq(Messages)
    BY <2>1, MessageTypes
  <2>5. rec[c].messages \o both \in Seq(Messages) /\ active[c] \in Providers \cup {NoOne}
    BY <2>4 DEF TypeInv, TalkTypes, Records
  <2>6. [rec[c] EXCEPT !.messages = rec[c].messages \o both, !.provider = active[c]] \in Records
    BY <2>5 DEF TypeInv, TalkTypes, Records
  <2>7. rec' \in [Chats -> Records]
    BY <2>3, <2>6 DEF TypeInv, TalkTypes
  <2>8. UNCHANGED <<history, active, save>>
    BY <1>4 DEF Remember, Persist
  <2> QED BY <2>2, <2>7, <2>8 DEF TypeInv, TalkTypes
<1> QED BY <1>1, <1>2, <1>3, <1>4

(* The save, and the removal of a session. *)
LEMMA EndTypes ==
    ASSUME TypeInv, NEW c \in Chats, pc[c] # "off", TurnEnds(c), UNCHANGED asked, DiskTypes'
    PROVE  TypeInv'
<1>0. TalkTypes'
  BY DEF TurnEnds, talkVars, TypeInv, TalkTypes
<1>1. PlaceTypes'
  BY DEF TurnEnds, TypeInv, PlaceTypes, Places
<1>2. TurnTypes'
  BY DEF TurnEnds, TypeInv, PlaceTypes, TurnTypes, Turns, NoTurn
<1> QED BY <1>0, <1>1, <1>2 DEF TypeInv

LEMMA SaveTypes ==
    ASSUME TypeInv, NEW c \in Chats,
           CreateTmp(c) \/ WriteTmp(c) \/ Rename(c) \/ SaveFails(c)
    PROVE  TypeInv'
<1>1. CASE CreateTmp(c)
  <2>1. EmptyFile \in Files
    BY RecordTypes DEF Files
  <2>2. DiskTypes'
    BY <1>1, <2>1 DEF CreateTmp, TypeInv, DiskTypes
  <2> QED BY <1>1, <2>2
          DEF CreateTmp, talkVars, bounds, TypeInv, PlaceTypes, TalkTypes, TurnTypes, Places
<1>2. CASE WriteTmp(c)
  <2>1. \A f \in Files : Written(f, rec[c]) \subseteq Files
    BY RecordTypes DEF Written, Files, TypeInv, TalkTypes
  <2>2. DiskTypes'
    <3>1. on[c] \in Sessions
      BY <1>2 DEF WriteTmp, TypeInv, PlaceTypes
    <3>2. CASE fd[c] = "tmp"
      BY <1>2, <2>1, <3>1, <3>2 DEF WriteTmp, TypeInv, DiskTypes
    <3>3. CASE fd[c] = "live"
      BY <1>2, <2>1, <3>1, <3>3 DEF WriteTmp, TypeInv, DiskTypes
    <3>4. CASE fd[c] \notin {"tmp", "live"}
      BY <1>2, <3>4 DEF WriteTmp, TypeInv, DiskTypes
    <3> QED BY <3>2, <3>3, <3>4
  <2> QED BY <1>2, <2>2
          DEF WriteTmp, talkVars, bounds, TypeInv, PlaceTypes, TalkTypes, TurnTypes, Places
<1>3. CASE Rename(c)
  <2>1. on[c] \in Sessions /\ Missing \in Files
    BY <1>3, RecordTypes DEF Rename, TypeInv, PlaceTypes, Files
  <2>2. DiskTypes'
    BY <1>3, <2>1 DEF Rename, Unlinked, TypeInv, DiskTypes
  <2> QED BY <1>3, <2>2, EndTypes DEF Rename, bounds
<1>4. CASE SaveFails(c)
  <2>1. DiskTypes'
    BY <1>4 DEF SaveFails, TypeInv, DiskTypes
  <2> QED BY <1>4, <2>1, EndTypes DEF SaveFails
<1> QED BY <1>1, <1>2, <1>3, <1>4

LEMMA CommandTypes ==
    ASSUME TypeInv,
           \/ \E c \in Chats : Reset(c) \/ ToggleSave(c) \/ \E p \in Providers : SwitchProvider(c, p)
           \/ \E i \in Sessions : RemoveSession(i)
    PROVE  TypeInv'
<1>1. ASSUME NEW c \in Chats,
             Reset(c) \/ ToggleSave(c) \/ \E p \in Providers : SwitchProvider(c, p)
      PROVE  TypeInv'
  <2>1. DiskTypes' /\ PlaceTypes' /\ TurnTypes'
    BY <1>1 DEF Reset, ToggleSave, SwitchProvider, Command, diskVars,
                TypeInv, DiskTypes, PlaceTypes, TurnTypes
  <2>2. TalkTypes'
    <3>1. CASE Reset(c)
      BY <3>1 DEF Reset, Command, TypeInv, TalkTypes
    <3>2. CASE ToggleSave(c)
      BY <3>2 DEF ToggleSave, Command, TypeInv, TalkTypes
    <3>3. CASE \E p \in Providers : SwitchProvider(c, p)
      BY <3>3 DEF SwitchProvider, Command, TypeInv, TalkTypes
    <3> QED BY <1>1, <3>1, <3>2, <3>3
  <2> QED BY <2>1, <2>2 DEF TypeInv
<1>2. ASSUME NEW i \in Sessions, RemoveSession(i)
      PROVE  TypeInv'
  <2>1. Missing \in Files
    BY RecordTypes DEF Files
  <2>2. DiskTypes'
    BY <1>2, <2>1 DEF RemoveSession, Unlinked, TypeInv, DiskTypes
  <2> QED BY <1>2, <2>2
          DEF RemoveSession, talkVars, TypeInv, PlaceTypes, TalkTypes, TurnTypes
<1> QED BY <1>1, <1>2

LEMMA NextTypes == TypeInv /\ [Next]_vars => TypeInv'
<1> SUFFICES ASSUME TypeInv, [Next]_vars PROVE TypeInv'
  OBVIOUS
<1>1. CASE UNCHANGED vars
  BY <1>1 DEF vars, TypeInv, DiskTypes, PlaceTypes, TalkTypes, TurnTypes
<1>2. ASSUME NEW c \in Chats, Exit(c) \/ Crash(c) PROVE TypeInv'
  BY <1>2, StopTypes DEF Exit, Crash
<1>3. ASSUME NEW c \in Chats, Turn(c) PROVE TypeInv'
  BY <1>3, TalkStepTypes, SaveTypes DEF Turn
<1> QED BY <1>1, <1>2, <1>3, StartTypes, CommandTypes DEF Next

(* A chat is always on a session it can save to, and no file ever holds a
   message that no one asked or that no provider answered. *)
THEOREM TypeCorrect == Spec => []TypeOK
<1>1. TypeInv => TypeOK
  BY DEF TypeInv, DiskTypes, PlaceTypes, TalkTypes, TurnTypes, Files, Places, Turns, Entries, TypeOK
<1> QED BY <1>1, InitTypes, NextTypes, PTL DEF Spec
-----------------------------------------------------------------------------
(* Transcripts.  Faithful, for given answers b. *)
FaithfulBy(ms, b) ==
    \A k \in 1..Len(ms) :
        LET n == ms[k].turn IN
        IF k % 2 = 1
        THEN /\ ms[k] = Question(n) /\ b[n] # NoOne
             /\ k < Len(ms) /\ ms[k + 1] = Answer(n, b[n])
        ELSE k < Len(ms) => n < ms[k + 1].turn

LEMMA FaithfulNow ==
    /\ \A ms : Faithful(ms) <=> FaithfulBy(ms, by)
    /\ \A ms : Faithful(ms)' <=> FaithfulBy(ms, by')
  BY DEF Faithful, FaithfulBy

(* Answers that come later do not change what is in a transcript. *)
LEMMA FaithfulKept ==
    ASSUME NEW ms \in Seq(Messages), NEW b, FaithfulBy(ms, b),
           NEW d, \A n \in 1..MaxAsked : b[n] # NoOne => d[n] = b[n]
    PROVE  FaithfulBy(ms, d)
<1> SUFFICES ASSUME NEW k \in 1..Len(ms)
             PROVE  LET n == ms[k].turn IN
                    IF k % 2 = 1
                    THEN /\ ms[k] = Question(n) /\ d[n] # NoOne
                         /\ k < Len(ms) /\ ms[k + 1] = Answer(n, d[n])
                    ELSE k < Len(ms) => n < ms[k + 1].turn
  BY DEF FaithfulBy
<1>1. ms[k] \in Messages /\ ms[k].turn \in 1..MaxAsked
  BY DEF Messages
<1>2. b[ms[k].turn] # NoOne => d[ms[k].turn] = b[ms[k].turn]
  BY <1>1
<1>3. LET n == ms[k].turn IN
      IF k % 2 = 1
      THEN /\ ms[k] = Question(n) /\ b[n] # NoOne
           /\ k < Len(ms) /\ ms[k + 1] = Answer(n, b[n])
      ELSE k < Len(ms) => n < ms[k + 1].turn
  BY DEF FaithfulBy
<1> QED BY <1>2, <1>3

(* A faithful transcript ends with an answer, so it goes on with a question. *)
Before(ms, n) == Len(ms) = 0 \/ ms[Len(ms)].turn < n

LEMMA FaithfulEnd ==
    ASSUME NEW ms \in Seq(Messages), NEW b, FaithfulBy(ms, b)
    PROVE  /\ Len(ms) % 2 = 0
           /\ Len(ms) # 0 => b[ms[Len(ms)].turn] # NoOne
<1>1. Len(ms) \in Nat
  OBVIOUS
<1>2. Len(ms) % 2 = 0
  <2>1. CASE Len(ms) = 0
    BY <2>1
  <2>2. CASE Len(ms) # 0
    <3>1. Len(ms) \in 1..Len(ms)
      BY <1>1, <2>2
    <3>2. Len(ms) % 2 # 1
      BY <1>1, <3>1 DEF FaithfulBy
    <3> QED BY <1>1, <3>2
  <2> QED BY <2>1, <2>2
<1>3. ASSUME Len(ms) # 0 PROVE b[ms[Len(ms)].turn] # NoOne
  <2> DEFINE k == Len(ms) - 1
  <2>1. k \in 1..Len(ms) /\ k % 2 = 1 /\ k + 1 = Len(ms)
    BY <1>1, <1>2, <1>3
  <2>2. b[ms[k].turn] # NoOne /\ ms[k + 1] = Answer(ms[k].turn, b[ms[k].turn])
    BY <2>1 DEF FaithfulBy
  <2>3. ms[Len(ms)].turn = ms[k].turn
    BY <2>1, <2>2 DEF Answer
  <2> QED BY <2>2, <2>3
<1> QED BY <1>2, <1>3

LEMMA FaithfulExtended ==
    ASSUME NEW ms \in Seq(Messages), NEW b, FaithfulBy(ms, b),
           NEW n \in 1..MaxAsked, NEW p \in Providers, b[n] = p, Before(ms, n)
    PROVE  FaithfulBy(ms \o <<Question(n), Answer(n, p)>>, b)
<1> DEFINE l == Len(ms)
           new == ms \o <<Question(n), Answer(n, p)>>
<1>1. l \in Nat /\ l % 2 = 0 /\ p # NoOne
  BY FaithfulEnd
<1>2. <<Question(n), Answer(n, p)>> \in Seq(Messages)
  BY MessageTypes
<1>3. /\ Len(new) = l + 2
      /\ \A k \in 1..l : new[k] = ms[k]
      /\ new[l + 1] = Question(n)
      /\ new[l + 2] = Answer(n, p)
  BY <1>2
<1> HIDE DEF new
<1> SUFFICES ASSUME NEW k \in 1..(l + 2)
             PROVE  LET m == new[k].turn IN
                    IF k % 2 = 1
                    THEN /\ new[k] = Question(m) /\ b[m] # NoOne
                         /\ k < Len(new) /\ new[k + 1] = Answer(m, b[m])
                    ELSE k < Len(new) => m < new[k + 1].turn
  BY <1>3 DEF FaithfulBy, new
<1>4. CASE k \in 1..(l - 1)
  <2>1. new[k] = ms[k] /\ new[k + 1] = ms[k + 1] /\ k < Len(new) /\ k < l /\ k \in 1..l
    BY <1>1, <1>3, <1>4
  <2> QED BY <2>1 DEF FaithfulBy
<1>5. CASE k = l
  <2>1. new[k].turn < n /\ new[k + 1].turn = n /\ k % 2 # 1
    BY <1>1, <1>3, <1>5 DEF Before, Question
  <2> QED BY <2>1
<1>6. CASE k = l + 1
  <2>1. new[k] = Question(n) /\ new[k + 1] = Answer(n, p) /\ k < Len(new) /\ k % 2 = 1
    BY <1>1, <1>3, <1>6
  <2>2. new[k].turn = n
    BY <2>1 DEF Question
  <2> QED BY <1>1, <2>1, <2>2
<1>7. CASE k = l + 2
  <2>1. k % 2 # 1 /\ ~(k < Len(new))
    BY <1>1, <1>3, <1>7
  <2> QED BY <2>1
<1>8. k \in 1..(l - 1) \/ k = l \/ k = l + 1 \/ k = l + 2
  BY <1>1
<1> QED BY <1>4, <1>5, <1>6, <1>7, <1>8
(* Answers.  A message in progress is of one chat only, and has its answer, by
   the provider it was for, when it is to be recorded and not before. *)
InTalk(c) == pc[c] \in {"build", "wait", "remember"}
AnswerInv ==
    /\ by \in [1..MaxAsked -> Providers \cup {NoOne}]
    /\ \A n \in 1..MaxAsked : n > asked => by[n] = NoOne
    /\ \A c \in Chats : InTalk(c) =>
        cur[c].turn <= asked
        /\ by[cur[c].turn] = IF pc[c] = "remember" THEN cur[c].provider ELSE NoOne
    /\ \A c, d \in Chats : InTalk(c) /\ InTalk(d) /\ c # d => cur[c].turn # cur[d].turn

LEMMA QuietAnswers ==
    ASSUME AnswerInv, UNCHANGED <<by, asked>>,
           \A c \in Chats :
               InTalk(c)' => /\ InTalk(c) /\ cur'[c] = cur[c]
                             /\ pc[c] = "remember" <=> pc'[c] = "remember"
    PROVE  AnswerInv'
<1>1. ASSUME NEW c \in Chats, InTalk(c)'
      PROVE  cur'[c].turn <= asked'
             /\ by'[cur'[c].turn] = IF pc'[c] = "remember" THEN cur'[c].provider ELSE NoOne
  <2>1. InTalk(c) /\ cur'[c] = cur[c] /\ (pc[c] = "remember" <=> pc'[c] = "remember")
    BY <1>1
  <2> QED BY <2>1 DEF AnswerInv
<1>2. ASSUME NEW c \in Chats, NEW d \in Chats, InTalk(c)', InTalk(d)', c # d
      PROVE  cur'[c].turn # cur'[d].turn
  BY <1>2 DEF AnswerInv
<1>3. by' \in [1..MaxAsked -> Providers \cup {NoOne}]
      /\ \A n \in 1..MaxAsked : n > asked' => by'[n] = NoOne
  BY DEF AnswerInv
<1> QED BY <1>1, <1>2, <1>3 DEF AnswerInv

LEMMA NextAnswers == TypeInv /\ AnswerInv /\ [Next]_vars => AnswerInv'
<1> SUFFICES ASSUME TypeInv, AnswerInv, [Next]_vars PROVE AnswerInv'
  OBVIOUS
<1>0. pc \in [Chats -> Places] /\ cur \in [Chats -> Turns] /\ asked \in 0..MaxAsked
  BY DEF TypeInv, PlaceTypes, TurnTypes
<1>1. CASE UNCHANGED vars
  BY <1>1, QuietAnswers DEF vars, InTalk
<1>2. ASSUME NEW c \in Chats, NEW i \in Sessions, NEW p \in Providers,
             StartNew(c, i, p) \/ Resume(c, i, p)
      PROVE  AnswerInv'
  <2>1. UNCHANGED <<by, asked, cur>> /\ pc' = [pc EXCEPT ![c] = "ready"]
    BY <1>2 DEF StartNew, Resume, Start
  <2> QED BY <1>0, <2>1, QuietAnswers DEF InTalk
<1>3. ASSUME NEW c \in Chats, Stop(c) PROVE AnswerInv'
  <2>1. UNCHANGED <<by, asked>> /\ pc' = [pc EXCEPT ![c] = "off"]
        /\ cur' = [cur EXCEPT ![c] = NoTurn]
    BY <1>3 DEF Stop, histVars
  <2> QED BY <1>0, <2>1, QuietAnswers DEF InTalk
<1>4. ASSUME NEW c \in Chats, TurnEnds(c), UNCHANGED asked PROVE AnswerInv'
  <2>1. UNCHANGED <<by, asked>> /\ pc' = [pc EXCEPT ![c] = "ready"]
        /\ cur' = [cur EXCEPT ![c] = NoTurn]
    BY <1>4 DEF TurnEnds, histVars
  <2> QED BY <1>0, <2>1, QuietAnswers DEF InTalk
<1>5. ASSUME NEW c \in Chats, TurnFails(c) PROVE AnswerInv'
  <2>1. UNCHANGED <<by, asked>> /\ pc' = [pc EXCEPT ![c] = "ready"]
        /\ cur' = [cur EXCEPT ![c] = NoTurn]
    BY <1>5 DEF TurnFails, histVars, bounds
  <2> QED BY <1>0, <2>1, QuietAnswers DEF InTalk
<1>6. ASSUME NEW c \in Chats, Send(c) PROVE AnswerInv'
  <2>1. UNCHANGED <<by, asked, cur>> /\ pc[c] = "build" /\ pc' = [pc EXCEPT ![c] = "wait"]
    BY <1>6 DEF Send, histVars, bounds
  <2> QED BY <1>0, <2>1, QuietAnswers DEF InTalk
<1>7. ASSUME NEW c \in Chats, Remember(c) \/ CreateTmp(c) \/ WriteTmp(c) PROVE AnswerInv'
  <2>1. UNCHANGED <<by, asked, cur>>
    BY <1>7 DEF Remember, Persist, CreateTmp, WriteTmp, histVars, bounds
  <2>2. PICK at \in {"create", "write", "rename"} : pc' = [pc EXCEPT ![c] = at]
    BY <1>7 DEF Remember, Persist, CreateTmp, WriteTmp
  <2> QED BY <1>0, <2>1, <2>2, QuietAnswers DEF InTalk
<1>8. ASSUME NEW c \in Chats, NEW p \in Providers, Ask(c, p) PROVE AnswerInv'
  <2>1. /\ pc[c] = "ready" /\ pc' = [pc EXCEPT ![c] = "build"]
        /\ asked < MaxAsked /\ asked' = asked + 1
        /\ cur' = [cur EXCEPT ![c] = [turn |-> asked + 1, provider |-> p]]
        /\ by' = by
    BY <1>8 DEF Ask, histVars
  <2>2. by[asked + 1] = NoOne /\ asked + 1 \in 1..MaxAsked
    BY <1>0, <2>1 DEF AnswerInv
  <2>3. \A d \in Chats : d # c =>
          cur'[d] = cur[d] /\ pc'[d] = pc[d] /\ (InTalk(d)' <=> InTalk(d))
          /\ (InTalk(d) => cur[d].turn <= asked)
    BY <1>0, <2>1 DEF AnswerInv, InTalk
  <2>4. cur'[c].turn = asked + 1 /\ pc'[c] = "build"
    BY <1>0, <2>1
  <2>5. \A d \in Chats : InTalk(d)' =>
          cur'[d].turn <= asked'
          /\ by'[cur'[d].turn] = IF pc'[d] = "remember" THEN cur'[d].provider ELSE NoOne
    <3> SUFFICES ASSUME NEW d \in Chats, InTalk(d)'
                 PROVE  cur'[d].turn <= asked'
                        /\ by'[cur'[d].turn]
                           = IF pc'[d] = "remember" THEN cur'[d].provider ELSE NoOne
      OBVIOUS
    <3>1. CASE d = c
      BY <1>0, <2>1, <2>2, <2>4, <3>1
    <3>2. CASE d # c
      <4>1. InTalk(d) /\ cur[d].turn \in Nat /\ cur[d].turn <= asked
        BY <1>0, <2>3, <3>2 DEF Turns
      <4> QED BY <1>0, <2>1, <2>3, <3>2, <4>1 DEF AnswerInv
    <3> QED BY <3>1, <3>2
  <2>6. \A d, e \in Chats : InTalk(d)' /\ InTalk(e)' /\ d # e => cur'[d].turn # cur'[e].turn
    <3> SUFFICES ASSUME NEW d \in Chats, NEW e \in Chats, InTalk(d)', InTalk(e)', d # e
                 PROVE  cur'[d].turn # cur'[e].turn
      OBVIOUS
    <3>1. CASE d # c /\ e # c
      BY <2>3, <3>1 DEF AnswerInv
    <3>2. CASE d = c \/ e = c
      BY <1>0, <2>3, <2>4, <3>2 DEF Turns
    <3> QED BY <3>1, <3>2
  <2>7. \A n \in 1..MaxAsked : n > asked' => by'[n] = NoOne
    BY <1>0, <2>1 DEF AnswerInv
  <2> QED BY <2>1, <2>5, <2>6, <2>7 DEF AnswerInv
<1>9. ASSUME NEW c \in Chats, Reply(c) PROVE AnswerInv'
  <2> DEFINE n == cur[c].turn
             p == cur[c].provider
  <2>1. /\ pc[c] = "wait" /\ pc' = [pc EXCEPT ![c] = "remember"]
        /\ UNCHANGED <<asked, cur>> /\ by' = [by EXCEPT ![n] = p]
    BY <1>9 DEF Reply, bounds
  <2>2. n \in 1..MaxAsked /\ p \in Providers /\ InTalk(c) /\ n <= asked
    BY <2>1 DEF TypeInv, TurnTypes, AnswerInv, InTalk
  <2>3. \A d \in Chats : d # c => pc'[d] = pc[d] /\ (InTalk(d)' <=> InTalk(d))
                                 /\ (InTalk(d) => cur[d].turn # n)
    BY <1>0, <2>1, <2>2 DEF AnswerInv, InTalk
  <2>4. by'[n] = p /\ \A k \in 1..MaxAsked : k # n => by'[k] = by[k]
    BY <2>1, <2>2 DEF AnswerInv
  <2>5. \A d \in Chats : InTalk(d)' =>
          cur'[d].turn <= asked'
          /\ by'[cur'[d].turn] = IF pc'[d] = "remember" THEN cur'[d].provider ELSE NoOne
    <3> SUFFICES ASSUME NEW d \in Chats, InTalk(d)'
                 PROVE  cur'[d].turn <= asked'
                        /\ by'[cur'[d].turn]
                           = IF pc'[d] = "remember" THEN cur'[d].provider ELSE NoOne
      OBVIOUS
    <3>1. CASE d = c
      BY <1>0, <2>1, <2>2, <2>4, <3>1
    <3>2. CASE d # c
      <4>1. InTalk(d) /\ cur[d].turn \in 1..MaxAsked /\ cur[d].turn # n
        BY <2>3, <3>2 DEF TypeInv, TurnTypes, InTalk
      <4> QED BY <2>1, <2>3, <2>4, <3>2, <4>1 DEF AnswerInv
    <3> QED BY <3>1, <3>2
  <2>6. \A d, e \in Chats : InTalk(d)' /\ InTalk(e)' /\ d # e => cur'[d].turn # cur'[e].turn
    <3>1. \A d \in Chats : InTalk(d)' => InTalk(d)
      BY <2>2, <2>3
    <3> QED BY <2>1, <3>1 DEF AnswerInv
  <2>7. \A k \in 1..MaxAsked : k > asked' => by'[k] = NoOne
    BY <1>0, <2>1, <2>2, <2>4 DEF AnswerInv
  <2>8. by' \in [1..MaxAsked -> Providers \cup {NoOne}]
    BY <2>1, <2>2 DEF AnswerInv
  <2> QED BY <2>5, <2>6, <2>7, <2>8 DEF AnswerInv
<1>10. ASSUME NEW c \in Chats,
              Reset(c) \/ ToggleSave(c) \/ \E p \in Providers : SwitchProvider(c, p)
       PROVE  AnswerInv'
  <2>1. UNCHANGED <<by, asked, cur, pc>>
    BY <1>10 DEF Reset, ToggleSave, SwitchProvider, Command, histVars
  <2> QED BY <2>1, QuietAnswers DEF InTalk
<1>11. ASSUME NEW i \in Sessions, RemoveSession(i) PROVE AnswerInv'
  BY <1>11, QuietAnswers DEF RemoveSession, histVars, InTalk
<1>12. ASSUME NEW c \in Chats, Turn(c) PROVE AnswerInv'
  BY <1>4, <1>5, <1>6, <1>7, <1>8, <1>9, <1>12 DEF Turn, Rename, SaveFails, bounds
<1>13. ASSUME NEW c \in Chats, Exit(c) \/ Crash(c) PROVE AnswerInv'
  BY <1>3, <1>13 DEF Exit, Crash
<1> QED BY <1>1, <1>2, <1>10, <1>11, <1>12, <1>13 DEF Next
(* Records.  Every transcript there is, on disk or in a chat, is faithful, and
   ends before the message in progress. *)
RecordInv ==
    /\ \A i \in Sessions : live[i].text = "whole" => FaithfulBy(live[i].rec.messages, by)
    /\ \A i \in Sessions : tmp[i].text = "whole" => FaithfulBy(tmp[i].rec.messages, by)
    /\ \A c \in Chats : FaithfulBy(rec[c].messages, by)
    /\ \A c \in Chats : InTalk(c) => Before(rec[c].messages, cur[c].turn)

LEMMA FaithfulEmpty ==
    ASSUME NEW b, NEW p
    PROVE  FaithfulBy(NewRecord(p).messages, b) /\ FaithfulBy(NoRecord.messages, b)
  BY DEF FaithfulBy, NewRecord, NoRecord

LEMMA RecordsAreSeqs ==
    ASSUME TypeInv
    PROVE  /\ \A i \in Sessions : live[i].rec.messages \in Seq(Messages)
                                  /\ tmp[i].rec.messages \in Seq(Messages)
           /\ \A c \in Chats : rec[c].messages \in Seq(Messages)
  BY DEF TypeInv, DiskTypes, TalkTypes, Files, Records

(* A step that changes no transcript but puts a faithful one in a chat that is
   then not in talk. *)
LEMMA QuietRecords ==
    ASSUME RecordInv, UNCHANGED <<live, tmp, by>>,
           NEW c \in Chats, FaithfulBy(rec'[c].messages, by),
           ~InTalk(c)' \/ (InTalk(c) /\ rec'[c] = rec[c] /\ cur'[c] = cur[c]),
           \A d \in Chats :
               d # c => /\ rec'[d] = rec[d] /\ cur'[d] = cur[d]
                        /\ InTalk(d)' <=> InTalk(d)
    PROVE  RecordInv'
<1>1. \A d \in Chats : FaithfulBy(rec'[d].messages, by)
  BY DEF RecordInv
<1>2. \A d \in Chats : InTalk(d)' => Before(rec'[d].messages, cur'[d].turn)
  BY DEF RecordInv
<1> QED BY <1>1, <1>2 DEF RecordInv

(* A step that writes, renames or removes files. *)
LEMMA FileRecords ==
    ASSUME RecordInv, UNCHANGED by,
           \A i \in Sessions : live'[i].text = "whole" => FaithfulBy(live'[i].rec.messages, by),
           \A i \in Sessions : tmp'[i].text = "whole" => FaithfulBy(tmp'[i].rec.messages, by),
           UNCHANGED rec,
           \A d \in Chats : InTalk(d)' => InTalk(d) /\ cur'[d] = cur[d]
    PROVE  RecordInv'
  BY DEF RecordInv

LEMMA NextRecords == TypeInv /\ AnswerInv /\ RecordInv /\ [Next]_vars => RecordInv'
<1> SUFFICES ASSUME TypeInv, AnswerInv, RecordInv, [Next]_vars PROVE RecordInv'
  OBVIOUS
<1>0. /\ pc \in [Chats -> Places] /\ cur \in [Chats -> Turns] /\ asked \in 0..MaxAsked
      /\ rec \in [Chats -> Records] /\ live \in [Sessions -> Files] /\ tmp \in [Sessions -> Files]
  BY DEF TypeInv, PlaceTypes, TurnTypes, TalkTypes, DiskTypes
<1>1. CASE UNCHANGED vars
  BY <1>1, FileRecords DEF vars, RecordInv, InTalk
<1>2. ASSUME NEW c \in Chats, NEW i \in Sessions, NEW p \in Providers,
             StartNew(c, i, p) \/ Resume(c, i, p)
      PROVE  RecordInv'
  <2>1. PICK j, r : Start(c, j, r, p) /\ FaithfulBy(r.messages, by)
    <3>1. CASE StartNew(c, i, p)
      BY <3>1, FaithfulEmpty DEF StartNew
    <3>2. CASE Resume(c, i, p)
      BY <3>2 DEF Resume, RecordInv
    <3> QED BY <1>2, <3>1, <3>2
  <2>2. /\ UNCHANGED <<live, tmp, by, cur>> /\ rec' = [rec EXCEPT ![c] = r]
        /\ pc' = [pc EXCEPT ![c] = "ready"]
    BY <1>2, <2>1 DEF StartNew, Resume, Start, diskVars
  <2> QED BY <1>0, <2>1, <2>2, QuietRecords DEF InTalk
<1>3. ASSUME NEW c \in Chats, Stop(c) PROVE RecordInv'
  <2>1. /\ UNCHANGED <<live, tmp, by>> /\ rec' = [rec EXCEPT ![c] = NoRecord]
        /\ pc' = [pc EXCEPT ![c] = "off"] /\ cur' = [cur EXCEPT ![c] = NoTurn]
    BY <1>3 DEF Stop, histVars
  <2>2. FaithfulBy(rec'[c].messages, by)
    BY <1>0, <2>1, FaithfulEmpty
  <2> QED BY <1>0, <2>1, <2>2, QuietRecords DEF InTalk
<1>4. ASSUME NEW c \in Chats, NEW p \in Providers, Ask(c, p) PROVE RecordInv'
  <2>1. /\ pc' = [pc EXCEPT ![c] = "build"] /\ asked < MaxAsked
        /\ cur' = [cur EXCEPT ![c] = [turn |-> asked + 1, provider |-> p]]
        /\ UNCHANGED <<by, rec, live, tmp>>
    BY <1>4 DEF Ask, histVars, talkVars, diskVars
  <2>2. Before(rec[c].messages, asked + 1)
    <3> DEFINE ms == rec[c].messages
    <3>1. ms \in Seq(Messages) /\ FaithfulBy(ms, by)
      BY RecordsAreSeqs DEF RecordInv
    <3>2. CASE Len(ms) = 0
      BY <3>2 DEF Before
    <3>3. CASE Len(ms) # 0
      <4>1. by[ms[Len(ms)].turn] # NoOne
        BY <3>1, <3>3, FaithfulEnd
      <4>2. ms[Len(ms)] \in Messages
        BY <3>1, <3>3
      <4>3. ms[Len(ms)].turn \in 1..MaxAsked
        BY <4>2 DEF Messages
      <4>4. ms[Len(ms)].turn <= asked
        BY <1>0, <4>1, <4>3 DEF AnswerInv
      <4> HIDE DEF ms
      <4> QED BY <1>0, <4>3, <4>4 DEF Before, ms
    <3> QED BY <3>2, <3>3
  <2>3. \A d \in Chats : InTalk(d)' => Before(rec'[d].messages, cur'[d].turn)
    <3> SUFFICES ASSUME NEW d \in Chats, InTalk(d)' PROVE Before(rec'[d].messages, cur'[d].turn)
      OBVIOUS
    <3>1. CASE d = c
      BY <1>0, <2>1, <2>2, <3>1
    <3>2. CASE d # c
      BY <1>0, <2>1, <3>2 DEF RecordInv, InTalk
    <3> QED BY <3>1, <3>2
  <2> QED BY <2>1, <2>3 DEF RecordInv
<1>5. ASSUME NEW c \in Chats, Send(c) PROVE RecordInv'
  <2>1. UNCHANGED <<by, rec, live, tmp, cur>> /\ pc[c] = "build" /\ pc' = [pc EXCEPT ![c] = "wait"]
    BY <1>5 DEF Send, histVars, diskVars
  <2>2. FaithfulBy(rec'[c].messages, by)
    BY <2>1 DEF RecordInv
  <2> QED BY <1>0, <2>1, <2>2, QuietRecords DEF InTalk
<1>6. ASSUME NEW c \in Chats, TurnFails(c) PROVE RecordInv'
  <2>1. UNCHANGED <<by, rec, live, tmp>> /\ pc' = [pc EXCEPT ![c] = "ready"]
        /\ cur' = [cur EXCEPT ![c] = NoTurn]
    BY <1>6 DEF TurnFails, histVars, diskVars
  <2>2. FaithfulBy(rec'[c].messages, by)
    BY <2>1 DEF RecordInv
  <2> QED BY <1>0, <2>1, <2>2, QuietRecords DEF InTalk
<1>7. ASSUME NEW c \in Chats, Reply(c) PROVE RecordInv'
  <2> DEFINE n == cur[c].turn
             p == cur[c].provider
  <2>1. /\ pc[c] = "wait" /\ pc' = [pc EXCEPT ![c] = "remember"]
        /\ UNCHANGED <<cur, live, tmp>> /\ by' = [by EXCEPT ![n] = p]
        /\ rec' = rec \/ rec' = [rec EXCEPT ![c].backend = n]
    BY <1>7 DEF Reply, diskVars
  <2>2. n \in 1..MaxAsked /\ by[n] = NoOne
    BY <2>1 DEF TypeInv, TurnTypes, AnswerInv, InTalk
  <2>3. \A k \in 1..MaxAsked : by[k] # NoOne => by'[k] = by[k]
    BY <2>1, <2>2 DEF AnswerInv
  <2>4. \A d \in Chats : rec'[d].messages = rec[d].messages
    <3>1. \A d \in Chats : d # c => rec'[d] = rec[d]
      BY <1>0, <2>1
    <3>2. rec'[c] = rec[c] \/ rec'[c] = [rec[c] EXCEPT !.backend = n]
      BY <1>0, <2>1
    <3>3. [rec[c] EXCEPT !.backend = n].messages = rec[c].messages
      BY <1>0 DEF Records
    <3> QED BY <3>1, <3>2, <3>3
  <2>5. \A d \in Chats : FaithfulBy(rec[d].messages, by')
    BY <2>3, FaithfulKept, RecordsAreSeqs DEF RecordInv
  <2>6. \A i \in Sessions :
          /\ live[i].text = "whole" => FaithfulBy(live[i].rec.messages, by')
          /\ tmp[i].text = "whole" => FaithfulBy(tmp[i].rec.messages, by')
    BY <2>3, FaithfulKept, RecordsAreSeqs DEF RecordInv
  <2>7. \A d \in Chats : InTalk(d)' => Before(rec'[d].messages, cur'[d].turn)
    BY <1>0, <2>1, <2>4 DEF RecordInv, InTalk, Before
  <2> QED BY <2>1, <2>4, <2>5, <2>6, <2>7 DEF RecordInv
<1>8. ASSUME NEW c \in Chats, Remember(c) PROVE RecordInv'
  <2> DEFINE n == cur[c].turn
             p == cur[c].provider
             ms == rec[c].messages \o <<Question(n), Answer(n, p)>>
  <2>1. /\ pc[c] = "remember" /\ pc' = [pc EXCEPT ![c] = "create"]
        /\ UNCHANGED <<cur, live, tmp, by>>
        /\ rec' = [rec EXCEPT ![c].messages = ms, ![c].provider = active[c]]
    BY <1>8 DEF Remember, Persist, diskVars, histVars
  <2>2. n \in 1..MaxAsked /\ p \in Providers /\ by[n] = p /\ Before(rec[c].messages, n)
    BY <2>1 DEF TypeInv, TurnTypes, AnswerInv, RecordInv, InTalk
  <2>3. FaithfulBy(ms, by)
    BY <2>2, RecordsAreSeqs, FaithfulExtended DEF RecordInv
  <2>4. rec'[c].messages = ms
    BY <1>0, <2>1 DEF Records
  <2>5. \A d \in Chats : d # c => rec'[d] = rec[d] /\ pc'[d] = pc[d]
    BY <1>0, <2>1
  <2>6. ~InTalk(c)'
    BY <1>0, <2>1 DEF InTalk
  <2> HIDE DEF ms
  <2> QED BY <2>1, <2>3, <2>4, <2>5, <2>6, QuietRecords DEF InTalk
<1>9. ASSUME NEW c \in Chats, CreateTmp(c) \/ WriteTmp(c) PROVE RecordInv'
  <2>1. UNCHANGED <<rec, cur, by>>
    BY <1>9 DEF CreateTmp, WriteTmp, talkVars, histVars
  <2>2. PICK at \in {"write", "rename"} : pc' = [pc EXCEPT ![c] = at]
    BY <1>9 DEF CreateTmp, WriteTmp
  <2>3. \A f : \A g \in Written(f, rec[c]) : g.text = "whole" => g.rec = rec[c]
    BY DEF Written, Whole, Garbled
  <2>4. EmptyFile.text # "whole"
    BY DEF EmptyFile
  <2>5. PICK f : /\ f.text = "whole" => f.rec = rec[c]
                 /\ \/ live' = live /\ tmp' = [tmp EXCEPT ![on[c]] = f]
                    \/ tmp' = tmp /\ live' = [live EXCEPT ![on[c]] = f]
                    \/ UNCHANGED <<live, tmp>>
    <3>1. CASE CreateTmp(c)
      BY <2>4, <3>1 DEF CreateTmp
    <3>2. CASE WriteTmp(c)
      BY <2>3, <2>4, <3>2 DEF WriteTmp
    <3> QED BY <1>9, <3>1, <3>2
  <2>6. FaithfulBy(rec[c].messages, by)
    BY DEF RecordInv
  <2>7. /\ \A i \in Sessions : live'[i].text = "whole" => FaithfulBy(live'[i].rec.messages, by)
        /\ \A i \in Sessions : tmp'[i].text = "whole" => FaithfulBy(tmp'[i].rec.messages, by)
    BY <1>0, <2>5, <2>6 DEF RecordInv
  <2> QED BY <1>0, <2>1, <2>2, <2>7, FileRecords DEF InTalk
<1>10. ASSUME NEW c \in Chats, Rename(c) \/ SaveFails(c) PROVE RecordInv'
  <2>1. /\ UNCHANGED <<rec, by>> /\ cur' = [cur EXCEPT ![c] = NoTurn]
        /\ pc' = [pc EXCEPT ![c] = "ready"]
    BY <1>10 DEF Rename, SaveFails, TurnEnds, talkVars, histVars
  <2>2. \/ UNCHANGED <<live, tmp>>
        \/ live' = [live EXCEPT ![on[c]] = tmp[on[c]]] /\ tmp' = [tmp EXCEPT ![on[c]] = Missing]
           /\ on[c] \in Sessions
    BY <1>10 DEF Rename, SaveFails, TypeInv, PlaceTypes
  <2>3. Missing.text # "whole"
    BY DEF Missing
  <2>4. /\ \A i \in Sessions : live'[i].text = "whole" => FaithfulBy(live'[i].rec.messages, by)
        /\ \A i \in Sessions : tmp'[i].text = "whole" => FaithfulBy(tmp'[i].rec.messages, by)
    BY <1>0, <2>2, <2>3 DEF RecordInv
  <2> QED BY <1>0, <2>1, <2>4, FileRecords DEF InTalk
<1>11. ASSUME NEW c \in Chats,
              Reset(c) \/ ToggleSave(c) \/ \E p \in Providers : SwitchProvider(c, p)
       PROVE  RecordInv'
  <2>1. UNCHANGED <<live, tmp, by, rec, cur, pc>>
    BY <1>11 DEF Reset, ToggleSave, SwitchProvider, Command, diskVars, histVars
  <2> QED BY <2>1, FileRecords DEF RecordInv, InTalk
<1>12. ASSUME NEW i \in Sessions, RemoveSession(i) PROVE RecordInv'
  <2>1. UNCHANGED <<tmp, by, rec, cur, pc>> /\ live' = [live EXCEPT ![i] = Missing]
    BY <1>12 DEF RemoveSession, histVars, talkVars
  <2>2. \A j \in Sessions : live'[j].text = "whole" => FaithfulBy(live'[j].rec.messages, by)
    BY <1>0, <2>1 DEF RecordInv, Missing
  <2> QED BY <2>1, <2>2, FileRecords DEF RecordInv, InTalk
<1>13. ASSUME NEW c \in Chats, Turn(c) PROVE RecordInv'
  BY <1>4, <1>5, <1>6, <1>7, <1>8, <1>9, <1>10, <1>13 DEF Turn
<1>14. ASSUME NEW c \in Chats, Exit(c) \/ Crash(c) PROVE RecordInv'
  BY <1>3, <1>14 DEF Exit, Crash
<1> QED BY <1>1, <1>2, <1>11, <1>12, <1>13, <1>14 DEF Next

(* Whatever chats share a session, and wherever turns and saves fail or chats
   are killed: a session file that can be read holds whole exchanges, in the
   order they were asked, each answer under the provider that gave it. *)
THEOREM TranscriptsStayFaithful == Spec => []TranscriptsFaithful
<1>1. Init => AnswerInv
  BY DEF Init, AnswerInv, InTalk
<1>2. Init => RecordInv
  <2> SUFFICES ASSUME Init PROVE RecordInv
    OBVIOUS
  <2>1. \A c \in Chats : rec[c] = NoRecord /\ ~InTalk(c)
    BY DEF Init, InTalk
  <2>2. \A i \in Sessions : live[i].text # "whole" /\ tmp[i].text # "whole"
    BY DEF Init, Missing
  <2> QED BY <2>1, <2>2, FaithfulEmpty DEF RecordInv
<1>3. RecordInv => TranscriptsFaithful
  BY FaithfulNow DEF RecordInv, TranscriptsFaithful
<1> QED BY <1>1, <1>2, <1>3, InitTypes, NextTypes, NextAnswers, NextRecords, PTL DEF Spec
=============================================================================
