---------------------------- MODULE SessionProofs ---------------------------
(***************************************************************************)
(* More proofs about Chat: the session file of a chat, and the history a   *)
(* chat replays.                                                           *)
(***************************************************************************)
EXTENDS ChatProofs, SequenceTheorems

USE ChatAssumption

(* What a chat does, and what the other chats then keep. *)
Acts(c) ==
    \/ \E i \in Sessions, p \in Providers : StartNew(c, i, p) \/ Resume(c, i, p)
    \/ Turn(c)
    \/ Reset(c)
    \/ \E p \in Providers : SwitchProvider(c, p)
    \/ ToggleSave(c)
    \/ Exit(c)
    \/ Crash(c)

(* The types of what ChatProofs has no need of. *)
MoreTypes ==
    /\ cleared \in [Chats -> Nat]
    /\ prompt \in [Chats -> Seq(Entries)]

Same(d) ==
    /\ pc'[d] = pc[d] /\ on'[d] = on[d] /\ rec'[d] = rec[d] /\ cur'[d] = cur[d]
    /\ history'[d] = history[d] /\ cleared'[d] = cleared[d] /\ prompt'[d] = prompt[d]
    /\ d \in unsaved' <=> d \in unsaved

LEMMA OthersSame ==
    ASSUME TypeInv, MoreTypes, NEW c \in Chats, Acts(c), NEW d \in Chats, d # c
    PROVE  Same(d)
<1>1. /\ pc \in [Chats -> Places] /\ on \in [Chats -> Sessions \cup {NoOne}]
      /\ rec \in [Chats -> Records] /\ history \in [Chats -> Seq(Entries)]
      /\ cur \in [Chats -> Turns]
      /\ cleared \in [Chats -> Nat] /\ prompt \in [Chats -> Seq(Entries)]
  BY DEF TypeInv, PlaceTypes, TalkTypes, TurnTypes, MoreTypes
<1>2. CASE \E i \in Sessions, p \in Providers : StartNew(c, i, p) \/ Resume(c, i, p)
  BY <1>1, <1>2 DEF StartNew, Resume, Start, Same
<1>3. CASE Exit(c) \/ Crash(c)
  BY <1>1, <1>3 DEF Exit, Crash, Stop, Same
<1>4. CASE Reset(c) \/ (\E p \in Providers : SwitchProvider(c, p)) \/ ToggleSave(c)
  BY <1>1, <1>4 DEF Reset, SwitchProvider, ToggleSave, Command, Same
<1>5. CASE (\E p \in Providers : Ask(c, p)) \/ Send(c) \/ TurnFails(c)
  BY <1>1, <1>5 DEF Ask, Send, TurnFails, talkVars, Same
<1>6. CASE Reply(c) \/ Remember(c)
  BY <1>1, <1>6 DEF Reply, Remember, Persist, talkVars, Same
<1>7. CASE CreateTmp(c) \/ WriteTmp(c) \/ Rename(c) \/ SaveFails(c)
  BY <1>1, <1>7 DEF CreateTmp, WriteTmp, Rename, SaveFails, TurnEnds, talkVars, Same
<1> QED BY <1>2, <1>3, <1>4, <1>5, <1>6, <1>7 DEF Acts, Turn

LEMMA NextActs ==
    ASSUME [Next]_vars
    PROVE  \/ UNCHANGED vars
           \/ \E c \in Chats : Acts(c)
           \/ \E i \in Sessions : RemoveSession(i)
BY DEF Next, Acts

LEMMA MoreTypesStep == TypeInv /\ MoreTypes /\ [Next]_vars => MoreTypes'
<1> SUFFICES ASSUME TypeInv, MoreTypes, [Next]_vars PROVE MoreTypes'
  OBVIOUS
<1>1. /\ history \in [Chats -> Seq(Entries)] /\ rec \in [Chats -> Records]
  BY DEF TypeInv, TalkTypes
<1>2. ASSUME NEW h \in Seq(Entries) PROVE Recent(h) \in Seq(Entries)
  <2>1. Window \in Nat /\ Len(h) \in Nat
    OBVIOUS
  <2>2. CASE Len(h) <= Window
    BY <2>2 DEF Recent
  <2>3. CASE ~(Len(h) <= Window)
    <3>1. \A i \in (Len(h) - Window + 1)..Len(h) : h[i] \in Entries
      BY <2>1, <2>3
    <3> QED BY <2>1, <2>3, <3>1, SubSeqProperties DEF Recent
  <2> QED BY <2>2, <2>3
<1>3. ASSUME NEW c \in Chats, Send(c) PROVE MoreTypes'
  BY <1>1, <1>2, <1>3 DEF Send, MoreTypes
<1>4. \A c \in Chats : Len(rec[c].messages) \in Nat
  BY <1>1 DEF Records
<1>5. ASSUME NEW c \in Chats, Reset(c) PROVE MoreTypes'
  BY <1>4, <1>5 DEF Reset, Command, MoreTypes
<1>6. ASSUME NEW c \in Chats, Acts(c), ~Send(c), ~Reset(c) PROVE MoreTypes'
  <2>1. /\ cleared' = cleared \/ cleared' = [cleared EXCEPT ![c] = 0]
        /\ prompt' = prompt \/ prompt' = [prompt EXCEPT ![c] = <<>>]
    <3>1. CASE (\E i \in Sessions, p \in Providers : StartNew(c, i, p) \/ Resume(c, i, p))
               \/ (\E p \in Providers : SwitchProvider(c, p)) \/ ToggleSave(c)
      BY <3>1 DEF StartNew, Resume, Start, SwitchProvider, ToggleSave, Command
    <3>2. CASE Exit(c) \/ Crash(c)
      BY <3>2 DEF Exit, Crash, Stop
    <3>3. CASE (\E p \in Providers : Ask(c, p)) \/ TurnFails(c) \/ Reply(c) \/ Remember(c)
      BY <3>3 DEF Ask, TurnFails, Reply, Remember, Persist, talkVars
    <3>4. CASE CreateTmp(c) \/ WriteTmp(c) \/ Rename(c) \/ SaveFails(c)
      BY <3>4 DEF CreateTmp, WriteTmp, Rename, SaveFails, TurnEnds, talkVars
    <3> QED BY <1>6, <3>1, <3>2, <3>3, <3>4 DEF Acts, Turn
  <2>2. <<>> \in Seq(Entries)
    OBVIOUS
  <2>3. cleared' \in [Chats -> Nat]
    BY <2>1 DEF MoreTypes
  <2>4. prompt' \in [Chats -> Seq(Entries)]
    BY <2>1, <2>2 DEF MoreTypes
  <2> QED BY <2>3, <2>4 DEF MoreTypes
<1>7. CASE UNCHANGED vars \/ \E i \in Sessions : RemoveSession(i)
  BY <1>7 DEF vars, RemoveSession, talkVars, MoreTypes
<1> QED BY <1>3, <1>5, <1>6, <1>7, NextActs
-----------------------------------------------------------------------------
Even(k) == k % 2 = 0

(* What is replayed.  h is the record ms from its message k + 1 on. *)
Replays(h, ms, k) ==
    /\ k \in 0..Len(ms) /\ Even(k)
    /\ Len(h) = Len(ms) - k
    /\ \A i \in 1..Len(h) : h[i] = Label(ms[k + i])

(* The record, with the exchange that is about to be added to it. *)
Pending(c) ==
    IF pc[c] = "remember"
    THEN rec[c].messages
         \o <<Question(cur[c].turn), Answer(cur[c].turn, cur[c].provider)>>
    ELSE rec[c].messages

Replaying(c) ==
    /\ Replays(history[c], Pending(c), cleared[c])
    /\ pc[c] = "off" => cleared[c] = 0
    /\ pc[c] = "wait" => prompt[c] = Recent(history[c])
HistoryInv == \A c \in Chats : Replaying(c)

LEMMA LabelsOf ==
    ASSUME NEW ms \in Seq(Messages)
    PROVE  /\ Labels(ms) \in Seq(Entries) /\ Len(Labels(ms)) = Len(ms)
           /\ \A i \in 1..Len(ms) : Labels(ms)[i] = Label(ms[i])
BY LabelTypes DEF Labels

LEMMA ReplaysSub ==
    ASSUME NEW ms \in Seq(Messages), NEW h \in Seq(Entries), NEW k, Replays(h, ms, k)
    PROVE  h = SubSeq(Labels(ms), k + 1, Len(ms))
<1>1. Labels(ms) \in Seq(Entries) /\ Len(Labels(ms)) = Len(ms)
      /\ \A i \in 1..Len(ms) : Labels(ms)[i] = Label(ms[i])
  BY LabelsOf
<1> DEFINE t == SubSeq(Labels(ms), k + 1, Len(ms))
<1>2. k \in Nat /\ Len(ms) \in Nat /\ k <= Len(ms)
  BY DEF Replays
<1>3. t \in Seq(Entries) /\ Len(t) = Len(ms) - k
      /\ \A i \in 1..(Len(ms) - k) : t[i] = Labels(ms)[k + i]
  BY <1>1, <1>2
<1>4. ASSUME NEW i \in 1..(Len(ms) - k) PROVE t[i] = Label(ms[k + i])
  <2>1. k + i \in 1..Len(ms)
    BY <1>2
  <2> HIDE DEF t
  <2> QED BY <1>1, <1>3, <2>1
<1> HIDE DEF t
<1>5. Len(h) = Len(t) /\ \A i \in 1..Len(h) : h[i] = t[i]
  BY <1>3, <1>4 DEF Replays
<1>6. h = t
  BY <1>3, <1>5
<1> QED BY <1>6 DEF t

(* Two elements more. *)
LEMMA TwoMore ==
    ASSUME NEW S, NEW s \in Seq(S), NEW two \in Seq(S), Len(two) = 2
    PROVE  /\ Len(s \o two) = Len(s) + 2
           /\ \A i \in 1..Len(s) : (s \o two)[i] = s[i]
           /\ (s \o two)[Len(s) + 1] = two[1]
           /\ (s \o two)[Len(s) + 2] = two[2]
<1>1. Len(s) \in Nat
  OBVIOUS
<1>0. Len(s \o two) = Len(s) + Len(two)
      /\ \A i \in 1..(Len(s) + Len(two)) :
            (s \o two)[i] = IF i <= Len(s) THEN s[i] ELSE two[i - Len(s)]
  BY ConcatProperties
<1>2. Len(s \o two) = Len(s) + 2
      /\ \A i \in 1..(Len(s) + 2) : (s \o two)[i] = IF i <= Len(s) THEN s[i] ELSE two[i - Len(s)]
  BY <1>0
<1> QED BY <1>1, <1>2

LEMMA ReplaysMore ==
    ASSUME NEW ms \in Seq(Messages), NEW h \in Seq(Entries), NEW k, Replays(h, ms, k),
           NEW n \in 1..MaxAsked, NEW p \in Providers
    PROVE  Replays(h \o Labels(<<Question(n), Answer(n, p)>>),
                   ms \o <<Question(n), Answer(n, p)>>, k)
<1> DEFINE two == <<Question(n), Answer(n, p)>>
           g == h \o Labels(two)
           ns == ms \o two
<1>1. two \in Seq(Messages) /\ Len(two) = 2 /\ two[1] = Question(n) /\ two[2] = Answer(n, p)
  BY MessageTypes
<1> HIDE DEF two
<1>2. Labels(two) \in Seq(Entries) /\ Len(Labels(two)) = 2
      /\ Labels(two)[1] = Label(two[1]) /\ Labels(two)[2] = Label(two[2])
  <2>1. Labels(two) \in Seq(Entries) /\ Len(Labels(two)) = Len(two)
        /\ \A i \in 1..Len(two) : Labels(two)[i] = Label(two[i])
    BY <1>1, LabelsOf
  <2>2. 1 \in 1..Len(two) /\ 2 \in 1..Len(two)
    BY <1>1
  <2> QED BY <1>1, <2>1, <2>2
<1>3. Len(g) = Len(h) + 2 /\ (\A i \in 1..Len(h) : g[i] = h[i])
      /\ g[Len(h) + 1] = Label(two[1]) /\ g[Len(h) + 2] = Label(two[2])
  BY <1>2, TwoMore
<1>4. Len(ns) = Len(ms) + 2 /\ (\A i \in 1..Len(ms) : ns[i] = ms[i])
      /\ ns[Len(ms) + 1] = two[1] /\ ns[Len(ms) + 2] = two[2]
  BY <1>1, TwoMore
<1> HIDE DEF g, ns
<1>5. k \in Nat /\ Even(k) /\ Len(h) \in Nat /\ Len(ms) \in Nat /\ Len(h) = Len(ms) - k
  BY DEF Replays
<1>6. ASSUME NEW i \in 1..Len(g) PROVE g[i] = Label(ns[k + i])
  <2>1. CASE i \in 1..Len(h)
    <3>1. k + i \in 1..Len(ms)
      BY <1>5, <2>1
    <3>2. h[i] = Label(ms[k + i])
      BY <2>1 DEF Replays
    <3>3. g[i] = h[i] /\ ns[k + i] = ms[k + i]
      BY <1>3, <1>4, <2>1, <3>1
    <3> QED BY <3>2, <3>3
  <2>2. CASE i = Len(h) + 1
    <3>1. k + i = Len(ms) + 1
      BY <1>5, <2>2
    <3> QED BY <1>3, <1>4, <2>2, <3>1
  <2>3. CASE i = Len(h) + 2
    <3>1. k + i = Len(ms) + 2
      BY <1>5, <2>3
    <3> QED BY <1>3, <1>4, <2>3, <3>1
  <2>4. i \in 1..Len(h) \/ i = Len(h) + 1 \/ i = Len(h) + 2
    <3>1. Len(g) = Len(h) + 2 /\ Len(h) \in Nat
      BY <1>3, <1>5
    <3> QED BY <3>1
  <2> QED BY <2>1, <2>2, <2>3, <2>4
<1>7. k \in 0..Len(ns) /\ Len(g) = Len(ns) - k
  BY <1>3, <1>4, <1>5
<1>8. Replays(g, ns, k)
  BY <1>5, <1>6, <1>7 DEF Replays
<1> QED BY <1>8 DEF g, ns, two

LEMMA ReplaysAll ==
    ASSUME NEW ms \in Seq(Messages)
    PROVE  Replays(Labels(ms), ms, 0)
<1>1. Len(Labels(ms)) = Len(ms) /\ \A i \in 1..Len(ms) : Labels(ms)[i] = Label(ms[i])
  BY LabelsOf
<1> QED BY <1>1 DEF Replays, Even

LEMMA ReplaysNone ==
    ASSUME NEW ms \in Seq(Messages), Len(ms) % 2 = 0
    PROVE  Replays(<<>>, ms, Len(ms))
BY DEF Replays, Even

LEMMA SameReplaying ==
    ASSUME NEW d \in Chats, Replaying(d), Same(d)
    PROVE  Replaying(d)'
BY DEF Replaying, Same, Pending, Recent

LEMMA ActReplaying ==
    ASSUME TypeInv, MoreTypes, RecordInv, NEW c \in Chats, Replaying(c), Acts(c)
    PROVE  Replaying(c)'
<1>0. /\ pc \in [Chats -> Places] /\ rec \in [Chats -> Records]
      /\ history \in [Chats -> Seq(Entries)] /\ cur \in [Chats -> Turns]
      /\ cleared \in [Chats -> Nat] /\ prompt \in [Chats -> Seq(Entries)]
      /\ rec[c].messages \in Seq(Messages)
  BY RecordsAreSeqs DEF TypeInv, PlaceTypes, TalkTypes, TurnTypes, MoreTypes
<1>1. ASSUME NEW i \in Sessions, NEW p \in Providers, StartNew(c, i, p) \/ Resume(c, i, p)
      PROVE  Replaying(c)'
  <2>1. PICK r \in Records : Start(c, i, r, p)
    BY <1>1, RecordTypes DEF StartNew, Resume, TypeInv, DiskTypes, Files
  <2>2. /\ pc[c] = "off" /\ pc'[c] = "ready" /\ rec'[c] = r
        /\ history'[c] = Labels(r.messages) /\ cleared'[c] = cleared[c]
    BY <1>0, <2>1 DEF Start
  <2>3. Replays(Labels(r.messages), r.messages, 0)
    BY ReplaysAll DEF Records
  <2> QED BY <2>2, <2>3 DEF Replaying, Pending
<1>2. CASE Exit(c) \/ Crash(c)
  <2>1. pc'[c] = "off" /\ rec'[c] = NoRecord /\ history'[c] = <<>> /\ cleared'[c] = 0
    BY <1>0, <1>2 DEF Exit, Crash, Stop
  <2>2. NoRecord.messages = <<>>
    BY DEF NoRecord, NewRecord
  <2>3. Replays(<<>>, <<>>, 0)
    BY DEF Replays, Even
  <2> QED BY <2>1, <2>2, <2>3 DEF Replaying, Pending
<1>3. CASE \E p \in Providers : Ask(c, p)
  <2>1. /\ pc[c] = "ready" /\ pc'[c] = "build" /\ rec'[c] = rec[c]
        /\ history'[c] = history[c] /\ cleared'[c] = cleared[c]
    BY <1>0, <1>3 DEF Ask, talkVars
  <2> QED BY <2>1 DEF Replaying, Pending
<1>4. CASE Send(c)
  <2>1. /\ pc[c] = "build" /\ pc'[c] = "wait" /\ rec'[c] = rec[c]
        /\ history'[c] = history[c] /\ cleared'[c] = cleared[c]
        /\ prompt'[c] = Recent(history[c])
    BY <1>0, <1>4 DEF Send
  <2> QED BY <2>1 DEF Replaying, Pending, Recent
<1>5. CASE TurnFails(c)
  <2>1. /\ pc[c] \in {"build", "wait"} /\ pc'[c] = "ready" /\ rec'[c] = rec[c]
        /\ history'[c] = history[c] /\ cleared'[c] = cleared[c]
    BY <1>0, <1>5 DEF TurnFails
  <2> QED BY <2>1 DEF Replaying, Pending
<1>6. CASE Reply(c)
  <2> DEFINE n == cur[c].turn
             p == cur[c].provider
             two == <<Question(n), Answer(n, p)>>
  <2>1. n \in 1..MaxAsked /\ p \in Providers
    BY <1>6 DEF Reply, TypeInv, TurnTypes
  <2>2. /\ pc[c] = "wait" /\ pc'[c] = "remember" /\ cur' = cur
        /\ history'[c] = history[c] \o Labels(two) /\ cleared'[c] = cleared[c]
    BY <1>0, <1>6 DEF Reply
  <2>3. rec'[c].messages = rec[c].messages
    <3>1. rec'[c] = rec[c] \/ rec'[c] = [rec[c] EXCEPT !.backend = n]
      BY <1>0, <1>6 DEF Reply
    <3>2. [rec[c] EXCEPT !.backend = n].messages = rec[c].messages
      BY <1>0 DEF Records
    <3> QED BY <3>1, <3>2
  <2>4. Replays(history[c], rec[c].messages, cleared[c])
    BY <2>2 DEF Replaying, Pending
  <2>5. Replays(history[c] \o Labels(two), rec[c].messages \o two, cleared[c])
    BY <1>0, <2>1, <2>4, ReplaysMore
  <2>6. Pending(c)' = rec[c].messages \o two
    BY <2>2, <2>3 DEF Pending
  <2> HIDE DEF two
  <2> QED BY <2>2, <2>5, <2>6 DEF Replaying
<1>7. CASE Remember(c)
  <2> DEFINE two == <<Question(cur[c].turn), Answer(cur[c].turn, cur[c].provider)>>
  <2>1. /\ pc[c] = "remember" /\ pc'[c] = "create"
        /\ history'[c] = history[c] /\ cleared'[c] = cleared[c]
    BY <1>0, <1>7 DEF Remember, Persist
  <2>2. rec'[c].messages = rec[c].messages \o two
    <3>1. rec'[c] = [rec[c] EXCEPT !.messages = rec[c].messages \o two, !.provider = active[c]]
      BY <1>0, <1>7 DEF Remember, Persist
    <3> QED BY <1>0, <3>1 DEF Records
  <2>3. Pending(c)' = Pending(c)
    BY <2>1, <2>2 DEF Pending
  <2> QED BY <2>1, <2>3 DEF Replaying
<1>8. CASE CreateTmp(c) \/ WriteTmp(c) \/ Rename(c) \/ SaveFails(c)
  <2>1. /\ pc[c] \in {"create", "write", "rename"} /\ pc'[c] \in {"write", "rename", "ready"}
        /\ rec'[c] = rec[c] /\ history'[c] = history[c] /\ cleared'[c] = cleared[c]
    BY <1>0, <1>8 DEF CreateTmp, WriteTmp, Rename, SaveFails, TurnEnds, talkVars
  <2> QED BY <2>1 DEF Replaying, Pending
<1>9. CASE Reset(c)
  <2>1. /\ pc[c] = "ready" /\ pc'[c] = "ready" /\ rec'[c] = rec[c]
        /\ history'[c] = <<>> /\ cleared'[c] = Len(rec[c].messages)
    BY <1>0, <1>9 DEF Reset, Command
  <2>2. Len(rec[c].messages) % 2 = 0
    BY <1>0, FaithfulEnd DEF RecordInv
  <2>3. Replays(<<>>, rec[c].messages, Len(rec[c].messages))
    BY <1>0, <2>2, ReplaysNone
  <2> QED BY <2>1, <2>3 DEF Replaying, Pending
<1>10. CASE (\E p \in Providers : SwitchProvider(c, p)) \/ ToggleSave(c)
  <2>1. /\ pc[c] = "ready" /\ pc'[c] = "ready" /\ rec'[c] = rec[c]
        /\ history'[c] = history[c] /\ cleared'[c] = cleared[c]
    BY <1>0, <1>10 DEF SwitchProvider, ToggleSave, Command
  <2> QED BY <2>1 DEF Replaying, Pending
<1> QED BY <1>1, <1>2, <1>3, <1>4, <1>5, <1>6, <1>7, <1>8, <1>9, <1>10 DEF Acts, Turn

LEMMA NextHistory ==
    TypeInv /\ MoreTypes /\ RecordInv /\ HistoryInv /\ [Next]_vars => HistoryInv'
<1> SUFFICES ASSUME TypeInv, MoreTypes, RecordInv, HistoryInv, [Next]_vars PROVE HistoryInv'
  OBVIOUS
<1>1. ASSUME NEW c \in Chats, Acts(c) PROVE HistoryInv'
  <2> SUFFICES ASSUME NEW d \in Chats PROVE Replaying(d)'
    BY DEF HistoryInv
  <2>1. Replaying(d)
    BY DEF HistoryInv
  <2>2. CASE d = c
    BY <1>1, <2>1, <2>2, ActReplaying
  <2>3. CASE d # c
    <3>1. Same(d)
      BY <1>1, <2>3, OthersSame
    <3> QED BY <2>1, <3>1, SameReplaying
  <2> QED BY <2>2, <2>3
<1>2. CASE UNCHANGED vars \/ \E i \in Sessions : RemoveSession(i)
  <2>1. \A d \in Chats : Same(d)
    <3>1. UNCHANGED <<pc, on, rec, cur, history, cleared, prompt, unsaved>>
      BY <1>2 DEF vars, RemoveSession, talkVars
    <3> QED BY <3>1 DEF Same
  <2> QED BY <2>1, SameReplaying DEF HistoryInv
<1> QED BY <1>1, <1>2, NextActs

(* Prefixes and suffixes, element by element. *)
LEMMA PrefixBy ==
    ASSUME NEW S, NEW s \in Seq(S), NEW t \in Seq(S),
           Len(s) <= Len(t), \A i \in 1..Len(s) : s[i] = t[i]
    PROVE  IsPrefix(s, t)
<1>1. Len(s) \in Nat /\ Len(t) \in Nat
  OBVIOUS
<1>2. \A i \in 1..Len(s) : s[i] \in S /\ t[i] \in S
  BY <1>1
<1> DEFINE a == SubSeq(s, 1, Len(s))
           b == SubSeq(t, 1, Len(s))
<1>3. a \in Seq(S) /\ Len(a) = Len(s) /\ \A i \in 1..Len(s) : a[i] = s[i]
  BY <1>1, <1>2
<1>4. b \in Seq(S) /\ Len(b) = Len(s) /\ \A i \in 1..Len(s) : b[i] = t[i]
  BY <1>1, <1>2
<1> HIDE DEF a, b
<1>5. a = b
  <2>1. Len(a) = Len(b) /\ \A i \in 1..Len(a) : a[i] = b[i]
    BY <1>3, <1>4
  <2> QED BY <1>3, <1>4, <2>1
<1> QED BY <1>5 DEF IsPrefix, a, b

LEMMA ReverseTypes ==
    ASSUME NEW S, NEW s \in Seq(S)
    PROVE  /\ Reverse(s) \in Seq(S) /\ Len(Reverse(s)) = Len(s)
           /\ \A i \in 1..Len(s) : Reverse(s)[i] = s[Len(s) - i + 1]
<1>1. \A i \in 1..Len(s) : s[(Len(s) - i) + 1] \in S
  OBVIOUS
<1> QED BY <1>1 DEF Reverse

LEMMA SuffixFrom ==
    ASSUME NEW S, NEW t \in Seq(S), NEW m \in 0..Len(t)
    PROVE  IsSuffix(SubSeq(t, m + 1, Len(t)), t)
<1> DEFINE s == SubSeq(t, m + 1, Len(t))
<1>0. Len(t) \in Nat
  OBVIOUS
<1>1. s \in Seq(S) /\ Len(s) = Len(t) - m /\ \A i \in 1..(Len(t) - m) : s[i] = t[m + i]
  BY <1>0
<1> HIDE DEF s
<1>2. /\ Reverse(s) \in Seq(S) /\ Len(Reverse(s)) = Len(s)
      /\ \A i \in 1..Len(s) : Reverse(s)[i] = s[Len(s) - i + 1]
  BY <1>1, ReverseTypes
<1>3. /\ Reverse(t) \in Seq(S) /\ Len(Reverse(t)) = Len(t)
      /\ \A i \in 1..Len(t) : Reverse(t)[i] = t[Len(t) - i + 1]
  BY ReverseTypes
<1>4. ASSUME NEW i \in 1..Len(s) PROVE Reverse(s)[i] = Reverse(t)[i]
  <2>0. Len(s) \in Nat /\ Len(s) - i + 1 \in 1..(Len(t) - m)
    BY <1>0, <1>1
  <2>1. Reverse(s)[i] = s[Len(s) - i + 1] /\ Len(s) - i + 1 \in 1..(Len(t) - m)
    BY <1>2, <2>0
  <2>2. s[Len(s) - i + 1] = t[m + (Len(s) - i + 1)]
    BY <1>1, <2>1
  <2>3. m + (Len(s) - i + 1) = Len(t) - i + 1 /\ i \in 1..Len(t)
    BY <1>0, <1>1
  <2> QED BY <1>3, <2>1, <2>2, <2>3
<1>5. IsPrefix(Reverse(s), Reverse(t))
  <2>1. Len(Reverse(s)) <= Len(Reverse(t))
    BY <1>0, <1>1, <1>2, <1>3
  <2> QED BY <1>2, <1>3, <1>4, <2>1, PrefixBy
<1> QED BY <1>5 DEF IsSuffix, s

(* What the last of a history is. *)
LEMMA RecentIsSuffix ==
    ASSUME NEW h \in Seq(Entries)
    PROVE  \E m \in 0..Len(h) :
             /\ Recent(h) = SubSeq(h, m + 1, Len(h)) /\ Len(Recent(h)) = Len(h) - m
             /\ m = 0 => Recent(h) = h
             /\ m # 0 => Len(h) - m = Window
<1>1. Len(h) \in Nat /\ Window \in Nat
  OBVIOUS
<1>2. CASE Len(h) <= Window
  <2>1. SubSeq(h, 1, Len(h)) = h
    <3> DEFINE a == SubSeq(h, 1, Len(h))
    <3>1. a \in Seq(Entries) /\ Len(a) = Len(h) /\ \A i \in 1..Len(h) : a[i] = h[i]
      BY <1>1
    <3> HIDE DEF a
    <3>2. a = h
      BY <3>1
    <3> QED BY <3>2 DEF a
  <2>2. Recent(h) = h
    BY <1>2 DEF Recent
  <2>3. 0 \in 0..Len(h) /\ Recent(h) = SubSeq(h, 0 + 1, Len(h)) /\ Len(Recent(h)) = Len(h) - 0
    BY <1>1, <2>1, <2>2
  <2> QED BY <2>2, <2>3
<1>3. CASE ~(Len(h) <= Window)
  <2> DEFINE m == Len(h) - Window
  <2>1. m \in 0..Len(h) /\ m # 0 /\ Len(h) - m = Window
    BY <1>1, <1>3
  <2>2. Recent(h) = SubSeq(h, m + 1, Len(h))
    BY <1>3 DEF Recent
  <2>3. Len(SubSeq(h, m + 1, Len(h))) = Len(h) - m
    BY <1>1, <2>1
  <2> QED BY <2>1, <2>2, <2>3
<1> QED BY <1>2, <1>3

LEMMA Parity ==
    /\ \A a, b, d, m \in Nat :
          a % 2 = 0 /\ b % 2 = 0 /\ d = a - b /\ (m # 0 => d - m = Window) => m % 2 = 0
    /\ \A a, b \in Nat : a % 2 = 0 /\ b % 2 = 0 => (a + (b + 1)) % 2 = 1
OBVIOUS

(* A question is at every odd place of a faithful transcript. *)
LEMMA QuestionsAreUsers ==
    ASSUME NEW ms \in Seq(Messages), NEW b, FaithfulBy(ms, b),
           NEW k \in 1..Len(ms), k % 2 = 1
    PROVE  Label(ms[k]).role = "User"
<1>1. ms[k] = Question(ms[k].turn)
  BY DEF FaithfulBy
<1>2. ms[k].role = "user"
  BY <1>1 DEF Question
<1> QED BY <1>2 DEF Label

LEMMA HistoryFollows == TypeInv /\ MoreTypes /\ RecordInv /\ HistoryInv => HistoryIsRecord
<1> SUFFICES ASSUME TypeInv, MoreTypes, RecordInv, HistoryInv,
                    NEW c \in Chats, pc[c] \in {"ready", "build", "wait"}
             PROVE  LET h == SubSeq(Labels(rec[c].messages), cleared[c] + 1,
                                    Len(rec[c].messages)) IN
                    /\ history[c] = h
                    /\ pc[c] = "wait" => /\ IsSuffix(prompt[c], h)
                                         /\ Len(prompt[c]) = Window \/ prompt[c] = h
                                         /\ prompt[c] # << >> => prompt[c][1].role = "User"
  BY DEF HistoryIsRecord
<1> DEFINE h == history[c]
           ms == rec[c].messages
           k == cleared[c]
<1>1. ms \in Seq(Messages) /\ h \in Seq(Entries) /\ FaithfulBy(ms, by)
  BY RecordsAreSeqs DEF TypeInv, TalkTypes, RecordInv
<1>2. Replays(h, ms, k)
  BY DEF HistoryInv, Replaying, Pending
<1>3. h = SubSeq(Labels(ms), k + 1, Len(ms))
  BY <1>1, <1>2, ReplaysSub
<1>4. ASSUME pc[c] = "wait"
      PROVE  /\ IsSuffix(prompt[c], h)
             /\ Len(prompt[c]) = Window \/ prompt[c] = h
             /\ prompt[c] # << >> => prompt[c][1].role = "User"
  <2>1. prompt[c] = Recent(h)
    BY <1>4 DEF HistoryInv, Replaying
  <2>2. PICK m \in 0..Len(h) :
             /\ Recent(h) = SubSeq(h, m + 1, Len(h)) /\ Len(Recent(h)) = Len(h) - m
             /\ m = 0 => Recent(h) = h
             /\ m # 0 => Len(h) - m = Window
    BY <1>1, RecentIsSuffix
  <2> DEFINE s == SubSeq(h, m + 1, Len(h))
  <2>3. IsSuffix(s, h)
    BY <1>1, SuffixFrom
  <2>4. Len(prompt[c]) = Window \/ prompt[c] = h
    BY <2>1, <2>2
  <2>5. ASSUME s # <<>> PROVE s[1].role = "User"
    <3>0. /\ Len(h) \in Nat /\ Len(ms) \in Nat /\ k \in 0..Len(ms) /\ Even(k)
          /\ Len(h) = Len(ms) - k /\ \A i \in 1..Len(h) : h[i] = Label(ms[k + i])
      BY <1>1, <1>2 DEF Replays
    <3>1. s \in Seq(Entries) /\ Len(s) = Len(h) - m
      BY <1>1, <2>2
    <3>2. Len(s) # 0
      <4> HIDE DEF s, h
      <4> QED BY <2>5, <3>1
    <3>3. m < Len(h)
      BY <3>0, <3>1, <3>2
    <3>4. s[1] = h[m + 1]
      BY <1>1, <3>3
    <3>5. s[1] = Label(ms[k + (m + 1)]) /\ k + (m + 1) \in 1..Len(ms)
      <4>1. m + 1 \in 1..Len(h)
        BY <3>0, <3>3
      <4>2. h[m + 1] = Label(ms[k + (m + 1)])
        BY <3>0, <4>1
      <4> HIDE DEF s, h, ms, k
      <4> QED BY <3>0, <3>4, <4>1, <4>2
    <3>6. Len(ms) % 2 = 0
      BY <1>1, FaithfulEnd
    <3>7. m \in Nat /\ m % 2 = 0
      <4> DEFINE lh == Len(h)
                 lm == Len(ms)
      <4>1. lh \in Nat /\ lm \in Nat /\ k \in Nat /\ m \in Nat /\ lh = lm - k
            /\ (m # 0 => lh - m = Window)
        BY <2>2, <3>0
      <4>2. lm % 2 = 0 /\ k % 2 = 0
        BY <3>0, <3>6 DEF Even
      <4> HIDE DEF lh, lm, k
      <4> QED BY <4>1, <4>2, Parity
    <3>8. (k + (m + 1)) % 2 = 1
      <4> HIDE DEF ms, k, h
      <4> QED BY <3>0, <3>7, Parity DEF Even
    <3> HIDE DEF ms, k, h, s
    <3> QED BY <1>1, <3>5, <3>8, QuestionsAreUsers
  <2> HIDE DEF s
  <2> QED BY <2>1, <2>2, <2>3, <2>4, <2>5 DEF s
<1> QED BY <1>3, <1>4

LEMMA InitHistory == Init => MoreTypes /\ HistoryInv
<1> SUFFICES ASSUME Init PROVE MoreTypes /\ HistoryInv
  OBVIOUS
<1>1. <<>> \in Seq(Entries)
  OBVIOUS
<1>2. MoreTypes
  BY <1>1 DEF Init, MoreTypes
<1>3. NoRecord.messages = <<>>
  BY DEF NoRecord, NewRecord
<1>4. Replays(<<>>, <<>>, 0)
  BY DEF Replays, Even
<1>5. HistoryInv
  BY <1>3, <1>4 DEF Init, HistoryInv, Replaying, Pending
<1> QED BY <1>2, <1>5

(* The strengthened invariant of ChatProofs, for use here. *)
TranscriptInv == TypeInv /\ AnswerInv /\ RecordInv

LEMMA TranscriptsAreSound == Spec => []TranscriptInv
<1>1. Init => TranscriptInv
  <2> SUFFICES ASSUME Init PROVE AnswerInv /\ RecordInv
    BY InitTypes DEF TranscriptInv
  <2>1. AnswerInv
    BY DEF Init, AnswerInv, InTalk
  <2>2. \A c \in Chats : rec[c] = NoRecord /\ ~InTalk(c)
    BY DEF Init, InTalk
  <2>3. \A i \in Sessions : live[i].text # "whole" /\ tmp[i].text # "whole"
    BY DEF Init, Missing
  <2> QED BY <2>1, <2>2, <2>3, FaithfulEmpty DEF RecordInv
<1>2. TranscriptInv /\ [Next]_vars => TranscriptInv'
  BY NextTypes, NextAnswers, NextRecords DEF TranscriptInv
<1> QED BY <1>1, <1>2, PTL DEF Spec

(* What a chat replays to a provider is what its session says since the last
   /reset, whole exchanges and nothing else, through failed turns, failed
   saves, resumes and chats that share a session. *)
THEOREM HistoryFollowsTheRecord == Spec => []HistoryIsRecord
<1>1. TranscriptInv /\ MoreTypes /\ HistoryInv /\ [Next]_vars => MoreTypes' /\ HistoryInv'
  BY MoreTypesStep, NextHistory DEF TranscriptInv
<1>2. TranscriptInv /\ MoreTypes /\ HistoryInv => HistoryIsRecord
  BY HistoryFollows DEF TranscriptInv
<1> QED BY <1>1, <1>2, InitHistory, TranscriptsAreSound, PTL DEF Spec
-----------------------------------------------------------------------------
(* The file of a session.  An id that was not minted has no file and no chat. *)
MintInv == \A i \in Sessions \ minted : live[i].text = "missing" /\ \A c \in Chats : on[c] # i

Extends(s, t) == Len(s) <= Len(t) /\ \A i \in 1..Len(s) : s[i] = t[i]

(* A chat that has its session to itself: the file is as it was last saved or
   opened, and the save in progress has its temporary file to itself. *)
Owns(c) ==
    LET i == on[c] IN
    /\ \A d \in Chats : d # c => on[d] # i
    /\ pc[c] \in {"ready", "build", "wait"} /\ c \notin unsaved =>
         live[i].text = "missing" \/ live[i] = Whole(rec[c])
    /\ pc[c] = "write" => fd[c] = "tmp" /\ tmp[i] = EmptyFile
    /\ pc[c] = "rename" => tmp[i] = Whole(rec[c])
    /\ live[i].text = "whole" => Extends(live[i].rec.messages, rec[c].messages)
OwnInv == \A c \in Chats : pc[c] # "off" /\ on[c] \notin shared => Owns(c)

(* A chat touches the files of its own session only. *)
LEMMA OtherFiles ==
    ASSUME TypeInv, NEW c \in Chats, Acts(c)
    PROVE  /\ \A i \in Sessions : i # on[c] => live'[i] = live[i] /\ tmp'[i] = tmp[i]
           /\ pc[c] \notin {"create", "write", "rename"} => live' = live /\ tmp' = tmp
           /\ \A d \in Chats : d # c /\ on[d] # on[c] => fd'[d] = fd[d]
<1>0. /\ live \in [Sessions -> Files] /\ tmp \in [Sessions -> Files]
      /\ fd \in [Chats -> {"none", "tmp", "live", "gone"}]
  BY DEF TypeInv, DiskTypes
<1>1. CASE \E i \in Sessions, p \in Providers : StartNew(c, i, p) \/ Resume(c, i, p)
  BY <1>1 DEF StartNew, Resume, Start, diskVars
<1>2. CASE Exit(c) \/ Crash(c)
  BY <1>0, <1>2 DEF Exit, Crash, Stop
<1>3. CASE Reset(c) \/ (\E p \in Providers : SwitchProvider(c, p)) \/ ToggleSave(c)
  BY <1>3 DEF Reset, SwitchProvider, ToggleSave, Command, diskVars
<1>4. CASE (\E p \in Providers : Ask(c, p)) \/ Send(c) \/ TurnFails(c) \/ Reply(c) \/ Remember(c)
  BY <1>4 DEF Ask, Send, TurnFails, Reply, Remember, Persist, diskVars
<1>5. CASE CreateTmp(c)
  BY <1>0, <1>5 DEF CreateTmp
<1>6. CASE WriteTmp(c)
  BY <1>0, <1>6 DEF WriteTmp
<1>7. CASE Rename(c)
  BY <1>0, <1>7 DEF Rename, Unlinked
<1>8. CASE SaveFails(c)
  BY <1>0, <1>8 DEF SaveFails
<1> QED BY <1>1, <1>2, <1>3, <1>4, <1>5, <1>6, <1>7, <1>8 DEF Acts, Turn

(* Which session a chat is on, and when it becomes a shared one. *)
LEMMA WhereNext ==
    ASSUME TypeInv, NEW c \in Chats, Acts(c)
    PROVE  /\ shared \subseteq shared' /\ minted \subseteq minted'
           /\ on'[c] \in {on[c], NoOne} \/ on'[c] \in Sessions
           /\ on'[c] # on[c] =>
                \A d \in Chats : on[d] = on'[c] => d = c \/ on[d] \in shared' \cup {NoOne}
<1>0. on \in [Chats -> Sessions \cup {NoOne}]
  BY DEF TypeInv, PlaceTypes
<1>1. CASE \E i \in Sessions, p \in Providers : StartNew(c, i, p) \/ Resume(c, i, p)
  BY <1>0, <1>1 DEF StartNew, Resume, Start
<1>2. CASE Exit(c) \/ Crash(c)
  BY <1>0, <1>2 DEF Exit, Crash, Stop, histVars
<1>3. CASE Reset(c) \/ (\E p \in Providers : SwitchProvider(c, p)) \/ ToggleSave(c)
  BY <1>0, <1>3 DEF Reset, SwitchProvider, ToggleSave, Command, histVars
<1>4. CASE (\E p \in Providers : Ask(c, p)) \/ Send(c) \/ TurnFails(c) \/ Reply(c) \/ Remember(c)
  BY <1>0, <1>4 DEF Ask, Send, TurnFails, Reply, Remember, Persist, histVars
<1>5. CASE CreateTmp(c) \/ WriteTmp(c) \/ Rename(c) \/ SaveFails(c)
  BY <1>0, <1>5 DEF CreateTmp, WriteTmp, Rename, SaveFails, TurnEnds, histVars
<1> QED BY <1>1, <1>2, <1>3, <1>4, <1>5 DEF Acts, Turn

LEMMA NextMint == TypeInv /\ MoreTypes /\ MintInv /\ [Next]_vars => MintInv'
<1> SUFFICES ASSUME TypeInv, MoreTypes, MintInv, [Next]_vars PROVE MintInv'
  OBVIOUS
<1>0. /\ live \in [Sessions -> Files] /\ on \in [Chats -> Sessions \cup {NoOne}]
      /\ \A c \in Chats : pc[c] # "off" => on[c] \in Sessions
  BY DEF TypeInv, DiskTypes, PlaceTypes
<1>1. ASSUME NEW c \in Chats, Acts(c) PROVE MintInv'
  <2> SUFFICES ASSUME NEW i \in Sessions \ minted'
               PROVE  live'[i].text = "missing" /\ \A d \in Chats : on'[d] # i
    BY DEF MintInv
  <2>1. i \notin minted /\ live[i].text = "missing" /\ \A d \in Chats : on[d] # i
    BY <1>1, WhereNext DEF MintInv
  <2>2. live'[i] = live[i]
    BY <1>1, <2>1, OtherFiles
  <2>3. \A d \in Chats : d # c => on'[d] = on[d]
    BY <1>1, OthersSame DEF Same
  <2>4. on'[c] # i
    <3>1. CASE \E j \in Sessions, p \in Providers : StartNew(c, j, p) \/ Resume(c, j, p)
      BY <1>0, <2>1, <3>1 DEF StartNew, Resume, Start
    <3>2. CASE Exit(c) \/ Crash(c)
      BY <1>0, <3>2 DEF Exit, Crash, Stop
    <3>3. CASE Reset(c) \/ (\E p \in Providers : SwitchProvider(c, p)) \/ ToggleSave(c)
      BY <2>1, <3>3 DEF Reset, SwitchProvider, ToggleSave, Command
    <3>4. CASE Turn(c)
      BY <2>1, <3>4 DEF Turn, Ask, Send, TurnFails, Reply, Remember, Persist,
                        CreateTmp, WriteTmp, Rename, SaveFails, TurnEnds
    <3> QED BY <1>1, <3>1, <3>2, <3>3, <3>4 DEF Acts
  <2> QED BY <2>1, <2>2, <2>3, <2>4
<1>2. ASSUME NEW i \in Sessions, RemoveSession(i) PROVE MintInv'
  BY <1>0, <1>2 DEF RemoveSession, histVars, Missing, MintInv
<1>3. CASE UNCHANGED vars
  BY <1>3 DEF vars, MintInv
<1> QED BY <1>1, <1>2, <1>3, NextActs

(* The chats that do nothing. *)
LEMMA OthersOwn ==
    ASSUME TypeInv, MoreTypes, OwnInv, NEW c \in Chats, Acts(c),
           NEW d \in Chats, d # c, pc'[d] # "off", on'[d] \notin shared'
    PROVE  Owns(d)'
<1>1. Same(d) /\ \A e \in Chats : e # c => on'[e] = on[e]
  BY OthersSame DEF Same
<1>2. pc[d] # "off" /\ on[d] \in Sessions /\ on[d] \notin shared' /\ on[d] \notin shared
  BY <1>1, WhereNext DEF Same, TypeInv, PlaceTypes
<1>3. Owns(d)
  BY <1>2 DEF OwnInv
<1>4. on[c] # on[d]
  BY <1>3 DEF Owns
<1>5. on'[c] # on[d]
  <2>1. CASE on'[c] = on[c]
    BY <1>4, <2>1
  <2>2. CASE on'[c] # on[c]
    <3>1. \A e \in Chats : on[e] = on'[c] => e = c \/ on[e] \in shared' \cup {NoOne}
      BY <2>2, WhereNext
    <3> QED BY <1>2, <3>1
  <2> QED BY <2>1, <2>2
<1>6. live'[on[d]] = live[on[d]] /\ tmp'[on[d]] = tmp[on[d]] /\ fd'[d] = fd[d]
  BY <1>2, <1>4, OtherFiles
<1>7. \A e \in Chats : e # d => on'[e] # on[d]
  BY <1>1, <1>3, <1>5 DEF Owns
<1> QED BY <1>1, <1>3, <1>6, <1>7 DEF Same, Owns, Extends, Whole, EmptyFile

(* The messages of a record. *)
LEMMA ExtendsMore ==
    ASSUME NEW s \in Seq(Messages), NEW t \in Seq(Messages), NEW two \in Seq(Messages),
           Len(two) = 2, Extends(s, t)
    PROVE  Extends(s, t \o two)
<1>1. Len(s) \in Nat /\ Len(t) \in Nat
  OBVIOUS
<1>2. Len(t \o two) = Len(t) + 2 /\ \A i \in 1..Len(t) : (t \o two)[i] = t[i]
  BY TwoMore
<1> QED BY <1>1, <1>2 DEF Extends

LEMMA ActOwns ==
    ASSUME TypeInv, MoreTypes, MintInv, OwnInv, NEW c \in Chats, Acts(c),
           pc'[c] # "off", on'[c] \notin shared'
    PROVE  Owns(c)'
<1>0. /\ pc \in [Chats -> Places] /\ on \in [Chats -> Sessions \cup {NoOne}]
      /\ rec \in [Chats -> Records] /\ live \in [Sessions -> Files] /\ tmp \in [Sessions -> Files]
      /\ fd \in [Chats -> {"none", "tmp", "live", "gone"}] /\ cur \in [Chats -> Turns]
      /\ rec[c].messages \in Seq(Messages)
      /\ pc[c] # "off" => on[c] \in Sessions
  BY RecordsAreSeqs DEF TypeInv, PlaceTypes, TalkTypes, DiskTypes, TurnTypes
<1>1. \A d \in Chats : d # c => on'[d] = on[d]
  BY OthersSame DEF Same
<1>2. CASE \E i \in Sessions, p \in Providers : StartNew(c, i, p) \/ Resume(c, i, p)
  <2>1. PICK i \in Sessions, p \in Providers : StartNew(c, i, p) \/ Resume(c, i, p)
    BY <1>2
  <2>2. PICK r : /\ Start(c, i, r, p)
                 /\ live[i].text = "missing" \/ live[i] = Whole(r)
    <3>1. CASE StartNew(c, i, p)
      BY <3>1 DEF StartNew, MintInv
    <3>2. CASE Resume(c, i, p)
      <4>1. live[i] = Whole(live[i].rec)
        BY <1>0, <3>2 DEF Resume, Files, Whole
      <4> QED BY <3>2, <4>1 DEF Resume
    <3> QED BY <2>1, <3>1, <3>2
  <2>3. /\ on'[c] = i /\ rec'[c] = r /\ pc'[c] = "ready" /\ live' = live
        /\ \A d \in Chats : on[d] = i => i \in shared'
    BY <1>0, <2>2 DEF Start, diskVars
  <2>4. \A d \in Chats : d # c => on'[d] # i
    BY <1>1, <2>3
  <2>5. live[i].text = "whole" => Extends(live[i].rec.messages, r.messages)
    <3>1. live[i].text = "whole" => live[i].rec = r
      BY <2>2 DEF Whole
    <3>2. Len(live[i].rec.messages) \in Nat
      BY RecordsAreSeqs
    <3> QED BY <3>1, <3>2 DEF Extends
  <2> QED BY <2>2, <2>3, <2>4, <2>5 DEF Owns, Whole, Extends
<1>3. CASE Exit(c) \/ Crash(c)
  BY <1>0, <1>3 DEF Exit, Crash, Stop
<1>4. ASSUME Turn(c) \/ Reset(c) \/ (\E p \in Providers : SwitchProvider(c, p)) \/ ToggleSave(c)
      PROVE  Owns(c)'
  <2>1. on' = on /\ shared' = shared /\ pc[c] # "off"
    <3>1. CASE Turn(c)
      BY <3>1 DEF Turn, Ask, Send, TurnFails, Reply, Remember, Persist,
                  CreateTmp, WriteTmp, Rename, SaveFails, TurnEnds, histVars
    <3>2. CASE Reset(c) \/ (\E p \in Providers : SwitchProvider(c, p)) \/ ToggleSave(c)
      BY <3>2 DEF Reset, SwitchProvider, ToggleSave, Command, histVars
    <3> QED BY <1>4, <3>1, <3>2
  <2>2. Owns(c) /\ on[c] \in Sessions
    BY <1>0, <2>1 DEF OwnInv
  <2> DEFINE i == on[c]
  <2>3. CASE Reset(c) \/ (\E p \in Providers : SwitchProvider(c, p)) \/ ToggleSave(c)
    <3>1. /\ UNCHANGED <<live, tmp, pc, rec, fd, unsaved>>
      BY <2>3 DEF Reset, SwitchProvider, ToggleSave, Command, diskVars
    <3> QED BY <2>1, <2>2, <3>1 DEF Owns, Extends, Whole, EmptyFile
  <2>4. CASE (\E p \in Providers : Ask(c, p)) \/ Send(c) \/ TurnFails(c)
    <3>1. /\ UNCHANGED <<live, tmp, rec, fd, unsaved>>
          /\ pc[c] \in {"ready", "build", "wait"} /\ pc'[c] \in {"ready", "build", "wait"}
      BY <1>0, <2>4 DEF Ask, Send, TurnFails, talkVars, diskVars
    <3> QED BY <2>1, <2>2, <3>1 DEF Owns, Extends, Whole, EmptyFile
  <2>5. CASE Reply(c)
    <3>1. UNCHANGED <<live, tmp>> /\ pc'[c] = "remember"
      BY <1>0, <2>5 DEF Reply, diskVars
    <3>2. rec'[c].messages = rec[c].messages
      <4>1. rec'[c] = rec[c] \/ rec'[c] = [rec[c] EXCEPT !.backend = cur[c].turn]
        BY <1>0, <2>5 DEF Reply
      <4>2. [rec[c] EXCEPT !.backend = cur[c].turn].messages = rec[c].messages
        BY <1>0 DEF Records
      <4> QED BY <4>1, <4>2
    <3> QED BY <2>1, <2>2, <3>1, <3>2 DEF Owns, Extends, Whole, EmptyFile
  <2>6. CASE Remember(c)
    <3> DEFINE two == <<Question(cur[c].turn), Answer(cur[c].turn, cur[c].provider)>>
    <3>1. UNCHANGED <<live, tmp>> /\ pc'[c] = "create"
      BY <1>0, <2>6 DEF Remember, Persist, diskVars
    <3>2. rec'[c].messages = rec[c].messages \o two
      <4>1. rec'[c] = [rec[c] EXCEPT !.messages = rec[c].messages \o two, !.provider = active[c]]
        BY <1>0, <2>6 DEF Remember, Persist
      <4> QED BY <1>0, <4>1 DEF Records
    <3>3. two \in Seq(Messages) /\ Len(two) = 2
      BY <2>6, MessageTypes DEF Remember, Persist, TypeInv, TurnTypes
    <3> HIDE DEF two
    <3>4. live[i].text = "whole" => Extends(live[i].rec.messages, rec'[c].messages)
      BY <1>0, <2>2, <3>2, <3>3, ExtendsMore, RecordsAreSeqs DEF Owns
    <3> QED BY <2>1, <2>2, <3>1, <3>4 DEF Owns, Extends, Whole, EmptyFile
  <2>7. CASE CreateTmp(c)
    <3>1. /\ UNCHANGED <<live, rec>> /\ pc'[c] = "write" /\ fd'[c] = "tmp" /\ tmp'[i] = EmptyFile
      BY <1>0, <2>2, <2>7 DEF CreateTmp, talkVars
    <3> QED BY <2>1, <2>2, <3>1 DEF Owns, Extends, Whole, EmptyFile
  <2>8. CASE WriteTmp(c)
    <3>1. pc[c] = "write" /\ pc'[c] = "rename" /\ UNCHANGED rec
      BY <1>0, <2>8 DEF WriteTmp, talkVars
    <3>2. fd[c] = "tmp" /\ tmp[i] = EmptyFile
      BY <2>2, <3>1 DEF Owns
    <3>3. Written(tmp[i], rec[c]) = {Whole(rec[c])}
      BY <3>2 DEF Written, EmptyFile
    <3>4. live' = live /\ tmp'[i] = Whole(rec[c])
      BY <1>0, <2>2, <2>8, <3>2, <3>3 DEF WriteTmp
    <3> QED BY <2>1, <2>2, <3>1, <3>4 DEF Owns, Extends, Whole, EmptyFile
  <2>9. CASE Rename(c)
    <3>1. /\ pc[c] = "rename" /\ pc'[c] = "ready" /\ UNCHANGED rec
          /\ live'[i] = tmp[i]
      BY <1>0, <2>2, <2>9 DEF Rename, TurnEnds, talkVars
    <3>2. live'[i] = Whole(rec[c])
      BY <2>2, <3>1 DEF Owns
    <3>3. Extends(rec[c].messages, rec[c].messages)
      BY <1>0 DEF Extends
    <3>4. live'[i].rec = rec[c]
      BY <3>2 DEF Whole
    <3> QED BY <2>1, <2>2, <3>1, <3>2, <3>3, <3>4 DEF Owns, Extends, Whole, EmptyFile
  <2>10. CASE SaveFails(c)
    <3>1. /\ UNCHANGED <<live, tmp, rec>> /\ c \in unsaved' /\ pc'[c] = "ready"
      BY <1>0, <2>10 DEF SaveFails, TurnEnds, talkVars
    <3> QED BY <2>1, <2>2, <3>1 DEF Owns, Extends, Whole, EmptyFile
  <2> QED BY <1>4, <2>3, <2>4, <2>5, <2>6, <2>7, <2>8, <2>9, <2>10 DEF Turn
<1> QED BY <1>2, <1>3, <1>4 DEF Acts

LEMMA NextOwn ==
    TypeInv /\ MoreTypes /\ MintInv /\ OwnInv /\ [Next]_vars => OwnInv'
<1> SUFFICES ASSUME TypeInv, MoreTypes, MintInv, OwnInv, [Next]_vars PROVE OwnInv'
  OBVIOUS
<1>1. ASSUME NEW c \in Chats, Acts(c) PROVE OwnInv'
  BY <1>1, OthersOwn, ActOwns DEF OwnInv
<1>2. ASSUME NEW j \in Sessions, RemoveSession(j) PROVE OwnInv'
  <2>1. UNCHANGED <<tmp, pc, on, rec, unsaved, shared>> /\ live' = [live EXCEPT ![j] = Missing]
        /\ fd' = Unlinked(j, [live |-> "gone"])
    BY <1>2 DEF RemoveSession, talkVars, histVars
  <2> SUFFICES ASSUME NEW d \in Chats, pc[d] # "off", on[d] \notin shared PROVE Owns(d)'
    BY <2>1 DEF OwnInv
  <2>2. Owns(d) /\ on[d] \in Sessions
    BY DEF OwnInv, TypeInv, PlaceTypes
  <2>3. live'[on[d]] = Missing \/ live'[on[d]] = live[on[d]]
    BY <2>1, <2>2 DEF TypeInv, DiskTypes
  <2>4. fd[d] = "tmp" => fd'[d] = "tmp"
    BY <2>1 DEF Unlinked
  <2> QED BY <2>1, <2>2, <2>3, <2>4 DEF Owns, Extends, Whole, EmptyFile, Missing
<1>3. CASE UNCHANGED vars
  BY <1>3 DEF vars, OwnInv, Owns, Extends, Whole, EmptyFile
<1> QED BY <1>1, <1>2, <1>3, NextActs

SessionInv == TypeInv /\ MoreTypes /\ MintInv /\ OwnInv

LEMMA InitSessions == Init => SessionInv
<1> SUFFICES ASSUME Init PROVE MintInv /\ OwnInv
  BY InitTypes, InitHistory DEF SessionInv
<1> QED BY DEF Init, MintInv, OwnInv, Missing

LEMMA NextSessions == SessionInv /\ [Next]_vars => SessionInv'
BY NextTypes, MoreTypesStep, NextMint, NextOwn DEF SessionInv

(* The session of a chat that has it to itself is on disk as it is in memory,
   once its last turn was saved: no failed save of an earlier turn, crash of an
   earlier chat or left-over temporary file shows through. *)
THEOREM SavedStaysCurrent == Spec => []SavedIsCurrent
<1>1. SessionInv => SavedIsCurrent
  BY DEF SessionInv, OwnInv, Owns, SavedIsCurrent
<1> QED BY <1>1, InitSessions, NextSessions, PTL DEF Spec

(* Whatever is killed or fails, and at whichever step of a save: a session that
   was never shared loses no exchange that was on disk. *)
THEOREM SavedSessionsGrow == Spec => SessionsOnlyGrow
<1>1. SessionInv /\ [Next]_vars => [OnlyGrows]_vars
  <2> SUFFICES ASSUME SessionInv, [Next]_vars, NEW i \in Sessions \ shared',
                      live[i].text = "whole"
               PROVE  \/ live'[i] = Missing /\ commands' = commands + 1
                      \/ /\ live'[i].text = "whole"
                         /\ IsPrefix(live[i].rec.messages, live'[i].rec.messages)
    BY DEF OnlyGrows
  <2> USE DEF SessionInv
  <2>0. /\ live \in [Sessions -> Files] /\ tmp \in [Sessions -> Files]
        /\ live[i].rec.messages \in Seq(Messages)
    BY RecordsAreSeqs DEF TypeInv, DiskTypes
  <2>1. IsPrefix(live[i].rec.messages, live[i].rec.messages)
    <3>1. Len(live[i].rec.messages) \in Nat
      BY <2>0
    <3> QED BY <2>0, <3>1, PrefixBy
  <2>2. ASSUME NEW c \in Chats, Acts(c)
        PROVE  live'[i].text = "whole" /\ IsPrefix(live[i].rec.messages, live'[i].rec.messages)
    <3>1. CASE live'[i] = live[i]
      BY <2>1, <3>1
    <3>2. CASE live'[i] # live[i]
      <4>1. on[c] = i /\ pc[c] \in {"create", "write", "rename"}
        BY <2>2, <3>2, OtherFiles
      <4>2. i \notin shared
        BY <2>2, WhereNext
      <4>3. Owns(c)
        BY <4>1, <4>2 DEF OwnInv
      <4>4. ~CreateTmp(c) /\ ~SaveFails(c)
        BY <3>2 DEF CreateTmp, SaveFails
      <4>5. ~WriteTmp(c)
        BY <3>2, <4>1, <4>3 DEF WriteTmp, Owns
      <4>6. Rename(c)
        <5>1. Turn(c)
          <6>1. live' # live
            BY <3>2
          <6>2. ~(\E k \in Sessions, p \in Providers : StartNew(c, k, p) \/ Resume(c, k, p))
            BY <4>1 DEF StartNew, Resume, Start
          <6>3. ~(Exit(c) \/ Crash(c))
            BY <6>1 DEF Exit, Crash, Stop
          <6>4. ~(Reset(c) \/ (\E p \in Providers : SwitchProvider(c, p)) \/ ToggleSave(c))
            BY <4>1 DEF Reset, SwitchProvider, ToggleSave, Command
          <6> QED BY <2>2, <6>2, <6>3, <6>4 DEF Acts
        <5>2. ~((\E p \in Providers : Ask(c, p)) \/ Send(c) \/ TurnFails(c)
                \/ Reply(c) \/ Remember(c))
          BY <4>1 DEF Ask, Send, TurnFails, Reply, Remember, Persist
        <5> QED BY <4>4, <4>5, <5>1, <5>2 DEF Turn
      <4>7. live'[i] = Whole(rec[c])
        BY <2>0, <4>1, <4>3, <4>6 DEF Rename, Owns
      <4>8. live'[i].text = "whole" /\ live'[i].rec = rec[c]
        BY <4>7 DEF Whole
      <4>9. IsPrefix(live[i].rec.messages, rec[c].messages)
        BY <4>1, <4>3, RecordsAreSeqs, PrefixBy DEF Owns, Extends
      <4> QED BY <4>8, <4>9
    <3> QED BY <3>1, <3>2
  <2>3. ASSUME NEW j \in Sessions, RemoveSession(j)
        PROVE  \/ live'[i] = Missing /\ commands' = commands + 1
               \/ live'[i] = live[i]
    BY <2>0, <2>3 DEF RemoveSession
  <2>4. CASE UNCHANGED vars
    BY <2>1, <2>4 DEF vars
  <2> QED BY <2>1, <2>2, <2>3, <2>4, NextActs
<1> QED BY <1>1, InitSessions, NextSessions, PTL DEF Spec, SessionsOnlyGrow
=============================================================================
