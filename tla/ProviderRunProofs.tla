------------------------- MODULE ProviderRunProofs --------------------------
(***************************************************************************)
(* Proofs about ProviderRun, for a pipe of any capacity and any number of  *)
(* lines written to it.                                                    *)
(***************************************************************************)
EXTENDS ProviderRun, SequenceTheorems, TLAPS

USE RunAssumption

(* Reading a line moves it from the pipe to the lines read. *)
LEMMA MoveHead ==
    ASSUME NEW S, NEW a \in Seq(S), NEW b \in Seq(S), b # << >>
    PROVE  /\ Append(a, Head(b)) \o Tail(b) = a \o b
           /\ Append(a, Head(b)) \in Seq(S)
           /\ Tail(b) \in Seq(S)
<1>1. Head(b) \in S /\ Tail(b) \in Seq(S)
  BY HeadTailProperties
<1>2. Append(a, Head(b)) = a \o <<Head(b)>>
  BY <1>1, AppendIsConcat
<1>3. <<Head(b)>> \o Tail(b) = b
  <2>1. <<Head(b)>> \in Seq(S) /\ <<Head(b)>> \o Tail(b) \in Seq(S)
    BY <1>1, ConcatProperties
  <2>2. Len(<<Head(b)>> \o Tail(b)) = Len(b)
    BY <1>1, <2>1, ConcatProperties, HeadTailProperties, LenProperties
  <2>3. ASSUME NEW i \in 1..Len(b) PROVE (<<Head(b)>> \o Tail(b))[i] = b[i]
    BY <1>1, <2>1, <2>2, ConcatProperties, HeadTailProperties, LenProperties
  <2> QED BY <2>1, <2>2, <2>3, SeqEqual
<1>4. (a \o <<Head(b)>>) \o Tail(b) = a \o (<<Head(b)>> \o Tail(b))
  BY <1>1, ConcatAssociative
<1> QED BY <1>1, <1>2, <1>3, <1>4

(* Writing a line extends the pipe and the whole alike. *)
LEMMA MoveLast ==
    ASSUME NEW S, NEW a \in Seq(S), NEW b \in Seq(S), NEW e \in S
    PROVE  a \o Append(b, e) = Append(a \o b, e)
<1>1. Append(b, e) = b \o <<e>> /\ Append(a \o b, e) = (a \o b) \o <<e>>
  BY AppendIsConcat, ConcatProperties
<1> QED BY <1>1, ConcatAssociative

-----------------------------------------------------------------------------
LEMMA InitInv == Init => IInv
<1> SUFFICES ASSUME Init PROVE IInv
  OBVIOUS
<1>1. << >> \in Seq(Kinds) /\ << >> \o << >> = << >>
  BY EmptySeq, ConcatEmptySeq
<1> QED
  BY <1>1 DEF Init, IInv, TypeOK, OutputInv, CompletedIsWhole, KilledIsReported,
          FailuresAreErrors, NoResult, Closed, Dead, Kinds

(* Every step keeps the types. *)
LEMMA TypeStep == IInv /\ [Next]_vars => TypeOK'
<1> SUFFICES ASSUME TypeOK, [Next]_vars PROVE TypeOK'
  BY DEF IInv
<1> USE DEF TypeOK
<1>1. CASE Started \/ StartFails
  <2>1. CASE Started
    BY <1>1, <2>1 DEF Started, NoResult
  <2>2. CASE StartFails
    BY <1>1, <2>2 DEF StartFails, Statuses
  <2> QED BY <1>1, <2>1, <2>2
<1>2. CASE ScanLine \/ CopyLine
  <2>1. Consume
    BY <1>2 DEF ScanLine, CopyLine
  <2>2. pipe' \in Seq(Kinds) /\ lines' \in Seq(Kinds)
    BY <2>1, MoveHead DEF Consume
  <2> QED BY <2>1, <2>2 DEF Consume
<1>3. CASE ScanHuge \/ ScanEOF \/ Reap
  <2>1. CASE ScanHuge
    BY <2>1 DEF ScanHuge
  <2>2. CASE ScanEOF
    BY <2>2 DEF ScanEOF
  <2>3. CASE Reap
    BY <2>3 DEF Reap
  <2> QED BY <1>3, <2>1, <2>2, <2>3
<1>4. CASE Finish
  <2>1. StreamOutcome.status \in Statuses /\ StreamOutcome.err \in BOOLEAN
    BY DEF StreamOutcome, Outcome, Statuses
  <2>2. PlainOutcome.status \in Statuses /\ PlainOutcome.err \in BOOLEAN
    BY DEF PlainOutcome, Outcome, Statuses
  <2> QED BY <1>4, <2>1, <2>2 DEF Finish, Finished
<1>5. CASE Expire \/ Kill
  <2>1. CASE Expire
    BY <2>1 DEF Expire
  <2>2. CASE Kill
    BY <2>2 DEF Kill, Killed, Dead
  <2> QED BY <1>5, <2>1, <2>2
<1>6. ASSUME NEW l \in Kinds, Write(l) PROVE TypeOK'
  <2>1. pipe' \in Seq(Kinds) /\ wrote' \in Seq(Kinds)
    BY <1>6, AppendProperties DEF Write
  <2> QED BY <1>6, <2>1 DEF Write
<1>7. CASE Warn \/ Spawn \/ ChildExit \/ HelperExit
  <2>1. CASE Warn
    BY <2>1 DEF Warn
  <2>2. CASE Spawn
    BY <2>2 DEF Spawn
  <2>3. CASE ChildExit
    BY <2>3 DEF ChildExit, Dead
  <2>4. CASE HelperExit
    BY <2>4 DEF HelperExit
  <2> QED BY <1>7, <2>1, <2>2, <2>3, <2>4
<1>8. CASE UNCHANGED vars
  BY <1>8 DEF vars
<1> QED
  BY <1>1, <1>2, <1>3, <1>4, <1>5, <1>6, <1>7, <1>8 DEF Next, Execute, Tool

(* What was written is never lost or doubled on the way, and nobody writes
   after the end of file. *)
LEMMA OutputStep == IInv /\ [Next]_vars => OutputInv'
<1> SUFFICES ASSUME TypeOK, OutputInv, [Next]_vars PROVE OutputInv'
  BY DEF IInv
<1>1. CASE Started \/ StartFails
  BY <1>1 DEF Started, StartFails, OutputInv, Closed, Dead
<1>2. CASE ScanLine \/ CopyLine
  <2>1. Consume /\ pc \in {"scan", "wait", "drain"} /\ (pc # "scan" => mode = "capture")
    BY <1>2 DEF ScanLine, CopyLine
  <2>2. lines' \o pipe' = lines \o pipe
    BY <2>1, MoveHead DEF Consume, TypeOK
  <2> QED BY <2>1, <2>2 DEF Consume, OutputInv, Closed
<1>3. CASE ScanHuge \/ ScanEOF \/ Reap
  <2>1. CASE ScanHuge
    BY <2>1 DEF ScanHuge, OutputInv, Closed
  <2>2. CASE ScanEOF
    BY <2>2 DEF ScanEOF, OutputInv, Closed
  <2>3. CASE Reap
    BY <2>3 DEF Reap, OutputInv, Closed
  <2> QED BY <1>3, <2>1, <2>2, <2>3
<1>4. CASE Finish
  BY <1>4 DEF Finish, Finished, OutputInv, Closed
<1>5. CASE Expire \/ Kill
  BY <1>5 DEF Expire, Kill, Killed, OutputInv, Closed, Dead
<1>6. ASSUME NEW l \in Kinds, Write(l) PROVE OutputInv'
  <2>1. lines' \o pipe' = wrote'
    <3>1. lines \o Append(pipe, l) = Append(lines \o pipe, l)
      BY MoveLast DEF TypeOK
    <3> QED BY <1>6, <3>1 DEF Write, OutputInv
  <2> QED BY <1>6, <2>1 DEF Write, OutputInv, Closed, Dead
<1>7. CASE Warn \/ Spawn \/ ChildExit \/ HelperExit
  <2>1. CASE Warn
    BY <2>1 DEF Warn, OutputInv, Closed
  <2>2. CASE Spawn
    BY <2>2 DEF Spawn, OutputInv, Closed, Dead
  <2>3. CASE ChildExit
    BY <2>3 DEF ChildExit, OutputInv, Closed, Dead
  <2>4. CASE HelperExit
    BY <2>4 DEF HelperExit, OutputInv, Closed
  <2> QED BY <1>7, <2>1, <2>2, <2>3, <2>4
<1>8. CASE UNCHANGED vars
  BY <1>8 DEF vars, OutputInv, Closed
<1> QED
  BY <1>1, <1>2, <1>3, <1>4, <1>5, <1>6, <1>7, <1>8 DEF Next, Execute, Tool

(* The outcome is right when it is decided, and nothing it depends on changes
   afterwards. *)
LEMMA OutcomeStep ==
    IInv /\ [Next]_vars => CompletedIsWhole' /\ KilledIsReported' /\ FailuresAreErrors'
<1> SUFFICES ASSUME IInv, TypeOK', [Next]_vars
             PROVE  CompletedIsWhole' /\ KilledIsReported' /\ FailuresAreErrors'
  BY TypeStep
<1> DEFINE Frozen == UNCHANGED <<pc, mode, child, warned, lines, cut, result, wrote>>
<1>1. CASE pc = "done"
  <2>1. Frozen
    BY <1>1 DEF IInv, OutputInv, Closed, Dead, Next, Execute, Tool, vars, Started, StartFails,
        ScanLine, CopyLine, ScanHuge, ScanEOF, Reap, Finish, Finished, Expire, Kill,
        Killed, Write, Warn, Spawn, ChildExit, HelperExit
  <2>2. Final' = Final
    BY <2>1 DEF Final
  <2> QED
    BY <2>1, <2>2 DEF IInv, CompletedIsWhole, KilledIsReported, FailuresAreErrors
<1>2. CASE pc' # "done"
  <2>1. result' = NoResult
    BY <1>2 DEF TypeOK
  <2> QED
    BY <1>2, <2>1 DEF NoResult, CompletedIsWhole, KilledIsReported, FailuresAreErrors
<1>3. CASE StartFails
  BY <1>3 DEF StartFails, IInv, OutputInv, CompletedIsWhole, KilledIsReported, FailuresAreErrors
<1>4. CASE Finish
  <2>1. /\ Closed /\ child \in Dead
        /\ ~cut => pipe = << >>
        /\ child = "killed" => clock = "expired"
    BY <1>4 DEF Finish, Finished, IInv, OutputInv, Closed
  <2>2. ~cut => lines = wrote
    BY <2>1, ConcatEmptySeq DEF IInv, OutputInv, TypeOK
  <2>3. Final' = Final
    BY <1>4 DEF Finish, Finished, Final
  <2>4. CASE mode = "stream"
    <3>1. result' = StreamOutcome
      BY <1>4, <2>4 DEF Finish, Finished
    <3> QED
      BY <1>4, <2>1, <2>2, <2>3, <2>4, <3>1 DEF Finish, Finished, StreamOutcome, Outcome, Dead,
          IInv, TypeOK, CompletedIsWhole, KilledIsReported, FailuresAreErrors
  <2>5. CASE mode # "stream"
    <3>1. result' = PlainOutcome
      BY <1>4, <2>5 DEF Finish, Finished
    <3> QED
      BY <1>4, <2>1, <2>2, <2>3, <2>5, <3>1 DEF Finish, Finished, PlainOutcome, Outcome, Dead,
          CompletedIsWhole, KilledIsReported, FailuresAreErrors
  <2> QED BY <2>4, <2>5
<1>5. pc = "done" \/ pc' # "done" \/ StartFails \/ Finish
  BY DEF IInv, TypeOK, Next, Execute, Tool, vars, Started, ScanLine, CopyLine, Consume, ScanHuge,
      ScanEOF, Reap, Expire, Kill, Killed, Write, Warn, Spawn, ChildExit, HelperExit
<1> QED BY <1>1, <1>2, <1>3, <1>4, <1>5

-----------------------------------------------------------------------------
(* The invariant holds for a pipe of any capacity. *)
THEOREM Invariant == Spec => []IInv
<1>1. IInv /\ [Next]_vars => IInv'
  BY TypeStep, OutputStep, OutcomeStep DEF IInv
<1> QED BY <1>1, InitInv, PTL DEF Spec

(* Type correctness; in particular a run that is over has a status. *)
THEOREM TypeCorrect == Spec => []TypeOK
<1>1. IInv => TypeOK
  BY DEF IInv
<1> QED BY <1>1, Invariant, PTL

(* A run that reports "completed" has the whole output of a tool that exited
   with status 0, except behind a line too long for the scanner. *)
THEOREM CompletedIsWholeAlways == Spec => []CompletedIsWhole
<1>1. IInv => CompletedIsWhole
  BY DEF IInv
<1> QED BY <1>1, Invariant, PTL

(* A tool that the timeout killed is reported as an error. *)
THEOREM KilledIsReportedAlways == Spec => []KilledIsReported
<1>1. IInv => KilledIsReported
  BY DEF IInv
<1> QED BY <1>1, Invariant, PTL

(* Every failure but the blank error result is an error to the caller. *)
THEOREM FailuresAreErrorsAlways == Spec => []FailuresAreErrors
<1>1. IInv => FailuresAreErrors
  BY DEF IInv
<1> QED BY <1>1, Invariant, PTL
=============================================================================
