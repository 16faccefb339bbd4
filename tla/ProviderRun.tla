---------------------------- MODULE ProviderRun -----------------------------
(***************************************************************************)
(* One Execute of a provider that is a command line tool                   *)
(* (internal/provider/cli): the tool is started with its output on a pipe, *)
(* which is scanned line by line until its end; then the process is waited *)
(* for and the outcome told by a status and an error.                      *)
(*                                                                         *)
(* The actors are Execute, the tool (child), a process the tool leaves     *)
(* behind that shares its pipes (helper), and the timer and the watcher of *)
(* the context.  Which lines the tool writes, when it exits, and whether   *)
(* it ever does, is up to it.  What os/exec does is modelled from its      *)
(* documentation: Wait returns after the child ended and the ends of the   *)
(* pipes were copied; the watcher kills the child, and nobody else.        *)
(***************************************************************************)
EXTENDS Naturals, SequencesExt

CONSTANTS
    Capacity,   \* lines the pipe holds
    MaxLines    \* bound: lines written to it

ASSUME RunAssumption == Capacity \in Nat \ {0} /\ MaxLines \in Nat

VARIABLES
    mode,       \* "stream": stream-json; "sink": plain with OnEvent; "capture"
    limited,    \* is there a timeout?
    pc,         \* where Execute is
    child, helper,
    pipe,       \* stdout: lines written and not read
    warned,     \* did anything arrive on stderr?
    clock,      \* "ticking", or "expired": ctx.Err() is DeadlineExceeded
    lines,      \* lines read
    cut,        \* did the scanner give up?
    result,     \* status and whether an error is returned
    wrote       \* history: lines written

vars == <<mode, limited, pc, child, helper, pipe, warned, clock, lines, cut, result, wrote>>

(* A line of text or a tool event; a final result, which may be an error, with
   a text or without; a line of more than the 10 MB the scanner takes. *)
Kinds == {"text", "ok", "error", "blank", "huge"}

Statuses == {"completed", "failed", "timeout"}
NoResult == [status |-> "none", err |-> FALSE]

Dead == {"exit0", "exit1", "killed"}

(* All writers of the pipes are gone. *)
Closed == child \in Dead /\ helper # "alive"

Init ==
    /\ mode \in {"stream", "sink", "capture"}
    /\ limited \in BOOLEAN
    /\ pc = "start"
    /\ child = "none"
    /\ helper = "none"
    /\ pipe = << >>
    /\ warned = FALSE
    /\ clock = "ticking"
    /\ lines = << >>
    /\ cut = FALSE
    /\ result = NoResult
    /\ wrote = << >>

-----------------------------------------------------------------------------
(* Execute. *)

Started ==
    /\ pc = "start"
    /\ child' = "running"
    /\ pc' = IF mode = "capture" THEN "wait" ELSE "scan"
    /\ UNCHANGED <<mode, limited, helper, pipe, warned, clock, lines, cut, result, wrote>>

(* Mutant: the failure to start is not turned into a result. *)
StartFailsSilently ==
    /\ pc = "start"
    /\ pc' = "done"
    /\ UNCHANGED <<mode, limited, child, helper, pipe, warned, clock, lines, cut, result, wrote>>

StartFails ==
    /\ pc = "start"
    /\ pc' = "done"
    /\ result' = [status |-> "failed", err |-> TRUE]
    /\ UNCHANGED <<mode, limited, child, helper, pipe, warned, clock, lines, cut, wrote>>

Consume ==
    /\ pipe # << >>
    /\ lines' = Append(lines, Head(pipe))
    /\ pipe' = Tail(pipe)
    /\ UNCHANGED <<mode, limited, pc, child, helper, warned, clock, cut, result, wrote>>

(* sc.Scan, and the handling of the line. *)
ScanLine == pc = "scan" /\ pipe # << >> /\ Head(pipe) # "huge" /\ Consume

(* bufio.ErrTooLong ends the loop like an end of file; nobody reads the pipe
   any more. *)
ScanHuge ==
    /\ pc = "scan"
    /\ pipe # << >>
    /\ Head(pipe) = "huge"
    /\ cut' = TRUE
    /\ pc' = "wait"
    /\ UNCHANGED <<mode, limited, child, helper, pipe, warned, clock, lines, result, wrote>>

ScanEOF ==
    /\ pc = "scan"
    /\ pipe = << >>
    /\ Closed
    /\ pc' = "wait"
    /\ UNCHANGED <<mode, limited, child, helper, pipe, warned, clock, lines, cut, result, wrote>>

(* Without a sink a goroutine of os/exec copies the output, whatever it is. *)
CopyLine == mode = "capture" /\ pc \in {"wait", "drain"} /\ Consume

(* cmd.Wait: the process, then the goroutines that copy stdout and stderr. *)
Reap ==
    /\ pc = "wait"
    /\ child \in Dead
    /\ pc' = "drain"
    /\ UNCHANGED <<mode, limited, child, helper, pipe, warned, clock, lines, cut, result, wrote>>

(* parseStreamJSON keeps the last result it saw. *)
FinalOf(ls) ==
    LET results == SelectSeq(ls, LAMBDA l : l \in {"ok", "error", "blank"}) IN
    IF results = << >> THEN "none" ELSE Last(results)
Final == FinalOf(lines)

Outcome(status, err) == [status |-> status, err |-> err]

(* Mutant: an exit status without any text on stderr is no error. *)
StreamOutcomeStderr ==
    CASE clock = "expired" -> Outcome("timeout", TRUE)
      [] clock # "expired" /\ Final = "error" -> Outcome("failed", TRUE)
      [] clock # "expired" /\ Final = "blank" -> Outcome("failed", warned)
      [] OTHER -> IF child = "exit0" THEN Outcome("completed", FALSE) ELSE Outcome("failed", warned)

StreamOutcome ==
    CASE clock = "expired" -> Outcome("timeout", TRUE)
      [] clock # "expired" /\ Final = "error" -> Outcome("failed", TRUE)
      [] clock # "expired" /\ Final = "blank" -> Outcome("failed", warned)
      [] OTHER -> IF child = "exit0" THEN Outcome("completed", FALSE) ELSE Outcome("failed", TRUE)

(* Mutant: a tool that wrote something has succeeded. *)
PlainOutcomeLenient ==
    IF child = "exit0" \/ lines # << >> THEN Outcome("completed", FALSE) ELSE Outcome("failed", TRUE)

PlainOutcome ==
    IF child = "exit0" THEN Outcome("completed", FALSE) ELSE Outcome("failed", TRUE)

Finished ==
    /\ pc = "drain"
    /\ pc' = "done"
    /\ result' = IF mode = "stream" THEN StreamOutcome ELSE PlainOutcome
    /\ UNCHANGED <<mode, limited, child, helper, pipe, warned, clock, lines, cut, wrote>>

(* Mutant: the goroutines are not waited for. *)
FinishAtOnce == Finished

Finish ==
    /\ Closed
    /\ mode = "capture" => pipe = << >>
    /\ Finished

-----------------------------------------------------------------------------
(* The context. *)

Expire ==
    /\ limited
    /\ pc \notin {"start", "done"}
    /\ clock = "ticking"
    /\ clock' = "expired"
    /\ UNCHANGED <<mode, limited, pc, child, helper, pipe, warned, lines, cut, result, wrote>>

Killed ==
    /\ clock = "expired"
    /\ pc \in {"scan", "wait"}
    /\ child \in {"running", "exit0", "exit1"}
    /\ child' = "killed"
    /\ UNCHANGED <<mode, limited, pc, helper, pipe, warned, clock, lines, cut, result, wrote>>

(* Mutant: the deadline is looked at between two lines only. *)
KillWhileReading == pc = "scan" /\ pipe # << >> /\ Killed

(* The watcher goroutine that CommandContext starts.  It can also signal a tool
   that has exited and was not waited for yet: Wait then returns the error of
   the context, as if the tool had been killed. *)
Kill == Killed

-----------------------------------------------------------------------------
(* The tool and its helper; a full pipe blocks them. *)

Write(l) ==
    /\ child = "running" \/ helper = "alive"
    /\ Len(wrote) < MaxLines
    /\ Len(pipe) < Capacity
    /\ pipe' = Append(pipe, l)
    /\ wrote' = Append(wrote, l)
    /\ UNCHANGED <<mode, limited, pc, child, helper, warned, clock, lines, cut, result>>

Warn ==
    /\ child = "running"
    /\ ~warned
    /\ warned' = TRUE
    /\ UNCHANGED <<mode, limited, pc, child, helper, pipe, clock, lines, cut, result, wrote>>

Spawn ==
    /\ child = "running"
    /\ helper = "none"
    /\ helper' = "alive"
    /\ UNCHANGED <<mode, limited, pc, child, pipe, warned, clock, lines, cut, result, wrote>>

ChildExit ==
    /\ child = "running"
    /\ child' \in {"exit0", "exit1"}
    /\ UNCHANGED <<mode, limited, pc, helper, pipe, warned, clock, lines, cut, result, wrote>>

HelperExit ==
    /\ helper = "alive"
    /\ helper' = "gone"
    /\ UNCHANGED <<mode, limited, pc, child, pipe, warned, clock, lines, cut, result, wrote>>

Execute ==
    \/ Started
    \/ StartFails
    \/ ScanLine
    \/ ScanHuge
    \/ ScanEOF
    \/ CopyLine
    \/ Reap
    \/ Finish

Tool ==
    \/ \E l \in Kinds : Write(l)
    \/ Warn
    \/ Spawn
    \/ ChildExit
    \/ HelperExit

Next == Execute \/ Expire \/ Kill \/ Tool

Spec == Init /\ [][Next]_vars

(* The goroutines of this program run and time passes; nothing is assumed of
   the tool. *)
FairSpec == Spec /\ WF_vars(Execute) /\ WF_vars(Expire) /\ WF_vars(Kill)

-----------------------------------------------------------------------------
(* Properties. *)

TypeOK ==
    /\ mode \in {"stream", "sink", "capture"}
    /\ limited \in BOOLEAN
    /\ pc \in {"start", "scan", "wait", "drain", "done"}
    /\ child \in {"none", "running"} \cup Dead
    /\ helper \in {"none", "alive", "gone"}
    /\ pipe \in Seq(Kinds) /\ lines \in Seq(Kinds) /\ wrote \in Seq(Kinds)
    /\ warned \in BOOLEAN /\ cut \in BOOLEAN
    /\ clock \in {"ticking", "expired"}
    /\ IF pc = "done"
       THEN result.status \in Statuses /\ result.err \in BOOLEAN
       ELSE result = NoResult

(* A completed run is a tool that exited by itself with status 0 and did not
   report an error last, and its output is everything that was written to the
   pipe - by the tool or by what it left behind - unless a line was too long
   for the scanner. *)
CompletedIsWhole ==
    result.status = "completed" =>
        /\ child = "exit0"
        /\ ~cut => lines = wrote
        /\ mode = "stream" => Final \notin {"error", "blank"}

(* A tool that the timeout killed never passes for one that answered: the
   caller gets an error, however the kill raced with the last lines. *)
KilledIsReported == pc = "done" /\ child = "killed" => result.err

(* The callers look at the error only: it is missing from a failure in one
   case, an error result without text from a tool that said nothing on stderr. *)
FailuresAreErrors ==
    pc = "done" /\ ~result.err =>
        result.status = "completed" \/ (mode = "stream" /\ Final = "blank" /\ ~warned)

(* Execute returns if the tool ends or a timeout is set - also from a tool that
   hangs, floods the pipe or writes a line that stops the scanner - as long as
   the processes the tool left behind end. *)
Returns ==
    (<>[](helper # "alive") /\ (limited \/ <>(child \in Dead))) => <>(pc = "done")

(* exec.go:67 "Timeout time.Duration // hard wall-clock bound" *)
HardBound == limited => <>(pc = "done")

-----------------------------------------------------------------------------
(* The inductive invariant behind the safety properties (proved in
   ProviderRunProofs). *)

(* What was written was read or is in the pipe; after the end of file, and
   once Execute has returned, the tool and its helper are gone. *)
OutputInv ==
    /\ lines \o pipe = wrote
    /\ pc = "start" => child = "none"
    /\ child = "none" => helper = "none"
    /\ pc = "drain" => child \in Dead
    /\ child = "killed" => clock = "expired"
    /\ pc \in {"wait", "drain"} /\ mode # "capture" /\ ~cut => Closed /\ pipe = << >>
    /\ pc = "done" => child = "none" \/ (Closed /\ (~cut => pipe = << >>))

IInv ==
    /\ TypeOK
    /\ OutputInv
    /\ CompletedIsWhole
    /\ KilledIsReported
    /\ FailuresAreErrors
=============================================================================
