----------------------------- MODULE VerifyRun ------------------------------
(***************************************************************************)
(* `trilha-spec verify` on one task: read the task, run its checks one     *)
(* after the other, record what each printed, and move the task when it    *)
(* was in verify (cmdVerify of cmd/trilha-spec, RunChecks and RunCheck of  *)
(* task/evidence.go, the metric lines of task/eval.go).                    *)
(*                                                                         *)
(* A run is one invocation of the command.  A check is a child process     *)
(* that exits, or hangs until CheckTimeout kills it; a process it started  *)
(* itself may outlive it and keep its output pipe open, and Run waits for  *)
(* that pipe without a bound.  The move at the end is the two accesses to  *)
(* the file it makes, a read and a write; Get and Record are single steps  *)
(* here, and EvidenceLog is about what happens inside Record.              *)
(*                                                                         *)
(* A run that is over is "ended" when the command did what it was to do;   *)
(* the other places name the error it answered.                            *)
(***************************************************************************)
EXTENDS TaskProtocol, Sequences

CONSTANTS
  Runs,       \* the invocations of verify
  MaxChecks,  \* bound: how many commands the task and the project name
  Outputs,    \* the metric lines a check may print, a set of sequences
  HandMoves,  \* the moves people make meanwhile, pairs of statuses
  Outlived,   \* whether a check may leave a process that holds its output
  Torn,       \* whether the files a run reads may become unreadable
  Crashes     \* whether a run may die

(* What a line that ParseMetricLine takes as a metric leads to:
     met        a measurement, or a threshold the value satisfies
     missed     a threshold the value does not satisfy
     ungated    a threshold with no comparator: recorded, and not passed
     badname    a metric name ValidMetric refuses
     badcomp    a comparator that is none of the three
     nodataset  a dataset without an id                                    *)
LineKinds == {"met", "missed", "ungated", "badname", "badcomp", "nodataset"}

(* The lines validateEval accepts. *)
Recordable(line) == line \notin {"badname", "badcomp", "nodataset"}

ASSUME MaxChecksAssumption == MaxChecks \in Nat
ASSUME OutputsAssumption == Outputs \subseteq Seq(LineKinds)
ASSUME HandMovesAssumption ==
  HandMoves \subseteq {m \in Statuses \X Statuses : CanMoveTo(m[1], m[2])}
ASSUME SwitchesAssumption == {Outlived, Torn, Crashes} \subseteq BOOLEAN

VARIABLES
  commands,  \* how many checks there are to run
  status,    \* the status of the task on disk
  log,       \* the evidence the runs recorded
  readable,  \* whether every record of the directory decodes
  pc,        \* where each run is
  snap,      \* the status of the task it has read last
  at,        \* the check it is at
  result,    \* whether that check exited with 0
  output,    \* the lines of that check it has still to parse
  passed,    \* Verification.Passed
  moved,     \* the status it moved the task to, or "none"
  overtaken  \* history: the task moved between the read and the write of a Move

vars == <<commands, status, log, readable, pc, snap, at, result, output,
          passed, moved, overtaken>>

disk == <<commands, status, log, readable>>

(* The errors that end a run: before its first check, at a record, at the
   move; or it is killed. *)
Errors == {"refused", "unrecorded", "unmoved", "killed"}
Over == {"ended"} \cup Errors

PC == {"new", "load", "start", "running", "draining", "record", "lines",
       "decide", "write"} \cup Over

Records == [run : Runs, check : 0..MaxChecks, kind : {"check", "eval", "note"},
            passed : BOOLEAN]

TypeOK ==
  /\ commands \in 0..MaxChecks
  /\ status \in Statuses
  /\ log \subseteq Records
  /\ readable \in BOOLEAN
  /\ pc \in [Runs -> PC]
  /\ snap \in [Runs -> Statuses]
  /\ at \in [Runs -> 0..MaxChecks]
  /\ \A r \in Runs : pc[r] \in {"running", "draining", "record", "lines"} =>
                       at[r] \in 1..commands
  /\ result \in [Runs -> BOOLEAN]
  /\ output \in [Runs -> Seq(LineKinds)]
  /\ passed \in [Runs -> BOOLEAN]
  /\ moved \in [Runs -> {"none", "review", "failed"}]
  /\ overtaken \in [Runs -> BOOLEAN]

Init ==
  /\ commands \in 0..MaxChecks
  /\ status \in {"running", "verify", "review"}
  /\ log = {}
  /\ readable = TRUE
  /\ pc = [r \in Runs |-> "new"]
  /\ snap = [r \in Runs |-> "idea"]
  /\ at = [r \in Runs |-> 0]
  /\ result = [r \in Runs |-> FALSE]
  /\ output = [r \in Runs |-> <<>>]
  /\ passed = [r \in Runs |-> FALSE]
  /\ moved = [r \in Runs |-> "none"]
  /\ overtaken = [r \in Runs |-> FALSE]

GoTo(r, where) == pc' = [pc EXCEPT ![r] = where]

-----------------------------------------------------------------------------
(* cmdVerify, up to the first check.                                       *)

Get(r) ==
  /\ pc[r] = "new"
  /\ snap' = [snap EXCEPT ![r] = status]
  /\ passed' = [passed EXCEPT ![r] = TRUE]
  /\ at' = [at EXCEPT ![r] = 0]
  /\ GoTo(r, "load")
  /\ UNCHANGED <<disk, result, output, moved, overtaken>>

(* RunChecks reads project.md for the commands every task runs. *)
LoadProject(r) ==
  /\ pc[r] = "load"
  /\ GoTo(r, "start")
  /\ UNCHANGED <<disk, snap, at, result, output, passed, moved, overtaken>>

(* The task or project.md does not parse, and there is nothing on record. *)
Refuse(r) ==
  /\ Torn /\ pc[r] \in {"new", "load"}
  /\ GoTo(r, "refused")
  /\ UNCHANGED <<disk, snap, at, result, output, passed, moved, overtaken>>

Entry(r, kind, ok) == [run |-> r, check |-> at[r], kind |-> kind, passed |-> ok]

(* MUTANT of NoChecks: the note is recorded and the run counts as passed. *)
NoChecksPassed(r) ==
  /\ pc[r] = "start" /\ commands = 0 /\ readable
  /\ log' = log \cup {Entry(r, "note", FALSE)}
  /\ GoTo(r, "decide")
  /\ UNCHANGED <<commands, status, readable, snap, at, result, output, passed,
                 moved, overtaken>>

(* No command: a note, and a run that did not pass. *)
NoChecks(r) ==
  /\ pc[r] = "start" /\ commands = 0 /\ readable
  /\ log' = log \cup {Entry(r, "note", FALSE)}
  /\ passed' = [passed EXCEPT ![r] = FALSE]
  /\ GoTo(r, "decide")
  /\ UNCHANGED <<commands, status, readable, snap, at, result, output, moved,
                 overtaken>>

-----------------------------------------------------------------------------
(* RunCheck: one command.                                                  *)

(* MUTANT of CheckStart: one check more than there are. *)
CheckStartPast(r) ==
  /\ pc[r] = "start" /\ at[r] <= commands
  /\ at' = [at EXCEPT ![r] = @ + 1]
  /\ GoTo(r, "running")
  /\ UNCHANGED <<disk, snap, result, output, passed, moved, overtaken>>

CheckStart(r) ==
  /\ pc[r] = "start" /\ at[r] < commands
  /\ at' = [at EXCEPT ![r] = @ + 1]
  /\ GoTo(r, "running")
  /\ UNCHANGED <<disk, snap, result, output, passed, moved, overtaken>>

(* The command is empty, or its program cannot be started. *)
CheckRefused(r) ==
  /\ pc[r] = "running"
  /\ result' = [result EXCEPT ![r] = FALSE]
  /\ output' = [output EXCEPT ![r] = <<>>]
  /\ GoTo(r, "record")
  /\ UNCHANGED <<disk, snap, at, passed, moved, overtaken>>

(* The child is gone; Run still waits for the end of its output. *)
ChildGone(r, ok, lines, where) ==
  /\ pc[r] = "running"
  /\ result' = [result EXCEPT ![r] = ok]
  /\ output' = [output EXCEPT ![r] = lines]
  /\ GoTo(r, where)
  /\ UNCHANGED <<disk, snap, at, passed, moved, overtaken>>

Left == IF Outlived THEN {"record", "draining"} ELSE {"record"}

Exit(r) ==
  \E ok \in BOOLEAN, lines \in Outputs, where \in Left :
    ChildGone(r, ok, lines, where)

(* MUTANT of Timeout: the deadline passes and the child is not killed. *)
TimeoutIgnored(r) ==
  /\ pc[r] = "running"
  /\ UNCHANGED vars

(* CheckTimeout: the child is killed, and its exit status is not 0. *)
Timeout(r) ==
  \E lines \in Outputs, where \in Left : ChildGone(r, FALSE, lines, where)

(* Whoever holds the pipe closes it, if it ever does. *)
Drain(r) ==
  /\ pc[r] = "draining"
  /\ GoTo(r, "record")
  /\ UNCHANGED <<disk, snap, at, result, output, passed, moved, overtaken>>

-----------------------------------------------------------------------------
(* RunChecks: the record of the check, then one record per metric line.    *)

RecordCheck(r) ==
  /\ pc[r] = "record" /\ readable
  /\ log' = log \cup {Entry(r, "check", result[r])}
  /\ passed' = [passed EXCEPT ![r] = @ /\ result[r]]
  /\ GoTo(r, "lines")
  /\ UNCHANGED <<commands, status, readable, snap, at, result, output, moved,
                 overtaken>>

Line(r) == Head(output[r])

(* MUTANT of RecordLine: a missed threshold is recorded and not counted. *)
RecordLineUncounted(r) ==
  /\ pc[r] = "lines" /\ output[r] # <<>>
  /\ readable /\ Recordable(Line(r))
  /\ log' = log \cup {Entry(r, "eval", Line(r) = "met")}
  /\ output' = [output EXCEPT ![r] = Tail(@)]
  /\ UNCHANGED <<commands, status, readable, pc, snap, at, result, passed,
                 moved, overtaken>>

RecordLine(r) ==
  /\ pc[r] = "lines" /\ output[r] # <<>>
  /\ readable /\ Recordable(Line(r))
  /\ log' = log \cup {Entry(r, "eval", Line(r) = "met")}
  /\ passed' = [passed EXCEPT ![r] = @ /\ Line(r) = "met"]
  /\ output' = [output EXCEPT ![r] = Tail(@)]
  /\ UNCHANGED <<commands, status, readable, pc, snap, at, result, moved,
                 overtaken>>

(* Record answers an error: the run ends there, and the task is not moved. *)
Abort(r) ==
  /\ \/ pc[r] = "start" /\ commands = 0 /\ ~readable
     \/ pc[r] = "record" /\ ~readable
     \/ /\ pc[r] = "lines" /\ output[r] # <<>>
        /\ ~readable \/ ~Recordable(Line(r))
  /\ GoTo(r, "unrecorded")
  /\ UNCHANGED <<disk, snap, at, result, output, passed, moved, overtaken>>

(* MUTANT of NextCheck: the run stops at the first failure. *)
NextCheckPassed(r) ==
  /\ pc[r] = "lines" /\ output[r] = <<>>
  /\ GoTo(r, IF at[r] < commands /\ passed[r] THEN "start" ELSE "decide")
  /\ UNCHANGED <<disk, snap, at, result, output, passed, moved, overtaken>>

NextCheck(r) ==
  /\ pc[r] = "lines" /\ output[r] = <<>>
  /\ GoTo(r, IF at[r] < commands THEN "start" ELSE "decide")
  /\ UNCHANGED <<disk, snap, at, result, output, passed, moved, overtaken>>

-----------------------------------------------------------------------------
(* cmdVerify, after the checks.                                            *)

Verdict(r) == IF passed[r] THEN "review" ELSE "failed"

(* MUTANT of MoveRead: the task that was read at the start is moved. *)
MoveReadStale(r) ==
  /\ pc[r] = "decide" /\ snap[r] = "verify"
  /\ GoTo(r, "write")
  /\ UNCHANGED <<disk, snap, at, result, output, passed, moved, overtaken>>

(* The task was in verify at the start: Store.Move reads it again, and checks
   the verdict against the status it has now. *)
MoveRead(r) ==
  /\ pc[r] = "decide" /\ snap[r] = "verify" /\ CanMoveTo(status, Verdict(r))
  /\ snap' = [snap EXCEPT ![r] = status]
  /\ GoTo(r, "write")
  /\ UNCHANGED <<disk, at, result, output, passed, moved, overtaken>>

(* Whoever has read the task and not written it yet is overtaken. *)
Overtake ==
  overtaken' = [q \in Runs |-> overtaken[q] \/ pc[q] = "write"]

(* Save writes over whatever is there by now. *)
MoveWrite(r) ==
  /\ pc[r] = "write"
  /\ status' = Verdict(r)
  /\ moved' = [moved EXCEPT ![r] = Verdict(r)]
  /\ Overtake
  /\ GoTo(r, "ended")
  /\ UNCHANGED <<commands, log, readable, snap, at, result, output, passed>>

(* Store.Move answers an error: the task may not go there from where it is,
   or cannot be read or written. *)
MoveRefused(r) ==
  /\ \/ /\ pc[r] = "decide" /\ snap[r] = "verify"
        /\ Torn \/ ~CanMoveTo(status, Verdict(r))
     \/ pc[r] = "write" /\ Torn
  /\ GoTo(r, "unmoved")
  /\ UNCHANGED <<disk, snap, at, result, output, passed, moved, overtaken>>

(* Any other status keeps its place. *)
Stay(r) ==
  /\ pc[r] = "decide" /\ snap[r] # "verify"
  /\ GoTo(r, "ended")
  /\ UNCHANGED <<disk, snap, at, result, output, passed, moved, overtaken>>

-----------------------------------------------------------------------------
(* What is not this command.                                               *)

HandMove(from, to) ==
  /\ <<from, to>> \in HandMoves /\ status = from
  /\ status' = to
  /\ Overtake
  /\ UNCHANGED <<commands, log, readable, pc, snap, at, result, output, passed,
                 moved>>

(* Another recorder dies and leaves a truncated record behind. *)
Tear ==
  /\ Torn /\ readable
  /\ readable' = FALSE
  /\ UNCHANGED <<commands, status, log, pc, snap, at, result, output, passed,
                 moved, overtaken>>

Crash(r) ==
  /\ Crashes /\ pc[r] \notin {"new"} \cup Over
  /\ GoTo(r, "killed")
  /\ UNCHANGED <<disk, snap, at, result, output, passed, moved, overtaken>>

-----------------------------------------------------------------------------
Step(r) ==
  \/ LoadProject(r) \/ NoChecks(r) \/ CheckStart(r)
  \/ RecordCheck(r) \/ RecordLine(r) \/ NextCheck(r) \/ Abort(r)
  \/ MoveRead(r) \/ MoveWrite(r) \/ MoveRefused(r) \/ Stay(r)

Next ==
  \/ \E r \in Runs : \/ Get(r) \/ Refuse(r) \/ Step(r)
                     \/ CheckRefused(r) \/ Exit(r) \/ Timeout(r) \/ Drain(r)
                     \/ Crash(r)
  \/ \E from, to \in Statuses : HandMove(from, to)
  \/ Tear

Spec == Init /\ [][Next]_vars

(* The run itself is scheduled, and the timer fires.  Nothing is assumed of
   the check, nor of a process that holds its output. *)
FairSpec ==
  Spec /\ \A r \in Runs : WF_vars(Step(r)) /\ WF_vars(Timeout(r))

-----------------------------------------------------------------------------
(* Properties.                                                             *)

Of(r) == {e \in log : e.run = r}

Checked(r) == {e.check : e \in {x \in Of(r) : x.kind = "check"}}

(* A run moves the task to review only on evidence it recorded: a passed
   record for every check, at least one, and no record that did not pass;
   to failed only when it recorded something that did not pass. *)
VerdictFromEvidence ==
  \A r \in Runs :
    /\ moved[r] = "review" =>
         /\ commands > 0 /\ Checked(r) = 1..commands
         /\ \A e \in Of(r) : e.passed
    /\ moved[r] = "failed" => \E e \in Of(r) : ~e.passed

(* What moved while the checks ran is not moved back: a run brings to review
   only a task that is in verify, unless the task moved between the read and
   the write of the run's own Move.  The minutes between the two reads of the
   task by cmdVerify let nothing through. *)
FailureStands ==
  [][\A r \in Runs :
       moved'[r] = "review" /\ moved[r] = "none" =>
         status = "verify" \/ overtaken[r]]_vars

(* No check is skipped because of another: a run that is over has a record of
   every check, whichever of them failed, unless it was killed or answered
   that it could not read its task and project, or write a record. *)
NothingSkipped ==
  \A r \in Runs :
    pc[r] \in Over /\ Checked(r) # 1..commands =>
      pc[r] \in {"refused", "unrecorded", "killed"}

(* A task in verify whose checks are run leaves verify, or whoever ran them is
   told why not: every such run moves the task on, answers an error, is
   killed, or waits without end for a process that outlived a check. *)
VerifyMovesOn ==
  \A r \in Runs :
    pc[r] = "load" /\ snap[r] = "verify" ~>
      \/ status # "verify"
      \/ pc[r] \in Errors
      \/ [](pc[r] = "draining")

(* The checks a run that is not over has on record, by where it is. *)
Recorded(r) ==
  CASE pc[r] \in {"start", "lines"} -> 1..at[r]
    [] pc[r] \in {"running", "draining", "record"} -> 1..(at[r] - 1)
    [] pc[r] \in {"decide", "write"} -> 1..commands
    [] OTHER -> {}

(* Passed is what the records of the run say at every point, the checks on
   record are those before the one the run is at, a run without a check has
   its note, and a task about to be written is what was read or was moved
   since. *)
RunOK(r) ==
  /\ pc[r] = "new" => Of(r) = {}
  /\ pc[r] = "load" => at[r] = 0
  /\ pc[r] \notin {"new", "refused"} => (passed[r] <=> \A e \in Of(r) : e.passed)
  /\ pc[r] = "start" => at[r] <= commands
  /\ pc[r] \notin Over => Checked(r) = Recorded(r)
  /\ pc[r] \in {"ended", "unmoved"} => Checked(r) = 1..commands
  /\ pc[r] \in {"decide", "write", "ended"} /\ commands = 0 => ~passed[r]
  /\ pc[r] = "write" => CanMoveTo(snap[r], Verdict(r))
  /\ pc[r] = "write" => status = snap[r] \/ overtaken[r]
  /\ moved[r] # "none" => pc[r] = "ended" /\ moved[r] = Verdict(r)

(* The inductive invariant behind VerdictFromEvidence, FailureStands and
   NothingSkipped. *)
RunInv == TypeOK /\ \A r \in Runs : RunOK(r)
=============================================================================
