--------------------------- MODULE ProjectRecord ----------------------------
(***************************************************************************)
(* project.md between several processes: the `project` commands load the   *)
(* record, change one thing and write all of it; init writes it where it   *)
(* is not there; `task next` and the MCP tool trilha_next read it to know  *)
(* whether the project is paused (spec/project.go, spec/layout.go,         *)
(* cmd/trilha-spec/main.go, mcp/tools.go).                                 *)
(*                                                                         *)
(* A file that is `torn` has been truncated and not yet written; `file` is *)
(* what it said last.                                                      *)
(***************************************************************************)
EXTENDS ProjectProtocol

CONSTANTS
  Procs,    \* the processes that run commands
  Commands, \* what the project commands are asked for
  Crashes   \* whether a process may die inside a command

ASSUME CommandsAssumption == Commands \subseteq Command
ASSUME CrashesAssumption == Crashes \in BOOLEAN

VARIABLES
  file,   \* what project.md says: a record, Missing, or Bad
  torn,   \* whether it is truncated
  pc,     \* where each process is
  cmd,    \* what it runs
  doc,    \* the record in its memory
  stood,  \* history: the project is paused since the command started
  clash   \* history: two changes of the file have overlapped

vars == <<file, torn, pc, cmd, doc, stood, clash>>

Doing == Commands \cup [op : {"none", "init", "next", "trilha_next"}]
Idle == [op |-> "none"]

TypeOK ==
  /\ file \in Record \cup {Missing, Bad}
  /\ torn \in BOOLEAN
  /\ pc \in [Procs -> {"idle", "load", "save", "write", "ask", "offer"}]
  /\ cmd \in [Procs -> Doing]
  /\ doc \in [Procs -> Record]
  /\ stood \in [Procs -> BOOLEAN]
  /\ clash \in BOOLEAN

Init ==
  /\ file \in Handmade \cup {Missing}
  /\ torn = FALSE
  /\ pc = [p \in Procs |-> "idle"]
  /\ cmd = [p \in Procs |-> Idle]
  /\ doc = [p \in Procs |-> Empty]
  /\ stood = [p \in Procs |-> FALSE]
  /\ clash = FALSE

-----------------------------------------------------------------------------
GoTo(p, where) == pc' = [pc EXCEPT ![p] = where]

End(p) ==
  /\ GoTo(p, "idle")
  /\ cmd' = [cmd EXCEPT ![p] = Idle]
  /\ doc' = [doc EXCEPT ![p] = Empty]

(* LoadProject answers a project rather than an error. *)
Readable == ~torn /\ file # Bad

(* Somebody is about to change the file. *)
Changing(p) == pc[p] \in {"load", "save", "write"}
Busy == \E p \in Procs : Changing(p)

Begin(p, c, where) ==
  /\ pc[p] = "idle"
  /\ cmd' = [cmd EXCEPT ![p] = c]
  /\ GoTo(p, where)
  /\ clash' = (clash \/ (where = "load" /\ Busy))
  /\ UNCHANGED <<file, torn, doc>>

-----------------------------------------------------------------------------
(* project pause | resume | limit | milestone.                             *)

(* The record is read, and changed in memory. *)
Load(p) ==
  /\ pc[p] = "load" /\ cmd[p] \in Commands
  /\ Readable /\ Applies(cmd[p], Loaded(file))
  /\ doc' = [doc EXCEPT ![p] = Apply(cmd[p], Loaded(file))]
  /\ GoTo(p, "save")
  /\ UNCHANGED <<file, torn, cmd, clash>>

(* MUTANT of LoadFails: the command waits for a file it can read. *)
LoadWaits(p) ==
  /\ pc[p] = "load" /\ cmd[p] \in Commands
  /\ ~(Readable /\ Applies(cmd[p], Loaded(file)))
  /\ UNCHANGED <<file, torn, pc, cmd, doc, clash>>

LoadFails(p) ==
  /\ pc[p] = "load" /\ cmd[p] \in Commands
  /\ ~(Readable /\ Applies(cmd[p], Loaded(file)))
  /\ End(p)
  /\ UNCHANGED <<file, torn, clash>>

(* MUTANT of SaveOpen: the record is written whatever Validate says. *)
SaveOpenUnchecked(p) ==
  /\ pc[p] = "save"
  /\ torn' = TRUE
  /\ doc' = [doc EXCEPT ![p] = Bytes(doc[p])]
  /\ GoTo(p, "write")
  /\ UNCHANGED <<file, cmd, clash>>

(* SaveProject: Validate, then os.WriteFile, which truncates and writes. *)
SaveOpen(p) ==
  /\ pc[p] = "save" /\ Validate(doc[p])
  /\ torn' = TRUE
  /\ doc' = [doc EXCEPT ![p] = Bytes(doc[p])]
  /\ GoTo(p, "write")
  /\ UNCHANGED <<file, cmd, clash>>

(* The complaint may be about a key the command has nothing to do with. *)
SaveRefused(p) ==
  /\ pc[p] = "save" /\ ~Validate(doc[p])
  /\ End(p)
  /\ UNCHANGED <<file, torn, clash>>

SaveWrite(p) ==
  /\ pc[p] = "write"
  /\ file' = doc[p]
  /\ torn' = FALSE
  /\ End(p)
  /\ UNCHANGED clash

-----------------------------------------------------------------------------
(* init: Stat, and the template when there is no file of that name.        *)

InitStat(p) ==
  /\ pc[p] = "load" /\ cmd[p].op = "init"
  /\ IF file = Missing /\ ~torn
     THEN GoTo(p, "save") /\ UNCHANGED <<cmd, doc>>
     ELSE End(p)
  /\ UNCHANGED <<file, torn, clash>>

-----------------------------------------------------------------------------
(* What may be picked up.  The tasks and the specs are read without this   *)
(* file; there is always something ready.                                  *)

(* task next has the graph and the specs, and reads the project last. An
   error of that read is dropped. *)
NextGraph(p) ==
  /\ pc[p] = "ask" /\ cmd[p].op = "next"
  /\ GoTo(p, "offer")
  /\ UNCHANGED <<file, torn, cmd, doc, clash>>

(* MUTANT of NextOffers: the project is not asked. *)
NextOffersAnyway(p) ==
  /\ pc[p] = "offer" /\ cmd[p].op = "next"
  /\ End(p)
  /\ UNCHANGED <<file, torn, clash>>

NextOffers(p) ==
  /\ pc[p] = "offer" /\ cmd[p].op = "next"
  /\ Readable => ~Loaded(file).paused
  /\ End(p)
  /\ UNCHANGED <<file, torn, clash>>

NextPaused(p) ==
  /\ pc[p] = "offer" /\ cmd[p].op = "next"
  /\ Readable /\ Loaded(file).paused
  /\ End(p)
  /\ UNCHANGED <<file, torn, clash>>

(* trilha_next reads the project first, and refuses what it cannot read. *)
AskPaused(p) ==
  /\ pc[p] = "ask" /\ cmd[p].op = "trilha_next"
  /\ Readable => Loaded(file).paused
  /\ End(p)
  /\ UNCHANGED <<file, torn, clash>>

AskLoads(p) ==
  /\ pc[p] = "ask" /\ cmd[p].op = "trilha_next"
  /\ Readable /\ ~Loaded(file).paused
  /\ GoTo(p, "offer")
  /\ UNCHANGED <<file, torn, cmd, doc, clash>>

AskOffers(p) ==
  /\ pc[p] = "offer" /\ cmd[p].op = "trilha_next"
  /\ End(p)
  /\ UNCHANGED <<file, torn, clash>>

-----------------------------------------------------------------------------
(* What is not a command of the program.                                   *)

(* A person saves the file from an editor, deletes it or restores it; not in
   the instant in which a command has it open. *)
Edit(f) ==
  /\ \A p \in Procs : pc[p] # "write"
  /\ file' = f
  /\ torn' = FALSE
  /\ clash' = (clash \/ Busy)
  /\ UNCHANGED <<pc, cmd, doc>>

Crash(p) ==
  /\ Crashes /\ pc[p] # "idle"
  /\ End(p)
  /\ UNCHANGED <<file, torn, clash>>

-----------------------------------------------------------------------------
Step(p) ==
  \/ Load(p) \/ LoadFails(p)
  \/ SaveOpen(p) \/ SaveRefused(p) \/ SaveWrite(p)
  \/ InitStat(p)
  \/ NextGraph(p) \/ NextOffers(p) \/ NextPaused(p)
  \/ AskPaused(p) \/ AskLoads(p) \/ AskOffers(p)

Start(p) ==
  \/ \E c \in Commands \cup {[op |-> "init"]} : Begin(p, c, "load")
  \/ \E c \in [op : {"next", "trilha_next"}] : Begin(p, c, "ask")

Edited == \E f \in Handmade \cup {Bad, Missing} : Edit(f)

Act ==
  \/ \E p \in Procs : Step(p) \/ Start(p) \/ Crash(p)
  \/ Edited

Paused(f) == f \in Record /\ f.paused

(* The history: paused before and ever since the command started. *)
Watch ==
  stood' = [p \in Procs |-> /\ Paused(file) /\ Paused(file')
                            /\ pc[p] = "idle" \/ stood[p]]

Next == Act /\ Watch

Spec == Init /\ [][Next]_vars

(* The operating system runs every process that can run. *)
FairSpec == Spec /\ \A p \in Procs : WF_vars(Step(p) /\ Watch)

-----------------------------------------------------------------------------
(* Properties.                                                             *)

(* The record the readers have: a file that is being written still says what
   it said, one that nobody is going to write says nothing. *)
Published ==
  IF torn /\ ~ \E p \in Procs : pc[p] = "write" THEN Bad ELSE file

Life == INSTANCE ProjectLife WITH project <- Published

(* As long as no two changes overlap, the commands change one thing of the
   record that is there, or nothing: a limit never takes back a pause, a
   refused command leaves no trace, init replaces nothing. *)
LifeUnlessClash == [][clash' \/ Edited \/ Life!Next \/ UNCHANGED Published]_vars

(* An answer of next that offers work. *)
Offer(p) == NextOffers(p) \/ AskOffers(p)

(* A project that has been paused since before the question is offered no
   work, but for `task next` at a moment when it cannot read project.md. *)
QuietWhenPaused ==
  [][\A p \in Procs : stood[p] /\ Offer(p) =>
       cmd[p].op = "next" /\ ~Readable]_vars

(* Every command answers, whoever else is at work. *)
CommandsEnd == \A p \in Procs : pc[p] # "idle" ~> pc[p] = "idle"
=============================================================================
