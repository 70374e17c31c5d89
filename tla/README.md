# trilha-spec in TLA+

trilha-spec keeps a project's specifications, tasks, agents and evidence as
plain files under `.trilha/`, and gives people and coding agents a CLI and an
MCP server to work on them. There is no daemon, no lock and no database: each
command is a process that reads files, decides, and writes files back, while
people edit the same files and other agents run the same commands. What the
protocol promises (`docs/protocol.md`) has to hold across all of them. These
modules say what those promises are, which of them the code keeps, and under
which interleavings it does not.

Paths are relative to the repository. Every definition that models code has
its source lines in `PROJECT.json`.

## 1. Inventory

| Component | Source | State it keeps | Operations | What makes it correct |
|---|---|---|---|---|
| Task store | `task/store.go`, `task/task.go` | one file per task | Get, List, NextID, Create, Move, Save | files stay valid; moves are the protocol's; a task starts after its dependencies and closes on its quorum |
| Dependency graph | `task/graph.go` | none between calls | NewGraphWith, Blockers, Ready, Next | a graph exactly when nothing is missing and nothing cycles; one canonical order; never a halt by the graph alone |
| Evidence log | `task/evidence.go` | one directory of records per task | RecordSigned, ListEvidence | a lone recorder edits no record; numbers are a sequence; a list is a prefix |
| Review quorum | `task/attest.go` | none | QuorumOf, CheckAttestations | closes on distinct trusted keys, in the wanted roles |
| Verification | `cmdVerify`, `RunChecks`, `RunCheck` | a run in memory | verify | the verdict is what the evidence says; nothing is skipped; a run ends |
| Signatures | `task/sign.go`, `keygen` | `.trilha/keys` | Sign, Check, LoadKeys, keygen | what a key signed stays valid as long as nobody parts the pair |
| Remote dependencies | `task/remote.go`, `spec/program.go`, `rel.go` | none | Checkouts.Status, FindProgram | unresolved is not done |
| Spec life | `spec/spec.go`, `task/specstatus.go` | one file per spec | NextSpecID, MoveSpec, spec set, CheckSpecs | a superseded spec never moves; references exist; a new spec takes no other's file |
| Evaluations | `task/eval.go` | none (the evidence log) | ParseMetricLine, Eval, Metrics, CheckMetrics | a number that gates is the last one measured; a gate nobody measured is reported |
| Requirements, milestones, coverage | `spec/requirement.go`, `spec/milestone.go`, `task/milestone.go`, `task/coverage.go` | none | Cover, ByDue, the doctor checks | what a task says of its calendar and its requirements is shown or reported |
| Project record | `spec/project.go`, `cmdProject` | `project.md` | pause, resume, limit, milestone; `task next`, `trilha_next` read it | a pause lasts until it is resumed, and a paused project offers nothing |
| Document format | `spec/doc.go`, `task/task.go` | none | Parse, Bytes, the accessors | what is read is written back |
| Layout | `spec/layout.go` | the directory | Find, Init, Doctor | never overwrites |
| Agent profiles | `agent/agent.go` | one file per agent | Parse, May | data only |
| Execution contract | `execution/contract.go`, `execution/agent.go` | none | Validate, NextAgentState | an agent that asked is shown as asking |
| Context pack | `ai/context.go` | none | Build | reads only |
| MCP server | `mcp/server.go`, `mcp/tools.go` | one connection | Handle, ServeStdio | one reply per request, in order |
| Command line | `cmd/trilha-spec/main.go` | none | the commands | see the components |

The components meet in the files. `task move` to `running` reads the whole task
directory and asks the graph; to `done` it reads the evidence directory and the
keys; `verify` runs commands for minutes between reading a task and moving it;
`task next` reads tasks, specs and `project.md`; the MCP tools call the same
functions as the CLI. Nothing orders two processes, `os.WriteFile` truncates
before it writes, and a process may die between any two system calls. The hard
behaviours are therefore the interleavings of multi-step commands, stale reads,
half-written files, and checks that hang; the full list, line by line, is under
`hazards` in `PROJECT.json`.

## 2. Modules

| Module | Models | Uses |
|---|---|---|
| `TaskProtocol` | statuses, Transitions, Validate, the meaning of a good graph, Blockers | |
| `TaskLife` | the abstract, atomic task store | `TaskProtocol` |
| `TaskStore` | the store's commands as file operations | `TaskProtocol`, refines `TaskLife` |
| `TaskGraph` | Kahn's algorithm and Ready | `TaskProtocol` |
| `EvidenceLog` | the records of one task, and the quorum counted from them | |
| `VerifyRun` | `verify` from Get to Move | `TaskProtocol` |
| `SpecProtocol` | a spec's statuses, moves, references and numbers | |
| `SpecLife` | the abstract set of specs | `SpecProtocol` |
| `SpecStore` | `spec new`, `spec move`, `spec set` as file operations | `SpecProtocol`, refines `SpecLife` |
| `ProjectProtocol` | the record of project.md, Validate, what each command changes | |
| `ProjectLife` | the abstract record | `ProjectProtocol` |
| `ProjectRecord` | the `project` commands, `init` and `next` on one file | `ProjectProtocol`, refines `ProjectLife` |
| `FrontMatter` | Parse, Bytes and the accessors, line by line | |
| `TaskDoc` | a task, spec or project document before and after a command | `FrontMatter` |
| `Keyring` | keygen, signing, and the keys a close and a doctor read | |
| `Reports` | ByDue, Cover, Metrics, the pack and the doctor checks about them | |
| `MC*` | small instances of each for TLC | |
| `TaskStoreProofs`, `TaskGraphProofs`, `EvidenceLogProofs`, `VerifyRunProofs`, `ProjectRecordProofs`, `SpecStoreProofs`, `KeyringProofs`, `ReportsProofs` | theorems checked by TLAPS | the module they are named after |

Three components have the same build: a `*Protocol` module with the vocabulary
and the guards, a `*Life` module in which every command is one step, and a
`*Store` or `*Record` module in which the same command is the file operations the
code performs, with other processes in between. What the last shows is when it
amounts to the second.

### TaskStore

A task is a number; of its document the model keeps what guards read (status,
dependencies, whether there is an acceptance criterion, quorum). `files` is what
each file says, `torn` the files that are truncated and not yet written,
`attested` the keys whose attestation counts. Each process runs one command at a
time: `pc` says where, `job` holds what it was asked and the document in its
memory, `todo` and `seen` its `List` in progress. `List` is one step for the
names and one per file, by name, as in `Store.List`; `Save` is `SaveOpen`
(Validate, open, truncate) and `SaveWrite`; `task add` is the list for NextID,
Save, a second list for the graph check and the removal of the file when that
fails; a file removed under an open descriptor takes the bytes with it
(`SaveLost`). A person with an editor (`EditOpen`) opens any task that is not
done and saves through the same two steps, with content Validate accepts: an
editor does not validate, but a file that does not parse is what `torn` already
stands for. `Crash` ends a command anywhere and `Restore` is the person who
repairs what it left.

`TaskLife` is what a reader of the protocol expects: `Move`, `Create`, `Edit` and
`Attest` as single steps with their conditions. One process at a time, `TaskStore`
implements it (`ImplementsTaskLife`), with `Published` as the mapping: a task
exists once `task add` has answered.

### TaskGraph

One step per turn of the loop of `NewGraphWith`, over any project the constant
`Projects` allows. The queue is a set and `Pick` takes its smallest member, which
is what sorting it every turn does. `TaskStore` uses `GraphOK`, a formula; this
module is what justifies it: the algorithm answers a graph exactly when `GraphOK`
holds (`AnswerRight`). `OpenFor` is what Blockers answers with a Resolver and
without: `next` has one, `move` has none, and `OfferedStarts`, which the difference
refutes, is a finding. `Ready` is the places in the order whose task is offered, so
that what is offered comes in the order. IDs are compared as numbers: the code
compares strings, which is the same up to `TASK-999`.

### EvidenceLog

The directory is a function from names (number and kind) to records; a list, a
record and a close are steps as in the store. Recorders append (`RecordStart` to
`RecordWrite`); closers list, count (`Have`, by distinct trusted keys in a wanted
role) and close. The number of a record is the length of the list plus one. `clash`
is history: two recorders have overlapped.

### VerifyRun

One run per invocation: `Get` of the task, `LoadProject` for the commands every
task runs, one check after the other (`CheckStart`, then `Exit`, `Timeout` or
`CheckRefused`, then `Drain` when a process the check left behind still holds its
output), its record, one record per metric line, and the verdict. A line is one of
six kinds by what `ParseMetricLine`, `Eval` and `validateEval` make of it. The move
at the end is two accesses to the file, `MoveRead` and `MoveWrite`, with other runs
and people in between; `overtaken` is history: the task moved in between. The
error returns are three, and a run that takes one ends in a place of that name:
`Refuse`, the task or project.md cannot be read, before the first check; `Abort`,
a record cannot be written; `MoveRefused`, the move is not allowed or the file
cannot be read or written. What happens inside a record is `EvidenceLog`'s.

### SpecStore

An id `NNN-name` is a pair of numbers; of a document the model keeps the id it
gives itself, the status and the two lists of references. The commands are steps
as in the task store, and so are List, SaveSpec, `Crash` and `Edit`. Three things
are special to the code. SaveSpec writes to the file named after the id *in* the
document, which LoadSpec never compares with the name it read, so the module has
the person who renames a file (`NamedAfterId` says that nobody did). `spec set`
checks its references in a List and, when that List fails, saves without the
check (`SetListFails`). `spec new` has no graph to satisfy, so nothing removes
what it wrote; it reads the names and writes the next one later, over whatever has
come there (`NewTakesAFreeName`). `blind`, `clash`, `stray` and `late` are history:
a reference nobody checked, two changes that overlapped, a person at the names, and
the files each `new` could not have seen.

### ProjectRecord

`file` is the record, `Missing` or `Bad`; `torn` as above. The record has one
limit for the three there are, of each milestone id its declarations in order (a
person may write one twice, or under an id that is none: `Slips`), `paused` and
`paused_at`, and `sound` for the repositories, which no command changes. A command
loads, applies its change and saves the whole record; `init` looks whether there is a file and writes the
template; `task next` reads the graph first and the project last, dropping the
error, while `trilha_next` reads the project first and refuses what it cannot
read. `stood` is history: the project has been paused since before the command
started.

### FrontMatter and TaskDoc

A line is its indentation, its dash, its key and one of a few scalars, chosen so
that every case of the scanner and of the quoting happens (a text, numbers, one
with a colon, the two characters `{}`, and three with a line break, by what comes
after it: words, a `key: value` or a comment, which make a file that does not
parse or one that says something else). Parse and Bytes are recursive operators,
translated reader by reader, writer by writer. `TaskDoc` has the two ways of
writing back: a task is built anew from what was understood (`TaskFields`); a
project or a spec is read into its record and written over the fields that were
read, with milestones and limits rebuilt from what the record has of them and the
empty ones deleted (`ProjectFields`, `SpecFields`).

### Keyring

Each key id has a public file in the project and a private one in each directory
people keep keys in (their homes, or `keygen --out`), each with a pair, torn or
absent. `Keygen` looks both names up in two steps and writes the files in two steps
each; any of them may be the last (`KeygenStops`), and `halves` names the private
keys this left without their public half. `Attest` signs with the key in a
file under any id; a close reads the evidence, the directory and the key files
one by one, and people lose, replace and spoil files. `meddled` names the ids a
person or two keygens at once worked on, `rekeyed` the closes during which a
public key changed.

### Reports

Specs and tasks that name milestones and requirements, existing or not, tasks
that have gates (acceptance lines `ParseAcceptanceMetric` takes), the eval records
of each, a calendar and a day. The reports are operators; the actions are what
changes their answer: a task moves, a metric is measured, a milestone is set or
dropped, the day passes. A record is a metric and whether it passed; the path from
ready to review is one step, since no report tells its statuses apart. The
stable sort of `ByDue` is the place of each task: as many as precede it by day, and
among equals by `Place`, the order of the graph the tasks come in, which is a
constant here and `TaskGraph`'s to compute. `Metrics` is the loop of the code, turn
by turn, as a recursive function.

## 3. Runs

| Run | Instance | Shows |
|---|---|---|
| `store_alone` | 1 process, tasks 1..2, quorum up to 2, edits, attestations inside commands | `ImplementsTaskLife`, and `AloneInv`, the invariant of its proof |
| `store_races` | 2 processes that move, edit and add, with crashes, 1 number, fairness | `TypeOK`, `FilesValid`, `DoneHasQuorum`, `CommandsEnd` |
| `store_strict` | 2 processes, 1 task | `StrictMoves` violated: see the findings |
| `graph_sort` | all 35937 projects of up to 3 tasks, ready or done, one remote dependency | `Canonical`, `AnswerRight`, `SomethingToDo`, `CallEnds` |
| `graph_remote` | the projects of up to 2 tasks | `OfferedStarts` violated: see the findings |
| `evidence` | 2 recorders that overlap and die, 1 closer, attestations of 2 keys and a note | `TypeOK`, `ClosedHasQuorum`, `ReadsPrefix`, `NextIsFresh`, `RecordsKept` |
| `verify` | 2 runs, 2 checks that fail, hang, outlive their deadline or print a refused line, crashes, files that become unreadable, a person who gives the task up, fairness | `TypeOK`, `VerdictFromEvidence`, `NothingSkipped`, `FailureStands`, `VerifyMovesOn`, and `RunInv`, the invariant of the proofs |
| `project` | 2 processes with crashes, every kind of command, an editor with good and bad records, fairness | `TypeOK`, `LifeUnlessClash`, `QuietWhenPaused`, `CommandsEnd` |
| `specs` | 2 processes with crashes, numbers 1..2, two titles, a rename and a deletion | `TypeOK`, `LifeUnlessClash`, `NewTakesAFreeName`, `RefsExist` |
| `docs` | tasks, projects and specs: every front matter of a title and up to 3 more lines, some longer ones, all shapes | `ReadsBack`, `UnknownKept`, `PolicyKept`, `AddedReads` |
| `keys` | 2 processes, 2 key ids, 2 directories, 2 pairs, 2 attestations, 1 change by a person | `TypeOK`, `OwnSignaturesHold`, `CleanMeansMet`, `ClosesRight` |
| `reports` | every way 3 tasks and 2 specs name 2 milestones, every way 2 tasks and 2 specs name 2 requirements, and every way a task has up to 2 gates and 3 measurements | `NothingDropped` |

**Bounds.** `MaxTask`, `MaxSpec`, `MaxName`, `MaxRecords`, `MaxChecks`,
`MaxQuorum`, `MaxKey`, `MaxPair`, `MaxLog`, `MaxHands`, `MaxDay`, `MaxEvals` and the number of
processes. Two processes are enough for every race here: each race is a read by
one and a write by another, and a third process only repeats one of the two
roles. Two tasks give a dependency, a missing one, a cycle and a reused number;
with one number (`store_races`) an add collides, overwrites and removes. Two
numbers and two names give two specs that share a number and two that share a
file. Three records are a collision and a record after it. Two directories are
one keygen that stops and another that finds its private name free. Two checks tell a run
that stops from one that goes on. Two key ids and two pairs give a quorum of two,
a key under another's id and a public key of the wrong pair; one id is generated in
both directories and the other in one, and `Signings` and `Keygens` leave out what
differs from these by a renaming. Two milestone ids are one of each kind, an id
and one that is none. `reports` varies
calendars, requirements and gates separately, since no operator reads two of them;
three measurements are two of one metric with another's between. At a bound a
command ends without an effect (`AddFull`, `RecordFull`, `NewFull`). The
invariants that are proved do not depend on any of them. A person edits
`project.md` or a spec at any moment but the one in which a command has the file
open and truncated; `TaskStore` has that moment too.

**Symmetry** is used for processes, keys, milestones, requirements and metrics, in
runs whose properties are all safety properties.

**Deadlock** is not checked: commands end, the bounded runs of `VerifyRun` are
used up, and a graph that is answered stays answered.

**Fairness.** `TaskStore` and `ProjectRecord` assume that a process that can take
its next step takes it (`WF` on `Step`); starting a command, dying, editing and
attesting are never assumed. `VerifyRun` assumes the same of the run, and of the
timer of `context.WithTimeout`; it assumes nothing of the checks, nor of a process
that holds a pipe. `TaskGraph` is a loop without a wait. A truncated file fails a
command instead of making it wait, so no strong fairness is needed.

**Findings.** Two runs end in a counterexample to a sentence of the repository.

- Two overlapping moves make a jump Transitions does not list (`store_strict`),
  which `task/task.go:38` says a task never makes.
- A task whose dependency is done in another repository is offered by `task next`
  and cannot be started by `task move` (`graph_remote`), which has no Resolver and
  takes every remote dependency as open. `README.md:72` says that `running` needs
  every dependency done, including one in another repository, and
  `task/remote_test.go:104` that once it is done there the work can start here.

**Where the documentation says more than the code does.** These are met by a
property that states what the code does, and no run is spent on refuting the
sentence:

- `spec/doc.go:434` calls Bytes the inverse of Parse. `ReadsBack` says of which
  documents of a project or a spec that is so: not of one with a scalar `{}`, a
  reason with a line break, or an item whose first entry is a block. Even there it
  is so of what the record has of the document: other keys in a milestone are
  rebuilt away.
- `docs/protocol.md:57` and the comment at `task/task.go:73` preserve the keys a
  reader does not know. `UnknownKept` says which values a move of a task keeps:
  texts and lists, not blocks nor empty lists.
- `docs/protocol.md`, 11, has an id in the name of every file. Nothing compares
  the two; `NewTakesAFreeName` and `LifeUnlessClash` hold while they agree.
- `docs/protocol.md:134` says that a record is never edited. `RecordsKept` says it
  of recorders that do not overlap; of two that do, one may replace the record of
  the other, but never one that was there when it took its list.
- `docs/protocol.md:231` and `task/evidence.go:201` say that verify stops for nothing. A
  metric line whose name, comparator or dataset `validateEval` refuses ends it between
  two checks (`task/evidence.go:248`), and so does a record that cannot be written.
  `NothingSkipped` has these among its exceptions, and `EveryCheckRecorded` is the
  theorem that without them, crashes and unreadable files the sentence is true.
- `execution/agent.go:99` says that an asked agent stays so until it works again;
  one that asked and then requests a permission forgets that it asked.

The same windows have consequences that are notes under `hazards`. Two
overlapping starts of a task both succeed, and two overlapping adds share a
number. A limit that overlaps a pause takes it back. Two keygens of one id may
leave halves of two pairs, and a keygen that stops after the private half leaves
the way open for one into another directory, after which what the half signed is
invalid. Two `spec new` of one title may take one file. A process a check leaves
behind keeps `verify` waiting past `CheckTimeout` (`Drain`, which nothing makes
fair). A second run of `verify` moves a task the first one brought to review on to
failed, and one whose own Move is overtaken writes review over a failed task.

## 4. Proofs

Everything below is proved for all values of the constants, under the named
assumptions of the modules (sizes are naturals, keys are finitely many, `task add`
sets no policy, a run starts from valid files whose closed tasks have no policy,
an editor saves what Validate accepts).

- `TaskStoreProofs`: `TypeCorrect`, `FilesStayValid`, `ClosedWithQuorum`. Neither
  of the last two is inductive: a command writes what it decided steps ago. `IInv`
  adds what each command carries (`Carried`): a document about to be written is
  valid, one about to be closed has its quorum, and since attestations are only
  added (`AttestationsGrow`) it still has it when it is written, whoever ran in
  between. `AloneImplementsLife` is the refinement of `TaskLife` by commands that
  do not overlap and do not die (`OneCommand`). `AloneInv` adds to `IInv` what
  each command holds that is still so (`Fresh`): a list that is complete is the
  directory, a document in memory is the one on disk, the number of an add is the
  next one until its file is the last. The step that changes `Published` is the
  write of a move or an edit, and the end of an add. From the same invariant,
  `AloneMovesAreLegal` is the other half of the finding (`StrictMoves` holds as
  soon as no two commands overlap), and `AloneIsOrderly` says that no task
  disappears and that one which starts waits on nothing. `CommandsNeverWait` and
  `CommandsRunDown` are what `CommandsEnd` rests on, for commands that do overlap:
  `Left` counts the steps a command has before it, every step of its own lowers
  it and no step of another raises it.
- `TaskGraphProofs`: `AnswerIsGraphOK`, `OrderIsCanonical`, `LoopInvariant`,
  `NeverStuck`. `KahnInv` says that the counters count the dependencies not placed
  yet and that every group of tasks which reaches into the order has a member that
  waits on nobody in the group. The second part grows by one task per turn and
  makes `Acyclic` follow without an induction over paths; when the queue is empty
  and tasks are left, those tasks are themselves the group that refutes it.
  `AlwaysSomethingToDo` applies `Acyclic` to the tasks that are left, and
  `OfferedCanStart` compares what the offer and the move ask of a task without a
  remote dependency, which is where the finding leaves the two in agreement; both
  need that the order holds every task, which is in `KahnInv`.
  `LoopNeverStalls` and `LoopMakesProgress` (`ToDo`, the tasks not placed) are all
  of `CallEnds` but the fairness.
- `EvidenceLogProofs`: `NumbersRepair` for any number of recorders (`SeqInv`: what
  a process has listed is on disk, so its number is at most one above the number
  of files). `RecordsStay`, for any number that overlap and die, from `ListInv`: no
  name a recorder has listed has a number above the length of the list, so the one
  it takes is none of them. `ClosesOnQuorum` and
  `ListsArePrefixes` for the part of a run in which no two recorders have
  overlapped (`OneInv`, guarded by `clash`: a completed list is the directory, so
  the next name is free, so what anybody has read stays true; `TailInv`: what a
  process knows of, read or still to read, is everything up to some number, and a
  new record comes after it).
- `VerifyRunProofs`: `VerdictRestsOnEvidence`, for any number of overlapping runs,
  checks and metric lines. `RunInv` says, at each place of a run, which checks are
  on record and that `passed` is what the records say; a verdict follows because a
  run that is over adds nothing, and no run writes records of another. The same
  invariant follows the move: what is about to be written may be, from the status
  that was read, and that is the status on disk or the run is `overtaken`.
  `OthersFailureStands` is the conjunction of the two with Transitions, in which
  only verify leads to review. `NothingIsSkipped` reads off `RunInv` where a run
  can end without all its records; `EveryCheckRecorded` has the premise
  `EveryRecordWritten` (nobody is killed, every file decodes, no line is refused) and
  needs `SkipInv`: then a run that answers an error has every check on record.
  `RunsGoForward` (`Stages` falls or the lines of the check do) and `RunsNeverStall`
  (only at a running check, or a held pipe, does a run wait for another) are what
  is proved of `VerifyMovesOn`.
- `ProjectRecordProofs`: `AloneImplementsLife`, the refinement of `ProjectLife`
  with crashes, for the part of a run in which no two changes have overlapped.
  `ChangeInv` says that then one process at most is changing the file, and that
  what it holds is the record on disk with its one change (`Fresh`). `PausedIsQuiet`
  needs no such condition: `QuietInv` says that a `trilha_next` which is to offer
  work has read a project that was not paused, so it was not paused all along.
  `CommandsNeverWait` and `CommandsRunDown` as for the task store: three steps at
  most.
- `SpecStoreProofs`: `NewsTakeFreeNames` and `CheckedRefsExist` hold for any number of
  processes that overlap and die. The first rests on `NameInv`: what is on
  disk has come `late` for a `new`, is still to be read by it, or is in the list its
  number is taken from. The second rests on `RefsInv`: what a `set` has
  seen is still there, because a command only ever adds to what the files call
  themselves, and what it is about to write refers to nothing else.
  `AloneImplementsLife` is the refinement of `SpecLife` while no two changes have
  overlapped and files are named after their ids. `AloneInv` says what a command
  is about to write (`Due`): the next number over the specs that are there, or one
  change of the file that is there, with references that exist unless a file was
  torn.
- `KeyringProofs`: `SignaturesHold` from `PairInv`, which follows each keygen
  through its writes: of an id nobody meddled with one keygen at most is at work,
  its private file is absent until that keygen opens it, a signature is of the
  private key that is in its directory, and a public key is that of a private key
  in some directory; when it is not the signer's, the signer's is one of the `halves`.
  `NothingFoundMeansMet` from `ClosedInv`: evidence is only added, so the keys a
  close counted stay attested, and a doctor that finds nothing has found each of
  them valid. `CloseIsRight` from `CloseInv`: while no public key changes, what a
  close has read is what is there, what it has still to read exists, and a quorum
  that was met is among the two.
- `ReportsProofs`: `WorkIsOrdered`, that ByDue is a permutation in the order of the
  due days and then of the graph, whatever that is. `Precedes` is a total order of the tasks, so the
  number of those before a task grows along it (`RankGrows`) and takes every value
  once (`RankTaken`, by counting). `NothingIsDropped` then needs only the types:
  calendar, matrix and pack are read from one state. Its lemmas follow its parts
  (`CalendarTold`, `CoversTold`, `RowsTold`, `GatesTold`). The one about numbers is
  an induction over the turns of the loop of `Metrics`: after n turns, what stands
  for a metric is its last record among the first n (`LoopStands`).

The two inductions over numbers that are needed (the turns of that loop, and the
first of some numbers in a queue, a List or the specs) are done with sets: that
`<` is well founded on the naturals gives every set of numbers a first
(`FirstExists`), and the first number that is missing from a set refutes itself
(`Induct`).

Only model-checked: liveness under fairness (`CommandsEnd` of the tasks and of
the project, `CallEnds`, `VerifyMovesOn`), which the prover cannot do; what each
of them rests on, that a step is always there and that steps leave less to do,
is proved. `ReadsBack`, `UnknownKept`, `PolicyKept` and `AddedReads` are about
`FrontMatter`, whose Parse and Bytes are recursive operators the prover does not
read; TLC checks them for every document of the bounded grammar. `ReadsPrefix`
and `ClosedHasQuorum` do not hold of recorders that overlap, nor `ImplementsTaskLife` of
commands that do: `clash`, and the one process of `store_alone`, are their
hypothesis.

## 5. Plan

Still to come, the most consequential first:

1. `Delivery`: agents that take what `next` offers, run, verify and repair, over
   `TaskLife`: every task is eventually done, and by what fairness.
2. The refinement of `TaskLife` for many processes and with crashes, as long as no
   two commands have overlapped, the way `SpecStore` and `ProjectRecord` have it.
3. Checkouts.Status and FindProgram over several repositories.
4. The rest of `Init` and `Doctor`.

## 6. Not modelled

The text of documents, templates, messages and translations; flags and printing;
`Mermaid` and `DOT`; cryptography and canonical JSON (a signature is its verdict);
budgets, harnesses and the other fields Validate checks one by one. The agent
profiles are documents without state. The execution contract
(`execution/contract.go`, `execution/agent.go`) is a set of types a control plane
and a runner outside the repository exchange: nothing here keeps their state or
orders their events. The MCP server handles one line at a time and keeps nothing
between two; its tools call the operations modelled above, and the three that do
more (`trilha_next`, `trilha_spec_move`, `trilha_attest`) are in the modules of
their components. Reading other repositories (`task/remote.go`,
`spec/program.go`) is an input of `TaskGraph`. The planning kit and the scripts
are no part of the program.
