----------------------------- MODULE TaskStore ------------------------------
(***************************************************************************)
(* The task store: commands of several processes over a directory of task  *)
(* files, with no lock and no cache (task/store.go, `task add` and         *)
(* `task move` of cmd/trilha-spec).  A command is a sequence of file       *)
(* operations, and between two of them any other process may run:          *)
(*                                                                         *)
(*   move   Get, then for running a List of the directory and the graph    *)
(*          check, for done the quorum check, then Save                    *)
(*   add    a List for the next number, Save, a List for the graph check,  *)
(*          and the removal of the file when that check fails              *)
(*   edit   a person opens a task in an editor and saves it                *)
(*                                                                         *)
(* os.WriteFile truncates the file and then writes it: a file in `torn`    *)
(* has been truncated and not yet written.  Its bytes are gone, and        *)
(* files[i] keeps what they said last.                                     *)
(***************************************************************************)
EXTENDS TaskProtocol

CONSTANTS
  Procs,     \* the processes that run commands
  Keys,      \* the key ids that sign attestations
  Projects,  \* the directories a run may start from
  NewDocs,   \* the documents `task add` is asked to create
  Rewrites,  \* what a person may set in an open task
  Targets,   \* the statuses `task move` is asked for
  Crashes    \* whether a process may die inside a command

ASSUME ProjectsAssumption ==
  Projects \subseteq {f \in [Ids -> Doc \cup {NoTask}] :
                        \A i \in Present(f) :
                          /\ Valid(i, f[i])
                          /\ f[i].status = "done" => f[i].quorum = 0}

(* `task add` has no flag for a review policy. *)
ASSUME NewDocsAssumption == NewDocs \subseteq {d \in Doc : d.quorum = 0}

Rewrite == [deps : SUBSET (Ids \cup Remotes), accept : BOOLEAN,
            quorum : 0..MaxQuorum]

ASSUME RewritesAssumption == Rewrites \subseteq Rewrite
ASSUME TargetsAssumption == Targets \subseteq Statuses
ASSUME KeysAssumption == IsFiniteSet(Keys)
ASSUME CrashesAssumption == Crashes \in BOOLEAN

VARIABLES
  files,     \* what each task file says, or NoTask
  torn,      \* the files that are truncated
  attested,  \* the key ids whose attestation of a task counts
  pc,        \* where each process is
  job,       \* the command it runs, with the document in its memory
  todo,      \* the files its List has still to read
  seen       \* the tasks its List has read

vars == <<files, torn, attested, pc, job, todo, seen>>

PC == {"idle", "list", "read", "quorum", "apply", "write", "lost", "remove"}

Job == [op : {"none", "move", "add", "edit"}, id : 0..MaxTask,
        to : Statuses, doc : Doc \cup {NoTask}]

NoJob == [op |-> "none", id |-> 0, to |-> "idea", doc |-> NoTask]

Nothing == [i \in Ids |-> NoTask]

(* A command has a document, and a task unless it is an add that has not
   got its number yet. *)
Started(p) ==
  /\ job[p].op # "none" /\ job[p].doc \in Doc
  /\ \/ job[p].id \in Ids
     \/ job[p].op = "add" /\ pc[p] \in {"list", "read"}

TypeOK ==
  /\ files \in [Ids -> Doc \cup {NoTask}]
  /\ torn \subseteq Ids
  /\ attested \in [Ids -> SUBSET Keys]
  /\ pc \in [Procs -> PC]
  /\ job \in [Procs -> Job]
  /\ \A p \in Procs : pc[p] # "idle" => Started(p)
  /\ todo \in [Procs -> SUBSET Ids]
  /\ seen \in [Procs -> [Ids -> Doc \cup {NoTask}]]

Init ==
  /\ files \in Projects
  /\ torn = {}
  /\ attested = [i \in Ids |-> {}]
  /\ pc = [p \in Procs |-> "idle"]
  /\ job = [p \in Procs |-> NoJob]
  /\ todo = [p \in Procs |-> {}]
  /\ seen = [p \in Procs |-> Nothing]

-----------------------------------------------------------------------------
(* Steps every command is made of.                                         *)

OnDisk == Present(files) \cup torn

(* Parse answers a task: the bytes are whole and Validate accepts them. *)
Parses(i) == i \notin torn /\ files[i] # NoTask /\ Valid(i, files[i])

GoTo(p, where) == pc' = [pc EXCEPT ![p] = where]

(* The command answers, or dies: what it held in memory is gone. *)
Forget(p) ==
  /\ job' = [job EXCEPT ![p] = NoJob]
  /\ todo' = [todo EXCEPT ![p] = {}]
  /\ seen' = [seen EXCEPT ![p] = Nothing]

End(p) == GoTo(p, "idle") /\ Forget(p)

Adding(p) == job[p].op = "add" /\ job[p].id \in Ids

(* Store.List: the names first, then one file after the other by name. *)
ListDir(p) ==
  /\ pc[p] = "list"
  /\ todo' = [todo EXCEPT ![p] = OnDisk]
  /\ seen' = [seen EXCEPT ![p] = Nothing]
  /\ GoTo(p, "read")
  /\ UNCHANGED <<files, torn, attested, job>>

NextFile(p, i) == i \in todo[p] /\ \A j \in todo[p] : i <= j

ReadFile(p) ==
  /\ pc[p] = "read"
  /\ \E i \in Ids :
       /\ NextFile(p, i) /\ Parses(i)
       /\ seen' = [seen EXCEPT ![p][i] = files[i]]
       /\ todo' = [todo EXCEPT ![p] = @ \ {i}]
  /\ UNCHANGED <<files, torn, attested, pc, job>>

(* MUTANT of ReadFails: List waits for the file to come back. *)
ReadRetries(p) ==
  /\ pc[p] = "read"
  /\ \E i \in Ids : NextFile(p, i) /\ ~Parses(i)
  /\ UNCHANGED vars

(* One file that does not parse, or that went away, fails the whole List;
   `task add` then takes back the file it created. *)
ReadFails(p) ==
  /\ pc[p] = "read"
  /\ \E i \in Ids : NextFile(p, i) /\ ~Parses(i)
  /\ IF Adding(p)
     THEN GoTo(p, "remove") /\ UNCHANGED <<job, todo, seen>>
     ELSE End(p)
  /\ UNCHANGED <<files, torn, attested>>

Listed(p) == pc[p] = "read" /\ todo[p] = {}

(* The document Save is given; Task.Move sets the status. *)
NewDoc(p) ==
  IF job[p].op = "move" THEN [job[p].doc EXCEPT !.status = job[p].to]
                        ELSE job[p].doc

(* MUTANT of Accepted: Save writes without validating. *)
AcceptedUnchecked(p) ==
  job[p].op = "move" => CanMoveTo(job[p].doc.status, job[p].to)

Accepted(p) ==
  /\ job[p].op = "move" => CanMoveTo(job[p].doc.status, job[p].to)
  /\ Valid(job[p].id, NewDoc(p))

(* Save: Validate, then open the file for writing, which truncates it. *)
SaveOpen(p) ==
  /\ pc[p] = "apply" /\ Accepted(p)
  /\ torn' = torn \cup {job[p].id}
  /\ job' = [job EXCEPT ![p].doc = NewDoc(p)]
  /\ GoTo(p, "write")
  /\ UNCHANGED <<files, attested, todo, seen>>

Refuse(p) ==
  /\ pc[p] = "apply" /\ ~Accepted(p)
  /\ End(p)
  /\ UNCHANGED <<files, torn, attested>>

AfterSave(p) ==
  IF job[p].op = "add"
  THEN GoTo(p, "list") /\ UNCHANGED <<job, todo, seen>>
  ELSE End(p)

SaveWrite(p) ==
  /\ pc[p] = "write"
  /\ files' = [files EXCEPT ![job[p].id] = job[p].doc]
  /\ torn' = torn \ {job[p].id}
  /\ AfterSave(p)
  /\ UNCHANGED attested

(* The file was removed while it was open: the bytes go to no name. *)
SaveLost(p) ==
  /\ pc[p] = "lost"
  /\ AfterSave(p)
  /\ UNCHANGED <<files, torn, attested>>

-----------------------------------------------------------------------------
(* task move: Store.Get and what the target status asks for.               *)

MoveGet(p, id, to) ==
  /\ pc[p] = "idle" /\ Parses(id)
  /\ job' = [job EXCEPT ![p] = [op |-> "move", id |-> id, to |-> to,
                                doc |-> files[id]]]
  /\ GoTo(p, CASE to = "running" -> "list"
               [] to = "done"    -> "quorum"
               [] OTHER          -> "apply")
  /\ UNCHANGED <<files, torn, attested, todo, seen>>

(* MUTANT of MoveGraph: the graph is built, the blockers are not asked. *)
MoveGraphUnblocked(p) ==
  /\ Listed(p) /\ job[p].op = "move"
  /\ IF GraphOK(seen[p])
     THEN GoTo(p, "apply") /\ UNCHANGED <<job, todo, seen>>
     ELSE End(p)
  /\ UNCHANGED <<files, torn, attested>>

MoveGraph(p) ==
  /\ Listed(p) /\ job[p].op = "move"
  /\ IF GraphOK(seen[p]) /\ Blockers(seen[p], job[p].id) = {}
     THEN GoTo(p, "apply") /\ UNCHANGED <<job, todo, seen>>
     ELSE End(p)
  /\ UNCHANGED <<files, torn, attested>>

QuorumMet(id, d) == Cardinality(attested[id]) >= d.quorum

(* MUTANT of MoveQuorum: one attestation short is enough. *)
MoveQuorumShort(p) ==
  /\ pc[p] = "quorum"
  /\ IF Cardinality(attested[job[p].id]) + 1 >= job[p].doc.quorum
     THEN GoTo(p, "apply") /\ UNCHANGED <<job, todo, seen>>
     ELSE End(p)
  /\ UNCHANGED <<files, torn, attested>>

MoveQuorum(p) ==
  /\ pc[p] = "quorum"
  /\ IF QuorumMet(job[p].id, job[p].doc)
     THEN GoTo(p, "apply") /\ UNCHANGED <<job, todo, seen>>
     ELSE End(p)
  /\ UNCHANGED <<files, torn, attested>>

-----------------------------------------------------------------------------
(* task add: NextID, Create, the graph check and its undo.                 *)

AddStart(p, d) ==
  /\ pc[p] = "idle"
  /\ job' = [job EXCEPT ![p] = [op |-> "add", id |-> 0, to |-> d.status,
                                doc |-> d]]
  /\ GoTo(p, "list")
  /\ UNCHANGED <<files, torn, attested, todo, seen>>

(* One more than the largest number the List saw. *)
IsNext(ts, n) ==
  /\ \A i \in Present(ts) : i < n
  /\ n # 1 => ts[n - 1] # NoTask

(* MUTANT of AddNumber: Create goes on without the number. *)
AddNumberForgotten(p) ==
  /\ Listed(p) /\ job[p].op = "add" /\ ~Adding(p)
  /\ GoTo(p, "apply")
  /\ UNCHANGED <<files, torn, attested, job, todo, seen>>

AddNumber(p) ==
  /\ Listed(p) /\ job[p].op = "add" /\ ~Adding(p)
  /\ \E n \in Ids : /\ IsNext(seen[p], n)
                    /\ job' = [job EXCEPT ![p].id = n]
  /\ GoTo(p, "apply")
  /\ UNCHANGED <<files, torn, attested, todo, seen>>

(* The bound: no number is left for the run to allocate. *)
AddFull(p) ==
  /\ Listed(p) /\ job[p].op = "add" /\ ~Adding(p)
  /\ ~ \E n \in Ids : IsNext(seen[p], n)
  /\ End(p)
  /\ UNCHANGED <<files, torn, attested>>

AddGraph(p) ==
  /\ Listed(p) /\ Adding(p)
  /\ IF GraphOK(seen[p])
     THEN End(p)
     ELSE GoTo(p, "remove") /\ UNCHANGED <<job, todo, seen>>
  /\ UNCHANGED <<files, torn, attested>>

AddRemove(p) ==
  /\ pc[p] = "remove"
  /\ files' = [files EXCEPT ![job[p].id] = NoTask]
  /\ torn' = torn \ {job[p].id}
  /\ pc' = [q \in Procs |->
              IF q = p THEN "idle"
              ELSE IF pc[q] = "write" /\ job[q].id = job[p].id THEN "lost"
              ELSE pc[q]]
  /\ Forget(p)
  /\ UNCHANGED attested

-----------------------------------------------------------------------------
(* What is not a command of the program.                                   *)

(* A person opens an open task in an editor; saving is SaveOpen, SaveWrite. *)
EditOpen(p, id, r) ==
  /\ pc[p] = "idle" /\ Parses(id) /\ files[id].status # "done"
  /\ job' = [job EXCEPT ![p] =
       [op |-> "edit", id |-> id, to |-> files[id].status,
        doc |-> [status |-> files[id].status, deps |-> r.deps,
                 accept |-> r.accept, quorum |-> r.quorum]]]
  /\ GoTo(p, "apply")
  /\ UNCHANGED <<files, torn, attested, todo, seen>>

(* A signed attestation that QuorumOf counts is recorded. *)
Attest(id, k) ==
  /\ k \notin attested[id]
  /\ attested' = [attested EXCEPT ![id] = @ \cup {k}]
  /\ UNCHANGED <<files, torn, pc, job, todo, seen>>

Crash(p) ==
  /\ Crashes /\ pc[p] # "idle"
  /\ End(p)
  /\ UNCHANGED <<files, torn, attested>>

(* A person puts a file a crash left truncated back as it was, or deletes
   it when it never said anything. *)
Restore(id) ==
  /\ Crashes /\ id \in torn
  /\ \A p \in Procs : pc[p] = "write" => job[p].id # id
  /\ torn' = torn \ {id}
  /\ UNCHANGED <<files, attested, pc, job, todo, seen>>

-----------------------------------------------------------------------------

(* What a command does once it has started. *)
Step(p) ==
  \/ ListDir(p) \/ ReadFile(p) \/ ReadFails(p)
  \/ SaveOpen(p) \/ Refuse(p) \/ SaveWrite(p) \/ SaveLost(p)
  \/ MoveGraph(p) \/ MoveQuorum(p)
  \/ AddNumber(p) \/ AddFull(p) \/ AddGraph(p) \/ AddRemove(p)

Start(p) ==
  \/ \E id \in Ids, to \in Targets : MoveGet(p, id, to)
  \/ \E d \in NewDocs : AddStart(p, d)
  \/ \E id \in Ids, r \in Rewrites : EditOpen(p, id, r)

Next ==
  \/ \E p \in Procs : Step(p) \/ Start(p) \/ Crash(p)
  \/ \E id \in Ids : Restore(id) \/ \E k \in Keys : Attest(id, k)

Spec == Init /\ [][Next]_vars

(* The operating system runs every process that can run. *)
FairSpec == Spec /\ \A p \in Procs : WF_vars(Step(p))

-----------------------------------------------------------------------------
(* Properties.                                                             *)

(* No task file says something Validate refuses, however the commands of
   several processes overlap: Save validates the document it was given, not
   the one on disk, and a stale document is still a valid one. *)
FilesValid == \A i \in Present(files) : Valid(i, files[i])

(* A task that is done has the attestations its policy asks for, although
   Move reads the policy, the evidence and writes the file in three steps. *)
DoneHasQuorum ==
  \A i \in Present(files) :
    files[i].status = "done" => QuorumMet(i, files[i])

(* A command that has started answers, whatever the others do: no command
   waits for another. *)
CommandsEnd == \A p \in Procs : pc[p] # "idle" ~> pc[p] = "idle"

(* The moves a task file makes are the protocol's (Transitions). *)
StrictMoves ==
  [][\A i \in Ids :
       files[i] # NoTask /\ files'[i] # NoTask =>
         \/ files'[i].status = files[i].status
         \/ CanMoveTo(files[i].status, files'[i].status)]_files

(* The inductive invariant behind FilesValid and DoneHasQuorum: what each
   command carries in memory, before it reaches the file, already satisfies
   what the file has to.  Attestations are never taken back, so a quorum a
   command has counted is still there when it writes. *)
Carried(p) ==
  /\ job[p].op = "add" => job[p].doc.quorum = 0
  /\ job[p].op = "edit" => job[p].doc.status # "done"
  /\ job[p].op = "move" /\ pc[p] \in {"list", "read"} => job[p].to = "running"
  /\ job[p].op = "move" /\ pc[p] = "apply" /\ job[p].to = "done" =>
       QuorumMet(job[p].id, job[p].doc)
  /\ pc[p] = "write" =>
       /\ Valid(job[p].id, job[p].doc)
       /\ job[p].doc.status = "done" => QuorumMet(job[p].id, job[p].doc)

IInv ==
  /\ TypeOK
  /\ FilesValid
  /\ DoneHasQuorum
  /\ \A p \in Procs : pc[p] # "idle" => Carried(p)

-----------------------------------------------------------------------------
(* The abstract store: a task exists once `task add` has answered. *)
Published ==
  [i \in Ids |->
     IF \E p \in Procs : /\ Adding(p) /\ job[p].id = i
                         /\ pc[p] \in {"list", "read", "remove"}
     THEN NoTask ELSE files[i]]

Life == INSTANCE TaskLife WITH files <- Published

(* One process at a time, the store does what TaskLife promises. *)
ImplementsTaskLife == Life!Spec

(* A move: the document is the file's, and what was asked before still is. *)
FreshMove(p) ==
  LET id == job[p].id
      to == job[p].to
  IN  /\ pc[p] \in {"list", "read", "quorum", "apply", "write"}
      /\ files[id] # NoTask
      /\ pc[p] = "quorum" => to = "done"
      /\ pc[p] # "write" => job[p].doc = files[id]
      /\ pc[p] = "write" => /\ job[p].doc = [files[id] EXCEPT !.status = to]
                            /\ CanMoveTo(files[id].status, to)
      /\ pc[p] \in {"apply", "write"} /\ to = "running" =>
           GraphOK(files) /\ Blockers(files, id) = {}

(* An add: its number is the next one, before and after it is taken. *)
FreshAdd(p) ==
  /\ pc[p] \in {"list", "read", "apply", "write", "remove"}
  /\ pc[p] \in {"apply", "write", "remove"} => Adding(p)
  /\ Adding(p) => IsNext(Published, job[p].id)
  /\ Adding(p) /\ pc[p] \notin {"apply", "write"} =>
       files[job[p].id] = job[p].doc

(* Why it does: when no other process runs, what a command has read is still
   what the directory says.  A move or an edit holds the document of the
   file; an add holds the next free number until it has written, and from
   then on its file is the last one. *)
Fresh(p) ==
  /\ pc[p] # "lost"
  /\ torn = IF pc[p] = "write" THEN {job[p].id} ELSE {}
  /\ pc[p] = "read" =>
       /\ todo[p] \subseteq Present(files)
       /\ \A i \in Ids \ todo[p] : seen[p][i] = files[i]
  /\ job[p].op = "move" => FreshMove(p)
  /\ job[p].op = "edit" =>
       /\ pc[p] \in {"apply", "write"}
       /\ files[job[p].id] # NoTask /\ files[job[p].id].status # "done"
       /\ job[p].doc.status = files[job[p].id].status
  /\ job[p].op = "add" => FreshAdd(p)

AloneInv == IInv /\ \A p \in Procs : Fresh(p)
=============================================================================
