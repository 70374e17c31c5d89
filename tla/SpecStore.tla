------------------------------ MODULE SpecStore -----------------------------
(***************************************************************************)
(* The spec files between several processes: `spec new`, `spec move` (and  *)
(* the MCP tool trilha_spec_move) and `spec set`, each a sequence of file  *)
(* operations (spec/spec.go, cmd/trilha-spec/main.go).                     *)
(*                                                                         *)
(*   new    a List for the next number, then SaveSpec                      *)
(*   move   LoadSpec, Move, SaveSpec                                       *)
(*   set    LoadSpec, Validate, a List to check the references, SaveSpec;  *)
(*          when the List fails the references are not checked             *)
(*                                                                         *)
(* A file in `torn` is truncated and not yet written; files[n] is what it  *)
(* said last.                                                              *)
(***************************************************************************)
EXTENDS SpecProtocol

CONSTANTS
  Procs,     \* the processes that run commands
  Broken,    \* see SpecLife
  Projects,  \* the directories a run may start from
  Commands,  \* what the commands are asked for
  Edits,     \* what a person may save under which name, or delete
  Crashes    \* whether a process may die inside a command

Content(f) == {f[n].id : n \in {m \in SpecIds : f[m] # NoSpec}}
NamedAfterId(f) == \A n \in SpecIds : f[n] # NoSpec => f[n].id = n
Dangling(f) == \E n \in SpecIds : f[n] # NoSpec /\ ~(Refs(f[n]) \subseteq Content(f))

ASSUME ProjectsAssumption ==
  Projects \subseteq {f \in [SpecIds -> Doc \cup {NoSpec}] :
                        /\ NamedAfterId(f) /\ ~Dangling(f)
                        /\ \A n \in SpecIds : f[n] # NoSpec => Validate(f[n])}
ASSUME EditsAssumption ==
  Edits \subseteq SpecIds \X ({d \in Doc : Validate(d)} \cup {NoSpec})
ASSUME BrokenAssumption == Broken \notin Doc \cup {NoSpec}
ASSUME CrashesAssumption == Crashes \in BOOLEAN

Command == [op : {"new"}, name : 1..MaxName]
           \cup [op : {"move"}, id : SpecIds, to : Statuses]
           \cup [op : {"set"}, id : SpecIds, flags : SetFlags]

ASSUME CommandsAssumption == Commands \subseteq Command

VARIABLES
  files,  \* what each spec file says
  torn,   \* the files that are truncated
  pc,     \* where each process is
  cmd,    \* the command it runs
  doc,    \* the document in its memory
  todo,   \* the files its List has still to read
  seen,   \* the ids its List has found
  blind,  \* history: a reference was written, or a spec taken away or put
          \* under another name, unchecked
  clash,  \* history: two changes of the specs have overlapped
  stray,  \* history: some file was not named after the id in it
  late    \* history: the files that came after the names a `new` has read

vars == <<files, torn, pc, cmd, doc, todo, seen, blind, clash, stray, late>>

Idle == [op |-> "none"]

TypeOK ==
  /\ files \in [SpecIds -> Doc \cup {NoSpec}]
  /\ torn \subseteq SpecIds
  /\ pc \in [Procs -> {"idle", "load", "list", "read", "save", "write"}]
  /\ cmd \in [Procs -> Commands \cup {Idle}]
  /\ doc \in [Procs -> Doc \cup {NoSpec}]
  /\ \A p \in Procs : /\ pc[p] # "idle" => cmd[p] \in Commands
                      /\ pc[p] \in {"save", "write"} => doc[p] \in Doc
                      /\ pc[p] \in {"list", "read"} /\ cmd[p].op = "set" =>
                           doc[p] \in Doc
  /\ todo \in [Procs -> SUBSET SpecIds]
  /\ seen \in [Procs -> SUBSET SpecIds]
  /\ blind \in BOOLEAN /\ clash \in BOOLEAN /\ stray \in BOOLEAN
  /\ late \in [Procs -> SUBSET SpecIds]

Init ==
  /\ files \in Projects
  /\ torn = {}
  /\ pc = [p \in Procs |-> "idle"]
  /\ cmd = [p \in Procs |-> Idle]
  /\ doc = [p \in Procs |-> NoSpec]
  /\ todo = [p \in Procs |-> {}]
  /\ seen = [p \in Procs |-> {}]
  /\ blind = FALSE /\ clash = FALSE /\ stray = FALSE
  /\ late = [p \in Procs |-> {}]

-----------------------------------------------------------------------------
OnDisk == torn \cup {n \in SpecIds : files[n] # NoSpec}

(* ParseSpec answers a spec. *)
Parses(n) == n \notin torn /\ files[n] # NoSpec /\ Validate(files[n])

GoTo(p, where) == pc' = [pc EXCEPT ![p] = where]

End(p) ==
  /\ GoTo(p, "idle")
  /\ cmd' = [cmd EXCEPT ![p] = Idle]
  /\ doc' = [doc EXCEPT ![p] = NoSpec]
  /\ todo' = [todo EXCEPT ![p] = {}]
  /\ seen' = [seen EXCEPT ![p] = {}]
  /\ late' = [late EXCEPT ![p] = {}]

Busy == \E p \in Procs : pc[p] # "idle"

(* A `new` that has read the names and not yet taken one. *)
Numbering(p) == pc[p] \in {"read", "save"} /\ cmd[p].op = "new"

NoteArrivals ==
  late' = [p \in Procs |->
             IF Numbering(p) THEN late[p] \cup (OnDisk' \ OnDisk) ELSE late[p]]

Start(p, c) ==
  /\ pc[p] = "idle"
  /\ cmd' = [cmd EXCEPT ![p] = c]
  /\ GoTo(p, IF c.op = "new" THEN "list" ELSE "load")
  /\ clash' = (clash \/ Busy)
  /\ UNCHANGED <<files, torn, doc, todo, seen, blind, stray, late>>

-----------------------------------------------------------------------------
(* ListSpecs: the names first, then one file after the other by name.      *)

ListDir(p) ==
  /\ pc[p] = "list"
  /\ todo' = [todo EXCEPT ![p] = OnDisk]
  /\ GoTo(p, "read")
  /\ UNCHANGED <<files, torn, cmd, doc, seen, blind, clash, stray, late>>

Before(m, n) == m[1] < n[1] \/ (m[1] = n[1] /\ m[2] <= n[2])

NextFile(p, n) == n \in todo[p] /\ \A m \in todo[p] : Before(n, m)

ReadSpec(p) ==
  /\ pc[p] = "read"
  /\ \E n \in SpecIds :
       /\ NextFile(p, n) /\ Parses(n)
       /\ seen' = [seen EXCEPT ![p] = @ \cup {files[n].id}]
       /\ todo' = [todo EXCEPT ![p] = @ \ {n}]
  /\ UNCHANGED <<files, torn, pc, cmd, doc, blind, clash, stray, late>>

(* One file that does not parse fails the List, and with it `spec new`. *)
NewListFails(p) ==
  /\ pc[p] = "read" /\ cmd[p].op = "new"
  /\ \E n \in SpecIds : NextFile(p, n) /\ ~Parses(n)
  /\ End(p)
  /\ UNCHANGED <<files, torn, blind, clash, stray>>

(* `spec set` goes on without the check. *)
SetListFails(p) ==
  /\ pc[p] = "read" /\ cmd[p].op = "set"
  /\ \E n \in SpecIds : NextFile(p, n) /\ ~Parses(n)
  /\ blind' = TRUE
  /\ GoTo(p, "save")
  /\ UNCHANGED <<files, torn, cmd, doc, todo, seen, clash, stray, late>>

Listed(p) == pc[p] = "read" /\ todo[p] = {}

-----------------------------------------------------------------------------
(* What each command makes of it.                                          *)

(* MUTANT of NewNumber: the number is the count of the specs plus one. *)
NewNumberCounts(p) ==
  /\ Listed(p) /\ cmd[p].op = "new"
  /\ \E n \in 1..MaxSpec :
       /\ n = Cardinality(seen[p]) + 1
       /\ doc' = [doc EXCEPT ![p] = NewSpecDoc(<<n, cmd[p].name>>)]
  /\ GoTo(p, "save")
  /\ UNCHANGED <<files, torn, cmd, todo, seen, blind, clash, stray, late>>

NewNumber(p) ==
  /\ Listed(p) /\ cmd[p].op = "new"
  /\ \E n \in 1..MaxSpec :
       /\ IsNext(seen[p], n)
       /\ doc' = [doc EXCEPT ![p] = NewSpecDoc(<<n, cmd[p].name>>)]
  /\ GoTo(p, "save")
  /\ UNCHANGED <<files, torn, cmd, todo, seen, blind, clash, stray, late>>

(* The bound: no number is left for the run to allocate. *)
NewFull(p) ==
  /\ Listed(p) /\ cmd[p].op = "new"
  /\ ~ \E n \in 1..MaxSpec : IsNext(seen[p], n)
  /\ End(p)
  /\ UNCHANGED <<files, torn, blind, clash, stray>>

(* MUTANT of LoadToMove: any move is legal. *)
LoadToMoveAnywhere(p) ==
  /\ pc[p] = "load" /\ cmd[p].op = "move"
  /\ Parses(cmd[p].id)
  /\ doc' = [doc EXCEPT ![p] = [files[cmd[p].id] EXCEPT !.status = cmd[p].to]]
  /\ GoTo(p, "save")
  /\ UNCHANGED <<files, torn, cmd, todo, seen, blind, clash, stray, late>>

(* MUTANT of LoadToMove: what was loaded is not kept. *)
LoadToMoveForgets(p) ==
  /\ pc[p] = "load" /\ cmd[p].op = "move"
  /\ Parses(cmd[p].id) /\ CanMoveTo(files[cmd[p].id].status, cmd[p].to)
  /\ GoTo(p, "save")
  /\ UNCHANGED <<files, torn, cmd, doc, todo, seen, blind, clash, stray, late>>

LoadToMove(p) ==
  /\ pc[p] = "load" /\ cmd[p].op = "move"
  /\ Parses(cmd[p].id) /\ CanMoveTo(files[cmd[p].id].status, cmd[p].to)
  /\ doc' = [doc EXCEPT ![p] = [files[cmd[p].id] EXCEPT !.status = cmd[p].to]]
  /\ GoTo(p, "save")
  /\ UNCHANGED <<files, torn, cmd, todo, seen, blind, clash, stray, late>>

LoadToSet(p) ==
  /\ pc[p] = "load" /\ cmd[p].op = "set"
  /\ Parses(cmd[p].id) /\ Validate(WithFlags(files[cmd[p].id], cmd[p].flags))
  /\ doc' = [doc EXCEPT ![p] = WithFlags(files[cmd[p].id], cmd[p].flags)]
  /\ GoTo(p, "list")
  /\ UNCHANGED <<files, torn, cmd, todo, seen, blind, clash, stray, late>>

LoadFails(p) ==
  /\ pc[p] = "load"
  /\ LET n == cmd[p].id
     IN  ~ /\ Parses(n)
           /\ cmd[p].op = "move" => CanMoveTo(files[n].status, cmd[p].to)
           /\ cmd[p].op = "set" => Validate(WithFlags(files[n], cmd[p].flags))
  /\ End(p)
  /\ UNCHANGED <<files, torn, blind, clash, stray>>

(* MUTANT of SetChecked: only the specs it supersedes are looked up. *)
SetCheckedSupersedes(p) ==
  /\ Listed(p) /\ cmd[p].op = "set"
  /\ IF doc[p].supersedes \subseteq seen[p]
     THEN GoTo(p, "save") /\ UNCHANGED <<cmd, doc, todo, seen, late>>
     ELSE End(p)
  /\ UNCHANGED <<files, torn, blind, clash, stray>>

(* CheckSpecs over the List, with the document in place of its old self. *)
SetChecked(p) ==
  /\ Listed(p) /\ cmd[p].op = "set"
  /\ IF Refs(doc[p]) \subseteq seen[p]
     THEN GoTo(p, "save") /\ UNCHANGED <<cmd, doc, todo, seen, late>>
     ELSE End(p)
  /\ UNCHANGED <<files, torn, blind, clash, stray>>

(* SaveSpec: the file is named after the id in the document. *)
SaveOpen(p) ==
  /\ pc[p] = "save" /\ Validate(doc[p])
  /\ torn' = torn \cup {doc[p].id}
  /\ GoTo(p, "write")
  /\ UNCHANGED <<files, cmd, doc, todo, seen, blind, clash, stray>>
  /\ NoteArrivals

SaveWrite(p) ==
  /\ pc[p] = "write"
  /\ files' = [files EXCEPT ![doc[p].id] = doc[p]]
  /\ torn' = torn \ {doc[p].id}
  /\ End(p)
  /\ UNCHANGED <<blind, clash, stray>>

-----------------------------------------------------------------------------
(* What is not a command of the program.                                   *)

(* A person saves, deletes or restores a file no command has open. *)
Edit(n, d) ==
  /\ \A p \in Procs : pc[p] = "write" => doc[p].id # n
  /\ files' = [files EXCEPT ![n] = d]
  /\ torn' = torn \ {n}
  /\ blind' = \/ blind \/ Dangling(files') \/ ~NamedAfterId(files')
              \/ ~(Content(files) \subseteq Content(files'))
  /\ stray' = (stray \/ ~NamedAfterId(files'))
  /\ clash' = (clash \/ Busy)
  /\ UNCHANGED <<pc, cmd, doc, todo, seen>>
  /\ NoteArrivals

Crash(p) ==
  /\ Crashes /\ pc[p] # "idle"
  /\ End(p)
  /\ UNCHANGED <<files, torn, blind, clash, stray>>

-----------------------------------------------------------------------------
Step(p) ==
  \/ ListDir(p) \/ ReadSpec(p) \/ NewListFails(p) \/ SetListFails(p)
  \/ NewNumber(p) \/ NewFull(p)
  \/ LoadToMove(p) \/ LoadToSet(p) \/ LoadFails(p) \/ SetChecked(p)
  \/ SaveOpen(p) \/ SaveWrite(p)

Edited == \E e \in Edits : Edit(e[1], e[2])

Next ==
  \/ \E p \in Procs : Step(p) \/ Crash(p) \/ \E c \in Commands : Start(p, c)
  \/ Edited

Spec == Init /\ [][Next]_vars

-----------------------------------------------------------------------------
(* Properties.                                                             *)

Published ==
  [n \in SpecIds |->
     IF n \in torn /\ ~ \E p \in Procs : pc[p] = "write" /\ doc[p].id = n
     THEN Broken ELSE files[n]]

Life == INSTANCE SpecLife WITH specs <- Published

(* While no two changes overlap and every file is named after the id in it,
   the commands are the steps of SpecLife: a new spec takes a number of its
   own, a superseded one never moves again, references exist. *)
LifeUnlessClash ==
  [][clash' \/ Edited \/ ~NamedAfterId(files) \/ Life!Next \/ UNCHANGED Published]_vars

(* A reference to a spec that does not exist comes from a person who writes
   it, takes the spec away or puts it under another name, or from a `spec set`
   that could not list the specs and saved all the same: what one command
   checks, another does not take away, overlap or crash.  A spec exists as
   long as its file does, truncated or not. *)
RefsExist == blind \/ ~Dangling(files)

(* A `spec new` truncates a file only if it came after the names the command
   read: what was there then, readable or not, it never takes, whatever other
   commands move, relate, create or die in meanwhile.  So one spec replaces
   another only through two that overlap, or where a file is not named after
   the id in it. *)
NewTakesAFreeName ==
  [][\A p \in Procs :
       SaveOpen(p) /\ cmd[p].op = "new" /\ ~stray =>
         doc[p].id \notin OnDisk \ late[p]]_vars
=============================================================================
