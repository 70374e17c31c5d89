-------------------------- MODULE SpecStoreProofs ---------------------------
(***************************************************************************)
(* Theorems about SpecStore, for any number of processes and specs: a      *)
(* `spec new` never takes what it could have read, whoever dies meanwhile; *)
(* a reference that was checked stays good; commands that do not overlap   *)
(* are the single steps of SpecLife.                                       *)
(***************************************************************************)
EXTENDS SpecStore, TLAPS

LEMMA NewIsDoc ==
  ASSUME NEW n \in SpecIds
  PROVE  NewSpecDoc(n) \in Doc /\ Refs(NewSpecDoc(n)) = {}
  BY DEF NewSpecDoc, Doc, Statuses, Refs

LEMMA WithFlagsIsDoc ==
  ASSUME NEW d \in Doc, NEW f \in SetFlags
  PROVE  WithFlags(d, f) \in Doc /\ WithFlags(d, f).id = d.id
  BY DEF WithFlags, Given, Doc, SetFlags

LEMMA MovedIsDoc ==
  ASSUME NEW d \in Doc, NEW s \in Statuses
  PROVE  /\ [d EXCEPT !.status = s] \in Doc
         /\ [d EXCEPT !.status = s].id = d.id
         /\ Refs([d EXCEPT !.status = s]) = Refs(d)
  BY DEF Doc, Refs

(* A command by what it is asked. *)
LEMMA CommandParts ==
  ASSUME NEW c \in Commands
  PROVE  /\ c # Idle
         /\ c.op \in {"new", "move", "set"}
         /\ c.op = "new" => c.name \in 1..MaxName
         /\ c.op = "move" => c.id \in SpecIds /\ c.to \in Statuses
         /\ c.op = "set" => c.id \in SpecIds /\ c.flags \in SetFlags
  <1>1. c \in Command
    BY CommandsAssumption
  <1>2. CASE c \in [op : {"new"}, name : 1..MaxName]
    BY <1>2 DEF Idle
  <1>3. CASE c \in [op : {"move"}, id : SpecIds, to : Statuses]
    BY <1>3 DEF Idle
  <1>4. CASE c \in [op : {"set"}, id : SpecIds, flags : SetFlags]
    BY <1>4 DEF Idle
  <1>5. QED
    BY <1>1, <1>2, <1>3, <1>4 DEF Command

LEMMA ParsesDoc ==
  ASSUME TypeOK, NEW n \in SpecIds, Parses(n)
  PROVE  files[n] \in Doc
  BY DEF TypeOK, Parses

LEMMA EditedTyped ==
  ASSUME TypeOK, Edited
  PROVE  files' \in [SpecIds -> Doc \cup {NoSpec}]
  <1>1. PICK e \in Edits : Edit(e[1], e[2])
    BY DEF Edited
  <1>2. e[1] \in SpecIds /\ e[2] \in Doc \cup {NoSpec}
    BY EditsAssumption
  <1>3. QED
    BY <1>1, <1>2 DEF Edit, TypeOK

LEMMA TypeStep == TypeOK /\ [Next]_vars => TypeOK'
  <1> SUFFICES ASSUME TypeOK, [Next]_vars PROVE TypeOK'
    OBVIOUS
  <1> USE DEF TypeOK, GoTo, End
  <1>0. OnDisk \subseteq SpecIds /\ (torn' \subseteq SpecIds => OnDisk' \subseteq SpecIds)
    BY DEF OnDisk
  <1>1. CASE UNCHANGED vars
    BY <1>1 DEF vars
  <1>2. ASSUME NEW p \in Procs, NEW c \in Commands, Start(p, c) PROVE TypeOK'
    BY <1>2, CommandParts DEF Start
  <1>3. ASSUME NEW p \in Procs, ListDir(p) PROVE TypeOK'
    BY <1>3 DEF ListDir, OnDisk
  <1>4. ASSUME NEW p \in Procs, ReadSpec(p) PROVE TypeOK'
    <2>1. PICK n \in SpecIds : /\ Parses(n)
                               /\ seen' = [seen EXCEPT ![p] = @ \cup {files[n].id}]
                               /\ todo' = [todo EXCEPT ![p] = @ \ {n}]
      BY <1>4 DEF ReadSpec
    <2>2. files[n].id \in SpecIds
      BY <2>1, ParsesDoc DEF Doc
    <2>3. QED
      BY <1>4, <2>1, <2>2 DEF ReadSpec
  <1>5. ASSUME NEW p \in Procs, SetListFails(p) PROVE TypeOK'
    BY <1>5 DEF SetListFails
  <1>6. ASSUME NEW p \in Procs, NewNumber(p) PROVE TypeOK'
    <2>1. PICK n \in 1..MaxSpec :
            doc' = [doc EXCEPT ![p] = NewSpecDoc(<<n, cmd[p].name>>)]
      BY <1>6 DEF NewNumber
    <2>2. cmd[p] \in Commands /\ cmd[p].op = "new"
      BY <1>6 DEF NewNumber, Listed
    <2>3. <<n, cmd[p].name>> \in SpecIds
      BY <2>2, CommandParts DEF SpecIds
    <2>4. QED
      BY <1>6, <2>1, <2>2, <2>3, NewIsDoc DEF NewNumber, Listed
  <1>7. ASSUME NEW p \in Procs, LoadToMove(p) PROVE TypeOK'
    <2>1. cmd[p] \in Commands /\ cmd[p].op = "move"
      BY <1>7 DEF LoadToMove
    <2>2. files[cmd[p].id] \in Doc
      BY <1>7, <2>1, CommandParts, ParsesDoc DEF LoadToMove
    <2>3. [files[cmd[p].id] EXCEPT !.status = cmd[p].to] \in Doc
      BY <2>1, <2>2, CommandParts, MovedIsDoc
    <2>4. QED
      BY <1>7, <2>3 DEF LoadToMove
  <1>8. ASSUME NEW p \in Procs, LoadToSet(p) PROVE TypeOK'
    <2>1. cmd[p] \in Commands /\ cmd[p].op = "set"
      BY <1>8 DEF LoadToSet
    <2>2. files[cmd[p].id] \in Doc
      BY <1>8, <2>1, CommandParts, ParsesDoc DEF LoadToSet
    <2>3. WithFlags(files[cmd[p].id], cmd[p].flags) \in Doc
      BY <2>1, <2>2, CommandParts, WithFlagsIsDoc
    <2>4. QED
      BY <1>8, <2>3 DEF LoadToSet
  <1>9. ASSUME NEW p \in Procs, SetChecked(p) PROVE TypeOK'
    BY <1>9 DEF SetChecked, Listed
  <1>10. ASSUME NEW p \in Procs, SaveOpen(p) PROVE TypeOK'
    <2>1. torn' \subseteq SpecIds
      BY <1>10 DEF SaveOpen, Doc
    <2>2. late' \in [Procs -> SUBSET SpecIds]
      BY <1>0, <1>10, <2>1 DEF SaveOpen, NoteArrivals
    <2>3. QED
      BY <1>10, <2>1, <2>2 DEF SaveOpen
  <1>11. ASSUME NEW p \in Procs, SaveWrite(p) PROVE TypeOK'
    <2>1. doc[p] \in Doc /\ doc[p].id \in SpecIds
      BY <1>11 DEF SaveWrite, Doc
    <2>2. QED
      BY <1>11, <2>1 DEF SaveWrite
  <1>12. ASSUME NEW p \in Procs,
                NewListFails(p) \/ NewFull(p) \/ LoadFails(p) \/ Crash(p)
         PROVE  TypeOK'
    BY <1>12 DEF NewListFails, NewFull, LoadFails, Crash
  <1>13. ASSUME Edited PROVE TypeOK'
    <2>1. blind' \in BOOLEAN /\ clash' \in BOOLEAN /\ torn' \subseteq SpecIds
      BY <1>13 DEF Edited, Edit, Busy
    <2>2. stray' \in BOOLEAN /\ late' \in [Procs -> SUBSET SpecIds]
      BY <1>0, <1>13, <2>1 DEF Edited, Edit, NoteArrivals
    <2>3. QED
      BY <1>13, <2>1, <2>2, EditedTyped DEF Edited, Edit
  <1>14. QED
    BY <1>1, <1>2, <1>3, <1>4, <1>5, <1>6, <1>7, <1>8, <1>9, <1>10, <1>11, <1>12,
       <1>13 DEF Next, Step

LEMMA TypeInit == Init => TypeOK
  BY ProjectsAssumption DEF Init, TypeOK

(* Whatever the commands do at the same time, a spec file holds a document and
   a command what its next step needs (SpecStore, Layout.ListSpecs to
   SaveSpec). *)
THEOREM TypeCorrect == Spec => []TypeOK
  <1> QED
    BY TypeInit, TypeStep, PTL DEF Spec

-----------------------------------------------------------------------------
(* Which steps write a spec file. *)
LEMMA FilesChange ==
  ASSUME TypeOK, [Next]_vars
  PROVE  Edited \/ (\E p \in Procs : SaveWrite(p)) \/ UNCHANGED files
  BY DEF Next, Step, vars, Start, Crash, ListDir, ReadSpec, NewListFails,
         SetListFails, NewNumber, NewFull, LoadToMove, LoadToSet, LoadFails,
         SetChecked, SaveOpen

(* A write adds the document to what there is. *)
LEMMA WriteAdds ==
  ASSUME TypeOK, NEW p \in Procs, SaveWrite(p), NamedAfterId(files)
  PROVE  /\ Content(files') = Content(files) \cup {doc[p].id}
         /\ NamedAfterId(files')
         /\ files' = [files EXCEPT ![doc[p].id] = doc[p]]
  <1>1. doc[p] \in Doc /\ doc[p].id \in SpecIds /\ doc[p] # NoSpec
    BY NoSpecAssumption DEF SaveWrite, TypeOK, Doc
  <1>2. files' = [files EXCEPT ![doc[p].id] = doc[p]]
    BY DEF SaveWrite
  <1>3. \A n \in SpecIds : files'[n] = IF n = doc[p].id THEN doc[p] ELSE files[n]
    BY <1>1, <1>2 DEF TypeOK
  <1>4. NamedAfterId(files')
    BY <1>1, <1>3 DEF NamedAfterId
  <1>5. \A f : NamedAfterId(f) => Content(f) = {n \in SpecIds : f[n] # NoSpec}
    BY DEF NamedAfterId, Content
  <1>6. {n \in SpecIds : files'[n] # NoSpec}
          = {n \in SpecIds : files[n] # NoSpec} \cup {doc[p].id}
    BY <1>1, <1>3
  <1>7. QED
    BY <1>2, <1>4, <1>5, <1>6

-----------------------------------------------------------------------------
(* What NewTakesAFreeName rests on: while every file is named after the id in
   it, what is on disk has come late for a `new`, or is still to be read, or
   its id is in the list the number is taken from. *)

Known(p) ==
  /\ pc[p] = "read" => OnDisk \subseteq todo[p] \cup seen[p] \cup late[p]
  /\ pc[p] = "save" => /\ OnDisk \subseteq seen[p] \cup late[p]
                       /\ doc[p].id \notin seen[p]

NameInv ==
  /\ \A p \in Procs : pc[p] = "write" => doc[p].id \in OnDisk
  /\ ~stray => /\ NamedAfterId(files)
               /\ \A p \in Procs : cmd[p].op = "new" => Known(p)

LEMMA NameInit == Init => NameInv
  BY ProjectsAssumption DEF Init, NameInv, Known

(* A file that is written was on disk, and stays there. *)
LEMMA WriteKeepsDisk ==
  ASSUME TypeOK, NEW p \in Procs, SaveWrite(p), doc[p].id \in OnDisk
  PROVE  OnDisk' = OnDisk
  <1>1. doc[p].id \in SpecIds /\ doc[p] # NoSpec
    BY NoSpecAssumption DEF SaveWrite, TypeOK, Doc
  <1>2. \A n \in SpecIds : files'[n] = IF n = doc[p].id THEN doc[p] ELSE files[n]
    BY <1>1 DEF SaveWrite, TypeOK
  <1>3. torn' = torn \ {doc[p].id}
    BY DEF SaveWrite
  <1>4. QED
    BY <1>1, <1>2, <1>3 DEF OnDisk

(* What is on disk after a person's edit but for the file itself. *)
LEMMA EditKeepsDisk ==
  ASSUME TypeOK, NEW n \in SpecIds, NEW d, Edit(n, d)
  PROVE  \A m \in SpecIds : m # n => (m \in OnDisk' <=> m \in OnDisk)
  BY DEF TypeOK, Edit, OnDisk

LEMMA NameStep == TypeOK /\ NameInv /\ [Next]_vars => NameInv'
  <1> SUFFICES ASSUME TypeOK, NameInv, [Next]_vars PROVE NameInv'
    OBVIOUS
  <1> USE DEF TypeOK, GoTo, End
  <1>1. CASE UNCHANGED vars
    BY <1>1 DEF vars, NameInv, Known, OnDisk, NamedAfterId
  <1>2. CASE Edited
    <2>1. PICK e \in Edits : Edit(e[1], e[2])
      BY <1>2 DEF Edited
    <2>2. PICK n \in SpecIds, d \in Doc \cup {NoSpec} : Edit(n, d)
      BY <2>1, EditsAssumption
    <2>3. UNCHANGED <<pc, cmd, doc, todo, seen>> /\ OnDisk' \subseteq SpecIds
      BY <1>2, TypeStep DEF Edited, Edit, OnDisk
    <2>4. ASSUME NEW p \in Procs, pc'[p] = "write" PROVE doc'[p].id \in OnDisk'
      <3>1. doc[p].id # n /\ doc[p].id \in SpecIds /\ doc[p].id \in OnDisk
        BY <2>2, <2>3, <2>4 DEF Edit, NameInv, Doc
      <3>2. QED
        BY <2>2, <2>3, <3>1, EditKeepsDisk
    <2>5. ~stray' => ~stray /\ NamedAfterId(files')
      BY <2>2 DEF Edit
    <2>6. ASSUME ~stray', NEW p \in Procs, cmd'[p].op = "new" PROVE Known(p)'
      <3>1. Known(p)
        BY <2>3, <2>5, <2>6 DEF NameInv
      <3>2. Numbering(p) => late'[p] = late[p] \cup (OnDisk' \ OnDisk)
        BY <2>2 DEF Edit, NoteArrivals
      <3>3. QED
        BY <2>3, <2>6, <3>1, <3>2 DEF Known, Numbering
    <2>7. QED
      BY <2>4, <2>5, <2>6 DEF NameInv, NamedAfterId
  <1>3. ASSUME NEW p \in Procs, SaveWrite(p) PROVE NameInv'
    <2>1. doc[p].id \in OnDisk
      BY <1>3 DEF SaveWrite, NameInv
    <2>2. OnDisk' = OnDisk
      BY <1>3, <2>1, WriteKeepsDisk
    <2>3. \A q \in Procs : /\ q # p => /\ pc'[q] = pc[q] /\ cmd'[q] = cmd[q]
                                       /\ doc'[q] = doc[q] /\ todo'[q] = todo[q]
                                       /\ seen'[q] = seen[q] /\ late'[q] = late[q]
                           /\ q = p => pc'[q] = "idle"
      BY <1>3 DEF SaveWrite
    <2>4. stray' = stray /\ (~stray => NamedAfterId(files'))
      BY <1>3, WriteAdds DEF SaveWrite, NameInv
    <2>5. \A q \in Procs : pc'[q] = "write" => doc'[q].id \in OnDisk'
      BY <2>2, <2>3 DEF NameInv
    <2>6. ASSUME ~stray', NEW q \in Procs, cmd'[q].op = "new" PROVE Known(q)'
      BY <2>2, <2>3, <2>4, <2>6 DEF NameInv, Known
    <2>7. QED
      BY <2>4, <2>5, <2>6 DEF NameInv, NamedAfterId
  <1>4. ASSUME NEW p \in Procs, SaveOpen(p) PROVE NameInv'
    <2>1. doc[p].id \in SpecIds /\ UNCHANGED <<files, cmd, doc, todo, seen, stray>>
      BY <1>4 DEF SaveOpen, Doc
    <2>2. OnDisk' = OnDisk \cup {doc[p].id}
      BY <1>4, <2>1 DEF SaveOpen, OnDisk
    <2>3. pc' = [pc EXCEPT ![p] = "write"]
      BY <1>4 DEF SaveOpen
    <2>4. \A q \in Procs : pc'[q] = "write" => doc'[q].id \in OnDisk'
      BY <2>1, <2>2, <2>3 DEF NameInv
    <2>5. ASSUME ~stray', NEW q \in Procs, cmd'[q].op = "new" PROVE Known(q)'
      <3>1. Known(q)
        BY <2>1, <2>5 DEF NameInv
      <3>2. Numbering(q) => late'[q] = late[q] \cup (OnDisk' \ OnDisk)
        BY <1>4 DEF SaveOpen, NoteArrivals
      <3>3. pc'[q] \in {"read", "save"} => pc'[q] = pc[q] /\ Numbering(q)
        BY <2>1, <2>3, <2>5 DEF Numbering
      <3>4. QED
        BY <2>1, <3>1, <3>2, <3>3 DEF Known
    <2>6. ~stray' => NamedAfterId(files')
      BY <2>1 DEF NameInv
    <2>7. QED
      BY <2>4, <2>5, <2>6 DEF NameInv, NamedAfterId
  <1>5. CASE Next /\ ~Edited /\ ~ \E p \in Procs : SaveWrite(p) \/ SaveOpen(p)
    <2>1. UNCHANGED <<files, torn, stray>>
      BY <1>5
      DEF Next, Step, Start, Crash, ListDir, ReadSpec, NewListFails, SetListFails,
          NewNumber, NewFull, LoadToMove, LoadToSet, LoadFails, SetChecked
    <2>2. OnDisk' = OnDisk
      BY <2>1 DEF OnDisk
    <2>3. PICK p \in Procs :
            \/ \E c \in Commands : Start(p, c)
            \/ ListDir(p) \/ ReadSpec(p) \/ SetListFails(p) \/ NewNumber(p)
            \/ LoadToMove(p) \/ LoadToSet(p) \/ SetChecked(p)
            \/ NewListFails(p) \/ NewFull(p) \/ LoadFails(p) \/ Crash(p)
      BY <1>5 DEF Next, Step
    <2>4. \A q \in Procs : q # p => /\ pc'[q] = pc[q] /\ cmd'[q] = cmd[q]
                                    /\ doc'[q] = doc[q] /\ todo'[q] = todo[q]
                                    /\ seen'[q] = seen[q] /\ late'[q] = late[q]
      BY <2>3
      DEF Start, Crash, ListDir, ReadSpec, NewListFails, SetListFails, NewNumber,
          NewFull, LoadToMove, LoadToSet, LoadFails, SetChecked
    <2>5. pc'[p] # "write"
      BY <2>3
      DEF Start, Crash, ListDir, ReadSpec, NewListFails, SetListFails, NewNumber,
          NewFull, LoadToMove, LoadToSet, LoadFails, SetChecked, Listed
    <2>6. \A q \in Procs : pc'[q] = "write" => doc'[q].id \in OnDisk'
      BY <2>2, <2>4, <2>5 DEF NameInv
    <2>7. ~stray' => NamedAfterId(files')
      BY <2>1 DEF NameInv
    <2>8. ASSUME ~stray', NEW q \in Procs, cmd'[q].op = "new" PROVE Known(q)'
      <3>1. CASE q # p
        BY <2>1, <2>2, <2>4, <2>8, <3>1 DEF NameInv, Known
      <3>2. CASE q = p
        <4>1. CASE ListDir(p)
          BY <2>2, <3>2, <4>1 DEF ListDir, Known
        <4>2. CASE ReadSpec(p)
          <5>1. PICK n \in SpecIds :
                  /\ Parses(n) /\ seen' = [seen EXCEPT ![p] = @ \cup {files[n].id}]
                  /\ todo' = [todo EXCEPT ![p] = @ \ {n}]
            BY <4>2 DEF ReadSpec
          <5>2. files[n].id = n
            BY <2>1, <2>8, <5>1 DEF NameInv, NamedAfterId, Parses
          <5>3. Known(p) /\ pc[p] = "read" /\ pc' = pc /\ late' = late
            BY <2>1, <2>8, <3>2, <4>2 DEF ReadSpec, NameInv
          <5>4. QED
            BY <2>2, <3>2, <5>1, <5>2, <5>3 DEF Known
        <4>3. CASE NewNumber(p)
          <5>1. PICK n \in 1..MaxSpec :
                  /\ IsNext(seen[p], n)
                  /\ doc' = [doc EXCEPT ![p] = NewSpecDoc(<<n, cmd[p].name>>)]
            BY <4>3 DEF NewNumber
          <5>2. doc'[p].id = <<n, cmd[p].name>> /\ doc'[p].id \notin seen[p]
            BY <5>1 DEF NewSpecDoc, IsNext
          <5>3. Known(p) /\ pc[p] = "read" /\ todo[p] = {} /\ pc'[p] = "save"
                /\ UNCHANGED <<seen, late>>
            BY <2>1, <2>8, <3>2, <4>3 DEF NewNumber, Listed, NameInv
          <5>4. QED
            BY <2>2, <3>2, <5>2, <5>3 DEF Known
        <4>4. CASE \/ NewListFails(p) \/ NewFull(p) \/ LoadFails(p) \/ Crash(p)
          BY <3>2, <4>4 DEF NewListFails, NewFull, LoadFails, Crash, Known
        <4>5. CASE \E c \in Commands : Start(p, c)
          BY <3>2, <4>5 DEF Start, Known
        <4>6. CASE \/ SetListFails(p) \/ LoadToMove(p) \/ LoadToSet(p) \/ SetChecked(p)
          BY <2>8, <3>2, <4>6
          DEF SetListFails, LoadToMove, LoadToSet, SetChecked, Listed, Idle
        <4>7. QED
          BY <2>3, <4>1, <4>2, <4>3, <4>4, <4>5, <4>6
      <3>3. QED
        BY <3>1, <3>2
    <2>9. QED
      BY <2>6, <2>7, <2>8 DEF NameInv, NamedAfterId
  <1>6. QED
    BY <1>1, <1>2, <1>3, <1>4, <1>5

(* A `spec new` truncates a file only if it came after the names the command
   read, for any number of processes that create, move, relate and die at the
   same time, while no file is named other than the id in it (NextSpecID,
   SaveSpec). *)
THEOREM NewsTakeFreeNames == Spec => NewTakesAFreeName
  <1>1. TypeOK /\ NameInv /\ [Next]_vars =>
          [\A p \in Procs : SaveOpen(p) /\ cmd[p].op = "new" /\ ~stray =>
             doc[p].id \notin OnDisk \ late[p]]_vars
    BY DEF NameInv, Known, SaveOpen
  <1>2. QED
    BY <1>1, NameInit, NameStep, TypeCorrect, PTL DEF Spec, NewTakesAFreeName

-----------------------------------------------------------------------------
(* What RefsExist rests on: as long as nothing went unchecked, every list a
   command has made, and every reference it is about to write, is of specs
   that are there. *)

Checked(p) ==
  /\ seen[p] \subseteq Content(files)
  /\ pc[p] \in {"save", "write"} => Refs(doc[p]) \subseteq Content(files)

RefsInv ==
  ~blind => /\ NamedAfterId(files) /\ ~Dangling(files)
            /\ \A p \in Procs : Checked(p)

LEMMA RefsInit == Init => RefsInv
  BY ProjectsAssumption DEF Init, RefsInv, Checked

LEMMA RefsStep == TypeOK /\ RefsInv /\ [Next]_vars => RefsInv'
  <1> SUFFICES ASSUME TypeOK, RefsInv, [Next]_vars, ~blind'
               PROVE  /\ NamedAfterId(files') /\ ~Dangling(files')
                      /\ \A q \in Procs : Checked(q)'
    BY DEF RefsInv, NamedAfterId, Dangling, Content
  <1>1. CASE UNCHANGED vars
    BY <1>1 DEF vars, RefsInv, Checked, NamedAfterId, Dangling, Content
  <1>2. CASE Edited
    <2>1. ~blind /\ NamedAfterId(files') /\ ~Dangling(files')
          /\ Content(files) \subseteq Content(files')
      BY <1>2 DEF Edited, Edit
    <2>2. UNCHANGED <<pc, doc, seen>>
      BY <1>2 DEF Edited, Edit
    <2>3. \A q \in Procs : Checked(q)'
      BY <2>1, <2>2 DEF RefsInv, Checked
    <2>4. QED
      BY <2>1, <2>3
  <1>3. CASE \E p \in Procs : SaveWrite(p)
    <2>1. PICK p \in Procs : SaveWrite(p)
      BY <1>3
    <2>2. ~blind /\ NamedAfterId(files) /\ ~Dangling(files) /\ Checked(p)
      BY <2>1 DEF SaveWrite, RefsInv
    <2>3. /\ Content(files') = Content(files) \cup {doc[p].id}
          /\ NamedAfterId(files')
          /\ files' = [files EXCEPT ![doc[p].id] = doc[p]]
      BY <2>1, <2>2, WriteAdds
    <2>4. Refs(doc[p]) \subseteq Content(files')
      BY <2>1, <2>2, <2>3 DEF SaveWrite, Checked
    <2>5. \A n \in SpecIds : files'[n] = files[n] \/ files'[n] = doc[p]
      BY <2>3 DEF TypeOK
    <2>6. ~Dangling(files')
      BY <2>2, <2>3, <2>4, <2>5 DEF Dangling
    <2>7. ASSUME NEW q \in Procs PROVE Checked(q)'
      <3>1. seen'[q] \subseteq seen[q] /\ doc'[q] \in {doc[q], NoSpec}
            /\ (pc'[q] \in {"save", "write"} => pc'[q] = pc[q] /\ doc'[q] = doc[q])
        BY <2>1 DEF SaveWrite, End, GoTo, TypeOK
      <3>2. Checked(q)
        BY <2>2 DEF RefsInv
      <3>3. QED
        BY <2>3, <3>1, <3>2 DEF Checked
    <2>8. QED
      BY <2>3, <2>6, <2>7
  <1>4. CASE Next /\ ~Edited /\ ~ \E p \in Procs : SaveWrite(p)
    <2>1. UNCHANGED files
      BY <1>4, FilesChange
    <2>2. ~blind
      BY <1>4
      DEF Next, Step, Start, Crash, ListDir, ReadSpec, NewListFails, SetListFails,
          NewNumber, NewFull, LoadToMove, LoadToSet, LoadFails, SetChecked, SaveOpen
    <2>3. NamedAfterId(files) /\ ~Dangling(files) /\ \A q \in Procs : Checked(q)
      BY <2>2 DEF RefsInv
    <2>4. ASSUME NEW q \in Procs PROVE Checked(q)'
      <3> USE <2>1, <2>3 DEF TypeOK, GoTo, End
      <3>1. ASSUME NEW p \in Procs, ReadSpec(p) PROVE Checked(q)'
        <4>1. PICK n \in SpecIds : /\ Parses(n)
                                   /\ seen' = [seen EXCEPT ![p] = @ \cup {files[n].id}]
          BY <3>1 DEF ReadSpec
        <4>2. files[n].id \in Content(files)
          BY <4>1 DEF Parses, Content
        <4>3. QED
          BY <3>1, <4>1, <4>2 DEF ReadSpec, Checked
      <3>2. ASSUME NEW p \in Procs, NewNumber(p) PROVE Checked(q)'
        <4>1. PICK n \in 1..MaxSpec :
                doc' = [doc EXCEPT ![p] = NewSpecDoc(<<n, cmd[p].name>>)]
          BY <3>2 DEF NewNumber
        <4>2. Refs(NewSpecDoc(<<n, cmd[p].name>>)) = {}
          BY DEF NewSpecDoc, Refs
        <4>3. QED
          BY <3>2, <4>1, <4>2 DEF NewNumber, Checked
      <3>3. ASSUME NEW p \in Procs, LoadToMove(p) PROVE Checked(q)'
        <4>1. cmd[p] \in Commands /\ cmd[p].op = "move" /\ Parses(cmd[p].id)
          BY <3>3 DEF LoadToMove
        <4>2. cmd[p].id \in SpecIds /\ cmd[p].to \in Statuses
          BY <4>1, CommandParts
        <4>3. files[cmd[p].id] \in Doc /\ files[cmd[p].id] # NoSpec
          BY <4>1, <4>2, ParsesDoc, NoSpecAssumption
        <4>4. Refs(files[cmd[p].id]) \subseteq Content(files)
          BY <4>2, <4>3 DEF Dangling
        <4>5. Refs([files[cmd[p].id] EXCEPT !.status = cmd[p].to]) = Refs(files[cmd[p].id])
          BY <4>2, <4>3, MovedIsDoc
        <4>6. QED
          BY <3>3, <4>4, <4>5 DEF LoadToMove, Checked
      <3>4. ASSUME NEW p \in Procs, SetChecked(p) PROVE Checked(q)'
        <4>1. CASE Refs(doc[p]) \subseteq seen[p]
          BY <3>4, <4>1 DEF SetChecked, Checked
        <4>2. CASE ~(Refs(doc[p]) \subseteq seen[p])
          BY <3>4, <4>2 DEF SetChecked, Checked
        <4>3. QED
          BY <4>1, <4>2
      <3>5. ASSUME NEW p \in Procs,
                   \/ \E c \in Commands : Start(p, c)
                   \/ ListDir(p) \/ LoadToSet(p) \/ SaveOpen(p)
            PROVE  Checked(q)'
        BY <3>5 DEF Start, ListDir, LoadToSet, SaveOpen, Checked
      <3>6. ASSUME NEW p \in Procs,
                   \/ NewListFails(p) \/ NewFull(p) \/ LoadFails(p) \/ Crash(p)
            PROVE  Checked(q)'
        BY <3>6 DEF NewListFails, NewFull, LoadFails, Crash, Checked
      <3>7. ASSUME NEW p \in Procs, SetListFails(p) PROVE FALSE
        BY <3>7 DEF SetListFails
      <3>8. QED
        BY <1>4, <3>1, <3>2, <3>3, <3>4, <3>5, <3>6, <3>7 DEF Next, Step
    <2>5. QED
      BY <2>1, <2>3, <2>4
  <1>5. QED
    BY <1>1, <1>2, <1>3, <1>4

(* A dangling reference comes from a person or from a `spec set` that could
   not list the specs: what one command checks, another does not take away
   (CheckSpecs in cmdSpec set, SaveSpec). *)
THEOREM CheckedRefsExist == Spec => []RefsExist
  <1>1. TypeOK /\ RefsInv => RefsExist
    BY DEF RefsInv, RefsExist
  <1>2. QED
    BY <1>1, RefsInit, RefsStep, TypeCorrect, PTL DEF Spec

-----------------------------------------------------------------------------
(* Commands that do not overlap.                                           *)

Writing(p) == pc[p] = "write"

(* The documents on disk, and one that is being written, are valid. *)
ValidInv ==
  /\ \A n \in SpecIds : files[n] # NoSpec => Validate(files[n])
  /\ \A p \in Procs : Writing(p) => Validate(doc[p])

(* A command that has not listed the specs has found none. *)
EmptyHanded == \A p \in Procs : pc[p] \in {"idle", "load", "list"} => seen[p] = {}

(* What a command has read is still what the files say. *)
Listing(p) ==
  /\ todo[p] \subseteq OnDisk
  /\ \A n \in OnDisk \ todo[p] : Parses(n)
  /\ seen[p] = {files[n].id : n \in OnDisk \ todo[p]}

Related(p) ==
  /\ cmd[p].op = "set" /\ files[cmd[p].id] \in Doc
  /\ Validate(WithFlags(files[cmd[p].id], cmd[p].flags))
  /\ doc[p] = WithFlags(files[cmd[p].id], cmd[p].flags)

(* What a command is about to write, where `broken` are the files it could not
   have read. *)
DueNew(p, broken) ==
  /\ cmd[p].op = "new" /\ broken = {}
  /\ \E k \in 1..MaxSpec : /\ doc[p] = NewSpecDoc(<<k, cmd[p].name>>)
                           /\ IsNext(Content(files), k)

DueMove(p, broken) ==
  /\ cmd[p].op = "move" /\ cmd[p].id \notin broken
  /\ files[cmd[p].id] \in Doc /\ CanMoveTo(files[cmd[p].id].status, cmd[p].to)
  /\ doc[p] = [files[cmd[p].id] EXCEPT !.status = cmd[p].to]

DueSet(p, broken) ==
  /\ Related(p) /\ cmd[p].id \notin broken
  /\ broken = {} => Refs(doc[p]) \subseteq Content(files)

Due(p, broken) == DueNew(p, broken) \/ DueMove(p, broken) \/ DueSet(p, broken)

Fresh(p) ==
  /\ pc[p] = "read" => Listing(p)
  /\ pc[p] \in {"list", "read"} /\ cmd[p].op = "set" =>
       Related(p) /\ cmd[p].id \notin torn
  /\ pc[p] = "save" => Due(p, torn)
  /\ Writing(p) => doc[p].id \in torn /\ Due(p, torn \ {doc[p].id})

Alone == \A p, q \in Procs : pc[p] # "idle" /\ pc[q] # "idle" => p = q

AloneInv ==
  /\ TypeOK /\ ValidInv /\ EmptyHanded
  /\ ~clash => Alone
  /\ ~clash /\ NamedAfterId(files) => \A p \in Procs : Fresh(p)

LEMMA AloneInit == Init => AloneInv
  BY TypeInit, ProjectsAssumption
  DEF Init, AloneInv, ValidInv, EmptyHanded, Writing, Alone, Fresh, NamedAfterId

LEMMA ValidStep == TypeOK /\ ValidInv /\ [Next]_vars => ValidInv'
  <1> SUFFICES ASSUME TypeOK, ValidInv, [Next]_vars PROVE ValidInv'
    OBVIOUS
  <1> USE DEF TypeOK, GoTo, End
  <1>1. CASE Edited
    <2>1. PICK e \in Edits : Edit(e[1], e[2])
      BY <1>1 DEF Edited
    <2>2. e[1] \in SpecIds /\ (e[2] # NoSpec => Validate(e[2]))
      BY EditsAssumption
    <2>3. \A n \in SpecIds : files'[n] = files[n] \/ files'[n] = e[2]
      BY <2>1, <2>2 DEF Edit
    <2>4. QED
      BY <2>1, <2>2, <2>3 DEF Edit, ValidInv, Writing
  <1>2. ASSUME NEW p \in Procs, SaveWrite(p) PROVE ValidInv'
    <2>1. Validate(doc[p])
      BY <1>2 DEF SaveWrite, ValidInv, Writing
    <2>2. \A n \in SpecIds : files'[n] = files[n] \/ files'[n] = doc[p]
      BY <1>2 DEF SaveWrite, Doc
    <2>3. \A q \in Procs : Writing(q)' => Writing(q) /\ doc'[q] = doc[q]
      BY <1>2 DEF SaveWrite, Writing
    <2>4. QED
      BY <2>1, <2>2, <2>3 DEF ValidInv
  <1>3. CASE Next /\ ~Edited /\ ~ \E p \in Procs : SaveWrite(p)
    <2>1. UNCHANGED files
      BY <1>3, FilesChange
    <2>2. ASSUME NEW q \in Procs, Writing(q)' PROVE Validate(doc'[q])
      <3>1. ASSUME NEW p \in Procs, SaveOpen(p) PROVE Validate(doc'[q])
        BY <2>2, <3>1 DEF SaveOpen, ValidInv, Writing
      <3>2. ASSUME NEW p \in Procs,
                   \/ \E c \in Commands : Start(p, c)
                   \/ ListDir(p) \/ ReadSpec(p) \/ SetListFails(p) \/ NewNumber(p)
                   \/ LoadToMove(p) \/ LoadToSet(p) \/ SetChecked(p)
            PROVE  Writing(q) /\ doc'[q] = doc[q]
        BY <2>2, <3>2
        DEF Start, ListDir, ReadSpec, SetListFails, NewNumber, LoadToMove, LoadToSet,
            SetChecked, Writing
      <3>3. ASSUME NEW p \in Procs,
                   NewListFails(p) \/ NewFull(p) \/ LoadFails(p) \/ Crash(p)
            PROVE  Writing(q) /\ doc'[q] = doc[q]
        BY <2>2, <3>3 DEF NewListFails, NewFull, LoadFails, Crash, Writing
      <3>4. QED
        BY <1>3, <3>1, <3>2, <3>3 DEF Next, Step, ValidInv
    <2>3. QED
      BY <2>1, <2>2 DEF ValidInv
  <1>4. CASE UNCHANGED vars
    BY <1>4 DEF vars, ValidInv, Writing
  <1>5. QED
    BY <1>1, <1>2, <1>3, <1>4

LEMMA EmptyStep == TypeOK /\ EmptyHanded /\ [Next]_vars => EmptyHanded'
  <1> SUFFICES ASSUME TypeOK, EmptyHanded, [Next]_vars PROVE EmptyHanded'
    OBVIOUS
  <1> USE DEF TypeOK, GoTo, End, EmptyHanded
  <1>1. ASSUME NEW p \in Procs, NEW c \in Commands, Start(p, c) PROVE EmptyHanded'
    BY <1>1 DEF Start
  <1>2. ASSUME NEW p \in Procs,
               \/ ListDir(p) \/ ReadSpec(p) \/ SetListFails(p) \/ NewNumber(p)
               \/ LoadToMove(p) \/ LoadToSet(p) \/ SaveOpen(p)
        PROVE  EmptyHanded'
    BY <1>2
    DEF ListDir, ReadSpec, SetListFails, NewNumber, LoadToMove, LoadToSet, SaveOpen
  <1>3. ASSUME NEW p \in Procs,
               \/ NewListFails(p) \/ NewFull(p) \/ LoadFails(p) \/ Crash(p)
               \/ SaveWrite(p)
        PROVE  EmptyHanded'
    BY <1>3 DEF NewListFails, NewFull, LoadFails, Crash, SaveWrite
  <1>4. ASSUME NEW p \in Procs, SetChecked(p) PROVE EmptyHanded'
    BY <1>4 DEF SetChecked, Listed
  <1>5. CASE Edited
    BY <1>5 DEF Edited, Edit
  <1>6. CASE UNCHANGED vars
    BY <1>6 DEF vars
  <1>7. QED
    BY <1>1, <1>2, <1>3, <1>4, <1>5, <1>6 DEF Next, Step

LEMMA ClashStays == Next /\ ~clash' => ~clash
  BY DEF Next, Step, Start, Edited, Edit, Crash, ListDir, ReadSpec, NewListFails,
         SetListFails, NewNumber, NewFull, LoadToMove, LoadToSet, LoadFails,
         SetChecked, SaveOpen, SaveWrite

LEMMA AloneStays == TypeOK /\ Alone /\ Next /\ ~clash' => Alone'
  <1> SUFFICES ASSUME TypeOK, Alone, Next, ~clash' PROVE Alone'
    OBVIOUS
  <1> USE DEF TypeOK, GoTo, End
  <1>1. ASSUME NEW p \in Procs, NEW c \in Commands, Start(p, c) PROVE Alone'
    BY <1>1 DEF Start, Busy, Alone
  <1>2. ASSUME NEW p \in Procs,
               \/ ListDir(p) \/ ReadSpec(p) \/ SetListFails(p) \/ NewNumber(p)
               \/ LoadToMove(p) \/ LoadToSet(p) \/ SaveOpen(p)
        PROVE  Alone'
    BY <1>2
    DEF ListDir, ReadSpec, SetListFails, NewNumber, LoadToMove, LoadToSet, SaveOpen,
        Listed, Alone
  <1>3. ASSUME NEW p \in Procs,
               \/ NewListFails(p) \/ NewFull(p) \/ LoadFails(p) \/ Crash(p)
               \/ SaveWrite(p)
        PROVE  Alone'
    BY <1>3 DEF NewListFails, NewFull, LoadFails, Crash, SaveWrite, Alone
  <1>4. ASSUME NEW p \in Procs, SetChecked(p) PROVE Alone'
    BY <1>4 DEF SetChecked, Listed, Alone
  <1>5. CASE Edited
    BY <1>5 DEF Edited, Edit, Alone
  <1>6. QED
    BY <1>1, <1>2, <1>3, <1>4, <1>5 DEF Next, Step

(* What is written was not broken; a move and a set write what they read. *)
LEMMA DueFree ==
  ASSUME TypeOK, NamedAfterId(files), NEW p \in Procs, pc[p] # "idle",
         NEW broken, Due(p, broken)
  PROVE  /\ doc[p].id \in SpecIds /\ doc[p].id \notin broken
         /\ cmd[p].op # "new" => doc[p].id = cmd[p].id
  <1>1. cmd[p] \in Commands
    BY DEF TypeOK
  <1>2. CASE DueNew(p, broken)
    <2>1. PICK k \in 1..MaxSpec : doc[p] = NewSpecDoc(<<k, cmd[p].name>>)
      BY <1>2 DEF DueNew
    <2>2. <<k, cmd[p].name>> \in SpecIds
      BY <1>1, <1>2, CommandParts DEF DueNew, SpecIds
    <2>3. doc[p].id = <<k, cmd[p].name>>
      BY <2>1 DEF NewSpecDoc
    <2>4. QED
      BY <1>2, <2>2, <2>3 DEF DueNew
  <1>3. CASE DueMove(p, broken)
    <2>1. cmd[p].id \in SpecIds /\ cmd[p].to \in Statuses
      BY <1>1, <1>3, CommandParts DEF DueMove
    <2>2. files[cmd[p].id].id = cmd[p].id
      BY <1>3, <2>1, NoSpecAssumption DEF DueMove, NamedAfterId
    <2>3. doc[p].id = files[cmd[p].id].id
      BY <1>3, <2>1, MovedIsDoc DEF DueMove
    <2>4. QED
      BY <1>3, <2>1, <2>2, <2>3 DEF DueMove
  <1>4. CASE DueSet(p, broken)
    <2>1. cmd[p].id \in SpecIds /\ cmd[p].flags \in SetFlags
      BY <1>1, <1>4, CommandParts DEF DueSet, Related
    <2>2. files[cmd[p].id].id = cmd[p].id
      BY <1>4, <2>1, NoSpecAssumption DEF DueSet, Related, NamedAfterId
    <2>3. doc[p].id = files[cmd[p].id].id
      BY <1>4, <2>1, WithFlagsIsDoc DEF DueSet, Related
    <2>4. QED
      BY <1>4, <2>1, <2>2, <2>3 DEF DueSet
  <1>5. QED
    BY <1>2, <1>3, <1>4 DEF Due

(* A list that has come to its end found every spec there is. *)
LEMMA ListedAll ==
  ASSUME TypeOK, NEW p \in Procs, Listing(p), todo[p] = {}
  PROVE  torn = {} /\ seen[p] = Content(files)
  <1>1. \A n \in OnDisk : n \notin torn /\ files[n] # NoSpec
    BY DEF Listing, Parses
  <1>2. torn \subseteq OnDisk
    BY DEF OnDisk
  <1>3. OnDisk = {n \in SpecIds : files[n] # NoSpec}
    BY <1>1, <1>2 DEF OnDisk
  <1>4. QED
    BY <1>1, <1>2, <1>3 DEF Listing, Content

(* A file that does not parse is truncated. *)
LEMMA BrokenIsTorn ==
  ASSUME ValidInv, NEW n \in OnDisk, ~Parses(n)
  PROVE  n \in torn
  BY DEF ValidInv, OnDisk, Parses

LEMMA FreshStep ==
  ASSUME AloneInv, Next, ~clash', NamedAfterId(files'), NEW q \in Procs
  PROVE  Fresh(q)'
  <1>1. TypeOK /\ TypeOK' /\ ValidInv /\ EmptyHanded /\ ~clash /\ Alone /\ Alone'
    BY TypeStep, ClashStays, AloneStays DEF AloneInv
  <1>2. (pc'[q] = "idle") => Fresh(q)'
    BY DEF Fresh, Writing
  <1>3. CASE Edited
    BY <1>1, <1>2, <1>3 DEF Edited, Edit, Busy
  <1>4. ASSUME NEW p \in Procs,
               \/ SaveWrite(p) \/ NewListFails(p) \/ NewFull(p)
               \/ LoadFails(p) \/ Crash(p)
        PROVE  Fresh(q)'
    <2>1. pc[p] # "idle" /\ pc' = [pc EXCEPT ![p] = "idle"]
      BY <1>1, <1>4
      DEF SaveWrite, NewListFails, NewFull, LoadFails, Crash, Listed, End, GoTo
    <2>2. pc'[q] = "idle"
      BY <1>1, <2>1 DEF Alone, TypeOK
    <2>3. QED
      BY <1>2, <2>2
  <1>5. CASE \E p \in Procs, c \in Commands : Start(p, c)
    <2>1. PICK p \in Procs, c \in Commands : Start(p, c)
      BY <1>5
    <2>2. CASE p = q
      BY <1>1, <2>1, <2>2 DEF Start, GoTo, Fresh, Writing, TypeOK
    <2>3. CASE p # q
      BY <1>1, <1>2, <2>1, <2>3 DEF Start, GoTo, Busy, TypeOK
    <2>4. QED
      BY <2>2, <2>3
  <1>6. ASSUME NEW p \in Procs,
               \/ ListDir(p) \/ ReadSpec(p) \/ SetListFails(p) \/ NewNumber(p)
               \/ LoadToMove(p) \/ LoadToSet(p) \/ SetChecked(p) \/ SaveOpen(p)
        PROVE  Fresh(q)'
    <2>1. UNCHANGED files /\ pc[p] # "idle"
      BY <1>6
      DEF ListDir, ReadSpec, SetListFails, NewNumber, LoadToMove, LoadToSet, SetChecked,
          SaveOpen, Listed
    <2>2. NamedAfterId(files)
      BY <2>1 DEF NamedAfterId
    <2>3. Fresh(p)
      BY <1>1, <2>2 DEF AloneInv
    <2>4. CASE p # q
      <3>1. pc[q] = "idle"
        BY <1>1, <2>1, <2>4 DEF Alone
      <3>2. pc'[q] = pc[q]
        BY <1>1, <1>6, <2>4
        DEF ListDir, ReadSpec, SetListFails, NewNumber, LoadToMove, LoadToSet,
            SetChecked, SaveOpen, End, GoTo, TypeOK
      <3>3. QED
        BY <1>2, <3>1, <3>2
    <2>5. CASE p = q
      <3> USE <1>1, <2>1, <2>3, <2>5 DEF TypeOK, GoTo
      <3>1. CASE ListDir(p)
        BY <3>1
        DEF ListDir, EmptyHanded, Fresh, Writing, Listing, OnDisk, Related, Parses
      <3>2. CASE ReadSpec(p)
        <4>1. PICK n \in SpecIds : /\ NextFile(p, n) /\ Parses(n)
                                   /\ seen' = [seen EXCEPT ![p] = @ \cup {files[n].id}]
                                   /\ todo' = [todo EXCEPT ![p] = @ \ {n}]
          BY <3>2 DEF ReadSpec
        <4>2. UNCHANGED OnDisk /\ \A m \in SpecIds : Parses(m)' = Parses(m)
          BY <3>2 DEF ReadSpec, OnDisk, Parses
        <4>3. Listing(p)
          BY <3>2 DEF ReadSpec, Fresh
        <4>4. n \in OnDisk /\ OnDisk \subseteq SpecIds
          BY <4>1 DEF Parses, OnDisk
        <4>5. OnDisk \ todo'[p] = (OnDisk \ todo[p]) \cup {n}
          BY <4>1, <4>4
        <4>6. Listing(p)'
          <5>1. todo'[p] \subseteq OnDisk
            BY <4>1, <4>3 DEF Listing
          <5>2. \A m \in OnDisk \ todo'[p] : Parses(m)
            BY <4>1, <4>3, <4>5 DEF Listing
          <5>3. seen'[p] = {files[m].id : m \in OnDisk \ todo[p]} \cup {files[n].id}
            BY <4>1, <4>3 DEF Listing
          <5>4. seen'[p] = {files[m].id : m \in OnDisk \ todo'[p]}
            BY ONLY <4>5, <5>3
          <5>5. \A m \in OnDisk : Parses(m)' = Parses(m)
            BY <4>2, <4>4
          <5>6. QED
            BY ONLY <2>1, <4>2, <5>1, <5>2, <5>4, <5>5 DEF Listing
        <4>7. pc[p] = "read" /\ UNCHANGED <<files, torn, pc, cmd, doc>>
          BY ONLY <3>2 DEF ReadSpec
        <4>8. cmd[p].op = "set" => Related(p)' /\ cmd'[p].id \notin torn'
          BY <3>2, <4>7 DEF ReadSpec, Fresh, Related
        <4>9. Fresh(p)'
          BY ONLY <4>6, <4>7, <4>8 DEF Fresh, Writing
        <4>10. QED
          BY <4>9
      <3>3. CASE SetListFails(p)
        <4>1. PICK n \in SpecIds : NextFile(p, n) /\ ~Parses(n)
          BY <3>3 DEF SetListFails
        <4>2. Listing(p) /\ Related(p) /\ cmd[p].id \notin torn
          BY <3>3 DEF SetListFails, Fresh
        <4>3. n \in torn
          BY <4>1, <4>2, BrokenIsTorn DEF NextFile, Listing
        <4>4. DueSet(p, torn)'
          BY <3>3, <4>2, <4>3 DEF SetListFails, DueSet, Related
        <4>5. QED
          BY <3>3, <4>4 DEF SetListFails, Fresh, Writing, Due
      <3>4. CASE NewNumber(p)
        <4>1. PICK n \in 1..MaxSpec :
                /\ IsNext(seen[p], n)
                /\ doc' = [doc EXCEPT ![p] = NewSpecDoc(<<n, cmd[p].name>>)]
          BY <3>4 DEF NewNumber
        <4>2. torn = {} /\ seen[p] = Content(files)
          BY <3>4, ListedAll DEF NewNumber, Listed, Fresh
        <4>3. Content(files') = Content(files)
          BY DEF Content
        <4>4. DueNew(p, torn)'
          BY <3>4, <4>1, <4>2, <4>3 DEF NewNumber, DueNew
        <4>5. QED
          BY <3>4, <4>4 DEF NewNumber, Fresh, Writing, Due
      <3>5. CASE LoadToMove(p)
        <4>1. cmd[p].id \in SpecIds
          BY <3>5, CommandParts DEF LoadToMove
        <4>2. files[cmd[p].id] \in Doc /\ cmd[p].id \notin torn
          BY <3>5, <4>1, ParsesDoc DEF LoadToMove, Parses
        <4>3. DueMove(p, torn)'
          BY <3>5, <4>2 DEF LoadToMove, DueMove
        <4>4. QED
          BY <3>5, <4>3 DEF LoadToMove, Fresh, Writing, Due
      <3>6. CASE LoadToSet(p)
        <4>1. cmd[p].id \in SpecIds
          BY <3>6, CommandParts DEF LoadToSet
        <4>2. files[cmd[p].id] \in Doc /\ cmd[p].id \notin torn
          BY <3>6, <4>1, ParsesDoc DEF LoadToSet, Parses
        <4>3. Related(p)'
          BY <3>6, <4>2 DEF LoadToSet, Related
        <4>4. QED
          BY <3>6, <4>2, <4>3 DEF LoadToSet, Fresh, Writing
      <3>7. CASE SetChecked(p)
        <4>1. Listing(p) /\ Related(p) /\ cmd[p].id \notin torn
          BY <3>7 DEF SetChecked, Listed, Fresh
        <4>2. torn = {} /\ seen[p] = Content(files)
          BY <3>7, <4>1, ListedAll DEF SetChecked, Listed
        <4>3. Content(files') = Content(files)
          BY DEF Content
        <4>4. CASE Refs(doc[p]) \subseteq seen[p]
          <5>1. DueSet(p, torn)'
            BY <3>7, <4>1, <4>2, <4>3, <4>4 DEF SetChecked, DueSet, Related
          <5>2. QED
            BY <3>7, <4>4, <5>1 DEF SetChecked, Fresh, Writing, Due
        <4>5. CASE ~(Refs(doc[p]) \subseteq seen[p])
          BY <1>2, <3>7, <4>5 DEF SetChecked, End
        <4>6. QED
          BY <4>4, <4>5
      <3>8. CASE SaveOpen(p)
        <4>1. Due(p, torn)
          BY <3>8 DEF SaveOpen, Fresh
        <4>2. doc[p].id \notin torn
          BY <2>2, <3>8, <4>1, DueFree DEF SaveOpen
        <4>3. torn' \ {doc'[p].id} = torn /\ doc'[p].id \in torn'
          BY <3>8, <4>2 DEF SaveOpen
        <4>4. Content(files') = Content(files)
          BY DEF Content
        <4>5. (torn \ {doc[p].id})' = torn /\ UNCHANGED <<files, cmd, doc>>
          BY <3>8, <4>3 DEF SaveOpen
        <4>6. CASE DueNew(p, torn)
          <5>1. DueNew(p, torn \ {doc[p].id})'
            BY <4>4, <4>5, <4>6 DEF DueNew
          <5>2. QED
            BY <3>8, <4>3, <5>1 DEF SaveOpen, Fresh, Writing, Due
        <4>7. CASE DueMove(p, torn)
          <5>1. DueMove(p, torn \ {doc[p].id})'
            BY <4>5, <4>7 DEF DueMove
          <5>2. QED
            BY <3>8, <4>3, <5>1 DEF SaveOpen, Fresh, Writing, Due
        <4>8. CASE DueSet(p, torn)
          <5>1. DueSet(p, torn \ {doc[p].id})'
            BY <4>4, <4>5, <4>8 DEF DueSet, Related
          <5>2. QED
            BY <3>8, <4>3, <5>1 DEF SaveOpen, Fresh, Writing, Due
        <4>9. QED
          BY <4>1, <4>6, <4>7, <4>8 DEF Due
      <3>9. QED
        BY <1>6, <3>1, <3>2, <3>3, <3>4, <3>5, <3>6, <3>7, <3>8
    <2>6. QED
      BY <2>4, <2>5
  <1>7. QED
    BY <1>3, <1>4, <1>5, <1>6 DEF Next, Step

LEMMA AloneStep == AloneInv /\ [Next]_vars => AloneInv'
  <1> SUFFICES ASSUME AloneInv, [Next]_vars PROVE AloneInv'
    OBVIOUS
  <1>1. TypeOK' /\ ValidInv' /\ EmptyHanded'
    BY TypeStep, ValidStep, EmptyStep DEF AloneInv
  <1>2. CASE Next
    <2>1. ~clash' => Alone'
      BY <1>2, ClashStays, AloneStays DEF AloneInv
    <2>2. ~clash' /\ NamedAfterId(files') => \A q \in Procs : Fresh(q)'
      BY <1>2, FreshStep
    <2>3. QED
      BY <1>1, <2>1, <2>2 DEF AloneInv, NamedAfterId
  <1>3. CASE UNCHANGED vars
    <2>1. ASSUME NEW p \in Procs, Fresh(p) PROVE Fresh(p)'
      <3>1. Listing(p)' = Listing(p) /\ Related(p)' = Related(p)
        BY <1>3 DEF vars, Listing, Related, OnDisk, Parses
      <3>2. Content(files') = Content(files)
        BY <1>3 DEF vars, Content
      <3>3. Due(p, torn)' = Due(p, torn)
        BY <1>3, <3>1, <3>2 DEF vars, Due, DueNew, DueMove, DueSet
      <3>4. Due(p, torn \ {doc[p].id})' = Due(p, torn \ {doc[p].id})
        BY <1>3, <3>1, <3>2 DEF vars, Due, DueNew, DueMove, DueSet
      <3>5. QED
        BY <1>3, <2>1, <3>1, <3>3, <3>4 DEF vars, Fresh, Writing
    <2>2. NamedAfterId(files') = NamedAfterId(files)
      BY <1>3 DEF vars, NamedAfterId
    <2>3. QED
      BY <1>1, <1>3, <2>1, <2>2 DEF vars, AloneInv, Alone
  <1>4. QED
    BY <1>2, <1>3

-----------------------------------------------------------------------------
(* Commands that do not overlap are steps of SpecLife.                     *)

(* SpecLife speaks of documents as SpecStore does. *)
LEMMA SameWords ==
  /\ Life!SpecIds = SpecIds /\ Life!Doc = Doc
  /\ Life!Statuses = Statuses /\ Life!SetFlags = SetFlags
  /\ \A n \in SpecIds : Life!NewSpecDoc(n) = NewSpecDoc(n)
  /\ \A from, to \in Statuses : Life!CanMoveTo(from, to) = CanMoveTo(from, to)
  /\ \A d \in Doc : Life!Validate(d) = Validate(d) /\ Life!Refs(d) = Refs(d)
  /\ \A d \in Doc, f \in SetFlags : Life!WithFlags(d, f) = WithFlags(d, f)
  /\ \A s \in SUBSET SpecIds, k \in 1..MaxSpec : Life!IsNext(s, k) = IsNext(s, k)
  <1>1. Life!SpecIds = SpecIds /\ Life!Statuses = Statuses
    BY DEF Life!SpecIds, SpecIds, Life!Statuses, Statuses
  <1>2. Life!Doc = Doc /\ Life!SetFlags = SetFlags
    BY <1>1 DEF Life!Doc, Doc, Life!SetFlags, SetFlags
  <1>3. \A n \in SpecIds : Life!NewSpecDoc(n) = NewSpecDoc(n)
    BY DEF Life!NewSpecDoc, NewSpecDoc
  <1>4. \A from, to \in Statuses : Life!CanMoveTo(from, to) = CanMoveTo(from, to)
    BY DEF Life!CanMoveTo, CanMoveTo, Life!Transitions, Transitions
  <1>5. \A d \in Doc : Life!Validate(d) = Validate(d) /\ Life!Refs(d) = Refs(d)
    BY DEF Life!Validate, Validate, Life!Refs, Refs
  <1>6. \A d \in Doc, f \in SetFlags : Life!WithFlags(d, f) = WithFlags(d, f)
    BY DEF Life!WithFlags, WithFlags, Life!Given, Given
  <1>7. \A s \in SUBSET SpecIds, k \in 1..MaxSpec : Life!IsNext(s, k) = IsNext(s, k)
    BY DEF Life!IsNext, IsNext
  <1>8. QED
    BY <1>1, <1>2, <1>3, <1>4, <1>5, <1>6, <1>7

Shown(broken) == [n \in SpecIds |-> IF n \in broken THEN Broken ELSE files[n]]

(* Where every file is named after the id in it, what no broken file hides is
   present. *)
LEMMA ShownPresent ==
  ASSUME TypeOK, NamedAfterId(files), NEW n \in SpecIds, NEW broken,
         Published = Shown(broken), n \notin broken
  PROVE  /\ Published[n] = files[n]
         /\ n \in Life!Present <=> files[n] \in Doc
         /\ Life!AllReadable => broken \cap SpecIds = {}
         /\ broken \cap SpecIds = {} =>
              Life!AllReadable /\ Life!Present = Content(files)
  <1>1. Published[n] = files[n]
    BY DEF Shown
  <1>2. n \in Life!Present <=> files[n] \in Doc
    BY <1>1, SameWords DEF Life!Present
  <1>3. Life!AllReadable => broken \cap SpecIds = {}
    BY SameWords DEF Life!AllReadable, Shown
  <1>4. ASSUME broken \cap SpecIds = {}
        PROVE  Life!AllReadable /\ Life!Present = Content(files)
    <2>1. \A m \in SpecIds : Published[m] = files[m]
      BY <1>4 DEF Shown
    <2>2. \A m \in SpecIds : files[m] \in Doc \cup {NoSpec}
      BY DEF TypeOK
    <2>3. Life!AllReadable
      BY <2>1, <2>2, BrokenAssumption, SameWords DEF Life!AllReadable
    <2>4. Life!Present = {m \in SpecIds : files[m] # NoSpec}
      BY <2>1, <2>2, NoSpecAssumption, SameWords DEF Life!Present
    <2>5. Content(files) = {m \in SpecIds : files[m] # NoSpec}
      BY DEF Content, NamedAfterId
    <2>6. QED
      BY <2>3, <2>4, <2>5
  <1>5. QED
    BY <1>1, <1>2, <1>3, <1>4

LEMMA WriteOfLife ==
  ASSUME TypeOK, NamedAfterId(files), NEW p \in Procs, pc[p] # "idle",
         NEW broken, broken \subseteq SpecIds, Due(p, broken),
         Published = Shown(broken),
         Published' = [Published EXCEPT ![doc[p].id] = doc[p]]
  PROVE  Life!Next
  <1>1. /\ doc[p].id \in SpecIds /\ doc[p].id \notin broken
        /\ cmd[p].op # "new" => doc[p].id = cmd[p].id
    BY DueFree
  <1>2. PICK n \in SpecIds : n = doc[p].id
    BY <1>1
  <1>3. /\ Published[n] = files[n]
        /\ n \in Life!Present <=> files[n] \in Doc
        /\ Life!AllReadable <=> broken = {}
        /\ broken = {} => Life!Present = Content(files)
    BY <1>1, <1>2, ShownPresent
  <1>4. cmd[p] \in Commands
    BY DEF TypeOK
  <1>5. CASE DueNew(p, broken)
    <2>1. PICK k \in 1..MaxSpec : /\ doc[p] = NewSpecDoc(<<k, cmd[p].name>>)
                                  /\ IsNext(Content(files), k)
      BY <1>5 DEF DueNew
    <2>2. n = <<k, cmd[p].name>> /\ n[1] = k
      BY <1>2, <2>1 DEF NewSpecDoc
    <2>3. files[n] = NoSpec
      <3>1. SUFFICES ASSUME files[n] # NoSpec PROVE FALSE
        OBVIOUS
      <3>2. n \in Content(files)
        BY <3>1 DEF NamedAfterId, Content
      <3>3. QED
        BY <2>1, <2>2, <3>2 DEF IsNext
    <2>4. Content(files) \in SUBSET SpecIds
      BY DEF Content, NamedAfterId
    <2>5. Life!IsNext(Life!Present, n[1])
      BY <1>3, <1>5, <2>1, <2>2, <2>4, SameWords DEF DueNew
    <2>6. Life!New(n)
      BY <1>2, <1>3, <1>5, <2>1, <2>2, <2>3, <2>5, SameWords DEF DueNew, Life!New
    <2>7. QED
      BY <2>6, SameWords DEF Life!Next
  <1>6. CASE DueMove(p, broken)
    <2>1. n = cmd[p].id /\ files[n] \in Doc /\ cmd[p].to \in Statuses
      BY <1>1, <1>2, <1>4, <1>6, CommandParts DEF DueMove
    <2>2. PICK to \in Statuses : to = cmd[p].to
      BY <2>1
    <2>3. CanMoveTo(files[n].status, to) /\ doc[p] = [files[n] EXCEPT !.status = to]
      BY <1>6, <2>1, <2>2 DEF DueMove
    <2>4. files[n].status \in Statuses
      BY <2>1 DEF Doc
    <2>5. Published' = [Published EXCEPT ![n].status = to]
      BY <1>2, <1>3, <2>3 DEF Shown
    <2>6. Life!Move(n, to)
      BY <1>3, <2>1, <2>3, <2>4, <2>5, SameWords DEF Life!Move
    <2>7. QED
      BY <2>6, SameWords DEF Life!Next
  <1>7. CASE DueSet(p, broken)
    <2>1. n = cmd[p].id /\ files[n] \in Doc /\ cmd[p].flags \in SetFlags
      BY <1>1, <1>2, <1>4, <1>7, CommandParts DEF DueSet, Related
    <2>2. PICK f \in SetFlags : f = cmd[p].flags
      BY <2>1
    <2>3. /\ Validate(WithFlags(files[n], f)) /\ doc[p] = WithFlags(files[n], f)
          /\ broken = {} => Refs(doc[p]) \subseteq Content(files)
      BY <1>7, <2>1, <2>2 DEF DueSet, Related
    <2>4. WithFlags(files[n], f) \in Doc
      BY <2>1, WithFlagsIsDoc
    <2>5. Published' = [Published EXCEPT ![n] = WithFlags(files[n], f)]
      BY <1>2, <2>3
    <2>6. Life!Set(n, f)
      <3>1. /\ Life!WithFlags(Published[n], f) = WithFlags(files[n], f)
            /\ Life!Validate(WithFlags(files[n], f))
            /\ Life!Refs(WithFlags(files[n], f)) = Refs(WithFlags(files[n], f))
        BY <1>3, <2>1, <2>3, <2>4, SameWords
      <3>2. Life!AllReadable => Refs(WithFlags(files[n], f)) \subseteq Life!Present
        BY <1>3, <2>3
      <3>3. Published' = [Published EXCEPT ![n] = Life!WithFlags(@, f)]
        BY ONLY <2>5, <3>1
      <3>4. n \in Life!Present /\ Life!Validate(Life!WithFlags(Published[n], f))
        BY ONLY <1>3, <2>1, <3>1
      <3>5. Life!AllReadable =>
              Life!Refs(Life!WithFlags(Published[n], f)) \subseteq Life!Present
        BY ONLY <3>1, <3>2
      <3>6. QED
        BY ONLY <3>3, <3>4, <3>5 DEF Life!Set
    <2>7. QED
      BY <2>6, SameWords DEF Life!Next
  <1>8. QED
    BY <1>5, <1>6, <1>7 DEF Due

LEMMA StepOfLife ==
  ASSUME AloneInv, Next, ~clash', ~Edited, NamedAfterId(files)
  PROVE  Life!Next \/ UNCHANGED Published
  <1>1. TypeOK /\ Alone /\ \A p \in Procs : Fresh(p)
    BY ClashStays DEF AloneInv
  <1> USE <1>1 DEF TypeOK, GoTo, End
  <1>2. ASSUME NEW p \in Procs, SaveWrite(p) PROVE Life!Next
    <2>1. doc[p].id \in torn /\ Due(p, torn \ {doc[p].id}) /\ doc[p].id \in SpecIds
      BY <1>2 DEF SaveWrite, Fresh, Writing, Doc
    <2>2. \A q \in Procs : pc[q] = "write" <=> q = p
      BY <1>2 DEF SaveWrite, Alone
    <2>3. Published = Shown(torn \ {doc[p].id})
      BY <2>1, <2>2 DEF Published, Shown
    <2>4. \A q \in Procs : pc'[q] # "write"
      BY <1>2, <2>2 DEF SaveWrite
    <2>5. torn' = torn \ {doc[p].id} /\ files' = [files EXCEPT ![doc[p].id] = doc[p]]
      BY <1>2 DEF SaveWrite
    <2>6. Published' = [n \in SpecIds |-> IF n \in torn' THEN Broken ELSE files'[n]]
      BY <2>4 DEF Published
    <2>7. Published' = [Published EXCEPT ![doc[p].id] = doc[p]]
      BY <2>1, <2>3, <2>5, <2>6 DEF Shown
    <2>8. QED
      BY <1>2, <2>1, <2>3, <2>7, WriteOfLife DEF SaveWrite
  <1>3. ASSUME NEW p \in Procs, SaveOpen(p) PROVE UNCHANGED Published
    <2>1. Due(p, torn) /\ \A q \in Procs : pc[q] # "write"
      BY <1>3 DEF SaveOpen, Fresh, Alone
    <2>2. doc[p].id \notin torn
      BY <1>3, <2>1, DueFree DEF SaveOpen
    <2>3. \A q \in Procs : pc'[q] = "write" <=> q = p
      BY <1>3, <2>1 DEF SaveOpen
    <2>4. UNCHANGED <<files, doc>> /\ torn' = torn \cup {doc[p].id}
      BY <1>3 DEF SaveOpen
    <2>5. Published = [n \in SpecIds |-> IF n \in torn THEN Broken ELSE files[n]]
      BY <2>1 DEF Published
    <2>6. QED
      BY <2>2, <2>3, <2>4, <2>5 DEF Published
  <1>4. ASSUME NEW p \in Procs, Crash(p) PROVE Life!Next \/ UNCHANGED Published
    <2>1. \A q \in Procs : pc'[q] # "write"
      BY <1>4 DEF Crash, Alone
    <2>2. Published' = Shown(torn)
      BY <1>4, <2>1 DEF Crash, Published, Shown
    <2>3. CASE pc[p] = "write"
      <3>1. PICK n \in SpecIds : n = doc[p].id
        BY <2>3 DEF Doc
      <3>2. n \in torn
        BY <2>3, <3>1 DEF Fresh, Writing
      <3>3. Published = Shown(torn \ {n})
        BY <2>3, <3>1 DEF Published, Shown, Alone
      <3>4. Published' = [Published EXCEPT ![n] = Broken]
        BY <2>2, <3>2, <3>3 DEF Shown
      <3>5. Life!Break(n)
        BY <3>4 DEF Life!Break
      <3>6. QED
        BY <3>5, SameWords DEF Life!Next
    <2>4. CASE pc[p] # "write"
      <3>1. \A q \in Procs : pc[q] # "write"
        BY <1>4, <2>4 DEF Crash, Alone
      <3>2. Published = Shown(torn)
        BY <3>1 DEF Published, Shown
      <3>3. QED
        BY <2>2, <3>2
    <2>5. QED
      BY <2>3, <2>4
  <1>5. ASSUME NEW p \in Procs,
               \/ \E c \in Commands : Start(p, c)
               \/ ListDir(p) \/ ReadSpec(p) \/ SetListFails(p) \/ NewNumber(p)
               \/ LoadToMove(p) \/ LoadToSet(p) \/ SetChecked(p)
               \/ NewListFails(p) \/ NewFull(p) \/ LoadFails(p)
        PROVE  UNCHANGED Published
    <2>1. UNCHANGED <<files, torn>> /\ pc[p] # "write" /\ pc'[p] # "write"
      BY <1>5
      DEF Start, ListDir, ReadSpec, SetListFails, NewNumber, LoadToMove, LoadToSet,
          SetChecked, NewListFails, NewFull, LoadFails, Listed
    <2>2. \A q \in Procs : q # p => pc'[q] = pc[q] /\ doc'[q] = doc[q]
      BY <1>5
      DEF Start, ListDir, ReadSpec, SetListFails, NewNumber, LoadToMove, LoadToSet,
          SetChecked, NewListFails, NewFull, LoadFails, Listed
    <2>3. QED
      BY <2>1, <2>2 DEF Published
  <1>6. QED
    BY <1>2, <1>3, <1>4, <1>5 DEF Next, Step

(* For any number of processes, commands on specs that do not overlap are
   single steps, or nothing, while every file is named after the id in it: a
   new spec takes a number of its own and overwrites none, a superseded spec
   never moves, and what `spec set` writes refers to specs that exist
   (cmdSpec, NextSpecID, Move, CheckSpecs, SaveSpec). *)
THEOREM AloneImplementsLife == Spec => LifeUnlessClash
  <1>1. AloneInv /\ [Next]_vars =>
          [clash' \/ Edited \/ ~NamedAfterId(files) \/ Life!Next
           \/ UNCHANGED Published]_vars
    BY StepOfLife
  <1>2. QED
    BY <1>1, AloneInit, AloneStep, PTL DEF Spec, LifeUnlessClash
=============================================================================
