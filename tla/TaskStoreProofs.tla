-------------------------- MODULE TaskStoreProofs ---------------------------
(***************************************************************************)
(* Theorems about TaskStore, for any number of tasks, processes and keys.  *)
(* However commands overlap and die, the task files stay valid and no task *)
(* is done without its quorum.  One process at a time, the store           *)
(* implements TaskLife: what a command read when it started is still true  *)
(* when it writes.                                                         *)
(***************************************************************************)
EXTENDS TaskStore, FiniteSetTheorems, WellFoundedInduction, TLAPS

(* The document Save is given is a document. *)
LEMMA NewDocIsDoc ==
  ASSUME NEW p \in Procs, job[p] \in Job, job[p].doc \in Doc
  PROVE  NewDoc(p) \in Doc
  BY DEF NewDoc, Job, Doc

(* A project is a directory of documents. *)
LEMMA InitTypes == Init => TypeOK
  <1> SUFFICES ASSUME Init PROVE TypeOK
    OBVIOUS
  <1>1. files \in [Ids -> Doc \cup {NoTask}]
    BY ProjectsAssumption DEF Init
  <1>2. NoJob \in Job
    BY MaxTaskAssumption DEF NoJob, Job, Statuses
  <1>3. Nothing \in [Ids -> Doc \cup {NoTask}]
    BY DEF Nothing
  <1>4. QED
    BY <1>1, <1>2, <1>3 DEF Init, TypeOK, PC

(* The directory stays one. *)
DiskTypes == /\ files' \in [Ids -> Doc \cup {NoTask}]
             /\ torn' \subseteq Ids
             /\ attested' \in [Ids -> SUBSET Keys]

LEMMA SameDisk ==
  ASSUME TypeOK, UNCHANGED <<files, torn, attested>> PROVE DiskTypes
  BY DEF TypeOK, DiskTypes

(* A command that answers. *)
LEMMA EndTypes ==
  ASSUME TypeOK, NEW p \in Procs, End(p), DiskTypes
  PROVE  TypeOK'
  <1>1. NoJob \in Job /\ Nothing \in [Ids -> Doc \cup {NoTask}]
    BY MaxTaskAssumption DEF NoJob, Job, Statuses, Nothing
  <1>2. /\ pc' = [pc EXCEPT ![p] = "idle"]
        /\ job' = [job EXCEPT ![p] = NoJob]
        /\ todo' = [todo EXCEPT ![p] = {}]
        /\ seen' = [seen EXCEPT ![p] = Nothing]
    BY DEF End, GoTo, Forget
  <1>3. pc' \in [Procs -> PC] /\ job' \in [Procs -> Job]
    BY <1>1, <1>2 DEF TypeOK, PC
  <1>4. \A q \in Procs : pc'[q] # "idle" => Started(q)'
    BY <1>2 DEF TypeOK, Started
  <1>5. QED
    BY <1>1, <1>2, <1>3, <1>4 DEF TypeOK, DiskTypes

(* A command that has its task and goes on. *)
LEMMA GoOnTypes ==
  ASSUME TypeOK, NEW p \in Procs, NEW where \in PC, GoTo(p, where),
         pc[p] # "idle", job[p].id \in Ids,
         DiskTypes, UNCHANGED <<job, todo, seen>>
  PROVE  TypeOK'
  <1>1. pc' \in [Procs -> PC]
    BY DEF GoTo, TypeOK
  <1>2. \A q \in Procs : pc'[q] # "idle" => Started(q)'
    BY DEF GoTo, TypeOK, Started
  <1>3. QED
    BY <1>1, <1>2 DEF TypeOK, DiskTypes

(* What follows a Save. *)
LEMMA AfterSaveTypes ==
  ASSUME TypeOK, NEW p \in Procs, AfterSave(p), DiskTypes,
         pc[p] # "idle", job[p].id \in Ids
  PROVE  TypeOK'
  <1>1. CASE job[p].op = "add"
    BY <1>1, GoOnTypes DEF AfterSave, PC
  <1>2. CASE job[p].op # "add"
    BY <1>2, EndTypes DEF AfterSave
  <1>3. QED
    BY <1>1, <1>2

(* A step keeps the types, action by action. *)
LEMMA TypeStep == TypeOK /\ [Next]_vars => TypeOK'
  <1> SUFFICES ASSUME TypeOK, [Next]_vars PROVE TypeOK'
    OBVIOUS
  <1> USE DEF TypeOK, Started
  <1>0. NoJob \in Job /\ Nothing \in [Ids -> Doc \cup {NoTask}]
    BY MaxTaskAssumption DEF NoJob, Job, Statuses, Nothing
  <1>1. ASSUME NEW p \in Procs, ListDir(p) PROVE TypeOK'
    BY <1>0, <1>1 DEF ListDir, GoTo, PC, OnDisk, Present
  <1>2. ASSUME NEW p \in Procs, ReadFile(p) PROVE TypeOK'
    BY <1>2 DEF ReadFile, NextFile
  <1>3. ASSUME NEW p \in Procs, ReadFails(p) PROVE TypeOK'
    <2>1. CASE Adding(p)
      BY <1>3, <2>1, GoOnTypes, SameDisk DEF ReadFails, Adding, PC
    <2>2. CASE ~Adding(p)
      BY <1>3, <2>2, EndTypes, SameDisk DEF ReadFails
    <2>3. QED
      BY <2>1, <2>2
  <1>4. ASSUME NEW p \in Procs, SaveOpen(p) PROVE TypeOK'
    <2>1. NewDoc(p) \in Doc
      BY <1>4, NewDocIsDoc DEF SaveOpen
    <2>2. job' \in [Procs -> Job]
      BY <1>4, <2>1 DEF SaveOpen, Job
    <2>3. /\ job'[p].op = job[p].op /\ job'[p].id = job[p].id
          /\ job'[p].doc = NewDoc(p)
          /\ \A q \in Procs : q # p => job'[q] = job[q]
      BY <1>4 DEF SaveOpen, Job
    <2>4. torn' \subseteq Ids
      BY <1>4 DEF SaveOpen
    <2>5. pc' \in [Procs -> PC] /\ pc'[p] = "write"
          /\ \A q \in Procs : q # p => pc'[q] = pc[q]
      BY <1>4 DEF SaveOpen, GoTo, PC
    <2>6. \A q \in Procs : pc'[q] # "idle" => Started(q)'
      BY <1>4, <2>1, <2>3, <2>5 DEF SaveOpen
    <2>7. QED
      BY <1>4, <2>2, <2>4, <2>5, <2>6 DEF SaveOpen
  <1>5. ASSUME NEW p \in Procs, Refuse(p) PROVE TypeOK'
    BY <1>5, EndTypes, SameDisk DEF Refuse
  <1>6. ASSUME NEW p \in Procs, SaveWrite(p) PROVE TypeOK'
    <2>1. pc[p] = "write" /\ job[p].id \in Ids /\ job[p].doc \in Doc
      BY <1>6 DEF SaveWrite
    <2>2. DiskTypes
      BY <1>6, <2>1 DEF SaveWrite, DiskTypes
    <2>3. QED
      BY <1>6, <2>1, <2>2, AfterSaveTypes DEF SaveWrite
  <1>7. ASSUME NEW p \in Procs, SaveLost(p) PROVE TypeOK'
    <2>1. pc[p] = "lost" /\ job[p].id \in Ids
      BY <1>7 DEF SaveLost
    <2>2. QED
      BY <1>7, <2>1, AfterSaveTypes, SameDisk DEF SaveLost
  <1>8. ASSUME NEW p \in Procs, MoveGraph(p) PROVE TypeOK'
    <2>1. CASE GraphOK(seen[p]) /\ Blockers(seen[p], job[p].id) = {}
      BY <1>8, <2>1, GoOnTypes, SameDisk DEF MoveGraph, Listed, PC
    <2>2. CASE ~(GraphOK(seen[p]) /\ Blockers(seen[p], job[p].id) = {})
      BY <1>8, <2>2, EndTypes, SameDisk DEF MoveGraph
    <2>3. QED
      BY <2>1, <2>2
  <1>9. ASSUME NEW p \in Procs, MoveQuorum(p) PROVE TypeOK'
    <2>1. CASE QuorumMet(job[p].id, job[p].doc)
      BY <1>9, <2>1, GoOnTypes, SameDisk DEF MoveQuorum, PC
    <2>2. CASE ~QuorumMet(job[p].id, job[p].doc)
      BY <1>9, <2>2, EndTypes, SameDisk DEF MoveQuorum
    <2>3. QED
      BY <2>1, <2>2
  <1>10. ASSUME NEW p \in Procs, AddNumber(p) PROVE TypeOK'
    <2>1. PICK n \in Ids : job' = [job EXCEPT ![p].id = n]
      BY <1>10 DEF AddNumber
    <2>2. /\ job'[p].op = job[p].op /\ job'[p].id = n
          /\ job'[p].doc = job[p].doc
          /\ \A q \in Procs : q # p => job'[q] = job[q]
      BY <2>1 DEF Job
    <2>6. job' \in [Procs -> Job]
      <3>1. n \in 0..MaxTask
        BY MaxTaskAssumption DEF Ids
      <3>2. [job[p] EXCEPT !.id = n] \in Job
        BY <3>1 DEF Job
      <3>3. QED
        BY <2>1, <3>2
    <2>3. pc' \in [Procs -> PC]
          /\ \A q \in Procs : q # p => pc'[q] = pc[q]
      BY <1>10 DEF AddNumber, GoTo, PC
    <2>4. \A q \in Procs : pc'[q] # "idle" => Started(q)'
      BY <1>10, <2>2, <2>3 DEF AddNumber, Listed
    <2>5. QED
      BY <1>10, <2>3, <2>4, <2>6 DEF AddNumber
  <1>11. ASSUME NEW p \in Procs, AddFull(p) PROVE TypeOK'
    BY <1>11, EndTypes, SameDisk DEF AddFull
  <1>12. ASSUME NEW p \in Procs, AddGraph(p) PROVE TypeOK'
    <2>1. CASE GraphOK(seen[p])
      BY <1>12, <2>1, EndTypes, SameDisk DEF AddGraph
    <2>2. CASE ~GraphOK(seen[p])
      BY <1>12, <2>2, GoOnTypes, SameDisk DEF AddGraph, Listed, Adding, PC
    <2>3. QED
      BY <2>1, <2>2
  <1>13. ASSUME NEW p \in Procs, AddRemove(p) PROVE TypeOK'
    BY <1>0, <1>13 DEF AddRemove, Forget, PC
  <1>14. ASSUME NEW p \in Procs, NEW id \in Ids, NEW to \in Targets,
                MoveGet(p, id, to)
         PROVE  TypeOK'
    BY <1>14, MaxTaskAssumption, TargetsAssumption
       DEF MoveGet, Parses, GoTo, PC, Job, Ids
  <1>15. ASSUME NEW p \in Procs, NEW d \in NewDocs, AddStart(p, d)
         PROVE  TypeOK'
    BY <1>15, MaxTaskAssumption, NewDocsAssumption
       DEF AddStart, GoTo, PC, Job, Doc
  <1>16. ASSUME NEW p \in Procs, NEW id \in Ids, NEW r \in Rewrites,
                EditOpen(p, id, r)
         PROVE  TypeOK'
    BY <1>16, MaxTaskAssumption, RewritesAssumption
       DEF EditOpen, Parses, GoTo, PC, Job, Doc, Rewrite, Ids
  <1>17. ASSUME NEW p \in Procs, Crash(p) PROVE TypeOK'
    BY <1>17, EndTypes, SameDisk DEF Crash
  <1>18. ASSUME NEW id \in Ids, Restore(id) PROVE TypeOK'
    BY <1>18 DEF Restore
  <1>19. ASSUME NEW id \in Ids, NEW k \in Keys, Attest(id, k) PROVE TypeOK'
    BY <1>19 DEF Attest
  <1>20. CASE UNCHANGED vars
    BY <1>20 DEF vars
  <1>21. QED
    BY <1>1, <1>2, <1>3, <1>4, <1>5, <1>6, <1>7, <1>8, <1>9, <1>10, <1>11,
       <1>12, <1>13, <1>14, <1>15, <1>16, <1>17, <1>18, <1>19, <1>20
       DEF Next, Step, Start

(* Type correctness: the state of the directory and of every command stays
   in its type, and a command always knows its document and its task. *)
THEOREM TypeCorrect == Spec => []TypeOK
  BY InitTypes, TypeStep, PTL DEF Spec

-----------------------------------------------------------------------------
(* Attestations are only ever added. *)
Grows == \A i \in Ids : attested[i] \subseteq attested'[i]

LEMMA AttestationsGrow ==
  ASSUME TypeOK, [Next]_vars
  PROVE  Grows
  <1> USE DEF Grows, TypeOK
  <1>1. CASE \E id \in Ids, k \in Keys : Attest(id, k)
    BY <1>1 DEF Attest
  <1>2. CASE UNCHANGED attested
    BY <1>2
  <1>3. QED
    BY <1>1, <1>2
       DEF Next, Step, Start, vars, ListDir, ReadFile, ReadFails, SaveOpen,
           Refuse, SaveWrite, SaveLost, MoveGraph, MoveQuorum, AddNumber,
           AddFull, AddGraph, AddRemove, MoveGet, AddStart, EditOpen, Crash,
           Restore

(* A quorum that was met stays met. *)
LEMMA QuorumStays ==
  ASSUME TypeOK, TypeOK', Grows, NEW i \in Ids, NEW d \in Doc, QuorumMet(i, d)
  PROVE  Cardinality(attested'[i]) >= d.quorum
  <1>1. IsFiniteSet(attested'[i]) /\ attested[i] \subseteq attested'[i]
    BY KeysAssumption, FS_Subset DEF TypeOK, Grows
  <1>2. /\ IsFiniteSet(attested[i])
        /\ Cardinality(attested[i]) <= Cardinality(attested'[i])
    BY <1>1, FS_Subset
  <1>3. Cardinality(attested[i]) \in Nat /\ Cardinality(attested'[i]) \in Nat
    BY <1>1, <1>2, FS_CardinalityType
  <1>4. d.quorum \in Nat
    BY MaxQuorumAssumption DEF Doc
  <1>5. QED
    BY <1>2, <1>3, <1>4 DEF QuorumMet

(* Nobody has to attest a task without a policy. *)
LEMMA NoPolicyIsMet ==
  ASSUME TypeOK, NEW i \in Ids, NEW d \in Doc, d.quorum = 0
  PROVE  QuorumMet(i, d)
  <1>1. IsFiniteSet(attested[i])
    BY KeysAssumption, FS_Subset DEF TypeOK
  <1>2. Cardinality(attested[i]) \in Nat
    BY <1>1, FS_CardinalityType
  <1>3. QED
    BY <1>2 DEF QuorumMet

(* A step that leaves the files alone leaves what they promise alone. *)
LEMMA FilesKept ==
  ASSUME IInv, TypeOK', Grows, UNCHANGED files
  PROVE  FilesValid' /\ DoneHasQuorum'
  <1>1. FilesValid'
    BY DEF IInv, FilesValid, Present
  <1>2. ASSUME NEW i \in Present(files)', files'[i].status = "done"
        PROVE  QuorumMet(i, files[i])'
    <2>1. i \in Ids /\ files[i] \in Doc /\ QuorumMet(i, files[i])
      BY <1>2 DEF IInv, TypeOK, DoneHasQuorum, Present
    <2>2. QED
      BY <2>1, QuorumStays DEF IInv, QuorumMet
  <1>3. QED
    BY <1>1, <1>2 DEF DoneHasQuorum

(* What a command carries keeps its promise while others run. *)
LEMMA CarriedKept ==
  ASSUME IInv, TypeOK', Grows, NEW q \in Procs, pc[q] # "idle",
         job'[q] = job[q], pc'[q] = pc[q] \/ pc'[q] = "lost"
  PROVE  Carried(q)'
  <1>1. Carried(q) /\ job[q].doc \in Doc
    BY DEF IInv, TypeOK, Started
  <1>2. pc'[q] \in {"apply", "write"} => job[q].id \in Ids /\ pc'[q] = pc[q]
    BY DEF IInv, TypeOK, Started
  <1>3. job[q].op = "move" /\ pc'[q] = "apply" /\ job[q].to = "done" =>
          Cardinality(attested'[job[q].id]) >= job[q].doc.quorum
    BY <1>1, <1>2, QuorumStays DEF IInv, Carried
  <1>4. pc'[q] = "write" /\ job[q].doc.status = "done" =>
          Cardinality(attested'[job[q].id]) >= job[q].doc.quorum
    BY <1>1, <1>2, QuorumStays DEF IInv, Carried
  <1>5. QED
    BY <1>1, <1>2, <1>3, <1>4 DEF Carried, QuorumMet

(* The steps that leave the files alone keep the invariant when the process
   that takes them carries something sound afterwards. *)
LEMMA LocalStep ==
  ASSUME IInv, TypeOK', Grows, UNCHANGED files,
         NEW p \in Procs,
         \A q \in Procs : q # p => pc'[q] = pc[q] /\ job'[q] = job[q],
         pc'[p] # "idle" => Carried(p)'
  PROVE  IInv'
  <1>1. ASSUME NEW q \in Procs, pc'[q] # "idle" PROVE Carried(q)'
    <2>1. CASE q = p
      BY <1>1, <2>1
    <2>2. CASE q # p
      BY <1>1, <2>2, CarriedKept
    <2>3. QED
      BY <2>1, <2>2
  <1>2. QED
    BY <1>1, FilesKept DEF IInv

LEMMA IInvInit == Init => IInv
  <1> SUFFICES ASSUME Init PROVE IInv
    OBVIOUS
  <1>1. TypeOK
    BY InitTypes
  <1>2. FilesValid
    BY ProjectsAssumption DEF Init, FilesValid
  <1>3. ASSUME NEW i \in Present(files), files[i].status = "done"
        PROVE  QuorumMet(i, files[i])
    <2>1. files[i].quorum = 0
      BY <1>3, ProjectsAssumption DEF Init
    <2>2. i \in Ids /\ files[i] \in Doc
      BY <1>1 DEF TypeOK, Present
    <2>3. QED
      BY <1>1, <2>1, <2>2, NoPolicyIsMet
  <1>4. QED
    BY <1>1, <1>2, <1>3 DEF IInv, DoneHasQuorum, Init

LEMMA IInvStep == IInv /\ [Next]_vars => IInv'
  <1> SUFFICES ASSUME IInv, [Next]_vars PROVE IInv'
    OBVIOUS
  <1>a. TypeOK /\ TypeOK' /\ Grows
    BY TypeStep, AttestationsGrow DEF IInv
  <1> USE <1>a
  <1>1. ASSUME NEW p \in Procs, ListDir(p) PROVE IInv'
    BY <1>1, LocalStep DEF ListDir, GoTo, IInv, Carried, TypeOK
  <1>2. ASSUME NEW p \in Procs, ReadFile(p) PROVE IInv'
    BY <1>2, LocalStep DEF ReadFile, IInv, Carried, TypeOK
  <1>3. ASSUME NEW p \in Procs, ReadFails(p) PROVE IInv'
    BY <1>3, LocalStep DEF ReadFails, End, Forget, GoTo, Adding, IInv,
                           Carried, TypeOK
  <1>4. ASSUME NEW p \in Procs, SaveOpen(p) PROVE IInv'
    <2>1. /\ job'[p].op = job[p].op /\ job'[p].id = job[p].id
          /\ job'[p].to = job[p].to /\ job'[p].doc = NewDoc(p)
          /\ pc'[p] = "write" /\ job[p].id \in Ids /\ job[p].doc \in Doc
      BY <1>4 DEF SaveOpen, GoTo, TypeOK, Job, Started
    <2>2. Carried(p) /\ Valid(job[p].id, NewDoc(p)) /\ NewDoc(p) \in Doc
      BY <1>4, NewDocIsDoc, <2>1 DEF SaveOpen, Accepted, IInv, TypeOK
    <2>3. /\ job[p].op = "add" => NewDoc(p).quorum = 0
          /\ job[p].op = "edit" => NewDoc(p).status # "done"
      BY <2>2 DEF NewDoc, Carried
    <2>4. NewDoc(p).status = "done" => QuorumMet(job[p].id, NewDoc(p))
      <3>1. CASE job[p].op = "add"
        BY <2>1, <2>2, <2>3, <3>1, NoPolicyIsMet
      <3>2. CASE job[p].op = "edit"
        BY <2>3, <3>2
      <3>3. CASE job[p].op = "move"
        <4>1. NewDoc(p).status = job[p].to /\ NewDoc(p).quorum = job[p].doc.quorum
          BY <2>1, <3>3 DEF NewDoc, Doc
        <4>2. job[p].to = "done" => QuorumMet(job[p].id, job[p].doc)
          BY <1>4, <2>2, <3>3 DEF SaveOpen, Carried
        <4>3. QED
          BY <4>1, <4>2 DEF QuorumMet
      <3>4. QED
        BY <1>4, <3>1, <3>2, <3>3 DEF SaveOpen, TypeOK, Started, Job
    <2>5. attested' = attested /\ UNCHANGED files
      BY <1>4 DEF SaveOpen
    <2>6. Carried(p)'
      BY <2>1, <2>2, <2>3, <2>4, <2>5 DEF Carried, QuorumMet
    <2>7. \A q \in Procs : q # p => pc'[q] = pc[q] /\ job'[q] = job[q]
      BY <1>4 DEF SaveOpen, GoTo, TypeOK
    <2>8. QED
      BY <2>5, <2>6, <2>7, LocalStep
  <1>5. ASSUME NEW p \in Procs, Refuse(p) PROVE IInv'
    BY <1>5, LocalStep DEF Refuse, End, Forget, GoTo, TypeOK
  <1>6. ASSUME NEW p \in Procs, SaveWrite(p) PROVE IInv'
    <2>1. /\ job[p].id \in Ids /\ job[p].doc \in Doc /\ Carried(p)
          /\ pc[p] = "write"
      BY <1>6 DEF SaveWrite, IInv, TypeOK, Started
    <2>2. /\ attested' = attested
          /\ files'[job[p].id] = job[p].doc
          /\ \A i \in Ids : i # job[p].id => files'[i] = files[i]
      BY <1>6, <2>1 DEF SaveWrite, TypeOK
    <2>3. FilesValid'
      BY <2>1, <2>2 DEF FilesValid, Present, Carried, IInv
    <2>4. DoneHasQuorum'
      BY <2>1, <2>2 DEF DoneHasQuorum, Present, Carried, QuorumMet, IInv
    <2>5. \A q \in Procs : q # p => pc'[q] = pc[q] /\ job'[q] = job[q]
      BY <1>6 DEF SaveWrite, AfterSave, End, Forget, GoTo, TypeOK
    <2>6. pc'[p] # "idle" => Carried(p)'
      BY <1>6, <2>1 DEF SaveWrite, AfterSave, End, Forget, GoTo, TypeOK, Carried
    <2>7. QED
      BY <2>3, <2>4, <2>5, <2>6, CarriedKept DEF IInv
  <1>7. ASSUME NEW p \in Procs, SaveLost(p) PROVE IInv'
    BY <1>7, LocalStep DEF SaveLost, AfterSave, End, Forget, GoTo, IInv,
                           Carried, TypeOK
  <1>8. ASSUME NEW p \in Procs, MoveGraph(p) PROVE IInv'
    BY <1>8, LocalStep DEF MoveGraph, Listed, End, Forget, GoTo, IInv,
                           Carried, TypeOK
  <1>9. ASSUME NEW p \in Procs, MoveQuorum(p) PROVE IInv'
    <2>1. /\ UNCHANGED <<files, attested>>
          /\ \A q \in Procs : q # p => pc'[q] = pc[q] /\ job'[q] = job[q]
      BY <1>9 DEF MoveQuorum, End, Forget, GoTo, TypeOK
    <2>2. CASE QuorumMet(job[p].id, job[p].doc)
      <3>1. pc'[p] = "apply" /\ UNCHANGED job
        BY <1>9, <2>2 DEF MoveQuorum, GoTo, TypeOK
      <3>2. Carried(p)'
        BY <1>9, <2>1, <2>2, <3>1 DEF MoveQuorum, Carried, IInv, QuorumMet
      <3>3. QED
        BY <2>1, <3>2, LocalStep
    <2>3. CASE ~QuorumMet(job[p].id, job[p].doc)
      BY <1>9, <2>1, <2>3, LocalStep DEF MoveQuorum, End, GoTo, TypeOK
    <2>4. QED
      BY <2>2, <2>3
  <1>10. ASSUME NEW p \in Procs, AddNumber(p) PROVE IInv'
    BY <1>10, LocalStep DEF AddNumber, Listed, Adding, GoTo, IInv, Carried,
                            TypeOK, Job
  <1>11. ASSUME NEW p \in Procs, AddFull(p) PROVE IInv'
    BY <1>11, LocalStep DEF AddFull, End, Forget, GoTo, TypeOK
  <1>12. ASSUME NEW p \in Procs, AddGraph(p) PROVE IInv'
    BY <1>12, LocalStep DEF AddGraph, Listed, Adding, End, Forget, GoTo, IInv,
                            Carried, TypeOK
  <1>13. ASSUME NEW p \in Procs, AddRemove(p) PROVE IInv'
    <2>1. /\ job[p].id \in Ids /\ attested' = attested
          /\ files'[job[p].id] = NoTask
          /\ \A i \in Ids : i # job[p].id => files'[i] = files[i]
      BY <1>13 DEF AddRemove, TypeOK, Started
    <2>2. FilesValid' /\ DoneHasQuorum'
      BY <2>1 DEF FilesValid, DoneHasQuorum, Present, QuorumMet, IInv
    <2>3. /\ pc'[p] = "idle"
          /\ \A q \in Procs : q # p =>
               job'[q] = job[q] /\ (pc'[q] = pc[q] \/ pc'[q] = "lost")
      BY <1>13 DEF AddRemove, Forget, TypeOK
    <2>4. ASSUME NEW q \in Procs, pc'[q] # "idle" PROVE Carried(q)'
      <3>1. q # p /\ pc[q] # "idle"
        BY <1>13, <2>3, <2>4 DEF AddRemove
      <3>2. QED
        BY <2>3, <3>1, CarriedKept
    <2>5. QED
      BY <2>2, <2>4 DEF IInv
  <1>14. ASSUME NEW p \in Procs, NEW id \in Ids, NEW to \in Targets,
                MoveGet(p, id, to)
         PROVE  IInv'
    BY <1>14, LocalStep DEF MoveGet, GoTo, Carried, TypeOK
  <1>15. ASSUME NEW p \in Procs, NEW d \in NewDocs, AddStart(p, d)
         PROVE  IInv'
    BY <1>15, LocalStep, NewDocsAssumption DEF AddStart, GoTo, Carried, TypeOK
  <1>16. ASSUME NEW p \in Procs, NEW id \in Ids, NEW r \in Rewrites,
                EditOpen(p, id, r)
         PROVE  IInv'
    BY <1>16, LocalStep DEF EditOpen, GoTo, Carried, TypeOK
  <1>17. ASSUME NEW p \in Procs, Crash(p) PROVE IInv'
    BY <1>17, LocalStep DEF Crash, End, Forget, GoTo, TypeOK
  <1>18. ASSUME UNCHANGED <<files, pc, job>> PROVE IInv'
    BY <1>18, FilesKept, CarriedKept DEF IInv
  <1>19. QED
    BY <1>1, <1>2, <1>3, <1>4, <1>5, <1>6, <1>7, <1>8, <1>9, <1>10, <1>11,
       <1>12, <1>13, <1>14, <1>15, <1>16, <1>17, <1>18
       DEF Next, Step, Start, Restore, Attest, vars

(* The inductive invariant holds. *)
THEOREM Inductive == Spec => []IInv
  BY IInvInit, IInvStep, PTL DEF Spec

(* No file ever says what Validate refuses, whatever overlaps. *)
THEOREM FilesStayValid == Spec => []FilesValid
<1>1. IInv => FilesValid
  BY DEF IInv
<1>2. QED
  BY <1>1, Inductive, PTL

(* A task that is done has its quorum, for any number of processes, crashes
   and edits of open tasks. *)
THEOREM ClosedWithQuorum == Spec => []DoneHasQuorum
<1>1. IInv => DoneHasQuorum
  BY DEF IInv
<1>2. QED
  BY <1>1, Inductive, PTL

-----------------------------------------------------------------------------
(* One command at a time.                                                  *)

(* Commands do not overlap, and none dies half way. *)
OneCommand == /\ \A p, q \in Procs : p = q
              /\ ~Crashes

-----------------------------------------------------------------------------
(* What each step changes.  p is the process that takes it.                *)

(* A command that ends holds nothing, and the next starts from there. *)
LEMMA EndIsFresh ==
  ASSUME TypeOK, NEW p \in Procs, End(p), torn' = {}
  PROVE  Fresh(p)'
  BY DEF End, Forget, GoTo, NoJob, Fresh, TypeOK

LEMMA NextIsUnused ==
  ASSUME NEW f \in [Ids -> Doc \cup {NoTask}], NEW n \in Ids, IsNext(f, n)
  PROVE  f[n] = NoTask
  BY DEF IsNext, Present, Ids

(* The directory as others see it, by where p is. *)
LEMMA PublishedIs ==
  ASSUME OneCommand, TypeOK, NEW p \in Procs
  PROVE  /\ Published \in [Ids -> Doc \cup {NoTask}]
         /\ ~(Adding(p) /\ pc[p] \in {"list", "read", "remove"})
              => Published = files
         /\ Adding(p) /\ pc[p] \in {"list", "read", "remove"}
              => Published = [files EXCEPT ![job[p].id] = NoTask]
  BY DEF OneCommand, Published, TypeOK

LEMMA FreshInit == OneCommand /\ Init => AloneInv
  <1> SUFFICES ASSUME OneCommand, Init, NEW p \in Procs PROVE Fresh(p)
    BY IInvInit DEF AloneInv
  <1> QED
    BY DEF Init, NoJob, Fresh

LEMMA FreshMoveGet ==
  ASSUME OneCommand, AloneInv, TypeOK', NEW p \in Procs, NEW id \in Ids,
         NEW to \in Targets, MoveGet(p, id, to)
  PROVE  Fresh(p)'
  <1>1. /\ job'[p].op = "move" /\ job'[p].id = id /\ job'[p].to = to
        /\ job'[p].doc = files[id] /\ files' = files /\ torn' = torn
        /\ pc'[p] = IF to = "running" THEN "list"
                    ELSE IF to = "done" THEN "quorum" ELSE "apply"
    BY DEF MoveGet, GoTo, AloneInv, IInv, TypeOK
  <1>2. files[id] # NoTask /\ torn = {}
    BY DEF MoveGet, Parses, AloneInv, Fresh
  <1>3. QED
    BY <1>1, <1>2 DEF Fresh, FreshMove

LEMMA FreshEditOpen ==
  ASSUME OneCommand, AloneInv, TypeOK', NEW p \in Procs, NEW id \in Ids,
         NEW r \in Rewrites, EditOpen(p, id, r)
  PROVE  Fresh(p)'
  <1>1. /\ job'[p].op = "edit" /\ job'[p].id = id
        /\ job'[p].doc.status = files[id].status
        /\ files' = files /\ torn' = torn /\ pc'[p] = "apply"
    BY DEF EditOpen, GoTo, AloneInv, IInv, TypeOK
  <1>2. files[id] # NoTask /\ files[id].status # "done" /\ torn = {}
    BY DEF EditOpen, Parses, AloneInv, Fresh
  <1>3. QED
    BY <1>1, <1>2 DEF Fresh

LEMMA FreshAddStart ==
  ASSUME OneCommand, AloneInv, TypeOK', NEW p \in Procs, NEW d \in NewDocs,
         AddStart(p, d)
  PROVE  Fresh(p)'
  <1>1. /\ job'[p].op = "add" /\ job'[p].id = 0
        /\ torn' = torn /\ pc'[p] = "list"
    BY DEF AddStart, GoTo, AloneInv, IInv, TypeOK
  <1>2. torn = {}
    BY DEF AddStart, AloneInv, Fresh
  <1>3. ~Adding(p)'
    BY <1>1 DEF Adding, Ids
  <1>4. QED
    BY <1>1, <1>2, <1>3 DEF Fresh, FreshAdd

(* The files and the command stay, only the place changes. *)
LEMMA PublishedStays ==
  ASSUME OneCommand, TypeOK, TypeOK', NEW p \in Procs, files' = files,
         job' = job,
         Adding(p) => (pc[p] \in {"list", "read", "remove"} <=>
                       pc'[p] \in {"list", "read", "remove"})
  PROVE  Published' = Published
  BY DEF OneCommand, Published, Adding, TypeOK

LEMMA FreshListDir ==
  ASSUME OneCommand, AloneInv, TypeOK', NEW p \in Procs, ListDir(p)
  PROVE  Fresh(p)'
  <1>1. /\ pc[p] = "list" /\ pc'[p] = "read" /\ todo'[p] = OnDisk
        /\ seen'[p] = Nothing /\ UNCHANGED <<files, torn, job>>
    BY DEF ListDir, GoTo, AloneInv, IInv, TypeOK
  <1>2. torn = {} /\ OnDisk = Present(files)
    BY <1>1 DEF OnDisk, AloneInv, Fresh
  <1>3. Published' = Published
    BY <1>1, PublishedStays DEF AloneInv, IInv
  <1>4. \A i \in Ids \ todo'[p] : seen'[p][i] = files'[i]
    BY <1>1, <1>2 DEF Nothing, Present
  <1>5. job[p].op = "move" => FreshMove(p)'
    BY <1>1 DEF AloneInv, Fresh, FreshMove
  <1>6. job[p].op = "add" => FreshAdd(p)'
    BY <1>1, <1>3 DEF AloneInv, Fresh, FreshAdd, Adding, IsNext
  <1>7. job[p].op # "edit"
    BY <1>1 DEF AloneInv, Fresh
  <1>8. QED
    BY <1>1, <1>2, <1>4, <1>5, <1>6, <1>7 DEF Fresh, Present

LEMMA FreshReadFile ==
  ASSUME OneCommand, AloneInv, TypeOK', NEW p \in Procs, ReadFile(p)
  PROVE  Fresh(p)'
  <1>1. PICK i \in Ids :
          /\ seen' = [seen EXCEPT ![p][i] = files[i]]
          /\ todo' = [todo EXCEPT ![p] = @ \ {i}]
    BY DEF ReadFile
  <1>2. pc[p] = "read" /\ UNCHANGED <<files, torn, pc, job>>
    BY DEF ReadFile
  <1>3. /\ todo'[p] = todo[p] \ {i}
        /\ \A j \in Ids : seen'[p][j] = IF j = i THEN files[i] ELSE seen[p][j]
    BY <1>1 DEF AloneInv, IInv, TypeOK
  <1>4. todo'[p] \subseteq Present(files')
        /\ \A j \in Ids \ todo'[p] : seen'[p][j] = files'[j]
    BY <1>2, <1>3 DEF AloneInv, Fresh, Present
  <1>5. Published' = Published
    BY <1>2, PublishedStays DEF AloneInv, IInv
  <1>6. job[p].op = "move" => FreshMove(p)'
    BY <1>2 DEF AloneInv, Fresh, FreshMove
  <1>7. job[p].op = "add" => FreshAdd(p)'
    BY <1>2, <1>5 DEF AloneInv, Fresh, FreshAdd, Adding, IsNext
  <1>8. QED
    BY <1>2, <1>4, <1>6, <1>7 DEF AloneInv, Fresh

(* Every file of a list parses: nobody truncates one meanwhile. *)
LEMMA ReadsParse ==
  ASSUME AloneInv, NEW p \in Procs
  PROVE  ~ReadFails(p)
  <1> SUFFICES ASSUME pc[p] = "read", NEW i \in todo[p] PROVE Parses(i)
    BY DEF ReadFails, NextFile
  <1>1. torn = {} /\ i \in Present(files)
    BY DEF AloneInv, Fresh
  <1>2. QED
    BY <1>1 DEF Parses, Present, AloneInv, IInv, FilesValid

(* A list that is complete is the directory. *)
LEMMA ListedIsAll ==
  ASSUME AloneInv, NEW p \in Procs, Listed(p)
  PROVE  seen[p] = files
  BY DEF AloneInv, Fresh, Listed, IInv, TypeOK

LEMMA FreshMoveGraph ==
  ASSUME OneCommand, AloneInv, TypeOK', NEW p \in Procs, MoveGraph(p)
  PROVE  Fresh(p)'
  <1>1. /\ pc[p] = "read" /\ seen[p] = files /\ job[p].op = "move" /\ torn' = {}
        /\ files' = files /\ attested' = attested
    BY ListedIsAll DEF MoveGraph, Listed, AloneInv, Fresh
  <1>2. CASE GraphOK(files) /\ Blockers(files, job[p].id) = {}
    <2>1. pc'[p] = "apply" /\ job' = job
      BY <1>1, <1>2 DEF MoveGraph, GoTo, AloneInv, IInv, TypeOK
    <2>2. QED
      BY <1>1, <1>2, <2>1 DEF AloneInv, Fresh, FreshMove
  <1>3. CASE ~(GraphOK(files) /\ Blockers(files, job[p].id) = {})
    BY <1>1, <1>3, EndIsFresh DEF MoveGraph, AloneInv, IInv
  <1>4. QED
    BY <1>2, <1>3

LEMMA FreshMoveQuorum ==
  ASSUME OneCommand, AloneInv, TypeOK', NEW p \in Procs, MoveQuorum(p)
  PROVE  Fresh(p)'
  <1>1. /\ pc[p] = "quorum" /\ torn' = {} /\ UNCHANGED files
        /\ job[p].op = "move" /\ job[p].to = "done"
    BY DEF MoveQuorum, AloneInv, Fresh, FreshMove, FreshAdd, IInv, TypeOK,
           Started, Job
  <1>2. CASE QuorumMet(job[p].id, job[p].doc)
    <2>1. pc'[p] = "apply" /\ job' = job
      BY <1>1, <1>2 DEF MoveQuorum, GoTo, AloneInv, IInv, TypeOK
    <2>2. QED
      BY <1>1, <2>1 DEF AloneInv, Fresh, FreshMove
  <1>3. CASE ~QuorumMet(job[p].id, job[p].doc)
    BY <1>1, <1>3, EndIsFresh DEF MoveQuorum, AloneInv, IInv
  <1>4. QED
    BY <1>2, <1>3

LEMMA FreshSaveOpen ==
  ASSUME OneCommand, AloneInv, TypeOK', NEW p \in Procs, SaveOpen(p)
  PROVE  Fresh(p)'
  <1>1. /\ pc[p] = "apply" /\ pc'[p] = "write" /\ Accepted(p)
        /\ torn' = {job[p].id} /\ UNCHANGED files
        /\ job'[p].op = job[p].op /\ job'[p].id = job[p].id
        /\ job'[p].to = job[p].to /\ job'[p].doc = NewDoc(p)
    BY DEF SaveOpen, GoTo, AloneInv, Fresh, IInv, TypeOK, Job
  <1>2. CASE job[p].op = "move"
    BY <1>1, <1>2 DEF AloneInv, Fresh, FreshMove, NewDoc, Accepted
  <1>3. CASE job[p].op = "edit"
    BY <1>1, <1>3 DEF AloneInv, Fresh, NewDoc
  <1>4. CASE job[p].op = "add"
    <2>1. Published' = Published
      BY <1>1, <1>4, PublishedIs DEF AloneInv, IInv, Adding, OneCommand, Published
    <2>2. FreshAdd(p)'
      BY <1>1, <1>4, <2>1 DEF AloneInv, Fresh, FreshAdd, Adding, IsNext
    <2>3. QED
      BY <1>1, <1>4, <2>2 DEF Fresh
  <1>5. QED
    BY <1>1, <1>2, <1>3, <1>4 DEF AloneInv, IInv, TypeOK, Started, Job

LEMMA FreshSaveWrite ==
  ASSUME OneCommand, AloneInv, TypeOK', NEW p \in Procs, SaveWrite(p)
  PROVE  Fresh(p)'
  <1>1. /\ pc[p] = "write" /\ torn' = {}
        /\ files' = [files EXCEPT ![job[p].id] = job[p].doc]
        /\ job[p].id \in Ids /\ job[p].doc \in Doc
    BY DEF SaveWrite, AloneInv, Fresh, IInv, TypeOK, Started
  <1>2. CASE job[p].op # "add"
    BY <1>1, <1>2, EndIsFresh DEF SaveWrite, AfterSave, AloneInv, IInv
  <1>3. CASE job[p].op = "add"
    <2>1. pc'[p] = "list" /\ job' = job
      BY <1>1, <1>3 DEF SaveWrite, AfterSave, GoTo, AloneInv, IInv, TypeOK
    <2>2. Adding(p) /\ Adding(p)' /\ IsNext(Published, job[p].id)
      BY <1>1, <1>3, <2>1 DEF AloneInv, Fresh, FreshAdd, Adding
    <2>3. Published = files /\ files[job[p].id] = NoTask
      <3>1. TypeOK
        BY DEF AloneInv, IInv
      <3>2. Published = files
        BY <1>1, <3>1, PublishedIs
      <3>3. files \in [Ids -> Doc \cup {NoTask}] /\ IsNext(files, job[p].id)
        BY <2>2, <3>1, <3>2 DEF TypeOK
      <3>4. QED
        BY <1>1, <3>2, <3>3, NextIsUnused
    <2>4. Published' = Published
      <3>1. \A i \in Ids : (\E q \in Procs : /\ Adding(q)' /\ job'[q].id = i
                                             /\ pc'[q] \in {"list", "read", "remove"})
                          <=> i = job[p].id
        BY <2>1, <2>2 DEF OneCommand
      <3>2. Published' = [i \in Ids |-> IF i = job[p].id THEN NoTask
                                                       ELSE files'[i]]
        BY <3>1 DEF Published
      <3>3. \A i \in Ids : i # job[p].id => files'[i] = files[i]
        BY <1>1 DEF AloneInv, IInv, TypeOK
      <3>4. files = [i \in Ids |-> files[i]]
        BY DEF AloneInv, IInv, TypeOK
      <3>5. QED
        BY <2>3, <3>2, <3>3, <3>4
    <2>5. FreshAdd(p)'
      BY <1>1, <2>1, <2>2, <2>4 DEF FreshAdd, IsNext, AloneInv, IInv, TypeOK
    <2>6. QED
      BY <1>1, <1>3, <2>1, <2>5 DEF Fresh
  <1>4. QED
    BY <1>2, <1>3

LEMMA FreshAddNumber ==
  ASSUME OneCommand, AloneInv, TypeOK', NEW p \in Procs, AddNumber(p)
  PROVE  Fresh(p)'
  <1>1. PICK n \in Ids : IsNext(files, n) /\ job' = [job EXCEPT ![p].id = n]
    BY ListedIsAll DEF AddNumber
  <1>2. /\ job'[p].op = "add" /\ job'[p].id = n /\ pc'[p] = "apply"
        /\ UNCHANGED <<files, torn>> /\ torn = {}
    BY <1>1 DEF AddNumber, Listed, GoTo, AloneInv, Fresh, IInv, TypeOK, Job
  <1>3. Adding(p)' /\ Published' = files'
    <2>1. Adding(p)'
      BY <1>2 DEF Adding
    <2>2. Published' = files'
      BY <1>2 DEF OneCommand, Published, TypeOK
    <2>3. QED
      BY <2>1, <2>2
  <1>4. IsNext(Published, job[p].id)'
    BY <1>1, <1>2, <1>3 DEF IsNext, Present
  <1>5. FreshAdd(p)'
    BY <1>2, <1>3, <1>4 DEF FreshAdd
  <1>6. QED
    BY <1>2, <1>5 DEF Fresh

LEMMA FreshAddGraph ==
  ASSUME OneCommand, AloneInv, TypeOK', NEW p \in Procs, AddGraph(p)
  PROVE  Fresh(p)'
  <1>1. /\ pc[p] = "read" /\ torn' = {} /\ UNCHANGED files /\ Adding(p)
    BY DEF AddGraph, Listed, AloneInv, Fresh
  <1>2. CASE GraphOK(seen[p])
    BY <1>1, <1>2, EndIsFresh DEF AddGraph, AloneInv, IInv
  <1>3. CASE ~GraphOK(seen[p])
    <2>1. pc'[p] = "remove" /\ job' = job
      BY <1>1, <1>3 DEF AddGraph, GoTo, AloneInv, IInv, TypeOK
    <2>2. Published' = Published
      BY <1>1, <2>1, PublishedStays DEF AloneInv, IInv
    <2>3. FreshAdd(p)'
      BY <1>1, <2>1, <2>2 DEF AloneInv, Fresh, FreshAdd, Adding, IsNext
    <2>4. QED
      BY <1>1, <2>1, <2>3 DEF Fresh, Adding
  <1>4. QED
    BY <1>2, <1>3

LEMMA FreshAddRemove ==
  ASSUME OneCommand, AloneInv, TypeOK', NEW p \in Procs, AddRemove(p)
  PROVE  Fresh(p)'
  BY DEF AddRemove, Forget, NoJob, Fresh, AloneInv, IInv, TypeOK

LEMMA FreshAttest ==
  ASSUME OneCommand, AloneInv, NEW p \in Procs, NEW i \in Ids, NEW k \in Keys,
         Attest(i, k)
  PROVE  Fresh(p)'
  BY DEF Attest, AloneInv, Fresh, FreshMove, FreshAdd, Adding, Published,
         IsNext, Present, Blockers, GraphOK, NoneMissing, Acyclic, LocalDeps

LEMMA FreshStutter ==
  ASSUME AloneInv, NEW p \in Procs, UNCHANGED vars
  PROVE  Fresh(p)'
  BY DEF vars, AloneInv, Fresh, FreshMove, FreshAdd, Adding, Published,
         IsNext, Present, Blockers, GraphOK, NoneMissing, Acyclic, LocalDeps

LEMMA FreshStep == OneCommand /\ AloneInv /\ [Next]_vars => AloneInv'
  <1> SUFFICES ASSUME OneCommand, AloneInv, [Next]_vars,
                      NEW p \in Procs
               PROVE  Fresh(p)'
    BY IInvStep DEF AloneInv
  <1>0. TypeOK /\ TypeOK' /\ \A q \in Procs : q = p
    BY TypeStep DEF AloneInv, IInv, OneCommand
  <1>1. ASSUME Refuse(p) \/ AddFull(p) PROVE Fresh(p)'
    <2>1. torn' = {} /\ End(p)
      BY <1>1 DEF Refuse, AddFull, Listed, AloneInv, Fresh
    <2>2. QED
      BY <1>0, <2>1, EndIsFresh
  <1>2. ~SaveLost(p) /\ ~Crash(p) /\ ~ReadFails(p)
    BY ReadsParse DEF SaveLost, Crash, AloneInv, Fresh, OneCommand
  <1>3. \A id \in Ids : ~Restore(id)
    BY DEF Restore, OneCommand
  <1>4. ASSUME Step(p) PROVE Fresh(p)'
    BY <1>0, <1>1, <1>2, <1>4, FreshListDir, FreshReadFile, FreshSaveOpen,
       FreshSaveWrite, FreshMoveGraph, FreshMoveQuorum, FreshAddNumber,
       FreshAddGraph, FreshAddRemove DEF Step
  <1>5. ASSUME Start(p) PROVE Fresh(p)'
    BY <1>0, <1>5, FreshMoveGet, FreshAddStart, FreshEditOpen DEF Start
  <1>6. QED
    BY <1>0, <1>2, <1>3, <1>4, <1>5, FreshAttest, FreshStutter DEF Next

-----------------------------------------------------------------------------
(* The mapping.                                                            *)

(* TaskLife reads the same vocabulary. *)
LEMMA SameWords ==
  /\ Life!Ids = Ids /\ Life!Doc = Doc /\ Life!Statuses = Statuses
  /\ \A from, to : Life!CanMoveTo(from, to) = CanMoveTo(from, to)
  /\ \A i, d : Life!Valid(i, d) = Valid(i, d)
  /\ \A f : Life!Present(f) = Present(f) /\ Life!GraphOK(f) = GraphOK(f)
  /\ \A f, i : Life!Blockers(f, i) = Blockers(f, i)
  <1>1. Life!Ids = Ids /\ Life!Statuses = Statuses
    BY DEF Life!Ids, Ids, Life!Statuses, Statuses
  <1>2. Life!Doc = Doc
    BY <1>1 DEF Life!Doc, Doc
  <1>3. \A from, to : Life!CanMoveTo(from, to) = CanMoveTo(from, to)
    BY DEF Life!CanMoveTo, CanMoveTo, Life!Transitions, Transitions
  <1>4. \A i, d : Life!Valid(i, d) = Valid(i, d)
    BY DEF Life!Valid, Valid
  <1>5. \A f : Life!Present(f) = Present(f)
    BY <1>1 DEF Life!Present, Present
  <1>6. \A f, i : Life!LocalDeps(f, i) = LocalDeps(f, i)
    BY <1>1 DEF Life!LocalDeps, LocalDeps
  <1>7. \A f : Life!GraphOK(f) = GraphOK(f)
    BY <1>5, <1>6 DEF Life!GraphOK, GraphOK, Life!NoneMissing, NoneMissing,
                      Life!Acyclic, Acyclic
  <1>8. \A f, i : Life!Blockers(f, i) = Blockers(f, i)
    BY <1>1 DEF Life!Blockers, Blockers
  <1>9. QED
    BY <1>1, <1>2, <1>3, <1>4, <1>5, <1>7, <1>8

LEMMA SameCount == \A S : Life!Cardinality(S) = Cardinality(S)
  BY DEF Life!Cardinality, Cardinality

LEMMA InitMaps == OneCommand /\ Init => Life!Init
  <1> SUFFICES ASSUME OneCommand, Init PROVE Life!Init
    OBVIOUS
  <1>1. TypeOK /\ files \in [Ids -> Doc \cup {NoTask}]
    BY InitTypes DEF TypeOK
  <1>2. Published = files
    BY <1>1 DEF Init, Published
  <1>3. \A i \in Present(files) : /\ Valid(i, files[i])
                                  /\ files[i].status = "done" =>
                                       files[i].quorum = 0
    BY ProjectsAssumption DEF Init
  <1>4. attested = [i \in Ids |-> {}]
    BY DEF Init
  <1>5. Published \in [Life!Ids -> Life!Doc \cup {NoTask}]
    BY <1>1, <1>2, SameWords
  <1>6. attested = [i \in Life!Ids |-> {}]
    BY <1>4, SameWords
  <1>7. \A i \in Life!Present(Published) :
          /\ Life!Valid(i, Published[i])
          /\ Published[i].status = "done" => Published[i].quorum = 0
    <2>1. Life!Present(Published) = Present(files)
      BY <1>2, SameWords
    <2> TAKE i \in Life!Present(Published)
    <2>2. Valid(i, files[i]) /\ (files[i].status = "done" => files[i].quorum = 0)
      BY <1>3, <2>1
    <2>3. Life!Valid(i, files[i])
      BY <2>2 DEF Valid, Life!Valid
    <2>4. QED
      BY <1>2, <2>2, <2>3
  <1>8. QED
    BY <1>5, <1>6, <1>7 DEF Life!Init

(* The write of a move is the move. *)
LEMMA MoveMaps ==
  ASSUME OneCommand, AloneInv, AloneInv', NEW p \in Procs, SaveWrite(p),
         job[p].op = "move"
  PROVE  Life!Next
  <1> DEFINE id == job[p].id
             to == job[p].to
  <1>1. /\ TypeOK /\ TypeOK' /\ Fresh(p) /\ FreshMove(p) /\ Carried(p)
        /\ pc[p] = "write" /\ id \in Ids /\ to \in Statuses
    BY DEF AloneInv, IInv, TypeOK, Fresh, SaveWrite, Started, Job
  <1>2. Published = files
    BY <1>1, PublishedIs
  <1>3. Published' = files'
    <2>1. pc'[p] = "idle"
      BY <1>1 DEF SaveWrite, AfterSave, End, GoTo, TypeOK
    <2>2. QED
      BY <1>1, <2>1 DEF OneCommand, Published, TypeOK
  <1>4. /\ files[id] # NoTask /\ files[id] \in Doc
        /\ CanMoveTo(files[id].status, to)
        /\ job[p].doc = [files[id] EXCEPT !.status = to]
        /\ to = "running" => GraphOK(files) /\ Blockers(files, id) = {}
    BY <1>1 DEF FreshMove, TypeOK
  <1>5. files' = [files EXCEPT ![id].status = to] /\ attested' = attested
    BY <1>1, <1>4 DEF SaveWrite, TypeOK
  <1>6. Valid(id, [files[id] EXCEPT !.status = to])
    BY <1>1, <1>4 DEF Carried
  <1>7. to = "done" => Cardinality(attested[id]) >= files[id].quorum
    <2>1. job[p].doc.status = to /\ job[p].doc.quorum = files[id].quorum
      BY <1>4 DEF Doc
    <2>2. QED
      BY <1>1, <2>1 DEF Carried, QuorumMet
  <1>8. Life!Move(id, to)
    <2>1. Published[id] # NoTask /\ Life!CanMoveTo(Published[id].status, to)
      BY <1>2, <1>4, SameWords
    <2>2. to = "running" => /\ Life!GraphOK(Published)
                            /\ Life!Blockers(Published, id) = {}
      BY <1>2, <1>4, SameWords
    <2>3. Life!Valid(id, [Published[id] EXCEPT !.status = to])
      BY <1>2, <1>6, SameWords
    <2>4. Published' = [Published EXCEPT ![id].status = to]
          /\ UNCHANGED attested
      BY <1>2, <1>3, <1>5
    <2>5. to = "done" => Life!QuorumMet(id, Published[id])
      BY <1>2, <1>7, SameCount DEF Life!QuorumMet
    <2>6. QED
      BY <2>1, <2>2, <2>3, <2>4, <2>5 DEF Life!Move
  <1>9. QED
    BY <1>1, <1>8, SameWords DEF Life!Next

(* The write of an editor is the edit. *)
LEMMA EditMaps ==
  ASSUME OneCommand, AloneInv, AloneInv', NEW p \in Procs, SaveWrite(p),
         job[p].op = "edit"
  PROVE  Life!Next
  <1> DEFINE id == job[p].id
  <1>1. /\ TypeOK /\ TypeOK' /\ Fresh(p) /\ Carried(p)
        /\ pc[p] = "write" /\ id \in Ids /\ job[p].doc \in Doc
    BY DEF AloneInv, IInv, TypeOK, SaveWrite, Started, Job
  <1>2. Published = files
    BY <1>1, PublishedIs
  <1>3. Published' = files'
    <2>1. pc'[p] = "idle"
      BY <1>1 DEF SaveWrite, AfterSave, End, GoTo, TypeOK
    <2>2. QED
      BY <1>1, <2>1 DEF OneCommand, Published, TypeOK
  <1>4. files' = [files EXCEPT ![id] = job[p].doc] /\ attested' = attested
        /\ files'[id] = job[p].doc
    BY <1>1 DEF SaveWrite, TypeOK
  <1>5. /\ files[id] # NoTask /\ files[id].status # "done"
        /\ job[p].doc.status = files[id].status /\ Valid(id, job[p].doc)
    BY <1>1 DEF Fresh, Carried
  <1>6. Life!Edit(id)
    <2>1. Published[id] # NoTask /\ Published[id].status # "done"
      BY <1>2, <1>5
    <2>2. Published' = [Published EXCEPT ![id] = Published'[id]]
          /\ UNCHANGED attested
      BY <1>2, <1>3, <1>4
    <2>3. Published'[id] \in Life!Doc /\ Life!Valid(id, Published'[id])
      BY <1>1, <1>3, <1>4, <1>5, SameWords
    <2>4. Published'[id].status = Published[id].status
      BY <1>2, <1>3, <1>4, <1>5
    <2>5. QED
      BY <2>1, <2>2, <2>3, <2>4 DEF Life!Edit, Life!Only
  <1>7. QED
    BY <1>1, <1>6, SameWords DEF Life!Next

(* The file of an add is not there yet. *)
LEMMA AddWriteIsUnseen ==
  ASSUME OneCommand, AloneInv, AloneInv', NEW p \in Procs, SaveWrite(p),
         job[p].op = "add"
  PROVE  UNCHANGED Life!vars
  <1>1. /\ TypeOK /\ TypeOK' /\ pc[p] = "write" /\ Adding(p)
        /\ job[p].id \in Ids /\ job[p].doc \in Doc
        /\ IsNext(Published, job[p].id)
    BY DEF AloneInv, IInv, TypeOK, SaveWrite, Started, Fresh, FreshAdd, Adding
  <1>2. /\ job' = job /\ pc'[p] = "list" /\ attested' = attested
        /\ files' = [files EXCEPT ![job[p].id] = job[p].doc]
    BY <1>1 DEF SaveWrite, AfterSave, GoTo, TypeOK, Adding
  <1>3. Published = files
    BY <1>1, PublishedIs
  <1>4. files[job[p].id] = NoTask
    BY <1>1, <1>3, NextIsUnused DEF TypeOK
  <1>5. \A i \in Ids : (\E q \in Procs : /\ Adding(q)' /\ job'[q].id = i
                                         /\ pc'[q] \in {"list", "read", "remove"})
                      <=> i = job[p].id
    BY <1>1, <1>2 DEF OneCommand, Adding
  <1>6. Published' = [i \in Ids |-> IF i = job[p].id THEN NoTask ELSE files'[i]]
    BY <1>5 DEF Published
  <1>7. Published' = Published
    BY <1>1, <1>2, <1>3, <1>4, <1>6 DEF TypeOK
  <1>8. QED
    BY <1>2, <1>7 DEF Life!vars

(* The task of an add is there when its graph check has passed. *)
LEMMA AddMaps ==
  ASSUME OneCommand, AloneInv, AloneInv', NEW p \in Procs, AddGraph(p),
         GraphOK(seen[p])
  PROVE  Life!Next
  <1> DEFINE id == job[p].id
  <1>1. /\ TypeOK /\ TypeOK' /\ Fresh(p) /\ Carried(p) /\ FreshAdd(p)
        /\ pc[p] = "read" /\ Adding(p) /\ id \in Ids /\ job[p].doc \in Doc
        /\ seen[p] = files /\ files' = files /\ attested' = attested
    BY ListedIsAll
    DEF AloneInv, IInv, TypeOK, AddGraph, Listed, Fresh, Started, Adding
  <1>2. Published = [files EXCEPT ![id] = NoTask]
        /\ Published \in [Ids -> Doc \cup {NoTask}]
    BY <1>1, PublishedIs
  <1>3. Published' = files
    <2>1. pc'[p] = "idle"
      BY <1>1 DEF AddGraph, End, GoTo, TypeOK
    <2>2. QED
      BY <1>1, <2>1 DEF OneCommand, Published, TypeOK
  <1>4. /\ \A i \in Present(Published) : i < id
        /\ id = 1 \/ Published[id - 1] # NoTask
    BY <1>1 DEF FreshAdd, IsNext
  <1>5. files[id] = job[p].doc /\ job[p].doc # NoTask
    BY <1>1, NoTaskAssumption DEF FreshAdd
  <1>6. Valid(id, files[id]) /\ files[id].quorum = 0
    BY <1>1, <1>5 DEF AloneInv, IInv, FilesValid, Present, Carried, Adding
  <1>7. Published' = [Published EXCEPT ![id] = files[id]]
    BY <1>1, <1>2, <1>3 DEF TypeOK
  <1>8. Life!Create(id)
    <2>1. \A i \in Life!Present(Published) : i < id
      BY <1>4, SameWords
    <2>2. Published' = [Published EXCEPT ![id] = Published'[id]]
          /\ UNCHANGED attested
      BY <1>1, <1>3, <1>7
    <2>3. Published'[id] \in Life!Doc /\ Life!Valid(id, Published'[id])
          /\ Published'[id].quorum = 0
      BY <1>1, <1>3, <1>5, <1>6, SameWords
    <2>4. Life!GraphOK(Published')
      BY <1>1, <1>3, SameWords
    <2>5. QED
      BY <1>4, <2>1, <2>2, <2>3, <2>4 DEF Life!Create, Life!Only
  <1>9. QED
    BY <1>1, <1>8, SameWords DEF Life!Next

(* A step that shows nothing of itself. *)
LEMMA Unseen ==
  ASSUME OneCommand, TypeOK, TypeOK', NEW p \in Procs,
         files' = files, attested' = attested,
         ~(Adding(p) /\ pc[p] \in {"list", "read", "remove"}),
         ~(Adding(p) /\ pc[p] \in {"list", "read", "remove"})'
  PROVE  UNCHANGED Life!vars
  BY DEF OneCommand, Published, Life!vars, TypeOK

LEMMA StepMaps ==
  OneCommand /\ AloneInv /\ AloneInv' /\ [Next]_vars => [Life!Next]_(Life!vars)
  <1> SUFFICES ASSUME OneCommand, AloneInv, AloneInv', [Next]_vars
               PROVE  Life!Next \/ UNCHANGED Life!vars
    OBVIOUS
  <1>0. TypeOK /\ TypeOK'
    BY DEF AloneInv, IInv
  <1>1. ASSUME NEW p \in Procs, Step(p) PROVE Life!Next \/ UNCHANGED Life!vars
    <2>0. ~SaveLost(p) /\ ~ReadFails(p)
      BY ReadsParse DEF SaveLost, AloneInv, Fresh
    <2>1. CASE ListDir(p) \/ ReadFile(p)
      <3>1. UNCHANGED <<files, attested, job>>
            /\ pc[p] \in {"list", "read"} /\ pc'[p] \in {"list", "read"}
        BY <1>0, <2>1 DEF ListDir, ReadFile, GoTo, TypeOK
      <3>2. Published' = Published
        BY <1>0, <3>1, PublishedStays
      <3>3. QED
        BY <3>1, <3>2 DEF Life!vars
    <2>2. CASE SaveOpen(p) \/ Refuse(p) \/ MoveGraph(p) \/ MoveQuorum(p)
               \/ AddNumber(p) \/ AddFull(p)
      <3>1. /\ UNCHANGED <<files, attested>>
            /\ ~(Adding(p) /\ pc[p] \in {"list", "read", "remove"})
        BY <2>2 DEF SaveOpen, Refuse, MoveGraph, MoveQuorum, AddNumber,
                    AddFull, Adding
      <3>2. pc'[p] \in {"idle", "apply", "write"}
        BY <1>0, <2>2 DEF SaveOpen, Refuse, MoveGraph, MoveQuorum, AddNumber,
                    AddFull, End, GoTo, TypeOK
      <3>3. QED
        BY <1>0, <3>1, <3>2, Unseen
    <2>3. CASE SaveWrite(p)
      <3>1. CASE job[p].op = "move"
        BY <2>3, <3>1, MoveMaps
      <3>2. CASE job[p].op = "edit"
        BY <2>3, <3>2, EditMaps
      <3>3. CASE job[p].op = "add"
        BY <2>3, <3>3, AddWriteIsUnseen
      <3>4. QED
        BY <1>0, <2>3, <3>1, <3>2, <3>3 DEF SaveWrite, TypeOK, Started, Job
    <2>4. CASE AddGraph(p)
      <3>1. CASE GraphOK(seen[p])
        BY <2>4, <3>1, AddMaps
      <3>2. CASE ~GraphOK(seen[p])
        <4>1. /\ UNCHANGED <<files, attested, job>>
              /\ pc[p] = "read" /\ pc'[p] = "remove"
          BY <1>0, <2>4, <3>2 DEF AddGraph, Listed, GoTo, TypeOK
        <4>2. QED
          BY <1>0, <4>1, PublishedStays DEF Life!vars
      <3>3. QED
        BY <3>1, <3>2
    <2>5. CASE AddRemove(p)
      <3>1. /\ Adding(p) /\ pc[p] = "remove" /\ attested' = attested
            /\ files' = [files EXCEPT ![job[p].id] = NoTask] /\ pc'[p] = "idle"
        <4>1. pc[p] = "remove" /\ Fresh(p) /\ Started(p)
          BY <1>0, <2>5 DEF AddRemove, AloneInv, TypeOK
        <4>2. job[p].op # "move" /\ job[p].op # "edit"
          BY <4>1 DEF Fresh, FreshMove
        <4>3. Adding(p)
          BY <1>0, <4>1, <4>2 DEF Fresh, FreshAdd, TypeOK, Started, Job
        <4>4. QED
          BY <1>0, <2>5, <4>1, <4>3 DEF AddRemove, TypeOK
      <3>2. Published = [files EXCEPT ![job[p].id] = NoTask]
        BY <1>0, <3>1, PublishedIs
      <3>3. Published' = files'
        BY <1>0, <3>1 DEF OneCommand, Published, TypeOK
      <3>4. QED
        BY <3>1, <3>2, <3>3 DEF Life!vars
    <2>6. QED
      BY <1>1, <2>0, <2>1, <2>2, <2>3, <2>4, <2>5 DEF Step
  <1>2. ASSUME NEW p \in Procs, Start(p) PROVE UNCHANGED Life!vars
    <2>1. UNCHANGED <<files, attested>> /\ pc[p] = "idle"
      BY <1>2 DEF Start, MoveGet, AddStart, EditOpen
    <2>2. ~(Adding(p) /\ pc[p] \in {"list", "read", "remove"})'
      <3>1. CASE \E d \in NewDocs : AddStart(p, d)
        <4>1. job'[p].id = 0
          BY <1>0, <3>1 DEF AddStart, TypeOK
        <4>2. QED
          BY <4>1 DEF Adding, Ids
      <3>2. CASE \E id \in Ids, to \in Targets : MoveGet(p, id, to)
        BY <1>0, <3>2 DEF MoveGet, Adding, TypeOK
      <3>3. CASE \E id \in Ids, r \in Rewrites : EditOpen(p, id, r)
        BY <1>0, <3>3 DEF EditOpen, Adding, TypeOK
      <3>4. QED
        BY <1>2, <3>1, <3>2, <3>3 DEF Start
    <2>3. QED
      BY <1>0, <2>1, <2>2, Unseen
  <1>3. ASSUME NEW p \in Procs PROVE ~Crash(p)
    BY DEF Crash, OneCommand
  <1>4. ASSUME NEW id \in Ids PROVE ~Restore(id)
    BY DEF Restore, OneCommand
  <1>5. ASSUME NEW id \in Ids, NEW k \in Keys, Attest(id, k) PROVE Life!Next
    <2>1. Published' = Published
      BY <1>5 DEF Attest, Published, Adding
    <2>2. Life!Attest(id, k)
      BY <1>5, <2>1 DEF Attest, Life!Attest
    <2>3. QED
      BY <2>2, SameWords DEF Life!Next
  <1>6. CASE UNCHANGED vars
    BY <1>6 DEF vars, Life!vars, Published, Adding
  <1>7. QED
    BY <1>1, <1>2, <1>3, <1>4, <1>5, <1>6 DEF Next

(* What a process that runs alone has read is still so when it writes:
   AloneInv, for any number of tasks. *)
THEOREM AloneInductive ==
  ASSUME OneCommand PROVE Spec => []AloneInv
  BY FreshInit, FreshStep, PTL DEF Spec

(* Commands that do not overlap implement the atomic store: the steps of
   Store.Get, List, Move, Create and Save together make the legal moves of
   docs/protocol.md, start a task only when all it waits on is done, close
   it only with its quorum, and add only a task the graph accepts.  Edits
   come between commands, attestations at any time. *)
THEOREM AloneImplementsLife ==
  ASSUME OneCommand PROVE Spec => ImplementsTaskLife
  BY FreshInit, FreshStep, InitMaps, StepMaps, PTL
  DEF Spec, ImplementsTaskLife, Life!Spec

(* Commands that do not overlap make the moves of Transitions and no other,
   edits and additions between them included: two moves that do overlap are
   what the jump of StrictMoves takes. *)
THEOREM AloneMovesAreLegal ==
  ASSUME OneCommand PROVE Spec => StrictMoves
  <1> DEFINE Legal ==
        \A i \in Ids :
          files[i] # NoTask /\ files'[i] # NoTask =>
            \/ files'[i].status = files[i].status
            \/ CanMoveTo(files[i].status, files'[i].status)
  <1>1. AloneInv /\ [Next]_vars => [Legal]_files
    <2> SUFFICES ASSUME AloneInv, [Next]_vars, files' # files PROVE Legal
      OBVIOUS
    <2>0. TypeOK
      BY DEF AloneInv, IInv
    <2>1. ASSUME NEW p \in Procs, SaveWrite(p) PROVE Legal
      <3> DEFINE id == job[p].id
      <3>1. /\ pc[p] = "write" /\ Fresh(p) /\ Started(p) /\ id \in Ids
            /\ job[p].doc \in Doc /\ job[p].op \in {"move", "add", "edit"}
            /\ files' = [files EXCEPT ![id] = job[p].doc]
        BY <2>0, <2>1 DEF SaveWrite, AloneInv, TypeOK, Started, Job
      <3>2. CASE job[p].op = "move"
        <4>1. /\ files[id] \in Doc /\ CanMoveTo(files[id].status, job[p].to)
              /\ job[p].doc.status = job[p].to
          BY <2>0, <3>1, <3>2 DEF Fresh, FreshMove, TypeOK, Doc
        <4>2. QED
          BY <2>0, <3>1, <4>1 DEF TypeOK
      <3>3. CASE job[p].op = "edit"
        BY <2>0, <3>1, <3>3 DEF Fresh, TypeOK
      <3>4. CASE job[p].op = "add"
        <4>1. Adding(p) /\ IsNext(Published, id) /\ Published = files
          BY <2>0, <3>1, <3>4, PublishedIs DEF Fresh, FreshAdd
        <4>2. files[id] = NoTask
          BY <2>0, <3>1, <4>1, NextIsUnused DEF TypeOK
        <4>3. QED
          BY <2>0, <3>1, <4>2 DEF TypeOK
      <3>5. QED
        BY <3>1, <3>2, <3>3, <3>4
    <2>2. ASSUME NEW p \in Procs, AddRemove(p) PROVE Legal
      BY <2>0, <2>2 DEF AddRemove, TypeOK
    <2>3. QED
      BY <2>1, <2>2
         DEF Next, Step, Start, vars, ListDir, ReadFile, ReadFails, SaveOpen,
             Refuse, SaveLost, MoveGraph, MoveQuorum, AddNumber, AddFull,
             AddGraph, MoveGet, AddStart, EditOpen, Crash, Restore, Attest
  <1>2. QED
    BY <1>1, FreshInit, FreshStep, PTL DEF Spec, StrictMoves

(* Commands that do not overlap take no task away, and one that starts is
   waiting on nothing at that moment, in a graph without a cycle or a missing
   task: what every reader of the directory may count on. *)
Orderly ==
  \A i \in Ids : Published[i] # NoTask =>
    /\ Published'[i] # NoTask
    /\ Published'[i].status = "running" /\ Published[i].status # "running" =>
         GraphOK(Published) /\ Blockers(Published, i) = {}

THEOREM AloneIsOrderly ==
  ASSUME OneCommand PROVE Spec => [][Orderly]_Published
  <1>1. OneCommand /\ AloneInv /\ AloneInv' /\ [Next]_vars => [Orderly]_Published
    <2> SUFFICES ASSUME OneCommand, AloneInv, AloneInv', [Next]_vars,
                        Published' # Published
                 PROVE  Orderly
      OBVIOUS
    <2>0. Life!Next /\ TypeOK /\ Published \in [Ids -> Doc \cup {NoTask}]
      <3>1. TypeOK /\ [Life!Next]_(Life!vars)
        BY StepMaps DEF AloneInv, IInv
      <3>2. Life!Next
        BY <3>1 DEF Life!vars
      <3>3. Published \in [Ids -> Doc \cup {NoTask}]
        BY <3>1 DEF Published, TypeOK
      <3>4. QED
        BY <3>1, <3>2, <3>3
    <2>1. PICK id \in Ids : \/ \E to \in Statuses : Life!Move(id, to)
                            \/ Life!Create(id) \/ Life!Edit(id)
                            \/ \E k \in Keys : Life!Attest(id, k)
      BY <2>0, SameWords DEF Life!Next
    <2>2. ASSUME NEW to \in Statuses, Life!Move(id, to) PROVE Orderly
      <3>1. /\ Published[id] \in Doc /\ Published[id] # NoTask
            /\ Published' = [Published EXCEPT ![id].status = to]
            /\ to = "running" =>
                 GraphOK(Published) /\ Blockers(Published, id) = {}
        BY <2>0, <2>2, SameWords DEF Life!Move
      <3>2. [Published[id] EXCEPT !.status = to] \in Doc
        BY <3>1 DEF Doc
      <3>3. /\ Published'[id] \in Doc /\ Published'[id].status = to
            /\ \A i \in Ids : i # id => Published'[i] = Published[i]
        BY <2>0, <3>1, <3>2 DEF Doc
      <3>4. QED
        BY <3>1, <3>3, NoTaskAssumption DEF Orderly
    <2>3. ASSUME Life!Create(id) \/ Life!Edit(id) PROVE Orderly
      <3>1. /\ Published' = [Published EXCEPT ![id] = Published'[id]]
            /\ Published'[id] \in Doc
        BY <2>3, SameWords DEF Life!Create, Life!Edit, Life!Only
      <3>2. \A i \in Ids : i # id => Published'[i] = Published[i]
        BY <2>0, <3>1
      <3>3. Published[id] # NoTask => Published'[id].status = Published[id].status
        <4>1. CASE Life!Edit(id)
          BY <4>1 DEF Life!Edit
        <4>2. CASE Life!Create(id)
          <5>1. \A i \in Present(Published) : i < id
            BY <4>2, SameWords DEF Life!Create
          <5>2. QED
            BY <5>1, MaxTaskAssumption DEF Present, Ids
        <4>3. QED
          BY <2>3, <4>1, <4>2
      <3>4. QED
        BY <3>1, <3>2, <3>3, NoTaskAssumption DEF Orderly
    <2>4. ~ \E k \in Keys : Life!Attest(id, k)
      BY DEF Life!Attest
    <2>5. QED
      BY <2>1, <2>2, <2>3, <2>4
  <1>2. QED
    BY <1>1, FreshInit, FreshStep, PTL DEF Spec

-----------------------------------------------------------------------------
(* Commands end: one that has started always has a next step, and each of  *)
(* its steps leaves less to do, whatever the others do.                    *)

(* Where a command waits for the files of a List to be read, there is a first
   one left, or the List is over and a move or an add goes on.  At every other
   place the conditions of the steps are a condition and its negation. *)
HasNextStep(p) ==
  pc[p] = "read" => \/ \E i \in Ids : NextFile(p, i)
                    \/ Listed(p) /\ job[p].op \in {"move", "add"}

(* A person with an editor lists nothing. *)
EditsDoNotList ==
  \A p \in Procs : job[p].op = "edit" =>
    pc[p] \in {"idle", "apply", "write", "lost"}

(* How many steps a command has before it, at most: one for each file of a
   List, and a second List for an add whose file is there. *)
Left(p) ==
  LET unread == Cardinality(todo[p])
  IN  CASE pc[p] = "idle"                  -> 0
        [] pc[p] = "remove"                -> 1
        [] pc[p] = "read" /\ Adding(p)     -> 2 + unread
        [] pc[p] = "list" /\ Adding(p)     -> MaxTask + 3
        [] pc[p] \in {"write", "lost"}     -> MaxTask + 4
        [] pc[p] = "apply"                 -> MaxTask + 5
        [] pc[p] = "quorum"                -> MaxTask + 6
        [] pc[p] = "read" /\ ~Adding(p)    -> MaxTask + 6 + unread
        [] pc[p] = "list" /\ ~Adding(p)    -> 2 * MaxTask + 7

(* What a step of anybody does to what p has left. *)
RunsDown(p) ==
  pc[p] # "idle" => /\ Left(p)' \in Nat /\ Left(p)' <= Left(p)
                    /\ Step(p) => Left(p)' < Left(p)

(* There is a first among some tasks: < is well founded. *)
LEMMA FirstExists ==
  ASSUME NEW S, S \subseteq Nat, S # {}
  PROVE  \E n \in S : \A m \in S : n <= m
  <1> DEFINE less == OpToRel(<, Nat)
  <1>1. PICK n \in S : \A m \in S : ~(<<m, n>> \in less)
    BY NatLessThanWellFounded, WFMin, Zenon
  <1>2. \A x, y \in Nat : y < x => <<y, x>> \in less
    BY Zenon DEF OpToRel
  <1>3. ASSUME NEW m \in S PROVE ~(m < n)
    BY <1>1, <1>2
  <1>4. ASSUME NEW m \in S PROVE n <= m
    BY <1>3
  <1>5. QED
    BY <1>4

LEMMA FilesFinite ==
  ASSUME NEW S, S \subseteq Ids
  PROVE  /\ IsFiniteSet(S) /\ Cardinality(S) \in Nat
         /\ Cardinality(S) <= MaxTask
  <1>1. IsFiniteSet(Ids) /\ Cardinality(Ids) = MaxTask
    BY MaxTaskAssumption, FS_Interval DEF Ids
  <1>2. QED
    BY <1>1, FS_Subset, FS_CardinalityType

LEMMA LeftType ==
  ASSUME TypeOK, NEW p \in Procs
  PROVE  Left(p) \in Nat
  <1>1. Cardinality(todo[p]) \in Nat
    BY FilesFinite DEF TypeOK
  <1>2. QED
    BY <1>1, MaxTaskAssumption DEF Left, TypeOK, PC

(* A command that answers has nothing left, one that goes on has less. *)
LEMMA EndsRunDown ==
  ASSUME TypeOK, NEW p \in Procs, pc[p] # "idle", pc'[p] = "idle"
  PROVE  Left(p)' < Left(p)
  <1>1. Cardinality(todo[p]) \in Nat
    BY FilesFinite DEF TypeOK
  <1>2. QED
    BY <1>1, MaxTaskAssumption DEF Left, TypeOK, PC

LEMMA StepRunsDown ==
  ASSUME TypeOK, NEW p \in Procs, Step(p)
  PROVE  Left(p)' < Left(p)
  <1>0. /\ MaxTask \in Nat /\ Cardinality(todo[p]) \in Nat
        /\ pc[p] # "idle" => Started(p)
    BY FilesFinite, MaxTaskAssumption DEF TypeOK
  <1>1. CASE ListDir(p)
    <2>1. /\ pc[p] = "list" /\ pc'[p] = "read" /\ job' = job
          /\ todo'[p] = OnDisk /\ OnDisk \subseteq Ids
      BY <1>1 DEF ListDir, GoTo, TypeOK, OnDisk, Present
    <2>2. Cardinality(todo'[p]) \in Nat /\ Cardinality(todo'[p]) <= MaxTask
      BY <2>1, FilesFinite
    <2>3. QED
      BY <1>0, <2>1, <2>2 DEF Left, Adding
  <1>2. CASE ReadFile(p)
    <2>1. PICK i \in Ids : NextFile(p, i) /\ todo' = [todo EXCEPT ![p] = @ \ {i}]
      BY <1>2 DEF ReadFile
    <2>2. /\ pc[p] = "read" /\ pc' = pc /\ job' = job
          /\ i \in todo[p] /\ todo'[p] = todo[p] \ {i}
      BY <1>2, <2>1 DEF ReadFile, NextFile, TypeOK
    <2>3. Cardinality(todo'[p]) = Cardinality(todo[p]) - 1
      BY <2>2, FilesFinite, FS_RemoveElement DEF TypeOK
    <2>4. QED
      BY <1>0, <2>2, <2>3 DEF Left, Adding
  <1>3. CASE ReadFails(p) \/ AddGraph(p)
    <2>1. pc[p] = "read"
      BY <1>3 DEF ReadFails, AddGraph, Listed
    <2>2. pc'[p] = "idle" \/ (Adding(p) /\ pc'[p] = "remove")
      BY <1>3 DEF ReadFails, AddGraph, End, GoTo, TypeOK
    <2>3. QED
      BY <1>0, <2>1, <2>2, EndsRunDown DEF Left
  <1>4. CASE SaveOpen(p)
    <2>1. pc[p] = "apply" /\ pc'[p] = "write"
      BY <1>4 DEF SaveOpen, GoTo, TypeOK
    <2>2. QED
      BY <1>0, <2>1 DEF Left
  <1>5. CASE Refuse(p) \/ AddFull(p) \/ AddRemove(p)
    BY <1>5, EndsRunDown DEF Refuse, AddFull, AddRemove, End, GoTo, TypeOK, Listed
  <1>6. CASE SaveWrite(p) \/ SaveLost(p)
    <2>1. pc[p] \in {"write", "lost"} /\ AfterSave(p) /\ job[p].id \in Ids
      BY <1>0, <1>6 DEF SaveWrite, SaveLost, Started
    <2>2. CASE job[p].op = "add"
      <3>1. pc'[p] = "list" /\ job' = job /\ Adding(p)'
        BY <2>1, <2>2 DEF AfterSave, GoTo, TypeOK, Adding
      <3>2. QED
        BY <1>0, <2>1, <3>1 DEF Left
    <2>3. CASE job[p].op # "add"
      BY <2>1, <2>3, EndsRunDown DEF AfterSave, End, GoTo, TypeOK
    <2>4. QED
      BY <2>2, <2>3
  <1>7. CASE MoveGraph(p) \/ MoveQuorum(p) \/ AddNumber(p)
    <2>1. \/ pc[p] = "read" /\ ~Adding(p)
          \/ pc[p] = "quorum"
      BY <1>7 DEF MoveGraph, MoveQuorum, AddNumber, Listed, Adding
    <2>2. pc'[p] \in {"apply", "idle"}
      BY <1>7 DEF MoveGraph, MoveQuorum, AddNumber, End, GoTo, TypeOK
    <2>3. QED
      BY <1>0, <2>1, <2>2, EndsRunDown DEF Left
  <1>8. QED
    BY <1>1, <1>2, <1>3, <1>4, <1>5, <1>6, <1>7 DEF Step

(* Others add nothing to what a command has left: at most they take the file
   from under its descriptor. *)
LEMMA OthersLeave ==
  ASSUME TypeOK, TypeOK', [Next]_vars, NEW p \in Procs, pc[p] # "idle", ~Step(p)
  PROVE  Left(p)' <= Left(p)
  <1>0. Left(p) \in Nat
    BY LeftType
  <1>1. CASE Crash(p)
    <2>1. pc'[p] = "idle"
      BY <1>1 DEF Crash, End, GoTo, TypeOK
    <2>2. Left(p)' = 0
      BY <2>1 DEF Left
    <2>3. QED
      BY <1>0, <2>2
  <1>2. CASE /\ job'[p] = job[p] /\ todo'[p] = todo[p]
             /\ pc'[p] = pc[p] \/ (pc[p] = "write" /\ pc'[p] = "lost")
    <2>1. Left(p)' = Left(p)
      BY <1>2 DEF Left, Adding
    <2>2. QED
      BY <1>0, <2>1
  <1>3. ASSUME NEW q \in Procs, q # p, Step(q) \/ Start(q) \/ Crash(q)
        PROVE  /\ job'[p] = job[p] /\ todo'[p] = todo[p]
               /\ pc'[p] = pc[p] \/ (pc[p] = "write" /\ pc'[p] = "lost")
    <2> USE DEF TypeOK, GoTo, End, Forget
    <2>1. CASE AddRemove(q)
      BY <1>3, <2>1 DEF AddRemove
    <2>2. CASE SaveWrite(q) \/ SaveLost(q)
      BY <1>3, <2>2 DEF SaveWrite, SaveLost, AfterSave
    <2>3. CASE ListDir(q) \/ ReadFile(q) \/ ReadFails(q) \/ SaveOpen(q) \/ Refuse(q)
      BY <1>3, <2>3 DEF ListDir, ReadFile, ReadFails, SaveOpen, Refuse
    <2>4. CASE MoveGraph(q) \/ MoveQuorum(q) \/ AddNumber(q) \/ AddFull(q) \/ AddGraph(q)
      BY <1>3, <2>4 DEF MoveGraph, MoveQuorum, AddNumber, AddFull, AddGraph
    <2>5. CASE Start(q) \/ Crash(q)
      BY <1>3, <2>5 DEF Start, MoveGet, AddStart, EditOpen, Crash
    <2>6. QED
      BY <1>3, <2>1, <2>2, <2>3, <2>4, <2>5 DEF Step
  <1>4. ~Start(p)
    BY DEF Start, MoveGet, AddStart, EditOpen
  <1>5. QED
    BY <1>1, <1>2, <1>3, <1>4 DEF Next, Restore, Attest, vars

LEMMA EditsStep == TypeOK /\ EditsDoNotList /\ [Next]_vars => EditsDoNotList'
  <1> SUFFICES ASSUME TypeOK, EditsDoNotList, [Next]_vars,
                      NEW p \in Procs, job'[p].op = "edit"
               PROVE  pc'[p] \in {"idle", "apply", "write", "lost"}
    BY DEF EditsDoNotList
  <1> USE DEF TypeOK, EditsDoNotList, GoTo, End, Forget, NoJob
  <1>1. ASSUME NEW q \in Procs, AddRemove(q)
        PROVE  pc'[p] \in {"idle", "apply", "write", "lost"}
    BY <1>1 DEF AddRemove
  <1>2. ASSUME NEW q \in Procs, SaveWrite(q) \/ SaveLost(q)
        PROVE  pc'[p] \in {"idle", "apply", "write", "lost"}
    BY <1>2 DEF SaveWrite, SaveLost, AfterSave
  <1>3. ASSUME NEW q \in Procs, ListDir(q) \/ ReadFile(q) \/ ReadFails(q)
        PROVE  pc'[p] \in {"idle", "apply", "write", "lost"}
    BY <1>3 DEF ListDir, ReadFile, ReadFails, Adding
  <1>4. ASSUME NEW q \in Procs, SaveOpen(q) \/ Refuse(q)
        PROVE  pc'[p] \in {"idle", "apply", "write", "lost"}
    BY <1>4 DEF SaveOpen, Refuse, Job
  <1>5. ASSUME NEW q \in Procs, MoveGraph(q) \/ MoveQuorum(q) \/ AddFull(q) \/ AddGraph(q)
        PROVE  pc'[p] \in {"idle", "apply", "write", "lost"}
    BY <1>5 DEF MoveGraph, MoveQuorum, AddFull, AddGraph, Adding
  <1>6. ASSUME NEW q \in Procs, AddNumber(q)
        PROVE  pc'[p] \in {"idle", "apply", "write", "lost"}
    BY <1>6 DEF AddNumber
  <1>7. ASSUME NEW q \in Procs, Start(q) \/ Crash(q)
        PROVE  pc'[p] \in {"idle", "apply", "write", "lost"}
    BY <1>7 DEF Start, MoveGet, AddStart, EditOpen, Crash
  <1>8. QED
    BY <1>1, <1>2, <1>3, <1>4, <1>5, <1>6, <1>7
       DEF Next, Step, Restore, Attest, vars

(* A command never waits for another: of every command that is at work, some
   step is possible, whatever the others did to the files it reads. *)
THEOREM CommandsNeverWait == Spec => [](\A p \in Procs : HasNextStep(p))
  <1>1. Init => EditsDoNotList
    BY DEF Init, EditsDoNotList, NoJob
  <1>2. TypeOK /\ EditsDoNotList => \A p \in Procs : HasNextStep(p)
    <2> SUFFICES ASSUME TypeOK, EditsDoNotList, NEW p \in Procs, pc[p] = "read"
                 PROVE  HasNextStep(p)
      BY DEF HasNextStep
    <2>1. Started(p) /\ job[p].op \in {"move", "add"}
      BY DEF TypeOK, EditsDoNotList, Started, Job
    <2>2. CASE todo[p] = {}
      BY <2>1, <2>2 DEF HasNextStep, Listed
    <2>3. CASE todo[p] # {}
      <3>1. todo[p] \subseteq Ids /\ todo[p] \subseteq Nat
        BY DEF TypeOK, Ids
      <3>2. PICK i \in todo[p] : \A j \in todo[p] : i <= j
        BY <2>3, <3>1, FirstExists
      <3>3. QED
        BY <3>1, <3>2 DEF HasNextStep, NextFile
    <2>4. QED
      BY <2>2, <2>3
  <1>3. QED
    BY <1>1, <1>2, EditsStep, TypeCorrect, PTL DEF Spec

(* Every step of a command leaves it strictly less to do, and no step of
   another gives it more: a command that is scheduled ends after at most
   twice as many steps as there are tasks, and seven.  With the theorem above
   this is CommandsEnd without its fairness. *)
THEOREM CommandsRunDown ==
  Spec => [][\A p \in Procs : RunsDown(p)]_vars
  <1>1. TypeOK /\ TypeOK' /\ [Next]_vars => \A p \in Procs : RunsDown(p)
    <2> SUFFICES ASSUME TypeOK, TypeOK', [Next]_vars, NEW p \in Procs,
                        pc[p] # "idle"
                 PROVE  /\ Left(p)' \in Nat /\ Left(p)' <= Left(p)
                        /\ Step(p) => Left(p)' < Left(p)
      BY DEF RunsDown
    <2>1. Left(p) \in Nat /\ Left(p)' \in Nat
      <3>1. Cardinality(todo'[p]) \in Nat
        BY FilesFinite DEF TypeOK
      <3>2. QED
        BY <3>1, LeftType, MaxTaskAssumption DEF Left, TypeOK, PC
    <2>2. Step(p) => Left(p)' < Left(p)
      BY StepRunsDown
    <2>3. Left(p)' <= Left(p)
      BY <2>1, <2>2, OthersLeave
    <2>4. QED
      BY <2>1, <2>2, <2>3
  <1>2. QED
    BY <1>1, TypeCorrect, PTL DEF Spec
=============================================================================
