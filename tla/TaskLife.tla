------------------------------ MODULE TaskLife ------------------------------
(***************************************************************************)
(* What the task store promises: every operation happens at once, on the   *)
(* tasks as they are.  A task takes the legal moves only, starts when all  *)
(* it waits on is done, and closes when its quorum has attested.           *)
(* TaskStore, whose commands read and write files one step at a time, is   *)
(* shown to implement this when commands do not overlap.                   *)
(***************************************************************************)
EXTENDS TaskProtocol

CONSTANT Keys  \* the key ids that sign attestations

VARIABLES
  files,    \* the document of every task, or NoTask
  attested  \* the key ids whose attestation of a task counts

vars == <<files, attested>>

Init ==
  /\ files \in [Ids -> Doc \cup {NoTask}]
  /\ \A i \in Present(files) : /\ Valid(i, files[i])
                               /\ files[i].status = "done" => files[i].quorum = 0
  /\ attested = [i \in Ids |-> {}]

QuorumMet(id, d) == Cardinality(attested[id]) >= d.quorum

(* Store.Move *)
Move(id, to) ==
  /\ files[id] # NoTask
  /\ CanMoveTo(files[id].status, to)
  /\ to = "running" => GraphOK(files) /\ Blockers(files, id) = {}
  /\ to = "done" => QuorumMet(id, files[id])
  /\ Valid(id, [files[id] EXCEPT !.status = to])
  /\ files' = [files EXCEPT ![id].status = to]
  /\ UNCHANGED attested

(* Only the document of id changes. *)
Only(id) == files' = [files EXCEPT ![id] = files'[id]]

(* `task add`: the number after the largest in use, no review policy, and a
   graph that still stands with the new task in it. *)
Create(id) ==
  /\ \A i \in Present(files) : i < id
  /\ id = 1 \/ files[id - 1] # NoTask
  /\ Only(id)
  /\ files'[id] \in Doc /\ Valid(id, files'[id]) /\ files'[id].quorum = 0
  /\ GraphOK(files')
  /\ UNCHANGED attested

(* A person rewrites an open task without changing its status. *)
Edit(id) ==
  /\ files[id] # NoTask /\ files[id].status # "done"
  /\ Only(id)
  /\ files'[id] \in Doc /\ Valid(id, files'[id])
  /\ files'[id].status = files[id].status
  /\ UNCHANGED attested

Attest(id, k) ==
  /\ attested' = [attested EXCEPT ![id] = @ \cup {k}]
  /\ UNCHANGED files

Next ==
  \E id \in Ids :
    \/ \E to \in Statuses : Move(id, to)
    \/ Create(id) \/ Edit(id)
    \/ \E k \in Keys : Attest(id, k)

Spec == Init /\ [][Next]_vars
=============================================================================
