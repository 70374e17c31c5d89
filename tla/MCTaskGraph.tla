---------------------------- MODULE MCTaskGraph -----------------------------
(* Small instances of TaskGraph for TLC. *)
EXTENDS TaskGraph, TLC

DocsOf(statuses, deps) ==
  {[status |-> s, deps |-> d, accept |-> TRUE, quorum |-> 0] :
     s \in statuses, d \in SUBSET deps}

(* Every project of ready and done tasks: cycles, self-dependencies, missing
   and remote ones too. *)
MCStates == [Ids -> DocsOf({"ready", "done"}, Ids \cup Remotes) \cup {NoTask}]
=============================================================================
