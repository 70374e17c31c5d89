---------------------------- MODULE TaskProtocol ----------------------------
(***************************************************************************)
(* The vocabulary of a task document: its statuses, the legal moves, what  *)
(* makes a document valid, and what a dependency graph must look like for  *)
(* the store to schedule from it.  Translated from task/task.go and        *)
(* task/graph.go.                                                          *)
(*                                                                         *)
(* A task is named by the number k of TASK-k.  Of its document only what   *)
(* the protocol's guards read is kept: the status, the dependencies,       *)
(* whether it has an acceptance criterion, and the quorum of its review    *)
(* policy (0 stands for no policy, which QuorumOf treats the same way).    *)
(***************************************************************************)
EXTENDS Integers, FiniteSets

CONSTANTS
  MaxTask,    \* bound: the largest task number a run may allocate
  Remotes,    \* dependencies written <alias>:TASK-NNN
  MaxQuorum,  \* bound: the largest quorum a policy may ask for
  NoTask      \* what a task file that does not exist holds

ASSUME MaxTaskAssumption == MaxTask \in Nat
ASSUME MaxQuorumAssumption == MaxQuorum \in Nat

Ids == 1..MaxTask

Statuses == {"idea", "spec", "ready", "running", "verify", "review", "done",
             "blocked", "failed"}

Transitions ==
  [idea    |-> {"spec", "ready"},
   spec    |-> {"ready", "idea"},
   ready   |-> {"running", "blocked", "spec"},
   running |-> {"verify", "failed", "blocked", "ready"},
   verify  |-> {"review", "failed"},
   review  |-> {"done", "ready", "failed"},
   done    |-> {"ready"},
   blocked |-> {"ready"},
   failed  |-> {"ready"}]

CanMoveTo(from, to) == to \in Transitions[from]

Doc == [status : Statuses,
        deps   : SUBSET (Ids \cup Remotes),
        accept : BOOLEAN,
        quorum : 0..MaxQuorum]

ASSUME NoTaskAssumption == NoTask \notin Doc

(* What Validate refuses, of what a Doc can express. *)
Valid(id, d) ==
  /\ id \notin d.deps
  /\ d.status \in {"ready", "running"} => d.accept

(***************************************************************************)
(* The graph over ts, a function from Ids to Doc or NoTask.                *)
(***************************************************************************)
Present(ts) == {i \in Ids : ts[i] # NoTask}

LocalDeps(ts, id) == ts[id].deps \cap Ids

NoneMissing(ts) == \A i \in Present(ts) : LocalDeps(ts, i) \subseteq Present(ts)

(* No cycle: every group of tasks has one that waits on nobody in it.      *)
Acyclic(ts) ==
  \A S \in SUBSET Present(ts) :
    S # {} => \E i \in S : LocalDeps(ts, i) \cap S = {}

(* When NewGraphWith answers a graph rather than an error. *)
GraphOK(ts) == NoneMissing(ts) /\ Acyclic(ts)

(* Graph.Blockers with a nil Resolver: nobody answers for a remote one, and
   a task the graph does not hold waits on nothing. *)
Blockers(ts, id) ==
  IF ts[id] = NoTask THEN {}
  ELSE {d \in ts[id].deps : IF d \in Ids
                            THEN ts[d] = NoTask \/ ts[d].status # "done"
                            ELSE TRUE}
=============================================================================
