----------------------------- MODULE TaskGraph ------------------------------
(***************************************************************************)
(* The dependency graph of the tasks and what is scheduled from it: Kahn's *)
(* algorithm as NewGraphWith runs it, one task per turn, and the answers   *)
(* of Ready, Next and Blockers over the graph it built (task/graph.go).    *)
(*                                                                         *)
(* TaskStore uses the graph as GraphOK, a formula over the files; the      *)
(* invariants here are what makes that right: the algorithm answers a      *)
(* graph exactly when GraphOK holds.                                       *)
(***************************************************************************)
EXTENDS TaskProtocol, Sequences

CONSTANT Projects  \* the task files a run may be given

ASSUME ProjectsAssumption == Projects \subseteq [Ids -> Doc \cup {NoTask}]

VARIABLES
  ts,        \* the tasks the list answered
  resolved,  \* the remote dependencies the Resolver answers done for
  indeg,     \* how many dependencies of a task the order does not hold yet
  ready,     \* the tasks with none, not yet in the order
  order,     \* the order so far
  phase      \* new, sort, or what the call answered

vars == <<ts, resolved, indeg, ready, order, phase>>

Answers == {"graph", "missing", "cycle"}

TypeOK ==
  /\ ts \in [Ids -> Doc \cup {NoTask}]
  /\ resolved \subseteq Remotes
  /\ indeg \in [Ids -> 0..MaxTask]
  /\ ready \subseteq Present(ts)
  /\ order \in Seq(Present(ts))
  /\ phase \in {"new", "sort"} \cup Answers

Init ==
  /\ ts \in Projects
  /\ resolved \in SUBSET Remotes
  /\ indeg = [i \in Ids |-> 0]
  /\ ready = {}
  /\ order = <<>>
  /\ phase = "new"

(* The tasks a sequence holds. *)
Held(s) == {s[k] : k \in DOMAIN s}

(* The dependencies of i that are still open for the algorithm. *)
OpenDeps(i) == LocalDeps(ts, i) \ Held(order)

-----------------------------------------------------------------------------
(* NewGraphWith.                                                           *)

Missing ==
  /\ phase = "new" /\ ~NoneMissing(ts)
  /\ phase' = "missing"
  /\ UNCHANGED <<ts, resolved, indeg, ready, order>>

Count ==
  /\ phase = "new" /\ NoneMissing(ts)
  /\ indeg' = [i \in Ids |-> IF i \in Present(ts)
                             THEN Cardinality(LocalDeps(ts, i)) ELSE 0]
  /\ ready' = {i \in Present(ts) : indeg'[i] = 0}
  /\ phase' = "sort"
  /\ UNCHANGED <<ts, resolved, order>>

(* The tasks that wait on i: rev[i]. *)
Waiting(i) == {j \in Present(ts) : i \in LocalDeps(ts, j)}

Smallest(S, i) == i \in S /\ \A j \in S : i <= j

(* MUTANTS of Pick: the task stays in the queue; a task joins it as soon as
   one of its dependencies is placed. *)
PickKeeps ==
  /\ phase = "sort"
  /\ \E id \in Ids :
       /\ Smallest(ready, id)
       /\ order' = IF id \in Held(order) THEN order ELSE Append(order, id)
       /\ indeg' = [j \in Ids |-> IF j \in Waiting(id) /\ id \notin Held(order)
                                  THEN indeg[j] - 1 ELSE indeg[j]]
       /\ ready' = ready \cup {j \in Waiting(id) : indeg'[j] = 0}
  /\ UNCHANGED <<ts, resolved, phase>>

PickEarly ==
  /\ phase = "sort"
  /\ \E id \in Ids :
       /\ Smallest(ready, id)
       /\ order' = Append(order, id)
       /\ indeg' = [j \in Ids |-> IF j \in Waiting(id)
                                  THEN indeg[j] - 1 ELSE indeg[j]]
       /\ ready' = (ready \ {id}) \cup (Waiting(id) \ Held(order))
  /\ UNCHANGED <<ts, resolved, phase>>

Pick ==
  /\ phase = "sort"
  /\ \E id \in Ids :
       /\ Smallest(ready, id)
       /\ order' = Append(order, id)
       /\ indeg' = [j \in Ids |-> IF j \in Waiting(id)
                                  THEN indeg[j] - 1 ELSE indeg[j]]
       /\ ready' = (ready \ {id}) \cup {j \in Waiting(id) : indeg'[j] = 0}
  /\ UNCHANGED <<ts, resolved, phase>>

Finish ==
  /\ phase = "sort" /\ ready = {}
  /\ phase' = IF Len(order) = Cardinality(Present(ts)) THEN "graph" ELSE "cycle"
  /\ UNCHANGED <<ts, resolved, indeg, ready, order>>

Next == Missing \/ Count \/ Pick \/ Finish

Spec == Init /\ [][Next]_vars

(* The call runs to its end. *)
FairSpec == Spec /\ WF_vars(Next)

-----------------------------------------------------------------------------
(* What the graph answers.                                                 *)

(* MUTANT of OpenFor: nobody answers for another repository. *)
OpenForNoResolver(i) ==
  {d \in ts[i].deps : IF d \in Ids
                      THEN ts[d] = NoTask \/ ts[d].status # "done"
                      ELSE TRUE}

(* Graph.Blockers with the Resolver. *)
OpenFor(i) ==
  {d \in ts[i].deps : IF d \in Ids
                      THEN ts[d] = NoTask \/ ts[d].status # "done"
                      ELSE d \notin resolved}

Offered(i) == ts[i].status = "ready" /\ OpenFor(i) = {}

(* Graph.Ready walks the order: the places of the tasks it answers, the first
   of them that of Graph.Next. *)
Ready == {k \in DOMAIN order : Offered(order[k])}

-----------------------------------------------------------------------------
(* Properties.                                                             *)

(* The order is the one Kahn's algorithm stands for, whatever order the map
   iterations of the code take: each task is the smallest of those whose
   dependencies all come before it, and no task comes twice. *)
Canonical ==
  \A k \in 1..Len(order) :
    LET before == {order[j] : j \in 1..(k - 1)}
    IN  Smallest({i \in Present(ts) \ before : LocalDeps(ts, i) \subseteq before},
                 order[k])

(* The call answers a graph exactly when no dependency is missing and there
   is no cycle: counting what is left over finds every cycle and nothing
   else. *)
AnswerRight ==
  /\ phase = "graph" => GraphOK(ts) /\ Held(order) = Present(ts)
  /\ phase = "cycle" => NoneMissing(ts) /\ ~Acyclic(ts)
  /\ phase = "missing" => ~NoneMissing(ts)

(* The call answers. *)
CallEnds == <>(phase \in Answers)

(* A project never comes to a halt by its dependencies alone: when every
   task is either done or ready, and the remote dependencies are done, there
   is a task to offer until all are done. *)
SomethingToDo ==
  /\ phase = "graph"
  /\ \A i \in Present(ts) : /\ ts[i].status \in {"ready", "done"}
                            /\ ts[i].deps \ Ids \subseteq resolved
  /\ \E i \in Present(ts) : ts[i].status # "done"
  => Ready # {}

(* A task that `task next` offers can be started: `running` needs every
   dependency done, including one in another repository, and needs no more.
   It does not hold: `task next` asks the Resolver, Store.Move in `task move`
   has none, and refuses the task for a remote dependency that is done. *)
OfferedStarts ==
  phase = "graph" =>
    \A k \in Ready : /\ Blockers(ts, order[k]) = {}
                     /\ CanMoveTo(ts[order[k]].status, "running")

(* The invariant behind Canonical and AnswerRight.  The last conjunct is what
   finds a cycle's absence: a group of tasks that has one in the order has one
   that waits on nobody in the group. *)
KahnInv ==
  /\ TypeOK
  /\ phase = "new" => order = <<>> /\ ready = {}
  /\ phase \in {"sort", "graph", "cycle"} => NoneMissing(ts)
  /\ phase = "sort" =>
       /\ \A i \in Present(ts) : indeg[i] = Cardinality(OpenDeps(i))
       /\ ready = {i \in Present(ts) \ Held(order) : OpenDeps(i) = {}}
  /\ Cardinality(Held(order)) = Len(order)
  /\ \A i \in Held(order) : LocalDeps(ts, i) \subseteq Held(order)
  /\ \A S \in SUBSET Present(ts) :
       S \cap Held(order) # {} => \E i \in S : LocalDeps(ts, i) \cap S = {}
=============================================================================
