---------------------------- MODULE MCTaskStore -----------------------------
(* Small instances of TaskStore for TLC. *)
EXTENDS TaskStore, TLC

D(s, deps, accept, quorum) ==
  [status |-> s, deps |-> deps, accept |-> accept, quorum |-> quorum]

(* One task to start, and room for one more. *)
Alone ==
  [i \in Ids |-> IF i = 1 THEN D("ready", {}, TRUE, 1) ELSE NoTask]

(* One task about to be closed by two people, one waiting on it. *)
Chain ==
  [i \in Ids |-> CASE i = 1 -> D("review", {}, TRUE, 2)
                   [] i = 2 -> D("ready", {1}, TRUE, 0)
                   [] OTHER -> NoTask]

MCAlone == {Alone}
MCAloneOrEmpty == {Alone, [i \in Ids |-> NoTask]}
MCBoth == {Alone, Chain}

(* A dependency on the task there is, one on the last number there can be
   (missing, or the task itself), ready without a criterion. *)
MCNewDocs == {D("ready", {1}, TRUE, 0), D("idea", {MaxTask}, TRUE, 0),
              D("ready", {}, FALSE, 0)}
(* With one number a dependency on 1 is one on the task itself. *)
MCTwoDocs == {D("ready", {1}, TRUE, 0), D("ready", {}, TRUE, 0)}

R(deps, accept, quorum) ==
  [deps |-> deps, accept |-> accept, quorum |-> quorum]

(* An edit may close a cycle, and may take the last criterion away. *)
MCRewrites == {R({2}, TRUE, 1), R({}, FALSE, 1)}
MCOneRewrite == {R({}, FALSE, 1)}

MCTargets == Statuses
(* The way from ready to done and back. *)
MCWayThrough == {"ready", "running", "verify", "review", "done"}

=============================================================================
