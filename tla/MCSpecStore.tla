---------------------------- MODULE MCSpecStore -----------------------------
(* Small instances of SpecStore for TLC. *)
EXTENDS SpecStore, TLC

D(id, status, supersedes, depends) ==
  [id |-> id, status |-> status, supersedes |-> supersedes,
   depends_on |-> depends]

F(supersedes, depends) == [supersedes |-> supersedes, depends_on |-> depends]

(* One approved spec. *)
MCProjects ==
  {[n \in SpecIds |-> IF n = <<1, 1>> THEN D(n, "approved", {}, {}) ELSE NoSpec]}

New(k) == [op |-> "new", name |-> k]
Move(id, to) == [op |-> "move", id |-> id, to |-> to]
Set(id, f) == [op |-> "set", id |-> id, flags |-> f]

(* Two titles, the end of a spec, a replacement that names what it replaces,
   and a dependency on a spec that may not be there yet. *)
MCCommands ==
  {New(1), New(2), Move(<<1, 1>>, "superseded"), Move(<<1, 1>>, "draft"),
   Set(<<2, 1>>, F({<<1, 1>>}, {})), Set(<<1, 1>>, F({}, {<<2, 1>>}))}

(* A file with the id of another, and a spec that is taken away. *)
MCEdits ==
  {<<<<2, 2>>, D(<<1, 2>>, "draft", {}, {<<1, 1>>})>>, <<<<1, 1>>, NoSpec>>}

Symmetry == Permutations(Procs)
=============================================================================
