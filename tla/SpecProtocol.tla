---------------------------- MODULE SpecProtocol ----------------------------
(***************************************************************************)
(* The vocabulary of a specification: its statuses and moves, what         *)
(* Validate refuses, and what one spec may say of others (spec/spec.go).   *)
(*                                                                         *)
(* An id NNN-name is a pair of numbers, the second for the name in         *)
(* alphabetical order.  Of a document the model keeps the id it gives      *)
(* itself, which nothing compares with the file's name, the status and     *)
(* the references; the rest is text that Validate checks field by field.   *)
(***************************************************************************)
EXTENDS Integers, FiniteSets

CONSTANTS
  MaxSpec,  \* bound: the largest number a run may allocate
  MaxName,  \* the names a title may be slugged to
  NoSpec    \* what a file that does not exist holds

ASSUME MaxSpecAssumption == MaxSpec \in Nat
ASSUME MaxNameAssumption == MaxName \in Nat

SpecIds == (1..MaxSpec) \X (1..MaxName)

Statuses == {"draft", "approved", "done", "rejected", "superseded"}

Transitions ==
  [draft      |-> {"approved", "rejected", "superseded"},
   approved   |-> {"done", "rejected", "superseded", "draft"},
   done       |-> {"superseded"},
   rejected   |-> {"draft"},
   superseded |-> {}]

CanMoveTo(from, to) == to \in Transitions[from]

Doc == [id : SpecIds, status : Statuses,
        supersedes : SUBSET SpecIds, depends_on : SUBSET SpecIds]

ASSUME NoSpecAssumption == NoSpec \notin Doc

Refs(d) == d.supersedes \cup d.depends_on

(* A spec cannot reference itself. *)
Validate(d) == d.id \notin Refs(d)

NewSpecDoc(id) ==
  [id |-> id, status |-> "draft", supersedes |-> {}, depends_on |-> {}]

(* What `spec set` is asked for: a list that is not given stays as it is. *)
SetFlags == [supersedes : SUBSET SpecIds, depends_on : SUBSET SpecIds]

Given(new, old) == IF new = {} THEN old ELSE new

WithFlags(d, f) ==
  [d EXCEPT !.supersedes = Given(f.supersedes, @),
            !.depends_on = Given(f.depends_on, @)]

(* NextSpecID: one more than the largest number of the ids there are. *)
IsNext(ids, n) ==
  /\ \A i \in ids : i[1] < n
  /\ n # 1 => \E i \in ids : i[1] = n - 1
=============================================================================
