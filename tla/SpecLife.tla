------------------------------ MODULE SpecLife ------------------------------
(***************************************************************************)
(* What the specs of a project are for the people who run                  *)
(* `trilha-spec spec`: a set of documents, and every command one step.     *)
(* SpecStore shows when the file operations of the commands amount to      *)
(* this.                                                                   *)
(***************************************************************************)
EXTENDS SpecProtocol

CONSTANT Broken  \* a file a command died in

VARIABLE specs   \* what each spec file says

Present == {n \in SpecIds : specs[n] \in Doc}

(* No spec is unreadable: every command that needs them all gets them. *)
AllReadable == \A n \in SpecIds : specs[n] # Broken

New(n) ==
  /\ AllReadable /\ specs[n] = NoSpec
  /\ IsNext(Present, n[1])
  /\ specs' = [specs EXCEPT ![n] = NewSpecDoc(n)]

(* A superseded spec stays what it is. *)
Move(n, to) ==
  /\ n \in Present /\ CanMoveTo(specs[n].status, to)
  /\ specs' = [specs EXCEPT ![n].status = to]

(* The references exist, as far as they can be checked. *)
Set(n, f) ==
  /\ n \in Present /\ Validate(WithFlags(specs[n], f))
  /\ AllReadable => Refs(WithFlags(specs[n], f)) \subseteq Present
  /\ specs' = [specs EXCEPT ![n] = WithFlags(@, f)]

(* A command dies in a file. *)
Break(n) == specs' = [specs EXCEPT ![n] = Broken]

Next ==
  \E n \in SpecIds :
    \/ New(n)
    \/ \E to \in Statuses : Move(n, to)
    \/ \E f \in SetFlags : Set(n, f)
    \/ Break(n)
=============================================================================
