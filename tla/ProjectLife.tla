---------------------------- MODULE ProjectLife -----------------------------
(***************************************************************************)
(* What project.md is for the people who run `trilha-spec project`: one    *)
(* record, and every command a single step on the record that is there.    *)
(* ProjectRecord shows when the file operations of the commands amount to  *)
(* this.                                                                   *)
(***************************************************************************)
EXTENDS ProjectProtocol

VARIABLE project

(* A command that answers has left the record it was given with one change,
   and the record is valid. *)
Change(c) ==
  /\ project # Bad
  /\ Applies(c, Loaded(project))
  /\ Validate(Apply(c, Loaded(project)))
  /\ project' = Bytes(Apply(c, Loaded(project)))

(* init writes where there is nothing. *)
Create == project = Missing /\ project' = Empty

(* A command that dies while it writes. *)
Break == project' = Bad

Init == project \in Handmade \cup {Missing}

Next == (\E c \in Command : Change(c)) \/ Create \/ Break

Spec == Init /\ [][Next]_project
=============================================================================
