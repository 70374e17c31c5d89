-------------------------- MODULE ProjectProtocol ---------------------------
(***************************************************************************)
(* The vocabulary of project.md: the record, what Validate refuses of it,  *)
(* and what each `project` command changes.  Translated from               *)
(* spec/project.go, spec/milestone.go and cmdProject.                      *)
(***************************************************************************)
EXTENDS Integers, Sequences

CONSTANTS
  Milestones,  \* the ids a calendar may declare
  Slips,       \* the ones among them that are no id: empty, or with a space or a comma
  Limits,      \* the numbers a limit may be set to
  NoLimit,     \* the limit is not set
  Handmade,    \* the records a person may write with an editor
  Missing,     \* there is no project.md
  Bad          \* project.md does not parse

(* The due day of a milestone: none, a date or some other text. *)
Dates == {"undated", "dated", "misdated"}

(* `due` has of each id its declarations in the order of the file, which may
   be several.  `sound` stands for what Validate says of repos, and `at` for
   paused_at: absent, a time or some other text. *)
Record == [paused : BOOLEAN, at : {"none", "time", "text"},
           limit : Limits \cup {NoLimit}, due : [Milestones -> Seq(Dates)],
           sound : BOOLEAN]

ASSUME LimitsAssumption == Limits \subseteq Int /\ NoLimit \notin Limits
ASSUME SlipsAssumption == Slips \subseteq Milestones
ASSUME HandmadeAssumption == Handmade \subseteq Record
ASSUME AbsentAssumption == {Missing, Bad} \cap Record = {} /\ Missing # Bad

(* The project of a directory that has no project.md; the template of init
   differs only in its text. *)
Empty == [paused |-> FALSE, at |-> "none", limit |-> NoLimit,
          due |-> [m \in Milestones |-> <<>>], sound |-> TRUE]

(* LoadProject, when the file parses. *)
Loaded(f) == IF f = Missing THEN Empty ELSE f

Validate(r) ==
  /\ r.sound
  /\ r.limit \in Limits => r.limit >= 0
  /\ \A m \in Milestones :
       r.due[m] = <<>> \/ (m \notin Slips /\ r.due[m] \in {<<"undated">>, <<"dated">>})
  /\ r.paused => r.at # "none"
  /\ r.at # "text"

(* The commands, by what they are asked to do. *)
Command == [op : {"pause", "resume", "unlimit"}] \cup
           [op : {"limit"}, to : Limits] \cup
           [op : {"milestone"}, id : Milestones, due : Dates] \cup
           [op : {"drop"}, id : Milestones]

(* DeleteMilestone finds what it is to delete. *)
Applies(c, r) == c.op = "drop" => r.due[c.id] # <<>>

(* The first declaration is changed, and keeps its date when no other is given;
   without one there is a new one. *)
Dated(old, new) ==
  IF old = <<>> THEN <<new>>
  ELSE [old EXCEPT ![1] = IF new = "undated" THEN @ ELSE new]

(* MUTANT of Apply: `limit <key> -` sets the limit to nothing, not to none. *)
ApplyZero(c, r) ==
  CASE c.op = "pause"     -> [r EXCEPT !.paused = TRUE, !.at = "time"]
    [] c.op = "resume"    -> [r EXCEPT !.paused = FALSE, !.at = "none"]
    [] c.op = "unlimit"   -> [r EXCEPT !.limit = 0]
    [] c.op = "limit"     -> [r EXCEPT !.limit = c.to]
    [] c.op = "milestone" -> [r EXCEPT !.due[c.id] = Dated(@, c.due)]
    [] c.op = "drop"      -> [r EXCEPT !.due[c.id] = Tail(@)]

Apply(c, r) ==
  CASE c.op = "pause"     -> [r EXCEPT !.paused = TRUE, !.at = "time"]
    [] c.op = "resume"    -> [r EXCEPT !.paused = FALSE, !.at = "none"]
    [] c.op = "unlimit"   -> [r EXCEPT !.limit = NoLimit]
    [] c.op = "limit"     -> [r EXCEPT !.limit = c.to]
    [] c.op = "milestone" -> [r EXCEPT !.due[c.id] = Dated(@, c.due)]
    [] c.op = "drop"      -> [r EXCEPT !.due[c.id] = Tail(@)]

(* Bytes drops the pause's keys when there is no pause. *)
Bytes(r) == IF r.paused THEN r ELSE [r EXCEPT !.at = "none"]
=============================================================================
