------------------------------ MODULE Reports -------------------------------
(***************************************************************************)
(* What is said of a project: the calendar, the traceability matrix, the   *)
(* numbers measured, the order in which work is offered, the context pack  *)
(* and the problems doctor finds in them (task/milestone.go,               *)
(* task/coverage.go, task/eval.go, ai/context.go).  Specs, tasks, evidence *)
(* and the project are what their files say; TaskStore, SpecStore,         *)
(* EvidenceLog and ProjectRecord have the writing of them.                 *)
(*                                                                         *)
(* A task or a spec may name what does not exist: nothing checks that when *)
(* it is written.  Days are numbers.                                       *)
(***************************************************************************)
EXTENDS Integers, FiniteSets, Sequences, Functions

CONSTANTS
  MaxSpec, MaxTask, MaxDay, MaxEvals,
  Reqs,        \* the requirement ids
  Milestones,  \* the milestone ids
  MetricNames, \* the metrics there are
  None,        \* the field is not there
  Place,       \* where each task is in the order of the graph, which TaskGraph has
  Projects     \* the specs and tasks a run may start from

ASSUME BoundsAssumption ==
  MaxSpec \in Nat /\ MaxTask \in Nat /\ MaxDay \in Nat \ {0} /\ MaxEvals \in Nat

SpecIds == 1..MaxSpec
TaskIds == 1..MaxTask

ASSUME PlaceAssumption ==
  /\ Place \in [TaskIds -> Nat]
  /\ \A a, b \in TaskIds : Place[a] = Place[b] => a = b

(* What lies between ready and review is one step here. *)
Statuses == {"ready", "review", "done"}
Transitions ==
  {<<"ready", "review">>, <<"review", "done">>, <<"review", "ready">>, <<"done", "ready">>}

SpecRecord == [reqs : SUBSET Reqs, milestone : Milestones \cup {None}]
TaskRecord == [spec : Nat, milestone : Milestones \cup {None}, covers : Seq(Reqs),
               gates : Seq(MetricNames), measures : SUBSET MetricNames, status : Statuses]

ASSUME ProjectsAssumption ==
  \A p \in Projects : /\ p.specs \in [SpecIds -> SpecRecord]
                      /\ p.tasks \in [TaskIds -> TaskRecord]

EvalRecord == [metric : MetricNames, passed : BOOLEAN]

(* A number and where in the log it was measured. *)
Number == [passed : BOOLEAN, seq : Nat]

ASSUME NoneAssumption == None \notin Milestones \cup (0..MaxDay) \cup Number

VARIABLES
  specs,     \* the specs, in the order of their ids
  tasks,     \* the tasks, in the order of their ids
  evals,     \* of each task, its eval records in the order of the log
  calendar,  \* of each milestone: None, or its due day, 0 when it has none
  today

vars == <<specs, tasks, evals, calendar, today>>

TypeOK ==
  /\ specs \in [SpecIds -> SpecRecord]
  /\ tasks \in [TaskIds -> TaskRecord]
  /\ evals \in [TaskIds -> Seq(EvalRecord)]
  /\ calendar \in [Milestones -> (0..MaxDay) \cup {None}]
  /\ today \in 1..MaxDay

Init ==
  /\ \E p \in Projects : specs = p.specs /\ tasks = p.tasks
  /\ evals = [t \in TaskIds |-> <<>>]
  /\ calendar \in [Milestones -> {None, 0, 1}]
  /\ today = 1

-----------------------------------------------------------------------------
(* The calendar.                                                           *)

(* MUTANT of MilestoneOf: a task has no milestone but its own. *)
MilestoneOfOwn(t) == tasks[t].milestone

MilestoneOf(t) ==
  IF tasks[t].milestone # None THEN tasks[t].milestone
  ELSE IF tasks[t].spec \in SpecIds THEN specs[tasks[t].spec].milestone
  ELSE None

Declared(m) == m # None /\ calendar[m] # None
Overdue(m) == calendar[m] # 0 /\ calendar[m] < today

(* No due day is the last there is. *)
DueKey(t) ==
  LET m == MilestoneOf(t)
  IN  IF Declared(m) /\ calendar[m] # 0 THEN calendar[m] ELSE MaxDay + 1

(* ByDue, a stable sort of tasks that come in the order of the graph: the
   k-th of S is the one that k - 1 others precede. *)
Precedes(a, b) ==
  DueKey(a) < DueKey(b) \/ (DueKey(a) = DueKey(b) /\ Place[a] < Place[b])

Rank(S, t) == Cardinality({a \in S : Precedes(a, t)})

ByDue(S) == [k \in 1..Cardinality(S) |-> CHOOSE t \in S : Rank(S, t) = k - 1]

(* What is offered.  That a task waits for the ones it depends on is TaskGraph's. *)
Ready == {t \in TaskIds : tasks[t].status = "ready"}
Offered == ByDue(Ready)

(* A spec's unknown milestone is reported once, not for each of its tasks. *)
CheckMilestones ==
  {<<"milestone-unknown", "spec", s>> :
     s \in {x \in SpecIds : specs[x].milestone # None /\ ~Declared(specs[x].milestone)}}
  \cup {<<"milestone-unknown", "task", t>> :
     t \in {x \in TaskIds : tasks[x].milestone # None /\ ~Declared(tasks[x].milestone)}}
  \cup {<<"milestone-past-due", "task", t>> :
     t \in {x \in TaskIds : /\ Declared(MilestoneOf(x)) /\ Overdue(MilestoneOf(x))
                            /\ tasks[x].status # "done"}}
  \cup {<<"milestone-empty", "milestone", m>> :
     m \in {x \in Milestones : /\ Declared(x)
                               /\ \A t \in TaskIds : MilestoneOf(t) # x}}

-----------------------------------------------------------------------------
(* Traceability.                                                           *)

(* Where r is covered, <<task, place>>: the row lists their tasks in this
   order, a task as often as it says so. *)
Covering(r) ==
  UNION {{t} \X {i \in DOMAIN tasks[t].covers : tasks[t].covers[i] = r} : t \in TaskIds}

(* Cover: one row for each spec and requirement it declares. *)
Cover ==
  UNION {{[spec |-> s, req |-> r, tasks |-> Covering(r)] : r \in specs[s].reqs} :
           s \in SpecIds}

Owners(r) == {s \in SpecIds : r \in specs[s].reqs}

CheckRequirements ==
  {<<"requirement-duplicate", "req", r>> : r \in {x \in Reqs : Cardinality(Owners(x)) > 1}}
  \cup (UNION {{<<"requirement-unknown", t, r>> :
     r \in {x \in Range(tasks[t].covers) : Owners(x) = {}}} : t \in TaskIds})
  \cup {<<"requirement-uncovered", "req", r>> :
     r \in {x \in Reqs : /\ Owners(x) # {}
                         /\ \A t \in TaskIds : x \notin Range(tasks[t].covers)}}

-----------------------------------------------------------------------------
(* Evaluations.                                                            *)

(* Metrics: of each metric the number that stands after the whole list, or
   None: the next record of its name takes the place of the last. *)
Metrics(list) ==
  LET last[i \in 0..Len(list)] ==
        IF i = 0 THEN [m \in MetricNames |-> None]
        ELSE [last[i - 1] EXCEPT ![list[i].metric] = [passed |-> list[i].passed, seq |-> i]]
  IN  last[Len(list)]

(* CheckMetrics: a gate is answered by any record of its name. *)
CheckMetrics ==
  UNION {{<<"metric-not-evidenced", t, m>> :
     m \in {x \in Range(tasks[t].gates) :
            \A i \in DOMAIN evals[t] : evals[t][i].metric # x}} :
     t \in {x \in TaskIds : tasks[x].status \in {"review", "done"}}}

-----------------------------------------------------------------------------
(* Build, the parts of a pack that say where a task belongs and stands.    *)

PackRequirements(t) ==
  [i \in DOMAIN tasks[t].covers |->
     LET r == tasks[t].covers[i]
     IN  [req |-> r, from |-> IF Owners(r) = {} THEN None
                              ELSE CHOOSE s \in Owners(r) : \A o \in Owners(r) : s <= o]]

PackMilestone(t) ==
  LET m == MilestoneOf(t)
  IN  [id |-> m, due |-> IF Declared(m) THEN calendar[m] ELSE None]

PackMetrics(t) == Metrics(evals[t])

-----------------------------------------------------------------------------
Move(t, to) ==
  /\ <<tasks[t].status, to>> \in Transitions
  /\ tasks' = [tasks EXCEPT ![t].status = to]
  /\ UNCHANGED <<specs, evals, calendar, today>>

(* A check printed a number, or a person added it; nothing asks where the
   task stands. *)
Measure(t, m, passed) ==
  /\ m \in tasks[t].measures /\ Len(evals[t]) < MaxEvals
  /\ evals' = [evals EXCEPT ![t] = Append(@, [metric |-> m, passed |-> passed])]
  /\ UNCHANGED <<specs, tasks, calendar, today>>

(* SetMilestone; DeleteMilestone asks nobody who names it. *)
SetMilestone(m, day) ==
  /\ calendar' = [calendar EXCEPT ![m] = day]
  /\ UNCHANGED <<specs, tasks, evals, today>>

DeleteMilestone(m) ==
  /\ Declared(m)
  /\ calendar' = [calendar EXCEPT ![m] = None]
  /\ UNCHANGED <<specs, tasks, evals, today>>

Tomorrow ==
  /\ today < MaxDay
  /\ today' = today + 1
  /\ UNCHANGED <<specs, tasks, evals, calendar>>

Next ==
  \/ \E t \in TaskIds :
       \/ \E to \in Statuses : Move(t, to)
       \/ \E m \in MetricNames, passed \in BOOLEAN : Measure(t, m, passed)
  \/ \E m \in Milestones : DeleteMilestone(m)
       \/ \E day \in 0..MaxDay : SetMilestone(m, day)
  \/ Tomorrow

Spec == Init /\ [][Next]_vars

-----------------------------------------------------------------------------
(* Properties.                                                             *)

Problems == CheckMilestones \cup CheckRequirements \cup CheckMetrics

(* A task that is late is reported, and offered before every task that is
   not; a task is on no calendar only when doctor says so of it or of its
   spec, or when it names no milestone and its spec has none or does not
   exist, which nobody reports. *)
OnTheCalendar(t) ==
  LET s == tasks[t].spec
      named == {tasks[t].milestone} \cup {specs[x].milestone : x \in SpecIds \cap {s}}
  IN  /\ named = {None} \/ Declared(PackMilestone(t).id)
           \/ <<"milestone-unknown", "task", t>> \in Problems
           \/ <<"milestone-unknown", "spec", s>> \in Problems
      /\ <<"milestone-past-due", "task", t>> \in Problems =>
           \A i, j \in DOMAIN Offered :
             Offered[j] = t /\ i < j =>
               <<"milestone-past-due", "task", Offered[i]>> \in Problems

(* What a task covers is in the matrix, and in its pack in the words of a
   spec, or doctor says that nobody declares it. *)
InTheMatrix(t) ==
  \A i \in DOMAIN tasks[t].covers :
    LET r == tasks[t].covers[i]
        row == [spec |-> PackRequirements(t)[i].from, req |-> r, tasks |-> Covering(r)]
    IN  <<"requirement-unknown", t, r>> \in Problems
          \/ (row \in Cover /\ \E place \in row.tasks : place[1] = t)

(* A requirement without a task is a row without one, and the other way
   round; the rows of one requirement say the same. *)
MatrixTold ==
  \A row \in Cover :
    /\ row.tasks = {} <=> <<"requirement-uncovered", "req", row.req>> \in Problems
    /\ \A other \in Cover : other.req = row.req /\ other # row =>
         /\ other.tasks = row.tasks
         /\ <<"requirement-duplicate", "req", row.req>> \in Problems

(* Whoever closes a task reads a number for each of its gates, or doctor
   says which gate nobody measured; and the number is that of the record no
   other of its name follows, so a failure measured last is never behind an
   older success. *)
NumbersStand(t) ==
  /\ tasks[t].status \in {"review", "done"} =>
       \A m \in Range(tasks[t].gates) :
         PackMetrics(t)[m] # None <=> <<"metric-not-evidenced", t, m>> \notin Problems
  /\ \A m \in MetricNames : PackMetrics(t)[m] # None =>
       LET at == PackMetrics(t)[m].seq
       IN  /\ evals[t][at] = [metric |-> m, passed |-> PackMetrics(t)[m].passed]
           /\ \A i \in DOMAIN evals[t] : i > at => evals[t][i].metric # m

(* Nothing a task says of where it belongs or has to reach is dropped in
   silence: not from the calendar, the order of work, the matrix or the pack. *)
NothingDropped ==
  /\ \A t \in TaskIds : /\ tasks[t].status # "done" => OnTheCalendar(t)
                        /\ InTheMatrix(t)
                        /\ NumbersStand(t)
  /\ MatrixTold
=============================================================================
