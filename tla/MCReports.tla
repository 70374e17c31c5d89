----------------------------- MODULE MCReports ------------------------------
(* Small instances of Reports for TLC. *)
EXTENDS Reports, TLC

SpecOf(reqs, milestone) == [reqs |-> reqs, milestone |-> milestone]
TaskOf(spec, milestone, covers) ==
  [spec |-> spec, milestone |-> milestone, covers |-> covers,
   gates |-> <<>>, measures |-> {}, status |-> "ready"]

MCMilestones == Milestones \cup {None}
One == {<<>>} \cup {<<r>> : r \in Reqs}
Two == One \cup {<<q, r>> : q, r \in Reqs}

(* Every way two specs and three tasks name milestones; a task may belong to
   no spec (0) or to one that does not exist (3). *)
Calendars ==
  {[specs |-> <<SpecOf({}, m1), SpecOf({}, m2)>>,
    tasks |-> <<TaskOf(s, t1, <<>>), TaskOf(2, t2, <<>>), TaskOf(1, t3, <<>>)>>] :
     m1, m2, t1, t2, t3 \in MCMilestones, s \in {0, 1, 3}}

(* Every way two specs declare requirements and two tasks cover them. *)
Matrices ==
  {[specs |-> <<SpecOf(q1, None), SpecOf(q2, None)>>,
    tasks |-> <<TaskOf(1, None, c), TaskOf(2, None, d), TaskOf(0, None, <<>>)>>] :
     q1, q2 \in SUBSET Reqs, c \in Two, d \in One}

(* Every way a task asks for metrics and has some measured, asked for or not. *)
Gates ==
  LET plain == TaskOf(0, None, <<>>)
      asked == {<<>>} \cup {<<m>> : m \in MetricNames} \cup {<<m, n>> : m, n \in MetricNames}
  IN  {[specs |-> <<SpecOf({}, None), SpecOf({}, None)>>,
        tasks |-> <<[plain EXCEPT !.gates = g, !.measures = have], plain,
                    [plain EXCEPT !.status = "done"]>>] :
         g \in asked, have \in SUBSET MetricNames}

(* The second task depends on one that is done and not looked at here: the
   graph has it last. *)
MCPlace == <<1, 3, 2>>

MCProjects == Calendars \cup Matrices \cup Gates

Symmetry == Permutations(Milestones) \cup Permutations(Reqs) \cup Permutations(MetricNames)
=============================================================================
