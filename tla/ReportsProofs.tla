--------------------------- MODULE ReportsProofs ----------------------------
(***************************************************************************)
(* Theorems about Reports, for any number of specs, tasks, milestones,     *)
(* requirements, metrics and measurements: the order of work is a          *)
(* permutation of what is ready with the nearest due day first, the        *)
(* numbers that stand are the last ones of the log, and nothing a task     *)
(* says of where it belongs is dropped in silence.                         *)
(*                                                                         *)
(* Two of them need an induction: over the turns of the loop of Metrics,   *)
(* and for the first spec that declares a requirement.  It is used in the  *)
(* form that names a set and not a predicate.                              *)
(***************************************************************************)
EXTENDS Reports, FiniteSetTheorems, WellFoundedInduction, TLAPS

(* There is a first among some numbers: < is well founded. *)
LEMMA FirstExists ==
  ASSUME NEW S, S \subseteq Nat, S # {}
  PROVE  \E n \in S : \A m \in S : n <= m
  <1> DEFINE less == OpToRel(<, Nat)
  <1>1. PICK n \in S : \A m \in S : ~(<<m, n>> \in less)
    BY NatLessThanWellFounded, WFMin, Zenon
  <1>2. \A x, y \in Nat : y < x => <<y, x>> \in less
    BY Zenon DEF OpToRel
  <1>3. ASSUME NEW m \in S PROVE ~(m < n)
    BY <1>1, <1>2
  <1>4. ASSUME NEW m \in S PROVE n <= m
    BY <1>3
  <1>5. QED
    BY <1>4

(* A set of numbers that has 0 and, with each number, the next one has them
   all: the first that is missing would follow one that is there. *)
LEMMA Induct ==
  ASSUME NEW S, 0 \in S, \A n \in Nat : n \in S => n + 1 \in S
  PROVE  Nat \subseteq S
  <1> SUFFICES ASSUME Nat \ S # {} PROVE FALSE
    OBVIOUS
  <1>1. PICK n \in Nat \ S : \A m \in Nat \ S : n <= m
    <2>1. Nat \ S \subseteq Nat
      OBVIOUS
    <2>2. QED
      BY <2>1, FirstExists
  <1>2. n - 1 \in Nat /\ n - 1 \in S
    BY <1>1
  <1>3. QED
    BY <1>1, <1>2

-----------------------------------------------------------------------------
LEMMA InitTypes == Init => TypeOK
  <1> SUFFICES ASSUME Init PROVE TypeOK
    OBVIOUS
  <1>1. specs \in [SpecIds -> SpecRecord] /\ tasks \in [TaskIds -> TaskRecord]
    BY ProjectsAssumption DEF Init
  <1>2. evals \in [TaskIds -> Seq(EvalRecord)]
    <2>1. <<>> \in Seq(EvalRecord)
      OBVIOUS
    <2>2. QED
      BY <2>1 DEF Init
  <1>3. calendar \in [Milestones -> (0..MaxDay) \cup {None}] /\ today \in 1..MaxDay
    BY BoundsAssumption DEF Init
  <1>4. QED
    BY <1>1, <1>2, <1>3 DEF TypeOK

LEMMA TypeStep == TypeOK /\ [Next]_vars => TypeOK'
  <1> SUFFICES ASSUME TypeOK, [Next]_vars PROVE TypeOK'
    OBVIOUS
  <1>1. ASSUME NEW t \in TaskIds, NEW to \in Statuses, Move(t, to) PROVE TypeOK'
    BY <1>1 DEF Move, TypeOK, TaskRecord
  <1>2. ASSUME NEW t \in TaskIds, NEW m \in MetricNames, NEW passed \in BOOLEAN,
               Measure(t, m, passed)
        PROVE  TypeOK'
    <2>1. [metric |-> m, passed |-> passed] \in EvalRecord
      BY DEF EvalRecord
    <2>2. Append(evals[t], [metric |-> m, passed |-> passed]) \in Seq(EvalRecord)
      BY <2>1 DEF TypeOK
    <2>3. QED
      BY <1>2, <2>2 DEF Measure, TypeOK
  <1>3. ASSUME NEW m \in Milestones, NEW day \in 0..MaxDay, SetMilestone(m, day)
        PROVE  TypeOK'
    BY <1>3 DEF SetMilestone, TypeOK
  <1>4. ASSUME NEW m \in Milestones, DeleteMilestone(m) PROVE TypeOK'
    BY <1>4 DEF DeleteMilestone, TypeOK
  <1>5. CASE Tomorrow
    BY <1>5, BoundsAssumption DEF Tomorrow, TypeOK
  <1>6. CASE UNCHANGED vars
    BY <1>6 DEF vars, TypeOK
  <1>7. QED
    BY <1>1, <1>2, <1>3, <1>4, <1>5, <1>6 DEF Next

(* Type correctness: specs, tasks, logs and the calendar stay what their
   files may say. *)
THEOREM TypeCorrect == Spec => []TypeOK
  BY InitTypes, TypeStep, PTL DEF Spec

-----------------------------------------------------------------------------
(* The order of work.                                                      *)

LEMMA MilestoneType ==
  ASSUME TypeOK, NEW t \in TaskIds
  PROVE  MilestoneOf(t) \in Milestones \cup {None}
  BY DEF MilestoneOf, TypeOK, TaskRecord, SpecRecord

LEMMA DueKeyType ==
  ASSUME TypeOK, NEW t \in TaskIds
  PROVE  /\ DueKey(t) \in Nat
         /\ DueKey(t) <= MaxDay =>
              /\ Declared(MilestoneOf(t)) /\ calendar[MilestoneOf(t)] # 0
              /\ DueKey(t) = calendar[MilestoneOf(t)]
  <1> DEFINE m == MilestoneOf(t)
  <1>1. ASSUME Declared(m) PROVE calendar[m] \in 0..MaxDay
    BY <1>1, MilestoneType DEF Declared, TypeOK
  <1> HIDE DEF m
  <1>2. DueKey(t) = IF Declared(m) /\ calendar[m] # 0 THEN calendar[m] ELSE MaxDay + 1
    BY DEF DueKey, m
  <1>3. /\ DueKey(t) \in Nat
        /\ DueKey(t) <= MaxDay => /\ Declared(m) /\ calendar[m] # 0
                                  /\ DueKey(t) = calendar[m]
    BY <1>1, <1>2, BoundsAssumption
  <1>4. QED
    BY <1>3 DEF m

(* Precedes is a strict total order of the tasks. *)
LEMMA PrecedesOrder ==
  ASSUME TypeOK, NEW a \in TaskIds, NEW b \in TaskIds, NEW c \in TaskIds
  PROVE  /\ ~Precedes(a, a)
         /\ Precedes(a, b) /\ Precedes(b, c) => Precedes(a, c)
         /\ a = b \/ Precedes(a, b) \/ Precedes(b, a)
  <1>1. /\ DueKey(a) \in Nat /\ DueKey(b) \in Nat /\ DueKey(c) \in Nat
        /\ Place[a] \in Nat /\ Place[b] \in Nat /\ Place[c] \in Nat
        /\ Place[a] = Place[b] => a = b
    BY DueKeyType, PlaceAssumption
  <1>2. QED
    BY <1>1 DEF Precedes

LEMMA TasksFinite ==
  ASSUME NEW S \in SUBSET TaskIds
  PROVE  IsFiniteSet(S) /\ Cardinality(S) \in Nat
  <1>1. IsFiniteSet(TaskIds)
    BY BoundsAssumption, FS_Interval DEF TaskIds
  <1>2. QED
    BY <1>1, FS_Subset, FS_CardinalityType

(* What precedes another has the lower rank, and no rank exceeds the number of
   the others. *)
LEMMA RankGrows ==
  ASSUME TypeOK, NEW S \in SUBSET TaskIds, NEW a \in S, NEW b \in S
  PROVE  /\ Rank(S, a) \in 0..(Cardinality(S) - 1)
         /\ Precedes(a, b) => Rank(S, a) < Rank(S, b)
  <1> DEFINE Ahead(t) == {x \in S : Precedes(x, t)}
  <1>0. /\ \A t : IsFiniteSet(Ahead(t)) /\ Cardinality(Ahead(t)) \in Nat
        /\ IsFiniteSet(S) /\ Cardinality(S) \in Nat
    <2>1. \A t : Ahead(t) \in SUBSET TaskIds
      OBVIOUS
    <2> HIDE DEF Ahead
    <2>2. QED
      BY <2>1, TasksFinite
  <1>1. Rank(S, a) = Cardinality(Ahead(a)) /\ Rank(S, b) = Cardinality(Ahead(b))
    BY DEF Rank
  <1>2. Rank(S, a) \in 0..(Cardinality(S) - 1)
    <2>1. Ahead(a) \in SUBSET (S \ {a})
      BY PrecedesOrder
    <2>2. /\ IsFiniteSet(S \ {a})
          /\ Cardinality(S \ {a}) = Cardinality(S) - 1
      BY <1>0, FS_RemoveElement
    <2> HIDE DEF Ahead
    <2>3. Cardinality(Ahead(a)) <= Cardinality(S \ {a})
      BY <2>1, <2>2, FS_Subset
    <2>4. QED
      BY <1>0, <1>1, <2>2, <2>3
  <1>3. ASSUME Precedes(a, b) PROVE Rank(S, a) < Rank(S, b)
    <2>1. a \in Ahead(b) /\ Ahead(a) \in SUBSET (Ahead(b) \ {a})
      BY <1>3, PrecedesOrder
    <2> HIDE DEF Ahead
    <2>2. /\ IsFiniteSet(Ahead(b) \ {a})
          /\ Cardinality(Ahead(b) \ {a}) = Cardinality(Ahead(b)) - 1
      BY <1>0, <2>1, FS_RemoveElement
    <2>3. Cardinality(Ahead(a)) <= Cardinality(Ahead(b) \ {a})
      BY <2>1, <2>2, FS_Subset
    <2>4. QED
      BY <1>0, <1>1, <2>2, <2>3
  <1>4. QED
    BY <1>2, <1>3

(* Every rank is taken by a task. *)
LEMMA RankTaken ==
  ASSUME TypeOK, NEW S \in SUBSET TaskIds, NEW n \in 0..(Cardinality(S) - 1)
  PROVE  \E t \in S : Rank(S, t) = n
  <1> DEFINE ranks == 0..(Cardinality(S) - 1)
             f == [t \in S |-> Rank(S, t)]
  <1>1. Cardinality(S) \in Nat
    BY TasksFinite
  <1>2. IsFiniteSet(ranks) /\ Cardinality(ranks) = Cardinality(S)
    <2>1. Cardinality(S) - 1 \in Int /\ 0 \in Int
      BY <1>1
    <2>2. QED
      BY <1>1, <2>1, FS_Interval
  <1>3. f \in [S -> ranks]
    BY RankGrows
  <1>4. ASSUME NEW a \in S, NEW b \in S, f[a] = f[b] PROVE a = b
    <2>1. /\ Rank(S, a) = Rank(S, b) /\ Rank(S, a) \in Int
          /\ ~(Rank(S, a) < Rank(S, b)) /\ ~(Rank(S, b) < Rank(S, a))
      BY <1>4, RankGrows
    <2>2. ~Precedes(a, b) /\ ~Precedes(b, a)
      BY <2>1, RankGrows
    <2>3. QED
      BY <2>2, PrecedesOrder
  <1> HIDE DEF ranks
  <1>5. f \in Injection(S, ranks)
    BY <1>3, <1>4 DEF Injection, IsInjective
  <1>6. f \in Surjection(S, ranks)
    BY <1>2, <1>5, FS_Injection
  <1>7. \A r \in ranks : \E t \in S : f[t] = r
    BY <1>6 DEF Surjection
  <1>8. QED
    BY <1>7 DEF ranks

(* ByDue answers each of the tasks it is given, once, those that precede
   others before them. *)
LEMMA ByDueSorts ==
  ASSUME TypeOK, NEW S \in SUBSET TaskIds
  PROVE  /\ ByDue(S) \in [1..Cardinality(S) -> S]
         /\ \A t \in S : \E k \in DOMAIN ByDue(S) : ByDue(S)[k] = t
         /\ \A i, j \in DOMAIN ByDue(S) : i < j => Precedes(ByDue(S)[i], ByDue(S)[j])
  <1>0. Cardinality(S) \in Nat
    BY TasksFinite
  <1>1. ASSUME NEW k \in 1..Cardinality(S)
        PROVE  ByDue(S)[k] \in S /\ Rank(S, ByDue(S)[k]) = k - 1
    <2>1. k - 1 \in 0..(Cardinality(S) - 1)
      BY <1>0
    <2>2. \E t \in S : Rank(S, t) = k - 1
      BY <2>1, RankTaken
    <2>3. QED
      BY <2>2 DEF ByDue
  <1>2. DOMAIN ByDue(S) = 1..Cardinality(S) /\ ByDue(S) \in [1..Cardinality(S) -> S]
    BY <1>1 DEF ByDue
  <1>3. ASSUME NEW t \in S PROVE \E k \in DOMAIN ByDue(S) : ByDue(S)[k] = t
    <2> DEFINE k == Rank(S, t) + 1
    <2>1. k \in 1..Cardinality(S) /\ k - 1 = Rank(S, t) /\ Rank(S, t) \in Int
      BY <1>0, RankGrows
    <2> HIDE DEF k
    <2>2. ByDue(S)[k] \in S /\ Rank(S, ByDue(S)[k]) = Rank(S, t)
      BY <1>1, <2>1
    <2>3. ~Precedes(t, ByDue(S)[k]) /\ ~Precedes(ByDue(S)[k], t)
      BY <2>1, <2>2, RankGrows
    <2>4. ByDue(S)[k] = t
      BY <2>2, <2>3, PrecedesOrder
    <2>5. QED
      BY <1>2, <2>1, <2>4
  <1>4. ASSUME NEW i \in 1..Cardinality(S), NEW j \in 1..Cardinality(S), i < j
        PROVE  Precedes(ByDue(S)[i], ByDue(S)[j])
    <2> DEFINE a == ByDue(S)[i]
               b == ByDue(S)[j]
    <2>1. a \in S /\ b \in S /\ Rank(S, a) < Rank(S, b)
      BY <1>0, <1>1, <1>4
    <2>2. ~(Rank(S, b) < Rank(S, a)) /\ a # b
      BY <1>0, <1>1, <1>4, <2>1
    <2> HIDE DEF a, b
    <2>3. ~Precedes(b, a)
      BY <2>1, <2>2, RankGrows
    <2>4. Precedes(a, b)
      BY <2>1, <2>2, <2>3, PrecedesOrder
    <2>5. QED
      BY <2>4 DEF a, b
  <1>5. QED
    BY <1>2, <1>3, <1>4

(* The list of `task next` and trilha_next: each ready task once, by the due
   day of its milestone, and in the order of the graph where those are equal. *)
WorkInOrder ==
  /\ Offered \in [1..Cardinality(Ready) -> Ready]
  /\ \A t \in Ready : \E k \in DOMAIN Offered : Offered[k] = t
  /\ \A i, j \in DOMAIN Offered : i < j => Precedes(Offered[i], Offered[j])

(* ByDue loses no task, repeats none and keeps the order of those with one due
   day, whatever milestones appear and disappear: its sort is a permutation. *)
THEOREM WorkIsOrdered == Spec => []WorkInOrder
  <1>1. TypeOK => WorkInOrder
    <2> SUFFICES ASSUME TypeOK PROVE WorkInOrder
      OBVIOUS
    <2>1. Ready \in SUBSET TaskIds
      BY DEF Ready
    <2>2. QED
      BY <2>1, ByDueSorts DEF WorkInOrder, Offered
  <1>2. QED
    BY <1>1, TypeCorrect, PTL

-----------------------------------------------------------------------------
(* The numbers that stand.                                                 *)

(* One turn of the loop of Metrics, and what the loop has after n of them. *)
Take(list, standing, i) ==
  [standing EXCEPT ![list[i].metric] = [passed |-> list[i].passed, seq |-> i]]

IsLoop(list, f, n) ==
  f = [i \in 0..n |-> IF i = 0 THEN [m \in MetricNames |-> None]
                               ELSE Take(list, f[i - 1], i)]

(* The recursion of Metrics defines a function. *)
LEMMA LoopExists ==
  ASSUME NEW list, NEW n \in Nat
  PROVE  \E f : IsLoop(list, f, n)
  <1> DEFINE good == {k \in Nat : \E f : IsLoop(list, f, k)}
  <1>1. 0 \in good
    <2> DEFINE f == [i \in 0..0 |-> [m \in MetricNames |-> None]]
    <2>1. f = [i \in 0..0 |-> IF i = 0 THEN [m \in MetricNames |-> None]
                                       ELSE Take(list, f[i - 1], i)]
      OBVIOUS
    <2>2. IsLoop(list, f, 0)
      BY <2>1 DEF IsLoop
    <2>3. QED
      BY <2>2
  <1>2. ASSUME NEW k \in Nat, k \in good PROVE k + 1 \in good
    <2>1. PICK f : IsLoop(list, f, k)
      BY <1>2
    <2> DEFINE g == [i \in 0..(k + 1) |-> IF i = k + 1 THEN Take(list, f[k], k + 1)
                                                       ELSE f[i]]
               Turn(i) == IF i = 0 THEN [m \in MetricNames |-> None]
                                   ELSE Take(list, g[i - 1], i)
    <2>2. ASSUME NEW i \in 0..(k + 1) PROVE g[i] = Turn(i)
      <3>1. CASE i = 0
        <4>1. f[0] = [m \in MetricNames |-> None]
          BY <2>1 DEF IsLoop
        <4>2. g[0] = f[0]
          OBVIOUS
        <4>3. QED
          BY <3>1, <4>1, <4>2
      <3>2. CASE i \in 1..k
        <4>1. f[i] = Take(list, f[i - 1], i)
          BY <2>1, <3>2 DEF IsLoop
        <4>2. i \in 0..(k + 1) /\ i # k + 1 /\ i - 1 \in 0..(k + 1) /\ i - 1 # k + 1
          BY <3>2
        <4>3. g[i] = f[i] /\ g[i - 1] = f[i - 1]
          BY <4>2
        <4> HIDE DEF g
        <4>4. QED
          BY <3>2, <4>1, <4>3
      <3>3. CASE i = k + 1
        <4>1. k \in 0..(k + 1) /\ k # k + 1 /\ (k + 1) - 1 = k /\ k + 1 # 0
          OBVIOUS
        <4>2. g[k] = f[k] /\ g[k + 1] = Take(list, f[k], k + 1)
          BY <4>1
        <4> HIDE DEF g
        <4>3. QED
          BY <3>3, <4>1, <4>2
      <3>4. QED
        BY <3>1, <3>2, <3>3
    <2>3. g = [i \in 0..(k + 1) |-> Turn(i)]
      <3>1. g = [i \in 0..(k + 1) |-> g[i]]
        OBVIOUS
      <3> HIDE DEF g, Turn
      <3>2. QED
        BY <2>2, <3>1
    <2>4. IsLoop(list, g, k + 1)
      BY <2>3 DEF IsLoop
    <2>5. QED
      BY <2>4
  <1>3. Nat \subseteq good
    <2> HIDE DEF good
    <2> QED
      BY <1>1, <1>2, Induct
  <1>4. QED
    BY <1>3

(* What stands for m after the first n records of the list: the last of its
   name among them, or nothing when there is none. *)
Stands(list, m, number, n) ==
  \/ number = None /\ \A i \in 1..n : list[i].metric # m
  \/ /\ number \in Number /\ number.seq \in 1..n
     /\ list[number.seq] = [metric |-> m, passed |-> number.passed]
     /\ \A i \in 1..n : i > number.seq => list[i].metric # m

LEMMA LoopStands ==
  ASSUME NEW list \in Seq(EvalRecord), NEW f, IsLoop(list, f, Len(list)),
         NEW n \in 0..Len(list)
  PROVE  /\ DOMAIN f[n] = MetricNames
         /\ \A m \in MetricNames : Stands(list, m, f[n][m], n)
  <1> DEFINE kept == {k \in Nat : k <= Len(list) =>
                        /\ DOMAIN f[k] = MetricNames
                        /\ \A m \in MetricNames : Stands(list, m, f[k][m], k)}
  <1>0. Len(list) \in Nat
    OBVIOUS
  <1>1. 0 \in kept
    <2>1. f[0] = [m \in MetricNames |-> None]
      BY <1>0 DEF IsLoop
    <2>2. QED
      BY <2>1 DEF Stands
  <1>2. ASSUME NEW k \in Nat, k \in kept, k + 1 <= Len(list)
        PROVE  /\ DOMAIN f[k + 1] = MetricNames
               /\ \A m \in MetricNames : Stands(list, m, f[k + 1][m], k + 1)
    <2> DEFINE e == list[k + 1]
               number == [passed |-> e.passed, seq |-> k + 1]
    <2>1. k + 1 \in 0..Len(list) /\ k + 1 # 0 /\ (k + 1) - 1 = k /\ k + 1 \in 1..Len(list)
      BY <1>0, <1>2
    <2>2. f[k + 1] = Take(list, f[k], k + 1)
      BY <2>1 DEF IsLoop
    <2>3. /\ DOMAIN f[k] = MetricNames
          /\ \A m \in MetricNames : Stands(list, m, f[k][m], k)
      BY <1>0, <1>2
    <2>4. e \in EvalRecord /\ e.metric \in MetricNames
          /\ e = [metric |-> e.metric, passed |-> e.passed]
      <3>1. e \in EvalRecord
        BY <2>1
      <3> HIDE DEF e
      <3>2. QED
        BY <3>1 DEF EvalRecord
    <2>5. number \in Number /\ number.seq = k + 1 /\ number.passed = e.passed
      BY <2>4 DEF Number, EvalRecord
    <2>6. /\ DOMAIN f[k + 1] = MetricNames
          /\ \A m \in MetricNames :
               f[k + 1][m] = IF m = e.metric THEN number ELSE f[k][m]
      BY <2>2, <2>3 DEF Take
    <2>7. ASSUME NEW m \in MetricNames PROVE Stands(list, m, f[k + 1][m], k + 1)
      <3>1. CASE m = e.metric
        <4>1. f[k + 1][m] = number
          BY <2>6, <3>1
        <4>2. /\ number.seq \in 1..(k + 1)
              /\ list[number.seq] = [metric |-> m, passed |-> number.passed]
              /\ \A i \in 1..(k + 1) : ~(i > number.seq)
          BY <2>4, <2>5, <3>1
        <4> HIDE DEF number
        <4>3. QED
          BY <2>5, <4>1, <4>2 DEF Stands
      <3>2. CASE m # e.metric
        <4>1. f[k + 1][m] = f[k][m]
          BY <2>6, <3>2
        <4>2. \A i \in 1..(k + 1) : i \in 1..k \/ (i = k + 1 /\ list[i].metric # m)
          BY <3>2
        <4>3. Stands(list, m, f[k][m], k)
          BY <2>3
        <4> HIDE DEF e
        <4>4. CASE f[k][m] = None /\ \A i \in 1..k : list[i].metric # m
          BY <4>1, <4>2, <4>4 DEF Stands
        <4>5. CASE /\ f[k][m] \in Number /\ f[k][m].seq \in 1..k
                   /\ list[f[k][m].seq] = [metric |-> m, passed |-> f[k][m].passed]
                   /\ \A i \in 1..k : i > f[k][m].seq => list[i].metric # m
          <5>1. f[k][m].seq \in 1..(k + 1)
            BY <4>5
          <5>2. QED
            BY <4>1, <4>2, <4>5, <5>1 DEF Stands
        <4>6. QED
          BY <4>3, <4>4, <4>5 DEF Stands
      <3>3. QED
        BY <3>1, <3>2
    <2>8. QED
      BY <2>6, <2>7
  <1>3. \A k \in Nat : k \in kept => k + 1 \in kept
    <2>1. ASSUME NEW k \in Nat, k \in kept PROVE k + 1 \in kept
      <3>1. k + 1 \in Nat
        OBVIOUS
      <3>2. k + 1 <= Len(list) =>
              /\ DOMAIN f[k + 1] = MetricNames
              /\ \A m \in MetricNames : Stands(list, m, f[k + 1][m], k + 1)
        BY <1>2, <2>1
      <3>3. QED
        BY <3>1, <3>2
    <2> HIDE DEF kept
    <2>2. QED
      BY <2>1
  <1>4. Nat \subseteq kept
    <2> HIDE DEF kept
    <2> QED
      BY <1>1, <1>3, Induct
  <1>5. QED
    BY <1>0, <1>4

(* Metrics answers, of each metric, the last record of its name in the list. *)
LEMMA MetricsStand ==
  ASSUME NEW list \in Seq(EvalRecord), NEW m \in MetricNames
  PROVE  Stands(list, m, Metrics(list)[m], Len(list))
  <1> DEFINE last[i \in 0..Len(list)] ==
        IF i = 0 THEN [x \in MetricNames |-> None]
        ELSE [last[i - 1] EXCEPT ![list[i].metric] = [passed |-> list[i].passed, seq |-> i]]
  <1>0. Len(list) \in Nat
    OBVIOUS
  <1>1. Metrics(list) = last[Len(list)]
    BY DEF Metrics
  <1>2. \E f : IsLoop(list, f, Len(list))
    BY <1>0, LoopExists
  <1>3. IsLoop(list, last, Len(list))
    BY <1>2 DEF IsLoop, Take
  <1> HIDE DEF last
  <1>4. QED
    BY <1>0, <1>1, <1>3, LoopStands

-----------------------------------------------------------------------------
(* Nothing is dropped in silence.                                          *)

(* Whether the problem has one of the codes of each check tells who reports
   it. *)
LEMMA ProblemsOf ==
  ASSUME NEW a, NEW b
  PROVE  /\ <<"milestone-unknown", a, b>> \in Problems
              <=> <<"milestone-unknown", a, b>> \in CheckMilestones
         /\ <<"milestone-past-due", a, b>> \in Problems
              <=> <<"milestone-past-due", a, b>> \in CheckMilestones
         /\ <<"requirement-unknown", a, b>> \in Problems
              <=> <<"requirement-unknown", a, b>> \in CheckRequirements
         /\ <<"requirement-uncovered", a, b>> \in Problems
              <=> <<"requirement-uncovered", a, b>> \in CheckRequirements
         /\ <<"requirement-duplicate", a, b>> \in Problems
              <=> <<"requirement-duplicate", a, b>> \in CheckRequirements
         /\ <<"metric-not-evidenced", a, b>> \in Problems
              <=> <<"metric-not-evidenced", a, b>> \in CheckMetrics
  <1>1. \A p \in CheckMilestones :
          p[1] \in {"milestone-unknown", "milestone-past-due", "milestone-empty"}
    BY DEF CheckMilestones
  <1>2. \A p \in CheckRequirements :
          p[1] \in {"requirement-unknown", "requirement-uncovered", "requirement-duplicate"}
    BY DEF CheckRequirements
  <1>3. \A p \in CheckMetrics : p[1] = "metric-not-evidenced"
    BY DEF CheckMetrics
  <1>4. /\ <<"milestone-unknown", a, b>>[1] = "milestone-unknown"
        /\ <<"milestone-past-due", a, b>>[1] = "milestone-past-due"
        /\ <<"requirement-unknown", a, b>>[1] = "requirement-unknown"
        /\ <<"requirement-uncovered", a, b>>[1] = "requirement-uncovered"
        /\ <<"requirement-duplicate", a, b>>[1] = "requirement-duplicate"
        /\ <<"metric-not-evidenced", a, b>>[1] = "metric-not-evidenced"
    OBVIOUS
  <1>5. QED
    BY <1>1, <1>2, <1>3, <1>4 DEF Problems

(* When doctor says that a task is late, and when not. *)
LEMMA LateTasks ==
  ASSUME NEW t
  PROVE  <<"milestone-past-due", "task", t>> \in Problems
           <=> /\ t \in TaskIds /\ tasks[t].status # "done"
               /\ Declared(MilestoneOf(t)) /\ Overdue(MilestoneOf(t))
  <1>1. <<"milestone-past-due", "task", t>> \in CheckMilestones
           <=> /\ t \in TaskIds /\ tasks[t].status # "done"
               /\ Declared(MilestoneOf(t)) /\ Overdue(MilestoneOf(t))
    BY DEF CheckMilestones
  <1>2. QED
    BY <1>1, ProblemsOf

(* A late task is offered behind late tasks only. *)
LEMMA LateFirst ==
  ASSUME TypeOK, NEW i \in DOMAIN Offered, NEW j \in DOMAIN Offered, i < j,
         <<"milestone-past-due", "task", Offered[j]>> \in Problems
  PROVE  <<"milestone-past-due", "task", Offered[i]>> \in Problems
  <1> DEFINE a == Offered[i]
             t == Offered[j]
  <1>1. a \in Ready /\ t \in Ready /\ Precedes(a, t)
    <2>1. Ready \in SUBSET TaskIds
      BY DEF Ready
    <2>2. QED
      BY <2>1, ByDueSorts DEF Offered
  <1>2. Declared(MilestoneOf(t)) /\ Overdue(MilestoneOf(t))
    BY LateTasks
  <1> HIDE DEF a, t
  <1>3. a \in TaskIds /\ t \in TaskIds /\ tasks[a].status = "ready"
    BY <1>1 DEF Ready
  <1>4. DueKey(t) = calendar[MilestoneOf(t)] /\ DueKey(t) < today
    BY <1>2 DEF DueKey, Overdue
  <1>5. today <= MaxDay /\ today \in Nat /\ MaxDay \in Nat
    BY BoundsAssumption DEF TypeOK
  <1>6. DueKey(a) <= DueKey(t) /\ DueKey(a) \in Nat /\ DueKey(t) \in Nat
    BY <1>1, <1>3, DueKeyType DEF Precedes
  <1>7. DueKey(a) < today /\ DueKey(a) <= MaxDay
    BY <1>4, <1>5, <1>6
  <1>8. Declared(MilestoneOf(a)) /\ Overdue(MilestoneOf(a))
    BY <1>3, <1>7, DueKeyType DEF Overdue
  <1>9. QED
    BY <1>3, <1>8, LateTasks DEF a

LEMMA CalendarTold ==
  ASSUME TypeOK, NEW t \in TaskIds
  PROVE  OnTheCalendar(t)
  <1> DEFINE s == tasks[t].spec
             named == {tasks[t].milestone} \cup {specs[x].milestone : x \in SpecIds \cap {s}}
  <1>1. \/ named = {None} \/ Declared(MilestoneOf(t))
        \/ <<"milestone-unknown", "task", t>> \in Problems
        \/ <<"milestone-unknown", "spec", s>> \in Problems
    <2>1. CASE tasks[t].milestone # None
      <3>1. MilestoneOf(t) = tasks[t].milestone
        BY <2>1 DEF MilestoneOf
      <3>2. CASE ~Declared(tasks[t].milestone)
        <4>1. <<"milestone-unknown", "task", t>> \in CheckMilestones
          BY <2>1, <3>2 DEF CheckMilestones
        <4>2. QED
          BY <4>1, ProblemsOf
      <3>3. QED
        BY <3>1, <3>2
    <2>2. CASE tasks[t].milestone = None /\ s \in SpecIds
      <3>1. MilestoneOf(t) = specs[s].milestone /\ named = {None, specs[s].milestone}
        BY <2>2 DEF MilestoneOf
      <3>2. CASE specs[s].milestone # None /\ ~Declared(specs[s].milestone)
        <4>1. <<"milestone-unknown", "spec", s>> \in CheckMilestones
          BY <2>2, <3>2 DEF CheckMilestones
        <4>2. QED
          BY <4>1, ProblemsOf
      <3>3. CASE specs[s].milestone = None
        BY <3>1, <3>3
      <3>4. QED
        BY <3>1, <3>2, <3>3
    <2>3. CASE tasks[t].milestone = None /\ s \notin SpecIds
      BY <2>3
    <2>4. QED
      BY <2>1, <2>2, <2>3
  <1>2. PackMilestone(t).id = MilestoneOf(t)
    BY DEF PackMilestone
  <1>3. QED
    BY <1>1, <1>2, LateFirst DEF OnTheCalendar

-----------------------------------------------------------------------------
(* The matrix.                                                             *)

LEMMA CoveringPlaces ==
  ASSUME NEW r, NEW t \in TaskIds, NEW i
  PROVE  <<t, i>> \in Covering(r) <=> i \in DOMAIN tasks[t].covers /\ tasks[t].covers[i] = r
  BY DEF Covering

LEMMA UnknownReqs ==
  ASSUME NEW t \in TaskIds, NEW r
  PROVE  <<"requirement-unknown", t, r>> \in Problems
           <=> r \in Range(tasks[t].covers) /\ Owners(r) = {}
  <1>1. <<"requirement-unknown", t, r>> \in CheckRequirements
           <=> r \in Range(tasks[t].covers) /\ Owners(r) = {}
    BY DEF CheckRequirements
  <1>2. QED
    BY <1>1, ProblemsOf

LEMMA CoversTold ==
  ASSUME TypeOK, NEW t \in TaskIds
  PROVE  InTheMatrix(t)
  <1> SUFFICES ASSUME NEW i \in DOMAIN tasks[t].covers,
                      <<"requirement-unknown", t, tasks[t].covers[i]>> \notin Problems
               PROVE  LET r == tasks[t].covers[i]
                          row == [spec |-> PackRequirements(t)[i].from, req |-> r,
                                  tasks |-> Covering(r)]
                      IN  row \in Cover /\ \E place \in row.tasks : place[1] = t
    BY DEF InTheMatrix
  <1> DEFINE r == tasks[t].covers[i]
             from == CHOOSE s \in Owners(r) : \A o \in Owners(r) : s <= o
  <1>1. Owners(r) # {}
    <2>1. r \in Range(tasks[t].covers)
      BY DEF Range
    <2>2. QED
      BY <2>1, UnknownReqs
  <1>2. from \in Owners(r)
    <2>1. Owners(r) \in SUBSET Nat
      BY DEF Owners, SpecIds
    <2>2. \E s \in Owners(r) : \A o \in Owners(r) : s <= o
      BY <1>1, <2>1, FirstExists
    <2>3. QED
      BY <2>2
  <1>3. PackRequirements(t)[i].from = from
    BY <1>1 DEF PackRequirements
  <1>4. [spec |-> from, req |-> r, tasks |-> Covering(r)] \in Cover
    <2>1. from \in SpecIds /\ r \in specs[from].reqs
      BY <1>2 DEF Owners
    <2> HIDE DEF from, r
    <2>2. QED
      BY <2>1 DEF Cover
  <1>5. <<t, i>> \in Covering(r) /\ <<t, i>>[1] = t
    BY CoveringPlaces
  <1>6. QED
    BY <1>3, <1>4, <1>5

LEMMA RowsTold == ASSUME TypeOK PROVE MatrixTold
  <1> SUFFICES ASSUME NEW row \in Cover
               PROVE  /\ row.tasks = {} <=> <<"requirement-uncovered", "req", row.req>> \in Problems
                      /\ \A other \in Cover : other.req = row.req /\ other # row =>
                           /\ other.tasks = row.tasks
                           /\ <<"requirement-duplicate", "req", row.req>> \in Problems
    BY DEF MatrixTold
  <1>1. ASSUME NEW x \in Cover
        PROVE  /\ x = [spec |-> x.spec, req |-> x.req, tasks |-> Covering(x.req)]
               /\ x.spec \in Owners(x.req) /\ x.req \in Reqs
    <2>0. PICK s \in SpecIds :
            \E r \in specs[s].reqs : x = [spec |-> s, req |-> r, tasks |-> Covering(r)]
      BY <1>1 DEF Cover
    <2>1. PICK r \in specs[s].reqs : x = [spec |-> s, req |-> r, tasks |-> Covering(r)]
      BY <2>0
    <2>2. x.spec = s /\ x.req = r /\ r \in Reqs
      BY <2>1 DEF TypeOK, SpecRecord
    <2>3. QED
      BY <2>1, <2>2 DEF Owners
  <1>2. row.tasks = {} <=> \A t \in TaskIds : row.req \notin Range(tasks[t].covers)
    <2>1. row.tasks = Covering(row.req)
      BY <1>1
    <2>2. ASSUME NEW t \in TaskIds, row.req \in Range(tasks[t].covers)
          PROVE  Covering(row.req) # {}
      <3>1. PICK i \in DOMAIN tasks[t].covers : tasks[t].covers[i] = row.req
        BY <2>2 DEF Range
      <3>2. <<t, i>> \in Covering(row.req)
        BY <3>1, CoveringPlaces
      <3>3. QED
        BY <3>2
    <2>3. ASSUME NEW place \in Covering(row.req)
          PROVE  \E t \in TaskIds : row.req \in Range(tasks[t].covers)
      BY <2>3 DEF Covering, Range
    <2>4. QED
      BY <2>1, <2>2, <2>3
  <1>3. <<"requirement-uncovered", "req", row.req>> \in Problems
          <=> \A t \in TaskIds : row.req \notin Range(tasks[t].covers)
    <2>1. <<"requirement-uncovered", "req", row.req>> \in CheckRequirements
            <=> \A t \in TaskIds : row.req \notin Range(tasks[t].covers)
      BY <1>1 DEF CheckRequirements
    <2>2. QED
      BY <2>1, ProblemsOf
  <1>4. ASSUME NEW other \in Cover, other.req = row.req, other # row
        PROVE  /\ other.tasks = row.tasks
               /\ <<"requirement-duplicate", "req", row.req>> \in Problems
    <2>1. other.tasks = row.tasks /\ other.spec # row.spec
      BY <1>1, <1>4
    <2>2. row.spec \in Owners(row.req) /\ other.spec \in Owners(row.req)
      BY <1>1, <1>4
    <2>3. IsFiniteSet(Owners(row.req)) /\ Cardinality(Owners(row.req)) \in Nat
      <3>1. IsFiniteSet(SpecIds)
        BY BoundsAssumption, FS_Interval DEF SpecIds
      <3>2. Owners(row.req) \in SUBSET SpecIds
        BY DEF Owners
      <3>3. QED
        BY <3>1, <3>2, FS_Subset, FS_CardinalityType
    <2>4. Cardinality(Owners(row.req)) > 1
      <3>1. Cardinality(Owners(row.req)) # 0
        BY <2>2, <2>3, FS_EmptySet
      <3>2. Cardinality(Owners(row.req)) # 1
        BY <2>1, <2>2, <2>3, FS_Singleton
      <3>3. QED
        BY <2>3, <3>1, <3>2
    <2>5. <<"requirement-duplicate", "req", row.req>> \in CheckRequirements
      BY <1>1, <2>4 DEF CheckRequirements
    <2>6. QED
      BY <2>1, <2>5, ProblemsOf
  <1>5. QED
    BY <1>2, <1>3, <1>4

-----------------------------------------------------------------------------
LEMMA GatesTold ==
  ASSUME TypeOK, NEW t \in TaskIds
  PROVE  NumbersStand(t)
  <1> DEFINE list == evals[t]
  <1>1. list \in Seq(EvalRecord) /\ DOMAIN list = 1..Len(list) /\ Len(list) \in Nat
    BY DEF TypeOK
  <1>2. \A m \in MetricNames : Stands(list, m, PackMetrics(t)[m], Len(list))
    BY <1>1, MetricsStand DEF PackMetrics
  <1>3. ASSUME NEW m \in MetricNames
        PROVE  PackMetrics(t)[m] = None <=> \A i \in DOMAIN list : list[i].metric # m
    <2>1. CASE PackMetrics(t)[m] = None
      <3>1. PackMetrics(t)[m] \notin Number
        BY <2>1, NoneAssumption
      <3>2. QED
        BY <1>1, <1>2, <2>1, <3>1 DEF Stands
    <2>2. CASE PackMetrics(t)[m] # None
      <3>1. PICK at \in 1..Len(list) :
              list[at] = [metric |-> m, passed |-> PackMetrics(t)[m].passed]
        BY <1>2, <2>2 DEF Stands
      <3>2. QED
        BY <1>1, <2>2, <3>1
    <2>3. QED
      BY <2>1, <2>2
  <1>4. ASSUME tasks[t].status \in {"review", "done"}, NEW m \in Range(tasks[t].gates)
        PROVE  PackMetrics(t)[m] # None
                 <=> <<"metric-not-evidenced", t, m>> \notin Problems
    <2>1. m \in MetricNames
      BY DEF TypeOK, TaskRecord, Range
    <2>2. <<"metric-not-evidenced", t, m>> \in CheckMetrics
            <=> \A i \in DOMAIN list : list[i].metric # m
      BY <1>4 DEF CheckMetrics
    <2>3. QED
      BY <1>3, <2>1, <2>2, ProblemsOf
  <1>5. ASSUME NEW m \in MetricNames, PackMetrics(t)[m] # None
        PROVE  LET at == PackMetrics(t)[m].seq
               IN  /\ list[at] = [metric |-> m, passed |-> PackMetrics(t)[m].passed]
                   /\ \A i \in DOMAIN list : i > at => list[i].metric # m
    BY <1>1, <1>2, <1>5 DEF Stands
  <1>6. QED
    BY <1>4, <1>5 DEF NumbersStand

(* What a task says of where it belongs or has to reach is in the calendar,
   the order of work, the matrix and the pack, or doctor says why it is not:
   MilestoneOf, ByDue, Cover, Metrics and the checks of doctor agree, whatever
   specs and tasks name, and whatever is moved, measured or taken off the
   calendar. *)
THEOREM NothingIsDropped == Spec => []NothingDropped
  <1>1. TypeOK => NothingDropped
    BY CalendarTold, CoversTold, RowsTold, GatesTold DEF NothingDropped
  <1>2. QED
    BY <1>1, TypeCorrect, PTL
=============================================================================
