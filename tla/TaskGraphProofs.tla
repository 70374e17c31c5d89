-------------------------- MODULE TaskGraphProofs ---------------------------
(***************************************************************************)
(* Theorems about TaskGraph, for any number of tasks: Kahn's algorithm     *)
(* answers the canonical order exactly when GraphOK holds, and a project   *)
(* whose tasks wait only on each other always has one to offer.            *)
(***************************************************************************)
EXTENDS TaskGraph, FiniteSetTheorems, SequenceTheorems, WellFoundedInduction, TLAPS

LEMMA PresentFinite ==
  /\ IsFiniteSet(Ids) /\ IsFiniteSet(Present(ts))
  /\ Present(ts) \subseteq Ids
  /\ \A i : IsFiniteSet(LocalDeps(ts, i))
  <1>1. IsFiniteSet(Ids)
    BY MaxTaskAssumption, FS_Interval DEF Ids
  <1>2. QED
    BY <1>1, FS_Subset DEF Present, LocalDeps

(* What a sequence holds after one more. *)
LEMMA HeldAppend ==
  ASSUME NEW S, NEW s \in Seq(S), NEW x \in S
  PROVE  Held(Append(s, x)) = Held(s) \cup {x}
  <1>1. /\ DOMAIN s = 1..Len(s) /\ Len(s) \in Nat
        /\ DOMAIN Append(s, x) = 1..(Len(s) + 1)
    BY AppendProperties, LenProperties
  <1>2. \A k \in 1..(Len(s) + 1) :
          Append(s, x)[k] = IF k = Len(s) + 1 THEN x ELSE s[k]
    BY <1>1, AppendProperties
  <1>3. ASSUME NEW y \in Held(Append(s, x)) PROVE y \in Held(s) \cup {x}
    BY <1>1, <1>2, <1>3 DEF Held
  <1>4. ASSUME NEW y \in Held(s) PROVE y \in Held(Append(s, x))
    <2>1. PICK k \in 1..Len(s) : y = s[k]
      BY <1>1, <1>4 DEF Held
    <2>2. k \in 1..(Len(s) + 1) /\ Append(s, x)[k] = y
      BY <1>1, <1>2, <2>1
    <2>3. QED
      BY <1>1, <2>2 DEF Held
  <1>5. x \in Held(Append(s, x))
    <2>1. Len(s) + 1 \in 1..(Len(s) + 1)
      BY <1>1
    <2>2. QED
      BY <1>1, <1>2, <2>1 DEF Held
  <1>6. QED
    BY <1>3, <1>4, <1>5

LEMMA HeldType ==
  ASSUME NEW S, NEW s \in Seq(S)
  PROVE  /\ Held(s) \subseteq S
         /\ Held(s) = {s[j] : j \in 1..Len(s)}
  BY LenProperties DEF Held

-----------------------------------------------------------------------------
(* The invariant, with what the answer means. *)
IInv == KahnInv /\ Canonical /\ AnswerRight

LEMMA IInvInit == Init => IInv
  <1> SUFFICES ASSUME Init PROVE IInv
    OBVIOUS
  <1>1. TypeOK
    <2>1. ts \in [Ids -> Doc \cup {NoTask}] /\ <<>> \in Seq(Present(ts))
      BY ProjectsAssumption DEF Init
    <2>2. 0 \in 0..MaxTask
      BY MaxTaskAssumption
    <2>3. QED
      BY <2>1, <2>2 DEF Init, TypeOK
  <1>2. Held(order) = {} /\ Len(order) = 0 /\ Cardinality({}) = 0
    BY FS_EmptySet DEF Init, Held
  <1>3. KahnInv
    BY <1>1, <1>2 DEF Init, KahnInv
  <1>4. Canonical
    BY <1>2 DEF Canonical
  <1>5. AnswerRight
    BY DEF Init, AnswerRight
  <1>6. QED
    BY <1>3, <1>4, <1>5 DEF IInv

(* The number of dependencies of a task is a number of tasks. *)
LEMMA CountType ==
  ASSUME NEW i
  PROVE  Cardinality(LocalDeps(ts, i)) \in 0..MaxTask
  <1>1. LocalDeps(ts, i) \subseteq Ids /\ IsFiniteSet(Ids)
    BY PresentFinite DEF LocalDeps
  <1>2. Cardinality(Ids) = MaxTask
    BY MaxTaskAssumption, FS_Interval DEF Ids
  <1>3. Cardinality(LocalDeps(ts, i)) <= MaxTask
    BY <1>1, <1>2, FS_Subset
  <1>4. Cardinality(LocalDeps(ts, i)) \in Nat
    BY PresentFinite, FS_CardinalityType
  <1>5. QED
    BY <1>3, <1>4, MaxTaskAssumption

LEMMA CountStep == IInv /\ Count => IInv'
  <1> SUFFICES ASSUME IInv, Count PROVE IInv'
    OBVIOUS
  <1>1. order = <<>> /\ ready = {} /\ TypeOK /\ NoneMissing(ts)
    BY DEF IInv, KahnInv, Count
  <1>2. Held(order) = {} /\ Len(order) = 0 /\ Cardinality({}) = 0
    BY <1>1, FS_EmptySet DEF Held
  <1>3. ts' = ts /\ order' = order /\ phase' = "sort"
    BY DEF Count
  <1>4. \A i \in Present(ts) : indeg'[i] = Cardinality(LocalDeps(ts, i))
    BY PresentFinite DEF Count
  <1>5. TypeOK'
    <2>1. indeg' \in [Ids -> 0..MaxTask]
      BY CountType, MaxTaskAssumption DEF Count
    <2>2. QED
      BY <1>1, <1>3, <2>1 DEF Count, TypeOK, Present
  <1>6. \A i : OpenDeps(i)' = LocalDeps(ts, i)
    BY <1>2, <1>3 DEF OpenDeps, Held, LocalDeps
  <1>7. ready' = {i \in Present(ts) : LocalDeps(ts, i) = {}}
    <2>1. \A i \in Present(ts) : indeg'[i] = 0 <=> LocalDeps(ts, i) = {}
      BY <1>4, PresentFinite, FS_EmptySet
    <2>2. QED
      BY <2>1 DEF Count
  <1>8. Held(order)' = {} /\ Present(ts)' = Present(ts)
    BY <1>2, <1>3 DEF Held, Present
  <1>9. KahnInv'
    BY <1>1, <1>2, <1>3, <1>4, <1>5, <1>6, <1>7, <1>8
       DEF KahnInv, NoneMissing, Present, LocalDeps
  <1>10. Canonical'
    BY <1>2, <1>3 DEF Canonical
  <1>11. AnswerRight'
    BY <1>3 DEF AnswerRight
  <1>12. QED
    BY <1>9, <1>10, <1>11 DEF IInv

(* Placing the smallest task that waits on nothing. *)
LEMMA PickStep == IInv /\ Pick => IInv'
  <1> SUFFICES ASSUME IInv, Pick PROVE IInv'
    OBVIOUS
  <1>1. PICK id \in Ids :
          /\ Smallest(ready, id)
          /\ order' = Append(order, id)
          /\ indeg' = [j \in Ids |-> IF j \in Waiting(id)
                                     THEN indeg[j] - 1 ELSE indeg[j]]
          /\ ready' = (ready \ {id}) \cup {j \in Waiting(id) : indeg'[j] = 0}
    BY DEF Pick
  <1>2. /\ TypeOK /\ phase = "sort" /\ NoneMissing(ts) /\ order \in Seq(Present(ts))
        /\ \A i \in Present(ts) : indeg[i] = Cardinality(OpenDeps(i))
        /\ ready = {i \in Present(ts) \ Held(order) : OpenDeps(i) = {}}
    BY DEF IInv, KahnInv, TypeOK, Pick
  <1>3. ts' = ts /\ phase' = "sort" /\ resolved' = resolved
    BY <1>2 DEF Pick
  <1>4. id \in Present(ts) \ Held(order) /\ OpenDeps(id) = {}
    BY <1>1, <1>2 DEF Smallest
  <1>5. Held(order)' = Held(order) \cup {id} /\ Held(order) \subseteq Present(ts)
    BY <1>1, <1>2, <1>4, HeldAppend, HeldType DEF Held
  <1>6. /\ \A i : IsFiniteSet(OpenDeps(i)) /\ OpenDeps(i) \subseteq LocalDeps(ts, i)
        /\ Present(ts)' = Present(ts)
        /\ \A i : LocalDeps(ts, i)' = LocalDeps(ts, i)
    BY <1>3, PresentFinite, FS_Subset DEF OpenDeps, Present, LocalDeps
  <1>7. \A i : OpenDeps(i)' = OpenDeps(i) \ {id}
    BY <1>5, <1>6 DEF OpenDeps
  <1>8. ASSUME NEW i \in Present(ts) PROVE indeg'[i] = Cardinality(OpenDeps(i)')
    <2>1. i \in Ids
      BY PresentFinite
    <2>2. i \in Waiting(id) <=> id \in OpenDeps(i)
      BY <1>4 DEF Waiting, OpenDeps
    <2>3. Cardinality(OpenDeps(i) \ {id}) =
            IF id \in OpenDeps(i) THEN Cardinality(OpenDeps(i)) - 1
                                  ELSE Cardinality(OpenDeps(i))
      BY <1>6, FS_RemoveElement
    <2>4. QED
      BY <1>1, <1>2, <1>7, <2>1, <2>2, <2>3
  <1>9. ready' = {i \in Present(ts) \ (Held(order) \cup {id}) : OpenDeps(i)' = {}}
    <2>1. \A i \in Present(ts) : indeg'[i] = 0 <=> OpenDeps(i)' = {}
      <3>1. \A i : IsFiniteSet(OpenDeps(i)')
        BY <1>6, <1>7, FS_RemoveElement
      <3>2. QED
        BY <1>8, <3>1, FS_EmptySet
    <2>2. \A i \in Waiting(id) : i \in Present(ts) /\ i # id /\ i \notin Held(order)
      <3>1. \A i \in Held(order) : LocalDeps(ts, i) \subseteq Held(order)
        BY DEF IInv, KahnInv
      <3>2. id \notin LocalDeps(ts, id)
        BY <1>4 DEF OpenDeps
      <3>3. QED
        BY <1>4, <3>1, <3>2 DEF Waiting
    <2>3. \A i \in Present(ts) \ Waiting(id) : OpenDeps(i)' = OpenDeps(i)
      BY <1>7 DEF Waiting, OpenDeps
    <2>4. \A i \in ready : i \notin Waiting(id)
      BY <1>2, <1>4 DEF Waiting, OpenDeps
    <2>5. QED
      BY <1>1, <1>2, <2>1, <2>2, <2>3, <2>4
  <1>10. TypeOK'
    <2>1. order' \in Seq(Present(ts)')
      BY <1>1, <1>2, <1>4, <1>6, AppendProperties
    <2>2. ready' \subseteq Present(ts)'
      BY <1>6, <1>9
    <2>3. indeg' \in [Ids -> 0..MaxTask]
      <3>1. ASSUME NEW j \in Ids PROVE indeg'[j] \in 0..MaxTask
        <4>1. CASE j \in Waiting(id)
          <5>1. j \in Present(ts) /\ id \in OpenDeps(j)
            BY <1>4, <4>1 DEF Waiting, OpenDeps
          <5>2. indeg[j] # 0
            BY <1>2, <1>6, <5>1, FS_EmptySet
          <5>3. indeg[j] \in 0..MaxTask
            BY <1>2 DEF TypeOK
          <5>4. QED
            BY <1>1, <4>1, <5>2, <5>3, MaxTaskAssumption
        <4>2. CASE j \notin Waiting(id)
          BY <1>1, <1>2, <4>2 DEF TypeOK
        <4>3. QED
          BY <4>1, <4>2
      <3>2. QED
        BY <1>1, <3>1
    <2>4. QED
      BY <1>2, <1>3, <2>1, <2>2, <2>3 DEF TypeOK
  <1>11. Cardinality(Held(order)') = Len(order')
    <2>1. IsFiniteSet(Held(order)) /\ id \notin Held(order)
      BY <1>4, <1>5, PresentFinite, FS_Subset
    <2>2. Len(order') = Len(order) + 1
      BY <1>1, <1>2, <1>4, AppendProperties
    <2>3. Cardinality(Held(order)) = Len(order)
      BY DEF IInv, KahnInv
    <2>4. QED
      BY <1>5, <2>1, <2>2, <2>3, FS_AddElement
  <1>12. \A i \in Held(order)' : LocalDeps(ts, i)' \subseteq Held(order)'
    BY <1>4, <1>5, <1>6 DEF IInv, KahnInv, OpenDeps
  <1>13. ASSUME NEW S \in SUBSET Present(ts), S \cap Held(order)' # {}
         PROVE  \E i \in S : LocalDeps(ts, i) \cap S = {}
    <2>1. CASE S \cap Held(order) # {}
      BY <2>1 DEF IInv, KahnInv
    <2>2. CASE S \cap Held(order) = {}
      <3>1. id \in S
        BY <1>5, <1>13, <2>2
      <3>2. LocalDeps(ts, id) \subseteq Held(order)
        BY <1>4 DEF OpenDeps
      <3>3. QED
        BY <2>2, <3>1, <3>2
    <2>3. QED
      BY <2>1, <2>2
  <1>14. KahnInv'
    <2>1. NoneMissing(ts)'
      BY <1>2, <1>3 DEF NoneMissing, Present, LocalDeps
    <2>2. QED
      BY <1>3, <1>5, <1>6, <1>8, <1>9, <1>10, <1>11, <1>12, <1>13, <2>1
         DEF KahnInv
  <1>15. Canonical'
    <2>1. /\ Len(order) \in Nat /\ Len(order') = Len(order) + 1
          /\ \A k \in 1..Len(order) : order'[k] = order[k]
          /\ order'[Len(order) + 1] = id
      BY <1>1, <1>2, <1>4, AppendProperties, LenProperties
    <2> SUFFICES ASSUME NEW k \in 1..Len(order')
                 PROVE  LET before == {order'[j] : j \in 1..(k - 1)}
                        IN  Smallest({i \in Present(ts) \ before :
                                        LocalDeps(ts, i) \subseteq before},
                                     order'[k])
      BY <1>6 DEF Canonical, Smallest
    <2>2. {order'[j] : j \in 1..(k - 1)} = {order[j] : j \in 1..(k - 1)}
      <3>1. \A j \in 1..(k - 1) : order'[j] = order[j]
        BY <2>1
      <3>2. QED
        BY <3>1
    <2>3. CASE k \in 1..Len(order)
      BY <2>1, <2>2, <2>3 DEF IInv, Canonical
    <2>4. CASE k = Len(order) + 1
      <3>1. {order[j] : j \in 1..(k - 1)} = Held(order)
        BY <1>2, <2>1, <2>4, HeldType
      <3>2. ready = {i \in Present(ts) \ Held(order) :
                       LocalDeps(ts, i) \subseteq Held(order)}
        BY <1>2 DEF OpenDeps
      <3>3. QED
        BY <1>1, <2>1, <2>2, <2>4, <3>1, <3>2
    <2>5. QED
      BY <2>1, <2>3, <2>4
  <1>16. AnswerRight'
    BY <1>3 DEF AnswerRight
  <1>17. QED
    BY <1>14, <1>15, <1>16 DEF IInv

(* A step that leaves the tasks and the order alone keeps what is said of
   them. *)
LEMMA OrderKept ==
  ASSUME ts' = ts, order' = order
  PROVE  /\ Held(order)' = Held(order)
         /\ Present(ts)' = Present(ts)
         /\ NoneMissing(ts)' = NoneMissing(ts)
         /\ Acyclic(ts)' = Acyclic(ts)
         /\ \A i : LocalDeps(ts, i)' = LocalDeps(ts, i)
         /\ \A i : OpenDeps(i)' = OpenDeps(i)
  BY DEF Held, Present, LocalDeps, NoneMissing, Acyclic, OpenDeps

LEMMA CanonicalKept ==
  ASSUME ts' = ts, order' = order, Canonical
  PROVE  Canonical'
  <1> SUFFICES ASSUME NEW k \in 1..Len(order)
               PROVE  LET before == {order'[j] : j \in 1..(k - 1)}
                      IN  Smallest({i \in Present(ts)' \ before :
                                      LocalDeps(ts, i)' \subseteq before},
                                   order'[k])
    BY DEF Canonical, Smallest
  <1>1. {order'[j] : j \in 1..(k - 1)} = {order[j] : j \in 1..(k - 1)}
    OBVIOUS
  <1>2. QED
    BY <1>1, OrderKept DEF Canonical, Smallest

(* When nothing is ready, what is left over is a cycle, or nothing. *)
LEMMA FinishStep == IInv /\ Finish => IInv'
  <1> SUFFICES ASSUME IInv, Finish PROVE IInv'
    OBVIOUS
  <1>1. /\ TypeOK /\ phase = "sort" /\ ready = {} /\ NoneMissing(ts)
        /\ order \in Seq(Present(ts))
        /\ ready = {i \in Present(ts) \ Held(order) : OpenDeps(i) = {}}
        /\ Cardinality(Held(order)) = Len(order)
    BY DEF IInv, KahnInv, TypeOK, Finish
  <1>2. /\ ts' = ts /\ order' = order /\ indeg' = indeg /\ ready' = ready
        /\ resolved' = resolved
        /\ phase' = IF Len(order) = Cardinality(Present(ts)) THEN "graph" ELSE "cycle"
    BY DEF Finish
  <1>3. Held(order) \subseteq Present(ts)
    BY <1>1, HeldType
  <1>4. CASE phase' = "graph"
    <2>1. Held(order) = Present(ts)
      <3>1. Cardinality(Present(ts)) = Cardinality(Held(order))
        BY <1>1, <1>2, <1>4
      <3>2. QED
        BY <1>3, <3>1, PresentFinite, FS_Subset
    <2>2. Acyclic(ts)
      BY <2>1 DEF Acyclic, IInv, KahnInv
    <2>3. AnswerRight'
      BY <1>1, <1>2, <1>4, <2>1, <2>2
         DEF AnswerRight, GraphOK, Acyclic, NoneMissing, Present, LocalDeps, Held
    <2>4. KahnInv'
      BY <1>1, <1>2, <1>4, OrderKept DEF IInv, KahnInv, TypeOK, Answers
    <2>5. Canonical'
      BY <1>2, CanonicalKept DEF IInv
    <2>6. QED
      BY <2>3, <2>4, <2>5 DEF IInv
  <1>5. CASE phase' = "cycle"
    <2>1. Held(order) # Present(ts)
      BY <1>1, <1>2, <1>5
    <2> DEFINE left == Present(ts) \ Held(order)
    <2>2. left # {} /\ left \in SUBSET Present(ts)
      BY <1>3, <2>1
    <2>3. ASSUME NEW i \in left PROVE LocalDeps(ts, i) \cap left # {}
      <3>1. OpenDeps(i) # {}
        BY <1>1, <2>3
      <3>2. LocalDeps(ts, i) \subseteq Present(ts)
        BY <1>1, <2>3 DEF NoneMissing
      <3>3. QED
        BY <3>1, <3>2 DEF OpenDeps
    <2>4. ~Acyclic(ts)
      BY <2>2, <2>3 DEF Acyclic
    <2>5. AnswerRight'
      BY <1>1, <1>2, <1>5, <2>4
         DEF AnswerRight, Acyclic, NoneMissing, Present, LocalDeps
    <2>6. KahnInv'
      BY <1>1, <1>2, <1>5, OrderKept DEF IInv, KahnInv, TypeOK, Answers
    <2>7. Canonical'
      BY <1>2, CanonicalKept DEF IInv
    <2>8. QED
      BY <2>5, <2>6, <2>7 DEF IInv
  <1>6. QED
    BY <1>2, <1>4, <1>5

LEMMA MissingStep == IInv /\ Missing => IInv'
  <1> SUFFICES ASSUME IInv, Missing PROVE IInv'
    OBVIOUS
  <1>1. /\ ts' = ts /\ order' = order /\ indeg' = indeg /\ ready' = ready
        /\ resolved' = resolved /\ phase' = "missing" /\ ~NoneMissing(ts)
    BY DEF Missing
  <1>2. KahnInv'
    BY <1>1, OrderKept DEF IInv, KahnInv, TypeOK, Answers
  <1>3. Canonical'
    BY <1>1, CanonicalKept DEF IInv
  <1>4. AnswerRight'
    BY <1>1 DEF AnswerRight, NoneMissing, Present, LocalDeps
  <1>5. QED
    BY <1>2, <1>3, <1>4 DEF IInv

LEMMA StutterStep == IInv /\ UNCHANGED vars => IInv'
  <1> SUFFICES ASSUME IInv, UNCHANGED vars PROVE IInv'
    OBVIOUS
  <1>1. KahnInv'
    BY OrderKept DEF vars, IInv, KahnInv, TypeOK
  <1>2. Canonical'
    BY CanonicalKept DEF vars, IInv
  <1>3. AnswerRight'
    BY OrderKept DEF vars, IInv, AnswerRight, GraphOK
  <1>4. QED
    BY <1>1, <1>2, <1>3 DEF IInv

LEMMA Inductive == Spec => []IInv
  <1>1. IInv /\ [Next]_vars => IInv'
    BY CountStep, PickStep, FinishStep, MissingStep, StutterStep DEF Next
  <1>2. QED
    BY <1>1, IInvInit, PTL DEF Spec

-----------------------------------------------------------------------------
(* The invariant the loop of NewGraphWith keeps: the counters count the
   dependencies that are not placed, the queue holds the tasks without one,
   and no group of tasks that reaches into the order is a cycle. *)
THEOREM LoopInvariant == Spec => []KahnInv
  <1>1. IInv => KahnInv
    BY DEF IInv
  <1>2. QED
    BY <1>1, Inductive, PTL

(* The order of the graph is the one its definition names: each task is the
   smallest of those whose dependencies all come before it. *)
THEOREM OrderIsCanonical == Spec => []Canonical
  <1>1. IInv => Canonical
    BY DEF IInv
  <1>2. QED
    BY <1>1, Inductive, PTL

(* NewGraphWith answers a graph exactly when no dependency is missing and
   there is no cycle, for any number of tasks. *)
THEOREM AnswerIsGraphOK == Spec => []AnswerRight
  <1>1. IInv => AnswerRight
    BY DEF IInv
  <1>2. QED
    BY <1>1, Inductive, PTL

(* Whatever GraphOK accepts can be worked through: among the tasks that are
   not done there is one with no open dependency, unless another repository
   is waited for.  This is why a project never halts by its own graph. *)
THEOREM NeverStuck ==
  ASSUME NEW files \in [Ids -> Doc \cup {NoTask}], GraphOK(files),
         \A i \in Present(files) : files[i].deps \subseteq Ids,
         \E i \in Present(files) : files[i].status # "done"
  PROVE  \E i \in Present(files) :
           files[i].status # "done" /\ Blockers(files, i) = {}
  <1> DEFINE left == {i \in Present(files) : files[i].status # "done"}
  <1>1. left # {} /\ left \in SUBSET Present(files)
    OBVIOUS
  <1>2. PICK i \in left : LocalDeps(files, i) \cap left = {}
    BY <1>1 DEF GraphOK, Acyclic
  <1>3. ASSUME NEW d \in files[i].deps
        PROVE  d \in Ids /\ files[d] # NoTask /\ files[d].status = "done"
    <2>1. d \in LocalDeps(files, i)
      BY <1>3 DEF LocalDeps
    <2>2. d \in Present(files)
      BY <2>1 DEF GraphOK, NoneMissing
    <2>3. QED
      BY <1>2, <2>1, <2>2 DEF Present
  <1>4. Blockers(files, i) = {}
    BY <1>2, <1>3 DEF Blockers, Present
  <1>5. QED
    BY <1>2, <1>4

-----------------------------------------------------------------------------
(* What is scheduled from the graph.                                       *)

(* In a graph every task has its place in the order, and every place a task. *)
LEMMA GraphOrder ==
  ASSUME IInv, phase = "graph"
  PROVE  /\ TypeOK /\ NoneMissing(ts) /\ Acyclic(ts)
         /\ \A k \in DOMAIN order : order[k] \in Present(ts)
         /\ \A i \in Present(ts) : \E k \in DOMAIN order : order[k] = i
  BY HeldType DEF IInv, KahnInv, AnswerRight, GraphOK, Held, TypeOK

(* A project whose tasks are all ready or done, with its remote dependencies
   done, is offered a task by Graph.Ready until all are done: it never comes
   to a halt by its dependencies alone, whatever the graph. *)
THEOREM AlwaysSomethingToDo == Spec => []SomethingToDo
  <1>1. IInv => SomethingToDo
    <2> SUFFICES ASSUME IInv, phase = "graph",
                        \A i \in Present(ts) :
                          /\ ts[i].status \in {"ready", "done"}
                          /\ ts[i].deps \ Ids \subseteq resolved,
                        \E i \in Present(ts) : ts[i].status # "done"
                 PROVE  Ready # {}
      BY DEF SomethingToDo
    <2> DEFINE left == {i \in Present(ts) : ts[i].status # "done"}
    <2>1. PICK i \in left : LocalDeps(ts, i) \cap left = {}
      <3>1. left # {} /\ left \in SUBSET Present(ts)
        OBVIOUS
      <3>2. QED
        BY <3>1, GraphOrder DEF Acyclic
    <2>2. ASSUME NEW d \in ts[i].deps, d \in Ids
          PROVE  ts[d] # NoTask /\ ts[d].status = "done"
      <3>1. d \in LocalDeps(ts, i)
        BY <2>2 DEF LocalDeps
      <3>2. d \in Present(ts)
        BY <3>1, GraphOrder DEF NoneMissing
      <3>3. QED
        BY <2>1, <3>1, <3>2 DEF Present
    <2>3. Offered(i)
      BY <2>1, <2>2 DEF Offered, OpenFor
    <2>4. PICK k \in DOMAIN order : order[k] = i
      BY GraphOrder
    <2>5. QED
      BY <2>3, <2>4 DEF Ready
  <1>2. QED
    BY <1>1, Inductive, PTL

(* What the graph of one project is about when it offers a task. *)
OfferedLocally == {k \in Ready : ts[order[k]].deps \subseteq Ids}

(* A task that Graph.Ready offers and that waits on no other repository is
   one that Store.Move starts: within a project the scheduler and the guard of
   the move agree.  (For a task that does wait on another repository they do
   not: OfferedStarts fails.) *)
THEOREM OfferedCanStart ==
  Spec => [](phase = "graph" =>
               \A k \in OfferedLocally :
                 /\ Blockers(ts, order[k]) = {}
                 /\ CanMoveTo(ts[order[k]].status, "running"))
  <1> DEFINE Starts ==
        phase = "graph" =>
          \A k \in OfferedLocally : /\ Blockers(ts, order[k]) = {}
                                    /\ CanMoveTo(ts[order[k]].status, "running")
  <1>1. IInv => Starts
    <2> SUFFICES ASSUME IInv, phase = "graph", NEW k \in OfferedLocally
                 PROVE  /\ Blockers(ts, order[k]) = {}
                        /\ CanMoveTo(ts[order[k]].status, "running")
      OBVIOUS
    <2>1. /\ Offered(order[k]) /\ order[k] \in Present(ts)
          /\ ts[order[k]].deps \subseteq Ids
      BY GraphOrder DEF OfferedLocally, Ready
    <2>2. \A d \in ts[order[k]].deps :
            ~(ts[d] = NoTask \/ ts[d].status # "done")
      BY <2>1 DEF Offered, OpenFor
    <2>3. Blockers(ts, order[k]) = {}
      BY <2>1, <2>2 DEF Blockers, Present
    <2>4. CanMoveTo("ready", "running")
      BY DEF CanMoveTo, Transitions
    <2>5. QED
      BY <2>1, <2>3, <2>4 DEF Offered
  <1>2. QED
    BY <1>1, Inductive, PTL

-----------------------------------------------------------------------------
(* The call ends: the loop always has a next step, and each step leaves    *)
(* less to do.                                                             *)

(* There is a first among some tasks: < is well founded. *)
LEMMA FirstExists ==
  ASSUME NEW S, S \subseteq Nat, S # {}
  PROVE  \E n \in S : \A m \in S : n <= m
  <1> DEFINE less == OpToRel(<, Nat)
  <1>1. PICK n \in S : \A m \in S : ~(<<m, n>> \in less)
    BY NatLessThanWellFounded, WFMin, Zenon
  <1>2. \A x, y \in Nat : y < x => <<y, x>> \in less
    BY Zenon DEF OpToRel
  <1>3. ASSUME NEW m \in S PROVE ~(m < n)
    BY <1>1, <1>2
  <1>4. ASSUME NEW m \in S PROVE n <= m
    BY <1>3
  <1>5. QED
    BY <1>4

(* A queue that is not empty has a smallest task. *)
LEMMA SmallestExists ==
  ASSUME NEW Q \in SUBSET Ids, Q # {}
  PROVE  \E i \in Ids : Smallest(Q, i)
  <1>1. Q \subseteq Nat
    BY DEF Ids
  <1>2. QED
    BY <1>1, FirstExists DEF Smallest

(* As long as the loop runs, the guard of one of its steps holds: the queue
   gives up its smallest task, or is empty. *)
HasNextStep ==
  phase = "sort" => ready = {} \/ \E id \in Ids : Smallest(ready, id)

(* What NewGraphWith has still to do: to count, to place every task that is
   not in the order, and to answer. *)
ToDo ==
  CASE phase = "new" -> Cardinality(Present(ts)) + 2
    [] phase = "sort" -> Cardinality(Present(ts) \ Held(order)) + 1
    [] OTHER -> 0

(* The loop of NewGraphWith never stalls: there is a smallest task to take
   from the queue or the queue is empty, for every project. *)
THEOREM LoopNeverStalls == Spec => []HasNextStep
  <1>1. IInv => HasNextStep
    <2> SUFFICES ASSUME IInv, phase = "sort", ready # {}
                 PROVE  \E id \in Ids : Smallest(ready, id)
      BY DEF IInv, KahnInv, TypeOK, HasNextStep
    <2>1. ready \in SUBSET Ids
      BY PresentFinite DEF IInv, KahnInv, TypeOK
    <2>2. QED
      BY <2>1, SmallestExists
  <1>2. QED
    BY <1>1, Inductive, PTL

(* Every step of NewGraphWith leaves strictly less to do, and there is a
   natural number of steps to begin with: the call makes at most as many turns
   as there are tasks, cycles or not. *)
THEOREM LoopMakesProgress == Spec => [][ToDo' \in Nat /\ ToDo' < ToDo]_vars
  <1>1. IInv /\ [Next]_vars => [ToDo' \in Nat /\ ToDo' < ToDo]_vars
    <2> SUFFICES ASSUME IInv, Next PROVE ToDo' \in Nat /\ ToDo' < ToDo
      OBVIOUS
    <2>0. /\ TypeOK /\ IsFiniteSet(Present(ts))
          /\ Cardinality(Present(ts)) \in Nat
      BY PresentFinite, FS_CardinalityType DEF IInv, KahnInv
    <2> DEFINE left == Present(ts) \ Held(order)
    <2>1. IsFiniteSet(left) /\ Cardinality(left) \in Nat
      BY <2>0, FS_Subset, FS_CardinalityType
    <2>2. CASE Missing
      BY <2>0, <2>2 DEF Missing, ToDo
    <2>3. CASE Count
      <3>1. Held(order) = {} /\ ToDo = Cardinality(Present(ts)) + 2
        BY <2>3 DEF Count, IInv, KahnInv, Held, ToDo
      <3>2. left = Present(ts)
        BY <3>1
      <3>3. Present(ts)' = Present(ts) /\ Held(order)' = Held(order)
        BY <2>3 DEF Count, Present, Held
      <3>4. ToDo' = Cardinality(Present(ts)) + 1
        BY <2>3, <3>2, <3>3 DEF Count, ToDo
      <3>5. QED
        BY <2>0, <3>1, <3>4
    <2>4. CASE Pick
      <3>1. PICK id \in Ids : Smallest(ready, id) /\ order' = Append(order, id)
        BY <2>4 DEF Pick
      <3>2. id \in left
        BY <2>4, <3>1 DEF Pick, Smallest, IInv, KahnInv
      <3>3. Held(order)' = Held(order) \cup {id}
        <4>1. order \in Seq(Present(ts)) /\ id \in Present(ts)
          BY <2>0, <3>2 DEF TypeOK
        <4>2. Held(order)' = Held(order')
          BY DEF Held
        <4>3. QED
          BY <3>1, <4>1, <4>2, HeldAppend
      <3>4. Present(ts)' = Present(ts) /\ phase = "sort" /\ phase' = "sort"
        BY <2>4 DEF Pick, Present
      <3>5. ToDo = Cardinality(left) + 1
        BY <3>4 DEF ToDo
      <3>6. Present(ts)' \ Held(order)' = left \ {id}
        BY <3>3, <3>4
      <3>7. ToDo' = Cardinality(left \ {id}) + 1
        BY <3>4, <3>6 DEF ToDo
      <3>8. Cardinality(left \ {id}) = Cardinality(left) - 1
        BY <2>1, <3>2, FS_RemoveElement
      <3>9. IsFiniteSet(left \ {id}) /\ Cardinality(left \ {id}) \in Nat
        BY <2>1, FS_Subset, FS_CardinalityType
      <3>10. QED
        BY <2>1, <3>5, <3>7, <3>8, <3>9
    <2>5. CASE Finish
      <3>1. ToDo = Cardinality(left) + 1 /\ ToDo' = 0
        BY <2>5 DEF Finish, ToDo
      <3>2. QED
        BY <2>1, <3>1
    <2>6. QED
      BY <2>2, <2>3, <2>4, <2>5 DEF Next
  <1>2. QED
    BY <1>1, Inductive, PTL DEF Spec
=============================================================================
