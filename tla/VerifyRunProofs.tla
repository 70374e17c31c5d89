-------------------------- MODULE VerifyRunProofs ---------------------------
(***************************************************************************)
(* Theorems about VerifyRun: whatever the checks print, however many runs  *)
(* overlap, and whoever moves the task meanwhile, the verdict of a run is  *)
(* the one its own records support, no check is skipped for another, and a *)
(* run goes on but for its checks.                                         *)
(***************************************************************************)
EXTENDS VerifyRun, TLAPS

LEMMA TypeStep == TypeOK /\ [Next]_vars => TypeOK'
  <1> SUFFICES ASSUME TypeOK, [Next]_vars PROVE TypeOK'
    OBVIOUS
  <1> USE DEF TypeOK, GoTo, PC, Over, Errors, disk
  <1>1. ASSUME NEW r \in Runs, Get(r) PROVE TypeOK'
    BY <1>1, MaxChecksAssumption DEF Get
  <1>18. ASSUME NEW r \in Runs, LoadProject(r) \/ Refuse(r) PROVE TypeOK'
    <2>1. /\ pc' = [pc EXCEPT ![r] = "start"] \/ pc' = [pc EXCEPT ![r] = "refused"]
          /\ UNCHANGED <<disk, snap, at, result, output, passed, moved, overtaken>>
      BY <1>18 DEF LoadProject, Refuse
    <2>2. QED
      BY <2>1
  <1>2. ASSUME NEW r \in Runs, NEW k \in {"check", "eval", "note"},
               NEW ok \in BOOLEAN
        PROVE  Entry(r, k, ok) \in Records
    BY <1>2 DEF Entry, Records
  <1>3. ASSUME NEW r \in Runs, NoChecks(r) PROVE TypeOK'
    BY <1>2, <1>3 DEF NoChecks
  <1>4. ASSUME NEW r \in Runs, CheckStart(r) PROVE TypeOK'
    <2>1. at[r] + 1 \in 1..commands /\ at[r] + 1 \in 0..MaxChecks
      BY <1>4, MaxChecksAssumption DEF CheckStart
    <2>2. QED
      BY <1>4, <2>1 DEF CheckStart
  <1>5. ASSUME NEW r \in Runs, CheckRefused(r) PROVE TypeOK'
    <2>1. <<>> \in Seq(LineKinds)
      OBVIOUS
    <2>2. QED
      BY <1>5, <2>1 DEF CheckRefused
  <1>6. ASSUME NEW r \in Runs, NEW ok \in BOOLEAN, NEW lines \in Outputs,
               NEW where \in Left, ChildGone(r, ok, lines, where)
        PROVE  TypeOK'
    <2>1. lines \in Seq(LineKinds) /\ where \in {"record", "draining"}
      BY OutputsAssumption DEF Left
    <2>2. QED
      BY <1>6, <2>1 DEF ChildGone
  <1>7. ASSUME NEW r \in Runs, Exit(r) \/ Timeout(r) PROVE TypeOK'
    BY <1>6, <1>7 DEF Exit, Timeout
  <1>8. ASSUME NEW r \in Runs, Drain(r) PROVE TypeOK'
    BY <1>8 DEF Drain
  <1>9. ASSUME NEW r \in Runs, RecordCheck(r) PROVE TypeOK'
    BY <1>2, <1>9 DEF RecordCheck
  <1>10. ASSUME NEW r \in Runs, RecordLine(r) PROVE TypeOK'
    <2>1. Entry(r, "eval", Line(r) = "met") \in Records
      BY <1>2
    <2>2. Tail(output[r]) \in Seq(LineKinds)
      BY <1>10 DEF RecordLine
    <2>3. QED
      BY <1>10, <2>1, <2>2 DEF RecordLine
  <1>11. ASSUME NEW r \in Runs, Abort(r) \/ NextCheck(r) PROVE TypeOK'
    BY <1>11 DEF Abort, NextCheck
  <1>12. ASSUME NEW r \in Runs, MoveRead(r) \/ MoveWrite(r) PROVE TypeOK'
    <2>1. Verdict(r) \in Statuses /\ Verdict(r) \in {"none", "review", "failed"}
      BY DEF Verdict, Statuses
    <2>2. QED
      BY <1>12, <2>1 DEF MoveRead, MoveWrite, Overtake
  <1>13. ASSUME NEW r \in Runs, MoveRefused(r) \/ Stay(r) \/ Crash(r)
         PROVE  TypeOK'
    BY <1>13 DEF MoveRefused, Stay, Crash
  <1>14. ASSUME NEW from \in Statuses, NEW to \in Statuses, HandMove(from, to)
         PROVE  TypeOK'
    BY <1>14 DEF HandMove, Overtake
  <1>15. CASE Tear
    BY <1>15 DEF Tear
  <1>16. CASE UNCHANGED vars
    BY <1>16 DEF vars
  <1>17. QED
    BY <1>1, <1>3, <1>4, <1>5, <1>7, <1>8, <1>9, <1>10, <1>11, <1>12, <1>13,
       <1>14, <1>15, <1>16, <1>18 DEF Next, Step

LEMMA InitTypes == Init => TypeOK
  <1>1. <<>> \in Seq(LineKinds)
    OBVIOUS
  <1>2. QED
    BY <1>1, MaxChecksAssumption DEF Init, TypeOK, PC, Statuses

-----------------------------------------------------------------------------
(* What one step of one run does to the records of each.                   *)

(* The task stays where it is, or a run that has read it is overtaken. *)
StillRead(q) ==
  \/ status' = status /\ overtaken'[q] = overtaken[q]
  \/ pc[q] = "write" => overtaken'[q]

(* A run whose own part does not change stays as it is. *)
LEMMA Untouched ==
  ASSUME NEW q \in Runs, RunOK(q), Of(q)' = Of(q), commands' = commands,
         pc'[q] = pc[q], at'[q] = at[q], passed'[q] = passed[q],
         moved'[q] = moved[q], snap'[q] = snap[q], StillRead(q)
  PROVE  RunOK(q)'
  BY DEF RunOK, Checked, Recorded, Verdict, StillRead

(* A record of one run is none of another. *)
LEMMA OwnRecord ==
  ASSUME NEW r \in Runs, NEW k \in {"check", "eval", "note"},
         NEW ok \in BOOLEAN, log' = log \cup {Entry(r, k, ok)}
  PROVE  /\ \A q \in Runs \ {r} : Of(q)' = Of(q)
         /\ Of(r)' = Of(r) \cup {Entry(r, k, ok)}
         /\ Entry(r, k, ok).passed = ok
         /\ Checked(r)' = IF k = "check" THEN Checked(r) \cup {at[r]}
                                         ELSE Checked(r)
  <1> DEFINE e == Entry(r, k, ok)
  <1>1. e.run = r /\ e.kind = k /\ e.check = at[r] /\ e.passed = ok
    BY DEF Entry
  <1>2. \A q \in Runs \ {r} : Of(q)' = Of(q)
    BY <1>1 DEF Of
  <1>3. Of(r)' = Of(r) \cup {e}
    BY <1>1 DEF Of
  <1>4. {x \in Of(r)' : x.kind = "check"}
          = {x \in Of(r) : x.kind = "check"}
              \cup (IF k = "check" THEN {e} ELSE {})
    BY <1>1, <1>3
  <1>5. Checked(r)' = IF k = "check" THEN Checked(r) \cup {at[r]}
                                     ELSE Checked(r)
    BY <1>1, <1>4 DEF Checked
  <1>6. QED
    BY <1>1, <1>2, <1>3, <1>5

LEMMA SameRecords ==
  ASSUME log' = log
  PROVE  \A q \in Runs : Of(q)' = Of(q) /\ Checked(q)' = Checked(q)
  BY DEF Of, Checked

-----------------------------------------------------------------------------
(* The verdict rests on the evidence.                                      *)

(* A step of r that records nothing: the runs but r are Untouched. *)
LEMMA QuietStep ==
  ASSUME RunInv, NEW r \in Runs, log' = log, commands' = commands,
         \A q \in Runs \ {r} : /\ pc'[q] = pc[q] /\ at'[q] = at[q]
                               /\ passed'[q] = passed[q] /\ snap'[q] = snap[q]
                               /\ moved'[q] = moved[q] /\ StillRead(q),
         RunOK(r)'
  PROVE  \A q \in Runs : RunOK(q)'
  BY SameRecords, Untouched DEF RunInv

(* A step of r that adds a record of its own. *)
LEMMA LoudStep ==
  ASSUME RunInv, NEW r \in Runs, NEW k \in {"check", "eval", "note"},
         NEW ok \in BOOLEAN, log' = log \cup {Entry(r, k, ok)},
         commands' = commands,
         \A q \in Runs \ {r} : /\ pc'[q] = pc[q] /\ at'[q] = at[q]
                               /\ passed'[q] = passed[q] /\ snap'[q] = snap[q]
                               /\ moved'[q] = moved[q] /\ StillRead(q),
         RunOK(r)'
  PROVE  \A q \in Runs : RunOK(q)'
  BY OwnRecord, Untouched DEF RunInv

LEMMA InitRuns == Init => RunInv
  <1> SUFFICES ASSUME Init, NEW r \in Runs PROVE RunOK(r)
    BY InitTypes DEF RunInv
  <1> QED
    BY DEF Init, RunOK, Recorded, Checked, Of

LEMMA RunStep == RunInv /\ [Next]_vars => RunInv'
  <1> SUFFICES ASSUME RunInv, [Next]_vars PROVE \A q \in Runs : RunOK(q)'
    BY TypeStep DEF RunInv
  <1>0. TypeOK /\ TypeOK' /\ \A q \in Runs : RunOK(q)
    BY TypeStep DEF RunInv
  <1>1. ASSUME NEW r \in Runs, Get(r) PROVE \A q \in Runs : RunOK(q)'
    <2> USE <1>0, <1>1 DEF Get, GoTo, disk, TypeOK
    <2>1. Of(r)' = {} /\ Checked(r)' = {}
      BY DEF RunOK, Of, Checked
    <2>2. pc'[r] = "load" /\ at'[r] = 0 /\ passed'[r] = TRUE
          /\ moved'[r] = "none"
      BY DEF RunOK, Over, Errors
    <2>3. Recorded(r)' = {}
      BY <2>2 DEF Recorded
    <2>4. passed'[r] <=> \A e \in Of(r)' : e.passed
      BY <2>1, <2>2
    <2>5. RunOK(r)'
      BY <2>1, <2>2, <2>3, <2>4 DEF RunOK, Over, Errors
    <2>6. QED
      BY <2>5, QuietStep DEF StillRead
  <1>12. ASSUME NEW r \in Runs, LoadProject(r) PROVE \A q \in Runs : RunOK(q)'
    <2> USE <1>0, <1>12 DEF LoadProject, GoTo, disk, TypeOK
    <2>1. /\ pc[r] = "load" /\ pc'[r] = "start" /\ at'[r] = 0
          /\ passed'[r] = passed[r] /\ moved'[r] = "none" /\ 0 <= commands
      BY MaxChecksAssumption DEF RunOK, Over, Errors
    <2>2. Checked(r)' = {} /\ Of(r)' = Of(r)
      BY <2>1, SameRecords DEF RunOK, Recorded, Over, Errors
    <2>3. Recorded(r)' = {}
      BY <2>1 DEF Recorded
    <2>4. passed'[r] <=> \A e \in Of(r)' : e.passed
      <3>1. passed[r] <=> \A e \in Of(r) : e.passed
        BY <2>1 DEF RunOK
      <3>2. QED
        BY <2>1, <2>2, <3>1
    <2>5. RunOK(r)'
      BY <2>1, <2>2, <2>3, <2>4 DEF RunOK, Over, Errors
    <2>6. QED
      BY <2>5, QuietStep DEF StillRead
  <1>2. ASSUME NEW r \in Runs, NoChecks(r) PROVE \A q \in Runs : RunOK(q)'
    <2> USE <1>0, <1>2 DEF NoChecks, GoTo, TypeOK
    <2>1. /\ Of(r)' = Of(r) \cup {Entry(r, "note", FALSE)}
          /\ Entry(r, "note", FALSE).passed = FALSE
          /\ Checked(r)' = Checked(r)
      BY OwnRecord
    <2>2. pc'[r] = "decide" /\ passed'[r] = FALSE /\ moved'[r] = "none"
      BY DEF RunOK, Over, Errors
    <2>3. Checked(r) = 1..0
      <3>1. at[r] = 0
        BY DEF RunOK, Recorded, Over, Errors
      <3>2. QED
        BY <3>1 DEF RunOK, Recorded, Over, Errors
    <2>4. RunOK(r)'
      BY <2>1, <2>2, <2>3 DEF RunOK, Recorded, Over, Errors
    <2>5. QED
      BY <2>4, LoudStep DEF StillRead
  <1>3. ASSUME NEW r \in Runs, CheckStart(r) PROVE \A q \in Runs : RunOK(q)'
    <2> USE <1>0, <1>3 DEF CheckStart, GoTo, disk, TypeOK
    <2>1. pc[r] = "start" /\ pc'[r] = "running" /\ at'[r] - 1 = at[r]
          /\ passed'[r] = passed[r] /\ moved'[r] = moved[r]
      OBVIOUS
    <2>2. Checked(r)' = 1..at[r] /\ Of(r)' = Of(r)
      BY <2>1, SameRecords DEF RunOK, Recorded, Over, Errors
    <2>3. Recorded(r)' = 1..at[r]
      BY <2>1 DEF Recorded
    <2>4. moved[r] = "none" /\ (passed[r] <=> \A e \in Of(r) : e.passed)
      BY <2>1 DEF RunOK, Over, Errors
    <2>5. RunOK(r)'
      BY <2>1, <2>2, <2>3, <2>4 DEF RunOK, Over, Errors
    <2>6. QED
      BY <2>5, QuietStep DEF StillRead
  <1>4. ASSUME NEW r \in Runs,
               CheckRefused(r) \/ Exit(r) \/ Timeout(r) \/ Drain(r)
        PROVE  \A q \in Runs : RunOK(q)'
    <2> USE <1>0 DEF GoTo, disk, TypeOK
    <2>1. /\ pc[r] \in {"running", "draining"}
          /\ pc'[r] \in {"record", "draining"}
          /\ \A q \in Runs \ {r} : pc'[q] = pc[q]
          /\ log' = log /\ commands' = commands /\ at' = at
          /\ passed' = passed /\ moved' = moved /\ snap' = snap
          /\ status' = status /\ overtaken' = overtaken
      BY <1>4 DEF CheckRefused, Exit, Timeout, Drain, ChildGone, Left
    <2>2. RunOK(r)'
      BY <2>1, SameRecords DEF RunOK, Recorded, Over, Errors
    <2>3. QED
      BY <2>1, <2>2, QuietStep DEF StillRead
  <1>5. ASSUME NEW r \in Runs, RecordCheck(r) PROVE \A q \in Runs : RunOK(q)'
    <2> USE <1>0, <1>5 DEF RecordCheck, GoTo, TypeOK
    <2>1. /\ Of(r)' = Of(r) \cup {Entry(r, "check", result[r])}
          /\ Entry(r, "check", result[r]).passed = result[r]
          /\ Checked(r)' = Checked(r) \cup {at[r]}
      BY OwnRecord
    <2>2. pc'[r] = "lines" /\ passed'[r] = (passed[r] /\ result[r])
          /\ at'[r] = at[r] /\ moved'[r] = "none"
      BY DEF RunOK, Over, Errors
    <2>3. Checked(r)' = 1..at[r]
      <3>1. Checked(r) = 1..(at[r] - 1) /\ at[r] \in 1..commands
        BY DEF RunOK, Recorded, Over, Errors
      <3>2. QED
        BY <2>1, <3>1
    <2>4. RunOK(r)'
      BY <2>1, <2>2, <2>3 DEF RunOK, Recorded, Over, Errors
    <2>5. QED
      BY <2>4, LoudStep DEF StillRead
  <1>6. ASSUME NEW r \in Runs, RecordLine(r) PROVE \A q \in Runs : RunOK(q)'
    <2> DEFINE met == Line(r) = "met"
    <2> USE <1>0, <1>6 DEF RecordLine, TypeOK
    <2>1. /\ Of(r)' = Of(r) \cup {Entry(r, "eval", met)}
          /\ Entry(r, "eval", met).passed = met
          /\ Checked(r)' = Checked(r)
      BY OwnRecord
    <2>2. pc'[r] = "lines" /\ passed'[r] = (passed[r] /\ met)
          /\ at'[r] = at[r] /\ moved'[r] = "none"
      BY DEF RunOK, Over, Errors
    <2>3. RunOK(r)'
      BY <2>1, <2>2 DEF RunOK, Recorded, Over, Errors
    <2>4. QED
      BY <2>3, LoudStep DEF StillRead
  <1>7. ASSUME NEW r \in Runs, NextCheck(r) PROVE \A q \in Runs : RunOK(q)'
    <2> USE <1>0, <1>7 DEF NextCheck, GoTo, disk, TypeOK
    <2>1. at[r] \in 1..commands /\ Checked(r)' = 1..at[r]
          /\ moved'[r] = "none" /\ passed'[r] = passed[r]
      BY SameRecords DEF RunOK, Recorded, Over, Errors
    <2>2. CASE at[r] < commands
      <3>1. pc'[r] = "start" /\ at'[r] = at[r]
        BY <2>2
      <3>2. Checked(r)' = Recorded(r)'
        BY <2>1, <3>1 DEF Recorded
      <3>3. passed[r] <=> \A e \in Of(r)' : e.passed
        <4>1. passed[r] <=> \A e \in Of(r) : e.passed
          BY DEF RunOK, Over, Errors
        <4>2. Of(r)' = Of(r)
          BY SameRecords
        <4>3. QED
          BY <4>1, <4>2
      <3>4. RunOK(r)'
        BY <2>1, <2>2, <3>1, <3>2, <3>3 DEF RunOK, Over, Errors
      <3>5. QED
        BY <3>4, QuietStep DEF StillRead
    <2>3. CASE ~(at[r] < commands)
      <3>1. at[r] = commands /\ commands # 0
        BY <2>1, <2>3, MaxChecksAssumption
      <3>2. RunOK(r)'
        BY <2>1, <2>3, <3>1, SameRecords DEF RunOK, Recorded, Over, Errors
      <3>3. QED
        BY <3>2, QuietStep DEF StillRead
    <2>4. QED
      BY <2>2, <2>3
  <1>8. ASSUME NEW r \in Runs, MoveWrite(r) \/ Stay(r)
        PROVE  \A q \in Runs : RunOK(q)'
    <2> USE <1>0 DEF GoTo, disk, TypeOK
    <2>1. /\ pc[r] \in {"decide", "write"} /\ pc'[r] = "ended"
          /\ moved'[r] \in {moved[r], Verdict(r)}
          /\ \A q \in Runs \ {r} : pc'[q] = pc[q] /\ moved'[q] = moved[q]
          /\ log' = log /\ commands' = commands /\ at' = at
          /\ passed' = passed /\ snap' = snap
          /\ \A q \in Runs : StillRead(q)
      BY <1>8 DEF MoveWrite, Stay, Overtake, StillRead
    <2>2. moved[r] = "none" /\ Verdict(r)' = Verdict(r)
      BY <2>1 DEF RunOK, Verdict
    <2>3. Checked(r)' = 1..commands
      BY <2>1, SameRecords DEF RunOK, Recorded, Over, Errors
    <2>4. commands = 0 => ~passed[r]
      BY <2>1 DEF RunOK
    <2>5. passed[r] <=> \A e \in Of(r)' : e.passed
      <3>1. passed[r] <=> \A e \in Of(r) : e.passed
        BY <2>1 DEF RunOK
      <3>2. Of(r)' = Of(r)
        BY <2>1, SameRecords
      <3>3. QED
        BY <3>1, <3>2
    <2>6. RunOK(r)'
      BY <2>1, <2>2, <2>3, <2>4, <2>5 DEF RunOK, Over, Errors
    <2>7. QED
      BY <2>1, <2>6, QuietStep
  <1>13. ASSUME NEW r \in Runs, MoveRead(r) PROVE \A q \in Runs : RunOK(q)'
    <2> USE <1>0, <1>13 DEF MoveRead, GoTo, disk, TypeOK
    <2>1. /\ pc[r] = "decide" /\ pc'[r] = "write" /\ moved'[r] = "none"
          /\ passed'[r] = passed[r] /\ (commands = 0 => ~passed[r])
          /\ snap'[r] = status /\ status' = status
          /\ Verdict(r)' = Verdict(r)
      BY DEF RunOK, Verdict
    <2>2. Checked(r)' = 1..commands /\ Of(r)' = Of(r)
      BY <2>1, SameRecords DEF RunOK, Recorded, Over, Errors
    <2>3. passed[r] <=> \A e \in Of(r)' : e.passed
      <3>1. passed[r] <=> \A e \in Of(r) : e.passed
        BY <2>1 DEF RunOK
      <3>2. QED
        BY <2>2, <3>1
    <2>4. RunOK(r)'
      BY <2>1, <2>2, <2>3 DEF RunOK, Recorded, Over, Errors
    <2>5. QED
      BY <2>4, QuietStep DEF StillRead
  <1>9. ASSUME NEW r \in Runs,
               Refuse(r) \/ Abort(r) \/ MoveRefused(r) \/ Crash(r)
        PROVE  \A q \in Runs : RunOK(q)'
    <2> USE <1>0 DEF GoTo, disk, TypeOK
    <2>1. /\ pc[r] \notin Over /\ pc'[r] \in Errors
          /\ pc'[r] = "refused" \/ pc[r] # "new"
          /\ pc'[r] = "unmoved" => pc[r] \in {"decide", "write"}
          /\ \A q \in Runs \ {r} : pc'[q] = pc[q]
          /\ log' = log /\ commands' = commands /\ at' = at
          /\ passed' = passed /\ moved' = moved /\ snap' = snap
          /\ status' = status /\ overtaken' = overtaken
      BY <1>9 DEF Refuse, Abort, MoveRefused, Crash, Over, Errors
    <2>2. moved[r] = "none" /\ pc[r] # "refused" /\ pc[r] \notin Over
      BY <2>1 DEF RunOK, Over, Errors
    <2>3. pc'[r] = "unmoved" => Checked(r)' = 1..commands
      BY <2>1, SameRecords DEF RunOK, Recorded, Over, Errors
    <2>4. pc'[r] # "refused" => (passed[r] <=> \A e \in Of(r)' : e.passed)
      <3>1. pc'[r] # "refused" => (passed[r] <=> \A e \in Of(r) : e.passed)
        BY <2>1, <2>2 DEF RunOK
      <3>2. Of(r)' = Of(r)
        BY <2>1, SameRecords
      <3>3. QED
        BY <3>1, <3>2
    <2>5. RunOK(r)'
      BY <2>1, <2>2, <2>3, <2>4 DEF RunOK, Over, Errors
    <2>6. QED
      BY <2>1, <2>5, QuietStep DEF StillRead
  <1>10. ASSUME \/ \E from, to \in Statuses : HandMove(from, to)
                \/ Tear
                \/ UNCHANGED vars
         PROVE  \A q \in Runs : RunOK(q)'
    <2>1. /\ log' = log /\ commands' = commands /\ at' = at /\ pc' = pc
          /\ passed' = passed /\ moved' = moved /\ snap' = snap
          /\ \A q \in Runs : StillRead(q)
      BY <1>0, <1>10 DEF HandMove, Tear, vars, Overtake, StillRead, TypeOK
    <2>2. QED
      BY <1>0, <2>1, SameRecords, Untouched
  <1>11. QED
    BY <1>1, <1>2, <1>3, <1>4, <1>5, <1>6, <1>7, <1>8, <1>9, <1>10,
       <1>12, <1>13
    DEF Next, Step

(* The directory, the verdicts and the place of every run stay in their
   types: TypeOK, for any number of runs and checks. *)
THEOREM TypeCorrect == Spec => []TypeOK
  BY InitTypes, TypeStep, PTL DEF Spec

(* What each run has on record and what it holds in memory agree at every
   step: RunInv, whatever the checks of RunChecks print. *)
THEOREM Inductive == Spec => []RunInv
  BY InitRuns, RunStep, PTL DEF Spec

LEMMA InvImpliesVerdict == RunInv => VerdictFromEvidence
  <1> SUFFICES ASSUME RunInv, NEW r \in Runs, moved[r] # "none"
               PROVE  /\ moved[r] = "review" =>
                           /\ commands > 0 /\ Checked(r) = 1..commands
                           /\ \A e \in Of(r) : e.passed
                      /\ moved[r] = "failed" => \E e \in Of(r) : ~e.passed
    BY DEF VerdictFromEvidence
  <1>1. /\ pc[r] = "ended" /\ moved[r] = Verdict(r)
        /\ passed[r] <=> \A e \in Of(r) : e.passed
        /\ Checked(r) = 1..commands /\ (commands = 0 => ~passed[r])
    BY DEF RunInv, RunOK
  <1>2. CASE passed[r]
    <2>1. commands > 0
      BY <1>1, <1>2, MaxChecksAssumption DEF RunInv, TypeOK
    <2>2. QED
      BY <1>1, <1>2, <2>1 DEF Verdict
  <1>3. CASE ~passed[r]
    BY <1>1, <1>3 DEF Verdict
  <1>4. QED
    BY <1>2, <1>3

(* A run of verify moves a task to review only when each of its checks has a
   record and no record of it failed, and to failed only when one did:
   cmdVerify and RunChecks, for any number of runs, checks and metric lines,
   with crashes and with people moving the task meanwhile. *)
THEOREM VerdictRestsOnEvidence == Spec => []VerdictFromEvidence
  BY Inductive, InvImpliesVerdict, PTL
-----------------------------------------------------------------------------
(* A run comes to review only from verify.                                 *)

LEMMA OnlyVerifyReviews ==
  ASSUME NEW s \in Statuses, CanMoveTo(s, "review")
  PROVE  s = "verify"
  BY DEF Statuses, CanMoveTo, Transitions

(* What moved while the checks ran is not moved back: cmdVerify brings a task
   to review from another status than verify only when the task moved between
   the read and the write of Store.Move, for any number of runs and any moves
   by hand. *)
THEOREM OthersFailureStands == Spec => FailureStands
  <1> DEFINE Stands ==
        \A r \in Runs :
          moved'[r] = "review" /\ moved[r] = "none" =>
            status = "verify" \/ overtaken[r]
  <1>1. RunInv /\ [Next]_vars => [Stands]_vars
    <2> SUFFICES ASSUME RunInv, [Next]_vars,
                        NEW q \in Runs, moved'[q] = "review", moved[q] = "none"
                 PROVE  status = "verify" \/ overtaken[q]
      OBVIOUS
    <2>0. TypeOK /\ RunOK(q)
      BY DEF RunInv
    <2>1. ASSUME NEW r \in Runs, MoveWrite(r)
          PROVE  status = "verify" \/ overtaken[q]
      <3>1. pc[r] = "write" /\ moved' = [moved EXCEPT ![r] = Verdict(r)]
        BY <2>1 DEF MoveWrite
      <3>2. r = q /\ Verdict(q) = "review"
        BY <2>0, <3>1 DEF TypeOK
      <3>3. CanMoveTo(snap[q], "review") /\ (status = snap[q] \/ overtaken[q])
        BY <2>0, <3>1, <3>2 DEF RunOK
      <3>4. QED
        BY <2>0, <3>3, OnlyVerifyReviews DEF TypeOK
    <2>2. moved' # moved
      BY <2>0 DEF TypeOK
    <2>3. QED
      BY <2>1, <2>2
         DEF Next, Step, Get, LoadProject, Refuse, NoChecks, CheckStart,
             CheckRefused, Exit, Timeout, ChildGone, Drain, RecordCheck,
             RecordLine, Abort, NextCheck, MoveRead, MoveRefused, Stay,
             HandMove, Tear, Crash, vars
  <1>2. QED
    BY <1>1, Inductive, PTL DEF Spec, FailureStands

-----------------------------------------------------------------------------
(* Nothing is skipped.                                                     *)

AllRecordable(lines) == \A i \in 1..Len(lines) : Recordable(lines[i])

(* RunChecks goes on after a check that failed, and a refused move comes after
   the last one: a run that is over and lacks a check was killed, or could not
   read its task and project, or could not write a record. *)
THEOREM NothingIsSkipped == Spec => []NothingSkipped
  <1>1. RunInv => NothingSkipped
    BY DEF RunInv, RunOK, NothingSkipped, Over, Errors
  <1>2. QED
    BY <1>1, Inductive, PTL

(* What makes a run leave checks out: it is killed, a file it reads does not
   decode (the task, project.md or a record of the directory), or a check
   prints a metric line that validateEval refuses. *)
EveryRecordWritten ==
  ~Torn /\ ~Crashes /\ \A lines \in Outputs : AllRecordable(lines)

SkipInv ==
  /\ RunInv
  /\ readable
  /\ \A r \in Runs : /\ AllRecordable(output[r])
                     /\ pc[r] \in Errors => Checked(r) = 1..commands

LEMMA SkipInit == Init => SkipInv
  <1> SUFFICES ASSUME Init PROVE SkipInv
    OBVIOUS
  <1>1. Len(<<>>) = 0
    OBVIOUS
  <1>2. QED
    BY <1>1, InitRuns DEF Init, SkipInv, AllRecordable, Errors

(* What follows the first line of a recordable output is recordable. *)
LEMMA TailRecordable ==
  ASSUME NEW lines \in Seq(LineKinds), lines # <<>>, AllRecordable(lines)
  PROVE  AllRecordable(Tail(lines)) /\ Recordable(Head(lines))
  <1>1. /\ Len(lines) \in Nat /\ Len(lines) > 0
        /\ Len(Tail(lines)) = Len(lines) - 1
        /\ Head(lines) = lines[1]
        /\ \A i \in 1..Len(Tail(lines)) : Tail(lines)[i] = lines[i + 1]
    OBVIOUS
  <1>2. \A i \in 1..Len(Tail(lines)) : i + 1 \in 1..Len(lines)
    BY <1>1
  <1>3. 1 \in 1..Len(lines)
    BY <1>1
  <1> HIDE DEF Recordable
  <1>4. QED
    BY <1>1, <1>2, <1>3 DEF AllRecordable

LEMMA SkipStep ==
  ASSUME EveryRecordWritten, SkipInv, [Next]_vars
  PROVE  SkipInv'
  <1>0. RunInv /\ RunInv' /\ TypeOK /\ \A r \in Runs : RunOK(r)
    BY RunStep DEF SkipInv, RunInv
  <1> SUFFICES /\ readable'
               /\ \A r \in Runs :
                    /\ AllRecordable(output'[r])
                    /\ pc'[r] \in Errors => Checked(r)' = 1..commands'
    BY <1>0 DEF SkipInv, AllRecordable
  <1>1. readable' /\ commands' = commands
    <2>1. ~Tear
      BY DEF Tear, EveryRecordWritten
    <2>2. readable' = readable /\ commands' = commands
      BY <2>1 DEF Next, Step, Get, LoadProject, Refuse, NoChecks, CheckStart,
             CheckRefused, Exit, Timeout, ChildGone, Drain, RecordCheck,
             RecordLine, Abort, NextCheck, MoveRead, MoveWrite, MoveRefused, Stay, HandMove, Crash, vars, disk
    <2>3. QED
      BY <2>2 DEF SkipInv
  <1>2. \A r \in Runs : AllRecordable(output'[r])
    <2> USE <1>0 DEF TypeOK
    <2>1. ASSUME NEW r \in Runs, CheckRefused(r)
          PROVE  \A q \in Runs : AllRecordable(output'[q])
      <3>1. AllRecordable(<<>>)
        BY DEF AllRecordable
      <3>2. QED
        BY <2>1, <3>1 DEF CheckRefused, SkipInv
    <2>2. ASSUME NEW r \in Runs, Exit(r) \/ Timeout(r)
          PROVE  \A q \in Runs : AllRecordable(output'[q])
      BY <2>2 DEF Exit, Timeout, ChildGone, SkipInv, EveryRecordWritten
    <2>3. ASSUME NEW r \in Runs, RecordLine(r)
          PROVE  \A q \in Runs : AllRecordable(output'[q])
      <3>1. AllRecordable(Tail(output[r]))
        BY <2>3, TailRecordable DEF RecordLine, SkipInv
      <3>2. QED
        BY <2>3, <3>1 DEF RecordLine, SkipInv
    <2>4. CASE output' = output
      BY <2>4 DEF SkipInv
    <2>5. QED
      BY <2>1, <2>2, <2>3, <2>4
         DEF Next, Step, Get, LoadProject, Refuse, NoChecks, CheckStart, Drain,
             RecordCheck, Abort, NextCheck, MoveRead, MoveWrite, MoveRefused, Stay, HandMove, Tear, Crash,
             vars, disk
  <1>3. \A q \in Runs : pc'[q] \in Errors => Checked(q)' = 1..commands
    <2>1. ASSUME NEW r \in Runs, Abort(r) PROVE FALSE
      <3>1. pc[r] = "lines" /\ output[r] # <<>> /\ ~Recordable(Line(r))
        BY <2>1 DEF Abort, SkipInv
      <3>2. Recordable(Line(r))
        BY <1>0, <3>1, TailRecordable DEF SkipInv, Line, TypeOK
      <3>3. QED
        BY <3>1, <3>2
    <2>2. ASSUME NEW r \in Runs, MoveRefused(r)
          PROVE  \A q \in Runs : pc'[q] \in Errors => Checked(q)' = 1..commands
      <3>1. Checked(r) = 1..commands
        BY <1>0, <2>2 DEF MoveRefused, RunOK, Recorded, Over, Errors
      <3>2. log' = log /\ pc' = [pc EXCEPT ![r] = "unmoved"]
        BY <2>2 DEF MoveRefused, disk, GoTo
      <3>3. QED
        BY <1>0, <3>1, <3>2, SameRecords DEF SkipInv, TypeOK
    <2>3. ASSUME NEW r \in Runs, Refuse(r) \/ Crash(r) PROVE FALSE
      BY <2>3 DEF Refuse, Crash, EveryRecordWritten
    <2>4. ASSUME NEW r \in Runs, NEW k \in {"check", "eval", "note"},
                 NEW ok \in BOOLEAN, log' = log \cup {Entry(r, k, ok)},
                 pc[r] \notin Errors, pc'[r] \notin Errors,
                 \A q \in Runs \ {r} : pc'[q] = pc[q]
          PROVE  \A q \in Runs : pc'[q] \in Errors => Checked(q)' = 1..commands
      <3>1. \A q \in Runs \ {r} : Of(q)' = Of(q)
        BY <2>4, OwnRecord
      <3>2. QED
        BY <2>4, <3>1 DEF SkipInv, Checked
    <2>5. ASSUME NEW r \in Runs, NoChecks(r) \/ RecordCheck(r) \/ RecordLine(r)
          PROVE  \A q \in Runs : pc'[q] \in Errors => Checked(q)' = 1..commands
      <3>1. CASE NoChecks(r)
        BY <1>0, <2>4, <3>1 DEF NoChecks, GoTo, TypeOK, Errors
      <3>2. CASE RecordCheck(r)
        BY <1>0, <2>4, <3>2 DEF RecordCheck, GoTo, TypeOK, Errors
      <3>3. CASE RecordLine(r)
        BY <1>0, <2>4, <3>3 DEF RecordLine, GoTo, TypeOK, Errors
      <3>4. QED
        BY <2>5, <3>1, <3>2, <3>3
    <2>6. ASSUME log' = log,
                 \A q \in Runs : pc'[q] \in Errors => pc[q] \in Errors
          PROVE  \A q \in Runs : pc'[q] \in Errors => Checked(q)' = 1..commands
      BY <2>6, SameRecords DEF SkipInv
    <2>7. ASSUME NEW r \in Runs,
                 \/ Get(r) \/ LoadProject(r) \/ CheckStart(r) \/ CheckRefused(r)
                 \/ Exit(r) \/ Timeout(r) \/ Drain(r) \/ NextCheck(r)
                 \/ MoveRead(r) \/ MoveWrite(r) \/ Stay(r)
          PROVE  \A q \in Runs : pc'[q] \in Errors => Checked(q)' = 1..commands
      <3>1. /\ log' = log
            /\ \A q \in Runs : pc'[q] \in Errors => pc[q] \in Errors
        BY <1>0, <2>7
           DEF Get, LoadProject, CheckStart, CheckRefused, Exit, Timeout,
               ChildGone, Left, Drain, NextCheck, MoveRead, MoveWrite, Stay,
               disk, GoTo, TypeOK, Errors
      <3>2. QED
        BY <2>6, <3>1
    <2>8. ASSUME \/ \E from, to \in Statuses : HandMove(from, to)
                 \/ Tear
                 \/ UNCHANGED vars
          PROVE  log' = log /\ pc' = pc
      BY <2>8 DEF HandMove, Tear, vars
    <2>9. QED
      BY <2>1, <2>2, <2>3, <2>5, <2>6, <2>7, <2>8 DEF Next, Step
  <1>4. QED
    BY <1>1, <1>2, <1>3

(* As long as every file decodes and every line can be recorded, verify stops
   for nothing: a run that is over has a record of every check, whichever of
   them failed. *)
THEOREM EveryCheckRecorded ==
  ASSUME EveryRecordWritten
  PROVE  Spec => [](\A r \in Runs : pc[r] \in Over => Checked(r) = 1..commands)
  <1>1. SkipInv /\ [Next]_vars => SkipInv'
    BY SkipStep
  <1>2. SkipInv => \A r \in Runs : pc[r] \in Over => Checked(r) = 1..commands
    BY DEF SkipInv, RunInv, RunOK, Over
  <1>3. QED
    BY <1>1, <1>2, SkipInit, PTL DEF Spec

-----------------------------------------------------------------------------
(* A verification goes forward and waits for nothing but its checks.       *)

(* The stages a run has before it: at most six for each check it has not come
   to. *)
Stages(r) ==
  LET unstarted == 6 * (commands - at[r])
  IN  CASE pc[r] = "new"      -> 6 * commands + 5
        [] pc[r] = "load"     -> 6 * commands + 4
        [] pc[r] = "running"  -> unstarted + 8
        [] pc[r] = "draining" -> unstarted + 7
        [] pc[r] = "record"   -> unstarted + 6
        [] pc[r] = "lines"    -> unstarted + 5
        [] pc[r] = "start"    -> unstarted + 3
        [] pc[r] = "decide"   -> 2
        [] pc[r] = "write"    -> 1
        [] pc[r] \in Over     -> 0

(* A run stays where it is, comes to a later stage, or has one line fewer to
   parse at the same one. *)
GoesForward(r) ==
  \/ UNCHANGED <<pc[r], at[r], output[r]>>
  \/ Stages(r)' < Stages(r)
  \/ Stages(r)' = Stages(r) /\ Len(output[r])' < Len(output[r])

(* Between two checks there is one more to start, or there is none at all and
   a note to write.  At "record", "lines" and "decide" the conditions of the
   steps are a condition and its negation; only at "running" and "draining"
   does a run wait for somebody else. *)
HasNextStep(r) == pc[r] = "start" => at[r] < commands \/ commands = 0

LEMMA StagesType ==
  ASSUME RunInv, NEW r \in Runs PROVE Stages(r) \in Nat
  <1>1. /\ commands \in Nat /\ at[r] \in Nat /\ pc[r] \in PC
        /\ pc[r] \in {"running", "draining", "record", "lines", "start"} =>
             at[r] <= commands
    BY MaxChecksAssumption DEF RunInv, TypeOK, RunOK
  <1>2. QED
    BY <1>1 DEF Stages, PC, Over, Errors

(* Nobody changes what there is to run. *)
LEMMA CommandsStay == [Next]_vars => commands' = commands
  BY DEF Next, Step, Get, LoadProject, Refuse, NoChecks, CheckStart,
         CheckRefused, Exit, Timeout, ChildGone, Drain, RecordCheck, RecordLine,
         NextCheck, Abort, MoveRead, MoveWrite, MoveRefused, Stay, HandMove,
         Tear, Crash, disk, vars

LEMMA ForwardStep ==
  ASSUME RunInv, [Next]_vars, NEW r \in Runs PROVE GoesForward(r)
  <1>0. /\ TypeOK /\ commands \in Nat /\ at[r] \in Nat /\ commands' = commands
        /\ pc[r] \in PC
    <2>1. TypeOK /\ commands \in Nat /\ at[r] \in Nat /\ pc[r] \in PC
      BY MaxChecksAssumption DEF RunInv, TypeOK
    <2>2. commands' = commands
      BY CommandsStay
    <2>3. QED
      BY <2>1, <2>2
  <1>1. ASSUME NEW q \in Runs, q # r,
               \/ Get(q) \/ Refuse(q) \/ Step(q) \/ CheckRefused(q) \/ Exit(q)
               \/ Timeout(q) \/ Drain(q) \/ Crash(q)
        PROVE  GoesForward(r)
    BY <1>0, <1>1
    DEF TypeOK, GoTo, Step, Get, LoadProject, Refuse, NoChecks, CheckStart,
        CheckRefused, Exit, Timeout, ChildGone, Drain, RecordCheck, RecordLine,
        NextCheck, Abort, MoveRead, MoveWrite, MoveRefused, Stay, Crash, disk,
        GoesForward
  <1>2. CASE Get(r)
    <2>1. pc[r] = "new" /\ pc'[r] = "load"
      BY <1>0, <1>2 DEF Get, GoTo, TypeOK
    <2>2. QED
      BY <1>0, <2>1 DEF Stages, GoesForward, Over, Errors
  <1>12. CASE LoadProject(r)
    <2>1. pc[r] = "load" /\ pc'[r] = "start" /\ at'[r] = 0
      BY <1>0, <1>12 DEF LoadProject, GoTo, TypeOK, RunInv, RunOK
    <2>2. QED
      BY <1>0, <2>1 DEF Stages, GoesForward, Over, Errors
  <1>13. CASE MoveRead(r)
    <2>1. pc[r] = "decide" /\ pc'[r] = "write"
      BY <1>0, <1>13 DEF MoveRead, GoTo, TypeOK
    <2>2. QED
      BY <1>0, <2>1 DEF Stages, GoesForward, Over, Errors
  <1>3. CASE NoChecks(r)
    <2>1. pc[r] = "start" /\ pc'[r] = "decide" /\ at[r] <= commands
      BY <1>0, <1>3 DEF NoChecks, GoTo, TypeOK, RunInv, RunOK
    <2>2. QED
      BY <1>0, <2>1 DEF Stages, GoesForward, Over, Errors
  <1>4. CASE CheckStart(r)
    <2>1. pc[r] = "start" /\ pc'[r] = "running" /\ at'[r] = at[r] + 1
      BY <1>0, <1>4 DEF CheckStart, GoTo, TypeOK
    <2>2. QED
      BY <1>0, <2>1 DEF Stages, GoesForward, Over, Errors
  <1>5. CASE CheckRefused(r) \/ Exit(r) \/ Timeout(r)
    <2>1. pc[r] = "running" /\ pc'[r] \in {"record", "draining"} /\ at' = at
      BY <1>0, <1>5
      DEF CheckRefused, Exit, Timeout, ChildGone, Left, GoTo, TypeOK
    <2>2. QED
      BY <1>0, <2>1 DEF Stages, GoesForward, Over, Errors
  <1>6. CASE Drain(r) \/ RecordCheck(r)
    <2>1. /\ at' = at
          /\ \/ pc[r] = "draining" /\ pc'[r] = "record"
             \/ pc[r] = "record" /\ pc'[r] = "lines"
      BY <1>0, <1>6 DEF Drain, RecordCheck, GoTo, TypeOK
    <2>2. QED
      BY <1>0, <2>1 DEF Stages, GoesForward, Over, Errors
  <1>7. CASE RecordLine(r)
    <2>1. /\ at' = at /\ pc' = pc
          /\ output[r] \in Seq(LineKinds) /\ output[r] # <<>>
          /\ output'[r] = Tail(output[r])
      BY <1>0, <1>7 DEF RecordLine, TypeOK
    <2>2. Len(output'[r]) < Len(output[r])
      BY <2>1
    <2>3. Stages(r)' = Stages(r)
      BY <1>0, <2>1 DEF Stages, Over, Errors
    <2>4. QED
      BY <2>2, <2>3 DEF GoesForward
  <1>8. CASE NextCheck(r)
    <2>1. /\ pc[r] = "lines" /\ at' = at /\ at[r] <= commands
          /\ pc'[r] \in {"start", "decide"}
      BY <1>0, <1>8 DEF NextCheck, GoTo, TypeOK
    <2>2. QED
      BY <1>0, <2>1 DEF Stages, GoesForward, Over, Errors
  <1>9. CASE \/ Refuse(r) \/ Abort(r) \/ MoveWrite(r) \/ MoveRefused(r)
             \/ Stay(r) \/ Crash(r)
    <2>1. /\ pc[r] \notin Over /\ pc'[r] \in Over
          /\ pc[r] \in {"running", "draining", "record", "lines", "start"} =>
               at[r] <= commands
      BY <1>0, <1>9
      DEF Refuse, Abort, MoveWrite, MoveRefused, Stay, Crash, GoTo, TypeOK,
          RunInv, RunOK, Over, Errors
    <2>2. QED
      BY <1>0, <2>1 DEF Stages, GoesForward, PC, Over, Errors
  <1>10. CASE (\E from, to \in Statuses : HandMove(from, to)) \/ Tear
              \/ UNCHANGED vars
    BY <1>10 DEF HandMove, Tear, vars, GoesForward
  <1>11. QED
    BY <1>1, <1>2, <1>3, <1>4, <1>5, <1>6, <1>7, <1>8, <1>9, <1>10,
       <1>12, <1>13 DEF Next, Step

(* verify makes no loop: the stages of a run are a natural number that only
   falls, and the lines of one check are parsed once each, whatever the checks
   print and however many runs overlap. *)
THEOREM RunsGoForward ==
  Spec => [][\A r \in Runs : Stages(r) \in Nat /\ GoesForward(r)]_vars
  <1>1. RunInv /\ [Next]_vars =>
          \A r \in Runs : Stages(r) \in Nat /\ GoesForward(r)
    BY StagesType, ForwardStep
  <1>2. QED
    BY <1>1, Inductive, PTL DEF Spec

(* And it waits for nothing but a check that runs, and whoever holds the
   output of one: between two checks it always goes on.  With the theorem
   above this is all of VerifyMovesOn but what is assumed of the checks. *)
THEOREM RunsNeverStall == Spec => [](\A r \in Runs : HasNextStep(r))
  <1> DEFINE I == \A r \in Runs : HasNextStep(r)
  <1>1. Init => I
    BY DEF Init, HasNextStep
  <1>2. RunInv /\ I /\ [Next]_vars => I'
    <2> SUFFICES ASSUME RunInv, I, [Next]_vars, NEW r \in Runs
                 PROVE  HasNextStep(r)'
      OBVIOUS
    <2>0. TypeOK /\ commands \in Nat /\ at[r] \in Nat
      BY MaxChecksAssumption DEF RunInv, TypeOK
    <2>1. CASE LoadProject(r)
      <3>1. at[r] = 0 /\ at'[r] = 0 /\ commands' = commands
        BY <2>0, <2>1 DEF LoadProject, disk, RunInv, RunOK
      <3>2. QED
        BY <2>0, <3>1 DEF HasNextStep
    <2>2. CASE NextCheck(r)
      BY <2>0, <2>2 DEF NextCheck, GoTo, TypeOK, disk, HasNextStep
    <2>3. CASE pc'[r] = "start" /\ ~LoadProject(r) /\ ~NextCheck(r)
      <3>1. pc[r] = "start" /\ at'[r] = at[r]
        <4> USE DEF TypeOK, GoTo, disk
        <4>1. ASSUME NEW q \in Runs, LoadProject(q) \/ NextCheck(q) \/ Get(q)
              PROVE  pc[r] = "start" /\ at'[r] = at[r]
          BY <2>0, <2>3, <4>1 DEF LoadProject, NextCheck, Get
        <4>2. ASSUME NEW q \in Runs,
                     NoChecks(q) \/ CheckStart(q) \/ RecordCheck(q) \/ RecordLine(q)
              PROVE  pc[r] = "start" /\ at'[r] = at[r]
          BY <2>0, <2>3, <4>2 DEF NoChecks, CheckStart, RecordCheck, RecordLine
        <4>3. ASSUME NEW q \in Runs,
                     \/ Refuse(q) \/ Abort(q) \/ MoveRead(q) \/ MoveWrite(q)
                     \/ MoveRefused(q) \/ Stay(q) \/ Crash(q) \/ Drain(q) \/ CheckRefused(q)
              PROVE  pc[r] = "start" /\ at'[r] = at[r]
          BY <2>0, <2>3, <4>3
          DEF Refuse, Abort, MoveRead, MoveWrite, MoveRefused, Stay, Crash,
              Drain, CheckRefused
        <4>4. ASSUME NEW q \in Runs, Exit(q) \/ Timeout(q)
              PROVE  pc[r] = "start" /\ at'[r] = at[r]
          BY <2>0, <2>3, <4>4 DEF Exit, Timeout, ChildGone, Left
        <4>5. QED
          BY <2>3, <4>1, <4>2, <4>3, <4>4 DEF Next, Step, HandMove, Tear, vars
      <3>2. commands' = commands
        BY CommandsStay
      <3>3. QED
        BY <3>1, <3>2 DEF HasNextStep
    <2>4. CASE pc'[r] # "start"
      BY <2>4 DEF HasNextStep
    <2>5. QED
      BY <2>1, <2>2, <2>3, <2>4
  <1>3. QED
    BY <1>1, <1>2, Inductive, PTL DEF Spec
=============================================================================
