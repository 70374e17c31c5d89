------------------------- MODULE ProjectRecordProofs ------------------------
(***************************************************************************)
(* Theorems about ProjectRecord: for any number of processes, whatever is  *)
(* asked and whoever dies, changes of project.md that do not overlap are   *)
(* single steps of ProjectLife.                                            *)
(***************************************************************************)
EXTENDS ProjectRecord, TLAPS

LEMMA IdleIsDoing == Idle \in Doing
  BY DEF Idle, Doing

LEMMA StartsDoing ==
  ASSUME NEW p \in Procs, Start(p)
  PROVE  \E c \in Doing, where \in {"load", "ask"} : Begin(p, c, where)
  <1>1. CASE \E c \in Commands \cup {[op |-> "init"]} : Begin(p, c, "load")
    <2>1. [op |-> "init"] \in Doing
      BY DEF Doing
    <2>2. QED
      BY <1>1, <2>1 DEF Doing
  <1>2. CASE \E c \in [op : {"next", "trilha_next"}] : Begin(p, c, "ask")
    <2>1. [op : {"next", "trilha_next"}] \subseteq Doing
      BY DEF Doing
    <2>2. QED
      BY <1>2, <2>1
  <1>3. QED
    BY <1>1, <1>2 DEF Start

LEMMA EmptyIsRecord == Empty \in Record /\ Bytes(Empty) = Empty
  <1>1. Empty \in Record
    BY DEF Empty, Record, Dates
  <1>2. ASSUME NEW r \in Record, r.at = "none" PROVE [r EXCEPT !.at = "none"] = r
    BY <1>2 DEF Record
  <1>4. ~Empty.paused /\ Empty.at = "none"
    BY DEF Empty
  <1>3. QED
    BY <1>1, <1>2, <1>4 DEF Bytes

LEMMA LoadedIsRecord ==
  ASSUME NEW f \in Record \cup {Missing, Bad}, f # Bad
  PROVE  Loaded(f) \in Record
  BY EmptyIsRecord DEF Loaded

LEMMA BytesIsRecord ==
  ASSUME NEW r \in Record
  PROVE  Bytes(r) \in Record
  BY DEF Bytes, Record

LEMMA DatedIsDue ==
  ASSUME NEW old \in Seq(Dates), NEW new \in Dates
  PROVE  Dated(old, new) \in Seq(Dates)
  <1>1. CASE old = <<>>
    BY <1>1 DEF Dated
  <1>2. CASE old # <<>>
    <2>1. Len(old) \in Nat /\ DOMAIN old = 1..Len(old) /\ 1 \in DOMAIN old
      BY <1>2
    <2>2. \A i \in DOMAIN old : old[i] \in Dates
      BY <2>1
    <2> DEFINE first == IF new = "undated" THEN old[1] ELSE new
    <2>3. first \in Dates
      BY <2>1, <2>2
    <2> HIDE DEF first
    <2>4. [old EXCEPT ![1] = first] \in Seq(Dates)
      BY <2>1, <2>2, <2>3
    <2>5. Dated(old, new) = [old EXCEPT ![1] = first]
      BY <1>2 DEF Dated, first
    <2>6. QED
      BY <2>4, <2>5
  <1>3. QED
    BY <1>1, <1>2

LEMMA ApplyIsRecord ==
  ASSUME NEW c \in Command, NEW r \in Record, Applies(c, r)
  PROVE  Apply(c, r) \in Record
  <1>1. CASE c \in [op : {"pause", "resume", "unlimit"}]
    BY <1>1 DEF Apply, Record
  <1>2. CASE c \in [op : {"limit"}, to : Limits]
    BY <1>2 DEF Apply, Record
  <1>3. CASE c \in [op : {"milestone"}, id : Milestones, due : Dates]
    <2>1. Dated(r.due[c.id], c.due) \in Seq(Dates)
      <3>1. r.due[c.id] \in Seq(Dates) /\ c.due \in Dates
        BY <1>3 DEF Record
      <3>2. QED
        BY <3>1, DatedIsDue
    <2>2. QED
      BY <1>3, <2>1 DEF Apply, Record
  <1>4. CASE c \in [op : {"drop"}, id : Milestones]
    <2>1. r.due[c.id] \in Seq(Dates) /\ r.due[c.id] # <<>>
      BY <1>4 DEF Record, Applies
    <2>2. Tail(r.due[c.id]) \in Seq(Dates)
      BY <2>1
    <2>3. QED
      BY <1>4, <2>2 DEF Apply, Record
  <1>5. QED
    BY <1>1, <1>2, <1>3, <1>4 DEF Command

LEMMA TypeStep == TypeOK /\ [Next]_vars => TypeOK'
  <1> SUFFICES ASSUME TypeOK, [Next]_vars PROVE TypeOK'
    OBVIOUS
  <1> USE EmptyIsRecord, IdleIsDoing DEF TypeOK, GoTo, End
  <1>1. CASE UNCHANGED vars
    BY <1>1 DEF vars
  <1>2. ASSUME Act, Watch PROVE TypeOK'
    <2>1. stood' \in [Procs -> BOOLEAN]
      BY <1>2 DEF Watch, Paused
    <2>2. ASSUME NEW p \in Procs, Load(p) PROVE TypeOK'
      <3>1. Apply(cmd[p], Loaded(file)) \in Record
        BY <2>2, CommandsAssumption, LoadedIsRecord, ApplyIsRecord DEF Load, Readable
      <3>2. QED
        BY <2>1, <2>2, <3>1 DEF Load
    <2>3. ASSUME NEW p \in Procs, SaveOpen(p) PROVE TypeOK'
      BY <2>1, <2>3, BytesIsRecord DEF SaveOpen
    <2>4. ASSUME NEW p \in Procs, LoadFails(p) \/ SaveRefused(p) PROVE TypeOK'
      BY <2>1, <2>4 DEF LoadFails, SaveRefused
    <2>11. ASSUME NEW p \in Procs, SaveWrite(p) PROVE TypeOK'
      BY <2>1, <2>11 DEF SaveWrite
    <2>10. ASSUME NEW p \in Procs, InitStat(p) PROVE TypeOK'
      <3>1. CASE file = Missing /\ ~torn
        BY <2>1, <2>10, <3>1 DEF InitStat
      <3>2. CASE ~(file = Missing /\ ~torn)
        BY <2>1, <2>10, <3>2 DEF InitStat
      <3>3. QED
        BY <3>1, <3>2
    <2>5. ASSUME NEW p \in Procs,
                 \/ NextGraph(p) \/ NextOffers(p) \/ NextPaused(p)
                 \/ AskPaused(p) \/ AskLoads(p) \/ AskOffers(p)
          PROVE  TypeOK'
      BY <2>1, <2>5 DEF NextGraph, NextOffers, NextPaused, AskPaused, AskLoads, AskOffers
    <2>6. ASSUME NEW p \in Procs, Start(p) PROVE TypeOK'
      <3>1. PICK c \in Doing, where \in {"load", "ask"} : Begin(p, c, where)
        BY <2>6, StartsDoing
      <3>2. QED
        BY <2>1, <3>1 DEF Begin, Busy
    <2>7. ASSUME NEW p \in Procs, Crash(p) PROVE TypeOK'
      BY <2>1, <2>7 DEF Crash
    <2>8. ASSUME Edited PROVE TypeOK'
      BY <2>1, <2>8, HandmadeAssumption DEF Edited, Edit, Busy
    <2>9. QED
      BY <1>2, <2>2, <2>3, <2>4, <2>5, <2>6, <2>7, <2>8, <2>10, <2>11 DEF Act, Step
  <1>3. QED
    BY <1>1, <1>2 DEF Next

LEMMA TypeInit == Init => TypeOK
  BY EmptyIsRecord, IdleIsDoing, HandmadeAssumption DEF Init, TypeOK

(* Whatever the commands do at the same time, project.md holds a record, the
   template or nothing a command reads (ProjectRecord, LoadProject and
   SaveProject). *)
THEOREM TypeCorrect == Spec => []TypeOK
  <1> QED
    BY TypeInit, TypeStep, PTL DEF Spec

-----------------------------------------------------------------------------
(* What a command that has loaded the record holds, unless another change  *)
(* has come in between: its one change of what the file still says.        *)

Change(p) ==
  /\ cmd[p] \in Commands /\ file # Bad
  /\ Applies(cmd[p], Loaded(file))

Template(p) == file = Missing /\ doc[p] = Empty

Draft(p) == (Change(p) /\ doc[p] = Apply(cmd[p], Loaded(file))) \/ Template(p)

Final(p) ==
  \/ /\ Change(p) /\ Validate(Apply(cmd[p], Loaded(file)))
     /\ doc[p] = Bytes(Apply(cmd[p], Loaded(file)))
  \/ Template(p)

Fresh(p) ==
  /\ pc[p] = "save" => ~torn /\ Draft(p)
  /\ pc[p] = "write" => torn /\ Final(p)
  /\ \A q \in Procs : Changing(p) /\ Changing(q) => p = q

ChangeInv ==
  /\ TypeOK
  /\ \A p \in Procs : pc[p] \in {"idle", "load"} => doc[p] = Empty
  /\ ~clash => \A p \in Procs : Fresh(p)

LEMMA ChangeInit == Init => ChangeInv
  BY TypeInit DEF Init, ChangeInv, Fresh, Changing

LEMMA ClashStays == Act /\ ~clash' => ~clash
  BY DEF Act, Step, Start, Begin, Crash, Edited, Edit, Load, LoadFails, SaveOpen,
         SaveRefused, SaveWrite, InitStat, NextGraph, NextOffers, NextPaused,
         AskPaused, AskLoads, AskOffers

LEMMA ChangeStep == ChangeInv /\ [Next]_vars => ChangeInv'
  <1> SUFFICES ASSUME ChangeInv, [Next]_vars PROVE ChangeInv'
    OBVIOUS
  <1>1. TypeOK /\ TypeOK'
    BY TypeStep DEF ChangeInv
  <1>2. CASE UNCHANGED vars
    BY <1>1, <1>2 DEF vars, ChangeInv, Fresh, Changing, Draft, Final, Change, Template
  <1>3. CASE Act
    <2> DEFINE New(p) == pc[p] \in {"idle", "load"} => doc[p] = Empty
    <2>1. ASSUME NEW q \in Procs PROVE New(q)'
      BY <1>1, <1>3
      DEF TypeOK, ChangeInv, Act, Step, Start, Begin, Crash, Edited, Edit, GoTo, End,
          Load, LoadFails, SaveOpen, SaveRefused, SaveWrite, InitStat, NextGraph,
          NextOffers, NextPaused, AskPaused, AskLoads, AskOffers
    <2>2. ASSUME ~clash', NEW q \in Procs PROVE Fresh(q)'
      <3>1. ~clash /\ Fresh(q) /\ \A r \in Procs : Fresh(r)
        BY <1>3, <2>2, ClashStays DEF ChangeInv
      <3> USE <1>1, <2>2, <3>1 DEF TypeOK, GoTo, End
      <3>2. ASSUME NEW p \in Procs, Load(p) PROVE Fresh(q)'
        BY <3>2 DEF Load, Readable, Fresh, Changing, Draft, Final, Change, Template
      <3>3. ASSUME NEW p \in Procs, SaveOpen(p) PROVE Fresh(q)'
        <4>1. p # q => ~Changing(q)
          BY <3>3 DEF SaveOpen, Fresh, Changing
        <4>2. CASE p = q
          BY <3>3, <4>2, EmptyIsRecord
          DEF SaveOpen, Fresh, Changing, Draft, Final, Change, Template
        <4>3. CASE p # q
          BY <3>3, <4>1, <4>3 DEF SaveOpen, Fresh, Changing
        <4>4. QED
          BY <4>2, <4>3
      <3>4. ASSUME NEW p \in Procs, SaveWrite(p) PROVE Fresh(q)'
        <4>1. p # q => ~Changing(q)
          BY <3>4 DEF SaveWrite, Fresh, Changing
        <4>2. QED
          BY <3>4, <4>1 DEF SaveWrite, Fresh, Changing
      <3>5. ASSUME NEW p \in Procs, InitStat(p) PROVE Fresh(q)'
        <4>1. doc[p] = Empty
          BY <3>5 DEF InitStat, ChangeInv
        <4>2. QED
          BY <3>5, <4>1 DEF InitStat, Fresh, Changing, Draft, Final, Change, Template
      <3>6. ASSUME NEW p \in Procs, LoadFails(p) \/ SaveRefused(p) \/ Crash(p)
            PROVE  Fresh(q)'
        BY <3>6
        DEF LoadFails, SaveRefused, Crash, Fresh, Changing, Draft, Final, Change, Template
      <3>7. ASSUME NEW p \in Procs,
                   \/ NextGraph(p) \/ NextOffers(p) \/ NextPaused(p)
                   \/ AskPaused(p) \/ AskLoads(p) \/ AskOffers(p)
            PROVE  Fresh(q)'
        BY <3>7
        DEF NextGraph, NextOffers, NextPaused, AskPaused, AskLoads, AskOffers,
            Fresh, Changing, Draft, Final, Change, Template
      <3>8. ASSUME NEW p \in Procs, Start(p) PROVE Fresh(q)'
        <4>1. PICK c \in Doing, where \in {"load", "ask"} : Begin(p, c, where)
          BY <3>8, StartsDoing
        <4>2. QED
          BY <4>1 DEF Begin, Busy, Fresh, Changing, Draft, Final, Change, Template
      <3>9. ASSUME Edited PROVE Fresh(q)'
        BY <3>9 DEF Edited, Edit, Busy, Fresh, Changing
      <3>10. QED
        BY <1>3, <3>2, <3>3, <3>4, <3>5, <3>6, <3>7, <3>8, <3>9 DEF Act, Step
    <2>3. QED
      BY <1>1, <2>1, <2>2 DEF ChangeInv
  <1>4. QED
    BY <1>2, <1>3 DEF Next

(* The inductive invariant: while no two changes have overlapped, what a
   command is about to write is its one change of what the file says
   (cmdProject and SaveProject). *)
THEOREM Inductive == Spec => []ChangeInv
  <1> QED
    BY ChangeInit, ChangeStep, PTL DEF Spec

-----------------------------------------------------------------------------
(* ProjectLife speaks of the record as ProjectRecord does. *)
LEMMA SameWords ==
  ASSUME NEW c, NEW r
  PROVE  /\ Life!Loaded(r) = Loaded(r) /\ Life!Applies(c, r) = Applies(c, r)
         /\ Life!Apply(c, r) = Apply(c, r) /\ Life!Bytes(r) = Bytes(r)
         /\ Life!Validate(r) = Validate(r)
  <1>1. Life!Loaded(r) = Loaded(r)
    BY DEF Life!Loaded, Loaded, Life!Empty, Empty
  <1>2. Life!Applies(c, r) = Applies(c, r)
    BY DEF Life!Applies, Applies
  <1>3. Life!Apply(c, r) = Apply(c, r)
    BY DEF Life!Apply, Apply, Life!Dated, Dated
  <1>4. Life!Bytes(r) = Bytes(r)
    BY DEF Life!Bytes, Bytes
  <1>5. Life!Validate(r) = Validate(r)
    BY DEF Life!Validate, Validate
  <1>6. QED
    BY <1>1, <1>2, <1>3, <1>4, <1>5

LEMMA StepOfLife ==
  ASSUME ChangeInv, Next, ~clash', ~Edited
  PROVE  Life!Next \/ UNCHANGED Published
  <1>1. TypeOK
    BY DEF ChangeInv
  <1>2. ~clash /\ \A p \in Procs : Fresh(p)
    BY ClashStays DEF Next, ChangeInv
  <1> USE <1>1 DEF TypeOK, GoTo, End, Published
  <1>3. ASSUME NEW p \in Procs, SaveOpen(p) PROVE UNCHANGED Published
    BY <1>2, <1>3 DEF SaveOpen, Fresh
  <1>4. ASSUME NEW p \in Procs, SaveWrite(p) PROVE Life!Next
    <2>1. Published = file /\ Published' = doc[p] /\ Final(p)
      BY <1>2, <1>4 DEF SaveWrite, Fresh
    <2>2. CASE Template(p)
      BY <2>1, <2>2 DEF Template, Life!Next, Life!Create, Life!Empty, Empty
    <2>3. CASE /\ Change(p) /\ Validate(Apply(cmd[p], Loaded(file)))
               /\ doc[p] = Bytes(Apply(cmd[p], Loaded(file)))
      <3>1. cmd[p] \in Life!Command
        BY <2>3, CommandsAssumption DEF Change, Life!Command, Command, Life!Dates, Dates
      <3>2. PICK c \in Life!Command : c = cmd[p]
        BY <3>1
      <3>3. Life!Change(c)
        BY <2>1, <2>3, <3>2, SameWords DEF Change, Life!Change
      <3>4. QED
        BY <3>3 DEF Life!Next
    <2>4. QED
      BY <2>1, <2>2, <2>3 DEF Final
  <1>5. ASSUME NEW p \in Procs, Crash(p) PROVE Life!Next \/ UNCHANGED Published
    <2>1. CASE pc[p] = "write"
      <3>1. torn' /\ \A q \in Procs : pc'[q] # "write"
        BY <1>2, <1>5, <2>1 DEF Crash, Fresh, Changing
      <3>2. Published' = Bad
        BY <3>1
      <3>3. QED
        BY <3>2 DEF Life!Next, Life!Break
    <2>2. CASE pc[p] # "write"
      BY <1>5, <2>2 DEF Crash
    <2>3. QED
      BY <2>1, <2>2
  <1>6. ASSUME NEW p \in Procs, Load(p) \/ LoadFails(p) \/ SaveRefused(p) \/ InitStat(p)
        PROVE  UNCHANGED Published
    BY <1>6 DEF Load, LoadFails, SaveRefused, InitStat
  <1>7. ASSUME NEW p \in Procs,
               \/ NextGraph(p) \/ NextOffers(p) \/ NextPaused(p)
               \/ AskPaused(p) \/ AskLoads(p) \/ AskOffers(p)
        PROVE  UNCHANGED Published
    BY <1>7 DEF NextGraph, NextOffers, NextPaused, AskPaused, AskLoads, AskOffers
  <1>8. ASSUME NEW p \in Procs, Start(p) PROVE UNCHANGED Published
    BY <1>8 DEF Start, Begin
  <1>9. QED
    BY <1>3, <1>4, <1>5, <1>6, <1>7, <1>8 DEF Next, Act, Step

(* For any number of processes, commands on project.md that do not overlap
   change one thing of the record that is there, or nothing: no limit takes
   back a pause, a refused command leaves no trace, init replaces nothing
   (cmdProject, SaveProject, Init). *)
THEOREM AloneImplementsLife == Spec => LifeUnlessClash
  <1>1. ChangeInv /\ [Next]_vars =>
          [clash' \/ Edited \/ Life!Next \/ UNCHANGED Published]_vars
    BY StepOfLife
  <1>2. QED
    BY <1>1, Inductive, PTL DEF Spec, LifeUnlessClash

-----------------------------------------------------------------------------
(* trilha_next asks the project before it asks for the tasks: when it is to
   offer work, the project has not been paused all along. *)

QuietInv ==
  \A p \in Procs : stood[p] =>
    Paused(file) /\ ~(pc[p] = "offer" /\ cmd[p].op = "trilha_next")

LEMMA QuietStep == TypeOK /\ QuietInv /\ [Next]_vars => QuietInv'
  <1> SUFFICES ASSUME TypeOK, QuietInv, [Next]_vars PROVE QuietInv'
    OBVIOUS
  <1>1. CASE UNCHANGED vars
    BY <1>1 DEF vars, QuietInv, Paused
  <1>2. ASSUME Act, Watch, NEW q \in Procs,
               pc'[q] = "offer", cmd'[q].op = "trilha_next"
        PROVE  ~stood'[q]
    <2>1. \/ pc[q] = "offer" /\ cmd[q].op = "trilha_next"
          \/ Readable /\ ~Loaded(file).paused
      <3> USE DEF TypeOK, GoTo, End
      <3>1. ASSUME NEW p \in Procs, Step(p) \/ Crash(p)
            PROVE  \/ pc[q] = "offer" /\ cmd[q].op = "trilha_next"
                   \/ Readable /\ ~Loaded(file).paused
        BY <1>2, <3>1
        DEF Step, Crash, Load, LoadFails, SaveOpen, SaveRefused, SaveWrite, InitStat,
            NextGraph, NextOffers, NextPaused, AskPaused, AskLoads, AskOffers
      <3>2. ASSUME NEW p \in Procs, Start(p)
            PROVE  pc[q] = "offer" /\ cmd[q].op = "trilha_next"
        <4>1. PICK c \in Doing, where \in {"load", "ask"} : Begin(p, c, where)
          BY <3>2, StartsDoing
        <4>2. p # q
          BY <1>2, <4>1 DEF Begin
        <4>3. QED
          BY <1>2, <4>1, <4>2 DEF Begin
      <3>3. ASSUME Edited PROVE pc[q] = "offer" /\ cmd[q].op = "trilha_next"
        BY <1>2, <3>3 DEF Edited, Edit
      <3>4. QED
        BY <1>2, <3>1, <3>2, <3>3 DEF Act
    <2>2. CASE pc[q] = "offer" /\ cmd[q].op = "trilha_next"
      BY <1>2, <2>2 DEF Watch, QuietInv
    <2>3. CASE Readable /\ ~Loaded(file).paused
      BY <1>2, <2>3, AbsentAssumption DEF Watch, Paused, Readable, Loaded
    <2>4. QED
      BY <2>1, <2>2, <2>3
  <1>3. ASSUME Watch, NEW q \in Procs, stood'[q] PROVE Paused(file')
    BY <1>3 DEF Watch
  <1>4. QED
    BY <1>1, <1>2, <1>3 DEF Next, QuietInv, Paused

(* A project that has been paused since before the question is offered no
   work by trilha_next, and by task next only at a moment when it cannot read
   project.md, whatever else goes on (cmdTask next, trilha_next). *)
THEOREM PausedIsQuiet == Spec => QuietWhenPaused
  <1>1. Init => QuietInv
    BY DEF Init, QuietInv
  <1>2. TypeOK /\ QuietInv /\ [Next]_vars =>
          [\A p \in Procs : stood[p] /\ Offer(p) => cmd[p].op = "next" /\ ~Readable]_vars
    <2> SUFFICES ASSUME TypeOK, QuietInv, Next, NEW p \in Procs, stood[p], Offer(p)
                 PROVE  cmd[p].op = "next" /\ ~Readable
      OBVIOUS
    <2>1. CASE NextOffers(p)
      BY <2>1, AbsentAssumption DEF NextOffers, Readable, Loaded, QuietInv, Paused
    <2>2. CASE AskOffers(p)
      BY <2>2 DEF AskOffers, QuietInv
    <2>3. QED
      BY <2>1, <2>2 DEF Offer
  <1>3. QED
    BY <1>1, <1>2, QuietStep, TypeCorrect, PTL DEF Spec, QuietWhenPaused

-----------------------------------------------------------------------------
(* Commands end: one that has started has a next step, and each of its     *)
(* steps leaves less to do.                                                *)

(* A command is at a place where its own steps are: everywhere the conditions
   of the steps for its kind are a condition and its negation, so one of them
   is possible. *)
HasNextStep(p) ==
  /\ pc[p] = "load" => cmd[p] \in Commands \/ cmd[p].op = "init"
  /\ pc[p] \in {"ask", "offer"} => cmd[p].op \in {"next", "trilha_next"}

(* The steps a command has before it, at most. *)
Left(p) ==
  CASE pc[p] = "load" -> 3
    [] pc[p] \in {"save", "ask"} -> 2
    [] pc[p] \in {"write", "offer"} -> 1
    [] OTHER -> 0

RunsDown(p) ==
  pc[p] # "idle" => /\ Left(p)' <= Left(p)
                    /\ Step(p) => Left(p)' < Left(p)

LEMMA PlacesStep ==
  TypeOK /\ (\A p \in Procs : HasNextStep(p)) /\ [Next]_vars =>
    (\A p \in Procs : HasNextStep(p))'
  <1> SUFFICES ASSUME TypeOK, \A p \in Procs : HasNextStep(p), [Next]_vars,
                      NEW p \in Procs
               PROVE  HasNextStep(p)'
    OBVIOUS
  <1> USE DEF TypeOK, GoTo, End
  <1>1. ASSUME NEW q \in Procs, Step(q) \/ Crash(q) PROVE HasNextStep(p)'
    BY <1>1
    DEF Step, Crash, Load, LoadFails, SaveOpen, SaveRefused, SaveWrite, InitStat,
        NextGraph, NextOffers, NextPaused, AskPaused, AskLoads, AskOffers, HasNextStep
  <1>2. ASSUME NEW q \in Procs, Start(q) PROVE HasNextStep(p)'
    <2>1. ASSUME NEW c \in Commands \cup {[op |-> "init"]}, Begin(q, c, "load")
          PROVE  HasNextStep(p)'
      BY <2>1 DEF Begin, HasNextStep
    <2>2. ASSUME NEW c \in [op : {"next", "trilha_next"}], Begin(q, c, "ask")
          PROVE  HasNextStep(p)'
      BY <2>2 DEF Begin, HasNextStep
    <2>3. QED
      BY <1>2, <2>1, <2>2 DEF Start
  <1>3. CASE Edited
    BY <1>3 DEF Edited, Edit, HasNextStep
  <1>4. CASE UNCHANGED vars
    BY <1>4 DEF vars, HasNextStep
  <1>5. QED
    BY <1>1, <1>2, <1>3, <1>4 DEF Next, Act

(* No command on project.md waits for another: a file it cannot read, a pause,
   a refusal by Validate each have an answer (LoadProject, SaveProject,
   `task next`, trilha_next). *)
THEOREM CommandsNeverWait == Spec => [](\A p \in Procs : HasNextStep(p))
  <1>1. Init => \A p \in Procs : HasNextStep(p)
    BY DEF Init, HasNextStep
  <1>2. QED
    BY <1>1, PlacesStep, TypeCorrect, PTL DEF Spec

(* A command on project.md that is scheduled ends after three steps at most,
   whatever the others do meanwhile. *)
THEOREM CommandsRunDown == Spec => [][\A p \in Procs : RunsDown(p)]_vars
  <1>1. TypeOK /\ [Next]_vars => [\A p \in Procs : RunsDown(p)]_vars
    <2> SUFFICES ASSUME TypeOK, Next, NEW p \in Procs, pc[p] # "idle"
                 PROVE  /\ Left(p)' <= Left(p)
                        /\ Step(p) => Left(p)' < Left(p)
      BY DEF RunsDown
    <2> USE DEF TypeOK, GoTo, End
    <2>1. ASSUME Step(p) PROVE Left(p)' < Left(p)
      BY <2>1
      DEF Step, Load, LoadFails, SaveOpen, SaveRefused, SaveWrite, InitStat,
          NextGraph, NextOffers, NextPaused, AskPaused, AskLoads, AskOffers, Left
    <2>2. ASSUME pc'[p] = "idle" PROVE Left(p)' <= Left(p)
      BY <2>2 DEF Left
    <2>3. ASSUME pc'[p] = pc[p] PROVE Left(p)' <= Left(p)
      BY <2>3 DEF Left
    <2>4. ASSUME ~Step(p) PROVE pc'[p] = "idle" \/ pc'[p] = pc[p]
      <3>1. ASSUME NEW q \in Procs, q # p, Step(q) \/ Start(q) \/ Crash(q)
            PROVE  pc'[p] = pc[p]
        BY <3>1
        DEF Step, Start, Begin, Crash, Load, LoadFails, SaveOpen, SaveRefused,
            SaveWrite, InitStat, NextGraph, NextOffers, NextPaused, AskPaused,
            AskLoads, AskOffers
      <3>2. ~Start(p)
        BY DEF Start, Begin
      <3>3. QED
        BY <2>4, <3>1, <3>2 DEF Next, Act, Crash, Edited, Edit
    <2>5. Left(p)' \in Nat /\ Left(p) \in Nat
      BY DEF Left
    <2>6. QED
      BY <2>1, <2>2, <2>3, <2>4, <2>5
  <1>2. QED
    BY <1>1, TypeCorrect, PTL DEF Spec
=============================================================================
