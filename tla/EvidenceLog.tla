---------------------------- MODULE EvidenceLog -----------------------------
(***************************************************************************)
(* The evidence of one task: a directory of records, one JSON file each,   *)
(* that several processes append to and that Store.Move counts before it   *)
(* closes the task (task/evidence.go, task/attest.go).                     *)
(*                                                                         *)
(* RecordSigned lists the directory, numbers its record with the length of *)
(* the list plus one and writes <number>-<kind>.json; nothing reserves the *)
(* number.  A record is its kind and, for an attestation, who signed it,   *)
(* in which role, and whether the signature holds under the project's      *)
(* keys.  `clash` is history: whether two recorders were ever at work at   *)
(* once.                                                                   *)
(***************************************************************************)
EXTENDS Integers, FiniteSets

CONSTANTS
  Recorders,  \* processes that record evidence
  Closers,    \* processes that move the task to done and reopen it
  Entries,    \* what they record
  Keys,       \* key ids
  NoKey,      \* the key of a record nobody signed
  Wanted,     \* review.roles of the task; empty asks for no role
  Required,   \* review.quorum of the task
  MaxRecords, \* bound: the largest sequence number a run may use
  NoRecord,   \* what a file that does not exist holds
  Crashes     \* whether a process may die inside a command

Kinds == {"check", "note", "attestation"}

Record == [kind : Kinds, key : Keys \cup {NoKey}, role : STRING,
           trusted : BOOLEAN]

ASSUME ActorsAssumption == Recorders \cap Closers = {}
ASSUME EntriesAssumption == Entries \subseteq Record
ASSUME KeysAssumption == IsFiniteSet(Keys) /\ NoKey \notin Keys
ASSUME RequiredAssumption == Required \in Nat
ASSUME MaxRecordsAssumption == MaxRecords \in Nat
ASSUME NoRecordAssumption == NoRecord \notin Record
ASSUME CrashesAssumption == Crashes \in BOOLEAN

Procs == Recorders \cup Closers

(* The file name: <<sequence, kind>>. *)
Names == (1..MaxRecords) \X Kinds

VARIABLES
  dir,     \* what each file of the directory says, or NoRecord
  torn,    \* the files that are truncated
  closed,  \* whether the task is done
  pc,      \* where each process is
  mem,     \* the record a recorder is about to write
  todo,    \* the files its list has still to read
  got,     \* the names and records its list has read
  clash    \* history: two recorders have overlapped

vars == <<dir, torn, closed, pc, mem, todo, got, clash>>

PC == {"idle", "list", "read", "write"}

TypeOK ==
  /\ dir \in [Names -> Record \cup {NoRecord}]
  /\ torn \subseteq Names
  /\ closed \in BOOLEAN
  /\ pc \in [Procs -> PC]
  /\ mem \in [Procs -> Record \cup {NoRecord}]
  /\ \A p \in Procs : p \in Recorders /\ pc[p] # "idle" => mem[p] \in Record
  /\ \A p \in Procs : pc[p] = "write" => p \in Recorders
  /\ todo \in [Procs -> SUBSET Names]
  /\ got \in [Procs -> SUBSET (Names \X Record)]
  /\ clash \in BOOLEAN

Init ==
  /\ dir = [n \in Names |-> NoRecord]
  /\ torn = {}
  /\ closed = FALSE
  /\ pc = [p \in Procs |-> "idle"]
  /\ mem = [p \in Procs |-> NoRecord]
  /\ todo = [p \in Procs |-> {}]
  /\ got = [p \in Procs |-> {}]
  /\ clash = FALSE

Written == {n \in Names : dir[n] # NoRecord}
OnDisk == Written \cup torn

GoTo(p, where) == pc' = [pc EXCEPT ![p] = where]

End(p) ==
  /\ GoTo(p, "idle")
  /\ mem' = [mem EXCEPT ![p] = NoRecord]
  /\ todo' = [todo EXCEPT ![p] = {}]
  /\ got' = [got EXCEPT ![p] = {}]

-----------------------------------------------------------------------------
(* ListEvidence: the names, then the records one after the other.          *)

ListDir(p) ==
  /\ pc[p] = "list"
  /\ todo' = [todo EXCEPT ![p] = OnDisk]
  /\ got' = [got EXCEPT ![p] = {}]
  /\ GoTo(p, "read")
  /\ UNCHANGED <<dir, torn, closed, mem, clash>>

NextFile(p, n) == n \in todo[p] /\ \A m \in todo[p] : n[1] <= m[1]

ReadRecord(p) ==
  /\ pc[p] = "read"
  /\ \E n \in Names :
       /\ NextFile(p, n) /\ n \notin torn /\ dir[n] # NoRecord
       /\ got' = [got EXCEPT ![p] = @ \cup {<<n, dir[n]>>}]
       /\ todo' = [todo EXCEPT ![p] = @ \ {n}]
  /\ UNCHANGED <<dir, torn, closed, pc, mem, clash>>

(* One record that does not decode fails the list, and the command. *)
ReadFails(p) ==
  /\ pc[p] = "read"
  /\ \E n \in torn : NextFile(p, n)
  /\ End(p)
  /\ UNCHANGED <<dir, torn, closed, clash>>

Listed(p) == pc[p] = "read" /\ todo[p] = {}

-----------------------------------------------------------------------------
(* RecordSigned.                                                           *)

Busy(p) == pc[p] # "idle"

Overlap(p) == \E q \in Recorders : q # p /\ Busy(q)

(* MUTANT of RecordStart: the record is not kept until it is numbered. *)
RecordStartEmpty(p, e) ==
  /\ ~Busy(p)
  /\ clash' = (clash \/ Overlap(p))
  /\ GoTo(p, "list")
  /\ UNCHANGED <<dir, torn, closed, mem, todo, got>>

RecordStart(p, e) ==
  /\ ~Busy(p)
  /\ mem' = [mem EXCEPT ![p] = e]
  /\ clash' = (clash \/ Overlap(p))
  /\ GoTo(p, "list")
  /\ UNCHANGED <<dir, torn, closed, todo, got>>

(* MUTANTS of NextName: a number per kind, the newest number again, and a
   number left out. *)
NextNamePerKind(p) ==
  <<Cardinality({x \in got[p] : x[1][2] = mem[p].kind}) + 1, mem[p].kind>>

NextNameAgain(p) ==
  <<IF got[p] = {} THEN 1 ELSE Cardinality(got[p]), mem[p].kind>>

NextNameSkips(p) == <<Cardinality(got[p]) + 2, mem[p].kind>>

NextName(p) == <<Cardinality(got[p]) + 1, mem[p].kind>>

(* The file is created, or emptied when another recorder took its name. *)
RecordOpen(p) ==
  /\ p \in Recorders /\ Listed(p)
  /\ NextName(p) \in Names
  /\ dir' = [dir EXCEPT ![NextName(p)] = NoRecord]
  /\ torn' = torn \cup {NextName(p)}
  /\ GoTo(p, "write")
  /\ UNCHANGED <<closed, mem, todo, got, clash>>

(* The bound: no number is left for the run to use. *)
RecordFull(p) ==
  /\ p \in Recorders /\ Listed(p)
  /\ NextName(p) \notin Names
  /\ End(p)
  /\ UNCHANGED <<dir, torn, closed, clash>>

RecordWrite(p) ==
  /\ pc[p] = "write"
  /\ dir' = [dir EXCEPT ![NextName(p)] = mem[p]]
  /\ torn' = torn \ {NextName(p)}
  /\ End(p)
  /\ UNCHANGED <<closed, clash>>

(* Another recorder wrote a longer record after p emptied the file: the end
   of it stays behind what p writes, and the file is no JSON. *)
RecordMixed(p) ==
  /\ pc[p] = "write" /\ NextName(p) \in Written
  /\ dir' = [dir EXCEPT ![NextName(p)] = NoRecord]
  /\ torn' = torn \cup {NextName(p)}
  /\ End(p)
  /\ UNCHANGED <<closed, clash>>

-----------------------------------------------------------------------------
(* QuorumOf and the end of Store.Move to done.                             *)

Counts(r) ==
  /\ r.kind = "attestation"
  /\ r.key # NoKey /\ r.trusted
  /\ Wanted = {} \/ r.role \in Wanted

(* The distinct keys that attested, of a set of records. *)
Have(records) == {r.key : r \in {x \in records : Counts(x)}}

Met(records) == Cardinality(Have(records)) >= Required

Recorded == {dir[n] : n \in Written}

CloseStart(p) ==
  /\ ~Busy(p) /\ ~closed
  /\ GoTo(p, "list")
  /\ UNCHANGED <<dir, torn, closed, mem, todo, got, clash>>

(* MUTANT of Close: attestations are counted, not the keys that signed. *)
CloseCountsRecords(p) ==
  /\ p \in Closers /\ Listed(p)
  /\ closed' = \/ closed
               \/ Cardinality({x \in got[p] : Counts(x[2])}) >= Required
  /\ End(p)
  /\ UNCHANGED <<dir, torn, clash>>

Close(p) ==
  /\ p \in Closers /\ Listed(p)
  /\ closed' = (closed \/ Met({x[2] : x \in got[p]}))
  /\ End(p)
  /\ UNCHANGED <<dir, torn, clash>>

(* done -> ready and back to review by other moves: the evidence stays. *)
Reopen(p) ==
  /\ ~Busy(p) /\ closed
  /\ closed' = FALSE
  /\ UNCHANGED <<dir, torn, pc, mem, todo, got, clash>>

Crash(p) ==
  /\ Crashes /\ Busy(p)
  /\ End(p)
  /\ UNCHANGED <<dir, torn, closed, clash>>

-----------------------------------------------------------------------------
Step(p) ==
  \/ ListDir(p) \/ ReadRecord(p) \/ ReadFails(p)
  \/ RecordOpen(p) \/ RecordFull(p)
  \/ RecordWrite(p) \/ RecordMixed(p)
  \/ Close(p)

Next ==
  \/ \E p \in Procs : Step(p) \/ Crash(p)
  \/ \E p \in Recorders, e \in Entries : RecordStart(p, e)
  \/ \E p \in Closers : CloseStart(p) \/ Reopen(p)

Spec == Init /\ [][Next]_vars

-----------------------------------------------------------------------------
(* Properties.                                                             *)

(* The names a process has read. *)
Read(p) == {x[1] : x \in got[p]}

(* Recorders that do not overlap never edit a record, whichever of them dies
   in the middle.  When two do, a record is lost, but only to a recorder that
   took its list before the record was there: no record is replaced by one
   that could have read it. *)
RecordsKept ==
  [][\A n \in Written : dir'[n] # dir[n] =>
       /\ clash
       /\ \E p \in Recorders :
            Busy(p) /\ NextName(p) = n /\ n \notin Read(p)]_vars

(* A closed task has its quorum in the directory, not only in what the
   closing process read, unless two recorders overlapped. *)
ClosedHasQuorum == closed /\ ~clash => Met(Recorded)

(* No sequence number is larger than the number of files.  So the record
   that is written next, by a command that overlaps no other, has a number
   of its own, whatever collisions happened before. *)
NextIsFresh == \A n \in OnDisk : n[1] <= Cardinality(OnDisk)

(* While recorders do not overlap, a list is a prefix of the log: nothing a
   process has read is out of date, and no record older than the newest one
   it read is missing from it. *)
ReadsPrefix ==
  \A p \in Procs : Listed(p) /\ ~clash =>
    /\ \A x \in got[p] : dir[x[1]] = x[2]
    /\ \A n \in Written : n[1] <= Cardinality(got[p]) =>
         <<n, dir[n]>> \in got[p]

(* The strengthening of NextIsFresh that steps preserve: what a process has
   listed is on disk, and the file it has opened counts. *)
SeqInv ==
  /\ TypeOK
  /\ NextIsFresh
  /\ \A p \in Procs :
       /\ todo[p] \subseteq OnDisk
       /\ Read(p) \subseteq OnDisk
       /\ todo[p] \cap Read(p) = {}
       /\ \A x, y \in got[p] : x[1] = y[1] => x = y
       /\ pc[p] = "write" => NextName(p) \in OnDisk
=============================================================================
