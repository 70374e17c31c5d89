------------------------- MODULE EvidenceLogProofs --------------------------
(***************************************************************************)
(* Theorems about EvidenceLog, for any number of recorders.  The sequence  *)
(* numbers repair themselves (NextIsFresh), and a recorder replaces no     *)
(* record that it could have read.  As long as recorders do not overlap    *)
(* the log is what docs/protocol.md says of it: no record is ever changed, *)
(* and a task that is closed has its quorum on disk.                       *)
(***************************************************************************)
EXTENDS EvidenceLog, FiniteSetTheorems, Functions, TLAPS

LEMMA NamesFinite ==
  ASSUME NEW S \in SUBSET Names
  PROVE  IsFiniteSet(S) /\ Cardinality(S) \in Nat
  <1>1. IsFiniteSet(1..MaxRecords) /\ IsFiniteSet(Kinds)
    <2>1. IsFiniteSet({"check"} \cup {"note"})
      BY FS_Singleton, FS_AddElement
    <2>2. IsFiniteSet(({"check"} \cup {"note"}) \cup {"attestation"})
      BY <2>1, FS_AddElement
    <2>3. Kinds = ({"check"} \cup {"note"}) \cup {"attestation"}
      BY DEF Kinds
    <2>4. QED
      BY <2>2, <2>3, MaxRecordsAssumption, FS_Interval
  <1>2. IsFiniteSet(Names)
    BY <1>1, FS_Product DEF Names
  <1>3. QED
    BY <1>2, FS_Subset, FS_CardinalityType

LEMMA InitTypes == Init => TypeOK
  BY DEF Init, TypeOK, PC

LEMMA TypeStep == TypeOK /\ [Next]_vars => TypeOK'
  <1> SUFFICES ASSUME TypeOK, [Next]_vars PROVE TypeOK'
    OBVIOUS
  <1> USE DEF TypeOK, GoTo, PC, Busy
  <1>1. ASSUME NEW p \in Procs, ListDir(p) PROVE TypeOK'
    BY <1>1 DEF ListDir, OnDisk, Written
  <1>2. ASSUME NEW p \in Procs, ReadRecord(p) PROVE TypeOK'
    <2>1. PICK n \in Names :
            /\ dir[n] # NoRecord
            /\ got' = [got EXCEPT ![p] = @ \cup {<<n, dir[n]>>}]
            /\ todo' = [todo EXCEPT ![p] = @ \ {n}]
      BY <1>2 DEF ReadRecord
    <2>2. dir[n] \in Record
      BY <2>1
    <2>3. QED
      BY <1>2, <2>1, <2>2 DEF ReadRecord
  <1>3. ASSUME NEW p \in Procs, ReadFails(p) PROVE TypeOK'
    BY <1>3 DEF ReadFails, End
  <1>4. ASSUME NEW p \in Procs, RecordOpen(p) PROVE TypeOK'
    BY <1>4 DEF RecordOpen, Listed
  <1>5. ASSUME NEW p \in Procs, RecordFull(p) PROVE TypeOK'
    BY <1>5 DEF RecordFull, End
  <1>6. ASSUME NEW p \in Procs, RecordWrite(p) PROVE TypeOK'
    <2>1. mem[p] \in Record
      BY <1>6 DEF RecordWrite
    <2>2. QED
      BY <1>6, <2>1 DEF RecordWrite, End
  <1>7. ASSUME NEW p \in Procs, Close(p) PROVE TypeOK'
    BY <1>7 DEF Close, End
  <1>8. ASSUME NEW p \in Procs, Crash(p) PROVE TypeOK'
    BY <1>8 DEF Crash, End
  <1>9. ASSUME NEW p \in Recorders, NEW e \in Entries, RecordStart(p, e)
        PROVE  TypeOK'
    BY <1>9, EntriesAssumption DEF RecordStart, Procs, Overlap
  <1>10. ASSUME NEW p \in Closers, CloseStart(p) PROVE TypeOK'
    BY <1>10, ActorsAssumption DEF CloseStart, Procs
  <1>11. ASSUME NEW p \in Closers, Reopen(p) PROVE TypeOK'
    BY <1>11 DEF Reopen
  <1>12. ASSUME NEW p \in Procs, RecordMixed(p) PROVE TypeOK'
    BY <1>12 DEF RecordMixed, End, Written
  <1>13. CASE UNCHANGED vars
    BY <1>13 DEF vars
  <1>14. QED
    BY <1>1, <1>2, <1>3, <1>4, <1>5, <1>6, <1>7, <1>8, <1>9, <1>10, <1>11,
       <1>12, <1>13 DEF Next, Step

(* Type correctness: the directory holds records, and every process keeps
   what its step needs. *)
THEOREM TypeCorrect == Spec => []TypeOK
  BY InitTypes, TypeStep, PTL DEF Spec

-----------------------------------------------------------------------------
(* A list is never longer than the directory. *)
LEMMA ListBound ==
  ASSUME SeqInv, NEW p \in Procs
  PROVE  /\ IsFiniteSet(got[p]) /\ Cardinality(got[p]) \in Nat
         /\ Cardinality(got[p]) <= Cardinality(OnDisk)
  <1> DEFINE f == [x \in got[p] |-> x[1]]
  <1>1. IsFiniteSet(OnDisk) /\ Cardinality(OnDisk) \in Nat
    BY NamesFinite DEF OnDisk, Written, SeqInv, TypeOK
  <1>2. f \in [got[p] -> OnDisk] /\ \A x, y \in got[p] : f[x] = f[y] => x = y
    BY DEF SeqInv, Read
  <1>3. f \in Injection(got[p], OnDisk)
    BY <1>2 DEF Injection, IsInjective
  <1>4. IsFiniteSet(got[p]) /\ Cardinality(got[p]) <= Cardinality(OnDisk)
    BY <1>1, <1>3, FS_Injection
  <1>5. QED
    BY <1>4, FS_CardinalityType

(* A process that ends has nothing left to promise. *)
LEMMA EndKeeps ==
  ASSUME SeqInv, TypeOK', NEW p \in Procs, End(p), OnDisk' = OnDisk
  PROVE  SeqInv'
  BY DEF SeqInv, TypeOK, End, GoTo, NextIsFresh, NextName, Read

LEMMA SeqStep == SeqInv /\ [Next]_vars => SeqInv'
  <1> SUFFICES ASSUME SeqInv, [Next]_vars PROVE SeqInv'
    OBVIOUS
  <1>0. TypeOK /\ TypeOK'
    BY TypeStep DEF SeqInv
  <1>1. ASSUME NEW p \in Procs, ListDir(p) PROVE SeqInv'
    BY <1>0, <1>1
       DEF ListDir, GoTo, SeqInv, TypeOK, NextIsFresh, NextName, OnDisk, Written,
           Read
  <1>2. ASSUME NEW p \in Procs, ReadRecord(p) PROVE SeqInv'
    <2>1. PICK n \in Names :
            /\ n \in todo[p]
            /\ got' = [got EXCEPT ![p] = @ \cup {<<n, dir[n]>>}]
            /\ todo' = [todo EXCEPT ![p] = @ \ {n}]
      BY <1>2 DEF ReadRecord, NextFile
    <2>2. n \in OnDisk /\ \A x \in got[p] : x[1] # n
      BY <2>1 DEF SeqInv, Read
    <2>3. /\ got'[p] = got[p] \cup {<<n, dir[n]>>} /\ todo'[p] = todo[p] \ {n}
          /\ \A q \in Procs : q # p => got'[q] = got[q] /\ todo'[q] = todo[q]
      BY <1>0, <2>1 DEF TypeOK
    <2>4. OnDisk' = OnDisk /\ pc' = pc /\ mem' = mem /\ pc[p] = "read"
      BY <1>2 DEF ReadRecord, OnDisk, Written
    <2>5. ASSUME NEW q \in Procs
          PROVE  /\ todo'[q] \subseteq OnDisk
                 /\ {x[1] : x \in got'[q]} \subseteq OnDisk
                 /\ todo'[q] \cap {x[1] : x \in got'[q]} = {}
                 /\ \A x, y \in got'[q] : x[1] = y[1] => x = y
      <3>1. CASE q = p
        BY <2>2, <2>3, <3>1 DEF SeqInv, Read
      <3>2. CASE q # p
        BY <2>3, <3>2 DEF SeqInv, Read
      <3>3. QED
        BY <3>1, <3>2
    <2>6. ASSUME NEW q \in Procs, pc'[q] = "write" PROVE NextName(q)' \in OnDisk'
      BY <2>3, <2>4, <2>6 DEF SeqInv, NextName
    <2>7. NextIsFresh'
      BY <2>4 DEF SeqInv, NextIsFresh
    <2>8. QED
      BY <1>0, <2>4, <2>5, <2>6, <2>7 DEF SeqInv, Read
  <1>3. ASSUME NEW p \in Procs, ReadFails(p) PROVE SeqInv'
    BY <1>0, <1>3, EndKeeps DEF ReadFails, OnDisk, Written
  <1>4. ASSUME NEW p \in Procs, RecordOpen(p) PROVE SeqInv'
    <2>1. /\ NextName(p) \in Names /\ OnDisk' = OnDisk \cup {NextName(p)}
          /\ mem' = mem /\ todo' = todo /\ got' = got
          /\ pc' = [pc EXCEPT ![p] = "write"]
      <3>1. Written' = Written \ {NextName(p)}
        BY <1>0, <1>4 DEF RecordOpen, Written, TypeOK
      <3>2. QED
        BY <1>4, <3>1 DEF RecordOpen, GoTo, OnDisk
    <2>2. /\ IsFiniteSet(OnDisk) /\ Cardinality(OnDisk) \in Nat
          /\ OnDisk \subseteq Names
      BY <1>0, NamesFinite DEF OnDisk, Written, TypeOK
    <2>3. Cardinality(OnDisk') = IF NextName(p) \in OnDisk
                                 THEN Cardinality(OnDisk)
                                 ELSE Cardinality(OnDisk) + 1
      BY <2>1, <2>2, FS_AddElement
    <2>4. /\ Cardinality(got[p]) \in Nat
          /\ Cardinality(got[p]) <= Cardinality(OnDisk)
      BY ListBound
    <2>5. ASSUME NEW n \in OnDisk' PROVE n[1] <= Cardinality(OnDisk')
      <3>1. CASE n \in OnDisk
        <4>1. n[1] \in Nat
          BY <2>2, <3>1 DEF Names
        <4>2. n[1] <= Cardinality(OnDisk)
          BY <3>1 DEF SeqInv, NextIsFresh
        <4>3. QED
          BY <2>2, <2>3, <4>1, <4>2
      <3>2. CASE n \notin OnDisk
        BY <2>1, <2>2, <2>3, <2>4, <2>5, <3>2 DEF NextName
      <3>3. QED
        BY <3>1, <3>2
    <2>6. QED
      BY <1>0, <2>1, <2>5 DEF SeqInv, NextIsFresh, NextName, TypeOK, Read
  <1>5. ASSUME NEW p \in Procs, RecordFull(p) PROVE SeqInv'
    BY <1>0, <1>5, EndKeeps DEF RecordFull, OnDisk, Written
  <1>6. ASSUME NEW p \in Procs, RecordWrite(p) PROVE SeqInv'
    <2>1. NextName(p) \in OnDisk /\ OnDisk \subseteq Names /\ mem[p] \in Record
      BY <1>0, <1>6 DEF RecordWrite, SeqInv, TypeOK, OnDisk, Written
    <2>2. Written' = Written \cup {NextName(p)}
      BY <1>0, <1>6, <2>1, NoRecordAssumption DEF RecordWrite, Written, TypeOK
    <2>3. OnDisk' = OnDisk
      BY <1>6, <2>1, <2>2 DEF OnDisk, RecordWrite
    <2>4. QED
      BY <1>0, <1>6, <2>3, EndKeeps DEF RecordWrite
  <1>7. ASSUME NEW p \in Procs, Close(p) PROVE SeqInv'
    BY <1>0, <1>7, EndKeeps DEF Close, OnDisk, Written
  <1>8. ASSUME NEW p \in Procs, Crash(p) PROVE SeqInv'
    BY <1>0, <1>8, EndKeeps DEF Crash, OnDisk, Written
  <1>9. ASSUME NEW p \in Recorders, NEW e \in Entries, RecordStart(p, e)
        PROVE  SeqInv'
    <2>1. UNCHANGED <<dir, torn, todo, got>> /\ pc'[p] = "list"
          /\ \A q \in Procs : q # p => pc'[q] = pc[q] /\ mem'[q] = mem[q]
      BY <1>0, <1>9 DEF RecordStart, GoTo, TypeOK, Procs
    <2>2. QED
      BY <1>0, <2>1 DEF SeqInv, NextIsFresh, NextName, OnDisk, Written, Read
  <1>10. ASSUME NEW p \in Closers, CloseStart(p) PROVE SeqInv'
    <2>1. UNCHANGED <<dir, torn, todo, got, mem>> /\ pc'[p] = "list"
          /\ \A q \in Procs : q # p => pc'[q] = pc[q]
      BY <1>0, <1>10 DEF CloseStart, GoTo, TypeOK, Procs
    <2>2. QED
      BY <1>0, <2>1 DEF SeqInv, NextIsFresh, NextName, OnDisk, Written, Read
  <1>11. ASSUME NEW p \in Closers, Reopen(p) PROVE SeqInv'
    BY <1>0, <1>11
       DEF Reopen, SeqInv, NextIsFresh, NextName, OnDisk, Written, Read
  <1>12. ASSUME NEW p \in Procs, RecordMixed(p) PROVE SeqInv'
    <2>1. NextName(p) \in Written /\ Written' = Written \ {NextName(p)}
      BY <1>0, <1>12 DEF RecordMixed, Written, TypeOK
    <2>2. OnDisk' = OnDisk
      BY <1>12, <2>1 DEF RecordMixed, OnDisk
    <2>3. QED
      BY <1>0, <1>12, <2>2, EndKeeps DEF RecordMixed
  <1>13. CASE UNCHANGED vars
    BY <1>0, <1>13 DEF vars, SeqInv, NextIsFresh, NextName, OnDisk, Written, Read
  <1>14. QED
    BY <1>1, <1>2, <1>3, <1>4, <1>5, <1>6, <1>7, <1>8, <1>9, <1>10, <1>11,
       <1>12, <1>13 DEF Next, Step

LEMMA SeqInit == Init => SeqInv
  <1> SUFFICES ASSUME Init PROVE SeqInv
    OBVIOUS
  <1>1. OnDisk = {}
    BY DEF Init, OnDisk, Written
  <1>2. QED
    BY <1>1, InitTypes DEF Init, SeqInv, NextIsFresh, Read

(* The strengthening holds of every reachable state. *)
THEOREM Inductive == Spec => []SeqInv
  BY SeqInit, SeqStep, PTL DEF Spec

(* However many recorders collide and die, no sequence number exceeds the
   number of files, so the next record that is written alone is a new one. *)
THEOREM NumbersRepair == Spec => []NextIsFresh
  <1>1. SeqInv => NextIsFresh
    BY DEF SeqInv
  <1>2. QED
    BY <1>1, Inductive, PTL

-----------------------------------------------------------------------------
(* What a process knows of the log.                                        *)

(* The files that the list of p names. *)
Known(p) == todo[p] \cup Read(p)

(* No file that p knows has a number above the length of its list. *)
ListInv ==
  \A p \in Procs :
    /\ pc[p] \in {"read", "write"} =>
         \A n \in Known(p) : n[1] <= Cardinality(Known(p))
    /\ pc[p] = "write" => todo[p] = {}

LEMMA ListStep == SeqInv /\ ListInv /\ [Next]_vars => ListInv'
  <1> SUFFICES ASSUME SeqInv, ListInv, [Next]_vars PROVE ListInv'
    OBVIOUS
  <1>0. TypeOK
    BY DEF SeqInv
  <1>1. ASSUME NEW p \in Procs, ListDir(p) PROVE ListInv'
    <2>1. Known(p)' = OnDisk
      BY <1>0, <1>1 DEF ListDir, Known, Read, TypeOK
    <2>2. /\ pc'[p] = "read"
          /\ \A q \in Procs : q # p =>
               pc'[q] = pc[q] /\ todo'[q] = todo[q] /\ Known(q)' = Known(q)
      BY <1>0, <1>1 DEF ListDir, GoTo, Known, Read, TypeOK
    <2>3. \A n \in OnDisk : n[1] <= Cardinality(OnDisk)
      BY DEF SeqInv, NextIsFresh
    <2>4. QED
      BY <2>1, <2>2, <2>3 DEF ListInv
  <1>2. ASSUME NEW p \in Procs, ReadRecord(p) PROVE ListInv'
    <2>1. PICK n \in Names :
            /\ n \in todo[p]
            /\ got' = [got EXCEPT ![p] = @ \cup {<<n, dir[n]>>}]
            /\ todo' = [todo EXCEPT ![p] = @ \ {n}]
      BY <1>2 DEF ReadRecord, NextFile
    <2>2. <<n, dir[n]>>[1] = n
      OBVIOUS
    <2>3. /\ got'[p] = got[p] \cup {<<n, dir[n]>>} /\ todo'[p] = todo[p] \ {n}
          /\ pc' = pc /\ pc[p] = "read"
          /\ \A q \in Procs : q # p => got'[q] = got[q] /\ todo'[q] = todo[q]
      BY <1>0, <1>2, <2>1 DEF ReadRecord, TypeOK
    <2>4. Read(p)' = Read(p) \cup {n}
      BY <2>2, <2>3 DEF Read
    <2>5. \A q \in Procs : Known(q)' = Known(q)
      BY <2>1, <2>3, <2>4 DEF Known, Read
    <2>6. QED
      BY <2>3, <2>5 DEF ListInv
  <1>3. ASSUME NEW p \in Procs, RecordOpen(p) PROVE ListInv'
    <2>1. /\ todo[p] = {} /\ pc[p] = "read" /\ todo' = todo /\ got' = got
          /\ pc'[p] = "write" /\ \A q \in Procs : q # p => pc'[q] = pc[q]
      BY <1>0, <1>3 DEF RecordOpen, GoTo, Listed, TypeOK
    <2>2. \A q \in Procs : Known(q)' = Known(q)
      BY <2>1 DEF Known, Read
    <2>3. QED
      BY <2>1, <2>2 DEF ListInv
  <1>4. ASSUME NEW p \in Procs, End(p) PROVE ListInv'
    <2>1. /\ pc'[p] = "idle"
          /\ \A q \in Procs : q # p =>
               pc'[q] = pc[q] /\ todo'[q] = todo[q] /\ Known(q)' = Known(q)
      BY <1>0, <1>4 DEF End, GoTo, Known, Read, TypeOK
    <2>2. QED
      BY <2>1 DEF ListInv
  <1>5. ASSUME NEW p \in Procs, GoTo(p, "list"), UNCHANGED <<todo, got>>
        PROVE  ListInv'
    <2>1. /\ pc'[p] = "list" /\ \A q \in Procs : q # p => pc'[q] = pc[q]
          /\ \A q \in Procs : Known(q)' = Known(q) /\ todo'[q] = todo[q]
      BY <1>0, <1>5 DEF GoTo, Known, Read, TypeOK
    <2>2. QED
      BY <2>1 DEF ListInv
  <1>6. CASE UNCHANGED <<pc, todo, got>>
    BY <1>6 DEF ListInv, Known, Read
  <1>7. QED
    BY <1>1, <1>2, <1>3, <1>4, <1>5, <1>6
       DEF Next, Step, ReadFails, RecordFull, RecordWrite, RecordMixed, Close,
           Crash, RecordStart, CloseStart, Reopen, Procs, vars

LEMMA ListInductive == Spec => []ListInv
  <1>1. Init => ListInv
    BY DEF Init, ListInv
  <1>2. QED
    BY <1>1, ListStep, Inductive, PTL DEF Spec

-----------------------------------------------------------------------------
(* Recorders that do not overlap.                                          *)

(* While no two recorders overlap, a list is the whole directory when the
   recorder has read it, so the file it opens is a new one; and what anybody
   has read is still what the directory says. *)
Quorate == closed => Met(Recorded)

OneInv ==
  /\ SeqInv
  /\ Quorate
  /\ \A p, q \in Recorders : Busy(p) /\ Busy(q) => p = q
  /\ Written \cap torn = {}
  /\ \A p \in Procs : \A x \in got[p] : x[1] \in Written /\ dir[x[1]] = x[2]
  /\ \A p \in Recorders :
       /\ pc[p] = "read" => OnDisk \subseteq todo[p] \cup Read(p)
       /\ pc[p] = "write" => NextName(p) \in torn

(* Records that are only added keep a quorum. *)
LEMMA MetGrows ==
  ASSUME NEW A, NEW B, A \subseteq B, B \subseteq Record, Met(A)
  PROVE  Met(B)
  <1>1. Have(A) \subseteq Have(B)
    BY DEF Have
  <1>2. Have(B) \subseteq Keys
    BY DEF Have, Counts, Record
  <1>3. IsFiniteSet(Have(B)) /\ Cardinality(Have(B)) \in Nat
    BY <1>2, KeysAssumption, FS_Subset, FS_CardinalityType
  <1>4. Cardinality(Have(A)) <= Cardinality(Have(B)) /\ IsFiniteSet(Have(A))
    BY <1>1, <1>3, FS_Subset
  <1>5. Cardinality(Have(A)) \in Nat
    BY <1>4, FS_CardinalityType
  <1>6. QED
    BY <1>3, <1>4, <1>5, RequiredAssumption DEF Met

(* A lone recorder that has read its list has read the whole directory, and
   has as many records in hand as there are files. *)
LEMMA AllListed ==
  ASSUME OneInv, NEW p \in Recorders, Listed(p)
  PROVE  /\ Cardinality(OnDisk) \in Nat /\ Cardinality(got[p]) \in Nat
         /\ Cardinality(OnDisk) <= Cardinality(got[p])
  <1>1. SeqInv /\ p \in Procs
    BY DEF OneInv, Procs
  <1>2. OnDisk = Read(p)
    BY <1>1 DEF OneInv, SeqInv, Listed, Read
  <1> DEFINE f == [x \in got[p] |-> x[1]]
  <1>3. f \in Surjection(got[p], OnDisk)
    BY <1>2 DEF Surjection, Read
  <1>4. Cardinality(OnDisk) <= Cardinality(got[p])
    BY <1>1, <1>3, ListBound, FS_Surjection
  <1>5. OnDisk \subseteq Names
    BY <1>1 DEF OnDisk, Written, SeqInv, TypeOK
  <1>6. QED
    BY <1>1, <1>4, <1>5, NamesFinite, ListBound

(* The name a lone recorder is about to open is not in the directory. *)
LEMMA NameIsFree ==
  ASSUME OneInv, NEW p \in Recorders, Listed(p)
  PROVE  NextName(p) \notin OnDisk
  <1>1. ASSUME NEW n \in OnDisk PROVE n[1] < Cardinality(got[p]) + 1
    <2>1. n[1] \in Nat /\ n[1] <= Cardinality(OnDisk)
      BY DEF OneInv, SeqInv, TypeOK, OnDisk, Written, Names, NextIsFresh
    <2>2. QED
      BY <2>1, AllListed
  <1>2. QED
    BY <1>1, AllListed DEF NextName

(* A step that leaves the directory alone leaves a quorum alone. *)
LEMMA QuorumKept ==
  ASSUME OneInv, dir' = dir, closed' => closed
  PROVE  Quorate'
  <1>1. Recorded' = Recorded
    BY DEF Recorded, Written
  <1>2. Met(Recorded)' = Met(Recorded)
    BY <1>1 DEF Met, Have, Counts
  <1>3. QED
    BY <1>2 DEF OneInv, Quorate

(* A process that ends, over a directory that stays as it is. *)
LEMMA EndKeepsOne ==
  ASSUME OneInv, SeqInv', NEW p \in Procs, End(p), dir' = dir, torn' = torn,
         Quorate'
  PROVE  OneInv'
  <1>1. Written' = Written /\ OnDisk' = OnDisk
    BY DEF Written, OnDisk
  <1>2. TypeOK
    BY DEF OneInv, SeqInv
  <1>3. /\ pc'[p] = "idle" /\ got'[p] = {}
        /\ \A q \in Procs : q # p => /\ pc'[q] = pc[q] /\ got'[q] = got[q]
                                     /\ todo'[q] = todo[q] /\ mem'[q] = mem[q]
    BY <1>2 DEF End, GoTo, TypeOK
  <1>4. QED
    BY <1>1, <1>3 DEF OneInv, Procs, Read, NextName, Busy

LEMMA OneStep ==
  ASSUME OneInv, [Next]_vars, ~clash'
  PROVE  OneInv'
  <1>0. SeqInv /\ SeqInv' /\ TypeOK /\ TypeOK'
    BY SeqStep DEF OneInv, SeqInv
  <1>1. ASSUME NEW p \in Procs, ListDir(p) PROVE OneInv'
    <2>1. Quorate'
      BY <1>1, QuorumKept DEF ListDir
    <2>2. /\ todo'[p] = OnDisk /\ got'[p] = {} /\ pc'[p] = "read"
          /\ \A q \in Procs : q # p => /\ pc'[q] = pc[q] /\ got'[q] = got[q]
                                       /\ todo'[q] = todo[q]
          /\ mem' = mem /\ Written' = Written /\ OnDisk' = OnDisk
          /\ torn' = torn /\ dir' = dir
      BY <1>0, <1>1 DEF ListDir, GoTo, TypeOK, Written, OnDisk
    <2>3. QED
      BY <1>0, <1>1, <2>1, <2>2 DEF OneInv, Procs, Read, NextName, Busy, ListDir
  <1>2. ASSUME NEW p \in Procs, ReadRecord(p) PROVE OneInv'
    <2>1. PICK n \in Names :
            /\ dir[n] # NoRecord
            /\ got' = [got EXCEPT ![p] = @ \cup {<<n, dir[n]>>}]
            /\ todo' = [todo EXCEPT ![p] = @ \ {n}]
      BY <1>2 DEF ReadRecord
    <2>2. Quorate'
      BY <1>2, QuorumKept DEF ReadRecord
    <2>3. /\ got'[p] = got[p] \cup {<<n, dir[n]>>} /\ todo'[p] = todo[p] \ {n}
          /\ \A q \in Procs : q # p => got'[q] = got[q] /\ todo'[q] = todo[q]
          /\ n \in Written /\ pc[p] = "read"
          /\ pc' = pc /\ mem' = mem /\ Written' = Written /\ OnDisk' = OnDisk
          /\ torn' = torn /\ dir' = dir
      BY <1>0, <1>2, <2>1 DEF ReadRecord, TypeOK, Written, OnDisk
    <2>4. Read(p)' = Read(p) \cup {n}
      <3>1. <<n, dir[n]>>[1] = n
        OBVIOUS
      <3>2. ASSUME NEW m \in Read(p)' PROVE m \in Read(p) \cup {n}
        BY <2>3, <3>1, <3>2 DEF Read
      <3>3. ASSUME NEW m \in Read(p) \cup {n} PROVE m \in Read(p)'
        <4>1. CASE m = n
          BY <2>3, <3>1, <4>1 DEF Read
        <4>2. CASE m \in Read(p)
          BY <2>3, <4>2 DEF Read
        <4>3. QED
          BY <3>3, <4>1, <4>2
      <3>4. QED
        BY <3>2, <3>3
    <2>5. \A q \in Procs : \A x \in got'[q] : x[1] \in Written /\ dir[x[1]] = x[2]
      BY <2>3 DEF OneInv
    <2>6. ASSUME NEW q \in Recorders
          PROVE  /\ pc'[q] = "read" => OnDisk \subseteq todo'[q] \cup Read(q)'
                 /\ pc'[q] = "write" => NextName(q)' \in torn
      <3>1. CASE q = p
        BY <2>3, <2>4, <3>1 DEF OneInv
      <3>2. CASE q # p
        BY <2>3, <3>2 DEF OneInv, Read, NextName, Procs
      <3>3. QED
        BY <3>1, <3>2
    <2>7. QED
      BY <1>0, <2>2, <2>3, <2>5, <2>6 DEF OneInv, Busy
  <1>3. ASSUME NEW p \in Procs, ReadFails(p) PROVE OneInv'
    BY <1>0, <1>3, QuorumKept, EndKeepsOne DEF ReadFails
  <1>4. ASSUME NEW p \in Procs, RecordOpen(p) PROVE OneInv'
    <2>1. /\ p \in Recorders /\ NextName(p) \notin OnDisk
          /\ NextName(p) \in Names
      BY <1>4, NameIsFree DEF RecordOpen
    <2>2. dir' = dir
      BY <1>0, <1>4, <2>1 DEF RecordOpen, TypeOK, OnDisk, Written
    <2>3. /\ torn' = torn \cup {NextName(p)} /\ Written' = Written
          /\ pc[p] = "read" /\ pc'[p] = "write" /\ got' = got /\ mem' = mem
          /\ todo' = todo /\ \A q \in Procs : q # p => pc'[q] = pc[q]
      BY <1>0, <1>4, <2>2 DEF RecordOpen, GoTo, TypeOK, Written, Listed
    <2>4. Quorate'
      BY <1>4, <2>2, QuorumKept DEF RecordOpen
    <2>5. \A q \in Recorders : q = p \/ ~Busy(q)
      BY <2>1, <2>3 DEF OneInv, Busy
    <2>6. \A q \in Recorders : q = p \/ ~Busy(q)'
      BY <2>3, <2>5 DEF Busy, Procs
    <2>7. Written' \cap torn' = {}
      BY <2>1, <2>3 DEF OneInv, OnDisk
    <2>8. \A q \in Procs : \A x \in got'[q] : x[1] \in Written' /\ dir'[x[1]] = x[2]
      BY <2>2, <2>3 DEF OneInv
    <2>9. \A q \in Recorders :
             /\ pc'[q] = "read" => OnDisk' \subseteq todo'[q] \cup Read(q)'
             /\ pc'[q] = "write" => NextName(q)' \in torn'
      BY <2>3, <2>6 DEF Busy, NextName
    <2>10. QED
      BY <1>0, <2>4, <2>6, <2>7, <2>8, <2>9 DEF OneInv
  <1>5. ASSUME NEW p \in Procs, RecordFull(p) PROVE OneInv'
    BY <1>0, <1>5, QuorumKept, EndKeepsOne DEF RecordFull
  <1>6. ASSUME NEW p \in Procs, RecordWrite(p) PROVE OneInv'
    <2>1. p \in Recorders /\ mem[p] \in Record
      BY <1>0, <1>6 DEF RecordWrite, TypeOK
    <2>2. NextName(p) \in torn /\ NextName(p) \notin Written /\ NextName(p) \in Names
      BY <1>0, <1>6, <2>1 DEF RecordWrite, OneInv, TypeOK
    <2>3. /\ Written' = Written \cup {NextName(p)}
          /\ torn' = torn \ {NextName(p)}
          /\ \A n \in Written : dir'[n] = dir[n]
          /\ pc[p] = "write"
      BY <1>0, <1>6, <2>1, <2>2, NoRecordAssumption
         DEF RecordWrite, Written, TypeOK
    <2>4. Quorate'
      <3>1. Recorded \subseteq Recorded' /\ Recorded' \subseteq Record
        BY <1>0, <2>3 DEF Recorded, Written, TypeOK
      <3>2. Met(Recorded) => Met(Recorded')
        BY <3>1, MetGrows
      <3>3. Met(Recorded)' <=> Met(Recorded')
        BY DEF Met, Have, Counts
      <3>4. closed' = closed
        BY <1>6 DEF RecordWrite
      <3>5. QED
        BY <3>2, <3>3, <3>4 DEF OneInv, Quorate
    <2>5. /\ pc'[p] = "idle" /\ got'[p] = {}
          /\ \A q \in Procs : q # p => got'[q] = got[q]
      BY <1>0, <1>6 DEF RecordWrite, End, GoTo, TypeOK
    <2>6. \A q \in Recorders : q = p \/ ~Busy(q)
      BY <2>1, <2>3 DEF OneInv, Busy
    <2>7. \A q \in Recorders : ~Busy(q)'
      BY <1>0, <1>6, <2>6 DEF RecordWrite, End, GoTo, TypeOK, Busy, Procs
    <2>8. \A q \in Procs : \A x \in got'[q] : x[1] \in Written' /\ dir'[x[1]] = x[2]
      BY <2>3, <2>5 DEF OneInv
    <2>9. Written' \cap torn' = {}
      BY <2>3 DEF OneInv
    <2>10. QED
      BY <1>0, <2>4, <2>7, <2>8, <2>9 DEF OneInv, Busy
  <1>7. ASSUME NEW p \in Procs, Close(p) PROVE OneInv'
    <2>1. Quorate'
      <3>1. CASE closed' => closed
        BY <1>7, <3>1, QuorumKept DEF Close
      <3>2. CASE Met({x[2] : x \in got[p]})
        <4>1. {x[2] : x \in got[p]} \subseteq Recorded
          BY DEF OneInv, Recorded
        <4>2. Recorded \subseteq Record
          BY <1>0 DEF Recorded, Written, TypeOK
        <4>3. Met(Recorded)
          BY <3>2, <4>1, <4>2, MetGrows
        <4>4. Recorded' = Recorded
          BY <1>7 DEF Close, Recorded, Written
        <4>5. QED
          BY <4>3, <4>4 DEF Quorate, Met, Have, Counts
      <3>3. QED
        BY <1>7, <3>1, <3>2 DEF Close
    <2>2. QED
      BY <1>0, <1>7, <2>1, EndKeepsOne DEF Close
  <1>8. ASSUME NEW p \in Procs, Crash(p) PROVE OneInv'
    BY <1>0, <1>8, QuorumKept, EndKeepsOne DEF Crash
  <1>9. ASSUME NEW p \in Recorders, NEW e \in Entries, RecordStart(p, e)
        PROVE  OneInv'
    <2>1. Quorate'
      BY <1>9, QuorumKept DEF RecordStart
    <2>2. /\ pc'[p] = "list"
          /\ \A q \in Procs : q # p => pc'[q] = pc[q] /\ mem'[q] = mem[q]
          /\ UNCHANGED <<dir, torn, got, todo>>
      BY <1>0, <1>9 DEF RecordStart, GoTo, TypeOK, Procs
    <2>3. \A q \in Recorders : q # p => ~Busy(q)
      BY <1>9 DEF RecordStart, Overlap
    <2>4. \A q, r \in Recorders : Busy(q)' /\ Busy(r)' => q = r
      BY <2>2, <2>3 DEF Busy, Procs
    <2>5. QED
      BY <1>0, <2>1, <2>2, <2>4 DEF OneInv, Procs, Read, NextName, OnDisk, Written
  <1>10. ASSUME NEW p \in Closers, CloseStart(p) PROVE OneInv'
    <2>1. Quorate'
      BY <1>10, QuorumKept DEF CloseStart
    <2>2. /\ pc'[p] = "list"
          /\ \A q \in Procs : q # p => pc'[q] = pc[q]
          /\ UNCHANGED <<dir, torn, got, todo, mem>>
      BY <1>0, <1>10 DEF CloseStart, GoTo, TypeOK, Procs
    <2>3. \A q \in Recorders : Busy(q)' = Busy(q)
      BY <1>10, <2>2, ActorsAssumption DEF Busy, Procs
    <2>4. QED
      BY <1>0, <2>1, <2>2, <2>3 DEF OneInv, Procs, Read, NextName, OnDisk, Written
  <1>11. ASSUME NEW p \in Closers, Reopen(p) PROVE OneInv'
    BY <1>0, <1>11, QuorumKept
       DEF Reopen, OneInv, Read, NextName, OnDisk, Written, Busy
  <1>12. ASSUME NEW p \in Procs, RecordMixed(p) PROVE FALSE
    BY <1>0, <1>12 DEF RecordMixed, OneInv, TypeOK
  <1>13. CASE UNCHANGED vars
    BY <1>0, <1>13, QuorumKept
       DEF vars, OneInv, Read, NextName, OnDisk, Written, Busy
  <1>14. QED
    BY <1>1, <1>2, <1>3, <1>4, <1>5, <1>6, <1>7, <1>8, <1>9, <1>10, <1>11,
       <1>12, <1>13 DEF Next, Step

LEMMA OneInit == Init => OneInv
  <1> SUFFICES ASSUME Init PROVE OneInv
    OBVIOUS
  <1>1. Written = {}
    BY DEF Init, Written
  <1>2. QED
    BY <1>1, SeqInit
       DEF Init, OneInv, Quorate, OnDisk, Read, Procs, Busy

(* Recorders that have overlapped have overlapped for good. *)
LEMMA ClashStays == [Next]_vars /\ ~clash' => ~clash
  BY DEF Next, Step, ListDir, ReadRecord, ReadFails, RecordOpen, RecordFull,
         RecordWrite, RecordMixed, Close, Crash, RecordStart, CloseStart, Reopen,
         vars

LEMMA OneInductive == Spec => [](~clash => OneInv)
  <1>1. (~clash => OneInv) /\ [Next]_vars => (~clash => OneInv)'
    BY OneStep, ClashStays
  <1>2. Init => (~clash => OneInv)
    BY OneInit
  <1>3. QED
    BY <1>1, <1>2, PTL DEF Spec

(* A process that has read its list holds as many records as it has names,
   each with a number below the next. *)
LEMMA NotRead ==
  ASSUME SeqInv, ListInv, NEW p \in Procs,
         Listed(p) \/ pc[p] = "write"
  PROVE  NextName(p) \notin Read(p)
  <1>1. todo[p] = {} /\ pc[p] \in {"read", "write"}
    BY DEF Listed, ListInv
  <1>2. \A n \in Read(p) : n[1] <= Cardinality(Read(p))
    BY <1>1 DEF ListInv, Known
  <1>3. Cardinality(got[p]) \in Nat /\ IsFiniteSet(got[p])
    BY ListBound
  <1> DEFINE f == [x \in got[p] |-> x[1]]
  <1>4. f \in Surjection(got[p], Read(p))
    BY DEF Surjection, Read
  <1>5. Cardinality(Read(p)) <= Cardinality(got[p])
    BY <1>3, <1>4, FS_Surjection
  <1>6. Read(p) \in SUBSET Names
    BY DEF SeqInv, TypeOK, OnDisk, Written
  <1>7. Cardinality(Read(p)) \in Nat
    BY <1>6, NamesFinite
  <1>8. ASSUME NEW n \in Read(p) PROVE n[1] # Cardinality(got[p]) + 1
    <2>1. n[1] \in Nat
      BY <1>6 DEF Names
    <2>2. n[1] <= Cardinality(Read(p))
      BY <1>2
    <2>3. QED
      BY <1>3, <1>5, <1>7, <2>1, <2>2
  <1>9. NextName(p)[1] = Cardinality(got[p]) + 1
    BY DEF NextName
  <1>10. QED
    BY <1>8, <1>9

(* Recorders that do not overlap never change a record: once a file holds
   one it is never truncated or replaced, crashes or not.  And a recorder
   that overlaps another replaces no record that was there when it took its
   list, for any number of recorders. *)
THEOREM RecordsStay == Spec => RecordsKept
  <1> DEFINE Kept ==
        \A n \in Written : dir'[n] # dir[n] =>
          /\ clash
          /\ \E p \in Recorders : Busy(p) /\ NextName(p) = n /\ n \notin Read(p)
  <1> DEFINE Lone == ~clash => OneInv
  <1>1. SeqInv /\ ListInv /\ Lone /\ [Next]_vars => [Kept]_vars
    <2> SUFFICES ASSUME SeqInv, ListInv, Lone, [Next]_vars PROVE [Kept]_vars
      OBVIOUS
    <2>0. TypeOK
      BY DEF SeqInv
    <2>1. ASSUME NEW p \in Procs, RecordOpen(p) PROVE Kept
      <3>1. p \in Recorders /\ Busy(p) /\ NextName(p) \notin Read(p)
        BY <2>1, NotRead DEF RecordOpen, Listed, Busy
      <3>2. ~clash => NextName(p) \notin Written
        BY <2>1, NameIsFree DEF RecordOpen, OnDisk
      <3>3. \A n \in Written : dir'[n] # dir[n] => n = NextName(p)
        BY <2>0, <2>1 DEF RecordOpen, Written, TypeOK
      <3>4. QED
        BY <3>1, <3>2, <3>3
    <2>2. ASSUME NEW p \in Procs, RecordWrite(p) \/ RecordMixed(p) PROVE Kept
      <3>1. p \in Recorders /\ pc[p] = "write"
        BY <2>0, <2>2 DEF RecordWrite, RecordMixed, TypeOK
      <3>2. Busy(p) /\ NextName(p) \notin Read(p)
        BY <3>1, NotRead DEF Busy
      <3>3. ~clash => NextName(p) \notin Written
        BY <3>1 DEF OneInv
      <3>4. \A n \in Written : dir'[n] # dir[n] => n = NextName(p)
        BY <2>0, <2>2 DEF RecordWrite, RecordMixed, Written, TypeOK
      <3>5. QED
        BY <3>1, <3>2, <3>3, <3>4
    <2>3. CASE UNCHANGED dir
      BY <2>3
    <2>4. CASE UNCHANGED vars
      BY <2>4
    <2>5. QED
      BY <2>1, <2>2, <2>3, <2>4
         DEF Next, Step, ListDir, ReadRecord, ReadFails, RecordFull, Close,
             Crash, RecordStart, CloseStart, Reopen
  <1>2. QED
    BY <1>1, Inductive, ListInductive, OneInductive, PTL DEF Spec, RecordsKept

(* While no two recorders overlap, a task that is closed has its quorum of
   attestations on disk, although closing it reads the directory file by file
   while the recorder goes on. *)
THEOREM ClosesOnQuorum == Spec => []ClosedHasQuorum
  <1>1. (~clash => OneInv) => ClosedHasQuorum
    BY DEF OneInv, Quorate, ClosedHasQuorum
  <1>2. QED
    BY <1>1, OneInductive, PTL
-----------------------------------------------------------------------------
(* What a process has read of the log.                                     *)

(* What was opened after p took its list has a higher number than all the
   files p knows of. *)
TailInv ==
  \A p \in Procs : pc[p] = "read" =>
    \A n \in OnDisk \ Known(p) : n[1] > Cardinality(Known(p))

LEMMA TailInit == Init => TailInv
  BY DEF Init, TailInv

(* A step that opens no file, and leaves every process that reads with the
   names it had. *)
LEMMA TailKept ==
  ASSUME TailInv, OnDisk' = OnDisk,
         \A p \in Procs : pc'[p] = "read" =>
            \/ pc[p] = "read" /\ Known(p)' = Known(p)
            \/ Known(p)' = OnDisk
  PROVE  TailInv'
  BY DEF TailInv

(* A process that ends over the files that are there. *)
LEMMA EndKeepsTail ==
  ASSUME TailInv, TypeOK, NEW p \in Procs, End(p), OnDisk' = OnDisk
  PROVE  TailInv'
  <1>1. /\ pc'[p] = "idle"
        /\ \A q \in Procs : q # p => /\ pc'[q] = pc[q] /\ got'[q] = got[q]
                                     /\ todo'[q] = todo[q]
    BY DEF End, GoTo, TypeOK
  <1>2. \A q \in Procs : pc'[q] = "read" =>
           pc[q] = "read" /\ Known(q)' = Known(q)
    BY <1>1 DEF Known, Read
  <1>3. QED
    BY <1>2, TailKept

LEMMA TailStep ==
  ASSUME OneInv, TailInv, [Next]_vars
  PROVE  TailInv'
  <1>0. SeqInv /\ TypeOK
    BY DEF OneInv, SeqInv
  <1>1. ASSUME NEW p \in Procs, ListDir(p) PROVE TailInv'
    <2>1. /\ todo'[p] = OnDisk /\ got'[p] = {}
          /\ \A q \in Procs : q # p => /\ pc'[q] = pc[q] /\ got'[q] = got[q]
                                       /\ todo'[q] = todo[q]
          /\ OnDisk' = OnDisk
      BY <1>0, <1>1 DEF ListDir, GoTo, TypeOK, Written, OnDisk
    <2>2. Known(p)' = OnDisk
      BY <2>1 DEF Known, Read
    <2>3. \A q \in Procs : q # p => Known(q)' = Known(q)
      BY <2>1 DEF Known, Read
    <2>4. QED
      BY <2>1, <2>2, <2>3, TailKept
  <1>2. ASSUME NEW p \in Procs, ReadRecord(p) PROVE TailInv'
    <2>1. PICK n \in Names :
            /\ n \in todo[p]
            /\ got' = [got EXCEPT ![p] = @ \cup {<<n, dir[n]>>}]
            /\ todo' = [todo EXCEPT ![p] = @ \ {n}]
      BY <1>2 DEF ReadRecord, NextFile
    <2>2. /\ got'[p] = got[p] \cup {<<n, dir[n]>>} /\ todo'[p] = todo[p] \ {n}
          /\ \A q \in Procs : q # p => got'[q] = got[q] /\ todo'[q] = todo[q]
          /\ pc' = pc /\ OnDisk' = OnDisk
      BY <1>0, <1>2, <2>1 DEF ReadRecord, TypeOK, Written, OnDisk
    <2>3. <<n, dir[n]>>[1] = n
      OBVIOUS
    <2>4. Read(p)' = Read(p) \cup {n}
      BY <2>2, <2>3 DEF Read
    <2>5. Known(p)' = Known(p)
      BY <2>1, <2>2, <2>4 DEF Known
    <2>6. \A q \in Procs : q # p => Known(q)' = Known(q)
      BY <2>2 DEF Known, Read
    <2>7. QED
      BY <2>2, <2>5, <2>6, TailKept
  <1>3. ASSUME NEW p \in Procs, ReadFails(p) PROVE TailInv'
    BY <1>0, <1>3, EndKeepsTail DEF ReadFails, OnDisk, Written
  <1>4. ASSUME NEW p \in Procs, RecordOpen(p) PROVE TailInv'
    <2>1. /\ p \in Recorders /\ Listed(p)
          /\ NextName(p) \in Names /\ OnDisk' = OnDisk \cup {NextName(p)}
          /\ todo' = todo /\ got' = got
          /\ pc'[p] = "write" /\ \A q \in Procs : q # p => pc'[q] = pc[q]
      <3>1. Written' = Written \ {NextName(p)}
        BY <1>0, <1>4 DEF RecordOpen, Written, TypeOK
      <3>2. QED
        BY <1>0, <1>4, <3>1 DEF RecordOpen, GoTo, TypeOK, OnDisk
    <2>2. \A q \in Procs : Known(q)' = Known(q)
      BY <2>1 DEF Known, Read
    <2>3. IsFiniteSet(OnDisk) /\ Cardinality(OnDisk) \in Nat
      BY <1>0, NamesFinite DEF OnDisk, Written, TypeOK
    <2>4. NextName(p)[1] > Cardinality(OnDisk)
      BY <2>1, AllListed DEF NextName
    <2>5. ASSUME NEW q \in Procs, pc'[q] = "read", NEW n \in OnDisk' \ Known(q)'
          PROVE  n[1] > Cardinality(Known(q)')
      <3>1. pc[q] = "read" /\ Known(q)' = Known(q)
        BY <2>1, <2>2, <2>5
      <3>2. CASE n \in OnDisk
        BY <2>5, <3>1, <3>2 DEF TailInv
      <3>3. CASE n = NextName(p)
        <4>1. Known(q) \subseteq OnDisk
          BY <1>0 DEF Known, Read, SeqInv
        <4>2. /\ Cardinality(Known(q)) <= Cardinality(OnDisk)
              /\ Cardinality(Known(q)) \in Nat
          BY <2>3, <4>1, FS_Subset, FS_CardinalityType
        <4>3. NextName(p)[1] \in Nat
          BY <2>1 DEF Names
        <4>4. QED
          BY <2>3, <2>4, <3>1, <3>3, <4>2, <4>3
      <3>4. QED
        BY <2>1, <2>5, <3>2, <3>3
    <2>6. QED
      BY <2>5 DEF TailInv
  <1>5. ASSUME NEW p \in Procs, RecordFull(p) PROVE TailInv'
    BY <1>0, <1>5, EndKeepsTail DEF RecordFull, OnDisk, Written
  <1>6. ASSUME NEW p \in Procs, RecordWrite(p) PROVE TailInv'
    <2>1. NextName(p) \in OnDisk /\ OnDisk \subseteq Names /\ mem[p] \in Record
      BY <1>0, <1>6 DEF RecordWrite, SeqInv, TypeOK, OnDisk, Written
    <2>2. Written' = Written \cup {NextName(p)}
      BY <1>0, <1>6, <2>1, NoRecordAssumption DEF RecordWrite, Written, TypeOK
    <2>3. OnDisk' = OnDisk
      BY <1>6, <2>1, <2>2 DEF OnDisk, RecordWrite
    <2>4. QED
      BY <1>0, <1>6, <2>3, EndKeepsTail DEF RecordWrite
  <1>7. ASSUME NEW p \in Procs, Close(p) PROVE TailInv'
    BY <1>0, <1>7, EndKeepsTail DEF Close, OnDisk, Written
  <1>8. ASSUME NEW p \in Procs, Crash(p) PROVE TailInv'
    BY <1>0, <1>8, EndKeepsTail DEF Crash, OnDisk, Written
  <1>9. ASSUME NEW p \in Procs, GoTo(p, "list"), UNCHANGED <<dir, torn, todo, got>>
        PROVE  TailInv'
    <2>1. \A q \in Procs : pc'[q] = "read" => pc[q] = "read"
      BY <1>0, <1>9 DEF GoTo, TypeOK
    <2>2. OnDisk' = OnDisk /\ \A q \in Procs : Known(q)' = Known(q)
      BY <1>9 DEF OnDisk, Written, Known, Read
    <2>3. QED
      BY <2>1, <2>2, TailKept
  <1>10. CASE UNCHANGED <<dir, torn, pc, todo, got>>
    <2>1. OnDisk' = OnDisk /\ \A q \in Procs : Known(q)' = Known(q)
      BY <1>10 DEF OnDisk, Written, Known, Read
    <2>2. QED
      BY <1>10, <2>1, TailKept
  <1>11. ASSUME NEW p \in Procs, RecordMixed(p) PROVE FALSE
    BY <1>0, <1>11 DEF RecordMixed, OneInv, TypeOK
  <1>12. QED
    BY <1>1, <1>2, <1>3, <1>4, <1>5, <1>6, <1>7, <1>8, <1>9, <1>10, <1>11
       DEF Next, Step, RecordStart, CloseStart, Reopen, Procs, vars

(* While no two recorders overlap, what any process has listed when it acts
   on the list is the log up to a point: every record it read is the one on
   disk, and none with a number up to the length of its list is missing. *)
THEOREM ListsArePrefixes == Spec => []ReadsPrefix
  <1>1. (~clash => OneInv) /\ (~clash => TailInv) /\ [Next]_vars
          => (~clash => TailInv)'
    BY TailStep, ClashStays
  <1>2. (~clash => OneInv) /\ (~clash => TailInv) => ReadsPrefix
    <2> SUFFICES ASSUME OneInv, TailInv, NEW p \in Procs, Listed(p)
                 PROVE  /\ \A x \in got[p] : dir[x[1]] = x[2]
                        /\ \A n \in Written : n[1] <= Cardinality(got[p]) =>
                             <<n, dir[n]>> \in got[p]
      BY DEF ReadsPrefix
    <2>0. SeqInv /\ TypeOK
      BY DEF OneInv, SeqInv
    <2>1. ASSUME NEW n \in Written, n[1] <= Cardinality(got[p])
          PROVE  n \in Read(p)
      <3> DEFINE f == [x \in got[p] |-> x[1]]
      <3>1. f \in Injection(got[p], Read(p))
        BY <2>0 DEF Injection, IsInjective, Read, SeqInv
      <3>2. /\ IsFiniteSet(Read(p)) /\ Cardinality(Read(p)) \in Nat
            /\ Cardinality(got[p]) \in Nat
        <4>1. Read(p) \in SUBSET Names
          BY <2>0 DEF Read, SeqInv, TypeOK, OnDisk, Written
        <4>2. QED
          BY <2>0, <4>1, NamesFinite, ListBound
      <3>3. Cardinality(got[p]) <= Cardinality(Read(p))
        BY <3>1, <3>2, FS_Injection
      <3>4. Known(p) = Read(p)
        BY DEF Known, Listed
      <3>5. n[1] \in Nat
        BY <2>1 DEF Written, Names
      <3>6. ~ (n[1] > Cardinality(Known(p)))
        BY <2>1, <3>2, <3>3, <3>4, <3>5
      <3>7. QED
        BY <2>1, <3>4, <3>6 DEF TailInv, Listed, OnDisk
    <2>2. ASSUME NEW x \in got[p] PROVE x = <<x[1], x[2]>> /\ dir[x[1]] = x[2]
      BY <2>0, <2>2 DEF OneInv, TypeOK
    <2>3. QED
      BY <2>1, <2>2 DEF Read
  <1>3. Init => (~clash => TailInv)
    BY TailInit
  <1>4. QED
    BY <1>1, <1>2, <1>3, OneInductive, PTL DEF Spec
=============================================================================
