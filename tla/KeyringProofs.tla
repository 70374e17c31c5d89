---------------------------- MODULE KeyringProofs ----------------------------
(***************************************************************************)
(* Theorems about Keyring, for any number of processes, keys, pairs and    *)
(* attestations: what a key signed stays valid unless its halves were      *)
(* parted, a close is right at its moment, and a doctor that finds nothing *)
(* means the quorum is still there.                                        *)
(***************************************************************************)
EXTENDS Keyring, FiniteSetTheorems, TLAPS

-----------------------------------------------------------------------------
(* Types.                                                                  *)

Generating == {"stat", "openpriv", "writepriv", "openpub", "writepub"}

(* A process that generates a key has an id, and a pair once it has made it. *)
KeyInv ==
  /\ TypeOK
  /\ \A p \in Procs : /\ pc[p] \in Generating <=> key[p] # 0
                      /\ key[p] # 0 => home[p] \in Dirs
                      /\ pc[p] \in Generating \ {"stat"} => pair[p] \in Pairs

LEMMA KeysDiffer ==
  /\ 0 \notin KeyIds /\ KeyIds \subseteq 0..MaxKey
  /\ Pairs \subseteq 0..MaxPair /\ NoFile \in Files /\ Torn \in Files
  /\ Pairs \subseteq Files /\ 0 \in 0..MaxPair /\ 0 \in 0..MaxHands /\ 0 \in 0..MaxKey
  /\ NoKeys \in [KeyIds -> Files] /\ NoKeys \in [KeyIds -> Pairs \cup {NoFile}]
  BY NumbersAssumption DEF KeyIds, Pairs, Files, NoKeys

LEMMA TypeInit == Init => KeyInv
  <1> SUFFICES ASSUME Init PROVE KeyInv
    OBVIOUS
  <1>1. TypeOK
    BY KeysDiffer DEF Init, TypeOK
  <1>2. QED
    BY <1>1 DEF Init, KeyInv, Generating

LEMMA TypeStep == KeyInv /\ [Next]_vars => KeyInv'
  <1> SUFFICES ASSUME KeyInv, [Next]_vars PROVE KeyInv'
    OBVIOUS
  <1> USE NumbersAssumption, FilesAssumption, KeysDiffer
      DEF KeyInv, TypeOK, GoTo, Generating
  <1>1. CASE UNCHANGED vars
    BY <1>1 DEF vars
  <1>2. ASSUME NEW p \in Procs, NEW f \in Keygens, Keygen(p, f[1], f[2]) PROVE KeyInv'
    <2>1. f[1] \in Dirs /\ f[2] \in KeyIds
      BY KeygensAssumption
    <2>2. meddled' \subseteq KeyIds
      BY <1>2, <2>1 DEF Keygen
    <2>3. QED
      BY <1>2, <2>1, <2>2 DEF Keygen, check
  <1>3. ASSUME NEW p \in Procs, Generate(p) PROVE KeyInv'
    <2>1. made + 1 \in Pairs /\ made' \in 0..MaxPair
      BY <1>3 DEF Generate, Pairs
    <2>2. QED
      BY <1>3, <2>1 DEF Generate, check
  <1>4. ASSUME NEW p \in Procs, OpenPriv(p) PROVE KeyInv'
    <2>1. File(p) \in PrivFiles
      BY <1>4 DEF OpenPriv, File, PrivFiles, KeyIds
    <2>2. QED
      BY <1>4, <2>1 DEF OpenPriv, check
  <1>5. ASSUME NEW p \in Procs, WritePriv(p) PROVE KeyInv'
    <2>1. File(p) \in PrivFiles
      BY <1>5 DEF WritePriv, File, PrivFiles, KeyIds
    <2>2. QED
      BY <1>5, <2>1 DEF WritePriv, check
  <1>6. ASSUME NEW p \in Procs, OpenPub(p) PROVE KeyInv'
    <2>1. rekeyed' \in [Procs -> BOOLEAN]
      BY <1>6 DEF OpenPub, Rekey
    <2>2. QED
      BY <1>6, <2>1 DEF OpenPub
  <1>7. ASSUME NEW p \in Procs, WritePub(p) PROVE KeyInv'
    <2>1. rekeyed' \in [Procs -> BOOLEAN]
      BY <1>7 DEF WritePub, Rekey
    <2>2. key[p] \in KeyIds /\ pair[p] \in Pairs
      BY <1>7 DEF WritePub, KeyIds
    <2>3. TypeOK'
      BY <1>7, <2>1, <2>2 DEF WritePub, EndKeygen
    <2>4. QED
      BY <1>7, <2>3 DEF WritePub, EndKeygen
  <1>8. ASSUME NEW p \in Procs, KeygenStops(p) PROVE KeyInv'
    <2>1. File(p) \in PrivFiles
      BY <1>8 DEF KeygenStops, File, PrivFiles, KeyIds
    <2>2. halves' \subseteq PrivFiles
      BY <1>8, <2>1 DEF KeygenStops
    <2>3. QED
      BY <1>8, <2>2 DEF KeygenStops, EndKeygen, check
  <1>9. ASSUME NEW d \in Dirs, NEW k \in KeyIds, NEW id \in KeyIds, NEW role \in Roles,
               Attest(d, k, id, role)
        PROVE  KeyInv'
    <2>1. By(d, k, id, role) \in Signed
      BY <1>9 DEF Attest, By, Signed
    <2>2. QED
      BY <1>9, <2>1 DEF Attest, Record, keys
  <1>10. ASSUME NEW role \in Roles, AttestUnsigned(role) PROVE KeyInv'
    BY <1>10 DEF AttestUnsigned, Record, keys
  <1>11. ASSUME NEW p \in Procs, ListEvidence(p) PROVE KeyInv'
    <2>1. QuorumMet \in BOOLEAN
      BY DEF QuorumMet
    <2>2. QED
      BY <1>11, <2>1 DEF ListEvidence, keys
  <1>12. ASSUME NEW p \in Procs, ReadDir(p) PROVE KeyInv'
    BY <1>12 DEF ReadDir, keys
  <1>13. ASSUME NEW p \in Procs, ReadKey(p) PROVE KeyInv'
    <2>1. PICK k \in KeyIds : /\ pub[k] \in Pairs
                              /\ ring' = [ring EXCEPT ![p][k] = pub[k]]
                              /\ todo' = [todo EXCEPT ![p] = @ \ {k}]
      BY <1>13 DEF ReadKey
    <2>2. [ring[p] EXCEPT ![k] = pub[k]] \in [KeyIds -> Pairs \cup {NoFile}]
      BY <2>1
    <2>3. ring' = [ring EXCEPT ![p] = [ring[p] EXCEPT ![k] = pub[k]]]
      BY <2>1
    <2>4. ring' \in [Procs -> [KeyIds -> Pairs \cup {NoFile}]]
      BY <2>2, <2>3
    <2>5. QED
      BY <1>13, <2>1, <2>4 DEF ReadKey, keys
  <1>14. ASSUME NEW p \in Procs, NoKeyring(p) \/ Close(p) \/ Refuse(p) PROVE KeyInv'
    <2>1. EndClose(p) /\ pc[p] = "keys" /\ closed' \in BOOLEAN
      BY <1>14 DEF NoKeyring, Close, Refuse
    <2>2. TypeOK'
      BY <2>1 DEF EndClose, keys
    <2>3. QED
      BY <2>1, <2>2 DEF EndClose, keys
  <1>15. ASSUME NEW k \in KeyIds, NEW f \in Files, Replace(k, f) PROVE KeyInv'
    <2>1. rekeyed' \in [Procs -> BOOLEAN]
      BY <1>15 DEF Replace, Rekey
    <2>2. QED
      BY <1>15, <2>1 DEF Replace, Touch
  <1>16. ASSUME NEW d \in Dirs, NEW k \in KeyIds, Lose(d, k) PROVE KeyInv'
    <2>1. <<d, k>> \in PrivFiles
      BY DEF PrivFiles
    <2>2. QED
      BY <1>16, <2>1 DEF Lose, Touch, check
  <1>17. ASSUME NEW s \in Signings, Attest(s[1], s[2], s[3], s[4]) PROVE KeyInv'
    <2>1. s[1] \in Dirs /\ s[2] \in KeyIds /\ s[3] \in KeyIds /\ s[4] \in Roles
      BY SigningsAssumption
    <2>2. QED
      BY <1>9, <1>17, <2>1
  <1>18. QED
    BY <1>1, <1>2, <1>3, <1>4, <1>5, <1>6, <1>7, <1>8, <1>10, <1>11, <1>12, <1>13,
       <1>14, <1>15, <1>16, <1>17
    DEF Next

(* For any number of processes and keys, the key files, the evidence and every
   command keep their types (keygen, QuorumOf). *)
THEOREM TypeCorrect == Spec => []TypeOK
  <1>1. KeyInv => TypeOK
    BY DEF KeyInv
  <1>2. QED
    BY <1>1, TypeInit, TypeStep, PTL DEF Spec

-----------------------------------------------------------------------------
(* The halves of a pair.                                                   *)

(* How far a keygen has come with its private key; the public name is free as
   long as it has not come to it. *)
Stage(p) ==
  /\ pc[p] \in {"stat", "openpriv"} => priv[File(p)] = NoFile
  /\ pc[p] = "writepriv" => priv[File(p)] = Torn
  /\ pc[p] \in {"openpub", "writepub"} => priv[File(p)] = pair[p]
  /\ pc[p] # "stat" => pub[key[p]] \notin Pairs

Holds(d, k) == \E p \in Procs : key[p] = k /\ home[p] = d

(* Of an id nobody meddled with, one keygen at most is at work; what was
   signed is the private key that is there; a public key belongs to one of the
   private keys, and any other is the half of a keygen that stopped. *)
Whole(k) ==
  /\ \A p, q \in Procs : key[p] = k /\ key[q] = k => p = q
  /\ \A p \in Procs : key[p] = k => Stage(p)
  /\ \A r \in log : r.key # 0 => (r.file = k => priv[<<r.dir, k>>] = r.pair)
  /\ pub[k] \in Pairs => \E d \in Dirs : priv[<<d, k>>] = pub[k]
  /\ \A d \in Dirs :
       priv[<<d, k>>] \in Pairs =>
         <<d, k>> \in halves \/ Holds(d, k) \/ priv[<<d, k>>] = pub[k]

PairInv == \A k \in KeyIds \ meddled : Whole(k)

LEMMA PairInit == Init => PairInv
  BY KeysDiffer, FilesAssumption DEF Init, PairInv, Whole, NoKeys, PrivFiles

LEMMA SignedRecord ==
  ASSUME KeyInv, NEW r \in log, r.key # 0
  PROVE  r \in Signed
  BY DEF KeyInv, TypeOK, Record, Claim

LEMMA PairStep == KeyInv /\ PairInv /\ [Next]_vars => PairInv'
  <1> SUFFICES ASSUME KeyInv, PairInv, [Next]_vars, NEW k \in KeyIds \ meddled'
               PROVE  Whole(k)'
    BY DEF PairInv
  <1>1. meddled \subseteq meddled'
    BY DEF Next, vars, Keygen, Generate, OpenPriv, WritePriv, OpenPub, WritePub,
           KeygenStops, Attest, AttestUnsigned, ListEvidence, ReadDir, ReadKey,
           NoKeyring, Close, Refuse, EndClose, Replace, Lose, keys
  <1>2. k \in KeyIds /\ k \notin meddled' /\ Whole(k)
    BY <1>1 DEF PairInv
  <1>3. \A r \in log : r.key # 0 => r.pair \in Pairs /\ r.dir \in Dirs
    BY SignedRecord DEF Signed
  <1>4. \A d \in Dirs : <<d, k>> \in PrivFiles
    BY <1>2 DEF PrivFiles
  <1> USE KeysDiffer, FilesAssumption, <1>2 DEF KeyInv, TypeOK, GoTo
  <1>5. ASSUME NEW p \in Procs, NEW f \in Keygens, Keygen(p, f[1], f[2])
        PROVE  Whole(k)'
    <2>1. /\ UNCHANGED <<priv, pub, log, pair, halves>>
          /\ key' = [key EXCEPT ![p] = f[2]] /\ home' = [home EXCEPT ![p] = f[1]]
          /\ pc' = [pc EXCEPT ![p] = "stat"] /\ key[p] = 0
      BY <1>5 DEF Keygen, check, Generating
    <2>2. f[2] = k => priv[<<f[1], k>>] = NoFile /\ \A q \in Procs : key[q] # k
      BY <1>5 DEF Keygen, Working
    <2>3. \A q \in Procs : q # p => File(q)' = File(q)
      BY <2>1 DEF File
    <2>4. File(p)' = <<f[1], f[2]>>
      BY <2>1 DEF File
    <2>5. ASSUME NEW q \in Procs, key'[q] = k PROVE Stage(q)'
      <3>1. CASE q = p
        <4>1. pc'[q] = "stat" /\ File(q)' = <<f[1], k>> /\ priv'[<<f[1], k>>] = NoFile
          BY <2>1, <2>2, <2>4, <2>5, <3>1
        <4>2. QED
          BY <4>1 DEF Stage
      <3>2. CASE q # p
        <4>1. Stage(q) /\ pc'[q] = pc[q] /\ key'[q] = key[q] /\ File(q)' = File(q)
          BY <2>1, <2>3, <2>5, <3>2 DEF Whole
        <4>2. QED
          BY <2>1, <4>1 DEF Stage
      <3>3. QED
        BY <3>1, <3>2
    <2>6. \A d \in Dirs : Holds(d, k) => Holds(d, k)'
      BY <2>1 DEF Holds
    <2>7. QED
      BY <2>1, <2>2, <2>5, <2>6 DEF Whole
  <1>6. ASSUME NEW p \in Procs, Generate(p) PROVE Whole(k)'
    <2>1. /\ UNCHANGED <<priv, pub, log, key, home, halves>>
          /\ pc' = [pc EXCEPT ![p] = "openpriv"] /\ pc[p] = "stat"
          /\ \A q \in Procs : q # p => pair'[q] = pair[q]
          /\ pub[key[p]] = NoFile
      BY <1>6 DEF Generate, check
    <2>2. \A q \in Procs : File(q)' = File(q) /\ (key[q] = k => Stage(q))
      BY <2>1 DEF File, Whole
    <2>3. \A q \in Procs : key'[q] = k => Stage(q)'
      BY <2>1, <2>2 DEF Stage
    <2>4. \A d \in Dirs : Holds(d, k)' = Holds(d, k)
      BY <2>1 DEF Holds
    <2>5. QED
      BY <2>1, <2>3, <2>4 DEF Whole
  <1>7. ASSUME NEW p \in Procs, NEW f \in {Torn, pair[p]},
               pc[p] \in {"openpriv", "writepriv"},
               priv' = [priv EXCEPT ![File(p)] = f],
               \/ pc[p] = "openpriv" /\ pc' = [pc EXCEPT ![p] = "writepriv"] /\ f = Torn
               \/ pc[p] = "writepriv" /\ pc' = [pc EXCEPT ![p] = "openpub"] /\ f = pair[p],
               UNCHANGED <<pub, log, key, home, pair, halves>>
        PROVE  Whole(k)'
    <2>1. key[p] \in KeyIds /\ home[p] \in Dirs /\ File(p) \in PrivFiles
      BY <1>7 DEF Generating, KeyIds, File, PrivFiles
    <2>2. CASE key[p] # k
      <3>1. \A d \in Dirs : priv'[<<d, k>>] = priv[<<d, k>>]
        BY <1>4, <1>7, <2>1, <2>2 DEF File
      <3>2. \A q \in Procs : key[q] = k => /\ Stage(q) /\ q # p /\ pc'[q] = pc[q]
                                           /\ File(q)' = File(q) /\ home[q] \in Dirs
                                           /\ File(q) = <<home[q], k>>
        BY <1>7, <2>2 DEF Whole, File
      <3>3. \A q \in Procs : key'[q] = k => Stage(q)'
        BY <1>7, <3>1, <3>2 DEF Stage
      <3>4. \A d \in Dirs : Holds(d, k)' = Holds(d, k)
        BY <1>7 DEF Holds
      <3>5. QED
        BY <1>3, <1>7, <3>1, <3>3, <3>4 DEF Whole
    <2>3. CASE key[p] = k
      <3>1. File(p) = <<home[p], k>> /\ Stage(p) /\ pub[k] \notin Pairs
            /\ priv[File(p)] \notin Pairs /\ \A q \in Procs : key[q] = k => q = p
        BY <1>7, <2>3 DEF File, Whole, Stage
      <3>2. priv'[<<home[p], k>>] = f
            /\ \A d \in Dirs : d # home[p] => priv'[<<d, k>>] = priv[<<d, k>>]
        BY <1>4, <1>7, <2>1, <3>1
      <3>3. \A r \in log : r.key # 0 /\ r.file = k => r.dir # home[p]
        BY <1>3, <3>1 DEF Whole
      <3>4. \A q \in Procs : key'[q] = k => Stage(q)'
        BY <1>7, <3>1, <3>2 DEF Stage, File
      <3>5. Holds(home[p], k)' /\ \A d \in Dirs : Holds(d, k)' = Holds(d, k)
        BY <1>7, <2>3 DEF Holds
      <3>6. QED
        BY <1>3, <1>7, <3>1, <3>2, <3>3, <3>4, <3>5 DEF Whole
    <2>4. QED
      BY <2>2, <2>3
  <1>8. ASSUME NEW p \in Procs, OpenPriv(p) \/ WritePriv(p) PROVE Whole(k)'
    BY <1>7, <1>8 DEF OpenPriv, WritePriv, check
  <1>9. ASSUME NEW p \in Procs, OpenPub(p) PROVE Whole(k)'
    <2>1. /\ UNCHANGED <<priv, log, key, home, pair, halves>>
          /\ pub' = [pub EXCEPT ![key[p]] = Torn]
          /\ pc[p] = "openpub" /\ pc' = [pc EXCEPT ![p] = "writepub"]
      BY <1>9 DEF OpenPub
    <2>2. key[p] = k => pub[k] \notin Pairs
      BY <2>1 DEF Whole, Stage
    <2>3. \A q \in Procs : File(q)' = File(q) /\ (key[q] = k => Stage(q))
      BY <2>1 DEF File, Whole
    <2>4. pub'[k] = pub[k] \/ (key[p] = k /\ pub'[k] \notin Pairs)
      BY <2>1
    <2>5. \A q \in Procs : key'[q] = k => Stage(q)'
      BY <2>1, <2>3, <2>4 DEF Stage
    <2>6. \A d \in Dirs : Holds(d, k)' = Holds(d, k)
      BY <2>1 DEF Holds
    <2>7. QED
      BY <2>1, <2>2, <2>4, <2>5, <2>6 DEF Whole
  <1>10. ASSUME NEW p \in Procs, WritePub(p) PROVE Whole(k)'
    <2>1. /\ UNCHANGED <<priv, log, halves>> /\ pub' = [pub EXCEPT ![key[p]] = pair[p]]
          /\ pc[p] = "writepub" /\ pc' = [pc EXCEPT ![p] = "idle"]
          /\ key' = [key EXCEPT ![p] = 0] /\ home' = [home EXCEPT ![p] = NoFile]
          /\ pair' = [pair EXCEPT ![p] = 0]
      BY <1>10 DEF WritePub, EndKeygen
    <2>2. \A q \in Procs : q # p => File(q)' = File(q)
      BY <2>1 DEF File
    <2>3. CASE key[p] # k
      <3>0. pub'[k] = pub[k]
        BY ONLY <1>2, <2>1, <2>3 DEF KeyInv, TypeOK
      <3>1. pub'[k] = pub[k] /\ \A q \in Procs : key'[q] = k => q # p /\ key[q] = k
        BY <2>1, <3>0
      <3>2. \A q \in Procs : key'[q] = k => Stage(q)'
        BY <2>1, <2>2, <3>1 DEF Whole, Stage
      <3>3. \A d \in Dirs : Holds(d, k) => Holds(d, k)'
        BY <2>1, <2>3 DEF Holds
      <3>4. QED
        BY <2>1, <3>1, <3>2, <3>3 DEF Whole
    <2>4. CASE key[p] = k
      <3>1. /\ priv[<<home[p], k>>] = pair[p] /\ home[p] \in Dirs
            /\ pub[k] \notin Pairs /\ pub'[k] = pair[p]
            /\ \A q \in Procs : key[q] = k => q = p
        BY <2>1, <2>4 DEF Whole, Stage, File, Generating
      <3>2. \A q \in Procs : key'[q] # k
        BY <2>1, <3>1
      <3>3. \A d \in Dirs : priv[<<d, k>>] \in Pairs =>
                              <<d, k>> \in halves \/ d = home[p]
        BY <3>1 DEF Whole, Holds
      <3>4. QED
        BY <2>1, <3>1, <3>2, <3>3 DEF Whole
    <2>5. QED
      BY <2>3, <2>4
  <1>11. ASSUME NEW p \in Procs, KeygenStops(p) PROVE Whole(k)'
    <2>1. /\ UNCHANGED <<priv, pub, log>> /\ pc' = [pc EXCEPT ![p] = "idle"]
          /\ key' = [key EXCEPT ![p] = 0] /\ home' = [home EXCEPT ![p] = NoFile]
          /\ pair' = [pair EXCEPT ![p] = 0] /\ halves \subseteq halves'
          /\ pc[p] \in {"openpub", "writepub"} => File(p) \in halves'
          /\ pc[p] \in Generating
      BY <1>11 DEF KeygenStops, EndKeygen, check
    <2>2. \A q \in Procs : key'[q] = k => q # p /\ key[q] = k /\ File(q)' = File(q)
      BY <2>1 DEF File
    <2>3. \A q \in Procs : key'[q] = k => Stage(q)'
      BY <2>1, <2>2 DEF Whole, Stage
    <2>4. ASSUME NEW d \in Dirs, priv[<<d, k>>] \in Pairs
          PROVE  <<d, k>> \in halves' \/ Holds(d, k)' \/ priv[<<d, k>>] = pub[k]
      <3>1. CASE <<d, k>> \in halves \/ priv[<<d, k>>] = pub[k]
        BY <2>1, <3>1
      <3>2. CASE Holds(d, k)
        <4>1. PICK q \in Procs : key[q] = k /\ home[q] = d
          BY <3>2 DEF Holds
        <4>2. CASE q # p
          BY <2>1, <4>1, <4>2 DEF Holds
        <4>3. CASE q = p
          <5>1. File(p) = <<d, k>> /\ Stage(p)
            BY <4>1, <4>3 DEF File, Whole
          <5>2. pc[p] \in {"openpub", "writepub"}
            BY <2>1, <2>4, <5>1 DEF Stage, Generating
          <5>3. QED
            BY <2>1, <5>1, <5>2
        <4>4. QED
          BY <4>2, <4>3
      <3>3. QED
        BY <2>4, <3>1, <3>2 DEF Whole
    <2>5. QED
      BY <2>1, <2>2, <2>3, <2>4 DEF Whole
  <1>12. ASSUME UNCHANGED <<priv, pub, key, home, pair, halves>>,
                \A q \in Procs : pc'[q] = pc[q] \/ (key[q] = 0 /\ key'[q] = 0),
                \A r \in log' : r \in log \/ (r.key # 0 => priv[<<r.dir, r.file>>] = r.pair)
         PROVE  Whole(k)'
    <2>1. \A q \in Procs : File(q)' = File(q)
      BY <1>12 DEF File
    <2>2. \A q \in Procs : key'[q] = k => Stage(q)'
      BY <1>12, <2>1 DEF Whole, Stage
    <2>3. \A d \in Dirs : Holds(d, k)' = Holds(d, k)
      BY <1>12 DEF Holds
    <2>4. QED
      BY <1>12, <2>2, <2>3 DEF Whole
  <1>13. ASSUME NEW s \in Signings, Attest(s[1], s[2], s[3], s[4]) PROVE Whole(k)'
    <2>1. UNCHANGED <<priv, pub, key, home, pair, halves, pc>>
          /\ log' = log \cup {By(s[1], s[2], s[3], s[4])}
      BY <1>13 DEF Attest, keys
    <2> DEFINE new == By(s[1], s[2], s[3], s[4])
    <2>2. new.dir = s[1] /\ new.file = s[2] /\ new.pair = priv[<<s[1], s[2]>>]
      BY DEF By
    <2> HIDE DEF new
    <2>3. \A r \in log' : r \in log \/ r = new
      BY <2>1 DEF new
    <2>4. \A r \in log' : r \in log \/ (r.key # 0 => priv[<<r.dir, r.file>>] = r.pair)
      BY <2>2, <2>3
    <2>5. QED
      BY <1>12, <2>1, <2>4
  <1>14. ASSUME NEW role \in Roles, AttestUnsigned(role) PROVE Whole(k)'
    <2>1. UNCHANGED <<priv, pub, key, home, pair, halves, pc>>
          /\ log' = log \cup {Claim(role)}
      BY <1>14 DEF AttestUnsigned, keys
    <2>2. \A r \in log' : r \in log \/ (r.key # 0 => priv[<<r.dir, r.file>>] = r.pair)
      BY <2>1 DEF Claim
    <2>3. QED
      BY <1>12, <2>1, <2>2
  <1>15. ASSUME NEW p \in Procs,
                \/ ListEvidence(p) \/ ReadDir(p) \/ ReadKey(p)
                \/ NoKeyring(p) \/ Close(p) \/ Refuse(p)
         PROVE  Whole(k)'
    <2>1. UNCHANGED <<priv, pub, log, key, home, pair, halves>>
      BY <1>15 DEF ListEvidence, ReadDir, ReadKey, NoKeyring, Close, Refuse, EndClose, keys
    <2>2. pc[p] \notin Generating /\ \A q \in Procs : q # p => pc'[q] = pc[q]
      BY <1>15
      DEF ListEvidence, ReadDir, ReadKey, NoKeyring, Close, Refuse, EndClose, Generating
    <2>3. key[p] = 0
      BY <2>2
    <2>4. QED
      BY <1>12, <2>1, <2>2, <2>3
  <1>16. ASSUME NEW j \in KeyIds,
                (\E d \in Dirs : Lose(d, j)) \/ (\E f \in Files : Replace(j, f))
         PROVE  Whole(k)'
    <2>1. j # k
      BY <1>16 DEF Lose, Replace
    <2>2. /\ UNCHANGED <<log, pc, key, home, pair, halves>>
          /\ pub'[k] = pub[k] /\ \A d \in Dirs : priv'[<<d, k>>] = priv[<<d, k>>]
      BY <1>4, <1>16, <2>1 DEF Lose, Replace, check
    <2>3. \A q \in Procs : key[q] = k => /\ File(q) = <<home[q], k>> /\ File(q)' = File(q)
                                         /\ home[q] \in Dirs /\ Stage(q)
      BY <2>2 DEF File, Whole
    <2>4. \A q \in Procs : key'[q] = k => Stage(q)'
      BY <2>2, <2>3 DEF Stage
    <2>5. \A d \in Dirs : Holds(d, k)' = Holds(d, k)
      BY <2>2 DEF Holds
    <2>6. QED
      BY <1>3, <2>2, <2>4, <2>5 DEF Whole
  <1>17. CASE UNCHANGED vars
    BY <1>12, <1>17 DEF vars
  <1>18. QED
    BY <1>5, <1>6, <1>8, <1>9, <1>10, <1>11, <1>13, <1>14, <1>15, <1>16, <1>17
    DEF Next

(* For any number of keygens that die or are refused at any point: what was
   signed with a key file under the id keygen gave it is valid as soon as that
   id has a public key, unless a person, or two keygens of one id at once,
   parted the two, or its keygen stopped before the public half and a later one
   published that of a private key in another directory (cmdKeygen, Check). *)
THEOREM SignaturesHold == Spec => []OwnSignaturesHold
  <1>1. KeyInv /\ PairInv => OwnSignaturesHold
    <2> SUFFICES ASSUME KeyInv, PairInv, NEW r \in log, r.key # 0, r.file = r.key,
                        r.key \notin meddled, pub[r.key] \in Pairs, pub[r.key] # r.pair
                 PROVE  /\ <<r.dir, r.key>> \in halves
                        /\ \E d \in Dirs \ {r.dir} : priv[<<d, r.key>>] = pub[r.key]
      BY DEF OwnSignaturesHold, Verdict
    <2>1. r.key \in KeyIds \ meddled /\ r.pair \in Pairs /\ r.dir \in Dirs
      BY SignedRecord DEF Signed
    <2>2. Whole(r.key)
      BY <2>1 DEF PairInv
    <2>3. priv[<<r.dir, r.key>>] = r.pair
      BY <2>2 DEF Whole
    <2>4. \E d \in Dirs : priv[<<d, r.key>>] = pub[r.key]
      BY <2>2 DEF Whole
    <2>5. ASSUME Holds(r.dir, r.key) PROVE FALSE
      <3>1. PICK p \in Procs : key[p] = r.key /\ home[p] = r.dir
        BY <2>5 DEF Holds
      <3>2. Stage(p) /\ pc[p] = "stat"
        BY <2>2, <3>1 DEF Whole, Stage
      <3>3. priv[<<r.dir, r.key>>] = NoFile
        BY <3>1, <3>2 DEF Stage, File
      <3>4. QED
        BY <2>1, <2>3, <3>3, FilesAssumption
    <2>6. <<r.dir, r.key>> \in halves
      BY <2>1, <2>2, <2>3, <2>5 DEF Whole
    <2>7. QED
      BY <2>3, <2>4, <2>6
  <1>2. QED
    BY <1>1, TypeInit, TypeStep, PairInit, PairStep, PTL DEF Spec

-----------------------------------------------------------------------------
(* Counting.                                                               *)

LEMMA SubsetOfSize ==
  ASSUME NEW S, IsFiniteSet(S), NEW n \in Nat, n <= Cardinality(S)
  PROVE  \E T \in SUBSET S : Cardinality(T) = n
  <1> DEFINE size == Cardinality(S)
  <1>1. size \in Nat /\ ExistsBijection(1..size, S)
    BY FS_CardinalityType
  <1>2. PICK f : f \in Bijection(1..size, S)
    BY <1>1 DEF ExistsBijection
  <1>3. f \in [1..size -> S] /\ \A i, j \in 1..size : f[i] = f[j] => i = j
    BY <1>2 DEF Bijection, Injection, IsInjective
  <1>4. 1..n \subseteq 1..size
    BY <1>1
  <1> DEFINE T == {f[i] : i \in 1..n}
             g == [i \in 1..n |-> f[i]]
  <1>5. T \in SUBSET S
    BY <1>3, <1>4
  <1>6. g \in [1..n -> T] /\ \A i, j \in 1..n : g[i] = g[j] => i = j
    BY <1>3, <1>4
  <1>7. \A t \in T : \E i \in 1..n : g[i] = t
    OBVIOUS
  <1>8. g \in Bijection(1..n, T)
    BY <1>6, <1>7 DEF Bijection, Injection, IsInjective, Surjection
  <1>9. Cardinality(T) = n
    BY <1>8, FS_CountingElements DEF ExistsBijection
  <1>10. QED
    BY <1>5, <1>9

LEMMA KeysFinite ==
  ASSUME NEW ids \in SUBSET KeyIds
  PROVE  IsFiniteSet(ids) /\ Cardinality(ids) \in Nat
  <1>1. IsFiniteSet(KeyIds)
    BY NumbersAssumption, FS_Interval DEF KeyIds
  <1>2. IsFiniteSet(ids)
    BY <1>1, FS_Subset
  <1>3. QED
    BY <1>2, FS_CardinalityType

(* What a close has counted is an attestation of each of those keys. *)
LEMMA HaveKeys ==
  ASSUME KeyInv, NEW p \in Procs
  PROVE  /\ Have(list[p], ring[p]) \in SUBSET KeyIds
         /\ \A k \in Have(list[p], ring[p]) :
              \E r \in log : /\ r \in list[p] /\ r.key = k /\ Asked(r)
                            /\ ring[p][k] = r.pair /\ r.pair \in Pairs
  <1>1. list[p] \subseteq log
    BY DEF KeyInv, TypeOK
  <1>2. ASSUME NEW r \in list[p], Verdict(r, ring[p]) = "valid"
        PROVE  r.key \in KeyIds /\ ring[p][r.key] = r.pair /\ r.pair \in Pairs
    <2>1. r.key # 0 /\ ring[p][r.key] = r.pair
      BY <1>2 DEF Verdict
    <2>2. r \in Signed
      BY <1>1, <2>1, SignedRecord
    <2>3. QED
      BY <2>1, <2>2 DEF Signed
  <1>3. QED
    BY <1>1, <1>2 DEF Have

-----------------------------------------------------------------------------
(* A task that is closed.                                                  *)

(* Quorum many keys have an attestation that was asked for. *)
Attested(ids) ==
  /\ Cardinality(ids) = Quorum
  /\ \A k \in ids : \E r \in log : r.key = k /\ Asked(r)

ClosedInv == closed => \E ids \in SUBSET KeyIds : Attested(ids)

LEMMA ClosedStep == KeyInv /\ ClosedInv /\ [Next]_vars => ClosedInv'
  <1> SUFFICES ASSUME KeyInv, ClosedInv, [Next]_vars, closed' PROVE ClosedInv'
    BY DEF ClosedInv
  <1>1. log \subseteq log'
    BY DEF Next, vars, Keygen, Generate, OpenPriv, WritePriv, OpenPub, WritePub,
           KeygenStops, Attest, AttestUnsigned, ListEvidence, ReadDir, ReadKey,
           NoKeyring, Close, Refuse, EndClose, Replace, Lose, check
  <1>2. ASSUME NEW ids \in SUBSET KeyIds, Attested(ids) PROVE ClosedInv'
    BY <1>1, <1>2 DEF Attested, ClosedInv
  <1>3. CASE closed
    BY <1>2, <1>3 DEF ClosedInv
  <1>4. ASSUME NEW p \in Procs, Close(p) PROVE ClosedInv'
    <2> DEFINE have == Have(list[p], ring[p])
    <2>1. have \in SUBSET KeyIds /\ Cardinality(have) >= Quorum
      BY <1>4, HaveKeys DEF Close, Counted
    <2>2. PICK ids \in SUBSET have : Cardinality(ids) = Quorum
      BY <2>1, KeysFinite, SubsetOfSize, PolicyAssumption
    <2>3. Attested(ids)
      BY <2>2, HaveKeys DEF Attested
    <2>4. QED
      BY <1>2, <2>1, <2>2, <2>3
  <1>5. CASE \E p \in Procs : Close(p)
    BY <1>4, <1>5
  <1>6. CASE ~closed /\ ~ \E p \in Procs : Close(p)
    BY <1>6
    DEF Next, vars, Keygen, Generate, OpenPriv, WritePriv, OpenPub, WritePub,
        KeygenStops, Attest, AttestUnsigned, ListEvidence, ReadDir, ReadKey,
        NoKeyring, Refuse, EndClose, Replace, Lose, check
  <1>7. QED
    BY <1>3, <1>5, <1>6

(* A closed task that doctor finds nothing about still has its quorum,
   whatever became of the key files since (CheckAttestations, QuorumOf). *)
THEOREM NothingFoundMeansMet == Spec => []CleanMeansMet
  <1>1. KeyInv /\ ClosedInv => CleanMeansMet
    <2> SUFFICES ASSUME KeyInv, ClosedInv, closed, Clean PROVE QuorumMet
      BY DEF CleanMeansMet
    <2>1. PICK ids \in SUBSET KeyIds : Attested(ids)
      BY DEF ClosedInv
    <2>2. ASSUME NEW k \in ids
          PROVE  \E r \in log : /\ r.key = k /\ pub[k] \in Pairs
                                /\ r.pair = pub[k] /\ Asked(r)
      <3>1. PICK r \in log : r.key = k /\ Asked(r)
        BY <2>1, <2>2 DEF Attested
      <3>2. r.key # 0
        BY <2>1, <2>2, <3>1, KeysDiffer
      <3>3. pub[r.key] = r.pair
        BY <3>2 DEF Clean, Verdict
      <3>4. r.pair \in Pairs
        BY <3>2, SignedRecord DEF Signed
      <3>5. QED
        BY <3>1, <3>3, <3>4
    <2>3. QED
      BY <2>1, <2>2 DEF Attested, QuorumMet
  <1>2. Init => ClosedInv
    BY DEF Init, ClosedInv
  <1>3. QED
    BY <1>1, <1>2, TypeInit, TypeStep, ClosedStep, PTL DEF Spec

-----------------------------------------------------------------------------
(* A close and the keys that change under it.                              *)

(* A key whose attestation the close will count, if no key changes. *)
Counts(p, k) ==
  /\ pub[k] \in Pairs
  /\ pc[p] = "keys" => k \in todo[p] \/ ring[p][k] = pub[k]
  /\ \E r \in list[p] : r.key = k /\ r.pair = pub[k] /\ Asked(r)

(* As long as no key has changed: what has been read is what is there, what is
   still to be read exists, and a quorum that was met will be counted. *)
Steady(p) ==
  /\ \A k \in KeyIds : ring[p][k] \in Pairs => pub[k] = ring[p][k]
  /\ \A k \in todo[p] : pub[k] # NoFile
  /\ met[p] => \E ids \in SUBSET KeyIds : /\ Cardinality(ids) = Quorum
                                         /\ \A k \in ids : Counts(p, k)

CloseInv ==
  \A p \in Procs : /\ pc[p] # "keys" => ring[p] = NoKeys /\ todo[p] = {}
                   /\ Checking(p) /\ ~rekeyed[p] => Steady(p)

LEMMA CloseInit == Init => CloseInv
  BY DEF Init, CloseInv, Checking

(* A close that saw no key change finds every key it knew. *)
LEMMA KeysStay ==
  ASSUME KeyInv, [Next]_vars, NEW q \in Procs, Checking(q), Checking(q)', ~rekeyed'[q]
  PROVE  /\ ~rekeyed[q]
         /\ \A k \in KeyIds : /\ pub[k] \in Pairs => pub'[k] = pub[k]
                              /\ pub[k] # NoFile => pub'[k] # NoFile
  <1> USE DEF KeyInv, TypeOK, GoTo
  <1>1. ASSUME NEW k \in KeyIds, Rekey(k), pub' = [pub EXCEPT ![k] = pub'[k]],
               pub[k] = Torn \/ pub[k] \in Pairs \/ pub[k] = NoFile
        PROVE  /\ ~rekeyed[q]
               /\ \A j \in KeyIds : /\ pub[j] \in Pairs => pub'[j] = pub[j]
                                    /\ pub[j] # NoFile => pub'[j] # NoFile
    BY <1>1 DEF Rekey
  <1>2. \A k \in KeyIds : pub[k] = Torn \/ pub[k] \in Pairs \/ pub[k] = NoFile
    BY DEF Files
  <1>3. ASSUME NEW p \in Procs, OpenPub(p) \/ WritePub(p)
        PROVE  key[p] \in KeyIds /\ Rekey(key[p])
               /\ pub' = [pub EXCEPT ![key[p]] = pub'[key[p]]]
    <2>1. key[p] \in KeyIds /\ Rekey(key[p])
      BY <1>3 DEF OpenPub, WritePub, Generating, KeyIds
    <2>2. PICK f : pub' = [pub EXCEPT ![key[p]] = f]
      BY <1>3 DEF OpenPub, WritePub
    <2>3. pub'[key[p]] = f
      BY <2>1, <2>2
    <2>4. QED
      BY <2>1, <2>2, <2>3
  <1>4. ASSUME NEW k \in KeyIds, NEW f \in Files, Replace(k, f)
        PROVE  Rekey(k) /\ pub' = [pub EXCEPT ![k] = pub'[k]]
    BY <1>4 DEF Replace
  <1>5. ASSUME UNCHANGED <<pub, rekeyed>>
        PROVE  /\ ~rekeyed[q]
               /\ \A j \in KeyIds : /\ pub[j] \in Pairs => pub'[j] = pub[j]
                                    /\ pub[j] # NoFile => pub'[j] # NoFile
    BY <1>5
  <1>6. ASSUME NEW p \in Procs,
               ListEvidence(p) \/ NoKeyring(p) \/ Close(p) \/ Refuse(p)
        PROVE  UNCHANGED pub /\ rekeyed'[q] = rekeyed[q]
    BY <1>6 DEF ListEvidence, NoKeyring, Close, Refuse, EndClose, Checking, keys
  <1>7. CASE ~ \/ \E p \in Procs : \/ OpenPub(p) \/ WritePub(p) \/ ListEvidence(p)
                                  \/ NoKeyring(p) \/ Close(p) \/ Refuse(p)
               \/ \E k \in KeyIds, f \in Files : Replace(k, f)
    <2>1. UNCHANGED <<pub, rekeyed>>
      BY <1>7
      DEF Next, vars, Keygen, Generate, OpenPriv, WritePriv, KeygenStops, Attest,
          AttestUnsigned, ReadDir, ReadKey, Lose, keys, check
    <2>2. QED
      BY <1>5, <2>1
  <1>8. QED
    BY <1>1, <1>2, <1>3, <1>4, <1>6, <1>7

LEMMA CloseStep == KeyInv /\ CloseInv /\ [Next]_vars => CloseInv'
  <1> SUFFICES ASSUME KeyInv, CloseInv, [Next]_vars, NEW q \in Procs
               PROVE  /\ pc'[q] # "keys" => ring'[q] = NoKeys /\ todo'[q] = {}
                      /\ Checking(q)' /\ ~rekeyed'[q] => Steady(q)'
    BY DEF CloseInv
  <1> USE DEF KeyInv, TypeOK, GoTo
  <1>1. log \subseteq log'
    BY DEF Next, vars, Keygen, Generate, OpenPriv, WritePriv, OpenPub, WritePub,
           KeygenStops, Attest, AttestUnsigned, ListEvidence, ReadDir, ReadKey,
           NoKeyring, Close, Refuse, EndClose, Replace, Lose, check
  <1>2. pc[q] # "keys" => ring[q] = NoKeys /\ todo[q] = {}
    BY DEF CloseInv
  <1>3. CASE /\ pc'[q] = pc[q] \/ ~(Checking(q) \/ Checking(q)')
             /\ list'[q] = list[q] /\ todo'[q] = todo[q] /\ ring'[q] = ring[q]
             /\ met'[q] = met[q]
    <2>1. pc'[q] # "keys" => ring'[q] = NoKeys /\ todo'[q] = {}
      BY <1>2, <1>3 DEF Checking
    <2>2. ASSUME Checking(q)', ~rekeyed'[q] PROVE Steady(q)'
      <3>1. Checking(q) /\ pc'[q] = pc[q]
        BY <1>3, <2>2 DEF Checking
      <3>2. /\ ~rekeyed[q]
            /\ \A k \in KeyIds : /\ pub[k] \in Pairs => pub'[k] = pub[k]
                                 /\ pub[k] # NoFile => pub'[k] # NoFile
        BY <2>2, <3>1, KeysStay
      <3>3. Steady(q)
        BY <3>1, <3>2 DEF CloseInv
      <3>4. \A k \in KeyIds : Counts(q, k) => Counts(q, k)'
        BY <1>3, <3>1, <3>2 DEF Counts
      <3>5. QED
        BY <1>3, <3>2, <3>3, <3>4 DEF Steady
    <2>3. QED
      BY <2>1, <2>2
  <1>4. CASE ListEvidence(q)
    <2>1. /\ pc'[q] = "dir" /\ list'[q] = log /\ met'[q] = QuorumMet
          /\ UNCHANGED <<pub, todo, ring, log>> /\ pc[q] = "idle"
      BY <1>4 DEF ListEvidence, keys
    <2>2. ring[q] = NoKeys /\ todo[q] = {}
      BY <1>2, <2>1
    <2>3. QuorumMet => \E ids \in SUBSET KeyIds : /\ Cardinality(ids) = Quorum
                                                 /\ \A k \in ids : Counts(q, k)'
      BY <2>1 DEF QuorumMet, Counts
    <2>4. \A k \in KeyIds : ring'[q][k] \notin Pairs
      BY <2>1, <2>2, FilesAssumption DEF NoKeys
    <2>5. Steady(q)'
      BY <2>1, <2>2, <2>3, <2>4 DEF Steady
    <2>6. QED
      BY <2>1, <2>2, <2>5
  <1>5. CASE ReadDir(q)
    <2>1. /\ pc[q] = "dir" /\ pc'[q] = "keys"
          /\ UNCHANGED <<pub, ring, log, list, met, rekeyed>>
          /\ todo'[q] = {k \in KeyIds : pub[k] # NoFile}
      BY <1>5 DEF ReadDir, keys
    <2>2. ASSUME ~rekeyed[q] PROVE Steady(q)'
      <3>1. Steady(q)
        BY <2>1, <2>2 DEF CloseInv, Checking
      <3>2. \A k \in KeyIds : Counts(q, k) => Counts(q, k)'
        BY <2>1, FilesAssumption DEF Counts
      <3>3. QED
        BY <2>1, <3>1, <3>2 DEF Steady
    <2>3. QED
      BY <2>1, <2>2
  <1>6. CASE ReadKey(q)
    <2>1. PICK k \in KeyIds : /\ pub[k] \in Pairs
                              /\ ring' = [ring EXCEPT ![q][k] = pub[k]]
                              /\ todo' = [todo EXCEPT ![q] = @ \ {k}]
      BY <1>6 DEF ReadKey
    <2>2. pc[q] = "keys" /\ UNCHANGED <<pub, pc, log, list, met, rekeyed>>
      BY <1>6 DEF ReadKey, keys
    <2>3. /\ ring'[q][k] = pub[k] /\ \A j \in KeyIds \ {k} : ring'[q][j] = ring[q][j]
          /\ todo'[q] = todo[q] \ {k}
      BY <2>1
    <2>4. ASSUME ~rekeyed[q] PROVE Steady(q)'
      <3>1. Steady(q)
        BY <2>2, <2>4 DEF CloseInv, Checking
      <3>2. \A j \in KeyIds : Counts(q, j) => Counts(q, j)'
        BY <2>2, <2>3 DEF Counts
      <3>3. QED
        BY <2>2, <2>3, <3>1, <3>2 DEF Steady
    <2>5. QED
      BY <2>2, <2>4
  <1>7. CASE NoKeyring(q) \/ Close(q) \/ Refuse(q)
    <2>1. pc'[q] = "idle" /\ ring'[q] = NoKeys /\ todo'[q] = {}
      BY <1>7 DEF NoKeyring, Close, Refuse, EndClose
    <2>2. QED
      BY <2>1 DEF Checking
  <1>8. ASSUME NEW p \in Procs, p # q,
               \/ ListEvidence(p) \/ ReadDir(p) \/ ReadKey(p)
               \/ NoKeyring(p) \/ Close(p) \/ Refuse(p)
        PROVE  /\ pc'[q] = pc[q]
               /\ list'[q] = list[q] /\ todo'[q] = todo[q] /\ ring'[q] = ring[q]
               /\ met'[q] = met[q]
    BY <1>8 DEF ListEvidence, ReadDir, ReadKey, NoKeyring, Close, Refuse, EndClose
  <1>9. ASSUME NEW p \in Procs,
               \/ \E f \in Keygens : Keygen(p, f[1], f[2])
               \/ Generate(p) \/ OpenPriv(p) \/ WritePriv(p)
               \/ OpenPub(p) \/ WritePub(p) \/ KeygenStops(p)
        PROVE  /\ pc'[q] = pc[q] \/ ~(Checking(q) \/ Checking(q)')
               /\ list'[q] = list[q] /\ todo'[q] = todo[q] /\ ring'[q] = ring[q]
               /\ met'[q] = met[q]
    <2>1. UNCHANGED <<list, todo, ring, met>>
      BY <1>9
      DEF Keygen, Generate, OpenPriv, WritePriv, OpenPub, WritePub, KeygenStops, check
    <2>2. \A r \in Procs : r # p => pc'[r] = pc[r]
      BY <1>9
      DEF Keygen, Generate, OpenPriv, WritePriv, OpenPub, WritePub, KeygenStops, EndKeygen
    <2>3. pc[p] \notin {"dir", "keys"} /\ pc'[p] \notin {"dir", "keys"}
      BY <1>9
      DEF Keygen, Generate, OpenPriv, WritePriv, OpenPub, WritePub, KeygenStops,
          EndKeygen, Generating
    <2>4. QED
      BY <2>1, <2>2, <2>3 DEF Checking
  <1>10. ASSUME \/ \E role \in Roles : AttestUnsigned(role)
                \/ \E s \in Signings : Attest(s[1], s[2], s[3], s[4])
                \/ \E k \in KeyIds : \/ \E d \in Dirs : Lose(d, k)
                                     \/ \E f \in Files : Replace(k, f)
                \/ UNCHANGED vars
         PROVE  UNCHANGED <<pc, list, todo, ring, met>>
    BY <1>10 DEF AttestUnsigned, Attest, Lose, Replace, vars, check
  <1>11. QED
    BY <1>3, <1>4, <1>5, <1>6, <1>7, <1>8, <1>9, <1>10 DEF Next

(* A close counts a quorum that is there, and refuses none that was there when
   it began, unless somebody changes a public key while it reads them one by
   one; what leaves it without a keyring is a file that holds no key
   (QuorumOf, LoadKeys, Move). *)
THEOREM CloseIsRight == Spec => ClosesRight
  <1>1. ASSUME KeyInv, CloseInv, NEW p \in Procs, ~rekeyed[p]
        PROVE  /\ Close(p) => QuorumMet
               /\ Refuse(p) => ~met[p]
               /\ NoKeyring(p) => ~Loads
    <2> DEFINE have == Have(list[p], ring[p])
    <2>1. pc[p] = "keys" => Steady(p)
      BY <1>1 DEF CloseInv, Checking
    <2>2. ASSUME Close(p) PROVE QuorumMet
      <3>1. have \in SUBSET KeyIds /\ Cardinality(have) >= Quorum
        BY <1>1, <2>2, HaveKeys DEF Close, Counted
      <3>2. PICK ids \in SUBSET have : Cardinality(ids) = Quorum
        BY <3>1, KeysFinite, SubsetOfSize, PolicyAssumption
      <3>3. \A k \in ids : \E r \in log : /\ r.key = k /\ pub[k] \in Pairs
                                           /\ r.pair = pub[k] /\ Asked(r)
        BY <1>1, <2>1, <2>2, <3>1, HaveKeys DEF Close, Steady
      <3>4. QED
        BY <3>1, <3>2, <3>3 DEF QuorumMet
    <2>3. ASSUME Refuse(p), met[p] PROVE FALSE
      <3>1. pc[p] = "keys" /\ todo[p] = {} /\ Cardinality(have) < Quorum
        BY <2>3 DEF Refuse, Counted
      <3>2. PICK ids \in SUBSET KeyIds : /\ Cardinality(ids) = Quorum
                                         /\ \A k \in ids : Counts(p, k)
        BY <2>1, <2>3, <3>1 DEF Steady
      <3>3. ids \subseteq have
        BY <3>1, <3>2, KeysDiffer DEF Counts, Have, Verdict
      <3>4. have \in SUBSET KeyIds
        BY <1>1, HaveKeys
      <3>5. Cardinality(ids) <= Cardinality(have)
        BY <3>3, <3>4, KeysFinite, FS_Subset
      <3>6. QED
        BY <3>1, <3>2, <3>4, <3>5, KeysFinite, PolicyAssumption
    <2>4. ASSUME NoKeyring(p) PROVE ~Loads
      <3>1. PICK k \in KeyIds : k \in todo[p] /\ pub[k] \notin Pairs
        BY <2>4 DEF NoKeyring, NextKey
      <3>2. pub[k] # NoFile
        BY <2>1, <2>4, <3>1 DEF NoKeyring, Steady
      <3>3. pub[k] = Torn
        BY <1>1, <3>1, <3>2 DEF KeyInv, TypeOK, Files
      <3>4. QED
        BY <3>3 DEF Loads
    <2>5. QED
      BY <2>2, <2>3, <2>4
  <1>2. KeyInv /\ CloseInv =>
          [\A p \in Procs : ~rekeyed[p] =>
             /\ Close(p) => QuorumMet
             /\ Refuse(p) => ~met[p]
             /\ NoKeyring(p) => ~Loads]_vars
    BY <1>1
  <1>3. QED
    BY <1>2, TypeInit, TypeStep, CloseInit, CloseStep, PTL DEF Spec, ClosesRight
=============================================================================
