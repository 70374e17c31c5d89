------------------------------ MODULE Keyring -------------------------------
(***************************************************************************)
(* The key pairs and what hangs on them: keygen writes a pair,             *)
(* `evidence add --attestation` signs with the private half, and whoever   *)
(* closes, verifies or doctors a project reads the public halves that are  *)
(* there at that moment (task/sign.go, task/attest.go,                     *)
(* cmd/trilha-spec/main.go).                                               *)
(*                                                                         *)
(* The public keys are the project's; a private key is in the directory of *)
(* its user, or in one keygen was given (--out).                           *)
(*                                                                         *)
(* One task, with a review policy that stays.  The evidence is the set of  *)
(* its attestations: neither their order nor one that repeats another      *)
(* makes a difference here; EvidenceLog has the log file by file.          *)
(***************************************************************************)
EXTENDS Integers, FiniteSets

CONSTANTS
  MaxKey,   \* the key ids, by number: a directory lists them in this order
  MaxPair,  \* bound: the pairs a run may generate
  MaxLog,   \* bound: the attestations a run may record
  Roles,    \* the roles people attest in
  Wanted,   \* those the policy asks for, if it asks for any
  Quorum,   \* the attestations the policy asks for
  Dirs,     \* the directories private keys are kept in
  Keygens,  \* the directory and the key id people call keygen with
  Signings, \* the private key's directory and name, the id and the role
            \* people sign with
  Procs,    \* the processes that generate keys and close the task
  NoFile,   \* there is no such file
  Torn,     \* the file holds no key: it is truncated, or something else
  MaxHands  \* bound: how often people change a key file

ASSUME NumbersAssumption ==
  MaxKey \in Nat /\ MaxPair \in Nat /\ MaxLog \in Nat /\ MaxHands \in Nat
ASSUME PolicyAssumption == Wanted \subseteq Roles /\ Quorum \in Nat \ {0}

KeyIds == 1..MaxKey
Pairs == 1..MaxPair

ASSUME KeygensAssumption == Keygens \subseteq Dirs \X KeyIds
ASSUME SigningsAssumption == Signings \subseteq Dirs \X KeyIds \X KeyIds \X Roles
ASSUME FilesAssumption == NoFile \notin Pairs /\ Torn \notin Pairs /\ NoFile # Torn

Files == Pairs \cup {NoFile, Torn}

(* The signature names the key `key`; `file` in `dir` is the private key it
   was made with.  An unsigned record has neither. *)
Signed == [role : Roles, key : KeyIds, pair : Pairs, file : KeyIds, dir : Dirs]
Claim(role) == [role |-> role, key |-> 0]
Record == Signed \cup {Claim(role) : role \in Roles}

VARIABLES
  priv,     \* the private key files, by directory and key id
  pub,      \* the public key files, .trilha/keys
  made,     \* how many pairs have been generated
  hands,    \* how often people have changed a key file
  log,      \* the attestations on record
  closed,   \* the task is done
  pc,       \* where each process is
  key,      \* the key id its keygen was given
  home,     \* the directory its keygen puts the private key in
  pair,     \* the pair its keygen has generated
  list,     \* the evidence its close has read
  todo,     \* the key files its close has still to read
  ring,     \* the public keys its close has read
  met,      \* history: the quorum was met when its close began
  rekeyed,  \* history: a public key there was has changed since its close began
  halves,   \* history: private keys whose keygen stopped before it had
            \* written the public one
  meddled   \* history: key ids a person touched or two keygens worked on

vars == <<priv, pub, made, hands, log, closed, pc, key, home, pair, list, todo,
          ring, met, rekeyed, halves, meddled>>

keys == <<priv, pub, made, hands, key, home, pair, halves, meddled>>
check == <<log, closed, list, todo, ring, met, rekeyed>>

PrivFiles == Dirs \X KeyIds
NoKeys == [k \in KeyIds |-> NoFile]

TypeOK ==
  /\ priv \in [PrivFiles -> Files] /\ pub \in [KeyIds -> Files]
  /\ made \in 0..MaxPair /\ hands \in 0..MaxHands
  /\ log \subseteq Record
  /\ closed \in BOOLEAN
  /\ pc \in [Procs -> {"idle", "stat", "openpriv", "writepriv", "openpub",
                       "writepub", "dir", "keys"}]
  /\ key \in [Procs -> 0..MaxKey] /\ home \in [Procs -> Dirs \cup {NoFile}]
  /\ pair \in [Procs -> 0..MaxPair]
  /\ list \in [Procs -> SUBSET log]
  /\ todo \in [Procs -> SUBSET KeyIds]
  /\ ring \in [Procs -> [KeyIds -> Pairs \cup {NoFile}]]
  /\ met \in [Procs -> BOOLEAN] /\ rekeyed \in [Procs -> BOOLEAN]
  /\ halves \subseteq PrivFiles /\ meddled \subseteq KeyIds

Init ==
  /\ priv = [f \in PrivFiles |-> NoFile] /\ pub = NoKeys /\ made = 0 /\ hands = 0
  /\ log = {} /\ closed = FALSE
  /\ pc = [p \in Procs |-> "idle"]
  /\ key = [p \in Procs |-> 0] /\ home = [p \in Procs |-> NoFile]
  /\ pair = [p \in Procs |-> 0]
  /\ list = [p \in Procs |-> {}] /\ todo = [p \in Procs |-> {}]
  /\ ring = [p \in Procs |-> NoKeys]
  /\ met = [p \in Procs |-> FALSE] /\ rekeyed = [p \in Procs |-> FALSE]
  /\ halves = {} /\ meddled = {}

-----------------------------------------------------------------------------
(* Verdicts.                                                               *)

Verdict(r, k) ==
  CASE r.key = 0 -> "unsigned"
    [] r.key # 0 /\ k[r.key] = r.pair -> "valid"
    [] OTHER -> "invalid"

Asked(r) == Wanted # {} => r.role \in Wanted

(* MUTANT of Have: the roles are not looked at. *)
HaveAny(l, k) == {r.key : r \in {x \in l : Verdict(x, k) = "valid"}}

(* QuorumOf, the attestations that count: one for each key id. *)
Have(l, k) == {r.key : r \in {x \in l : Verdict(x, k) = "valid" /\ Asked(x)}}

(* LoadKeys answers a keyring. *)
Loads == \A k \in KeyIds : pub[k] # Torn

(* MUTANT of Clean: a key nobody knows is no problem. *)
CleanIfUnknown ==
  Loads /\ \A r \in log : r.key # 0 /\ pub[r.key] # NoFile => Verdict(r, pub) # "invalid"

(* CheckAttestations finds nothing (and `evidence --verify` ends well). *)
Clean == Loads /\ \A r \in log : Verdict(r, pub) # "invalid"

-----------------------------------------------------------------------------
(* keygen: both names are looked up, the pair is made, the private key is  *)
(* written and then the public one.                                        *)

GoTo(p, where) == pc' = [pc EXCEPT ![p] = where]

Working(k) == \E p \in Procs : key[p] = k

(* The private key file a keygen writes. *)
File(p) == <<home[p], key[p]>>

(* MUTANT of Keygen: only the name in the project is looked up. *)
KeygenAgain(p, d, k) ==
  /\ pc[p] = "idle"
  /\ key' = [key EXCEPT ![p] = k] /\ home' = [home EXCEPT ![p] = d]
  /\ GoTo(p, "stat")
  /\ meddled' = IF Working(k) THEN meddled \cup {k} ELSE meddled
  /\ UNCHANGED <<priv, pub, made, hands, pair, halves, check>>

Keygen(p, d, k) ==
  /\ pc[p] = "idle" /\ priv[<<d, k>>] = NoFile
  /\ key' = [key EXCEPT ![p] = k] /\ home' = [home EXCEPT ![p] = d]
  /\ GoTo(p, "stat")
  /\ meddled' = IF Working(k) THEN meddled \cup {k} ELSE meddled
  /\ UNCHANGED <<priv, pub, made, hands, pair, halves, check>>

Generate(p) ==
  /\ pc[p] = "stat" /\ pub[key[p]] = NoFile
  /\ made < MaxPair
  /\ made' = made + 1
  /\ pair' = [pair EXCEPT ![p] = made + 1]
  /\ GoTo(p, "openpriv")
  /\ UNCHANGED <<priv, pub, hands, key, home, halves, meddled, check>>

OpenPriv(p) ==
  /\ pc[p] = "openpriv"
  /\ priv' = [priv EXCEPT ![File(p)] = Torn]
  /\ GoTo(p, "writepriv")
  /\ UNCHANGED <<pub, made, hands, key, home, pair, halves, meddled, check>>

WritePriv(p) ==
  /\ pc[p] = "writepriv"
  /\ priv' = [priv EXCEPT ![File(p)] = pair[p]]
  /\ GoTo(p, "openpub")
  /\ UNCHANGED <<pub, made, hands, key, home, pair, halves, meddled, check>>

Checking(p) == pc[p] \in {"dir", "keys"}

(* A file that is there is no longer what it was to whoever is reading. *)
Rekey(k) ==
  LET gone == pub[k] \in Pairs \/ (pub[k] = Torn /\ pub'[k] = NoFile)
  IN  rekeyed' = [q \in Procs |-> rekeyed[q] \/ (Checking(q) /\ gone)]

(* The name was free when it was looked up. *)
OpenPub(p) ==
  /\ pc[p] = "openpub"
  /\ pub' = [pub EXCEPT ![key[p]] = Torn]
  /\ Rekey(key[p])
  /\ GoTo(p, "writepub")
  /\ UNCHANGED <<priv, made, hands, key, home, pair, halves, meddled>>
  /\ UNCHANGED <<log, closed, list, todo, ring, met>>

EndKeygen(p) ==
  /\ GoTo(p, "idle")
  /\ key' = [key EXCEPT ![p] = 0]
  /\ home' = [home EXCEPT ![p] = NoFile]
  /\ pair' = [pair EXCEPT ![p] = 0]

WritePub(p) ==
  /\ pc[p] = "writepub"
  /\ pub' = [pub EXCEPT ![key[p]] = pair[p]]
  /\ Rekey(key[p])
  /\ EndKeygen(p)
  /\ UNCHANGED <<priv, made, hands, halves, meddled, log, closed, list, todo, ring, met>>

(* A name is taken, a write fails, or the process dies: what has been
   written stays. *)
KeygenStops(p) ==
  /\ key[p] # 0
  /\ halves' = IF pc[p] \in {"openpub", "writepub"}
               THEN halves \cup {File(p)} ELSE halves
  /\ EndKeygen(p)
  /\ UNCHANGED <<priv, pub, made, hands, meddled, check>>

-----------------------------------------------------------------------------
(* Attestations.  --sign-key names a file, --key-id may name another id.   *)

By(d, k, id, role) ==
  [role |-> role, key |-> id, pair |-> priv[<<d, k>>], file |-> k, dir |-> d]

(* MUTANT of Attest: a file without a key in it is no error. *)
AttestUnread(d, k, id, role) ==
  /\ Cardinality(log) < MaxLog
  /\ log' = log \cup {By(d, k, id, role)}
  /\ UNCHANGED <<keys, closed, pc, list, todo, ring, met, rekeyed>>

Attest(d, k, id, role) ==
  /\ priv[<<d, k>>] \in Pairs
  /\ Cardinality(log) < MaxLog
  /\ log' = log \cup {By(d, k, id, role)}
  /\ UNCHANGED <<keys, closed, pc, list, todo, ring, met, rekeyed>>

(* Without --sign-key, and by trilha_attest. *)
AttestUnsigned(role) ==
  /\ Cardinality(log) < MaxLog
  /\ log' = log \cup {Claim(role)}
  /\ UNCHANGED <<keys, closed, pc, list, todo, ring, met, rekeyed>>

-----------------------------------------------------------------------------
(* task move to done: the evidence, then the key files one by one.         *)

(* Quorum many key ids have a valid attestation in a role that is asked for. *)
QuorumMet ==
  \E ids \in SUBSET KeyIds :
    /\ Cardinality(ids) = Quorum
    /\ \A k \in ids : \E r \in log : /\ r.key = k /\ pub[k] \in Pairs
                                     /\ r.pair = pub[k] /\ Asked(r)

ListEvidence(p) ==
  /\ pc[p] = "idle" /\ ~closed
  /\ list' = [list EXCEPT ![p] = log]
  /\ met' = [met EXCEPT ![p] = QuorumMet]
  /\ rekeyed' = [rekeyed EXCEPT ![p] = FALSE]
  /\ GoTo(p, "dir")
  /\ UNCHANGED <<keys, log, closed, todo, ring>>

ReadDir(p) ==
  /\ pc[p] = "dir"
  /\ todo' = [todo EXCEPT ![p] = {k \in KeyIds : pub[k] # NoFile}]
  /\ GoTo(p, "keys")
  /\ UNCHANGED <<keys, log, closed, list, ring, met, rekeyed>>

NextKey(p, k) == k \in todo[p] /\ \A other \in todo[p] : k <= other

ReadKey(p) ==
  /\ pc[p] = "keys"
  /\ \E k \in KeyIds :
       /\ NextKey(p, k) /\ pub[k] \in Pairs
       /\ ring' = [ring EXCEPT ![p][k] = pub[k]]
       /\ todo' = [todo EXCEPT ![p] = @ \ {k}]
  /\ UNCHANGED <<keys, log, closed, pc, list, met, rekeyed>>

EndClose(p) ==
  /\ GoTo(p, "idle")
  /\ list' = [list EXCEPT ![p] = {}]
  /\ todo' = [todo EXCEPT ![p] = {}]
  /\ ring' = [ring EXCEPT ![p] = NoKeys]
  /\ met' = [met EXCEPT ![p] = FALSE]
  /\ rekeyed' = [rekeyed EXCEPT ![p] = FALSE]
  /\ UNCHANGED <<keys, log>>

(* One file that is no key, or is gone, and there is no keyring. *)
NoKeyring(p) ==
  /\ pc[p] = "keys"
  /\ \E k \in KeyIds : NextKey(p, k) /\ pub[k] \notin Pairs
  /\ EndClose(p) /\ UNCHANGED closed

Counted(p) == Cardinality(Have(list[p], ring[p]))

Close(p) ==
  /\ pc[p] = "keys" /\ todo[p] = {}
  /\ Counted(p) >= Quorum
  /\ closed' = TRUE
  /\ EndClose(p)

Refuse(p) ==
  /\ pc[p] = "keys" /\ todo[p] = {}
  /\ Counted(p) < Quorum
  /\ EndClose(p) /\ UNCHANGED closed

-----------------------------------------------------------------------------
(* People: a public key is taken away, replaced by another pair's or       *)
(* spoilt; a private key is lost.                                          *)

Touch == hands < MaxHands /\ hands' = hands + 1

Replace(k, f) ==
  /\ f \in {NoFile, Torn} \cup 1..made /\ f # pub[k]
  /\ Touch
  /\ pub' = [pub EXCEPT ![k] = f]
  /\ Rekey(k)
  /\ meddled' = meddled \cup {k}
  /\ UNCHANGED <<priv, made, log, closed, pc, key, home, pair, halves>>
  /\ UNCHANGED <<list, todo, ring, met>>

Lose(d, k) ==
  /\ priv[<<d, k>>] # NoFile
  /\ Touch
  /\ priv' = [priv EXCEPT ![<<d, k>>] = NoFile]
  /\ meddled' = meddled \cup {k}
  /\ UNCHANGED <<pub, made, pc, key, home, pair, halves, check>>

-----------------------------------------------------------------------------
Next ==
  \/ \E p \in Procs :
       \/ \E f \in Keygens : Keygen(p, f[1], f[2])
       \/ Generate(p) \/ OpenPriv(p) \/ WritePriv(p) \/ OpenPub(p) \/ WritePub(p)
       \/ KeygenStops(p)
       \/ ListEvidence(p) \/ ReadDir(p) \/ ReadKey(p) \/ NoKeyring(p)
       \/ Close(p) \/ Refuse(p)
  \/ \E role \in Roles : AttestUnsigned(role)
  \/ \E s \in Signings : Attest(s[1], s[2], s[3], s[4])
  \/ \E k \in KeyIds : \/ \E d \in Dirs : Lose(d, k)
                       \/ \E f \in Files : Replace(k, f)

Spec == Init /\ [][Next]_vars

-----------------------------------------------------------------------------
(* Properties.                                                             *)

(* What was signed with a key file under the id keygen gave it is valid as
   soon as that id has a public key, however often keygen died or was refused
   on the way, unless a person, or two keygens of one id at the same time,
   parted the two halves.  One more thing makes it invalid: its keygen stopped
   before the public half, and a later one that was given another directory
   found the private name free and published a pair of its own. *)
OwnSignaturesHold ==
  \A r \in log :
    r.key # 0 =>
      (r.file = r.key /\ r.key \notin meddled /\ pub[r.key] \in Pairs
         => \/ Verdict(r, pub) = "valid"
            \/ /\ <<r.dir, r.key>> \in halves
               /\ \E d \in Dirs \ {r.dir} : priv[<<d, r.key>>] = pub[r.key])

(* A task that closes has its quorum at that moment, and one that had it when
   the check began is not refused, unless a person, or a keygen that had found
   the name free, replaces a public key meanwhile; but a key file that cannot
   be read stops every close. *)
ClosesRight ==
  [][\A p \in Procs : ~rekeyed[p] =>
       /\ Close(p) => QuorumMet
       /\ Refuse(p) => ~met[p]
       /\ NoKeyring(p) => ~Loads]_vars

(* A closed task that doctor finds nothing about still has its quorum,
   whatever became of the keys since. *)
CleanMeansMet == closed /\ Clean => QuorumMet
=============================================================================
