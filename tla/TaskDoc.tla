------------------------------ MODULE TaskDoc -------------------------------
(***************************************************************************)
(* What a document says before and after a command has written it back: a  *)
(* task, whose Bytes builds the front matter anew (task/task.go,           *)
(* task/attest.go), and a project or a spec, whose Bytes changes the       *)
(* fields that were read (spec/project.go, spec/spec.go).                  *)
(*                                                                         *)
(* One key stands for all that are treated alike.  `title` is a text that  *)
(* is always there; `review` the block of a task; `verify` the list of a   *)
(* project and `controls` those of a spec; `limits` the blocks of scalars  *)
(* of a project; `milestones` the list of blocks of a project or a spec,   *)
(* `id` what a block of it is read for; `pause_reason` the keys of a pause *)
(* and every text that is written only when it is not empty.  Every other  *)
(* key is unknown.                                                         *)
(***************************************************************************)
EXTENDS FrontMatter

CONSTANTS
  Texts,   \* what a person may write: a kind of document and its lines
  Titles,  \* what task add may be given for a title
  Reasons, \* what project pause may be given for a reason
  SubKeys  \* the keys of blocks, sorted

ASSUME TitlesAssumption == Titles \subseteq Scalars \ {""}
ASSUME ReasonsAssumption == Reasons \subseteq Scalars \ {""}

VARIABLES
  kind,  \* what the document is
  text   \* its front matter, <<>> for a file that is not there yet

vars == <<kind, text>>

Known == {"title", "review"}

-----------------------------------------------------------------------------
(* The review policy: none, or one record.                                 *)

Number(s) == IF s = "one" THEN 1 ELSE 0
Numeral(n) == IF n = 1 THEN "one" ELSE "zero"

(* A quorum that is no number is 0. *)
ReviewFrom(f) ==
  IF Is(f, "review", "map")
  THEN LET sub == ValueOf(f, "review")[2]
       IN  <<[quorum |-> Number(Get(sub, "quorum")),
              roles |-> GetList(sub, "roles")]>>
  ELSE <<>>

(* MUTANT of PolicyBlock: the roles are left to the unknown keys. *)
PolicyBlockQuorum(p) == <<Entry("quorum", Scalar(Numeral(p.quorum)))>>

PolicyBlock(p) ==
  <<Entry("quorum", Scalar(Numeral(p.quorum)))>>
  \o IF p.roles = <<>> THEN <<>> ELSE <<Entry("roles", List(p.roles))>>

ValidRole(s) == s \in {"text", "zero", "one"}

ValidPolicy(f) ==
  \A i \in DOMAIN ReviewFrom(f) :
    \A r \in ToSet(ReviewFrom(f)[i].roles) : ValidRole(r)

-----------------------------------------------------------------------------
(* Task.Validate, of the keys the model keeps. *)
Accepts(f) == Get(f, "title") # "" /\ ValidPolicy(f)

Read == Parse(text).got
ReadsAsTask(lines) == Parse(lines).ok /\ Accepts(Parse(lines).got)

(* MUTANT of Kept: only the text of a key is kept. *)
KeptText(f, key) == Scalar(Get(f, key))

(* What Task.Bytes makes of a key it does not know. *)
Kept(f, key) ==
  IF GetList(f, key) # <<>> /\ Get(f, key) = ""
  THEN List(GetList(f, key)) ELSE Scalar(Get(f, key))

TaskFields(f) ==
  LET unknown == SelectSeq(f, LAMBDA e : e.key \notin Known)
      policy == ReviewFrom(f)
  IN  <<Entry("title", Scalar(Get(f, "title")))>>
      \o [i \in DOMAIN policy |-> Entry("review", Map(PolicyBlock(policy[i])))]
      \o [i \in DOMAIN unknown |->
            Entry(unknown[i].key, Kept(f, unknown[i].key))]

-----------------------------------------------------------------------------
(* A project and a spec: what is read, whether it stands, and the fields    *)
(* that are written for it over those that were read.                      *)

Ids(f) ==
  IF Is(f, "milestones", "items")
  THEN [i \in DOMAIN ValueOf(f, "milestones")[2] |->
          Get(ValueOf(f, "milestones")[2][i], "id")]
  ELSE <<>>

(* GetMap: what is not a scalar is left out. *)
Limits(f) ==
  IF Is(f, "limits", "map")
  THEN LET sub == ValueOf(f, "limits")[2]
       IN  [k \in {x \in KeysOf(sub) : Is(sub, x, "scalar")} |-> Get(sub, k)]
  ELSE <<>>

ProjectFrom(f) == [title |-> Get(f, "title"), verify |-> GetList(f, "verify"),
                   milestones |-> Ids(f), limits |-> Limits(f),
                   reason |-> Get(f, "pause_reason")]

SpecFrom(f) == [title |-> Get(f, "title"), controls |-> GetList(f, "controls"),
                milestones |-> Ids(f)]

ValidIds(ids) == "" \notin ToSet(ids) /\ IsInjective(ids)

ReadsAsProject(lines) ==
  LET p == ProjectFrom(Parse(lines).got)
  IN  /\ Parse(lines).ok
      /\ ValidIds(p.milestones)
      /\ \A k \in DOMAIN p.limits : p.limits[k] \in {"zero", "one"}

ReadsAsSpec(lines) ==
  LET r == SpecFrom(Parse(lines).got)
  IN  /\ Parse(lines).ok
      /\ r.title # "" /\ "" \notin ToSet(r.controls)
      /\ ValidIds(r.milestones)

PutOrDelete(f, key, there, val) ==
  IF there THEN Put(f, key, val) ELSE Delete(f, key)

Blocks(ids) == Items([i \in DOMAIN ids |-> <<Entry("id", Scalar(ids[i]))>>])

(* SetMap: the names sorted. *)
Block(limits) ==
  LET names == SelectSeq(SubKeys, LAMBDA k : k \in DOMAIN limits)
  IN  Map([i \in DOMAIN names |-> Entry(names[i], Scalar(limits[names[i]]))])

ProjectFields(f, p) ==
  LET named == Put(f, "title", Scalar(p.title))
      verified == IF "verify" \in KeysOf(f)
                  THEN Put(named, "verify", List(p.verify)) ELSE named
      dated == PutOrDelete(verified, "milestones", p.milestones # <<>>,
                           Blocks(p.milestones))
      limited == PutOrDelete(dated, "limits", p.limits # <<>>, Block(p.limits))
  IN  PutOrDelete(limited, "pause_reason", p.reason # "", Scalar(p.reason))

SpecFields(f, r) ==
  LET named == Put(f, "title", Scalar(r.title))
      listed == PutOrDelete(named, "controls", r.controls # <<>>,
                            List(r.controls))
  IN  PutOrDelete(listed, "milestones", r.milestones # <<>>,
                  Blocks(r.milestones))

-----------------------------------------------------------------------------
Init == \E t \in Texts : kind = t[1] /\ text = t[2] /\ Parse(t[2]).ok

(* task add *)
Add(title) ==
  /\ kind = "task" /\ text = <<>>
  /\ text' = Bytes(TaskFields(<<Entry("title", Scalar(title))>>))
  /\ UNCHANGED kind

(* task move, and whatever else loads a task and saves it. *)
Move ==
  /\ kind = "task" /\ ReadsAsTask(text)
  /\ text' = Bytes(TaskFields(Read))
  /\ UNCHANGED kind

(* project pause and project resume; the other commands over the record write
   it the same way. *)
Paused(reason) == [ProjectFrom(Read) EXCEPT !.reason = reason]

SetPause(reason) ==
  /\ kind = "project" /\ ReadsAsProject(text)
  /\ text' = Bytes(ProjectFields(Read, Paused(reason)))
  /\ UNCHANGED kind

(* spec move, and spec set with what the spec has. *)
SaveSpec ==
  /\ kind = "spec" /\ ReadsAsSpec(text)
  /\ text' = Bytes(SpecFields(Read, SpecFrom(Read)))
  /\ UNCHANGED kind

Next ==
  \/ Move \/ SaveSpec \/ SetPause("")
  \/ \E s \in Titles : Add(s)
  \/ \E s \in Reasons : SetPause(s)

Spec == Init /\ [][Next]_vars

-----------------------------------------------------------------------------
(* Properties.                                                             *)

(* What Bytes writes so that Parse reads it. *)
Flat(val) == val[1] = "scalar" \/ val[2] = <<>>
Plain(val) ==
  CASE val[1] = "scalar" -> val[2] \notin {"braces"} \cup Broken
    [] val[1] = "list"   -> ToSet(val[2]) \cap Broken = {}
    [] OTHER             -> TRUE

RECURSIVE Writable(_)

(* A scalar {} reads back as an empty block, one with a line break as
   something else, and of an item the first entry has the dash on its line. *)
Writable(f) ==
  /\ \A i \in DOMAIN f : Plain(f[i].val)
  /\ \A i \in DOMAIN f :
       CASE f[i].val[1] = "map"   -> Writable(f[i].val[2])
         [] f[i].val[1] = "items" ->
              \A j \in DOMAIN f[i].val[2] :
                 /\ Flat(Head(f[i].val[2][j]).val)
                 /\ Writable(f[i].val[2][j])
         [] OTHER -> TRUE

(* The keys a command owns, and those it keeps. *)
Owned == {"title", "verify", "controls", "limits", "milestones", "pause_reason"}

KeepsUnowned(before, lines) ==
  \A key \in KeysOf(before) \ Owned :
    /\ key \in KeysOf(Parse(lines).got)
    /\ ValueOf(Parse(lines).got, key) = ValueOf(before, key)

(* A project that was paused or resumed and a spec that was saved say what
   they said, but for the pause: the same milestones, limits and lists are
   read, and every field the command does not own, block or list of blocks, is
   the one that was there (project.go, Bytes).  Unless one of its texts is {},
   the reason has a line break, or an item starts with a block. *)
ReadsBack ==
  [][/\ \A s \in Reasons \cup {""} :
          SetPause(s) /\ Writable(ProjectFields(Read, Paused(s))) =>
            /\ ReadsAsProject(text')
            /\ ProjectFrom(Parse(text').got) = Paused(s)
            /\ KeepsUnowned(Read, text')
     /\ SaveSpec /\ Writable(SpecFields(Read, SpecFrom(Read))) =>
            /\ ReadsAsSpec(text')
            /\ SpecFrom(Parse(text').got) = SpecFrom(Read)
            /\ KeepsUnowned(Read, text')]_vars

(* What a move keeps of an unknown key of a task, as docs/protocol.md, 2 says
   of all of them: a list with something in it, and a text that is not {}.
   Nor does a move lose a key or the file. *)
Survives(val) ==
  \/ val[1] = "scalar" /\ val[2] # "braces"
  \/ val[1] = "list" /\ val[2] # <<>>

UnknownKept ==
  [][Move =>
       /\ ReadsAsTask(text')
       /\ KeysOf(Read) \ Known = KeysOf(Parse(text').got) \ Known
       /\ \A key \in KeysOf(Read) \ Known :
            Survives(ValueOf(Read, key)) =>
              ValueOf(Parse(text').got, key) = ValueOf(Read, key)]_vars

(* A move never changes the policy a reader reads: one that is written in a
   form nobody reads is gone from the file, and asks for nothing before and
   after. *)
PolicyKept ==
  [][Move => /\ ReviewFrom(Parse(text').got) = ReviewFrom(Read)
             /\ ~Is(Read, "review", "map") =>
                  "review" \notin KeysOf(Parse(text').got)]_vars

(* A task that was added is a task with that title when it is read, and
   nothing else, whatever quote marks and colons the title has.  (A title with
   a line break, and {}, are written so that they do not read back.) *)
AddedReads ==
  [][\A s \in Titles \ ({"braces"} \cup Broken) :
       Add(s) => /\ ReadsAsTask(text')
                 /\ Parse(text').got = <<Entry("title", Scalar(s))>>]_vars
=============================================================================
