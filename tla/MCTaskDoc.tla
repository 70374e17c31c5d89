----------------------------- MODULE MCTaskDoc ------------------------------
(* Small instances of TaskDoc for TLC. *)
EXTENDS TaskDoc, TLC

Vals == {Nothing, Bare("text"), Bare("one"), Bare("braces"), Quoted("braces"),
         Inline(<<"text">>)}

Title == Line(0, FALSE, "title", Bare("text"))

Tops(keys) == {Line(0, FALSE, k, v) : k \in keys, v \in Vals}

(* A line with neither a dash nor a key never parses. *)
Deeper(keys) ==
  {Line(i, d, k, v) : i \in {0, 2, 4}, d \in BOOLEAN, k \in keys, v \in Vals}
  \cup {Line(i, TRUE, "", v) : i \in {0, 2, 4},
                              v \in Vals \ {Inline(<<"text">>)}}

(* A title, and up to three more lines of any shape. *)
UpToThree(tops, subs) ==
  {<<Title, a>> : a \in Tops(tops)}
  \cup {<<Title, a, b>> : a \in Tops(tops), b \in Deeper(subs)}
  \cup {<<Title, a, b, c>> : a \in Tops(tops), b \in Deeper(subs), c \in Deeper(subs)}

(* A list of two blocks, the first with a list in it, and a policy whose
   roles are lines. *)
MCLong ==
  {<<Title, Line(0, FALSE, "owner", Nothing),
     Line(2, TRUE, "quorum", Bare("one")), Line(4, FALSE, "roles", Nothing),
     Line(6, TRUE, "", Bare("text")), Line(6, TRUE, "", Quoted("colon")),
     Line(2, TRUE, "quorum", Bare("text"))>>,
   <<Title, Line(0, FALSE, "review", Nothing), Line(2, FALSE, "roles", Nothing),
     Line(4, TRUE, "", Bare("text")), Line(4, TRUE, "", Bare("one"))>>}

(* Two dated blocks beside an unknown one, and limits out of order. *)
MCFull ==
  {<<Title, Line(0, FALSE, k, Nothing),
     Line(2, TRUE, "note", Bare("one")), Line(4, FALSE, "id", Nothing),
     Line(6, TRUE, "", Bare("text")), Line(6, TRUE, "", Quoted("colon")),
     Line(0, FALSE, "milestones", Nothing),
     Line(2, TRUE, "id", Bare("one")), Line(2, TRUE, "id", Quoted("colon")),
     Line(4, FALSE, "note", Bare("text")),
     Line(0, FALSE, "limits", Nothing), Line(2, FALSE, "note", Bare("one")),
     Line(2, FALSE, "id", Bare("zero"))>> : k \in {"owner", "verify", "controls"}}

MCTexts ==
  ({"task"} \X ({<<>>} \cup MCLong \cup UpToThree({"review", "owner"}, {"quorum", "roles"})))
  \cup ({"project"} \X
          (MCFull \cup UpToThree({"verify", "milestones", "limits", "owner"},
                                 {"id", "note"})))
  \cup ({"spec"} \X
          (MCFull \cup UpToThree({"controls", "milestones", "owner"}, {"id", "note"})))

MCTitles == {"text", "colon", "half", "wrapped", "braces"} \cup Broken
MCReasons == {"wrapped", "thenKey"}

MCSubKeys == <<"id", "note">>
=============================================================================
