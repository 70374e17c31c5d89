----------------------------- MODULE FrontMatter ----------------------------
(***************************************************************************)
(* The front matter of every document: Parse, Bytes and the accessors of   *)
(* Fields (spec/doc.go).                                                   *)
(*                                                                         *)
(* A line is its indentation, whether it starts with a dash, its key ("")  *)
(* when it has none) and what follows.  Text is one of a few scalars:      *)
(*   "text"     reads the same bare and quoted, as do the numbers          *)
(*   "zero", "one"                                                         *)
(*   "colon"    needs quotes, and gets them         ""      the empty one  *)
(*   "half"     starts with a quote mark that is not closed                *)
(*   "wrapped"  a text in quotes of its own                                *)
(*   "braces"   the two characters {}, which do not get any                *)
(* and, which only a command can put there, one that holds a line break,   *)
(* before more words ("thenWords"), a `key: value` ("thenKey") or a         *)
(* comment ("thenNote").                                                   *)
(* What follows a key is a scalar written bare or quoted, an inline list,  *)
(* or nothing.                                                             *)
(***************************************************************************)
EXTENDS Integers, Sequences, SequencesExt

Broken == {"thenWords", "thenKey", "thenNote"}
Scalars == {"text", "zero", "one", "colon", "", "half", "wrapped", "braces"}
             \cup Broken

Nothing == <<"nothing">>
Bare(s) == <<"bare", s>>
Quoted(s) == <<"quoted", s>>
Inline(items) == <<"inline", items>>

Line(indent, dash, key, val) ==
  [indent |-> indent, dash |-> dash, key |-> key, val |-> val]

(* Values: exactly one shape holds. *)
Scalar(s) == <<"scalar", s>>
List(items) == <<"list", items>>
Map(fields) == <<"map", fields>>
Items(blocks) == <<"items", blocks>>

(* Fields are entries in the order they were read, one per key. *)
Entry(key, val) == [key |-> key, val |-> val]

KeysOf(f) == {f[i].key : i \in DOMAIN f}
ValueOf(f, key) == (CHOOSE e \in ToSet(f) : e.key = key).val
Is(f, key, shape) == key \in KeysOf(f) /\ ValueOf(f, key)[1] = shape

(* An existing key keeps its position. *)
Put(f, key, val) ==
  IF key \in KeysOf(f)
  THEN [i \in DOMAIN f |-> IF f[i].key = key THEN Entry(key, val) ELSE f[i]]
  ELSE Append(f, Entry(key, val))

Delete(f, key) == SelectSeq(f, LAMBDA e : e.key # key)

Get(f, key) == IF Is(f, key, "scalar") THEN ValueOf(f, key)[2] ELSE ""

(* A scalar answers a list of one. *)
GetList(f, key) ==
  IF Is(f, key, "list") THEN ValueOf(f, key)[2]
  ELSE IF Get(f, key) = "" THEN <<>> ELSE <<Get(f, key)>>

-----------------------------------------------------------------------------
(* Parse.  Each reader answers whether it could, the next line and what it *)
(* has read.                                                               *)

Failed == [ok |-> FALSE, at |-> 0, got |-> <<>>]
Answer(at, got) == [ok |-> TRUE, at |-> at, got |-> got]

(* The text of what follows a key or a dash, a pair of quotes removed. *)
Unquoted(val) ==
  IF val = Nothing THEN "" ELSE IF val = Bare("wrapped") THEN "text" ELSE val[2]

OpensBlock(line) == line.key # ""

RECURSIVE ParseFields(_, _, _, _), ParseBlock(_, _, _), ParseList(_, _, _, _, _)

(* The entries at one level; deeper lines nobody claimed belong to it. *)
ParseFields(lines, i, indent, f) ==
  IF i > Len(lines) \/ (i <= Len(lines) /\ lines[i].indent < indent)
  THEN Answer(i, f)
  ELSE IF lines[i].dash \/ lines[i].key = "" THEN Failed
  ELSE LET key == lines[i].key
           val == lines[i].val
           block == ParseBlock(lines, i + 1, lines[i].indent)
       IN  CASE val = Bare("braces") ->
                  ParseFields(lines, i + 1, indent, Put(f, key, Map(<<>>)))
             [] val[1] = "inline" ->
                  ParseFields(lines, i + 1, indent, Put(f, key, List(val[2])))
             [] val[1] \in {"bare", "quoted"} /\ val # Bare("braces") ->
                  ParseFields(lines, i + 1, indent, Put(f, key, Scalar(Unquoted(val))))
             [] val = Nothing ->
                  IF block.ok
                  THEN ParseFields(lines, block.at, indent, Put(f, key, block.got))
                  ELSE Failed

(* What follows a bare `key:`. *)
ParseBlock(lines, i, keyIndent) ==
  IF i > Len(lines) \/ (i <= Len(lines) /\ lines[i].indent <= keyIndent)
  THEN Answer(i, List(<<>>))
  ELSE IF lines[i].dash
  THEN ParseList(lines, i, lines[i].indent, OpensBlock(lines[i]), <<>>)
  ELSE LET sub == ParseFields(lines, i, lines[i].indent, <<>>)
       IN  IF sub.ok THEN Answer(sub.at, Map(sub.got)) ELSE Failed

(* The items at one indentation; the first decides what they are.  The first
   entry of a block rides on the line of its dash and is read alone. *)
ParseList(lines, i, sub, blocks, got) ==
  IF i > Len(lines) \/ (i <= Len(lines) /\ (lines[i].indent # sub \/ ~lines[i].dash))
  THEN Answer(i, IF blocks THEN Items(got) ELSE List(got))
  ELSE IF blocks # OpensBlock(lines[i]) THEN Failed
  ELSE IF ~blocks
  THEN ParseList(lines, i + 1, sub, blocks, Append(got, Unquoted(lines[i].val)))
  ELSE LET head == ParseFields(<<[lines[i] EXCEPT !.dash = FALSE]>>, 1, 0, <<>>)
           tail == ParseFields(lines, i + 1, sub + 1, <<>>)
           item == FoldLeft(LAMBDA f, e : Put(f, e.key, e.val), head.got, tail.got)
       IN  IF head.ok /\ tail.ok
           THEN ParseList(lines, tail.at, sub, blocks, Append(got, item))
           ELSE Failed

Parse(lines) == ParseFields(lines, 1, 0, <<>>)

-----------------------------------------------------------------------------
(* Bytes.                                                                  *)

(* MUTANT of NeedsQuotes: quote marks are left as they are. *)
NeedsQuotesNotMarks(s) == s \in {"", "colon"} \cup Broken

NeedsQuotes(s) == s \in {"", "colon", "half", "wrapped"} \cup Broken

Quote(s) == IF NeedsQuotes(s) THEN Quoted(s) ELSE Bare(s)

(* A line break is written as one.  The quote that opened is not closed on its
   line, and the rest of the text is a line of its own, at the margin: one
   without a key, one with a key nobody gave, or a comment Parse skips. *)
Rest(s) ==
  CASE s = "thenWords" -> <<Line(0, FALSE, "", Bare("half"))>>
    [] s = "thenKey"   -> <<Line(0, FALSE, "stray", Bare("half"))>>
    [] s = "thenNote"  -> <<>>

Written(line) ==
  IF line.val \in {Quoted(s) : s \in Broken}
  THEN <<[line EXCEPT !.val = Bare("half")]>> \o Rest(line.val[2])
  ELSE <<line>>

RECURSIVE WriteFields(_, _)

(* MUTANT of WriteItem: the rest of an item lines up with its dash. *)
WriteItemFlat(f, indent) ==
  LET inner == WriteFields(f, indent)
  IN  <<[Head(inner) EXCEPT !.dash = TRUE]>> \o Tail(inner)

(* The block of an item is written one level deeper, and its first line is
   moved back to carry the dash. *)
WriteItem(f, indent) ==
  LET inner == WriteFields(f, indent + 2)
  IN  <<[Head(inner) EXCEPT !.indent = indent, !.dash = TRUE]>> \o Tail(inner)

(* An item without an entry is dropped. *)
WriteValue(key, val, indent) ==
  LET held == IF val[1] = "items" THEN SelectSeq(val[2], LAMBDA f : f # <<>>)
                                  ELSE val[2]
      open == <<Line(indent, FALSE, key, Nothing)>>
  IN  CASE val[1] = "scalar" -> Written(Line(indent, FALSE, key, Quote(held)))
        [] val[1] \in {"list", "items"} /\ held = <<>> ->
             <<Line(indent, FALSE, key, Inline(<<>>))>>
        [] val[1] = "map" /\ held = <<>> ->
             <<Line(indent, FALSE, key, Bare("braces"))>>
        [] val[1] = "list" /\ held # <<>> ->
             open \o FlattenSeq([i \in DOMAIN held |->
                       Written(Line(indent + 2, TRUE, "", Quote(held[i])))])
        [] val[1] = "items" /\ held # <<>> ->
             open \o FlattenSeq([i \in DOMAIN held |->
                       WriteItem(held[i], indent + 2)])
        [] val[1] = "map" /\ held # <<>> -> open \o WriteFields(held, indent + 2)

WriteFields(f, indent) ==
  FlattenSeq([i \in DOMAIN f |-> WriteValue(f[i].key, f[i].val, indent)])

Bytes(f) == WriteFields(f, 0)
=============================================================================
