---------------------------- MODULE TextArchive ----------------------------
(***************************************************************************)
(* The text of an exported table, as msi_export_record writes it and       *)
(* msi_parse_line reads it (libmsi-database.c).  A line is its values with *)
(* tabs between, and nothing is done for a value that has a tab or the end *)
(* of a line in it.                                                        *)
(***************************************************************************)
EXTENDS Integers, FiniteSets, SequencesExt

Tab == "tab"
Newline == "newline"
Return == "return"
Mark == "mark"                \* \x11\x19, which stands for the end of a line
LineEnd == <<Return, Newline>>

(* msi_export_record.                                                      *)
TextOfRow(row) ==
  FlattenSeq([i \in DOMAIN row |-> row[i] \o (IF i < Len(row) THEN <<Tab>> ELSE LineEnd)])
TextOf(rows) == FlattenSeq([i \in DOMAIN rows |-> TextOfRow(rows[i])])

Ends == {Newline, Return}
UpTo(text, chars) ==
  LET n == SelectInSeq(text, LAMBDA c : c \in chars)
  IN IF n = 0 THEN text ELSE SubSeq(text, 1, n - 1)
From(text, chars) == SubSeq(text, Len(UpTo(text, chars)) + 1, Len(text))
Behind(text, chars) ==
  LET n == SelectInSeq(text, LAMBDA c : c \notin chars)
  IN IF n = 0 THEN <<>> ELSE SubSeq(text, n, Len(text))

Unmarked(field) ==
  FlattenSeq([i \in DOMAIN field |-> IF field[i] = Mark THEN LineEnd ELSE <<field[i]>>])

(* What separates fields: one tab, or as many ends of lines as follow.     *)
BehindSeparator(text) ==
  IF text = <<>> THEN <<>> ELSE IF Head(text) \in Ends THEN Behind(text, Ends) ELSE Tail(text)

(* msi_parse_line: as many fields as the line has tabs, and one; when one  *)
(* of them ends with a return, the others are read behind the line.        *)
WithField(got) ==
  LET start == Behind(got.rest, {Return}) IN
  [fields |-> Append(got.fields, Unmarked(UpTo(start, Ends \cup {Tab}))),
   rest |-> BehindSeparator(From(start, Ends \cup {Tab}))]
FieldsOf(text, n) ==
  LET got[k \in 0 .. n] == IF k = 0 THEN [fields |-> <<>>, rest |-> text] ELSE WithField(got[k - 1]) IN
  got[n]

Tabs(text) == {i \in DOMAIN text : text[i] = Tab}
ParseLine(text) == FieldsOf(text, 1 + Cardinality(Tabs(UpTo(text, {Newline}))))

(* Lines are read while there is text; each takes some of it.              *)
WithLine(got) ==
  IF got.rest = <<>> THEN got
  ELSE LET line == ParseLine(got.rest) IN [lines |-> Append(got.lines, line.fields), rest |-> line.rest]
LinesOf(text) ==
  LET got[k \in 0 .. Len(text)] == IF k = 0 THEN [lines |-> <<>>, rest |-> text] ELSE WithLine(got[k - 1]) IN
  got[Len(text)].lines

(* The ends of lines behind the three lines of the header are read with it. *)
RowsRead(text) == LinesOf(Behind(text, Ends))
=============================================================================
