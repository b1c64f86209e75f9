------------------------------ MODULE MCTable ------------------------------
(* The tables that are looked at: a string key with a string and a number  *)
(* beside it; a key of two columns, so that rows with a NULL key stand in  *)
(* front and the rows are not in order; and a table of one column with     *)
(* temporary rows among the others.                                        *)
EXTENDS Table

Col(type, key, nullable) == [type |-> type, key |-> key, nullable |-> nullable]
Use(columns, temporary, others, maxRows) ==
  [columns |-> columns, temporary |-> temporary, others |-> others, maxRows |-> maxRows]

StringKey == <<Col("string", TRUE, FALSE), Col("string", FALSE, TRUE), Col("number", FALSE, FALSE)>>
TwoKeys   == <<Col("string", TRUE, FALSE), Col("number", TRUE, TRUE)>>
OneKey    == <<Col("string", TRUE, FALSE)>>

Uses == {Use(StringKey, {FALSE}, {"persistent"}, 2),
         Use(TwoKeys, {FALSE}, {"persistent"}, 2),
         Use(OneKey, BOOLEAN, {"nonpersistent"}, 3)}

StreamsToo     == {Use(TwoKeys, {FALSE}, {"nonpersistent"}, 2)}
PersistentOnly == {Use(TwoKeys, {FALSE}, {"persistent"}, 2)}
=============================================================================
