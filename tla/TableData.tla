----------------------------- MODULE TableData -----------------------------
(***************************************************************************)
(* The tables of an open database as merge, import and export see them:    *)
(* columns and a set of rows.  Order of rows, hold counts and the catalog  *)
(* are in other modules (Table, Catalog).                                  *)
(*                                                                         *)
(* A value is a sequence of characters, of which only a few kinds matter;  *)
(* the empty one is NULL, as it is in the string table.  A number is its   *)
(* text, which counts as one character.                                    *)
(***************************************************************************)
EXTENDS Integers, FiniteSets, SequencesExt

CONSTANT Numeral              \* the texts of numbers

VARIABLES db,                 \* table names to tables
          result,             \* of the last call: "ok" or "failed"
          status              \* "ok", or "undefined" behaviour, which ends the model

Null == <<>>
Quote == "quote"              \* the character that ends a string in a query

(* Kinds, by the letters of libmsi-query.c:512-541: text (s and l), int    *)
(* (i), object (v), and temporary (g and j), a column that is only in      *)
(* memory.                                                                 *)
Column(name, kind, width, null, key) ==
  [name |-> name, kind |-> kind, width |-> width, null |-> null, key |-> key]

Keyed(cols) == {i \in DOMAIN cols : cols[i].key}
KeyNames(cols) == LET keys == SelectSeq(cols, LAMBDA c : c.key) IN [i \in DOMAIN keys |-> keys[i].name]

(* A record with fewer fields has NULL behind them; fields for which there *)
(* is no column are not looked at; a text that is no number is NULL where  *)
(* a number is asked for (libmsi_record_get_int).                          *)
IsNumber(text) == \E n \in Numeral : text = <<n>>
Fitted(cols, row) ==
  [i \in DOMAIN cols |->
     IF i \notin DOMAIN row \/ (cols[i].kind = "int" /\ ~IsNumber(row[i])) THEN Null ELSE row[i]]
SameKey(cols, one, other) == \A i \in Keyed(cols) : one[i] = other[i]

NullRefused(cols, row) == \E i \in DOMAIN cols : ~cols[i].null /\ cols[i].kind # "object" /\ row[i] = Null

(* Mutant: rows are told apart by all their cells.                         *)
RefusedIfEqual(table, row) == NullRefused(table.cols, row) \/ row \in table.rows

(* table_validate_new: no NULL where there may be none, and no second row  *)
(* with its keys.                                                          *)
Refused(table, row) ==
  \/ NullRefused(table.cols, row)
  \/ \E other \in table.rows : SameKey(table.cols, row, other)

(* What a database may hold: a cell for each column, a number or NULL in a *)
(* column of numbers, no NULL where there may be none, and no key twice.   *)
IsRow(cols, row) ==
  /\ Len(row) = Len(cols) /\ row \in Seq(Range(row)) /\ ~NullRefused(cols, row)
  /\ \A i \in DOMAIN row : /\ row[i] \in Seq(Range(row[i]))
                           /\ cols[i].kind = "int" => row[i] = Null \/ IsNumber(row[i])
IsTable(table) ==
  /\ table = [cols |-> table.cols, rows |-> table.rows]
  /\ table.cols \in Seq(Range(table.cols)) /\ table.cols # <<>>
  /\ IsFiniteSet(table.rows) /\ \A row \in table.rows : IsRow(table.cols, row)
  /\ \A row \in table.rows, other \in table.rows : row # other => ~SameKey(table.cols, row, other)

WithRow(table, row) == [table EXCEPT !.rows = @ \cup {row}]

(* msi_add_table_to_db: a statement is written with a type for each        *)
(* letter; there is none for temporary columns.                            *)
Creatable(cols) == \A i \in DOMAIN cols : cols[i].kind # "temporary"
EmptyTable(cols) == [cols |-> cols, rows |-> {}]
WithTable(name, table) == [n \in DOMAIN db \cup {name} |-> IF n = name THEN table ELSE db[n]]
=============================================================================
