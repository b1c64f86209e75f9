------------------------------- MODULE Merge -------------------------------
(***************************************************************************)
(* Merging another database (libmsi_database_merge, libmsi-database.c).    *)
(* First everything is compared and gathered, then table by table rows are *)
(* inserted, or conflicts counted in a table of errors.                    *)
(***************************************************************************)
EXTENDS TableData, TLC

CONSTANTS Sources,            \* databases that are merged
          ErrorNames,         \* for the tables of errors
          NoTable             \* NULL for the name of the table of errors

VARIABLES phase,              \* "idle" or "merging"
          todo,               \* tabledata: what was gathered and is not merged yet
          conflicts, r,       \* locals of libmsi_database_merge
          call                \* the arguments, and history: the tables before

(* Counts of conflicts are written as numbers, in a column of numbers.     *)
ASSUME MergeAssumption ==
  \A source \in Sources :
    /\ IsFiniteSet(DOMAIN source)
    /\ \A name \in DOMAIN source :
         /\ IsTable(source[name])
         /\ \A n \in 0 .. Cardinality(source[name].rows) : ToString(n) \in Numeral
         /\ \A i \in DOMAIN source[name].cols : LET col == source[name].cols[i] IN
              /\ col.name = "Table" => col.kind = "text"
              /\ col.name = "NumRowMergeConflicts" => col.kind = "int"

mergeVars == <<db, result, status, phase, todo, conflicts, r, call>>
NoCall == [source |-> << >>, error |-> NoTable, before |-> << >>]

(* merge_type_match: of texts the width may differ, and LOCALIZABLE.       *)
TypesMatch(mine, theirs) ==
  /\ mine.null = theirs.null /\ mine.kind = theirs.kind
  /\ mine.kind = "text" \/ mine.width = theirs.width

(* merge_verify_colnames, as far as both have columns, and                 *)
(* merge_verify_primary_keys.                                              *)
ColumnsMatch(mine, theirs) ==
  /\ \A i \in DOMAIN mine \cap DOMAIN theirs :
       mine[i].name = theirs[i].name /\ TypesMatch(mine[i], theirs[i])
  /\ KeyNames(mine) = KeyNames(theirs)

(* create_diff_row_query: keys are put between quotes as they are, NULL as *)
(* nothing at all; a query that cannot be parsed is logged and the row is  *)
(* taken for one that needs no merging.                                    *)
Askable(cols, row) == \A i \in Keyed(cols) : row[i] # Null /\ Quote \notin Range(row[i])

(* Mutant: the last field is not compared.                                 *)
EqualButLast(cols, row, other) ==
  Len(row) = Len(other) /\ \A i \in 1 .. Len(row) - 1 : row[i] = other[i]

(* _libmsi_record_compare: streams are never equal.                        *)
EqualRows(cols, row, other) ==
  /\ Len(row) = Len(other)
  /\ \A i \in DOMAIN row : row[i] = other[i] /\ (cols[i].kind = "object" => row[i] = Null)

(* merge_diff_row.                                                         *)
Found(mine, row) == {other \in mine.rows : SameKey(mine.cols, row, other)}
Conflicting(mine, theirs) ==
  {row \in theirs.rows : /\ Askable(theirs.cols, row)
                         /\ \E other \in Found(mine, row) : ~EqualRows(theirs.cols, row, other)}
Missing(mine, theirs) == {row \in theirs.rows : Askable(theirs.cols, row) /\ Found(mine, row) = {}}

(* merge_diff_tables: a table of the other database, compared with the one *)
(* of its name here if there is one.                                       *)
Gathered(source, name) ==
  [name |-> name, cols |-> source[name].cols,
   conflicts |-> IF name \in DOMAIN db
                 THEN Cardinality(Conflicting(db[name], source[name])) ELSE 0,
   rows |-> IF name \in DOMAIN db THEN Missing(db[name], source[name]) ELSE source[name].rows]

Mismatch(source) ==
  \E name \in DOMAIN source \cap DOMAIN db : ~ColumnsMatch(db[name].cols, source[name].cols)

(* gather_merge_data, in the order of the rows of `_Tables`.               *)
BeginMerge(source, error) ==
  /\ status = "ok" /\ phase = "idle" /\ ~Mismatch(source)
  /\ \E names \in SetToSeqs(DOMAIN source) :
       todo' = [i \in DOMAIN names |-> Gathered(source, names[i])]
  /\ phase' = "merging" /\ conflicts' = FALSE /\ r' = "ok"
  /\ call' = [source |-> source, error |-> error, before |-> db]
  /\ UNCHANGED <<db, result, status>>

MergeMismatch(source) ==
  /\ status = "ok" /\ phase = "idle" /\ Mismatch(source)
  /\ result' = "failed"
  /\ UNCHANGED <<db, status, phase, todo, conflicts, r, call>>

Merging == status = "ok" /\ phase = "merging" /\ todo # <<>>
Break == todo' = <<>> /\ r' = "failed"
Continue == todo' = Tail(todo) /\ UNCHANGED r

(* merge_table: the table is made if it is missing, and gets the rows one  *)
(* by one until one is refused.                                            *)
WithRows(table, rows) == [table EXCEPT !.rows = @ \cup {Fitted(table.cols, row) : row \in rows}]
Refusing(table, rows) == {row \in rows : Refused(table, Fitted(table.cols, row))}
Accepted(table, rows) == \A row \in rows : Refusing(WithRows(table, rows \ {row}), {row}) = {}

MergeTable ==
  LET next == Head(todo)
      table == IF next.name \in DOMAIN db THEN db[next.name] ELSE EmptyTable(next.cols)
  IN /\ Merging /\ next.conflicts = 0
     /\ next.name \in DOMAIN db \/ Creatable(next.cols)
     /\ \E rows \in SUBSET next.rows :
          /\ Accepted(table, rows)
          /\ db' = WithTable(next.name, WithRows(table, rows))
          /\ \/ rows = next.rows /\ Continue
             \/ Refusing(WithRows(table, rows), next.rows \ rows) # {} /\ Break
     /\ UNCHANGED <<result, status, phase, conflicts, call>>

MergeTableRefused ==
  /\ Merging /\ Head(todo).conflicts = 0
  /\ Head(todo).name \notin DOMAIN db /\ ~Creatable(Head(todo).cols)
  /\ Break
  /\ UNCHANGED <<db, result, status, phase, conflicts, call>>

(* update_merge_errors: a table of errors and in it a row for the table.   *)
ErrorColumns == <<Column("Table", "text", 255, FALSE, TRUE),
                  Column("NumRowMergeConflicts", "int", 2, FALSE, FALSE)>>
ErrorRow(name, count) == << <<name>>, <<ToString(count)>> >>

(* The INSERT, by the names of columns: a table of that name from before   *)
(* must have both, and gets NULL in its other ones (msi_arrange_record).   *)
HasErrorColumns(cols) == \A k \in 1 .. 2 : \E i \in DOMAIN cols : cols[i].name = ErrorColumns[k].name
Arranged(cols, row) ==
  [i \in DOMAIN cols |-> IF cols[i].name = ErrorColumns[1].name THEN row[1]
                         ELSE IF cols[i].name = ErrorColumns[2].name THEN row[2] ELSE Null]

RecordConflicts ==
  LET next == Head(todo)
      table == IF call.error \in DOMAIN db THEN db[call.error] ELSE EmptyTable(ErrorColumns)
      row == Fitted(table.cols, Arranged(table.cols, ErrorRow(next.name, next.conflicts)))
  IN /\ Merging /\ next.conflicts > 0 /\ call.error # NoTable
     /\ conflicts' = TRUE
     /\ IF ~HasErrorColumns(table.cols) \/ Refused(table, row)
        THEN Break /\ UNCHANGED db
        ELSE Continue /\ db' = WithTable(call.error, WithRow(table, row))
     /\ UNCHANGED <<result, status, phase, call>>

(* The name may be NULL, but it is compared with the names of tables.      *)
RecordNowhere ==
  /\ Merging /\ Head(todo).conflicts > 0 /\ call.error = NoTable
  /\ status' = "undefined"
  /\ UNCHANGED <<db, result, phase, todo, conflicts, r, call>>

EndMerge ==
  /\ status = "ok" /\ phase = "merging" /\ todo = <<>>
  /\ result' = IF conflicts THEN "failed" ELSE r
  /\ phase' = "idle" /\ call' = NoCall
  /\ conflicts' = FALSE /\ r' = "ok"
  /\ UNCHANGED <<db, status, todo>>
-----------------------------------------------------------------------------
(* What a merge should make of one table: nothing is lost here, and what   *)
(* can be asked for there is added.                                        *)
Conflicts(name) ==
  IF name \notin DOMAIN call.before \cap DOMAIN call.source THEN {}
  ELSE {row \in call.source[name].rows :
          /\ Askable(call.source[name].cols, row)
          /\ \E other \in call.before[name].rows :
               /\ SameKey(call.before[name].cols, row, other)
               /\ \/ row # other
                  \/ \E i \in DOMAIN row : call.source[name].cols[i].kind = "object" /\ row[i] # Null}
United(name) ==
  IF name \notin DOMAIN call.before THEN call.source[name].rows
  ELSE IF name \notin DOMAIN call.source THEN call.before[name].rows
  ELSE call.before[name].rows
         \cup {Fitted(call.before[name].cols, row) :
                 row \in {x \in call.source[name].rows : Askable(call.source[name].cols, x)}}
RowsBefore(name) == IF name \in DOMAIN call.before THEN call.before[name].rows ELSE {}
Named == DOMAIN call.before \cup DOMAIN call.source

(* A merge that succeeds makes the union of both, but for rows it cannot   *)
(* ask for; one that fails takes nothing away, adds nothing to a table     *)
(* with conflicts and nothing that the other database does not have, and   *)
(* when the table of errors is its own and no row was refused it has       *)
(* merged all other tables and counted every conflict.                     *)
MergeAccounts ==
  [][phase = "merging" /\ phase' = "idle" =>
       IF result' = "ok"
       THEN /\ DOMAIN db = Named
            /\ \A name \in Named : db[name].rows = United(name) /\ Conflicts(name) = {}
       ELSE /\ \A name \in DOMAIN call.before : call.before[name].rows \subseteq db[name].rows
            /\ \A name \in DOMAIN db \ {call.error} :
                 IF Conflicts(name) # {} THEN db[name].rows = RowsBefore(name)
                 ELSE db[name].rows \subseteq United(name)
            /\ r = "ok" /\ call.error \notin Named =>
                 /\ \A name \in Named : Conflicts(name) # {} \/ db[name].rows = United(name)
                 /\ db[call.error].rows = {ErrorRow(name, Cardinality(Conflicts(name))) :
                                             name \in {n \in Named : Conflicts(n) # {}}}]_mergeVars
=============================================================================
