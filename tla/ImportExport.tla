---------------------------- MODULE ImportExport ---------------------------
(***************************************************************************)
(* A table written to a text archive and read from it                      *)
(* (_libmsi_database_export and _libmsi_database_import).                  *)
(*                                                                         *)
(* The archive's header is its name and columns; `_SummaryInformation` and *)
(* `_ForceCodepage` are not tables and left out (see SummaryInfo), and so  *)
(* are objects, which are files of their own.                              *)
(***************************************************************************)
EXTENDS TableData, TextArchive

CONSTANT NoArchive

VARIABLES archive             \* the file: a table's name, columns and text
                              \* (and history: the rows that were written)

(* What atoi makes of other text is a number.                              *)
ASSUME ImportAssumption == "0" \in Numeral

(* Rows are written in their order in the table, which can be any.         *)
Export(name) ==
  /\ status = "ok" /\ archive = NoArchive
  /\ name \in DOMAIN db
  /\ \A i \in DOMAIN db[name].cols : db[name].cols[i].kind # "object"
  /\ \E rows \in SetToSeqs(db[name].rows) :
       archive' = [name |-> name, cols |-> db[name].cols, text |-> TextOf(rows),
                   rows |-> db[name].rows]
  /\ result' = "ok"
  /\ UNCHANGED <<db, status>>

(* construct_record: a number is what atoi makes of its text; a temporary  *)
(* column's letter is not known.                                           *)
Number(text) == IF text = Null \/ IsNumber(text) THEN text ELSE <<"0">>
Constructed(cols, fields) ==
  [i \in DOMAIN cols |-> IF cols[i].kind = "int" THEN Number(fields[i]) ELSE fields[i]]

(* Mutant: the rows that are there stay.                                   *)
NotEmptied(table) == table

(* The rows are deleted before the first line is looked at.                *)
Emptied(table) == [table EXCEPT !.rows = {}]

(* msi_add_records_to_table: ends at the first line that is refused.  The  *)
(* columns of the archive say how a line is read, those of the table what  *)
(* becomes of its fields, one after the other; names are not compared.     *)
WithFields(cols, done, fields) ==
  LET row == Fitted(done.table.cols, Constructed(cols, fields)) IN
  IF done.failed \/ ~Creatable(cols) \/ Refused(done.table, row)
  THEN [done EXCEPT !.failed = TRUE]
  ELSE [done EXCEPT !.table = WithRow(@, row)]
Inserted(cols, table, lines) ==
  LET done[n \in 0 .. Len(lines)] ==
        IF n = 0 THEN [table |-> Emptied(table), failed |-> FALSE] ELSE WithFields(cols, done[n - 1], lines[n]) IN
  done[Len(lines)]

(* A line with fewer fields than columns, which is read behind its end if  *)
(* nothing was refused before it.                                          *)
Short(cols, table, lines) ==
  LET n == SelectInSeq(lines, LAMBDA fields : Len(fields) < Len(cols))
  IN n > 0 /\ Creatable(cols) /\ ~Inserted(cols, table, SubSeq(lines, 1, n - 1)).failed

Target == IF archive.name \in DOMAIN db THEN db[archive.name] ELSE EmptyTable(archive.cols)

(* A field goes into a column of its own kind; where the table has another *)
(* one there, a cell may be refused when the row is made (see Table).      *)
SameKinds(mine, theirs) ==
  \A i \in DOMAIN mine \cap DOMAIN theirs :
    /\ mine[i].kind = theirs[i].kind
    /\ mine[i].kind = "int" => mine[i].width = theirs[i].width

CanImport == status = "ok" /\ archive # NoArchive /\ SameKinds(Target.cols, archive.cols)

Import ==
  /\ CanImport
  /\ archive.name \in DOMAIN db \/ Creatable(archive.cols)
  /\ ~Short(archive.cols, Target, RowsRead(archive.text))
  /\ LET done == Inserted(archive.cols, Target, RowsRead(archive.text)) IN
     /\ db' = WithTable(archive.name, done.table)
     /\ result' = IF done.failed THEN "failed" ELSE "ok"
  /\ archive' = NoArchive
  /\ UNCHANGED status

(* The table is not there and cannot be made.                              *)
ImportRefused ==
  /\ CanImport
  /\ archive.name \notin DOMAIN db /\ ~Creatable(archive.cols)
  /\ result' = "failed"
  /\ archive' = NoArchive
  /\ UNCHANGED <<db, status>>

(* construct_record takes as many fields as there are columns.             *)
ImportShort ==
  /\ CanImport /\ Short(archive.cols, Target, RowsRead(archive.text))
  /\ archive.name \in DOMAIN db \/ Creatable(archive.cols)
  /\ status' = "undefined"
  /\ UNCHANGED <<db, result, archive>>

(* The archive is taken to another database.                               *)
OpenOther ==
  /\ status = "ok" /\ archive # NoArchive /\ db # << >>
  /\ db' = << >>
  /\ UNCHANGED <<archive, result, status>>
-----------------------------------------------------------------------------
(* No value has a tab or the end of a line in it, or the mark for it; a    *)
(* row of one NULL is an empty line and is not seen.                       *)
Plain(row) ==
  /\ \A i \in DOMAIN row : Range(row[i]) \cap {Tab, Newline, Return, Mark} = {}
  /\ row # <<Null>>
Clean(written) == Creatable(written.cols) /\ \A row \in written.rows : Plain(row)

(* What was exported comes back: a table of plain values, where there is   *)
(* none or one with the same columns, has the rows it had, whatever it had *)
(* before the import and in whichever order the lines are, and the import  *)
(* does not fail halfway with rows deleted; no import touches another      *)
(* table.                                                                  *)
ImportRestores ==
  [][archive # NoArchive /\ archive' = NoArchive =>
       /\ \A name \in DOMAIN db \ {archive.name} : db'[name] = db[name]
       /\ Clean(archive) /\ Target.cols = archive.cols =>
            /\ result' = "ok"
            /\ db'[archive.name].rows = archive.rows]_<<db, result, status, archive>>
=============================================================================
