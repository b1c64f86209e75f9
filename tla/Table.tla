------------------------------- MODULE Table -------------------------------
(***************************************************************************)
(* One table of a database: the statements INSERT, UPDATE, DELETE and the  *)
(* commit (libmsi/insert.c, update.c, delete.c, where.c and table.c), over *)
(* the string table the whole database shares.                             *)
(*                                                                         *)
(* A row holds numbers: in a string column the id of a string, in a number *)
(* column the number; 0 is NULL in both.  INSERT and UPDATE set cells one  *)
(* by one, and each cell may be refused, so a statement in progress is     *)
(* part of the state.  A statement that is refused before it changes       *)
(* anything is not a step.                                                 *)
(*                                                                         *)
(* Commit stands for saving and opening the file again; what becomes of    *)
(* the string table on the way is the module StringPoolFile.               *)
(***************************************************************************)
EXTENDS StringTable, SequencesExt

CONSTANTS Number,             \* numbers a number column can hold
          OutOfRange,         \* one it cannot
          Schema              \* the tables to look at, see IsSchema

(* The columns of a table; whether TEMPORARY rows are inserted into it; how*)
(* the rest of the library adds strings.  maxRows is a bound: the table    *)
(* grows no longer.                                                        *)
IsSchema(s) ==
  /\ s.columns \in Seq([type : {"string", "number"}, key : BOOLEAN, nullable : BOOLEAN])
  /\ \E c \in DOMAIN s.columns : s.columns[c].key
  /\ s.temporary \subseteq BOOLEAN /\ s.others \subseteq Persistence
  /\ s.maxRows \in Nat

ASSUME TableAssumption ==
  /\ \A s \in Schema : IsSchema(s)
  /\ Number \subseteq Nat \ {0} /\ OutOfRange \in Nat \ (Number \cup {0})

VARIABLES schema,             \* the table's, which no statement changes
          rows,               \* its data and data_persistent
          job,                \* the statement being executed
          lost,               \* history: a commit left a row an id without a string
          unchecked           \* history: a statement left keys that nobody checked

rowVars == <<rows, job, lost, unchecked>>
vars == <<schema, tableVars, rowVars>>

Columns == schema.columns
Column == DOMAIN Columns
IsString(c) == Columns[c].type = "string"
Key == {c \in Column : Columns[c].key}

(* Of a statement in progress: the cells to set, by row and column, and the*)
(* value for each column.                                                  *)
Idle == [kind |-> "idle"]
Undefined == [kind |-> "undefined"]
Job(kind, cells, vals) == [kind |-> kind, cells |-> cells, vals |-> vals]

Row(cells, temp) == [cells |-> cells, temp |-> temp]
Blank == [c \in Column |-> 0]

(* What a statement may give for a column, 0 for NULL or the empty string. *)
Given(c) == {0} \cup IF IsString(c) THEN Text ELSE Number \cup {OutOfRange}
Record == {vals \in [Column -> UNION {Given(c) : c \in Column}] :
             \A c \in Column : vals[c] \in Given(c)}

(* get_table_value_from_record: the cell a value becomes, if it is one the *)
(* table can hold and, if a string, one the string table has.              *)
CellOf(c, v) ==
  IF v = 0 THEN {0}
  ELSE IF IsString(c) THEN {sorted[i] : i \in Hits(Comparison(strings, sorted, v))}
  ELSE {v} \cap Number

(* What a cell reads as: msi_string_lookup_id for the ids.                 *)
Read(c, x) == IF IsString(c) THEN Lookup(x) ELSE x
RowRead(row) == [c \in Column |-> Read(c, row.cells[c])]

-----------------------------------------------------------------------------
(* table_validate_new and msi_table_find_row: a row has the same keys.     *)
Duplicate(vals) ==
  \E r \in 1 .. Len(rows) : \A c \in Key : rows[r].cells[c] \in CellOf(c, vals[c])

(* compare_record: the new record with a row, key by key.  A key that has  *)
(* no cell yet is greater than any.                                        *)
CompareRecord(vals, row) ==
  LET decides(c) == row.cells[c] \notin CellOf(c, vals[c])
      first == {c \in Key : decides(c) /\ \A k \in Key : k < c => ~decides(k)} IN
  CASE first = {} -> IF Len(Columns) \in Key THEN 0 ELSE 1
    [] OTHER -> CHOOSE sign \in Sign : \E c \in first :
                  sign = IF CellOf(c, vals[c]) = {} THEN 1
                         ELSE Compare(CHOOSE x \in CellOf(c, vals[c]) : TRUE, row.cells[c])

(* Where insert_view_execute and find_insert_index put a new row: how many *)
(* rows stay before it.                                                    *)
InsertIndex(vals) ==
  IF \E c \in Key : vals[c] = 0 THEN {0}
  ELSE Gaps([r \in 1 .. Len(rows) |-> CompareRecord(vals, rows[r])])

(* insert_view_execute up to table_view_set_row: a record with no NULL     *)
(* where none is allowed and keys of its own gets a row.  The rows behind  *)
(* it move up; what was in its place stays in it until its cells are set.  *)
InsertRow(vals, temp) ==
  /\ job = Idle /\ Len(rows) < schema.maxRows
  /\ \A c \in Column : vals[c] = 0 => Columns[c].nullable
  /\ ~Duplicate(vals)
  /\ \E p \in InsertIndex(vals) :
       /\ rows' = Inserted(rows, p, Row(IF p < Len(rows) THEN rows[p + 1].cells ELSE Blank, temp))
       /\ job' = Job("insert", {p + 1} \X Column, vals)
  /\ UNCHANGED <<tableVars, lost, unchecked>>

-----------------------------------------------------------------------------
(* The rows a statement has found come in ascending order, and of each the *)
(* columns in the order of the table.                                      *)
Before(a, b) == a[1] < b[1] \/ (a[1] = b[1] /\ a[2] < b[2])

(* A cell of the statement in progress: row, column and value.             *)
Setting(r, c, v) ==
  /\ job.kind \in {"insert", "update"}
  /\ <<r, c>> \in job.cells
  /\ \A cell \in job.cells \ {<<r, c>>} : Before(<<r, c>>, cell)
  /\ v = job.vals[c]

Rest(r, c) == IF job.cells = {<<r, c>>} THEN Idle ELSE [job EXCEPT !.cells = @ \ {<<r, c>>}]

(* Mutant: a new string counts as temporary data.                          *)
PersistenceOfAny(row) == "nonpersistent"

(* The references a row holds are of its own kind.                         *)
PersistenceOf(row) == IF row.temp THEN "nonpersistent" ELSE "persistent"

(* Mutant: the cell gets the id a string added next would have.            *)
SetNewStringNext(r, c, v) ==
  /\ Setting(r, c, v)
  /\ CellOf(c, v) = {} /\ IsString(c)
  /\ AddString(v, PersistenceOf(rows[r]))
  /\ rows' = [rows EXCEPT ![r].cells[c] = freeslot']
  /\ job' = Rest(r, c)
  /\ UNCHANGED <<lost, unchecked>>

(* Mutant: a string that is there already is not stored.                   *)
SetKnownKeeps(r, c, v) ==
  /\ Setting(r, c, v)
  /\ \E x \in CellOf(c, v) : rows' = [rows EXCEPT ![r].cells[c] = IF IsString(c) /\ v # 0 THEN @ ELSE x]
  /\ job' = Rest(r, c)
  /\ UNCHANGED <<tableVars, lost, unchecked>>

(* table_view_set_row, one column.  A value the table has a cell for is    *)
(* stored; if it is a string, it gets no further reference.                *)
SetKnown(r, c, v) ==
  /\ Setting(r, c, v)
  /\ \E x \in CellOf(c, v) : rows' = [rows EXCEPT ![r].cells[c] = x]
  /\ job' = Rest(r, c)
  /\ UNCHANGED <<tableVars, lost, unchecked>>

(* A new string is added, and fills the slot before the next hint.         *)
SetNewString(r, c, v) ==
  /\ Setting(r, c, v)
  /\ CellOf(c, v) = {} /\ IsString(c)
  /\ AddString(v, PersistenceOf(rows[r]))
  /\ rows' = [rows EXCEPT ![r].cells[c] = freeslot' - 1]
  /\ job' = Rest(r, c)
  /\ UNCHANGED <<lost, unchecked>>

(* A number that does not fit ends the statement there: the cells before   *)
(* it keep what they were set to, this one and those after it what they    *)
(* had.                                                                    *)
SetRefused(r, c, v) ==
  /\ Setting(r, c, v)
  /\ CellOf(c, v) = {} /\ ~IsString(c)
  /\ job' = Idle
  /\ unchecked' = (unchecked \/ job.kind = "insert")
  /\ UNCHANGED <<tableVars, rows, lost>>

-----------------------------------------------------------------------------
(* Where a cell equals a value (expr_eval_strcmp, expr_eval_binary).       *)
Matching(c, v) ==
  {r \in 1 .. Len(rows) : LET x == Read(c, rows[r].cells[c]) IN x = v \/ (x = Null /\ v = 0)}

(* update_view_execute: the cells of each row in turn.                     *)
UpdateRows(found, set, vals) ==
  /\ job = Idle
  /\ found # {}
  /\ job' = Job("update", found \X set, vals)
  /\ UNCHANGED <<tableVars, rows, lost>>

(* Mutant: keys may be set as well.                                        *)
UpdateWhereAny(set, vals, c, v) ==
  /\ UpdateRows(Matching(c, v), set, vals)
  /\ UNCHANGED unchecked

(* UPDATE with a condition: where_view_set_row lets no key be set.         *)
UpdateWhere(set, vals, c, v) ==
  /\ set \cap Key = {}
  /\ UpdateRows(Matching(c, v), set, vals)
  /\ UNCHANGED unchecked

(* UPDATE without one goes to the table itself, which does not care.       *)
UpdateAll(set, vals) ==
  /\ UpdateRows(1 .. Len(rows), set, vals)
  /\ unchecked' = (unchecked \/ (set \cap Key # {} /\ Len(rows) > 1))

-----------------------------------------------------------------------------
(* Mutant: the row after the one that is meant.                            *)
RemoveRowNext(q, r) == IF r + 1 <= Len(q) THEN RemoveAt(q, r + 1) ELSE q

(* table_view_delete_row: the rows behind move down.  A row that is not    *)
(* there is not deleted, and nobody hears of it.                           *)
RemoveRow(q, r) == IF r <= Len(q) THEN RemoveAt(q, r) ELSE q

(* delete_view_execute: every row found, by the number it had before any   *)
(* was deleted.                                                            *)
Deleted(found) ==
  LET after[i \in 0 .. Len(rows)] ==
        IF i = 0 THEN rows ELSE IF i \in found THEN RemoveRow(after[i - 1], i) ELSE after[i - 1]
  IN after[Len(rows)]

DeleteRows(found) ==
  /\ job = Idle
  /\ rows' = Deleted(found)
  /\ UNCHANGED <<tableVars, job, lost, unchecked>>

-----------------------------------------------------------------------------
(* What of a slot comes back from the file.                                *)
Kept(e) == IF e.pref = 0 THEN ZeroSlot ELSE Slot(e.str, e.pref, 0)

(* save_table stops at the first temporary row: how many rows it saves.    *)
SavedLength ==
  {n \in 0 .. Len(rows) : /\ \A r \in 1 .. n : ~rows[r].temp
                          /\ n < Len(rows) => rows[n + 1].temp}

(* The slots with a persistent count, indexed again, and the hint.         *)
KeptSlots == {n \in Live : strings[n].pref > 0}
LoadKept ==
  /\ strings' = [n \in 0 .. maxcount - 1 |-> Kept(strings[n])]
  /\ \E size \in 0 .. maxcount - 1 : sorted' \in [1 .. size -> KeptSlots]
  /\ IndexedBy(strings', maxcount, sorted')
  /\ \E last \in {0} \cup KeptSlots : (\A n \in KeptSlots : n <= last) /\ freeslot' = last + 1
  /\ UNCHANGED <<maxcount, wrapped>>

(* libmsi_database_commit: strings that only temporary data refers to and  *)
(* rows from the first temporary one on are gone.                          *)
Commit ==
  /\ job = Idle
  /\ \E n \in SavedLength : (n < Len(rows) => n <= 1) /\ rows' = SubSeq(rows, 1, n)
  /\ LoadKept
  /\ lost' = (lost \/ \E r \in 1 .. Len(rows'), c \in Column :
                        IsString(c) /\ rows'[r].cells[c] # 0 /\ strings[rows'[r].cells[c]].pref = 0)
  /\ UNCHANGED <<job, unchecked>>

(* With a temporary row in the table the buffer has room for one row: a    *)
(* second one is written past its end, and anything may follow.            *)
CommitOverrun ==
  /\ job = Idle
  /\ \E n \in SavedLength : n < Len(rows) /\ n > 1
  /\ job' = Undefined
  /\ UNCHANGED <<tableVars, rows, lost, unchecked>>

(* Another table, or a view of the streams, adds a string.                 *)
OtherString(s, persistence) ==
  /\ job = Idle
  /\ AddString(s, persistence)
  /\ UNCHANGED rowVars

-----------------------------------------------------------------------------
(* A table as CREATE TABLE leaves it in a new database.                    *)
TableInit ==
  /\ schema \in Schema
  /\ maxcount = 1 /\ strings = [n \in {0} |-> ZeroSlot]
  /\ freeslot = 1 /\ sorted = <<>> /\ wrapped = FALSE
  /\ rows = <<>> /\ job = Idle
  /\ lost = FALSE /\ unchecked = FALSE

Conditions ==
  {cond \in Column \X ({0} \cup Text \cup Number) :
     cond[2] \in Given(cond[1]) /\ (cond[2] = 0 => IsString(cond[1]))}

Statement ==
  \/ \E vals \in Record, temp \in schema.temporary : InsertRow(vals, temp)
  \/ \E set \in (SUBSET Column) \ {{}}, vals \in Record :
       /\ \A c \in Column \ set : vals[c] = 0
       /\ \/ UpdateAll(set, vals)
          \/ \E cond \in Conditions : UpdateWhere(set, vals, cond[1], cond[2])
  \/ DeleteRows(1 .. Len(rows))
  \/ \E cond \in Conditions : DeleteRows(Matching(cond[1], cond[2]))

SetCell ==
  /\ job.kind \in {"insert", "update"}
  /\ \E r \in 1 .. Len(rows), c \in Column :
       LET v == job.vals[c] IN
       SetKnown(r, c, v) \/ SetNewString(r, c, v) \/ SetRefused(r, c, v)

TableNext ==
  /\ ~wrapped
  /\ UNCHANGED schema
  /\ \/ Statement
     \/ SetCell
     \/ Commit \/ CommitOverrun
     \/ \E s \in Text, persistence \in schema.others : OtherString(s, persistence)

TableSpec == TableInit /\ [][TableNext]_vars

-----------------------------------------------------------------------------

TableTypeOK ==
  /\ TypeOK
  /\ Len(rows) <= schema.maxRows
  /\ \A r \in 1 .. Len(rows) : \A c \in Column :
       rows[r].cells[c] \in IF IsString(c) THEN 0 .. maxcount - 1 ELSE {0} \cup Number
  /\ job.kind \in {"idle", "insert", "update", "undefined"}
  /\ job.kind \in {"insert", "update"} =>
       job.cells # {} /\ job.cells \subseteq (1 .. Len(rows)) \X Column

(* Every id in a row is that of a string, as long as no commit dropped a   *)
(* string that a row it saved refers to.                                   *)
RowsResolve ==
  ~lost /\ ~wrapped =>
    \A r \in 1 .. Len(rows), c \in Column : Read(c, rows[r].cells[c]) # Null

(* No two rows have the same keys (table_validate_new looks for one before *)
(* it inserts another), unless UPDATE without a condition set them, an     *)
(* INSERT was refused halfway, or a commit dropped the string of a key.    *)
KeysUnique ==
  job = Idle /\ ~lost /\ ~unchecked =>
    \A q, r \in 1 .. Len(rows) :
      (\A c \in Key : rows[q].cells[c] = rows[r].cells[c]) => q = r

(* The rows that are to be kept, as they read.                             *)
PersistentRows == LET kept == SelectSeq(rows, LAMBDA row : ~row.temp) IN
                  [r \in 1 .. Len(kept) |-> RowRead(kept[r])]

(* A commit keeps every row that is not temporary, as it reads: a test     *)
(* inserts rows it calls persistent and finds them after commit and open   *)
(* (tests/testdatabase.c:4595, 4640).                                      *)
CommitKeepsRows == [][Commit => PersistentRows' = PersistentRows]_vars

(* The table as it reads, without row r if there is one.                   *)
RowsExcept(r) == LET rest == IF r = 0 THEN rows ELSE RemoveAt(rows, r) IN
                 [i \in 1 .. Len(rest) |-> RowRead(rest[i])]

(* In a database without temporary data it does, although a row that uses  *)
(* a string already there adds no reference of its own (table.c:1376).     *)
AllPersistent == TRUE \notin schema.temporary /\ "nonpersistent" \notin schema.others
CommitKeepsPersistent == [][AllPersistent /\ Commit => RowsExcept(0)' = RowsExcept(0)]_vars

(* The number of the row an INSERT in progress fills.                      *)
JobRows == {cell[1] : cell \in job.cells}

(* An INSERT whose values all fit leaves a row that reads as they are,     *)
(* whatever was in its place before and whichever of its strings were      *)
(* there.  Refused halfway or not, it changes what no other row reads as,  *)
(* nor their order: none is lost or doubled when they make room, and the   *)
(* strings it adds take no slot that is in use (an id that a commit left   *)
(* without a string may get another one's).                                *)
InsertAddsItsRow ==
  [][/\ job.kind = "insert" /\ job' = Idle /\ (\A c \in Column : job.vals[c] # OutOfRange) =>
          \A r \in JobRows : RowRead(rows[r])' = job.vals
     /\ ~lost /\ ~wrapped' =>
          /\ job = Idle /\ job'.kind = "insert" =>
               \A r \in JobRows' : RowsExcept(r)' = RowsExcept(0)
          /\ job.kind = "insert" => \A r \in JobRows : RowsExcept(r)' = RowsExcept(r)]_vars

(* How many of the rows found do not stand behind row j.                   *)
FoundUpTo(found, j) == Cardinality({q \in found : q <= j})

(* DELETE goes by numbers that are stale once a row is gone (delete.c:88), *)
(* which takes rows it has not found in the place of some it has.  It does *)
(* no worse than this, whichever rows it has found: no row in front of the *)
(* first of them goes, the rows that stay keep their order and read the    *)
(* same, and in place j stands the row that stood one further behind for   *)
(* each row found up to j.  So of one row found, that one goes, and of     *)
(* rows found side by side every second one stays.                         *)
DeleteMovesUp ==
  [][\A found \in SUBSET (1 .. Len(rows)) : DeleteRows(found) =>
       \A j \in 1 .. Len(rows) :
         LET from == j + FoundUpTo(found, j) IN
         IF from <= Len(rows) THEN j <= Len(rows') /\ RowRead(rows[j])' = RowRead(rows[from])
                              ELSE j > Len(rows')]_vars

(* "blank out all the rows that match" (delete.c:88): after a DELETE no    *)
(* row matches its condition.                                              *)
DeleteBlanksAll ==
  [][\A c \in Column : \A v \in Given(c) \ {0, OutOfRange} :
       DeleteRows(Matching(c, v)) => Matching(c, v)' = {}]_vars
=============================================================================
