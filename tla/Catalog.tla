------------------------------ MODULE Catalog ------------------------------
(***************************************************************************)
(* The catalog of a database: CREATE TABLE (create.c), DROP TABLE (drop.c),*)
(* ALTER TABLE ADD, HOLD and FREE (alter.c), and what they do in table.c   *)
(* to the rows of `_Tables` and `_Columns`, to the tables in memory and to *)
(* their reference counts, up to what a commit leaves of all this.         *)
(*                                                                         *)
(* A table has a definition twice: as rows of `_Columns`, and as an array  *)
(* of columns on the table in memory, read from those rows.  Tables are    *)
(* numbers in the order of the ids of their names, which is the order of   *)
(* the rows of `_Tables`.  Of its contents a table is how many rows it has.*)
(* The rows of `_Columns` for one table are numbered from 1 without a gap: *)
(* what would leave a gap is undefined behaviour and ends the model.       *)
(*                                                                         *)
(* A table the file lists and the program has not used yet is here as it   *)
(* would be loaded: nothing it is loaded from changes before it is used.   *)
(***************************************************************************)
EXTENDS Integers, Sequences, FiniteSets

CONSTANTS Tables,             \* names of tables, numbers in the order of their ids
          ColumnNames,
          Definitions,        \* the column lists CREATE TABLE is given
          Addable,            \* the columns ALTER TABLE ADD is given
          Altered,            \* bound: the tables that are held, altered and filled; the
                              \* others are created with one column, and dropped
          MaxCols, MaxRows, MaxRef   \* bounds: columns and rows of a table, its references

MinRef == -1                  \* bound: FREE without a HOLD, once
Column == [name : ColumnNames, temp : BOOLEAN]

ASSUME CatalogAssumption ==
  /\ Tables \subseteq Int /\ Altered \subseteq Tables /\ Addable \subseteq Column
  /\ Definitions \subseteq Seq(Column) \ {<<>>}
  /\ MaxCols \in Nat /\ \A def \in Definitions : Len(def) <= MaxCols
  /\ MaxRows \in Nat \ {0} /\ MaxRef \in Nat \ {0}

VARIABLES listed,             \* the rows of `_Tables`: is the row temporary?
          columns,            \* the rows of `_Columns` of each table
          cache,              \* db->tables: the tables in memory
          known, pinned,      \* names in the string table; with a persistent count
          saved,              \* how many rows the file has for a table
          status,             \* "ok"; the model stops at "undefined" behaviour, when a
                              \* commit has "lost" a name, and when one has "failed"
          temporaries         \* history: a temporary table was created

vars == <<listed, columns, cache, known, pinned, saved, status, temporaries>>
names == <<known, pinned>>

Without(f, x) == [y \in DOMAIN f \ {x} |-> f[y]]
With(f, x, v) == [y \in DOMAIN f \cup {x} |-> IF y = x THEN v ELSE f[y]]

-----------------------------------------------------------------------------
(* Columns in memory.  held and lone are history: how often the column was *)
(* held and not freed, whatever the code counts; and whether the table     *)
(* never had a temporary column but the one that is its last.              *)

Fresh(col) == [name |-> col.name, temp |-> col.temp, ref |-> 0, held |-> 0]
NamesOf(cols) == {cols[i].name : i \in DOMAIN cols}
Plain(cols) == [i \in DOMAIN cols |-> [name |-> cols[i].name, temp |-> cols[i].temp]]
Temporary(cols) == {i \in DOMAIN cols : cols[i].temp}

(* get_tablecolumns: an array from the rows, every count is 0 again.       *)
ReadColumns(rows, old) ==
  [i \in DOMAIN rows |->
     [Fresh(rows[i]) EXCEPT !.held =
        IF i \in DOMAIN old /\ old[i].name = rows[i].name THEN old[i].held ELSE 0]]

Table(cols, ref, persistent, rows) ==
  [cols |-> cols, ref |-> ref, persistent |-> persistent, rows |-> rows,
   lone |-> Temporary(cols) \subseteq {Len(cols)}]

Loaded(t) == Table(ReadColumns(columns[t], <<>>), 0, TRUE, saved[t])

(* get_table: the table in memory, or as `_Columns` and the file have it.  *)
InMemory(t) == t \in DOMAIN cache /\ cache[t].cols # <<>>
CanGet(t) == InMemory(t) \/ columns[t] # <<>>
Get(t) == IF InMemory(t) THEN cache[t] ELSE Loaded(t)

(* What a query finds of a table, and what                                 *)
(* libmsi_database_is_table_persistent says of it.                         *)
RowsSeen(t) == IF CanGet(t) THEN Get(t).rows ELSE 0
ColumnsSeen(t) == IF CanGet(t) THEN Plain(Get(t).cols) ELSE <<>>
IsTablePersistent(t) == CanGet(t) /\ Get(t).persistent

(* A query on a table loads it; one that cannot be loaded leaves the list. *)
Open(t) ==
  /\ status = "ok"
  /\ cache' = IF CanGet(t) THEN With(cache, t, Get(t)) ELSE Without(cache, t)
  /\ UNCHANGED <<listed, columns, names, saved, status, temporaries>>

(* INSERT of a row, and DELETE of all.                                     *)
SetRows(t, n) ==
  /\ status = "ok" /\ CanGet(t) /\ n <= MaxRows
  /\ cache' = With(cache, t, [Get(t) EXCEPT !.rows = n])
  /\ UNCHANGED <<listed, columns, names, saved, status, temporaries>>

-----------------------------------------------------------------------------
(* CREATE TABLE, of a name table_view_exists does not find.  A table is    *)
(* temporary if all its columns are; it is made only if it is held.        *)
IsTemporary(def) == \A i \in DOMAIN def : def[i].temp

AddNames(t, def, persistent) ==
  /\ known' = known \cup {t} \cup NamesOf(def)
  /\ pinned' = IF persistent THEN pinned \cup {t} \cup NamesOf(def) ELSE pinned

NewTable(def, persistent) == Table([i \in DOMAIN def |-> Fresh(def[i])], 1, persistent, 0)

(* A temporary table is a row of `_Tables` and nothing in `_Columns`.  (In *)
(* memory and not listed is a table that a commit has lost and a query has *)
(* loaded since; of two tables with one name the model says nothing.)      *)
CreateTemporary(t, def) ==
  /\ status = "ok"
  /\ IsTemporary(def) /\ t \notin DOMAIN listed \cup DOMAIN cache
  /\ listed' = With(listed, t, TRUE)
  /\ cache' = With(cache, t, NewTable(def, FALSE))
  /\ AddNames(t, def, FALSE)
  /\ temporaries' = TRUE
  /\ UNCHANGED <<columns, saved, status>>

(* Mutant: the row of `_Tables` is forgotten.                              *)
CreateUnlisted(t, def) ==
  /\ status = "ok"
  /\ ~IsTemporary(def) /\ t \notin DOMAIN listed \cup DOMAIN cache /\ columns[t] = <<>>
  /\ columns' = [columns EXCEPT ![t] = def]
  /\ cache' = With(cache, t, NewTable(def, TRUE))
  /\ AddNames(t, def, TRUE)
  /\ UNCHANGED <<listed, saved, status, temporaries>>

(* A row of `_Tables`, then a row of `_Columns` for each column.           *)
Create(t, def) ==
  /\ status = "ok"
  /\ ~IsTemporary(def) /\ t \notin DOMAIN listed \cup DOMAIN cache /\ columns[t] = <<>>
  /\ listed' = With(listed, t, FALSE)
  /\ columns' = [columns EXCEPT ![t] = def]
  /\ cache' = With(cache, t, NewTable(def, TRUE))
  /\ AddNames(t, def, TRUE)
  /\ UNCHANGED <<saved, status, temporaries>>

(* The first row of `_Columns` has the key of one that is there: CREATE    *)
(* fails, but the row of `_Tables` and the names stay.                     *)
CreateFails(t, def) ==
  /\ status = "ok"
  /\ ~IsTemporary(def) /\ t \notin DOMAIN listed /\ columns[t] # <<>>
  /\ listed' = With(listed, t, FALSE)
  /\ AddNames(t, def, TRUE)
  /\ UNCHANGED <<columns, cache, saved, status, temporaries>>

-----------------------------------------------------------------------------
(* table_view_add_ref: a reference to the table and to each temporary      *)
(* column.                                                                 *)
Counted(col, ref, held) == [col EXCEPT !.ref = ref, !.held = held]
HeldColumns(cols) ==
  [i \in DOMAIN cols |->
     IF cols[i].temp THEN Counted(cols[i], cols[i].ref + 1, cols[i].held + 1) ELSE cols[i]]
AddRef(table) == [table EXCEPT !.ref = @ + 1, !.cols = HeldColumns(@)]

Hold(t) ==
  /\ status = "ok" /\ CanGet(t) /\ Get(t).ref < MaxRef
  /\ cache' = With(cache, t, AddRef(Get(t)))
  /\ UNCHANGED <<listed, columns, names, saved, status, temporaries>>

(* table_view_release, the columns: they are counted down in turn, until   *)
(* one comes to 0.  If it is in `_Columns` it is removed there and the     *)
(* rest is read again; if not the loop ends.  To remove another than the   *)
(* last leaves a gap in the numbers, and then no column can be read.       *)
Exhausted(cols) ==
  LET at0 == {i \in Temporary(cols) : cols[i].ref = 1} IN
  IF at0 = {} THEN 0 ELSE CHOOSE i \in at0 : \A j \in at0 : i <= j

Released(cols) ==
  [i \in DOMAIN cols |->
     IF ~cols[i].temp THEN cols[i]
     ELSE LET reached == Exhausted(cols) = 0 \/ i <= Exhausted(cols)
          IN Counted(cols[i], IF reached THEN cols[i].ref - 1 ELSE cols[i].ref, cols[i].held - 1)]

Removed(t) == IF Exhausted(Get(t).cols) \in DOMAIN columns[t] THEN Exhausted(Get(t).cols) ELSE 0
ColumnsLeft(t) == IF Removed(t) = 0 THEN columns[t] ELSE SubSeq(columns[t], 1, Len(columns[t]) - 1)
(* Mutant: a reference to the table goes with each column.                 *)
FreedPerColumn(t) ==
  [Get(t) EXCEPT !.ref = @ - 1 - Cardinality(Temporary(Get(t).cols)),
     !.cols = IF Removed(t) = 0 THEN Released(@) ELSE ReadColumns(ColumnsLeft(t), Released(@))]

Freed(t) ==
  [Get(t) EXCEPT !.ref = @ - 1,
     !.cols = IF Removed(t) = 0 THEN Released(@) ELSE ReadColumns(ColumnsLeft(t), Released(@))]

(* Mutant: the table leaves the memory whether it has rows or not.         *)
FreeAnyRows(t) ==
  /\ status = "ok" /\ CanGet(t) /\ Get(t).ref > MinRef
  /\ Removed(t) \in {0, Len(columns[t])}
  /\ columns' = [columns EXCEPT ![t] = ColumnsLeft(t)]
  /\ cache' = IF Freed(t).ref = 0 THEN Without(cache, t) ELSE With(cache, t, Freed(t))
  /\ UNCHANGED <<listed, names, saved, status, temporaries>>

(* Mutant: columns are freed only with the last reference to the table.    *)
FreeTableFirst(t) ==
  /\ status = "ok" /\ CanGet(t) /\ Get(t).ref > MinRef
  /\ Removed(t) \in {0, Len(columns[t])}
  /\ columns' = IF Get(t).ref = 1 THEN [columns EXCEPT ![t] = ColumnsLeft(t)] ELSE columns
  /\ cache' = IF Freed(t).ref = 0 /\ Freed(t).rows = 0 THEN Without(cache, t)
              ELSE IF Get(t).ref = 1 THEN With(cache, t, Freed(t))
              ELSE With(cache, t, [Get(t) EXCEPT !.ref = @ - 1, !.cols = Released(@)])
  /\ UNCHANGED <<listed, names, saved, status, temporaries>>

(* table_view_release: without a reference and without rows the table      *)
(* leaves the memory.  Counts may go below 0.                              *)
Free(t) ==
  /\ status = "ok" /\ CanGet(t) /\ Get(t).ref > MinRef
  /\ Removed(t) \in {0, Len(columns[t])}
  /\ columns' = [columns EXCEPT ![t] = ColumnsLeft(t)]
  /\ cache' = IF Freed(t).ref = 0 /\ Freed(t).rows = 0 THEN Without(cache, t)
              ELSE With(cache, t, Freed(t))
  /\ UNCHANGED <<listed, names, saved, status, temporaries>>

(* msi_update_table_columns uses an array that could not be read.          *)
FreeUndefined(t) ==
  /\ status = "ok" /\ CanGet(t)
  /\ Removed(t) \notin {0, Len(columns[t])}
  /\ status' = "undefined"
  /\ UNCHANGED <<listed, columns, cache, names, saved, temporaries>>

-----------------------------------------------------------------------------
(* ALTER TABLE ADD, with HOLD first if it ends in HOLD.  The number is one *)
(* more than `_Columns` has, so the first column added to a temporary      *)
(* table takes the place of those it was created with.  A name the string  *)
(* table has already gets no reference.                                    *)
HeldFirst(t, hold) == IF hold THEN AddRef(Get(t)) ELSE Get(t)
AddedColumns(rows, old, hold) ==
  LET cols == ReadColumns(rows, old)
  IN [i \in DOMAIN cols |-> IF hold /\ i = Len(cols) THEN Counted(cols[i], 1, 1) ELSE cols[i]]

(* Mutant: the array in memory is not read again.                          *)
AddUnread(t, col, hold) ==
  /\ status = "ok" /\ CanGet(t) /\ Get(t).ref < MaxRef
  /\ col.name \notin NamesOf(columns[t]) /\ Len(columns[t]) < MaxCols
  /\ columns' = [columns EXCEPT ![t] = Append(@, col)]
  /\ cache' = With(cache, t, HeldFirst(t, hold))
  /\ known' = known \cup {col.name}
  /\ pinned' = IF col.name \in known THEN pinned ELSE pinned \cup {col.name}
  /\ UNCHANGED <<listed, saved, status, temporaries>>

Add(t, col, hold) ==
  /\ status = "ok" /\ CanGet(t) /\ Get(t).ref < MaxRef
  /\ col.name \notin NamesOf(columns[t]) /\ Len(columns[t]) < MaxCols
  /\ columns' = [columns EXCEPT ![t] = Append(@, col)]
  /\ cache' = With(cache, t, [HeldFirst(t, hold) EXCEPT
                                !.lone = @ /\ Temporary(Get(t).cols) = {},
                                !.cols = AddedColumns(columns'[t], @, hold)])
  /\ known' = known \cup {col.name}
  /\ pinned' = IF col.name \in known THEN pinned ELSE pinned \cup {col.name}
  /\ UNCHANGED <<listed, saved, status, temporaries>>

(* A column that is there is refused; the references taken before stay.    *)
AddRefused(t, col) ==
  /\ col.name \in NamesOf(columns[t])
  /\ Hold(t)

-----------------------------------------------------------------------------
(* DROP TABLE: the rows of `_Columns` from the last to the first, the row  *)
(* of `_Tables`, and the table in memory, which stays without columns if   *)
(* it is not listed.  A table with more columns than `_Columns` has is     *)
(* refused at once.                                                        *)
Drop(t) ==
  /\ status = "ok" /\ CanGet(t) /\ Len(Get(t).cols) = Len(columns[t])
  /\ columns' = [columns EXCEPT ![t] = <<>>]
  /\ listed' = Without(listed, t)
  /\ cache' = IF t \in DOMAIN listed THEN Without(cache, t)
              ELSE With(cache, t, [Get(t) EXCEPT !.cols = <<>>])
  /\ UNCHANGED <<names, saved, status, temporaries>>

(* With fewer, the first row removed leaves a gap.                         *)
DropUndefined(t) ==
  /\ status = "ok" /\ CanGet(t) /\ Len(Get(t).cols) < Len(columns[t])
  /\ status' = "undefined"
  /\ UNCHANGED <<listed, columns, cache, names, saved, temporaries>>

-----------------------------------------------------------------------------
(* Commit, and the database opened again (_libmsi_database_commit_tables,  *)
(* save_table).  Of `_Tables`, rows up to the first temporary one are      *)
(* written, into a buffer for one row if there is one.                     *)
ListedPrefix == {t \in DOMAIN listed : \A u \in DOMAIN listed : listed[u] => t < u}
Overrun == (\E t \in DOMAIN listed : listed[t]) /\ Cardinality(ListedPrefix) > 1

NamesWritten ==
  ListedPrefix \cup UNION {{t} \cup NamesOf(columns[t]) : t \in {u \in Tables : columns[u] # <<>>}}

(* Mutant: the columns of tables that have no rows are not written.        *)
CommitOnlyFilled ==
  /\ status = "ok" /\ ~Overrun
  /\ \A t \in DOMAIN cache : cache[t].cols # <<>>
  /\ listed' = [t \in ListedPrefix |-> FALSE]
  /\ saved' = [t \in Tables |->
                 IF t \in DOMAIN cache /\ cache[t].persistent THEN cache[t].rows ELSE 0]
  /\ columns' = [t \in Tables |-> IF saved'[t] = 0 THEN <<>> ELSE columns[t]]
  /\ cache' = [t \in {u \in Tables : saved'[u] > 0} |->
                 Table(ReadColumns(columns[t], <<>>), 0, TRUE, saved'[t])]
  /\ known' = pinned
  /\ status' = IF NamesWritten \subseteq pinned THEN "ok" ELSE "lost"
  /\ UNCHANGED <<pinned, temporaries>>

Commit ==
  /\ status = "ok" /\ ~Overrun
  /\ \A t \in DOMAIN cache : cache[t].cols # <<>>
  /\ listed' = [t \in ListedPrefix |-> FALSE]
  /\ saved' = [t \in Tables |->
                 IF t \in DOMAIN cache /\ cache[t].persistent THEN cache[t].rows ELSE 0]
  /\ cache' = [t \in {u \in Tables : saved'[u] > 0} |->
                 Table(ReadColumns(columns[t], <<>>), 0, TRUE, saved'[t])]
  /\ known' = pinned
  /\ status' = IF NamesWritten \subseteq pinned THEN "ok" ELSE "lost"
  /\ UNCHANGED <<columns, pinned, temporaries>>

(* A table without columns cannot be saved, and fails the commit.          *)
CommitStops ==
  /\ status = "ok"
  /\ \/ Overrun /\ status' = "undefined"
     \/ /\ ~Overrun /\ \E t \in DOMAIN cache : cache[t].cols = <<>>
        /\ status' = "failed"
  /\ UNCHANGED <<listed, columns, cache, names, saved, temporaries>>

-----------------------------------------------------------------------------
(* A database as a file has it: each table has rows only if it is defined. *)
Init ==
  /\ \E defined \in SUBSET Tables, def \in {d \in Definitions : Len(d) = 1 /\ ~IsTemporary(d)} :
       /\ listed = [t \in defined |-> FALSE]
       /\ columns = [t \in Tables |-> IF t \in defined THEN def ELSE <<>>]
       /\ \E filled \in SUBSET (defined \cap Altered) :
            /\ saved = [t \in Tables |-> IF t \in filled THEN 1 ELSE 0]
            /\ cache = [t \in filled |-> Table(ReadColumns(def, <<>>), 0, TRUE, 1)]
       /\ pinned = IF defined = {} THEN {} ELSE defined \cup NamesOf(def)
  /\ known = pinned
  /\ status = "ok"
  /\ temporaries = FALSE

AlterStatement(t) ==
  \/ SetRows(t, 0) \/ SetRows(t, RowsSeen(t) + 1)
  \/ Hold(t) \/ Free(t) \/ FreeUndefined(t)
  \/ \E col \in Addable : (\E hold \in BOOLEAN : Add(t, col, hold)) \/ AddRefused(t, col)

Next ==
  \/ \E t \in Altered : AlterStatement(t)
  \/ \E t \in Tables :
       \/ Open(t) \/ Drop(t) \/ DropUndefined(t)
       \/ \E def \in {d \in Definitions : t \in Altered \/ Len(d) = 1} :
            CreateTemporary(t, def) \/ Create(t, def) \/ CreateFails(t, def)
  \/ Commit \/ CommitStops

Spec == Init /\ [][Next]_vars

-----------------------------------------------------------------------------

CatalogTypeOK ==
  /\ DOMAIN listed \subseteq Tables /\ \A t \in DOMAIN listed : listed[t] \in BOOLEAN
  /\ \A t \in Tables : Len(columns[t]) <= MaxCols /\ \A i \in DOMAIN columns[t] : columns[t][i] \in Column
  /\ DOMAIN cache \subseteq Tables
  /\ \A t \in DOMAIN cache : /\ cache[t].ref \in MinRef .. MaxRef /\ cache[t].rows \in 0 .. MaxRows
                             /\ Len(cache[t].cols) <= MaxCols
                             /\ cache[t].persistent \in BOOLEAN
  /\ pinned \subseteq known
  /\ saved \in [Tables -> 0 .. MaxRows]
  /\ status \in {"ok", "undefined", "lost", "failed"}

(* The array on a table in memory is what `_Columns` has for it, after any *)
(* sequence of statements and commits (msi_update_table_columns,           *)
(* table.c:953); except for a temporary table, which has its columns from  *)
(* CREATE until one is added or removed.                                   *)
ColumnsAgree ==
  \A t \in DOMAIN cache :
    \/ Plain(cache[t].cols) = columns[t]
    \/ ~cache[t].persistent /\ \A i \in DOMAIN cache[t].cols : cache[t].cols[i].temp

(* Unless a temporary table was created, a table is listed in `_Tables`    *)
(* exactly if it has columns in `_Columns`: each that exists can be opened *)
(* (get_table, table.c:598), and CREATE of one that does not exist succeeds*)
(* (msi_create_table, table.c:738).                                        *)
ListedHaveColumns ==
  ~temporaries => \A t \in Tables : t \in DOMAIN listed <=> columns[t] # <<>>

(* In a table that never had another temporary column than its last, this  *)
(* column is removed by the FREE that comes to as many as there were HOLDs *)
(* since it was added, and by no other (tests/testdatabase.c:3553, 3571).  *)
(* With a second one the counts of the first are forgotten (table.c:708).  *)
FreeMatchesHold ==
  [][\A t \in Tables :
       CanGet(t) /\ Get(t).lone /\ Get(t).persistent /\ Temporary(Get(t).cols) # {}
         /\ (Free(t) \/ FreeUndefined(t))
         => /\ status' = "ok"
            /\ Len(columns'[t]) < Len(columns[t]) <=> Get(t).cols[Len(Get(t).cols)].held = 1]_vars

(* HOLD, FREE and ADD leave the rows that a query finds in a table as they *)
(* are, as long as it has a column, if the file has none for a table that  *)
(* is empty in memory: such a table, freed, is read from the file again    *)
(* with the rows that were deleted (table.c:1871).                         *)
HoldingKeepsRows ==
  [][\A t \in Tables :
       /\ Hold(t) \/ Free(t) \/ \E col \in Addable, hold \in BOOLEAN : Add(t, col, hold)
       /\ (RowsSeen(t) = 0 => saved[t] = 0) /\ ColumnsSeen(t)' # <<>>
       => RowsSeen(t)' = RowsSeen(t)]_vars

(* What is a persistent table to the program is the same table after a     *)
(* commit, with its columns and its rows, if no temporary table was        *)
(* created; except that a table freed with rows in the file, which a query *)
(* would find, is saved without them.                                      *)
CommitKeepsTables ==
  [][Commit /\ ~temporaries =>
       \A t \in Tables : IsTablePersistent(t) =>
         /\ t \in DOMAIN listed' /\ ColumnsSeen(t)' = ColumnsSeen(t)
         /\ t \in DOMAIN cache \/ saved[t] = 0 => RowsSeen(t)' = RowsSeen(t)]_vars
=============================================================================
