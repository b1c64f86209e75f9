# TLA+ verification of msitools

msitools reads and writes Windows Installer packages. `libmsi` is a small
relational database in a structured-storage file; the tools, and the compiler
`wixl`, are clients of it. The library is single-threaded: what makes it hard is
not concurrency but state that is shared behind several objects (one string
table and one list of tables under every open view), statements that fail in
the middle, a save that happens in several steps on two files, and numbers kept
in 16 bits. All paths below are under `src/`.

## 1. Inventory

| Component | State | Operations | Correct when |
| --- | --- | --- | --- |
| String table (`libmsi/string.c`) | slots with a string and two reference counts (persistent, nonpersistent, `uint16_t`), `freeslot` hint, `sorted` index, codepage | `msi_addstring`, `_libmsi_add_string`, id from string, string from id | an id means the same string for ever; the index and the slots agree; slot 0 is never handed out |
| String table on disk (`libmsi/string.c`) | streams `_StringPool`, `_StringData` | `string_totalsize`, `msi_save_string_table`, `msi_load_string_table` | what is saved is loaded, under the same ids; the buffers hold exactly what was counted |
| Tables (`libmsi/table.c`) | `db->tables`: for each, columns, rows, which rows are persistent; hash chains of a view | load, save, `fetch_int`, `set_int`, `set_row`, `insert_row`, `delete_row`, `find_insert_index`, `validate_new`, `find_row` | no two rows share their keys, cells resolve, other rows are not disturbed |
| Statements (`insert.c`, `update.c`, `delete.c`) | the view under them | execute, with a record of parameters | all or nothing would be right; the code does less, see below |
| Conditions, joins, order (`where.c`, `select.c`, `distinct.c`) | the found rows, the order of the joined tables, parameter counter | execute, fetch, sort | exactly the combinations of rows that satisfy the condition |
| Catalog (`create.c`, `drop.c`, `alter.c`, `table.c`) | `_Tables`, `_Columns` (tables themselves), `ref_count` of a table and its columns | CREATE, DROP, ALTER ADD, HOLD, FREE | catalog rows, column arrays and rows agree; what is held stays |
| Streams, storages (`streams.c`, `storages.c`, `libmsi-database.c`) | `db->streams`, `db->storages`, arrays copied by each view | insert, delete, fetch, commit | a stream is committed once, under the name of its row |
| Database file (`libmsi/libmsi-database.c`) | infile, outfile, path, outpath, flags, lists | new, commit, close, finalize | whatever a commit, a crash or a close does, the last committed database is in some file |
| Import, export, merge (`libmsi-database.c`) | conflict list | rows of other databases or text archives | the target has both, or a conflict is reported |
| Transforms (`table.c`, `libmsi-database.c`) | tables under change | `msi_table_load_transform`, `msi_table_apply_transform` | tables become what the transform describes |
| Query handle (`libmsi-query.c`) | view, column info, row number | execute, fetch, close | rows in order, each once |
| SQL parser (`tokenize.c`, `sql-parser.y`) | memory of the parse | one statement to one tree of views | the tree that belongs to the statement |
| Records (`libmsi-record.c`) | array of fields, each owning a string or stream | get and set with conversions | reads give what was set |
| Summary information (`libmsi-summary-info.c`) | 20 properties, update count | load, get, set, save, persist | the stream holds what was set |
| Tools (`tools/`), wixl (`tools/wixl/`) | a document tree and the tables of a package | command lines; the compile passes | outputs are the package that the source describes |

**How they interact.** A statement is parsed into a tree of views (`select`
over `where` over `table`, ...); each view calls the one below it by function
pointers and ends at a table, streams or storages view. All table views of a
table share one `LibmsiTable` in `db->tables` and all tables share `db->strings`:
rows hold string ids. A commit writes strings, storages, streams, then every
table in memory, closes both files, renames, and opens the new file; tables
are freed while views may still point at them.

**What is hard.** Two reference counts with different lives on one string
(`table.c:1376`); ids that are valid only as long as counts do not wrap; rows
that move under a loop that holds their numbers (`delete.c:90`); cells set one
by one after the row exists (`table.c:1659`); binary search over rows that are
not in order; unlink and rename with a program that may die between them;
errors ignored late in a commit; parameters consumed by a counter while a
condition is evaluated only in part. `PROJECT.json` lists each under "hazards"
with its line.

## 2. Modules

    Search                 hits and gaps of a binary search
     |- BinarySearch       the loop, proved in Table_proofs
     '- StringTable        slots and index <- StringTable_proofs
         |  implements StringPool (abstract)
         |- StringPoolFile saved and loaded         <- MCStringPoolFile, StringPoolFile_proofs
         '- Table          rows and statements      <- MCTable, Table_proofs
    Loops                  recursive functions, for the proofs
    Database               files and commits        <- Database_proofs
    Where                  what a SELECT finds
     '- QueryHandle        columns, DISTINCT, fetch <- MCWhere, Where_proofs
    Catalog                definitions of tables    <- MCCatalog, Catalog_proofs
    StreamNames
     '- StreamList         db->streams
         |- Streams        _Streams, binary cells; implements StreamStore (abstract)
         |- SummaryInfo    objects over one stream
         '- Storages       _Storages
             Package       these three under one commit  <- MCPackage, Package_proofs
    TableData              tables as sets of rows
     |- Merge              another database into this one
     '- ImportExport       with TextArchive, the text of a table
         Bulk              both over one set of tables   <- MCBulk, Database_proofs

**Search, BinarySearch.** `find_insert_index` and `_libmsi_id_from_string_utf8`
in `string.c`, and `find_insert_index` in `table.c`, are one loop. `BinarySearch`
is that loop over the sequence of comparisons of the key with each element, in
any order whatever (the rows of a table need not be sorted, see `InsertIndex`).
Its answers are those `Search` defines (`Hits`, `Gaps`); every other module uses
these and allows every answer the loop can give. It has no run: all of it is
proved.

**StringTable.** `strings`, `maxcount`, `freeslot`, `sorted` are the fields of
`struct string_table`. `AddString` is `_libmsi_add_string` with reference count 1,
as every caller gives it: it finds the string and `AddReference`s, or takes a
`FreeEntry` (`st_find_free_entry`: from the hint, from 1, or grow by half and
one) and makes a `NewEntry` (`set_st_entry`, `insert_string_sorted`). There is
no way to release a string in this code: counts only go up. Strings are
integers in the order of `strcmp`. `Init` is every table that a file can leave.

**StringPool** is what the rest of the library takes it for: a partial function
from strings to numbers, in which a string is given a number once.

**StringPoolFile.** The two passes of a save and the loop of a load, one step
for each turn. Lengths are numbers of bytes; a codepage may have no form for a
string. The order of the code matters here: sizes are counted first, by other
conditions than the second pass tests.

**Table.** One table over the string table. `InsertRow` makes the row (with the
old contents of its place still in it, as the code leaves it), and then
`SetKnown`, `SetNewString` or `SetRefused` set its cells one by one; UPDATE does
the same for cells of rows found (`job.cells` are those left to set, `Before` their
order); DELETE is `RemoveRow` for each number found in turn (`Deleted`), and
`DeleteMovesUp` says of all the rows found together what that comes to. `Commit` is `save_table` and opening the file again: rows up to the
first temporary one, strings with a persistent count. `CommitOverrun` is the
write past the buffer of `save_table` (`table.c:896`) and ends the behaviour.
What else adds strings, a view over `_Streams` or another table, is `OtherString`.

**Database.** Opening in three modes with or without an output path, reading
and changing tables, the commit step by step, closing, failing at every place
that checks for failure (an open and a start of a transaction that fail after a
commit included, of which the code tells nobody), and a crash at every step.
A `libmsi_database_new` that fails (`NewFails`) finalizes what it has built, and
that removes the file given as persist. Contents are counted
edits. A stream written twice under a name is a set of possible contents.

**Where.** `where.c` on a query that is given: its tables, the tree of its
condition, the parameters and the columns of ORDER BY. `Execute` chooses the
order of the loops (`OrderTables`: `reorder_check` is folded over the condition
twice, first for comparisons with constants, then for joins to the tables these
fix). `Skip`, `Descend`, `AddRow` and `Return` are the turns of the loops of
`check_condition`, whose recursion is `level` and `rows`. `Evaluate` is the
condition with `rec_index` threaded through it; what needs a table that has no
row yet is `continue`, which `Combine` (AND and OR) treats as not known. `Sort`
is the `qsort` by raw cells and then by row numbers. The property it is held to
does not mention loops: `Satisfies` says what the condition means of one row of
each table, and `Selected` that exactly these combinations are found.

**QueryHandle.** `libmsi_query_execute`, `_fetch` and `_close` on a SELECT. `row` is
`query->row`; `translation` is the array of `distinct.c`, where `New` are the rows
that made a node of their own in the tree of `distinct_insert` (`MadeBy`).
`Projected` is the record `msi_view_get_row` makes through `select.c`: a column
without a name, and a cell whose row has gone, are NULL. `ExecuteStep` is a step
of Where, and at its end `Translate`: executed again without a close, DISTINCT
counts on from the rows of the last execution, in an array allocated for one,
which is undefined and ends the behaviour. `DeleteBelow` is a DELETE of another
query in a table of this one.

**Catalog.** A table is defined twice: as rows of `_Columns` (`columns`) and as an
array on the table in memory (`cache`), read from the rows whenever they change
(`ReadColumns`: `get_tablecolumns` and `msi_update_table_columns`, which sets the
counts to 0). `listed` are the rows of `_Tables`, true for a temporary one;
`known` and `pinned` are the names in the string table and those a commit saves.
CREATE, DROP, ALTER ADD, HOLD and FREE are actions, each with its ways to fail;
`Commit` writes the rows of `_Tables` before the first temporary one and what is
persistent in memory, and a name that is not `pinned` is "lost". Of the contents
of a table only the number of rows counts. A gap in the numbers of `_Columns`
is undefined behaviour (`FreeUndefined`, `DropUndefined`).

**StreamNames, StreamList.** The code of 64 digits by which names become names
in the file, by what it does with code points, and the list `db->streams`:
creating, replacing, destroying by encoded name, and what a commit writes
(`OnFile`) and an open reads (`Cached`, without the streams of tables).

**Streams.** A view over `_Streams` is a copy of the list made when its query is
prepared; UPDATE and DELETE take their rows from the copy and change the list by
name. `DeleteRow` has the test `row > num_rows` of `streams.c:212`, which takes the
number one past the last, and the rows moving under the loop of `delete.c`.
Loops over rows (`Updated`, `Deleted`) are recursive functions on the numbers of
rows. `SetCell` sets a binary column: INSERT INTO `_Streams` under the name of the table
and the keys. `CellData` reads by name. It implements **StreamStore**: a map from
names to data with a committed copy.

**SummaryInfo.** `Loaded` runs `read_properties_from_data` over the entries, where the
second value of a property is read over the first before its type is looked at
(`Overwrites`); of more than 20 entries nothing is read (`Load`). An
object is a property set with the number of changes it is allowed, made, set and
persisted in separate calls, several at a time over one stream. `Import` is
`msi_add_suminfo`.

**Storages.** `db->storages`, each with the tree of its entries; DELETE moves
rows as in Streams; a commit copies trees (`Copied`), and a directory without
entries becomes a stream.

**Package** composes these: one list of streams, one `Commit` for all, `Reopen`
for all.

**TableData, Merge.** A database as tables with columns and a set of rows.
`libmsi_database_merge` compares first (`BeginMerge`: `merge_diff_tables` for each
table of the other database, `merge_diff_row` for each row, with the query that
looks for its keys), then merges table by table (`MergeTable`, `RecordConflicts`),
each step with its failures. `Askable` is what the query of `create_diff_row_query`
can be parsed for: a row whose key is NULL or has a quote is taken for one that
needs no merging.

**TextArchive, ImportExport.** The text of a table as characters of which the
tab, the ends of a line, the mark for them and the quote are told apart; `RowsRead`
is `msi_parse_line` over `TextOf`. An import empties the table, then inserts until
a line is refused; a line with fewer fields than columns is read behind its end
(`ImportShort`).

**Bulk** runs calls of both over one database, each to its end.

## 3. Runs

| Run | Question | Bounds, and why they suffice | Result |
| --- | --- | --- | --- |
| StringTable | Are ids stable, do index and slots agree, is it a pool? | 3 strings, 5 slots: the array grows twice, holes before and behind the hint occur in `Init`; counts modulo 3 | holds until a count wraps |
| StringPoolFile | Is a save loaded as it was, into a state the table starts from? | 3 strings of 1, 4 and 2 bytes, words modulo 3, so that one length needs two words and the width of ids changes; two codepages, each without a form for another string | holds for lengths of one word |
| LongStrings | "If a string is over 64k ..." (`string.c:541`): are long strings read back? | as above | violated |
| Table | Keys, cells, neighbours and commits under INSERT, UPDATE, DELETE | three tables: 3 columns with 2 rows; key of two columns, one nullable; one column with temporary rows mixed and 3 rows, the least at which a temporary row comes behind two others | holds |
| CommitLosesRows | Does a commit keep the rows that are not temporary (`tests/testdatabase.c:4595`)? | 2 rows, strings also added as temporary data | violated |
| DeleteSkipsRows | "blank out all the rows that match" (`delete.c:88`) | 2 rows | violated |
| Database | Is the last commit always in a file? Does a commit save all tables, and is it invisible to the program? | 2 tables (one saved, one not yet), 2 edits, opened twice, so that a file left by a crash or a close is opened again; saving, opening and starting a transaction may each fail | holds, with the exceptions below |
| Where | Is what a program fetches each satisfying combination once, in order, again after a second execution? Is what the loops skip early really without a result? | 2 tables of 4 and 3 rows, or a chain of 3 with one possibly empty, with NULLs and numbers of both widths; no condition, all of one or two comparisons over 9 kinds, all of three over 6; columns that leave rows alike, with and without DISTINCT; executed twice, one row deleted; three tables are the least in which a loop is neither first nor last | holds where no string comparison takes a parameter before another comparison does |
| Wildcards | "with the arguments from @rec" (`libmsi-query.c:475`) | one query, `a.x = ? AND b.y = ?` over the two tables | violated |
| Catalog | Do both definitions of a table agree? Does FREE undo HOLD, can what is listed be opened, does a commit keep the tables? | 3 tables of which one is altered, held and filled, and comes between the others in `_Tables`; 3 column names, a list with a temporary column before another, 1 row, 3 columns, 2 references (and one FREE too many): a column added to a table that has a temporary one, and a second HOLD, occur | holds, with the exceptions below |
| Package | Is a stream under the name its row had, a cell what it was given, are storages and properties kept? | 5 steps in each part: prepare, change, delete, commit, delete through the old view; 2 data (symmetric), names a cell also has and the one of the summary information, keys that are one name without the dots; 2 objects (symmetric), 3 properties, contents of the stream of which one is cut short, one has a property twice and one has 21 entries; 3 storages, one tree with an empty directory | holds, with the exceptions below |
| Bulk | Does a merge make the union or say where not? Does what was exported come back? | 12 contents of one table (quotes and NULL in keys, tabs, ends of lines and the mark in values, more or other columns, objects, temporary columns) with 2 of a second table and errors of an earlier merge; 2 merges and 1 export, so that a merge meets the errors of another and an import meets what a merge left | holds, with the exceptions below |

Deadlock is not checked: a program may stop using the library at any time, the
counters above are bounded, and after undefined behaviour the models stop.

**Fairness.** `FairSpec` of Database has weak fairness of the steps of a call: they
are straight code of one thread, and once begun nothing else runs. Nothing is
assumed of the program that uses the library. That a binary search ends is not a
matter of fairness but of a bound on its turns, which is proved.

**What the violated runs show.**
*CommitLosesRows*: `set_row` asks only whether the string is in the table; if
so it takes the id and adds no reference. When temporary data put it there, its
persistent count is 0, the save writes a hole, and the row comes back with an id
that names nothing. `CommitKeepsPersistent` shows that without temporary data
this cannot happen, although the counts do not count the rows.
*DeleteSkipsRows*: of two rows that match, deleting the first moves the second
and the loop goes on with the old numbers.
*LongStrings*: the writer puts the high word before the entry, the reader
takes it from behind.
*Wildcards*: `expr_eval_strcmp` returns before it looks at its right side when
its left table has no row yet (`where.c:519`), so its parameter is not counted.
The loop over `b` runs first, `b.y` is compared with the argument meant for
`a.x`, and rows that match are skipped. A comparison of numbers evaluates both
sides and has no such gap, which is why `LastIsString` suffices for `Where`.

**What the exceptions of the other properties stand for.** Each is something the
code does and the property excludes; without the exception TLC shows it.

* `LastCommitSurvives`: a `libmsi_database_new` that fails removes the file given as
  persist, which may be the one with the last commit, and the caller may
  have none other (`libmsi-database.c:601`, `2622`; `discarded`).
* `CommitSavesAll`: each table leaves memory when it is saved, so after a commit
  that failed later the program has lost its edits (`table.c:2060`); after one
  that could not open the file again it has no tables (`libmsi-database.c:2425`;
  both `failed`).
* `KeysUnique`: UPDATE without WHERE sets keys that nobody compares
  (`table.c:1331`), an INSERT refused halfway leaves a row with keys of another
  (both `unchecked`), and a commit may lose the string of a key (`lost`).
* `IndexOK`, `IdsAreStable` and all that rests on them: a count that goes round
  (`string.c:318`).
* `ListedHaveColumns`, `CommitKeepsTables`: a temporary table is in `_Tables` and
  not in `_Columns`, and a row of `_Tables` behind a temporary one is not saved.
* `FreeMatchesHold`: a second temporary column resets the counts of the first
  (`table.c:708`), so it holds for tables with one (`lone`).
* `HoldingKeepsRows`: a table whose rows were deleted and that is freed leaves the
  memory, and the next query finds the rows the file has (`table.c:1871`).
* `CellsRead`: keys with dots in them give two rows one stream; of a cell that is
  null nothing is said, since whether it is null is not asked before its stream
  is read (`libmsi-query.c:302`).
* `DeleteOfOne`: the summary information is not found by DELETE from `_Streams`
  (its name is encoded first); several rows at once, or a view older than the last
  commit, remove other streams than were found.
* `StoragesKept`: a directory without entries comes back as a stream.
* `OnlyGivenChange`: an object that was made before another wrote the stream
  writes what it read then.
* `CommitOverrun` (Table), `FreeUndefined`, `DropUndefined` (Catalog), `UpdateUndefined`
  (Streams), `InsertUndefined` (Storages), `ImportShort` and the second execution of
  DISTINCT are undefined behaviour, end the behaviour of the model, and no
  property says what comes after.
* `MergeAccounts`: rows with NULL or a quote in a key are left out without a
  conflict; columns the target does not have are dropped; the name of the table
  of errors may be NULL, and is compared with names (`RecordNowhere`).
* `ImportRestores`: into a table with other columns, fields go by their place, and
  what comes back is what fits; a value with a tab, the end of a line or the mark for it does
  not come back; nor does a row of one NULL, which is an empty line; a table with
  a temporary column is exported with a letter that no import knows, and the
  import empties the table and fails; and whatever fails, fails after the rows
  are deleted (`libmsi-database.c:1024`).
* `FetchesSelected`: parameters as in Wildcards; DISTINCT executed twice without a
  close (`distinct.c:155`); rows deleted while the query is being fetched.

These are the hazards whose bad case a property names instead of finding:
`PROJECT.json` lists them without a property, or with a note beside those that
look at the rest of the same code.

**Histories.** `wrapped`, `lost`, `unchecked` (Table), `committed`, `discarded`,
`expected`, `failed`, `opens` (Database), `saved` (StringPoolFile), `held`, `lone`, `temporaries`
(Catalog), `given`, and `names` and `stale` of a view (Streams), `read` and `set` of an
object (SummaryInfo), `wanted` (Storages), `call` and the rows of `archive` (Bulk),
`fetched` and `changed` (QueryHandle) are not in the code. They record
what has happened so that a property can say "unless". A property that says
"unless `wrapped`" is the honest form: after 65536 references to one string the
code does give its slot away (`string.c:318`), and the modules say nothing of
what follows.

## 4. Proofs

For any set of strings, any width of the counts above 1 and any number of slots,
from `StringTableAssumption` alone (`StringTable_proofs`):

* `TableInvariant`: the inductive invariant. `TypeOK`, `SlotsOK` and, until a
  count wraps, `IndexOK`. `IndexOK` is not inductive alone: inserting at a gap
  keeps the order only if the index was in order, which makes the neighbours'
  comparisons hold for all elements behind them; and that a gap exists at all
  where the string is new needs the index to name used slots only. Each disjunct
  of `AddString` is a lemma: adding a reference changes no string; a new entry
  goes to a slot that was not used, so no element of the index is it.
* `IndexAgrees`, `ElementZeroStaysEmpty`: the invariants the run checks.
* `IdsStayStable`, `PersistentStaysSo`: the action properties, from the same
  invariant.
* `TableImplementsPool`: the refinement of StringPool. Adding a reference is a
  stutter, a new entry is one step of the pool; the mapping needs the
  invariant to know that a string has one slot.

For arrays of any length (at the end of `Table_proofs`): `AnswerCorrect`, a hit is an
equal element and a miss is a gap, in arrays of any order; `AscendingAnswer`, in
an ascending array the search finds the key exactly when it is there;
`SearchIsFinite`, each turn leaves less between the bounds, so there are no more
turns than elements. The invariant is that all left of `low` was greater than and
all right of `high` smaller than what the key allows, `BoundsSeen`, for the
elements next to them only: that is all an unsorted array gives.

For any tables, columns, lists of columns and bounds, from `CatalogAssumption`
alone (`Catalog_proofs`): `CatalogInvariant`, and from it the invariants of the run,
`DefinitionsAgree` (`ColumnsAgree`) and `ListedTablesHaveColumns`
(`ListedHaveColumns`). `ColumnsAgree` needs types and that a table without a
reference is read as `_Columns` has it. `ListedHaveColumns` is not inductive: FREE
removes a column, and must not leave a listed table without one. The invariant adds
that every table with columns has one that is not temporary: FREE removes the last
column only, and that one is temporary, so another one stays; and that what is in
memory is persistent as long as no temporary table was created, so that its array is
its rows. There is one lemma for each action.

From the same assumption, in the second half of `Catalog_proofs`:
`CountsInvariant` and from it `CatalogTyped` (`CatalogTypeOK`), `FreeingMatchesHolding`
(`FreeMatchesHold`), `HoldingLosesNoRows` (`HoldingKeepsRows`) and
`CommitKeepsEveryTable` (`CommitKeepsTables`). What FREE will do to a column depends
on a count that HOLD, ADD and a temporary definition changed at other times, and a
table that is read again from `_Columns` has counted nothing: the invariant relates
the counts of each column in memory to the history `held`, says that the names a
commit will write have a persistent count, and bounds what is in memory.

For any strings, lengths below 2^32, codepages, width of the words and number of
slots, from `StringTableAssumption` and `StringPoolFileAssumption`
(`StringPoolFile_proofs`): `FileTyped` (`FileTypeOK`: every length and count written
fits its word, and no save fails over its sizes), `BuffersFit` (`BufferFits`) and
`SavedIsLoaded` (`RoundTrip`). The two passes of a save are sums over the slots, and
no step of the second says what the first has counted. So the invariant
(`FileInvariant`) speaks of the totals after each slot, a sequence `t` that
`TotalsExist` takes out of the recursion of `string_totalsize` (by `LoopExists`):
while slot n is next, the streams are as long as `t[n - 1]`, and the entries and
bytes of the slots before it are where `t` says (`Saving`). As totals only grow
(`TotalsGrow`), there is room for each string that was counted, so what is written
is exactly what was counted (`FetchedIsCounted`). While a table is loaded
(`Loading`), the position in the pool is the total before the slot that is next, and
what is left of the data are the bytes of this slot and of those behind it: so the
bytes taken can be no other string's (`RightString`), the string is new to the index
(`StringPutIn`), and the hint moves behind it. A long string is followed too, up to
the wrong length that is read for it: it ends the loop early, or takes bytes that
are no string, or is put in as it was with a wrong count. Without long strings there
is an entry for each slot (`ShortTotals`), so the loop ends when all are loaded
(`AllLoaded`). The bound on lengths is the one the format has: `msi_save_string_table`
writes two words. The sums of the sizes have no bound in the model, and in the code
they are 32 bits wide, so this speaks of databases whose strings are below 4 GB.

For any tables, handles, paths and number of edits (`Database_proofs`):
`DatabaseInvariant` and from it `DatabaseTyped`, `CommitSurvives`
(`LastCommitSurvives`), `PathIsCommitted` (`FileIsCommitted`), `AllIsSaved`
(`CommitSavesAll`) and the action property `CloseLeavesCommitted` (`CloseOK`). None of
them is inductive: that the last commit is in some file after the unlink needs
that the output was whole before it, which needs that every table in memory was
written to it or not changed since the file was opened. The invariant says of each
step of a commit which file has what (`CommittedInv`), and of each table what the
file, the output and memory have of it (`SavedInv`).

For any schema, strings, numbers and bounds, from `StringTableAssumption` and
`TableAssumption` (`Table_proofs`): `RowsInvariant`, and from it every property of the
run Table: `RowsTyped`, `RowsRead` (`RowsResolve`), `KeysStayUnique` (`KeysUnique`),
`CommitKeepsAll` (`CommitKeepsPersistent`), `DeleteTakesInStep` (`DeleteMovesUp`) and
`InsertAdds` (`InsertAddsItsRow`). The invariant contains that of the string table. In
the middle of an INSERT the row that is being filled has the cells of another, so
the keys are not unique there; `Inserting` says what is true instead: the cells set
so far are those of the values, and no other row has keys that are those of the
values, also where the string of a key is yet to be added - it will get a slot no
row refers to, which needs `Resolved`, that all ids in rows are in use. `AllKept` is
what makes a commit keep the rows although rows do not count in the references of
their strings: if all data is persistent, every slot in use has a persistent count.
What a DELETE does (`DeleteMovesUp`) is the sum of the rounds of a loop in which each
looks at rows the ones before have moved: after the rounds for the numbers up to
n, place j has the row that was `FoundUpTo` places behind it, counted up to n
(`MovedUp`). A round for a number that is not found leaves the count
(`FoundCounts`); one for a number that is found takes the row that stands there
*now*, which moves by one what is at its place and behind it, just as the count
does (`RoundMovesUp`); `DeletedMovesUp` is the last round. The loop is a recursive
function, and `Loops` proves that such functions exist (`LoopExists`) and that what
each round keeps holds after the last (`LoopStays`), by the least number for which it
would not.

For any names, keys, data, contents of the summary information, storages, views,
objects and numbers of steps, from `StreamsAssumption`, `SummaryAssumption`,
`StoragesAssumption` and `PackageAssumption` (`Package_proofs`), every property of the
run Package:

* `StreamsOncePerName` (`OneStreamPerName`) and `ListIsStore` (the refinement of
  StreamStore). The list is a map only as long as each name is in it once, and
  what a statement finds under a name is what was put there only if names are
  coded one to one: `RoundTrip` proves that a plain name is decoded to itself, by
  induction from the end of the name, and `NameFacts` that the summary
  information, the one name that is not encoded, is none of the coded. Each
  operation of the list is then one of maps (`PlacedFacts`, `DestroyedFacts`,
  `WrittenFacts`, `ListingFacts`), and a statement is a loop over these.
* `OneRowIsDeleted` (`DeleteOfOne`) needs `RowsNamed`: as long as nothing was deleted
  in a view and no commit came, each of its rows has the id of a string, and this
  string decodes from the name the row was made of. Other queries may add
  strings meanwhile and never move them.
* `CellsReadBack` (`CellsRead`) needs that two rows have two streams: with no dots in
  keys the last dot of a name is where its last key begins (`LastPart`), so equal
  names have equal keys, from the last to the first (`NamesDiffer`). And it needs
  `WholeInv`, that no row moves in the view of an UPDATE, so that the history knows
  which streams a statement changed.
* `GivenPropertiesChange` (`OnlyGivenChange`): what is persisted is read back as it
  was (`ReadHeld`), and an object differs from the stream it was read from in the
  properties it was given (`ObjectStates`).
* `StoragesAreKept` (`StoragesKept`): a copy of a copy is that copy (`CopiedFacts`),
  since a directory that has entries keeps them.
* `PackageTyped` (`PackageTypeOK`).

The assumptions on names are those the code needs: a name that has characters
of the code (U+3800 to U+483F) would be decoded to another, and one that begins
with the mark of a table is taken for a table when the file is opened.

For any tables, types of columns, conditions, parameters, columns asked for and
bounds, from `WhereAssumption` alone (`Where_proofs`): `HandleInvariant`, and from it
every property of the run Where: `QueryTyped` (`QueryTypeOK`), `LoopsFindAll`
(`FoundSoFar`) and `FetchGivesSelected` (`FetchesSelected`). The argument goes up with
the code:

* A condition is a tree in a sequence, whose operands come behind their node.
  `TreeInduction` and `TreeExists` go from the last node to the first (least numbers
  again), so `Evaluate`, `Reorder` and `Satisfies` are functions of which the proofs
  may use their equations.
* `EvaluateSound`: over some of the rows, what `Evaluate` gives as false, or as
  known, is what the condition means of any rows that agree with these. It is what
  makes the early evaluation right, by `NodeSound` at each node and `CombineSound` at
  AND and OR. It needs that `rec_index` at a comparison is the number of its
  parameter: `LastIsString` says that no string comparison, which may return before
  it counts, has a comparison with a parameter behind it.
* `OrderTyped`: whatever `reorder_check` prefers, the order has each table once. An
  order that repeated or lost one would find rows twice or none.
* The loops go through the combinations in the order of their rows, table by table
  (`Below`): `PassedAdvance`, `PassedDescend` and `PassedReturn` say which ones each turn
  passes, and `FoundOK` relates them to what is found. `Skip` passes all that agree
  with the rows so far, which is none of the result by `EvaluateSound`; `AddRow`
  passes one.
* `SortedFacts`: rows that differ are ordered by `compare_entry` one before the other
  (`BeforeFacts`), so each has a rank of its own (`RankFacts`), and the sorted list has
  the same rows, each once.
* `LockStep`: the loop of DISTINCT over numbers and the loop of the property over
  records keep and drop at the same turns, because the tree of `distinct_insert` has
  the first row that begins like another (`MadeFirst`). Each record fetched is then
  the next one (`OneMore`).

The invariant says of a query that is to be executed again that nothing is fetched
yet, while the array of DISTINCT and the rows found are still the old ones: until
the execution ends they say nothing about each other.

For any databases that may be merged, names of tables of errors, numbers and bounds,
from `MergeAssumption` and `ImportAssumption` (the second half of `Database_proofs`):

* `BulkTypes` (`BulkTypeOK`), from `BulkInv`: the tables, the ones still to be merged and
  the one an archive was made of are tables, `call` names the databases of the call. It
  needs what a text is read as: `FieldsLoop` and `LinesLoop` give the rounds of
  `msi_parse_line` and of the loop over lines, `InsertLoop` those of the inserts, and each
  round leaves texts and tables what they are.
* `BulkMergeAccounts` (`MergeAccounts`). In the middle of a merge the target is neither
  what it was nor what it will be. `Accounts` says for each table what is true then: one
  that still waits is as it was before the call, unless it is the one errors are
  written to; one that is done is the union, or has an entry with the number of its
  conflicts; a table nobody named has not moved. The rows to be inserted were chosen
  before any was (`BeginAccounts`), so `RowsAccount` has to show that none is refused
  over a row that was inserted since: two rows of the source have different keys, and
  an old row with these keys is equal or counted. `ErrorsAccount` is the entry for the
  errors, `AccountsClosed` the end of the call.

* `BulkImportRestores` (`ImportRestores`). `SuffixesOf` cuts the text into what is left
  before each line and, in a line, before each value. `TakesField` and `TakesLastField`
  say of a round of `msi_parse_line` that it takes the next value and what separates it
  from the rest, which needs that the value has none of the separators; the rest must
  not begin with the end of a line (`NoEnd`), or it would be taken too, so a row that
  is an empty line has to be left out (`LineBegins`). That a line is read as so many
  fields as it has is counted in its tabs (`LineTabs`). `LinesReadBack` puts the lines
  together; the loop has as many rounds as characters and stops at the end of the
  text, so each line must have at least one (`LinesBegin`). `AllInserted` then inserts
  what was read: no row is refused, because those before it are other rows of one
  table. It needs `Exported` from `BulkInv`: until it is imported, the archive is a text
  of the rows in its history.

Model-checked only: `CommitEnds`, since fairness and ENABLED are outside the
prover. What `CommitEnds` needs beside them is proved (`CommitIsFinite`, for finitely
many tables): each step of a commit leaves less of it, and the last one always has a
database to write. `CommitKeepsRows`, `DeleteBlanksAll`, `LongStringsKept` and
`ArgumentsUsed` are violated.

## 5. Not modelled, and the plan

* **Tokenizer, grammar**: no state over time; which views a statement becomes is
  part of the modules that model it.
* **Transforms**: `msi_table_apply_transform` names a table by what follows the
  mark of its stream, but the decoded mark has three bytes and it skips one
  (`table.c:2596`). Every table of a transform is then refused as unknown before a
  row is read, so a transform fails and changes nothing unless it has no tables;
  `msi_table_load_transform` is not reached. The only test is compiled for
  Windows.
* **Records** (`libmsi-record.c`): values are passed as they are. Their own
  hazards, streams and strings they own and conversions, are memory.
* **Codepage and layout**: conversion is "there is a form or there is none"; the
  structured storage itself is libgsf's, taken as a map that a close writes.
* **Fields of another kind**: an import puts its fields into the columns of the
  target by place. Columns of other names, and more or fewer of them, are
  modelled; columns of another kind than the archive has (`SameKinds`) are not,
  nor is a table of errors whose two columns are not a text and a number
  (`MergeAssumption`).
* **A query open over a commit**: its table was freed (`table.c:2061`); views over
  `_Streams` have it (`stale`), QueryHandle has no commit.
* **Input-stream adapter, tools**: they forward or call in sequence and keep
  nothing.
* **wixl**: a compiler; of it the order of sequences has an algorithm worth a
  reference definition.

Next: the order of wixl's sequences, records, and a close that fails at the end of a commit (`libmsi-database.c:595`).
