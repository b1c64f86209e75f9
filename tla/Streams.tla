------------------------------ MODULE Streams ------------------------------
(***************************************************************************)
(* Statements on `_Streams` (streams.c), and the binary columns of tables, *)
(* whose data are streams (table.c).                                       *)
(*                                                                         *)
(* A view over `_Streams` copies the list when its query is prepared: it   *)
(* has a row for each stream, with the id of its name, which is a string   *)
(* that no commit saves.  UPDATE and DELETE find their rows in this copy   *)
(* and change the list by name, whatever has happened to it meanwhile.     *)
(***************************************************************************)
EXTENDS StreamList, Functions

CONSTANTS Names,              \* the names statements may give
          Keys,               \* rows of the table: its key columns
          Data, SummaryContents,   \* what streams hold; the summary information in a file
          Views, Unknown,
          MaxRows             \* bound: rows of a view

TableName == <<66>>           \* "B"

(* A name with characters of the code is not told from one that is         *)
(* encoded.  The summary information's begins with none of the code's      *)
(* digits and has some.                                                    *)
ASSUME StreamsAssumption ==
  /\ Names \subseteq PlainNames /\ SummaryName \in PlainNames
  /\ Mime(SummaryName[1]) = -1 /\ \E i \in DOMAIN SummaryName : Mime(SummaryName[i]) # -1
  /\ \A key \in Keys : key # <<>> /\ key \in Seq(Seq(Plain))
  /\ Missing \notin Data /\ MaxRows \in Nat

VARIABLES strings,            \* the names in the string table: an id is a place here
          views,              \* for each query on `_Streams`: its rows
          cells,              \* the binary column of the table: is the cell not null?
          saved,              \* the streams and the table in the file
          given               \* history: what was last given for a cell, or Unknown when a
                              \* statement on `_Streams` may have changed its stream

vars == <<streams, readonly, strings, views, cells, saved, given, status>>

(* A binary column.  Its stream has the name of the table and the keys of  *)
(* the row, with dots between (msi_stream_name).                           *)
(* Mutant: the key columns are written one behind the other.               *)
StreamNameJoined(key) == TableName \o <<Dot>> \o FlattenSeq(key)

StreamName(key) ==
  LET name[i \in 0 .. Len(key)] == IF i = 0 THEN TableName ELSE name[i - 1] \o <<Dot>> \o key[i]
  IN name[Len(key)]

(* Of a view, the names its rows had in the list, and whether there was a  *)
(* commit since, are history.                                              *)
NoView == [rows |-> <<>>, count |-> 0, for |-> "none", names |-> <<>>, stale |-> FALSE]

-----------------------------------------------------------------------------
(* A query is prepared (streams_view_create): a row for each stream, and   *)
(* each name becomes a string.                                             *)
Listed == [i \in DOMAIN streams |-> Decode(streams[i].name)]
AddString(known, name) == IF name \in Range(known) THEN known ELSE Append(known, name)
AddStrings(known, list) ==
  LET after[i \in 0 .. Len(list)] == IF i = 0 THEN known ELSE AddString(after[i - 1], list[i])
  IN after[Len(list)]
IdIn(known, name) == CHOOSE id \in DOMAIN known : known[id] = name

Prepare(v, for) ==
  /\ status = "ok" /\ views[v] = NoView /\ Len(streams) <= MaxRows
  /\ strings' = AddStrings(strings, Listed)
  /\ views' = [views EXCEPT ![v] =
       [rows |-> [i \in DOMAIN Listed |-> IdIn(strings', Listed[i])],
        count |-> Len(Listed), for |-> for, stale |-> FALSE,
        names |-> [i \in DOMAIN streams |-> streams[i].name]]]
  /\ UNCHANGED <<streams, readonly, cells, saved, given, status>>

Close(v) ==
  /\ status = "ok" /\ views[v] # NoView
  /\ views' = [views EXCEPT ![v] = NoView]
  /\ UNCHANGED <<streams, readonly, strings, cells, saved, given, status>>

(* The rows that a condition on the name finds, or all; numbers from 1.    *)
Named(v, row) == views[v].rows[row] \in DOMAIN strings
NameOf(v, row) == strings[views[v].rows[row]]
Matching(v, S) == {row \in 1 .. views[v].count : Named(v, row) /\ NameOf(v, row) \in S}
Found(v) == {Matching(v, S) : S \in SUBSET Names} \cup {1 .. views[v].count}

Encoded == {Encode(StreamName(key)) : key \in Keys}
Forget(S) == [key \in DOMAIN given |-> IF Encode(StreamName(key)) \in S THEN Unknown ELSE given[key]]

-----------------------------------------------------------------------------
(* INSERT, prepared and executed: a row behind the others, and the stream. *)
(* Whether there is a row of that name is not asked.                       *)
InsertStrings(name) == AddString(AddStrings(strings, Listed), name)

Insert(name, data) ==
  /\ status = "ok"
  /\ streams' = IF readonly THEN streams ELSE Created(streams, name, data)
  /\ strings' = InsertStrings(name)
  /\ given' = Forget({Encode(name)})
  /\ UNCHANGED <<readonly, views, cells, saved, status>>

(* UPDATE of the data: a stream of the row's name is replaced, or created. *)
Updated(v, rows, data) ==
  LET after[row \in 0 .. views[v].count] ==
        IF row = 0 THEN streams
        ELSE IF row \in rows THEN Created(after[row - 1], NameOf(v, row), data)
        ELSE after[row - 1]
  IN after[views[v].count]

Update(v, rows, data) ==
  /\ status = "ok" /\ views[v].for = "update" /\ rows # {}
  /\ ~readonly /\ \A row \in rows : Named(v, row)
  /\ streams' = Updated(v, rows, data)
  /\ given' = Forget(IF views[v].stale THEN Encoded ELSE {views[v].names[row] : row \in rows})
  /\ UNCHANGED <<readonly, strings, views, cells, saved, status>>

(* A row whose name is no string any more is copied from a null pointer;   *)
(* where nothing may be written, the row is freed and stays in the view.   *)
UpdateUndefined(v, rows) ==
  /\ status = "ok" /\ views[v].for = "update" /\ rows # {}
  /\ readonly \/ \E row \in rows : ~Named(v, row)
  /\ status' = "undefined"
  /\ UNCHANGED <<streams, readonly, strings, views, cells, saved, given>>

(* Nothing was deleted in the view and no commit came between.             *)
Whole(v) == ~views[v].stale /\ views[v].count = Len(views[v].names)

(* DELETE: each row that was found is deleted by the number it had, while  *)
(* the rows behind a deleted one move down.  The number one past the last  *)
(* is accepted, and there the pointer that was moved from is still found.  *)
(* Mutant: the name is not encoded.                                        *)
DeleteRawRow(state, row) ==
  IF row > state.count + 1 \/ state.rows[row] \notin DOMAIN strings THEN state
  ELSE [state EXCEPT !.list = Destroyed(@, strings[state.rows[row]]), !.count = @ - 1,
          !.rows = [i \in DOMAIN @ |-> IF i \in row .. state.count - 1 THEN @[i + 1] ELSE @[i]]]

DeleteRow(state, row) ==
  IF row > state.count + 1 \/ state.rows[row] \notin DOMAIN strings THEN state
  ELSE [state EXCEPT !.list = Destroyed(@, Encode(strings[state.rows[row]])), !.count = @ - 1,
          !.rows = [i \in DOMAIN @ |-> IF i \in row .. state.count - 1 THEN @[i + 1] ELSE @[i]]]

Deleted(v, rows) ==
  LET after[row \in 0 .. views[v].count] ==
        IF row = 0 THEN [list |-> streams, rows |-> views[v].rows, count |-> views[v].count]
        ELSE IF row \in rows THEN DeleteRow(after[row - 1], row) ELSE after[row - 1]
  IN after[views[v].count]

Delete(v, rows) ==
  /\ status = "ok" /\ views[v].for = "delete"
  /\ streams' = Deleted(v, rows).list
  /\ views' = [views EXCEPT ![v].rows = Deleted(v, rows).rows, ![v].count = Deleted(v, rows).count]
  /\ given' = Forget(IF Whole(v) /\ Cardinality(rows) = 1 THEN {views[v].names[row] : row \in rows}
                     ELSE Encoded)
  /\ UNCHANGED <<readonly, strings, cells, saved, status>>

-----------------------------------------------------------------------------
(* INSERT of a row, and UPDATE of the cell, which inserts into `_Streams`. *)
(* Where that fails the row is there, without data.                        *)
SetCell(key, data) ==
  /\ status = "ok"
  /\ IF data = Missing THEN UNCHANGED <<streams, strings>>
     ELSE /\ streams' = IF readonly THEN streams ELSE Created(streams, StreamName(key), data)
          /\ strings' = InsertStrings(StreamName(key))
  /\ LET failed == readonly /\ data # Missing IN
       /\ cells' = IF ~failed THEN With(cells, key, data # Missing)
                   ELSE IF key \in DOMAIN cells THEN cells ELSE With(cells, key, FALSE)
       /\ given' = IF ~failed THEN With(given, key, data)
                   ELSE IF key \in DOMAIN given THEN given ELSE With(given, key, Missing)
  /\ UNCHANGED <<readonly, views, saved, status>>

(* DELETE of a row: its stream stays.                                      *)
DeleteTableRow(key) ==
  /\ status = "ok" /\ key \in DOMAIN cells
  /\ cells' = [k \in DOMAIN cells \ {key} |-> cells[k]]
  /\ given' = [k \in DOMAIN cells \ {key} |-> given[k]]
  /\ UNCHANGED <<streams, readonly, strings, views, saved, status>>

(* A cell is read by name, and whether it is null is not asked             *)
(* (table_view_fetch_stream, msi_view_get_row).                            *)
CellData(key) == DataOf(streams, Encode(StreamName(key)))

-----------------------------------------------------------------------------
(* Mutant: a stream without a name that decodes is left out.               *)
CommitDecoded ==
  /\ status = "ok" /\ ~readonly
  /\ saved' = [streams |-> OnFile(SelectSeq(streams, LAMBDA s : Encode(Decode(s.name)) = s.name)),
               cells |-> cells]
  /\ streams' = Cached(saved'.streams)
  /\ strings' = <<>>
  /\ views' = [v \in Views |-> [views[v] EXCEPT !.stale = views[v] # NoView]]
  /\ UNCHANGED <<readonly, cells, given, status>>

(* The list and the table are written, and read again; the names are not   *)
(* saved, and a view that is open keeps ids that have no string or will    *)
(* be given to another.                                                    *)
Commit ==
  /\ status = "ok" /\ ~readonly
  /\ saved' = [streams |-> OnFile(streams), cells |-> cells]
  /\ streams' = Cached(saved'.streams)
  /\ strings' = <<>>
  /\ views' = [v \in Views |-> [views[v] EXCEPT !.stale = views[v] # NoView]]
  /\ UNCHANGED <<readonly, cells, given, status>>

(* The database is closed as it is, and opened.                            *)
Reopen ==
  /\ status = "ok" /\ \A v \in Views : views[v] = NoView
  /\ streams' = Cached(saved.streams)
  /\ cells' = saved.cells
  /\ strings' = <<>>
  /\ given' = [key \in DOMAIN saved.cells |->
                 IF saved.cells[key] THEN DataOf(streams', Encode(StreamName(key))) ELSE Missing]
  /\ readonly' \in BOOLEAN
  /\ UNCHANGED <<views, saved, status>>

-----------------------------------------------------------------------------
InitStreams ==
  /\ \E present \in SUBSET Names, data \in Data, summary \in SummaryContents :
       /\ IsFiniteSet(present)
       /\ saved = [streams |-> With([name \in {Encode(n) : n \in present} |-> data], SummaryName, summary),
                   cells |-> <<>>]
  /\ streams = Cached(saved.streams)
  /\ readonly \in BOOLEAN
  /\ strings = <<>>
  /\ views = [v \in Views |-> NoView]
  /\ cells = <<>> /\ given = <<>>
  /\ status = "ok"

Statement ==
  \/ \E name \in Names, data \in Data : Insert(name, data)
  \/ \E v \in Views :
       \/ \E for \in {"update", "delete"} : Prepare(v, for)
       \/ Close(v)
       \/ \E rows \in Found(v) :
            (\E data \in Data : Update(v, rows, data)) \/ UpdateUndefined(v, rows) \/ Delete(v, rows)
  \/ \E key \in Keys : (\E data \in Data \cup {Missing} : SetCell(key, data)) \/ DeleteTableRow(key)
-----------------------------------------------------------------------------
(* No two streams in the list have one name: a commit writes each once, and*)
(* a stream that is removed or replaced is not found again behind itself   *)
(* (libmsi-database.c:367, 400).                                           *)
OneStreamPerName == \A i, j \in DOMAIN streams : streams[i].name = streams[j].name => i = j

(* What a cell that is not null reads is what was last given for it, after *)
(* any statements on other rows and on other streams of `_Streams`, a      *)
(* commit, and closing without one; if there are no dots in the keys, with *)
(* which two rows may have one stream (msi_stream_name, table.c:1062).     *)
CellsRead ==
  \A key \in DOMAIN cells :
    cells[key] /\ given[key] # Unknown
      /\ (\A other \in Keys : \A i \in DOMAIN other : Dot \notin Range(other[i]))
    => CellData(key) = given[key]

(* DELETE of one row of `_Streams` removes the stream this row was made of *)
(* when the query was prepared, if it is still there, and no other,        *)
(* whatever statements came between; except for the summary information,   *)
(* whose name is encoded first (streams.c:224).  Of several rows, some that*)
(* were not found go and others stay (delete.c:90); after a commit the ids *)
(* of the view are those of other names.                                   *)
DeleteOfOne ==
  [][\A v \in Views : \A row \in 1 .. views[v].count :
       Delete(v, {row}) /\ Whole(v) /\ views[v].names[row] # SummaryName =>
         OnFile(streams') = [name \in DOMAIN OnFile(streams) \ {views[v].names[row]}
                               |-> DataOf(streams, name)]]_vars

(* To its users the list is a map from names to data: each statement puts  *)
(* data under names or removes names and never both, a commit saves the    *)
(* map and changes nothing, and without one the saved map comes back.      *)
Store == INSTANCE StreamStore WITH store <- OnFile(streams), committed <- saved.streams
ImplementsStore == Store!StoreSpec
=============================================================================
