---------------------------- MODULE QueryHandle ----------------------------
(***************************************************************************)
(* A SELECT in the hands of a program (libmsi-query.c): it is executed,    *)
(* its rows are fetched one by one, it is closed and executed again, and   *)
(* rows of its tables may go in between.  Above what Where finds are the   *)
(* columns that are asked for (select.c) and DISTINCT (distinct.c).        *)
(***************************************************************************)
EXTENDS Where

CONSTANTS Nothing,            \* no translation: not executed, or closed
          MaxExecutions, MaxDeletions  \* bounds

VARIABLES row,                \* query->row
          translation,        \* of DISTINCT: the rows that are new
          status,             \* "ok", or "undefined" behaviour, which ends the model
          executions, deletions,
          fetched,            \* history: the records since the last execute
          changed             \* history: rows have gone since

handle == <<row, translation, status, executions, deletions, fetched, changed>>

(* select_view_fetch_int over where_view_fetch_int: a row that has gone    *)
(* cannot be read, and msi_view_get_row leaves the field NULL; a column    *)
(* without a name is 0.                                                    *)
Unnamed == [table |-> 0, column |-> 0]
Cell(rs, at) ==
  IF at = Unnamed \/ rs[at.table] > Len(query.tables[at.table]) THEN 0 ELSE Raw(at, rs)
Projected(rs) == [j \in DOMAIN query.columns |-> Cell(rs, query.columns[j])]

(* The tree of distinct_insert has a node for each beginning of a record,  *)
(* and in it the number of the first row that begins so.                   *)
MadeBy(list, i, n) ==
  LET begins(j) == SubSeq(Projected(list[j]), 1, n) IN
  CHOOSE j \in 1 .. i : begins(j) = begins(i) /\ \A k \in 1 .. j - 1 : begins(k) # begins(i)

(* Mutant: rows are told apart by their first column.                      *)
NewByFirst(list) == SelectSeq([i \in DOMAIN list |-> i], LAMBDA i : MadeBy(list, i, 1) = i)

(* A row is kept when it made the node of its whole record.                *)
New(list) ==
  LET kept[i \in 0 .. Len(list)] ==
        IF i = 0 THEN <<>>
        ELSE IF MadeBy(list, i, Len(query.columns)) = i THEN Append(kept[i - 1], i) ELSE kept[i - 1] IN
  kept[Len(list)]

(* distinct_view_execute, when the rows below are found: the count of rows *)
(* is that of the last execution, unless the query was closed, and the new *)
(* array is not filled up to there.                                        *)
Translate ==
  IF ~query.distinct THEN UNCHANGED <<translation, status>>
  ELSE IF translation \in {Nothing, <<>>}
       THEN translation' = New(found') /\ UNCHANGED status
       ELSE translation' = Nothing /\ status' = "undefined"

(* One step of an execution.                                               *)
ExecuteStep ==
  /\ status = "ok"
  /\ WhereNext
  /\ IF phase' = "done" THEN Translate ELSE UNCHANGED <<translation, status>>
  /\ UNCHANGED <<row, executions, deletions, fetched, changed>>

(* _libmsi_query_execute.                                                  *)
ExecuteAgain ==
  /\ status = "ok" /\ phase = "done" /\ executions < MaxExecutions
  /\ executions' = executions + 1
  /\ row' = 0
  /\ fetched' = <<>> /\ changed' = FALSE
  /\ phase' = "start"
  /\ UNCHANGED <<query, ordered, level, rows, found, translation, status, deletions>>

(* get_dimensions of the uppermost view; only DISTINCT knows whether it    *)
(* is closed.                                                              *)
CanFetch == status = "ok" /\ phase = "done" /\ (query.distinct => translation # Nothing)
Fetchable == IF query.distinct THEN translation ELSE [i \in DOMAIN found |-> i]

(* _libmsi_query_fetch.                                                    *)
Fetch ==
  /\ CanFetch /\ row < Len(Fetchable)
  /\ fetched' = Append(fetched, Projected(found[Fetchable[row + 1]]))
  /\ row' = row + 1
  /\ UNCHANGED <<vars, translation, status, executions, deletions, changed>>

(* libmsi_query_close: below DISTINCT nothing is released, and rows can be *)
(* fetched as before.                                                      *)
Close ==
  /\ CanFetch /\ query.distinct
  /\ translation' = Nothing
  /\ UNCHANGED <<vars, row, status, executions, deletions, fetched, changed>>

(* DELETE of another query, in a table of this one: the rows behind move   *)
(* down.                                                                   *)
DeleteBelow ==
  /\ status = "ok" /\ phase = "done" /\ deletions < MaxDeletions
  /\ deletions' = deletions + 1
  /\ changed' = TRUE
  /\ \E t \in Table : \E r \in DOMAIN query.tables[t] :
       query' = [query EXCEPT !.tables[t] = RemoveAt(@, r)]
  /\ UNCHANGED <<phase, ordered, level, rows, found, row, translation, status, executions, fetched>>

QueryInit ==
  /\ WhereInit
  /\ row = 0 /\ translation = Nothing /\ status = "ok"
  /\ executions = 1 /\ deletions = 0 /\ fetched = <<>> /\ changed = FALSE

QueryNext == ExecuteStep \/ ExecuteAgain \/ Fetch \/ Close \/ DeleteBelow

QuerySpec == QueryInit /\ [][QueryNext]_<<vars, handle>>
-----------------------------------------------------------------------------
QueryTypeOK ==
  /\ ~changed /\ phase # "start" => WhereTypeOK
  /\ Len(fetched) = row /\ row <= Len(found)
  /\ query.distinct /\ translation # Nothing => IsInjective(translation)
  /\ status \in {"ok", "undefined"}

(* What is fetched is, one after the other, the rows that satisfy the      *)
(* condition, in the order asked for, under the columns asked for, and     *)
(* with DISTINCT only those that are not like one before: also when the    *)
(* query is executed again, closed or not, and rows went before that.      *)
(* While rows go under an executed query it keeps its numbers, and nothing *)
(* is said of what is under them.                                          *)
NotLikeOneBefore(records) ==
  LET kept[i \in 0 .. Len(records)] ==
        IF i = 0 THEN <<>>
        ELSE IF query.distinct /\ records[i] \in Range(kept[i - 1]) THEN kept[i - 1]
        ELSE Append(kept[i - 1], records[i]) IN
  kept[Len(records)]
FetchesSelected ==
  phase = "done" /\ status = "ok" /\ ~changed /\ LastIsString =>
    /\ Selected
    /\ fetched = SubSeq(NotLikeOneBefore([i \in DOMAIN found |-> Projected(found[i])]), 1, row)
=============================================================================
