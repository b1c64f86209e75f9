------------------------------- MODULE Where -------------------------------
(***************************************************************************)
(* The rows a SELECT finds (libmsi/where.c): where_view_execute chooses an *)
(* order of the tables, check_condition runs one loop inside the other in  *)
(* that order, and each time the innermost loop so far has a row, the      *)
(* condition is evaluated over the rows there are: a comparison with a     *)
(* table that has none yet is "continue", which counts as true.            *)
(*                                                                         *)
(* A condition is a sequence of nodes, an AND or OR before its operands,   *)
(* the left before the right, so that the comparisons come in the order of *)
(* the text.  Tables are numbered as the code does, from the last of FROM  *)
(* to the first.                                                           *)
(***************************************************************************)
EXTENDS Integers, Sequences, FiniteSets, SequencesExt

CONSTANTS Query,              \* the queries to look at, see IsQuery
          NullInt, NullShort  \* what NULL reads as in a number: LIBMSI_NULL_INT, -0x8000

VARIABLES query,              \* which nothing here changes
          phase,
          ordered,            \* the tables in the order of the loops
          level,              \* how many loops run, the last the innermost
          rows,               \* the row each table is at, Invalid for none
          found               \* wv->reorder

vars == <<query, phase, ordered, level, rows, found>>

Invalid == 0
Result == {"success", "continue"}

ColumnType == {"string", "number", "number32"}
Comparisons == {"=", "<>", "<", ">", "<=", ">="}
Column == [table : Nat, column : Nat]
ColumnsOf(q) == {at \in Column : at.table \in DOMAIN q.types /\ at.column \in DOMAIN q.types[at.table]}
Operand(q) == [kind : {"column"}, at : ColumnsOf(q)] \cup [kind : {"value"}, is : Int] \cup {[kind |-> "wildcard"]}

(* The nodes of an operand follow each other; last says where they end.    *)
IsTree(cond, last) ==
  /\ cond # <<>> => last[1] = Len(cond)
  /\ \A n \in DOMAIN cond :
       IF cond[n].op \notin {"and", "or"} THEN last[n] = n
       ELSE /\ {n + 1, last[n + 1] + 1} \subseteq DOMAIN cond
            /\ cond[n].left = n + 1 /\ cond[n].right = last[n + 1] + 1
            /\ last[n] = last[cond[n].right]

(* What verify_condition accepts, typed; the parameters an execute gives.  *)
IsQuery(q) ==
  /\ q = [types |-> q.types, tables |-> q.tables, cond |-> q.cond, params |-> q.params,
          order |-> q.order, columns |-> q.columns, distinct |-> q.distinct]
  /\ q.types \in Seq(Seq(ColumnType)) /\ q.types # <<>>
  /\ q.tables \in Seq(Range(q.tables)) /\ DOMAIN q.tables = DOMAIN q.types
  /\ \A t \in DOMAIN q.tables : q.tables[t] \in Seq([DOMAIN q.types[t] -> Int])
  /\ q.cond \in Seq(Range(q.cond))
  /\ \A n \in DOMAIN q.cond : LET node == q.cond[n] IN
       \/ node.op \in {"and", "or"}
       \/ node.op \in {"null", "notnull"} /\ node.left \in ColumnsOf(q)
       \/ /\ node.op \in Comparisons
          /\ node.left \in ColumnsOf(q) /\ node.right \in Operand(q) /\ node.string \in BOOLEAN
          /\ node.string => node.op \in {"=", "<>"}
  /\ \E last \in [DOMAIN q.cond -> DOMAIN q.cond] : IsTree(q.cond, last)
  /\ q.params \in Seq(Int) /\ q.order \in Seq(ColumnsOf(q))
  /\ q.columns \in Seq(Column) /\ q.distinct \in BOOLEAN

ASSUME WhereAssumption ==
  /\ \A q \in Query : IsQuery(q)
  /\ NullInt \in Int /\ NullShort \in Int /\ NullInt < NullShort

Table == DOMAIN query.tables
Node == DOMAIN query.cond
Nobody == [t \in Table |-> Invalid]

(* The record's field: NULL if it has none of that number.                 *)
Param(k) == IF k \in DOMAIN query.params THEN query.params[k] ELSE 0

-----------------------------------------------------------------------------
(* expr_fetch_value, and what a number reads as; NULL and the empty string *)
(* are 0 in a string.                                                      *)
Known(at, rs) == rs[at.table] # Invalid
Raw(at, rs) == query.tables[at.table][rs[at.table]][at.column]
TypeOf(at) == query.types[at.table][at.column]
AsNumber(at, raw) == IF raw # 0 THEN raw
                     ELSE IF TypeOf(at) = "number32" THEN NullInt ELSE NullShort
ParamNumber(v) == IF v = 0 THEN NullInt ELSE v

Holds(op, x, y) ==
  CASE op = "="  -> x = y  [] op = "<>" -> x # y
    [] op = "<"  -> x < y  [] op = ">"  -> x > y
    [] op = "<=" -> x <= y [] op = ">=" -> x >= y

(* How an evaluation ends: what it gives, and rec_index after it.          *)
Outcome(r, val, k) == [r |-> r, val |-> val, k |-> k]
Unknown(k) == Outcome("continue", TRUE, k)

(* expr_eval_strcmp: it returns before its right side is looked at when    *)
(* the left is not known.                                                  *)
EvalString(node, rs, k) ==
  IF ~Known(node.left, rs) THEN Unknown(k)
  ELSE LET x == Raw(node.left, rs) IN
       CASE node.right.kind = "wildcard" -> Outcome("success", Holds(node.op, x, Param(k + 1)), k + 1)
         [] node.right.kind = "value" -> Outcome("success", Holds(node.op, x, node.right.is), k)
         [] node.right.kind = "column" ->
              IF Known(node.right.at, rs) THEN Outcome("success", Holds(node.op, x, Raw(node.right.at, rs)), k)
              ELSE Unknown(k)

(* expr_eval_binary on a column and what it is compared with: both sides   *)
(* are evaluated.                                                          *)
EvalNumber(node, rs, k) ==
  LET used == IF node.right.kind = "wildcard" THEN k + 1 ELSE k
      x == AsNumber(node.left, Raw(node.left, rs)) IN
  IF ~Known(node.left, rs) \/ (node.right.kind = "column" /\ ~Known(node.right.at, rs)) THEN Unknown(used)
  ELSE LET y == CASE node.right.kind = "column" -> AsNumber(node.right.at, Raw(node.right.at, rs))
                  [] node.right.kind = "value" -> node.right.is
                  [] node.right.kind = "wildcard" -> ParamNumber(Param(used)) IN
       Outcome("success", Holds(node.op, x, y), used)

(* expr_eval_unary.                                                        *)
EvalNull(node, rs, k) ==
  IF Known(node.left, rs) THEN Outcome("success", (Raw(node.left, rs) = 0) = (node.op = "null"), k)
  ELSE Unknown(k)

(* Mutant: what is not known yet counts as false.                          *)
CombinePrunes(op, L, R) ==
  Outcome(IF L.r = "success" /\ R.r = "success" THEN "success" ELSE "continue",
          LET l == L.r = "success" /\ L.val
              r == R.r = "success" /\ R.val IN IF op = "and" THEN l /\ r ELSE l \/ r,
          R.k)

(* expr_eval_binary, AND and OR: a side that is not known does not matter  *)
(* if the other decides.                                                   *)
Combine(op, L, R) ==
  LET one == IF L.r = "continue" THEN R ELSE L IN
  CASE L.r = "success" /\ R.r = "success" ->
         Outcome("success", IF op = "and" THEN L.val /\ R.val ELSE L.val \/ R.val, R.k)
    [] L.r = "continue" /\ R.r = "continue" -> Unknown(R.k)
    [] OTHER -> IF one.val = (op = "or") THEN Outcome("success", one.val, R.k) ELSE Unknown(R.k)

(* where_view_evaluate, for the whole condition from rec_index 0.          *)
Evaluate(rs) ==
  LET eval[n \in Node] ==
        LET node == query.cond[n] IN
        [k \in Nat |->
           CASE node.op \in {"and", "or"} ->
                  LET L == eval[node.left][k] IN Combine(node.op, L, eval[node.right][L.k])
             [] node.op \in {"null", "notnull"} -> EvalNull(node, rs, k)
             [] OTHER -> IF node.string THEN EvalString(node, rs, k) ELSE EvalNumber(node, rs, k)] IN
  IF Node = {} THEN Outcome("success", TRUE, 0) ELSE eval[1][0]

-----------------------------------------------------------------------------
(* add_to_array.                                                           *)
Added(array, t) == IF t \in Range(array) THEN array ELSE Append(array, t)

(* reorder_check: what it answers, and the two arguments it changes.       *)
Const == 1
JoinToConst == 65536
Visited(s, at) == IF at.table \in Range(s.array) THEN [s EXCEPT !.res = @ + JoinToConst]
                  ELSE [s EXCEPT !.res = @ + Const, !.last = at.table]
Noted(s, joins) == IF s.res = Const \/ (joins /\ s.res = JoinToConst + Const)
                   THEN [s EXCEPT !.array = Added(@, s.last)] ELSE s
State == [array : Seq(Table \cup {Invalid}), last : Table \cup {Invalid}, res : Nat]

Reorder(array, joins) ==
  LET check[n \in Node] ==
        LET node == query.cond[n] IN
        [s \in State |->
           CASE node.op \in {"and", "or"} ->
                  LET R == check[node.right][[s EXCEPT !.res = 0]]
                      L == check[node.left][[R EXCEPT !.res = 0]] IN
                  Noted([L EXCEPT !.res = @ + R.res], joins)
             [] node.op \in {"null", "notnull"} -> Noted(Visited(s, node.left), joins)
             [] OTHER ->
                  LET R == IF node.right.kind = "column" THEN Visited(s, node.right.at) ELSE s IN
                  Noted(Visited(R, node.left), joins)] IN
  IF Node = {} THEN array ELSE check[1][[array |-> array, last |-> Invalid, res |-> 0]].array

(* ordertables: tables compared with constants first, then those joined to *)
(* them, then the others as FROM names them.                               *)
OrderTables ==
  LET all[i \in 0 .. Len(query.tables)] ==
        IF i = 0 THEN Reorder(Reorder(<<>>, FALSE), TRUE) ELSE Added(all[i - 1], Len(query.tables) + 1 - i) IN
  all[Len(query.tables)]

-----------------------------------------------------------------------------
(* where_view_execute up to the loops: a table without rows ends it.       *)
Execute ==
  /\ phase = "start"
  /\ found' = <<>>
  /\ \/ /\ \E t \in Table : query.tables[t] = <<>>
        /\ phase' = "done"
        /\ UNCHANGED <<ordered, level, rows>>
     \/ /\ \A t \in Table : query.tables[t] # <<>>
        /\ phase' = "loops"
        /\ ordered' = OrderTables
        /\ level' = 1
        /\ rows' = [Nobody EXCEPT ![OrderTables[1]] = 1]
  /\ UNCHANGED query

Current == ordered[level]
InRange == level > 0 /\ rows[Current] <= Len(query.tables[Current])

Advance == rows' = [rows EXCEPT ![Current] = @ + 1]

(* The condition is false whatever the tables that follow are at.          *)
Skip ==
  /\ phase = "loops" /\ InRange
  /\ ~Evaluate(rows).val
  /\ Advance
  /\ UNCHANGED <<query, phase, ordered, level, found>>

(* It may be true: the loop over the next table begins.                    *)
Descend ==
  /\ phase = "loops" /\ InRange
  /\ Evaluate(rows).val
  /\ level < Len(ordered)
  /\ level' = level + 1
  /\ rows' = [rows EXCEPT ![ordered[level + 1]] = 1]
  /\ UNCHANGED <<query, phase, ordered, found>>

(* It is true of a row of every table.                                     *)
AddRow ==
  /\ phase = "loops" /\ InRange
  /\ Evaluate(rows).val
  /\ level = Len(ordered)
  /\ found' = Append(found, rows)
  /\ Advance
  /\ UNCHANGED <<query, phase, ordered, level>>

(* Mutant: the table keeps the row it was at.                              *)
ReturnKeeps ==
  /\ phase = "loops" /\ level > 0 /\ ~InRange
  /\ level' = level - 1
  /\ rows' = [t \in Table |-> IF level > 1 /\ t = ordered[level - 1] THEN rows[t] + 1
                              ELSE IF t = Current THEN rows[t] - 1 ELSE rows[t]]
  /\ UNCHANGED <<query, phase, ordered, found>>

(* The loop over a table ends, and the one around it goes on.              *)
Return ==
  /\ phase = "loops" /\ level > 0 /\ ~InRange
  /\ level' = level - 1
  /\ rows' = [t \in Table |-> IF level > 1 /\ t = ordered[level - 1] THEN rows[t] + 1
                              ELSE IF t = Current THEN Invalid ELSE rows[t]]
  /\ UNCHANGED <<query, phase, ordered, found>>

(* Mutant: only the first column of ORDER BY counts.                       *)
SortKeyFirst(rs) == [i \in 1 .. Min({1, Len(query.order)}) |-> Raw(query.order[i], rs)] \o rs

(* compare_entry: by the raw values of the columns of ORDER BY, and then   *)
(* by the rows of the tables, in the order of their numbers.               *)
SortKey(rs) == [i \in 1 .. Len(query.order) |-> Raw(query.order[i], rs)] \o rs
Before(x, y) == \E i \in DOMAIN SortKey(x) :
                  /\ SortKey(x)[i] < SortKey(y)[i]
                  /\ \A j \in 1 .. i - 1 : SortKey(x)[j] = SortKey(y)[j]

(* What qsort makes of rows that differ: each behind those before it.      *)
Sorted(list) ==
  [i \in DOMAIN list |->
     CHOOSE rs \in Range(list) : Cardinality({other \in Range(list) : Before(other, rs)}) = i - 1]

Sort ==
  /\ phase = "loops" /\ level = 0
  /\ phase' = "done"
  /\ found' = Sorted(found)
  /\ UNCHANGED <<query, ordered, level, rows>>

-----------------------------------------------------------------------------
WhereInit == /\ query \in Query
             /\ phase = "start"
             /\ ordered = <<>> /\ level = 0 /\ rows = Nobody /\ found = <<>>

WhereNext == Execute \/ Skip \/ Descend \/ AddRow \/ Return \/ Sort

WhereSpec == WhereInit /\ [][WhereNext]_vars

-----------------------------------------------------------------------------
(* What a condition means: the k-th wildcard of the text is parameter k.   *)
Wildcards(n) == {m \in 1 .. n : query.cond[m].op \in Comparisons /\ query.cond[m].right.kind = "wildcard"}
Compared(node, rs, v) ==
  LET x == Raw(node.left, rs) IN
  IF node.string
  THEN Holds(node.op, x, CASE node.right.kind = "column" -> Raw(node.right.at, rs)
                           [] node.right.kind = "value" -> node.right.is
                           [] node.right.kind = "wildcard" -> v)
  ELSE Holds(node.op, AsNumber(node.left, x),
             CASE node.right.kind = "column" -> AsNumber(node.right.at, Raw(node.right.at, rs))
               [] node.right.kind = "value" -> node.right.is
               [] node.right.kind = "wildcard" -> ParamNumber(v))
Satisfies(rs) ==
  LET means[n \in Node] ==
        LET node == query.cond[n] IN
        CASE node.op = "and" -> means[node.left] /\ means[node.right]
          [] node.op = "or" -> means[node.left] \/ means[node.right]
          [] node.op = "null" -> Raw(node.left, rs) = 0
          [] node.op = "notnull" -> Raw(node.left, rs) # 0
          [] node.op \in Comparisons -> Compared(node, rs, Param(Cardinality(Wildcards(n)))) IN
  Node # {} => means[1]

(* One row of each table.                                                  *)
Combination == {rs \in [Table -> UNION {DOMAIN query.tables[t] : t \in Table}] :
                  \A t \in Table : rs[t] \in DOMAIN query.tables[t]}

(* No string comparison takes a parameter before another comparison does.  *)
LastIsString ==
  \A m, n \in Wildcards(Len(query.cond)) : m < n => ~query.cond[m].string

WhereTypeOK ==
  /\ phase \in {"start", "loops", "done"}
  /\ IsInjective(ordered) /\ Range(ordered) \subseteq Table
  /\ level \in 0 .. Len(ordered)
  /\ phase = "loops" => Range(ordered) = Table
  /\ \A t \in Table : rows[t] \in 0 .. Len(query.tables[t]) + 1
  /\ \A t \in Table : rows[t] # Invalid <=> \E i \in 1 .. level : ordered[i] = t
  /\ Range(found) \subseteq Combination

(* The loops have been through a combination when its rows, in the order   *)
(* of the loops, come before the ones they are at.                         *)
Passed(rs) ==
  \/ level = 0
  \/ \E i \in 1 .. level : /\ rs[ordered[i]] < rows[ordered[i]]
                           /\ \A j \in 1 .. i - 1 : rs[ordered[j]] = rows[ordered[j]]

(* While the loops run: of the combinations they have been through, those  *)
(* that satisfy the condition are found, each once, and no other.  So what *)
(* was skipped before all tables had a row had nothing in it.              *)
FoundSoFar ==
  phase = "loops" /\ LastIsString =>
    /\ IsInjective(found)
    /\ Range(found) = {rs \in Combination : Passed(rs) /\ Satisfies(rs)}

(* In the order of ORDER BY, and where that says nothing in the order of   *)
(* the rows of the last table of FROM, of the one before it, and so on.    *)
Lexicographic(a, b) == \E i \in DOMAIN a : a[i] < b[i] /\ \A j \in 1 .. i - 1 : a[j] = b[j]
Ordered(x, y) ==
  LET cells(rs) == [i \in DOMAIN query.order |-> Raw(query.order[i], rs)] IN
  \/ Lexicographic(cells(x), cells(y))
  \/ cells(x) = cells(y) /\ Lexicographic(x, y)

(* A SELECT gives every combination of rows that satisfies its condition,  *)
(* once, in the order asked for.                                           *)
Selected ==
  /\ Range(found) = {rs \in Combination : Satisfies(rs)}
  /\ \A i, j \in 1 .. Len(found) : i < j => Ordered(found[i], found[j])

(* "Execute the @query with the arguments from @rec" (libmsi-query.c:475): *)
(* with any arguments.                                                     *)
ArgumentsUsed == phase = "done" => Selected
=============================================================================
