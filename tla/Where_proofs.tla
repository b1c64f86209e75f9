---------------------------- MODULE Where_proofs ----------------------------
(***************************************************************************)
(* What a SELECT finds and what is fetched of it, for any tables, columns, *)
(* conditions, parameters and bounds.                                      *)
(***************************************************************************)
EXTENDS QueryHandle, Loops, FiniteSetTheorems, SequenceTheorems

(* A recursion in which each number looks at greater ones, as the nodes of *)
(* a condition do.                                                         *)
After(g, n, N) == [m \in n + 1 .. N |-> g[m]]
TreesOf(from, N, W, step) ==
  {g \in [from .. N -> W] : \A n \in from .. N : g[n] = step[<<n, After(g, n, N)>>]}

LEMMA TreeExists ==
  ASSUME NEW N \in Nat, NEW W, NEW step,
         \A n \in 1 .. N : \A later \in [n + 1 .. N -> W] : step[<<n, later>>] \in W
  PROVE  TreesOf(1, N, W, step) # {}
<1> DEFINE Good == {j \in 0 .. N : TreesOf(N + 1 - j, N, W, step) # {}}
<1>1. 0 \in Good
  <2>1. N + 1 - 0 .. N = {}
    OBVIOUS
  <2>2. [i \in {} |-> i] \in [{} -> W]
    OBVIOUS
  <2>3. TreesOf(N + 1 - 0, N, W, step) # {}
    BY <2>1, <2>2 DEF TreesOf
  <2> QED
    BY <2>3
<1>2. ASSUME NEW j \in 1 .. N, j - 1 \in Good
      PROVE  j \in Good
  <2>1. PICK f \in 1 .. N : f = N + 1 - j
    OBVIOUS
  <2>2. N + 1 - (j - 1) = f + 1
    BY <2>1
  <2>3. PICK g \in TreesOf(f + 1, N, W, step) : TRUE
    BY <1>2, <2>2
  <2>4. g \in [f + 1 .. N -> W] /\ \A n \in f + 1 .. N : g[n] = step[<<n, After(g, n, N)>>]
    BY <2>3 DEF TreesOf
  <2> DEFINE first == step[<<f, g>>]
             h == [i \in f .. N |-> IF i = f THEN first ELSE g[i]]
  <2>5. first \in W
    BY <2>4
  <2> HIDE DEF first
  <2>6. \A i \in f .. N : i # f => i \in f + 1 .. N
    OBVIOUS
  <2>7. h \in [f .. N -> W] /\ h[f] = first /\ \A i \in f + 1 .. N : i \in f .. N /\ h[i] = g[i]
    BY <2>4, <2>5, <2>6
  <2> HIDE DEF h
  <2>8. After(h, f, N) = g
    <3>1. \A i \in f + 1 .. N : h[i] = g[i]
      BY <2>7
    <3>2. After(h, f, N) = [i \in f + 1 .. N |-> g[i]]
      BY <3>1 DEF After
    <3> QED
      BY <2>4, <3>2
  <2>9. ASSUME NEW n \in f + 1 .. N
        PROVE  After(h, n, N) = After(g, n, N)
    <3>1. \A i \in n + 1 .. N : h[i] = g[i]
      <4>1. \A i \in n + 1 .. N : i \in f + 1 .. N
        OBVIOUS
      <4> QED
        BY <2>7, <4>1
    <3> QED
      BY <3>1 DEF After
  <2>10. ASSUME NEW n \in f .. N
         PROVE  h[n] = step[<<n, After(h, n, N)>>]
    <3>1. CASE n = f
      BY <2>7, <2>8, <3>1 DEF first
    <3>2. CASE n # f
      <4>1. n \in f + 1 .. N
        BY <2>6, <3>2
      <4> QED
        BY <2>4, <2>7, <2>9, <4>1
    <3> QED
      BY <3>1, <3>2
  <2>11. h \in TreesOf(f, N, W, step)
    BY <2>7, <2>10 DEF TreesOf
  <2> QED
    BY <2>1, <2>11
<1>3. N \in Good
  <2>1. \A i \in 0 .. N : i \in Good
    <3> HIDE DEF Good
    <3> QED
      BY <1>1, <1>2, UpToLast
  <2> QED
    BY <2>1
<1>4. N + 1 - N = 1
  OBVIOUS
<1> QED
  BY <1>3, <1>4

LEMMA TreeInduction ==
  ASSUME NEW N \in Nat, NEW Good,
         \A n \in 1 .. N : (\A m \in n + 1 .. N : m \in Good) => n \in Good
  PROVE  \A n \in 1 .. N : n \in Good
<1> DEFINE Done == {j \in 0 .. N : \A m \in N + 1 - j .. N : m \in Good}
<1>1. 0 \in Done
  OBVIOUS
<1>2. ASSUME NEW j \in 1 .. N, j - 1 \in Done
      PROVE  j \in Done
  <2>1. PICK f \in 1 .. N : f = N + 1 - j
    OBVIOUS
  <2>2. \A m \in f + 1 .. N : m \in Good
    <3>1. N + 1 - (j - 1) = f + 1
      BY <2>1
    <3> QED
      BY <1>2, <3>1
  <2>3. f \in Good
    BY <2>2
  <2>4. \A m \in f .. N : m = f \/ m \in f + 1 .. N
    OBVIOUS
  <2>5. \A m \in f .. N : m \in Good
    BY <2>2, <2>3, <2>4
  <2> QED
    BY <2>1, <2>5
<1>3. \A j \in 0 .. N : j \in Done
  <2> HIDE DEF Done
  <2> QED
    BY <1>1, <1>2, UpToLast
<1>4. N \in Done
  BY <1>3
<1>5. N + 1 - N = 1
  OBVIOUS
<1> QED
  BY <1>4, <1>5

-----------------------------------------------------------------------------
(* The nodes of a condition.                                               *)
Inner(n) == query.cond[n].op \in {"and", "or"}
Testing(n) == query.cond[n].op \in {"null", "notnull"}
Compares(n) == query.cond[n].op \in Comparisons
Size == Len(query.cond)

LEMMA NodeFacts ==
  ASSUME IsQuery(query)
  PROVE  /\ Size \in Nat /\ Node = 1 .. Size
         /\ \A n \in Node :
              /\ Inner(n) \/ Testing(n) \/ Compares(n)
              /\ Inner(n) => ~Testing(n) /\ ~Compares(n)
              /\ Testing(n) => ~Compares(n) /\ query.cond[n].left \in ColumnsOf(query)
              /\ Compares(n) => /\ query.cond[n].left \in ColumnsOf(query)
                                /\ query.cond[n].right \in Operand(query)
                                /\ query.cond[n].string \in BOOLEAN
                                /\ query.cond[n].string => query.cond[n].op \in {"=", "<>"}
<1>1. query.cond \in Seq(Range(query.cond))
  BY DEF IsQuery
<1>2. Size \in Nat /\ Node = 1 .. Size
  BY <1>1, LenProperties DEF Size, Node
<1>3. ASSUME NEW n \in Node
      PROVE  \/ query.cond[n].op \in {"and", "or"}
             \/ query.cond[n].op \in {"null", "notnull"} /\ query.cond[n].left \in ColumnsOf(query)
             \/ /\ query.cond[n].op \in Comparisons
                /\ query.cond[n].left \in ColumnsOf(query) /\ query.cond[n].right \in Operand(query)
                /\ query.cond[n].string \in BOOLEAN
                /\ query.cond[n].string => query.cond[n].op \in {"=", "<>"}
  BY <1>3, Zenon DEF IsQuery, Node
<1>4. \A op : /\ op \in {"and", "or"} => op \notin {"null", "notnull"} /\ op \notin Comparisons
              /\ op \in {"null", "notnull"} => op \notin Comparisons
  BY DEF Comparisons
<1> QED
  BY <1>2, <1>3, <1>4 DEF Inner, Testing, Compares

LEMMA TreeFacts ==
  ASSUME IsQuery(query), NEW last \in [Node -> Node], IsTree(query.cond, last)
  PROVE  /\ Node # {} => last[1] = Size
         /\ \A n \in Node :
              /\ last[n] \in n .. Size
              /\ ~Inner(n) => last[n] = n
              /\ Inner(n) => /\ query.cond[n].left = n + 1 /\ query.cond[n].right = last[n + 1] + 1
                             /\ n + 1 \in Node /\ last[n + 1] + 1 \in Node
                             /\ last[n + 1] \in n + 1 .. Size
                             /\ last[n] = last[last[n + 1] + 1]
<1>1. Size \in Nat /\ Node = 1 .. Size
  BY NodeFacts
<1>2. ASSUME NEW n \in Node
      PROVE  /\ ~Inner(n) => last[n] = n
             /\ Inner(n) => /\ query.cond[n].left = n + 1 /\ query.cond[n].right = last[n + 1] + 1
                            /\ n + 1 \in Node /\ last[n + 1] + 1 \in Node
                            /\ last[n] = last[last[n + 1] + 1]
  <2>1. IF query.cond[n].op \notin {"and", "or"} THEN last[n] = n
        ELSE /\ {n + 1, last[n + 1] + 1} \subseteq DOMAIN query.cond
             /\ query.cond[n].left = n + 1 /\ query.cond[n].right = last[n + 1] + 1
             /\ last[n] = last[query.cond[n].right]
    BY Zenon DEF IsTree, Node
  <2> QED
    BY <2>1 DEF Inner, Node
<1> DEFINE Good == {n \in Node : last[n] \in n .. Size}
<1>3. ASSUME NEW n \in 1 .. Size, \A m \in n + 1 .. Size : m \in Good
      PROVE  n \in Good
  <2>1. n \in Node
    BY <1>1
  <2>2. CASE ~Inner(n)
    BY <1>1, <1>2, <2>1, <2>2
  <2>3. CASE Inner(n)
    <3>1. n + 1 \in n + 1 .. Size /\ last[n + 1] + 1 \in 1 .. Size /\ last[n] = last[last[n + 1] + 1]
      BY <1>1, <1>2, <2>1, <2>3
    <3>2. last[n + 1] \in n + 1 .. Size
      BY <1>3, <3>1
    <3>3. PICK r \in n + 1 .. Size : r = last[n + 1] + 1
      BY <1>1, <3>1, <3>2
    <3>4. last[r] \in r .. Size
      BY <1>3
    <3>5. last[n] \in n .. Size
      BY <1>1, <3>1, <3>3, <3>4
    <3> QED
      BY <2>1, <3>5
  <2> QED
    BY <2>2, <2>3
<1>4. \A n \in 1 .. Size : n \in Good
  <2> HIDE DEF Good
  <2> QED
    BY <1>1, <1>3, TreeInduction
<1>5. Node # {} => last[1] = Size
  <2>1. query.cond # <<>> => last[1] = Size
    BY DEF IsTree, Size
  <2>2. query.cond = <<>> => Node = {}
    BY DEF Node
  <2> QED
    BY <2>1, <2>2
<1>6. \A n \in Node : Inner(n) => last[n + 1] \in n + 1 .. Size
  BY <1>1, <1>2, <1>4
<1>7. \A n \in Node : last[n] \in n .. Size
  BY <1>1, <1>4
<1> QED
  BY <1>2, <1>5, <1>6, <1>7

(* Both operands of a node come behind it.                                 *)
LEMMA OperandsBehind ==
  ASSUME IsQuery(query), NEW n \in Node, Inner(n)
  PROVE  /\ query.cond[n].left \in n + 1 .. Size /\ query.cond[n].right \in n + 1 .. Size
         /\ query.cond[n].left \in Node /\ query.cond[n].right \in Node
<1>1. PICK last \in [Node -> Node] : IsTree(query.cond, last)
  BY DEF IsQuery, Node
<1>2. Size \in Nat /\ Node = 1 .. Size
  BY NodeFacts
<1>3. /\ query.cond[n].left = n + 1 /\ query.cond[n].right = last[n + 1] + 1
      /\ n + 1 \in Node /\ last[n + 1] + 1 \in Node /\ last[n + 1] \in n + 1 .. Size
  BY <1>1, TreeFacts
<1>4. n + 1 \in n + 1 .. Size /\ last[n + 1] + 1 \in n + 1 .. Size
  BY <1>2, <1>3
<1> QED
  BY <1>3, <1>4

-----------------------------------------------------------------------------
(* The tables, and the values in them.                                     *)
LEMMA TablesTyped ==
  ASSUME IsQuery(query)
  PROVE  /\ Len(query.tables) \in Nat \ {0} /\ Table = 1 .. Len(query.tables)
         /\ Table = DOMAIN query.types
         /\ \A t \in Table : /\ query.tables[t] \in Seq([DOMAIN query.types[t] -> Int])
                             /\ Len(query.tables[t]) \in Nat
                             /\ DOMAIN query.tables[t] = 1 .. Len(query.tables[t])
<1>1. query.tables \in Seq(Range(query.tables)) /\ DOMAIN query.tables = DOMAIN query.types
  BY DEF IsQuery
<1>2. query.types \in Seq(Seq(ColumnType)) /\ query.types # <<>>
  BY DEF IsQuery
<1>3. Len(query.tables) \in Nat /\ Table = 1 .. Len(query.tables)
  BY <1>1, LenProperties DEF Table
<1>4. Len(query.types) \in Nat \ {0} /\ DOMAIN query.types = 1 .. Len(query.types)
  BY <1>2, LenProperties, EmptySeq
<1>5. Len(query.tables) # 0
  <2>1. 1 \in Table
    BY <1>1, <1>4 DEF Table
  <2> QED
    BY <1>3, <2>1
<1>6. \A t \in Table : query.tables[t] \in Seq([DOMAIN query.types[t] -> Int])
  BY Zenon DEF IsQuery, Table
<1>7. \A t \in Table : /\ Len(query.tables[t]) \in Nat
                       /\ DOMAIN query.tables[t] = 1 .. Len(query.tables[t])
  BY <1>6, LenProperties
<1> QED
  BY <1>1, <1>3, <1>5, <1>6, <1>7 DEF Table

LEMMA ColumnTyped ==
  ASSUME IsQuery(query), NEW at \in ColumnsOf(query)
  PROVE  at.table \in Table /\ at.table # Invalid /\ at.column \in DOMAIN query.types[at.table]
<1>1. at.table \in DOMAIN query.types /\ at.column \in DOMAIN query.types[at.table]
  BY DEF ColumnsOf
<1>2. Table = DOMAIN query.types /\ Table = 1 .. Len(query.tables)
  BY TablesTyped
<1> QED
  BY <1>1, <1>2 DEF Invalid

(* The rows a table may be at, while some have none.                       *)
Partial == {rs \in [Table -> Nat] : \A t \in Table : rs[t] # Invalid => rs[t] \in DOMAIN query.tables[t]}

LEMMA RawTyped ==
  ASSUME IsQuery(query), NEW rs \in Partial, NEW at \in ColumnsOf(query), Known(at, rs)
  PROVE  Raw(at, rs) \in Int /\ AsNumber(at, Raw(at, rs)) \in Int
<1>1. at.table \in Table /\ at.column \in DOMAIN query.types[at.table]
  BY ColumnTyped
<1>2. rs[at.table] \in DOMAIN query.tables[at.table]
  BY <1>1 DEF Partial, Known
<1>3. query.tables[at.table] \in Seq([DOMAIN query.types[at.table] -> Int])
      /\ DOMAIN query.tables[at.table] = 1 .. Len(query.tables[at.table])
  BY <1>1, TablesTyped
<1>4. query.tables[at.table][rs[at.table]] \in [DOMAIN query.types[at.table] -> Int]
  BY <1>2, <1>3, ElementOfSeq
<1>5. Raw(at, rs) \in Int
  BY <1>1, <1>4 DEF Raw
<1>6. NullInt \in Int /\ NullShort \in Int
  BY WhereAssumption
<1> QED
  BY <1>5, <1>6 DEF AsNumber

LEMMA ParamTyped ==
  ASSUME IsQuery(query), NEW k \in Nat
  PROVE  Param(k) \in Int /\ ParamNumber(Param(k)) \in Int
<1>1. query.params \in Seq(Int)
  BY DEF IsQuery
<1>2. \A j \in DOMAIN query.params : query.params[j] \in Int
  BY <1>1, LenProperties, ElementOfSeq
<1>3. Param(k) \in Int
  BY <1>2 DEF Param
<1> QED
  BY <1>3, WhereAssumption DEF ParamNumber

(* What is compared with a column.                                         *)
LEMMA OperandFacts ==
  ASSUME IsQuery(query), NEW right \in Operand(query)
  PROVE  \/ right.kind = "column" /\ right.at \in ColumnsOf(query)
         \/ right.kind = "value" /\ right.is \in Int
         \/ right.kind = "wildcard"
BY DEF Operand

LEMMA HoldsTyped ==
  ASSUME NEW op \in Comparisons, NEW x, NEW y
  PROVE  Holds(op, x, y) \in BOOLEAN
<1>1. CASE op = "="
  BY <1>1, Zenon DEF Holds
<1>2. CASE op = "<>"
  BY <1>2 DEF Holds
<1>3. CASE op = "<"
  BY <1>3 DEF Holds
<1>4. CASE op = ">"
  BY <1>4 DEF Holds
<1>5. CASE op = "<="
  BY <1>5 DEF Holds
<1>6. CASE op = ">="
  BY <1>6 DEF Holds
<1> QED
  BY <1>1, <1>2, <1>3, <1>4, <1>5, <1>6 DEF Comparisons

-----------------------------------------------------------------------------
(* An evaluation ends with an outcome, at any node and any rec_index.      *)
Outcomes == [r : Result, val : BOOLEAN, k : Nat]

LEMMA OutcomeTyped ==
  ASSUME NEW val \in BOOLEAN, NEW k \in Nat
  PROVE  /\ Outcome("success", val, k) \in Outcomes /\ Unknown(k) \in Outcomes
         /\ Outcome("success", val, k).r = "success" /\ Outcome("success", val, k).val = val
         /\ Outcome("success", val, k).k = k
         /\ Unknown(k).r = "continue" /\ Unknown(k).val = TRUE /\ Unknown(k).k = k
BY DEF Outcome, Unknown, Outcomes, Result

EvalLeaf(n, rs, k) ==
  IF Testing(n) THEN EvalNull(query.cond[n], rs, k)
  ELSE IF query.cond[n].string THEN EvalString(query.cond[n], rs, k) ELSE EvalNumber(query.cond[n], rs, k)

EvalNode(later, n, rs, k) ==
  IF Inner(n)
  THEN Combine(query.cond[n].op, later[query.cond[n].left][k],
               later[query.cond[n].right][later[query.cond[n].left][k].k])
  ELSE EvalLeaf(n, rs, k)

(* A leaf either knows the rows it looks at, and compares, or it does not. *)
Taken(n, k) == IF Compares(n) /\ query.cond[n].right.kind = "wildcard" THEN k + 1 ELSE k
KnownAt(n, rs) ==
  /\ Known(query.cond[n].left, rs)
  /\ Compares(n) /\ query.cond[n].right.kind = "column" => Known(query.cond[n].right.at, rs)
LeafMeans(n, rs, v) ==
  IF query.cond[n].op = "null" THEN Raw(query.cond[n].left, rs) = 0
  ELSE IF query.cond[n].op = "notnull" THEN Raw(query.cond[n].left, rs) # 0
  ELSE Compared(query.cond[n], rs, v)

LEMMA LeafOutcome ==
  ASSUME IsQuery(query), NEW n \in Node, ~Inner(n), NEW rs \in Partial, NEW k \in Nat
  PROVE  /\ KnownAt(n, rs) => /\ LeafMeans(n, rs, Param(k + 1)) \in BOOLEAN
                              /\ EvalLeaf(n, rs, k)
                                   = Outcome("success", LeafMeans(n, rs, Param(k + 1)), Taken(n, k))
         /\ ~KnownAt(n, rs) => EvalLeaf(n, rs, k) = Unknown(IF Testing(n) \/ query.cond[n].string THEN k ELSE Taken(n, k))
<1> DEFINE node == query.cond[n]
<1>1. CASE Testing(n)
  <2>1. ~Compares(n) /\ (node.op = "null" \/ node.op = "notnull")
    BY <1>1, NodeFacts DEF Testing
  <2>2. EvalLeaf(n, rs, k) = EvalNull(node, rs, k)
    BY <1>1 DEF EvalLeaf
  <2>3. Taken(n, k) = k /\ (KnownAt(n, rs) <=> Known(node.left, rs))
    BY <2>1 DEF Taken, KnownAt
  <2>4. ((Raw(node.left, rs) = 0) = (node.op = "null")) = LeafMeans(n, rs, Param(k + 1))
        /\ LeafMeans(n, rs, Param(k + 1)) \in BOOLEAN
    BY <2>1 DEF LeafMeans
  <2> QED
    BY <1>1, <2>2, <2>3, <2>4, Zenon DEF EvalNull
<1>2. CASE Compares(n)
  <2>1. ~Testing(n) /\ node.op \in Comparisons /\ node.string \in BOOLEAN /\ node.right \in Operand(query)
    BY <1>2, NodeFacts DEF Compares
  <2>2. node.op # "null" /\ node.op # "notnull"
    BY <2>1 DEF Comparisons
  <2>3. LeafMeans(n, rs, Param(k + 1)) = Compared(node, rs, Param(k + 1))
    BY <2>2 DEF LeafMeans
  <2>4. Compared(node, rs, Param(k + 1)) \in BOOLEAN
    BY <2>1, HoldsTyped DEF Compared
  <2>5. CASE node.right.kind = "column"
    <3>1. Taken(n, k) = k /\ (KnownAt(n, rs) <=> Known(node.left, rs) /\ Known(node.right.at, rs))
      BY <1>2, <2>5 DEF Taken, KnownAt
    <3>2. CASE node.string
      <4>1. EvalLeaf(n, rs, k) = EvalString(node, rs, k)
        BY <2>1, <3>2 DEF EvalLeaf
      <4>2. Compared(node, rs, Param(k + 1)) = Holds(node.op, Raw(node.left, rs), Raw(node.right.at, rs))
        BY <2>5, <3>2 DEF Compared
      <4>3. EvalString(node, rs, k) = IF KnownAt(n, rs) THEN Outcome("success", Holds(node.op, Raw(node.left, rs), Raw(node.right.at, rs)), k) ELSE Unknown(k)
        BY <2>5, <3>1 DEF EvalString
      <4> QED
        BY <2>3, <2>4, <3>1, <3>2, <4>1, <4>2, <4>3
    <3>3. CASE ~node.string
      <4>1. EvalLeaf(n, rs, k) = EvalNumber(node, rs, k)
        BY <2>1, <3>3 DEF EvalLeaf
      <4> DEFINE x == AsNumber(node.left, Raw(node.left, rs))
                 y == AsNumber(node.right.at, Raw(node.right.at, rs))
      <4>2. Compared(node, rs, Param(k + 1)) = Holds(node.op, x, y)
        BY <2>5, <3>3 DEF Compared
      <4>3. EvalNumber(node, rs, k) = IF KnownAt(n, rs) THEN Outcome("success", Holds(node.op, x, y), k) ELSE Unknown(k)
        BY <2>5, <3>1 DEF EvalNumber
      <4> QED
        BY <2>1, <2>3, <2>4, <3>1, <3>3, <4>1, <4>2, <4>3
    <3> QED
      BY <2>1, <3>2, <3>3
  <2>6. CASE node.right.kind = "value"
    <3>1. Taken(n, k) = k /\ (KnownAt(n, rs) <=> Known(node.left, rs))
      BY <1>2, <2>6 DEF Taken, KnownAt
    <3>2. CASE node.string
      <4>1. EvalLeaf(n, rs, k) = EvalString(node, rs, k)
        BY <2>1, <3>2 DEF EvalLeaf
      <4>2. Compared(node, rs, Param(k + 1)) = Holds(node.op, Raw(node.left, rs), node.right.is)
        BY <2>6, <3>2 DEF Compared
      <4>3. EvalString(node, rs, k) = IF KnownAt(n, rs) THEN Outcome("success", Holds(node.op, Raw(node.left, rs), node.right.is), k) ELSE Unknown(k)
        BY <2>6, <3>1 DEF EvalString
      <4> QED
        BY <2>3, <2>4, <3>1, <3>2, <4>1, <4>2, <4>3
    <3>3. CASE ~node.string
      <4>1. EvalLeaf(n, rs, k) = EvalNumber(node, rs, k)
        BY <2>1, <3>3 DEF EvalLeaf
      <4> DEFINE x == AsNumber(node.left, Raw(node.left, rs))
      <4>2. Compared(node, rs, Param(k + 1)) = Holds(node.op, x, node.right.is)
        BY <2>6, <3>3 DEF Compared
      <4>3. EvalNumber(node, rs, k) = IF KnownAt(n, rs) THEN Outcome("success", Holds(node.op, x, node.right.is), k) ELSE Unknown(k)
        BY <2>6, <3>1 DEF EvalNumber
      <4> QED
        BY <2>1, <2>3, <2>4, <3>1, <3>3, <4>1, <4>2, <4>3
    <3> QED
      BY <2>1, <3>2, <3>3
  <2>7. CASE node.right.kind = "wildcard"
    <3>1. Taken(n, k) = k + 1 /\ (KnownAt(n, rs) <=> Known(node.left, rs))
      BY <1>2, <2>7 DEF Taken, KnownAt
    <3>2. CASE node.string
      <4>1. EvalLeaf(n, rs, k) = EvalString(node, rs, k)
        BY <2>1, <3>2 DEF EvalLeaf
      <4>2. Compared(node, rs, Param(k + 1)) = Holds(node.op, Raw(node.left, rs), Param(k + 1))
        BY <2>7, <3>2 DEF Compared
      <4>3. EvalString(node, rs, k) = IF KnownAt(n, rs) THEN Outcome("success", Holds(node.op, Raw(node.left, rs), Param(k + 1)), k + 1) ELSE Unknown(k)
        BY <2>7, <3>1 DEF EvalString
      <4> QED
        BY <2>3, <2>4, <3>1, <3>2, <4>1, <4>2, <4>3
    <3>3. CASE ~node.string
      <4>1. EvalLeaf(n, rs, k) = EvalNumber(node, rs, k)
        BY <2>1, <3>3 DEF EvalLeaf
      <4> DEFINE x == AsNumber(node.left, Raw(node.left, rs))
      <4>2. Compared(node, rs, Param(k + 1)) = Holds(node.op, x, ParamNumber(Param(k + 1)))
        BY <2>7, <3>3 DEF Compared
      <4>3. EvalNumber(node, rs, k) = IF KnownAt(n, rs) THEN Outcome("success", Holds(node.op, x, ParamNumber(Param(k + 1))), k + 1) ELSE Unknown(k + 1)
        BY <2>7, <3>1 DEF EvalNumber
      <4> QED
        BY <2>1, <2>3, <2>4, <3>1, <3>3, <4>1, <4>2, <4>3
    <3> QED
      BY <2>1, <3>2, <3>3
  <2> QED
    BY <2>1, <2>5, <2>6, <2>7, OperandFacts
<1> QED
  BY <1>1, <1>2, NodeFacts

LEMMA LeafTyped ==
  ASSUME IsQuery(query), NEW n \in Node, ~Inner(n), NEW rs \in Partial, NEW k \in Nat
  PROVE  EvalLeaf(n, rs, k) \in Outcomes
<1>1. Taken(n, k) \in Nat
  BY DEF Taken
<1>2. CASE KnownAt(n, rs)
  <2>1. PICK v \in BOOLEAN : v = LeafMeans(n, rs, Param(k + 1))
    BY <1>2, LeafOutcome, Zenon
  <2>2. EvalLeaf(n, rs, k) = Outcome("success", v, Taken(n, k))
    BY <1>2, <2>1, LeafOutcome, Zenon
  <2>3. Outcome("success", v, Taken(n, k)) \in Outcomes
    BY <1>1, OutcomeTyped, Zenon
  <2> QED
    BY <2>2, <2>3, Zenon
<1>3. CASE ~KnownAt(n, rs)
  <2>1. PICK j \in Nat : EvalLeaf(n, rs, k) = Unknown(j)
    <3>1. (IF Testing(n) \/ query.cond[n].string THEN k ELSE Taken(n, k)) \in Nat
      BY <1>1
    <3> QED
      BY <1>3, <3>1, LeafOutcome, Zenon
  <2>2. Unknown(j) \in Outcomes
    BY DEF Unknown, Outcome, Outcomes, Result
  <2> QED
    BY <2>1, <2>2, Zenon
<1> QED
  BY <1>2, <1>3

(* AND and OR of two outcomes.                                             *)
LEMMA CombineFacts ==
  ASSUME NEW op \in {"and", "or"}, NEW L \in Outcomes, NEW R \in Outcomes
  PROVE  /\ Combine(op, L, R) \in Outcomes /\ Combine(op, L, R).k = R.k
         /\ L.r = "success" /\ R.r = "success" =>
              /\ Combine(op, L, R).r = "success"
              /\ Combine(op, L, R).val = IF op = "and" THEN L.val /\ R.val ELSE L.val \/ R.val
         /\ L.r = "continue" /\ R.r = "continue" => Combine(op, L, R) = Unknown(R.k)
         /\ \A one \in {L, R}, other \in {L, R} : one.r = "success" /\ other.r = "continue" =>
              IF one.val = (op = "or") THEN Combine(op, L, R) = Outcome("success", one.val, R.k)
              ELSE Combine(op, L, R) = Unknown(R.k)
<1>1. /\ L.r \in Result /\ R.r \in Result /\ L.val \in BOOLEAN /\ R.val \in BOOLEAN /\ R.k \in Nat
  BY DEF Outcomes
<1>2. (L.r = "success" \/ L.r = "continue") /\ (R.r = "success" \/ R.r = "continue")
  BY <1>1 DEF Result
<1>3. CASE L.r = "success" /\ R.r = "success"
  <2> DEFINE both == IF op = "and" THEN L.val /\ R.val ELSE L.val \/ R.val
  <2>1. PICK v \in BOOLEAN : v = both
    BY <1>1
  <2>2. Combine(op, L, R) = Outcome("success", v, R.k)
    BY <1>3, <2>1 DEF Combine
  <2>5. PICK k \in Nat : k = R.k
    BY <1>1
  <2>3. Combine(op, L, R) \in Outcomes /\ Combine(op, L, R).k = R.k /\ Combine(op, L, R).r = "success"
        /\ Combine(op, L, R).val = v
    <3>1. /\ Outcome("success", v, k) \in Outcomes /\ Outcome("success", v, k).k = k
          /\ Outcome("success", v, k).r = "success" /\ Outcome("success", v, k).val = v
      BY DEF Outcome, Outcomes, Result
    <3> QED
      BY <2>2, <2>5, <3>1, Zenon
  <2>4. L.r # "continue" /\ R.r # "continue"
    BY <1>3
  <2> QED
    BY <1>3, <2>1, <2>3, <2>4
<1>4. CASE L.r = "continue" /\ R.r = "continue"
  <2>1. Combine(op, L, R) = Unknown(R.k)
    BY <1>4 DEF Combine
  <2>2. Unknown(R.k) \in Outcomes /\ Unknown(R.k).k = R.k
    BY <1>1, OutcomeTyped
  <2> QED
    BY <1>4, <2>1, <2>2
<1>5. CASE L.r # R.r
  <2>1. PICK one \in {L, R} : one = (IF L.r = "continue" THEN R ELSE L)
    OBVIOUS
  <2>2. one.r = "success" /\ one.val \in BOOLEAN
    BY <1>1, <1>2, <1>5, <2>1
  <2>3. Combine(op, L, R) = IF one.val = (op = "or") THEN Outcome("success", one.val, R.k) ELSE Unknown(R.k)
    <3>1. ~(L.r = "success" /\ R.r = "success") /\ ~(L.r = "continue" /\ R.r = "continue")
      BY <1>5
    <3> QED
      BY <2>1, <3>1 DEF Combine
  <2>4. Combine(op, L, R) \in Outcomes /\ Combine(op, L, R).k = R.k
    <3>1. Outcome("success", one.val, R.k) \in Outcomes /\ Outcome("success", one.val, R.k).k = R.k
      <4>1. PICK v \in BOOLEAN, k \in Nat : v = one.val /\ k = R.k
        BY <1>1, <2>2, Zenon
      <4>2. Outcome("success", v, k) \in Outcomes /\ Outcome("success", v, k).k = k
        BY DEF Outcome, Outcomes, Result
      <4> QED
        BY <4>1, <4>2, Zenon
    <3>2. Unknown(R.k) \in Outcomes /\ Unknown(R.k).k = R.k
      BY <1>1, OutcomeTyped, Zenon
    <3> QED
      BY <2>3, <3>1, <3>2
  <2>5. \A x \in {L, R} : x.r = "success" => x = one
    BY <1>2, <1>5, <2>1
  <2> QED
    BY <1>5, <2>3, <2>4, <2>5
<1> QED
  BY <1>2, <1>3, <1>4, <1>5

LEMMA EvaluationExists ==
  ASSUME IsQuery(query), NEW rs \in Partial
  PROVE  \E g \in [Node -> [Nat -> Outcomes]] :
           /\ \A n \in Node, k \in Nat : g[n][k] = EvalNode(g, n, rs, k)
           /\ Evaluate(rs) = IF Node = {} THEN Outcome("success", TRUE, 0) ELSE g[1][0]
<1> DEFINE W == [Nat -> Outcomes]
           Answer(later, n) == [k \in Nat |-> EvalNode(later, n, rs, k)]
           Turn(g, node, k) ==
             CASE node.op \in {"and", "or"} ->
                    LET L == g[node.left][k] IN Combine(node.op, L, g[node.right][L.k])
               [] node.op \in {"null", "notnull"} -> EvalNull(node, rs, k)
               [] OTHER -> IF node.string THEN EvalString(node, rs, k) ELSE EvalNumber(node, rs, k)
           IsEval(g) == g = [n \in Node |-> [k \in Nat |-> Turn(g, query.cond[n], k)]]
           eval == CHOOSE g : IsEval(g)
           Laters == UNION {[n + 1 .. Size -> W] : n \in 1 .. Size}
           step == [x \in (1 .. Size) \X Laters |-> Answer(x[2], x[1])]
<1>1. Size \in Nat /\ Node = 1 .. Size
  BY NodeFacts
<1>2. ASSUME NEW n \in Node, NEW later, \A m \in n + 1 .. Size : later[m] \in W
      PROVE  Answer(later, n) \in W
  <2> SUFFICES ASSUME NEW k \in Nat
               PROVE  EvalNode(later, n, rs, k) \in Outcomes
    OBVIOUS
  <2>1. CASE ~Inner(n)
    BY <2>1, LeafTyped DEF EvalNode
  <2>2. CASE Inner(n)
    <3>1. later[query.cond[n].left] \in W /\ later[query.cond[n].right] \in W
      BY <1>2, <2>2, OperandsBehind
    <3>2. PICK L \in Outcomes : L = later[query.cond[n].left][k]
      BY <3>1
    <3>3. L.k \in Nat
      BY DEF Outcomes
    <3>4. PICK R \in Outcomes : R = later[query.cond[n].right][L.k]
      BY <3>1, <3>3
    <3>5. EvalNode(later, n, rs, k) = Combine(query.cond[n].op, L, R)
      BY <2>2, <3>2, <3>4 DEF EvalNode
    <3>6. query.cond[n].op \in {"and", "or"}
      BY <2>2 DEF Inner
    <3> QED
      BY <3>5, <3>6, CombineFacts
  <2> QED
    BY <2>1, <2>2
<1>3. \A n \in 1 .. Size : \A later \in [n + 1 .. Size -> W] :
        step[<<n, later>>] = Answer(later, n) /\ step[<<n, later>>] \in W
  <2> TAKE n \in 1 .. Size
  <2> TAKE later \in [n + 1 .. Size -> W]
  <2>1. later \in Laters
    OBVIOUS
  <2>2. step[<<n, later>>] = Answer(later, n)
    <3> HIDE DEF Answer, Laters
    <3> QED
      BY <2>1
  <2>3. Answer(later, n) \in W
    <3> HIDE DEF Answer, W
    <3> QED
      BY <1>1, <1>2
  <2> HIDE DEF step, Answer
  <2> QED
    BY <2>2, <2>3
<1> HIDE DEF step, W, Answer
<1>0. ASSUME NEW h, NEW n \in Node
      PROVE  [k \in Nat |-> Turn(h, query.cond[n], k)] = Answer(h, n)
  <2>1. ASSUME NEW k \in Nat
        PROVE  Turn(h, query.cond[n], k) = EvalNode(h, n, rs, k)
    <3>1. CASE Inner(n)
      <4>1. query.cond[n].op \in {"and", "or"} /\ query.cond[n].op \notin {"null", "notnull"}
        BY <3>1, NodeFacts DEF Inner, Testing
      <4> QED
        BY <3>1, <4>1 DEF EvalNode
    <3>2. CASE Testing(n)
      <4>1. query.cond[n].op \notin {"and", "or"} /\ query.cond[n].op \in {"null", "notnull"} /\ ~Inner(n)
        BY <3>2, NodeFacts DEF Inner, Testing
      <4> QED
        BY <3>2, <4>1 DEF EvalNode, EvalLeaf
    <3>3. CASE ~Inner(n) /\ ~Testing(n)
      <4>1. query.cond[n].op \notin {"and", "or"} /\ query.cond[n].op \notin {"null", "notnull"}
        BY <3>3 DEF Inner, Testing
      <4> QED
        BY <3>3, <4>1 DEF EvalNode, EvalLeaf
    <3> QED
      BY <3>1, <3>2, <3>3
  <2> HIDE DEF Turn
  <2> QED
    BY <2>1 DEF Answer
<1>4. PICK g \in TreesOf(1, Size, W, step) : TRUE
  BY <1>1, <1>3, TreeExists
<1>5. g \in [1 .. Size -> W] /\ \A n \in 1 .. Size : g[n] = step[<<n, After(g, n, Size)>>]
  BY <1>4 DEF TreesOf
<1>6. ASSUME NEW n \in Node, NEW h
      PROVE  Answer(After(h, n, Size), n) = Answer(h, n)
  <2>1. CASE ~Inner(n)
    BY <2>1 DEF Answer, EvalNode
  <2>2. CASE Inner(n)
    <3>1. /\ After(h, n, Size)[query.cond[n].left] = h[query.cond[n].left]
          /\ After(h, n, Size)[query.cond[n].right] = h[query.cond[n].right]
      BY <2>2, OperandsBehind DEF After
    <3> QED
      BY <2>2, <3>1 DEF Answer, EvalNode
  <2> QED
    BY <2>1, <2>2
<1>7. IsEval(g)
  <2>1. ASSUME NEW n \in Node
        PROVE  g[n] = Answer(g, n)
    <3>1. After(g, n, Size) \in [n + 1 .. Size -> W]
      <4>1. \A m \in n + 1 .. Size : g[m] \in W
        BY <1>1, <1>5
      <4> QED
        BY <4>1 DEF After
    <3>2. g[n] = Answer(After(g, n, Size), n)
      BY <1>1, <1>3, <1>5, <3>1
    <3> QED
      BY <1>6, <3>2
  <2>2. g = [n \in Node |-> Answer(g, n)]
    BY <1>1, <1>5, <2>1
  <2> HIDE DEF Turn
  <2> QED
    BY <1>0, <2>2
<1>8. IsEval(eval)
  <2> HIDE DEF IsEval
  <2> QED
    BY <1>7
<1>9. Evaluate(rs) = IF Node = {} THEN Outcome("success", TRUE, 0) ELSE eval[1][0]
  BY Zenon DEF Evaluate
<1>10. /\ DOMAIN eval = Node /\ eval = [n \in Node |-> eval[n]]
       /\ \A n \in Node : eval[n] = Answer(eval, n)
  <2> HIDE DEF Turn, eval
  <2> QED
    BY <1>0, <1>8
<1> DEFINE Good == {n \in Node : eval[n] \in W}
<1> HIDE DEF eval
<1>11. ASSUME NEW n \in 1 .. Size, \A m \in n + 1 .. Size : m \in Good
       PROVE  n \in Good
  <2>1. \A m \in n + 1 .. Size : eval[m] \in W
    BY <1>11
  <2>2. Answer(eval, n) \in W
    BY <1>1, <1>2, <2>1
  <2> QED
    BY <1>1, <1>10, <2>2
<1>12. \A n \in 1 .. Size : n \in Good
  <2> HIDE DEF Good
  <2> QED
    BY <1>1, <1>11, TreeInduction
<1>13. eval \in [Node -> W]
  BY <1>1, <1>10, <1>12
<1>14. \A n \in Node, k \in Nat : eval[n][k] = EvalNode(eval, n, rs, k)
  BY <1>10 DEF Answer
<1> QED
  BY <1>9, <1>13, <1>14 DEF W

-----------------------------------------------------------------------------
(* What a condition means.                                                 *)
MeansNode(later, n, rs) ==
  IF query.cond[n].op = "and" THEN later[query.cond[n].left] /\ later[query.cond[n].right]
  ELSE IF query.cond[n].op = "or" THEN later[query.cond[n].left] \/ later[query.cond[n].right]
  ELSE LeafMeans(n, rs, Param(Cardinality(Wildcards(n))))

LEMMA LeafMeansTyped ==
  ASSUME IsQuery(query), NEW n \in Node, ~Inner(n), NEW rs, NEW v
  PROVE  LeafMeans(n, rs, v) \in BOOLEAN
<1>1. CASE Testing(n)
  BY <1>1 DEF Testing, LeafMeans
<1>2. CASE Compares(n)
  <2>1. query.cond[n].op \in Comparisons /\ query.cond[n].op # "null" /\ query.cond[n].op # "notnull"
    BY <1>2 DEF Compares, Comparisons
  <2>2. Compared(query.cond[n], rs, v) \in BOOLEAN
    BY <2>1, HoldsTyped DEF Compared
  <2> QED
    BY <2>1, <2>2 DEF LeafMeans
<1> QED
  BY <1>1, <1>2, NodeFacts

LEMMA MeaningExists ==
  ASSUME IsQuery(query), NEW rs
  PROVE  \E g \in [Node -> BOOLEAN] :
           /\ \A n \in Node : g[n] = MeansNode(g, n, rs)
           /\ Satisfies(rs) <=> (Node # {} => g[1])
<1> DEFINE W == BOOLEAN
           Turn(g, n) ==
             LET node == query.cond[n] IN
             CASE node.op = "and" -> g[node.left] /\ g[node.right]
               [] node.op = "or" -> g[node.left] \/ g[node.right]
               [] node.op = "null" -> Raw(node.left, rs) = 0
               [] node.op = "notnull" -> Raw(node.left, rs) # 0
               [] node.op \in Comparisons -> Compared(node, rs, Param(Cardinality(Wildcards(n))))
           Answer(later, n) == MeansNode(later, n, rs)
           IsMeaning(g) == g = [n \in Node |-> Turn(g, n)]
           means == CHOOSE g : IsMeaning(g)
           Laters == UNION {[n + 1 .. Size -> W] : n \in 1 .. Size}
           step == [x \in (1 .. Size) \X Laters |-> Answer(x[2], x[1])]
<1>1. Size \in Nat /\ Node = 1 .. Size
  BY NodeFacts
<1>2. ASSUME NEW n \in Node, NEW later
      PROVE  Answer(later, n) \in W
  <2>1. CASE Inner(n)
    BY <2>1 DEF Inner, MeansNode
  <2>2. CASE ~Inner(n)
    <3>1. query.cond[n].op # "and" /\ query.cond[n].op # "or"
      BY <2>2 DEF Inner
    <3>2. MeansNode(later, n, rs) = LeafMeans(n, rs, Param(Cardinality(Wildcards(n))))
      BY <3>1 DEF MeansNode
    <3> QED
      BY <2>2, <3>2, LeafMeansTyped, Zenon
  <2> QED
    BY <2>1, <2>2
<1>3. \A n \in 1 .. Size : \A later \in [n + 1 .. Size -> W] :
        step[<<n, later>>] = Answer(later, n) /\ step[<<n, later>>] \in W
  <2> TAKE n \in 1 .. Size
  <2> TAKE later \in [n + 1 .. Size -> W]
  <2>1. later \in Laters
    OBVIOUS
  <2>2. step[<<n, later>>] = Answer(later, n)
    <3> HIDE DEF Answer, Laters
    <3> QED
      BY <2>1
  <2>3. Answer(later, n) \in W
    <3> HIDE DEF Answer, W
    <3> QED
      BY <1>1, <1>2
  <2> HIDE DEF step, Answer
  <2> QED
    BY <2>2, <2>3, Zenon
<1> HIDE DEF step, W, Answer
<1>4. PICK g \in TreesOf(1, Size, W, step) : TRUE
  <2>1. \A n \in 1 .. Size : \A later \in [n + 1 .. Size -> W] : step[<<n, later>>] \in W
    BY <1>3
  <2> QED
    BY <1>1, <2>1, TreeExists
<1>5. g \in [1 .. Size -> W] /\ \A n \in 1 .. Size : g[n] = step[<<n, After(g, n, Size)>>]
  BY <1>4 DEF TreesOf
<1>6. ASSUME NEW n \in Node, NEW h
      PROVE  Answer(After(h, n, Size), n) = Answer(h, n)
  <2>1. CASE ~Inner(n)
    BY <2>1, Zenon DEF Answer, MeansNode, Inner
  <2>2. CASE Inner(n)
    <3>1. /\ After(h, n, Size)[query.cond[n].left] = h[query.cond[n].left]
          /\ After(h, n, Size)[query.cond[n].right] = h[query.cond[n].right]
      BY <2>2, OperandsBehind DEF After
    <3>2. query.cond[n].op = "and" \/ query.cond[n].op = "or"
      BY <2>2 DEF Inner
    <3> QED
      BY <3>1, <3>2, Zenon DEF Answer, MeansNode
  <2> QED
    BY <2>1, <2>2
<1>0. ASSUME NEW h, NEW n \in Node
      PROVE  Turn(h, n) = Answer(h, n)
  <2>1. CASE query.cond[n].op = "and"
    BY <2>1 DEF Answer, MeansNode, Comparisons
  <2>2. CASE query.cond[n].op = "or"
    BY <2>2 DEF Answer, MeansNode, Comparisons
  <2>3. CASE query.cond[n].op = "null"
    BY <2>3 DEF Answer, MeansNode, LeafMeans, Comparisons
  <2>4. CASE query.cond[n].op = "notnull"
    BY <2>4 DEF Answer, MeansNode, LeafMeans, Comparisons
  <2>5. CASE query.cond[n].op \in Comparisons
    <3>1. /\ query.cond[n].op # "and" /\ query.cond[n].op # "or"
          /\ query.cond[n].op # "null" /\ query.cond[n].op # "notnull"
      BY <2>5 DEF Comparisons
    <3> QED
      BY <2>5, <3>1 DEF Answer, MeansNode, LeafMeans
  <2> QED
    BY <2>1, <2>2, <2>3, <2>4, <2>5, NodeFacts DEF Inner, Testing, Compares
<1>7. IsMeaning(g)
  <2>1. ASSUME NEW n \in Node
        PROVE  g[n] = Answer(g, n)
    <3>1. After(g, n, Size) \in [n + 1 .. Size -> W]
      <4>1. \A m \in n + 1 .. Size : g[m] \in W
        BY <1>1, <1>5
      <4> QED
        BY <4>1 DEF After
    <3>2. g[n] = Answer(After(g, n, Size), n)
      BY <1>1, <1>3, <1>5, <3>1
    <3> QED
      BY <1>6, <3>2
  <2>2. g = [n \in Node |-> Answer(g, n)]
    BY <1>1, <1>5, <2>1
  <2> HIDE DEF Turn
  <2> QED
    BY <1>0, <2>2
<1>8. IsMeaning(means)
  <2> HIDE DEF IsMeaning
  <2> QED
    BY <1>7
<1>9. Satisfies(rs) <=> (Node # {} => means[1])
  BY Zenon DEF Satisfies
<1>10. /\ means = [n \in Node |-> means[n]]
       /\ \A n \in Node : means[n] = Answer(means, n)
  <2> HIDE DEF Turn, means
  <2> QED
    BY <1>0, <1>8
<1> HIDE DEF means
<1>11. \A n \in Node : means[n] \in W
  BY <1>2, <1>10
<1>12. means \in [Node -> W]
  BY <1>10, <1>11
<1> QED
  BY <1>9, <1>10, <1>12 DEF W, Answer

-----------------------------------------------------------------------------
(* The parameters: one for each wildcard, in the order of the text.        *)
Wild(n) == Compares(n) /\ query.cond[n].right.kind = "wildcard"

LEMMA WildcardFacts ==
  ASSUME IsQuery(query), NEW n \in Node
  PROVE  /\ IsFiniteSet(Wildcards(n - 1)) /\ Cardinality(Wildcards(n - 1)) \in Nat
         /\ Wild(n) => /\ n \in Wildcards(Size)
                       /\ Cardinality(Wildcards(n)) = Cardinality(Wildcards(n - 1)) + 1
         /\ ~Wild(n) => Wildcards(n) = Wildcards(n - 1)
<1>1. Size \in Nat /\ n \in 1 .. Size
  BY NodeFacts
<1>2. IsFiniteSet(Wildcards(n - 1)) /\ Cardinality(Wildcards(n - 1)) \in Nat
  <2>1. IsFiniteSet(1 .. n - 1)
    BY <1>1, FS_Interval
  <2>2. Wildcards(n - 1) \in SUBSET (1 .. n - 1)
    BY DEF Wildcards
  <2> QED
    BY <2>1, <2>2, FS_Subset, FS_CardinalityType
<1>3. \A m \in 1 .. n : m \in 1 .. n - 1 \/ m = n
  BY <1>1
<1>4. \A m \in 1 .. n - 1 : m \in 1 .. n
  BY <1>1
<1>5. ASSUME Wild(n)
      PROVE  /\ n \in Wildcards(Size)
             /\ Cardinality(Wildcards(n)) = Cardinality(Wildcards(n - 1)) + 1
  <2>1. n \in Wildcards(Size)
    BY <1>1, <1>5 DEF Wildcards, Wild, Compares
  <2>2. Wildcards(n) = Wildcards(n - 1) \cup {n}
    <3>1. n \in 1 .. n
      BY <1>1
    <3> QED
      BY <1>3, <1>4, <1>5, <3>1 DEF Wildcards, Wild, Compares
  <2>3. n \notin Wildcards(n - 1)
    BY <1>1 DEF Wildcards
  <2> QED
    BY <1>2, <2>1, <2>2, <2>3, FS_AddElement
<1>6. ASSUME ~Wild(n)
      PROVE  Wildcards(n) = Wildcards(n - 1)
  BY <1>3, <1>4, <1>6 DEF Wildcards, Wild, Compares
<1> QED
  BY <1>2, <1>5, <1>6

(* An evaluation comes to a node with the number of wildcards before it,   *)
(* unless there is none left.                                              *)
Reached(n, k) == k \in Nat /\ (k = Cardinality(Wildcards(n - 1)) \/ Wildcards(Size) \subseteq 1 .. n - 1)

LEMMA ReachedBehind ==
  ASSUME IsQuery(query), NEW n \in Node, NEW k, Reached(n, k)
  PROVE  /\ ~Wild(n) => Reached(n + 1, k)
         /\ Wild(n) => k + 1 = Cardinality(Wildcards(n)) /\ Reached(n + 1, k + 1)
<1>1. Size \in Nat /\ n \in 1 .. Size /\ n + 1 - 1 = n
  BY NodeFacts
<1>2. k \in Nat /\ (k = Cardinality(Wildcards(n - 1)) \/ Wildcards(Size) \subseteq 1 .. n - 1)
  BY DEF Reached
<1>3. ASSUME ~Wild(n)
      PROVE  Reached(n + 1, k)
  <2>1. Wildcards(n) = Wildcards(n - 1)
    BY <1>3, WildcardFacts
  <2>2. 1 .. n - 1 \subseteq 1 .. n
    BY <1>1
  <2> QED
    BY <1>1, <1>2, <2>1, <2>2 DEF Reached
<1>4. ASSUME Wild(n)
      PROVE  k + 1 = Cardinality(Wildcards(n)) /\ Reached(n + 1, k + 1)
  <2>1. n \in Wildcards(Size) /\ Cardinality(Wildcards(n)) = Cardinality(Wildcards(n - 1)) + 1
    BY <1>4, WildcardFacts
  <2>2. n \notin 1 .. n - 1
    BY <1>1
  <2>3. k = Cardinality(Wildcards(n - 1))
    BY <1>2, <2>1, <2>2
  <2>4. k + 1 = Cardinality(Wildcards(n)) /\ k + 1 \in Nat
    BY <1>2, <2>1, <2>3
  <2> QED
    BY <1>1, <2>4 DEF Reached
<1> QED
  BY <1>3, <1>4

(* The last string comparison gives back no parameter that is missed.      *)
LEMMA ReachedLast ==
  ASSUME IsQuery(query), LastIsString, NEW n \in Node, NEW k \in Nat, Wild(n), query.cond[n].string
  PROVE  Reached(n + 1, k)
<1>1. Size \in Nat /\ n \in 1 .. Size /\ n + 1 - 1 = n
  BY NodeFacts
<1>2. n \in Wildcards(Size)
  BY WildcardFacts
<1>3. Wildcards(Size) \subseteq 1 .. n
  <2> SUFFICES ASSUME NEW m \in Wildcards(Size), m \notin 1 .. n
               PROVE  FALSE
    OBVIOUS
  <2>1. m \in 1 .. Size
    BY DEF Wildcards
  <2>2. n < m
    BY <1>1, <2>1
  <2> QED
    BY <1>2, <2>2 DEF LastIsString, Size
<1> QED
  BY <1>1, <1>3 DEF Reached

-----------------------------------------------------------------------------
(* What is found out early is what a full row would give: the rows that    *)
(* are known are those of the full row.                                    *)
Agrees(rs, tot) == \A t \in Table : rs[t] # Invalid => rs[t] = tot[t]
Whole(rs) == \A t \in Table : rs[t] # Invalid

LEMMA CombinationTyped ==
  ASSUME IsQuery(query), NEW rs \in Combination
  PROVE  /\ rs \in Partial /\ Whole(rs) /\ DOMAIN rs = Table
         /\ \A t \in Table : rs[t] \in 1 .. Len(query.tables[t]) /\ rs[t] \in DOMAIN query.tables[t]
<1>1. DOMAIN rs = Table /\ \A t \in Table : rs[t] \in DOMAIN query.tables[t]
  BY DEF Combination
<1>2. \A t \in Table : rs[t] \in 1 .. Len(query.tables[t]) /\ Len(query.tables[t]) \in Nat
  BY <1>1, TablesTyped
<1>3. \A t \in Table : rs[t] \in Nat /\ rs[t] # Invalid
  BY <1>2 DEF Invalid
<1>4. rs \in [Table -> Nat]
  <2>1. rs = [t \in Table |-> rs[t]]
    BY DEF Combination
  <2> QED
    BY <1>3, <2>1
<1> QED
  BY <1>1, <1>2, <1>3, <1>4 DEF Partial, Whole

LEMMA KnownRaw ==
  ASSUME IsQuery(query), NEW rs \in Partial, NEW tot, Agrees(rs, tot), NEW at \in ColumnsOf(query), Known(at, rs)
  PROVE  Raw(at, rs) = Raw(at, tot)
<1>1. at.table \in Table
  BY ColumnTyped
<1>2. rs[at.table] = tot[at.table]
  BY <1>1 DEF Agrees, Known
<1> QED
  BY <1>2 DEF Raw

(* A leaf that is known means what it means in the full row.               *)
LEMMA LeafAgrees ==
  ASSUME IsQuery(query), NEW n \in Node, ~Inner(n), NEW rs \in Partial, NEW tot, Agrees(rs, tot),
         KnownAt(n, rs), NEW v
  PROVE  LeafMeans(n, rs, v) = LeafMeans(n, tot, v)
<1> DEFINE node == query.cond[n]
<1>1. node.left \in ColumnsOf(query)
  BY NodeFacts
<1>2. Raw(node.left, rs) = Raw(node.left, tot)
  BY <1>1, KnownRaw DEF KnownAt
<1>3. CASE Testing(n)
  BY <1>2, <1>3 DEF Testing, LeafMeans
<1>4. CASE Compares(n)
  <2>1. node.op # "null" /\ node.op # "notnull"
    BY <1>4 DEF Compares, Comparisons
  <2>2. CASE node.right.kind = "column"
    <3>1. node.right.at \in ColumnsOf(query) /\ Known(node.right.at, rs)
      <4>1. node.right \in Operand(query)
        BY <1>4, NodeFacts
      <4> QED
        BY <1>4, <2>2, <4>1, OperandFacts DEF KnownAt
    <3>2. Raw(node.right.at, rs) = Raw(node.right.at, tot)
      BY <3>1, KnownRaw
    <3>3. Compared(node, rs, v) = Compared(node, tot, v)
      BY <1>2, <3>2, <2>2 DEF Compared
    <3> QED
      BY <2>1, <3>3 DEF LeafMeans
  <2>3. CASE node.right.kind # "column"
    <3>1. node.right.kind = "value" \/ node.right.kind = "wildcard"
      BY <1>4, <2>3, NodeFacts, OperandFacts
    <3>2. Compared(node, rs, v) = Compared(node, tot, v)
      BY <1>2, <2>3, <3>1 DEF Compared
    <3> QED
      BY <2>1, <3>2 DEF LeafMeans
  <2> QED
    BY <2>2, <2>3
<1> QED
  BY <1>3, <1>4, NodeFacts

(* Only a wildcard looks at its parameter.                                 *)
LEMMA LeafIgnores ==
  ASSUME IsQuery(query), NEW n \in Node, ~Inner(n), ~Wild(n), NEW rs, NEW v, NEW w
  PROVE  LeafMeans(n, rs, v) = LeafMeans(n, rs, w)
<1> DEFINE node == query.cond[n]
<1>1. CASE Testing(n)
  BY <1>1 DEF Testing, LeafMeans
<1>2. CASE Compares(n)
  <2>1. node.op # "null" /\ node.op # "notnull"
    BY <1>2 DEF Compares, Comparisons
  <2>2. node.right.kind = "column" \/ node.right.kind = "value"
    BY <1>2, NodeFacts, OperandFacts DEF Wild
  <2>3. Compared(node, rs, v) = Compared(node, rs, w)
    BY <2>2 DEF Compared
  <2> QED
    BY <2>1, <2>3 DEF LeafMeans
<1> QED
  BY <1>1, <1>2, NodeFacts

(* An outcome that is right, as far as it goes.                            *)
Sound(o, meaning, whole) ==
  \/ o.r = "success" /\ o.val = meaning
  \/ o.r = "continue" /\ o.val = TRUE /\ ~whole

LEMMA LeafSound ==
  ASSUME IsQuery(query), LastIsString, NEW n \in Node, ~Inner(n), NEW rs \in Partial,
         NEW tot, Agrees(rs, tot), NEW k \in Nat, Reached(n, k)
  PROVE  /\ Sound(EvalLeaf(n, rs, k), LeafMeans(n, tot, Param(Cardinality(Wildcards(n)))), Whole(rs))
         /\ Reached(n + 1, EvalLeaf(n, rs, k).k)
<1> DEFINE m == LeafMeans(n, rs, Param(k + 1))
           o == EvalLeaf(n, rs, k)
           full == LeafMeans(n, tot, Param(Cardinality(Wildcards(n))))
<1> SUFFICES Sound(o, full, Whole(rs)) /\ Reached(n + 1, o.k)
  OBVIOUS
<1>1. Taken(n, k) = (IF Wild(n) THEN k + 1 ELSE k) /\ Taken(n, k) \in Nat
  BY DEF Taken, Wild
<1>2. Reached(n + 1, Taken(n, k))
  BY <1>1, ReachedBehind
<1>3. CASE KnownAt(n, rs)
  <2>1. PICK v \in BOOLEAN : v = m
    BY <1>3, LeafOutcome, Zenon
  <2>2. o = Outcome("success", v, Taken(n, k))
    BY <1>3, <2>1, LeafOutcome, Zenon
  <2>3. PICK j \in Nat : j = Taken(n, k)
    BY <1>1
  <2>4. o.r = "success" /\ o.val = v /\ o.k = j
    <3> HIDE DEF o
    <3> QED
      BY <2>2, <2>3 DEF Outcome
  <2>5. v = full
    <3>1. v = LeafMeans(n, tot, Param(k + 1))
      BY <1>3, <2>1, LeafAgrees, Zenon
    <3>2. Wild(n) => k + 1 = Cardinality(Wildcards(n))
      BY ReachedBehind
    <3>3. ~Wild(n) => LeafMeans(n, tot, Param(k + 1)) = LeafMeans(n, tot, Param(Cardinality(Wildcards(n))))
      BY LeafIgnores, Zenon
    <3> QED
      BY <3>1, <3>2, <3>3, Zenon
  <2> HIDE DEF o, full
  <2> QED
    BY <1>2, <2>3, <2>4, <2>5 DEF Sound
<1>4. CASE ~KnownAt(n, rs)
  <2>1. ~Whole(rs)
    <3>1. query.cond[n].left.table \in Table
      BY NodeFacts, ColumnTyped
    <3>2. Compares(n) /\ query.cond[n].right.kind = "column" => query.cond[n].right.at.table \in Table
      BY NodeFacts, OperandFacts, ColumnTyped
    <3> QED
      BY <1>4, <3>1, <3>2 DEF Whole, KnownAt, Known
  <2>2. PICK j \in Nat : j = IF Testing(n) \/ query.cond[n].string THEN k ELSE Taken(n, k)
    BY <1>1
  <2>3. o = Unknown(j)
    BY <1>4, <2>2, LeafOutcome, Zenon
  <2>4. o.r = "continue" /\ o.val = TRUE /\ o.k = j
    <3> HIDE DEF o
    <3> QED
      BY <2>3 DEF Outcome, Unknown
  <2>5. Reached(n + 1, j)
    <3>1. CASE Wild(n) /\ (Testing(n) \/ query.cond[n].string)
      <4>1. query.cond[n].string /\ Wild(n) /\ j = k
        BY <2>2, <3>1, NodeFacts DEF Wild
      <4> QED
        BY <4>1, ReachedLast
    <3>2. CASE ~(Wild(n) /\ (Testing(n) \/ query.cond[n].string))
      <4>1. j = Taken(n, k)
        BY <1>1, <2>2, <3>2
      <4> QED
        BY <1>2, <4>1
    <3> QED
      BY <3>1, <3>2
  <2> HIDE DEF o, full
  <2> QED
    BY <2>1, <2>4, <2>5 DEF Sound
<1> QED
  BY <1>3, <1>4

LEMMA CombineSound ==
  ASSUME NEW op \in {"and", "or"}, NEW L \in Outcomes, NEW R \in Outcomes,
         NEW left \in BOOLEAN, NEW right \in BOOLEAN, NEW whole \in BOOLEAN,
         Sound(L, left, whole), Sound(R, right, whole)
  PROVE  Sound(Combine(op, L, R), IF op = "and" THEN left /\ right ELSE left \/ right, whole)
<1> DEFINE meaning == IF op = "and" THEN left /\ right ELSE left \/ right
           C == Combine(op, L, R)
<1> SUFFICES Sound(C, meaning, whole)
  OBVIOUS
<1>1. L.val \in BOOLEAN /\ R.val \in BOOLEAN /\ R.k \in Nat
  BY DEF Outcomes
<1>2. PICK k \in Nat : k = R.k
  BY <1>1
<1>3. CASE L.r = "success" /\ R.r = "success"
  <2>1. L.val = left /\ R.val = right
    BY <1>3 DEF Sound
  <2>2. C.r = "success" /\ C.val = IF op = "and" THEN L.val /\ R.val ELSE L.val \/ R.val
    BY <1>3, CombineFacts
  <2> HIDE DEF C
  <2> QED
    BY <2>1, <2>2 DEF Sound
<1>4. CASE L.r = "continue" /\ R.r = "continue"
  <2>1. C = Unknown(k)
    BY <1>2, <1>4, CombineFacts
  <2>2. C.r = "continue" /\ C.val = TRUE
    <3> HIDE DEF C
    <3> QED
      BY <2>1 DEF Outcome, Unknown
  <2>3. ~whole
    BY <1>4 DEF Sound
  <2> HIDE DEF C
  <2> QED
    BY <2>2, <2>3 DEF Sound
<1>5. ASSUME NEW one \in {L, R}, NEW other \in {L, R}, one.r = "success", other.r = "continue",
             NEW mine \in BOOLEAN, one.val = mine,
             op = "and" => (~mine => ~meaning), op = "or" => (mine => meaning)
      PROVE  Sound(C, meaning, whole)
  <2>1. ~whole
    BY <1>5 DEF Sound
  <2>2. IF mine = (op = "or") THEN C = Outcome("success", mine, k) ELSE C = Unknown(k)
    BY <1>2, <1>5, CombineFacts
  <2>3. CASE mine = (op = "or")
    <3>1. C.r = "success" /\ C.val = mine
      <4> HIDE DEF C
      <4> QED
        BY <2>2, <2>3 DEF Outcome
    <3>2. mine = meaning
      BY <1>5, <2>3
    <3> HIDE DEF C, meaning
    <3> QED
      BY <3>1, <3>2 DEF Sound
  <2>4. CASE mine # (op = "or")
    <3>1. C.r = "continue" /\ C.val = TRUE
      <4> HIDE DEF C
      <4> QED
        BY <2>2, <2>4 DEF Outcome, Unknown
    <3> HIDE DEF C, meaning
    <3> QED
      BY <2>1, <3>1 DEF Sound
  <2> QED
    BY <2>3, <2>4
<1>6. CASE L.r = "success" /\ R.r = "continue"
  <2>1. L.val = left
    BY <1>6 DEF Sound
  <2>2. (op = "and" => (~left => ~meaning)) /\ (op = "or" => (left => meaning))
    OBVIOUS
  <2> HIDE DEF C, meaning
  <2> QED
    BY <1>5, <1>6, <2>1, <2>2
<1>7. CASE L.r = "continue" /\ R.r = "success"
  <2>1. R.val = right
    BY <1>7 DEF Sound
  <2>2. (op = "and" => (~right => ~meaning)) /\ (op = "or" => (right => meaning))
    OBVIOUS
  <2> HIDE DEF C, meaning
  <2> QED
    BY <1>5, <1>7, <2>1, <2>2
<1> QED
  BY <1>3, <1>4, <1>6, <1>7 DEF Sound

LEMMA EvaluateTyped ==
  ASSUME IsQuery(query), NEW rs \in Partial
  PROVE  Evaluate(rs) \in Outcomes /\ Evaluate(rs).val \in BOOLEAN
<1>1. PICK g \in [Node -> [Nat -> Outcomes]] :
        Evaluate(rs) = IF Node = {} THEN Outcome("success", TRUE, 0) ELSE g[1][0]
  BY EvaluationExists
<1>2. Node # {} => 1 \in Node
  BY NodeFacts
<1>3. Outcome("success", TRUE, 0) \in Outcomes
  BY DEF Outcome, Outcomes, Result
<1>4. Evaluate(rs) \in Outcomes
  <2>1. 1 \in Node => g[1][0] \in Outcomes
    OBVIOUS
  <2> QED
    BY <1>1, <1>2, <1>3, <2>1, Zenon
<1> QED
  BY <1>4 DEF Outcomes

(* The outcome at every node is right, and the evaluation comes from it to *)
(* the node behind with the right parameter.                               *)
LEMMA NodeSound ==
  ASSUME IsQuery(query), LastIsString, NEW rs \in Partial, NEW tot, Agrees(rs, tot),
         NEW last \in [Node -> Node], IsTree(query.cond, last),
         NEW g \in [Node -> [Nat -> Outcomes]], \A n \in Node, k \in Nat : g[n][k] = EvalNode(g, n, rs, k),
         NEW means \in [Node -> BOOLEAN], \A n \in Node : means[n] = MeansNode(means, n, tot)
  PROVE  \A n \in Node, k \in Nat : Reached(n, k) =>
           Sound(g[n][k], means[n], Whole(rs)) /\ Reached(last[n] + 1, g[n][k].k)
<1> DEFINE Right(n, k) == Sound(g[n][k], means[n], Whole(rs)) /\ Reached(last[n] + 1, g[n][k].k)
           Good == {n \in Node : \A k \in Nat : Reached(n, k) => Right(n, k)}
<1>1. Size \in Nat /\ Node = 1 .. Size
  BY NodeFacts
<1>2. ASSUME NEW n \in 1 .. Size, \A m \in n + 1 .. Size : m \in Good
      PROVE  n \in Good
  <2>1. n \in Node
    BY <1>1
  <2> SUFFICES ASSUME NEW k \in Nat, Reached(n, k)
               PROVE  Right(n, k)
    BY <2>1
  <2>2. CASE ~Inner(n)
    <3>1. g[n][k] = EvalLeaf(n, rs, k) /\ last[n] = n
      BY <2>1, <2>2, TreeFacts DEF EvalNode
    <3>2. means[n] = LeafMeans(n, tot, Param(Cardinality(Wildcards(n))))
      <4>1. query.cond[n].op # "and" /\ query.cond[n].op # "or"
        BY <2>2 DEF Inner
      <4> QED
        BY <2>1, <4>1 DEF MeansNode
    <3>3. /\ Sound(EvalLeaf(n, rs, k), LeafMeans(n, tot, Param(Cardinality(Wildcards(n)))), Whole(rs))
          /\ Reached(n + 1, EvalLeaf(n, rs, k).k)
      BY <2>1, <2>2, LeafSound
    <3> QED
      BY <3>1, <3>2, <3>3
  <2>3. CASE Inner(n)
    <3>1. PICK l \in Node, r \in Node :
            /\ l = query.cond[n].left /\ r = query.cond[n].right /\ l = n + 1 /\ r = last[l] + 1
            /\ last[n] = last[r] /\ l \in n + 1 .. Size /\ r \in n + 1 .. Size
      BY <2>1, <2>3, OperandsBehind, TreeFacts
    <3>2. PICK L \in Outcomes : L = g[l][k]
      OBVIOUS
    <3>3. L.k \in Nat
      BY DEF Outcomes
    <3>4. PICK j \in Nat : j = L.k
      BY <3>3
    <3>5. PICK R \in Outcomes : R = g[r][j]
      OBVIOUS
    <3>6. Reached(l, k)
      <4>1. ~Wild(n)
        BY <2>1, <2>3, NodeFacts DEF Wild
      <4> QED
        BY <2>1, <3>1, <4>1, ReachedBehind
    <3>7. Sound(L, means[l], Whole(rs)) /\ Reached(r, j)
      <4>1. l \in Good
        BY <1>2, <3>1
      <4> QED
        BY <3>1, <3>2, <3>4, <3>6, <4>1
    <3>8. Sound(R, means[r], Whole(rs)) /\ Reached(last[n] + 1, R.k)
      <4>1. r \in Good
        BY <1>2, <3>1
      <4> QED
        BY <3>1, <3>5, <3>7, <4>1
    <3>9. query.cond[n].op \in {"and", "or"}
      BY <2>3 DEF Inner
    <3>10. g[n][k] = Combine(query.cond[n].op, L, R)
      BY <2>1, <2>3, <3>1, <3>2, <3>4, <3>5 DEF EvalNode
    <3>11. means[n] = IF query.cond[n].op = "and" THEN means[l] /\ means[r] ELSE means[l] \/ means[r]
      BY <2>1, <3>1, <3>9 DEF MeansNode
    <3>12. Whole(rs) \in BOOLEAN /\ means[l] \in BOOLEAN /\ means[r] \in BOOLEAN
      BY DEF Whole
    <3>13. Sound(Combine(query.cond[n].op, L, R),
                 IF query.cond[n].op = "and" THEN means[l] /\ means[r] ELSE means[l] \/ means[r], Whole(rs))
      <4>1. PICK a \in BOOLEAN : a = means[l]
        BY <3>12
      <4>2. PICK b \in BOOLEAN : b = means[r]
        BY <3>12
      <4>3. PICK w \in BOOLEAN : w = Whole(rs)
        BY <3>12
      <4>4. Sound(L, a, w) /\ Sound(R, b, w)
        BY <3>7, <3>8, <4>1, <4>2, <4>3
      <4>5. Sound(Combine(query.cond[n].op, L, R), IF query.cond[n].op = "and" THEN a /\ b ELSE a \/ b, w)
        BY <3>9, <4>4, CombineSound
      <4> QED
        BY <4>1, <4>2, <4>3, <4>5
    <3>14. Combine(query.cond[n].op, L, R).k = R.k
      BY <3>9, CombineFacts
    <3> QED
      BY <3>8, <3>10, <3>11, <3>13, <3>14
  <2> QED
    BY <2>2, <2>3
<1>3. \A n \in 1 .. Size : n \in Good
  <2> HIDE DEF Good
  <2> QED
    BY <1>1, <1>2, TreeInduction
<1> QED
  BY <1>1, <1>3

LEMMA EvaluateSound ==
  ASSUME IsQuery(query), LastIsString, NEW rs \in Partial, NEW tot, Agrees(rs, tot)
  PROVE  /\ ~Evaluate(rs).val => ~Satisfies(tot)
         /\ Whole(rs) => (Evaluate(rs).val <=> Satisfies(tot))
<1>1. PICK last \in [Node -> Node] : IsTree(query.cond, last)
  BY DEF IsQuery, Node
<1>2. PICK g \in [Node -> [Nat -> Outcomes]] :
        /\ \A n \in Node, k \in Nat : g[n][k] = EvalNode(g, n, rs, k)
        /\ Evaluate(rs) = IF Node = {} THEN Outcome("success", TRUE, 0) ELSE g[1][0]
  BY EvaluationExists
<1>3. PICK means \in [Node -> BOOLEAN] :
        /\ \A n \in Node : means[n] = MeansNode(means, n, tot)
        /\ Satisfies(tot) <=> (Node # {} => means[1])
  BY MeaningExists
<1>4. CASE Node = {}
  <2>1. Evaluate(rs).val = TRUE
    BY <1>2, <1>4 DEF Outcome
  <2> QED
    BY <1>3, <1>4, <2>1
<1>5. CASE Node # {}
  <2>1. 1 \in Node
    BY <1>5, NodeFacts
  <2>2. Reached(1, 0)
    <3>1. Wildcards(1 - 1) = {}
      BY DEF Wildcards
    <3> QED
      BY <3>1, FS_EmptySet DEF Reached
  <2>3. Sound(g[1][0], means[1], Whole(rs))
    BY <1>1, <1>2, <1>3, <2>1, <2>2, NodeSound
  <2>4. g[1][0] \in Outcomes /\ g[1][0] = Evaluate(rs) /\ (Satisfies(tot) <=> means[1])
    BY <1>2, <1>3, <1>5, <2>1
  <2>5. PICK v \in BOOLEAN : v = Evaluate(rs).val
    BY <2>4 DEF Outcomes
  <2>6. means[1] \in BOOLEAN
    BY <2>1
  <2> QED
    BY <2>3, <2>4, <2>5, <2>6 DEF Sound
<1> QED
  BY <1>4, <1>5

-----------------------------------------------------------------------------
(* The order of the loops: each table is put into it once.                 *)
LEMMA AppendOnce ==
  ASSUME NEW S, NEW a \in Seq(S), NEW t \in S
  PROVE  /\ Append(a, t) \in Seq(S) /\ Range(Append(a, t)) = Range(a) \cup {t}
         /\ IsInjective(a) /\ t \notin Range(a) => IsInjective(Append(a, t))
<1>1. PICK n \in Nat : n = Len(a)
  BY LenProperties
<1>2. DOMAIN a = 1 .. n
  BY <1>1, LenProperties
<1>3. PICK b : b = Append(a, t)
  OBVIOUS
<1>4. /\ b \in Seq(S) /\ DOMAIN b = 1 .. n + 1 /\ b[n + 1] = t
      /\ \A i \in 1 .. n : b[i] = a[i]
  BY <1>1, <1>2, <1>3, AppendProperties, LenProperties
<1>5. 1 .. n + 1 = 1 .. n \cup {n + 1} /\ n + 1 \notin 1 .. n
  OBVIOUS
<1>6. Range(b) = Range(a) \cup {t}
  BY <1>2, <1>4, <1>5 DEF Range
<1>7. ASSUME IsInjective(a), t \notin Range(a)
      PROVE  IsInjective(b)
  <2>1. \A i \in 1 .. n : a[i] # t
    BY <1>2, <1>7 DEF Range
  <2>2. \A i, j \in 1 .. n : a[i] = a[j] => i = j
    BY <1>2, <1>7 DEF IsInjective
  <2>3. \A i, j \in 1 .. n + 1 : b[i] = b[j] => i = j
    BY <1>4, <1>5, <2>1, <2>2
  <2> QED
    BY <1>4, <2>3 DEF IsInjective
<1> QED
  BY <1>3, <1>4, <1>6, <1>7

LEMMA AddedTyped ==
  ASSUME NEW S, NEW a \in Seq(S), NEW t \in S
  PROVE  /\ Added(a, t) \in Seq(S) /\ Range(Added(a, t)) = Range(a) \cup {t}
         /\ IsInjective(a) => IsInjective(Added(a, t))
<1>1. CASE t \in Range(a)
  BY <1>1 DEF Added
<1>2. CASE t \notin Range(a)
  <2>1. Added(a, t) = Append(a, t)
    BY <1>2 DEF Added
  <2> QED
    BY <1>2, <2>1, AppendOnce
<1> QED
  BY <1>1, <1>2

Arrays == {a \in Seq(Table) : IsInjective(a)}

(* While no table was seen outside the array, the sum is one of joins.     *)
Clean(s) == s.last = Invalid => \E j \in Nat : s.res = JoinToConst * j
CleanState == {s \in State : s.array \in Arrays /\ Clean(s)}

(* What reorder_check does with a leaf.                                    *)
CheckLeaf(n, s, joins) ==
  IF Testing(n) THEN Noted(Visited(s, query.cond[n].left), joins)
  ELSE Noted(Visited(IF query.cond[n].right.kind = "column" THEN Visited(s, query.cond[n].right.at) ELSE s,
                     query.cond[n].left), joins)
CheckNode(later, n, s, joins) ==
  IF Inner(n)
  THEN LET R == later[query.cond[n].right][[s EXCEPT !.res = 0]]
           L == later[query.cond[n].left][[R EXCEPT !.res = 0]] IN
       Noted([L EXCEPT !.res = @ + R.res], joins)
  ELSE CheckLeaf(n, s, joins)

LEMMA StateTyped ==
  ASSUME NEW s \in State
  PROVE  /\ s.array \in Seq(Table \cup {Invalid}) /\ s.last \in Table \cup {Invalid} /\ s.res \in Nat
         /\ s = [array |-> s.array, last |-> s.last, res |-> s.res]
         /\ \A k : [s EXCEPT !.res = k] = [array |-> s.array, last |-> s.last, res |-> k]
         /\ \A k \in Nat : [s EXCEPT !.res = k] \in State
BY DEF State

LEMMA VisitedTyped ==
  ASSUME IsQuery(query), NEW s \in State, NEW at \in ColumnsOf(query)
  PROVE  /\ Visited(s, at) \in State
         /\ Visited(s, at).last = Invalid => s.last = Invalid
         /\ s \in CleanState => Visited(s, at) \in CleanState
<1>1. at.table \in Table /\ at.table # Invalid
  BY ColumnTyped
<1>2. PICK v : v = Visited(s, at)
  OBVIOUS
<1>3. PICK r \in Nat : r = s.res
  BY StateTyped
<1>4. CASE at.table \in Range(s.array)
  <2>1. v = [array |-> s.array, last |-> s.last, res |-> r + JoinToConst]
    BY <1>2, <1>3, <1>4 DEF Visited, State
  <2>2. v \in State
    BY <2>1, StateTyped DEF State, JoinToConst
  <2>3. ASSUME s \in CleanState
        PROVE  v \in CleanState
    <3>1. s.array \in Arrays /\ Clean(s)
      BY <2>3 DEF CleanState
    <3>2. ASSUME v.last = Invalid
          PROVE  \E j \in Nat : v.res = JoinToConst * j
      <4>1. s.last = Invalid /\ v.res = r + JoinToConst
        BY <2>1, <3>2
      <4>2. PICK j \in Nat : r = JoinToConst * j
        BY <1>3, <3>1, <4>1 DEF Clean
      <4>3. v.res = JoinToConst * (j + 1)
        BY <4>1, <4>2 DEF JoinToConst
      <4> QED
        BY <4>3
    <3> QED
      BY <2>1, <2>2, <3>1, <3>2 DEF CleanState, Clean
  <2> QED
    BY <1>2, <2>1, <2>2, <2>3
<1>5. CASE at.table \notin Range(s.array)
  <2>1. v = [array |-> s.array, last |-> at.table, res |-> r + Const]
    BY <1>2, <1>3, <1>5 DEF Visited, State
  <2>2. v \in State
    BY <1>1, <2>1, StateTyped DEF State, Const
  <2>3. s \in CleanState => v \in CleanState
    BY <1>1, <2>1, <2>2 DEF CleanState, Clean
  <2> QED
    BY <1>1, <1>2, <2>1, <2>2, <2>3
<1> QED
  BY <1>4, <1>5

LEMMA NotedTyped ==
  ASSUME NEW s \in State, NEW joins \in BOOLEAN
  PROVE  /\ Noted(s, joins) \in State
         /\ Noted(s, joins).last = s.last
         /\ s \in CleanState => Noted(s, joins) \in CleanState
<1>1. CASE ~(s.res = Const \/ (joins /\ s.res = JoinToConst + Const))
  <2>1. Noted(s, joins) = s
    BY <1>1 DEF Noted
  <2> QED
    BY <2>1
<1>2. CASE s.res = Const \/ (joins /\ s.res = JoinToConst + Const)
  <2>1. PICK v : v = Noted(s, joins)
    OBVIOUS
  <2>2. PICK a : a = Added(s.array, s.last)
    OBVIOUS
  <2>3. v = [array |-> a, last |-> s.last, res |-> s.res]
    BY <1>2, <2>1, <2>2 DEF Noted, State
  <2>4. a \in Seq(Table \cup {Invalid})
    BY <2>2, StateTyped, AddedTyped
  <2>5. v \in State
    BY <2>3, <2>4, StateTyped DEF State
  <2>6. ASSUME s \in CleanState
        PROVE  v \in CleanState
    <3>1. s.array \in Seq(Table) /\ IsInjective(s.array) /\ Clean(s)
      BY <2>6 DEF CleanState, Arrays
    <3>2. s.last # Invalid
      <4>1. \A j \in Nat : JoinToConst * j # Const /\ JoinToConst * j # JoinToConst + Const
        BY DEF JoinToConst, Const
      <4> QED
        BY <1>2, <3>1, <4>1 DEF Clean
    <3>3. s.last \in Table
      BY <3>2, StateTyped
    <3>4. a \in Arrays
      BY <2>2, <3>1, <3>3, AddedTyped DEF Arrays
    <3> QED
      BY <2>3, <2>5, <3>2, <3>4 DEF CleanState, Clean
  <2> QED
    BY <2>1, <2>3, <2>5, <2>6
<1> QED
  BY <1>1, <1>2

LEMMA CheckLeafTyped ==
  ASSUME IsQuery(query), NEW n \in Node, ~Inner(n), NEW s \in State, NEW joins \in BOOLEAN
  PROVE  /\ CheckLeaf(n, s, joins) \in State
         /\ CheckLeaf(n, s, joins).last = Invalid => s.last = Invalid
         /\ s \in CleanState => CheckLeaf(n, s, joins) \in CleanState
<1>1. query.cond[n].left \in ColumnsOf(query)
  BY NodeFacts
<1> DEFINE first == IF ~Testing(n) /\ query.cond[n].right.kind = "column" THEN Visited(s, query.cond[n].right.at) ELSE s
<1>2. /\ first \in State
      /\ first.last = Invalid => s.last = Invalid
      /\ s \in CleanState => first \in CleanState
  <2>1. CASE ~Testing(n) /\ query.cond[n].right.kind = "column"
    <3>1. query.cond[n].right.at \in ColumnsOf(query)
      BY <2>1, NodeFacts, OperandFacts
    <3> QED
      BY <2>1, <3>1, VisitedTyped
  <2>2. CASE ~(~Testing(n) /\ query.cond[n].right.kind = "column")
    BY <2>2
  <2> QED
    BY <2>1, <2>2
<1>3. CheckLeaf(n, s, joins) = Noted(Visited(first, query.cond[n].left), joins)
  BY DEF CheckLeaf
<1> HIDE DEF first
<1> DEFINE second == Visited(first, query.cond[n].left)
<1>4. /\ second \in State
      /\ second.last = Invalid => first.last = Invalid
      /\ first \in CleanState => second \in CleanState
  BY <1>1, <1>2, VisitedTyped
<1> HIDE DEF second
<1>5. /\ Noted(second, joins) \in State
      /\ Noted(second, joins).last = second.last
      /\ second \in CleanState => Noted(second, joins) \in CleanState
  BY <1>4, NotedTyped
<1>6. CheckLeaf(n, s, joins) = Noted(second, joins)
  BY <1>3 DEF second
<1> QED
  BY <1>2, <1>4, <1>5, <1>6

LEMMA ResetTyped ==
  ASSUME NEW s \in State
  PROVE  /\ [s EXCEPT !.res = 0] \in State /\ [s EXCEPT !.res = 0].last = s.last
         /\ s \in CleanState => [s EXCEPT !.res = 0] \in CleanState
<1>1. PICK v : v = [s EXCEPT !.res = 0]
  OBVIOUS
<1>2. v = [array |-> s.array, last |-> s.last, res |-> 0] /\ v \in State
  BY <1>1, StateTyped
<1>3. \E j \in Nat : 0 = JoinToConst * j
  <2>1. 0 = JoinToConst * 0
    BY DEF JoinToConst
  <2> QED
    BY <2>1
<1>4. s \in CleanState => v \in CleanState
  BY <1>2, <1>3 DEF CleanState, Clean
<1> QED
  BY <1>1, <1>2, <1>4

LEMMA SumTyped ==
  ASSUME NEW L \in State, NEW R \in State
  PROVE  /\ [L EXCEPT !.res = @ + R.res] \in State /\ [L EXCEPT !.res = @ + R.res].last = L.last
         /\ L \in CleanState /\ R \in CleanState /\ (L.last = Invalid => R.last = Invalid)
              => [L EXCEPT !.res = @ + R.res] \in CleanState
<1>1. PICK v : v = [L EXCEPT !.res = @ + R.res]
  OBVIOUS
<1>2. PICK l \in Nat : l = L.res
  BY StateTyped
<1>3. PICK r \in Nat : r = R.res
  BY StateTyped
<1>4. v = [array |-> L.array, last |-> L.last, res |-> l + r]
  BY <1>1, <1>2, <1>3 DEF State
<1>5. v \in State
  BY <1>4, StateTyped DEF State
<1>6. ASSUME L \in CleanState, R \in CleanState, L.last = Invalid => R.last = Invalid
      PROVE  v \in CleanState
  <2>1. L.array \in Arrays /\ Clean(L) /\ Clean(R)
    BY <1>6 DEF CleanState
  <2>2. ASSUME v.last = Invalid
        PROVE  \E j \in Nat : v.res = JoinToConst * j
    <3>1. L.last = Invalid /\ R.last = Invalid
      BY <1>4, <1>6, <2>2
    <3>2. PICK i \in Nat : l = JoinToConst * i
      BY <1>2, <2>1, <3>1 DEF Clean
    <3>3. PICK j \in Nat : r = JoinToConst * j
      BY <1>3, <2>1, <3>1 DEF Clean
    <3>4. v.res = JoinToConst * (i + j)
      BY <1>4, <3>2, <3>3 DEF JoinToConst
    <3> QED
      BY <3>4
  <2> QED
    BY <1>4, <1>5, <2>1, <2>2 DEF CleanState, Clean
<1> QED
  BY <1>1, <1>4, <1>5, <1>6

LEMMA CheckNodeTyped ==
  ASSUME IsQuery(query), NEW n \in Node, NEW joins \in BOOLEAN, NEW later,
         Inner(n) => /\ later[query.cond[n].left] \in [State -> State]
                     /\ later[query.cond[n].right] \in [State -> State],
         NEW s \in State
  PROVE  CheckNode(later, n, s, joins) \in State
<1>1. CASE ~Inner(n)
  BY <1>1, CheckLeafTyped DEF CheckNode
<1>2. CASE Inner(n)
  <2>1. PICK x \in State : x = [s EXCEPT !.res = 0]
    BY ResetTyped
  <2>2. PICK R \in State : R = later[query.cond[n].right][x]
    BY <1>2
  <2>3. PICK y \in State : y = [R EXCEPT !.res = 0]
    BY ResetTyped
  <2>4. PICK L \in State : L = later[query.cond[n].left][y]
    BY <1>2
  <2>5. PICK z \in State : z = [L EXCEPT !.res = @ + R.res]
    BY SumTyped
  <2>6. CheckNode(later, n, s, joins) = Noted(z, joins)
    BY <1>2, <2>1, <2>2, <2>3, <2>4, <2>5 DEF CheckNode
  <2> QED
    BY <2>6, NotedTyped
<1> QED
  BY <1>1, <1>2

LEMMA CheckNodeClean ==
  ASSUME IsQuery(query), NEW n \in Node, Inner(n), NEW joins \in BOOLEAN, NEW later,
         \A m \in {query.cond[n].left, query.cond[n].right} : \A s \in CleanState :
           /\ later[m][s] \in CleanState
           /\ later[m][s].last = Invalid => s.last = Invalid,
         NEW s \in CleanState
  PROVE  /\ CheckNode(later, n, s, joins) \in CleanState
         /\ CheckNode(later, n, s, joins).last = Invalid => s.last = Invalid
<1>0. CleanState \subseteq State
  BY DEF CleanState
<1>1. PICK x \in CleanState : x = [s EXCEPT !.res = 0] /\ x.last = s.last
  BY <1>0, ResetTyped
<1>2. PICK R \in CleanState : R = later[query.cond[n].right][x] /\ (R.last = Invalid => x.last = Invalid)
  OBVIOUS
<1>3. PICK y \in CleanState : y = [R EXCEPT !.res = 0] /\ y.last = R.last
  BY <1>0, ResetTyped
<1>4. PICK L \in CleanState : L = later[query.cond[n].left][y] /\ (L.last = Invalid => y.last = Invalid)
  OBVIOUS
<1>5. PICK z \in CleanState : z = [L EXCEPT !.res = @ + R.res] /\ z.last = L.last
  <2>1. L \in State /\ R \in State /\ (L.last = Invalid => R.last = Invalid)
    BY <1>0, <1>3, <1>4
  <2> QED
    BY <2>1, SumTyped
<1>6. CheckNode(later, n, s, joins) = Noted(z, joins)
  BY <1>1, <1>2, <1>3, <1>4, <1>5 DEF CheckNode
<1>7. z \in State
  BY <1>0
<1>8. Noted(z, joins) \in CleanState /\ Noted(z, joins).last = z.last
  BY <1>7, NotedTyped
<1>9. z.last = Invalid => s.last = Invalid
  BY <1>1, <1>2, <1>3, <1>4, <1>5
<1> QED
  BY <1>6, <1>8, <1>9

LEMMA ReorderTyped ==
  ASSUME IsQuery(query), NEW joins \in BOOLEAN, NEW array \in Arrays
  PROVE  Reorder(array, joins) \in Arrays
<1> DEFINE W == [State -> State]
           Answer(later, n) == [s \in State |-> CheckNode(later, n, s, joins)]
           Turn(g, node, s) ==
             CASE node.op \in {"and", "or"} ->
                    LET R == g[node.right][[s EXCEPT !.res = 0]]
                        L == g[node.left][[R EXCEPT !.res = 0]] IN
                    Noted([L EXCEPT !.res = @ + R.res], joins)
               [] node.op \in {"null", "notnull"} -> Noted(Visited(s, node.left), joins)
               [] OTHER ->
                    LET R == IF node.right.kind = "column" THEN Visited(s, node.right.at) ELSE s IN
                    Noted(Visited(R, node.left), joins)
           IsCheck(g) == g = [n \in Node |-> [s \in State |-> Turn(g, query.cond[n], s)]]
           check == CHOOSE g : IsCheck(g)
           start == [array |-> array, last |-> Invalid, res |-> 0]
           Laters == UNION {[n + 1 .. Size -> W] : n \in 1 .. Size}
           step == [x \in (1 .. Size) \X Laters |-> Answer(x[2], x[1])]
<1>1. Size \in Nat /\ Node = 1 .. Size
  BY NodeFacts
<1>2. ASSUME NEW n \in Node, NEW later, \A m \in n + 1 .. Size : later[m] \in W
      PROVE  Answer(later, n) \in W
  <2>1. Inner(n) => later[query.cond[n].left] \in W /\ later[query.cond[n].right] \in W
    BY <1>2, OperandsBehind
  <2>2. \A s \in State : CheckNode(later, n, s, joins) \in State
    BY <2>1, CheckNodeTyped
  <2> QED
    BY <2>2
<1>3. \A n \in 1 .. Size : \A later \in [n + 1 .. Size -> W] :
        step[<<n, later>>] = Answer(later, n) /\ step[<<n, later>>] \in W
  <2> TAKE n \in 1 .. Size
  <2> TAKE later \in [n + 1 .. Size -> W]
  <2>1. later \in Laters
    OBVIOUS
  <2>2. step[<<n, later>>] = Answer(later, n)
    <3> HIDE DEF Answer, Laters
    <3> QED
      BY <2>1
  <2>3. Answer(later, n) \in W
    <3> HIDE DEF Answer, W
    <3> QED
      BY <1>1, <1>2
  <2> HIDE DEF step, Answer
  <2> QED
    BY <2>2, <2>3
<1> HIDE DEF step, W, Answer
<1>0. ASSUME NEW h, NEW n \in Node
      PROVE  [s \in State |-> Turn(h, query.cond[n], s)] = Answer(h, n)
  <2>1. ASSUME NEW s \in State
        PROVE  Turn(h, query.cond[n], s) = CheckNode(h, n, s, joins)
    <3>1. CASE Inner(n)
      <4>1. query.cond[n].op \in {"and", "or"} /\ query.cond[n].op \notin {"null", "notnull"}
        BY <3>1, NodeFacts DEF Inner, Testing
      <4> QED
        BY <3>1, <4>1 DEF CheckNode
    <3>2. CASE Testing(n)
      <4>1. query.cond[n].op \notin {"and", "or"} /\ query.cond[n].op \in {"null", "notnull"} /\ ~Inner(n)
        BY <3>2, NodeFacts DEF Inner, Testing
      <4> QED
        BY <3>2, <4>1 DEF CheckNode, CheckLeaf
    <3>3. CASE ~Inner(n) /\ ~Testing(n)
      <4>1. query.cond[n].op \notin {"and", "or"} /\ query.cond[n].op \notin {"null", "notnull"}
        BY <3>3 DEF Inner, Testing
      <4> QED
        BY <3>3, <4>1 DEF CheckNode, CheckLeaf
    <3> QED
      BY <3>1, <3>2, <3>3
  <2> HIDE DEF Turn
  <2> QED
    BY <2>1 DEF Answer
<1>4. PICK g \in TreesOf(1, Size, W, step) : TRUE
  BY <1>1, <1>3, TreeExists
<1>5. g \in [1 .. Size -> W] /\ \A n \in 1 .. Size : g[n] = step[<<n, After(g, n, Size)>>]
  BY <1>4 DEF TreesOf
<1>6. ASSUME NEW n \in Node, NEW h
      PROVE  Answer(After(h, n, Size), n) = Answer(h, n)
  <2>1. CASE ~Inner(n)
    BY <2>1 DEF Answer, CheckNode
  <2>2. CASE Inner(n)
    <3>1. /\ After(h, n, Size)[query.cond[n].left] = h[query.cond[n].left]
          /\ After(h, n, Size)[query.cond[n].right] = h[query.cond[n].right]
      BY <2>2, OperandsBehind DEF After
    <3> QED
      BY <2>2, <3>1 DEF Answer, CheckNode
  <2> QED
    BY <2>1, <2>2
<1>7. IsCheck(g)
  <2>1. ASSUME NEW n \in Node
        PROVE  g[n] = Answer(g, n)
    <3>1. After(g, n, Size) \in [n + 1 .. Size -> W]
      <4>1. \A m \in n + 1 .. Size : g[m] \in W
        BY <1>1, <1>5
      <4> QED
        BY <4>1 DEF After
    <3>2. g[n] = Answer(After(g, n, Size), n)
      BY <1>1, <1>3, <1>5, <3>1
    <3> QED
      BY <1>6, <3>2
  <2>2. g = [n \in Node |-> Answer(g, n)]
    BY <1>1, <1>5, <2>1
  <2> HIDE DEF Turn
  <2> QED
    BY <1>0, <2>2
<1>8. IsCheck(check)
  <2> HIDE DEF IsCheck
  <2> QED
    BY <1>7
<1>9. Reorder(array, joins) = IF Node = {} THEN array ELSE check[1][start].array
  BY Zenon DEF Reorder
<1>10. /\ DOMAIN check = Node /\ check = [n \in Node |-> check[n]]
       /\ \A n \in Node : check[n] = Answer(check, n)
  <2> HIDE DEF Turn, check
  <2> QED
    BY <1>0, <1>8
<1> HIDE DEF check
<1> DEFINE Good == {n \in Node : \A s \in CleanState :
                      check[n][s] \in CleanState /\ (check[n][s].last = Invalid => s.last = Invalid)}
<1>11. ASSUME NEW n \in 1 .. Size, \A m \in n + 1 .. Size : m \in Good
       PROVE  n \in Good
  <2> SUFFICES ASSUME NEW s \in CleanState
               PROVE  /\ CheckNode(check, n, s, joins) \in CleanState
                      /\ CheckNode(check, n, s, joins).last = Invalid => s.last = Invalid
    <3>1. \A s \in CleanState : check[n][s] = CheckNode(check, n, s, joins)
      BY <1>1, <1>10 DEF Answer, CleanState
    <3> QED
      BY <1>1, <3>1
  <2>1. CASE ~Inner(n)
    BY <1>1, <2>1, CheckLeafTyped DEF CheckNode, CleanState
  <2>2. CASE Inner(n)
    <3>1. \A m \in {query.cond[n].left, query.cond[n].right} : m \in Good
      BY <1>1, <1>11, <2>2, OperandsBehind
    <3>2. \A m \in {query.cond[n].left, query.cond[n].right} : \A x \in CleanState :
            /\ check[m][x] \in CleanState
            /\ check[m][x].last = Invalid => x.last = Invalid
      BY <3>1, Zenon
    <3> QED
      BY <1>1, <2>2, <3>2, CheckNodeClean
  <2> QED
    BY <2>1, <2>2
<1>12. \A n \in 1 .. Size : n \in Good
  <2> HIDE DEF Good
  <2> QED
    BY <1>1, <1>11, TreeInduction
<1>13. start \in CleanState
  <2>1. array \in Seq(Table \cup {Invalid})
    BY SeqMonotonic DEF Arrays
  <2>2. start \in State
    BY <2>1 DEF State
  <2>3. 0 = JoinToConst * 0
    BY DEF JoinToConst
  <2> QED
    BY <2>2, <2>3 DEF CleanState, Clean
<1>14. CASE Node = {}
  BY <1>9, <1>14
<1>15. CASE Node # {}
  <2>1. 1 \in Good
    BY <1>1, <1>12, <1>15
  <2>2. check[1][start] \in CleanState
    BY <1>13, <2>1, Zenon
  <2> HIDE DEF start
  <2> QED
    BY <1>9, <1>15, <2>2 DEF CleanState
<1> QED
  BY <1>14, <1>15

(* Every table has its loop, and only one.                                 *)
LEMMA OrderTyped ==
  ASSUME IsQuery(query)
  PROVE  OrderTables \in Arrays /\ Range(OrderTables) = Table
<1> DEFINE N == Len(query.tables)
           base == Reorder(Reorder(<<>>, FALSE), TRUE)
           IsAll(g) == g = [i \in 0 .. N |-> IF i = 0 THEN base ELSE Added(g[i - 1], N + 1 - i)]
           all == CHOOSE g : IsAll(g)
           step == [x \in Arrays \X (1 .. N) |-> Added(x[1], N + 1 - x[2])]
<1>1. N \in Nat \ {0} /\ Table = 1 .. N
  BY TablesTyped
<1>2. base \in Arrays
  <2>1. <<>> \in Arrays
    BY EmptySeq DEF Arrays, IsInjective
  <2> QED
    BY <2>1, ReorderTyped
<1>3. OrderTables = all[N]
  BY Zenon DEF OrderTables
<1> HIDE DEF N, base
<1>4. ASSUME NEW a \in Arrays, NEW i \in 1 .. N
      PROVE  /\ Added(a, N + 1 - i) \in Arrays
             /\ Range(Added(a, N + 1 - i)) = Range(a) \cup {N + 1 - i}
             /\ step[<<a, i>>] = Added(a, N + 1 - i)
  <2>1. N + 1 - i \in Table
    BY <1>1
  <2>2. a \in Seq(Table) /\ IsInjective(a)
    BY DEF Arrays
  <2>3. Added(a, N + 1 - i) \in Arrays /\ Range(Added(a, N + 1 - i)) = Range(a) \cup {N + 1 - i}
    BY <2>1, <2>2, AddedTyped DEF Arrays
  <2> QED
    BY <2>3
<1> HIDE DEF step
<1>5. PICK g \in LoopsOf(N, Arrays, base, step) : TRUE
  BY <1>1, <1>2, <1>4, LoopExists
<1>6. IsAll(g)
  <2>1. g \in [0 .. N -> Arrays] /\ g[0] = base /\ \A i \in 1 .. N : g[i] = step[<<g[i - 1], i>>]
    BY <1>5 DEF LoopsOf
  <2>2. ASSUME NEW i \in 0 .. N
        PROVE  g[i] = IF i = 0 THEN base ELSE Added(g[i - 1], N + 1 - i)
    <3>1. CASE i = 0
      BY <2>1, <3>1
    <3>2. CASE i # 0
      <4>1. i \in 1 .. N /\ i - 1 \in 0 .. N
        BY <1>1, <3>2
      <4> QED
        BY <1>4, <2>1, <3>2, <4>1
    <3> QED
      BY <3>1, <3>2
  <2> QED
    BY <2>1, <2>2
<1>7. IsAll(all)
  <2> HIDE DEF IsAll
  <2> QED
    BY <1>6
<1>8. all[0] = base /\ \A i \in 1 .. N : all[i] = Added(all[i - 1], N + 1 - i)
  <2> HIDE DEF all
  <2>1. \A i \in 0 .. N : all[i] = IF i = 0 THEN base ELSE Added(all[i - 1], N + 1 - i)
    BY <1>7
  <2> QED
    BY <1>1, <2>1
<1> HIDE DEF all
<1> DEFINE Good == {i \in 0 .. N : all[i] \in Arrays /\ \A j \in 1 .. i : N + 1 - j \in Range(all[i])}
<1>9. 0 \in Good
  BY <1>1, <1>2, <1>8
<1>10. ASSUME NEW i \in 1 .. N, i - 1 \in Good
       PROVE  i \in Good
  <2>1. all[i - 1] \in Arrays /\ \A j \in 1 .. i - 1 : N + 1 - j \in Range(all[i - 1])
    BY <1>10
  <2>2. all[i] \in Arrays /\ Range(all[i]) = Range(all[i - 1]) \cup {N + 1 - i}
    BY <1>4, <1>8, <2>1
  <2>3. \A j \in 1 .. i : j \in 1 .. i - 1 \/ j = i
    OBVIOUS
  <2> QED
    BY <2>1, <2>2, <2>3
<1>11. \A i \in 0 .. N : i \in Good
  <2> HIDE DEF Good
  <2> QED
    BY <1>1, <1>9, <1>10, UpToLast
<1>12. all[N] \in Arrays /\ \A j \in 1 .. N : N + 1 - j \in Range(all[N])
  <2>1. N \in Good
    BY <1>1, <1>11
  <2> QED
    BY <2>1
<1>13. \A t \in Table : t \in Range(all[N])
  <2> TAKE t \in Table
  <2>1. PICK j \in 1 .. N : N + 1 - j = t
    <3>1. N + 1 - t \in 1 .. N /\ N + 1 - (N + 1 - t) = t
      BY <1>1
    <3> QED
      BY <3>1
  <2> QED
    BY <1>12, <2>1
<1>14. Range(all[N]) \subseteq Table
  <2>1. all[N] \in Seq(Table)
    BY <1>12 DEF Arrays
  <2> QED
    BY <2>1, RangeOfSeq DEF Range
<1> QED
  BY <1>3, <1>12, <1>13, <1>14

-----------------------------------------------------------------------------
(* The loops: those that run are at a row of their table, or behind the    *)
(* last if they are the innermost.                                         *)
LoopsInv ==
  /\ phase \in {"start", "loops", "done"}
  /\ ordered \in Arrays /\ (phase = "loops" => Range(ordered) = Table)
  /\ level \in 0 .. Len(ordered) /\ (phase # "loops" => level = 0)
  /\ rows \in [Table -> Nat]
  /\ \A t \in Table : rows[t] <= Len(query.tables[t]) + 1
  /\ \A t \in Table : rows[t] # Invalid <=> \E i \in 1 .. level : ordered[i] = t
  /\ \A i \in 1 .. level - 1 : rows[ordered[i]] <= Len(query.tables[ordered[i]])
  /\ found \in Seq([Table -> Nat])

LEMMA ArrayFacts ==
  ASSUME NEW a \in Arrays
  PROVE  /\ Len(a) \in Nat /\ DOMAIN a = 1 .. Len(a) /\ a \in Seq(Table)
         /\ \A i \in 1 .. Len(a) : a[i] \in Table
         /\ \A i, j \in 1 .. Len(a) : a[i] = a[j] => i = j
         /\ \A t \in Range(a) : \E i \in 1 .. Len(a) : a[i] = t
<1>1. a \in Seq(Table) /\ IsInjective(a)
  BY DEF Arrays
<1>2. Len(a) \in Nat /\ DOMAIN a = 1 .. Len(a) /\ \A i \in 1 .. Len(a) : a[i] \in Table
  BY <1>1, LenProperties, ElementOfSeq
<1>3. \A i, j \in 1 .. Len(a) : a[i] = a[j] => i = j
  BY <1>1, <1>2 DEF IsInjective
<1>4. \A t \in Range(a) : \E i \in 1 .. Len(a) : a[i] = t
  BY <1>2 DEF Range
<1> QED
  BY <1>1, <1>2, <1>3, <1>4

LEMMA OrderedFacts ==
  ASSUME IsQuery(query), LoopsInv
  PROVE  /\ Len(ordered) \in Nat /\ level \in Nat /\ level <= Len(ordered)
         /\ \A i \in 1 .. Len(ordered) : ordered[i] \in Table
         /\ \A i, j \in 1 .. Len(ordered) : ordered[i] = ordered[j] => i = j
         /\ phase = "loops" => \A t \in Table : \E i \in 1 .. Len(ordered) : ordered[i] = t
         /\ \A i \in 1 .. level : i \in 1 .. Len(ordered) /\ rows[ordered[i]] \in Nat /\ rows[ordered[i]] # Invalid
         /\ level > 0 => level \in 1 .. Len(ordered) /\ Current \in Table /\ rows[Current] \in Nat
<1>1. ordered \in Arrays /\ level \in 0 .. Len(ordered) /\ rows \in [Table -> Nat]
  BY DEF LoopsInv
<1>2. /\ Len(ordered) \in Nat /\ \A i \in 1 .. Len(ordered) : ordered[i] \in Table
      /\ \A i, j \in 1 .. Len(ordered) : ordered[i] = ordered[j] => i = j
      /\ \A t \in Range(ordered) : \E i \in 1 .. Len(ordered) : ordered[i] = t
  BY <1>1, ArrayFacts
<1>3. level \in Nat /\ level <= Len(ordered) /\ \A i \in 1 .. level : i \in 1 .. Len(ordered)
  BY <1>1, <1>2
<1>4. \A i \in 1 .. level : rows[ordered[i]] \in Nat /\ rows[ordered[i]] # Invalid
  <2>1. \A i \in 1 .. level : ordered[i] \in Table /\ \E j \in 1 .. level : ordered[j] = ordered[i]
    BY <1>2, <1>3
  <2> QED
    BY <1>1, <2>1 DEF LoopsInv
<1>5. phase = "loops" => Range(ordered) = Table
  BY DEF LoopsInv
<1>6. level > 0 => level \in 1 .. Len(ordered) /\ Current \in Table /\ rows[Current] \in Nat
  BY <1>1, <1>2, <1>3 DEF Current
<1> QED
  BY <1>2, <1>3, <1>4, <1>5, <1>6

LEMMA SameTables ==
  ASSUME query' = query
  PROVE  Table' = Table /\ Arrays' = Arrays /\ Combination' = Combination /\ Nobody' = Nobody
BY DEF Table, Arrays, Combination, Nobody

LEMMA RowsPartial ==
  ASSUME IsQuery(query), LoopsInv, InRange
  PROVE  /\ rows \in Partial
         /\ phase = "loops" /\ level = Len(ordered) => rows \in Combination
<1>1. level > 0 /\ rows[Current] <= Len(query.tables[Current])
  BY DEF InRange
<1>2. ASSUME NEW t \in Table, rows[t] # Invalid
      PROVE  rows[t] \in DOMAIN query.tables[t]
  <2>1. PICK i \in 1 .. level : ordered[i] = t
    BY <1>2 DEF LoopsInv
  <2>2. rows[t] <= Len(query.tables[t])
    <3>1. CASE i = level
      BY <1>1, <2>1, <3>1 DEF Current
    <3>2. CASE i # level
      <4>1. i \in 1 .. level - 1
        BY <3>2, OrderedFacts
      <4> QED
        BY <2>1, <4>1 DEF LoopsInv
    <3> QED
      BY <3>1, <3>2
  <2>3. rows[t] \in Nat
    BY DEF LoopsInv
  <2>4. DOMAIN query.tables[t] = 1 .. Len(query.tables[t]) /\ Len(query.tables[t]) \in Nat
    BY TablesTyped
  <2> QED
    BY <1>2, <2>2, <2>3, <2>4 DEF Invalid
<1>3. rows \in [Table -> Nat]
  BY DEF LoopsInv
<1>4. ASSUME phase = "loops", level = Len(ordered)
      PROVE  rows \in Combination
  <2>1. \A t \in Table : rows[t] # Invalid
    <3>1. \A t \in Table : \E i \in 1 .. level : ordered[i] = t
      BY <1>4, OrderedFacts
    <3> QED
      BY <3>1 DEF LoopsInv
  <2>2. \A t \in Table : rows[t] \in DOMAIN query.tables[t]
    BY <1>2, <2>1
  <2>3. \A t \in Table : rows[t] \in UNION {DOMAIN query.tables[u] : u \in Table}
    BY <2>2
  <2>4. rows = [t \in Table |-> rows[t]]
    BY <1>3
  <2>5. rows \in [Table -> UNION {DOMAIN query.tables[u] : u \in Table}]
    BY <2>3, <2>4
  <2> QED
    BY <2>2, <2>5 DEF Combination
<1> QED
  BY <1>2, <1>3, <1>4 DEF Partial

LEMMA ExecuteTyped ==
  ASSUME IsQuery(query), LoopsInv, Execute
  PROVE  LoopsInv'
<1>1. query' = query /\ phase = "start" /\ found' = <<>>
  BY DEF Execute
<1>2. Table' = Table /\ Arrays' = Arrays
  BY <1>1, SameTables
<1>3. found' \in Seq([Table -> Nat])
  BY <1>1, EmptySeq
<1>4. level = 0
  BY <1>1 DEF LoopsInv
<1>5. CASE phase' = "done" /\ UNCHANGED <<ordered, level, rows>>
  BY <1>1, <1>2, <1>3, <1>4, <1>5 DEF LoopsInv
<1>6. CASE /\ phase' = "loops" /\ ordered' = OrderTables /\ level' = 1
           /\ rows' = [Nobody EXCEPT ![OrderTables[1]] = 1]
  <2>1. ordered' \in Arrays /\ Range(ordered') = Table
    BY <1>6, OrderTyped
  <2>2. /\ Len(ordered') \in Nat /\ \A i \in 1 .. Len(ordered') : ordered'[i] \in Table
        /\ \A t \in Table : \E i \in 1 .. Len(ordered') : ordered'[i] = t
    BY <2>1, ArrayFacts
  <2>3. 1 \in Table
    BY TablesTyped
  <2>4. 1 \in 1 .. Len(ordered') /\ ordered'[1] \in Table
    BY <2>2, <2>3
  <2>5. rows' \in [Table -> Nat] /\ \A t \in Table : rows'[t] = IF t = ordered'[1] THEN 1 ELSE Invalid
    BY <1>6, <2>4 DEF Nobody, Invalid
  <2>6. \A t \in Table : rows'[t] <= Len(query.tables[t]) + 1
    <3>1. \A t \in Table : Len(query.tables[t]) \in Nat
      BY TablesTyped
    <3> QED
      BY <2>5, <3>1 DEF Invalid
  <2>7. \A t \in Table : rows'[t] # Invalid <=> \E i \in 1 .. level' : ordered'[i] = t
    <3>1. 1 .. level' = {1}
      BY <1>6
    <3> QED
      BY <2>5, <3>1 DEF Invalid
  <2>8. 1 .. level' - 1 = {} /\ level' \in 0 .. Len(ordered')
    BY <1>6, <2>2, <2>4
  <2> QED
    BY <1>1, <1>2, <1>3, <1>6, <2>1, <2>5, <2>6, <2>7, <2>8 DEF LoopsInv
<1> QED
  BY <1>5, <1>6 DEF Execute

LEMMA AdvanceTyped ==
  ASSUME IsQuery(query), LoopsInv, InRange, Advance, UNCHANGED <<query, phase, ordered, level>>,
         found' \in Seq([Table -> Nat])
  PROVE  LoopsInv'
<1>1. Table' = Table /\ Arrays' = Arrays
  BY SameTables
<1>2. /\ level > 0 /\ rows[Current] <= Len(query.tables[Current])
      /\ level \in 1 .. Len(ordered) /\ Current \in Table /\ rows[Current] \in Nat
  BY OrderedFacts DEF InRange
<1>3. rows \in [Table -> Nat] /\ \A t \in Table : rows[t] <= Len(query.tables[t]) + 1
  BY DEF LoopsInv
<1>4. rows' \in [Table -> Nat] /\ \A t \in Table : rows'[t] = IF t = Current THEN rows[t] + 1 ELSE rows[t]
  BY <1>2, <1>3 DEF Advance
<1>5. \A t \in Table : rows'[t] <= Len(query.tables[t]) + 1
  <2>1. PICK r \in Nat : r = rows[Current]
    BY <1>2
  <2>2. PICK l \in Nat : l = Len(query.tables[Current])
    BY <1>2, TablesTyped
  <2>3. r + 1 <= l + 1
    BY <1>2, <2>1, <2>2
  <2>4. rows'[Current] <= Len(query.tables[Current]) + 1
    BY <1>2, <1>4, <2>1, <2>2, <2>3
  <2> QED
    BY <1>3, <1>4, <2>4
<1>6. \A t \in Table : rows'[t] # Invalid <=> \E i \in 1 .. level : ordered[i] = t
  <2>1. \E i \in 1 .. level : ordered[i] = Current
    BY <1>2 DEF Current
  <2>2. \A t \in Table : rows[t] # Invalid <=> \E i \in 1 .. level : ordered[i] = t
    BY DEF LoopsInv
  <2>3. rows'[Current] # Invalid
    BY <1>2, <1>4 DEF Invalid
  <2> QED
    BY <1>4, <2>1, <2>2, <2>3
<1>7. ASSUME NEW i \in 1 .. level - 1
      PROVE  rows'[ordered[i]] <= Len(query.tables[ordered[i]])
  <2>1. i \in 1 .. Len(ordered) /\ i # level
    BY <1>2, OrderedFacts
  <2>2. ordered[i] # Current /\ ordered[i] \in Table
    BY <1>2, <2>1, OrderedFacts DEF Current
  <2>3. rows[ordered[i]] <= Len(query.tables[ordered[i]])
    BY DEF LoopsInv
  <2> QED
    BY <1>4, <2>2, <2>3
<1> QED
  BY <1>1, <1>4, <1>5, <1>6, <1>7 DEF LoopsInv

LEMMA DescendTyped ==
  ASSUME IsQuery(query), LoopsInv, Descend
  PROVE  LoopsInv'
<1>1. /\ UNCHANGED <<query, phase, ordered, found>> /\ phase = "loops"
      /\ level < Len(ordered) /\ level' = level + 1 /\ rows' = [rows EXCEPT ![ordered[level + 1]] = 1]
  BY DEF Descend
<1>2. /\ level > 0 /\ rows[Current] <= Len(query.tables[Current])
      /\ level \in 1 .. Len(ordered) /\ Current \in Table /\ rows[Current] \in Nat
      /\ Len(ordered) \in Nat
  BY OrderedFacts DEF InRange, Descend
<1>3. PICK new \in Table : new = ordered[level + 1] /\ level + 1 \in 1 .. Len(ordered)
  <2>1. level + 1 \in 1 .. Len(ordered)
    BY <1>1, <1>2
  <2> QED
    BY <2>1, OrderedFacts
<1>4. rows \in [Table -> Nat] /\ \A t \in Table : rows[t] <= Len(query.tables[t]) + 1
  BY DEF LoopsInv
<1>5. rows' \in [Table -> Nat] /\ \A t \in Table : rows'[t] = IF t = new THEN 1 ELSE rows[t]
  BY <1>1, <1>3, <1>4
<1>6. \A t \in Table : rows'[t] <= Len(query.tables[t]) + 1
  <2>1. \A t \in Table : Len(query.tables[t]) \in Nat
    BY TablesTyped
  <2> QED
    BY <1>4, <1>5, <2>1
<1>7. 1 .. level + 1 = 1 .. level \cup {level + 1}
  BY <1>2
<1>8. \A t \in Table : rows'[t] # Invalid <=> \E i \in 1 .. level' : ordered[i] = t
  <2>1. \A t \in Table : rows[t] # Invalid <=> \E i \in 1 .. level : ordered[i] = t
    BY DEF LoopsInv
  <2> QED
    BY <1>1, <1>3, <1>5, <1>7, <2>1 DEF Invalid
<1>9. ASSUME NEW i \in 1 .. level' - 1
      PROVE  rows'[ordered[i]] <= Len(query.tables[ordered[i]])
  <2>1. i \in 1 .. level /\ i \in 1 .. Len(ordered) /\ i # level + 1
    BY <1>1, <1>2, <1>9
  <2>2. ordered[i] # new /\ ordered[i] \in Table
    BY <1>3, <2>1, OrderedFacts
  <2>3. rows[ordered[i]] <= Len(query.tables[ordered[i]])
    <3>1. CASE i = level
      BY <1>2, <3>1 DEF Current
    <3>2. CASE i # level
      <4>1. i \in 1 .. level - 1
        BY <1>2, <2>1, <3>2
      <4> QED
        BY <4>1 DEF LoopsInv
    <3> QED
      BY <3>1, <3>2
  <2> QED
    BY <1>5, <2>2, <2>3
<1>10. Table' = Table /\ Arrays' = Arrays
  BY <1>1, SameTables
<1>11. level' \in 0 .. Len(ordered)
  BY <1>1, <1>2
<1> QED
  BY <1>1, <1>5, <1>6, <1>8, <1>9, <1>10, <1>11 DEF LoopsInv

LEMMA ReturnTyped ==
  ASSUME IsQuery(query), LoopsInv, Return
  PROVE  LoopsInv'
<1>1. /\ UNCHANGED <<query, phase, ordered, found>> /\ phase = "loops"
      /\ level > 0 /\ level' = level - 1
      /\ rows' = [t \in Table |-> IF level > 1 /\ t = ordered[level - 1] THEN rows[t] + 1
                                  ELSE IF t = Current THEN Invalid ELSE rows[t]]
  BY DEF Return
<1>2. /\ level \in 1 .. Len(ordered) /\ Current \in Table /\ rows[Current] \in Nat
      /\ Len(ordered) \in Nat /\ Current = ordered[level]
  BY <1>1, OrderedFacts DEF Current
<1>3. rows \in [Table -> Nat] /\ \A t \in Table : rows[t] <= Len(query.tables[t]) + 1
  BY DEF LoopsInv
<1>4. rows' \in [Table -> Nat]
  BY <1>1, <1>3 DEF Invalid
<1>5. \A t \in Table : Len(query.tables[t]) \in Nat
  BY TablesTyped
<1>6. ASSUME NEW t \in Table
      PROVE  rows'[t] <= Len(query.tables[t]) + 1
  <2>1. level > 1 /\ t = ordered[level - 1] => rows[t] <= Len(query.tables[t])
    <3>1. level > 1 => level - 1 \in 1 .. level - 1
      BY <1>2
    <3> QED
      BY <3>1 DEF LoopsInv
  <2> QED
    BY <1>1, <1>3, <1>5, <2>1 DEF Invalid
<1>7. ASSUME NEW t \in Table
      PROVE  rows'[t] # Invalid <=> \E i \in 1 .. level' : ordered[i] = t
  <2>1. rows[t] # Invalid <=> \E i \in 1 .. level : ordered[i] = t
    BY DEF LoopsInv
  <2>2. CASE t = Current
    <3>1. ~ \E i \in 1 .. level' : ordered[i] = t
      <4> SUFFICES ASSUME NEW i \in 1 .. level', ordered[i] = t
                   PROVE  FALSE
        OBVIOUS
      <4>1. i \in 1 .. Len(ordered) /\ i # level
        BY <1>1, <1>2
      <4> QED
        BY <1>2, <2>2, <4>1, OrderedFacts
    <3>2. ~(level > 1 /\ t = ordered[level - 1])
      <4>1. level > 1 => level - 1 \in 1 .. level'
        BY <1>1, <1>2
      <4> QED
        BY <3>1, <4>1
    <3> QED
      BY <1>1, <2>2, <3>1, <3>2
  <2>3. CASE t # Current
    <3>1. (\E i \in 1 .. level : ordered[i] = t) <=> \E i \in 1 .. level' : ordered[i] = t
      <4>1. 1 .. level = 1 .. level' \cup {level}
        BY <1>1, <1>2
      <4> QED
        BY <1>2, <2>3, <4>1
    <3>2. rows'[t] # Invalid <=> rows[t] # Invalid
      <4>1. CASE level > 1 /\ t = ordered[level - 1]
        <5>1. rows[t] # Invalid
          <6>1. level - 1 \in 1 .. level
            BY <1>2, <4>1
          <6> QED
            BY <2>1, <4>1, <6>1
        <5>2. rows'[t] = rows[t] + 1 /\ rows[t] \in Nat
          BY <1>1, <1>3, <4>1
        <5> QED
          BY <5>1, <5>2 DEF Invalid
      <4>2. CASE ~(level > 1 /\ t = ordered[level - 1])
        <5>1. rows'[t] = rows[t]
          BY <1>1, <2>3, <4>2
        <5> QED
          BY <5>1
      <4> QED
        BY <4>1, <4>2
    <3> QED
      BY <2>1, <3>1, <3>2
  <2> QED
    BY <2>2, <2>3
<1>8. ASSUME NEW i \in 1 .. level' - 1
      PROVE  rows'[ordered[i]] <= Len(query.tables[ordered[i]])
  <2>1. i \in 1 .. level - 1 /\ i \in 1 .. Len(ordered) /\ i # level /\ i # level - 1
        /\ (level > 1 => level - 1 \in 1 .. Len(ordered))
    BY <1>1, <1>2
  <2>2. ordered[i] # Current /\ ordered[i] \in Table /\ (level > 1 => ordered[i] # ordered[level - 1])
    BY <1>2, <2>1, OrderedFacts
  <2>3. rows[ordered[i]] <= Len(query.tables[ordered[i]])
    BY <2>1 DEF LoopsInv
  <2>4. rows'[ordered[i]] = rows[ordered[i]]
    BY <1>1, <2>2
  <2> QED
    BY <2>3, <2>4
<1>9. Table' = Table /\ Arrays' = Arrays
  BY <1>1, SameTables
<1>10. level' \in 0 .. Len(ordered)
  BY <1>1, <1>2
<1> QED
  BY <1>1, <1>4, <1>6, <1>7, <1>8, <1>9, <1>10 DEF LoopsInv

-----------------------------------------------------------------------------
(* What the loops have been through, as sequences of rows in the order of  *)
(* the loops.                                                              *)
In(rs) == [i \in 1 .. Len(ordered) |-> rs[ordered[i]]]
Below(x, y, l) == l = 0 \/ \E i \in 1 .. l : x[i] < y[i] /\ \A j \in 1 .. i - 1 : x[j] = y[j]

LEMMA BelowAdvance ==
  ASSUME NEW N \in Nat, NEW x \in [1 .. N -> Nat], NEW y \in [1 .. N -> Nat], NEW z \in [1 .. N -> Nat],
         NEW l \in 1 .. N, \A j \in 1 .. l - 1 : z[j] = y[j], z[l] = y[l] + 1
  PROVE  Below(x, z, l) <=> Below(x, y, l) \/ \A j \in 1 .. l : x[j] = y[j]
<1>1. x[l] \in Nat /\ y[l] \in Nat /\ \A i \in 1 .. l : i \in 1 .. l - 1 \/ i = l
  OBVIOUS
<1>2. x[l] < z[l] <=> x[l] < y[l] \/ x[l] = y[l]
  BY <1>1
<1>3. ASSUME NEW i \in 1 .. l
      PROVE  (\A j \in 1 .. i - 1 : x[j] = z[j]) <=> \A j \in 1 .. i - 1 : x[j] = y[j]
  <2>1. \A j \in 1 .. i - 1 : j \in 1 .. l - 1
    OBVIOUS
  <2> QED
    BY <2>1
<1>4. ASSUME NEW i \in 1 .. l, x[i] < z[i], \A j \in 1 .. i - 1 : x[j] = z[j]
      PROVE  Below(x, y, l) \/ \A j \in 1 .. l : x[j] = y[j]
  <2>1. \A j \in 1 .. i - 1 : x[j] = y[j]
    BY <1>3, <1>4
  <2>2. CASE i = l
    BY <1>1, <1>2, <1>4, <2>1, <2>2 DEF Below
  <2>3. CASE i # l
    <3>1. x[i] < y[i]
      BY <1>1, <1>4, <2>3
    <3> QED
      BY <2>1, <3>1 DEF Below
  <2> QED
    BY <2>2, <2>3
<1>5. ASSUME NEW i \in 1 .. l, x[i] < y[i], \A j \in 1 .. i - 1 : x[j] = y[j]
      PROVE  Below(x, z, l)
  <2>1. \A j \in 1 .. i - 1 : x[j] = z[j]
    BY <1>3, <1>5
  <2>2. x[i] < z[i]
    BY <1>1, <1>2, <1>5
  <2> QED
    BY <2>1, <2>2 DEF Below
<1>6. ASSUME \A j \in 1 .. l : x[j] = y[j]
      PROVE  Below(x, z, l)
  <2>1. l \in 1 .. l /\ \A j \in 1 .. l - 1 : j \in 1 .. l
    OBVIOUS
  <2>2. x[l] < z[l]
    BY <1>2, <1>6, <2>1
  <2>3. \A j \in 1 .. l - 1 : x[j] = z[j]
    BY <1>6, <2>1
  <2> QED
    BY <2>1, <2>2, <2>3 DEF Below
<1>7. l # 0
  OBVIOUS
<1> QED
  BY <1>4, <1>5, <1>6, <1>7 DEF Below

LEMMA BelowDescend ==
  ASSUME NEW N \in Nat, NEW x \in [1 .. N -> Nat], NEW y \in [1 .. N -> Nat], NEW z \in [1 .. N -> Nat],
         NEW l \in 1 .. N, l + 1 \in 1 .. N, \A j \in 1 .. l : z[j] = y[j], z[l + 1] = 1, x[l + 1] # 0
  PROVE  Below(x, z, l + 1) <=> Below(x, y, l)
<1>1. x[l + 1] \in Nat /\ l + 1 # 0 /\ l # 0 /\ \A i \in 1 .. l + 1 : i \in 1 .. l \/ i = l + 1
  OBVIOUS
<1>2. ~(x[l + 1] < z[l + 1])
  BY <1>1
<1>3. ASSUME NEW i \in 1 .. l
      PROVE  /\ i \in 1 .. l + 1 /\ (x[i] < z[i] <=> x[i] < y[i])
             /\ (\A j \in 1 .. i - 1 : x[j] = z[j]) <=> \A j \in 1 .. i - 1 : x[j] = y[j]
  <2>1. \A j \in 1 .. i - 1 : j \in 1 .. l
    OBVIOUS
  <2> QED
    BY <2>1
<1>4. Below(x, z, l + 1) => Below(x, y, l)
  BY <1>1, <1>2, <1>3 DEF Below
<1>5. Below(x, y, l) => Below(x, z, l + 1)
  BY <1>1, <1>3 DEF Below
<1> QED
  BY <1>4, <1>5

LEMMA BelowReturn ==
  ASSUME NEW N \in Nat, NEW x \in [1 .. N -> Nat], NEW y \in [1 .. N -> Nat], NEW z \in [1 .. N -> Nat],
         NEW l \in 1 .. N, x[l] < y[l],
         l > 1 => z[l - 1] = y[l - 1] + 1 /\ \A j \in 1 .. l - 2 : z[j] = y[j]
  PROVE  Below(x, z, l - 1) <=> Below(x, y, l)
<1>1. CASE l = 1
  <2>1. 1 \in 1 .. l /\ 1 .. 1 - 1 = {}
    BY <1>1
  <2> QED
    BY <1>1, <2>1 DEF Below
<1>2. CASE l # 1
  <2>1. PICK k \in 1 .. N : k = l - 1
    BY <1>2
  <2>2. k + 1 = l /\ k - 1 = l - 2 /\ l > 1
    BY <1>2, <2>1
  <2>3. Below(x, z, k) <=> Below(x, y, k) \/ \A j \in 1 .. k : x[j] = y[j]
    <3>1. z[k] = y[k] + 1 /\ \A j \in 1 .. k - 1 : z[j] = y[j]
      BY <2>1, <2>2
    <3> QED
      BY <3>1, BelowAdvance
  <2>4. Below(x, y, l) <=> Below(x, y, k) \/ \A j \in 1 .. k : x[j] = y[j]
    <3>1. 1 .. l = 1 .. k \cup {l} /\ 1 .. l - 1 = 1 .. k /\ k # 0 /\ l # 0
      BY <2>1, <2>2
    <3>2. Below(x, y, l) <=> (\E i \in 1 .. k : x[i] < y[i] /\ \A j \in 1 .. i - 1 : x[j] = y[j])
                             \/ \A j \in 1 .. k : x[j] = y[j]
      BY <3>1 DEF Below
    <3> QED
      BY <3>1, <3>2 DEF Below
  <2> QED
    BY <2>1, <2>3, <2>4
<1> QED
  BY <1>1, <1>2

LEMMA InTyped ==
  ASSUME IsQuery(query), LoopsInv, NEW rs \in [Table -> Nat]
  PROVE  In(rs) \in [1 .. Len(ordered) -> Nat] /\ \A i \in 1 .. Len(ordered) : In(rs)[i] = rs[ordered[i]]
<1>1. \A i \in 1 .. Len(ordered) : ordered[i] \in Table
  BY OrderedFacts
<1> QED
  BY <1>1 DEF In

LEMMA PassedBelow ==
  ASSUME IsQuery(query), LoopsInv, NEW rs \in [Table -> Nat]
  PROVE  Passed(rs) <=> Below(In(rs), In(rows), level)
<1>1. rows \in [Table -> Nat]
  BY DEF LoopsInv
<1>2. \A i \in 1 .. Len(ordered) : In(rs)[i] = rs[ordered[i]] /\ In(rows)[i] = rows[ordered[i]]
  BY <1>1, InTyped
<1>3. \A i \in 1 .. level : i \in 1 .. Len(ordered) /\ \A j \in 1 .. i - 1 : j \in 1 .. Len(ordered)
  BY OrderedFacts
<1>4. ASSUME NEW i \in 1 .. level
      PROVE  /\ In(rs)[i] < In(rows)[i] <=> rs[ordered[i]] < rows[ordered[i]]
             /\ (\A j \in 1 .. i - 1 : In(rs)[j] = In(rows)[j])
                  <=> \A j \in 1 .. i - 1 : rs[ordered[j]] = rows[ordered[j]]
  BY <1>2, <1>3
<1> QED
  BY <1>4 DEF Passed, Below

LEMMA SameMeaning ==
  ASSUME query' = query
  PROVE  /\ LastIsString' <=> LastIsString
         /\ \A rs : Satisfies(rs)' <=> Satisfies(rs)
<1>1. LastIsString' <=> LastIsString
  BY SMT DEF LastIsString, Wildcards
<1>2. ASSUME NEW rs
      PROVE  Satisfies(rs)' <=> Satisfies(rs)
  BY SMT DEF Satisfies, Node, Raw, Compared, Param, Wildcards, AsNumber, TypeOf
<1> QED
  BY <1>1, <1>2

(* The loops have been through a row, and through all that agree with it   *)
(* in the tables that have one: how each step changes that.                *)
At(rs) == \A j \in 1 .. level : rs[ordered[j]] = rows[ordered[j]]

LEMMA CombinationAt ==
  ASSUME IsQuery(query), LoopsInv, NEW rs \in Combination
  PROVE  /\ At(rs) <=> Agrees(rows, rs)
         /\ phase = "loops" /\ level = Len(ordered) /\ At(rs) /\ rows \in Combination => rs = rows
<1>1. \A t \in Table : rows[t] # Invalid <=> \E i \in 1 .. level : ordered[i] = t
  BY DEF LoopsInv
<1>2. \A i \in 1 .. level : ordered[i] \in Table /\ rows[ordered[i]] # Invalid
  BY OrderedFacts
<1>3. At(rs) <=> Agrees(rows, rs)
  BY <1>1, <1>2 DEF At, Agrees
<1>4. ASSUME phase = "loops", level = Len(ordered), At(rs), rows \in Combination
      PROVE  rs = rows
  <2>1. \A t \in Table : \E i \in 1 .. level : ordered[i] = t
    BY <1>4, OrderedFacts
  <2>2. \A t \in Table : rs[t] = rows[t]
    BY <1>4, <2>1 DEF At
  <2>3. rs = [t \in Table |-> rs[t]] /\ rows = [t \in Table |-> rows[t]]
    BY <1>4 DEF Combination
  <2> QED
    BY <2>2, <2>3
<1> QED
  BY <1>3, <1>4

LEMMA PassedAdvance ==
  ASSUME IsQuery(query), LoopsInv, LoopsInv', InRange, Advance, UNCHANGED <<query, phase, ordered, level>>,
         NEW rs \in Combination
  PROVE  Passed(rs)' <=> Passed(rs) \/ At(rs)
<1>1. rs \in [Table -> Nat]
  BY CombinationTyped DEF Partial
<1>2. Table' = Table
  BY SameTables
<1>3. rows \in [Table -> Nat] /\ rows' \in [Table -> Nat]
  BY <1>2 DEF LoopsInv
<1>4. level \in 1 .. Len(ordered) /\ Current \in Table /\ Current = ordered[level]
  BY OrderedFacts DEF InRange, Current
<1>5. Passed(rs) <=> Below(In(rs), In(rows), level)
  BY <1>1, PassedBelow
<1>6. Passed(rs)' <=> Below(In(rs), In(rows'), level)
  <2>1. \A i \in 1 .. Len(ordered) : In(rs)[i] = rs[ordered[i]] /\ In(rows')[i] = rows'[ordered[i]]
    BY <1>1, <1>3, InTyped
  <2>2. \A i \in 1 .. level : i \in 1 .. Len(ordered) /\ \A j \in 1 .. i - 1 : j \in 1 .. Len(ordered)
    BY OrderedFacts
  <2>3. ASSUME NEW i \in 1 .. level
        PROVE  /\ In(rs)[i] < In(rows')[i] <=> rs[ordered[i]] < rows'[ordered[i]]
               /\ (\A j \in 1 .. i - 1 : In(rs)[j] = In(rows')[j])
                    <=> \A j \in 1 .. i - 1 : rs[ordered[j]] = rows'[ordered[j]]
    BY <2>1, <2>2
  <2> QED
    BY <2>3 DEF Passed, Below
<1>7. /\ In(rs) \in [1 .. Len(ordered) -> Nat] /\ In(rows) \in [1 .. Len(ordered) -> Nat]
      /\ In(rows') \in [1 .. Len(ordered) -> Nat] /\ Len(ordered) \in Nat
  BY <1>1, <1>3, InTyped, OrderedFacts
<1>8. \A i \in 1 .. Len(ordered) : /\ In(rs)[i] = rs[ordered[i]] /\ In(rows)[i] = rows[ordered[i]]
                                   /\ In(rows')[i] = rows'[ordered[i]]
  BY <1>1, <1>3, InTyped
<1>9. In(rows')[level] = In(rows)[level] + 1
  <2>1. rows'[Current] = rows[Current] + 1
    BY <1>3, <1>4 DEF Advance
  <2> QED
    BY <1>4, <1>8, <2>1
<1>10. ASSUME NEW j \in 1 .. level - 1
       PROVE  In(rows')[j] = In(rows)[j]
  <2>1. j \in 1 .. Len(ordered) /\ j # level
    BY <1>4, <1>7
  <2>2. ordered[j] \in Table /\ ordered[j] # Current
    BY <1>4, <2>1, OrderedFacts
  <2>3. rows'[ordered[j]] = rows[ordered[j]]
    BY <1>3, <2>2 DEF Advance
  <2> QED
    BY <1>8, <2>1, <2>3
<1>11. Below(In(rs), In(rows'), level)
         <=> Below(In(rs), In(rows), level) \/ \A j \in 1 .. level : In(rs)[j] = In(rows)[j]
  BY <1>4, <1>7, <1>9, <1>10, BelowAdvance
<1>12. (\A j \in 1 .. level : In(rs)[j] = In(rows)[j]) <=> At(rs)
  <2>1. \A j \in 1 .. level : j \in 1 .. Len(ordered)
    BY <1>4, <1>7
  <2> QED
    BY <1>8, <2>1 DEF At
<1> QED
  BY <1>5, <1>6, <1>11, <1>12

LEMMA PassedNext ==
  ASSUME IsQuery(query), LoopsInv, LoopsInv', UNCHANGED <<query, ordered>>, NEW rs \in [Table -> Nat]
  PROVE  /\ Passed(rs)' <=> Below(In(rs), In(rows'), level')
         /\ In(rows') \in [1 .. Len(ordered) -> Nat]
         /\ \A i \in 1 .. Len(ordered) : In(rows')[i] = rows'[ordered[i]]
<1>1. Table' = Table
  BY SameTables
<1>2. rows' \in [Table -> Nat] /\ level' \in 0 .. Len(ordered)
  BY <1>1 DEF LoopsInv
<1>3. In(rows') \in [1 .. Len(ordered) -> Nat]
      /\ \A i \in 1 .. Len(ordered) : In(rs)[i] = rs[ordered[i]] /\ In(rows')[i] = rows'[ordered[i]]
  BY <1>2, InTyped
<1>4. \A i \in 1 .. level' : i \in 1 .. Len(ordered) /\ \A j \in 1 .. i - 1 : j \in 1 .. Len(ordered)
  BY <1>2, OrderedFacts
<1>5. ASSUME NEW i \in 1 .. level'
      PROVE  /\ In(rs)[i] < In(rows')[i] <=> rs[ordered[i]] < rows'[ordered[i]]
             /\ (\A j \in 1 .. i - 1 : In(rs)[j] = In(rows')[j])
                  <=> \A j \in 1 .. i - 1 : rs[ordered[j]] = rows'[ordered[j]]
  BY <1>3, <1>4
<1>6. Passed(rs)' <=> Below(In(rs), In(rows'), level')
  BY <1>5 DEF Passed, Below
<1> QED
  BY <1>3, <1>6

LEMMA PassedDescend ==
  ASSUME IsQuery(query), LoopsInv, LoopsInv', Descend, NEW rs \in Combination
  PROVE  Passed(rs)' <=> Passed(rs)
<1>1. rs \in [Table -> Nat] /\ \A t \in Table : rs[t] # Invalid
  BY CombinationTyped DEF Partial, Whole
<1>2. UNCHANGED <<query, ordered>> /\ level' = level + 1 /\ rows' = [rows EXCEPT ![ordered[level + 1]] = 1]
      /\ level < Len(ordered) /\ level > 0
  BY DEF Descend, InRange
<1>3. rows \in [Table -> Nat] /\ Len(ordered) \in Nat /\ level \in 1 .. Len(ordered) /\ level + 1 \in 1 .. Len(ordered)
  BY <1>2, OrderedFacts DEF LoopsInv
<1>4. Passed(rs) <=> Below(In(rs), In(rows), level)
  BY <1>1, PassedBelow
<1>5. /\ Passed(rs)' <=> Below(In(rs), In(rows'), level + 1)
      /\ In(rows') \in [1 .. Len(ordered) -> Nat]
      /\ \A i \in 1 .. Len(ordered) : In(rows')[i] = rows'[ordered[i]]
  BY <1>1, <1>2, PassedNext
<1>6. In(rs) \in [1 .. Len(ordered) -> Nat] /\ \A i \in 1 .. Len(ordered) : In(rs)[i] = rs[ordered[i]]
  BY <1>1, InTyped
<1>7. In(rows) \in [1 .. Len(ordered) -> Nat] /\ \A i \in 1 .. Len(ordered) : In(rows)[i] = rows[ordered[i]]
  BY <1>3, InTyped
<1>8. ordered[level + 1] \in Table
  BY <1>3, OrderedFacts
<1>9. In(rows')[level + 1] = 1
  BY <1>2, <1>3, <1>5, <1>8
<1>10. In(rs)[level + 1] # 0
  BY <1>1, <1>3, <1>6, <1>8 DEF Invalid
<1>11. ASSUME NEW j \in 1 .. level
       PROVE  In(rows')[j] = In(rows)[j]
  <2>1. j \in 1 .. Len(ordered) /\ j # level + 1
    BY <1>3
  <2>2. ordered[j] \in Table /\ ordered[j] # ordered[level + 1]
    BY <1>3, <2>1, OrderedFacts
  <2>3. rows'[ordered[j]] = rows[ordered[j]]
    BY <1>2, <1>3, <2>2
  <2> QED
    BY <1>5, <1>7, <2>1, <2>3
<1>12. Below(In(rs), In(rows'), level + 1) <=> Below(In(rs), In(rows), level)
  BY <1>3, <1>5, <1>6, <1>7, <1>9, <1>10, <1>11, BelowDescend
<1> QED
  BY <1>4, <1>5, <1>12

LEMMA PassedReturn ==
  ASSUME IsQuery(query), LoopsInv, LoopsInv', Return, NEW rs \in Combination
  PROVE  Passed(rs)' <=> Passed(rs)
<1>1. rs \in [Table -> Nat] /\ \A t \in Table : rs[t] \in 1 .. Len(query.tables[t])
  BY CombinationTyped DEF Partial
<1>2. UNCHANGED <<query, ordered>> /\ level' = level - 1 /\ level > 0 /\ ~InRange
      /\ rows' = [t \in Table |-> IF level > 1 /\ t = ordered[level - 1] THEN rows[t] + 1
                                  ELSE IF t = Current THEN Invalid ELSE rows[t]]
  BY DEF Return
<1>3. /\ rows \in [Table -> Nat] /\ Len(ordered) \in Nat /\ level \in 1 .. Len(ordered)
      /\ Current \in Table /\ Current = ordered[level]
  BY <1>2, OrderedFacts DEF LoopsInv, Current
<1>4. Passed(rs) <=> Below(In(rs), In(rows), level)
  BY <1>1, PassedBelow
<1>5. /\ Passed(rs)' <=> Below(In(rs), In(rows'), level - 1)
      /\ In(rows') \in [1 .. Len(ordered) -> Nat]
      /\ \A i \in 1 .. Len(ordered) : In(rows')[i] = rows'[ordered[i]]
  BY <1>1, <1>2, PassedNext
<1>6. In(rs) \in [1 .. Len(ordered) -> Nat] /\ \A i \in 1 .. Len(ordered) : In(rs)[i] = rs[ordered[i]]
  BY <1>1, InTyped
<1>7. In(rows) \in [1 .. Len(ordered) -> Nat] /\ \A i \in 1 .. Len(ordered) : In(rows)[i] = rows[ordered[i]]
  BY <1>3, InTyped
<1>8. In(rs)[level] < In(rows)[level]
  <2>1. PICK l \in Nat : l = Len(query.tables[Current])
    BY <1>3, TablesTyped
  <2>2. PICK r \in Nat : r = rows[Current]
    BY <1>3
  <2>3. r > l
    BY <1>2, <2>1, <2>2 DEF InRange
  <2>4. PICK c \in Nat : c = rs[Current]
    BY <1>1, <1>3
  <2>5. c <= l
    BY <1>1, <1>3, <2>1, <2>4
  <2>6. c < r
    BY <2>3, <2>5
  <2> QED
    BY <1>3, <1>6, <1>7, <2>2, <2>4, <2>6
<1>9. ASSUME level > 1
      PROVE  In(rows')[level - 1] = In(rows)[level - 1] + 1 /\ \A j \in 1 .. level - 2 : In(rows')[j] = In(rows)[j]
  <2>1. level - 1 \in 1 .. Len(ordered)
    BY <1>3, <1>9
  <2>2. ordered[level - 1] \in Table
    BY <2>1, OrderedFacts
  <2>3. rows'[ordered[level - 1]] = rows[ordered[level - 1]] + 1
    BY <1>2, <1>9, <2>2
  <2>4. ASSUME NEW j \in 1 .. level - 2
        PROVE  In(rows')[j] = In(rows)[j]
    <3>1. j \in 1 .. Len(ordered) /\ j # level /\ j # level - 1
      BY <1>3
    <3>2. ordered[j] \in Table /\ ordered[j] # Current /\ ordered[j] # ordered[level - 1]
      BY <1>3, <2>1, <3>1, OrderedFacts
    <3>3. rows'[ordered[j]] = rows[ordered[j]]
      BY <1>2, <3>2
    <3> QED
      BY <1>5, <1>7, <3>1, <3>3
  <2> QED
    BY <1>5, <1>7, <2>1, <2>3, <2>4
<1>10. Below(In(rs), In(rows'), level - 1) <=> Below(In(rs), In(rows), level)
  BY <1>3, <1>5, <1>6, <1>7, <1>8, <1>9, BelowReturn
<1> QED
  BY <1>4, <1>5, <1>10

(* What is found: the rows of the loops so far that satisfy the condition. *)
FoundOK ==
  /\ IsInjective(found) /\ Range(found) \subseteq Combination
  /\ \A rs \in Range(found) : Passed(rs)
  /\ LastIsString => \A rs \in Combination : rs \in Range(found) <=> Passed(rs) /\ Satisfies(rs)

LEMMA SamePassed ==
  ASSUME FoundOK, UNCHANGED <<query, found>>,
         \A rs \in Combination : Passed(rs) => Passed(rs)',
         LastIsString => \A rs \in Combination : Satisfies(rs) /\ Passed(rs)' => Passed(rs)
  PROVE  FoundOK'
<1>1. Combination' = Combination /\ (LastIsString' <=> LastIsString)
  BY SameTables, SameMeaning
<1>2. \A rs : Satisfies(rs)' <=> Satisfies(rs)
  BY SameMeaning
<1>3. IsInjective(found') /\ Range(found') \subseteq Combination /\ \A rs \in Range(found') : Passed(rs)'
  BY DEF FoundOK
<1>4. ASSUME LastIsString, NEW rs \in Combination
      PROVE  rs \in Range(found') <=> Passed(rs)' /\ Satisfies(rs)
  <2>1. rs \in Range(found) <=> Passed(rs) /\ Satisfies(rs)
    BY <1>4 DEF FoundOK
  <2> QED
    BY <1>4, <2>1
<1> QED
  BY <1>1, <1>2, <1>3, <1>4 DEF FoundOK

LEMMA SkipFinds ==
  ASSUME IsQuery(query), LoopsInv, LoopsInv', FoundOK, Skip
  PROVE  FoundOK'
<1>1. InRange /\ ~Evaluate(rows).val /\ Advance /\ UNCHANGED <<query, phase, ordered, level, found>>
  BY DEF Skip
<1>2. rows \in Partial
  BY <1>1, RowsPartial
<1>3. \A rs \in Combination : Passed(rs)' <=> Passed(rs) \/ At(rs)
  BY <1>1, PassedAdvance
<1>4. ASSUME LastIsString, NEW rs \in Combination, At(rs)
      PROVE  ~Satisfies(rs)
  <2>1. Agrees(rows, rs)
    BY <1>4, CombinationAt
  <2> QED
    BY <1>1, <1>2, <1>4, <2>1, EvaluateSound
<1> QED
  BY <1>1, <1>3, <1>4, SamePassed

LEMMA AddRowFinds ==
  ASSUME IsQuery(query), LoopsInv, LoopsInv', FoundOK, AddRow
  PROVE  FoundOK'
<1>1. /\ phase = "loops" /\ InRange /\ Evaluate(rows).val /\ level = Len(ordered)
      /\ found' = Append(found, rows) /\ Advance /\ UNCHANGED <<query, phase, ordered, level>>
  BY DEF AddRow
<1>2. rows \in Partial /\ rows \in Combination
  BY <1>1, RowsPartial
<1>3. \A rs \in Combination : Passed(rs)' <=> Passed(rs) \/ At(rs)
  BY <1>1, PassedAdvance
<1>4. \A rs \in Combination : At(rs) => rs = rows
  BY <1>1, <1>2, CombinationAt
<1>5. At(rows) /\ Agrees(rows, rows) /\ Whole(rows)
  BY <1>2, CombinationTyped DEF At, Agrees
<1>6. ~Passed(rows)
  <2>1. level # 0
    BY <1>1 DEF InRange
  <2>2. \A i \in 1 .. level : rows[ordered[i]] \in Nat
    BY OrderedFacts
  <2> QED
    BY <2>1, <2>2 DEF Passed
<1>7. LastIsString => Satisfies(rows)
  BY <1>1, <1>2, <1>5, EvaluateSound
<1>8. IsInjective(found') /\ Range(found') = Range(found) \cup {rows}
  <2>1. found \in Seq([Table -> Nat]) /\ rows \in [Table -> Nat]
    BY DEF LoopsInv
  <2>2. rows \notin Range(found) /\ IsInjective(found)
    BY <1>6 DEF FoundOK
  <2> QED
    BY <1>1, <2>1, <2>2, AppendOnce
<1>9. Combination' = Combination /\ (LastIsString' <=> LastIsString)
  BY <1>1, SameTables, SameMeaning
<1>10. \A rs : Satisfies(rs)' <=> Satisfies(rs)
  BY <1>1, SameMeaning
<1>11. Range(found') \subseteq Combination
  BY <1>2, <1>8 DEF FoundOK
<1>12. \A rs \in Range(found') : Passed(rs)'
  BY <1>2, <1>3, <1>5, <1>8 DEF FoundOK
<1>13. ASSUME LastIsString, NEW rs \in Combination
       PROVE  rs \in Range(found') <=> Passed(rs)' /\ Satisfies(rs)
  <2>1. rs \in Range(found) <=> Passed(rs) /\ Satisfies(rs)
    BY <1>13 DEF FoundOK
  <2>2. Passed(rs)' <=> Passed(rs) \/ rs = rows
    BY <1>3, <1>4, <1>5
  <2> QED
    BY <1>7, <1>8, <1>13, <2>1, <2>2
<1> QED
  BY <1>8, <1>9, <1>10, <1>11, <1>12, <1>13 DEF FoundOK

LEMMA ExecuteFinds ==
  ASSUME IsQuery(query), LoopsInv, LoopsInv', Execute, phase' = "loops"
  PROVE  FoundOK'
<1>1. query' = query /\ found' = <<>> /\ level' = 1 /\ ordered' = OrderTables
      /\ rows' = [Nobody EXCEPT ![OrderTables[1]] = 1]
  BY DEF Execute
<1>2. IsInjective(found') /\ Range(found') = {}
  BY <1>1 DEF IsInjective, Range
<1>3. Combination' = Combination
  BY <1>1, SameTables
<1>4. ASSUME NEW rs \in Combination
      PROVE  ~Passed(rs)'
  <2>1. \A t \in Table : rs[t] \in Nat /\ rs[t] # Invalid
    BY CombinationTyped DEF Partial, Whole
  <2>2. OrderTables[1] \in Table
    <3>1. Len(OrderTables) \in Nat /\ \A t \in Table : \E i \in 1 .. Len(OrderTables) : OrderTables[i] = t
      BY OrderTyped, ArrayFacts
    <3>2. 1 \in Table
      BY TablesTyped
    <3>3. 1 \in 1 .. Len(OrderTables)
      BY <3>1, <3>2
    <3> QED
      BY <3>3, OrderTyped, ArrayFacts
  <2>3. rows'[ordered'[1]] = 1
    BY <1>1, <2>2 DEF Nobody
  <2>4. ~(rs[ordered'[1]] < rows'[ordered'[1]])
    BY <1>1, <2>1, <2>2, <2>3 DEF Invalid
  <2>5. 1 .. level' = {1} /\ level' # 0
    BY <1>1
  <2> QED
    BY <2>4, <2>5 DEF Passed
<1> QED
  BY <1>2, <1>3, <1>4 DEF FoundOK

-----------------------------------------------------------------------------
(* Sorting.  In a finite set that is in order, the numbers of those before *)
(* each are 0, 1 and so on.                                                *)
LEMMA RankFacts ==
  ASSUME NEW S, IsFiniteSet(S), NEW before \in [S -> SUBSET S],
         \A x \in S : x \notin before[x],
         \A x, y \in S : y \in before[x] => before[y] \subseteq before[x],
         \A x, y \in S : x # y => x \in before[y] \/ y \in before[x]
  PROVE  /\ \A x \in S : Cardinality(before[x]) \in 0 .. Cardinality(S) - 1
         /\ \A x, y \in S : y \in before[x] => Cardinality(before[y]) < Cardinality(before[x])
         /\ \A x, y \in S : Cardinality(before[x]) = Cardinality(before[y]) => x = y
         /\ \A k \in 0 .. Cardinality(S) - 1 : \E x \in S : Cardinality(before[x]) = k
<1>1. PICK n \in Nat : n = Cardinality(S)
  BY FS_CardinalityType
<1>2. ASSUME NEW T \in SUBSET S, NEW U \in SUBSET T, NEW x \in T, x \notin U
      PROVE  Cardinality(U) \in Nat /\ Cardinality(T) \in Nat /\ Cardinality(U) < Cardinality(T)
  <2>1. IsFiniteSet(T)
    BY FS_Subset
  <2>2. /\ IsFiniteSet(U) /\ Cardinality(U) <= Cardinality(T)
        /\ Cardinality(T) = Cardinality(U) => T = U
    BY <2>1, FS_Subset
  <2>3. Cardinality(U) \in Nat /\ Cardinality(T) \in Nat
    BY <2>1, <2>2, FS_CardinalityType
  <2>4. T # U
    BY <1>2
  <2> QED
    BY <2>2, <2>3, <2>4
<1>3. ASSUME NEW x \in S
      PROVE  Cardinality(before[x]) \in 0 .. n - 1
  <2>1. before[x] \in SUBSET S /\ x \notin before[x]
    OBVIOUS
  <2>2. Cardinality(before[x]) \in Nat /\ Cardinality(before[x]) < Cardinality(S)
    BY <1>2, <2>1
  <2> QED
    BY <1>1, <2>2
<1>4. ASSUME NEW x \in S, NEW y \in S, y \in before[x]
      PROVE  Cardinality(before[y]) < Cardinality(before[x])
  <2>1. before[x] \in SUBSET S /\ before[y] \in SUBSET before[x] /\ y \notin before[y]
    BY <1>4
  <2> QED
    BY <1>2, <1>4, <2>1
<1>5. ASSUME NEW x \in S, NEW y \in S, Cardinality(before[x]) = Cardinality(before[y])
      PROVE  x = y
  <2>1. PICK k \in Nat : k = Cardinality(before[x])
    BY <1>1, <1>3
  <2>2. ~(Cardinality(before[x]) < Cardinality(before[y])) /\ ~(Cardinality(before[y]) < Cardinality(before[x]))
    BY <1>5, <2>1
  <2> QED
    BY <1>4, <2>2
<1> DEFINE rank == [x \in S |-> Cardinality(before[x])]
<1>6. rank \in Injection(S, 0 .. n - 1)
  <2>1. rank \in [S -> 0 .. n - 1]
    BY <1>3
  <2>2. IsInjective(rank)
    BY <1>5 DEF IsInjective
  <2> QED
    BY <2>1, <2>2 DEF Injection
<1>7. IsFiniteSet(0 .. n - 1) /\ Cardinality(0 .. n - 1) = n
  <2>1. n - 1 \in Int
    BY <1>1
  <2>2. IsFiniteSet(0 .. n - 1) /\ Cardinality(0 .. n - 1) = IF 0 > n - 1 THEN 0 ELSE n - 1 - 0 + 1
    BY <2>1, FS_Interval
  <2> QED
    BY <2>2
<1>8. rank \in Surjection(S, 0 .. n - 1)
  <2> HIDE DEF rank
  <2> QED
    BY <1>1, <1>6, <1>7, FS_Injection
<1>9. \A k \in 0 .. n - 1 : \E x \in S : Cardinality(before[x]) = k
  BY <1>8 DEF Surjection
<1> QED
  BY <1>1, <1>3, <1>4, <1>5, <1>9

(* The keys of the rows, compared number by number.                        *)
Less(x, y, L) == \E i \in 1 .. L : x[i] < y[i] /\ \A j \in 1 .. i - 1 : x[j] = y[j]

LEMMA LessTransitive ==
  ASSUME NEW L \in Nat, NEW x, NEW y, NEW z,
         \A i \in 1 .. L : x[i] \in Int /\ y[i] \in Int /\ z[i] \in Int,
         Less(x, y, L), Less(y, z, L)
  PROVE  Less(x, z, L)
<1>1. PICK i \in 1 .. L : x[i] < y[i] /\ \A j \in 1 .. i - 1 : x[j] = y[j]
  BY DEF Less
<1>2. PICK k \in 1 .. L : y[k] < z[k] /\ \A j \in 1 .. k - 1 : y[j] = z[j]
  BY DEF Less
<1>3. CASE i < k
  <2>1. i \in 1 .. k - 1 /\ \A j \in 1 .. i - 1 : j \in 1 .. k - 1
    BY <1>3
  <2>2. x[i] < z[i] /\ \A j \in 1 .. i - 1 : x[j] = z[j]
    BY <1>1, <1>2, <2>1
  <2> QED
    BY <2>2 DEF Less
<1>4. CASE k < i
  <2>1. k \in 1 .. i - 1 /\ \A j \in 1 .. k - 1 : j \in 1 .. i - 1
    BY <1>4
  <2>2. x[k] < z[k] /\ \A j \in 1 .. k - 1 : x[j] = z[j]
    BY <1>1, <1>2, <2>1
  <2> QED
    BY <2>2 DEF Less
<1>5. CASE i = k
  <2>1. x[i] < z[i]
    <3>1. x[i] < y[i] /\ y[i] < z[i] /\ x[i] \in Int /\ y[i] \in Int /\ z[i] \in Int
      BY <1>1, <1>2, <1>5
    <3> QED
      BY <3>1
  <2>2. \A j \in 1 .. i - 1 : x[j] = z[j]
    BY <1>1, <1>2, <1>5
  <2> QED
    BY <2>1, <2>2 DEF Less
<1> QED
  BY <1>3, <1>4, <1>5

LEMMA LessTotal ==
  ASSUME NEW L \in Nat, NEW x, NEW y, \A i \in 1 .. L : x[i] \in Int /\ y[i] \in Int
  PROVE  /\ ~Less(x, x, L)
         /\ (\E i \in 1 .. L : x[i] # y[i]) => Less(x, y, L) \/ Less(y, x, L)
<1>1. ~Less(x, x, L)
  BY DEF Less
<1>2. ASSUME NEW d \in 1 .. L, x[d] # y[d]
      PROVE  Less(x, y, L) \/ Less(y, x, L)
  <2> DEFINE D == {i \in 1 .. L : x[i] # y[i]}
  <2>1. D \in SUBSET Nat /\ D # {}
    BY <1>2
  <2>2. PICK i \in D : \A m \in D : i <= m
    <3> HIDE DEF D
    <3> QED
      BY <2>1, LeastNumber
  <2>3. i \in 1 .. L /\ x[i] # y[i] /\ x[i] \in Int /\ y[i] \in Int
    BY <2>2
  <2>4. \A j \in 1 .. i - 1 : x[j] = y[j]
    <3> TAKE j \in 1 .. i - 1
    <3>1. j \in 1 .. L /\ ~(i <= j)
      BY <2>3
    <3> QED
      BY <2>2, <3>1
  <2>5. x[i] < y[i] \/ y[i] < x[i]
    BY <2>3
  <2> QED
    BY <2>3, <2>4, <2>5 DEF Less
<1> QED
  BY <1>1, <1>2

LEMMA LengthOfDomain ==
  ASSUME NEW S, NEW s \in Seq(S), NEW n \in Nat, DOMAIN s = 1 .. n
  PROVE  Len(s) = n
<1>1. PICK k \in Nat : k = Len(s) /\ DOMAIN s = 1 .. k
  BY LenProperties
<1>2. k \in 1 .. k \/ k = 0
  OBVIOUS
<1>3. n \in 1 .. n \/ n = 0
  OBVIOUS
<1>4. k <= n
  BY <1>1, <1>2
<1>5. n <= k
  BY <1>1, <1>3
<1> QED
  BY <1>1, <1>4, <1>5

LEMMA KeyFacts ==
  ASSUME IsQuery(query), NEW rs \in Combination
  PROVE  /\ Len(query.order) \in Nat /\ Len(query.tables) \in Nat /\ Table = 1 .. Len(query.tables)
         /\ DOMAIN SortKey(rs) = 1 .. Len(query.order) + Len(query.tables)
         /\ \A i \in 1 .. Len(query.order) : SortKey(rs)[i] = Raw(query.order[i], rs)
         /\ \A t \in Table : SortKey(rs)[Len(query.order) + t] = rs[t] /\ rs[t] \in Int
         /\ \A i \in 1 .. Len(query.order) + Len(query.tables) : SortKey(rs)[i] \in Int
<1>1. query.order \in Seq(ColumnsOf(query))
  BY DEF IsQuery
<1>2. PICK m \in Nat : m = Len(query.order) /\ \A i \in 1 .. m : query.order[i] \in ColumnsOf(query)
  BY <1>1, LenProperties, ElementOfSeq
<1>3. PICK N \in Nat : N = Len(query.tables) /\ Table = 1 .. N
  BY TablesTyped
<1>4. rs \in Partial /\ Whole(rs) /\ DOMAIN rs = Table /\ \A t \in Table : rs[t] \in 1 .. Len(query.tables[t])
  BY CombinationTyped
<1>5. \A i \in 1 .. m : Raw(query.order[i], rs) \in Int
  <2> TAKE i \in 1 .. m
  <2>1. Known(query.order[i], rs)
    BY <1>2, <1>4, ColumnTyped DEF Known, Whole
  <2> QED
    BY <1>2, <1>4, <2>1, RawTyped
<1> DEFINE cells == [i \in 1 .. Len(query.order) |-> Raw(query.order[i], rs)]
<1>6. cells \in [1 .. m -> Int] /\ \A i \in 1 .. m : cells[i] = Raw(query.order[i], rs)
  BY <1>2, <1>5
<1>7. rs \in [1 .. N -> Int]
  <2>1. rs \in [Table -> Nat]
    BY <1>4 DEF Partial
  <2> QED
    BY <1>3, <2>1
<1>8. SortKey(rs) = cells \o rs
  BY DEF SortKey
<1> HIDE DEF cells
<1>9. cells \in Seq(Int) /\ Len(cells) = m /\ rs \in Seq(Int) /\ Len(rs) = N
  <2>1. cells \in Seq(Int) /\ rs \in Seq(Int)
    BY <1>6, <1>7, SeqDef
  <2>2. DOMAIN cells = 1 .. m /\ DOMAIN rs = 1 .. N
    BY <1>6, <1>7
  <2> QED
    BY <2>1, <2>2, LengthOfDomain
<1>10. /\ cells \o rs \in Seq(Int) /\ Len(cells \o rs) = m + N
       /\ \A i \in 1 .. m + N : (cells \o rs)[i] = IF i <= m THEN cells[i] ELSE rs[i - m]
  BY <1>9, ConcatProperties
<1>11. DOMAIN (cells \o rs) = 1 .. m + N /\ \A i \in 1 .. m + N : (cells \o rs)[i] \in Int
  BY <1>10, LenProperties, ElementOfSeq
<1>12. \A i \in 1 .. m : (cells \o rs)[i] = cells[i]
  <2> TAKE i \in 1 .. m
  <2>1. i \in 1 .. m + N /\ i <= m
    OBVIOUS
  <2> QED
    BY <1>10, <2>1
<1>13. \A t \in 1 .. N : (cells \o rs)[m + t] = rs[t]
  <2> TAKE t \in 1 .. N
  <2>1. m + t \in 1 .. m + N /\ ~(m + t <= m) /\ m + t - m = t
    OBVIOUS
  <2> QED
    BY <1>10, <2>1
<1>14. \A t \in Table : rs[t] \in Int
  BY <1>3, <1>7
<1> QED
  BY <1>2, <1>3, <1>6, <1>8, <1>11, <1>12, <1>13, <1>14

(* compare_entry puts any two rows in order.                               *)
LEMMA BeforeLess ==
  ASSUME IsQuery(query), NEW x \in Combination, NEW y
  PROVE  Before(x, y) <=> Less(SortKey(x), SortKey(y), Len(query.order) + Len(query.tables))
BY KeyFacts DEF Before, Less

LEMMA BeforeFacts ==
  ASSUME IsQuery(query), NEW x \in Combination, NEW y \in Combination
  PROVE  /\ ~Before(x, x)
         /\ x # y => Before(x, y) \/ Before(y, x)
         /\ \A z \in Combination : Before(x, y) /\ Before(y, z) => Before(x, z)
         /\ Before(x, y) => Ordered(x, y)
<1>1. PICK m \in Nat : m = Len(query.order)
  BY KeyFacts
<1>2. PICK N \in Nat : N = Len(query.tables) /\ Table = 1 .. N
  BY KeyFacts
<1>3. m + N \in Nat /\ \A z \in Combination : \A i \in 1 .. m + N : SortKey(z)[i] \in Int
  <2>1. ASSUME NEW z \in Combination
        PROVE  \A i \in 1 .. m + N : SortKey(z)[i] \in Int
    BY <1>1, <1>2, KeyFacts
  <2> QED
    BY <2>1
<1>4. \A z, w \in Combination : Before(z, w) <=> Less(SortKey(z), SortKey(w), m + N)
  BY <1>1, <1>2, BeforeLess
<1>5. ~Before(x, x)
  BY <1>3, <1>4, LessTotal
<1>6. ASSUME x # y
      PROVE  Before(x, y) \/ Before(y, x)
  <2>1. x = [t \in Table |-> x[t]] /\ y = [t \in Table |-> y[t]]
    BY DEF Combination
  <2>2. PICK t \in 1 .. N : x[t] # y[t]
    BY <1>2, <1>6, <2>1
  <2>3. SortKey(x)[m + t] = x[t] /\ SortKey(y)[m + t] = y[t]
    BY <1>1, <1>2, KeyFacts
  <2>4. m + t \in 1 .. m + N
    OBVIOUS
  <2>5. \E i \in 1 .. m + N : SortKey(x)[i] # SortKey(y)[i]
    BY <2>2, <2>3, <2>4
  <2>6. Less(SortKey(x), SortKey(y), m + N) \/ Less(SortKey(y), SortKey(x), m + N)
    BY <1>3, <2>5, LessTotal
  <2> QED
    BY <1>4, <2>6
<1>7. ASSUME NEW z \in Combination, Before(x, y), Before(y, z)
      PROVE  Before(x, z)
  <2>1. Less(SortKey(x), SortKey(y), m + N) /\ Less(SortKey(y), SortKey(z), m + N)
    BY <1>4, <1>7
  <2>2. Less(SortKey(x), SortKey(z), m + N)
    BY <1>3, <2>1, LessTransitive
  <2> QED
    BY <1>4, <2>2
<1>8. ASSUME Before(x, y)
      PROVE  Ordered(x, y)
  <2>1. PICK i \in 1 .. m + N : SortKey(x)[i] < SortKey(y)[i] /\ \A j \in 1 .. i - 1 : SortKey(x)[j] = SortKey(y)[j]
    BY <1>4, <1>8 DEF Less
  <2> DEFINE cells(rs) == [k \in DOMAIN query.order |-> Raw(query.order[k], rs)]
  <2>2. DOMAIN query.order = 1 .. m
    <3>1. query.order \in Seq(ColumnsOf(query))
      BY DEF IsQuery
    <3> QED
      BY <1>1, <3>1, LenProperties
  <2>3. \A k \in 1 .. m : cells(x)[k] = SortKey(x)[k] /\ cells(y)[k] = SortKey(y)[k]
    BY <1>1, <2>2, KeyFacts
  <2>4. DOMAIN cells(x) = 1 .. m /\ cells(x) = [k \in 1 .. m |-> cells(x)[k]] /\ cells(y) = [k \in 1 .. m |-> cells(y)[k]]
    BY <2>2
  <2>5. Ordered(x, y) <=> Lexicographic(cells(x), cells(y)) \/ (cells(x) = cells(y) /\ Lexicographic(x, y))
    BY DEF Ordered
  <2> HIDE DEF cells
  <2>6. CASE i <= m
    <3>1. i \in DOMAIN cells(x) /\ \A j \in 1 .. i - 1 : j \in 1 .. m
      BY <2>4, <2>6
    <3>2. cells(x)[i] < cells(y)[i] /\ \A j \in 1 .. i - 1 : cells(x)[j] = cells(y)[j]
      BY <2>1, <2>3, <2>4, <3>1
    <3> QED
      BY <2>5, <3>1, <3>2 DEF Lexicographic
  <2>7. CASE ~(i <= m)
    <3>1. PICK t \in 1 .. N : i = m + t
      <4>1. i - m \in 1 .. N /\ i = m + (i - m)
        BY <2>7
      <4> QED
        BY <4>1
    <3>2. \A k \in 1 .. m : k \in 1 .. i - 1
      BY <2>7
    <3>3. cells(x) = cells(y)
      <4>1. \A k \in 1 .. m : cells(x)[k] = cells(y)[k]
        BY <2>1, <2>3, <3>2
      <4> QED
        BY <2>4, <4>1
    <3>4. \A u \in 1 .. N : SortKey(x)[m + u] = x[u] /\ SortKey(y)[m + u] = y[u]
      BY <1>1, <1>2, KeyFacts
    <3>5. x[t] < y[t]
      BY <2>1, <3>1, <3>4
    <3>6. \A j \in 1 .. t - 1 : x[j] = y[j]
      <4> TAKE j \in 1 .. t - 1
      <4>1. m + j \in 1 .. i - 1 /\ j \in 1 .. N
        BY <3>1
      <4> QED
        BY <2>1, <3>4, <4>1
    <3>7. t \in DOMAIN x
      BY <1>2 DEF Combination
    <3> QED
      BY <2>5, <3>3, <3>5, <3>6, <3>7 DEF Lexicographic
  <2> QED
    BY <2>6, <2>7
<1> QED
  BY <1>5, <1>6, <1>7, <1>8

(* What qsort makes of the rows: all of them, each once, in order.         *)
LEMMA SortedFacts ==
  ASSUME IsQuery(query), NEW list \in Seq([Table -> Nat]), IsInjective(list), Range(list) \subseteq Combination
  PROVE  /\ Sorted(list) \in Seq([Table -> Nat]) /\ Len(Sorted(list)) = Len(list)
         /\ IsInjective(Sorted(list)) /\ Range(Sorted(list)) = Range(list)
         /\ \A i, j \in 1 .. Len(Sorted(list)) : i < j => Ordered(Sorted(list)[i], Sorted(list)[j])
<1> DEFINE S == Range(list)
           before == [x \in S |-> {other \in S : Before(other, x)}]
<1>1. PICK n \in Nat : n = Len(list) /\ DOMAIN list = 1 .. n
  BY LenProperties
<1>2. IsFiniteSet(S) /\ Cardinality(S) = n
  <2>1. list \in [1 .. n -> S] /\ list \in Surjection(1 .. n, S)
    <3>1. list = [i \in 1 .. n |-> list[i]]
      BY <1>1, SeqDef
    <3>2. list \in [1 .. n -> S]
      BY <1>1, <3>1 DEF Range
    <3> QED
      BY <1>1, <3>2 DEF Surjection, Range
  <2>2. list \in Injection(1 .. n, S)
    BY <2>1 DEF Injection
  <2>3. IsFiniteSet(1 .. n) /\ Cardinality(1 .. n) = n
    BY FS_Interval
  <2> HIDE DEF S
  <2> QED
    BY <2>1, <2>2, <2>3, FS_Surjection
<1>3. S \subseteq Combination
  OBVIOUS
<1> HIDE DEF S
<1>4. before \in [S -> SUBSET S] /\ \A x, y \in S : y \in before[x] <=> Before(y, x)
  OBVIOUS
<1>0. \A x \in S : before[x] = {other \in S : Before(other, x)}
  OBVIOUS
<1> HIDE DEF before
<1>5. \A x \in S : x \notin before[x]
  BY <1>3, <1>4, BeforeFacts
<1>6. \A x, y \in S : y \in before[x] => before[y] \subseteq before[x]
  <2> SUFFICES ASSUME NEW x \in S, NEW y \in S, y \in before[x], NEW z \in before[y]
               PROVE  z \in before[x]
    OBVIOUS
  <2>1. z \in S /\ Before(z, y) /\ Before(y, x)
    BY <1>4
  <2>2. Before(z, x)
    BY <1>3, <2>1, BeforeFacts
  <2> QED
    BY <1>4, <2>1, <2>2
<1>7. \A x, y \in S : x # y => x \in before[y] \/ y \in before[x]
  BY <1>3, <1>4, BeforeFacts
<1>8. /\ \A x \in S : Cardinality(before[x]) \in 0 .. n - 1
      /\ \A x, y \in S : y \in before[x] => Cardinality(before[y]) < Cardinality(before[x])
      /\ \A x, y \in S : Cardinality(before[x]) = Cardinality(before[y]) => x = y
      /\ \A k \in 0 .. n - 1 : \E x \in S : Cardinality(before[x]) = k
  <2>1. /\ \A x \in S : Cardinality(before[x]) \in 0 .. Cardinality(S) - 1
        /\ \A x, y \in S : y \in before[x] => Cardinality(before[y]) < Cardinality(before[x])
        /\ \A x, y \in S : Cardinality(before[x]) = Cardinality(before[y]) => x = y
        /\ \A k \in 0 .. Cardinality(S) - 1 : \E x \in S : Cardinality(before[x]) = k
    <3>1. IsFiniteSet(S) /\ before \in [S -> SUBSET S]
      BY <1>2, <1>4
    <3> QED
      BY <1>5, <1>6, <1>7, <3>1, RankFacts, ZenonT(60)
  <2>2. Cardinality(S) - 1 = n - 1
    BY <1>2
  <2>3. \A x \in S : Cardinality(before[x]) \in 0 .. n - 1
    BY <2>1, <2>2, Zenon
  <2>4. \A k \in 0 .. n - 1 : \E x \in S : Cardinality(before[x]) = k
    BY <2>1, <2>2, Zenon
  <2> QED
    BY <2>1, <2>3, <2>4, Zenon
<1>9. ASSUME NEW i \in 1 .. n
      PROVE  Sorted(list)[i] \in S /\ Cardinality(before[Sorted(list)[i]]) = i - 1
  <2>1. Sorted(list)[i] = CHOOSE rs \in S : Cardinality({other \in S : Before(other, rs)}) = i - 1
    BY <1>1 DEF Sorted, S
  <2>2. i - 1 \in 0 .. n - 1
    OBVIOUS
  <2>3. \E rs \in S : Cardinality({other \in S : Before(other, rs)}) = i - 1
    BY <1>0, <1>8, <2>2
  <2>4. Sorted(list)[i] \in S /\ Cardinality({other \in S : Before(other, Sorted(list)[i])}) = i - 1
    BY <2>1, <2>3
  <2> QED
    BY <1>0, <2>4
<1>10. PICK s : s = Sorted(list)
  OBVIOUS
<1>11. s = [i \in 1 .. n |-> s[i]] /\ \A i \in 1 .. n : s[i] \in S /\ Cardinality(before[s[i]]) = i - 1
  <2>1. DOMAIN Sorted(list) = 1 .. n /\ Sorted(list) = [i \in 1 .. n |-> Sorted(list)[i]]
    <3> DEFINE chosen(i) == CHOOSE rs \in Range(list) : Cardinality({other \in Range(list) : Before(other, rs)}) = i - 1
    <3>1. Sorted(list) = [i \in DOMAIN list |-> chosen(i)]
      BY Zenon DEF Sorted
    <3> HIDE DEF chosen
    <3> QED
      BY <1>1, <3>1
  <2> QED
    BY <1>9, <1>10, <2>1
<1>12. s \in Seq([Table -> Nat]) /\ Len(s) = n
  <2>1. \A x \in S : x \in [Table -> Nat]
    BY <1>3, CombinationTyped DEF Partial
  <2>2. s \in [1 .. n -> [Table -> Nat]]
    BY <1>11, <2>1
  <2>3. s \in Seq([Table -> Nat])
    BY <2>2, SeqDef
  <2>4. DOMAIN s = 1 .. n
    BY <2>2
  <2> QED
    BY <2>3, <2>4, LengthOfDomain
<1>13. IsInjective(s)
  <2>1. \A i, j \in 1 .. n : s[i] = s[j] => i = j
    <3> SUFFICES ASSUME NEW i \in 1 .. n, NEW j \in 1 .. n, s[i] = s[j]
                 PROVE  i = j
      OBVIOUS
    <3>1. i - 1 = j - 1
      BY <1>11
    <3> QED
      BY <3>1
  <2> QED
    BY <1>11, <2>1 DEF IsInjective
<1>14. Range(s) = S
  <2>1. \A i \in 1 .. n : s[i] \in S
    BY <1>11
  <2>2. ASSUME NEW x \in S
        PROVE  \E i \in 1 .. n : s[i] = x
    <3>1. PICK k \in 0 .. n - 1 : k = Cardinality(before[x])
      BY <1>8
    <3>2. PICK i \in 1 .. n : i = k + 1
      BY <3>1
    <3>3. Cardinality(before[s[i]]) = Cardinality(before[x])
      BY <1>11, <3>1, <3>2
    <3>4. s[i] = x
      BY <1>8, <1>11, <3>3
    <3> QED
      BY <3>4
  <2>3. DOMAIN s = 1 .. n
    BY <1>11
  <2> QED
    BY <2>1, <2>2, <2>3 DEF Range
<1>15. ASSUME NEW i \in 1 .. n, NEW j \in 1 .. n, i < j
       PROVE  Ordered(s[i], s[j])
  <2>1. s[i] \in S /\ s[j] \in S /\ Cardinality(before[s[i]]) = i - 1 /\ Cardinality(before[s[j]]) = j - 1
    BY <1>11
  <2>2. s[i] # s[j]
    <3>1. i - 1 # j - 1
      BY <1>15
    <3> QED
      BY <2>1, <3>1
  <2>3. ~Before(s[j], s[i])
    <3> SUFFICES ASSUME Before(s[j], s[i])
                 PROVE  FALSE
      OBVIOUS
    <3>1. s[j] \in before[s[i]]
      BY <1>4, <2>1
    <3>2. j - 1 < i - 1
      BY <1>8, <2>1, <3>1
    <3> QED
      BY <1>15, <3>2
  <2> QED
    BY <1>3, <2>1, <2>2, <2>3, BeforeFacts
<1> QED
  BY <1>1, <1>10, <1>12, <1>13, <1>14, <1>15 DEF S

LEMMA SameOrder ==
  ASSUME query' = query
  PROVE  \A x, y : Ordered(x, y)' <=> Ordered(x, y)
BY SMT DEF Ordered, Lexicographic, Raw

LEMMA SortTyped ==
  ASSUME IsQuery(query), LoopsInv, FoundOK, Sort
  PROVE  /\ LoopsInv' /\ IsInjective(found') /\ Range(found') \subseteq Combination'
         /\ LastIsString' => Selected'
<1>1. phase = "loops" /\ level = 0 /\ phase' = "done" /\ found' = Sorted(found) /\ UNCHANGED <<query, ordered, level, rows>>
  BY DEF Sort
<1>2. Table' = Table /\ Arrays' = Arrays /\ Combination' = Combination
  BY <1>1, SameTables
<1>3. found \in Seq([Table -> Nat]) /\ IsInjective(found) /\ Range(found) \subseteq Combination
  BY DEF LoopsInv, FoundOK
<1>4. /\ found' \in Seq([Table -> Nat]) /\ IsInjective(found') /\ Range(found') = Range(found)
      /\ \A i, j \in 1 .. Len(found') : i < j => Ordered(found'[i], found'[j])
  BY <1>1, <1>3, SortedFacts
<1>5. LoopsInv'
  BY <1>1, <1>2, <1>4 DEF LoopsInv
<1>6. ASSUME LastIsString'
      PROVE  Selected'
  <2>1. LastIsString /\ \A rs : Satisfies(rs)' <=> Satisfies(rs)
    BY <1>1, <1>6, SameMeaning
  <2>2. \A rs \in Combination : Passed(rs)
    BY <1>1 DEF Passed
  <2>3. Range(found') = {rs \in Combination : Satisfies(rs)}
    BY <1>3, <1>4, <2>1, <2>2 DEF FoundOK
  <2>4. Range(found') = {rs \in Combination' : Satisfies(rs)'}
    BY <1>2, <2>1, <2>3
  <2>5. \A x, y : Ordered(x, y)' <=> Ordered(x, y)
    BY <1>1, SameOrder
  <2>6. PICK s : s = found'
    OBVIOUS
  <2>7. \A i, j \in 1 .. Len(s) : i < j => Ordered(s[i], s[j])'
    BY <1>4, <2>5, <2>6
  <2> QED
    BY <2>4, <2>6, <2>7 DEF Selected
<1> QED
  BY <1>2, <1>3, <1>4, <1>5, <1>6

(* A table without rows has no combination with the others.                *)
LEMMA NothingFound ==
  ASSUME IsQuery(query), Execute, phase' # "loops"
  PROVE  IsInjective(found') /\ Range(found') \subseteq Combination' /\ Selected'
<1>1. found' = <<>> /\ query' = query /\ \E t \in Table : query.tables[t] = <<>>
  BY DEF Execute
<1>2. Combination' = Combination
  BY <1>1, SameTables
<1>3. Combination = {}
  <2>1. PICK t \in Table : query.tables[t] = <<>>
    BY <1>1
  <2>2. DOMAIN query.tables[t] = {}
    BY <2>1
  <2> QED
    BY <2>2 DEF Combination
<1>4. IsInjective(found') /\ Range(found') = {} /\ Len(found') = 0
  BY <1>1 DEF IsInjective, Range
<1>5. Selected'
  BY <1>2, <1>3, <1>4 DEF Selected
<1> QED
  BY <1>2, <1>4, <1>5

-----------------------------------------------------------------------------
(* DISTINCT: a row is kept when no row before it gives the same record.    *)
Records(list) == [i \in DOMAIN list |-> Projected(list[i])]

LEMMA WholeRecord ==
  ASSUME IsQuery(query), NEW rs
  PROVE  SubSeq(Projected(rs), 1, Len(query.columns)) = Projected(rs)
<1>1. query.columns \in Seq(Column)
  BY DEF IsQuery
<1>2. PICK n \in Nat : n = Len(query.columns) /\ DOMAIN query.columns = 1 .. n
  BY <1>1, LenProperties
<1>3. PICK p : p = Projected(rs)
  OBVIOUS
<1>4. p = [j \in 1 .. n |-> p[j]]
  BY <1>2, <1>3 DEF Projected
<1>5. p \in [1 .. n -> {p[j] : j \in 1 .. n}]
  BY <1>4
<1>6. p \in Seq({p[j] : j \in 1 .. n})
  BY <1>5, SeqDef
<1>7. Len(p) = n
  BY <1>4, <1>6, LengthOfDomain
<1>8. SubSeq(p, 1, Len(p)) = p
  BY <1>6, SubSeqFull
<1> QED
  BY <1>2, <1>3, <1>7, <1>8

LEMMA MadeFirst ==
  ASSUME IsQuery(query), NEW list, NEW i \in Nat \ {0}
  PROVE  MadeBy(list, i, Len(query.columns)) = i
           <=> \A k \in 1 .. i - 1 : Projected(list[k]) # Projected(list[i])
<1> DEFINE begins(j) == SubSeq(Projected(list[j]), 1, Len(query.columns))
           first == CHOOSE j \in 1 .. i : begins(j) = begins(i) /\ \A k \in 1 .. j - 1 : begins(k) # begins(i)
           Alike == {j \in 1 .. i : begins(j) = begins(i)}
<1>1. MadeBy(list, i, Len(query.columns)) = first
  BY Zenon DEF MadeBy
<1>2. \A j : begins(j) = Projected(list[j])
  BY WholeRecord
<1> HIDE DEF begins
<1>3. PICK j \in Alike : \A k \in Alike : j <= k
  <2>1. Alike \in SUBSET Nat /\ i \in Alike
    OBVIOUS
  <2> HIDE DEF Alike
  <2> QED
    BY <2>1, LeastNumber
<1>4. j \in 1 .. i /\ begins(j) = begins(i) /\ \A k \in 1 .. j - 1 : begins(k) # begins(i)
  <2>1. \A k \in 1 .. j - 1 : k \in 1 .. i /\ ~(j <= k)
    BY <1>3
  <2> QED
    BY <1>3, <2>1
<1>5. first \in 1 .. i /\ begins(first) = begins(i) /\ \A k \in 1 .. first - 1 : begins(k) # begins(i)
  BY <1>4
<1> HIDE DEF first
<1>6. first = i => \A k \in 1 .. i - 1 : begins(k) # begins(i)
  BY <1>5
<1>7. (\A k \in 1 .. i - 1 : begins(k) # begins(i)) => first = i
  <2>1. first = i \/ first \in 1 .. i - 1
    BY <1>5
  <2> QED
    BY <1>5, <2>1
<1> QED
  BY <1>1, <1>2, <1>6, <1>7

(* The loop of New, and that of NotLikeOneBefore, row by row.              *)
KeepsNew(f, list, N) ==
  /\ f \in [0 .. N -> Seq(1 .. N)]
  /\ f[0] = <<>> /\ New(list) = f[N]
  /\ \A i \in 1 .. N : f[i] = IF \A k \in 1 .. i - 1 : Projected(list[k]) # Projected(list[i])
                              THEN Append(f[i - 1], i) ELSE f[i - 1]
KeepsUnlike(f, T, records, N) ==
  /\ f \in [0 .. N -> Seq(T)]
  /\ f[0] = <<>> /\ NotLikeOneBefore(records) = f[N]
  /\ \A i \in 1 .. N : f[i] = IF query.distinct /\ records[i] \in Range(f[i - 1])
                              THEN f[i - 1] ELSE Append(f[i - 1], records[i])

LEMMA NewLoop ==
  ASSUME IsQuery(query), NEW N \in Nat, NEW list, Len(list) = N
  PROVE  \E f : KeepsNew(f, list, N)
<1> DEFINE made(i) == MadeBy(list, i, Len(query.columns)) = i
           IsKept(g) == g = [i \in 0 .. Len(list) |-> IF i = 0 THEN <<>>
                                                      ELSE IF made(i) THEN Append(g[i - 1], i) ELSE g[i - 1]]
           kept == CHOOSE g : IsKept(g)
           S == Seq(1 .. N)
           Turn(s, i) == IF made(i) THEN Append(s, i) ELSE s
           step == [x \in S \X (1 .. N) |-> Turn(x[1], x[2])]
<1>1. New(list) = kept[N]
  BY Zenon DEF New
<1>2. \A i \in 1 .. N : made(i) <=> \A k \in 1 .. i - 1 : Projected(list[k]) # Projected(list[i])
  BY MadeFirst
<1> HIDE DEF made
<1>3. ASSUME NEW s \in S, NEW i \in 1 .. N
      PROVE  Turn(s, i) \in S /\ step[<<s, i>>] = Turn(s, i)
  <2>1. Append(s, i) \in S
    BY AppendProperties
  <2>2. Turn(s, i) \in S
    BY <2>1
  <2> HIDE DEF Turn
  <2> QED
    BY <2>2
<1>4. <<>> \in S
  BY EmptySeq
<1> HIDE DEF step, S
<1>5. PICK g \in LoopsOf(N, S, <<>>, step) : TRUE
  <2> HIDE DEF Turn
  <2> QED
    BY <1>3, <1>4, LoopExists
<1>6. IsKept(g)
  <2>1. g \in [0 .. N -> S] /\ g[0] = <<>> /\ \A i \in 1 .. N : g[i] = step[<<g[i - 1], i>>]
    BY <1>5 DEF LoopsOf
  <2>2. ASSUME NEW i \in 0 .. N
        PROVE  g[i] = IF i = 0 THEN <<>> ELSE Turn(g[i - 1], i)
    <3>1. CASE i = 0
      BY <2>1, <3>1
    <3>2. CASE i # 0
      <4>1. i \in 1 .. N /\ i - 1 \in 0 .. N
        BY <3>2
      <4>2. g[i - 1] \in S /\ g[i] = step[<<g[i - 1], i>>]
        BY <2>1, <4>1
      <4> HIDE DEF Turn
      <4> QED
        BY <1>3, <3>2, <4>1, <4>2
    <3> QED
      BY <3>1, <3>2
  <2> QED
    BY <2>1, <2>2
<1>7. IsKept(kept)
  <2> HIDE DEF IsKept
  <2> QED
    BY <1>6
<1>8. kept[0] = <<>> /\ \A i \in 1 .. N : kept[i] = Turn(kept[i - 1], i)
  <2> HIDE DEF kept
  <2>1. \A i \in 0 .. N : kept[i] = IF i = 0 THEN <<>> ELSE Turn(kept[i - 1], i)
    BY <1>7
  <2> HIDE DEF Turn
  <2> QED
    BY <2>1
<1>9. kept = [i \in 0 .. N |-> kept[i]]
  <2> HIDE DEF kept
  <2> QED
    BY <1>7
<1> HIDE DEF kept
<1> DEFINE Good == {i \in 0 .. N : kept[i] \in S}
<1>10. \A i \in 0 .. N : i \in Good
  <2>1. 0 \in Good
    BY <1>4, <1>8
  <2>2. ASSUME NEW i \in 1 .. N, i - 1 \in Good
        PROVE  i \in Good
    <3>1. kept[i - 1] \in S
      BY <2>2
    <3> HIDE DEF Turn
    <3>2. kept[i] \in S
      BY <1>3, <1>8, <3>1
    <3> QED
      BY <3>2
  <2> HIDE DEF Good
  <2> QED
    BY <2>1, <2>2, UpToLast
<1>11. kept \in [0 .. N -> S]
  BY <1>9, <1>10
<1>12. \A i \in 1 .. N : kept[i] = IF \A k \in 1 .. i - 1 : Projected(list[k]) # Projected(list[i])
                                    THEN Append(kept[i - 1], i) ELSE kept[i - 1]
  BY <1>2, <1>8
<1> QED
  BY <1>1, <1>8, <1>11, <1>12 DEF S, KeepsNew

LEMMA NotLikeLoop ==
  ASSUME IsQuery(query), NEW T, NEW records \in Seq(T), NEW N \in Nat, Len(records) = N
  PROVE  \E f : KeepsUnlike(f, T, records, N)
<1> DEFINE IsKept(g) == g = [i \in 0 .. Len(records) |-> IF i = 0 THEN <<>>
                               ELSE IF query.distinct /\ records[i] \in Range(g[i - 1]) THEN g[i - 1]
                               ELSE Append(g[i - 1], records[i])]
           kept == CHOOSE g : IsKept(g)
           S == Seq(T)
           Turn(s, i) == IF query.distinct /\ records[i] \in Range(s) THEN s ELSE Append(s, records[i])
           step == [x \in S \X (1 .. N) |-> Turn(x[1], x[2])]
<1>1. NotLikeOneBefore(records) = kept[N]
  BY Zenon DEF NotLikeOneBefore
<1>2. \A i \in 1 .. N : records[i] \in T
  BY ElementOfSeq
<1>3. ASSUME NEW s \in S, NEW i \in 1 .. N
      PROVE  Turn(s, i) \in S /\ step[<<s, i>>] = Turn(s, i)
  <2>1. Append(s, records[i]) \in S
    BY <1>2, AppendProperties
  <2>2. Turn(s, i) \in S
    BY <2>1
  <2> HIDE DEF Turn
  <2> QED
    BY <2>2
<1>4. <<>> \in S
  BY EmptySeq
<1> HIDE DEF step, S
<1>5. PICK g \in LoopsOf(N, S, <<>>, step) : TRUE
  <2> HIDE DEF Turn
  <2> QED
    BY <1>3, <1>4, LoopExists
<1>6. IsKept(g)
  <2>1. g \in [0 .. N -> S] /\ g[0] = <<>> /\ \A i \in 1 .. N : g[i] = step[<<g[i - 1], i>>]
    BY <1>5 DEF LoopsOf
  <2>2. ASSUME NEW i \in 0 .. N
        PROVE  g[i] = IF i = 0 THEN <<>> ELSE Turn(g[i - 1], i)
    <3>1. CASE i = 0
      BY <2>1, <3>1
    <3>2. CASE i # 0
      <4>1. i \in 1 .. N /\ i - 1 \in 0 .. N
        BY <3>2
      <4>2. g[i - 1] \in S /\ g[i] = step[<<g[i - 1], i>>]
        BY <2>1, <4>1
      <4> HIDE DEF Turn
      <4> QED
        BY <1>3, <3>2, <4>1, <4>2
    <3> QED
      BY <3>1, <3>2
  <2> QED
    BY <2>1, <2>2
<1>7. IsKept(kept)
  <2> HIDE DEF IsKept
  <2> QED
    BY <1>6
<1>8. kept[0] = <<>> /\ \A i \in 1 .. N : kept[i] = Turn(kept[i - 1], i)
  <2> HIDE DEF kept
  <2>1. \A i \in 0 .. N : kept[i] = IF i = 0 THEN <<>> ELSE Turn(kept[i - 1], i)
    BY <1>7
  <2> HIDE DEF Turn
  <2> QED
    BY <2>1
<1>9. kept = [i \in 0 .. N |-> kept[i]]
  <2> HIDE DEF kept
  <2> QED
    BY <1>7
<1> HIDE DEF kept
<1> DEFINE Good == {i \in 0 .. N : kept[i] \in S}
<1>10. \A i \in 0 .. N : i \in Good
  <2>1. 0 \in Good
    BY <1>4, <1>8
  <2>2. ASSUME NEW i \in 1 .. N, i - 1 \in Good
        PROVE  i \in Good
    <3>1. kept[i - 1] \in S
      BY <2>2
    <3> HIDE DEF Turn
    <3>2. kept[i] \in S
      BY <1>3, <1>8, <3>1
    <3> QED
      BY <3>2
  <2> HIDE DEF Good
  <2> QED
    BY <2>1, <2>2, UpToLast
<1>11. kept \in [0 .. N -> S]
  BY <1>9, <1>10
<1> QED
  BY <1>1, <1>8, <1>11 DEF S, KeepsUnlike

(* The rows that can be fetched, one for each record.                      *)
Kept(list) == IF query.distinct THEN New(list) ELSE [i \in DOMAIN list |-> i]

(* So far: as many records as rows, in the same order, and with DISTINCT a *)
(* record for each row, whether it was kept or not.                        *)
Paired(kept, records, list, i) ==
  /\ Len(kept) = Len(records) /\ Len(kept) <= i
  /\ \A k \in 1 .. Len(kept) : kept[k] \in 1 .. i /\ records[k] = Projected(list[kept[k]])
  /\ IsInjective(kept)
  /\ Range(records) = {Projected(list[k]) : k \in 1 .. i}

LEMMA PairedNext ==
  ASSUME NEW T, NEW U, NEW list, NEW i \in Nat, NEW kept \in Seq(U), NEW records \in Seq(T),
         i + 1 \in U, Projected(list[i + 1]) \in T, Paired(kept, records, list, i)
  PROVE  /\ Paired(Append(kept, i + 1), Append(records, Projected(list[i + 1])), list, i + 1)
         /\ Projected(list[i + 1]) \in Range(records) => Paired(kept, records, list, i + 1)
<1>1. PICK n \in Nat : n = Len(kept) /\ DOMAIN kept = 1 .. n
  BY LenProperties
<1>2. Len(records) = n /\ n <= i /\ \A k \in 1 .. n : kept[k] \in 1 .. i /\ records[k] = Projected(list[kept[k]])
  BY <1>1 DEF Paired
<1>3. IsInjective(kept) /\ Range(records) = {Projected(list[k]) : k \in 1 .. i}
  BY DEF Paired
<1>4. PICK p : p = Projected(list[i + 1])
  OBVIOUS
<1>5. 1 .. i + 1 = 1 .. i \cup {i + 1} /\ i + 1 \notin 1 .. i
  OBVIOUS
<1>6. {Projected(list[k]) : k \in 1 .. i + 1} = Range(records) \cup {p}
  BY <1>3, <1>4, <1>5
<1>7. PICK more : more = Append(kept, i + 1)
  OBVIOUS
<1>8. PICK fuller : fuller = Append(records, p)
  OBVIOUS
<1>9. /\ Len(more) = n + 1 /\ more[n + 1] = i + 1 /\ \A k \in 1 .. n : more[k] = kept[k]
      /\ Len(fuller) = n + 1 /\ fuller[n + 1] = p /\ \A k \in 1 .. n : fuller[k] = records[k]
  BY <1>1, <1>2, <1>4, <1>7, <1>8, AppendProperties
<1>10. i + 1 \notin Range(kept)
  BY <1>1, <1>2, <1>5 DEF Range
<1>11. IsInjective(more)
  BY <1>3, <1>7, <1>10, AppendOnce
<1>12. Range(fuller) = Range(records) \cup {p}
  BY <1>4, <1>8, AppendOnce
<1>13. \A k \in 1 .. n + 1 : more[k] \in 1 .. i + 1 /\ fuller[k] = Projected(list[more[k]])
  <2>1. \A k \in 1 .. n + 1 : k \in 1 .. n \/ k = n + 1
    OBVIOUS
  <2>2. \A k \in 1 .. n : more[k] \in 1 .. i + 1 /\ fuller[k] = Projected(list[more[k]])
    BY <1>2, <1>5, <1>9
  <2>3. more[n + 1] \in 1 .. i + 1 /\ fuller[n + 1] = Projected(list[more[n + 1]])
    BY <1>4, <1>5, <1>9
  <2> QED
    BY <2>1, <2>2, <2>3
<1>14. Paired(more, fuller, list, i + 1)
  <2>1. Len(more) = Len(fuller) /\ Len(more) <= i + 1
    BY <1>2, <1>9
  <2> QED
    BY <1>6, <1>9, <1>11, <1>12, <1>13, <2>1 DEF Paired
<1>15. ASSUME p \in Range(records)
       PROVE  Paired(kept, records, list, i + 1)
  <2>1. Len(kept) <= i + 1
    BY <1>1, <1>2
  <2>2. Range(records) = {Projected(list[k]) : k \in 1 .. i + 1}
    BY <1>6, <1>15
  <2> QED
    BY <1>1, <1>2, <1>3, <1>5, <2>1, <2>2 DEF Paired
<1> QED
  BY <1>4, <1>7, <1>8, <1>14, <1>15

(* What DISTINCT keeps is what it should keep, a record for each row.      *)
LEMMA LockStep ==
  ASSUME IsQuery(query), NEW T, NEW list \in Seq(T)
  PROVE  /\ Kept(list) \in Seq(Nat) /\ IsInjective(Kept(list))
         /\ Len(Kept(list)) \in Nat /\ Len(Kept(list)) <= Len(list)
         /\ \A k \in 1 .. Len(Kept(list)) : Kept(list)[k] \in 1 .. Len(list)
         /\ NotLikeOneBefore(Records(list)) \in Seq(Range(Records(list)))
         /\ Len(NotLikeOneBefore(Records(list))) = Len(Kept(list))
         /\ \A k \in 1 .. Len(Kept(list)) :
              NotLikeOneBefore(Records(list))[k] = Projected(list[Kept(list)[k]])
<1>1. PICK N \in Nat : N = Len(list) /\ DOMAIN list = 1 .. N
  BY LenProperties
<1>2. PICK R : R = Records(list)
  OBVIOUS
<1>3. R = [i \in 1 .. N |-> R[i]] /\ \A i \in 1 .. N : R[i] = Projected(list[i])
  BY <1>1, <1>2 DEF Records
<1>4. R \in Seq(Range(R)) /\ Len(R) = N /\ \A i \in 1 .. N : Projected(list[i]) \in Range(R)
  <2>1. R \in [1 .. N -> Range(R)] /\ \A i \in 1 .. N : Projected(list[i]) \in Range(R)
    BY <1>3 DEF Range
  <2>2. R \in Seq(Range(R))
    BY <2>1, SeqDef
  <2> QED
    BY <2>1, <2>2, LengthOfDomain
<1>5. PICK h : KeepsUnlike(h, Range(R), R, N)
  BY <1>4, NotLikeLoop
<1> USE DEF KeepsUnlike
<1>6. Paired(<<>>, <<>>, list, 0)
  BY DEF Paired, IsInjective, Range
<1>7. CASE query.distinct
  <2>1. PICK f : KeepsNew(f, list, N)
    BY <1>1, NewLoop
  <2> USE DEF KeepsNew
  <2> DEFINE Good == {i \in 0 .. N : Paired(f[i], h[i], list, i)}
  <2>2. 0 \in Good
    BY <1>5, <1>6, <2>1
  <2>3. ASSUME NEW i \in 1 .. N, i - 1 \in Good
        PROVE  i \in Good
    <3>1. PICK j \in Nat : j = i - 1 /\ j + 1 = i /\ j \in 0 .. N
      OBVIOUS
    <3>2. Paired(f[j], h[j], list, j)
      BY <2>3, <3>1
    <3>3. f[j] \in Seq(1 .. N) /\ h[j] \in Seq(Range(R)) /\ j + 1 \in 1 .. N /\ Projected(list[j + 1]) \in Range(R)
      BY <1>4, <1>5, <2>1, <3>1
    <3>4. /\ Paired(Append(f[j], j + 1), Append(h[j], Projected(list[j + 1])), list, j + 1)
          /\ Projected(list[j + 1]) \in Range(h[j]) => Paired(f[j], h[j], list, j + 1)
      BY <3>2, <3>3, PairedNext
    <3>5. Range(h[j]) = {Projected(list[k]) : k \in 1 .. j}
      BY <3>2 DEF Paired
    <3>6. f[i] = IF \A k \in 1 .. j : Projected(list[k]) # Projected(list[i]) THEN Append(f[j], i) ELSE f[j]
      BY <2>1, <3>1
    <3>7. h[i] = IF Projected(list[i]) \in Range(h[j]) THEN h[j] ELSE Append(h[j], Projected(list[i]))
      BY <1>3, <1>5, <1>7, <3>1
    <3>8. CASE Projected(list[i]) \in Range(h[j])
      <4>1. f[i] = f[j] /\ h[i] = h[j]
        BY <3>5, <3>6, <3>7, <3>8
      <4> QED
        BY <3>1, <3>4, <3>8, <4>1
    <3>9. CASE Projected(list[i]) \notin Range(h[j])
      <4>1. f[i] = Append(f[j], i) /\ h[i] = Append(h[j], Projected(list[i]))
        BY <3>5, <3>6, <3>7, <3>9
      <4>2. j + 1 = i
        BY <3>1
      <4>3. Paired(Append(f[j], i), Append(h[j], Projected(list[i])), list, i)
        BY <3>4, <4>2, Zenon
      <4>4. Paired(f[i], h[i], list, i)
        BY <4>1, <4>3, Zenon
      <4> QED
        BY <4>4
    <3> QED
      BY <3>8, <3>9
  <2>4. \A i \in 0 .. N : i \in Good
    <3> HIDE DEF Good
    <3> QED
      BY <2>2, <2>3, UpToLast
  <2>5. Paired(f[N], h[N], list, N)
    <3>1. N \in Good
      BY <2>4
    <3> QED
      BY <3>1
  <2>6. Kept(list) = f[N] /\ f[N] \in Seq(1 .. N) /\ h[N] \in Seq(Range(R))
    BY <1>5, <1>7, <2>1 DEF Kept
  <2>7. f[N] \in Seq(Nat) /\ Len(f[N]) \in Nat
    <3>1. 1 .. N \subseteq Nat
      OBVIOUS
    <3> QED
      BY <2>6, <3>1, SeqMonotonic, LenProperties
  <2> QED
    BY <1>1, <1>2, <1>5, <2>5, <2>6, <2>7 DEF Paired
<1>8. CASE ~query.distinct
  <2> DEFINE Good == {i \in 0 .. N : Len(h[i]) = i /\ \A k \in 1 .. i : h[i][k] = R[k]}
  <2>1. 0 \in Good
    BY <1>5
  <2>2. ASSUME NEW i \in 1 .. N, i - 1 \in Good
        PROVE  i \in Good
    <3>1. PICK j \in Nat : j = i - 1 /\ j + 1 = i /\ j \in 0 .. N
      OBVIOUS
    <3>2. h[j] \in Seq(Range(R)) /\ R[i] \in Range(R) /\ h[i] = Append(h[j], R[i])
      BY <1>3, <1>4, <1>5, <1>8, <3>1
    <3>3. Len(h[j]) = j /\ \A k \in 1 .. j : h[j][k] = R[k]
      BY <2>2, <3>1
    <3>4. Len(h[i]) = i /\ h[i][i] = R[i] /\ \A k \in 1 .. j : h[i][k] = R[k]
      BY <3>1, <3>2, <3>3, AppendProperties
    <3>5. \A k \in 1 .. i : k \in 1 .. j \/ k = i
      BY <3>1
    <3>6. PICK hi : hi = h[i]
      OBVIOUS
    <3>7. Len(hi) = i /\ \A k \in 1 .. i : hi[k] = R[k]
      BY <3>4, <3>5, <3>6, Zenon
    <3> QED
      BY <3>6, <3>7
  <2>3. \A i \in 0 .. N : i \in Good
    <3> HIDE DEF Good
    <3> QED
      BY <2>1, <2>2, UpToLast
  <2>4. Len(h[N]) = N /\ \A k \in 1 .. N : h[N][k] = R[k]
    <3>1. N \in Good
      BY <2>3
    <3> QED
      BY <3>1
  <2>5. PICK kept : kept = Kept(list)
    OBVIOUS
  <2>6. kept = [i \in 1 .. N |-> i]
    BY <1>1, <1>8, <2>5 DEF Kept
  <2>7. kept \in Seq(Nat) /\ Len(kept) = N
    <3>1. kept \in [1 .. N -> Nat]
      BY <2>6
    <3>2. kept \in Seq(Nat)
      BY <3>1, SeqDef
    <3> QED
      BY <3>1, <3>2, LengthOfDomain
  <2>8. IsInjective(kept) /\ \A k \in 1 .. N : kept[k] = k
    BY <2>6 DEF IsInjective
  <2>9. PICK all : all = h[N] /\ all \in Seq(Range(R))
    BY <1>5
  <2>10. all = NotLikeOneBefore(R) /\ Len(all) = N
    BY <1>5, <2>4, <2>9
  <2>11. \A k \in 1 .. N : kept[k] \in 1 .. N /\ all[k] = Projected(list[kept[k]])
    <3>1. \A k \in 1 .. N : kept[k] = k
      BY <2>8
    <3>2. \A k \in 1 .. N : all[k] = R[k]
      BY <2>4, <2>9
    <3> QED
      BY <1>3, <3>1, <3>2, Zenon
  <2>12. Len(kept) \in Nat /\ Len(kept) <= Len(list)
    BY <1>1, <2>7
  <2> QED
    BY <1>1, <1>2, <2>5, <2>7, <2>8, <2>9, <2>10, <2>11, <2>12, Zenon
<1> QED
  BY <1>7, <1>8

(* One record more is fetched.                                             *)
LEMMA OneMore ==
  ASSUME NEW S, NEW s \in Seq(S), NEW n \in Nat, n < Len(s)
  PROVE  Append(SubSeq(s, 1, n), s[n + 1]) = SubSeq(s, 1, n + 1)
<1>1. PICK m \in Nat : m = n + 1
  OBVIOUS
<1>2. m \in 1 .. Len(s) /\ m - 1 = n /\ 1 \in 1 .. m /\ Len(s) \in Nat
  BY <1>1, LenProperties
<1>3. SubSeq(s, 1, m) = SubSeq(s, 1, n) \o << s[m] >>
  BY <1>2, SubSeqRecursiveSecond
<1>4. SubSeq(s, 1, n) \in Seq(S) /\ s[m] \in S
  BY <1>2, SubSeqProperties, ElementOfSeq
<1>5. SubSeq(s, 1, n) \o << s[m] >> = Append(SubSeq(s, 1, n), s[m])
  BY <1>4
<1> QED
  BY <1>1, <1>3, <1>5

-----------------------------------------------------------------------------
(* A query stays one when rows of its tables go.                           *)
LEMMA DeleteTyped ==
  ASSUME IsQuery(query), NEW t \in Table, NEW r \in DOMAIN query.tables[t],
         query' = [query EXCEPT !.tables[t] = RemoveAt(@, r)]
  PROVE  IsQuery(query)' /\ Table' = Table /\ query'.distinct = query.distinct
<1>1. PICK q : q = query'
  OBVIOUS
<1>2. query = [types |-> query.types, tables |-> query.tables, cond |-> query.cond, params |-> query.params,
               order |-> query.order, columns |-> query.columns, distinct |-> query.distinct]
  BY DEF IsQuery
<1>3. PICK ts : ts = [query.tables EXCEPT ![t] = RemoveAt(query.tables[t], r)]
  OBVIOUS
<1>4. q = [types |-> query.types, tables |-> ts, cond |-> query.cond, params |-> query.params,
           order |-> query.order, columns |-> query.columns, distinct |-> query.distinct]
  BY <1>1, <1>2, <1>3
<1>5. /\ q.types = query.types /\ q.tables = ts /\ q.cond = query.cond /\ q.params = query.params
      /\ q.order = query.order /\ q.columns = query.columns /\ q.distinct = query.distinct
  BY <1>4
<1>6. DOMAIN ts = DOMAIN query.tables
  BY <1>3
<1>7. ASSUME NEW u \in DOMAIN query.tables
      PROVE  ts[u] \in Seq([DOMAIN query.types[u] -> Int])
  <2>1. query.tables[u] \in Seq([DOMAIN query.types[u] -> Int])
    BY DEF IsQuery
  <2>2. CASE u = t
    <3>1. PICK S, rs : S = [DOMAIN query.types[u] -> Int] /\ rs = query.tables[u] /\ rs \in Seq(S)
      BY <2>1
    <3>2. ts[u] = SubSeq(rs, 1, r - 1) \o SubSeq(rs, r + 1, Len(rs))
      BY <1>3, <2>2, <3>1 DEF RemoveAt, Table
    <3>3. Len(rs) \in Nat /\ r \in 1 .. Len(rs)
      BY <2>2, <3>1, LenProperties
    <3>4. SubSeq(rs, 1, r - 1) \in Seq(S) /\ SubSeq(rs, r + 1, Len(rs)) \in Seq(S)
      BY <3>1, <3>3, SubSeqProperties
    <3> QED
      BY <3>1, <3>2, <3>4, ConcatProperties
  <2>3. CASE u # t
    BY <1>3, <2>1, <2>3
  <2> QED
    BY <2>2, <2>3
<1>8. ts \in Seq(Range(ts))
  <2>1. query.tables \in Seq(Range(query.tables))
    BY DEF IsQuery
  <2>2. PICK n \in Nat : n = Len(query.tables) /\ DOMAIN query.tables = 1 .. n
    BY <2>1, LenProperties
  <2>3. ts = [i \in 1 .. n |-> ts[i]]
    BY <1>3, <2>2
  <2>4. ts \in [1 .. n -> Range(ts)]
    BY <2>3 DEF Range
  <2> QED
    BY <2>4, SeqDef
<1>9. ColumnsOf(q) = ColumnsOf(query) /\ Operand(q) = Operand(query)
  BY <1>5 DEF ColumnsOf, Operand
<1>10. IsQuery(q)
  BY <1>4, <1>5, <1>6, <1>7, <1>8, <1>9 DEF IsQuery
<1>11. Table' = Table
  BY <1>1, <1>5, <1>6 DEF Table
<1>12. IsQuery(query)' <=> IsQuery(q)
  BY <1>1 DEF IsQuery, ColumnsOf, Operand
<1> QED
  BY <1>1, <1>5, <1>10, <1>11, <1>12

-----------------------------------------------------------------------------
(* The query in the program's hands: what is executed, what is fetched, and*)
(* what DISTINCT translates the number of a row to.                        *)
Executed ==
  /\ IsInjective(found) /\ Range(found) \subseteq Combination
  /\ LastIsString => Selected

Fresh == row = 0 /\ fetched = <<>> /\ ~changed

Translated ==
  /\ IsInjective(translation) /\ translation \in Seq(Nat)
  /\ Len(translation) <= Len(found)

RecordsOfRows ==
  /\ query.distinct /\ translation # Nothing => translation = New(found)
  /\ fetched = SubSeq(NotLikeOneBefore(Records(found)), 1, row)

HandleInv ==
  /\ IsQuery(query) /\ LoopsInv
  /\ row \in Nat /\ Len(fetched) = row /\ row <= Len(found) /\ fetched \in Seq(Range(fetched))
  /\ status \in {"ok", "undefined"}
  /\ query.distinct /\ translation # Nothing => IsInjective(translation)
  /\ phase # "done" => Fresh
  /\ phase = "loops" => FoundOK
  /\ phase = "done" /\ query.distinct /\ translation # Nothing => Translated
  /\ phase = "done" /\ ~changed => Executed /\ RecordsOfRows

(* A step of the execution: the loops find what they should, and when they *)
(* end the rows are in order.                                              *)
LEMMA WhereStep ==
  ASSUME IsQuery(query), LoopsInv, phase = "loops" => FoundOK, WhereNext
  PROVE  /\ query' = query /\ phase # "done" /\ phase' \in {"loops", "done"} /\ LoopsInv'
         /\ phase' = "loops" => FoundOK'
         /\ phase' = "done" => Executed'
<1>1. CASE Execute
  <2>1. query' = query /\ phase = "start" /\ phase' \in {"loops", "done"}
    BY <1>1 DEF Execute
  <2>2. LoopsInv'
    BY <1>1, ExecuteTyped
  <2>3. phase' = "loops" => FoundOK'
    BY <1>1, <2>2, ExecuteFinds
  <2>4. phase' = "done" => Executed'
    BY <1>1, NothingFound DEF Executed
  <2> QED
    BY <2>1, <2>2, <2>3, <2>4
<1>2. CASE Skip
  <2>1. query' = query /\ phase = "loops" /\ phase' = phase
    BY <1>2 DEF Skip
  <2>2. LoopsInv'
    <3>1. /\ InRange /\ Advance /\ UNCHANGED <<query, phase, ordered, level>>
          /\ found' \in Seq([Table -> Nat])
      BY <1>2 DEF Skip, LoopsInv
    <3> QED
      BY <3>1, AdvanceTyped
  <2> QED
    BY <1>2, <2>1, <2>2, SkipFinds
<1>3. CASE Descend
  <2>1. UNCHANGED <<query, found>> /\ phase = "loops" /\ phase' = phase
    BY <1>3 DEF Descend
  <2>2. LoopsInv'
    BY <1>3, DescendTyped
  <2>3. \A rs \in Combination : Passed(rs)' <=> Passed(rs)
    BY <1>3, <2>2, PassedDescend
  <2>4. FoundOK'
    BY <2>1, <2>3, SamePassed
  <2> QED
    BY <2>1, <2>2, <2>4
<1>4. CASE AddRow
  <2>1. query' = query /\ phase = "loops" /\ phase' = phase
    BY <1>4 DEF AddRow
  <2>2. LoopsInv'
    <3>1. /\ InRange /\ Advance /\ UNCHANGED <<query, phase, ordered, level>>
          /\ found' = Append(found, rows) /\ found \in Seq([Table -> Nat]) /\ rows \in [Table -> Nat]
      BY <1>4 DEF AddRow, LoopsInv
    <3>2. found' \in Seq([Table -> Nat])
      BY <3>1, AppendProperties
    <3> QED
      BY <3>1, <3>2, AdvanceTyped
  <2> QED
    BY <1>4, <2>1, <2>2, AddRowFinds
<1>5. CASE Return
  <2>1. UNCHANGED <<query, found>> /\ phase = "loops" /\ phase' = phase
    BY <1>5 DEF Return
  <2>2. LoopsInv'
    BY <1>5, ReturnTyped
  <2>3. \A rs \in Combination : Passed(rs)' <=> Passed(rs)
    BY <1>5, <2>2, PassedReturn
  <2>4. FoundOK'
    BY <2>1, <2>3, SamePassed
  <2> QED
    BY <2>1, <2>2, <2>4
<1>6. CASE Sort
  <2>1. query' = query /\ phase = "loops" /\ phase' = "done"
    BY <1>6 DEF Sort
  <2> QED
    BY <1>6, <2>1, SortTyped DEF Executed
<1> QED
  BY <1>1, <1>2, <1>3, <1>4, <1>5, <1>6 DEF WhereNext

LEMMA SameKept ==
  ASSUME query' = query
  PROVE  \A list : /\ New(list)' = New(list)
                   /\ NotLikeOneBefore(Records(list))' = NotLikeOneBefore(Records(list))
BY SMT DEF New, MadeBy, Projected, Cell, Raw, NotLikeOneBefore, Records

(* What a state of the loops says is the same when they and the tables are.*)
LEMMA SameLoops ==
  ASSUME query' = query, found' = found
  PROVE  /\ Executed' <=> Executed
         /\ UNCHANGED <<ordered, level, rows>> => (FoundOK' <=> FoundOK)
         /\ UNCHANGED <<ordered, level, rows, phase>> => (LoopsInv' <=> LoopsInv)
<1>1. /\ Table' = Table /\ Arrays' = Arrays /\ Combination' = Combination
      /\ LastIsString' <=> LastIsString
  BY SameTables, SameMeaning
<1>2. \A rs : Satisfies(rs)' <=> Satisfies(rs)
  BY SameMeaning
<1>3. \A x, y : Ordered(x, y)' <=> Ordered(x, y)
  BY SameOrder
<1>4. Executed' <=> Executed
  BY <1>1, <1>2, <1>3 DEF Executed, Selected
<1>5. ASSUME UNCHANGED <<ordered, level, rows>>
      PROVE  FoundOK' <=> FoundOK
  <2>1. \A rs : Passed(rs)' <=> Passed(rs)
    BY <1>5 DEF Passed
  <2> QED
    BY <1>1, <1>2, <2>1 DEF FoundOK
<1>6. ASSUME UNCHANGED <<ordered, level, rows, phase>>
      PROVE  LoopsInv' <=> LoopsInv
  BY <1>1, <1>6 DEF LoopsInv
<1> QED
  BY <1>4, <1>5, <1>6

(* The array of rows that are new, at the end of an execution.             *)
LEMMA NewTranslated ==
  ASSUME IsQuery(query), query.distinct, NEW list \in Seq([Table -> Nat])
  PROVE  /\ IsInjective(New(list)) /\ New(list) \in Seq(Nat) /\ Len(New(list)) <= Len(list)
<1>1. Kept(list) = New(list)
  BY DEF Kept
<1>2. Kept(list) \in Seq(Nat) /\ IsInjective(Kept(list)) /\ Len(Kept(list)) <= Len(list)
  BY LockStep
<1> QED
  BY <1>1, <1>2

LEMMA InitKeeps ==
  ASSUME QueryInit
  PROVE  HandleInv
<1>1. /\ query \in Query /\ phase = "start" /\ ordered = <<>> /\ level = 0 /\ rows = Nobody /\ found = <<>>
      /\ row = 0 /\ translation = Nothing /\ status = "ok" /\ fetched = <<>> /\ changed = FALSE
  BY DEF QueryInit, WhereInit
<1>2. IsQuery(query)
  BY <1>1, WhereAssumption
<1>3. \A t \in Table : Len(query.tables[t]) \in Nat
  <2>1. \A t \in Table : query.tables[t] \in Seq([DOMAIN query.types[t] -> Int])
    BY <1>2 DEF IsQuery, Table
  <2> QED
    BY <2>1, LenProperties
<1>4. LoopsInv
  <2>1. <<>> \in Arrays /\ Len(<<>>) = 0
    BY DEF Arrays, IsInjective
  <2>2. rows \in [Table -> Nat] /\ \A t \in Table : rows[t] = 0
    BY <1>1 DEF Nobody, Invalid
  <2>3. \A t \in Table : rows[t] <= Len(query.tables[t]) + 1
    BY <1>3, <2>2
  <2>4. found \in Seq([Table -> Nat])
    BY <1>1, EmptySeq
  <2> QED
    BY <1>1, <2>1, <2>2, <2>3, <2>4 DEF LoopsInv, Invalid
<1>5. fetched \in Seq(Range(fetched)) /\ Len(fetched) = 0 /\ Len(found) = 0
  BY <1>1
<1> QED
  BY <1>1, <1>2, <1>4, <1>5 DEF HandleInv, Fresh

LEMMA ExecuteStepKeeps ==
  ASSUME HandleInv, ExecuteStep
  PROVE  HandleInv'
<1>1. /\ WhereNext /\ UNCHANGED <<row, executions, deletions, fetched, changed>>
      /\ IF phase' = "done" THEN Translate ELSE UNCHANGED <<translation, status>>
  BY DEF ExecuteStep
<1>2. IsQuery(query) /\ LoopsInv /\ (phase = "loops" => FoundOK)
  BY DEF HandleInv
<1>3. /\ query' = query /\ phase # "done" /\ phase' \in {"loops", "done"} /\ LoopsInv'
      /\ phase' = "loops" => FoundOK'
      /\ phase' = "done" => Executed'
  BY <1>1, <1>2, WhereStep
<1>4. row' = 0 /\ fetched' = <<>> /\ ~changed'
  BY <1>1, <1>3 DEF HandleInv, Fresh
<1>5. IsQuery(query)'
  BY <1>2, <1>3 DEF IsQuery, ColumnsOf, Operand
<1>6. PICK list \in Seq([Table -> Nat]) : list = found'
  <2>1. Table' = Table
    BY <1>3, SameTables
  <2> QED
    BY <1>3, <2>1 DEF LoopsInv
<1>7. Len(list) \in Nat /\ 0 <= Len(list)
  BY LenProperties
<1>8. /\ row' \in Nat /\ Len(fetched') = row' /\ row' <= Len(found') /\ fetched' \in Seq(Range(fetched'))
      /\ Fresh'
  BY <1>4, <1>6, <1>7 DEF Fresh
<1>9. CASE phase' = "loops"
  <2>1. UNCHANGED <<translation, status>>
    BY <1>1, <1>9
  <2>2. status' \in {"ok", "undefined"} /\ (query'.distinct /\ translation' # Nothing => IsInjective(translation'))
    BY <1>3, <2>1 DEF HandleInv
  <2> QED
    BY <1>3, <1>5, <1>8, <1>9, <2>2 DEF HandleInv
<1>10. CASE phase' = "done"
  <2>1. Translate
    BY <1>1, <1>10
  <2>2. status' \in {"ok", "undefined"}
    BY <2>1 DEF Translate, HandleInv
  <2>3. query.distinct => translation' = Nothing \/ translation' = New(list)
    BY <1>6, <2>1 DEF Translate
  <2>4. query.distinct => IsInjective(New(list)) /\ New(list) \in Seq(Nat) /\ Len(New(list)) <= Len(list)
    BY <1>2, NewTranslated
  <2>5. New(list)' = New(list) /\ NotLikeOneBefore(Records(list))' = NotLikeOneBefore(Records(list))
    BY <1>3, SameKept
  <2>6. query'.distinct /\ translation' # Nothing => Translated'
    BY <1>3, <1>6, <2>3, <2>4 DEF Translated
  <2>7. RecordsOfRows'
    <3>1. query'.distinct /\ translation' # Nothing => translation' = New(list)'
      BY <1>3, <2>3, <2>5
    <3>2. SubSeq(NotLikeOneBefore(Records(list))', 1, row') = <<>>
      BY <1>4, SubSeqEmpty
    <3> QED
      BY <1>4, <1>6, <3>1, <3>2 DEF RecordsOfRows
  <2>8. query'.distinct /\ translation' # Nothing => IsInjective(translation')
    BY <2>6 DEF Translated
  <2> QED
    BY <1>3, <1>5, <1>8, <1>10, <2>2, <2>6, <2>7, <2>8 DEF HandleInv
<1> QED
  BY <1>3, <1>9, <1>10

LEMMA ExecuteAgainKeeps ==
  ASSUME HandleInv, ExecuteAgain
  PROVE  HandleInv'
<1>1. /\ phase = "done" /\ phase' = "start" /\ row' = 0 /\ fetched' = <<>> /\ changed' = FALSE
      /\ UNCHANGED <<query, ordered, level, rows, found, translation, status>>
  BY DEF ExecuteAgain
<1>2. IsQuery(query) /\ LoopsInv
  BY DEF HandleInv
<1>3. IsQuery(query)'
  BY <1>1, <1>2 DEF IsQuery, ColumnsOf, Operand
<1>4. LoopsInv'
  <2>1. Table' = Table /\ Arrays' = Arrays
    BY <1>1, SameTables
  <2> QED
    BY <1>1, <1>2, <2>1 DEF LoopsInv
<1>5. Len(found) \in Nat
  BY <1>2, LenProperties DEF LoopsInv
<1>6. row' \in Nat /\ Len(fetched') = row' /\ row' <= Len(found') /\ fetched' \in Seq(Range(fetched'))
  BY <1>1, <1>5
<1> QED
  BY <1>1, <1>3, <1>4, <1>6 DEF HandleInv, Fresh

(* The number below which a row can be fetched, and the rows there are.    *)
LEMMA FetchableFacts ==
  ASSUME HandleInv, CanFetch
  PROVE  /\ Len(Fetchable) \in Nat /\ Len(Fetchable) <= Len(found)
         /\ ~changed => Fetchable = Kept(found)
<1>1. phase = "done" /\ (query.distinct => translation # Nothing)
  BY DEF CanFetch
<1>2. found \in Seq([Table -> Nat])
  BY DEF HandleInv, LoopsInv
<1>3. CASE query.distinct
  <2>1. Fetchable = translation /\ Translated /\ (~changed => translation = New(found))
    BY <1>1, <1>3 DEF Fetchable, HandleInv, RecordsOfRows
  <2> QED
    BY <1>3, <2>1, LenProperties DEF Translated, Kept
<1>4. CASE ~query.distinct
  <2>1. PICK n \in Nat : n = Len(found) /\ DOMAIN found = 1 .. n
    BY <1>2, LenProperties
  <2>2. PICK all : all = Fetchable
    OBVIOUS
  <2>3. all = [i \in 1 .. n |-> i] /\ all = Kept(found)
    BY <1>4, <2>1, <2>2 DEF Fetchable, Kept
  <2>4. all \in [1 .. n -> Nat]
    BY <2>3
  <2>5. Len(all) = n
    BY <2>4, SeqDef, LengthOfDomain
  <2> QED
    BY <2>1, <2>2, <2>3, <2>5
<1> QED
  BY <1>3, <1>4

LEMMA FetchKeeps ==
  ASSUME HandleInv, Fetch
  PROVE  HandleInv'
<1>1. /\ CanFetch /\ row < Len(Fetchable) /\ row' = row + 1
      /\ fetched' = Append(fetched, Projected(found[Fetchable[row + 1]]))
      /\ UNCHANGED <<query, phase, ordered, level, rows, found, translation, status, changed>>
  BY DEF Fetch, vars
<1>2. /\ IsQuery(query) /\ LoopsInv /\ row \in Nat /\ Len(fetched) = row /\ row <= Len(found)
      /\ fetched \in Seq(Range(fetched))
  BY DEF HandleInv
<1>3. phase = "done"
  BY <1>1 DEF CanFetch
<1>4. IsQuery(query)'
  BY <1>1, <1>2 DEF IsQuery, ColumnsOf, Operand
<1>5. LoopsInv' /\ (Executed' <=> Executed)
  BY <1>1, <1>2, SameLoops
<1>6. Len(Fetchable) \in Nat /\ Len(Fetchable) <= Len(found) /\ (~changed => Fetchable = Kept(found))
  BY <1>1, FetchableFacts
<1>7. PICK n \in Nat : n = Len(found)
  BY <1>2, LenProperties DEF LoopsInv
<1>8. row' \in Nat /\ row' <= Len(found')
  BY <1>1, <1>2, <1>6, <1>7
<1>9. PICK p : p = Projected(found[Fetchable[row + 1]])
  OBVIOUS
<1>10. Len(fetched') = row' /\ fetched' \in Seq(Range(fetched'))
  <2>1. PICK T : T = Range(fetched) \cup {p}
    OBVIOUS
  <2>2. fetched \in Seq(T) /\ p \in T
    BY <1>2, <2>1, SeqMonotonic
  <2>3. PICK s : s = fetched' /\ s = Append(fetched, p)
    BY <1>1, <1>9
  <2>4. s \in Seq(T) /\ Len(s) = row + 1 /\ Range(s) = Range(fetched) \cup {p}
    <3>1. s \in Seq(T) /\ Len(s) = Len(fetched) + 1
      BY <2>2, <2>3, AppendProperties
    <3>2. Range(s) = Range(fetched) \cup {p}
      BY <2>2, <2>3, AppendOnce
    <3> QED
      BY <1>2, <3>1, <3>2
  <2> QED
    BY <1>1, <2>1, <2>3, <2>4
<1>11. ASSUME ~changed
       PROVE  RecordsOfRows'
  <2>1. PICK list \in Seq([Table -> Nat]) : list = found
    BY <1>2 DEF LoopsInv
  <2>2. PICK all : all = NotLikeOneBefore(Records(list))
    OBVIOUS
  <2>3. PICK S : all \in Seq(S)
    BY <1>2, <2>2, LockStep
  <2>4. Len(all) = Len(Kept(list)) /\ \A k \in 1 .. Len(Kept(list)) : all[k] = Projected(list[Kept(list)[k]])
    BY <1>2, <2>2, LockStep
  <2>5. Fetchable = Kept(list) /\ row < Len(Kept(list)) /\ Len(Kept(list)) \in Nat
    BY <1>1, <1>6, <1>11, <2>1
  <2>6. row + 1 \in 1 .. Len(Kept(list))
    BY <1>2, <2>5
  <2>7. all[row + 1] = p
    BY <1>9, <2>1, <2>4, <2>5, <2>6
  <2>8. RecordsOfRows
    BY <1>3, <1>11 DEF HandleInv
  <2>9. fetched = SubSeq(all, 1, row)
    BY <2>1, <2>2, <2>8 DEF RecordsOfRows
  <2>10. Append(SubSeq(all, 1, row), all[row + 1]) = SubSeq(all, 1, row + 1)
    BY <1>2, <2>3, <2>4, <2>5, OneMore
  <2>11. fetched' = SubSeq(all, 1, row')
    BY <1>1, <1>9, <2>7, <2>9, <2>10
  <2>12. New(list)' = New(list) /\ NotLikeOneBefore(Records(list))' = NotLikeOneBefore(Records(list))
    BY <1>1, SameKept
  <2>13. query'.distinct /\ translation' # Nothing => translation' = New(list)'
    BY <1>1, <2>1, <2>8, <2>12 DEF RecordsOfRows
  <2> QED
    BY <1>1, <2>1, <2>2, <2>11, <2>12, <2>13 DEF RecordsOfRows
<1>12. Translated' <=> Translated
  BY <1>1 DEF Translated
<1> QED
  BY <1>1, <1>3, <1>4, <1>5, <1>8, <1>10, <1>11, <1>12 DEF HandleInv

LEMMA CloseKeeps ==
  ASSUME HandleInv, Close
  PROVE  HandleInv'
<1>1. /\ CanFetch /\ translation' = Nothing /\ phase = "done"
      /\ UNCHANGED <<query, phase, ordered, level, rows, found, row, status, fetched, changed>>
  BY DEF Close, CanFetch, vars
<1>2. IsQuery(query) /\ LoopsInv
  BY DEF HandleInv
<1>3. IsQuery(query)'
  BY <1>1, <1>2 DEF IsQuery, ColumnsOf, Operand
<1>4. LoopsInv' /\ (Executed' <=> Executed)
  BY <1>1, <1>2, SameLoops
<1>5. ASSUME ~changed
      PROVE  RecordsOfRows'
  <2>1. NotLikeOneBefore(Records(found)) = NotLikeOneBefore(Records(found))'
    <3>1. PICK list : list = found
      OBVIOUS
    <3>2. NotLikeOneBefore(Records(list))' = NotLikeOneBefore(Records(list))
      BY <1>1, SameKept
    <3> QED
      BY <1>1, <3>1, <3>2
  <2> QED
    BY <1>1, <1>5, <2>1 DEF RecordsOfRows, HandleInv
<1> QED
  BY <1>1, <1>3, <1>4, <1>5 DEF HandleInv

LEMMA DeleteBelowKeeps ==
  ASSUME HandleInv, DeleteBelow
  PROVE  HandleInv'
<1>1. /\ phase = "done" /\ changed' = TRUE
      /\ UNCHANGED <<phase, ordered, level, rows, found, row, translation, status, fetched>>
  BY DEF DeleteBelow
<1>2. PICK t \in Table : \E r \in DOMAIN query.tables[t] : query' = [query EXCEPT !.tables[t] = RemoveAt(@, r)]
  BY DEF DeleteBelow
<1>3. IsQuery(query) /\ LoopsInv
  BY DEF HandleInv
<1>4. IsQuery(query)' /\ Table' = Table /\ query'.distinct = query.distinct
  BY <1>2, <1>3, DeleteTyped
<1>5. LoopsInv'
  <2>1. level = 0 /\ \A u \in Table : rows[u] = 0
    <3>1. level = 0
      BY <1>1, <1>3 DEF LoopsInv
    <3> QED
      BY <1>3, <3>1 DEF LoopsInv, Invalid
  <2>2. \A u \in Table : Len(query'.tables[u]) \in Nat
    <3>1. \A u \in Table : query'.tables[u] \in Seq([DOMAIN query'.types[u] -> Int])
      BY <1>4 DEF IsQuery, Table
    <3> QED
      BY <3>1, LenProperties
  <2>3. \A u \in Table : rows'[u] <= Len(query'.tables[u]) + 1
    BY <1>1, <2>1, <2>2
  <2>4. Arrays' = Arrays
    BY <1>4 DEF Arrays
  <2>5. \A i \in 1 .. level' - 1 : FALSE
    BY <1>1, <2>1
  <2> QED
    BY <1>1, <1>3, <1>4, <2>3, <2>4, <2>5 DEF LoopsInv
<1>6. Translated' <=> Translated
  BY <1>1 DEF Translated
<1> QED
  BY <1>1, <1>4, <1>5, <1>6 DEF HandleInv

LEMMA StutterKeeps ==
  ASSUME HandleInv, UNCHANGED <<vars, handle>>
  PROVE  HandleInv'
<1>1. UNCHANGED <<query, phase, ordered, level, rows, found, row, translation, status, fetched, changed>>
  BY DEF vars, handle
<1>2. IsQuery(query)'
  BY <1>1 DEF IsQuery, ColumnsOf, Operand, HandleInv
<1>3. (LoopsInv' <=> LoopsInv) /\ (Executed' <=> Executed) /\ (FoundOK' <=> FoundOK)
  BY <1>1, SameLoops
<1>4. PICK list : list = found
  OBVIOUS
<1>5. New(list)' = New(list) /\ NotLikeOneBefore(Records(list))' = NotLikeOneBefore(Records(list))
  BY <1>1, SameKept
<1>6. RecordsOfRows' <=> RecordsOfRows
  BY <1>1, <1>4, <1>5 DEF RecordsOfRows
<1>7. (Translated' <=> Translated) /\ (Fresh' <=> Fresh)
  BY <1>1 DEF Translated, Fresh
<1> QED
  BY <1>1, <1>2, <1>3, <1>6, <1>7 DEF HandleInv

(* The invariant: of the loops what they have found so far, of an executed *)
(* query that the rows found are those of the condition in the order asked *)
(* for, that DISTINCT translates to the rows that are new among them, and  *)
(* that the records fetched are the first of the translated rows.          *)
THEOREM HandleInvariant == QuerySpec => []HandleInv
<1>1. QueryInit => HandleInv
  BY InitKeeps
<1>2. HandleInv /\ [QueryNext]_<<vars, handle>> => HandleInv'
  BY ExecuteStepKeeps, ExecuteAgainKeeps, FetchKeeps, CloseKeeps, DeleteBelowKeeps, StutterKeeps DEF QueryNext
<1> QED
  BY <1>1, <1>2, PTL DEF QuerySpec

(* The loops keep to the rows there are, a table is at a row while its loop*)
(* runs, the rows found are one of each table, and as many records have    *)
(* been fetched as the number of the row says, never more than were found. *)
THEOREM QueryTyped == QuerySpec => []QueryTypeOK
<1>1. HandleInv => QueryTypeOK
  <2> SUFFICES ASSUME HandleInv
               PROVE  QueryTypeOK
    OBVIOUS
  <2>1. /\ IsQuery(query) /\ LoopsInv /\ Len(fetched) = row /\ row <= Len(found)
        /\ status \in {"ok", "undefined"} /\ (query.distinct /\ translation # Nothing => IsInjective(translation))
    BY DEF HandleInv
  <2>2. ASSUME ~changed, phase # "start"
        PROVE  WhereTypeOK
    <3>1. IsInjective(ordered) /\ Range(ordered) \subseteq Table
      <4>1. ordered \in Seq(Table) /\ IsInjective(ordered)
        BY <2>1 DEF LoopsInv, Arrays
      <4> QED
        BY <4>1, RangeOfSeq DEF Range
    <3>2. Range(found) \subseteq Combination
      <4>1. phase = "loops" \/ phase = "done"
        BY <2>1, <2>2 DEF LoopsInv
      <4> QED
        BY <2>2, <4>1 DEF HandleInv, FoundOK, Executed
    <3>3. \A t \in Table : rows[t] \in 0 .. Len(query.tables[t]) + 1
      <4>1. \A t \in Table : query.tables[t] \in Seq([DOMAIN query.types[t] -> Int])
        BY <2>1 DEF IsQuery, Table
      <4>2. \A t \in Table : Len(query.tables[t]) \in Nat
        BY <4>1, LenProperties
      <4>3. \A t \in Table : rows[t] \in Nat /\ rows[t] <= Len(query.tables[t]) + 1
        BY <2>1 DEF LoopsInv
      <4> QED
        BY <4>2, <4>3
    <3> QED
      BY <2>1, <3>1, <3>2, <3>3 DEF WhereTypeOK, LoopsInv
  <2> QED
    BY <2>1, <2>2 DEF QueryTypeOK
<1> QED
  BY <1>1, HandleInvariant, PTL

(* While the loops run, of the combinations of rows they have been through *)
(* those that satisfy the condition are found, each once: evaluating it    *)
(* before every table has a row loses none, whatever the order of tables.  *)
THEOREM LoopsFindAll == QuerySpec => []FoundSoFar
<1>1. HandleInv => FoundSoFar
  <2> SUFFICES ASSUME HandleInv, phase = "loops", LastIsString
               PROVE  IsInjective(found) /\ Range(found) = {rs \in Combination : Passed(rs) /\ Satisfies(rs)}
    BY DEF FoundSoFar
  <2>1. FoundOK
    BY DEF HandleInv
  <2>2. \A rs \in Combination : rs \in Range(found) <=> Passed(rs) /\ Satisfies(rs)
    BY <2>1 DEF FoundOK
  <2> QED
    BY <2>1, <2>2 DEF FoundOK
<1> QED
  BY <1>1, HandleInvariant, PTL

(* What is fetched of an executed query is, one after the other, the rows  *)
(* that satisfy the condition, in the order asked for, and with DISTINCT   *)
(* those that are not like one before: however often it is executed again  *)
(* or closed, and whatever rows went before that.                          *)
THEOREM FetchGivesSelected == QuerySpec => []FetchesSelected
<1>1. HandleInv => FetchesSelected
  <2> SUFFICES ASSUME HandleInv, phase = "done", ~changed, LastIsString
               PROVE  /\ Selected
                      /\ fetched = SubSeq(NotLikeOneBefore([i \in DOMAIN found |-> Projected(found[i])]), 1, row)
    BY DEF FetchesSelected
  <2>1. Executed /\ RecordsOfRows
    BY DEF HandleInv
  <2> QED
    BY <2>1 DEF Executed, RecordsOfRows, Records
<1> QED
  BY <1>1, HandleInvariant, PTL
=============================================================================
