------------------------------ MODULE MCWhere ------------------------------
(* Queries over tables of a string and a number column: two tables of four *)
(* and three rows, NULL among their cells, with conditions of up to three  *)
(* comparisons; and three tables joined in a chain, one of them empty in   *)
(* some.  Columns are asked for that leave rows alike.                     *)
EXTENDS QueryHandle

LeastInt == -9
LeastShort == -8

At(t, c) == [table |-> t, column |-> c]
Col(t, c) == [kind |-> "column", at |-> At(t, c)]
Is(v) == [kind |-> "value", is |-> v]
Arg == [kind |-> "wildcard"]

Str(t, op, right) == [op |-> op, left |-> At(t, 1), right |-> right, string |-> TRUE]
Num(t, op, right) == [op |-> op, left |-> At(t, 2), right |-> right, string |-> FALSE]
IsNull(t, c) == [op |-> "null", left |-> At(t, c)]
NotNull(t, c) == [op |-> "notnull", left |-> At(t, c)]
Both(op, left, right) == [op |-> op, left |-> left, right |-> right]

Leaf == {Str(1, "=", Arg), Str(2, "=", Is(1)), Str(1, "=", Col(2, 1)), Str(2, "<>", Arg),
         Num(1, ">", Arg), Num(2, "<>", Col(1, 2)), Num(2, "<=", Arg), IsNull(1, 2), NotNull(2, 1)}
Ops == {"and", "or"}

Two == {<<>>} \cup {<<l>> : l \in Leaf} \cup {<<Both(o, 2, 3), l, m>> : o \in Ops, l, m \in Leaf}
Few == {Str(1, "=", Col(2, 1)), Num(1, ">", Arg), Str(2, "=", Arg), Num(2, "=", Arg), IsNull(2, 2), Str(1, "<>", Is(2))}
Three == {<<Both(o, 2, 5), Both(p, 3, 4), k, l, m>> : o, p \in Ops, k, l, m \in Few}
         \cup {<<Both(o, 2, 3), k, Both(p, 4, 5), l, m>> : o, p \in Ops, k, l, m \in Few}

One == <<<<0, 1>>, <<1, 0>>, <<1, 2>>, <<2, 1>>>>
Other == <<<<1, 2>>, <<0, 0>>, <<2, 1>>>>

Join(cond, params, order, distinct) ==
  [types |-> <<<<"string", "number">>, <<"string", "number32">>>>,
   tables |-> <<One, Other>>, cond |-> cond, params |-> params, order |-> order,
   columns |-> <<At(2, 1), Unnamed, At(1, 1)>>, distinct |-> distinct]

Chain(last, cond, params, distinct) ==
  [types |-> <<<<"string", "number">>, <<"string", "number32">>, <<"string", "number">>>>,
   tables |-> <<SubSeq(One, 2, 3), SubSeq(Other, 1, 2), last>>, cond |-> cond, params |-> params, order |-> <<>>,
   columns |-> <<At(3, 1), At(1, 2)>>, distinct |-> distinct]

Arguments == {<<1, 2>>, <<2, 0>>, <<0, 1>>}

Queries ==
  {Join(c, p, <<At(2, 2)>>, d) : c \in Two, p \in Arguments, d \in BOOLEAN}
  \cup {Join(c, <<1, 2, 1>>, <<At(1, 1), At(2, 1)>>, FALSE) : c \in Three}
  \cup {Chain(last, <<Both(o, 2, 3), k, Both("and", 4, 5), l, m>>, <<1, 2>>, TRUE) :
          last \in {<<>>, One}, o \in Ops,
          k \in {Str(3, "=", Col(2, 1)), Num(1, "<", Col(3, 2)), Num(3, ">=", Arg)},
          l \in {Str(2, "=", Col(1, 1)), Num(1, "<=", Arg), IsNull(2, 2)}, m \in Leaf}

StringQueries == {Join(<<Both("and", 2, 3), Str(1, "=", Arg), Str(2, "=", Arg)>>, <<1, 2>>, <<>>, FALSE)}
=============================================================================
