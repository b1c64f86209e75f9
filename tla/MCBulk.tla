------------------------------- MODULE MCBulk ------------------------------
(* Bulk for TLC.                                                           *)
EXTENDS Bulk

MCNumeral == {"0", "1", "2"}

K == Column("k", "text", 8, FALSE, TRUE)
NullableK == Column("k", "text", 8, TRUE, TRUE)
D == Column("d", "text", 8, TRUE, FALSE)
WideD == Column("d", "text", 0, TRUE, FALSE)
NumberD == Column("d", "int", 2, TRUE, FALSE)
E == Column("e", "int", 4, FALSE, FALSE)
ObjectD == Column("d", "object", 0, TRUE, FALSE)
HeldD == Column("d", "temporary", 8, TRUE, FALSE)

a == <<"a">>
b == <<"b">>
quoted == <<"a", Quote>>
tabbed == <<"a", Tab, "b">>

Of(cols, rows) == [cols |-> cols, rows |-> rows]

(* Contents of `t`: ordinary ones; keys that are NULL or have a quote;     *)
(* values that break a line; columns more or less, of other types.         *)
MCContents == {
  Of(<<K, D>>, {<<a, a>>}),
  Of(<<K, WideD>>, {<<a, b>>, <<b, Null>>}),
  Of(<<K, D>>, {<<quoted, a>>, <<b, tabbed>>}),
  Of(<<NullableK, D>>, {<<Null, a>>, <<a, Null>>}),
  Of(<<NullableK, D>>, {<<Null, b>>, <<b, b>>}),
  Of(<<NullableK>>, {<<Null>>, <<a>>}),
  Of(<<K, D, E>>, {<<a, a, <<"1">> >>}),
  Of(<<K, D, E>>, {<<tabbed, <<"2">>, <<"0">> >>, <<b, b, <<"1">> >>}),
  Of(<<K, NumberD>>, {<<a, <<"1">> >>, <<<<"a", Return, "b">>, Null>>}),
  Of(<<K, D>>, {<<<<"a", Newline, Newline>>, <<"a", Mark>> >>}),
  Of(<<K, ObjectD>>, {<<a, <<"object">> >>, <<b, Null>>}),
  Of(<<K, HeldD>>, {<<a, b>>})}

(* A second table, and the errors of an earlier merge, in a table with one *)
(* column more or without.                                                 *)
MCSecond == {Of(<<K, D>>, {<<a, a>>}), Of(<<K, D>>, {<<a, b>>, <<b, b>>})}
Errors == Of(ErrorColumns, {ErrorRow("t", 1)})
WideErrors == Of(Append(ErrorColumns, D), {<<<<"u">>, <<"1">>, a>>})
MCErrors == {"errors", "u"}

MCSources ==
  {"t" :> t : t \in MCContents}
  \cup {"t" :> t @@ "u" :> u : t \in MCContents, u \in MCSecond}
  \cup {"t" :> t @@ "u" :> u @@ "errors" :> errors :
          t \in {Of(<<K, D>>, {<<a, a>>}), Of(<<K, D>>, {<<a, b>>})}, u \in MCSecond,
          errors \in {Errors, WideErrors}}
  \cup {"u" :> u : u \in MCSecond}
=============================================================================
