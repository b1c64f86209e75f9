----------------------------- MODULE MCCatalog -----------------------------
(* Catalog for TLC: the tables and the columns statements may name.        *)
EXTENDS Catalog

CONSTANTS k, d, e             \* names of columns

Permanent(n) == [name |-> n, temp |-> FALSE]
Temp(n) == [name |-> n, temp |-> TRUE]

(* A table with a key; one with a temporary column before another, as the  *)
(* test's T3 (tests/testdatabase.c:3413); a temporary table.               *)
MCDefinitions == {<<Permanent(k)>>, <<Temp(e), Permanent(k)>>, <<Temp(k)>>}
MCAddable == {Temp(d)}
=============================================================================
