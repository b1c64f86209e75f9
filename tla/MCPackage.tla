----------------------------- MODULE MCPackage -----------------------------
(* Package for TLC.                                                        *)
EXTENDS Package, TLC

CONSTANTS x, y, o1, o2, n1, n2, n3

MCSummaryName == <<5, 83, 117>>                          \* "\5Su"

(* Keys "a", "b " and "ab", " ": with a character that is no digit of the  *)
(* code, and one name if there were no dots between.                       *)
MCKeys == {<< <<97>>, <<98, 32>> >>, << <<97, 98>>, <<32>> >>}

(* The name of the first row's cell, and the summary information.          *)
MCNames == {<<66, 46, 97, 46, 98, 32>>, MCSummaryName}

(* The code page, a text, a number and a time (include/libmsi-types.h).    *)
MCProperties == (1 :> "I2") @@ (2 :> "LPSTR") @@ (12 :> "FILETIME")

(* As this library writes it; with a time that is a text; with an entry in *)
(* the middle that has another type, is unknown, or too long; with another *)
(* type the second time; with more entries than are read.                  *)
MCContents == {
  <<Property(1, "I2", 1, TRUE), Property(2, "LPSTR", 2, TRUE)>>,
  <<Property(12, "LPSTR", 1, TRUE), Property(1, "I2", 1, TRUE)>>,
  <<Property(2, "LPSTR", 1, TRUE), Property(1, "I4", 1, TRUE), Property(12, "FILETIME", 1, TRUE)>>,
  <<Property(17, "LPSTR", 1, TRUE), Property(2, "LPSTR", 1, TRUE)>>,
  <<Property(1, "I2", 2, TRUE), Property(12, "FILETIME", 1, FALSE), Property(2, "LPSTR", 1, TRUE)>>,
  <<Property(1, "I2", 1, TRUE), Property(1, "I4", 2, TRUE), Property(2, "LPSTR", 1, TRUE)>>,
  [i \in 1 .. MSI_MAX_PROPS + 1 |-> Property(1, "I2", 1, TRUE)]}

Change(id, value) == [id |-> id, value |-> value]
MCImports == {<<Change(1, 2), Change(12, 2)>>, <<Change(2, 1)>>, <<Change(17, 1)>>}

(* A stream; a directory with a stream, and one without.                   *)
Node(path, dir) == [path |-> path, dir |-> dir]
MCTrees == {{Node(<<1>>, FALSE)},
            {Node(<<1>>, TRUE), Node(<<1, 2>>, FALSE), Node(<<2>>, TRUE)}}

MCSteps == [streams |-> 5, summary |-> 5, storages |-> 5]

MCSymmetry == Permutations({x, y}) \cup Permutations({o1, o2})
=============================================================================
