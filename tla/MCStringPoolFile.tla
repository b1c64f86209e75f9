-------------------------- MODULE MCStringPoolFile --------------------------
(* Words count up to 2.  A string of one byte, one whose length needs a    *)
(* second word, and one of two bytes; the long one has no form in one of   *)
(* the codepages, a short one none in the other.                           *)
EXTENDS StringPoolFile

Lengths == <<1, 4, 2>>

Codepages == {"acp", "latin"}
Without == [cp \in Codepages |-> IF cp = "acp" THEN {2} ELSE {3}]
=============================================================================
