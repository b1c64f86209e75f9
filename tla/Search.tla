------------------------------- MODULE Search -------------------------------
(***************************************************************************)
(* What a binary search over an array may answer, as libmsi uses it: over  *)
(* the sorted index of the string table (libmsi/string.c) and over the     *)
(* rows of a table (libmsi/table.c).                                       *)
(*                                                                         *)
(* A search sees of the array only how the key compares with each element  *)
(* it looks at, so the array is given as the sequence of those comparisons *)
(* (1: the key is greater, 0: equal, -1: smaller).  Both searches of the   *)
(* library compare "key with element", in that order.                      *)
(*                                                                         *)
(* The module BinarySearch is the loop itself and shows that its answers   *)
(* are the ones defined here, for arrays in any order.  The modules whose  *)
(* operations search use Hits and Gaps, and so never depend on how far a   *)
(* search got before it found its answer.                                  *)
(***************************************************************************)
EXTENDS Integers, Sequences

Sign == {-1, 0, 1}

(* The sign of strcmp(x, y); the order of strings is the order of the      *)
(* integers that stand for them.                                           *)
Compare(x, y) == IF x < y THEN -1 ELSE IF x > y THEN 1 ELSE 0

(* Where the key may be found.                                             *)
Hits(c) == {i \in 1 .. Len(c) : c[i] = 0}

(* Where an unsuccessful search may stop: the number of elements to the    *)
(* left of the insertion point.  The elements on both sides of it (if any) *)
(* were compared with the key.                                             *)
Gaps(c) == {p \in 0 .. Len(c) : /\ p > 0 => c[p] = 1
                                /\ p < Len(c) => c[p + 1] = -1}

(* An array in ascending order without duplicates, as the key sees it.     *)
Ascending(c) == \A i, j \in 1 .. Len(c) : i < j => c[j] <= c[i] /\ ~(c[i] = 0 /\ c[j] = 0)

(* The sequence q with x put after its first p elements: memmove to make   *)
(* room, then the assignment.                                              *)
Inserted(q, p, x) ==
  [i \in 1 .. Len(q) + 1 |-> IF i <= p THEN q[i]
                             ELSE IF i = p + 1 THEN x
                             ELSE q[i - 1]]
=============================================================================
