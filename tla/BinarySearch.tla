---------------------------- MODULE BinarySearch ----------------------------
(***************************************************************************)
(* The binary search loop that libmsi writes three times: find_insert_index*)
(* and _libmsi_id_from_string_utf8 over the sorted index of the string     *)
(* table (libmsi/string.c), and find_insert_index over the rows of a table *)
(* (libmsi/table.c).  One step of the module is one iteration of the loop. *)
(*                                                                         *)
(* Positions are the code's, from 0; element i of the array is cmp[i + 1]. *)
(* Nothing is assumed about the order of the array: rows of a table are    *)
(* not kept in order (see the module Table).                               *)
(***************************************************************************)
EXTENDS Search, FiniteSets

VARIABLES cmp,                \* how the key compares with each element
          low, high,          \* the loop's variables
          answer              \* NoAnswer, or what the search returned

vars == <<cmp, low, high, answer>>

NoAnswer   == [found |-> FALSE, at |-> -1]
Hit(i)     == [found |-> TRUE,  at |-> i]
Miss(i)    == [found |-> FALSE, at |-> i]

Init == /\ cmp \in Seq(Sign)
        /\ low = 0
        /\ high = Len(cmp) - 1
        /\ answer = NoAnswer

Middle == (low + high) \div 2

(* One iteration: the key is smaller, greater, or found.                   *)
Look == /\ answer = NoAnswer
        /\ low <= high
        /\ LET i == Middle
               c == cmp[i + 1] IN
           \/ /\ c < 0
              /\ high' = i - 1
              /\ UNCHANGED <<low, answer>>
           \/ /\ c > 0
              /\ low' = i + 1
              /\ UNCHANGED <<high, answer>>
           \/ /\ c = 0
              /\ answer' = Hit(i)
              /\ UNCHANGED <<low, high>>
        /\ UNCHANGED cmp

(* The loop ends without a hit: the caller gets high + 1 (or "not found"). *)
GiveUp == /\ answer = NoAnswer
          /\ low > high
          /\ answer' = Miss(high + 1)
          /\ UNCHANGED <<cmp, low, high>>

Next == Look \/ GiveUp

Spec == Init /\ [][Next]_vars

-----------------------------------------------------------------------------

TypeOK == /\ cmp \in Seq(Sign)
          /\ low \in 0 .. Len(cmp)
          /\ high \in -1 .. Len(cmp) - 1
          /\ answer \in [found : BOOLEAN, at : -1 .. Len(cmp)]

(* The answer of a search is one that the callers of the search may rely   *)
(* on, whatever the order of the array: a hit is an equal element, a miss  *)
(* is a place between a smaller and a greater one.                         *)
AnswerOK ==
  answer # NoAnswer =>
    IF answer.found THEN answer.at + 1 \in Hits(cmp) ELSE answer.at \in Gaps(cmp)

(* In an ascending array without duplicates the search is decided: it      *)
(* finds the key if it is there, and a miss has one possible place.        *)
AscendingDecides ==
  answer # NoAnswer /\ Ascending(cmp) =>
    /\ answer.found <=> Hits(cmp) # {}
    /\ answer.found => Hits(cmp) = {answer.at + 1}
    /\ ~answer.found => Gaps(cmp) = {answer.at}

(* The loop ends: each iteration that gives no answer leaves less of the   *)
(* array to look at, and none is left when it gives up.                    *)
SearchShrinks ==
  [][answer' = NoAnswer => high' - low' < high - low /\ high' - low' >= -1]_vars

(* The part of the loop invariant that makes a miss a gap: what lies left  *)
(* of low was found smaller than the key, what lies right of high greater. *)
BoundsSeen == /\ low <= high + 1
              /\ low > 0 => cmp[low] = 1
              /\ high < Len(cmp) - 1 => cmp[high + 2] = -1

LoopInv == TypeOK /\ BoundsSeen /\ AnswerOK

=============
