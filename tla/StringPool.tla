----------------------------- MODULE StringPool -----------------------------
(***************************************************************************)
(* What the string table of a database promises the rest of the library:   *)
(* a string is given a number (its id) when it is first added, keeps it    *)
(* for as long as the database is open, and no two strings share one.      *)
(* Tables hold ids, never strings, so everything they store rests on this. *)
(***************************************************************************)
CONSTANTS Text,               \* the strings
          Id                  \* the ids a string may get

VARIABLE pool                 \* the strings added so far, each with its id

TypeOK == \E known \in SUBSET Text : pool \in [known -> Id]

(* A database opens with the strings its file holds.                       *)
Init == /\ TypeOK
        /\ \A s, t \in DOMAIN pool : pool[s] = pool[t] => s = t

(* Add a string that is not there under a number nobody has.               *)
AddNew(s, n) ==
  /\ s \notin DOMAIN pool
  /\ \A t \in DOMAIN pool : pool[t] # n
  /\ pool' = [t \in DOMAIN pool \cup {s} |-> IF t = s THEN n ELSE pool[t]]

Next == \E s \in Text, n \in Id : AddNew(s, n)

Spec == Init /\ [][Next]_pool
=============================================================================
