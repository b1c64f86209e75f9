---------------------------- MODULE StringTable ----------------------------
(***************************************************************************)
(* The string table of a database in memory (libmsi/string.c): an array of *)
(* slots, each a string with a count of the references held by persistent  *)
(* data and one of those held by temporary data, and an index of the used  *)
(* slots ordered by their strings.  A string's id is the number of its     *)
(* slot.                                                                   *)
(*                                                                         *)
(* Strings are positive integers whose order is strcmp's; 0 is the empty   *)
(* string, which has id 0 and no slot of its own, and -1 is a NULL pointer.*)
(* The reference counts are uint16_t in the code: they count modulo        *)
(* RefLimit here, so that a count that goes round to zero (65536 in the    *)
(* code) is within reach of a model checker.                               *)
(***************************************************************************)
EXTENDS Search

CONSTANTS Text,               \* the strings that are not empty
          RefLimit,           \* the counts are taken modulo this (2^16)
          MaxSlots            \* bound: the array does not grow beyond this

Empty == 0
Null  == -1

ASSUME StringTableAssumption ==
  /\ Text \subseteq Nat \ {0}
  /\ RefLimit \in Nat /\ RefLimit > 1
  /\ MaxSlots \in Nat /\ MaxSlots > 0

VARIABLES strings,            \* the slots, numbered from 0
          maxcount,           \* how many there are
          freeslot,           \* where to look for a free one first
          sorted,             \* the used slots, in the order of their strings
          wrapped             \* history: a reference count has gone round

tableVars == <<strings, maxcount, freeslot, sorted, wrapped>>

Persistence == {"persistent", "nonpersistent"}

Slot(s, p, np) == [str |-> s, pref |-> p, npref |-> np]
ZeroSlot == Slot(Null, 0, 0)
SlotType == [str : Text \cup {Null}, pref : 0 .. RefLimit - 1, npref : 0 .. RefLimit - 1]

(* A slot is in use when either kind of data refers to it.                 *)
Used(e) == e.pref # 0 \/ e.npref # 0
Live == {i \in 1 .. maxcount - 1 : Used(strings[i])}

(* msi_string_lookup_id: the string of an id, NULL if there is none.       *)
Lookup(id) == IF id = 0 THEN Empty
              ELSE IF id >= maxcount \/ ~Used(strings[id]) THEN Null
              ELSE strings[id].str

(* How string s compares with the strings of the index, in its order.      *)
Comparison(tab, index, s) == [i \in 1 .. Len(index) |-> Compare(s, tab[index[i]].str)]

-----------------------------------------------------------------------------
(* Mutant: the counts are not taken modulo their width.                    *)
BumpWide(count) == count + 1

(* Adding a reference to the string of slot n: ++ on a uint16_t.           *)
Bump(count) == (count + 1) % RefLimit

(* Mutant: as set_st_entry does, the count of the other kind is zeroed.    *)
AddReferenceReset(n, persistence) ==
  LET old == strings[n]
      new == IF persistence = "persistent" THEN Slot(old.str, Bump(old.pref), 0)
                                           ELSE Slot(old.str, 0, Bump(old.npref)) IN
  /\ strings' = [strings EXCEPT ![n] = new]
  /\ wrapped' = (wrapped \/ Bump(old.pref) < old.pref \/ Bump(old.npref) < old.npref)
  /\ UNCHANGED <<maxcount, freeslot, sorted>>

AddReference(n, persistence) ==
  LET old == strings[n]
      new == IF persistence = "persistent" THEN [old EXCEPT !.pref = Bump(@)]
                                           ELSE [old EXCEPT !.npref = Bump(@)] IN
  /\ strings' = [strings EXCEPT ![n] = new]
  /\ wrapped' = (wrapped \/ new.pref < old.pref \/ new.npref < old.npref)
  /\ UNCHANGED <<maxcount, freeslot, sorted>>

(* st_find_free_entry: the first free slot from the hint on, else the      *)
(* first of all, else the array grows by half and one.                     *)
FreeFrom(k) == {i \in k .. maxcount - 1 : ~Used(strings[i])}
First(S) == {i \in S : \A j \in S : i <= j}
Grown == maxcount + 1 + maxcount \div 2

(* Mutant: the second scan starts at slot 0.                               *)
FreeEntryFromZero(n, size) ==
  \/ n \in First(FreeFrom(freeslot)) /\ size = maxcount
  \/ FreeFrom(freeslot) = {} /\ n \in First(FreeFrom(0)) /\ size = maxcount

(* Mutant: the second scan takes the first slot, free or not.              *)
FreeEntryFirst(n, size) ==
  \/ n \in First(FreeFrom(freeslot)) /\ size = maxcount
  \/ FreeFrom(freeslot) = {} /\ n = 1 /\ size = maxcount /\ size > 1

FreeEntry(n, size) ==
  \/ /\ n \in First(FreeFrom(freeslot))
     /\ size = maxcount
  \/ /\ FreeFrom(freeslot) = {}
     /\ n \in First(FreeFrom(1))
     /\ size = maxcount
  \/ /\ FreeFrom(freeslot) = {} /\ FreeFrom(1) = {}
     /\ n = maxcount
     /\ size = Grown
     /\ size <= MaxSlots

(* Mutant: the new slot always goes to the end of the index.               *)
NewEntryAtEnd(s, n, size, persistence) ==
  LET entry == IF persistence = "persistent" THEN Slot(s, 1, 0) ELSE Slot(s, 0, 1) IN
  /\ strings' = [i \in 0 .. size - 1 |-> IF i = n THEN entry
                                          ELSE IF i < maxcount THEN strings[i]
                                          ELSE ZeroSlot]
  /\ maxcount' = size
  /\ sorted' = Append(sorted, n)
  /\ freeslot' = n + 1
  /\ UNCHANGED wrapped

(* set_st_entry and insert_string_sorted: the slot gets its string and its *)
(* first reference, the index gets the slot, the hint moves on.  Finding   *)
(* the string in the index already leaves the index alone.                 *)
NewEntry(s, n, size, persistence) ==
  LET entry == IF persistence = "persistent" THEN Slot(s, 1, 0) ELSE Slot(s, 0, 1)
      tab == [i \in 0 .. size - 1 |-> IF i = n THEN entry
                                      ELSE IF i < maxcount THEN strings[i]
                                      ELSE ZeroSlot]
      c == Comparison(tab, sorted, s) IN
  /\ strings' = tab
  /\ maxcount' = size
  /\ \/ /\ Hits(c) # {}
        /\ UNCHANGED sorted
     \/ \E p \in Gaps(c) : sorted' = Inserted(sorted, p, n)
  /\ freeslot' = n + 1
  /\ UNCHANGED wrapped

(* Mutant: the string is not looked for before it is added.                *)
AddStringAgain(s, persistence) ==
  \E n \in 0 .. maxcount, size \in {maxcount, Grown} :
    FreeEntry(n, size) /\ NewEntry(s, n, size, persistence)

(* _libmsi_add_string with the reference count of 1 all its callers give.  *)
AddString(s, persistence) ==
  LET c == Comparison(strings, sorted, s) IN
  \/ \E i \in Hits(c) : AddReference(sorted[i], persistence)
  \/ /\ Gaps(c) # {}
     /\ \E n \in 0 .. maxcount, size \in {maxcount, Grown} :
          FreeEntry(n, size) /\ NewEntry(s, n, size, persistence)

-----------------------------------------------------------------------------
(* The index holds exactly the used slots, in the order of their strings:  *)
(* every string is found, and only by its own id.                          *)
IndexedBy(tab, size, index) ==
  /\ \A i \in 1 .. Len(index) : index[i] \in 1 .. size - 1 /\ Used(tab[index[i]])
  /\ \A n \in 1 .. size - 1 : Used(tab[n]) => \E i \in 1 .. Len(index) : index[i] = n
  /\ \A i, j \in 1 .. Len(index) : i < j => tab[index[i]].str < tab[index[j]].str

(* A table of persistent strings, holes among them, as it is after its     *)
(* file was read: indexed one by one, the hint after the last of them.     *)
Holds(known, text, refs) ==
  /\ strings = [i \in 0 .. maxcount - 1 |->
                  IF i \in known THEN Slot(text[i], refs[i], 0) ELSE ZeroSlot]
  /\ \E n \in 0 .. maxcount - 1 : sorted \in [1 .. n -> known]
  /\ freeslot \in 1 .. maxcount
  /\ \A i \in known : i < freeslot
  /\ freeslot > 1 => freeslot - 1 \in known

(* A database starts with no strings, or with those of its file.           *)
Init ==
  /\ maxcount \in 1 .. MaxSlots
  /\ \E known \in SUBSET (1 .. maxcount - 1) :
       \E text \in [known -> Text], refs \in [known -> 1 .. RefLimit - 1] :
         Holds(known, text, refs)
  /\ IndexedBy(strings, maxcount, sorted)
  /\ wrapped = FALSE

(* A slot whose count went round to zero is given away again while the     *)
(* index still holds it; from then on the index may outgrow its array, and *)
(* the module says nothing of what follows.                                *)
Next == /\ ~wrapped
        /\ \E s \in Text, persistence \in Persistence : AddString(s, persistence)

Spec == Init /\ [][Next]_tableVars

(* The same, as long as no count goes round: what the library does while   *)
(* no name is given to RefLimit columns (msi_create_table adds it for each *)
(* of them) and no stream is listed by RefLimit views (streams.c:78).      *)
NoWrapSpec == Init /\ [][Next /\ ~wrapped']_tableVars

-----------------------------------------------------------------------------

TypeOK == /\ maxcount \in 1 .. MaxSlots
          /\ strings \in [0 .. maxcount - 1 -> SlotType]
          /\ freeslot \in 1 .. maxcount
          /\ sorted \in Seq(1 .. maxcount - 1)
          /\ wrapped \in BOOLEAN

(* Slot 0 stands for the empty string and is never handed out: what the    *)
(* "oops. element 0 has a string" check of string_totalsize looks for.  A  *)
(* used slot has a string.                                                 *)
SlotsOK == strings[0] = ZeroSlot /\ \A n \in Live : strings[n].str \in Text

(* Until a count goes round, the index and the slots agree, so the search  *)
(* by string and the lookup by id are inverse to each other.               *)
IndexOK == ~wrapped => IndexedBy(strings, maxcount, sorted)

(* Until a count goes round, an id given out keeps resolving to the string *)
(* it was given for: rows hold the id and nothing else.                    *)
IdsAreStable ==
  [][~wrapped' => \A n \in Live : n \in Live' /\ strings'[n].str = strings[n].str]_tableVars

(* Until a count goes round, a string that persistent data refers to stays *)
(* one: the file keeps no string whose persistent count is zero.           *)
PersistentStays ==
  [][~wrapped' => \A n \in Live : strings[n].pref > 0 => strings'[n].pref > 0]_tableVars

(* The table implements the pool of strings.                               *)
poolOf == [s \in {strings[n].str : n \in Live} |-> CHOOSE n \in Live : strings[n].str = s]

Pool == INSTANCE StringPool WITH pool <- poolOf, Id <- 1 .. MaxSlots

ImplementsPool == Pool!Spec

=============================================================================
