-------------------------- MODULE StringTable_proofs --------------------------
(***************************************************************************)
(* The string table of libmsi keeps its index and its slots in agreement,  *)
(* for every set of strings, every width of the reference counts and every *)
(* size of the table.                                                      *)
(***************************************************************************)
EXTENDS StringTable, SequenceTheorems, TLAPS

(* The invariant the proofs rest on: types, an index that agrees with the  *)
(* slots, and the empty slot 0.                                            *)
TableInv == TypeOK /\ IndexOK /\ SlotsOK

-----------------------------------------------------------------------------
(* The strings of the slots are integers, so the order is defined on them. *)
LEMMA SlotFacts ==
  ASSUME TypeOK
  PROVE  /\ \A n \in 0 .. maxcount - 1 : strings[n] \in SlotType /\ strings[n].str \in Int
         /\ maxcount \in Nat /\ Len(sorted) \in Nat
         /\ \A i \in 1 .. Len(sorted) : sorted[i] \in 1 .. maxcount - 1
         /\ \A s \in Text : s \in Int
<1>1. maxcount \in Nat /\ maxcount >= 1 /\ sorted \in Seq(1 .. maxcount - 1)
  BY StringTableAssumption DEF TypeOK
<1>2. Len(sorted) \in Nat /\ \A i \in 1 .. Len(sorted) : sorted[i] \in 1 .. maxcount - 1
  BY <1>1
<1>3. \A n \in 0 .. maxcount - 1 : strings[n] \in SlotType
  BY DEF TypeOK
<1>4. \A s \in Text : s \in Int
  BY StringTableAssumption
<1>5. \A e \in SlotType : e.str \in Int
  BY <1>4 DEF SlotType, Null
<1> QED
  BY <1>1, <1>2, <1>3, <1>4, <1>5

LEMMA ComparisonFacts ==
  ASSUME TypeOK, NEW s \in Text
  PROVE  LET c == Comparison(strings, sorted, s) IN
         /\ Len(c) = Len(sorted)
         /\ \A i \in 1 .. Len(sorted) : c[i] = Compare(s, strings[sorted[i]].str)
BY DEF Comparison, TypeOK

(* A hit is a used slot that holds the string.                             *)
LEMMA HitIsSlot ==
  ASSUME TypeOK, IndexedBy(strings, maxcount, sorted), NEW s \in Text,
         NEW i \in Hits(Comparison(strings, sorted, s))
  PROVE  sorted[i] \in Live /\ strings[sorted[i]].str = s
<1>1. i \in 1 .. Len(sorted) /\ Compare(s, strings[sorted[i]].str) = 0
  BY ComparisonFacts DEF Hits
<1>2. sorted[i] \in 1 .. maxcount - 1 /\ Used(strings[sorted[i]])
  BY <1>1 DEF IndexedBy
<1>3. s \in Int /\ strings[sorted[i]].str \in Int
  BY <1>2, SlotFacts
<1>4. strings[sorted[i]].str = s
  BY <1>1, <1>3 DEF Compare
<1> QED
  BY <1>2, <1>4 DEF Live

(* Without a hit, no used slot holds the string.                           *)
LEMMA MissIsNew ==
  ASSUME TypeOK, IndexedBy(strings, maxcount, sorted), NEW s \in Text,
         NEW p \in Gaps(Comparison(strings, sorted, s))
  PROVE  /\ \A i \in 1 .. Len(sorted) : i <= p => strings[sorted[i]].str < s
         /\ \A i \in 1 .. Len(sorted) : i > p => s < strings[sorted[i]].str
         /\ \A n \in Live : strings[n].str # s
<1> DEFINE T(i) == strings[sorted[i]].str
<1>1. /\ p \in 0 .. Len(sorted)
      /\ p > 0 => Compare(s, T(p)) = 1
      /\ p < Len(sorted) => Compare(s, T(p + 1)) = -1
  <2> DEFINE c == Comparison(strings, sorted, s)
  <2>1. p \in 0 .. Len(c) /\ (p > 0 => c[p] = 1) /\ (p < Len(c) => c[p + 1] = -1)
    BY DEF Gaps
  <2>2. Len(c) = Len(sorted) /\ \A i \in 1 .. Len(sorted) : c[i] = Compare(s, T(i))
    BY ComparisonFacts
  <2> QED
    BY <2>1, <2>2, SlotFacts
<1>2. /\ \A i \in 1 .. Len(sorted) : T(i) \in Int
      /\ s \in Int
  BY SlotFacts
<1>3. \A i, j \in 1 .. Len(sorted) : i < j => T(i) < T(j)
  BY DEF IndexedBy
<1>4. Len(sorted) \in Nat
  BY SlotFacts
<1> HIDE DEF T
<1>5. /\ p > 0 => T(p) < s
      /\ p < Len(sorted) => s < T(p + 1)
  BY <1>1, <1>2, <1>4 DEF Compare
<1>6. \A i \in 1 .. Len(sorted) : i <= p => T(i) < s
  BY <1>1, <1>2, <1>3, <1>4, <1>5
<1>7. \A i \in 1 .. Len(sorted) : i > p => s < T(i)
  BY <1>1, <1>2, <1>3, <1>4, <1>5
<1>8. \A n \in Live : \E i \in 1 .. Len(sorted) : T(i) = strings[n].str
  BY DEF Live, IndexedBy, T
<1> QED
  BY <1>1, <1>2, <1>4, <1>6, <1>7, <1>8 DEF T

-----------------------------------------------------------------------------
(* What the steps do.                                                      *)

(* The slot found for a new string is free and is not slot 0.              *)
LEMMA FreeEntryFacts ==
  ASSUME TypeOK, NEW n, NEW size, FreeEntry(n, size)
  PROVE  /\ size \in 1 .. MaxSlots /\ maxcount <= size
         /\ n \in 1 .. size - 1 /\ n <= maxcount
         /\ n < maxcount => ~Used(strings[n])
<1> USE StringTableAssumption
<1>1. maxcount \in Nat /\ maxcount \in 1 .. MaxSlots /\ freeslot \in 1 .. maxcount
  BY DEF TypeOK
<1>2. CASE n \in First(FreeFrom(freeslot)) /\ size = maxcount
  BY <1>1, <1>2 DEF First, FreeFrom
<1>3. CASE n \in First(FreeFrom(1)) /\ size = maxcount
  BY <1>1, <1>3 DEF First, FreeFrom
<1>4. CASE n = maxcount /\ size = Grown /\ size <= MaxSlots
  <2>1. Grown \in Nat /\ Grown > maxcount
    BY <1>1 DEF Grown
  <2> QED
    BY <1>1, <1>4, <2>1
<1> QED
  BY <1>2, <1>3, <1>4 DEF FreeEntry

(* A new string: the table gets the slot, and the index stays in order.    *)
LEMMA NewEntryFacts ==
  ASSUME TableInv, ~wrapped, NEW s \in Text, NEW persistence \in Persistence,
         NEW n, NEW size, Gaps(Comparison(strings, sorted, s)) # {},
         FreeEntry(n, size), NewEntry(s, n, size, persistence)
  PROVE  /\ \A m \in 0 .. maxcount - 1 : m # n => strings'[m] = strings[m]
         /\ strings'[n].str = s /\ Used(strings'[n])
         /\ \A m \in maxcount .. size - 1 : m # n => strings'[m] = ZeroSlot
         /\ strings' \in [0 .. size - 1 -> SlotType]
         /\ \E p \in Gaps(Comparison(strings, sorted, s)) : sorted' = Inserted(sorted, p, n)
<1> DEFINE entry == IF persistence = "persistent" THEN Slot(s, 1, 0) ELSE Slot(s, 0, 1)
           tab == [i \in 0 .. size - 1 |-> IF i = n THEN entry
                                           ELSE IF i < maxcount THEN strings[i]
                                           ELSE ZeroSlot]
           c == Comparison(tab, sorted, s)
           d == Comparison(strings, sorted, s)
<1>1. TypeOK /\ IndexedBy(strings, maxcount, sorted)
  BY DEF TableInv, IndexOK
<1>2. /\ size \in 1 .. MaxSlots /\ maxcount <= size
      /\ n \in 1 .. size - 1 /\ n <= maxcount
      /\ n < maxcount => ~Used(strings[n])
      /\ size \in Nat /\ maxcount \in Nat /\ n \in Nat
  BY <1>1, FreeEntryFacts, StringTableAssumption DEF TypeOK
<1>3. strings' = tab
  BY DEF NewEntry
<1>4. entry \in SlotType /\ Used(entry) /\ entry.str = s /\ ZeroSlot \in SlotType
  BY StringTableAssumption DEF Persistence, SlotType, Slot, Used, ZeroSlot, Null
<1>5. strings' \in [0 .. size - 1 -> SlotType]
  <2>1. \A i \in 0 .. size - 1 : i < maxcount => i \in 0 .. maxcount - 1
    BY <1>2
  <2>2. \A i \in 0 .. maxcount - 1 : strings[i] \in SlotType
    BY <1>1, SlotFacts
  <2> HIDE DEF entry
  <2> QED
    BY <1>3, <1>4, <2>1, <2>2
<1>6. c = d
  <2>1. \A i \in 1 .. Len(sorted) : sorted[i] \in 1 .. maxcount - 1 /\ Used(strings[sorted[i]])
    BY <1>1 DEF IndexedBy
  <2>2. \A i \in 1 .. Len(sorted) : sorted[i] # n /\ sorted[i] < maxcount /\ sorted[i] \in 0 .. size - 1
    BY <1>2, <2>1
  <2>3. \A i \in 1 .. Len(sorted) : tab[sorted[i]] = strings[sorted[i]]
    BY <2>2
  <2> HIDE DEF tab
  <2> QED
    BY <2>3 DEF Comparison
<1>7. Hits(c) = {}
  <2> SUFFICES ASSUME NEW i \in Hits(d) PROVE FALSE
    BY <1>6
  <2>1. sorted[i] \in Live /\ strings[sorted[i]].str = s
    BY <1>1, HitIsSlot
  <2>2. PICK p \in Gaps(d) : TRUE
    OBVIOUS
  <2> QED
    BY <1>1, <2>1, <2>2, MissIsNew
<1>8. \E p \in Gaps(d) : sorted' = Inserted(sorted, p, n)
  BY <1>6, <1>7 DEF NewEntry
<1>9. /\ \A m \in 0 .. maxcount - 1 : m # n => strings'[m] = strings[m]
      /\ strings'[n] = entry
      /\ \A m \in maxcount .. size - 1 : m # n => strings'[m] = ZeroSlot
  BY <1>2, <1>3
<1> QED
  BY <1>4, <1>5, <1>8, <1>9

(* A count stays in its width, and moves up unless it goes round.          *)
LEMMA BumpFacts ==
  ASSUME NEW count \in 0 .. RefLimit - 1
  PROVE  Bump(count) \in 0 .. RefLimit - 1 /\ (Bump(count) >= count => Bump(count) > 0)
<1> USE StringTableAssumption DEF Bump
<1>1. CASE count + 1 < RefLimit
  <2>1. (count + 1) % RefLimit = count + 1
    BY <1>1
  <2> QED
    BY <1>1, <2>1
<1>2. CASE count + 1 = RefLimit
  <2>1. (count + 1) % RefLimit = 0
    BY <1>2
  <2> QED
    BY <1>2, <2>1
<1> QED
  BY <1>1, <1>2

(* Another reference to a used slot: it keeps its string and, unless a     *)
(* count goes round, stays used and keeps what persistent data hold of it. *)
LEMMA AddReferenceFacts ==
  ASSUME TableInv, ~wrapped, NEW n \in Live, NEW persistence \in Persistence,
         AddReference(n, persistence)
  PROVE  /\ strings' \in [0 .. maxcount - 1 -> SlotType]
         /\ wrapped' \in BOOLEAN
         /\ \A m \in 0 .. maxcount - 1 : m # n => strings'[m] = strings[m]
         /\ strings'[n].str = strings[n].str
         /\ ~wrapped' => /\ Used(strings'[n])
                         /\ strings[n].pref > 0 => strings'[n].pref > 0
<1> DEFINE old == strings[n]
           new == IF persistence = "persistent" THEN [old EXCEPT !.pref = Bump(@)]
                                                ELSE [old EXCEPT !.npref = Bump(@)]
<1>1. TypeOK /\ strings \in [0 .. maxcount - 1 -> SlotType] /\ n \in 0 .. maxcount - 1 /\ maxcount \in Nat
  BY StringTableAssumption DEF TableInv, TypeOK, Live
<1>2. old \in SlotType /\ Used(old)
  BY <1>1 DEF Live
<1>3. /\ strings' = [strings EXCEPT ![n] = new]
      /\ wrapped' = (wrapped \/ new.pref < old.pref \/ new.npref < old.npref)
  BY DEF AddReference
<1>4. /\ Bump(old.pref) \in 0 .. RefLimit - 1
      /\ Bump(old.pref) >= old.pref => Bump(old.pref) > 0
      /\ Bump(old.npref) \in 0 .. RefLimit - 1
      /\ Bump(old.npref) >= old.npref => Bump(old.npref) > 0
  BY <1>2, BumpFacts DEF SlotType
<1>5. /\ new \in SlotType
      /\ new.str = old.str
      /\ ~(new.pref < old.pref \/ new.npref < old.npref) =>
           Used(new) /\ (old.pref > 0 => new.pref > 0)
  BY <1>2, <1>4, StringTableAssumption DEF SlotType, Used
<1> HIDE DEF new
<1> QED
  BY <1>1, <1>2, <1>3, <1>5

-----------------------------------------------------------------------------
(* The invariant. *)

(* A function on 1 .. n is a sequence. *)
LEMMA FunctionIsSeq ==
  ASSUME NEW S, NEW n \in Nat, NEW f \in [1 .. n -> S]
  PROVE  f \in Seq(S)
<1>1. f \in UNION {[1 .. m -> S] : m \in Nat}
  OBVIOUS
<1> QED
  BY <1>1, SeqDef, Zenon

LEMMA InitTable == Init => TableInv
<1> SUFFICES ASSUME Init PROVE TableInv
  OBVIOUS
<1> USE StringTableAssumption
<1>1. PICK known \in SUBSET (1 .. maxcount - 1) :
        \E text \in [known -> Text], refs \in [known -> 1 .. RefLimit - 1] :
          Holds(known, text, refs)
  BY DEF Init
<1>2. PICK text \in [known -> Text], refs \in [known -> 1 .. RefLimit - 1] :
        Holds(known, text, refs)
  BY <1>1
<1>3. /\ maxcount \in Nat /\ maxcount \in 1 .. MaxSlots /\ wrapped = FALSE
      /\ IndexedBy(strings, maxcount, sorted) /\ freeslot \in 1 .. maxcount
      /\ strings = [i \in 0 .. maxcount - 1 |->
                      IF i \in known THEN Slot(text[i], refs[i], 0) ELSE ZeroSlot]
  BY <1>2 DEF Init, Holds
<1>4. \A i \in known : Slot(text[i], refs[i], 0) \in SlotType
  BY <1>2 DEF Slot, SlotType
<1>5. ZeroSlot \in SlotType /\ ~Used(ZeroSlot)
  BY DEF ZeroSlot, Slot, SlotType, Used
<1>6. strings \in [0 .. maxcount - 1 -> SlotType]
  BY <1>3, <1>4, <1>5
<1>7. sorted \in Seq(1 .. maxcount - 1)
  <2>1. PICK n \in 0 .. maxcount - 1 : sorted \in [1 .. n -> known]
    BY <1>2 DEF Holds
  <2>2. n \in Nat
    BY <1>3
  <2>3. \A i \in 1 .. n : sorted[i] \in 1 .. maxcount - 1
    BY <2>1
  <2>4. sorted \in [1 .. n -> 1 .. maxcount - 1]
    BY <2>1, <2>3
  <2> QED
    BY <2>2, <2>4, FunctionIsSeq, Zenon
<1>8. SlotsOK
  <2>1. strings[0] = ZeroSlot
    BY <1>3
  <2>2. ASSUME NEW n \in Live PROVE strings[n].str \in Text
    <3>1. n \in known
      BY <1>3, <1>5 DEF Live
    <3> QED
      BY <1>3, <3>1 DEF Slot
  <2> QED
    BY <2>1, <2>2 DEF SlotsOK
<1> QED
  BY <1>3, <1>6, <1>7, <1>8 DEF TableInv, TypeOK, IndexOK

(* Inserting an element keeps a sequence a sequence, one longer.           *)
LEMMA InsertedFacts ==
  ASSUME NEW S, NEW q \in Seq(S), NEW p \in 0 .. Len(q), NEW x \in S
  PROVE  /\ Inserted(q, p, x) \in Seq(S)
         /\ Len(Inserted(q, p, x)) = Len(q) + 1
         /\ \A i \in 1 .. p : Inserted(q, p, x)[i] = q[i]
         /\ Inserted(q, p, x)[p + 1] = x
         /\ \A i \in p + 1 .. Len(q) : Inserted(q, p, x)[i + 1] = q[i]
<1>1. Len(q) \in Nat /\ \A i \in 1 .. Len(q) : q[i] \in S
  OBVIOUS
<1>2. \A i \in 1 .. Len(q) + 1 :
        (IF i <= p THEN q[i] ELSE IF i = p + 1 THEN x ELSE q[i - 1]) \in S
  BY <1>1
<1>3. Inserted(q, p, x) \in [1 .. Len(q) + 1 -> S]
  BY <1>2 DEF Inserted
<1>4. Inserted(q, p, x) \in Seq(S) /\ Len(Inserted(q, p, x)) = Len(q) + 1
  <2>1. Inserted(q, p, x) \in Seq(S)
    BY <1>1, <1>3, FunctionIsSeq
  <2>2. DOMAIN Inserted(q, p, x) = 1 .. Len(q) + 1
    BY DEF Inserted
  <2> QED
    BY <1>1, <2>1, <2>2
<1>5. /\ \A i \in 1 .. p : Inserted(q, p, x)[i] = q[i]
      /\ Inserted(q, p, x)[p + 1] = x
  BY <1>1 DEF Inserted
<1>6. \A i \in p + 1 .. Len(q) : Inserted(q, p, x)[i + 1] = q[i]
  <2> TAKE i \in p + 1 .. Len(q)
  <2>1. i + 1 \in 1 .. Len(q) + 1 /\ ~(i + 1 <= p) /\ i + 1 # p + 1 /\ (i + 1) - 1 = i
    BY <1>1
  <2> QED
    BY <2>1 DEF Inserted
<1> QED
  BY <1>4, <1>5, <1>6

(* A new slot n, put into the index at a gap p for its string s, leaves    *)
(* slots and index in agreement; q is the index with the slot put in.      *)
LEMMA IndexWithNew ==
  ASSUME TypeOK, maxcount \in Nat, NEW size \in Nat, maxcount <= size, NEW new,
         IndexedBy(strings, maxcount, sorted),
         NEW n \in 1 .. size - 1, n < maxcount => ~Used(strings[n]),
         NEW s \in Int, new[n].str = s, Used(new[n]),
         \A m \in 0 .. maxcount - 1 : m # n => new[m] = strings[m],
         \A m \in maxcount .. size - 1 : m # n => ~Used(new[m]),
         NEW p \in 0 .. Len(sorted),
         \A i \in 1 .. Len(sorted) : i <= p => strings[sorted[i]].str < s,
         \A i \in 1 .. Len(sorted) : i > p => s < strings[sorted[i]].str,
         NEW q, Len(q) = Len(sorted) + 1,
         \A i \in 1 .. p : q[i] = sorted[i],
         q[p + 1] = n,
         \A i \in p + 1 .. Len(sorted) : q[i + 1] = sorted[i]
  PROVE  IndexedBy(new, size, q)
<1> DEFINE L == Len(sorted)
           T(i) == strings[sorted[i]].str
           U(i) == new[q[i]].str
<1>1. /\ L \in Nat
      /\ \A i \in 1 .. L : sorted[i] \in 1 .. maxcount - 1
      /\ \A m \in 0 .. maxcount - 1 : strings[m].str \in Int
  BY SlotFacts
<1>2. \A i \in 1 .. L : Used(strings[sorted[i]])
  BY DEF IndexedBy
<1>3. \A i \in 1 .. L : sorted[i] # n
  BY <1>1, <1>2
<1>4. \A i \in 1 .. L : /\ sorted[i] \in 1 .. size - 1
                       /\ new[sorted[i]] = strings[sorted[i]]
                       /\ Used(new[sorted[i]])
  <2> TAKE i \in 1 .. L
  <2>1. sorted[i] \in 1 .. size - 1 /\ sorted[i] \in 0 .. maxcount - 1
    BY <1>1
  <2>2. new[sorted[i]] = strings[sorted[i]]
    BY <1>3, <2>1
  <2> QED
    BY <1>2, <2>1, <2>2
<1>5. ASSUME NEW i \in 1 .. L + 1
      PROVE  \/ i \in 1 .. p
             \/ i = p + 1
             \/ i - 1 \in p + 1 .. L /\ i = (i - 1) + 1
  BY <1>1
<1>6. ASSUME NEW i \in 1 .. L + 1 PROVE q[i] \in 1 .. size - 1 /\ Used(new[q[i]])
  <2>1. CASE i \in 1 .. p
    <3>1. i \in 1 .. L /\ q[i] = sorted[i]
      BY <1>1, <2>1
    <3> QED
      BY <1>4, <3>1
  <2>2. CASE i = p + 1
    BY <2>2
  <2>3. CASE i - 1 \in p + 1 .. L /\ i = (i - 1) + 1
    <3>1. i - 1 \in 1 .. L /\ q[i] = sorted[i - 1]
      BY <1>1, <2>3
    <3> QED
      BY <1>4, <3>1
  <2> QED
    BY <1>5, <2>1, <2>2, <2>3
<1>7. ASSUME NEW m \in 1 .. size - 1, Used(new[m])
      PROVE  \E i \in 1 .. L + 1 : q[i] = m
  <2>1. CASE m = n
    <3>1. p + 1 \in 1 .. L + 1
      BY <1>1
    <3> QED
      BY <2>1, <3>1
  <2>2. CASE m # n
    <3>1. m \in 1 .. maxcount - 1 /\ Used(strings[m])
      BY <1>7, <2>2
    <3>2. PICK i \in 1 .. L : sorted[i] = m
      BY <3>1 DEF IndexedBy
    <3>3. CASE i <= p
      <4>1. i \in 1 .. L + 1 /\ i \in 1 .. p
        BY <1>1, <3>2, <3>3
      <4> QED
        BY <3>2, <4>1
    <3>4. CASE i > p
      <4>1. i + 1 \in 1 .. L + 1 /\ i \in p + 1 .. L
        BY <1>1, <3>2, <3>4
      <4> QED
        BY <3>2, <4>1
    <3> QED
      BY <1>1, <3>2, <3>3, <3>4
  <2> QED
    BY <2>1, <2>2
<1>8. /\ \A i \in 1 .. L : T(i) \in Int
      /\ \A i, j \in 1 .. L : i < j => T(i) < T(j)
      /\ \A i \in 1 .. L : i <= p => T(i) < s
      /\ \A i \in 1 .. L : i > p => s < T(i)
  BY <1>1 DEF IndexedBy
<1>9. \A i \in 1 .. p : i \in 1 .. L /\ U(i) = T(i)
  <2> TAKE i \in 1 .. p
  <2>1. i \in 1 .. L /\ q[i] = sorted[i]
    BY <1>1
  <2> QED
    BY <1>4, <2>1
<1>10. U(p + 1) = s
  OBVIOUS
<1>11. \A i \in p + 1 .. L : i \in 1 .. L /\ U(i + 1) = T(i)
  <2> TAKE i \in p + 1 .. L
  <2>1. i \in 1 .. L /\ q[i + 1] = sorted[i]
    BY <1>1
  <2> QED
    BY <1>4, <2>1
<1>12. L \in Nat /\ p \in 0 .. L
  BY <1>1
<1> HIDE DEF T, U, L
<1>13. ASSUME NEW i \in 1 .. L + 1, NEW j \in 1 .. L + 1, i < j
       PROVE  U(i) < U(j)
  <2>1. CASE i \in 1 .. p
    <3>1. U(i) = T(i) /\ T(i) < s /\ i \in 1 .. L /\ T(i) \in Int
      BY <1>8, <1>9, <1>12, <2>1
    <3>2. CASE j \in 1 .. p
      BY <1>8, <1>9, <1>13, <3>1, <3>2
    <3>3. CASE j = p + 1
      BY <1>10, <3>1, <3>3
    <3>4. CASE j - 1 \in p + 1 .. L
      <4>1. j - 1 \in 1 .. L /\ U((j - 1) + 1) = T(j - 1) /\ (j - 1) + 1 = j /\ j - 1 > p
        BY <1>11, <1>12, <3>4
      <4>2. s < T(j - 1) /\ T(j - 1) \in Int
        BY <1>8, <4>1
      <4> QED
        BY <3>1, <4>1, <4>2
    <3> QED
      BY <1>12, <1>13, <3>2, <3>3, <3>4
  <2>2. CASE i = p + 1
    <3>1. j - 1 \in p + 1 .. L /\ (j - 1) + 1 = j
      BY <1>12, <1>13, <2>2
    <3>2. j - 1 \in 1 .. L /\ U((j - 1) + 1) = T(j - 1) /\ j - 1 > p
      BY <1>11, <1>12, <3>1
    <3>3. s < T(j - 1)
      BY <1>8, <3>2
    <3> QED
      BY <1>10, <2>2, <3>1, <3>2, <3>3
  <2>3. CASE i - 1 \in p + 1 .. L
    <3>1. /\ j - 1 \in p + 1 .. L /\ i - 1 < j - 1
          /\ (i - 1) + 1 = i /\ (j - 1) + 1 = j
      BY <1>12, <1>13, <2>3
    <3>2. /\ U((i - 1) + 1) = T(i - 1) /\ U((j - 1) + 1) = T(j - 1)
          /\ i - 1 \in 1 .. L /\ j - 1 \in 1 .. L
      BY <1>11, <2>3, <3>1
    <3>3. T(i - 1) < T(j - 1)
      BY <1>8, <3>1, <3>2
    <3> QED
      BY <3>1, <3>2, <3>3
  <2>4. i \in 1 .. p \/ i = p + 1 \/ i - 1 \in p + 1 .. L
    BY <1>12, <1>13
  <2> QED
    BY <2>1, <2>2, <2>3, <2>4
<1>14. Len(q) = L + 1
  BY DEF L
<1> QED
  BY <1>6, <1>7, <1>13, <1>14 DEF IndexedBy, U

(* A new string keeps the invariant.                                       *)
LEMMA NewEntryStep ==
  ASSUME TableInv, ~wrapped, NEW s \in Text, NEW persistence \in Persistence,
         NEW n, NEW size, Gaps(Comparison(strings, sorted, s)) # {},
         FreeEntry(n, size), NewEntry(s, n, size, persistence)
  PROVE  TableInv'
<1>1. TypeOK /\ IndexedBy(strings, maxcount, sorted) /\ SlotsOK
  BY DEF TableInv, IndexOK
<1>2. /\ size \in 1 .. MaxSlots /\ maxcount <= size
      /\ n \in 1 .. size - 1 /\ n <= maxcount
      /\ n < maxcount => ~Used(strings[n])
      /\ size \in Nat /\ maxcount \in Nat /\ n \in Nat /\ maxcount \in 1 .. MaxSlots
  BY <1>1, FreeEntryFacts, StringTableAssumption DEF TypeOK
<1>3. /\ \A m \in 0 .. maxcount - 1 : m # n => strings'[m] = strings[m]
      /\ strings'[n].str = s /\ Used(strings'[n])
      /\ \A m \in maxcount .. size - 1 : m # n => strings'[m] = ZeroSlot
      /\ strings' \in [0 .. size - 1 -> SlotType]
  BY NewEntryFacts
<1>4. PICK p \in Gaps(Comparison(strings, sorted, s)) : sorted' = Inserted(sorted, p, n)
  BY NewEntryFacts
<1>5. maxcount' = size /\ freeslot' = n + 1 /\ wrapped' = wrapped
  BY DEF NewEntry
<1>6. /\ sorted \in Seq(1 .. maxcount - 1)
      /\ sorted \in Seq(1 .. size - 1)
      /\ p \in 0 .. Len(sorted)
  <2>1. sorted \in Seq(1 .. maxcount - 1)
    BY <1>1 DEF TypeOK
  <2>2. 1 .. maxcount - 1 \subseteq 1 .. size - 1
    BY <1>2
  <2>3. p \in 0 .. Len(sorted)
    BY <1>1, ComparisonFacts DEF Gaps
  <2> QED
    BY <2>1, <2>2, <2>3, SeqMonotonic
<1>7. /\ Inserted(sorted, p, n) \in Seq(1 .. size - 1)
      /\ Len(Inserted(sorted, p, n)) = Len(sorted) + 1
      /\ \A i \in 1 .. p : Inserted(sorted, p, n)[i] = sorted[i]
      /\ Inserted(sorted, p, n)[p + 1] = n
      /\ \A i \in p + 1 .. Len(sorted) : Inserted(sorted, p, n)[i + 1] = sorted[i]
  <2> DEFINE S == 1 .. size - 1
  <2>1. sorted \in Seq(S) /\ n \in S /\ p \in 0 .. Len(sorted)
    BY <1>2, <1>6
  <2> HIDE DEF S
  <2>2. Inserted(sorted, p, n) \in Seq(S)
    BY <2>1, InsertedFacts
  <2>3. Len(Inserted(sorted, p, n)) = Len(sorted) + 1
    BY <2>1, InsertedFacts
  <2>4. \A i \in 1 .. p : Inserted(sorted, p, n)[i] = sorted[i]
    BY <2>1, InsertedFacts
  <2>5. Inserted(sorted, p, n)[p + 1] = n
    BY <2>1, InsertedFacts
  <2>6. \A i \in p + 1 .. Len(sorted) : Inserted(sorted, p, n)[i + 1] = sorted[i]
    BY <2>1, InsertedFacts
  <2> QED
    BY <2>2, <2>3, <2>4, <2>5, <2>6 DEF S
<1>8. /\ \A i \in 1 .. Len(sorted) : i <= p => strings[sorted[i]].str < s
      /\ \A i \in 1 .. Len(sorted) : i > p => s < strings[sorted[i]].str
  BY <1>1, MissIsNew
<1>9. /\ s \in Int
      /\ \A m \in maxcount .. size - 1 : m # n => ~Used(strings'[m])
  <2>1. s \in Int
    BY <1>1, SlotFacts
  <2>2. ~Used(ZeroSlot)
    BY DEF ZeroSlot, Slot, Used
  <2> QED
    BY <1>3, <2>1, <2>2
<1>10. IndexedBy(strings', size, Inserted(sorted, p, n))
  BY <1>1, <1>2, <1>3, <1>6, <1>7, <1>8, <1>9, IndexWithNew
<1>11. IndexOK'
  BY <1>4, <1>5, <1>10 DEF IndexOK
<1>12. TypeOK'
  <2>1. sorted' \in Seq(1 .. maxcount' - 1)
    BY <1>4, <1>5, <1>7
  <2>2. freeslot' \in 1 .. maxcount' /\ maxcount' \in 1 .. MaxSlots /\ wrapped' \in BOOLEAN
    BY <1>1, <1>2, <1>5 DEF TypeOK
  <2> QED
    BY <1>3, <1>5, <2>1, <2>2 DEF TypeOK
<1>13. SlotsOK'
  <2>1. strings'[0] = ZeroSlot
    BY <1>1, <1>2, <1>3 DEF SlotsOK
  <2>2. ASSUME NEW m \in 1 .. size - 1, Used(strings'[m])
        PROVE  strings'[m].str \in Text
    <3>1. CASE m = n
      BY <1>3, <3>1
    <3>2. CASE m # n /\ m < maxcount
      <4>1. m \in 0 .. maxcount - 1 /\ m \in 1 .. maxcount - 1
        BY <1>2, <3>2
      <4>2. strings'[m] = strings[m]
        BY <1>3, <3>2, <4>1
      <4> QED
        BY <1>1, <2>2, <4>1, <4>2 DEF SlotsOK, Live
    <3>3. CASE m # n /\ m >= maxcount
      <4>1. m \in maxcount .. size - 1
        BY <1>2, <3>3
      <4> QED
        BY <1>9, <2>2, <3>3, <4>1
    <3> QED
      BY <1>2, <3>1, <3>2, <3>3
  <2> QED
    BY <1>5, <2>1, <2>2 DEF SlotsOK, Live
<1> QED
  BY <1>11, <1>12, <1>13 DEF TableInv

(* Another reference to a string keeps the invariant.                      *)
LEMMA AddReferenceStep ==
  ASSUME TableInv, ~wrapped, NEW n \in Live, NEW persistence \in Persistence,
         AddReference(n, persistence)
  PROVE  TableInv'
<1>1. TypeOK /\ IndexedBy(strings, maxcount, sorted) /\ SlotsOK
  BY DEF TableInv, IndexOK
<1>2. /\ strings' \in [0 .. maxcount - 1 -> SlotType]
      /\ wrapped' \in BOOLEAN
      /\ \A m \in 0 .. maxcount - 1 : m # n => strings'[m] = strings[m]
      /\ strings'[n].str = strings[n].str
      /\ ~wrapped' => Used(strings'[n])
  BY AddReferenceFacts
<1>3. maxcount' = maxcount /\ sorted' = sorted /\ freeslot' = freeslot
  BY DEF AddReference
<1>4. maxcount \in Nat /\ n \in 1 .. maxcount - 1 /\ Used(strings[n])
  BY <1>1, SlotFacts DEF Live
<1>5. \A m \in 0 .. maxcount - 1 : strings'[m].str = strings[m].str
  BY <1>2
<1>6. ~wrapped' => \A m \in 1 .. maxcount - 1 : Used(strings'[m]) <=> Used(strings[m])
  BY <1>2, <1>4
<1>7. IndexedBy(strings, maxcount, sorted) /\ ~wrapped' => IndexedBy(strings', maxcount, sorted)
  <2> SUFFICES ASSUME ~wrapped' PROVE IndexedBy(strings', maxcount, sorted)
    BY <1>1
  <2>1. \A i \in 1 .. Len(sorted) : sorted[i] \in 1 .. maxcount - 1 /\ Used(strings[sorted[i]])
    BY <1>1 DEF IndexedBy
  <2>2. \A i \in 1 .. Len(sorted) : Used(strings'[sorted[i]])
    BY <1>6, <2>1
  <2>3. \A i \in 1 .. Len(sorted) : strings'[sorted[i]].str = strings[sorted[i]].str
    BY <1>5, <2>1
  <2>4. \A m \in 1 .. maxcount - 1 : Used(strings'[m]) => \E i \in 1 .. Len(sorted) : sorted[i] = m
    BY <1>1, <1>6 DEF IndexedBy
  <2>5. \A i, j \in 1 .. Len(sorted) : i < j => strings'[sorted[i]].str < strings'[sorted[j]].str
    BY <1>1, <2>3 DEF IndexedBy
  <2> QED
    BY <2>1, <2>2, <2>4, <2>5 DEF IndexedBy
<1>8. IndexOK'
  BY <1>1, <1>3, <1>7 DEF IndexOK
<1>9. TypeOK'
  BY <1>1, <1>2, <1>3 DEF TypeOK
<1>10. SlotsOK'
  <2>1. strings'[0] = ZeroSlot
    BY <1>1, <1>2, <1>4 DEF SlotsOK
  <2>2. ASSUME NEW m \in 1 .. maxcount - 1, Used(strings'[m])
        PROVE  strings'[m].str \in Text
    <3>1. CASE m = n
      BY <1>1, <1>5, <3>1 DEF SlotsOK
    <3>2. CASE m # n
      BY <1>1, <1>2, <2>2, <3>2 DEF SlotsOK, Live
    <3> QED
      BY <3>1, <3>2
  <2> QED
    BY <1>3, <2>1, <2>2 DEF SlotsOK, Live
<1> QED
  BY <1>8, <1>9, <1>10 DEF TableInv

(* What a step of the table is.                                            *)
LEMMA StepCases ==
  ASSUME TableInv, Next
  PROVE  /\ ~wrapped
         /\ \/ \E n \in Live, persistence \in Persistence : AddReference(n, persistence)
            \/ \E s \in Text, persistence \in Persistence, n \in 0 .. maxcount, size \in {maxcount, Grown} :
                 /\ Gaps(Comparison(strings, sorted, s)) # {}
                 /\ FreeEntry(n, size) /\ NewEntry(s, n, size, persistence)
<1>1. ~wrapped /\ TypeOK /\ IndexedBy(strings, maxcount, sorted)
  BY DEF Next, TableInv, IndexOK
<1>2. PICK s \in Text, persistence \in Persistence : AddString(s, persistence)
  BY DEF Next
<1>3. CASE \E i \in Hits(Comparison(strings, sorted, s)) : AddReference(sorted[i], persistence)
  <2>1. PICK i \in Hits(Comparison(strings, sorted, s)) : AddReference(sorted[i], persistence)
    BY <1>3
  <2>2. sorted[i] \in Live
    BY <1>1, HitIsSlot
  <2> QED
    BY <1>1, <2>1, <2>2
<1>4. CASE /\ Gaps(Comparison(strings, sorted, s)) # {}
           /\ \E n \in 0 .. maxcount, size \in {maxcount, Grown} :
                FreeEntry(n, size) /\ NewEntry(s, n, size, persistence)
  BY <1>1, <1>4
<1> QED
  BY <1>2, <1>3, <1>4 DEF AddString

LEMMA StepTable == TableInv /\ [Next]_tableVars => TableInv'
<1> SUFFICES ASSUME TableInv, [Next]_tableVars PROVE TableInv'
  OBVIOUS
<1>1. CASE Next
  <2>1. ~wrapped
    BY <1>1, StepCases
  <2>2. CASE \E n \in Live, persistence \in Persistence : AddReference(n, persistence)
    BY <2>1, <2>2, AddReferenceStep
  <2>3. CASE \E s \in Text, persistence \in Persistence, n \in 0 .. maxcount, size \in {maxcount, Grown} :
               /\ Gaps(Comparison(strings, sorted, s)) # {}
               /\ FreeEntry(n, size) /\ NewEntry(s, n, size, persistence)
    BY <2>1, <2>3, NewEntryStep
  <2> QED
    BY <1>1, <2>2, <2>3, StepCases
<1>2. CASE UNCHANGED tableVars
  BY <1>2 DEF tableVars, TableInv, TypeOK, IndexOK, SlotsOK, Live
<1> QED
  BY <1>1, <1>2

(* The types, the agreement of index and slots, and the empty slot 0 hold  *)
(* in every state of every string table, up to and including the state in  *)
(* which a reference count first goes round.                               *)
THEOREM TableInvariant == Spec => []TableInv
BY InitTable, StepTable, PTL DEF Spec

(* Whatever is added, the free slot and the ids in the index stay within   *)
(* the table: what set_st_entry writes (string.c:201) is a slot of it.     *)
THEOREM TableTyped == Spec => []TypeOK
BY TableInvariant, PTL DEF TableInv

(* The search by string and the lookup by id are inverse to each other as  *)
(* long as no reference count goes round (string.c, the sorted array).     *)
THEOREM IndexAgrees == Spec => []IndexOK
BY TableInvariant, PTL DEF TableInv

(* Slot 0 never gets a string: the "oops" of string_totalsize never shows. *)
THEOREM ElementZeroStaysEmpty == Spec => []SlotsOK
BY TableInvariant, PTL DEF TableInv

(* A step in which no count goes round leaves every used slot used, with   *)
(* its string, and persistent if it was.                                   *)
LEMMA StepKeepsIds ==
  ASSUME TableInv, Next, ~wrapped'
  PROVE  \A n \in Live : /\ n \in Live' /\ strings'[n].str = strings[n].str
                         /\ strings[n].pref > 0 => strings'[n].pref > 0
<1>1. TypeOK /\ IndexedBy(strings, maxcount, sorted) /\ ~wrapped
  BY StepCases DEF TableInv, IndexOK
<1>2. \A m \in Live : m \in 0 .. maxcount - 1 /\ m \in 1 .. maxcount - 1 /\ Used(strings[m])
  BY DEF Live
<1>3. ASSUME NEW n \in Live, NEW persistence \in Persistence, AddReference(n, persistence),
             NEW m \in Live
      PROVE  /\ m \in Live' /\ strings'[m].str = strings[m].str
             /\ strings[m].pref > 0 => strings'[m].pref > 0
  <2>1. /\ \A k \in 0 .. maxcount - 1 : k # n => strings'[k] = strings[k]
        /\ strings'[n].str = strings[n].str
        /\ Used(strings'[n])
        /\ strings[n].pref > 0 => strings'[n].pref > 0
        /\ maxcount' = maxcount
    BY <1>1, <1>3, AddReferenceFacts DEF AddReference
  <2>2. m = n \/ strings'[m] = strings[m]
    BY <1>2, <2>1
  <2> QED
    BY <1>2, <2>1, <2>2 DEF Live
<1>4. ASSUME NEW s \in Text, NEW persistence \in Persistence, NEW n, NEW size,
             Gaps(Comparison(strings, sorted, s)) # {},
             FreeEntry(n, size), NewEntry(s, n, size, persistence), NEW m \in Live
      PROVE  /\ m \in Live' /\ strings'[m].str = strings[m].str
             /\ strings[m].pref > 0 => strings'[m].pref > 0
  <2>1. /\ size \in Nat /\ maxcount \in Nat /\ maxcount <= size
        /\ n < maxcount => ~Used(strings[n])
        /\ n \in 1 .. size - 1
    BY <1>1, <1>4, FreeEntryFacts, StringTableAssumption DEF TypeOK
  <2>2. \A k \in 0 .. maxcount - 1 : k # n => strings'[k] = strings[k]
    BY <1>1, <1>4, NewEntryFacts
  <2>3. m # n /\ m \in 1 .. size - 1
    BY <1>2, <2>1
  <2>4. strings'[m] = strings[m]
    BY <1>2, <2>2, <2>3
  <2>5. maxcount' = size
    BY <1>4 DEF NewEntry
  <2> QED
    BY <1>2, <2>3, <2>4, <2>5 DEF Live
<1> QED
  BY <1>3, <1>4, StepCases

(* An id, once given out, resolves to the same string in every later       *)
(* state: the rows of all tables hold ids (_libmsi_add_string).            *)
THEOREM IdsStayStable == Spec => IdsAreStable
<1>1. TableInv /\ [Next]_tableVars =>
        [~wrapped' => \A n \in Live : n \in Live' /\ strings'[n].str = strings[n].str]_tableVars
  BY StepKeepsIds
<1> QED
  BY <1>1, TableInvariant, PTL DEF Spec, IdsAreStable

(* A string the file must keep is never demoted to a temporary one.        *)
THEOREM PersistentStaysSo == Spec => PersistentStays
<1>1. TableInv /\ [Next]_tableVars =>
        [~wrapped' => \A n \in Live : strings[n].pref > 0 => strings'[n].pref > 0]_tableVars
  BY StepKeepsIds
<1> QED
  BY <1>1, TableInvariant, PTL DEF Spec, PersistentStays

-----------------------------------------------------------------------------
(* The table implements the pool.                                          *)

(* The pool of a table given by its slots: the strings of the used slots,  *)
(* each with the number of a slot that holds it.                           *)
UsedIn(tab, size) == {n \in 1 .. size - 1 : Used(tab[n])}
PoolIn(tab, size) == [s \in {tab[n].str : n \in UsedIn(tab, size)} |->
                        CHOOSE n \in UsedIn(tab, size) : tab[n].str = s]

(* An index rules out two slots with the same string, so the slot chosen   *)
(* for a string is the only one.                                           *)
LEMMA PoolFacts ==
  ASSUME NEW tab, NEW size \in Nat, NEW index, Len(index) \in Nat,
         IndexedBy(tab, size, index),
         \A n \in UsedIn(tab, size) : tab[n].str \in Int
  PROVE  /\ \A n \in UsedIn(tab, size) : PoolIn(tab, size)[tab[n].str] = n
         /\ \A m, n \in UsedIn(tab, size) : tab[m].str = tab[n].str => m = n
<1>1. ASSUME NEW m \in UsedIn(tab, size), NEW n \in UsedIn(tab, size), tab[m].str = tab[n].str
      PROVE  m = n
  <2>1. PICK i \in 1 .. Len(index) : index[i] = m
    BY DEF IndexedBy, UsedIn
  <2>2. PICK j \in 1 .. Len(index) : index[j] = n
    BY DEF IndexedBy, UsedIn
  <2>3. ~(i < j) /\ ~(j < i)
    <3>1. ~(tab[m].str < tab[n].str) /\ ~(tab[n].str < tab[m].str)
      BY <1>1
    <3> QED
      BY <2>1, <2>2, <3>1 DEF IndexedBy
  <2>4. i = j
    BY <2>3
  <2> QED
    BY <2>1, <2>2, <2>4
<1>2. ASSUME NEW n \in UsedIn(tab, size)
      PROVE  PoolIn(tab, size)[tab[n].str] = n
  <2> DEFINE m == CHOOSE k \in UsedIn(tab, size) : tab[k].str = tab[n].str
  <2>1. m \in UsedIn(tab, size) /\ tab[m].str = tab[n].str
    OBVIOUS
  <2>2. m = n
    BY <1>1, <2>1
  <2>3. tab[n].str \in {tab[k].str : k \in UsedIn(tab, size)}
    OBVIOUS
  <2>4. PoolIn(tab, size)[tab[n].str] = m
    BY <2>3 DEF PoolIn
  <2> QED
    BY <2>2, <2>4
<1> QED
  BY <1>1, <1>2

(* As long as no count has gone round.                                     *)
LiveInv == TableInv /\ ~wrapped

LEMMA PoolOfTable ==
  ASSUME LiveInv
  PROVE  /\ poolOf = PoolIn(strings, maxcount)
         /\ Live = UsedIn(strings, maxcount)
         /\ \A n \in Live : strings[n].str \in Text
         /\ \A n \in Live : poolOf[strings[n].str] = n
         /\ \A m, n \in Live : strings[m].str = strings[n].str => m = n
         /\ DOMAIN poolOf = {strings[n].str : n \in Live}
<1>1. TypeOK /\ IndexedBy(strings, maxcount, sorted) /\ SlotsOK
  BY DEF LiveInv, TableInv, IndexOK
<1>2. Live = UsedIn(strings, maxcount)
  BY DEF Live, UsedIn
<1>3. poolOf = PoolIn(strings, maxcount)
  BY <1>2 DEF poolOf, PoolIn
<1>4. \A n \in Live : strings[n].str \in Text
  BY <1>1 DEF SlotsOK
<1>5. /\ \A n \in UsedIn(strings, maxcount) : strings[n].str \in Int
      /\ maxcount \in Nat /\ Len(sorted) \in Nat
  BY <1>1, <1>2, <1>4, SlotFacts
<1>6. /\ \A n \in UsedIn(strings, maxcount) : PoolIn(strings, maxcount)[strings[n].str] = n
      /\ \A m, n \in UsedIn(strings, maxcount) : strings[m].str = strings[n].str => m = n
  BY <1>1, <1>5, PoolFacts
<1>7. DOMAIN poolOf = {strings[n].str : n \in Live}
  BY DEF poolOf
<1> QED
  BY <1>2, <1>3, <1>4, <1>6, <1>7

(* The same after a step.                                                  *)
LEMMA PoolOfPrimed ==
  ASSUME LiveInv'
  PROVE  \A n \in Live' : poolOf'[strings'[n].str] = n
<1>1. TypeOK' /\ IndexedBy(strings', maxcount', sorted') /\ SlotsOK'
  BY DEF LiveInv, TableInv, IndexOK
<1>2. Live' = UsedIn(strings', maxcount')
  BY DEF Live, UsedIn
<1>3. poolOf' = PoolIn(strings', maxcount')
  BY <1>2 DEF poolOf, PoolIn
<1>4. \A n \in UsedIn(strings', maxcount') : strings'[n].str \in Int
  <2>1. \A n \in Live' : strings'[n].str \in Text
    BY <1>1 DEF SlotsOK
  <2>2. \A s \in Text : s \in Int
    BY StringTableAssumption
  <2> QED
    BY <1>2, <2>1, <2>2
<1>5. Len(sorted') \in Nat /\ maxcount' \in Nat
  <2>1. sorted' \in Seq(1 .. maxcount' - 1) /\ maxcount' \in 1 .. MaxSlots
    BY <1>1 DEF TypeOK
  <2>2. Len(sorted') \in Nat
    BY <2>1, LenProperties
  <2> QED
    BY <2>1, <2>2, StringTableAssumption
<1>6. \A n \in UsedIn(strings', maxcount') : PoolIn(strings', maxcount')[strings'[n].str] = n
  BY <1>1, <1>4, <1>5, PoolFacts
<1> QED
  BY <1>2, <1>3, <1>6

LEMMA PoolInit == LiveInv => Pool!Init
<1> SUFFICES ASSUME LiveInv PROVE Pool!Init
  OBVIOUS
<1> DEFINE known == DOMAIN poolOf
<1>1. known \in SUBSET Text
  BY PoolOfTable
<1>2. \A s \in known : poolOf[s] \in 1 .. MaxSlots
  <2>1. \A n \in Live : n \in 1 .. MaxSlots
    BY StringTableAssumption DEF LiveInv, TableInv, TypeOK, Live
  <2> QED
    BY <2>1, PoolOfTable
<1>3. poolOf \in [known -> 1 .. MaxSlots]
  <2>1. poolOf = [s \in known |-> poolOf[s]]
    BY DEF poolOf
  <2> HIDE DEF known
  <2> QED
    BY <1>2, <2>1
<1>4. \A s, t \in known : poolOf[s] = poolOf[t] => s = t
  BY PoolOfTable
<1> QED
  BY <1>1, <1>3, <1>4 DEF Pool!Init, Pool!TypeOK

(* Another reference leaves the pool as it is.                             *)
LEMMA PoolUnchanged ==
  ASSUME LiveInv, ~wrapped', NEW n \in Live, NEW persistence \in Persistence,
         AddReference(n, persistence)
  PROVE  poolOf' = poolOf
<1>1. /\ \A m \in 0 .. maxcount - 1 : m # n => strings'[m] = strings[m]
      /\ strings'[n].str = strings[n].str
      /\ Used(strings'[n])
      /\ maxcount' = maxcount
  BY AddReferenceFacts DEF LiveInv, AddReference
<1>2. \A m \in 1 .. maxcount - 1 :
        strings'[m].str = strings[m].str /\ (Used(strings'[m]) <=> Used(strings[m]))
  BY <1>1 DEF Live
<1>3. Live' = Live
  BY <1>1, <1>2 DEF Live
<1>4. \A m \in Live : m \in 1 .. maxcount - 1
  BY DEF Live
<1>5. \A m \in Live : strings'[m].str = strings[m].str
  BY <1>2, <1>4
<1>6. {strings'[m].str : m \in Live} = {strings[m].str : m \in Live}
  BY <1>5
<1>7. \A s : (CHOOSE m \in Live : strings'[m].str = s) = (CHOOSE m \in Live : strings[m].str = s)
  <2> TAKE s
  <2>1. \A m : (m \in Live /\ strings'[m].str = s) <=> (m \in Live /\ strings[m].str = s)
    BY <1>5
  <2> QED
    BY <2>1
<1>8. poolOf' = [s \in {strings'[m].str : m \in Live} |-> CHOOSE m \in Live : strings'[m].str = s]
  BY <1>3 DEF poolOf
<1> QED
  BY <1>6, <1>7, <1>8, Zenon DEF poolOf

(* A new entry adds its string to the pool, under the number of its slot.  *)
LEMMA PoolGrows ==
  ASSUME LiveInv, LiveInv', NEW s \in Text, NEW persistence \in Persistence,
         NEW n, NEW size, Gaps(Comparison(strings, sorted, s)) # {},
         FreeEntry(n, size), NewEntry(s, n, size, persistence)
  PROVE  Pool!AddNew(s, n) /\ n \in 1 .. MaxSlots
<1>1. TypeOK /\ IndexedBy(strings, maxcount, sorted) /\ TableInv /\ ~wrapped
  BY DEF LiveInv, TableInv, IndexOK
<1>2. /\ size \in 1 .. MaxSlots /\ maxcount <= size /\ size \in Nat /\ maxcount \in Nat
      /\ n \in 1 .. size - 1 /\ n <= maxcount
      /\ n < maxcount => ~Used(strings[n])
  BY <1>1, FreeEntryFacts, StringTableAssumption DEF TypeOK
<1>3. /\ \A m \in 0 .. maxcount - 1 : m # n => strings'[m] = strings[m]
      /\ strings'[n].str = s /\ Used(strings'[n])
      /\ \A m \in maxcount .. size - 1 : m # n => strings'[m] = ZeroSlot
  BY <1>1, NewEntryFacts
<1>4. maxcount' = size
  BY DEF NewEntry
<1>5. \A m \in 1 .. size - 1 : m # n => (Used(strings'[m]) <=> m < maxcount /\ Used(strings[m]))
  <2> TAKE m \in 1 .. size - 1
  <2>1. CASE m < maxcount
    BY <1>2, <1>3, <2>1
  <2>2. CASE m >= maxcount
    <3>1. ~Used(ZeroSlot)
      BY DEF ZeroSlot, Slot, Used
    <3> QED
      BY <1>2, <1>3, <2>2, <3>1
  <2> QED
    BY <1>2, <2>1, <2>2
<1>6. Live' = Live \cup {n} /\ n \notin Live
  BY <1>2, <1>3, <1>4, <1>5 DEF Live
<1>7. \A m \in Live : strings'[m] = strings[m]
  <2>1. \A m \in Live : m \in 0 .. maxcount - 1 /\ m # n
    BY <1>2, <1>6 DEF Live
  <2> QED
    BY <1>3, <2>1
<1>8. s \notin DOMAIN poolOf
  <2>1. PICK p \in Gaps(Comparison(strings, sorted, s)) : TRUE
    OBVIOUS
  <2>2. \A m \in Live : strings[m].str # s
    BY <1>1, <2>1, MissIsNew
  <2> QED
    BY <2>2 DEF poolOf
<1>9. \A t \in DOMAIN poolOf : poolOf[t] # n
  BY <1>6, PoolOfTable
<1>10. DOMAIN poolOf = {strings[m].str : m \in Live}
  BY DEF poolOf
<1>11. DOMAIN poolOf' = {strings'[m].str : m \in Live'}
  BY DEF poolOf
<1>12. DOMAIN poolOf' = DOMAIN poolOf \cup {s}
  BY <1>3, <1>6, <1>7, <1>10, <1>11
<1>13. \A m \in Live' : poolOf'[strings'[m].str] = m
  BY PoolOfPrimed
<1>14. ASSUME NEW t \in DOMAIN poolOf \cup {s}
       PROVE  poolOf'[t] = IF t = s THEN n ELSE poolOf[t]
  <2>1. CASE t = s
    BY <1>3, <1>6, <1>13, <2>1
  <2>2. CASE t # s
    <3>1. PICK m \in Live : strings[m].str = t
      BY <1>10, <1>14, <2>2
    <3>2. poolOf[t] = m /\ poolOf'[t] = m
      BY <1>6, <1>7, <1>13, <3>1, PoolOfTable
    <3> QED
      BY <2>2, <3>2
  <2> QED
    BY <2>1, <2>2
<1>15. poolOf' = [t \in DOMAIN poolOf' |-> poolOf'[t]]
  BY DEF poolOf
<1>16. poolOf' = [t \in DOMAIN poolOf \cup {s} |-> IF t = s THEN n ELSE poolOf[t]]
  BY <1>12, <1>14, <1>15
<1>17. n \in 1 .. MaxSlots
  BY <1>2, StringTableAssumption
<1> QED
  BY <1>8, <1>9, <1>16, <1>17 DEF Pool!AddNew

LEMMA PoolStep == LiveInv /\ [Next /\ ~wrapped']_tableVars => LiveInv' /\ [Pool!Next]_poolOf
<1> SUFFICES ASSUME LiveInv, [Next /\ ~wrapped']_tableVars
             PROVE  LiveInv' /\ [Pool!Next]_poolOf
  OBVIOUS
<1>1. LiveInv'
  BY StepTable DEF LiveInv, tableVars
<1>2. CASE Next /\ ~wrapped'
  <2>1. CASE \E n \in Live, persistence \in Persistence : AddReference(n, persistence)
    BY <1>1, <1>2, <2>1, PoolUnchanged
  <2>2. CASE \E s \in Text, persistence \in Persistence, n \in 0 .. maxcount, size \in {maxcount, Grown} :
               /\ Gaps(Comparison(strings, sorted, s)) # {}
               /\ FreeEntry(n, size) /\ NewEntry(s, n, size, persistence)
    <3>1. PICK s \in Text, persistence \in Persistence, n \in 0 .. maxcount, size \in {maxcount, Grown} :
               /\ Gaps(Comparison(strings, sorted, s)) # {}
               /\ FreeEntry(n, size) /\ NewEntry(s, n, size, persistence)
      BY <2>2
    <3>2. Pool!AddNew(s, n) /\ n \in 1 .. MaxSlots
      BY <1>1, <3>1, PoolGrows
    <3> QED
      BY <1>1, <3>1, <3>2 DEF Pool!Next
  <2> QED
    BY <1>1, <1>2, <2>1, <2>2, StepCases DEF LiveInv
<1>3. CASE UNCHANGED tableVars
  BY <1>1, <1>3 DEF tableVars, poolOf, Live
<1> QED
  BY <1>1, <1>2, <1>3

(* As long as no reference count goes round, the string table is a pool of *)
(* strings: an id is given once, to one string, and kept.                  *)
THEOREM TableImplementsPool == NoWrapSpec => ImplementsPool
<1>1. Init => LiveInv
  BY InitTable DEF LiveInv, Init
<1> QED
  BY <1>1, PoolInit, PoolStep, PTL DEF NoWrapSpec, ImplementsPool, Pool!Spec
=============================================================================
