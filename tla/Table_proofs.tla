---------------------------- MODULE Table_proofs ----------------------------
(***************************************************************************)
(* The rows of a table, for any schema, strings, numbers and bounds: their *)
(* ids name strings, no two have the same keys, an INSERT adds its row, a  *)
(* DELETE takes rows in step with those it found, and a commit of          *)
(* persistent data keeps what there is.                                    *)
(***************************************************************************)
EXTENDS Table, StringTable_proofs, Loops, FiniteSetTheorems

CellType(c) == IF IsString(c) THEN 0 .. maxcount - 1 ELSE {0} \cup Number
RowType == [cells : [Column -> Nat], temp : BOOLEAN]

SameKeys(row, other) == \A c \in Key : row.cells[c] = other.cells[c]
DistinctKeys(q) == \A i, j \in 1 .. Len(q) : SameKeys(q[i], q[j]) => i = j

Typed ==
  /\ schema \in Schema /\ lost \in BOOLEAN /\ unchecked \in BOOLEAN
  /\ rows \in Seq(RowType) /\ Len(rows) <= schema.maxRows
  /\ \A r \in 1 .. Len(rows), c \in Column : rows[r].cells[c] \in CellType(c)

(* A statement in progress has cells left to set, and no count went round. *)
JobOK ==
  \/ job = Idle
  \/ job = Undefined
  \/ /\ job.kind \in {"insert", "update"} /\ job = Job(job.kind, job.cells, job.vals)
     /\ ~wrapped
     /\ job.cells # {} /\ job.cells \subseteq (1 .. Len(rows)) \X Column
     /\ job.vals \in Record

(* Until a commit has dropped a string a row refers to, ids are in use.    *)
Resolved ==
  ~lost /\ ~wrapped =>
    \A r \in 1 .. Len(rows), c \in Column : IsString(c) => rows[r].cells[c] \in {0} \cup Live

(* An INSERT in progress fills row J: the cells it has set are those of its*)
(* values, and no other row has keys that are those of its values, also    *)
(* where the string of a key is yet to be added.                           *)
Inserting(J) ==
  /\ job.cells \subseteq {J} \X Column
  /\ \A c \in Column : <<J, c>> \notin job.cells => rows[J].cells[c] \in CellOf(c, job.vals[c])
  /\ ~lost /\ ~unchecked =>
       \A r \in 1 .. Len(rows) \ {J} :
         /\ \A q \in 1 .. Len(rows) \ {J} : SameKeys(rows[q], rows[r]) => q = r
         /\ \E c \in Key : rows[r].cells[c] \notin CellOf(c, job.vals[c])

InsertOK == job.kind = "insert" => \E J \in 1 .. Len(rows) : Inserting(J)

(* Else the keys are distinct, and an UPDATE in progress sets no key.      *)
KeysOK ==
  job.kind # "insert" /\ ~lost /\ ~unchecked =>
    /\ DistinctKeys(rows)
    /\ job.kind = "update" => Len(rows) <= 1 \/ \A cell \in job.cells : cell[2] \notin Key

(* Where all data is persistent, every string has a persistent reference.  *)
AllKept ==
  AllPersistent =>
    /\ \A r \in 1 .. Len(rows) : ~rows[r].temp
    /\ ~wrapped => \A n \in Live : strings[n].pref > 0

RowsInv == TableInv /\ Typed /\ JobOK /\ Resolved /\ InsertOK /\ KeysOK /\ AllKept

-----------------------------------------------------------------------------
(* Sequences: one element fewer, one more, and the first n.                *)
LEMMA RemoveAtFacts ==
  ASSUME NEW S, NEW q \in Seq(S), NEW r \in 1 .. Len(q)
  PROVE  /\ RemoveAt(q, r) \in Seq(S)
         /\ Len(RemoveAt(q, r)) = Len(q) - 1
         /\ \A i \in 1 .. Len(q) - 1 : RemoveAt(q, r)[i] = q[IF i < r THEN i ELSE i + 1]
<1> DEFINE front == SubSeq(q, 1, r - 1)
           back == SubSeq(q, r + 1, Len(q))
<1>1. Len(q) \in Nat /\ r \in Nat /\ \A i \in 1 .. Len(q) : q[i] \in S
  OBVIOUS
<1>2. /\ front \in Seq(S) /\ Len(front) = r - 1
      /\ \A i \in 1 .. r - 1 : front[i] = q[i]
  <2>1. 1 \in Int /\ r - 1 \in Int /\ \A i \in 1 .. r - 1 : q[i] \in S
    BY <1>1
  <2>2. /\ front \in Seq(S) /\ Len(front) = IF 1 <= r - 1 THEN r - 1 - 1 + 1 ELSE 0
        /\ \A i \in 1 .. r - 1 - 1 + 1 : front[i] = q[1 + i - 1]
    BY <2>1, SubSeqProperties
  <2>3. \A i \in 1 .. r - 1 : i \in 1 .. r - 1 - 1 + 1 /\ 1 + i - 1 = i
    BY <1>1
  <2> HIDE DEF front
  <2> QED
    BY <1>1, <2>2, <2>3
<1>3. /\ back \in Seq(S) /\ Len(back) = Len(q) - r
      /\ \A i \in 1 .. Len(q) - r : back[i] = q[r + i]
  <2>1. r + 1 \in Int /\ Len(q) \in Int /\ \A i \in r + 1 .. Len(q) : q[i] \in S
    BY <1>1
  <2>2. /\ back \in Seq(S) /\ Len(back) = IF r + 1 <= Len(q) THEN Len(q) - (r + 1) + 1 ELSE 0
        /\ \A i \in 1 .. Len(q) - (r + 1) + 1 : back[i] = q[r + 1 + i - 1]
    BY <2>1, SubSeqProperties
  <2> HIDE DEF back
  <2> QED
    BY <1>1, <2>2
<1>4. RemoveAt(q, r) = front \o back
  BY DEF RemoveAt
<1> HIDE DEF front, back
<1>5. /\ front \o back \in Seq(S) /\ Len(front \o back) = Len(front) + Len(back)
      /\ \A i \in 1 .. Len(front) + Len(back) :
           (front \o back)[i] = IF i <= Len(front) THEN front[i] ELSE back[i - Len(front)]
  BY <1>2, <1>3, ConcatProperties
<1> DEFINE all == front \o back
<1>6. \A i \in 1 .. Len(q) - 1 : all[i] = q[IF i < r THEN i ELSE i + 1]
  <2> HIDE DEF all
  <2> TAKE i \in 1 .. Len(q) - 1
  <2>1. all[i] = IF i <= r - 1 THEN front[i] ELSE back[i - (r - 1)]
    BY <1>1, <1>2, <1>3, <1>5 DEF all
  <2>2. CASE i < r
    BY <1>1, <1>2, <2>1, <2>2
  <2>3. CASE ~(i < r)
    <3>1. i - (r - 1) \in 1 .. Len(q) - r
      BY <1>1, <2>3
    <3> QED
      BY <1>1, <1>3, <2>1, <2>3, <3>1
  <2> QED
    BY <2>2, <2>3
<1> QED
  BY <1>1, <1>2, <1>3, <1>4, <1>5, <1>6

-----------------------------------------------------------------------------
Answers(tab, index, s) == {index[i] : i \in Hits(Comparison(tab, index, s))}
SlotsWith(tab, size, s) == {x \in 1 .. size - 1 : Used(tab[x]) /\ tab[x].str = s}

(* With an index that agrees with the slots, a search by string finds the  *)
(* slot that has it.                                                       *)
LEMMA HitsAreSlots ==
  ASSUME NEW size \in Nat, NEW tab, \A n \in 0 .. size - 1 : tab[n].str \in Int,
         NEW index, IndexedBy(tab, size, index), NEW s \in Int
  PROVE  Answers(tab, index, s) = SlotsWith(tab, size, s)
<1> DEFINE cmp == Comparison(tab, index, s)
<1>1. /\ \A i \in 1 .. Len(index) : index[i] \in 1 .. size - 1 /\ Used(tab[index[i]])
      /\ \A n \in 1 .. size - 1 : Used(tab[n]) => \E i \in 1 .. Len(index) : index[i] = n
  BY DEF IndexedBy
<1>2. Hits(cmp) = {i \in 1 .. Len(index) : Compare(s, tab[index[i]].str) = 0}
  <2>1. cmp = [i \in 1 .. Len(index) |-> Compare(s, tab[index[i]].str)]
    BY DEF Comparison
  <2>2. Len(cmp) = Len(index)
    BY <2>1, LenProperties
  <2> HIDE DEF cmp
  <2> QED
    BY <2>1, <2>2 DEF Hits
<1>3. \A i \in 1 .. Len(index) : Compare(s, tab[index[i]].str) = 0 <=> tab[index[i]].str = s
  <2> TAKE i \in 1 .. Len(index)
  <2>1. tab[index[i]].str \in Int
    BY <1>1
  <2> QED
    BY <2>1 DEF Compare
<1> DEFINE hits == Hits(cmp)
<1>4. Answers(tab, index, s) = {index[i] : i \in hits}
  BY DEF Answers
<1> HIDE DEF cmp, hits
<1>5. \A i \in hits : index[i] \in SlotsWith(tab, size, s)
  BY <1>1, <1>2, <1>3 DEF hits, SlotsWith
<1>6. \A x \in SlotsWith(tab, size, s) : \E i \in hits : index[i] = x
  BY <1>1, <1>2, <1>3 DEF hits, SlotsWith
<1> QED
  BY <1>4, <1>5, <1>6

(* So the cell of a string is the id of the slot that has it.              *)
LEMMA CellOfString ==
  ASSUME TypeOK, IndexedBy(strings, maxcount, sorted), NEW c \in Column, IsString(c), NEW v \in Text
  PROVE  CellOf(c, v) = {x \in Live : strings[x].str = v}
<1>1. CellOf(c, v) = Answers(strings, sorted, v)
  BY StringTableAssumption DEF CellOf, Answers
<1>2. maxcount \in Nat /\ v \in Int /\ \A n \in 0 .. maxcount - 1 : strings[n].str \in Int
  BY SlotFacts
<1>3. Answers(strings, sorted, v) = SlotsWith(strings, maxcount, v)
  BY <1>2, HitsAreSlots
<1> QED
  BY <1>1, <1>3 DEF Live, SlotsWith

LEMMA CellOfStringNext ==
  ASSUME TypeOK', IndexedBy(strings', maxcount', sorted'), NEW c, IsString(c)', NEW v \in Text
  PROVE  CellOf(c, v)' = {x \in Live' : strings'[x].str = v}
<1>1. PICK tab, index, size : tab = strings' /\ index = sorted' /\ size = maxcount'
  OBVIOUS
<1>2. CellOf(c, v)' = Answers(tab, index, v)
  BY <1>1, StringTableAssumption DEF CellOf, Answers
<1>3. size \in Nat /\ v \in Int
  BY <1>1, StringTableAssumption DEF TypeOK
<1>4. \A n \in 0 .. size - 1 : tab[n].str \in Int
  <2>1. tab \in [0 .. size - 1 -> SlotType]
    BY <1>1 DEF TypeOK
  <2>2. \A t \in Text : t \in Int
    BY StringTableAssumption
  <2>3. \A e \in SlotType : e.str \in Int
    BY <2>2 DEF SlotType, Null
  <2> QED
    BY <2>1, <2>3
<1>5. Live' = {x \in 1 .. size - 1 : Used(tab[x])}
  BY <1>1 DEF Live
<1>6. IndexedBy(tab, size, index)
  BY <1>1
<1>7. Answers(tab, index, v) = SlotsWith(tab, size, v)
  BY <1>3, <1>4, <1>6, HitsAreSlots
<1> QED
  BY <1>1, <1>2, <1>5, <1>7 DEF SlotsWith

(* A string that no slot has is added to a slot that was free: the one     *)
(* before the next hint.                                                   *)
LEMMA AddNewString ==
  ASSUME TableInv, ~wrapped, NEW s \in Text, NEW persistence \in Persistence,
         AddString(s, persistence), \A x \in Live : strings[x].str # s
  PROVE  LET n == freeslot' - 1 IN
         /\ TableInv' /\ ~wrapped'
         /\ n \in Live' /\ n \notin Live /\ strings'[n].str = s
         /\ Live' = Live \cup {n}
         /\ \A x \in Live : strings'[x] = strings[x]
         /\ persistence = "persistent" => strings'[n].pref > 0
         /\ maxcount <= maxcount'
<1>1. TypeOK /\ IndexedBy(strings, maxcount, sorted) /\ maxcount \in Nat
  BY SlotFacts DEF TableInv, IndexOK
<1>2. Hits(Comparison(strings, sorted, s)) = {}
  BY <1>1, HitIsSlot
<1>3. PICK n \in 0 .. maxcount, size \in {maxcount, Grown} :
        /\ Gaps(Comparison(strings, sorted, s)) # {}
        /\ FreeEntry(n, size) /\ NewEntry(s, n, size, persistence)
  BY <1>2 DEF AddString
<1>4. TableInv'
  BY <1>3, NewEntryStep
<1>5. /\ size \in 1 .. MaxSlots /\ maxcount <= size
      /\ n \in 1 .. size - 1 /\ n <= maxcount
      /\ n < maxcount => ~Used(strings[n])
  BY <1>1, <1>3, FreeEntryFacts
<1>6. /\ \A m \in 0 .. maxcount - 1 : m # n => strings'[m] = strings[m]
      /\ strings'[n].str = s /\ Used(strings'[n])
      /\ \A m \in maxcount .. size - 1 : m # n => strings'[m] = ZeroSlot
  BY <1>3, NewEntryFacts
<1>7. maxcount' = size /\ freeslot' = n + 1 /\ wrapped' = wrapped
  BY <1>3 DEF NewEntry
<1>8. n \notin Live /\ n \in Live' /\ freeslot' - 1 = n /\ size \in Nat
  BY <1>1, <1>5, <1>6, <1>7, StringTableAssumption DEF Live
<1>9. \A x \in Live : strings'[x] = strings[x] /\ x \in Live'
  BY <1>1, <1>5, <1>6, <1>7, <1>8 DEF Live
<1>10. \A x \in Live' : x = n \/ x \in Live
  <2> TAKE x \in Live'
  <2>1. x \in 1 .. size - 1 /\ Used(strings'[x])
    BY <1>7 DEF Live
  <2>2. ~Used(ZeroSlot)
    BY DEF Used, ZeroSlot, Slot
  <2> QED
    BY <1>1, <1>5, <1>6, <1>8, <2>1, <2>2 DEF Live
<1>11. persistence = "persistent" => strings'[n].pref > 0
  <2>1. strings' = [i \in 0 .. size - 1 |->
                      IF i = n THEN IF persistence = "persistent" THEN Slot(s, 1, 0) ELSE Slot(s, 0, 1)
                      ELSE IF i < maxcount THEN strings[i] ELSE ZeroSlot]
    BY <1>3 DEF NewEntry
  <2>2. n \in 0 .. size - 1
    BY <1>5, <1>8
  <2> QED
    BY <2>1, <2>2 DEF Slot
<1> QED
  BY <1>4, <1>5, <1>6, <1>7, <1>8, <1>9, <1>10, <1>11

-----------------------------------------------------------------------------
(* The columns of the table, its rows, and the values of a statement.      *)
LEMMA ColumnFacts ==
  ASSUME schema \in Schema
  PROVE  /\ Len(Columns) \in Nat /\ Column = 1 .. Len(Columns)
         /\ Key \subseteq Column /\ Key # {}
         /\ schema.temporary \subseteq BOOLEAN /\ schema.others \subseteq Persistence
         /\ schema.maxRows \in Nat
<1>1. IsSchema(schema)
  BY TableAssumption
<1> DEFINE ColumnType == [type : {"string", "number"}, key : BOOLEAN, nullable : BOOLEAN]
<1>2. Columns \in Seq(ColumnType)
  BY <1>1 DEF IsSchema, Columns
<1>3. Len(Columns) \in Nat /\ Column = 1 .. Len(Columns)
  <2> HIDE DEF ColumnType
  <2> QED
    BY <1>2 DEF Column
<1>4. Key # {}
  BY <1>1 DEF IsSchema, Key, Column, Columns
<1> QED
  BY <1>1, <1>3, <1>4 DEF IsSchema, Key

LEMMA RowFacts ==
  ASSUME Typed
  PROVE  /\ Len(rows) \in Nat
         /\ \A r \in 1 .. Len(rows) : rows[r] \in RowType /\ rows[r].cells \in [Column -> Nat]
<1> DEFINE S == RowType
<1>1. rows \in Seq(S)
  BY DEF Typed
<1>2. \A row \in S : row.cells \in [Column -> Nat]
  BY DEF RowType
<1> HIDE DEF S
<1>3. Len(rows) \in Nat /\ \A r \in 1 .. Len(rows) : rows[r] \in S
  BY <1>1
<1> QED
  BY <1>2, <1>3 DEF S

LEMMA RecordFacts ==
  ASSUME NEW vals \in Record, NEW c \in Column
  PROVE  /\ vals[c] \in Given(c)
         /\ vals[c] = 0 \/ vals[c] \in (IF IsString(c) THEN Text ELSE Number \cup {OutOfRange})
         /\ vals = [k \in Column |-> vals[k]]
BY DEF Record, Given

(* The cells a value may become are of the column's type, and in use.      *)
LEMMA CellOfFacts ==
  ASSUME TypeOK, IndexedBy(strings, maxcount, sorted), NEW c \in Column,
         NEW v, v = 0 \/ v \in (IF IsString(c) THEN Text ELSE Number \cup {OutOfRange}),
         NEW x \in CellOf(c, v)
  PROVE  x \in Nat /\ x \in CellType(c) /\ (IsString(c) => x \in {0} \cup Live)
<1>1. maxcount \in Nat /\ maxcount >= 1
  BY StringTableAssumption DEF TypeOK
<1>2. CASE v = 0
  BY <1>1, <1>2, TableAssumption DEF CellOf, CellType
<1>3. CASE IsString(c) /\ v \in Text
  BY <1>1, <1>3, CellOfString DEF CellType, Live
<1>4. CASE ~IsString(c) /\ v # 0
  BY <1>4, TableAssumption DEF CellOf, CellType
<1> QED
  BY <1>2, <1>3, <1>4

(* A cell reads as the value it stands for.                                *)
LEMMA CellReads ==
  ASSUME TypeOK, IndexedBy(strings, maxcount, sorted), NEW c \in Column,
         NEW v, v = 0 \/ v \in (IF IsString(c) THEN Text ELSE Number \cup {OutOfRange}),
         NEW x \in CellOf(c, v)
  PROVE  Read(c, x) = v
<1>1. maxcount \in Nat
  BY StringTableAssumption DEF TypeOK
<1>2. CASE v = 0
  BY <1>2 DEF CellOf, Read, Lookup, Empty
<1>3. CASE IsString(c) /\ v \in Text
  <2>1. x \in 1 .. maxcount - 1 /\ Used(strings[x]) /\ strings[x].str = v
    BY <1>3, CellOfString DEF Live
  <2> QED
    BY <1>1, <1>3, <2>1 DEF Read, Lookup
<1>4. CASE ~IsString(c) /\ v # 0
  BY <1>4 DEF CellOf, Read
<1> QED
  BY <1>2, <1>3, <1>4

LEMMA CellNext ==
  ASSUME TypeOK', IndexedBy(strings', maxcount', sorted'), schema' = schema, NEW c \in Column,
         NEW v, v = 0 \/ v \in (IF IsString(c) THEN Text ELSE Number \cup {OutOfRange}),
         NEW x \in CellOf(c, v)'
  PROVE  /\ x \in Nat /\ x \in CellType(c)' /\ (IsString(c) => x \in {0} \cup Live')
         /\ Read(c, x)' = v
<1>1. PICK size \in Nat : size = maxcount'
  BY StringTableAssumption DEF TypeOK
<1>2. size >= 1
  BY <1>1, StringTableAssumption DEF TypeOK
<1>3. /\ IsString(c)' <=> IsString(c)
      /\ IsString(c) => CellType(c)' = 0 .. size - 1 /\ Read(c, x)' = Lookup(x)'
      /\ ~IsString(c) => CellType(c)' = {0} \cup Number /\ Read(c, x)' = x
  BY <1>1 DEF IsString, Columns, CellType, Read
<1>4. CASE v = 0
  <2>1. x = 0
    BY <1>4 DEF CellOf
  <2>2. Lookup(x)' = 0
    BY <2>1 DEF Lookup, Empty
  <2>3. x \in CellType(c)'
    <3>1. 0 \in 0 .. size - 1
      BY <1>2
    <3> QED
      BY <1>3, <2>1, <3>1
  <2>4. Read(c, x)' = v
    BY <1>3, <1>4, <2>1, <2>2
  <2> QED
    BY <2>1, <2>3, <2>4
<1>5. CASE IsString(c) /\ v \in Text
  <2>1. x \in Live' /\ strings'[x].str = v
    BY <1>3, <1>5, CellOfStringNext
  <2>2. x \in 1 .. size - 1 /\ Used(strings'[x])
    BY <1>1, <2>1 DEF Live
  <2>3. Lookup(x)' = v
    BY <1>1, <2>1, <2>2 DEF Lookup
  <2>4. x \in 0 .. size - 1 /\ x \in Nat
    BY <2>2
  <2>5. x \in CellType(c)' /\ Read(c, x)' = v
    BY <1>3, <1>5, <2>3, <2>4
  <2> QED
    BY <2>1, <2>4, <2>5
<1>6. CASE ~IsString(c) /\ v # 0
  <2>1. x \in {v} \cap Number
    BY <1>3, <1>6 DEF CellOf
  <2> QED
    BY <1>3, <1>6, <2>1, TableAssumption
<1> QED
  BY <1>4, <1>5, <1>6

(* An id in use reads as a string, now and as long as the slot keeps it.   *)
LEMMA LiveReads ==
  ASSUME TypeOK, NEW x \in Live
  PROVE  Lookup(x) = strings[x].str
<1>1. maxcount \in Nat
  BY StringTableAssumption DEF TypeOK
<1> QED
  BY <1>1 DEF Lookup, Live

-----------------------------------------------------------------------------
(* What a step leaves alone.                                               *)
LEMMA SameSchema ==
  ASSUME schema' = schema
  PROVE  /\ Columns' = Columns /\ Column' = Column /\ Key' = Key /\ Record' = Record
         /\ \A c : IsString(c)' <=> IsString(c)
         /\ AllPersistent' <=> AllPersistent
<1>1. Columns' = Columns /\ Column' = Column /\ Key' = Key /\ \A c : IsString(c)' <=> IsString(c)
  BY DEF Columns, Column, Key, IsString
<1>2. \A c : Given(c)' = Given(c)
  BY <1>1 DEF Given
<1>3. Record' = Record
  BY <1>1, <1>2 DEF Record
<1> QED
  BY <1>1, <1>3 DEF AllPersistent

LEMMA SameTable ==
  ASSUME schema' = schema, UNCHANGED tableVars
  PROVE  /\ Live' = Live /\ maxcount' = maxcount /\ wrapped' = wrapped /\ strings' = strings
         /\ \A c, v : CellOf(c, v)' = CellOf(c, v)
         /\ \A c, x : Read(c, x)' = Read(c, x)
         /\ \A c : CellType(c)' = CellType(c)
         /\ TableInv => TableInv'
<1>1. \A c : IsString(c)' <=> IsString(c)
  BY SameSchema
<1>2. /\ strings' = strings /\ maxcount' = maxcount /\ sorted' = sorted
      /\ freeslot' = freeslot /\ wrapped' = wrapped
  BY DEF tableVars
<1>3. \A c, v : CellOf(c, v)' = CellOf(c, v)
  BY <1>1, <1>2 DEF CellOf
<1>4. \A c, x : Read(c, x)' = Read(c, x)
  BY <1>1, <1>2 DEF Read, Lookup
<1>5. \A c : CellType(c)' = CellType(c)
  BY <1>1, <1>2 DEF CellType
<1>6. TableInv => TableInv'
  BY StepTable
<1> QED
  BY <1>2, <1>3, <1>4, <1>5, <1>6 DEF Live

-----------------------------------------------------------------------------
(* The invariant holds at first, and each statement keeps it.              *)
LEMMA TableStarts == TableInit => RowsInv
<1> SUFFICES ASSUME TableInit PROVE RowsInv
  OBVIOUS
<1> USE StringTableAssumption
<1>1. /\ maxcount = 1 /\ strings = [n \in {0} |-> ZeroSlot] /\ freeslot = 1 /\ sorted = <<>>
      /\ wrapped = FALSE /\ rows = <<>> /\ job = Idle /\ lost = FALSE /\ unchecked = FALSE
      /\ schema \in Schema
  BY DEF TableInit
<1>2. ZeroSlot \in SlotType /\ Live = {} /\ 0 .. maxcount - 1 = {0}
  BY <1>1 DEF ZeroSlot, Slot, SlotType, Live
<1>3. TypeOK
  BY <1>1, <1>2 DEF TypeOK
<1>4. IndexOK /\ SlotsOK
  BY <1>1, <1>2 DEF IndexOK, IndexedBy, SlotsOK
<1>5. Typed
  <2>1. schema.maxRows \in Nat
    BY <1>1, ColumnFacts
  <2> QED
    BY <1>1, <2>1 DEF Typed
<1>6. JobOK /\ Resolved /\ InsertOK
  BY <1>1 DEF JobOK, Resolved, InsertOK, Idle
<1>7. KeysOK /\ AllKept
  BY <1>1, <1>2 DEF KeysOK, AllKept, DistinctKeys, Idle
<1> QED
  BY <1>3, <1>4, <1>5, <1>6, <1>7 DEF RowsInv, TableInv

(* An INSERT puts a row in: it has the others of before around it.         *)
LEMMA InsertPlace ==
  ASSUME Typed, NEW vals \in Record, NEW temp \in schema.temporary, InsertRow(vals, temp)
  PROVE  \E J \in 1 .. Len(rows) + 1, row \in RowType :
           /\ row.temp = temp
           /\ \A c \in Column : row.cells[c] \in {0} \cup {rows[r].cells[c] : r \in 1 .. Len(rows)}
           /\ rows' = Inserted(rows, J - 1, row) /\ rows' \in Seq(RowType)
           /\ Len(rows') = Len(rows) + 1
           /\ \A r \in 1 .. Len(rows') : r # J => rows'[r] = rows[IF r < J THEN r ELSE r - 1]
           /\ rows'[J] = row
           /\ job' = Job("insert", {J} \X Column, vals)
<1>1. Len(rows) \in Nat /\ \A r \in 1 .. Len(rows) : rows[r] \in RowType /\ rows[r].cells \in [Column -> Nat]
  BY RowFacts
<1>2. schema.temporary \subseteq BOOLEAN
  BY ColumnFacts DEF Typed
<1>3. PICK p \in InsertIndex(vals) :
        /\ rows' = Inserted(rows, p, Row(IF p < Len(rows) THEN rows[p + 1].cells ELSE Blank, temp))
        /\ job' = Job("insert", {p + 1} \X Column, vals)
  BY DEF InsertRow
<1> DEFINE cells == IF p < Len(rows) THEN rows[p + 1].cells ELSE Blank
           row == Row(cells, temp)
<1>4. p \in 0 .. Len(rows)
  <2>1. CASE \E c \in Key : vals[c] = 0
    BY <1>1, <2>1 DEF InsertIndex
  <2>2. CASE ~\E c \in Key : vals[c] = 0
    <3> DEFINE cmp == [r \in 1 .. Len(rows) |-> CompareRecord(vals, rows[r])]
    <3>1. InsertIndex(vals) = Gaps(cmp)
      BY <2>2 DEF InsertIndex
    <3>2. Len(cmp) = Len(rows)
      BY <1>1
    <3> HIDE DEF cmp
    <3> QED
      BY <3>1, <3>2 DEF Gaps
  <2> QED
    BY <2>1, <2>2
<1>5. /\ cells \in [Column -> Nat]
      /\ \A c \in Column : cells[c] \in {0} \cup {rows[r].cells[c] : r \in 1 .. Len(rows)}
  <2>1. CASE p < Len(rows)
    <3>1. p + 1 \in 1 .. Len(rows) /\ cells = rows[p + 1].cells
      BY <1>1, <1>4, <2>1
    <3> HIDE DEF cells
    <3> QED
      BY <1>1, <3>1
  <2>2. CASE ~(p < Len(rows))
    BY <2>2 DEF Blank
  <2> QED
    BY <2>1, <2>2
<1>6. row \in RowType /\ row.temp = temp /\ row.cells = cells
  <2> HIDE DEF cells
  <2> QED
    BY <1>2, <1>5 DEF Row, RowType
<1> HIDE DEF cells, row
<1> DEFINE S == RowType
<1>7. rows \in Seq(S) /\ row \in S
  BY <1>6 DEF Typed
<1> HIDE DEF S
<1>8. /\ Inserted(rows, p, row) \in Seq(S) /\ Len(Inserted(rows, p, row)) = Len(rows) + 1
      /\ \A i \in 1 .. p : Inserted(rows, p, row)[i] = rows[i]
      /\ Inserted(rows, p, row)[p + 1] = row
      /\ \A i \in p + 1 .. Len(rows) : Inserted(rows, p, row)[i + 1] = rows[i]
  <2>1. Inserted(rows, p, row) \in Seq(S) /\ Len(Inserted(rows, p, row)) = Len(rows) + 1
    BY <1>4, <1>7, InsertedFacts
  <2>2. \A i \in 1 .. p : Inserted(rows, p, row)[i] = rows[i]
    BY <1>4, <1>7, InsertedFacts
  <2>3. Inserted(rows, p, row)[p + 1] = row
    BY <1>4, <1>7, InsertedFacts
  <2>4. \A i \in p + 1 .. Len(rows) : Inserted(rows, p, row)[i + 1] = rows[i]
    BY <1>4, <1>7, InsertedFacts
  <2> QED
    BY <2>1, <2>2, <2>3, <2>4
<1>9. rows' = Inserted(rows, p, row)
  BY <1>3 DEF row, cells
<1> DEFINE J == p + 1
<1>10. J \in 1 .. Len(rows) + 1 /\ J - 1 = p
  BY <1>1, <1>4
<1>11. \A r \in 1 .. Len(rows') : r # J => rows'[r] = rows[IF r < J THEN r ELSE r - 1]
  <2> TAKE r \in 1 .. Len(rows')
  <2>1. CASE r < J
    BY <1>1, <1>4, <1>8, <1>9, <2>1
  <2>2. CASE r > J
    <3>1. r - 1 \in p + 1 .. Len(rows) /\ (r - 1) + 1 = r
      BY <1>1, <1>4, <1>8, <1>9, <2>2
    <3>2. rows'[r] = rows[r - 1]
      BY <1>8, <1>9, <3>1
    <3> QED
      BY <1>1, <1>4, <2>2, <3>2
  <2> QED
    BY <1>1, <1>4, <1>8, <1>9, <2>1, <2>2
<1>12. rows' \in Seq(RowType)
  BY <1>8, <1>9 DEF S
<1>13. job' = Job("insert", {J} \X Column, vals)
  BY <1>3
<1>14. rows' = Inserted(rows, J - 1, row) /\ Len(rows') = Len(rows) + 1 /\ rows'[J] = row
  BY <1>8, <1>9, <1>10
<1>15. \A c \in Column : row.cells[c] \in {0} \cup {rows[r].cells[c] : r \in 1 .. Len(rows)}
  BY <1>5, <1>6
<1> HIDE DEF J
<1> QED
  BY <1>6, <1>10, <1>11, <1>12, <1>13, <1>14, <1>15

LEMMA InsertKeeps ==
  ASSUME RowsInv, schema' = schema,
         NEW vals \in Record, NEW temp \in schema.temporary, InsertRow(vals, temp), ~wrapped
  PROVE  RowsInv'
<1>1. TableInv /\ Typed /\ Resolved /\ KeysOK /\ AllKept
  BY DEF RowsInv
<1>2. TypeOK /\ IndexedBy(strings, maxcount, sorted)
  BY <1>1 DEF TableInv, IndexOK
<1>3. /\ job = Idle /\ Len(rows) < schema.maxRows /\ ~Duplicate(vals)
      /\ UNCHANGED tableVars /\ lost' = lost /\ unchecked' = unchecked
  BY DEF InsertRow
<1>4. /\ Live' = Live /\ maxcount' = maxcount /\ wrapped' = wrapped /\ strings' = strings
      /\ \A c, v : CellOf(c, v)' = CellOf(c, v)
      /\ \A c : CellType(c)' = CellType(c)
      /\ TableInv'
  BY <1>1, <1>3, SameTable
<1>5. /\ Columns' = Columns /\ Column' = Column /\ Key' = Key /\ Record' = Record
      /\ \A c : IsString(c)' <=> IsString(c)
      /\ AllPersistent' <=> AllPersistent
  BY SameSchema
<1>6. Len(rows) \in Nat /\ \A r \in 1 .. Len(rows) : rows[r] \in RowType /\ rows[r].cells \in [Column -> Nat]
  BY <1>1, RowFacts
<1>7. PICK J \in 1 .. Len(rows) + 1, row \in RowType :
        /\ row.temp = temp
        /\ \A c \in Column : row.cells[c] \in {0} \cup {rows[r].cells[c] : r \in 1 .. Len(rows)}
        /\ rows' \in Seq(RowType)
        /\ Len(rows') = Len(rows) + 1
        /\ \A r \in 1 .. Len(rows') : r # J => rows'[r] = rows[IF r < J THEN r ELSE r - 1]
        /\ rows'[J] = row
        /\ job' = Job("insert", {J} \X Column, vals)
  <2> DEFINE Placed(j, new) ==
        /\ new.temp = temp
        /\ \A c \in Column : new.cells[c] \in {0} \cup {rows[r].cells[c] : r \in 1 .. Len(rows)}
        /\ rows' = Inserted(rows, j - 1, new) /\ rows' \in Seq(RowType)
        /\ Len(rows') = Len(rows) + 1
        /\ \A r \in 1 .. Len(rows') : r # j => rows'[r] = rows[IF r < j THEN r ELSE r - 1]
        /\ rows'[j] = new
        /\ job' = Job("insert", {j} \X Column, vals)
  <2>1. \E j \in 1 .. Len(rows) + 1, new \in RowType : Placed(j, new)
    BY <1>1, InsertPlace, Zenon
  <2> QED
    BY <2>1, Zenon
<1> DEFINE old(r) == IF r < J THEN r ELSE r - 1
<1>8. \A r \in 1 .. Len(rows') : r # J => old(r) \in 1 .. Len(rows) /\ rows'[r] = rows[old(r)]
  BY <1>6, <1>7
<1>9. maxcount \in Nat /\ maxcount >= 1
  BY <1>2, StringTableAssumption DEF TypeOK
<1>10. \A r \in 1 .. Len(rows'), c \in Column :
         rows'[r].cells[c] = 0 \/ \E q \in 1 .. Len(rows) : rows'[r].cells[c] = rows[q].cells[c]
  <2> TAKE r \in 1 .. Len(rows'), c \in Column
  <2>1. CASE r = J
    BY <1>7, <2>1
  <2>2. CASE r # J
    BY <1>8, <2>2
  <2> QED
    BY <2>1, <2>2
<1> HIDE DEF old
<1>11. Typed'
  <2>1. RowType' = RowType
    BY <1>5 DEF RowType
  <2>2. Len(rows') <= schema.maxRows
    <3>1. schema.maxRows \in Nat
      BY <1>1, ColumnFacts DEF Typed
    <3> QED
      BY <1>3, <1>6, <1>7, <3>1
  <2>3. \A c \in Column : 0 \in CellType(c)
    BY <1>9 DEF CellType
  <2>4. \A r \in 1 .. Len(rows'), c \in Column : rows'[r].cells[c] \in CellType(c)
    BY <1>1, <1>10, <2>3 DEF Typed
  <2> QED
    BY <1>1, <1>3, <1>4, <1>5, <1>7, <2>1, <2>2, <2>4 DEF Typed
<1>12. JobOK'
  <2>1. Column # {} /\ J \in 1 .. Len(rows')
    BY <1>1, <1>6, <1>7, ColumnFacts DEF Typed
  <2> DEFINE cells == {J} \X Column
  <2>2. cells # {} /\ cells \subseteq (1 .. Len(rows')) \X Column
    <3>1. PICK c \in Column : TRUE
      BY <2>1
    <3>2. <<J, c>> \in cells
      OBVIOUS
    <3>3. ASSUME NEW cell \in cells PROVE cell \in (1 .. Len(rows')) \X Column
      BY <2>1
    <3> HIDE DEF cells
    <3> QED
      BY <3>2, <3>3
  <2>3. job' = [kind |-> "insert", cells |-> cells, vals |-> vals]
    BY <1>7 DEF Job
  <2> HIDE DEF cells
  <2> QED
    BY <1>4, <1>5, <2>2, <2>3 DEF JobOK, Job
<1>13. Resolved'
  BY <1>1, <1>3, <1>4, <1>5, <1>10 DEF Resolved
<1>14. InsertOK'
  <2>1. J \in 1 .. Len(rows') /\ job'.cells = {J} \X Column /\ job'.vals = vals
    BY <1>6, <1>7 DEF Job
  <2>2. \A c \in Column : <<J, c>> \in job'.cells
    BY <2>1
  <2>3. ASSUME ~lost, ~unchecked, NEW r \in 1 .. Len(rows'), r # J
        PROVE  /\ \A q \in 1 .. Len(rows') : q # J /\ (\A c \in Key : rows'[q].cells[c] = rows'[r].cells[c]) => q = r
               /\ \E c \in Key : rows'[r].cells[c] \notin CellOf(c, vals[c])
    <3>1. DistinctKeys(rows)
      BY <1>1, <1>3, <2>3 DEF KeysOK, Idle
    <3>2. \A q \in 1 .. Len(rows') : q # J /\ old(q) = old(r) => q = r
      BY <1>6, <1>7, <2>3 DEF old
    <3>3. \E c \in Key : rows[old(r)].cells[c] \notin CellOf(c, vals[c])
      BY <1>3, <1>8, <2>3 DEF Duplicate
    <3>4. ASSUME NEW q \in 1 .. Len(rows'), q # J, \A c \in Key : rows'[q].cells[c] = rows'[r].cells[c]
          PROVE  q = r
      <4>1. SameKeys(rows[old(q)], rows[old(r)])
        BY <1>8, <2>3, <3>4 DEF SameKeys
      <4> QED
        BY <1>8, <2>3, <3>1, <3>2, <3>4, <4>1 DEF DistinctKeys
    <3> QED
      BY <1>8, <2>3, <3>3, <3>4
  <2>4. Inserting(J)'
    BY <1>3, <1>4, <1>5, <2>1, <2>2, <2>3 DEF Inserting, SameKeys
  <2> QED
    BY <2>1, <2>4 DEF InsertOK
<1>15. KeysOK'
  BY <1>7 DEF KeysOK, Job
<1>16. AllKept'
  <2>1. ASSUME AllPersistent, NEW r \in 1 .. Len(rows') PROVE ~rows'[r].temp
    <3>1. temp = FALSE
      BY <1>1, <2>1, ColumnFacts DEF AllPersistent, Typed
    <3> QED
      BY <1>1, <1>7, <1>8, <2>1, <3>1 DEF AllKept
  <2> QED
    BY <1>1, <1>4, <1>5, <2>1 DEF AllKept
<1> QED
  BY <1>4, <1>11, <1>12, <1>13, <1>14, <1>15, <1>16 DEF RowsInv

-----------------------------------------------------------------------------
(* Setting a cell.                                                         *)
LEMMA JobFacts ==
  ASSUME Typed, JobOK, NEW r, NEW c, NEW v, Setting(r, c, v)
  PROVE  /\ job = Job(job.kind, job.cells, job.vals) /\ ~wrapped
         /\ r \in 1 .. Len(rows) /\ c \in Column /\ v = job.vals[c]
         /\ job.vals \in Record /\ \A k \in Column : job.vals[k] \in Given(k)
         /\ v = 0 \/ v \in (IF IsString(c) THEN Text ELSE Number \cup {OutOfRange})
<1>1. job.kind \in {"insert", "update"} /\ <<r, c>> \in job.cells /\ v = job.vals[c]
  BY DEF Setting
<1>2. /\ job = Job(job.kind, job.cells, job.vals) /\ ~wrapped
      /\ job.cells \subseteq (1 .. Len(rows)) \X Column /\ job.vals \in Record
  BY <1>1 DEF JobOK, Idle, Undefined
<1>3. r \in 1 .. Len(rows) /\ c \in Column
  BY <1>1, <1>2
<1>4. \A k \in Column : job.vals[k] \in Given(k)
  BY <1>2, RecordFacts
<1> QED
  BY <1>1, <1>2, <1>3, <1>4, RecordFacts

LEMMA RestFacts ==
  ASSUME job = Job(job.kind, job.cells, job.vals), NEW r, NEW c, job' = Rest(r, c)
  PROVE  \/ job.cells = {<<r, c>>} /\ job' = Idle
         \/ /\ job.cells # {<<r, c>>}
            /\ job' = Job(job.kind, job.cells \ {<<r, c>>}, job.vals)
BY DEF Rest, Job

(* The cell set changes in its row, and nothing else does.                 *)
CellSet(r, c, x) == [rows EXCEPT ![r].cells[c] = x]

LEMMA RowSet ==
  ASSUME Typed, NEW r \in 1 .. Len(rows), NEW c \in Column, NEW x \in Nat,
         rows' = CellSet(r, c, x)
  PROVE  /\ rows' \in Seq(RowType) /\ Len(rows') = Len(rows)
         /\ \A q \in 1 .. Len(rows) : q # r => rows'[q] = rows[q]
         /\ rows'[r].cells[c] = x /\ rows'[r].temp = rows[r].temp
         /\ \A k \in Column : k # c => rows'[r].cells[k] = rows[r].cells[k]
<1> DEFINE S == RowType
           row == [rows[r] EXCEPT !.cells[c] = x]
<1>1. rows \in Seq(S) /\ rows[r] \in RowType /\ rows[r].cells \in [Column -> Nat]
  BY RowFacts DEF Typed
<1>2. row \in RowType /\ row.temp = rows[r].temp /\ row.cells[c] = x
      /\ \A k \in Column : k # c => row.cells[k] = rows[r].cells[k]
  BY <1>1 DEF RowType
<1>3. rows' = [rows EXCEPT ![r] = row]
  BY DEF CellSet
<1>4. row \in S
  BY <1>2
<1> HIDE DEF S, row
<1>5. rows' \in Seq(S) /\ Len(rows') = Len(rows)
      /\ \A q \in 1 .. Len(rows) : rows'[q] = IF q = r THEN row ELSE rows[q]
  <2> DEFINE new == [rows EXCEPT ![r] = row]
  <2>1. new \in Seq(S) /\ Len(new) = Len(rows)
        /\ \A q \in 1 .. Len(rows) : new[q] = IF q = r THEN row ELSE rows[q]
    BY <1>1, <1>4, ExceptSeq
  <2> HIDE DEF new
  <2> QED
    BY <1>3, <2>1 DEF new
<1> QED
  BY <1>2, <1>5 DEF S

(* What an INSERT in progress has of its row and of the others, after the  *)
(* next cell got one of its value's.                                       *)
LEMMA InsertingSet ==
  ASSUME Typed, Resolved, ~wrapped, schema' = schema,
         NEW vals \in Record, vals = job.vals, NEW J \in 1 .. Len(rows), Inserting(J),
         NEW c \in Column, NEW x \in Nat, x \in CellOf(c, vals[c])',
         rows' = CellSet(J, c, x),
         \A k \in Column : \A w \in Given(k) : CellOf(k, w) \subseteq CellOf(k, w)',
         \A k \in Column : \A w \in Given(k), y \in Nat :
           y \in CellOf(k, w)' /\ (IsString(k) => y \in {0} \cup Live) => y \in CellOf(k, w)
  PROVE  /\ \A k \in Column :
              k = c \/ <<J, k>> \notin job.cells => rows'[J].cells[k] \in CellOf(k, vals[k])'
         /\ ~lost /\ ~unchecked =>
              \A q \in 1 .. Len(rows) \ {J} :
                /\ \A p \in 1 .. Len(rows) \ {J} : SameKeys(rows'[p], rows'[q]) => p = q
                /\ \E k \in Key : rows'[q].cells[k] \notin CellOf(k, vals[k])'
<1>1. /\ \A q \in 1 .. Len(rows) : q # J => rows'[q] = rows[q]
      /\ rows'[J].cells[c] = x
      /\ \A k \in Column : k # c => rows'[J].cells[k] = rows[J].cells[k]
  BY RowSet
<1>2. \A k \in Column : vals[k] \in Given(k)
  BY RecordFacts
<1>3. \A k \in Column : <<J, k>> \notin job.cells => rows[J].cells[k] \in CellOf(k, vals[k])
  BY DEF Inserting
<1>4. ASSUME NEW k \in Column, k = c \/ <<J, k>> \notin job.cells
      PROVE  rows'[J].cells[k] \in CellOf(k, vals[k])'
  <2>1. CASE k = c
    BY <1>1, <2>1
  <2>2. CASE k # c
    BY <1>1, <1>2, <1>3, <1>4, <2>2
  <2> QED
    BY <2>1, <2>2
<1>5. ASSUME ~lost, ~unchecked, NEW q \in 1 .. Len(rows) \ {J}
      PROVE  /\ \A p \in 1 .. Len(rows) \ {J} : SameKeys(rows'[p], rows'[q]) => p = q
             /\ \E k \in Key : rows'[q].cells[k] \notin CellOf(k, vals[k])'
  <2>1. PICK k \in Key : rows[q].cells[k] \notin CellOf(k, vals[k])
    BY <1>5 DEF Inserting
  <2>2. k \in Column /\ rows[q].cells[k] \in Nat
    BY RowFacts DEF Key
  <2>3. IsString(k) => rows[q].cells[k] \in {0} \cup Live
    BY <1>5, <2>2 DEF Resolved
  <2>4. rows'[q].cells[k] \notin CellOf(k, vals[k])'
    BY <1>1, <1>2, <2>1, <2>2, <2>3
  <2>5. \A p \in 1 .. Len(rows) \ {J} : SameKeys(rows'[p], rows'[q]) => p = q
    BY <1>1, <1>5 DEF Inserting
  <2> QED
    BY <2>4, <2>5
<1> QED
  BY <1>4, <1>5

(* A cell set to one of its value's keeps the invariant, whether or not    *)
(* the string of that cell was added for it.                               *)
LEMMA SetKeeps ==
  ASSUME RowsInv, TableInv', ~wrapped', schema' = schema, lost' = lost, unchecked' = unchecked,
         NEW r, NEW c, NEW v, Setting(r, c, v), job' = Rest(r, c),
         NEW x \in CellOf(c, v)', rows' = CellSet(r, c, x),
         maxcount <= maxcount', Live \subseteq Live',
         \A k \in Column : \A w \in Given(k) : CellOf(k, w) \subseteq CellOf(k, w)',
         \A k \in Column : \A w \in Given(k), y \in Nat :
           y \in CellOf(k, w)' /\ (IsString(k) => y \in {0} \cup Live) => y \in CellOf(k, w),
         AllPersistent /\ (\A n \in Live : strings[n].pref > 0) /\ ~rows[r].temp =>
           \A n \in Live' : strings'[n].pref > 0
  PROVE  RowsInv'
<1>1. TableInv /\ Typed /\ JobOK /\ Resolved /\ InsertOK /\ KeysOK /\ AllKept
  BY DEF RowsInv
<1>2. /\ job = Job(job.kind, job.cells, job.vals) /\ ~wrapped
      /\ r \in 1 .. Len(rows) /\ c \in Column /\ v = job.vals[c]
      /\ job.vals \in Record
      /\ v = 0 \/ v \in (IF IsString(c) THEN Text ELSE Number \cup {OutOfRange})
  BY <1>1, JobFacts
<1>3. /\ Columns' = Columns /\ Column' = Column /\ Key' = Key /\ Record' = Record
      /\ \A k : IsString(k)' <=> IsString(k)
      /\ AllPersistent' <=> AllPersistent
  BY SameSchema
<1>4. x \in Nat /\ x \in CellType(c)' /\ (IsString(c) => x \in {0} \cup Live')
  <2>1. TypeOK' /\ IndexedBy(strings', maxcount', sorted')
    BY DEF TableInv, IndexOK
  <2> QED
    BY <1>2, <2>1, CellNext
<1>5. /\ rows' \in Seq(RowType) /\ Len(rows') = Len(rows) /\ Len(rows) \in Nat
      /\ \A q \in 1 .. Len(rows) : q # r => rows'[q] = rows[q]
      /\ rows'[r].cells[c] = x /\ rows'[r].temp = rows[r].temp
      /\ \A k \in Column : k # c => rows'[r].cells[k] = rows[r].cells[k]
  BY <1>1, <1>2, <1>4, RowSet, RowFacts
<1>6. \A q \in 1 .. Len(rows), k \in Column :
        rows'[q].cells[k] = rows[q].cells[k] \/ (q = r /\ k = c /\ rows'[q].cells[k] = x)
  BY <1>5
<1>7. Typed'
  <2>1. RowType' = RowType
    BY <1>3 DEF RowType
  <2>2. maxcount \in Nat /\ maxcount' \in Nat
    BY <1>1, StringTableAssumption DEF TableInv, TypeOK
  <2>3. \A k \in Column : CellType(k) \subseteq CellType(k)'
    BY <1>3, <2>2 DEF CellType
  <2>4. ASSUME NEW q \in 1 .. Len(rows), NEW k \in Column
        PROVE  rows'[q].cells[k] \in CellType(k)'
    BY <1>1, <1>4, <1>6, <2>3 DEF Typed
  <2> QED
    BY <1>1, <1>3, <1>5, <2>1, <2>4 DEF Typed
<1>8. \/ job.cells = {<<r, c>>} /\ job' = Idle
      \/ /\ job.cells # {<<r, c>>}
         /\ job' = Job(job.kind, job.cells \ {<<r, c>>}, job.vals)
  BY <1>2, RestFacts
<1>9. /\ job.kind \in {"insert", "update"} /\ job.cells # {}
      /\ job.cells \subseteq (1 .. Len(rows)) \X Column
  BY <1>1 DEF Setting, JobOK, Idle, Undefined
<1>10. JobOK'
  <2>1. CASE job' = Idle
    BY <2>1 DEF JobOK, Idle
  <2>2. CASE job.cells # {<<r, c>>} /\ job' = Job(job.kind, job.cells \ {<<r, c>>}, job.vals)
    <3>1. job.cells \ {<<r, c>>} # {}
      BY <1>9, <2>2
    <3> QED
      BY <1>2, <1>3, <1>5, <1>9, <2>2, <3>1 DEF JobOK, Job
  <2> QED
    BY <1>8, <2>1, <2>2
<1>11. Resolved'
  <2> SUFFICES ASSUME ~lost, NEW q \in 1 .. Len(rows), NEW k \in Column, IsString(k)
               PROVE  rows'[q].cells[k] \in {0} \cup Live'
    BY <1>3, <1>5 DEF Resolved
  <2>1. rows[q].cells[k] \in {0} \cup Live
    BY <1>1, <1>2 DEF Resolved
  <2> QED
    BY <1>4, <1>6, <2>1
<1>12. AllKept'
  <2> SUFFICES ASSUME AllPersistent
               PROVE  /\ \A q \in 1 .. Len(rows) : ~rows'[q].temp
                      /\ \A n \in Live' : strings'[n].pref > 0
    BY <1>3, <1>5 DEF AllKept
  <2>1. \A q \in 1 .. Len(rows) : ~rows[q].temp
    BY <1>1 DEF AllKept
  <2>2. \A q \in 1 .. Len(rows) : ~rows'[q].temp
    BY <1>5, <2>1
  <2> QED
    BY <1>1, <1>2, <2>1, <2>2 DEF AllKept
<1>13. InsertOK' /\ KeysOK'
  <2>1. CASE job.kind = "insert"
    <3>1. PICK J \in 1 .. Len(rows) : Inserting(J)
      BY <1>1, <2>1 DEF InsertOK
    <3>2. r = J
      BY <3>1 DEF Inserting, Setting
    <3>3. PICK vals : vals = job.vals
      OBVIOUS
    <3>4. x \in CellOf(c, vals[c])' /\ vals \in Record
      BY <1>2, <3>3
    <3>5. /\ \A k \in Column :
               k = c \/ <<J, k>> \notin job.cells => rows'[J].cells[k] \in CellOf(k, vals[k])'
          /\ ~lost /\ ~unchecked =>
               \A q \in 1 .. Len(rows) \ {J} :
                 /\ \A p \in 1 .. Len(rows) \ {J} : SameKeys(rows'[p], rows'[q]) => p = q
                 /\ \E k \in Key : rows'[q].cells[k] \notin CellOf(k, vals[k])'
      BY <1>1, <1>2, <1>4, <3>1, <3>2, <3>3, <3>4, InsertingSet
    <3>6. CASE job.cells = {<<r, c>>} /\ job' = Idle
      <4>1. \A k \in Column : k = c \/ <<J, k>> \notin job.cells
        BY <3>2, <3>6
      <4>2. \A k \in Key : rows'[J].cells[k] \in CellOf(k, vals[k])'
        BY <3>5, <4>1 DEF Key
      <4>3. ~lost /\ ~unchecked => \A q \in 1 .. Len(rows) \ {J} : \E k \in Key : rows'[q].cells[k] # rows'[J].cells[k]
        BY <3>5, <4>2
      <4>4. ASSUME ~lost, ~unchecked, NEW p \in 1 .. Len(rows), NEW q \in 1 .. Len(rows),
                   \A k \in Key : rows'[p].cells[k] = rows'[q].cells[k]
            PROVE  p = q
        <5>1. CASE p # J /\ q # J
          BY <3>5, <4>4, <5>1 DEF SameKeys
        <5>2. CASE p = J \/ q = J
          BY <4>3, <4>4, <5>2
        <5> QED
          BY <5>1, <5>2
      <4> QED
        BY <1>3, <1>5, <3>6, <4>4 DEF InsertOK, KeysOK, DistinctKeys, SameKeys, Idle
    <3>7. CASE job' = Job(job.kind, job.cells \ {<<r, c>>}, job.vals)
      <4>1. job'.kind = "insert" /\ job'.cells = job.cells \ {<<r, c>>} /\ job'.vals = vals
        BY <2>1, <3>3, <3>7 DEF Job
      <4>2. job'.cells \subseteq {J} \X Column
        BY <3>1, <4>1 DEF Inserting
      <4>3. \A k \in Column : <<J, k>> \notin job'.cells => rows'[J].cells[k] \in CellOf(k, vals[k])'
        BY <3>2, <3>5, <4>1
      <4>4. Inserting(J)'
        BY <1>3, <1>5, <3>5, <4>1, <4>2, <4>3 DEF Inserting, SameKeys
      <4> QED
        BY <1>5, <4>1, <4>4 DEF InsertOK, KeysOK
    <3> QED
      BY <1>8, <3>6, <3>7
  <2>2. CASE job.kind = "update"
    <3>1. ASSUME ~lost, ~unchecked
          PROVE  /\ DistinctKeys(rows)
                 /\ Len(rows) <= 1 \/ \A cell \in job.cells : cell[2] \notin Key
      BY <1>1, <2>2, <3>1 DEF KeysOK
    <3>2. ASSUME ~lost, ~unchecked, NEW p \in 1 .. Len(rows), NEW q \in 1 .. Len(rows),
                 \A k \in Key : rows'[p].cells[k] = rows'[q].cells[k]
          PROVE  p = q
      <4>1. CASE Len(rows) <= 1
        BY <1>5, <4>1
      <4>2. CASE \A cell \in job.cells : cell[2] \notin Key
        <5>1. c \notin Key
          <6>1. <<r, c>> \in job.cells /\ <<r, c>>[2] = c
            BY DEF Setting
          <6> QED
            BY <4>2, <6>1
        <5>2. \A k \in Key : rows[p].cells[k] = rows[q].cells[k]
          BY <1>6, <3>2, <5>1 DEF Key
        <5> QED
          BY <3>1, <3>2, <5>2 DEF DistinctKeys, SameKeys
      <4> QED
        BY <3>1, <3>2, <4>1, <4>2
    <3>3. job'.kind # "insert"
      BY <1>8, <2>2 DEF Idle, Job
    <3>4. job'.kind = "update" => job'.cells \subseteq job.cells
      BY <1>8 DEF Idle, Job
    <3> QED
      BY <1>3, <1>5, <3>1, <3>2, <3>3, <3>4 DEF InsertOK, KeysOK, DistinctKeys, SameKeys
  <2> QED
    BY <1>9, <2>1, <2>2
<1> QED
  BY <1>7, <1>10, <1>11, <1>12, <1>13 DEF RowsInv

(* The string of a cell that is added gets a slot of its own, so no other  *)
(* cell stands for it.                                                     *)
LEMMA SetNewFacts ==
  ASSUME RowsInv, schema' = schema, NEW r, NEW c, NEW v, SetNewString(r, c, v)
  PROVE  /\ TableInv' /\ ~wrapped'
         /\ freeslot' - 1 \in Live' /\ freeslot' - 1 \in CellOf(c, v)'
         /\ Live \subseteq Live' /\ \A y \in Live : strings'[y] = strings[y]
         /\ maxcount <= maxcount'
         /\ \A k \in Column : \A w \in Given(k) : CellOf(k, w) \subseteq CellOf(k, w)'
         /\ \A k \in Column : \A w \in Given(k), y \in Nat :
              y \in CellOf(k, w)' /\ (IsString(k) => y \in {0} \cup Live) => y \in CellOf(k, w)
         /\ AllPersistent /\ (\A n \in Live : strings[n].pref > 0) /\ ~rows[r].temp =>
              \A n \in Live' : strings'[n].pref > 0
<1>1. TableInv /\ Typed /\ JobOK /\ TypeOK /\ ~wrapped
  <2>1. TableInv /\ Typed /\ JobOK /\ Setting(r, c, v)
    BY DEF RowsInv, SetNewString
  <2> QED
    BY <2>1, JobFacts DEF TableInv
<1>2. /\ Setting(r, c, v) /\ CellOf(c, v) = {} /\ IsString(c)
      /\ AddString(v, PersistenceOf(rows[r]))
  BY DEF SetNewString
<1>3. c \in Column /\ v \in Text
  <2>1. c \in Column /\ (v = 0 \/ v \in (IF IsString(c) THEN Text ELSE Number \cup {OutOfRange}))
    BY <1>1, <1>2, JobFacts
  <2>2. v # 0
    BY <1>2 DEF CellOf
  <2> QED
    BY <1>2, <2>1, <2>2
<1>4. IndexedBy(strings, maxcount, sorted)
  BY <1>1 DEF TableInv, IndexOK
<1>5. \A x \in Live : strings[x].str # v
  BY <1>1, <1>2, <1>3, <1>4, CellOfString
<1>6. PersistenceOf(rows[r]) \in Persistence
  BY DEF PersistenceOf, Persistence
<1>7. PICK n : n = freeslot' - 1
  OBVIOUS
<1>8. /\ TableInv' /\ ~wrapped'
      /\ n \in Live' /\ n \notin Live /\ strings'[n].str = v
      /\ Live' = Live \cup {n}
      /\ \A x \in Live : strings'[x] = strings[x]
      /\ PersistenceOf(rows[r]) = "persistent" => strings'[n].pref > 0
      /\ maxcount <= maxcount'
  BY <1>1, <1>2, <1>3, <1>5, <1>6, <1>7, AddNewString
<1>9. \A k : IsString(k)' <=> IsString(k)
  BY SameSchema
<1>10. TypeOK' /\ IndexedBy(strings', maxcount', sorted')
  <2>1. TypeOK' /\ IndexOK'
    BY <1>8 DEF TableInv
  <2>2. IndexOK' => IndexedBy(strings', maxcount', sorted')
    BY <1>8 DEF IndexOK
  <2> QED
    BY <2>1, <2>2
<1>11. ASSUME NEW k \in Column, NEW w \in Given(k)
       PROVE  /\ CellOf(k, w) \subseteq CellOf(k, w)'
              /\ \A y \in Nat : y \in CellOf(k, w)' /\ (IsString(k) => y \in {0} \cup Live) => y \in CellOf(k, w)
  <2>1. CASE IsString(k) /\ w \in Text
    <3>1. CellOf(k, w) = {x \in Live : strings[x].str = w}
      BY <1>1, <1>4, <2>1, CellOfString
    <3>2. CellOf(k, w)' = {x \in Live' : strings'[x].str = w}
      BY <1>9, <1>10, <2>1, CellOfStringNext
    <3>3. 0 \notin Live'
      BY DEF Live
    <3>4. \A y \in {0} \cup Live : y \in CellOf(k, w)' => y \in CellOf(k, w)
      BY <1>8, <3>1, <3>2, <3>3
    <3>5. CellOf(k, w) \subseteq CellOf(k, w)'
      BY <1>8, <3>1, <3>2
    <3> QED
      BY <2>1, <3>4, <3>5
  <2>2. CASE w = 0
    BY <2>2 DEF CellOf
  <2>3. CASE ~IsString(k)
    BY <1>9, <2>3 DEF CellOf
  <2> QED
    BY <2>1, <2>2, <2>3 DEF Given
<1>12. n \in CellOf(c, v)'
  <2>1. CellOf(c, v)' = {x \in Live' : strings'[x].str = v}
    BY <1>2, <1>3, <1>9, <1>10, CellOfStringNext
  <2> QED
    BY <1>8, <2>1
<1>13. AllPersistent /\ (\A m \in Live : strings[m].pref > 0) /\ ~rows[r].temp =>
         \A m \in Live' : strings'[m].pref > 0
  BY <1>8 DEF PersistenceOf
<1> QED
  BY <1>7, <1>8, <1>11, <1>12, <1>13

(* A cell that is set gets one of its value's, and the cells that the      *)
(* other values stand for are as before.                                   *)
LEMMA SetFacts ==
  ASSUME RowsInv, schema' = schema, NEW r, NEW c, NEW v, SetKnown(r, c, v) \/ SetNewString(r, c, v)
  PROVE  /\ Setting(r, c, v) /\ job' = Rest(r, c) /\ lost' = lost /\ unchecked' = unchecked
         /\ \E x \in CellOf(c, v)' : rows' = CellSet(r, c, x)
         /\ TableInv' /\ ~wrapped'
         /\ Live \subseteq Live' /\ \A y \in Live : strings'[y] = strings[y]
         /\ maxcount <= maxcount'
         /\ \A k \in Column : \A w \in Given(k) : CellOf(k, w) \subseteq CellOf(k, w)'
         /\ \A k \in Column : \A w \in Given(k), y \in Nat :
              y \in CellOf(k, w)' /\ (IsString(k) => y \in {0} \cup Live) => y \in CellOf(k, w)
         /\ AllPersistent /\ (\A n \in Live : strings[n].pref > 0) /\ ~rows[r].temp =>
              \A n \in Live' : strings'[n].pref > 0
<1>1. CASE SetKnown(r, c, v)
  <2>1. TableInv /\ Typed /\ JobOK
    BY DEF RowsInv
  <2>2. /\ Setting(r, c, v) /\ job' = Rest(r, c) /\ UNCHANGED tableVars
        /\ lost' = lost /\ unchecked' = unchecked
    BY <1>1 DEF SetKnown
  <2>3. PICK x \in CellOf(c, v) : rows' = CellSet(r, c, x)
    BY <1>1 DEF SetKnown, CellSet
  <2>4. /\ Live' = Live /\ maxcount' = maxcount /\ wrapped' = wrapped /\ strings' = strings
        /\ \A k, w : CellOf(k, w)' = CellOf(k, w)
        /\ TableInv'
    BY <2>1, <2>2, SameTable
  <2>5. ~wrapped /\ maxcount \in Nat
    BY <2>1, <2>2, JobFacts, SlotFacts DEF TableInv
  <2> QED
    BY <2>2, <2>3, <2>4, <2>5
<1>2. CASE SetNewString(r, c, v)
  <2>1. /\ Setting(r, c, v) /\ job' = Rest(r, c) /\ lost' = lost /\ unchecked' = unchecked
        /\ rows' = CellSet(r, c, freeslot' - 1)
    BY <1>2 DEF SetNewString, CellSet
  <2>2. PICK x : x = freeslot' - 1
    OBVIOUS
  <2>3. x \in CellOf(c, v)' /\ rows' = CellSet(r, c, x)
    BY <1>2, <2>1, <2>2, SetNewFacts
  <2> QED
    BY <1>2, <2>1, <2>3, SetNewFacts
<1> QED
  BY <1>1, <1>2

LEMMA SetInv ==
  ASSUME RowsInv, schema' = schema, NEW r, NEW c, NEW v, SetKnown(r, c, v) \/ SetNewString(r, c, v)
  PROVE  RowsInv'
<1>1. PICK x \in CellOf(c, v)' : rows' = CellSet(r, c, x)
  BY SetFacts
<1>2. /\ Setting(r, c, v) /\ job' = Rest(r, c) /\ lost' = lost /\ unchecked' = unchecked
      /\ TableInv' /\ ~wrapped' /\ Live \subseteq Live' /\ maxcount <= maxcount'
      /\ \A k \in Column : \A w \in Given(k) : CellOf(k, w) \subseteq CellOf(k, w)'
      /\ \A k \in Column : \A w \in Given(k), y \in Nat :
           y \in CellOf(k, w)' /\ (IsString(k) => y \in {0} \cup Live) => y \in CellOf(k, w)
      /\ AllPersistent /\ (\A n \in Live : strings[n].pref > 0) /\ ~rows[r].temp =>
           \A n \in Live' : strings'[n].pref > 0
  BY SetFacts
<1> QED
  BY <1>1, <1>2, SetKeeps

(* A refused value ends the statement; an INSERT leaves keys unchecked.    *)
LEMMA SetRefusedInv ==
  ASSUME RowsInv, schema' = schema, NEW r, NEW c, NEW v, SetRefused(r, c, v)
  PROVE  RowsInv'
<1>1. TableInv /\ Typed /\ JobOK /\ Resolved /\ KeysOK /\ AllKept
  BY DEF RowsInv
<1>2. /\ Setting(r, c, v) /\ job' = Idle /\ rows' = rows /\ lost' = lost /\ UNCHANGED tableVars
      /\ unchecked' = (unchecked \/ job.kind = "insert")
  BY DEF SetRefused
<1>3. /\ Live' = Live /\ maxcount' = maxcount /\ wrapped' = wrapped /\ strings' = strings
      /\ \A k : CellType(k)' = CellType(k)
      /\ TableInv'
  BY <1>1, <1>2, SameTable
<1>4. /\ Columns' = Columns /\ Column' = Column /\ Key' = Key
      /\ \A k : IsString(k)' <=> IsString(k)
      /\ AllPersistent' <=> AllPersistent
  BY SameSchema
<1>5. Typed'
  <2>1. RowType' = RowType
    BY <1>4 DEF RowType
  <2> QED
    BY <1>1, <1>2, <1>3, <1>4, <2>1 DEF Typed
<1>6. JobOK' /\ InsertOK' /\ Resolved' /\ AllKept'
  BY <1>1, <1>2, <1>3, <1>4 DEF JobOK, InsertOK, Resolved, AllKept, Idle
<1>7. KeysOK'
  <2>1. ~lost' /\ ~unchecked' => DistinctKeys(rows)
    BY <1>1, <1>2 DEF KeysOK
  <2>2. DistinctKeys(rows)' <=> DistinctKeys(rows)
    BY <1>2, <1>4 DEF DistinctKeys, SameKeys
  <2>3. job'.kind = "idle"
    BY <1>2 DEF Idle
  <2> QED
    BY <2>1, <2>2, <2>3 DEF KeysOK
<1> QED
  BY <1>3, <1>5, <1>6, <1>7 DEF RowsInv

-----------------------------------------------------------------------------
(* Deleting rows.                                                          *)
LEMMA RemoveRowFacts ==
  ASSUME NEW S, NEW q \in Seq(S), NEW r \in Nat \ {0}
  PROVE  /\ RemoveRow(q, r) \in Seq(S)
         /\ Len(RemoveRow(q, r)) <= Len(q)
         /\ r <= Len(q) => RemoveRow(q, r) = RemoveAt(q, r) /\ Len(RemoveAt(q, r)) = Len(q) - 1
         /\ \A i \in 1 .. Len(RemoveRow(q, r)) :
              LET old == IF r <= Len(q) /\ i >= r THEN i + 1 ELSE i IN
              old \in 1 .. Len(q) /\ RemoveRow(q, r)[i] = q[old]
<1>1. Len(q) \in Nat
  OBVIOUS
<1>2. CASE r <= Len(q)
  <2>1. /\ RemoveAt(q, r) \in Seq(S) /\ Len(RemoveAt(q, r)) = Len(q) - 1
        /\ \A i \in 1 .. Len(q) - 1 : RemoveAt(q, r)[i] = q[IF i < r THEN i ELSE i + 1]
    <3>1. r \in 1 .. Len(q)
      BY <1>1, <1>2
    <3> QED
      BY <3>1, RemoveAtFacts
  <2>2. RemoveRow(q, r) = RemoveAt(q, r)
    BY <1>2 DEF RemoveRow
  <2> QED
    BY <1>1, <1>2, <2>1, <2>2
<1>3. CASE ~(r <= Len(q))
  BY <1>1, <1>3 DEF RemoveRow
<1> QED
  BY <1>2, <1>3

(* Rows of the table, as a loop that deletes some may leave them.          *)
Remains(q) ==
  /\ q \in Seq(RowType) /\ Len(q) <= Len(rows)
  /\ \A i \in 1 .. Len(q) : \E r \in 1 .. Len(rows) : q[i] = rows[r]
  /\ DistinctKeys(rows) => DistinctKeys(q)

Round(found, q, i) == IF i \in found THEN RemoveRow(q, i) ELSE q

LEMMA RoundLeaves ==
  ASSUME Typed, NEW found, NEW q, Remains(q), NEW i \in 1 .. Len(rows)
  PROVE  Remains(Round(found, q, i))
<1> DEFINE new == RemoveRow(q, i)
           old(k) == IF i <= Len(q) /\ k >= i THEN k + 1 ELSE k
<1>1. Len(rows) \in Nat /\ i \in Nat \ {0} /\ q \in Seq(RowType) /\ Len(q) \in Nat
  BY RowFacts DEF Remains
<1>2. new \in Seq(RowType) /\ Len(new) <= Len(q) /\ Len(new) \in Nat
      /\ \A k \in 1 .. Len(new) : old(k) \in 1 .. Len(q) /\ new[k] = q[old(k)]
  BY <1>1, RemoveRowFacts
<1>3. \A j, k \in 1 .. Len(new) : old(j) = old(k) => j = k
  BY <1>1, <1>2
<1> HIDE DEF new, old
<1>4. DistinctKeys(q) => DistinctKeys(new)
  BY <1>2, <1>3 DEF DistinctKeys
<1>5. Remains(new)
  BY <1>1, <1>2, <1>4 DEF Remains
<1> QED
  BY <1>5 DEF Round, new

(* The loop of DELETE is a function, and what it ends with is Deleted.     *)
LEMMA DeletedLoop ==
  ASSUME Typed, NEW found
  PROVE  \E f : /\ f = [i \in 0 .. Len(rows) |-> IF i = 0 THEN rows ELSE Round(found, f[i - 1], i)]
                /\ Deleted(found) = f[Len(rows)]
<1> DEFINE N == Len(rows)
           S == {q \in Seq(RowType) : Remains(q)}
           step == [p \in S \X (1 .. N) |-> Round(found, p[1], p[2])]
<1>1. N \in Nat /\ rows \in Seq(RowType)
  BY RowFacts DEF Typed
<1>2. rows \in S
  BY <1>1 DEF Remains
<1>3. ASSUME NEW q \in S, NEW i \in 1 .. N
      PROVE  step[<<q, i>>] = Round(found, q, i) /\ Round(found, q, i) \in S
  <2>1. <<q, i>> \in S \X (1 .. N)
    OBVIOUS
  <2>2. step[<<q, i>>] = Round(found, q, i)
    <3> HIDE DEF S
    <3> QED
      BY <2>1
  <2>3. Remains(Round(found, q, i))
    BY RoundLeaves
  <2> QED
    BY <2>2, <2>3 DEF Remains
<1>4. PICK g \in [0 .. N -> S] : g[0] = rows /\ \A i \in 1 .. N : g[i] = step[<<g[i - 1], i>>]
  <2> HIDE DEF S, step, N
  <2>1. LoopsOf(N, S, rows, step) # {}
    BY <1>1, <1>2, <1>3, LoopExists
  <2> QED
    BY <2>1 DEF LoopsOf
<1>5. \A i \in 1 .. N : step[<<g[i - 1], i>>] = Round(found, g[i - 1], i)
  <2> TAKE i \in 1 .. N
  <2>1. i - 1 \in 0 .. N
    BY <1>1
  <2>2. g[i - 1] \in S
    BY <2>1
  <2> HIDE DEF S, step
  <2> QED
    BY <1>3, <2>2
<1>6. \A i \in 0 .. N : g[i] = IF i = 0 THEN rows ELSE Round(found, g[i - 1], i)
  <2>1. \A i \in 0 .. N : i # 0 => i \in 1 .. N
    BY <1>1
  <2> HIDE DEF step, S
  <2> QED
    BY <1>4, <1>5, <2>1
<1>7. g = [i \in 0 .. N |-> IF i = 0 THEN rows ELSE Round(found, g[i - 1], i)]
  <2>1. g = [i \in 0 .. N |-> g[i]]
    <3> HIDE DEF S
    <3> QED
      BY <1>4
  <2> QED
    BY <1>6, <2>1, Zenon
<1>8. \E f : f = [i \in 0 .. Len(rows) |-> IF i = 0 THEN rows ELSE Round(found, f[i - 1], i)]
  BY <1>7
<1> QED
  BY <1>8, Zenon DEF Deleted, Round

(* DELETE leaves some of the rows.                                         *)
LEMMA DeletedRemains ==
  ASSUME Typed, NEW found
  PROVE  Remains(Deleted(found))
<1> DEFINE S == {q \in Seq(RowType) : Remains(q)}
<1>1. Len(rows) \in Nat /\ rows \in Seq(RowType)
  BY RowFacts DEF Typed
<1>2. rows \in S
  BY <1>1 DEF Remains
<1>3. PICK f : /\ f = [i \in 0 .. Len(rows) |-> IF i = 0 THEN rows ELSE Round(found, f[i - 1], i)]
               /\ Deleted(found) = f[Len(rows)]
  BY DeletedLoop
<1>4. f[0] = rows /\ \A i \in 1 .. Len(rows) : f[i] = Round(found, f[i - 1], i)
  BY <1>1, <1>3
<1>5. ASSUME NEW i \in 1 .. Len(rows), f[i - 1] \in S
      PROVE  f[i] \in S
  <2>1. Remains(Round(found, f[i - 1], i))
    BY <1>5, RoundLeaves
  <2> QED
    BY <1>4, <2>1 DEF Remains
<1>6. \A i \in 0 .. Len(rows) : f[i] \in S
  <2> HIDE DEF S
  <2> QED
    BY <1>1, <1>2, <1>4, <1>5, LoopStays
<1> QED
  BY <1>1, <1>3, <1>6

(* How many rows were found up to each.                                    *)
LEMMA FoundCounts ==
  ASSUME NEW N \in Nat, NEW found \in SUBSET (1 .. N)
  PROVE  /\ FoundUpTo(found, 0) = 0
         /\ \A i \in 0 .. N : FoundUpTo(found, i) \in Nat
         /\ \A i \in 1 .. N :
              FoundUpTo(found, i) = FoundUpTo(found, i - 1) + IF i \in found THEN 1 ELSE 0
<1> DEFINE Up(i) == {q \in found : q <= i}
<1>0. \A q \in found : q \in Nat /\ 1 <= q
  OBVIOUS
<1>1. \A i : IsFiniteSet(Up(i)) /\ Cardinality(Up(i)) \in Nat
  <2>1. IsFiniteSet(1 .. N)
    BY FS_Interval
  <2>2. \A i : Up(i) \in SUBSET (1 .. N)
    OBVIOUS
  <2> HIDE DEF Up
  <2> QED
    BY <2>1, <2>2, FS_Subset, FS_CardinalityType
<1>2. Cardinality(Up(0)) = 0
  <2>1. \A q \in found : ~(q <= 0)
    BY <1>0
  <2>2. Up(0) = {}
    BY <2>1
  <2> QED
    BY <2>2, FS_EmptySet
<1>3. ASSUME NEW i \in 1 .. N
      PROVE  Cardinality(Up(i)) = Cardinality(Up(i - 1)) + IF i \in found THEN 1 ELSE 0
  <2>0. i \in Nat /\ ~(i <= i - 1) /\ \A q \in found : q <= i <=> q <= i - 1 \/ q = i
    BY <1>0
  <2>1. CASE i \in found
    <3>1. Up(i) = Up(i - 1) \cup {i} /\ i \notin Up(i - 1)
      BY <2>0, <2>1, Zenon
    <3> HIDE DEF Up
    <3> QED
      BY <1>1, <2>1, <3>1, FS_AddElement
  <2>2. CASE i \notin found
    <3>1. Up(i) = Up(i - 1)
      BY <2>0, <2>2, Zenon
    <3> HIDE DEF Up
    <3> QED
      BY <1>1, <2>2, <3>1
  <2> QED
    BY <2>1, <2>2
<1> QED
  BY <1>1, <1>2, <1>3 DEF FoundUpTo

(* After the rows up to i have been looked at, what stands in each place:  *)
(* the row that stood one further behind for each one found up to it.      *)
Source(found, i, j) == j + FoundUpTo(found, IF j < i THEN j ELSE i)
MovedUp(found, i, q) ==
  \A j \in 1 .. Len(rows) :
    LET from == Source(found, i, j) IN
    IF from <= Len(rows) THEN j <= Len(q) /\ q[j] = rows[from] ELSE j > Len(q)

LEMMA RoundMovesUp ==
  ASSUME Typed, NEW found \in SUBSET (1 .. Len(rows)), NEW i \in 1 .. Len(rows),
         NEW q, Remains(q), MovedUp(found, i - 1, q)
  PROVE  MovedUp(found, i, Round(found, q, i))
<1>1. /\ q \in Seq(RowType) /\ Len(q) \in Nat /\ Len(q) <= Len(rows)
      /\ Len(rows) \in Nat /\ i \in Nat \ {0}
  BY RowFacts DEF Remains
<1>2. PICK size : size = Len(rows)
  OBVIOUS
<1>3. /\ \A k \in 0 .. size : FoundUpTo(found, k) \in Nat
      /\ FoundUpTo(found, i) = FoundUpTo(found, i - 1) + IF i \in found THEN 1 ELSE 0
  <2>1. size \in Nat /\ found \in SUBSET (1 .. size) /\ i \in 1 .. size
    BY <1>1, <1>2
  <2>2. \A k \in 1 .. size :
          FoundUpTo(found, k) = FoundUpTo(found, k - 1) + IF k \in found THEN 1 ELSE 0
    BY <2>1, FoundCounts
  <2>3. \A k \in 0 .. size : FoundUpTo(found, k) \in Nat
    BY <2>1, FoundCounts
  <2> QED
    BY <2>1, <2>2, <2>3
<1>4. CASE i \notin found
  <2>1. \A j \in 1 .. size : Source(found, i, j) = Source(found, i - 1, j)
    <3>1. i - 1 \in 0 .. size /\ FoundUpTo(found, i) = FoundUpTo(found, i - 1)
      BY <1>1, <1>2, <1>3, <1>4
    <3>2. \A j \in 1 .. size : j < i /\ ~(j < i - 1) => j = i - 1
      BY <1>1
    <3>3. \A j \in 1 .. size : j < i - 1 => j < i
      BY <1>1
    <3> QED
      BY <3>1, <3>2, <3>3, Zenon DEF Source
  <2> QED
    BY <1>2, <1>4, <2>1 DEF MovedUp, Round
<1>5. CASE i \in found
  <2> DEFINE new == RemoveRow(q, i)
  <2>1. /\ Len(new) = IF i <= Len(q) THEN Len(q) - 1 ELSE Len(q)
        /\ \A k \in 1 .. Len(new) : new[k] = q[IF i <= Len(q) /\ k >= i THEN k + 1 ELSE k]
    <3>1. i <= Len(q) => Len(new) = Len(q) - 1
      BY <1>1, RemoveRowFacts
    <3>2. ~(i <= Len(q)) => new = q
      BY DEF RemoveRow
    <3>3. \A k \in 1 .. Len(new) : new[k] = q[IF i <= Len(q) /\ k >= i THEN k + 1 ELSE k]
      BY <1>1, RemoveRowFacts
    <3> QED
      BY <3>1, <3>2, <3>3
  <2> HIDE DEF new
  <2> SUFFICES ASSUME NEW j \in 1 .. size
               PROVE  IF Source(found, i, j) <= size
                      THEN j <= Len(new) /\ new[j] = rows[Source(found, i, j)] ELSE j > Len(new)
    BY <1>2, <1>5 DEF MovedUp, Round, new
  <2>2. \A k \in 1 .. size : IF Source(found, i - 1, k) <= size
                             THEN k <= Len(q) /\ q[k] = rows[Source(found, i - 1, k)]
                             ELSE k > Len(q)
    BY <1>2 DEF MovedUp
  <2>3. CASE j < i
    <3>1. Source(found, i, j) = Source(found, i - 1, j)
      BY <1>1, <1>2, <2>3 DEF Source
    <3>2. j <= Len(q) <=> j <= Len(new)
      BY <1>1, <2>1, <2>3
    <3>3. j <= Len(q) => new[j] = q[j]
      BY <1>1, <2>1, <2>3, <3>2
    <3> QED
      BY <1>1, <1>2, <2>2, <3>1, <3>2, <3>3
  <2>4. CASE j >= i /\ j < size
    <3>1. Source(found, i, j) = Source(found, i - 1, j + 1)
      BY <1>1, <1>2, <1>3, <1>5, <2>4 DEF Source
    <3>2. j + 1 \in 1 .. size
      BY <1>1, <1>2, <2>4
    <3>3. j + 1 <= Len(q) <=> j <= Len(new)
      BY <1>1, <2>1, <2>4
    <3>4. j <= Len(new) => new[j] = q[j + 1]
      BY <1>1, <2>1, <2>4, <3>3
    <3>5. ~(j + 1 <= Len(q)) <=> j + 1 > Len(q)
      BY <1>1, <1>2
    <3>6. ~(j <= Len(new)) <=> j > Len(new)
      BY <1>1, <1>2, <2>1
    <3> QED
      BY <2>2, <3>1, <3>2, <3>3, <3>4, <3>5, <3>6
  <2>5. CASE j = size
    <3>1. FoundUpTo(found, i) \in Nat /\ FoundUpTo(found, i) > 0
      <4>1. i - 1 \in 0 .. size
        BY <1>1, <1>2
      <4> QED
        BY <1>3, <1>5, <4>1
    <3>2. Source(found, i, j) = size + FoundUpTo(found, i)
      BY <1>1, <1>2, <2>5 DEF Source
    <3>3. j > Len(new)
      BY <1>1, <1>2, <2>1, <2>5
    <3> QED
      BY <1>1, <1>2, <3>1, <3>2, <3>3
  <2> QED
    BY <1>1, <1>2, <2>3, <2>4, <2>5
<1> QED
  BY <1>4, <1>5

LEMMA DeletedMovesUp ==
  ASSUME Typed, NEW found \in SUBSET (1 .. Len(rows))
  PROVE  MovedUp(found, Len(rows), Deleted(found))
<1>1. PICK f : /\ f = [i \in 0 .. Len(rows) |-> IF i = 0 THEN rows ELSE Round(found, f[i - 1], i)]
               /\ Deleted(found) = f[Len(rows)]
  BY DeletedLoop
<1>2. Len(rows) \in Nat /\ rows \in Seq(RowType)
  BY RowFacts DEF Typed
<1>3. f[0] = rows /\ \A i \in 1 .. Len(rows) : f[i] = Round(found, f[i - 1], i)
  BY <1>1, <1>2
<1> DEFINE Good == {i \in 0 .. Len(rows) : Remains(f[i]) /\ MovedUp(found, i, f[i])}
<1>4. 0 \in Good
  <2>1. Remains(rows)
    BY <1>2 DEF Remains
  <2>2. FoundUpTo(found, 0) = 0
    BY <1>2, FoundCounts
  <2>3. \A j \in 1 .. Len(rows) : Source(found, 0, j) = j
    BY <1>2, <2>2 DEF Source
  <2>4. MovedUp(found, 0, rows)
    BY <1>2, <2>3 DEF MovedUp
  <2> QED
    BY <1>2, <1>3, <2>1, <2>4
<1>5. ASSUME NEW i \in 1 .. Len(rows), i - 1 \in Good
      PROVE  i \in Good
  <2>1. Remains(f[i - 1]) /\ MovedUp(found, i - 1, f[i - 1])
    BY <1>5
  <2>2. Remains(Round(found, f[i - 1], i))
    BY <2>1, RoundLeaves
  <2>3. MovedUp(found, i, Round(found, f[i - 1], i))
    BY <2>1, RoundMovesUp
  <2> QED
    BY <1>2, <1>3, <2>2, <2>3
<1>6. \A i \in 0 .. Len(rows) : i \in Good
  <2> HIDE DEF Good
  <2> QED
    BY <1>2, <1>4, <1>5, UpToLast
<1> QED
  BY <1>1, <1>2, <1>6

-----------------------------------------------------------------------------
(* A step that changes no row and no string keeps what is said of them.    *)
LEMMA RowsSame ==
  ASSUME RowsInv, schema' = schema, UNCHANGED tableVars, rows' = rows, lost' = lost,
         unchecked' \in BOOLEAN
  PROVE  /\ TableInv' /\ Typed' /\ Resolved' /\ AllKept' /\ wrapped' = wrapped
         /\ DistinctKeys(rows)' <=> DistinctKeys(rows)
         /\ Column' = Column /\ Key' = Key /\ Record' = Record
<1>1. TableInv /\ Typed /\ Resolved /\ AllKept
  BY DEF RowsInv
<1>2. /\ Live' = Live /\ maxcount' = maxcount /\ wrapped' = wrapped /\ strings' = strings
      /\ \A k : CellType(k)' = CellType(k)
      /\ TableInv'
  BY <1>1, SameTable
<1>3. /\ Columns' = Columns /\ Column' = Column /\ Key' = Key /\ Record' = Record
      /\ \A k : IsString(k)' <=> IsString(k)
      /\ AllPersistent' <=> AllPersistent
  BY SameSchema
<1>4. Typed'
  <2>1. RowType' = RowType
    BY <1>3 DEF RowType
  <2> QED
    BY <1>1, <1>2, <1>3, <2>1 DEF Typed
<1>5. Resolved' /\ AllKept'
  BY <1>1, <1>2, <1>3 DEF Resolved, AllKept
<1>6. DistinctKeys(rows)' <=> DistinctKeys(rows)
  BY <1>3 DEF DistinctKeys, SameKeys
<1> QED
  BY <1>2, <1>3, <1>4, <1>5, <1>6

(* UPDATE starts: it sets no key, or there is one row, or nobody checks.   *)
LEMMA UpdateInv ==
  ASSUME RowsInv, schema' = schema, ~wrapped, NEW set \in SUBSET Column, set # {}, NEW vals \in Record,
         NEW found \in SUBSET (1 .. Len(rows)), UpdateRows(found, set, vals),
         unchecked' \in BOOLEAN, unchecked => unchecked',
         set \cap Key # {} /\ Len(rows) > 1 => unchecked'
  PROVE  RowsInv'
<1> DEFINE cells == found \X set
<1>1. /\ job = Idle /\ found # {} /\ job' = Job("update", cells, vals)
      /\ UNCHANGED tableVars /\ rows' = rows /\ lost' = lost
  BY DEF UpdateRows
<1>2. /\ TableInv' /\ Typed' /\ Resolved' /\ AllKept' /\ wrapped' = wrapped
      /\ DistinctKeys(rows)' <=> DistinctKeys(rows)
      /\ Column' = Column /\ Key' = Key /\ Record' = Record
  BY <1>1, RowsSame
<1>3. Len(rows) \in Nat
  BY RowFacts DEF RowsInv
<1>4. cells # {} /\ (\A cell \in cells : cell[1] \in 1 .. Len(rows) /\ cell[2] \in set)
      /\ cells \subseteq (1 .. Len(rows)) \X Column
  <2>1. PICK r \in found, c \in set : TRUE
    BY <1>1
  <2>2. <<r, c>> \in cells
    OBVIOUS
  <2>3. ASSUME NEW cell \in cells PROVE cell \in (1 .. Len(rows)) \X Column /\ cell[1] \in 1 .. Len(rows) /\ cell[2] \in set
    OBVIOUS
  <2> HIDE DEF cells
  <2> QED
    BY <2>2, <2>3
<1> HIDE DEF cells
<1>5. job'.kind = "update" /\ job'.cells = cells /\ job'.vals = vals
  BY <1>1 DEF Job
<1>6. JobOK' /\ InsertOK'
  BY <1>1, <1>2, <1>4, <1>5 DEF JobOK, InsertOK
<1>7. KeysOK'
  <2> SUFFICES ASSUME ~lost, ~unchecked'
               PROVE  DistinctKeys(rows) /\ (Len(rows) <= 1 \/ \A cell \in cells : cell[2] \notin Key)
    BY <1>1, <1>2, <1>5 DEF KeysOK
  <2>1. DistinctKeys(rows)
    BY <1>1 DEF RowsInv, KeysOK, Idle
  <2>2. CASE set \cap Key = {}
    BY <1>4, <2>1, <2>2
  <2>3. CASE Len(rows) <= 1
    BY <2>1, <2>3
  <2> QED
    BY <1>3, <2>2, <2>3
<1> QED
  BY <1>2, <1>6, <1>7 DEF RowsInv

LEMMA DeleteInv ==
  ASSUME RowsInv, schema' = schema, ~wrapped, NEW found, DeleteRows(found)
  PROVE  RowsInv'
<1>1. /\ job = Idle /\ rows' = Deleted(found) /\ job' = Idle
      /\ UNCHANGED tableVars /\ lost' = lost /\ unchecked' = unchecked
  BY DEF DeleteRows
<1>2. TableInv /\ Typed /\ Resolved /\ KeysOK /\ AllKept
  BY DEF RowsInv
<1>3. /\ rows' \in Seq(RowType) /\ Len(rows') <= Len(rows)
      /\ \A i \in 1 .. Len(rows') : \E r \in 1 .. Len(rows) : rows'[i] = rows[r]
      /\ DistinctKeys(rows) => DistinctKeys(rows')
  BY <1>1, <1>2, DeletedRemains DEF Remains
<1>4. /\ Live' = Live /\ maxcount' = maxcount /\ wrapped' = wrapped /\ strings' = strings
      /\ \A k : CellType(k)' = CellType(k)
      /\ TableInv'
  BY <1>1, <1>2, SameTable
<1>5. /\ Columns' = Columns /\ Column' = Column /\ Key' = Key
      /\ \A k : IsString(k)' <=> IsString(k)
      /\ AllPersistent' <=> AllPersistent
  BY SameSchema
<1>6. Typed'
  <2>1. RowType' = RowType
    BY <1>5 DEF RowType
  <2>2. Len(rows') <= schema.maxRows
    <3>1. schema.maxRows \in Nat /\ Len(rows) \in Nat /\ Len(rows) <= schema.maxRows
      BY <1>2, ColumnFacts, RowFacts DEF Typed
    <3>2. Len(rows') \in Nat
      BY <1>3
    <3> QED
      BY <1>3, <3>1, <3>2
  <2> QED
    BY <1>1, <1>2, <1>3, <1>4, <1>5, <2>1, <2>2 DEF Typed
<1>7. JobOK' /\ InsertOK'
  BY <1>1 DEF JobOK, InsertOK, Idle
<1>8. Resolved' /\ AllKept'
  BY <1>1, <1>2, <1>3, <1>4, <1>5 DEF Resolved, AllKept
<1>9. KeysOK'
  <2>1. job'.kind = "idle" /\ job.kind = "idle"
    BY <1>1 DEF Idle
  <2>2. ~lost /\ ~unchecked => DistinctKeys(rows')
    BY <1>2, <1>3, <2>1 DEF KeysOK
  <2>3. DistinctKeys(rows)' <=> DistinctKeys(rows')
    BY <1>5 DEF DistinctKeys, SameKeys
  <2> QED
    BY <1>1, <2>1, <2>2, <2>3 DEF KeysOK
<1> QED
  BY <1>4, <1>6, <1>7, <1>8, <1>9 DEF RowsInv

-----------------------------------------------------------------------------
(* The strings added elsewhere.                                            *)
LEMMA AddedElsewhere ==
  ASSUME TableInv, ~wrapped, NEW s \in Text, NEW persistence \in Persistence,
         AddString(s, persistence)
  PROVE  /\ TableInv' /\ maxcount <= maxcount'
         /\ ~wrapped' =>
              /\ Live \subseteq Live'
              /\ persistence = "persistent" /\ (\A n \in Live : strings[n].pref > 0) =>
                   \A n \in Live' : strings'[n].pref > 0
<1>1. TypeOK /\ IndexedBy(strings, maxcount, sorted) /\ maxcount \in Nat
  BY SlotFacts DEF TableInv, IndexOK
<1>2. Next
  BY DEF Next
<1>3. TableInv'
  BY <1>2, StepTable
<1>4. ~wrapped' => \A n \in Live : n \in Live' /\ (strings[n].pref > 0 => strings'[n].pref > 0)
  BY <1>2, StepKeepsIds
<1>5. CASE \A x \in Live : strings[x].str # s
  <2>1. PICK n : n = freeslot' - 1
    OBVIOUS
  <2>2. /\ Live' = Live \cup {n} /\ maxcount <= maxcount'
        /\ persistence = "persistent" => strings'[n].pref > 0
    BY <1>5, <2>1, AddNewString
  <2> QED
    BY <1>3, <1>4, <2>2
<1>6. CASE \E x \in Live : strings[x].str = s
  <2>1. Gaps(Comparison(strings, sorted, s)) = {}
    BY <1>1, <1>6, MissIsNew
  <2>2. PICK i \in Hits(Comparison(strings, sorted, s)) : AddReference(sorted[i], persistence)
    BY <2>1 DEF AddString
  <2>3. PICK n \in Live : AddReference(n, persistence)
    BY <1>1, <2>2, HitIsSlot
  <2>4. maxcount' = maxcount
    BY <2>3 DEF AddReference
  <2>5. \A m \in 0 .. maxcount - 1 : m # n => strings'[m] = strings[m]
    BY <2>3, AddReferenceFacts
  <2>6. Live' \subseteq Live
    BY <1>1, <2>4, <2>5 DEF Live
  <2> QED
    BY <1>1, <1>3, <1>4, <2>4, <2>6
<1> QED
  BY <1>5, <1>6

LEMMA OtherInv ==
  ASSUME RowsInv, schema' = schema, ~wrapped, NEW s \in Text, NEW persistence \in schema.others,
         OtherString(s, persistence)
  PROVE  RowsInv'
<1>1. TableInv /\ Typed /\ Resolved /\ KeysOK /\ AllKept
  BY DEF RowsInv
<1>2. /\ job = Idle /\ job' = Idle /\ rows' = rows /\ lost' = lost /\ unchecked' = unchecked
      /\ AddString(s, persistence)
  BY DEF OtherString, rowVars
<1>3. schema.others \subseteq Persistence
  BY <1>1, ColumnFacts DEF Typed
<1>4. /\ TableInv' /\ maxcount <= maxcount'
      /\ ~wrapped' =>
           /\ Live \subseteq Live'
           /\ persistence = "persistent" /\ (\A n \in Live : strings[n].pref > 0) =>
                \A n \in Live' : strings'[n].pref > 0
  BY <1>1, <1>2, <1>3, AddedElsewhere
<1>5. /\ Columns' = Columns /\ Column' = Column /\ Key' = Key
      /\ \A k : IsString(k)' <=> IsString(k)
      /\ AllPersistent' <=> AllPersistent
  BY SameSchema
<1>6. Typed'
  <2>1. RowType' = RowType
    BY <1>5 DEF RowType
  <2>2. PICK size : size = maxcount'
    OBVIOUS
  <2>3. maxcount \in Nat /\ size \in Nat /\ maxcount <= size
    BY <1>1, <1>4, <2>2, StringTableAssumption DEF TableInv, TypeOK
  <2>4. 0 .. maxcount - 1 \subseteq 0 .. size - 1
    BY <2>3
  <2>5. \A k \in Column : CellType(k) \subseteq CellType(k)'
    BY <1>5, <2>2, <2>4 DEF CellType
  <2> QED
    BY <1>1, <1>2, <1>5, <2>1, <2>5 DEF Typed
<1>7. JobOK' /\ InsertOK'
  BY <1>2 DEF JobOK, InsertOK, Idle
<1>8. wrapped' \in BOOLEAN /\ ~wrapped
  BY <1>4 DEF TableInv, TypeOK
<1>9. Resolved'
  BY <1>1, <1>2, <1>4, <1>5, <1>8 DEF Resolved
<1>10. AllKept'
  <2>1. AllPersistent => persistence = "persistent"
    BY <1>3 DEF AllPersistent, Persistence
  <2> QED
    BY <1>1, <1>2, <1>4, <1>5, <1>8, <2>1 DEF AllKept
<1>11. KeysOK'
  <2>1. job'.kind = "idle" /\ job.kind = "idle"
    BY <1>2 DEF Idle
  <2>2. DistinctKeys(rows)' <=> DistinctKeys(rows)
    BY <1>2, <1>5 DEF DistinctKeys, SameKeys
  <2> QED
    BY <1>1, <1>2, <2>1, <2>2 DEF KeysOK
<1> QED
  BY <1>4, <1>6, <1>7, <1>9, <1>10, <1>11 DEF RowsInv

-----------------------------------------------------------------------------
(* A commit: the strings it keeps, and the rows.                           *)
LEMMA CommitFacts ==
  ASSUME TableInv, LoadKept
  PROVE  /\ TableInv'
         /\ Live' = KeptSlots /\ maxcount' = maxcount /\ wrapped' = wrapped
         /\ \A n \in KeptSlots : strings'[n].str = strings[n].str /\ strings'[n].pref = strings[n].pref
<1>1. TypeOK /\ SlotsOK /\ maxcount \in Nat /\ maxcount \in 1 .. MaxSlots
  BY SlotFacts DEF TableInv, TypeOK
<1>2. maxcount' = maxcount /\ wrapped' = wrapped
  BY DEF LoadKept
<1>3. strings' = [n \in 0 .. maxcount - 1 |-> Kept(strings[n])]
  BY DEF LoadKept
<1>4. \A n \in 0 .. maxcount - 1 : strings[n] \in SlotType /\ strings[n].pref \in Nat
  <2>1. \A e \in SlotType : e.pref \in Nat
    BY StringTableAssumption DEF SlotType
  <2> QED
    BY <1>1, <2>1, SlotFacts
<1>5. ASSUME NEW e \in SlotType, e.pref \in Nat
      PROVE  /\ Kept(e) \in SlotType
             /\ Used(Kept(e)) <=> e.pref > 0
             /\ e.pref > 0 => Kept(e).str = e.str /\ Kept(e).pref = e.pref
  <2>1. ZeroSlot \in SlotType /\ ~Used(ZeroSlot)
    BY StringTableAssumption DEF ZeroSlot, Slot, SlotType, Used
  <2>2. CASE e.pref = 0
    BY <2>1, <2>2 DEF Kept
  <2>3. CASE e.pref # 0
    BY <1>5, <2>3, StringTableAssumption DEF Kept, Slot, SlotType, Used
  <2> QED
    BY <2>2, <2>3
<1>6. \A n \in 0 .. maxcount - 1 :
        /\ strings'[n] \in SlotType
        /\ Used(strings'[n]) <=> strings[n].pref > 0
        /\ strings[n].pref > 0 => /\ strings'[n].str = strings[n].str
                                  /\ strings'[n].pref = strings[n].pref
  <2> TAKE n \in 0 .. maxcount - 1
  <2>1. strings'[n] = Kept(strings[n]) /\ strings[n] \in SlotType /\ strings[n].pref \in Nat
    BY <1>3, <1>4
  <2> QED
    BY <1>5, <2>1
<1>7. KeptSlots \subseteq 1 .. maxcount - 1 /\ KeptSlots \subseteq Live
  BY DEF KeptSlots, Live
<1>8. \A n \in 1 .. maxcount - 1 : n \in 0 .. maxcount - 1 /\ (strings[n].pref > 0 => Used(strings[n]))
  BY <1>1, <1>4 DEF Used
<1>9. Live' = KeptSlots
  <2>1. Live' = {n \in 1 .. maxcount - 1 : Used(strings'[n])}
    BY <1>2 DEF Live
  <2>2. \A n \in 1 .. maxcount - 1 : Used(strings'[n]) <=> Used(strings[n]) /\ strings[n].pref > 0
    BY <1>6, <1>8
  <2> QED
    BY <2>1, <2>2 DEF Live, KeptSlots
<1>10. sorted' \in Seq(1 .. maxcount - 1)
  <2>1. PICK size \in 0 .. maxcount - 1 : sorted' \in [1 .. size -> KeptSlots]
    BY DEF LoadKept
  <2> DEFINE S == 1 .. maxcount - 1
  <2>2. size \in Nat
    BY <1>1
  <2>3. sorted' \in [1 .. size -> S]
    <3>1. KeptSlots \subseteq S
      BY <1>7
    <3> HIDE DEF S
    <3> QED
      BY <2>1, <3>1
  <2> HIDE DEF S
  <2>4. sorted' \in Seq(S)
    BY <2>2, <2>3, FunctionIsSeq
  <2> QED
    BY <2>4 DEF S
<1>11. freeslot' \in 1 .. maxcount
  <2>1. PICK last \in {0} \cup KeptSlots : freeslot' = last + 1
    BY DEF LoadKept
  <2> QED
    BY <1>1, <1>7, <2>1
<1>12. TypeOK'
  <2>1. strings' \in [0 .. maxcount - 1 -> SlotType]
    BY <1>3, <1>4, <1>5
  <2> QED
    BY <1>1, <1>2, <1>10, <1>11, <2>1 DEF TypeOK
<1>13. IndexOK'
  <2>1. IndexedBy(strings', maxcount, sorted')
    BY DEF LoadKept
  <2> QED
    BY <1>2, <2>1 DEF IndexOK
<1>14. SlotsOK'
  <2>1. strings'[0] = ZeroSlot
    <3>1. 0 \in 0 .. maxcount - 1
      BY <1>1
    <3>2. strings'[0] = Kept(strings[0])
      BY <1>3, <3>1
    <3> QED
      BY <1>1, <3>2 DEF SlotsOK, Kept, ZeroSlot, Slot
  <2>2. ASSUME NEW n \in KeptSlots PROVE strings'[n].str \in Text
    <3>1. n \in Live /\ strings[n].pref > 0 /\ n \in 0 .. maxcount - 1
      BY <1>7, <1>8 DEF KeptSlots
    <3> QED
      BY <1>1, <1>6, <3>1 DEF SlotsOK
  <2> QED
    BY <1>9, <2>1, <2>2 DEF SlotsOK
<1>15. ASSUME NEW n \in KeptSlots
       PROVE  strings'[n].str = strings[n].str /\ strings'[n].pref = strings[n].pref
  <2>1. n \in 0 .. maxcount - 1 /\ strings[n].pref > 0
    BY <1>7, <1>8 DEF KeptSlots
  <2> QED
    BY <1>6, <2>1
<1> QED
  BY <1>2, <1>9, <1>12, <1>13, <1>14, <1>15 DEF TableInv

LEMMA CommitInv ==
  ASSUME RowsInv, schema' = schema, ~wrapped, Commit
  PROVE  RowsInv'
<1>1. TableInv /\ Typed /\ Resolved /\ KeysOK /\ AllKept
  BY DEF RowsInv
<1>2. /\ job = Idle /\ job' = Idle /\ unchecked' = unchecked /\ LoadKept
      /\ lost' = (lost \/ \E r \in 1 .. Len(rows'), c \in Column :
                    IsString(c) /\ rows'[r].cells[c] # 0 /\ strings[rows'[r].cells[c]].pref = 0)
  BY DEF Commit
<1>3. PICK n \in SavedLength : rows' = SubSeq(rows, 1, n)
  BY DEF Commit
<1>4. n \in 0 .. Len(rows) /\ Len(rows) \in Nat /\ rows \in Seq(RowType)
  BY <1>1, RowFacts DEF SavedLength, Typed
<1>5. rows' \in Seq(RowType) /\ Len(rows') = n /\ \A i \in 1 .. n : rows'[i] = rows[i]
  <2> DEFINE S == RowType
             q == SubSeq(rows, 1, n)
  <2>1. 1 \in Int /\ n \in Int /\ \A i \in 1 .. n : rows[i] \in S
    BY <1>4
  <2>2. /\ q \in Seq(S) /\ Len(q) = IF 1 <= n THEN n - 1 + 1 ELSE 0
        /\ \A i \in 1 .. n - 1 + 1 : q[i] = rows[1 + i - 1]
    <3> HIDE DEF S
    <3> QED
      BY <2>1, SubSeqProperties
  <2>3. \A i \in 1 .. n : i \in 1 .. n - 1 + 1 /\ 1 + i - 1 = i
    BY <1>4
  <2> HIDE DEF q, S
  <2>4. q \in Seq(S) /\ Len(q) = n /\ \A i \in 1 .. n : q[i] = rows[i]
    BY <1>4, <2>2, <2>3
  <2> QED
    BY <1>3, <2>4 DEF q, S
<1>6. \A i \in 1 .. n : i \in 1 .. Len(rows)
  BY <1>4
<1>7. /\ TableInv'
      /\ Live' = KeptSlots /\ maxcount' = maxcount /\ wrapped' = wrapped
      /\ \A m \in KeptSlots : strings'[m].str = strings[m].str /\ strings'[m].pref = strings[m].pref
  BY <1>1, <1>2, CommitFacts
<1>8. /\ Columns' = Columns /\ Column' = Column /\ Key' = Key
      /\ \A k : IsString(k)' <=> IsString(k)
      /\ AllPersistent' <=> AllPersistent
  BY SameSchema
<1>9. Typed'
  <2>1. RowType' = RowType
    BY <1>8 DEF RowType
  <2>2. \A k : CellType(k)' = CellType(k)
    BY <1>7, <1>8 DEF CellType
  <2>3. n <= schema.maxRows
    <3>1. schema.maxRows \in Nat /\ Len(rows) <= schema.maxRows
      BY <1>1, ColumnFacts DEF Typed
    <3> QED
      BY <1>4, <3>1
  <2>4. lost' \in BOOLEAN
    BY <1>1, <1>2 DEF Typed
  <2>5. \A r \in 1 .. n, c \in Column : rows'[r].cells[c] \in CellType(c)'
    BY <1>1, <1>5, <1>6, <2>2 DEF Typed
  <2> QED
    BY <1>1, <1>2, <1>5, <1>8, <2>1, <2>3, <2>4, <2>5 DEF Typed
<1>10. JobOK' /\ InsertOK'
  BY <1>2 DEF JobOK, InsertOK, Idle
<1>11. Resolved'
  <2> SUFFICES ASSUME ~lost', NEW r \in 1 .. n, NEW c \in Column, IsString(c)
               PROVE  rows'[r].cells[c] \in {0} \cup KeptSlots
    BY <1>5, <1>7, <1>8 DEF Resolved
  <2>1. rows[r].cells[c] \in {0} \cup Live
    BY <1>1, <1>2, <1>6 DEF Resolved
  <2>2. rows'[r].cells[c] = 0 \/ strings[rows'[r].cells[c]].pref # 0
    BY <1>2, <1>5
  <2>3. \A m \in Live : strings[m].pref # 0 => m \in KeptSlots
    <3>1. \A m \in Live : strings[m].pref \in Nat
      <4>1. \A e \in SlotType : e.pref \in Nat
        BY StringTableAssumption DEF SlotType
      <4>2. \A m \in Live : strings[m] \in SlotType
        BY <1>1, SlotFacts DEF TableInv, Live
      <4> QED
        BY <4>1, <4>2
    <3> QED
      BY <3>1 DEF KeptSlots
  <2> QED
    BY <1>5, <2>1, <2>2, <2>3
<1>12. AllKept'
  <2>1. \A m \in KeptSlots : strings'[m].pref > 0
    BY <1>7 DEF KeptSlots
  <2> QED
    BY <1>1, <1>5, <1>6, <1>7, <1>8, <2>1 DEF AllKept
<1>13. KeysOK'
  <2>1. job'.kind = "idle" /\ job.kind = "idle"
    BY <1>2 DEF Idle
  <2>2. ~lost' /\ ~unchecked' => DistinctKeys(rows)
    BY <1>1, <1>2, <2>1 DEF KeysOK
  <2>3. DistinctKeys(rows) => DistinctKeys(rows)'
    BY <1>5, <1>6, <1>8 DEF DistinctKeys, SameKeys
  <2> QED
    BY <2>1, <2>2, <2>3 DEF KeysOK
<1> QED
  BY <1>7, <1>9, <1>10, <1>11, <1>12, <1>13 DEF RowsInv

-----------------------------------------------------------------------------
(* Every step keeps the invariant.                                         *)
LEMMA OverrunInv ==
  ASSUME RowsInv, schema' = schema, CommitOverrun
  PROVE  RowsInv'
<1>1. /\ job = Idle /\ job' = Undefined /\ UNCHANGED tableVars /\ rows' = rows
      /\ lost' = lost /\ unchecked' = unchecked /\ unchecked \in BOOLEAN
  BY DEF CommitOverrun, RowsInv, Typed
<1>2. /\ TableInv' /\ Typed' /\ Resolved' /\ AllKept'
      /\ DistinctKeys(rows)' <=> DistinctKeys(rows)
  BY <1>1, RowsSame
<1>3. job'.kind = "undefined" /\ job.kind = "idle"
  BY <1>1 DEF Undefined, Idle
<1>4. JobOK' /\ InsertOK'
  BY <1>1, <1>3 DEF JobOK, InsertOK
<1>5. KeysOK'
  BY <1>1, <1>2, <1>3 DEF KeysOK, RowsInv
<1> QED
  BY <1>2, <1>4, <1>5 DEF RowsInv

LEMMA StutterInv == RowsInv /\ UNCHANGED vars => RowsInv'
<1> SUFFICES ASSUME RowsInv, UNCHANGED vars PROVE RowsInv'
  OBVIOUS
<1>1. /\ schema' = schema /\ UNCHANGED tableVars /\ rows' = rows /\ job' = job
      /\ lost' = lost /\ unchecked' = unchecked /\ unchecked \in BOOLEAN
  BY DEF vars, rowVars, RowsInv, Typed
<1>2. /\ TableInv' /\ Typed' /\ Resolved' /\ AllKept' /\ wrapped' = wrapped
      /\ DistinctKeys(rows)' <=> DistinctKeys(rows)
      /\ Column' = Column /\ Key' = Key /\ Record' = Record
  BY <1>1, RowsSame
<1>3. \A c, v : CellOf(c, v)' = CellOf(c, v)
  BY <1>1, SameTable
<1>4. JobOK'
  BY <1>1, <1>2 DEF JobOK, RowsInv
<1>5. InsertOK'
  <2> SUFFICES ASSUME job.kind = "insert" PROVE \E J \in 1 .. Len(rows) : Inserting(J)'
    BY <1>1 DEF InsertOK
  <2>1. PICK J \in 1 .. Len(rows) : Inserting(J)
    BY DEF RowsInv, InsertOK
  <2>2. \A c \in Column : CellOf(c, job.vals[c])' = CellOf(c, job.vals[c])
    BY <1>1, <1>3
  <2>3. /\ job'.cells \subseteq {J} \X Column'
        /\ \A c \in Column' : <<J, c>> \notin job'.cells => rows'[J].cells[c] \in CellOf(c, job.vals[c])'
    BY <1>1, <1>2, <2>1, <2>2 DEF Inserting
  <2>4. ASSUME ~lost, ~unchecked, NEW r \in 1 .. Len(rows) \ {J}
        PROVE  /\ \A q \in 1 .. Len(rows) \ {J} : SameKeys(rows[q], rows[r])' => q = r
               /\ \E c \in Key : rows[r].cells[c] \notin CellOf(c, job.vals[c])'
    <3>1. \A q \in 1 .. Len(rows) \ {J} : SameKeys(rows[q], rows[r])' => q = r
      BY <1>1, <1>2, <2>1, <2>4 DEF Inserting, SameKeys
    <3>2. PICK c \in Key : rows[r].cells[c] \notin CellOf(c, job.vals[c])
      BY <2>1, <2>4 DEF Inserting
    <3>3. c \in Column
      BY DEF Key
    <3> QED
      BY <2>2, <3>1, <3>2, <3>3
  <2>5. Inserting(J)'
    BY <1>1, <1>2, <2>3, <2>4 DEF Inserting
  <2> QED
    BY <2>5
<1>6. KeysOK'
  BY <1>1, <1>2 DEF KeysOK, RowsInv
<1> QED
  BY <1>2, <1>4, <1>5, <1>6 DEF RowsInv

LEMMA StepRows ==
  ASSUME RowsInv, [TableNext]_vars
  PROVE  RowsInv'
<1>1. CASE UNCHANGED vars
  BY <1>1, StutterInv
<1>2. CASE TableNext
  <2>1. ~wrapped /\ schema' = schema
    BY <1>2 DEF TableNext
  <2>2. CASE Statement
    <3>1. CASE \E rec \in Record, temp \in schema.temporary : InsertRow(rec, temp)
      BY <2>1, <3>1, InsertKeeps
    <3>2. CASE \E set \in (SUBSET Column) \ {{}}, rec \in Record :
                 UpdateAll(set, rec) \/ \E cond \in Conditions : UpdateWhere(set, rec, cond[1], cond[2])
      <4>1. PICK set \in (SUBSET Column) \ {{}}, rec \in Record :
                 UpdateAll(set, rec) \/ \E cond \in Conditions : UpdateWhere(set, rec, cond[1], cond[2])
        BY <3>2
      <4>2. set \in SUBSET Column /\ set # {} /\ unchecked \in BOOLEAN
        BY DEF RowsInv, Typed
      <4>3. CASE UpdateAll(set, rec)
        <5>1. UpdateRows(1 .. Len(rows), set, rec) /\ unchecked' = (unchecked \/ (set \cap Key # {} /\ Len(rows) > 1))
          BY <4>3 DEF UpdateAll
        <5>2. unchecked' \in BOOLEAN /\ (unchecked => unchecked') /\ (set \cap Key # {} /\ Len(rows) > 1 => unchecked')
          BY <5>1
        <5> QED
          BY <2>1, <4>2, <5>1, <5>2, UpdateInv
      <4>4. CASE \E cond \in Conditions : UpdateWhere(set, rec, cond[1], cond[2])
        <5>1. PICK cond \in Conditions : UpdateWhere(set, rec, cond[1], cond[2])
          BY <4>4
        <5>2. /\ set \cap Key = {} /\ unchecked' = unchecked
              /\ UpdateRows(Matching(cond[1], cond[2]), set, rec)
          BY <5>1 DEF UpdateWhere
        <5>3. Matching(cond[1], cond[2]) \in SUBSET (1 .. Len(rows))
          BY DEF Matching
        <5> QED
          BY <2>1, <4>2, <5>2, <5>3, UpdateInv
      <4> QED
        BY <4>1, <4>3, <4>4
    <3>3. CASE DeleteRows(1 .. Len(rows)) \/ \E cond \in Conditions : DeleteRows(Matching(cond[1], cond[2]))
      BY <2>1, <3>3, DeleteInv
    <3> QED
      BY <2>2, <3>1, <3>2, <3>3 DEF Statement
  <2>3. CASE SetCell
    <3>1. PICK r \in 1 .. Len(rows), c \in Column :
            LET v == job.vals[c] IN SetKnown(r, c, v) \/ SetNewString(r, c, v) \/ SetRefused(r, c, v)
      BY <2>3 DEF SetCell
    <3>2. PICK v : SetKnown(r, c, v) \/ SetNewString(r, c, v) \/ SetRefused(r, c, v)
      BY <3>1
    <3> QED
      BY <2>1, <3>2, SetInv, SetRefusedInv
  <2>4. CASE Commit
    BY <2>1, <2>4, CommitInv
  <2>5. CASE CommitOverrun
    BY <2>1, <2>5, OverrunInv
  <2>6. CASE \E s \in Text, persistence \in schema.others : OtherString(s, persistence)
    BY <2>1, <2>6, OtherInv
  <2> QED
    BY <1>2, <2>2, <2>3, <2>4, <2>5, <2>6 DEF TableNext
<1> QED
  BY <1>1, <1>2

(* The rows and the string table agree, and the keys are distinct, through *)
(* every statement, cell by cell, and every commit.                        *)
THEOREM RowsInvariant == TableSpec => []RowsInv
BY TableStarts, StepRows, PTL DEF TableSpec

(* Cells hold what their column can, and a statement in progress has cells *)
(* of the table left to set (table_view_set_row, update_view_execute).     *)
THEOREM RowsTyped == TableSpec => []TableTypeOK
<1>1. ASSUME RowsInv PROVE TableTypeOK
  <2>1. TypeOK /\ Typed /\ JobOK
    BY <1>1 DEF RowsInv, TableInv
  <2>2. \A r \in 1 .. Len(rows) : \A c \in Column :
          rows[r].cells[c] \in IF IsString(c) THEN 0 .. maxcount - 1 ELSE {0} \cup Number
    BY <2>1 DEF Typed, CellType
  <2>3. /\ job.kind \in {"idle", "insert", "update", "undefined"}
        /\ job.kind \in {"insert", "update"} =>
             job.cells # {} /\ job.cells \subseteq (1 .. Len(rows)) \X Column
    BY <2>1 DEF JobOK, Idle, Undefined
  <2> QED
    BY <2>1, <2>2, <2>3 DEF TableTypeOK, Typed
<1> QED
  BY <1>1, RowsInvariant, PTL

(* As long as no commit dropped a string in use, every cell of every row   *)
(* reads as a string or a number: no id dangles (msi_string_lookup_id).    *)
THEOREM RowsRead == TableSpec => []RowsResolve
<1>1. ASSUME RowsInv PROVE RowsResolve
  <2> SUFFICES ASSUME ~lost, ~wrapped, NEW r \in 1 .. Len(rows), NEW c \in Column
               PROVE  Read(c, rows[r].cells[c]) # Null
    BY DEF RowsResolve
  <2>1. TypeOK /\ SlotsOK /\ Typed /\ Resolved
    BY <1>1 DEF RowsInv, TableInv
  <2> DEFINE x == rows[r].cells[c]
  <2>2. CASE ~IsString(c)
    <3>1. x \in {0} \cup Number
      BY <2>1, <2>2 DEF Typed, CellType
    <3> QED
      BY <2>2, <3>1, TableAssumption DEF Read, Null
  <2>3. CASE IsString(c) /\ x = 0
    BY <2>3 DEF Read, Lookup, Empty, Null
  <2>4. CASE IsString(c) /\ x \in Live
    <3>1. Lookup(x) = strings[x].str /\ strings[x].str \in Text
      BY <2>1, <2>4, LiveReads DEF SlotsOK
    <3> QED
      BY <2>4, <3>1, StringTableAssumption DEF Read, Null
  <2>5. IsString(c) => x \in {0} \cup Live
    BY <2>1 DEF Resolved
  <2> QED
    BY <2>2, <2>3, <2>4, <2>5
<1> QED
  BY <1>1, RowsInvariant, PTL

(* No two rows have the same keys, unless a statement set keys that nobody *)
(* checks: table_validate_new is enough for an INSERT, also while its own  *)
(* strings are being added to the table it searched.                       *)
THEOREM KeysStayUnique == TableSpec => []KeysUnique
<1>1. ASSUME RowsInv PROVE KeysUnique
  BY <1>1 DEF RowsInv, KeysOK, KeysUnique, DistinctKeys, SameKeys, Idle
<1> QED
  BY <1>1, RowsInvariant, PTL

-----------------------------------------------------------------------------
(* What the table reads as.                                                *)
LEMMA ReadsExcept ==
  RowsExcept(0) = [i \in 1 .. Len(rows) |-> RowRead(rows[i])]
BY DEF RowsExcept

(* Without temporary data a commit changes nothing that can be read, for   *)
(* every way rows and other data share their strings (table.c:1376).       *)
THEOREM CommitKeepsAll == TableSpec => CommitKeepsPersistent
<1>1. ASSUME RowsInv, [TableNext]_vars
      PROVE  [AllPersistent /\ Commit => RowsExcept(0)' = RowsExcept(0)]_vars
  <2> SUFFICES ASSUME TableNext, AllPersistent, Commit
               PROVE  RowsExcept(0)' = RowsExcept(0)
    BY <1>1
  <2>1. TableInv /\ Typed /\ AllKept /\ ~wrapped /\ schema' = schema
    BY <1>1 DEF RowsInv, TableNext
  <2>2. Len(rows) \in Nat /\ rows \in Seq(RowType) /\ maxcount \in Nat /\ TypeOK
    BY <2>1, RowFacts, SlotFacts DEF Typed, TableInv
  <2>3. PICK n \in SavedLength : rows' = SubSeq(rows, 1, n)
    BY DEF Commit
  <2>4. n = Len(rows)
    <3>1. n \in 0 .. Len(rows) /\ (n < Len(rows) => rows[n + 1].temp)
      BY DEF SavedLength
    <3>2. n < Len(rows) => n + 1 \in 1 .. Len(rows)
      BY <2>2, <3>1
    <3> QED
      BY <2>1, <2>2, <3>1, <3>2 DEF AllKept
  <2>5. rows' = rows
    <3> DEFINE S == RowType
    <3>1. rows \in Seq(S) /\ Len(rows) \in Nat
      BY <2>2
    <3> HIDE DEF S
    <3>2. SubSeq(rows, 1, Len(rows)) = rows
      BY <3>1
    <3> QED
      BY <2>3, <2>4, <3>2
  <2>6. /\ Live' = KeptSlots /\ maxcount' = maxcount
        /\ \A m \in KeptSlots : strings'[m].str = strings[m].str
    BY <2>1, CommitFacts DEF Commit
  <2>7. Live' = Live
    BY <2>1, <2>6 DEF AllKept, KeptSlots
  <2>8. ASSUME NEW x \in Nat PROVE Lookup(x)' = Lookup(x)
    <3>1. Lookup(x) = IF x = 0 THEN Empty ELSE IF x \in Live THEN strings[x].str ELSE Null
      BY <2>2, <2>8 DEF Lookup, Live
    <3>2. Lookup(x)' = IF x = 0 THEN Empty ELSE IF x \in Live' THEN strings'[x].str ELSE Null
      BY <2>2, <2>6, <2>8 DEF Lookup, Live
    <3> QED
      BY <2>6, <2>7, <3>1, <3>2
  <2>9. ASSUME NEW i \in 1 .. Len(rows) PROVE RowRead(rows[i])' = RowRead(rows[i])
    <3>1. \A c \in Column : rows[i].cells[c] \in Nat
      BY <2>1, RowFacts
    <3>2. Column' = Column /\ \A c : IsString(c)' <=> IsString(c)
      BY <2>1, SameSchema
    <3>3. \A c \in Column : Read(c, rows[i].cells[c])' = Read(c, rows[i].cells[c])
      BY <2>5, <2>8, <3>1, <3>2 DEF Read
    <3> QED
      BY <2>5, <3>2, <3>3 DEF RowRead
  <2>10. RowsExcept(0)' = [i \in 1 .. Len(rows) |-> RowRead(rows[i])']
    BY <2>5 DEF RowsExcept
  <2> QED
    BY <2>9, <2>10, ReadsExcept
<1> QED
  BY <1>1, RowsInvariant, PTL DEF TableSpec, CommitKeepsPersistent

(* Whichever rows a DELETE has found, in each place stands afterwards the  *)
(* row that stood one further behind for each row found up to there.       *)
THEOREM DeleteTakesInStep == TableSpec => DeleteMovesUp
<1> DEFINE Moves == \A found \in SUBSET (1 .. Len(rows)) : DeleteRows(found) =>
                      \A j \in 1 .. Len(rows) :
                        LET from == j + FoundUpTo(found, j) IN
                        IF from <= Len(rows)
                        THEN j <= Len(rows') /\ RowRead(rows[j])' = RowRead(rows[from])
                        ELSE j > Len(rows')
<1>1. ASSUME RowsInv, [TableNext]_vars
      PROVE  [Moves]_vars
  <2> SUFFICES ASSUME TableNext, NEW found \in SUBSET (1 .. Len(rows)), DeleteRows(found),
                      NEW j \in 1 .. Len(rows)
               PROVE  LET from == j + FoundUpTo(found, j) IN
                      IF from <= Len(rows)
                      THEN j <= Len(rows') /\ RowRead(rows[j])' = RowRead(rows[from])
                      ELSE j > Len(rows')
    BY <1>1
  <2>1. Typed /\ schema' = schema
    BY <1>1 DEF RowsInv, TableNext
  <2>2. rows' = Deleted(found) /\ UNCHANGED tableVars
    BY DEF DeleteRows
  <2>3. Column' = Column /\ \A c, x : Read(c, x)' = Read(c, x)
    BY <2>1, <2>2, SameTable, SameSchema
  <2>4. Source(found, Len(rows), j) = j + FoundUpTo(found, j)
    BY <2>1, RowFacts DEF Source
  <2>5. LET from == j + FoundUpTo(found, j) IN
        IF from <= Len(rows) THEN j <= Len(rows') /\ rows'[j] = rows[from] ELSE j > Len(rows')
    <3>1. MovedUp(found, Len(rows), rows')
      BY <2>1, <2>2, DeletedMovesUp
    <3> QED
      BY <2>4, <3>1 DEF MovedUp
  <2>6. RowRead(rows[j])' = [c \in Column |-> Read(c, rows'[j].cells[c])]
    BY <2>3 DEF RowRead
  <2> QED
    BY <2>5, <2>6 DEF RowRead
<1> QED
  BY <1>1, RowsInvariant, PTL DEF TableSpec, DeleteMovesUp

-----------------------------------------------------------------------------
(* What an INSERT leaves.                                                  *)
(* A row that is in use in the string table reads the same after a step.   *)
LEMMA RowReadsSame ==
  ASSUME RowsInv, schema' = schema, ~lost, ~wrapped, NEW q \in 1 .. Len(rows),
         Live \subseteq Live', \A y \in Live : strings'[y] = strings[y],
         TableInv', NEW row, row = rows[q]
  PROVE  RowRead(row)' = RowRead(row)
<1>1. Typed /\ Resolved /\ TypeOK /\ TypeOK'
  BY DEF RowsInv, TableInv
<1>2. Column' = Column /\ \A c : IsString(c)' <=> IsString(c)
  BY SameSchema
<1>3. PICK old, size : old = maxcount /\ size = maxcount'
  OBVIOUS
<1>4. old \in Nat /\ size \in Nat
  BY <1>1, <1>3, StringTableAssumption DEF TypeOK
<1>5. ASSUME NEW x \in {0} \cup Live PROVE Lookup(x)' = Lookup(x)
  <2>1. CASE x = 0
    BY <2>1 DEF Lookup
  <2>2. CASE x \in Live
    <3>1. /\ x \in 1 .. old - 1 /\ x \in 1 .. size - 1
          /\ Used(strings[x]) /\ Used(strings'[x])
      BY <1>3, <2>2 DEF Live
    <3>2. ~(x >= old) /\ ~(x >= size) /\ x # 0
      BY <1>4, <3>1
    <3> QED
      BY <1>3, <2>2, <3>1, <3>2 DEF Lookup
  <2> QED
    BY <2>1, <2>2
<1>6. ASSUME NEW c \in Column PROVE Read(c, row.cells[c])' = Read(c, row.cells[c])
  <2>1. IsString(c) => row.cells[c] \in {0} \cup Live
    BY <1>1 DEF Resolved
  <2> QED
    BY <1>2, <1>5, <2>1 DEF Read
<1> QED
  BY <1>2, <1>6 DEF RowRead

(* The table without row J reads the same when the other rows are the same.*)
LEMMA ReadsWithout ==
  ASSUME NEW p \in Seq(RowType), NEW q \in Seq(RowType), NEW J \in 1 .. Len(p), Len(q) = Len(p),
         \A i \in 1 .. Len(p) : i # J => q[i] = p[i]
  PROVE  RemoveAt(q, J) = RemoveAt(p, J)
<1> DEFINE S == RowType
           old(i) == IF i < J THEN i ELSE i + 1
<1>1. p \in Seq(S) /\ q \in Seq(S) /\ Len(p) \in Nat
  OBVIOUS
<1>2. /\ RemoveAt(p, J) \in Seq(S) /\ Len(RemoveAt(p, J)) = Len(p) - 1
      /\ \A i \in 1 .. Len(p) - 1 : RemoveAt(p, J)[i] = p[old(i)]
  <2> HIDE DEF S
  <2> QED
    BY <1>1, RemoveAtFacts
<1>3. /\ RemoveAt(q, J) \in Seq(S) /\ Len(RemoveAt(q, J)) = Len(p) - 1
      /\ \A i \in 1 .. Len(p) - 1 : RemoveAt(q, J)[i] = q[old(i)]
  <2> HIDE DEF S
  <2> QED
    BY <1>1, RemoveAtFacts
<1>4. \A i \in 1 .. Len(p) - 1 : old(i) \in 1 .. Len(p) /\ old(i) # J
  BY <1>1
<1> HIDE DEF S, old
<1>5. \A i \in 1 .. Len(p) - 1 : RemoveAt(q, J)[i] = RemoveAt(p, J)[i]
  BY <1>2, <1>3, <1>4
<1> QED
  BY <1>2, <1>3, <1>5, SeqEqual

(* The cells an INSERT in progress has left to set are those of its row.   *)
LEMMA InsertingRow ==
  ASSUME RowsInv, NEW r, NEW c, NEW v, Setting(r, c, v), job.kind = "insert"
  PROVE  r \in 1 .. Len(rows) /\ Inserting(r) /\ JobRows = {r}
<1>1. r \in 1 .. Len(rows) /\ <<r, c>> \in job.cells
  BY JobFacts DEF RowsInv, Setting
<1>2. PICK J \in 1 .. Len(rows) : Inserting(J)
  BY DEF RowsInv, InsertOK
<1>3. job.cells \subseteq {J} \X Column
  BY <1>2 DEF Inserting
<1>4. r = J
  BY <1>1, <1>3
<1>5. JobRows = {r}
  <2>1. \A cell \in job.cells : cell[1] = r
    BY <1>3, <1>4
  <2>2. <<r, c>>[1] = r
    OBVIOUS
  <2> QED
    BY <1>1, <2>1, <2>2 DEF JobRows
<1> QED
  BY <1>1, <1>2, <1>4, <1>5

(* Its last cell set, the row reads as the values that were given.         *)
LEMMA RowFilled ==
  ASSUME RowsInv, schema' = schema, NEW r, NEW c, NEW v, SetKnown(r, c, v) \/ SetNewString(r, c, v),
         job.kind = "insert", job' = Idle
  PROVE  RowRead(rows[r])' = job.vals
<1>1. TableInv /\ Typed /\ JobOK /\ Resolved
  BY DEF RowsInv
<1>2. /\ Setting(r, c, v) /\ job' = Rest(r, c) /\ TableInv' /\ ~wrapped'
      /\ \A k \in Column : \A w \in Given(k) : CellOf(k, w) \subseteq CellOf(k, w)'
      /\ \A k \in Column : \A w \in Given(k), y \in Nat :
           y \in CellOf(k, w)' /\ (IsString(k) => y \in {0} \cup Live) => y \in CellOf(k, w)
  BY SetFacts
<1>3. PICK x \in CellOf(c, v)' : rows' = CellSet(r, c, x)
  BY SetFacts
<1>4. /\ job = Job(job.kind, job.cells, job.vals) /\ ~wrapped
      /\ c \in Column /\ v = job.vals[c] /\ job.vals \in Record
      /\ v = 0 \/ v \in (IF IsString(c) THEN Text ELSE Number \cup {OutOfRange})
  BY <1>1, <1>2, JobFacts
<1>5. r \in 1 .. Len(rows) /\ Inserting(r)
  BY <1>2, InsertingRow
<1>6. job.cells = {<<r, c>>}
  <2>1. Job(job.kind, job.cells \ {<<r, c>>}, job.vals) # Idle
    BY DEF Job, Idle
  <2> QED
    BY <1>2, <1>4, <2>1, RestFacts
<1>7. PICK vals \in Record : vals = job.vals
  BY <1>4
<1>8. TypeOK' /\ IndexedBy(strings', maxcount', sorted')
  <2>1. TypeOK' /\ IndexOK'
    BY <1>2 DEF TableInv
  <2>2. IndexOK' => IndexedBy(strings', maxcount', sorted')
    BY <1>2 DEF IndexOK
  <2> QED
    BY <2>1, <2>2
<1>9. x \in Nat
  BY <1>4, <1>8, CellNext
<1>10. \A k \in Column :
         k = c \/ <<r, k>> \notin job.cells => rows'[r].cells[k] \in CellOf(k, vals[k])'
  BY <1>1, <1>2, <1>3, <1>4, <1>5, <1>7, <1>9, InsertingSet
<1>11. ASSUME NEW k \in Column PROVE Read(k, rows[r].cells[k])' = vals[k]
  <2>1. rows'[r].cells[k] \in CellOf(k, vals[k])'
    BY <1>6, <1>10
  <2>2. PICK y : y = rows'[r].cells[k]
    OBVIOUS
  <2>3. vals[k] = 0 \/ vals[k] \in (IF IsString(k) THEN Text ELSE Number \cup {OutOfRange})
    BY RecordFacts
  <2>4. Read(k, y)' = vals[k]
    BY <1>8, <2>1, <2>2, <2>3, CellNext
  <2> QED
    BY <2>2, <2>4 DEF Read
<1>12. Column' = Column
  BY SameSchema
<1>13. RowRead(rows[r])' = [k \in Column |-> Read(k, rows[r].cells[k])']
  BY <1>12 DEF RowRead
<1>14. c \in Column
  BY <1>4
<1>15. vals = [k \in Column |-> vals[k]]
  BY <1>14, RecordFacts
<1> QED
  BY <1>7, <1>11, <1>13, <1>15

(* The other rows read the same after each of its cells, set or refused.   *)
LEMMA OthersRead ==
  ASSUME RowsInv, schema' = schema, NEW r, NEW c, NEW v,
         SetKnown(r, c, v) \/ SetNewString(r, c, v) \/ SetRefused(r, c, v),
         job.kind = "insert", ~lost
  PROVE  RowsExcept(r)' = RowsExcept(r)
<1>1. TableInv /\ Typed /\ JobOK
  BY DEF RowsInv
<1>2. Setting(r, c, v)
  BY DEF SetKnown, SetNewString, SetRefused
<1>3. ~wrapped /\ c \in Column /\ (v = 0 \/ v \in (IF IsString(c) THEN Text ELSE Number \cup {OutOfRange}))
  BY <1>1, <1>2, JobFacts
<1>4. r \in 1 .. Len(rows)
  BY <1>2, InsertingRow
<1>5. /\ TableInv' /\ Live \subseteq Live' /\ \A y \in Live : strings'[y] = strings[y]
      /\ rows' \in Seq(RowType) /\ Len(rows') = Len(rows)
      /\ \A q \in 1 .. Len(rows) : q # r => rows'[q] = rows[q]
  <2>1. CASE SetRefused(r, c, v)
    <3>1. rows' = rows /\ UNCHANGED tableVars
      BY <2>1 DEF SetRefused
    <3>2. TableInv' /\ Live' = Live /\ strings' = strings
      BY <1>1, <3>1, SameTable
    <3>3. rows \in Seq(RowType)
      BY <1>1 DEF Typed
    <3> QED
      BY <3>1, <3>2, <3>3
  <2>2. CASE SetKnown(r, c, v) \/ SetNewString(r, c, v)
    <3>1. /\ TableInv' /\ ~wrapped' /\ Live \subseteq Live' /\ \A y \in Live : strings'[y] = strings[y]
          /\ \E x \in CellOf(c, v)' : rows' = CellSet(r, c, x)
      BY <2>2, SetFacts
    <3>2. PICK x \in CellOf(c, v)' : rows' = CellSet(r, c, x)
      BY <3>1
    <3>3. TypeOK' /\ IndexedBy(strings', maxcount', sorted')
      <4>1. TypeOK' /\ IndexOK'
        BY <3>1 DEF TableInv
      <4>2. IndexOK' => IndexedBy(strings', maxcount', sorted')
        BY <3>1 DEF IndexOK
      <4> QED
        BY <4>1, <4>2
    <3>4. x \in Nat
      BY <1>3, <3>2, <3>3, CellNext
    <3>5. /\ rows' \in Seq(RowType) /\ Len(rows') = Len(rows)
          /\ \A q \in 1 .. Len(rows) : q # r => rows'[q] = rows[q]
      BY <1>1, <1>3, <1>4, <3>2, <3>4, RowSet
    <3> QED
      BY <3>1, <3>5
  <2> QED
    BY <2>1, <2>2
<1>6. PICK rest : rest = RemoveAt(rows, r)
  OBVIOUS
<1>7. RemoveAt(rows', r) = rest
  <2>1. rows \in Seq(RowType)
    BY <1>1 DEF Typed
  <2> QED
    BY <1>4, <1>5, <1>6, <2>1, ReadsWithout
<1>8. /\ Len(rest) = Len(rows) - 1 /\ Len(rows) \in Nat
      /\ \A i \in 1 .. Len(rows) - 1 : rest[i] = rows[IF i < r THEN i ELSE i + 1]
  <2> DEFINE S == RowType
  <2>1. rows \in Seq(S) /\ Len(rows) \in Nat
    BY <1>1, RowFacts DEF Typed
  <2> HIDE DEF S
  <2> QED
    BY <1>4, <1>6, <2>1, RemoveAtFacts
<1>9. ASSUME NEW i \in 1 .. Len(rest) PROVE RowRead(rest[i])' = RowRead(rest[i])
  <2>1. PICK q \in 1 .. Len(rows) : rest[i] = rows[q]
    BY <1>4, <1>8
  <2>2. PICK row : row = rows[q]
    OBVIOUS
  <2>3. RowRead(row)' = RowRead(row)
    BY <1>3, <1>5, <2>2, RowReadsSame
  <2>4. rest[i] = row
    BY <2>1, <2>2
  <2> QED
    BY <2>3, <2>4
<1>10. r # 0
  BY <1>4
<1>11. RowsExcept(r) = [i \in 1 .. Len(rest) |-> RowRead(rest[i])]
  BY <1>6, <1>10 DEF RowsExcept
<1>12. RowsExcept(r)' = [i \in 1 .. Len(rest) |-> RowRead(rest[i])']
  BY <1>7, <1>10 DEF RowsExcept
<1> QED
  BY <1>9, <1>11, <1>12

(* Making room for it moves rows and changes none.                         *)
LEMMA RoomMade ==
  ASSUME RowsInv, schema' = schema, NEW vals \in Record, NEW temp \in schema.temporary,
         InsertRow(vals, temp), NEW J, J \in JobRows'
  PROVE  RowsExcept(J)' = RowsExcept(0)
<1>1. Typed
  BY DEF RowsInv
<1>2. PICK P \in 1 .. Len(rows) + 1, row \in RowType :
        /\ rows' \in Seq(RowType)
        /\ Len(rows') = Len(rows) + 1
        /\ \A r \in 1 .. Len(rows') : r # P => rows'[r] = rows[IF r < P THEN r ELSE r - 1]
        /\ job' = Job("insert", {P} \X Column, vals)
  BY <1>1, InsertPlace
<1>3. J = P
  <2>1. job'.cells = {P} \X Column
    BY <1>2 DEF Job
  <2>2. PICK cell \in {P} \X Column : J = cell[1]
    BY <2>1 DEF JobRows
  <2> QED
    BY <2>2
<1>4. rows \in Seq(RowType) /\ Len(rows) \in Nat
  BY <1>1, RowFacts DEF Typed
<1>5. RemoveAt(rows', P) = rows
  <2> DEFINE S == RowType
             p == rows'
             rest == RemoveAt(p, P)
  <2>1. p \in Seq(S) /\ rows \in Seq(S) /\ Len(p) = Len(rows) + 1 /\ P \in 1 .. Len(p)
    BY <1>2, <1>4
  <2> HIDE DEF S, p
  <2>2. /\ rest \in Seq(S) /\ Len(rest) = Len(p) - 1
        /\ \A i \in 1 .. Len(p) - 1 : rest[i] = p[IF i < P THEN i ELSE i + 1]
    BY <2>1, RemoveAtFacts
  <2> HIDE DEF rest
  <2>3. ASSUME NEW i \in 1 .. Len(rows) PROVE rest[i] = rows[i]
    <3> DEFINE q == IF i < P THEN i ELSE i + 1
    <3>1. q \in 1 .. Len(p) /\ q # P /\ (IF q < P THEN q ELSE q - 1) = i
      BY <1>4, <2>1
    <3>2. rest[i] = p[q]
      BY <1>4, <2>1, <2>2
    <3> HIDE DEF q
    <3>3. p[q] = rows[IF q < P THEN q ELSE q - 1]
      BY <1>2, <3>1 DEF p
    <3> QED
      BY <3>1, <3>2, <3>3
  <2>4. Len(rest) = Len(rows)
    BY <1>4, <2>1, <2>2
  <2>5. rest = rows
    BY <1>4, <2>1, <2>2, <2>3, <2>4, SeqEqual
  <2> QED
    BY <2>5 DEF rest, p
<1>6. Column' = Column /\ \A c, x : Read(c, x)' = Read(c, x)
  <2>1. UNCHANGED tableVars
    BY DEF InsertRow
  <2> QED
    BY <2>1, SameTable, SameSchema
<1>7. P # 0
  BY <1>4
<1>8. RowsExcept(J)' = [i \in 1 .. Len(RemoveAt(rows', P)) |-> RowRead(RemoveAt(rows, P)[i])']
  BY <1>3, <1>7 DEF RowsExcept
<1>9. \A i : RowRead(RemoveAt(rows, P)[i])' = [c \in Column |-> Read(c, RemoveAt(rows', P)[i].cells[c])]
  BY <1>6 DEF RowRead
<1> QED
  BY <1>5, <1>8, <1>9, ReadsExcept DEF RowRead

(* An INSERT adds the row that was asked for and changes what no other row *)
(* reads as, nor their order, whichever of its strings were there and      *)
(* wherever it may be refused (insert_view_execute, table_view_set_row).   *)
THEOREM InsertAdds == TableSpec => InsertAddsItsRow
<1> DEFINE Filled == job.kind = "insert" /\ job' = Idle /\ (\A c \in Column : job.vals[c] # OutOfRange) =>
                       \A r \in JobRows : RowRead(rows[r])' = job.vals
           Room == job = Idle /\ job'.kind = "insert" => \A r \in JobRows' : RowsExcept(r)' = RowsExcept(0)
           Others == job.kind = "insert" => \A r \in JobRows : RowsExcept(r)' = RowsExcept(r)
<1>1. ASSUME RowsInv, [TableNext]_vars
      PROVE  [Filled /\ (~lost /\ ~wrapped' => Room /\ Others)]_vars
  <2> SUFFICES ASSUME TableNext PROVE Filled /\ (~lost => Room /\ Others)
    BY <1>1
  <2>1. schema' = schema /\ Idle.kind # "insert"
    BY DEF TableNext, Idle
  <2>2. Filled /\ (~lost => Others)
    <3> SUFFICES ASSUME job.kind = "insert"
                 PROVE  /\ job' = Idle /\ (\A c \in Column : job.vals[c] # OutOfRange) =>
                             \A r \in JobRows : RowRead(rows[r])' = job.vals
                        /\ ~lost => \A r \in JobRows : RowsExcept(r)' = RowsExcept(r)
      OBVIOUS
    <3>1. job # Idle
      BY <2>1
    <3>2. SetCell
      BY <3>1 DEF TableNext, Statement, InsertRow, UpdateAll, UpdateWhere, UpdateRows, DeleteRows,
                  Commit, CommitOverrun, OtherString
    <3>3. PICK r \in 1 .. Len(rows), c \in Column :
            LET v == job.vals[c] IN SetKnown(r, c, v) \/ SetNewString(r, c, v) \/ SetRefused(r, c, v)
      BY <3>2 DEF SetCell
    <3>4. PICK v : v = job.vals[c] /\ (SetKnown(r, c, v) \/ SetNewString(r, c, v) \/ SetRefused(r, c, v))
      BY <3>3
    <3>5. Setting(r, c, v)
      BY <3>4 DEF SetKnown, SetNewString, SetRefused
    <3>6. JobRows = {r}
      BY <1>1, <3>5, InsertingRow
    <3>7. ~lost => RowsExcept(r)' = RowsExcept(r)
      BY <1>1, <2>1, <3>4, OthersRead
    <3>8. ASSUME job' = Idle, \A k \in Column : job.vals[k] # OutOfRange
          PROVE  RowRead(rows[r])' = job.vals
      <4>1. v = 0 \/ v \in (IF IsString(c) THEN Text ELSE Number \cup {OutOfRange})
        BY <1>1, <3>5, JobFacts DEF RowsInv
      <4>2. ~IsString(c) => CellOf(c, v) # {}
        BY <3>4, <3>8, <4>1 DEF CellOf
      <4>3. ~SetRefused(r, c, v)
        BY <4>2 DEF SetRefused
      <4> QED
        BY <1>1, <2>1, <3>4, <3>8, <4>3, RowFilled
    <3> QED
      BY <3>6, <3>7, <3>8
  <2>3. Room
    <3> SUFFICES ASSUME job = Idle, job'.kind = "insert", NEW r, r \in JobRows'
                 PROVE  RowsExcept(r)' = RowsExcept(0)
      OBVIOUS
    <3>1. job' # job
      BY <2>1
    <3>2. ~SetCell /\ ~Commit /\ ~CommitOverrun /\ ~ \E s \in Text, p \in schema.others : OtherString(s, p)
      BY <3>1 DEF SetCell, Idle, Commit, CommitOverrun, Undefined, OtherString, rowVars
    <3>3. Statement
      BY <3>2 DEF TableNext
    <3>4. \A found, set, vals : ~UpdateRows(found, set, vals)
      BY DEF UpdateRows, Job
    <3>5. \A found : ~DeleteRows(found)
      BY <3>1 DEF DeleteRows
    <3>6. PICK vals \in Record, temp \in schema.temporary : InsertRow(vals, temp)
      BY <3>3, <3>4, <3>5 DEF Statement, UpdateAll, UpdateWhere
    <3> QED
      BY <1>1, <2>1, <3>6, RoomMade
  <2> QED
    BY <2>2, <2>3
<1> QED
  BY <1>1, RowsInvariant, PTL DEF TableSpec, InsertAddsItsRow

-----------------------------------------------------------------------------
(* The search that finds a row: libmsi's binary search, for arrays of      *)
(* every length and in every order.                                        *)
VARIABLES cmp, low, high, answer
Loop == INSTANCE BinarySearch

(* The loop's variables stay in range and bound the part of the array not  *)
(* yet decided; find_insert_index and _libmsi_id_from_string_utf8.         *)
THEOREM LoopInvariant == Loop!Spec => []Loop!LoopInv
<1> USE DEF Loop!LoopInv, Loop!TypeOK, Loop!BoundsSeen, Loop!AnswerOK, Loop!NoAnswer, Loop!Hit, Loop!Miss, Loop!Sign
<1>1. Loop!Init => Loop!LoopInv
  BY DEF Loop!Init
<1>2. Loop!LoopInv /\ [Loop!Next]_Loop!vars => Loop!LoopInv'
  <2> SUFFICES ASSUME Loop!LoopInv, [Loop!Next]_Loop!vars
               PROVE  Loop!LoopInv'
    OBVIOUS
  <2>1. CASE Loop!Look
    <3> DEFINE i == Loop!Middle
    <3>1. i \in low .. high
      BY <2>1 DEF Loop!Look, Loop!Middle
    <3>2. cmp[i + 1] \in Loop!Sign
      BY <3>1
    <3>3. CASE cmp[i + 1] < 0 /\ high' = i - 1 /\ UNCHANGED <<low, answer>>
      BY <2>1, <3>1, <3>2, <3>3 DEF Loop!Look
    <3>4. CASE cmp[i + 1] > 0 /\ low' = i + 1 /\ UNCHANGED <<high, answer>>
      BY <2>1, <3>1, <3>2, <3>4 DEF Loop!Look
    <3>5. CASE cmp[i + 1] = 0 /\ answer' = Loop!Hit(i) /\ UNCHANGED <<low, high>>
      BY <2>1, <3>1, <3>2, <3>5 DEF Loop!Look, Loop!Hits
    <3> QED
      BY <2>1, <3>3, <3>4, <3>5 DEF Loop!Look
  <2>2. CASE Loop!GiveUp
    <3>1. high + 1 = low
      BY <2>2 DEF Loop!GiveUp
    <3>2. high + 1 \in Loop!Gaps(cmp)
      BY <2>2, <3>1 DEF Loop!GiveUp, Loop!Gaps
    <3> QED
      BY <2>2, <3>1, <3>2 DEF Loop!GiveUp
  <2>3. CASE UNCHANGED Loop!vars
    BY <2>3 DEF Loop!vars, Loop!Hits, Loop!Gaps
  <2> QED
    BY <2>1, <2>2, <2>3 DEF Loop!Next
<1> QED
  BY <1>1, <1>2, PTL DEF Loop!Spec

(* Whatever the order of the array, a hit is an equal element and a miss a *)
(* place between a smaller and a greater element: what the insertions of   *)
(* libmsi/string.c and libmsi/table.c rely on.                             *)
THEOREM AnswerCorrect == Loop!Spec => []Loop!AnswerOK
BY LoopInvariant, PTL DEF Loop!LoopInv

(* In an ascending array without duplicates the answer is the only one.    *)
THEOREM AscendingAnswer == Loop!Spec => []Loop!AscendingDecides
<1>1. Loop!LoopInv => Loop!AscendingDecides
  <2> SUFFICES ASSUME Loop!LoopInv, answer # Loop!NoAnswer, Loop!Ascending(cmp)
               PROVE  /\ answer.found <=> Loop!Hits(cmp) # {}
                      /\ answer.found => Loop!Hits(cmp) = {answer.at + 1}
                      /\ ~answer.found => Loop!Gaps(cmp) = {answer.at}
    BY DEF Loop!AscendingDecides
  <2> USE DEF Loop!LoopInv, Loop!TypeOK, Loop!AnswerOK, Loop!Sign
  <2>1. CASE answer.found
    BY <2>1 DEF Loop!Hits, Loop!Ascending
  <2>2. CASE ~answer.found
    <3>1. answer.at \in Loop!Gaps(cmp)
      BY <2>2
    <3>2. Loop!Hits(cmp) = {}
      BY <3>1 DEF Loop!Hits, Loop!Gaps, Loop!Ascending
    <3>3. ASSUME NEW p \in Loop!Gaps(cmp)
          PROVE  p = answer.at
      <4> DEFINE q == answer.at
      <4>1. /\ p \in 0 .. Len(cmp) /\ q \in 0 .. Len(cmp) /\ Len(cmp) \in Nat
            /\ \A i \in 1 .. Len(cmp) : cmp[i] \in {-1, 0, 1}
        BY <3>1 DEF Loop!Gaps
      <4>2. ~(p < q)
        <5> SUFFICES ASSUME p < q PROVE FALSE
          OBVIOUS
        <5>1. cmp[p + 1] = -1 /\ cmp[q] = 1
          BY <3>1, <4>1 DEF Loop!Gaps
        <5>2. p + 1 < q => cmp[q] <= cmp[p + 1]
          <6>1. p + 1 \in 1 .. Len(cmp) \/ ~(p + 1 < q)
            BY <4>1
          <6>2. q \in 1 .. Len(cmp)
            BY <4>1
          <6> QED
            BY <6>1, <6>2, Loop!Ascending(cmp) DEF Loop!Ascending
        <5> QED
          BY <4>1, <5>1, <5>2
      <4>3. ~(q < p)
        <5> SUFFICES ASSUME q < p PROVE FALSE
          OBVIOUS
        <5>1. cmp[q + 1] = -1 /\ cmp[p] = 1
          BY <3>1, <4>1 DEF Loop!Gaps
        <5>2. q + 1 < p => cmp[p] <= cmp[q + 1]
          <6>1. q + 1 \in 1 .. Len(cmp) \/ ~(q + 1 < p)
            BY <4>1
          <6>2. p \in 1 .. Len(cmp)
            BY <4>1
          <6> QED
            BY <6>1, <6>2, Loop!Ascending(cmp) DEF Loop!Ascending
        <5> QED
          BY <4>1, <5>1, <5>2
      <4> QED
        BY <4>1, <4>2, <4>3
    <3> QED
      BY <2>2, <3>1, <3>2, <3>3
  <2> QED
    BY <2>1, <2>2
<1> QED
  BY <1>1, LoopInvariant, PTL

(* The search ends: what is left of the array shrinks with each iteration  *)
(* of the loop, and is never less than nothing.                            *)
THEOREM SearchIsFinite == Loop!Spec => Loop!SearchShrinks
<1>1. Loop!LoopInv /\ [Loop!Next]_Loop!vars => [answer' = Loop!NoAnswer => high' - low' < high - low /\ high' - low' >= -1]_Loop!vars
  <2> SUFFICES ASSUME Loop!LoopInv, Loop!Next, answer' = Loop!NoAnswer
               PROVE  high' - low' < high - low /\ high' - low' >= -1
    OBVIOUS
  <2> USE DEF Loop!LoopInv, Loop!TypeOK, Loop!NoAnswer, Loop!Hit, Loop!Miss, Loop!Sign
  <2>1. CASE Loop!Look
    <3> DEFINE i == Loop!Middle
    <3>1. low <= high /\ low \in Int /\ high \in Int /\ i \in low .. high
      BY <2>1 DEF Loop!Look, Loop!Middle
    <3>2. cmp[i + 1] \in Loop!Sign
      BY <3>1
    <3>3. CASE cmp[i + 1] < 0 /\ high' = i - 1 /\ low' = low
      BY <3>1, <3>3
    <3>4. CASE cmp[i + 1] > 0 /\ low' = i + 1 /\ high' = high
      BY <3>1, <3>4
    <3>5. ~(cmp[i + 1] = 0 /\ answer' = Loop!Hit(i))
      BY <3>1
    <3> QED
      BY <2>1, <3>2, <3>3, <3>4, <3>5 DEF Loop!Look
  <2>2. ~Loop!GiveUp
    BY DEF Loop!GiveUp
  <2> QED
    BY <2>1, <2>2 DEF Loop!Next
<1> QED
  BY <1>1, LoopInvariant, PTL DEF Loop!Spec, Loop!SearchShrinks
=============================================================================
