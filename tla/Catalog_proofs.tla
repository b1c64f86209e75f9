--------------------------- MODULE Catalog_proofs ---------------------------
(***************************************************************************)
(* The two definitions of a table agree, and what is listed has columns;   *)
(* what HOLD and FREE count on a column, and what statements and commits   *)
(* leave of the rows a query finds: for any tables, columns, definitions   *)
(* and bounds, and any number of references.                               *)
(***************************************************************************)
EXTENDS Catalog, WellFoundedInduction, TLAPS

MemColumn == [name : ColumnNames, temp : BOOLEAN, ref : Int, held : Int]
Entry == [cols : Seq(MemColumn), ref : Int, persistent : BOOLEAN, rows : Nat, lone : BOOLEAN]

(* What ColumnsAgree says of one table.                                    *)
AgreesWith(entry, rows) ==
  \/ Plain(entry.cols) = rows
  \/ ~entry.persistent /\ \A i \in DOMAIN entry.cols : entry.cols[i].temp

HasPermanent(cols) == \E i \in DOMAIN cols : ~cols[i].temp

Typed ==
  /\ columns \in [Tables -> Seq(Column)]
  /\ saved \in [Tables -> Nat]
  /\ DOMAIN listed \subseteq Tables
  /\ temporaries \in BOOLEAN

CacheInv ==
  /\ DOMAIN cache \subseteq Tables
  /\ \A t \in DOMAIN cache : /\ cache[t] \in Entry
                             /\ AgreesWith(cache[t], columns[t])
                             /\ cache[t].persistent \/ temporaries

(* Without temporary tables a table that has columns has one that is not   *)
(* temporary, and only such a table is listed: FREE leaves it that one.    *)
ListedInv ==
  ~temporaries =>
    /\ \A t \in DOMAIN listed : ~listed[t]
    /\ \A t \in Tables : /\ t \in DOMAIN listed <=> columns[t] # <<>>
                         /\ columns[t] # <<>> => HasPermanent(columns[t])

CatalogInv == Typed /\ CacheInv /\ ListedInv
-----------------------------------------------------------------------------
(* Reading the columns again gives columns, and those of the rows.         *)
LEMMA ReadColumnsAgree ==
  ASSUME NEW rows \in Seq(Column), NEW old \in Seq(MemColumn)
  PROVE  /\ ReadColumns(rows, old) \in Seq(MemColumn)
         /\ Plain(ReadColumns(rows, old)) = rows
<1>1. \A i \in DOMAIN rows : rows[i] \in Column
  OBVIOUS
<1>2. \A i \in DOMAIN rows :
        /\ ReadColumns(rows, old)[i] \in MemColumn
        /\ ReadColumns(rows, old)[i].name = rows[i].name
        /\ ReadColumns(rows, old)[i].temp = rows[i].temp
  <2> TAKE i \in DOMAIN rows
  <2>1. i \in DOMAIN old => old[i] \in MemColumn
    OBVIOUS
  <2>2. i \in DOMAIN old => old[i].held \in Int
    BY <2>1 DEF MemColumn
  <2> QED
    BY <1>1, <2>2 DEF ReadColumns, Fresh, MemColumn, Column
<1>3. DOMAIN ReadColumns(rows, old) = 1 .. Len(rows)
  BY DEF ReadColumns
<1>4. ReadColumns(rows, old) \in Seq(MemColumn)
  <2>1. ReadColumns(rows, old) \in [1 .. Len(rows) -> MemColumn]
    BY <1>2, <1>3 DEF ReadColumns
  <2> QED
    BY <2>1
<1>5. Plain(ReadColumns(rows, old)) = rows
  <2>1. \A i \in DOMAIN rows : [name |-> rows[i].name, temp |-> rows[i].temp] = rows[i]
    BY <1>1 DEF Column
  <2>2. Plain(ReadColumns(rows, old)) = [i \in DOMAIN rows |-> rows[i]]
    BY <1>2, <1>3, <2>1 DEF Plain
  <2> QED
    BY <2>2
<1> QED
  BY <1>4, <1>5

(* So does the array CREATE makes from a definition.                       *)
LEMMA FreshColumns ==
  ASSUME NEW def \in Seq(Column)
  PROVE  LET cols == [i \in DOMAIN def |-> Fresh(def[i])]
         IN cols \in Seq(MemColumn) /\ Plain(cols) = def
<1> DEFINE cols == [i \in DOMAIN def |-> Fresh(def[i])]
<1>0. \A i \in DOMAIN def : def[i] \in Column
  OBVIOUS
<1>1. cols \in [1 .. Len(def) -> MemColumn]
  BY <1>0 DEF Fresh, MemColumn, Column
<1>2. \A i \in DOMAIN def : [name |-> def[i].name, temp |-> def[i].temp] = def[i]
  BY <1>0 DEF Column
<1>3. Plain(cols) = [i \in DOMAIN def |-> def[i]]
  BY <1>1, <1>2 DEF Plain, Fresh
<1> QED
  BY <1>1, <1>3

(* A change of counts alone leaves a definition as it is.                  *)
LEMMA SameColumns ==
  ASSUME NEW old \in Seq(MemColumn), NEW new, DOMAIN new = DOMAIN old,
         new = [i \in DOMAIN old |-> new[i]],
         \A i \in DOMAIN old : /\ new[i] \in MemColumn
                               /\ new[i].name = old[i].name /\ new[i].temp = old[i].temp
  PROVE  /\ new \in Seq(MemColumn) /\ Plain(new) = Plain(old)
         /\ \A i \in DOMAIN new : new[i].temp = old[i].temp
<1>1. new \in [1 .. Len(old) -> MemColumn]
  OBVIOUS
<1>2. Plain(new) = Plain(old)
  BY DEF Plain
<1> QED
  BY <1>1, <1>2

(* What get_table gives is typed and defined as `_Columns` says.           *)
LEMMA GetAgrees ==
  ASSUME Typed, CacheInv, NEW t \in Tables
  PROVE  /\ Get(t) \in Entry
         /\ AgreesWith(Get(t), columns[t])
         /\ Get(t).persistent \/ temporaries
         /\ CanGet(t) => Get(t).cols # <<>>
<1>1. CASE InMemory(t)
  BY <1>1 DEF CacheInv, Get, InMemory
<1>2. CASE ~InMemory(t)
  <2>1. /\ ReadColumns(columns[t], <<>>) \in Seq(MemColumn)
        /\ Plain(ReadColumns(columns[t], <<>>)) = columns[t]
    <3>1. columns[t] \in Seq(Column) /\ <<>> \in Seq(MemColumn)
      BY DEF Typed
    <3> QED
      BY <3>1, ReadColumnsAgree
  <2>2. Get(t) = Loaded(t)
    BY <1>2 DEF Get
  <2>3. Loaded(t) \in Entry /\ AgreesWith(Loaded(t), columns[t]) /\ Loaded(t).persistent
    BY <2>1 DEF Loaded, Table, Entry, AgreesWith, Typed
  <2>4. CanGet(t) => columns[t] # <<>>
    BY <1>2 DEF CanGet
  <2>5. Loaded(t).cols = <<>> => columns[t] = <<>>
    BY DEF Loaded, Table, ReadColumns, Typed
  <2> QED
    BY <2>2, <2>3, <2>4, <2>5
<1> QED
  BY <1>1, <1>2

(* Most statements change the rows of `_Columns` of one table, and put it  *)
(* in memory or take it out.                                               *)
LEMMA OneTableChanges ==
  ASSUME Typed, CacheInv, NEW t \in Tables,
         \A u \in Tables \ {t} : columns'[u] = columns[u],
         temporaries => temporaries',
         \/ cache' = Without(cache, t)
         \/ \E entry \in Entry : /\ cache' = With(cache, t, entry)
                                 /\ AgreesWith(entry, columns'[t])
                                 /\ entry.persistent \/ temporaries'
  PROVE  CacheInv'
<1>1. ASSUME NEW u \in DOMAIN cache, u # t
      PROVE  /\ cache[u] \in Entry
             /\ AgreesWith(cache[u], columns'[u])
             /\ cache[u].persistent \/ temporaries'
  <2>1. columns'[u] = columns[u]
    BY <1>1 DEF CacheInv
  <2> QED
    BY <1>1, <2>1 DEF CacheInv
<1>2. CASE cache' = Without(cache, t)
  BY <1>1, <1>2 DEF CacheInv, Without
<1>3. CASE \E entry \in Entry : /\ cache' = With(cache, t, entry)
                                /\ AgreesWith(entry, columns'[t])
                                /\ entry.persistent \/ temporaries'
  <2>1. PICK entry \in Entry : /\ cache' = With(cache, t, entry)
                               /\ AgreesWith(entry, columns'[t])
                               /\ entry.persistent \/ temporaries'
    BY <1>3
  <2>2. DOMAIN cache' = DOMAIN cache \cup {t}
    BY <2>1 DEF With
  <2>3. \A u \in DOMAIN cache' : cache'[u] = IF u = t THEN entry ELSE cache[u]
    BY <2>1 DEF With
  <2>4. DOMAIN cache' \subseteq Tables
    BY <2>2 DEF CacheInv
  <2>5. \A u \in DOMAIN cache' : /\ cache'[u] \in Entry
                                 /\ AgreesWith(cache'[u], columns'[u])
                                 /\ cache'[u].persistent \/ temporaries'
    <3> TAKE u \in DOMAIN cache'
    <3>1. CASE u = t
      <4>1. cache'[u] = entry
        BY <2>3, <3>1
      <4>2. /\ cache'[u] \in Entry
            /\ AgreesWith(cache'[u], columns'[t])
            /\ cache'[u].persistent \/ temporaries'
        BY <2>1, <4>1
      <4> QED
        BY <3>1, <4>2
    <3>2. CASE u # t
      <4>1. u \in DOMAIN cache /\ cache'[u] = cache[u]
        BY <2>2, <2>3, <3>2
      <4>2. /\ cache[u] \in Entry
            /\ AgreesWith(cache[u], columns'[u])
            /\ cache[u].persistent \/ temporaries'
        BY <1>1, <3>2, <4>1
      <4> QED
        BY <4>1, <4>2
    <3> QED
      BY <3>1, <3>2
  <2> QED
    BY <2>4, <2>5 DEF CacheInv, AgreesWith
<1> QED
  BY <1>2, <1>3

-----------------------------------------------------------------------------
(* Counts do not matter to a column.                                       *)
LEMMA CountsOfColumn ==
  ASSUME NEW col \in MemColumn, NEW ref \in Int, NEW held \in Int
  PROVE  /\ Counted(col, ref, held) \in MemColumn
         /\ Counted(col, ref, held).name = col.name
         /\ Counted(col, ref, held).temp = col.temp
BY DEF MemColumn, Counted

(* HOLD counts, and FREE counts down, and neither touches a definition.    *)
LEMMA AddRefAgrees ==
  ASSUME NEW entry \in Entry, NEW rows, AgreesWith(entry, rows)
  PROVE  /\ AddRef(entry) \in Entry /\ AgreesWith(AddRef(entry), rows)
         /\ AddRef(entry).persistent = entry.persistent
<1> DEFINE old == entry.cols
           new == HeldColumns(old)
<1>1. old \in Seq(MemColumn)
  BY DEF Entry
<1>2. \A i \in DOMAIN old : /\ new[i] \in MemColumn
                            /\ new[i].name = old[i].name /\ new[i].temp = old[i].temp
  <2> TAKE i \in DOMAIN old
  <2>1. old[i] \in MemColumn
    BY <1>1
  <2>2. CASE ~old[i].temp
    BY <2>1, <2>2 DEF HeldColumns
  <2>3. CASE old[i].temp
    <3>1. new[i] = Counted(old[i], old[i].ref + 1, old[i].held + 1)
      BY <2>3 DEF HeldColumns
    <3>2. old[i].ref + 1 \in Int /\ old[i].held + 1 \in Int
      BY <2>1 DEF MemColumn
    <3> QED
      BY <2>1, <3>1, <3>2, CountsOfColumn
  <2> QED
    BY <2>2, <2>3
<1>3. DOMAIN new = DOMAIN old /\ new = [i \in DOMAIN old |-> new[i]]
  BY DEF HeldColumns
<1>4. AddRef(entry) = [entry EXCEPT !.ref = entry.ref + 1, !.cols = new]
  BY DEF AddRef
<1> HIDE DEF new
<1>5. new \in Seq(MemColumn) /\ Plain(new) = Plain(old)
  BY <1>1, <1>2, <1>3, SameColumns
<1>6. AddRef(entry) \in Entry /\ AddRef(entry).cols = new /\ AddRef(entry).persistent = entry.persistent
  <2>1. entry.ref + 1 \in Int
    BY DEF Entry
  <2> QED
    BY <1>4, <1>5, <2>1 DEF Entry
<1> QED
  BY <1>2, <1>3, <1>5, <1>6 DEF AgreesWith

LEMMA ReleasedAgrees ==
  ASSUME NEW cols \in Seq(MemColumn)
  PROVE  /\ Released(cols) \in Seq(MemColumn) /\ Plain(Released(cols)) = Plain(cols)
         /\ DOMAIN Released(cols) = DOMAIN cols
         /\ \A i \in DOMAIN cols : Released(cols)[i].temp = cols[i].temp
<1> DEFINE new == Released(cols)
<1>1. \A i \in DOMAIN cols : cols[i] \in MemColumn
  OBVIOUS
<1>2. \A i \in DOMAIN cols : /\ new[i] \in MemColumn
                             /\ new[i].name = cols[i].name /\ new[i].temp = cols[i].temp
  <2> TAKE i \in DOMAIN cols
  <2> DEFINE ref == IF Exhausted(cols) = 0 \/ i <= Exhausted(cols) THEN cols[i].ref - 1 ELSE cols[i].ref
  <2>1. CASE ~cols[i].temp
    BY <1>1, <2>1 DEF Released
  <2>2. CASE cols[i].temp
    <3>1. new[i] = Counted(cols[i], ref, cols[i].held - 1)
      BY <2>2 DEF Released
    <3>2. ref \in Int /\ cols[i].held - 1 \in Int
      BY <1>1 DEF MemColumn
    <3> HIDE DEF ref
    <3> QED
      BY <1>1, <3>1, <3>2, CountsOfColumn
  <2> QED
    BY <2>1, <2>2
<1>3. DOMAIN new = DOMAIN cols /\ new = [i \in DOMAIN cols |-> new[i]]
  BY DEF Released
<1> HIDE DEF new
<1>4. new \in Seq(MemColumn) /\ Plain(new) = Plain(cols)
  BY <1>2, <1>3, SameColumns
<1> QED
  BY <1>2, <1>3, <1>4 DEF new

-----------------------------------------------------------------------------
(* One step for each statement: what it makes of the definitions.          *)
LEMMA OpenKeeps ==
  ASSUME CatalogInv, NEW t \in Tables, Open(t)
  PROVE  CatalogInv'
<1>1. CacheInv'
  <2>1. columns' = columns /\ temporaries' = temporaries
    BY DEF Open
  <2>2. cache' = Without(cache, t) \/ cache' = With(cache, t, Get(t))
    BY DEF Open
  <2>3. Get(t) \in Entry /\ AgreesWith(Get(t), columns'[t]) /\ (Get(t).persistent \/ temporaries')
    BY <2>1, GetAgrees DEF CatalogInv
  <2> QED
    BY <2>1, <2>2, <2>3, OneTableChanges DEF CatalogInv
<1> QED
  BY <1>1 DEF CatalogInv, Typed, ListedInv, Open

LEMMA SetRowsKeeps ==
  ASSUME CatalogInv, NEW t \in Tables, NEW n \in Nat, SetRows(t, n)
  PROVE  CatalogInv'
<1> DEFINE new == [Get(t) EXCEPT !.rows = n]
<1>1. columns' = columns /\ temporaries' = temporaries /\ cache' = With(cache, t, new)
  BY DEF SetRows
<1>2. Get(t) \in Entry /\ AgreesWith(Get(t), columns[t]) /\ (Get(t).persistent \/ temporaries)
  BY GetAgrees DEF CatalogInv
<1>3. new \in Entry /\ AgreesWith(new, columns[t]) /\ (new.persistent \/ temporaries)
  BY <1>2 DEF Entry, AgreesWith
<1> HIDE DEF new
<1>4. CacheInv'
  BY <1>1, <1>3, OneTableChanges DEF CatalogInv
<1> QED
  BY <1>4 DEF CatalogInv, Typed, ListedInv, SetRows

LEMMA HoldKeeps ==
  ASSUME CatalogInv, NEW t \in Tables, Hold(t)
  PROVE  CatalogInv'
<1>1. columns' = columns /\ temporaries' = temporaries /\ cache' = With(cache, t, AddRef(Get(t)))
  BY DEF Hold
<1>2. Get(t) \in Entry /\ AgreesWith(Get(t), columns[t]) /\ (Get(t).persistent \/ temporaries)
  BY GetAgrees DEF CatalogInv
<1>3. /\ AddRef(Get(t)) \in Entry /\ AgreesWith(AddRef(Get(t)), columns[t])
      /\ AddRef(Get(t)).persistent \/ temporaries
  BY <1>2, AddRefAgrees
<1>4. CacheInv'
  BY <1>1, <1>3, OneTableChanges DEF CatalogInv
<1> QED
  BY <1>4 DEF CatalogInv, Typed, ListedInv, Hold

LEMMA NewTableAgrees ==
  ASSUME NEW def \in Definitions, NEW persistent \in BOOLEAN
  PROVE  /\ def \in Seq(Column) /\ def # <<>>
         /\ NewTable(def, persistent) \in Entry
         /\ NewTable(def, persistent).persistent = persistent
         /\ Plain(NewTable(def, persistent).cols) = def
         /\ IsTemporary(def) =>
              \A i \in DOMAIN NewTable(def, persistent).cols : NewTable(def, persistent).cols[i].temp
<1> DEFINE cols == [i \in DOMAIN def |-> Fresh(def[i])]
<1>1. def \in Seq(Column) /\ def # <<>>
  BY CatalogAssumption
<1>2. cols \in Seq(MemColumn) /\ Plain(cols) = def
  BY <1>1, FreshColumns
<1>3. IsTemporary(def) => \A i \in DOMAIN cols : cols[i].temp
  BY DEF IsTemporary, Fresh
<1> HIDE DEF cols
<1>4. NewTable(def, persistent) =
        [cols |-> cols, ref |-> 1, persistent |-> persistent, rows |-> 0,
         lone |-> Temporary(cols) \subseteq {Len(cols)}]
  BY DEF NewTable, Table, cols
<1>5. NewTable(def, persistent) \in Entry
  BY <1>2, <1>4 DEF Entry
<1> QED
  BY <1>1, <1>2, <1>3, <1>4, <1>5

LEMMA CreateTemporaryKeeps ==
  ASSUME CatalogInv, NEW t \in Tables, NEW def \in Definitions, CreateTemporary(t, def)
  PROVE  CatalogInv'
<1> DEFINE new == NewTable(def, FALSE)
<1>1. new \in Entry /\ new.persistent = FALSE /\ \A i \in DOMAIN new.cols : new.cols[i].temp
  BY NewTableAgrees DEF CreateTemporary
<1>2. columns' = columns /\ temporaries' = TRUE /\ cache' = With(cache, t, new)
  BY DEF CreateTemporary
<1>3. AgreesWith(new, columns'[t])
  BY <1>1 DEF AgreesWith
<1> HIDE DEF new
<1>4. CacheInv'
  BY <1>1, <1>2, <1>3, OneTableChanges DEF CatalogInv
<1>5. Typed'
  BY DEF CatalogInv, Typed, CreateTemporary, With
<1> QED
  BY <1>2, <1>4, <1>5 DEF CatalogInv, ListedInv

LEMMA CreateKeeps ==
  ASSUME CatalogInv, NEW t \in Tables, NEW def \in Definitions, Create(t, def)
  PROVE  CatalogInv'
<1> DEFINE new == NewTable(def, TRUE)
<1>1. new \in Entry /\ new.persistent = TRUE /\ Plain(new.cols) = def
      /\ def \in Seq(Column) /\ def # <<>>
  BY NewTableAgrees
<1>2. /\ columns' = [columns EXCEPT ![t] = def] /\ temporaries' = temporaries
      /\ cache' = With(cache, t, new) /\ listed' = With(listed, t, FALSE) /\ saved' = saved
  BY DEF Create
<1>3. Typed'
  BY <1>1, <1>2 DEF CatalogInv, Typed, With
<1>4. columns'[t] = def /\ \A u \in Tables \ {t} : columns'[u] = columns[u]
  BY <1>2 DEF CatalogInv, Typed
<1>5. AgreesWith(new, columns'[t])
  BY <1>1, <1>4 DEF AgreesWith
<1> HIDE DEF new
<1>6. CacheInv'
  BY <1>1, <1>2, <1>4, <1>5, OneTableChanges DEF CatalogInv
<1>7. HasPermanent(def)
  BY DEF Create, IsTemporary, HasPermanent
<1>8. ListedInv'
  BY <1>1, <1>2, <1>4, <1>7 DEF CatalogInv, ListedInv, With
<1> QED
  BY <1>3, <1>6, <1>8 DEF CatalogInv

LEMMA CreateFailsKeeps ==
  ASSUME CatalogInv, NEW t \in Tables, NEW def \in Definitions, CreateFails(t, def)
  PROVE  CatalogInv'
<1>1. t \notin DOMAIN listed /\ columns[t] # <<>> /\ temporaries' = temporaries
  BY DEF CreateFails
<1>2. temporaries
  BY <1>1 DEF CatalogInv, ListedInv
<1>3. ListedInv'
  BY <1>1, <1>2 DEF ListedInv
<1>4. CacheInv'
  BY DEF CatalogInv, CacheInv, CreateFails
<1>5. Typed'
  BY DEF CatalogInv, Typed, CreateFails, With
<1> QED
  BY <1>3, <1>4, <1>5 DEF CatalogInv

(* The column whose count comes to 0 first is a temporary one.             *)
LEMMA ExhaustedIsTemporary ==
  ASSUME NEW cols \in Seq(MemColumn), Exhausted(cols) # 0
  PROVE  Exhausted(cols) \in Temporary(cols)
<1> DEFINE at0 == {i \in Temporary(cols) : cols[i].ref = 1}
<1>1. at0 # {} /\ Exhausted(cols) = CHOOSE i \in at0 : \A j \in at0 : i <= j
  BY DEF Exhausted
<1>2. at0 \subseteq Nat
  BY DEF Temporary
<1> HIDE DEF at0
<1>3. PICK i \in at0 : \A j \in at0 : ~ (<<j, i>> \in OpToRel(<, Nat))
  BY <1>1, <1>2, NatLessThanWellFounded, WFMin, Zenon
<1>4. \A j \in at0 : i <= j
  <2>1. ASSUME NEW j \in at0, j < i
        PROVE  FALSE
    <3>1. i \in Nat /\ j \in Nat
      BY <1>2
    <3>2. <<j, i>> \in OpToRel(<, Nat)
      BY <2>1, <3>1, Zenon DEF OpToRel
    <3> QED
      BY <1>3, <3>2
  <2> QED
    BY <1>2, <2>1
<1>5. Exhausted(cols) \in at0
  BY <1>1, <1>4
<1> QED
  BY <1>5 DEF at0

LEMMA FreedAgrees ==
  ASSUME CatalogInv, NEW t \in Tables, CanGet(t), Removed(t) \in {0, Len(columns[t])}
  PROVE  /\ ColumnsLeft(t) \in Seq(Column)
         /\ Freed(t) \in Entry /\ AgreesWith(Freed(t), ColumnsLeft(t))
         /\ Freed(t).persistent \/ temporaries
<1>1. /\ Get(t) \in Entry /\ AgreesWith(Get(t), columns[t])
      /\ Get(t).persistent \/ temporaries
  BY GetAgrees DEF CatalogInv
<1> DEFINE old == Get(t).cols
           new == IF Removed(t) = 0 THEN Released(old) ELSE ReadColumns(ColumnsLeft(t), Released(old))
<1>2. old \in Seq(MemColumn) /\ Get(t).ref - 1 \in Int /\ columns[t] \in Seq(Column)
  BY <1>1 DEF Entry, CatalogInv, Typed
<1>3. /\ Released(old) \in Seq(MemColumn) /\ Plain(Released(old)) = Plain(old)
      /\ DOMAIN Released(old) = DOMAIN old
      /\ \A i \in DOMAIN old : Released(old)[i].temp = old[i].temp
  BY <1>2, ReleasedAgrees
<1>4. ColumnsLeft(t) \in Seq(Column)
  <2>1. Removed(t) # 0 => columns[t] # <<>>
    BY DEF Removed
  <2>2. columns[t] # <<>> => SubSeq(columns[t], 1, Len(columns[t]) - 1) \in Seq(Column)
    BY <1>2
  <2> QED
    BY <1>2, <2>1, <2>2 DEF ColumnsLeft
<1>5. new \in Seq(MemColumn) /\ (Removed(t) # 0 => Plain(new) = ColumnsLeft(t))
  BY <1>3, <1>4, ReadColumnsAgree
<1>6. Freed(t) = [Get(t) EXCEPT !.ref = Get(t).ref - 1, !.cols = new]
  BY DEF Freed
<1>7. Freed(t) \in Entry /\ Freed(t).cols = new /\ Freed(t).persistent = Get(t).persistent
  <2> HIDE DEF new
  <2> QED
    BY <1>1, <1>2, <1>5, <1>6 DEF Entry
<1>8. AgreesWith(Freed(t), ColumnsLeft(t))
  <2>1. CASE Removed(t) = 0
    BY <1>1, <1>3, <1>7, <2>1 DEF AgreesWith, ColumnsLeft
  <2>2. CASE Removed(t) # 0
    BY <1>5, <1>7, <2>2 DEF AgreesWith
  <2> QED
    BY <2>1, <2>2
<1> QED
  BY <1>1, <1>4, <1>7, <1>8

(* Without temporary tables the last column can go, and one that is not    *)
(* temporary stays.                                                        *)
LEMMA FreedHasColumns ==
  ASSUME CatalogInv, NEW t \in Tables, CanGet(t), ~temporaries,
         Removed(t) \in {0, Len(columns[t])}
  PROVE  columns[t] # <<>> /\ HasPermanent(ColumnsLeft(t)) /\ ColumnsLeft(t) # <<>>
<1>1. /\ Get(t) \in Entry /\ AgreesWith(Get(t), columns[t])
      /\ Get(t).persistent /\ Get(t).cols # <<>>
  BY GetAgrees DEF CatalogInv
<1> DEFINE cols == Get(t).cols
<1>2. cols \in Seq(MemColumn) /\ Plain(cols) = columns[t] /\ columns[t] \in Seq(Column)
  BY <1>1 DEF Entry, AgreesWith, CatalogInv, Typed
<1>3. DOMAIN cols = DOMAIN columns[t] /\ \A i \in DOMAIN cols : columns[t][i].temp = cols[i].temp
  BY <1>2 DEF Plain
<1>4. columns[t] # <<>>
  BY <1>1, <1>2, <1>3
<1>5. PICK k \in DOMAIN columns[t] : ~columns[t][k].temp
  BY <1>4 DEF CatalogInv, ListedInv, HasPermanent
<1>6. CASE Removed(t) = 0
  BY <1>4, <1>5, <1>6 DEF ColumnsLeft, HasPermanent
<1>7. CASE Removed(t) # 0
  <2>1. Removed(t) = Len(columns[t]) /\ Exhausted(cols) = Len(columns[t]) /\ Exhausted(cols) # 0
    BY <1>7 DEF Removed
  <2>2. cols[Len(columns[t])].temp /\ Len(columns[t]) \in DOMAIN cols
    BY <1>2, <2>1, ExhaustedIsTemporary DEF Temporary
  <2>3. k \in 1 .. Len(columns[t]) - 1
    BY <1>2, <1>3, <1>5, <2>2
  <2>4. ColumnsLeft(t) = SubSeq(columns[t], 1, Len(columns[t]) - 1)
    BY <1>7 DEF ColumnsLeft
  <2>5. k \in DOMAIN ColumnsLeft(t) /\ ColumnsLeft(t)[k] = columns[t][k]
    BY <1>2, <2>3, <2>4
  <2> QED
    BY <1>4, <1>5, <2>5 DEF HasPermanent
<1> QED
  BY <1>6, <1>7

LEMMA FreeKeeps ==
  ASSUME CatalogInv, NEW t \in Tables, Free(t)
  PROVE  CatalogInv'
<1>1. /\ ColumnsLeft(t) \in Seq(Column)
      /\ Freed(t) \in Entry /\ AgreesWith(Freed(t), ColumnsLeft(t))
      /\ Freed(t).persistent \/ temporaries
  BY FreedAgrees DEF Free
<1>2. /\ columns' = [columns EXCEPT ![t] = ColumnsLeft(t)]
      /\ cache' = Without(cache, t) \/ cache' = With(cache, t, Freed(t))
      /\ listed' = listed /\ saved' = saved /\ temporaries' = temporaries
  BY DEF Free
<1>3. columns'[t] = ColumnsLeft(t) /\ \A u \in Tables \ {t} : columns'[u] = columns[u]
  BY <1>2 DEF CatalogInv, Typed
<1>4. CacheInv'
  BY <1>1, <1>2, <1>3, OneTableChanges DEF CatalogInv
<1>5. Typed'
  BY <1>1, <1>2 DEF CatalogInv, Typed
<1>6. ~temporaries => columns[t] # <<>> /\ HasPermanent(ColumnsLeft(t)) /\ ColumnsLeft(t) # <<>>
  BY FreedHasColumns DEF Free
<1>7. ListedInv'
  BY <1>2, <1>3, <1>6 DEF CatalogInv, ListedInv
<1> QED
  BY <1>4, <1>5, <1>7 DEF CatalogInv

LEMMA AddedColumnsAgree ==
  ASSUME NEW rows \in Seq(Column), NEW old \in Seq(MemColumn), NEW hold \in BOOLEAN
  PROVE  /\ AddedColumns(rows, old, hold) \in Seq(MemColumn)
         /\ Plain(AddedColumns(rows, old, hold)) = rows
<1> DEFINE cols == ReadColumns(rows, old)
           new == AddedColumns(rows, old, hold)
<1>1. cols \in Seq(MemColumn) /\ Plain(cols) = rows
  BY ReadColumnsAgree
<1>2. new = [i \in DOMAIN cols |-> IF hold /\ i = Len(cols) THEN Counted(cols[i], 1, 1) ELSE cols[i]]
  BY DEF AddedColumns
<1> HIDE DEF cols, new
<1>3. \A i \in DOMAIN cols : /\ new[i] \in MemColumn
                             /\ new[i].name = cols[i].name /\ new[i].temp = cols[i].temp
  BY <1>1, <1>2, CountsOfColumn
<1>4. DOMAIN new = DOMAIN cols /\ new = [i \in DOMAIN cols |-> new[i]]
  BY <1>2
<1>5. new \in Seq(MemColumn) /\ Plain(new) = Plain(cols)
  BY <1>1, <1>3, <1>4, SameColumns
<1> QED
  BY <1>1, <1>5 DEF new

LEMMA AddKeeps ==
  ASSUME CatalogInv, NEW t \in Tables, NEW col \in Addable, NEW hold \in BOOLEAN, Add(t, col, hold)
  PROVE  CatalogInv'
<1> DEFINE rows == Append(columns[t], col)
           held == HeldFirst(t, hold)
           cols == AddedColumns(rows, held.cols, hold)
           lone == held.lone /\ Temporary(Get(t).cols) = {}
<1>1. /\ Get(t) \in Entry /\ AgreesWith(Get(t), columns[t])
      /\ Get(t).persistent \/ temporaries
      /\ Get(t).cols # <<>>
  BY GetAgrees DEF CatalogInv, Add
<1>2. columns[t] \in Seq(Column) /\ col \in Column
  BY CatalogAssumption DEF CatalogInv, Typed
<1>3. rows \in Seq(Column)
  BY <1>2
<1>4. held \in Entry /\ held.persistent = Get(t).persistent
  BY <1>1, AddRefAgrees DEF HeldFirst
<1>5. /\ columns' = [columns EXCEPT ![t] = rows] /\ listed' = listed
      /\ saved' = saved /\ temporaries' = temporaries
  BY DEF Add
<1>6. columns'[t] = rows /\ \A u \in Tables \ {t} : columns'[u] = columns[u]
  BY <1>5 DEF CatalogInv, Typed
<1>7. cols \in Seq(MemColumn) /\ Plain(cols) = rows
  <2>1. held.cols \in Seq(MemColumn)
    BY <1>4 DEF Entry
  <2> QED
    BY <1>3, <2>1, AddedColumnsAgree
<1> DEFINE new == [held EXCEPT !.lone = lone, !.cols = cols]
<1>8. cache' = With(cache, t, new)
  BY <1>6 DEF Add
<1>9. new \in Entry /\ new.cols = cols /\ new.persistent = held.persistent
  <2>1. lone \in BOOLEAN
    BY <1>4 DEF Entry
  <2> HIDE DEF held, cols, lone
  <2> QED
    BY <1>4, <1>7, <2>1 DEF Entry
<1> HIDE DEF held, cols, lone, new, rows
<1>10. CacheInv'
  <2>1. AgreesWith(new, columns'[t])
    BY <1>6, <1>7, <1>9 DEF AgreesWith
  <2>2. new.persistent \/ temporaries'
    BY <1>1, <1>4, <1>5, <1>9
  <2> QED
    BY <1>5, <1>6, <1>8, <1>9, <2>1, <2>2, OneTableChanges DEF CatalogInv
<1>11. Typed'
  BY <1>3, <1>5 DEF CatalogInv, Typed
<1>12. ListedInv'
  <2> SUFFICES ASSUME ~temporaries
               PROVE  ListedInv'
    BY <1>5 DEF ListedInv
  <2>1. columns[t] = Plain(Get(t).cols)
    BY <1>1 DEF AgreesWith
  <2>2. columns[t] # <<>>
    BY <1>1, <1>2, <2>1 DEF Plain, Entry
  <2>3. PICK k \in DOMAIN columns[t] : ~columns[t][k].temp
    BY <2>2 DEF CatalogInv, ListedInv, HasPermanent
  <2>4. rows # <<>> /\ HasPermanent(rows)
    BY <1>2, <2>3 DEF HasPermanent, rows
  <2> QED
    BY <1>5, <1>6, <2>2, <2>4 DEF CatalogInv, ListedInv
<1> QED
  BY <1>10, <1>11, <1>12 DEF CatalogInv

LEMMA DropKeeps ==
  ASSUME CatalogInv, NEW t \in Tables, Drop(t)
  PROVE  CatalogInv'
<1> DEFINE new == [Get(t) EXCEPT !.cols = <<>>]
<1>1. Get(t) \in Entry /\ (Get(t).persistent \/ temporaries)
  BY GetAgrees DEF CatalogInv
<1>2. new \in Entry /\ new.cols = <<>> /\ new.persistent = Get(t).persistent
  <2>1. <<>> \in Seq(MemColumn)
    OBVIOUS
  <2> QED
    BY <1>1, <2>1 DEF Entry
<1>3. /\ columns' = [columns EXCEPT ![t] = <<>>] /\ listed' = Without(listed, t)
      /\ cache' = Without(cache, t) \/ cache' = With(cache, t, new)
      /\ saved' = saved /\ temporaries' = temporaries
  BY DEF Drop
<1> HIDE DEF new
<1>4. columns'[t] = <<>> /\ \A u \in Tables \ {t} : columns'[u] = columns[u]
  BY <1>3 DEF CatalogInv, Typed
<1>5. AgreesWith(new, columns'[t])
  <2>1. Plain(new.cols) = <<>>
    BY <1>2 DEF Plain
  <2> QED
    BY <1>4, <2>1 DEF AgreesWith
<1>6. CacheInv'
  BY <1>1, <1>2, <1>3, <1>4, <1>5, OneTableChanges DEF CatalogInv
<1>7. Typed'
  BY <1>3 DEF CatalogInv, Typed, Without
<1>8. ListedInv'
  BY <1>3, <1>4 DEF CatalogInv, ListedInv, Without
<1> QED
  BY <1>6, <1>7, <1>8 DEF CatalogInv

(* A commit writes all of `_Tables` if nothing in it is temporary, and the *)
(* tables it reads again have the columns they had in `_Columns`.          *)
LEMMA CommitKeeps ==
  ASSUME CatalogInv, Commit
  PROVE  CatalogInv'
<1>1. /\ listed' = [t \in ListedPrefix |-> FALSE]
      /\ saved' = [t \in Tables |-> IF t \in DOMAIN cache /\ cache[t].persistent THEN cache[t].rows ELSE 0]
      /\ cache' = [t \in {u \in Tables : saved'[u] > 0} |->
                     Table(ReadColumns(columns[t], <<>>), 0, TRUE, saved'[t])]
      /\ columns' = columns /\ temporaries' = temporaries
  BY DEF Commit
<1>2. saved' \in [Tables -> Nat]
  BY <1>1 DEF CatalogInv, CacheInv, Entry
<1>3. Typed'
  BY <1>1, <1>2 DEF CatalogInv, Typed, ListedPrefix
<1>4. CacheInv'
  <2>1. DOMAIN cache' \subseteq Tables
    BY <1>1
  <2>2. ASSUME NEW t \in DOMAIN cache'
        PROVE  cache'[t] \in Entry /\ AgreesWith(cache'[t], columns'[t]) /\ cache'[t].persistent
    <3>1. t \in Tables /\ columns[t] \in Seq(Column) /\ <<>> \in Seq(MemColumn)
      BY <2>1 DEF CatalogInv, Typed
    <3>2. /\ ReadColumns(columns[t], <<>>) \in Seq(MemColumn)
          /\ Plain(ReadColumns(columns[t], <<>>)) = columns[t]
      BY <3>1, ReadColumnsAgree
    <3>3. cache'[t] = Table(ReadColumns(columns[t], <<>>), 0, TRUE, saved'[t])
      BY <1>1
    <3>4. saved'[t] \in Nat
      BY <1>2, <3>1
    <3>5. /\ cache'[t].cols = ReadColumns(columns[t], <<>>) /\ cache'[t].persistent = TRUE
          /\ cache'[t] \in Entry
      BY <3>2, <3>3, <3>4 DEF Table, Entry
    <3> QED
      BY <1>1, <3>2, <3>5 DEF AgreesWith
  <2> QED
    BY <2>1, <2>2 DEF CacheInv, AgreesWith
<1>5. ListedInv'
  <2> SUFFICES ASSUME ~temporaries
               PROVE  ListedInv'
    BY <1>1 DEF ListedInv
  <2>1. ListedPrefix = DOMAIN listed
    BY DEF ListedPrefix, CatalogInv, ListedInv
  <2> QED
    BY <1>1, <2>1 DEF CatalogInv, ListedInv
<1> QED
  BY <1>3, <1>4, <1>5 DEF CatalogInv

(* The database a file holds: columns that are not temporary, of the       *)
(* tables that are listed, and in memory as they are loaded.               *)
LEMMA InitHolds == Init => CatalogInv
<1> SUFFICES ASSUME Init
             PROVE  CatalogInv
  OBVIOUS
<1>1. PICK defined \in SUBSET Tables, def \in {d \in Definitions : Len(d) = 1 /\ ~IsTemporary(d)} :
        /\ listed = [t \in defined |-> FALSE]
        /\ columns = [t \in Tables |-> IF t \in defined THEN def ELSE <<>>]
        /\ \E filled \in SUBSET (defined \cap Altered) :
             /\ saved = [t \in Tables |-> IF t \in filled THEN 1 ELSE 0]
             /\ cache = [t \in filled |-> Table(ReadColumns(def, <<>>), 0, TRUE, 1)]
  BY DEF Init
<1>2. PICK filled \in SUBSET (defined \cap Altered) :
        /\ saved = [t \in Tables |-> IF t \in filled THEN 1 ELSE 0]
        /\ cache = [t \in filled |-> Table(ReadColumns(def, <<>>), 0, TRUE, 1)]
  BY <1>1
<1>3. def \in Seq(Column) /\ def # <<>> /\ <<>> \in Seq(Column) /\ <<>> \in Seq(MemColumn)
  BY CatalogAssumption
<1>4. HasPermanent(def)
  BY DEF IsTemporary, HasPermanent
<1>5. temporaries = FALSE
  BY DEF Init
<1>6. Typed
  BY <1>1, <1>2, <1>3, <1>5 DEF Typed
<1>7. CacheInv
  <2> DEFINE entry == Table(ReadColumns(def, <<>>), 0, TRUE, 1)
  <2>1. /\ ReadColumns(def, <<>>) \in Seq(MemColumn)
        /\ Plain(ReadColumns(def, <<>>)) = def
    BY <1>3, ReadColumnsAgree
  <2>2. entry \in Entry /\ entry.persistent = TRUE /\ AgreesWith(entry, def)
    BY <2>1 DEF Table, Entry, AgreesWith
  <2> HIDE DEF entry
  <2>3. \A t \in filled : t \in Tables /\ columns[t] = def
    BY <1>1
  <2>4. DOMAIN cache = filled /\ \A t \in filled : cache[t] = entry
    BY <1>2 DEF entry
  <2> QED
    BY <2>2, <2>3, <2>4 DEF CacheInv
<1>8. ListedInv
  BY <1>1, <1>3, <1>4 DEF ListedInv
<1> QED
  BY <1>6, <1>7, <1>8 DEF CatalogInv

(* A statement of ALTER TABLE, an INSERT or a DELETE.                      *)
LEMMA AlterKeeps ==
  ASSUME CatalogInv, NEW t \in Tables, AlterStatement(t)
  PROVE  CatalogInv'
<1>1. CASE SetRows(t, 0)
  BY <1>1, SetRowsKeeps
<1>2. CASE SetRows(t, RowsSeen(t) + 1)
  <2>1. Get(t) \in Entry
    BY GetAgrees DEF CatalogInv
  <2>2. RowsSeen(t) + 1 \in Nat
    BY <2>1 DEF RowsSeen, Entry
  <2> QED
    BY <1>2, <2>2, SetRowsKeeps
<1>3. CASE Hold(t)
  BY <1>3, HoldKeeps
<1>4. CASE Free(t)
  BY <1>4, FreeKeeps
<1>5. CASE FreeUndefined(t)
  BY <1>5 DEF FreeUndefined, CatalogInv, Typed, CacheInv, ListedInv
<1>6. ASSUME NEW col \in Addable, NEW hold \in BOOLEAN, Add(t, col, hold)
      PROVE  CatalogInv'
  BY <1>6, AddKeeps
<1>7. ASSUME NEW col \in Addable, AddRefused(t, col)
      PROVE  CatalogInv'
  BY <1>7, HoldKeeps DEF AddRefused
<1> QED
  BY <1>1, <1>2, <1>3, <1>4, <1>5, <1>6, <1>7 DEF AlterStatement

(* No step of the catalog takes the invariant away.                        *)
LEMMA NextKeeps ==
  ASSUME CatalogInv, [Next]_vars
  PROVE  CatalogInv'
<1>1. ASSUME NEW t \in Altered, AlterStatement(t)
      PROVE  CatalogInv'
  BY <1>1, AlterKeeps, CatalogAssumption
<1>2. ASSUME NEW t \in Tables, Open(t)
      PROVE  CatalogInv'
  BY <1>2, OpenKeeps
<1>3. ASSUME NEW t \in Tables, Drop(t)
      PROVE  CatalogInv'
  BY <1>3, DropKeeps
<1>4. ASSUME NEW t \in Tables, DropUndefined(t)
      PROVE  CatalogInv'
  BY <1>4 DEF DropUndefined, CatalogInv, Typed, CacheInv, ListedInv
<1>5. ASSUME NEW t \in Tables, NEW def \in Definitions,
             CreateTemporary(t, def) \/ Create(t, def) \/ CreateFails(t, def)
      PROVE  CatalogInv'
  BY <1>5, CreateTemporaryKeeps, CreateKeeps, CreateFailsKeeps
<1>6. CASE Commit
  BY <1>6, CommitKeeps
<1>7. CASE CommitStops
  BY <1>7 DEF CommitStops, CatalogInv, Typed, CacheInv, ListedInv
<1>8. CASE UNCHANGED vars
  BY <1>8 DEF vars, CatalogInv, Typed, CacheInv, ListedInv
<1> QED
  BY <1>1, <1>2, <1>3, <1>4, <1>5, <1>6, <1>7, <1>8 DEF Next
-----------------------------------------------------------------------------
(* Every table in memory has the columns its rows in `_Columns` define, or *)
(* is temporary; and while no temporary table was created, what `_Tables`  *)
(* lists is what has columns, at least one of them not temporary.          *)
THEOREM CatalogInvariant == Spec => []CatalogInv
<1>1. Init => CatalogInv
  BY InitHolds
<1>2. CatalogInv /\ [Next]_vars => CatalogInv'
  BY NextKeeps
<1> QED
  BY <1>1, <1>2, PTL DEF Spec

(* msi_update_table_columns (table.c:953) is called wherever rows of       *)
(* `_Columns` come and go: no sequence of CREATE, DROP, ADD, HOLD, FREE and*)
(* commits leaves a table in memory with other columns than its rows.      *)
THEOREM DefinitionsAgree == Spec => []ColumnsAgree
<1>1. CatalogInv => ColumnsAgree
  BY DEF CatalogInv, CacheInv, AgreesWith, ColumnsAgree
<1> QED
  BY <1>1, CatalogInvariant, PTL

(* Unless a temporary table was created, `_Tables` lists a table exactly if*)
(* get_table (table.c:598) can read columns for it.                        *)
THEOREM ListedTablesHaveColumns == Spec => []ListedHaveColumns
<1>1. CatalogInv => ListedHaveColumns
  BY DEF CatalogInv, ListedInv, ListedHaveColumns
<1> QED
  BY <1>1, CatalogInvariant, PTL

-----------------------------------------------------------------------------
(* The counts of the catalog: what HOLD and FREE count on a column, and    *)
(* what statements and commits leave of the rows a query finds.            *)

(* The bounds of the model hold of a table in memory.                      *)
Bounded(entry) ==
  /\ entry.ref \in MinRef .. MaxRef /\ entry.rows \in 0 .. MaxRows
  /\ Len(entry.cols) <= MaxCols

(* A persistent table that never had another temporary column than its     *)
(* last counts for it the HOLDs without a FREE.                            *)
CountsRight(entry) ==
  entry.lone /\ entry.persistent =>
    \A i \in Temporary(entry.cols) : i = Len(entry.cols) /\ entry.cols[i].ref = entry.cols[i].held

Sizes ==
  /\ \A t \in Tables : Len(columns[t]) <= MaxCols
  /\ saved \in [Tables -> 0 .. MaxRows]
  /\ \A t \in DOMAIN cache : Bounded(cache[t])

Counts == \A t \in DOMAIN cache : CountsRight(cache[t])

Names ==
  /\ \A t \in DOMAIN listed : listed[t] \in BOOLEAN
  /\ pinned \subseteq known
  /\ status \in {"ok", "undefined", "lost", "failed"}

CountsInv == CatalogInv /\ Sizes /\ Counts /\ Names
-----------------------------------------------------------------------------
(* One step for each way a table comes to be in memory or is changed there.*)

(* A table as it is loaded counts nothing.                                 *)
LEMMA LoadedCounts ==
  ASSUME NEW rows \in Seq(Column), Len(rows) <= MaxCols, NEW n \in 0 .. MaxRows
  PROVE  LET entry == Table(ReadColumns(rows, <<>>), 0, TRUE, n)
         IN Bounded(entry) /\ CountsRight(entry)
<1> DEFINE cols == ReadColumns(rows, <<>>)
           entry == Table(cols, 0, TRUE, n)
<1>1. DOMAIN cols = 1 .. Len(rows) /\ \A i \in 1 .. Len(rows) : cols[i].ref = 0 /\ cols[i].held = 0
  BY DEF ReadColumns, Fresh
<1>2. cols \in Seq(MemColumn)
  <2>1. <<>> \in Seq(MemColumn)
    OBVIOUS
  <2> QED
    BY <2>1, ReadColumnsAgree
<1>3. Len(cols) = Len(rows)
  BY <1>1, <1>2
<1> HIDE DEF cols
<1>4. Bounded(entry)
  BY <1>3, CatalogAssumption DEF Bounded, Table, MinRef
<1>5. CountsRight(entry)
  BY <1>1 DEF CountsRight, Table, Temporary
<1> QED
  BY <1>4, <1>5 DEF cols

LEMMA GetCounts ==
  ASSUME CountsInv, NEW t \in Tables
  PROVE  Bounded(Get(t)) /\ CountsRight(Get(t))
<1>1. CASE InMemory(t)
  BY <1>1 DEF Get, InMemory, CountsInv, Sizes, Counts
<1>2. CASE ~InMemory(t)
  <2>1. columns[t] \in Seq(Column) /\ Len(columns[t]) <= MaxCols /\ saved[t] \in 0 .. MaxRows
    BY DEF CountsInv, CatalogInv, Typed, Sizes
  <2>2. Get(t) = Table(ReadColumns(columns[t], <<>>), 0, TRUE, saved[t])
    BY <1>2 DEF Get, Loaded
  <2> QED
    BY <2>1, <2>2, LoadedCounts
<1> QED
  BY <1>1, <1>2

LEMMA NewTableCounts ==
  ASSUME NEW def \in Definitions, NEW persistent \in BOOLEAN
  PROVE  Bounded(NewTable(def, persistent)) /\ CountsRight(NewTable(def, persistent))
<1> DEFINE cols == [i \in DOMAIN def |-> Fresh(def[i])]
<1>1. def \in Seq(Column) /\ Len(def) <= MaxCols
  BY CatalogAssumption
<1>2. cols \in Seq(MemColumn) /\ DOMAIN cols = 1 .. Len(def)
  BY <1>1, FreshColumns
<1>3. \A i \in DOMAIN cols : cols[i].ref = 0 /\ cols[i].held = 0
  BY DEF Fresh
<1>4. Len(cols) = Len(def)
  <2> HIDE DEF cols
  <2> QED
    BY <1>1, <1>2
<1>5. NewTable(def, persistent) = Table(cols, 1, persistent, 0)
  BY DEF NewTable
<1> HIDE DEF cols
<1>6. Bounded(NewTable(def, persistent))
  <2>1. /\ NewTable(def, persistent).cols = cols
        /\ NewTable(def, persistent).ref = 1 /\ NewTable(def, persistent).rows = 0
    BY <1>5 DEF Table
  <2>2. 1 \in MinRef .. MaxRef /\ 0 \in 0 .. MaxRows
    BY CatalogAssumption DEF MinRef
  <2> QED
    BY <1>1, <1>4, <2>1, <2>2 DEF Bounded
<1>7. CountsRight(NewTable(def, persistent))
  <2>1. CountsRight(Table(cols, 1, persistent, 0))
    BY <1>3 DEF CountsRight, Table, Temporary
  <2> QED
    BY <1>5, <2>1
<1> QED
  BY <1>6, <1>7

(* HOLD counts one more on the table and on its temporary columns.         *)
LEMMA AddRefCounts ==
  ASSUME NEW entry \in Entry, Bounded(entry), CountsRight(entry), entry.ref < MaxRef
  PROVE  /\ Bounded(AddRef(entry)) /\ CountsRight(AddRef(entry))
         /\ Len(AddRef(entry).cols) = Len(entry.cols)
         /\ AddRef(entry).rows = entry.rows /\ AddRef(entry).lone = entry.lone
<1> DEFINE old == entry.cols
           new == HeldColumns(old)
<1>1. old \in Seq(MemColumn) /\ \A i \in DOMAIN old : old[i] \in MemColumn
  BY DEF Entry
<1>2. DOMAIN new = DOMAIN old
  BY DEF HeldColumns
<1>3. \A i \in DOMAIN old :
        /\ new[i].temp = old[i].temp
        /\ old[i].temp => new[i].ref = old[i].ref + 1 /\ new[i].held = old[i].held + 1
  BY <1>1 DEF HeldColumns, Counted, MemColumn
<1>4. Temporary(new) = Temporary(old)
  BY <1>2, <1>3 DEF Temporary
<1>5. Len(new) = Len(old)
  <2>1. AddRef(entry) \in Entry
    BY AddRefAgrees DEF AgreesWith
  <2>2. new \in Seq(MemColumn)
    BY <2>1 DEF Entry, AddRef
  <2> QED
    BY <1>1, <1>2, <2>2
<1>6. AddRef(entry) = [entry EXCEPT !.ref = entry.ref + 1, !.cols = new]
  BY DEF AddRef
<1> HIDE DEF new
<1>7. /\ AddRef(entry).cols = new /\ AddRef(entry).ref = entry.ref + 1
      /\ AddRef(entry).rows = entry.rows /\ AddRef(entry).lone = entry.lone
      /\ AddRef(entry).persistent = entry.persistent
  BY <1>6 DEF Entry
<1>8. Bounded(AddRef(entry))
  BY <1>5, <1>7, CatalogAssumption DEF Bounded, MinRef
<1>9. CountsRight(AddRef(entry))
  <2> SUFFICES ASSUME entry.lone, entry.persistent, NEW i \in Temporary(new)
               PROVE  i = Len(new) /\ new[i].ref = new[i].held
    BY <1>7 DEF CountsRight
  <2>1. i \in DOMAIN old /\ old[i].temp
    BY <1>4 DEF Temporary
  <2>2. i = Len(old) /\ old[i].ref = old[i].held
    BY <1>4 DEF CountsRight
  <2> QED
    BY <1>3, <1>5, <2>1, <2>2
<1> QED
  BY <1>5, <1>7, <1>8, <1>9

LEMMA ReleasedCounts ==
  ASSUME NEW cols \in Seq(MemColumn)
  PROVE  /\ Len(Released(cols)) = Len(cols) /\ Temporary(Released(cols)) = Temporary(cols)
         /\ \A i \in Temporary(cols) :
              /\ Released(cols)[i].held = cols[i].held - 1
              /\ Exhausted(cols) \in {0, i} => Released(cols)[i].ref = cols[i].ref - 1
<1> DEFINE new == Released(cols)
<1>1. new \in Seq(MemColumn) /\ DOMAIN new = DOMAIN cols /\ \A i \in DOMAIN cols : new[i].temp = cols[i].temp
  BY ReleasedAgrees
<1>2. Len(new) = Len(cols) /\ Temporary(new) = Temporary(cols)
  <2> HIDE DEF new
  <2> QED
    BY <1>1 DEF Temporary
<1>3. ASSUME NEW i \in Temporary(cols)
      PROVE  /\ new[i].held = cols[i].held - 1
             /\ Exhausted(cols) \in {0, i} => new[i].ref = cols[i].ref - 1
  <2>1. i \in DOMAIN cols /\ cols[i].temp /\ cols[i] \in MemColumn /\ i \in Nat
    BY <1>3 DEF Temporary
  <2> DEFINE ref == IF Exhausted(cols) = 0 \/ i <= Exhausted(cols) THEN cols[i].ref - 1 ELSE cols[i].ref
  <2>2. new[i] = Counted(cols[i], ref, cols[i].held - 1)
    BY <2>1 DEF Released
  <2>3. Exhausted(cols) \in {0, i} => ref = cols[i].ref - 1
    BY <2>1
  <2> HIDE DEF ref, new
  <2>4. new[i].held = cols[i].held - 1 /\ new[i].ref = ref
    BY <2>1, <2>2 DEF Counted, MemColumn
  <2> QED
    BY <2>3, <2>4
<1> QED
  BY <1>2, <1>3

(* The only temporary column of a table comes to 0 exactly if its count is *)
(* 1; and it is in `_Columns`, so it is removed there.                     *)
LEMMA LoneIsRemoved ==
  ASSUME CountsInv, NEW t \in Tables, CanGet(t),
         Get(t).lone, Get(t).persistent
  PROVE  LET cols == Get(t).cols IN
         /\ Len(cols) = Len(columns[t]) /\ Plain(cols) = columns[t] /\ Len(cols) \in Nat \ {0}
         /\ \A i \in Temporary(cols) : i = Len(cols) /\ cols[i].ref = cols[i].held
         /\ Exhausted(cols) = Removed(t)
         /\ Removed(t) \in {0, Len(columns[t])}
         /\ Temporary(cols) # {} => (Removed(t) # 0 <=> cols[Len(cols)].ref = 1)
<1> DEFINE cols == Get(t).cols
<1>1. Get(t) \in Entry /\ AgreesWith(Get(t), columns[t]) /\ cols # <<>>
  BY GetAgrees DEF CountsInv, CatalogInv
<1>2. cols \in Seq(MemColumn) /\ columns[t] \in Seq(Column) /\ Plain(cols) = columns[t]
  BY <1>1 DEF Entry, AgreesWith, CountsInv, CatalogInv, Typed
<1>3. DOMAIN cols = DOMAIN columns[t]
  BY <1>2 DEF Plain
<1>4. Len(cols) = Len(columns[t]) /\ Len(cols) \in Nat \ {0}
  BY <1>1, <1>2, <1>3
<1>5. \A i \in Temporary(cols) : i = Len(cols) /\ cols[i].ref = cols[i].held
  BY GetCounts DEF CountsRight
<1> HIDE DEF cols
<1>6. Exhausted(cols) # 0 => Exhausted(cols) = Len(cols)
  BY <1>2, <1>5, ExhaustedIsTemporary
<1>7. Exhausted(cols) = Removed(t)
  BY <1>2, <1>3, <1>4, <1>6 DEF Removed, cols
<1>8. ASSUME Temporary(cols) # {}
      PROVE  Exhausted(cols) # 0 <=> cols[Len(cols)].ref = 1
  <2> DEFINE at0 == {i \in Temporary(cols) : cols[i].ref = 1}
  <2>1. Temporary(cols) = {Len(cols)}
    BY <1>5, <1>8
  <2>2. CASE cols[Len(cols)].ref = 1
    <3>1. at0 = {Len(cols)}
      BY <2>1, <2>2
    <3>2. Len(cols) <= Len(cols)
      BY <1>4
    <3>3. (CHOOSE i \in at0 : \A j \in at0 : i <= j) = Len(cols)
      BY <3>1, <3>2
    <3> QED
      BY <1>4, <2>2, <3>1, <3>3 DEF Exhausted
  <2>3. CASE cols[Len(cols)].ref # 1
    <3>1. at0 = {}
      BY <2>1, <2>3
    <3> QED
      BY <2>3, <3>1 DEF Exhausted
  <2> QED
    BY <2>2, <2>3
<1> QED
  BY <1>2, <1>4, <1>5, <1>6, <1>7, <1>8 DEF cols

(* FREE: with its column goes what was counted for it.                     *)
LEMMA FreedCounts ==
  ASSUME CountsInv, NEW t \in Tables, CanGet(t), Get(t).ref > MinRef,
         Removed(t) \in {0, Len(columns[t])}
  PROVE  /\ Bounded(Freed(t)) /\ CountsRight(Freed(t))
         /\ Freed(t).rows = Get(t).rows
         /\ Freed(t).cols = <<>> => ColumnsLeft(t) = <<>>
         /\ Len(ColumnsLeft(t)) = Len(columns[t]) - (IF Removed(t) = 0 THEN 0 ELSE 1)
<1> DEFINE old == Get(t).cols
           new == IF Removed(t) = 0 THEN Released(old) ELSE ReadColumns(ColumnsLeft(t), Released(old))
<1>1. /\ Get(t) \in Entry /\ AgreesWith(Get(t), columns[t]) /\ old # <<>>
      /\ Bounded(Get(t)) /\ CountsRight(Get(t))
  BY GetAgrees, GetCounts DEF CountsInv, CatalogInv
<1>2. old \in Seq(MemColumn) /\ columns[t] \in Seq(Column) /\ Len(columns[t]) <= MaxCols
  BY <1>1 DEF Entry, CountsInv, CatalogInv, Typed, Sizes
<1>3. /\ Released(old) \in Seq(MemColumn) /\ Len(Released(old)) = Len(old)
      /\ Temporary(Released(old)) = Temporary(old)
  BY <1>2, ReleasedAgrees, ReleasedCounts
<1>4. /\ ColumnsLeft(t) \in Seq(Column) /\ Freed(t) \in Entry
      /\ Len(ColumnsLeft(t)) = Len(columns[t]) - (IF Removed(t) = 0 THEN 0 ELSE 1)
      /\ Removed(t) # 0 => Len(columns[t]) > 0
  <2>1. Removed(t) # 0 => Len(columns[t]) > 0
    BY <1>2 DEF Removed
  <2> QED
    BY <1>2, <2>1, FreedAgrees DEF ColumnsLeft, CountsInv
<1>5. Freed(t) = [Get(t) EXCEPT !.ref = Get(t).ref - 1, !.cols = new]
  BY DEF Freed
<1>6. Removed(t) # 0 => Len(new) = Len(ColumnsLeft(t)) /\ new \in Seq(MemColumn) /\ Plain(new) = ColumnsLeft(t)
  <2> SUFFICES ASSUME Removed(t) # 0
               PROVE  Len(new) = Len(ColumnsLeft(t)) /\ new \in Seq(MemColumn) /\ Plain(new) = ColumnsLeft(t)
    OBVIOUS
  <2> DEFINE read == ReadColumns(ColumnsLeft(t), Released(old))
  <2>1. read \in Seq(MemColumn) /\ Plain(read) = ColumnsLeft(t)
    BY <1>3, <1>4, ReadColumnsAgree
  <2>2. DOMAIN read = DOMAIN ColumnsLeft(t)
    BY DEF ReadColumns
  <2> HIDE DEF read
  <2>3. Len(read) = Len(ColumnsLeft(t))
    BY <1>4, <2>1, <2>2
  <2> QED
    BY <2>1, <2>3 DEF read
<1>7. Removed(t) = 0 => new = Released(old)
  OBVIOUS
<1> HIDE DEF new
<1>8. /\ Freed(t).cols = new /\ Freed(t).ref = Get(t).ref - 1
      /\ Freed(t).rows = Get(t).rows /\ Freed(t).lone = Get(t).lone
      /\ Freed(t).persistent = Get(t).persistent
  BY <1>1, <1>5 DEF Entry
<1>9. Bounded(Freed(t))
  <2>1. Get(t).ref - 1 \in MinRef .. MaxRef
    BY <1>1, CatalogAssumption DEF Bounded, MinRef
  <2>2. Len(new) <= MaxCols
    BY <1>1, <1>2, <1>3, <1>4, <1>6, <1>7, CatalogAssumption DEF Bounded
  <2> QED
    BY <1>1, <1>8, <2>1, <2>2 DEF Bounded
<1>10. CountsRight(Freed(t))
  <2> SUFFICES ASSUME Get(t).lone, Get(t).persistent, NEW i \in Temporary(new)
               PROVE  i = Len(new) /\ new[i].ref = new[i].held
    BY <1>8 DEF CountsRight
  <2>1. /\ Plain(old) = columns[t] /\ Len(old) = Len(columns[t])
        /\ \A j \in Temporary(old) : j = Len(old) /\ old[j].ref = old[j].held
        /\ Exhausted(old) = Removed(t)
        /\ Temporary(old) # {} => (Removed(t) # 0 <=> old[Len(old)].ref = 1)
    BY LoneIsRemoved
  <2>2. CASE Removed(t) = 0
    <3>1. i \in Temporary(old) /\ new = Released(old)
      BY <1>3, <1>7, <2>2
    <3> QED
      BY <1>2, <1>3, <2>1, <2>2, <3>1, ReleasedCounts
  <2>3. CASE Removed(t) # 0
    <3>1. i \in DOMAIN ColumnsLeft(t) /\ ColumnsLeft(t)[i].temp
      BY <1>6, <2>3 DEF Temporary, Plain
    <3>2. ColumnsLeft(t) = SubSeq(columns[t], 1, Len(columns[t]) - 1)
      BY <2>3 DEF ColumnsLeft
    <3>3. i \in 1 .. Len(columns[t]) - 1 /\ columns[t][i].temp
      BY <1>2, <1>4, <3>1, <3>2
    <3>4. i \in DOMAIN old /\ old[i].temp
      BY <1>2, <2>1, <3>3 DEF Plain
    <3>5. i = Len(old)
      BY <2>1, <3>4 DEF Temporary
    <3> QED
      BY <1>2, <2>1, <3>3, <3>5
  <2> QED
    BY <2>2, <2>3
<1>11. Freed(t).cols = <<>> => ColumnsLeft(t) = <<>>
  <2> SUFFICES ASSUME new = <<>>
               PROVE  ColumnsLeft(t) = <<>>
    BY <1>8
  <2>1. Removed(t) # 0
    BY <1>1, <1>2, <1>3, <1>7
  <2>2. Len(ColumnsLeft(t)) = 0
    BY <1>6, <2>1
  <2> QED
    BY <1>4, <2>2
<1> QED
  BY <1>4, <1>8, <1>9, <1>10, <1>11

(* ALTER TABLE ADD reads the array again, and counts 1 if it holds.        *)
LEMMA AddedCounts ==
  ASSUME NEW rows \in Seq(Column), NEW old \in Seq(MemColumn), NEW hold \in BOOLEAN
  PROVE  LET cols == AddedColumns(rows, old, hold) IN
         /\ Len(cols) = Len(rows) /\ DOMAIN cols = DOMAIN rows
         /\ \A i \in DOMAIN rows : cols[i].temp = rows[i].temp
         /\ Len(rows) \notin DOMAIN old =>
              \A i \in DOMAIN rows : i = Len(rows) => cols[i].ref = cols[i].held
<1> DEFINE read == ReadColumns(rows, old)
           cols == AddedColumns(rows, old, hold)
<1>1. read \in Seq(MemColumn) /\ Plain(read) = rows /\ DOMAIN read = DOMAIN rows
  BY ReadColumnsAgree DEF ReadColumns
<1>2. cols \in Seq(MemColumn) /\ Plain(cols) = rows
  BY AddedColumnsAgree
<1>3. DOMAIN cols = DOMAIN rows /\ \A i \in DOMAIN rows : cols[i].temp = rows[i].temp
  <2> HIDE DEF cols
  <2> QED
    BY <1>2 DEF Plain
<1>4. Len(cols) = Len(rows) /\ Len(read) = Len(rows)
  <2> HIDE DEF cols, read
  <2> QED
    BY <1>1, <1>2, <1>3
<1>5. ASSUME Len(rows) \notin DOMAIN old, NEW i \in DOMAIN rows, i = Len(rows)
      PROVE  cols[i].ref = cols[i].held
  <2>1. read[i].ref = 0 /\ read[i].held = 0
    BY <1>5 DEF ReadColumns, Fresh
  <2>2. cols[i] = IF hold THEN Counted(read[i], 1, 1) ELSE read[i]
    BY <1>1, <1>4, <1>5 DEF AddedColumns
  <2>3. read[i] \in MemColumn
    BY <1>1, <1>5
  <2> HIDE DEF cols, read
  <2> QED
    BY <2>1, <2>2, <2>3 DEF Counted, MemColumn
<1> QED
  BY <1>3, <1>4, <1>5

LEMMA AddCounts ==
  ASSUME CountsInv, NEW t \in Tables, NEW col \in Addable, NEW hold \in BOOLEAN, Add(t, col, hold)
  PROVE  /\ columns' = [columns EXCEPT ![t] = Append(@, col)]
         /\ Len(columns[t]) < MaxCols /\ columns[t] \in Seq(Column) /\ col \in Column
         /\ \E entry \in Entry : /\ cache' = With(cache, t, entry)
                                 /\ Bounded(entry) /\ CountsRight(entry)
                                 /\ entry.rows = Get(t).rows /\ entry.cols # <<>>
<1> DEFINE rows == Append(columns[t], col)
           held == HeldFirst(t, hold)
           cols == AddedColumns(rows, held.cols, hold)
           lone == held.lone /\ Temporary(Get(t).cols) = {}
           new == [held EXCEPT !.lone = lone, !.cols = cols]
<1>1. /\ Get(t) \in Entry /\ AgreesWith(Get(t), columns[t])
      /\ Bounded(Get(t)) /\ CountsRight(Get(t)) /\ Get(t).ref < MaxRef
  BY GetAgrees, GetCounts DEF CountsInv, CatalogInv, Add
<1>2. columns[t] \in Seq(Column) /\ col \in Column /\ Len(columns[t]) < MaxCols
  BY CatalogAssumption DEF CountsInv, CatalogInv, Typed, Add
<1>3. rows \in Seq(Column) /\ Len(rows) = Len(columns[t]) + 1
  BY <1>2
<1>4. /\ held \in Entry /\ Bounded(held) /\ held.rows = Get(t).rows
      /\ held.persistent = Get(t).persistent /\ Len(held.cols) = Len(Get(t).cols)
      /\ held.lone = Get(t).lone
  <2>1. CASE ~hold
    BY <1>1, <2>1 DEF HeldFirst
  <2>2. CASE hold
    BY <1>1, <2>2, AddRefAgrees, AddRefCounts DEF HeldFirst
  <2> QED
    BY <2>1, <2>2
<1>5. columns' = [columns EXCEPT ![t] = rows] /\ columns'[t] = rows
  BY DEF Add, CountsInv, CatalogInv, Typed
<1>6. cache' = With(cache, t, new)
  BY <1>5 DEF Add
<1>7. held.cols \in Seq(MemColumn) /\ cols \in Seq(MemColumn)
  <2>1. held.cols \in Seq(MemColumn)
    BY <1>4 DEF Entry
  <2> QED
    BY <1>3, <2>1, AddedColumnsAgree
<1>8. /\ Len(cols) = Len(rows) /\ DOMAIN cols = DOMAIN rows
      /\ \A i \in DOMAIN rows : cols[i].temp = rows[i].temp
      /\ Len(rows) \notin DOMAIN held.cols =>
              \A i \in DOMAIN rows : i = Len(rows) => cols[i].ref = cols[i].held
  BY <1>3, <1>7, AddedCounts
<1> HIDE DEF cols, held
<1>9. /\ new \in Entry /\ new.cols = cols /\ new.persistent = held.persistent
      /\ new.rows = held.rows /\ new.ref = held.ref /\ (new.lone <=> lone)
  <2>1. lone \in BOOLEAN
    BY <1>4 DEF Entry
  <2> HIDE DEF lone
  <2> QED
    BY <1>4, <1>7, <2>1 DEF Entry
<1> HIDE DEF rows, new
<1>10. Bounded(new)
  BY <1>2, <1>3, <1>4, <1>8, <1>9, CatalogAssumption DEF Bounded
<1>11. CountsRight(new)
  <2> SUFFICES ASSUME lone, Get(t).persistent, NEW i \in Temporary(cols)
               PROVE  i = Len(cols) /\ cols[i].ref = cols[i].held
    BY <1>4, <1>9 DEF CountsRight
  <2>1. Plain(Get(t).cols) = columns[t] /\ Get(t).cols \in Seq(MemColumn)
    BY <1>1 DEF AgreesWith, Entry
  <2>2. DOMAIN Get(t).cols = DOMAIN columns[t]
        /\ \A j \in DOMAIN columns[t] : columns[t][j].temp = Get(t).cols[j].temp
    BY <2>1 DEF Plain
  <2>3. \A j \in DOMAIN columns[t] : ~columns[t][j].temp
    BY <2>2 DEF Temporary
  <2>4. i \in DOMAIN rows /\ rows[i].temp
    BY <1>8 DEF Temporary
  <2>5. i = Len(rows)
    BY <1>2, <1>3, <2>3, <2>4 DEF rows
  <2>6. Len(held.cols) = Len(columns[t])
    BY <1>2, <1>4, <2>1, <2>2
  <2>7. Len(rows) \notin DOMAIN held.cols
    BY <1>2, <1>3, <1>7, <2>6
  <2> QED
    BY <1>8, <2>4, <2>5, <2>7
<1>12. new.cols # <<>>
  BY <1>2, <1>3, <1>8, <1>9
<1> QED
  BY <1>2, <1>4, <1>5, <1>6, <1>9, <1>10, <1>11, <1>12 DEF rows
-----------------------------------------------------------------------------
(* The other tables stay as they are.                                      *)
LEMMA OneTableCounts ==
  ASSUME CountsInv, NEW t \in Tables,
         \/ cache' = Without(cache, t)
         \/ \E entry : cache' = With(cache, t, entry) /\ Bounded(entry) /\ CountsRight(entry)
  PROVE  Counts' /\ \A u \in DOMAIN cache' : Bounded(cache'[u])
<1>1. \A u \in DOMAIN cache : Bounded(cache[u]) /\ CountsRight(cache[u])
  BY DEF CountsInv, Sizes, Counts
<1>2. CASE cache' = Without(cache, t)
  <2>1. \A u \in DOMAIN cache' : u \in DOMAIN cache /\ cache'[u] = cache[u]
    BY <1>2 DEF Without
  <2> QED
    BY <1>1, <2>1 DEF Counts
<1>3. CASE \E entry : cache' = With(cache, t, entry) /\ Bounded(entry) /\ CountsRight(entry)
  <2>1. PICK entry : cache' = With(cache, t, entry) /\ Bounded(entry) /\ CountsRight(entry)
    BY <1>3
  <2>2. \A u \in DOMAIN cache' : cache'[u] = entry \/ (u \in DOMAIN cache /\ cache'[u] = cache[u])
    BY <2>1 DEF With
  <2>3. \A u \in DOMAIN cache' : Bounded(cache'[u]) /\ CountsRight(cache'[u])
    BY <1>1, <2>1, <2>2
  <2> QED
    BY <2>3 DEF Counts
<1> QED
  BY <1>2, <1>3

(* Statements that change rows and counts of a table alone.                *)
LEMMA CountStatements ==
  ASSUME CountsInv, CatalogInv', NEW t \in Tables,
         Open(t) \/ (\E n \in Nat : SetRows(t, n)) \/ Hold(t)
  PROVE  CountsInv'
<1>1. /\ UNCHANGED <<listed, columns, names, saved, status>>
      /\ \/ cache' = Without(cache, t)
         \/ \E entry : cache' = With(cache, t, entry) /\ Bounded(entry) /\ CountsRight(entry)
  <2>1. Get(t) \in Entry /\ Bounded(Get(t)) /\ CountsRight(Get(t))
    BY GetAgrees, GetCounts DEF CountsInv, CatalogInv
  <2>2. CASE Open(t)
    BY <2>1, <2>2 DEF Open
  <2>3. CASE \E n \in Nat : SetRows(t, n)
    <3>1. PICK n \in Nat : SetRows(t, n)
      BY <2>3
    <3> DEFINE new == [Get(t) EXCEPT !.rows = n]
    <3>2. n \in 0 .. MaxRows
      BY <3>1, CatalogAssumption DEF SetRows
    <3>3. Bounded(new) /\ CountsRight(new)
      BY <2>1, <3>2 DEF Bounded, CountsRight, Entry
    <3>4. cache' = With(cache, t, new) /\ UNCHANGED <<listed, columns, names, saved, status>>
      BY <3>1 DEF SetRows
    <3> HIDE DEF new
    <3> QED
      BY <3>3, <3>4
  <2>4. CASE Hold(t)
    <3>1. Bounded(AddRef(Get(t))) /\ CountsRight(AddRef(Get(t)))
      BY <2>1, <2>4, AddRefCounts DEF Hold
    <3> QED
      BY <2>4, <3>1 DEF Hold
  <2> QED
    BY <2>2, <2>3, <2>4
<1>2. Counts' /\ \A u \in DOMAIN cache' : Bounded(cache'[u])
  BY <1>1, OneTableCounts
<1> QED
  BY <1>1, <1>2 DEF CountsInv, Sizes, Names, names

LEMMA CreateCounts ==
  ASSUME CountsInv, CatalogInv', NEW t \in Tables, NEW def \in Definitions,
         CreateTemporary(t, def) \/ Create(t, def) \/ CreateFails(t, def)
  PROVE  CountsInv'
<1>1. Names'
  <2>1. \A persistent \in BOOLEAN : AddNames(t, def, persistent) => pinned' \subseteq known'
    BY DEF AddNames, CountsInv, Names
  <2>2. pinned' \subseteq known'
    BY <2>1 DEF CreateTemporary, Create, CreateFails
  <2>3. \A temp \in BOOLEAN : \A u \in DOMAIN With(listed, t, temp) : With(listed, t, temp)[u] \in BOOLEAN
    BY DEF With, CountsInv, Names
  <2>4. \E temp \in BOOLEAN : listed' = With(listed, t, temp)
    BY DEF CreateTemporary, Create, CreateFails
  <2> QED
    BY <2>2, <2>3, <2>4 DEF Names, CreateTemporary, Create, CreateFails
<1>2. \A u \in Tables : Len(columns'[u]) <= MaxCols
  <2>1. Len(def) <= MaxCols
    BY CatalogAssumption
  <2>2. columns' = columns \/ columns' = [columns EXCEPT ![t] = def]
    BY DEF CreateTemporary, Create, CreateFails
  <2> QED
    BY <2>1, <2>2 DEF CountsInv, CatalogInv, Typed, Sizes
<1>3. Counts' /\ \A u \in DOMAIN cache' : Bounded(cache'[u])
  <2>1. CASE CreateFails(t, def)
    BY <2>1 DEF CreateFails, CountsInv, Sizes, Counts
  <2>2. CASE CreateTemporary(t, def) \/ Create(t, def)
    <3>1. \E persistent \in BOOLEAN : cache' = With(cache, t, NewTable(def, persistent))
      BY <2>2 DEF CreateTemporary, Create
    <3> QED
      BY <3>1, NewTableCounts, OneTableCounts
  <2> QED
    BY <2>1, <2>2
<1>4. saved' = saved
  BY DEF CreateTemporary, Create, CreateFails
<1> QED
  BY <1>1, <1>2, <1>3, <1>4 DEF CountsInv, Sizes

LEMMA FreeCounts ==
  ASSUME CountsInv, CatalogInv', NEW t \in Tables, Free(t)
  PROVE  CountsInv'
<1>1. /\ columns' = [columns EXCEPT ![t] = ColumnsLeft(t)]
      /\ cache' = Without(cache, t) \/ cache' = With(cache, t, Freed(t))
      /\ UNCHANGED <<listed, known, pinned, saved, status>>
  BY DEF Free, names
<1>2. Bounded(Freed(t)) /\ CountsRight(Freed(t)) /\ Len(ColumnsLeft(t)) <= Len(columns[t])
  BY FreedCounts DEF Free, CountsInv, CatalogInv, Typed
<1>3. Counts' /\ \A u \in DOMAIN cache' : Bounded(cache'[u])
  BY <1>1, <1>2, OneTableCounts
<1>4. \A u \in Tables : Len(columns'[u]) <= MaxCols
  <2>1. ColumnsLeft(t) \in Seq(Column)
    BY FreedAgrees DEF Free, CountsInv
  <2>2. Len(columns[t]) <= MaxCols /\ columns[t] \in Seq(Column)
    BY DEF CountsInv, CatalogInv, Typed, Sizes
  <2>3. Len(ColumnsLeft(t)) <= MaxCols
    BY <1>2, <2>1, <2>2, CatalogAssumption
  <2> QED
    BY <1>1, <2>3 DEF CountsInv, CatalogInv, Typed, Sizes
<1> QED
  BY <1>1, <1>3, <1>4 DEF CountsInv, Sizes, Names

LEMMA AlterAddCounts ==
  ASSUME CountsInv, CatalogInv', NEW t \in Tables, NEW col \in Addable, NEW hold \in BOOLEAN,
         Add(t, col, hold)
  PROVE  CountsInv'
<1>1. /\ columns' = [columns EXCEPT ![t] = Append(@, col)]
      /\ Len(columns[t]) < MaxCols /\ columns[t] \in Seq(Column) /\ col \in Column
      /\ \E entry : cache' = With(cache, t, entry) /\ Bounded(entry) /\ CountsRight(entry)
  BY AddCounts
<1>2. Counts' /\ \A u \in DOMAIN cache' : Bounded(cache'[u])
  BY <1>1, OneTableCounts
<1>3. \A u \in Tables : Len(columns'[u]) <= MaxCols
  <2>1. Len(Append(columns[t], col)) <= MaxCols
    BY <1>1, CatalogAssumption
  <2> QED
    BY <1>1, <2>1 DEF CountsInv, CatalogInv, Typed, Sizes
<1> QED
  BY <1>2, <1>3 DEF CountsInv, Sizes, Names, Add

LEMMA DropCounts ==
  ASSUME CountsInv, CatalogInv', NEW t \in Tables, Drop(t)
  PROVE  CountsInv'
<1> DEFINE new == [Get(t) EXCEPT !.cols = <<>>]
<1>1. Bounded(new) /\ CountsRight(new)
  <2>1. Get(t) \in Entry /\ Bounded(Get(t))
    BY GetAgrees, GetCounts DEF CountsInv, CatalogInv
  <2>2. new.cols = <<>> /\ new.ref = Get(t).ref /\ new.rows = Get(t).rows
    BY <2>1 DEF Entry
  <2> HIDE DEF new
  <2> QED
    BY <2>1, <2>2, CatalogAssumption DEF Bounded, CountsRight, Temporary
<1>2. /\ columns' = [columns EXCEPT ![t] = <<>>] /\ listed' = Without(listed, t)
      /\ cache' = Without(cache, t) \/ cache' = With(cache, t, new)
      /\ UNCHANGED <<known, pinned, saved, status>>
  BY DEF Drop, names
<1> HIDE DEF new
<1>3. Counts' /\ \A u \in DOMAIN cache' : Bounded(cache'[u])
  BY <1>1, <1>2, OneTableCounts
<1>4. \A u \in Tables : Len(columns'[u]) <= MaxCols
  BY <1>2, CatalogAssumption DEF CountsInv, CatalogInv, Typed, Sizes
<1>5. \A u \in DOMAIN listed' : listed'[u] \in BOOLEAN
  BY <1>2 DEF Without, CountsInv, Names
<1> QED
  BY <1>2, <1>3, <1>4, <1>5 DEF CountsInv, Sizes, Names

LEMMA CommitCounts ==
  ASSUME CountsInv, CatalogInv', Commit
  PROVE  CountsInv'
<1>1. saved' \in [Tables -> 0 .. MaxRows]
  <2>1. \A t \in DOMAIN cache : cache[t].rows \in 0 .. MaxRows
    BY DEF CountsInv, Sizes, Bounded
  <2>2. 0 \in 0 .. MaxRows
    BY CatalogAssumption
  <2> QED
    BY <2>1, <2>2 DEF Commit
<1>2. \A t \in DOMAIN cache' : Bounded(cache'[t]) /\ CountsRight(cache'[t])
  <2> TAKE t \in DOMAIN cache'
  <2>1. t \in Tables /\ cache'[t] = Table(ReadColumns(columns[t], <<>>), 0, TRUE, saved'[t])
    BY DEF Commit
  <2>2. columns[t] \in Seq(Column) /\ Len(columns[t]) <= MaxCols /\ saved'[t] \in 0 .. MaxRows
    BY <1>1, <2>1 DEF CountsInv, CatalogInv, Typed, Sizes
  <2> QED
    BY <2>1, <2>2, LoadedCounts
<1>3. Names'
  BY DEF Names, CountsInv, Commit
<1>4. columns' = columns
  BY DEF Commit
<1> QED
  BY <1>1, <1>2, <1>3, <1>4 DEF CountsInv, Sizes, Counts

LEMMA InitCounts == Init => CountsInv
<1> SUFFICES ASSUME Init
             PROVE  CountsInv
  OBVIOUS
<1>1. CatalogInv
  BY InitHolds
<1>2. PICK defined \in SUBSET Tables, def \in {d \in Definitions : Len(d) = 1 /\ ~IsTemporary(d)} :
        /\ listed = [t \in defined |-> FALSE]
        /\ columns = [t \in Tables |-> IF t \in defined THEN def ELSE <<>>]
        /\ \E filled \in SUBSET (defined \cap Altered) :
             /\ saved = [t \in Tables |-> IF t \in filled THEN 1 ELSE 0]
             /\ cache = [t \in filled |-> Table(ReadColumns(def, <<>>), 0, TRUE, 1)]
  BY DEF Init
<1>3. PICK filled \in SUBSET (defined \cap Altered) :
        /\ saved = [t \in Tables |-> IF t \in filled THEN 1 ELSE 0]
        /\ cache = [t \in filled |-> Table(ReadColumns(def, <<>>), 0, TRUE, 1)]
  BY <1>2
<1>4. def \in Seq(Column) /\ Len(def) <= MaxCols /\ 1 \in 0 .. MaxRows /\ 0 \in 0 .. MaxRows
  BY CatalogAssumption
<1>5. \A t \in Tables : Len(columns[t]) <= MaxCols
  BY <1>2, <1>4, CatalogAssumption
<1>6. \A t \in DOMAIN cache : Bounded(cache[t]) /\ CountsRight(cache[t])
  <2>1. \A t \in DOMAIN cache : cache[t] = Table(ReadColumns(def, <<>>), 0, TRUE, 1)
    BY <1>3
  <2> QED
    BY <1>4, <2>1, LoadedCounts
<1>7. saved \in [Tables -> 0 .. MaxRows]
  BY <1>3, <1>4
<1>8. Names
  BY <1>2 DEF Names, Init
<1> QED
  BY <1>1, <1>5, <1>6, <1>7, <1>8 DEF CountsInv, Sizes, Counts

LEMMA NextCounts ==
  ASSUME CountsInv, [Next]_vars
  PROVE  CountsInv'
<1>0. CatalogInv'
  BY NextKeeps DEF CountsInv
<1>1. ASSUME NEW t \in Tables, AlterStatement(t)
      PROVE  CountsInv'
  <2>1. CASE SetRows(t, 0)
    BY <1>0, <2>1, CountStatements
  <2>2. CASE SetRows(t, RowsSeen(t) + 1)
    <3>1. Get(t) \in Entry
      BY GetAgrees DEF CountsInv, CatalogInv
    <3>2. RowsSeen(t) + 1 \in Nat
      BY <3>1 DEF RowsSeen, Entry
    <3> QED
      BY <1>0, <2>2, <3>2, CountStatements
  <2>3. ASSUME Hold(t)
        PROVE  CountsInv'
    BY <1>0, <2>3, CountStatements
  <2>4. CASE Free(t)
    BY <1>0, <2>4, FreeCounts
  <2>5. CASE FreeUndefined(t)
    BY <1>0, <2>5 DEF FreeUndefined, CountsInv, Sizes, Counts, Names, names
  <2>6. ASSUME NEW col \in Addable, NEW hold \in BOOLEAN, Add(t, col, hold)
        PROVE  CountsInv'
    BY <1>0, <2>6, AlterAddCounts
  <2>7. ASSUME NEW col \in Addable, AddRefused(t, col)
        PROVE  CountsInv'
    BY <2>3, <2>7 DEF AddRefused
  <2> QED
    BY <1>1, <2>1, <2>2, <2>3, <2>4, <2>5, <2>6, <2>7 DEF AlterStatement
<1>2. ASSUME NEW t \in Tables, Open(t)
      PROVE  CountsInv'
  BY <1>0, <1>2, CountStatements
<1>3. ASSUME NEW t \in Tables, Drop(t)
      PROVE  CountsInv'
  BY <1>0, <1>3, DropCounts
<1>4. ASSUME NEW t \in Tables, DropUndefined(t)
      PROVE  CountsInv'
  BY <1>0, <1>4 DEF DropUndefined, CountsInv, Sizes, Counts, Names, names
<1>5. ASSUME NEW t \in Tables, NEW def \in Definitions,
             CreateTemporary(t, def) \/ Create(t, def) \/ CreateFails(t, def)
      PROVE  CountsInv'
  BY <1>0, <1>5, CreateCounts
<1>6. CASE Commit
  BY <1>0, <1>6, CommitCounts
<1>7. CASE CommitStops
  BY <1>0, <1>7 DEF CommitStops, CountsInv, Sizes, Counts, Names, names
<1>8. CASE UNCHANGED vars
  BY <1>0, <1>8 DEF vars, names, CountsInv, Sizes, Counts, Names
<1> QED
  BY <1>1, <1>2, <1>3, <1>4, <1>5, <1>6, <1>7, <1>8, CatalogAssumption DEF Next
-----------------------------------------------------------------------------
(* What FREE will do to a column, and every bound, holds of every table in *)
(* memory, however it came there.                                          *)
THEOREM CountsInvariant == Spec => []CountsInv
<1>1. Init => CountsInv
  BY InitCounts
<1>2. CountsInv /\ [Next]_vars => CountsInv'
  BY NextCounts
<1> QED
  BY <1>1, <1>2, PTL DEF Spec

(* Names with a persistent count are names in the string table, the rows of*)
(* `_Columns` are columns, and a table in memory is one of the tables.     *)
THEOREM CatalogTyped == Spec => []CatalogTypeOK
<1>1. CountsInv => CatalogTypeOK
  <2> SUFFICES ASSUME CountsInv
               PROVE  CatalogTypeOK
    OBVIOUS
  <2>1. \A t \in Tables : \A i \in DOMAIN columns[t] : columns[t][i] \in Column
    BY DEF CountsInv, CatalogInv, Typed
  <2>2. \A t \in DOMAIN cache : cache[t].persistent \in BOOLEAN
    BY DEF CountsInv, CatalogInv, CacheInv, Entry
  <2> QED
    BY <2>1, <2>2 DEF CatalogTypeOK, CountsInv, CatalogInv, Typed, CacheInv, Sizes, Bounded, Names
<1> QED
  BY <1>1, CountsInvariant, PTL

-----------------------------------------------------------------------------
(* FREE removes the only temporary column of a table exactly when it comes *)
(* to as many as there were HOLDs since the column was added.              *)
LEMMA FreeStep ==
  ASSUME CountsInv, NEW t \in Tables,
         CanGet(t), Get(t).lone, Get(t).persistent, Temporary(Get(t).cols) # {},
         Free(t) \/ FreeUndefined(t)
  PROVE  /\ status' = "ok"
         /\ Len(columns'[t]) < Len(columns[t]) <=> Get(t).cols[Len(Get(t).cols)].held = 1
<1> DEFINE cols == Get(t).cols
<1>1. /\ \A i \in Temporary(cols) : i = Len(cols) /\ cols[i].ref = cols[i].held
      /\ Removed(t) \in {0, Len(columns[t])}
      /\ Removed(t) # 0 <=> cols[Len(cols)].ref = 1
  BY LoneIsRemoved
<1>2. cols[Len(cols)].ref = cols[Len(cols)].held
  BY <1>1
<1>3. Free(t) /\ status' = "ok"
  BY <1>1 DEF FreeUndefined, Free
<1>4. Len(ColumnsLeft(t)) = Len(columns[t]) - (IF Removed(t) = 0 THEN 0 ELSE 1)
  BY <1>1, <1>3, FreedCounts DEF Free
<1>5. columns'[t] = ColumnsLeft(t) /\ Len(columns[t]) \in Nat
  BY <1>3 DEF Free, CountsInv, CatalogInv, Typed
<1> HIDE DEF cols
<1>6. Len(columns'[t]) < Len(columns[t]) <=> Removed(t) # 0
  BY <1>4, <1>5
<1> QED
  BY <1>1, <1>2, <1>3, <1>6 DEF cols

(* table_view_release (table.c:1845) frees the column a test added when it *)
(* was freed as often as held, and never before (testdatabase.c:3553).     *)
THEOREM FreeingMatchesHolding == Spec => FreeMatchesHold
<1>1. CountsInv =>
        \A t \in Tables :
          CanGet(t) /\ Get(t).lone /\ Get(t).persistent /\ Temporary(Get(t).cols) # {}
            /\ (Free(t) \/ FreeUndefined(t))
            => /\ status' = "ok"
               /\ Len(columns'[t]) < Len(columns[t]) <=> Get(t).cols[Len(Get(t).cols)].held = 1
  BY FreeStep
<1> QED
  BY <1>1, CountsInvariant, PTL DEF FreeMatchesHold

(* What a query finds of a table that is put in memory.                    *)
LEMMA SeenAfter ==
  ASSUME NEW t, NEW entry, cache' = With(cache, t, entry), entry.cols # <<>>
  PROVE  RowsSeen(t)' = entry.rows /\ ColumnsSeen(t)' = Plain(entry.cols)
BY DEF With, RowsSeen, ColumnsSeen, CanGet, InMemory, Get

LEMMA RowsKept ==
  ASSUME CountsInv, NEW t \in Tables,
         Hold(t) \/ Free(t) \/ \E col \in Addable, hold \in BOOLEAN : Add(t, col, hold),
         RowsSeen(t) = 0 => saved[t] = 0, ColumnsSeen(t)' # <<>>
  PROVE  RowsSeen(t)' = RowsSeen(t)
<1>1. CanGet(t) /\ RowsSeen(t) = Get(t).rows
  BY DEF Hold, Free, Add, RowsSeen
<1>2. Get(t) \in Entry /\ Get(t).cols # <<>> /\ Bounded(Get(t)) /\ CountsRight(Get(t))
  BY <1>1, GetAgrees, GetCounts DEF CountsInv, CatalogInv
<1>3. CASE Hold(t)
  <2>1. /\ AddRef(Get(t)).rows = Get(t).rows
        /\ Len(AddRef(Get(t)).cols) = Len(Get(t).cols) /\ AddRef(Get(t)) \in Entry
    BY <1>2, <1>3, AddRefAgrees, AddRefCounts, GetAgrees DEF Hold, CountsInv, CatalogInv
  <2>2. AddRef(Get(t)).cols # <<>>
    BY <1>2, <2>1 DEF Entry
  <2> QED
    BY <1>1, <1>3, <2>1, <2>2, SeenAfter DEF Hold
<1>4. CASE \E col \in Addable, hold \in BOOLEAN : Add(t, col, hold)
  <2>1. \E entry \in Entry : /\ cache' = With(cache, t, entry)
                             /\ entry.rows = Get(t).rows /\ entry.cols # <<>>
    BY <1>4, AddCounts
  <2> QED
    BY <1>1, <2>1, SeenAfter
<1>5. CASE Free(t)
  <2>1. /\ Freed(t).rows = Get(t).rows
        /\ Freed(t).cols = <<>> => ColumnsLeft(t) = <<>>
    BY <1>5, FreedCounts DEF Free
  <2>2. columns'[t] = ColumnsLeft(t) /\ saved' = saved
    BY <1>5 DEF Free, CountsInv, CatalogInv, Typed
  <2>3. CASE Freed(t).ref = 0 /\ Freed(t).rows = 0
    <3>1. t \notin DOMAIN cache'
      BY <1>5, <2>3 DEF Free, Without
    <3>2. RowsSeen(t)' = 0 \/ RowsSeen(t)' = saved'[t]
      BY <3>1 DEF RowsSeen, CanGet, Get, InMemory, Loaded, Table
    <3> QED
      BY <1>1, <2>1, <2>2, <2>3, <3>2
  <2>4. CASE ~ (Freed(t).ref = 0 /\ Freed(t).rows = 0)
    <3>1. cache' = With(cache, t, Freed(t))
      BY <1>5, <2>4 DEF Free
    <3>2. CASE Freed(t).cols # <<>>
      BY <1>1, <2>1, <3>1, <3>2, SeenAfter
    <3>3. CASE Freed(t).cols = <<>>
      <4>1. ~CanGet(t)'
        BY <2>1, <2>2, <3>1, <3>3 DEF CanGet, InMemory, With
      <4> QED
        BY <4>1 DEF ColumnsSeen
    <3> QED
      BY <3>2, <3>3
  <2> QED
    BY <2>3, <2>4
<1> QED
  BY <1>3, <1>4, <1>5

(* HOLD, FREE and ALTER TABLE ADD (alter.c:98, 137) do not lose a row of a *)
(* table that keeps a column.                                              *)
THEOREM HoldingLosesNoRows == Spec => HoldingKeepsRows
<1>1. CountsInv =>
        \A t \in Tables :
          /\ Hold(t) \/ Free(t) \/ \E col \in Addable, hold \in BOOLEAN : Add(t, col, hold)
          /\ (RowsSeen(t) = 0 => saved[t] = 0) /\ ColumnsSeen(t)' # <<>>
          => RowsSeen(t)' = RowsSeen(t)
  BY RowsKept
<1> QED
  BY <1>1, CountsInvariant, PTL DEF HoldingKeepsRows

LEMMA TablesKept ==
  ASSUME CatalogInv, Commit, ~temporaries, NEW t \in Tables, IsTablePersistent(t)
  PROVE  /\ t \in DOMAIN listed' /\ ColumnsSeen(t)' = ColumnsSeen(t)
         /\ t \in DOMAIN cache \/ saved[t] = 0 => RowsSeen(t)' = RowsSeen(t)
<1>1. /\ Get(t) \in Entry /\ AgreesWith(Get(t), columns[t]) /\ Get(t).persistent
      /\ CanGet(t) /\ Get(t).cols # <<>>
  BY GetAgrees DEF IsTablePersistent, CatalogInv
<1>2. Plain(Get(t).cols) = columns[t] /\ columns[t] \in Seq(Column) /\ <<>> \in Seq(MemColumn)
  BY <1>1 DEF AgreesWith, CatalogInv, Typed
<1>3. columns[t] # <<>>
  <2>1. Get(t).cols \in Seq(MemColumn)
    BY <1>1 DEF Entry
  <2>2. DOMAIN columns[t] = DOMAIN Get(t).cols
    BY <1>2 DEF Plain
  <2> QED
    BY <1>1, <1>2, <2>1, <2>2
<1>4. /\ listed' = [u \in ListedPrefix |-> FALSE] /\ columns' = columns
      /\ saved' = [u \in Tables |-> IF u \in DOMAIN cache /\ cache[u].persistent THEN cache[u].rows ELSE 0]
      /\ cache' = [u \in {v \in Tables : saved'[v] > 0} |->
                     Table(ReadColumns(columns[u], <<>>), 0, TRUE, saved'[u])]
      /\ \A u \in DOMAIN cache : cache[u].cols # <<>>
  BY DEF Commit
<1>5. t \in DOMAIN listed'
  <2>1. t \in DOMAIN listed /\ ListedPrefix = DOMAIN listed
    BY <1>3 DEF ListedPrefix, CatalogInv, ListedInv
  <2> QED
    BY <1>4, <2>1
<1>6. CanGet(t)' /\ Get(t)' = Table(ReadColumns(columns[t], <<>>), 0, TRUE, saved'[t])
  BY <1>3, <1>4 DEF CanGet, Get, InMemory, Loaded
<1>7. ColumnsSeen(t)' = columns[t] /\ ColumnsSeen(t) = columns[t] /\ RowsSeen(t)' = saved'[t]
  <2>1. Plain(ReadColumns(columns[t], <<>>)) = columns[t]
    BY <1>2, ReadColumnsAgree
  <2> QED
    BY <1>1, <1>2, <1>6, <2>1 DEF ColumnsSeen, RowsSeen, Table
<1>8. t \in DOMAIN cache => RowsSeen(t)' = RowsSeen(t)
  BY <1>1, <1>4, <1>7 DEF RowsSeen, Get, InMemory
<1>9. t \notin DOMAIN cache /\ saved[t] = 0 => RowsSeen(t)' = RowsSeen(t)
  BY <1>1, <1>4, <1>7 DEF RowsSeen, Get, InMemory, Loaded, Table
<1> QED
  BY <1>5, <1>7, <1>8, <1>9

(* A commit (table.c:2035, save_table at 871) leaves the persistent        *)
(* tables as the program had them, unless one had rows in the file and was *)
(* freed, or a temporary table was created.                                *)
THEOREM CommitKeepsEveryTable == Spec => CommitKeepsTables
<1>1. CatalogInv =>
        (Commit /\ ~temporaries =>
          \A t \in Tables : IsTablePersistent(t) =>
            /\ t \in DOMAIN listed' /\ ColumnsSeen(t)' = ColumnsSeen(t)
            /\ t \in DOMAIN cache \/ saved[t] = 0 => RowsSeen(t)' = RowsSeen(t))
  BY TablesKept
<1> QED
  BY <1>1, CatalogInvariant, PTL DEF CommitKeepsTables
=============================================================================
