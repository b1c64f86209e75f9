------------------------ MODULE StringPoolFile_proofs ------------------------
(***************************************************************************)
(* The string table on disk: the buffers of a save are filled to the last  *)
(* byte, and a load gives back the table that was saved, for every table,  *)
(* every width of its words and every length of its strings that two words *)
(* hold.                                                                   *)
(*                                                                         *)
(* The predicates are about a saved table S of m slots, its codepage cp,   *)
(* and t, the totals of string_totalsize after each of its slots: slot n   *)
(* has its entry behind the first t[n - 1].pool of the pool, and its bytes *)
(* behind the first t[n - 1].data of the data.                             *)
(***************************************************************************)
EXTENDS StringPoolFile, StringTable_proofs, Loops

Sizes == [pool : Nat, data : Nat]
Pair  == (0 .. Word - 1) \X (0 .. Word - 1)
Byte  == Text \X Nat
Entry == [codepage : Codepage, long : BOOLEAN] \cup Pair

(* The slots that are written.                                             *)
Kept(S, cp, n) == S[n].pref # 0 /\ S[n].str \notin Unencodable[cp]
Size(S, n) == Length[S[n].str]
Short(S, cp, m) == \A n \in 0 .. m - 1 : Kept(S, cp, n) => Size(S, n) < Word

SavedTable(S, cp, m) ==
  /\ m \in Nat /\ m \in 1 .. MaxSlots
  /\ cp \in Codepage
  /\ S \in [0 .. m - 1 -> SlotType]
  /\ S[0] = ZeroSlot
  /\ \A n \in 1 .. m - 1 : Kept(S, cp, n) => S[n].str \in Text
  /\ \A n, k \in 1 .. m - 1 : Kept(S, cp, n) /\ Kept(S, cp, k) /\ S[n].str = S[k].str => n = k

(* What one slot adds to the totals.                                       *)
Adds(S, cp, n, old, new) ==
  IF Kept(S, cp, n) THEN new = [pool |-> old.pool + Entries(Size(S, n)), data |-> old.data + Size(S, n)]
                    ELSE new = [pool |-> old.pool + 1, data |-> old.data]

Totals(S, cp, m, t) ==
  /\ t \in [0 .. m - 1 -> Sizes]
  /\ t[0] = [pool |-> 1, data |-> 0]
  /\ \A n \in 1 .. m - 1 : Adds(S, cp, n, t[n - 1], t[n])

(* The entries of slots 1 to k in a pool, the bytes of slots low to high   *)
(* in data whose first gone bytes were taken.                              *)
EntryAt(S, cp, n, p, at) ==
  IF ~Kept(S, cp, n) THEN p[at] = Hole
  ELSE IF Size(S, n) < Word THEN p[at] = <<Size(S, n) % Word, S[n].pref>>
  ELSE p[at] = <<0, Size(S, n) \div Word>> /\ p[at + 1] = <<Size(S, n) % Word, S[n].pref>>
PoolHas(S, cp, t, k, p) == \A n \in 1 .. k : EntryAt(S, cp, n, p, t[n - 1].pool + 1)
DataHas(S, cp, t, low, high, gone, d) ==
  \A n \in low .. high : Kept(S, cp, n) =>
    \A j \in 1 .. Size(S, n) : d[t[n - 1].data - gone + j] = <<S[n].str, j>>

(* Slot n of the table tab, loaded: as it was, but for the references of a *)
(* long string.                                                            *)
LoadedSlot(S, cp, n, e) ==
  /\ ~Kept(S, cp, n) => e = ZeroSlot
  /\ Kept(S, cp, n) => e.str = S[n].str /\ e.pref # 0 /\ e.npref = 0
  /\ Kept(S, cp, n) /\ Size(S, n) < Word => e = Slot(S[n].str, S[n].pref, 0)

Saving(m, t) ==
  LET S == saved.strings
      cp == saved.codepage IN
  /\ SavedTable(S, cp, m) /\ Totals(S, cp, m, t)
  /\ ~wrapped /\ strings = S /\ codepage = cp /\ maxcount = m
  /\ saved.refBytes = (IF m > Word - 1 THEN "long" ELSE "short")
  /\ sizes = t[m - 1] /\ sizes.pool <= MaxSlots
  /\ entry \in 1 .. m /\ (phase = "closed" => entry = m)
  /\ Len(pool) = t[entry - 1].pool /\ Len(data) = t[entry - 1].data
  /\ pool[1] = [codepage |-> cp, long |-> m > Word - 1]
  /\ pool \in Seq(Entry)
  /\ data \in Seq(Byte)
  /\ PoolHas(S, cp, t, entry - 1, pool)
  /\ DataHas(S, cp, t, 1, entry - 1, 0, data)

Loading(m, t) ==
  LET S == saved.strings
      cp == saved.codepage IN
  /\ SavedTable(S, cp, m) /\ Totals(S, cp, m, t)
  /\ ~wrapped /\ maxcount = Len(pool) /\ Len(pool) = t[m - 1].pool
  /\ saved.refBytes = (IF m > Word - 1 THEN "long" ELSE "short")
  /\ maxcount > 1 => codepage = cp /\ refBytes = saved.refBytes
  /\ entry \in 1 .. m /\ place = t[entry - 1].pool
  /\ Len(data) = t[m - 1].data - t[entry - 1].data
  /\ data \in Seq(Byte)
  /\ PoolHas(S, cp, t, m - 1, pool)
  /\ DataHas(S, cp, t, entry, m - 1, t[entry - 1].data, data)
  /\ \A n \in 0 .. entry - 1 : LoadedSlot(S, cp, n, strings[n])
  /\ \A n \in 0 .. maxcount - 1 : n >= entry => strings[n] = ZeroSlot
  /\ Len(sorted) <= entry - 1
  /\ freeslot <= entry /\ (freeslot > 1 => Used(strings[freeslot - 1]))
  /\ \A n \in Live : n < freeslot

FileInv ==
  /\ TableInv /\ FileTypeOK /\ RoundTrip
  /\ phase \in {"saving", "closed"} => \E m, t : Saving(m, t)
  /\ phase = "loading" => \E m, t : Loading(m, t)

-----------------------------------------------------------------------------
(* Words and the totals.                                                   *)

LEMMA WordFacts ==
  /\ Word \in Nat /\ Word > 1
  /\ \A s \in Text : Length[s] \in Nat /\ Length[s] >= 1
  /\ \A s \in Text : Entries(Length[s]) \in {1, 2}
BY StringPoolFileAssumption, StringTableAssumption DEF Word, Entries

(* The two words of a length.                                              *)
LEMMA SplitLength ==
  ASSUME NEW s \in Text
  PROVE  /\ Length[s] % Word \in 0 .. Word - 1
         /\ Length[s] \div Word \in 0 .. Word - 1
         /\ Length[s] < Word => Length[s] % Word = Length[s]
         /\ Length[s] >= Word => Length[s] \div Word # 0
<1> DEFINE len == Length[s]
           high == len \div Word
           low == len % Word
<1>1. len \in Nat /\ len < Word * Word /\ Word \in Nat /\ Word > 1
  BY WordFacts, StringPoolFileAssumption DEF Word
<1> HIDE DEF len
<1>2. low \in 0 .. Word - 1 /\ high \in Nat /\ len = Word * high + low
  BY <1>1
<1> HIDE DEF high, low
<1>3. high < Word
  <2>1. ASSUME high >= Word PROVE FALSE
    <3>1. Word * high >= Word * Word
      BY <1>1, <1>2, <2>1
    <3>2. Word * high \in Nat /\ Word * Word \in Nat
      BY <1>1, <1>2
    <3> QED
      BY <1>1, <1>2, <3>1, <3>2
  <2> QED
    BY <1>1, <1>2, <2>1
<1>4. len >= Word => high # 0
  BY <1>1, <1>2
<1>5. len < Word => low = len
  <2>1. ASSUME len < Word PROVE high = 0
    <3>1. ASSUME high >= 1 PROVE FALSE
      <4>1. Word * high >= Word
        BY <1>1, <1>2, <3>1
      <4>2. Word * high \in Nat
        BY <1>1, <1>2
      <4> QED
        BY <1>1, <1>2, <2>1, <4>1, <4>2
    <3> QED
      BY <1>2, <3>1
  <2> QED
    BY <1>1, <1>2, <2>1
<1>6. high \in 0 .. Word - 1
  BY <1>1, <1>2, <1>3
<1> QED
  BY <1>2, <1>4, <1>5, <1>6, Zenon DEF len, high, low

(* A pair or two for each slot written, at least an entry for each.        *)
LEMMA AddsFacts ==
  ASSUME NEW S, NEW cp, NEW m, SavedTable(S, cp, m), NEW t, Totals(S, cp, m, t), NEW n \in 1 .. m - 1
  PROVE  /\ t[n - 1].pool \in Nat /\ t[n].pool \in Nat /\ t[n - 1].data \in Nat /\ t[n].data \in Nat
         /\ t[n].pool >= t[n - 1].pool + 1 /\ t[n].data >= t[n - 1].data
         /\ ~Kept(S, cp, n) => t[n].pool = t[n - 1].pool + 1 /\ t[n].data = t[n - 1].data
         /\ Kept(S, cp, n) => /\ S[n].str \in Text
                              /\ t[n].pool = t[n - 1].pool + Entries(Size(S, n))
                              /\ t[n].data = t[n - 1].data + Size(S, n)
<1>1. m \in Nat /\ n \in 0 .. m - 1 /\ n - 1 \in 0 .. m - 1
  BY DEF SavedTable
<1>2. t[n] \in Sizes /\ t[n - 1] \in Sizes
  BY <1>1 DEF Totals
<1>3. Adds(S, cp, n, t[n - 1], t[n])
  BY DEF Totals
<1>4. CASE ~Kept(S, cp, n)
  BY <1>2, <1>3, <1>4 DEF Adds, Sizes
<1>5. CASE Kept(S, cp, n)
  <2>1. S[n].str \in Text
    BY <1>5 DEF SavedTable
  <2>2. Entries(Size(S, n)) \in {1, 2} /\ Size(S, n) \in Nat
    BY <2>1, WordFacts DEF Size
  <2> QED
    BY <1>2, <1>3, <1>5, <2>1, <2>2 DEF Adds, Sizes
<1> QED
  BY <1>4, <1>5

(* Totals only grow, by an entry for each slot.                            *)
LEMMA TotalsGrow ==
  ASSUME NEW S, NEW cp, NEW m, SavedTable(S, cp, m), NEW t, Totals(S, cp, m, t),
         NEW i \in 0 .. m - 1, NEW j \in 0 .. m - 1, i <= j
  PROVE  /\ t[i].pool \in Nat /\ t[j].pool \in Nat /\ t[i].data \in Nat /\ t[j].data \in Nat
         /\ t[j].pool - t[i].pool >= j - i /\ t[i].data <= t[j].data
<1> DEFINE Good == {k \in 0 .. m - 1 : i <= k => t[k].pool - t[i].pool >= k - i /\ t[i].data <= t[k].data}
<1>1. m \in Nat /\ m - 1 \in Nat
  BY DEF SavedTable
<1>2. \A k \in 0 .. m - 1 : t[k].pool \in Nat /\ t[k].data \in Nat
  BY DEF Totals, Sizes
<1>3. 0 \in Good
  BY <1>1, <1>2
<1>4. ASSUME NEW k \in 1 .. m - 1, k - 1 \in Good PROVE k \in Good
  <2>1. t[k].pool >= t[k - 1].pool + 1 /\ t[k].data >= t[k - 1].data
    BY AddsFacts
  <2>2. k \in 0 .. m - 1 /\ k - 1 \in 0 .. m - 1
    BY <1>1
  <2> QED
    BY <1>2, <1>4, <2>1, <2>2
<1>5. \A k \in 0 .. m - 1 : k \in Good
  <2> HIDE DEF Good
  <2> QED
    BY <1>1, <1>3, <1>4, UpToLast
<1> QED
  BY <1>2, <1>5

(* Without long strings there is one entry for each slot.                  *)
LEMMA ShortTotals ==
  ASSUME NEW S, NEW cp, NEW m, SavedTable(S, cp, m), NEW t, Totals(S, cp, m, t), Short(S, cp, m)
  PROVE  \A n \in 0 .. m - 1 : t[n].pool = n + 1
<1> DEFINE Good == {k \in 0 .. m - 1 : t[k].pool = k + 1}
<1>1. m \in Nat /\ m - 1 \in Nat
  BY DEF SavedTable
<1>2. 0 \in Good
  BY <1>1 DEF Totals
<1>3. ASSUME NEW k \in 1 .. m - 1, k - 1 \in Good PROVE k \in Good
  <2>1. k \in 0 .. m - 1
    BY <1>1
  <2>2. Kept(S, cp, k) => Entries(Size(S, k)) = 1
    BY <2>1 DEF Short, Entries
  <2>3. t[k].pool = t[k - 1].pool + 1
    BY <2>2, AddsFacts
  <2> QED
    BY <1>3, <2>1, <2>3
<1>4. \A k \in 0 .. m - 1 : k \in Good
  <2> HIDE DEF Good
  <2> QED
    BY <1>1, <1>2, <1>3, UpToLast
<1> QED
  BY <1>4

-----------------------------------------------------------------------------
(* The totals string_totalsize counts.                                     *)

(* A table that agrees with its index can be saved.                        *)
LEMMA TableCanBeSaved ==
  ASSUME TableInv, ~wrapped, codepage \in Codepage
  PROVE  SavedTable(strings, codepage, maxcount)
<1>1. /\ maxcount \in Nat /\ maxcount \in 1 .. MaxSlots
      /\ strings \in [0 .. maxcount - 1 -> SlotType]
      /\ strings[0] = ZeroSlot /\ IndexedBy(strings, maxcount, sorted)
  BY StringTableAssumption DEF TableInv, TypeOK, SlotsOK, IndexOK
<1>2. \A n \in 1 .. maxcount - 1 : Kept(strings, codepage, n) => Used(strings[n])
  BY DEF Kept, Used
<1>3. \A n \in 1 .. maxcount - 1 : Kept(strings, codepage, n) => strings[n].str \in Text
  BY <1>2 DEF TableInv, SlotsOK, Live
<1>4. ASSUME NEW n \in 1 .. maxcount - 1, NEW k \in 1 .. maxcount - 1,
             Kept(strings, codepage, n), Kept(strings, codepage, k), strings[n].str = strings[k].str
      PROVE  n = k
  <2>1. PICK i \in 1 .. Len(sorted) : sorted[i] = n
    BY <1>1, <1>2, <1>4 DEF IndexedBy
  <2>2. PICK j \in 1 .. Len(sorted) : sorted[j] = k
    BY <1>1, <1>2, <1>4 DEF IndexedBy
  <2>3. \A a, b \in 1 .. Len(sorted) : a < b => strings[sorted[a]].str < strings[sorted[b]].str
    BY <1>1 DEF IndexedBy
  <2>4. strings[n].str \in Int /\ Len(sorted) \in Nat
    BY <1>3, <1>4, SlotFacts DEF TableInv
  <2>5. ~(i < j) /\ ~(j < i)
    BY <1>4, <2>1, <2>2, <2>3, <2>4
  <2> QED
    BY <2>1, <2>2, <2>4, <2>5
<1> QED
  BY <1>1, <1>3, <1>4 DEF SavedTable

(* string_totalsize goes over the slots once: its totals are those of the  *)
(* slots before, slot by slot.                                             *)
LEMMA TotalsExist ==
  ASSUME TableInv, ~wrapped, codepage \in Codepage
  PROVE  \E t : Totals(strings, codepage, maxcount, t) /\ TotalSize = t[maxcount - 1]
<1> DEFINE N == maxcount - 1
           base == [pool |-> 1, data |-> 0]
           Turn(q, i) == Plus(q, i)
           step == [p \in Sizes \X (1 .. N) |-> Turn(p[1], p[2])]
           Body(f, i) == IF i = 0 THEN base ELSE Turn(f[i - 1], i)
           e == CHOOSE f : f = [i \in 0 .. N |-> Body(f, i)]
<1>1. N \in Nat /\ base \in Sizes
  BY TableCanBeSaved DEF SavedTable, Sizes
<1>2. ASSUME NEW q \in Sizes, NEW i \in 1 .. N
      PROVE  Turn(q, i) \in Sizes /\ Adds(strings, codepage, i, q, Turn(q, i))
  <2>1. Counted(i) <=> Kept(strings, codepage, i)
    BY DEF Counted, Kept
  <2>2. Kept(strings, codepage, i) => strings[i].str \in Text
    BY TableCanBeSaved DEF SavedTable
  <2>3. Kept(strings, codepage, i) => Size(strings, i) \in Nat /\ Entries(Size(strings, i)) \in Nat
    BY <2>2, WordFacts DEF Size
  <2> QED
    BY <2>1, <2>3 DEF Plus, Adds, Sizes, Size
<1>3. TotalSize = e[N]
  BY Zenon DEF TotalSize
<1> HIDE DEF N, base, Turn
<1>4. \A q \in Sizes, i \in 1 .. N : step[<<q, i>>] = Turn(q, i) /\ step[<<q, i>>] \in Sizes
  BY <1>1, <1>2
<1> HIDE DEF step
<1>5. PICK g \in [0 .. N -> Sizes] : g[0] = base /\ \A i \in 1 .. N : g[i] = step[<<g[i - 1], i>>]
  <2>1. LoopsOf(N, Sizes, base, step) # {}
    BY <1>1, <1>4, LoopExists
  <2> QED
    BY <2>1 DEF LoopsOf
<1>6. ASSUME NEW i \in 0 .. N PROVE g[i] = Body(g, i)
  <2>1. CASE i # 0
    <3>1. i \in 1 .. N /\ i - 1 \in 0 .. N
      BY <1>1, <2>1
    <3> QED
      BY <1>4, <1>5, <2>1, <3>1
  <2> QED
    BY <1>5, <2>1
<1>7. g = [i \in 0 .. N |-> Body(g, i)]
  <2> HIDE DEF Body
  <2> QED
    BY <1>5, <1>6
<1>8. e = [i \in 0 .. N |-> Body(e, i)]
  <2> HIDE DEF Body
  <2> QED
    BY <1>7
<1> HIDE DEF e
<1>9. ASSUME NEW i \in 0 .. N PROVE e[i] = Body(e, i)
  <2> HIDE DEF Body
  <2> QED
    BY <1>8
<1>10. e[0] = base /\ \A i \in 1 .. N : e[i] = Turn(e[i - 1], i)
  <2>1. 0 \in 0 .. N /\ \A i \in 1 .. N : i \in 0 .. N /\ i # 0
    BY <1>1
  <2> QED
    BY <1>9, <2>1
<1>11. \A i \in 0 .. N : e[i] \in Sizes
  <2>1. \A i \in 1 .. N : e[i - 1] \in Sizes => e[i] \in Sizes
    BY <1>2, <1>10
  <2> QED
    BY <1>1, <1>10, <2>1, LoopStays
<1>12. e \in [0 .. N -> Sizes]
  <2> HIDE DEF Body
  <2> QED
    BY <1>8, <1>11
<1>13. \A i \in 1 .. N : Adds(strings, codepage, i, e[i - 1], e[i])
  <2>1. \A i \in 1 .. N : i - 1 \in 0 .. N
    BY <1>1
  <2> QED
    BY <1>2, <1>10, <1>11, <2>1
<1>14. Totals(strings, codepage, maxcount, e)
  BY <1>10, <1>12, <1>13 DEF Totals, N, base
<1> QED
  BY <1>3, <1>14 DEF N

-----------------------------------------------------------------------------
(* What a slot adds to the streams.                                        *)

(* What was written before stays where it is.                              *)
LEMMA PoolStays ==
  ASSUME NEW S, NEW cp, NEW m, SavedTable(S, cp, m), NEW t, Totals(S, cp, m, t),
         NEW k \in 0 .. m - 1, NEW p, PoolHas(S, cp, t, k, p),
         NEW q, \A i \in 1 .. t[k].pool : q[i] = p[i]
  PROVE  PoolHas(S, cp, t, k, q)
<1>1. SUFFICES ASSUME NEW n \in 1 .. k
               PROVE  EntryAt(S, cp, n, q, t[n - 1].pool + 1)
  BY DEF PoolHas
<1> DEFINE at == t[n - 1].pool + 1
<1>2. m \in Nat /\ n \in 1 .. m - 1 /\ n \in 0 .. m - 1 /\ n <= k
  BY DEF SavedTable
<1>3. t[n].pool \in Nat /\ t[k].pool \in Nat /\ t[n].pool <= t[k].pool
  BY <1>2, TotalsGrow
<1>4. at \in Nat /\ at >= 1 /\ at <= t[n].pool /\ t[n - 1].pool \in Nat
  BY <1>2, AddsFacts
<1>5. EntryAt(S, cp, n, p, at)
  BY DEF PoolHas
<1>6. q[at] = p[at]
  BY <1>3, <1>4
<1>7. ASSUME Kept(S, cp, n) /\ ~(Size(S, n) < Word) PROVE EntryAt(S, cp, n, q, at)
  <2>1. t[n].pool = t[n - 1].pool + 2
    BY <1>2, <1>7, AddsFacts DEF Entries
  <2>2. q[at + 1] = p[at + 1]
    BY <1>3, <1>4, <2>1
  <2> HIDE DEF at
  <2> QED
    BY <1>5, <1>6, <1>7, <2>2 DEF EntryAt
<1>8. ASSUME ~Kept(S, cp, n) \/ Size(S, n) < Word PROVE EntryAt(S, cp, n, q, at)
  <2> HIDE DEF at
  <2> QED
    BY <1>5, <1>6, <1>8 DEF EntryAt
<1> QED
  BY <1>7, <1>8

LEMMA PoolNext ==
  ASSUME NEW S, NEW cp, NEW m, SavedTable(S, cp, m), NEW t, Totals(S, cp, m, t),
         NEW k \in 1 .. m - 1, NEW p, PoolHas(S, cp, t, k - 1, p),
         EntryAt(S, cp, k, p, t[k - 1].pool + 1)
  PROVE  PoolHas(S, cp, t, k, p)
<1>1. \A n \in 1 .. k : n \in 1 .. k - 1 \/ n = k
  BY DEF SavedTable
<1> QED
  BY <1>1 DEF PoolHas

LEMMA DataStays ==
  ASSUME NEW S, NEW cp, NEW m, SavedTable(S, cp, m), NEW t, Totals(S, cp, m, t),
         NEW k \in 0 .. m - 1, NEW d, DataHas(S, cp, t, 1, k, 0, d),
         NEW q, \A i \in 1 .. t[k].data : q[i] = d[i]
  PROVE  DataHas(S, cp, t, 1, k, 0, q)
<1>1. SUFFICES ASSUME NEW n \in 1 .. k, Kept(S, cp, n), NEW j \in 1 .. Size(S, n)
               PROVE  q[t[n - 1].data - 0 + j] = <<S[n].str, j>>
  BY DEF DataHas
<1>2. m \in Nat /\ n \in 1 .. m - 1 /\ n \in 0 .. m - 1 /\ n <= k
  BY DEF SavedTable
<1>3. t[n].data \in Nat /\ t[k].data \in Nat /\ t[n].data <= t[k].data
  BY <1>2, TotalsGrow
<1>4. t[n - 1].data \in Nat /\ t[n].data = t[n - 1].data + Size(S, n) /\ Size(S, n) \in Nat
  BY <1>1, <1>2, AddsFacts, WordFacts DEF Size
<1>5. t[n - 1].data - 0 + j \in 1 .. t[k].data
  BY <1>3, <1>4
<1>6. d[t[n - 1].data - 0 + j] = <<S[n].str, j>>
  BY <1>1 DEF DataHas
<1> QED
  BY <1>5, <1>6

(* The bytes of a slot, put behind those of the slots before it.           *)
LEMMA DataNext ==
  ASSUME NEW S, NEW cp, NEW m, SavedTable(S, cp, m), NEW t, Totals(S, cp, m, t),
         NEW k \in 1 .. m - 1, Kept(S, cp, k), NEW d \in Seq(Byte),
         DataHas(S, cp, t, 1, k - 1, 0, d), Len(d) = t[k - 1].data
  PROVE  LET q == d \o Bytes(S[k].str) IN
         /\ q \in Seq(Byte) /\ Len(q) = t[k].data
         /\ DataHas(S, cp, t, 1, k, 0, q)
<1> DEFINE b == Bytes(S[k].str)
           q == d \o b
<1>1. m \in Nat /\ k \in Nat /\ k - 1 \in 0 .. m - 1 /\ k \in 0 .. m - 1
  BY DEF SavedTable
<1>2. S[k].str \in Text /\ Size(S, k) \in Nat /\ t[k].data = t[k - 1].data + Size(S, k) /\ t[k - 1].data \in Nat
  BY AddsFacts, WordFacts DEF Size
<1>3. b \in Seq(Byte) /\ Len(b) = Size(S, k) /\ \A j \in 1 .. Size(S, k) : b[j] = <<S[k].str, j>>
  <2>1. b = [j \in 1 .. Size(S, k) |-> <<S[k].str, j>>]
    BY DEF Bytes, Size
  <2>2. b \in [1 .. Size(S, k) -> Byte]
    BY <1>2, <2>1 DEF Byte
  <2> HIDE DEF b
  <2>3. b \in Seq(Byte)
    BY <1>2, <2>2, FunctionIsSeq
  <2> QED
    BY <1>2, <2>1, <2>3
<1> HIDE DEF b
<1>4. /\ q \in Seq(Byte) /\ Len(q) = t[k].data
      /\ \A i \in 1 .. t[k - 1].data : q[i] = d[i]
      /\ \A j \in 1 .. Size(S, k) : q[t[k - 1].data + j] = b[j]
  <2>1. PICK h \in Seq(Byte) : h = b
    BY <1>3
  <2>2. /\ d \o h \in Seq(Byte)
        /\ Len(d \o h) = Len(d) + Len(h)
        /\ \A i \in 1 .. Len(d) + Len(h) : (d \o h)[i] = IF i <= Len(d) THEN d[i] ELSE h[i - Len(d)]
    BY ConcatProperties
  <2>3. \A i \in 1 .. t[k - 1].data : (d \o h)[i] = d[i]
    BY <1>2, <1>3, <2>1, <2>2
  <2>4. ASSUME NEW j \in 1 .. Size(S, k) PROVE (d \o h)[t[k - 1].data + j] = h[j]
    <3>0. PICK a \in Nat : a = t[k - 1].data
      BY <1>2
    <3>1. PICK i \in 1 .. Len(d) + Len(h) : i = a + j
      BY <1>2, <1>3, <2>1, <3>0
    <3>2. ~(i <= Len(d)) /\ i - Len(d) = j
      BY <1>2, <3>0, <3>1
    <3>3. (d \o h)[i] = h[i - Len(d)]
      BY <2>2, <3>2
    <3> QED
      BY <3>0, <3>1, <3>2, <3>3
  <2> QED
    BY <1>2, <1>3, <2>1, <2>2, <2>3, <2>4
<1> HIDE DEF q
<1>5. DataHas(S, cp, t, 1, k - 1, 0, q)
  BY <1>1, <1>4, DataStays
<1>6. ASSUME NEW n \in 1 .. k, Kept(S, cp, n), NEW j \in 1 .. Size(S, n)
      PROVE  q[t[n - 1].data - 0 + j] = <<S[n].str, j>>
  <2>1. CASE n = k
    <3>1. t[k - 1].data - 0 + j = t[k - 1].data + j
      BY <1>2, <2>1
    <3> QED
      BY <1>3, <1>4, <2>1, <3>1
  <2>2. CASE n # k
    <3>1. n \in 1 .. k - 1
      BY <1>1, <2>2
    <3> QED
      BY <1>5, <1>6, <3>1 DEF DataHas
  <2> QED
    BY <2>1, <2>2
<1>7. DataHas(S, cp, t, 1, k, 0, q)
  BY <1>6 DEF DataHas
<1> QED
  BY <1>4, <1>7 DEF q, b

-----------------------------------------------------------------------------
(* Saving, step by step.                                                   *)

(* While a table is saved, a slot is fetched exactly when it was counted,  *)
(* for there is room left for all that were.                               *)
LEMMA FetchedIsCounted ==
  ASSUME NEW m, NEW t, Saving(m, t), entry \in 1 .. m - 1
  PROVE  Fetched(entry) <=> Kept(saved.strings, saved.codepage, entry)
<1> DEFINE S == saved.strings
           cp == saved.codepage
<1>1. SavedTable(S, cp, m) /\ Totals(S, cp, m, t) /\ strings = S /\ codepage = cp /\ sizes = t[m - 1]
      /\ Len(data) = t[entry - 1].data
  BY DEF Saving
<1>2. m \in Nat /\ entry \in 0 .. m - 1 /\ m - 1 \in 0 .. m - 1 /\ entry <= m - 1
  BY <1>1 DEF SavedTable
<1> HIDE DEF S, cp
<1>3. t[entry].data <= t[m - 1].data /\ t[entry].data \in Nat /\ t[m - 1].data \in Nat
  BY <1>1, <1>2, TotalsGrow
<1>4. ASSUME Kept(S, cp, entry)
      PROVE  Length[strings[entry].str] <= sizes.data - Len(data)
  <2>1. t[entry].data = t[entry - 1].data + Size(S, entry) /\ t[entry - 1].data \in Nat /\ S[entry].str \in Text
    BY <1>1, <1>4, AddsFacts
  <2>2. Size(S, entry) \in Nat /\ Size(S, entry) = Length[strings[entry].str]
    BY <1>1, <2>1, WordFacts DEF Size
  <2> QED
    BY <1>1, <1>3, <2>1, <2>2
<1>5. Kept(S, cp, entry) <=> strings[entry].pref # 0 /\ strings[entry].str \notin Unencodable[codepage]
  BY <1>1 DEF Kept
<1> QED
  BY <1>4, <1>5 DEF Fetched, S, cp

LEMMA SaveStartStep == FileInv /\ SaveStart => FileInv'
<1> SUFFICES ASSUME FileInv, SaveStart PROVE FileInv'
  OBVIOUS
<1>1. TableInv /\ FileTypeOK /\ ~wrapped /\ codepage \in Codepage
  BY DEF FileInv, SaveStart, IsOpen, FileTypeOK
<1>2. /\ phase' = "saving" /\ sizes' = TotalSize /\ pool' = <<Header>> /\ data' = <<>> /\ entry' = 1 /\ place' = 0
      /\ refBytes' = (IF Header.long THEN "long" ELSE "short")
      /\ saved' = [strings |-> strings, codepage |-> codepage, refBytes |-> refBytes']
      /\ UNCHANGED tableVars /\ codepage' = codepage /\ TotalSize.pool <= MaxSlots
  BY DEF SaveStart
<1>3. PICK t : Totals(strings, codepage, maxcount, t) /\ TotalSize = t[maxcount - 1]
  BY <1>1, TotalsExist
<1>4. SavedTable(strings, codepage, maxcount)
  BY <1>1, TableCanBeSaved
<1>5. TableInv'
  BY <1>1, <1>2 DEF tableVars, TableInv, TypeOK, IndexOK, SlotsOK, Live
<1>6. maxcount \in Nat /\ maxcount >= 1 /\ maxcount \in 1 .. MaxSlots /\ TotalSize \in Sizes
  BY <1>3, <1>4 DEF SavedTable, Totals
<1>7. Header \in Entry /\ Header = [codepage |-> codepage, long |-> maxcount > Word - 1]
  BY <1>1 DEF Header, Entry
<1>8. pool' \in Seq(Entry) /\ Len(pool') = 1 /\ pool'[1] = Header
  BY <1>2, <1>7
<1>9. FileTypeOK'
  <2>1. refBytes' \in {"short", "long"} /\ place' \in 0 .. Len(pool') /\ entry' \in 0 .. MaxSlots
    BY <1>2, <1>6, <1>8, StringTableAssumption
  <2>2. sizes' \in [pool : Nat, data : Nat]
    BY <1>2, <1>6 DEF Sizes
  <2>3. \A k \in 2 .. Len(pool') : pool'[k] \in (0 .. Word - 1) \X (0 .. Word - 1)
    BY <1>8
  <2> QED
    BY <1>1, <1>2, <1>5, <2>1, <2>2, <2>3 DEF FileTypeOK, TableInv
<1>10. Saving(maxcount, t)'
  <2>1. /\ saved'.strings = strings /\ saved'.codepage = codepage
        /\ saved'.refBytes = (IF maxcount > Word - 1 THEN "long" ELSE "short")
    BY <1>2, <1>7
  <2>2. /\ ~wrapped' /\ strings' = strings /\ codepage' = codepage /\ maxcount' = maxcount
        /\ entry' \in 1 .. maxcount /\ entry' - 1 = 0
    BY <1>1, <1>2, <1>6 DEF tableVars
  <2>3. t[0].pool = 1 /\ t[0].data = 0
    BY <1>3 DEF Totals
  <2>4. Len(pool') = t[entry' - 1].pool /\ Len(data') = t[entry' - 1].data /\ data' \in Seq(Byte)
    BY <1>2, <1>8, <2>2, <2>3
  <2>5. PoolHas(strings, codepage, t, 0, pool') /\ DataHas(strings, codepage, t, 1, 0, 0, data')
    BY DEF PoolHas, DataHas
  <2>6. sizes' = t[maxcount - 1] /\ sizes'.pool <= MaxSlots
    BY <1>2, <1>3
  <2> QED
    BY <1>2, <1>3, <1>4, <1>7, <1>8, <2>1, <2>2, <2>4, <2>5, <2>6 DEF Saving
<1>11. (\E a, b : Saving(a, b))'
  BY <1>10
<1> QED
  BY <1>2, <1>5, <1>9, <1>11 DEF FileInv, RoundTrip

(* One slot more is written: what both ways of doing so have in common.    *)
LEMMA SlotSaved ==
  ASSUME FileInv, phase = "saving", NEW m, NEW t, Saving(m, t), entry \in 1 .. m - 1,
         entry' = entry + 1, UNCHANGED <<tableVars, codepage, refBytes, phase, place, sizes, saved>>,
         pool' \in Seq(Entry), Len(pool') = t[entry].pool,
         \A i \in 1 .. Len(pool) : pool'[i] = pool[i],
         \A i \in Len(pool) + 1 .. Len(pool') : pool'[i] \in Pair,
         EntryAt(saved.strings, saved.codepage, entry, pool', t[entry - 1].pool + 1),
         data' \in Seq(Byte), Len(data') = t[entry].data,
         DataHas(saved.strings, saved.codepage, t, 1, entry, 0, data')
  PROVE  FileInv'
<1> DEFINE S == saved.strings
           cp == saved.codepage
           e == entry
<1>1. /\ SavedTable(S, cp, m) /\ Totals(S, cp, m, t)
      /\ Len(pool) = t[e - 1].pool /\ PoolHas(S, cp, t, e - 1, pool)
      /\ pool \in Seq(Entry) /\ pool[1] = [codepage |-> cp, long |-> m > Word - 1]
  BY DEF Saving
<1>2. m \in Nat /\ m \in 1 .. MaxSlots /\ e \in Nat /\ e - 1 \in 0 .. m - 1 /\ e \in 0 .. m - 1
  BY <1>1 DEF SavedTable
<1>3. t[0].pool = 1 /\ t[e - 1].pool \in Nat /\ t[e].pool \in Nat /\ t[e].pool >= t[e - 1].pool + 1
  <2>1. t[0].pool = 1
    BY <1>1 DEF Totals
  <2>2. e \in 1 .. m - 1
    OBVIOUS
  <2> HIDE DEF e, S, cp
  <2> QED
    BY <1>1, <2>1, <2>2, AddsFacts
<1>4. Len(pool) >= 1
  <2>1. 0 \in 0 .. m - 1 /\ 0 <= e - 1
    BY <1>2
  <2>2. t[e - 1].pool - t[0].pool >= (e - 1) - 0
    BY <1>1, <1>2, <2>1, TotalsGrow
  <2> QED
    BY <1>1, <1>2, <1>3, <2>2
<1>5. PoolHas(S, cp, t, e, pool')
  <2>1. PoolHas(S, cp, t, e - 1, pool')
    <3>1. PICK q : q = pool'
      OBVIOUS
    <3>2. \A i \in 1 .. t[e - 1].pool : q[i] = pool[i]
      BY <1>1, <3>1
    <3>3. PoolHas(S, cp, t, e - 1, q)
      BY <1>1, <1>2, <3>2, PoolStays
    <3> QED
      BY <3>1, <3>3
  <2> HIDE DEF S, cp
  <2> QED
    BY <1>1, <2>1, PoolNext DEF S, cp
<1>6. FileTypeOK' /\ TableInv'
  <2>1. TableInv'
    BY DEF FileInv, tableVars, TableInv, TypeOK, IndexOK, SlotsOK, Live
  <2>2. FileTypeOK
    BY DEF FileInv
  <2>3. entry' \in 0 .. MaxSlots /\ place' \in 0 .. Len(pool')
    <3>1. MaxSlots \in Nat /\ place \in 0 .. Len(pool)
      BY <2>2, StringTableAssumption DEF FileTypeOK
    <3> QED
      BY <1>1, <1>2, <1>3, <3>1
  <2>4. \A k \in 2 .. Len(pool') : pool'[k] \in (0 .. Word - 1) \X (0 .. Word - 1)
    <3>1. \A k \in 2 .. Len(pool) : pool'[k] \in Pair
      BY <2>2 DEF FileTypeOK, Pair
    <3>2. \A k \in 2 .. Len(pool') : k \in 2 .. Len(pool) \/ k \in Len(pool) + 1 .. Len(pool')
      BY <1>1, <1>3
    <3> QED
      BY <3>1, <3>2 DEF Pair
  <2> QED
    BY <2>1, <2>2, <2>3, <2>4 DEF FileTypeOK, TableInv
<1>7. Saving(m, t)'
  <2>1. entry' \in 1 .. m /\ entry' - 1 = e
    BY <1>2
  <2>2. pool'[1] = pool[1]
    BY <1>1, <1>3, <1>4
  <2> HIDE DEF e
  <2> QED
    BY <1>1, <1>5, <2>1, <2>2 DEF Saving, tableVars, e
<1>8. (\E a, b : Saving(a, b))'
  BY <1>7
<1> QED
  BY <1>6, <1>8 DEF FileInv, RoundTrip

(* The slot that is next, while there is one.                              *)
LEMMA NextSlot ==
  ASSUME NEW m, NEW t, Saving(m, t), phase = "saving", entry < maxcount
  PROVE  entry \in 1 .. m - 1
BY DEF Saving, SavedTable

LEMMA SaveHoleStep == FileInv /\ SaveHole => FileInv'
<1> SUFFICES ASSUME FileInv, SaveHole PROVE FileInv'
  OBVIOUS
<1> DEFINE S == saved.strings
           cp == saved.codepage
<1>1. /\ phase = "saving" /\ entry < maxcount /\ ~Fetched(entry) /\ pool' = Append(pool, Hole) /\ entry' = entry + 1
      /\ UNCHANGED <<tableVars, codepage, refBytes, phase, place, sizes, saved>> /\ data' = data
  BY DEF SaveHole
<1>2. PICK m, t : Saving(m, t)
  BY <1>1 DEF FileInv
<1>3. entry \in 1 .. m - 1
  BY <1>1, <1>2, NextSlot
<1>4. ~Kept(S, cp, entry)
  BY <1>1, <1>2, <1>3, FetchedIsCounted
<1>5. /\ SavedTable(S, cp, m) /\ Totals(S, cp, m, t) /\ pool \in Seq(Entry) /\ data \in Seq(Byte)
      /\ Len(pool) = t[entry - 1].pool /\ Len(data) = t[entry - 1].data
      /\ DataHas(S, cp, t, 1, entry - 1, 0, data)
  BY <1>2 DEF Saving
<1>6. t[entry].pool = t[entry - 1].pool + 1 /\ t[entry].data = t[entry - 1].data
  BY <1>3, <1>4, <1>5, AddsFacts
<1>7. Hole \in Pair /\ Hole \in Entry
  BY WordFacts DEF Hole, Pair, Entry
<1>8. /\ pool' \in Seq(Entry) /\ Len(pool') = t[entry].pool
      /\ \A i \in 1 .. Len(pool) : pool'[i] = pool[i]
      /\ pool'[t[entry - 1].pool + 1] = Hole
      /\ \A i \in Len(pool) + 1 .. Len(pool') : pool'[i] \in Pair
  BY <1>1, <1>5, <1>6, <1>7
<1>9. EntryAt(S, cp, entry, pool', t[entry - 1].pool + 1)
  BY <1>4, <1>8 DEF EntryAt
<1>10. DataHas(S, cp, t, 1, entry, 0, data')
  <2>1. \A n \in 1 .. entry : n \in 1 .. entry - 1 \/ n = entry
    BY <1>3, <1>5 DEF SavedTable
  <2> QED
    BY <1>1, <1>4, <1>5, <2>1 DEF DataHas
<1> QED
  BY <1>1, <1>2, <1>3, <1>5, <1>6, <1>8, <1>9, <1>10, SlotSaved

LEMMA SaveStringStep == FileInv /\ SaveString => FileInv'
<1> SUFFICES ASSUME FileInv, SaveString PROVE FileInv'
  OBVIOUS
<1> DEFINE S == saved.strings
           cp == saved.codepage
           size == Size(S, entry)
           pair == <<size % Word, S[entry].pref>>
<1>1. /\ phase = "saving" /\ entry < maxcount /\ Fetched(entry) /\ entry' = entry + 1
      /\ UNCHANGED <<tableVars, codepage, refBytes, phase, place, sizes, saved>>
  BY DEF SaveString
<1>2. PICK m, t : Saving(m, t)
  BY <1>1 DEF FileInv
<1>3. entry \in 1 .. m - 1
  BY <1>1, <1>2, NextSlot
<1>4. Kept(S, cp, entry)
  BY <1>1, <1>2, <1>3, FetchedIsCounted
<1>5. /\ SavedTable(S, cp, m) /\ Totals(S, cp, m, t) /\ pool \in Seq(Entry) /\ data \in Seq(Byte)
      /\ Len(pool) = t[entry - 1].pool /\ Len(data) = t[entry - 1].data /\ strings = S
      /\ DataHas(S, cp, t, 1, entry - 1, 0, data)
  BY <1>2 DEF Saving
<1>6. /\ pool' = IF size >= Word THEN pool \o <<<<0, size \div Word>>, pair>> ELSE Append(pool, pair)
      /\ data' = data \o Bytes(S[entry].str)
  BY <1>5 DEF SaveString, Size
<1>7. S[entry].str \in Text /\ t[entry].pool = t[entry - 1].pool + Entries(size)
  BY <1>3, <1>4, <1>5, AddsFacts
<1>8. size \in Nat /\ Word \in Nat /\ size % Word \in 0 .. Word - 1 /\ size \div Word \in 0 .. Word - 1
  BY <1>7, SplitLength, WordFacts DEF Size
<1>9. pair \in Pair /\ <<0, size \div Word>> \in Pair
  <2>1. S[entry].pref \in 0 .. Word - 1
    <3>1. entry \in 0 .. m - 1
      BY <1>3, <1>5 DEF SavedTable
    <3>2. S[entry] \in SlotType
      BY <1>5, <3>1 DEF SavedTable
    <3> QED
      BY <3>2 DEF SlotType, Word
  <2>2. 0 \in 0 .. Word - 1
    BY WordFacts
  <2> HIDE DEF size
  <2> QED
    BY <1>8, <2>1, <2>2 DEF Pair
<1> HIDE DEF size, pair
<1>10. /\ pool' \in Seq(Entry) /\ Len(pool') = t[entry].pool
       /\ \A i \in 1 .. Len(pool) : pool'[i] = pool[i]
       /\ IF size < Word THEN pool'[t[entry - 1].pool + 1] = pair
          ELSE pool'[t[entry - 1].pool + 1] = <<0, size \div Word>> /\ pool'[t[entry - 1].pool + 1 + 1] = pair
       /\ \A i \in Len(pool) + 1 .. Len(pool') : pool'[i] \in Pair
  <2>0. PICK a \in Entry, b \in Entry : a = <<0, size \div Word>> /\ b = pair
    BY <1>9 DEF Entry
  <2>1. CASE size < Word
    <3>1. pool' = Append(pool, b) /\ t[entry].pool = t[entry - 1].pool + 1
      BY <1>6, <1>7, <1>8, <2>0, <2>1 DEF Entries
    <3>2. b \in Pair
      BY <1>9, <2>0
    <3> QED
      BY <1>5, <2>0, <2>1, <3>1, <3>2
  <2>2. CASE size >= Word
    <3>1. pool' = pool \o <<a, b>> /\ t[entry].pool = t[entry - 1].pool + 2
      BY <1>6, <1>7, <1>8, <2>0, <2>2 DEF Entries
    <3>2. a \in Pair /\ b \in Pair /\ ~(size < Word)
      BY <1>8, <1>9, <2>0, <2>2
    <3>3. PICK h \in Seq(Entry) : h = <<a, b>> /\ Len(h) = 2 /\ h[1] = a /\ h[2] = b
      <4>1. <<a, b>> \in Seq(Entry)
        OBVIOUS
      <4>2. Len(<<a, b>>) = 2 /\ <<a, b>>[1] = a /\ <<a, b>>[2] = b
        OBVIOUS
      <4> QED
        BY <4>1, <4>2, Zenon
    <3>4. /\ pool \o h \in Seq(Entry) /\ Len(pool \o h) = Len(pool) + Len(h)
          /\ \A i \in 1 .. Len(pool) + Len(h) : (pool \o h)[i] = IF i <= Len(pool) THEN pool[i] ELSE h[i - Len(pool)]
      BY <1>5, ConcatProperties
    <3>5. PICK q \in Seq(Entry) : q = pool \o h /\ q = pool'
      BY <3>1, <3>3, <3>4
    <3>6. PICK len \in Nat : len = Len(pool)
      BY <1>5
    <3>7. Len(q) = len + 2 /\ \A i \in 1 .. len + 2 : q[i] = IF i <= len THEN pool[i] ELSE h[i - len]
      BY <3>3, <3>4, <3>5, <3>6
    <3>8. \A i \in 1 .. len : q[i] = pool[i]
      BY <3>6, <3>7
    <3>9. q[len + 1] = a /\ q[len + 1 + 1] = b
      BY <3>3, <3>6, <3>7
    <3>10. \A i \in len + 1 .. len + 2 : q[i] \in Pair
      <4>1. \A i \in len + 1 .. len + 2 : i = len + 1 \/ i = len + 1 + 1
        BY <3>6
      <4> QED
        BY <3>2, <3>9, <4>1
    <3>11. t[entry - 1].pool = len /\ t[entry].pool = len + 2
      BY <1>5, <3>1, <3>6
    <3> QED
      BY <2>0, <3>2, <3>5, <3>6, <3>7, <3>8, <3>9, <3>10, <3>11
  <2> QED
    BY <1>8, <2>1, <2>2
<1>11. EntryAt(S, cp, entry, pool', t[entry - 1].pool + 1)
  BY <1>4, <1>10 DEF EntryAt, size, pair
<1>12. data' \in Seq(Byte) /\ Len(data') = t[entry].data /\ DataHas(S, cp, t, 1, entry, 0, data')
  <2> HIDE DEF S, cp
  <2> QED
    BY <1>3, <1>4, <1>5, <1>6, DataNext
<1> QED
  BY <1>1, <1>2, <1>3, <1>10, <1>11, <1>12, SlotSaved

LEMMA SaveEndStep == FileInv /\ SaveEnd => FileInv'
<1> SUFFICES ASSUME FileInv, SaveEnd PROVE FileInv'
  OBVIOUS
<1>1. /\ phase = "saving" /\ entry = maxcount /\ phase' = IF Len(data) = sizes.data THEN "closed" ELSE "failed"
      /\ UNCHANGED <<tableVars, codepage, refBytes, entry, place, sizes, pool, data, saved>>
  BY DEF SaveEnd
<1>2. PICK m, t : Saving(m, t)
  BY <1>1 DEF FileInv
<1>3. entry = m /\ Len(data) = sizes.data
  BY <1>1, <1>2 DEF Saving
<1>4. phase' = "closed"
  BY <1>1, <1>3
<1>5. Saving(m, t)'
  BY <1>1, <1>2, <1>3 DEF Saving, tableVars
<1>6. (\E a, b : Saving(a, b))'
  BY <1>5
<1>7. TableInv' /\ FileTypeOK'
  BY <1>1, <1>4 DEF FileInv, FileTypeOK, tableVars, TableInv, TypeOK, IndexOK, SlotsOK, Live
<1> QED
  BY <1>4, <1>6, <1>7 DEF FileInv, RoundTrip

-----------------------------------------------------------------------------
(* Loading, step by step.                                                  *)

LEMMA LoadStartStep == FileInv /\ LoadStart => FileInv'
<1> SUFFICES ASSUME FileInv, LoadStart PROVE FileInv'
  OBVIOUS
<1> DEFINE S == saved.strings
           cp == saved.codepage
<1>1. /\ phase = "closed" /\ phase' = "loading" /\ maxcount' = Len(pool)
      /\ codepage' = (IF Len(pool) > 1 THEN pool[1].codepage ELSE Acp)
      /\ refBytes' = (IF Len(pool) > 1 /\ pool[1].long THEN "long" ELSE "short")
      /\ strings' = [k \in 0 .. Len(pool) - 1 |-> ZeroSlot]
      /\ freeslot' = 1 /\ sorted' = <<>> /\ entry' = 1 /\ place' = 1
      /\ UNCHANGED <<wrapped, sizes, pool, data, saved>>
  BY DEF LoadStart
<1>2. PICK m, t : Saving(m, t)
  BY <1>1 DEF FileInv
<1>3. /\ SavedTable(S, cp, m) /\ Totals(S, cp, m, t) /\ ~wrapped
      /\ saved.refBytes = (IF m > Word - 1 THEN "long" ELSE "short")
      /\ sizes = t[m - 1] /\ sizes.pool <= MaxSlots /\ entry = m
      /\ Len(pool) = t[m - 1].pool /\ Len(data) = t[m - 1].data
      /\ pool[1] = [codepage |-> cp, long |-> m > Word - 1]
      /\ data \in Seq(Byte) /\ PoolHas(S, cp, t, m - 1, pool) /\ DataHas(S, cp, t, 1, m - 1, 0, data)
  BY <1>1, <1>2 DEF Saving
<1>4. m \in Nat /\ m >= 1 /\ cp \in Codepage /\ S[0] = ZeroSlot /\ 0 \in 0 .. m - 1 /\ m - 1 \in 0 .. m - 1
  BY <1>3 DEF SavedTable
<1>5. t[0] = [pool |-> 1, data |-> 0]
  BY <1>3 DEF Totals
<1>6. /\ t[m - 1].pool \in Nat /\ t[m - 1].data \in Nat
      /\ t[m - 1].pool - t[0].pool >= (m - 1) - 0
  <2> HIDE DEF S, cp
  <2> QED
    BY <1>3, <1>4, TotalsGrow
<1>7. Len(pool) \in Nat /\ Len(pool) >= 1 /\ Len(pool) <= MaxSlots /\ MaxSlots \in Nat
  BY <1>3, <1>4, <1>5, <1>6, StringTableAssumption
<1>8. /\ codepage' \in Codepage /\ refBytes' \in {"short", "long"}
      /\ Len(pool) > 1 => codepage' = cp /\ refBytes' = saved.refBytes
  <2>1. pool[1].codepage = cp
    BY <1>3
  <2>2. pool[1].long <=> m > Word - 1
    <3> DEFINE wide == m > Word - 1
    <3>1. pool[1] = [codepage |-> cp, long |-> wide]
      BY <1>3
    <3> HIDE DEF wide, cp
    <3>2. [codepage |-> cp, long |-> wide].long = wide
      BY Zenon
    <3>3. pool[1].long = wide
      BY <3>1, <3>2, Zenon
    <3> QED
      BY <3>3, Zenon DEF wide
  <2>3. /\ codepage' \in Codepage /\ refBytes' \in {"short", "long"}
        /\ Len(pool) > 1 => codepage' = cp
    <3> HIDE DEF cp
    <3> QED
      BY <1>1, <1>4, <2>1, StringPoolFileAssumption
  <2>4. Len(pool) > 1 => refBytes' = (IF m > Word - 1 THEN "long" ELSE "short")
    BY <1>1, <2>2, Zenon
  <2> QED
    BY <1>3, <2>3, <2>4
<1>9. \A n \in 0 .. maxcount' - 1 : strings'[n] = ZeroSlot
  BY <1>1
<1>10. ZeroSlot \in SlotType /\ ~Used(ZeroSlot)
  BY StringTableAssumption DEF ZeroSlot, Slot, SlotType, Used
<1>11. TableInv'
  <2>1. TypeOK'
    <3>1. maxcount' \in 1 .. MaxSlots /\ freeslot' \in 1 .. maxcount'
      BY <1>1, <1>7
    <3>2. strings' \in [0 .. maxcount' - 1 -> SlotType]
      BY <1>1, <1>10
    <3>3. sorted' \in Seq(1 .. maxcount' - 1)
      BY <1>1
    <3>4. wrapped' \in BOOLEAN
      BY <1>1 DEF FileInv, TableInv, TypeOK
    <3> QED
      BY <3>1, <3>2, <3>3, <3>4 DEF TypeOK
  <2>2. IndexedBy(strings', maxcount', sorted')
    BY <1>1, <1>9, <1>10 DEF IndexedBy
  <2>3. SlotsOK'
    BY <1>1, <1>7, <1>9, <1>10 DEF SlotsOK, Live
  <2> QED
    BY <2>1, <2>2, <2>3 DEF TableInv, IndexOK
<1>12. FileTypeOK'
  <2>1. entry' \in 0 .. MaxSlots /\ place' \in 0 .. Len(pool')
    BY <1>1, <1>7
  <2> QED
    BY <1>1, <1>8, <1>11, <2>1 DEF FileInv, FileTypeOK, TableInv
<1>13. Loading(m, t)'
  <2>1. ~Kept(S, cp, 0)
    BY <1>4 DEF Kept, ZeroSlot, Slot
  <2>2. LoadedSlot(S, cp, 0, strings'[0])
    BY <1>1, <1>7, <1>9, <2>1 DEF LoadedSlot
  <2>3. Live' = {}
    BY <1>1, <1>9, <1>10 DEF Live
  <2>4. /\ entry' \in 1 .. m /\ entry' - 1 = 0 /\ place' = t[entry' - 1].pool
        /\ Len(data') = t[m - 1].data - t[entry' - 1].data
        /\ t[entry' - 1].data = 0
    BY <1>1, <1>3, <1>4, <1>5, <1>6
  <2>5. \A n \in 0 .. entry' - 1 : LoadedSlot(S, cp, n, strings'[n])
    <3>1. \A n \in 0 .. entry' - 1 : n = 0
      BY <2>4
    <3> QED
      BY <2>2, <3>1
  <2>6. /\ \A n \in 0 .. maxcount' - 1 : n >= entry' => strings'[n] = ZeroSlot
        /\ Len(sorted') <= entry' - 1
        /\ freeslot' <= entry' /\ ~(freeslot' > 1)
        /\ \A n \in Live' : n < freeslot'
    BY <1>1, <1>9, <2>3
  <2> QED
    BY <1>1, <1>3, <1>8, <2>4, <2>5, <2>6 DEF Loading
<1>14. (\E a, b : Loading(a, b))'
  BY <1>13
<1> QED
  BY <1>1, <1>11, <1>12, <1>14 DEF FileInv, RoundTrip

(* While there are entries left, the loop is at the first entry of the     *)
(* slot it has come to, and behind it there is one for each slot to come.  *)
LEMMA LoadingFacts ==
  ASSUME FileInv, NEW m, NEW t, Loading(m, t), place < maxcount
  PROVE  /\ m \in Nat /\ entry \in 1 .. m - 1 /\ entry \in 1 .. maxcount - 1 /\ m <= MaxSlots
         /\ entry - 1 \in 0 .. m - 1 /\ entry \in 0 .. m - 1 /\ m - 1 \in 0 .. m - 1
         /\ t[entry].pool \in 0 .. Len(pool) /\ place \in Nat /\ Len(pool) \in Nat
         /\ EntryAt(saved.strings, saved.codepage, entry, pool, place + 1)
         /\ strings[entry] = ZeroSlot
<1> DEFINE S == saved.strings
           cp == saved.codepage
<1>1. /\ SavedTable(S, cp, m) /\ Totals(S, cp, m, t) /\ maxcount = Len(pool) /\ Len(pool) = t[m - 1].pool
      /\ entry \in 1 .. m /\ place = t[entry - 1].pool /\ PoolHas(S, cp, t, m - 1, pool)
      /\ \A n \in 0 .. maxcount - 1 : n >= entry => strings[n] = ZeroSlot
  BY DEF Loading
<1>2. m \in Nat /\ m \in 1 .. MaxSlots
  BY <1>1 DEF SavedTable
<1> HIDE DEF S, cp
<1>3. entry # m
  BY <1>1
<1>4. /\ entry \in 1 .. m - 1 /\ entry - 1 \in 0 .. m - 1 /\ entry \in 0 .. m - 1 /\ m - 1 \in 0 .. m - 1
      /\ 0 \in 0 .. m - 1 /\ entry <= m - 1
  BY <1>1, <1>2, <1>3
<1>5. t[entry].pool \in Nat /\ t[m - 1].pool \in Nat /\ t[m - 1].pool - t[entry].pool >= (m - 1) - entry
  BY <1>1, <1>4, TotalsGrow
<1>6. t[m - 1].pool - t[0].pool >= (m - 1) - 0 /\ t[0].pool = 1
  <2>1. 0 <= m - 1
    BY <1>2
  <2>2. t[m - 1].pool - t[0].pool >= (m - 1) - 0
    BY <1>1, <1>4, <2>1, TotalsGrow
  <2> QED
    BY <1>1, <2>2 DEF Totals
<1>7. place \in Nat
  BY <1>1, <1>4, AddsFacts
<1>8. EntryAt(S, cp, entry, pool, place + 1)
  BY <1>1, <1>4 DEF PoolHas
<1>9. entry \in 1 .. maxcount - 1
  BY <1>1, <1>2, <1>4, <1>5, <1>6
<1> QED
  BY <1>1, <1>2, <1>4, <1>5, <1>7, <1>8, <1>9 DEF S, cp

LEMMA LoadHoleStep == FileInv /\ LoadHole => FileInv'
<1> SUFFICES ASSUME FileInv, LoadHole PROVE FileInv'
  OBVIOUS
<1> DEFINE S == saved.strings
           cp == saved.codepage
<1>1. /\ phase = "loading" /\ place < maxcount /\ pool[place + 1] = Hole
      /\ place' = place + 1 /\ entry' = entry + 1
      /\ UNCHANGED <<tableVars, codepage, refBytes, phase, sizes, pool, data, saved>>
  BY DEF LoadHole
<1>2. PICK m, t : Loading(m, t)
  BY <1>1 DEF FileInv
<1>3. /\ m \in Nat /\ entry \in 1 .. m - 1 /\ entry \in 1 .. maxcount - 1 /\ m <= MaxSlots
      /\ entry - 1 \in 0 .. m - 1 /\ entry \in 0 .. m - 1 /\ m - 1 \in 0 .. m - 1
      /\ t[entry].pool \in 0 .. Len(pool) /\ place \in Nat /\ Len(pool) \in Nat
      /\ EntryAt(S, cp, entry, pool, place + 1)
      /\ strings[entry] = ZeroSlot
  BY <1>1, <1>2, LoadingFacts
<1>4. SavedTable(S, cp, m) /\ Totals(S, cp, m, t) /\ place = t[entry - 1].pool
  BY <1>2 DEF Loading
<1>5. ~Kept(S, cp, entry)
  <2>1. SUFFICES ASSUME Kept(S, cp, entry) PROVE FALSE
    OBVIOUS
  <2>2. S[entry].str \in Text
    BY <1>3, <1>4, <2>1 DEF SavedTable
  <2>3. Size(S, entry) \in Nat /\ Size(S, entry) >= 1 /\ Word \in Nat
        /\ (Size(S, entry) < Word => Size(S, entry) % Word = Size(S, entry))
        /\ (Size(S, entry) >= Word => Size(S, entry) \div Word # 0)
    BY <2>2, WordFacts, SplitLength DEF Size
  <2>4. CASE Size(S, entry) < Word
    BY <1>1, <1>3, <2>1, <2>3, <2>4 DEF EntryAt, Hole
  <2>5. CASE ~(Size(S, entry) < Word)
    BY <1>1, <1>3, <2>1, <2>3, <2>5 DEF EntryAt, Hole
  <2> QED
    BY <2>4, <2>5
<1>6. t[entry].pool = place + 1 /\ t[entry].data = t[entry - 1].data
  BY <1>3, <1>4, <1>5, AddsFacts
<1>7. TableInv' /\ FileTypeOK'
  <2>1. TableInv'
    BY <1>1 DEF FileInv, tableVars, TableInv, TypeOK, IndexOK, SlotsOK, Live
  <2>2. MaxSlots \in Nat /\ entry' \in 0 .. MaxSlots /\ place' \in 0 .. Len(pool')
    BY <1>1, <1>3, <1>6, StringTableAssumption
  <2> QED
    BY <1>1, <2>1, <2>2 DEF FileInv, FileTypeOK, TableInv
<1>8. Loading(m, t)'
  <2>1. entry' \in 1 .. m /\ entry' - 1 = entry
    BY <1>1, <1>3
  <2>2. LoadedSlot(S, cp, entry, strings[entry])
    BY <1>3, <1>5 DEF LoadedSlot
  <2>3. \A n \in 0 .. entry' - 1 : LoadedSlot(S, cp, n, strings'[n])
    <3>1. \A n \in 0 .. entry : n \in 0 .. entry - 1 \/ n = entry
      BY <1>3
    <3> QED
      BY <1>1, <1>2, <2>1, <2>2, <3>1 DEF Loading, tableVars
  <2>4. DataHas(S, cp, t, entry', m - 1, t[entry' - 1].data, data')
    <3>1. DataHas(S, cp, t, entry, m - 1, t[entry - 1].data, data)
      BY <1>2 DEF Loading
    <3>2. \A n \in entry' .. m - 1 : n \in entry .. m - 1
      BY <1>1, <1>3
    <3> QED
      BY <1>1, <1>6, <2>1, <3>1, <3>2 DEF DataHas
  <2>5. /\ \A n \in 0 .. maxcount' - 1 : n >= entry' => strings'[n] = ZeroSlot
        /\ Len(sorted') <= entry' - 1 /\ freeslot' <= entry'
    <3>1. Len(sorted) \in Nat /\ freeslot \in Nat
      BY StringTableAssumption DEF FileInv, TableInv, TypeOK
    <3> QED
      BY <1>1, <1>2, <1>3, <3>1 DEF Loading, tableVars
  <2>6. /\ place' = t[entry' - 1].pool /\ Len(data') = t[m - 1].data - t[entry' - 1].data
        /\ maxcount' = Len(pool') /\ Len(pool') = t[m - 1].pool /\ ~wrapped'
        /\ maxcount' > 1 => codepage' = cp /\ refBytes' = saved.refBytes
        /\ saved.refBytes = (IF m > Word - 1 THEN "long" ELSE "short")
        /\ data' \in Seq(Byte) /\ PoolHas(S, cp, t, m - 1, pool')
        /\ freeslot' > 1 => Used(strings'[freeslot' - 1])
        /\ \A n \in Live' : n < freeslot'
    BY <1>1, <1>2, <1>6, <2>1 DEF Loading, tableVars, Live
  <2> QED
    BY <1>1, <1>4, <2>1, <2>3, <2>4, <2>5, <2>6 DEF Loading
<1>9. (\E a, b : Loading(a, b))'
  BY <1>8
<1> QED
  BY <1>1, <1>7, <1>9 DEF FileInv, RoundTrip

(* The index and the slots agree when the next string is put in.           *)
LEMMA StringPutIn ==
  ASSUME TableInv, ~wrapped, NEW n \in 1 .. maxcount - 1, ~Used(strings[n]), strings[n] \in SlotType,
         NEW s \in Text, \A k \in Live : strings[k].str # s,
         NEW refs \in 1 .. RefLimit - 1,
         \/ Hits(Comparison(strings, sorted, s)) # {} /\ UNCHANGED sorted
         \/ \E p \in Gaps(Comparison(strings, sorted, s)) : sorted' = Inserted(sorted, p, n),
         strings' = [strings EXCEPT ![n] = Slot(s, refs, 0)], freeslot' = n + 1,
         UNCHANGED <<maxcount, wrapped>>
  PROVE  /\ TableInv' /\ Len(sorted') = Len(sorted) + 1
         /\ strings'[n] = Slot(s, refs, 0)
         /\ \A k \in 0 .. maxcount - 1 : k # n => strings'[k] = strings[k]
<1> DEFINE c == Comparison(strings, sorted, s)
<1>1. /\ TypeOK /\ IndexedBy(strings, maxcount, sorted) /\ SlotsOK
      /\ maxcount \in Nat /\ maxcount \in 1 .. MaxSlots /\ strings \in [0 .. maxcount - 1 -> SlotType]
      /\ sorted \in Seq(1 .. maxcount - 1)
  BY StringTableAssumption DEF TableInv, IndexOK, TypeOK
<1>2. Hits(c) = {}
  BY <1>1, HitIsSlot
<1>3. PICK p \in Gaps(c) : sorted' = Inserted(sorted, p, n)
  BY <1>2
<1>4. /\ \A i \in 1 .. Len(sorted) : i <= p => strings[sorted[i]].str < s
      /\ \A i \in 1 .. Len(sorted) : i > p => s < strings[sorted[i]].str
  BY <1>1, MissIsNew
<1>5. p \in 0 .. Len(sorted)
  BY <1>1, ComparisonFacts DEF Gaps
<1>6. /\ sorted' \in Seq(1 .. maxcount - 1)
      /\ Len(sorted') = Len(sorted) + 1
      /\ \A i \in 1 .. p : sorted'[i] = sorted[i]
      /\ sorted'[p + 1] = n
      /\ \A i \in p + 1 .. Len(sorted) : sorted'[i + 1] = sorted[i]
  <2> DEFINE ids == 1 .. maxcount - 1
  <2>1. sorted \in Seq(ids) /\ n \in ids
    BY <1>1
  <2> HIDE DEF ids
  <2>2. Inserted(sorted, p, n) \in Seq(ids)
    BY <1>5, <2>1, InsertedFacts
  <2>3. Len(Inserted(sorted, p, n)) = Len(sorted) + 1
    BY <1>5, <2>1, InsertedFacts
  <2>4. \A i \in 1 .. p : Inserted(sorted, p, n)[i] = sorted[i]
    BY <1>5, <2>1, InsertedFacts
  <2>5. Inserted(sorted, p, n)[p + 1] = n
    BY <1>5, <2>1, InsertedFacts
  <2>6. \A i \in p + 1 .. Len(sorted) : Inserted(sorted, p, n)[i + 1] = sorted[i]
    BY <1>5, <2>1, InsertedFacts
  <2> QED
    BY <1>3, <2>2, <2>3, <2>4, <2>5, <2>6 DEF ids
<1>7. /\ strings'[n] = Slot(s, refs, 0)
      /\ \A k \in 0 .. maxcount - 1 : k # n => strings'[k] = strings[k]
  BY <1>1
<1>8. Slot(s, refs, 0) \in SlotType /\ Slot(s, refs, 0).str = s /\ Used(Slot(s, refs, 0)) /\ s \in Int
  BY StringTableAssumption DEF Slot, SlotType, Used
<1>9. IndexedBy(strings', maxcount, sorted')
  <2>0. PICK size \in Nat : size = maxcount
    BY <1>1
  <2>1. PICK new, q : new = strings' /\ q = sorted'
    OBVIOUS
  <2>2. /\ new[n].str = s /\ Used(new[n])
        /\ \A k \in 0 .. maxcount - 1 : k # n => new[k] = strings[k]
        /\ \A k \in maxcount .. size - 1 : k # n => ~Used(new[k])
        /\ n \in 1 .. size - 1 /\ maxcount <= size /\ (n < maxcount => ~Used(strings[n]))
    BY <1>1, <1>7, <1>8, <2>0, <2>1
  <2>3. /\ Len(q) = Len(sorted) + 1
        /\ \A i \in 1 .. p : q[i] = sorted[i]
        /\ q[p + 1] = n
        /\ \A i \in p + 1 .. Len(sorted) : q[i + 1] = sorted[i]
    BY <1>6, <2>1
  <2>4. IndexedBy(new, size, q)
    BY <1>1, <1>4, <1>5, <1>8, <2>2, <2>3, IndexWithNew
  <2> QED
    BY <2>0, <2>1, <2>4
<1>10. TypeOK'
  <2>1. strings' \in [0 .. maxcount - 1 -> SlotType]
    BY <1>1, <1>8
  <2> QED
    BY <1>1, <1>6, <2>1 DEF TypeOK
<1>11. SlotsOK'
  <2>1. \A k \in Live' : strings'[k].str \in Text
    <3>1. \A k \in Live' : k \in 1 .. maxcount - 1 /\ k \in 0 .. maxcount - 1 /\ Used(strings'[k])
      BY <1>1 DEF Live
    <3>2. \A k \in 1 .. maxcount - 1 : Used(strings[k]) => strings[k].str \in Text
      BY <1>1 DEF SlotsOK, Live
    <3> QED
      BY <1>7, <1>8, <3>1, <3>2
  <2>2. strings'[0] = ZeroSlot
    BY <1>1, <1>7 DEF SlotsOK
  <2> QED
    BY <2>1, <2>2 DEF SlotsOK
<1> QED
  BY <1>6, <1>7, <1>9, <1>10, <1>11 DEF TableInv, IndexOK

(* Taking the bytes of a slot leaves those of the slots behind it.         *)
LEMMA DataTaken ==
  ASSUME NEW S, NEW cp, NEW m, SavedTable(S, cp, m), NEW t, Totals(S, cp, m, t),
         NEW k \in 1 .. m - 1, Kept(S, cp, k), NEW d \in Seq(Byte),
         DataHas(S, cp, t, k, m - 1, t[k - 1].data, d), Len(d) = t[m - 1].data - t[k - 1].data
  PROVE  LET q == SubSeq(d, Size(S, k) + 1, Len(d)) IN
         /\ Size(S, k) <= Len(d)
         /\ q \in Seq(Byte) /\ Len(q) = t[m - 1].data - t[k].data
         /\ DataHas(S, cp, t, k + 1, m - 1, t[k].data, q)
<1> DEFINE len == Size(S, k)
           q == SubSeq(d, len + 1, Len(d))
<1>1. m \in Nat /\ k \in Nat /\ k \in 0 .. m - 1 /\ m - 1 \in 0 .. m - 1 /\ k <= m - 1
  BY DEF SavedTable
<1>2. len \in Nat /\ t[k].data = t[k - 1].data + len /\ t[k - 1].data \in Nat
  BY AddsFacts, WordFacts DEF Size
<1>3. t[k].data <= t[m - 1].data /\ t[m - 1].data \in Nat
  BY <1>1, TotalsGrow
<1> HIDE DEF len
<1>4. len <= Len(d) /\ Len(d) \in Nat
  BY <1>2, <1>3
<1>5. /\ q \in Seq(Byte) /\ Len(q) = Len(d) - len
      /\ \A i \in 1 .. Len(d) - len : q[i] = d[len + i]
  BY <1>2, <1>4
<1> HIDE DEF q
<1>6. ASSUME NEW n \in k + 1 .. m - 1, Kept(S, cp, n), NEW j \in 1 .. Size(S, n)
      PROVE  q[t[n - 1].data - t[k].data + j] = <<S[n].str, j>>
  <2>1. n \in 1 .. m - 1 /\ n \in 0 .. m - 1 /\ n - 1 \in 0 .. m - 1 /\ k <= n - 1 /\ n <= m - 1 /\ n \in k .. m - 1
    BY <1>1
  <2>2. t[k].data <= t[n - 1].data /\ t[n].data <= t[m - 1].data /\ t[n].data \in Nat /\ t[n - 1].data \in Nat
    BY <1>1, <2>1, TotalsGrow
  <2>3. t[n].data = t[n - 1].data + Size(S, n) /\ Size(S, n) \in Nat
    <3>1. S[n].str \in Text /\ t[n].data = t[n - 1].data + Size(S, n)
      BY <1>6, <2>1, AddsFacts
    <3>2. Size(S, n) \in Nat
      BY <3>1, WordFacts DEF Size
    <3> QED
      BY <3>1, <3>2
  <2>4. d[t[n - 1].data - t[k - 1].data + j] = <<S[n].str, j>>
    BY <1>6, <2>1 DEF DataHas
  <2>5. PICK i \in 1 .. Len(d) - len : i = t[n - 1].data - t[k].data + j
    <3>1. PICK a \in Nat : a = t[n - 1].data
      BY <2>2
    <3>2. PICK b \in Nat : b = t[k].data
      BY <1>2
    <3>3. PICK c \in Nat : c = t[m - 1].data
      BY <1>3
    <3>4. PICK w \in Nat : w = Size(S, n)
      BY <2>3
    <3>5. b <= a
      BY <2>2, <3>1, <3>2
    <3>6. a + w <= c
      BY <2>2, <2>3, <3>1, <3>3, <3>4
    <3>7. Len(d) - len = c - b
      BY <1>2, <1>3, <3>2, <3>3
    <3>8. a - b + j \in 1 .. c - b
      BY <3>4, <3>5, <3>6
    <3> QED
      BY <3>1, <3>2, <3>7, <3>8
  <2>6. len + i = t[n - 1].data - t[k - 1].data + j
    <3>1. PICK a \in Nat : a = t[n - 1].data
      BY <2>2
    <3>2. PICK b \in Nat : b = t[k - 1].data
      BY <1>2
    <3>3. t[k].data = b + len /\ i = a - t[k].data + j
      BY <1>2, <2>5, <3>1, <3>2
    <3>4. i = a - (b + len) + j
      BY <3>3
    <3>5. len + i = a - b + j
      BY <1>2, <2>3, <3>4
    <3> QED
      BY <3>1, <3>2, <3>5
  <2> QED
    BY <1>5, <2>4, <2>5, <2>6
<1>7. DataHas(S, cp, t, k + 1, m - 1, t[k].data, q)
  BY <1>6 DEF DataHas
<1>8. Len(q) = t[m - 1].data - t[k].data
  BY <1>2, <1>3, <1>5
<1> QED
  BY <1>4, <1>5, <1>7, <1>8 DEF q, len

(* What a pair at the front of the loop says: a slot that was written, and *)
(* of a short string all there is to know.                                 *)
LEMMA EntrySays ==
  ASSUME FileInv, phase = "loading", LoadEntry, NEW m, NEW t, Loading(m, t)
  PROVE  LET S == saved.strings
             cp == saved.codepage IN
         /\ Kept(S, cp, entry)
         /\ \E len \in Nat, refs \in 1 .. RefLimit - 1 :
              /\ LoadString(len, refs, Entries(Size(S, entry)))
              /\ len >= 1
              /\ Size(S, entry) < Word => len = Size(S, entry) /\ refs = S[entry].pref
<1> DEFINE S == saved.strings
           cp == saved.codepage
           size == Size(S, entry)
           here == pool[place + 1]
           next == pool[place + 2]
<1>1. place < maxcount
  BY DEF LoadEntry
<1>2. \/ here[1] # 0 /\ LoadString(here[1], here[2], 1)
      \/ here[1] = 0 /\ here[2] # 0 /\ LoadString(next[2] * Word + next[1], here[2], 2)
  BY DEF LoadEntry
<1>3. /\ entry \in 1 .. m - 1 /\ entry \in 0 .. m - 1 /\ EntryAt(S, cp, entry, pool, place + 1) /\ place \in Nat
  BY <1>1, LoadingFacts
<1>4. SavedTable(S, cp, m)
  BY DEF Loading
<1> HIDE DEF S, cp, here, next
<1>5. Kept(S, cp, entry)
  <2>1. SUFFICES ASSUME ~Kept(S, cp, entry) PROVE FALSE
    OBVIOUS
  <2>2. here = <<0, 0>>
    BY <1>3, <2>1 DEF EntryAt, Hole, here
  <2> QED
    BY <1>2, <2>2
<1>6. S[entry].str \in Text /\ S[entry].pref \in 0 .. Word - 1 /\ S[entry].pref # 0
  <2>1. S[entry] \in SlotType
    BY <1>3, <1>4 DEF SavedTable
  <2> QED
    BY <1>3, <1>4, <1>5, <2>1 DEF SavedTable, Kept, SlotType, Word
<1>7. /\ size \in Nat /\ size >= 1 /\ Word \in Nat /\ Word > 1
      /\ size % Word \in 0 .. Word - 1 /\ size \div Word \in 0 .. Word - 1
      /\ size < Word => size % Word = size
      /\ size >= Word => size \div Word # 0
  BY <1>6, WordFacts, SplitLength DEF Size
<1> HIDE DEF size
<1>8. CASE size < Word
  <2>1. here = <<size, S[entry].pref>>
    BY <1>3, <1>5, <1>7, <1>8 DEF EntryAt, here, size
  <2>2. LoadString(size, S[entry].pref, 1)
    BY <1>2, <1>7, <2>1
  <2>3. Entries(size) = 1 /\ S[entry].pref \in 1 .. RefLimit - 1
    BY <1>6, <1>7, <1>8 DEF Entries, Word
  <2> QED
    BY <1>5, <1>7, <2>2, <2>3 DEF S, cp, size
<1>9. CASE ~(size < Word)
  <2>1. here = <<0, size \div Word>> /\ next = <<size % Word, S[entry].pref>>
    <3>1. place + 1 + 1 = place + 2
      BY <1>3
    <3> QED
      BY <1>3, <1>5, <1>9, <3>1 DEF EntryAt, here, next, size
  <2>2. LoadString(S[entry].pref * Word + (size % Word), size \div Word, 2)
    BY <1>2, <2>1
  <2>3. Entries(size) = 2 /\ size \div Word \in 1 .. RefLimit - 1
    BY <1>7, <1>9 DEF Entries, Word
  <2>4. S[entry].pref * Word + (size % Word) \in Nat /\ S[entry].pref * Word + (size % Word) >= 1
    <3>1. PICK a \in Nat, b \in Nat : a = S[entry].pref /\ b = size % Word /\ a >= 1
      BY <1>6, <1>7
    <3>2. a * Word \in Nat /\ a * Word >= 1
      BY <1>7, <3>1
    <3> QED
      BY <3>1, <3>2
  <2> QED
    BY <1>5, <1>9, <2>2, <2>3, <2>4 DEF S, cp, size
<1> QED
  BY <1>8, <1>9

(* The bytes that are taken can only be those of the string of the slot.   *)
LEMMA RightString ==
  ASSUME NEW S, NEW cp, NEW m, SavedTable(S, cp, m), NEW t, Totals(S, cp, m, t),
         NEW k \in 1 .. m - 1, Kept(S, cp, k), NEW d \in Seq(Byte),
         DataHas(S, cp, t, k, m - 1, t[k - 1].data, d), Len(d) = t[m - 1].data - t[k - 1].data,
         NEW len \in Nat, len >= 1, len <= Len(d), NEW s \in Text, Decodes(SubSeq(d, 1, len), s)
  PROVE  s = S[k].str /\ len = Size(S, k)
<1>1. SubSeq(d, 1, len) = [j \in 1 .. Length[s] |-> <<s, j>>]
  BY DEF Decodes, Bytes
<1>2. Len(SubSeq(d, 1, len)) = len /\ SubSeq(d, 1, len)[1] = d[1] /\ DOMAIN SubSeq(d, 1, len) = 1 .. len
  OBVIOUS
<1>3. Length[s] \in Nat /\ Length[s] >= 1
  BY WordFacts
<1>4. 1 .. len = 1 .. Length[s]
  BY <1>1, <1>2
<1>5. len = Length[s]
  BY <1>3, <1>4
<1>6. d[1] = <<s, 1>>
  <2>1. 1 \in 1 .. Length[s]
    BY <1>3
  <2>2. [j \in 1 .. Length[s] |-> <<s, j>>][1] = <<s, 1>>
    BY <2>1
  <2> QED
    BY <1>1, <1>2, <2>2
<1>7. m \in Nat /\ k \in k .. m - 1 /\ k \in 0 .. m - 1
  BY DEF SavedTable
<1>8. S[k].str \in Text /\ t[k - 1].data \in Nat
  BY AddsFacts
<1>9. 1 \in 1 .. Size(S, k)
  BY <1>8, WordFacts DEF Size
<1>10. d[t[k - 1].data - t[k - 1].data + 1] = <<S[k].str, 1>>
  BY <1>7, <1>9 DEF DataHas
<1>11. d[1] = <<S[k].str, 1>>
  <2>1. t[k - 1].data - t[k - 1].data + 1 = 1
    BY <1>8
  <2> QED
    BY <1>10, <2>1
<1>12. s = S[k].str
  BY <1>6, <1>11
<1> QED
  BY <1>5, <1>12 DEF Size

(* A string is loaded into its slot.                                       *)
LEMMA StringLoaded ==
  ASSUME FileInv, phase = "loading", place < maxcount, NEW m, NEW t, Loading(m, t),
         Kept(saved.strings, saved.codepage, entry),
         NEW len \in Nat, len >= 1, NEW refs \in 1 .. RefLimit - 1,
         Size(saved.strings, entry) < Word =>
           len = Size(saved.strings, entry) /\ refs = saved.strings[entry].pref,
         UNCHANGED <<codepage, refBytes, sizes, pool, saved, maxcount, wrapped, phase>>,
         place' = place + Entries(Size(saved.strings, entry)), Len(data) >= len,
         NEW s \in Text, Decodes(SubSeq(data, 1, len), s),
         \/ Hits(Comparison(strings, sorted, s)) # {} /\ UNCHANGED sorted
         \/ \E p \in Gaps(Comparison(strings, sorted, s)) : sorted' = Inserted(sorted, p, entry),
         strings' = [strings EXCEPT ![entry] = Slot(s, refs, 0)],
         freeslot' = entry + 1, data' = SubSeq(data, len + 1, Len(data)), entry' = entry + 1
  PROVE  FileInv'
<1> DEFINE S == saved.strings
           cp == saved.codepage
           e == entry
           d == data
<1>1. /\ SavedTable(S, cp, m) /\ Totals(S, cp, m, t) /\ maxcount = Len(pool) /\ Len(pool) = t[m - 1].pool
      /\ ~wrapped /\ place = t[e - 1].pool /\ PoolHas(S, cp, t, m - 1, pool)
      /\ d \in Seq(Byte) /\ Len(d) = t[m - 1].data - t[e - 1].data
      /\ DataHas(S, cp, t, e, m - 1, t[e - 1].data, d)
      /\ \A n \in 0 .. e - 1 : LoadedSlot(S, cp, n, strings[n])
      /\ \A n \in 0 .. maxcount - 1 : n >= e => strings[n] = ZeroSlot
      /\ Len(sorted) <= e - 1 /\ freeslot <= e
      /\ \A n \in Live : n < freeslot
  BY DEF Loading
<1>2. /\ m \in Nat /\ e \in 1 .. m - 1 /\ e \in 1 .. maxcount - 1 /\ m <= MaxSlots
      /\ e - 1 \in 0 .. m - 1 /\ e \in 0 .. m - 1
      /\ t[e].pool \in 0 .. Len(pool) /\ place \in Nat /\ Len(pool) \in Nat
      /\ strings[e] = ZeroSlot
  BY LoadingFacts
<1>3. TableInv /\ TypeOK /\ FileTypeOK
  BY DEF FileInv, TableInv
<1>4. s = S[e].str /\ len = Size(S, e)
  <2>1. Kept(S, cp, e) /\ Decodes(SubSeq(d, 1, len), s)
    OBVIOUS
  <2>2. Len(d) \in Nat
    BY <1>1
  <2>3. len <= Len(d)
    BY <2>2
  <2> HIDE DEF S, cp, e, d
  <2>4. PICK k \in 1 .. m - 1 : k = e
    BY <1>2
  <2>5. PICK q \in Seq(Byte) : q = d
    BY <1>1
  <2>6. /\ Kept(S, cp, k) /\ DataHas(S, cp, t, k, m - 1, t[k - 1].data, q)
        /\ Len(q) = t[m - 1].data - t[k - 1].data /\ len <= Len(q) /\ Decodes(SubSeq(q, 1, len), s)
    BY <1>1, <2>1, <2>3, <2>4, <2>5
  <2>7. s = S[k].str /\ len = Size(S, k)
    BY <1>1, <2>6, RightString
  <2> QED
    BY <2>4, <2>7
<1>5. /\ t[e].pool = t[e - 1].pool + Entries(Size(S, e)) /\ t[e - 1].pool \in Nat
      /\ t[e].data = t[e - 1].data + Size(S, e)
  <2>1. Kept(S, cp, e)
    OBVIOUS
  <2> HIDE DEF S, cp, e
  <2> QED
    BY <1>1, <1>2, <2>1, AddsFacts
<1>6. \A k \in Live : strings[k].str # s
  <2>1. SUFFICES ASSUME NEW k \in Live, strings[k].str = s PROVE FALSE
    OBVIOUS
  <2>2. k \in 1 .. maxcount - 1 /\ k < freeslot /\ Used(strings[k]) /\ maxcount \in Nat /\ freeslot \in Nat
    BY <1>1, <1>3, StringTableAssumption DEF Live, TypeOK
  <2>3. k \in 1 .. e - 1 /\ k \in 0 .. e - 1 /\ k \in 1 .. m - 1 /\ k # e
    BY <1>1, <1>2, <2>2
  <2>4. LoadedSlot(S, cp, k, strings[k])
    BY <1>1, <2>3
  <2>5. Kept(S, cp, k)
    BY <2>2, <2>4 DEF LoadedSlot, ZeroSlot, Slot, Used
  <2>6. S[k].str = S[e].str
    BY <1>4, <2>1, <2>4, <2>5 DEF LoadedSlot
  <2> QED
    BY <1>1, <1>2, <2>3, <2>5, <2>6 DEF SavedTable
<1>7. ~Used(strings[e]) /\ strings[e] \in SlotType
  BY <1>2, StringTableAssumption DEF Used, ZeroSlot, Slot, SlotType
<1>8. /\ TableInv' /\ Len(sorted') = Len(sorted) + 1
      /\ strings'[e] = Slot(s, refs, 0)
      /\ \A k \in 0 .. maxcount - 1 : k # e => strings'[k] = strings[k]
  BY <1>1, <1>2, <1>3, <1>6, <1>7, StringPutIn
<1>9. /\ data' \in Seq(Byte) /\ Len(data') = t[m - 1].data - t[e].data
      /\ DataHas(S, cp, t, e + 1, m - 1, t[e].data, data')
  <2>1. Kept(S, cp, e)
    OBVIOUS
  <2>2. data' = SubSeq(d, Size(S, e) + 1, Len(d))
    BY <1>4
  <2> HIDE DEF S, cp, e, d
  <2>3. PICK k \in 1 .. m - 1 : k = e
    BY <1>2
  <2>4. PICK q \in Seq(Byte) : q = d
    BY <1>1
  <2>5. /\ Kept(S, cp, k) /\ DataHas(S, cp, t, k, m - 1, t[k - 1].data, q)
        /\ Len(q) = t[m - 1].data - t[k - 1].data
        /\ SavedTable(S, cp, m) /\ Totals(S, cp, m, t)
    BY <1>1, <2>1, <2>3, <2>4
  <2>6. PICK r : r = SubSeq(q, Size(S, k) + 1, Len(q))
    OBVIOUS
  <2>7. r \in Seq(Byte) /\ Len(r) = t[m - 1].data - t[k].data /\ DataHas(S, cp, t, k + 1, m - 1, t[k].data, r)
    <3>1. LET u == SubSeq(q, Size(S, k) + 1, Len(q)) IN
          /\ u \in Seq(Byte) /\ Len(u) = t[m - 1].data - t[k].data
          /\ DataHas(S, cp, t, k + 1, m - 1, t[k].data, u)
      BY <2>5, DataTaken
    <3> QED
      BY <2>6, <3>1, Zenon
  <2>8. r = data'
    BY <2>2, <2>3, <2>4, <2>6
  <2> QED
    BY <2>3, <2>7, <2>8
<1>10. FileTypeOK'
  <2>1. entry' \in 0 .. MaxSlots /\ place' \in 0 .. Len(pool')
    <3>1. MaxSlots \in Nat /\ entry' = e + 1 /\ place' = t[e].pool /\ pool' = pool
      BY <1>1, <1>5, StringTableAssumption
    <3>2. entry' \in 0 .. MaxSlots
      BY <1>2, <3>1
    <3> QED
      BY <1>2, <3>1, <3>2
  <2> QED
    BY <1>3, <1>8, <2>1 DEF FileTypeOK, TableInv
<1>11. LoadedSlot(S, cp, e, strings'[e])
  <2>1. /\ Slot(s, refs, 0).str = S[e].str /\ Slot(s, refs, 0).pref = refs /\ Slot(s, refs, 0).npref = 0
        /\ refs # 0
    BY <1>4, StringTableAssumption DEF Slot
  <2>2. Size(S, e) < Word => Slot(s, refs, 0) = Slot(S[e].str, S[e].pref, 0)
    BY <1>4
  <2> QED
    BY <1>8, <2>1, <2>2 DEF LoadedSlot
<1>12. Loading(m, t)'
  <2>1. entry' \in 1 .. m /\ entry' - 1 = e
    BY <1>2
  <2>2. \A n \in 0 .. entry' - 1 : LoadedSlot(S, cp, n, strings'[n])
    <3>1. SUFFICES ASSUME NEW n \in 0 .. e PROVE LoadedSlot(S, cp, n, strings'[n])
      BY <2>1
    <3>2. CASE n = e
      BY <1>11, <3>2
    <3>3. CASE n # e
      <4>1. n \in 0 .. e - 1 /\ n \in 0 .. maxcount - 1
        <5>1. e \in 1 .. m - 1 /\ e \in 1 .. maxcount - 1 /\ m \in Nat /\ maxcount \in Nat
          BY <1>1, <1>2
        <5> HIDE DEF e
        <5> QED
          BY <3>3, <5>1
      <4>2. strings'[n] = strings[n] /\ LoadedSlot(S, cp, n, strings[n])
        BY <1>1, <1>8, <3>3, <4>1
      <4> QED
        BY <4>2
    <3> QED
      BY <3>2, <3>3
  <2>3. \A n \in 0 .. maxcount' - 1 : n >= entry' => strings'[n] = ZeroSlot
    <3>1. SUFFICES ASSUME NEW n \in 0 .. maxcount - 1, n >= e + 1 PROVE strings'[n] = ZeroSlot
      OBVIOUS
    <3>2. n # e /\ n >= e
      BY <1>2, <3>1
    <3>3. strings'[n] = strings[n] /\ strings[n] = ZeroSlot
      BY <1>1, <1>8, <3>1, <3>2
    <3> QED
      BY <3>3
  <2>4. Len(sorted') <= entry' - 1 /\ freeslot' <= entry'
    <3>1. Len(sorted) \in Nat /\ e \in Nat
      BY <1>2, <1>3 DEF TypeOK
    <3>2. Len(sorted) <= e - 1 /\ Len(sorted') = Len(sorted) + 1 /\ entry' = e + 1 /\ freeslot' = e + 1
      BY <1>1, <1>8
    <3> HIDE DEF e
    <3> QED
      BY <3>1, <3>2
  <2>5. freeslot' > 1 => Used(strings'[freeslot' - 1])
    <3>1. freeslot' - 1 = e
      BY <1>2
    <3>2. Used(Slot(s, refs, 0))
      BY StringTableAssumption DEF Used, Slot
    <3> QED
      BY <1>8, <3>1, <3>2
  <2>6. \A n \in Live' : n < freeslot'
    <3>1. SUFFICES ASSUME NEW n \in Live', n # e PROVE n < freeslot'
      BY <1>2
    <3>2. n \in 0 .. maxcount - 1 /\ n \in 1 .. maxcount - 1 /\ Used(strings'[n]) /\ freeslot \in Nat
      BY <1>2, <1>3, StringTableAssumption DEF Live, TypeOK
    <3>3. n \in Live
      BY <1>8, <3>1, <3>2 DEF Live
    <3> QED
      BY <1>1, <1>2, <3>2, <3>3
  <2>7. place' = t[entry' - 1].pool /\ Len(data') = t[m - 1].data - t[entry' - 1].data
    BY <1>1, <1>5, <1>9, <2>1
  <2>8. /\ maxcount' = Len(pool') /\ Len(pool') = t[m - 1].pool /\ ~wrapped'
        /\ maxcount' > 1 => codepage' = cp /\ refBytes' = saved.refBytes
        /\ saved.refBytes = (IF m > Word - 1 THEN "long" ELSE "short")
        /\ PoolHas(S, cp, t, m - 1, pool')
    BY DEF Loading
  <2>9. DataHas(S, cp, t, entry', m - 1, t[entry' - 1].data, data')
    BY <1>9, <2>1
  <2> HIDE DEF e
  <2> QED
    BY <1>1, <1>9, <2>1, <2>2, <2>3, <2>4, <2>5, <2>6, <2>7, <2>8, <2>9 DEF Loading
<1>13. (\E a, b : Loading(a, b))'
  BY <1>12
<1> QED
  BY <1>8, <1>10, <1>13 DEF FileInv, RoundTrip

LEMMA LoadEntryStep == FileInv /\ LoadEntry => FileInv'
<1> SUFFICES ASSUME FileInv, LoadEntry PROVE FileInv'
  OBVIOUS
<1> DEFINE S == saved.strings
           cp == saved.codepage
<1>1. phase = "loading" /\ place < maxcount /\ UNCHANGED <<codepage, refBytes, sizes, pool, saved>>
  BY DEF LoadEntry
<1>2. PICK m, t : Loading(m, t)
  BY <1>1 DEF FileInv
<1>3. /\ Kept(S, cp, entry)
      /\ \E len \in Nat, refs \in 1 .. RefLimit - 1 :
           /\ LoadString(len, refs, Entries(Size(S, entry)))
           /\ len >= 1
           /\ Size(S, entry) < Word => len = Size(S, entry) /\ refs = S[entry].pref
  BY <1>1, <1>2, EntrySays
<1>4. PICK len \in Nat, refs \in 1 .. RefLimit - 1 :
           /\ LoadString(len, refs, Entries(Size(S, entry)))
           /\ len >= 1
           /\ Size(S, entry) < Word => len = Size(S, entry) /\ refs = S[entry].pref
  BY <1>3
<1>5. place' = place + Entries(Size(S, entry))
  BY <1>4 DEF LoadString
<1>6. CASE /\ Len(data) >= len
           /\ \E s \in Text :
                /\ Decodes(SubSeq(data, 1, len), s)
                /\ LET c == Comparison(strings, sorted, s) IN
                   \/ Hits(c) # {} /\ UNCHANGED sorted
                   \/ \E p \in Gaps(c) : sorted' = Inserted(sorted, p, entry)
                /\ strings' = [strings EXCEPT ![entry] = Slot(s, refs, 0)]
           /\ freeslot' = entry + 1
           /\ data' = SubSeq(data, len + 1, Len(data))
           /\ entry' = entry + 1
           /\ UNCHANGED <<maxcount, wrapped, phase>>
  BY <1>1, <1>2, <1>3, <1>4, <1>5, <1>6, StringLoaded
<1>7. /\ SavedTable(S, cp, m) /\ Totals(S, cp, m, t) /\ place = t[entry - 1].pool
      /\ Len(data) = t[m - 1].data - t[entry - 1].data
  BY <1>2 DEF Loading
<1>8. /\ m \in Nat /\ entry \in 1 .. m - 1 /\ entry \in 0 .. m - 1 /\ m - 1 \in 0 .. m - 1
      /\ t[entry].pool \in 0 .. Len(pool)
  BY <1>1, <1>2, LoadingFacts
<1>9. /\ t[entry].pool = t[entry - 1].pool + Entries(Size(S, entry)) /\ S[entry].str \in Text
      /\ t[entry].data = t[entry - 1].data + Size(S, entry) /\ t[entry - 1].data \in Nat
  BY <1>3, <1>7, <1>8, AddsFacts
<1>10. ASSUME UNCHANGED <<tableVars, data, entry>>, phase' \in {"corrupt", "reloaded"},
              phase' = "reloaded" => ~ShortStrings
       PROVE  FileInv'
  <2>1. TableInv'
    BY <1>10 DEF FileInv, tableVars, TableInv, TypeOK, IndexOK, SlotsOK, Live
  <2>2. FileTypeOK'
    <3>1. place' \in 0 .. Len(pool')
      BY <1>1, <1>5, <1>7, <1>8, <1>9
    <3> QED
      BY <1>1, <1>10, <2>1, <3>1 DEF FileInv, FileTypeOK, TableInv
  <2>3. ShortStrings' => ShortStrings
    BY <1>1 DEF ShortStrings
  <2>4. RoundTrip'
    BY <1>10, <2>3 DEF RoundTrip
  <2> QED
    BY <1>10, <2>1, <2>2, <2>4 DEF FileInv
<1>11. CASE /\ \A s \in Text : ~Decodes(SubSeq(data, 1, len), s)
            /\ phase' = "corrupt" /\ UNCHANGED <<tableVars, data, entry>>
  BY <1>10, <1>11
<1>12. CASE Len(data) < len /\ phase' = "reloaded" /\ UNCHANGED <<tableVars, data, entry>>
  <2>1. ASSUME ShortStrings PROVE FALSE
    <3>1. DOMAIN S = 0 .. m - 1
      BY <1>7 DEF SavedTable
    <3>2. Size(S, entry) < Word
      BY <1>3, <1>8, <2>1, <3>1 DEF ShortStrings, Kept, Size
    <3>3. len = Size(S, entry)
      BY <1>4, <3>2
    <3>4. entry <= m - 1
      BY <1>8
    <3>5. t[entry].data <= t[m - 1].data /\ t[m - 1].data \in Nat
      BY <1>7, <1>8, <3>4, TotalsGrow
    <3> QED
      BY <1>7, <1>9, <1>12, <3>3, <3>5
  <2> QED
    BY <1>10, <1>12, <2>1
<1> QED
  BY <1>4, <1>6, <1>11, <1>12 DEF LoadString

(* All entries read: without long strings, all slots are loaded, and the   *)
(* table is the one that was saved.                                        *)
LEMMA AllLoaded ==
  ASSUME FileInv, NEW m, NEW t, Loading(m, t), place >= maxcount, ShortStrings
  PROVE  StringsKept /\ LoadedAsInit /\ HeaderKept
<1> DEFINE S == saved.strings
           cp == saved.codepage
<1>1. /\ SavedTable(S, cp, m) /\ Totals(S, cp, m, t) /\ ~wrapped
      /\ maxcount = Len(pool) /\ Len(pool) = t[m - 1].pool
      /\ saved.refBytes = (IF m > Word - 1 THEN "long" ELSE "short")
      /\ maxcount > 1 => codepage = cp /\ refBytes = saved.refBytes
      /\ entry \in 1 .. m /\ place = t[entry - 1].pool
      /\ \A n \in 0 .. entry - 1 : LoadedSlot(S, cp, n, strings[n])
      /\ Len(sorted) <= entry - 1
      /\ freeslot > 1 => Used(strings[freeslot - 1])
      /\ \A n \in Live : n < freeslot
  BY DEF Loading
<1>2. m \in Nat /\ m >= 1 /\ S \in [0 .. m - 1 -> SlotType] /\ DOMAIN S = 0 .. m - 1
  BY <1>1 DEF SavedTable
<1>3. Short(S, cp, m)
  BY <1>2 DEF ShortStrings, Short, Kept, Size
<1>4. maxcount = m /\ entry = m
  <2>1. entry - 1 \in 0 .. m - 1 /\ m - 1 \in 0 .. m - 1
    BY <1>1, <1>2
  <2> HIDE DEF S, cp
  <2>2. t[m - 1].pool = m - 1 + 1 /\ t[entry - 1].pool = entry - 1 + 1
    BY <1>1, <1>3, <2>1, ShortTotals
  <2> QED
    BY <1>1, <1>2, <2>2
<1>5. /\ strings \in [0 .. m - 1 -> SlotType] /\ IndexedBy(strings, maxcount, sorted)
      /\ freeslot \in 1 .. m /\ sorted \in Seq(1 .. m - 1) /\ strings[0] = ZeroSlot
  BY <1>1, <1>4 DEF FileInv, TableInv, TypeOK, IndexOK, SlotsOK
<1>6. ASSUME NEW n \in 0 .. m - 1
      PROVE  /\ Kept(S, cp, n) => strings[n] = Slot(S[n].str, S[n].pref, 0) /\ Used(strings[n])
             /\ ~Kept(S, cp, n) => strings[n] = ZeroSlot /\ ~Used(strings[n])
  <2>1. LoadedSlot(S, cp, n, strings[n])
    BY <1>1, <1>4
  <2>2. Kept(S, cp, n) => strings[n] = Slot(S[n].str, S[n].pref, 0) /\ Used(strings[n])
    BY <1>3, <2>1 DEF LoadedSlot, Short, Used
  <2>3. ~Kept(S, cp, n) => strings[n] = ZeroSlot /\ ~Used(strings[n])
    BY <2>1 DEF LoadedSlot, Used, ZeroSlot, Slot
  <2> QED
    BY <2>2, <2>3
<1>7. StringsKept
  <2>1. \A n \in 0 .. m - 1 : strings[n] = Reloaded(S[n])
    BY <1>6 DEF Reloaded, Kept
  <2>2. strings = [n \in 0 .. m - 1 |-> Reloaded(S[n])]
    BY <1>5, <2>1
  <2> QED
    BY <1>2, <2>2 DEF StringsKept
<1>8. LoadedAsInit
  <2>1. \A i \in 0 .. m - 1 : IF i \in Live THEN strings[i] = Slot(strings[i].str, strings[i].pref, 0)
                                            ELSE strings[i] = ZeroSlot
    <3>1. SUFFICES ASSUME NEW i \in 0 .. m - 1
                   PROVE  IF i \in Live THEN strings[i] = Slot(strings[i].str, strings[i].pref, 0)
                                        ELSE strings[i] = ZeroSlot
      OBVIOUS
    <3>2. CASE i \in Live
      <4>1. strings[i] = Slot(S[i].str, S[i].pref, 0)
        BY <1>6, <3>2 DEF Live
      <4> QED
        BY <3>2, <4>1 DEF Slot
    <3>3. CASE i \notin Live
      <4>1. i = 0 \/ i \in 1 .. maxcount - 1
        BY <1>2, <1>4
      <4>2. i = 0 \/ ~Used(strings[i])
        BY <3>3, <4>1 DEF Live
      <4> QED
        BY <1>5, <1>6, <3>3, <4>2
    <3> QED
      BY <3>2, <3>3
  <2>2. Live \in SUBSET (1 .. maxcount - 1)
    BY DEF Live
  <2>3. \E n \in 0 .. maxcount - 1 : sorted \in [1 .. n -> Live]
    <3>1. Len(sorted) \in 0 .. maxcount - 1
      BY <1>1, <1>2, <1>4, <1>5
    <3>2. sorted \in [1 .. Len(sorted) -> Live]
      <4>1. \A i \in 1 .. Len(sorted) : sorted[i] \in Live
        BY <1>5 DEF IndexedBy, Live
      <4> QED
        BY <1>5, <4>1
    <3> QED
      BY <3>1, <3>2
  <2>4. freeslot > 1 => freeslot - 1 \in Live
    BY <1>1, <1>2, <1>4, <1>5 DEF Live
  <2>5. strings = [i \in 0 .. maxcount - 1 |->
                    IF i \in Live THEN Slot([n \in Live |-> strings[n].str][i], [n \in Live |-> strings[n].pref][i], 0)
                                   ELSE ZeroSlot]
    BY <1>4, <1>5, <2>1
  <2>6. Holds(Live, [n \in Live |-> strings[n].str], [n \in Live |-> strings[n].pref])
    BY <1>1, <1>4, <1>5, <2>3, <2>4, <2>5 DEF Holds
  <2> QED
    BY <1>5, <2>2, <2>6 DEF LoadedAsInit
<1>9. HeaderKept
  <2>1. ASSUME refBytes = "short", NEW n \in Live PROVE n < Word
    <3>1. n \in 1 .. m - 1 /\ maxcount > 1
      BY <1>2, <1>4 DEF Live
    <3>2. ~(m > Word - 1)
      BY <1>1, <2>1, <3>1
    <3> QED
      BY <1>2, <3>1, <3>2, WordFacts
  <2> QED
    BY <1>1, <2>1 DEF HeaderKept
<1> QED
  BY <1>7, <1>8, <1>9

LEMMA LoadEndStep == FileInv /\ LoadEnd => FileInv'
<1> SUFFICES ASSUME FileInv, LoadEnd PROVE FileInv'
  OBVIOUS
<1>1. /\ phase = "loading" /\ place >= maxcount /\ phase' = "reloaded"
      /\ UNCHANGED <<tableVars, codepage, refBytes, entry, place, sizes, pool, data, saved>>
  BY DEF LoadEnd
<1>2. PICK m, t : Loading(m, t)
  BY <1>1 DEF FileInv
<1>3. TableInv' /\ FileTypeOK'
  BY <1>1 DEF FileInv, FileTypeOK, tableVars, TableInv, TypeOK, IndexOK, SlotsOK, Live
<1>4. RoundTrip'
  <2>1. SUFFICES ASSUME ShortStrings' PROVE StringsKept' /\ LoadedAsInit' /\ HeaderKept'
    BY DEF RoundTrip
  <2>2. ShortStrings
    BY <1>1, <2>1 DEF ShortStrings
  <2>3. StringsKept /\ LoadedAsInit /\ HeaderKept
    BY <1>1, <1>2, <2>2, AllLoaded
  <2> QED
    BY <1>1, <2>3 DEF StringsKept, Reloaded, LoadedAsInit, Holds, HeaderKept, Live, tableVars
<1> QED
  BY <1>1, <1>3, <1>4 DEF FileInv

-----------------------------------------------------------------------------
(* The open database.                                                      *)

LEMMA ForgetStep ==
  ASSUME FileInv, TableInv', codepage' \in Codepage, refBytes' = refBytes, Forget
  PROVE  FileInv'
<1>1. FileTypeOK'
  <2>1. entry' \in 0 .. MaxSlots /\ place' \in 0 .. Len(pool') /\ sizes' \in [pool : Nat, data : Nat]
        /\ pool' = <<>>
    BY StringTableAssumption DEF Forget
  <2>2. \A k \in 2 .. Len(pool') : pool'[k] \in (0 .. Word - 1) \X (0 .. Word - 1)
    BY <2>1
  <2> QED
    BY <2>1, <2>2 DEF Forget, FileInv, FileTypeOK, TableInv
<1> QED
  BY <1>1 DEF FileInv, Forget, RoundTrip

LEMMA FileStart == FileInit => FileInv
<1> SUFFICES ASSUME FileInit PROVE FileInv
  OBVIOUS
<1>1. /\ maxcount = 1 /\ strings = [n \in {0} |-> ZeroSlot] /\ freeslot = 1 /\ sorted = <<>> /\ wrapped = FALSE
      /\ codepage = Acp /\ refBytes = "short" /\ phase = "open"
      /\ entry = 0 /\ place = 0 /\ sizes = [pool |-> 0, data |-> 0] /\ pool = <<>>
  BY DEF FileInit
<1>2. ZeroSlot \in SlotType /\ strings[0] = ZeroSlot /\ 0 .. 1 - 1 = {0} /\ 1 .. 1 - 1 = {}
  BY <1>1, StringTableAssumption DEF ZeroSlot, Slot, SlotType
<1>3. TypeOK
  <2>1. strings \in [0 .. maxcount - 1 -> SlotType]
    BY <1>1, <1>2
  <2>2. sorted \in Seq(1 .. maxcount - 1)
    BY <1>1
  <2> QED
    BY <1>1, <2>1, <2>2, StringTableAssumption DEF TypeOK
<1>4. IndexedBy(strings, maxcount, sorted)
  BY <1>1, <1>2 DEF IndexedBy
<1>5. SlotsOK
  BY <1>1, <1>2 DEF SlotsOK, Live
<1>6. FileTypeOK
  <2>1. entry \in 0 .. MaxSlots /\ place \in 0 .. Len(pool) /\ codepage \in Codepage
    BY <1>1, StringTableAssumption, StringPoolFileAssumption
  <2> QED
    BY <1>1, <1>3, <2>1 DEF FileTypeOK
<1> QED
  BY <1>1, <1>3, <1>4, <1>5, <1>6 DEF FileInv, TableInv, IndexOK, RoundTrip

LEMMA StepFile == FileInv /\ [FileNext]_allVars => FileInv'
<1> SUFFICES ASSUME FileInv, [FileNext]_allVars PROVE FileInv'
  OBVIOUS
<1>1. CASE Add
  <2>1. TableInv'
    BY <1>1, StepTable DEF Add, FileInv
  <2>2. Forget /\ codepage' \in Codepage /\ refBytes' = refBytes
    BY <1>1 DEF Add, FileInv, FileTypeOK
  <2> QED
    BY <2>1, <2>2, ForgetStep
<1>2. ASSUME NEW cp \in Codepage, SetCodepage(cp) PROVE FileInv'
  <2>1. Forget /\ codepage' \in Codepage /\ refBytes' = refBytes /\ UNCHANGED tableVars
    BY <1>2 DEF SetCodepage
  <2>2. TableInv'
    BY <2>1, StepTable DEF FileInv
  <2> QED
    BY <2>1, <2>2, ForgetStep
<1>3. CASE UNCHANGED allVars
  <2>1. UNCHANGED <<tableVars, codepage, refBytes, phase, entry, place, sizes, pool, data, saved>>
    BY <1>3 DEF allVars, fileVars
  <2>2. TableInv'
    BY <2>1, StepTable DEF FileInv
  <2>3. FileTypeOK'
    BY <2>1, <2>2 DEF FileInv, FileTypeOK, TableInv
  <2>4. RoundTrip'
    BY <2>1 DEF FileInv, RoundTrip, ShortStrings, StringsKept, Reloaded, LoadedAsInit, Holds, HeaderKept, Live, tableVars
  <2>5. phase' \in {"saving", "closed"} => (\E m, t : Saving(m, t))'
    <3>1. ASSUME NEW m, NEW t, Saving(m, t) PROVE Saving(m, t)'
      BY <2>1, <3>1 DEF Saving, tableVars
    <3>2. ASSUME phase' \in {"saving", "closed"} PROVE (\E m, t : Saving(m, t))'
      <4>1. PICK m, t : Saving(m, t)
        BY <2>1, <3>2 DEF FileInv
      <4>2. Saving(m, t)'
        BY <3>1, <4>1
      <4> QED
        BY <4>2
    <3> QED
      BY <3>2
  <2>6. phase' = "loading" => (\E m, t : Loading(m, t))'
    <3>1. ASSUME NEW m, NEW t, Loading(m, t) PROVE Loading(m, t)'
      BY <2>1, <3>1 DEF Loading, tableVars, Live
    <3>2. ASSUME phase' = "loading" PROVE (\E m, t : Loading(m, t))'
      <4>1. PICK m, t : Loading(m, t)
        BY <2>1, <3>2 DEF FileInv
      <4>2. Loading(m, t)'
        BY <3>1, <4>1
      <4> QED
        BY <4>2
    <3> QED
      BY <3>2
  <2> QED
    BY <2>2, <2>3, <2>4, <2>5, <2>6 DEF FileInv
<1> QED
  BY <1>1, <1>2, <1>3, SaveStartStep, SaveHoleStep, SaveStringStep, SaveEndStep,
     LoadStartStep, LoadHoleStep, LoadEntryStep, LoadEndStep DEF FileNext

-----------------------------------------------------------------------------
(* The inductive invariant: what the streams hold at each turn of both     *)
(* loops.                                                                  *)
THEOREM FileInvariant == FileSpec => []FileInv
<1> QED
  BY FileStart, StepFile, PTL DEF FileSpec

(* The string table and its streams have their types: a save never ends in *)
(* "failed", and every word fits 16 bits.                                  *)
THEOREM FileTyped == FileSpec => []FileTypeOK
<1>1. FileInv => FileTypeOK
  BY DEF FileInv
<1> QED
  BY <1>1, FileInvariant, PTL

(* The two buffers msi_save_string_table allocates with the sizes that     *)
(* string_totalsize counted are filled to the last byte and never written  *)
(* past.                                                                   *)
THEOREM BuffersFit == FileSpec => []BufferFits
<1>1. FileInv => BufferFits
  <2> SUFFICES ASSUME FileInv PROVE BufferFits
    OBVIOUS
  <2>1. phase # "failed"
    BY DEF FileInv, FileTypeOK
  <2>2. ASSUME NEW m, NEW t, Saving(m, t)
        PROVE  /\ Len(pool) <= sizes.pool /\ Len(data) <= sizes.data
               /\ phase = "closed" => Len(pool) = sizes.pool /\ Len(data) = sizes.data
    <3> DEFINE S == saved.strings
               cp == saved.codepage
    <3>1. /\ SavedTable(S, cp, m) /\ Totals(S, cp, m, t) /\ sizes = t[m - 1]
          /\ entry \in 1 .. m /\ (phase = "closed" => entry = m)
          /\ Len(pool) = t[entry - 1].pool /\ Len(data) = t[entry - 1].data
      BY <2>2 DEF Saving
    <3>2. entry - 1 \in 0 .. m - 1 /\ m - 1 \in 0 .. m - 1 /\ entry - 1 <= m - 1 /\ m \in Nat
      BY <3>1 DEF SavedTable
    <3> HIDE DEF S, cp
    <3>3. /\ t[entry - 1].pool \in Nat /\ t[m - 1].pool \in Nat
          /\ t[m - 1].pool - t[entry - 1].pool >= m - 1 - (entry - 1)
          /\ t[entry - 1].data <= t[m - 1].data
      BY <3>1, <3>2, TotalsGrow
    <3> QED
      BY <3>1, <3>2, <3>3
  <2>3. phase \in {"saving", "closed"} => \E m, t : Saving(m, t)
    BY DEF FileInv
  <2> QED
    BY <2>1, <2>2, <2>3 DEF BufferFits
<1> QED
  BY <1>1, FileInvariant, PTL

(* Saving a string table and loading it again gives the same strings under *)
(* the same ids with the same references, an index that agrees with them   *)
(* and the width that ids are read by, as long as no string reaches the    *)
(* 64k that msi_load_string_table gets wrong.                              *)
THEOREM SavedIsLoaded == FileSpec => []RoundTrip
<1>1. FileInv => RoundTrip
  BY DEF FileInv
<1> QED
  BY <1>1, FileInvariant, PTL
=============================================================================
