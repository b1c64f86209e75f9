--------------------------- MODULE StringPoolFile ---------------------------
(***************************************************************************)
(* The string table written to a database's file and read back from it     *)
(* (string_totalsize, msi_save_string_table and msi_load_string_table of   *)
(* libmsi/string.c), one step for each turn of their loops.                *)
(*                                                                         *)
(* The file is two streams: StringPool, a header and then pairs of 16-bit  *)
(* words <<length, references>>, one pair for each slot; and StringData,   *)
(* the bytes of the strings one after the other.  A 16-bit word counts up  *)
(* to RefLimit - 1 here, the reference counts' own bound.                  *)
(*                                                                         *)
(* A string is saved in the codepage of the table; Length says how many    *)
(* bytes it takes there, and Unencodable which strings have no form in a   *)
(* codepage.                                                               *)
(***************************************************************************)
EXTENDS StringTable

CONSTANTS Length,             \* bytes of each string
          Unencodable,        \* strings a codepage cannot express
          Codepage, Acp       \* codepages, and the one that stands for "none"

(* A length is a 32-bit number: two words hold it.                         *)
ASSUME StringPoolFileAssumption ==
  /\ Length \in [Text -> 1 .. RefLimit * RefLimit - 1]
  /\ Unencodable \in [Codepage -> SUBSET Text]
  /\ Acp \in Codepage

VARIABLES codepage,           \* of the table in memory
          refBytes,           \* "short" or "long": how wide tables store ids
          phase,
          entry,              \* n, the slot being saved or loaded
          place,              \* i in the loop of msi_load_string_table
          sizes,              \* what string_totalsize answered
          pool, data,         \* the streams: written so far, or still to read
          saved               \* history: slots, codepage and width as saved

fileVars == <<codepage, refBytes, phase, entry, place, sizes, pool, data, saved>>
allVars  == <<tableVars, fileVars>>

Word == RefLimit
NoSave == [strings |-> <<>>, codepage |-> Acp, refBytes |-> "short"]

(* The bytes a string is saved as; data is a sequence of such bytes.       *)
Bytes(s) == [k \in 1 .. Length[s] |-> <<s, k>>]

IsOpen == phase \in {"open", "reloaded"} /\ ~wrapped

-----------------------------------------------------------------------------
(* Mutant: strings without a form in the codepage are counted too.         *)
CountedAnyway(n) == strings[n].pref # 0

(* What string_totalsize counts: strings persistent data refers to that    *)
(* have a form in the codepage.                                            *)
Counted(n) == strings[n].pref # 0 /\ strings[n].str \notin Unencodable[codepage]

(* Entries of the pool that a string of some length takes.                 *)
Entries(len) == IF len < Word THEN 1 ELSE 2

(* The sizes with one more slot: only a counted one adds to the data.      *)
Plus(total, n) ==
  LET len == Length[strings[n].str] IN
  IF Counted(n) THEN [pool |-> total.pool + Entries(len), data |-> total.data + len]
                ELSE [pool |-> total.pool + 1, data |-> total.data]

(* The sizes both streams will have: entries of the pool, bytes of data.   *)
TotalSize ==
  LET total[n \in 0 .. maxcount - 1] ==
        IF n = 0 THEN [pool |-> 1, data |-> 0] ELSE Plus(total[n - 1], n) IN
  total[maxcount - 1]

(* The header of the pool: the codepage, and the width of ids in its top   *)
(* bit.                                                                    *)
Header == [codepage |-> codepage, long |-> maxcount > Word - 1]

(* Bound: the pool has no more than MaxSlots entries.                      *)
SaveStart ==
  /\ IsOpen
  /\ TotalSize.pool <= MaxSlots
  /\ phase' = "saving"
  /\ sizes' = TotalSize
  /\ pool' = <<Header>>
  /\ refBytes' = IF Header.long THEN "long" ELSE "short"
  /\ data' = <<>>
  /\ entry' = 1
  /\ saved' = [strings |-> strings, codepage |-> codepage, refBytes |-> refBytes']
  /\ place' = 0
  /\ UNCHANGED <<tableVars, codepage>>

(* A slot is written when persistent data refers to it and the call of     *)
(* _libmsi_string_id succeeds: the string has a form in the codepage and   *)
(* the buffer has room for it.                                             *)
Fetched(n) == /\ strings[n].pref # 0
              /\ strings[n].str \notin Unencodable[codepage]
              /\ Length[strings[n].str] <= sizes.data - Len(data)

Hole == <<0, 0>>

(* Mutant: a slot without persistent references is left out of the pool.   *)
SaveHoleSkips ==
  /\ phase = "saving" /\ entry < maxcount
  /\ ~Fetched(entry)
  /\ entry' = entry + 1
  /\ UNCHANGED <<tableVars, codepage, refBytes, phase, place, sizes, pool, data, saved>>

(* One slot: a hole when no persistent data refers to it or it cannot be   *)
(* fetched.                                                                *)
SaveHole ==
  /\ phase = "saving" /\ entry < maxcount
  /\ ~Fetched(entry)
  /\ pool' = Append(pool, Hole)
  /\ entry' = entry + 1
  /\ UNCHANGED <<tableVars, codepage, refBytes, phase, place, sizes, data, saved>>

(* Else its length and references, after an entry for the high word of the *)
(* length if that does not fit.                                            *)
SaveString ==
  /\ phase = "saving" /\ entry < maxcount
  /\ Fetched(entry)
  /\ LET size == Length[strings[entry].str]
         pair == <<size % Word, strings[entry].pref>> IN
       pool' = IF size >= Word THEN pool \o <<<<0, size \div Word>>, pair>>
                               ELSE Append(pool, pair)
  /\ data' = data \o Bytes(strings[entry].str)
  /\ entry' = entry + 1
  /\ UNCHANGED <<tableVars, codepage, refBytes, phase, place, sizes, saved>>

(* All slots done: the streams are written if the sizes are as counted.    *)
SaveEnd ==
  /\ phase = "saving" /\ entry = maxcount
  /\ phase' = IF Len(data) = sizes.data THEN "closed" ELSE "failed"
  /\ UNCHANGED <<tableVars, codepage, refBytes, entry, place, sizes, pool, data, saved>>

-----------------------------------------------------------------------------
(* Reading the file: a table with a slot for each entry of the pool, all   *)
(* of them free.  The header of a pool with no entries is not read.        *)
LoadStart ==
  /\ phase = "closed"
  /\ phase' = "loading"
  /\ codepage' = IF Len(pool) > 1 THEN pool[1].codepage ELSE Acp
  /\ refBytes' = IF Len(pool) > 1 /\ pool[1].long THEN "long" ELSE "short"
  /\ maxcount' = Len(pool)
  /\ strings' = [k \in 0 .. Len(pool) - 1 |-> ZeroSlot]
  /\ freeslot' = 1
  /\ sorted' = <<>>
  /\ entry' = 1
  /\ place' = 1
  /\ UNCHANGED <<wrapped, sizes, pool, data, saved>>

(* A hole has a number, and nothing else.                                  *)
LoadHole ==
  /\ phase = "loading" /\ place < maxcount
  /\ pool[place + 1] = Hole
  /\ place' = place + 1
  /\ entry' = entry + 1
  /\ UNCHANGED <<tableVars, codepage, refBytes, phase, sizes, pool, data, saved>>

(* The string some bytes are, when they are one of the strings.            *)
Decodes(bytes, s) == bytes = Bytes(s)

(* Mutant: the index gets the slots in the order of their numbers.         *)
LoadStringUnsorted(len, refs, used) ==
  /\ place' = place + used
  /\ Len(data) >= len
  /\ \E s \in Text :
       /\ Decodes(SubSeq(data, 1, len), s)
       /\ sorted' = Append(sorted, entry)
       /\ strings' = [strings EXCEPT ![entry] = Slot(s, refs, 0)]
  /\ freeslot' = entry + 1
  /\ data' = SubSeq(data, len + 1, Len(data))
  /\ entry' = entry + 1
  /\ UNCHANGED <<maxcount, wrapped, phase>>

(* A string of len bytes and refs references, from the front of what is    *)
(* left of data: msi_addstring puts it into the slot of its number.  Too   *)
(* few bytes left ("string table corrupt?") end the loop.  What a table    *)
(* holds after bytes were taken for a string that are none is not followed.*)
LoadString(len, refs, used) ==
  /\ place' = place + used
  /\ \/ /\ Len(data) >= len
        /\ \E s \in Text :
             /\ Decodes(SubSeq(data, 1, len), s)
             /\ LET c == Comparison(strings, sorted, s) IN
                \/ Hits(c) # {} /\ UNCHANGED sorted
                \/ \E p \in Gaps(c) : sorted' = Inserted(sorted, p, entry)
             /\ strings' = [strings EXCEPT ![entry] = Slot(s, refs, 0)]
        /\ freeslot' = entry + 1
        /\ data' = SubSeq(data, len + 1, Len(data))
        /\ entry' = entry + 1
        /\ UNCHANGED <<maxcount, wrapped, phase>>
     \/ /\ Len(data) >= len
        /\ \A s \in Text : ~Decodes(SubSeq(data, 1, len), s)
        /\ phase' = "corrupt"
        /\ UNCHANGED <<tableVars, data, entry>>
     \/ /\ Len(data) < len
        /\ phase' = "reloaded"
        /\ UNCHANGED <<tableVars, data, entry>>

(* A short string, or a long one: its length word is zero, and the code    *)
(* takes the high word of the length from the entry after it.              *)
LoadEntry ==
  /\ phase = "loading" /\ place < maxcount
  /\ LET here == pool[place + 1] IN
     \/ /\ here[1] # 0
        /\ LoadString(here[1], here[2], 1)
     \/ /\ here[1] = 0 /\ here[2] # 0
        /\ LET next == pool[place + 2] IN
             LoadString(next[2] * Word + next[1], here[2], 2)
  /\ UNCHANGED <<codepage, refBytes, sizes, pool, saved>>

LoadEnd ==
  /\ phase = "loading" /\ place >= maxcount
  /\ phase' = "reloaded"
  /\ UNCHANGED <<tableVars, codepage, refBytes, entry, place, sizes, pool, data, saved>>

-----------------------------------------------------------------------------
(* While the database is open: strings are added, the codepage is set      *)
(* (msi_set_string_table_codepage).                                        *)
Forget == /\ phase' = "open"
          /\ saved' = NoSave
          /\ entry' = 0 /\ place' = 0
          /\ sizes' = [pool |-> 0, data |-> 0]
          /\ pool' = <<>> /\ data' = <<>>

Add ==
  /\ IsOpen
  /\ Next
  /\ Forget
  /\ UNCHANGED <<codepage, refBytes>>

SetCodepage(cp) ==
  /\ IsOpen
  /\ codepage' = cp
  /\ Forget
  /\ UNCHANGED <<tableVars, refBytes>>

(* msi_init_string_table: a new database has slot 0 only.                  *)
FileInit ==
  /\ maxcount = 1 /\ strings = [n \in {0} |-> ZeroSlot]
  /\ freeslot = 1 /\ sorted = <<>> /\ wrapped = FALSE
  /\ codepage = Acp /\ refBytes = "short"
  /\ phase = "open" /\ saved = NoSave
  /\ entry = 0 /\ place = 0 /\ sizes = [pool |-> 0, data |-> 0]
  /\ pool = <<>> /\ data = <<>>

FileNext ==
  \/ Add
  \/ \E cp \in Codepage : SetCodepage(cp)
  \/ SaveStart \/ SaveHole \/ SaveString \/ SaveEnd
  \/ LoadStart \/ LoadHole \/ LoadEntry \/ LoadEnd

FileSpec == FileInit /\ [][FileNext]_allVars

-----------------------------------------------------------------------------

FileTypeOK ==
  /\ TypeOK
  /\ codepage \in Codepage /\ refBytes \in {"short", "long"}
  /\ phase \in {"open", "saving", "closed", "loading", "reloaded", "corrupt"}
  /\ entry \in 0 .. MaxSlots /\ place \in 0 .. Len(pool)
  /\ sizes \in [pool : Nat, data : Nat]
  /\ \A k \in 2 .. Len(pool) : pool[k] \in (0 .. Word - 1) \X (0 .. Word - 1)

(* msi_save_string_table allocates both buffers with the sizes that        *)
(* string_totalsize counted: the second pass never writes past them, and   *)
(* fills them (nothing uninitialised reaches the file, and the "oops used" *)
(* check is never hit).                                                    *)
BufferFits ==
  /\ phase = "saving" => Len(pool) <= sizes.pool /\ Len(data) <= sizes.data
  /\ phase = "closed" => Len(pool) = sizes.pool /\ Len(data) = sizes.data
  /\ phase # "failed"

(* What a slot is after a save and a load.                                 *)
Reloaded(e) ==
  IF e.pref # 0 /\ e.str \notin Unencodable[saved.codepage] THEN Slot(e.str, e.pref, 0) ELSE ZeroSlot

(* No string saved is as long as the word that holds its length can count; *)
(* LongStringsKept says what happens to one that is.                       *)
ShortStrings == \A n \in DOMAIN saved.strings : LET e == saved.strings[n] IN
                  e.pref # 0 /\ e.str \notin Unencodable[saved.codepage] => Length[e.str] < Word

(* Every string that persistent data refers to is there under its id, with *)
(* its references; rows on disk hold the ids.                              *)
StringsKept == strings = [n \in DOMAIN saved.strings |-> Reloaded(saved.strings[n])]

(* It is a state the string table starts in: its index agrees with its     *)
(* slots, and it hands out slots from behind the last string.              *)
LoadedAsInit ==
  /\ IndexedBy(strings, maxcount, sorted)
  /\ \E known \in SUBSET (1 .. maxcount - 1) :
       Holds(known, [n \in known |-> strings[n].str], [n \in known |-> strings[n].pref])

(* The header is read as it was written unless the table has no slot but   *)
(* 0, and where tables store ids in two bytes, two bytes hold every id.    *)
HeaderKept ==
  /\ maxcount > 1 => codepage = saved.codepage /\ refBytes = saved.refBytes
  /\ refBytes = "short" => \A n \in Live : n < Word

(* Saving and loading a string table gives the table again: its strings,   *)
(* an index to begin with, and the width of ids that tables are read by.   *)
RoundTrip == phase = "reloaded" /\ ShortStrings => StringsKept /\ LoadedAsInit /\ HeaderKept

(* "If a string is over 64k, the previous string entry is made null and    *)
(* the high word of the length is inserted in the null string's reference  *)
(* count field" (string.c:541): long strings are read back like any other. *)
LongStringsKept ==
  phase = "reloaded" =>
    \A n \in DOMAIN saved.strings :
      LET e == saved.strings[n] IN
        e.pref # 0 /\ e.str \notin Unencodable[saved.codepage] /\ Length[e.str] >= Word =>
          n < maxcount /\ strings[n] = Slot(e.str, e.pref, 0)
=============================================================================
