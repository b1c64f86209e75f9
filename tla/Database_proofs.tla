-------------------------- MODULE Database_proofs ---------------------------
(***************************************************************************)
(* Databases as files: the last commit survives, closing leaves it, and it *)
(* saves everything, for any tables, any number of changes, opens and      *)
(* failures.  And databases as sets of tables (Bulk): what a merge, an     *)
(* export and an import keep, for any contents and any number of calls.    *)
(***************************************************************************)
EXTENDS Database, Bulk, Loops, FiniteSetTheorems, SequenceTheorems

Steps == {"none", "idle", "tables", "unlink", "rename", "reopen", "start"}

Typed ==
  /\ files \in [File -> Content \cup {Absent, Garbage}]
  /\ step \in Steps
  /\ mode \in Mode /\ path \in Path /\ outpath \in File \cup {NoFile}
  /\ infile \in Content \cup {Absent}
  /\ DOMAIN listed \subseteq Tables /\ \A t \in DOMAIN listed : listed[t] \in 0 .. MaxEdits
  /\ out = Absent \/ out \in [Tables -> SUBSET (1 .. MaxEdits)]
  /\ step = "tables" => out \in [Tables -> SUBSET (1 .. MaxEdits)]
  /\ committed \in Content \cup {Absent} /\ expected \in Content

(* Where the new database goes, and when it is being written.              *)
PathsInv ==
  /\ step \in {"idle", "tables"} /\ mode # "readonly" => outpath # NoFile
  /\ step = "tables" => mode # "readonly"
  /\ step = "start" => mode = "transact"
  /\ mode = "readonly" \/ step \notin {"idle", "tables"} => out = Absent
  /\ step \in {"unlink", "rename"} => renameOutpath
  /\ IF renameOutpath THEN step \in {"idle", "tables", "unlink", "rename"} => outpath = Tmp(path)
                      ELSE outpath \in Path \cup {NoFile}

(* Where the last commit is: in between it is only at outpath.             *)
CommittedInv ==
  /\ step = "none" => LastCommitSurvives
  /\ step \in {"idle", "tables"} /\ committed # Absent => files[path] = committed /\ outpath # path
  /\ step \in {"unlink", "rename"} => files[outpath] = committed /\ committed # Absent
  /\ step \in {"reopen", "start"} => files[path] = committed /\ committed # Absent

(* As long as no commit failed: a table that is not listed is empty, or    *)
(* saved; what is written is what the last changes left.                   *)
SavedInv ==
  ~failed =>
    /\ step = "idle" =>
         /\ \A t \in Tables : IF t \in DOMAIN listed THEN listed[t] = expected[t]
                              ELSE expected[t] = 0 /\ InFile(infile, t) = 0
         /\ out # Absent => out = NothingWritten
    /\ step = "tables" =>
         \A t \in Tables : IF t \in DOMAIN listed THEN listed[t] = expected[t] /\ out[t] = {}
                           ELSE out[t] = {expected[t]} \ {0}
    /\ step \in {"unlink", "rename", "reopen", "start"} => committed = expected
    /\ step = "start" => infile = expected /\ listed = Listing(expected)

DatabaseInv == Typed /\ PathsInv /\ CommittedInv /\ SavedInv
-----------------------------------------------------------------------------
(* The path of the output is a file of its own, but for a new database.    *)
LEMMA OutpathIsOther ==
  /\ \A p \in Path : p \in File /\ Tmp(p) \in File /\ Tmp(p) # p /\ Tmp(p) \notin Path
  /\ NoFile \notin File
BY DEF File, Path, Tmp, NoFile

(* What a file lists is what it has, and what it does not list is empty.   *)
LEMMA ListingOf ==
  ASSUME NEW file \in Content \cup {Absent, Garbage}
  PROVE  /\ DOMAIN Listing(file) \subseteq Tables
         /\ \A t \in Tables : /\ InFile(file, t) \in 0 .. MaxEdits
                              /\ IF t \in DOMAIN Listing(file) THEN Listing(file)[t] = InFile(file, t)
                                 ELSE InFile(file, t) = 0
BY DatabaseAssumption DEF Listing, TablesOf, InFile, IsDatabase, Content

LEMMA ContentIsDatabase ==
  ASSUME NEW file \in Content
  PROVE  /\ IsDatabase(file) /\ file # Absent
         /\ \A t \in Tables : InFile(file, t) = file[t]
BY DatabaseAssumption DEF IsDatabase, InFile

LEMMA ViewTyped ==
  ASSUME Typed, NEW t \in Tables
  PROVE  View(t) \in 0 .. MaxEdits
<1>1. InFile(infile, t) \in 0 .. MaxEdits
  BY ListingOf DEF Typed
<1> QED
  BY <1>1 DEF View, Typed

LEMMA AssembledIsContent == Assembled \subseteq Content
BY DEF Assembled
-----------------------------------------------------------------------------
(* The file holds a database or not, and another program's file may be at  *)
(* the path of the output.                                                 *)
LEMMA InitHolds == Init => DatabaseInv
<1> SUFFICES ASSUME Init
             PROVE  DatabaseInv
  OBVIOUS
<1>1. PICK empty \in {Absent} \cup [Tables -> {1}], old \in {Absent, EmptyContent} :
        files = [f \in File |-> CASE f = "db" -> empty [] f = "out" -> old [] OTHER -> Absent]
  BY DEF Init
<1>2. EmptyContent \in Content /\ empty \in Content \cup {Absent}
  BY DatabaseAssumption DEF EmptyContent, Content
<1>3. files \in [File -> Content \cup {Absent, Garbage}]
  BY <1>1, <1>2
<1>4. Typed
  BY <1>2, <1>3 DEF Init, Typed, Steps, Mode, Path
<1>5. PathsInv
  BY DEF Init, PathsInv
<1>6. CommittedInv
  BY DEF Init, CommittedInv, LastCommitSurvives
<1>7. SavedInv
  BY DEF Init, SavedInv
<1> QED
  BY <1>4, <1>5, <1>6, <1>7 DEF DatabaseInv

(* The output of a database is the path given as persist, a file beside    *)
(* it, or, for a new one, the database itself.                             *)
LEMMA OutpathFits ==
  ASSUME NEW m \in Mode, NEW p \in Path, NEW persist \in {NoFile, "out"}
  PROVE  /\ OutpathFor(m, p, persist) \in File \cup {NoFile}
         /\ m # "readonly" => OutpathFor(m, p, persist) # NoFile
         /\ Renames(m, persist) \in BOOLEAN
         /\ IF Renames(m, persist) THEN OutpathFor(m, p, persist) = Tmp(p)
                                   ELSE OutpathFor(m, p, persist) \in Path \cup {NoFile}
         /\ m # "create" /\ p = "db" => OutpathFor(m, p, persist) # p
BY OutpathIsOther DEF OutpathFor, Renames, Mode, Path, Tmp, NoFile, File

LEMMA NewKeeps ==
  ASSUME DatabaseInv, NEW m \in Modes, NEW persist \in {NoFile, "out"}, New(m, persist)
  PROVE  DatabaseInv'
<1> DEFINE source == IF m = "create" THEN Absent ELSE files["db"]
<1>1. m \in Mode /\ "db" \in Path /\ "db" \in File
  BY DatabaseAssumption DEF Path, File
<1>2. source \in Content \cup {Absent}
  BY <1>1 DEF New, IsDatabase, DatabaseInv, Typed
<1>3. /\ infile' = source /\ listed' = Listing(source) /\ committed' = source
      /\ expected' = [t \in Tables |-> InFile(source, t)]
      /\ mode' = m /\ path' = "db" /\ files' = files /\ step' = "idle"
      /\ outpath' = OutpathFor(m, "db", persist) /\ renameOutpath' = Renames(m, persist)
      /\ out' = IF m = "readonly" THEN Absent ELSE NothingWritten
  BY DEF New
<1> HIDE DEF source
<1>4. /\ DOMAIN Listing(source) \subseteq Tables
      /\ \A t \in Tables : /\ InFile(source, t) \in 0 .. MaxEdits
                           /\ IF t \in DOMAIN Listing(source) THEN Listing(source)[t] = InFile(source, t)
                              ELSE InFile(source, t) = 0
  BY <1>2, ListingOf
<1>5. Typed'
  BY <1>1, <1>2, <1>3, <1>4, OutpathFits DEF DatabaseInv, Typed, Steps, NothingWritten, Content
<1>6. PathsInv'
  BY <1>1, <1>3, OutpathFits DEF PathsInv
<1>7. CommittedInv'
  BY <1>1, <1>3, OutpathFits DEF CommittedInv, source
<1>8. SavedInv'
  BY <1>3, <1>4 DEF SavedInv, NothingWritten
<1> QED
  BY <1>5, <1>6, <1>7, <1>8 DEF DatabaseInv

(* What an open that fails removes may be the last commit: then that is    *)
(* known.                                                                  *)
LEMMA NewFailsKeeps ==
  ASSUME DatabaseInv, NEW m \in Modes, NEW persist \in {NoFile, "out"}, NewFails(m, persist)
  PROVE  DatabaseInv'
<1>1. PICK removed \in File \cup {NoFile} :
        /\ files' = Without(removed)
        /\ discarded' = (discarded \/ (committed # Absent /\ removed # NoFile /\ files[removed] = committed))
  BY DEF NewFails
<1>2. step = "none" /\ UNCHANGED <<step, dbVars, committed, expected, failed>>
  BY DEF NewFails
<1>3. files' \in [File -> Content \cup {Absent, Garbage}]
  BY <1>1 DEF Without, DatabaseInv, Typed
<1>4. LastCommitSurvives'
  <2> SUFFICES ASSUME committed # Absent, ~discarded'
               PROVE  \E f \in File : files'[f] = committed
    BY <1>2 DEF LastCommitSurvives
  <2>1. PICK f \in File : files[f] = committed
    BY <1>1, <1>2 DEF DatabaseInv, CommittedInv, LastCommitSurvives
  <2>2. removed = NoFile \/ f # removed
    BY <1>1, <2>1
  <2> QED
    BY <1>1, <2>1, <2>2 DEF Without, DatabaseInv, Typed
<1>5. Typed'
  BY <1>2, <1>3 DEF DatabaseInv, Typed, dbVars
<1>6. PathsInv'
  BY <1>2 DEF DatabaseInv, PathsInv, dbVars
<1>7. CommittedInv'
  BY <1>2, <1>4 DEF CommittedInv
<1>8. SavedInv'
  BY <1>2 DEF SavedInv
<1> QED
  BY <1>5, <1>6, <1>7, <1>8 DEF DatabaseInv

LEMMA ReadKeeps ==
  ASSUME DatabaseInv, NEW t \in Tables, Read(t)
  PROVE  DatabaseInv'
<1>1. /\ step = "idle" /\ t \notin DOMAIN listed
      /\ listed' = [u \in DOMAIN listed \cup {t} |-> View(u)]
      /\ UNCHANGED <<files, step, mode, path, outpath, renameOutpath, infile, out, committed, expected, failed>>
  BY DEF Read, Usable, history
<1>2. Typed'
  BY <1>1, ViewTyped DEF DatabaseInv, Typed
<1>3. PathsInv' /\ CommittedInv'
  BY <1>1 DEF DatabaseInv, PathsInv, CommittedInv
<1>4. SavedInv'
  <2> SUFFICES ASSUME ~failed
               PROVE  SavedInv'
    BY <1>1 DEF SavedInv
  <2>1. \A u \in Tables : IF u \in DOMAIN listed THEN listed[u] = expected[u]
                          ELSE expected[u] = 0 /\ InFile(infile, u) = 0
    BY <1>1 DEF DatabaseInv, SavedInv
  <2>2. \A u \in Tables : View(u) = expected[u]
    BY <2>1 DEF View
  <2> QED
    BY <1>1, <2>1, <2>2 DEF DatabaseInv, SavedInv, InFile, NothingWritten
<1> QED
  BY <1>2, <1>3, <1>4 DEF DatabaseInv

LEMMA ChangeKeeps ==
  ASSUME DatabaseInv, NEW t \in Tables, Change(t)
  PROVE  DatabaseInv'
<1>1. /\ step = "idle" /\ View(t) < MaxEdits
      /\ listed' = [u \in DOMAIN listed \cup {t} |-> IF u = t THEN View(t) + 1 ELSE View(u)]
      /\ expected' = [expected EXCEPT ![t] = View(t) + 1]
      /\ UNCHANGED <<files, step, mode, path, outpath, renameOutpath, infile, out, committed, failed>>
  BY DEF Change, Usable
<1>2. View(t) + 1 \in 0 .. MaxEdits
  BY <1>1, ViewTyped, DatabaseAssumption DEF DatabaseInv
<1>3. Typed'
  BY <1>1, <1>2, ViewTyped DEF DatabaseInv, Typed, Content
<1>4. PathsInv' /\ CommittedInv'
  BY <1>1 DEF DatabaseInv, PathsInv, CommittedInv
<1>5. SavedInv'
  <2> SUFFICES ASSUME ~failed
               PROVE  SavedInv'
    BY <1>1 DEF SavedInv
  <2>1. \A u \in Tables : IF u \in DOMAIN listed THEN listed[u] = expected[u]
                          ELSE expected[u] = 0 /\ InFile(infile, u) = 0
    BY <1>1 DEF DatabaseInv, SavedInv
  <2>2. \A u \in Tables : View(u) = expected[u]
    BY <2>1 DEF View
  <2>3. \A u \in Tables : IF u \in DOMAIN listed' THEN listed'[u] = expected'[u]
                          ELSE expected'[u] = 0 /\ InFile(infile', u) = 0
    BY <1>1, <2>1, <2>2 DEF DatabaseInv, Typed, Content
  <2> QED
    BY <1>1, <2>3 DEF DatabaseInv, SavedInv, NothingWritten
<1> QED
  BY <1>3, <1>4, <1>5 DEF DatabaseInv

LEMMA CommitStartKeeps ==
  ASSUME DatabaseInv, CommitStart
  PROVE  DatabaseInv'
<1>1. /\ step = "idle" /\ mode # "readonly" /\ out # Absent /\ step' = "tables"
      /\ UNCHANGED <<files, mode, path, outpath, renameOutpath, infile, listed, out, committed, expected, failed>>
  BY DEF CommitStart, Usable, dbVars, history
<1>2. Typed'
  BY <1>1 DEF DatabaseInv, Typed, Steps
<1>3. PathsInv' /\ CommittedInv'
  BY <1>1 DEF DatabaseInv, PathsInv, CommittedInv
<1>4. SavedInv'
  BY <1>1 DEF DatabaseInv, SavedInv, NothingWritten
<1> QED
  BY <1>2, <1>3, <1>4 DEF DatabaseInv

LEMMA SaveKeeps ==
  ASSUME DatabaseInv, NEW t \in Tables, SaveTable(t)
  PROVE  DatabaseInv'
<1>1. /\ step = "tables" /\ t \in DOMAIN listed
      /\ out' = [out EXCEPT ![t] = IF listed[t] = 0 THEN @ ELSE @ \cup {listed[t]}]
      /\ listed' = [u \in DOMAIN listed \ {t} |-> listed[u]]
      /\ UNCHANGED <<files, step, mode, path, outpath, renameOutpath, infile, committed, expected, failed>>
  BY DEF SaveTable, history
<1>2. out \in [Tables -> SUBSET (1 .. MaxEdits)] /\ listed[t] \in 0 .. MaxEdits
  BY <1>1 DEF DatabaseInv, Typed
<1>3. out' \in [Tables -> SUBSET (1 .. MaxEdits)]
  BY <1>1, <1>2, DatabaseAssumption
<1>4. Typed'
  BY <1>1, <1>3 DEF DatabaseInv, Typed
<1>5. PathsInv' /\ CommittedInv'
  BY <1>1, <1>3 DEF DatabaseInv, PathsInv, CommittedInv
<1>6. SavedInv'
  <2> SUFFICES ASSUME ~failed
               PROVE  SavedInv'
    BY <1>1 DEF SavedInv
  <2>1. \A u \in Tables : IF u \in DOMAIN listed THEN listed[u] = expected[u] /\ out[u] = {}
                          ELSE out[u] = {expected[u]} \ {0}
    BY <1>1 DEF DatabaseInv, SavedInv
  <2>2. out'[t] = {expected[t]} \ {0}
    BY <1>1, <1>2, <2>1
  <2>3. \A u \in Tables \ {t} : out'[u] = out[u]
    BY <1>1, <1>2
  <2>4. \A u \in Tables : IF u \in DOMAIN listed' THEN listed'[u] = expected'[u] /\ out'[u] = {}
                          ELSE out'[u] = {expected'[u]} \ {0}
    BY <1>1, <2>1, <2>2, <2>3
  <2> QED
    BY <1>1, <2>4 DEF SavedInv
<1> QED
  BY <1>4, <1>5, <1>6 DEF DatabaseInv

LEMMA CommitFailsKeeps ==
  ASSUME DatabaseInv, CommitFails
  PROVE  DatabaseInv'
<1>1. /\ step \in {"idle", "tables"} /\ step' = "idle" /\ failed' = TRUE
      /\ UNCHANGED <<files, mode, path, outpath, renameOutpath, infile, listed, out, committed, expected>>
  BY DEF CommitFails, Usable, dbVars
<1>2. Typed' /\ PathsInv' /\ CommittedInv' /\ SavedInv'
  BY <1>1 DEF DatabaseInv, Typed, Steps, PathsInv, CommittedInv, SavedInv
<1> QED
  BY <1>2 DEF DatabaseInv

(* All tables are saved: what was assembled is the new database, and       *)
(* outpath is another file than the path if it is to replace it.           *)
LEMMA CloseOutKeeps ==
  ASSUME DatabaseInv, CloseOut
  PROVE  DatabaseInv'
<1>1. PICK content \in Assembled : files' = [files EXCEPT ![outpath] = content] /\ committed' = content
  BY DEF CloseOut
<1>2. /\ step = "tables" /\ listed = [t \in {} |-> 0] /\ infile' = Absent /\ out' = Absent
      /\ IF renameOutpath THEN step' = "unlink" /\ path' = path /\ outpath' = outpath
                          ELSE step' = "reopen" /\ path' = outpath /\ outpath' = NoFile
      /\ UNCHANGED <<mode, renameOutpath, listed, expected, failed>>
  BY DEF CloseOut
<1>3. content \in Content /\ content # Absent
  BY AssembledIsContent, ContentIsDatabase
<1>4. outpath \in File /\ files'[outpath] = content
  BY <1>1, <1>2 DEF DatabaseInv, Typed, PathsInv
<1>5. ~renameOutpath => outpath \in Path
  BY <1>4, OutpathIsOther DEF DatabaseInv, PathsInv
<1>6. Typed'
  BY <1>1, <1>2, <1>3, <1>5 DEF DatabaseInv, Typed, Steps
<1>7. PathsInv'
  BY <1>2 DEF DatabaseInv, PathsInv
<1>8. CommittedInv'
  BY <1>1, <1>2, <1>3, <1>4 DEF CommittedInv
<1>9. SavedInv'
  <2> SUFFICES ASSUME ~failed
               PROVE  SavedInv'
    BY <1>2 DEF SavedInv
  <2>1. \A u \in Tables : out[u] = {expected[u]} \ {0}
    BY <1>2 DEF DatabaseInv, SavedInv
  <2>2. \A u \in Tables : content[u] = expected[u]
    BY <2>1 DEF Assembled
  <2>3. content = expected
    BY <1>3, <2>2 DEF DatabaseInv, Typed, Content
  <2> QED
    BY <1>1, <1>2, <2>3 DEF SavedInv
<1> QED
  BY <1>6, <1>7, <1>8, <1>9 DEF DatabaseInv

(* Between these two steps the last commit is only at outpath.             *)
LEMMA UnlinkKeeps ==
  ASSUME DatabaseInv, Unlink
  PROVE  DatabaseInv'
<1>1. /\ step = "unlink" /\ step' = "rename" /\ files' = [files EXCEPT ![path] = Absent]
      /\ UNCHANGED <<mode, path, outpath, renameOutpath, infile, listed, out, committed, expected, failed>>
  BY DEF Unlink, dbVars, history
<1>2. outpath \in File /\ path \in File /\ outpath # path
  BY <1>1, OutpathIsOther DEF DatabaseInv, Typed, PathsInv
<1>3. Typed'
  BY <1>1, <1>2 DEF DatabaseInv, Typed, Steps
<1>4. PathsInv' /\ SavedInv'
  BY <1>1 DEF DatabaseInv, PathsInv, SavedInv
<1>5. CommittedInv'
  BY <1>1, <1>2 DEF DatabaseInv, CommittedInv, Typed
<1> QED
  BY <1>3, <1>4, <1>5 DEF DatabaseInv

LEMMA RenameKeeps ==
  ASSUME DatabaseInv, Rename
  PROVE  DatabaseInv'
<1>1. /\ step = "rename" /\ step' = "reopen" /\ outpath' = NoFile
      /\ files' = [files EXCEPT ![path] = files[outpath], ![outpath] = Absent]
      /\ UNCHANGED <<mode, path, renameOutpath, infile, listed, out, committed, expected, failed>>
  BY DEF Rename, history
<1>2. outpath \in File /\ path \in File /\ outpath # path
  BY <1>1, OutpathIsOther DEF DatabaseInv, Typed, PathsInv
<1>3. files' \in [File -> Content \cup {Absent, Garbage}] /\ files'[path] = files[outpath]
  BY <1>1, <1>2 DEF DatabaseInv, Typed
<1>4. Typed'
  BY <1>1, <1>3 DEF DatabaseInv, Typed, Steps
<1>5. PathsInv' /\ SavedInv'
  BY <1>1 DEF DatabaseInv, PathsInv, SavedInv
<1>6. CommittedInv'
  BY <1>1, <1>3 DEF DatabaseInv, CommittedInv
<1> QED
  BY <1>4, <1>5, <1>6 DEF DatabaseInv

LEMMA ReopenKeeps ==
  ASSUME DatabaseInv, Reopen
  PROVE  DatabaseInv'
<1>1. /\ step = "reopen" /\ step' = "start" /\ mode' = "transact"
      /\ \/ infile' = files[path] /\ listed' = Listing(files[path]) /\ failed' = failed
         \/ infile' = Absent /\ listed' = [t \in {} |-> 0] /\ failed' = TRUE
      /\ UNCHANGED <<files, path, outpath, renameOutpath, out, committed, expected>>
  BY DEF Reopen
<1>2. files[path] = committed /\ committed \in Content
  BY <1>1 DEF DatabaseInv, CommittedInv, Typed
<1>3. /\ DOMAIN Listing(committed) \subseteq Tables
      /\ \A t \in DOMAIN Listing(committed) : Listing(committed)[t] \in 0 .. MaxEdits
  BY <1>2, ListingOf
<1>4. Typed'
  BY <1>1, <1>2, <1>3 DEF DatabaseInv, Typed, Steps, Mode
<1>5. PathsInv' /\ CommittedInv'
  BY <1>1, <1>2 DEF DatabaseInv, PathsInv, CommittedInv
<1>6. SavedInv'
  BY <1>1, <1>2 DEF DatabaseInv, SavedInv
<1> QED
  BY <1>4, <1>5, <1>6 DEF DatabaseInv

LEMMA StartTransactionKeeps ==
  ASSUME DatabaseInv, StartTransaction
  PROVE  DatabaseInv'
<1>1. /\ step = "start" /\ step' = "idle"
      /\ outpath' = OutpathFor(mode, path, NoFile) /\ renameOutpath' = Renames(mode, NoFile)
      /\ out' = NothingWritten \/ out' = Absent
      /\ UNCHANGED <<files, mode, path, infile, listed, committed, expected, failed>>
  BY DEF StartTransaction, history
<1>2. path \in Path /\ mode = "transact"
  BY <1>1 DEF DatabaseInv, Typed, PathsInv
<1>3. outpath' = Tmp(path) /\ renameOutpath'
  BY <1>1, <1>2 DEF OutpathFor, Renames
<1>4. Tmp(path) \in File /\ Tmp(path) # path /\ Tmp(path) # NoFile
  BY <1>2, OutpathIsOther
<1>5. Typed'
  BY <1>1, <1>2, <1>3, <1>4 DEF DatabaseInv, Typed, Steps, NothingWritten
<1>6. PathsInv' /\ CommittedInv'
  BY <1>1, <1>2, <1>3, <1>4 DEF DatabaseInv, PathsInv, CommittedInv
<1>7. SavedInv'
  <2> SUFFICES ASSUME ~failed
               PROVE  SavedInv'
    BY <1>1 DEF SavedInv
  <2>1. infile = expected /\ listed = Listing(expected) /\ expected \in Content
    BY <1>1 DEF DatabaseInv, SavedInv, Typed
  <2>2. \A t \in Tables : IF t \in DOMAIN listed THEN listed[t] = expected[t]
                          ELSE expected[t] = 0 /\ InFile(infile, t) = 0
    BY <2>1, ListingOf, ContentIsDatabase
  <2> QED
    BY <1>1, <2>2 DEF SavedInv, InFile, NothingWritten
<1> QED
  BY <1>5, <1>6, <1>7 DEF DatabaseInv

(* A file written since the last commit is not the one at the path.        *)
LEMMA PathIsKept ==
  ASSUME DatabaseInv, step # "none", committed # Absent, outpath # NoFile,
         step \in {"idle", "tables"}, NEW content
  PROVE  [files EXCEPT ![outpath] = content][path] = committed
BY OutpathIsOther DEF DatabaseInv, CommittedInv, Typed

LEMMA CloseKeeps ==
  ASSUME DatabaseInv, Close
  PROVE  DatabaseInv'
<1>1. /\ step = "idle" /\ committed' = committed /\ Gone
      /\ files' = IF outpath = NoFile THEN files ELSE [files EXCEPT ![outpath] = Absent]
  BY DEF Close, Without
<1>2. path \in File
  BY OutpathIsOther DEF DatabaseInv, Typed
<1>3. LastCommitSurvives'
  BY <1>1, <1>2, PathIsKept DEF DatabaseInv, CommittedInv, LastCommitSurvives
<1>4. EmptyContent \in Content
  BY DatabaseAssumption DEF EmptyContent, Content
<1>5. Typed'
  BY <1>1, <1>4 DEF Gone, DatabaseInv, Typed, Steps, Mode, Path
<1>6. PathsInv' /\ SavedInv'
  BY <1>1 DEF Gone, PathsInv, SavedInv
<1>7. CommittedInv'
  BY <1>1, <1>3 DEF Gone, CommittedInv
<1> QED
  BY <1>5, <1>6, <1>7 DEF DatabaseInv

LEMMA CrashKeeps ==
  ASSUME DatabaseInv, Crash
  PROVE  DatabaseInv'
<1>1. /\ step # "none" /\ committed' = committed /\ Gone
      /\ \/ files' = files
         \/ /\ out # Absent
            /\ \E content \in Assembled \cup {Garbage} : files' = [files EXCEPT ![outpath] = content]
  BY DEF Crash
<1>2. path \in File /\ outpath \in File \cup {NoFile}
  BY OutpathIsOther DEF DatabaseInv, Typed
<1>3. LastCommitSurvives'
  <2> SUFFICES ASSUME committed # Absent
               PROVE  \E f \in File : files'[f] = committed
    BY <1>1 DEF LastCommitSurvives
  <2>1. CASE files' = files
    <3>1. \/ files[path] = committed
          \/ outpath \in File /\ files[outpath] = committed
      BY <1>1, <1>2, OutpathIsOther DEF DatabaseInv, Typed, Steps, PathsInv, CommittedInv
    <3> QED
      BY <1>2, <2>1, <3>1
  <2>2. CASE out # Absent /\ \E content \in Assembled \cup {Garbage} : files' = [files EXCEPT ![outpath] = content]
    <3>1. step \in {"idle", "tables"} /\ outpath # NoFile
      BY <1>1, <2>2 DEF DatabaseInv, PathsInv
    <3>2. files'[path] = committed
      BY <1>1, <2>2, <3>1, PathIsKept
    <3> QED
      BY <1>2, <3>2
  <2> QED
    BY <1>1, <2>1, <2>2
<1>4. EmptyContent \in Content
  BY DatabaseAssumption DEF EmptyContent, Content
<1>5. files' \in [File -> Content \cup {Absent, Garbage}]
  BY <1>1, AssembledIsContent DEF DatabaseInv, Typed
<1>6. Typed'
  BY <1>1, <1>4, <1>5 DEF Gone, DatabaseInv, Typed, Steps, Mode, Path
<1>7. PathsInv' /\ SavedInv'
  BY <1>1 DEF Gone, PathsInv, SavedInv
<1>8. CommittedInv'
  BY <1>1, <1>3 DEF Gone, CommittedInv
<1> QED
  BY <1>6, <1>7, <1>8 DEF DatabaseInv

LEMMA NextKeeps ==
  ASSUME DatabaseInv, [Next]_vars
  PROVE  DatabaseInv'
<1>1. ASSUME NEW m \in Modes, NEW persist \in {NoFile, "out"}, New(m, persist) \/ NewFails(m, persist)
      PROVE  DatabaseInv'
  BY <1>1, NewKeeps, NewFailsKeeps
<1>2. ASSUME NEW t \in Tables, Read(t) \/ Change(t) \/ SaveTable(t)
      PROVE  DatabaseInv'
  BY <1>2, ReadKeeps, ChangeKeeps, SaveKeeps
<1>3. CASE CommitStart
  BY <1>3, CommitStartKeeps
<1>4. CASE CommitFails
  BY <1>4, CommitFailsKeeps
<1>5. CASE CloseOut
  BY <1>5, CloseOutKeeps
<1>6. CASE Unlink
  BY <1>6, UnlinkKeeps
<1>7. CASE Rename
  BY <1>7, RenameKeeps
<1>8. CASE Reopen
  BY <1>8, ReopenKeeps
<1>9. CASE StartTransaction
  BY <1>9, StartTransactionKeeps
<1>10. CASE Close
  BY <1>10, CloseKeeps
<1>11. CASE Crash
  BY <1>11, CrashKeeps
<1>12. CASE UNCHANGED vars
  BY <1>12 DEF vars, dbVars, history, DatabaseInv, Typed, PathsInv, CommittedInv, SavedInv, LastCommitSurvives,
               InFile, IsDatabase, Listing, TablesOf, NothingWritten
<1> QED
  BY <1>1, <1>2, <1>3, <1>4, <1>5, <1>6, <1>7, <1>8, <1>9, <1>10, <1>11, <1>12 DEF Next, CommitStep
-----------------------------------------------------------------------------
(* At every step the last commit is where the code will look for it: under *)
(* the path, or, between the unlink and the rename, at outpath; and what   *)
(* is saved is what the program last saw.                                  *)
THEOREM DatabaseInvariant == Spec => []DatabaseInv
<1>1. Init => DatabaseInv
  BY InitHolds
<1>2. DatabaseInv /\ [Next]_vars => DatabaseInv'
  BY NextKeeps
<1> QED
  BY <1>1, <1>2, PTL DEF Spec

(* Whatever commits, failures and crashes do, each file is absent, garbage *)
(* of an interrupted write, or a whole database that was written to it;    *)
(* and what the output has of each table is from edits that were made.     *)
THEOREM DatabaseTyped == Spec => []DbTypeOK
<1>1. DatabaseInv => DbTypeOK
  BY DEF DatabaseInv, Typed, DbTypeOK, Steps
<1> QED
  BY <1>1, DatabaseInvariant, PTL

(* Whenever the program dies, in whichever step of a commit, the database  *)
(* the last commit left is in some file (_libmsi_database_close), until an *)
(* open that fails removes it.                                             *)
THEOREM CommitSurvives == Spec => []LastCommitSurvives
<1>1. DatabaseInv => LastCommitSurvives
  <2> SUFFICES ASSUME DatabaseInv, committed # Absent, ~discarded
               PROVE  \E f \in File : files[f] = committed
    BY DEF LastCommitSurvives
  <2>1. CASE step = "none"
    BY <2>1 DEF DatabaseInv, CommittedInv, LastCommitSurvives
  <2>2. CASE step \in {"unlink", "rename"}
    <3>1. outpath \in File /\ files[outpath] = committed
      BY <2>2, OutpathIsOther DEF DatabaseInv, Typed, PathsInv, CommittedInv
    <3> QED
      BY <3>1
  <2>3. CASE step \in {"idle", "tables", "reopen", "start"}
    <3>1. path \in File /\ files[path] = committed
      BY <2>3, OutpathIsOther DEF DatabaseInv, Typed, CommittedInv
    <3> QED
      BY <3>1
  <2> QED
    BY <2>1, <2>2, <2>3 DEF DatabaseInv, Typed, Steps
<1> QED
  BY <1>1, DatabaseInvariant, PTL

(* Until a commit has written all of the new database, the file at the     *)
(* path is the last one.                                                   *)
THEOREM PathIsCommitted == Spec => []FileIsCommitted
<1>1. DatabaseInv => FileIsCommitted
  BY DEF DatabaseInv, CommittedInv, FileIsCommitted
<1> QED
  BY <1>1, DatabaseInvariant, PTL

(* A commit saves every table as the last changes left it, and afterwards  *)
(* the program reads what it read before, unless a commit failed.          *)
THEOREM AllIsSaved == Spec => []CommitSavesAll
<1>1. DatabaseInv => CommitSavesAll
  <2>1. DatabaseInv /\ step = "start" /\ ~failed => files[path] = expected
    BY DEF DatabaseInv, CommittedInv, SavedInv
  <2>2. DatabaseInv /\ step = "idle" /\ ~failed => \A t \in Tables : View(t) = expected[t]
    BY DEF DatabaseInv, SavedInv, View
  <2> QED
    BY <2>1, <2>2 DEF CommitSavesAll
<1> QED
  BY <1>1, DatabaseInvariant, PTL

(* Closing leaves the last commit under its path, and nothing of what was  *)
(* not committed.                                                          *)
THEOREM CloseLeavesCommitted == Spec => CloseOK
<1>1. DatabaseInv /\ [Next]_vars =>
        [Close => \A p \in {path}, o \in {outpath} :
                    /\ committed # Absent => files'[p] = committed
                    /\ o # NoFile => files'[o] = Absent]_vars
  <2> SUFFICES ASSUME DatabaseInv, Close
               PROVE  /\ committed # Absent => files'[path] = committed
                      /\ outpath # NoFile => files'[outpath] = Absent
    OBVIOUS
  <2>1. /\ step = "idle"
        /\ files' = IF outpath = NoFile THEN files ELSE [files EXCEPT ![outpath] = Absent]
    BY DEF Close, Without
  <2> QED
    BY <2>1, PathIsKept DEF DatabaseInv, CommittedInv, Typed
<1> QED
  BY <1>1, DatabaseInvariant, PTL DEF Spec, CloseOK
-----------------------------------------------------------------------------
(* What is left of a commit: the tables listed, and the steps behind them. *)
StepsLeft ==
  CASE step = "tables" -> Cardinality(DOMAIN listed) + 5
    [] step = "unlink" -> 4
    [] step = "rename" -> 3
    [] step = "reopen" -> 2
    [] step = "start" -> 1
    [] OTHER -> 0

(* Each step of libmsi_database_commit leaves less of it, and there is a   *)
(* database to write when all tables are saved: half of what CommitEnds    *)
(* says, without what the scheduling of the steps adds.                    *)
THEOREM CommitIsFinite ==
  ASSUME IsFiniteSet(Tables)
  PROVE  Spec => /\ [](StepsLeft \in Nat)
                 /\ [](step = "tables" => Assembled # {})
                 /\ [][CommitStep => StepsLeft' < StepsLeft]_vars
<1>1. ASSUME DatabaseInv
      PROVE  IsFiniteSet(DOMAIN listed) /\ Cardinality(DOMAIN listed) \in Nat /\ StepsLeft \in Nat
  <2>1. IsFiniteSet(DOMAIN listed)
    BY <1>1, FS_Subset DEF DatabaseInv, Typed
  <2>2. Cardinality(DOMAIN listed) \in Nat
    BY <2>1, FS_CardinalityType
  <2> QED
    BY <2>1, <2>2 DEF StepsLeft
<1>2. ASSUME DatabaseInv, step = "tables"
      PROVE  Assembled # {}
  <2> DEFINE c == [t \in Tables |-> IF out[t] = {} THEN 0 ELSE CHOOSE n \in out[t] : TRUE]
  <2>1. out \in [Tables -> SUBSET (1 .. MaxEdits)] /\ MaxEdits \in Nat \ {0}
    BY <1>2, DatabaseAssumption DEF DatabaseInv, Typed
  <2>2. \A t \in Tables : IF out[t] = {} THEN c[t] = 0 ELSE c[t] \in out[t]
    OBVIOUS
  <2>3. c \in Content
    BY <2>1 DEF Content
  <2> HIDE DEF c
  <2> QED
    BY <2>2, <2>3 DEF Assembled
<1>3. ASSUME DatabaseInv, CommitStep
      PROVE  StepsLeft' < StepsLeft
  <2>1. CASE \E t \in Tables : SaveTable(t)
    <3>1. PICK t \in Tables : SaveTable(t)
      BY <2>1
    <3>2. step = "tables" /\ step' = "tables" /\ t \in DOMAIN listed /\ DOMAIN listed' = DOMAIN listed \ {t}
      BY <3>1 DEF SaveTable
    <3>3. IsFiniteSet(DOMAIN listed) /\ Cardinality(DOMAIN listed) \in Nat
      BY <1>1, <1>3
    <3>4. Cardinality(DOMAIN listed') = Cardinality(DOMAIN listed) - 1
      BY <3>2, <3>3, FS_RemoveElement
    <3> QED
      BY <3>2, <3>3, <3>4 DEF StepsLeft
  <2>2. CASE CloseOut
    <3>1. step = "tables" /\ step' \in {"unlink", "reopen"} /\ Cardinality(DOMAIN listed) \in Nat
      BY <1>1, <1>3, <2>2 DEF CloseOut
    <3> QED
      BY <3>1 DEF StepsLeft
  <2>3. CASE Unlink \/ Rename \/ Reopen \/ StartTransaction
    BY <2>3 DEF Unlink, Rename, Reopen, StartTransaction, StepsLeft
  <2> QED
    BY <1>3, <2>1, <2>2, <2>3 DEF CommitStep
<1>4. DatabaseInv => StepsLeft \in Nat
  BY <1>1
<1>5. DatabaseInv => (step = "tables" => Assembled # {})
  BY <1>2
<1>6. DatabaseInv /\ [Next]_vars => [CommitStep => StepsLeft' < StepsLeft]_vars
  BY <1>3
<1> QED
  BY <1>4, <1>5, <1>6, DatabaseInvariant, PTL DEF Spec

-----------------------------------------------------------------------------
IsText(text) == text \in Seq(Range(text))

(* Where a text is cut: at the first of some characters.                   *)
CutAt(n, text, chars) ==
  /\ n \in 0 .. Len(text)
  /\ IF n = 0 THEN \A i \in 1 .. Len(text) : text[i] \notin chars
     ELSE text[n] \in chars /\ \A i \in 1 .. n - 1 : text[i] \notin chars

FirstIn(I) == IF I # {} THEN CHOOSE x \in I : \A y \in I : x <= y ELSE 0

LEMMA FirstIsLeast ==
  ASSUME NEW I \in SUBSET Nat
  PROVE  IF I = {} THEN FirstIn(I) = 0
         ELSE FirstIn(I) \in I /\ \A y \in I : FirstIn(I) <= y
<1>1. CASE I # {}
  <2>1. \E m \in I : \A y \in I : m <= y
    BY <1>1, LeastNumber
  <2> QED
    BY <1>1, <2>1 DEF FirstIn
<1> QED
  BY <1>1 DEF FirstIn

LEMMA TextIs ==
  ASSUME NEW text, IsText(text)
  PROVE  /\ Len(text) \in Nat /\ DOMAIN text = 1 .. Len(text)
         /\ \A i \in 1 .. Len(text) : text[i] \in Range(text)
BY LenProperties DEF IsText

LEMMA UpToIs ==
  ASSUME NEW text, IsText(text), NEW chars
  PROVE  \E n : /\ CutAt(n, text, chars)
                /\ UpTo(text, chars) = IF n = 0 THEN text ELSE SubSeq(text, 1, n - 1)
<1> DEFINE I == {i \in 1 .. Len(text) : text[i] \in chars}
           n == FirstIn(I)
<1>1. Len(text) \in Nat
  BY TextIs
<1>2. IF I = {} THEN n = 0 ELSE n \in I /\ \A y \in I : n <= y
  <2>1. I \in SUBSET Nat
    BY <1>1
  <2> HIDE DEF I
  <2> QED
    BY <2>1, FirstIsLeast
<1>3. UpTo(text, chars) = IF n = 0 THEN text ELSE SubSeq(text, 1, n - 1)
  BY DEF UpTo, SelectInSeq, Min, FirstIn
<1> HIDE DEF n
<1>4. CutAt(n, text, chars)
  BY <1>1, <1>2 DEF CutAt
<1> HIDE DEF I
<1> QED
  BY <1>3, <1>4

LEMMA BehindIs ==
  ASSUME NEW text, IsText(text), NEW chars
  PROVE  \E n : /\ CutAt(n, text, Range(text) \ chars)
                /\ Behind(text, chars) = IF n = 0 THEN <<>> ELSE SubSeq(text, n, Len(text))
<1> DEFINE I == {i \in 1 .. Len(text) : text[i] \notin chars}
           n == FirstIn(I)
<1>1. Len(text) \in Nat /\ \A i \in 1 .. Len(text) : text[i] \in Range(text)
  BY TextIs
<1>2. IF I = {} THEN n = 0 ELSE n \in I /\ \A y \in I : n <= y
  <2>1. I \in SUBSET Nat
    BY <1>1
  <2> HIDE DEF I
  <2> QED
    BY <2>1, FirstIsLeast
<1>3. Behind(text, chars) = IF n = 0 THEN <<>> ELSE SubSeq(text, n, Len(text))
  BY DEF Behind, SelectInSeq, Min, FirstIn
<1> HIDE DEF n
<1>4. CutAt(n, text, Range(text) \ chars)
  BY <1>1, <1>2 DEF CutAt
<1> HIDE DEF I
<1> QED
  BY <1>3, <1>4

(* Texts joined, cut and gone through are texts.                           *)
LEMMA JoinedIsText ==
  ASSUME NEW s, IsText(s), NEW t, IsText(t)
  PROVE  IsText(s \o t) /\ Range(s \o t) = Range(s) \cup Range(t)
<1> DEFINE U == Range(s) \cup Range(t)
<1>1. s \in Seq(U) /\ t \in Seq(U)
  BY SeqMonotonic DEF IsText
<1>2. s \o t \in Seq(U)
  BY <1>1, ConcatProperties
<1> HIDE DEF U
<1>3. s \o t \in Seq(Range(s \o t))
  BY <1>2, SeqOfRange
<1>4. Range(s \o t) = Range(s) \cup Range(t)
  BY <1>1, RangeConcatenation
<1> QED
  BY <1>3, <1>4 DEF IsText

LEMMA PartIsText ==
  ASSUME NEW s, IsText(s), NEW m \in 1 .. Len(s) + 1, NEW n \in 0 .. Len(s)
  PROVE  /\ IsText(SubSeq(s, m, n)) /\ Range(SubSeq(s, m, n)) \subseteq Range(s)
         /\ Len(SubSeq(s, m, n)) = IF m <= n THEN n - m + 1 ELSE 0
         /\ \A i \in 1 .. n - m + 1 : SubSeq(s, m, n)[i] = s[m + i - 1]
<1>1. m \in Int /\ n \in Int /\ \A i \in m .. n : s[i] \in Range(s)
  BY TextIs
<1>2. /\ SubSeq(s, m, n) \in Seq(Range(s))
      /\ Len(SubSeq(s, m, n)) = IF m <= n THEN n - m + 1 ELSE 0
      /\ \A i \in 1 .. n - m + 1 : SubSeq(s, m, n)[i] = s[m + i - 1]
  BY <1>1, SubSeqProperties
<1> DEFINE p == SubSeq(s, m, n)
<1> HIDE DEF p
<1>3. p \in Seq(Range(p)) /\ Range(p) \subseteq Range(s)
  BY <1>2, SeqOfRange, RangeOfSeq DEF p
<1> QED
  BY <1>2, <1>3 DEF p, IsText

LEMMA OneIsText ==
  /\ IsText(<<>>) /\ Range(<<>>) = {}
  /\ \A c : IsText(<<c>>) /\ Range(<<c>>) = {c}
BY DEF IsText, Range

LEMMA UpToIsText ==
  ASSUME NEW text, IsText(text), NEW chars
  PROVE  /\ IsText(UpTo(text, chars)) /\ Range(UpTo(text, chars)) \subseteq Range(text)
         /\ Len(UpTo(text, chars)) <= Len(text)
<1>1. PICK n : /\ CutAt(n, text, chars)
               /\ UpTo(text, chars) = IF n = 0 THEN text ELSE SubSeq(text, 1, n - 1)
  BY UpToIs
<1>2. Len(text) \in Nat /\ n \in 0 .. Len(text)
  BY <1>1, TextIs DEF CutAt
<1>3. CASE n # 0
  <2>1. 1 \in 1 .. Len(text) + 1 /\ n - 1 \in 0 .. Len(text)
    BY <1>2, <1>3
  <2> QED
    BY <1>1, <1>2, <1>3, <2>1, PartIsText
<1> QED
  BY <1>1, <1>2, <1>3

LEMMA BehindIsText ==
  ASSUME NEW text, IsText(text), NEW chars
  PROVE  /\ IsText(Behind(text, chars)) /\ Range(Behind(text, chars)) \subseteq Range(text)
         /\ Len(Behind(text, chars)) <= Len(text)
<1>1. PICK n : /\ CutAt(n, text, Range(text) \ chars)
               /\ Behind(text, chars) = IF n = 0 THEN <<>> ELSE SubSeq(text, n, Len(text))
  BY BehindIs
<1>2. Len(text) \in Nat /\ n \in 0 .. Len(text)
  BY <1>1, TextIs DEF CutAt
<1>3. CASE n # 0
  <2>1. n \in 1 .. Len(text) + 1 /\ Len(text) \in 0 .. Len(text)
    BY <1>2, <1>3
  <2> QED
    BY <1>1, <1>2, <1>3, <2>1, PartIsText
<1> QED
  BY <1>1, <1>2, <1>3, OneIsText

LEMMA FromIsText ==
  ASSUME NEW text, IsText(text), NEW chars
  PROVE  /\ IsText(From(text, chars)) /\ Range(From(text, chars)) \subseteq Range(text)
         /\ Len(From(text, chars)) <= Len(text)
<1>1. Len(text) \in Nat /\ Len(UpTo(text, chars)) \in 0 .. Len(text)
  BY UpToIsText, TextIs
<1>2. Len(UpTo(text, chars)) + 1 \in 1 .. Len(text) + 1 /\ Len(text) \in 0 .. Len(text)
  BY <1>1
<1> QED
  BY <1>1, <1>2, PartIsText DEF From

LEMMA SeparatorIsText ==
  ASSUME NEW text, IsText(text)
  PROVE  /\ IsText(BehindSeparator(text)) /\ Range(BehindSeparator(text)) \subseteq Range(text)
         /\ Len(BehindSeparator(text)) <= Len(text)
<1>1. CASE text = <<>>
  BY <1>1, OneIsText DEF BehindSeparator
<1>2. CASE text # <<>> /\ Head(text) \in Ends
  BY <1>2, BehindIsText DEF BehindSeparator
<1>3. CASE text # <<>> /\ Head(text) \notin Ends
  <2>1. Tail(text) = SubSeq(text, 2, Len(text)) /\ Len(text) \in Nat \ {0}
    BY <1>3, TailIsSubSeq, EmptySeq DEF IsText
  <2>2. 2 \in 1 .. Len(text) + 1 /\ Len(text) \in 0 .. Len(text)
    BY <2>1
  <2>3. BehindSeparator(text) = SubSeq(text, 2, Len(text))
    BY <1>3, <2>1 DEF BehindSeparator
  <2> QED
    BY <2>1, <2>2, <2>3, PartIsText
<1> QED
  BY <1>1, <1>2, <1>3

Associate(s, t, u) == (s \o t) \o u = s \o (t \o u)

LEMMA JoinAssociates ==
  ASSUME NEW U, NEW s \in Seq(U), NEW t \in Seq(U), NEW u \in Seq(U)
  PROVE  Associate(s, t, u)
BY ConcatAssociative DEF Associate

(* FlattenSeq joins the pieces from the first to the last; what is read is *)
(* what is left of them from each on.                                      *)
PrefixesOf(pieces, pre) ==
  /\ pre[0] = <<>>
  /\ \A i \in 1 .. Len(pieces) : pre[i] = pre[i - 1] \o pieces[i]

LEMMA FlattenPrefixes ==
  ASSUME NEW U, NEW pieces \in Seq(Seq(U))
  PROVE  \E pre \in [0 .. Len(pieces) -> Seq(U)] :
           PrefixesOf(pieces, pre) /\ FlattenSeq(pieces) = pre[Len(pieces)]
<1> DEFINE n == Len(pieces)
           S == Seq(U)
           turn == [x \in S \X (1 .. n) |-> x[1] \o pieces[x[2]]]
           IsFl(g) == g = [i \in 1 .. Len(pieces) |-> IF i = 1 THEN pieces[i] ELSE g[i - 1] \o pieces[i]]
           fl == CHOOSE g : IsFl(g)
<1>1. n \in Nat /\ \A i \in 1 .. n : pieces[i] \in S
  BY LenProperties, ElementOfSeq
<1>2. \A q \in S, i \in 1 .. n : turn[<<q, i>>] = q \o pieces[i] /\ q \o pieces[i] \in S
  <2> SUFFICES ASSUME NEW q \in S, NEW i \in 1 .. n
               PROVE  turn[<<q, i>>] = q \o pieces[i] /\ q \o pieces[i] \in S
    OBVIOUS
  <2>1. q \o pieces[i] \in S
    BY <1>1, ConcatProperties
  <2>2. <<q, i>> \in S \X (1 .. n) /\ <<q, i>>[1] = q /\ <<q, i>>[2] = i
    OBVIOUS
  <2> QED
    BY <2>1, <2>2
<1>3. PICK pre \in [0 .. n -> S] : pre[0] = <<>> /\ \A i \in 1 .. n : pre[i] = turn[<<pre[i - 1], i>>]
  <2>1. <<>> \in S
    OBVIOUS
  <2>2. LoopsOf(n, S, <<>>, turn) # {}
    <3> HIDE DEF n, S, turn
    <3> QED
      BY <1>1, <1>2, <2>1, LoopExists
  <2> HIDE DEF n, S, turn
  <2> QED
    BY <2>2 DEF LoopsOf
<1>4. \A i \in 1 .. n : pre[i - 1] \in S /\ pre[i] = pre[i - 1] \o pieces[i]
  <2> SUFFICES ASSUME NEW i \in 1 .. n
               PROVE  pre[i - 1] \in S /\ pre[i] = pre[i - 1] \o pieces[i]
    OBVIOUS
  <2>1. i - 1 \in 0 .. n
    BY <1>1
  <2>2. pre[i - 1] \in S
    BY <1>3, <2>1
  <2> HIDE DEF turn, n, S
  <2> QED
    BY <1>2, <1>3, <2>2
<1>5. PrefixesOf(pieces, pre)
  BY <1>3, <1>4 DEF PrefixesOf
<1>8. \A i \in 1 .. n : pre[i] = IF i = 1 THEN pieces[i] ELSE pre[i - 1] \o pieces[i]
  <2> SUFFICES ASSUME NEW i \in 1 .. n, i = 1
               PROVE  pre[i] = pieces[i]
    BY <1>4
  <2>1. i - 1 = 0 /\ pre[i - 1] = <<>> /\ pieces[i] \in Seq(U)
    BY <1>1, <1>3
  <2>2. pre[i] = <<>> \o pieces[i]
    <3> HIDE DEF turn
    <3> QED
      BY <1>4, <2>1
  <2> QED
    BY <2>1, <2>2, ConcatEmptySeq
<1>6. CASE n = 0
  <2>1. pieces = <<>>
    BY <1>6, EmptySeq
  <2>2. FlattenSeq(pieces) = pieces
    BY <1>6, Zenon DEF FlattenSeq
  <2> QED
    BY <1>3, <1>5, <1>6, <2>1, <2>2
<1>7. CASE n # 0
  <2>1. FlattenSeq(pieces) = fl[n]
    BY <1>7, Zenon DEF FlattenSeq
  <2>2. IsFl([i \in 1 .. n |-> pre[i]])
    <3> DEFINE g == [i \in 1 .. n |-> pre[i]]
    <3>1. ASSUME NEW i \in 1 .. n
          PROVE  pre[i] = IF i = 1 THEN pieces[i] ELSE g[i - 1] \o pieces[i]
      <4>1. i # 1 => g[i - 1] = pre[i - 1]
        BY <1>1
      <4> HIDE DEF g
      <4> QED
        BY <1>8, <4>1
    <3> QED
      BY <3>1
  <2>3. IsFl(fl)
    <3> HIDE DEF IsFl
    <3> QED
      BY <2>2, Zenon
  <2> DEFINE Good == {i \in 0 .. n : i = 0 \/ fl[i] = pre[i]}
  <2>4. ASSUME NEW i \in 1 .. n, i - 1 \in Good
        PROVE  i \in Good
    <3>1. fl[i] = IF i = 1 THEN pieces[i] ELSE fl[i - 1] \o pieces[i]
      <4> HIDE DEF fl
      <4> QED
        BY <2>3
    <3> HIDE DEF fl, turn
    <3> QED
      BY <1>1, <1>8, <2>4, <3>1
  <2>5. \A i \in 0 .. n : i \in Good
    <3>1. 0 \in Good
      BY <1>1
    <3> HIDE DEF Good
    <3> QED
      BY <1>1, <2>4, <3>1, UpToLast
  <2>6. fl[n] = pre[n]
    <3> HIDE DEF fl
    <3> QED
      BY <1>1, <1>7, <2>5
  <2> HIDE DEF fl, turn
  <2> QED
    BY <1>3, <1>5, <2>1, <2>6
<1> QED
  BY <1>6, <1>7

SuffixesOf(pieces, suf) ==
  /\ suf[Len(pieces)] = <<>>
  /\ \A i \in 1 .. Len(pieces) : suf[i - 1] = pieces[i] \o suf[i]

LEMMA FlattenSuffixes ==
  ASSUME NEW U, NEW pieces \in Seq(Seq(U))
  PROVE  \E suf \in [0 .. Len(pieces) -> Seq(U)] :
           SuffixesOf(pieces, suf) /\ FlattenSeq(pieces) = suf[0]
<1> DEFINE n == Len(pieces)
           S == Seq(U)
           turn == [x \in S \X (1 .. n) |-> pieces[n + 1 - x[2]] \o x[1]]
<1>1. n \in Nat /\ \A i \in 1 .. n : pieces[i] \in S
  BY LenProperties, ElementOfSeq
<1>2. \A q \in S, i \in 1 .. n : turn[<<q, i>>] = pieces[n + 1 - i] \o q /\ pieces[n + 1 - i] \o q \in S
  <2> SUFFICES ASSUME NEW q \in S, NEW i \in 1 .. n
               PROVE  turn[<<q, i>>] = pieces[n + 1 - i] \o q /\ pieces[n + 1 - i] \o q \in S
    OBVIOUS
  <2>0. n + 1 - i \in 1 .. n
    BY <1>1
  <2>1. pieces[n + 1 - i] \o q \in S
    BY <1>1, <2>0, ConcatProperties
  <2>2. <<q, i>> \in S \X (1 .. n) /\ <<q, i>>[1] = q /\ <<q, i>>[2] = i
    OBVIOUS
  <2> QED
    BY <2>1, <2>2
<1>3. PICK back \in [0 .. n -> S] : back[0] = <<>> /\ \A i \in 1 .. n : back[i] = turn[<<back[i - 1], i>>]
  <2>1. <<>> \in S
    OBVIOUS
  <2>2. LoopsOf(n, S, <<>>, turn) # {}
    <3> HIDE DEF n, S, turn
    <3> QED
      BY <1>1, <1>2, <2>1, LoopExists
  <2> HIDE DEF n, S, turn
  <2> QED
    BY <2>2 DEF LoopsOf
<1> DEFINE suf == [i \in 0 .. n |-> back[n - i]]
<1>4. suf \in [0 .. n -> S] /\ suf[n] = <<>>
  <2>1. \A i \in 0 .. n : n - i \in 0 .. n
    BY <1>1
  <2>2. n \in 0 .. n /\ n - n = 0
    BY <1>1
  <2> QED
    BY <1>3, <2>1, <2>2
<1>5. \A i \in 1 .. n : suf[i] \in S /\ suf[i - 1] = pieces[i] \o suf[i]
  <2> SUFFICES ASSUME NEW i \in 1 .. n
               PROVE  suf[i] \in S /\ suf[i - 1] = pieces[i] \o suf[i]
    OBVIOUS
  <2>1. PICK j \in 1 .. n : j = n + 1 - i
    <3>1. n + 1 - i \in 1 .. n
      BY <1>1
    <3> HIDE DEF n
    <3> QED
      BY <3>1
  <2>2. j - 1 \in 0 .. n /\ i \in 0 .. n /\ i - 1 \in 0 .. n /\ n - i = j - 1 /\ n - (i - 1) = j /\ i = n + 1 - j
    BY <1>1, <2>1
  <2>3. suf[i] = back[j - 1] /\ suf[i - 1] = back[j]
    BY <2>2
  <2>4. back[j - 1] \in S
    BY <1>3, <2>2
  <2>5. back[j] = pieces[i] \o back[j - 1]
    <3> HIDE DEF turn, n, S
    <3> QED
      BY <1>2, <1>3, <2>2, <2>4
  <2> HIDE DEF suf
  <2> QED
    BY <2>3, <2>4, <2>5
<1> HIDE DEF suf
<1>6. SuffixesOf(pieces, suf)
  BY <1>4, <1>5 DEF SuffixesOf
<1>7. PICK pre \in [0 .. n -> S] : PrefixesOf(pieces, pre) /\ FlattenSeq(pieces) = pre[n]
  BY FlattenPrefixes
<1> DEFINE Good == {i \in 0 .. n : pre[i] \o suf[i] = suf[0]}
<1>8. 0 \in Good
  <2>1. 0 \in 0 .. n
    BY <1>1
  <2>2. pre[0] = <<>>
    BY <1>7 DEF PrefixesOf
  <2>3. suf[0] \in S
    BY <1>4, <2>1
  <2> QED
    BY <2>1, <2>2, <2>3, ConcatEmptySeq
<1>9. ASSUME NEW i \in 1 .. n, i - 1 \in Good
      PROVE  i \in Good
  <2>1. i - 1 \in 0 .. n /\ i \in 0 .. n
    BY <1>1
  <2>2. pre[i - 1] \in S /\ pieces[i] \in S /\ suf[i] \in S
    BY <1>1, <1>4, <1>7, <2>1
  <2>3. pre[i] = pre[i - 1] \o pieces[i] /\ suf[i - 1] = pieces[i] \o suf[i]
    BY <1>5, <1>7 DEF PrefixesOf
  <2>4. (pre[i - 1] \o pieces[i]) \o suf[i] = pre[i - 1] \o (pieces[i] \o suf[i])
    <3>1. PICK s \in Seq(U) : s = pre[i - 1]
      BY <2>2
    <3>2. PICK t \in Seq(U) : t = pieces[i]
      BY <2>2
    <3>3. PICK u \in Seq(U) : u = suf[i]
      BY <2>2
    <3>4. Associate(s, t, u)
      BY JoinAssociates
    <3> QED
      BY <3>1, <3>2, <3>3, <3>4 DEF Associate
  <2> QED
    BY <1>9, <2>1, <2>3, <2>4
<1>10. n \in Good
  <2>1. n \in 0 .. n
    BY <1>1
  <2> HIDE DEF Good, n
  <2> QED
    BY <1>1, <1>8, <1>9, <2>1, UpToLast
<1>11. pre[n] = suf[0]
  <2>1. pre[n] \in S /\ suf[n] = <<>>
    BY <1>1, <1>4, <1>7
  <2> QED
    BY <1>10, <2>1, ConcatEmptySeq
<1> QED
  BY <1>4, <1>6, <1>7, <1>11

LEMMA FlattenIsSeq ==
  ASSUME NEW U, NEW pieces \in Seq(Seq(U))
  PROVE  FlattenSeq(pieces) \in Seq(U)
<1>1. PICK suf \in [0 .. Len(pieces) -> Seq(U)] : FlattenSeq(pieces) = suf[0]
  BY FlattenSuffixes
<1>2. 0 \in 0 .. Len(pieces)
  BY LenProperties
<1> QED
  BY <1>1, <1>2

-----------------------------------------------------------------------------
(* Reading a line: the fields so far, and the text that is left.           *)
Reading(U) == [fields : Seq(Seq(U)), rest : Seq(U)]

LEMMA TextOver ==
  ASSUME NEW U, NEW text
  PROVE  text \in Seq(U) <=> IsText(text) /\ Range(text) \subseteq U
<1>1. ASSUME text \in Seq(U)
      PROVE  IsText(text) /\ Range(text) \subseteq U
  BY <1>1, SeqOfRange, RangeOfSeq DEF IsText
<1>2. ASSUME IsText(text), Range(text) \subseteq U
      PROVE  text \in Seq(U)
  BY <1>2, SeqMonotonic DEF IsText
<1> QED
  BY <1>1, <1>2

LEMMA UnmarkedTyped ==
  ASSUME NEW U, Ends \subseteq U, NEW field \in Seq(U)
  PROVE  Unmarked(field) \in Seq(U)
<1> DEFINE pieces == [i \in DOMAIN field |-> IF field[i] = Mark THEN LineEnd ELSE <<field[i]>>]
<1>1. DOMAIN field = 1 .. Len(field) /\ Len(field) \in Nat /\ \A i \in 1 .. Len(field) : field[i] \in U
  BY LenProperties
<1>2. LineEnd \in Seq(U) /\ \A c \in U : <<c>> \in Seq(U)
  BY DEF LineEnd, Ends
<1>3. pieces \in [1 .. Len(field) -> Seq(U)]
  BY <1>1, <1>2
<1>4. pieces \in Seq(Seq(U))
  BY <1>1, <1>3, SeqDef
<1> QED
  BY <1>4, FlattenIsSeq DEF Unmarked

LEMMA WithFieldTyped ==
  ASSUME NEW U, Ends \subseteq U, NEW got \in Reading(U)
  PROVE  WithField(got) \in Reading(U)
<1> DEFINE start == Behind(got.rest, {Return})
           field == UpTo(start, Ends \cup {Tab})
           rest == BehindSeparator(From(start, Ends \cup {Tab}))
<1>1. got.rest \in Seq(U) /\ got.fields \in Seq(Seq(U))
  BY DEF Reading
<1>2. start \in Seq(U) /\ IsText(start)
  BY <1>1, BehindIsText, TextOver
<1> HIDE DEF start
<1>3. field \in Seq(U)
  BY <1>2, UpToIsText, TextOver
<1>4. rest \in Seq(U)
  BY <1>2, FromIsText, SeparatorIsText, TextOver
<1> HIDE DEF field, rest
<1>5. Append(got.fields, Unmarked(field)) \in Seq(Seq(U))
  BY <1>1, <1>3, UnmarkedTyped, AppendProperties
<1>6. WithField(got) = [fields |-> Append(got.fields, Unmarked(field)), rest |-> rest]
  BY DEF WithField, start, field, rest
<1> QED
  BY <1>4, <1>5, <1>6 DEF Reading

FieldsRounds(text, n, got) ==
  /\ got[0] = [fields |-> <<>>, rest |-> text]
  /\ \A i \in 1 .. n : got[i] = WithField(got[i - 1])

LEMMA FieldsLoop ==
  ASSUME NEW U, Ends \subseteq U, NEW text \in Seq(U), NEW n \in Nat
  PROVE  \E got \in [0 .. n -> Reading(U)] : FieldsRounds(text, n, got) /\ FieldsOf(text, n) = got[n]
<1> DEFINE S == Reading(U)
           base == [fields |-> <<>>, rest |-> text]
           IsGot(g) == g = [k \in 0 .. n |-> IF k = 0 THEN [fields |-> <<>>, rest |-> text]
                                             ELSE WithField(g[k - 1])]
           got == CHOOSE g : IsGot(g)
           turn == [x \in S \X (1 .. n) |-> WithField(x[1])]
<1>1. base \in S
  BY DEF Reading
<1>2. \A q \in S, i \in 1 .. n : turn[<<q, i>>] = WithField(q) /\ WithField(q) \in S
  BY WithFieldTyped
<1>3. PICK h \in [0 .. n -> S] : h[0] = base /\ \A i \in 1 .. n : h[i] = turn[<<h[i - 1], i>>]
  <2>1. LoopsOf(n, S, base, turn) # {}
    <3> HIDE DEF S, base, turn
    <3> QED
      BY <1>1, <1>2, LoopExists
  <2> HIDE DEF S, base, turn
  <2> QED
    BY <2>1 DEF LoopsOf
<1>4. \A i \in 1 .. n : i - 1 \in 0 .. n /\ h[i] = WithField(h[i - 1])
  <2> HIDE DEF S, base, turn
  <2> QED
    BY <1>2, <1>3
<1>5. IsGot(h)
  <2>1. \A k \in 0 .. n : h[k] = IF k = 0 THEN base ELSE WithField(h[k - 1])
    BY <1>3, <1>4
  <2> QED
    BY <1>3, <2>1
<1>6. IsGot(got)
  <2> HIDE DEF IsGot
  <2> QED
    BY <1>5, Zenon
<1>7. FieldsOf(text, n) = got[n]
  BY Zenon DEF FieldsOf
<1> HIDE DEF got
<1>8. FieldsRounds(text, n, got)
  BY <1>6 DEF FieldsRounds
<1>9. \A i \in 0 .. n : got[i] \in S
  <2>1. \A i \in 1 .. n : got[i - 1] \in S => got[i] \in S
    BY <1>8, WithFieldTyped DEF FieldsRounds
  <2>2. got[0] \in S
    BY <1>1, <1>8 DEF FieldsRounds
  <2> HIDE DEF S
  <2> QED
    BY <2>1, <2>2, LoopStays
<1>10. got \in [0 .. n -> S]
  BY <1>6, <1>9
<1> QED
  BY <1>7, <1>8, <1>10

LEMMA TabsCounted ==
  ASSUME NEW text, IsText(text)
  PROVE  IsFiniteSet(Tabs(text)) /\ Cardinality(Tabs(text)) \in Nat
<1>1. Len(text) \in Nat /\ Tabs(text) \subseteq 1 .. Len(text)
  BY TextIs DEF Tabs
<1>2. IsFiniteSet(1 .. Len(text))
  BY <1>1, FS_Interval
<1> QED
  BY <1>1, <1>2, FS_Subset, FS_CardinalityType

LEMMA ParseLineTyped ==
  ASSUME NEW U, Ends \subseteq U, NEW text \in Seq(U)
  PROVE  ParseLine(text) \in Reading(U)
<1> DEFINE n == 1 + Cardinality(Tabs(UpTo(text, {Newline})))
<1>1. n \in Nat
  BY TextOver, UpToIsText, TabsCounted
<1>2. PICK got \in [0 .. n -> Reading(U)] : FieldsOf(text, n) = got[n]
  <2> HIDE DEF n
  <2> QED
    BY <1>1, FieldsLoop
<1>3. got[n] \in Reading(U)
  <2> HIDE DEF n
  <2> QED
    BY <1>1
<1> QED
  BY <1>2, <1>3 DEF ParseLine

(* Reading lines.                                                          *)
ReadingLines(U) == [lines : Seq(Seq(Seq(U))), rest : Seq(U)]
LinesRounds(text, n, got) ==
  /\ got[0] = [lines |-> <<>>, rest |-> text]
  /\ \A i \in 1 .. n : got[i] = WithLine(got[i - 1])

LEMMA WithLineTyped ==
  ASSUME NEW U, Ends \subseteq U, NEW got \in ReadingLines(U)
  PROVE  WithLine(got) \in ReadingLines(U)
<1>1. CASE got.rest = <<>>
  BY <1>1 DEF WithLine
<1>2. CASE got.rest # <<>>
  <2> DEFINE line == ParseLine(got.rest)
  <2>1. got.rest \in Seq(U) /\ got.lines \in Seq(Seq(Seq(U)))
    BY DEF ReadingLines
  <2>2. line.fields \in Seq(Seq(U)) /\ line.rest \in Seq(U)
    BY <2>1, ParseLineTyped DEF Reading
  <2>3. WithLine(got) = [lines |-> Append(got.lines, line.fields), rest |-> line.rest]
    BY <1>2 DEF WithLine
  <2> HIDE DEF line
  <2>4. Append(got.lines, line.fields) \in Seq(Seq(Seq(U)))
    BY <2>1, <2>2, AppendProperties
  <2> QED
    BY <2>2, <2>3, <2>4 DEF ReadingLines
<1> QED
  BY <1>1, <1>2

LEMMA LinesLoop ==
  ASSUME NEW U, Ends \subseteq U, NEW text \in Seq(U)
  PROVE  \E got \in [0 .. Len(text) -> ReadingLines(U)] :
           LinesRounds(text, Len(text), got) /\ LinesOf(text) = got[Len(text)].lines
<1> DEFINE n == Len(text)
           S == ReadingLines(U)
           base == [lines |-> <<>>, rest |-> text]
           IsGot(g) == g = [k \in 0 .. Len(text) |-> IF k = 0 THEN [lines |-> <<>>, rest |-> text]
                                                     ELSE WithLine(g[k - 1])]
           got == CHOOSE g : IsGot(g)
           turn == [x \in S \X (1 .. n) |-> WithLine(x[1])]
<1>0. n \in Nat
  BY LenProperties
<1>1. base \in S
  BY DEF ReadingLines
<1>2. \A q \in S, i \in 1 .. n : turn[<<q, i>>] = WithLine(q) /\ WithLine(q) \in S
  BY WithLineTyped
<1>3. PICK h \in [0 .. n -> S] : h[0] = base /\ \A i \in 1 .. n : h[i] = turn[<<h[i - 1], i>>]
  <2>1. LoopsOf(n, S, base, turn) # {}
    <3> HIDE DEF S, base, turn, n
    <3> QED
      BY <1>0, <1>1, <1>2, LoopExists
  <2> HIDE DEF S, base, turn, n
  <2> QED
    BY <2>1 DEF LoopsOf
<1>4. \A i \in 1 .. n : i - 1 \in 0 .. n /\ h[i] = WithLine(h[i - 1])
  <2> HIDE DEF S, base, turn, n
  <2> QED
    BY <1>0, <1>2, <1>3
<1>5. IsGot(h)
  <2>1. \A k \in 0 .. n : h[k] = IF k = 0 THEN base ELSE WithLine(h[k - 1])
    BY <1>0, <1>3, <1>4
  <2> QED
    BY <1>3, <2>1
<1>6. IsGot(got)
  <2> HIDE DEF IsGot
  <2> QED
    BY <1>5, Zenon
<1>7. LinesOf(text) = got[n].lines
  BY Zenon DEF LinesOf
<1> HIDE DEF got
<1>8. LinesRounds(text, n, got)
  BY <1>0, <1>6 DEF LinesRounds
<1>9. \A i \in 0 .. n : got[i] \in S
  <2>1. \A i \in 1 .. n : got[i - 1] \in S => got[i] \in S
    BY <1>8, WithLineTyped DEF LinesRounds
  <2>2. got[0] \in S
    BY <1>1, <1>8 DEF LinesRounds
  <2> HIDE DEF S, n
  <2> QED
    BY <1>0, <2>1, <2>2, LoopStays
<1>10. got \in [0 .. n -> S]
  BY <1>6, <1>9
<1> QED
  BY <1>7, <1>8, <1>10

LEMMA RowsReadTyped ==
  ASSUME NEW U, Ends \subseteq U, NEW text \in Seq(U)
  PROVE  RowsRead(text) \in Seq(Seq(Seq(U)))
<1> DEFINE behind == Behind(text, Ends)
<1>1. behind \in Seq(U)
  BY BehindIsText, TextOver
<1> HIDE DEF behind
<1>2. PICK got \in [0 .. Len(behind) -> ReadingLines(U)] : LinesOf(behind) = got[Len(behind)].lines
  BY <1>1, LinesLoop
<1>3. got[Len(behind)] \in ReadingLines(U)
  <2>1. Len(behind) \in 0 .. Len(behind)
    BY <1>1, LenProperties
  <2> QED
    BY <2>1
<1>4. LinesOf(behind) \in Seq(Seq(Seq(U)))
  BY <1>2, <1>3 DEF ReadingLines
<1> QED
  BY <1>4 DEF RowsRead, behind

-----------------------------------------------------------------------------
(* A table as after any call, but for what is in the cells.                *)
Shaped(cols, row) == row = [i \in DOMAIN cols |-> row[i]]
Header(cols) == cols \in Seq(Range(cols)) /\ cols # <<>>
Cells(cols, row) ==
  \A i \in DOMAIN row : /\ IsText(row[i])
                        /\ cols[i].kind = "int" => row[i] = Null \/ IsNumber(row[i])
Sound(table) ==
  /\ Header(table.cols) /\ IsFiniteSet(table.rows)
  /\ table = [cols |-> table.cols, rows |-> table.rows]
  /\ \A row \in table.rows : Shaped(table.cols, row) /\ ~NullRefused(table.cols, row)
  /\ \A row \in table.rows, other \in table.rows : row # other => ~SameKey(table.cols, row, other)

(* A function of the columns is a row with a cell for each.                *)
LEMMA ShapedIsRow ==
  ASSUME NEW cols, cols \in Seq(Range(cols)), NEW row, Shaped(cols, row)
  PROVE  row \in Seq(Range(row)) /\ Len(row) = Len(cols) /\ DOMAIN row = 1 .. Len(cols)
<1> DEFINE n == Len(cols)
<1>1. n \in Nat /\ DOMAIN cols = 1 .. n
  BY LenProperties
<1>2. DOMAIN row = 1 .. n
  BY <1>1 DEF Shaped
<1>3. \A i \in 1 .. n : row[i] \in Range(row)
  BY <1>2 DEF Range
<1>4. row \in [1 .. n -> Range(row)]
  BY <1>1, <1>3 DEF Shaped
<1>5. row \in Seq(Range(row))
  BY <1>1, <1>4, SeqDef
<1> QED
  BY <1>1, <1>2, <1>5, LenProperties

LEMMA RowIsShaped ==
  ASSUME NEW cols, cols \in Seq(Range(cols)), NEW row, row \in Seq(Range(row)), Len(row) = Len(cols)
  PROVE  Shaped(cols, row)
<1>1. row \in [1 .. Len(row) -> Range(row)] /\ DOMAIN cols = 1 .. Len(row)
  BY LenProperties
<1> QED
  BY <1>1 DEF Shaped

LEMMA TableIs ==
  ASSUME NEW table
  PROVE  IsTable(table) <=> Sound(table) /\ \A row \in table.rows : Cells(table.cols, row)
<1>1. ASSUME IsTable(table)
      PROVE  Sound(table) /\ \A row \in table.rows : Cells(table.cols, row)
  <2>1. ASSUME NEW row \in table.rows
        PROVE  Shaped(table.cols, row) /\ ~NullRefused(table.cols, row) /\ Cells(table.cols, row)
    <3>1. IsRow(table.cols, row) /\ table.cols \in Seq(Range(table.cols))
      BY <1>1 DEF IsTable
    <3>2. Shaped(table.cols, row)
      BY <3>1, RowIsShaped, Zenon DEF IsRow
    <3> QED
      BY <3>1, <3>2 DEF IsRow, Cells, IsText
  <2> QED
    BY <1>1, <2>1 DEF IsTable, Sound, Header
<1>2. ASSUME Sound(table), \A row \in table.rows : Cells(table.cols, row)
      PROVE  IsTable(table)
  <2>1. ASSUME NEW row \in table.rows
        PROVE  IsRow(table.cols, row)
    <3>1. Shaped(table.cols, row) /\ ~NullRefused(table.cols, row) /\ table.cols \in Seq(Range(table.cols))
      BY <1>2 DEF Sound, Header
    <3>2. row \in Seq(Range(row)) /\ Len(row) = Len(table.cols)
      BY <3>1, ShapedIsRow
    <3> QED
      BY <1>2, <3>1, <3>2 DEF IsRow, Cells, IsText
  <2> QED
    BY <1>2, <2>1 DEF IsTable, Sound, Header
<1> QED
  BY <1>1, <1>2

(* A row that is not refused leaves a table sound, and so do rows of which *)
(* none is refused over the others.                                        *)
LEMMA WithRowIs ==
  ASSUME NEW table, IsTable(table), NEW row,
         Shaped(table.cols, row), Cells(table.cols, row), ~Refused(table, row)
  PROVE  /\ IsTable(WithRow(table, row)) /\ WithRow(table, row).cols = table.cols
         /\ WithRow(table, row).rows = table.rows \cup {row}
<1> DEFINE new == WithRow(table, row)
<1>0. Sound(table) /\ \A one \in table.rows : Cells(table.cols, one)
  BY TableIs
<1>1. new = [cols |-> table.cols, rows |-> table.rows \cup {row}]
  BY <1>0 DEF WithRow, Sound
<1>2. IsFiniteSet(table.rows \cup {row})
  BY <1>0, FS_AddElement DEF Sound
<1>3. ASSUME NEW one \in new.rows
      PROVE  Shaped(new.cols, one) /\ ~NullRefused(new.cols, one) /\ Cells(new.cols, one)
  BY <1>0, <1>1, <1>3 DEF Sound, Refused
<1>4. ASSUME NEW one \in new.rows, NEW other \in new.rows, one # other
      PROVE  ~SameKey(new.cols, one, other)
  <2>1. CASE one \in table.rows /\ other \in table.rows
    BY <1>0, <1>1, <1>4, <2>1 DEF Sound
  <2>2. CASE one = row /\ other \in table.rows
    BY <1>1, <2>2 DEF Refused
  <2>3. CASE one \in table.rows /\ other = row
    BY <1>1, <2>3 DEF Refused, SameKey
  <2> QED
    BY <1>1, <1>4, <2>1, <2>2, <2>3
<1>5. Sound(new)
  BY <1>0, <1>1, <1>2, <1>3, <1>4 DEF Sound
<1> HIDE DEF new
<1>6. IsTable(new)
  BY <1>3, <1>5, TableIs
<1> QED
  BY <1>1, <1>6 DEF new

FromTexts(row) == \A i \in DOMAIN row : IsText(row[i])

LEMMA FittedIs ==
  ASSUME NEW cols, NEW row, FromTexts(row)
  PROVE  Shaped(cols, Fitted(cols, row)) /\ Cells(cols, Fitted(cols, row))
<1>1. Shaped(cols, Fitted(cols, row)) /\ DOMAIN Fitted(cols, row) = DOMAIN cols
  BY DEF Shaped, Fitted
<1>2. ASSUME NEW i \in DOMAIN cols
      PROVE  /\ Fitted(cols, row)[i] = Null \/ (i \in DOMAIN row /\ Fitted(cols, row)[i] = row[i])
             /\ cols[i].kind = "int" => Fitted(cols, row)[i] = Null \/ IsNumber(Fitted(cols, row)[i])
  BY DEF Fitted
<1>3. IsText(Null)
  BY OneIsText DEF Null
<1> HIDE DEF Fitted
<1> QED
  BY <1>1, <1>2, <1>3 DEF Cells, FromTexts

LEMMA WithRowsAre ==
  ASSUME NEW table, Sound(table), NEW rows
  PROVE  WithRows(table, rows) =
           [cols |-> table.cols, rows |-> table.rows \cup {Fitted(table.cols, row) : row \in rows}]
BY DEF WithRows, Sound

LEMMA AcceptedOver ==
  ASSUME NEW table, Sound(table), NEW rows, Accepted(table, rows), NEW row \in rows
  PROVE  /\ ~NullRefused(table.cols, Fitted(table.cols, row))
         /\ \A other \in table.rows : ~SameKey(table.cols, Fitted(table.cols, row), other)
         /\ \A x \in rows : x # row => ~SameKey(table.cols, Fitted(table.cols, row), Fitted(table.cols, x))
<1> DEFINE others == WithRows(table, rows \ {row})
<1>1. others.cols = table.cols
      /\ others.rows = table.rows \cup {Fitted(table.cols, x) : x \in rows \ {row}}
  BY WithRowsAre
<1>2. ~Refused(others, Fitted(others.cols, row))
  BY DEF Accepted, Refusing
<1> HIDE DEF others
<1> QED
  BY <1>1, <1>2 DEF Refused

LEMMA WithRowsTable ==
  ASSUME NEW table, IsTable(table), NEW rows, IsFiniteSet(rows), \A row \in rows : FromTexts(row),
         Accepted(table, rows)
  PROVE  IsTable(WithRows(table, rows))
<1> DEFINE Fit(row) == Fitted(table.cols, row)
           added == {Fit(row) : row \in rows}
           new == WithRows(table, rows)
<1>0. Sound(table) /\ \A one \in table.rows : Cells(table.cols, one)
  BY TableIs
<1>1. new = [cols |-> table.cols, rows |-> table.rows \cup added]
  BY <1>0, WithRowsAre
<1>2. IsFiniteSet(table.rows \cup added)
  <2>1. IsFiniteSet(added)
    <3> DEFINE f == [x \in rows |-> Fit(x)]
    <3>1. f \in Surjection(rows, added)
      BY DEF Surjection
    <3> QED
      BY <3>1, FS_Surjection
  <2> QED
    BY <1>0, <2>1, FS_Union DEF Sound
<1>3. ASSUME NEW one \in new.rows
      PROVE  Shaped(new.cols, one) /\ ~NullRefused(new.cols, one) /\ Cells(new.cols, one)
  BY <1>0, <1>1, FittedIs, AcceptedOver DEF Sound
<1>4. ASSUME NEW one \in new.rows, NEW other \in new.rows, one # other
      PROVE  ~SameKey(new.cols, one, other)
  <2>1. CASE one \in table.rows /\ other \in table.rows
    BY <1>0, <1>1, <1>4, <2>1 DEF Sound
  <2>2. CASE one \in added /\ other \in table.rows
    BY <1>0, <1>1, <2>2, AcceptedOver
  <2>3. CASE one \in table.rows /\ other \in added
    <3>1. ~SameKey(table.cols, other, one)
      BY <1>0, <2>3, AcceptedOver
    <3> QED
      BY <1>1, <3>1 DEF SameKey
  <2>4. CASE one \in added /\ other \in added
    <3>1. PICK x \in rows : one = Fit(x)
      BY <2>4
    <3>2. PICK y \in rows : other = Fit(y)
      BY <2>4
    <3> QED
      BY <1>0, <1>1, <1>4, <3>1, <3>2, AcceptedOver
  <2> QED
    BY <1>1, <1>4, <2>1, <2>2, <2>3, <2>4
<1>5. Sound(new)
  BY <1>0, <1>1, <1>2, <1>3, <1>4 DEF Sound
<1>6. \A one \in new.rows : Cells(new.cols, one)
  BY <1>3
<1> HIDE DEF new
<1>7. IsTable(new)
  BY <1>5, <1>6, TableIs
<1> QED
  BY <1>7 DEF new

LEMMA EmptyIs ==
  ASSUME NEW cols, Header(cols)
  PROVE  IsTable(EmptyTable(cols)) /\ EmptyTable(cols).cols = cols /\ EmptyTable(cols).rows = {}
BY FS_EmptySet DEF IsTable, EmptyTable, Header

LEMMA WithTableTyped ==
  ASSUME \A n \in DOMAIN db : IsTable(db[n]), NEW name, NEW table, IsTable(table),
         db' = WithTable(name, table)
  PROVE  \A n \in DOMAIN db' : IsTable(db'[n])
BY DEF WithTable

(* The text of a table.                                                    *)
Separators == {Tab, Newline, Return}

LEMMA TextOfRowTyped ==
  ASSUME NEW U, Separators \subseteq U, NEW row \in Seq(Seq(U))
  PROVE  TextOfRow(row) \in Seq(U)
<1> DEFINE pieces == [i \in DOMAIN row |-> row[i] \o (IF i < Len(row) THEN <<Tab>> ELSE LineEnd)]
<1>1. DOMAIN row = 1 .. Len(row) /\ Len(row) \in Nat /\ \A i \in 1 .. Len(row) : row[i] \in Seq(U)
  BY LenProperties, ElementOfSeq
<1>2. LineEnd \in Seq(U) /\ <<Tab>> \in Seq(U)
  BY DEF LineEnd, Separators
<1>3. ASSUME NEW i \in 1 .. Len(row)
      PROVE  pieces[i] \in Seq(U)
  <2>1. (IF i < Len(row) THEN <<Tab>> ELSE LineEnd) \in Seq(U)
    BY <1>2
  <2> QED
    BY <1>1, <2>1, ConcatProperties
<1>4. pieces \in Seq(Seq(U))
  <2>1. pieces \in [1 .. Len(row) -> Seq(U)]
    BY <1>1, <1>3
  <2> QED
    BY <1>1, <2>1, SeqDef
<1> QED
  BY <1>4, FlattenIsSeq DEF TextOfRow

LEMMA TextOfTyped ==
  ASSUME NEW U, Separators \subseteq U, NEW rows \in Seq(Seq(Seq(U)))
  PROVE  TextOf(rows) \in Seq(U)
<1> DEFINE pieces == [i \in DOMAIN rows |-> TextOfRow(rows[i])]
<1>1. DOMAIN rows = 1 .. Len(rows) /\ Len(rows) \in Nat /\ \A i \in 1 .. Len(rows) : rows[i] \in Seq(Seq(U))
  BY LenProperties, ElementOfSeq
<1>2. pieces \in [1 .. Len(rows) -> Seq(U)]
  BY <1>1, TextOfRowTyped
<1>3. pieces \in Seq(Seq(U))
  BY <1>1, <1>2, SeqDef
<1> QED
  BY <1>3, FlattenIsSeq DEF TextOf

CharsOf(table) ==
  Separators \cup UNION {UNION {Range(row[i]) : i \in DOMAIN row} : row \in table.rows}

LEMMA ListingTyped ==
  ASSUME NEW table, IsTable(table), NEW rows \in SetToSeqs(table.rows)
  PROVE  /\ rows \in Seq(Seq(Seq(CharsOf(table))))
         /\ Len(rows) = Cardinality(table.rows) /\ Cardinality(table.rows) \in Nat
         /\ \A i \in 1 .. Len(rows) : rows[i] \in table.rows
         /\ TextOf(rows) \in Seq(CharsOf(table))
<1> DEFINE U == CharsOf(table)
           n == Cardinality(table.rows)
<1>0. Sound(table) /\ \A one \in table.rows : Cells(table.cols, one)
  BY TableIs
<1>1. n \in Nat
  BY <1>0, FS_CardinalityType DEF Sound
<1>2. rows \in [1 .. n -> table.rows]
  BY DEF SetToSeqs
<1>3. ASSUME NEW row \in table.rows
      PROVE  row \in Seq(Seq(U))
  <2>1. Shaped(table.cols, row) /\ table.cols \in Seq(Range(table.cols)) /\ Cells(table.cols, row)
    BY <1>0 DEF Sound, Header
  <2>2. row \in Seq(Range(row)) /\ DOMAIN row = 1 .. Len(row) /\ Len(row) \in Nat
    BY <2>1, ShapedIsRow, LenProperties
  <2>3. ASSUME NEW i \in DOMAIN row
        PROVE  row[i] \in Seq(U)
    <3>1. IsText(row[i]) /\ Range(row[i]) \subseteq U
      BY <2>1 DEF Cells, CharsOf
    <3> QED
      BY <3>1, TextOver
  <2>4. row \in [1 .. Len(row) -> Seq(U)]
    BY <2>2, <2>3, LenProperties
  <2> HIDE DEF U
  <2> QED
    BY <2>2, <2>4, SeqDef
<1>4. rows \in [1 .. n -> Seq(Seq(U))]
  BY <1>2, <1>3
<1>5. rows \in Seq(Seq(Seq(U))) /\ Len(rows) = n
  <2> HIDE DEF U, n
  <2>1. rows \in Seq(Seq(Seq(U)))
    BY <1>1, <1>4, SeqDef
  <2> QED
    BY <1>1, <1>4, <2>1, LenProperties
<1>6. Separators \subseteq U
  BY DEF CharsOf
<1>7. TextOf(rows) \in Seq(U)
  <2> HIDE DEF U
  <2> QED
    BY <1>5, <1>6, TextOfTyped
<1> QED
  BY <1>1, <1>2, <1>5, <1>7

-----------------------------------------------------------------------------
(* Rows read into a table, line by line.                                   *)
InsertRounds(cols, table, lines, n, done) ==
  /\ done[0] = [table |-> Emptied(table), failed |-> FALSE]
  /\ \A i \in 1 .. n : done[i] = WithFields(cols, done[i - 1], lines[i])
Made(cols, own, fields) == Fitted(own, Constructed(cols, fields))
Filling(cols, own, lines) ==
  [table : [cols : {own}, rows : SUBSET {Made(cols, own, lines[i]) : i \in 1 .. Len(lines)}],
   failed : BOOLEAN]

LEMMA EmptiedIs ==
  ASSUME NEW table, IsTable(table)
  PROVE  Emptied(table) = [cols |-> table.cols, rows |-> {}] /\ IsTable(Emptied(table))
<1>1. Emptied(table) = [cols |-> table.cols, rows |-> {}]
  BY DEF IsTable, Emptied
<1> QED
  BY <1>1, FS_EmptySet DEF IsTable

LEMMA WithRowOf ==
  ASSUME NEW cols, NEW R, NEW row
  PROVE  WithRow([cols |-> cols, rows |-> R], row) = [cols |-> cols, rows |-> R \cup {row}]
BY DEF WithRow

LEMMA FillingStays ==
  ASSUME NEW cols, NEW own, NEW lines, NEW q \in Filling(cols, own, lines), NEW i \in 1 .. Len(lines)
  PROVE  /\ WithFields(cols, q, lines[i]) \in Filling(cols, own, lines)
         /\ q.failed => WithFields(cols, q, lines[i]) = q
<1>0. q = [table |-> q.table, failed |-> q.failed] /\ q.failed \in BOOLEAN
      /\ q.table = [cols |-> own, rows |-> q.table.rows]
      /\ q.table.rows \in SUBSET {Made(cols, own, lines[j]) : j \in 1 .. Len(lines)}
  BY DEF Filling
<1>1. CASE WithFields(cols, q, lines[i]) = [q EXCEPT !.failed = TRUE]
  <2>1. WithFields(cols, q, lines[i]) = [table |-> q.table, failed |-> TRUE]
    BY <1>0, <1>1
  <2> QED
    BY <1>0, <2>1 DEF Filling
<1>2. CASE ~q.failed /\ WithFields(cols, q, lines[i]) = [q EXCEPT !.table = WithRow(@, Made(cols, own, lines[i]))]
  <2>1. WithRow(q.table, Made(cols, own, lines[i])) =
          [cols |-> own, rows |-> q.table.rows \cup {Made(cols, own, lines[i])}]
    <3>1. PICK R : q.table = [cols |-> own, rows |-> R]
      BY <1>0
    <3>2. WithRow([cols |-> own, rows |-> R], Made(cols, own, lines[i])) =
            [cols |-> own, rows |-> R \cup {Made(cols, own, lines[i])}]
      BY WithRowOf
    <3>3. q.table.rows = R
      BY <3>1
    <3> QED
      BY <3>1, <3>2, <3>3
  <2>2. WithFields(cols, q, lines[i]) =
          [table |-> [cols |-> own, rows |-> q.table.rows \cup {Made(cols, own, lines[i])}],
           failed |-> q.failed]
    BY <1>0, <1>2, <2>1
  <2> QED
    BY <1>0, <1>2, <2>2 DEF Filling
<1>3. q.table.cols = own
  BY <1>0
<1> QED
  BY <1>1, <1>2, <1>3 DEF WithFields, Made

LEMMA InsertLoop ==
  ASSUME NEW cols, NEW table, IsTable(table), NEW lines, Len(lines) \in Nat
  PROVE  \E done \in [0 .. Len(lines) -> Filling(cols, table.cols, lines)] :
           InsertRounds(cols, table, lines, Len(lines), done) /\ Inserted(cols, table, lines) = done[Len(lines)]
<1> DEFINE n == Len(lines)
           S == Filling(cols, table.cols, lines)
           base == [table |-> Emptied(table), failed |-> FALSE]
           IsDone(g) == g = [k \in 0 .. Len(lines) |->
                               IF k = 0 THEN [table |-> Emptied(table), failed |-> FALSE]
                               ELSE WithFields(cols, g[k - 1], lines[k])]
           done == CHOOSE g : IsDone(g)
           turn == [x \in S \X (1 .. n) |-> WithFields(cols, x[1], lines[x[2]])]
<1>0. n \in Nat
  OBVIOUS
<1>1. base \in S
  BY EmptiedIs DEF Filling
<1>2. \A q \in S, i \in 1 .. n : turn[<<q, i>>] = WithFields(cols, q, lines[i])
                                 /\ WithFields(cols, q, lines[i]) \in S
  BY FillingStays
<1>3. PICK h \in [0 .. n -> S] : h[0] = base /\ \A i \in 1 .. n : h[i] = turn[<<h[i - 1], i>>]
  <2>1. LoopsOf(n, S, base, turn) # {}
    <3> HIDE DEF S, base, turn, n
    <3> QED
      BY <1>0, <1>1, <1>2, LoopExists
  <2> HIDE DEF S, base, turn, n
  <2> QED
    BY <2>1 DEF LoopsOf
<1>4. \A i \in 1 .. n : i - 1 \in 0 .. n /\ h[i] = WithFields(cols, h[i - 1], lines[i])
  <2> SUFFICES ASSUME NEW i \in 1 .. n
               PROVE  i - 1 \in 0 .. n /\ h[i] = WithFields(cols, h[i - 1], lines[i])
    OBVIOUS
  <2>1. i - 1 \in 0 .. n
    BY <1>0
  <2> HIDE DEF S, base, turn, n
  <2>2. h[i - 1] \in S
    BY <1>3, <2>1
  <2>3. turn[<<h[i - 1], i>>] = WithFields(cols, h[i - 1], lines[i])
    BY <1>2, <2>2
  <2> QED
    BY <1>3, <2>1, <2>3
<1>5. IsDone(h)
  <2>1. \A k \in 0 .. n : h[k] = IF k = 0 THEN base ELSE WithFields(cols, h[k - 1], lines[k])
    BY <1>0, <1>3, <1>4
  <2> QED
    BY <1>3, <2>1
<1>6. IsDone(done)
  <2> HIDE DEF IsDone
  <2> QED
    BY <1>5, Zenon
<1>7. Inserted(cols, table, lines) = done[n]
  BY Zenon DEF Inserted
<1> HIDE DEF done
<1>8. InsertRounds(cols, table, lines, n, done)
  <2>1. 0 \in 0 .. n /\ \A i \in 1 .. n : i \in 0 .. n /\ i # 0
    BY <1>0
  <2>2. \A k \in 0 .. n : done[k] = IF k = 0 THEN base ELSE WithFields(cols, done[k - 1], lines[k])
    <3> HIDE DEF base
    <3> QED
      BY <1>6, Zenon DEF base
  <2> HIDE DEF IsDone
  <2> QED
    BY <2>1, <2>2 DEF InsertRounds
<1>9. \A i \in 0 .. n : done[i] \in S
  <2>1. \A i \in 1 .. n : done[i - 1] \in S => done[i] \in S
    BY <1>8, FillingStays DEF InsertRounds
  <2>2. done[0] \in S
    BY <1>1, <1>8 DEF InsertRounds
  <2> HIDE DEF S, n
  <2> QED
    BY <1>0, <2>1, <2>2, LoopStays
<1>10. done \in [0 .. n -> S]
  BY <1>6, <1>9
<1> QED
  BY <1>7, <1>8, <1>10

(* The rounds of a part of the lines are the same.                         *)
LEMMA InsertedOfPart ==
  ASSUME NEW U, NEW cols, NEW table, IsTable(table), NEW lines \in Seq(U),
         NEW done, InsertRounds(cols, table, lines, Len(lines), done), NEW m \in 0 .. Len(lines)
  PROVE  Inserted(cols, table, SubSeq(lines, 1, m)) = done[m]
<1> DEFINE part == SubSeq(lines, 1, m)
<1>0. Len(lines) \in Nat /\ m \in Nat
  BY LenProperties
<1>1. Len(part) = m /\ \A i \in 1 .. m : part[i] = lines[i]
  <2>1. \A i \in 1 .. m : lines[i] \in U
    BY <1>0, ElementOfSeq
  <2> QED
    BY <1>0, <2>1, SubSeqProperties
<1> HIDE DEF part
<1>2. PICK d : InsertRounds(cols, table, part, m, d) /\ Inserted(cols, table, part) = d[m]
  BY <1>0, <1>1, InsertLoop
<1> DEFINE Good == {i \in 0 .. m : d[i] = done[i]}
<1>3. 0 \in Good
  BY <1>0, <1>2 DEF InsertRounds
<1>4. ASSUME NEW i \in 1 .. m, i - 1 \in Good
      PROVE  i \in Good
  <2>1. i \in 1 .. Len(lines)
    BY <1>0
  <2>2. d[i] = WithFields(cols, d[i - 1], lines[i]) /\ done[i] = WithFields(cols, done[i - 1], lines[i])
    BY <1>1, <1>2, <2>1 DEF InsertRounds
  <2> QED
    BY <1>4, <2>2
<1>5. m \in Good
  <2>1. m \in 0 .. m
    BY <1>0
  <2> HIDE DEF Good
  <2> QED
    BY <1>0, <1>3, <1>4, <2>1, UpToLast
<1> QED
  BY <1>2, <1>5 DEF part

(* Short, with the first short line found as CHOOSE finds it.              *)
ShortLines(cols, lines) == {i \in 1 .. Len(lines) : Len(lines[i]) < Len(cols)}

LEMMA ShortIs ==
  ASSUME NEW cols, NEW table, NEW lines
  PROVE  LET n == FirstIn(ShortLines(cols, lines)) IN
         Short(cols, table, lines) <=>
           n > 0 /\ Creatable(cols) /\ ~Inserted(cols, table, SubSeq(lines, 1, n - 1)).failed
BY DEF Short, SelectInSeq, Min, FirstIn, ShortLines

LEMMA ConstructedIs ==
  ASSUME NEW U, NEW cols, Header(cols), NEW fields \in Seq(Seq(U)), Len(fields) >= Len(cols)
  PROVE  Shaped(cols, Constructed(cols, fields)) /\ Cells(cols, Constructed(cols, fields))
<1>1. Shaped(cols, Constructed(cols, fields)) /\ DOMAIN Constructed(cols, fields) = DOMAIN cols
  BY DEF Shaped, Constructed
<1>2. DOMAIN cols = 1 .. Len(cols) /\ Len(cols) \in Nat /\ Len(fields) \in Nat
  BY LenProperties DEF Header
<1>3. ASSUME NEW i \in DOMAIN cols
      PROVE  IsText(fields[i]) /\ IsText(Number(fields[i]))
  <2>1. fields[i] \in Seq(U)
    BY <1>2, ElementOfSeq
  <2> QED
    BY <2>1, TextOver, OneIsText DEF Number
<1>4. \A text : Number(text) = Null \/ IsNumber(Number(text))
  BY ImportAssumption DEF Number, IsNumber
<1>5. ASSUME NEW i \in DOMAIN cols
      PROVE  Constructed(cols, fields)[i] = IF cols[i].kind = "int" THEN Number(fields[i]) ELSE fields[i]
  BY DEF Constructed
<1> HIDE DEF Constructed, Number, IsNumber
<1> QED
  BY <1>1, <1>3, <1>4, <1>5 DEF Cells

LEMMA InsertedTyped ==
  ASSUME NEW U, NEW cols, Header(cols), NEW table, IsTable(table),
         NEW lines \in Seq(Seq(Seq(U))), ~Short(cols, table, lines)
  PROVE  /\ IsTable(Inserted(cols, table, lines).table)
         /\ Inserted(cols, table, lines).table.cols = table.cols
         /\ Inserted(cols, table, lines).failed \in BOOLEAN
<1> DEFINE N == Len(lines)
           I == ShortLines(cols, lines)
           first == FirstIn(I)
<1>0. N \in Nat /\ \A i \in 1 .. N : lines[i] \in Seq(Seq(U))
  BY LenProperties, ElementOfSeq
<1>1. PICK done \in [0 .. N -> Filling(cols, table.cols, lines)] :
        InsertRounds(cols, table, lines, N, done) /\ Inserted(cols, table, lines) = done[N]
  BY <1>0, InsertLoop
<1>2. IF I = {} THEN first = 0 ELSE first \in I /\ \A y \in I : first <= y
  <2>1. I \in SUBSET Nat
    BY <1>0 DEF ShortLines
  <2> HIDE DEF I
  <2> QED
    BY <2>1, FirstIsLeast
<1> HIDE DEF first
<1>3. ~Creatable(cols) \/ I = {} \/ (first \in 1 .. N /\ done[first - 1].failed)
  <2> SUFFICES ASSUME Creatable(cols), I # {}
               PROVE  first \in 1 .. N /\ done[first - 1].failed
    OBVIOUS
  <2>1. first \in 1 .. N
    BY <1>2 DEF ShortLines
  <2>2. first - 1 \in 0 .. N
    BY <1>0, <2>1
  <2>3. Inserted(cols, table, SubSeq(lines, 1, first - 1)) = done[first - 1]
    BY <1>1, <2>2, InsertedOfPart
  <2>4. Inserted(cols, table, SubSeq(lines, 1, first - 1)).failed
    BY <1>0, <2>1, ShortIs DEF first
  <2> QED
    BY <2>1, <2>3, <2>4
<1> DEFINE Good == {i \in 0 .. N : /\ IsTable(done[i].table)
                                   /\ I # {} /\ i >= first => done[i].failed \/ ~Creatable(cols)}
<1>4. 0 \in Good
  <2>1. done[0] = [table |-> Emptied(table), failed |-> FALSE]
    BY <1>1 DEF InsertRounds
  <2>2. I # {} => first > 0
    BY <1>0, <1>2 DEF ShortLines
  <2>3. first \in Nat
    BY <1>0, <1>2 DEF ShortLines
  <2> QED
    BY <1>0, <2>1, <2>2, <2>3, EmptiedIs
<1>5. ASSUME NEW i \in 1 .. N, i - 1 \in Good
      PROVE  i \in Good
  <2>0. i - 1 \in 0 .. N /\ i \in 0 .. N /\ first \in Nat
    BY <1>0, <1>2 DEF ShortLines
  <2>1. done[i] = WithFields(cols, done[i - 1], lines[i])
    BY <1>1 DEF InsertRounds
  <2>2. done[i - 1] \in Filling(cols, table.cols, lines)
    BY <1>1, <2>0
  <2>3. done[i - 1].failed \in BOOLEAN /\ done[i - 1].table.cols = table.cols
        /\ done[i - 1] = [table |-> done[i - 1].table, failed |-> done[i - 1].failed]
    BY <2>2 DEF Filling
  <2>4. CASE done[i - 1].failed
    <3>1. done[i] = done[i - 1]
      BY <2>1, <2>2, <2>4, FillingStays
    <3> QED
      BY <1>5, <2>0, <2>4, <3>1
  <2>5. CASE ~done[i - 1].failed /\ I # {} /\ i >= first /\ Creatable(cols)
    <3>1. i = first
      BY <1>5, <2>0, <2>5
    <3> QED
      BY <1>3, <2>5, <3>1
  <2>6. CASE ~done[i - 1].failed /\ ~(I # {} /\ i >= first /\ Creatable(cols))
    <3>1. CASE ~Creatable(cols) \/ Refused(done[i - 1].table, Made(cols, table.cols, lines[i]))
      <4>1. done[i] = [table |-> done[i - 1].table, failed |-> TRUE]
        <5>1. done[i] = [done[i - 1] EXCEPT !.failed = TRUE]
          BY <2>1, <2>3, <3>1 DEF WithFields, Made
        <5> QED
          BY <2>3, <5>1
      <4> QED
        BY <1>5, <2>0, <4>1
    <3>2. CASE Creatable(cols) /\ ~Refused(done[i - 1].table, Made(cols, table.cols, lines[i]))
      <4> DEFINE row == Made(cols, table.cols, lines[i])
      <4>1. done[i] = [table |-> WithRow(done[i - 1].table, row), failed |-> done[i - 1].failed]
        <5>1. done[i] = [done[i - 1] EXCEPT !.table = WithRow(@, row)]
          BY <2>1, <2>3, <2>6, <3>2 DEF WithFields, Made
        <5> QED
          BY <2>3, <5>1
      <4>2. i \notin I
        BY <1>2, <2>0, <2>6, <3>2
      <4>3. Len(lines[i]) >= Len(cols)
        <5>1. Len(lines[i]) \in Nat /\ Len(cols) \in Nat
          BY <1>0, LenProperties DEF Header
        <5> QED
          BY <4>2, <5>1 DEF ShortLines
      <4>4. Shaped(table.cols, row) /\ Cells(table.cols, row)
        <5>1. FromTexts(Constructed(cols, lines[i]))
          BY <1>0, <4>3, ConstructedIs DEF Cells, FromTexts
        <5> QED
          BY <5>1, FittedIs DEF Made
      <4> HIDE DEF row
      <4>5. IsTable(WithRow(done[i - 1].table, row))
        BY <1>5, <2>3, <3>2, <4>4, WithRowIs DEF row
      <4>6. IsTable(done[i].table)
        BY <4>1, <4>5
      <4> QED
        BY <2>0, <2>6, <3>2, <4>6
    <3> QED
      BY <3>1, <3>2
  <2> QED
    BY <2>4, <2>5, <2>6
<1>6. N \in Good
  <2>1. N \in 0 .. N
    BY <1>0
  <2> HIDE DEF Good, N
  <2> QED
    BY <1>0, <1>4, <1>5, <2>1, UpToLast
<1>7. done[N] \in Filling(cols, table.cols, lines)
  <2>1. N \in 0 .. N
    BY <1>0
  <2> QED
    BY <1>1, <2>1
<1> QED
  BY <1>1, <1>6, <1>7 DEF Filling

-----------------------------------------------------------------------------
(* What was gathered and is not merged yet.                                *)
ToMerge(next) ==
  /\ Header(next.cols) /\ IsFiniteSet(next.rows) /\ \A row \in next.rows : FromTexts(row)
  /\ next.conflicts \in Nat /\ ToString(next.conflicts) \in Numeral
AllToMerge(list) == list \in Seq(Range(list)) /\ \A i \in DOMAIN list : ToMerge(list[i])

(* A file that was exported.                                               *)
Exported(file) ==
  /\ IsTable([cols |-> file.cols, rows |-> file.rows])
  /\ \E rows \in SetToSeqs(file.rows) : file.text = TextOf(rows)

TablesInv == \A name \in DOMAIN db : IsTable(db[name])
CallInv ==
  /\ result \in {"ok", "failed"} /\ status \in {"ok", "undefined"} /\ phase \in {"idle", "merging"}
  /\ r \in {"ok", "failed"}
  /\ phase = "idle" => todo = <<>> /\ call = NoCall
BulkInv == TablesInv /\ AllToMerge(todo) /\ (archive # NoArchive => Exported(archive)) /\ CallInv

LEMMA RowOfTable ==
  ASSUME NEW table, IsTable(table), NEW row \in table.rows
  PROVE  FromTexts(row) /\ Shaped(table.cols, row) /\ Cells(table.cols, row)
<1>1. Sound(table) /\ Cells(table.cols, row)
  BY TableIs
<1> QED
  BY <1>1 DEF Sound, Cells, FromTexts

LEMMA GatheredIs ==
  ASSUME NEW source \in Sources, NEW name \in DOMAIN source
  PROVE  ToMerge(Gathered(source, name))
<1> DEFINE theirs == source[name]
           next == Gathered(source, name)
<1>1. IsTable(theirs) /\ \A n \in 0 .. Cardinality(theirs.rows) : ToString(n) \in Numeral
  BY MergeAssumption
<1>2. next.rows \subseteq theirs.rows
  BY DEF Gathered, Missing
<1>3. next.cols = theirs.cols
  BY DEF Gathered
<1>4. IsFiniteSet(theirs.rows)
  BY <1>1 DEF IsTable
<1>5. next.conflicts \in 0 .. Cardinality(theirs.rows)
  <2>1. Cardinality(theirs.rows) \in Nat
    BY <1>4, FS_CardinalityType
  <2>2. CASE name \in DOMAIN db
    <3> DEFINE rows == Conflicting(db[name], theirs)
    <3>1. rows \subseteq theirs.rows
      BY DEF Conflicting
    <3> HIDE DEF rows
    <3>2. Cardinality(rows) \in Nat /\ Cardinality(rows) <= Cardinality(theirs.rows)
      BY <1>4, <3>1, FS_Subset, FS_CardinalityType
    <3>3. next.conflicts = Cardinality(rows)
      BY <2>2 DEF Gathered, rows
    <3> HIDE DEF next
    <3> QED
      BY <2>1, <3>2, <3>3
  <2>3. CASE name \notin DOMAIN db
    <3>1. next.conflicts = 0
      BY <2>3 DEF Gathered
    <3> HIDE DEF next
    <3> QED
      BY <2>1, <3>1
  <2> QED
    BY <2>2, <2>3
<1> HIDE DEF next
<1>6. Header(next.cols)
  BY <1>1, <1>3 DEF IsTable, Header
<1>7. IsFiniteSet(next.rows)
  BY <1>2, <1>4, FS_Subset
<1>8. \A row \in next.rows : FromTexts(row)
  BY <1>1, <1>2, RowOfTable
<1>9. next.conflicts \in Nat
  BY <1>4, <1>5, FS_CardinalityType
<1> QED
  BY <1>1, <1>5, <1>6, <1>7, <1>8, <1>9 DEF ToMerge, next

LEMMA FunctionIsSeq ==
  ASSUME NEW n \in Nat, NEW f, f = [i \in 1 .. n |-> f[i]]
  PROVE  f \in Seq(Range(f)) /\ Len(f) = n /\ DOMAIN f = 1 .. n
<1>1. DOMAIN f = 1 .. n
  OBVIOUS
<1>2. \A i \in 1 .. n : f[i] \in Range(f)
  BY <1>1 DEF Range
<1>3. f \in [1 .. n -> Range(f)]
  BY <1>2
<1>4. f \in Seq(Range(f))
  BY <1>3, SeqDef
<1> QED
  BY <1>1, <1>4, LenProperties

LEMMA NamesIs ==
  ASSUME NEW S, IsFiniteSet(S), NEW names \in SetToSeqs(S)
  PROVE  /\ Cardinality(S) \in Nat /\ DOMAIN names = 1 .. Cardinality(S)
         /\ \A i \in DOMAIN names : names[i] \in S
         /\ \A i \in DOMAIN names, j \in DOMAIN names : i # j => names[i] # names[j]
BY FS_CardinalityType DEF SetToSeqs

LEMMA BeginMergeKeeps ==
  ASSUME BulkInv, NEW source \in Sources, NEW error, BeginMerge(source, error), UNCHANGED archive
  PROVE  BulkInv'
<1>1. PICK names \in SetToSeqs(DOMAIN source) : todo' = [i \in DOMAIN names |-> Gathered(source, names[i])]
  BY DEF BeginMerge
<1>2. PICK n \in Nat : DOMAIN names = 1 .. n /\ \A i \in 1 .. n : names[i] \in DOMAIN source
  BY NamesIs, MergeAssumption
<1>3. PICK list : list = todo'
  OBVIOUS
<1>4. list = [i \in 1 .. n |-> Gathered(source, names[i])]
  BY <1>1, <1>2, <1>3
<1>5. list = [i \in 1 .. n |-> list[i]] /\ \A i \in 1 .. n : list[i] = Gathered(source, names[i])
  BY <1>4
<1>6. list \in Seq(Range(list)) /\ DOMAIN list = 1 .. n
  BY <1>5, FunctionIsSeq
<1>7. AllToMerge(list)
  BY <1>2, <1>5, <1>6, GatheredIs DEF AllToMerge
<1>8. AllToMerge(todo')
  BY <1>3, <1>7
<1> QED
  BY <1>8 DEF BulkInv, BeginMerge, TablesInv, CallInv

LEMMA HeadOfTodo ==
  ASSUME NEW list, AllToMerge(list), list # <<>>
  PROVE  ToMerge(Head(list)) /\ AllToMerge(Tail(list)) /\ AllToMerge(<<>>)
<1>1. list \in Seq(Range(list)) /\ DOMAIN list = 1 .. Len(list) /\ Len(list) \in Nat
  BY LenProperties DEF AllToMerge
<1>2. Len(list) > 0 /\ Head(list) = list[1]
  BY <1>1, EmptySeq
<1>3. PICK tail : tail = Tail(list)
  OBVIOUS
<1>4. tail \in Seq(Range(list)) /\ Len(tail) = Len(list) - 1 /\ \A i \in 1 .. Len(tail) : tail[i] = list[i + 1]
  BY <1>1, <1>2, <1>3, HeadTailProperties
<1>5. tail \in Seq(Range(tail)) /\ DOMAIN tail = 1 .. Len(tail)
  BY <1>4, SeqOfRange, LenProperties
<1>6. ToMerge(Head(list))
  BY <1>1, <1>2 DEF AllToMerge
<1>7. AllToMerge(tail)
  BY <1>1, <1>4, <1>5 DEF AllToMerge
<1>8. AllToMerge(<<>>)
  BY DEF AllToMerge
<1> QED
  BY <1>3, <1>6, <1>7, <1>8

LEMMA MergeTableKeeps ==
  ASSUME BulkInv, MergeTable, UNCHANGED archive
  PROVE  BulkInv'
<1> DEFINE next == Head(todo)
           table == IF next.name \in DOMAIN db THEN db[next.name] ELSE EmptyTable(next.cols)
<1>1. todo # <<>> /\ phase = "merging" /\ AllToMerge(todo)
  BY DEF MergeTable, Merging, BulkInv
<1>2. ToMerge(next) /\ AllToMerge(Tail(todo)) /\ AllToMerge(<<>>)
  BY <1>1, HeadOfTodo
<1>3. IsTable(table)
  BY <1>2, EmptyIs DEF BulkInv, TablesInv, ToMerge
<1>4. PICK rows \in SUBSET next.rows : Accepted(table, rows) /\ db' = WithTable(next.name, WithRows(table, rows))
  BY Zenon DEF MergeTable
<1> HIDE DEF table
<1>5. IsFiniteSet(rows) /\ \A row \in rows : FromTexts(row)
  BY <1>2, FS_Subset DEF ToMerge
<1>6. IsTable(WithRows(table, rows))
  BY <1>3, <1>4, <1>5, WithRowsTable
<1>7. TablesInv'
  BY <1>4, <1>6, WithTableTyped DEF BulkInv, TablesInv
<1>8. AllToMerge(todo')
  <2>1. todo' = Tail(todo) \/ todo' = <<>>
    BY DEF MergeTable, Continue, Break
  <2> QED
    BY <1>2, <2>1
<1>9. CallInv'
  BY <1>1 DEF BulkInv, CallInv, MergeTable, Continue, Break
<1>10. (archive # NoArchive => Exported(archive))'
  BY DEF BulkInv
<1> QED
  BY <1>7, <1>8, <1>9, <1>10 DEF BulkInv

LEMMA ErrorRowIs ==
  /\ Header(ErrorColumns)
  /\ \A name, count : ToString(count) \in Numeral =>
       Shaped(ErrorColumns, ErrorRow(name, count)) /\ Cells(ErrorColumns, ErrorRow(name, count))
<1>1. Header(ErrorColumns) /\ DOMAIN ErrorColumns = 1 .. 2
  <2>1. ErrorColumns = [i \in 1 .. 2 |-> ErrorColumns[i]]
    BY DEF ErrorColumns
  <2>2. ErrorColumns \in Seq(Range(ErrorColumns)) /\ DOMAIN ErrorColumns = 1 .. 2
    BY <2>1, FunctionIsSeq
  <2> QED
    BY <2>2 DEF Header
<1>2. ASSUME NEW name, NEW count, ToString(count) \in Numeral
      PROVE  Shaped(ErrorColumns, ErrorRow(name, count)) /\ Cells(ErrorColumns, ErrorRow(name, count))
  <2> DEFINE row == ErrorRow(name, count)
  <2>1. row = << <<name>>, <<ToString(count)>> >>
    BY DEF ErrorRow
  <2>2. IsText(<<name>>) /\ IsText(<<ToString(count)>>)
    BY OneIsText
  <2>3. IsNumber(<<ToString(count)>>)
    BY <1>2 DEF IsNumber
  <2>4. ErrorColumns[1].kind = "text" /\ ErrorColumns[2].kind = "int"
    BY DEF ErrorColumns, Column
  <2>5. DOMAIN row = 1 .. 2 /\ row[1] = <<name>> /\ row[2] = <<ToString(count)>>
    BY <2>1
  <2>6. Shaped(ErrorColumns, row)
    BY <1>1, <2>1 DEF Shaped
  <2> HIDE DEF row
  <2>7. Cells(ErrorColumns, row)
    BY <2>2, <2>3, <2>4, <2>5 DEF Cells
  <2> QED
    BY <2>6, <2>7 DEF row
<1> QED
  BY <1>1, <1>2

(* What the statement puts into a table of errors, with its own columns or *)
(* with others.                                                            *)
LEMMA ArrangedIs ==
  ASSUME NEW cols, NEW name, NEW count
  PROVE  Shaped(cols, Fitted(cols, Arranged(cols, ErrorRow(name, count))))
         /\ Cells(cols, Fitted(cols, Arranged(cols, ErrorRow(name, count))))
<1> DEFINE row == Arranged(cols, ErrorRow(name, count))
<1>1. IsText(<<name>>) /\ IsText(<<ToString(count)>>) /\ IsText(Null)
  BY OneIsText DEF Null
<1>2. ErrorRow(name, count)[1] = <<name>> /\ ErrorRow(name, count)[2] = <<ToString(count)>>
  BY DEF ErrorRow
<1>3. FromTexts(row)
  BY <1>1, <1>2 DEF Arranged, FromTexts
<1> HIDE DEF row
<1>4. Shaped(cols, Fitted(cols, row)) /\ Cells(cols, Fitted(cols, row))
  BY <1>3, FittedIs
<1> QED
  BY <1>4 DEF row

LEMMA ArrangedOwn ==
  ASSUME NEW name, NEW count, ToString(count) \in Numeral
  PROVE  Fitted(ErrorColumns, Arranged(ErrorColumns, ErrorRow(name, count))) = ErrorRow(name, count)
<1> DEFINE given == ErrorRow(name, count)
           row == Arranged(ErrorColumns, given)
<1>1. /\ ErrorColumns[1].name = "Table" /\ ErrorColumns[2].name = "NumRowMergeConflicts"
      /\ ErrorColumns[1].kind = "text" /\ ErrorColumns[2].kind = "int"
      /\ DOMAIN ErrorColumns = 1 .. 2
  BY DEF ErrorColumns, Column
<1>2. given[2] = <<ToString(count)>> /\ Shaped(ErrorColumns, given)
  BY ErrorRowIs DEF ErrorRow
<1>3. IsNumber(given[2])
  BY <1>2 DEF IsNumber
<1>4. given = [i \in 1 .. 2 |-> given[i]]
  BY <1>1, <1>2 DEF Shaped
<1> HIDE DEF given
<1>5. DOMAIN row = 1 .. 2 /\ row[1] = given[1] /\ row[2] = given[2]
  BY <1>1 DEF Arranged
<1> HIDE DEF row
<1>6. Fitted(ErrorColumns, row) = [i \in 1 .. 2 |-> given[i]]
  BY <1>1, <1>3, <1>5 DEF Fitted
<1> QED
  BY <1>4, <1>6 DEF given, row

LEMMA RecordConflictsKeeps ==
  ASSUME BulkInv, RecordConflicts, UNCHANGED archive
  PROVE  BulkInv'
<1> DEFINE next == Head(todo)
           table == IF call.error \in DOMAIN db THEN db[call.error] ELSE EmptyTable(ErrorColumns)
           row == Fitted(table.cols, Arranged(table.cols, ErrorRow(next.name, next.conflicts)))
<1>1. todo # <<>> /\ phase = "merging" /\ AllToMerge(todo)
  BY DEF RecordConflicts, Merging, BulkInv
<1>2. ToMerge(next) /\ AllToMerge(Tail(todo)) /\ AllToMerge(<<>>)
  BY <1>1, HeadOfTodo
<1>3. IsTable(table)
  BY EmptyIs, ErrorRowIs DEF BulkInv, TablesInv
<1>4. Shaped(table.cols, row) /\ Cells(table.cols, row)
  BY ArrangedIs
<1>5. \/ Break /\ UNCHANGED db
      \/ ~Refused(table, row) /\ Continue
         /\ db' = WithTable(call.error, WithRow(table, row))
  BY DEF RecordConflicts
<1> HIDE DEF table, row
<1>6. TablesInv'
  <2>1. CASE UNCHANGED db
    BY <2>1 DEF BulkInv, TablesInv
  <2>2. CASE ~Refused(table, row) /\ db' = WithTable(call.error, WithRow(table, row))
    <3>1. IsTable(WithRow(table, row))
      BY <1>3, <1>4, <2>2, WithRowIs
    <3> QED
      BY <2>2, <3>1, WithTableTyped DEF BulkInv, TablesInv
  <2> QED
    BY <1>5, <2>1, <2>2
<1>7. AllToMerge(todo')
  BY <1>2, <1>5 DEF Continue, Break
<1>8. CallInv'
  BY <1>1 DEF BulkInv, CallInv, RecordConflicts, Continue, Break
<1>9. (archive # NoArchive => Exported(archive))'
  BY DEF BulkInv
<1> QED
  BY <1>6, <1>7, <1>8, <1>9 DEF BulkInv

LEMMA OtherMergeKeeps ==
  ASSUME BulkInv, UNCHANGED archive,
         \/ \E source \in Sources : MergeMismatch(source)
         \/ MergeTableRefused \/ RecordNowhere \/ EndMerge
  PROVE  BulkInv'
<1>1. TablesInv' /\ (archive # NoArchive => Exported(archive))'
  BY DEF BulkInv, TablesInv, MergeMismatch, MergeTableRefused, RecordNowhere, EndMerge
<1>2. AllToMerge(todo')
  <2>1. todo' = todo \/ todo' = <<>>
    BY DEF MergeMismatch, MergeTableRefused, RecordNowhere, EndMerge, Break
  <2>2. AllToMerge(<<>>)
    BY DEF AllToMerge
  <2> QED
    BY <2>1, <2>2 DEF BulkInv
<1>3. CallInv'
  BY DEF BulkInv, CallInv, MergeMismatch, MergeTableRefused, RecordNowhere, EndMerge, Break, Merging
<1> QED
  BY <1>1, <1>2, <1>3 DEF BulkInv

LEMMA ExportKeeps ==
  ASSUME BulkInv, NEW name \in DOMAIN db, Export(name), UNCHANGED mergeOnly
  PROVE  BulkInv'
<1>1. PICK rows \in SetToSeqs(db[name].rows) :
        archive' = [name |-> name, cols |-> db[name].cols, text |-> TextOf(rows), rows |-> db[name].rows]
  BY DEF Export
<1>2. [cols |-> db[name].cols, rows |-> db[name].rows] = db[name] /\ IsTable(db[name])
  BY DEF BulkInv, TablesInv, IsTable
<1>3. Exported(archive')
  BY <1>1, <1>2 DEF Exported
<1> QED
  BY <1>3 DEF BulkInv, TablesInv, CallInv, Export, mergeOnly

LEMMA TargetIs ==
  ASSUME BulkInv, CanImport
  PROVE  /\ IsTable(Target) /\ Header(archive.cols)
         /\ IsTable([cols |-> archive.cols, rows |-> archive.rows])
         /\ RowsRead(archive.text) \in Seq(Seq(Seq(CharsOf([cols |-> archive.cols, rows |-> archive.rows]))))
<1> DEFINE written == [cols |-> archive.cols, rows |-> archive.rows]
<1>1. Exported(archive)
  BY DEF BulkInv, CanImport
<1>2. IsTable(written)
  BY <1>1 DEF Exported
<1>3. PICK rows \in SetToSeqs(written.rows) : archive.text = TextOf(rows)
  BY <1>1 DEF Exported
<1>4. archive.text \in Seq(CharsOf(written))
  BY <1>2, <1>3, ListingTyped
<1>5. Ends \subseteq CharsOf(written)
  BY DEF Ends, CharsOf, Separators
<1>6. RowsRead(archive.text) \in Seq(Seq(Seq(CharsOf(written))))
  BY <1>4, <1>5, RowsReadTyped
<1>7. Header(archive.cols)
  BY <1>2 DEF IsTable, Header
<1>8. IsTable(Target)
  BY <1>7, EmptyIs DEF BulkInv, TablesInv, CanImport, Target
<1> QED
  BY <1>2, <1>6, <1>7, <1>8

LEMMA ImportKeeps ==
  ASSUME BulkInv, Import, UNCHANGED mergeOnly
  PROVE  BulkInv'
<1> DEFINE done == Inserted(archive.cols, Target, RowsRead(archive.text))
<1>1. IsTable(done.table)
  BY TargetIs, InsertedTyped DEF Import
<1>2. db' = WithTable(archive.name, done.table) /\ result' \in {"ok", "failed"}
  BY DEF Import
<1> HIDE DEF done
<1>3. TablesInv'
  BY <1>1, <1>2, WithTableTyped DEF BulkInv, TablesInv
<1>4. CallInv'
  BY <1>2 DEF BulkInv, CallInv, Import, mergeOnly
<1>5. archive' = NoArchive /\ todo' = todo
  BY DEF Import, mergeOnly
<1> QED
  BY <1>3, <1>4, <1>5 DEF BulkInv

LEMMA OtherImportKeeps ==
  ASSUME BulkInv, ImportRefused \/ ImportShort \/ OpenOther, UNCHANGED mergeOnly
  PROVE  BulkInv'
BY DEF BulkInv, TablesInv, CallInv, ImportRefused, ImportShort, OpenOther, mergeOnly

LEMMA BulkInvTypeOK ==
  ASSUME BulkInv
  PROVE  BulkTypeOK
<1>1. ASSUME NEW name \in DOMAIN db, NEW row \in db[name].rows
      PROVE  /\ Len(row) = Len(db[name].cols) /\ ~NullRefused(db[name].cols, row)
             /\ \A other \in db[name].rows \ {row} : ~SameKey(db[name].cols, row, other)
  BY DEF BulkInv, TablesInv, IsTable, IsRow
<1> QED
  BY <1>1 DEF BulkTypeOK, BulkInv, CallInv

LEMMA BulkStep ==
  ASSUME BulkInv, [BulkNext]_bulkVars
  PROVE  BulkInv'
<1>1. CASE UNCHANGED bulkVars
  BY <1>1 DEF BulkInv, TablesInv, CallInv, bulkVars, mergeVars
<1>2. CASE Call
  BY <1>2, BeginMergeKeeps, OtherMergeKeeps DEF Call
<1>3. CASE MergeStep
  BY <1>3, MergeTableKeeps, RecordConflictsKeeps, OtherMergeKeeps DEF MergeStep
<1>4. CASE ExportStep
  BY <1>4, ExportKeeps DEF ExportStep
<1>5. CASE ImportStep
  BY <1>5, ImportKeeps, OtherImportKeeps DEF ImportStep
<1> QED
  BY <1>1, <1>2, <1>3, <1>4, <1>5 DEF BulkNext

LEMMA BulkInvHolds == BulkSpec => []BulkInv
<1>1. ASSUME BulkInit
      PROVE  BulkInv
  <2>1. TablesInv
    BY <1>1, MergeAssumption DEF BulkInit, TablesInv
  <2>2. AllToMerge(<<>>)
    BY DEF AllToMerge
  <2> QED
    BY <1>1, <2>1, <2>2 DEF BulkInit, BulkInv, CallInv
<1> QED
  BY <1>1, BulkStep, PTL DEF BulkSpec

(* The rows of every table are rows with different keys after every call:  *)
(* table_validate_new stands between them and a merge or an import.        *)
THEOREM BulkTypes == BulkSpec => []BulkTypeOK
<1>1. BulkInv => BulkTypeOK
  BY BulkInvTypeOK
<1> QED
  BY <1>1, BulkInvHolds, PTL

-----------------------------------------------------------------------------
(* A merge, call c, under way: over the tables d, with the list of what is *)
(* not merged yet.                                                         *)
ConflictsOf(c, name) ==
  IF name \notin DOMAIN c.before \cap DOMAIN c.source THEN {}
  ELSE {row \in c.source[name].rows :
          /\ Askable(c.source[name].cols, row)
          /\ \E other \in c.before[name].rows :
               /\ SameKey(c.before[name].cols, row, other)
               /\ \/ row # other
                  \/ \E i \in DOMAIN row : c.source[name].cols[i].kind = "object" /\ row[i] # Null}
AskableOf(c, name) == {row \in c.source[name].rows : Askable(c.source[name].cols, row)}
UnitedOf(c, name) ==
  IF name \notin DOMAIN c.before THEN c.source[name].rows
  ELSE IF name \notin DOMAIN c.source THEN c.before[name].rows
  ELSE c.before[name].rows \cup {Fitted(c.before[name].cols, row) : row \in AskableOf(c, name)}
RowsBeforeOf(c, name) == IF name \in DOMAIN c.before THEN c.before[name].rows ELSE {}
NamedIn(c) == DOMAIN c.before \cup DOMAIN c.source
ToMergeOf(c, name) ==
  [name |-> name, cols |-> c.source[name].cols,
   conflicts |-> IF name \in DOMAIN c.before
                 THEN Cardinality(Conflicting(c.before[name], c.source[name])) ELSE 0,
   rows |-> IF name \in DOMAIN c.before THEN Missing(c.before[name], c.source[name]) ELSE c.source[name].rows]

Given(c) == c.source \in Sources /\ \A n \in DOMAIN c.before : IsTable(c.before[n])
NamesOf(list) == {list[i].name : i \in DOMAIN list}
Listed(c, list) ==
  /\ list \in Seq(Range(list))
  /\ \A i \in DOMAIN list : list[i].name \in DOMAIN c.source /\ list[i] = ToMergeOf(c, list[i].name)
  /\ \A i \in DOMAIN list, j \in DOMAIN list : i # j => list[i].name # list[j].name
(* The table of errors may be one that is merged.                          *)
Clear(c, any, n) == n # c.error \/ ~any
Kept(c, d) ==
  \A n \in DOMAIN c.before :
    n \in DOMAIN d /\ d[n].cols = c.before[n].cols /\ c.before[n].rows \subseteq d[n].rows
Bounded(c, d, any) ==
  /\ DOMAIN d \subseteq NamedIn(c) \cup {n \in {c.error} : any}
  /\ \A n \in DOMAIN d : Clear(c, any, n) =>
       IF ConflictsOf(c, n) # {} THEN d[n].rows = RowsBeforeOf(c, n) ELSE d[n].rows \subseteq UnitedOf(c, n)
Waiting(c, d, list, any) ==
  \A n \in NamedIn(c) : (n \in NamesOf(list) \/ n \notin DOMAIN c.source) /\ Clear(c, any, n) =>
    /\ n \in DOMAIN d <=> n \in DOMAIN c.before
    /\ n \in DOMAIN c.before => d[n] = c.before[n]
Done(c, d, list, any, rr) ==
  rr = "ok" => \A n \in DOMAIN c.source \ NamesOf(list) :
    /\ ~any => ConflictsOf(c, n) = {}
    /\ Clear(c, any, n) => n \in DOMAIN d /\ (ConflictsOf(c, n) # {} \/ d[n].rows = UnitedOf(c, n))
Counted(c, d, list, any, rr) ==
  rr = "ok" /\ any /\ c.error \notin NamedIn(c) =>
    /\ c.error \in DOMAIN d /\ d[c.error].cols = ErrorColumns
    /\ d[c.error].rows = {ErrorRow(n, Cardinality(ConflictsOf(c, n))) :
                            n \in {x \in DOMAIN c.source \ NamesOf(list) : ConflictsOf(c, x) # {}}}
Accounts(c, d, list, any, rr) ==
  /\ Given(c) /\ Listed(c, list) /\ any \in BOOLEAN /\ rr \in {"ok", "failed"}
  /\ rr = "failed" => list = <<>>
  /\ Kept(c, d) /\ Bounded(c, d, any) /\ Waiting(c, d, list, any)
  /\ Done(c, d, list, any, rr) /\ Counted(c, d, list, any, rr)
MergeInv == phase = "merging" => Accounts(call, db, todo, conflicts, r)
Put(d, name, table) == [n \in DOMAIN d \cup {name} |-> IF n = name THEN table ELSE d[n]]

(* What the comparison of two rows amounts to.                             *)
LEMMA EqualRowsIs ==
  ASSUME NEW cols, NEW row, IsText(row), NEW other, IsText(other)
  PROVE  ~EqualRows(cols, row, other) <=>
           \/ row # other
           \/ \E i \in DOMAIN row : cols[i].kind = "object" /\ row[i] # Null
<1>1. ASSUME Len(row) = Len(other), \A i \in DOMAIN row : row[i] = other[i]
      PROVE  row = other
  <2> DEFINE U == Range(row) \cup Range(other)
  <2>1. row \in Seq(U) /\ other \in Seq(U)
    BY TextOver
  <2> HIDE DEF U
  <2>2. \A i \in 1 .. Len(row) : row[i] = other[i]
    BY <1>1, TextIs
  <2> QED
    BY <1>1, <2>1, <2>2, SeqEqual
<1> QED
  BY <1>1 DEF EqualRows

LEMMA FittedSame ==
  ASSUME NEW table, IsTable(table), NEW row \in table.rows
  PROVE  Fitted(table.cols, row) = row
<1>1. row = [i \in DOMAIN table.cols |-> row[i]] /\ Cells(table.cols, row)
  BY RowOfTable DEF Shaped
<1>2. DOMAIN row = DOMAIN table.cols
  BY <1>1
<1>3. \A i \in DOMAIN table.cols :
        row[i] = IF i \notin DOMAIN row \/ (table.cols[i].kind = "int" /\ ~IsNumber(row[i])) THEN Null ELSE row[i]
  BY <1>1, <1>2 DEF Cells
<1> QED
  BY <1>1, <1>3 DEF Fitted

LEMMA RowIsText ==
  ASSUME NEW table, IsTable(table), NEW row \in table.rows
  PROVE  IsText(row)
BY DEF IsTable, IsRow, IsText

LEMMA ConflictingIs ==
  ASSUME NEW c, Given(c), NEW n \in DOMAIN c.before \cap DOMAIN c.source
  PROVE  /\ Conflicting(c.before[n], c.source[n]) = ConflictsOf(c, n)
         /\ IsTable(c.before[n]) /\ IsTable(c.source[n])
<1>1. IsTable(c.before[n]) /\ IsTable(c.source[n])
  BY MergeAssumption DEF Given
<1>2. ASSUME NEW row \in c.source[n].rows, NEW other \in c.before[n].rows
      PROVE  ~EqualRows(c.source[n].cols, row, other) <=>
               \/ row # other
               \/ \E i \in DOMAIN row : c.source[n].cols[i].kind = "object" /\ row[i] # Null
  BY <1>1, RowIsText, EqualRowsIs
<1>3. ASSUME NEW row \in c.source[n].rows
      PROVE  (\E other \in Found(c.before[n], row) : ~EqualRows(c.source[n].cols, row, other)) <=>
             \E other \in c.before[n].rows :
               /\ SameKey(c.before[n].cols, row, other)
               /\ \/ row # other
                  \/ \E i \in DOMAIN row : c.source[n].cols[i].kind = "object" /\ row[i] # Null
  BY <1>2 DEF Found
<1> QED
  BY <1>1, <1>3 DEF Conflicting, ConflictsOf

(* Without conflicts, the rows that are missing are what the union adds.   *)
LEMMA MissingUnites ==
  ASSUME NEW c, Given(c), NEW n \in DOMAIN c.source, ConflictsOf(c, n) = {}
  PROVE  LET table == IF n \in DOMAIN c.before THEN c.before[n] ELSE EmptyTable(c.source[n].cols)
             rows == ToMergeOf(c, n).rows
         IN  UnitedOf(c, n) = table.rows \cup {Fitted(table.cols, row) : row \in rows}
<1>1. CASE n \notin DOMAIN c.before
  <2>1. IsTable(c.source[n])
    BY MergeAssumption DEF Given
  <2>2. \A row \in c.source[n].rows : Fitted(c.source[n].cols, row) = row
    BY <2>1, FittedSame
  <2>3. EmptyTable(c.source[n].cols).rows = {} /\ EmptyTable(c.source[n].cols).cols = c.source[n].cols
    BY DEF EmptyTable
  <2>4. ToMergeOf(c, n).rows = c.source[n].rows /\ UnitedOf(c, n) = c.source[n].rows
    BY <1>1 DEF ToMergeOf, UnitedOf
  <2> QED
    BY <1>1, <2>2, <2>3, <2>4
<1>2. CASE n \in DOMAIN c.before
  <2> DEFINE mine == c.before[n]
             theirs == c.source[n]
             Fit(row) == Fitted(mine.cols, row)
  <2>1. IsTable(mine) /\ IsTable(theirs)
    BY <1>2, ConflictingIs
  <2>2. ToMergeOf(c, n).rows = Missing(mine, theirs)
    BY <1>2 DEF ToMergeOf
  <2>3. UnitedOf(c, n) = mine.rows \cup {Fit(row) : row \in AskableOf(c, n)}
    BY <1>2 DEF UnitedOf
  <2>4. Missing(mine, theirs) \subseteq AskableOf(c, n)
    BY DEF Missing, AskableOf
  <2>5. ASSUME NEW row \in AskableOf(c, n), row \notin Missing(mine, theirs)
        PROVE  Fit(row) \in mine.rows
    <3>1. PICK other \in mine.rows : SameKey(mine.cols, row, other)
      BY <2>5 DEF Missing, Found, AskableOf
    <3>2. row = other
      BY <1>2, <3>1 DEF ConflictsOf, AskableOf
    <3> QED
      BY <2>1, <3>2, FittedSame
  <2> HIDE DEF mine, theirs, Fit
  <2>6. UnitedOf(c, n) = mine.rows \cup {Fit(row) : row \in Missing(mine, theirs)}
    BY <2>3, <2>4, <2>5
  <2> QED
    BY <1>2, <2>2, <2>6 DEF mine, theirs, Fit
<1> QED
  BY <1>1, <1>2

LEMMA ToMergeCounts ==
  ASSUME NEW c, Given(c), NEW n \in DOMAIN c.source
  PROVE  /\ ToMergeOf(c, n).conflicts = Cardinality(ConflictsOf(c, n))
         /\ ToMergeOf(c, n).conflicts \in Nat
         /\ ToMergeOf(c, n).conflicts = 0 <=> ConflictsOf(c, n) = {}
         /\ ConflictsOf(c, n) # {} => n \in DOMAIN c.before
         /\ ToMergeOf(c, n).name = n /\ ToMergeOf(c, n).cols = c.source[n].cols
<1>1. IsFiniteSet(ConflictsOf(c, n))
  <2>1. IsFiniteSet(c.source[n].rows)
    BY MergeAssumption DEF Given, IsTable
  <2>2. ConflictsOf(c, n) \subseteq c.source[n].rows
    BY DEF ConflictsOf
  <2> QED
    BY <2>1, <2>2, FS_Subset
<1>2. ToMergeOf(c, n).conflicts = Cardinality(ConflictsOf(c, n))
  <2>1. CASE n \in DOMAIN c.before
    <3>1. Conflicting(c.before[n], c.source[n]) = ConflictsOf(c, n)
      BY <2>1, ConflictingIs
    <3> QED
      BY <2>1, <3>1 DEF ToMergeOf
  <2>2. CASE n \notin DOMAIN c.before
    <3>1. ConflictsOf(c, n) = {}
      BY <2>2 DEF ConflictsOf
    <3> QED
      BY <2>2, <3>1, FS_EmptySet DEF ToMergeOf
  <2> QED
    BY <2>1, <2>2
<1>3. ConflictsOf(c, n) # {} => n \in DOMAIN c.before
  BY DEF ConflictsOf
<1>4. ToMergeOf(c, n).name = n /\ ToMergeOf(c, n).cols = c.source[n].cols
  BY DEF ToMergeOf
<1>5. Cardinality(ConflictsOf(c, n)) \in Nat /\ (Cardinality(ConflictsOf(c, n)) = 0 <=> ConflictsOf(c, n) = {})
  BY <1>1, FS_CardinalityType, FS_EmptySet
<1> QED
  BY <1>2, <1>3, <1>4, <1>5

LEMMA NextOf ==
  ASSUME NEW c, NEW list, Listed(c, list), list # <<>>
  PROVE  /\ Head(list).name \in NamesOf(list) \cap DOMAIN c.source
         /\ Head(list) = ToMergeOf(c, Head(list).name)
         /\ Listed(c, Tail(list)) /\ NamesOf(Tail(list)) = NamesOf(list) \ {Head(list).name}
<1>1. list \in Seq(Range(list)) /\ DOMAIN list = 1 .. Len(list) /\ Len(list) \in Nat
  BY LenProperties DEF Listed
<1>2. Len(list) > 0 /\ Head(list) = list[1]
  BY <1>1, EmptySeq
<1>3. PICK tail : tail = Tail(list)
  OBVIOUS
<1>4. tail \in Seq(Range(list)) /\ Len(tail) = Len(list) - 1 /\ \A i \in 1 .. Len(tail) : tail[i] = list[i + 1]
  BY <1>1, <1>2, <1>3, HeadTailProperties
<1>5. tail \in Seq(Range(tail)) /\ DOMAIN tail = 1 .. Len(tail)
  BY <1>4, SeqOfRange, LenProperties
<1>6. 1 \in DOMAIN list /\ \A i \in DOMAIN tail : i + 1 \in DOMAIN list /\ i + 1 # 1
  BY <1>1, <1>2, <1>4, <1>5
<1>7. Listed(c, tail)
  <2>1. ASSUME NEW i \in DOMAIN tail
        PROVE  tail[i].name \in DOMAIN c.source /\ tail[i] = ToMergeOf(c, tail[i].name)
    BY <1>4, <1>5, <1>6 DEF Listed
  <2>2. ASSUME NEW i \in DOMAIN tail, NEW j \in DOMAIN tail, i # j
        PROVE  tail[i].name # tail[j].name
    <3>1. i + 1 \in DOMAIN list /\ j + 1 \in DOMAIN list /\ i + 1 # j + 1
      BY <1>5, <1>6, <2>2, <1>4, <1>1
    <3>2. tail[i] = list[i + 1] /\ tail[j] = list[j + 1]
      BY <1>4, <1>5
    <3> QED
      BY <3>1, <3>2 DEF Listed
  <2> QED
    BY <1>5, <2>1, <2>2 DEF Listed
<1>8. NamesOf(tail) = NamesOf(list) \ {list[1].name}
  <2>1. ASSUME NEW i \in DOMAIN tail
        PROVE  tail[i].name \in NamesOf(list) \ {list[1].name}
    BY <1>4, <1>5, <1>6 DEF Listed, NamesOf
  <2>2. ASSUME NEW i \in DOMAIN list, i # 1
        PROVE  list[i].name \in NamesOf(tail)
    <3>1. PICK j \in Nat : j = i - 1
      BY <1>1, <2>2
    <3>2. j \in DOMAIN tail /\ i = j + 1
      BY <1>1, <1>4, <1>5, <2>2, <3>1
    <3>3. tail[j] = list[i]
      BY <1>4, <1>5, <3>2
    <3> QED
      BY <3>2, <3>3 DEF NamesOf
  <2> QED
    BY <2>1, <2>2 DEF NamesOf
<1> QED
  BY <1>2, <1>3, <1>6, <1>7, <1>8 DEF NamesOf, Listed

-----------------------------------------------------------------------------
LEMMA NoNames ==
  ASSUME NEW c
  PROVE  Listed(c, <<>>) /\ NamesOf(<<>>) = {}
BY DEF Listed, NamesOf

(* What was compared is all there is to merge.                             *)
LEMMA BeginAccounts ==
  ASSUME NEW source \in Sources, NEW error, NEW d, \A n \in DOMAIN d : IsTable(d[n]),
         NEW c, c = [source |-> source, error |-> error, before |-> d],
         NEW names \in SetToSeqs(DOMAIN source), NEW list,
         list = [i \in DOMAIN names |-> ToMergeOf(c, names[i])]
  PROVE  Accounts(c, d, list, FALSE, "ok")
<1> DEFINE S == DOMAIN source
<1>1. c.source = source /\ c.error = error /\ c.before = d
  OBVIOUS
<1>2. PICK k \in Nat : /\ k = Cardinality(S) /\ DOMAIN names = 1 .. k /\ \A i \in 1 .. k : names[i] \in S
                       /\ \A i \in 1 .. k, j \in 1 .. k : i # j => names[i] # names[j]
  <2>1. IsFiniteSet(S)
    BY MergeAssumption
  <2> HIDE DEF S
  <2> QED
    BY <2>1, NamesIs DEF S
<1>3. Given(c)
  BY <1>1 DEF Given
<1>4. list = [i \in 1 .. k |-> list[i]] /\ \A i \in 1 .. k : list[i] = ToMergeOf(c, names[i])
  BY <1>2
<1>5. list \in Seq(Range(list)) /\ DOMAIN list = 1 .. k
  BY <1>4, FunctionIsSeq
<1>6. \A i \in 1 .. k : list[i].name = names[i]
  BY <1>4 DEF ToMergeOf
<1>7. Listed(c, list)
  BY <1>1, <1>2, <1>4, <1>5, <1>6 DEF Listed
<1>8. NamesOf(list) = S
  <2>1. names \in [1 .. k -> S]
    BY <1>2 DEF SetToSeqs
  <2>2. names \in Injection(1 .. k, S)
    BY <1>2, <2>1 DEF Injection, IsInjective
  <2>3. IsFiniteSet(S) /\ Cardinality(1 .. k) = k
    BY <1>2, MergeAssumption, FS_Interval
  <2>4. names \in Surjection(1 .. k, S)
    <3> HIDE DEF S
    <3> QED
      BY <1>2, <2>2, <2>3, FS_Injection
  <2>5. \A n \in S : \E i \in 1 .. k : names[i] = n
    BY <2>4 DEF Surjection
  <2> QED
    <3>1. NamesOf(list) = {list[i].name : i \in 1 .. k}
      BY <1>5 DEF NamesOf
    <3>2. \A i \in 1 .. k : names[i] \in S
      BY <1>2
    <3> HIDE DEF S
    <3> QED
      <4>1. ASSUME NEW n \in NamesOf(list)
            PROVE  n \in S
        <5>1. PICK i \in 1 .. k : n = list[i].name
          BY <3>1
        <5> QED
          BY <1>6, <3>2, <5>1
      <4>2. ASSUME NEW n \in S
            PROVE  n \in NamesOf(list)
        <5>1. PICK i \in 1 .. k : names[i] = n
          BY <2>5
        <5> QED
          BY <1>6, <3>1, <5>1
      <4> QED
        BY <4>1, <4>2
<1>9. Kept(c, d) /\ Counted(c, d, list, FALSE, "ok")
  BY <1>1 DEF Kept, Counted
<1>10. Done(c, d, list, FALSE, "ok")
  BY <1>1, <1>8 DEF Done
<1>11. Waiting(c, d, list, FALSE)
  BY <1>1 DEF Waiting
<1>12. Bounded(c, d, FALSE)
  BY <1>1 DEF Bounded, NamedIn, RowsBeforeOf, UnitedOf
<1> QED
  BY <1>3, <1>7, <1>9, <1>10, <1>11, <1>12 DEF Accounts

(* Stopping leaves what is there as it is.                                 *)
LEMMA StopAccounts ==
  ASSUME NEW c, NEW d, NEW list, NEW any, NEW rr, Accounts(c, d, list, any, rr),
         NEW after \in BOOLEAN, any => after
  PROVE  Accounts(c, d, <<>>, after, "failed")
<1>1. \A n : Clear(c, after, n) => Clear(c, any, n)
  BY DEF Clear
<1>2. Bounded(c, d, after)
  BY <1>1 DEF Accounts, Bounded
<1>3. Waiting(c, d, <<>>, after)
  BY <1>1, NoNames DEF Accounts, Waiting
<1>4. Done(c, d, <<>>, after, "failed") /\ Counted(c, d, <<>>, after, "failed")
  BY DEF Done, Counted
<1> QED
  BY <1>2, <1>3, <1>4, NoNames DEF Accounts

LEMMA WithRowsParts ==
  ASSUME NEW table, IsTable(table), NEW rows
  PROVE  /\ WithRows(table, rows).cols = table.cols
         /\ \A x : x \in WithRows(table, rows).rows <=>
                     x \in table.rows \/ \E row \in rows : x = Fitted(table.cols, row)
<1>1. Sound(table)
  BY TableIs
<1>2. WithRows(table, rows) =
           [cols |-> table.cols, rows |-> table.rows \cup {Fitted(table.cols, row) : row \in rows}]
  BY <1>1 DEF WithRows, Sound
<1> QED
  BY <1>2

(* A table gets rows of the other database, all there are or some.         *)
LEMMA RowsAccount ==
  ASSUME NEW c, NEW d, NEW list, NEW any, NEW rr, Accounts(c, d, list, any, rr), list # <<>>,
         \A n \in DOMAIN d : IsTable(d[n]),
         NEW next, next = Head(list), next.conflicts = 0,
         NEW table, table = IF next.name \in DOMAIN d THEN d[next.name] ELSE EmptyTable(next.cols),
         NEW rows \in SUBSET next.rows,
         NEW e, e = Put(d, next.name, WithRows(table, rows))
  PROVE  /\ rows = next.rows => Accounts(c, e, Tail(list), any, rr)
         /\ Accounts(c, e, <<>>, any, "failed")
<1> DEFINE n0 == next.name
           new == WithRows(table, rows)
           Fit(row) == Fitted(table.cols, row)
           added == {Fit(row) : row \in rows}
<1>1. /\ n0 \in NamesOf(list) /\ n0 \in DOMAIN c.source /\ next = ToMergeOf(c, n0)
      /\ Listed(c, Tail(list)) /\ NamesOf(Tail(list)) = NamesOf(list) \ {n0}
  BY NextOf DEF Accounts
<1>2. Given(c) /\ any \in BOOLEAN /\ rr = "ok"
  BY DEF Accounts
<1>3. ConflictsOf(c, n0) = {} /\ next.cols = c.source[n0].cols
  BY <1>1, <1>2, ToMergeCounts
<1>4. IsTable(table)
  <2>1. Header(next.cols)
    BY <1>1, <1>2, <1>3, MergeAssumption DEF Given, IsTable, Header
  <2> QED
    BY <2>1, EmptyIs
<1>5. new.cols = table.cols /\ \A x : x \in new.rows <=> x \in table.rows \/ \E row \in rows : x = Fit(row)
  <2>1. \A some : WithRows(table, some).cols = table.cols
    BY <1>4, WithRowsParts
  <2>2. ASSUME NEW some, NEW x
        PROVE  x \in WithRows(table, some).rows <=>
                     x \in table.rows \/ \E row \in some : x = Fitted(table.cols, row)
    BY ONLY <1>4, WithRowsParts
  <2> QED
    BY <2>1, <2>2
<1>6. DOMAIN e = DOMAIN d \cup {n0} /\ e[n0] = new /\ \A n \in DOMAIN d : n # n0 => e[n] = d[n]
  BY DEF Put
<1>7. new.cols = table.cols /\ new.rows = table.rows \cup added
  <2> HIDE DEF new, Fit
  <2> QED
    BY <1>5
<1>8. n0 \in DOMAIN d => table = d[n0]
  OBVIOUS
<1>9. n0 \in NamedIn(c)
  BY <1>1 DEF NamedIn
<1>10. ASSUME Clear(c, any, n0)
       PROVE  /\ table = IF n0 \in DOMAIN c.before THEN c.before[n0] ELSE EmptyTable(c.source[n0].cols)
              /\ UnitedOf(c, n0) = table.rows \cup {Fit(row) : row \in next.rows}
  <2>1. n0 \in DOMAIN d <=> n0 \in DOMAIN c.before
    BY <1>1, <1>9, <1>10 DEF Accounts, Waiting
  <2>2. n0 \in DOMAIN c.before => d[n0] = c.before[n0]
    BY <1>1, <1>9, <1>10 DEF Accounts, Waiting
  <2>3. table = IF n0 \in DOMAIN c.before THEN c.before[n0] ELSE EmptyTable(c.source[n0].cols)
    BY <1>3, <2>1, <2>2
  <2>4. next.rows = ToMergeOf(c, n0).rows
    BY <1>1
  <2> HIDE DEF n0
  <2> QED
    BY <1>1, <1>2, <1>3, <2>3, <2>4, MissingUnites
<1>11. ASSUME Clear(c, any, n0)
       PROVE  /\ new.rows \subseteq UnitedOf(c, n0)
              /\ rows = next.rows => new.rows = UnitedOf(c, n0)
  BY <1>7, <1>10, <1>11
<1> HIDE DEF n0, new, added
<1>12. Kept(c, e)
  <2> SUFFICES ASSUME NEW n \in DOMAIN c.before
               PROVE  n \in DOMAIN e /\ e[n].cols = c.before[n].cols /\ c.before[n].rows \subseteq e[n].rows
    BY DEF Kept
  <2>1. n \in DOMAIN d /\ d[n].cols = c.before[n].cols /\ c.before[n].rows \subseteq d[n].rows
    BY DEF Accounts, Kept
  <2> QED
    BY <1>6, <1>7, <1>8, <2>1
<1>13. Bounded(c, e, any)
  <2>1. DOMAIN e \subseteq NamedIn(c) \cup {n \in {c.error} : any}
    BY <1>6, <1>9 DEF Accounts, Bounded
  <2>2. ASSUME NEW n \in DOMAIN e, Clear(c, any, n)
        PROVE  IF ConflictsOf(c, n) # {} THEN e[n].rows = RowsBeforeOf(c, n) ELSE e[n].rows \subseteq UnitedOf(c, n)
    <3>1. CASE n = n0
      BY <1>3, <1>6, <1>11, <2>2, <3>1
    <3>2. CASE n # n0
      <4>1. n \in DOMAIN d /\ e[n] = d[n]
        BY <1>6, <3>2
      <4> QED
        BY <2>2, <4>1 DEF Accounts, Bounded
    <3> QED
      BY <3>1, <3>2
  <2> QED
    BY <2>1, <2>2 DEF Bounded
<1>14. ASSUME NEW left, n0 \notin NamesOf(left), NamesOf(left) \subseteq NamesOf(list)
       PROVE  Waiting(c, e, left, any)
  <2> SUFFICES ASSUME NEW n \in NamedIn(c), n \in NamesOf(left) \/ n \notin DOMAIN c.source, Clear(c, any, n)
               PROVE  /\ n \in DOMAIN e <=> n \in DOMAIN c.before
                      /\ n \in DOMAIN c.before => e[n] = c.before[n]
    BY DEF Waiting
  <2>1. n # n0 /\ (n \in NamesOf(list) \/ n \notin DOMAIN c.source)
    BY <1>1, <1>14
  <2>2. (n \in DOMAIN d <=> n \in DOMAIN c.before) /\ (n \in DOMAIN c.before => d[n] = c.before[n])
    BY <2>1 DEF Accounts, Waiting
  <2> QED
    BY <1>6, <2>1, <2>2
<1>15. Accounts(c, e, <<>>, any, "failed")
  <2>1. Waiting(c, e, <<>>, any)
    BY <1>14, NoNames
  <2>2. Done(c, e, <<>>, any, "failed") /\ Counted(c, e, <<>>, any, "failed")
    BY DEF Done, Counted
  <2> QED
    BY <1>2, <1>12, <1>13, <2>1, <2>2, NoNames DEF Accounts
<1>16. ASSUME rows = next.rows
       PROVE  Accounts(c, e, Tail(list), any, rr)
  <2>1. Waiting(c, e, Tail(list), any)
    BY <1>1, <1>14
  <2>2. Done(c, e, Tail(list), any, rr)
    <3> SUFFICES ASSUME NEW n \in DOMAIN c.source \ NamesOf(Tail(list))
                 PROVE  /\ ~any => ConflictsOf(c, n) = {}
                        /\ Clear(c, any, n) => n \in DOMAIN e /\ (ConflictsOf(c, n) # {} \/ e[n].rows = UnitedOf(c, n))
      BY DEF Done
    <3>1. CASE n = n0
      BY <1>3, <1>6, <1>11, <1>16, <3>1
    <3>2. CASE n # n0
      <4>1. n \in DOMAIN c.source \ NamesOf(list)
        BY <1>1, <3>2
      <4>2. /\ ~any => ConflictsOf(c, n) = {}
            /\ Clear(c, any, n) => n \in DOMAIN d /\ (ConflictsOf(c, n) # {} \/ d[n].rows = UnitedOf(c, n))
        BY <1>2, <4>1 DEF Accounts, Done
      <4> QED
        BY <1>6, <3>2, <4>2
    <3> QED
      BY <3>1, <3>2
  <2>3. Counted(c, e, Tail(list), any, rr)
    <3> SUFFICES ASSUME any, c.error \notin NamedIn(c)
                 PROVE  /\ c.error \in DOMAIN e /\ e[c.error].cols = ErrorColumns
                        /\ e[c.error].rows = {ErrorRow(n, Cardinality(ConflictsOf(c, n))) :
                              n \in {x \in DOMAIN c.source \ NamesOf(Tail(list)) : ConflictsOf(c, x) # {}}}
      BY DEF Counted
    <3>1. c.error # n0
      BY <1>9
    <3>2. c.error \in DOMAIN d /\ d[c.error].cols = ErrorColumns /\ d[c.error].rows = {ErrorRow(n, Cardinality(ConflictsOf(c, n))) :
                              n \in {x \in DOMAIN c.source \ NamesOf(list) : ConflictsOf(c, x) # {}}}
      BY <1>2 DEF Accounts, Counted
    <3>3. {x \in DOMAIN c.source \ NamesOf(Tail(list)) : ConflictsOf(c, x) # {}}
            = {x \in DOMAIN c.source \ NamesOf(list) : ConflictsOf(c, x) # {}}
      BY <1>1, <1>3
    <3> QED
      BY <1>6, <3>1, <3>2, <3>3
  <2> QED
    BY <1>1, <1>2, <1>12, <1>13, <2>1, <2>2, <2>3 DEF Accounts
<1> QED
  BY <1>15, <1>16

(* Conflicts are counted in a table that may be merged too.                *)
LEMMA ErrorsAccount ==
  ASSUME NEW c, NEW d, NEW list, NEW any, NEW rr, Accounts(c, d, list, any, rr), list # <<>>,
         \A n \in DOMAIN d : IsTable(d[n]),
         NEW next, next = Head(list), next.conflicts > 0, ToString(next.conflicts) \in Numeral,
         NEW table, table = IF c.error \in DOMAIN d THEN d[c.error] ELSE EmptyTable(ErrorColumns),
         NEW row, row = Fitted(table.cols, Arranged(table.cols, ErrorRow(next.name, next.conflicts))),
         NEW e, e = Put(d, c.error, WithRow(table, row))
  PROVE  Accounts(c, e, Tail(list), TRUE, rr)
<1> DEFINE n0 == next.name
           new == WithRow(table, row)
<1>1. /\ n0 \in NamesOf(list) /\ n0 \in DOMAIN c.source /\ next = ToMergeOf(c, n0)
      /\ Listed(c, Tail(list)) /\ NamesOf(Tail(list)) = NamesOf(list) \ {n0}
  BY NextOf DEF Accounts
<1>2. Given(c) /\ any \in BOOLEAN /\ rr = "ok"
  BY DEF Accounts
<1>3. next.conflicts = Cardinality(ConflictsOf(c, n0)) /\ ConflictsOf(c, n0) # {} /\ n0 \in DOMAIN c.before
  <2> HIDE DEF n0
  <2> QED
    BY <1>1, <1>2, ToMergeCounts
<1>4. IsTable(table)
  BY EmptyIs, ErrorRowIs
<1>5. new = [cols |-> table.cols, rows |-> table.rows \cup {row}]
  <2>1. PICK R : table = [cols |-> table.cols, rows |-> R]
    BY <1>4 DEF IsTable
  <2>2. PICK K : table = [cols |-> K, rows |-> R]
    BY <2>1
  <2>3. table.cols = K /\ table.rows = R
    BY <2>2
  <2>4. WithRow([cols |-> K, rows |-> R], row) = [cols |-> K, rows |-> R \cup {row}]
    BY WithRowOf
  <2> QED
    BY <2>2, <2>3, <2>4
<1>6. new.cols = table.cols /\ new.rows = table.rows \cup {row}
  BY <1>5
<1>7. DOMAIN e = DOMAIN d \cup {c.error} /\ e[c.error] = new /\ \A n \in DOMAIN d : n # c.error => e[n] = d[n]
  BY DEF Put
<1>8. c.error \in DOMAIN d => table = d[c.error]
  OBVIOUS
<1>9. c.error \notin DOMAIN d => table.rows = {} /\ table.cols = ErrorColumns
  BY DEF EmptyTable
<1> HIDE DEF n0, new
<1>10. \A n : Clear(c, TRUE, n) <=> n # c.error
  BY DEF Clear
<1>11. \A n : n # c.error => Clear(c, any, n)
  BY DEF Clear
<1>12. Kept(c, e)
  <2> SUFFICES ASSUME NEW n \in DOMAIN c.before
               PROVE  n \in DOMAIN e /\ e[n].cols = c.before[n].cols /\ c.before[n].rows \subseteq e[n].rows
    BY DEF Kept
  <2>1. n \in DOMAIN d /\ d[n].cols = c.before[n].cols /\ c.before[n].rows \subseteq d[n].rows
    BY DEF Accounts, Kept
  <2> QED
    BY <1>6, <1>7, <1>8, <2>1
<1>13. Bounded(c, e, TRUE)
  <2>1. DOMAIN e \subseteq NamedIn(c) \cup {n \in {c.error} : TRUE}
    BY <1>7 DEF Accounts, Bounded
  <2>2. ASSUME NEW n \in DOMAIN e, n # c.error
        PROVE  IF ConflictsOf(c, n) # {} THEN e[n].rows = RowsBeforeOf(c, n) ELSE e[n].rows \subseteq UnitedOf(c, n)
    <3>1. n \in DOMAIN d /\ e[n] = d[n]
      BY <1>7, <2>2
    <3> QED
      BY <1>11, <2>2, <3>1 DEF Accounts, Bounded
  <2> QED
    BY <1>10, <2>1, <2>2 DEF Bounded
<1>14. Waiting(c, e, Tail(list), TRUE)
  <2> SUFFICES ASSUME NEW n \in NamedIn(c), n \in NamesOf(Tail(list)) \/ n \notin DOMAIN c.source, n # c.error
               PROVE  /\ n \in DOMAIN e <=> n \in DOMAIN c.before
                      /\ n \in DOMAIN c.before => e[n] = c.before[n]
    BY <1>10 DEF Waiting
  <2>1. n \in NamesOf(list) \/ n \notin DOMAIN c.source
    BY <1>1
  <2>2. (n \in DOMAIN d <=> n \in DOMAIN c.before) /\ (n \in DOMAIN c.before => d[n] = c.before[n])
    BY <1>11, <2>1 DEF Accounts, Waiting
  <2> QED
    BY <1>7, <2>2
<1>15. Done(c, e, Tail(list), TRUE, rr)
  <2> SUFFICES ASSUME NEW n \in DOMAIN c.source \ NamesOf(Tail(list)), n # c.error
               PROVE  n \in DOMAIN e /\ (ConflictsOf(c, n) # {} \/ e[n].rows = UnitedOf(c, n))
    BY <1>10 DEF Done
  <2>1. CASE n = n0
    BY <1>3, <1>12, <2>1 DEF Kept
  <2>2. CASE n # n0
    <3>1. n \in DOMAIN c.source \ NamesOf(list)
      BY <1>1, <2>2
    <3>2. n \in DOMAIN d /\ (ConflictsOf(c, n) # {} \/ d[n].rows = UnitedOf(c, n))
      BY <1>2, <1>11, <3>1 DEF Accounts, Done
    <3> QED
      BY <1>7, <3>2
  <2> QED
    BY <2>1, <2>2
<1>16. Counted(c, e, Tail(list), TRUE, rr)
  <2> DEFINE Row(n) == ErrorRow(n, Cardinality(ConflictsOf(c, n)))
             before == {x \in DOMAIN c.source \ NamesOf(list) : ConflictsOf(c, x) # {}}
             now == {x \in DOMAIN c.source \ NamesOf(Tail(list)) : ConflictsOf(c, x) # {}}
  <2> SUFFICES ASSUME c.error \notin NamedIn(c)
               PROVE  /\ c.error \in DOMAIN e /\ e[c.error].cols = ErrorColumns
                      /\ e[c.error].rows = {Row(n) : n \in now}
    BY DEF Counted
  <2>1. now = before \cup {n0}
    BY <1>1, <1>3
  <2>2. ErrorRow(next.name, next.conflicts) = Row(n0)
    BY <1>3 DEF n0
  <2>3. table.rows = {Row(n) : n \in before} /\ table.cols = ErrorColumns
    <3>1. CASE any
      <4>1. /\ c.error \in DOMAIN d /\ d[c.error].cols = ErrorColumns
            /\ d[c.error].rows = {Row(n) : n \in before}
        BY <1>2, <3>1 DEF Accounts, Counted
      <4> QED
        BY <1>8, <4>1
    <3>2. CASE ~any
      <4>1. c.error \notin DOMAIN d
        BY <3>2 DEF Accounts, Bounded
      <4>2. before = {}
        BY <1>2, <3>2 DEF Accounts, Done
      <4> QED
        BY <1>9, <4>1, <4>2
    <3> QED
      BY <1>2, <3>1, <3>2
  <2>4. row = Row(n0)
    BY <2>2, <2>3, ArrangedOwn
  <2> HIDE DEF Row, before, now
  <2> QED
    BY <1>6, <1>7, <2>1, <2>3, <2>4
<1> QED
  BY <1>1, <1>2, <1>12, <1>13, <1>14, <1>15, <1>16 DEF Accounts

-----------------------------------------------------------------------------
LEMMA BeginMergeAccounts ==
  ASSUME BulkInv, NEW source \in Sources, NEW error, BeginMerge(source, error)
  PROVE  MergeInv'
<1>1. PICK c : c = [source |-> source, error |-> error, before |-> db]
  OBVIOUS
<1>2. PICK names \in SetToSeqs(DOMAIN source) : todo' = [i \in DOMAIN names |-> Gathered(source, names[i])]
  BY DEF BeginMerge
<1>3. PICK list : list = todo'
  OBVIOUS
<1>4. \A n : Gathered(source, n) = ToMergeOf(c, n)
  BY <1>1 DEF Gathered, ToMergeOf
<1>5. list = [i \in DOMAIN names |-> ToMergeOf(c, names[i])]
  BY <1>2, <1>3, <1>4
<1>6. Accounts(c, db, list, FALSE, "ok")
  BY <1>1, <1>5, BeginAccounts DEF BulkInv, TablesInv
<1>7. call' = c /\ db' = db /\ todo' = list /\ conflicts' = FALSE /\ r' = "ok"
  BY <1>1, <1>3 DEF BeginMerge
<1>8. Accounts(call', db', todo', conflicts', r')
  BY <1>6, <1>7
<1> QED
  BY <1>8 DEF MergeInv

LEMMA MergeTableAccounts ==
  ASSUME BulkInv, MergeInv, MergeTable
  PROVE  MergeInv'
<1> DEFINE next == Head(todo)
           table == IF next.name \in DOMAIN db THEN db[next.name] ELSE EmptyTable(next.cols)
<1>1. Accounts(call, db, todo, conflicts, r) /\ todo # <<>> /\ next.conflicts = 0
  BY DEF MergeTable, Merging, MergeInv
<1>2. PICK rows \in SUBSET next.rows :
        /\ db' = WithTable(next.name, WithRows(table, rows))
        /\ (rows = next.rows /\ Continue) \/ Break
  BY Zenon DEF MergeTable
<1>3. db' = Put(db, next.name, WithRows(table, rows))
  BY <1>2 DEF WithTable, Put
<1>4. call' = call /\ conflicts' = conflicts
  BY DEF MergeTable
<1>5. \A n \in DOMAIN db : IsTable(db[n])
  BY DEF BulkInv, TablesInv
<1>6. PICK d : d = db'
  OBVIOUS
<1>7. /\ rows = next.rows => Accounts(call, d, Tail(todo), conflicts, r)
      /\ Accounts(call, d, <<>>, conflicts, "failed")
  BY <1>1, <1>2, <1>3, <1>5, <1>6, RowsAccount
<1>8. Accounts(call', db', todo', conflicts', r')
  <2>1. CASE rows = next.rows /\ Continue
    BY <1>4, <1>6, <1>7, <2>1 DEF Continue
  <2>2. CASE Break
    BY <1>4, <1>6, <1>7, <2>2 DEF Break
  <2> QED
    BY <1>2, <2>1, <2>2
<1> QED
  BY <1>8 DEF MergeInv

LEMMA RecordConflictsAccounts ==
  ASSUME BulkInv, MergeInv, RecordConflicts
  PROVE  MergeInv'
<1> DEFINE next == Head(todo)
           table == IF call.error \in DOMAIN db THEN db[call.error] ELSE EmptyTable(ErrorColumns)
           row == Fitted(table.cols, Arranged(table.cols, ErrorRow(next.name, next.conflicts)))
<1>1. Accounts(call, db, todo, conflicts, r) /\ todo # <<>> /\ next.conflicts > 0
  BY DEF RecordConflicts, Merging, MergeInv
<1>2. \/ Break /\ UNCHANGED db
      \/ Continue /\ db' = Put(db, call.error, WithRow(table, row))
  BY DEF RecordConflicts, WithTable, Put
<1>3. call' = call /\ conflicts' = TRUE
  BY DEF RecordConflicts
<1>4. \A n \in DOMAIN db : IsTable(db[n])
  BY DEF BulkInv, TablesInv
<1>5. PICK d : d = db'
  OBVIOUS
<1>7. ToString(next.conflicts) \in Numeral
  BY <1>1, HeadOfTodo DEF BulkInv, ToMerge
<1> HIDE DEF row, table
<1>6. Accounts(call', db', todo', conflicts', r')
  <2>1. CASE Break /\ UNCHANGED db
    <3>1. Accounts(call, db, <<>>, TRUE, "failed")
      BY <1>1, StopAccounts
    <3> QED
      BY <1>3, <2>1, <3>1 DEF Break
  <2>2. CASE Continue /\ db' = Put(db, call.error, WithRow(table, row))
    <3>1. Accounts(call, d, Tail(todo), TRUE, r)
      BY <1>1, <1>4, <1>5, <1>7, <2>2, ErrorsAccount DEF row, table
    <3> QED
      BY <1>3, <1>5, <2>2, <3>1 DEF Continue
  <2> QED
    BY <1>2, <2>1, <2>2
<1> QED
  BY <1>6 DEF MergeInv

LEMMA MergeTableRefusedAccounts ==
  ASSUME MergeInv, MergeTableRefused
  PROVE  MergeInv'
<1>1. Accounts(call, db, todo, conflicts, r)
  BY DEF MergeTableRefused, Merging, MergeInv
<1>2. conflicts \in BOOLEAN
  BY <1>1 DEF Accounts
<1>3. Accounts(call, db, <<>>, conflicts, "failed")
  BY <1>1, <1>2, StopAccounts
<1>4. call' = call /\ db' = db /\ todo' = <<>> /\ conflicts' = conflicts /\ r' = "failed"
  BY DEF MergeTableRefused, Break
<1> QED
  BY <1>3, <1>4 DEF MergeInv

LEMMA OtherAccounts ==
  ASSUME MergeInv,
         \/ UNCHANGED bulkVars
         \/ \E source \in Sources : MergeMismatch(source)
         \/ RecordNowhere \/ EndMerge
         \/ phase = "idle" /\ UNCHANGED mergeOnly
  PROVE  MergeInv'
<1>1. CASE phase' # "merging"
  BY <1>1 DEF MergeInv
<1>2. CASE phase' = "merging"
  <2>1. UNCHANGED <<phase, call, db, todo, conflicts, r>>
    BY <1>2 DEF bulkVars, mergeVars, MergeMismatch, RecordNowhere, EndMerge, mergeOnly
  <2> QED
    BY <2>1 DEF MergeInv
<1> QED
  BY <1>1, <1>2

LEMMA MergeInvStep ==
  ASSUME BulkInv, MergeInv, [BulkNext]_bulkVars
  PROVE  MergeInv'
<1>1. CASE UNCHANGED bulkVars
  BY <1>1, OtherAccounts
<1>2. CASE Call
  BY <1>2, BeginMergeAccounts, OtherAccounts DEF Call
<1>3. CASE MergeStep
  BY <1>3, MergeTableAccounts, RecordConflictsAccounts, MergeTableRefusedAccounts, OtherAccounts DEF MergeStep
<1>4. CASE ExportStep \/ ImportStep
  BY <1>4, OtherAccounts DEF ExportStep, ImportStep
<1> QED
  BY <1>1, <1>2, <1>3, <1>4 DEF BulkNext

LEMMA MergeInvHolds == BulkSpec => []MergeInv
<1>1. BulkInit => MergeInv
  BY DEF BulkInit, MergeInv
<1> QED
  BY <1>1, MergeInvStep, BulkInvHolds, PTL DEF BulkSpec

(* What the accounts come to when nothing is left to merge.                *)
LEMMA AccountsClosed ==
  ASSUME NEW c, NEW d, NEW any, NEW rr, Accounts(c, d, <<>>, any, rr)
  PROVE  IF ~any /\ rr = "ok"
         THEN /\ DOMAIN d = NamedIn(c)
              /\ \A name \in NamedIn(c) : d[name].rows = UnitedOf(c, name) /\ ConflictsOf(c, name) = {}
         ELSE /\ \A name \in DOMAIN c.before : c.before[name].rows \subseteq d[name].rows
              /\ \A name \in DOMAIN d \ {c.error} :
                   IF ConflictsOf(c, name) # {} THEN d[name].rows = RowsBeforeOf(c, name)
                   ELSE d[name].rows \subseteq UnitedOf(c, name)
              /\ rr = "ok" /\ c.error \notin NamedIn(c) =>
                   /\ \A name \in NamedIn(c) : ConflictsOf(c, name) # {} \/ d[name].rows = UnitedOf(c, name)
                   /\ d[c.error].rows = {ErrorRow(name, Cardinality(ConflictsOf(c, name))) :
                                           name \in {n \in NamedIn(c) : ConflictsOf(c, n) # {}}}
<1>1. Kept(c, d) /\ Bounded(c, d, any) /\ any \in BOOLEAN
  BY DEF Accounts
<1>2. \A n : (n # c.error \/ ~any) <=> Clear(c, any, n)
  BY DEF Clear
<1>3. \A n : n \notin DOMAIN c.source => ConflictsOf(c, n) = {}
  BY DEF ConflictsOf
<1>4. ASSUME NEW n \in NamedIn(c) \ DOMAIN c.source, Clear(c, any, n)
      PROVE  n \in DOMAIN d /\ d[n].rows = UnitedOf(c, n)
  <2>1. n \in DOMAIN c.before
    BY DEF NamedIn
  <2>2. d[n] = c.before[n]
    BY <1>4, <2>1 DEF Accounts, Waiting
  <2> QED
    BY <1>1, <2>1, <2>2 DEF Kept, UnitedOf
<1>5. ASSUME rr = "ok", NEW n \in DOMAIN c.source
      PROVE  /\ ~any => ConflictsOf(c, n) = {}
             /\ Clear(c, any, n) => n \in DOMAIN d /\ (ConflictsOf(c, n) # {} \/ d[n].rows = UnitedOf(c, n))
  BY <1>5, NoNames DEF Accounts, Done
<1>6. ASSUME ~any, rr = "ok"
      PROVE  /\ DOMAIN d = NamedIn(c)
             /\ \A name \in NamedIn(c) : d[name].rows = UnitedOf(c, name) /\ ConflictsOf(c, name) = {}
  <2>1. ASSUME NEW n \in NamedIn(c)
        PROVE  n \in DOMAIN d /\ d[n].rows = UnitedOf(c, n) /\ ConflictsOf(c, n) = {}
    BY <1>2, <1>3, <1>4, <1>5, <1>6
  <2>2. DOMAIN d \subseteq NamedIn(c)
    BY <1>1, <1>6 DEF Bounded
  <2> QED
    BY <2>1, <2>2
<1>7. \A name \in DOMAIN c.before : c.before[name].rows \subseteq d[name].rows
  BY <1>1 DEF Kept
<1>8. \A name \in DOMAIN d \ {c.error} :
        IF ConflictsOf(c, name) # {} THEN d[name].rows = RowsBeforeOf(c, name)
        ELSE d[name].rows \subseteq UnitedOf(c, name)
  BY <1>1, <1>2 DEF Bounded
<1>9. ASSUME any, rr = "ok", c.error \notin NamedIn(c)
      PROVE  /\ \A name \in NamedIn(c) : ConflictsOf(c, name) # {} \/ d[name].rows = UnitedOf(c, name)
             /\ d[c.error].rows = {ErrorRow(name, Cardinality(ConflictsOf(c, name))) :
                                     name \in {n \in NamedIn(c) : ConflictsOf(c, n) # {}}}
  <2>1. \A name \in NamedIn(c) : ConflictsOf(c, name) # {} \/ d[name].rows = UnitedOf(c, name)
    BY <1>2, <1>4, <1>5, <1>9
  <2>2. {n \in NamedIn(c) : ConflictsOf(c, n) # {}} = {x \in DOMAIN c.source \ NamesOf(<<>>) : ConflictsOf(c, x) # {}}
    BY <1>3, NoNames DEF NamedIn
  <2>3. d[c.error].rows = {ErrorRow(n, Cardinality(ConflictsOf(c, n))) :
                            n \in {x \in DOMAIN c.source \ NamesOf(<<>>) : ConflictsOf(c, x) # {}}}
    BY <1>9 DEF Accounts, Counted
  <2> QED
    BY <2>1, <2>2, <2>3
<1> QED
  BY <1>1, <1>6, <1>7, <1>8, <1>9

(* The union of both databases, or what a merge that fails leaves; the     *)
(* errors are counted for every table that has conflicts                   *)
(* (libmsi_database_merge).                                                *)
THEOREM BulkMergeAccounts == BulkSpec => MergeAccounts
<1> DEFINE Said ==
  phase = "merging" /\ phase' = "idle" =>
       IF result' = "ok"
       THEN /\ DOMAIN db = Named
            /\ \A name \in Named : db[name].rows = United(name) /\ Conflicts(name) = {}
       ELSE /\ \A name \in DOMAIN call.before : call.before[name].rows \subseteq db[name].rows
            /\ \A name \in DOMAIN db \ {call.error} :
                 IF Conflicts(name) # {} THEN db[name].rows = RowsBefore(name)
                 ELSE db[name].rows \subseteq United(name)
            /\ r = "ok" /\ call.error \notin Named =>
                 /\ \A name \in Named : Conflicts(name) # {} \/ db[name].rows = United(name)
                 /\ db[call.error].rows = {ErrorRow(name, Cardinality(Conflicts(name))) :
                                             name \in {n \in Named : Conflicts(n) # {}}}
<1>1. ASSUME MergeInv, [BulkNext]_bulkVars, phase = "merging", phase' = "idle"
      PROVE  EndMerge
  BY <1>1 DEF BulkNext, bulkVars, mergeVars, Call, MergeStep, ExportStep, ImportStep, BeginMerge, MergeMismatch,
              MergeTable, MergeTableRefused, RecordConflicts, RecordNowhere
<1>2. ASSUME MergeInv, [BulkNext]_bulkVars
      PROVE  [Said]_mergeVars
  <2> SUFFICES ASSUME phase = "merging", phase' = "idle"
               PROVE  Said
    OBVIOUS
  <2>1. EndMerge /\ Accounts(call, db, <<>>, conflicts, r)
    BY <1>1, <1>2 DEF MergeInv, EndMerge
  <2>2. Named = NamedIn(call)
    BY DEF Named, NamedIn
  <2>3. \A n : Conflicts(n) = ConflictsOf(call, n)
    BY DEF Conflicts, ConflictsOf
  <2>4. \A n : United(n) = UnitedOf(call, n)
    BY DEF United, UnitedOf, AskableOf
  <2>5. \A n : RowsBefore(n) = RowsBeforeOf(call, n)
    BY DEF RowsBefore, RowsBeforeOf
  <2>6. result' = "ok" <=> ~conflicts /\ r = "ok"
    BY <2>1 DEF EndMerge, Accounts
  <2> QED
    BY <2>1, <2>2, <2>3, <2>4, <2>5, <2>6, AccountsClosed
<1> QED
  BY <1>2, MergeInvHolds, PTL DEF BulkSpec, MergeAccounts

-----------------------------------------------------------------------------
(* What is read of a text that is joined of two.                           *)
InFront(c, t) == <<c>> \o t

LEMMA CharJoined ==
  ASSUME NEW U, NEW c \in U, NEW t \in Seq(U)
  PROVE  /\ InFront(c, t) \in Seq(U) /\ Len(InFront(c, t)) = Len(t) + 1 /\ Len(t) \in Nat
         /\ InFront(c, t)[1] = c /\ \A i \in 1 .. Len(t) : InFront(c, t)[i + 1] = t[i]
         /\ InFront(c, t) # <<>> /\ Head(InFront(c, t)) = c /\ Tail(InFront(c, t)) = t
<1>1. <<c>> \in Seq(U) /\ Len(<<c>>) = 1 /\ <<c>>[1] = c /\ Len(t) \in Nat
  BY LenProperties
<1>2. PICK s : s = InFront(c, t)
  OBVIOUS
<1>3. s \in Seq(U) /\ Len(s) = Len(t) + 1 /\ \A i \in 1 .. Len(t) + 1 : s[i] = IF i <= 1 THEN c ELSE t[i - 1]
  <2>1. \A i \in 1 .. 1 + Len(t) : InFront(c, t)[i] = IF i <= 1 THEN <<c>>[i] ELSE t[i - 1]
    BY <1>1, ConcatProperties DEF InFront
  <2>2. InFront(c, t) \in Seq(U) /\ Len(InFront(c, t)) = 1 + Len(t)
    BY <1>1, ConcatProperties DEF InFront
  <2> QED
    BY <1>1, <1>2, <2>1, <2>2
<1>4. s[1] = c /\ \A i \in 1 .. Len(t) : s[i + 1] = t[i]
  BY <1>1, <1>3
<1>5. s # <<>>
  BY <1>1, <1>3, EmptySeq
<1>6. Head(s) = c
  BY <1>3, <1>4, <1>5
<1>7. PICK u : u = Tail(s)
  OBVIOUS
<1>8. u \in Seq(U) /\ Len(u) = Len(t) /\ \A i \in 1 .. Len(u) : u[i] = s[i + 1]
  BY <1>1, <1>3, <1>5, <1>7, HeadTailProperties
<1>9. u = t
  BY <1>4, <1>8, SeqEqual
<1> QED
  BY <1>1, <1>2, <1>3, <1>4, <1>5, <1>6, <1>7, <1>9

(* Where the characters of a joined text are.                              *)
Joined(f, t, s) ==
  /\ Len(f) \in Nat /\ Len(t) \in Nat /\ Len(s) = Len(f) + Len(t)
  /\ \A i \in 1 .. Len(f) : s[i] = f[i]
  /\ \A j \in 1 .. Len(t) : s[Len(f) + j] = t[j]
  /\ \A i \in 1 .. Len(s) : i \in 1 .. Len(f) \/ \E j \in 1 .. Len(t) : i = Len(f) + j

LEMMA JoinIs ==
  ASSUME NEW U, NEW f \in Seq(U), NEW t \in Seq(U), NEW s, s = f \o t
  PROVE  s \in Seq(U) /\ Joined(f, t, s)
<1>1. Len(f) \in Nat /\ Len(t) \in Nat
  BY LenProperties
<1>2. PICK a \in Nat : a = Len(f)
  BY <1>1
<1>3. PICK b \in Nat : b = Len(t)
  BY <1>1
<1>4. s \in Seq(U) /\ Len(s) = a + b /\ \A i \in 1 .. a + b : s[i] = IF i <= a THEN f[i] ELSE t[i - a]
  BY <1>2, <1>3, ConcatProperties
<1>5. \A i \in 1 .. a : s[i] = f[i]
  BY <1>4
<1>6. ASSUME NEW j \in 1 .. b
      PROVE  s[a + j] = t[j]
  <2>1. PICK i \in Nat : i = a + j
    OBVIOUS
  <2>2. i \in 1 .. a + b /\ ~(i <= a) /\ i - a = j
    BY <2>1
  <2>3. s[i] = t[i - a]
    BY <1>4, <2>2
  <2> QED
    BY <2>1, <2>2, <2>3
<1>7. ASSUME NEW i \in 1 .. a + b
      PROVE  i \in 1 .. a \/ \E j \in 1 .. b : i = a + j
  <2>1. i > a => i - a \in 1 .. b /\ i = a + (i - a)
    OBVIOUS
  <2> QED
    BY <2>1
<1> QED
  BY <1>1, <1>2, <1>3, <1>4, <1>5, <1>6, <1>7 DEF Joined

Apart(f, chars) == Range(f) \cap chars = {}

LEMMA UpToJoin ==
  ASSUME NEW U, NEW f \in Seq(U), NEW t \in Seq(U), NEW chars, Apart(f, chars)
  PROVE  UpTo(f \o t, chars) = f \o UpTo(t, chars)
<1>1. Len(f) \in Nat /\ Len(t) \in Nat /\ \A i \in 1 .. Len(f) : f[i] \notin chars
  BY TextOver, TextIs DEF Apart
<1>2. PICK s : s = f \o t
  OBVIOUS
<1>3. /\ s \in Seq(U) /\ Len(s) = Len(f) + Len(t)
      /\ \A i \in 1 .. Len(f) + Len(t) : s[i] = IF i <= Len(f) THEN f[i] ELSE t[i - Len(f)]
  BY <1>2, ConcatProperties
<1>4. PICK m : CutAt(m, s, chars) /\ UpTo(s, chars) = IF m = 0 THEN s ELSE SubSeq(s, 1, m - 1)
  BY <1>3, TextOver, UpToIs
<1>5. PICK n : CutAt(n, t, chars) /\ UpTo(t, chars) = IF n = 0 THEN t ELSE SubSeq(t, 1, n - 1)
  BY TextOver, UpToIs
<1>6. m \in 0 .. Len(s) /\ n \in 0 .. Len(t)
  BY <1>4, <1>5 DEF CutAt
<1>7. CASE n = 0
  <2>1. \A i \in 1 .. Len(t) : t[i] \notin chars
    BY <1>5, <1>7 DEF CutAt
  <2>2. ASSUME NEW i \in 1 .. Len(s)
        PROVE  s[i] \notin chars
    <3>1. Joined(f, t, s)
      BY <1>2, JoinIs
    <3> QED
      BY <1>1, <2>1, <3>1 DEF Joined
  <2>3. m = 0
    BY <1>1, <1>3, <1>4, <1>6, <2>2 DEF CutAt
  <2> QED
    BY <1>2, <1>4, <1>5, <1>7, <2>3
<1>8. CASE n # 0
  <2>1. n \in 1 .. Len(t) /\ t[n] \in chars /\ \A i \in 1 .. n - 1 : t[i] \notin chars
    BY <1>1, <1>5, <1>6, <1>8 DEF CutAt
  <2>2. PICK k \in Nat : k = Len(f) + n
    BY <1>1, <2>1
  <2>3. k \in 1 .. Len(s) /\ s[k] \in chars
    BY <1>1, <1>3, <2>1, <2>2
  <2>4. ASSUME NEW i \in 1 .. k - 1
        PROVE  /\ i \in 1 .. Len(s) /\ s[i] \notin chars
               /\ s[i] = IF i <= Len(f) THEN f[i] ELSE t[i - Len(f)]
    <3>1. i \in 1 .. Len(s) /\ s[i] = IF i <= Len(f) THEN f[i] ELSE t[i - Len(f)]
      BY <1>1, <1>3, <2>1, <2>2
    <3>2. CASE i <= Len(f)
      BY <1>1, <3>1, <3>2
    <3>3. CASE i > Len(f)
      <4>1. i - Len(f) \in 1 .. n - 1
        BY <1>1, <2>1, <2>2, <3>3
      <4> QED
        BY <1>1, <2>1, <3>1, <3>3, <4>1
    <3> QED
      BY <1>1, <3>1, <3>2, <3>3
  <2>5. m = k
    <3>1. m # 0
      BY <1>4, <2>3 DEF CutAt
    <3>2. s[m] \in chars /\ \A i \in 1 .. m - 1 : s[i] \notin chars
      BY <1>4, <3>1 DEF CutAt
    <3>3. ~(m < k)
      BY <1>1, <1>3, <1>6, <2>4, <3>1, <3>2
    <3>4. ~(k < m)
      <4>1. k < m => k \in 1 .. m - 1
        BY <1>1, <1>3, <1>6, <2>3
      <4> QED
        BY <2>3, <3>2, <4>1
    <3> QED
      BY <1>1, <1>3, <1>6, <2>2, <3>3, <3>4
  <2>6. PICK p : p = SubSeq(s, 1, k - 1)
    OBVIOUS
  <2>7. PICK q : q = SubSeq(t, 1, n - 1)
    OBVIOUS
  <2>8. p \in Seq(U) /\ Len(p) = k - 1 /\ \A i \in 1 .. k - 1 : p[i] = s[i]
    <3>1. \A i \in 1 .. k - 1 : s[i] \in U
      BY <1>3, <2>4, ElementOfSeq
    <3>2. /\ p \in Seq(U) /\ Len(p) = IF 1 <= k - 1 THEN k - 1 - 1 + 1 ELSE 0
          /\ \A i \in 1 .. k - 1 - 1 + 1 : p[i] = s[1 + i - 1]
      BY <2>2, <2>6, <3>1, SubSeqProperties
    <3> QED
      BY <2>2, <2>3, <3>2
  <2>9. q \in Seq(U) /\ Len(q) = n - 1 /\ \A i \in 1 .. n - 1 : q[i] = t[i]
    <3>1. \A i \in 1 .. n - 1 : t[i] \in U
      BY <1>1, <2>1, ElementOfSeq
    <3>2. /\ q \in Seq(U) /\ Len(q) = IF 1 <= n - 1 THEN n - 1 - 1 + 1 ELSE 0
          /\ \A i \in 1 .. n - 1 - 1 + 1 : q[i] = t[1 + i - 1]
      BY <2>1, <2>7, <3>1, SubSeqProperties
    <3> QED
      BY <2>1, <3>2
  <2>10. PICK w : w = f \o q
    OBVIOUS
  <2>11. /\ w \in Seq(U) /\ Len(w) = Len(f) + Len(q)
         /\ \A i \in 1 .. Len(f) + Len(q) : w[i] = IF i <= Len(f) THEN f[i] ELSE q[i - Len(f)]
    BY <2>9, <2>10, ConcatProperties
  <2>12. Len(p) = Len(w)
    BY <1>1, <2>1, <2>2, <2>8, <2>9, <2>11
  <2>13. ASSUME NEW i \in 1 .. Len(p)
         PROVE  p[i] = w[i]
    <3>1. i \in 1 .. k - 1 /\ i \in 1 .. Len(f) + Len(q)
      BY <2>2, <2>8, <2>11, <2>12
    <3>2. p[i] = IF i <= Len(f) THEN f[i] ELSE t[i - Len(f)]
      BY <2>4, <2>8, <3>1
    <3>3. w[i] = IF i <= Len(f) THEN f[i] ELSE q[i - Len(f)]
      BY <2>11, <3>1
    <3>4. CASE i <= Len(f)
      BY <3>2, <3>3, <3>4
    <3>5. CASE i > Len(f)
      <4>1. i - Len(f) \in 1 .. n - 1
        BY <1>1, <2>1, <2>2, <3>1, <3>5
      <4> QED
        BY <1>1, <2>9, <3>1, <3>2, <3>3, <3>5, <4>1
    <3> QED
      BY <1>1, <3>1, <3>4, <3>5
  <2>14. p = w
    BY <2>8, <2>11, <2>12, <2>13, SeqEqual
  <2>15. UpTo(s, chars) = p /\ UpTo(t, chars) = q
    BY <1>4, <1>5, <1>8, <2>1, <2>2, <2>3, <2>5, <2>6, <2>7
  <2> QED
    BY <1>2, <2>10, <2>14, <2>15
<1> QED
  BY <1>7, <1>8

LEMMA UpToChar ==
  ASSUME NEW U, NEW c \in U, NEW t \in Seq(U), NEW chars, c \in chars
  PROVE  UpTo(InFront(c, t), chars) = <<>>
<1>1. PICK s : s = InFront(c, t)
  OBVIOUS
<1>2. s \in Seq(U) /\ Len(s) = Len(t) + 1 /\ Len(t) \in Nat /\ s[1] = c
  BY <1>1, CharJoined
<1>3. PICK n : CutAt(n, s, chars) /\ UpTo(s, chars) = IF n = 0 THEN s ELSE SubSeq(s, 1, n - 1)
  BY <1>2, TextOver, UpToIs
<1>4. n = 1
  BY <1>2, <1>3 DEF CutAt
<1>5. SubSeq(s, 1, 0) = <<>>
  BY SubSeqEmpty
<1> QED
  BY <1>1, <1>3, <1>4, <1>5

LEMMA RestOfJoin ==
  ASSUME NEW U, NEW f \in Seq(U), NEW t \in Seq(U)
  PROVE  SubSeq(f \o t, Len(f) + 1, Len(f \o t)) = t
<1>1. Len(f) \in Nat /\ Len(t) \in Nat
  BY LenProperties
<1>2. PICK s : s = f \o t
  OBVIOUS
<1>3. /\ s \in Seq(U) /\ Len(s) = Len(f) + Len(t)
      /\ \A i \in 1 .. Len(f) + Len(t) : s[i] = IF i <= Len(f) THEN f[i] ELSE t[i - Len(f)]
  BY <1>2, ConcatProperties
<1>4. PICK a \in Nat : a = Len(f) + 1
  BY <1>1
<1>5. PICK b \in Nat : b = Len(s)
  BY <1>1, <1>3
<1>6. PICK p : p = SubSeq(s, a, b)
  OBVIOUS
<1>7. \A i \in a .. b : s[i] \in U
  BY <1>3, <1>4, <1>5, <1>1, ElementOfSeq
<1>8. /\ p \in Seq(U) /\ Len(p) = IF a <= b THEN b - a + 1 ELSE 0
      /\ \A i \in 1 .. b - a + 1 : p[i] = s[a + i - 1]
  BY <1>6, <1>7, SubSeqProperties
<1>9. Len(p) = Len(t)
  BY <1>1, <1>3, <1>4, <1>5, <1>8
<1>10. ASSUME NEW i \in 1 .. Len(p)
       PROVE  p[i] = t[i]
  <2>1. i \in 1 .. b - a + 1 /\ a + i - 1 = Len(f) + i /\ i \in 1 .. Len(t)
    BY <1>1, <1>3, <1>4, <1>5, <1>9
  <2>2. p[i] = s[Len(f) + i]
    BY <1>8, <2>1
  <2>3. s[Len(f) + i] = t[i]
    BY <1>2, <2>1, JoinIs DEF Joined
  <2> QED
    BY <2>2, <2>3
<1>11. p = t
  BY <1>8, <1>9, <1>10, SeqEqual
<1> QED
  BY <1>2, <1>4, <1>5, <1>6, <1>11

LEMMA FromJoin ==
  ASSUME NEW U, NEW f \in Seq(U), NEW c \in U, NEW t \in Seq(U), NEW chars, c \in chars, Apart(f, chars)
  PROVE  UpTo(f \o InFront(c, t), chars) = f /\ From(f \o InFront(c, t), chars) = InFront(c, t)
<1>1. InFront(c, t) \in Seq(U)
  BY CharJoined
<1>2. UpTo(InFront(c, t), chars) = <<>>
  BY UpToChar
<1>3. UpTo(f \o InFront(c, t), chars) = f \o UpTo(InFront(c, t), chars)
  BY <1>1, UpToJoin
<1>4. f \o <<>> = f
  BY ConcatEmptySeq
<1>5. UpTo(f \o InFront(c, t), chars) = f
  BY <1>2, <1>3, <1>4
<1>6. SubSeq(f \o InFront(c, t), Len(f) + 1, Len(f \o InFront(c, t))) = InFront(c, t)
  BY <1>1, RestOfJoin
<1>7. From(f \o InFront(c, t), chars) = InFront(c, t)
  BY <1>5, <1>6 DEF From
<1> QED
  BY <1>5, <1>7

LEMMA BehindStays ==
  ASSUME NEW U, NEW t \in Seq(U), NEW chars, t = <<>> \/ Head(t) \notin chars
  PROVE  Behind(t, chars) = t
<1>1. IsText(t) /\ Len(t) \in Nat
  BY TextOver, LenProperties
<1>2. PICK n : CutAt(n, t, Range(t) \ chars) /\ Behind(t, chars) = IF n = 0 THEN <<>> ELSE SubSeq(t, n, Len(t))
  BY <1>1, BehindIs
<1>3. CASE t = <<>>
  <2>1. n = 0
    BY <1>2, <1>3, EmptySeq DEF CutAt
  <2> QED
    BY <1>2, <1>3, <2>1
<1>4. CASE t # <<>>
  <2>1. Len(t) > 0 /\ t[1] \notin chars /\ t[1] \in Range(t)
    BY <1>1, <1>4, EmptySeq, TextIs
  <2>2. n = 1
    BY <1>1, <1>2, <2>1 DEF CutAt
  <2>3. SubSeq(t, 1, Len(t)) = t
    BY SubSeqFull
  <2> QED
    BY <1>2, <2>2, <2>3
<1> QED
  BY <1>3, <1>4

LEMMA BehindDrops ==
  ASSUME NEW U, NEW c \in U, NEW t \in Seq(U), NEW chars, c \in chars
  PROVE  Behind(InFront(c, t), chars) = Behind(t, chars)
<1>1. PICK s : s = InFront(c, t)
  OBVIOUS
<1>2. /\ s \in Seq(U) /\ Len(s) = Len(t) + 1 /\ Len(t) \in Nat /\ s[1] = c
      /\ \A i \in 1 .. Len(t) : s[i + 1] = t[i]
  <2>1. InFront(c, t) \in Seq(U) /\ Len(InFront(c, t)) = Len(t) + 1 /\ Len(t) \in Nat /\ InFront(c, t)[1] = c
    BY CharJoined
  <2>2. \A i \in 1 .. Len(t) : InFront(c, t)[i + 1] = t[i]
    BY CharJoined
  <2> QED
    BY <1>1, <2>1, <2>2
<1>3. PICK m : CutAt(m, s, Range(s) \ chars) /\ Behind(s, chars) = IF m = 0 THEN <<>> ELSE SubSeq(s, m, Len(s))
  BY <1>2, TextOver, BehindIs
<1>4. PICK n : CutAt(n, t, Range(t) \ chars) /\ Behind(t, chars) = IF n = 0 THEN <<>> ELSE SubSeq(t, n, Len(t))
  BY TextOver, BehindIs
<1>5. m \in 0 .. Len(s) /\ n \in 0 .. Len(t)
  BY <1>3, <1>4 DEF CutAt
<1>6. /\ \A i \in 1 .. Len(t) : t[i] \in Range(t) /\ i + 1 \in 1 .. Len(s)
      /\ \A i \in 1 .. Len(s) : s[i] \in Range(s)
  BY <1>2, TextOver, TextIs
<1>7. \A i \in 1 .. Len(s) : i = 1 \/ \E j \in 1 .. Len(t) : i = j + 1
  <2> SUFFICES ASSUME NEW i \in 1 .. Len(s), i # 1
               PROVE  i - 1 \in 1 .. Len(t) /\ i = (i - 1) + 1
    OBVIOUS
  <2> QED
    BY <1>2
<1>8. CASE n = 0
  <2>1. \A i \in 1 .. Len(t) : t[i] \in chars
    BY <1>4, <1>6, <1>8 DEF CutAt
  <2>2. \A i \in 1 .. Len(s) : s[i] \in chars
    BY <1>2, <1>7, <2>1
  <2>3. m = 0
    BY <1>2, <1>3, <1>5, <2>2 DEF CutAt
  <2> QED
    BY <1>1, <1>3, <1>4, <1>8, <2>3
<1>9. CASE n # 0
  <2>1. n \in 1 .. Len(t) /\ t[n] \notin chars /\ \A i \in 1 .. n - 1 : t[i] \notin Range(t) \ chars
    BY <1>2, <1>4, <1>5, <1>9 DEF CutAt
  <2>2. \A i \in 1 .. n - 1 : i \in 1 .. Len(t) /\ t[i] \in chars
    BY <1>2, <1>6, <2>1
  <2>3. s[n + 1] \in Range(s) \ chars /\ n + 1 \in 1 .. Len(s)
    BY <1>2, <1>6, <2>1
  <2>4. ASSUME NEW i \in 1 .. n
        PROVE  s[i] \in chars
    <3>1. i \in 1 .. Len(s)
      BY <1>2, <2>1
    <3>2. i = 1 \/ \E j \in 1 .. n - 1 : i = j + 1
      BY <1>7, <2>1, <3>1
    <3> QED
      BY <1>2, <2>2, <3>2
  <2>5. m # 0 /\ s[m] \notin chars /\ \A i \in 1 .. m - 1 : s[i] \notin Range(s) \ chars
    BY <1>3, <2>3 DEF CutAt
  <2>6. m = n + 1
    <3>1. ~(m < n + 1)
      BY <1>2, <1>5, <2>1, <2>4, <2>5
    <3>2. ~(n + 1 < m)
      BY <1>2, <1>5, <2>1, <2>3, <2>5
    <3> QED
      BY <1>2, <1>5, <2>1, <3>1, <3>2
  <2>7. SubSeq(s, n + 1, Len(s)) = SubSeq(t, n, Len(t))
    <3>0. <<c>> \in Seq(U) /\ Len(<<c>>) = 1
      OBVIOUS
    <3>1. PICK one : one = <<c>>
      OBVIOUS
    <3>2. Len(one) = 1 /\ one \in Seq(U)
      BY <3>0, <3>1
    <3>3. PICK from \in Len(one) + 1 .. Len(one) + Len(t) : from = n + 1
      BY <1>2, <2>1, <3>2
    <3>4. PICK last \in Len(one) + 1 .. Len(one) + Len(t) : last = Len(s)
      BY <1>2, <2>1, <3>2
    <3>5. SubSeq(one \o t, from, last) = SubSeq(t, from - Len(one), last - Len(one))
      BY <3>2, SubSeqOfConcat2
    <3>6. from - Len(one) = n /\ last - Len(one) = Len(t)
      BY <1>2, <2>1, <3>2, <3>3, <3>4
    <3> QED
      BY <1>1, <3>1, <3>3, <3>4, <3>5, <3>6 DEF InFront
  <2>8. Behind(s, chars) = SubSeq(s, n + 1, Len(s)) /\ Behind(t, chars) = SubSeq(t, n, Len(t))
    BY <1>3, <1>4, <1>9, <2>5, <2>6
  <2> QED
    BY <1>1, <2>7, <2>8
<1> QED
  BY <1>8, <1>9

LEMMA UnmarkedSame ==
  ASSUME NEW U, NEW f \in Seq(U), Mark \notin Range(f)
  PROVE  Unmarked(f) = f
<1> DEFINE n == Len(f)
           pieces == [i \in DOMAIN f |-> <<f[i]>>]
<1>1. DOMAIN f = 1 .. n /\ n \in Nat /\ \A i \in 1 .. n : f[i] \in U /\ f[i] # Mark
  BY LenProperties, TextOver, TextIs, ElementOfSeq
<1>2. Unmarked(f) = FlattenSeq(pieces)
  <2>1. [i \in DOMAIN f |-> IF f[i] = Mark THEN LineEnd ELSE <<f[i]>>] = pieces
    BY <1>1
  <2> QED
    BY <2>1 DEF Unmarked
<1>3. pieces \in [1 .. n -> Seq(U)] /\ \A i \in 1 .. n : pieces[i] = <<f[i]>>
  BY <1>1
<1> HIDE DEF pieces, n
<1>4. pieces \in Seq(Seq(U)) /\ Len(pieces) = n
  <2>1. pieces \in Seq(Seq(U))
    BY <1>1, <1>3, SeqDef
  <2> QED
    BY <1>1, <1>3, <2>1, LenProperties
<1>5. PICK pre \in [0 .. n -> Seq(U)] : PrefixesOf(pieces, pre) /\ FlattenSeq(pieces) = pre[n]
  BY <1>4, FlattenPrefixes
<1> DEFINE Good == {k \in 0 .. n : Len(pre[k]) = k /\ \A j \in 1 .. k : pre[k][j] = f[j]}
<1>6. 0 \in Good
  BY <1>1, <1>5 DEF PrefixesOf
<1>7. ASSUME NEW k \in 1 .. n, k - 1 \in Good
      PROVE  k \in Good
  <2>1. PICK j \in 0 .. n : j = k - 1
    BY <1>7
  <2>2. pre[k] = pre[j] \o <<f[k]>>
    BY <1>3, <1>4, <1>5, <2>1 DEF PrefixesOf
  <2>3. pre[j] \in Seq(U) /\ Len(pre[j]) = j /\ \A i \in 1 .. j : pre[j][i] = f[i]
    BY <1>5, <1>7, <2>1
  <2>4. <<f[k]>> \in Seq(U) /\ Len(<<f[k]>>) = 1 /\ <<f[k]>>[1] = f[k]
    BY <1>1
  <2>5. /\ Len(pre[k]) = Len(pre[j]) + 1
        /\ \A i \in 1 .. Len(pre[j]) : pre[k][i] = pre[j][i]
        /\ \A i \in 1 .. Len(<<f[k]>>) : pre[k][Len(pre[j]) + i] = <<f[k]>>[i]
    <3>1. Joined(pre[j], <<f[k]>>, pre[k])
      BY <2>2, <2>3, <2>4, JoinIs
    <3> QED
      BY <2>4, <3>1 DEF Joined
  <2>6. Len(pre[k]) = k /\ pre[k][k] = f[k]
    <3>1. pre[k][j + 1] = f[k]
      BY <2>3, <2>4, <2>5
    <3> QED
      BY <2>1, <2>3, <2>5, <3>1
  <2>7. \A i \in 1 .. k : i \in 1 .. j \/ i = k
    BY <2>1
  <2> QED
    BY <2>3, <2>5, <2>6, <2>7
<1>8. n \in Good
  <2>1. n \in 0 .. n
    BY <1>1
  <2> HIDE DEF Good
  <2> QED
    BY <1>1, <1>6, <1>7, <2>1, UpToLast
<1>9. pre[n] = f
  <2>1. pre[n] \in Seq(U) /\ Len(pre[n]) = Len(f) /\ \A j \in 1 .. Len(pre[n]) : pre[n][j] = f[j]
    BY <1>1, <1>5, <1>8 DEF n
  <2> QED
    BY <2>1, SeqEqual
<1> QED
  BY <1>2, <1>5, <1>9

LEMMA TabsOfJoin ==
  ASSUME NEW U, NEW f \in Seq(U), NEW t \in Seq(U)
  PROVE  Cardinality(Tabs(f \o t)) = Cardinality(Tabs(f)) + Cardinality(Tabs(t))
<1>1. PICK s : s = f \o t
  OBVIOUS
<1>2. PICK a \in Nat : a = Len(f)
  BY LenProperties
<1>3. PICK b \in Nat : b = Len(t)
  BY LenProperties
<1>4. DOMAIN f = 1 .. a /\ DOMAIN t = 1 .. b
  BY <1>2, <1>3, LenProperties
<1>5. /\ s \in Seq(U) /\ Len(s) = a + b
      /\ \A i \in 1 .. a : s[i] = f[i]
      /\ \A j \in 1 .. b : s[a + j] = t[j]
      /\ \A i \in 1 .. Len(s) : i \in 1 .. a \/ \E j \in 1 .. b : i = a + j
  <2>1. s \in Seq(U) /\ Joined(f, t, s)
    BY <1>1, JoinIs
  <2> QED
    BY <1>2, <1>3, <2>1 DEF Joined
<1>6. DOMAIN s = 1 .. a + b
  BY <1>5, LenProperties
<1> DEFINE later == {a + j : j \in Tabs(t)}
           shift == [j \in Tabs(t) |-> a + j]
<1>7. Tabs(f) \subseteq 1 .. a /\ Tabs(t) \subseteq 1 .. b
  BY <1>4 DEF Tabs
<1>8. Tabs(s) = Tabs(f) \cup later
  <2>1. ASSUME NEW i \in Tabs(s)
        PROVE  i \in Tabs(f) \cup later
    BY <1>4, <1>5, <1>6, <2>1 DEF Tabs
  <2>2. ASSUME NEW i \in Tabs(f)
        PROVE  i \in Tabs(s)
    BY <1>4, <1>5, <1>6, <2>2 DEF Tabs
  <2>3. ASSUME NEW j \in Tabs(t)
        PROVE  a + j \in Tabs(s)
    <3>1. j \in 1 .. b /\ t[j] = Tab
      BY <1>4 DEF Tabs
    <3>2. a + j \in 1 .. a + b /\ s[a + j] = Tab
      BY <1>5, <3>1
    <3> QED
      BY <1>6, <3>2 DEF Tabs
  <2> QED
    BY <2>1, <2>2, <2>3
<1>9. Tabs(f) \cap later = {}
  BY <1>7
<1>10. IsFiniteSet(Tabs(f)) /\ IsFiniteSet(Tabs(t)) /\ Cardinality(Tabs(f)) \in Nat
  BY TextOver, TabsCounted
<1>11. IsFiniteSet(later) /\ Cardinality(later) = Cardinality(Tabs(t))
  <2>1. shift \in Bijection(Tabs(t), later)
    <3>1. shift \in [Tabs(t) -> later]
      OBVIOUS
    <3>2. \A i \in Tabs(t), j \in Tabs(t) : shift[i] = shift[j] => i = j
      BY <1>7
    <3>3. \A x \in later : \E j \in Tabs(t) : shift[j] = x
      OBVIOUS
    <3> HIDE DEF shift, later
    <3> QED
      BY <3>1, <3>2, <3>3 DEF Bijection, Injection, IsInjective, Surjection
  <2> HIDE DEF shift, later
  <2> QED
    BY <1>10, <2>1, FS_Bijection DEF ExistsBijection
<1> HIDE DEF later
<1>12. /\ Cardinality(Tabs(f) \cup later) = Cardinality(Tabs(f)) + Cardinality(later) - Cardinality(Tabs(f) \cap later)
       /\ Cardinality(Tabs(f) \cap later) = 0 /\ Cardinality(later) \in Nat
  BY <1>9, <1>10, <1>11, FS_Union, FS_EmptySet, FS_CardinalityType
<1> QED
  BY <1>1, <1>8, <1>10, <1>11, <1>12

-----------------------------------------------------------------------------
(* A value that can be told from what separates values, and a text that    *)
(* does not begin with the end of a line.                                  *)
Unbroken(f) == Range(f) \cap {Tab, Newline, Return, Mark} = {}
NoEnd(t) == t = <<>> \/ Head(t) \notin Ends

LEMMA HeadOfJoin ==
  ASSUME NEW U, NEW f \in Seq(U), f # <<>>, NEW t \in Seq(U)
  PROVE  f \o t \in Seq(U) /\ f \o t # <<>> /\ Head(f \o t) \in Range(f)
<1>1. PICK s : s = f \o t
  OBVIOUS
<1>2. s \in Seq(U) /\ Joined(f, t, s)
  BY <1>1, JoinIs
<1>3. Len(f) \in Nat \ {0} /\ f[1] \in Range(f)
  <2>1. Len(f) \in Nat \ {0}
    BY EmptySeq
  <2> QED
    BY <2>1, TextOver, TextIs
<1>4. s[1] = f[1] /\ Len(s) # 0
  BY <1>2, <1>3 DEF Joined
<1>5. s # <<>> /\ Head(s) = s[1]
  BY <1>2, <1>4, EmptySeq
<1> QED
  BY <1>1, <1>2, <1>3, <1>4, <1>5

LEMMA LineEndIs ==
  ASSUME NEW U, Separators \subseteq U, NEW t \in Seq(U)
  PROVE  LineEnd \o t = InFront(Return, InFront(Newline, t))
<1>1. <<Return>> \in Seq(U) /\ <<Newline>> \in Seq(U)
  BY DEF Separators
<1>2. LineEnd = <<Return>> \o <<Newline>>
  BY DEF LineEnd
<1>3. Associate(<<Return>>, <<Newline>>, t)
  BY <1>1, JoinAssociates
<1> QED
  BY <1>2, <1>3 DEF Associate, InFront

(* A value before a tab, and one at the end of the line.                   *)
LEMMA FieldRead ==
  ASSUME NEW U, Separators \subseteq U, NEW f \in Seq(U), Unbroken(f), NEW t \in Seq(U), NEW fields,
         NEW got, got = [fields |-> fields, rest |-> f \o InFront(Tab, t)]
  PROVE  WithField(got) = [fields |-> Append(fields, f), rest |-> t]
<1> DEFINE stops == Ends \cup {Tab}
<1>1. PICK u : u = InFront(Tab, t)
  OBVIOUS
<1>2. u \in Seq(U) /\ u # <<>> /\ Head(u) = Tab /\ Tail(u) = t /\ Tab \in U
  BY <1>1, CharJoined DEF Separators
<1>3. PICK s : s = f \o u
  OBVIOUS
<1>4. s \in Seq(U) /\ s # <<>> /\ Head(s) # Return
  <2>1. CASE f = <<>>
    <3>1. s = u
      BY <1>2, <1>3, <2>1, ConcatEmptySeq
    <3> QED
      BY <1>2, <3>1 DEF Tab, Return
  <2>2. CASE f # <<>>
    BY <1>2, <1>3, <2>2, HeadOfJoin DEF Unbroken
  <2> QED
    BY <2>1, <2>2
<1>5. Behind(s, {Return}) = s
  BY <1>4, BehindStays
<1>6. Tab \in stops /\ Apart(f, stops) /\ Mark \notin Range(f)
  BY DEF Unbroken, Ends, Apart
<1> HIDE DEF stops
<1>7. UpTo(s, stops) = f /\ From(s, stops) = u
  BY <1>1, <1>2, <1>3, <1>6, FromJoin
<1>8. Unmarked(f) = f
  BY <1>6, UnmarkedSame
<1>9. BehindSeparator(u) = t
  <2>1. Tab \notin Ends
    BY DEF Tab, Ends, Newline, Return
  <2> QED
    BY <1>2, <2>1 DEF BehindSeparator
<1>10. got.rest = s /\ got.fields = fields
  BY <1>1, <1>3
<1> QED
  BY <1>5, <1>7, <1>8, <1>9, <1>10 DEF WithField, stops

LEMMA LastFieldRead ==
  ASSUME NEW U, Separators \subseteq U, NEW f \in Seq(U), Unbroken(f), NEW t \in Seq(U), NoEnd(t), NEW fields,
         NEW got, got = [fields |-> fields, rest |-> f \o (LineEnd \o t)]
  PROVE  WithField(got) = [fields |-> Append(fields, f), rest |-> t]
<1> DEFINE stops == Ends \cup {Tab}
<1>1. PICK v : v = InFront(Newline, t)
  OBVIOUS
<1>2. PICK u : u = InFront(Return, v)
  OBVIOUS
<1>3. Return \in U /\ Newline \in U
  BY DEF Separators
<1>4. v \in Seq(U) /\ v # <<>> /\ Head(v) = Newline
  BY <1>1, <1>3, CharJoined
<1>5. u \in Seq(U) /\ u # <<>> /\ Head(u) = Return
  <2>1. InFront(Return, v) \in Seq(U) /\ InFront(Return, v) # <<>> /\ Head(InFront(Return, v)) = Return
    BY <1>3, <1>4, CharJoined
  <2> QED
    BY <1>2, <2>1
<1>6. LineEnd \o t = u
  BY <1>1, <1>2, LineEndIs
<1>7. Newline \in Ends /\ Return \in Ends /\ Newline # Return
  BY DEF Ends, Newline, Return
<1>8. Behind(v, Ends) = t /\ Behind(u, Ends) = t
  <2>1. Behind(t, Ends) = t
    BY BehindStays DEF NoEnd
  <2>2. Behind(v, Ends) = Behind(t, Ends)
    BY <1>1, <1>3, <1>7, BehindDrops
  <2>3. Behind(u, Ends) = Behind(v, Ends)
    BY <1>2, <1>3, <1>4, <1>7, BehindDrops
  <2> QED
    BY <2>1, <2>2, <2>3
<1>9. BehindSeparator(u) = t /\ BehindSeparator(v) = t
  BY <1>4, <1>5, <1>7, <1>8 DEF BehindSeparator
<1>10. Return \in stops /\ Newline \in stops /\ Apart(f, stops) /\ Mark \notin Range(f)
  BY DEF Unbroken, Ends, Apart
<1>11. Unmarked(f) = f
  BY <1>10, UnmarkedSame
<1>12. PICK s : s = f \o u
  OBVIOUS
<1> DEFINE start == Behind(s, {Return})
<1> HIDE DEF stops
<1>13. CASE f = <<>>
  <2>1. s = u
    BY <1>5, <1>12, <1>13, ConcatEmptySeq
  <2>2. start = v
    <3>1. Behind(u, {Return}) = Behind(v, {Return})
      BY <1>2, <1>3, <1>4, BehindDrops
    <3>2. Behind(v, {Return}) = v
      BY <1>4, <1>7, BehindStays
    <3> QED
      BY <2>1, <3>1, <3>2
  <2> HIDE DEF start
  <2>3. UpTo(v, stops) = <<>>
    BY <1>1, <1>3, <1>10, UpToChar
  <2>4. From(v, stops) = v
    <3>1. SubSeq(v, 1, Len(v)) = v
      BY <1>4, SubSeqFull
    <3> QED
      BY <2>3, <3>1 DEF From
  <2>5. got.rest = s /\ got.fields = fields
    BY <1>6, <1>12
  <2>6. WithField(got) = [fields |-> Append(fields, Unmarked(UpTo(v, stops))), rest |-> BehindSeparator(From(v, stops))]
    BY <2>2, <2>5 DEF WithField, stops, start
  <2> QED
    BY <1>9, <1>11, <1>13, <2>3, <2>4, <2>6
<1>14. CASE f # <<>>
  <2>1. s \in Seq(U) /\ s # <<>> /\ Head(s) # Return
    BY <1>5, <1>12, <1>14, HeadOfJoin DEF Unbroken
  <2>2. start = s
    BY <2>1, BehindStays
  <2> HIDE DEF start
  <2>3. UpTo(s, stops) = f /\ From(s, stops) = u
    BY <1>2, <1>3, <1>4, <1>10, <1>12, FromJoin
  <2>4. got.rest = s /\ got.fields = fields
    BY <1>6, <1>12
  <2>5. WithField(got) = [fields |-> Append(fields, Unmarked(UpTo(s, stops))), rest |-> BehindSeparator(From(s, stops))]
    BY <2>2, <2>4 DEF WithField, stops, start
  <2> QED
    BY <1>9, <1>11, <2>3, <2>5
<1> QED
  BY <1>13, <1>14

-----------------------------------------------------------------------------
(* Two texts joined, as a word of its own.                                  *)
Cat(s, t) == s \o t

LEMMA CatTyped ==
  ASSUME NEW U, NEW s \in Seq(U), NEW t \in Seq(U)
  PROVE  Cat(s, t) \in Seq(U)
BY ConcatProperties DEF Cat

LEMMA CatAssociates ==
  ASSUME NEW U, NEW s \in Seq(U), NEW t \in Seq(U), NEW u \in Seq(U)
  PROVE  Cat(Cat(s, t), u) = Cat(s, Cat(t, u))
BY JoinAssociates DEF Cat, Associate

LEMMA FourAssociate ==
  ASSUME NEW U, NEW s \in Seq(U), NEW t \in Seq(U), NEW u \in Seq(U), NEW v \in Seq(U)
  PROVE  Cat(Cat(Cat(s, t), u), v) = Cat(s, Cat(t, Cat(u, v)))
<1>1. Cat(s, t) \in Seq(U) /\ Cat(u, v) \in Seq(U)
  BY CatTyped
<1> QED
  BY <1>1, CatAssociates

LEMMA CatEmpty ==
  ASSUME NEW U, NEW s \in Seq(U)
  PROVE  Cat(s, <<>>) = s /\ Cat(<<>>, s) = s
BY ConcatEmptySeq DEF Cat

LEMMA UpToCat ==
  ASSUME NEW U, NEW f \in Seq(U), NEW t \in Seq(U), NEW chars, Apart(f, chars)
  PROVE  UpTo(Cat(f, t), chars) = Cat(f, UpTo(t, chars))
BY UpToJoin DEF Cat

LEMMA TabsOfCat ==
  ASSUME NEW U, NEW f \in Seq(U), NEW t \in Seq(U)
  PROVE  Cardinality(Tabs(Cat(f, t))) = Cardinality(Tabs(f)) + Cardinality(Tabs(t))
BY TabsOfJoin DEF Cat

LEMMA InFrontIs ==
  ASSUME NEW c, NEW t
  PROVE  InFront(c, t) = Cat(<<c>>, t)
BY DEF InFront, Cat

LEMMA LineEndCat ==
  ASSUME NEW U, Separators \subseteq U, NEW t \in Seq(U)
  PROVE  Cat(LineEnd, t) = InFront(Return, InFront(Newline, t))
BY LineEndIs DEF Cat

(* What is left of a line, and of what is behind it, after each value.     *)
LineOf(row, n, at, more) ==
  /\ at[n] = more
  /\ \A i \in 1 .. n : i < n => at[i - 1] = Cat(row[i], InFront(Tab, at[i]))
  /\ at[n - 1] = Cat(row[n], Cat(LineEnd, more))

LinesUp(U, row, n, more) ==
  \E at \in [0 .. n -> Seq(U)] : LineOf(row, n, at, more) /\ at[0] = Cat(TextOfRow(row), more)

LEMMA TextOfRowIs ==
  ASSUME NEW U, Separators \subseteq U, NEW row \in Seq(Seq(U)), NEW n \in Nat \ {0}, n = Len(row), NEW more \in Seq(U)
  PROVE  LinesUp(U, row, n, more)
<1> DEFINE pieces == [i \in DOMAIN row |-> row[i] \o (IF i < Len(row) THEN <<Tab>> ELSE LineEnd)]
<1>1. DOMAIN row = 1 .. n /\ \A i \in 1 .. n : row[i] \in Seq(U)
  BY LenProperties, ElementOfSeq
<1>2. LineEnd \in Seq(U) /\ <<Tab>> \in Seq(U) /\ <<>> \in Seq(U)
  BY DEF LineEnd, Separators
<1>3. \A i \in 1 .. n : pieces[i] = Cat(row[i], IF i < n THEN <<Tab>> ELSE LineEnd)
  BY <1>1 DEF Cat
<1>4. \A i \in 1 .. n : pieces[i] \in Seq(U)
  <2> SUFFICES ASSUME NEW i \in 1 .. n
               PROVE  pieces[i] \in Seq(U)
    OBVIOUS
  <2>1. (IF i < n THEN <<Tab>> ELSE LineEnd) \in Seq(U)
    BY <1>2
  <2> QED
    BY <1>1, <1>3, <2>1, CatTyped
<1>5. pieces \in [1 .. n -> Seq(U)]
  BY <1>1, <1>4
<1>6. TextOfRow(row) = FlattenSeq(pieces)
  BY DEF TextOfRow
<1> HIDE DEF pieces
<1>7. pieces \in Seq(Seq(U)) /\ Len(pieces) = n
  <2>1. pieces \in Seq(Seq(U))
    BY <1>5, SeqDef
  <2> QED
    BY <1>5, <2>1, LenProperties
<1>8. PICK suf \in [0 .. n -> Seq(U)] : SuffixesOf(pieces, suf) /\ FlattenSeq(pieces) = suf[0]
  BY <1>7, FlattenSuffixes
<1> DEFINE at == [k \in 0 .. n |-> Cat(suf[k], more)]
<1>9. \A k \in 0 .. n : suf[k] \in Seq(U) /\ at[k] = Cat(suf[k], more) /\ at[k] \in Seq(U)
  BY <1>8, CatTyped
<1>10. at \in [0 .. n -> Seq(U)] /\ at[0] = Cat(TextOfRow(row), more)
  BY <1>6, <1>8, <1>9
<1> HIDE DEF at
<1>11. suf[n] = <<>> /\ \A i \in 1 .. n : suf[i - 1] = Cat(pieces[i], suf[i])
  BY <1>7, <1>8 DEF SuffixesOf, Cat
<1>12. at[n] = more
  <2>1. n \in 0 .. n
    OBVIOUS
  <2>2. Cat(<<>>, more) = more
    BY CatEmpty
  <2> QED
    BY <1>9, <1>11, <2>1, <2>2
<1>13. ASSUME NEW i \in 1 .. n, i < n
       PROVE  at[i - 1] = Cat(row[i], InFront(Tab, at[i]))
  <2>1. i \in 0 .. n /\ i - 1 \in 0 .. n
    OBVIOUS
  <2>2. suf[i - 1] = Cat(Cat(row[i], <<Tab>>), suf[i])
    BY <1>3, <1>11, <1>13
  <2>3. Cat(Cat(Cat(row[i], <<Tab>>), suf[i]), more) = Cat(row[i], Cat(<<Tab>>, Cat(suf[i], more)))
    <3>1. PICK f \in Seq(U), one \in Seq(U), h \in Seq(U) : f = row[i] /\ one = <<Tab>> /\ h = suf[i]
      BY <1>1, <1>2, <1>9, <2>1
    <3>2. Cat(Cat(Cat(f, one), h), more) = Cat(f, Cat(one, Cat(h, more)))
      BY FourAssociate
    <3> QED
      BY <3>1, <3>2
  <2>4. at[i - 1] = Cat(suf[i - 1], more) /\ at[i] = Cat(suf[i], more)
    BY <1>9, <2>1
  <2> QED
    BY <2>2, <2>3, <2>4, InFrontIs
<1>14. at[n - 1] = Cat(row[n], Cat(LineEnd, more))
  <2>1. n \in 1 .. n /\ n - 1 \in 0 .. n /\ ~(n < n)
    OBVIOUS
  <2>2. suf[n - 1] = Cat(Cat(row[n], LineEnd), <<>>)
    BY <1>3, <1>11, <2>1
  <2>3. Cat(Cat(Cat(row[n], LineEnd), <<>>), more) = Cat(row[n], Cat(LineEnd, Cat(<<>>, more)))
    <3>1. PICK f \in Seq(U), end \in Seq(U), none \in Seq(U) : f = row[n] /\ end = LineEnd /\ none = <<>>
      BY <1>1, <1>2, <2>1
    <3>2. Cat(Cat(Cat(f, end), none), more) = Cat(f, Cat(end, Cat(none, more)))
      BY FourAssociate
    <3> QED
      BY <3>1, <3>2
  <2>4. at[n - 1] = Cat(suf[n - 1], more)
    BY <1>9, <2>1
  <2>5. Cat(<<>>, more) = more
    BY CatEmpty
  <2> QED
    BY <2>2, <2>3, <2>4, <2>5
<1>15. LineOf(row, n, at, more)
  BY <1>12, <1>13, <1>14 DEF LineOf
<1> QED
  BY <1>10, <1>15 DEF LinesUp

LEMMA UpToFront ==
  ASSUME NEW U, NEW c \in U, NEW t \in Seq(U), NEW chars, c \notin chars
  PROVE  UpTo(InFront(c, t), chars) = InFront(c, UpTo(t, chars))
<1>1. <<c>> \in Seq(U) /\ Apart(<<c>>, chars)
  BY OneIsText DEF Apart
<1>2. PICK one : one = <<c>>
  OBVIOUS
<1>3. one \in Seq(U) /\ Apart(one, chars)
  BY <1>1, <1>2
<1>4. UpTo(Cat(one, t), chars) = Cat(one, UpTo(t, chars))
  BY ONLY <1>3, UpToCat, t \in Seq(U)
<1> QED
  BY <1>2, <1>4, InFrontIs

LEMMA NoTabs ==
  ASSUME NEW f, Tab \notin Range(f)
  PROVE  Cardinality(Tabs(f)) = 0
<1>1. Tabs(f) = {}
  BY DEF Tabs, Range
<1> QED
  BY <1>1, FS_EmptySet

LEMMA TabsOfFront ==
  ASSUME NEW U, NEW c \in U, NEW t \in Seq(U)
  PROVE  /\ c = Tab => Cardinality(Tabs(InFront(c, t))) = 1 + Cardinality(Tabs(t))
         /\ c # Tab => Cardinality(Tabs(InFront(c, t))) = Cardinality(Tabs(t))
<1>1. <<c>> \in Seq(U)
  OBVIOUS
<1>2. Cardinality(Tabs(InFront(c, t))) = Cardinality(Tabs(<<c>>)) + Cardinality(Tabs(t))
  BY <1>1, TabsOfCat, InFrontIs
<1>3. Cardinality(Tabs(t)) \in Nat
  BY TextOver, TabsCounted
<1>4. CASE c = Tab
  <2>1. Tabs(<<c>>) = {1}
    BY <1>4 DEF Tabs
  <2>2. Cardinality({1}) = 1
    BY FS_Singleton
  <2> QED
    BY <1>2, <1>4, <2>1, <2>2
<1>5. CASE c # Tab
  <2>1. Cardinality(Tabs(<<c>>)) = 0
    BY <1>5, OneIsText, NoTabs
  <2> QED
    BY <1>2, <1>3, <1>5, <2>1
<1> QED
  BY <1>4, <1>5

(* A line has a tab less than values.                                      *)
LEMMA LineTabs ==
  ASSUME NEW U, Separators \subseteq U, NEW n \in Nat \ {0}, NEW row \in [1 .. n -> Seq(U)],
         \A i \in 1 .. n : Unbroken(row[i]), NEW more \in Seq(U),
         NEW at \in [0 .. n -> Seq(U)], LineOf(row, n, at, more)
  PROVE  Cardinality(Tabs(UpTo(at[0], {Newline}))) = n - 1
<1> DEFINE Left(k) == UpTo(at[k], {Newline})
           Good == {j \in 0 .. n - 1 : Cardinality(Tabs(Left(n - 1 - j))) = j}
<1>1. Tab # Newline /\ Return # Newline /\ Return # Tab /\ Tab \in U /\ Return \in U /\ Newline \in U
  BY DEF Tab, Newline, Return, Separators
<1>2. ASSUME NEW i \in 1 .. n, NEW t \in Seq(U)
      PROVE  /\ UpTo(Cat(row[i], t), {Newline}) = Cat(row[i], UpTo(t, {Newline}))
             /\ Cardinality(Tabs(Cat(row[i], UpTo(t, {Newline})))) = Cardinality(Tabs(UpTo(t, {Newline})))
  <2>1. row[i] \in Seq(U) /\ Apart(row[i], {Newline}) /\ Tab \notin Range(row[i])
    BY DEF Unbroken, Apart
  <2>2. UpTo(t, {Newline}) \in Seq(U)
    BY UpToIsText, TextOver
  <2>3. UpTo(Cat(row[i], t), {Newline}) = Cat(row[i], UpTo(t, {Newline}))
    BY <2>1, UpToCat
  <2>4. Cardinality(Tabs(Cat(row[i], UpTo(t, {Newline})))) = Cardinality(Tabs(row[i])) + Cardinality(Tabs(UpTo(t, {Newline})))
    BY <2>1, <2>2, TabsOfCat
  <2>5. Cardinality(Tabs(row[i])) = 0 /\ Cardinality(Tabs(UpTo(t, {Newline}))) \in Nat
    BY <2>1, <2>2, NoTabs, TextOver, TabsCounted
  <2> QED
    BY <2>3, <2>4, <2>5
<1>3. Cardinality(Tabs(Left(n - 1))) = 0
  <2>1. PICK v : v = InFront(Newline, more)
    OBVIOUS
  <2>2. v \in Seq(U) /\ UpTo(v, {Newline}) = <<>>
    BY <1>1, <2>1, CharJoined, UpToChar
  <2>3. InFront(Return, v) \in Seq(U) /\ UpTo(InFront(Return, v), {Newline}) = InFront(Return, UpTo(v, {Newline}))
    <3>1. InFront(Return, v) \in Seq(U)
      BY <1>1, <2>2, CharJoined
    <3>2. UpTo(InFront(Return, v), {Newline}) = InFront(Return, UpTo(v, {Newline}))
      BY <1>1, <2>2, UpToFront
    <3> QED
      BY <3>1, <3>2
  <2>4. Cardinality(Tabs(InFront(Return, <<>>))) = Cardinality(Tabs(<<>>))
    BY <1>1, TabsOfFront, EmptySeq
  <2>5. Cardinality(Tabs(<<>>)) = 0
    BY NoTabs, OneIsText
  <2>6. Cardinality(Tabs(UpTo(InFront(Return, v), {Newline}))) = 0
    BY <2>2, <2>3, <2>4, <2>5
  <2>7. Cat(LineEnd, more) = InFront(Return, v)
    BY <2>1, LineEndCat
  <2>8. n \in 1 .. n /\ at[n - 1] = Cat(row[n], Cat(LineEnd, more))
    BY DEF LineOf
  <2>9. at[n - 1] = Cat(row[n], InFront(Return, v))
    BY <2>7, <2>8, Zenon
  <2>10. Cardinality(Tabs(UpTo(Cat(row[n], InFront(Return, v)), {Newline}))) = 0
    BY <1>2, <2>3, <2>6, <2>8
  <2> QED
    BY <2>9, <2>10
<1>4. ASSUME NEW j \in 1 .. n - 1, j - 1 \in Good
      PROVE  j \in Good
  <2>1. PICK i \in 1 .. n : i = n - j
    OBVIOUS
  <2>2. i < n /\ n - 1 - j = i - 1 /\ n - 1 - (j - 1) = i /\ i \in 0 .. n
    BY <2>1
  <2>3. at[i] \in Seq(U) /\ at[i - 1] = Cat(row[i], InFront(Tab, at[i]))
    BY <2>2 DEF LineOf
  <2>4. InFront(Tab, at[i]) \in Seq(U) /\ UpTo(InFront(Tab, at[i]), {Newline}) = InFront(Tab, Left(i))
    <3>1. PICK t : t = at[i]
      OBVIOUS
    <3>2. t \in Seq(U)
      BY <2>3, <3>1
    <3>3. InFront(Tab, t) \in Seq(U)
      BY <1>1, <3>2, CharJoined
    <3>4. UpTo(InFront(Tab, t), {Newline}) = InFront(Tab, UpTo(t, {Newline}))
      BY <1>1, <3>2, UpToFront
    <3> QED
      BY <3>1, <3>3, <3>4
  <2>5. Left(i) \in Seq(U)
    BY <2>3, UpToIsText, TextOver
  <2>6. Cardinality(Tabs(InFront(Tab, Left(i)))) = 1 + Cardinality(Tabs(Left(i)))
    BY <1>1, <2>5, TabsOfFront
  <2>7. Cardinality(Tabs(Left(i))) = j - 1
    BY <1>4, <2>2
  <2>8. Cardinality(Tabs(UpTo(Cat(row[i], InFront(Tab, at[i])), {Newline}))) = Cardinality(Tabs(InFront(Tab, Left(i))))
    BY <1>2, <2>4
  <2>9. Cardinality(Tabs(Left(i - 1))) = j
    BY <2>3, <2>6, <2>7, <2>8
  <2> HIDE DEF Left
  <2> QED
    BY <2>2, <2>9
<1>5. n - 1 \in Good
  <2>1. n - 1 \in Nat /\ n - 1 \in 0 .. n - 1 /\ 0 \in 0 .. n - 1
    OBVIOUS
  <2>2. 0 \in Good
    BY <1>3, <2>1
  <2> HIDE DEF Good
  <2> QED
    BY <1>4, <2>1, <2>2, UpToLast
<1> QED
  BY <1>5

-----------------------------------------------------------------------------
(* A round of the loop over the fields of a line takes the next value.     *)
IsReading(got) == got = [fields |-> got.fields, rest |-> got.rest]

LEMMA TakesField ==
  ASSUME NEW U, Separators \subseteq U, NEW f \in Seq(U), Unbroken(f), NEW t \in Seq(U),
         NEW got, IsReading(got), got.rest = Cat(f, InFront(Tab, t))
  PROVE  WithField(got) = [fields |-> Append(got.fields, f), rest |-> t]
<1>1. PICK fields : fields = got.fields
  OBVIOUS
<1>2. got = [fields |-> fields, rest |-> f \o InFront(Tab, t)]
  BY <1>1 DEF IsReading, Cat
<1>3. WithField(got) = [fields |-> Append(fields, f), rest |-> t]
  BY <1>2, FieldRead
<1> QED
  BY <1>1, <1>3

LEMMA TakesLastField ==
  ASSUME NEW U, Separators \subseteq U, NEW f \in Seq(U), Unbroken(f), NEW t \in Seq(U), NoEnd(t),
         NEW got, IsReading(got), got.rest = Cat(f, Cat(LineEnd, t))
  PROVE  WithField(got) = [fields |-> Append(got.fields, f), rest |-> t]
<1>1. PICK fields : fields = got.fields
  OBVIOUS
<1>2. got = [fields |-> fields, rest |-> f \o (LineEnd \o t)]
  BY <1>1 DEF IsReading, Cat
<1>3. WithField(got) = [fields |-> Append(fields, f), rest |-> t]
  BY <1>2, LastFieldRead
<1> QED
  BY <1>1, <1>3

(* The line of a row is read as the row.                                   *)
LEMMA LineParsed ==
  ASSUME NEW U, Separators \subseteq U, NEW row \in Seq(Seq(U)), row # <<>>,
         \A i \in 1 .. Len(row) : Unbroken(row[i]), NEW more \in Seq(U), NoEnd(more)
  PROVE  ParseLine(Cat(TextOfRow(row), more)) = [fields |-> row, rest |-> more]
<1>1. PICK n \in Nat \ {0} : n = Len(row)
  BY LenProperties, EmptySeq
<1>2. PICK at \in [0 .. n -> Seq(U)] : LineOf(row, n, at, more) /\ at[0] = Cat(TextOfRow(row), more)
  <2>1. LinesUp(U, row, n, more)
    BY <1>1, TextOfRowIs
  <2> QED
    BY <2>1 DEF LinesUp
<1>3. row \in [1 .. n -> Seq(U)] /\ \A i \in 1 .. n : row[i] \in Seq(U) /\ Unbroken(row[i])
  BY <1>1, LenProperties
<1>4. Cardinality(Tabs(UpTo(at[0], {Newline}))) = n - 1
  BY <1>2, <1>3, LineTabs
<1>5. ParseLine(at[0]) = FieldsOf(at[0], n)
  <2>1. 1 + (n - 1) = n
    OBVIOUS
  <2> QED
    BY <1>4, <2>1 DEF ParseLine
<1>6. at[0] \in Seq(U) /\ Ends \subseteq U
  BY DEF Separators, Ends
<1>7. PICK got \in [0 .. n -> Reading(U)] : FieldsRounds(at[0], n, got) /\ FieldsOf(at[0], n) = got[n]
  BY <1>6, FieldsLoop
<1>8. \A k \in 0 .. n : /\ got[k] \in Reading(U) /\ IsReading(got[k])
                        /\ got[k].fields \in Seq(Seq(U))
  BY <1>7 DEF Reading, IsReading
<1> DEFINE Taken(k) == /\ got[k].rest = at[k] /\ Len(got[k].fields) = k
                      /\ \A i \in 1 .. k : got[k].fields[i] = row[i]
           Good == {k \in 0 .. n : Taken(k)}
<1>9. 0 \in Good
  <2>1. Len(<<>>) = 0
    BY EmptySeq
  <2> QED
    BY <1>7, <2>1 DEF FieldsRounds
<1>10. ASSUME NEW k \in 1 .. n, k - 1 \in Good
       PROVE  k \in Good
  <2>1. PICK j \in 0 .. n : j = k - 1
    BY <1>10
  <2>2. Taken(j) /\ got[k] = WithField(got[j])
    BY <1>7, <1>10, <2>1 DEF FieldsRounds
  <2>3. PICK old \in Seq(Seq(U)) : old = got[j].fields
    BY <1>8, <2>1
  <2>4. PICK f \in Seq(U) : f = row[k]
    BY <1>3
  <2>5. Unbroken(f) /\ IsReading(got[j]) /\ at[k] \in Seq(U)
    BY <1>3, <1>8, <2>1, <2>4
  <2>6. got[k] = [fields |-> Append(old, f), rest |-> at[k]]
    <3>1. PICK one : one = got[j]
      OBVIOUS
    <3>2. PICK t \in Seq(U) : t = at[k]
      BY <2>5
    <3>3. IsReading(one) /\ one.fields = old /\ one.rest = at[j]
      BY <2>2, <2>3, <2>5, <3>1
    <3>4. CASE k < n
      <4>1. at[j] = Cat(f, InFront(Tab, t))
        BY <1>2, <2>1, <2>4, <3>2, <3>4 DEF LineOf
      <4>2. one.rest = Cat(f, InFront(Tab, t))
        BY <3>3, <4>1
      <4>3. WithField(one) = [fields |-> Append(one.fields, f), rest |-> t]
        BY <2>5, <3>3, <4>2, TakesField
      <4> QED
        BY <2>2, <3>1, <3>2, <3>3, <4>3
    <3>5. CASE ~(k < n)
      <4>1. k = n
        BY <3>5
      <4>2. at[j] = Cat(f, Cat(LineEnd, t)) /\ t = more
        BY <1>2, <2>1, <2>4, <3>2, <4>1 DEF LineOf
      <4>3. one.rest = Cat(f, Cat(LineEnd, t)) /\ NoEnd(t)
        BY <3>3, <4>2
      <4>4. WithField(one) = [fields |-> Append(one.fields, f), rest |-> t]
        BY <2>5, <3>3, <4>3, TakesLastField
      <4> QED
        BY <2>2, <3>1, <3>2, <3>3, <4>4
    <3> QED
      BY <3>4, <3>5
  <2>7. /\ Len(Append(old, f)) = k /\ Append(old, f)[k] = f
        /\ \A i \in 1 .. j : Append(old, f)[i] = row[i]
    <3>1. Len(old) = j /\ \A i \in 1 .. j : old[i] = row[i]
      BY <2>2, <2>3
    <3>2. /\ Len(Append(old, f)) = Len(old) + 1 /\ Append(old, f)[Len(old) + 1] = f
          /\ \A i \in 1 .. Len(old) : Append(old, f)[i] = old[i]
      BY AppendProperties
    <3> QED
      BY <2>1, <3>1, <3>2
  <2>8. \A i \in 1 .. k : i \in 1 .. j \/ i = k
    BY <2>1
  <2>9. PICK new : new = Append(old, f)
    OBVIOUS
  <2>10. got[k].fields = new /\ got[k].rest = at[k]
    BY <2>6, <2>9
  <2>11. Len(new) = k /\ \A i \in 1 .. k : new[i] = row[i]
    BY <2>4, <2>7, <2>8, <2>9
  <2> QED
    BY <2>10, <2>11
<1>11. Taken(n)
  <2>1. n \in Nat /\ n \in 0 .. n
    OBVIOUS
  <2> HIDE DEF Good
  <2>2. n \in Good
    BY <1>9, <1>10, <2>1, UpToLast
  <2> USE DEF Good
  <2> QED
    BY <2>2
<1>12. got[n].fields = row /\ got[n].rest = more /\ IsReading(got[n])
  <2>1. got[n].fields \in Seq(Seq(U)) /\ IsReading(got[n])
    BY <1>8
  <2>2. got[n].fields = row
    BY <1>1, <1>11, <2>1, SeqEqual
  <2>3. at[n] = more
    BY <1>2 DEF LineOf
  <2> QED
    BY <1>11, <2>1, <2>2, <2>3
<1> QED
  BY <1>2, <1>5, <1>7, <1>12 DEF IsReading

-----------------------------------------------------------------------------
(* A row whose line is found again: not one that is an empty line.         *)
CleanLine(row) == row # <<>> /\ row # <<Null>> /\ \A i \in 1 .. Len(row) : Unbroken(row[i])

LEMMA HeadOfCat ==
  ASSUME NEW U, NEW f \in Seq(U), f # <<>>, Unbroken(f), NEW t \in Seq(U)
  PROVE  Cat(f, t) # <<>> /\ NoEnd(Cat(f, t))
<1>1. f \o t # <<>> /\ Head(f \o t) \in Range(f)
  BY HeadOfJoin
<1>2. PICK s : s = Cat(f, t)
  OBVIOUS
<1>3. s # <<>> /\ Head(s) \in Range(f)
  BY <1>1, <1>2 DEF Cat
<1> QED
  BY <1>2, <1>3 DEF NoEnd, Unbroken, Ends

LEMMA LineBegins ==
  ASSUME NEW U, Separators \subseteq U, NEW row \in Seq(Seq(U)), CleanLine(row), NEW more \in Seq(U)
  PROVE  Cat(TextOfRow(row), more) # <<>> /\ NoEnd(Cat(TextOfRow(row), more))
<1>1. PICK n \in Nat \ {0} : n = Len(row)
  BY LenProperties, EmptySeq DEF CleanLine
<1>2. PICK at \in [0 .. n -> Seq(U)] : LineOf(row, n, at, more) /\ at[0] = Cat(TextOfRow(row), more)
  <2>1. LinesUp(U, row, n, more)
    BY <1>1, TextOfRowIs
  <2> QED
    BY <2>1 DEF LinesUp
<1>3. PICK f \in Seq(U) : f = row[1]
  BY <1>1, ElementOfSeq
<1>4. Unbroken(f)
  BY <1>1, <1>3 DEF CleanLine
<1>5. CASE n = 1
  <2>1. at[0] = Cat(f, Cat(LineEnd, more))
    BY <1>2, <1>3, <1>5 DEF LineOf
  <2>2. f # <<>>
    <3> SUFFICES ASSUME f = <<>>
                 PROVE  FALSE
      OBVIOUS
    <3>1. PICK none \in Seq(U) : none = Null
      BY DEF Null
    <3>2. PICK one : one = <<none>>
      OBVIOUS
    <3>3. one \in Seq(Seq(U)) /\ Len(one) = 1 /\ one[1] = none
      BY <3>2
    <3>4. Len(row) = Len(one) /\ \A i \in 1 .. Len(row) : row[i] = one[i]
      BY <1>1, <1>3, <1>5, <3>1, <3>3 DEF Null
    <3>5. row = one
      BY <3>3, <3>4, SeqEqual
    <3> QED
      BY <3>1, <3>2, <3>5 DEF CleanLine
  <2>3. LineEnd \in Seq(U)
    BY DEF LineEnd, Separators
  <2>4. PICK t \in Seq(U) : t = Cat(LineEnd, more)
    BY <2>3, CatTyped
  <2> QED
    BY <1>2, <1>4, <2>1, <2>2, <2>4, HeadOfCat
<1>6. CASE n # 1
  <2>1. PICK t \in Seq(U) : t = at[1]
    BY <1>6
  <2>2. at[0] = Cat(f, InFront(Tab, t))
    BY <1>2, <1>3, <1>6, <2>1 DEF LineOf
  <2>3. Tab \in U /\ Tab \notin Ends
    BY DEF Separators, Tab, Ends, Newline, Return
  <2>4. PICK u \in Seq(U) : u = InFront(Tab, t) /\ u # <<>> /\ Head(u) = Tab
    BY <2>3, CharJoined
  <2>5. CASE f = <<>>
    <3>1. Cat(f, u) = u
      BY <2>5, CatEmpty
    <3> QED
      BY <1>2, <2>2, <2>3, <2>4, <3>1 DEF NoEnd
  <2>6. CASE f # <<>>
    BY <1>2, <1>4, <2>2, <2>4, <2>6, HeadOfCat
  <2> QED
    BY <2>5, <2>6
<1> QED
  BY <1>5, <1>6

LEMMA LongerBy ==
  ASSUME NEW U, NEW s \in Seq(U), s # <<>>, NEW t \in Seq(U)
  PROVE  Len(Cat(s, t)) \in Nat /\ Len(t) \in Nat /\ Len(Cat(s, t)) > Len(t)
<1>1. Len(s) \in Nat \ {0} /\ Len(t) \in Nat
  BY LenProperties, EmptySeq
<1>2. Len(s \o t) = Len(s) + Len(t)
  BY ConcatProperties
<1>3. PICK k : k = Len(s \o t)
  OBVIOUS
<1>4. k = Len(Cat(s, t))
  BY <1>3 DEF Cat
<1> QED
  BY <1>1, <1>2, <1>3, <1>4

(* The text of rows, from each line on.                                    *)
TextFrom(rows, m, suf) ==
  /\ suf[m] = <<>> /\ suf[0] = TextOf(rows)
  /\ \A i \in 1 .. m : suf[i - 1] = Cat(TextOfRow(rows[i]), suf[i])
TextSplits(U, rows, m) == \E suf \in [0 .. m -> Seq(U)] : TextFrom(rows, m, suf)

LEMMA FunctionOver ==
  ASSUME NEW S, NEW n \in Nat, NEW f \in [1 .. n -> S]
  PROVE  f \in Seq(S) /\ Len(f) = n
<1>1. f \in Seq(S)
  BY SeqDef
<1> QED
  BY <1>1, LenProperties

LEMMA TextOfIs ==
  ASSUME NEW U, Separators \subseteq U, NEW rows \in Seq(Seq(Seq(U))), NEW m \in Nat, m = Len(rows)
  PROVE  TextSplits(U, rows, m)
<1> DEFINE pieces == [i \in DOMAIN rows |-> TextOfRow(rows[i])]
<1>1. DOMAIN rows = 1 .. m /\ \A i \in 1 .. m : rows[i] \in Seq(Seq(U))
  BY LenProperties, ElementOfSeq
<1>2. pieces \in [1 .. m -> Seq(U)] /\ \A i \in 1 .. m : pieces[i] = TextOfRow(rows[i])
  BY <1>1, TextOfRowTyped
<1>3. TextOf(rows) = FlattenSeq(pieces)
  BY DEF TextOf
<1> HIDE DEF pieces
<1>4. pieces \in Seq(Seq(U)) /\ Len(pieces) = m
  <2>1. PICK S : S = Seq(U)
    OBVIOUS
  <2>2. pieces \in [1 .. m -> S]
    BY <1>2, <2>1
  <2>3. pieces \in Seq(S) /\ Len(pieces) = m
    BY <2>2, FunctionOver
  <2> QED
    BY <2>1, <2>3
<1>5. PICK suf \in [0 .. m -> Seq(U)] : SuffixesOf(pieces, suf) /\ FlattenSeq(pieces) = suf[0]
  BY <1>4, FlattenSuffixes
<1>6. suf[m] = <<>> /\ \A i \in 1 .. m : suf[i - 1] = Cat(pieces[i], suf[i])
  BY <1>4, <1>5 DEF SuffixesOf, Cat
<1>7. TextFrom(rows, m, suf)
  BY <1>2, <1>3, <1>5, <1>6 DEF TextFrom
<1> QED
  BY <1>7 DEF TextSplits

-----------------------------------------------------------------------------
(* No line begins with the end of a line, and each has a character.        *)
LEMMA LinesBegin ==
  ASSUME NEW U, Separators \subseteq U, NEW rows \in Seq(Seq(Seq(U))), NEW m \in Nat, m = Len(rows),
         \A i \in 1 .. m : CleanLine(rows[i]),
         NEW suf \in [0 .. m -> Seq(U)], TextFrom(rows, m, suf)
  PROVE  /\ \A i \in 1 .. m : suf[i - 1] # <<>>
         /\ \A k \in 0 .. m : NoEnd(suf[k])
         /\ Len(suf[0]) \in Nat /\ Len(suf[0]) >= m
<1>1. ASSUME NEW i \in 1 .. m
      PROVE  suf[i - 1] # <<>> /\ NoEnd(suf[i - 1]) /\ Len(suf[i - 1]) > Len(suf[i])
  <2>1. PICK more \in Seq(U) : more = suf[i]
    BY ONLY suf \in [0 .. m -> Seq(U)], m \in Nat, i \in 1 .. m
  <2>2. PICK row \in Seq(Seq(U)) : row = rows[i]
    BY ElementOfSeq
  <2>3. CleanLine(row)
    BY <2>2
  <2>4. PICK s \in Seq(U) : s = TextOfRow(row)
    BY TextOfRowTyped
  <2>5. suf[i - 1] = Cat(s, more)
    BY <2>1, <2>2, <2>4 DEF TextFrom
  <2>6. Cat(s, more) # <<>> /\ NoEnd(Cat(s, more))
    BY <2>3, <2>4, LineBegins
  <2>7. s # <<>>
    <3>0. <<>> \in Seq(U)
      OBVIOUS
    <3>1. PICK none \in Seq(U) : none = <<>>
      BY <3>0, Zenon
    <3>2. Cat(s, none) # <<>>
      BY <2>3, <2>4, LineBegins
    <3>3. Cat(s, none) = s
      BY <3>1, CatEmpty
    <3> QED
      BY <3>2, <3>3
  <2>8. Len(Cat(s, more)) > Len(more)
    BY <2>7, LongerBy
  <2> QED
    BY <2>1, <2>5, <2>6, <2>8
<1>2. ASSUME NEW k \in 0 .. m
      PROVE  NoEnd(suf[k])
  <2>1. CASE k = m
    BY <2>1 DEF TextFrom, NoEnd
  <2>2. CASE k # m
    <3>1. PICK i \in 1 .. m : i = k + 1
      BY <2>2
    <3>2. i - 1 = k
      BY <3>1
    <3> QED
      BY <1>1, <3>2
  <2> QED
    BY <2>1, <2>2
<1>3. \A k \in 0 .. m : Len(suf[k]) \in Nat
  BY LenProperties
<1> DEFINE Good == {j \in 0 .. m : Len(suf[m - j]) >= j}
<1>4. 0 \in Good
  BY <1>3
<1>5. ASSUME NEW j \in 1 .. m, j - 1 \in Good
      PROVE  j \in Good
  <2>1. PICK i \in 1 .. m : i = m - j + 1
    BY ONLY m \in Nat, j \in 1 .. m
  <2>2. i - 1 = m - j /\ i = m - (j - 1) /\ i - 1 \in 0 .. m /\ i \in 0 .. m
    BY <2>1
  <2>3. Len(suf[i - 1]) > Len(suf[i]) /\ Len(suf[i - 1]) \in Nat /\ Len(suf[i]) \in Nat
    BY <1>1, <1>3, <2>2
  <2>4. Len(suf[i]) >= j - 1
    BY <1>5, <2>2
  <2>5. Len(suf[i - 1]) >= j
    BY <2>3, <2>4
  <2> QED
    BY <2>2, <2>5
<1>6. m \in Good
  <2>1. m \in 0 .. m
    OBVIOUS
  <2> HIDE DEF Good
  <2> QED
    BY <1>4, <1>5, <2>1, UpToLast
<1>7. m - m = 0 /\ 0 \in 0 .. m
  OBVIOUS
<1>8. Len(suf[0]) >= m
  BY <1>6, <1>7
<1> QED
  BY <1>1, <1>2, <1>3, <1>7, <1>8

(* A round of the loop over lines takes the next row.                      *)
LEMMA TakesLine ==
  ASSUME NEW U, Separators \subseteq U, NEW row \in Seq(Seq(U)), CleanLine(row), NEW more \in Seq(U), NoEnd(more),
         NEW got, got.rest = Cat(TextOfRow(row), more)
  PROVE  WithLine(got) = [lines |-> Append(got.lines, row), rest |-> more]
<1>1. PICK text : text = Cat(TextOfRow(row), more)
  OBVIOUS
<1>2. text # <<>>
  BY <1>1, LineBegins
<1>3. ParseLine(text) = [fields |-> row, rest |-> more]
  BY <1>1, LineParsed DEF CleanLine
<1> QED
  BY <1>1, <1>2, <1>3 DEF WithLine

LEMMA LinesReadBack ==
  ASSUME NEW U, Separators \subseteq U, NEW rows \in Seq(Seq(Seq(U))), NEW m \in Nat, m = Len(rows),
         \A i \in 1 .. m : CleanLine(rows[i]),
         NEW suf \in [0 .. m -> Seq(U)], TextFrom(rows, m, suf)
  PROVE  LinesOf(suf[0]) = rows
<1>1. PICK N \in Nat : N = Len(suf[0]) /\ N >= m
  BY LinesBegin
<1>2. Ends \subseteq U /\ suf[0] \in Seq(U)
  BY DEF Ends, Separators
<1>3. PICK got \in [0 .. N -> ReadingLines(U)] : LinesRounds(suf[0], N, got) /\ LinesOf(suf[0]) = got[N].lines
  BY <1>1, <1>2, LinesLoop
<1>4. \A k \in 0 .. N : got[k].lines \in Seq(Seq(Seq(U)))
  BY <1>3 DEF ReadingLines
<1> DEFINE First(k, one) == Len(one.lines) = k /\ \A i \in 1 .. k : one.lines[i] = rows[i]
           Good == {k \in 0 .. N : IF k <= m THEN got[k].rest = suf[k] /\ First(k, got[k])
                                   ELSE got[k].rest = <<>> /\ First(m, got[k])}
<1>5. 0 \in Good
  <2>1. Len(<<>>) = 0
    BY EmptySeq
  <2> QED
    BY <1>3, <2>1 DEF LinesRounds
<1>6. ASSUME NEW k \in 1 .. N, k - 1 \in Good
      PROVE  k \in Good
  <2>1. PICK j \in 0 .. N : j = k - 1
    BY <1>6
  <2>2. got[k] = WithLine(got[j]) /\ got[j].lines \in Seq(Seq(Seq(U)))
    BY <1>3, <1>4, <2>1 DEF LinesRounds
  <2>3. CASE k <= m
    <3>1. got[j].rest = suf[j] /\ First(j, got[j])
      <4>1. j \in Good /\ j <= m
        BY <1>6, <2>1, <2>3
      <4> HIDE DEF First
      <4> QED
        BY <4>1
    <3>2. PICK row \in Seq(Seq(U)) : row = rows[k] /\ CleanLine(row)
      BY <2>3, ElementOfSeq
    <3>3. PICK more \in Seq(U) : more = suf[k] /\ NoEnd(more)
      <4>1. k \in 0 .. m
        BY <2>3
      <4>2. NoEnd(suf[k])
        BY <4>1, LinesBegin
      <4> QED
        BY ONLY <4>1, <4>2, suf \in [0 .. m -> Seq(U)]
    <3>4. suf[j] = Cat(TextOfRow(row), more)
      BY <2>1, <2>3, <3>2, <3>3 DEF TextFrom
    <3>5. PICK one : one = got[j]
      OBVIOUS
    <3>6. one.rest = Cat(TextOfRow(row), more)
      BY <3>1, <3>4, <3>5
    <3>7. WithLine(one) = [lines |-> Append(one.lines, row), rest |-> more]
      BY <3>2, <3>3, <3>6, TakesLine
    <3>8. PICK old \in Seq(Seq(Seq(U))) : old = one.lines
      BY <2>2, <3>5
    <3>9. PICK new : new = Append(old, row)
      OBVIOUS
    <3>10. /\ Len(new) = Len(old) + 1 /\ new[Len(old) + 1] = row
           /\ \A i \in 1 .. Len(old) : new[i] = old[i]
      BY <3>9, AppendProperties
    <3>11. Len(old) = j /\ \A i \in 1 .. j : old[i] = rows[i]
      BY <3>1, <3>5, <3>8
    <3>12. Len(new) = k /\ \A i \in 1 .. k : new[i] = rows[i]
      <4>1. Len(new) = k /\ new[k] = rows[k]
        BY <2>1, <3>2, <3>10, <3>11
      <4>2. \A i \in 1 .. j : new[i] = rows[i]
        BY <3>10, <3>11
      <4>3. \A i \in 1 .. k : i \in 1 .. j \/ i = k
        BY <2>1
      <4> QED
        BY <4>1, <4>2, <4>3
    <3>13. got[k].lines = new /\ got[k].rest = suf[k]
      BY <2>2, <3>3, <3>5, <3>7, <3>8, <3>9
    <3> QED
      BY <2>3, <3>12, <3>13
  <2>4. CASE ~(k <= m)
    <3>1. got[j].rest = <<>> /\ First(m, got[j])
      <4>1. CASE j = m
        BY <1>6, <2>1, <4>1 DEF TextFrom
      <4>2. CASE j # m
        BY <1>6, <2>1, <2>4, <4>2
      <4> QED
        BY <4>1, <4>2
    <3>2. got[k] = got[j]
      BY <2>2, <3>1 DEF WithLine
    <3> QED
      BY <2>4, <3>1, <3>2
  <2> QED
    BY <2>3, <2>4
<1>7. N \in Good
  <2>1. N \in 0 .. N
    OBVIOUS
  <2> HIDE DEF Good
  <2> QED
    BY <1>5, <1>6, <2>1, UpToLast
<1>8. First(m, got[N])
  BY <1>1, <1>7
<1>9. got[N].lines \in Seq(Seq(Seq(U)))
  BY <1>4
<1>10. got[N].lines = rows
  BY <1>8, <1>9, SeqEqual
<1> QED
  BY <1>3, <1>10

(* What is written is read.                                                *)
LEMMA RowsReadBack ==
  ASSUME NEW U, Separators \subseteq U, NEW rows \in Seq(Seq(Seq(U))),
         \A i \in 1 .. Len(rows) : CleanLine(rows[i])
  PROVE  RowsRead(TextOf(rows)) = rows
<1>1. PICK m \in Nat : m = Len(rows)
  BY LenProperties
<1>2. PICK suf \in [0 .. m -> Seq(U)] : TextFrom(rows, m, suf)
  <2>1. TextSplits(U, rows, m)
    BY <1>1, TextOfIs
  <2> QED
    BY <2>1 DEF TextSplits
<1>3. \A i \in 1 .. m : CleanLine(rows[i])
  BY <1>1
<1>4. LinesOf(suf[0]) = rows /\ NoEnd(suf[0])
  <2>1. LinesOf(suf[0]) = rows
    BY <1>1, <1>2, <1>3, LinesReadBack
  <2>2. \A k \in 0 .. m : NoEnd(suf[k])
    BY <1>1, <1>2, <1>3, LinesBegin
  <2> QED
    BY <2>1, <2>2
<1>5. suf[0] \in Seq(U) /\ TextOf(rows) = suf[0]
  BY <1>2 DEF TextFrom
<1>6. Behind(suf[0], Ends) = suf[0]
  BY <1>4, <1>5, BehindStays DEF NoEnd
<1> QED
  BY <1>4, <1>5, <1>6 DEF RowsRead

-----------------------------------------------------------------------------
(* A listing has each of the set, and each once.                           *)
LEMMA AllListed ==
  ASSUME NEW S, IsFiniteSet(S), NEW names \in SetToSeqs(S)
  PROVE  \A n \in S : \E i \in 1 .. Cardinality(S) : names[i] = n
<1>1. PICK k \in Nat : /\ k = Cardinality(S) /\ \A i \in 1 .. k : names[i] \in S
                       /\ \A i \in 1 .. k, j \in 1 .. k : i # j => names[i] # names[j]
  BY NamesIs
<1>2. names \in [1 .. k -> S]
  BY <1>1 DEF SetToSeqs
<1>3. names \in Injection(1 .. k, S)
  BY <1>1, <1>2 DEF Injection, IsInjective
<1>4. Cardinality(1 .. k) = k
  BY FS_Interval
<1>5. names \in Surjection(1 .. k, S)
  BY <1>1, <1>3, <1>4, FS_Injection
<1> QED
  BY <1>1, <1>5 DEF Surjection

(* A row of a table is made again of its texts.                            *)
LEMMA MadeAgain ==
  ASSUME NEW cols, NEW row, Shaped(cols, row), Cells(cols, row)
  PROVE  Constructed(cols, row) = row
<1>1. row = [i \in DOMAIN cols |-> row[i]] /\ DOMAIN row = DOMAIN cols
  BY DEF Shaped
<1>2. ASSUME NEW i \in DOMAIN cols
      PROVE  (IF cols[i].kind = "int" THEN Number(row[i]) ELSE row[i]) = row[i]
  BY <1>1 DEF Cells, Number
<1>3. Constructed(cols, row) = [i \in DOMAIN cols |-> row[i]]
  BY <1>2 DEF Constructed
<1> QED
  BY <1>1, <1>3

LEMMA TableChanged ==
  ASSUME NEW table, NEW new, NEW bad
  PROVE  [[table |-> table, failed |-> bad] EXCEPT !.table = new] = [table |-> new, failed |-> bad]
OBVIOUS

LEMMA FitsAsIs ==
  ASSUME NEW cols, NEW row, Shaped(cols, row), Cells(cols, row)
  PROVE  Fitted(cols, row) = row
<1>1. row = [i \in DOMAIN cols |-> row[i]] /\ DOMAIN row = DOMAIN cols
  BY DEF Shaped
<1>2. ASSUME NEW i \in DOMAIN cols
      PROVE  (IF i \notin DOMAIN row \/ (cols[i].kind = "int" /\ ~IsNumber(row[i])) THEN Null ELSE row[i]) = row[i]
  BY <1>1 DEF Cells
<1>3. Fitted(cols, row) = [i \in DOMAIN cols |-> row[i]]
  BY <1>2 DEF Fitted
<1> QED
  BY <1>1, <1>3

LEMMA InsertsRow ==
  ASSUME NEW cols, Creatable(cols), NEW S, NEW row, Made(cols, cols, row) = row,
         ~Refused([cols |-> cols, rows |-> S], row)
  PROVE  WithFields(cols, [table |-> [cols |-> cols, rows |-> S], failed |-> FALSE], row)
           = [table |-> [cols |-> cols, rows |-> S \cup {row}], failed |-> FALSE]
<1>1. PICK table : table = [cols |-> cols, rows |-> S]
  OBVIOUS
<1>2. PICK done : done = [table |-> table, failed |-> FALSE]
  OBVIOUS
<1>3. done.failed = FALSE /\ done.table = table
  BY <1>2
<1>4. WithFields(cols, done, row) = [done EXCEPT !.table = WithRow(@, row)]
  <2>1. table.cols = cols
    BY <1>1
  <2> QED
    BY <1>1, <1>3, <2>1 DEF WithFields, Made
<1>5. [done EXCEPT !.table = WithRow(@, row)] = [table |-> WithRow(table, row), failed |-> FALSE]
  <2>1. PICK new : new = WithRow(table, row)
    OBVIOUS
  <2>2. [done EXCEPT !.table = new] = [table |-> new, failed |-> FALSE]
    <3>1. PICK bad : bad = FALSE
      BY Zenon
    <3>2. [[table |-> table, failed |-> bad] EXCEPT !.table = new] = [table |-> new, failed |-> bad]
      BY TableChanged
    <3>3. done = [table |-> table, failed |-> bad]
      BY <1>2, <3>1, Zenon
    <3> QED
      BY <3>1, <3>2, <3>3, Zenon
  <2> QED
    BY <1>3, <2>1, <2>2
<1>6. WithRow(table, row) = [cols |-> cols, rows |-> S \cup {row}]
  BY <1>1, WithRowOf
<1> QED
  BY <1>1, <1>2, <1>4, <1>5, <1>6

(* All rows of a table are inserted, whatever was there before.            *)
LEMMA AllInserted ==
  ASSUME NEW cols, Creatable(cols), NEW table, IsTable(table), table.cols = cols,
         NEW R, IsTable([cols |-> cols, rows |-> R]), NEW lines \in SetToSeqs(R)
  PROVE  ~Inserted(cols, table, lines).failed /\ Inserted(cols, table, lines).table.rows = R
<1> DEFINE written == [cols |-> cols, rows |-> R]
<1>1. written.cols = cols /\ written.rows = R /\ Sound(written) /\ \A row \in R : Cells(cols, row)
  <2>1. written.cols = cols /\ written.rows = R
    OBVIOUS
  <2>2. IsTable(written)
    OBVIOUS
  <2> HIDE DEF written
  <2> QED
    BY <2>1, <2>2, TableIs
<1>2. /\ IsFiniteSet(R) /\ \A row \in R : Shaped(cols, row) /\ ~NullRefused(cols, row)
      /\ \A row \in R, other \in R : row # other => ~SameKey(cols, row, other)
  <2> HIDE DEF written
  <2> QED
    BY <1>1 DEF Sound
<1> HIDE DEF written
<1>3. PICK m \in Nat : /\ m = Cardinality(R) /\ \A i \in 1 .. m : lines[i] \in R
                       /\ \A i \in 1 .. m, j \in 1 .. m : i # j => lines[i] # lines[j]
  BY <1>2, NamesIs
<1>4. m = Len(lines)
  <2>1. lines \in [1 .. m -> R]
    BY <1>3 DEF SetToSeqs
  <2> QED
    BY <2>1, FunctionOver
<1>5. PICK done \in [0 .. m -> Filling(cols, cols, lines)] :
        InsertRounds(cols, table, lines, m, done) /\ Inserted(cols, table, lines) = done[m]
  <2>1. Len(lines) \in Nat
    BY <1>4
  <2> QED
    BY <1>4, <2>1, InsertLoop
<1> DEFINE Taken(k) == {lines[i] : i \in 1 .. k}
           So(k) == [table |-> [cols |-> cols, rows |-> Taken(k)], failed |-> FALSE]
           Good == {k \in 0 .. m : done[k] = So(k)}
<1>6. 0 \in Good
  <2>1. Emptied(table) = [cols |-> cols, rows |-> {}]
    BY EmptiedIs
  <2>2. Taken(0) = {}
    OBVIOUS
  <2> HIDE DEF Taken
  <2>3. done[0] = [table |-> [cols |-> cols, rows |-> {}], failed |-> FALSE]
    BY <1>5, <2>1 DEF InsertRounds
  <2>4. done[0] = So(0)
    BY <2>2, <2>3
  <2>5. 0 \in 0 .. m
    OBVIOUS
  <2> HIDE DEF So
  <2> QED
    BY <2>4, <2>5
<1>7. ASSUME NEW k \in 1 .. m, k - 1 \in Good
      PROVE  k \in Good
  <2>1. PICK j \in 0 .. m : j = k - 1
    BY <1>7
  <2>2. done[k] = WithFields(cols, done[j], lines[k]) /\ done[j] = So(j)
    BY <1>5, <1>7, <2>1 DEF InsertRounds
  <2>3. PICK row \in R : row = lines[k]
    BY <1>3
  <2>4. PICK S : S = Taken(j)
    OBVIOUS
  <2>5. \A other \in S : other \in R /\ other # row
    <3>1. \A i \in 1 .. j : i \in 1 .. m /\ i # k
      BY <2>1
    <3> QED
      BY <1>3, <2>3, <2>4, <3>1
  <2>6. Made(cols, cols, row) = row
    BY <1>1, <1>2, MadeAgain, FitsAsIs DEF Made
  <2>7. ~Refused([cols |-> cols, rows |-> S], row)
    BY <1>2, <2>5 DEF Refused
  <2>8. WithFields(cols, [table |-> [cols |-> cols, rows |-> S], failed |-> FALSE], row)
          = [table |-> [cols |-> cols, rows |-> S \cup {row}], failed |-> FALSE]
    BY <2>6, <2>7, InsertsRow
  <2>9. Taken(k) = S \cup {row}
    <3>1. \A i \in 1 .. k : i \in 1 .. j \/ i = k
      BY <2>1
    <3>2. \A i \in 1 .. j : i \in 1 .. k
      BY <2>1
    <3> QED
      BY <2>3, <2>4, <3>1, <3>2
  <2> HIDE DEF Taken
  <2>10. done[k] = WithFields(cols, [table |-> [cols |-> cols, rows |-> S], failed |-> FALSE], row)
    BY <2>2, <2>3, <2>4
  <2>11. done[k] = [table |-> [cols |-> cols, rows |-> Taken(k)], failed |-> FALSE]
    BY <2>8, <2>9, <2>10
  <2>12. done[k] = So(k)
    BY <2>11
  <2>13. k \in 0 .. m
    OBVIOUS
  <2> HIDE DEF So
  <2> QED
    BY <2>12, <2>13
<1>8. done[m] = So(m)
  <2>1. m \in 0 .. m
    OBVIOUS
  <2> HIDE DEF Good
  <2>2. m \in Good
    BY <1>6, <1>7, <2>1, UpToLast
  <2> USE DEF Good
  <2> HIDE DEF So
  <2> QED
    BY <2>2
<1>9. Taken(m) = R
  <2>1. \A row \in R : \E i \in 1 .. m : lines[i] = row
    BY <1>2, <1>3, AllListed
  <2> QED
    BY <1>3, <2>1
<1> HIDE DEF Taken
<1> QED
  BY <1>5, <1>8, <1>9

(* What a clean table wrote is read as its rows.                           *)
LEMMA ArchiveRead ==
  ASSUME NEW cols, NEW R, IsTable([cols |-> cols, rows |-> R]), NEW rows \in SetToSeqs(R),
         \A row \in R : Plain(row)
  PROVE  RowsRead(TextOf(rows)) = rows
<1>1. PICK table : table = [cols |-> cols, rows |-> R]
  OBVIOUS
<1>2. IsTable(table) /\ table.cols = cols /\ table.rows = R
  BY <1>1
<1>3. PICK U : U = CharsOf(table)
  OBVIOUS
<1>4. rows \in Seq(Seq(Seq(U))) /\ \A i \in 1 .. Len(rows) : rows[i] \in R
  BY <1>2, <1>3, ListingTyped
<1>5. Separators \subseteq U
  BY <1>3 DEF CharsOf
<1>6. ASSUME NEW i \in 1 .. Len(rows)
      PROVE  CleanLine(rows[i])
  <2>1. PICK row \in R : row = rows[i]
    BY <1>4
  <2>2. Header(cols) /\ Shaped(cols, row)
    BY <1>2, TableIs DEF Sound
  <2>3. row \in Seq(Range(row)) /\ Len(row) = Len(cols) /\ DOMAIN row = 1 .. Len(row)
    BY <2>2, ShapedIsRow DEF Header
  <2>4. row # <<>>
    <3>1. cols \in Seq(Range(cols)) /\ cols # <<>>
      BY <2>2 DEF Header
    <3>2. Len(cols) # 0
      BY <3>1, EmptySeq
    <3> QED
      BY <2>3, <3>2, EmptySeq
  <2>5. row # <<Null>> /\ \A j \in 1 .. Len(row) : Unbroken(row[j])
    BY <2>3 DEF Plain, Unbroken
  <2> QED
    BY <2>1, <2>4, <2>5 DEF CleanLine
<1> QED
  BY <1>4, <1>5, <1>6, RowsReadBack

LEMMA ImportGives ==
  ASSUME BulkInv, Import
  PROVE  /\ \A name \in DOMAIN db \ {archive.name} : db'[name] = db[name]
         /\ Clean(archive) /\ Target.cols = archive.cols =>
              result' = "ok" /\ db'[archive.name].rows = archive.rows
<1> DEFINE done == Inserted(archive.cols, Target, RowsRead(archive.text))
<1>1. CanImport /\ db' = WithTable(archive.name, done.table)
      /\ result' = IF done.failed THEN "failed" ELSE "ok"
  BY DEF Import
<1> HIDE DEF done
<1>2. \A name \in DOMAIN db \ {archive.name} : db'[name] = db[name]
  BY <1>1 DEF WithTable
<1>3. db'[archive.name] = done.table
  BY <1>1 DEF WithTable
<1>4. ASSUME Clean(archive), Target.cols = archive.cols
      PROVE  ~done.failed /\ done.table.rows = archive.rows
  <2>1. IsTable(Target) /\ Target.cols = archive.cols /\ IsTable([cols |-> archive.cols, rows |-> archive.rows])
    BY <1>1, <1>4, TargetIs
  <2>2. PICK rows \in SetToSeqs(archive.rows) : archive.text = TextOf(rows)
    BY <1>1 DEF BulkInv, CanImport, Exported
  <2>3. Creatable(archive.cols) /\ \A row \in archive.rows : Plain(row)
    BY <1>4 DEF Clean
  <2>4. RowsRead(archive.text) = rows
    BY <2>1, <2>2, <2>3, ArchiveRead
  <2>5. ~Inserted(archive.cols, Target, rows).failed /\ Inserted(archive.cols, Target, rows).table.rows = archive.rows
    BY <2>1, <2>2, <2>3, AllInserted
  <2> QED
    BY <2>4, <2>5 DEF done
<1> QED
  BY <1>1, <1>2, <1>3, <1>4

(* ImportRestores: what was exported comes back (_libmsi_database_import   *)
(* of what _libmsi_database_export wrote).                                 *)
THEOREM BulkImportRestores == BulkSpec => ImportRestores
<1> DEFINE given == <<db, result, status, archive>>
           Restored == archive # NoArchive /\ archive' = NoArchive =>
                         /\ \A name \in DOMAIN db \ {archive.name} : db'[name] = db[name]
                         /\ Clean(archive) /\ Target.cols = archive.cols =>
                              /\ result' = "ok"
                              /\ db'[archive.name].rows = archive.rows
<1>1. ASSUME BulkInv, [BulkNext]_bulkVars
      PROVE  [Restored]_given
  <2> SUFFICES ASSUME archive # NoArchive, archive' = NoArchive
               PROVE  Restored
    OBVIOUS
  <2>1. Import \/ ImportRefused
    <3>1. CASE Call
      BY <3>1 DEF Call
    <3>2. CASE MergeStep
      BY <3>2 DEF MergeStep
    <3>3. CASE ExportStep
      BY <3>3 DEF ExportStep, Export
    <3>4. CASE ImportStep
      BY <3>4 DEF ImportStep, ImportShort, OpenOther
    <3>5. CASE UNCHANGED bulkVars
      BY <3>5 DEF bulkVars
    <3> QED
      BY <1>1, <3>1, <3>2, <3>3, <3>4, <3>5 DEF BulkNext
  <2>2. CASE Import
    BY <1>1, <2>2, ImportGives
  <2>3. CASE ImportRefused
    BY <2>3 DEF ImportRefused, Clean
  <2> QED
    BY <2>1, <2>2, <2>3
<1> QED
  BY <1>1, BulkInvHolds, PTL DEF BulkSpec, ImportRestores
=============================================================================
