----------------------------- MODULE Database -----------------------------
(***************************************************************************)
(* A database as a file (libmsi/libmsi-database.c, and the list of tables  *)
(* in libmsi/table.c): how it is opened, what a commit does step by step,  *)
(* and what is on disk when the program stops at any of them.              *)
(*                                                                         *)
(* A table is the number of times it was changed, 0 if it is empty or not  *)
(* there.  A database on disk is what each table is; the strings go with   *)
(* them (StringPoolFile, Table).                                           *)
(*                                                                         *)
(* Every change that is not read-only goes to a second file, outpath: next *)
(* to the database (".tmp"), the path given as persist, or, for a database *)
(* being created, its own path.                                            *)
(***************************************************************************)
EXTENDS Integers, FiniteSets

CONSTANTS Tables,
          Absent, Garbage,    \* no file; a file that is no database
          Modes,              \* flags databases are opened with
          CanFail,            \* operations that may fail: "save", "open", "start"
          MaxEdits,           \* bound: how often a table is changed
          MaxOpens            \* bound: how often the database is opened

Mode == {"readonly", "transact", "create"}
Path == {"db", "out"}
Tmp(path) == IF path = "db" THEN "db.tmp" ELSE "out.tmp"
File == Path \cup {Tmp(path) : path \in Path}
NoFile == "none"

Content == [Tables -> 0 .. MaxEdits]

ASSUME DatabaseAssumption ==
  /\ Modes \subseteq Mode /\ CanFail \subseteq {"save", "open", "start"}
  /\ MaxEdits \in Nat \ {0} /\ MaxOpens \in Nat
  /\ Absent # Garbage /\ Absent \notin Content /\ Garbage \notin Content

VARIABLES files,              \* what each file on disk holds
          step,               \* "none": no database open; "idle"; or of a commit
          mode, path, outpath, renameOutpath,
          infile,             \* the database read from, Absent if there is none
          listed,             \* db->tables: the tables in memory
          out,                \* db->outfile: the streams written so far for each
                              \* table, Absent if it could not be opened
          committed,          \* history: what the last commit left
          discarded,          \* history: an open that failed removed it
          expected,           \* history: the tables as the last changes left them
          failed,             \* history: a commit, or the open behind it, has failed
          opens               \* history: how often the database was opened

dbVars == <<mode, path, outpath, renameOutpath, infile, listed, out>>
history == <<committed, discarded, expected, failed, opens>>
vars == <<files, step, dbVars, history>>

EmptyContent == [t \in Tables |-> 0]
IsDatabase(file) == file \notin {Absent, Garbage}

(* The tables a file lists, and what it has for one (get_table: a table    *)
(* that is not there is an empty one).                                     *)
InFile(file, t) == IF IsDatabase(file) THEN file[t] ELSE 0
TablesOf(file) == {t \in Tables : InFile(file, t) # 0}
Listing(file) == [t \in TablesOf(file) |-> file[t]]

(* What the tables are to the program.                                     *)
View(t) == IF t \in DOMAIN listed THEN listed[t] ELSE InFile(infile, t)

(* The databases the streams written so far may be, where a name that was  *)
(* written twice may be read as either.                                    *)
Assembled == {c \in Content : \A t \in Tables : IF out[t] = {} THEN c[t] = 0 ELSE c[t] \in out[t]}
NothingWritten == [t \in Tables |-> {}]

-----------------------------------------------------------------------------
(* _libmsi_database_start_transaction: where the new database goes.  A     *)
(* path given as persist stays what it is, even in a database opened       *)
(* read-only, which writes nothing.                                        *)
OutpathFor(m, p, persist) ==
  CASE m = "readonly" \/ persist # NoFile -> persist
    [] m = "transact" /\ persist = NoFile -> Tmp(p)
    [] m = "create" /\ persist = NoFile -> p
Renames(m, persist) == m = "transact" /\ persist = NoFile

(* libmsi_database_new: init, open and start_transaction.  persist is the  *)
(* path of the output, or NoFile.                                          *)
New(m, persist) ==
  /\ step = "none" /\ opens < MaxOpens
  /\ opens' = opens + 1
  /\ m # "create" => IsDatabase(files["db"])
  /\ LET source == IF m = "create" THEN Absent ELSE files["db"] IN
       /\ infile' = source
       /\ listed' = Listing(source)
       /\ committed' = source /\ discarded' = FALSE
       /\ expected' = [t \in Tables |-> InFile(source, t)]
  /\ mode' = m /\ path' = "db"
  /\ outpath' = OutpathFor(m, "db", persist) /\ renameOutpath' = Renames(m, persist)
  /\ out' = IF m = "readonly" THEN Absent ELSE NothingWritten
  /\ step' = "idle"
  /\ failed' = FALSE
  /\ UNCHANGED files

Without(file) == IF file = NoFile THEN files ELSE [files EXCEPT ![file] = Absent]

(* A database that cannot be opened, or whose outpath cannot: what was     *)
(* built is finalized, and that removes the file at outpath, whatever it   *)
(* holds; before start_transaction this is the path given as persist.      *)
NewFails(m, persist) ==
  /\ step = "none"
  /\ \E removed \in File \cup {NoFile} :
       /\ \/ /\ m # "create" /\ ~IsDatabase(files["db"])
             /\ removed = persist
          \/ /\ m # "readonly" /\ (m # "create" => IsDatabase(files["db"]))
             /\ "start" \in CanFail
             /\ removed = OutpathFor(m, "db", persist)
       /\ files' = Without(removed)
       /\ discarded' = (discarded \/ (committed # Absent /\ removed # NoFile /\ files[removed] = committed))
  /\ UNCHANGED <<step, dbVars, committed, expected, failed, opens>>

(* Without an open file there are no strings, unless the database is new.  *)
(* What a program then does but close it, ends it (Crash).                 *)
Usable == step = "idle" /\ (infile # Absent \/ mode = "create")

(* get_table: a table that is not listed is read from the file.            *)
Read(t) ==
  /\ Usable
  /\ t \notin DOMAIN listed
  /\ listed' = [u \in DOMAIN listed \cup {t} |-> View(u)]
  /\ UNCHANGED <<files, step, mode, path, outpath, renameOutpath, infile, out, history>>

(* A statement changes a table in memory.                                  *)
Change(t) ==
  /\ Usable
  /\ View(t) < MaxEdits
  /\ listed' = [u \in DOMAIN listed \cup {t} |-> IF u = t THEN View(t) + 1 ELSE View(u)]
  /\ expected' = [expected EXCEPT ![t] = View(t) + 1]
  /\ UNCHANGED <<files, step, mode, path, outpath, renameOutpath, infile, out, committed, discarded, failed, opens>>

-----------------------------------------------------------------------------
(* libmsi_database_commit.  A database opened read-only has nothing to do. *)
(* The strings, the storages and the streams are written first: without an *)
(* outfile that fails.                                                     *)
CommitStart ==
  /\ Usable /\ mode # "readonly"
  /\ out # Absent
  /\ step' = "tables"
  /\ UNCHANGED <<files, dbVars, history>>

(* Mutant: a table that was saved stays in the list.                       *)
SaveTableKeeps(t) ==
  /\ step = "tables"
  /\ t \in DOMAIN listed
  /\ out' = [out EXCEPT ![t] = IF listed[t] = 0 THEN @ ELSE @ \cup {listed[t]}]
  /\ UNCHANGED <<files, step, mode, path, outpath, renameOutpath, infile, listed, history>>

(* _libmsi_database_commit_tables: each table listed is saved and leaves   *)
(* the list; one without rows is left out.                                 *)
SaveTable(t) ==
  /\ step = "tables"
  /\ t \in DOMAIN listed
  /\ out' = [out EXCEPT ![t] = IF listed[t] = 0 THEN @ ELSE @ \cup {listed[t]}]
  /\ listed' = [u \in DOMAIN listed \ {t} |-> listed[u]]
  /\ UNCHANGED <<files, step, mode, path, outpath, renameOutpath, infile, history>>

(* Anything that fails until then ends the commit there: the tables saved  *)
(* so far are gone from the list, and the streams stay written.            *)
CommitFails ==
  /\ \/ step = "tables" /\ "save" \in CanFail
     \/ Usable /\ mode # "readonly" /\ out = Absent
  /\ step' = "idle"
  /\ failed' = TRUE
  /\ UNCHANGED <<files, dbVars, committed, discarded, expected, opens>>

(* Mutant: the new file is not given its name, it is taken as the path.    *)
CloseOutNoRename ==
  /\ step = "tables" /\ listed = [t \in {} |-> 0]
  /\ \E content \in Assembled :
       files' = [files EXCEPT ![outpath] = content] /\ committed' = content
  /\ infile' = Absent /\ out' = Absent
  /\ step' = "reopen" /\ outpath' = NoFile
  /\ UNCHANGED <<mode, path, renameOutpath, listed, discarded, expected, failed, opens>>

(* Mutant: the new file becomes the path even if it is to replace it.      *)
CloseOutAsPath ==
  /\ step = "tables" /\ listed = [t \in {} |-> 0]
  /\ \E content \in Assembled :
       files' = [files EXCEPT ![outpath] = content] /\ committed' = content
  /\ infile' = Absent /\ out' = Absent
  /\ step' = "reopen" /\ path' = outpath /\ outpath' = NoFile
  /\ UNCHANGED <<mode, renameOutpath, listed, discarded, expected, failed, opens>>

(* All are saved: _libmsi_database_close(db, true) closes both files, and  *)
(* outpath holds the new database.  It becomes the path, or is to replace  *)
(* it.                                                                     *)
CloseOut ==
  /\ step = "tables" /\ listed = [t \in {} |-> 0]
  /\ \E content \in Assembled :
       files' = [files EXCEPT ![outpath] = content] /\ committed' = content
  /\ infile' = Absent /\ out' = Absent
  /\ IF renameOutpath THEN step' = "unlink" /\ UNCHANGED <<path, outpath>>
                      ELSE step' = "reopen" /\ path' = outpath /\ outpath' = NoFile
  /\ UNCHANGED <<mode, renameOutpath, listed, discarded, expected, failed, opens>>

(* Mutant: both files are removed before the new one is renamed.           *)
UnlinkBoth ==
  /\ step = "unlink"
  /\ files' = [files EXCEPT ![path] = Absent, ![outpath] = Absent]
  /\ step' = "rename"
  /\ UNCHANGED <<dbVars, history>>

(* unlink(db->path), and then rename(db->outpath, db->path).               *)
Unlink ==
  /\ step = "unlink"
  /\ files' = [files EXCEPT ![path] = Absent]
  /\ step' = "rename"
  /\ UNCHANGED <<dbVars, history>>

Rename ==
  /\ step = "rename"
  /\ files' = [files EXCEPT ![path] = files[outpath], ![outpath] = Absent]
  /\ outpath' = NoFile
  /\ step' = "reopen"
  /\ UNCHANGED <<mode, path, renameOutpath, infile, listed, out, history>>

(* Mutant: the file is not opened again.                                   *)
ReopenNothing ==
  /\ step = "reopen"
  /\ mode' = "transact"
  /\ infile' = Absent /\ listed' = [t \in {} |-> 0]
  /\ step' = "start"
  /\ UNCHANGED <<files, path, outpath, renameOutpath, out, history>>

(* The flags change and the database is opened again, and then a           *)
(* transaction starts.  Nobody hears of it if one of them fails: without a *)
(* file the database is not usable, without an outfile the next commit     *)
(* fails.                                                                  *)
Reopen ==
  /\ step = "reopen"
  /\ mode' = "transact"
  /\ \/ infile' = files[path] /\ listed' = Listing(files[path]) /\ failed' = failed
     \/ "open" \in CanFail /\ infile' = Absent /\ listed' = [t \in {} |-> 0] /\ failed' = TRUE
  /\ step' = "start"
  /\ UNCHANGED <<files, path, outpath, renameOutpath, out, committed, discarded, expected, opens>>

StartTransaction ==
  /\ step = "start"
  /\ outpath' = OutpathFor(mode, path, NoFile) /\ renameOutpath' = Renames(mode, NoFile)
  /\ \/ out' = NothingWritten
     \/ "start" \in CanFail /\ out' = Absent
  /\ step' = "idle"
  /\ UNCHANGED <<files, mode, path, infile, listed, history>>

CommitStep ==
  \/ \E t \in Tables : SaveTable(t)
  \/ CloseOut \/ Unlink \/ Rename \/ Reopen \/ StartTransaction

-----------------------------------------------------------------------------
Gone == /\ step' = "none"
        /\ mode' = "readonly" /\ path' = "db" /\ outpath' = NoFile /\ renameOutpath' = FALSE
        /\ infile' = Absent /\ listed' = [t \in {} |-> 0] /\ out' = Absent
        /\ expected' = EmptyContent /\ failed' = FALSE

(* Mutant: the path is unlinked, not the outpath.                          *)
ClosePath ==
  /\ step = "idle"
  /\ files' = [files EXCEPT ![path] = Absent]
  /\ Gone
  /\ UNCHANGED <<committed, discarded, opens>>

(* libmsi_database_finalize: what was not committed is removed, and that   *)
(* is the file at outpath, whatever it holds.                              *)
Close ==
  /\ step = "idle"
  /\ files' = Without(outpath)
  /\ Gone
  /\ UNCHANGED <<committed, discarded, opens>>

(* The program dies.  A file being written is as it was before, or holds   *)
(* what was written so far, or no database.                                *)
Crash ==
  /\ step # "none"
  /\ \/ UNCHANGED files
     \/ /\ out # Absent
        /\ \E content \in Assembled \cup {Garbage} : files' = [files EXCEPT ![outpath] = content]
  /\ Gone
  /\ UNCHANGED <<committed, discarded, opens>>

-----------------------------------------------------------------------------
Init ==
  /\ \E db \in {Absent} \cup [Tables -> {1}], old \in {Absent, EmptyContent} :
       files = [f \in File |-> CASE f = "db" -> db [] f = "out" -> old [] OTHER -> Absent]
  /\ step = "none"
  /\ mode = "readonly" /\ path = "db" /\ outpath = NoFile /\ renameOutpath = FALSE
  /\ infile = Absent /\ listed = [t \in {} |-> 0] /\ out = Absent
  /\ committed = Absent /\ discarded = FALSE /\ opens = 0
  /\ expected = EmptyContent /\ failed = FALSE

Next ==
  \/ \E m \in Modes, persist \in {NoFile, "out"} : New(m, persist) \/ NewFails(m, persist)
  \/ \E t \in Tables : Read(t) \/ Change(t)
  \/ CommitStart \/ CommitStep \/ CommitFails
  \/ Close \/ Crash

Spec == Init /\ [][Next]_vars

(* A commit is one call of one thread: once begun it runs on.              *)
FairSpec == Spec /\ WF_vars(CommitStep)

-----------------------------------------------------------------------------

DbTypeOK ==
  /\ \A f \in File : files[f] \in Content \cup {Absent, Garbage}
  /\ step \in {"none", "idle", "tables", "unlink", "rename", "reopen", "start"}
  /\ mode \in Mode /\ path \in Path /\ outpath \in File \cup {NoFile}
  /\ infile \in Content \cup {Absent}
  /\ DOMAIN listed \subseteq Tables /\ \A t \in DOMAIN listed : listed[t] \in 0 .. MaxEdits
  /\ out # Absent => \A t \in Tables : out[t] \subseteq 1 .. MaxEdits
  /\ committed \in Content \cup {Absent} /\ expected \in Content

(* What the last commit left, or the database as it was opened, is in some *)
(* file, whenever the program dies: between the unlink and the rename of   *)
(* _libmsi_database_close that is the ".tmp" file.  The exception is an    *)
(* open that fails: it may remove the last copy (discarded), for the path  *)
(* given as persist, or a ".tmp" file, can be where that is.               *)
LastCommitSurvives ==
  committed # Absent /\ ~discarded => \E f \in File : files[f] = committed

(* Until a commit has written the whole new database, the file at the path *)
(* is the last one.                                                        *)
FileIsCommitted ==
  step \in {"idle", "tables"} /\ committed # Absent => files[path] = committed

(* "committed database should exist", "uncommitted database should not     *)
(* exist" (tests/testdatabase.c:100, 90): closing leaves the former under  *)
(* its path and nothing of the latter.                                     *)
CloseOK ==
  [][Close =>
       \A p \in {path}, o \in {outpath} :
         /\ committed # Absent => files'[p] = committed
         /\ o # NoFile => files'[o] = Absent]_vars

(* "All tables are copied to the new file when committing" (table.c:881):  *)
(* unless a commit failed, the new database has every table as the last    *)
(* changes left it.  Closing, renaming and opening the file again is       *)
(* nothing a program can tell: it reads the tables as they were.           *)
CommitSavesAll ==
  /\ step = "start" /\ ~failed => files[path] = expected
  /\ step = "idle" /\ ~failed => \A t \in Tables : View(t) = expected[t]

(* A commit ends.                                                          *)
CommitEnds == step = "tables" ~> step \in {"idle", "none"}
=============================================================================
