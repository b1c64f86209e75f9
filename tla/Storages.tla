------------------------------ MODULE Storages ------------------------------
(***************************************************************************)
(* The storages inside a database: statements on `_Storages` (storages.c), *)
(* the list db->storages, and how a commit copies them                     *)
(* (libmsi-database.c).                                                    *)
(*                                                                         *)
(* What a storage holds is a set of entries, each with its path and        *)
(* whether it is a directory.                                              *)
(***************************************************************************)
EXTENDS StreamList

CONSTANTS StorageNames,
          Trees,              \* the storages statements are given
          NoStorage           \* data that is not a storage

ASSUME StoragesAssumption ==
  NoStorage \notin Trees /\ \A tree \in Trees : tree \subseteq [path : Seq(Nat), dir : BOOLEAN]

VARIABLES storages,           \* db->storages
          savedStorages,      \* in the file
          wanted              \* history: what was inserted and not deleted

storageVars == <<readonly, status, storages, savedStorages, wanted>>

StoredNames == {storages[i].name : i \in DOMAIN storages}

(* Mutant: a storage that is there is not looked for.                      *)
CreatedAgain(name, data) ==
  IF readonly \/ data = NoStorage THEN storages ELSE Append(storages, Entry(name, data))

(* msi_create_storage: nothing is made of data that is no storage, or in a *)
(* database that is read-only.                                             *)
CreatedStorage(name, data) ==
  IF readonly \/ data = NoStorage THEN storages ELSE Placed(storages, name, data)

(* INSERT: succeeds whatever becomes of the storage.                       *)
InsertStorage(name, data) ==
  /\ status = "ok"
  /\ storages' = CreatedStorage(name, data)
  /\ wanted' = IF readonly \/ data = NoStorage THEN wanted ELSE With(wanted, name, data)
  /\ UNCHANGED <<savedStorages, readonly, status>>

(* Behind a row that was read from the list the array is not initialised,  *)
(* and what is in it may be taken for a row (storages_set_table_size).     *)
InsertUndefined ==
  /\ status = "ok" /\ storages # <<>>
  /\ status' = "undefined"
  /\ UNCHANGED <<storages, savedStorages, readonly, wanted>>

(* UPDATE of the data of the rows found.                                   *)
UpdateStorages(found, data) ==
  /\ status = "ok" /\ found # {} /\ found \subseteq StoredNames
  /\ storages' = IF readonly \/ data = NoStorage THEN storages
                 ELSE [i \in DOMAIN storages |-> IF storages[i].name \in found
                         THEN Entry(storages[i].name, data) ELSE storages[i]]
  /\ wanted' = IF readonly \/ data = NoStorage THEN wanted
               ELSE [n \in DOMAIN wanted |-> IF n \in found THEN data ELSE wanted[n]]
  /\ UNCHANGED <<savedStorages, readonly, status>>

(* DELETE: the rows are those of the list, and each that was found is      *)
(* deleted by the number it had, while the rows behind a deleted one move  *)
(* down.  The number one past the last is accepted, where the pointer that *)
(* was moved from is still found.                                          *)
DeleteStorageRow(state, row) ==
  IF row > state.count + 1 THEN state
  ELSE [state EXCEPT !.list = Destroyed(@, state.rows[row]), !.count = @ - 1,
          !.rows = [i \in DOMAIN @ |-> IF i \in row .. state.count - 1 THEN @[i + 1] ELSE @[i]]]

DeletedStorages(found) ==
  LET after[row \in 0 .. Len(storages)] ==
        IF row = 0 THEN [list |-> storages, count |-> Len(storages),
                         rows |-> [i \in DOMAIN storages |-> storages[i].name]]
        ELSE IF row \in found THEN DeleteStorageRow(after[row - 1], row) ELSE after[row - 1]
  IN after[Len(storages)].list

DeleteStorages(found) ==
  /\ status = "ok" /\ found # {} /\ found \subseteq DOMAIN storages
  /\ storages' = DeletedStorages(found)
  /\ wanted' = LET gone == IF Cardinality(found) = 1 THEN {storages[i].name : i \in found}
                           ELSE DOMAIN wanted \ StoredNames' IN
               [n \in DOMAIN wanted \ gone |-> wanted[n]]
  /\ UNCHANGED <<savedStorages, readonly, status>>

-----------------------------------------------------------------------------
(* gsf_infile_copy: a directory without entries becomes a stream.          *)
Below(tree, path) == {e \in tree : Len(e.path) > Len(path) /\ SubSeq(e.path, 1, Len(path)) = path}
Copied(tree) == {[e EXCEPT !.dir = @ /\ Below(tree, e.path) # {}] : e \in tree}

CommitStorages ==
  /\ savedStorages' = [name \in StoredNames |-> Copied(DataOf(storages, name))]
  /\ storages' = Listing(StoredNames, savedStorages')
  /\ UNCHANGED wanted

ReopenStorages ==
  /\ storages' = Listing(DOMAIN savedStorages, savedStorages)
  /\ wanted' = savedStorages
  /\ UNCHANGED savedStorages

InitStorages ==
  /\ \E present \in SUBSET StorageNames, tree \in Trees :
       IsFiniteSet(present) /\ savedStorages = [name \in present |-> Copied(tree)]
  /\ storages = Listing(DOMAIN savedStorages, savedStorages)
  /\ wanted = savedStorages

StorageStatement ==
  \/ \E name \in StorageNames, data \in Trees \cup {NoStorage} : InsertStorage(name, data)
  \/ \E found \in SUBSET (1 .. Len(storages)) : DeleteStorages(found)
  \/ \E found \in SUBSET StorageNames, data \in Trees \cup {NoStorage} : UpdateStorages(found, data)
  \/ InsertUndefined

-----------------------------------------------------------------------------
(* The list and the file have each storage once, and with the contents it  *)
(* was given, whatever statements and commits came after; a commit may     *)
(* have made a stream of a directory without entries (gsf_infile_copy,     *)
(* libmsi-database.c:2299).                                                *)
StoragesKept ==
  /\ StoredNames = DOMAIN wanted /\ Cardinality(StoredNames) = Len(storages)
  /\ \A name \in DOMAIN wanted :
       DataOf(storages, name) \in {wanted[name], Copied(wanted[name])}
=============================================================================
