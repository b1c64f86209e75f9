-------------------------------- MODULE Bulk -------------------------------
(***************************************************************************)
(* Whole tables moved between databases: merging, exporting and importing  *)
(* over one set of tables, each call run to its end.                       *)
(***************************************************************************)
EXTENDS Merge, ImportExport

CONSTANTS MaxMerges, MaxExports       \* bounds: calls of a behaviour

VARIABLES merges, exports             \* bounds: calls so far

bulkVars == <<mergeVars, archive, merges, exports>>
mergeOnly == <<phase, todo, conflicts, r, call>>

Call ==
  /\ merges < MaxMerges /\ merges' = merges + 1
  /\ \E source \in Sources :
       \/ \E error \in ErrorNames \cup {NoTable} : BeginMerge(source, error)
       \/ MergeMismatch(source)
  /\ UNCHANGED <<archive, exports>>

MergeStep ==
  /\ MergeTable \/ MergeTableRefused \/ RecordConflicts \/ RecordNowhere \/ EndMerge
  /\ UNCHANGED <<archive, merges, exports>>

ExportStep ==
  /\ phase = "idle" /\ exports < MaxExports /\ exports' = exports + 1
  /\ \E name \in DOMAIN db : Export(name)
  /\ UNCHANGED <<mergeOnly, merges>>

ImportStep ==
  /\ phase = "idle"
  /\ Import \/ ImportRefused \/ ImportShort \/ OpenOther
  /\ UNCHANGED <<mergeOnly, merges, exports>>

BulkNext == Call \/ MergeStep \/ ExportStep \/ ImportStep

BulkInit ==
  /\ db \in Sources
  /\ archive = NoArchive /\ result = "ok" /\ status = "ok"
  /\ phase = "idle" /\ todo = <<>> /\ conflicts = FALSE /\ r = "ok" /\ call = NoCall
  /\ merges = 0 /\ exports = 0

BulkSpec == BulkInit /\ [][BulkNext]_bulkVars
-----------------------------------------------------------------------------
(* After any call, however it ended: rows have a cell for each column,     *)
(* none is NULL that may not be, and no two rows have the same keys.       *)
BulkTypeOK ==
  /\ \A name \in DOMAIN db : LET table == db[name] IN
       \A row \in table.rows :
         /\ Len(row) = Len(table.cols) /\ ~NullRefused(table.cols, row)
         /\ \A other \in table.rows \ {row} : ~SameKey(table.cols, row, other)
  /\ result \in {"ok", "failed"} /\ status \in {"ok", "undefined"}
  /\ phase = "idle" => todo = <<>> /\ call = NoCall
=============================================================================
