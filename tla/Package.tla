------------------------------ MODULE Package ------------------------------
(***************************************************************************)
(* What a database has besides tables and strings: its streams, its        *)
(* storages and the summary information, over one list, under one commit.  *)
(***************************************************************************)
EXTENDS Streams, SummaryInfo, Storages

CONSTANT MaxSteps             \* bound: steps of a behaviour, for each part

ASSUME PackageAssumption ==
  /\ SummaryContents # {} /\ SummaryContents \subseteq Contents
  /\ Missing \notin Contents

VARIABLES part,               \* bound: the component that the program uses
          steps

packageVars == <<vars, objects, storageVars, part, steps>>
storageOnly == <<storages, savedStorages, wanted>>
streamsOnly == <<strings, views, cells, saved, given>>

(* The summary information is one stream of the list: statements that give *)
(* its name come between the steps of its objects.                         *)
Step ==
  \/ part = "streams" /\ Statement /\ UNCHANGED <<objects, storageOnly>>
  \/ part = "summary" /\ SummaryStep /\ UNCHANGED <<streamsOnly, storageOnly>>
  \/ /\ part = "summary" /\ \E data \in Data : Insert(SummaryName, data)
     /\ UNCHANGED <<objects, storageOnly>>
  \/ part = "storages" /\ StorageStatement /\ UNCHANGED <<streams, streamsOnly, objects>>
  \/ Commit /\ CommitStorages /\ UNCHANGED objects
  \/ (\A o \in Objects : objects[o] = Empty) /\ Reopen /\ ReopenStorages /\ UNCHANGED objects

PackageNext ==
  /\ steps < MaxSteps[part] /\ steps' = steps + 1
  /\ UNCHANGED part
  /\ Step

PackageInit ==
  /\ InitStreams /\ InitStorages
  /\ objects = [o \in Objects |-> Empty]
  /\ part \in DOMAIN MaxSteps /\ steps = 0
  (* What another part uses has one value to begin with.                   *)
  /\ part # "streams" => DOMAIN saved.streams = {SummaryName}
  /\ part # "summary" =>
       saved.streams[SummaryName] = CHOOSE content \in SummaryContents : TRUE
  /\ part # "storages" => savedStorages = <<>>

PackageSpec == PackageInit /\ [][PackageNext]_packageVars
-----------------------------------------------------------------------------
PackageTypeOK ==
  /\ \A i \in DOMAIN streams :
       IF streams[i].name = SummaryName
       THEN streams[i].data \in Contents
       ELSE streams[i].data \in Data /\ ~IsTableStream(streams[i].name)
  /\ \A v \in Views : views[v].count <= Len(views[v].rows) /\ Len(views[v].rows) <= MaxRows
  /\ DOMAIN cells \subseteq Keys /\ DOMAIN given = DOMAIN cells
  /\ \A o \in Objects : objects[o] # Empty => objects[o].left \in 0 .. MaxCount
  /\ \A i \in DOMAIN storages : storages[i].name \in StorageNames
  /\ status \in {"ok", "undefined"}
=============================================================================
