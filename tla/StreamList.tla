---------------------------- MODULE StreamList -----------------------------
(***************************************************************************)
(* The streams of an open database (libmsi-database.c): the list           *)
(* db->streams, which is read from the file when it is opened and written  *)
(* to it by a commit.  Streams with a mark in front of their name are the  *)
(* tables and not in the list.  The names in the list are encoded, except  *)
(* that the summary information has its own name as it is.                 *)
(***************************************************************************)
EXTENDS StreamNames, FiniteSets, SequencesExt

CONSTANTS SummaryName,        \* szSumInfo: a control character and letters
          Missing             \* no stream, no data

VARIABLES streams,            \* db->streams: names and data
          readonly,
          status              \* "ok", or "undefined" behaviour, which ends the model

Entry(name, data) == [name |-> name, data |-> data]

(* find_infile_stream: the first of that name.                             *)
Places(list, name) == {i \in DOMAIN list : list[i].name = name}
First(S) == CHOOSE i \in S : \A j \in S : i <= j
DataOf(list, name) ==
  IF Places(list, name) = {} THEN Missing ELSE list[First(Places(list, name))].data

(* msi_destroy_stream: the first of that name, if there is one.            *)
Destroyed(list, name) ==
  IF Places(list, name) = {} THEN list ELSE RemoveAt(list, First(Places(list, name)))

(* write_raw_stream_data: a name that is taken as it is.                   *)
Written(list, name, data) == Append(Destroyed(list, name), Entry(name, data))

(* A name that is there gets other data.                                   *)
Placed(list, name, data) ==
  IF Places(list, name) = {} THEN Append(list, Entry(name, data))
  ELSE [list EXCEPT ![First(Places(list, name))].data = data]

(* Mutant: the list is searched for the name as it was given.              *)
CreatedUnsought(list, name, data) ==
  IF Places(list, name) = {} THEN Append(list, Entry(Encode(name), data))
  ELSE [list EXCEPT ![First(Places(list, name))].data = data]

(* msi_create_stream: the name is encoded.                                 *)
Created(list, name, data) == Placed(list, Encode(name), data)

(* commit_stream and cache_infile_structure: what is in the file, and the  *)
(* list read from it, in an order that depends on the names.               *)
OnFile(list) ==
  [name \in {list[i].name : i \in DOMAIN list} |-> DataOf(list, name)]
Listing(names, file) ==
  LET order == SetToSeq(names) IN [i \in DOMAIN order |-> Entry(order[i], file[order[i]])]
Cached(file) == Listing({name \in DOMAIN file : ~IsTableStream(name)}, file)

With(f, key, value) == [k \in DOMAIN f \cup {key} |-> IF k = key THEN value ELSE f[k]]
=============================================================================
