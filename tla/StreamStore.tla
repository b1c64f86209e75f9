---------------------------- MODULE StreamStore ----------------------------
(***************************************************************************)
(* What a program may take the streams of a database for: a map from names *)
(* to data, of which the file has the map as it was at the last commit.    *)
(***************************************************************************)
VARIABLES store, committed

(* One stream or several get the same data, and no other changes.          *)
Put ==
  /\ DOMAIN store \subseteq DOMAIN store'
  /\ \E n \in DOMAIN store' : \A name \in DOMAIN store' :
       \/ store'[name] = store'[n]
       \/ name \in DOMAIN store /\ store'[name] = store[name]
  /\ UNCHANGED committed

(* Some go, and no other changes.                                          *)
Remove ==
  /\ DOMAIN store' \subseteq DOMAIN store
  /\ \A name \in DOMAIN store' : store'[name] = store[name]
  /\ UNCHANGED committed

Commit == committed' = store /\ UNCHANGED store

(* Closed without a commit, and opened again.                              *)
Revert == store' = committed /\ UNCHANGED committed

StoreSpec == store = committed /\ [][Put \/ Remove \/ Commit \/ Revert]_<<store, committed>>
=============================================================================
