---------------------------- MODULE SummaryInfo ----------------------------
(***************************************************************************)
(* The summary information of a package (libmsi-summary-info.c).  It is a  *)
(* stream of typed properties.  An object reads the stream when it is made *)
(* and writes all its properties over it when it is persisted; import      *)
(* makes, changes and persists one in one call (msi_add_suminfo).          *)
(*                                                                         *)
(* Values are numbers; a text stands for the number, or the time, that it  *)
(* reads as.                                                               *)
(***************************************************************************)
EXTENDS StreamList

CONSTANTS Objects,
          Properties,         \* those get_type knows: property -> type
          Values,
          MaxCount,           \* bound: what an object is allowed to change
          Imports,            \* the sequences of properties that are imported
          Empty

Types == {"I2", "I4", "FILETIME", "LPSTR"}
MSI_MAX_PROPS == 20

(* An entry of the stream: whether the section has room for its value.     *)
Property(id, type, value, fits) == [id |-> id, type |-> type, value |-> value, fits |-> fits]
Contents == Seq([id : Int, type : Types, value : Values, fits : BOOLEAN])

ASSUME SummaryAssumption ==
  /\ Properties \in [DOMAIN Properties -> Types] /\ DOMAIN Properties \subseteq 0 .. MSI_MAX_PROPS - 1
  /\ Empty \notin Values /\ MaxCount \in Nat
  /\ \A changes \in Imports : changes \in Seq([id : Int, value : Values])

VARIABLE objects              \* for each object, or Empty: its properties, the count of
                              \* changes left; and, as history, the stream it was read from
                              \* and the properties it was given

summaryVars == <<streams, readonly, status, objects>>

Properties0 == [p \in DOMAIN Properties |-> Empty]

(* read_properties_from_data: entries in the order of the stream, up to    *)
(* the first that is not understood.  A text is converted to the type of   *)
(* its property.                                                           *)
Understood(entry) ==
  /\ entry.id \in DOMAIN Properties /\ entry.fits
  /\ entry.type \in {Properties[entry.id], "LPSTR"}

(* The value is read over one of before, if any, before its type is looked *)
(* at.  (A text of before would then begin at an address that is that      *)
(* number; here it stands for it like any other.)                          *)
Overwrites(state, entry) ==
  entry.id \in DOMAIN Properties /\ entry.fits /\ state.props[entry.id] # Empty

ReadProperty(state, entry) ==
  IF ~state.stopped /\ (Understood(entry) \/ Overwrites(state, entry))
  THEN [state EXCEPT !.props[entry.id] = entry.value, !.stopped = ~Understood(entry)]
  ELSE [state EXCEPT !.stopped = TRUE]

Loaded(content) ==
  LET after[i \in 0 .. Len(content)] ==
        IF i = 0 THEN [props |-> Properties0, stopped |-> FALSE]
        ELSE ReadProperty(after[i - 1], content[i])
  IN after[Len(content)].props

(* load_summary_info: nothing is read of too many entries.                 *)
Load(content) ==
  IF content = Missing \/ Len(content) > MSI_MAX_PROPS THEN Properties0 ELSE Loaded(content)

(* suminfo_persist: the properties that are set, in ascending order.       *)
Persistent(props) ==
  LET upTo[i \in 0 .. MSI_MAX_PROPS] ==
        IF i = 0 THEN <<>>
        ELSE IF i - 1 \in DOMAIN props /\ props[i - 1] # Empty
             THEN Append(upTo[i - 1], Property(i - 1, Properties[i - 1], props[i - 1], TRUE))
        ELSE upTo[i - 1]
  IN upTo[MSI_MAX_PROPS]

-----------------------------------------------------------------------------
SummaryStream == DataOf(streams, SummaryName)

(* libmsi_summary_info_new, with a database or without.                    *)
New(o, count, content) ==
  /\ status = "ok" /\ objects[o] = Empty
  /\ objects' = [objects EXCEPT ![o] =
                   [props |-> Load(content), left |-> count, read |-> content, set |-> {}]]
  /\ UNCHANGED <<streams, readonly, status>>

Release(o) ==
  /\ status = "ok" /\ objects[o] # Empty
  /\ objects' = [objects EXCEPT ![o] = Empty]
  /\ UNCHANGED <<streams, readonly, status>>

(* Mutant: each change is counted.                                         *)
SetCounting(object, p, value) ==
  IF object.props[p] = Empty /\ object.left = 0 THEN object
  ELSE [object EXCEPT !.props[p] = value, !.set = @ \cup {p}, !.left = @ - 1]

(* _libmsi_summary_info_set_property: only a property that was empty is    *)
(* counted, and refused when the count is used up.                         *)
SetProperty(object, p, value) ==
  IF object.props[p] = Empty /\ object.left = 0 THEN object
  ELSE [object EXCEPT !.props[p] = value, !.set = @ \cup {p},
                      !.left = IF object.props[p] = Empty THEN @ - 1 ELSE @]

Set(o, p, value) ==
  /\ status = "ok" /\ objects[o] # Empty
  /\ objects' = [objects EXCEPT ![o] = SetProperty(@, p, value)]
  /\ UNCHANGED <<streams, readonly, status>>

(* libmsi_summary_info_persist and _save.                                  *)
Persist(o) ==
  /\ status = "ok" /\ objects[o] # Empty
  /\ streams' = IF readonly THEN streams
                ELSE Written(streams, SummaryName, Persistent(objects[o].props))
  /\ UNCHANGED <<readonly, status, objects>>

(* Each change to an object that has these properties.                     *)
Changed(props, changes) ==
  LET after[i \in 0 .. Len(changes)] ==
        IF i = 0 THEN [props |-> props, left |-> Len(changes), set |-> {}]
        ELSE SetProperty(after[i - 1], changes[i].id, changes[i].value)
  IN after[Len(changes)].props

(* Mutant: the object of an import does not read the stream.               *)
ImportedAfresh(changes) == Changed(Properties0, changes)

(* msi_add_suminfo: one property after the other; an unknown one fails the *)
(* import, and nothing is written.                                         *)
Imported(changes) == Changed(Load(SummaryStream), changes)

Import(changes) ==
  /\ status = "ok" /\ changes # <<>>
  /\ streams' = IF readonly \/ \E i \in DOMAIN changes : changes[i].id \notin DOMAIN Properties
                THEN streams
                ELSE Written(streams, SummaryName, Persistent(Imported(changes)))
  /\ UNCHANGED <<readonly, status, objects>>

SummaryStep ==
  \/ \E o \in Objects :
       \/ \E count \in 0 .. MaxCount, content \in {Missing, SummaryStream} : New(o, count, content)
       \/ Release(o) \/ Persist(o)
       \/ \E p \in DOMAIN Properties, value \in Values : Set(o, p, value)
  \/ \E changes \in Imports : Import(changes)

-----------------------------------------------------------------------------
(* What objects read of the stream now.                                    *)
Readable == Load(SummaryStream)

(* Writing the summary information changes what is read of the properties  *)
(* that were given, and of no other; for an object, if nobody has written  *)
(* the stream since it was made: it is written as a whole, from what was   *)
(* read then (libmsi-summary-info.c:130).  Entries behind one that was not *)
(* understood are never read, and lost.                                    *)
OnlyGivenChange ==
  [][/\ \A o \in Objects : Persist(o) /\ objects[o].read = SummaryStream =>
          \A p \in DOMAIN Properties : Readable'[p] # Readable[p] => p \in objects[o].set
     /\ \A changes \in Imports : Import(changes) =>
          \A p \in DOMAIN Properties :
            Readable'[p] # Readable[p] => \E i \in DOMAIN changes : changes[i].id = p]_summaryVars
=============================================================================
