------------------------------- MODULE MioMeta -------------------------------
(* The meta data of an event node (src/src/mio_meta.c and mio_geolocation.c):  *)
(* what a device or location is, where it is, its transducers and properties.  *)
(* As in MioSchedule, members the code treats alike are one field: "text" of a *)
(* geoloc stands for its 20 members other than accuracy and alt, "text" of a   *)
(* transducer for type, interface, manufacturer, serial, unit, and the values. *)
EXTENDS Integers, SequencesExt

CONSTANT None

LOCAL Given(old, new) == IF new = None THEN old ELSE new
LOCAL Over(old, new) == [f \in DOMAIN old |-> Given(old[f], new[f])]
LOCAL Named(list, name) == SelectInSeq(list, LAMBDA x : x.name = name)

GeolocFields == {"accuracy", "alt", "text"}
GeolocNew == [f \in GeolocFields |-> None]
GeolocMerge(old, new) == Over(old, new)
(* The element "alt" is given the number that accuracy points to.              *)
GeolocToStanza(geoloc) ==
  [geoloc EXCEPT !["alt"] = IF @ = None THEN None ELSE geoloc["accuracy"]]
GeolocCrash(geoloc) ==
  geoloc # None /\ geoloc["alt"] # None /\ geoloc["accuracy"] = None
GeolocOfStanza(geoloc) == Over(GeolocNew, geoloc)

(* Mutant: a new geoloc takes the place of the old one.                        *)
ReplacedGeoloc(old, new) == IF new = None THEN old ELSE GeolocMerge(GeolocNew, new)

(* A geoloc is made if there was none, and then merged.                        *)
MergedGeoloc(old, new) ==
  IF new = None THEN old
  ELSE GeolocMerge(IF old = None THEN GeolocNew ELSE old, new)

PropertyNew == [name |-> None, value |-> None]
PropertyMerge(old, new) == Over(old, new)

TransducerNew == [name |-> None, text |-> None, info |-> None, enum |-> <<>>,
                  geoloc |-> None, properties |-> <<>>]

(* A copy, or nothing when an entry lacks its name or its value.               *)
EnumClone(enum) ==
  IF \E i \in DOMAIN enum : None \in {enum[i].name, enum[i].value} THEN <<>>
  ELSE enum

(* Mutant: a property is appended without looking for its name.                *)
AppendProperty(list, new) == Append(list, PropertyMerge(PropertyNew, new))

(* Every property of the same name is updated; without one, it is appended.    *)
MergeProperty(list, new) ==
  IF Named(list, new.name) = 0 THEN Append(list, PropertyMerge(PropertyNew, new))
  ELSE [i \in DOMAIN list |->
          IF list[i].name = new.name THEN PropertyMerge(list[i], new) ELSE list[i]]

TransducerMerge(old, new) ==
  [name |-> Given(old.name, new.name),
   text |-> Given(old.text, new.text),
   info |-> Given(old.info, new.info),
   enum |-> IF new.enum = <<>> THEN old.enum ELSE EnumClone(new.enum),
   geoloc |-> MergedGeoloc(old.geoloc, new.geoloc),
   properties |-> FoldLeft(MergeProperty, old.properties, new.properties)]

MetaNew == [type |-> "unknown", name |-> None, info |-> None, timestamp |-> None,
            geoloc |-> None, transducers |-> <<>>, properties |-> <<>>]

(* Only the first property is merged, into the first one; transducers are not. *)
MetaMerge(old, new) ==
  [old EXCEPT
     !.type = new.type,
     !.name = Given(@, new.name),
     !.info = Given(@, new.info),
     !.geoloc = MergedGeoloc(@, new.geoloc),
     !.properties =
        IF new.properties = <<>> THEN @
        ELSE IF @ = <<>> THEN <<PropertyMerge(PropertyNew, new.properties[1])>>
             ELSE [@ EXCEPT ![1] = PropertyMerge(@, new.properties[1])],
     !.timestamp = new.timestamp]
(* strcmp of the two names, and strdup of the new time stamp.                  *)
MetaMergeCrash(old, new) == None \in {old.name, new.name, new.timestamp}

Without(list, name) == RemoveFirstMatch(list, LAMBDA x : x.name = name)
TransducerRemove(list, name) == Without(list, name)
PropertyRemove(list, name) == Without(list, name)

(* Mutant: the geoloc of the node goes with that of the transducer.            *)
GeolocRemoveBoth(meta, name) ==
  LET at == Named(meta.transducers, name)
  IN IF at = 0 THEN [meta EXCEPT !.geoloc = None]
     ELSE [meta EXCEPT !.geoloc = None, !.transducers[at].geoloc = None]

(* The geoloc of the node, or of the first transducer of that name.            *)
GeolocRemove(meta, name) ==
  IF name = None THEN [meta EXCEPT !.geoloc = None]
  ELSE LET at == Named(meta.transducers, name)
       IN IF at = 0 THEN meta
          ELSE [meta EXCEPT !.transducers[at].geoloc = None]
(* It is freed without looking whether there is one.                           *)
GeolocRemoveCrash(meta, name) ==
  IF name = None THEN meta.geoloc = None
  ELSE LET at == Named(meta.transducers, name)
       IN at # 0 /\ meta.transducers[at].geoloc = None

LOCAL Geolocs(meta) ==
  {meta.geoloc} \cup {meta.transducers[i].geoloc : i \in DOMAIN meta.transducers}
(* No item is made of an unknown type, and the callers use it all the same.    *)
MetaCrash(meta) ==
  meta.type = "unknown" \/ \E geoloc \in Geolocs(meta) : GeolocCrash(geoloc)

(* The item: a transducer's info is not written, nor a property that lacks its *)
(* name or value.                                                              *)
MetaToItem(meta) ==
  LET Loc(geoloc) == IF geoloc = None THEN None ELSE GeolocToStanza(geoloc)
  IN [meta EXCEPT
        !.geoloc = Loc(@),
        !.transducers =
           [i \in DOMAIN @ |-> [@[i] EXCEPT !.info = None, !.geoloc = Loc(@)]],
        !.properties =
           SelectSeq(@, LAMBDA p : None \notin {p.name, p.value})]

(* After the geoloc of a transducer the parser's payload is that geoloc; the   *)
(* transducer's properties are then stored through it as through a transducer. *)
Confused(item) ==
  \E i \in DOMAIN item.transducers :
    item.transducers[i].geoloc # None /\ item.transducers[i].properties # <<>>

MetaOfItem(item) ==
  LET Loc(geoloc) == IF geoloc = None THEN None ELSE GeolocOfStanza(geoloc)
  IN [item EXCEPT !.geoloc = Loc(@),
                  !.transducers =
                     [i \in DOMAIN @ |-> [@[i] EXCEPT !.geoloc = Loc(@)]]]
(* The answer for a node without meta data.                                    *)
MetaOfNothing == [MetaNew EXCEPT !.type = "device"]
===============================================================================
