------------------------------ MODULE MCMioItems ------------------------------
(* MioItems for TLC: schedules of up to two events and the events merged into   *)
(* them, a device with two transducers, and lists of two or three readings.     *)
EXTENDS MioItems, TLC

Event(id, text, rec) == [id |-> id, text |-> text, recurrence |-> rec]
Rec(freq, month, day) ==
  [f \in RecurrenceFields |-> CASE f = "freq" -> freq [] f = "bymonth" -> month
                                [] f = "byday" -> day]
Geoloc(accuracy, alt, text) ==
  [f \in {"accuracy", "alt", "text"} |->
     CASE f = "accuracy" -> accuracy [] f = "alt" -> alt [] f = "text" -> text]
Property(name, value) == [name |-> name, value |-> value]
Transducer(name, text, geoloc, properties) ==
  [Meta!TransducerNew EXCEPT !.name = name, !.text = text, !.info = "i",
                             !.geoloc = geoloc, !.properties = properties]
Device ==
  [Meta!MetaNew EXCEPT
     !.type = "device", !.name = "n", !.timestamp = "t", !.geoloc = Geoloc("1", None, "a"),
     !.transducers = <<Transducer("t1", "a", None, <<Property("p", "1"), Property("q", "1")>>),
                       Transducer("t2", None, Geoloc(None, None, "a"), <<>>)>>,
     !.properties = <<Property("x", "1"), Property("y", "1")>>]
Place == [Meta!MetaNew EXCEPT !.type = "location", !.name = "m", !.timestamp = "u"]

ClientSymmetry == Permutations(Clients)

MCStarts ==
  [k \in Kinds |->
     CASE k = "schedule" ->
            {NoItem, EventsToItem(Renumber(<<Event(0, "a", Rec("d", "1", "2")),
                                             Event(0, "b", None)>>))}
       [] k = "meta" -> {NoItem, Meta!MetaToItem(Device)}
       [] k = "data" -> {<<>>}]

ScheduleCalls ==
  [type : {"merge"},
   events : {<<Event(0, "c", None)>>,
             <<Event(-1, "c", Rec("w", None, None))>>,
             <<Event(1, None, Rec(None, "3", "4")), Event(7, "d", None)>>,
             <<Event(5, "c", None), Event(0, "c", None), Event(0, "d", None),
               Event(5, "e", None)>>,
             <<Event(7, "c", None), Event(-1, "d", Rec("w", None, None))>>,
             <<Event(2, "c", Rec(None, None, "4"))>>}]
  \cup [type : {"remove"}, id : {0, 3}]

MetaCalls ==
  [type : {"publish"}, meta : {Device, Place, Meta!MetaNew}]
  \cup [type : {"merge"},
        meta : {[Place EXCEPT !.info = "i", !.geoloc = Geoloc(None, None, "b")],
                [Device EXCEPT !.transducers = <<>>, !.geoloc = Geoloc("2", "3", None),
                               !.properties = <<Property("x", "2"), Property("z", "2")>>]}]
  \cup [type : {"geoloc_remove"}, name : {None, "t2"}]
  \cup [type : {"remove"}, transducers : {<<"t1">>}, properties : {<<"y", "w">>}]
  \cup [type : {"retract"}]
  \cup [type : {"transducer_merge"},
        transducer : {Transducer("t1", None, None,
                        <<Property("q", "2"), Property("r", "2"), Property("r", "3")>>),
                      [Transducer("t1", "b", Geoloc("1", None, None), <<>>)
                         EXCEPT !.enum = <<Property("on", "1"), Property("off", None)>>]}]

MCCalls ==
  [k \in Kinds |->
     CASE k = "schedule" -> ScheduleCalls
       [] k = "meta" -> MetaCalls
       [] k = "data" -> [type : {"data"}, data : {<<"a">>, <<"a", "b", "c">>}]]
===============================================================================
