------------------------------- MODULE MioItems -------------------------------
(* Clients that edit what an event node holds: mio_schedule_event_merge_publish *)
(* and _remove_publish, mio_meta_publish, _merge_publish, _geoloc_remove_publish*)
(* and _remove_publish, a program that merges a transducer between mio_meta_    *)
(* query and mio_meta_publish, and mio_publish_data.  Each one queries the item,*)
(* edits its copy and publishes the result as a whole; nothing keeps others     *)
(* from publishing in between.  What a blocking request does is in MioRequest:  *)
(* here it is answered, refused, or gets no answer, in which case the server    *)
(* may have carried it out or not.                                              *)
EXTENDS MioSchedule, FiniteSets

CONSTANTS Clients,      \* each one a client with a connection of its own
          Starts,       \* [kind |-> set of items the node may hold at first]
          Calls,        \* [kind |-> set of calls that a client may make]
          MaxCalls      \* bound on the calls of one client

Meta == INSTANCE MioMeta

NoItem == <<>>

(* What the node holds at first was published by such calls; a schedule is only *)
(* merged and removed from, and data without a reading makes no request.        *)
IsSchedule(events) ==
  /\ IsEvents(events)
  /\ \A i \in DOMAIN events :
       LET rec == events[i].recurrence
       IN events[i].id = i - 1 /\ (rec # None => rec = RecurrenceToStanza(rec))
StartsAreSound == /\ \A events \in Starts["schedule"] : IsSchedule(events)
                  /\ Starts["data"] \subseteq {NoItem}
CallsAreSound ==
  /\ \A new \in Calls["schedule"] :
       new.type = "remove" \/ (new.type = "merge" /\ IsEvents(new.events))
  /\ \A new \in Calls["data"] : new.type = "data" /\ Len(new.data) \in Nat \ {0}
ASSUME NoneAssumption == None \notin Int
ASSUME ItemsAssumption == StartsAreSound /\ CallsAreSound /\ MaxCalls \in Nat

VARIABLES kind,     \* which item of the node the clients work on
          item,     \* the server's item, or NoItem; for data, all that was published
          pc, call, \* what a client is doing
          copy,     \* the packet it got as the answer to its query, or None
          sent,     \* how many items of its data it has published
          calls,    \* how many calls it has made
          result,   \* what its last call returned
          fresh     \* auxiliary: the item is still the one its copy was made of

vars == <<kind, item, pc, call, copy, sent, calls, result, fresh>>
client == <<pc, call, copy, sent, calls, result, fresh>>

Kinds == {"schedule", "meta", "data"}
Blind == {"publish", "data"}      \* the calls that do not query

Init == /\ kind \in Kinds
        /\ item \in Starts[kind]
        /\ pc = [c \in Clients |-> "idle"]
        /\ call = [c \in Clients |-> None]
        /\ copy = [c \in Clients |-> None]
        /\ sent = [c \in Clients |-> 0]
        /\ calls = [c \in Clients |-> 0]
        /\ result = [c \in Clients |-> "none"]
        /\ fresh = [c \in Clients |-> FALSE]

(* Mutant: the copy of the call before is left.                                 *)
BeginKeepsCopy(c) ==
  /\ pc[c] = "idle" /\ calls[c] < MaxCalls
  /\ \E new \in Calls[kind] :
       /\ call' = [call EXCEPT ![c] = new]
       /\ pc' = [pc EXCEPT ![c] = IF new.type \in Blind THEN "publish" ELSE "query"]
  /\ calls' = [calls EXCEPT ![c] = @ + 1]
  /\ sent' = [sent EXCEPT ![c] = 0]
  /\ fresh' = [fresh EXCEPT ![c] = FALSE]
  /\ UNCHANGED <<kind, item, copy, result>>

Begin(c) ==
  /\ pc[c] = "idle" /\ calls[c] < MaxCalls
  /\ \E new \in Calls[kind] :
       /\ call' = [call EXCEPT ![c] = new]
       /\ pc' = [pc EXCEPT ![c] = IF new.type \in Blind THEN "publish" ELSE "query"]
  /\ calls' = [calls EXCEPT ![c] = @ + 1]
  /\ sent' = [sent EXCEPT ![c] = 0]
  /\ copy' = [copy EXCEPT ![c] = None]
  /\ fresh' = [fresh EXCEPT ![c] = FALSE]
  /\ UNCHANGED <<kind, item, result>>

Return(c, value) == /\ pc' = [pc EXCEPT ![c] = "idle"]
                    /\ result' = [result EXCEPT ![c] = value]

-------------------------------------------------------------------------------
(* The query.                                                                   *)
Parsed == CASE kind = "schedule" -> EventsOfItem(item)
            [] kind = "meta" -> IF item = NoItem THEN Meta!MetaOfNothing
                                ELSE Meta!MetaOfItem(item)

(* Behaviour is undefined once the parser has taken a geoloc for a transducer.  *)
QueryAnswered(c) ==
  /\ pc[c] = "query"
  /\ IF kind = "meta" /\ item # NoItem /\ Meta!Confused(item)
     THEN /\ pc' = [pc EXCEPT ![c] = "undefined"]
          /\ UNCHANGED <<copy, fresh>>
     ELSE /\ pc' = [pc EXCEPT ![c] = "publish"]
          /\ copy' = [copy EXCEPT ![c] = Parsed]
          /\ fresh' = [fresh EXCEPT ![c] = TRUE]
  /\ UNCHANGED <<kind, item, call, sent, calls, result>>

(* An error, or no answer: only the merge of a schedule goes on, without a copy.*)
QueryFailed(c) ==
  /\ pc[c] = "query"
  /\ IF kind = "schedule" /\ call[c].type = "merge"
     THEN pc' = [pc EXCEPT ![c] = "publish"] /\ UNCHANGED result
     ELSE Return(c, "error")
  /\ UNCHANGED <<kind, item, call, copy, sent, calls, fresh>>

-------------------------------------------------------------------------------
(* The edits: the packet that a client makes of its copy.                       *)
ScheduleMerged(old, news) ==
  IF old \in {None, <<>>} THEN Renumber(news) ELSE MergeEvents(old, news)

ScheduleEdited(c) ==
  CASE call[c].type = "merge" -> ScheduleMerged(copy[c], call[c].events)
    [] call[c].type = "remove" -> RemoveEvent(copy[c], call[c].id)

RemoveNamed(meta, transducers, properties) ==
  [meta EXCEPT !.transducers = FoldLeft(Meta!TransducerRemove, @, transducers),
               !.properties = FoldLeft(Meta!PropertyRemove, @, properties)]

MetaEdited(c) ==
  CASE call[c].type = "publish" -> call[c].meta
    [] call[c].type = "merge" -> Meta!MetaMerge(copy[c], call[c].meta)
    [] call[c].type = "geoloc_remove" -> Meta!GeolocRemove(copy[c], call[c].name)
    [] call[c].type = "remove" ->
         RemoveNamed(copy[c], call[c].transducers, call[c].properties)
    [] call[c].type = "transducer_merge" ->
         [copy[c] EXCEPT !.transducers[1] = Meta!TransducerMerge(@, call[c].transducer)]

(* A NULL pointer is read while the copy is edited, or turned into an item.     *)
MetaCrashes(c) ==
  \/ call[c].type = "merge" /\ Meta!MetaMergeCrash(copy[c], call[c].meta)
  \/ call[c].type = "geoloc_remove" /\ Meta!GeolocRemoveCrash(copy[c], call[c].name)
  \/ IF call[c].type = "transducer_merge" /\ copy[c].transducers = <<>>
     THEN TRUE ELSE Meta!MetaCrash(MetaEdited(c))

Crashes(c) == CASE kind = "schedule" -> EventsCrash(ScheduleEdited(c))
                [] kind = "meta" -> call[c].type # "retract" /\ MetaCrashes(c)
                [] kind = "data" -> FALSE

ToPublish(c) ==
  CASE kind = "schedule" -> EventsToItem(ScheduleEdited(c))
    [] kind = "meta" -> IF call[c].type = "retract" THEN NoItem
                        ELSE Meta!MetaToItem(MetaEdited(c))
    [] kind = "data" -> Append(item, [by |-> c, call |-> calls[c], nr |-> sent[c] + 1])

Crash(c) == /\ pc[c] = "publish" /\ Crashes(c)
            /\ pc' = [pc EXCEPT ![c] = "crashed"]
            /\ UNCHANGED <<kind, item, call, copy, sent, calls, result, fresh>>

-------------------------------------------------------------------------------
(* The publication.  An error of the server is in the response, not in the      *)
(* value returned; mio_publish_data looks at the value only.                    *)
Store(c) == /\ item' = ToPublish(c)
            /\ fresh' = [d \in Clients |-> FALSE]

Leave == UNCHANGED <<item, fresh>>

(* Mutant: the last item but one is taken for the last.                         *)
AnsweredEarly(c) ==
  IF kind = "data" /\ sent'[c] + 1 < Len(call[c].data)
  THEN UNCHANGED <<pc, result>> ELSE Return(c, "MIO_OK")

Answered(c) ==
  IF kind = "data" /\ sent'[c] < Len(call[c].data)
  THEN UNCHANGED <<pc, result>>
  ELSE Return(c, "MIO_OK")

Publish(c) ==
  /\ pc[c] = "publish" /\ ~Crashes(c)
  /\ sent' = [sent EXCEPT ![c] = @ + 1]
  /\ \/ Store(c) /\ Answered(c)
     \/ Leave /\ Answered(c)
     \/ Store(c) /\ Return(c, "error")
     \/ Leave /\ Return(c, "error")
  /\ UNCHANGED <<kind, call, copy, calls>>

Next == \E c \in Clients : \/ Begin(c) \/ QueryAnswered(c) \/ QueryFailed(c)
                           \/ Crash(c) \/ Publish(c)

Spec == Init /\ [][Next]_vars
-------------------------------------------------------------------------------
Stages == {"idle", "query", "publish", "undefined", "crashed"}

(* The one type invariant: clients are where their calls can be, only calls     *)
(* that query have a copy, and a schedule is a list of events.                  *)
TypeOK ==
  /\ kind \in Kinds
  /\ pc \in [Clients -> Stages]
  /\ calls \in [Clients -> 0 .. MaxCalls]
  /\ result \in [Clients -> {"none", "MIO_OK", "error"}]
  /\ fresh \in [Clients -> BOOLEAN]
  /\ \A c \in Clients : /\ sent[c] \in Nat
                        /\ calls[c] > 0 => call[c] \in Calls[kind]
                        /\ copy[c] # None => call[c].type \notin Blind
  /\ kind = "schedule" => IsEvents(item)

(* The step in which the server stores what c made of the item it still holds.  *)
Stored(c, type) == /\ pc[c] = "publish" /\ call[c].type = type /\ fresh[c]
                   /\ sent'[c] > sent[c] /\ item' # item

(* Events are found by identifier, and clients take the place of an event in    *)
(* the answer for it: whoever published the schedule, and whatever queries      *)
(* failed, the events are numbered 0, 1, 2 ... in their order.                  *)
IdsArePositions ==
  kind = "schedule" => \A i \in DOMAIN item : item[i].id = i - 1

(* Where a merge into n events writes the events of news: over the one of their  *)
(* identifier, else behind all others; but an event that was added has the      *)
(* identifier -1 until the end, and others of that identifier meet it.  An      *)
(* empty schedule is replaced by news as they are.                              *)
Added(n, news) == {j \in DOMAIN news : news[j].id \notin 0 .. n - 1}
Appended(n, news) ==
  {j \in Added(n, news) :
     n = 0 \/ news[j].id # -1 \/ \A k \in Added(n, news) : j <= k}
UpTo(set, j) == {k \in set : k <= j}
Slot(n, news, j) ==
  IF j \notin Added(n, news) THEN news[j].id + 1
  ELSE IF j \in Appended(n, news) THEN n + Cardinality(UpTo(Appended(n, news), j))
  ELSE n + 1

(* What merging news into old has to give, member by member: the last value     *)
(* given for an event, else the one it had, if it was there.                    *)
MergedFieldwise(old, news, new) ==
  LET n == Len(old)
      At(i) == {j \in DOMAIN news : Slot(n, news, j) = i}
      Texts(i) == {j \in At(i) : news[j].text # None}
      Recurrences(i) == {j \in At(i) : news[j].recurrence # None}
      IsLast(j, given) == j \in given /\ UpTo(given, j) = given
  IN /\ Len(new) = n + Cardinality(Appended(n, news))
     /\ \A i \in 1 .. Len(new) :
          /\ Texts(i) = {} => new[i].text = IF i <= n THEN old[i].text ELSE None
          /\ \A j \in DOMAIN news : IsLast(j, Texts(i)) => new[i].text = news[j].text
          /\ Recurrences(i) = {} =>
               new[i].recurrence = IF i <= n THEN old[i].recurrence ELSE None
          /\ \A j \in DOMAIN news : IsLast(j, Recurrences(i)) =>
               new[i].recurrence = RecurrenceToStanza(news[j].recurrence)

(* A merge into the schedule it was answered with changes the members that the  *)
(* caller gave of the events it named and nothing else, through all of query,   *)
(* parser, merge and item; events whose identifiers the schedule does not have  *)
(* are added at its end.                                                        *)
MergeIsFieldwise ==
  [][\A c \in Clients :
       kind = "schedule" /\ Stored(c, "merge")
         => MergedFieldwise(item, call[c].events, item')]_vars

(* A node without meta data is edited as a device without a name.               *)
Held == IF item = NoItem THEN Meta!MetaOfNothing ELSE item

(* A removal from the schedule it was answered with takes away the event that   *)
(* it names, whatever was published, and by whom, before: the others keep their *)
(* members and their order.                                                     *)
EventRemovalIsExact ==
  [][\A c \in Clients :
       kind = "schedule" /\ Stored(c, "remove") =>
         /\ call[c].id \in 0 .. Len(item) - 1
         /\ [i \in DOMAIN item' |-> [item'[i] EXCEPT !.id = 0]]
              = [i \in 1 .. Len(item) - 1 |->
                   [item[IF i <= call[c].id THEN i ELSE i + 1] EXCEPT !.id = 0]]]_vars

(* A removal from the meta data it was answered with takes away the transducers *)
(* and properties, or the geoloc that it names, and changes nothing else.       *)
MetaRemovalIsExact ==
  [][\A c \in Clients :
       /\ kind = "meta" /\ Stored(c, "remove") =>
            item' = [Held EXCEPT
                       !.transducers = SelectSeq(@, LAMBDA t :
                          t.name \notin Range(call[c].transducers)),
                       !.properties = SelectSeq(@, LAMBDA p :
                          p.name \notin Range(call[c].properties))]
       /\ kind = "meta" /\ Stored(c, "geoloc_remove") =>
            item' = IF call[c].name = None THEN [Held EXCEPT !.geoloc = None]
                    ELSE [Held EXCEPT !.transducers = [i \in DOMAIN @ |->
                            IF @[i].name = call[c].name
                            THEN [@[i] EXCEPT !.geoloc = None] ELSE @[i]]]]_vars

(* A merge of meta data leaves the transducers alone, and every property but    *)
(* the first; a member that the caller does not give keeps its value, in the    *)
(* geoloc too ("alt" aside, which the item loses).                              *)
MetaMergeKeeps ==
  [][\A c \in Clients :
       kind = "meta" /\ Stored(c, "merge") /\ item # NoItem =>
         LET given == call[c].meta
             Kept(old, old2, new) == new = IF old2 = None THEN old ELSE old2
         IN /\ item'.transducers = item.transducers
            /\ \A i \in 2 .. Len(item.properties) : item'.properties[i] = item.properties[i]
            /\ Kept(item.name, given.name, item'.name)
            /\ Kept(item.info, given.info, item'.info)
            /\ item.geoloc # None => item'.geoloc # None
            /\ item.geoloc # None /\ given.geoloc # None =>
                 \A f \in {"accuracy", "text"} :
                   Kept(item.geoloc[f], given.geoloc[f], item'.geoloc[f])]_vars

(* Merging a transducer keeps its properties in their places, with the last     *)
(* value given under each name, adds those that it did not have, once each, and *)
(* leaves the other transducers alone.                                          *)
TransducerMergeIsByName ==
  [][\A c \in Clients :
       kind = "meta" /\ Stored(c, "transducer_merge") =>
         LET old == item.transducers[1].properties
             new == item'.transducers[1].properties
             given == call[c].transducer.properties
             Names(list) == {list[i].name : i \in DOMAIN list}
             Values(name) == {j \in DOMAIN given : given[j].name = name}
         IN /\ Len(new) = Cardinality(Names(old) \cup Names(given))
            /\ \A i \in DOMAIN old : new[i].name = old[i].name
            /\ \A i \in DOMAIN new :
                 IF Values(new[i].name) = {} THEN new[i] = old[i]
                 ELSE new[i].value = given[Max(Values(new[i].name))].value
            /\ Tail(item'.transducers) = Tail(item.transducers)]_vars

(* mio_publish_data: what the server stored of a call is in the order of the    *)
(* list and nothing twice, and a call that returns MIO_OK has sent all of it.   *)
DataInOrder ==
  kind = "data" => \A c \in Clients :
    LET mine == {i \in DOMAIN item : item[i].by = c /\ item[i].call = calls[c]}
    IN /\ \A i, j \in mine : i < j => item[i].nr < item[j].nr
       /\ \A i \in mine : item[i].nr <= Len(call[c].data)
       /\ pc[c] = "idle" /\ result[c] = "MIO_OK" => sent[c] = Len(call[c].data)

(* What is published at the nodes is well-formed and in order.                 *)
PublishedIsSound == TypeOK /\ IdsArePositions /\ DataInOrder

(* An edit changes what it names, as it says, and nothing else.                *)
ScheduleEditsAreExact == MergeIsFieldwise /\ EventRemovalIsExact
MetaEditsAreExact == MetaRemovalIsExact /\ MetaMergeKeeps /\ TransducerMergeIsByName
===============================================================================
