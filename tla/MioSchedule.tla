----------------------------- MODULE MioSchedule -----------------------------
(* The schedule of an event node (src/src/mio_schedule.c, and the event list   *)
(* of mio_node.c): a list of events that clients read, edit and publish as a   *)
(* whole.  A pointer that may be NULL is a field that may be None; the members *)
(* that the code treats alike are one field: "text" of an event stands for     *)
(* info, time, transducer name and value, "freq" of a recurrence for freq,     *)
(* interval, count, until and exdate.  An XML item is the sequence of its      *)
(* elements, each with the fields it carries.                                  *)
EXTENDS Integers, SequencesExt

CONSTANT None

(* What strdup-ing every member that is set, and only those, comes to.         *)
Overwrite(old, new) ==
  [f \in DOMAIN old |-> IF new[f] = None THEN old[f] ELSE new[f]]

RecurrenceFields == {"freq", "bymonth", "byday"}
RecurrenceNew == [f \in RecurrenceFields |-> None]
RecurrenceMerge(old, new) == Overwrite(old, new)

EventNew == [id |-> -1, text |-> None, recurrence |-> None]

IsRecurrence(rec) == rec = [f \in RecurrenceFields |-> rec[f]]
IsEvent(event) ==
  /\ event = [id |-> event.id, text |-> event.text, recurrence |-> event.recurrence]
  /\ event.id \in Int
  /\ event.recurrence # None => IsRecurrence(event.recurrence)
IsEvents(events) == /\ events \in Seq({events[i] : i \in DOMAIN events})
                    /\ \A i \in DOMAIN events : IsEvent(events[i])

EventAt(events, id) == SelectInSeq(events, LAMBDA event : event.id = id)

Renumber(events) == [i \in DOMAIN events |-> [events[i] EXCEPT !.id = i - 1]]

(* The members of one event of the caller, written over one of the schedule;   *)
(* a recurrence replaces the old one as a whole, and the identifier stays.     *)
MergeEvent(old, new) ==
  [id |-> old.id,
   text |-> IF new.text = None THEN old.text ELSE new.text,
   recurrence |-> IF new.recurrence = None THEN old.recurrence
                  ELSE RecurrenceMerge(RecurrenceNew, new.recurrence)]

(* Mutant: an event that is added takes the identifier of the caller.          *)
MergeOneKeepsId(events, new) ==
  LET at == EventAt(events, new.id)
  IN IF at = 0 THEN Append(events, MergeEvent([EventNew EXCEPT !.id = new.id], new))
     ELSE [events EXCEPT ![at] = MergeEvent(@, new)]

MergeOne(events, new) ==
  LET at == EventAt(events, new.id)
  IN IF at = 0 THEN Append(events, MergeEvent(EventNew, new))
     ELSE [events EXCEPT ![at] = MergeEvent(@, new)]

(* The new events are merged one after the other.                              *)
MergeEvents(events, news) ==
  LET merged[i \in 0 .. Len(news)] ==
        IF i = 0 THEN events ELSE MergeOne(merged[i - 1], news[i])
  IN Renumber(merged[Len(news)])

(* Mutant: the events that follow the removed one keep their identifiers.      *)
RemoveKeepsIds(events, id) ==
  LET at == EventAt(events, id)
  IN IF at = 0 THEN events ELSE RemoveAt(events, at)

RemoveEvent(events, id) ==
  LET at == EventAt(events, id)
  IN Renumber(IF at = 0 THEN events ELSE RemoveAt(events, at))

(* The element "byday" is given the text of bymonth.                           *)
RecurrenceToStanza(rec) ==
  [rec EXCEPT !["byday"] = IF @ = None THEN None ELSE rec["bymonth"]]

(* ... which is the NULL pointer if there is no bymonth.                       *)
EventsCrash(events) ==
  \E i \in DOMAIN events : /\ events[i].recurrence # None
                           /\ events[i].recurrence["byday"] # None
                           /\ events[i].recurrence["bymonth"] = None

EventsToItem(events) ==
  [i \in DOMAIN events |->
     [events[i] EXCEPT !.recurrence =
        IF @ = None THEN None ELSE RecurrenceToStanza(@)]]

(* The parser's: a new event per element, its attributes and its recurrence.   *)
EventsOfItem(item) == [i \in DOMAIN item |-> Overwrite(EventNew, item[i])]
===============================================================================
