----------------------------- MODULE StropheHandlers -----------------------------
(***************************************************************************)
(* The handlers of one connection: the lists of stanza handlers, of id     *)
(* handlers (one list per id, in a hash table) and of timed handlers, the  *)
(* walks of handler_fire_stanza and handler_fire_timed over them, and what *)
(* the called handlers and other threads do to the lists.                  *)
(*                                                                         *)
(* An item of a list is named by its function: every add looks for the     *)
(* function first and drops what it finds, so that a list holds it once.   *)
(* A list is its head and the next pointers of its items.                  *)
(*                                                                         *)
(* A called system handler does what those of libstrophe do: it adds       *)
(* others, under ids other than its own, removes timed ones or, the last   *)
(* of them, authenticates.  User handlers touch no list: event_loop_mutex  *)
(* is held while they run, and adding takes it again.                      *)
(* Other threads add and delete between walks: they hold event_loop_mutex. *)
(***************************************************************************)
EXTENDS Naturals, FiniteSets

CONSTANTS
  StanzaHandlers, IdHandlers, TimedHandlers,  \* functions, by the kind of list
  UserHandlers,                               \* those registered as user handlers
  Error, Features, MissingFeatures,           \* those added when a stream opens
  Ids, UserIds,                               \* stanza ids; those of user handlers
  None

ASSUME HandlersAssumption ==
  /\ {Error, Features} \subseteq StanzaHandlers \ UserHandlers
  /\ MissingFeatures \in TimedHandlers \ UserHandlers
ASSUME FunctionsAssumption ==
  /\ IsFiniteSet(StanzaHandlers \cup IdHandlers \cup TimedHandlers)
  /\ StanzaHandlers \cap (IdHandlers \cup TimedHandlers) = {}
  /\ IdHandlers \cap TimedHandlers = {}
  /\ None \notin StanzaHandlers \cup IdHandlers \cup TimedHandlers
ASSUME IdsAssumption == UserIds \subseteq Ids /\ {"stanza", "timed", "none"} \cap Ids = {}

VARIABLES
  list,     \* per list its head and next pointers
  enabled,  \* the items with enabled = 1 of the stanza and timed lists
  due,      \* timed handlers whose period has elapsed since last_stamp
  auth,     \* conn->authenticated
  walk,     \* the walk in progress, see Walks
  want,     \* auxiliary: per list what was added and not removed
  calls,    \* auxiliary: how often each handler was called in this walk; one that is
            \* added to the list walked has had its call
  owed      \* auxiliary: handlers this walk has still to call

vars == <<list, enabled, due, auth, walk, want, calls, owed>>

All == StanzaHandlers \cup IdHandlers \cup TimedHandlers
Lists == {"stanza", "timed"} \cup Ids
Links == [head: All \cup {None}, next: [All -> All \cup {None}]]

\* The functions a list may hold: under the ids of users only their handlers, under
\* those of libstrophe only its own.
MayHold(l) ==
  CASE l = "stanza" -> StanzaHandlers
    [] l = "timed"  -> TimedHandlers
    [] l \in UserIds -> IdHandlers \cap UserHandlers
    [] OTHER -> IdHandlers \ UserHandlers

\* `on` is the list walked and `running` says that `item` is being called; `saved` is
\* the next pointer the id walk keeps; `matches` are the stanza handlers whose
\* namespace, name and type fit the stanza.
Walks == [on: Lists \cup {"none"}, prev: All \cup {None}, item: All \cup {None},
          saved: All \cup {None}, running: BOOLEAN, matches: SUBSET StanzaHandlers]

\* With the types, the pointers of a walk never outlive the item they point to.
TypeOK ==
  /\ list \in [Lists -> Links]
  /\ enabled \subseteq StanzaHandlers \cup TimedHandlers
  /\ due \subseteq TimedHandlers
  /\ auth \in BOOLEAN
  /\ walk \in Walks
  /\ walk.on # "none" => {walk.prev, walk.item, walk.saved} \ {None} \subseteq want[walk.on]
  /\ want \in [Lists -> SUBSET All]
  /\ calls \in [All -> 0..2]
  /\ owed \subseteq All

Idle == [on |-> "none", prev |-> None, item |-> None, saved |-> None,
         running |-> FALSE, matches |-> {}]

Init ==
  /\ list = [l \in Lists |-> [head |-> None, next |-> [h \in All |-> None]]]
  /\ want = [l \in Lists |-> {}]
  /\ enabled = {} /\ due = {} /\ auth = FALSE
  /\ walk = Idle
  /\ calls = [h \in All |-> 0] /\ owed = {}

-------------------------------------------------------------------------------
(* Lists *)

\* The items from the head on, a cycle cut off after as many steps as there are items.
Follow(L) ==
  LET nth[k \in 0..Cardinality(All)] ==
        IF k = 0 THEN L.head
        ELSE IF nth[k-1] = None THEN None ELSE L.next[nth[k-1]]
  IN nth
Items(L) == {Follow(L)[k] : k \in 0..Cardinality(All)} \ {None}
LastOf(L) == CHOOSE h \in Items(L) : L.next[h] = None

\* _handler_add, _id_handler_add, _timed_handler_add: at the end, unless it is there.
Added(L, h) ==
  IF h \in Items(L) THEN L
  ELSE IF L.head = None THEN [head |-> h, next |-> [L.next EXCEPT ![h] = None]]
  ELSE [L EXCEPT !.next = [@ EXCEPT ![LastOf(L)] = h, ![h] = None]]

\* What a walk does with the item h that asked to be removed: its predecessor, or the
\* head of the list, gets `next`, and the item is freed.
Unlinked(L, h, prev, next) ==
  IF prev = None THEN [L EXCEPT !.head = next, !.next[h] = None]
  ELSE [L EXCEPT !.next = [@ EXCEPT ![prev] = next, ![h] = None]]

\* xmpp_id_handler_delete, xmpp_timed_handler_delete.
Deleted(L, h) ==
  IF h \notin Items(L) THEN L
  ELSE Unlinked(L, h, IF h = L.head THEN None ELSE CHOOSE p \in Items(L) : L.next[p] = h, L.next[h])

\* Fault: an item is enabled as it is added; see OncePerWalk.
AddEnabled(l, h) ==
  /\ list' = [list EXCEPT ![l] = Added(@, h)]
  /\ want' = [want EXCEPT ![l] = @ \cup {h}]
  /\ enabled' = IF l \in Ids THEN enabled ELSE enabled \cup {h}
  /\ UNCHANGED due

\* Any of the adds: the new item is not enabled and its period starts now.
Add(l, h) ==
  /\ list' = [list EXCEPT ![l] = Added(@, h)]
  /\ want' = [want EXCEPT ![l] = @ \cup {h}]
  /\ UNCHANGED <<enabled, due>>

\* An item is freed, with its flag and period; `links` is the list without it.
Remove(l, h, links) ==
  /\ list' = [list EXCEPT ![l] = links]
  /\ want' = [want EXCEPT ![l] = @ \ {h}]
  /\ enabled' = enabled \ {h} /\ due' = due \ {h}

-------------------------------------------------------------------------------
(* Other threads, between walks *)

\* mio_handler_add, mio_handler_id_add, mio_handler_timed_add.
mio_handler_add(l, h) ==
  /\ walk.on = "none" /\ h \in MayHold(l) \cap UserHandlers
  /\ Add(l, h)
  /\ UNCHANGED <<auth, walk, calls, owed>>

mio_handler_id_delete(l, h) ==
  /\ walk.on = "none" /\ l \in UserIds /\ h \in MayHold(l)
  /\ Remove(l, h, Deleted(list[l], h))
  /\ UNCHANGED <<auth, walk, calls, owed>>

\* The stream opens, between two stanzas: auth_handle_open, with handler_reset_timed.
auth_handle_open ==
  LET With(ls, l, h) == [ls EXCEPT ![l] = Added(@, h)] IN
  /\ walk.on = "none" /\ ~auth
  /\ due' = {}
  /\ list' = With(With(With(list, "stanza", Error), "stanza", Features), "timed", MissingFeatures)
  /\ want' = [want EXCEPT !["stanza"] = @ \cup {Error, Features},
                          !["timed"] = @ \cup {MissingFeatures}]
  /\ UNCHANGED <<enabled, auth, walk, calls, owed>>

\* Only a walk of the timed handlers looks at the clock.
PeriodPasses(h) ==
  /\ walk.on \in {"none", "timed"}
  /\ h \in want["timed"] \ due
  /\ due' = due \cup {h}
  /\ UNCHANGED <<list, enabled, auth, walk, want, calls, owed>>

-------------------------------------------------------------------------------
(* The walks *)

Callable(h) == h \in UserHandlers => auth

Owes(l, m) == {h \in want[l] : Callable(h) /\ (l = "stanza" => h \in m)
                                          /\ (l = "timed" => h \in due)}

\* Fault: the items of the list are not enabled; see DueIsFired.
BeginDisabled(l) ==
  \E m \in IF l = "stanza" THEN SUBSET Items(list[l]) ELSE {{}} :
    /\ walk' = [Idle EXCEPT !.on = l, !.item = list[l].head, !.matches = m]
    /\ calls' = [h \in All |-> 0] /\ owed' = Owes(l, m) \cap enabled
    /\ UNCHANGED <<list, enabled, due, auth, want>>

\* The walk of list l begins; all its items are enabled, except those under an id,
\* which have no use for the flag.
Begin(l) ==
  \E m \in IF l = "stanza" THEN SUBSET Items(list[l]) ELSE {{}} :
    /\ walk' = [Idle EXCEPT !.on = l, !.item = list[l].head, !.matches = m]
    /\ enabled' = IF l \in Ids THEN enabled ELSE enabled \cup Items(list[l])
    /\ calls' = [h \in All |-> 0] /\ owed' = Owes(l, m)
    /\ UNCHANGED <<list, due, auth, want>>

\* handler_fire_stanza: the handlers of the stanza's id, then the stanza handlers.
handler_fire_stanza(i) == walk.on = "none" /\ Begin(IF i = None THEN "stanza" ELSE i)
IdWalkDone == walk.on \in Ids /\ walk.item = None /\ Begin("stanza")

\* handler_fire_timed, of a connected connection.
handler_fire_timed == walk.on = "none" /\ Begin("timed")

WalkDone ==
  /\ walk.on \in {"stanza", "timed"} /\ walk.item = None
  /\ walk' = Idle /\ calls' = [h \in All |-> 0] /\ owed' = {}
  /\ UNCHANGED <<list, enabled, due, auth, want>>

\* The conditions under which a walk passes an item by.
Passes ==
  LET h == walk.item IN
  \/ ~Callable(h)
  \/ walk.on \notin Ids /\ h \notin enabled
  \/ walk.on = "stanza" /\ h \notin walk.matches
  \/ walk.on = "timed" /\ h \notin due

\* Fault: an item that is passed by does not become the predecessor; see ListsAgree.
SkipKeepsPrev ==
  /\ walk.on # "none" /\ walk.item # None /\ ~walk.running /\ Passes
  /\ walk' = [walk EXCEPT !.item = list[walk.on].next[walk.item]]
  /\ UNCHANGED <<list, enabled, due, auth, want, calls, owed>>

\* The next item; the walk under an id does not make the one it skips the predecessor.
Skip ==
  /\ walk.on # "none" /\ walk.item # None /\ ~walk.running /\ Passes
  /\ walk' = [walk EXCEPT !.item = list[walk.on].next[walk.item],
                          !.prev = IF walk.on = "stanza" THEN walk.item ELSE @]
  /\ UNCHANGED <<list, enabled, due, auth, want, calls, owed>>

Call ==
  /\ walk.on # "none" /\ walk.item # None /\ ~walk.running /\ ~Passes
  /\ walk' = [walk EXCEPT !.running = TRUE, !.saved = list[walk.on].next[walk.item]]
  /\ calls' = [calls EXCEPT ![walk.item] = @ + 1]
  /\ owed' = owed \ {walk.item}
  /\ due' = due \ {walk.item}
  /\ UNCHANGED <<list, enabled, auth, want>>

InSystemHandler == walk.running /\ walk.item \notin UserHandlers

\* The called handler adds another one.
HandlerAdds(l, h) ==
  /\ InSystemHandler /\ h \in MayHold(l) \ {walk.item} /\ ~(walk.on \in Ids /\ l = walk.on)
  /\ h \notin UserHandlers
  /\ Add(l, h)
  /\ calls' = IF l = walk.on /\ h \notin want[l] THEN [calls EXCEPT ![h] = 1] ELSE calls
  /\ UNCHANGED <<auth, walk, owed>>

\* It removes a timed handler that waits for a stanza that has now come.
HandlerDeletesTimed(h) ==
  /\ InSystemHandler /\ walk.on # "timed" /\ h \notin UserHandlers
  /\ Remove("timed", h, Deleted(list["timed"], h))
  /\ UNCHANGED <<auth, walk, calls, owed>>

\* The last step of logging in.
Authenticate ==
  /\ InSystemHandler /\ walk.on # "timed" /\ ~auth
  /\ auth' = TRUE
  /\ UNCHANGED <<list, enabled, due, walk, want, calls, owed>>

\* Fault: an item that is removed becomes the predecessor; see TypeOK.
ReturnKeepsPrev(keep) ==
  LET l == walk.on
      next == IF l \in Ids THEN walk.saved ELSE list[l].next[walk.item] IN
  /\ walk.running
  /\ walk' = [walk EXCEPT !.running = FALSE, !.saved = None, !.item = next, !.prev = walk.item]
  /\ IF keep THEN UNCHANGED <<list, enabled, due, want>>
     ELSE Remove(l, walk.item, Unlinked(list[l], walk.item, walk.prev, next))
  /\ UNCHANGED <<auth, calls, owed>>

\* Fault: having unlinked an item the walk goes on behind the next one; see NoneSkipped.
AfterSkipsOne(L, keep) ==
  IF keep \/ walk.on \in Ids THEN L.next[walk.item]
  ELSE LET n == L.next[walk.item] IN IF n = None THEN None ELSE L.next[n]

\* Where the walk goes on: the id walk with the pointer it has saved, the others with
\* the next of the item as the call has left it.
After(L, keep) ==
  IF walk.on \in Ids THEN walk.saved ELSE L.next[walk.item]

\* What mio_handler_generic, mio_handler_generic_id and mio_handler_generic_timed make of
\* the result of a handler of libmio: whether the item stays.
Codes == {"MIO_OK", "MIO_HANDLER_KEEP", "MIO_HANDLER_REMOVE", "MIO_ERROR"}
mio_handler_generic(code) == code # "MIO_HANDLER_REMOVE"
mio_handler_generic_id(code) == code # "MIO_OK"
mio_handler_generic_timed(code) == code = "MIO_HANDLER_KEEP"

Results ==
  IF walk.item \notin UserHandlers THEN BOOLEAN
  ELSE {CASE walk.on = "stanza" -> mio_handler_generic(code)
          [] walk.on = "timed" -> mio_handler_generic_timed(code)
          [] OTHER -> mio_handler_generic_id(code) : code \in Codes}

\* The called handler returns: a false result removes the item.
Return(keep) ==
  LET l == walk.on
      next == IF l \in Ids THEN walk.saved ELSE list[l].next[walk.item] IN
  /\ walk.running
  /\ walk' = [walk EXCEPT !.running = FALSE, !.saved = None, !.item = After(list[l], keep),
                          !.prev = IF keep /\ l # "timed" THEN walk.item ELSE @]
  /\ IF keep THEN UNCHANGED <<list, enabled, due, want>>
     ELSE Remove(l, walk.item, IF l = "timed" THEN Deleted(list[l], walk.item)
                               ELSE Unlinked(list[l], walk.item, walk.prev, next))
  /\ UNCHANGED <<auth, calls, owed>>

Loop ==
  \/ IdWalkDone \/ WalkDone \/ Skip \/ Call
  \/ \E keep \in Results : Return(keep)

Next ==
  \/ \E l \in Lists, h \in All :
       mio_handler_add(l, h) \/ mio_handler_id_delete(l, h) \/ HandlerAdds(l, h)
  \/ \E i \in Ids \cup {None} : handler_fire_stanza(i)
  \/ handler_fire_timed
  \/ \E h \in TimedHandlers : PeriodPasses(h) \/ HandlerDeletesTimed(h)
  \/ auth_handle_open \/ Authenticate
  \/ Loop

Spec == Init /\ [][Next]_vars

\* Handlers return, walks go on, and xmpp_run_once fires the timed handlers every round.
FairSpec == Spec /\ WF_vars(Loop) /\ SF_vars(handler_fire_timed)

-------------------------------------------------------------------------------
(* Properties *)

\* Whatever handlers do to the lists while they are walked, each list holds exactly
\* what was added to it and not removed: no handler is lost and none comes back
\* (handler.c: the prev and next pointers of the two walks).
ListsAgree ==
  \A l \in Lists : /\ Items(list[l]) = want[l]
                   /\ Follow(list[l])[Cardinality(All)] = None

\* A walk calls no handler twice, and none that was added while it walks the list
\* (handler.c:84, "enable all added handlers").
OncePerWalk == \A h \in All : calls[h] <= 1

\* When a walk is over it has called every handler that was in the list, and could
\* be called, as it began; in a walk under an id or of stanza handlers no handler is
\* removed but by itself.
NoneSkipped ==
  walk.on \in Lists /\ walk.item = None => owed \cap want[walk.on] = {}

\* The handler's timer does not stay due for ever: it fires, is reset or is removed,
\* once user handlers may be called.
DueIsFired ==
  \A h \in TimedHandlers : (h \in due /\ Callable(h)) ~> h \notin due

\* The lists and the pointers of a walk into them are sound.
ListsAreSound == TypeOK /\ ListsAgree

\* A walk calls each handler that it finds, and may call, exactly once.
CalledExactlyOnce == OncePerWalk /\ NoneSkipped
===============================================================================
