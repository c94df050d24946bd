-------------------------------- MODULE MioNodes --------------------------------
(* The threads of a program that administer event nodes over its connection:    *)
(* collections (mio_collection.c), subscriptions and affiliations               *)
(* (mio_affiliations.c), creation and deletion (mio_node.c).  A collection and  *)
(* a subscription are changed by what an earlier query answered, and nothing    *)
(* keeps other threads from changing them in between.  As in MioItems a request *)
(* is one step, answered, refused or without an answer, in which case the       *)
(* server may have carried it out or not.                                       *)
EXTENDS Naturals, FiniteSets, FiniteSetsExt, Sequences, Functions

CONSTANTS Threads,
          Nodes, Me, None,
          Starts,       \* [topic |-> set of servers at first]
          Calls,        \* [topic |-> set of calls a thread may make]
          MaxCalls,     \* bound on the calls of one thread
          MaxIds        \* bound on the identifiers of subscriptions

VARIABLES topic,        \* what the threads are about, a bound on the mix of calls
          server,       \* its nodes, and the subscriptions of the program's address
          pc, call, calls,
          list,         \* what a thread has kept of the answer to its last query
          response,     \* the mio_response_t that the caller gave
          result,       \* what the last call returned
          fresh,        \* auxiliary: the list is still what the server has
          failed,       \* auxiliary: a request was refused or got no answer
          overlapped    \* auxiliary: two calls have run at the same time

vars == <<topic, server, pc, call, calls, list, response, result, fresh, failed, overlapped>>
started == <<topic, call, calls, overlapped>>
Topics == {"collections", "subscriptions", "nodes"}

Unknown == [type |-> "unknown"]
Ok == [type |-> "ok"]
Error == [type |-> "error"]
Confused == [type |-> "confused"]
Packet(entries) == [type |-> "packet", entries |-> entries]

Init == /\ topic \in Topics
        /\ server \in Starts[topic]
        /\ pc = [t \in Threads |-> "idle"] /\ calls = [t \in Threads |-> 0]
        /\ call = [t \in Threads |-> None] /\ list = [t \in Threads |-> <<>>]
        /\ response = [t \in Threads |-> Unknown] /\ result = [t \in Threads |-> "none"]
        /\ fresh = [t \in Threads |-> FALSE] /\ failed = FALSE /\ overlapped = FALSE

-------------------------------------------------------------------------------
(* The server, as the requests and the handlers take it to be.                  *)
Exists(s, n) == n \in DOMAIN s.nodes
NewNode(type) == [type |-> type, items |-> 0, children |-> <<>>, parents |-> <<>>,
                  affiliations |-> [jid \in {Me} |-> "owner"]]
Owned(s, n) == Exists(s, n) /\ s.nodes[n].affiliations[Me] = "owner"
Matching(s, n, id) == {i \in DOMAIN s.subscriptions :
                         /\ s.subscriptions[i].node = n
                         /\ id = None \/ s.subscriptions[i].id = id}
FreeIds(s) == 1 .. MaxIds \ {s.subscriptions[i].id : i \in DOMAIN s.subscriptions}

Accepts(s, k) ==
  CASE k.type \in {"create", "collection_create"} -> ~Exists(s, k.node)
    [] k.type \in {"delete", "affiliation_set"} -> Owned(s, k.node)
    [] k.type = "unsubscribe" -> Cardinality(Matching(s, k.node, k.id)) = 1
    [] OTHER -> k.node = None \/ Exists(s, k.node)

(* What is left of a sequence at the given places, in its order.                *)
Kept(seq, places) ==
  LET kept[i \in 0 .. Len(seq)] ==
        IF i = 0 THEN <<>>
        ELSE IF i \in places THEN Append(kept[i - 1], seq[i]) ELSE kept[i - 1]
  IN kept[Len(seq)]
Without(seq, n) == Kept(seq, {i \in DOMAIN seq : seq[i] # n})

(* The changes that the stanzas of the functions ask for.                       *)
WithNode(s, n, node) ==
  [s EXCEPT !.nodes = [m \in DOMAIN @ \cup {n} |-> IF m = n THEN node ELSE @[m]]]
Created(s, n) == WithNode(s, n, NewNode("leaf"))
CollectionCreated(s, n) == WithNode(s, n, NewNode("collection"))
AffiliationSet(s, n, jid, affiliation) ==
  WithNode(s, n, [s.nodes[n] EXCEPT !.affiliations =
    [j \in DOMAIN @ \cup {jid} |-> IF j = jid THEN affiliation ELSE @[j]]])
Unsubscribed(s, n, id) ==
  [s EXCEPT !.subscriptions = Kept(@, DOMAIN @ \ Matching(s, n, id))]
Deleted(s, n) ==
  [nodes |-> [m \in DOMAIN s.nodes \ {n} |->
                [s.nodes[m] EXCEPT !.children = Without(@, n), !.parents = Without(@, n)]],
   subscriptions |-> Kept(s.subscriptions, DOMAIN s.subscriptions \ Matching(s, n, None))]

Carried(s, k) ==
  CASE k.type = "create" -> Created(s, k.node)
    [] k.type = "collection_create" -> CollectionCreated(s, k.node)
    [] k.type = "delete" -> Deleted(s, k.node)
    [] k.type = "affiliation_set" -> AffiliationSet(s, k.node, k.jid, k.affiliation)
    [] k.type = "unsubscribe" -> Unsubscribed(s, k.node, k.id)
    [] OTHER -> s

(* What a collection has below it; a leaf has its items, which are no nodes.    *)
ChildrenOf(s, n) ==
  IF s.nodes[n].type = "leaf" THEN [i \in 1 .. s.nodes[n].items |-> None]
  ELSE s.nodes[n].children

(* The fields of a node's configuration, of which some have a type and others   *)
(* only a name.                                                                 *)
Form(s, n) == <<[var |-> "title", typed |-> TRUE, values |-> <<"title">>],
                [var |-> "collection", typed |-> TRUE, values |-> s.nodes[n].parents],
                [var |-> "access_model", typed |-> TRUE, values |-> <<"open">>]>>

(* A server that answers: its nodes and subscriptions are what they should be.  *)
IsNode(node) ==
  node \in [type : {"leaf", "collection"}, items : Nat, children : Seq(Nodes),
            parents : Seq(Nodes), affiliations : {node.affiliations}]
IsServer(s) ==
  /\ DOMAIN s.nodes \subseteq Nodes
  /\ s \in [nodes : {s.nodes},
            subscriptions : Seq([node : Nodes, state : {"subscribed", "pending"}, id : 1 .. MaxIds])]
  /\ s.nodes \in [DOMAIN s.nodes -> {s.nodes[n] : n \in DOMAIN s.nodes}]
  /\ \A n \in DOMAIN s.nodes : IsNode(s.nodes[n])

(* The links of its collections have two ends, but for those that are half made.*)
Linked(s, half) ==
  /\ \A p \in DOMAIN s.nodes, c \in Nodes :
       s.nodes[p].type = "collection" /\ <<p, c>> \notin half =>
         (c \in Range(s.nodes[p].children)
            <=> c \in DOMAIN s.nodes /\ p \in Range(s.nodes[c].parents))
  /\ \A c \in DOMAIN s.nodes : Range(s.nodes[c].parents) \subseteq DOMAIN s.nodes
EachOnce(s) ==
  \A n \in DOMAIN s.nodes : IsInjective(s.nodes[n].children) /\ IsInjective(s.nodes[n].parents)
NamedOnce(s) == \A i, j \in DOMAIN s.subscriptions :
                  s.subscriptions[i].node = s.subscriptions[j].node => i = j

Queries == {"children_query", "parents_query", "type_query", "subscriptions_query",
            "affiliations_query"}
CallTypes == Queries \cup {"child_add", "child_remove", "subscribe", "unsubscribe", "create",
                           "collection_create", "delete", "affiliation_set"}

ASSUME NoneAssumption == None \notin Nodes
ASSUME StartsAssumption ==
  \A k \in Topics : \A s \in Starts[k] :
    IsServer(s) /\ Linked(s, {}) /\ EachOnce(s) /\ NamedOnce(s)
ASSUME CallsAssumption ==
  \A k \in Topics : \A c \in Calls[k] :
    /\ c.type \in CallTypes
    /\ IF c.type \in {"child_add", "child_remove"} THEN c.child \in Nodes /\ c.parent \in Nodes
       ELSE c.node \in Nodes \/ (c.node = None /\ c.type \in {"subscriptions_query",
                                                              "affiliations_query"})
ASSUME BoundsAssumption == MaxIds \in Nat /\ MaxCalls \in Nat

-------------------------------------------------------------------------------
(* What the handlers make of an answer.                                         *)

(* Mutant: the handler of text is never taken off again.                        *)
ParentsOfFormStay(form) ==
  LET on[i \in 0 .. Len(form)] ==
        i # 0 /\ (form[i].var = "collection" \/ on[i - 1])
      read[i \in 0 .. Len(form)] ==
        IF i = 0 THEN <<>> ELSE IF on[i] THEN read[i - 1] \o form[i].values ELSE read[i - 1]
  IN read[Len(form)]

(* A handler of text is set at the field of the parents and taken off at the    *)
(* next field that has an attribute besides its name.                           *)
ParentsOfForm(form) ==
  LET on[i \in 0 .. Len(form)] ==
        i # 0 /\ (form[i].var = "collection" \/ (on[i - 1] /\ ~form[i].typed))
      read[i \in 0 .. Len(form)] ==
        IF i = 0 THEN <<>> ELSE IF on[i] THEN read[i - 1] \o form[i].values ELSE read[i - 1]
  IN read[Len(form)]

TypeOfNode(s, n) == s.nodes[n].type

(* Of the address and the node of a subscription the later attribute counts,    *)
(* which is the node.  One without an identifier gets a blank one.              *)
SubscriptionAdd(u) == [subscription |-> u.node, sub_id |-> u.id]
SubscriptionsOf(s) == [i \in DOMAIN s.subscriptions |-> SubscriptionAdd(s.subscriptions[i])]

(* The affiliations of a node, or those of the program with all nodes.          *)
AffiliationAdd(affiliation, type) == [affiliation |-> affiliation, type |-> type]
NodeAffiliations(s, n) ==
  {AffiliationAdd(j, s.nodes[n].affiliations[j]) : j \in DOMAIN s.nodes[n].affiliations}
OwnAffiliations(s) ==
  {AffiliationAdd(n, s.nodes[n].affiliations[Me]) : n \in DOMAIN s.nodes}
AffiliationsQuery(s, n) == IF n = None THEN OwnAffiliations(s) ELSE NodeAffiliations(s, n)

(* Mutant: any answer to a subscription is taken for a success.                 *)
SubscribeAnyState(state) == Ok

(* Nothing is made of a subscription that is still to be approved.              *)
SubscribeAnswer(state) == IF state = "subscribed" THEN Ok ELSE Unknown

(* The handlers, of an answer or a refusal.  Those of the two queries of         *)
(* collections write the type of a packet over that of the error they have      *)
(* stored.                                                                      *)
HandlerChildrenQuery(s, n, refused) ==
  IF refused THEN Confused ELSE Packet(ChildrenOf(s, n))
HandlerParentsQuery(s, n, refused) ==
  IF refused THEN Confused ELSE Packet(ParentsOfForm(Form(s, n)))
HandlerTypeQuery(s, n, refused) ==
  IF refused THEN Error ELSE Packet({[type |-> TypeOfNode(s, n)]})
HandlerSubscriptionsQuery(s, refused) ==
  IF refused THEN Error ELSE Packet(SubscriptionsOf(s))
HandlerAffiliationsQuery(s, n, refused) ==
  IF refused THEN Error ELSE Packet(AffiliationsQuery(s, n))
HandlerError(refused) == IF refused THEN Error ELSE Ok

Handled(s, k, refused) ==
  CASE k.type = "children_query" -> HandlerChildrenQuery(s, k.node, refused)
    [] k.type = "parents_query" -> HandlerParentsQuery(s, k.node, refused)
    [] k.type = "type_query" -> HandlerTypeQuery(s, k.node, refused)
    [] k.type = "subscriptions_query" -> HandlerSubscriptionsQuery(s, refused)
    [] k.type = "affiliations_query" -> HandlerAffiliationsQuery(s, k.node, refused)
    [] OTHER -> HandlerError(refused)

-------------------------------------------------------------------------------
First(k) == CASE k.type = "child_add" -> "children"
              [] k.type = "child_remove" -> "remove"
              [] k.type = "subscribe" -> "subscriptions"
              [] OTHER -> "send"

Begin(t) ==
  /\ pc[t] = "idle" /\ calls[t] < MaxCalls
  /\ \E k \in Calls[topic] : /\ call' = [call EXCEPT ![t] = k]
                             /\ pc' = [pc EXCEPT ![t] = First(k)]
  /\ calls' = [calls EXCEPT ![t] = @ + 1]
  /\ list' = [list EXCEPT ![t] = <<>>]
  /\ response' = [response EXCEPT ![t] = Unknown]
  /\ overlapped' = (overlapped \/ \E u \in Threads \ {t} : pc[u] # "idle")
  /\ UNCHANGED <<topic, server, result, fresh, failed>>

Goto(t, stage) == pc' = [pc EXCEPT ![t] = stage] /\ UNCHANGED result
Return(t, value) == /\ pc' = [pc EXCEPT ![t] = "idle"]
                    /\ result' = [result EXCEPT ![t] = value]
Respond(t, r) == response' = [response EXCEPT ![t] = r]

(* The server has made a change, or has not.                                    *)
Change(s) == server' = s /\ fresh' = [u \in Threads |-> FALSE]
Leave == UNCHANGED <<server, fresh>>

(* The functions that send one request: the queries, mio_node_create, _delete,  *)
(* mio_collection_node_create, mio_acl_affiliation_set, mio_unsubscribe.        *)
Send(t) ==
  /\ pc[t] = "send" /\ call[t].affiliation # "unknown"
  /\ LET k == call[t] IN
       \/ /\ Accepts(server, k) /\ Change(Carried(server, k))
          /\ \/ Respond(t, Handled(server, k, FALSE)) /\ Return(t, "MIO_OK") /\ UNCHANGED failed
             \/ Return(t, "error") /\ failed' = TRUE /\ UNCHANGED response
       \/ Leave /\ Respond(t, Handled(server, k, TRUE)) /\ Return(t, "MIO_OK") /\ failed' = TRUE
       \/ Leave /\ Return(t, "error") /\ failed' = TRUE /\ UNCHANGED response
  /\ UNCHANGED <<started, list>>

UnknownAffiliation(t) ==
  /\ pc[t] = "send" /\ call[t].affiliation = "unknown"
  /\ Return(t, "error")
  /\ UNCHANGED <<started, server, list, response, fresh, failed>>

-------------------------------------------------------------------------------
(* mio_collection_child_add.                                                    *)

(* Mutant: an entry that is there already is added again.                       *)
ConfigChildAddTwice(config, child) == Append(config, child)

(* MIO_ERROR_DUPLICATE_ENTRY is not looked at.                                  *)
ConfigChildAdd(config, child) ==
  IF child \in Range(config) THEN config ELSE Append(config, child)
ConfigParentAdd(config, parent) ==
  IF parent \in Range(config) THEN config ELSE Append(config, parent)

(* The configurations with the entries of a list and one more.                  *)
ChildrenConfig(t) ==
  LET entries == Append(list[t], call[t].child)
      config[i \in 0 .. Len(entries)] ==
        IF i = 0 THEN <<>> ELSE ConfigChildAdd(config[i - 1], entries[i])
  IN config[Len(entries)]
ParentsConfig(t) ==
  LET entries == Append(list[t], call[t].parent)
      config[i \in 0 .. Len(entries)] ==
        IF i = 0 THEN <<>> ELSE ConfigParentAdd(config[i - 1], entries[i])
  IN config[Len(entries)]

(* A query that fails gives no entries; an error that is taken for a packet may *)
(* be read as one without entries, or bring the program down.                   *)
Keep(t, entries) == /\ list' = [list EXCEPT ![t] = entries]
                    /\ fresh' = [fresh EXCEPT ![t] = TRUE] /\ UNCHANGED failed
KeepNothing(t) == /\ list' = [list EXCEPT ![t] = <<>>]
                  /\ fresh' = [fresh EXCEPT ![t] = FALSE] /\ failed' = TRUE

ChildrenQuery(t) ==
  /\ pc[t] = "children"
  /\ \/ /\ Exists(server, call[t].parent) /\ Goto(t, "parent")
        /\ Keep(t, ChildrenOf(server, call[t].parent))
     \/ Goto(t, "parent") /\ KeepNothing(t)
     \/ Goto(t, "undefined") /\ KeepNothing(t)
  /\ UNCHANGED <<started, server, response>>

(* The answer to the parent's configuration is thrown away.  An entry without a *)
(* node is a NULL pointer.                                                      *)
ConfigureParent(t) ==
  LET p == call[t].parent IN
  /\ pc[t] = "parent"
  /\ \/ None \in Range(list[t]) /\ Goto(t, "undefined") /\ Leave /\ UNCHANGED failed
     \/ /\ None \notin Range(list[t]) /\ Goto(t, "parents")
        /\ \/ /\ Exists(server, p) /\ UNCHANGED failed
              /\ Change(WithNode(server, p, [server.nodes[p] EXCEPT !.children = ChildrenConfig(t)]))
           \/ Leave /\ failed' = TRUE
  /\ UNCHANGED <<started, list, response>>

(* Mutant: the parents of the parent are asked for.                             *)
ParentsQueryOfParent(t) ==
  /\ pc[t] = "parents"
  /\ \/ /\ Exists(server, call[t].parent) /\ Goto(t, "child")
        /\ Keep(t, ParentsOfForm(Form(server, call[t].parent)))
     \/ Goto(t, "child") /\ KeepNothing(t)
     \/ Goto(t, "undefined") /\ KeepNothing(t)
  /\ UNCHANGED <<started, server, response>>

ParentsQuery(t) ==
  /\ pc[t] = "parents"
  /\ \/ /\ Exists(server, call[t].child) /\ Goto(t, "child")
        /\ Keep(t, ParentsOfForm(Form(server, call[t].child)))
     \/ Goto(t, "child") /\ KeepNothing(t)
     \/ Goto(t, "undefined") /\ KeepNothing(t)
  /\ UNCHANGED <<started, server, response>>

ConfigureChild(t) ==
  LET c == call[t].child IN
  /\ pc[t] = "child" /\ Return(t, "MIO_OK")
  /\ \/ /\ Exists(server, c)
        /\ Change(WithNode(server, c, [server.nodes[c] EXCEPT !.parents = ParentsConfig(t)]))
        /\ \/ Respond(t, Ok) /\ UNCHANGED failed
           \/ failed' = TRUE /\ UNCHANGED response
     \/ Leave /\ Respond(t, Error) /\ failed' = TRUE
     \/ Leave /\ failed' = TRUE /\ UNCHANGED response
  /\ UNCHANGED <<started, list>>

(* mio_collection_child_remove queries into responses that it has not allocated *)
(* and reads the first of them.                                                 *)
ChildRemove(t) ==
  /\ pc[t] = "remove" /\ Goto(t, "undefined")
  /\ UNCHANGED <<started, server, list, response, fresh, failed>>

-------------------------------------------------------------------------------
(* mio_subscribe.                                                               *)

(* Mutant: only the first subscription is looked at.                            *)
ListedFirst(subscriptions, node) ==
  subscriptions # <<>> /\ subscriptions[1].subscription = node

Listed(subscriptions, node) ==
  \E i \in DOMAIN subscriptions : subscriptions[i].subscription = node

(* A query that is refused ends the call with the value of the query, which is  *)
(* MIO_OK; one without an answer leaves a NULL packet.                          *)
SubscriptionsQuery(t) ==
  /\ pc[t] = "subscriptions"
  /\ \/ /\ list' = [list EXCEPT ![t] = SubscriptionsOf(server)]
        /\ IF Listed(SubscriptionsOf(server), call[t].node)
           THEN Return(t, "already subscribed") ELSE Goto(t, "subscribe")
        /\ UNCHANGED failed
     \/ Return(t, "MIO_OK") /\ failed' = TRUE /\ UNCHANGED list
     \/ Goto(t, "undefined") /\ failed' = TRUE /\ UNCHANGED list
  /\ UNCHANGED <<started, server, response, fresh>>

Subscribed(n, state) ==
  [server EXCEPT !.subscriptions = Append(@, [node |-> n, state |-> state,
                                              id |-> Min(FreeIds(server))])]

Subscribe(t) ==
  /\ pc[t] = "subscribe"
  /\ \/ /\ Exists(server, call[t].node) /\ FreeIds(server) # {}
        /\ \E state \in {"subscribed", "pending"} :
             /\ Change(Subscribed(call[t].node, state))
             /\ \/ /\ Respond(t, SubscribeAnswer(state))
                   /\ Return(t, "MIO_OK") /\ UNCHANGED failed
                \/ Return(t, "error") /\ failed' = TRUE /\ UNCHANGED response
     \/ Leave /\ Respond(t, Error) /\ Return(t, "MIO_OK") /\ failed' = TRUE
     \/ Leave /\ Return(t, "error") /\ failed' = TRUE /\ UNCHANGED response
  /\ UNCHANGED <<started, list>>

Step(t) == \/ Begin(t) \/ Send(t) \/ UnknownAffiliation(t)
           \/ ChildrenQuery(t) \/ ConfigureParent(t) \/ ParentsQuery(t) \/ ConfigureChild(t)
           \/ ChildRemove(t) \/ SubscriptionsQuery(t) \/ Subscribe(t)

(* What is undefined in one thread ends the program.                            *)
Next == /\ \A t \in Threads : pc[t] # "undefined"
        /\ \E t \in Threads : Step(t)

Spec == Init /\ [][Next]_vars
-------------------------------------------------------------------------------
Stages == {"idle", "send", "children", "parent", "parents", "child", "remove",
           "subscriptions", "subscribe", "undefined"}

(* The type invariant: a thread is where its call can be, and what it knows of  *)
(* a collection are nodes, or entries without one.                              *)
TypeOK ==
  /\ pc \in [Threads -> Stages] /\ calls \in [Threads -> 0 .. MaxCalls]
  /\ IsServer(server)
  /\ \A t \in Threads :
       /\ response[t].type \in {"unknown", "ok", "error", "packet", "confused"}
       /\ pc[t] # "idle" => call[t] \in Calls[topic]
       /\ pc[t] \in {"parent", "child"} => Range(list[t]) \subseteq Nodes \cup {None}

(* While nothing has failed and no calls have overlapped, a collection has a    *)
(* node as its child exactly if the node has the collection as its parent: the  *)
(* two configurations of an addition leave no link with one end.  A leaf that   *)
(* is taken for a parent answers the query of its children with its items, and  *)
(* so keeps only the child that was added last.                                 *)
BothEndsAgree ==
  ~failed /\ ~overlapped /\ (\A t \in Threads : pc[t] = "idle") =>
    \A p, c \in DOMAIN server.nodes : server.nodes[p].type = "collection" =>
      (c \in Range(server.nodes[p].children) <=> p \in Range(server.nodes[c].parents))

(* An addition whose query was answered, with no change at the server since,    *)
(* keeps all entries of a collection in their order and adds its own at the     *)
(* end, once.                                                                   *)
AdditionKeeps ==
  [][\A t \in Threads : \A n \in DOMAIN server'.nodes \cap DOMAIN server.nodes :
       LET Added(old, new, m) == new = IF m \in Range(old) THEN old ELSE Append(old, m)
           before == server.nodes[n]
           after == server'.nodes[n]
       IN /\ fresh[t] /\ pc[t] = "parent" /\ pc'[t] = "parents" /\ after # before
             /\ before.type = "collection" =>
               Added(before.children, after.children, call[t].child)
          /\ fresh[t] /\ pc[t] = "child" /\ pc'[t] = "idle" /\ after # before =>
               Added(before.parents, after.parents, call[t].parent)]_vars

(* mio_subscribe asks first what the program is subscribed to: unless two calls *)
(* overlap it never has a node twice, even if a call got no answer and is made  *)
(* again.                                                                       *)
SubscribedOnce ==
  ~overlapped => NamedOnce(server)

(* What a call reports is so at the server when the answer was given: a link,   *)
(* a subscription, a node or an affiliation that was confirmed is there, or no  *)
(* longer there, a subscription that is said to exist does, and the entries of  *)
(* a packet are those of the server.                                            *)
Reported(k, r, value, s) ==
  /\ r.type = "ok" =>
       CASE k.type = "child_add" -> k.parent \in Range(s.nodes[k.child].parents)
         [] k.type = "subscribe" ->
              \E i \in DOMAIN s.subscriptions : /\ s.subscriptions[i].node = k.node
                                               /\ s.subscriptions[i].state = "subscribed"
         [] k.type = "unsubscribe" -> Matching(s, k.node, k.id) = {}
         [] k.type = "delete" -> ~Exists(s, k.node)
         [] k.type = "affiliation_set" -> s.nodes[k.node].affiliations[k.jid] = k.affiliation
         [] OTHER -> Exists(s, k.node)
  /\ r.type = "packet" =>
       CASE k.type = "children_query" ->
              s.nodes[k.node].type = "collection" =>
                Range(r.entries) = Range(s.nodes[k.node].children)
         [] k.type = "parents_query" -> r.entries = s.nodes[k.node].parents
         [] k.type = "subscriptions_query" ->
              [i \in DOMAIN r.entries |-> r.entries[i].subscription]
                = [i \in DOMAIN s.subscriptions |-> s.subscriptions[i].node]
         [] k.type = "affiliations_query" ->
              \A n \in DOMAIN s.nodes : \A j \in DOMAIN s.nodes[n].affiliations :
                k.node = n \/ (k.node = None /\ j = Me) =>
                  [affiliation |-> IF k.node = n THEN j ELSE n,
                   type |-> s.nodes[n].affiliations[j]] \in r.entries
         [] OTHER -> TRUE
  /\ value = "already subscribed" => Matching(s, k.node, None) # {}

ReportIsTrue ==
  [][\A t \in Threads : pc[t] # "idle" /\ pc'[t] = "idle" =>
       Reported(call[t], response'[t], result'[t], server')]_vars

(* What calls leave at the server is consistent.                               *)
ServerIsConsistent == TypeOK /\ BothEndsAgree /\ SubscribedOnce

(* A call does what it is asked and reports what is so.                        *)
CallsAreExact == AdditionKeeps /\ ReportIsTrue
===============================================================================
