------------------------------ MODULE MCMioNodes ------------------------------
(* MioNodes for TLC: a collection n1 with two children, one of them a           *)
(* collection too, and a leaf with an item.                                     *)
EXTENDS MioNodes, TLC

CONSTANTS n1, n2, n3, you

Symmetry == Permutations(Threads)

Node(type, items, children, parents) ==
  [NewNode(type) EXCEPT !.items = items, !.children = children, !.parents = parents]
Server(n) == [nodes |-> n, subscriptions |-> <<>>]

MCStarts ==
  [k \in Topics |->
     {Server(n1 :> Node("collection", 0, <<n2>>, <<>>)
             @@ n2 :> Node("collection", 0, <<>>, <<n1>>)
             @@ n3 :> Node("leaf", 1, <<>>, <<>>)),
      Server(n1 :> Node("collection", 0, <<n2, n3>>, <<>>)
             @@ n2 :> Node("collection", 0, <<n3>>, <<n1>>)
             @@ n3 :> Node("leaf", 0, <<>>, <<n1, n2>>))}]

Call(type) == [type |-> type, affiliation |-> None]
On(type, nodes) == {Call(type) @@ [node |-> n] : n \in nodes}

MCCalls ==
  [k \in Topics |->
     CASE k = "collections" ->
            {Call("child_add") @@ [child |-> l[1], parent |-> l[2]]
               : l \in {<<n3, n1>>, <<n2, n1>>, <<n3, n2>>, <<n2, n3>>, <<n1, n3>>}}
            \cup {Call("child_remove") @@ [child |-> n2, parent |-> n1]}
            \cup On("children_query", {n1}) \cup On("parents_query", {n3})
            \cup On("delete", {n2})
       [] k = "subscriptions" ->
            On("subscribe", {n1, n2}) \cup On("subscriptions_query", {None})
            \cup {Call("unsubscribe") @@ [node |-> n1, id |-> i] : i \in {None, 1}}
            \cup On("delete", {n1})
       [] k = "nodes" ->
            On("create", {n2}) \cup On("collection_create", {n2, n3})
            \cup On("delete", {n2}) \cup On("type_query", {n2})
            \cup On("affiliations_query", {n2, None})
            \cup {[type |-> "affiliation_set", node |-> n2, jid |-> l[1], affiliation |-> l[2]]
                    : l \in {<<you, "owner">>, <<Me, "none">>, <<you, "unknown">>}}]
===============================================================================
