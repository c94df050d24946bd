------------------------------ MODULE MioReference ------------------------------
(***************************************************************************)
(* References between nodes: clients that link and unlink a parent and a   *)
(* child node with mio_reference_child_add and mio_reference_child_remove, *)
(* and that remove the meta data of a node with mio_meta_remove_publish,   *)
(* which rewrites the references other nodes hold to it.                   *)
(*                                                                         *)
(* The lists live on the server, one item "references" per node.  A client *)
(* reads a whole list, edits its copy and publishes the whole copy; each   *)
(* query and each publication is a step, and may fail.  The name and the   *)
(* meta type of a reference are left out.                                  *)
(***************************************************************************)
EXTENDS Integers, SequencesExt

CONSTANTS
  Nodes,      \* the nodes of the pubsub server
  Clients,    \* threads, on one connection or on several
  AtChild,    \* the values of add_reference_at_child that clients use
  MaxOps,     \* bound: operations started
  MaxFaults,  \* bound: queries and publications that fail
  None        \* no operation; a query without a packet of references

ASSUME AtChildAssumption == AtChild \subseteq BOOLEAN
ASSUME BoundAssumption == MaxOps \in Nat /\ MaxFaults \in Nat

VARIABLES
  refs,     \* the list of references of each node, on the server
  pc,       \* where each client stands
  op,       \* the arguments of its current operation
  mine,     \* parent_refs, or the edited list that is to be published
  theirs,   \* child_refs, or the references a meta removal has yet to rewrite
  result,   \* what the response of its current or last operation says
  ops,      \* number of operations started
  faults,   \* number of failures so far
  overlap   \* auxiliary: two operations have overlapped

vars == <<refs, pc, op, mine, theirs, result, ops, faults, overlap>>

Ref == [type : {"child", "parent"}, node : Nodes]
ASSUME NoneAssumption == None \notin Seq(Ref)
Child(n) == [type |-> "child", node |-> n]
Parent(n) == [type |-> "parent", node |-> n]

\* The removal of meta data has the node for both parent and child.
Op == [parent : Nodes, child : Nodes, at_child : BOOLEAN]

PC == {"idle", "add_query_parent", "add_query_child", "add_publish_child",
       "add_publish_parent", "remove_query_child", "remove_publish_child",
       "remove_query_parent", "remove_publish_parent", "meta_query",
       "overwrite_query", "overwrite_publish"}

Response == {"UNKNOWN", "OK", "ERROR", "DUPLICATE_ENTRY", "REFERENCE_LOOP"}

TypeOK ==
  /\ refs \in [Nodes -> Seq(Ref)]
  /\ pc \in [Clients -> PC]
  /\ op \in [Clients -> Op \cup {None}]
  /\ \A c \in Clients : pc[c] # "idle" => op[c] \in Op
  /\ mine \in [Clients -> Seq(Ref)]
  /\ theirs \in [Clients -> Seq(Ref)]
  /\ result \in [Clients -> Response]
  /\ ops \in 0..MaxOps
  /\ faults \in 0..MaxFaults
  /\ overlap \in BOOLEAN

Init ==
  /\ refs = [n \in Nodes |-> <<>>]
  /\ pc = [c \in Clients |-> "idle"]
  /\ op = [c \in Clients |-> None]
  /\ mine = [c \in Clients |-> <<>>]
  /\ theirs = [c \in Clients |-> <<>>]
  /\ result = [c \in Clients |-> "UNKNOWN"]
  /\ ops = 0 /\ faults = 0 /\ overlap = FALSE

-------------------------------------------------------------------------------
(* Queries and publications *)

\* mio_references_query of node n: the list, or an answer that is no packet of
\* references (an error, a deadline, a lost connection).
Query(n, list) ==
  \/ list = refs[n] /\ UNCHANGED faults
  \/ faults < MaxFaults /\ list = None /\ faults' = faults + 1

\* mio_item_publish: accepted, rejected, or without an answer, in which case
\* the server has the list or has not.
Publish(n, list, answer) ==
  \/ answer = "OK" /\ refs' = [refs EXCEPT ![n] = list] /\ UNCHANGED faults
  \/ /\ faults < MaxFaults /\ faults' = faults + 1
     /\ \/ answer \in {"ERROR", "UNKNOWN"} /\ UNCHANGED refs
        \/ answer = "UNKNOWN" /\ refs' = [refs EXCEPT ![n] = list]

\* mio_XMLstart_error writes OK into a response unless it holds an error.
Merge(response, answer) ==
  IF answer = "UNKNOWN" \/ response = "ERROR" THEN response ELSE answer

\* A failed query and a list without references both start a new list.
ListOf(reply) == IF reply = None THEN <<>> ELSE reply

\* The response of the first reference to node n that the list holds.
Refusal(list, n, same) ==
  LET first == CHOOSE i \in DOMAIN list :
                 list[i].node = n /\ \A j \in 1..(i - 1) : list[j].node # n
  IN  IF list[first].type = same THEN "DUPLICATE_ENTRY" ELSE "REFERENCE_LOOP"
Mentions(list, n) == \E i \in DOMAIN list : list[i].node = n

\* mio_reference_remove: the list without the first reference equal to r.
Without(list, r) ==
  IF Contains(list, r)
    THEN RemoveAt(list, CHOOSE i \in DOMAIN list :
                          list[i] = r /\ \A j \in 1..(i - 1) : list[j] # r)
    ELSE list

Goto(c, from, to) == pc[c] = from /\ pc' = [pc EXCEPT ![c] = to]
Answer(c, response) == result' = [result EXCEPT ![c] = response]
Keep(c, m, t) == mine' = [mine EXCEPT ![c] = m] /\ theirs' = [theirs EXCEPT ![c] = t]

Begin(c, to, o) ==
  /\ ops < MaxOps
  /\ Goto(c, "idle", to)
  /\ op' = [op EXCEPT ![c] = o]
  /\ Answer(c, "UNKNOWN")
  /\ ops' = ops + 1
  /\ overlap' = (overlap \/ \E d \in Clients \ {c} : pc[d] # "idle")
  /\ UNCHANGED <<refs, mine, theirs, faults>>

\* The operation returns; its copies of the lists are freed.
Return(c, from, response) ==
  /\ Goto(c, from, "idle")
  /\ Answer(c, response)
  /\ op' = [op EXCEPT ![c] = None]
  /\ Keep(c, <<>>, <<>>)

-------------------------------------------------------------------------------
(* mio_reference_child_add *)

ChildAdd(c) ==
  \E p \in Nodes, k \in Nodes, a \in AtChild :
    p # k /\ Begin(c, "add_query_parent", [parent |-> p, child |-> k, at_child |-> a])

\* The parent's list must not mention the child, in either role.
AddQueryParent(c) ==
  /\ pc[c] = "add_query_parent"
  /\ \E reply \in {refs[op[c].parent], None} :
       /\ Query(op[c].parent, reply)
       /\ \/ /\ Mentions(ListOf(reply), op[c].child)
             /\ Return(c, "add_query_parent", Refusal(reply, op[c].child, "child"))
          \/ /\ ~Mentions(ListOf(reply), op[c].child)
             /\ Goto(c, "add_query_parent",
                     IF op[c].at_child THEN "add_query_child" ELSE "add_publish_parent")
             /\ Keep(c, ListOf(reply), <<>>)
             /\ UNCHANGED <<op, result>>
  /\ UNCHANGED <<refs, ops, overlap>>

\* Fault: the child's list is not searched; see NoDuplicates.
AddQueryChildUnchecked(c) ==
  /\ Goto(c, "add_query_child", "add_publish_child")
  /\ \E reply \in {refs[op[c].child], None} :
       Query(op[c].child, reply) /\ Keep(c, mine[c], ListOf(reply))
  /\ UNCHANGED <<refs, op, result, ops, overlap>>

AddQueryChild(c) ==
  /\ pc[c] = "add_query_child"
  /\ \E reply \in {refs[op[c].child], None} :
       /\ Query(op[c].child, reply)
       /\ \/ /\ Mentions(ListOf(reply), op[c].parent)
             /\ Return(c, "add_query_child", Refusal(reply, op[c].parent, "parent"))
          \/ /\ ~Mentions(ListOf(reply), op[c].parent)
             /\ Goto(c, "add_query_child", "add_publish_child")
             /\ Keep(c, mine[c], ListOf(reply))
             /\ UNCHANGED <<op, result>>
  /\ UNCHANGED <<refs, ops, overlap>>

\* A rejected publication is noted in the response; the parent is next anyway.
AddPublishChild(c) ==
  /\ Goto(c, "add_publish_child", "add_publish_parent")
  /\ \E answer \in {"OK", "ERROR", "UNKNOWN"} :
       /\ Publish(op[c].child, Append(theirs[c], Parent(op[c].parent)), answer)
       /\ Answer(c, IF answer = "ERROR" THEN "ERROR" ELSE result[c])
  /\ UNCHANGED <<op, mine, theirs, ops, overlap>>

\* Fault: the list goes back without the new reference; see OkMeansDone.
AddPublishParentAsRead(c) ==
  /\ pc[c] = "add_publish_parent"
  /\ \E answer \in {"OK", "ERROR", "UNKNOWN"} :
       /\ Publish(op[c].parent, mine[c], answer)
       /\ Return(c, "add_publish_parent", Merge(result[c], answer))
  /\ UNCHANGED <<ops, overlap>>

AddPublishParent(c) ==
  /\ pc[c] = "add_publish_parent"
  /\ \E answer \in {"OK", "ERROR", "UNKNOWN"} :
       /\ Publish(op[c].parent, Append(mine[c], Child(op[c].child)), answer)
       /\ Return(c, "add_publish_parent", Merge(result[c], answer))
  /\ UNCHANGED <<ops, overlap>>

-------------------------------------------------------------------------------
(* mio_reference_child_remove *)

ChildRemove(c) ==
  \E p \in Nodes, k \in Nodes :
    p # k /\ Begin(c, "remove_query_child", [parent |-> p, child |-> k, at_child |-> FALSE])

\* Fault: a list with one reference is taken for one that would be left empty
\* and is not published; see ParentsKnowTheirChildren.
RemoveQueryChildSkips(c) ==
  /\ pc[c] = "remove_query_child"
  /\ \E reply \in {refs[op[c].child], None} :
       /\ Query(op[c].child, reply)
       /\ \/ Len(ListOf(reply)) <= 1 /\ Goto(c, "remove_query_child", "remove_query_parent")
             /\ UNCHANGED theirs
          \/ Len(ListOf(reply)) > 1 /\ Goto(c, "remove_query_child", "remove_publish_child")
             /\ theirs' = [theirs EXCEPT ![c] = Without(reply, Parent(op[c].parent))]
  /\ UNCHANGED <<refs, op, mine, result, ops, overlap>>

\* Without a list, or with an empty one, nothing is published at the child.
RemoveQueryChild(c) ==
  /\ pc[c] = "remove_query_child"
  /\ \E reply \in {refs[op[c].child], None} :
       /\ Query(op[c].child, reply)
       /\ \/ ListOf(reply) = <<>> /\ Goto(c, "remove_query_child", "remove_query_parent")
             /\ UNCHANGED theirs
          \/ ListOf(reply) # <<>> /\ Goto(c, "remove_query_child", "remove_publish_child")
             /\ theirs' = [theirs EXCEPT ![c] = Without(reply, Parent(op[c].parent))]
  /\ UNCHANGED <<refs, op, mine, result, ops, overlap>>

\* Whatever the answer, something was published, and the response will say OK.
RemovePublishChild(c) ==
  /\ Goto(c, "remove_publish_child", "remove_query_parent")
  /\ \E answer \in {"OK", "ERROR", "UNKNOWN"} : Publish(op[c].child, theirs[c], answer)
  /\ Answer(c, "OK")
  /\ UNCHANGED <<op, mine, theirs, ops, overlap>>

RemoveQueryParent(c) ==
  /\ pc[c] = "remove_query_parent"
  /\ \E reply \in {refs[op[c].parent], None} :
       /\ Query(op[c].parent, reply)
       /\ \/ ListOf(reply) = <<>>
             /\ Return(c, "remove_query_parent", IF result[c] = "OK" THEN "OK" ELSE "ERROR")
          \/ ListOf(reply) # <<>>
             /\ Goto(c, "remove_query_parent", "remove_publish_parent")
             /\ Keep(c, Without(reply, Child(op[c].child)), theirs[c])
             /\ UNCHANGED <<op, result>>
  /\ UNCHANGED <<refs, ops, overlap>>

RemovePublishParent(c) ==
  /\ pc[c] = "remove_publish_parent"
  /\ \E answer \in {"OK", "ERROR", "UNKNOWN"} : Publish(op[c].parent, mine[c], answer)
  /\ Return(c, "remove_publish_parent", "OK")
  /\ UNCHANGED <<ops, overlap>>

-------------------------------------------------------------------------------
(* mio_meta_remove_publish of a whole item, and                            *)
(* _mio_reference_meta_type_overwrite_publish for each reference           *)

MetaRemove(c) ==
  \E n \in Nodes : Begin(c, "meta_query", [parent |-> n, child |-> n, at_child |-> FALSE])

\* Fault: the type of the response is not tested; see TypeOK.
MetaQueryUntested(c) ==
  /\ Goto(c, "meta_query", "overwrite_query")
  /\ \E reply \in {refs[op[c].parent], None} :
       Query(op[c].parent, reply) /\ Keep(c, <<>>, reply)
  /\ UNCHANGED <<refs, op, result, ops, overlap>>

MetaQuery(c) ==
  /\ pc[c] = "meta_query"
  /\ \E reply \in {refs[op[c].parent], None} :
       /\ Query(op[c].parent, reply)
       /\ \/ ListOf(reply) = <<>> /\ Return(c, "meta_query", result[c])
          \/ ListOf(reply) # <<>> /\ Goto(c, "meta_query", "overwrite_query")
             /\ Keep(c, <<>>, reply) /\ UNCHANGED <<op, result>>
  /\ UNCHANGED <<refs, ops, overlap>>

\* On with the next reference, or back to the caller.
NextReference(c, from) ==
  \/ Len(theirs[c]) > 1 /\ Goto(c, from, "overwrite_query")
     /\ Keep(c, <<>>, Tail(theirs[c])) /\ UNCHANGED <<op, result>>
  \/ Len(theirs[c]) <= 1 /\ Return(c, from, result[c])

\* The reference the other node holds to this one.
BackReference(c) ==
  IF Head(theirs[c]).type = "child" THEN Parent(op[c].parent) ELSE Child(op[c].parent)

\* mio_reference_remove returns NULL for a list it has emptied, and the list
\* itself when it holds no such reference.
OverwriteQuery(c) ==
  /\ pc[c] = "overwrite_query"
  /\ \E reply \in {refs[Head(theirs[c]).node], None} :
       /\ Query(Head(theirs[c]).node, reply)
       /\ LET rest == Without(ListOf(reply), BackReference(c))
          IN  \/ rest = <<>> /\ NextReference(c, "overwrite_query")
              \/ rest # <<>> /\ Goto(c, "overwrite_query", "overwrite_publish")
                 /\ Keep(c, Append(rest, BackReference(c)), theirs[c])
                 /\ UNCHANGED <<op, result>>
  /\ UNCHANGED <<refs, ops, overlap>>

OverwritePublish(c) ==
  /\ pc[c] = "overwrite_publish"
  /\ \E answer \in {"OK", "ERROR", "UNKNOWN"} : Publish(Head(theirs[c]).node, mine[c], answer)
  /\ NextReference(c, "overwrite_publish")
  /\ UNCHANGED <<ops, overlap>>

-------------------------------------------------------------------------------
AddStep(c) == AddQueryParent(c) \/ AddQueryChild(c) \/ AddPublishChild(c) \/ AddPublishParent(c)
RemoveStep(c) == RemoveQueryChild(c) \/ RemovePublishChild(c) \/ RemoveQueryParent(c)
                 \/ RemovePublishParent(c)
MetaStep(c) == MetaQuery(c) \/ OverwriteQuery(c) \/ OverwritePublish(c)

Next ==
  \E c \in Clients :
    \/ ChildAdd(c) \/ ChildRemove(c) \/ MetaRemove(c)
    \/ AddStep(c) \/ RemoveStep(c) \/ MetaStep(c)

Spec == Init /\ [][Next]_vars

-------------------------------------------------------------------------------
(* Properties *)

Links(n) == ToSet(refs[n])

\* No node is listed twice in the same role, whatever clients overlap and
\* whatever queries and publications fail.
NoDuplicates == \A n \in Nodes : IsInjective(refs[n])
ListsAreSound == TypeOK /\ NoDuplicates

\* No operation has met a failure or another operation.
Quiet == faults = 0 /\ ~overlap

\* The two ends agree: when nothing has failed or overlapped and all
\* operations have returned, a node that names a parent is named by it as a child.
ParentsKnowTheirChildren ==
  Quiet /\ (\A c \in Clients : pc[c] = "idle") =>
    \A n, m \in Nodes : Parent(m) \in Links(n) => Child(n) \in Links(m)

\* An operation that nothing disturbed and that reports OK has done what it was
\* asked for, at both ends.
OkMeansDone ==
  [][\A c \in Clients :
       LET p == op[c].parent
           k == op[c].child
       IN  /\ pc[c] \in {"add_publish_parent", "remove_query_parent", "remove_publish_parent"}
           /\ pc'[c] = "idle" /\ result'[c] = "OK" /\ faults' = 0 /\ ~overlap
           => IF pc[c] = "add_publish_parent"
                THEN /\ Contains(refs'[p], Child(k))
                     /\ op[c].at_child => Contains(refs'[k], Parent(p))
                ELSE ~Contains(refs'[p], Child(k)) /\ ~Contains(refs'[k], Parent(p))]_vars

\* "If reference to remove was not present, don't publish anything": a removal of
\* meta data never gives a node a reference that it did not have.
OverwriteAddsNothing ==
  [][\A c \in Clients : pc[c] = "overwrite_publish" /\ pc'[c] # "overwrite_publish" =>
       \A n \in Nodes : Links(n)' \subseteq Links(n)]_vars
===============================================================================
