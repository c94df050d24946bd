---------------------------- MODULE MioReferenceProofs ----------------------------
(***************************************************************************)
(* For every number of nodes, clients, operations and failures: the lists  *)
(* on the server are well-formed and hold no reference twice.  Every list  *)
(* that is published is a copy of a list that held no reference twice,     *)
(* from which one reference was taken or to which one was appended that    *)
(* the copy did not hold; so the inductive invariant speaks of the copies. *)
(*                                                                         *)
(* While nothing fails and no operations overlap, the two ends of every    *)
(* link agree, and an operation that returns MIO_OK has done its work at   *)
(* both: the invariant then says what a client knows of the server's lists *)
(* at each of its steps.                                                   *)
(***************************************************************************)
EXTENDS MioReference, SequenceTheorems, TLAPS

\* What the copies m and t of a client fulfil that stands at `at` with arguments o.
Fits(at, m, t, o) ==
  /\ IsInjective(m) /\ IsInjective(t)
  /\ at \in {"add_query_child", "add_publish_child", "add_publish_parent"}
       => ~Mentions(m, o.child)
  /\ at = "add_publish_child" => ~Mentions(t, o.parent)
  /\ at \in {"overwrite_query", "overwrite_publish"} => t # <<>>

Copies == \A c \in Clients : Fits(pc[c], mine[c], theirs[c], op[c])

RInv == TypeOK /\ NoDuplicates /\ Copies

-------------------------------------------------------------------------------
(* Lists *)

\* Appending what a list does not hold keeps it free of duplicates
\* (mio_reference_add).
LEMMA AppendFresh ==
  ASSUME NEW S, NEW s \in Seq(S), NEW x \in S, IsInjective(s),
         \A i \in DOMAIN s : s[i] # x
  PROVE  Append(s, x) \in Seq(S) /\ IsInjective(Append(s, x))
  BY DEF IsInjective

\* The concatenation of two sequences of known lengths, element by element.
LEMMA Join ==
  ASSUME NEW S, NEW u \in Seq(S), NEW v \in Seq(S), NEW n \in Nat, NEW k \in 1..n,
         Len(u) = k - 1, Len(v) = n - k
  PROVE  /\ u \o v \in Seq(S) /\ Len(u \o v) = n - 1
         /\ \A i \in 1..(n - 1) : (u \o v)[i] = IF i < k THEN u[i] ELSE v[i - (k - 1)]
<1> DEFINE w == u \o v
<1>1. /\ w \in Seq(S) /\ Len(w) = Len(u) + Len(v)
      /\ \A i \in 1..(Len(u) + Len(v)) : w[i] = IF i <= Len(u) THEN u[i] ELSE v[i - Len(u)]
  BY ConcatProperties
<1> HIDE DEF w
<1>2. w \in Seq(S) /\ Len(w) = n - 1
  BY <1>1
<1>3. \A i \in 1..(n - 1) : w[i] = IF i < k THEN u[i] ELSE v[i - (k - 1)]
  BY <1>1
<1> QED
  BY <1>2, <1>3 DEF w

\* mio_reference_remove takes out the reference x that a list holds and moves
\* those behind it up by one.
LEMMA WithoutElements ==
  ASSUME NEW S, NEW s \in Seq(S), NEW x, IsInjective(s), Contains(s, x)
  PROVE  \E k \in 1..Len(s) :
           /\ s[k] = x
           /\ Without(s, x) \in Seq(S) /\ Len(Without(s, x)) = Len(s) - 1
           /\ \A i \in 1..(Len(s) - 1) :
                Without(s, x)[i] = IF i < k THEN s[i] ELSE s[i + 1]
<1> DEFINE k == CHOOSE i \in DOMAIN s : s[i] = x /\ \A j \in 1..(i - 1) : s[j] # x
           t == SubSeq(s, 1, k - 1) \o SubSeq(s, k + 1, Len(s))
<1>1. PICK m \in DOMAIN s : s[m] = x
  BY DEF Contains
<1>2. \A j \in 1..(m - 1) : s[j] # x
  BY <1>1 DEF IsInjective
<1>3. k \in 1..Len(s) /\ s[k] = x
  BY <1>1, <1>2
<1>4. Without(s, x) = t
  BY DEF Without, RemoveAt
<1> HIDE DEF k
<1> DEFINE t1 == SubSeq(s, 1, k - 1)
           t2 == SubSeq(s, k + 1, Len(s))
<1>5. t1 \in Seq(S) /\ Len(t1) = k - 1 /\ \A i \in 1..(k - 1) : t1[i] = s[i]
  BY <1>3
<1>6. /\ t2 \in Seq(S) /\ Len(t2) = Len(s) - k
      /\ \A i \in 1..(Len(s) - k) : t2[i] = s[i + k]
  BY <1>3
<1> HIDE DEF t1, t2
<1> DEFINE n == Len(s)
<1>r. n \in Nat /\ k \in 1..n
  BY <1>3
<1> HIDE DEF n
<1>7. /\ t1 \o t2 \in Seq(S) /\ Len(t1 \o t2) = n - 1
      /\ \A i \in 1..(n - 1) :
           (t1 \o t2)[i] = IF i < k THEN t1[i] ELSE t2[i - (k - 1)]
  BY <1>r, <1>5, <1>6, Join DEF n
<1> DEFINE w == t1 \o t2
<1>j. \A i \in 1..(n - 1) : w[i] = IF i < k THEN t1[i] ELSE t2[i - (k - 1)]
  BY <1>7
<1> HIDE DEF w
<1>p. /\ \A i \in 1..(k - 1) : t1[i] = s[i]
      /\ \A i \in 1..(n - k) : t2[i] = s[i + k]
  BY <1>5, <1>6 DEF n
<1>8. \A i \in 1..(n - 1) : w[i] = IF i < k THEN s[i] ELSE s[i + 1]
  <2> TAKE i \in 1..(n - 1)
  <2>1. CASE i < k
    BY <1>r, <1>j, <1>p, <2>1
  <2>2. CASE ~(i < k)
    <3>1. w[i] = t2[i - (k - 1)] /\ i - (k - 1) \in 1..(n - k)
      BY <1>r, <1>j, <2>2
    <3>2. t2[i - (k - 1)] = s[(i - (k - 1)) + k]
      BY <1>p, <3>1
    <3>3. (i - (k - 1)) + k = i + 1
      BY <1>r
    <3> QED
      BY <2>2, <3>1, <3>2, <3>3
  <2> QED
    BY <2>1, <2>2
<1>9. Without(s, x) = w
  BY <1>4 DEF t1, t2, w
<1>10. w \in Seq(S) /\ Len(w) = n - 1
  BY <1>7 DEF w
<1> HIDE DEF t
<1>11. /\ Without(s, x) \in Seq(S) /\ Len(Without(s, x)) = Len(s) - 1
       /\ \A i \in 1..(Len(s) - 1) :
            Without(s, x)[i] = IF i < k THEN s[i] ELSE s[i + 1]
  BY <1>8, <1>9, <1>10 DEF n
<1> QED
  BY <1>3, <1>11

\* mio_reference_remove takes at most one reference out: the rest is free of
\* duplicates and does not hold it.
LEMMA WithoutFresh ==
  ASSUME NEW S, NEW s \in Seq(S), NEW x, IsInjective(s)
  PROVE  /\ Without(s, x) \in Seq(S)
         /\ IsInjective(Without(s, x))
         /\ \A i \in DOMAIN Without(s, x) : Without(s, x)[i] # x
<1>1. CASE ~Contains(s, x)
  BY <1>1 DEF Without, Contains
<1>2. CASE Contains(s, x)
  <2> DEFINE t == Without(s, x)
  <2>1. PICK k \in 1..Len(s) :
          /\ s[k] = x /\ t \in Seq(S) /\ Len(t) = Len(s) - 1
          /\ \A i \in 1..(Len(s) - 1) : t[i] = IF i < k THEN s[i] ELSE s[i + 1]
    BY <1>2, WithoutElements
  <2> HIDE DEF t
  <2>2. \A a, b \in 1..Len(s) : s[a] = s[b] => a = b
    BY DEF IsInjective
  <2>3. DOMAIN t = 1..(Len(s) - 1)
    BY <2>1
  <2>4. \A i \in 1..(Len(s) - 1) : t[i] # x
    BY <2>1, <2>2
  <2>5. \A a, b \in 1..(Len(s) - 1) : t[a] = t[b] => a = b
    BY <2>1, <2>2
  <2> QED
    BY <2>1, <2>3, <2>4, <2>5 DEF IsInjective, t
<1> QED
  BY <1>1, <1>2

\* What mio_reference_remove leaves is what the list held but for that reference.
LEMMA WithoutSet ==
  ASSUME NEW S, NEW s \in Seq(S), NEW x, IsInjective(s)
  PROVE  ToSet(Without(s, x)) = ToSet(s) \ {x}
<1>1. CASE ~Contains(s, x)
  BY <1>1 DEF Without, Contains, ToSet
<1>2. CASE Contains(s, x)
  <2> DEFINE t == Without(s, x)
  <2>1. PICK k \in 1..Len(s) :
          /\ s[k] = x /\ t \in Seq(S) /\ Len(t) = Len(s) - 1
          /\ \A i \in 1..(Len(s) - 1) : t[i] = IF i < k THEN s[i] ELSE s[i + 1]
    BY <1>2, WithoutElements
  <2>2. \A i \in DOMAIN t : t[i] # x
    BY WithoutFresh
  <2> HIDE DEF t
  <2>3. DOMAIN t = 1..(Len(s) - 1) /\ DOMAIN s = 1..Len(s) /\ Len(s) \in Nat
    BY <2>1
  <2>4. \A i \in DOMAIN t : \E j \in DOMAIN s : t[i] = s[j]
    <3>1. \A i \in DOMAIN t : i \in DOMAIN s /\ i + 1 \in DOMAIN s
      BY <2>3
    <3>2. \A i \in DOMAIN t : t[i] = s[i] \/ t[i] = s[i + 1]
      BY <2>1, <2>3
    <3> QED
      BY <3>1, <3>2
  <2>5. ASSUME NEW j \in DOMAIN s, s[j] # x
        PROVE  \E i \in DOMAIN t : t[i] = s[j]
    <3>1. CASE j < k
      BY <2>1, <2>3, <3>1
    <3>2. CASE j > k
      <4>1. j - 1 \in 1..(Len(s) - 1) /\ ~(j - 1 < k) /\ (j - 1) + 1 = j
        BY <2>3, <3>2
      <4>2. t[j - 1] = s[j]
        BY <2>1, <4>1
      <4> QED
        BY <2>3, <4>1, <4>2
    <3>3. j # k
      BY <2>1, <2>5
    <3> QED
      BY <2>3, <3>1, <3>2, <3>3
  <2> QED
    BY <2>2, <2>4, <2>5 DEF ToSet, t
<1> QED
  BY <1>1, <1>2

\* What the other operations on lists hold: mio_reference_add, the walk of a
\* meta removal, and a new list.
LEMMA SetsOfLists ==
  ASSUME NEW S, NEW s \in Seq(S)
  PROVE  /\ \A x \in S : ToSet(Append(s, x)) = ToSet(s) \cup {x}
         /\ s # <<>> => Head(s) \in ToSet(s) /\ ToSet(Tail(s)) \subseteq ToSet(s)
         /\ s = <<>> => ToSet(s) = {}
         /\ \A x : Contains(s, x) <=> x \in ToSet(s)
<1>1. ASSUME NEW x \in S
      PROVE  ToSet(Append(s, x)) = ToSet(s) \cup {x}
  <2> DEFINE t == Append(s, x)
  <2>1. /\ t \in Seq(S) /\ Len(t) = Len(s) + 1 /\ Len(s) \in Nat
        /\ \A i \in 1..Len(s) : t[i] = s[i]
        /\ t[Len(s) + 1] = x
    OBVIOUS
  <2> HIDE DEF t
  <2>2. DOMAIN t = 1..(Len(s) + 1) /\ DOMAIN s = 1..Len(s)
    BY <2>1
  <2>3. \A i \in DOMAIN t : i \in DOMAIN s \/ t[i] = x
    BY <2>1, <2>2
  <2>4. Len(s) + 1 \in DOMAIN t /\ \A i \in DOMAIN s : i \in DOMAIN t
    BY <2>1, <2>2
  <2>5. ToSet(t) = ToSet(s) \cup {x}
    BY <2>1, <2>2, <2>3, <2>4 DEF ToSet
  <2> QED
    BY <2>5 DEF t
<1>2. ASSUME s # <<>>
      PROVE  Head(s) \in ToSet(s) /\ ToSet(Tail(s)) \subseteq ToSet(s)
  <2> DEFINE t == Tail(s)
  <2>1. /\ t \in Seq(S) /\ Len(t) = Len(s) - 1 /\ Len(s) \in Nat /\ Len(s) > 0
        /\ \A i \in 1..(Len(s) - 1) : t[i] = s[i + 1]
        /\ Head(s) = s[1]
    BY <1>2
  <2> HIDE DEF t
  <2>2. \A i \in DOMAIN t : \E j \in DOMAIN s : t[i] = s[j]
    BY <2>1
  <2>3. 1 \in DOMAIN s
    BY <2>1
  <2> QED
    BY <2>1, <2>2, <2>3 DEF ToSet, t
<1>3. s = <<>> => ToSet(s) = {}
  BY DEF ToSet
<1>4. \A x : Contains(s, x) <=> x \in ToSet(s)
  BY DEF Contains, ToSet
<1> QED
  BY <1>1, <1>2, <1>3, <1>4

\* The references that remain of a meta removal hold none twice.
LEMMA TailFresh ==
  ASSUME NEW S, NEW s \in Seq(S), s # <<>>, IsInjective(s)
  PROVE  Tail(s) \in Seq(S) /\ IsInjective(Tail(s)) /\ (Len(s) > 1 => Tail(s) # <<>>)
<1>1. /\ Tail(s) \in Seq(S) /\ Len(Tail(s)) = Len(s) - 1 /\ Len(s) \in Nat
      /\ \A i \in 1..(Len(s) - 1) : Tail(s)[i] = s[i + 1]
  OBVIOUS
<1>2. \A a, b \in 1..Len(s) : s[a] = s[b] => a = b
  BY DEF IsInjective
<1>3. \A a, b \in 1..(Len(s) - 1) : Tail(s)[a] = Tail(s)[b] => a = b
  BY <1>1, <1>2
<1>4. DOMAIN Tail(s) = 1..(Len(s) - 1)
  BY <1>1
<1> QED
  BY <1>1, <1>3, <1>4 DEF IsInjective

-------------------------------------------------------------------------------
(* Queries, publications and the client's own state *)

\* mio_references_query: what a client works on is a list without duplicates,
\* the one on the server or an empty one.
LEMMA QueryGivesList ==
  ASSUME RInv, NEW n \in Nodes, NEW reply, Query(n, reply)
  PROVE  /\ ListOf(reply) \in Seq(Ref) /\ IsInjective(ListOf(reply))
         /\ ListOf(reply) # <<>> => reply = ListOf(reply)
         /\ faults' \in 0..MaxFaults
<1>1. refs[n] \in Seq(Ref) /\ IsInjective(refs[n])
  BY DEF RInv, TypeOK, NoDuplicates
<1>2. <<>> \in Seq(Ref) /\ IsInjective(<<>>)
  BY DEF IsInjective
<1>3. reply = refs[n] \/ reply = None
  BY DEF Query
<1>4. ListOf(reply) \in Seq(Ref) /\ IsInjective(ListOf(reply))
  BY <1>1, <1>2, <1>3 DEF ListOf
<1>5. ListOf(reply) # <<>> => reply = ListOf(reply)
  BY DEF ListOf
<1>6. faults' \in 0..MaxFaults
  BY BoundAssumption DEF RInv, TypeOK, Query
<1> QED
  BY <1>4, <1>5, <1>6

\* mio_item_publish of a list without duplicates keeps the server free of them,
\* whether it is accepted, rejected or unanswered.
LEMMA PublishKeepsLists ==
  ASSUME RInv, NEW n, NEW list \in Seq(Ref), IsInjective(list), NEW answer,
         Publish(n, list, answer)
  PROVE  /\ refs' \in [Nodes -> Seq(Ref)] /\ NoDuplicates'
         /\ faults' \in 0..MaxFaults
<1>1. refs' = refs \/ refs' = [refs EXCEPT ![n] = list]
  BY DEF Publish
<1>2. refs' \in [Nodes -> Seq(Ref)] /\ NoDuplicates'
  BY <1>1 DEF RInv, TypeOK, NoDuplicates
<1>3. faults' \in 0..MaxFaults
  BY BoundAssumption DEF RInv, TypeOK, Publish
<1> QED
  BY <1>2, <1>3

\* A client that moves to `to` with copies that fit disturbs nobody else's.
LEMMA ClientMoves ==
  ASSUME RInv, NEW c \in Clients, NEW to \in PC, NEW m \in Seq(Ref), NEW t \in Seq(Ref),
         NEW o \in Op \cup {None}, NEW r \in Response,
         pc' = [pc EXCEPT ![c] = to], mine' = [mine EXCEPT ![c] = m],
         theirs' = [theirs EXCEPT ![c] = t], op' = [op EXCEPT ![c] = o],
         result' = [result EXCEPT ![c] = r],
         to # "idle" => o \in Op, Fits(to, m, t, o),
         refs' \in [Nodes -> Seq(Ref)] /\ NoDuplicates',
         faults' \in 0..MaxFaults, ops' \in 0..MaxOps, overlap' \in BOOLEAN
  PROVE  RInv'
<1>1. TypeOK'
  BY DEF RInv, TypeOK
<1>2. Copies'
  <2> SUFFICES ASSUME NEW d \in Clients
               PROVE  Fits(pc'[d], mine'[d], theirs'[d], op'[d])
    BY DEF Copies
  <2>1. CASE d = c
    BY <2>1 DEF RInv, TypeOK
  <2>2. CASE d # c
    BY <2>2 DEF RInv, TypeOK, Copies
  <2> QED
    BY <2>1, <2>2
<1> QED
  BY <1>1, <1>2 DEF RInv

\* A client between two operations has no copies.
LEMMA EmptyFits == \A o : Fits("idle", <<>>, <<>>, o)
  BY DEF Fits, IsInjective
-------------------------------------------------------------------------------
(* The invariant *)

\* A server without references and clients without operations.
LEMMA InitInvariant == Init => RInv
<1> SUFFICES ASSUME Init PROVE RInv
  OBVIOUS
<1>1. <<>> \in Seq(Ref) /\ IsInjective(<<>>)
  BY DEF IsInjective
<1>2. NoDuplicates
  BY <1>1 DEF Init, NoDuplicates
<1>3. Copies
  BY EmptyFits DEF Init, Copies
<1>4. "idle" \in PC /\ "UNKNOWN" \in Response /\ 0 \in 0..MaxOps /\ 0 \in 0..MaxFaults
  BY BoundAssumption DEF PC, Response
<1>5. TypeOK
  <2> DEFINE empty == <<>>
  <2>1. empty \in Seq(Ref)
    OBVIOUS
  <2> HIDE DEF empty
  <2>2. /\ [n \in Nodes |-> empty] \in [Nodes -> Seq(Ref)]
        /\ [c \in Clients |-> empty] \in [Clients -> Seq(Ref)]
    BY <2>1
  <2>3. /\ refs \in [Nodes -> Seq(Ref)]
        /\ mine \in [Clients -> Seq(Ref)] /\ theirs \in [Clients -> Seq(Ref)]
    BY <2>2 DEF Init, empty
  <2>4. \A c \in Clients : pc[c] = "idle"
    BY DEF Init
  <2> QED
    BY <1>4, <2>3, <2>4 DEF Init, TypeOK
<1> QED
  BY <1>2, <1>3, <1>5 DEF RInv

\* The call of an operation sets its arguments.
LEMMA BeginInvariant ==
  ASSUME RInv, NEW c \in Clients, NEW to \in {"add_query_parent", "remove_query_child", "meta_query"},
         NEW o \in Op, Begin(c, to, o)
  PROVE  RInv'
<1> DEFINE m == mine[c]
           t == theirs[c]
<1>1. m \in Seq(Ref) /\ t \in Seq(Ref) /\ Fits(to, m, t, o)
  BY DEF RInv, TypeOK, Copies, Fits
<1>2. /\ pc' = [pc EXCEPT ![c] = to] /\ op' = [op EXCEPT ![c] = o]
      /\ result' = [result EXCEPT ![c] = "UNKNOWN"]
      /\ mine' = [mine EXCEPT ![c] = m] /\ theirs' = [theirs EXCEPT ![c] = t]
  BY DEF Begin, Goto, Answer, RInv, TypeOK
<1>3. /\ refs' \in [Nodes -> Seq(Ref)] /\ NoDuplicates' /\ faults' \in 0..MaxFaults
      /\ ops' \in 0..MaxOps /\ overlap' \in BOOLEAN
  BY BoundAssumption DEF Begin, RInv, TypeOK, NoDuplicates
<1>4. to \in PC /\ "UNKNOWN" \in Response
  BY DEF PC, Response
<1> HIDE DEF m, t
<1> QED
  BY <1>1, <1>2, <1>3, <1>4, ClientMoves

\* The return from an operation frees its copies.
LEMMA ReturnInvariant ==
  ASSUME RInv, NEW c \in Clients, NEW from, NEW r \in Response, Return(c, from, r),
         refs' \in [Nodes -> Seq(Ref)] /\ NoDuplicates',
         faults' \in 0..MaxFaults, UNCHANGED <<ops, overlap>>
  PROVE  RInv'
<1>1. <<>> \in Seq(Ref) /\ "idle" \in PC
  BY DEF PC
<1>2. Fits("idle", <<>>, <<>>, None)
  BY EmptyFits
<1>3. ops' \in 0..MaxOps /\ overlap' \in BOOLEAN
  BY DEF RInv, TypeOK
<1> QED
  BY <1>1, <1>2, <1>3, ClientMoves DEF Return, Goto, Answer, Keep

\* A step that neither begins nor returns keeps the arguments.
LEMMA StepInvariant ==
  ASSUME RInv, NEW c \in Clients, pc[c] # "idle", NEW from, NEW to \in PC,
         NEW m \in Seq(Ref), NEW t \in Seq(Ref), NEW r \in Response,
         Goto(c, from, to), Keep(c, m, t), Answer(c, r), Fits(to, m, t, op[c]),
         refs' \in [Nodes -> Seq(Ref)] /\ NoDuplicates',
         faults' \in 0..MaxFaults, UNCHANGED <<op, ops, overlap>>
  PROVE  RInv'
<1>1. op[c] \in Op /\ op' = [op EXCEPT ![c] = op[c]]
  BY DEF RInv, TypeOK
<1>2. ops' \in 0..MaxOps /\ overlap' \in BOOLEAN
  BY DEF RInv, TypeOK
<1> QED
  BY <1>1, <1>2, ClientMoves DEF Goto, Answer, Keep

\* The steps of mio_reference_child_add.
LEMMA AddInvariant ==
  ASSUME RInv, NEW c \in Clients, AddStep(c)
  PROVE  RInv'
<1> USE DEF PC, Response
<1>0. /\ pc[c] \in PC /\ mine[c] \in Seq(Ref) /\ theirs[c] \in Seq(Ref)
      /\ result[c] \in Response /\ Fits(pc[c], mine[c], theirs[c], op[c])
      /\ Keep(c, mine[c], theirs[c]) <=> UNCHANGED <<mine, theirs>>
  BY DEF RInv, TypeOK, Copies, Keep
<1>r. /\ refs \in [Nodes -> Seq(Ref)] /\ NoDuplicates
      /\ UNCHANGED result => Answer(c, result[c])
  BY DEF RInv, TypeOK, Answer
<1>e. <<>> \in Seq(Ref) /\ IsInjective(<<>>)
  BY DEF IsInjective
<1>1. CASE AddQueryParent(c)
  <2>1. pc[c] = "add_query_parent" /\ op[c] \in Op /\ op[c].parent \in Nodes
    BY <1>1 DEF AddQueryParent, RInv, TypeOK, Op
  <2>2. PICK reply : /\ Query(op[c].parent, reply)
                     /\ \/ /\ Mentions(ListOf(reply), op[c].child)
                           /\ Return(c, "add_query_parent", Refusal(reply, op[c].child, "child"))
                        \/ /\ ~Mentions(ListOf(reply), op[c].child)
                           /\ Goto(c, "add_query_parent",
                                   IF op[c].at_child THEN "add_query_child" ELSE "add_publish_parent")
                           /\ Keep(c, ListOf(reply), <<>>)
                           /\ UNCHANGED <<op, result>>
    BY <1>1 DEF AddQueryParent
  <2>3. /\ ListOf(reply) \in Seq(Ref) /\ IsInjective(ListOf(reply))
        /\ faults' \in 0..MaxFaults
    BY <2>1, <2>2, QueryGivesList
  <2>4. refs' \in [Nodes -> Seq(Ref)] /\ NoDuplicates' /\ UNCHANGED <<ops, overlap>>
    BY <1>1, <1>r DEF AddQueryParent, NoDuplicates
  <2>5. CASE Return(c, "add_query_parent", Refusal(reply, op[c].child, "child"))
    <3>1. Refusal(reply, op[c].child, "child") \in Response
      BY DEF Refusal
    <3> QED
      BY <2>3, <2>4, <2>5, <3>1, ReturnInvariant
  <2>6. CASE /\ ~Mentions(ListOf(reply), op[c].child)
             /\ Goto(c, "add_query_parent",
                     IF op[c].at_child THEN "add_query_child" ELSE "add_publish_parent")
             /\ Keep(c, ListOf(reply), <<>>)
             /\ UNCHANGED <<op, result>>
    <3> DEFINE to == IF op[c].at_child THEN "add_query_child" ELSE "add_publish_parent"
    <3>1. to \in {"add_query_child", "add_publish_parent"}
      OBVIOUS
    <3>2. Fits(to, ListOf(reply), <<>>, op[c])
      BY <1>e, <2>3, <2>6, <3>1 DEF Fits
    <3>3. Goto(c, "add_query_parent", to)
      BY <2>6
    <3> HIDE DEF to
    <3>4. pc[c] # "idle" /\ to \in PC
      BY <2>1, <3>1
    <3> QED
      BY <1>0, <1>r, <1>e, <2>3, <2>4, <2>6, <3>2, <3>3, <3>4, StepInvariant
  <2> QED
    BY <2>2, <2>5, <2>6
<1>2. CASE AddQueryChild(c)
  <2>1. pc[c] = "add_query_child" /\ op[c] \in Op /\ op[c].child \in Nodes
    BY <1>2 DEF AddQueryChild, RInv, TypeOK, Op
  <2>2. PICK reply : /\ Query(op[c].child, reply)
                     /\ \/ /\ Mentions(ListOf(reply), op[c].parent)
                           /\ Return(c, "add_query_child", Refusal(reply, op[c].parent, "parent"))
                        \/ /\ ~Mentions(ListOf(reply), op[c].parent)
                           /\ Goto(c, "add_query_child", "add_publish_child")
                           /\ Keep(c, mine[c], ListOf(reply))
                           /\ UNCHANGED <<op, result>>
    BY <1>2 DEF AddQueryChild
  <2>3. /\ ListOf(reply) \in Seq(Ref) /\ IsInjective(ListOf(reply))
        /\ faults' \in 0..MaxFaults
    BY <2>1, <2>2, QueryGivesList
  <2>4. refs' \in [Nodes -> Seq(Ref)] /\ NoDuplicates' /\ UNCHANGED <<ops, overlap>>
    BY <1>2, <1>r DEF AddQueryChild, NoDuplicates
  <2>5. CASE Return(c, "add_query_child", Refusal(reply, op[c].parent, "parent"))
    <3>1. Refusal(reply, op[c].parent, "parent") \in Response
      BY DEF Refusal
    <3> QED
      BY <2>3, <2>4, <2>5, <3>1, ReturnInvariant
  <2>6. CASE /\ ~Mentions(ListOf(reply), op[c].parent)
             /\ Goto(c, "add_query_child", "add_publish_child")
             /\ Keep(c, mine[c], ListOf(reply))
             /\ UNCHANGED <<op, result>>
    <3>1. Fits("add_publish_child", mine[c], ListOf(reply), op[c])
      BY <1>0, <2>1, <2>3, <2>6 DEF Fits
    <3> QED
      BY <1>0, <1>r, <2>1, <2>3, <2>4, <2>6, <3>1, StepInvariant
  <2> QED
    BY <2>2, <2>5, <2>6
<1>3. CASE AddPublishChild(c)
  <2>1. pc[c] = "add_publish_child" /\ op[c] \in Op /\ op[c].parent \in Nodes
    BY <1>3 DEF AddPublishChild, Goto, RInv, TypeOK, Op
  <2> DEFINE list == Append(theirs[c], Parent(op[c].parent))
  <2>2. Parent(op[c].parent) \in Ref /\ \A i \in DOMAIN theirs[c] : theirs[c][i] # Parent(op[c].parent)
    BY <1>0, <2>1 DEF Parent, Ref, Fits, Mentions
  <2>3. list \in Seq(Ref) /\ IsInjective(list)
    BY <1>0, <2>2, AppendFresh DEF Fits
  <2> HIDE DEF list
  <2>4. PICK answer : /\ Publish(op[c].child, list, answer)
                      /\ Answer(c, IF answer = "ERROR" THEN "ERROR" ELSE result[c])
    BY <1>3 DEF AddPublishChild, list
  <2>5. /\ refs' \in [Nodes -> Seq(Ref)] /\ NoDuplicates' /\ faults' \in 0..MaxFaults
    BY <2>3, <2>4, PublishKeepsLists
  <2>6. /\ Goto(c, "add_publish_child", "add_publish_parent")
        /\ Keep(c, mine[c], theirs[c]) /\ UNCHANGED <<op, ops, overlap>>
    BY <1>0, <1>3 DEF AddPublishChild
  <2>7. Fits("add_publish_parent", mine[c], theirs[c], op[c])
    BY <1>0, <2>1 DEF Fits
  <2> DEFINE r == IF answer = "ERROR" THEN "ERROR" ELSE result[c]
  <2>8. r \in Response /\ Answer(c, r)
    BY <1>0, <2>4
  <2> HIDE DEF r
  <2> QED
    BY <1>0, <2>1, <2>5, <2>6, <2>7, <2>8, StepInvariant
<1>4. CASE AddPublishParent(c)
  <2>1. pc[c] = "add_publish_parent" /\ op[c] \in Op /\ op[c].child \in Nodes
    BY <1>4 DEF AddPublishParent, RInv, TypeOK, Op
  <2> DEFINE list == Append(mine[c], Child(op[c].child))
  <2>2. Child(op[c].child) \in Ref /\ \A i \in DOMAIN mine[c] : mine[c][i] # Child(op[c].child)
    BY <1>0, <2>1 DEF Child, Ref, Fits, Mentions
  <2>3. list \in Seq(Ref) /\ IsInjective(list)
    BY <1>0, <2>2, AppendFresh DEF Fits
  <2> HIDE DEF list
  <2>4. PICK answer \in {"OK", "ERROR", "UNKNOWN"} :
          /\ Publish(op[c].parent, list, answer)
          /\ Return(c, "add_publish_parent", Merge(result[c], answer))
    BY <1>4 DEF AddPublishParent, list
  <2>5. /\ refs' \in [Nodes -> Seq(Ref)] /\ NoDuplicates' /\ faults' \in 0..MaxFaults
    BY <2>3, <2>4, PublishKeepsLists
  <2>6. Merge(result[c], answer) \in Response
    BY <1>0 DEF Merge
  <2> QED
    BY <1>4, <2>4, <2>5, <2>6, ReturnInvariant DEF AddPublishParent
<1> QED
  BY <1>1, <1>2, <1>3, <1>4 DEF AddStep

\* The steps of mio_reference_child_remove.
LEMMA RemoveInvariant ==
  ASSUME RInv, NEW c \in Clients, RemoveStep(c)
  PROVE  RInv'
<1> USE DEF PC, Response
<1>0. /\ mine[c] \in Seq(Ref) /\ theirs[c] \in Seq(Ref)
      /\ result[c] \in Response /\ Fits(pc[c], mine[c], theirs[c], op[c])
      /\ Keep(c, mine[c], theirs[c]) <=> UNCHANGED <<mine, theirs>>
  BY DEF RInv, TypeOK, Copies, Keep
<1>r. /\ refs \in [Nodes -> Seq(Ref)] /\ NoDuplicates
      /\ UNCHANGED result => Answer(c, result[c])
  BY DEF RInv, TypeOK, Answer
<1>1. CASE RemoveQueryChild(c)
  <2>1. pc[c] = "remove_query_child" /\ op[c] \in Op /\ op[c].child \in Nodes
    BY <1>1 DEF RemoveQueryChild, RInv, TypeOK, Op
  <2>2. PICK reply : /\ Query(op[c].child, reply)
                     /\ \/ /\ ListOf(reply) = <<>>
                           /\ Goto(c, "remove_query_child", "remove_query_parent")
                           /\ UNCHANGED theirs
                        \/ /\ ListOf(reply) # <<>>
                           /\ Goto(c, "remove_query_child", "remove_publish_child")
                           /\ theirs' = [theirs EXCEPT ![c] = Without(reply, Parent(op[c].parent))]
    BY <1>1 DEF RemoveQueryChild
  <2>3. /\ ListOf(reply) \in Seq(Ref) /\ IsInjective(ListOf(reply))
        /\ ListOf(reply) # <<>> => reply = ListOf(reply)
        /\ faults' \in 0..MaxFaults
    BY <2>1, <2>2, QueryGivesList
  <2>4. /\ refs' \in [Nodes -> Seq(Ref)] /\ NoDuplicates'
        /\ mine' = [mine EXCEPT ![c] = mine[c]] /\ Answer(c, result[c])
        /\ UNCHANGED <<op, ops, overlap>>
    BY <1>1, <1>r DEF RemoveQueryChild, NoDuplicates, RInv, TypeOK
  <2>5. CASE /\ Goto(c, "remove_query_child", "remove_query_parent")
             /\ UNCHANGED theirs
    <3>1. Fits("remove_query_parent", mine[c], theirs[c], op[c])
      BY <1>0 DEF Fits
    <3>2. Keep(c, mine[c], theirs[c])
      BY <1>1, <2>5, <1>0 DEF RemoveQueryChild
    <3> QED
      BY <1>0, <2>1, <2>3, <2>4, <2>5, <3>1, <3>2, StepInvariant
  <2>6. CASE /\ ListOf(reply) # <<>>
             /\ Goto(c, "remove_query_child", "remove_publish_child")
             /\ theirs' = [theirs EXCEPT ![c] = Without(reply, Parent(op[c].parent))]
    <3> DEFINE list == Without(reply, Parent(op[c].parent))
    <3>1. list \in Seq(Ref) /\ IsInjective(list)
      BY <2>3, <2>6, WithoutFresh
    <3>2. Keep(c, mine[c], list)
      BY <2>4, <2>6 DEF Keep
    <3> HIDE DEF list
    <3>3. Fits("remove_publish_child", mine[c], list, op[c])
      BY <1>0, <3>1 DEF Fits
    <3> QED
      BY <1>0, <2>1, <2>3, <2>4, <2>6, <3>1, <3>2, <3>3, StepInvariant
  <2> QED
    BY <2>2, <2>5, <2>6
<1>2. CASE RemovePublishChild(c)
  <2>1. pc[c] = "remove_publish_child" /\ IsInjective(theirs[c])
    BY <1>0, <1>2 DEF RemovePublishChild, Goto, Fits
  <2>2. /\ refs' \in [Nodes -> Seq(Ref)] /\ NoDuplicates' /\ faults' \in 0..MaxFaults
    BY <1>0, <1>2, <2>1, PublishKeepsLists DEF RemovePublishChild
  <2>3. Fits("remove_query_parent", mine[c], theirs[c], op[c])
    BY <1>0 DEF Fits
  <2> QED
    BY <1>0, <1>2, <2>1, <2>2, <2>3, StepInvariant DEF RemovePublishChild
<1>3. CASE RemoveQueryParent(c)
  <2>1. pc[c] = "remove_query_parent" /\ op[c] \in Op /\ op[c].parent \in Nodes
    BY <1>3 DEF RemoveQueryParent, RInv, TypeOK, Op
  <2>2. PICK reply : /\ Query(op[c].parent, reply)
                     /\ \/ /\ ListOf(reply) = <<>>
                           /\ Return(c, "remove_query_parent",
                                     IF result[c] = "OK" THEN "OK" ELSE "ERROR")
                        \/ /\ ListOf(reply) # <<>>
                           /\ Goto(c, "remove_query_parent", "remove_publish_parent")
                           /\ Keep(c, Without(reply, Child(op[c].child)), theirs[c])
                           /\ UNCHANGED <<op, result>>
    BY <1>3 DEF RemoveQueryParent
  <2>3. /\ ListOf(reply) \in Seq(Ref) /\ IsInjective(ListOf(reply))
        /\ ListOf(reply) # <<>> => reply = ListOf(reply)
        /\ faults' \in 0..MaxFaults
    BY <2>1, <2>2, QueryGivesList
  <2>4. refs' \in [Nodes -> Seq(Ref)] /\ NoDuplicates' /\ UNCHANGED <<ops, overlap>>
    BY <1>3, <1>r DEF RemoveQueryParent, NoDuplicates
  <2>5. CASE Return(c, "remove_query_parent", IF result[c] = "OK" THEN "OK" ELSE "ERROR")
    BY <2>3, <2>4, <2>5, ReturnInvariant
  <2>6. CASE /\ ListOf(reply) # <<>>
             /\ Goto(c, "remove_query_parent", "remove_publish_parent")
             /\ Keep(c, Without(reply, Child(op[c].child)), theirs[c])
             /\ UNCHANGED <<op, result>>
    <3> DEFINE list == Without(reply, Child(op[c].child))
    <3>1. list \in Seq(Ref) /\ IsInjective(list)
      BY <2>3, <2>6, WithoutFresh
    <3>2. Keep(c, list, theirs[c])
      BY <2>6
    <3> HIDE DEF list
    <3>3. Fits("remove_publish_parent", list, theirs[c], op[c])
      BY <1>0, <3>1 DEF Fits
    <3> QED
      BY <1>0, <1>r, <2>1, <2>3, <2>4, <2>6, <3>1, <3>2, <3>3, StepInvariant
  <2> QED
    BY <2>2, <2>5, <2>6
<1>4. CASE RemovePublishParent(c)
  <2>1. IsInjective(mine[c])
    BY <1>0 DEF Fits
  <2>2. /\ refs' \in [Nodes -> Seq(Ref)] /\ NoDuplicates' /\ faults' \in 0..MaxFaults
    BY <1>0, <1>4, <2>1, PublishKeepsLists DEF RemovePublishParent
  <2> QED
    BY <1>4, <2>2, ReturnInvariant DEF RemovePublishParent
<1> QED
  BY <1>1, <1>2, <1>3, <1>4 DEF RemoveStep

\* The loop of mio_meta_remove_publish over the references of the node.
LEMMA NextReferenceInvariant ==
  ASSUME RInv, NEW c \in Clients, NEW from \in {"overwrite_query", "overwrite_publish"},
         pc[c] = from, NextReference(c, from),
         refs' \in [Nodes -> Seq(Ref)] /\ NoDuplicates',
         faults' \in 0..MaxFaults, UNCHANGED <<ops, overlap>>
  PROVE  RInv'
<1>1. /\ theirs[c] \in Seq(Ref) /\ result[c] \in Response
      /\ Fits(pc[c], mine[c], theirs[c], op[c])
  BY DEF RInv, TypeOK, Copies
<1>2. CASE Return(c, from, result[c])
  BY <1>1, <1>2, ReturnInvariant
<1>3. CASE /\ Len(theirs[c]) > 1 /\ Goto(c, from, "overwrite_query")
           /\ Keep(c, <<>>, Tail(theirs[c])) /\ UNCHANGED <<op, result>>
  <2> DEFINE t == Tail(theirs[c])
             m == <<>>
  <2>1. t \in Seq(Ref) /\ IsInjective(t) /\ t # <<>>
    BY <1>1, <1>3, TailFresh DEF Fits
  <2>2. m \in Seq(Ref) /\ IsInjective(m)
    BY DEF IsInjective
  <2>3. Keep(c, m, t) /\ Answer(c, result[c])
    BY <1>3 DEF Answer, RInv, TypeOK
  <2> HIDE DEF t, m
  <2>4. Fits("overwrite_query", m, t, op[c])
    BY <2>1, <2>2 DEF Fits
  <2>5. "overwrite_query" \in PC
    BY DEF PC
  <2> QED
    BY <1>1, <1>3, <2>1, <2>2, <2>3, <2>4, <2>5, StepInvariant
<1> QED
  BY <1>2, <1>3 DEF NextReference

\* The steps of mio_meta_remove_publish.
LEMMA MetaInvariant ==
  ASSUME RInv, NEW c \in Clients, MetaStep(c)
  PROVE  RInv'
<1> USE DEF PC, Response
<1>0. /\ mine[c] \in Seq(Ref) /\ theirs[c] \in Seq(Ref)
      /\ result[c] \in Response /\ Fits(pc[c], mine[c], theirs[c], op[c])
  BY DEF RInv, TypeOK, Copies
<1>r. /\ refs \in [Nodes -> Seq(Ref)] /\ NoDuplicates
      /\ UNCHANGED result => Answer(c, result[c])
  BY DEF RInv, TypeOK, Answer
<1>e. <<>> \in Seq(Ref) /\ IsInjective(<<>>)
  BY DEF IsInjective
<1>1. CASE MetaQuery(c)
  <2>1. pc[c] = "meta_query" /\ op[c] \in Op /\ op[c].parent \in Nodes
    BY <1>1 DEF MetaQuery, RInv, TypeOK, Op
  <2>2. PICK reply : /\ Query(op[c].parent, reply)
                     /\ \/ ListOf(reply) = <<>> /\ Return(c, "meta_query", result[c])
                        \/ /\ ListOf(reply) # <<>>
                           /\ Goto(c, "meta_query", "overwrite_query")
                           /\ Keep(c, <<>>, reply) /\ UNCHANGED <<op, result>>
    BY <1>1 DEF MetaQuery
  <2>3. /\ ListOf(reply) \in Seq(Ref) /\ IsInjective(ListOf(reply))
        /\ ListOf(reply) # <<>> => reply = ListOf(reply)
        /\ faults' \in 0..MaxFaults
    BY <2>1, <2>2, QueryGivesList
  <2>4. refs' \in [Nodes -> Seq(Ref)] /\ NoDuplicates' /\ UNCHANGED <<ops, overlap>>
    BY <1>1, <1>r DEF MetaQuery, NoDuplicates
  <2>5. CASE Return(c, "meta_query", result[c])
    BY <1>0, <2>3, <2>4, <2>5, ReturnInvariant
  <2>6. CASE /\ ListOf(reply) # <<>> /\ Goto(c, "meta_query", "overwrite_query")
             /\ Keep(c, <<>>, reply) /\ UNCHANGED <<op, result>>
    <3>1. reply \in Seq(Ref) /\ Fits("overwrite_query", <<>>, reply, op[c])
      BY <1>e, <2>3, <2>6 DEF Fits
    <3> QED
      BY <1>0, <1>r, <1>e, <2>1, <2>3, <2>4, <2>6, <3>1, StepInvariant
  <2> QED
    BY <2>2, <2>5, <2>6
<1>2. CASE OverwriteQuery(c)
  <2>1. /\ pc[c] = "overwrite_query" /\ op[c] \in Op /\ op[c].parent \in Nodes
        /\ theirs[c] # <<>>
    BY <1>0, <1>2 DEF OverwriteQuery, RInv, TypeOK, Op, Fits
  <2>2. Head(theirs[c]) \in Ref
    BY <1>0, <2>1
  <2>3. Head(theirs[c]).node \in Nodes /\ BackReference(c) \in Ref
    BY <2>1, <2>2 DEF BackReference, Ref, Child, Parent
  <2>4. PICK reply :
          /\ Query(Head(theirs[c]).node, reply)
          /\ \/ /\ Without(ListOf(reply), BackReference(c)) = <<>>
                /\ NextReference(c, "overwrite_query")
             \/ /\ Without(ListOf(reply), BackReference(c)) # <<>>
                /\ Goto(c, "overwrite_query", "overwrite_publish")
                /\ Keep(c, Append(Without(ListOf(reply), BackReference(c)), BackReference(c)), theirs[c])
                /\ UNCHANGED <<op, result>>
    BY <1>2 DEF OverwriteQuery
  <2>5. /\ ListOf(reply) \in Seq(Ref) /\ IsInjective(ListOf(reply))
        /\ faults' \in 0..MaxFaults
    BY <2>3, <2>4, QueryGivesList
  <2>6. refs' \in [Nodes -> Seq(Ref)] /\ NoDuplicates' /\ UNCHANGED <<ops, overlap>>
    BY <1>2, <1>r DEF OverwriteQuery, NoDuplicates
  <2>7. CASE NextReference(c, "overwrite_query")
    BY <2>1, <2>5, <2>6, <2>7, NextReferenceInvariant
  <2>8. CASE /\ Goto(c, "overwrite_query", "overwrite_publish")
             /\ Keep(c, Append(Without(ListOf(reply), BackReference(c)), BackReference(c)), theirs[c])
             /\ UNCHANGED <<op, result>>
    <3> DEFINE rest == Without(ListOf(reply), BackReference(c))
               list == Append(rest, BackReference(c))
    <3>1. /\ rest \in Seq(Ref) /\ IsInjective(rest)
          /\ \A i \in DOMAIN rest : rest[i] # BackReference(c)
      BY <2>5, WithoutFresh
    <3> HIDE DEF rest
    <3>2. list \in Seq(Ref) /\ IsInjective(list)
      BY <2>3, <3>1, AppendFresh
    <3>3. Keep(c, list, theirs[c])
      BY <2>8 DEF rest
    <3> HIDE DEF list
    <3>4. Fits("overwrite_publish", list, theirs[c], op[c])
      BY <1>0, <2>1, <3>2 DEF Fits
    <3> QED
      BY <1>0, <1>r, <2>1, <2>5, <2>6, <2>8, <3>2, <3>3, <3>4, StepInvariant
  <2> QED
    BY <2>4, <2>7, <2>8
<1>3. CASE OverwritePublish(c)
  <2>1. IsInjective(mine[c])
    BY <1>0 DEF Fits
  <2>2. /\ refs' \in [Nodes -> Seq(Ref)] /\ NoDuplicates' /\ faults' \in 0..MaxFaults
    BY <1>0, <1>3, <2>1, PublishKeepsLists DEF OverwritePublish
  <2> QED
    BY <1>3, <2>2, NextReferenceInvariant DEF OverwritePublish
<1> QED
  BY <1>1, <1>2, <1>3 DEF MetaStep

\* RInv is inductive.
LEMMA NextInvariant == RInv /\ [Next]_vars => RInv'
<1> SUFFICES ASSUME RInv, [Next]_vars PROVE RInv'
  OBVIOUS
<1>1. CASE Next
  <2>1. PICK c \in Clients : \/ ChildAdd(c) \/ ChildRemove(c) \/ MetaRemove(c)
                             \/ AddStep(c) \/ RemoveStep(c) \/ MetaStep(c)
    BY <1>1 DEF Next
  <2>2. CASE ChildAdd(c)
    BY <2>2, AtChildAssumption, BeginInvariant DEF ChildAdd, Op
  <2>3. CASE ChildRemove(c)
    BY <2>3, BeginInvariant DEF ChildRemove, Op
  <2>4. CASE MetaRemove(c)
    BY <2>4, BeginInvariant DEF MetaRemove, Op
  <2> QED
    BY <2>1, <2>2, <2>3, <2>4, AddInvariant, RemoveInvariant, MetaInvariant
<1>2. CASE UNCHANGED vars
  BY <1>2 DEF vars, RInv, TypeOK, NoDuplicates, Copies
<1> QED
  BY <1>1, <1>2

\* The lists on the server and the copies of the clients are sequences of
\* references, and no node is listed twice in the same role, for any number of
\* clients and failures and any interleaving of child_add, child_remove and meta
\* removal.
THEOREM ListsStaySound == Spec => []ListsAreSound
<1>1. RInv => ListsAreSound
  BY DEF RInv, ListsAreSound
<1> QED
  BY <1>1, InitInvariant, NextInvariant, PTL DEF Spec

-------------------------------------------------------------------------------
(* Both ends of a link, while nothing fails and no operations overlap.  One  *)
(* client at most is then inside an operation.  What it has read is what the *)
(* server still holds, and the two ends of its own link alone may disagree,  *)
(* between the publication at the child and the one at the parent.           *)

\* While operations do not overlap, one client at most is inside one.
Alone == ~overlap => \A c, d \in Clients : pc[c] # "idle" /\ pc[d] # "idle" => c = d

\* A parent that a node names names it as a child, but for the link that is
\* being made.
Agreement ==
  \A n, m \in Nodes :
    Parent(m) \in Links(n) =>
      \/ Child(n) \in Links(m)
      \/ \E c \in Clients : /\ pc[c] = "add_publish_parent"
                            /\ op[c].parent = m /\ op[c].child = n

\* The reference that node r.node holds to the node whose meta data is removed.
Back(o, r) == IF r.type = "child" THEN Parent(o.parent) ELSE Child(o.parent)

\* What a client's copies m and t, at `at` and with arguments o, say of the
\* lists on the server.
Knows(at, o, m, t, lists) ==
  LET links(n) == ToSet(lists[n])
  IN  /\ at \in {"add_query_parent", "add_query_child", "add_publish_child",
                 "add_publish_parent", "remove_query_child", "remove_publish_child",
                 "remove_query_parent", "remove_publish_parent"} => o.parent # o.child
      /\ at \in {"add_query_child", "add_publish_child", "add_publish_parent"}
           => ToSet(m) = links(o.parent)
      /\ at = "add_publish_child" => ToSet(t) = links(o.child)
      /\ at = "add_publish_parent" /\ o.at_child => Parent(o.parent) \in links(o.child)
      /\ at = "remove_publish_child" => ToSet(t) = links(o.child) \ {Parent(o.parent)}
      /\ at \in {"remove_query_parent", "remove_publish_parent"}
           => Parent(o.parent) \notin links(o.child)
      /\ at = "remove_publish_parent" => ToSet(m) = links(o.parent) \ {Child(o.child)}
      /\ at \in {"overwrite_query", "overwrite_publish"} => ToSet(t) \subseteq links(o.parent)
      /\ at = "overwrite_publish"
           => ToSet(m) = links(Head(t).node) \cup {Back(o, Head(t))}

LInv ==
  /\ Alone
  /\ Quiet => /\ Agreement
              /\ \A c \in Clients : Knows(pc[c], op[c], mine[c], theirs[c], refs)

-------------------------------------------------------------------------------
LEMMA RefsDiffer ==
  /\ \A n, m : (Parent(n) = Parent(m) <=> n = m) /\ (Child(n) = Child(m) <=> n = m)
  /\ \A n, m : Parent(n) # Child(m)
  /\ \A n \in Nodes : Parent(n) \in Ref /\ Child(n) \in Ref
  /\ \A r \in Ref : r.node \in Nodes /\ r = IF r.type = "child" THEN Child(r.node) ELSE Parent(r.node)
  BY DEF Parent, Child, Ref

\* A query that did not fail gives the list on the server.
LEMMA QuietQuery ==
  ASSUME RInv, NEW n \in Nodes, NEW reply, Query(n, reply), faults' = 0
  PROVE  ListOf(reply) = refs[n] /\ faults = 0
<1>1. faults \in Nat /\ refs[n] \in Seq(Ref)
  BY BoundAssumption DEF RInv, TypeOK
<1>2. reply = refs[n] /\ faults' = faults
  BY <1>1 DEF Query
<1> QED
  BY <1>1, <1>2, NoneAssumption DEF ListOf

\* A publication that did not fail is accepted and is all that changes.
LEMMA QuietPublish ==
  ASSUME RInv, NEW n \in Nodes, NEW list, NEW answer, Publish(n, list, answer), faults' = 0
  PROVE  /\ answer = "OK" /\ faults = 0
         /\ \A x \in Nodes : refs'[x] = IF x = n THEN list ELSE refs[x]
<1>1. faults \in Nat /\ refs \in [Nodes -> Seq(Ref)]
  BY BoundAssumption DEF RInv, TypeOK
<1>2. answer = "OK" /\ refs' = [refs EXCEPT ![n] = list] /\ faults' = faults
  BY <1>1 DEF Publish
<1> QED
  BY <1>1, <1>2

\* What a client inside an operation may count on while all is quiet.
LEMMA SoloKnows ==
  ASSUME RInv, LInv, Quiet, NEW c \in Clients, pc[c] # "idle"
  PROVE  /\ Knows(pc[c], op[c], mine[c], theirs[c], refs)
         /\ \A n, m \in Nodes :
              Parent(m) \in ToSet(refs[n]) =>
                \/ Child(n) \in ToSet(refs[m])
                \/ pc[c] = "add_publish_parent" /\ op[c].parent = m /\ op[c].child = n
  BY DEF LInv, Alone, Quiet, Agreement, Links

\* A step inside an operation has to show the same of its own client only.
LEMMA SoloMoves ==
  ASSUME RInv, LInv, NEW c \in Clients, pc[c] # "idle", NEW to,
         pc' = [pc EXCEPT ![c] = to], overlap' = overlap,
         Quiet' => /\ Knows(to, op'[c], mine'[c], theirs'[c], refs')
                   /\ \A n, m \in Nodes :
                        Parent(m) \in ToSet(refs'[n]) =>
                          \/ Child(n) \in ToSet(refs'[m])
                          \/ to = "add_publish_parent" /\ op'[c].parent = m /\ op'[c].child = n
  PROVE  LInv'
<1>1. pc \in [Clients -> PC] /\ pc'[c] = to /\ \A d \in Clients \ {c} : pc'[d] = pc[d]
  BY DEF RInv, TypeOK
<1>2. Alone'
  BY <1>1 DEF LInv, Alone
<1>3. ASSUME Quiet' PROVE Agreement'
  BY <1>1, <1>3 DEF Agreement, Links
<1>4. ASSUME Quiet', NEW d \in Clients
      PROVE  Knows(pc'[d], op'[d], mine'[d], theirs'[d], refs')
  <2>1. CASE d = c
    BY <1>1, <1>4, <2>1
  <2>2. CASE d # c
    <3>1. pc'[d] = "idle"
      BY <1>1, <1>4, <2>2 DEF LInv, Alone, Quiet
    <3> QED
      BY <3>1 DEF Knows
  <2> QED
    BY <2>1, <2>2
<1> QED
  BY <1>2, <1>3, <1>4 DEF LInv

\* The return from an operation: the two ends of every link agree.
LEMMA SoloReturns ==
  ASSUME RInv, LInv, NEW c \in Clients, pc[c] # "idle", NEW from, NEW r, Return(c, from, r),
         overlap' = overlap,
         Quiet' => \A n, m \in Nodes :
                     Parent(m) \in ToSet(refs'[n]) => Child(n) \in ToSet(refs'[m])
  PROVE  LInv'
<1>1. pc' = [pc EXCEPT ![c] = "idle"]
  BY DEF Return, Goto
<1>2. Knows("idle", op'[c], mine'[c], theirs'[c], refs')
  BY DEF Knows
<1> QED
  BY <1>1, <1>2, SoloMoves

\* The call of an operation, while no other is under way.
LEMMA SoloBegins ==
  ASSUME RInv, LInv, NEW c \in Clients, NEW o,
         NEW to \in {"add_query_parent", "remove_query_child", "meta_query"}, Begin(c, to, o),
         to # "meta_query" => o.parent # o.child
  PROVE  LInv'
<1>1. /\ pc \in [Clients -> PC] /\ op \in [Clients -> Op \cup {None}]
      /\ pc[c] = "idle" /\ pc'[c] = to /\ op'[c] = o
      /\ \A d \in Clients \ {c} : pc'[d] = pc[d] /\ op'[d] = op[d]
      /\ overlap' = (overlap \/ \E d \in Clients \ {c} : pc[d] # "idle")
      /\ refs' = refs /\ mine' = mine /\ theirs' = theirs /\ faults' = faults
  BY DEF Begin, Goto, RInv, TypeOK
<1>2. Alone'
  BY <1>1 DEF Alone
<1>3. ASSUME Quiet' PROVE Agreement'
  <2>1. Quiet
    BY <1>1, <1>3 DEF Quiet
  <2>2. \A d \in Clients : pc[d] # "add_publish_parent"
    BY <1>1, <1>3 DEF Quiet
  <2>3. \A n, m \in Nodes : Parent(m) \in Links(n) => Child(n) \in Links(m)
    BY <2>1, <2>2 DEF LInv, Agreement
  <2> QED
    BY <1>1, <2>3 DEF Agreement, Links
<1>4. ASSUME Quiet', NEW d \in Clients
      PROVE  Knows(pc'[d], op'[d], mine'[d], theirs'[d], refs')
  <2>1. CASE d = c
    BY <1>1, <2>1 DEF Knows
  <2>2. CASE d # c
    <3>1. pc'[d] = "idle"
      BY <1>1, <1>4, <2>2 DEF Quiet
    <3> QED
      BY <3>1 DEF Knows
  <2> QED
    BY <2>1, <2>2
<1> QED
  BY <1>2, <1>3, <1>4 DEF LInv

-------------------------------------------------------------------------------
\* The steps of mio_reference_child_add.
LEMMA AddKeepsLinks ==
  ASSUME RInv, LInv, NEW c \in Clients, AddStep(c)
  PROVE  LInv'
<1> DEFINE p == op[c].parent
           k == op[c].child
<1>1. pc[c] # "idle" /\ overlap' = overlap
  BY DEF AddStep, AddQueryParent, AddQueryChild, AddPublishChild, AddPublishParent, Goto
<1>2. /\ op[c] \in Op /\ p \in Nodes /\ k \in Nodes
      /\ mine[c] \in Seq(Ref) /\ theirs[c] \in Seq(Ref)
      /\ \A n \in Nodes : refs[n] \in Seq(Ref)
      /\ mine \in [Clients -> Seq(Ref)] /\ theirs \in [Clients -> Seq(Ref)]
      /\ op \in [Clients -> Op \cup {None}]
  BY <1>1 DEF RInv, TypeOK, Op
<1>3. Quiet => /\ Knows(pc[c], op[c], mine[c], theirs[c], refs)
               /\ \A n, m \in Nodes :
                    Parent(m) \in ToSet(refs[n]) =>
                      \/ Child(n) \in ToSet(refs[m])
                      \/ pc[c] = "add_publish_parent" /\ p = m /\ k = n
  BY <1>1, SoloKnows
<1>4. CASE AddQueryParent(c)
  <2>1. PICK reply : /\ Query(p, reply)
                     /\ \/ /\ Mentions(ListOf(reply), k)
                           /\ Return(c, "add_query_parent", Refusal(reply, k, "child"))
                        \/ /\ ~Mentions(ListOf(reply), k)
                           /\ Goto(c, "add_query_parent",
                                   IF op[c].at_child THEN "add_query_child" ELSE "add_publish_parent")
                           /\ Keep(c, ListOf(reply), <<>>)
                           /\ UNCHANGED <<op, result>>
    BY <1>4 DEF AddQueryParent
  <2>2. refs' = refs /\ pc[c] = "add_query_parent"
    BY <1>4 DEF AddQueryParent
  <2>3. Quiet' => Quiet /\ ListOf(reply) = refs[p]
    BY <1>1, <1>2, <2>1, QuietQuery DEF Quiet
  <2>4. CASE Return(c, "add_query_parent", Refusal(reply, k, "child"))
    BY <1>1, <1>3, <2>2, <2>3, <2>4, SoloReturns
  <2>5. CASE /\ Goto(c, "add_query_parent",
                     IF op[c].at_child THEN "add_query_child" ELSE "add_publish_parent")
             /\ Keep(c, ListOf(reply), <<>>)
             /\ UNCHANGED <<op, result>>
    <3> DEFINE to == IF op[c].at_child THEN "add_query_child" ELSE "add_publish_parent"
    <3>1. /\ pc' = [pc EXCEPT ![c] = to] /\ mine'[c] = ListOf(reply) /\ op'[c] = op[c]
          /\ to \in {"add_query_child", "add_publish_parent"}
          /\ to = "add_publish_parent" => ~op[c].at_child
      BY <1>2, <2>5 DEF Goto, Keep
    <3> HIDE DEF to
    <3>2. Quiet' => Knows(to, op'[c], mine'[c], theirs'[c], refs')
      BY <1>3, <2>2, <2>3, <3>1 DEF Knows
    <3> QED
      BY <1>1, <1>3, <2>2, <2>3, <3>1, <3>2, SoloMoves
  <2> QED
    BY <2>1, <2>4, <2>5
<1>5. CASE AddQueryChild(c)
  <2>1. PICK reply : /\ Query(k, reply)
                     /\ \/ /\ Mentions(ListOf(reply), p)
                           /\ Return(c, "add_query_child", Refusal(reply, p, "parent"))
                        \/ /\ ~Mentions(ListOf(reply), p)
                           /\ Goto(c, "add_query_child", "add_publish_child")
                           /\ Keep(c, mine[c], ListOf(reply))
                           /\ UNCHANGED <<op, result>>
    BY <1>5 DEF AddQueryChild
  <2>2. refs' = refs /\ pc[c] = "add_query_child"
    BY <1>5 DEF AddQueryChild
  <2>3. Quiet' => Quiet /\ ListOf(reply) = refs[k]
    BY <1>1, <1>2, <2>1, QuietQuery DEF Quiet
  <2>4. CASE Return(c, "add_query_child", Refusal(reply, p, "parent"))
    BY <1>1, <1>3, <2>2, <2>3, <2>4, SoloReturns
  <2>5. CASE /\ Goto(c, "add_query_child", "add_publish_child")
             /\ Keep(c, mine[c], ListOf(reply))
             /\ UNCHANGED <<op, result>>
    <3>1. /\ pc' = [pc EXCEPT ![c] = "add_publish_child"]
          /\ mine'[c] = mine[c] /\ theirs'[c] = ListOf(reply) /\ op'[c] = op[c]
      BY <1>2, <2>5 DEF Goto, Keep
    <3>2. Quiet' => Knows("add_publish_child", op'[c], mine'[c], theirs'[c], refs')
      BY <1>3, <2>2, <2>3, <3>1 DEF Knows
    <3> QED
      BY <1>1, <1>3, <2>2, <2>3, <3>1, <3>2, SoloMoves
  <2> QED
    BY <2>1, <2>4, <2>5
<1>6. CASE AddPublishChild(c)
  <2> DEFINE list == Append(theirs[c], Parent(p))
  <2>1. /\ pc[c] = "add_publish_child" /\ pc' = [pc EXCEPT ![c] = "add_publish_parent"]
        /\ op' = op /\ mine' = mine /\ theirs' = theirs
        /\ \E answer : Publish(k, list, answer)
    BY <1>6 DEF AddPublishChild, Goto
  <2>2. ToSet(list) = ToSet(theirs[c]) \cup {Parent(p)}
    BY <1>2, SetsOfLists, RefsDiffer
  <2> HIDE DEF list
  <2>3. ASSUME Quiet'
        PROVE  Quiet /\ \A x \in Nodes : refs'[x] = IF x = k THEN list ELSE refs[x]
    BY <1>1, <1>2, <2>1, <2>3, QuietPublish DEF Quiet
  <2>4. ASSUME Quiet'
        PROVE  /\ p # k /\ ToSet(mine[c]) = ToSet(refs[p])
               /\ \A x \in Nodes : ToSet(refs'[x]) = IF x = k THEN ToSet(refs[k]) \cup {Parent(p)}
                                                             ELSE ToSet(refs[x])
    BY <1>2, <1>3, <2>1, <2>2, <2>3, <2>4 DEF Knows
  <2>5. ASSUME Quiet'
        PROVE  Knows("add_publish_parent", op'[c], mine'[c], theirs'[c], refs')
    BY <1>2, <2>1, <2>4, <2>5 DEF Knows
  <2>6. ASSUME Quiet', NEW n \in Nodes, NEW m \in Nodes, Parent(m) \in ToSet(refs'[n])
        PROVE  Child(n) \in ToSet(refs'[m]) \/ (p = m /\ k = n)
    <3>1. Parent(m) \in ToSet(refs[n]) \/ (p = m /\ k = n)
      <4>1. Parent(m) = Parent(p) => m = p
        BY RefsDiffer
      <4> QED
        BY <2>4, <2>6, <4>1
    <3>2. Parent(m) \in ToSet(refs[n]) => Child(n) \in ToSet(refs[m])
      BY <1>3, <2>1, <2>3, <2>6
    <3> QED
      BY <2>4, <2>6, <3>1, <3>2
  <2> QED
    BY <1>1, <2>1, <2>5, <2>6, SoloMoves
<1>7. CASE AddPublishParent(c)
  <2> DEFINE list == Append(mine[c], Child(k))
  <2>1. /\ pc[c] = "add_publish_parent"
        /\ \E answer, r : Publish(p, list, answer) /\ Return(c, "add_publish_parent", r)
    BY <1>7 DEF AddPublishParent
  <2>2. ToSet(list) = ToSet(mine[c]) \cup {Child(k)}
    BY <1>2, SetsOfLists, RefsDiffer
  <2> HIDE DEF list
  <2>3. ASSUME Quiet'
        PROVE  Quiet /\ \A x \in Nodes : refs'[x] = IF x = p THEN list ELSE refs[x]
    BY <1>1, <1>2, <2>1, <2>3, QuietPublish DEF Quiet
  <2>4. ASSUME Quiet'
        PROVE  \A x \in Nodes : ToSet(refs'[x]) = IF x = p THEN ToSet(refs[p]) \cup {Child(k)}
                                                          ELSE ToSet(refs[x])
    BY <1>2, <1>3, <2>1, <2>2, <2>3, <2>4 DEF Knows
  <2>5. ASSUME Quiet', NEW n \in Nodes, NEW m \in Nodes, Parent(m) \in ToSet(refs'[n])
        PROVE  Child(n) \in ToSet(refs'[m])
    <3>1. Parent(m) \in ToSet(refs[n])
      BY <2>4, <2>5, RefsDiffer
    <3>2. Child(n) \in ToSet(refs[m]) \/ (p = m /\ k = n)
      BY <1>3, <2>3, <2>5, <3>1
    <3> QED
      BY <2>4, <2>5, <3>2
  <2> QED
    BY <1>1, <2>1, <2>5, SoloReturns
<1> QED
  BY <1>4, <1>5, <1>6, <1>7 DEF AddStep

\* The steps of mio_reference_child_remove.
LEMMA RemoveKeepsLinks ==
  ASSUME RInv, LInv, NEW c \in Clients, RemoveStep(c)
  PROVE  LInv'
<1> DEFINE p == op[c].parent
           k == op[c].child
<1>1. pc[c] # "idle" /\ overlap' = overlap
  BY DEF RemoveStep, RemoveQueryChild, RemovePublishChild, RemoveQueryParent,
         RemovePublishParent, Goto
<1>2. /\ op[c] \in Op /\ p \in Nodes /\ k \in Nodes
      /\ mine[c] \in Seq(Ref) /\ theirs[c] \in Seq(Ref)
      /\ \A n \in Nodes : refs[n] \in Seq(Ref) /\ IsInjective(refs[n])
      /\ mine \in [Clients -> Seq(Ref)] /\ theirs \in [Clients -> Seq(Ref)]
      /\ op \in [Clients -> Op \cup {None}]
  BY <1>1 DEF RInv, TypeOK, Op, NoDuplicates
<1>3. Quiet => /\ Knows(pc[c], op[c], mine[c], theirs[c], refs)
               /\ \A n, m \in Nodes :
                    Parent(m) \in ToSet(refs[n]) =>
                      \/ Child(n) \in ToSet(refs[m])
                      \/ pc[c] = "add_publish_parent" /\ p = m /\ k = n
  BY <1>1, SoloKnows
<1>4. CASE RemoveQueryChild(c)
  <2>1. PICK reply : /\ Query(k, reply)
                     /\ \/ /\ ListOf(reply) = <<>>
                           /\ Goto(c, "remove_query_child", "remove_query_parent")
                           /\ UNCHANGED theirs
                        \/ /\ ListOf(reply) # <<>>
                           /\ Goto(c, "remove_query_child", "remove_publish_child")
                           /\ theirs' = [theirs EXCEPT ![c] = Without(reply, Parent(p))]
    BY <1>4 DEF RemoveQueryChild
  <2>2. refs' = refs /\ op' = op /\ pc[c] = "remove_query_child"
    BY <1>4, <2>1 DEF RemoveQueryChild, Goto
  <2>3. Quiet' => Quiet /\ ListOf(reply) = refs[k]
    BY <1>1, <1>2, <2>1, QuietQuery DEF Quiet
  <2>4. CASE /\ ListOf(reply) = <<>>
             /\ Goto(c, "remove_query_child", "remove_query_parent")
    <3>1. pc' = [pc EXCEPT ![c] = "remove_query_parent"]
      BY <2>4 DEF Goto
    <3>2. Quiet' => ToSet(refs[k]) = {}
      BY <1>2, <2>3, <2>4, SetsOfLists
    <3>3. Quiet' => Knows("remove_query_parent", op'[c], mine'[c], theirs'[c], refs')
      BY <1>3, <2>2, <2>3, <3>2 DEF Knows
    <3> QED
      BY <1>1, <1>3, <2>2, <2>3, <3>1, <3>3, SoloMoves
  <2>5. CASE /\ ListOf(reply) # <<>>
             /\ Goto(c, "remove_query_child", "remove_publish_child")
             /\ theirs' = [theirs EXCEPT ![c] = Without(reply, Parent(p))]
    <3>1. /\ pc' = [pc EXCEPT ![c] = "remove_publish_child"]
          /\ theirs'[c] = Without(reply, Parent(p)) /\ reply = ListOf(reply)
      BY <1>2, <2>5 DEF Goto, ListOf
    <3>2. Quiet' => ToSet(theirs'[c]) = ToSet(refs[k]) \ {Parent(p)}
      BY <1>2, <2>3, <3>1, WithoutSet
    <3>3. Quiet' => Knows("remove_publish_child", op'[c], mine'[c], theirs'[c], refs')
      BY <1>3, <2>2, <2>3, <3>2 DEF Knows
    <3> QED
      BY <1>1, <1>3, <2>2, <2>3, <3>1, <3>3, SoloMoves
  <2> QED
    BY <2>1, <2>4, <2>5
<1>5. CASE RemovePublishChild(c)
  <2>1. /\ pc[c] = "remove_publish_child" /\ pc' = [pc EXCEPT ![c] = "remove_query_parent"]
        /\ op' = op /\ mine' = mine /\ theirs' = theirs
        /\ \E answer : Publish(k, theirs[c], answer)
    BY <1>5 DEF RemovePublishChild, Goto
  <2>2. ASSUME Quiet'
        PROVE  Quiet /\ \A x \in Nodes : refs'[x] = IF x = k THEN theirs[c] ELSE refs[x]
    BY <1>1, <1>2, <2>1, <2>2, QuietPublish DEF Quiet
  <2>3. ASSUME Quiet'
        PROVE  /\ p # k
               /\ \A x \in Nodes : ToSet(refs'[x]) = IF x = k THEN ToSet(refs[k]) \ {Parent(p)}
                                                             ELSE ToSet(refs[x])
    BY <1>2, <1>3, <2>1, <2>2, <2>3 DEF Knows
  <2>4. ASSUME Quiet'
        PROVE  Knows("remove_query_parent", op'[c], mine'[c], theirs'[c], refs')
    BY <1>2, <2>1, <2>3, <2>4 DEF Knows
  <2>5. ASSUME Quiet', NEW n \in Nodes, NEW m \in Nodes, Parent(m) \in ToSet(refs'[n])
        PROVE  Child(n) \in ToSet(refs'[m])
    <3>1. Parent(m) \in ToSet(refs[n])
      BY <2>3, <2>5
    <3>2. Child(n) \in ToSet(refs[m])
      BY <1>3, <2>1, <2>2, <2>5, <3>1
    <3> QED
      BY <2>3, <2>5, <3>2, RefsDiffer
  <2> QED
    BY <1>1, <2>1, <2>4, <2>5, SoloMoves
<1>6. CASE RemoveQueryParent(c)
  <2>1. PICK reply : /\ Query(p, reply)
                     /\ \/ /\ ListOf(reply) = <<>>
                           /\ Return(c, "remove_query_parent",
                                     IF result[c] = "OK" THEN "OK" ELSE "ERROR")
                        \/ /\ ListOf(reply) # <<>>
                           /\ Goto(c, "remove_query_parent", "remove_publish_parent")
                           /\ Keep(c, Without(reply, Child(k)), theirs[c])
                           /\ UNCHANGED <<op, result>>
    BY <1>6 DEF RemoveQueryParent
  <2>2. refs' = refs /\ pc[c] = "remove_query_parent"
    BY <1>6 DEF RemoveQueryParent
  <2>3. Quiet' => Quiet /\ ListOf(reply) = refs[p]
    BY <1>1, <1>2, <2>1, QuietQuery DEF Quiet
  <2>4. CASE Return(c, "remove_query_parent", IF result[c] = "OK" THEN "OK" ELSE "ERROR")
    BY <1>1, <1>3, <2>2, <2>3, <2>4, SoloReturns
  <2>5. CASE /\ ListOf(reply) # <<>>
             /\ Goto(c, "remove_query_parent", "remove_publish_parent")
             /\ Keep(c, Without(reply, Child(k)), theirs[c])
             /\ UNCHANGED <<op, result>>
    <3>1. /\ pc' = [pc EXCEPT ![c] = "remove_publish_parent"] /\ op'[c] = op[c]
          /\ mine'[c] = Without(reply, Child(k)) /\ reply = ListOf(reply)
      BY <1>2, <2>5 DEF Goto, Keep, ListOf
    <3>2. Quiet' => ToSet(mine'[c]) = ToSet(refs[p]) \ {Child(k)}
      BY <1>2, <2>3, <3>1, WithoutSet
    <3>3. Quiet' => Knows("remove_publish_parent", op'[c], mine'[c], theirs'[c], refs')
      BY <1>3, <2>2, <2>3, <3>1, <3>2 DEF Knows
    <3> QED
      BY <1>1, <1>3, <2>2, <2>3, <3>1, <3>3, SoloMoves
  <2> QED
    BY <2>1, <2>4, <2>5
<1>7. CASE RemovePublishParent(c)
  <2>1. /\ pc[c] = "remove_publish_parent"
        /\ \E answer, r : Publish(p, mine[c], answer) /\ Return(c, "remove_publish_parent", r)
    BY <1>7 DEF RemovePublishParent, Return, Goto
  <2>2. ASSUME Quiet'
        PROVE  Quiet /\ \A x \in Nodes : refs'[x] = IF x = p THEN mine[c] ELSE refs[x]
    BY <1>1, <1>2, <2>1, <2>2, QuietPublish DEF Quiet
  <2>3. ASSUME Quiet'
        PROVE  /\ Parent(p) \notin ToSet(refs[k])
               /\ \A x \in Nodes : ToSet(refs'[x]) = IF x = p THEN ToSet(refs[p]) \ {Child(k)}
                                                             ELSE ToSet(refs[x])
    BY <1>2, <1>3, <2>1, <2>2, <2>3 DEF Knows
  <2>4. ASSUME Quiet', NEW n \in Nodes, NEW m \in Nodes, Parent(m) \in ToSet(refs'[n])
        PROVE  Child(n) \in ToSet(refs'[m])
    <3>1. Parent(m) \in ToSet(refs[n])
      BY <2>3, <2>4
    <3>2. Child(n) \in ToSet(refs[m])
      BY <1>3, <2>1, <2>2, <2>4, <3>1
    <3>3. ~(n = k /\ m = p)
      BY <2>3, <2>4, <3>1
    <3> QED
      BY <2>3, <2>4, <3>2, <3>3, RefsDiffer
  <2> QED
    BY <1>1, <2>1, <2>4, SoloReturns
<1> QED
  BY <1>4, <1>5, <1>6, <1>7 DEF RemoveStep

\* The walk of a meta removal over the references of its node: each of them is
\* still on the server.
LEMMA WalkKeepsLinks ==
  ASSUME RInv, LInv, NEW c \in Clients, NEW from \in {"overwrite_query", "overwrite_publish"},
         pc[c] = from, NextReference(c, from), overlap' = overlap,
         Quiet' => /\ Quiet
                   /\ \A n \in Nodes : ToSet(refs[n]) \subseteq ToSet(refs'[n])
                   /\ \A n, m \in Nodes :
                        Parent(m) \in ToSet(refs'[n]) => Child(n) \in ToSet(refs'[m])
  PROVE  LInv'
<1>1. /\ pc[c] # "idle" /\ theirs[c] \in Seq(Ref) /\ theirs[c] # <<>>
      /\ mine \in [Clients -> Seq(Ref)] /\ theirs \in [Clients -> Seq(Ref)]
  BY DEF RInv, TypeOK, Copies, Fits
<1>2. op[c] \in Op /\ op[c].parent \in Nodes
  BY <1>1 DEF RInv, TypeOK, Op
<1>3. CASE Return(c, from, result[c])
  BY <1>1, <1>3, SoloReturns
<1>4. CASE /\ Len(theirs[c]) > 1 /\ Goto(c, from, "overwrite_query")
           /\ Keep(c, <<>>, Tail(theirs[c])) /\ UNCHANGED <<op, result>>
  <2>1. /\ pc' = [pc EXCEPT ![c] = "overwrite_query"] /\ op' = op
        /\ theirs'[c] = Tail(theirs[c])
    BY <1>1, <1>4 DEF Goto, Keep
  <2>2. ToSet(theirs'[c]) \subseteq ToSet(theirs[c])
    BY <1>1, <2>1, SetsOfLists
  <2>3. Quiet' => ToSet(theirs[c]) \subseteq ToSet(refs[op[c].parent])
    BY <1>1, SoloKnows DEF Knows
  <2>4. Quiet' => Knows("overwrite_query", op'[c], mine'[c], theirs'[c], refs')
    BY <1>2, <2>1, <2>2, <2>3 DEF Knows
  <2> QED
    BY <1>1, <2>1, <2>4, SoloMoves
<1> QED
  BY <1>3, <1>4 DEF NextReference

\* The steps of mio_meta_remove_publish.
LEMMA MetaKeepsLinks ==
  ASSUME RInv, LInv, NEW c \in Clients, MetaStep(c)
  PROVE  LInv'
<1> DEFINE p == op[c].parent
           h == Head(theirs[c])
<1>1. pc[c] # "idle" /\ overlap' = overlap
  BY DEF MetaStep, MetaQuery, OverwriteQuery, OverwritePublish, Goto
<1>2. /\ op[c] \in Op /\ p \in Nodes
      /\ mine[c] \in Seq(Ref) /\ theirs[c] \in Seq(Ref)
      /\ \A n \in Nodes : refs[n] \in Seq(Ref) /\ IsInjective(refs[n])
      /\ mine \in [Clients -> Seq(Ref)] /\ theirs \in [Clients -> Seq(Ref)]
      /\ op \in [Clients -> Op \cup {None}]
  BY <1>1 DEF RInv, TypeOK, Op, NoDuplicates
<1>3. Quiet => /\ Knows(pc[c], op[c], mine[c], theirs[c], refs)
               /\ \A n, m \in Nodes :
                    Parent(m) \in ToSet(refs[n]) =>
                      \/ Child(n) \in ToSet(refs[m])
                      \/ /\ pc[c] = "add_publish_parent"
                         /\ op[c].parent = m /\ op[c].child = n
  BY <1>1, SoloKnows
<1>h. pc[c] \in {"overwrite_query", "overwrite_publish"} =>
        /\ theirs[c] # <<>> /\ h \in Ref /\ h \in ToSet(theirs[c]) /\ h.node \in Nodes
        /\ Back(op[c], h) \in Ref /\ BackReference(c) = Back(op[c], h)
  <2>1. pc[c] \in {"overwrite_query", "overwrite_publish"} => theirs[c] # <<>>
    BY DEF RInv, Copies, Fits
  <2>2. theirs[c] # <<>> => h \in Ref /\ h \in ToSet(theirs[c])
    BY <1>2, SetsOfLists
  <2> QED
    BY <1>2, <2>1, <2>2, RefsDiffer DEF Back, BackReference
<1>4. CASE MetaQuery(c)
  <2>1. PICK reply : /\ Query(p, reply)
                     /\ \/ ListOf(reply) = <<>> /\ Return(c, "meta_query", result[c])
                        \/ /\ ListOf(reply) # <<>>
                           /\ Goto(c, "meta_query", "overwrite_query")
                           /\ Keep(c, <<>>, reply) /\ UNCHANGED <<op, result>>
    BY <1>4 DEF MetaQuery
  <2>2. refs' = refs /\ pc[c] = "meta_query"
    BY <1>4 DEF MetaQuery
  <2>3. Quiet' => Quiet /\ ListOf(reply) = refs[p]
    BY <1>1, <1>2, <2>1, QuietQuery DEF Quiet
  <2>4. CASE Return(c, "meta_query", result[c])
    BY <1>1, <1>3, <2>2, <2>3, <2>4, SoloReturns
  <2>5. CASE /\ ListOf(reply) # <<>> /\ Goto(c, "meta_query", "overwrite_query")
             /\ Keep(c, <<>>, reply) /\ UNCHANGED <<op, result>>
    <3>1. /\ pc' = [pc EXCEPT ![c] = "overwrite_query"] /\ op'[c] = op[c]
          /\ theirs'[c] = reply /\ reply = ListOf(reply)
      BY <1>2, <2>5 DEF Goto, Keep, ListOf
    <3>2. Quiet' => Knows("overwrite_query", op'[c], mine'[c], theirs'[c], refs')
      BY <1>3, <2>2, <2>3, <3>1 DEF Knows
    <3> QED
      BY <1>1, <1>3, <2>2, <2>3, <3>1, <3>2, SoloMoves
  <2> QED
    BY <2>1, <2>4, <2>5
<1>5. CASE OverwriteQuery(c)
  <2>1. PICK reply :
          /\ Query(h.node, reply)
          /\ \/ /\ Without(ListOf(reply), BackReference(c)) = <<>>
                /\ NextReference(c, "overwrite_query")
             \/ /\ Without(ListOf(reply), BackReference(c)) # <<>>
                /\ Goto(c, "overwrite_query", "overwrite_publish")
                /\ Keep(c, Append(Without(ListOf(reply), BackReference(c)), BackReference(c)), theirs[c])
                /\ UNCHANGED <<op, result>>
    BY <1>5 DEF OverwriteQuery
  <2>2. refs' = refs /\ pc[c] = "overwrite_query"
    BY <1>5 DEF OverwriteQuery
  <2>3. Quiet' => Quiet /\ ListOf(reply) = refs[h.node]
    BY <1>1, <1>h, <2>1, <2>2, QuietQuery DEF Quiet
  <2>4. CASE NextReference(c, "overwrite_query")
    BY <1>1, <1>3, <2>2, <2>3, <2>4, WalkKeepsLinks
  <2>5. CASE /\ Goto(c, "overwrite_query", "overwrite_publish")
             /\ Keep(c, Append(Without(ListOf(reply), BackReference(c)), BackReference(c)), theirs[c])
             /\ UNCHANGED <<op, result>>
    <3> DEFINE b == BackReference(c)
               rest == Without(ListOf(reply), b)
    <3>1. /\ pc' = [pc EXCEPT ![c] = "overwrite_publish"] /\ op'[c] = op[c]
          /\ mine'[c] = Append(rest, b) /\ theirs'[c] = theirs[c]
      BY <1>2, <2>5 DEF Goto, Keep
    <3>2. ListOf(reply) \in Seq(Ref) /\ IsInjective(ListOf(reply))
      BY <1>h, <2>1, <2>2, QueryGivesList
    <3>3. rest \in Seq(Ref) /\ ToSet(rest) = ToSet(ListOf(reply)) \ {b}
      BY <3>2, WithoutFresh, WithoutSet
    <3> HIDE DEF rest
    <3>4. ToSet(Append(rest, b)) = ToSet(rest) \cup {b}
      BY <1>h, <2>2, <3>3, SetsOfLists
    <3>5. Quiet' => ToSet(mine'[c]) = ToSet(refs[h.node]) \cup {Back(op[c], h)}
      BY <1>h, <2>2, <2>3, <3>1, <3>3, <3>4
    <3>6. Quiet' => Knows("overwrite_publish", op'[c], mine'[c], theirs'[c], refs')
      BY <1>3, <2>2, <2>3, <3>1, <3>5 DEF Knows
    <3> QED
      BY <1>1, <1>3, <2>2, <2>3, <3>1, <3>6, SoloMoves
  <2> QED
    BY <2>1, <2>4, <2>5
<1>6. CASE OverwritePublish(c)
  <2>1. /\ pc[c] = "overwrite_publish" /\ NextReference(c, "overwrite_publish")
        /\ \E answer : Publish(h.node, mine[c], answer)
    BY <1>6 DEF OverwritePublish
  <2> DEFINE b == Back(op[c], h)
  <2>2. ASSUME Quiet'
        PROVE  /\ Quiet
               /\ \A x \in Nodes : refs'[x] = IF x = h.node THEN mine[c] ELSE refs[x]
    BY <1>1, <1>h, <2>1, <2>2, QuietPublish DEF Quiet
  <2>3. ASSUME Quiet'
        PROVE  /\ h \in ToSet(refs[p])
               /\ \A x \in Nodes : ToSet(refs'[x]) = IF x = h.node THEN ToSet(refs[x]) \cup {b}
                                                             ELSE ToSet(refs[x])
    BY <1>3, <1>h, <2>1, <2>2, <2>3 DEF Knows
  <2>4. ASSUME Quiet', NEW n \in Nodes, NEW m \in Nodes, Parent(m) \in ToSet(refs'[n])
        PROVE  Child(n) \in ToSet(refs'[m])
    <3>1. CASE Parent(m) \in ToSet(refs[n])
      <4>1. Child(n) \in ToSet(refs[m])
        BY <1>3, <2>1, <2>2, <2>4, <3>1
      <4> QED
        BY <2>3, <2>4, <4>1
    <3>2. CASE Parent(m) \notin ToSet(refs[n])
      <4>1. n = h.node /\ Parent(m) = b
        BY <2>3, <2>4, <3>2
      <4>2. h.type = "child" /\ m = p
        BY <4>1, RefsDiffer DEF Back
      <4>3. h = Child(n)
        BY <1>h, <2>1, <4>1, <4>2, RefsDiffer
      <4> QED
        BY <1>2, <2>3, <2>4, <4>2, <4>3
    <3> QED
      BY <3>1, <3>2
  <2> QED
    BY <1>1, <2>1, <2>2, <2>3, <2>4, WalkKeepsLinks
<1> QED
  BY <1>4, <1>5, <1>6 DEF MetaStep

-------------------------------------------------------------------------------
\* RInv and LInv are inductive together.
LEMMA LinksInvariance == Spec => [](RInv /\ LInv)
<1>1. Init => RInv /\ LInv
  <2> SUFFICES ASSUME Init PROVE RInv /\ LInv
    OBVIOUS
  <2>1. \A n \in Nodes : Links(n) = {}
    BY DEF Init, Links, ToSet
  <2>2. \A c \in Clients : pc[c] = "idle"
    BY DEF Init
  <2>3. Alone /\ Agreement
    BY <2>1, <2>2 DEF Alone, Agreement
  <2>4. \A c \in Clients : Knows(pc[c], op[c], mine[c], theirs[c], refs)
    BY <2>2 DEF Knows
  <2> QED
    BY <2>3, <2>4, InitInvariant DEF LInv
<1>2. (RInv /\ LInv) /\ [Next]_vars => (RInv /\ LInv)'
  <2> SUFFICES ASSUME RInv, LInv, [Next]_vars PROVE LInv'
    BY NextInvariant
  <2>1. CASE Next
    <3>1. PICK c \in Clients : \/ ChildAdd(c) \/ ChildRemove(c) \/ MetaRemove(c)
                               \/ AddStep(c) \/ RemoveStep(c) \/ MetaStep(c)
      BY <2>1 DEF Next
    <3>2. CASE ChildAdd(c)
      BY <3>2, SoloBegins DEF ChildAdd
    <3>3. CASE ChildRemove(c)
      BY <3>3, SoloBegins DEF ChildRemove
    <3>4. CASE MetaRemove(c)
      BY <3>4, SoloBegins DEF MetaRemove
    <3> QED
      BY <3>1, <3>2, <3>3, <3>4, AddKeepsLinks, RemoveKeepsLinks, MetaKeepsLinks
  <2>2. CASE UNCHANGED vars
    BY <2>2 DEF vars, LInv, Alone, Quiet, Agreement, Links
  <2> QED
    BY <2>1, <2>2
<1> QED
  BY <1>1, <1>2, PTL DEF Spec

\* For any number of nodes, clients and operations: when nothing has failed or
\* overlapped and all operations have returned, every parent that a node names
\* names it as a child, after any sequence of adds, removals and meta removals.
THEOREM LinksHaveTwoEnds == Spec => []ParentsKnowTheirChildren
<1>1. LInv => ParentsKnowTheirChildren
  BY DEF LInv, Agreement, ParentsKnowTheirChildren
<1> QED
  BY <1>1, LinksInvariance, PTL

\* What each of the three returns that OkMeansDone is about has done.
LEMMA AddIsDone ==
  ASSUME RInv, LInv, NEW c \in Clients, AddPublishParent(c), faults' = 0, ~overlap
  PROVE  /\ result'[c] = "OK" => Contains(refs'[op[c].parent], Child(op[c].child))
         /\ op[c].at_child => Contains(refs'[op[c].child], Parent(op[c].parent))
<1> DEFINE p == op[c].parent
           k == op[c].child
           list == Append(mine[c], Child(k))
<1>1. pc[c] = "add_publish_parent" /\ \E answer : Publish(p, list, answer)
  BY DEF AddPublishParent
<1>2. /\ op[c] \in Op /\ p \in Nodes /\ k \in Nodes /\ mine[c] \in Seq(Ref)
      /\ \A n \in Nodes : refs[n] \in Seq(Ref)
  BY <1>1 DEF RInv, TypeOK, Op
<1>3. faults = 0 /\ \A x \in Nodes : refs'[x] = IF x = p THEN list ELSE refs[x]
  BY <1>1, <1>2, QuietPublish
<1>4. Knows(pc[c], op[c], mine[c], theirs[c], refs)
  BY <1>1, <1>3, SoloKnows DEF Quiet
<1>5. list \in Seq(Ref) /\ ToSet(list) = ToSet(mine[c]) \cup {Child(k)}
  BY <1>2, SetsOfLists, RefsDiffer
<1> HIDE DEF list
<1>6. Contains(refs'[p], Child(k))
  BY <1>2, <1>3, <1>5, SetsOfLists
<1>7. op[c].at_child => Contains(refs'[k], Parent(p))
  <2>1. op[c].at_child => p # k /\ Parent(p) \in ToSet(refs[k])
    BY <1>1, <1>4 DEF Knows
  <2> QED
    BY <1>2, <1>3, <2>1, SetsOfLists
<1> QED
  BY <1>6, <1>7

LEMMA RemovalIsDone ==
  ASSUME RInv, LInv, NEW c \in Clients, RemoveQueryParent(c) \/ RemovePublishParent(c),
         pc'[c] = "idle", faults' = 0, ~overlap
  PROVE  /\ ~Contains(refs'[op[c].parent], Child(op[c].child))
         /\ ~Contains(refs'[op[c].child], Parent(op[c].parent))
<1> DEFINE p == op[c].parent
           k == op[c].child
<1>1. pc[c] \in {"remove_query_parent", "remove_publish_parent"}
  BY DEF RemoveQueryParent, RemovePublishParent, Return, Goto
<1>2. /\ op[c] \in Op /\ p \in Nodes /\ k \in Nodes /\ mine[c] \in Seq(Ref)
      /\ \A n \in Nodes : refs[n] \in Seq(Ref)
      /\ pc \in [Clients -> PC]
  BY <1>1 DEF RInv, TypeOK, Op
<1>3. CASE RemoveQueryParent(c)
  <2>1. /\ refs' = refs
        /\ \E reply : Query(p, reply) /\ (ListOf(reply) = <<>> \/ pc'[c] # "idle")
    BY <1>2, <1>3 DEF RemoveQueryParent, Goto
  <2>2. faults = 0 /\ refs[p] = <<>>
    BY <1>2, <2>1, QuietQuery
  <2>3. Knows(pc[c], op[c], mine[c], theirs[c], refs)
    BY <1>1, <2>2, SoloKnows DEF Quiet
  <2>4. Parent(p) \notin ToSet(refs[k]) /\ ToSet(refs[p]) = {}
    BY <1>1, <1>2, <2>2, <2>3, SetsOfLists DEF Knows
  <2> QED
    BY <1>2, <2>1, <2>4, SetsOfLists
<1>4. CASE RemovePublishParent(c)
  <2>1. pc[c] = "remove_publish_parent" /\ \E answer : Publish(p, mine[c], answer)
    BY <1>4 DEF RemovePublishParent, Return, Goto
  <2>2. faults = 0 /\ \A x \in Nodes : refs'[x] = IF x = p THEN mine[c] ELSE refs[x]
    BY <1>2, <2>1, QuietPublish
  <2>3. Knows(pc[c], op[c], mine[c], theirs[c], refs)
    BY <1>1, <2>2, SoloKnows DEF Quiet
  <2>4. p # k /\ Parent(p) \notin ToSet(refs[k]) /\ Child(k) \notin ToSet(mine[c])
    BY <2>1, <2>3 DEF Knows
  <2> QED
    BY <1>2, <2>2, <2>4, SetsOfLists
<1> QED
  BY <1>3, <1>4

\* A step of one client leaves the others where they stand.
LEMMA OthersStay ==
  ASSUME RInv, Next, NEW c \in Clients, pc[c] # "idle", pc'[c] # pc[c]
  PROVE  AddStep(c) \/ RemoveStep(c) \/ MetaStep(c)
<1>1. PICK d \in Clients : \/ ChildAdd(d) \/ ChildRemove(d) \/ MetaRemove(d)
                           \/ AddStep(d) \/ RemoveStep(d) \/ MetaStep(d)
  BY DEF Next
<1>2. \E from, to : Goto(d, from, to)
  BY <1>1 DEF ChildAdd, ChildRemove, MetaRemove, Begin, Return, NextReference,
     AddStep, AddQueryParent, AddQueryChild, AddPublishChild, AddPublishParent,
     RemoveStep, RemoveQueryChild, RemovePublishChild, RemoveQueryParent, RemovePublishParent,
     MetaStep, MetaQuery, OverwriteQuery, OverwritePublish
<1>3. d = c
  BY <1>2 DEF Goto, RInv, TypeOK
<1>4. ~(ChildAdd(c) \/ ChildRemove(c) \/ MetaRemove(c))
  BY DEF ChildAdd, ChildRemove, MetaRemove, Begin, Goto
<1> QED
  BY <1>1, <1>3, <1>4

\* For any number of nodes, clients and operations: an operation that nothing
\* disturbed and that returns MIO_OK has done what it was asked for, at both ends.
THEOREM OkIsDone == Spec => OkMeansDone
<1>1. ASSUME RInv, LInv, [Next]_vars, NEW c \in Clients,
             pc[c] \in {"add_publish_parent", "remove_query_parent", "remove_publish_parent"},
             pc'[c] = "idle", result'[c] = "OK", faults' = 0, ~overlap
      PROVE  IF pc[c] = "add_publish_parent"
               THEN /\ Contains(refs'[op[c].parent], Child(op[c].child))
                    /\ op[c].at_child => Contains(refs'[op[c].child], Parent(op[c].parent))
               ELSE /\ ~Contains(refs'[op[c].parent], Child(op[c].child))
                    /\ ~Contains(refs'[op[c].child], Parent(op[c].parent))
  <2>1. Next
    BY <1>1 DEF vars
  <2>2. AddStep(c) \/ RemoveStep(c) \/ MetaStep(c)
    BY <1>1, <2>1, OthersStay
  <2>3. CASE pc[c] = "add_publish_parent"
    <3>1. AddPublishParent(c)
      BY <2>2, <2>3 DEF AddStep, RemoveStep, MetaStep, Goto,
         AddQueryParent, AddQueryChild, AddPublishChild, RemoveQueryChild, RemovePublishChild,
         RemoveQueryParent, RemovePublishParent, Return, MetaQuery, OverwriteQuery, OverwritePublish
    <3> QED
      BY <1>1, <2>3, <3>1, AddIsDone
  <2>4. CASE pc[c] # "add_publish_parent"
    <3>1. RemoveQueryParent(c) \/ RemovePublishParent(c)
      BY <1>1, <2>2, <2>4 DEF AddStep, RemoveStep, MetaStep, Goto,
         AddQueryParent, AddQueryChild, AddPublishChild, AddPublishParent,
         RemoveQueryChild, RemovePublishChild, MetaQuery, OverwriteQuery, OverwritePublish
    <3> QED
      BY <1>1, <2>4, <3>1, RemovalIsDone
  <2> QED
    BY <2>3, <2>4
<1>2. RInv /\ LInv /\ [Next]_vars =>
        [\A c \in Clients :
           LET p == op[c].parent
               k == op[c].child
           IN  /\ pc[c] \in {"add_publish_parent", "remove_query_parent", "remove_publish_parent"}
               /\ pc'[c] = "idle" /\ result'[c] = "OK" /\ faults' = 0 /\ ~overlap
               => IF pc[c] = "add_publish_parent"
                    THEN /\ Contains(refs'[p], Child(k))
                         /\ op[c].at_child => Contains(refs'[k], Parent(p))
                    ELSE ~Contains(refs'[p], Child(k)) /\ ~Contains(refs'[k], Parent(p))]_vars
  BY <1>1
<1> QED
  BY <1>2, LinksInvariance, PTL DEF Spec, OkMeansDone
===============================================================================
