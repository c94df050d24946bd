----------------------------- MODULE MioNodesProofs -----------------------------
(***************************************************************************)
(* The administration of nodes, for any number of threads, nodes and calls: *)
(* both ends of a link agree and a node is subscribed to once where calls   *)
(* do not overlap and are answered, an addition keeps what was there, and   *)
(* what a call reports is so at the server.                                 *)
(*                                                                         *)
(* What a thread knows of the server is a copy from an earlier query.  The  *)
(* invariant says when the copy is still what the server has, and which     *)
(* link has one end only.                                                   *)
(*                                                                         *)
(* The last part is about the items at the nodes (MioItems).               *)
(***************************************************************************)
EXTENDS MioNodes, SequenceTheorems, FiniteSetTheorems, WellFoundedInduction, TLAPS

\* Where a thread is goes with what it was asked to do, and until it returns
\* the caller's response is as new.
StageInv ==
  \A t \in Threads : pc[t] # "idle" =>
    /\ call[t] \in Calls[topic] /\ response[t] = Unknown
    /\ pc[t] = "send" => call[t].type \notin {"child_add", "child_remove", "subscribe"}
    /\ pc[t] \in {"children", "parent", "parents", "child"} => call[t].type = "child_add"
    /\ pc[t] \in {"subscriptions", "subscribe"} => call[t].type = "subscribe"

\* A list that is fresh is what the server would answer now.
FreshInv ==
  \A t \in Threads :
    /\ pc[t] = "parent" => list[t] \in Seq(Nodes \cup {None})
    /\ pc[t] = "child" => list[t] \in Seq(Nodes)
    /\ fresh[t] /\ pc[t] = "parent" => /\ call[t].parent \in DOMAIN server.nodes
                                       /\ list[t] = ChildrenOf(server, call[t].parent)
    /\ fresh[t] /\ pc[t] = "child" => /\ call[t].child \in DOMAIN server.nodes
                                      /\ list[t] = server.nodes[call[t].child].parents

\* Calls that do not overlap are made by one thread at a time.
AloneInv ==
  ~overlapped => \A t, u \in Threads : pc[t] # "idle" /\ pc[u] # "idle" => t = u

\* The links that additions have configured at one end, for counters p and calls k.
Half(p, k) == {<<k[t].parent, k[t].child>> : t \in {u \in Threads : p[u] \in {"parents", "child"}}}

\* While nothing fails and no calls overlap, lists are fresh, and the only link
\* with one end is the one that is being added.
LinkInv ==
  ~failed /\ ~overlapped =>
    /\ Linked(server, Half(pc, call))
    /\ \A t \in Threads :
         /\ pc[t] \in {"parent", "child"} => fresh[t]
         /\ pc[t] \in {"parents", "child"} =>
              /\ call[t].parent \in DOMAIN server.nodes
              /\ server.nodes[call[t].parent].type = "collection" =>
                   call[t].child \in Range(server.nodes[call[t].parent].children)

\* A thread that is about to subscribe has seen that the node is not among the
\* subscriptions, and no other thread has changed them since.
SubscribeInv ==
  ~overlapped =>
    /\ NamedOnce(server)
    /\ \A t \in Threads : pc[t] = "subscribe" =>
         \A i \in DOMAIN server.subscriptions : server.subscriptions[i].node # call[t].node

\* The threads have their part of each variable.
ShapeInv ==
  /\ topic \in Topics /\ DOMAIN call = Threads /\ DOMAIN list = Threads /\ DOMAIN response = Threads
  /\ DOMAIN result = Threads /\ DOMAIN fresh = Threads
  /\ failed \in BOOLEAN /\ overlapped \in BOOLEAN

\* The inductive invariant: where the threads are, and what they know of the
\* server.
Control == /\ pc \in [Threads -> Stages] /\ calls \in [Threads -> 0 .. MaxCalls]
           /\ \A t \in Threads :
                response[t].type \in {"unknown", "ok", "error", "packet", "confused"}
           /\ ShapeInv /\ StageInv /\ AloneInv
Knowledge == /\ IsServer(server) /\ EachOnce(server)
             /\ FreshInv /\ LinkInv /\ SubscribeInv
NInv == Control /\ Knowledge

-------------------------------------------------------------------------------
(* Recursion over a sequence *)

\* A set of numbers that is not empty has a least element.
LEMMA Least ==
  ASSUME NEW T, T \subseteq Nat, T # {}
  PROVE  \E m \in T : \A k \in T : m <= k
<1> DEFINE R == OpToRel(<, Nat)
<1>1. IsWellFoundedOn(R, Nat)
  BY NatLessThanWellFounded
<1>2. \A x, y \in Nat : <<y, x>> \in R <=> y < x
  BY DEF OpToRel
<1> HIDE DEF R
<1>3. PICK m \in T : \A k \in T : ~(<<k, m>> \in R)
  BY <1>1, WFMin
<1>4. \A k \in T : ~(k < m)
  BY <1>2, <1>3
<1>5. \A k \in T : m <= k
  BY <1>4
<1> QED
  BY <1>5

\* A sequence of values, each of which is a step from the one before.
Solvable(D, first, N, step) ==
  \E f \in [0..N -> D] : f[0] = first /\ \A i \in 1..N : f[i] = step[i][f[i-1]]

\* A recursive definition with one step for each number has a solution.
LEMMA Recursion ==
  ASSUME NEW D, NEW first \in D, NEW N \in Nat, NEW step \in [1..N -> [D -> D]]
  PROVE  Solvable(D, first, N, step)
<1> DEFINE Runs(f, n) == f[0] = first /\ \A i \in 1..n : f[i] = step[i][f[i-1]]
           bad == {n \in 0..N : ~ \E f \in [0..n -> D] : Runs(f, n)}
<1>1. bad = {}
  <2> SUFFICES ASSUME bad # {} PROVE FALSE
    OBVIOUS
  <2>0. bad \subseteq Nat
    OBVIOUS
  <2>1. PICK m \in bad : \A k \in bad : m <= k
    BY <2>0, Least
  <2>n. m \in 0..N
    BY <2>1
  <2>2. CASE m = 0
    <3>1. [k \in 0..0 |-> first] \in [0..0 -> D] /\ Runs([k \in 0..0 |-> first], 0)
      OBVIOUS
    <3> QED
      BY <2>1, <2>2, <3>1
  <2>3. CASE m > 0
    <3> HIDE DEF bad
    <3>1. m - 1 \in 0..N /\ m - 1 \notin bad /\ m \in 1..N
      BY <2>1, <2>n, <2>3
    <3> USE DEF bad
    <3>2. PICK f \in [0..(m-1) -> D] : Runs(f, m - 1)
      BY <3>1
    <3> DEFINE last == step[m][f[m-1]]
               g == [k \in 0..m |-> IF k = m THEN last ELSE f[k]]
    <3>3. m - 1 \in 0..(m-1) /\ f[m-1] \in D /\ last \in D
      BY <2>n, <3>1, <3>2
    <3>4. g \in [0..m -> D]
      <4>1. \A k \in 0..m : k # m => k \in 0..(m-1)
        BY <2>n
      <4> QED
        BY <3>2, <3>3, <4>1
    <3>5. Runs(g, m)
      <4>1. g[0] = first
        BY <2>n, <2>3, <3>2
      <4>2. ASSUME NEW k \in 1..m PROVE g[k] = step[k][g[k-1]]
        <5>1. k \in 0..m /\ k - 1 \in 0..m /\ k - 1 # m /\ (k # m => k \in 1..(m-1))
          BY <2>n
        <5>2. g[k-1] = f[k-1]
          BY <5>1
        <5>3. g[k] = IF k = m THEN last ELSE f[k]
          BY <5>1
        <5> QED
          BY <3>2, <5>1, <5>2, <5>3
      <4> QED
        BY <4>1, <4>2
    <3> QED
      BY <2>1, <3>4, <3>5
  <2> QED
    BY <2>n, <2>2, <2>3
<1>2. N \in 0..N
  OBVIOUS
<1> QED
  BY <1>1, <1>2 DEF Solvable

\* What a sequence of places of seq leaves of it: they are the places that are
\* kept up to n, in increasing order or not, each once.
Picked(q, seq, places, n) ==
  \E at \in [DOMAIN q -> 1..n] :
    /\ \A m \in DOMAIN q : at[m] \in places /\ q[m] = seq[at[m]]
    /\ \A m, k \in DOMAIN q : at[m] = at[k] => m = k
    /\ \A i \in places \cap (1..n) : \E m \in DOMAIN q : at[m] = i

\* Kept has the elements at the places that are kept, each of them once.
LEMMA KeptPicks ==
  ASSUME NEW S, NEW seq \in Seq(S), NEW places
  PROVE  /\ Kept(seq, places) \in Seq(S)
         /\ Picked(Kept(seq, places), seq, places, Len(seq))
<1> DEFINE N == Len(seq)
           D == Seq(S)
           Grown(x, i) == IF i \in places THEN Append(x, seq[i]) ELSE x
           step == [i \in 1..N |-> [x \in D |-> Grown(x, i)]]
           Eq(g) == g = [i \in 0..N |-> IF i = 0 THEN <<>>
                                        ELSE IF i \in places THEN Append(g[i-1], seq[i])
                                        ELSE g[i-1]]
<1>1. N \in Nat /\ <<>> \in D /\ \A i \in 1..N : seq[i] \in S
  OBVIOUS
<1>2. step \in [1..N -> [D -> D]]
  <2> SUFFICES ASSUME NEW x \in D, NEW i \in 1..N PROVE Grown(x, i) \in D
    OBVIOUS
  <2> QED
    BY <1>1
<1> HIDE DEF D, N
<1> DEFINE none == <<>>
<1>n. none \in D
  BY <1>1
<1> HIDE DEF step, none
<1>r. Solvable(D, none, N, step)
  BY <1>1, <1>2, <1>n, Recursion
<1>3. PICK f \in [0..N -> D] : f[0] = <<>> /\ \A i \in 1..N : f[i] = step[i][f[i-1]]
  BY <1>r DEF none, Solvable
<1> USE DEF step
<1>4. \A i \in 1..N : i \in 0..N /\ i - 1 \in 0..N /\ i # 0 /\ f[i-1] \in D
  BY <1>1, <1>3
<1>5. \A i \in 1..N : f[i] = Grown(f[i-1], i)
  BY <1>3, <1>4
<1>6. Eq(f)
  <2>1. \A i \in 0..N : i # 0 => i \in 1..N
    BY <1>1
  <2>2. \A i \in 0..N : f[i] = IF i = 0 THEN <<>>
                               ELSE IF i \in places THEN Append(f[i-1], seq[i]) ELSE f[i-1]
    BY <1>3, <1>5, <2>1
  <2> QED
    BY <1>3, <2>2
<1> DEFINE K == CHOOSE g : Eq(g)
<1>7. Kept(seq, places) = K[N]
  BY DEF Kept, N
<1>8. Eq(K)
  BY <1>6
<1> HIDE DEF K
<1>9. K[0] = <<>> /\ \A i \in 1..N : K[i] = Grown(K[i-1], i)
  <2>1. 0 \in 0..N
    BY <1>1
  <2>2. \A i \in 0..N : K[i] = IF i = 0 THEN <<>>
                               ELSE IF i \in places THEN Append(K[i-1], seq[i]) ELSE K[i-1]
    BY <1>8
  <2> QED
    BY <1>4, <2>1, <2>2
<1> HIDE DEF Eq, step
<1> DEFINE Done(n) == K[n] \in Seq(S) /\ Picked(K[n], seq, places, n)
           bad == {n \in 0..N : ~Done(n)}
<1> HIDE DEF Done
<1>10. bad = {}
  <2> SUFFICES ASSUME bad # {} PROVE FALSE
    OBVIOUS
  <2>0. bad \subseteq Nat
    BY <1>1
  <2>1. PICK n \in bad : \A k \in bad : n <= k
    BY <2>0, Least
  <2>n. n \in 0..N /\ ~Done(n)
    BY <2>1
  <2>2. CASE n = 0
    <3>1. K[0] = <<>> /\ DOMAIN <<>> = {} /\ <<>> \in Seq(S)
      BY <1>9
    <3>2. 1..0 = {}
      OBVIOUS
    <3>3. [m \in {} |-> 1] \in [{} -> {}]
      OBVIOUS
    <3>4. Picked(<<>>, seq, places, 0)
      BY <3>1, <3>2, <3>3, Zenon DEF Picked
    <3> QED
      BY <2>n, <2>2, <3>1, <3>4 DEF Done
  <2>3. CASE n # 0
    <3>1. n \in 1..N /\ n - 1 \in 0..N /\ ~(n <= n - 1) /\ n - 1 \in Nat /\ n \in Nat
      BY <1>1, <2>n, <2>3
    <3>2. Done(n - 1)
      BY <2>1, <3>1
    <3> DEFINE q == K[n-1]
               I == 1..(n-1)
    <3>3. q \in Seq(S) /\ Picked(q, seq, places, n - 1)
      BY <3>2 DEF Done
    <3>4. K[n] = IF n \in places THEN Append(q, seq[n]) ELSE q
      BY <1>9, <3>1
    <3>5. 1..n = I \cup {n} /\ n \notin I
      BY <3>1
    <3> HIDE DEF q, I
    <3>6. PICK at \in [DOMAIN q -> I] :
            /\ \A m \in DOMAIN q : at[m] \in places /\ q[m] = seq[at[m]]
            /\ \A m, k \in DOMAIN q : at[m] = at[k] => m = k
            /\ \A i \in places \cap I : \E m \in DOMAIN q : at[m] = i
      BY <3>3 DEF Picked, I
    <3>7. CASE n \in places
      <4> DEFINE M == Len(q) + 1
                 new == Append(q, seq[n])
                 att == [m \in DOMAIN new |-> IF m = M THEN n ELSE at[m]]
      <4>1. /\ new \in Seq(S) /\ DOMAIN new = DOMAIN q \cup {M} /\ M \notin DOMAIN q
            /\ new[M] = seq[n] /\ \A m \in DOMAIN q : new[m] = q[m]
        BY <1>1, <3>1, <3>3
      <4> HIDE DEF M, new
      <4>2. att \in [DOMAIN new -> 1..n]
        BY <3>5, <3>6, <4>1
      <4>3. \A m \in DOMAIN new : att[m] \in places /\ new[m] = seq[att[m]]
        BY <3>6, <3>7, <4>1
      <4>4. \A m, k \in DOMAIN new : att[m] = att[k] => m = k
        BY <3>5, <3>6, <4>1
      <4>5. \A i \in places \cap (1..n) : \E m \in DOMAIN new : att[m] = i
        BY <3>5, <3>6, <4>1
      <4>6. Picked(new, seq, places, n)
        BY <4>2, <4>3, <4>4, <4>5, Zenon DEF Picked
      <4> QED
        BY <2>n, <3>4, <3>7, <4>1, <4>6 DEF Done, new
    <3>8. CASE n \notin places
      <4>1. at \in [DOMAIN q -> 1..n] /\ places \cap (1..n) = places \cap I
        BY <3>5, <3>6, <3>8
      <4>2. Picked(q, seq, places, n)
        BY <3>6, <4>1, Zenon DEF Picked
      <4> QED
        BY <2>n, <3>3, <3>4, <3>8, <4>2 DEF Done
    <3> QED
      BY <3>7, <3>8
  <2> QED
    BY <2>2, <2>3
<1>11. Done(N)
  BY <1>1, <1>10
<1> QED
  BY <1>7, <1>11 DEF Done, N

\* An element that is appended is added to the range; one that is new leaves
\* every element there once.
LEMMA AppendFacts ==
  ASSUME NEW S, NEW q \in Seq(S), NEW y \in S
  PROVE  /\ Append(q, y) \in Seq(S) /\ Range(Append(q, y)) = Range(q) \cup {y}
         /\ IsInjective(q) /\ y \notin Range(q) => IsInjective(Append(q, y))
<1> DEFINE N == Len(q)
           new == Append(q, y)
<1>1. /\ N \in Nat /\ DOMAIN q = 1..N /\ new \in Seq(S) /\ DOMAIN new = (1..N) \cup {N + 1}
      /\ N + 1 \notin 1..N /\ new[N + 1] = y /\ \A i \in 1..N : new[i] = q[i]
  OBVIOUS
<1> HIDE DEF N, new
<1>2. Range(new) = Range(q) \cup {y}
  BY <1>1 DEF Range
<1>3. ASSUME IsInjective(q), y \notin Range(q) PROVE IsInjective(new)
  BY <1>1, <1>3 DEF Range, IsInjective
<1> QED
  BY <1>1, <1>2, <1>3 DEF new

\* The entries of a configuration, to which each element is added unless it is
\* there.
Collected(entries) ==
  LET config[i \in 0 .. Len(entries)] ==
        IF i = 0 THEN <<>>
        ELSE IF entries[i] \in Range(config[i - 1]) THEN config[i - 1]
             ELSE Append(config[i - 1], entries[i])
  IN config[Len(entries)]

LEMMA ConfigsAreCollected ==
  ASSUME NEW t \in Threads
  PROVE  /\ ChildrenConfig(t) = Collected(Append(list[t], call[t].child))
         /\ ParentsConfig(t) = Collected(Append(list[t], call[t].parent))
<1>1. ChildrenConfig(t) = Collected(Append(list[t], call[t].child))
  BY DEF ChildrenConfig, ConfigChildAdd, Collected
<1>2. ParentsConfig(t) = Collected(Append(list[t], call[t].parent))
  BY DEF ParentsConfig, ConfigParentAdd, Collected
<1> QED
  BY <1>1, <1>2

\* A configuration has every entry once.  When the entries of a list are there
\* once already, it is the list, with the one that is added at its end unless it
\* was in the list.
LEMMA CollectedOnce ==
  ASSUME NEW S, NEW old \in Seq(S), NEW x \in S
  PROVE  LET C == Collected(Append(old, x)) IN
         /\ C \in Seq(S) /\ IsInjective(C) /\ Range(C) = Range(old) \cup {x}
         /\ IsInjective(old) => C = IF x \in Range(old) THEN old ELSE Append(old, x)
<1> DEFINE entries == Append(old, x)
           N == Len(entries)
           D == Seq(S)
           Grown(c, i) == IF entries[i] \in Range(c) THEN c ELSE Append(c, entries[i])
           step == [i \in 1..N |-> [c \in D |-> Grown(c, i)]]
           Eq(g) == g = [i \in 0..N |-> IF i = 0 THEN <<>>
                                        ELSE IF entries[i] \in Range(g[i-1]) THEN g[i-1]
                                             ELSE Append(g[i-1], entries[i])]
           none == <<>>
<1>1. /\ N \in Nat /\ N = Len(old) + 1 /\ Len(old) \in Nat /\ none \in D /\ entries[N] = x
      /\ \A i \in 1..N : entries[i] \in S
      /\ \A i \in 1..(N-1) : entries[i] = old[i]
      /\ DOMAIN old = 1..(N-1)
  OBVIOUS
<1> HIDE DEF entries, N
<1>2. step \in [1..N -> [D -> D]]
  <2> SUFFICES ASSUME NEW c \in D, NEW i \in 1..N PROVE Grown(c, i) \in D
    OBVIOUS
  <2> QED
    BY <1>1
<1> HIDE DEF D, step, none
<1>r. Solvable(D, none, N, step)
  BY <1>1, <1>2, Recursion
<1>3. PICK f \in [0..N -> D] : f[0] = <<>> /\ \A i \in 1..N : f[i] = step[i][f[i-1]]
  BY <1>r DEF none, Solvable
<1> USE DEF step
<1>4. \A i \in 1..N : i \in 0..N /\ i - 1 \in 0..N /\ i # 0 /\ f[i-1] \in D
  BY <1>1, <1>3
<1>5. \A i \in 1..N : f[i] = Grown(f[i-1], i)
  BY <1>3, <1>4
<1>6. Eq(f)
  <2>1. \A i \in 0..N : i # 0 => i \in 1..N
    BY <1>1
  <2>2. \A i \in 0..N : f[i] = IF i = 0 THEN <<>>
                               ELSE IF entries[i] \in Range(f[i-1]) THEN f[i-1]
                                    ELSE Append(f[i-1], entries[i])
    BY <1>3, <1>5, <2>1
  <2> QED
    BY <1>3, <2>2
<1> DEFINE K == CHOOSE g : Eq(g)
<1>7. Collected(entries) = K[N]
  BY DEF Collected, N
<1>8. Eq(K)
  BY <1>6
<1> HIDE DEF K
<1>9. K[0] = <<>> /\ \A i \in 1..N : K[i] = Grown(K[i-1], i)
  <2>1. 0 \in 0..N
    BY <1>1
  <2>2. \A i \in 0..N : K[i] = IF i = 0 THEN <<>>
                               ELSE IF entries[i] \in Range(K[i-1]) THEN K[i-1]
                                    ELSE Append(K[i-1], entries[i])
    BY <1>8
  <2> QED
    BY <1>4, <2>1, <2>2
<1> HIDE DEF Eq, step
<1> DEFINE Same(n) == Len(K[n]) = n /\ \A i \in 1..n : K[n][i] = entries[i]
           Done(n) == /\ K[n] \in Seq(S) /\ IsInjective(K[n])
                      /\ Range(K[n]) = {entries[i] : i \in 1..n}
                      /\ n <= N - 1 /\ IsInjective(old) => Same(n)
           bad == {n \in 0..N : ~Done(n)}
<1> HIDE DEF Done
<1>10. bad = {}
  <2> SUFFICES ASSUME bad # {} PROVE FALSE
    OBVIOUS
  <2>0. bad \subseteq Nat
    BY <1>1
  <2>1. PICK n \in bad : \A k \in bad : n <= k
    BY <2>0, Least
  <2>n. n \in 0..N /\ ~Done(n)
    BY <2>1
  <2>2. CASE n = 0
    <3>1. K[0] = <<>> /\ DOMAIN <<>> = {} /\ <<>> \in Seq(S) /\ Len(<<>>) = 0 /\ 1..0 = {}
      BY <1>9
    <3>2. IsInjective(<<>>) /\ Range(<<>>) = {}
      BY <3>1 DEF IsInjective, Range
    <3> QED
      BY <2>n, <2>2, <3>1, <3>2 DEF Done
  <2>3. CASE n # 0
    <3>1. /\ n \in 1..N /\ n - 1 \in 0..N /\ ~(n <= n - 1) /\ n - 1 \in Nat /\ n \in Nat
          /\ n - 1 <= N - 1
      BY <1>1, <2>n, <2>3
    <3>2. Done(n - 1)
      BY <2>1, <3>1
    <3> DEFINE q == K[n-1]
               I == 1..(n-1)
               y == entries[n]
    <3>3. /\ q \in Seq(S) /\ IsInjective(q) /\ Range(q) = {entries[i] : i \in I}
          /\ IsInjective(old) => Same(n - 1)
      BY <3>1, <3>2 DEF Done
    <3>4. K[n] = IF y \in Range(q) THEN q ELSE Append(q, y)
      BY <1>9, <3>1
    <3>5. 1..n = I \cup {n} /\ n \notin I /\ y \in S
      BY <1>1, <3>1
    <3>6. ASSUME n <= N - 1, IsInjective(old) PROVE Same(n) /\ y \notin Range(q)
      <4>1. y \notin Range(q)
        <5> SUFFICES ASSUME NEW i \in I, entries[i] = y PROVE FALSE
          BY <3>3
        <5>1. i \in 1..(N-1) /\ n \in 1..(N-1) /\ i # n
          BY <1>1, <3>1, <3>6
        <5> QED
          BY <1>1, <3>6, <5>1 DEF IsInjective
      <4>2. K[n] = Append(q, y) /\ Len(q) = n - 1 /\ \A i \in I : q[i] = entries[i]
        BY <3>3, <3>4, <3>6, <4>1
      <4>3. Len(Append(q, y)) = n /\ Append(q, y)[n] = y /\ \A i \in I : Append(q, y)[i] = q[i]
        BY <3>1, <3>3, <3>5, <4>2
      <4> QED
        BY <3>5, <4>1, <4>2, <4>3
    <3> HIDE DEF q, I, y
    <3>7. CASE y \in Range(q)
      <4>1. K[n] = q /\ {entries[i] : i \in 1..n} = {entries[i] : i \in I}
        BY <3>3, <3>4, <3>5, <3>7 DEF y
      <4> QED
        BY <2>n, <3>3, <3>6, <3>7, <4>1 DEF Done
    <3>8. CASE y \notin Range(q)
      <4>1. K[n] = Append(q, y) /\ {entries[i] : i \in 1..n} = {entries[i] : i \in I} \cup {y}
        BY <3>4, <3>5, <3>8 DEF y
      <4>2. /\ Append(q, y) \in Seq(S) /\ Range(Append(q, y)) = Range(q) \cup {y}
            /\ IsInjective(Append(q, y))
        BY <3>3, <3>5, <3>8, AppendFacts
      <4> QED
        BY <2>n, <3>3, <3>6, <4>1, <4>2 DEF Done
    <3> QED
      BY <3>7, <3>8
  <2> QED
    BY <2>2, <2>3
<1>11. N \in 0..N /\ N - 1 \in 0..N /\ N \in 1..N /\ N - 1 <= N - 1
  BY <1>1
<1>12. Done(N) /\ Done(N - 1)
  BY <1>10, <1>11
<1>13. {entries[i] : i \in 1..N} = Range(old) \cup {x}
  <2>1. 1..N = (1..(N-1)) \cup {N}
    BY <1>1
  <2> QED
    BY <1>1, <2>1 DEF Range
<1>14. ASSUME IsInjective(old) PROVE K[N] = IF x \in Range(old) THEN old ELSE Append(old, x)
  <2>1. K[N-1] \in Seq(S) /\ Same(N - 1)
    BY <1>11, <1>12, <1>14 DEF Done
  <2>2. K[N-1] = old
    BY <1>1, <2>1
  <2> QED
    BY <1>1, <1>9, <1>11, <2>2
<1> QED
  BY <1>7, <1>12, <1>13, <1>14 DEF Done, entries

\* A sequence without an element has the others, each as often as before.
LEMMA WithoutFacts ==
  ASSUME NEW S, NEW q \in Seq(S), NEW n
  PROVE  /\ Without(q, n) \in Seq(S) /\ Range(Without(q, n)) = Range(q) \ {n}
         /\ IsInjective(q) => IsInjective(Without(q, n))
<1> DEFINE places == {i \in DOMAIN q : q[i] # n}
           K == Kept(q, places)
           N == Len(q)
<1>1. N \in Nat /\ DOMAIN q = 1..N
  OBVIOUS
<1>2. Without(q, n) = K
  BY DEF Without
<1>3. K \in Seq(S) /\ Picked(K, q, places, N)
  BY KeptPicks
<1>4. \A i : i \in places <=> i \in 1..N /\ q[i] # n
  BY <1>1
<1> HIDE DEF places, K, N
<1>5. PICK at \in [DOMAIN K -> 1..N] :
        /\ \A m \in DOMAIN K : at[m] \in places /\ K[m] = q[at[m]]
        /\ \A m, k \in DOMAIN K : at[m] = at[k] => m = k
        /\ \A i \in places \cap (1..N) : \E m \in DOMAIN K : at[m] = i
  BY <1>3 DEF Picked
<1>6. Range(K) = Range(q) \ {n}
  BY <1>1, <1>4, <1>5 DEF Range
<1>7. ASSUME IsInjective(q) PROVE IsInjective(K)
  BY <1>1, <1>5, <1>7 DEF IsInjective
<1> QED
  BY <1>2, <1>3, <1>6, <1>7

-------------------------------------------------------------------------------
(* What the requests do at the server *)

Subscriptions == Seq([node : Nodes, state : {"subscribed", "pending"}, id : 1 .. MaxIds])

\* A node that is created or configured changes nothing else.
LEMMA WithNodeIs ==
  ASSUME NEW s, IsServer(s), NEW n \in Nodes, NEW node, IsNode(node)
  PROVE  LET w == WithNode(s, n, node) IN
         /\ IsServer(w) /\ DOMAIN w.nodes = DOMAIN s.nodes \cup {n} /\ w.nodes[n] = node
         /\ \A m \in DOMAIN s.nodes : m # n => w.nodes[m] = s.nodes[m]
         /\ w.subscriptions = s.subscriptions
<1> DEFINE w == WithNode(s, n, node)
           f == [m \in DOMAIN s.nodes \cup {n} |-> IF m = n THEN node ELSE s.nodes[m]]
<1>1. s = [nodes |-> s.nodes, subscriptions |-> s.subscriptions] /\ s.subscriptions \in Subscriptions
  BY DEF IsServer, Subscriptions
<1>2. w = [nodes |-> f, subscriptions |-> s.subscriptions]
  BY <1>1 DEF WithNode
<1> HIDE DEF w
<1>3. w.nodes = f /\ w.subscriptions = s.subscriptions
  BY <1>2
<1>4. /\ DOMAIN f = DOMAIN s.nodes \cup {n} /\ f[n] = node
      /\ \A m \in DOMAIN s.nodes : m # n => f[m] = s.nodes[m]
  OBVIOUS
<1>5. f \in [DOMAIN f -> {f[m] : m \in DOMAIN f}]
  OBVIOUS
<1> HIDE DEF f
<1>6. w \in [nodes : {f}, subscriptions : Subscriptions]
  BY <1>1, <1>2
<1>7. IsServer(w)
  BY <1>3, <1>4, <1>5, <1>6 DEF IsServer, Subscriptions
<1> QED
  BY <1>3, <1>4, <1>7 DEF w

LEMMA NewNodeIs ==
  ASSUME NEW type \in {"leaf", "collection"}
  PROVE  /\ IsNode(NewNode(type)) /\ NewNode(type).type = type
         /\ NewNode(type).children = <<>> /\ NewNode(type).parents = <<>>
  BY DEF IsNode, NewNode

\* The parents of a node are read off its configuration as they are.
LEMMA FormGivesParents ==
  ASSUME NEW s, IsServer(s), NEW n \in DOMAIN s.nodes
  PROVE  ParentsOfForm(Form(s, n)) = s.nodes[n].parents
<1> DEFINE form == Form(s, n)
           parents == s.nodes[n].parents
<1>1. parents \in Seq(Nodes)
  BY DEF IsServer, IsNode
<1>2. /\ Len(form) = 3
      /\ form[1].var # "collection" /\ form[2].var = "collection" /\ form[3].var # "collection"
      /\ form[3].typed /\ form[2].values = parents
  BY DEF Form
<1> HIDE DEF form, parents
<1> DEFINE Eq(g) == g = [i \in 0..Len(form) |->
                           i # 0 /\ (form[i].var = "collection" \/ (g[i-1] /\ ~form[i].typed))]
           on == CHOOSE g : Eq(g)
           EqR(g) == g = [i \in 0..Len(form) |->
                            IF i = 0 THEN <<>>
                            ELSE IF on[i] THEN g[i-1] \o form[i].values ELSE g[i-1]]
           read == CHOOSE g : EqR(g)
<1>3. 0..3 = {0, 1, 2, 3}
  OBVIOUS
<1>4. Eq(on)
  <2> DEFINE h == [i \in 0..3 |-> IF i = 2 THEN TRUE ELSE FALSE]
  <2>1. h[0] = FALSE /\ h[1] = FALSE /\ h[2] = TRUE /\ h[3] = FALSE /\ DOMAIN h = 0..3
    BY <1>3
  <2> DEFINE StepOk(i) == h[i] = (i # 0 /\ (form[i].var = "collection"
                                            \/ (h[i-1] /\ ~form[i].typed)))
  <2>a. 1 - 1 = 0 /\ 2 - 1 = 1 /\ 3 - 1 = 2 /\ 1 # 0 /\ 2 # 0 /\ 3 # 0
    OBVIOUS
  <2> HIDE DEF h
  <2>b. StepOk(0)
    BY <2>1, Zenon
  <2>c. StepOk(1)
    BY <1>2, <2>1, <2>a, Zenon
  <2>d. StepOk(2)
    BY <1>2, <2>1, <2>a, Zenon
  <2>e. StepOk(3)
    BY <1>2, <2>1, <2>a, Zenon
  <2>2. \A i \in 0..3 : StepOk(i)
    BY <1>3, <2>b, <2>c, <2>d, <2>e, Zenon
  <2> USE DEF h
  <2>3. Eq(h)
    BY <1>2, <2>2
  <2> QED
    BY <2>3
<1> HIDE DEF on
<1>5. on[0] = FALSE /\ on[1] = FALSE /\ on[2] = TRUE /\ on[3] = FALSE
  <2>1. \A i \in 0..3 : on[i] = (i # 0 /\ (form[i].var = "collection" \/ (on[i-1] /\ ~form[i].typed)))
    BY <1>2, <1>4
  <2>2. on[0] = FALSE
    BY <1>3, <2>1
  <2>3. on[1] = FALSE
    BY <1>2, <1>3, <2>1, <2>2
  <2>4. on[2] = TRUE
    <3>1. on[2] = (2 # 0 /\ (form[2].var = "collection" \/ (on[2-1] /\ ~form[2].typed)))
      BY <1>3, <2>1
    <3>2. 2 # 0
      OBVIOUS
    <3> QED
      BY <1>2, <3>1, <3>2, Zenon
  <2>5. on[3] = FALSE
    BY <1>2, <1>3, <2>1
  <2> QED
    BY <2>2, <2>3, <2>4, <2>5
<1>6. <<>> \o parents = parents
  BY <1>1
<1>7. EqR(read)
  <2> DEFINE h == [i \in 0..3 |-> IF i \in {0, 1} THEN <<>> ELSE parents]
  <2>1. h[0] = <<>> /\ h[1] = <<>> /\ h[2] = parents /\ h[3] = parents /\ DOMAIN h = 0..3
    BY <1>3
  <2> DEFINE StepOk(i) == h[i] = IF i = 0 THEN <<>>
                               ELSE IF on[i] THEN h[i-1] \o form[i].values ELSE h[i-1]
  <2>a. 1 - 1 = 0 /\ 2 - 1 = 1 /\ 3 - 1 = 2
    OBVIOUS
  <2> HIDE DEF h
  <2>b. StepOk(0)
    BY <2>1
  <2>c. StepOk(1)
    BY <1>5, <2>1, <2>a
  <2>d. StepOk(2)
    BY <1>2, <1>5, <1>6, <2>1, <2>a
  <2>e. StepOk(3)
    BY <1>5, <2>1, <2>a
  <2>2. \A i \in 0..3 : StepOk(i)
    BY <1>3, <2>b, <2>c, <2>d, <2>e
  <2> USE DEF h
  <2>3. EqR(h)
    BY <1>2, <2>2
  <2> QED
    BY <2>3
<1> HIDE DEF read
<1>8. read[3] = parents
  <2>1. \A i \in 0..3 : read[i] = IF i = 0 THEN <<>>
                                  ELSE IF on[i] THEN read[i-1] \o form[i].values ELSE read[i-1]
    BY <1>2, <1>7
  <2>2. read[0] = <<>>
    BY <1>3, <2>1
  <2>3. read[1] = <<>>
    BY <1>3, <1>5, <2>1, <2>2
  <2>4. read[2] = parents
    <3>1. 2 \in 0..3 /\ 2 # 0 /\ 2 - 1 = 1
      OBVIOUS
    <3>2. read[2] = read[1] \o form[2].values
      BY <1>5, <2>1, <3>1
    <3> QED
      BY <1>2, <1>6, <2>3, <3>2
  <2> QED
    BY <1>3, <1>5, <2>1, <2>4
<1>9. ParentsOfForm(form) = read[Len(form)]
  BY DEF ParentsOfForm, read, on
<1> QED
  BY <1>2, <1>8, <1>9 DEF form, parents

\* Some of the subscriptions, each of them as it was.
Fewer(new, old) ==
  /\ new \in Subscriptions
  /\ \A i \in DOMAIN new : \E j \in DOMAIN old : new[i] = old[j]
  /\ (\A i, j \in DOMAIN old : old[i].node = old[j].node => i = j)
       => \A i, j \in DOMAIN new : new[i].node = new[j].node => i = j

LEMMA KeptSubscriptions ==
  ASSUME NEW subs \in Subscriptions, NEW places
  PROVE  /\ Fewer(Kept(subs, places), subs)
         /\ \A i \in DOMAIN Kept(subs, places) : \E j \in places : Kept(subs, places)[i] = subs[j]
<1> DEFINE K == Kept(subs, places)
           N == Len(subs)
<1>1. N \in Nat /\ DOMAIN subs = 1..N
  BY DEF Subscriptions
<1>2. K \in Subscriptions /\ Picked(K, subs, places, N)
  BY KeptPicks DEF Subscriptions
<1> HIDE DEF K, N
<1>3. PICK at \in [DOMAIN K -> 1..N] :
        /\ \A m \in DOMAIN K : at[m] \in places /\ K[m] = subs[at[m]]
        /\ \A m, k \in DOMAIN K : at[m] = at[k] => m = k
        /\ \A i \in places \cap (1..N) : \E m \in DOMAIN K : at[m] = i
  BY <1>2 DEF Picked
<1>4. Fewer(K, subs)
  BY <1>1, <1>2, <1>3 DEF Fewer
<1> QED
  BY <1>3, <1>4 DEF K

LEMMA FewerStayNamedOnce ==
  ASSUME NEW s, NEW w, Fewer(w.subscriptions, s.subscriptions)
  PROVE  NamedOnce(s) => NamedOnce(w)
  BY DEF Fewer, NamedOnce

LEMMA UnsubscribedIs ==
  ASSUME NEW s, IsServer(s), NEW n, NEW id
  PROVE  LET w == Unsubscribed(s, n, id) IN
         /\ IsServer(w) /\ w.nodes = s.nodes
         /\ Fewer(w.subscriptions, s.subscriptions) /\ Matching(w, n, id) = {}
<1> DEFINE subs == s.subscriptions
           places == DOMAIN subs \ Matching(s, n, id)
           K == Kept(subs, places)
           w == Unsubscribed(s, n, id)
<1>1. s = [nodes |-> s.nodes, subscriptions |-> subs] /\ subs \in Subscriptions
  BY DEF IsServer, Subscriptions
<1>2. w = [nodes |-> s.nodes, subscriptions |-> K]
  BY <1>1 DEF Unsubscribed
<1>3. Fewer(K, subs) /\ \A i \in DOMAIN K : \E j \in places : K[i] = subs[j]
  BY <1>1, KeptSubscriptions
<1> HIDE DEF K, w
<1>4. w.nodes = s.nodes /\ w.subscriptions = K
  BY <1>2
<1>5. w \in [nodes : {w.nodes}, subscriptions : Subscriptions]
  BY <1>2, <1>3, <1>4 DEF Fewer
<1>6. IsServer(w)
  BY <1>4, <1>5 DEF IsServer, Subscriptions
<1>7. Matching(w, n, id) = {}
  BY <1>3, <1>4 DEF Matching
<1> QED
  BY <1>3, <1>4, <1>6, <1>7 DEF w

LEMMA DeletedIs ==
  ASSUME NEW s, IsServer(s), NEW n
  PROVE  LET w == Deleted(s, n) IN
         /\ IsServer(w) /\ DOMAIN w.nodes = DOMAIN s.nodes \ {n}
         /\ Fewer(w.subscriptions, s.subscriptions)
         /\ \A m \in DOMAIN w.nodes :
              /\ w.nodes[m].type = s.nodes[m].type
              /\ w.nodes[m].children = Without(s.nodes[m].children, n)
              /\ w.nodes[m].parents = Without(s.nodes[m].parents, n)
<1> DEFINE subs == s.subscriptions
           K == Kept(subs, DOMAIN subs \ Matching(s, n, None))
           w == Deleted(s, n)
           Less(node) == [node EXCEPT !.children = Without(@, n), !.parents = Without(@, n)]
           f == [m \in DOMAIN s.nodes \ {n} |-> Less(s.nodes[m])]
<1>1. subs \in Subscriptions
  BY DEF IsServer, Subscriptions
<1>2. w = [nodes |-> f, subscriptions |-> K]
  BY DEF Deleted
<1>3. Fewer(K, subs)
  BY <1>1, KeptSubscriptions
<1>4. ASSUME NEW node, IsNode(node)
      PROVE  /\ IsNode(Less(node)) /\ Less(node).type = node.type
             /\ Less(node).children = Without(node.children, n)
             /\ Less(node).parents = Without(node.parents, n)
  <2>1. Without(node.children, n) \in Seq(Nodes) /\ Without(node.parents, n) \in Seq(Nodes)
    BY <1>4, WithoutFacts DEF IsNode
  <2> QED
    BY <1>4, <2>1 DEF IsNode
<1> HIDE DEF w, K, Less
<1>5. DOMAIN f = DOMAIN s.nodes \ {n} /\ f \in [DOMAIN f -> {f[m] : m \in DOMAIN f}]
  OBVIOUS
<1>6. \A m \in DOMAIN f : f[m] = Less(s.nodes[m]) /\ IsNode(s.nodes[m]) /\ m \in Nodes
  BY DEF IsServer
<1> HIDE DEF f
<1>7. w.nodes = f /\ w.subscriptions = K
  BY <1>2
<1>8. w \in [nodes : {f}, subscriptions : Subscriptions]
  BY <1>2, <1>3 DEF Fewer
<1>9. \A m \in DOMAIN f : /\ IsNode(f[m]) /\ f[m].type = s.nodes[m].type
                          /\ f[m].children = Without(s.nodes[m].children, n)
                          /\ f[m].parents = Without(s.nodes[m].parents, n)
  BY <1>4, <1>6
<1>10. IsServer(w)
  BY <1>5, <1>6, <1>7, <1>8, <1>9 DEF IsServer, Subscriptions
<1> QED
  BY <1>3, <1>5, <1>7, <1>9, <1>10 DEF w

\* A server stays as good as it was: its lists have everything once, its links
\* two ends, and a node is among its subscriptions once.
AsGood(s, w) ==
  /\ IsServer(w)
  /\ EachOnce(s) => EachOnce(w)
  /\ Linked(s, {}) => Linked(w, {})
  /\ NamedOnce(s) => NamedOnce(w)

LEMMA EmptyList == <<>> \in Seq(Nodes) /\ IsInjective(<<>>) /\ Range(<<>>) = {}
<1>1. DOMAIN <<>> = {}
  OBVIOUS
<1> QED
  BY <1>1 DEF IsInjective, Range

LEMMA CreatedIsAsGood ==
  ASSUME NEW s, IsServer(s), NEW n \in Nodes, n \notin DOMAIN s.nodes,
         NEW type \in {"leaf", "collection"}
  PROVE  AsGood(s, WithNode(s, n, NewNode(type)))
<1> DEFINE w == WithNode(s, n, NewNode(type))
<1>1. /\ IsServer(w) /\ DOMAIN w.nodes = DOMAIN s.nodes \cup {n} /\ w.nodes[n] = NewNode(type)
      /\ \A m \in DOMAIN s.nodes : w.nodes[m] = s.nodes[m]
      /\ w.subscriptions = s.subscriptions
  BY WithNodeIs, NewNodeIs
<1> HIDE DEF w
<1>2. Range(w.nodes[n].children) = {} /\ Range(w.nodes[n].parents) = {}
  BY <1>1, NewNodeIs, EmptyList
<1>3. EachOnce(s) => EachOnce(w)
  BY <1>1, NewNodeIs, EmptyList DEF EachOnce
<1>4. NamedOnce(s) => NamedOnce(w)
  BY <1>1 DEF NamedOnce
<1>5. ASSUME Linked(s, {}) PROVE Linked(w, {})
  <2>1. \A p \in DOMAIN s.nodes : s.nodes[p].type = "collection" =>
          n \notin Range(s.nodes[p].children)
    BY <1>5 DEF Linked
  <2>2. \A c \in DOMAIN s.nodes : n \notin Range(s.nodes[c].parents)
    BY <1>5 DEF Linked
  <2>3. ASSUME NEW p \in DOMAIN w.nodes, NEW c \in Nodes, w.nodes[p].type = "collection"
        PROVE  c \in Range(w.nodes[p].children)
                 <=> c \in DOMAIN w.nodes /\ p \in Range(w.nodes[c].parents)
    <3>1. CASE p = n
      BY <1>1, <1>2, <2>2, <3>1
    <3>2. CASE p # n
      <4>1. p \in DOMAIN s.nodes /\ s.nodes[p].type = "collection" /\ w.nodes[p] = s.nodes[p]
        BY <1>1, <2>3, <3>2
      <4>2. CASE c = n
        BY <1>1, <1>2, <2>1, <4>1, <4>2
      <4>3. CASE c # n
        BY <1>1, <1>5, <4>1, <4>3 DEF Linked
      <4> QED
        BY <4>2, <4>3
    <3> QED
      BY <3>1, <3>2
  <2>4. \A c \in DOMAIN w.nodes : Range(w.nodes[c].parents) \subseteq DOMAIN w.nodes
    BY <1>1, <1>2, <1>5 DEF Linked
  <2> QED
    BY <2>3, <2>4 DEF Linked
<1> QED
  BY <1>1, <1>3, <1>4, <1>5 DEF AsGood, w

LEMMA DeletedIsAsGood ==
  ASSUME NEW s, IsServer(s), NEW n
  PROVE  AsGood(s, Deleted(s, n))
<1> DEFINE w == Deleted(s, n)
<1>1. /\ IsServer(w) /\ DOMAIN w.nodes = DOMAIN s.nodes \ {n}
      /\ Fewer(w.subscriptions, s.subscriptions)
      /\ \A m \in DOMAIN w.nodes :
              /\ w.nodes[m].type = s.nodes[m].type
              /\ w.nodes[m].children = Without(s.nodes[m].children, n)
              /\ w.nodes[m].parents = Without(s.nodes[m].parents, n)
  BY DeletedIs
<1> HIDE DEF w
<1>2. \A m \in DOMAIN w.nodes :
        /\ Range(w.nodes[m].children) = Range(s.nodes[m].children) \ {n}
        /\ Range(w.nodes[m].parents) = Range(s.nodes[m].parents) \ {n}
        /\ IsInjective(s.nodes[m].children) => IsInjective(w.nodes[m].children)
        /\ IsInjective(s.nodes[m].parents) => IsInjective(w.nodes[m].parents)
  <2> SUFFICES ASSUME NEW m \in DOMAIN w.nodes
               PROVE  /\ Range(w.nodes[m].children) = Range(s.nodes[m].children) \ {n}
                      /\ Range(w.nodes[m].parents) = Range(s.nodes[m].parents) \ {n}
                      /\ IsInjective(s.nodes[m].children) => IsInjective(w.nodes[m].children)
                      /\ IsInjective(s.nodes[m].parents) => IsInjective(w.nodes[m].parents)
    OBVIOUS
  <2>1. s.nodes[m].children \in Seq(Nodes) /\ s.nodes[m].parents \in Seq(Nodes)
    BY <1>1 DEF IsServer, IsNode
  <2> QED
    BY <1>1, <2>1, WithoutFacts
<1>3. EachOnce(s) => EachOnce(w)
  BY <1>1, <1>2 DEF EachOnce
<1>4. NamedOnce(s) => NamedOnce(w)
  BY <1>1, FewerStayNamedOnce
<1>5. ASSUME Linked(s, {}) PROVE Linked(w, {})
  <2>1. ASSUME NEW p \in DOMAIN w.nodes, NEW c \in Nodes, w.nodes[p].type = "collection"
        PROVE  c \in Range(w.nodes[p].children)
                 <=> c \in DOMAIN w.nodes /\ p \in Range(w.nodes[c].parents)
    <3>1. p \in DOMAIN s.nodes /\ p # n /\ s.nodes[p].type = "collection"
      BY <1>1, <2>1
    <3>2. c \in Range(s.nodes[p].children)
            <=> c \in DOMAIN s.nodes /\ p \in Range(s.nodes[c].parents)
      BY <1>5, <3>1 DEF Linked
    <3>3. CASE c = n
      BY <1>1, <1>2, <3>3
    <3>4. CASE c # n
      BY <1>1, <1>2, <3>1, <3>2, <3>4
    <3> QED
      BY <3>3, <3>4
  <2>2. \A c \in DOMAIN w.nodes : Range(w.nodes[c].parents) \subseteq DOMAIN w.nodes
    BY <1>1, <1>2, <1>5 DEF Linked
  <2> QED
    BY <2>1, <2>2 DEF Linked
<1> QED
  BY <1>1, <1>3, <1>4, <1>5 DEF AsGood, w

\* A node that is written again with the lists it had leaves the server as good.
LEMMA SameListsAreAsGood ==
  ASSUME NEW s, IsServer(s), NEW n \in DOMAIN s.nodes, NEW node, IsNode(node),
         node.type = s.nodes[n].type, node.children = s.nodes[n].children,
         node.parents = s.nodes[n].parents
  PROVE  AsGood(s, WithNode(s, n, node))
<1> DEFINE w == WithNode(s, n, node)
<1>1. /\ IsServer(w) /\ DOMAIN w.nodes = DOMAIN s.nodes
      /\ w.nodes[n] = node /\ \A m \in DOMAIN s.nodes : m # n => w.nodes[m] = s.nodes[m]
      /\ w.subscriptions = s.subscriptions
  <2>1. n \in Nodes /\ DOMAIN s.nodes \cup {n} = DOMAIN s.nodes
    BY DEF IsServer
  <2>2. /\ IsServer(w) /\ DOMAIN w.nodes = DOMAIN s.nodes \cup {n} /\ w.nodes[n] = node
        /\ \A m \in DOMAIN s.nodes : m # n => w.nodes[m] = s.nodes[m]
        /\ w.subscriptions = s.subscriptions
    BY <2>1, WithNodeIs
  <2> QED
    BY <2>1, <2>2
<1> HIDE DEF w
<1>2. \A m \in DOMAIN s.nodes : /\ w.nodes[m].type = s.nodes[m].type
                                /\ w.nodes[m].children = s.nodes[m].children
                                /\ w.nodes[m].parents = s.nodes[m].parents
  BY <1>1
<1>3. EachOnce(s) => EachOnce(w)
  BY <1>1, <1>2 DEF EachOnce
<1>4. NamedOnce(s) => NamedOnce(w)
  BY <1>1 DEF NamedOnce
<1>5. Linked(s, {}) => Linked(w, {})
  BY <1>1, <1>2 DEF Linked
<1> QED
  BY <1>1, <1>3, <1>4, <1>5 DEF AsGood, w

\* What the affiliation of an address is changed to is what it is.
LEMMA AffiliationSetIs ==
  ASSUME NEW s, IsServer(s), NEW n \in DOMAIN s.nodes, NEW jid, NEW affiliation
  PROVE  LET w == AffiliationSet(s, n, jid, affiliation) IN
         AsGood(s, w) /\ w.nodes[n].affiliations[jid] = affiliation
<1> DEFINE old == s.nodes[n].affiliations
           new == [j \in DOMAIN old \cup {jid} |-> IF j = jid THEN affiliation ELSE old[j]]
           node == [s.nodes[n] EXCEPT !.affiliations = new]
<1>1. IsNode(s.nodes[n]) /\ n \in Nodes
  BY DEF IsServer
<1>2. new[jid] = affiliation
  OBVIOUS
<1> HIDE DEF new
<1>3. /\ IsNode(node) /\ node.type = s.nodes[n].type /\ node.children = s.nodes[n].children
      /\ node.parents = s.nodes[n].parents /\ node.affiliations = new
  BY <1>1 DEF IsNode
<1>4. AffiliationSet(s, n, jid, affiliation) = WithNode(s, n, node)
  BY DEF AffiliationSet, new
<1> HIDE DEF node
<1>5. AsGood(s, WithNode(s, n, node)) /\ WithNode(s, n, node).nodes[n] = node
  BY <1>1, <1>3, SameListsAreAsGood, WithNodeIs
<1> QED
  BY <1>2, <1>3, <1>4, <1>5

Single == CallTypes \ {"child_add", "child_remove", "subscribe"}

\* A request that is carried out leaves the server as good as it was.
LEMMA CarriedIsAsGood ==
  ASSUME NEW s, IsServer(s), NEW k, k.type \in Single, Accepts(s, k),
         k.node \in Nodes \/ (k.node = None /\ k.type \in Queries)
  PROVE  AsGood(s, Carried(s, k))
<1>1. CASE k.type = "create"
  <2>1. k.node \in Nodes /\ k.node \notin DOMAIN s.nodes /\ Carried(s, k) = Created(s, k.node)
    BY <1>1 DEF Accepts, Carried, Exists, Queries
  <2> QED
    BY <2>1, CreatedIsAsGood DEF Created
<1>2. CASE k.type = "collection_create"
  <2>1. k.node \in Nodes /\ k.node \notin DOMAIN s.nodes
        /\ Carried(s, k) = CollectionCreated(s, k.node)
    BY <1>2 DEF Accepts, Carried, Exists, Queries
  <2> QED
    BY <2>1, CreatedIsAsGood DEF CollectionCreated
<1>3. CASE k.type = "delete"
  <2>1. Carried(s, k) = Deleted(s, k.node)
    BY <1>3 DEF Carried
  <2> QED
    BY <2>1, DeletedIsAsGood
<1>4. CASE k.type = "affiliation_set"
  <2>1. k.node \in DOMAIN s.nodes
        /\ Carried(s, k) = AffiliationSet(s, k.node, k.jid, k.affiliation)
    BY <1>4 DEF Accepts, Carried, Owned, Exists
  <2> QED
    BY <2>1, AffiliationSetIs
<1>5. CASE k.type = "unsubscribe"
  <2>1. Carried(s, k) = Unsubscribed(s, k.node, k.id)
    BY <1>5 DEF Carried
  <2>2. /\ IsServer(Carried(s, k)) /\ Carried(s, k).nodes = s.nodes
        /\ Fewer(Carried(s, k).subscriptions, s.subscriptions)
    BY <2>1, UnsubscribedIs
  <2>3. NamedOnce(s) => NamedOnce(Carried(s, k))
    BY <2>2, FewerStayNamedOnce
  <2> QED
    BY <2>2, <2>3 DEF AsGood, EachOnce, Linked
<1>6. CASE k.type \in Queries
  <2>1. Carried(s, k) = s
    BY <1>6 DEF Carried, Queries
  <2> QED
    BY <2>1 DEF AsGood
<1> QED
  BY <1>1, <1>2, <1>3, <1>4, <1>5, <1>6 DEF Single, CallTypes

-------------------------------------------------------------------------------
(* The threads *)

\* Of the additions that are under way there is at most one when the other
\* threads do nothing.
LEMMA HalfIs ==
  ASSUME NEW p, NEW k, NEW t \in Threads, \A u \in Threads : u # t => p[u] = "idle"
  PROVE  Half(p, k) = IF p[t] \in {"parents", "child"} THEN {<<k[t].parent, k[t].child>>} ELSE {}
  BY DEF Half

LEMMA CallsAre ==
  ASSUME StageInv, ShapeInv, NEW t \in Threads, pc[t] # "idle"
  PROVE  /\ call[t].type \in CallTypes
         /\ pc[t] = "send" => /\ call[t].type \in Single
                              /\ \/ call[t].node \in Nodes
                                 \/ (call[t].node = None /\ call[t].type \in Queries)
         /\ pc[t] \in {"children", "parent", "parents", "child"} =>
              call[t].child \in Nodes /\ call[t].parent \in Nodes
         /\ pc[t] \in {"subscriptions", "subscribe"} => call[t].node \in Nodes
<1>1. call[t] \in Calls[topic] /\ topic \in Topics
  BY DEF StageInv, ShapeInv
<1>2. /\ call[t].type \in CallTypes
      /\ IF call[t].type \in {"child_add", "child_remove"}
         THEN call[t].child \in Nodes /\ call[t].parent \in Nodes
         ELSE \/ call[t].node \in Nodes
              \/ call[t].node = None /\ call[t].type \in {"subscriptions_query", "affiliations_query"}
  BY <1>1, CallsAssumption
<1> HIDE DEF CallTypes
<1>3. /\ pc[t] = "send" => call[t].type \notin {"child_add", "child_remove", "subscribe"}
      /\ pc[t] \in {"children", "parent", "parents", "child"} => call[t].type = "child_add"
      /\ pc[t] \in {"subscriptions", "subscribe"} => call[t].type = "subscribe"
  BY DEF StageInv
<1> QED
  BY <1>2, <1>3 DEF Single, Queries

\* Whatever the answer, the response of a call has one of its types.
LEMMA HandledIs ==
  ASSUME NEW s, NEW k, NEW refused
  PROVE  Handled(s, k, refused).type \in {"ok", "error", "packet", "confused"}
<1>1. /\ Ok.type = "ok" /\ Error.type = "error" /\ Confused.type = "confused"
      /\ \A e : Packet(e).type = "packet"
  BY DEF Ok, Error, Confused, Packet
<1> QED
  BY <1>1 DEF Handled, HandlerChildrenQuery, HandlerParentsQuery, HandlerTypeQuery,
              HandlerSubscriptionsQuery, HandlerAffiliationsQuery, HandlerError

LEMMA TypesOfResponses ==
  /\ Ok.type = "ok" /\ Error.type = "error" /\ Unknown.type = "unknown"
  /\ \A state : SubscribeAnswer(state).type \in {"ok", "unknown"}
  BY DEF Ok, Error, Unknown, SubscribeAnswer

\* A step of thread t other than the beginning of a call.
Stays == {<<"children", "parent">>, <<"parent", "parents">>, <<"parents", "child">>,
          <<"subscriptions", "subscribe">>}
Moved(t) ==
  /\ UNCHANGED started /\ pc[t] # "idle"
  /\ pc'[t] \in {"idle", "undefined"} \/ <<pc[t], pc'[t]>> \in Stays
  /\ DOMAIN pc' = Threads /\ pc' = [u \in Threads |-> IF u = t THEN pc'[t] ELSE pc[u]]
  /\ \A u \in Threads : u # t => response'[u] = response[u] /\ list'[u] = list[u]
  /\ pc'[t] # "idle" => response'[t] = response[t]
  /\ response'[t].type \in {"unknown", "ok", "error", "packet", "confused"}
  /\ DOMAIN response' = Threads /\ DOMAIN list' = Threads /\ DOMAIN result' = Threads
  /\ DOMAIN fresh' = Threads /\ failed' \in BOOLEAN

LEMMA StepMoves ==
  ASSUME Control, NEW t \in Threads, Step(t), ~Begin(t)
  PROVE  Moved(t)
<1> DEFINE Types == {"unknown", "ok", "error", "packet", "confused"}
<1>0. /\ pc \in [Threads -> Stages] /\ ShapeInv /\ response[t].type \in Types
  BY DEF Control
<1>1. CASE Send(t)
  <2>1. \A refused : Handled(server, call[t], refused).type \in Types
    BY HandledIs
  <2> QED
    BY <1>0, <1>1, <2>1, ZenonT(60) DEF Moved, Send, Respond, Return, Change, Leave, ShapeInv, started
<1>2. CASE UnknownAffiliation(t)
  BY <1>0, <1>2 DEF Moved, UnknownAffiliation, Return, ShapeInv, started
<1>3. CASE ChildrenQuery(t)
  BY <1>0, <1>3 DEF Moved, ChildrenQuery, Goto, Keep, KeepNothing, ShapeInv, started, Stays
<1>4. CASE ConfigureParent(t)
  BY <1>0, <1>4 DEF Moved, ConfigureParent, Goto, Change, Leave, ShapeInv, started, Stays
<1>5. CASE ParentsQuery(t)
  BY <1>0, <1>5 DEF Moved, ParentsQuery, Goto, Keep, KeepNothing, ShapeInv, started, Stays
<1>6. CASE ConfigureChild(t)
  BY <1>0, <1>6, TypesOfResponses
     DEF Moved, ConfigureChild, Return, Respond, Change, Leave, ShapeInv, started
<1>7. CASE ChildRemove(t)
  BY <1>0, <1>7 DEF Moved, ChildRemove, Goto, ShapeInv, started
<1>8. CASE SubscriptionsQuery(t)
  BY <1>0, <1>8 DEF Moved, SubscriptionsQuery, Return, Goto, ShapeInv, started, Stays
<1>9. CASE Subscribe(t)
  <2>1. \A state : SubscribeAnswer(state).type \in Types
    BY TypesOfResponses
  <2>2. /\ \/ \E state : Respond(t, SubscribeAnswer(state))
           \/ Respond(t, Error) \/ UNCHANGED response
        /\ Return(t, "MIO_OK") \/ Return(t, "error")
        /\ UNCHANGED <<started, list>> /\ (failed' = failed \/ failed' = TRUE)
        /\ fresh' = [u \in Threads |-> FALSE] \/ UNCHANGED fresh
        /\ pc[t] = "subscribe"
    BY <1>9, Zenon DEF Subscribe, Change, Leave
  <2>3. /\ pc' = [pc EXCEPT ![t] = "idle"] /\ DOMAIN result' = Threads
        /\ DOMAIN fresh' = Threads /\ failed' \in BOOLEAN /\ UNCHANGED <<started, list>>
    BY <1>0, <2>2 DEF Return, ShapeInv
  <2>4. /\ DOMAIN response' = Threads /\ response'[t].type \in Types
        /\ \A u \in Threads : u # t => response'[u] = response[u]
    BY <1>0, <2>1, <2>2, TypesOfResponses DEF Respond, ShapeInv
  <2> QED
    BY <1>0, <2>2, <2>3, <2>4 DEF Moved, ShapeInv
<1> QED
  BY <1>1, <1>2, <1>3, <1>4, <1>5, <1>6, <1>7, <1>8, <1>9 DEF Step

LEMMA ControlStep ==
  ASSUME Control, NEW t \in Threads, Step(t)
  PROVE  Control'
<1> DEFINE Types == {"unknown", "ok", "error", "packet", "confused"}
<1> USE DEF Control
<1>1. CASE Begin(t)
  <2>1. PICK k \in Calls[topic] : /\ call' = [call EXCEPT ![t] = k]
                                  /\ pc' = [pc EXCEPT ![t] = First(k)]
    BY <1>1 DEF Begin
  <2>2. First(k) \in {"children", "remove", "subscriptions", "send"}
    BY DEF First
  <2>3. /\ pc' \in [Threads -> Stages] /\ ShapeInv'
        /\ pc'[t] = First(k) /\ call'[t] = k /\ response'[t] = Unknown
        /\ \A u \in Threads : u # t => /\ pc'[u] = pc[u] /\ call'[u] = call[u]
                                       /\ response'[u] = response[u]
    BY <1>1, <2>1, <2>2 DEF Begin, ShapeInv, Stages
  <2>4. calls' \in [Threads -> 0 .. MaxCalls]
    BY <1>1, BoundsAssumption DEF Begin
  <2>5. \A u \in Threads : response'[u].type \in Types
    BY <2>3, TypesOfResponses
  <2>6. /\ First(k) = "send" => k.type \notin {"child_add", "child_remove", "subscribe"}
        /\ First(k) = "children" => k.type = "child_add"
        /\ First(k) = "subscriptions" => k.type = "subscribe"
    BY DEF First
  <2>7. StageInv'
    BY <1>1, <2>2, <2>3, <2>6 DEF StageInv, Begin
  <2>8. AloneInv'
    BY <1>1, <2>3 DEF AloneInv, Begin, ShapeInv
  <2> QED
    BY <2>3, <2>4, <2>5, <2>7, <2>8
<1>2. CASE ~Begin(t)
  <2>1. Moved(t)
    BY <1>2, StepMoves
  <2>2. pc'[t] \in Stages
    BY <2>1 DEF Moved, Stays, Stages
  <2>3. /\ pc' \in [Threads -> Stages] /\ ShapeInv'
        /\ \A u \in Threads : u # t => pc'[u] = pc[u] /\ response'[u] = response[u]
    BY <2>1, <2>2 DEF ShapeInv, started, Moved
  <2>4. calls' \in [Threads -> 0 .. MaxCalls] /\ call' = call /\ topic' = topic
        /\ overlapped' = overlapped
    BY <2>1 DEF started, Moved
  <2>5. \A u \in Threads : response'[u].type \in Types
    BY <2>1, <2>3 DEF Moved
  <2>6. StageInv'
    <3>1. pc'[t] # "idle" => pc[t] # "idle" /\ response'[t] = response[t]
      BY <2>1 DEF Moved
    <3>2. /\ pc'[t] # "send"
          /\ pc'[t] \in {"children", "parent", "parents", "child"} =>
               pc[t] \in {"children", "parent", "parents", "child"}
          /\ pc'[t] \in {"subscriptions", "subscribe"} => pc[t] \in {"subscriptions", "subscribe"}
      BY <2>1 DEF Moved, Stays
    <3> QED
      BY <2>3, <2>4, <3>1, <3>2 DEF StageInv
  <2>7. AloneInv'
    BY <2>1, <2>3, <2>4 DEF AloneInv, Moved
  <2> QED
    BY <2>3, <2>4, <2>5, <2>6, <2>7
<1> QED
  BY <1>1, <1>2

\* While no calls overlap, the other threads rest before and after a step of t.
LEMMA OthersRest ==
  ASSUME Control, NEW t \in Threads, Moved(t), ~overlapped'
  PROVE  ~overlapped /\ \A u \in Threads : u # t => pc[u] = "idle" /\ pc'[u] = "idle"
<1>1. ~overlapped /\ pc[t] # "idle" /\ \A u \in Threads : u # t => pc'[u] = pc[u]
  BY DEF Moved, started
<1> QED
  BY <1>1 DEF Control, AloneInv

\* After a change of the server no list is fresh.
LEMMA ChangeEndsFreshness ==
  ASSUME FreshInv, NEW t \in Threads, Moved(t), fresh' = [u \in Threads |-> FALSE],
         pc'[t] \notin {"parent", "child"}
  PROVE  FreshInv'
<1>1. \A u \in Threads : u # t => pc'[u] = pc[u] /\ list'[u] = list[u]
  BY DEF Moved
<1>2. \A u \in Threads : ~fresh'[u]
  OBVIOUS
<1> QED
  BY <1>1, <1>2 DEF FreshInv

\* A call that ends, with the server as it was, leaves no link with one end,
\* unless something failed.
LEMMA EndKeepsKnowledge ==
  ASSUME Control, Knowledge, NEW t \in Threads, Moved(t), server' = server,
         pc'[t] \in {"idle", "undefined"},
         \A u \in Threads : u # t => fresh'[u] = fresh[u],
         failed' \/ (failed' = failed /\ pc[t] \notin {"parents", "child"})
  PROVE  Knowledge'
<1>1. IsServer(server') /\ EachOnce(server')
  BY DEF Knowledge
<1>2. call' = call /\ \A u \in Threads : u # t => pc'[u] = pc[u] /\ list'[u] = list[u]
  BY DEF Moved, started
<1>3. FreshInv'
  BY <1>2 DEF FreshInv, Knowledge
<1>4. LinkInv'
  <2> SUFFICES ASSUME ~failed', ~overlapped' PROVE LinkInv'
    BY DEF LinkInv
  <2>1. ~overlapped /\ \A u \in Threads : u # t => pc[u] = "idle" /\ pc'[u] = "idle"
    BY OthersRest
  <2>2. Half(pc, call) = {} /\ Half(pc', call') = {}
    BY <2>1, HalfIs
  <2>3. Linked(server, Half(pc, call))
    BY <2>1 DEF LinkInv, Knowledge
  <2>4. \A u \in Threads : pc'[u] \notin {"parent", "parents", "child"}
    BY <2>1
  <2> QED
    BY <2>2, <2>3, <2>4 DEF LinkInv
<1>5. SubscribeInv'
  <2> SUFFICES ASSUME ~overlapped' PROVE SubscribeInv'
    BY DEF SubscribeInv
  <2>1. ~overlapped /\ \A u \in Threads : pc'[u] # "subscribe"
    BY OthersRest
  <2> QED
    BY <2>1 DEF SubscribeInv, Knowledge
<1> QED
  BY <1>1, <1>3, <1>4, <1>5 DEF Knowledge

LEMMA BeginKeepsKnowledge ==
  ASSUME Control, Knowledge, NEW t \in Threads, Begin(t)
  PROVE  Knowledge'
<1>1. PICK k \in Calls[topic] : /\ call' = [call EXCEPT ![t] = k]
                                /\ pc' = [pc EXCEPT ![t] = First(k)]
  BY DEF Begin
<1>2. First(k) \in {"children", "remove", "subscriptions", "send"}
  BY DEF First
<1>3. /\ pc'[t] = First(k) /\ pc[t] = "idle" /\ server' = server /\ fresh' = fresh
      /\ failed' = failed
      /\ \A u \in Threads : u # t => pc'[u] = pc[u] /\ list'[u] = list[u] /\ call'[u] = call[u]
  BY <1>1 DEF Begin, Control, ShapeInv
<1>4. FreshInv'
  BY <1>2, <1>3 DEF FreshInv, Knowledge
<1>5. ASSUME ~overlapped'
      PROVE  ~overlapped /\ \A u \in Threads : pc[u] = "idle" /\ (u # t => pc'[u] = "idle")
  BY <1>3, <1>5 DEF Begin, Control, ShapeInv
<1>6. LinkInv'
  <2> SUFFICES ASSUME ~failed', ~overlapped' PROVE LinkInv'
    BY DEF LinkInv
  <2>1. Half(pc, call) = {} /\ Half(pc', call') = {}
    BY <1>2, <1>3, <1>5, HalfIs
  <2>2. Linked(server, Half(pc, call))
    BY <1>3, <1>5 DEF LinkInv, Knowledge
  <2>3. \A u \in Threads : pc'[u] \notin {"parent", "parents", "child"}
    BY <1>2, <1>3, <1>5
  <2> QED
    BY <1>3, <2>1, <2>2, <2>3 DEF LinkInv
<1>7. SubscribeInv'
  BY <1>2, <1>3, <1>5 DEF SubscribeInv, Knowledge
<1> QED
  BY <1>3, <1>4, <1>6, <1>7 DEF Knowledge

LEMMA SendKeepsKnowledge ==
  ASSUME Control, Knowledge, NEW t \in Threads, Send(t)
  PROVE  Knowledge'
<1>1. Moved(t)
  BY StepMoves DEF Step, Send, Begin
<1>2. CASE Leave /\ failed' = TRUE /\ pc' = [pc EXCEPT ![t] = "idle"]
  BY <1>1, <1>2, EndKeepsKnowledge DEF Leave, Control
<1>3. CASE /\ Accepts(server, call[t]) /\ Change(Carried(server, call[t]))
           /\ pc' = [pc EXCEPT ![t] = "idle"]
           /\ failed' = failed \/ failed' = TRUE
  <2> DEFINE s == server
             w == Carried(server, call[t])
  <2>1. /\ call[t].type \in Single
        /\ call[t].node \in Nodes \/ (call[t].node = None /\ call[t].type \in Queries)
        /\ pc[t] = "send"
    <3>1. pc[t] = "send" /\ pc[t] # "idle" /\ StageInv /\ ShapeInv
      BY DEF Send, Control
    <3>2. pc[t] = "send" => /\ call[t].type \in Single
                            /\ \/ call[t].node \in Nodes
                               \/ (call[t].node = None /\ call[t].type \in Queries)
      BY <3>1, CallsAre, Zenon
    <3> QED
      BY <3>1, <3>2, Zenon
  <2>2. AsGood(s, w)
    BY <1>3, <2>1, CarriedIsAsGood DEF Knowledge
  <2>3. server' = w /\ fresh' = [u \in Threads |-> FALSE] /\ pc'[t] = "idle"
    BY <1>3 DEF Change, Control
  <2> HIDE DEF w
  <2>4. IsServer(server') /\ EachOnce(server')
    BY <2>2, <2>3 DEF AsGood, Knowledge
  <2>5. FreshInv'
    BY <1>1, <2>3, ChangeEndsFreshness DEF Knowledge
  <2>6. ASSUME ~overlapped'
        PROVE  /\ ~overlapped /\ \A u \in Threads : pc'[u] = "idle"
               /\ Half(pc, call) = {} /\ Half(pc', call') = {}
    <3>1. ~overlapped /\ \A u \in Threads : u # t => pc[u] = "idle" /\ pc'[u] = "idle"
      BY <1>1, <2>6, OthersRest
    <3> QED
      BY <2>1, <2>3, <3>1, HalfIs
  <2>7. LinkInv'
    <3> SUFFICES ASSUME ~failed', ~overlapped' PROVE LinkInv'
      BY DEF LinkInv
    <3>1. ~failed
      BY <1>3
    <3>2. Linked(server, {})
      BY <2>6, <3>1 DEF LinkInv, Knowledge
    <3>3. Linked(server', {})
      BY <2>2, <2>3, <3>2 DEF AsGood
    <3>4. \A u \in Threads : pc'[u] \notin {"parent", "parents", "child"}
      BY <2>6
    <3> QED
      BY <2>6, <3>3, <3>4 DEF LinkInv
  <2>8. SubscribeInv'
    BY <2>2, <2>3, <2>6 DEF SubscribeInv, Knowledge, AsGood
  <2> QED
    BY <2>4, <2>5, <2>7, <2>8 DEF Knowledge
<1> QED
  BY <1>2, <1>3 DEF Send, Return

\* A step of an addition that leaves the server as it was.
LEMMA QueryKeepsKnowledge ==
  ASSUME Control, Knowledge, NEW t \in Threads, Moved(t), server' = server,
         pc'[t] \in {"parent", "parents", "child"},
         \A u \in Threads : u # t => fresh'[u] = fresh[u],
         pc'[t] = "parent" =>
           /\ list'[t] \in Seq(Nodes \cup {None})
           /\ fresh'[t] => /\ call[t].parent \in DOMAIN server.nodes
                           /\ list'[t] = ChildrenOf(server, call[t].parent),
         pc'[t] = "child" =>
           /\ list'[t] \in Seq(Nodes)
           /\ fresh'[t] => /\ call[t].child \in DOMAIN server.nodes
                           /\ list'[t] = server.nodes[call[t].child].parents,
         failed' \/ /\ failed' = failed
                    /\ pc'[t] \in {"parent", "child"} => fresh'[t]
                    /\ pc'[t] \in {"parents", "child"} <=> pc[t] \in {"parents", "child"}
  PROVE  Knowledge'
<1>1. IsServer(server') /\ EachOnce(server')
  BY DEF Knowledge
<1>2. call' = call /\ \A u \in Threads : u # t => pc'[u] = pc[u] /\ list'[u] = list[u]
  BY DEF Moved, started
<1>3. FreshInv'
  BY <1>2 DEF FreshInv, Knowledge
<1>4. LinkInv'
  <2> SUFFICES ASSUME ~failed', ~overlapped' PROVE LinkInv'
    BY DEF LinkInv
  <2>1. ~overlapped /\ \A u \in Threads : u # t => pc[u] = "idle" /\ pc'[u] = "idle"
    BY OthersRest
  <2>2. ~failed /\ (pc'[t] \in {"parent", "child"} => fresh'[t])
        /\ (pc'[t] \in {"parents", "child"} <=> pc[t] \in {"parents", "child"})
    OBVIOUS
  <2>3. Half(pc', call') = Half(pc, call)
    <3>1. Half(pc, call) = IF pc[t] \in {"parents", "child"}
                           THEN {<<call[t].parent, call[t].child>>} ELSE {}
      BY <2>1, HalfIs
    <3>2. Half(pc', call) = IF pc'[t] \in {"parents", "child"}
                            THEN {<<call[t].parent, call[t].child>>} ELSE {}
      BY <2>1, HalfIs
    <3> QED
      BY <1>2, <2>2, <3>1, <3>2
  <2>4. /\ Linked(server, Half(pc, call))
        /\ pc[t] \in {"parents", "child"} =>
              /\ call[t].parent \in DOMAIN server.nodes
              /\ server.nodes[call[t].parent].type = "collection" =>
                   call[t].child \in Range(server.nodes[call[t].parent].children)
    BY <2>1, <2>2 DEF LinkInv, Knowledge
  <2> QED
    BY <1>2, <2>1, <2>2, <2>3, <2>4 DEF LinkInv
<1>5. SubscribeInv'
  <2> SUFFICES ASSUME ~overlapped' PROVE SubscribeInv'
    BY DEF SubscribeInv
  <2>1. ~overlapped /\ \A u \in Threads : pc'[u] # "subscribe"
    BY OthersRest
  <2> QED
    BY <2>1 DEF SubscribeInv, Knowledge
<1> QED
  BY <1>1, <1>3, <1>4, <1>5 DEF Knowledge

LEMMA ChildrenAreEntries ==
  ASSUME NEW s, IsServer(s), NEW n \in DOMAIN s.nodes
  PROVE  ChildrenOf(s, n) \in Seq(Nodes \cup {None})
<1>1. s.nodes[n].items \in Nat /\ s.nodes[n].children \in Seq(Nodes)
  BY DEF IsServer, IsNode
<1>2. [i \in 1 .. s.nodes[n].items |-> None] \in Seq(Nodes \cup {None})
  BY <1>1
<1>3. s.nodes[n].children \in Seq(Nodes \cup {None})
  BY <1>1
<1> QED
  BY <1>2, <1>3 DEF ChildrenOf

LEMMA ChildrenQueryKeepsKnowledge ==
  ASSUME Control, Knowledge, NEW t \in Threads, ChildrenQuery(t)
  PROVE  Knowledge'
<1>1. Moved(t)
  BY StepMoves DEF Step, ChildrenQuery, Begin
<1>0. /\ pc \in [Threads -> Stages] /\ DOMAIN list = Threads /\ DOMAIN fresh = Threads
      /\ server' = server /\ pc[t] = "children"
  BY DEF Control, ShapeInv, ChildrenQuery
<1>2. CASE /\ call[t].parent \in DOMAIN server.nodes /\ Goto(t, "parent")
           /\ Keep(t, ChildrenOf(server, call[t].parent))
  <2>1. /\ pc'[t] = "parent" /\ list'[t] = ChildrenOf(server, call[t].parent)
        /\ failed' = failed /\ fresh'[t] /\ \A u \in Threads : u # t => fresh'[u] = fresh[u]
    BY <1>0, <1>2 DEF Goto, Keep
  <2>2. list'[t] \in Seq(Nodes \cup {None})
    BY <1>2, <2>1, ChildrenAreEntries DEF Knowledge
  <2> QED
    BY <1>0, <1>1, <1>2, <2>1, <2>2, QueryKeepsKnowledge
<1>3. CASE Goto(t, "parent") /\ KeepNothing(t)
  <2>1. /\ pc'[t] = "parent" /\ list'[t] = <<>> /\ failed'
        /\ ~fresh'[t] /\ \A u \in Threads : u # t => fresh'[u] = fresh[u]
    BY <1>0, <1>3 DEF Goto, KeepNothing
  <2>2. <<>> \in Seq(Nodes \cup {None})
    OBVIOUS
  <2> QED
    BY <1>0, <1>1, <2>1, <2>2, QueryKeepsKnowledge
<1>4. CASE Goto(t, "undefined") /\ KeepNothing(t)
  <2>1. /\ pc'[t] = "undefined" /\ failed' /\ \A u \in Threads : u # t => fresh'[u] = fresh[u]
    BY <1>0, <1>4 DEF Goto, KeepNothing
  <2> QED
    BY <1>0, <1>1, <2>1, EndKeepsKnowledge
<1> QED
  BY <1>2, <1>3, <1>4 DEF ChildrenQuery, Exists

LEMMA ParentsQueryKeepsKnowledge ==
  ASSUME Control, Knowledge, NEW t \in Threads, ParentsQuery(t)
  PROVE  Knowledge'
<1>1. Moved(t)
  BY StepMoves DEF Step, ParentsQuery, Begin
<1>0. /\ pc \in [Threads -> Stages] /\ DOMAIN list = Threads /\ DOMAIN fresh = Threads
      /\ server' = server /\ pc[t] = "parents"
  BY DEF Control, ShapeInv, ParentsQuery
<1>2. CASE /\ call[t].child \in DOMAIN server.nodes /\ Goto(t, "child")
           /\ Keep(t, ParentsOfForm(Form(server, call[t].child)))
  <2>1. /\ pc'[t] = "child" /\ list'[t] = ParentsOfForm(Form(server, call[t].child))
        /\ failed' = failed /\ fresh'[t] /\ \A u \in Threads : u # t => fresh'[u] = fresh[u]
    BY <1>0, <1>2 DEF Goto, Keep
  <2>2. list'[t] = server.nodes[call[t].child].parents
    BY <1>2, <2>1, FormGivesParents DEF Knowledge
  <2>3. list'[t] \in Seq(Nodes)
    BY <1>2, <2>2 DEF Knowledge, IsServer, IsNode
  <2> QED
    BY <1>0, <1>1, <1>2, <2>1, <2>2, <2>3, QueryKeepsKnowledge
<1>3. CASE Goto(t, "child") /\ KeepNothing(t)
  <2>1. /\ pc'[t] = "child" /\ list'[t] = <<>> /\ failed'
        /\ ~fresh'[t] /\ \A u \in Threads : u # t => fresh'[u] = fresh[u]
    BY <1>0, <1>3 DEF Goto, KeepNothing
  <2>2. <<>> \in Seq(Nodes)
    OBVIOUS
  <2> QED
    BY <1>0, <1>1, <2>1, <2>2, QueryKeepsKnowledge
<1>4. CASE Goto(t, "undefined") /\ KeepNothing(t)
  <2>1. /\ pc'[t] = "undefined" /\ failed' /\ \A u \in Threads : u # t => fresh'[u] = fresh[u]
    BY <1>0, <1>4 DEF Goto, KeepNothing
  <2> QED
    BY <1>0, <1>1, <2>1, EndKeepsKnowledge
<1> QED
  BY <1>2, <1>3, <1>4 DEF ParentsQuery, Exists

\* The parent's end of a link is configured: only that link has one end.
LEMMA ParentIsConfigured ==
  ASSUME NEW s, IsServer(s), NEW p \in DOMAIN s.nodes, NEW c \in Nodes,
         NEW q \in Seq(Nodes), IsInjective(q), c \in Range(q)
  PROVE  LET w == WithNode(s, p, [s.nodes[p] EXCEPT !.children = q]) IN
         /\ IsServer(w) /\ DOMAIN w.nodes = DOMAIN s.nodes /\ w.subscriptions = s.subscriptions
         /\ EachOnce(s) => EachOnce(w)
         /\ w.nodes[p].children = q
         /\ \A n \in DOMAIN s.nodes : /\ w.nodes[n].type = s.nodes[n].type
                                      /\ w.nodes[n].parents = s.nodes[n].parents
                                      /\ n # p => w.nodes[n] = s.nodes[n]
         /\ (s.nodes[p].type = "collection" => Range(q) = Range(s.nodes[p].children) \cup {c})
              => (Linked(s, {}) => Linked(w, {<<p, c>>}))
<1> DEFINE node == [s.nodes[p] EXCEPT !.children = q]
           w == WithNode(s, p, node)
<1>1. /\ IsNode(node) /\ node.children = q /\ node.parents = s.nodes[p].parents
      /\ node.type = s.nodes[p].type /\ p \in Nodes
  <2>1. p \in Nodes
    BY DEF IsServer
  <2>2. IsNode(s.nodes[p])
    BY DEF IsServer
  <2>3. /\ IsNode(node) /\ node.children = q /\ node.parents = s.nodes[p].parents
        /\ node.type = s.nodes[p].type
    BY <2>2 DEF IsNode
  <2> QED
    BY <2>1, <2>3
<1> HIDE DEF node
<1>2. /\ IsServer(w) /\ DOMAIN w.nodes = DOMAIN s.nodes \cup {p} /\ w.nodes[p] = node
      /\ \A m \in DOMAIN s.nodes : m # p => w.nodes[m] = s.nodes[m]
      /\ w.subscriptions = s.subscriptions
  BY <1>1, WithNodeIs
<1> HIDE DEF w
<1>3. /\ DOMAIN w.nodes = DOMAIN s.nodes
      /\ \A n \in DOMAIN s.nodes : /\ w.nodes[n].type = s.nodes[n].type
                                   /\ w.nodes[n].parents = s.nodes[n].parents
                                   /\ n # p => w.nodes[n] = s.nodes[n]
  BY <1>1, <1>2
<1>4. EachOnce(s) => EachOnce(w)
  BY <1>1, <1>2, <1>3 DEF EachOnce
<1>5. ASSUME s.nodes[p].type = "collection" => Range(q) = Range(s.nodes[p].children) \cup {c},
             Linked(s, {})
      PROVE  Linked(w, {<<p, c>>})
  <2>1. ASSUME NEW a \in DOMAIN w.nodes, NEW b \in Nodes, w.nodes[a].type = "collection",
               <<a, b>> \notin {<<p, c>>}
        PROVE  b \in Range(w.nodes[a].children)
                 <=> b \in DOMAIN w.nodes /\ a \in Range(w.nodes[b].parents)
    <3>1. a \in DOMAIN s.nodes /\ s.nodes[a].type = "collection" /\ (a # p \/ b # c)
      BY <1>3, <2>1
    <3>2. b \in Range(s.nodes[a].children)
            <=> b \in DOMAIN s.nodes /\ a \in Range(s.nodes[b].parents)
      BY <1>5, <3>1 DEF Linked
    <3>3. b \in Range(w.nodes[a].children) <=> b \in Range(s.nodes[a].children)
      BY <1>1, <1>2, <1>3, <1>5, <3>1
    <3> QED
      BY <1>3, <3>2, <3>3
  <2>2. \A b \in DOMAIN w.nodes : Range(w.nodes[b].parents) \subseteq DOMAIN w.nodes
    BY <1>3, <1>5 DEF Linked
  <2> QED
    BY <2>1, <2>2 DEF Linked
<1> QED
  BY <1>1, <1>2, <1>3, <1>4, <1>5 DEF w, node

\* The child's end of a link is configured: all links have two ends.
LEMMA ChildIsConfigured ==
  ASSUME NEW s, IsServer(s), NEW c \in DOMAIN s.nodes, NEW p \in Nodes,
         NEW q \in Seq(Nodes), IsInjective(q)
  PROVE  LET w == WithNode(s, c, [s.nodes[c] EXCEPT !.parents = q]) IN
         /\ IsServer(w) /\ DOMAIN w.nodes = DOMAIN s.nodes /\ w.subscriptions = s.subscriptions
         /\ EachOnce(s) => EachOnce(w)
         /\ w.nodes[c].parents = q
         /\ \A n \in DOMAIN s.nodes : /\ w.nodes[n].type = s.nodes[n].type
                                      /\ w.nodes[n].children = s.nodes[n].children
                                      /\ n # c => w.nodes[n] = s.nodes[n]
         /\ /\ Range(q) = Range(s.nodes[c].parents) \cup {p} /\ p \in DOMAIN s.nodes
            /\ s.nodes[p].type = "collection" => c \in Range(s.nodes[p].children)
            /\ Linked(s, {<<p, c>>})
            => Linked(w, {})
<1> DEFINE node == [s.nodes[c] EXCEPT !.parents = q]
           w == WithNode(s, c, node)
<1>1. /\ IsNode(node) /\ node.parents = q /\ node.children = s.nodes[c].children
      /\ node.type = s.nodes[c].type /\ c \in Nodes
  <2>1. c \in Nodes
    BY DEF IsServer
  <2>2. IsNode(s.nodes[c])
    BY DEF IsServer
  <2>3. /\ IsNode(node) /\ node.parents = q /\ node.children = s.nodes[c].children
        /\ node.type = s.nodes[c].type
    BY <2>2 DEF IsNode
  <2> QED
    BY <2>1, <2>3
<1> HIDE DEF node
<1>2. /\ IsServer(w) /\ DOMAIN w.nodes = DOMAIN s.nodes \cup {c} /\ w.nodes[c] = node
      /\ \A m \in DOMAIN s.nodes : m # c => w.nodes[m] = s.nodes[m]
      /\ w.subscriptions = s.subscriptions
  BY <1>1, WithNodeIs
<1> HIDE DEF w
<1>3. /\ DOMAIN w.nodes = DOMAIN s.nodes
      /\ \A n \in DOMAIN s.nodes : /\ w.nodes[n].type = s.nodes[n].type
                                   /\ w.nodes[n].children = s.nodes[n].children
                                   /\ n # c => w.nodes[n] = s.nodes[n]
  BY <1>1, <1>2
<1>4. EachOnce(s) => EachOnce(w)
  BY <1>1, <1>2, <1>3 DEF EachOnce
<1>5. ASSUME Range(q) = Range(s.nodes[c].parents) \cup {p}, p \in DOMAIN s.nodes,
             s.nodes[p].type = "collection" => c \in Range(s.nodes[p].children),
             Linked(s, {<<p, c>>})
      PROVE  Linked(w, {})
  <2>1. ASSUME NEW a \in DOMAIN w.nodes, NEW b \in Nodes, w.nodes[a].type = "collection"
        PROVE  b \in Range(w.nodes[a].children)
                 <=> b \in DOMAIN w.nodes /\ a \in Range(w.nodes[b].parents)
    <3>1. a \in DOMAIN s.nodes /\ s.nodes[a].type = "collection"
          /\ w.nodes[a].children = s.nodes[a].children
      BY <1>3, <2>1
    <3>2. CASE a = p /\ b = c
      BY <1>1, <1>2, <1>3, <1>5, <3>1, <3>2
    <3>3. CASE a # p \/ b # c
      <4>1. <<a, b>> \notin {<<p, c>>}
        BY <3>3
      <4>2. b \in Range(s.nodes[a].children)
              <=> b \in DOMAIN s.nodes /\ a \in Range(s.nodes[b].parents)
        BY <1>5, <3>1, <4>1 DEF Linked
      <4>3. b \in DOMAIN s.nodes =>
              (a \in Range(w.nodes[b].parents) <=> a \in Range(s.nodes[b].parents))
        BY <1>1, <1>2, <1>3, <1>5, <3>3
      <4> QED
        BY <1>3, <3>1, <4>2, <4>3
    <3> QED
      BY <3>2, <3>3
  <2>2. \A b \in DOMAIN w.nodes : Range(w.nodes[b].parents) \subseteq DOMAIN w.nodes
    BY <1>1, <1>2, <1>3, <1>5 DEF Linked
  <2> QED
    BY <2>1, <2>2 DEF Linked
<1> QED
  BY <1>1, <1>2, <1>3, <1>4, <1>5 DEF w, node

\* What the configurations hold: the list of the query, and one entry more.
LEMMA ConfigsAre ==
  ASSUME NEW t \in Threads, list[t] \in Seq(Nodes)
  PROVE  /\ call[t].child \in Nodes =>
              LET C == ChildrenConfig(t) IN
              /\ C \in Seq(Nodes) /\ IsInjective(C)
              /\ Range(C) = Range(list[t]) \cup {call[t].child}
              /\ IsInjective(list[t]) =>
                   C = IF call[t].child \in Range(list[t]) THEN list[t]
                       ELSE Append(list[t], call[t].child)
         /\ call[t].parent \in Nodes =>
              LET C == ParentsConfig(t) IN
              /\ C \in Seq(Nodes) /\ IsInjective(C)
              /\ Range(C) = Range(list[t]) \cup {call[t].parent}
              /\ IsInjective(list[t]) =>
                   C = IF call[t].parent \in Range(list[t]) THEN list[t]
                       ELSE Append(list[t], call[t].parent)
<1> DEFINE old == list[t]
           c == call[t].child
           p == call[t].parent
<1> HIDE DEF old, c, p
<1>1. old \in Seq(Nodes)
  BY DEF old
<1>2. ASSUME NEW x \in Nodes
      PROVE  LET C == Collected(Append(old, x)) IN
             /\ C \in Seq(Nodes) /\ IsInjective(C) /\ Range(C) = Range(old) \cup {x}
             /\ IsInjective(old) => C = IF x \in Range(old) THEN old ELSE Append(old, x)
  BY <1>1, CollectedOnce
<1>3. ChildrenConfig(t) = Collected(Append(old, c)) /\ ParentsConfig(t) = Collected(Append(old, p))
  BY ConfigsAreCollected DEF old, c, p
<1> QED
  BY <1>2, <1>3 DEF old, c, p

LEMMA ConfigureParentKeepsKnowledge ==
  ASSUME Control, Knowledge, NEW t \in Threads, ConfigureParent(t)
  PROVE  Knowledge'
<1> DEFINE p == call[t].parent
           c == call[t].child
           s == server
<1>1. Moved(t)
  BY StepMoves DEF Step, ConfigureParent, Begin
<1>0. /\ pc \in [Threads -> Stages] /\ DOMAIN fresh = Threads /\ pc[t] = "parent"
      /\ list[t] \in Seq(Nodes \cup {None})
  BY DEF Control, ShapeInv, ConfigureParent, Knowledge, FreshInv
<1>2. CASE Goto(t, "undefined") /\ Leave /\ UNCHANGED failed
  BY <1>0, <1>1, <1>2, EndKeepsKnowledge DEF Goto, Leave
<1>3. CASE Goto(t, "parents") /\ Leave /\ failed' = TRUE
  BY <1>0, <1>1, <1>3, QueryKeepsKnowledge DEF Goto, Leave
<1>4. CASE /\ None \notin Range(list[t]) /\ Goto(t, "parents")
           /\ p \in DOMAIN s.nodes /\ UNCHANGED failed
           /\ Change(WithNode(s, p, [s.nodes[p] EXCEPT !.children = ChildrenConfig(t)]))
  <2>1. list[t] \in Seq(Nodes)
    BY <1>0, <1>4 DEF Range
  <2>2. c \in Nodes /\ p \in Nodes
    <3>1. StageInv /\ ShapeInv /\ pc[t] # "idle"
      BY <1>0 DEF Control
    <3> QED
      BY <1>0, <3>1, CallsAre
  <2> DEFINE C == ChildrenConfig(t)
  <2>3. C \in Seq(Nodes) /\ IsInjective(C) /\ Range(C) = Range(list[t]) \cup {c}
    BY <2>1, <2>2, ConfigsAre
  <2> DEFINE w == WithNode(s, p, [s.nodes[p] EXCEPT !.children = C])
  <2>4. server' = w /\ fresh' = [u \in Threads |-> FALSE] /\ pc'[t] = "parents"
        /\ call' = call /\ failed' = failed
    BY <1>0, <1>1, <1>4 DEF Change, Goto, Moved, started
  <2> HIDE DEF C
  <2>5. /\ IsServer(w) /\ DOMAIN w.nodes = DOMAIN s.nodes /\ w.subscriptions = s.subscriptions
        /\ EachOnce(s) => EachOnce(w)
        /\ w.nodes[p].children = C
        /\ \A n \in DOMAIN s.nodes : /\ w.nodes[n].type = s.nodes[n].type
                                     /\ w.nodes[n].parents = s.nodes[n].parents
                                     /\ n # p => w.nodes[n] = s.nodes[n]
        /\ (s.nodes[p].type = "collection" => Range(C) = Range(s.nodes[p].children) \cup {c})
              => (Linked(s, {}) => Linked(w, {<<p, c>>}))
    <3>1. IsServer(s) /\ c \in Range(C)
      BY <2>3 DEF Knowledge
    <3> QED
      BY <1>4, <2>2, <2>3, <3>1, ParentIsConfigured
  <2> HIDE DEF w
  <2>6. FreshInv'
    BY <1>1, <2>4, ChangeEndsFreshness DEF Knowledge
  <2>7. LinkInv'
    <3> SUFFICES ASSUME ~failed', ~overlapped' PROVE LinkInv'
      BY DEF LinkInv
    <3>1. ~overlapped /\ ~failed /\ \A u \in Threads : u # t => pc[u] = "idle" /\ pc'[u] = "idle"
      BY <1>1, <2>4, OthersRest
    <3>2. Half(pc, call) = {}
      BY <1>0, <3>1, HalfIs
    <3>3. Half(pc', call') = {<<p, c>>}
      BY <2>4, <3>1, HalfIs
    <3>4. Linked(s, {}) /\ fresh[t]
      BY <1>0, <3>1, <3>2 DEF Knowledge, LinkInv
    <3>5. list[t] = ChildrenOf(s, p)
      BY <1>0, <3>4 DEF Knowledge, FreshInv
    <3>6. s.nodes[p].type = "collection" => list[t] = s.nodes[p].children
      BY <3>5 DEF ChildrenOf
    <3>7. Linked(w, {<<p, c>>})
      BY <2>3, <2>5, <3>4, <3>6
    <3>8. c \in Range(w.nodes[p].children) /\ p \in DOMAIN w.nodes
      BY <1>4, <2>3, <2>5
    <3> QED
      BY <2>4, <3>1, <3>3, <3>7, <3>8 DEF LinkInv
  <2>8. SubscribeInv'
    <3> SUFFICES ASSUME ~overlapped' PROVE SubscribeInv'
      BY DEF SubscribeInv
    <3>1. ~overlapped /\ \A u \in Threads : pc'[u] # "subscribe"
      BY <1>1, <2>4, OthersRest
    <3>2. NamedOnce(s) /\ server'.subscriptions = s.subscriptions
      BY <2>4, <2>5, <3>1 DEF Knowledge, SubscribeInv
    <3>3. NamedOnce(server')
      BY <3>2 DEF NamedOnce
    <3> QED
      BY <3>1, <3>3 DEF SubscribeInv
  <2> QED
    BY <2>4, <2>5, <2>6, <2>7, <2>8 DEF Knowledge
<1> QED
  BY <1>2, <1>3, <1>4 DEF ConfigureParent, Exists

LEMMA ConfigureChildKeepsKnowledge ==
  ASSUME Control, Knowledge, NEW t \in Threads, ConfigureChild(t)
  PROVE  Knowledge'
<1> DEFINE p == call[t].parent
           c == call[t].child
           s == server
<1>1. Moved(t)
  BY StepMoves DEF Step, ConfigureChild, Begin
<1>0. /\ pc \in [Threads -> Stages] /\ DOMAIN fresh = Threads /\ pc[t] = "child"
      /\ list[t] \in Seq(Nodes) /\ pc'[t] = "idle"
  BY DEF Control, ShapeInv, ConfigureChild, Return, Knowledge, FreshInv
<1>2. CASE Leave /\ failed' = TRUE
  BY <1>0, <1>1, <1>2, EndKeepsKnowledge DEF Leave
<1>3. CASE /\ c \in DOMAIN s.nodes /\ (failed' = failed \/ failed' = TRUE)
           /\ Change(WithNode(s, c, [s.nodes[c] EXCEPT !.parents = ParentsConfig(t)]))
  <2>2. c \in Nodes /\ p \in Nodes
    <3>1. StageInv /\ ShapeInv /\ pc[t] # "idle"
      BY <1>0 DEF Control
    <3> QED
      BY <1>0, <3>1, CallsAre
  <2> DEFINE C == ParentsConfig(t)
  <2>3. C \in Seq(Nodes) /\ IsInjective(C) /\ Range(C) = Range(list[t]) \cup {p}
    BY <1>0, <2>2, ConfigsAre
  <2> DEFINE w == WithNode(s, c, [s.nodes[c] EXCEPT !.parents = C])
  <2>4. server' = w /\ fresh' = [u \in Threads |-> FALSE] /\ call' = call
    BY <1>1, <1>3 DEF Change, Moved, started
  <2> HIDE DEF C
  <2>5. /\ IsServer(w) /\ w.subscriptions = s.subscriptions /\ (EachOnce(s) => EachOnce(w))
        /\ /\ Range(C) = Range(s.nodes[c].parents) \cup {p} /\ p \in DOMAIN s.nodes
           /\ s.nodes[p].type = "collection" => c \in Range(s.nodes[p].children)
           /\ Linked(s, {<<p, c>>})
           => Linked(w, {})
    <3>1. IsServer(s)
      BY DEF Knowledge
    <3>2. c \in DOMAIN s.nodes /\ p \in Nodes /\ C \in Seq(Nodes) /\ IsInjective(C)
      BY <1>3, <2>2, <2>3
    <3> QED
      BY <3>1, <3>2, ChildIsConfigured, ZenonT(60)
  <2> HIDE DEF w
  <2>6. FreshInv'
    BY <1>0, <1>1, <2>4, ChangeEndsFreshness DEF Knowledge
  <2>7. LinkInv'
    <3> SUFFICES ASSUME ~failed', ~overlapped' PROVE LinkInv'
      BY DEF LinkInv
    <3>1. ~overlapped /\ ~failed /\ \A u \in Threads : u # t => pc[u] = "idle" /\ pc'[u] = "idle"
      BY <1>1, <1>3, OthersRest
    <3>2. Half(pc, call) = {<<p, c>>}
      BY <1>0, <3>1, HalfIs
    <3>3. Half(pc', call') = {}
      BY <1>0, <2>4, <3>1, HalfIs
    <3>4. /\ Linked(s, {<<p, c>>}) /\ fresh[t] /\ p \in DOMAIN s.nodes
          /\ s.nodes[p].type = "collection" => c \in Range(s.nodes[p].children)
      BY <1>0, <3>1, <3>2 DEF Knowledge, LinkInv
    <3>5. list[t] = s.nodes[c].parents
      BY <1>0, <3>4 DEF Knowledge, FreshInv
    <3>6. Linked(w, {})
      BY <2>3, <2>5, <3>4, <3>5
    <3>7. \A u \in Threads : pc'[u] \notin {"parent", "parents", "child"}
      BY <1>0, <3>1
    <3> QED
      BY <2>4, <3>3, <3>6, <3>7 DEF LinkInv
  <2>8. SubscribeInv'
    <3> SUFFICES ASSUME ~overlapped' PROVE SubscribeInv'
      BY DEF SubscribeInv
    <3>1. ~overlapped /\ \A u \in Threads : pc'[u] # "subscribe"
      BY <1>0, <1>1, OthersRest
    <3>2. NamedOnce(s) /\ server'.subscriptions = s.subscriptions
      BY <2>4, <2>5, <3>1 DEF Knowledge, SubscribeInv
    <3>3. NamedOnce(server')
      BY <3>2 DEF NamedOnce
    <3> QED
      BY <3>1, <3>3 DEF SubscribeInv
  <2> QED
    BY <2>4, <2>5, <2>6, <2>7, <2>8 DEF Knowledge
<1> QED
  BY <1>2, <1>3 DEF ConfigureChild, Exists

\* A subscription is added to those there are.
LEMMA SubscribedIs ==
  ASSUME IsServer(server), NEW n \in Nodes, NEW state \in {"subscribed", "pending"},
         FreeIds(server) # {}
  PROVE  LET w == Subscribed(n, state)
             N == Len(server.subscriptions)
         IN /\ IsServer(w) /\ w.nodes = server.nodes
            /\ DOMAIN w.subscriptions = DOMAIN server.subscriptions \cup {N + 1}
            /\ N + 1 \notin DOMAIN server.subscriptions
            /\ w.subscriptions[N + 1].node = n /\ w.subscriptions[N + 1].state = state
            /\ \A i \in DOMAIN server.subscriptions :
                 w.subscriptions[i] = server.subscriptions[i]
<1> DEFINE subs == server.subscriptions
           N == Len(subs)
           id == Min(FreeIds(server))
           u == [node |-> n, state |-> state, id |-> id]
           K == Append(subs, u)
           w == Subscribed(n, state)
<1>1. server = [nodes |-> server.nodes, subscriptions |-> subs] /\ subs \in Subscriptions
  BY DEF IsServer, Subscriptions
<1>2. id \in 1 .. MaxIds
  <2>1. FreeIds(server) \subseteq 1 .. MaxIds
    BY DEF FreeIds
  <2>2. FreeIds(server) \subseteq Nat
    BY <2>1, BoundsAssumption
  <2>3. \E m \in FreeIds(server) : \A k \in FreeIds(server) : m <= k
    BY <2>2, Least
  <2>4. id \in FreeIds(server)
    BY <2>3 DEF Min
  <2> QED
    BY <2>1, <2>4
<1> HIDE DEF id
<1>3. u \in [node : Nodes, state : {"subscribed", "pending"}, id : 1 .. MaxIds]
  BY <1>2
<1> HIDE DEF u, w
<1>4. w = [nodes |-> server.nodes, subscriptions |-> K]
  <2>1. w = [server EXCEPT !.subscriptions = Append(@, u)]
    BY DEF Subscribed, id, u, w
  <2>2. w.nodes = server.nodes /\ w.subscriptions = K
    BY <1>1, <2>1
  <2> QED
    BY <1>1, <2>1, <2>2
<1>5. /\ K \in Subscriptions /\ N \in Nat /\ DOMAIN subs = 1..N /\ DOMAIN K = 1..(N + 1)
      /\ K[N + 1] = u /\ \A i \in 1..N : K[i] = subs[i]
  BY <1>1, <1>3 DEF Subscriptions
<1>6. 1..(N + 1) = (1..N) \cup {N + 1} /\ N + 1 \notin 1..N
  BY <1>5
<1> HIDE DEF K, N
<1>7. w.nodes = server.nodes /\ w.subscriptions = K
  BY <1>4
<1>8. w \in [nodes : {w.nodes}, subscriptions : Subscriptions]
  BY <1>4, <1>5, <1>7
<1>9. IsServer(w)
  BY <1>7, <1>8 DEF IsServer, Subscriptions
<1>10. u.node = n /\ u.state = state
  BY DEF u
<1> QED
  BY <1>5, <1>6, <1>7, <1>9, <1>10 DEF w, N

LEMMA SubscribeKeepsKnowledge ==
  ASSUME Control, Knowledge, NEW t \in Threads, Subscribe(t)
  PROVE  Knowledge'
<1> DEFINE n == call[t].node
<1>1. Moved(t)
  BY StepMoves DEF Step, Subscribe, Begin
<1>0. pc \in [Threads -> Stages] /\ pc[t] = "subscribe" /\ pc'[t] = "idle"
  BY DEF Control, Subscribe, Return
<1>2. CASE Leave /\ failed' = TRUE
  BY <1>0, <1>1, <1>2, EndKeepsKnowledge DEF Leave
<1>3. ASSUME FreeIds(server) # {}, NEW state \in {"subscribed", "pending"},
             Change(Subscribed(n, state)), failed' = failed \/ failed' = TRUE
      PROVE  Knowledge'
  <2>1. n \in Nodes
    <3>1. StageInv /\ ShapeInv /\ pc[t] # "idle"
      BY <1>0 DEF Control
    <3> QED
      BY <1>0, <3>1, CallsAre
  <2> DEFINE w == Subscribed(n, state)
             N == Len(server.subscriptions)
  <2>2. server' = w /\ fresh' = [u \in Threads |-> FALSE] /\ call' = call
    BY <1>1, <1>3 DEF Change, Moved, started
  <2>3. IsServer(server)
    BY DEF Knowledge
  <2>4. /\ IsServer(w) /\ w.nodes = server.nodes
        /\ DOMAIN w.subscriptions = DOMAIN server.subscriptions \cup {N + 1}
        /\ N + 1 \notin DOMAIN server.subscriptions
        /\ w.subscriptions[N + 1].node = n
        /\ \A i \in DOMAIN server.subscriptions : w.subscriptions[i] = server.subscriptions[i]
    BY <1>3, <2>1, <2>3, SubscribedIs
  <2> HIDE DEF w, N
  <2>5. EachOnce(server')
    BY <2>2, <2>4 DEF Knowledge, EachOnce
  <2>6. FreshInv'
    BY <1>0, <1>1, <2>2, ChangeEndsFreshness DEF Knowledge
  <2>7. ASSUME ~overlapped'
        PROVE  /\ ~overlapped /\ \A u \in Threads : pc'[u] = "idle"
               /\ Half(pc, call) = {} /\ Half(pc', call') = {}
    <3>1. ~overlapped /\ \A u \in Threads : u # t => pc[u] = "idle" /\ pc'[u] = "idle"
      BY <1>1, <2>7, OthersRest
    <3> QED
      BY <1>0, <3>1, HalfIs
  <2>8. LinkInv'
    <3> SUFFICES ASSUME ~failed', ~overlapped' PROVE LinkInv'
      BY DEF LinkInv
    <3>1. ~failed
      BY <1>3
    <3>2. Linked(server, {})
      BY <2>7, <3>1 DEF LinkInv, Knowledge
    <3>3. Linked(server', {})
      BY <2>2, <2>4, <3>2 DEF Linked
    <3>4. \A u \in Threads : pc'[u] \notin {"parent", "parents", "child"}
      BY <2>7
    <3> QED
      BY <2>7, <3>3, <3>4 DEF LinkInv
  <2>9. SubscribeInv'
    <3> SUFFICES ASSUME ~overlapped' PROVE SubscribeInv'
      BY DEF SubscribeInv
    <3>1. /\ NamedOnce(server)
          /\ \A i \in DOMAIN server.subscriptions : server.subscriptions[i].node # n
      BY <1>0, <2>7 DEF Knowledge, SubscribeInv
    <3>2. NamedOnce(server')
      BY <2>2, <2>4, <3>1 DEF NamedOnce
    <3>3. \A u \in Threads : pc'[u] # "subscribe"
      BY <2>7
    <3> QED
      BY <3>2, <3>3 DEF SubscribeInv
  <2> QED
    BY <2>2, <2>4, <2>5, <2>6, <2>8, <2>9 DEF Knowledge
<1> QED
  BY <1>2, <1>3 DEF Subscribe

LEMMA SubscriptionsQueryKeepsKnowledge ==
  ASSUME Control, Knowledge, NEW t \in Threads, SubscriptionsQuery(t)
  PROVE  Knowledge'
<1>1. Moved(t)
  BY StepMoves DEF Step, SubscriptionsQuery, Begin
<1>0. /\ pc \in [Threads -> Stages] /\ pc[t] = "subscriptions" /\ server' = server
      /\ fresh' = fresh /\ (failed' = failed \/ failed' = TRUE)
  BY DEF Control, SubscriptionsQuery
<1>2. CASE pc'[t] \in {"idle", "undefined"}
  BY <1>0, <1>1, <1>2, EndKeepsKnowledge
<1>3. CASE pc'[t] = "subscribe"
  <2>1. /\ ~Listed(SubscriptionsOf(server), call[t].node) /\ failed' = failed
        /\ call' = call /\ \A u \in Threads : u # t => pc'[u] = pc[u] /\ list'[u] = list[u]
    <3>1. call' = call /\ \A u \in Threads : u # t => pc'[u] = pc[u] /\ list'[u] = list[u]
      BY <1>1 DEF Moved, started
    <3>2. ~Listed(SubscriptionsOf(server), call[t].node) /\ failed' = failed
      BY <1>0, <1>3 DEF SubscriptionsQuery, Return, Goto
    <3> QED
      BY <3>1, <3>2
  <2>2. \A i \in DOMAIN server.subscriptions : server.subscriptions[i].node # call[t].node
    <3>1. \A i \in DOMAIN server.subscriptions :
            SubscriptionsOf(server)[i].subscription = server.subscriptions[i].node
      BY DEF SubscriptionsOf, SubscriptionAdd
    <3>2. DOMAIN SubscriptionsOf(server) = DOMAIN server.subscriptions
      BY DEF SubscriptionsOf
    <3> QED
      BY <2>1, <3>1, <3>2 DEF Listed
  <2>3. FreshInv'
    BY <1>0, <1>3, <2>1 DEF FreshInv, Knowledge
  <2>4. LinkInv'
    <3> SUFFICES ASSUME ~failed', ~overlapped' PROVE LinkInv'
      BY DEF LinkInv
    <3>1. ~overlapped /\ \A u \in Threads : u # t => pc[u] = "idle" /\ pc'[u] = "idle"
      BY <1>1, OthersRest
    <3>2. Half(pc, call) = {} /\ Half(pc', call') = {}
      BY <1>0, <1>3, <3>1, HalfIs
    <3>3. Linked(server, Half(pc, call))
      BY <2>1, <3>1 DEF LinkInv, Knowledge
    <3>4. \A u \in Threads : pc'[u] \notin {"parent", "parents", "child"}
      BY <1>3, <3>1
    <3> QED
      BY <1>0, <3>2, <3>3, <3>4 DEF LinkInv
  <2>5. SubscribeInv'
    <3> SUFFICES ASSUME ~overlapped' PROVE SubscribeInv'
      BY DEF SubscribeInv
    <3>1. ~overlapped /\ \A u \in Threads : u # t => pc'[u] = "idle"
      BY <1>1, OthersRest
    <3>2. NamedOnce(server)
      BY <3>1 DEF Knowledge, SubscribeInv
    <3> QED
      BY <1>0, <2>1, <2>2, <3>1, <3>2 DEF SubscribeInv
  <2> QED
    BY <1>0, <2>3, <2>4, <2>5 DEF Knowledge
<1> QED
  BY <1>1, <1>0, <1>2, <1>3 DEF Moved, Stays

LEMMA NInvStep ==
  NInv /\ [Next]_vars => NInv'
<1> SUFFICES ASSUME NInv, [Next]_vars PROVE NInv'
  OBVIOUS
<1>0. Control /\ Knowledge
  BY DEF NInv
<1>1. ASSUME NEW t \in Threads, Step(t) PROVE NInv'
  <2>1. Control'
    BY <1>0, <1>1, ControlStep
  <2> SUFFICES Knowledge'
    BY <2>1 DEF NInv
  <2>2. CASE Begin(t)
    BY <1>0, <2>2, BeginKeepsKnowledge
  <2>3. CASE Send(t)
    BY <1>0, <2>3, SendKeepsKnowledge
  <2>4. CASE UnknownAffiliation(t)
    <3>1. Moved(t)
      BY <1>0, <1>1, <2>4, StepMoves DEF UnknownAffiliation, Begin
    <3>2. /\ server' = server /\ fresh' = fresh /\ failed' = failed /\ pc[t] = "send"
          /\ pc'[t] = "idle"
      BY <1>0, <2>4 DEF UnknownAffiliation, Return, Control
    <3> QED
      BY <1>0, <3>1, <3>2, EndKeepsKnowledge
  <2>5. CASE ChildrenQuery(t)
    BY <1>0, <2>5, ChildrenQueryKeepsKnowledge
  <2>6. CASE ConfigureParent(t)
    BY <1>0, <2>6, ConfigureParentKeepsKnowledge
  <2>7. CASE ParentsQuery(t)
    BY <1>0, <2>7, ParentsQueryKeepsKnowledge
  <2>8. CASE ConfigureChild(t)
    BY <1>0, <2>8, ConfigureChildKeepsKnowledge
  <2>9. CASE ChildRemove(t)
    <3>1. Moved(t)
      BY <1>0, <1>1, <2>9, StepMoves DEF ChildRemove, Begin
    <3>2. /\ server' = server /\ fresh' = fresh /\ failed' = failed /\ pc[t] = "remove"
          /\ pc'[t] = "undefined"
      BY <1>0, <2>9 DEF ChildRemove, Goto, Control
    <3> QED
      BY <1>0, <3>1, <3>2, EndKeepsKnowledge
  <2>10. CASE SubscriptionsQuery(t)
    BY <1>0, <2>10, SubscriptionsQueryKeepsKnowledge
  <2>11. CASE Subscribe(t)
    BY <1>0, <2>11, SubscribeKeepsKnowledge
  <2> QED
    BY <1>1, <2>2, <2>3, <2>4, <2>5, <2>6, <2>7, <2>8, <2>9, <2>10, <2>11 DEF Step
<1>2. CASE UNCHANGED vars
  <2>1. Control'
    BY <1>0, <1>2 DEF vars, Control, ShapeInv, StageInv, AloneInv
  <2>2. Knowledge'
    BY <1>0, <1>2 DEF vars, Knowledge, FreshInv, LinkInv, SubscribeInv
  <2> QED
    BY <2>1, <2>2 DEF NInv
<1> QED
  BY <1>1, <1>2 DEF Next

LEMMA NInvInit ==
  Init => NInv
<1> SUFFICES ASSUME Init PROVE NInv
  OBVIOUS
<1>1. /\ pc = [t \in Threads |-> "idle"] /\ calls = [t \in Threads |-> 0]
      /\ response = [t \in Threads |-> Unknown] /\ topic \in Topics
  BY DEF Init
<1>2. Control
  <2>1. ShapeInv
    BY DEF Init, ShapeInv
  <2>2. \A t \in Threads : response[t].type = "unknown"
    BY <1>1, TypesOfResponses
  <2>3. StageInv /\ AloneInv
    BY <1>1 DEF StageInv, AloneInv
  <2>4. calls \in [Threads -> 0 .. MaxCalls] /\ pc \in [Threads -> Stages]
    BY <1>1, BoundsAssumption DEF Stages
  <2> QED
    BY <2>1, <2>2, <2>3, <2>4 DEF Control
<1>3. IsServer(server) /\ Linked(server, {}) /\ EachOnce(server) /\ NamedOnce(server)
  BY StartsAssumption DEF Init
<1>4. Half(pc, call) = {}
  BY <1>1 DEF Half
<1>5. FreshInv /\ LinkInv /\ SubscribeInv
  BY <1>1, <1>3, <1>4 DEF FreshInv, LinkInv, SubscribeInv
<1> QED
  BY <1>2, <1>3, <1>5 DEF NInv, Knowledge

LEMMA NInvAlways == Spec => []NInv
  BY NInvInit, NInvStep, PTL DEF Spec

-------------------------------------------------------------------------------
(* What the threads may rely on *)

LEMMA NInvImplies ==
  NInv => ServerIsConsistent
<1> SUFFICES ASSUME NInv PROVE ServerIsConsistent
  OBVIOUS
<1>0. Control /\ Knowledge
  BY DEF NInv
<1>1. TypeOK
  <2>1. \A t \in Threads :
          /\ response[t].type \in {"unknown", "ok", "error", "packet", "confused"}
          /\ pc[t] # "idle" => call[t] \in Calls[topic]
    BY <1>0 DEF Control, StageInv
  <2>2. ASSUME NEW t \in Threads, pc[t] \in {"parent", "child"}
        PROVE  Range(list[t]) \subseteq Nodes \cup {None}
    <3>1. list[t] \in Seq(Nodes \cup {None}) \/ list[t] \in Seq(Nodes)
      BY <1>0, <2>2 DEF Knowledge, FreshInv
    <3> QED
      BY <3>1 DEF Range
  <2> QED
    BY <1>0, <2>1, <2>2 DEF TypeOK, Control, Knowledge
<1>2. BothEndsAgree
  <2> SUFFICES ASSUME ~failed, ~overlapped, \A t \in Threads : pc[t] = "idle"
               PROVE  \A p, c \in DOMAIN server.nodes : server.nodes[p].type = "collection" =>
                        (c \in Range(server.nodes[p].children)
                           <=> p \in Range(server.nodes[c].parents))
    BY DEF BothEndsAgree
  <2>1. Half(pc, call) = {}
    BY DEF Half
  <2>2. Linked(server, {}) /\ DOMAIN server.nodes \subseteq Nodes
    BY <1>0, <2>1 DEF Knowledge, LinkInv, IsServer
  <2> QED
    BY <2>2 DEF Linked
<1>3. SubscribedOnce
  BY <1>0 DEF Knowledge, SubscribeInv, SubscribedOnce
<1> QED
  BY <1>1, <1>2, <1>3 DEF ServerIsConsistent

\* While nothing fails and no calls overlap the two ends of a collection's links
\* agree whenever the threads rest (mio_collection_child_add configures both),
\* and a node is subscribed to once (mio_subscribe asks first).
THEOREM ServerStaysConsistent == Spec => []ServerIsConsistent
  BY NInvAlways, NInvImplies, PTL

\* A thread goes to another place by a step of its own.
LEMMA StepOfThread ==
  ASSUME NInv, [Next]_vars, NEW t \in Threads, pc'[t] # pc[t]
  PROVE  Step(t)
<1>0. Control
  BY DEF NInv
<1>1. PICK u \in Threads : Step(u)
  BY DEF Next, vars
<1>2. CASE Begin(u)
  <2>1. u = t
    BY <1>0, <1>2 DEF Begin, Control
  <2> QED
    BY <1>1, <2>1
<1>3. CASE ~Begin(u)
  <2>1. Moved(u)
    BY <1>0, <1>1, <1>3, StepMoves
  <2>2. u = t
    BY <2>1 DEF Moved
  <2> QED
    BY <1>1, <2>2
<1> QED
  BY <1>2, <1>3

Added(old, new, m) == new = IF m \in Range(old) THEN old ELSE Append(old, m)

LEMMA ParentKeeps ==
  ASSUME NInv, [Next]_vars, NEW t \in Threads,
         NEW n \in DOMAIN server'.nodes \cap DOMAIN server.nodes,
         fresh[t], pc[t] = "parent", pc'[t] = "parents",
         server'.nodes[n] # server.nodes[n], server.nodes[n].type = "collection"
  PROVE  Added(server.nodes[n].children, server'.nodes[n].children, call[t].child)
<1> DEFINE p == call[t].parent
           c == call[t].child
           s == server
           C == ChildrenConfig(t)
           w == WithNode(s, p, [s.nodes[p] EXCEPT !.children = C])
<1>0. Control /\ Knowledge
  BY DEF NInv
<1>1. ConfigureParent(t)
  BY StepOfThread
     DEF Step, Begin, Send, UnknownAffiliation, ChildrenQuery, ParentsQuery, ConfigureChild,
         ChildRemove, SubscriptionsQuery, Subscribe
<1>2. p \in DOMAIN s.nodes /\ list[t] = ChildrenOf(s, p)
  BY <1>0 DEF Knowledge, FreshInv
<1>3. /\ None \notin Range(list[t]) /\ server' = w
  BY <1>1 DEF ConfigureParent, Goto, Leave, Change, Control
<1>4. list[t] \in Seq(Nodes)
  <2>1. list[t] \in Seq(Nodes \cup {None})
    BY <1>0 DEF Knowledge, FreshInv
  <2> QED
    BY <1>3, <2>1 DEF Range
<1>5. c \in Nodes
  <2>1. StageInv /\ ShapeInv /\ pc[t] # "idle"
    BY <1>0 DEF Control
  <2> QED
    BY <2>1, CallsAre
<1>6. /\ C \in Seq(Nodes) /\ IsInjective(C) /\ Range(C) = Range(list[t]) \cup {c}
      /\ IsInjective(list[t]) => C = IF c \in Range(list[t]) THEN list[t] ELSE Append(list[t], c)
  BY <1>4, <1>5, ConfigsAre
<1> HIDE DEF C
<1>7. /\ w.nodes[p].children = C
      /\ \A m \in DOMAIN s.nodes : m # p => w.nodes[m] = s.nodes[m]
  <2>1. IsServer(s) /\ c \in Range(C)
    BY <1>0, <1>6 DEF Knowledge
  <2>2. /\ IsServer(w) /\ DOMAIN w.nodes = DOMAIN s.nodes /\ w.subscriptions = s.subscriptions
        /\ EachOnce(s) => EachOnce(w)
        /\ w.nodes[p].children = C
        /\ \A m \in DOMAIN s.nodes : /\ w.nodes[m].type = s.nodes[m].type
                                     /\ w.nodes[m].parents = s.nodes[m].parents
                                     /\ m # p => w.nodes[m] = s.nodes[m]
        /\ (s.nodes[p].type = "collection" => Range(C) = Range(s.nodes[p].children) \cup {c})
              => (Linked(s, {}) => Linked(w, {<<p, c>>}))
    BY <1>2, <1>5, <1>6, <2>1, ParentIsConfigured
  <2> QED
    BY <2>2
<1> HIDE DEF w
<1>8. n = p
  BY <1>3, <1>7
<1>9. list[t] = s.nodes[p].children /\ IsInjective(list[t])
  BY <1>0, <1>2, <1>8 DEF ChildrenOf, Knowledge, EachOnce
<1> QED
  BY <1>3, <1>6, <1>7, <1>8, <1>9 DEF Added

LEMMA ChildKeeps ==
  ASSUME NInv, [Next]_vars, NEW t \in Threads,
         NEW n \in DOMAIN server'.nodes \cap DOMAIN server.nodes,
         fresh[t], pc[t] = "child", pc'[t] = "idle", server'.nodes[n] # server.nodes[n]
  PROVE  Added(server.nodes[n].parents, server'.nodes[n].parents, call[t].parent)
<1> DEFINE p == call[t].parent
           c == call[t].child
           s == server
           C == ParentsConfig(t)
           w == WithNode(s, c, [s.nodes[c] EXCEPT !.parents = C])
<1>0. Control /\ Knowledge
  BY DEF NInv
<1>1. ConfigureChild(t)
  BY StepOfThread
     DEF Step, Begin, Send, UnknownAffiliation, ChildrenQuery, ParentsQuery, ConfigureParent,
         ChildRemove, SubscriptionsQuery, Subscribe
<1>2. c \in DOMAIN s.nodes /\ list[t] = s.nodes[c].parents /\ list[t] \in Seq(Nodes)
  BY <1>0 DEF Knowledge, FreshInv
<1>3. server' = w
  BY <1>1 DEF ConfigureChild, Leave, Change
<1>5. p \in Nodes
  <2>1. StageInv /\ ShapeInv /\ pc[t] # "idle"
    BY <1>0 DEF Control
  <2> QED
    BY <2>1, CallsAre
<1>6. /\ C \in Seq(Nodes) /\ IsInjective(C) /\ Range(C) = Range(list[t]) \cup {p}
      /\ IsInjective(list[t]) => C = IF p \in Range(list[t]) THEN list[t] ELSE Append(list[t], p)
  BY <1>2, <1>5, ConfigsAre
<1> HIDE DEF C
<1>7. /\ w.nodes[c].parents = C
      /\ \A m \in DOMAIN s.nodes : m # c => w.nodes[m] = s.nodes[m]
  <2>1. IsServer(s)
    BY <1>0 DEF Knowledge
  <2>2. /\ IsServer(w) /\ DOMAIN w.nodes = DOMAIN s.nodes /\ w.subscriptions = s.subscriptions
        /\ EachOnce(s) => EachOnce(w)
        /\ w.nodes[c].parents = C
        /\ \A m \in DOMAIN s.nodes : /\ w.nodes[m].type = s.nodes[m].type
                                     /\ w.nodes[m].children = s.nodes[m].children
                                     /\ m # c => w.nodes[m] = s.nodes[m]
        /\ /\ Range(C) = Range(s.nodes[c].parents) \cup {p} /\ p \in DOMAIN s.nodes
           /\ s.nodes[p].type = "collection" => c \in Range(s.nodes[p].children)
           /\ Linked(s, {<<p, c>>})
           => Linked(w, {})
    BY <1>2, <1>5, <1>6, <2>1, ChildIsConfigured
  <2> QED
    BY <2>2
<1> HIDE DEF w
<1>8. n = c
  BY <1>3, <1>7
<1>9. IsInjective(list[t])
  BY <1>0, <1>2 DEF Knowledge, EachOnce
<1> QED
  BY <1>2, <1>3, <1>6, <1>7, <1>8, <1>9 DEF Added

-------------------------------------------------------------------------------
(* What the calls report *)

\* Only a success, a packet and an existing subscription say anything.
LEMMA NothingIsReported ==
  ASSUME NEW k, NEW r, r.type \notin {"ok", "packet"}, NEW value, value # "already subscribed",
         NEW s
  PROVE  Reported(k, r, value, s)
  BY DEF Reported

LEMMA RefusalsReportNothing ==
  ASSUME NEW s, NEW k
  PROVE  Handled(s, k, TRUE).type \notin {"ok", "packet"}
<1>1. Error.type = "error" /\ Confused.type = "confused"
  BY DEF Error, Confused
<1> QED
  BY <1>1 DEF Handled, HandlerChildrenQuery, HandlerParentsQuery, HandlerTypeQuery,
              HandlerSubscriptionsQuery, HandlerAffiliationsQuery, HandlerError

\* The packet of an answered query has the entries of the server.
LEMMA QueriesReport ==
  ASSUME NEW s, IsServer(s), NEW k, k.type \in Queries, Accepts(s, k),
         k.node \in Nodes \/ (k.node = None /\ k.type \in {"subscriptions_query",
                                                          "affiliations_query"}),
         NEW r, r = Handled(s, k, FALSE)
  PROVE  Reported(k, r, "MIO_OK", s)
<1> DEFINE n == k.node
<1>0. \A e : Packet(e).type = "packet" /\ Packet(e).entries = e
  BY DEF Packet
<1>1. n = None \/ n \in DOMAIN s.nodes
  BY DEF Accepts, Exists, Queries
<1>2. CASE k.type = "children_query"
  <2>1. r = Packet(ChildrenOf(s, n))
    BY <1>2 DEF Handled, HandlerChildrenQuery
  <2>2. r.type = "packet" /\ r.entries = ChildrenOf(s, n)
    BY <1>0, <2>1
  <2>3. s.nodes[n].type = "collection" => ChildrenOf(s, n) = s.nodes[n].children
    BY DEF ChildrenOf
  <2> QED
    BY <1>2, <2>2, <2>3 DEF Reported
<1>3. CASE k.type = "parents_query"
  <2>1. r = Packet(ParentsOfForm(Form(s, n)))
    BY <1>3 DEF Handled, HandlerParentsQuery
  <2>2. n \in DOMAIN s.nodes
    BY <1>1, <1>3, NoneAssumption
  <2>3. r.type = "packet" /\ r.entries = s.nodes[n].parents
    <3>1. ParentsOfForm(Form(s, n)) = s.nodes[n].parents
      BY <2>2, FormGivesParents
    <3> QED
      BY <1>0, <2>1, <3>1
  <2> QED
    BY <1>3, <2>3 DEF Reported
<1>4. CASE k.type = "subscriptions_query"
  <2>1. r = Packet(SubscriptionsOf(s))
    BY <1>4 DEF Handled, HandlerSubscriptionsQuery
  <2>2. r.type = "packet" /\ r.entries = SubscriptionsOf(s)
    BY <1>0, <2>1
  <2>3. /\ DOMAIN SubscriptionsOf(s) = DOMAIN s.subscriptions
        /\ \A i \in DOMAIN s.subscriptions :
             SubscriptionsOf(s)[i].subscription = s.subscriptions[i].node
    BY DEF SubscriptionsOf, SubscriptionAdd
  <2>4. [i \in DOMAIN r.entries |-> r.entries[i].subscription]
          = [i \in DOMAIN s.subscriptions |-> s.subscriptions[i].node]
    BY <2>2, <2>3
  <2> QED
    BY <1>4, <2>2, <2>4 DEF Reported
<1>5. CASE k.type = "affiliations_query"
  <2>1. r = Packet(AffiliationsQuery(s, n))
    BY <1>5 DEF Handled, HandlerAffiliationsQuery
  <2>2. r.type = "packet" /\ r.entries = AffiliationsQuery(s, n)
    BY <1>0, <2>1
  <2>3. ASSUME NEW m \in DOMAIN s.nodes, NEW j \in DOMAIN s.nodes[m].affiliations,
               n = m \/ (n = None /\ j = Me)
        PROVE  [affiliation |-> IF n = m THEN j ELSE m,
                type |-> s.nodes[m].affiliations[j]] \in r.entries
    <3>1. m # None
      BY NoneAssumption DEF IsServer
    <3>2. CASE n = m
      BY <2>2, <3>1, <3>2 DEF AffiliationsQuery, NodeAffiliations, AffiliationAdd
    <3>3. CASE n # m
      BY <2>2, <2>3, <3>1, <3>3 DEF AffiliationsQuery, OwnAffiliations, AffiliationAdd
    <3> QED
      BY <3>2, <3>3
  <2> QED
    BY <1>5, <2>2, <2>3 DEF Reported
<1>6. CASE k.type = "type_query"
  <2>1. r = Packet({[type |-> TypeOfNode(s, n)]})
    BY <1>6 DEF Handled, HandlerTypeQuery
  <2>2. r.type = "packet"
    BY <1>0, <2>1
  <2> QED
    BY <1>6, <2>2 DEF Reported
<1> QED
  BY <1>2, <1>3, <1>4, <1>5, <1>6 DEF Queries

\* What a confirmed request asked for is so.
LEMMA RequestsReport ==
  ASSUME NEW s, IsServer(s), NEW k, k.type \in Single \ Queries, Accepts(s, k), k.node \in Nodes,
         NEW r, r = Handled(s, k, FALSE), NEW w, w = Carried(s, k)
  PROVE  Reported(k, r, "MIO_OK", w)
<1> DEFINE n == k.node
<1>0. r.type = "ok"
  <2>1. r = Ok
    BY DEF Handled, HandlerError, Queries
  <2> QED
    BY <2>1, TypesOfResponses
<1>1. CASE k.type \in {"create", "collection_create"}
  <2>1. w = WithNode(s, n, NewNode("leaf")) \/ w = WithNode(s, n, NewNode("collection"))
    BY <1>1 DEF Carried, Created, CollectionCreated
  <2>2. n \in DOMAIN w.nodes
    BY <2>1, WithNodeIs, NewNodeIs
  <2> QED
    BY <1>0, <1>1, <2>2 DEF Reported, Exists
<1>2. CASE k.type = "delete"
  <2>1. w = Deleted(s, n)
    BY <1>2 DEF Carried
  <2>2. n \notin DOMAIN w.nodes
    BY <2>1, DeletedIs
  <2> QED
    BY <1>0, <1>2, <2>2 DEF Reported, Exists
<1>3. CASE k.type = "affiliation_set"
  <2>1. w = AffiliationSet(s, n, k.jid, k.affiliation) /\ n \in DOMAIN s.nodes
    BY <1>3 DEF Carried, Accepts, Owned, Exists
  <2>2. w.nodes[n].affiliations[k.jid] = k.affiliation
    BY <2>1, AffiliationSetIs
  <2> QED
    BY <1>0, <1>3, <2>2 DEF Reported
<1>4. CASE k.type = "unsubscribe"
  <2>1. w = Unsubscribed(s, n, k.id)
    BY <1>4 DEF Carried
  <2>2. Matching(w, n, k.id) = {}
    BY <2>1, UnsubscribedIs
  <2> QED
    BY <1>0, <1>4, <2>2 DEF Reported
<1> QED
  BY <1>1, <1>2, <1>3, <1>4 DEF Single, CallTypes

LEMMA SendReports ==
  ASSUME NInv, NEW t \in Threads, Send(t)
  PROVE  Reported(call[t], response'[t], result'[t], server')
<1> DEFINE k == call[t]
<1>0. /\ pc[t] = "send" /\ IsServer(server) /\ response[t] = Unknown
      /\ DOMAIN response = Threads /\ DOMAIN result = Threads
  BY DEF NInv, Control, Knowledge, StageInv, ShapeInv, Send
<1>1. CASE Respond(t, Handled(server, k, TRUE)) /\ Return(t, "MIO_OK")
  <2>1. response'[t] = Handled(server, k, TRUE) /\ result'[t] = "MIO_OK"
    BY <1>0, <1>1 DEF Respond, Return
  <2>2. response'[t].type \notin {"ok", "packet"}
    BY <2>1, RefusalsReportNothing
  <2> QED
    BY <2>1, <2>2, NothingIsReported
<1>2. CASE UNCHANGED response /\ Return(t, "error")
  <2>1. response'[t].type = "unknown" /\ result'[t] = "error"
    BY <1>0, <1>2, TypesOfResponses DEF Return
  <2> QED
    BY <2>1, NothingIsReported
<1>3. CASE /\ Accepts(server, k) /\ Change(Carried(server, k))
           /\ Respond(t, Handled(server, k, FALSE)) /\ Return(t, "MIO_OK")
  <2>1. /\ response'[t] = Handled(server, k, FALSE) /\ result'[t] = "MIO_OK"
        /\ server' = Carried(server, k)
    BY <1>0, <1>3 DEF Respond, Return, Change
  <2>2. /\ k.type \in CallTypes \ {"child_add", "child_remove", "subscribe"}
        /\ \/ k.node \in Nodes
           \/ k.node = None /\ k.type \in {"subscriptions_query", "affiliations_query"}
    <3>1. /\ k \in Calls[topic] /\ topic \in Topics
          /\ k.type \notin {"child_add", "child_remove", "subscribe"}
      BY <1>0 DEF NInv, Control, StageInv, ShapeInv
    <3> QED
      BY <3>1, CallsAssumption
  <2>3. CASE k.type \in Queries
    <3>1. Carried(server, k) = server
      BY <2>3 DEF Carried, Queries
    <3>2. Reported(k, response'[t], "MIO_OK", server)
      BY <1>0, <1>3, <2>1, <2>2, <2>3, QueriesReport
    <3> QED
      BY <2>1, <3>1, <3>2
  <2>4. CASE k.type \notin Queries
    <3>1. k.node \in Nodes /\ k.type \in Single \ Queries
      BY <2>2, <2>4 DEF Queries, Single
    <3> QED
      BY <1>0, <1>3, <2>1, <3>1, RequestsReport
  <2> QED
    BY <2>3, <2>4
<1> QED
  BY <1>1, <1>2, <1>3 DEF Send

LEMMA ConfigureChildReports ==
  ASSUME NInv, NEW t \in Threads, ConfigureChild(t)
  PROVE  Reported(call[t], response'[t], result'[t], server')
<1> DEFINE k == call[t]
           c == call[t].child
           p == call[t].parent
           C == ParentsConfig(t)
           w == WithNode(server, c, [server.nodes[c] EXCEPT !.parents = C])
<1>0. /\ pc[t] = "child" /\ IsServer(server) /\ response[t] = Unknown /\ k.type = "child_add"
      /\ DOMAIN response = Threads /\ DOMAIN result = Threads /\ list[t] \in Seq(Nodes)
  BY DEF NInv, Control, Knowledge, StageInv, ShapeInv, FreshInv, ConfigureChild
<1>1. result'[t] = "MIO_OK"
  BY <1>0 DEF ConfigureChild, Return
<1>2. CASE Respond(t, Error) \/ UNCHANGED response
  <2>1. response'[t].type \notin {"ok", "packet"}
    BY <1>0, <1>2, TypesOfResponses DEF Respond
  <2> QED
    BY <1>1, <2>1, NothingIsReported
<1>3. CASE c \in DOMAIN server.nodes /\ Change(w) /\ Respond(t, Ok)
  <2>1. response'[t] = Ok /\ server' = w
    BY <1>0, <1>3 DEF Respond, Change
  <2>2. p \in Nodes
    <3>1. StageInv /\ ShapeInv /\ pc[t] # "idle"
      BY <1>0 DEF NInv, Control
    <3> QED
      BY <1>0, <3>1, CallsAre
  <2>3. C \in Seq(Nodes) /\ IsInjective(C) /\ Range(C) = Range(list[t]) \cup {p}
    BY <1>0, <2>2, ConfigsAre
  <2> HIDE DEF C
  <2>4. w.nodes[c].parents = C
    <3> DEFINE s == server
    <3>1. IsServer(s) /\ c \in DOMAIN s.nodes /\ p \in Nodes /\ C \in Seq(Nodes) /\ IsInjective(C)
      BY <1>0, <1>3, <2>2, <2>3
    <3>2. /\ IsServer(w) /\ DOMAIN w.nodes = DOMAIN s.nodes /\ w.subscriptions = s.subscriptions
          /\ EachOnce(s) => EachOnce(w)
          /\ w.nodes[c].parents = C
          /\ \A m \in DOMAIN s.nodes : /\ w.nodes[m].type = s.nodes[m].type
                                       /\ w.nodes[m].children = s.nodes[m].children
                                       /\ m # c => w.nodes[m] = s.nodes[m]
          /\ /\ Range(C) = Range(s.nodes[c].parents) \cup {p} /\ p \in DOMAIN s.nodes
             /\ s.nodes[p].type = "collection" => c \in Range(s.nodes[p].children)
             /\ Linked(s, {<<p, c>>})
             => Linked(w, {})
      BY <3>1, ChildIsConfigured
    <3> QED
      BY <3>2
  <2> HIDE DEF w
  <2>5. p \in Range(server'.nodes[c].parents)
    BY <2>1, <2>3, <2>4
  <2>6. response'[t].type = "ok"
    BY <2>1, TypesOfResponses
  <2> QED
    BY <1>0, <1>1, <2>5, <2>6 DEF Reported
<1> QED
  BY <1>2, <1>3 DEF ConfigureChild, Exists

LEMMA SubscriptionsQueryReports ==
  ASSUME NInv, NEW t \in Threads, SubscriptionsQuery(t), pc'[t] = "idle"
  PROVE  Reported(call[t], response'[t], result'[t], server')
<1> DEFINE n == call[t].node
           subs == SubscriptionsOf(server)
<1>0. /\ pc \in [Threads -> Stages] /\ DOMAIN result = Threads /\ server' = server
      /\ response'[t] = Unknown
  BY DEF NInv, Control, StageInv, ShapeInv, SubscriptionsQuery
<1>1. response'[t].type = "unknown"
  BY <1>0, TypesOfResponses
<1>2. CASE Return(t, "MIO_OK")
  <2>1. result'[t] = "MIO_OK"
    BY <1>0, <1>2 DEF Return
  <2> QED
    BY <1>1, <2>1, NothingIsReported
<1>3. CASE Listed(subs, n) /\ Return(t, "already subscribed")
  <2>1. result'[t] = "already subscribed"
    BY <1>0, <1>3 DEF Return
  <2>2. /\ DOMAIN subs = DOMAIN server.subscriptions
        /\ \A i \in DOMAIN server.subscriptions : subs[i].subscription = server.subscriptions[i].node
    BY DEF SubscriptionsOf, SubscriptionAdd
  <2>3. \E i \in DOMAIN server.subscriptions : server.subscriptions[i].node = n
    BY <1>3, <2>2 DEF Listed
  <2>4. Matching(server', n, None) # {}
    BY <1>0, <2>3 DEF Matching
  <2> QED
    BY <1>1, <2>4 DEF Reported
<1>4. pc'[t] = "idle" => ~Goto(t, "subscribe") /\ ~Goto(t, "undefined")
  BY <1>0 DEF Goto
<1> QED
  BY <1>2, <1>3, <1>4 DEF SubscriptionsQuery

LEMMA SubscribeReports ==
  ASSUME NInv, NEW t \in Threads, Subscribe(t)
  PROVE  Reported(call[t], response'[t], result'[t], server')
<1> DEFINE n == call[t].node
<1>0. /\ pc[t] = "subscribe" /\ IsServer(server) /\ response[t] = Unknown
      /\ call[t].type = "subscribe" /\ DOMAIN response = Threads /\ DOMAIN result = Threads
  BY DEF NInv, Control, Knowledge, StageInv, ShapeInv, Subscribe
<1>1. result'[t] \in {"MIO_OK", "error"}
  <2>1. Return(t, "MIO_OK") \/ Return(t, "error")
    BY DEF Subscribe
  <2> QED
    BY <1>0, <2>1 DEF Return
<1>2. CASE Respond(t, Error) \/ UNCHANGED response
  <2>1. response'[t].type \notin {"ok", "packet"}
    BY <1>0, <1>2, TypesOfResponses DEF Respond
  <2> QED
    BY <1>1, <2>1, NothingIsReported
<1>3. ASSUME FreeIds(server) # {}, NEW state \in {"subscribed", "pending"},
             Change(Subscribed(n, state)), Respond(t, SubscribeAnswer(state))
      PROVE  Reported(call[t], response'[t], result'[t], server')
  <2>1. response'[t] = SubscribeAnswer(state) /\ server' = Subscribed(n, state)
    BY <1>0, <1>3 DEF Respond, Change
  <2>2. CASE state = "subscribed"
    <3>1. n \in Nodes
      <4>1. StageInv /\ ShapeInv /\ pc[t] # "idle"
        BY <1>0 DEF NInv, Control
      <4> QED
        BY <1>0, <4>1, CallsAre
    <3>2. \E i \in DOMAIN server'.subscriptions :
            server'.subscriptions[i].node = n /\ server'.subscriptions[i].state = "subscribed"
      BY <1>0, <1>3, <2>1, <2>2, <3>1, SubscribedIs
    <3>3. response'[t].type = "ok"
      BY <2>1, <2>2, TypesOfResponses DEF SubscribeAnswer
    <3> QED
      BY <1>0, <1>1, <3>2, <3>3 DEF Reported
  <2>3. CASE state # "subscribed"
    <3>1. response'[t].type = "unknown"
      BY <2>1, <2>3, TypesOfResponses DEF SubscribeAnswer
    <3> QED
      BY <1>1, <3>1, NothingIsReported
  <2> QED
    BY <2>2, <2>3
<1> QED
  BY <1>2, <1>3 DEF Subscribe

LEMMA ReportHolds ==
  ASSUME NInv, [Next]_vars, NEW t \in Threads, pc[t] # "idle", pc'[t] = "idle"
  PROVE  Reported(call[t], response'[t], result'[t], server')
<1>0. Step(t) /\ pc \in [Threads -> Stages]
  BY StepOfThread DEF NInv, Control
<1>1. CASE UnknownAffiliation(t)
  <2>1. response'[t] = Unknown /\ result'[t] = "error"
    BY <1>1 DEF NInv, Control, StageInv, ShapeInv, UnknownAffiliation, Return
  <2> QED
    BY <2>1, TypesOfResponses, NothingIsReported
<1>2. ~Begin(t) /\ ~ChildrenQuery(t) /\ ~ConfigureParent(t) /\ ~ParentsQuery(t) /\ ~ChildRemove(t)
  BY <1>0 DEF Begin, ChildrenQuery, ConfigureParent, ParentsQuery, ChildRemove, Goto
<1> QED
  BY <1>0, <1>1, <1>2, SendReports, ConfigureChildReports, SubscriptionsQueryReports,
     SubscribeReports DEF Step

\* Whatever the other threads do: an addition whose query was answered, with no
\* change at the server since, keeps what was there and adds its entry at the end
\* (mio_collection_child_add), and what a call confirms, or gives to its caller,
\* is so at the server when it does.
THEOREM CallsStayExact == Spec => CallsAreExact
<1>1. NInv /\ [Next]_vars =>
        [\A t \in Threads : \A n \in DOMAIN server'.nodes \cap DOMAIN server.nodes :
           LET Adds(old, new, m) == new = IF m \in Range(old) THEN old ELSE Append(old, m)
               before == server.nodes[n]
               after == server'.nodes[n]
           IN /\ fresh[t] /\ pc[t] = "parent" /\ pc'[t] = "parents" /\ after # before
                 /\ before.type = "collection" =>
                   Adds(before.children, after.children, call[t].child)
              /\ fresh[t] /\ pc[t] = "child" /\ pc'[t] = "idle" /\ after # before =>
                   Adds(before.parents, after.parents, call[t].parent)]_vars
  BY ParentKeeps, ChildKeeps DEF Added
<1>2. NInv /\ [Next]_vars =>
        [\A t \in Threads : pc[t] # "idle" /\ pc'[t] = "idle" =>
           Reported(call[t], response'[t], result'[t], server')]_vars
  BY ReportHolds
<1> QED
  BY <1>1, <1>2, NInvAlways, PTL DEF Spec, CallsAreExact, AdditionKeeps, ReportIsTrue
-------------------------------------------------------------------------------
(* What the nodes hold, for any number of clients, any item at first and any
   calls of the kinds that MioItems assumes: what clients publish of a
   schedule, and of readings, is sound, and an edit of a schedule is exact.

   An item is well-formed because everything a client publishes is, whatever
   it was answered.  That an edit is exact needs more: as long as nobody has
   published since the answer, the copy is the item; the events of the item
   are numbered by position; and a recurrence is published as it was received.
   What merging a list of events gives is proved by following it: one event at
   a time is written over one of the list or behind it. *)

CONSTANTS Clients, ItemStarts, ItemCalls
VARIABLES kind, item, copy, sent

Items == INSTANCE MioItems WITH Starts <- ItemStarts, Calls <- ItemCalls

\* The events with texts T and recurrences R.
Events(T, R) == [id : Int, text : T, recurrence : R]
Members(T, R) == None \in T /\ None \in R /\ \A r \in R : r # None => Items!IsRecurrence(r)

\* Such events are events, and made of their members.
LEMMA EventIs ==
  ASSUME NEW T, NEW R, Members(T, R), NEW e \in Events(T, R)
  PROVE  /\ e.id \in Int /\ e.text \in T /\ e.recurrence \in R
         /\ e = [id |-> e.id, text |-> e.text, recurrence |-> e.recurrence]
         /\ Items!IsEvent(e)
<1>1. /\ e.id \in Int /\ e.text \in T /\ e.recurrence \in R
      /\ e = [id |-> e.id, text |-> e.text, recurrence |-> e.recurrence]
  BY DEF Events
<1>2. e.recurrence # None => Items!IsRecurrence(e.recurrence)
  BY <1>1 DEF Members
<1> QED
  BY <1>1, <1>2 DEF Items!IsEvent

\* A function on 1..n is a sequence of n elements.
LEMMA ListOf ==
  ASSUME NEW n \in Nat, NEW S, NEW f, f \in [1..n -> S]
  PROVE  f \in Seq(S) /\ Len(f) = n /\ DOMAIN f = 1..n
  OBVIOUS

\* A list of events is one of events over some texts and recurrences.
LEMMA SeqOfEvents ==
  ASSUME NEW s, Items!IsEvents(s), NEW T, NEW R, Members(T, R),
         \A i \in DOMAIN s : s[i].text \in T /\ s[i].recurrence \in R
  PROVE  s \in Seq(Events(T, R))
<1>1. s \in Seq({s[i] : i \in DOMAIN s}) /\ \A i \in DOMAIN s : Items!IsEvent(s[i])
  BY DEF Items!IsEvents
<1>2. \A i \in DOMAIN s : s[i] \in Events(T, R)
  <2> SUFFICES ASSUME NEW i \in DOMAIN s PROVE s[i] \in Events(T, R)
    OBVIOUS
  <2>1. /\ s[i].id \in Int /\ s[i].text \in T /\ s[i].recurrence \in R
        /\ s[i] = [id |-> s[i].id, text |-> s[i].text, recurrence |-> s[i].recurrence]
    BY <1>1 DEF Items!IsEvent
  <2> QED
    BY <2>1 DEF Events
<1>3. DOMAIN s = 1..Len(s) /\ Len(s) \in Nat
  BY <1>1
<1>4. s = [i \in 1..Len(s) |-> s[i]]
  BY <1>1
<1> QED
  BY <1>2, <1>3, <1>4, ListOf

\* What an item holds of an event is what was published (mio_schedule_event_to_item and
\* the parser), except for a "byday".
LEMMA ParsedIsItem ==
  ASSUME NEW s, Items!IsEvents(s), None \notin Int
  PROVE  Items!EventsOfItem(s) = s
<1>1. s \in Seq({s[i] : i \in DOMAIN s}) /\ \A i \in DOMAIN s : Items!IsEvent(s[i])
  BY DEF Items!IsEvents
<1>2. ASSUME NEW i \in DOMAIN s PROVE Items!Overwrite(Items!EventNew, s[i]) = s[i]
  <2> DEFINE e == s[i]
  <2>1. /\ e.id \in Int
        /\ e = [id |-> e.id, text |-> e.text, recurrence |-> e.recurrence]
    BY <1>1 DEF Items!IsEvent
  <2> HIDE DEF e
  <2>2. e.id # None
    BY <2>1
  <2>3. Items!Overwrite(Items!EventNew, e)
          = [f \in {"id", "text", "recurrence"} |-> IF e[f] = None THEN Items!EventNew[f] ELSE e[f]]
    BY DEF Items!Overwrite, Items!EventNew
  <2>4. \A f \in {"id", "text", "recurrence"} :
          (IF e[f] = None THEN Items!EventNew[f] ELSE e[f]) = e[f]
    BY <2>2 DEF Items!EventNew
  <2>5. e = [f \in {"id", "text", "recurrence"} |-> e[f]]
    BY <2>1
  <2>6. Items!Overwrite(Items!EventNew, e) = [f \in {"id", "text", "recurrence"} |-> e[f]]
    BY <2>3, <2>4
  <2> QED
    BY <2>5, <2>6 DEF e
<1>3. s = [i \in DOMAIN s |-> s[i]]
  BY <1>1
<1> QED
  BY <1>2, <1>3 DEF Items!EventsOfItem

\* Renumbering changes the identifiers, which are then the positions (_mio_event_renumber).
LEMMA RenumberIs ==
  ASSUME NEW T, NEW R, Members(T, R), NEW s \in Seq(Events(T, R))
  PROVE  /\ Items!Renumber(s) \in Seq(Events(T, R)) /\ Len(Items!Renumber(s)) = Len(s)
         /\ \A i \in 1..Len(s) : Items!Renumber(s)[i] = [s[i] EXCEPT !.id = i - 1]
<1> DEFINE n == Len(s)
           q == [i \in 1..n |-> [s[i] EXCEPT !.id = i - 1]]
<1>1. n \in Nat /\ DOMAIN s = 1..n /\ \A i \in 1..n : s[i] \in Events(T, R)
  OBVIOUS
<1>2. Items!Renumber(s) = q
  BY <1>1 DEF Items!Renumber
<1>3. \A i \in 1..n : [s[i] EXCEPT !.id = i - 1] \in Events(T, R)
  <2> SUFFICES ASSUME NEW i \in 1..n PROVE [s[i] EXCEPT !.id = i - 1] \in Events(T, R)
    OBVIOUS
  <2>1. s[i] \in [id : Int, text : T, recurrence : R] /\ i - 1 \in Int
    BY <1>1 DEF Events
  <2> QED
    BY <2>1 DEF Events
<1> HIDE DEF n
<1>4. q \in [1..n -> Events(T, R)]
  BY <1>3
<1>5. q \in Seq(Events(T, R)) /\ Len(q) = n
  BY <1>1, <1>4, ListOf
<1>6. \A i \in 1..n : q[i] = [s[i] EXCEPT !.id = i - 1]
  OBVIOUS
<1> HIDE DEF q
<1> QED
  BY <1>2, <1>5, <1>6 DEF n

\* The item that is made of events (mio_schedule_event_to_item).
LEMMA ItemIs ==
  ASSUME NEW T, NEW R, Members(T, R), NEW s \in Seq(Events(T, R))
  PROVE  /\ DOMAIN Items!EventsToItem(s) = 1..Len(s)
         /\ \A i \in 1..Len(s) :
              Items!EventsToItem(s)[i] =
                [id |-> s[i].id, text |-> s[i].text,
                 recurrence |-> IF s[i].recurrence = None THEN None
                                ELSE Items!RecurrenceToStanza(s[i].recurrence)]
<1>1. DOMAIN s = 1..Len(s) /\ \A i \in 1..Len(s) : s[i] \in Events(T, R)
  OBVIOUS
<1>2. ASSUME NEW i \in 1..Len(s)
      PROVE  Items!EventsToItem(s)[i] =
               [id |-> s[i].id, text |-> s[i].text,
                recurrence |-> IF s[i].recurrence = None THEN None
                               ELSE Items!RecurrenceToStanza(s[i].recurrence)]
  <2> DEFINE e == s[i]
             x == IF e.recurrence = None THEN None ELSE Items!RecurrenceToStanza(e.recurrence)
  <2>1. e = [id |-> e.id, text |-> e.text, recurrence |-> e.recurrence]
    BY <1>1, EventIs
  <2>2. Items!EventsToItem(s)[i] = [e EXCEPT !.recurrence = x]
    BY <1>1 DEF Items!EventsToItem
  <2> HIDE DEF e, x
  <2>3. [e EXCEPT !.recurrence = x] = [id |-> e.id, text |-> e.text, recurrence |-> x]
    BY <2>1
  <2> QED
    BY <2>2, <2>3 DEF e, x
<1>3. DOMAIN Items!EventsToItem(s) = 1..Len(s)
  BY <1>1 DEF Items!EventsToItem
<1> QED
  BY <1>2, <1>3

\* A stanza of a recurrence is one, and making one of it again changes nothing.
LEMMA StanzaIs ==
  ASSUME NEW r, Items!IsRecurrence(r)
  PROVE  LET x == Items!RecurrenceToStanza(r)
         IN Items!IsRecurrence(x) /\ Items!RecurrenceToStanza(x) = x
<1> DEFINE F == {"freq", "bymonth", "byday"}
           day == IF r["byday"] = None THEN None ELSE r["bymonth"]
           x == [f \in F |-> IF f = "byday" THEN day ELSE r[f]]
<1>1. r = [f \in F |-> r[f]]
  BY DEF Items!IsRecurrence, Items!RecurrenceFields
<1>2. Items!RecurrenceToStanza(r) = x
  <2>1. Items!RecurrenceToStanza(r) = [r EXCEPT !["byday"] = day]
    BY DEF Items!RecurrenceToStanza
  <2> HIDE DEF day
  <2> QED
    BY <1>1, <2>1
<1>3. x["byday"] = day /\ x["bymonth"] = r["bymonth"] /\ x = [f \in F |-> x[f]]
  OBVIOUS
<1>4. Items!IsRecurrence(x)
  BY <1>3 DEF Items!IsRecurrence, Items!RecurrenceFields
<1>5. (IF x["byday"] = None THEN None ELSE x["bymonth"]) = x["byday"]
  BY <1>3
<1> HIDE DEF x
<1>6. Items!RecurrenceToStanza(x) = [x EXCEPT !["byday"] = x["byday"]]
  BY <1>5 DEF Items!RecurrenceToStanza
<1>7. [x EXCEPT !["byday"] = x["byday"]] = x
  BY <1>3
<1> QED
  BY <1>2, <1>4, <1>6, <1>7

\* What is published is a schedule, whatever events it is made of (mio_item_publish).
LEMMA PublishedIsSchedule ==
  ASSUME NEW T, NEW R, Members(T, R), NEW s \in Seq(Events(T, R))
  PROVE  Items!IsSchedule(Items!EventsToItem(Items!Renumber(s)))
<1> DEFINE q == Items!Renumber(s)
           t == Items!EventsToItem(q)
           n == Len(s)
<1>1. /\ q \in Seq(Events(T, R)) /\ Len(q) = n
      /\ \A i \in 1..n : q[i] = [s[i] EXCEPT !.id = i - 1]
  BY RenumberIs
<1>n. n \in Nat /\ \A i \in 1..n : s[i] \in Events(T, R) /\ q[i] \in Events(T, R)
  <2> HIDE DEF q
  <2> QED
    BY <1>1
<1>2. \A i \in 1..n : q[i].id = i - 1
  <2> SUFFICES ASSUME NEW i \in 1..n PROVE q[i].id = i - 1
    OBVIOUS
  <2>1. s[i] = [id |-> s[i].id, text |-> s[i].text, recurrence |-> s[i].recurrence]
    BY <1>n, EventIs
  <2>2. q[i] = [s[i] EXCEPT !.id = i - 1]
    BY <1>1
  <2> HIDE DEF q
  <2> QED
    BY <2>1, <2>2
<1> HIDE DEF q
<1>3. /\ DOMAIN t = 1..n
      /\ \A i \in 1..n : t[i] = [id |-> q[i].id, text |-> q[i].text,
                                 recurrence |-> IF q[i].recurrence = None THEN None
                                                ELSE Items!RecurrenceToStanza(q[i].recurrence)]
  BY <1>1, ItemIs
<1>4. t = [i \in DOMAIN t |-> t[i]]
  BY DEF Items!EventsToItem
<1> HIDE DEF t, n
<1>5. ASSUME NEW i \in DOMAIN t
      PROVE  /\ Items!IsEvent(t[i]) /\ t[i].id = i - 1
             /\ t[i].recurrence # None
                  => t[i].recurrence = Items!RecurrenceToStanza(t[i].recurrence)
  <2>1. i \in 1..n
    BY <1>3, <1>5
  <2> DEFINE e == q[i]
             x == IF e.recurrence = None THEN None ELSE Items!RecurrenceToStanza(e.recurrence)
  <2>2. /\ t[i] = [id |-> e.id, text |-> e.text, recurrence |-> x] /\ e.id = i - 1
        /\ e \in Events(T, R)
    BY <1>2, <1>3, <1>n, <2>1
  <2>3. e.recurrence # None => Items!IsRecurrence(e.recurrence)
    BY <2>2, EventIs DEF Items!IsEvent
  <2>4. x # None => Items!IsRecurrence(x) /\ x = Items!RecurrenceToStanza(x)
    BY <2>3, StanzaIs
  <2> HIDE DEF e, x
  <2>5. t[i].id = i - 1 /\ t[i].text = e.text /\ t[i].recurrence = x /\ i - 1 \in Int
    BY <1>n, <2>1, <2>2
  <2>6. t[i] = [id |-> t[i].id, text |-> t[i].text, recurrence |-> t[i].recurrence]
    BY <2>2, <2>5
  <2>7. Items!IsEvent(t[i])
    BY <2>4, <2>5, <2>6 DEF Items!IsEvent
  <2> QED
    BY <2>4, <2>5, <2>7
<1>6. t \in Seq({t[i] : i \in DOMAIN t})
  <2> DEFINE S == {t[i] : i \in DOMAIN t}
  <2>1. t \in [1..n -> S]
    BY <1>3, <1>4
  <2> HIDE DEF S
  <2>2. t \in Seq(S)
    BY <1>n, <2>1, ListOf
  <2> QED
    BY <2>2 DEF S
<1>7. Items!IsEvents(t)
  BY <1>5, <1>6 DEF Items!IsEvents
<1>8. Items!IsSchedule(t)
  BY <1>5, <1>7 DEF Items!IsSchedule
<1> QED
  BY <1>8 DEF t, q

\* Two lists of events are lists over the same texts and recurrences.
LEMMA CommonMembers ==
  ASSUME NEW s, NEW q, Items!IsEvents(s), Items!IsEvents(q)
  PROVE  \E T, R : Members(T, R) /\ s \in Seq(Events(T, R)) /\ q \in Seq(Events(T, R))
<1> DEFINE Of(l) == {l[i].text : i \in DOMAIN l}
           In(l) == {l[i].recurrence : i \in DOMAIN l}
           T == Of(s) \cup Of(q) \cup {None}
           R == In(s) \cup In(q) \cup {None}
<1>1. \A r \in R : r # None => Items!IsRecurrence(r)
  <2>1. ASSUME NEW l, Items!IsEvents(l), NEW r \in In(l), r # None
        PROVE  Items!IsRecurrence(r)
    BY <2>1 DEF Items!IsEvents, Items!IsEvent
  <2> HIDE DEF In
  <2> QED
    BY <2>1
<1>2. Members(T, R)
  BY <1>1 DEF Members
<1>3. \A i \in DOMAIN s : s[i].text \in T /\ s[i].recurrence \in R
  OBVIOUS
<1>4. \A i \in DOMAIN q : q[i].text \in T /\ q[i].recurrence \in R
  OBVIOUS
<1> HIDE DEF T, R
<1>5. s \in Seq(Events(T, R))
  BY <1>2, <1>3, SeqOfEvents
<1>6. q \in Seq(Events(T, R))
  BY <1>2, <1>4, SeqOfEvents
<1> QED
  BY <1>2, <1>5, <1>6

\* Where the first event with an identifier is, or 0.
LEMMA EventAtIs ==
  ASSUME NEW T, NEW R, Members(T, R), NEW s \in Seq(Events(T, R)), NEW id, NEW at,
         at = Items!EventAt(s, id)
  PROVE  \/ at = 0 /\ \A i \in 1..Len(s) : s[i].id # id
         \/ at \in 1..Len(s) /\ s[at].id = id /\ \A i \in 1..Len(s) : s[i].id = id => at <= i
<1> DEFINE I == {i \in 1..Len(s) : s[i].id = id}
<1>0. Len(s) \in Nat
  OBVIOUS
<1>1. at = IF I # {} THEN Items!Min(I) ELSE 0
  BY DEF Items!EventAt, Items!SelectInSeq
<1>2. I \subseteq Nat
  BY <1>0
<1>3. CASE I = {}
  BY <1>1, <1>3
<1>4. CASE I # {}
  <2>1. \E m \in I : \A k \in I : m <= k
    BY <1>2, <1>4, Least
  <2>2. at \in I /\ \A k \in I : at <= k
    <3> HIDE DEF I
    <3> QED
      BY <1>1, <1>4, <2>1 DEF Items!Min
  <2> QED
    BY <2>2
<1> QED
  BY <1>3, <1>4

\* An event of the caller written over another (mio_schedule_event_merge).
Over(old, new) ==
  [id |-> old.id, text |-> IF new.text = None THEN old.text ELSE new.text,
   recurrence |-> IF new.recurrence = None THEN old.recurrence ELSE new.recurrence]

LEMMA MergeEventIs ==
  ASSUME NEW T, NEW R, Members(T, R), NEW old \in Events(T, R), NEW new \in Events(T, R)
  PROVE  /\ Items!MergeEvent(old, new) = Over(old, new)
         /\ Over(old, new) \in Events(T, R)
<1>1. /\ old.id \in Int /\ old.text \in T /\ old.recurrence \in R
      /\ new.text \in T /\ new.recurrence \in R
  BY EventIs
<1>2. new.recurrence # None
        => Items!RecurrenceMerge(Items!RecurrenceNew, new.recurrence) = new.recurrence
  <2> SUFFICES ASSUME new.recurrence # None
               PROVE  Items!RecurrenceMerge(Items!RecurrenceNew, new.recurrence) = new.recurrence
    OBVIOUS
  <2> DEFINE r == new.recurrence
             F == {"freq", "bymonth", "byday"}
  <2>1. r = [f \in F |-> r[f]]
    BY <1>1 DEF Members, Items!IsRecurrence, Items!RecurrenceFields
  <2> HIDE DEF r
  <2>2. Items!RecurrenceMerge(Items!RecurrenceNew, r) = [f \in F |-> IF r[f] = None THEN None ELSE r[f]]
    BY DEF Items!RecurrenceMerge, Items!RecurrenceNew, Items!Overwrite, Items!RecurrenceFields
  <2>3. \A f \in F : (IF r[f] = None THEN None ELSE r[f]) = r[f]
    OBVIOUS
  <2> QED
    BY <2>1, <2>2, <2>3 DEF r
<1>3. Items!MergeEvent(old, new) = Over(old, new)
  BY <1>2 DEF Items!MergeEvent, Over
<1>4. Over(old, new) \in Events(T, R)
  BY <1>1 DEF Over, Events
<1> QED
  BY <1>3, <1>4

\* A new event has no members and the identifier -1 (mio_event_new).
LEMMA NewEventIs ==
  ASSUME NEW T, NEW R, Members(T, R)
  PROVE  /\ Items!EventNew \in Events(T, R) /\ Items!EventNew.id = -1
         /\ Items!EventNew.text = None /\ Items!EventNew.recurrence = None
  BY DEF Items!EventNew, Events, Members

\* The list q is s with x merged into it.
OneMerged(s, x, q) ==
  \/ /\ \A i \in 1..Len(s) : s[i].id # x.id
     /\ Len(q) = Len(s) + 1 /\ q[Len(s) + 1] = Over(Items!EventNew, x)
     /\ \A i \in 1..Len(s) : q[i] = s[i]
  \/ \E at \in 1..Len(s) :
       /\ s[at].id = x.id /\ \A i \in 1..Len(s) : s[i].id = x.id => at <= i
       /\ Len(q) = Len(s)
       /\ \A i \in 1..Len(s) : q[i] = IF i = at THEN Over(s[at], x) ELSE s[i]

\* Merging one event writes it over the first of its identifier, or appends it.
LEMMA MergeOneIs ==
  ASSUME NEW T, NEW R, Members(T, R), NEW s \in Seq(Events(T, R)), NEW x \in Events(T, R),
         NEW q, q = Items!MergeOne(s, x)
  PROVE  /\ q \in Seq(Events(T, R))
         /\ OneMerged(s, x, q)
<1> DEFINE at == Items!EventAt(s, x.id)
           E == Events(T, R)
<1>1. \/ at = 0 /\ \A i \in 1..Len(s) : s[i].id # x.id
      \/ at \in 1..Len(s) /\ s[at].id = x.id /\ \A i \in 1..Len(s) : s[i].id = x.id => at <= i
  BY EventAtIs
<1>2. q = IF at = 0 THEN Append(s, Items!MergeEvent(Items!EventNew, x))
          ELSE [s EXCEPT ![at] = Items!MergeEvent(s[at], x)]
  BY DEF Items!MergeOne
<1>3. Len(s) \in Nat /\ \A i \in 1..Len(s) : s[i] \in E
  OBVIOUS
<1>e. s \in Seq(E)
  OBVIOUS
<1> HIDE DEF at, E
<1>4. CASE at = 0
  <2>1. Items!MergeEvent(Items!EventNew, x) = Over(Items!EventNew, x) /\ Over(Items!EventNew, x) \in E
    BY NewEventIs, MergeEventIs DEF E
  <2>2. q = Append(s, Over(Items!EventNew, x))
    BY <1>2, <1>4, <2>1
  <2>3. /\ q \in Seq(E) /\ Len(q) = Len(s) + 1 /\ q[Len(s) + 1] = Over(Items!EventNew, x)
        /\ \A i \in 1..Len(s) : q[i] = s[i]
    BY <1>e, <2>1, <2>2
  <2>4. \A i \in 1..Len(s) : s[i].id # x.id
    BY <1>1, <1>3, <1>4
  <2> QED
    BY <2>3, <2>4 DEF E, OneMerged
<1>5. CASE at # 0
  <2>1. at \in 1..Len(s) /\ s[at].id = x.id /\ \A i \in 1..Len(s) : s[i].id = x.id => at <= i
    BY <1>1, <1>5
  <2>2. Items!MergeEvent(s[at], x) = Over(s[at], x) /\ Over(s[at], x) \in E
    <3>1. s[at] \in Events(T, R)
      BY <1>3, <2>1 DEF E
    <3> QED
      BY <3>1, MergeEventIs DEF E
  <2>3. q = [s EXCEPT ![at] = Over(s[at], x)]
    BY <1>2, <1>5, <2>2
  <2> DEFINE o == Over(s[at], x)
  <2> HIDE DEF o
  <2>4. /\ q \in Seq(E) /\ Len(q) = Len(s)
        /\ \A i \in 1..Len(s) : q[i] = IF i = at THEN o ELSE s[i]
    BY <1>e, <2>1, <2>2, <2>3 DEF o
  <2> QED
    BY <2>1, <2>4 DEF E, o, OneMerged
<1> QED
  BY <1>4, <1>5

\* A sequence without one of its elements.
LEMMA RemovedIs ==
  ASSUME NEW S, NEW s \in Seq(S), NEW at \in 1..Len(s), NEW q, q = Items!RemoveAt(s, at)
  PROVE  /\ q \in Seq(S) /\ Len(q) = Len(s) - 1
         /\ \A i \in 1..(Len(s) - 1) : q[i] = s[IF i < at THEN i ELSE i + 1]
<1> DEFINE a == SubSeq(s, 1, at - 1)
           b == SubSeq(s, at + 1, Len(s))
<1>1. Len(s) \in Nat /\ at \in Nat /\ 1 <= at /\ at <= Len(s)
  OBVIOUS
<1>2. /\ a \in Seq(S) /\ Len(a) = at - 1
      /\ \A i \in 1..(at - 1) : a[i] = s[i]
  <2>1. 1 \in 1..(Len(s) + 1) /\ at - 1 \in 0..Len(s)
    BY <1>1
  <2> QED
    BY <1>1, <2>1, SubSeqProperties
<1>3. /\ b \in Seq(S) /\ Len(b) = Len(s) - at
      /\ \A i \in 1..(Len(s) - at) : b[i] = s[at + i]
  <2>1. at + 1 \in 1..(Len(s) + 1) /\ Len(s) \in at..Len(s)
    BY <1>1
  <2> QED
    BY <1>1, <2>1, SubSeqProperties
<1>4. q = a \o b
  BY DEF Items!RemoveAt
<1> HIDE DEF a, b
<1>5. /\ q \in Seq(S) /\ Len(q) = Len(a) + Len(b)
      /\ \A i \in 1..(Len(a) + Len(b)) : q[i] = IF i <= Len(a) THEN a[i] ELSE b[i - Len(a)]
  <2>1. a \in Seq(S) /\ b \in Seq(S)
    BY <1>2, <1>3
  <2>2. /\ a \o b \in Seq(S) /\ Len(a \o b) = Len(a) + Len(b)
        /\ \A i \in 1..(Len(a) + Len(b)) : (a \o b)[i] = IF i <= Len(a) THEN a[i] ELSE b[i - Len(a)]
    BY <2>1, ConcatProperties
  <2> QED
    BY <1>4, <2>2
<1>6. Len(q) = Len(s) - 1
  BY <1>1, <1>2, <1>3, <1>5
<1>7. ASSUME NEW i \in 1..(Len(s) - 1) PROVE q[i] = s[IF i < at THEN i ELSE i + 1]
  <2>1. i \in 1..(Len(a) + Len(b)) /\ i \in Nat
    BY <1>1, <1>2, <1>3
  <2>2. CASE i < at
    <3>1. i <= Len(a) /\ i \in 1..(at - 1)
      BY <1>1, <1>2, <2>1, <2>2
    <3> QED
      BY <1>2, <1>5, <2>1, <2>2, <3>1
  <2>3. CASE ~(i < at)
    <3>1. ~(i <= Len(a)) /\ i - Len(a) = i - at + 1 /\ i - at + 1 \in 1..(Len(s) - at)
          /\ at + (i - at + 1) = i + 1
      BY <1>1, <1>2, <2>1, <2>3
    <3>2. q[i] = b[i - at + 1] /\ b[i - at + 1] = s[i + 1]
      BY <1>3, <1>5, <2>1, <3>1
    <3> QED
      BY <2>3, <3>2
  <2> QED
    BY <2>2, <2>3
<1> QED
  BY <1>5, <1>6, <1>7

\* mio_schedule_event_remove before it renumbers: the first event of the identifier
\* is taken out.
LEMMA RemoveEventIs ==
  ASSUME NEW T, NEW R, Members(T, R), NEW s \in Seq(Events(T, R)), NEW id
  PROVE  \E q \in Seq(Events(T, R)) :
           /\ Items!RemoveEvent(s, id) = Items!Renumber(q)
           /\ \/ q = s /\ \A i \in 1..Len(s) : s[i].id # id
              \/ \E at \in 1..Len(s) :
                   /\ s[at].id = id /\ Len(q) = Len(s) - 1
                   /\ \A i \in 1..(Len(s) - 1) : q[i] = s[IF i < at THEN i ELSE i + 1]
<1> DEFINE at == Items!EventAt(s, id)
           E == Events(T, R)
<1>1. \/ at = 0 /\ \A i \in 1..Len(s) : s[i].id # id
      \/ at \in 1..Len(s) /\ s[at].id = id /\ \A i \in 1..Len(s) : s[i].id = id => at <= i
  BY EventAtIs
<1>2. Items!RemoveEvent(s, id) = Items!Renumber(IF at = 0 THEN s ELSE Items!RemoveAt(s, at))
  BY DEF Items!RemoveEvent
<1>3. Len(s) \in Nat /\ s \in Seq(E)
  OBVIOUS
<1> HIDE DEF at, E
<1>4. CASE at = 0
  <2>1. \A i \in 1..Len(s) : s[i].id # id
    BY <1>1, <1>3, <1>4
  <2>2. Items!RemoveEvent(s, id) = Items!Renumber(s)
    BY <1>2, <1>4
  <2> QED
    BY <1>3, <2>1, <2>2 DEF E
<1>5. CASE at # 0
  <2>1. at \in 1..Len(s) /\ s[at].id = id
    BY <1>1, <1>5
  <2> DEFINE q == Items!RemoveAt(s, at)
  <2>2. /\ q \in Seq(E) /\ Len(q) = Len(s) - 1
        /\ \A i \in 1..(Len(s) - 1) : q[i] = s[IF i < at THEN i ELSE i + 1]
    BY <1>3, <2>1, RemovedIs
  <2>3. Items!RemoveEvent(s, id) = Items!Renumber(q)
    BY <1>2, <1>5
  <2> HIDE DEF q
  <2> QED
    BY <2>1, <2>2, <2>3 DEF E
<1> QED
  BY <1>4, <1>5

\* What a list is when the first k of news have been merged into events.
Merging(f, events, news) ==
  /\ f[0] = events
  /\ \A k \in 1..Len(news) : f[k] = Items!MergeOne(f[k-1], news[k])

\* Merging events one after the other (mio_schedule_event_merge).
LEMMA MergeEventsIs ==
  ASSUME NEW T, NEW R, Members(T, R), NEW s \in Seq(Events(T, R)), NEW news \in Seq(Events(T, R))
  PROVE  \E f \in [0..Len(news) -> Seq(Events(T, R))] :
           Merging(f, s, news) /\ Items!MergeEvents(s, news) = Items!Renumber(f[Len(news)])
<1> DEFINE N == Len(news)
           D == Seq(Events(T, R))
           step == [k \in 1..N |-> [l \in D |-> Items!MergeOne(l, news[k])]]
           Eq(g) == g = [i \in 0..N |-> IF i = 0 THEN s ELSE Items!MergeOne(g[i-1], news[i])]
<1>1. N \in Nat /\ s \in D /\ \A k \in 1..N : news[k] \in Events(T, R)
  OBVIOUS
<1>2. step \in [1..N -> [D -> D]]
  <2> SUFFICES ASSUME NEW k \in 1..N, NEW l \in D PROVE Items!MergeOne(l, news[k]) \in D
    OBVIOUS
  <2>1. news[k] \in Events(T, R) /\ l \in Seq(Events(T, R))
    BY <1>1
  <2> DEFINE q == Items!MergeOne(l, news[k])
  <2>2. q \in Seq(Events(T, R))
    BY <2>1, MergeOneIs
  <2> QED
    BY <2>2
<1> HIDE DEF D, N
<1> HIDE DEF step
<1>r. Solvable(D, s, N, step)
  BY <1>1, <1>2, Recursion
<1>3. PICK f \in [0..N -> D] : f[0] = s /\ \A k \in 1..N : f[k] = step[k][f[k-1]]
  BY <1>r DEF Solvable
<1> USE DEF step
<1>4. \A k \in 1..N : k \in 0..N /\ k - 1 \in 0..N /\ k # 0 /\ f[k-1] \in D
  BY <1>1, <1>3
<1>5. \A k \in 1..N : f[k] = Items!MergeOne(f[k-1], news[k])
  BY <1>3, <1>4
<1> HIDE DEF step
<1>6. Eq(f)
  <2>1. \A i \in 0..N : i # 0 => i \in 1..N
    BY <1>1
  <2>2. \A i \in 0..N : f[i] = IF i = 0 THEN s ELSE Items!MergeOne(f[i-1], news[i])
    BY <1>3, <1>5, <2>1
  <2> QED
    BY <1>3, <2>2
<1> DEFINE K == CHOOSE g : Eq(g)
<1>7. Items!MergeEvents(s, news) = Items!Renumber(K[N])
  BY DEF Items!MergeEvents, N
<1>8. Eq(K)
  BY <1>6
<1> HIDE DEF K
<1>9. K[0] = s /\ \A i \in 1..N : K[i] = Items!MergeOne(K[i-1], news[i])
  <2>1. 0 \in 0..N
    BY <1>1
  <2>2. \A i \in 0..N : K[i] = IF i = 0 THEN s ELSE Items!MergeOne(K[i-1], news[i])
    BY <1>8
  <2> QED
    BY <1>4, <2>1, <2>2
<1>10. DOMAIN K = 0..N
  BY <1>8
<1> HIDE DEF Eq
<1>11. \A i \in 0..N : K[i] \in D
  <2> DEFINE bad == {i \in 0..N : K[i] \notin D}
  <2> SUFFICES ASSUME bad # {} PROVE FALSE
    OBVIOUS
  <2>0. bad \subseteq Nat
    BY <1>1
  <2>1. PICK m \in bad : \A k \in bad : m <= k
    <3> HIDE DEF bad
    <3> QED
      BY <2>0, Least
  <2>2. m # 0
    BY <1>1, <1>9
  <2>3. m \in 1..N /\ m - 1 \in 0..N /\ m - 1 \notin bad
    BY <1>1, <2>1, <2>2
  <2>4. K[m-1] \in Seq(Events(T, R)) /\ news[m] \in Events(T, R)
    BY <1>1, <2>3 DEF D
  <2>5. K[m] \in Seq(Events(T, R))
    <3>1. K[m] = Items!MergeOne(K[m-1], news[m])
      BY <1>9, <2>3
    <3> DEFINE l == K[m-1]
               x == news[m]
    <3>2. l \in Seq(Events(T, R)) /\ x \in Events(T, R) /\ K[m] = Items!MergeOne(l, x)
      BY <2>4, <3>1
    <3> HIDE DEF l, x
    <3> QED
      BY <3>2, MergeOneIs
  <2> QED
    BY <2>5, <2>1 DEF D
<1>12. K = [i \in 0..N |-> K[i]]
  BY <1>8 DEF Eq
<1>13. K \in [0..N -> D]
  BY <1>11, <1>12
<1>14. Merging(K, s, news)
  BY <1>9 DEF Merging, N
<1> QED
  BY <1>7, <1>13, <1>14 DEF N, D

\* The module of the items counts as this one does.
LEMMA SameCardinality ==
  \A S : Items!Cardinality(S) = Cardinality(S)
  BY DEF Items!Cardinality, Cardinality

\* A set of numbers from 1 to N and what it holds up to each of them.
Counted(P, N) ==
  /\ Items!UpTo(P, 0) = {} /\ Items!UpTo(P, N) = P
  /\ \A k \in 0..N : /\ Cardinality(Items!UpTo(P, k)) \in Nat
                     /\ Cardinality(Items!UpTo(P, k)) = 0 => Items!UpTo(P, k) = {}
  /\ \A k \in 1..N :
       /\ k \in P => Cardinality(Items!UpTo(P, k)) = Cardinality(Items!UpTo(P, k-1)) + 1
       /\ k \notin P => Items!UpTo(P, k) = Items!UpTo(P, k-1)

\* The numbers of a set up to k are counted by one more, or they are the same.
LEMMA CountUpTo ==
  ASSUME NEW N \in Nat, NEW P, P \subseteq 1..N
  PROVE  Counted(P, N)
<1> DEFINE U(k) == {i \in P : i <= k}
<1>u. \A k : Items!UpTo(P, k) = U(k)
  BY DEF Items!UpTo
<1>0. \A i \in P : i \in Int /\ 1 <= i /\ i <= N
  OBVIOUS
<1>1. U(0) = {} /\ U(N) = P
  <2>1. \A i \in P : ~(i <= 0)
    BY <1>0
  <2> QED
    BY <1>0, <2>1, Zenon
<1>2. \A k \in 0..N : IsFiniteSet(U(k))
  <2> SUFFICES ASSUME NEW k \in 0..N PROVE IsFiniteSet(U(k))
    OBVIOUS
  <2>1. U(k) \in SUBSET (1..N) /\ IsFiniteSet(1..N)
    <3>1. U(k) \in SUBSET (1..N)
      BY Zenon
    <3> QED
      BY <3>1, FS_Interval
  <2> QED
    BY <2>1, FS_Subset
<1>3. \A k \in 1..N : /\ k \in P => U(k) = U(k-1) \cup {k}
                      /\ k \notin P => U(k) = U(k-1)
                      /\ k \notin U(k-1) /\ k - 1 \in 0..N
  <2> SUFFICES ASSUME NEW k \in 1..N
               PROVE  /\ k \in P => U(k) = U(k-1) \cup {k}
                      /\ k \notin P => U(k) = U(k-1)
                      /\ k \notin U(k-1) /\ k - 1 \in 0..N
    OBVIOUS
  <2>1. \A i \in P : i <= k <=> (i <= k - 1 \/ i = k)
    BY <1>0
  <2>2. ~(k <= k - 1) /\ k - 1 \in 0..N
    OBVIOUS
  <2>3. \A i : i \in U(k) <=> (i \in U(k-1) \/ (i = k /\ k \in P))
    BY <2>1, Zenon
  <2>4. k \notin U(k-1)
    BY <2>2, Zenon
  <2> HIDE DEF U
  <2> QED
    BY <2>2, <2>3, <2>4
<1> HIDE DEF U
<1>4. \A k \in 0..N : Cardinality(U(k)) \in Nat /\ (Cardinality(U(k)) = 0 => U(k) = {})
  BY <1>2, FS_CardinalityType, FS_EmptySet
<1>5. \A k \in 1..N : k \in P => Cardinality(U(k)) = Cardinality(U(k-1)) + 1
  <2> SUFFICES ASSUME NEW k \in 1..N, k \in P
               PROVE  Cardinality(U(k)) = Cardinality(U(k-1)) + 1
    OBVIOUS
  <2> DEFINE V == U(k-1)
  <2>1. U(k) = V \cup {k} /\ k \notin V /\ IsFiniteSet(V)
    BY <1>2, <1>3
  <2> HIDE DEF V
  <2>2. Cardinality(V \cup {k}) = Cardinality(V) + 1
    BY <2>1, FS_AddElement
  <2> QED
    BY <2>1, <2>2 DEF V
<1> QED
  BY <1>u, <1>1, <1>3, <1>4, <1>5 DEF Counted

\* The last value is the first one, or the one given last.
LastIs(G, N, v, w) ==
  /\ G = {} => v[N] = v[0]
  /\ \A j \in 1..N : j \in G /\ Items!UpTo(G, j) = G => v[N] = w[j]

\* Something that is given now and then is at the end what was given last.
LEMMA LastGiven ==
  ASSUME NEW N \in Nat, NEW G, G \subseteq 1..N, NEW v, NEW w,
         \A k \in 1..N : v[k] = IF k \in G THEN w[k] ELSE v[k-1]
  PROVE  LastIs(G, N, v, w)
<1>1. ASSUME NEW j \in 0..N, \A k \in G : k <= j PROVE v[N] = v[j]
  <2> DEFINE bad == {k \in j..N : v[k] # v[j]}
  <2> SUFFICES ASSUME bad # {} PROVE FALSE
    <3>1. N \in j..N
      OBVIOUS
    <3> QED
      BY <3>1
  <2>0. bad \subseteq Nat
    OBVIOUS
  <2>1. PICK m \in bad : \A k \in bad : m <= k
    <3> HIDE DEF bad
    <3> QED
      BY <2>0, Least
  <2>2. m \in j..N /\ m # j /\ v[m] # v[j]
    BY <2>1
  <2>3. m - 1 \in j..N /\ m - 1 \notin bad /\ m \in 1..N /\ m \notin G
    BY <1>1, <2>1, <2>2
  <2>4. v[m-1] = v[j] /\ v[m] = v[m-1]
    BY <2>3
  <2> QED
    BY <2>2, <2>4
<1>2. G = {} => v[N] = v[0]
  BY <1>1
<1>3. ASSUME NEW j \in 1..N, j \in G, Items!UpTo(G, j) = G PROVE v[N] = w[j]
  <2>1. \A k \in G : k <= j
    BY <1>3 DEF Items!UpTo
  <2>2. v[N] = v[j] /\ v[j] = w[j]
    BY <1>1, <1>3, <2>1
  <2> QED
    BY <2>2
<1> QED
  BY <1>2, <1>3 DEF LastIs

\* The first n events of a list have their numbers, those behind them are new.
Numbered(l, n) == /\ n <= Len(l)
              /\ \A i \in 1..Len(l) : l[i].id = IF i <= n THEN i - 1 ELSE -1

\* The list q is l with x written over its i-th event, or over a new one behind it.
Written(l, q, i, x) ==
  /\ i \in 1..Len(q)
  /\ \/ Len(q) = Len(l) /\ q[i] = Over(l[i], x)
     \/ Len(q) = Len(l) + 1 /\ i = Len(q) /\ q[i] = Over(Items!EventNew, x)
  /\ \A h \in 1..Len(l) : h # i => q[h] = l[h]

\* Where one event is merged into such a list, which the outcome is too.
LEMMA MergeStep ==
  ASSUME NEW T, NEW R, Members(T, R), NEW l \in Seq(Events(T, R)), NEW x \in Events(T, R),
         NEW q, q = Items!MergeOne(l, x), NEW n \in Nat, n > 0, Numbered(l, n)
  PROVE  /\ x.id \in 0..(n-1) => Written(l, q, x.id + 1, x) /\ Len(q) = Len(l)
         /\ x.id \notin 0..(n-1) /\ (x.id # -1 \/ Len(l) = n)
              => Written(l, q, Len(l) + 1, x) /\ Len(q) = Len(l) + 1
         /\ x.id = -1 /\ Len(l) # n => Written(l, q, n + 1, x) /\ Len(q) = Len(l)
         /\ Numbered(q, n)
<1> DEFINE m == Len(l)
<1>1. m \in Nat /\ n <= m /\ \A i \in 1..m : l[i].id = IF i <= n THEN i - 1 ELSE -1
  BY DEF Numbered
<1>2. x.id \in Int
  BY EventIs
<1>3. /\ q \in Seq(Events(T, R))
      /\ \/ /\ \A i \in 1..m : l[i].id # x.id
            /\ Len(q) = m + 1 /\ q[m + 1] = Over(Items!EventNew, x)
            /\ \A i \in 1..m : q[i] = l[i]
         \/ \E at \in 1..m :
              /\ l[at].id = x.id /\ \A i \in 1..m : l[i].id = x.id => at <= i
              /\ Len(q) = m
              /\ \A i \in 1..m : q[i] = IF i = at THEN Over(l[at], x) ELSE l[i]
  <2>1. q \in Seq(Events(T, R)) /\ OneMerged(l, x, q)
    BY MergeOneIs
  <2> QED
    BY <2>1, Zenon DEF OneMerged
<1>o. \A e : Over(e, x).id = e.id
  BY DEF Over
<1>e. Items!EventNew.id = -1
  BY NewEventIs
<1> HIDE DEF m
<1>4. CASE /\ \A i \in 1..m : l[i].id # x.id
           /\ Len(q) = m + 1 /\ q[m + 1] = Over(Items!EventNew, x)
           /\ \A i \in 1..m : q[i] = l[i]
  <2>1. ~(x.id \in 0..(n-1))
    <3> SUFFICES ASSUME x.id \in 0..(n-1) PROVE FALSE
      OBVIOUS
    <3>1. x.id + 1 \in 1..m /\ x.id + 1 <= n
      BY <1>1, <1>2
    <3>2. l[x.id + 1].id = x.id
      BY <1>1, <1>2, <3>1
    <3> QED
      BY <1>4, <3>1, <3>2
  <2>2. ~(x.id = -1 /\ m # n)
    <3> SUFFICES ASSUME x.id = -1, m # n PROVE FALSE
      OBVIOUS
    <3>1. n + 1 \in 1..m /\ ~(n + 1 <= n)
      BY <1>1
    <3> QED
      BY <1>1, <1>4, <3>1
  <2>3. Written(l, q, m + 1, x) /\ Len(q) = m + 1
    BY <1>1, <1>4 DEF Written, m
  <2>4. Numbered(q, n)
    <3>1. q[m+1].id = -1
      BY <1>4, <1>e, <1>o
    <3>2. ASSUME NEW i \in 1..(m + 1) PROVE q[i].id = IF i <= n THEN i - 1 ELSE -1
      <4>1. CASE i = m + 1
        BY <1>1, <3>1, <4>1
      <4>2. CASE i \in 1..m
        BY <1>1, <1>4, <4>2
      <4> QED
        BY <1>1, <4>1, <4>2
    <3> QED
      BY <1>1, <1>4, <3>2 DEF Numbered
  <2> QED
    BY <2>1, <2>2, <2>3, <2>4 DEF m
<1>5. ASSUME NEW at \in 1..m, l[at].id = x.id, \A i \in 1..m : l[i].id = x.id => at <= i,
             Len(q) = m, \A i \in 1..m : q[i] = IF i = at THEN Over(l[at], x) ELSE l[i]
      PROVE  /\ x.id \in 0..(n-1) => Written(l, q, x.id + 1, x) /\ Len(q) = m
             /\ x.id \notin 0..(n-1) => x.id = -1 /\ m # n
             /\ x.id = -1 => Written(l, q, n + 1, x) /\ Len(q) = m
             /\ Numbered(q, n)
  <2>1. x.id = IF at <= n THEN at - 1 ELSE -1
    BY <1>1, <1>5
  <2>2. x.id \in 0..(n-1) => x.id + 1 = at
    BY <1>1, <2>1
  <2>3. x.id \notin 0..(n-1) => x.id = -1 /\ m # n
    BY <1>1, <2>1
  <2>4. x.id = -1 => at = n + 1
    <3> SUFFICES ASSUME x.id = -1 PROVE at = n + 1
      OBVIOUS
    <3>1. at > n /\ n + 1 \in 1..m
      BY <1>1, <2>1
    <3>2. l[n+1].id = -1
      BY <1>1, <3>1
    <3>3. at <= n + 1
      BY <1>5, <3>1, <3>2
    <3> QED
      BY <3>1, <3>3, <1>1
  <2>5. Written(l, q, at, x)
    BY <1>5 DEF Written, m
  <2>6. Numbered(q, n)
    <3>1. \A i \in 1..m : q[i].id = l[i].id
      BY <1>5, <1>o
    <3> QED
      BY <1>1, <1>5, <3>1 DEF Numbered
  <2> QED
    BY <1>5, <2>2, <2>3, <2>4, <2>5, <2>6
<1>6. CASE \E at \in 1..m :
              /\ l[at].id = x.id /\ \A i \in 1..m : l[i].id = x.id => at <= i
              /\ Len(q) = m
              /\ \A i \in 1..m : q[i] = IF i = at THEN Over(l[at], x) ELSE l[i]
  <2>1. /\ x.id \in 0..(n-1) => Written(l, q, x.id + 1, x) /\ Len(q) = m
        /\ x.id \notin 0..(n-1) => x.id = -1 /\ m # n
        /\ x.id = -1 => Written(l, q, n + 1, x) /\ Len(q) = m
        /\ Numbered(q, n)
    BY <1>5, <1>6
  <2> QED
    BY <2>1 DEF m
<1> QED
  BY <1>3, <1>4, <1>6

\* Each of news is written into its slot, and the list grows with those that are appended.
MergedInSlots(f, n, news, P) ==
  /\ P \subseteq 1..Len(news)
  /\ \A k \in 0..Len(news) : Numbered(f[k], n) /\ Len(f[k]) = n + Cardinality(Items!UpTo(P, k))
  /\ \A k \in 1..Len(news) : Written(f[k-1], f[k], Items!Slot(n, news, k), news[k])

\* Merging news into numbered events writes each of them into its slot.
LEMMA MergeShape ==
  ASSUME NEW T, NEW R, Members(T, R), NEW old \in Seq(Events(T, R)), NEW news \in Seq(Events(T, R)),
         NEW n, n = Len(old), n > 0, \A i \in 1..n : old[i].id = i - 1,
         NEW f \in [0..Len(news) -> Seq(Events(T, R))], Merging(f, old, news),
         NEW P, P = Items!Appended(n, news)
  PROVE  MergedInSlots(f, n, news, P)
<1> DEFINE N == Len(news)
           A == {j \in 1..N : news[j].id \notin 0..(n-1)}
           c(k) == Cardinality(Items!UpTo(P, k))
           Fits(k) == Numbered(f[k], n) /\ Len(f[k]) = n + c(k)
<1>0. N \in Nat /\ n \in Nat /\ DOMAIN news = 1..N /\ \A k \in 1..N : news[k] \in Events(T, R)
  OBVIOUS
<1>a. Items!Added(n, news) = A
  BY <1>0 DEF Items!Added
<1>p. P = {j \in A : news[j].id # -1 \/ \A k \in A : j <= k}
  <2> HIDE DEF A
  <2>1. Items!Appended(n, news)
          = {j \in A : n = 0 \/ news[j].id # -1 \/ \A k \in A : j <= k}
    BY <1>a DEF Items!Appended
  <2> QED
    BY <1>0, <2>1
<1>s. \A j \in 1..N : Items!Slot(n, news, j) =
        IF j \notin A THEN news[j].id + 1 ELSE IF j \in P THEN n + c(j) ELSE n + 1
  <2> HIDE DEF A, N
  <2> QED
    BY <1>a, SameCardinality DEF Items!Slot
<1>1. P \subseteq 1..N
  BY <1>p
<1>2. /\ Items!UpTo(P, 0) = {}
      /\ \A k \in 0..N : c(k) \in Nat /\ (c(k) = 0 => Items!UpTo(P, k) = {})
      /\ \A k \in 1..N : /\ k \in P => c(k) = c(k-1) + 1
                         /\ k \notin P => Items!UpTo(P, k) = Items!UpTo(P, k-1)
  <2> HIDE DEF N
  <2>1. N \in Nat /\ P \subseteq 1..N
    BY <1>0, <1>1
  <2>2. Counted(P, N)
    BY <2>1, CountUpTo
  <2> QED
    BY <2>2, Zenon DEF Counted
<1>u. \A k, j : j \in Items!UpTo(P, k) <=> j \in P /\ j <= k
  BY DEF Items!UpTo
<1>f. \A k \in 1..N : f[k-1] \in Seq(Events(T, R)) /\ f[k] = Items!MergeOne(f[k-1], news[k])
  <2>1. \A k \in 1..N : k - 1 \in 0..N
    BY <1>0
  <2> QED
    BY <2>1 DEF Merging
<1>b. \A j \in A : \E m \in A : \A k \in A : m <= k
  <2>1. A \subseteq Nat
    BY <1>0
  <2> HIDE DEF A
  <2> QED
    BY <2>1, Least
<1>A. \A j \in 1..N : j \in A <=> news[j].id \notin 0..(n-1)
  OBVIOUS
<1>B. A \subseteq 1..N
  OBVIOUS
<1> HIDE DEF A, N
<1>3. ASSUME NEW k \in 1..N, Fits(k-1)
      PROVE  Fits(k) /\ Written(f[k-1], f[k], Items!Slot(n, news, k), news[k])
  <2> DEFINE l == f[k-1]
             q == f[k]
             x == news[k]
  <2>1. /\ l \in Seq(Events(T, R)) /\ x \in Events(T, R) /\ q = Items!MergeOne(l, x)
        /\ Numbered(l, n) /\ Len(l) = n + c(k-1)
    BY <1>0, <1>f, <1>3
  <2>n. k - 1 \in 0..N /\ k \in 0..N /\ n > 0 /\ n \in Nat
    BY <1>0
  <2>c. c(k-1) \in Nat /\ c(k) \in Nat
    BY <1>2, <2>n
  <2> HIDE DEF l, q, x
  <2>2. /\ x.id \in 0..(n-1) => Written(l, q, x.id + 1, x) /\ Len(q) = Len(l)
        /\ x.id \notin 0..(n-1) /\ (x.id # -1 \/ Len(l) = n)
             => Written(l, q, Len(l) + 1, x) /\ Len(q) = Len(l) + 1
        /\ x.id = -1 /\ Len(l) # n => Written(l, q, n + 1, x) /\ Len(q) = Len(l)
        /\ Numbered(q, n)
    BY <2>1, <2>n, MergeStep
  <2>3. CASE k \notin A
    <3>1. x.id \in 0..(n-1) /\ k \notin P
      BY <1>A, <1>p, <2>3 DEF x
    <3>2. c(k) = c(k-1) /\ Items!Slot(n, news, k) = x.id + 1
      BY <1>2, <1>s, <2>3, <3>1 DEF x
    <3> HIDE DEF c
    <3>3. Written(l, q, Items!Slot(n, news, k), x) /\ Numbered(q, n) /\ Len(q) = n + c(k)
      BY <2>1, <2>2, <3>1, <3>2
    <3> QED
      BY <3>3 DEF l, q, x
  <2>4. CASE k \in A /\ k \in P
    <3>1. x.id \notin 0..(n-1)
      BY <1>A, <2>4 DEF x
    <3>2. c(k) = c(k-1) + 1 /\ Items!Slot(n, news, k) = n + c(k)
      BY <1>2, <1>s, <2>4
    <3>3. x.id # -1 \/ Len(l) = n
      <4> SUFFICES ASSUME x.id = -1 PROVE Len(l) = n
        OBVIOUS
      <4>1. \A j \in A : k <= j
        BY <1>p, <2>4 DEF x
      <4>2. Items!UpTo(P, k - 1) = {}
        <5> SUFFICES ASSUME NEW j \in Items!UpTo(P, k - 1) PROVE FALSE
          OBVIOUS
        <5>1. j \in P /\ j <= k - 1 /\ j \in 1..N
          BY <1>1, <1>u
        <5>2. k <= j
          BY <4>1, <5>1, <1>p
        <5> QED
          BY <2>n, <5>1, <5>2, <1>0
      <4>3. c(k-1) = 0
        BY <4>2, FS_EmptySet
      <4> HIDE DEF c
      <4> QED
        BY <2>1, <2>n, <4>3
    <3> HIDE DEF c
    <3>4. Written(l, q, Len(l) + 1, x) /\ Numbered(q, n) /\ Len(q) = Len(l) + 1
      BY <2>2, <3>1, <3>3
    <3>5. Len(l) + 1 = n + c(k)
      BY <2>1, <2>c, <2>n, <3>2
    <3>6. Written(l, q, Items!Slot(n, news, k), x) /\ Numbered(q, n) /\ Len(q) = n + c(k)
      BY <3>2, <3>4, <3>5
    <3> QED
      BY <3>6 DEF l, q, x
  <2>5. CASE k \in A /\ k \notin P
    <3>1. x.id = -1
      BY <1>p, <2>5 DEF x
    <3>2. c(k) = c(k-1) /\ Items!Slot(n, news, k) = n + 1
      BY <1>2, <1>s, <2>5
    <3>3. c(k-1) # 0
      <4>1. PICK m \in A : \A j \in A : m <= j
        BY <1>b, <2>5
      <4>2. m \in P /\ m # k /\ m <= k
        BY <1>p, <2>5, <4>1
      <4>3. m \in Items!UpTo(P, k - 1)
        <5>1. m \in 1..N
          BY <1>B
        <5>2. m <= k - 1
          BY <4>2, <5>1, <1>0
        <5> QED
          BY <1>u, <4>2, <5>2
      <4> QED
        BY <1>2, <2>n, <4>3
    <3> HIDE DEF c
    <3>4. Len(l) # n
      BY <2>1, <2>c, <2>n, <3>3
    <3>5. Written(l, q, n + 1, x) /\ Numbered(q, n) /\ Len(q) = Len(l)
      BY <2>2, <3>1, <3>4
    <3>6. Written(l, q, Items!Slot(n, news, k), x) /\ Numbered(q, n) /\ Len(q) = n + c(k)
      BY <2>1, <3>2, <3>5
    <3> QED
      BY <3>6 DEF l, q, x
  <2> QED
    BY <2>3, <2>4, <2>5
<1>4. Fits(0)
  <2>1. f[0] = old
    BY DEF Merging
  <2>2. c(0) = 0
    BY <1>2, FS_EmptySet
  <2>3. Numbered(old, n)
    BY <1>0 DEF Numbered
  <2> HIDE DEF c
  <2> QED
    BY <1>0, <2>1, <2>2, <2>3
<1> HIDE DEF Fits
<1>5. \A k \in 0..N : Fits(k)
  <2> DEFINE bad == {k \in 0..N : ~Fits(k)}
  <2> SUFFICES ASSUME bad # {} PROVE FALSE
    OBVIOUS
  <2>0. bad \subseteq Nat
    BY <1>0
  <2>1. PICK m \in bad : \A k \in bad : m <= k
    <3> HIDE DEF bad
    <3> QED
      BY <2>0, Least
  <2>2. m # 0 /\ m \in 0..N /\ ~Fits(m)
    BY <1>4, <2>1
  <2>3. m \in 1..N /\ m - 1 \in 0..N /\ m - 1 \notin bad
    BY <1>0, <2>1, <2>2
  <2>4. Fits(m-1)
    BY <2>3
  <2> QED
    BY <1>3, <2>2, <2>3, <2>4
<1>6. \A k \in 1..N : Fits(k-1)
  <2>1. \A k \in 1..N : k - 1 \in 0..N
    BY <1>0
  <2> QED
    BY <1>5, <2>1
<1> QED
  BY <1>1, <1>3, <1>5, <1>6 DEF N, Fits, MergedInSlots

\* A member of the i-th event of a list, NULL before there is one.
Text(l, i) == IF i <= Len(l) THEN l[i].text ELSE None
Recurrence(l, i) == IF i <= Len(l) THEN l[i].recurrence ELSE None

\* Which of news give a member of the i-th event.
Texts(n, news, i) == {j \in 1..Len(news) : Items!Slot(n, news, j) = i /\ news[j].text # None}
Recurrences(n, news, i) ==
  {j \in 1..Len(news) : Items!Slot(n, news, j) = i /\ news[j].recurrence # None}

\* The member is the last one given, else what it was.
LastOr(given, value(_), before, after) ==
  /\ given = {} => after = before
  /\ \A j \in given : Items!UpTo(given, j) = given => after = value(j)

\* The list that old, of n events, is when news have been merged into it.
MembersSound(n, old, news, s) ==
  /\ Len(s) = n + Cardinality(Items!Appended(n, news))
  /\ \A i \in 1..Len(s) :
       /\ LastOr(Texts(n, news, i), LAMBDA j : news[j].text, Text(old, i), s[i].text)
       /\ LastOr(Recurrences(n, news, i), LAMBDA j : news[j].recurrence,
                 Recurrence(old, i), s[i].recurrence)

\* Writing an event writes the members it has.
LEMMA WrittenIs ==
  ASSUME NEW T, NEW R, Members(T, R), NEW l \in Seq(Events(T, R)), NEW q \in Seq(Events(T, R)),
         NEW x, NEW at, Written(l, q, at, x), NEW i \in Nat, i > 0
  PROVE  /\ Text(q, i) = IF at = i /\ x.text # None THEN x.text ELSE Text(l, i)
         /\ Recurrence(q, i) = IF at = i /\ x.recurrence # None THEN x.recurrence
                               ELSE Recurrence(l, i)
<1>1. /\ Len(l) \in Nat /\ Len(q) \in Nat /\ at \in 1..Len(q)
      /\ \/ Len(q) = Len(l) /\ q[at] = Over(l[at], x)
         \/ Len(q) = Len(l) + 1 /\ at = Len(q) /\ q[at] = Over(Items!EventNew, x)
      /\ \A h \in 1..Len(l) : h # at => q[h] = l[h]
  BY DEF Written
<1>o. \A e : /\ Over(e, x).text = IF x.text = None THEN e.text ELSE x.text
             /\ Over(e, x).recurrence = IF x.recurrence = None THEN e.recurrence ELSE x.recurrence
  BY DEF Over
<1>e. Items!EventNew.text = None /\ Items!EventNew.recurrence = None
  BY NewEventIs
<1>2. CASE at # i
  <2>1. CASE i <= Len(l)
    <3>1. i <= Len(q) /\ i \in 1..Len(l)
      BY <1>1, <2>1
    <3>2. q[i] = l[i]
      BY <1>1, <1>2, <3>1
    <3> QED
      BY <1>2, <2>1, <3>1, <3>2 DEF Text, Recurrence
  <2>2. CASE ~(i <= Len(l))
    <3>1. ~(i <= Len(q))
      BY <1>1, <1>2, <2>2
    <3> QED
      BY <1>2, <2>2, <3>1 DEF Text, Recurrence
  <2> QED
    BY <2>1, <2>2
<1>3. CASE at = i
  <2>1. i <= Len(q)
    BY <1>1, <1>3
  <2>2. CASE Len(q) = Len(l) /\ q[at] = Over(l[at], x)
    <3>1. i <= Len(l)
      BY <2>1, <2>2
    <3> QED
      BY <1>3, <1>o, <2>1, <2>2, <3>1 DEF Text, Recurrence
  <2>3. CASE Len(q) = Len(l) + 1 /\ at = Len(q) /\ q[at] = Over(Items!EventNew, x)
    <3>1. ~(i <= Len(l))
      BY <1>1, <1>3, <2>3
    <3> QED
      BY <1>3, <1>o, <1>e, <2>1, <2>3, <3>1 DEF Text, Recurrence
  <2> QED
    BY <1>1, <2>2, <2>3
<1> QED
  BY <1>2, <1>3

\* A list that has the members it should have gives the item that it should give.
LEMMA FieldwiseIs ==
  ASSUME NEW T, NEW R, Members(T, R), NEW old \in Seq(Events(T, R)),
         NEW news \in Seq(Events(T, R)), NEW s \in Seq(Events(T, R)),
         Items!IsSchedule(old),
         MembersSound(Len(old), old, news, s)
  PROVE  Items!MergedFieldwise(old, news, Items!EventsToItem(Items!Renumber(s)))
<1> DEFINE n == Len(old)
           m == Len(s)
           q == Items!Renumber(s)
           new == Items!EventsToItem(q)
<1>0. /\ DOMAIN news = 1..Len(news) /\ n \in Nat /\ m \in Nat
      /\ \A i \in 1..m : s[i] \in Events(T, R)
      /\ \A i \in 1..n : old[i] \in Events(T, R)
  OBVIOUS
<1>1. /\ q \in Seq(Events(T, R)) /\ Len(q) = m
      /\ \A i \in 1..m : q[i] = [s[i] EXCEPT !.id = i - 1]
  BY RenumberIs
<1>2. \A i \in 1..m : q[i].text = s[i].text /\ q[i].recurrence = s[i].recurrence
  <2> SUFFICES ASSUME NEW i \in 1..m
               PROVE  q[i].text = s[i].text /\ q[i].recurrence = s[i].recurrence
    OBVIOUS
  <2>1. s[i] = [id |-> s[i].id, text |-> s[i].text, recurrence |-> s[i].recurrence]
    BY <1>0, EventIs
  <2>2. q[i] = [s[i] EXCEPT !.id = i - 1]
    BY <1>1
  <2> HIDE DEF q
  <2> QED
    BY <2>1, <2>2
<1>3. Items!IsSchedule(new)
  BY PublishedIsSchedule
<1> HIDE DEF q, m
<1>4. /\ DOMAIN new = 1..m
      /\ \A i \in 1..m : new[i] = [id |-> q[i].id, text |-> q[i].text,
                                   recurrence |-> IF q[i].recurrence = None THEN None
                                                  ELSE Items!RecurrenceToStanza(q[i].recurrence)]
  BY <1>1, ItemIs
<1> HIDE DEF new
<1>5. Len(new) = m
  <2>1. new \in Seq({new[i] : i \in DOMAIN new})
    BY <1>3 DEF Items!IsSchedule, Items!IsEvents
  <2>2. DOMAIN new = 1..Len(new) /\ Len(new) \in Nat
    BY <2>1
  <2> QED
    BY <1>0, <1>4, <2>2
<1>6. \A i \in 1..m : /\ new[i].text = s[i].text
                      /\ new[i].recurrence = IF s[i].recurrence = None THEN None
                                             ELSE Items!RecurrenceToStanza(s[i].recurrence)
  BY <1>2, <1>4
<1>7. \A i \in 1..n : old[i].recurrence # None
         => Items!RecurrenceToStanza(old[i].recurrence) = old[i].recurrence
  BY DEF Items!IsSchedule
<1>8. ASSUME NEW i \in 1..m
      PROVE  /\ Texts(n, news, i) = {} => new[i].text = IF i <= n THEN old[i].text ELSE None
             /\ \A j \in Texts(n, news, i) :
                  Items!UpTo(Texts(n, news, i), j) = Texts(n, news, i) => new[i].text = news[j].text
             /\ Recurrences(n, news, i) = {}
                  => new[i].recurrence = IF i <= n THEN old[i].recurrence ELSE None
             /\ \A j \in Recurrences(n, news, i) :
                  Items!UpTo(Recurrences(n, news, i), j) = Recurrences(n, news, i)
                    => new[i].recurrence = Items!RecurrenceToStanza(news[j].recurrence)
  <2>1. /\ new[i].text = s[i].text
        /\ new[i].recurrence = IF s[i].recurrence = None THEN None
                               ELSE Items!RecurrenceToStanza(s[i].recurrence)
    BY <1>6
  <2>2. /\ Texts(n, news, i) = {} => s[i].text = IF i <= n THEN old[i].text ELSE None
        /\ \A j \in Texts(n, news, i) :
             Items!UpTo(Texts(n, news, i), j) = Texts(n, news, i) => s[i].text = news[j].text
    BY DEF MembersSound, LastOr, Text, m
  <2>3. /\ Recurrences(n, news, i) = {}
             => s[i].recurrence = IF i <= n THEN old[i].recurrence ELSE None
        /\ \A j \in Recurrences(n, news, i) :
             Items!UpTo(Recurrences(n, news, i), j) = Recurrences(n, news, i)
               => s[i].recurrence = news[j].recurrence
    BY DEF MembersSound, LastOr, Recurrence, m
  <2>4. \A j \in Recurrences(n, news, i) : news[j].recurrence # None
    BY DEF Recurrences
  <2>5. i <= n => i \in 1..n
    BY <1>0
  <2> QED
    BY <1>7, <2>1, <2>2, <2>3, <2>4, <2>5
<1>9. \A i : /\ {j \in {k \in DOMAIN news : Items!Slot(n, news, k) = i} : news[j].text # None}
                  = Texts(n, news, i)
             /\ {j \in {k \in DOMAIN news : Items!Slot(n, news, k) = i} : news[j].recurrence # None}
                  = Recurrences(n, news, i)
  BY <1>0 DEF Texts, Recurrences
<1>10. Len(new) = n + Items!Cardinality(Items!Appended(n, news))
  BY <1>5, SameCardinality DEF MembersSound, m
<1>11. Items!MergedFieldwise(old, news, new)
  <2> DEFINE At(i) == {k \in DOMAIN news : Items!Slot(n, news, k) = i}
             G(i) == {j \in At(i) : news[j].text # None}
             H(i) == {j \in At(i) : news[j].recurrence # None}
             IsLast(j, given) == j \in given /\ Items!UpTo(given, j) = given
  <2>1. ASSUME NEW i \in 1..Len(new)
        PROVE  /\ G(i) = {} => new[i].text = IF i <= n THEN old[i].text ELSE None
               /\ \A j \in DOMAIN news : IsLast(j, G(i)) => new[i].text = news[j].text
               /\ H(i) = {} => new[i].recurrence = IF i <= n THEN old[i].recurrence ELSE None
               /\ \A j \in DOMAIN news : IsLast(j, H(i)) =>
                    new[i].recurrence = Items!RecurrenceToStanza(news[j].recurrence)
    <3>1. G(i) = Texts(n, news, i) /\ H(i) = Recurrences(n, news, i)
      BY <1>9, Zenon
    <3> HIDE DEF G, H
    <3>2. i \in 1..m
      BY <1>5
    <3> QED
      BY <1>8, <3>1, <3>2
  <2> QED
    BY <1>10, <2>1, Zenon DEF Items!MergedFieldwise
<1> QED
  BY <1>11 DEF new, q

\* Merging news into the events of a schedule gives each of them the members it should have.
LEMMA MembersMerged ==
  ASSUME NEW T, NEW R, Members(T, R), NEW old \in Seq(Events(T, R)), NEW news \in Seq(Events(T, R)),
         NEW n, n = Len(old), n > 0, \A i \in 1..n : old[i].id = i - 1,
         NEW f \in [0..Len(news) -> Seq(Events(T, R))], Merging(f, old, news),
         NEW s, s = f[Len(news)]
  PROVE  MembersSound(n, old, news, s)
<1> DEFINE N == Len(news)
           P == Items!Appended(n, news)
<1>0. N \in Nat /\ N \in 0..N /\ 0 \in 0..N /\ s \in Seq(Events(T, R)) /\ Len(s) \in Nat
  <2> HIDE DEF P
  <2>1. N \in Nat
    OBVIOUS
  <2>2. N \in 0..N /\ 0 \in 0..N
    BY <2>1
  <2>3. s \in Seq(Events(T, R))
    BY <2>2, Zenon
  <2>4. Len(s) \in Nat
    BY <2>3
  <2> QED
    BY <2>1, <2>2, <2>3, <2>4, Zenon
<1>1. /\ P \subseteq 1..N
      /\ \A k \in 0..N : Numbered(f[k], n) /\ Len(f[k]) = n + Cardinality(Items!UpTo(P, k))
      /\ \A k \in 1..N : Written(f[k-1], f[k], Items!Slot(n, news, k), news[k])
  <2> HIDE DEF P
  <2>1. P = Items!Appended(n, news)
    BY DEF P
  <2>2. MergedInSlots(f, n, news, P)
    BY <2>1, MergeShape
  <2> QED
    BY <2>2 DEF MergedInSlots
<1>k. \A k \in 1..N : k - 1 \in 0..N /\ k \in 0..N
  BY <1>0
<1>f. \A k \in 0..N : f[k] \in Seq(Events(T, R))
  OBVIOUS
<1> HIDE DEF N, P
<1>2. Len(s) = n + Cardinality(P)
  <2>1. Counted(P, N)
    BY <1>0, <1>1, CountUpTo
  <2>2. Items!UpTo(P, N) = P
    BY <2>1 DEF Counted
  <2>3. Len(f[N]) = n + Cardinality(Items!UpTo(P, N))
    BY <1>0, <1>1
  <2> QED
    BY <2>2, <2>3 DEF N
<1>3. ASSUME NEW i \in 1..Len(s)
      PROVE  /\ LastOr(Texts(n, news, i), LAMBDA j : news[j].text, Text(old, i), s[i].text)
             /\ LastOr(Recurrences(n, news, i), LAMBDA j : news[j].recurrence,
                       Recurrence(old, i), s[i].recurrence)
  <2> DEFINE G == Texts(n, news, i)
             H == Recurrences(n, news, i)
             v == [k \in 0..N |-> Text(f[k], i)]
             u == [k \in 0..N |-> Recurrence(f[k], i)]
             w == [k \in 1..N |-> news[k].text]
             x == [k \in 1..N |-> news[k].recurrence]
  <2>i. i \in Nat /\ i > 0 /\ i <= Len(s)
    BY <1>0
  <2>1. G \subseteq 1..N /\ H \subseteq 1..N
    BY DEF Texts, Recurrences, N
  <2>2. /\ \A k \in 1..N : k \in G <=> Items!Slot(n, news, k) = i /\ news[k].text # None
        /\ \A k \in 1..N : k \in H <=> Items!Slot(n, news, k) = i /\ news[k].recurrence # None
    BY DEF Texts, Recurrences, N
  <2> HIDE DEF G, H
  <2>3. ASSUME NEW k \in 1..N
        PROVE  /\ v[k] = IF k \in G THEN w[k] ELSE v[k-1]
               /\ u[k] = IF k \in H THEN x[k] ELSE u[k-1]
    <3> DEFINE l == f[k-1]
               q == f[k]
               at == Items!Slot(n, news, k)
               y == news[k]
    <3>1. l \in Seq(Events(T, R)) /\ q \in Seq(Events(T, R)) /\ Written(l, q, at, y)
      BY <1>1, <1>k, <1>f
    <3>2. /\ v[k] = Text(q, i) /\ v[k-1] = Text(l, i) /\ w[k] = y.text
          /\ u[k] = Recurrence(q, i) /\ u[k-1] = Recurrence(l, i) /\ x[k] = y.recurrence
      BY <1>k
    <3>3. (k \in G <=> at = i /\ y.text # None) /\ (k \in H <=> at = i /\ y.recurrence # None)
      BY <2>2
    <3> HIDE DEF l, q, at, y, v, u, w, x
    <3>4. /\ Text(q, i) = IF at = i /\ y.text # None THEN y.text ELSE Text(l, i)
          /\ Recurrence(q, i) = IF at = i /\ y.recurrence # None THEN y.recurrence
                                ELSE Recurrence(l, i)
      BY <2>i, <3>1, WrittenIs
    <3> QED
      BY <3>2, <3>3, <3>4
  <2>4. f[0] = old /\ f[N] = s
    BY DEF Merging, N
  <2>5. /\ v[N] = s[i].text /\ u[N] = s[i].recurrence
        /\ v[0] = Text(old, i) /\ u[0] = Recurrence(old, i)
    BY <1>0, <2>4, <2>i DEF Text, Recurrence
  <2>6. \A k \in 1..N : w[k] = news[k].text /\ x[k] = news[k].recurrence
    OBVIOUS
  <2> HIDE DEF v, u, w, x
  <2>7. LastIs(G, N, v, w)
    BY <1>0, <2>1, <2>3, LastGiven
  <2>8. LastIs(H, N, u, x)
    BY <1>0, <2>1, <2>3, LastGiven
  <2>9. LastOr(G, LAMBDA j : news[j].text, Text(old, i), s[i].text)
    BY <2>1, <2>5, <2>6, <2>7 DEF LastOr, LastIs
  <2>10. LastOr(H, LAMBDA j : news[j].recurrence, Recurrence(old, i), s[i].recurrence)
    BY <2>1, <2>5, <2>6, <2>8 DEF LastOr, LastIs
  <2> QED
    BY <2>9, <2>10 DEF G, H
<1> QED
  BY <1>2, <1>3 DEF MembersSound, P

\* An empty schedule takes the events as they are.
LEMMA MembersTaken ==
  ASSUME NEW T, NEW R, Members(T, R), NEW old \in Seq(Events(T, R)), NEW news \in Seq(Events(T, R)),
         Len(old) = 0
  PROVE  MembersSound(0, old, news, news)
<1> DEFINE N == Len(news)
<1>0. N \in Nat /\ DOMAIN news = 1..N
  OBVIOUS
<1> HIDE DEF N
<1>1. Items!Added(0, news) = 1..N
  <2>1. 0..(0 - 1) = {}
    OBVIOUS
  <2> QED
    BY <1>0, <2>1 DEF Items!Added
<1>2. Items!Appended(0, news) = 1..N
  <2> DEFINE A == Items!Added(0, news)
  <2> HIDE DEF A
  <2>1. Items!Appended(0, news) = {j \in A : 0 = 0 \/ news[j].id # -1 \/ \A k \in A : j <= k}
    BY DEF Items!Appended, A
  <2>2. Items!Appended(0, news) = A
    BY <2>1
  <2> QED
    BY <1>1, <2>2 DEF A
<1>3. \A j \in 1..N : Items!Slot(0, news, j) = j
  <2> SUFFICES ASSUME NEW j \in 1..N PROVE Items!Slot(0, news, j) = j
    OBVIOUS
  <2> DEFINE U == Items!UpTo(1..N, j)
  <2>0. j \in Int /\ 0 + j = j /\ 1 <= j /\ j <= N
    BY <1>0
  <2>1. U = 1..j
    BY <1>0, <2>0 DEF Items!UpTo
  <2>2. Cardinality(1..j) = j
    BY <2>0, FS_Interval
  <2> HIDE DEF U
  <2>3. Cardinality(U) = j
    BY <2>1, <2>2
  <2>4. Items!Slot(0, news, j) = 0 + Cardinality(U)
    BY <1>1, <1>2, SameCardinality DEF Items!Slot, U
  <2> QED
    BY <2>0, <2>3, <2>4
<1>4. N = 0 + Cardinality(Items!Appended(0, news))
  <2>1. Cardinality(1..N) = N
    BY <1>0, FS_Interval
  <2> QED
    BY <1>0, <1>2, <2>1
<1>5. ASSUME NEW i \in 1..N
      PROVE  /\ LastOr(Texts(0, news, i), LAMBDA j : news[j].text, Text(old, i), news[i].text)
             /\ LastOr(Recurrences(0, news, i), LAMBDA j : news[j].recurrence,
                       Recurrence(old, i), news[i].recurrence)
  <2>1. Text(old, i) = None /\ Recurrence(old, i) = None
    BY <1>0 DEF Text, Recurrence
  <2>2. /\ Texts(0, news, i) = {j \in {i} : news[j].text # None}
        /\ Recurrences(0, news, i) = {j \in {i} : news[j].recurrence # None}
    BY <1>3 DEF Texts, Recurrences, N
  <2>3. LastOr(Texts(0, news, i), LAMBDA j : news[j].text, Text(old, i), news[i].text)
    BY <2>1, <2>2 DEF LastOr
  <2>4. LastOr(Recurrences(0, news, i), LAMBDA j : news[j].recurrence,
               Recurrence(old, i), news[i].recurrence)
    BY <2>1, <2>2 DEF LastOr
  <2> QED
    BY <2>3, <2>4
<1> QED
  BY <1>4, <1>5 DEF MembersSound, N

\* What mio_schedule_event_merge_publish makes of the schedule it was answered with is
\* what it should be, and a list of events in any case.
LEMMA ScheduleMergedIs ==
  ASSUME NEW T, NEW R, Members(T, R), NEW old \in Seq(Events(T, R)), NEW news \in Seq(Events(T, R)),
         Items!IsSchedule(old), old # None
  PROVE  Items!MergedFieldwise(old, news, Items!EventsToItem(Items!ScheduleMerged(old, news)))
<1> DEFINE n == Len(old)
<1>0. n \in Nat /\ (n = 0 <=> old = <<>>) /\ DOMAIN old = 1..n
  OBVIOUS
<1> HIDE DEF n
<1>1. CASE n = 0
  <2>1. Items!ScheduleMerged(old, news) = Items!Renumber(news)
    BY <1>0, <1>1 DEF Items!ScheduleMerged
  <2>2. Len(old) = 0
    BY <1>1 DEF n
  <2>3. MembersSound(Len(old), old, news, news)
    BY <2>2, MembersTaken
  <2> QED
    BY <2>1, <2>3, FieldwiseIs
<1>2. CASE n # 0
  <2>1. Items!ScheduleMerged(old, news) = Items!MergeEvents(old, news)
    BY <1>0, <1>2 DEF Items!ScheduleMerged
  <2>2. PICK f \in [0..Len(news) -> Seq(Events(T, R))] :
          Merging(f, old, news) /\ Items!MergeEvents(old, news) = Items!Renumber(f[Len(news)])
    BY MergeEventsIs
  <2> DEFINE s == f[Len(news)]
  <2>3. s \in Seq(Events(T, R))
    OBVIOUS
  <2>4. n > 0 /\ \A i \in 1..n : old[i].id = i - 1
    BY <1>0, <1>2 DEF Items!IsSchedule
  <2>5. Items!ScheduleMerged(old, news) = Items!Renumber(s)
    BY <2>1, <2>2
  <2>6. s = f[Len(news)] /\ n = Len(old)
    BY DEF n
  <2> HIDE DEF s
  <2>7. MembersSound(n, old, news, s)
    BY <2>2, <2>4, <2>6, MembersMerged
  <2>8. MembersSound(Len(old), old, news, s)
    BY <2>6, <2>7
  <2> QED
    BY <2>3, <2>5, <2>8, FieldwiseIs
<1> QED
  BY <1>1, <1>2

\* What the constants are assumed to be; the NULL pointer is no list of events.
ItemsAssumed ==
  /\ Items!StartsAreSound /\ Items!CallsAreSound
  /\ None \notin Int /\ (\A s : Items!IsEvents(s) => s # None) /\ MaxCalls \in Nat

\* Every client has its variables, its call is being made, and there is no copy before
\* the answer.
ItemsTyped ==
  /\ call = [c \in Clients |-> call[c]] /\ copy = [c \in Clients |-> copy[c]]
  /\ sent \in [Clients -> Nat]
  /\ \A c \in Clients :
       /\ pc[c] \in {"query", "publish"} => calls[c] > 0
       /\ pc[c] = "query" => call[c].type \notin Items!Blind /\ copy[c] = None

\* A schedule is numbered, a fresh copy is what it was made of, and what is edited is a
\* list of events unless a merge got none.
ScheduleSound ==
  kind = "schedule" =>
    /\ Items!IsSchedule(item)
    /\ \A c \in Clients :
         /\ fresh[c] => copy[c] = item
         /\ pc[c] = "publish" => \/ copy[c] = None /\ call[c].type = "merge"
                                 \/ Items!IsEvents(copy[c])

\* Of a client's calls, the earlier ones are over, and the one it makes has published
\* what it has counted, in order.
Reading == [by : Clients, call : 1..MaxCalls, nr : Nat]
DataSound ==
  kind = "data" =>
    /\ item \in Seq(Reading)
    /\ \A i \in DOMAIN item :
         /\ item[i].call <= calls[item[i].by]
         /\ item[i].call = calls[item[i].by] => item[i].nr <= sent[item[i].by]
    /\ \A i, j \in DOMAIN item :
         i < j /\ item[i].by = item[j].by /\ item[i].call = item[j].call
           => item[i].nr < item[j].nr
    /\ \A c \in Clients :
         /\ calls[c] > 0 => sent[c] <= Len(call[c].data)
         /\ pc[c] = "publish" => sent[c] < Len(call[c].data)
         /\ pc[c] = "idle" /\ result[c] = "MIO_OK" => sent[c] = Len(call[c].data)

ItemsInv == Items!TypeOK /\ ItemsTyped /\ ScheduleSound /\ DataSound

\* What the nodes hold at first was published by such clients.
LEMMA ItemsInit ==
  ASSUME ItemsAssumed, Items!Init
  PROVE  ItemsInv
<1>1. /\ kind \in {"schedule", "meta", "data"} /\ item \in ItemStarts[kind]
      /\ pc = [c \in Clients |-> "idle"] /\ call = [c \in Clients |-> None]
      /\ copy = [c \in Clients |-> None] /\ sent = [c \in Clients |-> 0]
      /\ calls = [c \in Clients |-> 0] /\ result = [c \in Clients |-> "none"]
      /\ fresh = [c \in Clients |-> FALSE]
  BY DEF Items!Init, Items!Kinds
<1>2. kind = "schedule" => Items!IsSchedule(item) /\ Items!IsEvents(item)
  BY <1>1 DEF ItemsAssumed, Items!StartsAreSound, Items!IsSchedule
<1>3. kind = "data" => item = <<>>
  BY <1>1 DEF ItemsAssumed, Items!StartsAreSound, Items!NoItem
<1>4. Items!TypeOK
  <2>1. /\ pc \in [Clients -> Items!Stages] /\ calls \in [Clients -> 0..MaxCalls]
        /\ result \in [Clients -> {"none", "MIO_OK", "error"}] /\ fresh \in [Clients -> BOOLEAN]
    BY <1>1 DEF Items!Stages, ItemsAssumed
  <2>2. \A c \in Clients : sent[c] \in Nat /\ ~(calls[c] > 0) /\ copy[c] = None
    BY <1>1
  <2> QED
    BY <1>1, <1>2, <2>1, <2>2 DEF Items!TypeOK, Items!Kinds
<1>5. ItemsTyped
  BY <1>1 DEF ItemsTyped
<1>6. ScheduleSound
  BY <1>1, <1>2 DEF ScheduleSound
<1>7. DataSound
  <2>1. \A c \in Clients : pc[c] = "idle" /\ calls[c] = 0 /\ result[c] = "none"
    BY <1>1
  <2>2. kind = "data" => item \in Seq(Reading) /\ DOMAIN item = {}
    BY <1>3
  <2> QED
    BY <2>1, <2>2 DEF DataSound
<1> QED
  BY <1>4, <1>5, <1>6, <1>7 DEF ItemsInv

\* Whatever a client publishes of a schedule is one.
LEMMA EditedIsSchedule ==
  ASSUME ItemsAssumed, ItemsInv, kind = "schedule", NEW c \in Clients, pc[c] = "publish"
  PROVE  Items!IsSchedule(Items!ToPublish(c))
<1> DEFINE cp == copy[c]
           cl == call[c]
<1>1. /\ cl \in ItemCalls["schedule"]
      /\ \/ cp = None /\ cl.type = "merge"
         \/ Items!IsEvents(cp)
  BY DEF ItemsInv, Items!TypeOK, ItemsTyped, ScheduleSound
<1>2. cl.type = "remove" \/ (cl.type = "merge" /\ Items!IsEvents(cl.events))
  BY <1>1 DEF ItemsAssumed, Items!CallsAreSound
<1>3. Items!ToPublish(c) =
        Items!EventsToItem(CASE cl.type = "merge" -> Items!ScheduleMerged(cp, cl.events)
                             [] cl.type = "remove" -> Items!RemoveEvent(cp, cl.id))
  BY DEF Items!ToPublish, Items!ScheduleEdited
<1> HIDE DEF cp, cl
<1>4. CASE cl.type = "merge" /\ cp \in {None, <<>>}
  <2> DEFINE news == cl.events
  <2>1. Items!ToPublish(c) = Items!EventsToItem(Items!Renumber(news)) /\ Items!IsEvents(news)
    BY <1>2, <1>3, <1>4 DEF Items!ScheduleMerged
  <2> HIDE DEF news
  <2>2. PICK T, R : Members(T, R) /\ news \in Seq(Events(T, R))
    BY <2>1, CommonMembers
  <2> QED
    BY <2>1, <2>2, PublishedIsSchedule
<1>5. CASE cl.type = "merge" /\ cp \notin {None, <<>>}
  <2> DEFINE news == cl.events
  <2>1. /\ Items!ToPublish(c) = Items!EventsToItem(Items!MergeEvents(cp, news))
        /\ Items!IsEvents(news) /\ Items!IsEvents(cp)
    BY <1>1, <1>2, <1>3, <1>5 DEF Items!ScheduleMerged
  <2> HIDE DEF news
  <2>2. PICK T, R : Members(T, R) /\ cp \in Seq(Events(T, R)) /\ news \in Seq(Events(T, R))
    BY <2>1, CommonMembers
  <2>3. PICK f \in [0..Len(news) -> Seq(Events(T, R))] :
          Items!MergeEvents(cp, news) = Items!Renumber(f[Len(news)])
    BY <2>2, MergeEventsIs
  <2> DEFINE s == f[Len(news)]
  <2>4. s \in Seq(Events(T, R))
    BY <2>2
  <2>5. Items!ToPublish(c) = Items!EventsToItem(Items!Renumber(s))
    BY <2>1, <2>3
  <2> HIDE DEF s
  <2> QED
    BY <2>2, <2>4, <2>5, PublishedIsSchedule
<1>6. CASE cl.type = "remove"
  <2>1. /\ Items!ToPublish(c) = Items!EventsToItem(Items!RemoveEvent(cp, cl.id))
        /\ Items!IsEvents(cp)
    BY <1>1, <1>3, <1>6
  <2>2. PICK T, R : Members(T, R) /\ cp \in Seq(Events(T, R))
    BY <2>1, CommonMembers
  <2>3. PICK q \in Seq(Events(T, R)) : Items!RemoveEvent(cp, cl.id) = Items!Renumber(q)
    BY <2>2, RemoveEventIs
  <2>4. Items!ToPublish(c) = Items!EventsToItem(Items!Renumber(q))
    BY <2>1, <2>3
  <2> QED
    BY <2>2, <2>3, <2>4, PublishedIsSchedule
<1> QED
  BY <1>2, <1>4, <1>5, <1>6

\* Nobody makes a step of a client but the client.
Others(c) ==
  \A d \in Clients \ {c} :
    /\ pc'[d] = pc[d] /\ call'[d] = call[d] /\ copy'[d] = copy[d] /\ sent'[d] = sent[d]
    /\ calls'[d] = calls[d] /\ result'[d] = result[d] /\ (fresh'[d] => fresh[d])

\* The variables keep their shape.
Shaped == /\ kind' = kind /\ pc' \in [Clients -> Items!Stages] /\ calls' \in [Clients -> 0..MaxCalls]
          /\ result' \in [Clients -> {"none", "MIO_OK", "error"}] /\ fresh' \in [Clients -> BOOLEAN]
          /\ call' = [c \in Clients |-> call'[c]] /\ copy' = [c \in Clients |-> copy'[c]]
          /\ sent' = [c \in Clients |-> sent'[c]]

\* What the steps of a client do, in terms of its own variables.
Begins(c) == /\ pc[c] = "idle" /\ call'[c] \in ItemCalls[kind] /\ copy'[c] = None
             /\ pc'[c] = IF call'[c].type \in Items!Blind THEN "publish" ELSE "query"
             /\ calls'[c] = calls[c] + 1 /\ sent'[c] = 0 /\ ~fresh'[c]
             /\ item' = item
IsAnswered(c) == /\ pc[c] = "query" /\ call'[c] = call[c] /\ sent'[c] = sent[c]
                 /\ calls'[c] = calls[c] /\ item' = item
                 /\ \/ pc'[c] = "undefined" /\ copy'[c] = copy[c] /\ fresh'[c] = fresh[c]
                       /\ kind = "meta"
                    \/ pc'[c] = "publish" /\ copy'[c] = Items!Parsed
Fails(c) == /\ pc[c] = "query" /\ call'[c] = call[c] /\ copy'[c] = copy[c]
            /\ sent'[c] = sent[c] /\ calls'[c] = calls[c] /\ fresh'[c] = fresh[c] /\ item' = item
            /\ \/ kind = "schedule" /\ call[c].type = "merge" /\ pc'[c] = "publish"
               \/ pc'[c] = "idle" /\ result'[c] = "error"
Dies(c) == /\ pc'[c] = "crashed" /\ kind # "data" /\ call'[c] = call[c] /\ copy'[c] = copy[c]
           /\ sent'[c] = sent[c] /\ calls'[c] = calls[c] /\ fresh'[c] = fresh[c] /\ item' = item
Publishes(c) ==
  /\ pc[c] = "publish" /\ call'[c] = call[c] /\ copy'[c] = copy[c] /\ calls'[c] = calls[c]
  /\ sent'[c] = sent[c] + 1
  /\ \/ item' = Items!ToPublish(c) /\ \A d \in Clients : ~fresh'[d]
     \/ item' = item /\ fresh' = fresh
  /\ \/ /\ kind = "data" /\ sent'[c] < Len(call[c].data)
        /\ pc'[c] = "publish"
     \/ /\ ~(kind = "data" /\ sent'[c] < Len(call[c].data))
        /\ pc'[c] = "idle" /\ result'[c] = "MIO_OK"
     \/ pc'[c] = "idle" /\ result'[c] = "error"

\* Every step is one of these.
LEMMA StepIs ==
  ASSUME ItemsAssumed, ItemsInv, Items!Next
  PROVE  /\ Shaped
         /\ \E c \in Clients :
              /\ Others(c)
              /\ Begins(c) \/ IsAnswered(c) \/ Fails(c) \/ Dies(c) \/ Publishes(c)
<1>1. /\ pc \in [Clients -> Items!Stages] /\ calls \in [Clients -> 0..MaxCalls]
      /\ result \in [Clients -> {"none", "MIO_OK", "error"}] /\ fresh \in [Clients -> BOOLEAN]
      /\ call = [c \in Clients |-> call[c]] /\ copy = [c \in Clients |-> copy[c]]
      /\ sent \in [Clients -> Nat]
  BY DEF ItemsInv, Items!TypeOK, ItemsTyped
<1>m. MaxCalls \in Nat
  BY DEF ItemsAssumed
<1>s. /\ "idle" \in Items!Stages /\ "query" \in Items!Stages /\ "publish" \in Items!Stages
      /\ "undefined" \in Items!Stages /\ "crashed" \in Items!Stages
  BY DEF Items!Stages
<1>2. ASSUME NEW c \in Clients, Items!Begin(c)
      PROVE  Shaped /\ Others(c) /\ Begins(c)
  <2>1. PICK new \in ItemCalls[kind] :
          /\ call' = [call EXCEPT ![c] = new]
          /\ pc' = [pc EXCEPT ![c] = IF new.type \in Items!Blind THEN "publish" ELSE "query"]
    BY <1>2 DEF Items!Begin
  <2>2. /\ pc[c] = "idle" /\ calls[c] < MaxCalls
        /\ calls' = [calls EXCEPT ![c] = calls[c] + 1]
        /\ sent' = [sent EXCEPT ![c] = 0]
        /\ copy' = [copy EXCEPT ![c] = None]
        /\ fresh' = [fresh EXCEPT ![c] = FALSE]
        /\ kind' = kind /\ item' = item /\ result' = result
    BY <1>2 DEF Items!Begin
  <2>3. calls[c] + 1 \in 0..MaxCalls
    BY <1>1, <1>m, <2>2
  <2>4. Shaped
    BY <1>1, <1>s, <2>1, <2>2, <2>3 DEF Shaped
  <2>5. Others(c)
    BY <1>1, <2>1, <2>2 DEF Others
  <2>6. Begins(c)
    BY <1>1, <2>1, <2>2 DEF Begins
  <2> QED
    BY <2>4, <2>5, <2>6
<1>3. ASSUME NEW c \in Clients, Items!QueryAnswered(c)
      PROVE  Shaped /\ Others(c) /\ IsAnswered(c)
  <2>1. /\ pc[c] = "query" /\ kind' = kind /\ item' = item /\ call' = call /\ sent' = sent
        /\ calls' = calls /\ result' = result
    BY <1>3 DEF Items!QueryAnswered
  <2>2. \/ /\ kind = "meta"
           /\ pc' = [pc EXCEPT ![c] = "undefined"]
           /\ copy' = copy /\ fresh' = fresh
        \/ /\ pc' = [pc EXCEPT ![c] = "publish"]
           /\ copy' = [copy EXCEPT ![c] = Items!Parsed]
           /\ fresh' = [fresh EXCEPT ![c] = TRUE]
    BY <1>3 DEF Items!QueryAnswered
  <2>3. CASE /\ kind = "meta"
             /\ pc' = [pc EXCEPT ![c] = "undefined"]
             /\ copy' = copy /\ fresh' = fresh
    <3>1. Shaped
      BY <1>1, <1>s, <2>1, <2>3 DEF Shaped
    <3>2. Others(c)
      BY <1>1, <2>1, <2>3 DEF Others
    <3>3. IsAnswered(c)
      BY <1>1, <2>1, <2>3 DEF IsAnswered
    <3> QED
      BY <3>1, <3>2, <3>3
  <2>4. CASE /\ pc' = [pc EXCEPT ![c] = "publish"]
             /\ copy' = [copy EXCEPT ![c] = Items!Parsed]
             /\ fresh' = [fresh EXCEPT ![c] = TRUE]
    <3>1. Shaped
      BY <1>1, <1>s, <2>1, <2>4 DEF Shaped
    <3>2. Others(c)
      BY <1>1, <2>1, <2>4 DEF Others
    <3>3. IsAnswered(c)
      BY <1>1, <2>1, <2>4 DEF IsAnswered
    <3> QED
      BY <3>1, <3>2, <3>3
  <2> QED
    BY <2>2, <2>3, <2>4
<1>4. ASSUME NEW c \in Clients, Items!QueryFailed(c)
      PROVE  Shaped /\ Others(c) /\ Fails(c)
  <2>1. /\ pc[c] = "query" /\ kind' = kind /\ item' = item /\ call' = call /\ sent' = sent
        /\ calls' = calls /\ copy' = copy /\ fresh' = fresh
        /\ \/ /\ kind = "schedule" /\ call[c].type = "merge"
              /\ pc' = [pc EXCEPT ![c] = "publish"] /\ result' = result
           \/ pc' = [pc EXCEPT ![c] = "idle"] /\ result' = [result EXCEPT ![c] = "error"]
    BY <1>4 DEF Items!QueryFailed, Items!Return
  <2>2. Shaped
    BY <1>1, <1>s, <2>1 DEF Shaped
  <2>3. Others(c)
    BY <1>1, <2>1 DEF Others
  <2>4. Fails(c)
    BY <1>1, <2>1 DEF Fails
  <2> QED
    BY <2>2, <2>3, <2>4
<1>5. ASSUME NEW c \in Clients, Items!Crash(c)
      PROVE  Shaped /\ Others(c) /\ Dies(c)
  <2>1. /\ pc' = [pc EXCEPT ![c] = "crashed"] /\ kind' = kind /\ item' = item /\ call' = call
        /\ sent' = sent /\ calls' = calls /\ copy' = copy /\ fresh' = fresh /\ result' = result
        /\ Items!Crashes(c)
    BY <1>5 DEF Items!Crash
  <2>2. kind # "data"
    BY <2>1 DEF Items!Crashes
  <2>3. Shaped
    BY <1>1, <1>s, <2>1 DEF Shaped
  <2>4. Others(c)
    BY <1>1, <2>1 DEF Others
  <2>5. Dies(c)
    BY <1>1, <2>1, <2>2 DEF Dies
  <2> QED
    BY <2>3, <2>4, <2>5
<1>6. ASSUME NEW c \in Clients, Items!Publish(c)
      PROVE  Shaped /\ Others(c) /\ Publishes(c)
  <2>1. /\ pc[c] = "publish" /\ sent' = [sent EXCEPT ![c] = sent[c] + 1]
        /\ kind' = kind /\ call' = call /\ copy' = copy /\ calls' = calls
    BY <1>6 DEF Items!Publish
  <2>2. \/ item' = Items!ToPublish(c) /\ fresh' = [d \in Clients |-> FALSE]
        \/ item' = item /\ fresh' = fresh
    BY <1>6 DEF Items!Publish, Items!Store, Items!Leave
  <2>3. \/ /\ kind = "data" /\ sent'[c] < Len(call[c].data)
           /\ pc' = pc /\ result' = result
        \/ /\ ~(kind = "data" /\ sent'[c] < Len(call[c].data))
           /\ pc' = [pc EXCEPT ![c] = "idle"] /\ result' = [result EXCEPT ![c] = "MIO_OK"]
        \/ pc' = [pc EXCEPT ![c] = "idle"] /\ result' = [result EXCEPT ![c] = "error"]
    BY <1>6 DEF Items!Publish, Items!Answered, Items!Return
  <2>4. pc' \in [Clients -> Items!Stages] /\ result' \in [Clients -> {"none", "MIO_OK", "error"}]
    BY <1>1, <1>s, <2>3
  <2>5. fresh' \in [Clients -> BOOLEAN] /\ sent' = [d \in Clients |-> sent'[d]]
    BY <1>1, <2>1, <2>2
  <2>6. Shaped
    BY <1>1, <2>1, <2>4, <2>5 DEF Shaped
  <2>7. \A d \in Clients \ {c} : /\ pc'[d] = pc[d] /\ result'[d] = result[d]
                                 /\ sent'[d] = sent[d] /\ (fresh'[d] => fresh[d])
    <3> SUFFICES ASSUME NEW d \in Clients, d # c
                 PROVE  /\ pc'[d] = pc[d] /\ result'[d] = result[d]
                        /\ sent'[d] = sent[d] /\ (fresh'[d] => fresh[d])
      OBVIOUS
    <3>1. pc'[d] = pc[d] /\ result'[d] = result[d] /\ sent'[d] = sent[d]
      BY <1>1, <2>1, <2>3
    <3>2. fresh'[d] => fresh[d]
      BY <2>2
    <3> QED
      BY <3>1, <3>2
  <2>8. Others(c)
    BY <2>1, <2>7 DEF Others
  <2>9. sent'[c] = sent[c] + 1
    BY <1>1, <2>1
  <2>10. \/ /\ kind = "data" /\ sent'[c] < Len(call[c].data)
            /\ pc'[c] = "publish"
         \/ /\ ~(kind = "data" /\ sent'[c] < Len(call[c].data))
            /\ pc'[c] = "idle" /\ result'[c] = "MIO_OK"
         \/ pc'[c] = "idle" /\ result'[c] = "error"
    BY <1>1, <2>1, <2>3
  <2>11. \/ item' = Items!ToPublish(c) /\ \A d \in Clients : ~fresh'[d]
         \/ item' = item /\ fresh' = fresh
    BY <2>2
  <2>12. Publishes(c)
    BY <2>1, <2>9, <2>10, <2>11 DEF Publishes
  <2> QED
    BY <2>6, <2>8, <2>12
<1>7. \E c \in Clients : \/ Items!Begin(c) \/ Items!QueryAnswered(c) \/ Items!QueryFailed(c)
                         \/ Items!Crash(c) \/ Items!Publish(c)
  BY DEF Items!Next
<1> QED
  BY <1>2, <1>3, <1>4, <1>5, <1>6, <1>7, Zenon

\* No step leaves a schedule that is not numbered, or a fresh copy that is not of it.
LEMMA ScheduleStep ==
  ASSUME ItemsAssumed, ItemsInv, Items!Next
  PROVE  ScheduleSound'
<1> SUFFICES ASSUME kind = "schedule"
             PROVE  /\ Items!IsSchedule(item')
                    /\ \A c \in Clients :
                         /\ fresh'[c] => copy'[c] = item'
                         /\ pc'[c] = "publish" => \/ copy'[c] = None /\ call'[c].type = "merge"
                                                  \/ Items!IsEvents(copy'[c])
  <2>1. kind' = kind
    BY StepIs DEF Shaped
  <2> QED
    BY <2>1 DEF ScheduleSound
<1>1. PICK c \in Clients :
        /\ Others(c)
        /\ Begins(c) \/ IsAnswered(c) \/ Fails(c) \/ Dies(c) \/ Publishes(c)
  BY StepIs
<1>2. /\ Items!IsSchedule(item) /\ Items!IsEvents(item)
      /\ \A d \in Clients :
           /\ fresh[d] => copy[d] = item
           /\ pc[d] = "publish" => \/ copy[d] = None /\ call[d].type = "merge"
                                   \/ Items!IsEvents(copy[d])
           /\ pc[d] = "query" => copy[d] = None
  BY DEF ItemsInv, ScheduleSound, ItemsTyped, Items!IsSchedule
<1>3. Items!IsSchedule(item') /\ (item' = item \/ \A d \in Clients : ~fresh'[d])
  <2>1. CASE item' = item
    BY <1>2, <2>1
  <2>2. CASE item' # item
    <3>1. Publishes(c)
      BY <1>1, <2>2 DEF Begins, IsAnswered, Fails, Dies
    <3>2. pc[c] = "publish" /\ item' = Items!ToPublish(c) /\ \A d \in Clients : ~fresh'[d]
      BY <2>2, <3>1 DEF Publishes
    <3>3. Items!IsSchedule(Items!ToPublish(c))
      BY <3>2, EditedIsSchedule
    <3> QED
      BY <3>2, <3>3
  <2> QED
    BY <2>1, <2>2
<1>4. ASSUME NEW d \in Clients, d # c
      PROVE  /\ fresh'[d] => copy'[d] = item'
             /\ pc'[d] = "publish" => \/ copy'[d] = None /\ call'[d].type = "merge"
                                      \/ Items!IsEvents(copy'[d])
  <2>1. /\ pc'[d] = pc[d] /\ call'[d] = call[d] /\ copy'[d] = copy[d]
        /\ (fresh'[d] => fresh[d])
    BY <1>1, <1>4 DEF Others
  <2> QED
    BY <1>2, <1>3, <2>1
<1>5. /\ fresh'[c] => copy'[c] = item'
      /\ pc'[c] = "publish" => \/ copy'[c] = None /\ call'[c].type = "merge"
                               \/ Items!IsEvents(copy'[c])
  <2>1. CASE Begins(c)
    <3>1. call'[c].type \notin Items!Blind
      BY <2>1 DEF Begins, ItemsAssumed, Items!CallsAreSound, Items!Blind
    <3> QED
      BY <2>1, <3>1 DEF Begins
  <2>2. CASE IsAnswered(c)
    <3>1. Items!Parsed = item
      <4>1. Items!EventsOfItem(item) = item
        BY <1>2, ParsedIsItem DEF ItemsAssumed
      <4> QED
        BY <4>1 DEF Items!Parsed
    <3>2. copy'[c] = item /\ item' = item
      BY <2>2, <3>1 DEF IsAnswered
    <3> QED
      BY <1>2, <3>2
  <2>3. CASE Fails(c)
    <3>1. /\ copy'[c] = copy[c] /\ call'[c] = call[c] /\ fresh'[c] = fresh[c] /\ item' = item
          /\ pc[c] = "query"
          /\ pc'[c] = "publish" => call[c].type = "merge"
      BY <2>3 DEF Fails
    <3> QED
      BY <1>2, <3>1
  <2>4. CASE Dies(c)
    BY <1>2, <2>4 DEF Dies
  <2>5. CASE Publishes(c)
    <3>1. /\ pc[c] = "publish" /\ copy'[c] = copy[c] /\ call'[c] = call[c]
          /\ fresh'[c] => fresh' = fresh /\ item' = item
      BY <2>5 DEF Publishes
    <3> QED
      BY <1>2, <3>1
  <2> QED
    BY <1>1, <2>1, <2>2, <2>3, <2>4, <2>5
<1> QED
  BY <1>3, <1>4, <1>5

\* No step leaves the types.
LEMMA ItemsTypeStep ==
  ASSUME ItemsAssumed, ItemsInv, Items!Next
  PROVE  Items!TypeOK' /\ ItemsTyped'
<1>1. PICK c \in Clients :
        /\ Others(c)
        /\ Begins(c) \/ IsAnswered(c) \/ Fails(c) \/ Dies(c) \/ Publishes(c)
  BY StepIs
<1>s. Shaped
  BY StepIs
<1>2. /\ kind \in Items!Kinds
      /\ \A d \in Clients :
           /\ sent[d] \in Nat /\ calls[d] \in 0..MaxCalls
           /\ calls[d] > 0 => call[d] \in ItemCalls[kind]
           /\ copy[d] # None => call[d].type \notin Items!Blind
           /\ pc[d] \in {"query", "publish"} => calls[d] > 0
           /\ pc[d] = "query" => call[d].type \notin Items!Blind /\ copy[d] = None
  BY DEF ItemsInv, Items!TypeOK, ItemsTyped
<1>3. ASSUME NEW d \in Clients
      PROVE  /\ sent'[d] \in Nat
             /\ calls'[d] > 0 => call'[d] \in ItemCalls[kind]
             /\ copy'[d] # None => call'[d].type \notin Items!Blind
             /\ pc'[d] \in {"query", "publish"} => calls'[d] > 0
             /\ pc'[d] = "query" => call'[d].type \notin Items!Blind /\ copy'[d] = None
  <2>1. CASE d # c
    <3>1. /\ pc'[d] = pc[d] /\ call'[d] = call[d] /\ copy'[d] = copy[d] /\ sent'[d] = sent[d]
          /\ calls'[d] = calls[d]
      BY <1>1, <2>1 DEF Others
    <3> QED
      BY <1>2, <3>1
  <2>2. CASE d = c /\ Begins(c)
    <3>1. /\ call'[d] \in ItemCalls[kind] /\ copy'[d] = None /\ calls'[d] = calls[d] + 1
          /\ sent'[d] = 0
          /\ pc'[d] = IF call'[d].type \in Items!Blind THEN "publish" ELSE "query"
      BY <2>2 DEF Begins
    <3>2. calls'[d] > 0 /\ sent'[d] \in Nat
      BY <1>2, <3>1
    <3> QED
      BY <3>1, <3>2
  <2>3. CASE d = c /\ IsAnswered(c)
    <3>1. /\ pc[d] = "query" /\ call'[d] = call[d] /\ sent'[d] = sent[d] /\ calls'[d] = calls[d]
          /\ pc'[d] # "query"
      BY <2>3 DEF IsAnswered
    <3> QED
      BY <1>2, <3>1
  <2>4. CASE d = c /\ Fails(c)
    <3>1. /\ pc[d] = "query" /\ call'[d] = call[d] /\ sent'[d] = sent[d] /\ calls'[d] = calls[d]
          /\ copy'[d] = copy[d] /\ pc'[d] # "query"
      BY <2>4 DEF Fails
    <3> QED
      BY <1>2, <3>1
  <2>5. CASE d = c /\ Dies(c)
    <3>1. /\ call'[d] = call[d] /\ sent'[d] = sent[d] /\ calls'[d] = calls[d]
          /\ copy'[d] = copy[d] /\ pc'[d] = "crashed"
      BY <2>5 DEF Dies
    <3> QED
      BY <1>2, <3>1
  <2>6. CASE d = c /\ Publishes(c)
    <3>1. /\ pc[d] = "publish" /\ call'[d] = call[d] /\ calls'[d] = calls[d]
          /\ sent'[d] = sent[d] + 1 /\ copy'[d] = copy[d] /\ pc'[d] # "query"
      BY <2>6 DEF Publishes
    <3>2. sent'[d] \in Nat
      BY <1>2, <3>1
    <3> QED
      BY <1>2, <3>1, <3>2
  <2> QED
    BY <1>1, <2>1, <2>2, <2>3, <2>4, <2>5, <2>6
<1>4. kind' = "schedule" => Items!IsEvents(item')
  <2>1. ScheduleSound'
    BY ScheduleStep
  <2> QED
    BY <2>1 DEF ScheduleSound, Items!IsSchedule
<1>5. Items!TypeOK'
  <2>1. /\ kind' \in Items!Kinds /\ pc' \in [Clients -> Items!Stages]
        /\ calls' \in [Clients -> 0..MaxCalls]
        /\ result' \in [Clients -> {"none", "MIO_OK", "error"}] /\ fresh' \in [Clients -> BOOLEAN]
    BY <1>2, <1>s DEF Shaped
  <2>2. \A d \in Clients : /\ sent'[d] \in Nat
                           /\ calls'[d] > 0 => call'[d] \in ItemCalls[kind']
                           /\ copy'[d] # None => call'[d].type \notin Items!Blind
    BY <1>3, <1>s DEF Shaped
  <2> QED
    BY <1>4, <2>1, <2>2 DEF Items!TypeOK
<1>6. ItemsTyped'
  <2>1. sent' \in [Clients -> Nat]
    <3>1. sent' = [d \in Clients |-> sent'[d]]
      BY <1>s DEF Shaped
    <3> QED
      BY <1>3, <3>1
  <2>2. call' = [d \in Clients |-> call'[d]] /\ copy' = [d \in Clients |-> copy'[d]]
    BY <1>s DEF Shaped
  <2> QED
    BY <1>3, <2>1, <2>2 DEF ItemsTyped
<1> QED
  BY <1>5, <1>6

\* Readings have the fields of readings.
LEMMA ReadingsAre ==
  ASSUME NEW s \in Seq(Reading)
  PROVE  /\ DOMAIN s = 1..Len(s) /\ Len(s) \in Nat
         /\ \A i \in DOMAIN s : s[i].by \in Clients /\ s[i].call \in 1..MaxCalls /\ s[i].nr \in Nat
<1>1. \A i \in 1..Len(s) : s[i] \in Reading
  OBVIOUS
<1>2. \A x \in Reading : x.by \in Clients /\ x.call \in 1..MaxCalls /\ x.nr \in Nat
  BY DEF Reading
<1>3. DOMAIN s = 1..Len(s) /\ Len(s) \in Nat
  OBVIOUS
<1> QED
  BY <1>1, <1>2, <1>3

\* A step of mio_publish_data publishes the next of its readings, or none.
LEMMA DataStep ==
  ASSUME ItemsAssumed, ItemsInv, Items!Next
  PROVE  DataSound'
<1> DEFINE At(i) == item'[i]
<1> SUFFICES ASSUME kind = "data"
             PROVE  /\ item' \in Seq(Reading)
                    /\ \A i \in DOMAIN item' :
                         /\ At(i).call <= calls'[At(i).by]
                         /\ At(i).call = calls'[At(i).by] => At(i).nr <= sent'[At(i).by]
                    /\ \A i, j \in DOMAIN item' :
                         i < j /\ At(i).by = At(j).by /\ At(i).call = At(j).call
                           => At(i).nr < At(j).nr
                    /\ \A c \in Clients :
                         /\ calls'[c] > 0 => sent'[c] <= Len(call'[c].data)
                         /\ pc'[c] = "publish" => sent'[c] < Len(call'[c].data)
                         /\ pc'[c] = "idle" /\ result'[c] = "MIO_OK"
                              => sent'[c] = Len(call'[c].data)
  <2>1. kind' = kind
    BY StepIs DEF Shaped
  <2> QED
    BY <2>1 DEF DataSound, Reading
<1>1. PICK c \in Clients :
        /\ Others(c)
        /\ Begins(c) \/ IsAnswered(c) \/ Fails(c) \/ Dies(c) \/ Publishes(c)
  BY StepIs
<1>2. /\ item \in Seq(Reading)
      /\ \A i \in DOMAIN item :
           /\ item[i].call <= calls[item[i].by]
           /\ item[i].call = calls[item[i].by] => item[i].nr <= sent[item[i].by]
      /\ \A i, j \in DOMAIN item :
           i < j /\ item[i].by = item[j].by /\ item[i].call = item[j].call
             => item[i].nr < item[j].nr
      /\ \A d \in Clients :
           /\ calls[d] > 0 => sent[d] <= Len(call[d].data)
           /\ pc[d] = "publish" => sent[d] < Len(call[d].data)
           /\ pc[d] = "idle" /\ result[d] = "MIO_OK" => sent[d] = Len(call[d].data)
  BY DEF ItemsInv, DataSound
<1>3. \A d \in Clients :
        /\ sent[d] \in Nat /\ calls[d] \in 0..MaxCalls
        /\ calls[d] > 0 => call[d] \in ItemCalls["data"]
        /\ pc[d] \in {"query", "publish"} => calls[d] > 0
        /\ pc[d] = "query" => call[d].type \notin Items!Blind
  BY DEF ItemsInv, Items!TypeOK, ItemsTyped
<1>4. \A new \in ItemCalls["data"] : new.type \in Items!Blind /\ Len(new.data) \in Nat \ {0}
  BY DEF ItemsAssumed, Items!CallsAreSound, Items!Blind
<1>m. MaxCalls \in Nat
  BY DEF ItemsAssumed
<1>n. /\ DOMAIN item = 1..Len(item) /\ Len(item) \in Nat
      /\ \A i \in DOMAIN item : /\ item[i].by \in Clients /\ item[i].call \in 1..MaxCalls
                                /\ item[i].nr \in Nat
  BY <1>2, ReadingsAre
<1>5. Begins(c) \/ Publishes(c)
  <2>1. ~IsAnswered(c) /\ ~Fails(c) /\ ~Dies(c)
    <3>1. pc[c] # "query"
      BY <1>3, <1>4
    <3> QED
      BY <3>1 DEF IsAnswered, Fails, Dies
  <2> QED
    BY <1>1, <2>1
<1>6. ASSUME NEW d \in Clients
      PROVE  /\ calls'[d] > 0 => sent'[d] <= Len(call'[d].data)
             /\ pc'[d] = "publish" => sent'[d] < Len(call'[d].data)
             /\ pc'[d] = "idle" /\ result'[d] = "MIO_OK" => sent'[d] = Len(call'[d].data)
  <2>1. CASE d # c
    <3>1. /\ pc'[d] = pc[d] /\ call'[d] = call[d] /\ sent'[d] = sent[d] /\ calls'[d] = calls[d]
          /\ result'[d] = result[d]
      BY <1>1, <2>1 DEF Others
    <3> QED
      BY <1>2, <3>1
  <2>2. CASE d = c /\ Begins(c)
    <3>1. call'[d] \in ItemCalls["data"] /\ sent'[d] = 0 /\ pc'[d] # "idle"
      BY <2>2 DEF Begins
    <3>2. Len(call'[d].data) \in Nat /\ Len(call'[d].data) # 0
      BY <1>4, <3>1
    <3> QED
      BY <3>1, <3>2
  <2>3. CASE d = c /\ Publishes(c)
    <3> DEFINE n == Len(call[d].data)
    <3>1. /\ pc[d] = "publish" /\ call'[d] = call[d] /\ sent'[d] = sent[d] + 1
          /\ \/ sent'[d] < n /\ pc'[d] = "publish"
             \/ ~(sent'[d] < n) /\ pc'[d] = "idle"
             \/ pc'[d] = "idle" /\ result'[d] = "error"
      BY <2>3 DEF Publishes
    <3>2. n \in Nat /\ sent[d] \in Nat /\ sent[d] < n
      BY <1>2, <1>3, <1>4, <3>1
    <3>3. Len(call'[d].data) = n
      BY <3>1
    <3> HIDE DEF n
    <3>4. sent'[d] <= n /\ (sent'[d] < n \/ sent'[d] = n)
      BY <3>1, <3>2
    <3> QED
      BY <3>1, <3>2, <3>3, <3>4
  <2> QED
    BY <1>5, <2>1, <2>2, <2>3
<1>7. CASE Begins(c)
  <2>1. item' = item /\ calls'[c] = calls[c] + 1
    BY <1>7 DEF Begins
  <2>2. \A d \in Clients : d # c => calls'[d] = calls[d] /\ sent'[d] = sent[d]
    BY <1>1 DEF Others
  <2>3. ASSUME NEW i \in DOMAIN item
        PROVE  /\ item[i].call <= calls'[item[i].by]
               /\ item[i].call = calls'[item[i].by] => item[i].nr <= sent'[item[i].by]
    <3> DEFINE d == item[i].by
    <3>1. d \in Clients /\ item[i].call <= calls[d] /\ item[i].call \in Nat /\ calls[d] \in Nat
      BY <1>2, <1>3, <1>n, <1>m
    <3>2. CASE d = c
      <4>1. calls'[d] = calls[d] + 1
        BY <2>1, <3>2
      <4> HIDE DEF d
      <4>2. item[i].call <= calls'[d] /\ item[i].call # calls'[d]
        BY <3>1, <4>1
      <4> QED
        BY <4>2 DEF d
    <3>3. CASE d # c
      <4>1. calls'[d] = calls[d] /\ sent'[d] = sent[d]
        BY <2>2, <3>1, <3>3
      <4> QED
        BY <1>2, <4>1
    <3> QED
      BY <3>2, <3>3
  <2> QED
    BY <1>2, <1>6, <2>1, <2>3
<1>8. CASE Publishes(c)
  <2> DEFINE new == [by |-> c, call |-> calls[c], nr |-> sent[c] + 1]
  <2>1. /\ pc[c] = "publish" /\ calls'[c] = calls[c] /\ sent'[c] = sent[c] + 1
        /\ item' = item \/ item' = Items!ToPublish(c)
    BY <1>8 DEF Publishes
  <2>2. \A d \in Clients : calls'[d] = calls[d] /\ (d # c => sent'[d] = sent[d])
    BY <1>1, <2>1 DEF Others
  <2>3. Items!ToPublish(c) = Append(item, new)
    BY DEF Items!ToPublish
  <2>4. new \in Reading /\ calls[c] \in Nat /\ sent[c] \in Nat
    <3>1. calls[c] \in 1..MaxCalls /\ sent[c] + 1 \in Nat
      BY <1>3, <1>m, <2>1
    <3> QED
      BY <1>3, <1>m, <3>1 DEF Reading
  <2>5. ASSUME NEW i \in DOMAIN item
        PROVE  /\ item[i].call <= calls'[item[i].by]
               /\ item[i].call = calls'[item[i].by] => item[i].nr <= sent'[item[i].by]
    <3> DEFINE d == item[i].by
    <3>1. /\ d \in Clients /\ item[i].call <= calls[d] /\ item[i].nr \in Nat
          /\ item[i].call = calls[d] => item[i].nr <= sent[d]
      BY <1>2, <1>n
    <3>2. calls'[d] = calls[d] /\ sent[d] \in Nat /\ (sent'[d] = sent[d] \/ sent'[d] = sent[d] + 1)
      BY <1>3, <2>1, <2>2, <3>1
    <3> HIDE DEF d
    <3>3. /\ item[i].call <= calls'[d]
          /\ item[i].call = calls'[d] => item[i].nr <= sent'[d]
      BY <3>1, <3>2
    <3> QED
      BY <3>3 DEF d
  <2>6. CASE item' = item
    BY <1>2, <1>6, <2>5, <2>6
  <2>7. CASE item' = Append(item, new)
    <3>0. new.by = c /\ new.call = calls[c] /\ new.nr = sent[c] + 1
      OBVIOUS
    <3> DEFINE n == Len(item)
    <3> HIDE DEF new
    <3>1. /\ item' \in Seq(Reading) /\ DOMAIN item' = 1..(n + 1) /\ item'[n + 1] = new
          /\ \A i \in 1..n : item'[i] = item[i]
      BY <1>2, <2>4, <2>7
    <3>n. n \in Nat /\ DOMAIN item = 1..n
      BY <1>n
    <3> HIDE DEF n
    <3>2. ASSUME NEW i \in 1..(n + 1)
          PROVE  /\ At(i).call <= calls'[At(i).by]
                 /\ At(i).call = calls'[At(i).by] => At(i).nr <= sent'[At(i).by]
      <4>1. CASE i = n + 1
        <5>1. At(i) = new
          BY <3>1, <4>1
        <5> HIDE DEF At
        <5>2. At(i).by = c /\ At(i).call = calls[c] /\ At(i).nr = sent[c] + 1
          BY <3>0, <5>1
        <5> QED
          BY <2>1, <2>4, <5>2
      <4>2. CASE i \in 1..n
        <5>1. At(i) = item[i] /\ i \in DOMAIN item
          BY <3>1, <3>n, <4>2
        <5> HIDE DEF At
        <5> QED
          BY <2>5, <5>1
      <4> QED
        BY <3>n, <4>1, <4>2
    <3>3. ASSUME NEW i \in 1..(n + 1), NEW j \in 1..(n + 1), i < j,
                 At(i).by = At(j).by, At(i).call = At(j).call
          PROVE  At(i).nr < At(j).nr
      <4>1. i \in 1..n
        BY <3>3, <3>n
      <4>2. At(i) = item[i] /\ i \in DOMAIN item
        BY <3>1, <3>n, <4>1
      <4>3. CASE j = n + 1
        <5>1. At(j) = new
          BY <3>1, <4>3
        <5> HIDE DEF At
        <5>2. item[i].by = c /\ item[i].call = calls[c] /\ At(j).nr = sent[c] + 1
          BY <3>0, <3>3, <4>2, <5>1
        <5>3. item[i].nr <= sent[c] /\ item[i].nr \in Nat
          BY <1>2, <1>n, <4>2, <5>2
        <5> QED
          BY <2>4, <4>2, <5>2, <5>3
      <4>4. CASE j \in 1..n
        <5>1. At(j) = item[j] /\ j \in DOMAIN item
          BY <3>1, <3>n, <4>4
        <5> HIDE DEF At
        <5> QED
          BY <1>2, <3>3, <4>2, <5>1
      <4> QED
        BY <3>n, <4>3, <4>4
    <3> QED
      BY <1>6, <3>1, <3>2, <3>3
  <2> QED
    BY <2>1, <2>3, <2>6, <2>7
<1> QED
  BY <1>5, <1>7, <1>8

\* The variables of the items, left alone.
LEMMA ItemsStutter ==
  ASSUME ItemsInv, UNCHANGED Items!vars
  PROVE  ItemsInv'
<1>1. /\ kind' = kind /\ item' = item /\ pc' = pc /\ call' = call /\ copy' = copy /\ sent' = sent
      /\ calls' = calls /\ result' = result /\ fresh' = fresh
  BY DEF Items!vars
<1>2. Items!TypeOK' /\ ItemsTyped'
  BY <1>1 DEF ItemsInv, Items!TypeOK, ItemsTyped
<1>3. ScheduleSound' /\ DataSound'
  BY <1>1 DEF ItemsInv, ScheduleSound, DataSound, Reading
<1> QED
  BY <1>2, <1>3 DEF ItemsInv

\* What the invariant was for.
LEMMA InvIsSound ==
  ASSUME ItemsAssumed, ItemsInv
  PROVE  Items!PublishedIsSound
<1>1. Items!IdsArePositions
  BY DEF ItemsInv, ScheduleSound, Items!IsSchedule, Items!IdsArePositions
<1>2. Items!DataInOrder
  <2> SUFFICES ASSUME kind = "data", NEW c \in Clients
               PROVE  LET mine == {i \in DOMAIN item : item[i].by = c /\ item[i].call = calls[c]}
                      IN /\ \A i, j \in mine : i < j => item[i].nr < item[j].nr
                         /\ \A i \in mine : item[i].nr <= Len(call[c].data)
                         /\ pc[c] = "idle" /\ result[c] = "MIO_OK" => sent[c] = Len(call[c].data)
    BY DEF Items!DataInOrder
  <2> DEFINE mine == {i \in DOMAIN item : item[i].by = c /\ item[i].call = calls[c]}
  <2>1. \A i, j \in mine : i < j => item[i].nr < item[j].nr
    BY DEF ItemsInv, DataSound
  <2>2. ASSUME NEW i \in mine PROVE item[i].nr <= Len(call[c].data)
    <3>1. item[i].by = c /\ item[i].call = calls[c] /\ i \in DOMAIN item
      OBVIOUS
    <3>2. item[i].call \in 1..MaxCalls /\ item[i].nr \in Nat /\ item[i].nr <= sent[c]
      <4>1. item \in Seq(Reading) /\ item[i].nr <= sent[c]
        BY <3>1 DEF ItemsInv, DataSound
      <4> QED
        BY <3>1, <4>1, ReadingsAre
    <3>3. calls[c] > 0 /\ calls[c] \in Nat
      BY <3>1, <3>2 DEF ItemsAssumed
    <3>4. sent[c] <= Len(call[c].data) /\ sent[c] \in Nat
      BY <3>3 DEF ItemsInv, DataSound, ItemsTyped
    <3>5. Len(call[c].data) \in Nat
      <4>1. call[c] \in ItemCalls["data"]
        BY <3>3 DEF ItemsInv, Items!TypeOK
      <4> QED
        BY <4>1 DEF ItemsAssumed, Items!CallsAreSound
    <3> QED
      BY <3>2, <3>4, <3>5
  <2>3. pc[c] = "idle" /\ result[c] = "MIO_OK" => sent[c] = Len(call[c].data)
    BY DEF ItemsInv, DataSound
  <2> QED
    BY <2>1, <2>2, <2>3
<1>3. Items!TypeOK
  BY DEF ItemsInv
<1> QED
  BY <1>1, <1>2, <1>3 DEF Items!PublishedIsSound

\* The step that stores an edit of the schedule stores what was made of it.
LEMMA StoredIs ==
  ASSUME ItemsAssumed, ItemsInv, Items!Next, kind = "schedule",
         NEW c \in Clients, NEW type, Items!Stored(c, type)
  PROVE  /\ item' = Items!ToPublish(c) /\ item' # item /\ copy[c] = item /\ call[c].type = type
         /\ call[c] \in ItemCalls["schedule"] /\ Items!IsSchedule(item) /\ item # None
<1>1. /\ pc[c] = "publish" /\ call[c].type = type /\ fresh[c] /\ sent'[c] > sent[c]
      /\ item' # item
  BY DEF Items!Stored
<1>2. PICK d \in Clients :
        /\ Others(d)
        /\ Begins(d) \/ IsAnswered(d) \/ Fails(d) \/ Dies(d) \/ Publishes(d)
  BY StepIs
<1>3. Publishes(d)
  BY <1>1, <1>2 DEF Begins, IsAnswered, Fails, Dies
<1>4. d = c
  <2> SUFFICES ASSUME d # c PROVE FALSE
    OBVIOUS
  <2>1. sent'[c] = sent[c] /\ sent[c] \in Nat
    BY <1>2 DEF Others, ItemsInv, ItemsTyped
  <2> QED
    BY <1>1, <2>1
<1>5. item' = Items!ToPublish(c)
  BY <1>1, <1>3, <1>4 DEF Publishes
<1>6. /\ copy[c] = item /\ Items!IsSchedule(item) /\ calls[c] > 0
      /\ calls[c] > 0 => call[c] \in ItemCalls[kind]
  BY <1>1 DEF ItemsInv, ScheduleSound, ItemsTyped, Items!TypeOK
<1>7. item # None
  BY <1>6 DEF ItemsAssumed, Items!IsSchedule
<1> QED
  BY <1>1, <1>5, <1>6, <1>7

\* A merge that is stored gives what it should.
LEMMA MergeStored ==
  ASSUME ItemsAssumed, ItemsInv, Items!Next, kind = "schedule",
         NEW c \in Clients, Items!Stored(c, "merge")
  PROVE  Items!MergedFieldwise(item, call[c].events, item')
<1> DEFINE cl == call[c]
           news == cl.events
<1>1. /\ item' = Items!ToPublish(c) /\ copy[c] = item /\ cl.type = "merge"
      /\ cl \in ItemCalls["schedule"] /\ Items!IsSchedule(item) /\ item # None
  BY StoredIs
<1>2. Items!IsEvents(news)
  <2> HIDE DEF cl
  <2> QED
    BY <1>1 DEF ItemsAssumed, Items!CallsAreSound
<1>3. item' = Items!EventsToItem(Items!ScheduleMerged(item, news))
  <2>1. Items!ScheduleEdited(c) = Items!ScheduleMerged(item, news)
    BY <1>1 DEF Items!ScheduleEdited
  <2> QED
    BY <1>1, <2>1 DEF Items!ToPublish
<1> HIDE DEF news, cl
<1>4. PICK T, R : Members(T, R) /\ item \in Seq(Events(T, R)) /\ news \in Seq(Events(T, R))
  BY <1>1, <1>2, CommonMembers DEF Items!IsSchedule
<1>5. Items!MergedFieldwise(item, news, Items!EventsToItem(Items!ScheduleMerged(item, news)))
  BY <1>1, <1>4, ScheduleMergedIs
<1> QED
  BY <1>3, <1>5 DEF news, cl

\* Publishing the events of a schedule again publishes the same schedule.
LEMMA PublishedAgain ==
  ASSUME NEW T, NEW R, Members(T, R), NEW s \in Seq(Events(T, R)), NEW q \in Seq(Events(T, R)),
         Items!IsSchedule(s), NEW m, m = Len(q), NEW p,
         \A i \in 1..m : p[i] \in 1..Len(s) /\ q[i] = s[p[i]],
         NEW t, t = Items!EventsToItem(Items!Renumber(q))
  PROVE  /\ DOMAIN t = 1..m /\ Len(t) = m
         /\ \A i \in 1..m : t[i] = [id |-> i - 1, text |-> s[p[i]].text,
                                    recurrence |-> s[p[i]].recurrence]
<1> DEFINE u == Items!Renumber(q)
<1>0. m \in Nat /\ \A i \in 1..m : q[i] \in Events(T, R)
  OBVIOUS
<1>1. /\ u \in Seq(Events(T, R)) /\ Len(u) = m
      /\ \A i \in 1..m : u[i] = [q[i] EXCEPT !.id = i - 1]
  BY RenumberIs
<1>s. Items!IsSchedule(t)
  BY PublishedIsSchedule
<1>t. t = Items!EventsToItem(u)
  OBVIOUS
<1> HIDE DEF u
<1>2. /\ DOMAIN t = 1..m
      /\ \A i \in 1..m : t[i] = [id |-> u[i].id, text |-> u[i].text,
                                 recurrence |-> IF u[i].recurrence = None THEN None
                                                ELSE Items!RecurrenceToStanza(u[i].recurrence)]
  BY <1>1, <1>t, ItemIs
<1>3. Len(t) = m
  <2>1. t \in Seq({t[i] : i \in DOMAIN t})
    BY <1>s DEF Items!IsSchedule, Items!IsEvents
  <2>2. DOMAIN t = 1..Len(t) /\ Len(t) \in Nat
    BY <2>1
  <2> QED
    BY <1>0, <1>2, <2>2
<1>4. ASSUME NEW i \in 1..m
      PROVE  t[i] = [id |-> i - 1, text |-> s[p[i]].text, recurrence |-> s[p[i]].recurrence]
  <2> DEFINE e == s[p[i]]
  <2>1. q[i] = e /\ e.recurrence # None => Items!RecurrenceToStanza(e.recurrence) = e.recurrence
    BY DEF Items!IsSchedule
  <2>2. q[i] = e
    OBVIOUS
  <2>3. e = [id |-> e.id, text |-> e.text, recurrence |-> e.recurrence]
    BY <1>0, <2>2, EventIs
  <2>r. e.recurrence # None => Items!RecurrenceToStanza(e.recurrence) = e.recurrence
    <3>1. p[i] \in 1..Len(s) /\ DOMAIN s = 1..Len(s)
      OBVIOUS
    <3> QED
      BY <3>1 DEF Items!IsSchedule
  <2> HIDE DEF e
  <2>4. u[i] = [e EXCEPT !.id = i - 1]
    BY <1>1, <2>2
  <2>5. u[i].id = i - 1 /\ u[i].text = e.text /\ u[i].recurrence = e.recurrence
    BY <2>3, <2>4
  <2>6. t[i] = [id |-> i - 1, text |-> e.text, recurrence |-> e.recurrence]
    BY <1>2, <2>5, <2>r
  <2> QED
    BY <2>6 DEF e
<1> QED
  BY <1>2, <1>3, <1>4

\* A removal that is stored takes out the event that it names and no other.
LEMMA RemovalStored ==
  ASSUME ItemsAssumed, ItemsInv, Items!Next, kind = "schedule",
         NEW c \in Clients, Items!Stored(c, "remove")
  PROVE  /\ call[c].id \in 0 .. Len(item) - 1
         /\ [i \in DOMAIN item' |-> [item'[i] EXCEPT !.id = 0]]
              = [i \in 1 .. Len(item) - 1 |->
                   [item[IF i <= call[c].id THEN i ELSE i + 1] EXCEPT !.id = 0]]
<1> DEFINE id == call[c].id
           s == item
           t == item'
<1>1. /\ item' = Items!ToPublish(c) /\ item' # item /\ copy[c] = item /\ call[c].type = "remove"
      /\ Items!IsSchedule(item)
  BY StoredIs
<1>2. t = Items!EventsToItem(Items!RemoveEvent(s, id))
  <2>1. Items!ScheduleEdited(c) = Items!RemoveEvent(s, id)
    BY <1>1 DEF Items!ScheduleEdited
  <2> QED
    BY <1>1, <2>1 DEF Items!ToPublish
<1>3. PICK T, R : Members(T, R) /\ s \in Seq(Events(T, R))
  BY <1>1, CommonMembers DEF Items!IsSchedule
<1>d. t # s /\ Items!IsSchedule(s)
  BY <1>1
<1> HIDE DEF id, s, t
<1>4. PICK q \in Seq(Events(T, R)) :
        /\ Items!RemoveEvent(s, id) = Items!Renumber(q)
        /\ \/ q = s /\ \A i \in 1..Len(s) : s[i].id # id
           \/ \E at \in 1..Len(s) :
                /\ s[at].id = id /\ Len(q) = Len(s) - 1
                /\ \A i \in 1..(Len(s) - 1) : q[i] = s[IF i < at THEN i ELSE i + 1]
  BY <1>3, RemoveEventIs
<1>5. t = Items!EventsToItem(Items!Renumber(q))
  BY <1>2, <1>4
<1>n. /\ Len(s) \in Nat /\ DOMAIN s = 1..Len(s) /\ s = [i \in 1..Len(s) |-> s[i]]
      /\ \A i \in 1..Len(s) : s[i] \in Events(T, R)
  BY <1>3
<1>i. \A i \in 1..Len(s) :
        /\ s[i].id = i - 1
        /\ s[i] = [id |-> s[i].id, text |-> s[i].text, recurrence |-> s[i].recurrence]
  <2>1. \A i \in 1..Len(s) : s[i].id = i - 1
    BY <1>d, <1>n DEF Items!IsSchedule
  <2>2. \A i \in 1..Len(s) :
          s[i] = [id |-> s[i].id, text |-> s[i].text, recurrence |-> s[i].recurrence]
    BY <1>3, <1>n, EventIs
  <2> QED
    BY <2>1, <2>2
<1>6. ASSUME q = s PROVE FALSE
  <2> DEFINE m == Len(s)
             p == [i \in 1..m |-> i]
  <2>1. \A i \in 1..m : p[i] \in 1..Len(s) /\ q[i] = s[p[i]] /\ p[i] = i
    BY <1>6
  <2>2. m = Len(q)
    BY <1>6
  <2> HIDE DEF p
  <2>3. /\ DOMAIN t = 1..m
        /\ \A i \in 1..m : t[i] = [id |-> i - 1, text |-> s[p[i]].text,
                                   recurrence |-> s[p[i]].recurrence]
    BY <1>3, <1>5, <1>d, <2>1, <2>2, PublishedAgain
  <2>4. \A i \in 1..m : t[i] = s[i]
    BY <1>i, <2>1, <2>3
  <2>5. t = [i \in DOMAIN t |-> t[i]]
    BY <1>5 DEF Items!EventsToItem
  <2>6. t = s
    BY <1>n, <2>3, <2>4, <2>5
  <2> QED
    BY <1>d, <2>6
<1>7. ASSUME NEW at \in 1..Len(s), s[at].id = id, Len(q) = Len(s) - 1,
             \A i \in 1..(Len(s) - 1) : q[i] = s[IF i < at THEN i ELSE i + 1]
      PROVE  /\ id \in 0..(Len(s) - 1)
             /\ [i \in DOMAIN t |-> [t[i] EXCEPT !.id = 0]]
                  = [i \in 1..(Len(s) - 1) |->
                       [s[IF i <= id THEN i ELSE i + 1] EXCEPT !.id = 0]]
  <2> DEFINE m == Len(s) - 1
             p == [i \in 1..m |-> IF i < at THEN i ELSE i + 1]
  <2>1. id = at - 1 /\ id \in 0..m /\ m \in Nat
    <3>1. s[at].id = at - 1 /\ at \in Nat /\ 1 <= at /\ at <= Len(s)
      BY <1>i, <1>n
    <3> QED
      BY <1>7, <1>n, <3>1
  <2>2. \A i \in 1..m : /\ p[i] \in 1..Len(s) /\ q[i] = s[p[i]]
                        /\ p[i] = IF i <= id THEN i ELSE i + 1
    <3> SUFFICES ASSUME NEW i \in 1..m
                 PROVE  /\ p[i] \in 1..Len(s) /\ q[i] = s[p[i]]
                        /\ p[i] = IF i <= id THEN i ELSE i + 1
      OBVIOUS
    <3>1. p[i] = IF i < at THEN i ELSE i + 1
      OBVIOUS
    <3>2. i < at <=> i <= id
      BY <2>1, <1>n
    <3>3. p[i] \in 1..Len(s)
      BY <3>1, <1>n, <2>1
    <3> HIDE DEF p
    <3> QED
      BY <1>7, <3>1, <3>2, <3>3
  <2>3. m = Len(q)
    BY <1>7
  <2> HIDE DEF p, m
  <2>4. /\ DOMAIN t = 1..m
        /\ \A i \in 1..m : t[i] = [id |-> i - 1, text |-> s[p[i]].text,
                                   recurrence |-> s[p[i]].recurrence]
    BY <1>3, <1>5, <1>d, <2>2, <2>3, PublishedAgain
  <2>5. ASSUME NEW i \in 1..m
        PROVE  [t[i] EXCEPT !.id = 0] = [s[IF i <= id THEN i ELSE i + 1] EXCEPT !.id = 0]
    <3> DEFINE e == s[p[i]]
    <3>1. e = [id |-> e.id, text |-> e.text, recurrence |-> e.recurrence]
      BY <1>i, <2>2
    <3>2. t[i] = [id |-> i - 1, text |-> e.text, recurrence |-> e.recurrence]
      BY <2>4
    <3>3. e = s[IF i <= id THEN i ELSE i + 1]
      BY <2>2
    <3> HIDE DEF e
    <3>4. [t[i] EXCEPT !.id = 0] = [e EXCEPT !.id = 0]
      BY <3>1, <3>2
    <3> QED
      BY <3>3, <3>4
  <2>6. [i \in DOMAIN t |-> [t[i] EXCEPT !.id = 0]]
          = [i \in 1..m |-> [s[IF i <= id THEN i ELSE i + 1] EXCEPT !.id = 0]]
    BY <2>4, <2>5
  <2> QED
    BY <2>1, <2>6 DEF m
<1>8. /\ id \in 0..(Len(s) - 1)
      /\ [i \in DOMAIN t |-> [t[i] EXCEPT !.id = 0]]
           = [i \in 1..(Len(s) - 1) |-> [s[IF i <= id THEN i ELSE i + 1] EXCEPT !.id = 0]]
  <2>1. CASE \E at \in 1..Len(s) :
               /\ s[at].id = id /\ Len(q) = Len(s) - 1
               /\ \A i \in 1..(Len(s) - 1) : q[i] = s[IF i < at THEN i ELSE i + 1]
    BY <1>7, <2>1, Zenon
  <2> QED
    <3>1. \/ q = s
          \/ \E at \in 1..Len(s) :
               /\ s[at].id = id /\ Len(q) = Len(s) - 1
               /\ \A i \in 1..(Len(s) - 1) : q[i] = s[IF i < at THEN i ELSE i + 1]
      BY <1>4, Zenon
    <3> QED
      BY <1>6, <2>1, <3>1, Zenon
<1> QED
  BY <1>8, Zenon DEF id, s, t

\* What is published at a node is well-formed and in order, whoever publishes (mio_item_publish,
\* mio_publish_data).
THEOREM ItemsAreSound ==
  ASSUME ItemsAssumed PROVE Items!Spec => []Items!PublishedIsSound
<1>1. Items!Init => ItemsInv
  BY ItemsInit
<1>2. ItemsInv /\ [Items!Next]_(Items!vars) => ItemsInv'
  <2>1. ItemsInv /\ Items!Next => ItemsInv'
    BY ScheduleStep, ItemsTypeStep, DataStep DEF ItemsInv
  <2> QED
    BY <2>1, ItemsStutter
<1>3. ItemsInv => Items!PublishedIsSound
  BY InvIsSound
<1> QED
  BY <1>1, <1>2, <1>3, PTL DEF Items!Spec

\* An edit of a schedule that is stored while the schedule is still the one that was edited
\* changes what it names, as it says, and nothing else (mio_schedule_event_merge_publish and
\* mio_schedule_event_remove_publish, through query, parser, edit and item).
THEOREM ScheduleEdits ==
  ASSUME ItemsAssumed PROVE Items!Spec => Items!ScheduleEditsAreExact
<1>1. Items!Init => ItemsInv
  BY ItemsInit
<1>2. ItemsInv /\ [Items!Next]_(Items!vars) => ItemsInv'
  <2>1. ItemsInv /\ Items!Next => ItemsInv'
    BY ScheduleStep, ItemsTypeStep, DataStep DEF ItemsInv
  <2> QED
    BY <2>1, ItemsStutter
<1> DEFINE Merge == \A c \in Clients :
             kind = "schedule" /\ Items!Stored(c, "merge")
               => Items!MergedFieldwise(item, call[c].events, item')
           Removal == \A c \in Clients :
             kind = "schedule" /\ Items!Stored(c, "remove") =>
               /\ call[c].id \in 0 .. Len(item) - 1
               /\ [i \in DOMAIN item' |-> [item'[i] EXCEPT !.id = 0]]
                    = [i \in 1 .. Len(item) - 1 |->
                         [item[IF i <= call[c].id THEN i ELSE i + 1] EXCEPT !.id = 0]]
<1>3. ItemsInv /\ [Items!Next]_(Items!vars) => [Merge]_(Items!vars) /\ [Removal]_(Items!vars)
  <2>1. ItemsInv /\ Items!Next => Merge
    BY MergeStored
  <2>2. ItemsInv /\ Items!Next => Removal
    BY RemovalStored
  <2> HIDE DEF Merge, Removal
  <2> QED
    BY <2>1, <2>2
<1>4. Items!Spec => [][Merge]_(Items!vars) /\ [][Removal]_(Items!vars)
  <2> HIDE DEF Merge, Removal
  <2> QED
    BY <1>1, <1>2, <1>3, PTL DEF Items!Spec
<1> QED
  BY <1>4, PTL DEF Items!ScheduleEditsAreExact, Items!MergeIsFieldwise, Items!EventRemovalIsExact
===============================================================================
