----------------------------- MODULE StropheStanza -----------------------------
(* The stanzas of libstrophe (stanza.c): trees of reference-counted cells.  An  *)
(* operator takes the heap before a call to the heap after it.  A cell that is  *)
(* allocated is the smallest free one; allocations do not fail.                 *)
EXTENDS Integers, FiniteSets, StropheHash

CONSTANTS MaxCells,  \* bound on the cells that are allocated at a time
          Nil        \* the NULL pointer

Cells == 1 .. MaxCells
Free == [live |-> FALSE]
Live(heap) == {c \in Cells : heap[c].live}
FreeCells(heap) == Cells \ Live(heap)

New == [live |-> TRUE, ref |-> 1, type |-> "unknown", data |-> Nil, attributes |-> Nil,
        parent |-> Nil, prev |-> Nil, next |-> Nil, children |-> Nil]
Fresh(heap) == Min(FreeCells(heap))

Clone(heap, c) == [heap EXCEPT ![c].ref = @ + 1]

SetName(heap, c, name) ==
  IF heap[c].type = "text" THEN heap
  ELSE [heap EXCEPT ![c].type = "tag", ![c].data = name]

SetText(heap, c, text) ==
  IF heap[c].type = "tag" THEN heap
  ELSE [heap EXCEPT ![c].type = "text", ![c].data = text]

SetAttribute(heap, c, key, value) ==
  IF heap[c].type # "tag" THEN heap
  ELSE [heap EXCEPT ![c].attributes =
          HashAdd(IF @ = Nil THEN HashNew ELSE @, key, value)]

(* The cells from c on, along next: a list of siblings.                         *)
Siblings(heap, c) ==
  LET from[s \in Cells] ==
        <<s>> \o (IF heap[s].next = Nil THEN <<>> ELSE from[heap[s].next])
  IN IF c = Nil THEN <<>> ELSE from[c]
Children(heap, c) == Siblings(heap, heap[c].children)

(* Mutant: the child gets no pointer to the one before it.                      *)
AddChildNoPrev(heap, p, c) ==
  LET kids == Children(heap, p)
      taken == [Clone(heap, c) EXCEPT ![c].parent = p]
  IN IF kids = <<>> THEN [taken EXCEPT ![p].children = c]
     ELSE [taken EXCEPT ![Last(kids)].next = c]

(* Mutant: the reference of the parent is the one of the caller.                *)
AddChildNoClone(heap, p, c) ==
  LET kids == Children(heap, p)
      taken == [heap EXCEPT ![c].parent = p]
  IN IF kids = <<>> THEN [taken EXCEPT ![p].children = c]
     ELSE [taken EXCEPT ![Last(kids)].next = c, ![c].prev = Last(kids)]

(* Mutant: the child becomes the first one.                                     *)
AddChildFirst(heap, p, c) ==
  LET first == heap[p].children
      taken == [Clone(heap, c) EXCEPT ![c].parent = p, ![c].next = first, ![p].children = c]
  IN IF first = Nil THEN taken ELSE [taken EXCEPT ![first].prev = c]

AddChild(heap, p, c) ==
  LET kids == Children(heap, p)
      taken == [Clone(heap, c) EXCEPT ![c].parent = p]
  IN IF kids = <<>> THEN [taken EXCEPT ![p].children = c]
     ELSE [taken EXCEPT ![Last(kids)].next = c, ![c].prev = Last(kids)]

(* The cells of a tree, each one before its children.                           *)
Tree(heap, c) ==
  LET of[s \in Cells] ==
        <<s>> \o FlattenSeq([i \in DOMAIN Children(heap, s) |-> of[Children(heap, s)[i]]])
  IN of[c]

(* The last reference to c is given up: it is freed, and those below it that    *)
(* have no other reference than their parent's.  The others stay as they are.   *)
FreeTree(heap, c) ==
  LET Kids(s) == Range(Children(heap, s))
      gone[s \in Cells] == {s} \cup UNION {gone[k] : k \in {k \in Kids(s) : heap[k].ref = 1}}
      kept == UNION {Kids(s) : s \in gone[c]} \ gone[c]
  IN [s \in Cells |-> IF s \in gone[c] THEN Free
                      ELSE IF s \in kept THEN [heap[s] EXCEPT !.ref = @ - 1] ELSE heap[s]]

(* The attributes are added to the new table in the order of the iterator.      *)
CopiedAttributes(table) ==
  IF table = Nil THEN Nil
  ELSE FoldLeft(LAMBDA t, key : HashAdd(t, key, HashGet(table, key)),
                HashNew, HashKeys(table))

CanCopy(heap, c) == Cardinality(FreeCells(heap)) >= Len(Tree(heap, c))

(* The cells of the copy, in the order of the tree.                             *)
CopyCells(heap, c) ==
  SubSeq(SetToSortSeq(FreeCells(heap), <), 1, Len(Tree(heap, c)))

(* Mutant: the copy shares the children of the original.                        *)
CopyShallow(heap, c) ==
  [heap EXCEPT ![Fresh(heap)] =
     [heap[c] EXCEPT !.ref = 1, !.attributes = CopiedAttributes(@),
                     !.parent = Nil, !.prev = Nil, !.next = Nil]]

Copy(heap, c) ==
  LET old == Tree(heap, c)
      new == CopyCells(heap, c)
      Image(s) == IF s = Nil THEN Nil ELSE new[SelectInSeq(old, LAMBDA o : o = s)]
      Link(root, s, link) == IF s = root THEN Nil ELSE Image(link)
  IN [s \in Cells |->
        IF s \notin Range(new) THEN heap[s]
        ELSE LET o == old[SelectInSeq(new, LAMBDA n : n = s)]
             IN [heap[o] EXCEPT !.ref = 1,
                                !.attributes = CopiedAttributes(@),
                                !.parent = Link(c, o, @),
                                !.prev = Link(c, o, @),
                                !.next = Link(c, o, @),
                                !.children = Image(@)]]

(* What the text of a tree says; the attributes are a set, Pairs(c) of a cell.  *)
Meaning(heap, c, Pairs(_)) ==
  LET of[s \in Cells] ==
        [type |-> heap[s].type, data |-> heap[s].data, attributes |-> Pairs(s),
         children |-> [i \in DOMAIN Children(heap, s) |-> of[Children(heap, s)[i]]]]
  IN of[c]

(* All that a table holds, and what is left of it after an iteration.           *)
Held(heap, c) ==
  IF heap[c].attributes = Nil THEN {} ELSE Range(Entries(heap[c].attributes))
Iterated(heap, c) ==
  IF heap[c].attributes = Nil THEN {} ELSE Range(Entries(CopiedAttributes(heap[c].attributes)))

Contents(heap, c) == Meaning(heap, c, LAMBDA s : Held(heap, s))
Text(heap, c) == Meaning(heap, c, LAMBDA s : Iterated(heap, s))
===============================================================================
