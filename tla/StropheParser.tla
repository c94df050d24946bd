----------------------------- MODULE StropheParser -----------------------------
(* Who uses stanzas: the parser of a connection (parser_expat.c), which builds  *)
(* them of what the server sends and hands them to the handlers on the event    *)
(* loop's thread, and the program, which keeps the stanza of an answer with the *)
(* response of its call (mio_connection.c), builds stanzas to send and releases *)
(* both on a thread of its own.  The reference count is shared and has no lock. *)
EXTENDS StropheStanza

CONSTANTS Names, Texts,    \* of elements, and pieces of text between them
          Attributes,      \* lists of <<key, value>> that the server's elements have
          Settings,        \* <<key, value>> that the program sets
          MaxDepth,        \* bound on the depth of the server's elements
          MaxOwn,          \* bound on the cells the program has references to
          MaxSet           \* bound on the cells that have what the program sets

VARIABLES heap,      \* the cells
          depth,     \* of the parser; 1 between the stanzas of a stream
          stanza,    \* the element the parser is in, or Nil
          loop,      \* the loop thread: parsing, or at the release after the handlers
          doc,       \* what the server has sent of the stanza: its open elements
          program,   \* [cell |-> how many references to it the program has]
          received,  \* cells that the program got from a handler and only reads
          dropping,  \* a cell the program has seen others hold and is about to drop
          lost       \* auxiliary: cells that nobody will free

vars == <<heap, depth, stanza, loop, doc, program, received, dropping, lost>>
onLoop == <<depth, stanza, loop, doc>>
onProgram == <<program, received, dropping>>

Init == /\ heap = [c \in Cells |-> Free]
        /\ depth = 1 /\ stanza = Nil /\ loop = "parse" /\ doc = <<>>
        /\ program = [c \in Cells |-> 0] /\ received = {} /\ dropping = Nil
        /\ lost = {}

(* The references that the program may give up, and the cells it may change.    *)
Own == {c \in Cells : program[c] > 0 /\ c # dropping}
Mine == Own \ received

-------------------------------------------------------------------------------
(* The parser.                                                                  *)
Element(h, c, name, attributes) ==
  FoldLeft(LAMBDA g, a : SetAttribute(g, c, a[1], a[2]),
           SetName([h EXCEPT ![c] = New], c, name), attributes)

(* A child belongs to the tree: its parent has the one reference.               *)
Adopt(h, p, c) == [AddChild(h, p, c) EXCEPT ![c].ref = @ - 1]

Start(name, attributes) ==
  /\ loop = "parse" /\ depth <= MaxDepth /\ FreeCells(heap) # {}
  /\ LET c == Fresh(heap)
         made == Element(heap, c, name, attributes)
     IN /\ heap' = IF stanza = Nil THEN made ELSE Adopt(made, stanza, c)
        /\ stanza' = c
  /\ depth' = depth + 1
  /\ doc' = Append(doc, [type |-> "tag", data |-> name, children |-> <<>>,
                         attributes |-> {[key |-> a[1], value |-> a[2]] : a \in Range(attributes)}])
  /\ UNCHANGED <<loop, onProgram, lost>>

Characters(text) ==
  /\ loop = "parse" /\ depth >= 2 /\ FreeCells(heap) # {}
  /\ LET c == Fresh(heap)
     IN heap' = Adopt(SetText([heap EXCEPT ![c] = New], c, text), stanza, c)
  /\ doc' = [doc EXCEPT ![Len(doc)].children =
               Append(@, [type |-> "text", data |-> text, children |-> <<>>, attributes |-> {}])]
  /\ UNCHANGED <<depth, stanza, loop, onProgram, lost>>

EndChild ==
  /\ loop = "parse" /\ depth >= 2 /\ heap[stanza].parent # Nil
  /\ stanza' = heap[stanza].parent
  /\ depth' = depth - 1
  /\ doc' = [Front(doc) EXCEPT ![Len(doc) - 1].children = Append(@, Last(doc))]
  /\ UNCHANGED <<heap, loop, onProgram, lost>>

(* The handlers get the stanza: they look at it, keep a reference to it with a  *)
(* response (mio_stanza_clone), or copy a part of it into a stanza of their own *)
(* (the <bind/> of _handle_features_sasl).                                      *)
EndStanza ==
  /\ loop = "parse" /\ depth = 2 /\ heap[stanza].parent = Nil
  /\ depth' = 1 /\ loop' = "release" /\ doc' = <<>>
  /\ \/ UNCHANGED <<heap, program, received>>
     \/ /\ Cardinality(Own) < MaxOwn
        /\ heap' = Clone(heap, stanza)
        /\ program' = [program EXCEPT ![stanza] = @ + 1]
        /\ received' = received \cup {stanza}
     \/ \E part \in Range(Tree(heap, stanza)) :
          /\ CanCopy(heap, part) /\ Cardinality(Own) < MaxOwn
          /\ heap' = Copy(heap, part)
          /\ program' = [program EXCEPT ![CopyCells(heap, part)[1]] = 1]
          /\ UNCHANGED received
  /\ UNCHANGED <<stanza, dropping, lost>>

(* What a release leaves when another one read the same count: two decrements,  *)
(* or one that overwrites the other.                                            *)
Decrement(c) ==
  \E ref \in {heap[c].ref - 1} \cup IF c \in lost THEN {1} ELSE {} :
    heap' = [heap EXCEPT ![c].ref = ref]

(* Mutant: the count is taken for the number of other references.               *)
TestOfTwo ==
  /\ loop = "release"
  /\ IF heap[stanza].ref > 2
     THEN /\ loop' = "drop"
          /\ lost' = IF dropping = stanza THEN lost \cup {stanza} ELSE lost
          /\ UNCHANGED <<heap, stanza>>
     ELSE /\ heap' = FreeTree(heap, stanza)
          /\ loop' = "parse" /\ stanza' = Nil
          /\ UNCHANGED lost
  /\ UNCHANGED <<depth, doc, onProgram>>

(* The release of the parser's reference is a test and, later, a decrement.     *)
Test ==
  /\ loop = "release"
  /\ IF heap[stanza].ref > 1
     THEN /\ loop' = "drop"
          /\ lost' = IF dropping = stanza THEN lost \cup {stanza} ELSE lost
          /\ UNCHANGED <<heap, stanza>>
     ELSE /\ heap' = FreeTree(heap, stanza)
          /\ loop' = "parse" /\ stanza' = Nil
          /\ UNCHANGED lost
  /\ UNCHANGED <<depth, doc, onProgram>>

Drop == /\ loop = "drop"
        /\ Decrement(stanza)
        /\ loop' = "parse" /\ stanza' = Nil
        /\ UNCHANGED <<depth, doc, onProgram, lost>>

(* The connection goes, and the parser with it, perhaps within a stanza, which  *)
(* parser_free does not release; a new one starts with the next connection.     *)
ParserFree ==
  /\ loop = "parse" /\ stanza # Nil
  /\ lost' = lost \cup {s \in Live(heap) : stanza \in Range(Tree(heap, s)) /\ heap[s].parent = Nil}
  /\ depth' = 1 /\ stanza' = Nil /\ doc' = <<>>
  /\ UNCHANGED <<heap, loop, onProgram>>

-------------------------------------------------------------------------------
(* The program.  It gives up only references that it has, and adds only cells   *)
(* of its own that are in no tree yet.                                          *)
NewStanza ==
  /\ FreeCells(heap) # {} /\ Cardinality(Own) < MaxOwn
  /\ LET c == Fresh(heap)
         new == [heap EXCEPT ![c] = New]
     IN /\ \E name \in Names : heap' = SetName(new, c, name)
        /\ program' = [program EXCEPT ![c] = 1]
  /\ UNCHANGED <<onLoop, received, dropping, lost>>

Set == /\ Cardinality({c \in Live(heap) : \E set \in Settings :
                          [key |-> set[1], value |-> set[2]] \in Held(heap, c)}) < MaxSet
       /\ \E c \in Mine, set \in Settings :
            heap' = SetAttribute(heap, c, set[1], set[2])
       /\ UNCHANGED <<onLoop, onProgram, lost>>

Add == /\ \E p, c \in Mine :
            /\ heap[p].type = "tag" /\ heap[c].parent = Nil
            /\ p \notin Range(Tree(heap, c))
            /\ heap' = AddChild(heap, p, c)
       /\ UNCHANGED <<onLoop, onProgram, lost>>

CopyOwn == /\ \E c \in Mine :
                /\ CanCopy(heap, c) /\ Cardinality(Own) < MaxOwn
                /\ heap' = Copy(heap, c)
                /\ program' = [program EXCEPT ![CopyCells(heap, c)[1]] = 1]
           /\ UNCHANGED <<onLoop, received, dropping, lost>>

(* mio_stanza_free and mio_response_free, as the parser's release.              *)
ReleaseTest ==
  /\ dropping = Nil
  /\ \E c \in Own :
       IF heap[c].ref > 1
       THEN /\ dropping' = c
            /\ lost' = IF loop = "drop" /\ stanza = c THEN lost \cup {c} ELSE lost
            /\ UNCHANGED <<heap, program, received>>
       ELSE /\ heap' = FreeTree(heap, c)
            /\ program' = [program EXCEPT ![c] = 0]
            /\ received' = received \ {c}
            /\ UNCHANGED <<dropping, lost>>
  /\ UNCHANGED onLoop

ReleaseDrop ==
  /\ dropping # Nil
  /\ Decrement(dropping)
  /\ program' = [program EXCEPT ![dropping] = @ - 1]
  /\ received' = received \ {dropping}
  /\ dropping' = Nil
  /\ UNCHANGED <<onLoop, lost>>

Next == \/ \E name \in Names, attributes \in Attributes : Start(name, attributes)
        \/ \E text \in Texts : Characters(text)
        \/ EndChild \/ EndStanza \/ Test \/ Drop \/ ParserFree
        \/ NewStanza \/ Set \/ Add \/ CopyOwn \/ ReleaseTest \/ ReleaseDrop

Spec == Init /\ [][Next]_vars
-------------------------------------------------------------------------------
(* The top of the tree that the parser is in, and the parent of a cell.         *)
Tops == {s \in Live(heap) : /\ heap[s].parent = Nil
                            /\ stanza # Nil /\ stanza \in Range(Tree(heap, s))}

TypeOK ==
  /\ \A c \in Live(heap) : /\ heap[c].ref \in Nat
                           /\ heap[c].type \in {"tag", "text"}
  /\ depth \in 1 .. MaxDepth + 1 /\ stanza \in Cells \cup {Nil}
  /\ loop \in {"parse", "release", "drop"}
  /\ program \in [Cells -> Nat] /\ received \subseteq Cells
  /\ dropping \in Cells \cup {Nil} /\ lost \subseteq Cells

(* Whoever has a reference, or a parent, has a cell that was not freed, however *)
(* the releases of the two threads meet: neither uses a stanza after its end.   *)
HeldIsLive ==
  /\ \A c \in Cells : program[c] > 0 => heap[c].live
  /\ stanza # Nil => heap[stanza].live
  /\ \A p \in Live(heap) : Range(Children(heap, p)) \subseteq Live(heap)

(* The count of a cell is the number of references to it, the program's, its    *)
(* parent's and the parser's, so that it is freed with the last of them.  Lost  *)
(* are only the cells of two releases that read the same count, and those of a  *)
(* parser that was freed within a stanza.                                       *)
CountIsReferences ==
  LET tops == Tops
      below == [p \in Live(heap) |-> Range(Children(heap, p))]
      Parents(c) == {p \in Live(heap) : c \in below[p]}
  IN \A c \in Live(heap) \ lost :
       /\ heap[c].ref = program[c] + Cardinality(Parents(c)) + (IF c \in tops THEN 1 ELSE 0)
       /\ heap[c].ref > 0

(* The children of a cell are a list in both directions that leads back to it,  *)
(* and an attribute is in its bucket, once.                                     *)
TreesAreLinked ==
  \A p \in Live(heap) :
    LET kids == Children(heap, p)
        table == heap[p].attributes
    IN /\ IsInjective(kids)
       /\ \A i \in DOMAIN kids :
            /\ heap[kids[i]].parent = p
            /\ heap[kids[i]].prev = IF i = 1 THEN Nil ELSE kids[i - 1]
       /\ table # Nil =>
            /\ \A b \in DOMAIN table : \A i \in DOMAIN table[b] : Bucket[table[b][i].key] = b
            /\ Cardinality({e.key : e \in Range(Entries(table))}) = HashNumKeys(table)

(* What the parser has built is what the server has sent, all its elements,     *)
(* attributes and pieces of text in their places.                               *)
Closed == FoldRight(LAMBDA e, inner : [e EXCEPT !.children = Append(@, inner)],
                    Front(doc), Last(doc))
ParsedIsSent ==
  doc # <<>> => {Contents(heap, s) : s \in Tops} = {Closed}

(* A copy is a tree of its own that says what the text of the original says,    *)
(* and making it changes nothing else.                                          *)
CopyIsText ==
  [][\A c \in Cells :
       /\ program'[c] > program[c] /\ ~heap[c].live
       /\ heap'[c].attributes # Nil \/ heap'[c].children # Nil
       => /\ \E s \in Live(heap) : Contents(heap', c) = Text(heap, s)
          /\ \A s \in Live(heap) : heap'[s] = heap[s]
          /\ Range(Tree(heap', c)) \cap Live(heap) = {}]_vars

(* xmpp_stanza_get_attributes returns "2 times the number of attributes in the  *)
(* stanza": every attribute is seen by the iterator.  It is not (HashKeys).     *)
IteratorSeesAll ==
  \A c \in Live(heap) : heap[c].attributes # Nil =>
    Len(HashKeys(heap[c].attributes)) = HashNumKeys(heap[c].attributes)

(* The heap of stanzas is sound: what is held is live, what is counted is held, *)
(* and trees are linked in all directions.                                      *)
HeapIsSound == TypeOK /\ HeldIsLive /\ CountIsReferences /\ TreesAreLinked
===============================================================================
