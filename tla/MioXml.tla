--------------------------------- MODULE MioXml ---------------------------------
(* The handlers of libmio parse the text of a stanza once more (mio_xml_parse)   *)
(* and keep track of where they are with a record of their own, since the        *)
(* callbacks of the parser get the name of an element and nothing else.          *)
EXTENDS StropheParser

(* parents is the chain of xml_data->parent, each one the name that its children *)
(* find there; before is prev_depth.  A cell stands for its element's name.      *)
ContextNew == [parents |-> <<>>, current |-> Nil, depth |-> 0, before |-> 0, freed |-> FALSE]

(* Mutant: a sibling is taken for a child.                                       *)
StartElementSibling(x, element) ==
  [x EXCEPT !.parents = IF x.before <= x.depth + 1 THEN Append(@, x.current) ELSE @,
            !.current = element, !.depth = @ + 1, !.before = x.depth + 1]

StartElement(x, element) ==
  [x EXCEPT !.parents = IF x.before < x.depth + 1 THEN Append(@, x.current) ELSE @,
            !.current = element, !.depth = @ + 1, !.before = x.depth + 1]

(* The outermost record of the chain is freed, and still pointed to, when the    *)
(* one below it goes.                                                            *)
EndElement(x) ==
  IF x.before > x.depth
  THEN [x EXCEPT !.parents = Front(@), !.freed = Len(x.parents) = 2,
                 !.before = x.depth, !.depth = @ - 1]
  ELSE [x EXCEPT !.before = x.depth, !.depth = @ - 1]

(* The elements that start and, as Nil, those that end, in a tree's text.        *)
Events(c) ==
  LET of[s \in Cells] ==
        IF heap[s].type = "text" THEN <<>>
        ELSE <<s>> \o FlattenSeq([i \in DOMAIN Children(heap, s) |-> of[Children(heap, s)[i]]])
             \o <<Nil>>
  IN of[c]

Context(events) ==
  FoldLeft(LAMBDA x, e : IF e = Nil THEN EndElement(x) ELSE StartElement(x, e),
           ContextNew, events)

(* While the handlers run, the element that a callback finds as the parent of    *)
(* its own is the one around it, and the record it finds it in was not freed:    *)
(* mio_XMLstart_pubsub_meta_receive tells by it whose property it reads.         *)
ContextIsEnclosing ==
  loop = "release" =>
    \A top \in Tops : LET events == Events(top) IN
      \A i \in DOMAIN events :
        events[i] # Nil =>
          /\ Last(Context(SubSeq(events, 1, i)).parents) = heap[events[i]].parent
          /\ ~Context(SubSeq(events, 1, i)).freed

(* The parser hands on what was sent, and the callbacks know where they are.    *)
ParsingIsExact == ParsedIsSent /\ ContextIsEnclosing
===============================================================================
