--------------------------- MODULE StropheConnProofs ---------------------------
(***************************************************************************)
(* Theorems about StropheConn, for items of any size and any number of     *)
(* them: the send queue is sound, what it sends is a stream, and the end   *)
(* of a connection is reported once.                                       *)
(***************************************************************************)
EXTENDS StropheConn, SequenceTheorems, TLAPS

QueueItem == [item: Items, written: 0..Size-1]

\* The queue holds the items queued last, in the order in which they were queued, and
\* only the one at the head is partly written.
QueueInv(c) ==
  /\ c.tail = IF c.queue = <<>> THEN None ELSE c.last
  /\ \A i \in 1..Len(c.queue) : c.queue[i].item = c.last - Len(c.queue) + i
  /\ \A i \in 2..Len(c.queue) : c.queue[i].written = 0

\* How many of the bytes queued come before what is left of the queue.
Front(c) == IF c.queue = <<>> THEN c.last * Size
            ELSE (c.queue[1].item - 1) * Size + c.queue[1].written

\* A connection whose record is sound.
Sound(c) == c \in Fields /\ QueueInv(c)

\* The bytes up to there are on the wire, or went out on the old connection.
WireInv == /\ wire \in Seq(Nat) /\ skip + Len(wire) = Front(conn)
           /\ \A k \in 1..Len(wire) : wire[k] = skip + k

\* Which phase of the loop and of the stream goes with which state.
StateInv ==
  /\ conn.state # "disconnected" => conn.reports = 0
  /\ conn.state # "disconnected" => conn.sock = "open"
  /\ at = "start" => /\ conn.state = "disconnected" /\ conn.sock = "none"
                     /\ conn.reports = 0 /\ xml = "new"
  /\ xml = "ended" => conn.state = "disconnected"
  /\ at = "feed" /\ xml = "new" => conn.state = "connected"
  /\ at = "feed" /\ xml = "open" => /\ excess \/ conn.state = "connected"
                                   /\ conn.reports <= 1
  /\ at = "feed" => conn.reports <= 2
  /\ excess \/ conn.reports <= 1

\* The types of what is not in the record of the connection.
RestOK ==
  /\ loop \in {"notstarted", "running", "quit"}
  /\ at \in {"start", "spawned", "test", "enter", "mark", "write", "timed", "watch",
             "select", "events", "feed", "again", "exit"}
  /\ net \in {"none", "pending", "refused", "up"}
  /\ xml \in {"new", "open", "ended"}
  /\ skip \in 0..Size-1 /\ late \in BOOLEAN /\ excess \in BOOLEAN

\* The inductive invariant.
IInv == Sound(conn) /\ WireInv /\ StateInv /\ RestOK

-------------------------------------------------------------------------------
(* What the operations do to the record *)

\* d is c with items queued: what is before the queue is the same.
Longer(c, d) == Sound(d) /\ Front(d) = Front(c) /\ d.last >= c.last /\ d.sock = c.sock

\* And nothing else has happened, other than to the timer and to TLS.
Queues(c, d) == Longer(c, d) /\ d.state = c.state /\ d.reports = c.reports

\* d is c with its connection ended.
Ends(c, d) ==
  /\ Sound(d) /\ Front(d) = Front(c) /\ d.last = c.last
  /\ d.state = "disconnected" /\ d.sock = "closed" /\ d.reports = c.reports + 1

\* The assumptions, as the provers need them.
LEMMA SizesAreNumbers == Size \in Nat /\ Size > 0 /\ MaxItems \in Nat /\ MaxItems > 1
  BY SizeAssumption, ItemsAssumption

\* What precedes the queue are the items before its first and what was written of that.
LEMMA FrontIsBounded ==
  ASSUME NEW c, Sound(c)
  PROVE  /\ Front(c) \in Nat /\ Front(c) <= c.last * Size
         /\ c.last * Size \in Nat /\ c.last * Size <= MaxItems * Size
  <1>1. c.last \in 0..MaxItems /\ c.queue \in Seq(QueueItem)
        BY DEF Sound, Fields, QueueItem
  <1>2. c.last * Size \in Nat /\ c.last * Size <= MaxItems * Size
        BY <1>1, SizesAreNumbers
  <1>3. CASE c.queue = <<>>  BY <1>2, <1>3 DEF Front
  <1>4. CASE c.queue # <<>>
    <2>1. Len(c.queue) \in Nat \ {0} /\ c.queue[1] \in QueueItem  BY <1>1, <1>4
    <2>2. c.queue[1].item \in 1..c.last /\ c.queue[1].written \in 0..Size-1
      <3>1. c.queue[1].item \in Items /\ c.queue[1].written \in 0..Size-1
            BY <2>1 DEF QueueItem
      <3>2. c.queue[1].item = c.last - Len(c.queue) + 1
            BY <2>1 DEF Sound, QueueInv
      <3> QED  BY <1>1, <2>1, <3>1, <3>2, SizesAreNumbers DEF Items
    <2> DEFINE n == c.queue[1].item - 1
    <2>i. n \in Nat /\ c.last \in Nat /\ n + 1 <= c.last
          BY <1>1, <2>2
    <2> HIDE DEF n
    <2>3. n * Size \in Nat
          BY <2>i, SizesAreNumbers
    <2>4. n * Size + Size <= c.last * Size
      <3>1. n * Size + Size = (n + 1) * Size
            BY <2>i, SizesAreNumbers, SMTT(30)
      <3>2. (n + 1) * Size <= c.last * Size
            BY <2>i, SizesAreNumbers, SMTT(30)
      <3> QED  BY <3>1, <3>2
    <2>5. Front(c) = n * Size + c.queue[1].written
          BY <1>4 DEF Front, n
    <2>6. c.queue[1].written \in Nat /\ c.queue[1].written < Size
          BY <2>2, SizesAreNumbers
    <2> QED  BY <1>2, <2>3, <2>4, <2>5, <2>6, SizesAreNumbers, SMTT(30)
  <1> QED  BY <1>2, <1>3, <1>4

LEMMA QueuesTwice ==
  ASSUME NEW c, NEW d, NEW e, c.last \in Nat, d.last \in Nat, e.last \in Nat,
         Queues(c, d), Queues(d, e)
  PROVE  Queues(c, e)
  BY DEF Queues, Longer

\* xmpp_send_raw finds the tail where it says, so that nothing is lost.
LEMMA SendRawQueues == ASSUME NEW c, Sound(c) PROVE Queues(c, SendRaw(c))
  <1>1. c \in Fields /\ c.queue \in Seq(QueueItem) /\ c.last \in 0..MaxItems
        BY DEF Sound, Fields, QueueItem
  <1>2. CASE c.state # "connected" \/ c.last = MaxItems
        BY <1>1, <1>2 DEF SendRaw, Queues, Longer, Sound
  <1>3. CASE c.state = "connected" /\ c.last # MaxItems
    <2> DEFINE item == [item |-> c.last + 1, written |-> 0]
               q == Append(c.queue, item)
               d == [c EXCEPT !.last = c.last + 1, !.tail = c.last + 1, !.queue = q]
    <2>1. item \in QueueItem  BY <1>1, <1>3, SizesAreNumbers DEF QueueItem, Items
    <2>2. /\ q \in Seq(QueueItem) /\ q # <<>> /\ Len(q) = Len(c.queue) + 1
          /\ \A i \in 1..Len(c.queue) : q[i] = c.queue[i]
          /\ q[Len(c.queue) + 1] = item
          BY <1>1, <2>1, AppendProperties
    <2>3. SendRaw(c) = d
      <3>1. CASE c.queue = <<>>
        <4>1. c.tail = None  BY <3>1 DEF Sound, QueueInv
        <4>2. q = <<item>>  BY <3>1
        <4> QED  BY <1>3, <4>1, <4>2 DEF SendRaw
      <3>2. CASE c.queue # <<>>
        <4>1. Len(c.queue) \in Nat \ {0}  BY <1>1, <3>2
        <4>2. c.tail = c.last /\ c.queue[Len(c.queue)].item = c.last
              BY <1>1, <3>2, <4>1 DEF Sound, QueueInv
        <4>3. c.tail # None  BY <1>1, <4>2, NoneAssumption, SizesAreNumbers
        <4> QED  BY <1>3, <3>2, <4>2, <4>3 DEF SendRaw
      <3> QED  BY <3>1, <3>2
    <2>4. d \in Fields
      <3>1. c.last + 1 \in 0..MaxItems /\ c.last + 1 \in Items
            BY <1>1, <1>3, SizesAreNumbers DEF Items
      <3> QED  BY <1>1, <2>2, <3>1 DEF Fields, QueueItem
    <2>5. d.queue = q /\ d.last = c.last + 1 /\ d.tail = c.last + 1
          BY <1>1 DEF Fields
    <2>6. QueueInv(d)
      <3>1. Len(c.queue) \in Nat  BY <1>1
      <3>2. \A i \in 1..Len(q) : q[i].item = d.last - Len(q) + i
        <4> TAKE i \in 1..Len(q)
        <4>1. CASE i = Len(c.queue) + 1  BY <1>1, <2>2, <2>5, <3>1, <4>1
        <4>2. CASE i \in 1..Len(c.queue)
          <5>1. c.queue[i].item = c.last - Len(c.queue) + i  BY <4>2 DEF Sound, QueueInv
          <5> QED  BY <1>1, <2>2, <2>5, <3>1, <4>2, <5>1
        <4> QED  BY <2>2, <3>1, <4>1, <4>2
      <3>3. \A i \in 2..Len(q) : q[i].written = 0
            BY <2>2, <3>1 DEF Sound, QueueInv
      <3> QED  BY <2>2, <2>5, <3>2, <3>3 DEF QueueInv
    <2>7. Front(d) = Front(c)
      <3>1. CASE c.queue = <<>>
        <4>1. q[1].item - 1 = c.last /\ q[1].written = 0  BY <1>1, <2>2, <3>1
        <4>2. c.last * Size + 0 = c.last * Size  BY <1>1, SizesAreNumbers
        <4>3. Front(d) = (q[1].item - 1) * Size + q[1].written  BY <2>2, <2>5 DEF Front
        <4>4. Front(c) = c.last * Size  BY <3>1 DEF Front
        <4> HIDE DEF item, d, q
        <4> QED  BY <4>1, <4>2, <4>3, <4>4
      <3>2. CASE c.queue # <<>>
        <4>1. q[1] = c.queue[1]  BY <1>1, <2>2, <3>2
        <4> QED  BY <2>2, <2>5, <3>2, <4>1 DEF Front
      <3> QED  BY <3>1, <3>2
    <2>8. d.state = c.state /\ d.sock = c.sock /\ d.reports = c.reports
          BY <1>1 DEF Fields
    <2>9. d.last >= c.last  BY <1>1, <2>5
    <2> HIDE DEF d
    <2> QED  BY <2>3, <2>4, <2>6, <2>7, <2>8, <2>9 DEF Queues, Longer, Sound
  <1> QED  BY <1>2, <1>3

\* Fields that the queue does not depend on.
LEMMA FlagsKeepSound ==
  ASSUME NEW c, Sound(c), NEW d \in Fields,
         d.queue = c.queue, d.last = c.last, d.tail = c.tail
  PROVE  Sound(d) /\ Front(d) = Front(c)
  BY DEF Sound, QueueInv, Front

LEMMA DisconnectEnds ==
  ASSUME NEW c, Sound(c), c.reports < 3
  PROVE  Ends(c, Disconnect(c))
  <1> DEFINE d == Disconnect(c)
  <1>1. c \in Fields  BY DEF Sound
  <1>2. c.reports + 1 \in 0..3  BY <1>1 DEF Fields
  <1>3. d \in Fields  BY <1>1, <1>2 DEF Disconnect, Fields
  <1>4. /\ d.queue = c.queue /\ d.last = c.last /\ d.tail = c.tail
        /\ d.state = "disconnected" /\ d.sock = "closed" /\ d.reports = c.reports + 1
        BY <1>1 DEF Disconnect, Fields
  <1> HIDE DEF d
  <1>5. Ends(c, d)  BY <1>3, <1>4, FlagsKeepSound DEF Ends
  <1> QED  BY <1>5 DEF d

\* xmpp_disconnect.
LEMMA AskToCloseQueues == ASSUME NEW c, Sound(c) PROVE Queues(c, AskToClose(c))
  <1>1. CASE c.state = "disconnected"
        BY <1>1 DEF AskToClose, Queues, Longer, Sound, Fields
  <1>2. CASE c.state # "disconnected"
    <2> DEFINE d == SendRaw(c)
               e == [d EXCEPT !.timer = IF @ = "off" THEN "set" ELSE @]
    <2>1. Queues(c, d)  BY SendRawQueues
    <2>2. d \in Fields  BY <2>1 DEF Queues, Longer, Sound
    <2> HIDE DEF d
    <2>3. /\ e \in Fields /\ e.queue = d.queue /\ e.last = d.last /\ e.tail = d.tail
          /\ e.state = d.state /\ e.sock = d.sock /\ e.reports = d.reports
          BY <2>2 DEF Fields
    <2> HIDE DEF e
    <2>4. Sound(e) /\ Front(e) = Front(d)  BY <2>1, <2>3, FlagsKeepSound DEF Queues, Longer
    <2>5. Queues(c, e)  BY <2>1, <2>3, <2>4 DEF Queues, Longer
    <2> QED  BY <1>2, <2>5 DEF AskToClose, SendRawString, d, e
  <1> QED  BY <1>1, <1>2

\* _handle_proceedtls_default.
LEMMA StartTlsQueues ==
  ASSUME NEW c, Sound(c), NEW d \in StartTls(c) PROVE Queues(c, d)
  <1>1. CASE d = AskToClose(c)  BY <1>1, AskToCloseQueues
  <1>2. CASE d = OpenStream([c EXCEPT !.tls = TRUE, !.reset = TRUE])
    <2> DEFINE e == [c EXCEPT !.tls = TRUE, !.reset = TRUE]
    <2>1. /\ e \in Fields /\ e.queue = c.queue /\ e.last = c.last /\ e.tail = c.tail
          /\ e.state = c.state /\ e.sock = c.sock /\ e.reports = c.reports
          BY DEF Sound, Fields
    <2> HIDE DEF e
    <2>2. Sound(e) /\ Front(e) = Front(c)  BY <2>1, FlagsKeepSound
    <2>3. Queues(e, SendRaw(e))  BY <2>2, SendRawQueues
    <2>4. Queues(c, SendRaw(e))  BY <2>1, <2>2, <2>3 DEF Queues, Longer
    <2> QED  BY <1>2, <2>4 DEF OpenStream, SendRawString, e
  <1> QED  BY <1>1, <1>2 DEF StartTls

LEMMA SoundQueues == ASSUME NEW c, Sound(c) PROVE Queues(c, c)
  BY DEF Queues, Longer, Sound, Fields

\* Whatever handlers do, they add to the queue at most.
LEMMA HandledQueues ==
  ASSUME NEW c, Sound(c), NEW d \in Handled(c) \cup Timed(c) PROVE Queues(c, d)
  <1>1. CASE d = c  BY <1>1, SoundQueues
  <1>2. CASE d = SendRaw(c)  BY <1>2, SendRawQueues
  <1>3. CASE d = AskToClose(c)  BY <1>3, AskToCloseQueues
  <1>4. CASE d \in StartTls(c)  BY <1>4, StartTlsQueues
  <1> QED  BY <1>1, <1>2, <1>3, <1>4 DEF Handled, Timed

\* A closed connection takes nothing: all that handlers can do is nothing.
LEMMA HandledWhenClosed ==
  ASSUME NEW c, c.state = "disconnected", NEW d \in Handled(c) PROVE d = c
  BY DEF Handled, SendRaw, AskToClose

Unlinked(c) ==
  [c EXCEPT !.queue = Tail(@), !.tail = IF Len(c.queue) = 1 THEN None ELSE @]

\* An item that is written is unlinked: the next one is whole, and follows.
LEMMA UnlinkAdvances ==
  ASSUME NEW c, Sound(c), c.queue # <<>>, NEW d, d = Unlinked(c)
  PROVE  /\ Sound(d) /\ Front(d) = Front(c) + (Size - c.queue[1].written)
         /\ d.last = c.last /\ d.state = c.state /\ d.sock = c.sock /\ d.reports = c.reports
  <1> USE DEF Unlinked
  <1>1. c \in Fields /\ c.queue \in Seq(QueueItem) /\ c.last \in 0..MaxItems
        BY DEF Sound, Fields, QueueItem
  <1> DEFINE q == Tail(c.queue)
  <1>2. /\ Len(c.queue) \in Nat \ {0} /\ q \in Seq(QueueItem) /\ Len(q) = Len(c.queue) - 1
        /\ \A i \in 1..Len(q) : q[i] = c.queue[i + 1]
        BY <1>1
  <1> HIDE DEF q
  <1>3. q = <<>> <=> Len(c.queue) = 1
    <2>1. q = <<>> <=> Len(q) = 0  BY <1>2, EmptySeq
    <2> QED  BY <1>2, <2>1
  <1>4. c.queue[1] \in QueueItem /\ c.queue[1].written \in 0..Size-1
    <2>1. c.queue[1] \in QueueItem  BY <1>1, <1>2
    <2> QED  BY <2>1 DEF QueueItem
  <1>5. /\ d.queue = q /\ d.last = c.last /\ d.state = c.state /\ d.sock = c.sock
        /\ d.reports = c.reports /\ d.tail = IF Len(c.queue) = 1 THEN None ELSE c.tail
        BY <1>1 DEF Fields, q
  <1>6. d \in Fields  BY <1>1, <1>2 DEF Fields, QueueItem, q
  <1>7. QueueInv(d)
    <2>1. d.tail = IF q = <<>> THEN None ELSE d.last
          BY <1>2, <1>3, <1>5 DEF Sound, QueueInv
    <2>2. ASSUME NEW i \in 1..Len(q)
          PROVE  q[i].item = d.last - Len(q) + i /\ q[i].written = 0
      <3>1. i + 1 \in 2..Len(c.queue) /\ q[i] = c.queue[i + 1]  BY <1>2
      <3>2. c.queue[i + 1].item = c.last - Len(c.queue) + (i + 1)
            BY <1>2, <3>1 DEF Sound, QueueInv
      <3>3. c.queue[i + 1].written = 0  BY <3>1 DEF Sound, QueueInv
      <3> QED  BY <1>1, <1>2, <1>5, <3>1, <3>2, <3>3
    <2>3. \A i \in 2..Len(q) : q[i].written = 0  BY <1>2, <2>2
    <2> QED  BY <1>5, <2>1, <2>2, <2>3 DEF QueueInv
  <1>8. Front(d) = Front(c) + (Size - c.queue[1].written)
    <2> DEFINE L == Len(c.queue)
    <2>1. c.queue[1].item = c.last - L + 1 /\ c.queue[1].item \in Items
          BY <1>2, <1>4 DEF Sound, QueueInv, QueueItem
    <2>2. /\ Front(c) = (c.last - L) * Size + c.queue[1].written /\ c.last - L \in Nat
      <3>1. Front(c) = (c.queue[1].item - 1) * Size + c.queue[1].written  BY DEF Front
      <3>2. c.queue[1].item - 1 = c.last - L /\ c.last - L \in Nat
            BY <1>1, <1>2, <2>1 DEF Items
      <3> QED  BY <3>1, <3>2
    <2>3. Front(d) = (c.last - L + 1) * Size
      <3>1. CASE q = <<>>
        <4>1. L = 1  BY <1>3, <3>1
        <4>2. c.last - L + 1 = c.last  BY <1>1, <4>1
        <4>3. Front(d) = c.last * Size  BY <1>5, <3>1 DEF Front
        <4> QED  BY <4>2, <4>3
      <3>2. CASE q # <<>>
        <4>1. 1 \in 1..Len(q) /\ 2 \in 2..L  BY <1>2, <1>3, <3>2
        <4>2. q[1] = c.queue[2] /\ c.queue[2].written = 0 /\ c.queue[2].item = c.last - L + 2
              BY <1>2, <4>1 DEF Sound, QueueInv
        <4>3. Front(d) = (q[1].item - 1) * Size + q[1].written  BY <1>5, <3>2 DEF Front
        <4>4. q[1].item - 1 = c.last - L + 1 /\ q[1].written = 0
              BY <1>1, <1>2, <4>2
        <4>5. (c.last - L + 1) * Size + 0 = (c.last - L + 1) * Size
              BY <1>1, <1>2, SizesAreNumbers
        <4> QED  BY <4>3, <4>4, <4>5
      <3> QED  BY <3>1, <3>2
    <2>4. (c.last - L + 1) * Size = (c.last - L) * Size + Size
          BY <2>2, SizesAreNumbers
    <2>5. (c.last - L) * Size \in Nat  BY <2>2, SizesAreNumbers
    <2> QED  BY <1>4, <2>2, <2>3, <2>4, <2>5, SizesAreNumbers
  <1> QED  BY <1>5, <1>6, <1>7, <1>8 DEF Sound

\* A part of an item is written.
LEMMA PartAdvances ==
  ASSUME NEW c, Sound(c), c.queue # <<>>,
         NEW n \in Nat, n + c.queue[1].written < Size,
         NEW d, d = [c EXCEPT !.queue[1].written = @ + n]
  PROVE  /\ Sound(d) /\ Front(d) = Front(c) + n
         /\ d.last = c.last /\ d.state = c.state /\ d.sock = c.sock /\ d.reports = c.reports
  <1>1. c \in Fields /\ c.queue \in Seq(QueueItem) /\ c.last \in 0..MaxItems
        BY DEF Sound, Fields, QueueItem
  <1> DEFINE h == [c.queue[1] EXCEPT !.written = @ + n]
             q == [c.queue EXCEPT ![1] = h]
  <1>2. Len(c.queue) \in Nat \ {0}  BY <1>1
  <1>3. c.queue[1] \in QueueItem /\ c.queue[1].written \in 0..Size-1
    <2>1. c.queue[1] \in QueueItem  BY <1>1, <1>2
    <2> QED  BY <2>1 DEF QueueItem
  <1>4. /\ h \in QueueItem /\ h.item = c.queue[1].item
        /\ h.written = c.queue[1].written + n
        BY <1>3, SizesAreNumbers DEF QueueItem
  <1> HIDE DEF h
  <1>5. /\ q \in Seq(QueueItem) /\ Len(q) = Len(c.queue) /\ q[1] = h
        /\ \A i \in 2..Len(q) : q[i] = c.queue[i]
    <2>1. 1 \in 1..Len(c.queue)  BY <1>2
    <2> QED  BY <1>1, <1>4, <2>1, ExceptSeq
  <1>6. q # <<>>  BY <1>2, <1>5, EmptySeq
  <1>7. d = [c EXCEPT !.queue = q]  BY DEF h
  <1> HIDE DEF q
  <1>8. /\ d.queue = q /\ d.last = c.last /\ d.state = c.state /\ d.sock = c.sock
        /\ d.reports = c.reports /\ d.tail = c.tail
        BY <1>1, <1>7 DEF Fields
  <1>9. d \in Fields  BY <1>1, <1>5, <1>7 DEF Fields, QueueItem
  <1>10. QueueInv(d)
    <2>1. d.tail = IF q = <<>> THEN None ELSE d.last  BY <1>6, <1>8 DEF Sound, QueueInv
    <2>2. \A i \in 1..Len(q) : q[i].item = d.last - Len(q) + i
          BY <1>2, <1>4, <1>5, <1>8 DEF Sound, QueueInv
    <2>3. \A i \in 2..Len(q) : q[i].written = 0
          BY <1>5 DEF Sound, QueueInv
    <2> QED  BY <1>8, <2>1, <2>2, <2>3 DEF QueueInv
  <1>11. Front(d) = Front(c) + n
    <2>1. Front(d) = (q[1].item - 1) * Size + q[1].written  BY <1>6, <1>8 DEF Front
    <2>2. Front(c) = (c.queue[1].item - 1) * Size + c.queue[1].written  BY DEF Front
    <2>3. (c.queue[1].item - 1) * Size \in Int
          BY <1>3, SizesAreNumbers DEF QueueItem, Items
    <2>4. Front(d) = (c.queue[1].item - 1) * Size + (c.queue[1].written + n)
          BY <1>4, <1>5, <2>1
    <2> QED  BY <1>3, <2>2, <2>3, <2>4, SizesAreNumbers
  <1> QED  BY <1>8, <1>9, <1>10, <1>11 DEF Sound

-------------------------------------------------------------------------------
(* The invariant holds at first *)

LEMMA InitIInv == ASSUME Init PROVE IInv
  <1>1. PICK q \in HandedOver, t \in {"off", "set"} :
          /\ conn = [state |-> "disconnected", sock |-> "none", tls |-> FALSE,
                     error |-> FALSE, queue |-> q,
                     tail |-> IF q = <<>> THEN None ELSE Len(q), timer |-> t,
                     reset |-> TRUE, last |-> Len(q), reports |-> 0]
          /\ skip = IF q = <<>> THEN 0 ELSE q[1].written
        BY DEF Init
  <1>2. /\ q \in Seq(QueueItem) /\ Len(q) \in 0..2
        /\ \A i \in 1..Len(q) : q[i].item = i
        /\ \A i \in 2..Len(q) : q[i].written = 0
    <2>1. CASE q = <<>>  BY <2>1
    <2>2. ASSUME NEW w \in 0..Size-1, q = <<[item |-> 1, written |-> w]>> PROVE <1>2
      <3>1. [item |-> 1, written |-> w] \in QueueItem
            BY SizesAreNumbers DEF QueueItem, Items
      <3> QED  BY <2>2, <3>1
    <2>3. CASE q = <<[item |-> 1, written |-> Size - 1], [item |-> 2, written |-> 0]>>
      <3>1. /\ [item |-> 1, written |-> Size - 1] \in QueueItem
            /\ [item |-> 2, written |-> 0] \in QueueItem
            BY SizesAreNumbers DEF QueueItem, Items
      <3> QED  BY <2>3, <3>1
    <2> QED  BY <2>1, <2>2, <2>3 DEF HandedOver
  <1>3. /\ conn.queue = q /\ conn.last = Len(q) /\ conn.reports = 0
        /\ conn.tail = IF q = <<>> THEN None ELSE Len(q)
        /\ conn.state = "disconnected" /\ conn.sock = "none"
        BY <1>1
  <1>4. conn \in Fields
    <2>1. Len(q) \in 0..MaxItems /\ (q # <<>> => Len(q) \in Items)
          BY <1>2, SizesAreNumbers DEF Items
    <2> QED  BY <1>1, <1>2, <2>1 DEF Fields, QueueItem
  <1>5. QueueInv(conn)  BY <1>2, <1>3 DEF QueueInv
  <1>6. skip = Front(conn) /\ skip \in 0..Size-1
    <2>1. CASE q = <<>>  BY <1>1, <1>3, <2>1, SizesAreNumbers DEF Front
    <2>2. CASE q # <<>>
      <3>1. q[1].item = 1 /\ q[1] \in QueueItem  BY <1>2, <2>2
      <3>2. q[1].written \in 0..Size-1  BY <3>1 DEF QueueItem
      <3>3. Front(conn) = (q[1].item - 1) * Size + q[1].written
            BY <1>3, <2>2 DEF Front
      <3>4. (1 - 1) * Size = 0  BY SizesAreNumbers
      <3> QED  BY <1>1, <2>2, <3>1, <3>2, <3>3, <3>4, SizesAreNumbers
    <2> QED  BY <2>1, <2>2
  <1>7. WireInv
    <2>1. wire = <<>> /\ wire \in Seq(Nat) /\ Len(wire) = 0  BY DEF Init
    <2>2. skip + 0 = Front(conn)  BY <1>6, SizesAreNumbers
    <2> QED  BY <2>1, <2>2 DEF WireInv
  <1>8. StateInv  BY <1>3 DEF StateInv, Init
  <1>9. RestOK  BY <1>6 DEF RestOK, Init
  <1> QED  BY <1>4, <1>5, <1>7, <1>8, <1>9 DEF IInv, Sound

-------------------------------------------------------------------------------
(* Every step keeps it, and is a step of the stream *)

\* The bytes from the one after s on, as many as n.
Bytes(s, n) == [k \in 1..n |-> s + k]

\* The stream's input, as the module maps it.
Input == Bytes(skip, conn.last * Size - skip)

StreamStep == [Stream!Next]_<<Input, wire, conn.sock = "closed">>

\* A stretch of bytes is the beginning of a longer one.
LEMMA BytesPrefix ==
  ASSUME NEW s \in Nat, NEW m \in Nat, NEW n \in Nat, m <= n
  PROVE  Stream!IsPrefix(Bytes(s, m), Bytes(s, n))
  <1>1. Bytes(s, m) \in Seq(Nat) /\ Len(Bytes(s, m)) = m  BY DEF Bytes
  <1>2. Bytes(s, n) \in Seq(Nat) /\ Len(Bytes(s, n)) = n  BY DEF Bytes
  <1>3. SubSeq(Bytes(s, m), 1, m) = SubSeq(Bytes(s, n), 1, m)
    <2>1. \A k \in 1..m : Bytes(s, m)[k] = Bytes(s, n)[k]  BY DEF Bytes
    <2> QED  BY <1>1, <1>2, <2>1
  <1> QED  BY <1>1, <1>2, <1>3 DEF Stream!IsPrefix

\* The wire has the first bytes of the input.
LEMMA WireIsBytes ==
  ASSUME IInv
  PROVE  /\ wire = Bytes(skip, Len(wire)) /\ Len(wire) \in Nat /\ skip \in Nat
         /\ skip + Len(wire) = Front(conn) /\ Front(conn) <= conn.last * Size
         /\ conn.last * Size - skip \in Nat
  <1>1. wire \in Seq(Nat) /\ Len(wire) \in Nat /\ skip \in Nat
        BY SizesAreNumbers DEF IInv, WireInv, RestOK
  <1>2. wire = Bytes(skip, Len(wire))
    <2>1. Bytes(skip, Len(wire)) \in Seq(Nat) /\ Len(Bytes(skip, Len(wire))) = Len(wire)
          BY <1>1 DEF Bytes
    <2>2. \A k \in 1..Len(wire) : wire[k] = Bytes(skip, Len(wire))[k]
          BY DEF IInv, WireInv, Bytes
    <2> HIDE DEF Bytes
    <2> QED  BY <1>1, <2>1, <2>2, SeqEqual
  <1>3. /\ Front(conn) \in Nat /\ conn.last * Size \in Nat
        /\ Front(conn) <= conn.last * Size
        BY FrontIsBounded DEF IInv
  <1> QED  BY <1>1, <1>2, <1>3 DEF IInv, WireInv

\* A step adds to the queue, or changes nothing that the stream has.
Adds == Longer(conn, conn') /\ UNCHANGED <<wire, skip>>

LEMMA AddsIsPut ==
  ASSUME IInv, Adds PROVE Sound(conn)' /\ WireInv' /\ StreamStep
  <1>1. Sound(conn')  BY DEF Adds, Longer
  <1>2. WireInv'  BY DEF Adds, Longer, IInv, WireInv
  <1>3. StreamStep
    <2>1. /\ conn.last * Size - skip \in Nat /\ skip \in Nat  BY WireIsBytes
    <2>2. conn'.last * Size - skip \in Nat /\ conn.last * Size - skip <= conn'.last * Size - skip
      <3>1. conn.last \in Nat /\ conn'.last \in Nat /\ conn'.last >= conn.last
            BY SizesAreNumbers DEF IInv, Adds, Longer, Sound, Fields
      <3>2. conn.last * Size <= conn'.last * Size /\ conn'.last * Size \in Nat
            BY <3>1, SizesAreNumbers
      <3>3. conn.last * Size \in Nat  BY <3>1, SizesAreNumbers
      <3> QED  BY <2>1, <3>2, <3>3
    <2>3. Stream!IsPrefix(Input, Bytes(skip, conn'.last * Size - skip))
          BY <2>1, <2>2, BytesPrefix DEF Input
    <2>4. Input' = Bytes(skip, conn'.last * Size - skip)  BY DEF Input, Adds
    <2>5. Stream!Put
          BY <2>3, <2>4 DEF Stream!Put, Adds, Longer, Input, Bytes
    <2> QED  BY <2>5 DEF StreamStep, Stream!Next
  <1> QED  BY <1>1, <1>2, <1>3

\* A step ends the connection.
Closes == Ends(conn, conn') /\ UNCHANGED <<wire, skip>>

LEMMA ClosesIsClose ==
  ASSUME IInv, Closes PROVE Sound(conn)' /\ WireInv' /\ StreamStep
  <1>1. Sound(conn')  BY DEF Closes, Ends
  <1>2. WireInv'  BY DEF Closes, Ends, IInv, WireInv
  <1>3. Stream!Close  BY DEF Closes, Ends, Stream!Close
  <1> QED  BY <1>1, <1>2, <1>3 DEF StreamStep, Stream!Next

\* The state of a connection that is not closed, or the socket that it opens, says nothing
\* to the stream.
Moves ==
  /\ Sound(conn') /\ Front(conn') = Front(conn) /\ conn'.last = conn.last
  /\ conn.sock # "closed" /\ conn'.sock # "closed" /\ UNCHANGED <<wire, skip>>

LEMMA MovesIsStutter ==
  ASSUME IInv, Moves PROVE Sound(conn)' /\ WireInv' /\ StreamStep
  <1>1. Sound(conn')  BY DEF Moves
  <1>2. WireInv'  BY DEF Moves, IInv, WireInv
  <1>3. UNCHANGED <<Input, wire, conn.sock = "closed">>  BY DEF Moves, Input
  <1> QED  BY <1>1, <1>2, <1>3 DEF StreamStep

\* n bytes more are on the wire, of a connection that is up.
Writes(n) ==
  /\ Sound(conn') /\ Front(conn') = Front(conn) + n /\ conn'.last = conn.last
  /\ conn'.sock = conn.sock /\ conn.sock = "open" /\ UNCHANGED skip
  /\ wire' = wire \o Bytes(Front(conn), n)

LEMMA WritesIsTake ==
  ASSUME IInv, NEW n \in Nat, Writes(n) PROVE Sound(conn)' /\ WireInv' /\ StreamStep
  <1>1. Sound(conn')  BY DEF Writes
  <1>2. /\ wire = Bytes(skip, Len(wire)) /\ Len(wire) \in Nat /\ skip \in Nat
        /\ skip + Len(wire) = Front(conn) /\ conn.last * Size - skip \in Nat
        BY WireIsBytes
  <1>3. Bytes(Front(conn), n) \in Seq(Nat) /\ Len(Bytes(Front(conn), n)) = n
    <2>1. Front(conn) \in Nat  BY <1>2
    <2> QED  BY <2>1 DEF Bytes
  <1>4. /\ wire' \in Seq(Nat) /\ Len(wire') = Len(wire) + n
        /\ \A k \in 1..Len(wire) + n :
             wire'[k] = IF k <= Len(wire) THEN wire[k] ELSE Bytes(Front(conn), n)[k - Len(wire)]
    <2>1. wire \in Seq(Nat) /\ wire' = wire \o Bytes(Front(conn), n)
          BY DEF Writes, IInv, WireInv
    <2> DEFINE more == Bytes(Front(conn), n)
    <2> HIDE DEF more
    <2>2. more \in Seq(Nat) /\ Len(more) = n  BY <1>3 DEF more
    <2>3. /\ wire \o more \in Seq(Nat) /\ Len(wire \o more) = Len(wire) + n
          /\ \A k \in 1..Len(wire) + n :
               (wire \o more)[k] = IF k <= Len(wire) THEN wire[k] ELSE more[k - Len(wire)]
          BY <2>1, <2>2, ConcatProperties
    <2> QED  BY <2>1, <2>3 DEF more
  <1>5. \A k \in 1..Len(wire') : wire'[k] = skip + k
    <2> SUFFICES ASSUME NEW k \in 1..Len(wire') PROVE wire'[k] = skip + k  OBVIOUS
    <2>1. CASE k <= Len(wire)
      <3>1. k \in 1..Len(wire)  BY <1>2, <1>4, <2>1
      <3>2. wire[k] = skip + k  BY <3>1 DEF IInv, WireInv
      <3> QED  BY <1>4, <2>1, <3>2
    <2>2. CASE ~(k <= Len(wire))
      <3>1. k - Len(wire) \in 1..n  BY <1>2, <1>4, <2>2
      <3>2. Bytes(Front(conn), n)[k - Len(wire)] = Front(conn) + (k - Len(wire))
            BY <3>1 DEF Bytes
      <3> QED  BY <1>2, <1>4, <2>2, <3>1, <3>2
    <2> QED  BY <2>1, <2>2
  <1>6. skip' + Len(wire') = Front(conn')  BY <1>2, <1>4 DEF Writes
  <1>7. WireInv'  BY <1>4, <1>5, <1>6 DEF Writes, WireInv
  <1>8. StreamStep
    <2>1. wire' = Bytes(skip, Len(wire'))
      <3>1. Bytes(skip, Len(wire')) \in Seq(Nat) /\ Len(Bytes(skip, Len(wire'))) = Len(wire')
            BY <1>2, <1>4 DEF Bytes
      <3>2. \A k \in 1..Len(wire') : wire'[k] = Bytes(skip, Len(wire'))[k]
            BY <1>5 DEF Bytes
      <3> QED  BY <1>4, <3>1, <3>2, SeqEqual
    <2>2. Len(wire') \in Nat /\ Len(wire) <= Len(wire')  BY <1>2, <1>4
    <2>3. Stream!IsPrefix(wire, wire')
      <3>1. Stream!IsPrefix(Bytes(skip, Len(wire)), Bytes(skip, Len(wire')))
            BY <1>2, <2>2, BytesPrefix
      <3> QED  BY <1>2, <2>1, <3>1
    <2>4. Len(wire') <= conn.last * Size - skip
      <3>1. /\ Front(conn') <= conn'.last * Size /\ conn'.last = conn.last
            /\ conn'.last * Size \in Nat
            BY <1>1, FrontIsBounded DEF Writes
      <3> QED  BY <1>2, <1>4, <1>6, <3>1 DEF Writes
    <2>5. Stream!IsPrefix(wire', Input)
      <3>1. Stream!IsPrefix(Bytes(skip, Len(wire')), Bytes(skip, conn.last * Size - skip))
            BY <1>2, <2>2, <2>4, BytesPrefix
      <3> QED  BY <2>1, <3>1 DEF Input
    <2>6. UNCHANGED <<Input, conn.sock = "closed">>  BY DEF Writes, Input
    <2>7. Stream!Take
          BY <2>3, <2>5, <2>6 DEF Stream!Take, Writes, Input, Bytes
    <2> QED  BY <2>7 DEF StreamStep, Stream!Next
  <1> QED  BY <1>1, <1>7, <1>8

\* What is shown of every step.
Keeps == IInv' /\ StreamStep

\* Of the three parts of a step that only adds, the types of the rest and the phase
\* remain to be shown.
LEMMA AddsKeeps ==
  ASSUME IInv, Adds, StateInv', RestOK' PROVE Keeps
  BY AddsIsPut DEF IInv, Keeps

LEMMA ClosesKeeps ==
  ASSUME IInv, Closes, StateInv', RestOK' PROVE Keeps
  BY ClosesIsClose DEF IInv, Keeps

LEMMA MovesKeeps ==
  ASSUME IInv, Moves, StateInv', RestOK' PROVE Keeps
  BY MovesIsStutter DEF IInv, Keeps

\* An error may be noted before the connection ends.
LEMMA DisconnectCloses ==
  ASSUME IInv, NEW e \in BOOLEAN, conn.reports < 3, UNCHANGED <<wire, skip>>,
         conn' = Disconnect([conn EXCEPT !.error = e])
  PROVE  Closes
  <1> DEFINE d == [conn EXCEPT !.error = e]
  <1>1. /\ d \in Fields /\ d.queue = conn.queue /\ d.last = conn.last
        /\ d.tail = conn.tail /\ d.reports = conn.reports
        BY DEF IInv, Sound, Fields
  <1> HIDE DEF d
  <1>2. Sound(d) /\ Front(d) = Front(conn)  BY <1>1, FlagsKeepSound DEF IInv
  <1>3. Ends(d, Disconnect(d))  BY <1>1, <1>2, DisconnectEnds
  <1>4. conn' = Disconnect(d)  BY DEF d
  <1> QED  BY <1>1, <1>2, <1>3, <1>4 DEF Closes, Ends

LEMMA ReportsAreNumbers == ASSUME IInv PROVE conn.reports \in 0..3
  BY DEF IInv, Sound, Fields

\* The steps that leave the record alone.
LEMMA QuietKeeps ==
  ASSUME IInv, \/ Start \/ Test \/ Mark \/ WriteDone \/ WalkDone \/ Select \/ ReadSome
               \/ FeedDone \/ Stop \/ Peer \/ ConnectTimeout \/ UNCHANGED vars
  PROVE  Keeps
  <1>1. Adds
    <2>1. UNCHANGED <<conn, wire, skip>>
          BY DEF Start, Test, Mark, WriteDone, WalkDone, Select, ReadSome, FeedDone, Stop,
            Peer, ConnectTimeout, vars
    <2> QED  BY <2>1, SoundQueues DEF IInv, Queues, Adds
  <1>2. StateInv' /\ RestOK'
    <2> USE DEF IInv, StateInv, RestOK
    <2>1. CASE Start  BY <2>1 DEF Start
    <2>2. CASE Test  BY <2>2 DEF Test
    <2>3. CASE Mark \/ WriteDone \/ Select  BY <2>3 DEF Mark, WriteDone, Select
    <2>4. CASE WalkDone  BY <2>4 DEF WalkDone
    <2>5. CASE ReadSome  BY <2>5, ReportsAreNumbers DEF ReadSome
    <2>6. CASE FeedDone \/ Stop  BY <2>6 DEF FeedDone, Stop
    <2>7. CASE Peer \/ ConnectTimeout  BY <2>7 DEF Peer, ConnectTimeout
    <2>8. CASE UNCHANGED vars  BY <2>8 DEF vars
    <2> QED  BY <2>1, <2>2, <2>3, <2>4, <2>5, <2>6, <2>7, <2>8
  <1> QED  BY <1>1, <1>2, AddsKeeps

\* xmpp_connect_client.
LEMMA ConnectKeeps == ASSUME IInv, Connect PROVE Keeps
  <1>1. CASE net' = "none"
    <2>1. Adds  BY <1>1, SoundQueues DEF Connect, IInv, Queues, Adds
    <2>2. StateInv' /\ RestOK'  BY <1>1 DEF Connect, SockConnect, IInv, StateInv, RestOK
    <2> QED  BY <2>1, <2>2, AddsKeeps
  <1>2. CASE net' # "none"
    <2>1. conn' = [conn EXCEPT !.state = "connecting", !.sock = "open"]
          BY <1>2 DEF Connect
    <2>2. conn \in Fields  BY DEF IInv, Sound
    <2>3. /\ conn' \in Fields /\ conn'.queue = conn.queue /\ conn'.last = conn.last
          /\ conn'.tail = conn.tail /\ conn'.reports = conn.reports
          /\ conn'.state = "connecting" /\ conn'.sock = "open"
          BY <2>1, <2>2 DEF Fields
    <2>4. Sound(conn') /\ Front(conn') = Front(conn)  BY <2>3, FlagsKeepSound DEF IInv
    <2>5. Moves  BY <2>3, <2>4 DEF Moves, Connect, IInv, StateInv
    <2>6. StateInv'  BY <1>2, <2>3 DEF Connect, IInv, StateInv
    <2>7. RestOK'  BY <1>2 DEF Connect, SockConnect, IInv, RestOK
    <2> QED  BY <2>5, <2>6, <2>7, MovesKeeps
  <1> QED  BY <1>1, <1>2

\* Writing the queue.
LEMMA WriteKeeps == ASSUME IInv, WriteSome \/ WriteFails PROVE Keeps
  <1>1. conn.state = "connected" /\ conn.reports = 0 /\ conn.sock = "open" /\ at = "write"
        /\ conn.queue # <<>>
        BY DEF WriteSome, WriteFails, Progress, Writing, IInv, StateInv
  <1>2. CASE WriteFails
    <2>1. Closes
      <3>1. /\ conn' = Disconnect([conn EXCEPT !.error = TRUE])
            /\ UNCHANGED <<wire, skip>> /\ conn.reports < 3
            BY <1>1, <1>2 DEF WriteFails
      <3> QED  BY <3>1, DisconnectCloses
    <2>2. StateInv' /\ RestOK'
          BY <1>1, <1>2, <2>1 DEF WriteFails, Closes, Ends, IInv, StateInv, RestOK
    <2> QED  BY <2>1, <2>2, ClosesKeeps
  <1>3. ASSUME NEW n \in 1..Size, Progress(n) PROVE Keeps
    <2> DEFINE w == conn.queue[1].written
    <2>1. /\ w \in 0..Size-1 /\ Head(conn.queue) = conn.queue[1]
          /\ Front(conn) = (conn.queue[1].item - 1) * Size + w
      <3>1. conn.queue \in Seq(QueueItem)  BY DEF IInv, Sound, Fields, QueueItem
      <3>2. conn.queue[1] \in QueueItem  BY <1>1, <3>1
      <3> QED  BY <1>1, <3>1, <3>2 DEF QueueItem, Front
    <2>2. n <= Size - w /\ wire' = wire \o Bytes(Front(conn), n) /\ UNCHANGED skip
          BY <1>3, <2>1 DEF Progress, Bytes
    <2>3. /\ Sound(conn') /\ Front(conn') = Front(conn) + n /\ conn'.last = conn.last
          /\ conn'.state = conn.state /\ conn'.sock = conn.sock
          /\ conn'.reports = conn.reports
      <3>1. CASE n = Size - w
        <4>1. conn' = Unlinked(conn)  BY <1>3, <2>1, <3>1 DEF Progress, Unlinked
        <4>2. Sound(conn)  BY DEF IInv
        <4>3. /\ Sound(conn') /\ Front(conn') = Front(conn) + (Size - conn.queue[1].written)
              /\ conn'.last = conn.last /\ conn'.state = conn.state
              /\ conn'.sock = conn.sock /\ conn'.reports = conn.reports
              BY <1>1, <4>1, <4>2, UnlinkAdvances
        <4> QED  BY <3>1, <4>3
      <3>2. CASE n # Size - w
        <4>1. conn' = [conn EXCEPT !.queue[1].written = @ + n]
              BY <1>3, <2>1, <3>2 DEF Progress
        <4>2. n + w < Size /\ n \in Nat
          <5> HIDE DEF w
          <5> QED  BY <2>1, <2>2, <3>2, SizesAreNumbers
        <4> QED  BY <1>1, <4>1, <4>2, PartAdvances DEF IInv
      <3> QED  BY <3>1, <3>2
    <2>4. Writes(n)  BY <1>1, <2>2, <2>3 DEF Writes
    <2>5. StateInv' /\ RestOK'
          BY <1>1, <1>3, <2>3 DEF Progress, IInv, StateInv, RestOK
    <2> QED  BY <2>4, <2>5, WritesIsTake DEF IInv, Keeps
  <1> QED  BY <1>2, <1>3 DEF WriteSome

\* The steps that only add: timed handlers, the timer, the reset of the parser, threads
\* that send.
LEMMA AddingKeeps ==
  ASSUME IInv, TimerFires \/ ParserReset \/ CleanupDue \/ Send PROVE Keeps
  <1>1. Queues(conn, conn') /\ UNCHANGED <<wire, skip>>
    <2>1. CASE TimerFires  BY <2>1, HandledQueues DEF TimerFires, IInv
    <2>2. CASE Send  BY <2>2, SendRawQueues DEF Send, IInv
    <2>3. CASE ParserReset
      <3>1. /\ conn' \in Fields /\ conn'.queue = conn.queue /\ conn'.last = conn.last
            /\ conn'.tail = conn.tail /\ conn'.reports = conn.reports
            /\ conn'.state = conn.state /\ conn'.sock = conn.sock
            BY <2>3 DEF ParserReset, IInv, Sound, Fields
      <3>2. Sound(conn') /\ Front(conn') = Front(conn)  BY <3>1, FlagsKeepSound DEF IInv
      <3>3. conn'.last >= conn.last
            BY <3>1, SizesAreNumbers DEF IInv, Sound, Fields
      <3> QED  BY <2>3, <3>1, <3>2, <3>3 DEF ParserReset, Queues, Longer
    <2>4. CASE CleanupDue
      <3>1. /\ conn' \in Fields /\ conn'.queue = conn.queue /\ conn'.last = conn.last
            /\ conn'.tail = conn.tail /\ conn'.reports = conn.reports
            /\ conn'.state = conn.state /\ conn'.sock = conn.sock
            BY <2>4 DEF CleanupDue, IInv, Sound, Fields
      <3>2. Sound(conn') /\ Front(conn') = Front(conn)  BY <3>1, FlagsKeepSound DEF IInv
      <3>3. conn'.last >= conn.last
            BY <3>1, SizesAreNumbers DEF IInv, Sound, Fields
      <3> QED  BY <2>4, <3>1, <3>2, <3>3 DEF CleanupDue, Queues, Longer
    <2> QED  BY <2>1, <2>2, <2>3, <2>4
  <1>2. StateInv' /\ RestOK'
    <2>1. /\ conn'.state = conn.state /\ conn'.sock = conn.sock
          /\ conn'.reports = conn.reports
          BY <1>1 DEF Queues, Longer
    <2>2. CASE TimerFires \/ Send
          BY <2>1, <2>2 DEF TimerFires, Send, IInv, StateInv, RestOK
    <2>3. CASE ParserReset  BY <2>1, <2>3 DEF ParserReset, IInv, StateInv, RestOK
    <2>4. CASE CleanupDue  BY <2>1, <2>4 DEF CleanupDue, IInv, StateInv, RestOK
    <2> QED  BY <2>2, <2>3, <2>4
  <1> QED  BY <1>1, <1>2, AddsKeeps DEF Adds, Queues

\* The ends of a connection that is up or coming up.
LEMMA CleanupKeeps == ASSUME IInv, CleanupFires PROVE Keeps
  <1>1. conn.reports = 0 /\ at \in {"timed", "again"}
        BY DEF CleanupFires, Walking, IInv, StateInv
  <1>2. Closes
    <2> DEFINE d == [conn EXCEPT !.timer = "off"]
    <2>1. /\ d \in Fields /\ d.queue = conn.queue /\ d.last = conn.last
          /\ d.tail = conn.tail /\ d.reports = conn.reports
          BY DEF IInv, Sound, Fields
    <2>2. conn' = Disconnect(d)  BY DEF CleanupFires
    <2> HIDE DEF d
    <2>3. Sound(d) /\ Front(d) = Front(conn)  BY <2>1, FlagsKeepSound DEF IInv
    <2>4. Ends(d, Disconnect(d))  BY <1>1, <2>1, <2>3, DisconnectEnds
    <2> QED  BY <2>1, <2>2, <2>3, <2>4 DEF Closes, Ends, CleanupFires
  <1>3. StateInv' /\ RestOK'
        BY <1>1, <1>2 DEF CleanupFires, Closes, Ends, IInv, StateInv, RestOK
  <1> QED  BY <1>2, <1>3, ClosesKeeps

LEMMA WatchKeeps == ASSUME IInv, Watch PROVE Keeps
  <1>1. CASE conn.state = "connecting" /\ late
    <2>1. conn' = Disconnect([conn EXCEPT !.error = TRUE]) /\ UNCHANGED <<wire, skip>>
          /\ conn.reports < 3
          BY <1>1 DEF Watch, IInv, StateInv
    <2>2. Closes  BY <2>1, DisconnectCloses
    <2>3. StateInv' /\ RestOK'
          BY <2>1, <2>2 DEF Watch, Closes, Ends, IInv, StateInv, RestOK
    <2> QED  BY <2>2, <2>3, ClosesKeeps
  <1>2. CASE ~(conn.state = "connecting" /\ late)
    <2>1. Adds  BY <1>2, SoundQueues DEF Watch, IInv, Queues, Adds
    <2>2. StateInv' /\ RestOK'  BY <1>2 DEF Watch, IInv, StateInv, RestOK
    <2> QED  BY <2>1, <2>2, AddsKeeps
  <1> QED  BY <1>1, <1>2

\* The socket is writable or readable.
LEMMA EstablishedKeeps == ASSUME IInv, Established PROVE Keeps
  <1>1. conn.state = "connecting" /\ conn.reports = 0
        BY DEF Established, IInv, StateInv
  <1>2. CASE ConnectError
    <2>1. conn' = Disconnect(conn) /\ UNCHANGED <<wire, skip>> /\ at' = "again"
          BY <1>2 DEF Established
    <2>2. Closes  BY <1>1, <2>1, DisconnectEnds DEF Closes, IInv
    <2>3. StateInv' /\ RestOK'
          BY <1>1, <2>1, <2>2 DEF Established, Closes, Ends, IInv, StateInv, RestOK
    <2> QED  BY <2>2, <2>3, ClosesKeeps
  <1>3. CASE ~ConnectError
    <2> DEFINE d == [conn EXCEPT !.state = "connected"]
    <2>1. /\ d \in Fields /\ d.queue = conn.queue /\ d.last = conn.last
          /\ d.tail = conn.tail /\ d.reports = conn.reports /\ d.sock = conn.sock
          /\ d.state = "connected"
          BY DEF IInv, Sound, Fields
    <2>2. conn' = SendRaw(d) /\ UNCHANGED <<wire, skip>> /\ at' = "again"
          BY <1>3 DEF Established, OpenStream, SendRawString
    <2> HIDE DEF d
    <2>3. Sound(d) /\ Front(d) = Front(conn)  BY <2>1, FlagsKeepSound DEF IInv
    <2>4. Queues(d, conn')  BY <2>2, <2>3, SendRawQueues
    <2>5. Adds  BY <2>1, <2>2, <2>3, <2>4 DEF Queues, Longer, Adds
    <2>6. StateInv' /\ RestOK'
          BY <1>1, <2>1, <2>2, <2>4 DEF Queues, Longer, Established, IInv, StateInv, RestOK
    <2> QED  BY <2>5, <2>6, AddsKeeps
  <1> QED  BY <1>2, <1>3

LEMMA ReadNothingKeeps == ASSUME IInv, ReadNothing PROVE Keeps
  <1>1. conn.state = "connected" /\ conn.reports = 0
        BY DEF ReadNothing, IInv, StateInv
  <1>2. CASE conn' = conn
    <2>1. Adds  BY <1>2, SoundQueues DEF ReadNothing, IInv, Queues, Adds
    <2>2. StateInv' /\ RestOK'  BY <1>2 DEF ReadNothing, IInv, StateInv, RestOK
    <2> QED  BY <2>1, <2>2, AddsKeeps
  <1>3. CASE conn' = Disconnect([conn EXCEPT !.error = TRUE])
    <2>1. UNCHANGED <<wire, skip>> /\ conn.reports < 3  BY <1>1 DEF ReadNothing
    <2>2. Closes  BY <1>3, <2>1, DisconnectCloses
    <2>3. StateInv' /\ RestOK'
          BY <1>1, <2>2 DEF ReadNothing, Closes, Ends, IInv, StateInv, RestOK
    <2> QED  BY <2>2, <2>3, ClosesKeeps
  <1> QED  BY <1>2, <1>3 DEF ReadNothing

\* What the server sends: the end of a connection is reported by its stream tag, if
\* wrong, its end or what does not parse.
LEMMA FeedKeeps ==
  ASSUME IInv, StreamStart \/ StreamStanza \/ StreamEnd \/ ParseError PROVE Keeps
  <1>1. at = "feed" /\ UNCHANGED <<wire, skip>> /\ conn.reports \in 0..2
        BY ReportsAreNumbers
        DEF StreamStart, StreamStanza, StreamEnd, ParseError, IInv, StateInv
  <1>2. ASSUME StreamStart PROVE Keeps
    <2>1. PICK wrong \in BOOLEAN :
            /\ conn' \in Handled(IF wrong THEN Disconnect(conn) ELSE conn)
            /\ excess' = (excess \/ wrong)
          BY <1>2 DEF StreamStart
    <2>2. xml = "new" /\ xml' = "open" /\ UNCHANGED <<loop, at, net, late>>
          /\ conn.state = "connected" /\ conn.reports = 0
          BY <1>1, <1>2 DEF StreamStart, IInv, StateInv
    <2>3. CASE wrong
      <3>1. conn.reports < 3  BY <2>2
      <3>2. Ends(conn, Disconnect(conn))  BY <3>1, DisconnectEnds DEF IInv
      <3>3. conn' = Disconnect(conn)  BY <2>1, <2>3, <3>2, HandledWhenClosed DEF Ends
      <3>4. Closes  BY <1>1, <3>2, <3>3 DEF Closes
      <3>5. StateInv'
        <4>1. excess'  BY <2>1, <2>3
        <4>2. conn'.reports = 1 /\ conn'.state = "disconnected"
              BY <2>2, <3>4 DEF Closes, Ends
        <4> QED  BY <1>1, <2>2, <4>1, <4>2 DEF StateInv, StreamStart
      <3>6. RestOK'  BY <1>1, <2>1, <2>2 DEF IInv, RestOK
      <3> QED  BY <3>4, <3>5, <3>6, ClosesKeeps
    <2>4. CASE ~wrong
      <3>1. Queues(conn, conn')  BY <2>1, <2>4, HandledQueues DEF IInv
      <3>2. StateInv'
            BY <1>1, <2>1, <2>2, <2>4, <3>1 DEF Queues, Longer, IInv, StateInv
      <3>3. RestOK'  BY <1>1, <2>1, <2>2 DEF IInv, RestOK
      <3> QED  BY <1>1, <3>1, <3>2, <3>3, AddsKeeps DEF Queues, Adds
    <2> QED  BY <2>3, <2>4
  <1>3. ASSUME StreamStanza PROVE Keeps
    <2>1. Queues(conn, conn')  BY <1>3, HandledQueues DEF StreamStanza, IInv
    <2>2. StateInv' /\ RestOK'
          BY <1>3, <2>1 DEF Queues, Longer, StreamStanza, IInv, StateInv, RestOK
    <2> QED  BY <1>1, <2>1, <2>2, AddsKeeps DEF Queues, Adds
  <1>4. ASSUME StreamEnd PROVE Keeps
    <2> DEFINE d == [conn EXCEPT !.timer = "off"]
    <2>1. conn.reports <= 1 /\ (excess \/ conn.reports = 0)
          BY <1>1, <1>4 DEF StreamEnd, IInv, StateInv
    <2>2. /\ d \in Fields /\ d.queue = conn.queue /\ d.last = conn.last
          /\ d.tail = conn.tail /\ d.reports = conn.reports
          BY DEF IInv, Sound, Fields
    <2>3. conn' = Disconnect(d)  BY <1>4 DEF StreamEnd, DisconnectClean
    <2> HIDE DEF d
    <2>4. Sound(d) /\ Front(d) = Front(conn)  BY <2>2, FlagsKeepSound DEF IInv
    <2>5. d.reports < 3  BY <1>1, <2>1, <2>2
    <2>6. Ends(d, Disconnect(d))  BY <2>4, <2>5, DisconnectEnds
    <2>7. Closes  BY <1>1, <2>2, <2>3, <2>4, <2>6 DEF Closes, Ends
    <2>8. StateInv'
          BY <1>1, <1>4, <2>1, <2>7 DEF StreamEnd, Closes, Ends, IInv, StateInv
    <2>9. RestOK'  BY <1>4 DEF StreamEnd, IInv, RestOK
    <2> QED  BY <2>7, <2>8, <2>9, ClosesKeeps
  <1>5. ASSUME ParseError PROVE Keeps
    <2>1. conn' = Disconnect(conn) /\ at' = "again"  BY <1>5 DEF ParseError
    <2>2. Ends(conn, conn')  BY <1>1, <2>1, DisconnectEnds DEF IInv
    <2>3. Closes  BY <1>1, <2>2 DEF Closes
    <2>4. StateInv'
      <3>1. excess' \/ conn.reports = 0
            BY <1>1, <1>5 DEF ParseError, IInv, StateInv, RestOK
      <3> QED  BY <1>1, <1>5, <2>1, <2>2, <3>1 DEF ParseError, Ends, IInv, StateInv
    <2>5. RestOK'  BY <1>5 DEF ParseError, IInv, RestOK
    <2> QED  BY <2>3, <2>4, <2>5, ClosesKeeps
  <1> QED  BY <1>2, <1>3, <1>4, <1>5

LEMMA StepKeeps == ASSUME IInv, [Next]_vars PROVE Keeps
  <1>1. CASE Next
    <2> USE QuietKeeps, ConnectKeeps, WriteKeeps, AddingKeeps, CleanupKeeps, WatchKeeps,
          EstablishedKeeps, ReadNothingKeeps, FeedKeeps
    <2>1. CASE xmpp_run_once
          BY <2>1 DEF xmpp_run_once, WritePhase, Walk, Feed
    <2>2. CASE ~xmpp_run_once  BY <1>1, <2>2 DEF Next
    <2> QED  BY <2>1, <2>2
  <1>2. CASE UNCHANGED vars  BY <1>2, QuietKeeps
  <1> QED  BY <1>1, <1>2

-------------------------------------------------------------------------------
(* Theorems *)

LEMMA InvariantHolds == Spec => []IInv
  <1>1. IInv /\ [Next]_vars => IInv'  BY StepKeeps DEF Keeps
  <1> QED  BY InitIInv, <1>1, PTL DEF Spec

\* send_queue_tail is the last item and NULL when there is none, and only the item at
\* the head is partly written, whatever the socket takes and whoever queues (conn.c,
\* xmpp_send_raw; event.c, xmpp_run_once).
THEOREM QueueStaysSound == Spec => []QueueIsSound
  <1>1. IInv => QueueIsSound
    <2> SUFFICES ASSUME IInv PROVE QueueIsSound  OBVIOUS
    <2>1. conn \in Fields /\ conn.queue \in Seq(QueueItem) /\ conn.last \in 0..MaxItems
          BY DEF IInv, Sound, Fields, QueueItem
    <2>2. wire \in Seq(1..MaxItems * Size)
      <3>1. /\ skip \in Nat /\ skip + Len(wire) <= MaxItems * Size
            /\ Len(wire) \in Nat /\ MaxItems * Size \in Nat
        <4>1. /\ Front(conn) <= conn.last * Size /\ conn.last * Size <= MaxItems * Size
              /\ conn.last * Size \in Nat /\ Front(conn) \in Nat
              BY FrontIsBounded DEF IInv
        <4>2. skip + Len(wire) = Front(conn) /\ skip \in Nat /\ Len(wire) \in Nat
              BY WireIsBytes
        <4>3. MaxItems * Size \in Nat  BY SizesAreNumbers
        <4> QED  BY <4>1, <4>2, <4>3
      <3>2. \A k \in 1..Len(wire) : wire[k] \in 1..MaxItems * Size
            BY <3>1 DEF IInv, WireInv
      <3>3. wire = [k \in 1..Len(wire) |-> wire[k]]  BY DEF IInv, WireInv
      <3> QED  BY <3>1, <3>2, <3>3
    <2>3. TypeOK  BY <2>1, <2>2 DEF TypeOK, IInv, RestOK
    <2>4. TailIsLast
      <3>1. ASSUME conn.queue # <<>> PROVE conn.queue[Len(conn.queue)].item = conn.last
        <4>1. Len(conn.queue) \in Nat \ {0}  BY <2>1, <3>1
        <4>2. conn.queue[Len(conn.queue)].item = conn.last - Len(conn.queue) + Len(conn.queue)
              BY <4>1 DEF IInv, Sound, QueueInv
        <4> QED  BY <2>1, <4>1, <4>2
      <3> QED  BY <3>1 DEF IInv, Sound, QueueInv, TailIsLast
    <2> QED  BY <2>3, <2>4 DEF QueueIsSound
  <1> QED  BY <1>1, InvariantHolds, PTL

\* XMPP_CONN_DISCONNECT is reported once, unless the server goes on after the end of its
\* stream or does not open one (conn.c, conn_disconnect and its six callers).
THEOREM EndIsReportedOnce == Spec => []ReportedOnce
  <1>1. IInv => ReportedOnce  BY DEF IInv, StateInv, ReportedOnce
  <1> QED  BY <1>1, InvariantHolds, PTL

\* The send queue implements the stream of bytes: partial writes, TLS and the handing
\* over from an old connection lose, repeat and reorder nothing, and nothing is written
\* to a closed socket.
THEOREM QueueIsStream == Spec => ImplementsStream
  <1>1. Init => Stream!Init
    <2> SUFFICES ASSUME Init PROVE Stream!Init  OBVIOUS
    <2>1. wire = <<>> /\ conn.sock = "none"  BY DEF Init
    <2> QED  BY <2>1 DEF Stream!Init
  <1>2. IInv /\ [Next]_vars => StreamStep  BY StepKeeps DEF Keeps
  <1>3. StreamStep <=> [Stream!Next]_<<[k \in 1..(conn.last * Size - skip) |-> skip + k],
                                      wire, conn.sock = "closed">>
        BY DEF StreamStep, Input, Bytes
  <1> QED  BY <1>1, <1>2, <1>3, InvariantHolds, PTL DEF Spec, ImplementsStream, Stream!Spec
=================================================================================
