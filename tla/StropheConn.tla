------------------------------- MODULE StropheConn -------------------------------
(***************************************************************************)
(* One xmpp_conn_t in the event loop of libstrophe: xmpp_run_once with its *)
(* phases (write the send queue, reset the parser, fire timed handlers,    *)
(* watch, select, process events, fire timed handlers again), the send     *)
(* queue with its head and tail pointers and partial writes, connecting    *)
(* and disconnecting with their timeouts, and the threads that queue       *)
(* stanzas between two rounds or stop the loop at any time.                *)
(*                                                                         *)
(* The connection is a fresh one or the one that mio_reconnect sets up, to *)
(* which it hands the send queue and the timed handlers of the old one.    *)
(* Items of the queue are numbered as they are queued and all have Size    *)
(* bytes, byte b of item i being the number (i - 1) * Size + b.            *)
(***************************************************************************)
EXTENDS Integers, Sequences

CONSTANTS
  Size,      \* bytes of an item of the send queue
  MaxItems,  \* bound: items queued over the lifetime of the connection
  None       \* the NULL pointer

ASSUME SizeAssumption == Size \in Nat \ {0}
ASSUME ItemsAssumption == MaxItems \in Nat \ {0, 1}
ASSUME NoneAssumption == None \notin Nat

VARIABLES
  conn,   \* the fields of the xmpp_conn_t, see Fields
  loop,   \* ctx->loop_status
  at,     \* where the event loop thread stands
  net,    \* the TCP connection: nothing yet, pending, refused or up
  xml,    \* the XML parser: before the stream tag, inside, after the end
  wire,   \* the bytes written to the socket
  skip,   \* bytes of the first item that went out on the old connection
  late,   \* connect_timeout has passed since timeout_stamp
  excess  \* the server sent more after the end of its stream, or a wrong stream tag

vars == <<conn, loop, at, net, xml, wire, skip, late, excess>>

Items == 1..MaxItems

\* `last` is the item queued last and `reports` counts the XMPP_CONN_DISCONNECT
\* events; both are auxiliary.
Fields == [state: {"disconnected", "connecting", "connected"},
           sock: {"none", "open", "closed"}, tls: BOOLEAN, error: BOOLEAN,
           queue: Seq([item: Items, written: 0..Size-1]), tail: Items \cup {None},
           timer: {"off", "set", "due"}, reset: BOOLEAN,
           last: 0..MaxItems, reports: 0..3]

TypeOK ==
  /\ conn \in Fields
  /\ loop \in {"notstarted", "running", "quit"}
  /\ at \in {"start", "spawned", "test", "enter", "mark", "write", "timed", "watch",
             "select", "events", "feed", "again", "exit"}
  /\ net \in {"none", "pending", "refused", "up"}
  /\ xml \in {"new", "open", "ended"}
  /\ wire \in Seq(1..MaxItems * Size)
  /\ skip \in 0..Size-1
  /\ late \in BOOLEAN
  /\ excess \in BOOLEAN

-------------------------------------------------------------------------------
(* Operations on the connection *)

\* Fault: the tail pointer is not moved; see TailIsLast.
SendRawKeepsTail(c) ==
  IF c.state # "connected" \/ c.last = MaxItems THEN c
  ELSE [c EXCEPT !.last = @ + 1, !.queue = Append(@, [item |-> c.last + 1, written |-> 0])]

\* xmpp_send_raw: without effect unless connected.  The first item sets head and
\* tail; another is linked behind the item the tail points to, which is lost if
\* that is no longer in the queue.
SendRaw(c) ==
  IF c.state # "connected" \/ c.last = MaxItems THEN c
  ELSE LET item == [item |-> c.last + 1, written |-> 0]
           linked == /\ c.queue # <<>>
                     /\ c.queue[Len(c.queue)].item = c.tail
       IN [c EXCEPT !.last = @ + 1, !.tail = c.last + 1,
                    !.queue = IF c.tail = None THEN <<item>>
                              ELSE IF linked THEN Append(@, item) ELSE @]

\* xmpp_send_raw_string, which formats into a buffer that is large enough, and conn_open_stream.
SendRawString(c) == SendRaw(c)
OpenStream(c) == SendRawString(c)

\* conn_disconnect: unconditional, so that a second call closes the descriptor and
\* reports the end once more.
Disconnect(c) ==
  [c EXCEPT !.state = "disconnected", !.tls = FALSE, !.sock = "closed", !.reports = @ + 1]

\* conn_disconnect_clean also removes the timer of xmpp_disconnect.
DisconnectClean(c) == Disconnect([c EXCEPT !.timer = "off"])

\* xmpp_disconnect: the closing tag, which is queued only when connected, and the timer
\* of _disconnect_cleanup, which handler_add_timed adds once.
AskToClose(c) ==
  IF c.state = "disconnected" THEN c
  ELSE [SendRawString(c) EXCEPT !.timer = IF @ = "off" THEN "set" ELSE @]

\* _handle_proceedtls_default: a handshake that succeeds secures the connection and
\* opens a new stream, one that fails disconnects.
StartTls(c) == {OpenStream([c EXCEPT !.tls = TRUE, !.reset = TRUE]), AskToClose(c)}

\* What handlers of stanzas do to the connection.
Handled(c) ==
  {c, SendRaw(c), AskToClose(c)}
    \cup IF c.state = "connected" /\ ~c.tls THEN StartTls(c) ELSE {}

\* What timed handlers other than _disconnect_cleanup do to it.
Timed(c) == {SendRaw(c), AskToClose(c)}

-------------------------------------------------------------------------------
(* The connection is set up: xmpp_conn_new, with what mio_reconnect hands over *)

HandedOver ==
  {<<>>} \cup {<<[item |-> 1, written |-> w]>> : w \in 0..Size-1}
         \cup {<<[item |-> 1, written |-> Size - 1], [item |-> 2, written |-> 0]>>}

Init ==
  /\ \E q \in HandedOver, t \in {"off", "set"} :
       /\ conn = [state |-> "disconnected", sock |-> "none", tls |-> FALSE, error |-> FALSE,
                  queue |-> q, tail |-> IF q = <<>> THEN None ELSE Len(q), timer |-> t,
                  reset |-> TRUE, last |-> Len(q), reports |-> 0]
       /\ skip = IF q = <<>> THEN 0 ELSE q[1].written
  /\ loop = "notstarted" /\ at = "start"
  /\ net = "none" /\ xml = "new" /\ wire = <<>>
  /\ late = FALSE /\ excess = FALSE

\* sock_connect tries the addresses of the host in turn, up to the first that accepts or
\* begins to connect.  When all refuse at once the last socket is returned all the same;
\* without an address or a socket the result is -1.
SockConnect == {"pending", "refused", "none"}

\* xmpp_connect_client.
Connect ==
  /\ at = "start"
  /\ net' \in SockConnect
  /\ IF net' = "none" THEN UNCHANGED <<conn, at>>
     ELSE /\ conn' = [conn EXCEPT !.state = "connecting", !.sock = "open"]
          /\ at' = "spawned"
  /\ UNCHANGED <<loop, xml, wire, skip, late, excess>>

-------------------------------------------------------------------------------
(* The event loop thread *)

\* _mio_run begins.
Start ==
  /\ at = "spawned" /\ at' = "test"
  /\ loop' = "running"
  /\ UNCHANGED <<conn, net, xml, wire, skip, late, excess>>

\* The loop of _mio_run, and the test at the head of xmpp_run_once.
Test ==
  /\ \/ at = "test" /\ at' = IF loop = "running" THEN "enter" ELSE "exit"
     \/ at = "enter" /\ at' = IF loop = "quit" THEN "test" ELSE "mark"
  /\ UNCHANGED <<conn, loop, net, xml, wire, skip, late, excess>>

\* ctx->loop_status is set to running again, whatever happened since the test.
Mark ==
  /\ at = "mark" /\ at' = "write"
  /\ loop' = "running"
  /\ UNCHANGED <<conn, net, xml, wire, skip, late, excess>>

Writing == at = "write" /\ conn.state = "connected" /\ conn.queue # <<>>

\* Fault: <= for <, so that an item is kept when all of it is written; see TypeOK.
ProgressKeepsItem(n) ==
  /\ Writing
  /\ n <= Size - Head(conn.queue).written
  /\ wire' = wire \o [b \in 1..n |-> (Head(conn.queue).item - 1) * Size + Head(conn.queue).written + b]
  /\ conn' = [conn EXCEPT !.queue[1].written = @ + n]
  /\ at' = "timed"
  /\ UNCHANGED <<loop, net, xml, skip, late, excess>>

\* The first n bytes that are left of the item at the head go out; when that is all
\* of it the item is freed and the next one tried, otherwise the rest waits.
Progress(n) ==
  /\ Writing
  /\ LET head == Head(conn.queue)
         from == (head.item - 1) * Size + head.written
     IN  /\ n <= Size - head.written
         /\ wire' = wire \o [b \in 1..n |-> from + b]
         /\ IF n = Size - head.written
              THEN /\ conn' = [conn EXCEPT !.queue = Tail(@),
                                           !.tail = IF Len(conn.queue) = 1 THEN None ELSE @]
                   /\ UNCHANGED at
              ELSE /\ conn' = [conn EXCEPT !.queue[1].written = @ + n]
                   /\ at' = "timed"
  /\ UNCHANGED <<loop, net, xml, skip, late, excess>>

\* Fault: what was written of an item is forgotten; see ImplementsStream.
WriteForgets ==
  \/ \E n \in 1..Size : n = Size /\ Progress(n)
  \/ \E n \in 1..Size-1 :
       /\ Writing
       /\ wire' = wire \o [b \in 1..n |-> (Head(conn.queue).item - 1) * Size + b]
       /\ at' = "timed"
       /\ UNCHANGED <<conn, loop, net, xml, skip, late, excess>>

WriteSome == \E n \in 1..Size : Progress(n)

\* Fault: the error of the socket does not end the connection; see QueueDrains.
WriteFailsSilently ==
  /\ Writing /\ at' = "timed"
  /\ conn' = [conn EXCEPT !.error = TRUE, !.state = "disconnected"]
  /\ UNCHANGED <<loop, net, xml, wire, skip, late, excess>>

\* An error of the socket that is not recoverable: the connection is torn down.  The
\* send queue stays as it is.
WriteFails ==
  /\ Writing /\ at' = "timed"
  /\ conn' = Disconnect([conn EXCEPT !.error = TRUE])
  /\ UNCHANGED <<loop, net, xml, wire, skip, late, excess>>

\* Nothing to write, or the socket would block.
WriteDone ==
  /\ at = "write" /\ at' = "timed"
  /\ UNCHANGED <<conn, loop, net, xml, wire, skip, late, excess>>

\* conn_parser_reset, before the timed handlers of this round.
ParserReset ==
  /\ at = "timed" /\ conn.reset
  /\ conn' = [conn EXCEPT !.reset = FALSE]
  /\ xml' = "new"
  /\ UNCHANGED <<loop, at, net, wire, skip, late, excess>>

\* Fault: the state of the connection is not looked at; see ReportedOnce.
WalkingAnyway == at \in {"timed", "again"} /\ (at = "timed" => ~conn.reset)

Walking ==
  /\ conn.state = "connected"
  /\ at \in {"timed", "again"} /\ (at = "timed" => ~conn.reset)

\* handler_fire_timed: a handler of the user or of the negotiation.
TimerFires ==
  /\ Walking
  /\ conn' \in Timed(conn) \ {conn}
  /\ UNCHANGED <<loop, at, net, xml, wire, skip, late, excess>>

\* Fault: the timer is deleted without being called; see DisconnectHonoured.
CleanupDeleted ==
  /\ Walking /\ conn.timer = "due"
  /\ conn' = [conn EXCEPT !.timer = "off"]
  /\ UNCHANGED <<loop, at, net, xml, wire, skip, late, excess>>

\* handler_fire_timed: _disconnect_cleanup, which is deleted after it.
CleanupFires ==
  /\ Walking /\ conn.timer = "due"
  /\ conn' = Disconnect([conn EXCEPT !.timer = "off"])
  /\ UNCHANGED <<loop, at, net, xml, wire, skip, late, excess>>

\* The walk is over: all handlers that were due have been called.
WalkDone ==
  /\ conn.state = "connected" => conn.timer # "due"
  /\ \/ at = "timed" /\ ~conn.reset /\ at' = "watch"
     \/ at = "again" /\ at' = "test"
  /\ UNCHANGED <<conn, loop, net, xml, wire, skip, late, excess>>

\* Fault: the connect timeout is not looked at; see ConnectingEnds.
WatchForever ==
  /\ at = "watch" /\ at' = "select"
  /\ UNCHANGED <<conn, loop, net, xml, wire, skip, late, excess>>

\* The events to wait for; a connection attempt that takes too long is given up.
Watch ==
  /\ at = "watch" /\ at' = "select"
  /\ conn' = IF conn.state = "connecting" /\ late
               THEN Disconnect([conn EXCEPT !.error = TRUE]) ELSE conn
  /\ UNCHANGED <<loop, net, xml, wire, skip, late, excess>>

\* select: an error or no event ends the round, without the second walk.
Select ==
  /\ at = "select"
  /\ \/ at' = "test"
     \/ conn.state = "connecting" /\ net \in {"up", "refused"} /\ at' = "events"
     \/ conn.state = "connected" /\ at' = "events"
  /\ UNCHANGED <<conn, loop, net, xml, wire, skip, late, excess>>

\* sock_connect_error: whether the socket has a peer.
ConnectError == net # "up"

\* The socket is writable: connection complete, or failed (no error is recorded).
\* conn_open_stream queues the stream tag.
Established ==
  /\ at = "events" /\ conn.state = "connecting" /\ at' = "again"
  /\ conn' = IF ConnectError THEN Disconnect(conn)
             ELSE OpenStream([conn EXCEPT !.state = "connected"])
  /\ UNCHANGED <<loop, net, xml, wire, skip, late, excess>>

\* Nothing is read: the end of the connection, or with TLS a part of a record.
ReadNothing ==
  /\ at = "events" /\ conn.state = "connected" /\ at' = "again"
  /\ conn' \in {Disconnect([conn EXCEPT !.error = TRUE])} \cup (IF conn.tls THEN {conn} ELSE {})
  /\ UNCHANGED <<loop, net, xml, wire, skip, late, excess>>

ReadSome ==
  /\ at = "events" /\ conn.state = "connected" /\ at' = "feed"
  /\ UNCHANGED <<conn, loop, net, xml, wire, skip, late, excess>>

\* _handle_stream_start.  A wrong tag disconnects, and the open handler is called in
\* both cases.
StreamStart ==
  /\ at = "feed" /\ xml = "new" /\ xml' = "open"
  /\ \E wrong \in BOOLEAN :
       /\ conn' \in Handled(IF wrong THEN Disconnect(conn) ELSE conn)
       /\ excess' = (excess \/ wrong)
  /\ UNCHANGED <<loop, at, net, wire, skip, late>>

\* _handle_stream_stanza, and what the handlers it fires do.
StreamStanza ==
  /\ at = "feed" /\ xml = "open"
  /\ conn' \in Handled(conn)
  /\ UNCHANGED <<loop, at, net, xml, wire, skip, late, excess>>

\* _handle_stream_end.
StreamEnd ==
  /\ at = "feed" /\ xml = "open" /\ xml' = "ended"
  /\ conn' = DisconnectClean(conn)
  /\ UNCHANGED <<loop, at, net, wire, skip, late, excess>>

\* parser_feed fails: not well-formed, or something after the end of the stream.
ParseError ==
  /\ at = "feed" /\ at' = "again"
  /\ conn' = Disconnect(conn)
  /\ excess' = (excess \/ xml = "ended")
  /\ UNCHANGED <<loop, net, xml, wire, skip, late>>

FeedDone ==
  /\ at = "feed" /\ at' = "again"
  /\ UNCHANGED <<conn, loop, net, xml, wire, skip, late, excess>>

-------------------------------------------------------------------------------
(* Around the loop *)

\* A thread queues a stanza under event_loop_mutex: xmpp_send.
Send ==
  /\ at = "test"
  /\ conn' = SendRaw(conn) /\ conn' # conn
  /\ UNCHANGED <<loop, at, net, xml, wire, skip, late, excess>>

\* xmpp_stop, as mio_disconnect calls it: at any time and without the mutex.
Stop ==
  /\ loop = "running" /\ loop' = "quit"
  /\ UNCHANGED <<conn, at, net, xml, wire, skip, late, excess>>

\* The peer accepts the TCP connection or refuses it.
Peer ==
  /\ net = "pending" /\ net' \in {"up", "refused"}
  /\ UNCHANGED <<conn, loop, at, xml, wire, skip, late, excess>>

\* CONNECT_TIMEOUT passes.
ConnectTimeout ==
  /\ conn.state = "connecting" /\ ~late /\ late' = TRUE
  /\ UNCHANGED <<conn, loop, at, net, xml, wire, skip, excess>>

\* DISCONNECT_TIMEOUT passes, between two walks.
CleanupDue ==
  /\ conn.timer = "set" /\ at \notin {"timed", "again"}
  /\ conn' = [conn EXCEPT !.timer = "due"]
  /\ UNCHANGED <<loop, at, net, xml, wire, skip, late, excess>>

-------------------------------------------------------------------------------
WritePhase == WriteSome \/ WriteFails \/ WriteDone
Walk == TimerFires \/ CleanupFires \/ WalkDone
Feed == StreamStart \/ StreamStanza \/ StreamEnd \/ ParseError \/ FeedDone

xmpp_run_once ==
  \/ Mark \/ WritePhase \/ ParserReset \/ Walk \/ Watch \/ Select
  \/ Established \/ ReadNothing \/ ReadSome \/ Feed

Next ==
  \/ Connect \/ Start \/ Test \/ xmpp_run_once
  \/ Send \/ Stop \/ Peer \/ ConnectTimeout \/ CleanupDue

Spec == Init /\ [][Next]_vars

\* The thread keeps running and a walk, a read and a write phase come to their ends; time
\* passes; a socket that is tried again and again takes a byte or fails.
Fairness ==
  /\ WF_vars(Start) /\ WF_vars(Test) /\ WF_vars(xmpp_run_once)
  /\ SF_vars(WriteSome) /\ SF_vars(WalkDone) /\ SF_vars(FeedDone)
  /\ WF_vars(ConnectTimeout) /\ SF_vars(CleanupDue)

FairSpec == Spec /\ Fairness

-------------------------------------------------------------------------------
(* Properties *)

\* send_queue_tail points to the last item and is NULL exactly when the queue is empty;
\* only the item at the head is partly written.  The queue is taken from by the loop and
\* added to by everyone else.
TailIsLast ==
  /\ conn.tail = IF conn.queue = <<>> THEN None ELSE conn.queue[Len(conn.queue)].item
  /\ \A i \in 2..Len(conn.queue) : conn.queue[i].written = 0

\* The bytes of the queued items leave once each and in order, across partial writes,
\* the start of TLS and the handing over from an old connection; nothing is written to a
\* socket that has been closed.
Stream == INSTANCE ByteStream WITH
  input <- [k \in 1..(conn.last * Size - skip) |-> skip + k],
  output <- wire,
  closed <- conn.sock = "closed"
ImplementsStream == Stream!Spec

\* The end of a connection is reported once, although six places call conn_disconnect and
\* none asks whether it has been called; unless the server goes on after the end of its
\* stream or did not open one.
ReportedOnce == excess \/ conn.reports <= 1

\* A connection attempt ends, in a connection or in a report, as long as the loop runs.
ConnectingEnds == conn.state = "connecting" ~> (conn.state # "connecting" \/ loop = "quit")

\* A request to disconnect is met: by the server or by the timer, which is also what
\* ends a connection that was handed the timer of the one before it.
DisconnectHonoured ==
  (at # "start" /\ conn.timer # "off") ~> (conn.reports > 0 \/ loop = "quit")

\* What has been queued goes out, or the connection ends and says so, or the loop stops.
QueueDrains ==
  (conn.queue # <<>> /\ conn.state = "connected")
    ~> (conn.queue = <<>> \/ conn.reports > 0 \/ loop = "quit")

\* "This will stop the event loop after the current iteration and cause xmpp_run to
\* exit": the thread ends after xmpp_stop.
StopEndsLoop == loop = "quit" ~> at = "exit"

\* The pointers and lists of the connection are sound.
QueueIsSound == TypeOK /\ TailIsLast

\* Whatever the socket and the server do, a connection attempt, a request to disconnect
\* and a queue each come to an end.
NothingHangs == ConnectingEnds /\ DisconnectHonoured /\ QueueDrains
===============================================================================
