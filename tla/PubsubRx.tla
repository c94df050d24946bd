-------------------------------- MODULE PubsubRx --------------------------------
(***************************************************************************)
(* Receiving publications: threads in mio_pubsub_data_receive, threads in  *)
(* mio_pubsub_data_listen_stop and mio_pubsub_data_rx_queue_clear, and the *)
(* event loop thread in mio_handler_pubsub_data_receive.  They share the   *)
(* bounded queue pubsub_rx_queue with its separate length counter, and the *)
(* request "pubsub_data_rx", whose condition variable tells a receiver     *)
(* that a packet is there.                                                 *)
(*                                                                         *)
(* Each mio_pubsub_data_listen_start allocates a request of its own; they  *)
(* are numbered, and 0 stands for NULL.                                    *)
(***************************************************************************)
EXTENDS Integers, Sequences, FiniteSets

CONSTANTS
  Receivers,    \* threads that call mio_pubsub_data_receive again and again
  Stoppers,     \* threads that call mio_pubsub_data_listen_stop once
  Clearers,     \* threads that call mio_pubsub_data_rx_queue_clear once, those
                \* that are Stoppers too after they have stopped
  Packets,      \* the contents of publications
  MaxLen,       \* MIO_PUBSUB_RX_QUEUE_MAX_LEN
  MaxOpen,      \* MIO_MAX_OPEN_REQUESTS
  MaxRequests,  \* bound: calls of mio_pubsub_data_listen_start
  MaxDrops,     \* bound: how often the connection is lost
  Nothing       \* no packet

ASSUME LenAssumption == MaxLen \in Nat \ {0}
ASSUME OpenAssumption == MaxOpen \in Nat \ {0}
ASSUME BoundAssumption == MaxRequests \in Nat /\ MaxDrops \in Nat
ASSUME NothingAssumption == Nothing \notin Packets
ASSUME ThreadsAssumption ==
  /\ Receivers \cap (Stoppers \cup Clearers) = {}
  /\ IsFiniteSet(Receivers \cup Stoppers \cup Clearers)

VARIABLES
  queue,          \* conn->pubsub_rx_queue, oldest packet first
  len,            \* conn->pubsub_rx_queue_len
  got,            \* the packet dequeued last, by whichever thread
  pc,             \* where each thread stands
  ptr,            \* the request each thread has looked up or allocated
  lpc,            \* where the event loop thread stands
  lptr,           \* the request the event loop has looked up
  pkt,            \* the packet the event loop is handling
  registered,     \* the "pubsub_data_rx" entry of mio_request_table
  predicate,      \* request->predicate
  freed,          \* the requests that have been freed
  requests,       \* number of requests allocated so far
  sem,            \* mio_open_requests
  listening,      \* conn->pubsub_rx_listening
  handler,        \* mio_handler_generic is in conn->handlers
  authenticated,  \* xmpp_conn->authenticated
  drops,          \* number of connection losses so far
  crashed         \* a NULL pointer has been dereferenced

queueVars == <<queue, len, got>>
threadVars == <<pc, ptr>>
loopVars == <<lpc, lptr, pkt>>
reqVars == <<registered, predicate, freed, requests, sem>>
connVars == <<listening, handler, authenticated, drops>>
vars == <<queueVars, threadVars, loopVars, reqVars, connVars, crashed>>

Threads == Receivers \cup Stoppers \cup Clearers
Requests == 1..MaxRequests

ReceiverPC == {"idle", "fast", "lookup", "lstart", "lsem", "ladd", "linsert", "lhandler",
               "lflag", "lookup2", "outer", "inner", "sleep", "wait", "woken", "reset", "deq"}
StopperPC == {"stop", "flag", "signal", "delete", "post", "done"}

TypeOK ==
  /\ queue \in Seq(Packets)
  /\ len \in 0..MaxLen
  /\ got \in Packets \cup {Nothing}
  /\ pc \in [Threads -> ReceiverPC \cup StopperPC \cup {"clear"}]
  /\ ptr \in [Threads -> 0..MaxRequests]
  /\ lpc \in {"idle", "get", "len", "drop", "insert", "signal"}
  /\ lptr \in 0..MaxRequests
  /\ pkt \in Packets \cup {Nothing}
  /\ registered \in 0..MaxRequests
  /\ predicate \in [Requests -> BOOLEAN]
  /\ freed \in SUBSET Requests
  /\ requests \in 0..MaxRequests
  /\ sem \in 0..MaxOpen
  /\ listening \in BOOLEAN
  /\ handler \in BOOLEAN
  /\ authenticated \in BOOLEAN
  /\ drops \in 0..MaxDrops
  /\ crashed \in BOOLEAN

Init ==
  /\ queue = <<>> /\ len = 0 /\ got = Nothing
  /\ pc = [t \in Threads |-> IF t \in Receivers THEN "idle"
                             ELSE IF t \in Stoppers THEN "stop" ELSE "clear"]
  /\ ptr = [t \in Threads |-> 0]
  /\ lpc = "idle" /\ lptr = 0 /\ pkt = Nothing
  /\ registered = 0
  /\ predicate = [q \in Requests |-> FALSE]
  /\ freed = {}
  /\ requests = 0
  /\ sem = MaxOpen
  /\ listening = FALSE /\ handler = FALSE
  /\ authenticated = TRUE /\ drops = 0
  /\ crashed = FALSE

AfterStop(s) == IF s \in Clearers THEN "clear" ELSE "done"

Goto(t, from, to) == pc[t] = from /\ pc' = [pc EXCEPT ![t] = to]

\* Writes request->predicate; what a write to a freed request does is not seen.
SetPredicate(q, b) == predicate' = IF q \in freed THEN predicate ELSE [predicate EXCEPT ![q] = b]

\* mio_cond_signal on the condition variable of request q: at most one of the
\* threads that wait on it is woken.  `moved` is pc with the caller's own step.
Signal(q, moved) ==
  /\ SetPredicate(q, TRUE)
  /\ LET waiting == {r \in Receivers : pc[r] = "wait" /\ ptr[r] = q}
     IN  \/ waiting = {} /\ pc' = moved
         \/ \E r \in waiting : pc' = [moved EXCEPT ![r] = "woken"]

-------------------------------------------------------------------------------
(* The queue *)

\* _mio_pubsub_rx_queue_dequeue, one critical section of pubsub_rx_queue_mutex.
DequeueOne ==
  /\ len > 0
  /\ got' = Head(queue)
  /\ queue' = Tail(queue)
  /\ len' = len - 1

\* _mio_pubsub_rx_queue_enqueue reads the length before it takes the mutex.
EnqueueTest ==
  /\ lpc = "len"
  /\ lpc' = IF len >= MaxLen THEN "drop" ELSE "insert"
  /\ UNCHANGED <<queueVars, threadVars, lptr, pkt, reqVars, connVars, crashed>>

\* Fault: TAILQ_REMOVE of the oldest packet is forgotten; see LenExact.
EnqueueDropKeeps ==
  /\ lpc = "drop"
  /\ lpc' = "signal"
  /\ queue' = Append(queue, pkt)
  /\ UNCHANGED <<len, got, threadVars, lptr, pkt, reqVars, connVars, crashed>>

\* Full: the first element is removed.  TAILQ_FIRST of a queue that was emptied
\* meanwhile is NULL, and TAILQ_REMOVE dereferences it.
EnqueueDrop ==
  /\ lpc = "drop"
  /\ lpc' = "signal"
  /\ IF queue = <<>>
       THEN crashed' = TRUE /\ UNCHANGED queue
       ELSE queue' = Append(Tail(queue), pkt) /\ UNCHANGED crashed
  /\ UNCHANGED <<len, got, threadVars, lptr, pkt, reqVars, connVars>>

\* Fault: TAILQ_INSERT_HEAD for TAILQ_INSERT_TAIL; see ImplementsFifo.
EnqueueInsertHead ==
  /\ lpc = "insert"
  /\ lpc' = "signal"
  /\ queue' = <<pkt>> \o queue
  /\ len' = len + 1
  /\ UNCHANGED <<got, threadVars, lptr, pkt, reqVars, connVars, crashed>>

EnqueueInsert ==
  /\ lpc = "insert"
  /\ lpc' = "signal"
  /\ queue' = Append(queue, pkt)
  /\ len' = len + 1
  /\ UNCHANGED <<got, threadVars, lptr, pkt, reqVars, connVars, crashed>>

-------------------------------------------------------------------------------
(* mio_pubsub_data_receive *)

\* A call on a connection that is not authenticated returns at once.
Receive(r) ==
  /\ authenticated
  /\ Goto(r, "idle", "fast")
  /\ UNCHANGED <<queueVars, ptr, loopVars, reqVars, connVars, crashed>>

\* A packet that is already queued is returned without a look at the request.
FastPath(r) ==
  /\ \/ DequeueOne /\ Goto(r, "fast", "idle")
     \/ len <= 0 /\ Goto(r, "fast", "lookup") /\ UNCHANGED queueVars
  /\ UNCHANGED <<ptr, loopVars, reqVars, connVars, crashed>>

Lookup(r) ==
  /\ \/ registered # 0 /\ Goto(r, "lookup", "outer") /\ ptr' = [ptr EXCEPT ![r] = registered]
     \/ registered = 0 /\ Goto(r, "lookup", "lstart") /\ UNCHANGED ptr
  /\ UNCHANGED <<queueVars, loopVars, reqVars, connVars, crashed>>

\* The second look-up, after listen_start: its result is not tested.
LookupAgain(r) ==
  /\ Goto(r, "lookup2", "outer")
  /\ ptr' = [ptr EXCEPT ![r] = registered]
  /\ crashed' = (registered = 0)
  /\ UNCHANGED <<queueVars, loopVars, reqVars, connVars>>

Outer(r) ==
  /\ \/ len <= 0 /\ listening /\ Goto(r, "outer", "inner")
     \/ ~(len <= 0 /\ listening) /\ Goto(r, "outer", "reset")
  /\ UNCHANGED <<queueVars, ptr, loopVars, reqVars, connVars, crashed>>

\* request->predicate is read without the mutex; in a freed request it is anything.
Inner(r) ==
  /\ pc[r] = "inner"
  /\ \E p \in IF ptr[r] \in freed THEN BOOLEAN ELSE {predicate[ptr[r]]} :
       Goto(r, "inner", IF p THEN "outer" ELSE "sleep")
  /\ UNCHANGED <<queueVars, ptr, loopVars, reqVars, connVars, crashed>>

\* pthread_cond_wait has no deadline.  On a destroyed mutex the lock may fail.
Sleep(r) ==
  /\ \/ Goto(r, "sleep", "wait")
     \/ ptr[r] \in freed /\ Goto(r, "sleep", "idle")
  /\ UNCHANGED <<queueVars, ptr, loopVars, reqVars, connVars, crashed>>

\* A condition variable may wake a thread without a signal.
SpuriousWake(r) ==
  /\ Goto(r, "wait", "woken")
  /\ UNCHANGED <<queueVars, ptr, loopVars, reqVars, connVars, crashed>>

Woken(r) ==
  /\ \/ Goto(r, "woken", "inner")
     \/ ptr[r] \in freed /\ Goto(r, "woken", "idle")
  /\ UNCHANGED <<queueVars, ptr, loopVars, reqVars, connVars, crashed>>

\* request->predicate = 0, again without the mutex.
Reset(r) ==
  /\ Goto(r, "reset", "deq")
  /\ SetPredicate(ptr[r], FALSE)
  /\ UNCHANGED <<queueVars, ptr, loopVars, registered, freed, requests, sem, connVars, crashed>>

\* MIO_OK with a packet, MIO_ERROR_NO_RESPONSE without.
Finish(r) ==
  /\ Goto(r, "deq", "idle")
  /\ \/ DequeueOne
     \/ len <= 0 /\ UNCHANGED queueVars
  /\ ptr' = [ptr EXCEPT ![r] = 0]
  /\ UNCHANGED <<loopVars, reqVars, connVars, crashed>>

-------------------------------------------------------------------------------
(* mio_pubsub_data_listen_start, called by mio_pubsub_data_receive *)

ListenStart(r) ==
  /\ Goto(r, "lstart", IF authenticated THEN "lsem" ELSE "idle")
  /\ UNCHANGED <<queueVars, ptr, loopVars, reqVars, connVars, crashed>>

ListenSemWait(r) ==
  /\ Goto(r, "lsem", "ladd")
  /\ sem > 0 /\ requests < MaxRequests
  /\ sem' = sem - 1
  /\ requests' = requests + 1
  /\ ptr' = [ptr EXCEPT ![r] = requests + 1]
  /\ UNCHANGED <<queueVars, loopVars, registered, predicate, freed, connVars, crashed>>

\* _mio_request_add: without a free permit left the call fails.
ListenAddCheck(r) ==
  /\ Goto(r, "ladd", IF sem > 0 THEN "linsert" ELSE "idle")
  /\ UNCHANGED <<queueVars, ptr, loopVars, reqVars, connVars, crashed>>

\* _mio_request_add reports success even when the id is in the table already.
ListenInsert(r) ==
  /\ Goto(r, "linsert", "lhandler")
  /\ registered' = IF registered = 0 THEN ptr[r] ELSE registered
  /\ UNCHANGED <<queueVars, ptr, loopVars, predicate, freed, requests, sem, connVars, crashed>>

\* xmpp_handler_add under event_loop_mutex.  _handler_add keeps one item per
\* function pointer, so that a second call adds nothing.
ListenHandlerAdd(r) ==
  /\ Goto(r, "lhandler", "lflag")
  /\ lpc = "idle"
  /\ handler' = TRUE
  /\ UNCHANGED <<queueVars, ptr, loopVars, reqVars, listening, authenticated, drops, crashed>>

\* pubsub_rx_listening = 1, after event_loop_mutex has been released.
ListenFlag(r) ==
  /\ Goto(r, "lflag", "lookup2")
  /\ listening' = TRUE
  /\ UNCHANGED <<queueVars, ptr, loopVars, reqVars, handler, authenticated, drops, crashed>>

-------------------------------------------------------------------------------
(* mio_handler_pubsub_data_receive in the event loop thread *)

\* A publication arrives; without a request it is discarded.
PacketArrives ==
  /\ lpc = "idle" /\ handler /\ authenticated
  /\ \/ registered = 0 /\ UNCHANGED <<lpc, pkt>>
     \/ registered # 0 /\ lpc' = "get" /\ pkt' \in Packets
  /\ UNCHANGED <<queueVars, threadVars, lptr, reqVars, connVars, crashed>>

\* The handler looks the request up a second time; without it the packet is freed.
HandlerGet ==
  /\ lpc = "get"
  /\ lptr' = registered
  /\ \/ registered = 0 /\ lpc' = "idle" /\ pkt' = Nothing
     \/ registered # 0 /\ lpc' = "len" /\ UNCHANGED pkt
  /\ UNCHANGED <<queueVars, threadVars, reqVars, connVars, crashed>>

\* Fault: the packet is queued and nobody is signalled; see ReceiveReturns.
HandlerSignalForgets ==
  /\ lpc = "signal"
  /\ lpc' = "idle" /\ lptr' = 0 /\ pkt' = Nothing
  /\ UNCHANGED <<queueVars, threadVars, reqVars, connVars, crashed>>

HandlerSignal ==
  /\ lpc = "signal"
  /\ Signal(lptr, pc)
  /\ lpc' = "idle" /\ lptr' = 0 /\ pkt' = Nothing
  /\ UNCHANGED <<queueVars, ptr, registered, freed, requests, sem, connVars, crashed>>

Disconnect ==
  /\ lpc = "idle" /\ authenticated /\ drops < MaxDrops
  /\ authenticated' = FALSE
  /\ drops' = drops + 1
  /\ UNCHANGED <<queueVars, threadVars, loopVars, reqVars, listening, handler, crashed>>

\* mio_handler_conn_generic(CONNECT) wakes the receiver if packets are queued.
Reconnect ==
  /\ lpc = "idle" /\ ~authenticated
  /\ authenticated' = TRUE
  /\ IF len > 0 /\ registered # 0
       THEN lptr' = registered /\ lpc' = "signal"
       ELSE UNCHANGED <<lptr, lpc>>
  /\ UNCHANGED <<queueVars, threadVars, pkt, reqVars, listening, handler, drops, crashed>>

LoopStep == EnqueueTest \/ EnqueueDrop \/ EnqueueInsert \/ HandlerGet \/ HandlerSignal

-------------------------------------------------------------------------------
(* mio_pubsub_data_listen_stop and mio_pubsub_data_rx_queue_clear *)

StopGet(s) ==
  /\ Goto(s, "stop", IF registered = 0 THEN AfterStop(s) ELSE "flag")
  /\ ptr' = [ptr EXCEPT ![s] = registered]
  /\ UNCHANGED <<queueVars, loopVars, reqVars, connVars, crashed>>

StopFlag(s) ==
  /\ Goto(s, "flag", "signal")
  /\ listening' = FALSE
  /\ UNCHANGED <<queueVars, ptr, loopVars, reqVars, handler, authenticated, drops, crashed>>

StopSignal(s) ==
  /\ pc[s] = "signal"
  /\ Signal(ptr[s], [pc EXCEPT ![s] = "delete"])
  /\ ptr' = [ptr EXCEPT ![s] = 0]
  /\ UNCHANGED <<queueVars, loopVars, registered, freed, requests, sem, connVars, crashed>>

\* Fault: the permit is returned without a look at what was found; see
\* PermitPerListener.
StopDeletePosts(s) ==
  /\ Goto(s, "delete", "post")
  /\ registered' = 0
  /\ freed' = freed \cup ({registered} \ {0})
  /\ UNCHANGED <<queueVars, ptr, loopVars, predicate, requests, sem, connVars, crashed>>

\* _mio_request_delete of whatever is registered by now.
StopDelete(s) ==
  /\ Goto(s, "delete", IF registered = 0 THEN AfterStop(s) ELSE "post")
  /\ registered' = 0
  /\ freed' = freed \cup ({registered} \ {0})
  /\ predicate' = [q \in Requests |-> q # registered /\ predicate[q]]
  /\ UNCHANGED <<queueVars, ptr, loopVars, requests, sem, connVars, crashed>>

StopPost(s) ==
  /\ Goto(s, "post", AfterStop(s))
  /\ sem' = sem + 1
  /\ UNCHANGED <<queueVars, ptr, loopVars, registered, predicate, freed, requests, connVars, crashed>>

\* One round of the loop of mio_pubsub_data_rx_queue_clear.
Clear(k) ==
  /\ \/ DequeueOne /\ pc[k] = "clear" /\ UNCHANGED pc
     \/ len <= 0 /\ Goto(k, "clear", "done") /\ UNCHANGED queueVars
  /\ UNCHANGED <<ptr, loopVars, reqVars, connVars, crashed>>

-------------------------------------------------------------------------------
ReceiverStep(r) ==
  \/ FastPath(r) \/ Lookup(r) \/ LookupAgain(r) \/ Outer(r) \/ Inner(r) \/ Sleep(r)
  \/ Woken(r) \/ Reset(r) \/ Finish(r)
  \/ ListenStart(r) \/ ListenSemWait(r) \/ ListenAddCheck(r) \/ ListenInsert(r)
  \/ ListenHandlerAdd(r) \/ ListenFlag(r)

StopperStep(s) == StopGet(s) \/ StopFlag(s) \/ StopSignal(s) \/ StopDelete(s) \/ StopPost(s)

Next ==
  /\ ~crashed
  /\ \/ \E r \in Receivers : Receive(r) \/ SpuriousWake(r) \/ ReceiverStep(r)
     \/ \E s \in Stoppers : StopperStep(s)
     \/ \E k \in Clearers : Clear(k)
     \/ LoopStep \/ PacketArrives \/ Disconnect \/ Reconnect

Spec == Init /\ [][Next]_vars

\* Threads keep running, a lock that is free again and again is obtained and the
\* event loop finishes what it has begun.
Fairness ==
  /\ \A r \in Receivers : SF_vars(~crashed /\ ReceiverStep(r))
  /\ \A s \in Stoppers : WF_vars(~crashed /\ StopperStep(s))
  /\ WF_vars(~crashed /\ LoopStep) /\ WF_vars(~crashed /\ Reconnect)

FairSpec == Spec /\ Fairness

\* In addition publications keep arriving.
BusySpec == FairSpec /\ SF_vars(~crashed /\ PacketArrives)

-------------------------------------------------------------------------------
(* Properties *)

\* pubsub_rx_queue_len is the length of pubsub_rx_queue and never exceeds the
\* maximum, although _mio_pubsub_rx_queue_enqueue compares it before it takes
\* pubsub_rx_queue_mutex.
LenExact == len = Len(queue) /\ len <= MaxLen

\* The receive queue behaves as a bounded FIFO that drops its oldest packet.
Fifo == INSTANCE LossyFifo WITH Capacity <- MaxLen, buffer <- queue, out <- got
ImplementsFifo == Fifo!Spec

\* With one receiver, steady traffic and all other threads done, every call
\* of mio_pubsub_data_receive returns, although a wake-up can be lost between the
\* unlocked test of the predicate and the wait, unless the program is brought
\* down by a look-up that finds no request or by the removal from an emptied queue.
ReceiveReturns ==
  \A r \in Receivers : pc[r] = "fast" /\ (\A t \in Stoppers \cup Clearers : pc[t] = "done")
                       ~> pc[r] = "idle" \/ crashed

\* Listening costs exactly one permit of mio_open_requests: whatever one receiver
\* and the threads that stop it have done, once they rest the permits that are
\* missing are those of the registered request, as long as there are more permits
\* than calls (the one who takes the last permit is refused and never returns it).
PermitPerListener ==
  (\A t \in Threads : pc[t] \in {"idle", "wait", "stop", "clear", "done"})
    => sem + Cardinality({registered} \ {0}) = MaxOpen

\* "If there is a pubsub response waiting on the pubsub_rx_queue, return it":
\* a receiver is not left waiting for good while a packet is queued.
QueuedPacketIsReceived ==
  \A r \in Receivers : (pc[r] = "wait" /\ len > 0) ~> (pc[r] # "wait" \/ len = 0)
===============================================================================
