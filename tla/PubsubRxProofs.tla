---------------------------- MODULE PubsubRxProofs ----------------------------
(***************************************************************************)
(* Proofs about PubsubRx for every number of threads, packets and every    *)
(* maximum length: the types, the length counter of pubsub_rx_queue is     *)
(* exact and bounded, the queue implements LossyFifo, and listening costs  *)
(* one permit.                                                             *)
(***************************************************************************)
EXTENDS PubsubRx, SequenceTheorems, FiniteSetTheorems, TLAPS

QueueTypes ==
  /\ queue \in Seq(Packets)
  /\ len \in Nat

\* The event loop carries a packet from its arrival until it is queued.
PacketAtHand == lpc \in {"get", "len", "drop", "insert"} => pkt \in Packets

\* The unlocked length test is still good when the event loop inserts: only the
\* event loop makes the queue longer.
RoomToInsert == lpc = "insert" => len < MaxLen

QInv == QueueTypes /\ LenExact /\ PacketAtHand /\ RoomToInsert

-------------------------------------------------------------------------------
\* Taking the oldest packet shortens the queue and its counter by one.
LEMMA DequeueKeeps ==
  ASSUME QInv, DequeueOne
  PROVE  QueueTypes' /\ LenExact' /\ len' < len
  <1>1. queue # <<>>
    BY DEF QInv, LenExact, DequeueOne
  <1>2. Tail(queue) \in Seq(Packets) /\ Len(Tail(queue)) = Len(queue) - 1
    BY <1>1, HeadTailProperties DEF QInv, QueueTypes
  <1>3. QED
    BY <1>2, LenAssumption DEF QInv, QueueTypes, LenExact, DequeueOne

\* A step that leaves the queue and the event loop alone keeps the invariant.
LEMMA OthersKeep ==
  ASSUME QInv, UNCHANGED <<queueVars, loopVars>>
  PROVE  QInv'
  BY DEF QInv, QueueTypes, LenExact, PacketAtHand, RoomToInsert, queueVars, loopVars

\* So does a step that takes a packet and leaves the event loop alone.
LEMMA TakersKeep ==
  ASSUME QInv, DequeueOne, UNCHANGED loopVars
  PROVE  QInv'
  <1>1. QueueTypes' /\ LenExact' /\ len' < len
    BY DequeueKeeps
  <1>2. PacketAtHand'
    BY DEF QInv, PacketAtHand, loopVars
  <1>3. RoomToInsert'
    BY <1>1, LenAssumption DEF QInv, QueueTypes, RoomToInsert, loopVars
  <1>4. QED
    BY <1>1, <1>2, <1>3 DEF QInv

\* Inserting after the test found room lengthens the queue and its counter by one.
LEMMA InsertKeeps ==
  ASSUME QInv, EnqueueInsert
  PROVE  QInv'
  <1>1. pkt \in Packets /\ len < MaxLen
    BY DEF QInv, PacketAtHand, RoomToInsert, EnqueueInsert
  <1>2. queue' \in Seq(Packets) /\ Len(queue') = Len(queue) + 1
    BY <1>1, AppendProperties DEF QInv, QueueTypes, EnqueueInsert
  <1>3. QED
    BY <1>1, <1>2, LenAssumption
    DEF QInv, QueueTypes, LenExact, PacketAtHand, RoomToInsert, EnqueueInsert

\* Replacing the oldest packet keeps the length; an empty queue ends the program.
LEMMA DropKeeps ==
  ASSUME QInv, EnqueueDrop
  PROVE  QInv'
  <1>1. queue' \in Seq(Packets) /\ Len(queue') = Len(queue)
    <2>1. CASE queue = <<>>
      BY <2>1 DEF QInv, QueueTypes, EnqueueDrop
    <2>2. CASE queue # <<>>
      <3>1. Tail(queue) \in Seq(Packets) /\ Len(Tail(queue)) = Len(queue) - 1
        BY <2>2, HeadTailProperties DEF QInv, QueueTypes
      <3>2. pkt \in Packets /\ queue' = Append(Tail(queue), pkt)
        BY <2>2 DEF QInv, PacketAtHand, EnqueueDrop
      <3>3. QED
        BY <3>1, <3>2, AppendProperties DEF QInv, LenExact, QueueTypes
    <2>3. QED
      BY <2>1, <2>2
  <1>2. QED
    BY <1>1 DEF QInv, QueueTypes, LenExact, PacketAtHand, RoomToInsert, EnqueueDrop

\* QInv is inductive.
LEMMA QInvStep ==
  ASSUME QInv, [Next]_vars
  PROVE  QInv'
  <1> USE DEF Goto
  <1>1. ASSUME NEW r \in Receivers, Receive(r) \/ SpuriousWake(r) PROVE QInv'
    BY <1>1, OthersKeep DEF Receive, SpuriousWake
  <1>2. ASSUME NEW r \in Receivers, FastPath(r) PROVE QInv'
    BY <1>2, OthersKeep, TakersKeep DEF FastPath
  <1>3. ASSUME NEW r \in Receivers, Finish(r) PROVE QInv'
    BY <1>3, OthersKeep, TakersKeep DEF Finish
  <1>4. ASSUME NEW r \in Receivers,
               Lookup(r) \/ LookupAgain(r) \/ Outer(r) \/ Inner(r) \/ Sleep(r) \/ Woken(r)
               \/ Reset(r)
        PROVE  QInv'
    BY <1>4, OthersKeep DEF Lookup, LookupAgain, Outer, Inner, Sleep, Woken, Reset
  <1>5. ASSUME NEW r \in Receivers,
               ListenStart(r) \/ ListenSemWait(r) \/ ListenAddCheck(r) \/ ListenInsert(r)
               \/ ListenHandlerAdd(r) \/ ListenFlag(r)
        PROVE  QInv'
    BY <1>5, OthersKeep DEF ListenStart, ListenSemWait, ListenAddCheck, ListenInsert,
       ListenHandlerAdd, ListenFlag
  <1>6. ASSUME NEW s \in Stoppers, StopperStep(s) PROVE QInv'
    BY <1>6, OthersKeep DEF StopperStep, StopGet, StopFlag, StopSignal, StopDelete, StopPost
  <1>7. ASSUME NEW k \in Clearers, Clear(k) PROVE QInv'
    BY <1>7, OthersKeep, TakersKeep DEF Clear
  <1>8. CASE EnqueueTest
    BY <1>8, LenAssumption
    DEF QInv, QueueTypes, LenExact, PacketAtHand, RoomToInsert, EnqueueTest, queueVars
  <1>9. CASE EnqueueDrop
    BY <1>9, DropKeeps
  <1>10. CASE EnqueueInsert
    BY <1>10, InsertKeeps
  <1>11. CASE HandlerGet \/ HandlerSignal \/ PacketArrives \/ Reconnect
    BY <1>11 DEF QInv, QueueTypes, LenExact, PacketAtHand, RoomToInsert, queueVars,
       HandlerGet, HandlerSignal, PacketArrives, Reconnect
  <1>12. CASE Disconnect
    BY <1>12, OthersKeep DEF Disconnect
  <1>13. CASE UNCHANGED vars
    BY <1>13, OthersKeep DEF vars
  <1>14. QED
    BY <1>1, <1>2, <1>3, <1>4, <1>5, <1>6, <1>7, <1>8, <1>9, <1>10, <1>11, <1>12, <1>13
    DEF Next, ReceiverStep, LoopStep

\* QInv is an invariant of the specification.
LEMMA QInvInvariant == Spec => []QInv
  <1>1. Init => QInv
    BY LenAssumption, EmptySeq DEF Init, QInv, QueueTypes, LenExact, PacketAtHand, RoomToInsert
  <1>2. QED
    BY <1>1, QInvStep, PTL DEF Spec

-------------------------------------------------------------------------------
\* pubsub_rx_queue_len always equals the length of pubsub_rx_queue and never
\* exceeds MIO_PUBSUB_RX_QUEUE_MAX_LEN, although _mio_pubsub_rx_queue_enqueue
\* tests it without the lock, for any number of receiving and clearing threads.
THEOREM LengthIsExact == Spec => []LenExact
  <1>1. QInv => LenExact
    BY DEF QInv
  <1>2. QED
    BY <1>1, QInvInvariant, PTL

\* Every step of the module is a step of the abstract queue or leaves it alone.
LEMMA StepIsFifoStep ==
  ASSUME QInv, [Next]_vars
  PROVE  [Fifo!Next]_(Fifo!fifoVars)
  <1> USE DEF Goto, Fifo!fifoVars
  <1>1. ASSUME DequeueOne PROVE Fifo!Next
    <2>1. queue # <<>>
      BY <1>1 DEF QInv, LenExact, DequeueOne
    <2>2. QED
      BY <1>1, <2>1 DEF DequeueOne, Fifo!Next, Fifo!Take
  <1>2. CASE EnqueueInsert
    <2>1. pkt \in Packets /\ Len(queue) < MaxLen
      BY <1>2 DEF QInv, LenExact, PacketAtHand, RoomToInsert, EnqueueInsert
    <2>2. Fifo!Put(pkt)
      BY <1>2, <2>1 DEF EnqueueInsert, Fifo!Put
    <2>3. QED
      BY <2>1, <2>2 DEF Fifo!Next
  <1>3. CASE EnqueueDrop
    <2>1. CASE queue = <<>>
      BY <1>3, <2>1 DEF EnqueueDrop
    <2>2. CASE queue # <<>>
      <3>1. pkt \in Packets /\ Fifo!PutDropOldest(pkt)
        BY <1>3, <2>2 DEF QInv, PacketAtHand, EnqueueDrop, Fifo!PutDropOldest
      <3>2. QED
        BY <3>1 DEF Fifo!Next
    <2>3. QED
      BY <2>1, <2>2
  <1>4. ASSUME NEW r \in Receivers, FastPath(r) \/ Finish(r)
        PROVE  [Fifo!Next]_(Fifo!fifoVars)
    BY <1>1, <1>4 DEF FastPath, Finish, queueVars
  <1>5. ASSUME NEW k \in Clearers, Clear(k) PROVE [Fifo!Next]_(Fifo!fifoVars)
    BY <1>1, <1>5 DEF Clear, queueVars
  <1>6. ASSUME NEW r \in Receivers,
               Receive(r) \/ SpuriousWake(r) \/ Lookup(r) \/ LookupAgain(r) \/ Outer(r)
               \/ Inner(r) \/ Sleep(r) \/ Woken(r) \/ Reset(r)
        PROVE  UNCHANGED Fifo!fifoVars
    BY <1>6 DEF Receive, SpuriousWake, Lookup, LookupAgain, Outer, Inner, Sleep, Woken,
       Reset, queueVars
  <1>7. ASSUME NEW r \in Receivers,
               ListenStart(r) \/ ListenSemWait(r) \/ ListenAddCheck(r) \/ ListenInsert(r)
               \/ ListenHandlerAdd(r) \/ ListenFlag(r)
        PROVE  UNCHANGED Fifo!fifoVars
    BY <1>7 DEF ListenStart, ListenSemWait, ListenAddCheck, ListenInsert, ListenHandlerAdd,
       ListenFlag, queueVars
  <1>8. ASSUME NEW s \in Stoppers, StopperStep(s) PROVE UNCHANGED Fifo!fifoVars
    BY <1>8 DEF StopperStep, StopGet, StopFlag, StopSignal, StopDelete, StopPost, queueVars
  <1>9. CASE EnqueueTest \/ HandlerGet \/ HandlerSignal \/ PacketArrives
    BY <1>9 DEF EnqueueTest, HandlerGet, HandlerSignal, PacketArrives, queueVars
  <1>10. CASE Disconnect \/ Reconnect \/ UNCHANGED vars
    BY <1>10 DEF Disconnect, Reconnect, vars, queueVars
  <1>11. QED
    BY <1>2, <1>3, <1>4, <1>5, <1>6, <1>7, <1>8, <1>9, <1>10
    DEF Next, ReceiverStep, LoopStep

\* The receive queue implements the bounded FIFO that loses only its oldest
\* packet: no packet is reordered, duplicated or taken twice by any interleaving
\* of receivers, clearers and the event loop.
THEOREM QueueIsFifo == Spec => ImplementsFifo
  <1>1. Init => Fifo!Init
    BY DEF Init, Fifo!Init
  <1>2. QED
    BY <1>1, StepIsFifoStep, QInvInvariant, PTL DEF Spec, ImplementsFifo, Fifo!Spec

-------------------------------------------------------------------------------
(* The permits of mio_open_requests *)

\* The threads that hold a permit of their own: between sem_wait and the entry in the
\* table, and between HASH_DEL and sem_post.
Holders == {t \in Threads : pc[t] \in {"ladd", "linsert", "post"}}

Listener == IF registered = 0 THEN 0 ELSE 1

\* The permits that are not lost.
Permits == sem + Cardinality(Holders) + Listener

\* A permit is lost when its owner is refused for having taken the last one, or
\* finds another listener registered.
Loses(r) == (ListenAddCheck(r) /\ sem <= 0) \/ (ListenInsert(r) /\ registered # 0)

\* Who is about to register a request has one; only receivers listen, only stoppers post.
PlaceInv ==
  /\ \A r \in Receivers : pc[r] \in ReceiverPC /\ (pc[r] \in {"ladd", "linsert"} => ptr[r] # 0)
  /\ \A t \in Threads \ Receivers : pc[t] \in StopperPC \cup {"clear"}
  /\ \A t \in Threads : pc[t] = "post" => t \in Stoppers

RxInv == TypeOK /\ QInv /\ PlaceInv /\ Permits <= MaxOpen

\* A set of threads has a size, and taking one thread in or out changes it by one.
LEMMA ThreadSets ==
  ASSUME NEW S \in SUBSET Threads
  PROVE  /\ Cardinality(S) \in Nat
         /\ \A t \in Threads \ S : Cardinality(S \cup {t}) = Cardinality(S) + 1
         /\ \A t \in S : Cardinality(S \ {t}) = Cardinality(S) - 1
  <1>1. IsFiniteSet(S)
    BY ThreadsAssumption, FS_Subset DEF Threads
  <1>2. QED
    BY <1>1, FS_CardinalityType, FS_AddElement, FS_RemoveElement

\* A step that leaves the permits, the listener and the holders alone.
LEMMA SamePermits ==
  ASSUME sem' = sem, Holders' = Holders, (registered' = 0) <=> (registered = 0)
  PROVE  Permits' = Permits
  BY DEF Permits, Listener

\* A thread starts to hold a permit, or stops to; the others stay where they are.
LEMMA HoldersMove ==
  ASSUME TypeOK, NEW t \in Threads, NEW a, NEW b, Goto(t, a, b)
  PROVE  /\ a \in {"ladd", "linsert", "post"} <=> t \in Holders
         /\ Holders' = IF b \in {"ladd", "linsert", "post"} THEN Holders \cup {t} ELSE Holders \ {t}
  BY DEF TypeOK, Goto, Holders, Threads

\* Every thread stays in its own program, and a request about to be registered is one.
LEMMA PlaceStep ==
  ASSUME TypeOK, PlaceInv, [Next]_vars
  PROVE  PlaceInv'
  <1> USE DEF TypeOK, PlaceInv, Threads, ReceiverPC, StopperPC, AfterStop, Goto, queueVars, threadVars, loopVars, reqVars, connVars
  <1>1. ASSUME NEW r \in Receivers, Receive(r) PROVE PlaceInv'
    BY <1>1 DEF Receive
  <1>2. ASSUME NEW r \in Receivers, SpuriousWake(r) PROVE PlaceInv'
    BY <1>2 DEF SpuriousWake
  <1>3. ASSUME NEW r \in Receivers, FastPath(r) PROVE PlaceInv'
    BY <1>3 DEF FastPath, DequeueOne
  <1>4. ASSUME NEW r \in Receivers, Lookup(r) PROVE PlaceInv'
    BY <1>4 DEF Lookup
  <1>5. ASSUME NEW r \in Receivers, LookupAgain(r) PROVE PlaceInv'
    BY <1>5 DEF LookupAgain
  <1>6. ASSUME NEW r \in Receivers, Outer(r) PROVE PlaceInv'
    BY <1>6 DEF Outer
  <1>7. ASSUME NEW r \in Receivers, Inner(r) PROVE PlaceInv'
    BY <1>7 DEF Inner
  <1>8. ASSUME NEW r \in Receivers, Sleep(r) PROVE PlaceInv'
    BY <1>8 DEF Sleep
  <1>9. ASSUME NEW r \in Receivers, Woken(r) PROVE PlaceInv'
    BY <1>9 DEF Woken
  <1>10. ASSUME NEW r \in Receivers, Reset(r) PROVE PlaceInv'
    BY <1>10 DEF Reset, SetPredicate
  <1>11. ASSUME NEW r \in Receivers, Finish(r) PROVE PlaceInv'
    BY <1>11 DEF Finish, DequeueOne
  <1>12. ASSUME NEW r \in Receivers, ListenStart(r) PROVE PlaceInv'
    BY <1>12 DEF ListenStart
  <1>13. ASSUME NEW r \in Receivers, ListenSemWait(r) PROVE PlaceInv'
    BY <1>13 DEF ListenSemWait
  <1>14. ASSUME NEW r \in Receivers, ListenAddCheck(r) PROVE PlaceInv'
    BY <1>14 DEF ListenAddCheck
  <1>15. ASSUME NEW r \in Receivers, ListenInsert(r) PROVE PlaceInv'
    BY <1>15 DEF ListenInsert
  <1>16. ASSUME NEW r \in Receivers, ListenHandlerAdd(r) PROVE PlaceInv'
    BY <1>16 DEF ListenHandlerAdd
  <1>17. ASSUME NEW r \in Receivers, ListenFlag(r) PROVE PlaceInv'
    BY <1>17 DEF ListenFlag
  <1>18. ASSUME NEW s \in Stoppers, StopGet(s) PROVE PlaceInv'
    BY <1>18, ThreadsAssumption DEF StopGet
  <1>19. ASSUME NEW s \in Stoppers, StopFlag(s) PROVE PlaceInv'
    BY <1>19, ThreadsAssumption DEF StopFlag
  <1>20. ASSUME NEW s \in Stoppers, StopSignal(s) PROVE PlaceInv'
    BY <1>20, ThreadsAssumption DEF StopSignal, Signal, SetPredicate
  <1>21. ASSUME NEW s \in Stoppers, StopDelete(s) PROVE PlaceInv'
    BY <1>21, ThreadsAssumption DEF StopDelete
  <1>22. ASSUME NEW s \in Stoppers, StopPost(s) PROVE PlaceInv'
    BY <1>22, ThreadsAssumption DEF StopPost
  <1>23. ASSUME NEW k \in Clearers, Clear(k) PROVE PlaceInv'
    BY <1>23, ThreadsAssumption DEF Clear, DequeueOne
  <1>24. CASE EnqueueTest
    BY <1>24 DEF EnqueueTest
  <1>25. CASE EnqueueDrop
    BY <1>25 DEF EnqueueDrop
  <1>26. CASE EnqueueInsert
    BY <1>26 DEF EnqueueInsert
  <1>27. CASE HandlerGet
    BY <1>27 DEF HandlerGet
  <1>28. CASE HandlerSignal
    BY <1>28 DEF HandlerSignal, Signal, SetPredicate
  <1>29. CASE PacketArrives
    BY <1>29 DEF PacketArrives
  <1>30. CASE Disconnect
    BY <1>30 DEF Disconnect
  <1>31. CASE Reconnect
    BY <1>31 DEF Reconnect
  <1>32. CASE UNCHANGED vars
    BY <1>32 DEF vars
  <1> QED
    BY <1>1, <1>2, <1>3, <1>4, <1>5, <1>6, <1>7, <1>8, <1>9, <1>10, <1>11, <1>12, <1>13, <1>14, <1>15, <1>16,
       <1>17, <1>18, <1>19, <1>20, <1>21, <1>22, <1>23, <1>24, <1>25, <1>26, <1>27, <1>28, <1>29, <1>30, <1>31, <1>32
    DEF Next, ReceiverStep, StopperStep, LoopStep

\* Every step keeps the types, given what is known of the queue and of the permits.
LEMMA TypeStep ==
  ASSUME RxInv, QInv', [Next]_vars
  PROVE  TypeOK'
  <1> USE DEF RxInv, TypeOK, Threads, ReceiverPC, StopperPC, AfterStop, Goto, Requests, queueVars, threadVars, loopVars, reqVars, connVars
  <1>queue. queue' \in Seq(Packets) /\ len' \in 0..MaxLen
    BY LenAssumption DEF QInv, QueueTypes, LenExact
  <1>taken. ASSUME DequeueOne PROVE got' \in Packets
    <2>1. queue # <<>>
      BY <1>taken DEF QInv, LenExact, DequeueOne
    <2>2. QED
      BY <1>taken, <2>1, HeadTailProperties DEF DequeueOne
  <1>1. ASSUME NEW r \in Receivers, Receive(r) PROVE TypeOK'
    BY <1>1 DEF Receive
  <1>2. ASSUME NEW r \in Receivers, SpuriousWake(r) PROVE TypeOK'
    BY <1>2 DEF SpuriousWake
  <1>3. ASSUME NEW r \in Receivers, FastPath(r) PROVE TypeOK'
    <2>1. got' \in Packets \cup {Nothing}
      BY <1>3, <1>taken DEF FastPath
    <2>2. QED
      BY <1>3, <2>1, <1>queue DEF FastPath, DequeueOne
  <1>4. ASSUME NEW r \in Receivers, Lookup(r) PROVE TypeOK'
    <2>1. pc' \in [Threads -> ReceiverPC \cup StopperPC \cup {"clear"}]
      BY <1>4 DEF Lookup
    <2>2. QED
      BY <1>4, <2>1, SMTT(30) DEF Lookup
  <1>5. ASSUME NEW r \in Receivers, LookupAgain(r) PROVE TypeOK'
    BY <1>5 DEF LookupAgain
  <1>6. ASSUME NEW r \in Receivers, Outer(r) PROVE TypeOK'
    <2>1. pc' \in [Threads -> ReceiverPC \cup StopperPC \cup {"clear"}]
      BY <1>6 DEF Outer
    <2>2. QED
      BY <1>6, <2>1, SMTT(30) DEF Outer
  <1>7. ASSUME NEW r \in Receivers, Inner(r) PROVE TypeOK'
    BY <1>7 DEF Inner
  <1>8. ASSUME NEW r \in Receivers, Sleep(r) PROVE TypeOK'
    <2>1. pc' \in [Threads -> ReceiverPC \cup StopperPC \cup {"clear"}]
      BY <1>8 DEF Sleep
    <2>2. QED
      BY <1>8, <2>1, SMTT(30) DEF Sleep
  <1>9. ASSUME NEW r \in Receivers, Woken(r) PROVE TypeOK'
    <2>1. pc' \in [Threads -> ReceiverPC \cup StopperPC \cup {"clear"}]
      BY <1>9 DEF Woken
    <2>2. QED
      BY <1>9, <2>1, SMTT(30) DEF Woken
  <1>10. ASSUME NEW r \in Receivers, Reset(r) PROVE TypeOK'
    BY <1>10 DEF Reset, SetPredicate
  <1>11. ASSUME NEW r \in Receivers, Finish(r) PROVE TypeOK'
    <2>1. got' \in Packets \cup {Nothing}
      BY <1>11, <1>taken DEF Finish
    <2>2. QED
      BY <1>11, <2>1, <1>queue, BoundAssumption DEF Finish, DequeueOne
  <1>12. ASSUME NEW r \in Receivers, ListenStart(r) PROVE TypeOK'
    BY <1>12 DEF ListenStart
  <1>13. ASSUME NEW r \in Receivers, ListenSemWait(r) PROVE TypeOK'
    <2>1. requests + 1 \in 0..MaxRequests /\ sem - 1 \in 0..MaxOpen
      BY <1>13, BoundAssumption, OpenAssumption DEF ListenSemWait
    <2>2. QED
      BY <1>13, <2>1, BoundAssumption DEF ListenSemWait
  <1>14. ASSUME NEW r \in Receivers, ListenAddCheck(r) PROVE TypeOK'
    BY <1>14 DEF ListenAddCheck
  <1>15. ASSUME NEW r \in Receivers, ListenInsert(r) PROVE TypeOK'
    BY <1>15 DEF ListenInsert
  <1>16. ASSUME NEW r \in Receivers, ListenHandlerAdd(r) PROVE TypeOK'
    BY <1>16 DEF ListenHandlerAdd
  <1>17. ASSUME NEW r \in Receivers, ListenFlag(r) PROVE TypeOK'
    BY <1>17 DEF ListenFlag
  <1>18. ASSUME NEW s \in Stoppers, StopGet(s) PROVE TypeOK'
    BY <1>18 DEF StopGet
  <1>19. ASSUME NEW s \in Stoppers, StopFlag(s) PROVE TypeOK'
    BY <1>19 DEF StopFlag
  <1>20. ASSUME NEW s \in Stoppers, StopSignal(s) PROVE TypeOK'
    <2>1. predicate' \in [Requests -> BOOLEAN]
      BY <1>20 DEF StopSignal, Signal, SetPredicate
    <2>2. pc' \in [Threads -> ReceiverPC \cup StopperPC \cup {"clear"}]
      BY <1>20 DEF StopSignal, Signal
    <2>3. QED
      BY <1>20, <2>1, <2>2, BoundAssumption DEF StopSignal
  <1>21. ASSUME NEW s \in Stoppers, StopDelete(s) PROVE TypeOK'
    <2>1. predicate' \in [Requests -> BOOLEAN] /\ freed' \in SUBSET Requests
      BY <1>21, BoundAssumption DEF StopDelete
    <2>2. QED
      BY <1>21, <2>1, BoundAssumption DEF StopDelete
  <1>22. ASSUME NEW s \in Stoppers, StopPost(s) PROVE TypeOK'
    <2>1. s \in Holders
      BY <1>22 DEF StopPost, Holders
    <2>2. Cardinality(Holders) \in Nat /\ Cardinality(Holders \ {s}) \in Nat
          /\ Cardinality(Holders \ {s}) = Cardinality(Holders) - 1
      BY <2>1, ThreadSets DEF Holders
    <2>3. sem + 1 \in 0..MaxOpen
      BY <2>2, OpenAssumption DEF Permits, Listener
    <2>4. QED
      BY <1>22, <2>3 DEF StopPost
  <1>23. ASSUME NEW k \in Clearers, Clear(k) PROVE TypeOK'
    <2>1. got' \in Packets \cup {Nothing}
      BY <1>23, <1>taken DEF Clear
    <2>2. pc' \in [Threads -> ReceiverPC \cup StopperPC \cup {"clear"}]
      BY <1>23 DEF Clear
    <2>3. QED
      BY <1>23, <2>1, <2>2, <1>queue, SMTT(30) DEF Clear, DequeueOne
  <1>24. CASE EnqueueTest
    BY <1>24 DEF EnqueueTest
  <1>25. CASE EnqueueDrop
    BY <1>25, <1>queue DEF EnqueueDrop
  <1>26. CASE EnqueueInsert
    BY <1>26, <1>queue DEF EnqueueInsert
  <1>27. CASE HandlerGet
    BY <1>27 DEF HandlerGet
  <1>28. CASE HandlerSignal
    <2>1. predicate' \in [Requests -> BOOLEAN]
      BY <1>28 DEF HandlerSignal, Signal, SetPredicate
    <2>2. pc' \in [Threads -> ReceiverPC \cup StopperPC \cup {"clear"}]
      BY <1>28 DEF HandlerSignal, Signal
    <2>3. QED
      BY <1>28, <2>1, <2>2, BoundAssumption DEF HandlerSignal
  <1>29. CASE PacketArrives
    BY <1>29 DEF PacketArrives
  <1>30. CASE Disconnect
    <2>1. drops + 1 \in 0..MaxDrops
      BY <1>30, BoundAssumption DEF Disconnect
    <2>2. QED
      BY <1>30, <2>1 DEF Disconnect
  <1>31. CASE Reconnect
    BY <1>31 DEF Reconnect
  <1>32. CASE UNCHANGED vars
    BY <1>32 DEF vars
  <1> QED
    BY <1>1, <1>2, <1>3, <1>4, <1>5, <1>6, <1>7, <1>8, <1>9, <1>10, <1>11, <1>12, <1>13, <1>14, <1>15, <1>16,
       <1>17, <1>18, <1>19, <1>20, <1>21, <1>22, <1>23, <1>24, <1>25, <1>26, <1>27, <1>28, <1>29, <1>30, <1>31, <1>32
    DEF Next, ReceiverStep, StopperStep, LoopStep

\* Permits move between the semaphore, the threads and the listener; only a caller that
\* is refused, or finds another listener, loses one.
LEMMA PermitStep ==
  ASSUME TypeOK, PlaceInv, [Next]_vars
  PROVE  (Permits' = Permits) \/ (Permits' = Permits - 1 /\ \E r \in Receivers : Loses(r))
  <1> DEFINE KeptOrLost == (Permits' = Permits) \/ (Permits' = Permits - 1 /\ \E r \in Receivers : Loses(r))
  <1> USE DEF Goto, queueVars, threadVars, loopVars, reqVars, connVars
  <1>nat. sem \in Nat /\ Cardinality(Holders) \in Nat /\ Listener \in 0..1
    BY ThreadSets DEF TypeOK, Holders, Listener
  <1>1. ASSUME NEW r \in Receivers, Receive(r) PROVE KeptOrLost
    BY <1>1, SamePermits DEF Receive, Holders, Threads, TypeOK
  <1>2. ASSUME NEW r \in Receivers, SpuriousWake(r) PROVE KeptOrLost
    BY <1>2, SamePermits DEF SpuriousWake, Holders, Threads, TypeOK
  <1>3. ASSUME NEW r \in Receivers, FastPath(r) PROVE KeptOrLost
    BY <1>3, SamePermits DEF FastPath, Holders, Threads, TypeOK
  <1>4. ASSUME NEW r \in Receivers, Lookup(r) PROVE KeptOrLost
    BY <1>4, SamePermits DEF Lookup, Holders, Threads, TypeOK
  <1>5. ASSUME NEW r \in Receivers, LookupAgain(r) PROVE KeptOrLost
    BY <1>5, SamePermits DEF LookupAgain, Holders, Threads, TypeOK
  <1>6. ASSUME NEW r \in Receivers, Outer(r) PROVE KeptOrLost
    BY <1>6, SamePermits DEF Outer, Holders, Threads, TypeOK
  <1>7. ASSUME NEW r \in Receivers, Inner(r) PROVE KeptOrLost
    BY <1>7, SamePermits DEF Inner, Holders, Threads, TypeOK
  <1>8. ASSUME NEW r \in Receivers, Sleep(r) PROVE KeptOrLost
    BY <1>8, SamePermits DEF Sleep, Holders, Threads, TypeOK
  <1>9. ASSUME NEW r \in Receivers, Woken(r) PROVE KeptOrLost
    BY <1>9, SamePermits DEF Woken, Holders, Threads, TypeOK
  <1>10. ASSUME NEW r \in Receivers, Reset(r) PROVE KeptOrLost
    BY <1>10, SamePermits DEF Reset, Holders, Threads, TypeOK
  <1>11. ASSUME NEW r \in Receivers, Finish(r) PROVE KeptOrLost
    BY <1>11, SamePermits DEF Finish, Holders, Threads, TypeOK
  <1>12. ASSUME NEW r \in Receivers, ListenStart(r) PROVE KeptOrLost
    BY <1>12, SamePermits DEF ListenStart, Holders, Threads, TypeOK
  <1>13. ASSUME NEW r \in Receivers, ListenSemWait(r) PROVE KeptOrLost
    <2>1. r \notin Holders /\ Holders' = Holders \cup {r}
      BY <1>13, HoldersMove DEF ListenSemWait, Threads
    <2>2. Cardinality(Holders') = Cardinality(Holders) + 1
      BY <2>1, ThreadSets DEF Holders, Threads
    <2>3. Listener' = Listener /\ sem' = sem - 1
      BY <1>13 DEF ListenSemWait, Listener
    <2>4. Permits' = Permits
      BY <2>2, <2>3, <1>nat DEF Permits
    <2>5. QED
      BY <2>4
  <1>14. ASSUME NEW r \in Receivers, ListenAddCheck(r) PROVE KeptOrLost
    <2>1. Listener' = Listener /\ sem' = sem
      BY <1>14 DEF ListenAddCheck, Listener
    <2>2. CASE sem > 0
      <3>1. Holders' = Holders
        BY <1>14, <2>2 DEF ListenAddCheck, Holders, Threads, TypeOK
      <3>2. QED
        BY <2>1, <3>1 DEF Permits
    <2>3. CASE ~(sem > 0)
      <3>1. r \in Holders /\ Holders' = Holders \ {r}
        BY <1>14, <2>3, HoldersMove DEF ListenAddCheck, Threads
      <3>2. Cardinality(Holders') = Cardinality(Holders) - 1
        BY <3>1, ThreadSets DEF Holders
      <3>3. Permits' = Permits - 1
        BY <2>1, <3>2, <1>nat DEF Permits
      <3>4. Loses(r)
        BY <1>14, <2>3, <1>nat DEF Loses
      <3>5. QED
        BY <3>3, <3>4
    <2>4. QED
      BY <2>2, <2>3
  <1>15. ASSUME NEW r \in Receivers, ListenInsert(r) PROVE KeptOrLost
    <2>1. r \in Holders /\ Holders' = Holders \ {r} /\ sem' = sem
      BY <1>15, HoldersMove DEF ListenInsert, Threads
    <2>2. Cardinality(Holders') = Cardinality(Holders) - 1
      BY <2>1, ThreadSets DEF Holders
    <2>3. CASE registered = 0
      <3>1. Listener' = Listener + 1
        BY <1>15, <2>3 DEF ListenInsert, Listener, PlaceInv
      <3>2. QED
        BY <2>1, <2>2, <3>1, <1>nat DEF Permits
    <2>4. CASE registered # 0
      <3>1. Listener' = Listener
        BY <1>15, <2>4 DEF ListenInsert, Listener
      <3>2. Permits' = Permits - 1
        BY <2>1, <2>2, <3>1, <1>nat DEF Permits
      <3>3. Loses(r)
        BY <1>15, <2>4 DEF Loses
      <3>4. QED
        BY <3>2, <3>3
    <2>5. QED
      BY <2>3, <2>4
  <1>16. ASSUME NEW r \in Receivers, ListenHandlerAdd(r) PROVE KeptOrLost
    BY <1>16, SamePermits DEF ListenHandlerAdd, Holders, Threads, TypeOK
  <1>17. ASSUME NEW r \in Receivers, ListenFlag(r) PROVE KeptOrLost
    BY <1>17, SamePermits DEF ListenFlag, Holders, Threads, TypeOK
  <1>18. ASSUME NEW s \in Stoppers, StopGet(s) PROVE KeptOrLost
    BY <1>18, SamePermits DEF StopGet, AfterStop, Holders, Threads, TypeOK
  <1>19. ASSUME NEW s \in Stoppers, StopFlag(s) PROVE KeptOrLost
    BY <1>19, SamePermits DEF StopFlag, Holders, Threads, TypeOK
  <1>20. ASSUME NEW s \in Stoppers, StopSignal(s) PROVE KeptOrLost
    BY <1>20, SamePermits DEF StopSignal, Signal, Holders, Threads, TypeOK
  <1>21. ASSUME NEW s \in Stoppers, StopDelete(s) PROVE KeptOrLost
    <2>1. CASE registered = 0
      <3>1. Holders' = Holders
        BY <1>21, <2>1 DEF StopDelete, AfterStop, Holders, Threads, TypeOK
      <3>2. QED
        BY <1>21, <2>1, <3>1, SamePermits DEF StopDelete
    <2>2. CASE registered # 0
      <3>1. s \notin Holders /\ Holders' = Holders \cup {s}
        BY <1>21, <2>2, HoldersMove DEF StopDelete, Threads
      <3>2. Cardinality(Holders') = Cardinality(Holders) + 1
        BY <3>1, ThreadSets DEF Holders, Threads
      <3>3. Listener = 1 /\ Listener' = 0 /\ sem' = sem
        BY <1>21, <2>2 DEF StopDelete, Listener
      <3>4. QED
        BY <3>2, <3>3, <1>nat DEF Permits
    <2>3. QED
      BY <2>1, <2>2
  <1>22. ASSUME NEW s \in Stoppers, StopPost(s) PROVE KeptOrLost
    <2>1. s \in Holders /\ Holders' = Holders \ {s}
      BY <1>22 DEF StopPost, AfterStop, Holders, Threads, TypeOK
    <2>2. Cardinality(Holders') = Cardinality(Holders) - 1
      BY <2>1, ThreadSets DEF Holders
    <2>3. Listener' = Listener /\ sem' = sem + 1
      BY <1>22 DEF StopPost, Listener
    <2>4. QED
      BY <2>2, <2>3, <1>nat DEF Permits
  <1>23. ASSUME NEW k \in Clearers, Clear(k) PROVE KeptOrLost
    BY <1>23, SamePermits DEF Clear, Holders, Threads, TypeOK
  <1>24. CASE EnqueueTest
    BY <1>24, SamePermits DEF EnqueueTest, Holders, TypeOK
  <1>25. CASE EnqueueDrop
    BY <1>25, SamePermits DEF EnqueueDrop, Holders, TypeOK
  <1>26. CASE EnqueueInsert
    BY <1>26, SamePermits DEF EnqueueInsert, Holders, TypeOK
  <1>27. CASE HandlerGet
    BY <1>27, SamePermits DEF HandlerGet, Holders, TypeOK
  <1>28. CASE HandlerSignal
    BY <1>28, SamePermits DEF HandlerSignal, Signal, Holders, TypeOK
  <1>29. CASE PacketArrives
    BY <1>29, SamePermits DEF PacketArrives, Holders, TypeOK
  <1>30. CASE Disconnect
    BY <1>30, SamePermits DEF Disconnect, Holders, TypeOK
  <1>31. CASE Reconnect
    BY <1>31, SamePermits DEF Reconnect, Holders, TypeOK
  <1>32. CASE UNCHANGED vars
    BY <1>32, SamePermits DEF vars, Holders
  <1> QED
    BY <1>1, <1>2, <1>3, <1>4, <1>5, <1>6, <1>7, <1>8, <1>9, <1>10, <1>11, <1>12, <1>13, <1>14, <1>15, <1>16,
       <1>17, <1>18, <1>19, <1>20, <1>21, <1>22, <1>23, <1>24, <1>25, <1>26, <1>27, <1>28, <1>29, <1>30, <1>31, <1>32
    DEF Next, ReceiverStep, StopperStep, LoopStep

\* RxInv is an invariant of the specification.
LEMMA RxInvInvariant == Spec => []RxInv
  <1>1. Init => RxInv
    <2> SUFFICES ASSUME Init PROVE RxInv
      OBVIOUS
    <2>1. TypeOK
      <3>1. queue \in Seq(Packets) /\ len \in 0..MaxLen /\ sem \in 0..MaxOpen
        BY LenAssumption, OpenAssumption, EmptySeq DEF Init
      <3>2. pc \in [Threads -> ReceiverPC \cup StopperPC \cup {"clear"}]
        BY DEF Init, ReceiverPC, StopperPC
      <3>3. ptr \in [Threads -> 0..MaxRequests] /\ 0 \in 0..MaxRequests /\ 0 \in 0..MaxDrops
        BY BoundAssumption DEF Init
      <3>4. QED
        BY <3>1, <3>2, <3>3 DEF Init, TypeOK
    <2>2. QInv
      BY LenAssumption, EmptySeq DEF Init, QInv, QueueTypes, LenExact, PacketAtHand, RoomToInsert
    <2>3. PlaceInv
      BY ThreadsAssumption DEF Init, PlaceInv, Threads, ReceiverPC, StopperPC
    <2>4. Holders = {} /\ Listener = 0
      BY DEF Init, Holders, Listener
    <2>5. Permits = MaxOpen
      BY <2>4, FS_EmptySet, OpenAssumption DEF Init, Permits
    <2>6. QED
      BY <2>1, <2>2, <2>3, <2>5, OpenAssumption DEF RxInv
  <1>2. RxInv /\ [Next]_vars => RxInv'
    <2> SUFFICES ASSUME RxInv, [Next]_vars PROVE RxInv'
      OBVIOUS
    <2>1. QInv' /\ TypeOK' /\ PlaceInv'
      BY QInvStep, TypeStep, PlaceStep DEF RxInv
    <2>2. Permits' = Permits \/ Permits' = Permits - 1
      BY PermitStep DEF RxInv
    <2>3. Permits \in Nat
      BY ThreadSets DEF RxInv, TypeOK, Permits, Holders, Listener
    <2>4. QED
      BY <2>1, <2>2, <2>3, OpenAssumption DEF RxInv
  <1>3. QED
    BY <1>1, <1>2, PTL DEF Spec

\* The variables keep their types for any number of threads, requests, packets and
\* losses; in particular mio_open_requests never exceeds its initial value.
THEOREM TypeCorrect == Spec => []TypeOK
  <1>1. RxInv => TypeOK
    BY DEF RxInv
  <1>2. QED
    BY <1>1, RxInvInvariant, PTL

\* A receiver that starts to listen saw no listener, and no other has come since.
Unlistened(r) == pc[r] \in {"lstart", "lsem", "ladd", "linsert"} => registered = 0

\* Nobody but the one receiver registers a request.
LEMMA UnlistenedStep ==
  ASSUME TypeOK, PlaceInv, NEW l, Receivers = {l}, Unlistened(l), [Next]_vars
  PROVE  Unlistened(l)'
  <1> USE DEF TypeOK, PlaceInv, Unlistened, Threads, AfterStop, Goto, queueVars, threadVars, loopVars, reqVars, connVars
  <1>1. ASSUME NEW r \in Receivers, Receive(r) PROVE Unlistened(l)'
    BY <1>1 DEF Receive
  <1>2. ASSUME NEW r \in Receivers, SpuriousWake(r) PROVE Unlistened(l)'
    BY <1>2 DEF SpuriousWake
  <1>3. ASSUME NEW r \in Receivers, FastPath(r) PROVE Unlistened(l)'
    BY <1>3 DEF FastPath, DequeueOne
  <1>4. ASSUME NEW r \in Receivers, Lookup(r) PROVE Unlistened(l)'
    BY <1>4 DEF Lookup
  <1>5. ASSUME NEW r \in Receivers, LookupAgain(r) PROVE Unlistened(l)'
    BY <1>5 DEF LookupAgain
  <1>6. ASSUME NEW r \in Receivers, Outer(r) PROVE Unlistened(l)'
    BY <1>6 DEF Outer
  <1>7. ASSUME NEW r \in Receivers, Inner(r) PROVE Unlistened(l)'
    BY <1>7 DEF Inner
  <1>8. ASSUME NEW r \in Receivers, Sleep(r) PROVE Unlistened(l)'
    BY <1>8 DEF Sleep
  <1>9. ASSUME NEW r \in Receivers, Woken(r) PROVE Unlistened(l)'
    BY <1>9 DEF Woken
  <1>10. ASSUME NEW r \in Receivers, Reset(r) PROVE Unlistened(l)'
    BY <1>10 DEF Reset, SetPredicate
  <1>11. ASSUME NEW r \in Receivers, Finish(r) PROVE Unlistened(l)'
    BY <1>11 DEF Finish, DequeueOne
  <1>12. ASSUME NEW r \in Receivers, ListenStart(r) PROVE Unlistened(l)'
    BY <1>12 DEF ListenStart
  <1>13. ASSUME NEW r \in Receivers, ListenSemWait(r) PROVE Unlistened(l)'
    BY <1>13 DEF ListenSemWait
  <1>14. ASSUME NEW r \in Receivers, ListenAddCheck(r) PROVE Unlistened(l)'
    BY <1>14 DEF ListenAddCheck
  <1>15. ASSUME NEW r \in Receivers, ListenInsert(r) PROVE Unlistened(l)'
    BY <1>15 DEF ListenInsert
  <1>16. ASSUME NEW r \in Receivers, ListenHandlerAdd(r) PROVE Unlistened(l)'
    BY <1>16 DEF ListenHandlerAdd
  <1>17. ASSUME NEW r \in Receivers, ListenFlag(r) PROVE Unlistened(l)'
    BY <1>17 DEF ListenFlag
  <1>18. ASSUME NEW s \in Stoppers, StopGet(s) PROVE Unlistened(l)'
    BY <1>18, ThreadsAssumption DEF StopGet
  <1>19. ASSUME NEW s \in Stoppers, StopFlag(s) PROVE Unlistened(l)'
    BY <1>19, ThreadsAssumption DEF StopFlag
  <1>20. ASSUME NEW s \in Stoppers, StopSignal(s) PROVE Unlistened(l)'
    BY <1>20, ThreadsAssumption DEF StopSignal, Signal, SetPredicate
  <1>21. ASSUME NEW s \in Stoppers, StopDelete(s) PROVE Unlistened(l)'
    BY <1>21, ThreadsAssumption DEF StopDelete
  <1>22. ASSUME NEW s \in Stoppers, StopPost(s) PROVE Unlistened(l)'
    BY <1>22, ThreadsAssumption DEF StopPost
  <1>23. ASSUME NEW k \in Clearers, Clear(k) PROVE Unlistened(l)'
    BY <1>23, ThreadsAssumption DEF Clear, DequeueOne
  <1>24. CASE EnqueueTest
    BY <1>24 DEF EnqueueTest
  <1>25. CASE EnqueueDrop
    BY <1>25 DEF EnqueueDrop
  <1>26. CASE EnqueueInsert
    BY <1>26 DEF EnqueueInsert
  <1>27. CASE HandlerGet
    BY <1>27 DEF HandlerGet
  <1>28. CASE HandlerSignal
    BY <1>28 DEF HandlerSignal, Signal, SetPredicate
  <1>29. CASE PacketArrives
    BY <1>29 DEF PacketArrives
  <1>30. CASE Disconnect
    BY <1>30 DEF Disconnect
  <1>31. CASE Reconnect
    BY <1>31 DEF Reconnect
  <1>32. CASE UNCHANGED vars
    BY <1>32 DEF vars
  <1> QED
    BY <1>1, <1>2, <1>3, <1>4, <1>5, <1>6, <1>7, <1>8, <1>9, <1>10, <1>11, <1>12, <1>13, <1>14, <1>15, <1>16,
       <1>17, <1>18, <1>19, <1>20, <1>21, <1>22, <1>23, <1>24, <1>25, <1>26, <1>27, <1>28, <1>29, <1>30, <1>31, <1>32
    DEF Next, ReceiverStep, StopperStep, LoopStep

\* With permits for the receiver and for everyone who stops it, none is lost.
LEMMA NothingLost ==
  ASSUME RxInv, NEW l, Receivers = {l}, Unlistened(l), Permits = MaxOpen,
         MaxOpen > Cardinality(Stoppers) + 1
  PROVE  ~Loses(l)
  <1>1. ~(ListenInsert(l) /\ registered # 0)
    BY DEF Unlistened, ListenInsert, Goto
  <1>2. ASSUME ListenAddCheck(l), sem <= 0 PROVE FALSE
    <2>1. registered = 0 /\ sem = 0
      BY <1>2, OpenAssumption DEF Unlistened, ListenAddCheck, Goto, RxInv, TypeOK
    <2>2. Holders \subseteq Stoppers \cup {l}
      BY DEF Holders, RxInv, PlaceInv, StopperPC, Threads
    <2>3. Cardinality(Stoppers \cup {l}) = Cardinality(Stoppers) + 1
      BY ThreadSets, ThreadsAssumption DEF Threads
    <2>4. Cardinality(Holders) <= Cardinality(Stoppers \cup {l})
      BY <2>2, ThreadsAssumption, FS_Subset DEF Threads
    <2>5. Cardinality(Holders) \in Nat /\ Cardinality(Stoppers) \in Nat
      BY ThreadSets DEF Holders, Threads
    <2>6. Permits = Cardinality(Holders)
      BY <2>1, <2>5 DEF Permits, Listener
    <2>7. QED
      BY <2>3, <2>4, <2>5, <2>6, OpenAssumption
  <1>3. QED
    BY <1>1, <1>2 DEF Loses

\* Listening costs exactly one permit of mio_open_requests, for any number of threads
\* that stop the one receiver at any time, as long as there are more permits than calls.
THEOREM ListenerCostsOnePermit ==
  ASSUME NEW l, Receivers = {l}, MaxOpen > Cardinality(Stoppers) + 1
  PROVE  Spec => []PermitPerListener
  <1> DEFINE Inv == Unlistened(l) /\ Permits = MaxOpen
  <1>1. Init => Inv
    <2> SUFFICES ASSUME Init PROVE Inv
      OBVIOUS
    <2>1. Holders = {} /\ Listener = 0
      BY DEF Init, Holders, Listener
    <2>2. Permits = MaxOpen
      BY <2>1, FS_EmptySet, OpenAssumption DEF Init, Permits
    <2>3. QED
      BY <2>2 DEF Init, Unlistened
  <1>2. RxInv /\ Inv /\ [Next]_vars => Inv'
    <2> SUFFICES ASSUME RxInv, Inv, [Next]_vars PROVE Inv'
      OBVIOUS
    <2>1. Unlistened(l)'
      BY UnlistenedStep DEF RxInv
    <2>2. Permits' = Permits
      BY PermitStep, NothingLost DEF RxInv
    <2>3. QED
      BY <2>1, <2>2
  <1>3. RxInv /\ Inv => PermitPerListener
    <2> SUFFICES ASSUME RxInv, Inv,
                        \A t \in Threads : pc[t] \in {"idle", "wait", "stop", "clear", "done"}
                 PROVE  sem + Cardinality({registered} \ {0}) = MaxOpen
      BY DEF PermitPerListener
    <2>1. Holders = {}
      BY DEF Holders
    <2>2. sem + Listener = MaxOpen
      BY <2>1, FS_EmptySet DEF Permits, Listener, RxInv, TypeOK
    <2>3. Cardinality({registered} \ {0}) = Listener
      <3>1. CASE registered = 0
        BY <3>1, FS_EmptySet DEF Listener
      <3>2. CASE registered # 0
        <4>1. {registered} \ {0} = {registered}
          BY <3>2
        <4>2. QED
          BY <3>2, <4>1, FS_Singleton DEF Listener
      <3>3. QED
        BY <3>1, <3>2
    <2>4. QED
      BY <2>2, <2>3
  <1>4. QED
    BY <1>1, <1>2, <1>3, RxInvInvariant, PTL DEF Spec
===============================================================================
