--------------------------- MODULE MioRequestProofs ---------------------------
(***************************************************************************)
(* Proofs about MioRequest for every set of calls, every number of permits *)
(* and any number of connection losses: type correctness, the bounds on    *)
(* the permits of mio_open_requests and on the request table, what a call  *)
(* leaves behind when it returns, and, while the connection holds, that    *)
(* success means an answer and that no released memory is touched.         *)
(***************************************************************************)
EXTENDS MioRequest, FiniteSetTheorems, TLAPS

\* A call that can still run the retry loop has attempts left.
AttemptInv ==
  \A c \in Calls :
    pc[c] \in {"start", "add", "insert", "idadd", "send", "connlock", "connwait", "connwoken"}
      => attempts[c] < SendRetries

\* Who holds a permit: no call before sem_wait, every call between sem_wait and
\* its entry in the table, every entry, every call between HASH_DEL and sem_post.
PermitHolders ==
  \A c \in Calls :
    /\ pc[c] = "start" => c \notin permit
    /\ pc[c] \in {"add", "insert", "post"} => c \in permit /\ c \notin table
    /\ c \in table => c \in permit

PermitCount == sem + Cardinality(permit) = MaxOpen

\* The calls that passed the sem_getvalue test and have not been removed again.
Registered == table \cup {c \in Calls : pc[c] = "insert"}

RegisteredBelowCapacity == Cardinality(Registered) < MaxOpen

IInv == TypeOK /\ AttemptInv /\ PermitHolders /\ PermitCount /\ RegisteredBelowCapacity

-------------------------------------------------------------------------------
\* Every subset of the calls is finite, and its size is a natural number.
LEMMA SubsetsFinite ==
  ASSUME NEW S \in SUBSET Calls
  PROVE  IsFiniteSet(S) /\ Cardinality(S) \in Nat
  BY CallsAssumption, FS_Subset, FS_CardinalityType

\* The size of a set of calls is monotone.
LEMMA SubsetSize ==
  ASSUME NEW S \in SUBSET Calls, NEW T \in SUBSET S
  PROVE  Cardinality(T) <= Cardinality(S)
  BY SubsetsFinite, FS_Subset

\* A call that was not in a set of calls makes it larger by one.
LEMMA AddOne ==
  ASSUME NEW S \in SUBSET Calls, NEW c \in Calls, c \notin S
  PROVE  Cardinality(S \cup {c}) = Cardinality(S) + 1
  BY SubsetsFinite, FS_AddElement

\* A call that was in a set of calls leaves it smaller by one.
LEMMA RemoveOne ==
  ASSUME NEW S \in SUBSET Calls, NEW c \in S
  PROVE  Cardinality(S \ {c}) = Cardinality(S) - 1
  BY SubsetsFinite, FS_RemoveElement

-------------------------------------------------------------------------------
\* The initial states satisfy the inductive invariant.
LEMMA InitInv == Init => IInv
  <1> SUFFICES ASSUME Init PROVE IInv
    OBVIOUS
  <1> USE MaxOpenAssumption, RetriesAssumption DEF Init
  <1>1. TypeOK
    <2>1. /\ pc \in [Calls -> PC]
          /\ outcome \in [Calls -> Outcome]
          /\ stanza \in [Calls -> {"none", "queue", "server", "reply"}]
      BY DEF PC, Outcome
    <2>2. /\ attempts \in [Calls -> 0..SendRetries]
          /\ sem \in 0..MaxOpen
          /\ drops \in 0..MaxDrops
      OBVIOUS
    <2>3. QED
      BY <2>1, <2>2 DEF TypeOK
  <1>2. AttemptInv /\ PermitHolders
    BY DEF AttemptInv, PermitHolders
  <1>3. PermitCount /\ RegisteredBelowCapacity
    <2>1. Registered = {}
      BY DEF Registered
    <2>2. Cardinality({}) = 0
      BY FS_EmptySet
    <2>3. QED
      BY <2>1, <2>2 DEF PermitCount, RegisteredBelowCapacity
  <1>4. QED
    BY <1>1, <1>2, <1>3 DEF IInv

\* Every step keeps the types, given what is known of the permits.
LEMMA TypeStep ==
  ASSUME TypeOK, AttemptInv, PermitHolders, PermitCount, [Next]_vars
  PROVE  TypeOK'
  <1> USE DEF TypeOK, PC, Outcome, Goto, Decide, callVars, reqVars, connVars, loopVars
  <1>1. ASSUME NEW c \in Calls, SemWait(c) PROVE TypeOK'
    BY <1>1, MaxOpenAssumption DEF SemWait
  <1>2. ASSUME NEW c \in Calls, AddCheck(c) PROVE TypeOK'
    BY <1>2 DEF AddCheck
  <1>3. ASSUME NEW c \in Calls, TableInsert(c) PROVE TypeOK'
    BY <1>3 DEF TableInsert
  <1>4. ASSUME NEW c \in Calls, IdHandlerAdd(c) PROVE TypeOK'
    BY <1>4 DEF IdHandlerAdd
  <1>5. ASSUME NEW c \in Calls, SendCheck(c) PROVE TypeOK'
    <2>1. attempts[c] + 1 \in 0..SendRetries
      BY <1>5, RetriesAssumption DEF SendCheck, AttemptInv
    <2>2. QED
      BY <1>5, <2>1 DEF SendCheck
  <1>6. ASSUME NEW c \in Calls, SendRaw(c) PROVE TypeOK'
    BY <1>6 DEF SendRaw
  <1>7. ASSUME NEW c \in Calls, ConnLock(c) PROVE TypeOK'
    BY <1>7 DEF ConnLock
  <1>8. ASSUME NEW c \in Calls, ConnWake(c) PROVE TypeOK'
    BY <1>8 DEF ConnWake
  <1>9. ASSUME NEW c \in Calls, CheckPredicate(c) PROVE TypeOK'
    BY <1>9 DEF CheckPredicate
  <1>10. ASSUME NEW c \in Calls, Sleep(c) PROVE TypeOK'
    BY <1>10 DEF Sleep
  <1>11. ASSUME NEW c \in Calls, Woken(c) PROVE TypeOK'
    BY <1>11 DEF Woken
  <1>12. ASSUME NEW c \in Calls, IdHandlerDelete(c) PROVE TypeOK'
    BY <1>12 DEF IdHandlerDelete
  <1>13. ASSUME NEW c \in Calls, RequestDelete(c) PROVE TypeOK'
    BY <1>13 DEF RequestDelete
  <1>14. ASSUME NEW c \in Calls, SemPost(c) PROVE TypeOK'
    <2>1. c \in permit
      BY <1>14 DEF SemPost, PermitHolders
    <2>2. Cardinality(permit \ {c}) = Cardinality(permit) - 1 /\ Cardinality(permit \ {c}) \in Nat
      BY <2>1, RemoveOne, SubsetsFinite
    <2>3. sem + 1 \in 0..MaxOpen
      BY <2>2, SubsetsFinite, MaxOpenAssumption DEF PermitCount
    <2>4. QED
      BY <1>14, <2>3 DEF SemPost
  <1>15. ASSUME NEW c \in Calls, ConnTimeout(c) PROVE TypeOK'
    BY <1>15 DEF ConnTimeout
  <1>16. ASSUME NEW c \in Calls, RequestTimeout(c) PROVE TypeOK'
    BY <1>16 DEF RequestTimeout
  <1>17. ASSUME NEW c \in Calls, SpuriousWake(c) PROVE TypeOK'
    BY <1>17 DEF SpuriousWake
  <1>18. ASSUME NEW c \in Calls, ServerReply(c) PROVE TypeOK'
    BY <1>18 DEF ServerReply
  <1>19. ASSUME NEW c \in Calls, LoopRecv(c) PROVE TypeOK'
    BY <1>19 DEF LoopRecv
  <1>20. ASSUME NEW c \in Calls, LoopCleanSignal(c) PROVE TypeOK'
    BY <1>20 DEF LoopCleanSignal, Signal
  <1>21. CASE LoopRun
    BY <1>21 DEF LoopRun
  <1>22. CASE LoopGetRequest
    BY <1>22 DEF LoopGetRequest
  <1>23. CASE LoopSignal
    BY <1>23 DEF LoopSignal, Signal
  <1>24. CASE LoopDropHandler
    BY <1>24 DEF LoopDropHandler
  <1>25. CASE LoopDisconnect
    <2>1. drops + 1 \in 0..MaxDrops
      BY <1>25, RetriesAssumption DEF LoopDisconnect
    <2>2. stanza' \in [Calls -> {"none", "queue", "server", "reply"}]
      BY <1>25 DEF LoopDisconnect
    <2>3. QED
      BY <1>25, <2>1, <2>2 DEF LoopDisconnect
  <1>26. CASE LoopConnected
    BY <1>26 DEF LoopConnected
  <1>27. CASE LoopAuthenticated
    BY <1>27 DEF LoopAuthenticated
  <1>28. CASE LoopCleanFree
    BY <1>28 DEF LoopCleanFree
  <1>29. CASE LoopBroadcast
    BY <1>29 DEF LoopBroadcast
  <1>30. CASE LoopUnlock
    BY <1>30 DEF LoopUnlock
  <1>31. CASE UNCHANGED vars
    BY <1>31 DEF vars
  <1> QED
    BY <1>1, <1>2, <1>3, <1>4, <1>5, <1>6, <1>7, <1>8, <1>9, <1>10, <1>11, <1>12, <1>13, <1>14, <1>15, <1>16, <1>17, <1>18, <1>19, <1>20, <1>21, <1>22, <1>23, <1>24, <1>25, <1>26, <1>27, <1>28, <1>29, <1>30, <1>31
    DEF Next, CallStep, LoopStep

\* Every step keeps the attempts of the calls in the retry loop below the limit.
LEMMA AttemptStep ==
  ASSUME TypeOK, AttemptInv, [Next]_vars
  PROVE  AttemptInv'
  <1> USE DEF TypeOK, AttemptInv, Goto, Decide, callVars, reqVars, connVars, loopVars
  <1>1. ASSUME NEW c \in Calls, SemWait(c) PROVE AttemptInv'
    BY <1>1 DEF SemWait
  <1>2. ASSUME NEW c \in Calls, AddCheck(c) PROVE AttemptInv'
    BY <1>2 DEF AddCheck
  <1>3. ASSUME NEW c \in Calls, TableInsert(c) PROVE AttemptInv'
    BY <1>3 DEF TableInsert
  <1>4. ASSUME NEW c \in Calls, IdHandlerAdd(c) PROVE AttemptInv'
    BY <1>4 DEF IdHandlerAdd
  <1>5. ASSUME NEW c \in Calls, SendCheck(c) PROVE AttemptInv'
    BY <1>5, RetriesAssumption DEF SendCheck
  <1>6. ASSUME NEW c \in Calls, SendRaw(c) PROVE AttemptInv'
    BY <1>6 DEF SendRaw
  <1>7. ASSUME NEW c \in Calls, ConnLock(c) PROVE AttemptInv'
    BY <1>7 DEF ConnLock
  <1>8. ASSUME NEW c \in Calls, ConnWake(c) PROVE AttemptInv'
    BY <1>8 DEF ConnWake
  <1>9. ASSUME NEW c \in Calls, CheckPredicate(c) PROVE AttemptInv'
    BY <1>9 DEF CheckPredicate
  <1>10. ASSUME NEW c \in Calls, Sleep(c) PROVE AttemptInv'
    BY <1>10 DEF Sleep
  <1>11. ASSUME NEW c \in Calls, Woken(c) PROVE AttemptInv'
    BY <1>11 DEF Woken
  <1>12. ASSUME NEW c \in Calls, IdHandlerDelete(c) PROVE AttemptInv'
    BY <1>12 DEF IdHandlerDelete
  <1>13. ASSUME NEW c \in Calls, RequestDelete(c) PROVE AttemptInv'
    BY <1>13 DEF RequestDelete
  <1>14. ASSUME NEW c \in Calls, SemPost(c) PROVE AttemptInv'
    BY <1>14 DEF SemPost
  <1>15. ASSUME NEW c \in Calls,
                ConnTimeout(c) \/ RequestTimeout(c) \/ SpuriousWake(c) \/ ServerReply(c)
         PROVE  AttemptInv'
    BY <1>15 DEF ConnTimeout, RequestTimeout, SpuriousWake, ServerReply
  <1>16. CASE LoopRun \/ LoopGetRequest \/ LoopDropHandler \/ LoopDisconnect \/ LoopConnected
    BY <1>16 DEF LoopRun, LoopGetRequest, LoopDropHandler, LoopDisconnect, LoopConnected
  <1>17. CASE LoopAuthenticated \/ LoopCleanFree \/ LoopUnlock
    BY <1>17 DEF LoopAuthenticated, LoopCleanFree, LoopUnlock
  <1>18. CASE LoopSignal \/ LoopBroadcast
    BY <1>18 DEF LoopSignal, LoopBroadcast, Signal
  <1>19. ASSUME NEW c \in Calls, LoopRecv(c) \/ LoopCleanSignal(c) PROVE AttemptInv'
    BY <1>19 DEF LoopRecv, LoopCleanSignal, Signal
  <1>20. CASE UNCHANGED vars
    BY <1>20 DEF vars
  <1> QED
    BY <1>1, <1>2, <1>3, <1>4, <1>5, <1>6, <1>7, <1>8, <1>9, <1>10,
       <1>11, <1>12, <1>13, <1>14, <1>15, <1>16, <1>17, <1>18, <1>19, <1>20
    DEF Next, CallStep, LoopStep

\* Every step keeps track of who holds a permit.
LEMMA HolderStep ==
  ASSUME TypeOK, PermitHolders, [Next]_vars
  PROVE  PermitHolders'
  <1> USE DEF TypeOK, PermitHolders, Goto, Decide, callVars, reqVars, connVars, loopVars
  <1>1. ASSUME NEW c \in Calls, SemWait(c) PROVE PermitHolders'
    BY <1>1 DEF SemWait
  <1>2. ASSUME NEW c \in Calls, AddCheck(c) PROVE PermitHolders'
    BY <1>2 DEF AddCheck
  <1>3. ASSUME NEW c \in Calls, TableInsert(c) PROVE PermitHolders'
    BY <1>3 DEF TableInsert
  <1>4. ASSUME NEW c \in Calls, IdHandlerAdd(c) PROVE PermitHolders'
    BY <1>4 DEF IdHandlerAdd
  <1>5. ASSUME NEW c \in Calls, SendCheck(c) PROVE PermitHolders'
    BY <1>5 DEF SendCheck
  <1>6. ASSUME NEW c \in Calls, SendRaw(c) PROVE PermitHolders'
    BY <1>6 DEF SendRaw
  <1>7. ASSUME NEW c \in Calls, ConnLock(c) PROVE PermitHolders'
    BY <1>7 DEF ConnLock
  <1>8. ASSUME NEW c \in Calls, ConnWake(c) PROVE PermitHolders'
    BY <1>8 DEF ConnWake
  <1>9. ASSUME NEW c \in Calls, CheckPredicate(c) PROVE PermitHolders'
    BY <1>9 DEF CheckPredicate
  <1>10. ASSUME NEW c \in Calls, Sleep(c) PROVE PermitHolders'
    BY <1>10 DEF Sleep
  <1>11. ASSUME NEW c \in Calls, Woken(c) PROVE PermitHolders'
    BY <1>11 DEF Woken
  <1>12. ASSUME NEW c \in Calls, IdHandlerDelete(c) PROVE PermitHolders'
    BY <1>12 DEF IdHandlerDelete
  <1>13. ASSUME NEW c \in Calls, RequestDelete(c) PROVE PermitHolders'
    BY <1>13 DEF RequestDelete
  <1>14. ASSUME NEW c \in Calls, SemPost(c) PROVE PermitHolders'
    BY <1>14 DEF SemPost
  <1>15. ASSUME NEW c \in Calls,
                ConnTimeout(c) \/ RequestTimeout(c) \/ SpuriousWake(c) \/ ServerReply(c)
         PROVE  PermitHolders'
    BY <1>15 DEF ConnTimeout, RequestTimeout, SpuriousWake, ServerReply
  <1>16. CASE LoopRun \/ LoopGetRequest \/ LoopDropHandler \/ LoopDisconnect \/ LoopConnected
    BY <1>16 DEF LoopRun, LoopGetRequest, LoopDropHandler, LoopDisconnect, LoopConnected
  <1>17. CASE LoopAuthenticated \/ LoopCleanFree \/ LoopUnlock
    BY <1>17 DEF LoopAuthenticated, LoopCleanFree, LoopUnlock
  <1>18. CASE LoopSignal \/ LoopBroadcast
    BY <1>18 DEF LoopSignal, LoopBroadcast, Signal
  <1>19. ASSUME NEW c \in Calls, LoopRecv(c) \/ LoopCleanSignal(c) PROVE PermitHolders'
    BY <1>19 DEF LoopRecv, LoopCleanSignal, Signal
  <1>20. CASE UNCHANGED vars
    BY <1>20 DEF vars
  <1> QED
    BY <1>1, <1>2, <1>3, <1>4, <1>5, <1>6, <1>7, <1>8, <1>9, <1>10,
       <1>11, <1>12, <1>13, <1>14, <1>15, <1>16, <1>17, <1>18, <1>19, <1>20
    DEF Next, CallStep, LoopStep

\* sem_wait and sem_post move one permit; no other step touches either side.
LEMMA CountStep ==
  ASSUME TypeOK, PermitHolders, PermitCount, [Next]_vars
  PROVE  PermitCount'
  <1>1. ASSUME NEW c \in Calls, SemWait(c) PROVE PermitCount'
    <2>1. c \notin permit
      BY <1>1 DEF SemWait, Goto, PermitHolders
    <2>2. Cardinality(permit \cup {c}) = Cardinality(permit) + 1
      BY <2>1, AddOne DEF TypeOK
    <2>3. sem \in Int /\ Cardinality(permit) \in Int /\ MaxOpen \in Int
      BY SubsetsFinite, MaxOpenAssumption DEF TypeOK
    <2>4. QED
      BY <1>1, <2>2, <2>3 DEF SemWait, PermitCount
  <1>2. ASSUME NEW c \in Calls, SemPost(c) PROVE PermitCount'
    <2>1. c \in permit
      BY <1>2 DEF SemPost, Goto, PermitHolders
    <2>2. Cardinality(permit \ {c}) = Cardinality(permit) - 1
      BY <2>1, RemoveOne DEF TypeOK
    <2>3. sem \in Int /\ Cardinality(permit) \in Int /\ MaxOpen \in Int
      BY SubsetsFinite, MaxOpenAssumption DEF TypeOK
    <2>4. QED
      BY <1>2, <2>2, <2>3 DEF SemPost, PermitCount
  <1>3. ASSUME UNCHANGED <<sem, permit>> PROVE PermitCount'
    BY <1>3 DEF PermitCount
  <1>4. ASSUME NEW c \in Calls,
               CallStep(c) \/ ConnTimeout(c) \/ RequestTimeout(c) \/ SpuriousWake(c) \/ ServerReply(c)
        PROVE  SemWait(c) \/ SemPost(c) \/ UNCHANGED <<sem, permit>>
    BY <1>4 DEF CallStep, AddCheck, TableInsert, IdHandlerAdd, SendCheck, SendRaw, ConnLock,
       ConnWake, CheckPredicate, Sleep, Woken, IdHandlerDelete, RequestDelete, ConnTimeout,
       RequestTimeout, SpuriousWake, ServerReply, reqVars
  <1>5. ASSUME LoopStep \/ LoopDisconnect \/ UNCHANGED vars
        PROVE  UNCHANGED <<sem, permit>>
    BY <1>5 DEF LoopStep, LoopRun, LoopGetRequest, LoopSignal, LoopDropHandler, LoopDisconnect,
       LoopConnected, LoopAuthenticated, LoopCleanFree, LoopBroadcast, LoopUnlock, LoopRecv,
       LoopCleanSignal, reqVars, vars
  <1> QED
    BY <1>1, <1>2, <1>3, <1>4, <1>5 DEF Next

\* The only step that adds to Registered is the sem_getvalue test, and it does
\* so with a permit still free.
LEMMA CapacityStep ==
  ASSUME TypeOK, PermitHolders, PermitCount, RegisteredBelowCapacity, [Next]_vars
  PROVE  RegisteredBelowCapacity'
  <1>1. Registered \in SUBSET Calls
    BY DEF Registered, TypeOK
  <1>2. ASSUME Registered' \subseteq Registered PROVE RegisteredBelowCapacity'
    <2>1. Cardinality(Registered') <= Cardinality(Registered)
      BY <1>1, <1>2, SubsetSize
    <2>2. Cardinality(Registered') \in Nat /\ Cardinality(Registered) \in Nat
      BY <1>1, <1>2, SubsetsFinite
    <2>3. QED
      BY <2>1, <2>2, MaxOpenAssumption DEF RegisteredBelowCapacity
  <1>3. ASSUME NEW c \in Calls, AddCheck(c), sem > 0 PROVE RegisteredBelowCapacity'
    <2>1. Registered' \subseteq permit
      BY <1>3 DEF Registered, AddCheck, Goto, PermitHolders, TypeOK, reqVars
    <2>2. permit \in SUBSET Calls
      BY DEF TypeOK
    <2>3. Cardinality(Registered') <= Cardinality(permit)
      BY <2>1, <2>2, SubsetSize
    <2>4. Cardinality(Registered') \in Nat /\ Cardinality(permit) \in Nat /\ sem \in Int
      BY <2>1, <2>2, SubsetsFinite DEF TypeOK
    <2>5. Cardinality(Registered') < MaxOpen
      BY <1>3, <2>3, <2>4, MaxOpenAssumption DEF PermitCount
    <2>6. QED
      BY <1>3, <2>5 DEF RegisteredBelowCapacity, AddCheck, reqVars
  <1> USE DEF Registered, TypeOK, Goto, callVars, reqVars, connVars, loopVars
  <1>4. ASSUME NEW c \in Calls, CallStep(c), ~(AddCheck(c) /\ sem > 0)
        PROVE  Registered' \subseteq Registered
    <2>1. CASE SemWait(c) \/ AddCheck(c) \/ TableInsert(c) \/ IdHandlerAdd(c)
      BY <2>1, <1>4 DEF SemWait, AddCheck, TableInsert, IdHandlerAdd
    <2>2. CASE SendCheck(c) \/ SendRaw(c) \/ ConnLock(c) \/ ConnWake(c)
      BY <2>2 DEF SendCheck, SendRaw, ConnLock, ConnWake
    <2>3. CASE CheckPredicate(c) \/ Sleep(c) \/ Woken(c)
      BY <2>3 DEF CheckPredicate, Sleep, Woken
    <2>4. CASE IdHandlerDelete(c) \/ RequestDelete(c) \/ SemPost(c)
      BY <2>4 DEF IdHandlerDelete, RequestDelete, SemPost
    <2>5. QED
      BY <1>4, <2>1, <2>2, <2>3, <2>4 DEF CallStep
  <1>5. ASSUME NEW c \in Calls,
               ConnTimeout(c) \/ RequestTimeout(c) \/ SpuriousWake(c) \/ ServerReply(c)
        PROVE  Registered' \subseteq Registered
    BY <1>5 DEF ConnTimeout, RequestTimeout, SpuriousWake, ServerReply
  <1>6. ASSUME LoopStep \/ LoopDisconnect PROVE Registered' \subseteq Registered
    <2>1. CASE LoopRun \/ LoopGetRequest \/ LoopDropHandler \/ LoopDisconnect \/ LoopConnected
      BY <2>1 DEF LoopRun, LoopGetRequest, LoopDropHandler, LoopDisconnect, LoopConnected
    <2>2. CASE LoopAuthenticated \/ LoopCleanFree \/ LoopUnlock
      BY <2>2 DEF LoopAuthenticated, LoopCleanFree, LoopUnlock
    <2>3. CASE LoopSignal \/ LoopBroadcast
      BY <2>3 DEF LoopSignal, LoopBroadcast, Signal
    <2>4. ASSUME NEW c \in Calls, LoopRecv(c) \/ LoopCleanSignal(c)
          PROVE  Registered' \subseteq Registered
      BY <2>4 DEF LoopRecv, LoopCleanSignal, Signal
    <2>5. QED
      BY <1>6, <2>1, <2>2, <2>3, <2>4 DEF LoopStep
  <1>7. ASSUME UNCHANGED vars PROVE Registered' \subseteq Registered
    BY <1>7 DEF vars
  <1> QED
    BY <1>2, <1>3, <1>4, <1>5, <1>6, <1>7 DEF Next

-------------------------------------------------------------------------------
(* What calls leave behind and what answers them *)

\* While the connection has held, nothing has been cleaned up, and the event loop has a
\* call at hand only inside a handler.
HeldInv ==
  /\ drops = 0 => authenticated /\ lpc \notin {"cleanup", "free"} /\ freed = {}
  /\ lpc \in {"idle", "recv", "cleanup"} => cur = NoOne

\* What a call has left behind on its way out, from HASH_DEL and the error paths on.
LeftInv ==
  \A c \in Calls \ freed :
    /\ pc[c] \in {"post", "done"} /\ outcome[c] # "MIO_ERROR_PREDICATE" => c \notin table
    /\ pc[c] \in {"del", "post", "done"} /\ outcome[c] \notin {"MIO_OK", "MIO_ERROR_PREDICATE"}
         => c \notin id_handlers

\* A call that was woken has its answer.
WokenInv ==
  drops = 0 => \A c \in Calls : pc[c] = "rwoken" \/ outcome[c] = "MIO_OK" => c \in answered

\* A call that missed a deadline is on its way out.
LateInv ==
  \A c \in Calls : outcome[c] = "MIO_ERROR_TIMEOUT" => pc[c] \in {"iddel", "rto", "del", "post", "done"}

\* No deadline has passed and the connection has held.
InTime == drops = 0 /\ (\A c \in Calls : outcome[c] # "MIO_ERROR_TIMEOUT")

\* Then a call's reply is handled once: the stanza goes out once, and the call is not
\* released before the handler that has it at hand has signalled it.
HandledOnce(c) ==
  /\ pc[c] \notin {"connlock", "connwait", "connwoken", "iddel", "rto"}
  /\ pc[c] \in {"start", "add", "insert", "idadd", "send", "raw"}
       => stanza[c] = "none" /\ c \notin answered /\ cur # c
  /\ c \in answered => stanza[c] = "none" /\ (cur = c => lpc \notin {"get", "signal"})
  /\ cur = c => stanza[c] = "none" /\ c \in id_handlers
  /\ pc[c] \in {"rwoken", "del", "post"} => c \in answered
  /\ pc[c] = "done" => outcome[c] = "MIO_ERROR_PREDICATE" \/ c \in answered

Untouched == dangling = {} /\ \A c \in Calls : HandledOnce(c)

TouchInv == InTime => Untouched

\* Until the connection is lost the clean-up does not run.
LEMMA HeldStep ==
  ASSUME TypeOK, HeldInv, [Next]_vars
  PROVE  HeldInv'
  <1> USE DEF TypeOK, HeldInv, Goto, Decide, callVars, reqVars, connVars, loopVars
  <1>1. ASSUME NEW c \in Calls, SemWait(c) PROVE HeldInv'
    BY <1>1 DEF SemWait
  <1>2. ASSUME NEW c \in Calls, AddCheck(c) PROVE HeldInv'
    BY <1>2 DEF AddCheck
  <1>3. ASSUME NEW c \in Calls, TableInsert(c) PROVE HeldInv'
    BY <1>3 DEF TableInsert
  <1>4. ASSUME NEW c \in Calls, IdHandlerAdd(c) PROVE HeldInv'
    BY <1>4 DEF IdHandlerAdd
  <1>5. ASSUME NEW c \in Calls, SendCheck(c) PROVE HeldInv'
    BY <1>5 DEF SendCheck
  <1>6. ASSUME NEW c \in Calls, SendRaw(c) PROVE HeldInv'
    BY <1>6 DEF SendRaw
  <1>7. ASSUME NEW c \in Calls, ConnLock(c) PROVE HeldInv'
    BY <1>7 DEF ConnLock
  <1>8. ASSUME NEW c \in Calls, ConnWake(c) PROVE HeldInv'
    BY <1>8 DEF ConnWake
  <1>9. ASSUME NEW c \in Calls, CheckPredicate(c) PROVE HeldInv'
    BY <1>9 DEF CheckPredicate
  <1>10. ASSUME NEW c \in Calls, Sleep(c) PROVE HeldInv'
    BY <1>10 DEF Sleep
  <1>11. ASSUME NEW c \in Calls, Woken(c) PROVE HeldInv'
    BY <1>11 DEF Woken
  <1>12. ASSUME NEW c \in Calls, IdHandlerDelete(c) PROVE HeldInv'
    BY <1>12 DEF IdHandlerDelete
  <1>13. ASSUME NEW c \in Calls, RequestDelete(c) PROVE HeldInv'
    BY <1>13 DEF RequestDelete
  <1>14. ASSUME NEW c \in Calls, SemPost(c) PROVE HeldInv'
    BY <1>14 DEF SemPost
  <1>15. ASSUME NEW c \in Calls, ConnTimeout(c) \/ RequestTimeout(c) PROVE HeldInv'
    BY <1>15 DEF ConnTimeout, RequestTimeout
  <1>16. ASSUME NEW c \in Calls, SpuriousWake(c) PROVE HeldInv'
    BY <1>16 DEF SpuriousWake
  <1>17. ASSUME NEW c \in Calls, ServerReply(c) PROVE HeldInv'
    BY <1>17 DEF ServerReply
  <1>18. CASE LoopRun
    BY <1>18 DEF LoopRun
  <1>19. CASE LoopGetRequest
    BY <1>19 DEF LoopGetRequest
  <1>20. CASE LoopDropHandler
    BY <1>20 DEF LoopDropHandler
  <1>21. CASE LoopDisconnect
    BY <1>21 DEF LoopDisconnect
  <1>22. CASE LoopConnected \/ LoopAuthenticated \/ LoopUnlock
    BY <1>22 DEF LoopConnected, LoopAuthenticated, LoopUnlock
  <1>23. CASE LoopCleanFree
    BY <1>23 DEF LoopCleanFree
  <1>24. CASE LoopSignal
    BY <1>24 DEF LoopSignal, Signal
  <1>25. CASE LoopBroadcast
    BY <1>25 DEF LoopBroadcast
  <1>26. ASSUME NEW c \in Calls, LoopRecv(c) PROVE HeldInv'
    BY <1>26 DEF LoopRecv
  <1>27. ASSUME NEW c \in Calls, LoopCleanSignal(c) PROVE HeldInv'
    BY <1>27 DEF LoopCleanSignal, Signal
  <1>28. CASE UNCHANGED vars
    BY <1>28 DEF vars
  <1> QED
    BY <1>1, <1>2, <1>3, <1>4, <1>5, <1>6, <1>7, <1>8, <1>9, <1>10, <1>11, <1>12, <1>13, <1>14,
       <1>15, <1>16, <1>17, <1>18, <1>19, <1>20, <1>21, <1>22, <1>23, <1>24, <1>25, <1>26, <1>27, <1>28
    DEF Next, CallStep, LoopStep

\* A call takes its entry and its id handler with it, unless they are gone with its request.
LEMMA LeftStep ==
  ASSUME TypeOK, PermitHolders, LeftInv, [Next]_vars
  PROVE  LeftInv'
  <1> USE DEF TypeOK, PermitHolders, LeftInv, Goto, Decide, callVars, reqVars, connVars, loopVars
  <1>1. ASSUME NEW c \in Calls, SemWait(c) PROVE LeftInv'
    BY <1>1 DEF SemWait
  <1>2. ASSUME NEW c \in Calls, AddCheck(c) PROVE LeftInv'
    BY <1>2 DEF AddCheck
  <1>3. ASSUME NEW c \in Calls, TableInsert(c) PROVE LeftInv'
    BY <1>3 DEF TableInsert
  <1>4. ASSUME NEW c \in Calls, IdHandlerAdd(c) PROVE LeftInv'
    BY <1>4 DEF IdHandlerAdd
  <1>5. ASSUME NEW c \in Calls, SendCheck(c) PROVE LeftInv'
    BY <1>5 DEF SendCheck
  <1>6. ASSUME NEW c \in Calls, SendRaw(c) PROVE LeftInv'
    BY <1>6 DEF SendRaw
  <1>7. ASSUME NEW c \in Calls, ConnLock(c) PROVE LeftInv'
    BY <1>7 DEF ConnLock
  <1>8. ASSUME NEW c \in Calls, ConnWake(c) PROVE LeftInv'
    BY <1>8 DEF ConnWake
  <1>9. ASSUME NEW c \in Calls, CheckPredicate(c) PROVE LeftInv'
    BY <1>9 DEF CheckPredicate
  <1>10. ASSUME NEW c \in Calls, Sleep(c) PROVE LeftInv'
    BY <1>10 DEF Sleep
  <1>11. ASSUME NEW c \in Calls, Woken(c) PROVE LeftInv'
    BY <1>11 DEF Woken
  <1>12. ASSUME NEW c \in Calls, IdHandlerDelete(c) PROVE LeftInv'
    BY <1>12 DEF IdHandlerDelete
  <1>13. ASSUME NEW c \in Calls, RequestDelete(c) PROVE LeftInv'
    BY <1>13 DEF RequestDelete
  <1>14. ASSUME NEW c \in Calls, SemPost(c) PROVE LeftInv'
    BY <1>14 DEF SemPost
  <1>15. ASSUME NEW c \in Calls, ConnTimeout(c) \/ RequestTimeout(c) PROVE LeftInv'
    BY <1>15 DEF ConnTimeout, RequestTimeout
  <1>16. ASSUME NEW c \in Calls, SpuriousWake(c) PROVE LeftInv'
    BY <1>16 DEF SpuriousWake
  <1>17. ASSUME NEW c \in Calls, ServerReply(c) PROVE LeftInv'
    BY <1>17 DEF ServerReply
  <1>18. CASE LoopRun
    BY <1>18 DEF LoopRun
  <1>19. CASE LoopGetRequest
    BY <1>19 DEF LoopGetRequest
  <1>20. CASE LoopDropHandler
    BY <1>20 DEF LoopDropHandler
  <1>21. CASE LoopDisconnect
    BY <1>21 DEF LoopDisconnect
  <1>22. CASE LoopConnected \/ LoopAuthenticated \/ LoopUnlock
    BY <1>22 DEF LoopConnected, LoopAuthenticated, LoopUnlock
  <1>23. CASE LoopCleanFree
    BY <1>23 DEF LoopCleanFree
  <1>24. CASE LoopSignal
    BY <1>24 DEF LoopSignal, Signal
  <1>25. CASE LoopBroadcast
    BY <1>25 DEF LoopBroadcast
  <1>26. ASSUME NEW c \in Calls, LoopRecv(c) PROVE LeftInv'
    BY <1>26 DEF LoopRecv
  <1>27. ASSUME NEW c \in Calls, LoopCleanSignal(c) PROVE LeftInv'
    BY <1>27 DEF LoopCleanSignal, Signal
  <1>28. CASE UNCHANGED vars
    BY <1>28 DEF vars
  <1> QED
    BY <1>1, <1>2, <1>3, <1>4, <1>5, <1>6, <1>7, <1>8, <1>9, <1>10, <1>11, <1>12, <1>13, <1>14,
       <1>15, <1>16, <1>17, <1>18, <1>19, <1>20, <1>21, <1>22, <1>23, <1>24, <1>25, <1>26, <1>27, <1>28
    DEF Next, CallStep, LoopStep

\* Nothing but a deadline decides on MIO_ERROR_TIMEOUT, and it is final.
LEMMA LateStep ==
  ASSUME TypeOK, LateInv, [Next]_vars
  PROVE  LateInv'
  <1> USE DEF TypeOK, LateInv, Goto, Decide, callVars, reqVars, connVars, loopVars
  <1>1. ASSUME NEW c \in Calls, SemWait(c) PROVE LateInv'
    BY <1>1 DEF SemWait
  <1>2. ASSUME NEW c \in Calls, AddCheck(c) PROVE LateInv'
    BY <1>2 DEF AddCheck
  <1>3. ASSUME NEW c \in Calls, TableInsert(c) PROVE LateInv'
    BY <1>3 DEF TableInsert
  <1>4. ASSUME NEW c \in Calls, IdHandlerAdd(c) PROVE LateInv'
    BY <1>4 DEF IdHandlerAdd
  <1>5. ASSUME NEW c \in Calls, SendCheck(c) PROVE LateInv'
    BY <1>5 DEF SendCheck
  <1>6. ASSUME NEW c \in Calls, SendRaw(c) PROVE LateInv'
    BY <1>6 DEF SendRaw
  <1>7. ASSUME NEW c \in Calls, ConnLock(c) PROVE LateInv'
    BY <1>7 DEF ConnLock
  <1>8. ASSUME NEW c \in Calls, ConnWake(c) PROVE LateInv'
    BY <1>8 DEF ConnWake
  <1>9. ASSUME NEW c \in Calls, CheckPredicate(c) PROVE LateInv'
    BY <1>9 DEF CheckPredicate
  <1>10. ASSUME NEW c \in Calls, Sleep(c) PROVE LateInv'
    BY <1>10 DEF Sleep
  <1>11. ASSUME NEW c \in Calls, Woken(c) PROVE LateInv'
    BY <1>11 DEF Woken
  <1>12. ASSUME NEW c \in Calls, IdHandlerDelete(c) PROVE LateInv'
    BY <1>12 DEF IdHandlerDelete
  <1>13. ASSUME NEW c \in Calls, RequestDelete(c) PROVE LateInv'
    BY <1>13 DEF RequestDelete
  <1>14. ASSUME NEW c \in Calls, SemPost(c) PROVE LateInv'
    BY <1>14 DEF SemPost
  <1>15. ASSUME NEW c \in Calls, ConnTimeout(c) \/ RequestTimeout(c) PROVE LateInv'
    BY <1>15 DEF ConnTimeout, RequestTimeout
  <1>16. ASSUME NEW c \in Calls, SpuriousWake(c) PROVE LateInv'
    BY <1>16 DEF SpuriousWake
  <1>17. ASSUME NEW c \in Calls, ServerReply(c) PROVE LateInv'
    BY <1>17 DEF ServerReply
  <1>18. CASE LoopRun
    BY <1>18 DEF LoopRun
  <1>19. CASE LoopGetRequest
    BY <1>19 DEF LoopGetRequest
  <1>20. CASE LoopDropHandler
    BY <1>20 DEF LoopDropHandler
  <1>21. CASE LoopDisconnect
    BY <1>21 DEF LoopDisconnect
  <1>22. CASE LoopConnected \/ LoopAuthenticated \/ LoopUnlock
    BY <1>22 DEF LoopConnected, LoopAuthenticated, LoopUnlock
  <1>23. CASE LoopCleanFree
    BY <1>23 DEF LoopCleanFree
  <1>24. CASE LoopSignal
    BY <1>24 DEF LoopSignal, Signal
  <1>25. CASE LoopBroadcast
    BY <1>25 DEF LoopBroadcast
  <1>26. ASSUME NEW c \in Calls, LoopRecv(c) PROVE LateInv'
    BY <1>26 DEF LoopRecv
  <1>27. ASSUME NEW c \in Calls, LoopCleanSignal(c) PROVE LateInv'
    BY <1>27 DEF LoopCleanSignal, Signal
  <1>28. CASE UNCHANGED vars
    BY <1>28 DEF vars
  <1> QED
    BY <1>1, <1>2, <1>3, <1>4, <1>5, <1>6, <1>7, <1>8, <1>9, <1>10, <1>11, <1>12, <1>13, <1>14,
       <1>15, <1>16, <1>17, <1>18, <1>19, <1>20, <1>21, <1>22, <1>23, <1>24, <1>25, <1>26, <1>27, <1>28
    DEF Next, CallStep, LoopStep

\* Calls are woken by the handler of their answer.
LEMMA WokenStep ==
  ASSUME TypeOK, HeldInv, WokenInv, ~Spurious, [Next]_vars
  PROVE  WokenInv'
  <1> USE DEF TypeOK, HeldInv, WokenInv, Goto, Decide, callVars, reqVars, connVars, loopVars
  <1>1. ASSUME NEW c \in Calls, SemWait(c) PROVE WokenInv'
    BY <1>1 DEF SemWait
  <1>2. ASSUME NEW c \in Calls, AddCheck(c) PROVE WokenInv'
    BY <1>2 DEF AddCheck
  <1>3. ASSUME NEW c \in Calls, TableInsert(c) PROVE WokenInv'
    BY <1>3 DEF TableInsert
  <1>4. ASSUME NEW c \in Calls, IdHandlerAdd(c) PROVE WokenInv'
    BY <1>4 DEF IdHandlerAdd
  <1>5. ASSUME NEW c \in Calls, SendCheck(c) PROVE WokenInv'
    BY <1>5 DEF SendCheck
  <1>6. ASSUME NEW c \in Calls, SendRaw(c) PROVE WokenInv'
    BY <1>6 DEF SendRaw
  <1>7. ASSUME NEW c \in Calls, ConnLock(c) PROVE WokenInv'
    BY <1>7 DEF ConnLock
  <1>8. ASSUME NEW c \in Calls, ConnWake(c) PROVE WokenInv'
    BY <1>8 DEF ConnWake
  <1>9. ASSUME NEW c \in Calls, CheckPredicate(c) PROVE WokenInv'
    BY <1>9 DEF CheckPredicate
  <1>10. ASSUME NEW c \in Calls, Sleep(c) PROVE WokenInv'
    BY <1>10 DEF Sleep
  <1>11. ASSUME NEW c \in Calls, Woken(c) PROVE WokenInv'
    BY <1>11 DEF Woken
  <1>12. ASSUME NEW c \in Calls, IdHandlerDelete(c) PROVE WokenInv'
    BY <1>12 DEF IdHandlerDelete
  <1>13. ASSUME NEW c \in Calls, RequestDelete(c) PROVE WokenInv'
    BY <1>13 DEF RequestDelete
  <1>14. ASSUME NEW c \in Calls, SemPost(c) PROVE WokenInv'
    BY <1>14 DEF SemPost
  <1>15. ASSUME NEW c \in Calls, ConnTimeout(c) \/ RequestTimeout(c) PROVE WokenInv'
    BY <1>15 DEF ConnTimeout, RequestTimeout
  <1>16. ASSUME NEW c \in Calls, SpuriousWake(c) PROVE WokenInv'
    BY <1>16 DEF SpuriousWake
  <1>17. ASSUME NEW c \in Calls, ServerReply(c) PROVE WokenInv'
    BY <1>17 DEF ServerReply
  <1>18. CASE LoopRun
    BY <1>18 DEF LoopRun
  <1>19. CASE LoopGetRequest
    BY <1>19 DEF LoopGetRequest
  <1>20. CASE LoopDropHandler
    BY <1>20 DEF LoopDropHandler
  <1>21. CASE LoopDisconnect
    BY <1>21 DEF LoopDisconnect
  <1>22. CASE LoopConnected \/ LoopAuthenticated \/ LoopUnlock
    BY <1>22 DEF LoopConnected, LoopAuthenticated, LoopUnlock
  <1>23. CASE LoopCleanFree
    BY <1>23 DEF LoopCleanFree
  <1>24. CASE LoopSignal
    BY <1>24 DEF LoopSignal, Signal
  <1>25. CASE LoopBroadcast
    BY <1>25 DEF LoopBroadcast
  <1>26. ASSUME NEW c \in Calls, LoopRecv(c) PROVE WokenInv'
    BY <1>26 DEF LoopRecv
  <1>27. ASSUME NEW c \in Calls, LoopCleanSignal(c) PROVE WokenInv'
    BY <1>27 DEF LoopCleanSignal, Signal
  <1>28. CASE UNCHANGED vars
    BY <1>28 DEF vars
  <1> QED
    BY <1>1, <1>2, <1>3, <1>4, <1>5, <1>6, <1>7, <1>8, <1>9, <1>10, <1>11, <1>12, <1>13, <1>14,
       <1>15, <1>16, <1>17, <1>18, <1>19, <1>20, <1>21, <1>22, <1>23, <1>24, <1>25, <1>26, <1>27, <1>28
    DEF Next, CallStep, LoopStep

\* A deadline that has passed and a connection that was lost stay so.
LEMMA InTimeStep ==
  ASSUME TypeOK, LateInv, [Next]_vars, InTime'
  PROVE  InTime
  <1> SUFFICES ASSUME ~InTime PROVE ~InTime'
    OBVIOUS
  <1> USE DEF InTime, LateInv, TypeOK, Goto, Decide, callVars, reqVars, connVars, loopVars
  <1>1. ASSUME NEW c \in Calls, SemWait(c) PROVE ~InTime'
    BY <1>1 DEF SemWait
  <1>2. ASSUME NEW c \in Calls, AddCheck(c) PROVE ~InTime'
    BY <1>2 DEF AddCheck
  <1>3. ASSUME NEW c \in Calls, TableInsert(c) PROVE ~InTime'
    BY <1>3 DEF TableInsert
  <1>4. ASSUME NEW c \in Calls, IdHandlerAdd(c) PROVE ~InTime'
    BY <1>4 DEF IdHandlerAdd
  <1>5. ASSUME NEW c \in Calls, SendCheck(c) PROVE ~InTime'
    BY <1>5 DEF SendCheck
  <1>6. ASSUME NEW c \in Calls, SendRaw(c) PROVE ~InTime'
    BY <1>6 DEF SendRaw
  <1>7. ASSUME NEW c \in Calls, ConnLock(c) PROVE ~InTime'
    BY <1>7 DEF ConnLock
  <1>8. ASSUME NEW c \in Calls, ConnWake(c) PROVE ~InTime'
    BY <1>8 DEF ConnWake
  <1>9. ASSUME NEW c \in Calls, CheckPredicate(c) PROVE ~InTime'
    BY <1>9 DEF CheckPredicate
  <1>10. ASSUME NEW c \in Calls, Sleep(c) PROVE ~InTime'
    BY <1>10 DEF Sleep
  <1>11. ASSUME NEW c \in Calls, Woken(c) PROVE ~InTime'
    BY <1>11 DEF Woken
  <1>12. ASSUME NEW c \in Calls, IdHandlerDelete(c) PROVE ~InTime'
    BY <1>12 DEF IdHandlerDelete
  <1>13. ASSUME NEW c \in Calls, RequestDelete(c) PROVE ~InTime'
    BY <1>13 DEF RequestDelete
  <1>14. ASSUME NEW c \in Calls, SemPost(c) PROVE ~InTime'
    BY <1>14 DEF SemPost
  <1>15. ASSUME NEW c \in Calls, ConnTimeout(c) \/ RequestTimeout(c) PROVE ~InTime'
    BY <1>15 DEF ConnTimeout, RequestTimeout
  <1>16. ASSUME NEW c \in Calls, SpuriousWake(c) PROVE ~InTime'
    BY <1>16 DEF SpuriousWake
  <1>17. ASSUME NEW c \in Calls, ServerReply(c) PROVE ~InTime'
    BY <1>17 DEF ServerReply
  <1>18. CASE LoopRun
    BY <1>18 DEF LoopRun
  <1>19. CASE LoopGetRequest
    BY <1>19 DEF LoopGetRequest
  <1>20. CASE LoopDropHandler
    BY <1>20 DEF LoopDropHandler
  <1>21. CASE LoopDisconnect
    BY <1>21 DEF LoopDisconnect
  <1>22. CASE LoopConnected \/ LoopAuthenticated \/ LoopUnlock
    BY <1>22 DEF LoopConnected, LoopAuthenticated, LoopUnlock
  <1>23. CASE LoopCleanFree
    BY <1>23 DEF LoopCleanFree
  <1>24. CASE LoopSignal
    BY <1>24 DEF LoopSignal, Signal
  <1>25. CASE LoopBroadcast
    BY <1>25 DEF LoopBroadcast
  <1>26. ASSUME NEW c \in Calls, LoopRecv(c) PROVE ~InTime'
    BY <1>26 DEF LoopRecv
  <1>27. ASSUME NEW c \in Calls, LoopCleanSignal(c) PROVE ~InTime'
    BY <1>27 DEF LoopCleanSignal, Signal
  <1>28. CASE UNCHANGED vars
    BY <1>28 DEF vars
  <1> QED
    BY <1>1, <1>2, <1>3, <1>4, <1>5, <1>6, <1>7, <1>8, <1>9, <1>10, <1>11, <1>12, <1>13, <1>14,
       <1>15, <1>16, <1>17, <1>18, <1>19, <1>20, <1>21, <1>22, <1>23, <1>24, <1>25, <1>26, <1>27, <1>28
    DEF Next, CallStep, LoopStep

\* In time a call's reply is handled once, and no memory is touched after its release.
LEMMA UntouchedStep ==
  ASSUME TypeOK, HeldInv, Untouched, InTime, InTime', ~Spurious, [Next]_vars
  PROVE  Untouched'
  <1> USE DEF TypeOK, HeldInv, Untouched, InTime, HandledOnce, Goto, Decide, callVars, reqVars, connVars, loopVars
  <1>1. ASSUME NEW c \in Calls, SemWait(c) PROVE Untouched'
    BY <1>1 DEF SemWait
  <1>2. ASSUME NEW c \in Calls, AddCheck(c) PROVE Untouched'
    BY <1>2 DEF AddCheck
  <1>3. ASSUME NEW c \in Calls, TableInsert(c) PROVE Untouched'
    BY <1>3 DEF TableInsert
  <1>4. ASSUME NEW c \in Calls, IdHandlerAdd(c) PROVE Untouched'
    BY <1>4 DEF IdHandlerAdd
  <1>5. ASSUME NEW c \in Calls, SendCheck(c) PROVE Untouched'
    BY <1>5 DEF SendCheck
  <1>6. ASSUME NEW c \in Calls, SendRaw(c) PROVE Untouched'
    BY <1>6 DEF SendRaw
  <1>7. ASSUME NEW c \in Calls, ConnLock(c) PROVE Untouched'
    BY <1>7 DEF ConnLock
  <1>8. ASSUME NEW c \in Calls, ConnWake(c) PROVE Untouched'
    BY <1>8 DEF ConnWake
  <1>9. ASSUME NEW c \in Calls, CheckPredicate(c) PROVE Untouched'
    BY <1>9 DEF CheckPredicate
  <1>10. ASSUME NEW c \in Calls, Sleep(c) PROVE Untouched'
    BY <1>10 DEF Sleep
  <1>11. ASSUME NEW c \in Calls, Woken(c) PROVE Untouched'
    BY <1>11 DEF Woken
  <1>12. ASSUME NEW c \in Calls, IdHandlerDelete(c) PROVE Untouched'
    BY <1>12 DEF IdHandlerDelete
  <1>13. ASSUME NEW c \in Calls, RequestDelete(c) PROVE Untouched'
    BY <1>13 DEF RequestDelete
  <1>14. ASSUME NEW c \in Calls, SemPost(c) PROVE Untouched'
    BY <1>14 DEF SemPost
  <1>15. ASSUME NEW c \in Calls, ConnTimeout(c) \/ RequestTimeout(c) PROVE Untouched'
    BY <1>15 DEF ConnTimeout, RequestTimeout
  <1>16. ASSUME NEW c \in Calls, SpuriousWake(c) PROVE Untouched'
    BY <1>16 DEF SpuriousWake
  <1>17. ASSUME NEW c \in Calls, ServerReply(c) PROVE Untouched'
    BY <1>17 DEF ServerReply
  <1>18. CASE LoopRun
    BY <1>18 DEF LoopRun
  <1>19. CASE LoopGetRequest
    BY <1>19, CallsAssumption DEF LoopGetRequest
  <1>20. CASE LoopDropHandler
    BY <1>20, CallsAssumption DEF LoopDropHandler
  <1>21. CASE LoopDisconnect
    BY <1>21 DEF LoopDisconnect
  <1>22. CASE LoopConnected \/ LoopAuthenticated \/ LoopUnlock
    BY <1>22 DEF LoopConnected, LoopAuthenticated, LoopUnlock
  <1>23. CASE LoopCleanFree
    BY <1>23 DEF LoopCleanFree
  <1>24. CASE LoopSignal
    <2>1. /\ cur \in Calls /\ cur \notin answered /\ ~Released(cur) /\ HandledOnce(cur)
          /\ lpc' = "drop" /\ cur' = cur /\ answered' = answered \cup {cur}
          /\ stanza' = stanza /\ id_handlers' = id_handlers /\ outcome' = outcome
      BY <1>24 DEF LoopSignal, Released
    <2>2. dangling' = {} /\ pc' = IF pc[cur] = "rwait" THEN [pc EXCEPT ![cur] = "rwoken"] ELSE pc
      BY <1>24, <2>1 DEF LoopSignal, Signal
    <2>3. ASSUME NEW c \in Calls PROVE HandledOnce(c)'
      BY <2>1, <2>2
    <2>4. QED
      BY <2>2, <2>3
  <1>25. CASE LoopBroadcast
    BY <1>25 DEF LoopBroadcast
  <1>26. ASSUME NEW c \in Calls, LoopRecv(c) PROVE Untouched'
    BY <1>26 DEF LoopRecv
  <1>27. ASSUME NEW c \in Calls, LoopCleanSignal(c) PROVE Untouched'
    BY <1>27 DEF LoopCleanSignal, Signal
  <1>28. CASE UNCHANGED vars
    BY <1>28 DEF vars
  <1> QED
    BY <1>1, <1>2, <1>3, <1>4, <1>5, <1>6, <1>7, <1>8, <1>9, <1>10, <1>11, <1>12, <1>13, <1>14,
       <1>15, <1>16, <1>17, <1>18, <1>19, <1>20, <1>21, <1>22, <1>23, <1>24, <1>25, <1>26, <1>27, <1>28
    DEF Next, CallStep, LoopStep
-------------------------------------------------------------------------------
\* IInv is an invariant of the specification.
LEMMA Invariance == Spec => []IInv
  <1>1. IInv /\ [Next]_vars => IInv'
    BY TypeStep, AttemptStep, HolderStep, CountStep, CapacityStep DEF IInv
  <1>2. QED
    BY InitInv, <1>1, PTL DEF Spec

\* The variables keep their types; in particular mio_open_requests never
\* exceeds its initial value and send_attempts never exceeds MIO_SEND_RETRIES.
THEOREM TypeCorrect == Spec => []TypeOK
  <1>1. IInv => TypeOK
    BY DEF IInv
  <1>2. QED
    BY Invariance, <1>1, PTL

\* No permit is ever released twice: the free permits and the entries of the
\* request table together stay within MIO_MAX_OPEN_REQUESTS, through every
\* timeout, error and reconnect clean-up.
THEOREM PermitsBounded == Spec => []PermitBound
  <1>1. IInv => PermitBound
    <2> SUFFICES ASSUME IInv PROVE PermitBound
      OBVIOUS
    <2>1. table \in SUBSET permit /\ permit \in SUBSET Calls
      BY DEF IInv, TypeOK, PermitHolders
    <2>2. Cardinality(table) <= Cardinality(permit)
      BY <2>1, SubsetSize
    <2>3. Cardinality(table) \in Nat /\ Cardinality(permit) \in Nat /\ sem \in Int
      BY <2>1, SubsetsFinite DEF IInv, TypeOK
    <2>4. QED
      BY <2>2, <2>3, MaxOpenAssumption DEF PermitBound, IInv, PermitCount
  <1>2. QED
    BY Invariance, <1>1, PTL

\* At most MIO_MAX_OPEN_REQUESTS - 1 requests are ever registered: the test of
\* sem_getvalue, made after sem_wait and not atomic with it, always refuses
\* the call that took the last permit.
THEOREM TableNeverFull == Spec => []TableBelowCapacity
  <1>1. IInv => TableBelowCapacity
    <2> SUFFICES ASSUME IInv PROVE TableBelowCapacity
      OBVIOUS
    <2>1. table \in SUBSET Registered /\ Registered \in SUBSET Calls
      BY DEF IInv, TypeOK, Registered
    <2>2. Cardinality(table) <= Cardinality(Registered)
      BY <2>1, SubsetSize
    <2>3. Cardinality(table) \in Nat /\ Cardinality(Registered) \in Nat
      BY <2>1, SubsetsFinite
    <2>4. QED
      BY <2>2, <2>3, MaxOpenAssumption
      DEF TableBelowCapacity, IInv, RegisteredBelowCapacity
  <1>2. QED
    BY Invariance, <1>1, PTL

-------------------------------------------------------------------------------
\* The initial states satisfy what is said of the calls' remains and answers.
LEMMA InitAnswers == Init => HeldInv /\ LeftInv /\ LateInv /\ WokenInv /\ TouchInv
  <1> SUFFICES ASSUME Init PROVE HeldInv /\ LeftInv /\ LateInv /\ WokenInv /\ Untouched
    BY DEF TouchInv
  <1>1. HeldInv /\ LeftInv /\ LateInv /\ WokenInv
    BY DEF Init, HeldInv, LeftInv, LateInv, WokenInv
  <1>2. Untouched
    BY CallsAssumption DEF Init, Untouched, HandledOnce
  <1>3. QED
    BY <1>1, <1>2

\* A call that returned an answer or an error has left no table entry and, after an
\* error, no id handler behind, unless the clean-up after a reconnect freed its request:
\* true with any number of calls, lost connections, missed deadlines and spurious wakeups.
THEOREM NothingIsLeftBehind == Spec => []NothingLeftBehind
  <1>1. Init => LeftInv
    BY InitAnswers
  <1>2. IInv /\ LeftInv /\ [Next]_vars => LeftInv'
    BY LeftStep DEF IInv
  <1>3. LeftInv => NothingLeftBehind
    BY DEF LeftInv, NothingLeftBehind
  <1>4. QED
    BY Invariance, <1>1, <1>2, <1>3, PTL DEF Spec

\* mio_send_blocking reports success only with the answer in hand, as long as the
\* connection holds and pthread_cond_timedwait only returns when it was signalled.
THEOREM OkIsAnswered ==
  ASSUME ~Spurious, MaxDrops = 0
  PROVE  Spec => []OkMeansAnswered
  <1>1. Init => HeldInv /\ WokenInv
    BY InitAnswers
  <1>2. IInv /\ HeldInv /\ WokenInv /\ [Next]_vars => HeldInv' /\ WokenInv'
    BY HeldStep, WokenStep DEF IInv
  <1>3. IInv /\ WokenInv => OkMeansAnswered
    <2> SUFFICES ASSUME IInv, WokenInv PROVE OkMeansAnswered
      OBVIOUS
    <2>1. drops = 0
      BY DEF IInv, TypeOK
    <2>2. QED
      BY <2>1 DEF WokenInv, OkMeansAnswered
  <1>4. QED
    BY Invariance, <1>1, <1>2, <1>3, PTL DEF Spec

\* Until a deadline passes or the connection is lost, no thread touches the request,
\* response or handler item of a call after its owner has released it.
THEOREM NothingDangles ==
  ASSUME ~Spurious
  PROVE  Spec => []NoDanglingTouch
  <1>1. Init => HeldInv /\ LateInv /\ TouchInv
    BY InitAnswers
  <1>2. IInv /\ HeldInv /\ LateInv /\ TouchInv /\ [Next]_vars => HeldInv' /\ LateInv' /\ TouchInv'
    <2> SUFFICES ASSUME IInv, HeldInv, LateInv, TouchInv, [Next]_vars
                 PROVE  HeldInv' /\ LateInv' /\ TouchInv'
      OBVIOUS
    <2>1. TypeOK
      BY DEF IInv
    <2>2. HeldInv' /\ LateInv'
      BY <2>1, HeldStep, LateStep
    <2>3. ASSUME InTime' PROVE Untouched'
      BY <2>1, <2>3, InTimeStep, UntouchedStep DEF TouchInv
    <2>4. QED
      BY <2>2, <2>3 DEF TouchInv
  <1>3. TouchInv => NoDanglingTouch
    BY DEF TouchInv, Untouched, InTime, NoDanglingTouch
  <1>4. QED
    BY Invariance, <1>1, <1>2, <1>3, PTL DEF Spec
===============================================================================
