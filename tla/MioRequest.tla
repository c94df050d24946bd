------------------------------ MODULE MioRequest ------------------------------
(***************************************************************************)
(* The request core of libmio: the threads that run mio_send_blocking, the *)
(* event loop thread that delivers the server's replies to them, and what  *)
(* the two share in a mio_conn_t: the counting semaphore                   *)
(* mio_open_requests, the hash table mio_request_table, libstrophe's       *)
(* id_handlers, event_loop_mutex, and conn_mutex / conn_cond /             *)
(* conn_predicate.                                                         *)
(*                                                                         *)
(* A call is one invocation of mio_send_blocking together with the         *)
(* mio_request_t it allocates and the stanza it sends; the stanza's id, a  *)
(* fresh UUID, is the call itself.                                         *)
(***************************************************************************)
EXTENDS Integers, FiniteSets

CONSTANTS
  Calls,        \* the invocations of mio_send_blocking
  MaxOpen,      \* MIO_MAX_OPEN_REQUESTS
  SendRetries,  \* MIO_SEND_RETRIES
  MaxDrops,     \* bound: how often the connection is lost
  Timeouts,     \* may the deadlines of the timed waits pass?
  Spurious,     \* may pthread_cond_timedwait return without a signal?
  NoOne         \* owner of a free mutex, "no stanza at hand" in the loop

ASSUME CallsAssumption == IsFiniteSet(Calls) /\ NoOne \notin Calls /\ "loop" \notin Calls
ASSUME MaxOpenAssumption == MaxOpen \in Nat \ {0}
ASSUME RetriesAssumption == SendRetries \in Nat \ {0} /\ MaxDrops \in Nat
ASSUME SwitchAssumption == Timeouts \in BOOLEAN /\ Spurious \in BOOLEAN

VARIABLES
  pc,                \* where each call stands in mio_send_blocking
  outcome,           \* what each call returns, "none" before it decides
  attempts,          \* send_attempts of each call
  sem,               \* the value of mio_open_requests
  table,             \* the calls whose request is in mio_request_table
  predicate,         \* request->predicate
  freed,             \* the calls whose mio_request_t the event loop freed
  id_handlers,       \* the calls with a handler in conn->id_handlers
  stanza,            \* where the call's stanza or its reply is
  event_loop_mutex,  \* NoOne or "loop"; senders hold it within one action
  conn_mutex,        \* NoOne, or the call that left it locked
  conn_predicate,
  state,             \* xmpp_conn->state, CONNECTED or CONNECTING
  authenticated,     \* xmpp_conn->authenticated
  lpc,               \* where the event loop thread stands
  cur,               \* the call whose stanza or request it has at hand
  todo,              \* requests its reconnect clean-up has yet to visit
  drops,             \* number of connection losses so far
  permit,            \* auxiliary: calls that did sem_wait but no sem_post
  answered,          \* auxiliary: calls whose reply a handler processed
  dangling           \* auxiliary: calls whose freed memory was touched

callVars == <<pc, outcome, attempts>>
reqVars  == <<sem, table, predicate, freed, permit>>
connVars == <<conn_mutex, conn_predicate, state, authenticated, drops>>
loopVars == <<event_loop_mutex, lpc, cur, todo>>
vars == <<callVars, reqVars, connVars, loopVars, id_handlers, stanza, answered, dangling>>

PC == {"start", "add", "insert", "idadd", "send", "raw", "connlock", "connwait",
       "connwoken", "check", "sleep", "rwait", "rwoken", "rto", "iddel", "del",
       "post", "done"}
Outcome == {"none", "MIO_OK", "MIO_ERROR_CONNECTION", "MIO_ERROR_TIMEOUT",
            "MIO_ERROR_COND_WAIT", "MIO_ERROR_MUTEX", "MIO_ERROR_PREDICATE"}

TypeOK ==
  /\ pc \in [Calls -> PC]
  /\ outcome \in [Calls -> Outcome]
  /\ attempts \in [Calls -> 0..SendRetries]
  /\ sem \in 0..MaxOpen
  /\ table \in SUBSET Calls
  /\ predicate \in [Calls -> BOOLEAN]
  /\ freed \in SUBSET Calls
  /\ id_handlers \in SUBSET Calls
  /\ stanza \in [Calls -> {"none", "queue", "server", "reply"}]
  /\ event_loop_mutex \in {NoOne, "loop"}
  /\ conn_mutex \in Calls \cup {NoOne}
  /\ conn_predicate \in BOOLEAN
  /\ state \in {"CONNECTED", "CONNECTING"}
  /\ authenticated \in BOOLEAN
  /\ lpc \in {"idle", "recv", "get", "signal", "drop", "cleanup", "free"}
  /\ cur \in Calls \cup {NoOne}
  /\ lpc \in {"get", "signal", "drop", "free"} => cur \in Calls
  /\ todo \in SUBSET Calls
  /\ drops \in 0..MaxDrops
  /\ permit \in SUBSET Calls
  /\ answered \in SUBSET Calls
  /\ dangling \in SUBSET Calls

\* mio_connect has returned: the connection is authenticated and
\* mio_connect has set conn_predicate back to 0.
Init ==
  /\ pc = [c \in Calls |-> "start"]
  /\ outcome = [c \in Calls |-> "none"]
  /\ attempts = [c \in Calls |-> 0]
  /\ sem = MaxOpen
  /\ table = {}
  /\ predicate = [c \in Calls |-> FALSE]
  /\ freed = {}
  /\ id_handlers = {}
  /\ stanza = [c \in Calls |-> "none"]
  /\ event_loop_mutex = NoOne
  /\ conn_mutex = NoOne
  /\ conn_predicate = FALSE
  /\ state = "CONNECTED"
  /\ authenticated = TRUE
  /\ lpc = "idle"
  /\ cur = NoOne
  /\ todo = {}
  /\ drops = 0
  /\ permit = {}
  /\ answered = {}
  /\ dangling = {}

-------------------------------------------------------------------------------
(* mio_send_blocking *)

Goto(c, from, to) == pc[c] = from /\ pc' = [pc EXCEPT ![c] = to]
Decide(c, err) == outcome' = [outcome EXCEPT ![c] = err]

\* sem_wait(conn->mio_open_requests)
SemWait(c) ==
  /\ Goto(c, "start", "add")
  /\ sem > 0
  /\ sem' = sem - 1
  /\ permit' = permit \cup {c}
  /\ UNCHANGED <<outcome, attempts, table, predicate, freed, connVars, loopVars,
                 id_handlers, stanza, answered, dangling>>

\* Fault: < for <= in the sem_getvalue test; see TableBelowCapacity.
AddCheckLoose(c) ==
  /\ \/ sem >= 0 /\ Goto(c, "add", "insert")
     \/ sem < 0  /\ Goto(c, "add", "send")
  /\ UNCHANGED <<outcome, attempts, reqVars, connVars, loopVars, id_handlers,
                 stanza, answered, dangling>>

\* _mio_request_add, the sem_getvalue test.  mio_send_blocking ignores the
\* error, so a call that fails the test goes on to send its stanza.
AddCheck(c) ==
  /\ \/ sem > 0  /\ Goto(c, "add", "insert")
     \/ sem <= 0 /\ Goto(c, "add", "send")
  /\ UNCHANGED <<outcome, attempts, reqVars, connVars, loopVars, id_handlers,
                 stanza, answered, dangling>>

\* _mio_request_add under mio_hash_lock; a fresh UUID is not in the table.
TableInsert(c) ==
  /\ Goto(c, "insert", "idadd")
  /\ table' = table \cup {c}
  /\ UNCHANGED <<outcome, attempts, sem, predicate, freed, permit, connVars,
                 loopVars, id_handlers, stanza, answered, dangling>>

\* mio_handler_id_add: xmpp_id_handler_add under event_loop_mutex.
IdHandlerAdd(c) ==
  /\ Goto(c, "idadd", "send")
  /\ event_loop_mutex = NoOne
  /\ id_handlers' = id_handlers \cup {c}
  /\ dangling' = dangling \cup ({c} \cap freed)
  /\ UNCHANGED <<outcome, attempts, reqVars, connVars, loopVars, stanza, answered>>

\* mio_send_nonblocking, the unlocked test of authenticated; on failure the
\* retry loop of mio_send_blocking counts the attempt.
SendCheck(c) ==
  /\ \/ /\ authenticated
        /\ Goto(c, "send", "raw")
        /\ UNCHANGED <<outcome, attempts>>
     \/ /\ ~authenticated
        /\ attempts' = [attempts EXCEPT ![c] = @ + 1]
        /\ IF attempts[c] + 1 >= SendRetries
             THEN Goto(c, "send", "iddel") /\ Decide(c, "MIO_ERROR_CONNECTION")
             ELSE Goto(c, "send", "connlock") /\ UNCHANGED outcome
  /\ UNCHANGED <<reqVars, connVars, loopVars, id_handlers, stanza, answered, dangling>>

\* mio_send_nonblocking: xmpp_send_raw under event_loop_mutex, which drops
\* the data without an error when the connection is not CONNECTED.
SendRaw(c) ==
  /\ Goto(c, "raw", "check")
  /\ event_loop_mutex = NoOne
  /\ stanza' = IF state = "CONNECTED" THEN [stanza EXCEPT ![c] = "queue"] ELSE stanza
  /\ UNCHANGED <<outcome, attempts, reqVars, connVars, loopVars, id_handlers,
                 answered, dangling>>

\* The retry loop locks conn_mutex.  The loop around pthread_cond_timedwait is
\* the only place that unlocks it: with conn_predicate set it is skipped and
\* the mutex stays locked.
ConnLock(c) ==
  /\ conn_mutex = NoOne
  /\ \/ /\ conn_predicate
        /\ Goto(c, "connlock", "send")
        /\ conn_mutex' = c
     \/ /\ ~conn_predicate
        /\ Goto(c, "connlock", "connwait")
        /\ UNCHANGED conn_mutex
  /\ UNCHANGED <<outcome, attempts, reqVars, conn_predicate, state, authenticated,
                 drops, loopVars, id_handlers, stanza, answered, dangling>>

\* The wait on conn_cond ends by the broadcast, or after
\* MIO_RECONNECTION_TIMEOUT_S; either way the mutex is taken and released.
ConnWake(c) ==
  /\ Goto(c, "connwoken", "send")
  /\ conn_mutex = NoOne
  /\ UNCHANGED <<outcome, attempts, reqVars, connVars, loopVars, id_handlers,
                 stanza, answered, dangling>>

ConnTimeout(c) ==
  /\ Timeouts
  /\ Goto(c, "connwait", "iddel")
  /\ conn_mutex = NoOne
  /\ Decide(c, "MIO_ERROR_TIMEOUT")
  /\ UNCHANGED <<attempts, reqVars, connVars, loopVars, id_handlers, stanza,
                 answered, dangling>>

\* while (!request->predicate), read without request->mutex.  A request that
\* the event loop has freed reads as either value.
CheckPredicate(c) ==
  /\ \E p \in IF c \in freed THEN BOOLEAN ELSE {predicate[c]} :
       \/ p  /\ Goto(c, "check", "done") /\ Decide(c, "MIO_ERROR_PREDICATE")
       \/ ~p /\ Goto(c, "check", "sleep") /\ UNCHANGED outcome
  /\ dangling' = dangling \cup ({c} \cap freed)
  /\ UNCHANGED <<attempts, reqVars, connVars, loopVars, id_handlers, stanza, answered>>

\* pthread_mutex_lock and the start of pthread_cond_timedwait, which sleeps
\* whatever the predicate is by now.  Locking a destroyed mutex may fail.
Sleep(c) ==
  /\ \/ Goto(c, "sleep", "rwait") /\ UNCHANGED outcome
     \/ c \in freed /\ Goto(c, "sleep", "done") /\ Decide(c, "MIO_ERROR_MUTEX")
  /\ dangling' = dangling \cup ({c} \cap freed)
  /\ UNCHANGED <<attempts, reqVars, connVars, loopVars, id_handlers, stanza, answered>>

\* Faults: the deadline is missed and the call leaves its id handler behind, takes
\* the wait for answered, or waits again; see NothingLeftBehind, OkMeansAnswered
\* and EveryCallReturns.
TimeoutTo(c, to) ==
  /\ Timeouts
  /\ Goto(c, "rwait", to)
  /\ Decide(c, "MIO_ERROR_TIMEOUT")
  /\ UNCHANGED <<attempts, reqVars, connVars, loopVars, id_handlers, stanza,
                 answered, dangling>>

TimeoutLeavesHandler(c) == TimeoutTo(c, "del")
TimeoutTakenForAnswer(c) == TimeoutTo(c, "rwoken")
TimeoutWaitsAgain(c) == TimeoutTo(c, "check")

\* ETIMEDOUT: the call holds request->mutex until it has left "rto".
RequestTimeout(c) ==
  /\ Timeouts
  /\ Goto(c, "rwait", "rto")
  /\ Decide(c, "MIO_ERROR_TIMEOUT")
  /\ UNCHANGED <<attempts, reqVars, connVars, loopVars, id_handlers, stanza,
                 answered, dangling>>

SpuriousWake(c) ==
  /\ Spurious
  /\ Goto(c, "rwait", "rwoken")
  /\ UNCHANGED <<outcome, attempts, reqVars, connVars, loopVars, id_handlers,
                 stanza, answered, dangling>>

\* Fault: a call that succeeds deletes its id handler too; see NoDanglingTouch.
WokenDeletes(c) ==
  /\ Goto(c, "rwoken", "iddel")
  /\ Decide(c, "MIO_OK")
  /\ dangling' = dangling \cup ({c} \cap freed)
  /\ UNCHANGED <<attempts, reqVars, connVars, loopVars, id_handlers, stanza, answered>>

\* pthread_cond_timedwait returned 0: success, whatever the predicate says.
\* With the mutex destroyed meanwhile it may return an error instead.
Woken(c) ==
  /\ \/ Goto(c, "rwoken", "del") /\ Decide(c, "MIO_OK")
     \/ c \in freed /\ Goto(c, "rwoken", "iddel") /\ Decide(c, "MIO_ERROR_COND_WAIT")
  /\ dangling' = dangling \cup ({c} \cap freed)
  /\ UNCHANGED <<attempts, reqVars, connVars, loopVars, id_handlers, stanza, answered>>

\* The error paths: xmpp_id_handler_delete, without event_loop_mutex.  It
\* looks for request->id, which is unreadable once the request is freed.
IdHandlerDelete(c) ==
  /\ \/ Goto(c, "rto", "del")
     \/ Goto(c, "iddel", "del")
  /\ id_handlers' \in {id_handlers \ {c}} \cup (IF c \in freed THEN {id_handlers} ELSE {})
  /\ dangling' = dangling \cup ({c} \cap freed)
  /\ UNCHANGED <<outcome, attempts, reqVars, connVars, loopVars, stanza, answered>>

\* _mio_request_delete up to the free; without an entry there is no sem_post.
RequestDelete(c) ==
  /\ \/ c \in table    /\ Goto(c, "del", "post") /\ table' = table \ {c}
     \/ c \notin table /\ Goto(c, "del", "done") /\ UNCHANGED table
  /\ dangling' = dangling \cup ({c} \cap freed)
  /\ UNCHANGED <<outcome, attempts, sem, predicate, freed, permit, connVars,
                 loopVars, id_handlers, stanza, answered>>

SemPost(c) ==
  /\ Goto(c, "post", "done")
  /\ sem' = sem + 1
  /\ permit' = permit \ {c}
  /\ UNCHANGED <<outcome, attempts, table, predicate, freed, connVars, loopVars,
                 id_handlers, stanza, answered, dangling>>

CallStep(c) ==
  \/ SemWait(c) \/ AddCheck(c) \/ TableInsert(c) \/ IdHandlerAdd(c)
  \/ SendCheck(c) \/ SendRaw(c) \/ ConnLock(c) \/ ConnWake(c)
  \/ CheckPredicate(c) \/ Sleep(c) \/ Woken(c)
  \/ IdHandlerDelete(c) \/ RequestDelete(c) \/ SemPost(c)

-------------------------------------------------------------------------------
(* The event loop thread: _mio_run, xmpp_run_once and the handlers it calls *)

\* A call that has returned, or released its request, has given up the
\* memory that a handler of the event loop may still be using.
Released(c) == c \in freed \/ pc[c] = "post" \/ (pc[c] = "done" /\ outcome[c] # "MIO_ERROR_PREDICATE")

\* mio_cond_signal on request->cond: it needs request->mutex, sets the
\* predicate and wakes the call if it sleeps.
Signal(c) ==
  /\ pc[c] # "rto"
  /\ predicate' = IF Released(c) THEN predicate ELSE [predicate EXCEPT ![c] = TRUE]
  /\ pc' = IF pc[c] = "rwait" THEN [pc EXCEPT ![c] = "rwoken"] ELSE pc
  /\ dangling' = IF Released(c) THEN dangling \cup {c} ELSE dangling

\* _mio_run takes event_loop_mutex; xmpp_run_once first writes the queue.
LoopRun ==
  /\ lpc = "idle" /\ event_loop_mutex = NoOne
  /\ event_loop_mutex' = "loop"
  /\ lpc' = "recv"
  /\ stanza' = [c \in Calls |->
                  IF stanza[c] = "queue" /\ state = "CONNECTED" THEN "server" ELSE stanza[c]]
  /\ UNCHANGED <<callVars, reqVars, connVars, cur, todo, id_handlers, answered, dangling>>

\* handler_fire_stanza finds the id handler; user handlers are only called
\* once the connection is authenticated.
LoopRecv(c) ==
  /\ lpc = "recv" /\ stanza[c] = "reply"
  /\ stanza' = [stanza EXCEPT ![c] = "none"]
  /\ IF c \in id_handlers /\ authenticated
       THEN lpc' = "get" /\ cur' = c
       ELSE UNCHANGED <<lpc, cur>>
  /\ UNCHANGED <<callVars, reqVars, connVars, event_loop_mutex, todo, id_handlers,
                 answered, dangling>>

\* mio_handler_error and the other response handlers: _mio_request_get; when
\* the request is gone they return an error, which keeps the id handler.
LoopGetRequest ==
  /\ lpc = "get"
  /\ \/ cur \in table    /\ lpc' = "signal" /\ UNCHANGED cur
     \/ cur \notin table /\ lpc' = "recv"   /\ cur' = NoOne
  /\ UNCHANGED <<callVars, reqVars, connVars, event_loop_mutex, todo, id_handlers,
                 stanza, answered, dangling>>

\* The handler fills in the response and signals the request it looked up.
LoopSignal ==
  /\ lpc = "signal"
  /\ Signal(cur)
  /\ lpc' = "drop"
  /\ answered' = answered \cup {cur}
  /\ UNCHANGED <<outcome, attempts, sem, table, freed, permit, connVars,
                 event_loop_mutex, cur, todo, id_handlers, stanza>>

\* The handler returned MIO_OK: mio_handler_generic_id returns 0 and
\* handler_fire_stanza unlinks and frees the item it is looking at.
LoopDropHandler ==
  /\ lpc = "drop"
  /\ lpc' = "recv" /\ cur' = NoOne
  /\ id_handlers' = id_handlers \ {cur}
  /\ dangling' = dangling \cup ({cur} \ id_handlers)
  /\ UNCHANGED <<callVars, reqVars, connVars, event_loop_mutex, todo, stanza, answered>>

\* conn_disconnect and mio_reconnect: a fresh xmpp_conn_t that keeps the
\* handlers and the send queue; what the server had or had sent is lost.
LoopDisconnect ==
  /\ lpc = "recv" /\ drops < MaxDrops
  /\ drops' = drops + 1
  /\ state' = "CONNECTING"
  /\ authenticated' = FALSE
  /\ stanza' = [c \in Calls |-> IF stanza[c] = "queue" THEN "queue" ELSE "none"]
  /\ UNCHANGED <<callVars, reqVars, conn_mutex, conn_predicate, loopVars,
                 id_handlers, answered, dangling>>

LoopConnected ==
  /\ lpc = "recv" /\ state = "CONNECTING"
  /\ state' = "CONNECTED"
  /\ UNCHANGED <<callVars, reqVars, conn_mutex, conn_predicate, authenticated,
                 drops, loopVars, id_handlers, stanza, answered, dangling>>

\* auth.c sets authenticated and calls mio_handler_conn_generic(CONNECT),
\* where retries > 0: clean up all waiting threads.
LoopAuthenticated ==
  /\ lpc = "recv" /\ state = "CONNECTED" /\ ~authenticated
  /\ authenticated' = TRUE
  /\ lpc' = "cleanup"
  /\ todo' = table
  /\ UNCHANGED <<callVars, reqVars, conn_mutex, conn_predicate, state, drops,
                 event_loop_mutex, cur, id_handlers, stanza, answered, dangling>>

\* HASH_ITER, without mio_hash_lock.  It meets everything that was in the
\* table at the start and may meet what is added meanwhile.
LoopCleanSignal(c) ==
  /\ lpc = "cleanup" /\ c \in table
  /\ Signal(c)
  /\ lpc' = "free" /\ cur' = c
  /\ UNCHANGED <<outcome, attempts, sem, table, freed, permit, connVars,
                 event_loop_mutex, todo, id_handlers, stanza, answered>>

\* Fault: the clean-up returns the permit of the request, which its caller may be
\* returning as well; see PermitBound.
LoopCleanPosts ==
  /\ lpc = "free"
  /\ lpc' = "cleanup" /\ cur' = NoOne
  /\ todo' = todo \ {cur}
  /\ table' = table \ {cur} /\ freed' = freed \cup {cur}
  /\ sem' = sem + 1
  /\ UNCHANGED <<callVars, predicate, permit, connVars, event_loop_mutex,
                 id_handlers, stanza, answered, dangling>>

LoopCleanFree ==
  /\ lpc = "free"
  /\ lpc' = "cleanup" /\ cur' = NoOne
  /\ todo' = todo \ {cur}
  /\ IF cur \in table
       THEN table' = table \ {cur} /\ freed' = freed \cup {cur} /\ UNCHANGED dangling
       ELSE dangling' = dangling \cup {cur} /\ UNCHANGED <<table, freed>>
  /\ UNCHANGED <<callVars, sem, predicate, permit, connVars, event_loop_mutex,
                 id_handlers, stanza, answered>>

\* mio_cond_broadcast on conn_cond.
LoopBroadcast ==
  /\ lpc = "cleanup" /\ todo \cap table = {}
  /\ conn_mutex = NoOne
  /\ conn_predicate' = TRUE
  /\ pc' = [c \in Calls |-> IF pc[c] = "connwait" THEN "connwoken" ELSE pc[c]]
  /\ lpc' = "recv"
  /\ todo' = {}
  /\ UNCHANGED <<outcome, attempts, reqVars, conn_mutex, state, authenticated, drops,
                 event_loop_mutex, cur, id_handlers, stanza, answered, dangling>>

LoopUnlock ==
  /\ lpc = "recv"
  /\ lpc' = "idle"
  /\ event_loop_mutex' = NoOne
  /\ UNCHANGED <<callVars, reqVars, connVars, cur, todo, id_handlers, stanza,
                 answered, dangling>>

LoopStep ==
  \/ LoopRun \/ LoopGetRequest \/ LoopSignal \/ LoopDropHandler
  \/ LoopConnected \/ LoopAuthenticated \/ LoopCleanFree \/ LoopBroadcast \/ LoopUnlock
  \/ \E c \in Calls : LoopRecv(c) \/ LoopCleanSignal(c)

\* The XMPP server answers a stanza it has received, or never does.
ServerReply(c) ==
  /\ stanza[c] = "server" /\ state = "CONNECTED"
  /\ stanza' = [stanza EXCEPT ![c] = "reply"]
  /\ UNCHANGED <<callVars, reqVars, connVars, loopVars, id_handlers, answered, dangling>>

-------------------------------------------------------------------------------
Next ==
  \/ \E c \in Calls : CallStep(c) \/ ConnTimeout(c) \/ RequestTimeout(c)
                      \/ SpuriousWake(c) \/ ServerReply(c)
  \/ LoopStep
  \/ LoopDisconnect

Spec == Init /\ [][Next]_vars

\* Threads that can take a step do; a mutex or the semaphore that is free again
\* and again is obtained; a deadline passes; a readable socket is read.
Fairness ==
  /\ \A c \in Calls : SF_vars(CallStep(c)) /\ WF_vars(ConnTimeout(c) \/ RequestTimeout(c))
                      /\ SF_vars(LoopRecv(c)) /\ SF_vars(LoopCleanSignal(c))
  /\ WF_vars(LoopStep) /\ SF_vars(LoopConnected) /\ SF_vars(LoopAuthenticated)

FairSpec == Spec /\ Fairness

-------------------------------------------------------------------------------
(* Properties *)

\* No permit of mio_open_requests is given back twice: what is free and what
\* the table still holds never exceed MIO_MAX_OPEN_REQUESTS together, whatever
\* errors, timeouts and reconnects do (_mio_request_delete posts only for the
\* entry it removed).
PermitBound == sem + Cardinality(table) <= MaxOpen

\* The request table never holds as many requests as there are permits: the
\* sem_getvalue test, although it is not atomic with sem_wait, refuses the
\* call that took the last one.
TableBelowCapacity == Cardinality(table) < MaxOpen

\* A call that returned an answer or an error has left nothing behind: no table
\* entry, and after an error no id handler that could still fire for it, unless
\* the clean-up after a reconnect freed its request and with it the id.
NothingLeftBehind ==
  \A c \in Calls :
    pc[c] = "done" /\ outcome[c] # "MIO_ERROR_PREDICATE" /\ c \notin freed =>
      /\ c \notin table
      /\ outcome[c] # "MIO_OK" => c \notin id_handlers

\* mio_send_blocking returns MIO_OK only when a handler has processed the
\* reply to this call's own stanza ("populated with the server's response").
OkMeansAnswered ==
  \A c \in Calls : pc[c] = "done" /\ outcome[c] = "MIO_OK" => c \in answered

\* As long as no deadline has passed and the connection has held, no thread
\* touches the request, response or handler item of a call after its owner has
\* released it.
NoDanglingTouch ==
  drops = 0 /\ (\A c \in Calls : outcome[c] # "MIO_ERROR_TIMEOUT") => dangling = {}

\* Every call of mio_send_blocking returns.
EveryCallReturns == \A c \in Calls : <>(pc[c] = "done")

\* A call that waits for its reply has an entry in the table: when all
\* permits are out a call waits for one instead of being sent unregistered.
OpenRequestsWait ==
  \A c \in Calls : pc[c] = "check" /\ c \notin answered \cup freed => c \in table

\* A call whose reply was processed in time reports success.
AnsweredCallSucceeds ==
  \A c \in Calls : pc[c] = "done" /\ c \in answered => outcome[c] = "MIO_OK"
===============================================================================
