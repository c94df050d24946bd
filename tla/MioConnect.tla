------------------------------- MODULE MioConnect -------------------------------
(***************************************************************************)
(* The life of a connection: mio_connect with its wait for the event loop  *)
(* thread, the connection handler, mio_reconnect, which runs inside that   *)
(* handler and replaces the xmpp_conn_t, and mio_disconnect.               *)
(*                                                                         *)
(* One application thread connects, works and disconnects; requests are    *)
(* sent by other threads.  A round of xmpp_run_once is one step that holds *)
(* event_loop_mutex and may report that the connection is up or gone (its  *)
(* phases are in StropheConn).  Locking, waiting and waking are explicit.  *)
(***************************************************************************)
EXTENDS Naturals, FiniteSets

CONSTANTS
  Conns,       \* blocks of memory for an xmpp_conn_t
  Requests,    \* requests of other threads
  MaxRetries,  \* bound: where the count of retries saturates
  None

ASSUME ConnsAssumption == IsFiniteSet(Conns) /\ Cardinality(Conns) >= 2
ASSUME RetriesAssumption == MaxRetries \in Nat \ {0}

VARIABLES
  app,        \* where the application thread stands
  result,     \* what mio_connect returned
  loop,       \* where the event loop thread stands
  status,     \* ctx->loop_status
  conn_mutex, event_loop_mutex,  \* who holds them
  predicate,  \* conn_predicate
  woken,      \* the wait of mio_connect has been signalled
  shd,        \* the handler data that mio_connect allocates: its response, or freed
  own,        \* the current connection was given that handler data
  cur,        \* conn->xmpp_conn
  listed,     \* the connections in ctx->connlist
  live,       \* the connections that are allocated
  holder,     \* the connections that point to the handlers and the send queue
  state,      \* state of the current connection
  has_connected, retries,
  req,        \* per request: its stage
  lost,       \* auxiliary: requests sent on a connection that is gone
  touched     \* auxiliary: the handler used the handler data after it was freed

mio == <<has_connected, retries>>
place == <<cur, listed, live, holder, own>>
xmpp == <<place, state>>
sync == <<conn_mutex, predicate, woken>>
vars == <<app, result, loop, status, sync, event_loop_mutex, shd, xmpp, mio, req, lost, touched>>

\* Types; and conn_mutex stays locked between two steps only after MIO_ERROR_PREDICATE.
TypeOK ==
  /\ conn_mutex # None => result = "ERROR_PREDICATE"
  /\ app \in {"idle", "spawn", "lock", "wait", "reset", "returned", "stopped", "closed"}
  /\ result \in {"none", "OK", "ERROR_CONNECTION", "ERROR_TIMEOUT", "ERROR_PREDICATE"}
  /\ loop \in {"none", "test", "lock", "round", "up", "gone", "reconnect", "broadcast", "unlock", "exit"}
  /\ status \in {"notstarted", "running", "quit"}
  /\ conn_mutex \in {"app", "loop", None} /\ event_loop_mutex \in {"loop", None}
  /\ predicate \in BOOLEAN /\ woken \in BOOLEAN
  /\ shd \in {"none", "unknown", "ok", "error", "used", "freed"}
  /\ cur \in Conns /\ listed \subseteq Conns /\ live \subseteq Conns /\ holder \subseteq Conns
  /\ state \in {"disconnected", "connecting", "connected"} /\ own \in BOOLEAN
  /\ has_connected \in BOOLEAN /\ retries \in 0..MaxRetries
  /\ req \in [Requests -> {"none", "open", "sent", "done"}]
  /\ lost \subseteq Requests /\ touched \in BOOLEAN

\* mio_conn_new.
Init ==
  /\ app = "idle" /\ result = "none" /\ loop = "none" /\ status = "notstarted"
  /\ conn_mutex = None /\ event_loop_mutex = None
  /\ predicate = FALSE /\ woken = FALSE /\ shd = "none"
  /\ \E c \in Conns : cur = c /\ listed = {c} /\ live = {c} /\ holder = {c}
  /\ state = "disconnected" /\ has_connected = FALSE /\ retries = 0 /\ own = TRUE
  /\ req = [r \in Requests |-> "none"] /\ lost = {} /\ touched = FALSE

-------------------------------------------------------------------------------
(* mio_connect, by the application thread *)

\* The connection attempt begins, or fails at once: the handler data is then leaked.
Attempt ==
  /\ app = "idle"
  /\ shd' = "unknown"
  /\ \/ app' = "spawn" /\ state' = "connecting" /\ UNCHANGED result
     \/ app' = "returned" /\ result' = "ERROR_CONNECTION" /\ UNCHANGED state
  /\ UNCHANGED <<loop, status, sync, event_loop_mutex, place, mio, req, lost, touched>>

\* The event loop thread is created; _mio_run sets loop_status.
Spawn ==
  /\ app = "spawn" /\ app' = "lock"
  /\ loop' = "test" /\ status' = "running"
  /\ UNCHANGED <<result, sync, event_loop_mutex, shd, xmpp, mio, req, lost, touched>>

\* conn_mutex is locked and conn_predicate tested.  If the event loop was faster the
\* call returns an error, and conn_mutex stays locked.
Wait ==
  /\ app = "lock" /\ conn_mutex = None
  /\ IF predicate
     THEN /\ conn_mutex' = "app" /\ shd' = "freed"
          /\ app' = "returned" /\ result' = "ERROR_PREDICATE" /\ UNCHANGED woken
     ELSE /\ app' = "wait" /\ woken' = FALSE /\ UNCHANGED <<conn_mutex, shd, result>>
  /\ UNCHANGED <<loop, status, predicate, event_loop_mutex, xmpp, mio, req, lost, touched>>

\* Faults: the response is not looked at, the handler data is freed on success, too, or
\* conn_mutex stays locked; see OkIsConnected, HandlerDataLives, SendersGetThrough.
WakeWith(outcome, data, owner) ==
  /\ app = "wait" /\ woken /\ conn_mutex = None
  /\ app' = "reset" /\ result' = outcome /\ shd' = data /\ conn_mutex' = owner
  /\ UNCHANGED <<loop, status, predicate, woken, event_loop_mutex, xmpp, mio, req, lost, touched>>
Outcome == IF shd = "ok" THEN "OK" ELSE "ERROR_CONNECTION"
WakeBelieves == WakeWith("OK", shd, None)
WakeFrees == WakeWith(Outcome, "freed", None)
WakeKeepsLock == WakeWith(Outcome, shd, "app")

\* Woken: the response decides, whatever conn_predicate says.
Wake ==
  /\ app = "wait" /\ woken /\ conn_mutex = None
  /\ result' = Outcome
  /\ app' = "reset"
  /\ UNCHANGED <<loop, status, sync, event_loop_mutex, shd, xmpp, mio, req, lost, touched>>

\* With conn_mutex unlocked conn_predicate is reset and the response, not shd, is freed.
Reset ==
  /\ app = "reset" /\ app' = "returned"
  /\ predicate' = FALSE
  /\ shd' = IF shd = "freed" THEN shd ELSE "used"
  /\ UNCHANGED <<result, loop, status, conn_mutex, woken, event_loop_mutex, xmpp, mio, req, lost, touched>>

\* Fault: mio_connect waits without a deadline; see ConnectReturns.
NoDeadline == FALSE /\ UNCHANGED vars

\* MIO_REQUEST_TIMEOUT_S have passed: the handler data is freed under the event loop.
Deadline ==
  /\ app = "wait" /\ conn_mutex = None
  /\ app' = "returned" /\ result' = "ERROR_TIMEOUT"
  /\ shd' = "freed" /\ predicate' = FALSE
  /\ UNCHANGED <<loop, status, conn_mutex, woken, event_loop_mutex, xmpp, mio, req, lost, touched>>

-------------------------------------------------------------------------------
(* mio_disconnect *)

\* The loop is told to stop first, so that nothing that is queued later is written.
Stop ==
  /\ app = "returned" /\ result = "OK" /\ app' = "stopped"
  /\ status' = "quit"
  /\ UNCHANGED <<result, loop, sync, event_loop_mutex, shd, xmpp, mio, req, lost, touched>>

\* At the end event_loop_mutex is unlocked, whoever holds it.
Close ==
  /\ app = "stopped" /\ app' = "closed"
  /\ event_loop_mutex' = None
  /\ UNCHANGED <<result, loop, status, sync, shd, xmpp, mio, req, lost, touched>>

-------------------------------------------------------------------------------
(* Requests of other threads, once connected *)

Open(r) ==
  /\ app = "returned" /\ result = "OK" /\ req[r] = "none"
  /\ req' = [req EXCEPT ![r] = "open"]
  /\ UNCHANGED <<app, result, loop, status, sync, event_loop_mutex, shd, xmpp, mio, lost, touched>>

\* The stanza is queued with event_loop_mutex held.
Send(r) ==
  /\ req[r] = "open" /\ event_loop_mutex = None
  /\ req' = [req EXCEPT ![r] = "sent"]
  /\ UNCHANGED <<app, result, loop, status, sync, event_loop_mutex, shd, xmpp, mio, lost, touched>>

\* The wait for the answer ends at its deadline, at an answer or after a reconnect.
Forget(r) ==
  /\ req[r] \in {"sent", "done"}
  /\ req' = [req EXCEPT ![r] = "none"] /\ lost' = lost \ {r}
  /\ UNCHANGED <<app, result, loop, status, sync, event_loop_mutex, shd, xmpp, mio, touched>>

-------------------------------------------------------------------------------
(* The event loop thread *)

Goto(from, to) == loop = from /\ loop' = to

Test ==
  /\ loop = "test" /\ loop' = IF status = "running" THEN "lock" ELSE "exit"
  /\ UNCHANGED <<app, result, status, sync, event_loop_mutex, shd, xmpp, mio, req, lost, touched>>

Lock ==
  /\ Goto("lock", "round") /\ event_loop_mutex = None /\ event_loop_mutex' = "loop"
  /\ UNCHANGED <<app, result, status, sync, shd, xmpp, mio, req, lost, touched>>

\* Nothing to report, because of loop_status or otherwise.
Quiet ==
  /\ Goto("round", "unlock")
  /\ UNCHANGED <<app, result, status, sync, event_loop_mutex, shd, xmpp, mio, req, lost, touched>>

\* Logging in has succeeded.
ReportUp ==
  /\ Goto("round", "up") /\ status = "running" /\ state = "connecting"
  /\ state' = "connected"
  /\ UNCHANGED <<app, result, status, sync, event_loop_mutex, shd, place, mio, req, lost, touched>>

\* The attempt has failed, or the connection is lost.
ReportGone ==
  /\ Goto("round", "gone") /\ status = "running" /\ state # "disconnected"
  /\ state' = "disconnected"
  /\ lost' = lost \cup {r \in Requests : req[r] = "sent"}
  /\ UNCHANGED <<app, result, status, sync, event_loop_mutex, shd, place, mio, req, touched>>

\* The handler writes a response to the handler data of its connection: that of
\* mio_connect, or the one that mio_reconnect has made.
Respond(kind) ==
  /\ touched' = (touched \/ (own /\ shd \in {"freed", "used"}))
  /\ shd' = IF own /\ shd # "freed" THEN kind ELSE shd

\* Fault: requests are released from the second retry on; see LostAreReleased.
UpAfterTwo ==
  /\ Goto("up", "broadcast")
  /\ Respond("ok")
  /\ has_connected' = TRUE /\ retries' = IF retries > 1 THEN 0 ELSE retries
  /\ IF retries > 1
     THEN /\ req' = [r \in Requests |-> IF req[r] = "sent" THEN "done" ELSE req[r]]
          /\ lost' = {}
     ELSE UNCHANGED <<req, lost>>
  /\ UNCHANGED <<app, result, status, sync, event_loop_mutex, xmpp>>

\* mio_handler_conn_generic, XMPP_CONN_CONNECT: after a reconnect all requests are
\* signalled and freed; a thread that has still to send its stanza goes on with it.
Up ==
  /\ Goto("up", "broadcast")
  /\ Respond("ok")
  /\ has_connected' = TRUE /\ retries' = 0
  /\ IF retries > 0
     THEN /\ req' = [r \in Requests |-> IF req[r] = "sent" THEN "done" ELSE req[r]]
          /\ lost' = {}
     ELSE UNCHANGED <<req, lost>>
  /\ UNCHANGED <<app, result, status, sync, event_loop_mutex, xmpp>>

\* XMPP_CONN_DISCONNECT before there was a connection ...
NeverUp ==
  /\ Goto("gone", "broadcast") /\ ~has_connected
  /\ Respond("error")
  /\ UNCHANGED <<app, result, status, sync, event_loop_mutex, xmpp, mio, req, lost>>

\* ... and after: with MIO_CONNECTION_RETRIES undefined it is always retried.
Lost ==
  /\ Goto("gone", "reconnect") /\ has_connected
  /\ touched' = (touched \/ (own /\ shd = "freed"))
  /\ UNCHANGED <<app, result, status, sync, event_loop_mutex, shd, xmpp, mio, req, lost>>

\* Fault: the old connection stays in the context's list; see OneConnection.
ReplaceOnly(new) ==
  /\ listed' = listed \cup {new} /\ live' = (live \cup {new}) \ {cur} /\ holder' = {new}
  /\ cur' = new /\ own' = FALSE

\* mio_reconnect: the old connection leaves the list, the new one takes its handlers
\* and its send queue, and the old one is freed.
Replace(new) ==
  /\ listed' = (listed \ {cur}) \cup {new} /\ live' = (live \cup {new}) \ {cur}
  /\ holder' = (holder \ {cur}) \cup {new}
  /\ cur' = new /\ own' = FALSE

\* Fault: the event loop is marked as running again; see LoopEnds.
ReconnectsRunning(accepted) ==
  /\ loop = "reconnect"
  /\ \E new \in Conns \ live : Replace(new)
  /\ retries' = IF retries < MaxRetries THEN retries + 1 ELSE retries
  /\ IF accepted THEN state' = "connecting" /\ loop' = "unlock" ELSE UNCHANGED <<state, loop>>
  /\ status' = "running"
  /\ UNCHANGED <<app, result, sync, event_loop_mutex, shd, has_connected, req, lost, touched>>

\* One turn of its loop: the attempt begins, or it is refused and, after
\* MIO_RECONNECTION_TIMEOUT_S, repeated.  loop_status is not looked at.
Reconnects(accepted) ==
  /\ loop = "reconnect"
  /\ \E new \in Conns \ live : Replace(new)
  /\ retries' = IF retries < MaxRetries THEN retries + 1 ELSE retries
  /\ IF accepted THEN state' = "connecting" /\ loop' = "unlock" ELSE UNCHANGED <<state, loop>>
  /\ UNCHANGED <<app, result, status, sync, event_loop_mutex, shd, has_connected, req, lost, touched>>

\* mio_cond_broadcast.
Broadcast ==
  /\ Goto("broadcast", "unlock") /\ conn_mutex = None
  /\ predicate' = TRUE /\ woken' = TRUE
  /\ UNCHANGED <<app, result, status, conn_mutex, event_loop_mutex, shd, xmpp, mio, req, lost, touched>>

Unlock ==
  /\ Goto("unlock", "test") /\ event_loop_mutex' = None
  /\ UNCHANGED <<app, result, status, sync, shd, xmpp, mio, req, lost, touched>>

-------------------------------------------------------------------------------

Connect == Attempt \/ Spawn \/ Wait \/ Wake \/ Reset \/ Deadline
Handler == Up \/ NeverUp \/ Lost \/ Broadcast
Round == Quiet \/ ReportUp \/ ReportGone

Next ==
  \/ Connect \/ Stop \/ Close
  \/ \E r \in Requests : Open(r) \/ Send(r) \/ Forget(r)
  \/ Test \/ Lock \/ Round \/ Handler \/ Unlock
  \/ \E accepted \in BOOLEAN : Reconnects(accepted)

Spec == Init /\ [][Next]_vars

\* Threads run, mutexes starve nobody, and a server that has been lost accepts some attempt.
FairSpec ==
  /\ Spec
  /\ WF_vars(Spawn \/ Wait \/ Wake \/ Reset \/ Deadline) /\ WF_vars(Close)
  /\ WF_vars(Test) /\ SF_vars(Lock) /\ WF_vars(Round) /\ WF_vars(Handler) /\ WF_vars(Unlock)
  /\ SF_vars(Reconnects(TRUE))
  /\ \A r \in Requests : SF_vars(Send(r))

-------------------------------------------------------------------------------
(* Properties *)

\* There is exactly one connection: allocated, in the context's list, with the handlers
\* and the queue, and it is the one conn points to, however often it was replaced.
OneConnection == TypeOK /\ listed = {cur} /\ live = {cur} /\ holder = {cur}

\* mio_connect returns MIO_OK only after the handler has seen XMPP_CONN_CONNECT.
OkIsConnected == result = "OK" => has_connected

\* The handler finds its data allocated and the response unread, unless mio_connect has
\* given up or, being late, has returned MIO_ERROR_PREDICATE (mio_user.c:302, "do not
\* free shd until disconnected").
HandlerDataLives == touched => result \in {"ERROR_TIMEOUT", "ERROR_PREDICATE"}

\* Once the new connection is up no request waits for an answer to a stanza that went
\* out on the old one (mio_handlers.c:384, "Trigger all remaining requests").
LostAreReleased == (state = "connected" /\ loop \in {"test", "lock"}) => lost = {}

\* mio_connect always returns.
ConnectReturns == app \in {"spawn", "lock", "wait", "reset"} ~> app = "returned"

\* A thread that wants event_loop_mutex to send gets it, reconnects in between or not.
SendersGetThrough == \A r \in Requests : req[r] = "open" ~> req[r] # "open"

\* mio_disconnect ends the event loop thread, even if it is reconnecting.
LoopEnds == app = "closed" ~> loop = "exit"

\* mio_connect, the senders and the loop thread all get on, whatever becomes of the
\* connection.
NothingHangs == ConnectReturns /\ SendersGetThrough /\ LoopEnds
===============================================================================
