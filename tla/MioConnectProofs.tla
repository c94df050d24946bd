---------------------------- MODULE MioConnectProofs ----------------------------
(***************************************************************************)
(* Theorems about MioConnect, for any number of blocks, requests and       *)
(* retries: there is one connection, MIO_OK means connected, the handler   *)
(* data outlives the handler's use of it, and what was sent on a lost      *)
(* connection is released.                                                 *)
(***************************************************************************)
EXTENDS MioConnect, TLAPS

\* The parts of OneConnection: Boolean variables, the others, and the one connection.
Flags == /\ predicate \in BOOLEAN /\ woken \in BOOLEAN /\ own \in BOOLEAN
         /\ has_connected \in BOOLEAN /\ touched \in BOOLEAN

Stages ==
  /\ conn_mutex # None => result = "ERROR_PREDICATE"
  /\ app \in {"idle", "spawn", "lock", "wait", "reset", "returned", "stopped", "closed"}
  /\ result \in {"none", "OK", "ERROR_CONNECTION", "ERROR_TIMEOUT", "ERROR_PREDICATE"}
  /\ loop \in {"none", "test", "lock", "round", "up", "gone", "reconnect", "broadcast",
              "unlock", "exit"}
  /\ status \in {"notstarted", "running", "quit"}
  /\ conn_mutex \in {"app", "loop", None} /\ event_loop_mutex \in {"loop", None}
  /\ shd \in {"none", "unknown", "ok", "error", "used", "freed"}
  /\ state \in {"disconnected", "connecting", "connected"}
  /\ retries \in 0..MaxRetries
  /\ req \in [Requests -> {"none", "open", "sent", "done"}] /\ lost \subseteq Requests

OneBlock == cur \in Conns /\ listed = {cur} /\ live = {cur} /\ holder = {cur}

\* The named parts are all of it.
LEMMA ConnectionParts == OneConnection <=> Flags /\ Stages /\ OneBlock
  BY DEF OneConnection, TypeOK, Flags, Stages, OneBlock

Unread == {"unknown", "freed"}

\* What mio_connect has returned where the application stands.
AppInv ==
  /\ app = "idle" => /\ loop = "none" /\ state = "disconnected" /\ own
                     /\ ~has_connected /\ ~woken
  /\ app = "spawn" => loop = "none"
  /\ app \in {"idle", "spawn", "lock", "wait"} => result = "none"
  /\ app \in {"stopped", "closed"} => result = "OK"

\* Where the loop thread stands tells the state of the connection.
LoopInv ==
  /\ loop = "up" => state = "connected"
  /\ loop = "gone" => state = "disconnected"
  /\ loop = "broadcast" => state # "connecting"
  /\ loop = "reconnect" => state = "disconnected" /\ has_connected
  /\ state = "connected" => loop = "up" \/ has_connected
  /\ ~own => has_connected

\* The handler data is unread until the handler has reported, and then never again.
DataInv ==
  /\ shd = "ok" => has_connected
  /\ shd = "freed" => result \in {"ERROR_TIMEOUT", "ERROR_PREDICATE"}
  /\ own /\ (\/ state = "connecting" \/ loop = "up"
             \/ (loop = "gone" /\ ~has_connected)) => shd \in Unread
  /\ (\/ has_connected \/ loop = "broadcast" \/ (app = "wait" /\ woken)
      \/ app = "reset") => shd \notin {"none", "unknown"}

\* Requests are opened on a connection that was up; those lost are on their way to be
\* released by the handler, which counts the retries.
RequestInv ==
  /\ \A r \in Requests : req[r] # "none" => has_connected
  /\ lost # {} => has_connected /\ (loop \in {"gone", "reconnect"} \/ retries > 0)
  /\ state = "connected" => loop = "up" \/ lost = {}

\* The inductive invariant.
IInv == /\ Flags /\ Stages /\ OneBlock /\ OkIsConnected /\ HandlerDataLives
        /\ AppInv /\ LoopInv /\ DataInv /\ RequestInv

-------------------------------------------------------------------------------
(* It holds at first, and every step keeps it. *)

\* mio_conn_new.
LEMMA InitIInv == ASSUME Init PROVE IInv
  <1>1. Flags  BY DEF Init, Flags
  <1>2. Stages  BY RetriesAssumption DEF Init, Stages
  <1>3. OneBlock  BY DEF Init, OneBlock
  <1>4. OkIsConnected /\ HandlerDataLives  BY DEF Init, OkIsConnected, HandlerDataLives
  <1>5. AppInv /\ LoopInv  BY DEF Init, AppInv, LoopInv
  <1>6. DataInv  BY DEF Init, DataInv, Unread
  <1>7. RequestInv  BY DEF Init, RequestInv
  <1> QED  BY <1>1, <1>2, <1>3, <1>4, <1>5, <1>6, <1>7 DEF IInv

\* mio_connect and mio_disconnect: the data is freed only by a call that fails.
LEMMA ConnectKeeps == ASSUME IInv, Connect \/ Stop \/ Close PROVE IInv'
  <1>1. CASE Attempt
    <2>1. (Flags /\ OneBlock)'  BY <1>1 DEF IInv, Attempt, Flags, OneBlock, sync, place, mio
    <2>2. Stages'  BY <1>1 DEF IInv, Attempt, Stages, AppInv, sync, mio
    <2>3. OkIsConnected'  BY <1>1 DEF IInv, Attempt, OkIsConnected, AppInv
    <2>4. HandlerDataLives'  BY <1>1 DEF IInv, Attempt, HandlerDataLives, AppInv
    <2>5. AppInv'  BY <1>1 DEF IInv, Attempt, AppInv
    <2>6. LoopInv'  BY <1>1 DEF IInv, Attempt, LoopInv, AppInv, place
    <2>7. DataInv'  BY <1>1 DEF IInv, Attempt, AppInv, DataInv, Unread, mio
    <2>8. RequestInv'  BY <1>1 DEF IInv, Attempt, AppInv, RequestInv
    <2> QED  BY <2>1, <2>2, <2>3, <2>4, <2>5, <2>6, <2>7, <2>8 DEF IInv
  <1>2. CASE Spawn
    <2>1. (Flags /\ OneBlock /\ OkIsConnected /\ HandlerDataLives)'
          BY <1>2 DEF IInv, Spawn, Flags, OneBlock, OkIsConnected, HandlerDataLives, sync,
            xmpp, place, mio
    <2>2. Stages'  BY <1>2 DEF IInv, Spawn, Stages, sync, xmpp, mio
    <2>3. AppInv'  BY <1>2 DEF IInv, Spawn, AppInv
    <2>4. LoopInv'  BY <1>2 DEF IInv, Spawn, LoopInv, AppInv, xmpp, place, mio
    <2>5. DataInv'  BY <1>2 DEF IInv, Spawn, DataInv, xmpp, place, mio
    <2>6. RequestInv'  BY <1>2 DEF IInv, Spawn, AppInv, RequestInv, xmpp, mio
    <2> QED  BY <2>1, <2>2, <2>3, <2>4, <2>5, <2>6 DEF IInv
  <1>3. CASE Wait
    <2>1. (OneBlock /\ LoopInv /\ RequestInv)'
          BY <1>3 DEF IInv, Wait, OneBlock, LoopInv, RequestInv, xmpp, place, mio
    <2>2. Flags'  BY <1>3 DEF IInv, Wait, Flags, xmpp, place, mio
    <2>3. Stages'  BY <1>3 DEF IInv, Wait, Stages, xmpp, mio
    <2>4. OkIsConnected'  BY <1>3 DEF IInv, Wait, OkIsConnected, AppInv
    <2>5. HandlerDataLives'  BY <1>3 DEF IInv, Wait, HandlerDataLives
    <2>6. AppInv'  BY <1>3 DEF IInv, Wait, AppInv
    <2>7. DataInv'  BY <1>3 DEF IInv, Wait, DataInv, Unread, xmpp, place, mio
    <2> QED  BY <2>1, <2>2, <2>3, <2>4, <2>5, <2>6, <2>7 DEF IInv
  <1>4. CASE Wake
    <2>1. (Flags /\ OneBlock /\ LoopInv /\ RequestInv)'
          BY <1>4 DEF IInv, Wake, Flags, OneBlock, LoopInv, RequestInv, sync, xmpp, place,
            mio
    <2>2. Stages'  BY <1>4 DEF IInv, Wake, Outcome, Stages, sync, xmpp, mio
    <2>3. OkIsConnected'  BY <1>4 DEF IInv, Wake, Outcome, OkIsConnected, DataInv, mio
    <2>4. HandlerDataLives'  BY <1>4 DEF IInv, Wake, HandlerDataLives, AppInv
    <2>5. AppInv'  BY <1>4 DEF IInv, Wake, AppInv
    <2>6. DataInv'  BY <1>4 DEF IInv, Wake, AppInv, DataInv, xmpp, place, mio
    <2> QED  BY <2>1, <2>2, <2>3, <2>4, <2>5, <2>6 DEF IInv
  <1>5. CASE Reset
    <2>1. (OneBlock /\ OkIsConnected /\ HandlerDataLives /\ LoopInv /\ RequestInv)'
          BY <1>5 DEF IInv, Reset, OneBlock, OkIsConnected, HandlerDataLives, LoopInv,
            RequestInv, xmpp, place, mio
    <2>2. Flags'  BY <1>5 DEF IInv, Reset, Flags, xmpp, place, mio
    <2>3. Stages'  BY <1>5 DEF IInv, Reset, Stages, xmpp, mio
    <2>4. AppInv'  BY <1>5 DEF IInv, Reset, AppInv
    <2>5. DataInv'  BY <1>5 DEF IInv, Reset, DataInv, Unread, xmpp, place, mio
    <2> QED  BY <2>1, <2>2, <2>3, <2>4, <2>5 DEF IInv
  <1>6. CASE Deadline
    <2>1. (OneBlock /\ LoopInv /\ RequestInv)'
          BY <1>6 DEF IInv, Deadline, OneBlock, LoopInv, RequestInv, xmpp, place, mio
    <2>2. Flags'  BY <1>6 DEF IInv, Deadline, Flags, xmpp, place, mio
    <2>3. Stages'  BY <1>6 DEF IInv, Deadline, Stages, xmpp, mio
    <2>4. OkIsConnected'  BY <1>6 DEF IInv, Deadline, OkIsConnected
    <2>5. HandlerDataLives'  BY <1>6 DEF IInv, Deadline, HandlerDataLives
    <2>6. AppInv'  BY <1>6 DEF IInv, Deadline, AppInv
    <2>7. DataInv'  BY <1>6 DEF IInv, Deadline, DataInv, Unread
    <2> QED  BY <2>1, <2>2, <2>3, <2>4, <2>5, <2>6, <2>7 DEF IInv
  <1>7. CASE Stop
    <2>1. (Flags /\ OneBlock /\ OkIsConnected /\ HandlerDataLives /\ LoopInv /\ RequestInv)'
          BY <1>7 DEF IInv, Stop, Flags, OneBlock, OkIsConnected, HandlerDataLives, LoopInv,
            RequestInv, sync, xmpp, place, mio
    <2>2. Stages'  BY <1>7 DEF IInv, Stop, Stages, sync, xmpp, mio
    <2>3. AppInv'  BY <1>7 DEF IInv, Stop, AppInv
    <2>4. DataInv'  BY <1>7 DEF IInv, Stop, DataInv, xmpp, place, mio
    <2> QED  BY <2>1, <2>2, <2>3, <2>4 DEF IInv
  <1>8. CASE Close
    <2>1. (Flags /\ OneBlock /\ OkIsConnected /\ HandlerDataLives /\ LoopInv /\ RequestInv)'
          BY <1>8 DEF IInv, Close, Flags, OneBlock, OkIsConnected, HandlerDataLives,
            LoopInv, RequestInv, sync, xmpp, place, mio
    <2>2. Stages'  BY <1>8 DEF IInv, Close, Stages, sync, xmpp, mio
    <2>3. AppInv'  BY <1>8 DEF IInv, Close, AppInv
    <2>4. DataInv'  BY <1>8 DEF IInv, Close, DataInv, xmpp, place, mio
    <2> QED  BY <2>1, <2>2, <2>3, <2>4 DEF IInv
  <1> QED  BY <1>1, <1>2, <1>3, <1>4, <1>5, <1>6, <1>7, <1>8 DEF Connect

\* The threads that send.
LEMMA RequestsKeep ==
  ASSUME IInv, \E r \in Requests : Open(r) \/ Send(r) \/ Forget(r)
  PROVE  IInv'
  <1>1. ASSUME NEW r \in Requests, Open(r) PROVE IInv'
    <2>1. (Flags /\ OneBlock /\ OkIsConnected /\ HandlerDataLives /\ AppInv /\ LoopInv
             /\ DataInv)'
          BY <1>1 DEF IInv, Open, Flags, OneBlock, OkIsConnected, HandlerDataLives, AppInv,
            LoopInv, DataInv, sync, xmpp, place, mio
    <2>2. Stages'  BY <1>1 DEF IInv, Open, Stages, sync, xmpp, mio
    <2>3. RequestInv'  BY <1>1 DEF IInv, Open, OkIsConnected, RequestInv, xmpp, mio
    <2> QED  BY <2>1, <2>2, <2>3 DEF IInv
  <1>2. ASSUME NEW r \in Requests, Send(r) PROVE IInv'
    <2>1. (Flags /\ OneBlock /\ OkIsConnected /\ HandlerDataLives /\ AppInv /\ LoopInv
             /\ DataInv)'
          BY <1>2 DEF IInv, Send, Flags, OneBlock, OkIsConnected, HandlerDataLives, AppInv,
            LoopInv, DataInv, sync, xmpp, place, mio
    <2>2. Stages'  BY <1>2 DEF IInv, Send, Stages, sync, xmpp, mio
    <2>3. RequestInv'  BY <1>2 DEF IInv, Send, RequestInv, xmpp, mio
    <2> QED  BY <2>1, <2>2, <2>3 DEF IInv
  <1>3. ASSUME NEW r \in Requests, Forget(r) PROVE IInv'
    <2>1. (Flags /\ OneBlock /\ OkIsConnected /\ HandlerDataLives /\ AppInv /\ LoopInv
             /\ DataInv)'
          BY <1>3 DEF IInv, Forget, Flags, OneBlock, OkIsConnected, HandlerDataLives,
            AppInv, LoopInv, DataInv, sync, xmpp, place, mio
    <2>2. Stages'  BY <1>3 DEF IInv, Forget, Stages, sync, xmpp, mio
    <2>3. RequestInv'  BY <1>3 DEF IInv, Forget, RequestInv, xmpp, mio
    <2> QED  BY <2>1, <2>2, <2>3 DEF IInv
  <1> QED  BY <1>1, <1>2, <1>3

\* A round of the loop, but for the handler.
LEMMA LoopKeeps == ASSUME IInv, Test \/ Lock \/ Round \/ Unlock PROVE IInv'
  <1>1. CASE Test
    <2>1. (Flags /\ OneBlock /\ OkIsConnected /\ HandlerDataLives)'
          BY <1>1 DEF IInv, Test, Flags, OneBlock, OkIsConnected, HandlerDataLives, sync,
            xmpp, place, mio
    <2>2. Stages'  BY <1>1 DEF IInv, Test, Stages, sync, xmpp, mio
    <2>3. AppInv'  BY <1>1 DEF IInv, Test, AppInv
    <2>4. LoopInv'  BY <1>1 DEF IInv, Test, LoopInv, xmpp, place, mio
    <2>5. DataInv'  BY <1>1 DEF IInv, Test, DataInv, sync, xmpp, place, mio
    <2>6. RequestInv'  BY <1>1 DEF IInv, Test, RequestInv, xmpp, mio
    <2> QED  BY <2>1, <2>2, <2>3, <2>4, <2>5, <2>6 DEF IInv
  <1>2. CASE Lock
    <2>1. (Flags /\ OneBlock /\ OkIsConnected /\ HandlerDataLives)'
          BY <1>2 DEF IInv, Lock, Flags, OneBlock, OkIsConnected, HandlerDataLives, sync,
            xmpp, place, mio
    <2>2. Stages'  BY <1>2 DEF IInv, Lock, Goto, Stages, sync, xmpp, mio
    <2>3. AppInv'  BY <1>2 DEF IInv, Lock, Goto, AppInv
    <2>4. LoopInv'  BY <1>2 DEF IInv, Lock, Goto, LoopInv, xmpp, place, mio
    <2>5. DataInv'  BY <1>2 DEF IInv, Lock, Goto, DataInv, sync, xmpp, place, mio
    <2>6. RequestInv'  BY <1>2 DEF IInv, Lock, Goto, RequestInv, xmpp, mio
    <2> QED  BY <2>1, <2>2, <2>3, <2>4, <2>5, <2>6 DEF IInv
  <1>3. CASE Quiet
    <2>1. (Flags /\ OneBlock /\ OkIsConnected /\ HandlerDataLives)'
          BY <1>3 DEF IInv, Quiet, Flags, OneBlock, OkIsConnected, HandlerDataLives, sync,
            xmpp, place, mio
    <2>2. Stages'  BY <1>3 DEF IInv, Quiet, Goto, Stages, sync, xmpp, mio
    <2>3. AppInv'  BY <1>3 DEF IInv, Quiet, Goto, AppInv
    <2>4. LoopInv'  BY <1>3 DEF IInv, Quiet, Goto, LoopInv, xmpp, place, mio
    <2>5. DataInv'  BY <1>3 DEF IInv, Quiet, Goto, DataInv, sync, xmpp, place, mio
    <2>6. RequestInv'  BY <1>3 DEF IInv, Quiet, Goto, RequestInv, xmpp, mio
    <2> QED  BY <2>1, <2>2, <2>3, <2>4, <2>5, <2>6 DEF IInv
  <1>4. CASE ReportUp
    <2>1. (Flags /\ OneBlock /\ OkIsConnected /\ HandlerDataLives)'
          BY <1>4 DEF IInv, ReportUp, Flags, OneBlock, OkIsConnected, HandlerDataLives,
            sync, place, mio
    <2>2. Stages'  BY <1>4 DEF IInv, ReportUp, Goto, Stages, sync, mio
    <2>3. AppInv'  BY <1>4 DEF IInv, ReportUp, Goto, AppInv
    <2>4. LoopInv'  BY <1>4 DEF IInv, ReportUp, Goto, LoopInv, place, mio
    <2>5. DataInv'  BY <1>4 DEF IInv, ReportUp, Goto, DataInv, sync, place, mio
    <2>6. RequestInv'  BY <1>4 DEF IInv, ReportUp, Goto, RequestInv, mio
    <2> QED  BY <2>1, <2>2, <2>3, <2>4, <2>5, <2>6 DEF IInv
  <1>5. CASE ReportGone
    <2>1. (Flags /\ OneBlock /\ OkIsConnected /\ HandlerDataLives)'
          BY <1>5 DEF IInv, ReportGone, Flags, OneBlock, OkIsConnected, HandlerDataLives,
            sync, place, mio
    <2>2. Stages'  BY <1>5 DEF IInv, ReportGone, Goto, Stages, sync, mio
    <2>3. AppInv'  BY <1>5 DEF IInv, ReportGone, Goto, AppInv
    <2>4. LoopInv'  BY <1>5 DEF IInv, ReportGone, Goto, LoopInv, place, mio
    <2>5. DataInv'  BY <1>5 DEF IInv, ReportGone, Goto, Stages, LoopInv, DataInv, sync, mio
    <2>6. RequestInv'  BY <1>5 DEF IInv, ReportGone, Goto, RequestInv, mio
    <2> QED  BY <2>1, <2>2, <2>3, <2>4, <2>5, <2>6 DEF IInv
  <1>6. CASE Unlock
    <2>1. (Flags /\ OneBlock /\ OkIsConnected /\ HandlerDataLives)'
          BY <1>6 DEF IInv, Unlock, Flags, OneBlock, OkIsConnected, HandlerDataLives, sync,
            xmpp, place, mio
    <2>2. Stages'  BY <1>6 DEF IInv, Unlock, Goto, Stages, sync, xmpp, mio
    <2>3. AppInv'  BY <1>6 DEF IInv, Unlock, Goto, AppInv
    <2>4. LoopInv'  BY <1>6 DEF IInv, Unlock, Goto, LoopInv, xmpp, place, mio
    <2>5. DataInv'  BY <1>6 DEF IInv, Unlock, Goto, DataInv, sync, xmpp, place, mio
    <2>6. RequestInv'  BY <1>6 DEF IInv, Unlock, Goto, RequestInv, xmpp, mio
    <2> QED  BY <2>1, <2>2, <2>3, <2>4, <2>5, <2>6 DEF IInv
  <1> QED  BY <1>1, <1>2, <1>3, <1>4, <1>5, <1>6 DEF Round

\* The connection handler, and mio_reconnect in it.
LEMMA HandlerKeeps == ASSUME IInv, Handler \/ (\E b \in BOOLEAN : Reconnects(b)) PROVE IInv'
  <1>1. CASE Up
    <2>1. OneBlock'  BY <1>1 DEF IInv, Up, OneBlock, xmpp, place
    <2>2. Flags'  BY <1>1 DEF IInv, Up, Respond, Flags, sync, xmpp, place
    <2>3. Stages'
          BY <1>1, RetriesAssumption DEF IInv, Up, Goto, Respond, Stages, sync, xmpp
    <2>4. OkIsConnected'  BY <1>1 DEF IInv, Up, OkIsConnected
    <2>5. HandlerDataLives'
          BY <1>1 DEF IInv, Up, Goto, Respond, HandlerDataLives, DataInv, Unread
    <2>6. AppInv'  BY <1>1 DEF IInv, Up, Goto, AppInv
    <2>7. LoopInv'  BY <1>1 DEF IInv, Up, Goto, LoopInv, xmpp
    <2>8. DataInv'  BY <1>1 DEF IInv, Up, Goto, Respond, LoopInv, DataInv, xmpp
    <2>9. RequestInv'  BY <1>1 DEF IInv, Up, Goto, RequestInv
    <2> QED  BY <2>1, <2>2, <2>3, <2>4, <2>5, <2>6, <2>7, <2>8, <2>9 DEF IInv
  <1>2. CASE NeverUp
    <2>1. (OneBlock /\ OkIsConnected)'
          BY <1>2 DEF IInv, NeverUp, OneBlock, OkIsConnected, xmpp, place
    <2>2. Flags'  BY <1>2 DEF IInv, NeverUp, Respond, Flags, sync, xmpp, place, mio
    <2>3. Stages'  BY <1>2 DEF IInv, NeverUp, Goto, Respond, Stages, sync, xmpp, mio
    <2>4. HandlerDataLives'
          BY <1>2 DEF IInv, NeverUp, Goto, Respond, HandlerDataLives, DataInv, Unread
    <2>5. AppInv'  BY <1>2 DEF IInv, NeverUp, Goto, AppInv
    <2>6. LoopInv'  BY <1>2 DEF IInv, NeverUp, Goto, LoopInv, xmpp, place
    <2>7. DataInv'  BY <1>2 DEF IInv, NeverUp, Goto, Respond, LoopInv, DataInv, xmpp
    <2>8. RequestInv'  BY <1>2 DEF IInv, NeverUp, RequestInv
    <2> QED  BY <2>1, <2>2, <2>3, <2>4, <2>5, <2>6, <2>7, <2>8 DEF IInv
  <1>3. CASE Lost
    <2>1. (OneBlock /\ OkIsConnected)'
          BY <1>3 DEF IInv, Lost, OneBlock, OkIsConnected, xmpp, place, mio
    <2>2. Flags'  BY <1>3 DEF IInv, Lost, Flags, sync, xmpp, place, mio
    <2>3. Stages'  BY <1>3 DEF IInv, Lost, Goto, Stages, sync, xmpp, mio
    <2>4. HandlerDataLives'  BY <1>3 DEF IInv, Lost, HandlerDataLives, DataInv
    <2>5. AppInv'  BY <1>3 DEF IInv, Lost, Goto, AppInv
    <2>6. LoopInv'  BY <1>3 DEF IInv, Lost, Goto, LoopInv, xmpp, mio
    <2>7. DataInv'  BY <1>3 DEF IInv, Lost, Goto, LoopInv, DataInv, xmpp, mio
    <2>8. RequestInv'  BY <1>3 DEF IInv, Lost, Goto, RequestInv, xmpp, mio
    <2> QED  BY <2>1, <2>2, <2>3, <2>4, <2>5, <2>6, <2>7, <2>8 DEF IInv
  <1>4. CASE Broadcast
    <2>1. (OneBlock /\ OkIsConnected /\ HandlerDataLives)'
          BY <1>4 DEF IInv, Broadcast, OneBlock, OkIsConnected, HandlerDataLives, xmpp,
            place, mio
    <2>2. Flags'  BY <1>4 DEF IInv, Broadcast, Flags, xmpp, place, mio
    <2>3. Stages'  BY <1>4 DEF IInv, Broadcast, Goto, Stages, xmpp, mio
    <2>4. AppInv'  BY <1>4 DEF IInv, Broadcast, Goto, AppInv
    <2>5. LoopInv'  BY <1>4 DEF IInv, Broadcast, Goto, LoopInv, xmpp, place, mio
    <2>6. DataInv'  BY <1>4 DEF IInv, Broadcast, Goto, LoopInv, DataInv, xmpp, mio
    <2>7. RequestInv'  BY <1>4 DEF IInv, Broadcast, Goto, RequestInv, xmpp, mio
    <2> QED  BY <2>1, <2>2, <2>3, <2>4, <2>5, <2>6, <2>7 DEF IInv
  <1>5. ASSUME NEW b \in BOOLEAN, Reconnects(b) PROVE IInv'
    <2>1. (OkIsConnected /\ HandlerDataLives)'
          BY <1>5 DEF IInv, Reconnects, OkIsConnected, HandlerDataLives
    <2>2. Flags'  BY <1>5 DEF IInv, Reconnects, Replace, Flags, sync
    <2>3. Stages'  BY <1>5, RetriesAssumption DEF IInv, Reconnects, Stages, sync
    <2>4. OneBlock'  BY <1>5 DEF IInv, Reconnects, Replace, OneBlock
    <2>5. AppInv'  BY <1>5 DEF IInv, Reconnects, AppInv
    <2>6. LoopInv'  BY <1>5 DEF IInv, Reconnects, LoopInv
    <2>7. DataInv'  BY <1>5 DEF IInv, Reconnects, Replace, LoopInv, DataInv
    <2>8. RequestInv'  BY <1>5, RetriesAssumption DEF IInv, Reconnects, Stages, RequestInv
    <2> QED  BY <2>1, <2>2, <2>3, <2>4, <2>5, <2>6, <2>7, <2>8 DEF IInv
  <1> QED  BY <1>1, <1>2, <1>3, <1>4, <1>5 DEF Handler

\* Nothing happens.
LEMMA StutterKeeps == ASSUME IInv, UNCHANGED vars PROVE IInv'
  <1>1. (Flags /\ Stages /\ OneBlock)'
        BY DEF IInv, Flags, Stages, OneBlock, vars, sync, xmpp, place, mio
  <1>2. (OkIsConnected /\ HandlerDataLives /\ AppInv /\ LoopInv)'
        BY DEF IInv, OkIsConnected, HandlerDataLives, AppInv, LoopInv, vars, sync, xmpp,
          place, mio
  <1>3. (DataInv /\ RequestInv)'
        BY DEF IInv, DataInv, RequestInv, vars, sync, xmpp, place, mio
  <1> QED  BY <1>1, <1>2, <1>3 DEF IInv

LEMMA StepKeepsIInv == IInv /\ [Next]_vars => IInv'
  <1> SUFFICES ASSUME IInv, [Next]_vars PROVE IInv'  OBVIOUS
  <1>1. CASE Connect \/ Stop \/ Close  BY <1>1, ConnectKeeps
  <1>2. CASE \E r \in Requests : Open(r) \/ Send(r) \/ Forget(r)  BY <1>2, RequestsKeep
  <1>3. CASE Test \/ Lock \/ Round \/ Unlock  BY <1>3, LoopKeeps
  <1>4. CASE Handler \/ (\E b \in BOOLEAN : Reconnects(b))  BY <1>4, HandlerKeeps
  <1>5. CASE UNCHANGED vars  BY <1>5, StutterKeeps
  <1> QED  BY <1>1, <1>2, <1>3, <1>4, <1>5 DEF Next

\* The invariant holds in every state.
LEMMA InvariantHolds == Spec => []IInv
  BY InitIInv, StepKeepsIInv, PTL DEF Spec

-------------------------------------------------------------------------------
(* Theorems *)

\* However often mio_reconnect replaces it, there is one connection, with the handlers
\* and the queue (mio_user.c, mio_reconnect).
THEOREM ConnectionIsOne == Spec => []OneConnection
  <1>1. IInv => OneConnection  BY ConnectionParts DEF IInv
  <1> QED  BY <1>1, InvariantHolds, PTL

\* mio_connect returns MIO_OK only if the handler has seen XMPP_CONN_CONNECT.
THEOREM OkMeansConnected == Spec => []OkIsConnected
  <1>1. IInv => OkIsConnected  BY DEF IInv
  <1> QED  BY <1>1, InvariantHolds, PTL

\* The handler finds its data allocated unless mio_connect has returned an error that
\* frees it early (mio_user.c:294, :302, :320).
THEOREM DataOutlivesHandler == Spec => []HandlerDataLives
  <1>1. IInv => HandlerDataLives  BY DEF IInv
  <1> QED  BY <1>1, InvariantHolds, PTL

\* Once a new connection is up, nobody waits for answers from the old one
\* (mio_handlers.c:384).
THEOREM LostRequestsAreReleased == Spec => []LostAreReleased
  <1>1. IInv => LostAreReleased  BY DEF IInv, RequestInv, LostAreReleased
  <1> QED  BY <1>1, InvariantHolds, PTL
=================================================================================
