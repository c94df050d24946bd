------------------------------ MODULE StropheAuth ------------------------------
(***************************************************************************)
(* How libstrophe negotiates a stream, from the connected socket to the    *)
(* event XMPP_CONN_CONNECT: features, TLS, one SASL mechanism after the    *)
(* other, the restart of the stream, bind, session, and the legacy login.  *)
(* Each step is a handler that removes itself and registers the next one,  *)
(* often with a timer for a server that does not answer.                   *)
(*                                                                         *)
(* Handlers are known by their functions, as in handler.c, which keeps one *)
(* item per function.  A timer may fire at any time after it was set: the  *)
(* lengths of the timers are not compared.                                 *)
(***************************************************************************)
EXTENDS Integers, Sequences, FiniteSets

CONSTANTS
  Jids,           \* the shapes of address to connect with
  MaxChallenges,  \* bound: SASL challenges the server sends
  None            \* no stanza is being handled

ASSUME JidsAssumption == Jids \subseteq {"anonymous", "bare", "full"}
ASSUME ChallengeAssumption == MaxChallenges \in Nat

VARIABLES
  jid,               \* without a node, without a resource, or with both
  state,             \* CONNECTED or DISCONNECTED
  secured,           \* the stream runs over TLS
  tls_support,       \* the server has offered TLS and it has not been tried
  sasl_support,      \* the mechanisms offered and not yet tried
  bind_required,
  session_required,
  authenticated,
  open_handler,      \* what is called when the server opens a stream
  handlers,          \* the stanza handlers that are registered
  ids,               \* the id handlers that are registered
  timed,             \* the timed handlers that are registered
  cur,               \* the stanza that is being handled
  todo,              \* the handlers it has yet to be given to
  pending,           \* what the server has been sent and has not reacted to
  challenges,        \* number of challenges so far
  connects,          \* auxiliary: number of XMPP_CONN_CONNECT events
  accepted,          \* auxiliary: the requests the server has granted
  tries,             \* auxiliary: how often each method was requested
  fired,             \* auxiliary: a timer has fired
  refused            \* auxiliary: the server has refused TLS

flagVars == <<secured, tls_support, sasl_support, bind_required, session_required>>
auxVars == <<accepted, tries, fired, refused>>
eventVars == <<state, authenticated, connects>>
vars == <<jid, flagVars, eventVars, open_handler, handlers, ids, timed, cur, todo,
          pending, challenges, auxVars>>

Mechanisms == {"ANONYMOUS", "DIGEST-MD5", "PLAIN"}
Offer == [tls : BOOLEAN, sasl : SUBSET Mechanisms, bind : BOOLEAN, session : BOOLEAN]
NoOffer == [tls |-> FALSE, sasl |-> {}, bind |-> FALSE, session |-> FALSE]
Iq == {"bind", "session", "legacy"}
Stanza == [kind : {"features", "tls", "sasl"} \cup Iq,
           name : {"features", "proceed", "success", "failure", "challenge", "result", "error",
                   "other"},
           offer : Offer]

ASSUME NoneAssumption == None \notin Stanza

SaslHandlers == {"_handle_sasl_result", "_handle_digestmd5_challenge", "_handle_digestmd5_rspauth"}
StanzaHandlers == {"_handle_features", "_handle_features_sasl", "_handle_proceedtls_default"}
                  \cup SaslHandlers
IdHandlers == {"_handle_bind", "_handle_session", "_handle_legacy"}
TimedHandlers == {"_handle_missing_features", "_handle_missing_features_sasl",
                  "_handle_missing_bind", "_handle_missing_session",
                  "_handle_missing_legacy", "_disconnect_cleanup"}

Methods == Mechanisms \cup {"starttls"}
Requests == Methods \cup Iq \cup {"open", "features", "response", "close"}

TypeOK ==
  /\ jid \in Jids
  /\ state \in {"CONNECTED", "DISCONNECTED"}
  /\ secured \in BOOLEAN /\ tls_support \in BOOLEAN
  /\ sasl_support \in SUBSET Mechanisms
  /\ bind_required \in BOOLEAN /\ session_required \in BOOLEAN
  /\ authenticated \in BOOLEAN
  /\ open_handler \in {"auth_handle_open", "_handle_open_sasl"}
  /\ handlers \in SUBSET StanzaHandlers
  /\ ids \in SUBSET IdHandlers
  /\ timed \in SUBSET TimedHandlers
  /\ cur \in Stanza \cup {None}
  /\ todo \in SUBSET (StanzaHandlers \cup IdHandlers)
  /\ todo = {} <=> cur = None
  /\ pending \in Seq(Requests)
  /\ challenges \in 0..MaxChallenges
  /\ connects \in Nat
  /\ accepted \in SUBSET ({"sasl"} \cup Iq)
  /\ tries \in [Methods -> Nat]
  /\ fired \in BOOLEAN /\ refused \in BOOLEAN

\* The connection is complete and conn_open_stream has sent the first tag.
Init ==
  /\ jid \in Jids
  /\ state = "CONNECTED"
  /\ secured = FALSE /\ tls_support = FALSE /\ sasl_support = {}
  /\ bind_required = FALSE /\ session_required = FALSE
  /\ authenticated = FALSE
  /\ open_handler = "auth_handle_open"
  /\ handlers = {} /\ ids = {} /\ timed = {}
  /\ cur = None /\ todo = {}
  /\ pending = <<"open">>
  /\ challenges = 0 /\ connects = 0
  /\ accepted = {} /\ tries = [m \in Methods |-> 0]
  /\ fired = FALSE /\ refused = FALSE

-------------------------------------------------------------------------------
(* What handlers do *)

\* xmpp_send: the server reacts to what it is sent in order.
Send(request) == pending' = Append(pending, request)

\* The timers that a handler deletes before it does anything else.
Guards(self) ==
  CASE self = "_handle_features" -> {"_handle_missing_features"}
    [] self = "_handle_features_sasl" -> {"_handle_missing_features_sasl"}
    [] self = "_handle_bind" -> {"_handle_missing_bind"}
    [] self = "_handle_session" -> {"_handle_missing_session"}
    [] self = "_handle_legacy" -> {"_handle_missing_legacy"}
    [] OTHER -> {}

\* Fault: the timer is not deleted; see ConnectedIsClean.
ReplaceKeepsTimer(self, hs, is, ts) ==
  /\ handlers' = (handlers \cup hs) \ {self}
  /\ ids' = (ids \cup is) \ {self}
  /\ timed' = (timed \cup ts) \ {self}

\* The handler `self` registers others and returns 0.  It is still in its list
\* when it does, and a list takes no second item for the same function.
Replace(self, hs, is, ts) ==
  /\ handlers' = (handlers \cup hs) \ {self}
  /\ ids' = (ids \cup is) \ {self}
  /\ timed' = ((timed \ Guards(self)) \cup ts) \ {self}

\* xmpp_disconnect closes the stream, and sets a timer in case the server does not.
Disconnect(self) == Send("close") /\ Replace(self, {}, {}, {"_disconnect_cleanup"})

Try(method) == Send(method) /\ tries' = [tries EXCEPT ![method] = @ + 1]

\* conn_prepare_reset and conn_open_stream.
Restart(self, handler) ==
  open_handler' = handler /\ Send("open") /\ Replace(self, {}, {}, {})

-------------------------------------------------------------------------------
(* _auth, called by `self`: the next method of those the server has offered *)

AuthTls(self) ==
  Try("starttls") /\ Replace(self, {"_handle_proceedtls_default"}, {}, {})

AuthSasl(self, mechanism, handler) == Try(mechanism) /\ Replace(self, {handler}, {}, {})

\* The legacy login needs a resource.
AuthLegacy(self) ==
  \/ /\ jid = "full"
     /\ Send("legacy")
     /\ Replace(self, {}, {"_handle_legacy"}, {"_handle_missing_legacy"})
  \/ jid = "bare" /\ Disconnect(self)

\* The method that is next when TLS and these mechanisms are left to try.
Method(tls, sasl) ==
  CASE tls -> "starttls"
    [] ~tls /\ jid = "anonymous" -> IF "ANONYMOUS" \in sasl THEN "ANONYMOUS" ELSE "none"
    [] ~tls /\ jid # "anonymous" -> IF "DIGEST-MD5" \in sasl THEN "DIGEST-MD5"
                                    ELSE IF "PLAIN" \in sasl THEN "PLAIN" ELSE "legacy"

AuthBy(self, method) ==
  \/ method = "starttls" /\ AuthTls(self)
  \/ method = "DIGEST-MD5" /\ AuthSasl(self, method, "_handle_digestmd5_challenge")
  \/ method \in {"ANONYMOUS", "PLAIN"} /\ AuthSasl(self, method, "_handle_sasl_result")
  \/ method = "legacy" /\ AuthLegacy(self) /\ UNCHANGED tries
  \/ method = "none" /\ Disconnect(self) /\ UNCHANGED tries

\* Fault: the flag of the mechanism is not cleared; see NoMethodTwice.
AuthKeepsFlag(self, tls, sasl) ==
  \E t \in {tls, FALSE} :
    /\ AuthBy(self, Method(t, sasl))
    /\ tls_support' = FALSE
    /\ sasl_support' = sasl

\* When tls_new fails TLS is taken for not offered.  What is tried is not left.
Auth(self, tls, sasl) ==
  \E t \in {tls, FALSE} :
    /\ AuthBy(self, Method(t, sasl))
    /\ tls_support' = FALSE
    /\ sasl_support' = sasl \ {Method(t, sasl)}

-------------------------------------------------------------------------------
(* handler_fire_stanza and the stanza handlers *)

\* A namespace filter matches the stanza or a child of it, and features have
\* children in the namespaces of TLS and SASL.
Matches(h, s) ==
  CASE h \in {"_handle_features", "_handle_features_sasl"} -> s.kind = "features"
    [] h = "_handle_proceedtls_default" -> s.kind = "tls" \/ s.offer.tls
    [] h \in SaslHandlers -> s.kind = "sasl" \/ s.offer.sasl # {}
    [] h = "_handle_bind" -> s.kind = "bind"
    [] h = "_handle_session" -> s.kind = "session"
    [] h = "_handle_legacy" -> s.kind = "legacy"

\* The walk calls the handlers that were registered when it began.
Fire(s) ==
  /\ todo' = {h \in handlers \cup ids : Matches(h, s)}
  /\ cur' = IF todo' = {} THEN None ELSE s

\* Fault: the stanza is kept after its last handler, which TypeOK must reject.
CalledKeepsStanza(h) == h \in todo /\ todo' = todo \ {h} /\ UNCHANGED cur

Called(h) ==
  /\ h \in todo
  /\ todo' = todo \ {h}
  /\ cur' = IF todo' = {} THEN None ELSE cur

HandleFeatures ==
  /\ Called("_handle_features")
  /\ Auth("_handle_features", tls_support \/ (~secured /\ cur.offer.tls),
          sasl_support \cup cur.offer.sasl)
  /\ UNCHANGED <<jid, secured, bind_required, session_required, eventVars, open_handler,
                 challenges, accepted, fired, refused>>

\* Only an answer "proceed" is acted upon; starting TLS may fail.
HandleProceedTls ==
  /\ Called("_handle_proceedtls_default")
  /\ \/ /\ cur.name = "proceed" /\ secured' = TRUE
        /\ Restart("_handle_proceedtls_default", "auth_handle_open")
     \/ /\ cur.name = "proceed" /\ Disconnect("_handle_proceedtls_default")
        /\ UNCHANGED <<secured, open_handler>>
     \/ /\ cur.name # "proceed" /\ Replace("_handle_proceedtls_default", {}, {}, {})
        /\ UNCHANGED <<secured, open_handler, pending>>
  /\ UNCHANGED <<jid, tls_support, sasl_support, bind_required, session_required, eventVars,
                 challenges, auxVars>>

\* _handle_sasl_result, also called by the handlers of DIGEST-MD5.
SaslResult(self) ==
  \/ /\ cur.name = "failure" /\ Auth(self, tls_support, sasl_support)
     /\ UNCHANGED open_handler
  \/ /\ cur.name = "success" /\ Restart(self, "_handle_open_sasl")
     /\ UNCHANGED <<tls_support, sasl_support, tries>>
  \/ /\ cur.name \notin {"success", "failure"} /\ Disconnect(self)
     /\ UNCHANGED <<open_handler, tls_support, sasl_support, tries>>

\* The answer to the first challenge may fail to be computed.
DigestChallenge(self) ==
  /\ cur.name = "challenge"
  /\ \/ Send("response") /\ Replace(self, {"_handle_digestmd5_rspauth"}, {}, {})
     \/ Disconnect(self)
  /\ UNCHANGED <<open_handler, tls_support, sasl_support, tries>>

\* This one returns 1 and stays registered.
DigestRspauth ==
  /\ cur.name = "challenge"
  /\ Send("response")
  /\ UNCHANGED <<handlers, ids, timed, open_handler, tls_support, sasl_support, tries>>

HandleSasl ==
  /\ \E h \in SaslHandlers :
       /\ Called(h)
       /\ \/ h = "_handle_digestmd5_challenge" /\ DigestChallenge(h)
          \/ h = "_handle_digestmd5_rspauth" /\ DigestRspauth
          \/ (cur.name = "challenge" => h = "_handle_sasl_result") /\ SaslResult(h)
  /\ UNCHANGED <<jid, secured, bind_required, session_required, eventVars, challenges,
                 accepted, fired, refused>>

\* Fault: bind is requested without a timer; see NegotiationEnds.
HandleFeaturesSaslUnguarded ==
  /\ Called("_handle_features_sasl")
  /\ bind_required' = (bind_required \/ cur.offer.bind)
  /\ session_required' = (session_required \/ cur.offer.session)
  /\ \/ bind_required' /\ Send("bind") /\ Replace("_handle_features_sasl", {}, {"_handle_bind"}, {})
     \/ ~bind_required' /\ Disconnect("_handle_features_sasl")
  /\ UNCHANGED <<jid, secured, tls_support, sasl_support, eventVars, open_handler, challenges,
                 auxVars>>

\* Without bind the connection is of no use.
HandleFeaturesSasl ==
  /\ Called("_handle_features_sasl")
  /\ bind_required' = (bind_required \/ cur.offer.bind)
  /\ session_required' = (session_required \/ cur.offer.session)
  /\ \/ /\ bind_required' /\ Send("bind")
        /\ Replace("_handle_features_sasl", {}, {"_handle_bind"}, {"_handle_missing_bind"})
     \/ ~bind_required' /\ Disconnect("_handle_features_sasl")
  /\ UNCHANGED <<jid, secured, tls_support, sasl_support, eventVars, open_handler, challenges,
                 auxVars>>

\* The negotiation is complete: conn_handler is called with XMPP_CONN_CONNECT.
Connect(self) ==
  /\ authenticated' = TRUE
  /\ connects' = connects + 1
  /\ Replace(self, {}, {}, {})
  /\ UNCHANGED <<state, pending>>

\* Fault: the session is left out; see ConnectedMeansAccepted.
HandleBindNoSession ==
  /\ Called("_handle_bind")
  /\ \/ cur.name = "result" /\ Connect("_handle_bind")
     \/ cur.name # "result" /\ Disconnect("_handle_bind") /\ UNCHANGED eventVars
  /\ UNCHANGED <<jid, flagVars, open_handler, challenges, auxVars>>

HandleBind ==
  /\ Called("_handle_bind")
  /\ \/ /\ cur.name = "result" /\ session_required /\ Send("session")
        /\ Replace("_handle_bind", {}, {"_handle_session"}, {"_handle_missing_session"})
        /\ UNCHANGED eventVars
     \/ cur.name = "result" /\ ~session_required /\ Connect("_handle_bind")
     \/ cur.name # "result" /\ Disconnect("_handle_bind") /\ UNCHANGED eventVars
  /\ UNCHANGED <<jid, flagVars, open_handler, challenges, auxVars>>

\* _handle_session and _handle_legacy are the last of their kind.
HandleLast(h) ==
  /\ Called(h)
  /\ \/ cur.name = "result" /\ Connect(h)
     \/ cur.name # "result" /\ Disconnect(h) /\ UNCHANGED eventVars
  /\ UNCHANGED <<jid, flagVars, open_handler, challenges, auxVars>>

HandlerStep ==
  \/ HandleFeatures \/ HandleProceedTls \/ HandleSasl \/ HandleFeaturesSasl \/ HandleBind
  \/ HandleLast("_handle_session") \/ HandleLast("_handle_legacy")

-------------------------------------------------------------------------------
(* Timers and the server *)

Idle == cur = None /\ state = "CONNECTED"

\* conn_disconnect, and conn_disconnect_clean at the end of the stream.
Closed(ts) ==
  /\ state' = "DISCONNECTED"
  /\ timed' = ts
  /\ UNCHANGED <<jid, flagVars, authenticated, connects, open_handler, ids, cur, todo,
                 challenges, auxVars>>

\* Without features the legacy login is tried; any other silence ends the stream.
MissingFires(t) ==
  /\ Idle /\ t \in timed \ {"_disconnect_cleanup"}
  /\ fired' = TRUE
  /\ IF t = "_handle_missing_features"
       THEN Auth(t, tls_support, sasl_support)
       ELSE Disconnect(t) /\ UNCHANGED <<tls_support, sasl_support, tries>>
  /\ UNCHANGED <<jid, secured, bind_required, session_required, eventVars, open_handler,
                 cur, todo, challenges, accepted, refused>>

CleanupFires ==
  /\ Idle /\ "_disconnect_cleanup" \in timed
  /\ Closed(timed \ {"_disconnect_cleanup"})
  /\ UNCHANGED <<handlers, pending>>

\* The server closes the stream or the socket.
ServerCloses ==
  /\ Idle
  /\ Closed(timed) \/ Closed(timed \ {"_disconnect_cleanup"})
  /\ UNCHANGED <<handlers, pending>>

\* auth_handle_open or _handle_open_sasl.
Opened ==
  /\ handlers' = handlers \cup
       {IF open_handler = "auth_handle_open" THEN "_handle_features" ELSE "_handle_features_sasl"}
  /\ timed' = timed \cup
       {IF open_handler = "auth_handle_open" THEN "_handle_missing_features"
                                             ELSE "_handle_missing_features_sasl"}

\* The server opens its stream, next it may send features.
ServerOpens ==
  /\ Idle /\ pending # <<>> /\ Head(pending) = "open"
  /\ pending' = <<"features">> \o Tail(pending)
  /\ Opened
  /\ UNCHANGED <<jid, flagVars, eventVars, open_handler, ids, cur, todo, challenges, auxVars>>

\* A stream tag that is not one, or one without an id: the open handler is called
\* all the same.
ServerOpensBadly ==
  /\ Idle /\ pending # <<>> /\ Head(pending) = "open"
  /\ state' = "DISCONNECTED"
  /\ Opened
  /\ UNCHANGED <<jid, flagVars, authenticated, connects, open_handler, ids, cur, todo,
                 pending, challenges, auxVars>>

Reply(s) ==
  /\ Fire(s)
  /\ pending' = Tail(pending)
  /\ UNCHANGED <<jid, flagVars, eventVars, open_handler, handlers, ids, timed, tries, fired>>

ServerSendsFeatures ==
  /\ Idle /\ pending # <<>> /\ Head(pending) = "features"
  /\ \/ \E o \in Offer : Reply([kind |-> "features", name |-> "features", offer |-> o])
     \/ /\ pending' = Tail(pending)
        /\ UNCHANGED <<jid, flagVars, eventVars, open_handler, handlers, ids, timed, cur, todo,
                       tries, fired>>
  /\ UNCHANGED <<challenges, accepted, refused>>

ServerAnswersTls ==
  /\ Idle /\ pending # <<>> /\ Head(pending) = "starttls"
  /\ \E n \in {"proceed", "failure"} :
       /\ Reply([kind |-> "tls", name |-> n, offer |-> NoOffer])
       /\ refused' = (refused \/ n = "failure")
  /\ UNCHANGED <<challenges, accepted>>

ServerAnswersSasl ==
  /\ Idle /\ pending # <<>> /\ Head(pending) \in Mechanisms \cup {"response"}
  /\ \E n \in {"success", "failure", "challenge", "other"} :
       /\ Reply([kind |-> "sasl", name |-> n, offer |-> NoOffer])
       /\ accepted' = IF n = "success" THEN accepted \cup {"sasl"} ELSE accepted
       /\ IF n = "challenge" THEN challenges < MaxChallenges /\ challenges' = challenges + 1
                             ELSE UNCHANGED challenges
  /\ UNCHANGED refused

ServerAnswersIq ==
  /\ Idle /\ pending # <<>> /\ Head(pending) \in Iq
  /\ \E n \in {"result", "error", "other"} :
       /\ Reply([kind |-> Head(pending), name |-> n, offer |-> NoOffer])
       /\ accepted' = IF n = "result" THEN accepted \cup {Head(pending)} ELSE accepted
  /\ UNCHANGED <<challenges, refused>>

-------------------------------------------------------------------------------
ServerStep == ServerOpens \/ ServerSendsFeatures \/ ServerAnswersTls \/ ServerAnswersSasl

Next ==
  \/ HandlerStep
  \/ CleanupFires \/ \E t \in TimedHandlers : MissingFires(t)
  \/ ServerStep \/ ServerOpensBadly \/ ServerAnswersIq \/ ServerCloses

Spec == Init /\ [][Next]_vars

\* The event loop runs and timers expire.  The server opens its stream, sends its
\* features or goes on without, and answers to TLS and SASL, for which there are no
\* timers; it may be silent otherwise.
Fairness ==
  /\ WF_vars(HandlerStep) /\ WF_vars(CleanupFires)
  /\ \A t \in TimedHandlers : WF_vars(MissingFires(t))
  /\ WF_vars(ServerStep)

FairSpec == Spec /\ Fairness

-------------------------------------------------------------------------------
(* Properties *)

\* XMPP_CONN_CONNECT is only reported after the server has granted everything the
\* connection needs: the legacy login, or a SASL mechanism, the resource, and the
\* session if its features ask for one.
Granted ==
  \/ "legacy" \in accepted
  \/ {"sasl", "bind"} \subseteq accepted /\ (session_required => "session" \in accepted)

ConnectedMeansAccepted == [][connects' # connects => Granted]_vars

\* "if any auth method fails, this will get called again until one auth method
\* succeeds or every method fails": no method is requested a second time, however
\* often the stream is restarted.  A features stanza that comes after its timer has
\* fired offers again what was already tried, so this is said of the others.
NoMethodTwice == ~fired => \A m \in Methods : tries[m] <= 1

\* Unless a timer has fired, an authenticated connection was reported once and the
\* negotiation has left no handler that would take its stanzas, and no timer that
\* would end it.
ConnectedIsClean ==
  authenticated /\ ~fired => connects = 1 /\ handlers = {} /\ ids = {} /\ timed = {}

\* However silent the server is where timers watch it, the connection is
\* authenticated or ends, unless the server refuses TLS, after which
\* _handle_proceedtls_default leaves it to the server to close the stream.
NegotiationEnds == <>(authenticated \/ state = "DISCONNECTED" \/ refused)
===============================================================================
