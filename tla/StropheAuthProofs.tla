---------------------------- MODULE StropheAuthProofs ----------------------------
(***************************************************************************)
(* For every choice of addresses and any number of challenges: the         *)
(* negotiation is well-formed, and a connection is reported only when the  *)
(* server has granted what it needs.  Nothing in the code remembers what   *)
(* was granted; the handlers that are registered do, so the inductive      *)
(* invariant says what each of them stands for.  While no timer has fired  *)
(* the negotiation keeps to a course of one request, one answer and one    *)
(* handler at a time: each method is tried once, and nothing is left.      *)
(***************************************************************************)
EXTENDS StropheAuth, SequenceTheorems, TLAPS

\* The handlers that may yet be called, now or later.
Live == handlers \cup ids \cup todo

\* The handlers of the phases after SASL are there only once it has succeeded, and
\* the session only once a resource is bound.
PhasesInOrder ==
  /\ open_handler = "_handle_open_sasl" => "sasl" \in accepted
  /\ Live \cap {"_handle_features_sasl", "_handle_bind", "_handle_session"} # {}
       => "sasl" \in accepted
  /\ "_handle_session" \in Live => "bind" \in accepted

\* A positive answer that is being handled has been counted.
AnswersCount ==
  cur # None =>
    /\ \A h \in todo : Matches(h, cur)
    /\ cur.name = "success" => "sasl" \in accepted
    /\ cur.kind \in Iq /\ cur.name = "result" => cur.kind \in accepted

AInv == TypeOK /\ PhasesInOrder /\ AnswersCount

\* The parts of TypeOK that a step changes together.
RegistryTypes ==
  handlers \in SUBSET StanzaHandlers /\ ids \in SUBSET IdHandlers /\ timed \in SUBSET TimedHandlers

WalkTypes ==
  /\ cur \in Stanza \cup {None} /\ todo \in SUBSET (StanzaHandlers \cup IdHandlers)
  /\ todo = {} <=> cur = None

FlagTypes ==
  /\ jid \in Jids /\ state \in {"CONNECTED", "DISCONNECTED"}
  /\ secured \in BOOLEAN /\ tls_support \in BOOLEAN /\ sasl_support \in SUBSET Mechanisms
  /\ bind_required \in BOOLEAN /\ session_required \in BOOLEAN /\ authenticated \in BOOLEAN
  /\ open_handler \in {"auth_handle_open", "_handle_open_sasl"}

CountTypes ==
  /\ challenges \in 0..MaxChallenges /\ connects \in Nat
  /\ accepted \in SUBSET ({"sasl"} \cup Iq) /\ tries \in [Methods -> Nat]
  /\ fired \in BOOLEAN /\ refused \in BOOLEAN

PendingTypes == pending \in Seq(Requests)

LEMMA TypeParts ==
  /\ TypeOK <=> RegistryTypes /\ WalkTypes /\ FlagTypes /\ CountTypes /\ PendingTypes
  /\ TypeOK' <=> RegistryTypes' /\ WalkTypes' /\ FlagTypes' /\ CountTypes' /\ PendingTypes'
  BY DEF TypeOK, RegistryTypes, WalkTypes, FlagTypes, CountTypes, PendingTypes

-------------------------------------------------------------------------------
(* What handlers do *)

\* A handler registers handlers and timers and removes itself.
LEMMA ReplaceTypes ==
  ASSUME RegistryTypes, NEW self, NEW hs \in SUBSET StanzaHandlers, NEW is \in SUBSET IdHandlers,
         NEW ts \in SUBSET TimedHandlers, Replace(self, hs, is, ts)
  PROVE  RegistryTypes'
  BY DEF RegistryTypes, Replace

\* A request is sent.
LEMMA SendTypes ==
  ASSUME PendingTypes, NEW r \in Requests, Send(r)
  PROVE  PendingTypes'
  BY AppendProperties DEF PendingTypes, Send

\* What a handler leaves behind that goes back to an earlier phase, ends the stream
\* or completes the negotiation.
Quiet ==
  /\ handlers' \subseteq handlers \cup SaslHandlers \cup {"_handle_proceedtls_default"}
  /\ ids' \subseteq ids \cup {"_handle_legacy"}

\* xmpp_disconnect.
LEMMA DisconnectEffect ==
  ASSUME RegistryTypes, PendingTypes, NEW self, Disconnect(self)
  PROVE  RegistryTypes' /\ PendingTypes' /\ Quiet
<1>1. Send("close") /\ Replace(self, {}, {}, {"_disconnect_cleanup"})
  BY DEF Disconnect
<1>2. "close" \in Requests /\ {"_disconnect_cleanup"} \in SUBSET TimedHandlers
  BY DEF Requests, TimedHandlers
<1>3. RegistryTypes' /\ PendingTypes'
  BY <1>1, <1>2, ReplaceTypes, SendTypes
<1>4. Quiet
  BY <1>1 DEF Quiet, Replace
<1> QED
  BY <1>3, <1>4

\* _auth requests one method, with the handler for its answer.
LEMMA AuthEffect ==
  ASSUME RegistryTypes, PendingTypes, tries \in [Methods -> Nat], NEW self,
         NEW tls \in BOOLEAN, NEW sasl \in SUBSET Mechanisms, Auth(self, tls, sasl)
  PROVE  /\ RegistryTypes' /\ PendingTypes' /\ Quiet
         /\ tries' \in [Methods -> Nat]
         /\ tls_support' \in BOOLEAN /\ sasl_support' \in SUBSET Mechanisms
<1>1. PICK t \in {tls, FALSE} : /\ AuthBy(self, Method(t, sasl))
                                /\ tls_support' = FALSE
                                /\ sasl_support' = sasl \ {Method(t, sasl)}
  BY DEF Auth
<1>2. Methods \subseteq Requests /\ "legacy" \in Requests
  BY DEF Requests, Iq
<1>3. ASSUME NEW m \in Methods, Try(m)
      PROVE  PendingTypes' /\ tries' \in [Methods -> Nat]
  BY <1>2, <1>3, SendTypes DEF Try
<1>4. ASSUME NEW hs \in SUBSET (SaslHandlers \cup {"_handle_proceedtls_default"}),
             Replace(self, hs, {}, {})
      PROVE  RegistryTypes' /\ Quiet
  <2>1. hs \in SUBSET StanzaHandlers
    BY DEF StanzaHandlers
  <2>2. RegistryTypes'
    BY <1>4, <2>1, ReplaceTypes
  <2> QED
    BY <1>4, <2>2 DEF Quiet, Replace
<1>5. ASSUME AuthTls(self)
      PROVE  RegistryTypes' /\ PendingTypes' /\ Quiet /\ tries' \in [Methods -> Nat]
  BY <1>3, <1>4, <1>5 DEF AuthTls, Methods
<1>6. ASSUME NEW m \in Mechanisms, NEW h \in SaslHandlers, AuthSasl(self, m, h)
      PROVE  RegistryTypes' /\ PendingTypes' /\ Quiet /\ tries' \in [Methods -> Nat]
  BY <1>3, <1>4, <1>6 DEF AuthSasl, Methods
<1>7. ASSUME AuthLegacy(self)
      PROVE  RegistryTypes' /\ PendingTypes' /\ Quiet
  <2>1. CASE Disconnect(self)
    BY <2>1, DisconnectEffect
  <2>2. CASE /\ Send("legacy")
             /\ Replace(self, {}, {"_handle_legacy"}, {"_handle_missing_legacy"})
    <3>1. RegistryTypes'
      BY <2>2, ReplaceTypes DEF IdHandlers, TimedHandlers
    <3>2. PendingTypes' /\ Quiet
      BY <1>2, <2>2, SendTypes DEF Quiet, Replace
    <3> QED
      BY <3>1, <3>2
  <2> QED
    BY <1>7, <2>1, <2>2 DEF AuthLegacy
<1>8. ASSUME Disconnect(self)
      PROVE  RegistryTypes' /\ PendingTypes' /\ Quiet
  BY <1>8, DisconnectEffect
<1>9. RegistryTypes' /\ PendingTypes' /\ Quiet /\ tries' \in [Methods -> Nat]
  BY <1>1, <1>5, <1>6, <1>7, <1>8 DEF AuthBy, Mechanisms, SaslHandlers
<1> QED
  BY <1>1, <1>9

-------------------------------------------------------------------------------
(* The walk and the phases *)

\* A handler is called with the stanza it matches, and the walk goes on.
LEMMA CalledEffect ==
  ASSUME WalkTypes, AnswersCount, NEW h, Called(h), accepted' = accepted
  PROVE  /\ WalkTypes' /\ AnswersCount' /\ todo' \subseteq todo
         /\ cur \in Stanza /\ cur # None /\ Matches(h, cur)
<1>1. h \in todo /\ todo' = todo \ {h} /\ cur' = IF todo' = {} THEN None ELSE cur
  BY DEF Called
<1>2. cur \in Stanza /\ cur # None
  BY <1>1, NoneAssumption DEF WalkTypes
<1>3. WalkTypes'
  BY <1>1, <1>2 DEF WalkTypes
<1>4. Matches(h, cur)
  BY <1>1, <1>2 DEF AnswersCount
<1>5. AnswersCount'
  <2>1. CASE todo' = {}
    BY <1>1, <2>1 DEF AnswersCount
  <2>2. CASE todo' # {}
    <3>1. cur' = cur
      BY <1>1, <2>2
    <3> QED
      BY <1>1, <1>2, <3>1 DEF AnswersCount
  <2> QED
    BY <2>1, <2>2
<1> QED
  BY <1>1, <1>2, <1>3, <1>4, <1>5

\* A stanza arrives whose grant, if it is one, is counted.
LEMMA FireEffect ==
  ASSUME RegistryTypes, NEW s \in Stanza, Fire(s),
         s.name = "success" => "sasl" \in accepted',
         s.kind \in Iq /\ s.name = "result" => s.kind \in accepted'
  PROVE  WalkTypes' /\ AnswersCount' /\ todo' \subseteq handlers \cup ids
<1>1. /\ todo' = {h \in handlers \cup ids : Matches(h, s)}
      /\ cur' = IF todo' = {} THEN None ELSE s
  BY DEF Fire
<1>2. WalkTypes'
  BY <1>1, NoneAssumption DEF WalkTypes, RegistryTypes
<1>3. CASE todo' = {}
  BY <1>1, <1>2, <1>3 DEF AnswersCount
<1>4. CASE todo' # {}
  <2>1. cur' = s
    BY <1>1, <1>4
  <2> QED
    BY <1>1, <1>2, <2>1 DEF AnswersCount
<1> QED
  BY <1>3, <1>4

\* Going back never gets ahead of the phases.
LEMMA QuietKeepsPhases ==
  ASSUME PhasesInOrder, Quiet, todo' \subseteq todo, accepted' = accepted,
         open_handler' \in {open_handler, "auth_handle_open"}
  PROVE  PhasesInOrder'
<1>1. Live' \subseteq Live \cup SaslHandlers \cup {"_handle_proceedtls_default", "_handle_legacy"}
  BY DEF Live, Quiet
<1> QED
  BY <1>1 DEF PhasesInOrder, SaslHandlers

\* A step that registers nothing.
LEMMA ShrinkKeepsPhases ==
  ASSUME PhasesInOrder, handlers' \subseteq handlers, ids' \subseteq ids,
         todo' \subseteq todo \cup handlers \cup ids, accepted \subseteq accepted',
         open_handler' = open_handler
  PROVE  PhasesInOrder'
<1>1. Live' \subseteq Live
  BY DEF Live
<1> QED
  BY <1>1 DEF PhasesInOrder

-------------------------------------------------------------------------------
(* One step of each handler *)

\* _handle_features.
LEMMA FeaturesKeep ==
  ASSUME AInv, HandleFeatures
  PROVE  AInv'
<1>1. RegistryTypes /\ WalkTypes /\ FlagTypes /\ CountTypes /\ PendingTypes
      /\ PhasesInOrder /\ AnswersCount
  BY TypeParts DEF AInv
<1>2. accepted' = accepted /\ open_handler' = open_handler
  BY DEF HandleFeatures
<1>3. /\ WalkTypes' /\ AnswersCount' /\ todo' \subseteq todo /\ cur \in Stanza
  BY <1>1, <1>2, CalledEffect DEF HandleFeatures
<1> DEFINE tls == tls_support \/ (~secured /\ cur.offer.tls)
           sasl == sasl_support \cup cur.offer.sasl
<1>4. tls \in BOOLEAN /\ sasl \in SUBSET Mechanisms
  BY <1>1, <1>3 DEF FlagTypes, Stanza, Offer
<1>5. Auth("_handle_features", tls, sasl)
  BY DEF HandleFeatures
<1> HIDE DEF tls, sasl
<1>6. /\ RegistryTypes' /\ PendingTypes' /\ Quiet /\ tries' \in [Methods -> Nat]
      /\ tls_support' \in BOOLEAN /\ sasl_support' \in SUBSET Mechanisms
  BY <1>1, <1>4, <1>5, AuthEffect DEF CountTypes
<1>7. FlagTypes' /\ CountTypes'
  BY <1>1, <1>6 DEF HandleFeatures, FlagTypes, CountTypes, eventVars
<1>8. PhasesInOrder'
  BY <1>1, <1>2, <1>3, <1>6, QuietKeepsPhases
<1> QED
  BY <1>3, <1>6, <1>7, <1>8, TypeParts DEF AInv

\* _handle_proceedtls_default.
LEMMA ProceedTlsKeeps ==
  ASSUME AInv, HandleProceedTls
  PROVE  AInv'
<1> DEFINE self == "_handle_proceedtls_default"
<1>1. RegistryTypes /\ WalkTypes /\ FlagTypes /\ CountTypes /\ PendingTypes
      /\ PhasesInOrder /\ AnswersCount
  BY TypeParts DEF AInv
<1>2. accepted' = accepted
  BY DEF HandleProceedTls, auxVars
<1>3. WalkTypes' /\ AnswersCount' /\ todo' \subseteq todo
  BY <1>1, <1>2, CalledEffect DEF HandleProceedTls
<1>4. /\ RegistryTypes' /\ PendingTypes' /\ Quiet /\ secured' \in BOOLEAN
      /\ open_handler' \in {open_handler, "auth_handle_open"}
  <2>1. CASE secured' = TRUE /\ Restart(self, "auth_handle_open")
    <3>1. RegistryTypes'
      BY <1>1, <2>1, ReplaceTypes DEF Restart
    <3>2. PendingTypes'
      BY <1>1, <2>1, SendTypes DEF Restart, Requests
    <3> QED
      BY <2>1, <3>1, <3>2 DEF Restart, Quiet, Replace
  <2>2. CASE Disconnect(self) /\ UNCHANGED <<secured, open_handler>>
    BY <1>1, <2>2, DisconnectEffect DEF FlagTypes
  <2>3. CASE Replace(self, {}, {}, {}) /\ UNCHANGED <<secured, open_handler, pending>>
    <3>1. RegistryTypes'
      BY <1>1, <2>3, ReplaceTypes
    <3> QED
      BY <1>1, <2>3, <3>1 DEF Quiet, Replace, PendingTypes, FlagTypes
  <2> QED
    BY <2>1, <2>2, <2>3 DEF HandleProceedTls
<1>5. FlagTypes' /\ CountTypes'
  BY <1>1, <1>4 DEF HandleProceedTls, FlagTypes, CountTypes, eventVars, auxVars
<1>6. PhasesInOrder'
  BY <1>1, <1>2, <1>3, <1>4, QuietKeepsPhases
<1> QED
  BY <1>3, <1>4, <1>5, <1>6, TypeParts DEF AInv

\* _handle_sasl_result: the next method, or the stream is restarted after a success.
LEMMA SaslResultEffect ==
  ASSUME RegistryTypes, FlagTypes, PendingTypes, tries \in [Methods -> Nat], NEW self,
         SaslResult(self)
  PROVE  /\ RegistryTypes' /\ PendingTypes' /\ Quiet /\ tries' \in [Methods -> Nat]
         /\ tls_support' \in BOOLEAN /\ sasl_support' \in SUBSET Mechanisms
         /\ \/ open_handler' = open_handler
            \/ open_handler' = "_handle_open_sasl" /\ cur.name = "success"
<1>1. CASE Auth(self, tls_support, sasl_support) /\ UNCHANGED open_handler
  BY <1>1, AuthEffect DEF FlagTypes
<1>2. CASE /\ cur.name = "success" /\ Restart(self, "_handle_open_sasl")
           /\ UNCHANGED <<tls_support, sasl_support, tries>>
  <2>1. RegistryTypes'
    BY <1>2, ReplaceTypes DEF Restart
  <2>2. PendingTypes'
    BY <1>2, SendTypes DEF Restart, Requests
  <2> QED
    BY <1>2, <2>1, <2>2 DEF Restart, Quiet, Replace, FlagTypes
<1>3. CASE Disconnect(self) /\ UNCHANGED <<open_handler, tls_support, sasl_support, tries>>
  BY <1>3, DisconnectEffect DEF FlagTypes
<1> QED
  BY <1>1, <1>2, <1>3 DEF SaslResult

\* _handle_digestmd5_challenge and _handle_digestmd5_rspauth, at a challenge.
LEMMA DigestEffect ==
  ASSUME RegistryTypes, FlagTypes, PendingTypes, tries \in [Methods -> Nat], NEW self,
         DigestChallenge(self) \/ DigestRspauth
  PROVE  /\ RegistryTypes' /\ PendingTypes' /\ Quiet /\ tries' \in [Methods -> Nat]
         /\ tls_support' \in BOOLEAN /\ sasl_support' \in SUBSET Mechanisms
         /\ open_handler' = open_handler
<1>1. UNCHANGED <<open_handler, tls_support, sasl_support, tries>>
  BY DEF DigestChallenge, DigestRspauth
<1>2. CASE Send("response") /\ Replace(self, {"_handle_digestmd5_rspauth"}, {}, {})
  <2>1. RegistryTypes'
    BY <1>2, ReplaceTypes DEF StanzaHandlers, SaslHandlers
  <2>2. PendingTypes'
    BY <1>2, SendTypes DEF Requests
  <2> QED
    BY <1>1, <1>2, <2>1, <2>2 DEF Quiet, Replace, SaslHandlers, FlagTypes
<1>3. CASE Disconnect(self)
  BY <1>1, <1>3, DisconnectEffect DEF FlagTypes
<1>4. CASE DigestRspauth
  <2>1. PendingTypes'
    BY <1>4, SendTypes DEF DigestRspauth, Requests
  <2> QED
    BY <1>1, <1>4, <2>1 DEF DigestRspauth, Quiet, RegistryTypes, FlagTypes
<1> QED
  BY <1>2, <1>3, <1>4 DEF DigestChallenge

\* The handlers of SASL stanzas.
LEMMA SaslKeeps ==
  ASSUME AInv, HandleSasl
  PROVE  AInv'
<1>1. RegistryTypes /\ WalkTypes /\ FlagTypes /\ CountTypes /\ PendingTypes
      /\ PhasesInOrder /\ AnswersCount
  BY TypeParts DEF AInv
<1>2. PICK h \in SaslHandlers :
        /\ Called(h)
        /\ DigestChallenge(h) \/ DigestRspauth \/ SaslResult(h)
  BY DEF HandleSasl
<1>3. accepted' = accepted
  BY DEF HandleSasl
<1>4. WalkTypes' /\ AnswersCount' /\ todo' \subseteq todo /\ cur # None
  BY <1>1, <1>2, <1>3, CalledEffect
<1>5. /\ RegistryTypes' /\ PendingTypes' /\ Quiet /\ tries' \in [Methods -> Nat]
      /\ tls_support' \in BOOLEAN /\ sasl_support' \in SUBSET Mechanisms
      /\ \/ open_handler' = open_handler
         \/ open_handler' = "_handle_open_sasl" /\ cur.name = "success"
  BY <1>1, <1>2, SaslResultEffect, DigestEffect DEF CountTypes
<1>6. FlagTypes' /\ CountTypes'
  BY <1>1, <1>5 DEF HandleSasl, FlagTypes, CountTypes, eventVars
<1>7. PhasesInOrder'
  <2>1. CASE open_handler' = open_handler
    BY <1>1, <1>3, <1>4, <1>5, <2>1, QuietKeepsPhases
  <2>2. CASE open_handler' = "_handle_open_sasl" /\ cur.name = "success"
    <3>1. "sasl" \in accepted
      BY <1>1, <1>4, <2>2 DEF AnswersCount
    <3>2. "_handle_session" \in Live' => "_handle_session" \in Live
      BY <1>4, <1>5 DEF Live, Quiet, SaslHandlers
    <3> QED
      BY <1>1, <1>3, <3>1, <3>2 DEF PhasesInOrder
  <2> QED
    BY <1>5, <2>1, <2>2
<1> QED
  BY <1>4, <1>5, <1>6, <1>7, TypeParts DEF AInv

\* _handle_features_sasl, which is registered only after SASL has succeeded.
LEMMA FeaturesSaslKeeps ==
  ASSUME AInv, HandleFeaturesSasl
  PROVE  AInv'
<1> DEFINE self == "_handle_features_sasl"
<1>1. RegistryTypes /\ WalkTypes /\ FlagTypes /\ CountTypes /\ PendingTypes
      /\ PhasesInOrder /\ AnswersCount
  BY TypeParts DEF AInv
<1>2. accepted' = accepted /\ open_handler' = open_handler /\ self \in todo
  BY DEF HandleFeaturesSasl, auxVars, Called
<1>3. WalkTypes' /\ AnswersCount' /\ todo' \subseteq todo /\ cur \in Stanza
  BY <1>1, <1>2, CalledEffect DEF HandleFeaturesSasl
<1>4. "sasl" \in accepted
  BY <1>1, <1>2 DEF PhasesInOrder, Live
<1>5. bind_required' \in BOOLEAN /\ session_required' \in BOOLEAN
  BY <1>1, <1>3 DEF HandleFeaturesSasl, FlagTypes, Stanza, Offer
<1>6. /\ RegistryTypes' /\ PendingTypes'
      /\ handlers' \subseteq handlers \cup SaslHandlers \cup {"_handle_proceedtls_default"}
      /\ ids' \subseteq ids \cup {"_handle_bind", "_handle_legacy"}
  <2>1. CASE /\ Send("bind")
             /\ Replace(self, {}, {"_handle_bind"}, {"_handle_missing_bind"})
    <3>1. RegistryTypes'
      BY <1>1, <2>1, ReplaceTypes DEF IdHandlers, TimedHandlers
    <3>2. PendingTypes'
      BY <1>1, <2>1, SendTypes DEF Requests, Iq
    <3> QED
      BY <2>1, <3>1, <3>2 DEF Replace
  <2>2. CASE Disconnect(self)
    BY <1>1, <2>2, DisconnectEffect DEF Quiet
  <2> QED
    BY <2>1, <2>2 DEF HandleFeaturesSasl
<1>7. FlagTypes' /\ CountTypes'
  BY <1>1, <1>5 DEF HandleFeaturesSasl, FlagTypes, CountTypes, eventVars, auxVars
<1>8. PhasesInOrder'
  <2>1. "_handle_session" \in Live' => "_handle_session" \in Live
    BY <1>3, <1>6 DEF Live, SaslHandlers
  <2> QED
    BY <1>1, <1>2, <1>4, <2>1 DEF PhasesInOrder
<1> QED
  BY <1>3, <1>6, <1>7, <1>8, TypeParts DEF AInv

\* _handle_bind, _handle_session and _handle_legacy: XMPP_CONN_CONNECT, or the end.
LEMMA ConnectEffect ==
  ASSUME RegistryTypes, PendingTypes, FlagTypes, connects \in Nat, NEW self,
         Connect(self) \/ (Disconnect(self) /\ UNCHANGED eventVars)
  PROVE  /\ RegistryTypes' /\ PendingTypes' /\ Quiet
         /\ state' = state /\ authenticated' \in BOOLEAN /\ connects' \in Nat
<1>1. CASE Connect(self)
  <2>1. RegistryTypes'
    BY <1>1, ReplaceTypes DEF Connect
  <2> QED
    BY <1>1, <2>1 DEF Connect, Replace, Quiet, PendingTypes
<1>2. CASE Disconnect(self) /\ UNCHANGED eventVars
  BY <1>2, DisconnectEffect DEF eventVars, FlagTypes
<1> QED
  BY <1>1, <1>2

\* _handle_bind.  It is registered only after SASL has succeeded, and a result of
\* bind is a grant of the resource.
LEMMA BindKeeps ==
  ASSUME AInv, HandleBind
  PROVE  AInv' /\ (connects' # connects => Granted)
<1> DEFINE self == "_handle_bind"
<1>1. RegistryTypes /\ WalkTypes /\ FlagTypes /\ CountTypes /\ PendingTypes
      /\ PhasesInOrder /\ AnswersCount
  BY TypeParts DEF AInv
<1>2. /\ accepted' = accepted /\ open_handler' = open_handler /\ self \in todo
      /\ UNCHANGED <<jid, flagVars, challenges, tries, fired, refused>>
  BY DEF HandleBind, auxVars, Called
<1>3. /\ WalkTypes' /\ AnswersCount' /\ todo' \subseteq todo
      /\ cur # None /\ Matches(self, cur)
  BY <1>1, <1>2, CalledEffect DEF HandleBind
<1>4. "sasl" \in accepted /\ (cur.name = "result" => "bind" \in accepted)
  <2>1. "sasl" \in accepted
    BY <1>1, <1>2 DEF PhasesInOrder, Live
  <2>2. cur.kind = "bind"
    BY <1>3 DEF Matches, SaslHandlers
  <2> QED
    BY <1>1, <1>3, <2>1, <2>2 DEF AnswersCount, Iq
<1>5. CASE /\ cur.name = "result" /\ session_required /\ Send("session")
           /\ Replace(self, {}, {"_handle_session"}, {"_handle_missing_session"})
           /\ UNCHANGED eventVars
  <2>1. RegistryTypes'
    BY <1>1, <1>5, ReplaceTypes DEF IdHandlers, TimedHandlers
  <2>2. PendingTypes'
    BY <1>1, <1>5, SendTypes DEF Requests, Iq
  <2>3. PhasesInOrder'
    BY <1>2, <1>4, <1>5 DEF PhasesInOrder
  <2>4. FlagTypes' /\ CountTypes'
    BY <1>1, <1>2, <1>5 DEF FlagTypes, CountTypes, eventVars, flagVars
  <2> QED
    BY <1>3, <1>5, <2>1, <2>2, <2>3, <2>4, TypeParts DEF AInv, eventVars
<1>6. CASE \/ cur.name = "result" /\ ~session_required /\ Connect(self)
           \/ Disconnect(self) /\ UNCHANGED eventVars
  <2>1. /\ RegistryTypes' /\ PendingTypes' /\ Quiet
        /\ state' = state /\ authenticated' \in BOOLEAN /\ connects' \in Nat
    BY <1>1, <1>6, ConnectEffect DEF CountTypes
  <2>2. FlagTypes' /\ CountTypes'
    BY <1>1, <1>2, <2>1 DEF FlagTypes, CountTypes, flagVars
  <2>3. PhasesInOrder'
    BY <1>1, <1>2, <1>3, <2>1, QuietKeepsPhases
  <2>4. connects' # connects => Granted
    BY <1>4, <1>6 DEF eventVars, Granted
  <2> QED
    BY <1>3, <2>1, <2>2, <2>3, <2>4, TypeParts DEF AInv
<1> QED
  BY <1>5, <1>6 DEF HandleBind

\* _handle_session and _handle_legacy.
LEMMA LastKeeps ==
  ASSUME AInv, NEW h \in {"_handle_session", "_handle_legacy"}, HandleLast(h)
  PROVE  AInv' /\ (connects' # connects => Granted)
<1>1. RegistryTypes /\ WalkTypes /\ FlagTypes /\ CountTypes /\ PendingTypes
      /\ PhasesInOrder /\ AnswersCount
  BY TypeParts DEF AInv
<1>2. /\ accepted' = accepted /\ open_handler' = open_handler /\ h \in todo
      /\ UNCHANGED <<jid, flagVars, challenges, tries, fired, refused>>
  BY DEF HandleLast, auxVars, Called
<1>3. /\ WalkTypes' /\ AnswersCount' /\ todo' \subseteq todo
      /\ cur # None /\ Matches(h, cur)
  BY <1>1, <1>2, CalledEffect DEF HandleLast
<1>4. cur.name = "result" => Granted
  <2>1. CASE h = "_handle_session"
    <3>1. "sasl" \in accepted /\ "bind" \in accepted
      BY <1>1, <1>2, <2>1 DEF PhasesInOrder, Live
    <3>2. cur.kind = "session"
      BY <1>3, <2>1 DEF Matches, SaslHandlers
    <3> QED
      BY <1>1, <1>3, <3>1, <3>2 DEF AnswersCount, Iq, Granted
  <2>2. CASE h = "_handle_legacy"
    <3>1. cur.kind = "legacy"
      BY <1>3, <2>2 DEF Matches, SaslHandlers
    <3> QED
      BY <1>1, <1>3, <3>1 DEF AnswersCount, Iq, Granted
  <2> QED
    BY <2>1, <2>2
<1>5. /\ RegistryTypes' /\ PendingTypes' /\ Quiet
      /\ state' = state /\ authenticated' \in BOOLEAN /\ connects' \in Nat
  BY <1>1, ConnectEffect DEF CountTypes, HandleLast
<1>6. FlagTypes' /\ CountTypes'
  BY <1>1, <1>2, <1>5 DEF FlagTypes, CountTypes, flagVars
<1>7. PhasesInOrder'
  BY <1>1, <1>2, <1>3, <1>5, QuietKeepsPhases
<1>8. connects' # connects => Granted
  BY <1>4 DEF HandleLast, eventVars
<1> QED
  BY <1>3, <1>5, <1>6, <1>7, <1>8, TypeParts DEF AInv

-------------------------------------------------------------------------------
(* Timers and the server *)

\* A timer fires: the legacy login is tried or the stream ends.
LEMMA MissingKeeps ==
  ASSUME AInv, NEW t \in TimedHandlers, MissingFires(t)
  PROVE  AInv'
<1>1. RegistryTypes /\ WalkTypes /\ FlagTypes /\ CountTypes /\ PendingTypes
      /\ PhasesInOrder /\ AnswersCount
  BY TypeParts DEF AInv
<1>2. /\ fired' = TRUE /\ UNCHANGED <<cur, todo, accepted, open_handler>>
      /\ UNCHANGED <<jid, secured, bind_required, session_required, challenges, refused>>
      /\ UNCHANGED <<state, authenticated, connects>>
  BY DEF MissingFires, eventVars
<1>3. /\ RegistryTypes' /\ PendingTypes' /\ Quiet /\ tries' \in [Methods -> Nat]
      /\ tls_support' \in BOOLEAN /\ sasl_support' \in SUBSET Mechanisms
  <2>1. CASE Auth(t, tls_support, sasl_support)
    BY <1>1, <2>1, AuthEffect DEF FlagTypes, CountTypes
  <2>2. CASE Disconnect(t) /\ UNCHANGED <<tls_support, sasl_support, tries>>
    BY <1>1, <2>2, DisconnectEffect DEF FlagTypes, CountTypes
  <2> QED
    BY <2>1, <2>2 DEF MissingFires
<1>4. FlagTypes' /\ CountTypes' /\ WalkTypes' /\ AnswersCount'
  BY <1>1, <1>2, <1>3 DEF FlagTypes, CountTypes, WalkTypes, AnswersCount
<1>5. PhasesInOrder'
  BY <1>1, <1>2, <1>3, QuietKeepsPhases
<1> QED
  BY <1>3, <1>4, <1>5, TypeParts DEF AInv

\* The stream ends.
LEMMA ClosedKeeps ==
  ASSUME AInv, CleanupFires \/ ServerCloses
  PROVE  AInv'
<1>1. RegistryTypes /\ WalkTypes /\ FlagTypes /\ CountTypes /\ PendingTypes
      /\ PhasesInOrder /\ AnswersCount
  BY TypeParts DEF AInv
<1>2. PICK ts \in SUBSET timed : Closed(ts) /\ UNCHANGED <<handlers, pending>>
  BY DEF CleanupFires, ServerCloses
<1>3. RegistryTypes' /\ WalkTypes' /\ CountTypes' /\ PendingTypes' /\ AnswersCount'
  BY <1>1, <1>2
  DEF Closed, RegistryTypes, WalkTypes, CountTypes, PendingTypes, AnswersCount, auxVars
<1>4. FlagTypes'
  BY <1>1, <1>2 DEF Closed, FlagTypes, flagVars
<1>5. PhasesInOrder'
  BY <1>1, <1>2, ShrinkKeepsPhases DEF Closed, auxVars
<1> QED
  BY <1>3, <1>4, <1>5, TypeParts DEF AInv

\* The server opens a stream: _handle_features_sasl is registered by
\* _handle_open_sasl only.
LEMMA OpensKeep ==
  ASSUME AInv, ServerOpens \/ ServerOpensBadly
  PROVE  AInv'
<1>1. RegistryTypes /\ WalkTypes /\ FlagTypes /\ CountTypes /\ PendingTypes
      /\ PhasesInOrder /\ AnswersCount
  BY TypeParts DEF AInv
<1>2. /\ Opened /\ state' \in {state, "DISCONNECTED"}
      /\ UNCHANGED <<jid, flagVars, authenticated, connects, open_handler, ids, cur, todo>>
      /\ UNCHANGED <<challenges, auxVars>>
  BY DEF ServerOpens, ServerOpensBadly, eventVars
<1>3. PendingTypes'
  <2>1. CASE ServerOpens
    <3>1. pending' = <<"features">> \o Tail(pending) /\ pending # <<>>
      BY <2>1 DEF ServerOpens
    <3>2. Tail(pending) \in Seq(Requests) /\ <<"features">> \in Seq(Requests)
      BY <1>1, <3>1, HeadTailProperties DEF PendingTypes, Requests
    <3> QED
      BY <3>1, <3>2, ConcatProperties DEF PendingTypes
  <2>2. CASE ServerOpensBadly
    BY <1>1, <2>2 DEF ServerOpensBadly, PendingTypes
  <2> QED
    BY <2>1, <2>2
<1>4. RegistryTypes'
  BY <1>1, <1>2 DEF Opened, RegistryTypes, StanzaHandlers, TimedHandlers
<1>5. FlagTypes' /\ CountTypes' /\ WalkTypes' /\ AnswersCount'
  BY <1>1, <1>2 DEF FlagTypes, CountTypes, WalkTypes, AnswersCount, flagVars, auxVars
<1>6. PhasesInOrder'
  <2>1. accepted' = accepted /\ open_handler' = open_handler
    BY <1>2 DEF auxVars
  <2>2. CASE open_handler = "auth_handle_open"
    <3>1. Live' = Live \cup {"_handle_features"}
      BY <1>2, <2>2 DEF Opened, Live
    <3> QED
      BY <1>1, <2>1, <3>1 DEF PhasesInOrder
  <2>3. CASE open_handler = "_handle_open_sasl"
    <3>1. Live' = Live \cup {"_handle_features_sasl"}
      BY <1>2, <2>3 DEF Opened, Live
    <3> QED
      BY <1>1, <2>1, <2>3, <3>1 DEF PhasesInOrder
  <2> QED
    BY <1>1, <2>2, <2>3 DEF FlagTypes
<1> QED
  BY <1>3, <1>4, <1>5, <1>6, TypeParts DEF AInv

\* The server reacts to a request; a stanza that grants something is counted.
LEMMA ReplyKeeps ==
  ASSUME AInv, pending # <<>>, NEW s \in Stanza, Reply(s), CountTypes',
         accepted \subseteq accepted',
         s.name = "success" => "sasl" \in accepted',
         s.kind \in Iq /\ s.name = "result" => s.kind \in accepted'
  PROVE  AInv'
<1>1. RegistryTypes /\ FlagTypes /\ PendingTypes /\ PhasesInOrder
  BY TypeParts DEF AInv
<1>2. /\ Fire(s) /\ pending' = Tail(pending)
      /\ UNCHANGED <<jid, flagVars, eventVars, open_handler, handlers, ids, timed>>
  BY DEF Reply
<1>3. WalkTypes' /\ AnswersCount' /\ todo' \subseteq handlers \cup ids
  BY <1>1, <1>2, FireEffect
<1>4. RegistryTypes' /\ FlagTypes'
  BY <1>1, <1>2 DEF RegistryTypes, FlagTypes, flagVars, eventVars
<1>5. PendingTypes'
  BY <1>1, <1>2, HeadTailProperties DEF PendingTypes
<1>6. PhasesInOrder'
  BY <1>1, <1>2, <1>3, ShrinkKeepsPhases
<1> QED
  BY <1>3, <1>4, <1>5, <1>6, TypeParts DEF AInv

\* Features, or none.
LEMMA ServerFeaturesKeep ==
  ASSUME AInv, ServerSendsFeatures
  PROVE  AInv'
<1>1. RegistryTypes /\ WalkTypes /\ FlagTypes /\ CountTypes /\ PendingTypes
      /\ PhasesInOrder /\ AnswersCount
  BY TypeParts DEF AInv
<1>2. pending # <<>> /\ UNCHANGED <<challenges, accepted, refused>>
  BY DEF ServerSendsFeatures
<1>3. ASSUME NEW o \in Offer, Reply([kind |-> "features", name |-> "features", offer |-> o])
      PROVE  AInv'
  <2> DEFINE s == [kind |-> "features", name |-> "features", offer |-> o]
  <2>1. s \in Stanza /\ s.name = "features"
    BY DEF Stanza
  <2>2. CountTypes'
    BY <1>1, <1>2, <1>3 DEF Reply, CountTypes, eventVars
  <2> HIDE DEF s
  <2>3. Reply(s)
    BY <1>3 DEF s
  <2> QED
    BY <1>2, <2>1, <2>2, <2>3, ReplyKeeps
<1>4. CASE /\ pending' = Tail(pending)
           /\ UNCHANGED <<jid, flagVars, eventVars, open_handler, handlers, ids, timed, cur, todo,
                          tries, fired>>
  <2>1. PendingTypes'
    BY <1>1, <1>2, <1>4, HeadTailProperties DEF PendingTypes
  <2>2. RegistryTypes' /\ WalkTypes' /\ FlagTypes' /\ CountTypes' /\ AnswersCount'
    BY <1>1, <1>2, <1>4
    DEF RegistryTypes, WalkTypes, FlagTypes, CountTypes, AnswersCount, flagVars, eventVars
  <2>3. PhasesInOrder'
    BY <1>1, <1>2, <1>4, ShrinkKeepsPhases
  <2> QED
    BY <2>1, <2>2, <2>3, TypeParts DEF AInv
<1> QED
  BY <1>3, <1>4 DEF ServerSendsFeatures

\* Answers to starttls, to a mechanism or a response, and to an iq.
LEMMA ServerAnswersKeep ==
  ASSUME AInv, ServerAnswersTls \/ ServerAnswersSasl \/ ServerAnswersIq
  PROVE  AInv'
<1>1. RegistryTypes /\ CountTypes /\ PendingTypes
  BY TypeParts DEF AInv
<1>2. NoOffer \in Offer
  BY DEF NoOffer, Offer
<1>3. CASE ServerAnswersTls
  <2>1. PICK n \in {"proceed", "failure"} :
          /\ Reply([kind |-> "tls", name |-> n, offer |-> NoOffer])
          /\ refused' = (refused \/ n = "failure")
    BY <1>3 DEF ServerAnswersTls
  <2> DEFINE s == [kind |-> "tls", name |-> n, offer |-> NoOffer]
  <2>2. s \in Stanza /\ s.name = n /\ s.kind = "tls"
    BY <1>2 DEF Stanza
  <2>3. CountTypes' /\ pending # <<>> /\ accepted' = accepted
    BY <1>1, <1>3, <2>1 DEF Reply, CountTypes, eventVars, ServerAnswersTls
  <2> HIDE DEF s
  <2>4. Reply(s)
    BY <2>1 DEF s
  <2> QED
    BY <2>2, <2>3, <2>4, ReplyKeeps DEF Iq
<1>4. CASE ServerAnswersSasl
  <2>1. PICK n \in {"success", "failure", "challenge", "other"} :
          /\ Reply([kind |-> "sasl", name |-> n, offer |-> NoOffer])
          /\ accepted' = IF n = "success" THEN accepted \cup {"sasl"} ELSE accepted
          /\ IF n = "challenge" THEN challenges < MaxChallenges /\ challenges' = challenges + 1
                                ELSE UNCHANGED challenges
    BY <1>4 DEF ServerAnswersSasl
  <2> DEFINE s == [kind |-> "sasl", name |-> n, offer |-> NoOffer]
  <2>2. s \in Stanza /\ s.name = n /\ s.kind = "sasl"
    BY <1>2 DEF Stanza
  <2>3. challenges' \in 0..MaxChallenges
    BY <1>1, <2>1, ChallengeAssumption DEF CountTypes
  <2>4. CountTypes' /\ pending # <<>>
    BY <1>1, <1>4, <2>1, <2>3 DEF Reply, CountTypes, eventVars, ServerAnswersSasl
  <2> HIDE DEF s
  <2>5. Reply(s)
    BY <2>1 DEF s
  <2> QED
    BY <2>1, <2>2, <2>4, <2>5, ReplyKeeps DEF Iq
<1>5. CASE ServerAnswersIq
  <2> DEFINE k == Head(pending)
  <2>1. k \in Iq /\ pending # <<>>
    BY <1>5 DEF ServerAnswersIq
  <2>2. PICK n \in {"result", "error", "other"} :
          /\ Reply([kind |-> k, name |-> n, offer |-> NoOffer])
          /\ accepted' = IF n = "result" THEN accepted \cup {k} ELSE accepted
    BY <1>5 DEF ServerAnswersIq
  <2> HIDE DEF k
  <2> DEFINE s == [kind |-> k, name |-> n, offer |-> NoOffer]
  <2>3. s \in Stanza /\ s.name = n /\ s.kind = k
    BY <1>2, <2>1 DEF Stanza
  <2>4. CountTypes'
    BY <1>1, <1>5, <2>1, <2>2 DEF Reply, CountTypes, eventVars, ServerAnswersIq
  <2> HIDE DEF s
  <2>5. Reply(s)
    BY <2>2 DEF s
  <2> QED
    BY <2>1, <2>2, <2>3, <2>4, <2>5, ReplyKeeps
<1> QED
  BY <1>3, <1>4, <1>5

-------------------------------------------------------------------------------
(* The theorems *)

\* Every step keeps the invariant, and reports a connection only if it was granted.
LEMMA AInvStep ==
  ASSUME AInv, [Next]_vars
  PROVE  AInv' /\ (connects' # connects => Granted)
<1>1. ASSUME HandleFeatures \/ HandleProceedTls \/ HandleSasl \/ HandleFeaturesSasl
      PROVE  AInv' /\ connects' = connects
  BY <1>1, FeaturesKeep, ProceedTlsKeeps, SaslKeeps, FeaturesSaslKeeps
  DEF HandleFeatures, HandleProceedTls, HandleSasl, HandleFeaturesSasl, eventVars
<1>2. ASSUME HandleBind \/ HandleLast("_handle_session") \/ HandleLast("_handle_legacy")
      PROVE  AInv' /\ (connects' # connects => Granted)
  BY <1>2, BindKeeps, LastKeeps
<1>3. ASSUME CleanupFires \/ ServerCloses
      PROVE  AInv' /\ connects' = connects
  BY <1>3, ClosedKeeps DEF CleanupFires, ServerCloses, Closed
<1>4. ASSUME NEW t \in TimedHandlers, MissingFires(t)
      PROVE  AInv' /\ connects' = connects
  BY <1>4, MissingKeeps DEF MissingFires, eventVars
<1>5. ASSUME ServerOpens \/ ServerOpensBadly
      PROVE  AInv' /\ connects' = connects
  BY <1>5, OpensKeep DEF ServerOpens, ServerOpensBadly, eventVars
<1>6. ASSUME ServerSendsFeatures
      PROVE  AInv' /\ connects' = connects
  BY <1>6, ServerFeaturesKeep DEF ServerSendsFeatures, Reply, eventVars
<1>7. ASSUME ServerAnswersTls \/ ServerAnswersSasl \/ ServerAnswersIq
      PROVE  AInv' /\ connects' = connects
  BY <1>7, ServerAnswersKeep
  DEF ServerAnswersTls, ServerAnswersSasl, ServerAnswersIq, Reply, eventVars
<1>8. CASE UNCHANGED vars
  BY <1>8 DEF vars, flagVars, eventVars, auxVars, AInv, TypeOK, PhasesInOrder, AnswersCount, Live
<1> QED
  BY <1>1, <1>2, <1>3, <1>4, <1>5, <1>6, <1>7, <1>8 DEF Next, HandlerStep, ServerStep

\* The invariant holds at the start.
LEMMA AInvInit == Init => AInv
<1> SUFFICES ASSUME Init PROVE AInv
  OBVIOUS
<1>1. RegistryTypes /\ WalkTypes /\ FlagTypes /\ CountTypes /\ PendingTypes
  <2>1. RegistryTypes /\ WalkTypes
    BY DEF Init, RegistryTypes, WalkTypes
  <2>2. FlagTypes
    BY DEF Init, FlagTypes
  <2>3. CountTypes
    <3>1. challenges \in 0..MaxChallenges /\ connects \in Nat /\ tries \in [Methods -> Nat]
      BY ChallengeAssumption DEF Init
    <3>2. fired \in BOOLEAN /\ refused \in BOOLEAN
      BY DEF Init
    <3> QED
      BY <3>1, <3>2 DEF Init, CountTypes
  <2>4. "open" \in Requests
    BY DEF Requests
  <2>5. PendingTypes
    BY <2>4 DEF Init, PendingTypes
  <2> QED
    BY <2>1, <2>2, <2>3, <2>5
<1>2. PhasesInOrder /\ AnswersCount
  BY DEF Init, PhasesInOrder, AnswersCount, Live
<1> QED
  BY <1>1, <1>2, TypeParts DEF AInv

\* The negotiation is well-formed: a stanza is at hand exactly while handlers wait
\* for it, and the handlers, timers and requests are those of auth.c.
THEOREM TypeCorrect == Spec => []TypeOK
<1>1. AInv => TypeOK
  BY DEF AInv
<1>2. AInv /\ [Next]_vars => AInv'
  BY AInvStep
<1> QED
  BY <1>1, <1>2, AInvInit, PTL DEF Spec

\* Whatever the server offers, answers or fails to answer, and whenever timers fire,
\* XMPP_CONN_CONNECT is reported only after everything it needs was granted.
THEOREM ConnectsAreGranted == Spec => ConnectedMeansAccepted
<1>1. AInv /\ [Next]_vars => AInv'
  BY AInvStep
<1>2. AInv /\ [Next]_vars => [connects' # connects => Granted]_vars
  BY AInvStep
<1> QED
  BY <1>1, <1>2, AInvInit, PTL DEF Spec, ConnectedMeansAccepted

-------------------------------------------------------------------------------
(* The course of the negotiation while no timer has fired *)

\* The handler `h` is the only one, with the timer against the server's silence.
Alone(h) == handlers \cup ids = {h} /\ timed = Guards(h)

Nobody == handlers = {} /\ ids = {}

\* The handler that a request is answered to.
Asks(r, h) ==
  \/ r = "features" /\ h \in {"_handle_features", "_handle_features_sasl"}
  \/ r = "starttls" /\ h = "_handle_proceedtls_default"
  \/ r \in {"ANONYMOUS", "PLAIN"} /\ h = "_handle_sasl_result"
  \/ r = "DIGEST-MD5" /\ h = "_handle_digestmd5_challenge"
  \/ r = "response" /\ h = "_handle_digestmd5_rspauth"
  \/ r = "bind" /\ h = "_handle_bind"
  \/ r = "session" /\ h = "_handle_session"
  \/ r = "legacy" /\ h = "_handle_legacy"

\* The stream is about to be opened; a request is with the server; its answer is being
\* handled; the server sends no features; the stream is closed; there is nothing to do.
Opening == cur = None /\ pending = <<"open">> /\ Nobody /\ timed = {} /\ ~authenticated
Asked(r, h) == cur = None /\ pending = <<r>> /\ Asks(r, h) /\ Alone(h) /\ ~authenticated
Answered(h) == cur # None /\ pending = <<>> /\ todo = {h} /\ Alone(h) /\ ~authenticated
Silent(h) == cur = None /\ pending = <<>> /\ Alone(h) /\ ~authenticated
Closing ==
  cur = None /\ pending = <<"close">> /\ Nobody /\ timed = {"_disconnect_cleanup"} /\ ~authenticated
Finished == cur = None /\ pending = <<>> /\ Nobody /\ timed = {}

OnTrack ==
  \/ Opening \/ Closing \/ Finished
  \/ \E h \in StanzaHandlers \cup IdHandlers :
       Answered(h) \/ Silent(h) \/ \E r \in Requests : Asked(r, h)

\* Features that may offer TLS and mechanisms can still come.
FeaturesAhead ==
  "_handle_features" \in Live \/ (pending = <<"open">> /\ open_handler = "auth_handle_open")

\* What has been tried is not on offer: the mechanisms only after the last stream that
\* offers any, TLS only until it is there.
Tried ==
  /\ ~tls_support
  /\ \A m \in Methods : tries[m] <= 1
  /\ \A m \in sasl_support : tries[m] = 0
  /\ FeaturesAhead \/ "_handle_proceedtls_default" \in Live => \A m \in Mechanisms : tries[m] = 0
  /\ FeaturesAhead /\ tries["starttls"] # 0 => secured
  /\ "_handle_sasl_result" \in Live => Method(FALSE, sasl_support) \notin Mechanisms
  /\ Live \cap {"_handle_digestmd5_challenge", "_handle_digestmd5_rspauth"} # {}
       => "DIGEST-MD5" \notin sasl_support

Clean ==
  /\ authenticated => Nobody /\ timed = {}
  /\ connects = IF authenticated THEN 1 ELSE 0

Course ==
  /\ Tried /\ Clean
  /\ IF state = "CONNECTED" THEN OnTrack ELSE cur = None

CourseInv == ~fired => Course

\* The one handler is replaced by others.
LEMMA AloneReplace ==
  ASSUME NEW self \in StanzaHandlers \cup IdHandlers, NEW hs, NEW is, NEW ts,
         Alone(self), Replace(self, hs, is, ts), self \notin hs \cup is
  PROVE  handlers' \cup ids' = hs \cup is /\ timed' = ts \ {self}
  BY DEF Alone, Replace

\* A handler is no timer.
LEMMA HandlersAreNotTimers ==
  (StanzaHandlers \cup IdHandlers) \cap TimedHandlers = {}
  BY DEF StanzaHandlers, SaslHandlers, IdHandlers, TimedHandlers

\* A request is sent when none is pending.
LEMMA SendOne ==
  ASSUME NEW r, pending = <<>>, Send(r)
  PROVE  pending' = <<r>>
  BY DEF Send

\* The handler that is called is the only one, and the walk ends with it.
LEMMA CalledAlone ==
  ASSUME TypeOK, Course, NEW h, Called(h)
  PROVE  /\ state = "CONNECTED" /\ Answered(h) /\ todo' = {} /\ cur' = None
         /\ h \in StanzaHandlers \cup IdHandlers /\ Live = {h}
<1>1. cur # None /\ h \in todo
  BY DEF TypeOK, Called
<1>2. PICK g \in StanzaHandlers \cup IdHandlers : Answered(g)
  BY <1>1 DEF Course, OnTrack, Opening, Closing, Finished, Silent, Asked
<1>3. g = h
  BY <1>1, <1>2 DEF Answered
<1> QED
  BY <1>1, <1>2, <1>3 DEF Called, Answered, Alone, Live, Course

\* What is known of the methods tried is kept by a step that tries none.
LEMMA TriedKeeps ==
  ASSUME Tried, UNCHANGED <<jid, tls_support, sasl_support, tries>>, secured => secured',
         FeaturesAhead' => FeaturesAhead \/ (secured' /\ "_handle_proceedtls_default" \in Live),
         \A h \in {"_handle_proceedtls_default", "_handle_sasl_result", "_handle_digestmd5_challenge"} :
           h \in Live' => h \in Live,
         "_handle_digestmd5_rspauth" \in Live'
           => Live \cap {"_handle_digestmd5_challenge", "_handle_digestmd5_rspauth"} # {}
  PROVE  Tried'
<1> DEFINE Left == Method(FALSE, sasl_support)
<1>1. Left' = Left
  BY DEF Method
<1> HIDE DEF Left
<1>2. "_handle_sasl_result" \in Live' => Left' \notin Mechanisms
  BY <1>1 DEF Tried, Left
<1> QED
  BY <1>2 DEF Tried, Left

\* The stream is closed by the one handler.
LEMMA DisconnectAlone ==
  ASSUME NEW self \in StanzaHandlers \cup IdHandlers, Answered(self), Disconnect(self),
         todo' = {}, cur' = None, authenticated' = authenticated
  PROVE  Closing' /\ Live' = {}
<1>1. Send("close") /\ Replace(self, {}, {}, {"_disconnect_cleanup"}) /\ Alone(self)
  BY DEF Disconnect, Answered
<1>2. handlers' \cup ids' = {} /\ timed' = {"_disconnect_cleanup"}
  BY <1>1, AloneReplace, HandlersAreNotTimers DEF TimedHandlers
<1>3. pending' = <<"close">>
  BY <1>1, SendOne DEF Answered
<1> QED
  BY <1>2, <1>3 DEF Closing, Nobody, Live, Answered

\* The stream is opened again by the one handler.
LEMMA RestartAlone ==
  ASSUME NEW self \in StanzaHandlers \cup IdHandlers, NEW handler, Answered(self),
         Restart(self, handler), todo' = {}, cur' = None, authenticated' = authenticated
  PROVE  Opening' /\ Live' = {} /\ open_handler' = handler
<1>1. Send("open") /\ Replace(self, {}, {}, {}) /\ Alone(self) /\ open_handler' = handler
  BY DEF Restart, Answered
<1>2. handlers' \cup ids' = {} /\ timed' = {}
  BY <1>1, AloneReplace
<1>3. pending' = <<"open">>
  BY <1>1, SendOne DEF Answered
<1> QED
  BY <1>1, <1>2, <1>3 DEF Opening, Nobody, Live, Answered

\* A request is made by the one handler, for another one to take the answer.
LEMMA AskAlone ==
  ASSUME NEW self \in StanzaHandlers \cup IdHandlers, Answered(self),
         NEW r, NEW h, Asks(r, h), h # self, NEW hs, NEW is, hs \cup is = {h},
         Send(r), Replace(self, hs, is, Guards(h)),
         todo' = {}, cur' = None, authenticated' = authenticated
  PROVE  Asked(r, h)' /\ Live' = {h}
<1>1. Guards(h) \subseteq TimedHandlers
  BY DEF Guards, TimedHandlers
<1>2. handlers' \cup ids' = {h} /\ timed' = Guards(h)
  <2>1. Alone(self) /\ self \notin hs \cup is
    BY DEF Answered
  <2>2. handlers' \cup ids' = hs \cup is /\ timed' = Guards(h) \ {self}
    BY <2>1, AloneReplace
  <2> QED
    BY <1>1, <2>2, HandlersAreNotTimers
<1>3. pending' = <<r>>
  BY SendOne DEF Answered
<1> QED
  BY <1>2, <1>3 DEF Asked, Alone, Live, Answered

\* A stanza is given to the one handler that waits for it.
LEMMA ReplyAlone ==
  ASSUME NEW r, NEW h, Asked(r, h), NEW s \in Stanza, Matches(h, s), Reply(s)
  PROVE  Answered(h)' /\ Live' = {h}
<1>1. todo' = {h} /\ cur' = s
  BY DEF Reply, Fire, Asked, Alone
<1>2. pending' = <<>>
  BY DEF Reply, Asked
<1>3. handlers' = handlers /\ ids' = ids /\ timed' = timed /\ authenticated' = authenticated
  BY DEF Reply, eventVars
<1> QED
  BY <1>1, <1>2, <1>3, NoneAssumption DEF Answered, Asked, Alone, Live

\* The next method is one that was not tried, and what is tried is not left.
LEMMA MethodIsNew ==
  ASSUME NEW t \in BOOLEAN, NEW sasl \in SUBSET Mechanisms, jid \in Jids
  PROVE  /\ Method(t, sasl) \in Methods \cup {"legacy", "none"}
         /\ Method(t, sasl) = "starttls" <=> t
         /\ Method(t, sasl) \in Mechanisms => Method(t, sasl) \in sasl
         /\ Method(t, sasl) \in {"ANONYMOUS", "PLAIN"}
              => Method(FALSE, sasl \ {Method(t, sasl)}) \notin Mechanisms
  BY DEF Method, Methods, Mechanisms

\* A method is tried for the first time.
LEMMA TryOnce ==
  ASSUME tries \in [Methods -> Nat], NEW m \in Methods, Try(m), tries[m] = 0,
         \A x \in Methods : tries[x] <= 1
  PROVE  /\ Send(m) /\ \A x \in Methods : tries'[x] <= 1
         /\ \A x \in Methods \ {m} : tries'[x] = tries[x]
  BY DEF Try

\* _auth makes one request, for a method that has not been tried.
LEMMA AuthAlone ==
  ASSUME AInv, Tried, NEW self \in {"_handle_features"} \cup SaslHandlers, Answered(self),
         Live = {self}, NEW tls \in BOOLEAN, NEW sasl \in SUBSET Mechanisms, Auth(self, tls, sasl),
         self # "_handle_features" => tls = FALSE /\ sasl = sasl_support,
         tls => tries["starttls"] = 0,
         todo' = {}, cur' = None, UNCHANGED <<authenticated, jid>>
  PROVE  OnTrack' /\ Tried'
<1>1. PICK t \in {tls, FALSE} : /\ AuthBy(self, Method(t, sasl))
                                /\ tls_support' = FALSE
                                /\ sasl_support' = sasl \ {Method(t, sasl)}
  BY DEF Auth
<1>0. PICK m : m = Method(t, sasl)
  OBVIOUS
<1> DEFINE left == Method(FALSE, sasl_support')
<1>2. /\ m \in Methods \cup {"legacy", "none"} /\ (m = "starttls" <=> t)
      /\ m \in Mechanisms => m \in sasl
      /\ m \in {"ANONYMOUS", "PLAIN"} => left \notin Mechanisms
  <2>1. t \in BOOLEAN /\ jid \in Jids
    BY DEF AInv, TypeOK
  <2>2. /\ m \in Methods \cup {"legacy", "none"} /\ (m = "starttls" <=> t)
        /\ m \in Mechanisms => m \in sasl
        /\ m \in {"ANONYMOUS", "PLAIN"} => Method(FALSE, sasl \ {m}) \notin Mechanisms
    BY <1>0, <2>1, MethodIsNew
  <2> QED
    BY <1>0, <1>1, <2>2
<1>3. AuthBy(self, m) /\ tls_support' = FALSE /\ sasl_support' = sasl \ {m}
  BY <1>0, <1>1
<1>4. /\ \A x \in sasl : tries[x] = 0
      /\ self = "_handle_features" => \A x \in Mechanisms : tries[x] = 0
      /\ \A x \in Methods : tries[x] <= 1 /\ tries \in [Methods -> Nat]
  BY DEF Tried, FeaturesAhead, AInv, TypeOK
<1>5. /\ self = "_handle_sasl_result" => m \notin Mechanisms
      /\ self \in {"_handle_digestmd5_challenge", "_handle_digestmd5_rspauth"} => m # "DIGEST-MD5"
      /\ self # "_handle_features" => m # "starttls"
  <2>1. self # "_handle_features" => t = FALSE /\ m = Method(FALSE, sasl_support)
    BY <1>0, <1>1
  <2>2. self = "_handle_sasl_result" => Method(FALSE, sasl_support) \notin Mechanisms
    BY DEF Tried
  <2>3. self \in {"_handle_digestmd5_challenge", "_handle_digestmd5_rspauth"}
          => "DIGEST-MD5" \notin sasl_support
    BY DEF Tried
  <2> QED
    BY <1>2, <2>1, <2>2, <2>3 DEF Mechanisms
<1>6. self \in StanzaHandlers \cup IdHandlers
  BY DEF StanzaHandlers
<1>7. Method(FALSE, sasl_support)' = left
  BY DEF Method
<1> HIDE DEF left
<1>8. CASE m = "starttls"
  <2>1. AuthTls(self) /\ self = "_handle_features"
    BY <1>3, <1>5, <1>8 DEF AuthBy
  <2>2. Send("starttls") /\ (\A x \in Methods : tries'[x] <= 1)
        /\ (\A x \in Mechanisms : tries'[x] = tries[x])
    BY <1>1, <1>2, <1>4, <1>8, <2>1, TryOnce DEF AuthTls, Methods, Mechanisms
  <2>3. Asked("starttls", "_handle_proceedtls_default")' /\ Live' = {"_handle_proceedtls_default"}
    <3>1. Replace(self, {"_handle_proceedtls_default"}, {}, Guards("_handle_proceedtls_default"))
      BY <2>1 DEF AuthTls, Guards
    <3>2. Asks("starttls", "_handle_proceedtls_default") /\ "_handle_proceedtls_default" # self
      BY <2>1 DEF Asks
    <3> QED
      BY <1>6, <2>2, <3>1, <3>2, AskAlone
  <2>4. OnTrack'
    BY <2>3 DEF OnTrack, StanzaHandlers, Requests, Methods
  <2>5. ~FeaturesAhead'
    BY <2>3 DEF FeaturesAhead, Asked
  <2>6. Tried'
    BY <1>3, <1>4, <2>1, <2>2, <2>3, <2>5 DEF Tried, Mechanisms
  <2> QED
    BY <2>4, <2>6
<1>9. ASSUME NEW h \in {"_handle_sasl_result", "_handle_digestmd5_challenge"},
             m \in Mechanisms, AuthSasl(self, m, h), Asks(m, h)
      PROVE  OnTrack' /\ Tried'
  <2>1. Send(m) /\ (\A x \in Methods : tries'[x] <= 1)
        /\ (\A x \in Methods \ {m} : tries'[x] = tries[x])
    BY <1>2, <1>4, <1>9, TryOnce DEF AuthSasl, Methods
  <2>2. h # self
    BY <1>5, <1>9 DEF Asks
  <2>3. Asked(m, h)' /\ Live' = {h}
    <3>1. Replace(self, {h}, {}, Guards(h))
      BY <1>9 DEF AuthSasl, Guards
    <3> QED
      BY <1>6, <1>9, <2>1, <2>2, <3>1, AskAlone
  <2>4. OnTrack'
    BY <1>9, <2>3 DEF OnTrack, StanzaHandlers, SaslHandlers, Requests, Methods
  <2>5. ~FeaturesAhead'
    BY <1>9, <2>3 DEF FeaturesAhead, Asked, Mechanisms
  <2>6. \A x \in sasl_support' : tries'[x] = 0
    BY <1>3, <1>4, <2>1 DEF Methods
  <2>7. /\ h = "_handle_sasl_result" => left \notin Mechanisms
        /\ h = "_handle_digestmd5_challenge" => "DIGEST-MD5" \notin sasl_support'
    BY <1>2, <1>3, <1>9 DEF Asks
  <2>8. Tried'
    BY <1>3, <1>7, <1>9, <2>1, <2>3, <2>5, <2>6, <2>7 DEF Tried
  <2> QED
    BY <2>4, <2>8
<1>10. CASE m \in Mechanisms
  <2>1. \E h \in {"_handle_sasl_result", "_handle_digestmd5_challenge"} :
          AuthSasl(self, m, h) /\ Asks(m, h)
    BY <1>3, <1>10 DEF AuthBy, Mechanisms, Asks
  <2> QED
    BY <1>9, <1>10, <2>1
<1>11. ASSUME m \in {"legacy", "none"}, Live' \subseteq {"_handle_legacy"}, ~(pending' = <<"open">>),
              tries' = tries
       PROVE  Tried'
  <2>1. ~FeaturesAhead'
    BY <1>11 DEF FeaturesAhead
  <2>2. \A x \in sasl_support' : tries'[x] = 0
    BY <1>3, <1>4, <1>11
  <2> QED
    BY <1>3, <1>4, <1>11, <2>1, <2>2 DEF Tried
<1>12. CASE m \in {"legacy", "none"} /\ Disconnect(self) /\ tries' = tries
  <2>1. Closing' /\ Live' = {}
    BY <1>6, <1>12, DisconnectAlone
  <2> QED
    BY <1>11, <1>12, <2>1 DEF OnTrack, Closing
<1>13. CASE m = "legacy" /\ tries' = tries /\ Send("legacy")
            /\ Replace(self, {}, {"_handle_legacy"}, {"_handle_missing_legacy"})
  <2>1. Asked("legacy", "_handle_legacy")' /\ Live' = {"_handle_legacy"}
    <3>1. Guards("_handle_legacy") = {"_handle_missing_legacy"} /\ Asks("legacy", "_handle_legacy")
      BY DEF Guards, Asks
    <3>2. "_handle_legacy" # self
      BY DEF SaslHandlers
    <3> QED
      BY <1>6, <1>13, <3>1, <3>2, AskAlone
  <2>2. OnTrack'
    BY <2>1 DEF OnTrack, IdHandlers, Requests, Iq
  <2> QED
    BY <1>11, <1>13, <2>1, <2>2 DEF Asked
<1> QED
  <2>1. CASE m = "legacy"
    BY <1>3, <1>12, <1>13, <2>1 DEF AuthBy, AuthLegacy
  <2>2. CASE m = "none"
    BY <1>3, <1>12, <2>2 DEF AuthBy
  <2> QED
    BY <1>2, <1>8, <1>10, <2>1, <2>2 DEF Methods

\* The end of a step that has not tried a method.
LEMMA CourseKept ==
  ASSUME Course, Tried', OnTrack', UNCHANGED <<state, authenticated, connects>>,
         state = "CONNECTED", ~authenticated
  PROVE  Course'
  BY DEF Course, Clean

\* _handle_features tries the first method.
LEMMA FeaturesCourse ==
  ASSUME AInv, Course, HandleFeatures
  PROVE  Course'
<1> DEFINE tls == tls_support \/ (~secured /\ cur.offer.tls)
           sasl == sasl_support \cup cur.offer.sasl
           self == "_handle_features"
<1>1. /\ state = "CONNECTED" /\ Answered(self) /\ todo' = {} /\ cur' = None
      /\ Live = {self} /\ Tried
  BY CalledAlone DEF HandleFeatures, AInv, Course
<1>2. tls \in BOOLEAN /\ sasl \in SUBSET Mechanisms
  BY <1>1 DEF AInv, TypeOK, Answered, Stanza, Offer
<1>3. tls => tries["starttls"] = 0
  BY <1>1 DEF Tried, FeaturesAhead
<1>4. Auth(self, tls, sasl) /\ UNCHANGED <<jid, state, authenticated, connects>>
  BY DEF HandleFeatures, eventVars
<1> HIDE DEF tls, sasl
<1>5. OnTrack' /\ Tried'
  BY <1>1, <1>2, <1>3, <1>4, AuthAlone
<1> QED
  BY <1>1, <1>4, <1>5, CourseKept DEF Answered

\* TLS is started and the stream opened again, or there is nothing more to do.
LEMMA ProceedTlsCourse ==
  ASSUME AInv, Course, HandleProceedTls
  PROVE  Course'
<1> DEFINE self == "_handle_proceedtls_default"
<1>1. /\ state = "CONNECTED" /\ Answered(self) /\ todo' = {} /\ cur' = None
      /\ Live = {self} /\ self \in StanzaHandlers \cup IdHandlers
  BY CalledAlone DEF HandleProceedTls, AInv
<1>2. UNCHANGED <<jid, tls_support, sasl_support, tries, state, authenticated, connects>>
  BY DEF HandleProceedTls, eventVars, auxVars
<1>3. ASSUME OnTrack', Live' = {}, secured => secured',
             FeaturesAhead' => secured'
      PROVE  Course'
  <2>1. Tried'
    BY <1>1, <1>2, <1>3, TriedKeeps DEF Course
  <2> QED
    BY <1>1, <1>2, <1>3, <2>1, CourseKept DEF Answered
<1>4. CASE secured' = TRUE /\ Restart(self, "auth_handle_open")
  <2>1. Opening' /\ Live' = {}
    BY <1>1, <1>2, <1>4, RestartAlone
  <2> QED
    BY <1>3, <1>4, <2>1 DEF OnTrack
<1>5. CASE Disconnect(self) /\ UNCHANGED <<secured, open_handler>>
  <2>1. Closing' /\ Live' = {}
    BY <1>1, <1>2, <1>5, DisconnectAlone
  <2>2. ~FeaturesAhead'
    BY <2>1 DEF FeaturesAhead, Closing
  <2> QED
    BY <1>3, <1>5, <2>1, <2>2 DEF OnTrack
<1>6. CASE Replace(self, {}, {}, {}) /\ UNCHANGED <<secured, open_handler, pending>>
  <2>1. handlers' \cup ids' = {} /\ timed' = {}
    BY <1>1, <1>6, AloneReplace DEF Answered
  <2>2. Finished' /\ Live' = {} /\ ~FeaturesAhead'
    BY <1>1, <1>6, <2>1 DEF Finished, Nobody, Live, Answered, FeaturesAhead
  <2> QED
    BY <1>3, <1>6, <2>2 DEF OnTrack
<1> QED
  BY <1>4, <1>5, <1>6 DEF HandleProceedTls

\* SASL goes on with a response, with the next mechanism, or with a new stream.
LEMMA SaslCourse ==
  ASSUME AInv, Course, HandleSasl
  PROVE  Course'
<1>1. PICK self \in SaslHandlers :
        /\ Called(self)
        /\ \/ self = "_handle_digestmd5_challenge" /\ DigestChallenge(self)
           \/ self = "_handle_digestmd5_rspauth" /\ DigestRspauth
           \/ SaslResult(self)
  BY DEF HandleSasl
<1>2. /\ state = "CONNECTED" /\ Answered(self) /\ todo' = {} /\ cur' = None
      /\ Live = {self} /\ self \in StanzaHandlers \cup IdHandlers
  BY <1>1, CalledAlone DEF AInv
<1>3. UNCHANGED <<jid, secured, state, authenticated, connects>>
  BY DEF HandleSasl, eventVars
<1>4. ASSUME OnTrack', ~FeaturesAhead', UNCHANGED <<tls_support, sasl_support, tries>>,
             Live' \subseteq {"_handle_digestmd5_rspauth"},
             "_handle_digestmd5_rspauth" \in Live'
               => self \in {"_handle_digestmd5_challenge", "_handle_digestmd5_rspauth"}
      PROVE  Course'
  <2>1. Tried'
    BY <1>2, <1>3, <1>4, TriedKeeps DEF Course
  <2> QED
    BY <1>2, <1>3, <1>4, <2>1, CourseKept DEF Answered
<1>5. CASE Disconnect(self) /\ UNCHANGED <<tls_support, sasl_support, tries>>
  <2>1. Closing' /\ Live' = {}
    BY <1>2, <1>3, <1>5, DisconnectAlone
  <2>2. ~FeaturesAhead'
    BY <2>1 DEF FeaturesAhead, Closing
  <2> QED
    BY <1>4, <1>5, <2>1, <2>2 DEF OnTrack
<1>6. ASSUME Asked("response", "_handle_digestmd5_rspauth")', Live' = {"_handle_digestmd5_rspauth"},
             UNCHANGED <<tls_support, sasl_support, tries>>,
             self \in {"_handle_digestmd5_challenge", "_handle_digestmd5_rspauth"}
      PROVE  Course'
  <2>1. OnTrack'
    BY <1>6 DEF OnTrack, StanzaHandlers, SaslHandlers, Requests
  <2>2. ~FeaturesAhead'
    BY <1>6 DEF FeaturesAhead, Asked
  <2> QED
    BY <1>4, <1>6, <2>1, <2>2
<1>7. CASE self = "_handle_digestmd5_challenge" /\ Send("response")
           /\ Replace(self, {"_handle_digestmd5_rspauth"}, {}, {})
           /\ UNCHANGED <<tls_support, sasl_support, tries>>
  <2>1. /\ Guards("_handle_digestmd5_rspauth") = {} /\ Asks("response", "_handle_digestmd5_rspauth")
        /\ "_handle_digestmd5_rspauth" # self
    BY <1>7 DEF Guards, Asks
  <2>2. Asked("response", "_handle_digestmd5_rspauth")' /\ Live' = {"_handle_digestmd5_rspauth"}
    BY <1>2, <1>3, <1>7, <2>1, AskAlone
  <2> QED
    BY <1>6, <1>7, <2>2
<1>8. CASE self = "_handle_digestmd5_rspauth" /\ DigestRspauth
  <2>1. UNCHANGED <<handlers, ids, timed, tls_support, sasl_support, tries>> /\ Send("response")
    BY <1>8 DEF DigestRspauth
  <2>2. pending' = <<"response">>
    BY <1>2, <2>1, SendOne DEF Answered
  <2>3. Asked("response", "_handle_digestmd5_rspauth")' /\ Live' = {"_handle_digestmd5_rspauth"}
    BY <1>2, <1>3, <1>8, <2>1, <2>2 DEF Asked, Asks, Answered, Alone, Live
  <2> QED
    BY <1>6, <1>8, <2>1, <2>3
<1>9. CASE Restart(self, "_handle_open_sasl") /\ UNCHANGED <<tls_support, sasl_support, tries>>
  <2>1. Opening' /\ Live' = {} /\ open_handler' = "_handle_open_sasl"
    BY <1>2, <1>3, <1>9, RestartAlone
  <2>2. ~FeaturesAhead'
    BY <2>1 DEF FeaturesAhead
  <2> QED
    BY <1>4, <1>9, <2>1, <2>2 DEF OnTrack
<1>10. CASE Auth(self, tls_support, sasl_support)
  <2>1. tls_support = FALSE /\ sasl_support \in SUBSET Mechanisms /\ Tried
    BY DEF AInv, TypeOK, Course, Tried
  <2>2. self # "_handle_features" /\ tls_support \in BOOLEAN
    BY <2>1 DEF SaslHandlers
  <2>3. OnTrack' /\ Tried'
    BY <1>2, <1>3, <1>10, <2>1, <2>2, AuthAlone
  <2> QED
    BY <1>2, <1>3, <2>3, CourseKept DEF Answered
<1> QED
  BY <1>1, <1>5, <1>7, <1>8, <1>9, <1>10 DEF DigestChallenge, SaslResult

\* After SASL the one handler asks for what is next, completes the negotiation or
\* closes the stream.
LEMMA LaterCourse ==
  ASSUME AInv, Course, NEW self \in {"_handle_features_sasl", "_handle_bind", "_handle_session",
                                     "_handle_legacy"},
         Called(self),
         UNCHANGED <<jid, secured, tls_support, sasl_support, tries, state, open_handler>>,
         \/ /\ self = "_handle_features_sasl" /\ Send("bind") /\ UNCHANGED eventVars
            /\ Replace(self, {}, {"_handle_bind"}, {"_handle_missing_bind"})
         \/ /\ self = "_handle_bind" /\ Send("session") /\ UNCHANGED eventVars
            /\ Replace(self, {}, {"_handle_session"}, {"_handle_missing_session"})
         \/ Connect(self)
         \/ Disconnect(self) /\ UNCHANGED eventVars
  PROVE  Course'
<1>1. /\ state = "CONNECTED" /\ Answered(self) /\ todo' = {} /\ cur' = None
      /\ Live = {self} /\ self \in StanzaHandlers \cup IdHandlers
  BY CalledAlone DEF AInv
<1>2. ASSUME Live' \subseteq IdHandlers, ~(pending' = <<"open">>)
      PROVE  Tried'
  <2>1. ~FeaturesAhead'
    BY <1>2 DEF FeaturesAhead, IdHandlers
  <2> QED
    BY <1>2, <2>1, TriedKeeps DEF Course, IdHandlers
<1>3. ASSUME NEW r \in {"bind", "session"}, NEW h \in {"_handle_bind", "_handle_session"},
             Asks(r, h), h # self, Send(r), Replace(self, {}, {h}, Guards(h)), UNCHANGED eventVars
      PROVE  Course'
  <2>1. Asked(r, h)' /\ Live' = {h}
    BY <1>1, <1>3, AskAlone DEF eventVars
  <2>2. OnTrack'
    BY <2>1 DEF OnTrack, IdHandlers, Requests, Iq
  <2>3. Tried'
    BY <1>2, <2>1 DEF IdHandlers, Asked
  <2> QED
    BY <1>1, <1>3, <2>2, <2>3, CourseKept DEF Answered, eventVars
<1>4. CASE \/ /\ self = "_handle_features_sasl" /\ Send("bind") /\ UNCHANGED eventVars
              /\ Replace(self, {}, {"_handle_bind"}, {"_handle_missing_bind"})
           \/ /\ self = "_handle_bind" /\ Send("session") /\ UNCHANGED eventVars
              /\ Replace(self, {}, {"_handle_session"}, {"_handle_missing_session"})
  <2>1. /\ Guards("_handle_bind") = {"_handle_missing_bind"} /\ Asks("bind", "_handle_bind")
        /\ Guards("_handle_session") = {"_handle_missing_session"}
        /\ Asks("session", "_handle_session")
    BY DEF Guards, Asks
  <2> QED
    BY <1>3, <1>4, <2>1
<1>5. CASE Connect(self)
  <2>1. handlers' \cup ids' = {} /\ timed' = {}
    BY <1>1, <1>5, AloneReplace DEF Answered, Connect
  <2>2. /\ Finished' /\ Nobody' /\ Live' = {} /\ pending' = <<>>
        /\ authenticated' = TRUE /\ connects' = connects + 1 /\ state' = state
    BY <1>1, <1>5, <2>1 DEF Finished, Nobody, Live, Answered, Connect
  <2>3. Tried'
    BY <1>2, <2>2
  <2>4. connects' = 1
    BY <1>1, <2>2 DEF Course, Clean, Answered
  <2>5. Clean'
    BY <2>1, <2>2, <2>4 DEF Clean
  <2> QED
    BY <1>1, <2>2, <2>3, <2>5 DEF Course, OnTrack
<1>6. CASE Disconnect(self) /\ UNCHANGED eventVars
  <2>1. Closing' /\ Live' = {}
    BY <1>1, <1>6, DisconnectAlone DEF eventVars
  <2>2. OnTrack' /\ Tried'
    BY <1>2, <2>1 DEF OnTrack, Closing
  <2> QED
    BY <1>1, <1>6, <2>2, CourseKept DEF Answered, eventVars
<1> QED
  BY <1>4, <1>5, <1>6

\* A stanza the server sends next, with what remains of `pending`.
LEMMA HeadIsAsked ==
  ASSUME OnTrack, cur = None, pending # <<>>, NEW r, Head(pending) = r, r \notin {"open", "close"}
  PROVE  \E h \in StanzaHandlers \cup IdHandlers : Asked(r, h)
<1>1. ~Opening /\ ~Closing /\ ~Finished
  BY DEF Opening, Closing, Finished
<1>2. PICK h \in StanzaHandlers \cup IdHandlers, q \in Requests : Asked(q, h)
  BY <1>1 DEF OnTrack, Answered, Silent
<1>3. q = r
  BY <1>2 DEF Asked
<1> QED
  BY <1>2, <1>3

\* The server answers what it was asked.
LEMMA ReplyCourse ==
  ASSUME AInv, Course, state = "CONNECTED", cur = None, pending # <<>>,
         NEW r, Head(pending) = r, r \notin {"open", "close"},
         NEW s \in Stanza, Reply(s), \A h : Asks(r, h) => Matches(h, s)
  PROVE  Course'
<1>1. PICK h \in StanzaHandlers \cup IdHandlers : Asked(r, h)
  BY HeadIsAsked DEF Course
<1>2. Answered(h)' /\ Live' = {h} /\ Live = {h}
  BY <1>1, ReplyAlone DEF Asked, Alone, AInv, TypeOK, Live
<1>3. /\ UNCHANGED <<jid, secured, tls_support, sasl_support, tries, open_handler>>
      /\ UNCHANGED <<state, authenticated, connects>>
  BY DEF Reply, flagVars, eventVars
<1>4. OnTrack'
  BY <1>2 DEF OnTrack
<1>5. FeaturesAhead' => FeaturesAhead
  BY <1>2 DEF FeaturesAhead, Answered
<1>6. Tried'
  BY <1>2, <1>3, <1>5, TriedKeeps DEF Course
<1> QED
  BY <1>1, <1>3, <1>4, <1>6, CourseKept DEF Asked

\* The server opens its stream; bad tags end the connection.
LEMMA OpensCourse ==
  ASSUME AInv, Course, ServerOpens \/ ServerOpensBadly
  PROVE  Course'
<1>1. /\ state = "CONNECTED" /\ cur = None /\ pending # <<>> /\ Head(pending) = "open" /\ Opened
      /\ UNCHANGED <<jid, secured, tls_support, sasl_support, tries, open_handler>>
      /\ UNCHANGED <<authenticated, connects, cur, todo, ids>>
  BY DEF ServerOpens, ServerOpensBadly, Idle, flagVars, eventVars, auxVars
<1>2. Opening /\ todo = {}
  <2>1. \A h : ~Asks("open", h)
    BY DEF Asks
  <2>2. ~Closing /\ ~Finished
    BY <1>1 DEF Closing, Finished
  <2>3. \A h, r : ~Answered(h) /\ ~Silent(h) /\ ~Asked(r, h)
    BY <1>1, <2>1 DEF Answered, Silent, Asked
  <2> QED
    BY <1>1, <2>2, <2>3 DEF Course, OnTrack, AInv, TypeOK
<1> DEFINE h == IF open_handler = "auth_handle_open" THEN "_handle_features"
                                                     ELSE "_handle_features_sasl"
<1>3. handlers' = {h} /\ ids' = {} /\ timed' = Guards(h) /\ Live = {} /\ Live' = {h}
  BY <1>1, <1>2 DEF Opened, Opening, Nobody, Guards, Live
<1>4. FeaturesAhead' => FeaturesAhead
  <2>1. pending = <<"open">> /\ (open_handler' = open_handler)
    BY <1>1, <1>2 DEF Opening
  <2> QED
    BY <1>3, <2>1 DEF FeaturesAhead
<1>5. Tried'
  BY <1>1, <1>3, <1>4, TriedKeeps DEF Course
<1>6. CASE ServerOpens
  <2>1. pending' = <<"features">>
    <3>1. pending' = <<"features">> \o Tail(pending) /\ pending = <<"open">>
      BY <1>2, <1>6 DEF ServerOpens, Opening
    <3>2. Tail(<<"open">>) = <<>> /\ <<"features">> \o <<>> = <<"features">>
      OBVIOUS
    <3> QED
      BY <3>1, <3>2
  <2>2. h \in StanzaHandlers /\ Asks("features", h) /\ "features" \in Requests
    BY DEF StanzaHandlers, Asks, Requests
  <2>3. /\ cur' = None /\ handlers' \cup ids' = {h} /\ timed' = Guards(h) /\ ~authenticated'
    BY <1>1, <1>2, <1>3 DEF Opening
  <2> HIDE DEF h
  <2>4. \E g \in StanzaHandlers : Asked("features", g)'
    <3>1. PICK g : g = h
      OBVIOUS
    <3>2. Asked("features", g)'
      BY <2>1, <2>2, <2>3, <3>1 DEF Asked, Alone
    <3> QED
      BY <2>2, <3>1, <3>2
  <2>5. OnTrack'
    BY <2>2, <2>4 DEF OnTrack
  <2> QED
    BY <1>1, <1>2, <1>5, <1>6, <2>5, CourseKept DEF ServerOpens, eventVars, Opening
<1>7. CASE ServerOpensBadly
  <2>1. state' = "DISCONNECTED" /\ cur' = None /\ ~authenticated'
    BY <1>1, <1>2, <1>7 DEF ServerOpensBadly, Opening
  <2> QED
    BY <1>1, <1>5, <2>1 DEF Course, Clean
<1> QED
  BY <1>6, <1>7

\* The connection ends.
LEMMA ClosedCourse ==
  ASSUME AInv, Course, CleanupFires \/ ServerCloses
  PROVE  Course'
<1>1. PICK ts \in SUBSET timed : Closed(ts) /\ UNCHANGED <<handlers, pending>>
  BY DEF CleanupFires, ServerCloses
<1>2. /\ cur = None /\ state' = "DISCONNECTED" /\ timed' \subseteq timed
      /\ UNCHANGED <<jid, secured, tls_support, sasl_support, tries, open_handler>>
      /\ UNCHANGED <<authenticated, connects, handlers, ids, cur, todo, pending>>
  BY <1>1 DEF CleanupFires, ServerCloses, Idle, Closed, flagVars, auxVars
<1>3. Live' = Live /\ (FeaturesAhead' => FeaturesAhead)
  BY <1>2 DEF Live, FeaturesAhead
<1>4. Tried'
  BY <1>2, <1>3, TriedKeeps DEF Course
<1>5. Clean'
  BY <1>2 DEF Course, Clean, Nobody
<1> QED
  BY <1>2, <1>4, <1>5 DEF Course

\* The server sends features, or goes on without.
LEMMA ServerFeaturesCourse ==
  ASSUME AInv, Course, ServerSendsFeatures
  PROVE  Course'
<1>1. state = "CONNECTED" /\ cur = None /\ pending # <<>> /\ Head(pending) = "features"
  BY DEF ServerSendsFeatures, Idle
<1>2. ASSUME NEW o \in Offer, Reply([kind |-> "features", name |-> "features", offer |-> o])
      PROVE  Course'
  <2>1. PICK s \in Stanza : s.kind = "features" /\ Reply(s)
    BY <1>2 DEF Stanza
  <2>2. \A h : Asks("features", h) => Matches(h, s)
    BY <2>1 DEF Asks, Matches, SaslHandlers
  <2> QED
    BY <1>1, <2>1, <2>2, ReplyCourse
<1>3. CASE /\ pending' = Tail(pending)
           /\ UNCHANGED <<jid, flagVars, eventVars, open_handler, handlers, ids, timed, cur, todo,
                          tries, fired>>
  <2>1. PICK h \in StanzaHandlers \cup IdHandlers : Asked("features", h)
    BY <1>1, HeadIsAsked DEF Course
  <2>2. pending' = <<>>
    BY <1>3, <2>1 DEF Asked
  <2>3. Silent(h)' /\ Live' = Live
    BY <1>3, <2>1, <2>2 DEF Silent, Asked, Alone, Live, eventVars
  <2>4. OnTrack'
    BY <2>3 DEF OnTrack
  <2>5. Tried'
    BY <1>3, <2>2, <2>3, TriedKeeps DEF Course, flagVars, FeaturesAhead
  <2> QED
    BY <1>1, <1>3, <2>1, <2>4, <2>5, CourseKept DEF eventVars, Asked
<1> QED
  BY <1>2, <1>3 DEF ServerSendsFeatures

\* The server answers to TLS, to SASL, or to an iq.
LEMMA ServerAnswersCourse ==
  ASSUME AInv, Course, ServerAnswersTls \/ ServerAnswersSasl \/ ServerAnswersIq
  PROVE  Course'
<1>1. state = "CONNECTED" /\ cur = None /\ pending # <<>> /\ NoOffer \in Offer
  BY DEF ServerAnswersTls, ServerAnswersSasl, ServerAnswersIq, Idle, NoOffer, Offer
<1>2. CASE ServerAnswersTls
  <2>1. PICK s \in Stanza : s.kind = "tls" /\ Reply(s)
    BY <1>1, <1>2 DEF ServerAnswersTls, Stanza
  <2>2. \A h : Asks("starttls", h) => Matches(h, s)
    BY <2>1 DEF Asks, Matches, SaslHandlers
  <2> QED
    BY <1>1, <1>2, <2>1, <2>2, ReplyCourse DEF ServerAnswersTls
<1>3. CASE ServerAnswersSasl
  <2>1. PICK s \in Stanza : s.kind = "sasl" /\ Reply(s)
    BY <1>1, <1>3 DEF ServerAnswersSasl, Stanza
  <2>2. PICK r \in Mechanisms \cup {"response"} : Head(pending) = r
    BY <1>3 DEF ServerAnswersSasl
  <2>3. \A h : Asks(r, h) => Matches(h, s)
    BY <2>1 DEF Asks, Matches, Mechanisms, SaslHandlers
  <2> QED
    BY <1>1, <2>1, <2>2, <2>3, ReplyCourse DEF Mechanisms
<1>4. CASE ServerAnswersIq
  <2>1. PICK r \in Iq : Head(pending) = r
    BY <1>4 DEF ServerAnswersIq
  <2>2. PICK s \in Stanza : s.kind = r /\ Reply(s)
    BY <1>1, <1>4, <2>1 DEF ServerAnswersIq, Stanza
  <2>3. \A h : Asks(r, h) => Matches(h, s)
    BY <2>2 DEF Asks, Matches, Iq, SaslHandlers
  <2> QED
    BY <1>1, <2>1, <2>2, <2>3, ReplyCourse DEF Iq
<1> QED
  BY <1>2, <1>3, <1>4

\* Every step keeps the course until a timer fires.
LEMMA CourseStep ==
  ASSUME AInv, CourseInv, [Next]_vars
  PROVE  CourseInv'
<1>1. ASSUME NEW t \in TimedHandlers, MissingFires(t) PROVE CourseInv'
  BY <1>1 DEF MissingFires, CourseInv
<1>2. ASSUME ~(\E t \in TimedHandlers : MissingFires(t)) PROVE fired' = fired
  BY <1>2
  DEF Next, HandlerStep, HandleFeatures, HandleProceedTls, HandleSasl, HandleFeaturesSasl,
      HandleBind, HandleLast, CleanupFires, ServerStep, ServerOpens, ServerSendsFeatures,
      ServerAnswersTls, ServerAnswersSasl, ServerOpensBadly, ServerAnswersIq, ServerCloses, Closed,
      Reply, auxVars, vars
<1>3. ASSUME Course, ~(\E t \in TimedHandlers : MissingFires(t)) PROVE Course'
  <2>1. CASE HandleFeatures \/ HandleProceedTls \/ HandleSasl
    BY <1>3, <2>1, FeaturesCourse, ProceedTlsCourse, SaslCourse
  <2>2. CASE HandleFeaturesSasl
    BY <1>3, <2>2, LaterCourse DEF HandleFeaturesSasl, auxVars, eventVars
  <2>3. CASE HandleBind
    BY <1>3, <2>3, LaterCourse DEF HandleBind, auxVars, eventVars, flagVars, Connect
  <2>4. ASSUME NEW h \in {"_handle_session", "_handle_legacy"}, HandleLast(h) PROVE Course'
    BY <1>3, <2>4, LaterCourse DEF HandleLast, auxVars, eventVars, flagVars, Connect
  <2>5. CASE CleanupFires \/ ServerCloses
    BY <1>3, <2>5, ClosedCourse
  <2>6. CASE ServerOpens \/ ServerOpensBadly
    BY <1>3, <2>6, OpensCourse
  <2>7. CASE ServerSendsFeatures
    BY <1>3, <2>7, ServerFeaturesCourse
  <2>8. CASE ServerAnswersTls \/ ServerAnswersSasl \/ ServerAnswersIq
    BY <1>3, <2>8, ServerAnswersCourse
  <2>9. CASE UNCHANGED vars
    BY <1>3, <2>9
    DEF vars, flagVars, eventVars, auxVars, Course, Tried, Clean, OnTrack, Opening, Closing,
        Finished, Answered, Silent, Asked, Alone, Nobody, FeaturesAhead, Live, Method
  <2> QED
    BY <1>3, <2>1, <2>2, <2>3, <2>4, <2>5, <2>6, <2>7, <2>8, <2>9 DEF Next, HandlerStep, ServerStep
<1> QED
  BY <1>1, <1>2, <1>3 DEF CourseInv

\* The stream that is opened first is on course.
LEMMA CourseInit == Init => CourseInv
<1> SUFFICES ASSUME Init PROVE Course
  BY DEF CourseInv
<1>1. Opening /\ Clean
  BY DEF Init, Opening, Nobody, Clean
<1>2. Live = {}
  BY DEF Init, Live
<1>3. Tried
  BY <1>2 DEF Init, Tried, Methods, Mechanisms
<1> QED
  BY <1>1, <1>3 DEF Init, Course, OnTrack

\* The negotiation follows its course.
LEMMA CourseInvariance == Spec => [](AInv /\ CourseInv)
<1>1. AInv /\ CourseInv /\ [Next]_vars => AInv' /\ CourseInv'
  BY AInvStep, CourseStep
<1> QED
  BY <1>1, AInvInit, CourseInit, PTL DEF Spec

\* No authentication method is requested a second time before a timer has fired, whatever
\* the server offers, refuses or grants and however often the stream is restarted.
THEOREM MethodsAreTriedOnce == Spec => []NoMethodTwice
<1>1. CourseInv => NoMethodTwice
  BY DEF CourseInv, Course, Tried, NoMethodTwice
<1> QED
  BY <1>1, CourseInvariance, PTL

\* An authenticated connection has been reported exactly once and the negotiation has
\* left neither handlers nor timers, unless a timer has fired before.
THEOREM ConnectedLeavesNothing == Spec => []ConnectedIsClean
<1>1. CourseInv => ConnectedIsClean
  BY DEF CourseInv, Course, Clean, Nobody, ConnectedIsClean
<1> QED
  BY <1>1, CourseInvariance, PTL
===============================================================================
