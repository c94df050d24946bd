----------------------------- MODULE MCStropheAuth -----------------------------
(***************************************************************************)
(* StropheAuth for TLC, with addresses of every shape.  A behaviour is one *)
(* of the negotiation, or one of the exchange of StropheSasl, for which    *)
(* the negotiation stays where it is.                                      *)
(***************************************************************************)
EXTENDS StropheAuth, SequencesExt

CONSTANTS Undefined, MaxFields

VARIABLES account, fields, reply

AllJids == {"anonymous", "bare", "full"}

\* Names of one and two bytes; a resource may hold '/' and '@'.
Accounts ==
  [node : {None, <<101>>, <<101, 102>>}, domain : {<<103>>}, password : {<<104, 105>>},
   resource : {None, <<106>>, <<106, 47, 107>>, <<106, 64, 47>>}]

\* Values that are empty, plain, or with a comma and '='.
Field(key, value, style, lead) == [key |-> key, value |-> value, style |-> style, lead |-> lead]
Fields ==
  {Field(<<203>>, value, style, lead) : value \in {<<110>>, <<111, 44, 61>>},
                                        style \in {"double", "single"}, lead \in {<<>>, <<44>>}}
    \cup {Field(<<202>>, value, style, <<44, 32>>) : value \in {<<>>, <<112>>},
                                                     style \in {"bare", "double"}}
    \cup {Field(<<206>>, <<213, 44, 113>>, "double", <<44>>), Field(<<209>>, <<114>>, "bare", <<>>)}

\* Blocks of 8 bytes, of which 2 are the length in words of 7 bits.
MixBlock(buf, block) ==
  FoldLeft(LAMBDA s, byte : <<s[2], (5 * s[1] + 3 * s[2] + 7 * byte + 11) % 251>>, buf, block)

Sasl == INSTANCE StropheSasl WITH Block <- 8, LengthBytes <- 2, WordSize <- 128,
                                  Start <- <<1, 2>>, MD5Transform <- MixBlock

exchange == <<account, fields, reply>>

MCInit ==
  \/ Init /\ account = None /\ fields = <<>> /\ reply = None
  \/ Init /\ jid = "full" /\ Sasl!SaslInit

MCNext == \/ account = None /\ Next /\ UNCHANGED exchange
          \/ account # None /\ Sasl!SaslNext /\ UNCHANGED vars

\* The fairness is that of the negotiation.
MCSpec == MCInit /\ [][MCNext]_<<vars, exchange>> /\ Fairness

\* Addresses, codings, digests, challenges and replies are exact (jid.c, sasl.c, md5.c).
ExchangeIsExact == Sasl!ExchangeIsExact
===============================================================================
