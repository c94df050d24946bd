----------------------------- MODULE StropheSasl -----------------------------
(* What libstrophe answers to SASL (sasl.c): PLAIN with the name and password,  *)
(* the challenge of DIGEST-MD5 with a digest of the password and what the       *)
(* server has sent.  Words and names are single bytes here; they are never      *)
(* looked into.                                                                 *)
EXTENDS Naturals, SequencesExt, TLC

CONSTANTS None, Undefined,
          Accounts,       \* node, domain, resource and password
          Fields,         \* what the server may write in its challenge
          MaxFields,      \* bound on the fields of a challenge
          Block, LengthBytes, WordSize, Start, MD5Transform(_, _)

VARIABLES account,        \* whose connection it is
          fields,         \* what the server has written so far
          reply           \* the text that is sent to it

saslVars == <<account, fields, reply>>

INSTANCE StropheJid
INSTANCE StropheBase64 WITH Null <- None
INSTANCE StropheMd5

-------------------------------------------------------------------------------
(* Bytes and words.                                                             *)
Space == 32
Quote == 34
Apostrophe == 39
Comma == 44
Colon == 58
Equals == 61

Username == <<201>>
Realm == <<202>>
Nonce == <<203>>
Cnonce == <<204>>
Nc == <<205>>
Qop == <<206>>
DigestUri == <<207>>
Response == <<208>>
Charset == <<209>>

CnonceValue == <<211>>    \* 00DEADBEEF00
NcValue == <<212>>        \* 00000001
Auth == <<213>>
Xmpp == <<214>>           \* xmpp/
Authenticate == <<215>>   \* AUTHENTICATE:
NoEntity == <<216>>       \* ":" and 32 zeros

SaslPlain(authid, password) == Encode(<<0>> \o authid \o <<0>> \o password)

-------------------------------------------------------------------------------
(* _parse_digest_challenge.  The table is a function of its keys.               *)
NoKeys == [key \in {} |-> <<>>]
HashAdd(table, key, value) == (key :> value) @@ table
HashGet(table, key) == IF key \in DOMAIN table THEN table[key] ELSE None

CString(bytes) == Upto(bytes, IndexFrom(bytes, 1, {0}))

MakeString(text, first, end) == SubSeq(text, first, end - 1)
MakeQuoted(value) == <<Quote>> \o value \o <<Quote>>

(* Past leading commas and spaces.                                              *)
SkipFrom(text, first) == IndexFrom(text, first, Bytes \ {Comma, Space})

(* Mutant: a value in quotes ends at the next comma too.                        *)
ValueAtComma(text, s) ==
  LET end == IndexFrom(text, s, {Comma})
  IN IF s <= Len(text) /\ text[s] \in {Quote, Apostrophe}
     THEN [value |-> MakeString(text, s + 1, end - 1), next |-> end]
     ELSE [value |-> MakeString(text, s, end), next |-> end]

(* The value that begins at a position, and where the text goes on behind it.   *)
(* Quotes end with the byte they began with, or with the text.                  *)
ValueAt(text, s) ==
  IF s <= Len(text) /\ text[s] \in {Quote, Apostrophe}
  THEN LET end == IndexFrom(text, s + 1, {text[s]})
       IN [value |-> MakeString(text, s + 1, end),
           next |-> IF end <= Len(text) THEN end + 1 ELSE end]
  ELSE LET end == IndexFrom(text, s, {Comma})
       IN [value |-> MakeString(text, s, end), next |-> end]

(* The pairs of the text from each position on; it ends where a key is not      *)
(* followed by '='.                                                             *)
Pairs(text) ==
  LET pairs[s \in 1 .. Len(text) + 1] ==
        LET key == SkipFrom(text, s)
            end == IndexFrom(text, key, {Equals})
            v == ValueAt(text, end + 1)
        IN IF end > Len(text) THEN <<>>
           ELSE <<[key |-> MakeString(text, key, end), value |-> v.value]>> \o pairs[v.next]
  IN pairs[1]

ParseDigestChallenge(msg) ==
  LET text == Decode(msg)
  IN IF text = None THEN None
     ELSE FoldLeft(LAMBDA t, p : HashAdd(t, p.key, p.value), NoKeys, Pairs(CString(text)))

-------------------------------------------------------------------------------
(* sasl_digest_md5.                                                             *)
Hexdigit(v) == IF v <= 9 THEN 48 + v ELSE 97 + v - 10
DigestToHex(digest) ==
  FlattenSeq([i \in DOMAIN digest |-> <<Hexdigit(digest[i] \div 16), Hexdigit(digest[i] % 16)>>])

(* A key that the table has not is sent with an empty value.                    *)
AddKey(table, key, quote, buf) ==
  LET found == HashGet(table, key)
      value == IF found = None THEN <<>> ELSE found
  IN buf \o (IF buf = <<>> THEN <<>> ELSE <<Comma>>) \o key \o <<Equals>>
       \o (IF quote THEN MakeQuoted(value) ELSE value)

Colons(parts) == [i \in 1 .. 2 * Len(parts) - 1 |-> IF i % 2 = 1 THEN parts[(i + 1) \div 2]
                                                    ELSE <<Colon>>]

(* The domain is the realm of a server that names none.                         *)
WithRealm(table, domain) ==
  IF HashGet(table, Realm) \in {None, <<>>} THEN HashAdd(table, Realm, domain) ELSE table

(* Mutant: the digest is made with the domain though the server named a realm.  *)
DigestResponseOfDomain(table, node, domain, password) ==
  LET HA1 == MD5(Colons(<<MD5(Colons(<<node, domain, password>>)), table[Nonce], table[Cnonce]>>))
      HA2 == MD5(<<Authenticate, table[DigestUri]>>)
  IN DigestToHex(MD5(Colons(<<DigestToHex(HA1), table[Nonce], table[Nc], table[Cnonce],
                              table[Qop], DigestToHex(HA2)>>)))

DigestResponse(table, node, domain, password) ==
  LET HA1 == MD5(Colons(<<MD5(Colons(<<node, table[Realm], password>>)),
                          table[Nonce], table[Cnonce]>>))
      HA2 == MD5(<<Authenticate, table[DigestUri]>>
                   \o IF table[Qop] # Auth THEN <<NoEntity>> ELSE <<>>)
  IN DigestToHex(MD5(Colons(<<DigestToHex(HA1), table[Nonce], table[Nc], table[Cnonce],
                              table[Qop], DigestToHex(HA2)>>)))

(* Without a nonce the length of a NULL string is taken.                        *)
SaslDigestMd5(challenge, jid, password) ==
  LET parsed == ParseDigestChallenge(challenge)
      node == JidNode(jid)
      domain == JidDomain(jid)
      own == << <<Username, node>>, <<Cnonce, CnonceValue>>, <<Nc, NcValue>>, <<Qop, Auth>>,
                <<DigestUri, Xmpp \o domain>> >>
      table == FoldLeft(LAMBDA t, f : HashAdd(t, f[1], f[2]), WithRealm(parsed, domain), own)
      answered == HashAdd(table, Response, DigestResponse(table, node, domain, password))
      sent == << <<Username, TRUE>>, <<Realm, TRUE>>, <<Nonce, TRUE>>, <<Cnonce, TRUE>>,
                 <<Nc, FALSE>>, <<Qop, FALSE>>, <<DigestUri, TRUE>>, <<Response, FALSE>>,
                 <<Charset, FALSE>> >>
  IN CASE parsed = None -> None
       [] parsed # None /\ HashGet(parsed, Nonce) = None -> Undefined
       [] OTHER -> Encode(FoldLeft(LAMBDA buf, f : AddKey(answered, f[1], f[2], buf), <<>>, sent))

-------------------------------------------------------------------------------
(* The server writes a challenge and gets its reply.                            *)
FieldText(f) ==
  f.lead \o f.key \o <<Equals>>
    \o CASE f.style = "bare" -> f.value
         [] f.style = "double" -> MakeQuoted(f.value)
         [] f.style = "single" -> <<Apostrophe>> \o f.value \o <<Apostrophe>>
Text == FlattenSeq([i \in DOMAIN fields |-> FieldText(fields[i])])
Jid == JidNew(account.node, account.domain, account.resource)

SaslInit == account \in Accounts /\ fields = <<>> /\ reply = None

Write == /\ reply = None /\ Len(fields) < MaxFields
         /\ \E f \in Fields : /\ fields = <<>> \/ f.lead # <<>>
                              /\ fields' = Append(fields, f)
         /\ UNCHANGED <<account, reply>>

(* Both need a node; without one the login is anonymous.                        *)
Plain == /\ reply = None /\ fields = <<>> /\ JidNode(Jid) # None
         /\ reply' = SaslPlain(JidNode(Jid), account.password)
         /\ UNCHANGED <<account, fields>>

Digest == /\ reply = None /\ fields # <<>> /\ JidNode(Jid) # None
          /\ reply' = SaslDigestMd5(Encode(Text), Jid, account.password)
          /\ UNCHANGED <<account, fields>>

SaslNext == Write \/ Plain \/ Digest

-------------------------------------------------------------------------------
(* What the server has sent, field by field: the last one with a key counts.    *)
Sent(key) ==
  LET at == {i \in DOMAIN fields : fields[i].key = key}
  IN IF at = {} THEN None ELSE fields[CHOOSE i \in at : \A j \in at : j <= i].value

(* RFC 1321: the message, 128, zeros to the end of a block but for the length.  *)
DigestOf(bytes) ==
  LET len == Len(bytes)
      zeros == CHOOSE k \in 0 .. Block - 1 : (len + 1 + k + LengthBytes) % Block = 0
  IN Transformed(Start, BlocksOf(bytes \o <<128>> \o Zeros(zeros) \o LsbFirst((len * 8) % WordSize)
                                   \o LsbFirst(((len * 8) \div WordSize) % WordSize)))

(* An address made of its parts comes apart into them, unless it has a '@' in   *)
(* its resource and no node before it.                                          *)
AddressSplits ==
  account # None /\ (account.node # None \/ ~Has(Jid, At)) =>
    /\ JidNode(Jid) = account.node /\ JidDomain(Jid) = account.domain
    /\ JidResource(Jid) = account.resource
    /\ JidBare(Jid) = JidNew(account.node, account.domain, None)

(* The coding of a text has the length it is given memory for and is decoded to *)
(* the text; with a character that is none of the coding in place of one that   *)
(* codes, it is not decoded at all.                                             *)
CodingIsExact ==
  account # None /\ reply = None /\ Len(Text) >= 2 =>
    LET code == Encode(Text)
    IN /\ Len(code) = EncodedLen(Len(Text)) /\ DecodedLen(code) = Len(Text)
       /\ Decode(code) = Text
       /\ \A i \in DOMAIN code : code[i] # Pad => Decode([code EXCEPT ![i] = Comma]) = None

(* However a text is cut, and wherever that leaves the blocks, the digest of    *)
(* its parts is the digest of the whole.                                        *)
DigestIsOfWhole ==
  account # None /\ reply = None =>
    \A i \in 0 .. Len(Text) : \A j \in i .. Len(Text) :
      MD5(<<SubSeq(Text, 1, i), SubSeq(Text, i + 1, j), SubSeq(Text, j + 1, Len(Text))>>)
        = DigestOf(Text)

(* What is read of a challenge are the fields that the server has written, each *)
(* with its last value, whatever quotes are around it and commas are in them.   *)
ChallengeIsRead ==
  account # None /\ reply = None /\ fields # <<>> =>
    ParseDigestChallenge(Encode(Text))
      = [key \in {fields[i].key : i \in DOMAIN fields} |-> Sent(key)]

(* The server gets what it needs to check the password: with PLAIN the name and *)
(* the password, with DIGEST-MD5 its own nonce and realm, the name, and the     *)
(* response "Hex( KD( HEX(MD5(A1)), nonce ':' nc ':' cnonce ':' qop ':'         *)
(* HEX(MD5(A2)) ))" of sasl.c, where the domain is the realm if it named none.  *)
(* This is said of addresses with a node: a resource may be taken for one.      *)
ServerAccepts ==
  account # None /\ reply \notin {None, Undefined} /\ account.node # None =>
    LET realm == IF Sent(Realm) \in {None, <<>>} THEN account.domain ELSE Sent(Realm)
        Joined(parts) == FlattenSeq(Colons(parts))
        A1 == Joined(<<DigestOf(Joined(<<account.node, realm, account.password>>)),
                       Sent(Nonce), CnonceValue>>)
        A2 == Authenticate \o Xmpp \o account.domain
        read == ParseDigestChallenge(reply)
    IN IF fields = <<>>
       THEN Decode(reply) = <<0>> \o account.node \o <<0>> \o account.password
       ELSE /\ read[Username] = account.node /\ read[Realm] = realm
            /\ read[Nonce] = Sent(Nonce) /\ read[DigestUri] = Xmpp \o account.domain
            /\ read[Response] =
                 DigestToHex(DigestOf(Joined(<<DigestToHex(DigestOf(A1)), Sent(Nonce), NcValue,
                                               CnonceValue, Auth, DigestToHex(DigestOf(A2))>>)))

(* Every part of the exchange is exact, and the whole convinces the server.     *)
ExchangeIsExact ==
  AddressSplits /\ CodingIsExact /\ DigestIsOfWhole /\ ChallengeIsRead /\ ServerAccepts
===============================================================================
