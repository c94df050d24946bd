----------------------------- MODULE StropheBase64 -----------------------------
(* The Base64 coding of sasl.c: three bytes in four characters, a last one or   *)
(* two in two or three and padding.                                             *)
EXTENDS Naturals, SequencesExt

CONSTANT Null    \* what base64_decode returns for a text it cannot decode

Bytes == 0 .. 255
Pad == 61

(* _base64_charmap and its inverse, where 64 is the padding and 65 stands for a *)
(* character that is no part of a coding.                                       *)
Charmap ==
  [v \in 0 .. 64 |-> CASE v <= 25 -> 65 + v
                       [] v \in 26 .. 51 -> 97 + v - 26
                       [] v \in 52 .. 61 -> 48 + v - 52
                       [] v = 62 -> 43
                       [] v = 63 -> 47
                       [] v = 64 -> Pad]
Invcharmap ==
  [c \in Bytes |-> IF c \in Range(Charmap) THEN CHOOSE v \in 0 .. 64 : Charmap[v] = c ELSE 65]

(* A word of three bytes and its four hextets.                                  *)
Quartet(word) == [j \in 1 .. 4 |-> Charmap[(word \div 64 ^ (4 - j)) % 64]]
Triple(word) == [j \in 1 .. 3 |-> (word \div 256 ^ (3 - j)) % 256]

EncodedLen(len) == ((len + 2) \div 3) * 4

(* Of at least two bytes: the loop compares with an unsigned len - 2.           *)
Encode(buffer) ==
  LET full == Len(buffer) \div 3
      Word(i) == buffer[i] * 65536 + buffer[i + 1] * 256 + buffer[i + 2]
      rest == SubSeq(buffer, 3 * full + 1, Len(buffer))
  IN FlattenSeq([i \in 1 .. full |-> Quartet(Word(3 * i - 2))])
       \o CASE Len(rest) = 0 -> <<>>
            [] Len(rest) = 1 -> SubSeq(Quartet(rest[1] * 65536), 1, 2) \o <<Pad, Pad>>
            [] Len(rest) = 2 -> SubSeq(Quartet(rest[1] * 65536 + rest[2] * 256), 1, 3) \o <<Pad>>

(* Of at least four characters.  What ends in no coding has length 0.           *)
DecodedLen(text) ==
  LET last(n) == Invcharmap[text[Len(text) - n]]
      whole == 3 * (Len(text) \div 4)
  IN CASE last(0) < 64 -> whole
       [] last(0) = 64 /\ last(1) < 64 -> whole - 1
       [] last(0) = 64 /\ last(1) = 64 /\ last(2) < 64 -> whole - 2
       [] OTHER -> 0

Values(text) == [i \in DOMAIN text |-> Invcharmap[text[i]]]
Stops(text) == {i \in DOMAIN text : Invcharmap[text[i]] > 63}
Stop(text) == CHOOSE i \in Stops(text) : \A j \in Stops(text) : i <= j

(* The loop over quartets ends at the first character without a value.          *)
Quartets(text) ==
  LET value == Values(text)
      full == IF Stops(text) = {} THEN Len(text) \div 4 ELSE (Stop(text) - 1) \div 4
      Word(i) == value[i] * 262144 + value[i + 1] * 4096 + value[i + 2] * 64 + value[i + 3]
  IN FlattenSeq([q \in 1 .. full |-> Triple(Word(4 * q - 3))])

(* The last quartet is checked for the rest that it should hold.                *)
WithRest(text, bytes) ==
  LET last == SubSeq(Values(text), Len(text) - 3, Len(text))
      word == last[1] * 262144 + last[2] * 4096 + (last[3] % 64) * 64
      rest == DecodedLen(text) % 3
      coded == /\ \A i \in 1 .. rest + 1 : last[i] < 64
               /\ \A i \in rest + 2 .. 4 : last[i] = 64
  IN CASE rest = 0 -> bytes
       [] rest # 0 /\ coded -> bytes \o SubSeq(Triple(word), 1, rest)
       [] OTHER -> Null

(* Mutant: a character that is none of the coding ends it.                      *)
DecodeUntil(text) ==
  IF Len(text) % 4 # 0 THEN Null ELSE WithRest(text, Quartets(text))

(* Unless the loop has met a character that is none of the coding, the text may *)
(* end where it has ended, though there is more of it.                          *)
Decode(text) ==
  IF \/ Len(text) % 4 # 0
     \/ Stops(text) # {} /\ Invcharmap[text[Stop(text)]] > 64
  THEN Null ELSE WithRest(text, Quartets(text))
===============================================================================
