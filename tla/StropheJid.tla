------------------------------ MODULE StropheJid ------------------------------
(* The addresses of libstrophe (jid.c), node@domain/resource.  A string is a    *)
(* sequence of bytes, of which those with a meaning have names.                 *)
EXTENDS Naturals, Sequences, FiniteSetsExt

CONSTANT None    \* NULL, a part that an address has not

At == 64
Slash == 47

(* strchr from a position on: where the first such byte is, or past the end.    *)
IndexFrom(text, first, bytes) ==
  LET found == {i \in first .. Len(text) : text[i] \in bytes}
  IN IF found = {} THEN Len(text) + 1 ELSE Min(found)

Upto(text, i) == SubSeq(text, 1, i - 1)
After(text, i) == SubSeq(text, i + 1, Len(text))
Has(text, byte) == IndexFrom(text, 1, {byte}) <= Len(text)

JidNew(node, domain, resource) ==
  (IF node = None THEN <<>> ELSE Append(node, At)) \o domain
    \o (IF resource = None THEN <<>> ELSE <<Slash>> \o resource)

JidBare(jid) == Upto(jid, IndexFrom(jid, 1, {Slash}))

(* The node ends at the first '@', be it one of the resource.                   *)
JidNode(jid) == IF Has(jid, At) THEN Upto(jid, IndexFrom(jid, 1, {At})) ELSE None

JidDomain(jid) ==
  LET rest == IF Has(jid, At) THEN After(jid, IndexFrom(jid, 1, {At})) ELSE jid
  IN Upto(rest, IndexFrom(rest, 1, {Slash}))

(* Mutant: the resource begins after the last '/'.                              *)
JidResourceLast(jid) ==
  LET slashes == {i \in DOMAIN jid : jid[i] = Slash}
  IN IF slashes = {} THEN None ELSE After(jid, Max(slashes))

JidResource(jid) == IF Has(jid, Slash) THEN After(jid, IndexFrom(jid, 1, {Slash})) ELSE None
===============================================================================
