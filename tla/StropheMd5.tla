------------------------------ MODULE StropheMd5 ------------------------------
(* How md5.c gathers bytes in blocks: the context keeps the state, the number   *)
(* of bits in two words and a block that is partly filled.  What the algorithm  *)
(* makes of a block, MD5Transform, is a constant.                               *)
EXTENDS Naturals, SequencesExt

CONSTANTS Block,           \* bytes of a block, 64
          LengthBytes,     \* bytes of the two words at the end of the last one, 8
          WordSize,        \* number of values of a word, 2^32
          Start,           \* the state at first
          MD5Transform(_, _)

(* The two words fit in half a block, and a word wraps at the end of a block:   *)
(* 2 * LengthBytes <= Block, (WordSize \div 8) % Block = 0.                      *)

Zeros(n) == [i \in 1 .. n |-> 0]
LsbFirst(word) == [i \in 1 .. LengthBytes \div 2 |-> (word \div 256 ^ (i - 1)) % 256]

MD5Init == [buf |-> Start, bits |-> <<0, 0>>, in |-> Zeros(Block)]

(* The bytes of the block that have been filled.                                *)
Filled(ctx) == (ctx.bits[1] \div 8) % Block

(* Blocks given to MD5Transform one after the other.                            *)
Transformed(state, blocks) == FoldLeft(MD5Transform, state, blocks)
BlocksOf(bytes) ==
  [i \in 1 .. Len(bytes) \div Block |-> SubSeq(bytes, Block * (i - 1) + 1, Block * i)]
RestOf(bytes) == SubSeq(bytes, Block * (Len(bytes) \div Block) + 1, Len(bytes))

Counted(bits, len) ==
  LET low == (bits[1] + len * 8) % WordSize
      carry == IF low < bits[1] THEN 1 ELSE 0
  IN <<low, (bits[2] + carry + (len * 8) \div WordSize) % WordSize>>

(* Mutant: what was held back before is not given to MD5Transform.              *)
MD5UpdateForgets(ctx, bytes) ==
  [buf |-> Transformed(ctx.buf, BlocksOf(bytes)), bits |-> Counted(ctx.bits, Len(bytes)),
   in |-> RestOf(bytes) \o SubSeq(ctx.in, Len(RestOf(bytes)) + 1, Block)]

(* Behind the bytes that have been filled the block keeps what it had.          *)
MD5Update(ctx, bytes) ==
  LET held == SubSeq(ctx.in, 1, Filled(ctx)) \o bytes
      blocks == BlocksOf(held)
      before == IF blocks = <<>> THEN ctx.in ELSE Last(blocks)
  IN [buf |-> Transformed(ctx.buf, blocks), bits |-> Counted(ctx.bits, Len(bytes)),
      in |-> RestOf(held) \o SubSeq(before, Len(RestOf(held)) + 1, Block)]

(* The digest is the state; its bytes are not told apart from its words.        *)
MD5Final(ctx) ==
  LET data == Append(SubSeq(ctx.in, 1, Filled(ctx)), 128)
      count == Block - Len(data)
      padded == IF count < LengthBytes THEN data \o Zeros(count) \o Zeros(Block - LengthBytes)
                ELSE data \o Zeros(count - LengthBytes)
  IN Transformed(ctx.buf, BlocksOf(padded \o LsbFirst(ctx.bits[1]) \o LsbFirst(ctx.bits[2])))

MD5(chunks) == MD5Final(FoldLeft(MD5Update, MD5Init, chunks))
===============================================================================
