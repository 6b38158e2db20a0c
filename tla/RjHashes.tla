------------------------------ MODULE RjHashes ------------------------------
(***************************************************************************)
(* The buffering of the digests of md5.c and rjv3_hashes/.                 *)
(*                                                                         *)
(* The control of a digest is its buffering: which bytes reach which block *)
(* for every way of cutting a message into update calls.  The compression  *)
(* of a block is a free constructor: the chaining value is the sequence of *)
(* the blocks compressed so far, so two digests are equal exactly when the *)
(* same blocks were compressed in the same order.  The bytes of a message  *)
(* are distinct tokens above 255; padding and lengths are real bytes.      *)
(***************************************************************************)
EXTENDS Integers, Sequences, SequencesExt

CONSTANTS
    Chunk,   \* sizes of the chunks given to the update functions
    MaxLen   \* bound: length of a message

ASSUME ChunkAssumption == Chunk \subseteq Nat /\ MaxLen \in Nat

VARIABLES
    ctx,     \* the context of every algorithm, fed with the same chunks
    data     \* history: the whole message

hash_vars == <<ctx, data>>

Alg == {"md5", "rjmd5", "sha1", "tiger", "whirlpool", "ripemd128"}
Junk == -1   \* a byte never written

(* The init functions: nothing hashed, the initial chaining value, and a buffer
   nobody wrote.                                                             *)
NewContext == [length |-> 0, hash |-> <<>>, message |-> [i \in 0..63 |-> Junk]]
MD5Init == NewContext
rhash_md5_init == NewContext
rhash_sha1_init == NewContext
rhash_tiger_init == NewContext
rhash_whirlpool_init == NewContext
ampheck_ripemd128_init == NewContext

-----------------------------------------------------------------------------
(* memcpy of bytes into a block buffer, from offset at. *)
Copy(buf, at, bytes) ==
    [i \in 0..63 |-> IF at <= i /\ i < at + Len(bytes) THEN bytes[i - at + 1] ELSE buf[i]]
ZeroFrom(buf, at, end) == [i \in 0..63 |-> IF at <= i /\ i < end THEN 0 ELSE buf[i]]
WholeBlocks(s) ==
    [b \in 1..(Len(s) \div 64) |-> [i \in 0..63 |-> s[64 * (b - 1) + i + 1]]]
Leftover(s) == SubSeq(s, 64 * (Len(s) \div 64) + 1, Len(s))
Drop(s, n) == SubSeq(s, n + 1, Len(s))

(* The eight bytes of a 64-bit integer, low byte first and high byte first; a
   message is shorter than 2^29 bytes.                                       *)
LE64(n) == << n % 256, (n \div 256) % 256, (n \div 65536) % 256, (n \div 16777216) % 256,
              0, 0, 0, 0 >>
BE64(n) == Reverse(LE64(n))

(* The compression functions, called on every block of a run in its order. *)
rhash_md5_process_block(hash, run) == hash \o [b \in DOMAIN run |-> <<"rjmd5", run[b]>>]
rhash_sha1_process_block(hash, run) == hash \o [b \in DOMAIN run |-> <<"sha1", run[b]>>]
rhash_tiger_process_block(hash, run) == hash \o [b \in DOMAIN run |-> <<"tiger", run[b]>>]
rhash_whirlpool_process_block(hash, run) == hash \o [b \in DOMAIN run |-> <<"whirlpool", run[b]>>]
ampheck_ripemd128_transform(hash, run) == hash \o [b \in DOMAIN run |-> <<"ripemd128", run[b]>>]
MD5Transform(hash, run) == hash \o [b \in DOMAIN run |-> <<"md5", run[b]>>]

-----------------------------------------------------------------------------
(* An update: the context and the message give the blocks to compress and the
   bytes the buffer is left with.                                            *)
Updated(c, msg, hash, buffer) ==
    [length |-> c.length + Len(msg), hash |-> hash, message |-> buffer]

(* The rhash family: bytes left by an earlier call are filled up to a block
   first.  An aligned message is compressed in place, another one passes
   through the context's buffer and leaves its bytes there.                  *)
RhashBlocks(c, msg) ==
    LET index == c.length % 64
        left == 64 - index
        filled == Copy(c.message, index, SubSeq(msg, 1, left))
    IN  IF index = 0 THEN WholeBlocks(msg)
        ELSE IF Len(msg) < left THEN <<>>
        ELSE <<filled>> \o WholeBlocks(Drop(msg, left))
RhashBuffer(c, msg, aligned) ==
    LET index == c.length % 64
        left == 64 - index
        rest == IF index = 0 THEN msg ELSE Drop(msg, left)
        filled == Copy(c.message, index, SubSeq(msg, 1, left))
        used == IF Len(rest) >= 64 /\ ~aligned THEN Last(WholeBlocks(rest))
                ELSE IF index # 0 THEN filled ELSE c.message
    IN  IF index # 0 /\ Len(msg) < left THEN Copy(c.message, index, msg)
        ELSE Copy(used, 0, Leftover(rest))

rhash_md5_update(c, msg, aligned) ==
    Updated(c, msg, rhash_md5_process_block(c.hash, RhashBlocks(c, msg)),
            RhashBuffer(c, msg, aligned))
rhash_sha1_update(c, msg, aligned) ==
    Updated(c, msg, rhash_sha1_process_block(c.hash, RhashBlocks(c, msg)),
            RhashBuffer(c, msg, aligned))
rhash_tiger_update(c, msg, aligned) ==
    Updated(c, msg, rhash_tiger_process_block(c.hash, RhashBlocks(c, msg)),
            RhashBuffer(c, msg, aligned))
rhash_whirlpool_update(c, msg, aligned) ==
    Updated(c, msg, rhash_whirlpool_process_block(c.hash, RhashBlocks(c, msg)),
            RhashBuffer(c, msg, aligned))

(* MD5 and RIPEMD: an empty buffer is filled too. *)
FillBlocks(c, msg) ==
    LET index == c.length % 64
        left == 64 - index
    IN  IF Len(msg) < left THEN <<>>
        ELSE <<Copy(c.message, index, SubSeq(msg, 1, left))>> \o WholeBlocks(Drop(msg, left))
FillBuffer(c, msg) ==
    LET index == c.length % 64
        left == 64 - index
    IN  IF Len(msg) < left THEN Copy(c.message, index, msg)
        ELSE Copy(Copy(c.message, index, SubSeq(msg, 1, left)), 0, Leftover(Drop(msg, left)))

ampheck_ripemd128_update(c, msg) ==
    Updated(c, msg, ampheck_ripemd128_transform(c.hash, FillBlocks(c, msg)), FillBuffer(c, msg))
MD5Update(c, msg) ==
    Updated(c, msg, MD5Transform(c.hash, FillBlocks(c, msg)), FillBuffer(c, msg))

-----------------------------------------------------------------------------
(* The blocks of a final: the buffer is written up to next; when what is left
   after it is no room for the length, an extra block is compressed.          *)
Finish(padded, next, limit, length) ==
    LET end(from) == Copy(ZeroFrom(padded, from, 56), 56, length)
    IN  IF next > limit THEN <<ZeroFrom(padded, next, 64), end(0)>> ELSE <<end(next)>>

PaddedWith(c, mark) == Copy(c.message, c.length % 64, <<mark>>)

(* MD5 and SHA1 of the plugin count words: the rest of the word that holds the
   mark is cleared.                                                           *)
WordEnd(c) == 4 * (((c.length % 64) \div 4) + 1)
WordPadded(c) == ZeroFrom(PaddedWith(c, 128), (c.length % 64) + 1, WordEnd(c))

rhash_md5_final(c) ==
    rhash_md5_process_block(c.hash,
        Finish(WordPadded(c), WordEnd(c), 56, LE64(8 * c.length)))

(* Mutant of rhash_sha1_final: room for the length is taken to be one word less. *)
rhash_sha1_final_NoRoom(c) ==
    rhash_sha1_process_block(c.hash,
        Finish(WordPadded(c), WordEnd(c), 60, BE64(8 * c.length)))

rhash_sha1_final(c) ==
    rhash_sha1_process_block(c.hash,
        Finish(WordPadded(c), WordEnd(c), 56, BE64(8 * c.length)))

(* The plugin uses the first Tiger, whose mark is 0x01. *)
rhash_tiger_final(c) ==
    rhash_tiger_process_block(c.hash,
        Finish(PaddedWith(c, 1), (c.length % 64) + 1, 56, LE64(8 * c.length)))

rhash_whirlpool_final(c) ==
    rhash_whirlpool_process_block(c.hash,
        Finish(PaddedWith(c, 128), (c.length % 64) + 1, 32, BE64(8 * c.length)))

ampheck_ripemd128_finish(c) ==
    ampheck_ripemd128_transform(c.hash,
        Finish(PaddedWith(c, 128), (c.length % 64) + 1, 56, LE64(8 * c.length)))

MD5Final(c) ==
    LET index == c.length % 64
        padLen == IF index < 56 THEN 56 - index ELSE 120 - index
        PADDING == [i \in 1..padLen |-> IF i = 1 THEN 128 ELSE 0]
    IN  MD5Update(MD5Update(c, PADDING), LE64(8 * c.length)).hash

ComputeHash(src) == MD5Final(MD5Update(MD5Init, src))

-----------------------------------------------------------------------------
InitContexts ==
    /\ ctx = [a \in Alg |->
            CASE a = "md5" -> MD5Init
              [] a = "rjmd5" -> rhash_md5_init
              [] a = "sha1" -> rhash_sha1_init
              [] a = "tiger" -> rhash_tiger_init
              [] a = "whirlpool" -> rhash_whirlpool_init
              [] a = "ripemd128" -> ampheck_ripemd128_init]
    /\ data = <<>>

(* One call of each update function with the next chunk of the message. *)
Feed(size, aligned) ==
    LET chunk == [i \in 1..size |-> 255 + Len(data) + i]
    IN  /\ Len(data) + size <= MaxLen
        /\ data' = data \o chunk
        /\ ctx' = [md5 |-> MD5Update(ctx["md5"], chunk),
                   rjmd5 |-> rhash_md5_update(ctx["rjmd5"], chunk, aligned),
                   sha1 |-> rhash_sha1_update(ctx["sha1"], chunk, aligned),
                   tiger |-> rhash_tiger_update(ctx["tiger"], chunk, aligned),
                   whirlpool |-> rhash_whirlpool_update(ctx["whirlpool"], chunk, aligned),
                   ripemd128 |-> ampheck_ripemd128_update(ctx["ripemd128"], chunk)]

HashNext == \E size \in Chunk, aligned \in BOOLEAN : Feed(size, aligned)

HashSpec == InitContexts /\ [][HashNext]_hash_vars

Final(a) ==
    CASE a = "md5" -> MD5Final(ctx[a])
      [] a = "rjmd5" -> rhash_md5_final(ctx[a])
      [] a = "sha1" -> rhash_sha1_final(ctx[a])
      [] a = "tiger" -> rhash_tiger_final(ctx[a])
      [] a = "whirlpool" -> rhash_whirlpool_final(ctx[a])
      [] a = "ripemd128" -> ampheck_ripemd128_finish(ctx[a])

(* The standards' padding: mark, least number of zeros, length of the message
   in bits (256 bits of it for Whirlpool), in whole blocks.                   *)
StandardBlocks(a, msg) ==
    LET mark == IF a = "tiger" THEN 1 ELSE 128
        bits == CASE a = "sha1" -> BE64(8 * Len(msg))
                  [] a = "whirlpool" -> [i \in 1..24 |-> 0] \o BE64(8 * Len(msg))
                  [] OTHER -> LE64(8 * Len(msg))
        zeros == CHOOSE n \in 0..63 : (Len(msg) + 1 + n + Len(bits)) % 64 = 0
        blocks == WholeBlocks(msg \o <<mark>> \o [i \in 1..zeros |-> 0] \o bits)
    IN  [b \in DOMAIN blocks |-> <<a, blocks[b]>>]

(* However a message is cut into update calls, every digest compresses exactly
   the blocks of the standard: no byte is lost, repeated or left over from an
   earlier block, and the length always finds room.                           *)
DigestIsOfWholeMessage == \A a \in Alg : Final(a) = StandardBlocks(a, data)
=============================================================================
