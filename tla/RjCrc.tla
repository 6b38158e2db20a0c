------------------------------- MODULE RjCrc --------------------------------
(***************************************************************************)
(* The address block of the rjv3 header: its CRC (rjcrc16.c), the          *)
(* scrambling of bytes (rjencode.c, bit_reverse of misc.c) and the key and *)
(* heartbeat fields that use it.  A byte is a number with its bits.        *)
(***************************************************************************)
EXTENDS Integers, Sequences, SequencesExt, Bitwise

VARIABLES
    header,     \* the address block before scrambling: 21 bytes
    byte        \* any byte

crc_vars == <<header, byte>>

-----------------------------------------------------------------------------
(* Bits of a byte. *)
Bit(b, k) == (b \div 2^k) % 2
Not8(b) == 255 - b

(* bit_reverse swaps the nibbles, each reversed by its table. *)
half_reverse_table == <<0, 8, 4, 12, 2, 10, 6, 14, 1, 9, 5, 13, 3, 11, 7, 15>>
bit_reverse(b) == 16 * half_reverse_table[(b % 16) + 1] + half_reverse_table[(b \div 16) + 1]

(* rj_encode and rj_decode move every bit on its own. *)
rj_encode(b) ==
    LET moved == <<<<4, 3>>, <<5, 2>>, <<6, 1>>, <<7, 0>>, <<3, 4>>, <<2, 5>>, <<1, 6>>, <<0, 7>>>>
    IN  Not8(FoldLeft(LAMBDA sum, m : sum + Bit(b, m[1]) * 2^m[2], 0, moved))

(* Mutant of rj_decode: the lowest bit is not moved to the top. *)
rj_decode_LowBitLost(b) ==
    LET moved == <<<<4, 3>>, <<5, 2>>, <<6, 1>>, <<7, 0>>, <<3, 4>>, <<2, 5>>, <<1, 6>>>>
    IN  FoldLeft(LAMBDA sum, m : sum + Bit(Not8(b), m[1]) * 2^m[2], 0, moved)

rj_decode(b) ==
    LET moved == <<<<4, 3>>, <<5, 2>>, <<6, 1>>, <<7, 0>>, <<3, 4>>, <<2, 5>>, <<0, 7>>, <<1, 6>>>>
    IN  FoldLeft(LAMBDA sum, m : sum + Bit(Not8(b), m[1]) * 2^m[2], 0, moved)

(* One byte of the echo key of a Success frame, and of the heartbeat's fields. *)
EchoKeyByte(b) == bit_reverse(Not8(b))
HeartbeatByte(b) == Not8(bit_reverse(b))

-----------------------------------------------------------------------------
crc16tab == <<
    0, 4129, 8258, 12387, 16516, 20645, 24774, 28903, 33032, 37161, 41290, 45419, 49548, 53677, 57806, 61935,
    4657, 528, 12915, 8786, 21173, 17044, 29431, 25302, 37689, 33560, 45947, 41818, 54205, 50076, 62463, 58334,
    9314, 13379, 1056, 5121, 25830, 29895, 17572, 21637, 42346, 46411, 34088, 38153, 58862, 62927, 50604, 54669,
    13907, 9842, 5649, 1584, 30423, 26358, 22165, 18100, 46939, 42874, 38681, 34616, 63455, 59390, 55197, 51132,
    18628, 22757, 26758, 30887, 2112, 6241, 10242, 14371, 51660, 55789, 59790, 63919, 35144, 39273, 43274, 47403,
    23285, 19156, 31415, 27286, 6769, 2640, 14899, 10770, 56317, 52188, 64447, 60318, 39801, 35672, 47931, 43802,
    27814, 31879, 19684, 23749, 11298, 15363, 3168, 7233, 60846, 64911, 52716, 56781, 44330, 48395, 36200, 40265,
    32407, 28342, 24277, 20212, 15891, 11826, 7761, 3696, 65439, 61374, 57309, 53244, 48923, 44858, 40793, 36728,
    37256, 33193, 45514, 41451, 53516, 49453, 61774, 57711, 4224, 161, 12482, 8419, 20484, 16421, 28742, 24679,
    33721, 37784, 41979, 46042, 49981, 54044, 58239, 62302, 689, 4752, 8947, 13010, 16949, 21012, 25207, 29270,
    46570, 42443, 38312, 34185, 62830, 58703, 54572, 50445, 13538, 9411, 5280, 1153, 29798, 25671, 21540, 17413,
    42971, 47098, 34713, 38840, 59231, 63358, 50973, 55100, 9939, 14066, 1681, 5808, 26199, 30326, 17941, 22068,
    55628, 51565, 63758, 59695, 39368, 35305, 47498, 43435, 22596, 18533, 30726, 26663, 6336, 2273, 14466, 10403,
    52093, 56156, 60223, 64286, 35833, 39896, 43963, 48026, 19061, 23124, 27191, 31254, 2801, 6864, 10931, 14994,
    64814, 60687, 56684, 52557, 48554, 44427, 40424, 36297, 31782, 27655, 23652, 19525, 15522, 11395, 7392, 3265,
    61215, 65342, 53085, 57212, 44955, 49082, 36825, 40952, 28183, 32310, 20053, 24180, 11923, 16050, 3793, 7920>>

(* Mutant of crc16: the table is indexed with the low byte of the register. *)
crc16_TableByLowByte(buf) ==
    LET crc[i \in 0..Len(buf)] ==
            IF i = 0 THEN 0
            ELSE LET c == crc[i - 1]
                 IN  ((c * 256) % 65536) ^^ crc16tab[((c % 256) ^^ buf[i]) + 1]
    IN  crc[Len(buf)]

crc16(buf) ==
    LET crc[i \in 0..Len(buf)] ==
            IF i = 0 THEN 0
            ELSE LET c == crc[i - 1]
                 IN  ((c * 256) % 65536) ^^ crc16tab[((c \div 256) ^^ buf[i]) + 1]
    IN  crc[Len(buf)]

(* rjv3_append_priv_header: the CRC of the first 21 bytes, high byte first,
   then every byte scrambled.                                               *)
PrivHeader(block) ==
    LET crc == crc16(block)
        whole == block \o <<crc \div 256, crc % 256>>
    IN  [i \in DOMAIN whole |-> rj_encode(whole[i])]

-----------------------------------------------------------------------------
InitHeader == header = <<0, 0, 19, 17, 1>> \o [i \in 1..16 |-> 0] /\ byte = 0

(* The bytes of the block take every value, one after another. *)
NextByte ==
    /\ byte < 255 /\ byte' = byte + 1
    /\ header' = [header EXCEPT ![6 + (byte % 16)] = byte + 1]

-----------------------------------------------------------------------------
(* The three ways of scrambling a byte are one: rj_encode, which mixes the bits
   by hand, is the complement of bit_reverse, which uses a table, and each
   reader inverts its writer.                                                 *)
ScramblingInverts ==
    /\ rj_decode(rj_encode(byte)) = byte
    /\ rj_encode(byte) = HeartbeatByte(byte)
    /\ EchoKeyByte(HeartbeatByte(byte)) = byte

(* Division by x^16 + x^12 + x^5 + 1, bit by bit: the reference for the table. *)
ShiftOnce(c) == IF c >= 32768 THEN ((c * 2) % 65536) ^^ 4129 ELSE c * 2
CrcOfByte(b) ==
    LET bit[i \in 0..8] == IF i = 0 THEN b * 256 ELSE ShiftOnce(bit[i - 1]) IN bit[8]

(* Every entry of the table is the remainder it stands for, the CRC of the
   digits "123456789" is the 31C3 of the comment in rjcrc16.c, and the receiver
   of a header finds its CRC right.                                          *)
HeaderCrcIsSound ==
    LET sent == PrivHeader(header)
        plain == [i \in DOMAIN sent |-> rj_decode(sent[i])]
    IN  /\ crc16tab[byte + 1] = CrcOfByte(byte)
        /\ crc16([i \in 1..9 |-> 48 + i]) = 12739
        /\ crc16(plain) = 0
=============================================================================
