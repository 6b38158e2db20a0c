------------------------------- MODULE GbConv -------------------------------
(***************************************************************************)
(* The server's messages on their way to the log: pr_info_gbk and gbk2utf8 *)
(* of misc.c (the build with ENABLE_GBCONV) and gbconv8 of gbconv.c.       *)
(* Messages and results are sequences of bytes.                            *)
(***************************************************************************)
EXTENDS Integers, Sequences

CONSTANTS
    MessageByte,     \* the bytes messages are made of
    MaxMessageLen    \* bound: the length of a message

ASSUME MessageAssumption == MessageByte \subseteq 0..255 /\ MaxMessageLen \in Nat

VARIABLES
    message,   \* the content of the property that is shown
    behind     \* the byte in memory behind it

gb_vars == <<message, behind>>

TableSize == 24576
Unknown == 63    \* "?"

-----------------------------------------------------------------------------
(* Mutant of gbk_to_index: the offset of the table is not subtracted. *)
gbk_to_index_NoOffset(byte1, byte2) ==
    IF byte2 \in 64..127 THEN byte1 * 64 + (byte2 % 64)
    ELSE byte1 * 128 + (byte2 % 128)

(* The position of a pair of bytes in the table: second bytes 0x40 to 0x7f come
   before all the others.                                                      *)
gbk_to_index(byte1, byte2) ==
    (IF byte2 \in 64..127 THEN byte1 * 64 + (byte2 % 64)
     ELSE byte1 * 128 + (byte2 % 128)) - 8192

(* Some entries of the table, and 0 where it has none: one of every length of
   UTF-8 and of every part of the table.                                      *)
TableEntry == [i \in 0..(TableSize - 1) |->
    CASE i = 64 -> 19970      \* 81 40
      [] i = 8368 -> 20230    \* 81 b0
      [] i = 8446 -> 20386    \* 81 fe
      [] i = 2560 -> 714      \* a8 40
      [] i = 13345 -> 257     \* a8 a1
      [] i = 13360 -> 242     \* a8 b0
      [] i = 8064 -> 64012    \* fe 40
      [] i = 24446 -> 58565   \* fe fe
      [] OTHER -> 0]

Utf8(unicode) ==
    IF unicode = 0 THEN <<Unknown>>
    ELSE IF unicode < 128 THEN <<unicode>>
    ELSE IF unicode < 2048 THEN <<192 + (unicode \div 64), 128 + (unicode % 64)>>
    ELSE <<224 + (unicode \div 4096), 128 + ((unicode \div 64) % 64), 128 + (unicode % 64)>>

AtEnd == [out |-> <<0>>, reads |-> {}]

(* One turn of the loop of gbconv8 at byte1, which is not 0: what is written and
   the indexes the table is read at from there on.  one and two are the same for
   the place one and two bytes further on.                                     *)
Turn(byte1, byte2, one, two) ==
    LET index == gbk_to_index(byte1, byte2)
    IN  IF byte1 < 128 THEN [out |-> <<byte1>> \o one.out, reads |-> one.reads]
        ELSE IF byte2 = 0 THEN [AtEnd EXCEPT !.out = <<Unknown>> \o @]
        ELSE IF byte2 % 128 = 127 THEN [out |-> <<Unknown>> \o two.out, reads |-> two.reads]
        ELSE [out |-> (IF index \in DOMAIN TableEntry THEN Utf8(TableEntry[index])
                       ELSE <<Unknown>>) \o two.out,
              reads |-> {index} \union two.reads]

(* A first byte at the very end of the source takes the byte behind it as its
   second.  The length counts what finds no room in dst too.                   *)
gbconv8(src, srclen, dstlen) ==
    LET from[pos \in 1..(srclen + 2)] ==
            IF pos > srclen \/ src[pos] = 0 THEN AtEnd
            ELSE Turn(src[pos], src[pos + 1], from[pos + 1], from[pos + 2])
        all == from[1]
    IN  [reads |-> all.reads, len |-> Len(all.out),
         out |-> SubSeq(all.out, 1, IF Len(all.out) < dstlen THEN Len(all.out) ELSE dstlen)]

(* Mutant of pr_info_gbk: a buffer as long as the message. *)
pr_info_gbk_SameSize(in, inlen) == gbconv8(in, inlen, inlen)

(* pr_info_gbk prints the buffer as a text that ends at its first 0. *)
pr_info_gbk(in, inlen) == gbconv8(in, inlen, 4 * inlen)

-----------------------------------------------------------------------------
InitMessage == message = <<>> /\ behind = 0

(* rjv3_process_result_prop shows messages that are not empty. *)
Receive(byte, next) ==
    /\ Len(message) < MaxMessageLen
    /\ message' = Append(message, byte)
    /\ behind' = next

MessageNext == \E byte \in MessageByte, next \in MessageByte : Receive(byte, next)

MessageSpec == InitMessage /\ [][MessageNext]_gb_vars

Shown == pr_info_gbk(Append(message, behind), Len(message))

(* The length of the UTF-8 character that starts with b, the bytes that continue
   one, and whether s is text: it starts with a character, and every character
   is followed by the bytes that continue it and then by another character.   *)
CharLen(b) == IF b < 128 THEN 1 ELSE IF b \in 192..223 THEN 2 ELSE IF b \in 224..239 THEN 3 ELSE 0
Continues(b) == b \in 128..191
CharAt(s, i, next) ==
    /\ i < next /\ next <= Len(s) + 1
    /\ \A k \in (i + 1)..(next - 1) : Continues(s[k])
    /\ next <= Len(s) => ~Continues(s[next])
WellFormed(s) ==
    /\ s # <<>> => ~Continues(s[1])
    /\ \A i \in DOMAIN s : Continues(s[i]) \/ CharAt(s, i, i + CharLen(s[i]))

(* Whatever bytes the server sends, and whatever lies in memory behind the last
   of them, a message that is not empty is shown as well-formed UTF-8 that ends
   inside the buffer of four bytes for each of its own.                         *)
MessageIsShownWhole ==
    message # <<>> =>
        /\ Shown.len <= 4 * Len(message)
        /\ Shown.out[Len(Shown.out)] = 0
        /\ WellFormed(Shown.out)

(* The table is read inside its bounds, for every pair of bytes. *)
TableReadInBounds == Shown.reads \subseteq 0..(TableSize - 1)
=============================================================================
