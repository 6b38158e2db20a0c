---------------------------- MODULE RjChallenge -----------------------------
(***************************************************************************)
(* What the rjv3 plugin computes from a challenge: computeV4 and           *)
(* computePwd of checkV4.c.  A digest of a table is a row of opaque bytes. *)
(* A byte of the challenge is a number, so the signed reading of it in     *)
(* computeV4 is kept.  The buffers of both, wtmp[160] and tmp[40], are     *)
(* filled as the code fills them, past their ends if need be.              *)
(***************************************************************************)
EXTENDS Integers, Sequences, SequencesExt, FiniteSets

CONSTANTS
    ChallengeByte,   \* values tried for the bytes that choose the variant
    NameLen          \* lengths tried for user names and passwords

ASSUME NameLenAssumption == NameLen \subseteq Nat
ASSUME ChallengeByteAssumption == ChallengeByte \subseteq 0..255

VARIABLES
    s,          \* the sixteen bytes of the MD5-Value of the request
    user_len,   \* strlen of the user name
    pass_len    \* strlen of the password

challenge_vars == <<s, user_len, pass_len>>

signed(b) == IF b < 128 THEN b ELSE b - 256

-----------------------------------------------------------------------------
(* The digests of the two tables of checkV4.c, byte by byte, and in hex. *)
Digest(alg, table, len) == [i \in 1..len |-> <<alg, table, i>>]
Hex(bytes) == [k \in 1..(2 * Len(bytes)) |->
                  <<bytes[(k + 1) \div 2], IF k % 2 = 1 THEN "high" ELSE "low">>]

(* The variant: the sum is an int, taken modulo 2^32 for the "% 5u", so that a
   negative sum has 2^32 added to it: 1 modulo 5, as 256 is.                  *)
v4_check_type ==
    LET sum == signed(s[1]) + signed(s[4])
    IN  (IF sum < 0 THEN sum + 256 ELSE sum) % 5

(* sprintf("%02x") of a signed char: a negative one is widened to eight digits. *)
HexOfSigned(i) ==
    LET digits == <<<<"s", i, "high">>, <<"s", i, "low">>>>
    IN  IF s[i] < 128 THEN digits ELSE [k \in 1..6 |-> <<"f">>] \o digits

(* Every second byte of the challenge, from the one given. *)
EverySecond(i) ==
    HexOfSigned(i) \o HexOfSigned(i + 2) \o HexOfSigned(i + 4) \o HexOfSigned(i + 6)
    \o HexOfSigned(i + 8) \o HexOfSigned(i + 10) \o HexOfSigned(i + 12) \o HexOfSigned(i + 14)

(* Mutant of Raw: the bytes are taken from one place on. *)
Raw_OneLate(from, to) == [k \in 1..(to - from + 1) |-> <<"s", from + k>>]

Raw(from, to) == [k \in 1..(to - from + 1) |-> <<"s", from + k - 1>>]

(* What computeV4 writes to wtmp, in its five variants. *)
Written ==
    CASE v4_check_type = 0 ->
           Hex(Digest("rjmd5", "array", 16)) \o EverySecond(1)
           \o Hex(Digest("rjmd5", "array_1", 16)) \o EverySecond(2)
      [] v4_check_type = 1 -> Digest("sha1", "array_1", 20) \o Raw(1, 6)
                              \o Digest("sha1", "array", 20) \o Raw(7, 16)
      [] v4_check_type = 2 -> Digest("sha1", "array_1", 20) \o Raw(1, 6)
                              \o Digest("ripemd128", "array", 16) \o Raw(7, 16)
      [] v4_check_type = 3 -> Digest("tiger", "array", 24) \o Raw(1, 10)
                              \o Digest("ripemd128", "array_1", 16) \o Raw(11, 16)
      [] v4_check_type = 4 -> Digest("tiger", "array_1", 24) \o Raw(1, 8)
                              \o Digest("sha1", "array", 20) \o Raw(9, 16)

(* Mutant of wpos: the end of the text is counted. *)
wpos_WithEnd == IF v4_check_type = 0 THEN 97 ELSE Len(Written)

(* The bytes given to Whirlpool: wpos is set to 0x60 in the first variant. *)
wpos == IF v4_check_type = 0 THEN 96 ELSE Len(Written)
Hashed == SubSeq(Written, 1, wpos)

-----------------------------------------------------------------------------
(* computePwd, one operator for each call that writes to its tmp[40].  A write
   past the end of tmp hits other parts of the stack; Spills tells of it.    *)
TMP_SIZE == 40
Zero == <<"zero">>
Text(name, len) == [i \in 1..(len + 1) |-> IF i <= len THEN <<name, i>> ELSE Zero]

Spills(at, bytes) == at + Len(bytes) - 1 > TMP_SIZE
Put(tmp, at, bytes) ==
    [i \in 1..TMP_SIZE |-> IF i - at + 1 \in 1..Len(bytes) THEN bytes[i - at + 1] ELSE tmp[i]]

Uninitialised == [i \in 1..TMP_SIZE |-> <<"junk", i>>]

(* strcpy of the user name, memcpy of the MD5-Value over its end. *)
UserAndChallenge == Put(Put(Uninitialised, 1, Text("user", user_len)), user_len + 1, Raw(1, 16))

(* Mutant of Cleared: memset is missing. *)
Cleared_Not(tmp) == tmp

(* memset of the first sixteen bytes. *)
Cleared(tmp) == Put(tmp, 1, [i \in 1..16 |-> Zero])

(* strcpy of the password. *)
PwdMask == Put(Cleared(UserAndChallenge), 1, Text("pass", pass_len))

(* A byte of the result: one of ComputeHash over the first tmp_len bytes, and
   the byte of tmp it is XORed with.                                          *)
computePwd ==
    LET hash_input == [i \in 1..(user_len + 16) |-> UserAndChallenge[i]]
    IN  [i \in 1..16 |-> <<<<"md5", hash_input, i>>, PwdMask[i]>>]

PwdSpills ==
    \/ Spills(1, Text("user", user_len)) \/ Spills(user_len + 1, Raw(1, 16))
    \/ Spills(1, Text("pass", pass_len))

-----------------------------------------------------------------------------
(* Challenges that differ in the variant and in how many bytes are above 0x7f. *)
Challenge(first, fourth, high) ==
    [i \in 1..16 |-> CASE i = 1 -> first [] i = 4 -> fourth
                       [] OTHER -> IF i <= high THEN 128 + i ELSE i]

InitChallenge == s = Challenge(0, 0, 0) /\ user_len = 0 /\ pass_len = 0

(* A request arrives; a user is configured.  The inputs vary one at a time. *)
NewChallenge(first, fourth, high) ==
    /\ s' = Challenge(first, fourth, high)
    /\ user_len' = 0 /\ pass_len' = 0
NewUser(ul, pl) ==
    /\ user_len' = ul /\ pass_len' = pl
    /\ s' = Challenge(0, 0, 0)

ChallengeNext ==
    \/ \E first, fourth \in ChallengeByte, high \in 0..16 : NewChallenge(first, fourth, high)
    \/ \E ul, pl \in NameLen : NewUser(ul, pl)

ChallengeSpec == InitChallenge /\ [][ChallengeNext]_challenge_vars

(* Every byte of the challenge reaches the digest, in every variant; in the
   first one only while no byte is above 0x7f, whose eight digits would push
   the last bytes behind the 0x60 that are hashed.                           *)
WholeChallengeHashed ==
    v4_check_type # 0 \/ (\A i \in 1..16 : s[i] < 128) =>
        \A i \in 1..16 : \/ <<"s", i>> \in Range(Hashed)
                         \/ {<<"s", i, "high">>, <<"s", i, "low">>} \subseteq Range(Hashed)

(* No byte of wtmp is hashed that was not written.  wtmp[160] overflows for
   exactly the challenges that choose the first variant and have more than ten
   bytes above 0x7f: the text and its end take six bytes more for each.       *)
V4BufferBounds ==
    /\ Len(Written) >= wpos
    /\ Len(Written) + 1 > 160 <=>
          v4_check_type = 0 /\ Cardinality({i \in 1..16 : s[i] > 127}) > 10

(* tmp[40] overflows exactly for user names above 24 and passwords above 39
   bytes.  For all others the result is the MD5 of user name and challenge,
   XORed with the first sixteen bytes of the password and zeros behind them:
   the junk, the user name and the challenge that were in the same buffer leave
   no trace in the mask.                                                      *)
OnlyPasswordMasks ==
    LET user_and_challenge == [i \in 1..(user_len + 16) |->
            IF i <= user_len THEN <<"user", i>> ELSE <<"s", i - user_len>>]
    IN  /\ PwdSpills <=> user_len > 24 \/ pass_len > 39
        /\ ~PwdSpills =>
              computePwd = [i \in 1..16 |->
                  <<<<"md5", user_and_challenge, i>>,
                    IF i <= pass_len THEN <<"pass", i>> ELSE Zero>>]
=============================================================================
