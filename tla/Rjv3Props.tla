----------------------------- MODULE Rjv3Props ------------------------------
(***************************************************************************)
(* The property lists of the rjv3 plugin (packet_plugin_rjv3_prop.c), the  *)
(* trailer rjv3_append_priv builds from them, the --rj-option lists of     *)
(* packet_plugin_rjv3.c, and the reading of a Success frame.               *)
(*                                                                         *)
(* Buffers are sequences of bytes with the real header sizes and values.   *)
(* The bytes of a field's content are tokens above 255.                    *)
(***************************************************************************)
EXTENDS Integers, Sequences, SequencesExt

CONSTANTS
    OptionType,      \* types tried in --rj-option
    OptionDigits,    \* hexadecimal strings tried as its value
    ServerType,      \* types of the properties in a server's message
    ServerSize,      \* sizes of their contents
    FRAME_BUF_SIZE,
    MaxOptions,      \* bound: number of --rj-options
    MaxServerProps   \* bound: number of properties in a message

ASSUME PropsAssumption ==
    /\ OptionType \subseteq 0..255 /\ ServerType \subseteq 0..255
    /\ \A d \in OptionDigits : d \in Seq(0..15) /\ d # <<>>
    /\ ServerSize \subseteq 0..253    \* its length byte counts type and length too
    /\ FRAME_BUF_SIZE \in Nat /\ MaxOptions \in Nat /\ MaxServerProps \in Nat

VARIABLES
    cmd_prop_list,      \* properties added by --rj-option
    cmd_prop_mod_list,  \* properties replaced by --rj-option ...:r
    server_props        \* history: what the server put into its message

props_vars == <<cmd_prop_list, cmd_prop_mod_list, server_props>>

Magic == <<0, 0, 19, 17>>
HEADER1 == 2
HEADER2 == 6
Beyond == 9999    \* what is read behind the end of a buffer

-----------------------------------------------------------------------------
(* A property; both lengths are bytes. *)
NewProp(type, content) ==
    [header_type |-> 26, header_len |-> (Len(content) + HEADER1 + HEADER2) % 256,
     type |-> type, len |-> (Len(content) + 2) % 256, content |-> content]

append_rjv3_prop(list, type, content) == Append(list, NewProp(type, content))

PROP_TO_CONTENT_SIZE(prop) == prop.len - 2

(* lookup_data with rjv3_type_prop_compare: the first of its type. *)
find_rjv3_prop(list, type) == SelectInSeq(list, LAMBDA p : p.type = type)

(* modify_rjv3_prop: the list, and the difference in size; 0 if there is none. *)
modify_rjv3_prop(list, mod) ==
    LET i == find_rjv3_prop(list, mod.type)
        new == NewProp(mod.type, SubSeq(mod.content, 1, PROP_TO_CONTENT_SIZE(mod)))
    IN  IF i = 0 THEN [list |-> list, delta |-> 0]
        ELSE [list |-> [k \in DOMAIN list |-> IF k = i THEN new ELSE list[k]],
              delta |-> new.len - list[i].len]

modify_rjv3_prop_list(org, mods) ==
    LET done[i \in 0..Len(mods)] ==
            IF i = 0 THEN [list |-> org, delta |-> 0]
            ELSE LET before == done[i - 1]
                     now == modify_rjv3_prop(before.list, mods[i])
                 IN  [list |-> now.list, delta |-> before.delta + now.delta]
    IN  done[Len(mods)]

remove_rjv3_prop(list, type) == SelectSeq(list, LAMBDA p : p.type # type)

-----------------------------------------------------------------------------
(* A buffer of zeros is the sequence of what was written to it. *)
ZeroBytes(n) == [i \in 1..n |-> 0]
Write(buf, at, bytes) ==
    LET wide == IF Len(buf) < at + Len(bytes)
                THEN buf \o ZeroBytes(at + Len(bytes) - Len(buf)) ELSE buf
    IN  [i \in 1..Len(wide) |-> IF at < i /\ i <= at + Len(bytes) THEN bytes[i - at] ELSE wide[i]]
Slice(buf, from, n) ==
    [i \in 1..n |-> IF from + i <= Len(buf) THEN buf[from + i] ELSE Beyond]

PropBytes(prop) ==
    <<prop.header_type, prop.header_len>> \o Magic \o <<prop.type, prop.len>>
    \o SubSeq(prop.content, 1, PROP_TO_CONTENT_SIZE(prop))

(* append_rjv3_prop_to_buffer returns -1 when there is no room, and nothing is
   written; append_rjv3_prop_list_to_buffer adds that -1 like any length,
   because it keeps it in a size_t and only tests for 0.                      *)
append_rjv3_prop_list_to_buffer(list, buf, at, buflen) ==
    LET done[i \in 0..Len(list)] ==
            IF i = 0 THEN [buf |-> buf, len |-> 0]
            ELSE LET before == done[i - 1]
                     bytes == PropBytes(list[i])
                 IN  IF buflen - before.len < Len(bytes)
                     THEN [before EXCEPT !.len = @ - 1]
                     ELSE [buf |-> Write(before.buf, at + before.len, bytes),
                           len |-> before.len + Len(bytes)]
    IN  done[Len(list)]

-----------------------------------------------------------------------------
(* The offset of the next magic at or after from, or -1.  The bound of the loop
   does not look at a magic in the last four bytes.                           *)
find_byte_pattern(buf, from) ==
    LET rest == Len(buf) - from
        hits == {k \in 0..rest : k + 4 < rest /\ Slice(buf, from + k, 4) = Magic}
    IN  IF hits = {} THEN -1 ELSE CHOOSE k \in hits : \A j \in hits : k <= j

(* Mutant of rjv3_prop_length_field_ok: the two bad types are trusted. *)
rjv3_prop_length_field_ok_Trusting(type, len) == len >= 2

rjv3_prop_length_field_ok(type, len) == type \notin {0, 1} /\ len >= 2

(* Content length of a property whose header2 ends at pos, with (bare = FALSE)
   and without header1.                                                       *)
ContentLen(buf, pos, bare) ==
    LET type == buf[pos - 1]
        len == buf[pos]
        next == find_byte_pattern(buf, pos)
    IN  IF IF bare THEN rjv3_prop_length_field_ok(type, len) ELSE buf[pos - 7] = 26
        THEN len - 2
        ELSE IF next = -1 THEN Len(buf) - pos
        ELSE IF bare THEN next ELSE next - HEADER1

(* parse_rjv3_buf_to_prop_list.  The list keeps what was read before an error. *)
parse_rjv3_buf_to_prop_list(buf, bare) ==
    LET header == IF bare THEN HEADER2 ELSE HEADER1 + HEADER2
        from[pos \in Nat] ==
            IF pos >= Len(buf) THEN [ok |-> TRUE, list |-> <<>>]
            ELSE IF pos + header > Len(buf) \/ Slice(buf, pos + header - HEADER2, 4) # Magic
            THEN [ok |-> FALSE, list |-> <<>>]
            ELSE LET start == pos + header
                     len == ContentLen(buf, start, bare)
                     rest == from[start + len]
                 IN  [ok |-> rest.ok,
                      list |-> <<NewProp(buf[start - 1], Slice(buf, start, len))>> \o rest.list]
    IN  from[0]

-----------------------------------------------------------------------------
(* rjv3_append_common_fields: types and sizes in the order of the code.  The
   password hash is there only when the frame answers a challenge; the second
   DNS address and the version string have the length of their text.          *)
CommonFields(md5, dns2_len, ver_len) ==
    << <<24, 4>>, <<45, 6>>, <<47, IF md5 THEN 16 ELSE 0>>, <<118, dns2_len>>, <<53, 1>>,
       <<54, 16>>, <<56, 16>>, <<78, 16>>, <<77, 128>>, <<57, 32>>, <<84, 64>>, <<85, 0>>,
       <<98, 1>>, <<112, 1>>, <<111, ver_len + 1>> >>
FieldContent(type, size) == [i \in 1..size |-> 1000 * type + i]
rjv3_append_common_fields(md5) ==
    LET fields == CommonFields(md5, 9, 20)
    IN  [i \in DOMAIN fields |-> NewProp(fields[i][1], FieldContent(fields[i][1], fields[i][2]))]

(* Mutant of rjv3_append_priv: the length of the first list is not added. *)
rjv3_append_priv_CmdlineFirst(md5) ==
    LET mods == modify_rjv3_prop_list(rjv3_append_common_fields(md5), cmd_prop_mod_list)
        std == append_rjv3_prop_list_to_buffer(mods.list, <<>>, 0, FRAME_BUF_SIZE)
        cmd == append_rjv3_prop_list_to_buffer(cmd_prop_list, std.buf, mods.delta, FRAME_BUF_SIZE)
    IN  [ok |-> TRUE, size |-> std.len + cmd.len,
         trailer |-> Slice(cmd.buf, 0, std.len + cmd.len)]

(* rjv3_append_priv after its fixed header: the size field and the trailer.
   The difference in size the modifications make is counted before the list
   they have already changed is.                                             *)
rjv3_append_priv(md5) ==
    LET mods == modify_rjv3_prop_list(rjv3_append_common_fields(md5), cmd_prop_mod_list)
        std == append_rjv3_prop_list_to_buffer(mods.list, <<>>, 0, FRAME_BUF_SIZE)
        at == mods.delta + std.len
        cmd == append_rjv3_prop_list_to_buffer(cmd_prop_list, std.buf, at, FRAME_BUF_SIZE - at)
        size == at + cmd.len
    IN  IF std.len <= 0 \/ cmd.len < 0 THEN [ok |-> FALSE, size |-> 0, trailer |-> <<>>]
        ELSE [ok |-> TRUE, size |-> size,
              trailer |-> Slice(cmd.buf \o ZeroBytes(FRAME_BUF_SIZE), 0, size)]

-----------------------------------------------------------------------------
(* char2hex and hex2char on digits: a single last digit is a byte of its own. *)
char2hex(digits) == IF Len(digits) = 1 THEN digits[1] ELSE 16 * digits[1] + digits[2]
hex2char(b) == <<b \div 16, b % 16>>

(* append_rj_cmdline_opt on type:digits[:r], at most MAX_PROP_LEN digits. *)
OptionContent(digits) ==
    LET n == IF Len(digits) > 200 THEN 200 ELSE Len(digits)
    IN  [i \in 1..((n + 1) \div 2) |->
            char2hex(SubSeq(digits, 2 * i - 1, IF 2 * i > Len(digits) THEN 2 * i - 1 ELSE 2 * i))]

(* Mutant of rjv3_save_one_prop: the high digit is left out when it is 0. *)
rjv3_save_one_prop_ShortDigits(prop) ==
    FlattenSeq([i \in 1..PROP_TO_CONTENT_SIZE(prop) |->
                   IF prop.content[i] < 16 THEN <<prop.content[i]>> ELSE hex2char(prop.content[i])])

(* rjv3_save_one_prop: the digits of the value it saves. *)
rjv3_save_one_prop(prop) ==
    FlattenSeq([i \in 1..PROP_TO_CONTENT_SIZE(prop) |-> hex2char(prop.content[i])])

-----------------------------------------------------------------------------
(* The bytes of a server's message: properties without header1.  The length
   byte of the types 0 and 1 is whatever the server likes.                   *)
ServerBytes ==
    FlattenSeq([i \in DOMAIN server_props |->
                   Magic \o <<server_props[i].type, server_props[i].len>> \o server_props[i].content])

(* rjv3_process_result_prop on it: the first property is shown, then the first
   accounting message, and the first nonempty property of type 1 holds the echo
   key at offset 6, still scrambled.                                          *)
RJV3_TYPE_ACCOUNTING_MSG == 60
rjv3_is_echokey_prop(p) == p.type = 1 /\ PROP_TO_CONTENT_SIZE(p) # 0
rjv3_process_result_prop ==
    LET list == IF server_props = <<>> THEN <<>>
                ELSE parse_rjv3_buf_to_prop_list(ServerBytes, TRUE).list
        i == SelectInSeq(list, rjv3_is_echokey_prop)
        a == find_rjv3_prop(list, RJV3_TYPE_ACCOUNTING_MSG)
    IN  [list |-> list,
         notice |-> IF a = 0 THEN 0 ELSE PROP_TO_CONTENT_SIZE(list[a]),
         shown |-> IF list = <<>> THEN 0 ELSE PROP_TO_CONTENT_SIZE(list[1]),
         echokey |-> IF i = 0 THEN <<>> ELSE Slice(list[i].content, 6, 4)]

InitProps == cmd_prop_list = <<>> /\ cmd_prop_mod_list = <<>> /\ server_props = <<>>

(* append_rj_cmdline_opt, from the command line or from the file. *)
RjOption(type, digits, replace) ==
    LET prop == NewProp(type, OptionContent(digits))
    IN  /\ Len(cmd_prop_list) + Len(cmd_prop_mod_list) < MaxOptions
        /\ IF replace
           THEN /\ cmd_prop_mod_list' = Append(cmd_prop_mod_list, prop)
                /\ UNCHANGED cmd_prop_list
           ELSE /\ cmd_prop_list' = Append(cmd_prop_list, prop)
                /\ UNCHANGED cmd_prop_mod_list
        /\ UNCHANGED server_props

(* The server adds a property to its message. *)
ServerProp(type, size, lie) ==
    LET content == [k \in 1..size |-> 1000 * (Len(server_props) + 1) + k]
    IN  /\ cmd_prop_list = <<>> /\ cmd_prop_mod_list = <<>>
        /\ Len(server_props) < MaxServerProps
        /\ server_props' = Append(server_props,
              [type |-> type, len |-> IF lie /\ type \in {0, 1} THEN 2 ELSE size + 2,
               content |-> content])
        /\ UNCHANGED <<cmd_prop_list, cmd_prop_mod_list>>

PropsNext ==
    \/ \E type \in OptionType, digits \in OptionDigits, replace \in BOOLEAN :
          server_props = <<>> /\ RjOption(type, digits, replace)
    \/ \E type \in ServerType, size \in ServerSize, lie \in BOOLEAN : ServerProp(type, size, lie)

PropsSpec == InitProps /\ [][PropsNext]_props_vars

-----------------------------------------------------------------------------
Modified(md5) == modify_rjv3_prop_list(rjv3_append_common_fields(md5), cmd_prop_mod_list)
FullLength(list) == LET sum[i \in 0..Len(list)] ==
                            IF i = 0 THEN 0 ELSE sum[i - 1] + Len(PropBytes(list[i]))
                    IN  sum[Len(list)]

(* The size field announces, and the trailer holds, the built-in properties with
   their replacements followed by the added ones, as the code's own parser reads
   them: as long as the replacements leave the total size as it was (the length
   they add is counted twice) and everything fits into the buffer.              *)
TrailerHoldsEveryProp ==
    \A md5 \in BOOLEAN :
        LET want == Modified(md5).list \o cmd_prop_list
            got == rjv3_append_priv(md5)
        IN  Modified(md5).delta = 0 /\ FullLength(want) <= FRAME_BUF_SIZE =>
                /\ got.size = FullLength(want)
                /\ parse_rjv3_buf_to_prop_list(got.trailer, FALSE) = [ok |-> TRUE, list |-> want]

(* A server's message is read back property by property, although the length of
   the types 0 and 1 is not believed and the pattern search stops short of the
   end of the buffer; its first property and its first accounting message are
   shown whole, and the echo key is that of the first property of type 1 that
   has a content.                                                               *)
ServerMessageIsRead ==
    LET got == rjv3_process_result_prop
        keys == {i \in DOMAIN server_props :
                    server_props[i].type = 1 /\ server_props[i].content # <<>>}
    IN  /\ Len(got.list) = Len(server_props)
        /\ \A i \in DOMAIN server_props :
              /\ got.list[i].type = server_props[i].type
              /\ got.list[i].content = server_props[i].content
        /\ server_props # <<>> => got.shown = Len(server_props[1].content)
        /\ \A i \in DOMAIN server_props :
              server_props[i].type = 60 /\ (\A j \in 1..(i - 1) : server_props[j].type # 60)
              => got.notice = Len(server_props[i].content)
        /\ \A i \in keys : (\A j \in keys : i <= j) =>
              got.echokey = Slice(server_props[i].content, 6, 4)

(* What rjv3_save_config writes for an --rj-option is read back as the same
   property, in the digits that hex2char writes and char2hex reads.             *)
OptionsSurviveSave ==
    \A prop \in Range(cmd_prop_list \o cmd_prop_mod_list) :
        NewProp(char2hex(hex2char(prop.type)), OptionContent(rjv3_save_one_prop(prop))) = prop
=============================================================================
