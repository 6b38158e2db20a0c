------------------------------- MODULE MCData -------------------------------
(***************************************************************************)
(* The code that computes on data, with small inputs: a behaviour takes    *)
(* one part of it through all of the part's inputs.                        *)
(***************************************************************************)
EXTENDS RjHashes, RjChallenge, RjCrc, Rjv3Props, Config, GbConv, NetInfo

VARIABLE part    \* the part this behaviour is about

Init ==
    /\ part \in {"hashes", "challenge", "header", "props", "config", "gbconv", "net"}
    /\ InitContexts /\ InitChallenge /\ InitHeader /\ InitProps /\ InitConfig /\ InitMessage /\ InitNet
    /\ part # "config" => file = <<>>
    /\ part # "net" => fake_dns1 = None /\ failing = {}

(* Bound: routes are only tried with few addresses and name servers. *)
TablesAreSmall == routes # <<>> => Len(ifaddrs) + Len(resolv_conf) <= 2

Next ==
    /\ UNCHANGED part
    /\ \/ /\ part = "hashes" /\ HashNext
          /\ UNCHANGED <<challenge_vars, crc_vars, props_vars, config_vars, gb_vars, net_vars>>
       \/ /\ part = "challenge" /\ ChallengeNext
          /\ UNCHANGED <<hash_vars, crc_vars, props_vars, config_vars, gb_vars, net_vars>>
       \/ /\ part = "header" /\ NextByte
          /\ UNCHANGED <<hash_vars, challenge_vars, props_vars, config_vars, gb_vars, net_vars>>
       \/ /\ part = "props" /\ PropsNext
          /\ UNCHANGED <<hash_vars, challenge_vars, crc_vars, config_vars, gb_vars, net_vars>>
       \/ /\ part = "config" /\ ConfigNext
          /\ UNCHANGED <<hash_vars, challenge_vars, crc_vars, props_vars, gb_vars, net_vars>>
       \/ /\ part = "gbconv" /\ MessageNext
          /\ UNCHANGED <<hash_vars, challenge_vars, crc_vars, props_vars, config_vars, net_vars>>
       \/ /\ part = "net" /\ NetNext /\ TablesAreSmall'
          /\ UNCHANGED <<hash_vars, challenge_vars, crc_vars, props_vars, config_vars, gb_vars>>

-----------------------------------------------------------------------------
(* Values of the constants that a configuration file cannot write. *)
MCOptionDigits == {<<7>>, <<0, 7, 15>>, <<0, 0, 1, 3, 1, 1>>}

Pair(key, value) == [key |-> key, value |-> value]

(* Command lines: padded, empty and overlong texts, a path that just fits into
   a line, a negative number, good and bad --rj-options, unknown names.        *)
MCArgument ==
    {Pair("username", <<117, Blank>>), Pair("nic", <<>>), Pair("module", RJV3),
     Pair("module", <<110>>), Pair("save", NULL), Pair("maxfail", <<Minus, 51>>),
     Pair("proxylaniface", <<108>>),
     Pair("rjoption", <<54, 58, 55, 58, 114>>), Pair("rjoption", <<54>>),
     Pair("pidfile", [i \in 1..90 |-> 97]),
     Pair("noautoreauth", NULL)}

MCFirstFile ==
    {<<>>,
     << Pair("username", <<101>>), Pair("password", <<99>>), Pair("nic", <<101, 48>>),
        Pair("module", RJV3), Pair("heartbeat", <<57, 48>>) >>,
     << Pair("username", <<101>>), Pair("password", <<99, Blank>>), Pair("module", PRINTER),
        Pair("module", RJV3), Pair("rjoption", <<54, 58, 55>>), Pair("rjoption", <<54>>),
        Pair("fakedns1", [i \in 1..120 |-> 97]), Pair("dhcptype", <<54>>),
        Pair("daemonize", <<55>>) >>}

Addr(ifname, family, scope, value) ==
    [ifname |-> ifname, family |-> family, scope |-> scope, value |-> value]
MCAddress == {Addr("wan", "AF_INET", "global", "ip1"), Addr("lan", "AF_INET", "global", "ip2"),
              Addr("wan", "AF_INET6", "ll_temp", "ip3"), Addr("wan", "null", "none", "ip4")}

MCDnsLine == {[nameserver |-> FALSE, value |-> "search"], [nameserver |-> TRUE, value |-> "d1"],
              [nameserver |-> TRUE, value |-> "v6"]}

Rt(table, dst, oif, gateway) ==
    [family |-> "AF_INET", table |-> table, dst |-> dst, oif |-> oif, value |-> gateway]
MCRoute == {Rt("main", "any", "wan", "g1"), Rt("main", "net", "wan", "g0"),
            Rt("local", "any", "wan", "g3")}
=============================================================================
