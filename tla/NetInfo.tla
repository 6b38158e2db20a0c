------------------------------- MODULE NetInfo ------------------------------
(***************************************************************************)
(* What the rjv3 fields say about the host: net_util.c and the functions   *)
(* of packet_plugin_rjv3_priv.c that use it (local MAC, IPv6 addresses,    *)
(* DNS, the DHCP lease).  The kernel's answers are the variables: they may *)
(* be different at every call.  A result is SUCCESS or FAILURE as in the    *)
(* code, CRASH where the code follows a null pointer, or BLOCKED where it   *)
(* waits for an answer that does not come.                                  *)
(***************************************************************************)
EXTENDS Integers, Sequences, SequencesExt, Lists

CONSTANTS
    Address,     \* the entries getifaddrs may return
    DnsLine,     \* the lines of /etc/resolv.conf
    Route,       \* the routes the kernel may report
    FakeDns,     \* the values of --fake-dns1, "none" if it is not given
    NL_BUFSIZE,  \* the routes' buffer, where half a message of a route takes 1
    MaxEntries,  \* bound: entries of the tables of addresses and lines
    MaxRoutes    \* bound: routes

(* An address or a gateway has a value, and a given name server is a text. *)
ASSUME NetAssumption ==
    /\ \A a \in Address \cup Route : a.value \notin {"none", "BLOCKED"}
    /\ NL_BUFSIZE \in Nat /\ MaxEntries \in Nat /\ MaxRoutes \in Nat

VARIABLES
    ifaddrs,      \* interface addresses: [ifname, family, scope, value], where
                  \* the family of an entry without an ifa_addr is "null"
    resolv_conf,  \* lines: [nameserver, value]
    routes,       \* the kernel's routes: [family, table, dst, oif, value]
    fake_dns1,
    failing       \* the library's functions that fail here: getifaddrs, fopen

net_vars == <<ifaddrs, resolv_conf, routes, fake_dns1, failing>>

Ifname == "wan"    \* the interface the program runs on
None == "none"

-----------------------------------------------------------------------------
(* A search that stops at the first hit, and one that lets the last hit win. *)
FirstValue(table, hits) ==
    IF hits = {} THEN None ELSE table[CHOOSE i \in hits : \A j \in hits : i <= j].value
LastValue(table, hits) ==
    IF hits = {} THEN None ELSE table[CHOOSE i \in hits : \A j \in hits : j <= i].value

OfInterface == {i \in DOMAIN ifaddrs : ifaddrs[i].ifname = Ifname}

(* What a walk over getifaddrs' list comes to: it follows the pointer to the
   first entry, and the ifa_addr of every entry of the interface.            *)
WalkAddresses ==
    IF "getifaddrs" \in failing THEN "FAILURE"
    ELSE IF ifaddrs = <<>> \/ \E i \in OfInterface : ifaddrs[i].family = "null" THEN "CRASH"
    ELSE "SUCCESS"

(* The last address of the link layer; SUCCESS and nothing written if none. *)
obtain_iface_mac ==
    [result |-> WalkAddresses,
     value |-> IF WalkAddresses # "SUCCESS" THEN None
               ELSE LastValue(ifaddrs, {i \in OfInterface : ifaddrs[i].family = "AF_PACKET"})]

(* Every address of the interface, of whatever family. *)
obtain_iface_ip_mask ==
    [result |-> WalkAddresses,
     list |-> IF WalkAddresses = "SUCCESS" THEN ListOf(ifaddrs, OfInterface) ELSE <<>>]

find_ip_with_family(list, family) ==
    FirstValue(list, {i \in DOMAIN list : list[i].family = family})

(* The lines that start with "nameserver" and have a value. *)
NameServers == {i \in DOMAIN resolv_conf : resolv_conf[i].nameserver /\ resolv_conf[i].value # None}
obtain_dns_list ==
    IF "fopen" \in failing THEN [result |-> "FAILURE", list |-> <<>>]
    ELSE [result |-> "SUCCESS", list |-> ListOf(resolv_conf, NameServers)]

-----------------------------------------------------------------------------
(* What recv gives for a request of the routes, as the kernel chooses: their
   messages, in datagrams that end after the routes ends[1], ends[2], ...; then
   the end marker, an error message, or a call that fails.  past is whether the
   memory behind the buffer, should it be read as a header, ends the loop.     *)
DatagramEnds ==
    {ends \in UNION {[1..m -> 1..Len(routes)] : m \in 0..Len(routes)} :
        /\ \A i \in 2..Len(ends) : ends[i - 1] < ends[i]
        /\ routes # <<>> => ends # <<>> /\ ends[Len(ends)] = Len(routes)}
Kernel == [ends : DatagramEnds, last : {"done", "error", "fails"}, past : BOOLEAN]

netlink_answer(k) ==
    [i \in 1..(Len(k.ends) + 1) |->
        IF i > Len(k.ends) THEN [kind |-> k.last, routes |-> <<>>]
        ELSE [kind |-> "routes",
              routes |-> SubSeq(routes, IF i = 1 THEN 1 ELSE k.ends[i - 1] + 1, k.ends[i])]]

Nothing == [buf |-> <<>>, msgLen |-> 0, state |-> "reads"]

(* Mutant of recv: the first datagram of routes ends the loop. *)
recv_Once(v, msg, past) ==
    IF v.state # "reads" THEN v
    ELSE [buf |-> msg.routes, msgLen |-> 2 * Len(msg.routes), state |-> "ended"]

(* One turn of the loop of read_from_netlink_socket.  The room that is left cuts
   off the datagram; with none left, recv throws it away and the header is read
   behind the buffer.  A first message that is not whole is met like an error,
   as its payload, the family of a route, is not 0 where an error code stands:
   the loop gives up and takes the length of this datagram off what it has.
   A room of less than a header, which the size of the routes' messages has to
   leave, counts as one or the other of these.                                 *)
recv(v, msg, past) ==
    LET room == NL_BUFSIZE - v.msgLen
        size == IF msg.kind = "routes" THEN 2 * Len(msg.routes) ELSE 1
        first == IF msg.kind = "routes" THEN 2 ELSE 1
        readLen == IF size <= room THEN size ELSE room
    IN  IF v.state # "reads" THEN v
        ELSE IF msg.kind = "fails" THEN [v EXCEPT !.msgLen = -1, !.state = "ended"]
        ELSE IF readLen = 0 THEN [v EXCEPT !.state = IF past THEN "ended" ELSE "reads"]
        ELSE IF readLen < first \/ msg.kind = "error"
             THEN [v EXCEPT !.msgLen = v.msgLen - readLen, !.state = "ended"]
        ELSE IF msg.kind = "done" THEN [v EXCEPT !.state = "ended"]
        ELSE [v EXCEPT !.buf = v.buf \o SubSeq(msg.routes, 1, readLen \div 2),
                       !.msgLen = v.msgLen + readLen]

(* The loop: it compares with the number of the request after the one it sent,
   so that only recv ends it.  What is left are the messages that are whole
   within the length it returns.                                               *)
read_from_netlink_socket(answer, past) ==
    LET read[i \in 0..Len(answer)] ==
            IF i = 0 THEN Nothing ELSE recv(read[i - 1], answer[i], past)
    IN  read[Len(answer)]
Messages(v) == SubSeq(v.buf, 1, v.msgLen \div 2)

(* retrive_if_gateway: an IPv4 route of the main table to 0.0.0.0 that leaves
   through the interface; a route without a gateway has the gateway 0.0.0.0.   *)
retrive_if_gateway(r) ==
    r.family = "AF_INET" /\ r.table = "main" /\ r.dst = "any" /\ r.oif = Ifname

(* obtain_iface_ipv4_gateway, where routes come from netlink.  A socket or send
   that fails ends it as a recv that fails does.                              *)
obtain_iface_ipv4_gateway(k) ==
    LET v == read_from_netlink_socket(netlink_answer(k), k.past)
    IN  IF v.state = "reads" THEN "BLOCKED"
        ELSE IF v.msgLen < 0 THEN None
        ELSE FirstValue(Messages(v), {i \in DOMAIN Messages(v) :
                                         retrive_if_gateway(Messages(v)[i])})

(* The same where they come from sysctl (NET_RT_DUMP2): one buffer of all the
   routes, of every table; cloned ones are not modelled.                      *)
obtain_iface_ipv4_gateway_sysctl ==
    FirstValue(routes, {i \in DOMAIN routes : routes[i].family = "AF_INET"
                                              /\ routes[i].dst = "any" /\ routes[i].oif = Ifname})

-----------------------------------------------------------------------------
(* rjv3_set_ipv6_addr: the last address of each kind.  It looks at the first
   entry of the list before it knows that there is one.                       *)
Scoped(scope) ==
    LET list == obtain_iface_ip_mask.list
    IN  LastValue(list, {i \in DOMAIN list : list[i].family = "AF_INET6" /\ list[i].scope = scope})
rjv3_set_ipv6_addr ==
    [crash |-> obtain_iface_ip_mask.list = <<>>,
     global |-> Scoped("global"), ll_slaac |-> Scoped("ll_slaac"), ll_temp |-> Scoped("ll_temp")]

(* rjv3_set_secondary_dns without --fake-dns2; a file that cannot be read is an
   empty one to it.                                                           *)
rjv3_set_secondary_dns ==
    IF Len(obtain_dns_list.list) < 2 THEN None ELSE obtain_dns_list.list[2].value

(* inet_pton refuses a name server that is not an IPv4 address. *)
IsIpv4(value) == value \notin {None, "v6"}

NoLease(result) == [result |-> result, ip |-> None, gateway |-> None, dns |-> None]

(* rjv3_get_dhcp_lease: the address, the gateway and the name server, in this
   order; it looks at the first name server before it knows that there is one. *)
rjv3_get_dhcp_lease(k) ==
    LET ipv4 == find_ip_with_family(obtain_iface_ip_mask.list, "AF_INET")
        gw == obtain_iface_ipv4_gateway(k)
        servers == obtain_dns_list
        dns1 == IF fake_dns1 # None THEN fake_dns1 ELSE servers.list[1].value
    IN  IF obtain_iface_ip_mask.result = "CRASH" THEN NoLease("CRASH")
        ELSE IF ipv4 = None THEN NoLease("FAILURE")
        ELSE IF gw = "BLOCKED" THEN NoLease("BLOCKED")
        ELSE IF gw = None \/ (fake_dns1 = None /\ servers.result = "FAILURE")
             THEN NoLease("FAILURE")
        ELSE IF fake_dns1 = None /\ servers.list = <<>> THEN NoLease("CRASH")
        ELSE IF ~IsIpv4(dns1) THEN NoLease("FAILURE")
        ELSE [result |-> "SUCCESS", ip |-> ipv4, gateway |-> gw, dns |-> dns1]

-----------------------------------------------------------------------------
InitNet ==
    /\ ifaddrs = <<>> /\ resolv_conf = <<>> /\ routes = <<>> /\ fake_dns1 \in FakeDns
    /\ failing \in SUBSET {"getifaddrs", "fopen"}

(* The host's tables grow one entry at a time. *)
NewAddress(a) ==
    /\ Len(ifaddrs) < MaxEntries /\ resolv_conf = <<>> /\ routes = <<>>
    /\ ifaddrs' = Append(ifaddrs, a)
    /\ UNCHANGED <<resolv_conf, routes, fake_dns1, failing>>
NewDns(l) ==
    /\ Len(resolv_conf) < MaxEntries /\ routes = <<>>
    /\ resolv_conf' = Append(resolv_conf, l)
    /\ UNCHANGED <<ifaddrs, routes, fake_dns1, failing>>
NewRoute(r) ==
    /\ Len(routes) < MaxRoutes
    /\ routes' = Append(routes, r)
    /\ UNCHANGED <<ifaddrs, resolv_conf, fake_dns1, failing>>

NetNext == \/ \E a \in Address : NewAddress(a)
           \/ \E l \in DnsLine : NewDns(l)
           \/ \E r \in Route : NewRoute(r)

NetSpec == InitNet /\ [][NetNext]_net_vars

-----------------------------------------------------------------------------
(* What the host has for a lease: its own addresses, gateways and name server. *)
OwnIpv4 == {a.value : a \in {a \in Range(ifaddrs) : a.ifname = Ifname /\ a.family = "AF_INET"}}
OwnGateways == {r.value : r \in {r \in Range(routes) : r.oif = Ifname /\ r.dst = "any"
                                                       /\ r.family = "AF_INET" /\ r.table = "main"}}
OwnIpv6(kind) == {a.value : a \in {a \in Range(ifaddrs) : a.ifname = Ifname
                                      /\ a.family = "AF_INET6" /\ a.scope = kind}}
ToldDns == fake_dns1 # None \/ ("fopen" \notin failing /\ NameServers # {})
FirstDns == IF fake_dns1 # None THEN fake_dns1
            ELSE resolv_conf[CHOOSE i \in NameServers : \A j \in NameServers : i <= j].value
HostHasLease == /\ WalkAddresses = "SUCCESS" /\ OwnIpv4 # {} /\ OwnGateways # {}
                /\ ToldDns /\ IsIpv4(FirstDns)

(* The routes and the end marker go into the buffer. *)
RoutesFit == 2 * Len(routes) + 1 <= NL_BUFSIZE

(* The host's part of the Ruijie fields is the host's.  However the kernel cuts
   its routes into datagrams and wherever the buffer cuts them, a lease the second
   authentication reports is one of this interface; when the routes fit and come
   without an error, there is one just when the host has an address, a gateway and
   a name server that is an IPv4 address, and both ways to read the routes find a
   gateway together on hosts with one routing table.  Asking for the routes hangs
   only when they do not fit, and a lease crashes the program only over an entry
   without an address, no entry at all, or a readable resolv.conf that names no
   server.  The IPv6 fields hold addresses of the interface and of their kind, if
   there are any, and the program gets to fill them just when it is told an
   address of the interface.                                                     *)
HostFieldsAreOwn ==
    /\ \A k \in Kernel :
          LET lease == rjv3_get_dhcp_lease(k)
              told == k.last = "done" /\ RoutesFit
          IN  /\ lease.result = "SUCCESS" =>
                    /\ HostHasLease
                    /\ lease.ip \in OwnIpv4 /\ lease.gateway \in OwnGateways
                    /\ lease.dns = FirstDns
              /\ told /\ HostHasLease => lease.result = "SUCCESS"
              /\ told /\ (\A r \in Range(routes) : r.table = "main") =>
                    obtain_iface_ipv4_gateway_sysctl = obtain_iface_ipv4_gateway(k)
              /\ lease.result = "BLOCKED" => ~RoutesFit
              /\ lease.result = "CRASH" =>
                    WalkAddresses = "CRASH" \/ (~ToldDns /\ "fopen" \notin failing)
    /\ rjv3_set_secondary_dns # None =>
          rjv3_set_secondary_dns \in {l.value : l \in Range(resolv_conf)}
    /\ rjv3_set_ipv6_addr.crash <=> WalkAddresses # "SUCCESS" \/ OfInterface = {}
    /\ \A kind \in {"global", "ll_slaac", "ll_temp"} :
          ~rjv3_set_ipv6_addr.crash =>
              IF OwnIpv6(kind) = {} THEN rjv3_set_ipv6_addr[kind] = None
              ELSE rjv3_set_ipv6_addr[kind] \in OwnIpv6(kind)
=============================================================================
