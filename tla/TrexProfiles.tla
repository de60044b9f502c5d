---------------------------- MODULE TrexProfiles ----------------------------
(***************************************************************************)
(* The traffic profiles of GPL/traffic_profiles/trex, one definition for   *)
(* each file. A stateless profile describes the packets of its two         *)
(* directions: the length of the header and the flow variables TRex writes *)
(* into every packet it sends; fields that stay constant are left out.    *)
(* A stateful (astf) profile describes the ranges of clients and servers.  *)
(* The first arguments of a profile are the figures its file name          *)
(* announces, the others the values its class assigns; the two are         *)
(* compared by the properties of TrafficProfiles.                          *)
(***************************************************************************)
EXTENDS Naturals, Sequences

\* An address by its distance from the first one of a network: a is given by its
\* octets, the network by the first octet (of an IPv6 address 2001:n::h, by n).
Ip(a, net) == (a[1] - net) * 16777216 + a[2] * 65536 + a[3] * 256 + a[4]

\* A flow variable: it runs from lo to hi by step ("inc") or draws its values
\* from that range ("random"); a variable named as "next" of another one moves
\* only when that one wraps around.
Var(field, op, lo, hi, step, next) ==
    [field |-> field, op |-> op, lo |-> lo, hi |-> hi, step |-> step, next |-> next,
     limit |-> 0]

Inc(field, lo, hi) == Var(field, "inc", lo, hi, 1, "")
IncIp(field, a, b) == Inc(field, Ip(a, a[1]), Ip(b, a[1]))
RandomIp(field, a, b) == Var(field, "random", Ip(a, a[1]), Ip(b, a[1]), 1, "")

\* STLVmFlowVarRepeatableRandom: random draws from the range, values may occur
\* more than once; after "limit" draws the same draws are made again.
RepeatableRandomIp(field, a, b, limit) ==
    [Var(field, "repeatable", Ip(a, a[1]), Ip(b, a[1]), 1, "") EXCEPT !.limit = limit]

\* STLVmTupleGen: all addresses with the first port, then with the next one.
Tuple(ip, a, b, port, lo, hi) ==
    << Var(ip, "inc", Ip(a, a[1]), Ip(b, a[1]), 1, port), Inc(port, lo, hi) >>

\* One direction: length of its header without FCS, variables.
Direction(len, vars) == [len |-> len, vars |-> vars]

\* What a file name announces: a field takes that many values, one next to the
\* other, or so many steps apart from a first one in each direction.
Steps(field, values, step, first) ==
    [field |-> field, values |-> values, step |-> step, first |-> first]
Figure(field, values) == Steps(field, values, 1, <<>>)

Profile(named, a, b) == [kind |-> "stl", named |-> named, dirs |-> <<a, b>>]

-----------------------------------------------------------------------------
(* The families of profiles: what define_packets does with the values.      *)
(* A direction's arguments are given as one tuple, in the order the class    *)
(* assigns them.                                                            *)

\* One flow per direction, no variables.
Ip4Static == Profile({Figure("ip.dst", 1)}, Direction(34, <<>>), Direction(34, <<>>))

\* Increasing destinations: <<dst start, dst end>>.
IpDst(len, n, d1, d2) ==
    LET Dir(d) == Direction(len, <<IncIp("ip.dst", d[1], d[2])>>)
    IN  Profile({Figure("ip.dst", n)}, Dir(d1), Dir(d2))

Ip4Dst(n, d1, d2) == IpDst(34, n, d1, d2)
Ip6Dst(n, d1, d2) == IpDst(54, n, d1, d2)

\* Destinations drawn at random, the draws repeated after a limit: for each
\* direction the limit and <<dst start, dst end>>.
Ip4DstRnd(n, limit1, d1, limit2, d2) ==
    LET Dir(limit, d) == Direction(34, <<RepeatableRandomIp("ip.dst", d[1], d[2], limit)>>)
    IN  Profile({Figure("ip.dst", n)}, Dir(limit1, d1), Dir(limit2, d2))

\* Mutant: the last octet of direction 1 runs up to the number of containers.
Ip4DstCnfInclusive(n, k, mac1, end1, mac2, end2) ==
    LET Dir(dst, mac, end) == Direction(34,
            <<Inc("mac.dst", 0, mac), IncIp("ip.dst", dst, end)>>)
    IN  Profile({Figure("ip.dst", n), Figure("mac.dst", k)},
                Dir(<<20, 0, 0, 0>>, mac1, end1), Dir(<<10, 0, 0, 0>>, mac2 + 1, end2))

\* n destinations spread over k containers by the last octet of the MAC address:
\* for each direction, the last value of that octet and the end of its range.
Ip4DstCnf(n, k, mac1, end1, mac2, end2) ==
    LET Dir(dst, mac, end) == Direction(34,
            <<Inc("mac.dst", 0, mac), IncIp("ip.dst", dst, end)>>)
    IN  Profile({Figure("ip.dst", n), Figure("mac.dst", k)},
                Dir(<<20, 0, 0, 0>>, mac1, end1), Dir(<<10, 0, 0, 0>>, mac2, end2))

\* Increasing sources: <<src start, src end>>.  The second direction of
\* the asym profiles has a VLAN tag.
IpSrc(n, lenA, lenB, d1, d2) ==
    LET Dir(len, d) == Direction(len, <<IncIp("ip.src", d[1], d[2])>>)
    IN  Profile({Figure("ip.src", n)}, Dir(lenA, d1), Dir(lenB, d2))

\* Sources sent to c service chains of n nodes: direction 0 enters the first node
\* of every chain, direction 1 the last one, by the numbers nf_chains and nf_nodes.
Ip4SrcChains(c, n, nf_chains, nf_nodes) ==
    LET Dir(src, end, first) == Direction(34,
            << Var("mac.dst", "inc", first, nf_chains * nf_nodes, nf_nodes, ""),
               IncIp("ip.src", src, end) >>)
    IN  Profile({Figure("ip.src", 254), Steps("mac.dst", c, n, <<1, n>>)},
                Dir(<<10, 10, 10, 1>>, <<10, 10, 10, 254>>, 1),
                Dir(<<20, 20, 20, 1>>, <<20, 20, 20, 254>>, nf_nodes))

\* MAC and IP addresses of both ends move together:
\* <<src start, src end, dst start, dst end>>.
MacSrcDst(n, clients, d1, d2) ==
    LET Dir(d) == Direction(34,
            << Inc("mac.src", 0, clients - 1), Inc("mac.dst", 0, clients - 1),
               IncIp("ip.src", d[1], d[2]), IncIp("ip.dst", d[3], d[4]) >>)
    IN  Profile({Figure("mac.src", n), Figure("mac.dst", n), Figure("ip.src", n),
                 Figure("ip.dst", n)}, Dir(d1), Dir(d2))

\* Source MAC and IP move together: <<src start, src end>>.
MacSrcIp4Src(n, clients, d1, d2) ==
    LET Dir(d) == Direction(34,
            <<Inc("mac.src", 0, clients - 1), IncIp("ip.src", d[1], d[2])>>)
    IN  Profile({Figure("mac.src", n), Figure("ip.src", n)}, Dir(d1), Dir(d2))

\* Connections between users and servers, ports at both ends:
\* <<src start, src end, sport start, sport end, dst start, dst end, dport start,
\*   dport end>>.
UdpConc(users, ports, d1, d2) ==
    LET Dir(d) == Direction(42,
            Tuple("ip.src", d[1], d[2], "sport", d[3], d[4])
            \o Tuple("ip.dst", d[5], d[6], "dport", d[7], d[8]))
    IN  Profile({Figure("ip.src", users), Figure("sport", ports)}, Dir(d1), Dir(d2))

\* NAT44: the users' sessions one way, <<src start, src end, sport start, sport
\* end>>, and the ports of the one outer address back, <<dport start, dport end>>.
UdpNat(users, ports, d1, d2) ==
    Profile({Figure("ip.src", users), Figure("sport", ports)},
            Direction(42, Tuple("ip.src", d1[1], d1[2], "sport", d1[3], d1[4])),
            Direction(42, <<Inc("dport", d2[1], d2[2])>>))

\* One user with 15 ports, <<sport start, sport end>>, and back, <<dport start,
\* dport end>>.
Udp1u15p(d1, d2) ==
    Profile({Figure("ip.src", 1), Figure("sport", 15)},
            Direction(42, <<Inc("sport", d1[1], d1[2])>>),
            Direction(42, <<Inc("dport", d2[1], d2[2])>>))

\* One user with one port.
Udp1u1p ==
    Profile({Figure("ip.src", 1), Figure("sport", 1)}, Direction(42, <<>>),
            Direction(42, <<>>))

\* Load balancing: <<src start, src end>> and <<src start, src end, dst start,
\* dst end>>.
UdpLb(d1, d2) ==
    Profile({}, Direction(42, <<IncIp("ip.src", d1[1], d1[2])>>),
            Direction(42, <<IncIp("ip.src", d2[1], d2[2]), IncIp("ip.dst", d2[3], d2[4])>>))

\* Mutant: the last outer port gets no answers.
Udp63pShort(users, d1, d2) ==
    Profile({Figure("ip.src", users), Figure("sport", 63)},
            Direction(42, Tuple("ip.src", d1[1], d1[2], "sport", d1[3], d1[4])),
            Direction(42, Tuple("ip.dst", d2[1], d2[2], "dport", d2[3], d2[4] - 1)))

\* NAT44 with all outer addresses: <<src start, src end, sport start, sport end>>;
\* back to <<dst start, dst end, dport start, dport end>>.
Udp63p(users, d1, d2) ==
    Profile({Figure("ip.src", users), Figure("sport", 63)},
            Direction(42, Tuple("ip.src", d1[1], d1[2], "sport", d1[3], d1[4])),
            Direction(42, Tuple("ip.dst", d2[1], d2[2], "dport", d2[3], d2[4])))

\* The same sessions one way only, the destination moving with the source;
\* direction 1 is an Ethernet header.
Udp63pUdir(users, d1) ==
    Profile({Figure("ip.src", users), Figure("sport", 63)},
            Direction(42, Tuple("ip.src", d1[1], d1[2], "sport", d1[3], d1[4])
                          \o <<IncIp("ip.dst", d1[5], d1[6])>>),
            Direction(14, <<>>))

\* Tagged packets with random addresses: the VLANs <<start, end>> of both
\* directions and <<src start, src end, dst start, dst end>>.
VlanIp4(n, v1, v2, d1, d2) ==
    LET Dir(v, d) == Direction(38,
            << Inc("vlan", v[1], v[2]), RandomIp("ip.src", d[1], d[2]),
               RandomIp("ip.dst", d[3], d[4]) >>)
    IN  Profile({Figure("vlan", n), Figure("ip.src", 254), Figure("ip.dst", 254)},
                Dir(v1, d1), Dir(v2, d2))

Vlan1Ip4(d1, d2) ==
    LET Dir(d) == Direction(38,
            <<RandomIp("ip.src", d[1], d[2]), RandomIp("ip.dst", d[3], d[4])>>)
    IN  Profile({Figure("vlan", 1), Figure("ip.src", 254), Figure("ip.dst", 254)},
                Dir(d1), Dir(d2))

\* VXLAN: the tunnel (third octet of the source, VNI), the inner MAC and IP
\* addresses and a random source port.  The untagged profile writes no inner
\* IP addresses, the variable exists all the same.
Vxlan(n, len, chains) ==
    LET both == Direction(len,
            << Inc("tunnel", 0, chains - 1), Inc("in.mac", 0, 255), Inc("in.ip", 0, 255),
               Var("sport", "random", 1024, 65535, 1, "") >>)
    IN  Profile({Figure("tunnel", n)}, both, both)

\* Stateful profiles: <<client start, client end, server start, server end>> and
\* the number of flows TRex may open.  Who exchanges what is left out.
Astf(l4, hosts, d, limit) ==
    [kind |-> "astf", l4 |-> l4, hosts |-> hosts, limit |-> limit,
     clients |-> Ip(d[2], d[1][1]) - Ip(d[1], d[1][1]) + 1,
     servers |-> Ip(d[4], d[3][1]) - Ip(d[3], d[3][1]) + 1]

AstfUdp(hosts, d, limit) == Astf("udp", hosts, d, limit)
AstfTcp(hosts, d, limit) == Astf("tcp", hosts, d, limit)

-----------------------------------------------------------------------------
(* The profiles.                                                            *)

trex_stl_2n_dot1qip4asym_ip4src254 ==
    IpSrc(254, 34, 38, <<<<10, 10, 10, 1>>, <<10, 10, 10, 254>>>>,
          <<<<20, 20, 20, 1>>, <<20, 20, 20, 254>>>>)

trex_stl_2n_dot1qip6asym_ip6src253 ==
    IpSrc(253, 54, 58, <<<<1, 0, 0, 2>>, <<1, 0, 0, 254>>>>,
          <<<<2, 0, 0, 2>>, <<2, 0, 0, 254>>>>)

trex_stl_2n_ethip4_ip4dst_rnd10000 ==
    Ip4DstRnd(10000, 10000, <<<<20, 0, 0, 0>>, <<20, 0, 39, 15>>>>, 10000,
              <<<<10, 0, 0, 0>>, <<10, 0, 39, 15>>>>)

trex_stl_2n_ethip4_ip4dst_rnd100000 ==
    Ip4DstRnd(100000, 100000, <<<<20, 0, 0, 0>>, <<20, 1, 134, 159>>>>, 100000,
              <<<<10, 0, 0, 0>>, <<10, 1, 134, 159>>>>)

trex_stl_2n_ethip4_ip4dst_rnd1000000 ==
    Ip4DstRnd(1000000, 1000000, <<<<20, 0, 0, 0>>, <<20, 15, 66, 63>>>>, 1000000,
              <<<<10, 0, 0, 0>>, <<10, 15, 66, 63>>>>)

trex_stl_2n_ethip4_ip4dst10000 ==
    Ip4Dst(10000, <<<<20, 0, 0, 0>>, <<20, 0, 39, 15>>>>,
           <<<<10, 0, 0, 0>>, <<10, 0, 39, 15>>>>)

trex_stl_2n_ethip4_ip4dst100000 ==
    Ip4Dst(100000, <<<<20, 0, 0, 0>>, <<20, 1, 134, 159>>>>,
           <<<<10, 0, 0, 0>>, <<10, 1, 134, 159>>>>)

trex_stl_2n_ethip4_ip4dst1000000 ==
    Ip4Dst(1000000, <<<<20, 0, 0, 0>>, <<20, 15, 66, 63>>>>,
           <<<<10, 0, 0, 0>>, <<10, 15, 66, 63>>>>)

trex_stl_2n_ethip4_ip4src253 ==
    IpSrc(253, 34, 34, <<<<10, 10, 10, 2>>, <<10, 10, 10, 254>>>>,
          <<<<20, 20, 20, 2>>, <<20, 20, 20, 254>>>>)

trex_stl_2n_ethip4_ip4src254 ==
    IpSrc(254, 34, 34, <<<<10, 10, 10, 1>>, <<10, 10, 10, 254>>>>,
          <<<<20, 20, 20, 1>>, <<20, 20, 20, 254>>>>)

trex_stl_2n_ethip4_macsrc500kdst500k ==
    MacSrcDst(500000, 500000,
              <<<<10, 0, 0, 0>>, <<10, 7, 161, 31>>, <<20, 0, 0, 0>>, <<20, 7, 161, 31>>>>,
              <<<<20, 0, 0, 0>>, <<20, 7, 161, 31>>, <<10, 0, 0, 0>>, <<10, 7, 161, 31>>>>)

trex_stl_2n_ethip4_macsrc50kdst50k ==
    MacSrcDst(50000, 50000,
              <<<<10, 0, 0, 0>>, <<10, 0, 195, 79>>, <<20, 0, 0, 0>>, <<20, 0, 195, 79>>>>,
              <<<<20, 0, 0, 0>>, <<20, 0, 195, 79>>, <<10, 0, 0, 0>>, <<10, 0, 195, 79>>>>)

trex_stl_2n_ethip4_macsrc5kdst5k ==
    MacSrcDst(5000, 5000,
              <<<<10, 0, 0, 0>>, <<10, 0, 19, 135>>, <<20, 0, 0, 0>>, <<20, 0, 19, 135>>>>,
              <<<<20, 0, 0, 0>>, <<20, 0, 19, 135>>, <<10, 0, 0, 0>>, <<10, 0, 19, 135>>>>)

trex_stl_2n_ethip4udp_1000u15p ==
    UdpNat(1000, 15, <<<<20, 0, 0, 0>>, <<20, 0, 3, 231>>, 1024, 1038>>,
           <<1024, 16023>>)

trex_stl_2n_ethip4udp_10u1000p_conc ==
    UdpConc(10, 1000,
            <<<<10, 10, 10, 2>>, <<10, 10, 10, 11>>, 1001, 2000, <<20, 20, 20, 2>>, <<20, 20, 20, 11>>, 2001, 3000>>,
            <<<<20, 20, 20, 2>>, <<20, 20, 20, 11>>, 2001, 3000, <<10, 10, 10, 2>>, <<10, 10, 10, 11>>, 1001, 2000>>)

trex_stl_2n_ethip4udp_1u1p == Udp1u1p

trex_stl_2n_ethip4udp_lb ==
    UdpLb(<<<<192, 168, 50, 74>>, <<192, 168, 50, 79>>>>,
          <<<<192, 168, 60, 74>>, <<192, 168, 60, 79>>, <<192, 168, 50, 74>>, <<192, 168, 50, 79>>>>)

trex_stl_2n_ethip6_ip6dst10000 ==
    Ip6Dst(10000, <<<<2, 0, 0, 0>>, <<2, 0, 39, 15>>>>,
           <<<<1, 0, 0, 0>>, <<1, 0, 39, 15>>>>)

trex_stl_2n_ethip6_ip6dst100000 ==
    Ip6Dst(100000, <<<<2, 0, 0, 0>>, <<2, 1, 134, 159>>>>,
           <<<<1, 0, 0, 0>>, <<1, 1, 134, 159>>>>)

trex_stl_2n_ethip6_ip6dst1000000 ==
    Ip6Dst(1000000, <<<<2, 0, 0, 0>>, <<2, 15, 66, 63>>>>,
           <<<<1, 0, 0, 0>>, <<1, 15, 66, 63>>>>)

trex_stl_2n_ethip6_ip6src253 ==
    IpSrc(253, 54, 54, <<<<1, 0, 0, 2>>, <<1, 0, 0, 254>>>>,
          <<<<2, 0, 0, 2>>, <<2, 0, 0, 254>>>>)

trex_stl_2n3n_ethip4_ip4src254_10c1n == Ip4SrcChains(10, 1, 10, 1)

trex_stl_2n3n_ethip4_ip4src254_10c2n == Ip4SrcChains(10, 2, 10, 2)

trex_stl_2n3n_ethip4_ip4src254_1c10n == Ip4SrcChains(1, 10, 1, 10)

trex_stl_2n3n_ethip4_ip4src254_1c1n == Ip4SrcChains(1, 1, 1, 1)

trex_stl_2n3n_ethip4_ip4src254_1c2n == Ip4SrcChains(1, 2, 1, 2)

trex_stl_2n3n_ethip4_ip4src254_1c4n == Ip4SrcChains(1, 4, 1, 4)

trex_stl_2n3n_ethip4_ip4src254_1c6n == Ip4SrcChains(1, 6, 1, 6)

trex_stl_2n3n_ethip4_ip4src254_1c8n == Ip4SrcChains(1, 8, 1, 8)

trex_stl_2n3n_ethip4_ip4src254_2c10n == Ip4SrcChains(2, 10, 2, 10)

trex_stl_2n3n_ethip4_ip4src254_2c1n == Ip4SrcChains(2, 1, 2, 1)

trex_stl_2n3n_ethip4_ip4src254_2c2n == Ip4SrcChains(2, 2, 2, 2)

trex_stl_2n3n_ethip4_ip4src254_2c4n == Ip4SrcChains(2, 4, 2, 4)

trex_stl_2n3n_ethip4_ip4src254_2c6n == Ip4SrcChains(2, 6, 2, 6)

trex_stl_2n3n_ethip4_ip4src254_2c8n == Ip4SrcChains(2, 8, 2, 8)

trex_stl_2n3n_ethip4_ip4src254_4c1n == Ip4SrcChains(4, 1, 4, 1)

trex_stl_2n3n_ethip4_ip4src254_4c2n == Ip4SrcChains(4, 2, 4, 2)

trex_stl_2n3n_ethip4_ip4src254_4c4n == Ip4SrcChains(4, 4, 4, 4)

trex_stl_2n3n_ethip4_ip4src254_4c6n == Ip4SrcChains(4, 6, 4, 6)

trex_stl_2n3n_ethip4_ip4src254_6c1n == Ip4SrcChains(6, 1, 6, 1)

trex_stl_2n3n_ethip4_ip4src254_6c2n == Ip4SrcChains(6, 2, 6, 2)

trex_stl_2n3n_ethip4_ip4src254_6c4n == Ip4SrcChains(6, 4, 6, 4)

trex_stl_2n3n_ethip4_ip4src254_8c1n == Ip4SrcChains(8, 1, 8, 1)

trex_stl_2n3n_ethip4_ip4src254_8c2n == Ip4SrcChains(8, 2, 8, 2)

trex_stl_3n_dot1qip4_vlan100ip4src254ip4dst254 ==
    VlanIp4(100, <<1, 100>>, <<1, 100>>,
            <<<<10, 0, 0, 1>>, <<10, 0, 0, 254>>, <<20, 0, 0, 1>>, <<20, 0, 0, 254>>>>,
            <<<<20, 0, 0, 1>>, <<20, 0, 0, 254>>, <<10, 0, 0, 1>>, <<10, 0, 0, 254>>>>)

trex_stl_3n_dot1qip4_vlan10ip4src254ip4dst254 ==
    VlanIp4(10, <<1, 10>>, <<1, 10>>,
            <<<<10, 0, 0, 1>>, <<10, 0, 0, 254>>, <<20, 0, 0, 1>>, <<20, 0, 0, 254>>>>,
            <<<<20, 0, 0, 1>>, <<20, 0, 0, 254>>, <<10, 0, 0, 1>>, <<10, 0, 0, 254>>>>)

trex_stl_3n_dot1qip4_vlan1ip4src254ip4dst254 ==
    Vlan1Ip4(<<<<10, 0, 0, 1>>, <<10, 0, 0, 254>>, <<20, 0, 0, 1>>, <<20, 0, 0, 254>>>>,
             <<<<20, 0, 0, 1>>, <<20, 0, 0, 254>>, <<10, 0, 0, 1>>, <<10, 0, 0, 254>>>>)

trex_stl_3n_dot1qip4_vlan1kip4src254ip4dst254 ==
    VlanIp4(1000, <<1, 1000>>, <<1, 1000>>,
            <<<<10, 0, 0, 1>>, <<10, 0, 0, 254>>, <<20, 0, 0, 1>>, <<20, 0, 0, 254>>>>,
            <<<<20, 0, 0, 1>>, <<20, 0, 0, 254>>, <<10, 0, 0, 1>>, <<10, 0, 0, 254>>>>)

trex_stl_3n_ethip4_ip4dst1 == Ip4Static

trex_stl_3n_ethip4_ip4dst100 ==
    Ip4Dst(100, <<<<20, 0, 0, 0>>, <<20, 0, 0, 99>>>>,
           <<<<10, 0, 0, 0>>, <<10, 0, 0, 99>>>>)

trex_stl_3n_ethip4_ip4dst1000_1cnf ==
    Ip4DstCnf(1000, 1, 0, <<20, 0, 3, 231>>, 0, <<10, 0, 3, 231>>)

trex_stl_3n_ethip4_ip4dst1000_2cnf ==
    Ip4DstCnf(1000, 2, 1, <<20, 0, 3, 231>>, 1, <<10, 0, 3, 231>>)

trex_stl_3n_ethip4_ip4dst1000_4cnf ==
    Ip4DstCnf(1000, 4, 3, <<20, 0, 3, 231>>, 3, <<10, 0, 3, 231>>)

trex_stl_3n_ethip4_ip4dst1000_8cnf ==
    Ip4DstCnf(1000, 8, 7, <<20, 0, 3, 231>>, 7, <<10, 0, 3, 231>>)

trex_stl_3n_ethip4_ip4dst1000 ==
    Ip4Dst(1000, <<<<20, 0, 0, 0>>, <<20, 0, 3, 231>>>>,
           <<<<10, 0, 0, 0>>, <<10, 0, 3, 231>>>>)

trex_stl_3n_ethip4_ip4dst10000_1cnf ==
    Ip4DstCnf(10000, 1, 0, <<20, 0, 39, 15>>, 0, <<10, 0, 39, 15>>)

trex_stl_3n_ethip4_ip4dst10000_2cnf ==
    Ip4DstCnf(10000, 2, 1, <<20, 0, 39, 15>>, 1, <<10, 0, 39, 15>>)

trex_stl_3n_ethip4_ip4dst10000_4cnf ==
    Ip4DstCnf(10000, 4, 3, <<20, 0, 39, 15>>, 3, <<10, 0, 39, 15>>)

trex_stl_3n_ethip4_ip4dst10000_8cnf ==
    Ip4DstCnf(10000, 8, 7, <<20, 0, 39, 15>>, 7, <<10, 0, 39, 15>>)

trex_stl_3n_ethip4_ip4dst10000 ==
    Ip4Dst(10000, <<<<20, 0, 0, 0>>, <<20, 0, 39, 15>>>>,
           <<<<10, 0, 0, 0>>, <<10, 0, 39, 15>>>>)

trex_stl_3n_ethip4_ip4dst100000 ==
    Ip4Dst(100000, <<<<20, 0, 0, 0>>, <<20, 1, 134, 159>>>>,
           <<<<10, 0, 0, 0>>, <<10, 1, 134, 159>>>>)

trex_stl_3n_ethip4_ip4dst1000000 ==
    Ip4Dst(1000000, <<<<20, 0, 0, 0>>, <<20, 15, 66, 63>>>>,
           <<<<10, 0, 0, 0>>, <<10, 15, 66, 63>>>>)

trex_stl_3n_ethip4_ip4dst20000_1cnf ==
    Ip4DstCnf(20000, 1, 0, <<20, 0, 78, 31>>, 0, <<10, 0, 78, 31>>)

trex_stl_3n_ethip4_ip4dst20000_2cnf ==
    Ip4DstCnf(20000, 2, 1, <<20, 0, 78, 31>>, 1, <<10, 0, 78, 31>>)

trex_stl_3n_ethip4_ip4dst20000_4cnf ==
    Ip4DstCnf(20000, 4, 3, <<20, 0, 78, 31>>, 3, <<10, 0, 78, 31>>)

trex_stl_3n_ethip4_ip4dst20000_8cnf ==
    Ip4DstCnf(20000, 8, 7, <<20, 0, 78, 31>>, 7, <<10, 0, 78, 31>>)

trex_stl_3n_ethip4_ip4dst20000 ==
    Ip4Dst(20000, <<<<20, 0, 0, 0>>, <<20, 0, 78, 31>>>>,
           <<<<10, 0, 0, 0>>, <<10, 0, 78, 31>>>>)

trex_stl_3n_ethip4_ip4dst253 ==
    Ip4Dst(253, <<<<2, 1, 1, 2>>, <<2, 1, 1, 254>>>>,
           <<<<1, 1, 1, 2>>, <<1, 1, 1, 254>>>>)

trex_stl_3n_ethip4_ip4dst253_l3fwd ==
    Ip4Dst(253, <<<<198, 18, 0, 2>>, <<198, 18, 0, 254>>>>,
           <<<<198, 18, 1, 2>>, <<198, 18, 1, 254>>>>)

trex_stl_3n_ethip4_ip4dst4_1cnf ==
    Ip4DstCnf(4, 1, 0, <<20, 0, 0, 3>>, 0, <<10, 0, 0, 3>>)

trex_stl_3n_ethip4_ip4dst4_2cnf ==
    Ip4DstCnf(4, 2, 1, <<20, 0, 0, 3>>, 1, <<10, 0, 0, 3>>)

trex_stl_3n_ethip4_ip4dst4_4cnf ==
    Ip4DstCnf(4, 4, 3, <<20, 0, 0, 3>>, 3, <<10, 0, 0, 3>>)

trex_stl_3n_ethip4_ip4dst4 ==
    Ip4Dst(4, <<<<20, 0, 0, 0>>, <<20, 0, 0, 3>>>>,
           <<<<10, 0, 0, 0>>, <<10, 0, 0, 3>>>>)

trex_stl_3n_ethip4_ip4dst40_1cnf ==
    Ip4DstCnf(40, 1, 0, <<20, 0, 0, 39>>, 0, <<10, 0, 0, 39>>)

trex_stl_3n_ethip4_ip4dst40_2cnf ==
    Ip4DstCnf(40, 2, 1, <<20, 0, 0, 39>>, 1, <<10, 0, 0, 39>>)

trex_stl_3n_ethip4_ip4dst40_4cnf ==
    Ip4DstCnf(40, 4, 3, <<20, 0, 0, 39>>, 3, <<10, 0, 0, 39>>)

trex_stl_3n_ethip4_ip4dst40_8cnf ==
    Ip4DstCnf(40, 8, 7, <<20, 0, 0, 39>>, 7, <<10, 0, 0, 39>>)

trex_stl_3n_ethip4_ip4dst40 ==
    Ip4Dst(40, <<<<20, 0, 0, 0>>, <<20, 0, 0, 39>>>>,
           <<<<10, 0, 0, 0>>, <<10, 0, 0, 39>>>>)

trex_stl_3n_ethip4_ip4dst400_1cnf ==
    Ip4DstCnf(400, 1, 0, <<20, 0, 1, 143>>, 0, <<10, 0, 1, 143>>)

trex_stl_3n_ethip4_ip4dst400_2cnf ==
    Ip4DstCnf(400, 2, 1, <<20, 0, 1, 143>>, 1, <<10, 0, 1, 143>>)

trex_stl_3n_ethip4_ip4dst400_4cnf ==
    Ip4DstCnf(400, 4, 3, <<20, 0, 1, 143>>, 3, <<10, 0, 1, 143>>)

trex_stl_3n_ethip4_ip4dst400_8cnf ==
    Ip4DstCnf(400, 8, 7, <<20, 0, 1, 143>>, 7, <<10, 0, 1, 143>>)

trex_stl_3n_ethip4_ip4dst400 ==
    Ip4Dst(400, <<<<20, 0, 0, 0>>, <<20, 0, 1, 143>>>>,
           <<<<10, 0, 0, 0>>, <<10, 0, 1, 143>>>>)

trex_stl_3n_ethip4_ip4dst40000_1cnf ==
    Ip4DstCnf(40000, 1, 0, <<20, 0, 156, 63>>, 0, <<10, 0, 156, 63>>)

trex_stl_3n_ethip4_ip4dst40000_2cnf ==
    Ip4DstCnf(40000, 2, 1, <<20, 0, 156, 63>>, 1, <<10, 0, 156, 63>>)

trex_stl_3n_ethip4_ip4dst40000_4cnf ==
    Ip4DstCnf(40000, 4, 3, <<20, 0, 156, 63>>, 3, <<10, 0, 156, 63>>)

trex_stl_3n_ethip4_ip4dst40000_8cnf ==
    Ip4DstCnf(40000, 8, 7, <<20, 0, 156, 63>>, 7, <<10, 0, 156, 63>>)

trex_stl_3n_ethip4_ip4dst40000 ==
    Ip4Dst(40000, <<<<20, 0, 0, 0>>, <<20, 0, 156, 63>>>>,
           <<<<10, 0, 0, 0>>, <<10, 0, 156, 63>>>>)

trex_stl_3n_ethip4_ip4dst5000_1cnf ==
    Ip4DstCnf(5000, 1, 0, <<20, 0, 19, 135>>, 0, <<10, 0, 19, 135>>)

trex_stl_3n_ethip4_ip4dst5000_2cnf ==
    Ip4DstCnf(5000, 2, 1, <<20, 0, 19, 135>>, 1, <<10, 0, 19, 135>>)

trex_stl_3n_ethip4_ip4dst5000_4cnf ==
    Ip4DstCnf(5000, 4, 3, <<20, 0, 19, 135>>, 3, <<10, 0, 19, 135>>)

trex_stl_3n_ethip4_ip4dst5000_8cnf ==
    Ip4DstCnf(5000, 8, 7, <<20, 0, 19, 135>>, 7, <<10, 0, 19, 135>>)

trex_stl_3n_ethip4_ip4dst5000 ==
    Ip4Dst(5000, <<<<20, 0, 0, 0>>, <<20, 0, 19, 135>>>>,
           <<<<10, 0, 0, 0>>, <<10, 0, 19, 135>>>>)

trex_stl_3n_ethip4_ip4dst60000_1cnf ==
    Ip4DstCnf(60000, 1, 0, <<20, 0, 234, 95>>, 0, <<10, 0, 234, 95>>)

trex_stl_3n_ethip4_ip4dst60000_2cnf ==
    Ip4DstCnf(60000, 2, 1, <<20, 0, 234, 95>>, 1, <<10, 0, 234, 95>>)

trex_stl_3n_ethip4_ip4dst60000_4cnf ==
    Ip4DstCnf(60000, 4, 3, <<20, 0, 234, 95>>, 3, <<10, 0, 234, 95>>)

trex_stl_3n_ethip4_ip4dst60000_8cnf ==
    Ip4DstCnf(60000, 8, 7, <<20, 0, 234, 95>>, 7, <<10, 0, 234, 95>>)

trex_stl_3n_ethip4_ip4dst60000 ==
    Ip4Dst(60000, <<<<20, 0, 0, 0>>, <<20, 0, 234, 95>>>>,
           <<<<10, 0, 0, 0>>, <<10, 0, 234, 95>>>>)

trex_stl_3n_ethip4_ip4src253 ==
    IpSrc(253, 34, 34, <<<<10, 10, 10, 2>>, <<10, 10, 10, 254>>>>,
          <<<<20, 20, 20, 2>>, <<20, 20, 20, 254>>>>)

trex_stl_3n_ethip4_ip4src254 ==
    IpSrc(254, 34, 34, <<<<10, 10, 10, 1>>, <<10, 10, 10, 254>>>>,
          <<<<20, 20, 20, 1>>, <<20, 20, 20, 254>>>>)

trex_stl_3n_ethip4_macsrc100ip4src100 ==
    MacSrcIp4Src(100, 100, <<<<10, 0, 0, 2>>, <<10, 0, 0, 101>>>>,
                 <<<<20, 0, 0, 2>>, <<20, 0, 0, 101>>>>)

trex_stl_3n_ethip4_macsrc100kip4src100k ==
    MacSrcIp4Src(100000, 100000, <<<<10, 0, 0, 2>>, <<10, 1, 134, 161>>>>,
                 <<<<20, 0, 0, 2>>, <<20, 1, 134, 161>>>>)

trex_stl_3n_ethip4_macsrc10kip4src10k ==
    MacSrcIp4Src(10000, 10000, <<<<10, 0, 0, 2>>, <<10, 0, 39, 17>>>>,
                 <<<<20, 0, 0, 2>>, <<20, 0, 39, 17>>>>)

trex_stl_3n_ethip4_macsrc500kdst500k ==
    MacSrcDst(500000, 500000,
              <<<<10, 0, 0, 0>>, <<10, 7, 161, 31>>, <<20, 0, 0, 0>>, <<20, 7, 161, 31>>>>,
              <<<<20, 0, 0, 0>>, <<20, 7, 161, 31>>, <<10, 0, 0, 0>>, <<10, 7, 161, 31>>>>)

trex_stl_3n_ethip4_macsrc50kdst50k ==
    MacSrcDst(50000, 50000,
              <<<<10, 0, 0, 0>>, <<10, 0, 195, 79>>, <<20, 0, 0, 0>>, <<20, 0, 195, 79>>>>,
              <<<<20, 0, 0, 0>>, <<20, 0, 195, 79>>, <<10, 0, 0, 0>>, <<10, 0, 195, 79>>>>)

trex_stl_3n_ethip4_macsrc5kdst5k ==
    MacSrcDst(5000, 5000,
              <<<<10, 0, 0, 0>>, <<10, 0, 19, 135>>, <<20, 0, 0, 0>>, <<20, 0, 19, 135>>>>,
              <<<<20, 0, 0, 0>>, <<20, 0, 19, 135>>, <<10, 0, 0, 0>>, <<10, 0, 19, 135>>>>)

trex_stl_3n_ethip4udp_1000u15p ==
    UdpNat(1000, 15, <<<<20, 0, 0, 0>>, <<20, 0, 3, 231>>, 1024, 1038>>,
           <<1024, 16023>>)

trex_stl_3n_ethip4udp_100u1000p_conc ==
    UdpConc(100, 1000,
            <<<<10, 10, 10, 2>>, <<10, 10, 10, 101>>, 1001, 2000, <<20, 20, 20, 2>>, <<20, 20, 20, 101>>, 2001, 3000>>,
            <<<<20, 20, 20, 2>>, <<20, 20, 20, 101>>, 2001, 3000, <<10, 10, 10, 2>>, <<10, 10, 10, 101>>, 1001, 2000>>)

trex_stl_3n_ethip4udp_100u15p ==
    UdpNat(100, 15, <<<<20, 0, 0, 0>>, <<20, 0, 0, 99>>, 1024, 1038>>, <<1024, 2523>>)

trex_stl_3n_ethip4udp_10u1000p_conc ==
    UdpConc(10, 1000,
            <<<<10, 10, 10, 2>>, <<10, 10, 10, 11>>, 1001, 2000, <<20, 20, 20, 2>>, <<20, 20, 20, 11>>, 2001, 3000>>,
            <<<<20, 20, 20, 2>>, <<20, 20, 20, 11>>, 2001, 3000, <<10, 10, 10, 2>>, <<10, 10, 10, 11>>, 1001, 2000>>)

trex_stl_3n_ethip4udp_10u10p_conc ==
    UdpConc(10, 10,
            <<<<10, 10, 10, 2>>, <<10, 10, 10, 11>>, 1001, 1010, <<20, 20, 20, 2>>, <<20, 20, 20, 11>>, 2001, 2010>>,
            <<<<20, 20, 20, 2>>, <<20, 20, 20, 11>>, 2001, 2010, <<10, 10, 10, 2>>, <<10, 10, 10, 11>>, 1001, 1010>>)

trex_stl_3n_ethip4udp_10u15p ==
    UdpNat(10, 15, <<<<20, 0, 0, 0>>, <<20, 0, 0, 9>>, 1024, 1038>>, <<1024, 1173>>)

trex_stl_3n_ethip4udp_1u15p == Udp1u15p(<<1024, 1038>>, <<1024, 1038>>)

trex_stl_3n_ethip4udp_1u1p == Udp1u1p

trex_stl_3n_ethip4udp_2000u15p ==
    UdpNat(2000, 15, <<<<20, 0, 0, 0>>, <<20, 0, 7, 207>>, 1024, 1038>>,
           <<1024, 31022>>)

trex_stl_3n_ethip4udp_4000u15p ==
    UdpNat(4000, 15, <<<<20, 0, 0, 0>>, <<20, 0, 15, 159>>, 1024, 1038>>,
           <<1024, 61022>>)

trex_stl_3n_ethip6_ip6dst10000 ==
    Ip6Dst(10000, <<<<2, 0, 0, 0>>, <<2, 0, 39, 15>>>>,
           <<<<1, 0, 0, 0>>, <<1, 0, 39, 15>>>>)

trex_stl_3n_ethip6_ip6dst100000 ==
    Ip6Dst(100000, <<<<2, 0, 0, 0>>, <<2, 1, 134, 159>>>>,
           <<<<1, 0, 0, 0>>, <<1, 1, 134, 159>>>>)

trex_stl_3n_ethip6_ip6dst1000000 ==
    Ip6Dst(1000000, <<<<2, 0, 0, 0>>, <<2, 15, 66, 63>>>>,
           <<<<1, 0, 0, 0>>, <<1, 15, 66, 63>>>>)

trex_stl_3n_ethip6_ip6src253 ==
    IpSrc(253, 54, 54, <<<<1, 0, 0, 2>>, <<1, 0, 0, 254>>>>,
          <<<<2, 0, 0, 2>>, <<2, 0, 0, 254>>>>)

trex_stl_dot1qip4_vlan1ip4src254ip4dst254_bvi ==
    Vlan1Ip4(<<<<10, 10, 10, 1>>, <<10, 10, 10, 254>>, <<20, 20, 20, 1>>, <<20, 20, 20, 254>>>>,
             <<<<20, 20, 20, 1>>, <<20, 20, 20, 254>>, <<10, 10, 10, 1>>, <<10, 10, 10, 254>>>>)

trex_stl_dot1qip4_vlan1ip4src254ip4dst254 ==
    Vlan1Ip4(<<<<10, 10, 10, 1>>, <<10, 10, 10, 254>>, <<20, 20, 20, 1>>, <<20, 20, 20, 254>>>>,
             <<<<20, 20, 20, 1>>, <<20, 20, 20, 254>>, <<10, 10, 10, 1>>, <<10, 10, 10, 254>>>>)

trex_stl_dot1qip4vxlan_ip4src10udpsrcrnd == Vxlan(10, 88, 10)

trex_stl_dot1qip4vxlan_ip4src1udpsrcrnd == Vxlan(1, 88, 1)

trex_stl_dot1qip4vxlan_ip4src2udpsrcrnd == Vxlan(2, 88, 2)

trex_stl_dot1qip4vxlan_ip4src4udpsrcrnd == Vxlan(4, 88, 4)

trex_stl_dot1qip4vxlan_ip4src6udpsrcrnd == Vxlan(6, 88, 6)

trex_stl_dot1qip4vxlan_ip4src8udpsrcrnd == Vxlan(8, 88, 8)

trex_stl_ethip4udp_1024u63p_udir ==
    Udp63pUdir(1024,
               <<<<192, 168, 0, 0>>, <<192, 168, 3, 255>>, 1024, 1086, <<20, 0, 0, 0>>, <<20, 0, 3, 255>>>>)

trex_stl_ethip4udp_1024u63p ==
    Udp63p(1024, <<<<192, 168, 0, 0>>, <<192, 168, 3, 255>>, 1024, 1086>>,
           <<<<68, 142, 68, 0>>, <<68, 142, 68, 0>>, 1024, 65535>>)

trex_stl_ethip4udp_1048576u63p ==
    Udp63p(1048576, <<<<172, 16, 0, 0>>, <<172, 31, 255, 255>>, 1024, 1086>>,
           <<<<68, 142, 68, 0>>, <<68, 142, 71, 255>>, 1024, 65535>>)

trex_stl_ethip4udp_16384u63p_udir ==
    Udp63pUdir(16384,
               <<<<192, 168, 0, 0>>, <<192, 168, 63, 255>>, 1024, 1086, <<20, 0, 0, 0>>, <<20, 0, 63, 255>>>>)

trex_stl_ethip4udp_16384u63p ==
    Udp63p(16384, <<<<192, 168, 0, 0>>, <<192, 168, 63, 255>>, 1024, 1086>>,
           <<<<68, 142, 68, 0>>, <<68, 142, 68, 15>>, 1024, 65535>>)

trex_stl_ethip4udp_262144u63p_udir ==
    Udp63pUdir(262144,
               <<<<192, 168, 0, 0>>, <<192, 171, 255, 255>>, 1024, 1086, <<20, 0, 0, 0>>, <<20, 3, 255, 255>>>>)

trex_stl_ethip4udp_262144u63p ==
    Udp63p(262144, <<<<172, 16, 0, 0>>, <<172, 19, 255, 255>>, 1024, 1086>>,
           <<<<68, 142, 68, 0>>, <<68, 142, 68, 255>>, 1024, 65535>>)

trex_stl_ethip4udp_4096u63p_udir ==
    Udp63pUdir(4096,
               <<<<192, 168, 0, 0>>, <<192, 168, 15, 255>>, 1024, 1086, <<20, 0, 0, 0>>, <<20, 0, 15, 255>>>>)

trex_stl_ethip4udp_4096u63p ==
    Udp63p(4096, <<<<192, 168, 0, 0>>, <<192, 168, 15, 255>>, 1024, 1086>>,
           <<<<68, 142, 68, 0>>, <<68, 142, 68, 3>>, 1024, 65535>>)

trex_stl_ethip4udp_65536u63p_udir ==
    Udp63pUdir(65536,
               <<<<192, 168, 0, 0>>, <<192, 168, 255, 255>>, 1024, 1086, <<20, 0, 0, 0>>, <<20, 0, 255, 255>>>>)

trex_stl_ethip4udp_65536u63p ==
    Udp63p(65536, <<<<192, 168, 0, 0>>, <<192, 168, 255, 255>>, 1024, 1086>>,
           <<<<68, 142, 68, 0>>, <<68, 142, 68, 63>>, 1024, 65535>>)

trex_stl_ethip4vxlan_ip4src1udpsrcrnd == Vxlan(1, 84, 1)

trex_astf_ethip4tcp_1024h ==
    AstfTcp(1024,
            <<<<192, 168, 0, 0>>, <<192, 168, 3, 255>>, <<20, 0, 0, 0>>, <<20, 0, 3, 255>>>>,
            64512)

trex_astf_ethip4tcp_16384h ==
    AstfTcp(16384,
            <<<<192, 168, 0, 0>>, <<192, 168, 63, 255>>, <<20, 0, 0, 0>>, <<20, 0, 63, 255>>>>,
            1032192)

trex_astf_ethip4tcp_262144h ==
    AstfTcp(262144,
            <<<<172, 16, 0, 0>>, <<172, 19, 255, 255>>, <<20, 16, 0, 0>>, <<20, 19, 255, 255>>>>,
            16515072)

trex_astf_ethip4tcp_4096h ==
    AstfTcp(4096,
            <<<<192, 168, 0, 0>>, <<192, 168, 15, 255>>, <<20, 0, 0, 0>>, <<20, 0, 15, 255>>>>,
            258048)

trex_astf_ethip4tcp_65536h ==
    AstfTcp(65536,
            <<<<192, 168, 0, 0>>, <<192, 168, 255, 255>>, <<20, 0, 0, 0>>, <<20, 0, 255, 255>>>>,
            4128768)

trex_astf_ethip4udp_1024h ==
    AstfUdp(1024,
            <<<<192, 168, 0, 0>>, <<192, 168, 3, 255>>, <<20, 0, 0, 0>>, <<20, 0, 3, 255>>>>,
            64512)

trex_astf_ethip4udp_16384h ==
    AstfUdp(16384,
            <<<<192, 168, 0, 0>>, <<192, 168, 63, 255>>, <<20, 0, 0, 0>>, <<20, 0, 63, 255>>>>,
            1032192)

trex_astf_ethip4udp_262144h ==
    AstfUdp(262144,
            <<<<172, 16, 0, 0>>, <<172, 19, 255, 255>>, <<20, 16, 0, 0>>, <<20, 19, 255, 255>>>>,
            16515072)

trex_astf_ethip4udp_4096h ==
    AstfUdp(4096,
            <<<<192, 168, 0, 0>>, <<192, 168, 15, 255>>, <<20, 0, 0, 0>>, <<20, 0, 15, 255>>>>,
            258048)

trex_astf_ethip4udp_65536h ==
    AstfUdp(65536,
            <<<<192, 168, 0, 0>>, <<192, 168, 255, 255>>, <<20, 0, 0, 0>>, <<20, 0, 255, 255>>>>,
            4128768)

-----------------------------------------------------------------------------

\* STLProfile.load: the profile a file holds.
ProfileOf ==
    [ trex_stl_2n_dot1qip4asym_ip4src254 |-> trex_stl_2n_dot1qip4asym_ip4src254,
      trex_stl_2n_dot1qip6asym_ip6src253 |-> trex_stl_2n_dot1qip6asym_ip6src253,
      trex_stl_2n_ethip4_ip4dst_rnd10000 |-> trex_stl_2n_ethip4_ip4dst_rnd10000,
      trex_stl_2n_ethip4_ip4dst_rnd100000 |-> trex_stl_2n_ethip4_ip4dst_rnd100000,
      trex_stl_2n_ethip4_ip4dst_rnd1000000 |-> trex_stl_2n_ethip4_ip4dst_rnd1000000,
      trex_stl_2n_ethip4_ip4dst10000 |-> trex_stl_2n_ethip4_ip4dst10000,
      trex_stl_2n_ethip4_ip4dst100000 |-> trex_stl_2n_ethip4_ip4dst100000,
      trex_stl_2n_ethip4_ip4dst1000000 |-> trex_stl_2n_ethip4_ip4dst1000000,
      trex_stl_2n_ethip4_ip4src253 |-> trex_stl_2n_ethip4_ip4src253,
      trex_stl_2n_ethip4_ip4src254 |-> trex_stl_2n_ethip4_ip4src254,
      trex_stl_2n_ethip4_macsrc500kdst500k |-> trex_stl_2n_ethip4_macsrc500kdst500k,
      trex_stl_2n_ethip4_macsrc50kdst50k |-> trex_stl_2n_ethip4_macsrc50kdst50k,
      trex_stl_2n_ethip4_macsrc5kdst5k |-> trex_stl_2n_ethip4_macsrc5kdst5k,
      trex_stl_2n_ethip4udp_1000u15p |-> trex_stl_2n_ethip4udp_1000u15p,
      trex_stl_2n_ethip4udp_10u1000p_conc |-> trex_stl_2n_ethip4udp_10u1000p_conc,
      trex_stl_2n_ethip4udp_1u1p |-> trex_stl_2n_ethip4udp_1u1p,
      trex_stl_2n_ethip4udp_lb |-> trex_stl_2n_ethip4udp_lb,
      trex_stl_2n_ethip6_ip6dst10000 |-> trex_stl_2n_ethip6_ip6dst10000,
      trex_stl_2n_ethip6_ip6dst100000 |-> trex_stl_2n_ethip6_ip6dst100000,
      trex_stl_2n_ethip6_ip6dst1000000 |-> trex_stl_2n_ethip6_ip6dst1000000,
      trex_stl_2n_ethip6_ip6src253 |-> trex_stl_2n_ethip6_ip6src253,
      trex_stl_2n3n_ethip4_ip4src254_10c1n |-> trex_stl_2n3n_ethip4_ip4src254_10c1n,
      trex_stl_2n3n_ethip4_ip4src254_10c2n |-> trex_stl_2n3n_ethip4_ip4src254_10c2n,
      trex_stl_2n3n_ethip4_ip4src254_1c10n |-> trex_stl_2n3n_ethip4_ip4src254_1c10n,
      trex_stl_2n3n_ethip4_ip4src254_1c1n |-> trex_stl_2n3n_ethip4_ip4src254_1c1n,
      trex_stl_2n3n_ethip4_ip4src254_1c2n |-> trex_stl_2n3n_ethip4_ip4src254_1c2n,
      trex_stl_2n3n_ethip4_ip4src254_1c4n |-> trex_stl_2n3n_ethip4_ip4src254_1c4n,
      trex_stl_2n3n_ethip4_ip4src254_1c6n |-> trex_stl_2n3n_ethip4_ip4src254_1c6n,
      trex_stl_2n3n_ethip4_ip4src254_1c8n |-> trex_stl_2n3n_ethip4_ip4src254_1c8n,
      trex_stl_2n3n_ethip4_ip4src254_2c10n |-> trex_stl_2n3n_ethip4_ip4src254_2c10n,
      trex_stl_2n3n_ethip4_ip4src254_2c1n |-> trex_stl_2n3n_ethip4_ip4src254_2c1n,
      trex_stl_2n3n_ethip4_ip4src254_2c2n |-> trex_stl_2n3n_ethip4_ip4src254_2c2n,
      trex_stl_2n3n_ethip4_ip4src254_2c4n |-> trex_stl_2n3n_ethip4_ip4src254_2c4n,
      trex_stl_2n3n_ethip4_ip4src254_2c6n |-> trex_stl_2n3n_ethip4_ip4src254_2c6n,
      trex_stl_2n3n_ethip4_ip4src254_2c8n |-> trex_stl_2n3n_ethip4_ip4src254_2c8n,
      trex_stl_2n3n_ethip4_ip4src254_4c1n |-> trex_stl_2n3n_ethip4_ip4src254_4c1n,
      trex_stl_2n3n_ethip4_ip4src254_4c2n |-> trex_stl_2n3n_ethip4_ip4src254_4c2n,
      trex_stl_2n3n_ethip4_ip4src254_4c4n |-> trex_stl_2n3n_ethip4_ip4src254_4c4n,
      trex_stl_2n3n_ethip4_ip4src254_4c6n |-> trex_stl_2n3n_ethip4_ip4src254_4c6n,
      trex_stl_2n3n_ethip4_ip4src254_6c1n |-> trex_stl_2n3n_ethip4_ip4src254_6c1n,
      trex_stl_2n3n_ethip4_ip4src254_6c2n |-> trex_stl_2n3n_ethip4_ip4src254_6c2n,
      trex_stl_2n3n_ethip4_ip4src254_6c4n |-> trex_stl_2n3n_ethip4_ip4src254_6c4n,
      trex_stl_2n3n_ethip4_ip4src254_8c1n |-> trex_stl_2n3n_ethip4_ip4src254_8c1n,
      trex_stl_2n3n_ethip4_ip4src254_8c2n |-> trex_stl_2n3n_ethip4_ip4src254_8c2n,
      trex_stl_3n_dot1qip4_vlan100ip4src254ip4dst254 |-> trex_stl_3n_dot1qip4_vlan100ip4src254ip4dst254,
      trex_stl_3n_dot1qip4_vlan10ip4src254ip4dst254 |-> trex_stl_3n_dot1qip4_vlan10ip4src254ip4dst254,
      trex_stl_3n_dot1qip4_vlan1ip4src254ip4dst254 |-> trex_stl_3n_dot1qip4_vlan1ip4src254ip4dst254,
      trex_stl_3n_dot1qip4_vlan1kip4src254ip4dst254 |-> trex_stl_3n_dot1qip4_vlan1kip4src254ip4dst254,
      trex_stl_3n_ethip4_ip4dst1 |-> trex_stl_3n_ethip4_ip4dst1,
      trex_stl_3n_ethip4_ip4dst100 |-> trex_stl_3n_ethip4_ip4dst100,
      trex_stl_3n_ethip4_ip4dst1000_1cnf |-> trex_stl_3n_ethip4_ip4dst1000_1cnf,
      trex_stl_3n_ethip4_ip4dst1000_2cnf |-> trex_stl_3n_ethip4_ip4dst1000_2cnf,
      trex_stl_3n_ethip4_ip4dst1000_4cnf |-> trex_stl_3n_ethip4_ip4dst1000_4cnf,
      trex_stl_3n_ethip4_ip4dst1000_8cnf |-> trex_stl_3n_ethip4_ip4dst1000_8cnf,
      trex_stl_3n_ethip4_ip4dst1000 |-> trex_stl_3n_ethip4_ip4dst1000,
      trex_stl_3n_ethip4_ip4dst10000_1cnf |-> trex_stl_3n_ethip4_ip4dst10000_1cnf,
      trex_stl_3n_ethip4_ip4dst10000_2cnf |-> trex_stl_3n_ethip4_ip4dst10000_2cnf,
      trex_stl_3n_ethip4_ip4dst10000_4cnf |-> trex_stl_3n_ethip4_ip4dst10000_4cnf,
      trex_stl_3n_ethip4_ip4dst10000_8cnf |-> trex_stl_3n_ethip4_ip4dst10000_8cnf,
      trex_stl_3n_ethip4_ip4dst10000 |-> trex_stl_3n_ethip4_ip4dst10000,
      trex_stl_3n_ethip4_ip4dst100000 |-> trex_stl_3n_ethip4_ip4dst100000,
      trex_stl_3n_ethip4_ip4dst1000000 |-> trex_stl_3n_ethip4_ip4dst1000000,
      trex_stl_3n_ethip4_ip4dst20000_1cnf |-> trex_stl_3n_ethip4_ip4dst20000_1cnf,
      trex_stl_3n_ethip4_ip4dst20000_2cnf |-> trex_stl_3n_ethip4_ip4dst20000_2cnf,
      trex_stl_3n_ethip4_ip4dst20000_4cnf |-> trex_stl_3n_ethip4_ip4dst20000_4cnf,
      trex_stl_3n_ethip4_ip4dst20000_8cnf |-> trex_stl_3n_ethip4_ip4dst20000_8cnf,
      trex_stl_3n_ethip4_ip4dst20000 |-> trex_stl_3n_ethip4_ip4dst20000,
      trex_stl_3n_ethip4_ip4dst253 |-> trex_stl_3n_ethip4_ip4dst253,
      trex_stl_3n_ethip4_ip4dst253_l3fwd |-> trex_stl_3n_ethip4_ip4dst253_l3fwd,
      trex_stl_3n_ethip4_ip4dst4_1cnf |-> trex_stl_3n_ethip4_ip4dst4_1cnf,
      trex_stl_3n_ethip4_ip4dst4_2cnf |-> trex_stl_3n_ethip4_ip4dst4_2cnf,
      trex_stl_3n_ethip4_ip4dst4_4cnf |-> trex_stl_3n_ethip4_ip4dst4_4cnf,
      trex_stl_3n_ethip4_ip4dst4 |-> trex_stl_3n_ethip4_ip4dst4,
      trex_stl_3n_ethip4_ip4dst40_1cnf |-> trex_stl_3n_ethip4_ip4dst40_1cnf,
      trex_stl_3n_ethip4_ip4dst40_2cnf |-> trex_stl_3n_ethip4_ip4dst40_2cnf,
      trex_stl_3n_ethip4_ip4dst40_4cnf |-> trex_stl_3n_ethip4_ip4dst40_4cnf,
      trex_stl_3n_ethip4_ip4dst40_8cnf |-> trex_stl_3n_ethip4_ip4dst40_8cnf,
      trex_stl_3n_ethip4_ip4dst40 |-> trex_stl_3n_ethip4_ip4dst40,
      trex_stl_3n_ethip4_ip4dst400_1cnf |-> trex_stl_3n_ethip4_ip4dst400_1cnf,
      trex_stl_3n_ethip4_ip4dst400_2cnf |-> trex_stl_3n_ethip4_ip4dst400_2cnf,
      trex_stl_3n_ethip4_ip4dst400_4cnf |-> trex_stl_3n_ethip4_ip4dst400_4cnf,
      trex_stl_3n_ethip4_ip4dst400_8cnf |-> trex_stl_3n_ethip4_ip4dst400_8cnf,
      trex_stl_3n_ethip4_ip4dst400 |-> trex_stl_3n_ethip4_ip4dst400,
      trex_stl_3n_ethip4_ip4dst40000_1cnf |-> trex_stl_3n_ethip4_ip4dst40000_1cnf,
      trex_stl_3n_ethip4_ip4dst40000_2cnf |-> trex_stl_3n_ethip4_ip4dst40000_2cnf,
      trex_stl_3n_ethip4_ip4dst40000_4cnf |-> trex_stl_3n_ethip4_ip4dst40000_4cnf,
      trex_stl_3n_ethip4_ip4dst40000_8cnf |-> trex_stl_3n_ethip4_ip4dst40000_8cnf,
      trex_stl_3n_ethip4_ip4dst40000 |-> trex_stl_3n_ethip4_ip4dst40000,
      trex_stl_3n_ethip4_ip4dst5000_1cnf |-> trex_stl_3n_ethip4_ip4dst5000_1cnf,
      trex_stl_3n_ethip4_ip4dst5000_2cnf |-> trex_stl_3n_ethip4_ip4dst5000_2cnf,
      trex_stl_3n_ethip4_ip4dst5000_4cnf |-> trex_stl_3n_ethip4_ip4dst5000_4cnf,
      trex_stl_3n_ethip4_ip4dst5000_8cnf |-> trex_stl_3n_ethip4_ip4dst5000_8cnf,
      trex_stl_3n_ethip4_ip4dst5000 |-> trex_stl_3n_ethip4_ip4dst5000,
      trex_stl_3n_ethip4_ip4dst60000_1cnf |-> trex_stl_3n_ethip4_ip4dst60000_1cnf,
      trex_stl_3n_ethip4_ip4dst60000_2cnf |-> trex_stl_3n_ethip4_ip4dst60000_2cnf,
      trex_stl_3n_ethip4_ip4dst60000_4cnf |-> trex_stl_3n_ethip4_ip4dst60000_4cnf,
      trex_stl_3n_ethip4_ip4dst60000_8cnf |-> trex_stl_3n_ethip4_ip4dst60000_8cnf,
      trex_stl_3n_ethip4_ip4dst60000 |-> trex_stl_3n_ethip4_ip4dst60000,
      trex_stl_3n_ethip4_ip4src253 |-> trex_stl_3n_ethip4_ip4src253,
      trex_stl_3n_ethip4_ip4src254 |-> trex_stl_3n_ethip4_ip4src254,
      trex_stl_3n_ethip4_macsrc100ip4src100 |-> trex_stl_3n_ethip4_macsrc100ip4src100,
      trex_stl_3n_ethip4_macsrc100kip4src100k |-> trex_stl_3n_ethip4_macsrc100kip4src100k,
      trex_stl_3n_ethip4_macsrc10kip4src10k |-> trex_stl_3n_ethip4_macsrc10kip4src10k,
      trex_stl_3n_ethip4_macsrc500kdst500k |-> trex_stl_3n_ethip4_macsrc500kdst500k,
      trex_stl_3n_ethip4_macsrc50kdst50k |-> trex_stl_3n_ethip4_macsrc50kdst50k,
      trex_stl_3n_ethip4_macsrc5kdst5k |-> trex_stl_3n_ethip4_macsrc5kdst5k,
      trex_stl_3n_ethip4udp_1000u15p |-> trex_stl_3n_ethip4udp_1000u15p,
      trex_stl_3n_ethip4udp_100u1000p_conc |-> trex_stl_3n_ethip4udp_100u1000p_conc,
      trex_stl_3n_ethip4udp_100u15p |-> trex_stl_3n_ethip4udp_100u15p,
      trex_stl_3n_ethip4udp_10u1000p_conc |-> trex_stl_3n_ethip4udp_10u1000p_conc,
      trex_stl_3n_ethip4udp_10u10p_conc |-> trex_stl_3n_ethip4udp_10u10p_conc,
      trex_stl_3n_ethip4udp_10u15p |-> trex_stl_3n_ethip4udp_10u15p,
      trex_stl_3n_ethip4udp_1u15p |-> trex_stl_3n_ethip4udp_1u15p,
      trex_stl_3n_ethip4udp_1u1p |-> trex_stl_3n_ethip4udp_1u1p,
      trex_stl_3n_ethip4udp_2000u15p |-> trex_stl_3n_ethip4udp_2000u15p,
      trex_stl_3n_ethip4udp_4000u15p |-> trex_stl_3n_ethip4udp_4000u15p,
      trex_stl_3n_ethip6_ip6dst10000 |-> trex_stl_3n_ethip6_ip6dst10000,
      trex_stl_3n_ethip6_ip6dst100000 |-> trex_stl_3n_ethip6_ip6dst100000,
      trex_stl_3n_ethip6_ip6dst1000000 |-> trex_stl_3n_ethip6_ip6dst1000000,
      trex_stl_3n_ethip6_ip6src253 |-> trex_stl_3n_ethip6_ip6src253,
      trex_stl_dot1qip4_vlan1ip4src254ip4dst254_bvi |-> trex_stl_dot1qip4_vlan1ip4src254ip4dst254_bvi,
      trex_stl_dot1qip4_vlan1ip4src254ip4dst254 |-> trex_stl_dot1qip4_vlan1ip4src254ip4dst254,
      trex_stl_dot1qip4vxlan_ip4src10udpsrcrnd |-> trex_stl_dot1qip4vxlan_ip4src10udpsrcrnd,
      trex_stl_dot1qip4vxlan_ip4src1udpsrcrnd |-> trex_stl_dot1qip4vxlan_ip4src1udpsrcrnd,
      trex_stl_dot1qip4vxlan_ip4src2udpsrcrnd |-> trex_stl_dot1qip4vxlan_ip4src2udpsrcrnd,
      trex_stl_dot1qip4vxlan_ip4src4udpsrcrnd |-> trex_stl_dot1qip4vxlan_ip4src4udpsrcrnd,
      trex_stl_dot1qip4vxlan_ip4src6udpsrcrnd |-> trex_stl_dot1qip4vxlan_ip4src6udpsrcrnd,
      trex_stl_dot1qip4vxlan_ip4src8udpsrcrnd |-> trex_stl_dot1qip4vxlan_ip4src8udpsrcrnd,
      trex_stl_ethip4udp_1024u63p_udir |-> trex_stl_ethip4udp_1024u63p_udir,
      trex_stl_ethip4udp_1024u63p |-> trex_stl_ethip4udp_1024u63p,
      trex_stl_ethip4udp_1048576u63p |-> trex_stl_ethip4udp_1048576u63p,
      trex_stl_ethip4udp_16384u63p_udir |-> trex_stl_ethip4udp_16384u63p_udir,
      trex_stl_ethip4udp_16384u63p |-> trex_stl_ethip4udp_16384u63p,
      trex_stl_ethip4udp_262144u63p_udir |-> trex_stl_ethip4udp_262144u63p_udir,
      trex_stl_ethip4udp_262144u63p |-> trex_stl_ethip4udp_262144u63p,
      trex_stl_ethip4udp_4096u63p_udir |-> trex_stl_ethip4udp_4096u63p_udir,
      trex_stl_ethip4udp_4096u63p |-> trex_stl_ethip4udp_4096u63p,
      trex_stl_ethip4udp_65536u63p_udir |-> trex_stl_ethip4udp_65536u63p_udir,
      trex_stl_ethip4udp_65536u63p |-> trex_stl_ethip4udp_65536u63p,
      trex_stl_ethip4vxlan_ip4src1udpsrcrnd |-> trex_stl_ethip4vxlan_ip4src1udpsrcrnd,
      trex_astf_ethip4tcp_1024h |-> trex_astf_ethip4tcp_1024h,
      trex_astf_ethip4tcp_16384h |-> trex_astf_ethip4tcp_16384h,
      trex_astf_ethip4tcp_262144h |-> trex_astf_ethip4tcp_262144h,
      trex_astf_ethip4tcp_4096h |-> trex_astf_ethip4tcp_4096h,
      trex_astf_ethip4tcp_65536h |-> trex_astf_ethip4tcp_65536h,
      trex_astf_ethip4udp_1024h |-> trex_astf_ethip4udp_1024h,
      trex_astf_ethip4udp_16384h |-> trex_astf_ethip4udp_16384h,
      trex_astf_ethip4udp_262144h |-> trex_astf_ethip4udp_262144h,
      trex_astf_ethip4udp_4096h |-> trex_astf_ethip4udp_4096h,
      trex_astf_ethip4udp_65536h |-> trex_astf_ethip4udp_65536h ]

=============================================================================
