---------------------------- MODULE ClusterDnsIp ----------------------------
(***************************************************************************)
(* cluster_dns_ip and service_ip_cidr_to_cluster_dns_ip, eks_provider.rs:  *)
(* the address of the cluster's DNS service, written into the created      *)
(* cluster's info, is derived from the service CIDR DescribeCluster        *)
(* reports.  The derivation works on the text: for IPv6 it cuts the CIDR   *)
(* at '/' and appends "a", for IPv4 (and any family other than IPv6) it    *)
(* splits at '.', checks for four components and replaces the fourth,      *)
(* "0/16" say, by "10".                                                    *)
(*                                                                         *)
(* Text is a sequence of characters: a hexadecimal digit is its value      *)
(* 0..15 (the decimal digits and a..f), and the separators are Dot, Colon  *)
(* and Slash.  The reference parses the derived text back into an address  *)
(* and compares it with the service network's address plus 10, the         *)
(* address kube-dns gets in an EKS cluster.                                *)
(***************************************************************************)
EXTENDS Naturals, Sequences, SequencesExt

CONSTANTS
    V4Addrs,    \* IPv4 addresses of service networks, as <<a, b, c, d>>
    V4Prefixes, \* their prefix lengths
    V6Addrs,    \* IPv6 addresses, as 8 groups of 16 bits
    V6Prefixes

ASSUME DnsIpAssumption ==
    /\ V4Addrs \subseteq [1..4 -> 0..255]
    /\ V6Addrs \subseteq [1..8 -> 0..65535]
    /\ V4Prefixes \subseteq 0..32 /\ V6Prefixes \subseteq 0..128

Dot == 16
Colon == 17
Slash == 18

(***************************************************************************)
(* Text.                                                                   *)
(***************************************************************************)
\* The digits of n in base b, most significant first, no leading zeros.
ToDigits(n, b) ==
    LET d[m \in Nat] == IF m < b THEN <<m>> ELSE d[m \div b] \o <<m % b>>
    IN d[n]

\* The number the digits ds spell in base b.
FromDigits(ds, b) == FoldLeft(LAMBDA acc, x : acc * b + x, 0, ds)

\* str::split: the pieces between the occurrences of c, empty ones kept.
StrSplit(s, c) ==
    LET cut == <<0>> \o SelectSeq([i \in 1..Len(s) |-> i], LAMBDA i : s[i] = c)
                     \o <<Len(s) + 1>>
    IN [k \in 1..Len(cut) - 1 |-> SubSeq(s, cut[k] + 1, cut[k + 1] - 1)]

\* [&str]::join: the pieces with c between each two.
StrJoin(parts, c) ==
    FlattenSeq([k \in 1..Len(parts) |->
                   IF k = 1 THEN parts[1] ELSE <<c>> \o parts[k]])

(***************************************************************************)
(* service_ip_cidr_to_cluster_dns_ip.  An input is the ip_family and the   *)
(* two optional CIDRs of the cluster's KubernetesNetworkConfig; None is    *)
(* the empty text.  The result is Ok(text) or an error, every one of them  *)
(* classified Remaining.                                                   *)
(***************************************************************************)
None == <<>>
Families == {"missing", "Ipv4", "Ipv6", "Unknown"}
Err == [ok |-> FALSE, ip |-> <<>>]
Ok(t) == [ok |-> TRUE, ip |-> t]

\* Mutant: the third component is replaced instead of the fourth.
Ipv4DnsIpThirdComponent(cidr) ==
    LET parts == StrSplit(cidr, Dot)
    IN IF Len(parts) # 4 THEN Err
       ELSE Ok(StrJoin([parts EXCEPT ![3] = <<1, 0>>], Dot))

\* The IPv4 (and fallback) arm: four '.' components, the fourth made "10".
Ipv4DnsIp(cidr) ==
    LET parts == StrSplit(cidr, Dot)
    IN IF Len(parts) # 4 THEN Err
       ELSE Ok(StrJoin([parts EXCEPT ![4] = <<1, 0>>], Dot))

\* The IPv6 arm: the text before the first '/', and "a".
Ipv6DnsIp(cidr) == Ok(StrSplit(cidr, Slash)[1] \o <<10>>)

ServiceIpCidrToClusterDnsIp(in) ==
    CASE in.family = "missing" -> Err
      [] in.family = "Ipv6" -> IF in.v6 = None THEN Err ELSE Ipv6DnsIp(in.v6)
      [] OTHER -> IF in.v4 = None THEN Err ELSE Ipv4DnsIp(in.v4)

(***************************************************************************)
(* The texts DescribeCluster reports: dotted decimal, and RFC 5952 IPv6    *)
(* (lower-case hex, no leading zeros, the first longest run of two or more *)
(* zero groups written "::"), each with "/prefix".                         *)
(***************************************************************************)
V4Text(a) == StrJoin([i \in 1..4 |-> ToDigits(a[i], 10)], Dot)

ZeroRuns(g) ==
    {r \in (1..8) \X (1..8) :
        r[1] < r[2] /\ \A i \in r[1]..r[2] : g[i] = 0}

V6Text(g) ==
    LET hex(i) == ToDigits(g[i], 16)
        groups(from, to) == StrJoin([k \in 1..(to - from + 1) |-> hex(from + k - 1)],
                                    Colon)
    IN IF ZeroRuns(g) = {} THEN groups(1, 8)
       ELSE LET r == CHOOSE r \in ZeroRuns(g) :
                      \A q \in ZeroRuns(g) :
                          \/ q[2] - q[1] < r[2] - r[1]
                          \/ q[2] - q[1] = r[2] - r[1] /\ r[1] <= q[1]
            IN groups(1, r[1] - 1) \o <<Colon, Colon>> \o groups(r[2] + 1, 8)

CidrText(addrText, n) == addrText \o <<Slash>> \o ToDigits(n, 10)

Inputs ==
    [family : {"missing"}, v4 : {None}, v6 : {None}]
    \cup [family : {"Ipv4", "Unknown"}, v6 : {None},
          v4 : {None}
               \cup {CidrText(V4Text(a), n) : a \in V4Addrs, n \in V4Prefixes}
               \* a CIDR with three components
               \cup {CidrText(StrJoin([i \in 1..3 |-> ToDigits(a[i], 10)], Dot), n) :
                       a \in V4Addrs, n \in V4Prefixes}]
    \cup [family : {"Ipv6"}, v4 : {None},
          v6 : {None} \cup {CidrText(V6Text(g), n) : g \in V6Addrs, n \in V6Prefixes}]

(***************************************************************************)
(* The reference: parse text back into an address, as digits in base 256  *)
(* (IPv4) or 65536 (IPv6); NoAddr if it is not an address.                *)
(***************************************************************************)
NoAddr == <<>>

IsNumber(ds, b, maxDigits, maxValue) ==
    /\ 1 <= Len(ds) /\ Len(ds) <= maxDigits
    /\ \A i \in DOMAIN ds : ds[i] < b
    /\ FromDigits(ds, b) <= maxValue

ParseV4(t) ==
    LET parts == StrSplit(t, Dot)
    IN IF Len(parts) = 4 /\ \A i \in 1..4 : IsNumber(parts[i], 10, 3, 255)
       THEN [i \in 1..4 |-> FromDigits(parts[i], 10)]
       ELSE NoAddr

ParseV6(t) ==
    LET dc == {i \in 1..Len(t) - 1 : t[i] = Colon /\ t[i + 1] = Colon}
        pieces(s) == IF s = <<>> THEN <<>> ELSE StrSplit(s, Colon)
        groups ==
            IF dc = {} THEN StrSplit(t, Colon)
            ELSE LET i == CHOOSE i \in dc : \A j \in dc : i <= j
                     left == pieces(SubSeq(t, 1, i - 1))
                     right == pieces(SubSeq(t, i + 2, Len(t)))
                 IN IF Len(left) + Len(right) > 7 THEN <<>>
                    ELSE left \o [k \in 1..(8 - Len(left) - Len(right)) |-> <<0>>]
                              \o right
    IN IF /\ Cardinality(dc) <= 1
          /\ Len(groups) = 8
          /\ \A k \in 1..8 : IsNumber(groups[k], 16, 4, 65535)
       THEN [k \in 1..8 |-> FromDigits(groups[k], 16)]
       ELSE NoAddr

\* The address k places after ds, digits in base b (no wrap at the top).
AddrPlus(ds, b, k) ==
    LET n == Len(ds)
        carry[i \in 0..n] ==
            IF i = 0 THEN k ELSE (ds[n - i + 1] + carry[i - 1]) \div b
    IN [i \in 1..n |-> (ds[i] + carry[n - i]) % b]

\* The network part of a CIDR: no host bit of address ds is set.
IsNetwork(ds, width, n) ==
    \A i \in DOMAIN ds :
        LET netBits == IF n >= width * i THEN width
                       ELSE IF n <= width * (i - 1) THEN 0
                       ELSE n - width * (i - 1)
        IN ds[i] % (2 ^ (width - netBits)) = 0

(* The service CIDRs an EKS cluster can have: an IPv4 network of /12 to    *)
(* /24, an IPv6 network of /108 (the one EKS assigns) written as RFC 5952  *)
(* text.                                                                   *)
ValidV4(c) ==
    LET p == StrSplit(c, Slash)
    IN /\ Len(p) = 2 /\ ParseV4(p[1]) # NoAddr
       /\ FromDigits(p[2], 10) \in 12..24
       /\ IsNetwork(ParseV4(p[1]), 8, FromDigits(p[2], 10))

ValidV6(c) ==
    LET p == StrSplit(c, Slash)
    IN /\ Len(p) = 2 /\ ParseV6(p[1]) # NoAddr
       /\ FromDigits(p[2], 10) = 108
       /\ IsNetwork(ParseV6(p[1]), 16, 108)

NetAddr(c, parse(_)) == parse(StrSplit(c, Slash)[1])

-----------------------------------------------------------------------------
(***************************************************************************)
(* created_cluster calls cluster_dns_ip once per DescribeCluster answer.   *)
(***************************************************************************)
VARIABLES input, out

vars == <<input, out>>

DnsInit == input = [family |-> "missing", v4 |-> None, v6 |-> None]
           /\ out = Err

\* cluster_dns_ip on the network config of one DescribeCluster answer.
ClusterDnsIp ==
    \E in \in Inputs :
        /\ input' = in
        /\ out' = ServiceIpCidrToClusterDnsIp(in)

DnsSpec == DnsInit /\ [][ClusterDnsIp]_vars

(* The derived address is the service network's address plus 10 for every *)
(* service CIDR an EKS cluster can have, of either family, and the         *)
(* derivation fails (Remaining) when the family or its CIDR is missing or  *)
(* an IPv4 CIDR has other than four components.                            *)
DnsIpMatchesReference ==
    CASE input.family = "missing" -> ~out.ok
      [] input.family = "Ipv6" /\ input.v6 = None -> ~out.ok
      [] input.family = "Ipv6" /\ ValidV6(input.v6) ->
            /\ out.ok
            /\ ParseV6(out.ip) = AddrPlus(NetAddr(input.v6, ParseV6), 65536, 10)
      [] input.family # "Ipv6" /\ input.v4 = None -> ~out.ok
      [] input.family # "Ipv6" /\ Len(StrSplit(input.v4, Dot)) # 4 -> ~out.ok
      [] input.family # "Ipv6" /\ ValidV4(input.v4) ->
            /\ out.ok
            /\ ParseV4(out.ip) = AddrPlus(NetAddr(input.v4, ParseV4), 256, 10)
      [] OTHER -> TRUE

=============================================================================
