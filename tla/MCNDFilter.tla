----------------------------- MODULE MCNDFilter -----------------------------
(***************************************************************************)
(* NDFilter with addresses of three bits: one or two of prefix, the rest   *)
(* of host, and some seventy frames.                                       *)
(***************************************************************************)
EXTENDS NDFilter

Bits(a, b, c) == <<a = 1, b = 1, c = 1>>

RAPrefix == [raPrefix |-> TRUE, ip |-> Bits(0, 0, 0), cidr |-> AsRA]
Own == [raPrefix |-> TRUE, ip |-> Bits(0, 0, 1), cidr |-> 3]       \* ra-prefix::1
Wider == [raPrefix |-> TRUE, ip |-> Bits(0, 1, 0), cidr |-> 2]     \* ra-prefix:1::/2
Literal == [raPrefix |-> FALSE, ip |-> Bits(1, 1, 0), cidr |-> 2]
Host == [raPrefix |-> FALSE, ip |-> Bits(1, 1, 1), cidr |-> 3]

TwoPrefixes == <<Literal, RAPrefix>>
ThreeExcludes == <<Own, Host, Wider>>

Short == [ip |-> Bits(0, 0, 0), len |-> 1]
Long == [ip |-> Bits(0, 1, 0), len |-> 2]
Far == [ip |-> Bits(1, 0, 0), len |-> 2]

SomeNetworks == {Short, Long, Far}
AnyInfos == SomeNetworks \cup {NoPrefix}

\* Untagged and tagged frames (VLAN 50 with a priority, VLAN 51), whole, cut before and after
\* the ICMPv6 type; the remaining bytes look like the values the filters want.
Plain(dst, type, next, icmp, len) ==
  [tag |-> Untagged, tci |-> 0, dst |-> dst, type |-> type, next |-> next, icmp |-> icmp,
   other |-> ICMPv6, len |-> len]

Types == {RouterAdvertisement, NeighborSolicitation, NeighborAdvertisement}

PlainFrames ==
  {Plain(dst, IPv6, ICMPv6, icmp, len) :
     dst \in {Multicast, 0}, icmp \in Types, len \in {54, 60, 86}}
  \cup {Plain(Multicast, 2048, ICMPv6, NeighborSolicitation, 86),
        Plain(Multicast, IPv6, 17, NeighborSolicitation, 86)}

AnyFrames ==
  PlainFrames \cup
  {[f EXCEPT !.tag = tag, !.tci = tci, !.len = @ + 4] :
     f \in {g \in PlainFrames : g.len = 86}, tag \in {Dot1Q, QinQ, OldQinQ}, tci \in {24626, 51}}

\* One address in each part the networks above cut out.
FewTargets == {Bits(0, 0, 1), Bits(0, 1, 0), Bits(1, 0, 1), Bits(1, 1, 0), Bits(1, 1, 1)}
=============================================================================
