------------------------------- MODULE FlexIP -------------------------------
(***************************************************************************)
(* FlexibleIP and RAClient.ResolveFIP (ra.go), maskedIPAssign (util.go):   *)
(* how a configured address such as "ra-prefix::1/64" becomes a network    *)
(* under the prefix the router advertised last.                            *)
(*                                                                         *)
(* An address is a sequence of Width bits, a network an address and the    *)
(* length of its mask.                                                     *)
(***************************************************************************)
EXTENDS Naturals

CONSTANTS
  Width,     \* bits in an address
  NoInfo,    \* routerInfo is nil: no router advertisement accepted yet
  NoPrefix,  \* a routerInfo without a prefix
  AsRA,      \* cidr = -1: the mask of the router's prefix
  Unknown    \* ResolveFIP returns nil

Addresses == [1 .. Width -> BOOLEAN]
Networks == [ip : Addresses, len : 0 .. Width]

ASSUME FlexIPAssumption ==
  /\ Width \in Nat \ {0}
  /\ NoInfo # NoPrefix /\ NoInfo \notin Networks /\ NoPrefix \notin Networks
  /\ AsRA \notin 0 .. Width
  /\ Unknown \notin Networks

\* What ParseFlexibleIP builds: a bare "ra-prefix" has a zero address, and only it has cidr -1.
FlexibleIPs ==
  [raPrefix : BOOLEAN, ip : Addresses, cidr : 0 .. Width]
    \cup [raPrefix : {TRUE}, ip : {[b \in 1 .. Width |-> FALSE]}, cidr : {AsRA}]

Infos == Networks \cup {NoPrefix}

SwappedMask(dst, src) ==
  IF src = NoPrefix THEN dst
  ELSE [b \in 1 .. Width |-> IF b <= src.len THEN dst[b] ELSE src.ip[b]]

\* The bits of src under the mask, those of dst elsewhere.  The lengths of a missing prefix
\* and of its mask are not those of dst: dst stays as it is.
maskedIPAssign(dst, src) ==
  IF src = NoPrefix THEN dst
  ELSE [b \in 1 .. Width |-> IF b <= src.len THEN src.ip[b] ELSE dst[b]]

\* The mask copied from a missing prefix is all zeros.
MaskLength(fip, info) ==
  CASE fip.cidr # AsRA -> fip.cidr
    [] fip.cidr = AsRA /\ info = NoPrefix -> 0
    [] fip.cidr = AsRA /\ info # NoPrefix -> info.len

ResolveFIP(fip, info) ==
  IF fip.raPrefix /\ info = NoInfo THEN Unknown
  ELSE [ip  |-> IF fip.raPrefix THEN maskedIPAssign(fip.ip, info) ELSE fip.ip,
        len |-> MaskLength(fip, info)]

Contains(net, a) == \A b \in 1 .. net.len : net.ip[b] = a[b]

Covers(fip, info, a) == ResolveFIP(fip, info) # Unknown /\ Contains(ResolveFIP(fip, info), a)
=============================================================================
