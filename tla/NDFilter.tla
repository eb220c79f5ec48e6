------------------------------ MODULE NDFilter ------------------------------
(***************************************************************************)
(* From a frame on an external interface to the decision whether it gets a *)
(* goroutine: the filter in the kernel, parseICMPv6 and the loops over     *)
(* prefixes and excludes of NDClient.workInternal (nd.go), while RAClient  *)
(* (ra.go) may put another routerInfo in place between any two checks.     *)
(*                                                                         *)
(* inForce is a history variable: the router infos in force since the      *)
(* solicitation was read.                                                  *)
(***************************************************************************)
EXTENDS FlexIP, Filters

CONSTANTS
  Prefixes,   \* NDP_PREFIXES, a sequence
  Excludes,   \* NDP_EXCLUDE_IPS, a sequence
  SomeInfos,  \* bound: the router infos that get advertised
  SomeTargets,\* bound: the addresses solicited
  SomeFrames  \* bound: the frames on the external interface

ASSUME NDFilterAssumption ==
  /\ Prefixes \in Seq(FlexibleIPs)
  /\ Excludes \in Seq(FlexibleIPs)
  /\ SomeInfos \subseteq Infos
  /\ SomeTargets \subseteq Addresses
  /\ SomeFrames \subseteq Frames

VARIABLES
  routerInfo,  \* RAClient.routerInfo
  unfiltered,  \* frames from before the filter was attached may still be in the buffer
  frame,       \* the one that arrived last
  at,          \* what becomes of it, see Places
  k,           \* which of the prefixes or excludes comes next
  targetIP,    \* of the solicitation read last
  inForce      \* see above

vars == <<routerInfo, unfiltered, frame, at, k, targetIP, inForce>>

Places == {"none",                    \* nothing arrived yet
           "rejected",                \* in the kernel: other EtherType, or the filter
           "unparsed",                \* parseICMPv6 fails
           "prefixes", "excludes",    \* checked against NDP_PREFIXES, NDP_EXCLUDE_IPS
           "dropped", "served"}

Source == INSTANCE InfoSource WITH
  RouterInfos <- SomeInfos, Prefixless <- {NoPrefix}, Unset <- NoInfo

Init ==
  /\ Source!Init
  /\ unfiltered = TRUE
  /\ frame \in SomeFrames
  /\ at = "none" /\ k = 1
  /\ targetIP \in SomeTargets
  /\ inForce = {}

Checking == at \in {"prefixes", "excludes"}

\* The socket is opened for the EtherType of IPv6 alone, with or without a tag.
OnSocket(f) == AsSeen(f).tag = Untagged /\ f.type = IPv6

Reject(f) ==
  /\ ~ Checking
  /\ ~ OnSocket(f) \/ (~ unfiltered /\ ~ Accepts(bpfND, AsSeen(f)))
  /\ frame' = f
  /\ at' = "rejected"
  /\ inForce' = {routerInfo}
  /\ UNCHANGED <<routerInfo, unfiltered, k, targetIP>>

\* ReadMultiSocksOnce and parseICMPv6.
ReadFrame(f) ==
  /\ OnSocket(f) /\ (unfiltered \/ Accepts(bpfND, AsSeen(f)))
  /\ at' = IF Parses(NeighborSolicitation, AsSeen(f)) THEN "prefixes" ELSE "unparsed"

KeepIndex == UNCHANGED k

FromTheFirst == k' = 1

Read(f, t) ==
  /\ ~ Checking
  /\ ReadFrame(f)
  /\ frame' = f
  /\ FromTheFirst
  /\ targetIP' = t
  /\ inForce' = {routerInfo}
  /\ UNCHANGED <<routerInfo, unfiltered>>

\* What arrived between NewSocket and ApplyBPF has been read.
Drained ==
  /\ unfiltered
  /\ unfiltered' = FALSE
  /\ UNCHANGED <<routerInfo, frame, at, k, targetIP, inForce>>

UnresolvedMatches ==
  /\ at = "prefixes"
  /\ IF k > Len(Prefixes)
     THEN at' = "dropped" /\ UNCHANGED k
     ELSE IF ResolveFIP(Prefixes[k], routerInfo) = Unknown \/ Covers(Prefixes[k], routerInfo, targetIP)
          THEN at' = "excludes" /\ k' = 1
          ELSE k' = k + 1 /\ UNCHANGED at
  /\ UNCHANGED <<routerInfo, unfiltered, frame, targetIP, inForce>>

\* A prefix that cannot be resolved yet matches nothing.
CheckPrefix ==
  /\ at = "prefixes"
  /\ IF k > Len(Prefixes)
     THEN at' = "dropped" /\ UNCHANGED k
     ELSE IF Covers(Prefixes[k], routerInfo, targetIP)
          THEN at' = "excludes" /\ k' = 1
          ELSE k' = k + 1 /\ UNCHANGED at
  /\ UNCHANGED <<routerInfo, unfiltered, frame, targetIP, inForce>>

\* An exclude that matches ends the loop over the excludes, not the solicitation.
BreakNotContinue ==
  /\ at = "excludes"
  /\ IF k > Len(Excludes) \/ Covers(Excludes[k], routerInfo, targetIP)
     THEN at' = "served" /\ UNCHANGED k
     ELSE k' = k + 1 /\ UNCHANGED at
  /\ UNCHANGED <<routerInfo, unfiltered, frame, targetIP, inForce>>

CheckExclude ==
  /\ at = "excludes"
  /\ IF k > Len(Excludes)
     THEN at' = "served" /\ UNCHANGED k
     ELSE IF Covers(Excludes[k], routerInfo, targetIP)
          THEN at' = "dropped" /\ UNCHANGED k
          ELSE k' = k + 1 /\ UNCHANGED at
  /\ UNCHANGED <<routerInfo, unfiltered, frame, targetIP, inForce>>

\* RAClient, by what it promises.
Advertised(info) ==
  /\ Source!Adopt(info)
  /\ inForce' = IF Checking THEN inForce \cup {info} ELSE inForce
  /\ UNCHANGED <<unfiltered, frame, at, k, targetIP>>

Filter ==
  \/ CheckPrefix \/ CheckExclude \/ Drained
  \/ \E f \in SomeFrames : Reject(f) \/ \E t \in SomeTargets : Read(f, t)

Next == Filter \/ \E info \in SomeInfos : Advertised(info)

Spec == Init /\ [][Next]_vars

-----------------------------------------------------------------------------
(* Properties                                                               *)

IndexOf(s) == 1 .. Len(s)

InPrefixes(info, a) == \E i \in IndexOf(Prefixes) : Covers(Prefixes[i], info, a)
InExcludes(info, a) == \E i \in IndexOf(Excludes) : Covers(Excludes[i], info, a)

\* The solicitations NDP_PREFIXES and NDP_EXCLUDE_IPS select under one router info.
Selected(info, a) == InPrefixes(info, a) /\ ~ InExcludes(info, a)

TypeOK ==
  /\ routerInfo \in SomeInfos \cup {NoInfo}
  /\ unfiltered \in BOOLEAN
  /\ frame \in SomeFrames
  /\ at \in Places
  /\ k \in Nat \ {0}
  /\ at = "prefixes" => k <= Len(Prefixes) + 1
  /\ at \in {"excludes", "served"} => k <= Len(Excludes) + 1
  /\ targetIP \in SomeTargets
  /\ inForce \subseteq SomeInfos \cup {NoInfo}

\* "ra-prefix" is the advertised prefix itself, and any other address written with it lies in
\* that prefix, or around it when its mask is shorter.
NestedInPrefix ==
  routerInfo \in Networks =>
    \A fip \in {f \in FlexibleIPs : f.raPrefix} :
      LET net == ResolveFIP(fip, routerInfo)
          Inside(m, n) == \A a \in Addresses : Contains(m, a) => Contains(n, a)
      IN  /\ fip.cidr = AsRA \/ fip.cidr >= routerInfo.len => Inside(net, routerInfo)
          /\ fip.cidr = AsRA \/ fip.cidr <= routerInfo.len => Inside(routerInfo, net)

\* As long as the router info does not change under the filter, the loops serve exactly the
\* solicitations the configuration selects.
VerdictRight ==
  \A info \in inForce :
    inForce = {info} => /\ at = "served" => Selected(info, targetIP)
                        /\ at = "dropped" => ~ Selected(info, targetIP)

\* Whatever changes meanwhile, a solicitation that is served was in a prefix at some moment of
\* its check, and each exclude had a moment at which it did not cover it; one that is dropped was
\* covered by an exclude at some moment, or each prefix had a moment at which it did not.  These
\* moments may lie under different router infos: the loops do not promise one at which all of it
\* holds.
EachCheckMeant ==
  LET Covered(fip) == \E info \in inForce : Covers(fip, info, targetIP)
      Spared(fip) == \E info \in inForce : ~ Covers(fip, info, targetIP)
  IN  /\ at = "served" => /\ \E i \in IndexOf(Prefixes) : Covered(Prefixes[i])
                          /\ \A i \in IndexOf(Excludes) : Spared(Excludes[i])
      /\ at = "dropped" => \/ \A i \in IndexOf(Prefixes) : Spared(Prefixes[i])
                           \/ \E i \in IndexOf(Excludes) : Covered(Excludes[i])

\* A program is to let through what its reader can parse, and nothing that makes it fail.  Of the
\* frames that are not cut, bpfRA and bpfICMPv6(136), in front of RAClient and solicitInternal, let
\* through exactly those, to any address (the comment in bpfICMPv6 is bpfND's, and wrong there).
\* bpfND lets through the multicast ones only, as its comment says: a solicitation sent to a
\* neighbor itself is lost.  bpfMulticast, which nothing calls, takes multicast IPv6, or the rest.
FiltersRight ==
  LET f == AsSeen(frame)
      Lets(prog, icmp) == f.len >= HeaderLen(icmp) => (Accepts(prog, f) <=> Parses(icmp, f))
  IN  /\ Lets(bpfRA, RouterAdvertisement)
      /\ Lets(bpfICMPv6(NeighborAdvertisement), NeighborAdvertisement)
      /\ f.len >= HeaderLen(NeighborSolicitation) =>
           (Accepts(bpfND, f) <=> Parses(NeighborSolicitation, f) /\ f.dst = Multicast)
      /\ \A not \in BOOLEAN :
           Accepts(bpfMulticast(not), f) <=> (not # (At(f, 0) = Multicast /\ At(f, 12) = IPv6))
=============================================================================
