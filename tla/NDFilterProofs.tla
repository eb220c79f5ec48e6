--------------------------- MODULE NDFilterProofs ---------------------------
(***************************************************************************)
(* Proofs about NDFilter, for any configuration, any frames and any        *)
(* sequence of router infos.                                               *)
(*                                                                         *)
(* Meant says what the loops know of the prefixes and excludes they are    *)
(* past.  Each of its parts rests on one router info of inForce, which     *)
(* only grows while a solicitation is checked: it survives whatever        *)
(* RAClient puts in place.                                                 *)
(***************************************************************************)
EXTENDS NDFilter, SequenceTheorems, WellFoundedInduction, TLAPS

\* Under some router info since the solicitation was read, fip covers (does not cover) its target.
Covered(fip) == \E info \in inForce : Covers(fip, info, targetIP)
Spared(fip) == \E info \in inForce : ~ Covers(fip, info, targetIP)

InSomePrefix == \E i \in IndexOf(Prefixes) : Covered(Prefixes[i])

Meant ==
  /\ at = "prefixes" => \A i \in IndexOf(Prefixes) : i < k => Spared(Prefixes[i])
  /\ at = "excludes" =>
       InSomePrefix /\ \A i \in IndexOf(Excludes) : i < k => Spared(Excludes[i])
  /\ at = "served" => InSomePrefix /\ \A i \in IndexOf(Excludes) : Spared(Excludes[i])
  /\ at = "dropped" =>
       \/ \A i \in IndexOf(Prefixes) : Spared(Prefixes[i])
       \/ \E i \in IndexOf(Excludes) : Covered(Excludes[i])

IInv == TypeOK /\ (Checking => routerInfo \in inForce) /\ Meant

LEMMA InitInv == Init => IInv
<1> SUFFICES ASSUME Init PROVE IInv
  OBVIOUS
<1>1. routerInfo = NoInfo
  BY DEF Init, Source!Init
<1> QED
  BY <1>1, NDFilterAssumption
     DEF Init, IInv, TypeOK, Checking, Meant, Places

LEMMA CheckPrefixInv == IInv /\ CheckPrefix => IInv'
<1> SUFFICES ASSUME IInv, CheckPrefix PROVE IInv'
  OBVIOUS
<1> USE NDFilterAssumption
<1>0. /\ at = "prefixes" /\ k \in Nat \ {0} /\ k <= Len(Prefixes) + 1
      /\ Len(Prefixes) \in Nat /\ Len(Excludes) \in Nat
      /\ routerInfo \in inForce
      /\ UNCHANGED <<routerInfo, unfiltered, frame, targetIP, inForce>>
  BY DEF CheckPrefix, IInv, TypeOK, Checking
<1>1. \A i \in IndexOf(Prefixes) : i < k => Spared(Prefixes[i])
  BY <1>0 DEF IInv, Meant
<1>2. CASE k > Len(Prefixes) /\ at' = "dropped" /\ UNCHANGED k
  <2>1. \A i \in IndexOf(Prefixes) : Spared(Prefixes[i])
    BY <1>0, <1>1, <1>2 DEF IndexOf
  <2>2. Meant'
    BY <1>0, <1>2, <2>1 DEF Meant, Spared
  <2> QED
    BY <1>0, <1>1, <1>2, <2>2 DEF IInv, TypeOK, Checking, Places
<1>3. CASE /\ k <= Len(Prefixes) /\ Covers(Prefixes[k], routerInfo, targetIP)
           /\ at' = "excludes" /\ k' = 1
  <2>1. InSomePrefix
    BY <1>0, <1>3 DEF InSomePrefix, Covered, IndexOf
  <2>2. Meant'
    BY <1>0, <1>3, <2>1 DEF Meant, InSomePrefix, Covered, IndexOf
  <2> QED
    BY <1>0, <1>1, <1>3, <2>2 DEF IInv, TypeOK, Checking, Places
<1>4. CASE /\ k <= Len(Prefixes) /\ ~ Covers(Prefixes[k], routerInfo, targetIP)
           /\ k' = k + 1 /\ UNCHANGED at
  <2>1. \A i \in IndexOf(Prefixes) : i < k' => Spared(Prefixes[i])
    BY <1>0, <1>1, <1>4 DEF Spared, IndexOf
  <2>2. Meant'
    BY <1>0, <1>4, <2>1 DEF Meant, Spared
  <2> QED
    BY <1>0, <1>1, <1>4, <2>2 DEF IInv, TypeOK, Checking, Places
<1> QED
  BY <1>0, <1>2, <1>3, <1>4 DEF CheckPrefix

LEMMA CheckExcludeInv == IInv /\ CheckExclude => IInv'
<1> SUFFICES ASSUME IInv, CheckExclude PROVE IInv'
  OBVIOUS
<1> USE NDFilterAssumption
<1>0. /\ at = "excludes" /\ k \in Nat \ {0} /\ k <= Len(Excludes) + 1
      /\ Len(Prefixes) \in Nat /\ Len(Excludes) \in Nat
      /\ routerInfo \in inForce
      /\ UNCHANGED <<routerInfo, unfiltered, frame, targetIP, inForce>>
  BY DEF CheckExclude, IInv, TypeOK, Checking
<1>1. InSomePrefix /\ \A i \in IndexOf(Excludes) : i < k => Spared(Excludes[i])
  BY <1>0 DEF IInv, Meant
<1>2. InSomePrefix'
  BY <1>0, <1>1 DEF InSomePrefix, Covered
<1>3. CASE k > Len(Excludes) /\ at' = "served" /\ UNCHANGED k
  <2>1. \A i \in IndexOf(Excludes) : Spared(Excludes[i])
    BY <1>0, <1>1, <1>3 DEF IndexOf
  <2>2. Meant'
    BY <1>0, <1>2, <1>3, <2>1 DEF Meant, Spared
  <2> QED
    BY <1>0, <1>1, <1>3, <2>2 DEF IInv, TypeOK, Checking, Places
<1>4. CASE /\ k <= Len(Excludes) /\ Covers(Excludes[k], routerInfo, targetIP)
           /\ at' = "dropped" /\ UNCHANGED k
  <2>1. \E i \in IndexOf(Excludes) : Covered(Excludes[i])
    BY <1>0, <1>4 DEF Covered, IndexOf
  <2>2. Meant'
    BY <1>0, <1>4, <2>1 DEF Meant, Covered
  <2> QED
    BY <1>0, <1>1, <1>4, <2>2 DEF IInv, TypeOK, Checking, Places
<1>5. CASE /\ k <= Len(Excludes) /\ ~ Covers(Excludes[k], routerInfo, targetIP)
           /\ k' = k + 1 /\ UNCHANGED at
  <2>1. \A i \in IndexOf(Excludes) : i < k' => Spared(Excludes[i])
    BY <1>0, <1>1, <1>5 DEF Spared, IndexOf
  <2>2. Meant'
    BY <1>0, <1>2, <1>5, <2>1 DEF Meant, Spared
  <2> QED
    BY <1>0, <1>1, <1>5, <2>2 DEF IInv, TypeOK, Checking, Places
<1> QED
  BY <1>0, <1>3, <1>4, <1>5 DEF CheckExclude

\* Another router info only adds to what the loops know.
LEMMA AdvertisedInv ==
  ASSUME IInv, NEW info \in SomeInfos, Advertised(info)
  PROVE  IInv'
<1>1. /\ routerInfo' \in SomeInfos /\ UNCHANGED <<unfiltered, frame, at, k, targetIP>>
      /\ inForce' = IF Checking THEN inForce \cup {routerInfo'} ELSE inForce
  BY DEF Advertised, Source!Adopt
<1>2. inForce \subseteq inForce'
  BY <1>1
<1>3. Meant'
  BY <1>1, <1>2 DEF IInv, Meant, InSomePrefix, Covered, Spared
<1>4. TypeOK'
  BY <1>1 DEF IInv, TypeOK
<1>5. (Checking => routerInfo \in inForce)'
  BY <1>1 DEF IInv, Checking
<1> QED
  BY <1>3, <1>4, <1>5 DEF IInv

LEMMA NextInv == IInv /\ [Next]_vars => IInv'
<1> SUFFICES ASSUME IInv, [Next]_vars PROVE IInv'
  OBVIOUS
<1> USE NDFilterAssumption
<1>1. CASE Drained \/ UNCHANGED vars
  BY <1>1 DEF Drained, vars, IInv, TypeOK, Checking, Meant, InSomePrefix,
              Covered, Spared
<1>2. ASSUME NEW f \in SomeFrames, Reject(f) PROVE IInv'
  BY <1>2 DEF Reject, IInv, TypeOK, Checking, Meant, Places
<1>3. ASSUME NEW f \in SomeFrames, NEW t \in SomeTargets, Read(f, t) PROVE IInv'
  <2>1. /\ frame' = f /\ k' = 1 /\ targetIP' = t /\ inForce' = {routerInfo}
        /\ UNCHANGED <<routerInfo, unfiltered>>
        /\ at' = IF Parses(NeighborSolicitation, AsSeen(f)) THEN "prefixes" ELSE "unparsed"
    BY <1>3 DEF Read, ReadFrame, FromTheFirst
  <2>2. TypeOK'
    BY <2>1 DEF IInv, TypeOK, Places
  <2>3. (Checking => routerInfo \in inForce)'
    BY <2>1 DEF Checking
  <2>4. Meant'
    BY <2>1 DEF Meant, IndexOf
  <2> QED
    BY <2>2, <2>3, <2>4 DEF IInv
<1> QED
  BY <1>1, <1>2, <1>3, CheckPrefixInv, CheckExcludeInv, AdvertisedInv DEF Next, Filter

\* An address written with "ra-prefix" agrees with the prefix wherever both masks reach.
LEMMA Assigned ==
  ASSUME NEW info \in Networks, NEW fip \in FlexibleIPs, fip.raPrefix
  PROVE  LET net == ResolveFIP(fip, info) IN
         /\ net.len = IF fip.cidr = AsRA THEN info.len ELSE fip.cidr
         /\ net.len \in Nat /\ info.len \in Nat
         /\ \A b \in 1 .. Width : b <= info.len => net.ip[b] = info.ip[b]
         /\ info.len <= Width /\ net.len <= Width
<1> USE FlexIPAssumption
<1>1. info.len \in 0 .. Width /\ info # NoInfo /\ info # NoPrefix
  BY DEF Networks
<1>2. fip.cidr \in 0 .. Width \cup {AsRA}
  BY DEF FlexibleIPs
<1>3. ResolveFIP(fip, info) = [ip |-> maskedIPAssign(fip.ip, info), len |-> MaskLength(fip, info)]
  BY <1>1 DEF ResolveFIP
<1>4. MaskLength(fip, info) = IF fip.cidr = AsRA THEN info.len ELSE fip.cidr
  BY <1>1 DEF MaskLength
<1>5. \A b \in 1 .. Width : b <= info.len => maskedIPAssign(fip.ip, info)[b] = info.ip[b]
  BY <1>1 DEF maskedIPAssign
<1> QED
  BY <1>1, <1>2, <1>3, <1>4, <1>5

LEMMA Invariant == Spec => []IInv
BY InitInv, NextInv, PTL DEF Spec

\* The loops stay within the configured lists.
THEOREM TypeCorrect == Spec => []TypeOK
BY Invariant, PTL DEF IInv

\* Under one router info the loops serve what the configuration selects, whatever it is.
THEOREM RightVerdict == Spec => []VerdictRight
<1>1. IInv => VerdictRight
  BY DEF IInv, Meant, InSomePrefix, Covered, Spared, VerdictRight, Selected, InPrefixes, InExcludes
<1> QED
  BY <1>1, Invariant, PTL

\* Under any sequence of router infos, each check that a verdict rests on held at some moment.
THEOREM MeantChecks == Spec => []EachCheckMeant
<1>1. IInv => EachCheckMeant
  BY DEF IInv, Meant, InSomePrefix, Covered, Spared, EachCheckMeant
<1> QED
  BY <1>1, Invariant, PTL

\* An address written without "ra-prefix" means the same under every router info.
LEMMA Literal ==
  ASSUME NEW fip \in FlexibleIPs, ~ fip.raPrefix, NEW info, NEW a
  PROVE  Covers(fip, info, a) <=> Contains([ip |-> fip.ip, len |-> fip.cidr], a)
<1>1. fip.cidr \in 0 .. Width /\ fip.cidr # AsRA
  BY FlexIPAssumption DEF FlexibleIPs
<1>2. ResolveFIP(fip, info) = [ip |-> fip.ip, len |-> fip.cidr]
  BY <1>1 DEF ResolveFIP, MaskLength
<1>3. [ip |-> fip.ip, len |-> fip.cidr] \in Networks
  BY <1>1 DEF FlexibleIPs, Networks
<1> QED
  BY <1>2, <1>3, FlexIPAssumption DEF Covers

\* A configuration without "ra-prefix" does not depend on the router: exactly the solicitations it
\* selects are served, whatever is advertised meanwhile.
THEOREM LiteralVerdict ==
  ASSUME \A i \in IndexOf(Prefixes) : ~ Prefixes[i].raPrefix,
         \A i \in IndexOf(Excludes) : ~ Excludes[i].raPrefix
  PROVE  Spec => [](/\ at = "served" => Selected(NoInfo, targetIP)
                    /\ at = "dropped" => ~ Selected(NoInfo, targetIP))
<1>1. /\ \A i \in IndexOf(Prefixes) : Prefixes[i] \in FlexibleIPs
      /\ \A i \in IndexOf(Excludes) : Excludes[i] \in FlexibleIPs
  BY NDFilterAssumption DEF IndexOf
<1>2. ASSUME NEW fip \in FlexibleIPs, ~ fip.raPrefix
      PROVE  /\ Covered(fip) => Covers(fip, NoInfo, targetIP)
             /\ Spared(fip) => ~ Covers(fip, NoInfo, targetIP)
  BY <1>2, Literal DEF Covered, Spared
<1>3. IInv => (/\ at = "served" => Selected(NoInfo, targetIP)
               /\ at = "dropped" => ~ Selected(NoInfo, targetIP))
  BY <1>1, <1>2 DEF IInv, Meant, InSomePrefix, Selected, InPrefixes, InExcludes
<1> QED
  BY <1>3, Invariant, PTL

\* Whatever a router advertises, an address written with "ra-prefix" stays in its prefix, or
\* around it under a shorter mask.
THEOREM Nested == Spec => []NestedInPrefix
<1>1. NestedInPrefix
  <2> SUFFICES ASSUME routerInfo \in Networks, NEW fip \in FlexibleIPs, fip.raPrefix
               PROVE  LET net == ResolveFIP(fip, routerInfo)
                          Inside(m, n) == \A a \in Addresses : Contains(m, a) => Contains(n, a)
                      IN  /\ fip.cidr = AsRA \/ fip.cidr >= routerInfo.len => Inside(net, routerInfo)
                          /\ fip.cidr = AsRA \/ fip.cidr <= routerInfo.len => Inside(routerInfo, net)
    BY DEF NestedInPrefix
  <2> DEFINE net == ResolveFIP(fip, routerInfo)
  <2>1. /\ net.len = IF fip.cidr = AsRA THEN routerInfo.len ELSE fip.cidr
        /\ net.len \in Nat /\ routerInfo.len \in Nat
        /\ \A b \in 1 .. Width : b <= routerInfo.len => net.ip[b] = routerInfo.ip[b]
        /\ routerInfo.len <= Width /\ net.len <= Width
    BY Assigned
  <2> HIDE DEF net
  <2>2. ASSUME NEW a \in Addresses, Contains(net, a), routerInfo.len <= net.len
        PROVE  Contains(routerInfo, a)
    BY <2>1, <2>2, FlexIPAssumption DEF Contains
  <2>3. ASSUME NEW a \in Addresses, Contains(routerInfo, a), net.len <= routerInfo.len
        PROVE  Contains(net, a)
    BY <2>1, <2>3, FlexIPAssumption DEF Contains
  <2>4. fip.cidr = AsRA \/ fip.cidr >= routerInfo.len => routerInfo.len <= net.len
    BY <2>1
  <2>5. fip.cidr = AsRA \/ fip.cidr <= routerInfo.len => net.len <= routerInfo.len
    BY <2>1
  <2> QED
    BY <2>2, <2>3, <2>4, <2>5 DEF net
<1> QED
  BY <1>1, PTL

-----------------------------------------------------------------------------
(* The filter machine                                                       *)
(*                                                                          *)
(* Run is a recursive function: that it is what its definition says has to  *)
(* be proved, by induction from the end of the program, jumps going forward *)
(* only.  Induction is by way of the least counterexample.                  *)

LEMMA Least ==
  ASSUME NEW T \in SUBSET Nat, T # {}
  PROVE  \E m \in T : \A n \in T : m <= n
<1>1. IsWellFoundedOn(OpToRel(<, Nat), Nat)
  BY NatLessThanWellFounded
<1>2. PICK m \in T : \A n \in T : ~ (<<n, m>> \in OpToRel(<, Nat))
  BY <1>1, WFMin
<1>3. \A n \in T : <<n, m>> \in OpToRel(<, Nat) <=> n < m
  BY DEF OpToRel
<1>4. \A n \in T : ~ (n < m)
  BY <1>2, <1>3, Zenon
<1> QED
  BY <1>4

LEMMA Induction ==
  ASSUME NEW S \in SUBSET Nat, 0 \in S, \A n \in S : n + 1 \in S
  PROVE  S = Nat
<1> SUFFICES ASSUME Nat \ S # {} PROVE FALSE
  OBVIOUS
<1>1. PICK m \in Nat \ S : \A n \in Nat \ S : m <= n
  BY Least
<1>2. m # 0 /\ m - 1 \in Nat /\ m - 1 \notin Nat \ S
  BY <1>1
<1> QED
  BY <1>2

\* Programs that end with a verdict: no jump, and no other instruction, leads past the end.
Programs ==
  {prog \in Seq(Insns) :
     /\ prog # <<>>
     /\ \A pc \in 1 .. Len(prog) :
          prog[pc].op # "ret" => \A acc \in Nat : pc + 1 + Skips(prog[pc], acc) <= Len(prog)}

LEMMA AtType == ASSUME NEW pkt \in Contents, NEW off \in Nat PROVE At(pkt, off) \in Nat
<1>1. pkt.tag \in Nat
  BY DEF Contents, Tags, Untagged, Dot1Q, QinQ, OldQinQ
<1> QED
  BY <1>1 DEF At, Contents

LEMMA StepType ==
  ASSUME NEW insn \in Insns, NEW pkt \in Contents, NEW acc \in Nat
  PROVE  /\ Skips(insn, acc) \in Nat /\ NextAcc(insn, acc, pkt) \in Nat
         /\ Reaches(insn, pkt) \in BOOLEAN /\ (insn.op = "ret" => (insn.val > 0) \in BOOLEAN)
<1>1. CASE insn \in [op : {"load"}, off : Nat, size : Nat]
  BY <1>1, AtType DEF Skips, NextAcc, Reaches
<1>2. CASE insn \in [op : {"jump"}, val : Nat, skipTrue : Nat, skipFalse : Nat]
  BY <1>2 DEF Skips, NextAcc, Reaches
<1>3. CASE insn \in [op : {"and"}, mask : Nat]
  <2>1. acc % (insn.mask + 1) \in Nat
    BY <1>3
  <2> QED
    BY <1>3, <2>1 DEF Skips, NextAcc, Reaches
<1>4. CASE insn \in [op : {"ret"}, val : Nat]
  BY <1>4 DEF Skips, NextAcc, Reaches
<1> QED
  BY <1>1, <1>2, <1>3, <1>4 DEF Insns

\* A verdict depends only on those further on.
LEMMA VerdictLooksAhead ==
  ASSUME NEW prog \in Programs, NEW pkt \in Contents,
         NEW pc \in 1 .. Len(prog), NEW acc \in Nat,
         NEW f \in [1 .. Len(prog) -> [Nat -> BOOLEAN]],
         NEW g \in [1 .. Len(prog) -> [Nat -> BOOLEAN]],
         \A q \in 1 .. Len(prog) : q > pc => f[q] = g[q]
  PROVE  /\ Verdict(prog, pkt, pc, acc, f) \in BOOLEAN
         /\ Verdict(prog, pkt, pc, acc, f) = Verdict(prog, pkt, pc, acc, g)
<1>0. prog \in Seq(Insns) /\ Len(prog) \in Nat /\ prog[pc] \in Insns
  BY DEF Programs
<1>1. /\ Skips(prog[pc], acc) \in Nat /\ NextAcc(prog[pc], acc, pkt) \in Nat
      /\ prog[pc].op = "ret" => (prog[pc].val > 0) \in BOOLEAN
      /\ Reaches(prog[pc], pkt) \in BOOLEAN
  BY <1>0, StepType
<1>2. CASE prog[pc].op = "ret"
  BY <1>1, <1>2 DEF Verdict
<1>3. CASE prog[pc].op # "ret"
  <2> DEFINE q == pc + 1 + Skips(prog[pc], acc)
             a == NextAcc(prog[pc], acc, pkt)
  <2>1. q \in 1 .. Len(prog) /\ q > pc /\ a \in Nat
    BY <1>0, <1>1, <1>3 DEF Programs
  <2>2. f[q][a] = g[q][a] /\ f[q][a] \in BOOLEAN
    BY <2>1
  <2>3. /\ Verdict(prog, pkt, pc, acc, f) = (Reaches(prog[pc], pkt) /\ f[q][a])
        /\ Verdict(prog, pkt, pc, acc, g) = (Reaches(prog[pc], pkt) /\ g[q][a])
    BY <1>3 DEF Verdict
  <2> HIDE DEF q, a
  <2> QED
    BY <2>2, <2>3, <1>1
<1> QED
  BY <1>2, <1>3

LEMMA RunExists ==
  ASSUME NEW prog \in Programs, NEW pkt \in Contents
  PROVE  \E run \in [1 .. Len(prog) -> [Nat -> BOOLEAN]] :
           \A pc \in 1 .. Len(prog), acc \in Nat : run[pc][acc] = Verdict(prog, pkt, pc, acc, run)
<1> DEFINE n == Len(prog)
           Runs == [1 .. n -> [Nat -> BOOLEAN]]
           Right(m, f) == \A pc \in 1 .. n : pc + m > n =>
                            \A acc \in Nat : f[pc][acc] = Verdict(prog, pkt, pc, acc, f)
           Sizes == {m \in Nat : \E f \in Runs : Right(m, f)}
<1>0. n \in Nat
  BY DEF Programs
<1>1. 0 \in Sizes
  <2>1. [pc \in 1 .. n |-> [acc \in Nat |-> FALSE]] \in Runs
    OBVIOUS
  <2>2. \A f \in Runs : Right(0, f)
    BY <1>0
  <2> QED
    BY <2>1, <2>2
<1>2. ASSUME NEW m \in Sizes PROVE m + 1 \in Sizes
  <2>1. m \in Nat
    OBVIOUS
  <2>2. PICK f \in Runs : Right(m, f)
    OBVIOUS
  <2> DEFINE p == n - m
             g == [f EXCEPT ![p] = [acc \in Nat |-> Verdict(prog, pkt, p, acc, f)]]
  <2>3. CASE p < 1
    <3>1. Right(m + 1, f)
      BY <1>0, <2>1, <2>2, <2>3
    <3> QED
      BY <2>1, <3>1
  <2>4. CASE p >= 1
    <3>1. p \in 1 .. n
      BY <1>0, <2>1, <2>4
    <3>2. \A acc \in Nat : Verdict(prog, pkt, p, acc, f) \in BOOLEAN
      BY <3>1, VerdictLooksAhead
    <3>3. g \in Runs
      BY <3>2
    <3>4. \A q \in 1 .. n : q # p => g[q] = f[q]
      OBVIOUS
    <3>5. \A acc \in Nat : g[p][acc] = Verdict(prog, pkt, p, acc, f)
      BY <3>1
    <3> HIDE DEF g
    <3>6. ASSUME NEW pc \in 1 .. n, pc + (m + 1) > n, NEW acc \in Nat
          PROVE  g[pc][acc] = Verdict(prog, pkt, pc, acc, g)
      <4>0. /\ pc \in 1 .. n /\ pc >= p /\ p \in Int
            /\ \A q \in 1 .. n : q > pc => f[q] = g[q]
        BY <1>0, <2>1, <3>4, <3>6
      <4>1. Verdict(prog, pkt, pc, acc, f) = Verdict(prog, pkt, pc, acc, g)
        BY <4>0, <3>3, VerdictLooksAhead
      <4>2. CASE pc = p
        BY <4>1, <4>2, <3>5
      <4>3. CASE pc # p
        <5>1. pc + m > n
          BY <1>0, <2>1, <4>0, <4>3
        <5>2. f[pc][acc] = Verdict(prog, pkt, pc, acc, f)
          BY <5>1, <2>2
        <5> QED
          BY <4>1, <5>2, <4>3, <3>4
      <4> QED
        BY <4>2, <4>3
    <3>7. Right(m + 1, g)
      BY <3>6
    <3> QED
      BY <2>1, <3>3, <3>7
  <2> QED
    BY <1>0, <2>1, <2>3, <2>4
<1>3. n \in Sizes
  <2> HIDE DEF Sizes
  <2>1. Sizes \in SUBSET Nat
    BY DEF Sizes
  <2>2. Sizes = Nat
    BY <1>1, <1>2, <2>1, Induction
  <2> QED
    BY <1>0, <2>2
<1>4. PICK f \in Runs : Right(n, f)
  BY <1>3
<1>5. \A pc \in 1 .. n : pc + n > n
  BY <1>0
<1>6. \A pc \in 1 .. n, acc \in Nat : f[pc][acc] = Verdict(prog, pkt, pc, acc, f)
  BY <1>4, <1>5
<1> QED
  BY <1>6

LEMMA RunEquation ==
  ASSUME NEW prog \in Programs, NEW pkt \in Contents
  PROVE  /\ Run(prog, pkt) \in [1 .. Len(prog) -> [Nat -> BOOLEAN]]
         /\ \A pc \in 1 .. Len(prog), acc \in Nat :
              Run(prog, pkt)[pc][acc] = Verdict(prog, pkt, pc, acc, Run(prog, pkt))
<1> DEFINE Equation(run) ==
      run = [pc \in 1 .. Len(prog) |-> [acc \in Nat |-> Verdict(prog, pkt, pc, acc, run)]]
<1>1. Run(prog, pkt) = CHOOSE run : Equation(run)
  BY DEF Run
<1>2. \E run : Equation(run)
  <2>1. PICK f \in [1 .. Len(prog) -> [Nat -> BOOLEAN]] :
          \A pc \in 1 .. Len(prog), acc \in Nat : f[pc][acc] = Verdict(prog, pkt, pc, acc, f)
    BY RunExists
  <2>2. \A pc \in 1 .. Len(prog) : f[pc] = [acc \in Nat |-> Verdict(prog, pkt, pc, acc, f)]
    BY <2>1
  <2>3. Equation(f)
    BY <2>2
  <2> QED
    BY <2>3
<1> HIDE DEF Equation
<1>3. Equation(Run(prog, pkt))
  BY <1>1, <1>2
<1> DEFINE run == Run(prog, pkt)
           V(pc, acc) == Verdict(prog, pkt, pc, acc, run)
<1>4. run = [pc \in 1 .. Len(prog) |-> [acc \in Nat |-> V(pc, acc)]]
  BY <1>3 DEF Equation
<1>5. \A pc \in 1 .. Len(prog), acc \in Nat : V(pc, acc) \in BOOLEAN
  <2> SUFFICES ASSUME NEW pc \in 1 .. Len(prog), NEW acc \in Nat PROVE V(pc, acc) \in BOOLEAN
    OBVIOUS
  <2>1. prog[pc] \in Insns
    BY DEF Programs
  <2>2. prog[pc].op = "ret" => (prog[pc].val > 0) \in BOOLEAN
    BY <2>1, StepType
  <2> QED
    BY <2>2 DEF Verdict
<1> HIDE DEF V, run
<1>6. DOMAIN run = 1 .. Len(prog)
  BY <1>4
<1>7. \A pc \in 1 .. Len(prog) : run[pc] = [acc \in Nat |-> V(pc, acc)]
  BY <1>4
<1>8. \A pc \in 1 .. Len(prog) : run[pc] \in [Nat -> BOOLEAN]
  BY <1>5, <1>7
<1>9. run \in [1 .. Len(prog) -> [Nat -> BOOLEAN]]
  BY <1>4, <1>8
<1>10. \A pc \in 1 .. Len(prog), acc \in Nat : run[pc][acc] = V(pc, acc)
  BY <1>7
<1> QED
  BY <1>9, <1>10 DEF V, run

\* On the frame outer, the instructions of whole from offset d on do what prog does on inner.
Mirrors(whole, outer, d, prog, inner) ==
  \A pc \in 1 .. Len(prog) :
    /\ whole[pc + d].op = prog[pc].op
    /\ prog[pc].op = "ret" => whole[pc + d].val = prog[pc].val
    /\ Reaches(whole[pc + d], outer) <=> Reaches(prog[pc], inner)
    /\ \A acc \in Nat : /\ Skips(whole[pc + d], acc) = Skips(prog[pc], acc)
                        /\ NextAcc(whole[pc + d], acc, outer) = NextAcc(prog[pc], acc, inner)

LEMMA Embedded ==
  ASSUME NEW prog \in Programs, NEW whole \in Programs, NEW d \in Nat,
         Len(whole) = Len(prog) + d,
         NEW inner \in Contents, NEW outer \in Contents,
         Mirrors(whole, outer, d, prog, inner)
  PROVE  \A pc \in 1 .. Len(prog), acc \in Nat :
           Run(whole, outer)[pc + d][acc] = Run(prog, inner)[pc][acc]
<1> DEFINE n == Len(prog)
           f == Run(prog, inner)
           g == Run(whole, outer)
           Same(m) == \A pc \in 1 .. n : pc + m > n => \A acc \in Nat : g[pc + d][acc] = f[pc][acc]
           Sizes == {m \in Nat : Same(m)}
<1>0. n \in Nat /\ prog \in Seq(Insns)
  BY DEF Programs
<1> USE DEF Mirrors
<1>1. 0 \in Sizes
  BY <1>0
<1>2. ASSUME NEW m \in Sizes PROVE m + 1 \in Sizes
  <2>1. m \in Nat /\ Same(m)
    OBVIOUS
  <2>2. ASSUME NEW pc \in 1 .. n, pc + (m + 1) > n, NEW acc \in Nat
        PROVE  g[pc + d][acc] = f[pc][acc]
    <3> DEFINE q == pc + 1 + Skips(prog[pc], acc)
               a == NextAcc(prog[pc], acc, inner)
    <3>1. prog[pc] \in Insns /\ pc + d \in 1 .. Len(whole)
      BY <1>0
    <3>2. Skips(prog[pc], acc) \in Nat /\ a \in Nat
      BY <3>1, StepType
    <3>3. f[pc][acc] = Verdict(prog, inner, pc, acc, f)
      BY RunEquation
    <3>4. g[pc + d][acc] = Verdict(whole, outer, pc + d, acc, g)
      BY <3>1, RunEquation
    <3>5. CASE prog[pc].op = "ret"
      BY <3>3, <3>4, <3>5 DEF Verdict
    <3>6. CASE prog[pc].op # "ret"
      <4>1. q \in 1 .. n /\ q + m > n
        <5>1. q <= n
          BY <3>6 DEF Programs
        <5> QED
          BY <1>0, <2>1, <2>2, <3>2, <5>1
      <4>2. g[q + d][a] = f[q][a]
        BY <2>1, <3>2, <4>1
      <4>3. pc + d + 1 + Skips(whole[pc + d], acc) = q + d
        BY <1>0, <3>2
      <4>4. NextAcc(whole[pc + d], acc, outer) = a
        OBVIOUS
      <4>5. f[pc][acc] = (Reaches(prog[pc], inner) /\ f[q][a])
        BY <3>3, <3>6 DEF Verdict
      <4>6. g[pc + d][acc] = (Reaches(whole[pc + d], outer) /\ g[q + d][a])
        BY <3>4, <3>6, <4>3, <4>4 DEF Verdict
      <4>7. Reaches(whole[pc + d], outer) <=> Reaches(prog[pc], inner)
        OBVIOUS
      <4> QED
        BY <4>2, <4>5, <4>6, <4>7
    <3> QED
      BY <3>5, <3>6
  <2> QED
    BY <2>1, <2>2
<1>3. n \in Sizes
  <2> HIDE DEF Sizes
  <2>1. Sizes \in SUBSET Nat
    BY DEF Sizes
  <2>2. Sizes = Nat
    BY <1>1, <1>2, <2>1, Induction
  <2> QED
    BY <1>0, <2>2
<1>4. Same(n)
  BY <1>3
<1>5. \A pc \in 1 .. n : pc + n > n
  BY <1>0
<1> QED
  BY <1>4, <1>5
-----------------------------------------------------------------------------
(* The filter programs                                                      *)

LEMMA InsnTypes ==
  /\ \A off, size \in Nat : LoadAbsolute(off, size) \in Insns
  /\ \A val, skipTrue, skipFalse \in Nat : JumpIf(val, skipTrue, skipFalse) \in Insns
  /\ \A mask \in Nat : And(mask) \in Insns
  /\ \A val \in Nat : Ret(val) \in Insns
BY DEF LoadAbsolute, JumpIf, And, Ret, Insns

\* The verdict at pc is what the instruction there makes of those further on.
Follows(prog, pkt, run, pc) ==
  \A acc \in Nat : run[pc][acc] <=> Verdict(prog, pkt, pc, acc, run)

LEMMA RunFollows ==
  ASSUME NEW prog \in Programs, NEW f \in Contents, NEW pc \in 1 .. Len(prog)
  PROVE  Follows(prog, f, Run(prog, f), pc)
BY RunEquation DEF Follows

LEMMA ICMPv6Program ==
  ASSUME NEW id \in Nat
  PROVE  bpfICMPv6(id) \in Programs
<1> DEFINE prog == bpfICMPv6(id)
<1>1. prog \in Seq(Insns) /\ prog # <<>> /\ Len(prog) = 8
  BY InsnTypes DEF bpfICMPv6, IPv6, ICMPv6, Snap
<1>2. \A pc \in 1 .. 8, acc \in Nat :
        prog[pc].op # "ret" => pc + 1 + Skips(prog[pc], acc) <= 8
  BY DEF bpfICMPv6, Skips, LoadAbsolute, JumpIf, Ret
<1> QED
  BY <1>1, <1>2 DEF Programs

LEMMA ICMPv6Accepts ==
  ASSUME NEW id \in Nat, NEW f \in Contents
  PROVE  Accepts(bpfICMPv6(id), f) <=>
           f.len >= 55 /\ At(f, 12) = IPv6 /\ At(f, 20) = ICMPv6 /\ At(f, 54) = id
<1> DEFINE prog == bpfICMPv6(id)
           run == Run(prog, f)
           V(pc) == Follows(prog, f, run, pc)
<1>1. prog \in Programs /\ Len(prog) = 8
  BY ICMPv6Program DEF bpfICMPv6
<1>2. /\ prog[1] = LoadAbsolute(12, 2) /\ prog[2] = JumpIf(IPv6, 0, 5)
      /\ prog[3] = LoadAbsolute(20, 1) /\ prog[4] = JumpIf(ICMPv6, 0, 3)
      /\ prog[5] = LoadAbsolute(54, 1) /\ prog[6] = JumpIf(id, 0, 1)
      /\ prog[7] = Ret(Snap) /\ prog[8] = Ret(0)
  BY DEF bpfICMPv6
<1>3. At(f, 12) \in Nat /\ At(f, 20) \in Nat /\ At(f, 54) \in Nat /\ f.len \in Nat
  BY AtType DEF Contents
<1> HIDE DEF prog
<1>4. V(1) /\ V(2) /\ V(3) /\ V(4) /\ V(5) /\ V(6) /\ V(7) /\ V(8)
  <2>1. \A pc \in 1 .. 8 : V(pc)
    BY <1>1, RunFollows
  <2> HIDE DEF V
  <2> QED
    BY <2>1
<1> HIDE DEF run
<1>5. run[1][0] <=> f.len >= 55 /\ At(f, 12) = IPv6 /\ At(f, 20) = ICMPv6 /\ At(f, 54) = id
  BY <1>2, <1>3, <1>4
     DEF Follows, Verdict, Reaches, NextAcc, Skips, LoadAbsolute, JumpIf, Ret, Snap, IPv6, ICMPv6
<1> QED
  BY <1>5 DEF run, prog, Accepts

LEMMA NDProgram == bpfND \in Programs
<1>1. bpfND \in Seq(Insns) /\ bpfND # <<>> /\ Len(bpfND) = 10
  BY InsnTypes DEF bpfND, Multicast, IPv6, ICMPv6, NeighborSolicitation, Snap
<1>2. \A pc \in 1 .. 10, acc \in Nat :
        bpfND[pc].op # "ret" => pc + 1 + Skips(bpfND[pc], acc) <= 10
  BY DEF bpfND, Skips, LoadAbsolute, JumpIf, Ret
<1> QED
  BY <1>1, <1>2 DEF Programs

LEMMA NDAccepts ==
  ASSUME NEW f \in Contents
  PROVE  Accepts(bpfND, f) <=>
           /\ f.len >= 55 /\ At(f, 0) = Multicast
           /\ At(f, 12) = IPv6 /\ At(f, 20) = ICMPv6 /\ At(f, 54) = NeighborSolicitation
<1> DEFINE run == Run(bpfND, f)
           V(pc) == Follows(bpfND, f, run, pc)
<1>1. bpfND \in Programs /\ Len(bpfND) = 10
  BY NDProgram DEF bpfND
<1>2. /\ bpfND[1] = LoadAbsolute(0, 2) /\ bpfND[2] = JumpIf(Multicast, 0, 7)
      /\ bpfND[3] = LoadAbsolute(12, 2) /\ bpfND[4] = JumpIf(IPv6, 0, 5)
      /\ bpfND[5] = LoadAbsolute(20, 1) /\ bpfND[6] = JumpIf(ICMPv6, 0, 3)
      /\ bpfND[7] = LoadAbsolute(54, 1) /\ bpfND[8] = JumpIf(NeighborSolicitation, 0, 1)
      /\ bpfND[9] = Ret(Snap) /\ bpfND[10] = Ret(0)
  BY DEF bpfND
<1>3. /\ At(f, 0) \in Nat /\ At(f, 12) \in Nat /\ At(f, 20) \in Nat /\ At(f, 54) \in Nat
      /\ f.len \in Nat
  BY AtType DEF Contents
<1>4. V(1) /\ V(2) /\ V(3) /\ V(4) /\ V(5) /\ V(6) /\ V(7) /\ V(8) /\ V(9) /\ V(10)
  <2>1. \A pc \in 1 .. 10 : V(pc)
    BY <1>1, RunFollows
  <2> HIDE DEF V
  <2> QED
    BY <2>1
<1> HIDE DEF run
<1>5. run[1][0] <=> /\ f.len >= 55 /\ At(f, 0) = Multicast
                    /\ At(f, 12) = IPv6 /\ At(f, 20) = ICMPv6 /\ At(f, 54) = NeighborSolicitation
  BY <1>2, <1>3, <1>4
     DEF Follows, Verdict, Reaches, NextAcc, Skips, LoadAbsolute, JumpIf, Ret, Snap,
         Multicast, IPv6, ICMPv6, NeighborSolicitation
<1> QED
  BY <1>5 DEF run, Accepts

LEMMA MulticastAccepts ==
  ASSUME NEW not \in BOOLEAN, NEW f \in Contents, f.len >= 14
  PROVE  Accepts(bpfMulticast(not), f) <=> (not # (At(f, 0) = Multicast /\ At(f, 12) = IPv6))
<1> DEFINE prog == bpfMulticast(not)
           run == Run(prog, f)
           V(pc) == Follows(prog, f, run, pc)
           yes == IF not THEN 0 ELSE Snap
           no == IF not THEN Snap ELSE 0
<1>1. /\ prog[1] = LoadAbsolute(0, 2) /\ prog[2] = JumpIf(Multicast, 0, 3)
      /\ prog[3] = LoadAbsolute(12, 2) /\ prog[4] = JumpIf(IPv6, 0, 1)
      /\ prog[5] = Ret(yes) /\ prog[6] = Ret(no)
      /\ yes \in Nat /\ no \in Nat
  BY DEF bpfMulticast, Snap
<1>2. prog \in Programs /\ Len(prog) = 6
  <2>1. prog \in Seq(Insns) /\ prog # <<>> /\ Len(prog) = 6
    BY InsnTypes DEF bpfMulticast, Multicast, IPv6, Snap
  <2>2. \A pc \in 1 .. 6, acc \in Nat :
          prog[pc].op # "ret" => pc + 1 + Skips(prog[pc], acc) <= 6
    BY <1>1 DEF Skips, LoadAbsolute, JumpIf, Ret
  <2> QED
    BY <2>1, <2>2 DEF Programs
<1>3. At(f, 0) \in Nat /\ At(f, 12) \in Nat /\ f.len \in Nat
  BY AtType DEF Contents
<1> HIDE DEF prog
<1>4. V(1) /\ V(2) /\ V(3) /\ V(4) /\ V(5) /\ V(6)
  <2>1. \A pc \in 1 .. 6 : V(pc)
    BY <1>2, RunFollows
  <2> HIDE DEF V
  <2> QED
    BY <2>1
<1> HIDE DEF run
<1>5. run[1][0] <=> (not # (At(f, 0) = Multicast /\ At(f, 12) = IPv6))
  BY <1>1, <1>3, <1>4
     DEF Follows, Verdict, Reaches, NextAcc, Skips, LoadAbsolute, JumpIf, Ret, Snap, Multicast, IPv6
<1> QED
  BY <1>5 DEF run, prog, Accepts
-----------------------------------------------------------------------------
(* Programs for tagged frames                                               *)

\* The program begins with a load, for what a preamble leaves in the accumulator, and no load
\* reaches over the end of the addresses, where the tag comes in.
Tidy(prog) ==
  /\ prog[1].op = "load"
  /\ \A pc \in 1 .. Len(prog) :
    prog[pc].op = "load" /\ prog[pc].off < 12 => prog[pc].off + prog[pc].size <= 12

\* Jumps of a preamble stay in it or lead to the program behind it.
LeadsOn(pre) ==
  \A pc \in 1 .. Len(pre) :
    pre[pc].op # "ret" => \A acc \in Nat : pc + 1 + Skips(pre[pc], acc) <= Len(pre) + 1

JumpsAlike(tail, prog) ==
  /\ Len(tail) = Len(prog)
  /\ \A pc \in 1 .. Len(prog) :
       /\ tail[pc].op = prog[pc].op
       /\ \A acc \in Nat : Skips(tail[pc], acc) = Skips(prog[pc], acc)

LEMMA Prepended ==
  ASSUME NEW pre \in Seq(Insns), NEW prog \in Programs, NEW tail \in Seq(Insns),
         Len(pre) # 0, JumpsAlike(tail, prog), LeadsOn(pre)
  PROVE  /\ pre \o tail \in Programs /\ Len(pre \o tail) = Len(prog) + Len(pre)
         /\ \A pc \in 1 .. Len(pre) : (pre \o tail)[pc] = pre[pc]
         /\ \A pc \in 1 .. Len(prog) : (pre \o tail)[pc + Len(pre)] = tail[pc]
<1> USE DEF JumpsAlike, LeadsOn
<1> DEFINE whole == pre \o tail
<1>0. Len(pre) \in Nat /\ Len(prog) \in Nat /\ Len(prog) # 0 /\ prog \in Seq(Insns)
  BY DEF Programs
<1>1. /\ whole \in Seq(Insns) /\ Len(whole) = Len(prog) + Len(pre)
      /\ \A pc \in 1 .. Len(pre) : whole[pc] = pre[pc]
      /\ \A pc \in 1 .. Len(prog) : whole[pc + Len(pre)] = tail[pc]
  <2>1. /\ whole \in Seq(Insns) /\ Len(whole) = Len(pre) + Len(tail)
        /\ \A j \in 1 .. Len(pre) + Len(tail) :
             whole[j] = IF j <= Len(pre) THEN pre[j] ELSE tail[j - Len(pre)]
    BY ConcatProperties
  <2> HIDE DEF whole
  <2>2. ASSUME NEW pc \in 1 .. Len(prog) PROVE whole[pc + Len(pre)] = tail[pc]
    <3>1. pc + Len(pre) \in 1 .. Len(pre) + Len(tail) /\ ~ (pc + Len(pre) <= Len(pre))
      BY <1>0
    <3>2. (pc + Len(pre)) - Len(pre) = pc
      BY <1>0
    <3> QED
      BY <2>1, <3>1, <3>2
  <2>3. \A pc \in 1 .. Len(pre) : whole[pc] = pre[pc]
    BY <1>0, <2>1
  <2> QED
    BY <1>0, <2>1, <2>2, <2>3
<1> HIDE DEF whole
<1>2. ASSUME NEW pc \in 1 .. Len(whole), whole[pc].op # "ret", NEW acc \in Nat
      PROVE  pc + 1 + Skips(whole[pc], acc) <= Len(whole)
  <2>1. CASE pc <= Len(pre)
    <3>1. whole[pc] = pre[pc] /\ pc \in 1 .. Len(pre)
      BY <1>0, <1>1, <2>1
    <3>2. pre[pc] \in Insns
      BY <3>1
    <3>3. Skips(pre[pc], acc) \in Nat /\ pc + 1 + Skips(pre[pc], acc) <= Len(pre) + 1
      BY <1>2, <3>1, <3>2 DEF Skips, Insns
    <3> QED
      BY <1>0, <1>1, <3>1, <3>3
  <2>2. CASE pc > Len(pre)
    <3> DEFINE q == pc - Len(pre)
    <3>1. q \in 1 .. Len(prog) /\ pc = q + Len(pre)
      BY <1>0, <1>1, <2>2
    <3>2. whole[pc] = tail[q]
      BY <1>1, <3>1
    <3>3. prog[q] \in Insns /\ prog[q].op # "ret" /\ Skips(whole[pc], acc) = Skips(prog[q], acc)
      BY <1>0, <1>2, <3>1, <3>2
    <3>4. Skips(prog[q], acc) \in Nat /\ q + 1 + Skips(prog[q], acc) <= Len(prog)
      BY <3>1, <3>3 DEF Programs, Skips, Insns
    <3> QED
      BY <1>0, <1>1, <3>1, <3>3, <3>4
  <2> QED
    BY <1>0, <1>1, <2>1, <2>2
<1>3. whole # <<>>
  BY <1>0, <1>1
<1>4. whole \in Programs
  BY <1>1, <1>2, <1>3 DEF Programs
<1> QED
  BY <1>1, <1>4 DEF whole

LEMMA AnyAcc ==
  ASSUME NEW prog \in Programs, prog[1].op = "load", NEW f \in Contents, NEW acc \in Nat
  PROVE  Run(prog, f)[1][acc] <=> Accepts(prog, f)
<1> DEFINE run == Run(prog, f)
<1>1. 1 \in 1 .. Len(prog)
  BY DEF Programs
<1>2. Follows(prog, f, run, 1)
  BY <1>1, RunFollows
<1> HIDE DEF run
<1>3. run[1][acc] <=> run[1][0]
  BY <1>2 DEF Follows, Verdict, Reaches, NextAcc, Skips
<1> QED
  BY <1>3 DEF run, Accepts

\* With id 0 the preamble lets through what has no tag, and the program decides.
LEMMA Untag ==
  ASSUME NEW prog \in Programs, Tidy(prog), NEW f \in Frames
  PROVE  /\ bpfWithDot1Q(prog, 0) \in Programs
         /\ Accepts(bpfWithDot1Q(prog, 0), f) <=> f.tag = Untagged /\ Accepts(prog, f)
<1> DEFINE pre == << LoadAbsolute(12, 2),
                     JumpIf(Dot1Q, 2, 0), JumpIf(QinQ, 1, 0), JumpIf(OldQinQ, 0, 1),
                     Ret(0) >>
           whole == bpfWithDot1Q(prog, 0)
           run == Run(whole, f)
           V(pc) == Follows(whole, f, run, pc)
<1>0. prog \in Seq(Insns) /\ Len(prog) \in Nat /\ Len(prog) # 0 /\ f \in Contents
  BY DEF Programs, Frames
<1>1. pre \in Seq(Insns) /\ Len(pre) = 5
  BY InsnTypes DEF Dot1Q, QinQ, OldQinQ
<1>2. LeadsOn(pre)
  BY DEF LeadsOn, Skips, LoadAbsolute, JumpIf, Ret
<1>3. whole = pre \o prog
  BY DEF bpfWithDot1Q
<1>4. /\ pre[1] = LoadAbsolute(12, 2)
      /\ pre[2] = JumpIf(Dot1Q, 2, 0) /\ pre[3] = JumpIf(QinQ, 1, 0) /\ pre[4] = JumpIf(OldQinQ, 0, 1)
      /\ pre[5] = Ret(0)
  OBVIOUS
<1> HIDE DEF pre
<1>5. /\ whole \in Programs /\ Len(whole) = Len(prog) + 5
      /\ \A pc \in 1 .. 5 : whole[pc] = pre[pc]
      /\ \A pc \in 1 .. Len(prog) : whole[pc + 5] = prog[pc]
  <2>1. JumpsAlike(prog, prog)
    BY DEF JumpsAlike
  <2> HIDE DEF whole
  <2>2. /\ pre \o prog \in Programs /\ Len(pre \o prog) = Len(prog) + Len(pre)
        /\ \A pc \in 1 .. Len(pre) : (pre \o prog)[pc] = pre[pc]
        /\ \A pc \in 1 .. Len(prog) : (pre \o prog)[pc + Len(pre)] = prog[pc]
    <3>1. Len(pre) # 0
      BY <1>1
    <3>2. pre \in Seq(Insns) /\ prog \in Seq(Insns)
      BY <1>0, <1>1
    <3> QED
      BY <1>2, <2>1, <3>1, <3>2, Prepended
  <2> QED
    BY <1>1, <1>3, <2>2
<1> HIDE DEF whole
<1>6. \A pc \in 1 .. Len(prog), acc \in Nat : Run(whole, f)[pc + 5][acc] = Run(prog, f)[pc][acc]
  <2>1. Mirrors(whole, f, 5, prog, f)
    BY <1>5 DEF Mirrors
  <2> QED
    BY <1>0, <1>5, <2>1, Embedded
<1>7. \A acc \in Nat : run[6][acc] <=> Accepts(prog, f)
  BY <1>0, <1>6, AnyAcc DEF Tidy
<1>8. V(1) /\ V(2) /\ V(3) /\ V(4) /\ V(5)
  <2>1. \A pc \in 1 .. 5 : V(pc)
    BY <1>0, <1>5, RunFollows
  <2> HIDE DEF V
  <2> QED
    BY <2>1
<1>9. /\ whole[1] = LoadAbsolute(12, 2)
      /\ whole[2] = JumpIf(Dot1Q, 2, 0) /\ whole[3] = JumpIf(QinQ, 1, 0)
      /\ whole[4] = JumpIf(OldQinQ, 0, 1) /\ whole[5] = Ret(0)
  BY <1>4, <1>5
<1> HIDE DEF run
<1>10. At(f, 12) \in Nat /\ f.len \in Nat /\ f.len >= 14
  <2>1. f.len \in Nat /\ f.len >= 14
    BY DEF Frames, Contents
  <2> QED
    BY <1>0, <2>1, AtType
<1>11. f.tag = Untagged <=> At(f, 12) \notin Tags
  BY DEF At, Frames, Contents, Tags, Untagged, Dot1Q, QinQ, OldQinQ
<1>12. run[1][0] <=> At(f, 12) \notin Tags /\ Accepts(prog, f)
  BY <1>7, <1>8, <1>9, <1>10
     DEF Follows, Verdict, Reaches, NextAcc, Skips, LoadAbsolute, JumpIf, Ret, Tags, Dot1Q, QinQ, OldQinQ
<1> QED
  BY <1>5, <1>11, <1>12 DEF whole, run, Accepts

\* Under the tag asked for, the shifted program sees what prog sees without the tag.
LEMMA UnderTag ==
  ASSUME NEW f \in Frames, f.tag # Untagged
  PROVE  LET inner == WithoutTag(f) IN
         /\ inner \in Contents /\ inner.len = f.len - 4 /\ inner.len >= 12
         /\ \A off \in Nat : At(f, IF off >= 12 THEN off + 4 ELSE off) = At(inner, off)
<1> DEFINE inner == WithoutTag(f)
<1>0. f \in Contents /\ f.len >= 18
  BY DEF Frames
<1>1. inner.len = f.len - 4 /\ f.len - 4 \in Nat /\ inner.len >= 12 /\ inner.tag = Untagged
  BY <1>0 DEF Contents, WithoutTag
<1>2. /\ inner.tci = f.tci /\ inner.dst = f.dst /\ inner.type = f.type
      /\ inner.next = f.next /\ inner.icmp = f.icmp /\ inner.other = f.other
  BY <1>0 DEF Contents, WithoutTag
<1>3. inner \in Contents
  BY <1>0, <1>1 DEF Contents, WithoutTag
<1> HIDE DEF inner
<1>4. ASSUME NEW off \in Nat
      PROVE  At(f, IF off >= 12 THEN off + 4 ELSE off) = At(inner, off)
  BY <1>1, <1>2 DEF At
<1> QED
  BY <1>1, <1>3, <1>4 DEF inner

LEMMA ShiftedMirrors ==
  ASSUME NEW prog \in Programs, Tidy(prog), NEW whole \in Programs, NEW d \in Nat,
         NEW f \in Frames, f.tag # Untagged,
         \A pc \in 1 .. Len(prog) : whole[pc + d] = Shifted(prog[pc])
  PROVE  Mirrors(whole, f, d, prog, WithoutTag(f))
<1> DEFINE inner == WithoutTag(f)
<1>0. f \in Contents /\ prog \in Seq(Insns) /\ f.len \in Nat /\ f.len >= 18
  BY DEF Frames, Contents, Programs
<1>1. inner \in Contents /\ inner.len = f.len - 4 /\ inner.len >= 12
  BY UnderTag
<1>6. \A off \in Nat : At(f, IF off >= 12 THEN off + 4 ELSE off) = At(inner, off)
  BY UnderTag
<1> HIDE DEF inner
<1>2. ASSUME NEW insn \in Insns, insn.op = "load",
             insn.off < 12 => insn.off + insn.size <= 12
      PROVE  /\ Shifted(insn).op = "load"
             /\ Reaches(Shifted(insn), f) <=> Reaches(insn, inner)
             /\ \A acc \in Nat : /\ Skips(Shifted(insn), acc) = Skips(insn, acc)
                                 /\ NextAcc(Shifted(insn), acc, f) = NextAcc(insn, acc, inner)
  <2>1. insn \in [op : {"load"}, off : Nat, size : Nat]
    BY <1>2 DEF Insns
  <2>2. /\ Shifted(insn).op = "load" /\ Shifted(insn).size = insn.size
        /\ Shifted(insn).off = IF insn.off >= 12 THEN insn.off + 4 ELSE insn.off
    BY <2>1 DEF Shifted
  <2>3. Reaches(Shifted(insn), f) <=> Reaches(insn, inner)
    <3>1. insn.off \in Nat /\ insn.size \in Nat
      BY <2>1
    <3>2. CASE insn.off >= 12
      <4>1. Shifted(insn).off + Shifted(insn).size <= f.len <=> insn.off + insn.size <= inner.len
        BY <1>0, <1>1, <2>2, <3>1, <3>2
      <4> QED
        BY <1>2, <2>2, <4>1 DEF Reaches
    <3>3. CASE insn.off < 12
      <4>1. insn.off + insn.size <= f.len /\ insn.off + insn.size <= inner.len
        <5>1. insn.off + insn.size <= 12
          BY <1>2, <3>3
        <5> QED
          BY <1>0, <1>1, <3>1, <5>1
      <4>2. Shifted(insn).off = insn.off
        BY <2>2, <3>1, <3>3
      <4> QED
        BY <2>2, <4>1, <4>2 DEF Reaches
    <3> QED
      BY <3>1, <3>2, <3>3
  <2>4. At(f, Shifted(insn).off) = At(inner, insn.off)
    BY <1>6, <2>1, <2>2
  <2>5. ASSUME NEW acc \in Nat
        PROVE  /\ Skips(Shifted(insn), acc) = Skips(insn, acc)
               /\ NextAcc(Shifted(insn), acc, f) = NextAcc(insn, acc, inner)
    BY <1>2, <2>2, <2>4 DEF Skips, NextAcc
  <2> QED
    BY <2>2, <2>3, <2>5
<1>3. ASSUME NEW insn \in Insns, insn.op # "load"
      PROVE  /\ Shifted(insn) = insn
             /\ Reaches(Shifted(insn), f) <=> Reaches(insn, inner)
             /\ \A acc \in Nat : NextAcc(insn, acc, f) = NextAcc(insn, acc, inner)
  BY <1>3 DEF Shifted, Reaches, NextAcc
<1>4. ASSUME NEW pc \in 1 .. Len(prog)
      PROVE  /\ whole[pc + d].op = prog[pc].op
             /\ prog[pc].op = "ret" => whole[pc + d].val = prog[pc].val
             /\ Reaches(whole[pc + d], f) <=> Reaches(prog[pc], inner)
             /\ \A acc \in Nat : /\ Skips(whole[pc + d], acc) = Skips(prog[pc], acc)
                                 /\ NextAcc(whole[pc + d], acc, f) = NextAcc(prog[pc], acc, inner)
  <2>1. prog[pc] \in Insns
    BY <1>0
  <2>2. CASE prog[pc].op = "load"
    <3>1. prog[pc].off < 12 => prog[pc].off + prog[pc].size <= 12
      BY <2>2 DEF Tidy
    <3> QED
      BY <1>2, <2>1, <2>2, <3>1
  <2>3. CASE prog[pc].op # "load"
    BY <1>3, <2>1, <2>3
  <2> QED
    BY <2>2, <2>3
<1>5. Mirrors(whole, f, d, prog, inner)
  BY <1>4 DEF Mirrors
<1> QED
  BY <1>5 DEF inner

LEMMA ShiftedProgram ==
  ASSUME NEW prog \in Programs
  PROVE  LET tail == [j \in DOMAIN prog |-> Shifted(prog[j])] IN
         tail \in Seq(Insns) /\ JumpsAlike(tail, prog)
<1> DEFINE tail == [j \in DOMAIN prog |-> Shifted(prog[j])]
           n == Len(prog)
<1>1. n \in Nat /\ prog \in Seq(Insns) /\ DOMAIN prog = 1 .. n
  BY DEF Programs
<1>2. ASSUME NEW insn \in Insns
      PROVE  /\ Shifted(insn) \in Insns /\ Shifted(insn).op = insn.op
             /\ \A acc \in Nat : Skips(Shifted(insn), acc) = Skips(insn, acc)
  <2>1. CASE insn.op = "load"
    <3>1. insn \in [op : {"load"}, off : Nat, size : Nat]
      BY <2>1 DEF Insns
    <3>2. Shifted(insn) \in [op : {"load"}, off : Nat, size : Nat]
      BY <3>1 DEF Shifted
    <3> QED
      BY <2>1, <3>2 DEF Insns, Skips
  <2>2. CASE insn.op # "load"
    BY <2>2 DEF Shifted
  <2> QED
    BY <2>1, <2>2
<1>3. \A pc \in 1 .. n : tail[pc] = Shifted(prog[pc]) /\ prog[pc] \in Insns
  BY <1>1
<1>4. tail \in [1 .. n -> Insns]
  BY <1>1, <1>2
<1> HIDE DEF tail
<1>5. tail \in Seq(Insns) /\ Len(tail) = n
  BY <1>1, <1>4
<1>6. JumpsAlike(tail, prog)
  BY <1>2, <1>3, <1>5 DEF JumpsAlike
<1> QED
  BY <1>5, <1>6 DEF tail

\* With another id the preamble lets through what has that tag, and the shifted program decides as
\* the program does without the tag.
LEMMA ForTag ==
  ASSUME NEW prog \in Programs, Tidy(prog), NEW id \in Nat, id # 0, NEW f \in Frames
  PROVE  Accepts(bpfWithDot1Q(prog, id), f) <=>
           /\ f.tag = Dot1Q /\ f.tci % 4096 = id
           /\ Accepts(prog, WithoutTag(f))
<1> DEFINE pre == << LoadAbsolute(12, 2), JumpIf(Dot1Q, 0, 3),
                     LoadAbsolute(14, 2), And(4095), JumpIf(id, 1, 0),
                     Ret(0) >>
           tail == [j \in DOMAIN prog |-> Shifted(prog[j])]
           whole == bpfWithDot1Q(prog, id)
           inner == WithoutTag(f)
           run == Run(whole, f)
           V(pc) == Follows(whole, f, run, pc)
<1>0. prog \in Seq(Insns) /\ Len(prog) \in Nat /\ Len(prog) # 0 /\ f \in Contents
  BY DEF Programs, Frames
<1>1. pre \in Seq(Insns) /\ Len(pre) = 6
  BY InsnTypes DEF Dot1Q
<1>2. LeadsOn(pre)
  BY DEF LeadsOn, Skips, LoadAbsolute, JumpIf, And, Ret
<1>3. whole = pre \o tail
  BY DEF bpfWithDot1Q
<1>4. /\ pre[1] = LoadAbsolute(12, 2) /\ pre[2] = JumpIf(Dot1Q, 0, 3)
      /\ pre[3] = LoadAbsolute(14, 2) /\ pre[4] = And(4095) /\ pre[5] = JumpIf(id, 1, 0)
      /\ pre[6] = Ret(0)
  OBVIOUS
<1>5. tail \in Seq(Insns) /\ JumpsAlike(tail, prog)
  BY ShiftedProgram
<1>6. \A pc \in 1 .. Len(prog) : tail[pc] = Shifted(prog[pc])
  BY <1>0
<1> HIDE DEF pre, tail, whole
<1>7. /\ whole \in Programs /\ Len(whole) = Len(prog) + 6
      /\ \A pc \in 1 .. 6 : whole[pc] = pre[pc]
      /\ \A pc \in 1 .. Len(prog) : whole[pc + 6] = Shifted(prog[pc])
  <2>1. Len(pre) # 0
    BY <1>1
  <2>2. /\ pre \o tail \in Programs /\ Len(pre \o tail) = Len(prog) + Len(pre)
        /\ \A pc \in 1 .. Len(pre) : (pre \o tail)[pc] = pre[pc]
        /\ \A pc \in 1 .. Len(prog) : (pre \o tail)[pc + Len(pre)] = tail[pc]
    BY <1>1, <1>2, <1>5, <2>1, Prepended
  <2> QED
    BY <1>1, <1>3, <1>6, <2>2
<1>8. f.tag # Untagged => \A acc \in Nat : run[7][acc] <=> Accepts(prog, inner)
  <2> SUFFICES ASSUME f.tag # Untagged PROVE \A acc \in Nat : run[7][acc] <=> Accepts(prog, inner)
    OBVIOUS
  <2>1. Mirrors(whole, f, 6, prog, inner)
    BY <1>7, ShiftedMirrors
  <2>2. inner \in Contents
    BY UnderTag
  <2> HIDE DEF inner
  <2>3. \A pc \in 1 .. Len(prog), acc \in Nat : run[pc + 6][acc] = Run(prog, inner)[pc][acc]
    BY <1>0, <1>7, <2>1, <2>2, Embedded
  <2> QED
    BY <1>0, <2>2, <2>3, AnyAcc DEF Tidy
<1>9. V(1) /\ V(2) /\ V(3) /\ V(4) /\ V(5) /\ V(6)
  <2>1. \A pc \in 1 .. 6 : V(pc)
    BY <1>0, <1>7, RunFollows
  <2> HIDE DEF V
  <2> QED
    BY <2>1
<1>10. /\ whole[1] = LoadAbsolute(12, 2) /\ whole[2] = JumpIf(Dot1Q, 0, 3)
       /\ whole[3] = LoadAbsolute(14, 2) /\ whole[4] = And(4095) /\ whole[5] = JumpIf(id, 1, 0)
       /\ whole[6] = Ret(0)
  BY <1>4, <1>7
<1> HIDE DEF run, inner
<1>11. /\ At(f, 12) \in Nat /\ f.len \in Nat /\ f.len >= 14
       /\ f.tag # Untagged => At(f, 14) = f.tci /\ f.len >= 18
       /\ f.tci \in Nat /\ f.tci % 4096 \in Nat
  <2>1. f.len \in Nat /\ f.len >= 14 /\ (f.tag # Untagged => f.len >= 18) /\ f.tci \in Nat
    BY DEF Frames, Contents
  <2>2. f.tag # Untagged => At(f, 14) = f.tci
    BY DEF At
  <2>3. At(f, 12) \in Nat
    BY <1>0, AtType
  <2>4. f.tci % 4096 \in Nat
    BY <2>1
  <2> QED
    BY <2>1, <2>2, <2>3, <2>4
<1>12. /\ f.tag = Dot1Q <=> At(f, 12) = Dot1Q
       /\ f.tag = Dot1Q => f.tag # Untagged
  BY DEF At, Frames, Contents, Tags, Untagged, Dot1Q, QinQ, OldQinQ
<1>13. ASSUME f.tag = Dot1Q
       PROVE  run[1][0] <=> f.tci % 4096 = id /\ Accepts(prog, inner)
  <2>1. run[1][0] <=> run[3][Dot1Q]
    BY <1>9, <1>10, <1>11, <1>12, <1>13
       DEF Follows, Verdict, Reaches, NextAcc, Skips, LoadAbsolute, JumpIf, Dot1Q
  <2>2. run[3][Dot1Q] <=> run[5][f.tci % 4096]
    BY <1>9, <1>10, <1>11, <1>12, <1>13
       DEF Follows, Verdict, Reaches, NextAcc, Skips, LoadAbsolute, And, Dot1Q
  <2>3. run[5][f.tci % 4096] <=> f.tci % 4096 = id /\ Accepts(prog, inner)
    BY <1>8, <1>9, <1>10, <1>11, <1>12, <1>13
       DEF Follows, Verdict, Reaches, NextAcc, Skips, JumpIf, Ret
  <2> QED
    BY <2>1, <2>2, <2>3
<1>14. ASSUME f.tag # Dot1Q PROVE ~ run[1][0]
  BY <1>9, <1>10, <1>11, <1>12, <1>14
     DEF Follows, Verdict, Reaches, NextAcc, Skips, LoadAbsolute, JumpIf, Ret
<1>15. run[1][0] <=> f.tag = Dot1Q /\ f.tci % 4096 = id /\ Accepts(prog, inner)
  BY <1>13, <1>14
<1> QED
  BY <1>15 DEF run, inner, whole, Accepts

RightForTag(prog, id, f) ==
  Accepts(bpfWithDot1Q(prog, id), f) <=>
    CASE id = 0 -> f.tag = Untagged /\ Accepts(prog, f)
      [] id # 0 -> f.tag = Dot1Q /\ f.tci % 4096 = id /\ Accepts(prog, WithoutTag(f))

\* What bpfWithDot1Q makes of a program, for any that ends with a verdict and is tidy, and any
\* frame: it accepts what the program accepts without the tag, if the tag is the one asked for;
\* with id 0 it only adds that nothing tagged passes.  A fact about the function alone: nothing
\* calls it, and where this program's sockets are the kernel has taken the tag off already.
THEOREM TagsAnyProgram ==
  ASSUME NEW prog \in Programs, Tidy(prog), NEW id \in Nat, NEW f \in Frames
  PROVE  RightForTag(prog, id, f)
<1>1. CASE id = 0
  BY <1>1, Untag DEF RightForTag
<1>2. CASE id # 0
  BY <1>2, ForTag DEF RightForTag
<1> QED
  BY <1>1, <1>2

LEMMA Layers ==
  ASSUME NEW f \in Contents
  PROVE  /\ At(f, 12) = IPv6 <=> f.tag = Untagged /\ f.type = IPv6
         /\ f.tag = Untagged => At(f, 20) = f.next /\ At(f, 54) = f.icmp
BY DEF At, Contents, Tags, Untagged, Dot1Q, QinQ, OldQinQ, IPv6

LEMMA Seen ==
  ASSUME NEW f \in Frames
  PROVE  AsSeen(f) \in Contents /\ AsSeen(f).len >= 14
<1>1. CASE f.tag \in Stripped
  <2>1. WithoutTag(f) \in Contents /\ WithoutTag(f).len = f.len - 4 /\ f.len >= 18 /\ f.len \in Nat
    BY <1>1, UnderTag DEF Frames, Contents, Stripped, Untagged, Dot1Q, QinQ
  <2> QED
    BY <1>1, <2>1 DEF AsSeen
<1>2. CASE f.tag \notin Stripped
  BY <1>2 DEF AsSeen, Frames, Contents
<1> QED
  BY <1>1, <1>2

\* Of the frames long enough to be parsed, bpfRA and bpfICMPv6 accept what parseICMPv6 takes for
\* their reader, bpfND what it takes and is multicast, whatever frames arrive, tagged or not.
THEOREM FilterPrograms == Spec => []FiltersRight
<1>1. ASSUME NEW f \in Contents, f.len >= 14
      PROVE  LET Lets(prog, icmp) ==
                   f.len >= HeaderLen(icmp) => (Accepts(prog, f) <=> Parses(icmp, f))
             IN  /\ Lets(bpfRA, RouterAdvertisement)
                 /\ Lets(bpfICMPv6(NeighborAdvertisement), NeighborAdvertisement)
                 /\ f.len >= HeaderLen(NeighborSolicitation) =>
                      (Accepts(bpfND, f) <=> Parses(NeighborSolicitation, f) /\ f.dst = Multicast)
                 /\ \A not \in BOOLEAN :
                      Accepts(bpfMulticast(not), f)
                        <=> (not # (At(f, 0) = Multicast /\ At(f, 12) = IPv6))
  <2>0. f.len \in Nat
    BY DEF Contents
  <2>1. ASSUME NEW icmp \in Nat, f.len >= HeaderLen(icmp)
        PROVE  Accepts(bpfICMPv6(icmp), f) <=> Parses(icmp, f)
    <3>1. f.len >= 55
      BY <2>0, <2>1 DEF HeaderLen
    <3> QED
      BY <2>0, <2>1, <3>1, ICMPv6Accepts, Layers DEF Parses
  <2>2. ASSUME f.len >= HeaderLen(NeighborSolicitation)
        PROVE  Accepts(bpfND, f) <=> Parses(NeighborSolicitation, f) /\ f.dst = Multicast
    <3>1. f.len >= 55
      BY <2>0, <2>2 DEF HeaderLen, NeighborSolicitation, RouterAdvertisement
    <3> QED
      BY <2>0, <2>2, <3>1, NDAccepts, Layers DEF Parses, At
  <2>3. RouterAdvertisement \in Nat /\ NeighborAdvertisement \in Nat
    BY DEF RouterAdvertisement, NeighborAdvertisement
  <2> QED
    BY <1>1, <2>0, <2>1, <2>2, <2>3, MulticastAccepts DEF bpfRA
<1>2. TypeOK => AsSeen(frame) \in Contents /\ AsSeen(frame).len >= 14
  BY Seen, NDFilterAssumption DEF TypeOK
<1>3. TypeOK => FiltersRight
  BY <1>1, <1>2 DEF FiltersRight
<1> QED
  BY <1>3, TypeCorrect, PTL
=============================================================================
