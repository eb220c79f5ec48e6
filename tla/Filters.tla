------------------------------- MODULE Filters -------------------------------
(***************************************************************************)
(* The packet filters (bpfMulticast, bpfRA, bpfND, bpfICMPv6 of sock.go,   *)
(* bpfWithDot1Q of util.go), the machine in the kernel that runs them, and *)
(* which frames parseICMPv6 (packet.go) decodes.  bpf.Assemble, which      *)
(* encodes a program instruction by instruction, is left out.              *)
(*                                                                         *)
(* A frame is what a filter can tell apart: its length and the fields the  *)
(* programs load.  Any other field reads as frame.other.                   *)
(***************************************************************************)
EXTENDS Naturals, Sequences

Multicast == \h3333   \* the first two bytes of the destination
IPv6 == \h86dd        \* EtherTypes
Dot1Q == \h8100
QinQ == \h88a8
OldQinQ == \h9100
ICMPv6 == 58          \* the IPv6 next header

RouterAdvertisement == 134
NeighborSolicitation == 135
NeighborAdvertisement == 136

Tags == {Dot1Q, QinQ, OldQinQ}
Stripped == {Dot1Q, QinQ}
Untagged == 0

Contents == [tag : Tags \cup {Untagged}, tci : Nat, dst : Nat, type : Nat, next : Nat, icmp : Nat,
             other : Nat, len : Nat]

\* The Ethernet header is whole, with its tag, and untagged means that no tag follows it.
Frames ==
  {f \in Contents : IF f.tag = Untagged THEN f.type \notin Tags /\ f.len >= 14 ELSE f.len >= 18}

WithoutTag(f) == [f EXCEPT !.tag = Untagged, !.len = @ - 4]

\* The kernel takes a tag off before a filter or a reader sees the frame.
AsSeen(f) == IF f.tag \in Stripped THEN WithoutTag(f) ELSE f

\* The 16 bits or 8 bits at an offset; a tag moves what follows the addresses by four bytes.
At(frame, off) ==
  LET shift == IF frame.tag = Untagged THEN 0 ELSE 4 IN
  CASE off = 0 -> frame.dst
    [] off = 12 /\ frame.tag # Untagged -> frame.tag
    [] off = 14 /\ frame.tag # Untagged -> frame.tci
    [] off = 12 + shift -> frame.type
    [] off = 20 + shift -> frame.next
    [] off = 54 + shift -> frame.icmp
    [] OTHER -> frame.other

-----------------------------------------------------------------------------
(* The machine                                                              *)

LoadAbsolute(off, size) == [op |-> "load", off |-> off, size |-> size]
JumpIf(val, skipTrue, skipFalse) ==
  [op |-> "jump", val |-> val, skipTrue |-> skipTrue, skipFalse |-> skipFalse]
And(mask) == [op |-> "and", mask |-> mask]
Ret(val) == [op |-> "ret", val |-> val]

Snap == 262144

Insns == [op : {"load"}, off : Nat, size : Nat]
  \cup [op : {"jump"}, val : Nat, skipTrue : Nat, skipFalse : Nat]
  \cup [op : {"and"}, mask : Nat]
  \cup [op : {"ret"}, val : Nat]

\* A load beyond the end of the frame rejects it.
Reaches(insn, frame) == insn.op = "load" => insn.off + insn.size <= frame.len

\* The masks have no zero below a one.
NextAcc(insn, acc, frame) ==
  CASE insn.op = "load" -> At(frame, insn.off)
    [] insn.op = "and" -> acc % (insn.mask + 1)
    [] OTHER -> acc

Skips(insn, acc) ==
  CASE insn.op # "jump" -> 0
    [] insn.op = "jump" /\ acc = insn.val -> insn.skipTrue
    [] OTHER -> insn.skipFalse

\* The verdict from pc on, where rest has those from further on.
Verdict(prog, frame, pc, acc, rest) ==
  LET insn == prog[pc] IN
  IF insn.op = "ret"
  THEN insn.val > 0
  ELSE Reaches(insn, frame) /\ rest[pc + 1 + Skips(insn, acc)][NextAcc(insn, acc, frame)]

\* The verdict for every pc and accumulator.
Run(prog, frame) ==
  LET run[pc \in 1 .. Len(prog)] == [acc \in Nat |-> Verdict(prog, frame, pc, acc, run)]
  IN  run

Accepts(prog, frame) == Run(prog, frame)[1][0]

-----------------------------------------------------------------------------
(* The programs                                                             *)

bpfMulticast(not) ==
  << LoadAbsolute(0, 2), JumpIf(Multicast, 0, 3),
     LoadAbsolute(12, 2), JumpIf(IPv6, 0, 1),
     Ret(IF not THEN 0 ELSE Snap), Ret(IF not THEN Snap ELSE 0) >>

bpfICMPv6(id) ==
  << LoadAbsolute(12, 2), JumpIf(IPv6, 0, 5),
     LoadAbsolute(20, 1), JumpIf(ICMPv6, 0, 3),
     LoadAbsolute(54, 1), JumpIf(id, 0, 1),
     Ret(Snap), Ret(0) >>

bpfRA == bpfICMPv6(RouterAdvertisement)

\* A skip too short by one lands on the instruction that accepts.
ShortSkip ==
  << LoadAbsolute(0, 2), JumpIf(Multicast, 0, 6),
     LoadAbsolute(12, 2), JumpIf(IPv6, 0, 5),
     LoadAbsolute(20, 1), JumpIf(ICMPv6, 0, 3),
     LoadAbsolute(54, 1), JumpIf(NeighborSolicitation, 0, 1),
     Ret(Snap), Ret(0) >>

bpfND ==
  << LoadAbsolute(0, 2), JumpIf(Multicast, 0, 7),
     LoadAbsolute(12, 2), JumpIf(IPv6, 0, 5),
     LoadAbsolute(20, 1), JumpIf(ICMPv6, 0, 3),
     LoadAbsolute(54, 1), JumpIf(NeighborSolicitation, 0, 1),
     Ret(Snap), Ret(0) >>

ShiftAll(insn) == IF insn.op = "load" THEN [insn EXCEPT !.off = @ + 4] ELSE insn

\* The addresses stay where they are under a tag.
Shifted(insn) ==
  IF insn.op = "load" /\ insn.off >= 12 THEN [insn EXCEPT !.off = @ + 4] ELSE insn

\* Nothing calls it, nor could the programs above be given to it: it takes instructions, they
\* come assembled.
bpfWithDot1Q(org, id) ==
  IF id = 0
  THEN << LoadAbsolute(12, 2),
          JumpIf(Dot1Q, 2, 0), JumpIf(QinQ, 1, 0), JumpIf(OldQinQ, 0, 1),
          Ret(0) >> \o org
  ELSE << LoadAbsolute(12, 2), JumpIf(Dot1Q, 0, 3),
          LoadAbsolute(14, 2), And(4095), JumpIf(id, 1, 0),
          Ret(0) >> \o [k \in DOMAIN org |-> Shifted(org[k])]

-----------------------------------------------------------------------------
(* parseICMPv6                                                              *)

\* Ethernet, IPv6, ICMPv6 and the layer the caller asks for; a frame that is cut within
\* a layer, or goes on with another one, is an error.  (One that ends with the ICMPv6 header
\* is left out.)
HeaderLen(icmp) == IF icmp = RouterAdvertisement THEN 70 ELSE 78

Parses(icmp, frame) ==
  /\ frame.tag = Untagged /\ frame.type = IPv6
  /\ frame.next = ICMPv6 /\ frame.icmp = icmp
  /\ frame.len >= HeaderLen(icmp)
=============================================================================
