--------------------------- MODULE RAClientProofs ---------------------------
(***************************************************************************)
(* Proofs about RAClient, for any plan, any prefixes and gateways and any  *)
(* initial content of the device.                                          *)
(*                                                                         *)
(* That a plan item owns one entry is not inductive by itself: a write     *)
(* relies on a print of some steps ago.  Pending says that what the print  *)
(* saw is still so, Progress which items are already settled.              *)
(***************************************************************************)
EXTENDS RAClient, TLAPS

-----------------------------------------------------------------------------
(* Executing what Decide asks for.                                          *)

\* The entry set is the only candidate.
LEMMA LargestOfOne ==
  ASSUME NEW S, S \subseteq Nat, S # {}, \A j, k \in S : j = k
  PROVE  Largest(S) \in S
<1>1. PICK j \in S : S = {j}
  OBVIOUS
<1>2. \E k \in S : \A l \in S : l <= k
  BY <1>1
<1> QED
  BY <1>2 DEF Largest

LEMMA Decided ==
  ASSUME NEW V, NEW kind \in Kinds, NEW t \in Seq(Entries(V)), NEW want \in V,
         OneOwn(kind, t)
  PROVE  LET c == Decide(kind, t, want) IN
           \/ c = Nothing /\ AsWanted(kind, t, want)
           \/ c = Add /\ Candidates(kind, t) = {}
           \/ \E j \in Candidates(kind, t) : c = Set(j)
<1>1. Candidates(kind, t) \subseteq Nat
  BY DEF Candidates, Ours
<1>2. \A j, k \in Candidates(kind, t) : j = k
  BY DEF OneOwn, Candidates
<1>3. Candidates(kind, t) # {} => Largest(Candidates(kind, t)) \in Candidates(kind, t)
  BY <1>1, <1>2, LargestOfOne
<1> QED
  BY <1>3 DEF Decide

\* Nothing to do means it is there already.
LEMMA WantedHolds ==
  ASSUME NEW V, NEW kind \in Kinds, NEW t \in Seq(Entries(V)), NEW want \in V,
         AsWanted(kind, t, want)
  PROVE  Holds(t, want)
<1>1. CASE kind = "route"
  BY <1>1 DEF AsWanted, RouteAsWanted, AddressAsWanted, PoolAsWanted, Holds
<1>2. CASE kind = "address"
  BY <1>2 DEF AsWanted, RouteAsWanted, AddressAsWanted, PoolAsWanted, Holds, Ours
<1>3. CASE kind = "pool"
  <2>1. Len(t) \in Nat /\ Len(t) # 0 /\ t[1].val = want
    BY <1>3 DEF AsWanted, RouteAsWanted, AddressAsWanted, PoolAsWanted
  <2> QED
    BY <2>1 DEF Holds
<1> QED
  BY <1>1, <1>2, <1>3 DEF Kinds

\* The command keeps the table in its type and the item's entry the only one, and makes
\* the table as wanted: a second reconciliation finds nothing to do.
LEMMA Executed ==
  ASSUME NEW V, NEW kind \in Kinds, NEW t \in Seq(Entries(V)), NEW want \in V,
         OneOwn(kind, t), NEW c, c = Decide(kind, t, want), c # Nothing
  PROVE  /\ Execute(t, c, want) \in Seq(Entries(V))
         /\ OneOwn(kind, Execute(t, c, want))
         /\ AsWanted(kind, Execute(t, c, want), want)
         /\ kind # "pool" => Foreign(Execute(t, c, want)) = Foreign(t)
<1> DEFINE u == Execute(t, c, want)
           e == [val |-> want, ours |-> TRUE]
<1>0. e \in Entries(V) /\ Len(t) \in Nat
  BY DEF Entries
<1>1. CASE c = Add /\ Candidates(kind, t) = {}
  <2>1. u = Append(t, e)
    BY <1>1 DEF Execute, Add
  <2>2. Ours(t) = {} /\ (kind = "pool" => Len(t) = 0)
    <3>1. CASE kind = "pool"
      <4>1. Len(t) = 0
        BY <1>0, <1>1, <3>1 DEF Candidates
      <4> QED
        BY <4>1 DEF Ours
    <3>2. CASE kind # "pool"
      BY <1>1, <3>2 DEF Candidates
    <3> QED
      BY <3>1, <3>2
  <2>3. /\ u \in Seq(Entries(V)) /\ Len(u) = Len(t) + 1
        /\ u[Len(t) + 1] = e
        /\ \A j \in 1 .. Len(t) : u[j] = t[j]
    BY <1>0, <2>1
  <2> HIDE DEF u
  <2>4. Ours(u) = {Len(t) + 1}
    BY <1>0, <2>2, <2>3 DEF Ours
  <2>5. AsWanted(kind, u, want)
    <3>1. CASE kind = "route"
      BY <1>0, <2>3, <3>1 DEF AsWanted, RouteAsWanted, AddressAsWanted, PoolAsWanted
    <3>2. CASE kind = "address"
      BY <1>0, <2>3, <2>4, <3>2 DEF AsWanted, RouteAsWanted, AddressAsWanted, PoolAsWanted
    <3>3. CASE kind = "pool"
      <4>1. Len(t) = 0 /\ Len(u) = 1 /\ u[1] = e
        BY <1>0, <2>2, <2>3, <3>3
      <4> QED
        BY <3>3, <4>1 DEF AsWanted, RouteAsWanted, AddressAsWanted, PoolAsWanted
    <3> QED
      BY <3>1, <3>2, <3>3 DEF Kinds
  <2>6. (1 .. Len(u)) \ Ours(u) = (1 .. Len(t)) \ Ours(t)
    BY <1>0, <2>2, <2>3, <2>4
  <2>7. Foreign(u) = Foreign(t)
    BY <2>3, <2>6 DEF Foreign
  <2> QED
    BY <1>0, <2>2, <2>3, <2>4, <2>5, <2>7 DEF OneOwn, u
<1>2. ASSUME NEW j \in Candidates(kind, t), c = Set(j)
      PROVE  /\ u \in Seq(Entries(V))
             /\ OneOwn(kind, u)
             /\ AsWanted(kind, u, want)
             /\ kind # "pool" => Foreign(u) = Foreign(t)
  <2>1. u = [t EXCEPT ![j].val = want]
    BY <1>2 DEF Execute, Set
  <2>2. /\ j \in 1 .. Len(t)
        /\ kind = "pool" => j = 1
        /\ kind # "pool" => j \in Ours(t)
    BY DEF Candidates, Ours
  <2> DEFINE f == [t[j] EXCEPT !.val = want]
  <2>3. f \in Entries(V) /\ f.val = want /\ f.ours = t[j].ours
    <3>1. t[j] \in Entries(V)
      BY <2>2
    <3> QED
      BY <3>1 DEF Entries
  <2> HIDE DEF f
  <2>4. /\ u \in Seq(Entries(V)) /\ Len(u) = Len(t)
        /\ u[j].val = want
        /\ \A k \in 1 .. Len(t) : u[k].ours = t[k].ours /\ (k # j => u[k] = t[k])
    <3>1. u = [t EXCEPT ![j] = f]
      BY <2>1 DEF f
    <3> HIDE DEF u
    <3>2. u \in Seq(Entries(V)) /\ Len(u) = Len(t)
      BY <2>2, <2>3, <3>1
    <3>3. u[j] = f /\ \A k \in 1 .. Len(t) : k # j => u[k] = t[k]
      BY <2>2, <3>1
    <3> QED
      BY <2>3, <3>2, <3>3
  <2> HIDE DEF u
  <2>5. Ours(u) = Ours(t)
    BY <2>4 DEF Ours
  <2>6. AsWanted(kind, u, want)
    <3>1. CASE kind = "route"
      BY <2>2, <2>4, <3>1 DEF AsWanted, RouteAsWanted, AddressAsWanted, PoolAsWanted
    <3>2. CASE kind = "address"
      BY <2>2, <2>4, <2>5, <3>2 DEF AsWanted, RouteAsWanted, AddressAsWanted, PoolAsWanted
    <3>3. CASE kind = "pool"
      <4>1. u # <<>> /\ u[1].val = want
        BY <1>0, <2>2, <2>4, <3>3
      <4> QED
        BY <3>3, <4>1 DEF AsWanted, RouteAsWanted, AddressAsWanted, PoolAsWanted
    <3> QED
      BY <3>1, <3>2, <3>3 DEF Kinds
  <2>7. ASSUME kind # "pool" PROVE Foreign(u) = Foreign(t)
    <3>1. \A k \in (1 .. Len(t)) \ Ours(t) : u[k] = t[k]
      BY <2>2, <2>4, <2>7
    <3> QED
      BY <2>4, <2>5, <3>1 DEF Foreign
  <2> QED
    BY <2>2, <2>4, <2>5, <2>6, <2>7 DEF OneOwn
<1> QED
  BY <1>1, <1>2, Decided

\* Reconciliation is idempotent: printed again, a table that was brought up to date needs no
\* command, whatever else it holds.
THEOREM Idempotent ==
  ASSUME NEW V, NEW kind \in Kinds, NEW t \in Seq(Entries(V)), NEW want \in V,
         OneOwn(kind, t)
  PROVE  LET u == Execute(t, Decide(kind, t, want), want) IN
         OneOwn(kind, u) /\ Decide(kind, u, want) = Nothing
<1> DEFINE c == Decide(kind, t, want)
           u == Execute(t, c, want)
<1>1. CASE c = Nothing
  <2>1. u = t
    BY <1>1 DEF Execute, Nothing
  <2> QED
    BY <1>1, <2>1
<1>2. CASE c # Nothing
  <2>1. OneOwn(kind, u) /\ AsWanted(kind, u, want)
    BY <1>2, Executed
  <2> QED
    BY <2>1 DEF Decide
<1> QED
  BY <1>1, <1>2

-----------------------------------------------------------------------------
(* The invariant                                                            *)

Pending ==
  pc = "write" => /\ cmd = Decide(Plan[item], device[item], Want(item, routerInfo))
                  /\ cmd # Nothing

\* The items reconcile is through with.
Settled ==
  CASE pc = "listen" -> Items
    [] pc \in {"print", "write"} -> 1 .. item - 1
    [] OTHER -> {}

Progress == \A i \in Settled \ warned : AsWanted(Plan[i], device[i], Want(i, routerInfo))

IInv == TypeOK /\ OneOwnEntry /\ Pending /\ Progress

LEMMA WantType ==
  ASSUME NEW i \in Items, NEW info \in Infos
  PROVE  Want(i, info) \in Values
BY DEF Want, Infos, Values

LEMMA InitInv == Init => IInv
<1> SUFFICES ASSUME Init PROVE IInv
  OBVIOUS
<1>1. ASSUME NEW i \in Items
      PROVE  /\ device[i] \in Seq(Entries(Values))
             /\ OneOwn(Plan[i], device[i])
  <2>1. CASE device[i] = <<>>
    BY <2>1 DEF OneOwn, Ours
  <2>2. CASE \E v \in Foreigners : device[i] = <<[val |-> v, ours |-> FALSE]>>
    <3>1. PICK v \in Foreigners : device[i] = <<[val |-> v, ours |-> FALSE]>>
      BY <2>2
    <3>2. [val |-> v, ours |-> FALSE] \in Entries(Values)
      BY DEF Entries, Values
    <3>3. Len(device[i]) = 1 /\ ~ device[i][1].ours
      BY <3>1
    <3> QED
      BY <3>1, <3>2, <3>3 DEF OneOwn, Ours
  <2> QED
    BY <2>1, <2>2 DEF Init
<1>2. device \in [Items -> Seq(Entries(Values))]
  BY <1>1 DEF Init
<1>3. rxq \in Seq(Infos \cup {Junk}) /\ Len(rxq) = 0 /\ Len(Plan) \in Nat
  BY RAAssumption DEF Init
<1>4. Len(rxq) <= MaxQueue /\ item \in 0 .. Len(Plan) /\ routerInfo \in Infos \cup {NoInfo}
  BY <1>3, RAAssumption DEF Init
<1>5. cmd \in [op : {"none", "add", "set"}, id : Nat] /\ calm \in BOOLEAN /\ warned \subseteq Items
  BY DEF Init, Nothing
<1>6. TypeOK
  BY <1>2, <1>3, <1>4, <1>5 DEF Init, TypeOK
<1> QED
  BY <1>1, <1>6 DEF Init, IInv, OneOwnEntry, Pending, Progress, Settled

\* A step that leaves the device alone and does not enter "listen" or a write keeps all but
\* the types by itself.
LEMMA Quiet ==
  ASSUME IInv, UNCHANGED device, pc' \in {"start", "solicit", "await", "holdoff"}
  PROVE  (OneOwnEntry /\ Pending /\ Progress)'
BY DEF IInv, OneOwnEntry, Pending, Progress, Settled

LEMMA Unmoved ==
  ASSUME IInv, UNCHANGED <<worker, device>>
  PROVE  (OneOwnEntry /\ Pending /\ Progress)'
BY DEF IInv, OneOwnEntry, Pending, Progress, Settled, worker, Want, Items

\* reconcile begins with the first item, nothing settled; with an empty plan there is nothing.
LEMMA Begin ==
  ASSUME IInv, UNCHANGED device, GoOn(0), routerInfo' \in Infos
  PROVE  /\ (OneOwnEntry /\ Pending /\ Progress)'
         /\ pc' \in {"print", "listen"} /\ item' \in 0 .. Len(Plan)
         /\ pc' = "print" => item' # 0
BY RAAssumption DEF IInv, OneOwnEntry, Pending, Progress, Settled, GoOn, Items

\* reconcile is through with the current item, which holds what is wanted or is warned about.
LEMMA Advance ==
  ASSUME TypeOK, Progress, pc \in {"print", "write"}, GoOn(item), UNCHANGED routerInfo,
         \A i \in Items \ {item} : device'[i] = device[i],
         warned \subseteq warned',
         item \in warned' \/ AsWanted(Plan[item], device'[item], Want(item, routerInfo))
  PROVE  Progress' /\ Pending'
<1>1. item \in Items
  BY DEF TypeOK, Items
<1>2. \A i \in 1 .. item : i \in Items
  BY <1>1, RAAssumption DEF Items
<1>3. \A i \in (1 .. item) \ warned' : AsWanted(Plan[i], device'[i], Want(i, routerInfo'))
  <2> SUFFICES ASSUME NEW i \in (1 .. item) \ warned'
               PROVE  AsWanted(Plan[i], device'[i], Want(i, routerInfo'))
    OBVIOUS
  <2>1. CASE i = item
    BY <2>1
  <2>2. CASE i # item
    <3>1. i \in Settled \ warned
      BY <1>1, <2>2 DEF Settled, Items
    <3> QED
      BY <1>2, <2>2, <3>1 DEF Progress
  <2> QED
    BY <2>1, <2>2
<1>4. Settled' = 1 .. item
  BY <1>1, RAAssumption DEF GoOn, Settled, Items
<1> QED
  BY <1>3, <1>4 DEF Progress, Pending, GoOn

LEMMA NextInv == IInv /\ [Next]_vars => IInv'
<1> SUFFICES ASSUME IInv, [Next]_vars PROVE IInv'
  OBVIOUS
<1> USE RAAssumption, RANilAssumption
<1>1. CASE HoldoffOver
  <2>1. UNCHANGED <<routerInfo, item, cmd, warned, sock, rxq, device, router, calm>> /\ UNCHANGED <<iface, failed>> /\ pc' = "start"
    BY <1>1 DEF HoldoffOver, net, world
  <2>2. TypeOK'
    BY <2>1 DEF IInv, TypeOK
  <2> QED
    BY <2>1, <2>2, Quiet DEF IInv
<1>2. CASE InitSock
  <2>1. /\ UNCHANGED <<routerInfo, item, cmd, warned, device, router, calm>> /\ pc' = "solicit"
        /\ sock' = "valid" /\ rxq' \in {rxq, <<>>}
        /\ iface' \in {"up", "down", "gone"} /\ failed' \in BOOLEAN
    BY <1>2 DEF InitSock, net, world, IInv, TypeOK
  <2>2. rxq' \in Seq(Infos \cup {Junk}) /\ Len(rxq') <= MaxQueue
    <3>1. rxq' = <<>> => Len(rxq') = 0 /\ rxq' \in Seq(Infos \cup {Junk})
      OBVIOUS
    <3> QED
      BY <2>1, <3>1 DEF IInv, TypeOK
  <2>3. TypeOK'
    BY <2>1, <2>2 DEF IInv, TypeOK
  <2> QED
    BY <2>1, <2>3, Quiet DEF IInv
<1>3. CASE InitSockFails \/ SolicitSendFails \/ AwaitTimeout \/ ReceiveFails \/ ReadFails
  <2>1. /\ UNCHANGED <<routerInfo, item, cmd, warned, sock, rxq, device, router, calm>>
        /\ pc' = "holdoff" /\ (sock = "valid" \/ UNCHANGED <<iface, failed>>)
    BY <1>3 DEF InitSockFails, SolicitSendFails, AwaitTimeout, ReceiveFails, ReadFails, Fail, net, world,
                IInv, TypeOK
  <2>2. iface' \in {"up", "down", "gone"}
    BY <1>3 DEF InitSockFails, SolicitSendFails, AwaitTimeout, ReceiveFails, ReadFails, net, IInv, TypeOK
  <2>3. failed' \in BOOLEAN
    BY <1>3 DEF InitSockFails, SolicitSendFails, AwaitTimeout, ReceiveFails, ReadFails, net, IInv, TypeOK
  <2>4. TypeOK'
    BY <2>1, <2>2, <2>3 DEF IInv, TypeOK
  <2> QED
    BY <2>1, <2>4, Quiet DEF IInv
<1>4. CASE SolicitKnown
  <2>1. routerInfo' \in Infos /\ UNCHANGED device /\ GoOn(0)
    BY <1>4 DEF SolicitKnown, IInv, TypeOK
  <2> QED
    BY <1>4, <2>1, Begin DEF SolicitKnown, IInv, TypeOK, net, world
<1>5. CASE SolicitSend
  BY <1>5, Quiet DEF SolicitSend, IInv, TypeOK, net, world
<1>6. CASE SocketError
  <2>1. rxq' = <<>> /\ Len(rxq') <= MaxQueue /\ rxq' \in Seq(Infos \cup {Junk})
    BY <1>6 DEF SocketError, NoKernelSide
  <2> QED
    <3>1. /\ UNCHANGED <<routerInfo, item, cmd, warned, device, router, calm>> /\ pc' = "holdoff"
          /\ sock' = "dead" /\ iface' = "up" /\ failed' = FALSE
      BY <1>6 DEF SocketError, NoKernelSide, Fail, world
    <3>2. TypeOK'
      BY <2>1, <3>1 DEF IInv, TypeOK
    <3> QED
      BY <3>1, <3>2, Quiet DEF IInv
<1>7. CASE Receiving /\ Fail
  BY <1>7, Quiet DEF Receiving, Fail, IInv, TypeOK, world
<1>8. CASE Receiving /\ Adopt(Head(rxq)) /\ Head(rxq) # Junk
  <2>1. Head(rxq) \in Infos /\ rxq' \in Seq(Infos \cup {Junk}) /\ Len(rxq') <= MaxQueue
    BY <1>8 DEF Receiving, IInv, TypeOK
  <2> QED
    BY <1>8, <2>1, Begin DEF Receiving, Adopt, IInv, TypeOK, world
<1>9. CASE Receiving /\ UNCHANGED worker
  BY <1>9, Unmoved DEF Receiving, IInv, TypeOK, worker, world
<1>10. CASE PrintFails
  <2>1. /\ item \in Items /\ pc \in {"print", "write"} /\ GoOn(item)
        /\ UNCHANGED <<routerInfo, device>> /\ warned' = warned \cup {item}
    BY <1>10 DEF PrintFails, Warn, IInv, TypeOK, Items
  <2>2. Progress' /\ Pending'
    BY <2>1, Advance DEF IInv
  <2> QED
    BY <1>10, <2>1, <2>2
       DEF PrintFails, Warn, GoOn, IInv, TypeOK, OneOwnEntry, Nothing, net, world, Items
<1>11. CASE PrintOK
  <2> DEFINE c == Decide(Plan[item], device[item], Want(item, routerInfo))
  <2>1. /\ item \in Items /\ Plan[item] \in Kinds
        /\ device[item] \in Seq(Entries(Values)) /\ OneOwn(Plan[item], device[item])
        /\ Want(item, routerInfo) \in Values
    BY <1>11, WantType DEF PrintOK, IInv, TypeOK, OneOwnEntry, Items
  <2>2. CASE c = Nothing
    <3>1. AsWanted(Plan[item], device[item], Want(item, routerInfo))
      BY <2>1, <2>2, Decided DEF Nothing, Add, Set
    <3>2. Progress' /\ Pending'
      BY <1>11, <2>2, <3>1, Advance DEF PrintOK, IInv
    <3> QED
      BY <1>11, <2>1, <2>2, <3>2
         DEF PrintOK, GoOn, IInv, TypeOK, OneOwnEntry, Nothing, net, world, Items
  <2>3. CASE c # Nothing
    <3>1. c \in [op : {"none", "add", "set"}, id : Nat]
      BY <2>1, Decided DEF Nothing, Add, Set, Candidates, Ours
    <3>2. /\ pc = "print" /\ pc' = "write" /\ cmd' = c
          /\ UNCHANGED <<routerInfo, item, warned, sock, iface, failed, rxq, device, router, calm>>
      BY <1>11, <2>3 DEF PrintOK, net, world
    <3> HIDE DEF c
    <3>3. Pending' /\ Progress'
      BY <2>3, <3>2 DEF c, IInv, Pending, Progress, Settled, Want, Items
    <3> QED
      BY <2>1, <3>1, <3>2, <3>3 DEF IInv, TypeOK, OneOwnEntry, Items
  <2> QED
    BY <2>2, <2>3
<1>12. CASE WriteOK \/ WriteFails
  <2>1. /\ item \in Items /\ Plan[item] \in Kinds
        /\ device[item] \in Seq(Entries(Values)) /\ OneOwn(Plan[item], device[item])
        /\ Want(item, routerInfo) \in Values
        /\ cmd = Decide(Plan[item], device[item], Want(item, routerInfo)) /\ cmd # Nothing
        /\ pc = "write"
    BY <1>12, WantType DEF WriteOK, WriteFails, IInv, TypeOK, OneOwnEntry, Pending, Items
  <2> DEFINE u == Execute(device[item], cmd, Want(item, routerInfo))
  <2>2. u \in Seq(Entries(Values)) /\ OneOwn(Plan[item], u) /\ AsWanted(Plan[item], u, Want(item, routerInfo))
    BY <2>1, Executed
  <2> HIDE DEF u
  <2>3. device' = device \/ device' = [device EXCEPT ![item] = u]
    BY <1>12 DEF WriteOK, WriteFails, Written, u
  <2>4. /\ \A i \in Items \ {item} : device'[i] = device[i]
        /\ device' \in [Items -> Seq(Entries(Values))]
        /\ OneOwnEntry'
    BY <2>1, <2>2, <2>3 DEF IInv, TypeOK, OneOwnEntry, Items
  <2>5. /\ GoOn(item) /\ cmd' = Nothing /\ UNCHANGED <<routerInfo, sock, iface, failed, rxq, router, calm>>
        /\ warned' \in {warned, warned \cup {item}}
        /\ item \in warned' \/ device' = [device EXCEPT ![item] = u]
    BY <1>12 DEF WriteOK, WriteFails, Written, Warn, net, world, u
  <2>6. item \in warned' \/ AsWanted(Plan[item], device'[item], Want(item, routerInfo))
    BY <2>1, <2>2, <2>5 DEF IInv, TypeOK
  <2>7. Progress' /\ Pending'
    BY <2>1, <2>4, <2>5, <2>6, Advance DEF IInv
  <2> QED
    BY <2>1, <2>4, <2>5, <2>7 DEF GoOn, IInv, TypeOK, Nothing, Items
<1>13. CASE RouterSends \/ JunkArrives
  <2>1. PICK x \in Infos \cup {Junk} : rxq' = Append(rxq, x) /\ Len(rxq) < MaxQueue
    BY <1>13 DEF RouterSends, JunkArrives, IInv, TypeOK
  <2>2. rxq' \in Seq(Infos \cup {Junk}) /\ Len(rxq') <= MaxQueue
    BY <2>1 DEF IInv, TypeOK
  <2>3. /\ UNCHANGED <<sock, iface, failed, pc, routerInfo, item, cmd, warned, device, router, calm>>
        /\ sock = "valid"
    BY <1>13 DEF RouterSends, JunkArrives, worker, world
  <2>4. (OneOwnEntry /\ Pending /\ Progress)'
    BY <2>3, Unmoved DEF worker
  <2> QED
    BY <2>2, <2>3, <2>4 DEF IInv, TypeOK
<1>14. CASE RouterChanges \/ LinkChanges \/ Settle
  <2>1. /\ UNCHANGED <<routerInfo, pc, item, cmd, warned, sock, rxq, device>>
        /\ router' \in Infos /\ calm' \in BOOLEAN
    BY <1>14 DEF RouterChanges, LinkChanges, Settle, worker, net, world, IInv, TypeOK
  <2>2. iface' \in {"up", "down", "gone"} /\ (sock # "valid" => iface' = "up" /\ UNCHANGED failed)
    BY <1>14 DEF RouterChanges, LinkChanges, Settle, net, IInv, TypeOK
  <2>3. failed' \in BOOLEAN
    BY <1>14 DEF RouterChanges, LinkChanges, Settle, net, IInv, TypeOK
  <2>4. TypeOK'
    BY <2>1, <2>2, <2>3 DEF IInv, TypeOK
  <2> QED
    BY <2>1, <2>4, Unmoved DEF IInv, worker
<1>15. CASE Restart
  <2>1. rxq' = <<>> /\ Len(rxq') <= MaxQueue /\ rxq' \in Seq(Infos \cup {Junk})
    BY <1>15 DEF Restart, NoKernelSide
  <2> QED
    <3>1. /\ UNCHANGED <<device, router, calm>> /\ pc' = "start" /\ routerInfo' = NoInfo
          /\ item' \in 0 .. Len(Plan) /\ warned' \subseteq Items
          /\ cmd' \in [op : {"none", "add", "set"}, id : Nat]
          /\ sock' = "none" /\ iface' = "up" /\ failed' = FALSE
      BY <1>15 DEF Restart, NoKernelSide, Nothing, world
    <3>2. TypeOK'
      BY <2>1, <3>1 DEF IInv, TypeOK
    <3> QED
      BY <3>1, <3>2, Quiet DEF IInv
<1>16. CASE UNCHANGED vars
  BY <1>16, Unmoved DEF vars, IInv, TypeOK, worker
<1>17. AwaitAdvert \/ ListenAdvert =>
         \/ Receiving /\ Fail
         \/ Receiving /\ Adopt(Head(rxq)) /\ Head(rxq) # Junk
         \/ Receiving /\ UNCHANGED worker
  BY DEF AwaitAdvert, ListenAdvert
<1> QED
  BY <1>1, <1>2, <1>3, <1>4, <1>5, <1>6, <1>7, <1>8, <1>9, <1>10, <1>11, <1>12, <1>13, <1>14,
     <1>15, <1>16, <1>17 DEF Next, Work, Environment

LEMMA Invariant == Spec => []IInv
BY InitInv, NextInv, PTL DEF Spec

\* The worker's state and the tables of the device stay within their types.
THEOREM TypeCorrect == Spec => []TypeOK
BY Invariant, PTL DEF IInv

\* Restarts and lost replies never make reconcile add a second entry for a plan item.
THEOREM OwnsOneEntry == Spec => []OneOwnEntry
BY Invariant, PTL DEF IInv

\* Whatever reconcile did not warn about is on the device when the worker listens again.
THEOREM AppliesOrWarns == Spec => []AppliedOrWarned
<1>1. IInv => AppliedOrWarned
  BY DEF IInv, Progress, Settled, AppliedOrWarned
<1> QED
  BY <1>1, Invariant, PTL

\* A write goes to an entry that was this program's own when it was printed, and still is.
THEOREM SparesForeign == Spec => ForeignUntouched
<1>1. IInv /\ [Next]_vars =>
        [\A i \in Items : Plan[i] # "pool" => Foreign(device'[i]) = Foreign(device[i])]_vars
  <2> SUFFICES ASSUME IInv, [Next]_vars, NEW i \in Items, Plan[i] # "pool"
               PROVE  Foreign(device'[i]) = Foreign(device[i])
    OBVIOUS
  <2>1. CASE WriteOK \/ WriteFails
    <3>1. device' = device \/ Written
      BY <2>1 DEF WriteOK, WriteFails
    <3>2. CASE Written /\ i = item
      <4>1. /\ Plan[i] \in Kinds /\ device[i] \in Seq(Entries(Values))
            /\ OneOwn(Plan[i], device[i]) /\ Want(i, routerInfo) \in Values
            /\ cmd = Decide(Plan[i], device[i], Want(i, routerInfo)) /\ cmd # Nothing
        BY <2>1, <3>2, RAAssumption, WantType
           DEF WriteOK, WriteFails, IInv, TypeOK, OneOwnEntry, Pending, Items
      <4>2. device'[i] = Execute(device[i], cmd, Want(i, routerInfo))
        BY <3>2 DEF Written, IInv, TypeOK
      <4> QED
        BY <4>1, <4>2, Executed
    <3>3. CASE Written /\ i # item
      BY <3>3 DEF Written, IInv, TypeOK
    <3> QED
      BY <3>1, <3>2, <3>3
  <2>2. CASE UNCHANGED device
    BY <2>2
  <2>3. \/ WriteOK \/ WriteFails \/ UNCHANGED device
    BY DEF Next, Work, Environment, HoldoffOver, InitSock, InitSockFails, SolicitKnown,
           SolicitSend, SolicitSendFails, AwaitAdvert, AwaitTimeout, ListenAdvert, SocketError,
           ReceiveFails, ReadFails, PrintOK, PrintFails, RouterSends, RouterChanges, JunkArrives, LinkChanges,
           Restart, Settle, Receiving, vars
  <2> QED
    BY <2>1, <2>2, <2>3
<1> QED
  BY <1>1, Invariant, PTL DEF Spec, ForeignUntouched

-----------------------------------------------------------------------------
(* The refinement                                                           *)

\* The loop that takes advertisements without a prefix is entered with a routerInfo.
Known == pc = "listen" => routerInfo # NoInfo

LEMMA KnownInv == Spec => []Known
<1>1. Init => Known
  BY DEF Init, Known
<1>2. TypeOK /\ Known /\ [Next]_vars => Known'
  <2> SUFFICES ASSUME TypeOK, Known, [Next]_vars, pc' = "listen" PROVE routerInfo' # NoInfo
    BY DEF Known
  <2> USE RANilAssumption
  <2>1. ASSUME Receiving, Adopt(Head(rxq)), Head(rxq) # Junk PROVE routerInfo' # NoInfo
    BY <2>1 DEF Receiving, Adopt, TypeOK
  <2>2. CASE AwaitAdvert \/ ListenAdvert
    BY <2>1, <2>2 DEF AwaitAdvert, ListenAdvert, Fail, worker, Known
  <2>3. CASE SolicitKnown
    BY <2>3 DEF SolicitKnown
  <2>4. CASE PrintOK \/ PrintFails \/ WriteOK \/ WriteFails
    BY <2>4 DEF PrintOK, PrintFails, WriteOK, WriteFails, Warn, TypeOK
  <2>5. CASE HoldoffOver \/ InitSock \/ InitSockFails \/ SolicitSend \/ SolicitSendFails
             \/ AwaitTimeout \/ SocketError \/ ReceiveFails \/ ReadFails
    BY <2>5 DEF HoldoffOver, InitSock, InitSockFails, SolicitSend, SolicitSendFails,
                AwaitTimeout, SocketError, ReceiveFails, ReadFails, Fail
  <2>6. CASE Environment \/ UNCHANGED vars
    BY <2>6 DEF Environment, RouterSends, RouterChanges, JunkArrives, LinkChanges, Restart, Settle,
                worker, vars, Known
  <2> QED
    BY <2>2, <2>3, <2>4, <2>5, <2>6 DEF Next, Work
<1> QED
  BY <1>1, <1>2, TypeCorrect, PTL DEF Spec

\* RAClient promises what InfoSource says and NDClient builds on: the first routerInfo has a
\* prefix, and only a restart of the process makes it nil again.
THEOREM ImplementsSource == Spec => SourceSpec
<1>1. Init => Source!Init
  BY DEF Init, Source!Init
<1>2. TypeOK /\ Known /\ [Next]_vars => [Source!Next]_routerInfo
  <2> SUFFICES ASSUME TypeOK, Known, [Next]_vars PROVE [Source!Next]_routerInfo
    OBVIOUS
  <2> USE RANilAssumption
  <2>1. CASE AwaitAdvert
    <3>1. CASE UNCHANGED routerInfo
      BY <3>1
    <3>2. CASE routerInfo' = Head(rxq) /\ Head(rxq) \in Infos /\ Head(rxq).prefix # NoPrefix
      BY <3>2 DEF Source!Next, Source!Adopt
    <3>3. \/ UNCHANGED routerInfo
          \/ routerInfo' = Head(rxq) /\ Head(rxq) \in Infos /\ Head(rxq).prefix # NoPrefix
      BY <2>1 DEF AwaitAdvert, Receiving, Adopt, Fail, TypeOK
    <3> QED
      BY <3>1, <3>2, <3>3
  <2>2. CASE ListenAdvert
    <3>1. \/ UNCHANGED routerInfo
          \/ routerInfo' = Head(rxq) /\ Head(rxq) \in Infos
      <4>1. Receiving /\ (Fail \/ UNCHANGED worker \/ (Adopt(Head(rxq)) /\ Head(rxq) # Junk))
        BY <2>2 DEF ListenAdvert
      <4> QED
        BY <4>1 DEF Receiving, Adopt, Fail, worker, TypeOK
    <3>2. routerInfo # NoInfo
      BY <2>2 DEF ListenAdvert, Known
    <3> QED
      BY <3>1, <3>2 DEF Source!Next, Source!Adopt
  <2>3. CASE Restart
    BY <2>3 DEF Restart, Source!Next, Source!Restart
  <2>4. CASE HoldoffOver \/ InitSock \/ InitSockFails \/ SolicitKnown \/ SolicitSend
             \/ SolicitSendFails \/ AwaitTimeout \/ SocketError \/ ReceiveFails \/ ReadFails
             \/ PrintOK \/ PrintFails \/ WriteOK \/ WriteFails
    BY <2>4 DEF HoldoffOver, InitSock, InitSockFails, SolicitKnown, SolicitSend, SolicitSendFails,
                AwaitTimeout, SocketError, ReceiveFails, ReadFails, Fail,
                PrintOK, PrintFails, WriteOK, WriteFails
  <2>5. CASE RouterSends \/ RouterChanges \/ JunkArrives \/ LinkChanges \/ Settle \/ UNCHANGED vars
    BY <2>5 DEF RouterSends, RouterChanges, JunkArrives, LinkChanges, Settle, worker, vars
  <2> QED
    BY <2>1, <2>2, <2>3, <2>4, <2>5 DEF Next, Work, Environment
<1> QED
  BY <1>1, <1>2, TypeCorrect, KnownInv, PTL DEF Spec, SourceSpec, Source!Spec

-----------------------------------------------------------------------------
(* What liveness rests on                                                   *)

\* What the worker did not warn about is on the device, as the device reports it.
THEOREM ListensConfigured ==
  Spec => [](pc = "listen" => \A i \in Items \ warned : Holds(device[i], Want(i, routerInfo)))
<1>1. IInv /\ Known => (pc = "listen" => \A i \in Items \ warned : Holds(device[i], Want(i, routerInfo)))
  <2> SUFFICES ASSUME IInv, Known, pc = "listen", NEW i \in Items \ warned
               PROVE  Holds(device[i], Want(i, routerInfo))
    OBVIOUS
  <2>1. AsWanted(Plan[i], device[i], Want(i, routerInfo))
    BY DEF IInv, Progress, Settled
  <2>2. /\ Plan[i] \in Kinds /\ device[i] \in Seq(Entries(Values)) /\ OneOwn(Plan[i], device[i])
        /\ Want(i, routerInfo) \in Values
    BY RAAssumption, WantType DEF IInv, TypeOK, OneOwnEntry, Items, Known
  <2> QED
    BY <2>1, <2>2, WantedHolds
<1> QED
  BY <1>1, Invariant, KnownInv, PTL

\* Behind its first k packets the buffer holds what the router advertises now.
FreshFrom(k) == \A j \in 1 .. Len(rxq) : j > k => rxq[j] = router

LEMMA FreshTail ==
  ASSUME NEW S, NEW q \in Seq(S), q # <<>>, NEW r, NEW k \in Nat,
         \A j \in 1 .. Len(q) : j > k => q[j] = r
  PROVE  /\ \A j \in 1 .. Len(Tail(q)) : j > k => Tail(q)[j] = r
         /\ k # 0 => \A j \in 1 .. Len(Tail(q)) : j > k - 1 => Tail(q)[j] = r
OBVIOUS

LEMMA FreshAppend ==
  ASSUME NEW S, NEW q \in Seq(S), NEW r, NEW k \in Nat,
         \A j \in 1 .. Len(q) : j > k => q[j] = r
  PROVE  \A j \in 1 .. Len(Append(q, r)) : j > k => Append(q, r)[j] = r
OBVIOUS

\* What happens to the buffer while it is calm.
LEMMA CalmStep ==
  ASSUME calm, [Next]_vars
  PROVE  /\ UNCHANGED <<router, calm>>
         /\ \/ AwaitAdvert \/ ListenAdvert
            \/ RouterSends
            \/ UNCHANGED <<rxq, routerInfo>>
            \/ rxq' = <<>> /\ UNCHANGED routerInfo
<1>1. CASE AwaitAdvert \/ ListenAdvert
  BY <1>1 DEF AwaitAdvert, ListenAdvert, Receiving, world
<1>2. CASE HoldoffOver \/ InitSock \/ InitSockFails
  BY <1>2 DEF HoldoffOver, InitSock, InitSockFails, net, world, Fail
<1>3. CASE SolicitKnown \/ SolicitSend \/ SolicitSendFails
  BY <1>3 DEF SolicitKnown, SolicitSend, SolicitSendFails, net, world, Fail
<1>4. CASE AwaitTimeout \/ SocketError \/ ReceiveFails \/ ReadFails
  BY <1>4 DEF AwaitTimeout, SocketError, NoKernelSide, ReceiveFails, ReadFails, net, world, Fail
<1>5. CASE PrintOK \/ PrintFails \/ WriteOK \/ WriteFails
  BY <1>5 DEF PrintOK, PrintFails, WriteOK, WriteFails, net, world
<1>6. CASE RouterSends
  BY <1>6 DEF RouterSends, world
<1>7. CASE UNCHANGED vars
  BY <1>7 DEF vars
<1>8. ~ (RouterChanges \/ JunkArrives \/ LinkChanges \/ Restart \/ Settle)
  BY DEF RouterChanges, JunkArrives, LinkChanges, Restart, Settle
<1> QED
  BY <1>1, <1>2, <1>3, <1>4, <1>5, <1>6, <1>7, <1>8 DEF Next, Work, Environment

\* Packets from before are a bounded delay: once it is calm no further stale one arrives, and
\* each packet the worker takes leaves one less ahead of the fresh ones.
THEOREM StaleDrainsAway ==
  Spec => [][\A k \in Nat :
               calm /\ FreshFrom(k) =>
                 /\ UNCHANGED <<router, calm>> /\ FreshFrom(k)'
                 /\ (AwaitAdvert \/ ListenAdvert) /\ k # 0 => FreshFrom(k - 1)']_vars
<1>1. TypeOK /\ [Next]_vars =>
        [\A k \in Nat :
           calm /\ FreshFrom(k) =>
             /\ UNCHANGED <<router, calm>> /\ FreshFrom(k)'
             /\ (AwaitAdvert \/ ListenAdvert) /\ k # 0 => FreshFrom(k - 1)']_vars
  <2> SUFFICES ASSUME TypeOK, [Next]_vars, NEW k \in Nat, calm, FreshFrom(k)
               PROVE  /\ UNCHANGED <<router, calm>> /\ FreshFrom(k)'
                      /\ (AwaitAdvert \/ ListenAdvert) /\ k # 0 => FreshFrom(k - 1)'
    OBVIOUS
  <2>0. UNCHANGED <<router, calm>> /\ rxq \in Seq(Infos \cup {Junk})
    BY CalmStep DEF TypeOK
  <2>1. CASE AwaitAdvert \/ ListenAdvert
    <3>1. rxq # <<>> /\ rxq' = Tail(rxq)
      BY <2>1 DEF AwaitAdvert, ListenAdvert, Receiving
    <3> QED
      BY <2>0, <3>1, FreshTail DEF FreshFrom
  <2>2. CASE RouterSends /\ ~ AwaitAdvert /\ ~ ListenAdvert
    <3>1. rxq' = Append(rxq, router)
      BY <2>2 DEF RouterSends
    <3> QED
      BY <2>0, <2>2, <3>1, FreshAppend DEF FreshFrom
  <2>3. CASE ~ AwaitAdvert /\ ~ ListenAdvert /\ (UNCHANGED rxq \/ rxq' = <<>>)
    BY <2>0, <2>3 DEF FreshFrom
  <2> QED
    BY <2>1, <2>2, <2>3, CalmStep
<1> QED
  BY <1>1, TypeCorrect, PTL DEF Spec

\* The worker follows the router, and nothing in the buffer says otherwise.
Following == calm /\ FreshFrom(0) /\ routerInfo = router

LEMMA FollowStep ==
  ASSUME TypeOK, Known, [Next]_vars, calm, FreshFrom(0)
  PROVE  /\ routerInfo = router => Following'
         /\ router.prefix # NoPrefix /\ (AwaitAdvert \/ ListenAdvert) => Following'
<1>0. /\ UNCHANGED <<router, calm>> /\ rxq \in Seq(Infos \cup {Junk})
      /\ router \in Infos /\ routerInfo \in Infos \cup {NoInfo} /\ Junk \notin Infos
  BY CalmStep, RANilAssumption DEF TypeOK
<1>1. CASE AwaitAdvert \/ ListenAdvert
  <2>1. rxq # <<>> /\ rxq' = Tail(rxq)
    BY <1>1 DEF AwaitAdvert, ListenAdvert, Receiving
  <2>2. FreshFrom(0)'
    BY <1>0, <2>1, FreshTail DEF FreshFrom
  <2>3. Head(rxq) = router
    BY <1>0, <2>1 DEF FreshFrom
  <2>4. ListenAdvert => routerInfo' = router
    <3>1. routerInfo \in Infos /\ SameInfo(router) => routerInfo = router
      BY <1>0 DEF SameInfo, Infos
    <3>2. ListenAdvert => routerInfo \in Infos
      BY <1>0 DEF ListenAdvert, Known
    <3> QED
      BY <1>0, <2>3, <3>1, <3>2 DEF ListenAdvert, Adopt, worker
  <2>5. AwaitAdvert /\ router.prefix # NoPrefix => routerInfo' = router
    BY <1>0, <2>3 DEF AwaitAdvert, Adopt
  <2>6. AwaitAdvert /\ routerInfo = router => routerInfo' = router
    BY <1>0, <2>3 DEF AwaitAdvert, Adopt, Fail
  <2> QED
    BY <1>0, <1>1, <2>2, <2>4, <2>5, <2>6 DEF Following
<1>2. CASE RouterSends /\ ~ AwaitAdvert /\ ~ ListenAdvert
  <2>1. rxq' = Append(rxq, router) /\ UNCHANGED routerInfo
    BY <1>2 DEF RouterSends, worker
  <2>2. FreshFrom(0)'
    BY <1>0, <2>1, FreshAppend DEF FreshFrom
  <2> QED
    BY <1>0, <1>2, <2>1, <2>2 DEF Following
<1>3. CASE ~ AwaitAdvert /\ ~ ListenAdvert /\ UNCHANGED routerInfo /\ (UNCHANGED rxq \/ rxq' = <<>>)
  BY <1>0, <1>3 DEF FreshFrom, Following
<1> QED
  BY <1>1, <1>2, <1>3, CalmStep

\* With only fresh packets left, the next one the worker takes makes it follow a router that
\* advertises a prefix, from whatever it believed before, and it follows for good: neither
\* errors nor lost sockets make it forget.
THEOREM FollowsForGood ==
  Spec => [][/\ Following => Following'
             /\ calm /\ FreshFrom(0) /\ router.prefix # NoPrefix /\ (AwaitAdvert \/ ListenAdvert)
                  => Following']_vars
<1>1. TypeOK /\ Known /\ [Next]_vars =>
        [/\ Following => Following'
         /\ calm /\ FreshFrom(0) /\ router.prefix # NoPrefix /\ (AwaitAdvert \/ ListenAdvert)
              => Following']_vars
  BY FollowStep DEF Following
<1> QED
  BY <1>1, TypeCorrect, KnownInv, PTL DEF Spec

\* Once it is calm it is settled whether the worker is stranded: nothing but a restart gets it
\* out of there, and no worker gets there any more.
THEOREM StrandedOrNot == Spec => [][calm => (Stranded' <=> Stranded)]_vars
<1>1. TypeOK /\ Known /\ [Next]_vars => [calm => (Stranded' <=> Stranded)]_vars
  <2> SUFFICES ASSUME TypeOK, Known, [Next]_vars, calm PROVE Stranded' <=> Stranded
    OBVIOUS
  <2>1. CASE HoldoffOver \/ InitSockFails \/ SolicitSend \/ AwaitTimeout \/ ReceiveFails \/ ReadFails
    BY <2>1 DEF HoldoffOver, InitSockFails, SolicitSend, AwaitTimeout, ReceiveFails, ReadFails, Fail,
                net, Stranded
  <2>2. CASE InitSock
    BY <2>2 DEF InitSock, net, TypeOK, Stranded
  <2>3. CASE SolicitSendFails
    BY <2>3 DEF SolicitSendFails, Fail, Stranded
  <2>4. CASE SocketError
    BY <2>4, RANilAssumption DEF SocketError, Known, Stranded
  <2>5. CASE SolicitKnown \/ PrintOK \/ PrintFails \/ WriteOK \/ WriteFails
    <3>1. UNCHANGED <<sock, iface, failed, routerInfo>> /\ routerInfo # NoInfo
      BY <2>5 DEF SolicitKnown, PrintOK, PrintFails, WriteOK, WriteFails, net, TypeOK
    <3> QED
      BY <3>1 DEF Stranded
  <2>6. CASE AwaitAdvert \/ ListenAdvert
    <3>1. ~ failed /\ UNCHANGED <<sock, iface, failed>>
      BY <2>6 DEF AwaitAdvert, ListenAdvert, Receiving
    <3> QED
      BY <3>1 DEF Stranded
  <2>7. CASE RouterSends \/ UNCHANGED vars
    <3>1. UNCHANGED <<sock, iface, failed, pc, routerInfo>>
      BY <2>7 DEF RouterSends, worker, vars
    <3> QED
      BY <3>1 DEF Stranded
  <2>8. ~ (RouterChanges \/ JunkArrives \/ LinkChanges \/ Restart \/ Settle)
    BY DEF RouterChanges, JunkArrives, LinkChanges, Restart, Settle
  <2> QED
    BY <2>1, <2>2, <2>3, <2>4, <2>5, <2>6, <2>7, <2>8 DEF Next, Work, Environment
<1> QED
  BY <1>1, TypeCorrect, KnownInv, PTL DEF Spec

\* The worker listens, and has followed the router.
AtRest == Following /\ pc = "listen" /\ sock = "valid" /\ ~ failed

\* Then it rests: it stays in its loop and writes nothing to the device any more.
THEOREM RestsForGood ==
  Spec => [][AtRest => AtRest' /\ UNCHANGED <<device, warned>>]_vars
<1>1. TypeOK /\ [Next]_vars /\ (Following => Following')
        => [AtRest => AtRest' /\ UNCHANGED <<device, warned>>]_vars
  <2> SUFFICES ASSUME TypeOK, [Next]_vars, AtRest, Following'
               PROVE  AtRest' /\ UNCHANGED <<device, warned>>
    BY DEF AtRest
  <2>1. calm /\ pc = "listen" /\ sock = "valid" /\ ~ failed /\ routerInfo = router /\ rxq \in Seq(Infos \cup {Junk})
        /\ router \in Infos /\ Junk \notin Infos
    BY RANilAssumption DEF AtRest, Following, TypeOK
  <2>2. CASE ListenAdvert
    <3>1. Head(rxq) = router
      BY <2>1, <2>2 DEF ListenAdvert, Receiving, AtRest, Following, FreshFrom
    <3> QED
      BY <2>1, <2>2, <3>1 DEF ListenAdvert, Receiving, SameInfo, worker, AtRest
  <2>3. CASE RouterSends \/ UNCHANGED vars
    <3>1. pc' = pc /\ sock' = sock /\ failed' = failed /\ UNCHANGED <<device, warned>>
      BY <2>3 DEF RouterSends, worker, vars
    <3> QED
      BY <2>1, <3>1 DEF AtRest
  <2>4. ListenAdvert \/ RouterSends \/ UNCHANGED vars
    BY <2>1 DEF Next, Work, Environment, HoldoffOver, InitSock, InitSockFails, SolicitKnown, SolicitSend,
       SolicitSendFails, AwaitAdvert, AwaitTimeout, SocketError, ReceiveFails, ReadFails,
       PrintOK, PrintFails, WriteOK, WriteFails, RouterChanges, JunkArrives,
       LinkChanges, Restart, Settle
  <2> QED
    BY <2>2, <2>3, <2>4
<1>2. TypeOK /\ Known /\ [Next]_vars => (Following => Following')
  BY FollowStep DEF Following
<1> QED
  BY <1>1, <1>2, TypeCorrect, KnownInv, PTL DEF Spec
=============================================================================
