------------------------------ MODULE RAClient ------------------------------
(***************************************************************************)
(* The Router Advertisement worker (ra.go): a socket, a solicitation, the  *)
(* reconciliation of the RouterOS configuration with what the router       *)
(* advertised, and the loop that listens for changes.                      *)
(*                                                                         *)
(* The environment is the upstream router, which may change its prefix and *)
(* gateway and advertises from time to time; the network interface; the    *)
(* RouterOS API, whose calls may fail before or after they took effect;    *)
(* and whoever restarts the process.  It misbehaves only until it is calm. *)
(***************************************************************************)
EXTENDS RouterOS, FiniteSets

CONSTANTS
  Prefixes,    \* prefixes a router can advertise
  NoPrefix,    \* an advertisement without a prefix option
  Gateways,    \* link-local addresses of routers
  Plan,        \* the configured reconciliation: a sequence of kinds
  Foreigners,  \* values in entries of the device that are not ours
  NoInfo,      \* routerInfo == nil
  Junk,        \* a packet parseICMPv6 rejects
  MaxQueue     \* bound: packets the socket buffers, further ones are lost

ASSUME RAAssumption ==
  /\ NoPrefix \notin Prefixes
  /\ Plan \in Seq(Kinds)
  /\ MaxQueue \in Nat \ {0}

Infos == [prefix : Prefixes \cup {NoPrefix}, gateway : Gateways]

ASSUME RANilAssumption == NoInfo \notin Infos /\ Junk \notin Infos

VARIABLES
  pc,          \* where the worker is
  sock,        \* extSock: "none", "valid" or "dead" (~ isValid)
  iface,       \* the interface extSock is bound to: "up", "down" or "gone" (removed)
  failed,      \* the kernel has an error pending on extSock
  rxq,         \* packets in the socket's buffer
  routerInfo,  \* c.routerInfo
  item,        \* the plan item reconcile is at
  cmd,         \* the command it decided on after its print
  warned,      \* the items whose failure the last reconcile logged
  device,      \* the tables of the RouterOS device, one per plan item
  router,      \* what the upstream router advertises now
  calm         \* the environment has stopped misbehaving

vars == <<pc, sock, iface, failed, rxq, routerInfo, item, cmd, warned, device, router, calm>>
worker == <<pc, routerInfo, item, cmd, warned>>
net == <<sock, iface, failed, rxq>>
world == <<router, calm>>

Items == 1 .. Len(Plan)
Values == Prefixes \cup {NoPrefix} \cup Gateways \cup Foreigners

\* What reconcile wants for a plan item.  Without a prefix ResolveFIP copies nothing and
\* masks with nothing: the item gets its bare suffix, which NoPrefix stands for.
Want(i, info) == IF Plan[i] = "route" THEN info.gateway ELSE info.prefix

Init ==
  /\ pc = "start"
  /\ sock = "none" /\ iface = "up" /\ failed = FALSE
  /\ rxq = <<>>
  /\ routerInfo = NoInfo
  /\ item = 0
  /\ cmd = Nothing
  /\ warned = {}
  /\ device \in [Items -> {<<>>} \cup {<<[val |-> v, ours |-> FALSE]>> : v \in Foreigners}]
  /\ router \in Infos
  /\ calm = FALSE

-----------------------------------------------------------------------------
(* Work and workInternal                                                    *)

\* An error ends workInternal; Work waits ten seconds.
Fail == /\ pc' = "holdoff"
        /\ UNCHANGED <<routerInfo, item, cmd, warned>>

HoldoffOver ==
  /\ pc = "holdoff"
  /\ pc' = "start"
  /\ UNCHANGED <<routerInfo, item, cmd, warned, net, device, world>>

\* What becomes of a socket that is never used again does not matter.
NoKernelSide == iface' = "up" /\ failed' = FALSE /\ rxq' = <<>>

\* A socket that counts as valid is kept, whatever became of its interface.  The kernel binds
\* a new one to an interface that is down as well, and has an error pending on it then.
InitSock ==
  /\ pc = "start"
  /\ \/ sock = "valid" /\ UNCHANGED net
     \/ /\ sock # "valid"
        /\ sock' = "valid" /\ rxq' = <<>>
        /\ iface' \in IF calm THEN {"up"} ELSE {"up", "down"}
        /\ failed' = (iface' = "down")
  /\ pc' = "solicit"
  /\ UNCHANGED <<routerInfo, item, cmd, warned, device, world>>

\* No configured interface exists, or the socket or its filter cannot be set up.
InitSockFails ==
  /\ pc = "start" /\ sock \in {"none", "dead"} /\ ~ calm
  /\ Fail
  /\ UNCHANGED <<net, device, world>>

GoPast(i) == IF i <= Len(Plan) THEN item' = i + 1 /\ pc' = "print"
                               ELSE item' = 0 /\ pc' = "listen"

\* Where reconcile goes after an item: to the next one, or back to workInternal's loop.
GoOn(i) == IF i < Len(Plan) THEN item' = i + 1 /\ pc' = "print"
                            ELSE item' = 0 /\ pc' = "listen"

\* Solicitation is skipped when routerInfo is known from before.
SolicitKnown ==
  /\ pc = "solicit" /\ routerInfo # NoInfo
  /\ GoOn(0)
  /\ warned' = {}
  /\ UNCHANGED <<routerInfo, cmd, net, device, world>>

SolicitSend ==
  /\ pc = "solicit" /\ routerInfo = NoInfo
  /\ iface = "up" /\ failed = FALSE
  /\ pc' = "await"
  /\ UNCHANGED <<routerInfo, item, cmd, warned, net, device, world>>

\* WriteOnce fails: the interface is not up (ENETDOWN or ENXIO; the pending error stays), an
\* error from before it came back is pending and consumed, or the system refuses.  Nothing
\* marks the socket invalid.
SolicitSendFails ==
  /\ pc = "solicit" /\ routerInfo = NoInfo
  /\ \/ iface # "up" /\ UNCHANGED failed
     \/ iface = "up" /\ failed /\ failed' = FALSE
     \/ ~ calm /\ UNCHANGED failed
  /\ Fail
  /\ UNCHANGED <<sock, iface, rxq, device, world>>

\* routerInfo is set under infomu and reconcile begins.
Adopt(info) ==
  /\ routerInfo' = info
  /\ warned' = {}
  /\ GoOn(0)
  /\ UNCHANGED cmd

\* receive, in either wait: the socket is readable.
Receiving ==
  /\ ~ failed /\ rxq # <<>>
  /\ rxq' = Tail(rxq)
  /\ UNCHANGED <<sock, iface, failed, device, world>>

AwaitAnyAdvert ==
  /\ pc = "await"
  /\ Receiving
  /\ IF Head(rxq) = Junk THEN Fail ELSE Adopt(Head(rxq))

AwaitAdvert ==
  /\ pc = "await"
  /\ Receiving
  /\ IF Head(rxq) = Junk \/ (Head(rxq) \in Infos /\ Head(rxq).prefix = NoPrefix)
     THEN Fail
     ELSE Adopt(Head(rxq))

AwaitTimeout ==
  /\ pc = "await" /\ ~ failed /\ rxq = <<>>
  /\ Fail
  /\ UNCHANGED <<net, device, world>>

SamePrefix(info) == info.prefix = routerInfo.prefix

SameInfo(info) == info.prefix = routerInfo.prefix /\ info.gateway = routerInfo.gateway

ListenAdvert ==
  /\ pc = "listen"
  /\ Receiving
  /\ CASE Head(rxq) = Junk -> Fail
       [] Head(rxq) # Junk /\ SameInfo(Head(rxq)) -> UNCHANGED worker
       [] Head(rxq) # Junk /\ ~ SameInfo(Head(rxq)) -> Adopt(Head(rxq))

\* epoll reports the pending error: the socket is not valid any more.
SocketError ==
  /\ pc \in {"await", "listen"} /\ failed
  /\ sock' = "dead" /\ NoKernelSide
  /\ Fail
  /\ UNCHANGED <<device, world>>

\* epoll_wait fails (interrupted, for one); the socket stays.
ReceiveFails ==
  /\ pc \in {"await", "listen"} /\ ~ calm
  /\ Fail
  /\ UNCHANGED <<net, device, world>>

\* The interface goes down, or away, between epollOnce and the read of the packet it found:
\* the read returns the error, which is consumed, and the socket still counts as valid.
ReadFails ==
  /\ pc \in {"await", "listen"} /\ ~ calm
  /\ ~ failed /\ rxq # <<>> /\ iface = "up"
  /\ iface' \in {"down", "gone"}
  /\ Fail
  /\ UNCHANGED <<sock, failed, rxq, device, world>>

-----------------------------------------------------------------------------
(* reconcile: each item prints its table, decides and writes.  A call that   *)
(* fails is logged and the next item is tried.                               *)

\* The first failure ends the reconciliation.
WarnAndStop == warned' = warned \cup {item} /\ item' = 0 /\ pc' = "listen" /\ cmd' = Nothing

Warn == warned' = warned \cup {item} /\ GoOn(item) /\ cmd' = Nothing

PrintErrorIgnored ==
  /\ pc = "print" /\ ~ calm
  /\ cmd' = Add
  /\ pc' = "write"
  /\ UNCHANGED <<routerInfo, item, warned, net, device, world>>

PrintFails ==
  /\ pc = "print" /\ ~ calm
  /\ Warn
  /\ UNCHANGED <<routerInfo, net, device, world>>

PrintOK ==
  /\ pc = "print"
  /\ LET c == Decide(Plan[item], device[item], Want(item, routerInfo)) IN
       IF c = Nothing THEN GoOn(item) /\ cmd' = Nothing
                      ELSE UNCHANGED item /\ pc' = "write" /\ cmd' = c
  /\ UNCHANGED <<routerInfo, warned, net, device, world>>

Written == device' = [device EXCEPT ![item] = Execute(@, cmd, Want(item, routerInfo))]

WriteOK ==
  /\ pc = "write"
  /\ Written
  /\ GoOn(item)
  /\ cmd' = Nothing
  /\ UNCHANGED <<routerInfo, warned, net, world>>

\* The command fails, or it takes effect and the reply is lost or late.
WriteFails ==
  /\ pc = "write" /\ ~ calm
  /\ Written \/ UNCHANGED device
  /\ Warn
  /\ UNCHANGED <<routerInfo, net, world>>

-----------------------------------------------------------------------------
(* The environment                                                          *)

\* An advertisement, solicited or not, that finds room in the buffer.
RouterSends ==
  /\ sock = "valid" /\ iface = "up" /\ Len(rxq) < MaxQueue
  /\ rxq' = Append(rxq, router)
  /\ UNCHANGED <<sock, iface, failed, worker, device, world>>

RouterChanges ==
  /\ ~ calm
  /\ router' \in Infos \ {router}
  /\ UNCHANGED <<worker, net, device, calm>>

\* Something that is no advertisement: it arrived before the filter was attached, or is cut.
JunkArrives ==
  /\ ~ calm
  /\ sock = "valid" /\ iface = "up" /\ Len(rxq) < MaxQueue
  /\ rxq' = Append(rxq, Junk)
  /\ UNCHANGED <<sock, iface, failed, worker, device, world>>

\* The socket's interface comes up, goes down or is removed.  An interface that was up leaves
\* an error; one that is back has its packets delivered again, the error still pending.  One
\* that was removed never comes back: what has its name then is another one.
LinkChanges ==
  /\ ~ calm /\ sock = "valid" /\ iface # "gone"
  /\ iface' \in {"up", "down", "gone"} \ {iface}
  /\ failed' = (failed \/ iface = "up")
  /\ UNCHANGED <<sock, rxq, worker, device, world>>

\* The container stops and starts again: only the device remembers.
Restart ==
  /\ ~ calm
  /\ pc' = "start" /\ sock' = "none" /\ NoKernelSide
  /\ routerInfo' = NoInfo /\ item' = 0 /\ cmd' = Nothing /\ warned' = {}
  /\ UNCHANGED <<device, world>>

\* The configured interface is up from now on.
Settle ==
  /\ ~ calm
  /\ calm' = TRUE
  /\ iface' = IF iface = "gone" THEN "gone" ELSE "up"
  /\ UNCHANGED <<worker, sock, failed, rxq, device, router>>

-----------------------------------------------------------------------------
Work ==
  \/ HoldoffOver \/ InitSock \/ InitSockFails
  \/ SolicitKnown \/ SolicitSend \/ SolicitSendFails
  \/ AwaitAdvert \/ AwaitTimeout \/ ListenAdvert
  \/ SocketError \/ ReceiveFails \/ ReadFails
  \/ PrintOK \/ PrintFails \/ WriteOK \/ WriteFails

Environment ==
  RouterSends \/ RouterChanges \/ JunkArrives \/ LinkChanges \/ Restart \/ Settle

Next == Work \/ Environment

Spec == Init /\ [][Next]_vars

\* The worker goroutine runs, its timers fire and API calls return; the environment calms
\* down and the router keeps advertising.
FairSpec == Spec /\ WF_vars(Work) /\ WF_vars(Settle) /\ WF_vars(RouterSends)

-----------------------------------------------------------------------------
(* Properties                                                               *)

TypeOK ==
  /\ pc \in {"start", "solicit", "await", "print", "write", "listen", "holdoff"}
  /\ sock \in {"none", "valid", "dead"}
  /\ iface \in {"up", "down", "gone"}
  /\ failed \in BOOLEAN
  /\ pc \notin {"start", "holdoff"} => sock = "valid"
  /\ sock # "valid" => iface = "up" /\ ~ failed /\ rxq = <<>>
  /\ rxq \in Seq(Infos \cup {Junk}) /\ Len(rxq) <= MaxQueue
  /\ routerInfo \in Infos \cup {NoInfo}
  /\ item \in 0 .. Len(Plan)
  /\ pc \in {"print", "write"} => item # 0 /\ routerInfo # NoInfo
  /\ cmd \in [op : {"none", "add", "set"}, id : Nat]
  /\ warned \subseteq Items
  /\ device \in [Items -> Seq(Entries(Values))]
  /\ router \in Infos
  /\ calm \in BOOLEAN

\* However often the process is restarted between a print and its write, and whichever
\* replies are lost, reconcile leaves the device one entry of its own per plan item, and one
\* pool per name (ros.go looks its entries up by comment and by name).
OneOwnEntry == \A i \in Items : OneOwn(Plan[i], device[i])

\* Back in the listen loop, every plan item that reconcile did not warn about is on the
\* device as the current routerInfo wants it: to reconcile again would write nothing.
AppliedOrWarned ==
  pc = "listen" => \A i \in Items \ warned : AsWanted(Plan[i], device[i], Want(i, routerInfo))

\* Routes and addresses without this program's comment are never changed or removed.
ForeignUntouched ==
  [][\A i \in Items : Plan[i] # "pool" => Foreign(device'[i]) = Foreign(device[i])]_vars

\* The worker has a socket on an interface that was removed and will never find out: epollOnce
\* has no error to report any more, or is not reached, as the solicitation before it fails
\* in every round.
Stranded ==
  /\ sock = "valid" /\ iface = "gone"
  /\ failed => routerInfo = NoInfo /\ pc # "await"

\* The worker ends up with what the router advertises, whatever happened before: stale
\* advertisements in the buffer, errors, restarts, a socket whose interface went down and came
\* back, or was removed; with one exception, a removed interface the worker cannot notice.
FollowsRouter ==
  [](calm /\ router.prefix # NoPrefix /\ ~ Stranded => <>[](routerInfo = router))

\* RA_MODE=ros gives the advertised prefix and gateway to the RouterBoard (README.md, RA_MODE):
\* with the API, the interface and the router working, the device ends up configured.
DeviceConfigured ==
  (calm /\ router.prefix # NoPrefix /\ ~ Stranded) ~>
    \A i \in Items : Holds(device[i], Want(i, router))

\* What the reconciliation does achieve once the environment is calm, the same exception made:
\* each item is on the device with what the router advertises, or its failure is in the log,
\* and so it stays.
AppliedForGood ==
  [](calm /\ router.prefix # NoPrefix /\ ~ Stranded =>
       <>[](\A i \in Items \ warned : Holds(device[i], Want(i, router))))

\* What NDClient counts on (InfoSource): the first routerInfo has a prefix, and until the
\* process restarts there always is one.
Source == INSTANCE InfoSource WITH
  RouterInfos <- Infos, Prefixless <- {i \in Infos : i.prefix = NoPrefix}, Unset <- NoInfo

SourceSpec == Source!Spec
=============================================================================
