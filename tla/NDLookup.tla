------------------------------ MODULE NDLookup ------------------------------
(***************************************************************************)
(* NDClient.processNd (nd.go) where the RouterBoard looks for the target:  *)
(* NDP_MODE proxy-ros and proxy-ros:strict with ROSClient.LookupNeighbor   *)
(* and GetInterfaceMAC (ros.go), and static, which looks for nothing.      *)
(*                                                                         *)
(* A ping makes the RouterBoard look for a neighbor; then its neighbor     *)
(* table is read.  All goroutines share that table, and what they read may *)
(* have changed when the advertisement goes out.  An API call (ROSPool)    *)
(* returns a reply or an error.                                            *)
(*                                                                         *)
(* The environment is the RouterBoard's table, which ages and probes its   *)
(* entries, the hosts, and the API, whose calls fail until it is calm.     *)
(***************************************************************************)
EXTENDS Naturals

CONSTANTS
  Workers,  \* slots for processNd goroutines; bound: how many run at once
  Targets,  \* addresses solicited from outside
  Remote,   \* those behind another router: never neighbors of the RouterBoard
  Nobody    \* the target of an idle slot

ASSUME NDLookupAssumption == Remote \subseteq Targets /\ Nobody \notin Targets

VARIABLES
  mode,     \* NDP_MODE
  rosIf,    \* the MAC address to advertise is that of a RouterOS interface
  wpc,      \* where each goroutine is
  target,   \* its targetIP
  pinged,   \* pingSuccess
  frame,    \* what it writes: "none" yet, "advertisement" or "headless"
  echoes,   \* targets of the pings LookupNeighbor leaves behind; one each is kept
  table,    \* the neighbor table of the RouterBoard
  present,  \* the targets that are there
  calm      \* hosts stay where they are, calls succeed, no packet is lost, MAC addresses parse

vars == <<mode, rosIf, wpc, target, pinged, frame, echoes, table, present, calm>>
config == <<mode, rosIf>>
world == <<present, calm>>

Modes == {"static", "proxy-ros", "proxy-ros:strict"}
WorkerPC == {"idle", "start", "pinging", "printing", "found", "fetching", "sending", "notfound"}

\* "none" stands for no entry and for one that failed, "probing" for an address that is being
\* resolved or confirmed.
Statuses == {"none", "probing", "reachable", "stale"}

Init ==
  /\ mode \in Modes /\ rosIf \in BOOLEAN
  /\ wpc = [w \in Workers |-> "idle"]
  /\ target = [w \in Workers |-> Nobody]
  /\ pinged = [w \in Workers |-> FALSE]
  /\ frame = [w \in Workers |-> "none"]
  /\ echoes = {}
  /\ table = [t \in Targets |-> "none"]
  /\ present \in SUBSET Targets
  /\ calm = FALSE

Goto(w, l) == wpc' = [wpc EXCEPT ![w] = l]

-----------------------------------------------------------------------------
(* The neighbor table                                                       *)

\* Traffic to a target makes the RouterBoard resolve or confirm its address.
Touched(t) ==
  IF t \notin Remote /\ table[t] \in {"none", "stale"}
  THEN [table EXCEPT ![t] = "probing"]
  ELSE table

ProbeEnds(t) ==
  /\ table[t] = "probing"
  /\ \/ t \in present /\ table' = [table EXCEPT ![t] = "reachable"]
     \/ (t \notin present \/ ~ calm) /\ table' = [table EXCEPT ![t] = "none"]
  /\ UNCHANGED <<config, wpc, target, pinged, frame, echoes, world>>

Ages(t) ==
  /\ table[t] = "reachable"
  /\ table' = [table EXCEPT ![t] = "stale"]
  /\ UNCHANGED <<config, wpc, target, pinged, frame, echoes, world>>

\* A host that speaks up is entered unconfirmed; traffic of others touches an entry, and one
\* that is not used may be collected.
OtherTraffic(t) ==
  /\ t \notin Remote
  /\ \/ table[t] = "none" /\ t \in present /\ table' = [table EXCEPT ![t] = "stale"]
     \/ table' = Touched(t)
     \/ table[t] = "stale" /\ table' = [table EXCEPT ![t] = "none"]
  /\ UNCHANGED <<config, wpc, target, pinged, frame, echoes, world>>

-----------------------------------------------------------------------------
(* processNd and LookupNeighbor                                             *)

Solicited(w, t) ==
  /\ wpc[w] = "idle"
  /\ Goto(w, "start")
  /\ target' = [target EXCEPT ![w] = t]
  /\ UNCHANGED <<config, pinged, frame, echoes, table, world>>

StaticFound(w) ==
  /\ wpc[w] = "start" /\ mode = "static"
  /\ Goto(w, "found")
  /\ UNCHANGED <<config, target, pinged, frame, echoes, table, world>>

\* The ping leaves the RouterBoard.
Ping(w) ==
  /\ wpc[w] = "start" /\ mode # "static"
  /\ Goto(w, "pinging")
  /\ table' = Touched(target[w])
  /\ UNCHANGED <<config, target, pinged, frame, echoes, world>>

\* packet-loss is "0" only if the target answered.
PingReply(w) ==
  /\ wpc[w] = "pinging"
  /\ \E success \in BOOLEAN :
       /\ success => target[w] \in present
       /\ calm => (success <=> target[w] \in present)
       /\ pinged' = [pinged EXCEPT ![w] = success]
  /\ Goto(w, "printing")
  /\ UNCHANGED <<config, target, frame, echoes, table, world>>

AnyEntry(w) == table[target[w]] # "none"

Listed(w) == table[target[w]] \in {"reachable", "stale"}

PingIsEnough(w) == pinged[w]

\* The flag handed over the wrong way round.
PingCountsIfStrict(w) == mode = "proxy-ros:strict" /\ pinged[w]

PingCounts(w) == mode # "proxy-ros:strict" /\ pinged[w]

\* Only a neighbor that is listed is pinged once more, by a goroutine of its own; it is an error
\* if its MAC address does not parse, whatever the first ping said.
PrintNeighbor(w) ==
  /\ wpc[w] = "printing"
  /\ \/ (Listed(w) \/ PingCounts(w)) /\ Goto(w, "found")
     \/ ~ Listed(w) /\ ~ PingCounts(w) /\ Goto(w, "notfound")
     \/ Listed(w) /\ ~ calm /\ Goto(w, "notfound")
  /\ echoes' = IF Listed(w) THEN echoes \cup {target[w]} ELSE echoes
  /\ UNCHANGED <<config, target, pinged, frame, table, world>>

LookupFails(w) ==
  /\ wpc[w] \in {"start", "pinging", "printing"} /\ mode # "static" /\ ~ calm
  /\ Goto(w, "notfound")
  /\ UNCHANGED <<config, target, pinged, frame, echoes, table, world>>

\* The second ping; it may as well fail before it gets anywhere.
Echo(t) ==
  /\ t \in echoes
  /\ echoes' = echoes \ {t}
  /\ table' = Touched(t) \/ (~ calm /\ UNCHANGED table)
  /\ UNCHANGED <<config, wpc, target, pinged, frame, world>>

-----------------------------------------------------------------------------
(* processNd, the advertisement                                             *)

Decided(w) ==
  /\ wpc[w] = "found"
  /\ Goto(w, IF rosIf THEN "fetching" ELSE "sending")
  /\ frame' = [frame EXCEPT ![w] = IF rosIf THEN "none" ELSE "advertisement"]
  /\ UNCHANGED <<config, target, pinged, echoes, table, world>>

\* The result of GetInterfaceMAC is used even if it is an error: without a source address
\* makeICMPv6 cannot write the Ethernet header, and returns the rest of the packet.
Fetch(w) ==
  /\ wpc[w] = "fetching"
  /\ Goto(w, "sending")
  /\ frame' = [frame EXCEPT ![w] = "advertisement"]
  /\ UNCHANGED <<config, target, pinged, echoes, table, world>>

FetchFails(w) ==
  /\ wpc[w] = "fetching" /\ ~ calm
  /\ Goto(w, "sending")
  /\ frame' = [frame EXCEPT ![w] = "headless"]
  /\ UNCHANGED <<config, target, pinged, echoes, table, world>>

FinishKeepingPing(w) ==
  /\ wpc[w] \in {"sending", "notfound"}
  /\ Goto(w, "idle")
  /\ target' = [target EXCEPT ![w] = Nobody]
  /\ frame' = [frame EXCEPT ![w] = "none"]
  /\ UNCHANGED <<config, pinged, echoes, table, world>>

\* WriteOnce, or nothing to write.
Finish(w) ==
  /\ wpc[w] \in {"sending", "notfound"}
  /\ Goto(w, "idle")
  /\ target' = [target EXCEPT ![w] = Nobody]
  /\ pinged' = [pinged EXCEPT ![w] = FALSE]
  /\ frame' = [frame EXCEPT ![w] = "none"]
  /\ UNCHANGED <<config, echoes, table, world>>

-----------------------------------------------------------------------------
(* Hosts                                                                    *)

HostMoves(t) ==
  /\ ~ calm
  /\ present' = IF t \in present THEN present \ {t} ELSE present \cup {t}
  /\ UNCHANGED <<config, wpc, target, pinged, frame, echoes, table, calm>>

Settle ==
  /\ ~ calm
  /\ calm' = TRUE
  /\ UNCHANGED <<config, wpc, target, pinged, frame, echoes, table, present>>

-----------------------------------------------------------------------------
Worker(w) ==
  \/ StaticFound(w) \/ Ping(w) \/ PingReply(w) \/ PrintNeighbor(w) \/ LookupFails(w)
  \/ Decided(w) \/ Fetch(w) \/ FetchFails(w) \/ Finish(w)

Environment ==
  \/ Settle
  \/ \E t \in Targets :
       \/ ProbeEnds(t) \/ Ages(t) \/ OtherTraffic(t) \/ HostMoves(t)
       \/ \E w \in Workers : Solicited(w, t)

Next == Environment \/ (\E t \in Targets : Echo(t)) \/ \E w \in Workers : Worker(w)

Spec == Init /\ [][Next]_vars

\* Goroutines run and API calls return (ROSPool: HeldCallReturns, short of a dial that hangs);
\* the RouterBoard's timers for its table run.
FairSpec ==
  /\ Spec
  /\ \A w \in Workers : WF_vars(Worker(w))
  /\ \A t \in Targets : WF_vars(ProbeEnds(t)) /\ WF_vars(Ages(t)) /\ WF_vars(Echo(t))

-----------------------------------------------------------------------------
(* Properties                                                               *)

TypeOK ==
  /\ mode \in Modes /\ rosIf \in BOOLEAN
  /\ wpc \in [Workers -> WorkerPC]
  /\ target \in [Workers -> Targets \cup {Nobody}]
  /\ \A w \in Workers : wpc[w] = "idle" => target[w] = Nobody /\ ~ pinged[w]
  /\ \A w \in Workers : wpc[w] # "idle" => target[w] \in Targets
  /\ pinged \in [Workers -> BOOLEAN]
  /\ frame \in [Workers -> {"none", "advertisement", "headless"}]
  /\ echoes \subseteq Targets
  /\ table \in [Targets -> Statuses]
  /\ \A t \in Remote : table[t] = "none"
  /\ present \subseteq Targets
  /\ calm \in BOOLEAN

Advertises(w, t) == target[w] = t /\ wpc[w] \in {"found", "fetching", "sending"}

\* "proxy-ros:strict ... only clients the RouterBoard reaches directly" (README.md): whatever
\* answers pings from behind another router is not advertised.
StrictMeansDirect ==
  mode = "proxy-ros:strict" => \A w \in Workers, t \in Remote : ~ Advertises(w, t)

\* A host that is gone is not advertised for ever, however often it is solicited and however
\* its entry is touched and read by goroutines at the same time: the first ping of each
\* lookup takes a stale entry out of the accepted ones, and an aged one is not renewed.
GoneIsForgotten ==
  \A t \in Targets :
    [](calm /\ mode # "static" /\ t \notin present => <>[](\A w \in Workers : ~ Advertises(w, t)))

\* Once the API works, in proxy-ros and static, a solicitation for a host that is there gets an
\* advertisement, with its Ethernet header.
PresentIsAnswered ==
  \A w \in Workers, t \in Targets :
    (calm /\ mode # "proxy-ros:strict" /\ t \in present /\ wpc[w] = "start" /\ target[w] = t)
      ~> (target[w] = t /\ wpc[w] = "sending" /\ frame[w] = "advertisement")
=============================================================================
