--------------------------- MODULE NDLookupProofs ---------------------------
(***************************************************************************)
(* Proofs about NDLookup, for any number of goroutines and targets.        *)
(*                                                                         *)
(* A target behind another router is never in the neighbor table, which    *)
(* TypeOK says; so under proxy-ros:strict no goroutine ever gets past      *)
(* LookupNeighbor with it, which Direct says of each of them.              *)
(***************************************************************************)
EXTENDS NDLookup, TLAPS

Ahead == {"found", "fetching", "sending"}

Direct ==
  mode = "proxy-ros:strict" => \A w \in Workers : wpc[w] \in Ahead => target[w] \notin Remote

IInv == TypeOK /\ Direct

LEMMA InitInv == Init => IInv
<1> SUFFICES ASSUME Init PROVE IInv
  OBVIOUS
<1>1. TypeOK
  BY NDLookupAssumption DEF Init, TypeOK, WorkerPC, Statuses
<1>2. Direct
  BY DEF Init, Direct, Ahead
<1> QED
  BY <1>1, <1>2 DEF IInv

\* A goroutine goes on: its own entries change, and the table at most at a neighbor's.
LEMMA Moved ==
  ASSUME IInv, NEW w \in Workers, NEW l \in WorkerPC \ {"idle"}, Goto(w, l), wpc[w] # "idle",
         UNCHANGED <<config, target, world>>,
         pinged' \in [Workers -> BOOLEAN], \A v \in Workers : v # w => pinged'[v] = pinged[v],
         frame' \in [Workers -> {"none", "advertisement", "headless"}],
         echoes' \subseteq Targets,
         table' \in [Targets -> Statuses], \A t \in Remote : table'[t] = "none",
         mode = "proxy-ros:strict" /\ l \in Ahead => target[w] \notin Remote
  PROVE  IInv'
<1>1. wpc' \in [Workers -> WorkerPC] /\ wpc'[w] = l /\ \A v \in Workers : v # w => wpc'[v] = wpc[v]
  BY DEF IInv, TypeOK, Goto
<1>2. TypeOK'
  BY <1>1 DEF IInv, TypeOK, config, world
<1>3. Direct'
  BY <1>1 DEF IInv, Direct, config
<1> QED
  BY <1>2, <1>3 DEF IInv

\* Traffic to a target that is no neighbor leaves the table as it is.
LEMMA TouchedType ==
  ASSUME TypeOK, NEW t \in Targets
  PROVE  Touched(t) \in [Targets -> Statuses] /\ \A u \in Remote : Touched(t)[u] = "none"
<1>1. table \in [Targets -> Statuses] /\ (\A u \in Remote : table[u] = "none") /\ Remote \subseteq Targets
  BY NDLookupAssumption DEF TypeOK
<1>2. CASE t \notin Remote /\ table[t] \in {"none", "stale"}
  BY <1>1, <1>2 DEF Touched, Statuses
<1>3. CASE ~ (t \notin Remote /\ table[t] \in {"none", "stale"})
  BY <1>1, <1>3 DEF Touched
<1> QED
  BY <1>2, <1>3

LEMMA WorkerInv ==
  ASSUME IInv, NEW w \in Workers, Worker(w)
  PROVE  IInv'
<1>0. /\ TypeOK
      /\ wpc[w] # "idle" => target[w] \in Targets
      /\ \A u \in Remote : table[u] = "none"
      /\ wpc \in [Workers -> WorkerPC] /\ pinged \in [Workers -> BOOLEAN]
      /\ frame \in [Workers -> {"none", "advertisement", "headless"}]
      /\ echoes \subseteq Targets /\ table \in [Targets -> Statuses]
  BY DEF IInv, TypeOK
<1>1. CASE StaticFound(w)
  BY <1>0, <1>1, Moved DEF StaticFound, WorkerPC
<1>2. CASE Ping(w)
  <2>1. table' = Touched(target[w]) /\ target[w] \in Targets
    BY <1>0, <1>2 DEF Ping
  <2>2. table' \in [Targets -> Statuses] /\ \A u \in Remote : table'[u] = "none"
    BY <1>0, <2>1, TouchedType
  <2>3. Goto(w, "pinging") /\ wpc[w] = "start"
        /\ UNCHANGED <<config, target, pinged, frame, echoes, world>>
    BY <1>2 DEF Ping
  <2> QED
    BY <1>0, <2>2, <2>3, Moved DEF WorkerPC, Ahead
<1>3. CASE PingReply(w)
  <2>1. PICK success \in BOOLEAN : pinged' = [pinged EXCEPT ![w] = success]
    BY <1>3 DEF PingReply
  <2>2. pinged' \in [Workers -> BOOLEAN] /\ \A v \in Workers : v # w => pinged'[v] = pinged[v]
    BY <1>0, <2>1 DEF TypeOK
  <2> QED
    BY <1>0, <1>3, <2>2, Moved DEF PingReply, WorkerPC, Ahead
<1>4. CASE PrintNeighbor(w)
  <2>1. echoes' \subseteq Targets
    BY <1>0, <1>4 DEF PrintNeighbor, TypeOK
  <2>2. PICK l \in {"found", "notfound"} : Goto(w, l) /\ (l = "found" => Listed(w) \/ PingCounts(w))
    BY <1>4 DEF PrintNeighbor
  <2>3. mode = "proxy-ros:strict" /\ l = "found" => target[w] \notin Remote
    BY <1>0, <2>2 DEF Listed, PingCounts
  <2> QED
    BY <1>0, <1>4, <2>1, <2>2, <2>3, Moved DEF PrintNeighbor, WorkerPC, Ahead
<1>5. CASE LookupFails(w)
  BY <1>0, <1>5, Moved DEF LookupFails, WorkerPC, Ahead
<1>6. CASE Decided(w) \/ Fetch(w) \/ FetchFails(w)
  <2>1. wpc[w] \in {"found", "fetching"} /\ \E l \in {"fetching", "sending"} : Goto(w, l)
    BY <1>6 DEF Decided, Fetch, FetchFails
  <2>2. frame' \in [Workers -> {"none", "advertisement", "headless"}]
    BY <1>0, <1>6 DEF Decided, Fetch, FetchFails, TypeOK
  <2>3. UNCHANGED <<config, target, pinged, echoes, table, world>>
    BY <1>6 DEF Decided, Fetch, FetchFails
  <2> QED
    BY <1>0, <2>1, <2>2, <2>3, Moved DEF IInv, Direct, WorkerPC, Ahead
<1>7. CASE Finish(w)
  <2>1. /\ wpc' = [wpc EXCEPT ![w] = "idle"] /\ target' = [target EXCEPT ![w] = Nobody]
        /\ pinged' = [pinged EXCEPT ![w] = FALSE] /\ frame' = [frame EXCEPT ![w] = "none"]
        /\ UNCHANGED <<config, echoes, table, world>>
    BY <1>7 DEF Finish, Goto
  <2>2. TypeOK'
    BY <1>0, <2>1 DEF TypeOK, config, world, WorkerPC
  <2>3. Direct'
    BY <1>0, <2>1 DEF IInv, TypeOK, Direct, config, Ahead
  <2> QED
    BY <2>2, <2>3 DEF IInv
<1> QED
  BY <1>1, <1>2, <1>3, <1>4, <1>5, <1>6, <1>7 DEF Worker

LEMMA NextInv == IInv /\ [Next]_vars => IInv'
<1> SUFFICES ASSUME IInv, [Next]_vars PROVE IInv'
  OBVIOUS
<1> USE NDLookupAssumption
\* What changes the table, the hosts and the pings left behind at most.
<1>1. ASSUME UNCHANGED <<config, wpc, target, pinged, frame>>,
             echoes' \subseteq Targets, present' \subseteq Targets, calm' \in BOOLEAN,
             table' \in [Targets -> Statuses], \A u \in Remote : table'[u] = "none"
      PROVE  IInv'
  BY <1>1 DEF IInv, TypeOK, Direct, config
<1>2. CASE Settle
  BY <1>1, <1>2 DEF Settle, IInv, TypeOK
<1>3. ASSUME NEW t \in Targets, ProbeEnds(t) \/ Ages(t) PROVE IInv'
  BY <1>1, <1>3 DEF ProbeEnds, Ages, world, IInv, TypeOK, Statuses
<1>4. ASSUME NEW t \in Targets, OtherTraffic(t) PROVE IInv'
  <2>1. table' \in [Targets -> Statuses] /\ \A u \in Remote : table'[u] = "none"
    BY <1>4, TouchedType DEF OtherTraffic, IInv, TypeOK, Statuses
  <2> QED
    BY <1>1, <1>4, <2>1 DEF OtherTraffic, world, IInv, TypeOK
<1>5. ASSUME NEW t \in Targets, HostMoves(t) PROVE IInv'
  BY <1>1, <1>5 DEF HostMoves, IInv, TypeOK
<1>6. ASSUME NEW t \in Targets, NEW w \in Workers, Solicited(w, t) PROVE IInv'
  <2>1. /\ wpc' = [wpc EXCEPT ![w] = "start"] /\ target' = [target EXCEPT ![w] = t]
        /\ wpc[w] = "idle" /\ UNCHANGED <<config, pinged, frame, echoes, table, world>>
    BY <1>6 DEF Solicited, Goto
  <2>2. TypeOK'
    BY <2>1 DEF IInv, TypeOK, config, world, WorkerPC
  <2>3. Direct'
    BY <2>1 DEF IInv, TypeOK, Direct, config, Ahead
  <2> QED
    BY <2>2, <2>3 DEF IInv
<1>7. ASSUME NEW t \in Targets, Echo(t) PROVE IInv'
  BY <1>1, <1>7, TouchedType DEF Echo, world, IInv, TypeOK
<1>8. CASE UNCHANGED vars
  BY <1>8 DEF vars, config, world, IInv, TypeOK, Direct
<1> QED
  BY <1>2, <1>3, <1>4, <1>5, <1>6, <1>7, <1>8, WorkerInv DEF Next, Environment

LEMMA Invariant == Spec => []IInv
BY InitInv, NextInv, PTL DEF Spec

\* An idle slot keeps nothing of an earlier solicitation, and the table has neighbors only.
THEOREM TypeCorrect == Spec => []TypeOK
BY Invariant, PTL DEF IInv

\* Under proxy-ros:strict nobody behind another router is advertised, whatever answers pings
\* and however lookups, table and moving hosts interleave.
THEOREM StrictSafe == Spec => []StrictMeansDirect
<1>1. IInv => StrictMeansDirect
  BY DEF IInv, Direct, StrictMeansDirect, Advertises, Ahead
<1> QED
  BY <1>1, Invariant, PTL

-----------------------------------------------------------------------------
(* What liveness rests on                                                   *)

\* A goroutine that will advertise a host that is there.
OnTrack(w, t) ==
  /\ calm /\ mode # "proxy-ros:strict" /\ t \in present /\ target[w] = t
  /\ wpc[w] \in {"start", "pinging", "printing", "found", "fetching", "sending"}
  /\ wpc[w] = "printing" => pinged[w]
  /\ wpc[w] = "sending" => frame[w] = "advertisement"

Stage(l) ==
  CASE l = "start" -> 1
    [] l = "pinging" -> 2
    [] l = "printing" -> 3
    [] l = "found" -> 4
    [] l = "fetching" -> 5
    [] OTHER -> 6

LEMMA StageValues ==
  /\ Stage("start") = 1 /\ Stage("pinging") = 2 /\ Stage("printing") = 3
  /\ Stage("found") = 4 /\ Stage("fetching") = 5 /\ Stage("sending") = 6
BY DEF Stage

\* Once the API works, a goroutine that looks for a host that is there is on its way to an
\* advertisement with its header, each of its steps takes it further, and nothing leads it astray:
\* not the state of the table, nor what others read from it or do to it.
THEOREM StaysOnTrack ==
  Spec => [][\A w \in Workers, t \in Targets :
               OnTrack(w, t) => \/ OnTrack(w, t)' /\ wpc'[w] = wpc[w]
                                \/ OnTrack(w, t)' /\ Stage(wpc'[w]) > Stage(wpc[w])
                                \/ wpc[w] = "sending" /\ Finish(w)]_vars
<1> DEFINE Fine(w, t) == \/ OnTrack(w, t)' /\ wpc'[w] = wpc[w]
                         \/ OnTrack(w, t)' /\ Stage(wpc'[w]) > Stage(wpc[w])
                         \/ wpc[w] = "sending" /\ Finish(w)
<1>1. TypeOK /\ [Next]_vars => [\A w \in Workers, t \in Targets : OnTrack(w, t) => Fine(w, t)]_vars
  <2> SUFFICES ASSUME TypeOK, [Next]_vars, NEW v \in Workers, NEW t \in Targets, OnTrack(v, t)
               PROVE  Fine(v, t)
    OBVIOUS
  <2>0. /\ wpc \in [Workers -> WorkerPC] /\ target \in [Workers -> Targets \cup {Nobody}]
        /\ pinged \in [Workers -> BOOLEAN]
        /\ frame \in [Workers -> {"none", "advertisement", "headless"}]
    BY DEF TypeOK
  <2>1. ASSUME UNCHANGED <<mode, present, calm>>,
               wpc'[v] = wpc[v], target'[v] = target[v], pinged'[v] = pinged[v],
               frame'[v] = frame[v]
        PROVE  Fine(v, t)
    BY <2>1 DEF OnTrack
  <2>2. CASE StaticFound(v) \/ Ping(v)
    <3>1. wpc[v] = "start" /\ wpc'[v] \in {"found", "pinging"}
      BY <2>0, <2>2 DEF StaticFound, Ping, Goto
    <3>2. OnTrack(v, t)'
      BY <2>0, <2>2, <3>1 DEF StaticFound, Ping, OnTrack, config, world
    <3> QED
      BY <3>1, <3>2, StageValues
  <2>3. CASE PingReply(v)
    <3>1. wpc[v] = "pinging" /\ wpc'[v] = "printing" /\ pinged'[v]
      BY <2>0, <2>3 DEF PingReply, Goto, OnTrack
    <3>2. OnTrack(v, t)'
      BY <2>0, <2>3, <3>1 DEF PingReply, OnTrack, config, world
    <3> QED
      BY <3>1, <3>2, StageValues
  <2>4. CASE PrintNeighbor(v)
    <3>1. wpc[v] = "printing" /\ wpc'[v] = "found"
      BY <2>0, <2>4 DEF PrintNeighbor, Goto, OnTrack, PingCounts
    <3>2. OnTrack(v, t)'
      BY <2>0, <2>4, <3>1 DEF PrintNeighbor, OnTrack, config, world
    <3> QED
      BY <3>1, <3>2, StageValues
  <2>5. CASE Decided(v)
    <3>1. /\ wpc[v] = "found" /\ wpc'[v] \in {"fetching", "sending"}
          /\ wpc'[v] = "sending" => frame'[v] = "advertisement"
      BY <2>0, <2>5 DEF Decided, Goto
    <3>2. OnTrack(v, t)'
      BY <2>0, <2>5, <3>1 DEF Decided, OnTrack, config, world
    <3> QED
      BY <3>1, <3>2, StageValues
  <2>6. CASE Fetch(v)
    <3>1. wpc[v] = "fetching" /\ wpc'[v] = "sending" /\ frame'[v] = "advertisement"
      BY <2>0, <2>6 DEF Fetch, Goto
    <3>2. OnTrack(v, t)'
      BY <2>0, <2>6, <3>1 DEF Fetch, OnTrack, config, world
    <3> QED
      BY <3>1, <3>2, StageValues
  <2>7. CASE Finish(v)
    BY <2>7 DEF Finish, OnTrack
  <2>8. ~ LookupFails(v) /\ ~ FetchFails(v) /\ ~ Settle
        /\ \A u \in Targets : ~ HostMoves(u) /\ ~ Solicited(v, u)
    BY DEF LookupFails, FetchFails, Settle, HostMoves, Solicited, OnTrack
  <2>9. ASSUME NEW w \in Workers, w # v, Worker(w) \/ \E u \in Targets : Solicited(w, u)
        PROVE  Fine(v, t)
    <3>1. /\ UNCHANGED <<mode, present, calm>>
          /\ wpc'[v] = wpc[v] /\ target'[v] = target[v] /\ pinged'[v] = pinged[v]
          /\ frame'[v] = frame[v]
      BY <2>0, <2>9 DEF Worker, StaticFound, Ping, PingReply, PrintNeighbor, LookupFails, Decided,
                        Fetch, FetchFails, Finish, Solicited, Goto, config, world
    <3> QED
      BY <2>1, <3>1
  <2>10. ASSUME NEW u \in Targets, ProbeEnds(u) \/ Ages(u) \/ OtherTraffic(u) \/ Echo(u)
         PROVE  Fine(v, t)
    BY <2>1, <2>10 DEF ProbeEnds, Ages, OtherTraffic, Echo, config, world
  <2>11. CASE UNCHANGED vars
    BY <2>1, <2>11 DEF vars
  <2>12. Worker(v) => Fine(v, t)
    BY <2>2, <2>3, <2>4, <2>5, <2>6, <2>7, <2>8 DEF Worker
  <2> HIDE DEF Fine
  <2> QED
    BY <2>8, <2>9, <2>10, <2>11, <2>12 DEF Next, Environment
<1> QED
  BY <1>1, TypeCorrect, PTL DEF Spec

\* A host that is gone, with the network and the API calm.
Gone(t) == calm /\ mode # "static" /\ t \notin present

Level(status) == CASE status = "reachable" -> 2 [] status = "stale" -> 1 [] OTHER -> 0

LEMMA LevelValues ==
  Level("reachable") = 2 /\ Level("stale") = 1 /\ Level("probing") = 0 /\ Level("none") = 0
BY DEF Level

LEMMA GoneStep ==
  ASSUME TypeOK, [Next]_vars, NEW t \in Targets, Gone(t)
  PROVE  Gone(t)' /\ Level(table'[t]) <= Level(table[t])
<1>0. table \in [Targets -> Statuses] /\ target \in [Workers -> Targets \cup {Nobody}]
      /\ \A w \in Workers : wpc[w] # "idle" => target[w] \in Targets
  BY DEF TypeOK
<1>1. UNCHANGED <<mode, calm>> /\ t \notin present'
  <2>1. \A w \in Workers : Worker(w) => UNCHANGED <<mode, calm, present>>
    BY DEF Worker, StaticFound, Ping, PingReply, PrintNeighbor, LookupFails, Decided,
           Fetch, FetchFails, Finish, config, world
  <2>2. \A u \in Targets : Echo(u) \/ ProbeEnds(u) \/ Ages(u) \/ OtherTraffic(u)
                             => UNCHANGED <<mode, calm, present>>
    BY DEF Echo, ProbeEnds, Ages, OtherTraffic, config, world
  <2>3. \A u \in Targets, w \in Workers : Solicited(w, u) => UNCHANGED <<mode, calm, present>>
    BY DEF Solicited, config, world
  <2>4. ~ Settle /\ \A u \in Targets : ~ HostMoves(u)
    BY DEF Settle, HostMoves, Gone
  <2>5. UNCHANGED vars => UNCHANGED <<mode, calm, present>>
    BY DEF vars
  <2>6. UNCHANGED <<mode, calm, present>>
    BY <2>1, <2>2, <2>3, <2>4, <2>5 DEF Next, Environment
  <2> QED
    BY <2>6 DEF Gone
<1>2. ASSUME NEW u \in Targets
      PROVE  Touched(u)[t] \in {table[t], "probing"}
             /\ (Touched(u)[t] # table[t] => table[t] \in {"none", "stale"})
  BY <1>0 DEF Touched
<1>3. \/ table'[t] = table[t]
      \/ table[t] \in {"none", "stale"} /\ table'[t] = "probing"
      \/ table[t] \in {"probing", "stale"} /\ table'[t] = "none"
      \/ table[t] = "reachable" /\ table'[t] = "stale"
  <2>1. ASSUME NEW u \in Targets, ProbeEnds(u) \/ Ages(u)
        PROVE  \/ table'[t] = table[t]
               \/ table[t] = "probing" /\ table'[t] = "none"
               \/ table[t] = "reachable" /\ table'[t] = "stale"
    BY <1>0, <2>1 DEF ProbeEnds, Ages, Gone
  <2>2. ASSUME NEW u \in Targets, OtherTraffic(u) \/ Echo(u)
        PROVE  \/ table'[t] = table[t]
               \/ table[t] = "stale" /\ table'[t] = "none"
               \/ table[t] \in {"none", "stale"} /\ table'[t] = "probing"
    BY <1>0, <1>2, <2>2 DEF OtherTraffic, Echo, Gone
  <2>3. ASSUME NEW w \in Workers, Worker(w)
        PROVE  \/ table'[t] = table[t]
               \/ table[t] \in {"none", "stale"} /\ table'[t] = "probing"
    <3>1. CASE Ping(w)
      BY <1>0, <1>2, <3>1 DEF Ping
    <3>2. CASE ~ Ping(w)
      BY <2>3, <3>2 DEF Worker, StaticFound, PingReply, PrintNeighbor, LookupFails, Decided,
                        Fetch, FetchFails, Finish
    <3> QED
      BY <3>1, <3>2
  <2>4. ASSUME UNCHANGED vars \/ Settle
               \/ \E u \in Targets : HostMoves(u) \/ \E w \in Workers : Solicited(w, u)
        PROVE  table'[t] = table[t]
    BY <2>4 DEF vars, Settle, HostMoves, Solicited
  <2> QED
    BY <2>1, <2>2, <2>3, <2>4 DEF Next, Environment
<1>4. Level(table'[t]) <= Level(table[t])
  <2>1. table[t] \in Statuses
    BY <1>0
  <2> QED
    BY <1>3, <2>1, LevelValues DEF Statuses
<1> QED
  BY <1>1, <1>4 DEF Gone

\* Its entry only gets worse: neither probes nor pings nor other traffic renew it, and it is
\* never entered again.
THEOREM GoneOnlyAges ==
  Spec => [][\A t \in Targets : Gone(t) => Gone(t)' /\ Level(table'[t]) <= Level(table[t])]_vars
<1>1. TypeOK /\ [Next]_vars =>
        [\A t \in Targets : Gone(t) => Gone(t)' /\ Level(table'[t]) <= Level(table[t])]_vars
  BY GoneStep
<1> QED
  BY <1>1, TypeCorrect, PTL DEF Spec

\* It has left the accepted entries, and no goroutine has seen it there or heard from it.
Unaware(w, t) ==
  target[w] = t => /\ wpc[w] \in {"start", "pinging", "printing", "notfound"}
                   /\ wpc[w] = "printing" => ~ pinged[w]

Forgotten(t) ==
  Gone(t) /\ table[t] \in {"none", "probing"} /\ \A w \in Workers : Unaware(w, t)

\* Forgotten once is forgotten for good, however often the host is solicited, and nobody
\* advertises it.
THEOREM ForgottenForGood ==
  Spec => [][\A t \in Targets : Forgotten(t) => /\ Forgotten(t)'
                                                /\ \A w \in Workers : ~ Advertises(w, t)]_vars
<1>1. TypeOK /\ TypeOK' /\ [Next]_vars =>
        [\A t \in Targets : Forgotten(t) => /\ Forgotten(t)'
                                            /\ \A w \in Workers : ~ Advertises(w, t)]_vars
  <2> SUFFICES ASSUME TypeOK, TypeOK', [Next]_vars, NEW t \in Targets, Forgotten(t)
               PROVE  Forgotten(t)' /\ \A w \in Workers : ~ Advertises(w, t)
    OBVIOUS
  <2>0. /\ wpc \in [Workers -> WorkerPC] /\ target \in [Workers -> Targets \cup {Nobody}]
        /\ pinged \in [Workers -> BOOLEAN]
    BY DEF TypeOK
  <2>1. \A w \in Workers : ~ Advertises(w, t)
    BY DEF Advertises, Forgotten, Unaware
  <2>2. Gone(t)' /\ table'[t] \in {"none", "probing"}
    <3>1. Gone(t)' /\ Level(table'[t]) <= Level(table[t])
      BY GoneStep DEF Forgotten
    <3>2. Level(table[t]) = 0 /\ table'[t] \in Statuses
      BY LevelValues DEF Forgotten, TypeOK
    <3> QED
      BY <3>1, <3>2, LevelValues DEF Statuses
  <2>3. ASSUME NEW v \in Workers PROVE Unaware(v, t)'
    <3>0. Unaware(v, t)
      BY DEF Forgotten
    <3>1. CASE wpc'[v] = wpc[v] /\ target'[v] = target[v] /\ pinged'[v] = pinged[v]
      BY <3>0, <3>1 DEF Unaware
    <3>2. CASE StaticFound(v) \/ Ping(v)
      BY <2>0, <3>0, <3>2 DEF StaticFound, Ping, Goto, Forgotten, Gone, Unaware
    <3>3. CASE PingReply(v)
      BY <2>0, <3>0, <3>3 DEF PingReply, Goto, Forgotten, Gone, Unaware
    <3>4. CASE PrintNeighbor(v)
      <4>1. target[v] = t => ~ Listed(v) /\ ~ PingCounts(v)
        BY <3>0, <3>4 DEF PrintNeighbor, Listed, PingCounts, Forgotten, Unaware
      <4> QED
        BY <2>0, <4>1, <3>4 DEF PrintNeighbor, Goto, Unaware
    <3>5. CASE LookupFails(v)
      BY <2>0, <3>5 DEF LookupFails, Goto, Unaware
    <3>6. CASE Decided(v) \/ Fetch(v) \/ FetchFails(v)
      BY <2>0, <3>0, <3>6 DEF Decided, Fetch, FetchFails, Goto, Unaware
    <3>7. CASE Finish(v)
      BY <2>0, <3>7, NDLookupAssumption DEF Finish, Unaware
    <3>8. ASSUME NEW u \in Targets, Solicited(v, u) PROVE Unaware(v, t)'
      BY <2>0, <3>8 DEF Solicited, Goto, Unaware
    <3>9. ASSUME NEW w \in Workers, w # v, Worker(w) \/ \E u \in Targets : Solicited(w, u)
          PROVE  wpc'[v] = wpc[v] /\ target'[v] = target[v] /\ pinged'[v] = pinged[v]
      BY <2>0, <3>9 DEF Worker, StaticFound, Ping, PingReply, PrintNeighbor, LookupFails, Decided,
                        Fetch, FetchFails, Finish, Solicited, Goto
    <3>10. ASSUME NEW u \in Targets, ProbeEnds(u) \/ Ages(u) \/ OtherTraffic(u) \/ HostMoves(u) \/ Echo(u)
           PROVE  UNCHANGED <<wpc, target, pinged>>
      BY <3>10 DEF ProbeEnds, Ages, OtherTraffic, HostMoves, Echo
    <3>11. UNCHANGED vars \/ Settle => UNCHANGED <<wpc, target, pinged>>
      BY DEF vars, Settle
    <3>12. Worker(v) => Unaware(v, t)'
      BY <3>2, <3>3, <3>4, <3>5, <3>6, <3>7 DEF Worker
    <3> QED
      BY <3>1, <3>8, <3>9, <3>10, <3>11, <3>12 DEF Next, Environment
  <2> QED
    BY <2>1, <2>2, <2>3 DEF Forgotten
<1> QED
  BY <1>1, TypeCorrect, PTL DEF Spec
=============================================================================
