------------------------------ MODULE Startup -------------------------------
(***************************************************************************)
(* From the environment variables to the running workers: loadRAConfig,    *)
(* loadNDConfig, loadROSConfig (config.go), NewROSClient (ros.go), main,   *)
(* and the first use the workers make of what they were given.             *)
(*                                                                         *)
(* A variable is read once, so its value is chosen where it is read.  Of a *)
(* list only the kinds of its items count, of a MAC address only where it  *)
(* comes from.  The functions loadConfig calls are left out: nothing calls *)
(* it.                                                                     *)
(***************************************************************************)
EXTENDS Naturals, Sequences

CONSTANTS
  Timeouts,   \* bound: values of NDP_TIMEOUT
  MaxIfs,     \* bound: external interfaces and MAC addresses listed
  NoClient    \* a nil *ROSClient

ASSUME StartupAssumption == Timeouts \subseteq Nat /\ MaxIfs \in Nat \ {0} /\ NoClient \notin Nat

VARIABLES
  pc,       \* what is read next, then "running", "fatal" (llog.Fatal) or "crashed" (a panic)
  ra,       \* RAConfig
  nd,       \* NDConfig
  needROS,  \* loadNDConfig's second result
  ros       \* the RouterOS client: NoClient, or the port it uses

vars == <<pc, ra, nd, needROS, ros>>

Steps == {"ra", "nd", "prefixes", "excludes", "interfaces", "timeout", "macs", "ros", "dial",
          "running", "fatal", "crashed"}

Init ==
  /\ pc = "ra"
  /\ ra = [mode |-> "off", rosExtIf |-> FALSE, extIPs |-> {}, intIPs |-> {}]
  /\ nd = [mode |-> "off", prefixes |-> {}, excludes |-> {}, extIfs |-> 0, timeoutMs |-> 0,
           advMACs |-> <<>>]
  /\ needROS = FALSE
  /\ ros = NoClient

Fatal == pc' = "fatal" /\ UNCHANGED <<ra, nd, needROS, ros>>

-----------------------------------------------------------------------------
(* loadRAConfig                                                             *)

RAModes == {"ros", "off"}

\* An assignment is to an interface by name or to "@external".
Assignments == {"named", "external"}

AssignmentsParse(items, rosExtIf) ==
  items \subseteq IF rosExtIf THEN Assignments ELSE {"named"}

\* Unset is "ros".  With "off" nothing else is read, so there is no external interface.
LoadRA ==
  /\ pc = "ra"
  /\ \E mode \in RAModes, rosExtIf \in BOOLEAN, extIPs, intIPs \in SUBSET Assignments :
       /\ mode = "ros" => AssignmentsParse(extIPs \cup intIPs, rosExtIf)
       /\ ra' = IF mode = "off" THEN ra
                ELSE [mode |-> mode, rosExtIf |-> rosExtIf, extIPs |-> extIPs, intIPs |-> intIPs]
  /\ pc' = "nd"
  /\ UNCHANGED <<nd, needROS, ros>>

\* An unknown mode, a timeout that is no number, an assignment or a pool that does not parse.
LoadRAFails == pc = "ra" /\ Fatal

-----------------------------------------------------------------------------
(* loadNDConfig                                                             *)

NDModes == {"off", "static", "proxy", "proxy-ros", "proxy-ros:strict"}

\* Unset is "proxy-ros".
LoadMode ==
  /\ pc = "nd"
  /\ \E mode \in NDModes :
       /\ nd' = [nd EXCEPT !.mode = mode]
       /\ pc' = IF mode = "off" THEN "ros" ELSE "prefixes"
       /\ needROS' = (mode = "proxy-ros")
  /\ UNCHANGED <<ra, ros>>

Kinds == {"ra-prefix", "literal"}

AnyPrefixes(items) == TRUE

\* "You cannot use ra-prefix in NDP_PREFIXES while you set RA_MODE=off"
PrefixesAllowed(items) == ra.mode = "off" => "ra-prefix" \notin items

LoadPrefixes ==
  /\ pc = "prefixes"
  /\ \E items \in SUBSET Kinds \ {{}} :
       /\ PrefixesAllowed(items)
       /\ nd' = [nd EXCEPT !.prefixes = items]
  /\ pc' = "excludes"
  /\ UNCHANGED <<ra, needROS, ros>>

\* "ra-externalips" and "ra-internalips" stand for the addresses assigned by loadRAConfig;
\* "none" and the empty sets of addresses exclude nothing.
LoadExcludes ==
  /\ pc = "excludes"
  /\ \E items \in SUBSET Kinds, ext, int \in BOOLEAN :
       nd' = [nd EXCEPT !.excludes =
                items \cup (IF (ext /\ ra.extIPs # {}) \/ (int /\ ra.intIPs # {})
                            THEN {"assigned"} ELSE {})]
  /\ pc' = "interfaces"
  /\ UNCHANGED <<ra, needROS, ros>>

\* The names are not kept.
LoadInterfaces ==
  /\ pc = "interfaces"
  /\ \E n \in 1 .. MaxIfs : nd' = [nd EXCEPT !.extIfs = n]
  /\ pc' = "timeout"
  /\ UNCHANGED <<ra, needROS, ros>>

\* proxy-ros:strict, which pings as well, takes any.
LoadTimeout ==
  /\ pc = "timeout"
  /\ \E t \in Timeouts :
       /\ nd.mode = "proxy-ros" => t >= 10 /\ t <= 5000
       /\ nd' = [nd EXCEPT !.timeoutMs = t]
  /\ pc' = "macs"
  /\ UNCHANGED <<ra, needROS, ros>>

\* A literal address, a RouterOS interface by name, or "@@external", which is
\* RA_ROS_EXTERNAL_INTERFACE.
MACItems == {"literal", "ros", "external"}

IsROS(item) == item \in {"ros", "external"}

AsWritten(items) == items

MACsOf(items) == [i \in DOMAIN items |-> IF IsROS(items[i]) THEN "ros" ELSE "literal"]

OnlyExternal(items) == \E i \in DOMAIN items : items[i] = "external"

NeedsClient(items) == \E i \in DOMAIN items : IsROS(items[i])

\* Unset is "@@external".  Empty items are skipped: of "," nothing is left.
LoadMACs ==
  /\ pc = "macs"
  /\ \E n \in 0 .. MaxIfs : \E items \in [1 .. n -> MACItems] :
       /\ (\E i \in DOMAIN items : items[i] = "external") => ra.rosExtIf
       /\ nd' = [nd EXCEPT !.advMACs = MACsOf(items)]
       /\ needROS' = (needROS \/ NeedsClient(items))
  /\ pc' = "ros"
  /\ UNCHANGED <<ra, ros>>

\* Something is unknown, out of range or does not parse; NDP_INTERNAL_INTERFACES must not be
\* empty in proxy mode.
LoadNDFails ==
  /\ \/ pc \in {"nd", "prefixes", "excludes", "timeout", "macs"}
     \/ pc = "interfaces" /\ nd.mode = "proxy"
  /\ Fatal

-----------------------------------------------------------------------------
(* main: loadROSConfig, NewROSClient and the workers                        *)

ClientWanted == ra.mode = "ros" \/ needROS

WithoutROS ==
  /\ pc = "ros" /\ ~ ClientWanted
  /\ pc' = "running"
  /\ UNCHANGED <<ra, nd, needROS, ros>>

\* What Atoi returns for a number that does not fit: no host has such a port.
OutOfRange == 65536

\* ROS_PORT counts only when Atoi fails, and is zero or out of range then; zero becomes the
\* default for ROS_USETLS.  ROS_USER has no default.
LoadROS ==
  /\ pc = "ros" /\ ClientWanted
  /\ \E port \in {0, OutOfRange}, useTLS \in BOOLEAN :
       ros' = IF port # 0 THEN port ELSE IF useTLS THEN 8729 ELSE 8728
  /\ pc' = "dial"
  /\ UNCHANGED <<ra, nd, needROS>>

LoadROSFails == pc = "ros" /\ ClientWanted /\ Fatal

\* The preflight connection is opened and closed again.
Preflight ==
  /\ pc = "dial" /\ ros # OutOfRange
  /\ pc' = "running"
  /\ UNCHANGED <<ra, nd, needROS, ros>>

PreflightFails == pc = "dial" /\ Fatal

-----------------------------------------------------------------------------
(* The first use                                                            *)

NDWorks == pc = "running" /\ nd.mode # "off"

Crash == pc' = "crashed" /\ UNCHANGED <<ra, nd, needROS, ros>>

\* initSockGroup takes the MAC address at the position of the interface, if there are any.
SocketWithoutMAC ==
  /\ NDWorks
  /\ nd.advMACs # <<>> /\ nd.extIfs > Len(nd.advMACs)
  /\ Crash

\* reconcile runs a command, processNd looks a target up or fetches the MAC address of an
\* interface.
UsesClient ==
  ({ra.mode, nd.mode} \cup {nd.advMACs[i] : i \in DOMAIN nd.advMACs})
    \cap {"ros", "proxy-ros", "proxy-ros:strict"} # {}

CommandWithoutClient == pc = "running" /\ UsesClient /\ ros = NoClient /\ Crash

\* The time that remains is nil for NDP_TIMEOUT=0, and solicitInternal subtracts from it when a
\* packet was no answer.
WaitWithoutLimit == pc = "running" /\ nd.mode = "proxy" /\ nd.timeoutMs = 0 /\ Crash

-----------------------------------------------------------------------------
Next ==
  \/ LoadRA \/ LoadRAFails
  \/ LoadMode \/ LoadPrefixes \/ LoadExcludes \/ LoadInterfaces \/ LoadTimeout \/ LoadMACs
  \/ LoadNDFails
  \/ WithoutROS \/ LoadROS \/ LoadROSFails \/ Preflight \/ PreflightFails
  \/ SocketWithoutMAC \/ CommandWithoutClient \/ WaitWithoutLimit

Spec == Init /\ [][Next]_vars

-----------------------------------------------------------------------------
(* Properties                                                               *)

Works(cfg) == pc \in {"running", "crashed"} /\ cfg.mode # "off"

TypeOK ==
  /\ pc \in Steps
  /\ ra \in [mode : RAModes, rosExtIf : BOOLEAN,
            extIPs : SUBSET Assignments, intIPs : SUBSET Assignments]
  /\ nd \in [mode : NDModes, prefixes : SUBSET Kinds, excludes : SUBSET (Kinds \cup {"assigned"}),
            extIfs : 0 .. MaxIfs, timeoutMs : Timeouts \cup {0},
            advMACs : UNION {[1 .. n -> {"literal", "ros"}] : n \in 0 .. MaxIfs}]
  /\ needROS \in BOOLEAN
  /\ ros \in {NoClient, 8728, 8729, OutOfRange}

\* NDP_ADVERTISE_MACS and NDP_EXTERNAL_INTERFACES correspond one to one (README.md:174).
OneToOne == nd.extIfs = Len(nd.advMACs)

\* loadNDConfig, "second return value is needROS", does not ask for the client in this mode.
StrictOnItsOwn ==
  nd.mode = "proxy-ros:strict" /\ ra.mode = "off" /\ ~ \E i \in DOMAIN nd.advMACs : nd.advMACs[i] = "ros"

\* NDP_TIMEOUT=0 is "no limit" (README.md:176).
NoLimit == nd.mode = "proxy" /\ nd.timeoutMs = 0

\* A configuration that is accepted and has a MAC address for each external interface, as
\* README.md asks, does not make a worker panic, with two exceptions: proxy-ros:strict where
\* nothing else needs the RouterOS client, and no limit in the mode proxy.  (That the MAC
\* addresses are as many as the interfaces, nothing checks.)
CrashesAreKnown == pc = "crashed" /\ OneToOne => StrictOnItsOwn \/ NoLimit

\* What NDClient takes from RAClient's side, the advertised prefix for its own prefixes and the
\* addresses assigned there for its excludes, somebody provides: a RAClient that works.
\* (Excludes written with ra-prefix are not looked at: without RAClient they exclude nothing.)
NothingDangling ==
  Works(nd) /\ ("ra-prefix" \in nd.prefixes \/ "assigned" \in nd.excludes) => Works(ra)
=============================================================================
