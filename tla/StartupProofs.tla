--------------------------- MODULE StartupProofs ---------------------------
(***************************************************************************)
(* Proofs about Startup, for any number of interfaces and any timeouts.    *)
(*                                                                         *)
(* What a crash depends on is decided several variables earlier: NeedKnown *)
(* relates the need for a client to what asks for it, ClientKnown the      *)
(* client to the need, and Provided what NDClient takes from RAClient's    *)
(* side to RA_MODE.                                                        *)
(***************************************************************************)
EXTENDS Startup, TLAPS

HasROS == \E i \in DOMAIN nd.advMACs : nd.advMACs[i] = "ros"

NeedKnown ==
  /\ nd.mode = "proxy-ros" \/ HasROS => needROS
  /\ pc \in {"ra", "nd"} => ~ HasROS

ClientKnown ==
  /\ pc = "running" /\ ClientWanted => ros # NoClient
  /\ pc = "dial" => ros # NoClient

Provided ==
  /\ ra.mode = "off" => ra.extIPs = {} /\ ra.intIPs = {}
  /\ pc # "ra" /\ ("ra-prefix" \in nd.prefixes \/ "assigned" \in nd.excludes) => ra.mode # "off"
  /\ pc = "ra" => nd.prefixes = {} /\ nd.excludes = {}

IInv == TypeOK /\ NeedKnown /\ ClientKnown /\ Provided /\ CrashesAreKnown

LEMMA InitInv == Init => IInv
<1> SUFFICES ASSUME Init PROVE IInv
  OBVIOUS
<1>1. nd.advMACs \in [1 .. 0 -> {"literal", "ros"}] /\ 0 \in 0 .. MaxIfs
  BY StartupAssumption DEF Init
<1>2. TypeOK
  BY <1>1 DEF Init, TypeOK, Steps, RAModes, NDModes
<1> QED
  BY <1>2 DEF Init, IInv, NeedKnown, HasROS, ClientKnown, Provided, CrashesAreKnown

\* The configuration stays as it is, and the worker does not crash.
LEMMA Kept ==
  ASSUME IInv, UNCHANGED <<ra, nd, needROS>>, pc # "ra", pc' \in Steps \ {"ra", "nd", "crashed"}
  PROVE  (NeedKnown /\ Provided /\ CrashesAreKnown)'
BY DEF IInv, NeedKnown, HasROS, Provided, CrashesAreKnown

LEMMA NextInv == IInv /\ [Next]_vars => IInv'
<1> SUFFICES ASSUME IInv, [Next]_vars PROVE IInv'
  OBVIOUS
<1> USE StartupAssumption
<1>1. CASE LoadRA
  <2>1. /\ pc = "ra" /\ pc' = "nd" /\ UNCHANGED <<nd, needROS, ros>>
        /\ \/ ra' = ra
           \/ \E x \in BOOLEAN, e, i \in SUBSET Assignments :
                ra' = [mode |-> "ros", rosExtIf |-> x, extIPs |-> e, intIPs |-> i]
    BY <1>1 DEF LoadRA, RAModes
  <2>2. TypeOK'
    BY <2>1 DEF IInv, TypeOK, Steps, RAModes
  <2>3. (NeedKnown /\ ClientKnown /\ CrashesAreKnown)'
    BY <2>1 DEF IInv, NeedKnown, HasROS, ClientKnown, CrashesAreKnown
  <2>4. Provided'
    BY <2>1 DEF IInv, Provided
  <2> QED
    BY <2>2, <2>3, <2>4 DEF IInv
<1>2. CASE LoadMode
  <2>1. PICK mode \in NDModes :
          /\ nd' = [nd EXCEPT !.mode = mode]
          /\ pc' = IF mode = "off" THEN "ros" ELSE "prefixes"
          /\ needROS' = (mode = "proxy-ros")
          /\ pc = "nd" /\ UNCHANGED <<ra, ros>>
    BY <1>2 DEF LoadMode
  <2>2. /\ nd' = [nd EXCEPT !.mode = mode]
        /\ pc = "nd" /\ pc' \in {"ros", "prefixes"} /\ UNCHANGED <<ra, ros>>
    BY <2>1
  <2>3. needROS' \in BOOLEAN /\ (mode = "proxy-ros" => needROS')
    BY <2>1, Zenon
  <2>4. TypeOK'
    BY <2>2, <2>3 DEF IInv, TypeOK, Steps
  <2>5. NeedKnown'
    BY <2>2, <2>3 DEF IInv, TypeOK, NeedKnown, HasROS
  <2>6. (ClientKnown /\ CrashesAreKnown)'
    BY <2>2 DEF ClientKnown, CrashesAreKnown
  <2>7. Provided'
    BY <2>2 DEF IInv, TypeOK, Provided
  <2> QED
    BY <2>4, <2>5, <2>6, <2>7 DEF IInv
<1>3. CASE LoadPrefixes
  <2>1. PICK items \in SUBSET Kinds :
          /\ PrefixesAllowed(items)
          /\ nd' = [nd EXCEPT !.prefixes = items]
          /\ pc = "prefixes" /\ pc' = "excludes" /\ UNCHANGED <<ra, needROS, ros>>
    BY <1>3 DEF LoadPrefixes
  <2>2. TypeOK'
    BY <2>1 DEF IInv, TypeOK, Steps
  <2>3. (NeedKnown /\ ClientKnown /\ CrashesAreKnown)'
    BY <2>1 DEF IInv, TypeOK, NeedKnown, HasROS, ClientKnown, CrashesAreKnown
  <2>4. Provided'
    BY <2>1 DEF IInv, TypeOK, Provided, PrefixesAllowed
  <2> QED
    BY <2>2, <2>3, <2>4 DEF IInv
<1>4. CASE LoadExcludes
  <2>1. PICK x \in SUBSET (Kinds \cup {"assigned"}) :
          /\ nd' = [nd EXCEPT !.excludes = x]
          /\ "assigned" \in x => ra.extIPs # {} \/ ra.intIPs # {}
          /\ pc = "excludes" /\ pc' = "interfaces" /\ UNCHANGED <<ra, needROS, ros>>
    BY <1>4 DEF LoadExcludes, Kinds
  <2>2. TypeOK'
    BY <2>1 DEF IInv, TypeOK, Steps
  <2>3. (NeedKnown /\ ClientKnown /\ CrashesAreKnown)'
    BY <2>1 DEF IInv, TypeOK, NeedKnown, HasROS, ClientKnown, CrashesAreKnown
  <2>4. Provided'
    BY <2>1 DEF IInv, TypeOK, Provided
  <2> QED
    BY <2>2, <2>3, <2>4 DEF IInv
<1>5. CASE LoadInterfaces
  <2>1. PICK n \in 1 .. MaxIfs :
          /\ nd' = [nd EXCEPT !.extIfs = n]
          /\ pc = "interfaces" /\ pc' = "timeout" /\ UNCHANGED <<ra, needROS, ros>>
    BY <1>5 DEF LoadInterfaces
  <2> QED
    BY <2>1 DEF IInv, TypeOK, Steps, NeedKnown, HasROS, ClientKnown, Provided, CrashesAreKnown
<1>6. CASE LoadTimeout
  <2>1. PICK t \in Timeouts :
          /\ nd' = [nd EXCEPT !.timeoutMs = t]
          /\ pc = "timeout" /\ pc' = "macs" /\ UNCHANGED <<ra, needROS, ros>>
    BY <1>6 DEF LoadTimeout
  <2> QED
    BY <2>1 DEF IInv, TypeOK, Steps, NeedKnown, HasROS, ClientKnown, Provided, CrashesAreKnown
<1>7. CASE LoadMACs
  <2>0. PICK n \in 0 .. MaxIfs : \E items \in [1 .. n -> MACItems] :
          /\ nd' = [nd EXCEPT !.advMACs = MACsOf(items)]
          /\ needROS' = (needROS \/ NeedsClient(items))
          /\ pc = "macs" /\ pc' = "ros" /\ UNCHANGED <<ra, ros>>
    BY <1>7 DEF LoadMACs
  <2>1. PICK items \in [1 .. n -> MACItems] :
          /\ nd' = [nd EXCEPT !.advMACs = MACsOf(items)]
          /\ needROS' = (needROS \/ NeedsClient(items))
          /\ pc = "macs" /\ pc' = "ros" /\ UNCHANGED <<ra, ros>>
    BY <2>0
  <2>2. /\ nd' = [nd EXCEPT !.advMACs = MACsOf(items)]
        /\ pc = "macs" /\ pc' = "ros" /\ UNCHANGED <<ra, ros>>
    BY <2>1
  <2>3. needROS' \in BOOLEAN /\ (needROS \/ NeedsClient(items) => needROS')
    BY <2>1, Zenon
  <2>4. MACsOf(items) \in [1 .. n -> {"literal", "ros"}]
    BY DEF MACsOf
  <2>5. TypeOK'
    <3> DEFINE Lists == UNION {[1 .. m -> {"literal", "ros"}] : m \in 0 .. MaxIfs}
               NDs == [mode : NDModes, prefixes : SUBSET Kinds,
                       excludes : SUBSET (Kinds \cup {"assigned"}),
                       extIfs : 0 .. MaxIfs, timeoutMs : Timeouts \cup {0}, advMACs : Lists]
    <3>1. MACsOf(items) \in Lists
      BY <2>4
    <3>2. nd \in NDs
      BY DEF IInv, TypeOK
    <3> HIDE DEF Lists
    <3>3. nd' \in NDs
      BY <2>2, <3>1, <3>2
    <3>4. /\ pc' \in Steps /\ ros' \in {NoClient, 8728, 8729, OutOfRange}
          /\ ra' \in [mode : RAModes, rosExtIf : BOOLEAN,
                     extIPs : SUBSET Assignments, intIPs : SUBSET Assignments]
      BY <2>2 DEF IInv, TypeOK, Steps
    <3> QED
      BY <2>3, <3>3, <3>4 DEF TypeOK, Lists
  <2>6. HasROS' => NeedsClient(items)
    <3>1. nd'.advMACs = [i \in 1 .. n |-> IF IsROS(items[i]) THEN "ros" ELSE "literal"]
      BY <2>2 DEF MACsOf, IInv, TypeOK
    <3> QED
      BY <3>1 DEF HasROS, NeedsClient
  <2>7. nd'.mode = nd.mode
    BY <2>2 DEF IInv, TypeOK
  <2>8. NeedKnown'
    BY <2>2, <2>3, <2>6, <2>7 DEF IInv, NeedKnown
  <2>9. (ClientKnown /\ CrashesAreKnown)'
    BY <2>2 DEF ClientKnown, CrashesAreKnown
  <2>10. Provided'
    BY <2>2 DEF IInv, TypeOK, Provided
  <2> QED
    BY <2>5, <2>8, <2>9, <2>10 DEF IInv
<1>8. CASE LoadRAFails \/ LoadNDFails \/ LoadROSFails \/ PreflightFails
  BY <1>8 DEF LoadRAFails, LoadNDFails, LoadROSFails, PreflightFails, Fatal,
              IInv, TypeOK, Steps, NeedKnown, HasROS, ClientKnown, Provided, CrashesAreKnown
<1>9. CASE WithoutROS \/ Preflight
  <2>1. TypeOK'
    BY <1>9 DEF WithoutROS, Preflight, IInv, TypeOK, Steps
  <2>2. ClientKnown'
    BY <1>9 DEF WithoutROS, Preflight, IInv, ClientKnown, ClientWanted
  <2> QED
    BY <1>9, <2>1, <2>2, Kept DEF WithoutROS, Preflight, IInv, Steps
<1>10. CASE LoadROS
  <2>1. ros' \in {8728, 8729, OutOfRange} /\ ros' # NoClient
    BY <1>10 DEF LoadROS, OutOfRange
  <2> QED
    BY <1>10, <2>1, Kept DEF LoadROS, IInv, TypeOK, Steps, ClientKnown
<1>11. CASE SocketWithoutMAC
  BY <1>11 DEF SocketWithoutMAC, Crash, NDWorks, IInv, TypeOK, Steps, NeedKnown, HasROS,
               ClientKnown, Provided, CrashesAreKnown, OneToOne
<1>12. CASE CommandWithoutClient
  <2>1. ~ ClientWanted /\ UsesClient /\ pc' = "crashed" /\ UNCHANGED <<ra, nd, needROS, ros>>
    BY <1>12 DEF CommandWithoutClient, Crash, IInv, ClientKnown
  <2>2. ra.mode = "off" /\ ~ HasROS /\ nd.mode # "proxy-ros"
    BY <2>1 DEF ClientWanted, IInv, TypeOK, RAModes, NeedKnown
  <2>3. \A i \in DOMAIN nd.advMACs : nd.advMACs[i] \in {"literal", "ros"}
    BY DEF IInv, TypeOK
  <2>4. nd.mode = "proxy-ros:strict"
    BY <2>1, <2>2, <2>3 DEF UsesClient, HasROS, IInv, TypeOK, NDModes
  <2>5. CrashesAreKnown'
    BY <2>1, <2>2, <2>4 DEF CrashesAreKnown, StrictOnItsOwn, HasROS
  <2> QED
    BY <1>12, <2>1, <2>5 DEF CommandWithoutClient, IInv, TypeOK, Steps, NeedKnown, HasROS,
                             ClientKnown, Provided
<1>13. CASE WaitWithoutLimit
  BY <1>13 DEF WaitWithoutLimit, Crash, IInv, TypeOK, Steps, NeedKnown, HasROS, ClientKnown,
               Provided, CrashesAreKnown, NoLimit
<1>14. CASE UNCHANGED vars
  BY <1>14 DEF vars, IInv, TypeOK, NeedKnown, HasROS, ClientKnown, ClientWanted, Provided,
               CrashesAreKnown, OneToOne, StrictOnItsOwn, NoLimit
<1> QED
  BY <1>1, <1>2, <1>3, <1>4, <1>5, <1>6, <1>7, <1>8, <1>9, <1>10, <1>11, <1>12, <1>13, <1>14 DEF Next

LEMMA Invariant == Spec => []IInv
BY InitInv, NextInv, PTL DEF Spec

\* Whatever is configured, what the program makes of it stays within its types.
THEOREM TypeCorrect == Spec => []TypeOK
BY Invariant, PTL DEF IInv

\* An accepted configuration with as many MAC addresses as external interfaces makes a worker
\* panic in two ways only, however many they are.
THEOREM CrashesKnown == Spec => []CrashesAreKnown
BY Invariant, PTL DEF IInv

\* What NDClient takes from RAClient's side is there.
THEOREM DependenciesHold == Spec => []NothingDangling
<1>1. IInv => NothingDangling
  BY DEF IInv, TypeOK, Provided, NothingDangling, Works
<1> QED
  BY <1>1, Invariant, PTL
=============================================================================
