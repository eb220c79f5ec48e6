------------------------------ MODULE VLANLink ------------------------------
(***************************************************************************)
(* The interfaces the workers listen on: DecodedInterface, findFirst-      *)
(* Interface and collectInterfaces (link.go).  A name with a VLAN, eth0@10,*)
(* stands for a device that PrepareVLAN makes if it is not there.  RAClient*)
(* and NDClient may name the same one, and prepare it at the same time.    *)
(*                                                                         *)
(* The kernel takes the VLAN devices of an interface up, down and away     *)
(* with it.  Others rename, add and remove devices until it is calm.       *)
(***************************************************************************)
EXTENDS Naturals, Sequences

CONSTANTS
  Callers,   \* RAClient.initSock and NDClient.workInternal
  FirstOnly, \* those that want the first interface there is; the others take all
  Names,     \* each caller's list of "malformed", "plain" (eth0) and "tagged" (eth0@10)
  Parents,   \* interface indexes; bound: how many devices are ever called eth0
  NoLink,    \* no interface, or none of this kind
  Others     \* whoever else adds devices

ASSUME VLANLinkAssumption ==
  /\ FirstOnly \subseteq Callers
  /\ Names \in Seq({"malformed", "plain", "tagged"})
  /\ NoLink \notin Parents /\ NoLink \notin Callers /\ Others \notin Callers

VARIABLES
  alive,    \* the Parents there are
  up,       \* those that are up
  named,    \* the one called eth0, or NoLink
  dev,      \* the device called eth0.vlan10: [parent, up, by, refused], or NoLink.  refused, for
            \* the properties: LinkSetUp failed although the parent was up, which was not up anew since
  holder,   \* who has vlanmutex, or NoLink
  at,       \* where each caller is
  asking,   \* whether it is in Exists or in Index
  pos,      \* the name it is at
  found,    \* the names that exist and have no index yet
  opened,   \* the names it has an index for
  seen,     \* the parent index it has just read
  calm      \* eth0 is there, up and stays so; nobody else touches eth0.vlan10; netlink does what
            \* it can

vars == <<alive, up, named, dev, holder, at, asking, pos, found, opened, seen, calm>>
links == <<alive, up, named>>
progress == <<pos, found, opened>>

Devices ==
  [parent : Parents \cup {NoLink}, up : BOOLEAN, by : Callers \cup {Others}, refused : BOOLEAN]

ASSUME VLANLinkNilAssumption == NoLink \notin Devices

Positions == 1 .. Len(Names)

Inside == {"checking", "comparing", "resolving", "adding", "raising"}

Init ==
  /\ alive = Parents /\ up \in SUBSET Parents /\ named \in Parents \cup {NoLink}
  /\ dev = NoLink
  /\ holder = NoLink
  /\ at = [c \in Callers |-> "idle"]
  /\ asking = [c \in Callers |-> "exists"]
  /\ pos = [c \in Callers |-> 1]
  /\ found = [c \in Callers |-> {}]
  /\ opened = [c \in Callers |-> {}]
  /\ seen = [c \in Callers |-> NoLink]
  /\ calm = FALSE

Goto(c, l) == at' = [at EXCEPT ![c] = l]

-----------------------------------------------------------------------------
(* findFirstInterface and collectInterfaces, then Index                     *)

Call(c) ==
  /\ at[c] = "idle"
  /\ Goto(c, "scan")
  /\ opened' = [opened EXCEPT ![c] = {}]
  /\ UNCHANGED <<links, dev, holder, asking, pos, found, seen, calm>>

Scanned(c) == pos[c] > Len(Names) \/ (c \in FirstOnly /\ found[c] # {})

\* A warning, and the next name.
Malformed(c) ==
  /\ at[c] = "scan" /\ ~ Scanned(c) /\ Names[pos[c]] = "malformed"
  /\ pos' = [pos EXCEPT ![c] = @ + 1]
  /\ UNCHANGED <<links, dev, holder, at, asking, found, opened, seen, calm>>

\* Exists without a VLAN.
PlainExists(c) ==
  /\ at[c] = "scan" /\ ~ Scanned(c) /\ Names[pos[c]] = "plain"
  /\ found' = [found EXCEPT ![c] = IF named # NoLink THEN @ \cup {pos[c]} ELSE @]
  /\ pos' = [pos EXCEPT ![c] = @ + 1]
  /\ UNCHANGED <<links, dev, holder, at, asking, opened, seen, calm>>

\* Exists with a VLAN calls PrepareVLAN.
TaggedExists(c) ==
  /\ at[c] = "scan" /\ ~ Scanned(c) /\ Names[pos[c]] = "tagged"
  /\ Goto(c, "locking")
  /\ UNCHANGED <<links, dev, holder, asking, progress, seen, calm>>

\* "Could not resolve all of these interfaces" if none was found.
ScanEnds(c) ==
  /\ at[c] = "scan" /\ Scanned(c)
  /\ Goto(c, IF found[c] = {} THEN "idle" ELSE "index")
  /\ asking' = [asking EXCEPT ![c] = IF found[c] = {} THEN "exists" ELSE "index"]
  /\ pos' = [pos EXCEPT ![c] = 1]
  /\ UNCHANGED <<links, dev, holder, found, opened, seen, calm>>

\* initSockGroup goes through a map, in any order.  Index calls PrepareVLAN once more.
Index(c) ==
  /\ at[c] = "index"
  /\ \E i \in found[c] :
       /\ found' = [found EXCEPT ![c] = @ \ {i}]
       /\ pos' = [pos EXCEPT ![c] = i]
       /\ Goto(c, IF Names[i] = "tagged" THEN "locking" ELSE "naming")
  /\ UNCHANGED <<links, dev, holder, asking, opened, seen, calm>>

IndexEnds(c) ==
  /\ at[c] = "index" /\ found[c] = {}
  /\ Goto(c, "idle")
  /\ asking' = [asking EXCEPT ![c] = "exists"]
  /\ pos' = [pos EXCEPT ![c] = 1]
  /\ UNCHANGED <<links, dev, holder, found, opened, seen, calm>>

\* ifNameToIndex of ActualName.
IfNameToIndex(c) ==
  /\ at[c] = "naming"
  /\ Goto(c, "index")
  /\ LET link == IF Names[pos[c]] = "tagged" THEN dev ELSE named IN
     opened' = [opened EXCEPT ![c] = IF link # NoLink THEN @ \cup {pos[c]} ELSE @]
  /\ UNCHANGED <<links, dev, holder, asking, pos, found, seen, calm>>

-----------------------------------------------------------------------------
(* PrepareVLAN, checkVlanDev and createVlanDev                              *)

EnterAnyway(c) ==
  /\ at[c] = "locking"
  /\ holder' = c
  /\ Goto(c, "checking")
  /\ UNCHANGED <<links, dev, asking, progress, seen, calm>>

Lock(c) ==
  /\ at[c] = "locking" /\ holder = NoLink
  /\ holder' = c
  /\ Goto(c, "checking")
  /\ UNCHANGED <<links, dev, asking, progress, seen, calm>>

\* An error returned without Unlock.
ReturnLocked(c, ok) ==
  /\ holder' = IF ok THEN NoLink ELSE holder
  /\ seen' = [seen EXCEPT ![c] = NoLink]
  /\ IF asking[c] = "exists"
     THEN /\ Goto(c, "scan")
          /\ found' = [found EXCEPT ![c] = IF ok THEN @ \cup {pos[c]} ELSE @]
          /\ pos' = [pos EXCEPT ![c] = @ + 1]
     ELSE Goto(c, IF ok THEN "naming" ELSE "index") /\ UNCHANGED <<found, pos>>

\* PrepareVLAN returns, to Exists or to Index.
Return(c, ok) ==
  /\ holder' = NoLink
  /\ seen' = [seen EXCEPT ![c] = NoLink]
  /\ IF asking[c] = "exists"
     THEN /\ Goto(c, "scan")
          /\ found' = [found EXCEPT ![c] = IF ok THEN @ \cup {pos[c]} ELSE @]
          /\ pos' = [pos EXCEPT ![c] = @ + 1]
     ELSE Goto(c, IF ok THEN "naming" ELSE "index") /\ UNCHANGED <<found, pos>>

\* A device that is no VLAN, or not the one with this id, has no parent here.
Check(c) ==
  /\ at[c] = "checking"
  /\ \/ dev = NoLink /\ Goto(c, "resolving") /\ UNCHANGED <<holder, found, pos, seen>>
     \/ dev # NoLink /\ dev.parent = NoLink /\ Return(c, FALSE)
     \/ /\ dev # NoLink /\ dev.parent # NoLink
        /\ seen' = [seen EXCEPT ![c] = dev.parent]
        /\ Goto(c, "comparing")
        /\ UNCHANGED <<holder, found, pos>>
  /\ UNCHANGED <<links, dev, asking, opened, calm>>

Compare(c) ==
  /\ at[c] = "comparing"
  /\ Return(c, named = seen[c])
  /\ UNCHANGED <<links, dev, asking, opened, calm>>

Resolve(c) ==
  /\ at[c] = "resolving"
  /\ \/ named = NoLink /\ Return(c, FALSE)
     \/ /\ named # NoLink
        /\ seen' = [seen EXCEPT ![c] = named]
        /\ Goto(c, "adding")
        /\ UNCHANGED <<holder, found, pos>>
  /\ UNCHANGED <<links, dev, asking, opened, calm>>

Addable(c) == dev = NoLink /\ seen[c] \in alive

\* The kernel may refuse for reasons of its own, too.
LinkAdd(c) ==
  /\ at[c] = "adding"
  /\ \/ /\ Addable(c)
        /\ dev' = [parent |-> seen[c], up |-> FALSE, by |-> c, refused |-> FALSE]
        /\ Goto(c, "raising")
        /\ UNCHANGED <<holder, found, pos, seen>>
     \/ ~ (calm /\ Addable(c)) /\ Return(c, FALSE) /\ UNCHANGED dev
  /\ UNCHANGED <<links, asking, opened, calm>>

NotRaised(c) ==
  /\ at[c] = "raising"
  /\ Return(c, TRUE) /\ UNCHANGED dev
  /\ UNCHANGED <<links, asking, opened, calm>>

Raisable == dev # NoLink /\ dev.parent \in up \cup {NoLink}

\* LinkSetUp looks the name up again.  A VLAN device cannot be up when its parent is not, and
\* the call may fail for any other reason (no socket, no memory): an error, but the device stays.
LinkSetUp(c) ==
  /\ at[c] = "raising"
  /\ \/ /\ Raisable
        /\ dev' = [dev EXCEPT !.up = TRUE]
        /\ Return(c, TRUE)
     \/ ~ Raisable /\ Return(c, FALSE) /\ UNCHANGED dev
     \/ /\ Raisable /\ ~ calm
        /\ dev' = [dev EXCEPT !.refused = TRUE]
        /\ Return(c, FALSE)
  /\ UNCHANGED <<links, asking, opened, calm>>

-----------------------------------------------------------------------------
(* The kernel and others                                                    *)

callers == <<holder, at, asking, progress, seen>>

Over(p) == dev # NoLink /\ dev.parent = p

LinkUp(p) ==
  /\ ~ calm /\ p \in alive \ up
  /\ up' = up \cup {p}
  /\ dev' = IF Over(p) THEN [dev EXCEPT !.up = TRUE, !.refused = FALSE] ELSE dev
  /\ UNCHANGED <<alive, named, callers, calm>>

LinkDown(p) ==
  /\ ~ calm /\ p \in up
  /\ up' = up \ {p}
  /\ dev' = IF Over(p) THEN [dev EXCEPT !.up = FALSE] ELSE dev
  /\ UNCHANGED <<alive, named, callers, calm>>

LinkRemoved(p) ==
  /\ ~ calm /\ p \in alive
  /\ alive' = alive \ {p}
  /\ up' = up \ {p}
  /\ named' = IF named = p THEN NoLink ELSE named
  /\ dev' = IF Over(p) THEN NoLink ELSE dev
  /\ UNCHANGED <<callers, calm>>

\* eth0 gets another name, or another interface that one.
LinkRenamed ==
  /\ ~ calm
  /\ named' \in alive \cup {NoLink} /\ (named = NoLink \/ named' = NoLink)
  /\ UNCHANGED <<alive, up, dev, callers, calm>>

OthersAdd ==
  /\ ~ calm /\ dev = NoLink
  /\ \E p \in alive \cup {NoLink} :
       dev' = [parent |-> p, up |-> p \in up, by |-> Others, refused |-> FALSE]
  /\ UNCHANGED <<links, callers, calm>>

OthersRemove ==
  /\ ~ calm /\ dev # NoLink
  /\ dev' = NoLink
  /\ UNCHANGED <<links, callers, calm>>

\* No device is left, or about to be added, over an interface that has lost the name.
Settle ==
  /\ ~ calm
  /\ named \in up /\ (dev # NoLink => Over(named))
  /\ \A c \in Callers : at[c] = "adding" => seen[c] \in {named} \cup (Parents \ alive)
  /\ calm' = TRUE
  /\ UNCHANGED <<links, dev, callers>>

-----------------------------------------------------------------------------
PrepareVLAN(c) == Check(c) \/ Compare(c) \/ Resolve(c) \/ LinkAdd(c) \/ LinkSetUp(c)

Step(c) ==
  \/ Malformed(c) \/ PlainExists(c) \/ TaggedExists(c) \/ ScanEnds(c)
  \/ Index(c) \/ IndexEnds(c) \/ IfNameToIndex(c)
  \/ PrepareVLAN(c)

Environment ==
  \/ \E p \in Parents : LinkUp(p) \/ LinkDown(p) \/ LinkRemoved(p)
  \/ LinkRenamed \/ OthersAdd \/ OthersRemove \/ Settle

Next == Environment \/ \E c \in Callers : Call(c) \/ Lock(c) \/ Step(c)

Spec == Init /\ [][Next]_vars

\* Goroutines run and netlink answers; sync.Mutex starves nobody.
FairSpec == Spec /\ \A c \in Callers : WF_vars(Step(c)) /\ SF_vars(Lock(c))

-----------------------------------------------------------------------------
(* Properties                                                               *)

TypeOK ==
  /\ alive \subseteq Parents /\ up \subseteq alive /\ named \in alive \cup {NoLink}
  /\ dev \in Devices \cup {NoLink}
  /\ dev # NoLink => dev.parent \in alive \cup {NoLink}
  /\ holder \in Callers \cup {NoLink}
  /\ at \in [Callers -> Inside \cup {"idle", "scan", "locking", "index", "naming"}]
  /\ \A c \in Callers : at[c] \in Inside <=> holder = c
  /\ asking \in [Callers -> {"exists", "index"}]
  /\ pos \in [Callers -> 1 .. Len(Names) + 1]
  /\ \A c \in Callers : at[c] \notin {"idle", "scan", "index"} => pos[c] \in Positions
  /\ \A c \in Callers : at[c] \notin Inside => seen[c] = NoLink
  /\ found \in [Callers -> SUBSET Positions]
  /\ opened \in [Callers -> SUBSET Positions]
  /\ seen \in [Callers -> Parents \cup {NoLink}]
  /\ calm \in BOOLEAN

\* The two workers never stumble over each other: whoever calls LinkAdd while there is a device
\* of this name meets one that somebody else added since checkVlanDev looked.
CollidesWithOthersOnly ==
  \A c \in Callers : at[c] = "adding" /\ dev # NoLink => dev.by = Others

\* A device that was added but could not be set up counts as ready from then on: nobody sets it
\* up again.  If its parent was not up then the kernel does, with the parent; so a device the
\* program added is down under a parent that is up, with nobody at work on it, only if its
\* LinkSetUp failed for another reason.  Then it stays down until the parent is down and up.
CreatedIsUp ==
  holder = NoLink /\ dev # NoLink /\ dev.by \in Callers /\ dev.parent \in up
    => dev.up \/ dev.refused

\* What a call comes back with once nothing interferes.
Expected(c) ==
  LET usable == {i \in Positions : Names[i] # "malformed"} IN
  IF c \in FirstOnly THEN {i \in usable : \A j \in usable : i <= j} ELSE usable

\* Whatever an earlier call left half done, once eth0 is there and stays up a call returns an
\* index for each interface it is to return, and no error path keeps the mutex.
CalmCallsSucceed ==
  \A c \in Callers :
    calm /\ at[c] = "scan" /\ pos[c] = 1 ~> at[c] = "idle" /\ opened[c] = Expected(c)
=============================================================================
