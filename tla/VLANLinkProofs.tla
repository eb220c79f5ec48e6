--------------------------- MODULE VLANLinkProofs ---------------------------
(***************************************************************************)
(* Proofs about VLANLink, for any number of callers, any list of names and *)
(* any number of interfaces.                                               *)
(*                                                                         *)
(* Whoever prepares the device has the mutex: TypeOK says so.  Prepared    *)
(* says what that is good for between LinkAdd and LinkSetUp, Alone between *)
(* checkVlanDev and LinkAdd.                                               *)
(***************************************************************************)
EXTENDS VLANLink, FiniteSetTheorems, TLAPS

\* Nobody else prepares the device while a caller is about to add it.
Alone ==
  \A c \in Callers :
    at[c] \in {"resolving", "adding"} /\ dev # NoLink => dev.by = Others

\* A device a caller added is up with its parent, unless LinkSetUp was refused or a caller is
\* just raising it.
Prepared ==
  dev # NoLink /\ dev.by \in Callers /\ dev.parent \in up /\ ~ dev.up /\ ~ dev.refused
    => \E c \in Callers : at[c] = "raising"

IInv == TypeOK /\ Alone /\ Prepared

LEMMA Elsewhere ==
  ASSUME TypeOK, NEW c \in Callers, NEW l, Goto(c, l)
  PROVE  at'[c] = l /\ \A d \in Callers : d # c => at'[d] = at[d]
BY DEF Goto, TypeOK

LEMMA InitInv == Init => IInv
<1> SUFFICES ASSUME Init PROVE IInv
  OBVIOUS
<1>1. Len(Names) \in Nat
  BY VLANLinkAssumption
<1>2. TypeOK
  <2>1. at \in [Callers -> Inside \cup {"idle", "scan", "locking", "index", "naming"}]
    BY DEF Init
  <2>2. \A c \in Callers : at[c] = "idle" /\ holder # c /\ pos[c] = 1 /\ seen[c] = NoLink
    BY VLANLinkAssumption DEF Init
  <2>3. /\ pos \in [Callers -> 1 .. Len(Names) + 1]
        /\ found \in [Callers -> SUBSET Positions] /\ opened \in [Callers -> SUBSET Positions]
        /\ seen \in [Callers -> Parents \cup {NoLink}]
        /\ asking \in [Callers -> {"exists", "index"}]
    BY <1>1 DEF Init
  <2> QED
    BY <2>1, <2>2, <2>3 DEF Init, TypeOK, Inside
<1> QED
  BY <1>2 DEF Init, IInv, Alone, Prepared

Labels == Inside \cup {"idle", "scan", "locking", "index", "naming"}

\* A caller goes on outside of PrepareVLAN.
LEMMA Outside ==
  ASSUME IInv, NEW c \in Callers, NEW l \in Labels \ Inside, at[c] \notin Inside,
         Goto(c, l), UNCHANGED <<links, dev, holder, seen, calm>>,
         asking' \in [Callers -> {"exists", "index"}],
         found' \in [Callers -> SUBSET Positions], opened' \in [Callers -> SUBSET Positions],
         pos' \in [Callers -> 1 .. Len(Names) + 1],
         \A d \in Callers : d # c => pos'[d] = pos[d],
         l \notin {"idle", "scan", "index"} => pos'[c] \in Positions
  PROVE  IInv'
<1>1. at'[c] = l /\ at' \in [Callers -> Labels] /\ \A d \in Callers : d # c => at'[d] = at[d]
  BY Elsewhere DEF IInv, TypeOK, Goto, Labels
<1>2. TypeOK'
  BY <1>1 DEF IInv, TypeOK, links, Labels
<1>3. Alone'
  BY <1>1 DEF IInv, Alone, Inside, Labels
<1>4. Prepared'
  BY <1>1 DEF IInv, Prepared, Inside, links
<1> QED
  BY <1>2, <1>3, <1>4 DEF IInv

\* A step within PrepareVLAN.
LEMMA Within ==
  ASSUME IInv, NEW c \in Callers, NEW l \in Inside, at[c] \in Inside \ {"raising"},
         Goto(c, l), UNCHANGED <<links, dev, holder, asking, progress, calm>>,
         seen' \in [Callers -> Parents \cup {NoLink}],
         \A d \in Callers : d # c => seen'[d] = seen[d],
         l \in {"resolving", "adding"} => (dev # NoLink => dev.by = Others)
  PROVE  IInv'
<1>1. at'[c] = l /\ at' \in [Callers -> Labels] /\ \A d \in Callers : d # c => at'[d] = at[d]
  BY Elsewhere DEF IInv, TypeOK, Goto, Labels
<1>2. pos[c] \in Positions
  BY DEF IInv, TypeOK, Inside
<1>3. TypeOK'
  BY <1>1, <1>2 DEF IInv, TypeOK, links, progress, Labels
<1>4. Alone'
  BY <1>1 DEF IInv, Alone
<1>5. Prepared'
  BY <1>1 DEF IInv, Prepared, links
<1> QED
  BY <1>3, <1>4, <1>5 DEF IInv

\* PrepareVLAN returns, having changed the device at most.
LEMMA Returned ==
  ASSUME IInv, NEW c \in Callers, NEW ok \in BOOLEAN, at[c] \in Inside, Return(c, ok),
         UNCHANGED <<links, asking, opened, calm>>,
         dev' \in Devices \cup {NoLink}, dev' # NoLink => dev'.parent \in alive \cup {NoLink},
         at[c] = "raising" \/ dev' = dev,
         dev' # NoLink => dev # NoLink /\ dev'.by = dev.by,
         at[c] = "raising" =>
           (dev' # NoLink /\ dev'.by \in Callers /\ dev'.parent \in up => dev'.up \/ dev'.refused)
  PROVE  IInv'
<1> USE VLANLinkAssumption
<1>0. pos[c] \in Positions /\ Len(Names) \in Nat /\ holder = c
  BY DEF IInv, TypeOK, Inside
<1>1. PICK l \in {"scan", "naming", "index"} : Goto(c, l) /\ (l # "scan" => UNCHANGED pos)
  BY DEF Return
<1>2. at'[c] = l /\ at' \in [Callers -> Labels] /\ \A d \in Callers : d # c => at'[d] = at[d]
  BY <1>1, Elsewhere DEF IInv, TypeOK, Goto, Labels
<1>3. \A d \in Callers : at'[d] \notin Inside
  BY <1>0, <1>2 DEF IInv, TypeOK, Inside
<1>4. /\ pos' \in [Callers -> 1 .. Len(Names) + 1]
      /\ \A d \in Callers : d # c => pos'[d] = pos[d]
      /\ found' \in [Callers -> SUBSET Positions]
  <2>1. /\ pos \in [Callers -> 1 .. Len(Names) + 1] /\ found \in [Callers -> SUBSET Positions]
        /\ pos[c] + 1 \in 1 .. Len(Names) + 1
    BY <1>0 DEF IInv, TypeOK, Positions
  <2>2. CASE asking[c] = "exists"
    <3>1. PICK f \in SUBSET Positions : found' = [found EXCEPT ![c] = f]
      BY <1>0, <2>1, <2>2 DEF Return
    <3>2. pos' = [pos EXCEPT ![c] = pos[c] + 1]
      BY <2>2 DEF Return
    <3> QED
      BY <2>1, <3>1, <3>2
  <2>3. CASE asking[c] # "exists"
    BY <2>1, <2>3 DEF Return
  <2> QED
    BY <2>2, <2>3
<1>5. seen' \in [Callers -> Parents \cup {NoLink}] /\ \A d \in Callers : seen'[d] = NoLink
  BY <1>0 DEF Return, IInv, TypeOK
<1>6. holder' = NoLink
  BY DEF Return
<1>7. TypeOK'
  <2>1. \A d \in Callers : at'[d] \notin {"idle", "scan", "index"} => pos'[d] \in Positions
    BY <1>0, <1>1, <1>2, <1>4 DEF IInv, TypeOK
  <2> QED
    BY <1>2, <1>3, <1>4, <1>5, <1>6, <2>1 DEF IInv, TypeOK, links, Labels
<1>8. Alone'
  BY <1>3 DEF Alone, Inside
<1>9. Prepared'
  BY <1>0, <1>3 DEF IInv, TypeOK, Prepared, Inside, links
<1> QED
  BY <1>7, <1>8, <1>9 DEF IInv

\* A step of the kernel or of others.
LEMMA Around ==
  ASSUME IInv, UNCHANGED callers, calm' \in BOOLEAN,
         alive' \subseteq Parents, up' \subseteq alive', named' \in alive' \cup {NoLink},
         dev' \in Devices \cup {NoLink}, dev' # NoLink => dev'.parent \in alive' \cup {NoLink},
         \/ dev' = NoLink
         \/ dev = NoLink /\ dev'.by = Others
         \/ dev # NoLink /\ dev'.by = dev.by /\ dev'.parent = dev.parent
              /\ (dev'.parent \in up'
                    => dev'.up \/ dev'.refused \/ (~ dev.up /\ ~ dev.refused /\ dev.parent \in up))
  PROVE  IInv'
<1> USE VLANLinkAssumption
<1>1. TypeOK'
  BY DEF IInv, TypeOK, callers, progress
<1>2. Alone'
  BY DEF IInv, Alone, callers
<1>3. Prepared'
  BY DEF IInv, Prepared, callers
<1> QED
  BY <1>1, <1>2, <1>3 DEF IInv

\* The steps of a caller.
LEMMA StepInv ==
  ASSUME IInv, NEW c \in Callers, Call(c) \/ Lock(c) \/ Step(c)
  PROVE  IInv'
<1> USE VLANLinkAssumption
<1>0. /\ Len(Names) \in Nat /\ Positions = 1 .. Len(Names)
      /\ at \in [Callers -> Labels] /\ asking \in [Callers -> {"exists", "index"}]
      /\ pos \in [Callers -> 1 .. Len(Names) + 1]
      /\ found \in [Callers -> SUBSET Positions] /\ opened \in [Callers -> SUBSET Positions]
      /\ seen \in [Callers -> Parents \cup {NoLink}]
  BY DEF IInv, TypeOK, Positions, Labels
<1>1. CASE Call(c)
  <2>1. Goto(c, "scan") /\ opened' \in [Callers -> SUBSET Positions]
    BY <1>0, <1>1 DEF Call
  <2> QED
    BY <1>0, <1>1, <2>1, Outside DEF Call, Labels, Inside
<1>2. CASE Malformed(c) \/ PlainExists(c)
  <2>1. at[c] = "scan" /\ Goto(c, "scan")
    BY <1>0, <1>2 DEF Malformed, PlainExists, Goto
  <2>2. pos[c] \in Positions
    BY <1>0, <1>2 DEF Malformed, PlainExists, Scanned
  <2>3. pos' = [pos EXCEPT ![c] = pos[c] + 1]
    BY <1>2 DEF Malformed, PlainExists
  <2>4. found' \in [Callers -> SUBSET Positions]
    <3> DEFINE f == found[c] \cup {pos[c]}
    <3>1. found' = found \/ found' = [found EXCEPT ![c] = f]
      BY <1>0, <1>2 DEF Malformed, PlainExists
    <3>2. f \in SUBSET Positions
      BY <1>0, <2>2
    <3> HIDE DEF f
    <3> QED
      BY <1>0, <3>1, <3>2
  <2>5. UNCHANGED <<links, dev, holder, asking, opened, seen, calm>>
    BY <1>2 DEF Malformed, PlainExists
  <2>6. pos' \in [Callers -> 1 .. Len(Names) + 1] /\ \A d \in Callers : d # c => pos'[d] = pos[d]
    BY <1>0, <2>2, <2>3
  <2> QED
    BY <1>0, <2>1, <2>4, <2>5, <2>6, Outside DEF Labels, Inside
<1>3. CASE TaggedExists(c)
  <2>1. pos[c] \in Positions
    BY <1>0, <1>3 DEF TaggedExists, Scanned
  <2> QED
    BY <1>0, <1>3, <2>1, Outside DEF TaggedExists, progress, Labels, Inside
<1>4. CASE ScanEnds(c) \/ IndexEnds(c)
  <2>1. at[c] \in {"scan", "index"} /\ \E l \in {"idle", "index"} : Goto(c, l)
    BY <1>4 DEF ScanEnds, IndexEnds
  <2>2. asking' \in [Callers -> {"exists", "index"}]
    BY <1>0, <1>4 DEF ScanEnds, IndexEnds
  <2>3. pos' \in [Callers -> 1 .. Len(Names) + 1] /\ \A d \in Callers : d # c => pos'[d] = pos[d]
    <3>1. pos' = [pos EXCEPT ![c] = 1] /\ 1 \in 1 .. Len(Names) + 1
      BY <1>0, <1>4 DEF ScanEnds, IndexEnds
    <3> QED
      BY <1>0, <3>1
  <2>4. UNCHANGED <<links, dev, holder, found, opened, seen, calm>>
    BY <1>4 DEF ScanEnds, IndexEnds
  <2> QED
    BY <1>0, <2>1, <2>2, <2>3, <2>4, Outside DEF Labels, Inside
<1>5. CASE Index(c)
  <2>1. PICK i \in found[c] :
          /\ found' = [found EXCEPT ![c] = @ \ {i}]
          /\ pos' = [pos EXCEPT ![c] = i]
          /\ Goto(c, IF Names[i] = "tagged" THEN "locking" ELSE "naming")
    BY <1>5 DEF Index
  <2>2. i \in Positions /\ i \in 1 .. Len(Names) + 1
    BY <1>0
  <2>3. \E l \in {"locking", "naming"} : Goto(c, l)
    BY <2>1
  <2>4. at[c] = "index" /\ UNCHANGED <<links, dev, holder, asking, opened, seen, calm>>
    BY <1>5 DEF Index
  <2>5. found' \in [Callers -> SUBSET Positions]
    BY <1>0, <2>1
  <2>6. /\ pos' \in [Callers -> 1 .. Len(Names) + 1] /\ pos'[c] \in Positions
        /\ \A d \in Callers : d # c => pos'[d] = pos[d]
    BY <1>0, <2>1, <2>2
  <2> QED
    BY <1>0, <2>3, <2>4, <2>5, <2>6, Outside DEF Labels, Inside
<1>6. CASE IfNameToIndex(c)
  <2>1. pos[c] \in Positions
    BY <1>6 DEF IfNameToIndex, IInv, TypeOK
  <2>2. opened' \in [Callers -> SUBSET Positions]
    BY <1>0, <1>6, <2>1 DEF IfNameToIndex
  <2> QED
    BY <1>0, <1>6, <2>2, Outside DEF IfNameToIndex, Labels, Inside
<1>7. CASE Lock(c)
  <2>1. at' = [at EXCEPT ![c] = "checking"] /\ holder = NoLink /\ holder' = c /\ at[c] = "locking"
        /\ UNCHANGED <<links, dev, asking, progress, seen, calm>>
    BY <1>7 DEF Lock, Goto
  <2>2. pos[c] \in Positions
    BY <2>1 DEF IInv, TypeOK
  <2>3. \A d \in Callers : at[d] \notin Inside
    BY <2>1 DEF IInv, TypeOK
  <2>4. TypeOK'
    BY <2>1, <2>2, <2>3 DEF IInv, TypeOK, Inside, links, progress
  <2>5. (Alone /\ Prepared)'
    BY <1>0, <2>1, <2>3 DEF IInv, Alone, Prepared, Inside, links
  <2> QED
    BY <2>4, <2>5 DEF IInv
<1>8. ASSUME NEW ok \in BOOLEAN, at[c] \in Inside \ {"raising"}, Return(c, ok),
             UNCHANGED <<links, dev, asking, opened, calm>>
      PROVE  IInv'
  <2>1. /\ dev' \in Devices \cup {NoLink}
        /\ dev' # NoLink => dev'.parent \in alive \cup {NoLink}
        /\ dev' # NoLink => dev # NoLink /\ dev'.by = dev.by
    BY <1>8 DEF IInv, TypeOK
  <2>2. at[c] \in Inside /\ at[c] # "raising" /\ dev' = dev /\ UNCHANGED <<links, asking, opened, calm>>
    BY <1>8
  <2>3. Return(c, ok) /\ ok \in BOOLEAN
    BY <1>8
  <2>4. /\ at[c] = "raising" \/ dev' = dev
        /\ at[c] = "raising" =>
             (dev' # NoLink /\ dev'.by \in Callers /\ dev'.parent \in up => dev'.up \/ dev'.refused)
    BY <2>2
  <2> QED
    BY <2>1, <2>2, <2>3, <2>4, Returned, Zenon
<1>9. CASE Check(c)
  <2>1. CASE dev = NoLink /\ Goto(c, "resolving") /\ UNCHANGED <<holder, found, pos, seen>>
    BY <1>0, <1>9, <2>1, Within DEF Check, Inside, progress
  <2>2. CASE Return(c, FALSE)
    BY <1>8, <1>9, <2>2 DEF Check, Inside
  <2>3. CASE /\ dev # NoLink /\ dev.parent # NoLink
             /\ seen' = [seen EXCEPT ![c] = dev.parent]
             /\ Goto(c, "comparing") /\ UNCHANGED <<holder, found, pos>>
    <3>1. dev.parent \in Parents
      BY <2>3 DEF IInv, TypeOK
    <3>2. seen' \in [Callers -> Parents \cup {NoLink}] /\ \A d \in Callers : d # c => seen'[d] = seen[d]
      BY <1>0, <2>3, <3>1
    <3> QED
      BY <1>9, <2>3, <3>2, Within DEF Check, Inside, progress
  <2> QED
    BY <1>9, <2>1, <2>2, <2>3 DEF Check
<1>10. CASE Compare(c)
  <2>1. (named = seen[c]) \in BOOLEAN
    OBVIOUS
  <2> QED
    BY <1>8, <1>10, <2>1 DEF Compare, Inside
<1>11. CASE Resolve(c)
  <2>1. CASE Return(c, FALSE)
    BY <1>8, <1>11, <2>1 DEF Resolve, Inside
  <2>2. CASE /\ named # NoLink /\ seen' = [seen EXCEPT ![c] = named]
             /\ Goto(c, "adding") /\ UNCHANGED <<holder, found, pos>>
    <3>1. seen' \in [Callers -> Parents \cup {NoLink}] /\ \A d \in Callers : d # c => seen'[d] = seen[d]
      BY <1>0, <2>2 DEF IInv, TypeOK
    <3>2. dev # NoLink => dev.by = Others
      BY <1>11 DEF Resolve, IInv, Alone
    <3> QED
      BY <1>11, <2>2, <3>1, <3>2, Within DEF Resolve, Inside, progress
  <2> QED
    BY <1>11, <2>1, <2>2 DEF Resolve
<1>12. CASE LinkAdd(c)
  <2>1. CASE Return(c, FALSE) /\ UNCHANGED dev
    BY <1>8, <1>12, <2>1 DEF LinkAdd, Inside
  <2>2. CASE /\ Addable(c)
             /\ dev' = [parent |-> seen[c], up |-> FALSE, by |-> c, refused |-> FALSE]
             /\ Goto(c, "raising") /\ UNCHANGED <<holder, found, pos, seen>>
    <3>1. /\ at[c] = "adding" /\ at'[c] = "raising" /\ holder = c /\ pos[c] \in Positions
          /\ \A d \in Callers : d # c => at'[d] = at[d] /\ at[d] \notin Inside
          /\ at' \in [Callers -> Labels]
          /\ UNCHANGED <<links, asking, opened, calm>>
      BY <1>0, <1>12, <2>2 DEF LinkAdd, Goto, IInv, TypeOK, Inside, Labels
    <3>2. dev' \in Devices /\ dev'.parent \in alive
      BY <1>0, <2>2 DEF Addable, Devices
    <3>3. TypeOK'
      BY <2>2, <3>1, <3>2 DEF IInv, TypeOK, links, Labels, Inside
    <3>4. (Alone /\ Prepared)'
      BY <2>2, <3>1 DEF Alone, Prepared, Inside
    <3> QED
      BY <3>3, <3>4 DEF IInv
  <2> QED
    BY <1>12, <2>1, <2>2 DEF LinkAdd
<1>13. CASE LinkSetUp(c)
  <2>1. at[c] = "raising" /\ UNCHANGED <<links, asking, opened, calm>>
    BY <1>13 DEF LinkSetUp
  <2>2. CASE Raisable /\ dev' = [dev EXCEPT !.up = TRUE] /\ Return(c, TRUE)
    <3>1. dev \in Devices /\ dev # NoLink
      BY <2>2 DEF Raisable, IInv, TypeOK
    <3>2. dev' \in Devices /\ dev'.parent = dev.parent /\ dev'.by = dev.by /\ dev'.up
      BY <2>2, <3>1 DEF Devices
    <3> QED
      BY <2>1, <2>2, <3>1, <3>2, Returned DEF IInv, TypeOK, Inside
  <2>3. CASE Raisable /\ dev' = [dev EXCEPT !.refused = TRUE] /\ Return(c, FALSE)
    <3>1. dev \in Devices /\ dev # NoLink
      BY <2>3 DEF Raisable, IInv, TypeOK
    <3>2. dev' \in Devices /\ dev'.parent = dev.parent /\ dev'.by = dev.by /\ dev'.refused
      BY <2>3, <3>1 DEF Devices
    <3> QED
      BY <2>1, <2>3, <3>1, <3>2, Returned DEF IInv, TypeOK, Inside
  <2>4. CASE ~ Raisable /\ Return(c, FALSE) /\ UNCHANGED dev
    <3>1. /\ dev' \in Devices \cup {NoLink}
          /\ dev' # NoLink => dev'.parent \in alive \cup {NoLink}
          /\ dev' # NoLink => dev # NoLink /\ dev'.by = dev.by
          /\ at[c] = "raising" =>
               (dev' # NoLink /\ dev'.by \in Callers /\ dev'.parent \in up => dev'.up \/ dev'.refused)
      BY <2>4 DEF IInv, TypeOK, Raisable
    <3>2. at[c] \in Inside /\ Return(c, FALSE) /\ FALSE \in BOOLEAN
      BY <2>1, <2>4 DEF Inside
    <3> QED
      BY <2>1, <3>1, <3>2, Returned, Zenon
  <2> QED
    BY <1>13, <2>2, <2>3, <2>4 DEF LinkSetUp
<1> QED
  BY <1>1, <1>2, <1>3, <1>4, <1>5, <1>6, <1>7, <1>9, <1>10, <1>11, <1>12, <1>13
     DEF Step, PrepareVLAN

LEMMA NextInv == IInv /\ [Next]_vars => IInv'
<1> SUFFICES ASSUME IInv, [Next]_vars PROVE IInv'
  OBVIOUS
<1> USE VLANLinkAssumption
<1>0. dev # NoLink => dev \in Devices /\ dev.parent \in alive \cup {NoLink}
  BY DEF IInv, TypeOK
<1>1. ASSUME NEW p \in Parents, LinkUp(p) \/ LinkDown(p) PROVE IInv'
  <2>1. /\ UNCHANGED <<alive, named, callers, calm>>
        /\ up' \subseteq alive /\ up' \ {p} = up \ {p} /\ p \in alive
    BY <1>1 DEF LinkUp, LinkDown, IInv, TypeOK
  <2>2. CASE ~ Over(p)
    <3>1. dev' = dev
      BY <1>1, <2>2 DEF LinkUp, LinkDown
    <3> QED
      BY <1>0, <2>1, <2>2, <3>1, Around DEF IInv, TypeOK, Over
  <2>3. CASE Over(p)
    <3>1. \/ dev' = [dev EXCEPT !.up = TRUE, !.refused = FALSE]
          \/ dev' = [dev EXCEPT !.up = FALSE] /\ p \notin up'
      BY <1>1, <2>3 DEF LinkUp, LinkDown
    <3>2. /\ dev' \in Devices /\ dev'.parent = p /\ dev'.by = dev.by /\ dev.parent = p
          /\ p \in up' => dev'.up
      BY <1>0, <2>3, <3>1 DEF Devices, Over
    <3> QED
      BY <2>1, <2>3, <3>2, Around DEF IInv, TypeOK, Over
  <2> QED
    BY <2>2, <2>3
<1>2. ASSUME NEW p \in Parents, LinkRemoved(p) PROVE IInv'
  <2>1. /\ UNCHANGED <<callers, calm>> /\ alive' = alive \ {p} /\ up' = up \ {p}
        /\ named' \in alive' \cup {NoLink} /\ dev' \in {dev, NoLink}
        /\ dev' = dev => dev = NoLink \/ dev.parent # p
    BY <1>2 DEF LinkRemoved, IInv, TypeOK, Over
  <2> QED
    BY <1>0, <2>1, Around DEF IInv, TypeOK
<1>3. CASE LinkRenamed \/ Settle
  BY <1>0, <1>3, Around DEF LinkRenamed, Settle, links, IInv, TypeOK
<1>4. CASE OthersAdd
  <2>1. PICK p \in alive \cup {NoLink} :
          dev' = [parent |-> p, up |-> p \in up, by |-> Others, refused |-> FALSE]
    BY <1>4 DEF OthersAdd
  <2>2. dev = NoLink /\ UNCHANGED <<links, callers, calm>>
    BY <1>4 DEF OthersAdd
  <2>3. dev' \in Devices /\ dev'.parent = p /\ dev'.by = Others
    BY <2>1 DEF Devices, IInv, TypeOK
  <2> QED
    BY <2>2, <2>3, Around DEF IInv, TypeOK, links
<1>5. CASE OthersRemove
  BY <1>5, Around DEF OthersRemove, links, IInv, TypeOK
<1>6. CASE UNCHANGED vars
  BY <1>0, <1>6, Around DEF vars, callers, links, progress, IInv, TypeOK
<1> QED
  BY <1>1, <1>2, <1>3, <1>4, <1>5, <1>6, StepInv DEF Next, Environment

LEMMA Invariant == Spec => []IInv
BY InitInv, NextInv, PTL DEF Spec

\* The mutex is held exactly while a caller is in PrepareVLAN, and all else has its type.
THEOREM TypeCorrect == Spec => []TypeOK
BY Invariant, PTL DEF IInv

\* However many callers prepare the same device, none of them finds LinkAdd refused because of
\* another one.
THEOREM NoCollision == Spec => []CollidesWithOthersOnly
<1>1. IInv => CollidesWithOthersOnly
  BY DEF IInv, Alone, CollidesWithOthersOnly
<1> QED
  BY <1>1, Invariant, PTL

\* A device a caller has left is up with its parent, also if it could not be raised because the
\* parent was down; the one exception is a LinkSetUp that failed under a parent that was up.
THEOREM LeftUp == Spec => []CreatedIsUp
<1>1. IInv => CreatedIsUp
  BY VLANLinkAssumption DEF IInv, TypeOK, Prepared, CreatedIsUp, Inside
<1> QED
  BY <1>1, Invariant, PTL

-----------------------------------------------------------------------------
(* What liveness rests on: a call made while it is calm                     *)

\* What Settle waits for stays so.
Quiet ==
  calm =>
    /\ named \in up
    /\ dev # NoLink => dev.parent = named
    /\ \A c \in Callers : at[c] = "adding" => seen[c] \in {named} \cup (Parents \ alive)

\* What a caller keeps between and during its calls.
Orderly(c) ==
  /\ at[c] \in {"idle", "scan"} => asking[c] = "exists"
  /\ at[c] \in {"index", "naming"} => asking[c] = "index"
  /\ at[c] = "idle" \/ (at[c] = "scan" /\ pos[c] = 1) => found[c] = {} /\ pos[c] = 1
  /\ at[c] = "scan" /\ pos[c] = 1 => opened[c] = {}

AllOrderly == \A c \in Callers : Orderly(c)

Usable == {i \in Positions : Names[i] # "malformed"}

\* What a caller has seen in PrepareVLAN is still so.
Current(c) ==
  /\ at[c] = "comparing" => dev # NoLink /\ seen[c] = named
  /\ at[c] = "resolving" => dev = NoLink
  /\ at[c] = "adding" => dev = NoLink /\ seen[c] = named
  /\ at[c] = "raising" => dev # NoLink

\* It has found each interface it was to find, up to where it is.
Finding(c) ==
  /\ asking[c] = "exists"
  /\ found[c] \subseteq Expected(c)
  /\ \A i \in Usable : i < pos[c] => i \in found[c] \/ (c \in FirstOnly /\ found[c] # {})
  /\ opened[c] = {}
  /\ at[c] # "scan" => pos[c] \in Expected(c)

\* It has an index of each interface it found, or will ask for it.
Opening(c) ==
  /\ asking[c] = "index"
  /\ Expected(c) = found[c] \cup opened[c] \cup (IF at[c] = "index" THEN {} ELSE {pos[c]})
  /\ at[c] = "naming" /\ Names[pos[c]] = "tagged" => dev # NoLink

\* A call that goes as it should.
GoodCall(c) ==
  /\ calm /\ at[c] # "idle"
  /\ Finding(c) \/ Opening(c)
  /\ at[c] \in Inside \cup {"locking"} => Names[pos[c]] = "tagged"
  /\ Current(c)

\* A caller leaves the others alone, and the interfaces; the device it may add or raise.
LEMMA OwnStep ==
  ASSUME TypeOK, NEW c \in Callers, Call(c) \/ Lock(c) \/ Step(c)
  PROVE  /\ UNCHANGED <<links, calm>>
         /\ \A d \in Callers \ {c} :
              /\ at'[d] = at[d] /\ asking'[d] = asking[d] /\ pos'[d] = pos[d]
              /\ found'[d] = found[d] /\ opened'[d] = opened[d] /\ seen'[d] = seen[d]
<1>0. /\ at \in [Callers -> Labels] /\ asking \in [Callers -> {"exists", "index"}]
      /\ pos \in [Callers -> 1 .. Len(Names) + 1]
      /\ found \in [Callers -> SUBSET Positions] /\ opened \in [Callers -> SUBSET Positions]
      /\ seen \in [Callers -> Parents \cup {NoLink}]
  BY DEF TypeOK, Labels
<1> DEFINE Rest(d) == /\ at'[d] = at[d] /\ asking'[d] = asking[d] /\ pos'[d] = pos[d]
                      /\ found'[d] = found[d] /\ opened'[d] = opened[d] /\ seen'[d] = seen[d]
<1>1. CASE Call(c) \/ Lock(c)
  BY <1>0, <1>1 DEF Call, Lock, Goto, progress
<1>2. CASE Malformed(c) \/ PlainExists(c) \/ TaggedExists(c) \/ ScanEnds(c)
  BY <1>0, <1>2 DEF Malformed, PlainExists, TaggedExists, ScanEnds, Goto, progress
<1>3. CASE Index(c) \/ IndexEnds(c) \/ IfNameToIndex(c)
  BY <1>0, <1>3 DEF Index, IndexEnds, IfNameToIndex, Goto
<1>4. ASSUME NEW ok \in BOOLEAN, Return(c, ok), UNCHANGED <<links, asking, opened, calm>>
      PROVE  UNCHANGED <<links, calm>> /\ \A d \in Callers \ {c} : Rest(d)
  <2>1. /\ \A d \in Callers \ {c} : at'[d] = at[d] /\ seen'[d] = seen[d]
        /\ \A d \in Callers \ {c} : pos'[d] = pos[d] /\ found'[d] = found[d]
    BY <1>0, <1>4 DEF Return, Goto
  <2> QED
    BY <1>4, <2>1
<1>5. CASE Check(c)
  BY <1>0, <1>4, <1>5 DEF Check, Goto
<1>6. CASE Compare(c)
  <2>1. (named = seen[c]) \in BOOLEAN
    OBVIOUS
  <2> QED
    BY <1>4, <1>6, <2>1 DEF Compare
<1>7. CASE Resolve(c)
  BY <1>0, <1>4, <1>7 DEF Resolve, Goto
<1>8. CASE LinkAdd(c)
  BY <1>0, <1>4, <1>8 DEF LinkAdd, Goto
<1>9. CASE LinkSetUp(c)
  BY <1>0, <1>4, <1>9 DEF LinkSetUp
<1> QED
  BY <1>1, <1>2, <1>3, <1>5, <1>6, <1>7, <1>8, <1>9 DEF Step, PrepareVLAN

\* The device stays, once it is there, over its parent; it is added by who has looked for it.
LEMMA DevStep ==
  ASSUME TypeOK, NEW c \in Callers, Call(c) \/ Lock(c) \/ Step(c)
  PROVE  \/ dev' = dev
         \/ /\ at[c] = "adding" /\ dev = NoLink
            /\ dev' # NoLink /\ dev'.parent = seen[c] /\ seen[c] \in alive
         \/ at[c] = "raising" /\ dev # NoLink /\ dev' # NoLink /\ dev'.parent = dev.parent
<1>1. CASE LinkAdd(c)
  <2>1. CASE Addable(c) /\ dev' = [parent |-> seen[c], up |-> FALSE, by |-> c, refused |-> FALSE]
    <3>1. dev' \in Devices /\ dev'.parent = seen[c]
      BY <2>1 DEF Devices, Addable, TypeOK
    <3> QED
      BY <1>1, <2>1, <3>1, VLANLinkNilAssumption DEF LinkAdd, Addable
  <2> QED
    BY <1>1, <2>1 DEF LinkAdd
<1>2. CASE LinkSetUp(c)
  <2>1. CASE Raisable /\ dev' \in {[dev EXCEPT !.up = TRUE], [dev EXCEPT !.refused = TRUE]}
    <3>1. dev \in Devices /\ dev # NoLink
      BY <2>1 DEF Raisable, TypeOK
    <3>2. dev' \in Devices /\ dev'.parent = dev.parent
      BY <2>1, <3>1 DEF Devices
    <3> QED
      BY <1>2, <3>1, <3>2, VLANLinkNilAssumption DEF LinkSetUp
  <2> QED
    BY <1>2, <2>1 DEF LinkSetUp
<1> QED
  BY <1>1, <1>2 DEF Call, Lock, Step, Malformed, PlainExists, TaggedExists, ScanEnds, Index,
     IndexEnds, IfNameToIndex, PrepareVLAN, Check, Compare, Resolve

LEMMA CalmStep ==
  ASSUME calm, Next
  PROVE  \E c \in Callers : Call(c) \/ Lock(c) \/ Step(c)
BY DEF Next, Environment, LinkUp, LinkDown, LinkRemoved, LinkRenamed, OthersAdd, OthersRemove,
       Settle

LEMMA QuietInv == TypeOK /\ Quiet /\ [Next]_vars => Quiet'
<1> SUFFICES ASSUME TypeOK, Quiet, [Next]_vars, calm' PROVE Quiet'
  BY DEF Quiet
<1>1. CASE calm /\ Next
  <2>1. PICK c \in Callers : Call(c) \/ Lock(c) \/ Step(c)
    BY <1>1, CalmStep
  <2>2. named' \in up' /\ UNCHANGED links
    BY <1>1, <2>1, OwnStep DEF Quiet, links
  <2>3. dev' # NoLink => dev'.parent = named'
    BY <1>1, <2>1, <2>2, DevStep DEF Quiet, links
  <2>4. ASSUME NEW d \in Callers, at'[d] = "adding"
        PROVE  seen'[d] \in {named} \cup (Parents \ alive)
    <3>1. CASE d # c
      BY <1>1, <2>1, <2>4, <3>1, OwnStep DEF Quiet
    <3>2. CASE d = c
      <4>1. at \in [Callers -> Labels] /\ seen \in [Callers -> Parents \cup {NoLink}]
        BY DEF TypeOK, Labels
      <4>2. Resolve(c)
        BY <2>1, <2>4, <3>2, <4>1
           DEF Call, Lock, Step, Malformed, PlainExists, TaggedExists, ScanEnds, Index,
               IndexEnds, IfNameToIndex, PrepareVLAN, Check, Compare, LinkAdd, LinkSetUp, Return,
               Goto
      <4> QED
        BY <2>4, <3>2, <4>1, <4>2 DEF Resolve, Goto, Return
    <3> QED
      BY <3>1, <3>2
  <2> QED
    BY <2>2, <2>3, <2>4 DEF Quiet, links
<1>2. CASE ~ calm /\ Next
  <2>1. Settle
    BY <1>2, OwnStep
       DEF Next, Environment, LinkUp, LinkDown, LinkRemoved, LinkRenamed, OthersAdd, OthersRemove
  <2> QED
    BY <2>1 DEF Settle, Over, Quiet, callers, links
<1>3. CASE UNCHANGED vars
  BY <1>3 DEF vars, links, Quiet
<1> QED
  BY <1>1, <1>2, <1>3

LEMMA OrderlyInv == TypeOK /\ AllOrderly /\ [Next]_vars => AllOrderly'
<1> SUFFICES ASSUME TypeOK, AllOrderly, [Next]_vars, NEW v \in Callers PROVE Orderly(v)'
  BY DEF AllOrderly
<1>0. /\ at \in [Callers -> Labels] /\ asking \in [Callers -> {"exists", "index"}]
      /\ pos \in [Callers -> 1 .. Len(Names) + 1]
      /\ found \in [Callers -> SUBSET Positions] /\ opened \in [Callers -> SUBSET Positions]
      /\ Orderly(v) /\ Len(Names) \in Nat
  BY VLANLinkAssumption DEF TypeOK, Labels, AllOrderly
<1>1. CASE UNCHANGED <<at, asking, progress>>
  BY <1>0, <1>1 DEF Orderly, progress
<1>2. ASSUME NEW c \in Callers, c # v, Call(c) \/ Lock(c) \/ Step(c) PROVE Orderly(v)'
  BY <1>0, <1>2, OwnStep DEF Orderly
<1>3. CASE Call(v) \/ Lock(v)
  BY <1>0, <1>3 DEF Call, Lock, Goto, Orderly, progress
<1>4. CASE Malformed(v) \/ PlainExists(v)
  <2>1. /\ at[v] = "scan" /\ at'[v] = "scan" /\ asking'[v] = asking[v] /\ opened'[v] = opened[v]
        /\ pos'[v] = pos[v] + 1 /\ pos'[v] # 1
    BY <1>0, <1>4 DEF Malformed, PlainExists
  <2> QED
    BY <1>0, <2>1 DEF Orderly
<1>5. CASE TaggedExists(v) \/ ScanEnds(v)
  BY <1>0, <1>5 DEF TaggedExists, ScanEnds, Goto, Orderly, progress
<1>6. CASE Index(v) \/ IndexEnds(v) \/ IfNameToIndex(v)
  BY <1>0, <1>6 DEF Index, IndexEnds, IfNameToIndex, Goto, Orderly
<1>7. ASSUME NEW ok \in BOOLEAN, Return(v, ok), UNCHANGED asking PROVE Orderly(v)'
  <2>1. CASE asking[v] = "exists"
    <3>1. at'[v] = "scan" /\ asking'[v] = "exists" /\ pos'[v] = pos[v] + 1 /\ pos'[v] # 1
      BY <1>0, <1>7, <2>1 DEF Return, Goto
    <3> QED
      BY <3>1 DEF Orderly
  <2>2. CASE asking[v] # "exists"
    <3>1. at'[v] \in {"naming", "index"} /\ asking'[v] = "index"
      BY <1>0, <1>7, <2>2 DEF Return, Goto
    <3> QED
      BY <3>1 DEF Orderly
  <2> QED
    BY <2>1, <2>2
<1>8. ASSUME NEW l \in Inside, Goto(v, l), UNCHANGED asking PROVE Orderly(v)'
  BY <1>0, <1>8 DEF Goto, Orderly, Inside
<1>9. CASE Compare(v)
  <2>1. (named = seen[v]) \in BOOLEAN
    OBVIOUS
  <2> QED
    BY <1>7, <1>9, <2>1 DEF Compare
<1>10. CASE Check(v) \/ Resolve(v) \/ LinkAdd(v) \/ LinkSetUp(v)
  BY <1>7, <1>8, <1>10 DEF Check, Resolve, LinkAdd, LinkSetUp, Inside
<1>11. ASSUME NEW c \in Callers, Call(c) \/ Lock(c) \/ Step(c) PROVE Orderly(v)'
  BY <1>2, <1>3, <1>4, <1>5, <1>6, <1>9, <1>10, <1>11 DEF Step, PrepareVLAN
<1>12. Environment \/ UNCHANGED vars => UNCHANGED <<at, asking, progress>>
  BY DEF Environment, LinkUp, LinkDown, LinkRemoved, LinkRenamed, OthersAdd, OthersRemove,
         Settle, callers, progress, vars
<1> QED
  BY <1>1, <1>11, <1>12 DEF Next

LEMMA CallInv == Spec => [](TypeOK /\ Quiet /\ AllOrderly)
<1>1. Init => Quiet /\ AllOrderly
  BY DEF Init, Quiet, AllOrderly, Orderly
<1> QED
  BY <1>1, QuietInv, OrderlyInv, TypeCorrect, PTL DEF Spec

\* A call that begins while it is calm is a good one.
LEMMA Begun ==
  ASSUME TypeOK, Quiet, NEW c \in Callers, Orderly(c), calm, at[c] = "scan", pos[c] = 1
  PROVE  GoodCall(c)
<1>1. asking[c] = "exists" /\ found[c] = {} /\ opened[c] = {}
  BY DEF Orderly
<1>2. \A i \in Usable : ~ (i < pos[c])
  BY DEF Usable, Positions
<1> QED
  BY <1>1, <1>2 DEF GoodCall, Finding, Current, Inside

\* From wherever the call begins, a call of a calm system is on its way to what it is to return.
THEOREM CalmCallsBegin ==
  Spec => [](\A c \in Callers : calm /\ at[c] = "scan" /\ pos[c] = 1 => GoodCall(c))
<1>1. TypeOK /\ Quiet /\ AllOrderly
        => \A c \in Callers : calm /\ at[c] = "scan" /\ pos[c] = 1 => GoodCall(c)
  BY Begun DEF AllOrderly
<1> QED
  BY <1>1, CallInv, PTL

\* A call comes back with what it is to return.
Succeeds(c) == at'[c] = "idle" /\ opened'[c] = Expected(c)

LEMMA ExpectedUsable ==
  ASSUME NEW c \in Callers
  PROVE  /\ Expected(c) \subseteq Usable /\ Usable \subseteq Positions
         /\ c \notin FirstOnly => Expected(c) = Usable
         /\ c \in FirstOnly => \A i, j \in Expected(c) : i = j
         /\ \A i \in Usable : (\A j \in Usable : i <= j) => i \in Expected(c)
<1>1. Positions \subseteq Nat
  BY VLANLinkAssumption DEF Positions
<1> QED
  BY <1>1 DEF Expected, Usable

\* PrepareVLAN returns without an error.
LEMMA ReturnGood ==
  ASSUME TypeOK, NEW c \in Callers, GoodCall(c), at[c] \in Inside, Return(c, TRUE), Orderly(c),
         UNCHANGED <<asking, opened, calm>>, dev' # NoLink
  PROVE  GoodCall(c)'
<1>0. /\ at \in [Callers -> Labels] /\ asking \in [Callers -> {"exists", "index"}]
      /\ pos \in [Callers -> 1 .. Len(Names) + 1]
      /\ found \in [Callers -> SUBSET Positions] /\ opened \in [Callers -> SUBSET Positions]
      /\ Len(Names) \in Nat
  BY VLANLinkAssumption DEF TypeOK, Labels
<1>1. CASE asking[c] = "exists"
  <2>1. /\ at'[c] = "scan" /\ found'[c] = found[c] \cup {pos[c]} /\ pos'[c] = pos[c] + 1
        /\ pos[c] \in Expected(c) /\ Finding(c)
    BY <1>0, <1>1 DEF Return, Goto, GoodCall, Finding, Opening, Inside
  <2>2. Finding(c)'
    <3>1. \A i \in Usable : i < pos[c] + 1 => i < pos[c] \/ i = pos[c]
      BY <1>0 DEF Usable, Positions
    <3>2. \A i \in Usable : i < pos'[c] => i \in found'[c] \/ (c \in FirstOnly /\ found'[c] # {})
      BY <2>1, <3>1 DEF Finding
    <3>3. found'[c] \subseteq Expected(c) /\ opened'[c] = {} /\ asking'[c] = "exists"
      BY <1>1, <2>1 DEF Finding
    <3> QED
      BY <2>1, <3>2, <3>3 DEF Finding, Expected, Usable
  <2> QED
    BY <2>1, <2>2 DEF GoodCall, Current, Inside
<1>2. CASE asking[c] = "index"
  <2>1. /\ at'[c] = "naming" /\ found'[c] = found[c] /\ pos'[c] = pos[c] /\ Opening(c)
    BY <1>0, <1>2 DEF Return, Goto, GoodCall, Finding, Opening, Inside
  <2>2. Expected(c)' = Expected(c)
    BY DEF Expected
  <2>3. Opening(c)'
    BY <2>1, <2>2 DEF Opening, Inside
  <2> QED
    BY <2>1, <2>3 DEF GoodCall, Current, Inside
<1> QED
  BY <1>0, <1>1, <1>2

LEMMA GoodStep ==
  ASSUME TypeOK, Quiet, NEW c \in Callers, Orderly(c), GoodCall(c), Call(c) \/ Lock(c) \/ Step(c)
  PROVE  Succeeds(c) \/ GoodCall(c)'
<1>0. /\ at \in [Callers -> Labels] /\ asking \in [Callers -> {"exists", "index"}]
      /\ pos \in [Callers -> 1 .. Len(Names) + 1]
      /\ found \in [Callers -> SUBSET Positions] /\ opened \in [Callers -> SUBSET Positions]
      /\ seen \in [Callers -> Parents \cup {NoLink}]
      /\ Len(Names) \in Nat /\ Positions = 1 .. Len(Names)
  BY VLANLinkAssumption DEF TypeOK, Labels, Positions
<1>1. /\ calm /\ calm' /\ UNCHANGED links /\ at[c] # "idle"
      /\ named \in up /\ named \in alive /\ named # NoLink
      /\ dev # NoLink => dev.parent = named
      /\ at[c] \in Inside \cup {"locking"} => Names[pos[c]] = "tagged"
  <2>1. UNCHANGED <<links, calm>>
    BY OwnStep
  <2>2. calm /\ at[c] # "idle" /\ (at[c] \in Inside \cup {"locking"} => Names[pos[c]] = "tagged")
    BY DEF GoodCall
  <2>3. /\ named \in up /\ named \in alive /\ named # NoLink
        /\ dev # NoLink => dev.parent = named
    BY <2>2, VLANLinkAssumption DEF Quiet, TypeOK
  <2> QED
    BY <2>1, <2>2, <2>3
<1>2. Expected(c)' = Expected(c)
  BY DEF Expected
<1>3. at[c] = "scan" => Finding(c)
  BY DEF GoodCall, Opening, Orderly
<1>4. at[c] \in {"index", "naming"} => Opening(c)
  BY DEF GoodCall, Finding, Orderly
<1>5. ~ Call(c)
  BY <1>1 DEF Call
<1>6. CASE Malformed(c)
  <2>1. /\ at[c] = "scan" /\ at'[c] = "scan" /\ pos'[c] = pos[c] + 1 /\ pos[c] \notin Usable
        /\ found'[c] = found[c] /\ opened'[c] = opened[c] /\ asking'[c] = asking[c]
    BY <1>0, <1>6 DEF Malformed, Usable
  <2>2. \A i \in Usable : i < pos'[c] => i < pos[c]
    BY <1>0, <2>1 DEF Usable
  <2>3. Finding(c)'
    BY <1>2, <1>3, <2>1, <2>2 DEF Finding
  <2> QED
    BY <1>1, <2>1, <2>3 DEF GoodCall, Current, Inside
<1>7. ASSUME at[c] = "scan", ~ Scanned(c), Names[pos[c]] # "malformed"
      PROVE  pos[c] \in Expected(c)
  <2>1. pos[c] \in Usable
    BY <1>0, <1>7 DEF Scanned, Usable
  <2>2. CASE c \notin FirstOnly
    BY <2>1, <2>2, ExpectedUsable
  <2>3. CASE c \in FirstOnly
    <3>1. \A i \in Usable : ~ (i < pos[c])
      BY <1>3, <1>7, <2>3 DEF Scanned, Finding
    <3>2. \A i \in Usable : pos[c] <= i
      BY <1>0, <2>1, <3>1 DEF Usable
    <3> QED
      BY <2>1, <3>2, ExpectedUsable
  <2> QED
    BY <2>2, <2>3
<1>8. CASE PlainExists(c)
  <2>1. /\ at[c] = "scan" /\ at'[c] = "scan" /\ pos'[c] = pos[c] + 1 /\ pos[c] \in Expected(c)
        /\ found'[c] = found[c] \cup {pos[c]} /\ opened'[c] = opened[c] /\ asking'[c] = asking[c]
    BY <1>0, <1>1, <1>7, <1>8 DEF PlainExists
  <2>2. \A i \in Usable : i < pos'[c] => i < pos[c] \/ i = pos[c]
    BY <1>0, <2>1 DEF Usable
  <2>3. Finding(c)'
    BY <1>2, <1>3, <2>1, <2>2 DEF Finding
  <2> QED
    BY <1>1, <2>1, <2>3 DEF GoodCall, Current, Inside
<1>9. CASE TaggedExists(c)
  <2>1. /\ at[c] = "scan" /\ at'[c] = "locking" /\ pos'[c] = pos[c] /\ pos[c] \in Expected(c)
        /\ Names[pos[c]] = "tagged"
        /\ found'[c] = found[c] /\ opened'[c] = opened[c] /\ asking'[c] = asking[c]
    BY <1>0, <1>7, <1>9 DEF TaggedExists, Goto, progress
  <2>2. Finding(c)'
    BY <1>2, <1>3, <2>1 DEF Finding
  <2> QED
    BY <1>1, <2>1, <2>2 DEF GoodCall, Current, Inside
<1>10. CASE ScanEnds(c)
  <2>1. /\ at[c] = "scan" /\ Scanned(c) /\ found'[c] = found[c] /\ opened'[c] = {}
        /\ found[c] \subseteq Expected(c) /\ opened[c] = {}
    BY <1>3, <1>10 DEF ScanEnds, Finding
  <2>2. Expected(c) = found[c]
    <3>1. CASE c \in FirstOnly /\ found[c] # {}
      <4>1. PICK i \in found[c] : i \in Expected(c)
        BY <2>1, <3>1
      <4>2. \A j \in Expected(c) : j = i
        BY <3>1, <4>1, ExpectedUsable
      <4> QED
        BY <2>1, <4>1, <4>2
    <3>2. CASE ~ (c \in FirstOnly /\ found[c] # {})
      <4>1. \A i \in Usable : i < pos[c]
        BY <1>0, <2>1, <3>2 DEF Scanned, Usable
      <4>2. Usable \subseteq found[c]
        BY <1>3, <2>1, <3>2, <4>1 DEF Finding
      <4> QED
        BY <2>1, <4>2, ExpectedUsable
    <3> QED
      BY <3>1, <3>2
  <2>3. CASE found[c] = {}
    BY <1>0, <1>10, <2>1, <2>2, <2>3 DEF ScanEnds, Goto, Succeeds
  <2>4. CASE found[c] # {}
    <3>1. at'[c] = "index" /\ asking'[c] = "index"
      BY <1>0, <1>10, <2>4 DEF ScanEnds, Goto
    <3>2. Opening(c)'
      BY <1>2, <2>1, <2>2, <3>1 DEF Opening
    <3> QED
      BY <1>1, <3>1, <3>2 DEF GoodCall, Current, Inside
  <2> QED
    BY <2>3, <2>4
<1>11. CASE Index(c)
  <2>1. PICK i \in found[c] :
          /\ found' = [found EXCEPT ![c] = found[c] \ {i}] /\ pos' = [pos EXCEPT ![c] = i]
          /\ Goto(c, IF Names[i] = "tagged" THEN "locking" ELSE "naming")
    BY <1>11 DEF Index
  <2>2. /\ at[c] = "index" /\ at'[c] = (IF Names[i] = "tagged" THEN "locking" ELSE "naming")
        /\ found'[c] = found[c] \ {i} /\ pos'[c] = i
        /\ opened'[c] = opened[c] /\ asking'[c] = asking[c]
    BY <1>0, <1>11, <2>1 DEF Index, Goto
  <2>3. Opening(c)'
    BY <1>2, <1>4, <2>2 DEF Opening
  <2> QED
    BY <1>1, <2>2, <2>3 DEF GoodCall, Current, Inside
<1>12. CASE IndexEnds(c)
  BY <1>0, <1>4, <1>12 DEF IndexEnds, Goto, Succeeds, Opening
<1>13. CASE IfNameToIndex(c)
  <2>1. /\ at[c] = "naming" /\ at'[c] = "index" /\ opened'[c] = opened[c] \cup {pos[c]}
        /\ found'[c] = found[c] /\ asking'[c] = asking[c]
    BY <1>0, <1>1, <1>4, <1>13 DEF IfNameToIndex, Goto, Opening
  <2>2. Opening(c)'
    BY <1>2, <1>4, <2>1 DEF Opening
  <2> QED
    BY <1>1, <2>1, <2>2 DEF GoodCall, Current, Inside
\* Within PrepareVLAN the caller keeps what it has found.
<1>14. ASSUME NEW l \in Inside, at[c] \in Inside \cup {"locking"}, at'[c] = l, Current(c)',
              UNCHANGED <<asking, progress>>
       PROVE  GoodCall(c)'
  <2>1. Finding(c) => Finding(c)'
    BY <1>2, <1>14 DEF Finding, progress, Inside
  <2>2. Opening(c) => Opening(c)'
    BY <1>2, <1>14 DEF Opening, progress, Inside
  <2> QED
    BY <1>1, <1>14, <2>1, <2>2 DEF GoodCall, progress, Inside
<1>15. CASE Lock(c)
  BY <1>0, <1>14, <1>15 DEF Lock, Goto, Current, Inside
<1>16. CASE Check(c)
  <2>1. dev.parent # NoLink \/ dev = NoLink
    BY <1>1
  <2>2. /\ at[c] = "checking" /\ UNCHANGED <<asking, progress, dev, named>>
        /\ at'[c] \in {"resolving", "comparing"} /\ Current(c)'
    BY <1>0, <1>1, <1>16, <2>1 DEF Check, Goto, Current, links, progress
  <2> QED
    BY <1>14, <2>2 DEF Inside
<1>17. CASE Compare(c)
  <2>1. named = seen[c] /\ dev # NoLink
    BY <1>17 DEF Compare, GoodCall, Current
  <2> QED
    BY <1>17, <2>1, ReturnGood DEF Compare, Inside
<1>18. CASE Resolve(c)
  <2>1. dev = NoLink
    BY <1>18 DEF Resolve, GoodCall, Current
  <2>2. /\ at[c] = "resolving" /\ UNCHANGED <<asking, progress, dev, named>>
        /\ at'[c] = "adding" /\ Current(c)'
    BY <1>0, <1>1, <1>18, <2>1 DEF Resolve, Goto, Current, links, progress
  <2> QED
    BY <1>14, <2>2 DEF Inside
<1>19. CASE LinkAdd(c)
  <2>1. Addable(c)
    BY <1>1, <1>19 DEF LinkAdd, Addable, GoodCall, Current
  <2>2. /\ at[c] = "adding" /\ UNCHANGED <<asking, progress>> /\ at'[c] = "raising"
    BY <1>0, <1>1, <1>19, <2>1 DEF LinkAdd, Goto, progress
  <2>3. dev' # NoLink
    <3>1. dev' = [parent |-> seen[c], up |-> FALSE, by |-> c, refused |-> FALSE] /\ seen[c] \in alive
      BY <1>1, <1>19, <2>1 DEF LinkAdd, Addable
    <3>2. dev' \in Devices
      BY <3>1 DEF Devices, TypeOK
    <3> QED
      BY <3>2, VLANLinkNilAssumption
  <2> QED
    BY <1>14, <2>2, <2>3 DEF Inside, Current
<1>20. CASE LinkSetUp(c)
  <2>1. Raisable /\ dev # NoLink
    BY <1>1, <1>20 DEF LinkSetUp, Raisable, GoodCall, Current
  <2>2. dev' # NoLink
    BY <1>20, <2>1, DevStep DEF LinkSetUp
  <2>3. at[c] = "raising" /\ Return(c, TRUE) /\ UNCHANGED <<links, asking, opened, calm>>
    BY <1>20, <2>1 DEF LinkSetUp, GoodCall
  <2> QED
    BY <2>1, <2>2, <2>3, ReturnGood DEF Inside
<1> QED
  BY <1>5, <1>6, <1>8, <1>9, <1>10, <1>11, <1>12, <1>13, <1>15, <1>16, <1>17, <1>18, <1>19, <1>20
     DEF Step, PrepareVLAN

\* Nobody else sets a good call back.
LEMMA OthersStep ==
  ASSUME TypeOK, NEW v \in Callers, GoodCall(v),
         NEW c \in Callers \ {v}, Call(c) \/ Lock(c) \/ Step(c)
  PROVE  GoodCall(v)'
<1>1. /\ UNCHANGED <<links, calm>>
      /\ at'[v] = at[v] /\ asking'[v] = asking[v] /\ pos'[v] = pos[v]
      /\ found'[v] = found[v] /\ opened'[v] = opened[v] /\ seen'[v] = seen[v]
  BY OwnStep
<1>2. /\ dev # NoLink => dev' # NoLink
      /\ at[v] \in Inside => dev' = dev \/ dev # NoLink
  BY DevStep DEF TypeOK, Inside
<1>3. at[v] \in {"resolving", "adding"} => dev' = dev
  BY DevStep DEF TypeOK, Inside
<1>4. Current(v)'
  BY <1>1, <1>2, <1>3 DEF GoodCall, Current, links
<1>5. Expected(v)' = Expected(v)
  BY DEF Expected
<1>6. (Finding(v) => Finding(v)') /\ (Opening(v) => Opening(v)')
  BY <1>1, <1>2, <1>5 DEF Finding, Opening
<1> QED
  BY <1>1, <1>4, <1>6 DEF GoodCall

\* How many steps a call takes to its end, at most: for a name it looks for, and an index.
Depth(l) ==
  CASE l = "scan" -> 7
    [] l = "locking" -> 6
    [] l = "checking" -> 5
    [] l = "resolving" -> 4
    [] l = "adding" -> 3
    [] l \in {"raising", "comparing"} -> 2
    [] l = "naming" -> 1
    [] OTHER -> 0

Left(ask, l, p, f) ==
  IF ask = "exists" THEN 8 * (2 * Len(Names) + 2 - p) + Depth(l) ELSE 8 * Cardinality(f) + Depth(l)

LEMMA DepthValues ==
  /\ Depth("scan") = 7 /\ Depth("locking") = 6 /\ Depth("checking") = 5 /\ Depth("resolving") = 4
  /\ Depth("adding") = 3 /\ Depth("raising") = 2 /\ Depth("comparing") = 2 /\ Depth("naming") = 1
  /\ Depth("index") = 0
BY DEF Depth

LEMMA LeftValues ==
  \A l, p, f : /\ Left("exists", l, p, f) = 8 * (2 * Len(Names) + 2 - p) + Depth(l)
               /\ Left("index", l, p, f) = 8 * Cardinality(f) + Depth(l)
BY DEF Left

Unmoved(c) == at'[c] = at[c] /\ asking'[c] = asking[c] /\ pos'[c] = pos[c] /\ found'[c] = found[c]

Shorter(c) ==
  Left(asking'[c], at'[c], pos'[c], found'[c]) < Left(asking[c], at[c], pos[c], found[c])

LEMMA ShorterStep ==
  ASSUME TypeOK, NEW c \in Callers, Orderly(c), Lock(c) \/ Step(c)
  PROVE  at'[c] = "idle" \/ Shorter(c)
<1>0. /\ at \in [Callers -> Labels] /\ asking \in [Callers -> {"exists", "index"}]
      /\ pos \in [Callers -> 1 .. Len(Names) + 1] /\ found \in [Callers -> SUBSET Positions]
      /\ Len(Names) \in Nat /\ Positions = 1 .. Len(Names)
  BY VLANLinkAssumption DEF TypeOK, Labels, Positions
<1>1. /\ IsFiniteSet(found[c]) /\ Cardinality(found[c]) \in Nat
      /\ Cardinality(found[c]) <= Len(Names)
  <2>1. IsFiniteSet(1 .. Len(Names)) /\ Cardinality(1 .. Len(Names)) = Len(Names)
    <3>1. 1 \in Int /\ Len(Names) \in Int
      BY <1>0
    <3>2. /\ IsFiniteSet(1 .. Len(Names))
          /\ Cardinality(1 .. Len(Names)) = IF 1 > Len(Names) THEN 0 ELSE Len(Names) - 1 + 1
      BY <3>1, FS_Interval
    <3> QED
      BY <1>0, <3>2
  <2> QED
    BY <1>0, <2>1, FS_Subset, FS_CardinalityType
<1>2. pos[c] \in Nat /\ pos[c] <= Len(Names) + 1
  BY <1>0
\* On to the next stage of the same name.
<1>3. ASSUME asking'[c] = asking[c], pos'[c] = pos[c], found'[c] = found[c],
             Depth(at'[c]) \in 0 .. 7, Depth(at[c]) \in 0 .. 7, Depth(at'[c]) < Depth(at[c])
      PROVE  Shorter(c)
  <2>1. asking[c] \in {"exists", "index"}
    BY <1>0
  <2>2. CASE asking[c] = "exists"
    <3>1. /\ Left(asking[c], at[c], pos[c], found[c])
               = 8 * (2 * Len(Names) + 2 - pos[c]) + Depth(at[c])
          /\ Left(asking'[c], at'[c], pos'[c], found'[c])
               = 8 * (2 * Len(Names) + 2 - pos[c]) + Depth(at'[c])
      BY <1>3, <2>2, LeftValues
    <3> QED
      BY <1>0, <1>2, <1>3, <3>1 DEF Shorter
  <2>3. CASE asking[c] = "index"
    <3>1. /\ Left(asking[c], at[c], pos[c], found[c]) = 8 * Cardinality(found[c]) + Depth(at[c])
          /\ Left(asking'[c], at'[c], pos'[c], found'[c]) = 8 * Cardinality(found[c]) + Depth(at'[c])
      BY <1>3, <2>3, LeftValues
    <3> QED
      BY <1>1, <1>3, <3>1 DEF Shorter
  <2> QED
    BY <2>1, <2>2, <2>3
\* On to the next name.
<1>4. ASSUME asking[c] = "exists", asking'[c] = "exists", pos'[c] = pos[c] + 1,
             at'[c] = "scan", Depth(at[c]) \in 1 .. 7
      PROVE  Shorter(c)
  <2>1. /\ Left(asking[c], at[c], pos[c], found[c]) = 8 * (2 * Len(Names) + 2 - pos[c]) + Depth(at[c])
        /\ Left(asking'[c], at'[c], pos'[c], found'[c]) = 8 * (2 * Len(Names) + 2 - (pos[c] + 1)) + 7
    BY <1>4, LeftValues, DepthValues
  <2> QED
    BY <1>0, <1>2, <1>4, <2>1 DEF Shorter
<1>5. CASE Malformed(c) \/ PlainExists(c)
  <2>1. /\ at[c] = "scan" /\ at'[c] = "scan" /\ pos'[c] = pos[c] + 1 /\ asking'[c] = asking[c]
        /\ asking[c] = "exists"
    BY <1>0, <1>5 DEF Malformed, PlainExists, Orderly
  <2> QED
    BY <1>4, <2>1, DepthValues
<1>6. CASE TaggedExists(c) \/ Lock(c) \/ IfNameToIndex(c)
  <2>1. /\ asking'[c] = asking[c] /\ pos'[c] = pos[c] /\ found'[c] = found[c]
        /\ <<at[c], at'[c]>> \in {<<"scan", "locking">>, <<"locking", "checking">>, <<"naming", "index">>}
    BY <1>0, <1>6 DEF TaggedExists, Lock, IfNameToIndex, Goto, progress
  <2> QED
    BY <1>3, <2>1, DepthValues
<1>7. CASE ScanEnds(c)
  <2>1. CASE found[c] = {}
    BY <1>0, <1>7, <2>1 DEF ScanEnds, Goto
  <2>2. CASE found[c] # {}
    <3>1. /\ at[c] = "scan" /\ asking[c] = "exists" /\ at'[c] = "index" /\ asking'[c] = "index"
          /\ found'[c] = found[c]
      BY <1>0, <1>7, <2>2 DEF ScanEnds, Goto, Orderly
    <3>2. /\ Left(asking[c], at[c], pos[c], found[c]) = 8 * (2 * Len(Names) + 2 - pos[c]) + 7
          /\ Left(asking'[c], at'[c], pos'[c], found'[c]) = 8 * Cardinality(found[c]) + 0
      BY <3>1, LeftValues, DepthValues
    <3> QED
      BY <1>0, <1>1, <1>2, <3>2 DEF Shorter
  <2> QED
    BY <2>1, <2>2
<1>8. CASE Index(c)
  <2>1. PICK i \in found[c] : found' = [found EXCEPT ![c] = found[c] \ {i}]
    BY <1>8 DEF Index
  <2>2. /\ at[c] = "index" /\ at'[c] \in {"locking", "naming"} /\ found'[c] = found[c] \ {i}
        /\ asking[c] = "index" /\ asking'[c] = "index"
    BY <1>0, <1>8, <2>1 DEF Index, Goto, Orderly
  <2>3. Cardinality(found'[c]) = Cardinality(found[c]) - 1
    BY <1>1, <2>2, FS_RemoveElement
  <2>4. /\ Left(asking[c], at[c], pos[c], found[c]) = 8 * Cardinality(found[c]) + 0
        /\ \/ Left(asking'[c], at'[c], pos'[c], found'[c]) = 8 * (Cardinality(found[c]) - 1) + 6
           \/ Left(asking'[c], at'[c], pos'[c], found'[c]) = 8 * (Cardinality(found[c]) - 1) + 1
    BY <2>2, <2>3, LeftValues, DepthValues
  <2> QED
    BY <1>1, <2>4 DEF Shorter
<1>9. CASE IndexEnds(c)
  BY <1>0, <1>9 DEF IndexEnds, Goto
<1>10. ASSUME NEW ok \in BOOLEAN, Return(c, ok), UNCHANGED asking, at[c] \in Inside PROVE Shorter(c)
  <2>1. Depth(at[c]) \in 2 .. 5
    BY <1>10, DepthValues DEF Inside
  <2>2. CASE asking[c] = "exists"
    <3>1. at'[c] = "scan" /\ asking'[c] = "exists" /\ pos'[c] = pos[c] + 1
      BY <1>0, <1>10, <2>2 DEF Return, Goto
    <3> QED
      BY <1>4, <2>1, <2>2, <3>1
  <2>3. CASE asking[c] # "exists"
    <3>1. /\ at'[c] \in {"naming", "index"} /\ asking'[c] = asking[c]
          /\ pos'[c] = pos[c] /\ found'[c] = found[c]
      BY <1>0, <1>10, <2>3 DEF Return, Goto
    <3>2. Depth(at'[c]) \in 0 .. 1
      BY <3>1, DepthValues
    <3> QED
      BY <1>3, <2>1, <3>1, <3>2
  <2> QED
    BY <2>2, <2>3
<1>11. ASSUME UNCHANGED <<asking, found, pos>>,
              <<at[c], at'[c]>> \in {<<"checking", "resolving">>, <<"checking", "comparing">>,
                                     <<"resolving", "adding">>, <<"adding", "raising">>}
       PROVE  Shorter(c)
  BY <1>3, <1>11, DepthValues
<1>12. CASE Check(c)
  <2>1. \/ at'[c] \in {"resolving", "comparing"} /\ UNCHANGED <<found, pos>>
        \/ Return(c, FALSE)
    BY <1>0, <1>12 DEF Check, Goto
  <2>2. at[c] = "checking" /\ UNCHANGED asking
    BY <1>12 DEF Check
  <2> QED
    BY <1>10, <1>11, <2>1, <2>2 DEF Inside
<1>13. CASE Compare(c)
  <2>1. (named = seen[c]) \in BOOLEAN
    OBVIOUS
  <2> QED
    BY <1>10, <1>13, <2>1 DEF Compare, Inside
<1>14. CASE Resolve(c)
  <2>1. (at'[c] = "adding" /\ UNCHANGED <<found, pos>>) \/ Return(c, FALSE)
    BY <1>0, <1>14 DEF Resolve, Goto
  <2>2. at[c] = "resolving" /\ UNCHANGED asking
    BY <1>14 DEF Resolve
  <2> QED
    BY <1>10, <1>11, <2>1, <2>2 DEF Inside
<1>15. CASE LinkAdd(c)
  <2>1. (at'[c] = "raising" /\ UNCHANGED <<found, pos>>) \/ Return(c, FALSE)
    BY <1>0, <1>15 DEF LinkAdd, Goto
  <2>2. at[c] = "adding" /\ UNCHANGED asking
    BY <1>15 DEF LinkAdd
  <2> QED
    BY <1>10, <1>11, <2>1, <2>2 DEF Inside
<1>16. CASE LinkSetUp(c)
  BY <1>10, <1>16 DEF LinkSetUp, Inside
<1> QED
  BY <1>5, <1>6, <1>7, <1>8, <1>9, <1>12, <1>13, <1>14, <1>15, <1>16 DEF Step, PrepareVLAN

\* Every call ends: each of its steps is one of a bounded number, calm or not, and nothing that
\* other callers, the kernel or anybody else do sets it back.
THEOREM CallsEnd ==
  Spec => [][\A c \in Callers :
               at[c] # "idle" => Unmoved(c) \/ at'[c] = "idle" \/ Shorter(c)]_vars
<1>1. TypeOK /\ AllOrderly /\ [Next]_vars =>
        [\A c \in Callers : at[c] # "idle" => Unmoved(c) \/ at'[c] = "idle" \/ Shorter(c)]_vars
  <2> SUFFICES ASSUME TypeOK, AllOrderly, [Next]_vars, NEW c \in Callers, at[c] # "idle"
               PROVE  Unmoved(c) \/ at'[c] = "idle" \/ Shorter(c)
    OBVIOUS
  <2>1. CASE Lock(c) \/ Step(c)
    BY <2>1, ShorterStep DEF AllOrderly
  <2>2. ~ Call(c)
    BY DEF Call
  <2>3. ASSUME NEW d \in Callers, d # c, Call(d) \/ Lock(d) \/ Step(d) PROVE Unmoved(c)
    BY <2>3, OwnStep DEF Unmoved
  <2>4. Environment \/ UNCHANGED vars => UNCHANGED <<at, asking, pos, found>>
    BY DEF Environment, LinkUp, LinkDown, LinkRemoved, LinkRenamed, OthersAdd, OthersRemove,
           Settle, callers, progress, vars
  <2> QED
    BY <2>1, <2>2, <2>3, <2>4 DEF Next, Unmoved
<1> QED
  BY <1>1, CallInv, PTL DEF Spec

\* Once it is calm a call stays a good one until it comes back with an index for each interface
\* it is to return: no half-done device, no other caller and no error path leads it astray.
THEOREM CalmCallsSucceedOnly ==
  Spec => [][\A c \in Callers : GoodCall(c) => GoodCall(c)' \/ Succeeds(c)]_vars
<1>1. TypeOK /\ Quiet /\ AllOrderly /\ [Next]_vars =>
        [\A c \in Callers : GoodCall(c) => GoodCall(c)' \/ Succeeds(c)]_vars
  <2> SUFFICES ASSUME TypeOK, Quiet, AllOrderly, Next, NEW c \in Callers, GoodCall(c)
               PROVE  GoodCall(c)' \/ Succeeds(c)
    OBVIOUS
  <2>1. PICK d \in Callers : Call(d) \/ Lock(d) \/ Step(d)
    BY CalmStep DEF GoodCall
  <2>2. CASE d = c
    BY <2>1, <2>2, GoodStep DEF AllOrderly
  <2>3. CASE d # c
    BY <2>1, <2>3, OthersStep
  <2> QED
    BY <2>2, <2>3
<1> QED
  BY <1>1, CallInv, PTL DEF Spec
=============================================================================
