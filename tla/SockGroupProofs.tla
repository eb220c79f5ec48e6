-------------------------- MODULE SockGroupProofs --------------------------
(***************************************************************************)
(* Proofs about SockGroup, for any number of external interfaces.          *)
(*                                                                         *)
(* A read takes the error of a socket away.  Warned says why the socket is *)
(* not forgotten: epollOnce had marked it invalid, or could not know yet.  *)
(***************************************************************************)
EXTENDS SockGroup, TLAPS, FiniteSetTheorems, SequenceTheorems

Warned ==
  at = "read" => \A n \in ready \cap failed : ~ extSocks[n].isValid \/ n \in raced

IInv == TypeOK /\ DeafIsNoticed /\ Warned

Positions == 1 .. Len(extIfs)

\* There are not more names than entries in the configuration.
LEMMA FewNames ==
  /\ IsFiniteSet(Names) /\ Cardinality(Names) \in Nat /\ Cardinality(Names) <= Len(extIfs)
  /\ Len(extIfs) \in Nat
<1>1. /\ Len(extIfs) \in Nat /\ extIfs \in [Positions -> Names]
      /\ DOMAIN extIfs = Positions
  BY SockGroupAssumption, LenProperties DEF Positions
<1>2. IsFiniteSet(Positions) /\ Cardinality(Positions) = Len(extIfs)
  BY <1>1, FS_Interval DEF Positions
<1>3. extIfs \in Surjection(Positions, Names)
  BY <1>1 DEF Surjection, Names, Positions
<1>4. IsFiniteSet(Names) /\ Cardinality(Names) <= Cardinality(Positions)
  BY <1>2, <1>3, FS_Surjection DEF ExistsSurjection
<1> QED
  BY <1>1, <1>2, <1>4, FS_CardinalityType

\* Whatever order the interfaces come in, each index is one that advMACs has.
LEMMA IndexType ==
  ASSUME NEW list \in Lists, NEW n, \E i \in 1 .. Len(list) : list[i] = n
  PROVE  n \in Names /\ IndexIn(list, n) \in Positions
<1>1. IndexIn(list, n) \in 1 .. Len(list)
  BY DEF IndexIn
<1>2. CASE list = extIfs
  BY <1>1, <1>2 DEF Names, Positions
<1>3. CASE list # extIfs
  <2>1. made /\ list \in SetToSeqs(Known) /\ Known \subseteq Names
    BY <1>3 DEF Lists, Listed, Known
  <2>2. /\ Cardinality(Known) \in Nat /\ Cardinality(Known) <= Cardinality(Names)
    BY <2>1, FewNames, FS_Subset, FS_CardinalityType
  <2>3. list \in [1 .. Cardinality(Known) -> Known]
    BY <2>1 DEF SetToSeqs
  <2>4. list \in Seq(Known)
    BY <2>2, <2>3, SeqDef
  <2>5. Len(list) = Cardinality(Known)
    <3>1. DOMAIN list = 1 .. Len(list) /\ Len(list) \in Nat
      BY <2>4, LenProperties
    <3> QED
      BY <2>2, <2>3, <3>1
  <2> QED
    BY <1>1, <2>1, <2>2, <2>3, <2>5, FewNames DEF Positions
<1> QED
  BY <1>2, <1>3
LEMMA InitInv == Init => IInv
<1> SUFFICES ASSUME Init PROVE IInv
  OBVIOUS
<1>1. Known = {}
  BY DEF Init, Known
<1> QED
  BY <1>1 DEF Init, IInv, TypeOK, DeafIsNoticed, Warned

\* Marking sockets invalid forgets none and adds none.
LEMMA InvalidatedType ==
  ASSUME TypeOK, NEW S \in SUBSET Known, extSocks' = Invalidated(S)
  PROVE  /\ extSocks' \in [Names -> Socks \cup {NoSock}]
         /\ Known' = Known
         /\ \A n \in S : ~ extSocks'[n].isValid
         /\ \A n \in Names \ S : extSocks'[n] = extSocks[n]
<1> USE SockGroupAssumption
<1>1. \A n \in S : n \in Names /\ extSocks[n] \in Socks
  BY DEF Known, TypeOK
<1>2. \A n \in S : /\ [extSocks[n] EXCEPT !.isValid = FALSE] \in Socks
                   /\ ~ [extSocks[n] EXCEPT !.isValid = FALSE].isValid
  BY <1>1 DEF Socks
<1>3. /\ extSocks' \in [Names -> Socks \cup {NoSock}]
      /\ \A n \in S : extSocks'[n] = [extSocks[n] EXCEPT !.isValid = FALSE]
      /\ \A n \in Names \ S : extSocks'[n] = extSocks[n]
  BY <1>1, <1>2 DEF Invalidated, TypeOK
<1>4. Known' = Known
  <2>1. \A n \in S : extSocks[n] # NoSock /\ extSocks'[n] # NoSock
    <3>1. \A n \in S : extSocks[n] \in Socks /\ extSocks'[n] \in Socks
      BY <1>1, <1>2, <1>3, Zenon
    <3> QED
      BY <3>1
  <2>2. \A n \in Names : extSocks[n] # NoSock <=> extSocks'[n] # NoSock
    BY <1>3, <2>1
  <2> QED
    BY <2>2 DEF Known
<1> QED
  BY <1>2, <1>3, <1>4

LEMMA OpenInv ==
  ASSUME IInv, NEW list \in Lists, NEW opened \in SUBSET Names, Open(list, opened)
  PROVE  IInv'
<1> USE SockGroupAssumption
<1>1. \A n \in opened : n \in Names /\ IndexIn(list, n) \in Positions
  <2>1. \A n \in opened : n \in {list[i] : i \in 1 .. Len(list)}
    BY DEF Open, Existing
  <2> QED
    BY <2>1, IndexType
<1>2. \A n \in opened : [isValid |-> TRUE, mac |-> IndexIn(list, n)] \in Socks
  BY <1>1 DEF Socks, Positions
<1>3. /\ extSocks' = [n \in Names |->
                         IF n \in opened THEN [isValid |-> TRUE, mac |-> IndexIn(list, n)]
                                         ELSE extSocks[n]]
      /\ attached' = attached \cup opened
      /\ failed' = (failed \ opened) \cup {n \in opened : link[n] = "down"}
      /\ packets' = packets \ opened /\ raced' = raced \ opened
      /\ made' = TRUE /\ at = "init" /\ at' \in {"internal", "serve"}
      /\ UNCHANGED <<link, ready, internal>>
  BY DEF Open
<1>0. warned' \subseteq Names
  <2>1. \A i \in 1 .. Len(list) : list[i] \in Names
    BY IndexType
  <2> QED
    BY <2>1 DEF Open, Existing
<1>4. /\ extSocks' \in [Names -> Socks \cup {NoSock}]
      /\ Known' = Known \cup opened
      /\ \A n \in Names \ opened : extSocks'[n] = extSocks[n]
  BY <1>2, <1>3 DEF IInv, TypeOK, Known
<1>5. TypeOK'
  BY <1>0, <1>3, <1>4 DEF IInv, TypeOK, internal
<1>6. DeafIsNoticed'
  BY <1>3, <1>4 DEF IInv, DeafIsNoticed, Known
<1> QED
  BY <1>3, <1>5, <1>6 DEF IInv, Warned

\* The worker, apart from initSockGroup.
LEMMA LoopInv ==
  ASSUME IInv, Loop \/ HoldoffOver \/ CollectFails
  PROVE  IInv'
<1> USE SockGroupAssumption
<1>0. Known \subseteq Names
  BY DEF Known
<1>1. ASSUME NEW S \in SUBSET Known, extSocks' = Invalidated(S),
             UNCHANGED <<made, link, sockets, warned, raced, internal>>,
             \/ at' \in {"serve", "crashed"} /\ ready' = {}
             \/ at' = "read" /\ (\E n \in Known : ready' = {n}) /\ ready' \cap failed \subseteq S
      PROVE  IInv'
  <2>1. /\ extSocks' \in [Names -> Socks \cup {NoSock}] /\ Known' = Known
        /\ \A n \in S : ~ extSocks'[n].isValid
        /\ \A n \in Names \ S : extSocks'[n] = extSocks[n]
    BY <1>1, InvalidatedType DEF IInv
  <2>2. TypeOK'
    BY <1>1, <2>1 DEF IInv, TypeOK, sockets, internal
  <2>3. DeafIsNoticed'
    BY <1>0, <1>1, <2>1 DEF IInv, DeafIsNoticed, sockets
  <2>4. Warned'
    BY <1>1, <2>1 DEF Warned, sockets
  <2> QED
    BY <2>2, <2>3, <2>4 DEF IInv
<1>2. ASSUME NEW n \in Names, LeaveOut(n) PROVE IInv'
  <2>1. /\ {n} \in SUBSET Known /\ extSocks' = Invalidated({n})
        /\ UNCHANGED <<made, link, sockets, warned, raced, internal>>
        /\ at' = "serve" /\ ready' = {}
    BY <1>2 DEF LeaveOut, IInv, TypeOK
  <2> QED
    BY <1>1, <2>1
<1>3. ASSUME NEW n \in Names, EpollReady(n) PROVE IInv'
  <2>1. /\ Known \cap failed \in SUBSET Known /\ extSocks' = Invalidated(Known \cap failed)
        /\ UNCHANGED <<made, link, sockets, warned, raced, internal>>
        /\ at' = "read" /\ n \in Known /\ ready' = {n}
    BY <1>3 DEF EpollReady
  <2> QED
    BY <1>1, <2>1
<1>4. CASE NothingReady
  <2>1. /\ Known \in SUBSET Known /\ extSocks' = Invalidated(Known)
        /\ UNCHANGED <<made, link, sockets, warned, raced, internal>>
        /\ at' = "crashed" /\ ready' = {}
    BY <1>4 DEF NothingReady, IInv, TypeOK
  <2> QED
    BY <1>1, <2>1
<1>5. ASSUME NEW n \in Names, Read(n) PROVE IInv'
  <2>1. /\ at = "read" /\ n \in ready /\ ready = {n} /\ n \in Known /\ ready' = {}
        /\ UNCHANGED <<made, extSocks, link, attached, warned, raced, internal>> /\ Known' = Known
    BY <1>5 DEF Read, IInv, TypeOK, Known
  <2>2. \/ /\ n \in failed /\ failed' = failed \ {n} /\ at' = "holdoff" /\ UNCHANGED packets
        \/ at' = "serve" /\ packets' \subseteq packets /\ UNCHANGED failed
    BY <1>5 DEF Read
  <2>3. TypeOK'
    BY <2>1, <2>2 DEF IInv, TypeOK, internal
  <2>4. DeafIsNoticed'
    BY <2>1, <2>2 DEF IInv, DeafIsNoticed, Warned
  <2> QED
    BY <2>1, <2>2, <2>3, <2>4 DEF IInv, Warned
<1>6. CASE EpollFails \/ HoldoffOver \/ CollectFails
  <2>1. /\ at' \in {"holdoff", "init"} /\ at # "read" /\ made' \in BOOLEAN /\ warned' \subseteq Names
        /\ UNCHANGED <<extSocks, link, sockets, ready, raced, internal>> /\ Known' = Known
    BY <1>6 DEF EpollFails, HoldoffOver, CollectFails, Known, IInv, TypeOK
  <2> QED
    BY <2>1 DEF IInv, TypeOK, DeafIsNoticed, Warned, sockets, internal
<1> QED
  BY <1>2, <1>3, <1>4, <1>5, <1>6 DEF Loop

\* What happens to the interfaces.
LEMMA EnvironmentInv ==
  ASSUME IInv, NEW n \in Names,
         LinkUp(n) \/ LinkDown(n) \/ LinkRemoved(n) \/ LinkAdded(n) \/ Solicitation(n)
  PROVE  IInv'
<1>1. /\ UNCHANGED <<at, made, extSocks, ready, warned, internal>> /\ Known' = Known
      /\ link' \in [Names -> {"absent", "down", "up"}]
  BY DEF LinkUp, LinkDown, LinkRemoved, LinkAdded, Solicitation, Known, IInv, TypeOK
<1>2. packets' \subseteq Known
  BY DEF LinkUp, LinkDown, LinkRemoved, LinkAdded, Solicitation, sockets, IInv, TypeOK
<1>3. ASSUME UNCHANGED <<attached, failed, raced>> PROVE IInv'
  BY <1>1, <1>2, <1>3 DEF IInv, TypeOK, DeafIsNoticed, Warned, internal
<1>4. ASSUME Error(n), attached' \in {attached, attached \ {n}}
      PROVE  IInv'
  <2>1. CASE /\ n \in attached \ failed /\ failed' = failed \cup {n}
             /\ raced' = IF n \in ready THEN raced \cup {n} ELSE raced \ {n}
    <3>1. TypeOK'
      BY <1>1, <1>2, <1>4, <2>1 DEF IInv, TypeOK, internal
    <3>2. DeafIsNoticed'
      BY <1>1, <1>4, <2>1 DEF IInv, DeafIsNoticed
    <3>3. Warned'
      BY <1>1, <2>1 DEF IInv, Warned
    <3> QED
      BY <3>1, <3>2, <3>3 DEF IInv
  <2>2. CASE n \notin attached \ failed /\ UNCHANGED <<failed, raced>>
    <3>1. TypeOK'
      BY <1>1, <1>2, <1>4, <2>2 DEF IInv, TypeOK, internal
    <3>2. DeafIsNoticed'
      BY <1>1, <1>4, <2>2 DEF IInv, DeafIsNoticed
    <3> QED
      BY <1>1, <2>2, <3>1, <3>2 DEF IInv, Warned
  <2> QED
    BY <1>4, <2>1, <2>2 DEF Error
<1>5. CASE LinkDown(n) \/ LinkRemoved(n)
  BY <1>4, <1>5 DEF LinkDown, LinkRemoved
<1>6. CASE LinkUp(n) \/ LinkAdded(n) \/ Solicitation(n)
  BY <1>3, <1>6 DEF LinkUp, LinkAdded, Solicitation, sockets
<1> QED
  BY <1>5, <1>6

\* The internal interfaces have no part in this.
LEMMA InternalInv ==
  ASSUME IInv, InitInternal \/ \E i \in intIfs : InternalComesOrGoes(i)
  PROVE  IInv'
<1>1. /\ UNCHANGED <<made, extSocks, link, sockets, ready, warned, raced>> /\ Known' = Known
      /\ at' \in {"internal", "serve", "holdoff"} \/ at' = at
      /\ at' = "read" <=> at = "read"
  BY DEF InitInternal, CollectInternalFails, OpenInternal, InternalComesOrGoes, Known
<1>2. intMade' \in BOOLEAN /\ intSocks' \subseteq intIfs /\ intHere' \subseteq intIfs
  BY DEF InitInternal, CollectInternalFails, OpenInternal, InternalComesOrGoes, IntListed, IInv, TypeOK
<1>3. TypeOK'
  BY <1>1, <1>2 DEF IInv, TypeOK, sockets
<1> QED
  BY <1>1, <1>3 DEF IInv, DeafIsNoticed, Warned, sockets

LEMMA NextInv == IInv /\ [Next]_vars => IInv'
<1> SUFFICES ASSUME IInv, [Next]_vars PROVE IInv'
  OBVIOUS
<1>1. CASE UNCHANGED vars
  BY <1>1 DEF vars, sockets, internal, IInv, TypeOK, DeafIsNoticed, Warned, Known
<1> QED
  BY <1>1, OpenInv, LoopInv, InternalInv, EnvironmentInv DEF Next, InitSockGroup, Environment

LEMMA Invariant == Spec => []IInv
BY InitInv, NextInv, PTL DEF Spec

\* Every socket has an entry of advMACs, in whatever order Go enumerated the map, and errors
\* and packets belong to sockets in the map.
THEOREM TypeCorrect == Spec => []TypeOK
BY Invariant, PTL DEF IInv

\* With any number of interfaces that come and go, a socket that hears nothing any more is
\* marked invalid or its error is still to be seen, or came between epollOnce and the read.
THEOREM DeafNoticed == Spec => []DeafIsNoticed
BY Invariant, PTL DEF IInv

-----------------------------------------------------------------------------
(* What liveness rests on                                                   *)

\* Whatever order Go enumerates the map in, initSockGroup meets each of its interfaces.
LEMMA ListCovers ==
  ASSUME NEW list \in Lists, NEW n \in Listed
  PROVE  \E i \in 1 .. Len(list) : list[i] = n
<1>1. CASE ~ made
  BY <1>1 DEF Lists, Listed, Names
<1>2. CASE made
  <2>1. list \in SetToSeqs(Known) /\ n \in Known /\ Known \subseteq Names
    BY <1>2 DEF Lists, Listed, Known
  <2>2. IsFiniteSet(Known) /\ Cardinality(Known) \in Nat
    BY <2>1, FewNames, FS_Subset, FS_CardinalityType
  <2> DEFINE D == 1 .. Cardinality(Known)
  <2>3. list \in Injection(D, Known)
    BY <2>1 DEF SetToSeqs, Injection, IsInjective
  <2>4. Cardinality(D) = Cardinality(Known)
    BY <2>2, FS_Interval
  <2>5. list \in Surjection(D, Known)
    BY <2>2, <2>3, <2>4, FS_Injection
  <2>6. list \in [D -> Known] /\ list \in Seq(Known)
    BY <2>1, <2>2, SeqDef DEF SetToSeqs
  <2>7. D = 1 .. Len(list)
    BY <2>6, LenProperties
  <2> QED
    BY <2>1, <2>5, <2>7 DEF Surjection
<1> QED
  BY <1>1, <1>2

\* The map has entries only once it has been made.
MapMade == Known # {} => made

\* Which sockets a step adds: those that initSockGroup opens.
LEMMA KnownStep ==
  ASSUME TypeOK, [Next]_vars
  PROVE  \/ made' = made /\ Known' = Known
         \/ made' = TRUE /\ Known' = Known /\ at = "init"
         \/ \E list \in Lists, opened \in SUBSET Names :
              Open(list, opened) /\ made' = TRUE /\ Known' = Known \cup opened
<1> USE SockGroupAssumption
<1>1. ASSUME NEW list \in Lists, NEW opened \in SUBSET Names, Open(list, opened)
      PROVE  made' = TRUE /\ Known' = Known \cup opened
  <2>1. /\ made' = TRUE
        /\ extSocks' = [n \in Names |->
                         IF n \in opened THEN [isValid |-> TRUE, mac |-> IndexIn(list, n)]
                                         ELSE extSocks[n]]
    BY <1>1 DEF Open
  <2>2. ASSUME NEW n \in opened PROVE [isValid |-> TRUE, mac |-> IndexIn(list, n)] # NoSock
    <3>1. n \in {list[i] : i \in 1 .. Len(list)}
      BY <1>1 DEF Open, Existing
    <3>2. [isValid |-> TRUE, mac |-> IndexIn(list, n)] \in Socks
      BY <3>1, IndexType DEF Socks, Positions
    <3> QED
      BY <3>2
  <2> QED
    BY <2>1, <2>2 DEF Known
<1>2. ASSUME NEW S \in SUBSET Known, extSocks' = Invalidated(S) PROVE Known' = Known
  BY <1>2, InvalidatedType
<1>3. ASSUME NEW n \in Names, LeaveOut(n) PROVE made' = made /\ Known' = Known
  BY <1>2, <1>3 DEF LeaveOut
<1>4. ASSUME NEW n \in Names, EpollReady(n) PROVE made' = made /\ Known' = Known
  <2>1. Known \cap failed \in SUBSET Known
    OBVIOUS
  <2> QED
    BY <1>2, <1>4, <2>1 DEF EpollReady
<1>5. NothingReady => made' = made /\ Known' = Known
  BY <1>2 DEF NothingReady
<1>6. CollectFails => made' = TRUE /\ Known' = Known /\ at = "init"
  BY DEF CollectFails, Known
<1>7. ASSUME NEW n \in Names, Read(n) \/ LinkUp(n) \/ LinkDown(n) \/ LinkRemoved(n) \/ LinkAdded(n)
                              \/ Solicitation(n)
      PROVE  made' = made /\ Known' = Known
  BY <1>7 DEF Read, LinkUp, LinkDown, LinkRemoved, LinkAdded, Solicitation, Known
<1>8. EpollFails \/ HoldoffOver \/ UNCHANGED vars => made' = made /\ Known' = Known
  BY DEF EpollFails, HoldoffOver, vars, sockets, internal, Known
<1>9. ASSUME InitInternal \/ \E i \in intIfs : InternalComesOrGoes(i)
      PROVE  made' = made /\ Known' = Known
  BY <1>9 DEF InitInternal, CollectInternalFails, OpenInternal, InternalComesOrGoes, Known
<1> QED
  BY <1>1, <1>3, <1>4, <1>5, <1>6, <1>7, <1>8, <1>9 DEF Next, InitSockGroup, Loop, Environment

LEMMA MapMadeInv == Spec => []MapMade
<1>1. Init => MapMade
  BY DEF Init, MapMade, Known
<1>2. TypeOK /\ MapMade /\ [Next]_vars => MapMade'
  BY KnownStep DEF MapMade
<1> QED
  BY <1>1, <1>2, TypeCorrect, PTL DEF Spec

\* Once there is a map, only its own keys are opened.
LEMMA OpensKnown ==
  ASSUME TypeOK, made, NEW list \in Lists, NEW opened \in SUBSET Names, Open(list, opened)
  PROVE  opened \subseteq Known
<1>1. \A i \in 1 .. Len(list) : list[i] \in Known
  <2>1. list \in SetToSeqs(Known) /\ Known \subseteq Names
    BY DEF Lists, Listed, Known
  <2>2. Cardinality(Known) \in Nat
    BY <2>1, FewNames, FS_Subset, FS_CardinalityType
  <2>3. list \in Seq(Known)
    BY <2>1, <2>2, SeqDef DEF SetToSeqs
  <2> QED
    BY <2>3, ElementOfSeq
<1> QED
  BY <1>1 DEF Open, Existing

\* The worker's first try decides which interfaces it ever listens on, none if it found none:
\* restarts replace their sockets and drop none, and an interface that was not there, or whose
\* socket could not be opened, is never tried again.  The same holds for the internal ones.
THEOREM InterfacesFixed ==
  Spec => [][(made => made' /\ Known' = Known) /\ (intMade => intMade' /\ intSocks' = intSocks)]_vars
<1>1. TypeOK /\ [Next]_vars => (made => made' /\ Known' = Known)
  BY KnownStep, OpensKnown
<1>2. [Next]_vars => (intMade => intMade' /\ intSocks' = intSocks)
  <2> SUFFICES ASSUME [Next]_vars, intMade PROVE intMade' /\ intSocks' = intSocks
    OBVIOUS
  <2>1. CASE InitInternal
    BY <2>1 DEF InitInternal, CollectInternalFails, OpenInternal, IntListed
  <2>2. CASE UNCHANGED internal \/ UNCHANGED <<intMade, intSocks>>
    BY <2>2 DEF internal
  <2> QED
    BY <2>1, <2>2
       DEF Next, InitSockGroup, CollectFails, Open, HoldoffOver, Loop, LeaveOut, EpollReady, Read,
           NothingReady, EpollFails, Environment, LinkUp, LinkDown, LinkRemoved, LinkAdded,
           Solicitation, InternalComesOrGoes, vars
<1>3. TypeOK /\ [Next]_vars =>
        [(made => made' /\ Known' = Known) /\ (intMade => intMade' /\ intSocks' = intSocks)]_vars
  BY <1>1, <1>2
<1> QED
  BY <1>3, TypeCorrect, PTL DEF Spec

\* The socket of n advertises the address configured for n.
OwnMAC(n) == extIfs[extSocks[n].mac] = n

\* The order in which Go enumerates the map matters to replaced sockets only: those of the first
\* try have the address configured for their interface, and keep it until a restart of the worker
\* finds them invalid.
THEOREM MACsMixOnlyWhenReplaced ==
  Spec => [][\A n \in Known' :
               \/ OwnMAC(n)'
               \/ n \in Known /\ extSocks'[n].mac = extSocks[n].mac
               \/ n \in Known /\ made /\ at = "init" /\ ~ extSocks[n].isValid]_vars
<1> DEFINE Explained(n) == \/ OwnMAC(n)'
                           \/ n \in Known /\ extSocks'[n].mac = extSocks[n].mac
                           \/ n \in Known /\ made /\ at = "init" /\ ~ extSocks[n].isValid
<1>1. TypeOK /\ [Next]_vars => [\A n \in Known' : Explained(n)]_vars
  <2> SUFFICES ASSUME TypeOK, [Next]_vars, NEW n \in Known' PROVE Explained(n)
    OBVIOUS
  <2>0. n \in Names /\ extSocks'[n] # NoSock /\ extSocks \in [Names -> Socks \cup {NoSock}]
    BY DEF TypeOK, Known
  <2>1. ASSUME NEW list \in Lists, NEW opened \in SUBSET Names, Open(list, opened)
        PROVE  Explained(n)
    <3>1. /\ n \in opened => extSocks'[n].mac = IndexIn(list, n)
          /\ n \notin opened => extSocks'[n] = extSocks[n]
      BY <2>0, <2>1 DEF Open
    <3>2. CASE n \notin opened
      BY <2>0, <3>1, <3>2 DEF Known
    <3>3. CASE n \in opened /\ made
      <4>1. n \in Known /\ NeedsSocket(n) /\ at = "init"
        BY <2>1, <3>3, OpensKnown DEF Open
      <4> QED
        BY <3>3, <4>1 DEF NeedsSocket, Known
    <3>4. CASE n \in opened /\ ~ made
      <4>1. list = extIfs
        BY <3>4 DEF Lists
      <4>2. extIfs[IndexIn(extIfs, n)] = n
        BY <2>0 DEF Names, IndexIn
      <4> QED
        BY <3>1, <3>4, <4>1, <4>2 DEF OwnMAC
    <3> QED
      BY <3>2, <3>3, <3>4
  <2>2. ASSUME NEW S \in SUBSET Known, extSocks' = Invalidated(S) PROVE Explained(n)
    <3>1. n \in Known /\ extSocks[n] \in Socks
      BY <2>0, <2>2, InvalidatedType DEF Known
    <3>2. extSocks'[n].mac = extSocks[n].mac
      BY <2>0, <2>2, <3>1 DEF Invalidated, Socks
    <3> QED
      BY <3>1, <3>2
  <2>3. CASE extSocks' = extSocks
    BY <2>0, <2>3 DEF Known
  <2>4. ASSUME NEW m \in Names, LeaveOut(m) \/ EpollReady(m) PROVE Explained(n)
    <3>1. {m} \in SUBSET Known \/ ~ LeaveOut(m)
      BY DEF LeaveOut
    <3>2. Known \cap failed \in SUBSET Known
      OBVIOUS
    <3> QED
      BY <2>2, <2>4, <3>1, <3>2 DEF LeaveOut, EpollReady
  <2>5. NothingReady => Explained(n)
    BY <2>2 DEF NothingReady
  <2> QED
    BY <2>1, <2>3, <2>4, <2>5
       DEF Next, InitSockGroup, CollectFails, InitInternal, CollectInternalFails, OpenInternal,
           InternalComesOrGoes, HoldoffOver, Loop, Read, EpollFails, Environment,
           LinkUp, LinkDown, LinkRemoved, LinkAdded, Solicitation, vars, sockets, internal
<1> QED
  BY <1>1, TypeCorrect, PTL DEF Spec

\* One run of initSockGroup is enough to heal: the socket of an interface that is up and known
\* to be invalid is replaced by one that hears, or the failure is logged, in the same step.
THEOREM HealsOrWarns ==
  Spec => [][\A n \in Known :
               at = "init" /\ ~ extSocks[n].isValid /\ link[n] = "up" /\ at' # "init"
                 => Hears(n)' \/ n \in warned']_vars
<1>1. TypeOK /\ MapMade /\ [Next]_vars =>
        [\A n \in Known :
           at = "init" /\ ~ extSocks[n].isValid /\ link[n] = "up" /\ at' # "init"
             => Hears(n)' \/ n \in warned']_vars
  <2> SUFFICES ASSUME TypeOK, MapMade, [Next]_vars, NEW n \in Known,
                      at = "init", ~ extSocks[n].isValid, link[n] = "up", at' # "init"
               PROVE  Hears(n)' \/ n \in warned'
    OBVIOUS
  <2>1. n \in Names /\ extSocks[n] # NoSock /\ n \in Listed
    BY DEF Known, Listed, MapMade
  <2>2. ~ CollectFails
    BY <2>1 DEF CollectFails, Existing
  <2>3. ASSUME NEW list \in Lists, NEW opened \in SUBSET Names, Open(list, opened)
        PROVE  Hears(n)' \/ n \in warned'
    <3>1. n \in {list[i] : i \in 1 .. Len(list)}
      BY <2>1, ListCovers
    <3>2. NeedsSocket(n) /\ n \in Existing({list[i] : i \in 1 .. Len(list)})
      BY <2>1, <3>1 DEF NeedsSocket, Existing
    <3>3. n \in opened \/ n \in warned'
      BY <2>3, <3>2 DEF Open
    <3>4. n \in opened => n \in attached' /\ n \notin failed'
      BY <2>3 DEF Open
    <3> QED
      BY <3>3, <3>4 DEF Hears
  <2>4. InitSockGroup
    BY DEF Next, InitInternal, CollectInternalFails, OpenInternal, InternalComesOrGoes,
           HoldoffOver, Loop, LeaveOut, EpollReady, Read, NothingReady, EpollFails,
           Environment, LinkUp, LinkDown, LinkRemoved, LinkAdded, Solicitation, vars, sockets, internal
  <2> QED
    BY <2>2, <2>3, <2>4 DEF InitSockGroup
<1> QED
  BY <1>1, TypeCorrect, MapMadeInv, PTL DEF Spec
=============================================================================
