----------------------------- MODULE SockGroup -----------------------------
(***************************************************************************)
(* The ND proxy's sockets on the external interfaces: initSockGroup and    *)
(* the receive loop of NDClient.workInternal (nd.go), epollOnce and        *)
(* ReadMultiSocksOnce (sock.go), while interfaces come, go down and leave. *)
(*                                                                         *)
(* A packet socket whose interface goes down has an error pending until a  *)
(* read returns it.  It hears the interface again when that comes up, but  *)
(* never another one that takes the name later.                            *)
(*                                                                         *)
(* In NDP_MODE=proxy initSockGroup runs for the internal interfaces too.   *)
(* Of those sockets only the keys of the map matter here; NDProxy is about *)
(* the rest.                                                               *)
(*                                                                         *)
(* raced is a history variable: the sockets whose last error came between  *)
(* epollOnce, which had found data, and the read that followed.            *)
(***************************************************************************)
EXTENDS Naturals, Sequences, FiniteSets, SequencesExt

CONSTANTS
  extIfs,   \* NDP_EXTERNAL_INTERFACES, a sequence; advMACs has an entry for each
  NoSock,   \* no SockRef under this name
  proxy,    \* NDP_MODE is proxy
  intIfs    \* NDP_INTERNAL_INTERFACES

Names == {extIfs[i] : i \in 1 .. Len(extIfs)}

Socks == [isValid : BOOLEAN, mac : 1 .. Len(extIfs)]

ASSUME SockGroupAssumption ==
  /\ extIfs \in Seq(Names) /\ extIfs # <<>>
  /\ \A i, j \in 1 .. Len(extIfs) : extIfs[i] = extIfs[j] => i = j
  /\ NoSock \notin Socks
  /\ proxy \in BOOLEAN

VARIABLES
  at,        \* the worker: "init", "internal", "serve", "read", "holdoff", "crashed"
  made,      \* extSocks is a map, perhaps an empty one, and no longer nil
  extSocks,  \* per name, [isValid, mac] where advMACs[mac] is used, or NoSock
  link,      \* per name, "absent", "down", "up"
  attached,  \* the sockets that are on the interface of that name
  failed,    \* the sockets with a pending error
  packets,   \* the sockets with data in the buffer
  ready,     \* the socket (one or none) epollOnce returned
  warned,    \* the interfaces initSockGroup has just logged a warning for
  raced,     \* see above
  intMade,   \* intSocks is a map and no longer nil
  intSocks,  \* its keys
  intHere    \* the internal interfaces there are

sockets == <<attached, failed, packets>>
internal == <<intMade, intSocks, intHere>>
vars == <<at, made, extSocks, link, sockets, ready, warned, raced, internal>>

Init ==
  /\ at = "init"
  /\ made = FALSE
  /\ extSocks = [n \in Names |-> NoSock]
  /\ link \in [Names -> {"absent", "down", "up"}]
  /\ attached = {} /\ failed = {} /\ packets = {}
  /\ ready = {} /\ warned = {} /\ raced = {}
  /\ intMade = FALSE /\ intSocks = {} /\ intHere \in SUBSET intIfs

Known == {n \in Names : extSocks[n] # NoSock}

Existing(S) == {n \in S : link[n] # "absent"}

-----------------------------------------------------------------------------
(* initSockGroup                                                            *)

ValidOnly == IF made THEN {n \in Known : extSocks[n].isValid} ELSE Names

\* The interfaces to open sockets for: those configured at first, then the keys of the map.
Listed == IF made THEN Known ELSE Names

\* They come in the order of the configuration, then in whatever order Go enumerates keys.
Lists == IF made THEN SetToSeqs(Listed) ELSE {extIfs}

CollectFails ==
  /\ at = "init"
  /\ Existing(Listed) = {}
  /\ made' = TRUE
  /\ at' = "holdoff"
  /\ UNCHANGED <<extSocks, link, sockets, ready, warned, raced, internal>>

OnlyMissing(n) == extSocks[n] = NoSock

NeedsSocket(n) == IF extSocks[n] = NoSock THEN TRUE ELSE ~ extSocks[n].isValid

IndexFromZero(list, n) == (CHOOSE i \in 1 .. Len(list) : list[i] = n) - 1

IndexIn(list, n) == CHOOSE i \in 1 .. Len(list) : list[i] = n

\* The sockets in opened are made anew; for the others needed a step failed, which is logged.
\* A socket on an interface that is down starts with the error.
Open(list, opened) ==
  /\ at = "init"
  /\ LET found == Existing({list[i] : i \in 1 .. Len(list)})
         needed == {n \in found : NeedsSocket(n)}
     IN  found # {} /\ opened \subseteq needed /\ warned' = needed \ opened
  /\ extSocks' = [n \in Names |->
                    IF n \in opened THEN [isValid |-> TRUE, mac |-> IndexIn(list, n)]
                                    ELSE extSocks[n]]
  /\ attached' = attached \cup opened
  /\ failed' = (failed \ opened) \cup {n \in opened : link[n] = "down"}
  /\ packets' = packets \ opened
  /\ made' = TRUE
  /\ raced' = raced \ opened
  /\ at' = IF proxy THEN "internal" ELSE "serve"
  /\ UNCHANGED <<link, ready, internal>>

\* The same for the internal interfaces.
IntListed == IF intMade THEN intSocks ELSE intIfs

CollectInternalFails ==
  /\ at = "internal"
  /\ IntListed \cap intHere = {}
  /\ intMade' = TRUE
  /\ at' = "holdoff"
  /\ UNCHANGED <<made, extSocks, link, sockets, ready, warned, raced, intSocks, intHere>>

OpenInternal(opened) ==
  /\ at = "internal"
  /\ IntListed \cap intHere # {} /\ opened \subseteq IntListed \cap intHere
  /\ intSocks' = intSocks \cup opened
  /\ intMade' = TRUE
  /\ at' = "serve"
  /\ UNCHANGED <<made, extSocks, link, sockets, ready, warned, raced, intHere>>

InitSockGroup == CollectFails \/ \E list \in Lists, opened \in SUBSET Names : Open(list, opened)

InitInternal == CollectInternalFails \/ \E opened \in SUBSET intIfs : OpenInternal(opened)

-----------------------------------------------------------------------------
(* The receive loop                                                         *)

Invalidated(S) ==
  [n \in Names |-> IF n \in S THEN [extSocks[n] EXCEPT !.isValid = FALSE] ELSE extSocks[n]]

\* epollOnce leaves a socket with an error out and waits for the others.
LeaveOut(n) ==
  /\ at = "serve"
  /\ n \in Known \cap failed /\ extSocks[n].isValid
  /\ Known \ failed # {}
  /\ extSocks' = Invalidated({n})
  /\ UNCHANGED <<at, made, link, sockets, ready, warned, raced, internal>>

AllFailed == Known # {} /\ Known \subseteq failed

KeepValid(n) ==
  /\ at = "serve"
  /\ n \in Known \cap packets
  /\ n \in failed => AllFailed
  /\ ready' = {n}
  /\ at' = "read"
  /\ UNCHANGED <<made, extSocks, link, sockets, warned, raced, internal>>

\* It returns one that has data.  Sockets with an error are invalid from now on; when all of
\* them are, the one epoll reported last is returned if it has data.
EpollReady(n) ==
  /\ at = "serve"
  /\ n \in Known \cap packets
  /\ n \in failed => AllFailed
  /\ extSocks' = Invalidated(Known \cap failed)
  /\ ready' = {n}
  /\ at' = "read"
  /\ UNCHANGED <<made, link, sockets, warned, raced, internal>>

\* A pending error is what the read returns, and workInternal ends.  NDFilter and NDProxy
\* model what follows a packet.
Read(n) ==
  /\ at = "read" /\ n \in ready
  /\ ready' = {}
  /\ \/ /\ n \in failed
        /\ failed' = failed \ {n}
        /\ at' = "holdoff"
        /\ UNCHANGED packets
     \/ /\ n \notin failed
        /\ packets' \in {packets, packets \ {n}}
        /\ at' = "serve"
        /\ UNCHANGED failed
  /\ UNCHANGED <<made, extSocks, link, attached, warned, raced, internal>>

\* Every socket has an error and the last one no data: (-1, nil, nil), and extSockRefs[-1]
\* ends the process.
NothingReady ==
  /\ at = "serve"
  /\ AllFailed
  /\ ~ Known \subseteq packets
  /\ extSocks' = Invalidated(Known)
  /\ at' = "crashed"
  /\ UNCHANGED <<made, link, sockets, ready, warned, raced, internal>>

\* epoll_wait is interrupted, or there is no socket to wait for.
EpollFails ==
  /\ at = "serve"
  /\ at' = "holdoff"
  /\ UNCHANGED <<made, extSocks, link, sockets, ready, warned, raced, internal>>

HoldoffOver ==
  /\ at = "holdoff"
  /\ at' = "init"
  /\ warned' = {}
  /\ UNCHANGED <<made, extSocks, link, sockets, ready, raced, internal>>

-----------------------------------------------------------------------------
(* Interfaces                                                               *)

LinkUp(n) ==
  /\ link[n] = "down"
  /\ link' = [link EXCEPT ![n] = "up"]
  /\ UNCHANGED <<at, made, extSocks, sockets, ready, warned, raced, internal>>

\* The socket on the interface, if there is one and it has none yet, gets an error.
Error(n) ==
  IF n \in attached \ failed
  THEN /\ failed' = failed \cup {n}
       /\ raced' = IF n \in ready THEN raced \cup {n} ELSE raced \ {n}
  ELSE UNCHANGED <<failed, raced>>

LinkDown(n) ==
  /\ link[n] = "up"
  /\ link' = [link EXCEPT ![n] = "down"]
  /\ Error(n)
  /\ UNCHANGED <<at, made, extSocks, attached, packets, ready, warned, internal>>

LinkRemoved(n) ==
  /\ link[n] # "absent"
  /\ link' = [link EXCEPT ![n] = "absent"]
  /\ Error(n)
  /\ attached' = attached \ {n}
  /\ UNCHANGED <<at, made, extSocks, packets, ready, warned, internal>>

LinkAdded(n) ==
  /\ link[n] = "absent"
  /\ link' = [link EXCEPT ![n] = "down"]
  /\ UNCHANGED <<at, made, extSocks, sockets, ready, warned, raced, internal>>

Solicitation(n) ==
  /\ link[n] = "up" /\ n \in attached
  /\ packets' = packets \cup {n}
  /\ UNCHANGED <<at, made, extSocks, link, attached, failed, ready, warned, raced, internal>>

InternalComesOrGoes(i) ==
  /\ intHere' = IF i \in intHere THEN intHere \ {i} ELSE intHere \cup {i}
  /\ UNCHANGED <<at, made, extSocks, link, sockets, ready, warned, raced, intMade, intSocks>>

-----------------------------------------------------------------------------
Loop ==
  \/ \E n \in Names : LeaveOut(n) \/ EpollReady(n) \/ Read(n)
  \/ NothingReady \/ EpollFails

Environment ==
  \/ \E n \in Names : \/ LinkUp(n) \/ LinkDown(n) \/ LinkRemoved(n) \/ LinkAdded(n)
                      \/ Solicitation(n)
  \/ \E i \in intIfs : InternalComesOrGoes(i)

Next == InitSockGroup \/ InitInternal \/ HoldoffOver \/ Loop \/ Environment

Spec == Init /\ [][Next]_vars

\* The worker runs, and finds out about errors.  Nothing has to interrupt epoll_wait, but
\* without any socket it fails at once.
FairSpec ==
  /\ Spec
  /\ WF_vars(InitSockGroup) /\ WF_vars(InitInternal) /\ WF_vars(HoldoffOver)
  /\ WF_vars(Loop /\ (EpollFails => Known = {}))

-----------------------------------------------------------------------------
(* Properties                                                               *)

TypeOK ==
  /\ at \in {"init", "internal", "serve", "read", "holdoff", "crashed"}
  /\ made \in BOOLEAN
  /\ extSocks \in [Names -> Socks \cup {NoSock}]
  /\ link \in [Names -> {"absent", "down", "up"}]
  /\ attached \subseteq Known /\ failed \subseteq Known /\ packets \subseteq Known
  /\ IF at = "read" THEN \E n \in Known : ready = {n} ELSE ready = {}
  /\ warned \subseteq Names /\ raced \subseteq Known
  /\ intMade \in BOOLEAN /\ intSocks \subseteq intIfs /\ intHere \subseteq intIfs

\* A socket that is off its interface counts as invalid, so that initSockGroup replaces it,
\* or has its error pending, so that epollOnce will see that.  The one exception: the error
\* came between epollOnce and the read, and nobody called onClosed.
DeafIsNoticed ==
  \A n \in Known : n \notin attached => ~ extSocks[n].isValid \/ n \in failed \/ n \in raced

\* The only reason for ReadMultiSocksOnce to return no socket is a timeout (sock.go), and the
\* receive loop sets none.
NoCrash == at # "crashed"

Hears(n) == n \in attached /\ n \notin failed
AllUp == intHere = intIfs /\ \A n \in Names : link[n] = "up"

\* Work tries again after ten seconds (nd.go): once every interface is up for good, the worker
\* comes back to its receive loop with a socket for each external interface, whatever errors it
\* met.  It stops for good with a crash; and the first try decides what is ever opened: an
\* external interface it left out is never heard, and when it found no internal interface, or
\* opened no socket on one, the next try fails and so does every later one.
ServesAgain ==
  <>[]AllUp =>
    \/ <>(at = "crashed")
    \/ <>[](proxy /\ intMade /\ intSocks = {})
    \/ \A n \in Names : \/ []<>(at = "serve" /\ n \in Known)
                        \/ <>made /\ [](made => n \notin Known)

\* When the worker starts over while every interface is up for good, each socket known to be
\* invalid is replaced by one that works, or a failed attempt is logged for that interface.
RestartHeals ==
  \A n \in Names :
    []([]AllUp /\ at = "init" /\ n \in Known /\ ~ extSocks[n].isValid
         => <>(Hears(n) \/ n \in warned))
=============================================================================
