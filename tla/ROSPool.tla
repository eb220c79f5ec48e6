------------------------------- MODULE ROSPool -------------------------------
(***************************************************************************)
(* The RouterOS API connection pool (ros.go): Get, Put and makeConnection, *)
(* ROSClient.RunArgs on top of them, and the keepalive goroutine started   *)
(* by NewROSConnectionPool.                                                *)
(*                                                                         *)
(* RunArgs and the keepalive hand the connection to a second goroutine     *)
(* that runs the command and offers the reply on an unbuffered channel     *)
(* with select/default: the offer succeeds only if the first goroutine is  *)
(* already inside its own select.  Each section under pool.mutex is one    *)
(* action.  Commands and replies carry no data here: what matters is who   *)
(* may touch a connection.  A connection id stands for the *ROSConnection  *)
(* of one dial; an id nobody refers to may name a later dial.              *)
(***************************************************************************)
EXTENDS Naturals, Sequences, FiniteSets

CONSTANTS
  Callers,     \* goroutines that call RunArgs: the RA worker, each processNd
  KeepAlive,   \* the keepalive goroutine
  Conns,       \* connection identifiers
  NoConn       \* the nil *ROSConnection

ASSUME PoolAssumption ==
  /\ IsFiniteSet(Callers)
  /\ KeepAlive \notin Callers
  /\ NoConn \notin Conns

Procs == Callers \cup {KeepAlive}

VARIABLES
  cs,          \* pool.cs
  pc,          \* where each goroutine is
  held,        \* the connection each goroutine got and has neither put back nor closed
  executing,   \* pairs <<p, c>>: a goroutine started by p is inside c.RunArgs
  link,        \* "open", "broken" (the device is gone), "closed" (or never dialed)
  count        \* the keepalive's count

vars == <<cs, pc, held, executing, link, count>>

Elems(s) == {s[i] : i \in 1 .. Len(s)}
NoDuplicates(s) == \A i, j \in 1 .. Len(s) : s[i] = s[j] => i = j

Pooled == Elems(cs)

Mine(p) == <<p, held[p]>> \in executing

Unreferenced(c) ==
  /\ c \notin Pooled
  /\ \A p \in Procs : held[p] # c /\ <<p, c>> \notin executing

Fresh(c) == link[c] = "closed" /\ Unreferenced(c)

CallerPC == {"idle", "dialing", "spawned", "waiting", "replied"}
KeepAlivePC == {"pick", "spawned", "waiting", "replied", "discard", "dialing", "sleep"}

Init ==
  /\ cs = <<>>
  /\ pc = [p \in Procs |-> IF p = KeepAlive THEN "pick" ELSE "idle"]
  /\ held = [p \in Procs |-> NoConn]
  /\ executing = {}
  /\ link = [c \in Conns |-> "closed"]
  /\ count = 0

Goto(p, l) == pc' = [pc EXCEPT ![p] = l]

\* p owns c from here on and starts the goroutine that runs the command on it.
Start(p, c) ==
  /\ held' = [held EXCEPT ![p] = c]
  /\ executing' = executing \cup {<<p, c>>}
  /\ Goto(p, "spawned")

Release(p) == held' = [held EXCEPT ![p] = NoConn]

-----------------------------------------------------------------------------
(* ROSClient.RunArgs                                                        *)

TakeWithoutRemoving(p) ==
  /\ pc[p] = "idle"
  /\ cs # <<>>
  /\ Start(p, Head(cs))
  /\ UNCHANGED <<cs, link, count>>

\* Get, a pooled connection: the oldest one.
GetPooled(p) ==
  /\ pc[p] = "idle"
  /\ cs # <<>>
  /\ cs' = Tail(cs)
  /\ Start(p, Head(cs))
  /\ UNCHANGED <<link, count>>

DialAnyway(p) ==
  /\ pc[p] = "idle"
  /\ Goto(p, "dialing")
  /\ UNCHANGED <<cs, held, executing, link, count>>

\* Get, the pool is empty: the mutex is released before dialing.
GetEmpty(p) ==
  /\ pc[p] = "idle"
  /\ cs = <<>>
  /\ Goto(p, "dialing")
  /\ UNCHANGED <<cs, held, executing, link, count>>

Dialed(p) ==
  /\ pc[p] = "dialing"
  /\ \E c \in {c \in Conns : Fresh(c)} :
       /\ link' = [link EXCEPT ![c] = "open"]
       /\ Start(p, c)
  /\ UNCHANGED <<cs, count>>

DialFailed(p) ==
  /\ pc[p] = "dialing"
  /\ Goto(p, "idle")
  /\ UNCHANGED <<cs, held, executing, link, count>>

\* Both RunArgs and the keepalive reach their select some time after the go statement.
EnterSelect(p) ==
  /\ pc[p] = "spawned"
  /\ Goto(p, "waiting")
  /\ UNCHANGED <<cs, held, executing, link, count>>

\* The command goroutine is done and its creator waits: the reply, or the error, is received.
Reply(p) ==
  /\ Mine(p)
  /\ pc[p] = "waiting"
  /\ executing' = executing \ {<<p, held[p]>>}
  /\ Goto(p, "replied")
  /\ UNCHANGED <<cs, held, link, count>>

\* The command goroutine is done before its creator waits: default is taken.
ReplyDropped(p) ==
  /\ Mine(p)
  /\ pc[p] = "spawned"
  /\ executing' = executing \ {<<p, held[p]>>}
  /\ UNCHANGED <<cs, pc, held, link, count>>

\* A command goroutine whose creator gave up returns; nobody receives its offer.
AbandonedReply(p, c) ==
  /\ <<p, c>> \in executing
  /\ c # held[p]
  /\ executing' = executing \ {<<p, c>>}
  /\ UNCHANGED <<cs, pc, held, link, count>>

PutReleased(p) ==
  /\ pc[p] = "replied"
  /\ Release(p)
  /\ cs' = Append(cs, held'[p])
  /\ Goto(p, "idle")
  /\ UNCHANGED <<executing, link, count>>

\* The connection goes back whatever the command returned, a dead connection included.
Put(p) ==
  /\ pc[p] = "replied"
  /\ cs' = Append(cs, held[p])
  /\ Release(p)
  /\ Goto(p, "idle")
  /\ UNCHANGED <<executing, link, count>>

PutOnTimeout(p) ==
  /\ pc[p] = "waiting"
  /\ cs' = Append(cs, held[p])
  /\ Release(p)
  /\ Goto(p, "idle")
  /\ UNCHANGED <<executing, link, count>>

TimeoutWhileExecuting(p) ==
  /\ pc[p] = "waiting"
  /\ Mine(p)
  /\ link' = [link EXCEPT ![held[p]] = "closed"]
  /\ Release(p)
  /\ Goto(p, "idle")
  /\ UNCHANGED <<cs, executing, count>>

\* time.After(5s) fires: the connection is closed and forgotten.
Timeout(p) ==
  /\ pc[p] = "waiting"
  /\ link' = [link EXCEPT ![held[p]] = "closed"]
  /\ Release(p)
  /\ Goto(p, "idle")
  /\ UNCHANGED <<cs, executing, count>>

-----------------------------------------------------------------------------
(* The keepalive goroutine: the newest pooled connection is taken, tested   *)
(* and put back in front of the others, or closed.                          *)

KeepAliveNothing ==
  /\ pc[KeepAlive] = "pick"
  /\ cs = <<>>
  /\ count' = 1
  /\ Goto(KeepAlive, "dialing")
  /\ UNCHANGED <<cs, held, executing, link>>

KeepAlivePick ==
  /\ pc[KeepAlive] = "pick"
  /\ cs # <<>>
  /\ count' = Len(cs)
  /\ cs' = SubSeq(cs, 1, Len(cs) - 1)
  /\ Start(KeepAlive, cs[Len(cs)])
  /\ UNCHANGED link

\* The command goroutine is done while the keepalive waits: a good reply needs a live link.
KeepAliveReply(good) ==
  /\ Mine(KeepAlive)
  /\ pc[KeepAlive] = "waiting"
  /\ good => link[held[KeepAlive]] = "open"
  /\ executing' = executing \ {<<KeepAlive, held[KeepAlive]>>}
  /\ Goto(KeepAlive, IF good THEN "replied" ELSE "discard")
  /\ UNCHANGED <<cs, held, link, count>>

\* The reply was dropped and the deferred close(ch) makes the receive return nil.
KeepAliveNilReply ==
  /\ ~ Mine(KeepAlive)
  /\ pc[KeepAlive] = "waiting"
  /\ Goto(KeepAlive, "discard")
  /\ UNCHANGED <<cs, held, executing, link, count>>

KeepOnTimeout ==
  /\ pc[KeepAlive] = "waiting"
  /\ Goto(KeepAlive, "replied")
  /\ UNCHANGED <<cs, held, executing, link, count>>

KeepAliveTimeout ==
  /\ pc[KeepAlive] = "waiting"
  /\ Goto(KeepAlive, "discard")
  /\ UNCHANGED <<cs, held, executing, link, count>>

PushBackLast(c) == Append(cs, c)

PushBack(c) == <<c>> \o cs

KeepAliveKeep ==
  /\ pc[KeepAlive] = "replied"
  /\ cs' = PushBack(held[KeepAlive])
  /\ Release(KeepAlive)
  /\ Goto(KeepAlive, "sleep")
  /\ UNCHANGED <<executing, link, count>>

CountOnce(n) == n - 1

\* count-- after a discard; at 0 a connection is dialed and count set to 1 again.
CountAfterDiscard(n) == IF n = 1 THEN 1 ELSE n - 1

KeepAliveDiscard ==
  /\ pc[KeepAlive] = "discard"
  /\ link' = [link EXCEPT ![held[KeepAlive]] = "closed"]
  /\ Release(KeepAlive)
  /\ count' = CountAfterDiscard(count)
  /\ Goto(KeepAlive, IF count = 1 THEN "dialing" ELSE "sleep")
  /\ UNCHANGED <<cs, executing>>

\* The new connection stays in the local variable c: it never reaches pool.cs.
KeepAliveDialed ==
  /\ pc[KeepAlive] = "dialing"
  /\ \E c \in {c \in Conns : Fresh(c)} : link' = [link EXCEPT ![c] = "open"]
  /\ Goto(KeepAlive, "sleep")
  /\ UNCHANGED <<cs, held, executing, count>>

KeepAliveDialFailed ==
  /\ pc[KeepAlive] = "dialing"
  /\ Goto(KeepAlive, "sleep")
  /\ UNCHANGED <<cs, held, executing, link, count>>

\* time.After(10s / count): the division panics when count is 0.
KeepAliveWake ==
  /\ pc[KeepAlive] = "sleep"
  /\ count # 0
  /\ Goto(KeepAlive, "pick")
  /\ UNCHANGED <<cs, held, executing, link, count>>

-----------------------------------------------------------------------------
(* The environment                                                          *)

\* The device closes the connection, restarts, or the network goes away.
Break(c) ==
  /\ link[c] = "open"
  /\ link' = [link EXCEPT ![c] = "broken"]
  /\ UNCHANGED <<cs, pc, held, executing, count>>

\* The Go runtime finalizes a connection nothing refers to any more.
Finalize(c) ==
  /\ link[c] # "closed"
  /\ Unreferenced(c)
  /\ link' = [link EXCEPT ![c] = "closed"]
  /\ UNCHANGED <<cs, pc, held, executing, count>>

-----------------------------------------------------------------------------
Caller(p) ==
  \/ GetPooled(p) \/ GetEmpty(p)
  \/ Dialed(p) \/ DialFailed(p)
  \/ EnterSelect(p) \/ Reply(p) \/ ReplyDropped(p)
  \/ Put(p) \/ Timeout(p)

KeepAliveStep ==
  \/ KeepAliveNothing \/ KeepAlivePick
  \/ EnterSelect(KeepAlive)
  \/ \E good \in BOOLEAN : KeepAliveReply(good)
  \/ ReplyDropped(KeepAlive) \/ KeepAliveNilReply \/ KeepAliveTimeout
  \/ KeepAliveKeep \/ KeepAliveDiscard
  \/ KeepAliveDialed \/ KeepAliveDialFailed \/ KeepAliveWake

Next ==
  \/ \E p \in Callers : Caller(p)
  \/ KeepAliveStep
  \/ \E p \in Procs, c \in Conns : AbandonedReply(p, c)
  \/ \E c \in Conns : Break(c) \/ Finalize(c)

Spec == Init /\ [][Next]_vars

\* The Go scheduler runs every goroutine that can run, and its timers fire.  Nothing
\* is assumed of the device: no reply is fair, no dial has to end.
FairSpec ==
  /\ Spec
  /\ \A p \in Callers : /\ WF_vars(EnterSelect(p))
                        /\ WF_vars(Put(p))
                        /\ WF_vars(Timeout(p))
  /\ WF_vars(KeepAliveNothing) /\ WF_vars(KeepAlivePick)
  /\ WF_vars(EnterSelect(KeepAlive))
  /\ WF_vars(KeepAliveNilReply) /\ WF_vars(KeepAliveTimeout)
  /\ WF_vars(KeepAliveKeep) /\ WF_vars(KeepAliveDiscard)
  /\ WF_vars(KeepAliveWake)

-----------------------------------------------------------------------------
(* Safety                                                                   *)

\* The state is what the Go types and the control flow allow.
TypeOK ==
  /\ cs \in Seq(Conns)
  /\ pc \in [Procs -> CallerPC \cup KeepAlivePC]
  /\ \A p \in Callers : pc[p] \in CallerPC
  /\ pc[KeepAlive] \in KeepAlivePC
  /\ held \in [Procs -> Conns \cup {NoConn}]
  /\ executing \subseteq Procs \X Conns
  /\ link \in [Conns -> {"open", "broken", "closed"}]
  /\ count \in Nat

\* A routeros.Client that is not in async mode reads its own reply: two goroutines inside
\* RunArgs on one connection would read each other's sentences.  It never happens, timeouts
\* that leave the first goroutine behind included.
ExclusiveUse == \A x, y \in executing : x[2] = y[2] => x = y

\* A connection in pool.cs has not been closed by this program, nobody is still running a
\* command on it or holding it, and it is there once: Get may hand it out as it is.
PooledIdle ==
  /\ NoDuplicates(cs)
  /\ \A c \in Pooled : /\ link[c] # "closed"
                       /\ \A p \in Procs : held[p] # c /\ <<p, c>> \notin executing

Busy == {p \in Procs : held[p] # NoConn}
            \cup {p \in Callers : pc[p] = "dialing"}

\* Get dials only when the pool is empty, so the pool never outgrows the number of calls
\* that were in flight at once, the keepalive's included.
BoundedConns == Len(cs) + Cardinality(Busy) <= Cardinality(Procs)

\* The keepalive divides ten seconds by count before it sleeps, and a discard leaves it a
\* count of at least one on every path, a discarded last connection included.
SleepDefined == pc[KeepAlive] = "sleep" => count > 0

-----------------------------------------------------------------------------
(* Liveness                                                                 *)

\* Once RunArgs has a connection it returns, even if the reply was dropped by the
\* select/default of the command goroutine, or never comes.
HeldCallReturns == \A p \in Callers : pc[p] = "spawned" ~> pc[p] = "idle"

\* When the calls stop, and as long as its own dials end, the keepalive gets round to every
\* pooled connection: the dead ones do not stay.  It takes the newest and puts it back in
\* front of the others.
BrokenPurged ==
  <>[](\A p \in Callers : pc[p] = "idle") /\ []<>(pc[KeepAlive] # "dialing")
    => <>[](\A c \in Pooled : link[c] # "broken")

-----------------------------------------------------------------------------
(* Actions                                                                  *)

\* RunArgs reports a timeout only if the device did not answer in time ("RouterOS API timed
\* out after 5s", ros.go:209): the command goroutine has not come back yet.
TimeoutMeansNoAnswer ==
  [][\A p \in Callers : pc[p] = "waiting" /\ pc'[p] = "idle" => Mine(p)]_vars

\* The pool implements exclusive leases: a connection is taken from the pool or dialed, and
\* given back or closed, by the goroutine that holds it, and a closed one never comes back.
Lease == INSTANCE ConnLease WITH free <- Pooled, lease <- held

LeaseSpec == Lease!Spec
=============================================================================
