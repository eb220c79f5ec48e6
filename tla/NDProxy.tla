------------------------------ MODULE NDProxy ------------------------------
(***************************************************************************)
(* NDClient.processNd in NDP_MODE=proxy (nd.go) on the sockets of the      *)
(* internal interfaces (sock.go).                                          *)
(*                                                                         *)
(* Every solicitation from outside that passes the filters gets a          *)
(* goroutine of its own.  It flushes each internal socket, sends a         *)
(* neighbor solicitation through it and then reads advertisements until    *)
(* one names its target or its time is up.  All goroutines share the       *)
(* sockets: what one of them reads or flushes, no other one sees.  There   *)
(* is a time limit (NDP_TIMEOUT is not 0); what goes into the              *)
(* advertisement sent outside is not kept.                                 *)
(*                                                                         *)
(* heard is a history variable: what the buffers may hold for a goroutine  *)
(* since it started.                                                       *)
(***************************************************************************)
EXTENDS Naturals, Sequences, FiniteSets

CONSTANTS
  Workers,    \* slots for processNd goroutines; bound: how many run at once
  Targets,    \* addresses solicited from outside
  Nobody,     \* the target of an idle slot
  Ifs,        \* internal interfaces, each with one socket
  MaxQueue    \* bound: packets a socket buffers, further ones are lost

ASSUME NDProxyAssumption ==
  /\ Nobody \notin Targets
  /\ Ifs # {} /\ IsFiniteSet(Ifs)
  /\ MaxQueue \in Nat \ {0}

VARIABLES
  wpc,       \* where each goroutine is
  target,    \* its targetIP
  todo,      \* the internal sockets it has not solicited through yet
  current,   \* the socket (one or none) it has just flushed, or epollOnce returned to it
  expired,   \* its time (remain) is used up
  rxq,       \* per socket, the targets of the neighbor advertisements in its buffer
  err,       \* the sockets with a pending error
  asked,     \* <<interface, target>>: solicitations on the wire
  heard      \* per goroutine, see above

vars == <<wpc, target, todo, current, expired, rxq, err, asked, heard>>

WorkerPC == {"idle", "flush", "write", "check", "epoll", "read", "found", "timed out", "failed"}

Init ==
  /\ wpc = [w \in Workers |-> "idle"]
  /\ target = [w \in Workers |-> Nobody]
  /\ todo = [w \in Workers |-> {}]
  /\ current = [w \in Workers |-> {}]
  /\ expired = [w \in Workers |-> FALSE]
  /\ rxq = [i \in Ifs |-> <<>>]
  /\ err = {}
  /\ asked = {}
  /\ heard = [w \in Workers |-> {}]

\* What heard can hold.
Heard == {"answer", "early", "unflushed"}

Goto(w, l) == wpc' = [wpc EXCEPT ![w] = l]

\* solicitInternal returns, and its locals are gone.
Return(w, l) ==
  /\ Goto(w, l)
  /\ todo' = [todo EXCEPT ![w] = {}]
  /\ current' = [current EXCEPT ![w] = {}]
  /\ expired' = [expired EXCEPT ![w] = FALSE]
  /\ heard' = IF l = "found" THEN heard ELSE [heard EXCEPT ![w] = {}]
  /\ UNCHANGED target

Buffered(i, t) == \E k \in 1 .. Len(rxq[i]) : rxq[i][k] = t

-----------------------------------------------------------------------------
(* solicitInternal                                                          *)

\* workInternal starts processNd for a solicitation from outside.
Solicited(w, t) ==
  /\ wpc[w] = "idle"
  /\ Goto(w, "flush")
  /\ target' = [target EXCEPT ![w] = t]
  /\ todo' = [todo EXCEPT ![w] = Ifs]
  /\ expired' = [expired EXCEPT ![w] = FALSE]
  /\ heard' = [heard EXCEPT ![w] = {}]
  /\ UNCHANGED <<current, rxq, err, asked>>

KeepBuffer(i) == UNCHANGED <<rxq, err>>

\* FlushAll reads until the buffer is empty or a read fails; a pending error is what a read
\* returns first, and reading it clears it.
FlushAll(i) ==
  IF i \in err THEN err' = err \ {i} /\ UNCHANGED rxq
               ELSE rxq' = [rxq EXCEPT ![i] = <<>>] /\ UNCHANGED err

Flush(w, i) ==
  /\ wpc[w] = "flush" /\ i \in todo[w]
  /\ FlushAll(i)
  /\ heard' = IF i \in err /\ rxq[i] # <<>> THEN [heard EXCEPT ![w] = @ \cup {"unflushed"}]
                                            ELSE heard
  /\ current' = [current EXCEPT ![w] = {i}]
  /\ Goto(w, "write")
  /\ UNCHANGED <<target, todo, expired, asked>>

WriteNS(w, i) ==
  /\ wpc[w] = "write" /\ i \in current[w] /\ i \notin err
  /\ todo' = [todo EXCEPT ![w] = @ \ {i}]
  /\ current' = [current EXCEPT ![w] = {}]
  /\ asked' = asked \cup {<<i, target[w]>>}
  /\ Goto(w, IF todo[w] = {i} THEN "check" ELSE "flush")
  /\ UNCHANGED <<target, expired, rxq, err, heard>>

\* One failing write gives up on all interfaces.  A pending error makes it fail; it is consumed
\* where the interface is up again.
WriteFails(w, i) ==
  /\ wpc[w] = "write" /\ i \in current[w]
  /\ err' \in {err, err \ {i}}
  /\ Return(w, "failed")
  /\ UNCHANGED <<rxq, asked>>

KeepWaiting(w) ==
  /\ wpc[w] = "check"
  /\ Goto(w, "epoll")
  /\ UNCHANGED <<target, todo, current, expired, rxq, err, asked, heard>>

\* The head of the loop: remain == nil || *remain > 0.
Check(w) ==
  /\ wpc[w] = "check"
  /\ IF expired[w]
     THEN Return(w, "timed out")
     ELSE Goto(w, "epoll") /\ UNCHANGED <<target, todo, current, expired, heard>>
  /\ UNCHANGED <<rxq, err, asked>>

\* epollOnce leaves out the sockets with an error and returns one that has data.
EpollReady(w, i) ==
  /\ wpc[w] = "epoll"
  /\ i \notin err /\ rxq[i] # <<>>
  /\ current' = [current EXCEPT ![w] = {i}]
  /\ Goto(w, "read")
  /\ UNCHANGED <<target, todo, expired, rxq, err, asked, heard>>

\* Timed out, or every socket has an error: (-1, nil, nil) in both cases.
EpollNone(w) ==
  /\ wpc[w] = "epoll"
  /\ expired[w] \/ err = Ifs
  /\ Return(w, "timed out")
  /\ UNCHANGED <<rxq, err, asked>>

\* Every socket has an error and the last one has data as well: the read that follows returns
\* its error.
EpollBroken(w, i) ==
  /\ wpc[w] = "epoll" /\ err = Ifs /\ rxq[i] # <<>>
  /\ err' = err \ {i}
  /\ Return(w, "failed")
  /\ UNCHANGED <<rxq, asked>>

\* epollOnce itself fails: no descriptor is left, or epoll_wait is interrupted.
EpollFails(w) ==
  /\ wpc[w] = "epoll"
  /\ Return(w, "failed")
  /\ UNCHANGED <<rxq, err, asked>>

\* The time is looked at before the answer.
InTimeOnly(w, na) == na = target[w] /\ ~ expired[w]

Answers(w, na) == na = target[w]

\* The packet is no answer: to the head of the loop.
GoRound(w) ==
  /\ Goto(w, "check")
  /\ current' = [current EXCEPT ![w] = {}]
  /\ UNCHANGED <<target, todo, expired, heard>>

\* Another goroutine may have taken what epoll saw: EAGAIN gives nil data, which does not parse.
Read(w, i) ==
  /\ wpc[w] = "read" /\ i \in current[w]
  /\ CASE i \in err ->
            err' = err \ {i} /\ UNCHANGED rxq /\ Return(w, "failed")
       [] i \notin err /\ rxq[i] = <<>> ->
            UNCHANGED <<rxq, err>> /\ GoRound(w)
       [] i \notin err /\ rxq[i] # <<>> ->
            /\ rxq' = [rxq EXCEPT ![i] = Tail(@)] /\ UNCHANGED err
            /\ IF Answers(w, Head(rxq[i])) THEN Return(w, "found") ELSE GoRound(w)
  /\ UNCHANGED asked

-----------------------------------------------------------------------------
(* processNd, what follows                                                  *)

FinishKeepingTarget(w) ==
  /\ Goto(w, "idle")
  /\ heard' = [heard EXCEPT ![w] = {}]
  /\ UNCHANGED <<target, todo, current, expired, rxq, err, asked>>

Finish(w) ==
  /\ Goto(w, "idle")
  /\ target' = [target EXCEPT ![w] = Nobody]
  /\ heard' = [heard EXCEPT ![w] = {}]
  /\ UNCHANGED <<todo, current, expired, rxq, err, asked>>

Advertise(w) == wpc[w] = "found" /\ Finish(w)

GiveUp(w) == wpc[w] \in {"timed out", "failed"} /\ Finish(w)

-----------------------------------------------------------------------------
(* Time, hosts and links                                                    *)

Waiting(w) == wpc[w] \in {"check", "epoll", "read"}

TimeUp(w) ==
  /\ Waiting(w) /\ ~ expired[w]
  /\ expired' = [expired EXCEPT ![w] = TRUE]
  /\ UNCHANGED <<wpc, target, todo, current, rxq, err, asked, heard>>

\* How an answer for w's target that comes in on i now looks to w: between the flush and the
\* write it cannot be an answer to w itself.
Seen(w, i) ==
  CASE i \notin todo[w] -> {"answer"}
    [] wpc[w] = "write" /\ i \in current[w] -> {"early"}
    [] OTHER -> {}

\* The target answers on the interface it was asked on; the advertisement is buffered.
Answer(i, t) ==
  /\ <<i, t>> \in asked
  /\ Len(rxq[i]) < MaxQueue
  /\ asked' = asked \ {<<i, t>>}
  /\ rxq' = [rxq EXCEPT ![i] = Append(@, t)]
  /\ heard' = [w \in Workers |-> IF target[w] = t THEN heard[w] \cup Seen(w, i) ELSE heard[w]]
  /\ UNCHANGED <<wpc, target, todo, current, expired, err>>

\* Nobody has the address, or a packet is lost.
NoAnswer(i, t) ==
  /\ <<i, t>> \in asked
  /\ asked' = asked \ {<<i, t>>}
  /\ UNCHANGED <<wpc, target, todo, current, expired, rxq, err, heard>>

LinkError(i) ==
  /\ i \notin err
  /\ err' = err \cup {i}
  /\ UNCHANGED <<wpc, target, todo, current, expired, rxq, asked, heard>>

-----------------------------------------------------------------------------
Worker(w) ==
  \/ \E i \in Ifs : \/ Flush(w, i) \/ WriteNS(w, i) \/ WriteFails(w, i)
                   \/ EpollReady(w, i) \/ EpollBroken(w, i) \/ Read(w, i)
  \/ Check(w) \/ EpollNone(w) \/ EpollFails(w) \/ Advertise(w) \/ GiveUp(w)

Environment ==
  \/ \E w \in Workers : TimeUp(w) \/ \E t \in Targets : Solicited(w, t)
  \/ \E i \in Ifs : LinkError(i) \/ \E t \in Targets : Answer(i, t) \/ NoAnswer(i, t)

Next == Environment \/ \E w \in Workers : Worker(w)

Spec == Init /\ [][Next]_vars

\* Goroutines run and clocks advance.  No answer has to come.
FairSpec ==
  /\ Spec
  /\ \A w \in Workers : WF_vars(Worker(w)) /\ WF_vars(TimeUp(w))

-----------------------------------------------------------------------------
(* Properties                                                               *)

TypeOK ==
  /\ wpc \in [Workers -> WorkerPC]
  /\ target \in [Workers -> Targets \cup {Nobody}]
  /\ \A w \in Workers : wpc[w] = "idle" <=> target[w] = Nobody
  /\ todo \in [Workers -> SUBSET Ifs]
  /\ current \in [Workers -> SUBSET Ifs]
  /\ \A w \in Workers : IF wpc[w] \in {"write", "read"} THEN \E i \in Ifs : current[w] = {i}
                                                      ELSE current[w] = {}
  /\ \A w \in Workers : wpc[w] = "write" => current[w] \subseteq todo[w]
  /\ expired \in [Workers -> BOOLEAN]
  /\ rxq \in [Ifs -> Seq(Targets)]
  /\ err \subseteq Ifs
  /\ asked \subseteq Ifs \X Targets
  /\ heard \in [Workers -> SUBSET Heard]

\* A goroutine believes only answers that came in after it had flushed the socket they came in
\* on: those to earlier solicitations of the same target do not count.  With one exception they
\* came in after it asked, too: what answers another goroutine may come in between its FlushAll
\* (nd.go:318) and its WriteOnce (nd.go:320).  A flush that a socket error cuts off proves
\* nothing.
FreshEvidence ==
  \A w \in Workers : wpc[w] = "found" => heard[w] # {}

\* Another goroutine flushes a socket, or reads from one.
Takes(v) ==
  \/ wpc[v] = "flush" /\ wpc'[v] = "write"
  \/ wpc[v] = "read" /\ wpc'[v] # "read"

\* Solicitations from outside are answered on behalf of the hosts inside (README.md).  An answer
\* in the buffer leaves it unseen by the goroutine that waits for it only if another one
\* flushes or reads the shared socket: not by its own reads, late as they may be.  And while
\* the answer is there the goroutine gives up without an error only when its time is up or no
\* socket works, and with one only if that is epollOnce's or that of the socket it reads.
AnswerNotMissed ==
  [][\A w \in Workers, i \in Ifs :
       Waiting(w) /\ Buffered(i, target[w]) =>
         /\ ~ Buffered(i, target[w])' =>
              wpc'[w] = "found" \/ \E v \in Workers \ {w} : Takes(v)
         /\ wpc'[w] = "timed out" => expired[w] \/ err = Ifs
         /\ wpc'[w] = "failed" => wpc[w] = "epoll" \/ current[w] \cap err # {}]_vars

\* Each goroutine ends, however many advertisements for other targets keep arriving, and
\* whatever other goroutines take from its sockets.
SolicitEnds == \A w \in Workers : wpc[w] # "idle" ~> wpc[w] = "idle"
=============================================================================
