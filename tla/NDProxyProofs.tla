--------------------------- MODULE NDProxyProofs ---------------------------
(***************************************************************************)
(* Proofs about NDProxy, for any number of goroutines, targets and         *)
(* interfaces and any buffer size.                                         *)
(*                                                                         *)
(* That an accepted answer is fresh follows from what the buffers hold:    *)
(* once a goroutine has flushed a socket, an advertisement for its target  *)
(* in that buffer has come in since, or the flush was cut off.             *)
(***************************************************************************)
EXTENDS NDProxy, FiniteSetTheorems, TLAPS

Asking(w) == wpc[w] \in {"flush", "write", "check", "epoll", "read"}

\* The goroutine has flushed the socket.
Cleared(w, i) == i \notin todo[w] \/ (wpc[w] = "write" /\ i \in current[w])

\* Once it waits, every socket has been flushed.
AllAsked == \A w \in Workers : wpc[w] \in {"check", "epoll", "read", "found"} => todo[w] = {}

FreshBuffers ==
  \A w \in Workers, i \in Ifs :
    Asking(w) /\ Cleared(w, i) /\ Buffered(i, target[w]) => heard[w] # {}

IInv == TypeOK /\ AllAsked /\ FreshBuffers /\ FreshEvidence

LEMMA InitInv == Init => IInv
<1> SUFFICES ASSUME Init PROVE IInv
  OBVIOUS
<1>1. \A i \in Ifs : rxq[i] \in Seq(Targets) /\ Len(rxq[i]) = 0
  BY DEF Init
<1>2. rxq \in [Ifs -> Seq(Targets)]
  BY <1>1 DEF Init
<1>3. TypeOK
  BY <1>2, NDProxyAssumption DEF Init, TypeOK, WorkerPC
<1> QED
  BY <1>3 DEF Init, IInv, AllAsked, FreshBuffers, FreshEvidence, Asking

\* Nothing comes into a buffer, and no goroutine has flushed more than before.
LEMMA BuffersShrink ==
  ASSUME FreshBuffers,
         \A j \in Ifs : \A t : Buffered(j, t)' => Buffered(j, t),
         \A v \in Workers : Asking(v)' => /\ Asking(v)
                                          /\ target'[v] = target[v] /\ heard'[v] = heard[v]
                                          /\ \A j \in Ifs : Cleared(v, j)' => Cleared(v, j)
  PROVE  FreshBuffers'
<1> SUFFICES ASSUME NEW v \in Workers, NEW j \in Ifs, Asking(v)', Cleared(v, j)',
                    Buffered(j, target[v])'
             PROVE  heard'[v] # {}
  BY DEF FreshBuffers
<1>1. Asking(v) /\ target'[v] = target[v] /\ heard'[v] = heard[v] /\ Cleared(v, j)
  OBVIOUS
<1>2. PICK t : t = target[v]
  OBVIOUS
<1>3. Buffered(j, t)'
  BY <1>1, <1>2 DEF Buffered
<1>4. Buffered(j, target[v])
  BY <1>2, <1>3 DEF Buffered
<1> QED
  BY <1>1, <1>4 DEF FreshBuffers

LEMMA SameBuffers ==
  ASSUME UNCHANGED rxq
  PROVE  \A j \in Ifs : \A t : Buffered(j, t)' => Buffered(j, t)
BY DEF Buffered

\* A flush empties one buffer, or clears that socket's error and leaves its buffer alone.
LEMMA Flushed ==
  ASSUME TypeOK, NEW i \in Ifs, FlushAll(i)
  PROVE  /\ rxq' \in [Ifs -> Seq(Targets)] /\ err' \subseteq Ifs
         /\ \A j \in Ifs : j # i => rxq'[j] = rxq[j]
         /\ rxq'[i] = <<>> \/ (rxq'[i] = rxq[i] /\ i \in err)
<1>1. CASE i \in err
  BY <1>1 DEF FlushAll, TypeOK
<1>2. CASE i \notin err
  <2>1. PICK empty \in Seq(Targets) : empty = <<>>
    <3>1. <<>> \in Seq(Targets)
      OBVIOUS
    <3> QED
      BY <3>1, Zenon
  <2>2. rxq' = [rxq EXCEPT ![i] = empty] /\ err' = err
    BY <1>2, <2>1, Zenon DEF FlushAll
  <2>3. rxq \in [Ifs -> Seq(Targets)] /\ err \subseteq Ifs
    BY DEF TypeOK
  <2>4. /\ rxq' \in [Ifs -> Seq(Targets)] /\ rxq'[i] = empty
        /\ \A j \in Ifs : j # i => rxq'[j] = rxq[j]
    BY <2>2, <2>3
  <2> QED
    BY <2>1, <2>2, <2>3, <2>4, Zenon
<1> QED
  BY <1>1, <1>2

\* A read takes the first packet out of a buffer.
LEMMA TakenOut ==
  ASSUME TypeOK, NEW i \in Ifs, rxq[i] # <<>>, rxq' = [rxq EXCEPT ![i] = Tail(@)]
  PROVE  /\ rxq' \in [Ifs -> Seq(Targets)]
         /\ Buffered(i, Head(rxq[i]))
         /\ \A j \in Ifs : \A t : Buffered(j, t)' => Buffered(j, t)
<1>1. rxq[i] \in Seq(Targets) /\ rxq \in [Ifs -> Seq(Targets)]
  BY DEF TypeOK
<1>2. /\ Tail(rxq[i]) \in Seq(Targets) /\ Len(Tail(rxq[i])) = Len(rxq[i]) - 1
      /\ \A k \in 1 .. Len(Tail(rxq[i])) : Tail(rxq[i])[k] = rxq[i][k + 1] /\ k + 1 \in 1 .. Len(rxq[i])
      /\ 1 \in 1 .. Len(rxq[i]) /\ Head(rxq[i]) = rxq[i][1]
  BY <1>1
<1>3. rxq'[i] = Tail(rxq[i]) /\ \A j \in Ifs : j # i => rxq'[j] = rxq[j]
  BY <1>1
<1>4. \A t : Buffered(i, t)' => Buffered(i, t)
  BY <1>2, <1>3 DEF Buffered
<1>5. \A j \in Ifs : \A t : j # i /\ Buffered(j, t)' => Buffered(j, t)
  BY <1>3 DEF Buffered
<1>6. rxq' \in [Ifs -> Seq(Targets)]
  BY <1>1, <1>2
<1> QED
  BY <1>2, <1>4, <1>5, <1>6 DEF Buffered

\* What a return from solicitInternal changes.
LEMMA Returned ==
  ASSUME IInv, NEW w \in Workers, wpc[w] # "idle",
         NEW l \in {"found", "timed out", "failed"}, Return(w, l),
         l = "found" => todo[w] = {} /\ heard[w] # {},
         rxq' \in [Ifs -> Seq(Targets)], err' \subseteq Ifs, UNCHANGED asked,
         \A j \in Ifs : \A t : Buffered(j, t)' => Buffered(j, t)
  PROVE  IInv'
<1>1. /\ wpc' = [wpc EXCEPT ![w] = l] /\ todo' = [todo EXCEPT ![w] = {}]
      /\ current' = [current EXCEPT ![w] = {}] /\ expired' = [expired EXCEPT ![w] = FALSE]
      /\ UNCHANGED target
  BY DEF Return, Goto
<1>2. /\ heard' \in [Workers -> SUBSET Heard]
      /\ \A v \in Workers : v # w => heard'[v] = heard[v]
      /\ l = "found" => heard' = heard
  BY DEF Return, IInv, TypeOK
<1>3. /\ wpc'[w] = l /\ todo'[w] = {} /\ current'[w] = {}
      /\ \A v \in Workers : v # w => wpc'[v] = wpc[v] /\ todo'[v] = todo[v] /\ current'[v] = current[v]
  BY <1>1 DEF IInv, TypeOK
<1>4. TypeOK'
  <2>1. wpc' \in [Workers -> WorkerPC]
    BY <1>1 DEF IInv, TypeOK, WorkerPC
  <2>2. \A v \in Workers : wpc'[v] = "idle" <=> target'[v] = Nobody
    BY <1>1, <1>3 DEF IInv, TypeOK
  <2>3. todo' \in [Workers -> SUBSET Ifs] /\ current' \in [Workers -> SUBSET Ifs]
    BY <1>1 DEF IInv, TypeOK
  <2>4. \A v \in Workers : IF wpc'[v] \in {"write", "read"} THEN \E j \in Ifs : current'[v] = {j}
                                                           ELSE current'[v] = {}
    BY <1>3 DEF IInv, TypeOK
  <2>5. \A v \in Workers : wpc'[v] = "write" => current'[v] \subseteq todo'[v]
    BY <1>3 DEF IInv, TypeOK
  <2>6. /\ target' \in [Workers -> Targets \cup {Nobody}] /\ expired' \in [Workers -> BOOLEAN]
        /\ asked' \subseteq Ifs \X Targets
    BY <1>1 DEF IInv, TypeOK
  <2> QED
    BY <1>2, <2>1, <2>2, <2>3, <2>4, <2>5, <2>6 DEF TypeOK
<1>5. AllAsked' /\ FreshEvidence'
  BY <1>2, <1>3 DEF IInv, AllAsked, FreshEvidence
<1>6. FreshBuffers'
  <2>1. ASSUME NEW v \in Workers, Asking(v)'
        PROVE  /\ Asking(v) /\ target'[v] = target[v] /\ heard'[v] = heard[v]
               /\ \A j \in Ifs : Cleared(v, j)' => Cleared(v, j)
    <3>1. v # w
      BY <1>3, <2>1 DEF Asking
    <3> QED
      BY <1>1, <1>2, <1>3, <2>1, <3>1 DEF Asking, Cleared
  <2> QED
    BY <2>1, BuffersShrink DEF IInv
<1> QED
  BY <1>4, <1>5, <1>6 DEF IInv

\* A goroutine goes on to another place of the loop that waits.
LEMMA WentOn ==
  ASSUME IInv, NEW w \in Workers, NEW l \in {"check", "epoll", "read"}, Goto(w, l),
         Waiting(w), NEW c \in SUBSET Ifs, current' = [current EXCEPT ![w] = c],
         IF l = "read" THEN \E j \in Ifs : c = {j} ELSE c = {},
         UNCHANGED <<target, todo, expired, asked, heard>>,
         rxq' \in [Ifs -> Seq(Targets)], err' \subseteq Ifs,
         \A j \in Ifs : \A t : Buffered(j, t)' => Buffered(j, t)
  PROVE  IInv'
<1>1. /\ wpc'[w] = l /\ current'[w] = c /\ wpc[w] \in {"check", "epoll", "read"}
      /\ \A v \in Workers : v # w => wpc'[v] = wpc[v] /\ current'[v] = current[v]
      /\ wpc' \in [Workers -> WorkerPC] /\ current' \in [Workers -> SUBSET Ifs]
  BY DEF Goto, Waiting, IInv, TypeOK, WorkerPC
<1>2. TypeOK'
  <2>1. \A v \in Workers : wpc'[v] = "idle" <=> target'[v] = Nobody
    BY <1>1 DEF IInv, TypeOK
  <2>2. \A v \in Workers : IF wpc'[v] \in {"write", "read"} THEN \E j \in Ifs : current'[v] = {j}
                                                           ELSE current'[v] = {}
    BY <1>1 DEF IInv, TypeOK
  <2>3. \A v \in Workers : wpc'[v] = "write" => current'[v] \subseteq todo'[v]
    BY <1>1 DEF IInv, TypeOK
  <2> QED
    BY <1>1, <2>1, <2>2, <2>3 DEF IInv, TypeOK
<1>3. AllAsked' /\ FreshEvidence'
  BY <1>1 DEF IInv, AllAsked, FreshEvidence
<1>4. FreshBuffers'
  <2>1. ASSUME NEW v \in Workers, Asking(v)'
        PROVE  /\ Asking(v) /\ target'[v] = target[v] /\ heard'[v] = heard[v]
               /\ \A j \in Ifs : Cleared(v, j)' => Cleared(v, j)
    BY <1>1, <2>1 DEF Asking, Cleared
  <2> QED
    BY <2>1, BuffersShrink DEF IInv
<1> QED
  BY <1>2, <1>3, <1>4 DEF IInv

LEMMA NextInv == IInv /\ [Next]_vars => IInv'
<1> SUFFICES ASSUME IInv, [Next]_vars PROVE IInv'
  OBVIOUS
<1> USE NDProxyAssumption
<1>0. rxq \in [Ifs -> Seq(Targets)] /\ err \subseteq Ifs
  BY DEF IInv, TypeOK
<1>1. ASSUME NEW w \in Workers, NEW t \in Targets, Solicited(w, t) PROVE IInv'
  <2>1. TypeOK'
    BY <1>1 DEF Solicited, Goto, IInv, TypeOK, WorkerPC
  <2>2. (AllAsked /\ FreshEvidence)'
    BY <1>1 DEF Solicited, Goto, IInv, TypeOK, AllAsked, FreshEvidence
  <2>3. FreshBuffers'
    <3> SUFFICES ASSUME NEW v \in Workers, NEW j \in Ifs, Asking(v)', Cleared(v, j)',
                        Buffered(j, target[v])'
                 PROVE  heard'[v] # {}
      BY DEF FreshBuffers
    <3>1. v # w
      BY <1>1 DEF Solicited, Goto, IInv, TypeOK, Cleared
    <3>2. /\ wpc'[v] = wpc[v] /\ todo'[v] = todo[v] /\ current'[v] = current[v]
          /\ target'[v] = target[v] /\ heard'[v] = heard[v] /\ rxq' = rxq
      BY <1>1, <3>1 DEF Solicited, Goto, IInv, TypeOK
    <3> QED
      BY <3>2 DEF IInv, FreshBuffers, Asking, Cleared, Buffered
  <2> QED
    BY <2>1, <2>2, <2>3 DEF IInv
<1>2. ASSUME NEW w \in Workers, NEW i \in Ifs, Flush(w, i) PROVE IInv'
  <2>1. /\ rxq' \in [Ifs -> Seq(Targets)] /\ err' \subseteq Ifs
        /\ \A j \in Ifs : j # i => rxq'[j] = rxq[j]
        /\ rxq'[i] = <<>> \/ (rxq'[i] = rxq[i] /\ i \in err)
    BY <1>2, Flushed DEF Flush, IInv
  <2>2. /\ heard' \in [Workers -> SUBSET Heard]
        /\ \A v \in Workers : heard[v] \subseteq heard'[v] /\ (v # w => heard'[v] = heard[v])
        /\ rxq'[i] # <<>> => heard'[w] # {}
    <3>1. CASE i \in err /\ rxq[i] # <<>>
      BY <1>2, <3>1 DEF Flush, IInv, TypeOK, Heard
    <3>2. CASE i \notin err \/ rxq[i] = <<>>
      BY <1>2, <2>1, <3>2 DEF Flush, IInv, TypeOK
    <3> QED
      BY <3>1, <3>2
  <2>3. /\ wpc[w] = "flush" /\ i \in todo[w] /\ wpc' = [wpc EXCEPT ![w] = "write"]
        /\ current' = [current EXCEPT ![w] = {i}]
        /\ UNCHANGED <<target, todo, expired, asked>>
    BY <1>2 DEF Flush, Goto
  <2>4. /\ wpc'[w] = "write" /\ current'[w] = {i}
        /\ \A v \in Workers : v # w => wpc'[v] = wpc[v] /\ current'[v] = current[v]
        /\ wpc' \in [Workers -> WorkerPC] /\ current' \in [Workers -> SUBSET Ifs]
    BY <2>3 DEF IInv, TypeOK, WorkerPC
  <2>5. TypeOK'
    <3>1. \A v \in Workers : wpc'[v] = "idle" <=> target'[v] = Nobody
      BY <2>3, <2>4 DEF IInv, TypeOK
    <3>2. \A v \in Workers : IF wpc'[v] \in {"write", "read"} THEN \E j \in Ifs : current'[v] = {j}
                                                             ELSE current'[v] = {}
      BY <2>4 DEF IInv, TypeOK
    <3>3. \A v \in Workers : wpc'[v] = "write" => current'[v] \subseteq todo'[v]
      BY <2>3, <2>4 DEF IInv, TypeOK
    <3> QED
      BY <2>1, <2>2, <2>3, <2>4, <3>1, <3>2, <3>3 DEF IInv, TypeOK
  <2>6. (AllAsked /\ FreshEvidence)'
    <3>1. \A v \in Workers : wpc'[v] \in {"check", "epoll", "read", "found"} => wpc'[v] = wpc[v] /\ heard'[v] = heard[v]
      BY <2>2, <2>4
    <3> QED
      BY <2>3, <3>1 DEF IInv, AllAsked, FreshEvidence
  <2>7. ASSUME NEW v \in Workers, NEW j \in Ifs,
               Asking(v)', Cleared(v, j)', Buffered(j, target[v])'
        PROVE  heard'[v] # {}
    <3>1. target' = target /\ Asking(v)
      BY <2>3, <2>4, <2>7 DEF Asking
    <3>2. CASE v = w /\ j = i
      <4>1. rxq'[i] # <<>>
        BY <2>7, <3>2 DEF Buffered
      <4> QED
        BY <2>2, <3>2, <4>1
    <3>3. CASE ~ (v = w /\ j = i)
      <4>1. Cleared(v, j)
        BY <2>3, <2>4, <2>7, <3>3 DEF Cleared
      <4>2. Buffered(j, target[v])
        <5>1. rxq'[j] # <<>>
          BY <2>7 DEF Buffered
        <5>2. rxq'[j] = rxq[j]
          BY <2>1, <5>1
        <5> QED
          BY <2>7, <3>1, <5>2 DEF Buffered
      <4> QED
        BY <2>2, <3>1, <4>1, <4>2 DEF IInv, FreshBuffers
    <3> QED
      BY <3>2, <3>3
  <2> QED
    BY <2>5, <2>6, <2>7 DEF IInv, FreshBuffers
<1>3. ASSUME NEW w \in Workers, NEW i \in Ifs, WriteNS(w, i) PROVE IInv'
  <2>1. /\ wpc[w] = "write" /\ current[w] = {i} /\ i \in todo[w] /\ target[w] \in Targets
    BY <1>3 DEF WriteNS, IInv, TypeOK
  <2>2. /\ todo' = [todo EXCEPT ![w] = @ \ {i}] /\ current' = [current EXCEPT ![w] = {}]
        /\ asked' = asked \cup {<<i, target[w]>>}
        /\ UNCHANGED <<target, expired, rxq, err, heard>>
    BY <1>3 DEF WriteNS
  <2>3. /\ wpc' \in [Workers -> WorkerPC]
        /\ wpc'[w] \in {"check", "flush"} /\ (wpc'[w] = "check" => todo[w] = {i})
        /\ \A v \in Workers : v # w => wpc'[v] = wpc[v]
    BY <1>3 DEF WriteNS, Goto, IInv, TypeOK, WorkerPC
  <2>4. /\ todo'[w] = todo[w] \ {i} /\ current'[w] = {}
        /\ \A v \in Workers : v # w => todo'[v] = todo[v] /\ current'[v] = current[v]
        /\ todo' \in [Workers -> SUBSET Ifs] /\ current' \in [Workers -> SUBSET Ifs]
    BY <2>2 DEF IInv, TypeOK
  <2>5. TypeOK'
    <3>1. asked' \subseteq Ifs \X Targets
      <4>1. <<i, target[w]>> \in Ifs \X Targets /\ asked \subseteq Ifs \X Targets
        BY <2>1 DEF IInv, TypeOK
      <4> QED
        BY <2>2, <4>1, Zenon
    <3>2. \A v \in Workers : wpc'[v] = "idle" <=> target'[v] = Nobody
      BY <2>1, <2>2, <2>3 DEF IInv, TypeOK
    <3>3. \A v \in Workers : IF wpc'[v] \in {"write", "read"} THEN \E j \in Ifs : current'[v] = {j}
                                                             ELSE current'[v] = {}
      BY <2>3, <2>4 DEF IInv, TypeOK
    <3>4. \A v \in Workers : wpc'[v] = "write" => current'[v] \subseteq todo'[v]
      BY <2>3, <2>4 DEF IInv, TypeOK
    <3>5. /\ target' \in [Workers -> Targets \cup {Nobody}] /\ expired' \in [Workers -> BOOLEAN]
          /\ heard' \in [Workers -> SUBSET Heard]
      BY <2>2 DEF IInv, TypeOK
    <3>6. rxq' \in [Ifs -> Seq(Targets)] /\ err' \subseteq Ifs
      BY <1>0, <2>2
    <3> QED
      BY <2>3, <2>4, <3>1, <3>2, <3>3, <3>4, <3>5, <3>6 DEF TypeOK
  <2>6. (AllAsked /\ FreshEvidence)'
    BY <2>2, <2>3, <2>4 DEF IInv, AllAsked, FreshEvidence
  <2>7. ASSUME NEW v \in Workers, Asking(v)'
        PROVE  /\ Asking(v) /\ target'[v] = target[v] /\ heard'[v] = heard[v]
               /\ \A j \in Ifs : Cleared(v, j)' => Cleared(v, j)
    BY <2>1, <2>2, <2>3, <2>4, <2>7 DEF Asking, Cleared
  <2>8. FreshBuffers'
    BY <2>2, <2>7, SameBuffers, BuffersShrink DEF IInv
  <2> QED
    BY <2>5, <2>6, <2>8 DEF IInv
<1>4. ASSUME NEW w \in Workers, NEW i \in Ifs, WriteFails(w, i) PROVE IInv'
  <2>1. /\ wpc[w] # "idle" /\ Return(w, "failed") /\ err' \subseteq Ifs /\ UNCHANGED <<rxq, asked>>
    BY <1>0, <1>4 DEF WriteFails
  <2> QED
    BY <1>0, <2>1, SameBuffers, Returned
<1>5. ASSUME NEW w \in Workers, Check(w) PROVE IInv'
  <2>1. wpc[w] = "check" /\ current[w] = {} /\ UNCHANGED <<rxq, err, asked>>
    BY <1>5 DEF Check, IInv, TypeOK
  <2>2. CASE Return(w, "timed out")
    BY <1>0, <2>1, <2>2, SameBuffers, Returned
  <2>3. CASE Goto(w, "epoll") /\ UNCHANGED <<target, todo, current, expired, heard>>
    <3>1. current' = [current EXCEPT ![w] = {}]
      BY <2>1, <2>3 DEF IInv, TypeOK
    <3> QED
      BY <1>0, <2>1, <2>3, <3>1, SameBuffers, WentOn DEF Waiting
  <2> QED
    BY <1>5, <2>2, <2>3 DEF Check
<1>6. ASSUME NEW w \in Workers, NEW i \in Ifs, EpollReady(w, i) PROVE IInv'
  <2>1. /\ Waiting(w) /\ current' = [current EXCEPT ![w] = {i}] /\ Goto(w, "read")
        /\ UNCHANGED <<target, todo, expired, rxq, err, asked, heard>>
    BY <1>6 DEF EpollReady, Waiting
  <2>2. {i} \in SUBSET Ifs
    OBVIOUS
  <2> QED
    BY <1>0, <2>1, <2>2, SameBuffers, WentOn
<1>7. ASSUME NEW w \in Workers,
             EpollNone(w) \/ EpollFails(w) \/ \E i \in Ifs : EpollBroken(w, i)
      PROVE  IInv'
  <2>1. /\ wpc[w] # "idle" /\ err' \subseteq Ifs /\ UNCHANGED <<rxq, asked>>
        /\ Return(w, "timed out") \/ Return(w, "failed")
    BY <1>0, <1>7 DEF EpollNone, EpollFails, EpollBroken
  <2> QED
    BY <1>0, <2>1, SameBuffers, Returned
<1>8. ASSUME NEW w \in Workers, NEW i \in Ifs, Read(w, i) PROVE IInv'
  <2>1. wpc[w] = "read" /\ todo[w] = {} /\ UNCHANGED asked
    BY <1>8 DEF Read, IInv, AllAsked
  <2>2. /\ rxq' \in [Ifs -> Seq(Targets)] /\ err' \subseteq Ifs
        /\ \A j \in Ifs : \A t : Buffered(j, t)' => Buffered(j, t)
    <3>1. CASE UNCHANGED rxq
      BY <1>0, <1>8, <3>1, SameBuffers DEF Read
    <3>2. CASE rxq[i] # <<>> /\ rxq' = [rxq EXCEPT ![i] = Tail(@)] /\ UNCHANGED err
      BY <1>0, <3>2, TakenOut DEF IInv
    <3> QED
      BY <1>8, <3>1, <3>2 DEF Read
  <2>3. CASE Return(w, "failed")
    BY <2>1, <2>2, <2>3, Returned
  <2>4. CASE GoRound(w)
    BY <2>1, <2>2, <2>4, WentOn DEF GoRound, Waiting
  <2>5. CASE i \notin err /\ rxq[i] # <<>> /\ rxq' = [rxq EXCEPT ![i] = Tail(@)]
             /\ Answers(w, Head(rxq[i])) /\ Return(w, "found")
    <3>1. Buffered(i, target[w])
      BY <2>5, TakenOut DEF Answers, IInv
    <3>2. heard[w] # {}
      BY <2>1, <3>1 DEF IInv, FreshBuffers, Asking, Cleared
    <3> QED
      BY <2>1, <2>2, <2>5, <3>2, Returned
  <2> QED
    BY <1>8, <2>3, <2>4, <2>5 DEF Read
<1>9. ASSUME NEW w \in Workers, Advertise(w) \/ GiveUp(w) PROVE IInv'
  <2>1. /\ wpc[w] \in {"found", "timed out", "failed"} /\ wpc' = [wpc EXCEPT ![w] = "idle"]
        /\ target' = [target EXCEPT ![w] = Nobody] /\ heard' = [heard EXCEPT ![w] = {}]
        /\ UNCHANGED <<todo, current, expired, rxq, err, asked>>
    BY <1>9 DEF Advertise, GiveUp, Finish, Goto
  <2>2. TypeOK'
    BY <2>1 DEF IInv, TypeOK, WorkerPC
  <2>3. (AllAsked /\ FreshEvidence)'
    BY <2>1 DEF IInv, TypeOK, AllAsked, FreshEvidence
  <2>4. ASSUME NEW v \in Workers, Asking(v)'
        PROVE  /\ Asking(v) /\ target'[v] = target[v] /\ heard'[v] = heard[v]
               /\ \A j \in Ifs : Cleared(v, j)' => Cleared(v, j)
    BY <2>1, <2>4 DEF IInv, TypeOK, Asking, Cleared
  <2>5. FreshBuffers'
    BY <2>1, <2>4, SameBuffers, BuffersShrink DEF IInv
  <2> QED
    BY <2>2, <2>3, <2>5 DEF IInv
<1>10. ASSUME NEW w \in Workers, TimeUp(w) PROVE IInv'
  <2>1. TypeOK'
    BY <1>10 DEF TimeUp, IInv, TypeOK
  <2>2. (AllAsked /\ FreshBuffers /\ FreshEvidence)'
    BY <1>10 DEF TimeUp, IInv, AllAsked, FreshBuffers, FreshEvidence, Asking, Cleared, Buffered
  <2> QED
    BY <2>1, <2>2 DEF IInv
<1>11. ASSUME NEW i \in Ifs, NEW t \in Targets, Answer(i, t) PROVE IInv'
  <2>1. /\ rxq[i] \in Seq(Targets) /\ rxq'[i] = Append(rxq[i], t)
        /\ \A j \in Ifs : j # i => rxq'[j] = rxq[j]
        /\ rxq' \in [Ifs -> Seq(Targets)]
    <3>1. rxq \in [Ifs -> Seq(Targets)] /\ rxq' = [rxq EXCEPT ![i] = Append(@, t)]
      BY <1>11 DEF Answer, IInv, TypeOK
    <3>2. /\ rxq[i] \in Seq(Targets) /\ rxq'[i] = Append(rxq[i], t)
          /\ \A j \in Ifs : j # i => rxq'[j] = rxq[j]
      BY <3>1, Zenon
    <3>3. \A j \in Ifs : rxq'[j] \in Seq(Targets)
      BY <3>1, <3>2
    <3> QED
      BY <3>1, <3>2, <3>3
  <2>2. \A v \in Workers : Seen(v, i) \subseteq Heard /\ (Cleared(v, i) => Seen(v, i) # {})
    BY DEF Seen, Heard, Cleared
  <2>3. /\ heard' \in [Workers -> SUBSET Heard]
        /\ \A v \in Workers : /\ heard[v] \subseteq heard'[v]
                              /\ target[v] = t /\ Cleared(v, i) => heard'[v] # {}
        /\ UNCHANGED <<wpc, target, todo, current, expired, err>>
        /\ asked' \subseteq asked
    <3>1. heard' = [v \in Workers |-> IF target[v] = t THEN heard[v] \cup Seen(v, i) ELSE heard[v]]
      BY <1>11 DEF Answer
    <3>2. heard \in [Workers -> SUBSET Heard]
      BY DEF IInv, TypeOK
    <3>3. \A v \in Workers : heard'[v] = IF target[v] = t THEN heard[v] \cup Seen(v, i) ELSE heard[v]
      BY <3>1
    <3>4. \A v \in Workers : heard'[v] \subseteq Heard /\ heard[v] \subseteq heard'[v]
                             /\ (target[v] = t /\ Cleared(v, i) => heard'[v] # {})
      BY <2>2, <3>2, <3>3
    <3> QED
      BY <1>11, <3>1, <3>4 DEF Answer
  <2>4. TypeOK'
    BY <2>1, <2>3 DEF IInv, TypeOK
  <2>5. (AllAsked /\ FreshEvidence)'
    BY <2>3 DEF IInv, AllAsked, FreshEvidence
  <2>6. ASSUME NEW v \in Workers, NEW j \in Ifs,
               Asking(v)', Cleared(v, j)', Buffered(j, target[v])'
        PROVE  heard'[v] # {}
    <3>0. Asking(v) /\ Cleared(v, j)
      BY <2>3, <2>6 DEF Asking, Cleared
    <3>1. CASE Buffered(j, target[v])
      BY <2>3, <3>0, <3>1 DEF IInv, FreshBuffers
    <3>2. CASE ~ Buffered(j, target[v])
      <4>1. PICK k \in 1 .. Len(rxq'[j]) : rxq'[j][k] = target[v]
        BY <2>3, <2>6 DEF Buffered
      <4>2. j = i
        BY <2>1, <3>2, <4>1 DEF Buffered
      <4>3. k = Len(rxq[i]) + 1 /\ rxq'[i][k] = t
        BY <2>1, <3>2, <4>1, <4>2 DEF Buffered
      <4> QED
        BY <2>3, <3>0, <4>1, <4>2, <4>3
    <3> QED
      BY <3>1, <3>2
  <2> QED
    BY <2>4, <2>5, <2>6 DEF IInv, FreshBuffers
<1>12. ASSUME NEW i \in Ifs, LinkError(i) \/ \E t \in Targets : NoAnswer(i, t) PROVE IInv'
  <2>1. TypeOK'
    BY <1>12 DEF LinkError, NoAnswer, IInv, TypeOK
  <2>2. (AllAsked /\ FreshBuffers /\ FreshEvidence)'
    BY <1>12 DEF LinkError, NoAnswer, IInv, AllAsked, FreshBuffers, FreshEvidence, Asking, Cleared, Buffered
  <2> QED
    BY <2>1, <2>2 DEF IInv
<1>13. CASE UNCHANGED vars
  <2>1. TypeOK'
    BY <1>13 DEF vars, IInv, TypeOK
  <2>2. (AllAsked /\ FreshBuffers /\ FreshEvidence)'
    BY <1>13 DEF vars, IInv, AllAsked, FreshBuffers, FreshEvidence, Asking, Cleared, Buffered
  <2> QED
    BY <2>1, <2>2 DEF IInv
<1> QED
  BY <1>1, <1>2, <1>3, <1>4, <1>5, <1>6, <1>7, <1>8, <1>9, <1>10, <1>11, <1>12, <1>13
     DEF Next, Environment, Worker

LEMMA Invariant == Spec => []IInv
BY InitInv, NextInv, PTL DEF Spec

\* The goroutines' variables, the buffers and the wire stay within their types.
THEOREM TypeCorrect == Spec => []TypeOK
BY Invariant, PTL DEF IInv

\* An answer that a goroutine accepts came in after that goroutine had flushed the socket, unless
\* an error of the socket cut the flush off.
THEOREM AcceptsFreshAnswers == Spec => []FreshEvidence
BY Invariant, PTL DEF IInv
-----------------------------------------------------------------------------
(* Where an answer goes                                                     *)

\* Reading one advertisement leaves the later ones in the buffer.
LEMMA TailKeeps ==
  ASSUME NEW S, NEW s \in Seq(S), s # <<>>, NEW j \in 1 .. Len(s), s[j] # Head(s)
  PROVE  \E m \in 1 .. Len(Tail(s)) : Tail(s)[m] = s[j]
<1>1. j # 1 /\ j \in Nat /\ Len(Tail(s)) = Len(s) - 1
  OBVIOUS
<1>2. j - 1 \in 1 .. Len(Tail(s)) /\ Tail(s)[j - 1] = s[j]
  BY <1>1
<1> QED
  BY <1>2

\* A buffer changes only where it is flushed, read or added to.
LEMMA LostByStep ==
  ASSUME TypeOK, Next, NEW w \in Workers, NEW i \in Ifs,
         Waiting(w), Buffered(i, target[w]), ~ Buffered(i, target[w])'
  PROVE  wpc'[w] = "found" \/ \E v \in Workers \ {w} : Takes(v)
<1>0. /\ wpc \in [Workers -> WorkerPC]
      /\ rxq \in [Ifs -> Seq(Targets)] /\ target \in [Workers -> Targets \cup {Nobody}]
      /\ wpc[w] \in {"check", "epoll", "read"}
  BY DEF TypeOK, Waiting
<1>1. ASSUME NEW v \in Workers, NEW j \in Ifs, Flush(v, j)
      PROVE  v # w /\ Takes(v)
  BY <1>0, <1>1 DEF Flush, Goto, Takes
<1>2. ASSUME NEW v \in Workers, NEW j \in Ifs, Read(v, j)
      PROVE  wpc'[w] = "found" \/ (v # w /\ Takes(v))
  <2>1. wpc[v] = "read" /\ wpc'[v] \in {"failed", "check", "found"} /\ UNCHANGED target
    BY <1>0, <1>2 DEF Read, Goto, Return, GoRound
  <2>2. CASE v # w
    BY <2>1, <2>2 DEF Takes
  <2>3. CASE v = w /\ UNCHANGED rxq
    BY <2>1, <2>3 DEF Buffered
  <2>4. CASE /\ v = w /\ rxq[j] # <<>> /\ rxq' = [rxq EXCEPT ![j] = Tail(@)]
             /\ IF Answers(w, Head(rxq[j])) THEN Return(w, "found") ELSE GoRound(w)
    <3>1. CASE Head(rxq[j]) = target[w]
      BY <1>0, <2>4, <3>1 DEF Return, Goto, Answers
    <3>2. CASE Head(rxq[j]) # target[w]
      <4>1. j = i
        BY <1>0, <2>1, <2>4 DEF Buffered
      <4>2. PICK m \in 1 .. Len(rxq[i]) : rxq[i][m] = target[w]
        BY DEF Buffered
      <4>3. \E m2 \in 1 .. Len(Tail(rxq[i])) : Tail(rxq[i])[m2] = target[w]
        BY <1>0, <2>4, <3>2, <4>1, <4>2, TailKeeps
      <4> QED
        BY <1>0, <2>1, <2>4, <4>1, <4>3 DEF Buffered
    <3> QED
      BY <3>1, <3>2
  <2> QED
    BY <1>2, <2>2, <2>3, <2>4 DEF Read
<1>3. ASSUME NEW j \in Ifs, NEW t \in Targets, Answer(j, t)
      PROVE  FALSE
  <2>1. rxq' = [rxq EXCEPT ![j] = Append(@, t)] /\ UNCHANGED target
    BY <1>3 DEF Answer
  <2>2. PICK m \in 1 .. Len(rxq[i]) : rxq[i][m] = target[w]
    BY DEF Buffered
  <2>3. m \in 1 .. Len(rxq'[i]) /\ rxq'[i][m] = target[w]
    BY <1>0, <2>1, <2>2
  <2> QED
    BY <2>1, <2>3 DEF Buffered
<1>4. ASSUME NEW v \in Workers, NEW t \in Targets, Solicited(v, t) PROVE FALSE
  BY <1>0, <1>4 DEF Solicited, Buffered
<1>5. ASSUME NEW v \in Workers, Advertise(v) \/ GiveUp(v) PROVE FALSE
  BY <1>0, <1>5 DEF Advertise, GiveUp, Finish, Buffered
<1>6. CASE UNCHANGED <<rxq, target>>
  BY <1>6 DEF Buffered
<1>7. ASSUME NEW v \in Workers, NEW j \in Ifs,
             WriteNS(v, j) \/ WriteFails(v, j) \/ EpollReady(v, j) \/ EpollBroken(v, j)
      PROVE  UNCHANGED <<rxq, target>>
  BY <1>7 DEF WriteNS, WriteFails, EpollReady, EpollBroken, Return
<1>8. ASSUME NEW v \in Workers, Check(v) \/ EpollNone(v) \/ EpollFails(v) \/ TimeUp(v)
      PROVE  UNCHANGED <<rxq, target>>
  BY <1>8 DEF Check, EpollNone, EpollFails, TimeUp, Return
<1>9. ASSUME NEW j \in Ifs, LinkError(j) \/ \E t \in Targets : NoAnswer(j, t)
      PROVE  UNCHANGED <<rxq, target>>
  BY <1>9 DEF LinkError, NoAnswer
<1> QED
  BY <1>1, <1>2, <1>3, <1>4, <1>5, <1>6, <1>7, <1>8, <1>9 DEF Next, Environment, Worker

\* A step of another goroutine, or of none, leaves a goroutine's place alone.
LEMMA OthersLeave ==
  ASSUME TypeOK, NEW v \in Workers, NEW w \in Workers, v # w,
         Worker(v) \/ \E t \in Targets : Solicited(v, t)
  PROVE  wpc'[w] = wpc[w] /\ todo'[w] = todo[w]
<1>0. wpc \in [Workers -> WorkerPC] /\ todo \in [Workers -> SUBSET Ifs]
  BY DEF TypeOK
<1>1. ASSUME NEW i \in Ifs, Flush(v, i) \/ WriteNS(v, i) \/ WriteFails(v, i)
      PROVE  wpc'[w] = wpc[w] /\ todo'[w] = todo[w]
  BY <1>0, <1>1 DEF Flush, WriteNS, WriteFails, Return, Goto
<1>2. ASSUME NEW i \in Ifs, EpollReady(v, i) \/ EpollBroken(v, i) \/ Read(v, i)
      PROVE  wpc'[w] = wpc[w] /\ todo'[w] = todo[w]
  BY <1>0, <1>2 DEF EpollReady, EpollBroken, Read, Return, GoRound, Goto
<1>3. CASE Check(v) \/ EpollNone(v) \/ EpollFails(v)
  BY <1>0, <1>3 DEF Check, EpollNone, EpollFails, Return, Goto
<1>4. CASE Advertise(v) \/ GiveUp(v) \/ \E t \in Targets : Solicited(v, t)
  BY <1>0, <1>4 DEF Advertise, GiveUp, Finish, Solicited, Goto
<1> QED
  BY <1>1, <1>2, <1>3, <1>4 DEF Worker

LEMMA WorldLeaves ==
  ASSUME \/ \E w \in Workers : TimeUp(w)
         \/ \E i \in Ifs : LinkError(i) \/ \E t \in Targets : Answer(i, t) \/ NoAnswer(i, t)
  PROVE  UNCHANGED <<wpc, todo>>
BY DEF TimeUp, LinkError, Answer, NoAnswer

\* A goroutine that waits gives up only for these reasons.
LEMMA GivesUp ==
  ASSUME TypeOK, Next, NEW w \in Workers, Waiting(w)
  PROVE  /\ wpc'[w] = "timed out" => expired[w] \/ err = Ifs
         /\ wpc'[w] = "failed" => wpc[w] = "epoll" \/ current[w] \cap err # {}
<1>0. /\ wpc \in [Workers -> WorkerPC] /\ todo \in [Workers -> SUBSET Ifs]
      /\ wpc[w] \in {"check", "epoll", "read"}
  BY DEF TypeOK, Waiting
<1>1. CASE UNCHANGED wpc
  BY <1>0, <1>1
<1>2. ASSUME NEW v \in Workers, v # w, Worker(v) \/ \E t \in Targets : Solicited(v, t)
      PROVE  wpc'[w] = wpc[w]
  BY <1>2, OthersLeave
<1>3. \A t \in Targets : ~ Solicited(w, t)
  BY <1>0 DEF Solicited
<1>4. ASSUME NEW i \in Ifs, Read(w, i)
      PROVE  wpc'[w] \in {"check", "found"} \/ (wpc'[w] = "failed" /\ i \in current[w] \cap err)
  BY <1>0, <1>4 DEF Read, Return, GoRound, Goto
<1>5. ASSUME NEW i \in Ifs, EpollReady(w, i) \/ EpollBroken(w, i)
      PROVE  wpc[w] = "epoll" /\ wpc'[w] \in {"read", "failed"}
  BY <1>0, <1>5 DEF EpollReady, EpollBroken, Return, Goto
<1>6. ASSUME NEW i \in Ifs, Flush(w, i) \/ WriteNS(w, i) \/ WriteFails(w, i) PROVE FALSE
  BY <1>0, <1>6 DEF Flush, WriteNS, WriteFails
<1>7. CASE Check(w)
  BY <1>0, <1>7 DEF Check, Return, Goto
<1>8. CASE EpollNone(w) \/ EpollFails(w)
  BY <1>0, <1>8 DEF EpollNone, EpollFails, Return, Goto
<1>9. CASE Advertise(w) \/ GiveUp(w)
  BY <1>0, <1>9 DEF Advertise, GiveUp
<1>10. CASE Worker(w)
  BY <1>0, <1>4, <1>5, <1>6, <1>7, <1>8, <1>9, <1>10 DEF Worker
<1>11. CASE \E v \in Workers : Worker(v)
  BY <1>0, <1>2, <1>10, <1>11
<1>12. CASE Environment
  BY <1>0, <1>1, <1>2, <1>3, <1>12, WorldLeaves DEF Environment
<1> QED
  BY <1>11, <1>12 DEF Next

\* With any number of goroutines and interfaces, an answer a goroutine waits for leaves the
\* buffer only when it reads it and believes it, or when another goroutine flushes or reads;
\* and the goroutine turns away from an answer that is there only when its time is up, no
\* socket works, epollOnce fails or the socket it reads has an error.
THEOREM NotMissed == Spec => AnswerNotMissed
<1>1. TypeOK /\ [Next]_vars =>
       [\A w \in Workers, i \in Ifs :
       Waiting(w) /\ Buffered(i, target[w]) =>
         /\ ~ Buffered(i, target[w])' =>
              wpc'[w] = "found" \/ \E v \in Workers \ {w} : Takes(v)
         /\ wpc'[w] = "timed out" => expired[w] \/ err = Ifs
         /\ wpc'[w] = "failed" => wpc[w] = "epoll" \/ current[w] \cap err # {}]_vars
  BY LostByStep, GivesUp
<1> QED
  BY <1>1, TypeCorrect, PTL DEF Spec, AnswerNotMissed

-----------------------------------------------------------------------------
(* What liveness rests on                                                   *)

\* A goroutine that is to flush has a socket left to solicit through.
SocketLeft == \A w \in Workers : wpc[w] = "flush" => todo[w] # {}

LEMMA SocketLeftInv == Spec => []SocketLeft
<1>1. Init => SocketLeft
  BY DEF Init, SocketLeft
<1>2. TypeOK /\ SocketLeft /\ [Next]_vars => SocketLeft'
  <2> SUFFICES ASSUME TypeOK, SocketLeft, [Next]_vars, NEW v \in Workers, wpc'[v] = "flush"
               PROVE  todo'[v] # {}
    BY DEF SocketLeft
  <2>0. wpc \in [Workers -> WorkerPC] /\ todo \in [Workers -> SUBSET Ifs]
    BY DEF TypeOK
  <2>1. CASE UNCHANGED <<wpc, todo>>
    BY <2>1 DEF SocketLeft
  <2>2. ASSUME NEW w \in Workers, v # w, Worker(w) \/ \E t \in Targets : Solicited(w, t)
        PROVE  todo'[v] # {}
    BY <2>2, OthersLeave DEF SocketLeft
  <2>3. ASSUME NEW t \in Targets, Solicited(v, t) PROVE todo'[v] # {}
    BY <2>0, <2>3, NDProxyAssumption DEF Solicited
  <2>4. ASSUME NEW i \in Ifs, WriteNS(v, i) PROVE todo'[v] # {}
    <3>1. i \in todo[v]
      BY <2>4 DEF WriteNS, TypeOK
    <3>2. todo[v] # {i}
      BY <2>0, <2>4 DEF WriteNS, Goto
    <3> QED
      BY <2>0, <2>4, <3>1, <3>2 DEF WriteNS
  <2>5. ASSUME NEW i \in Ifs,
               \/ Flush(v, i) \/ WriteFails(v, i)
               \/ EpollReady(v, i) \/ EpollBroken(v, i) \/ Read(v, i)
        PROVE  FALSE
    BY <2>0, <2>5 DEF Flush, WriteFails, EpollReady, EpollBroken, Read, Return, GoRound, Goto
  <2>6. CASE Check(v) \/ EpollNone(v) \/ EpollFails(v) \/ Advertise(v) \/ GiveUp(v)
    BY <2>0, <2>6 DEF Check, EpollNone, EpollFails, Advertise, GiveUp, Finish, Return, Goto
  <2>7. CASE Worker(v)
    BY <2>4, <2>5, <2>6, <2>7 DEF Worker
  <2>8. CASE \E w \in Workers : Worker(w)
    BY <2>2, <2>7, <2>8
  <2>9. CASE Environment
    BY <2>1, <2>2, <2>3, <2>9, WorldLeaves DEF Environment
  <2> QED
    BY <2>1, <2>8, <2>9 DEF Next, vars
<1> QED
  BY <1>1, <1>2, TypeCorrect, PTL DEF Spec

\* The condition of one of its steps: TimeUp, Flush, WriteFails, Check, EpollNone, Read,
\* Advertise, GiveUp.
CanGoOn(w) ==
  \/ Waiting(w) /\ ~ expired[w]
  \/ wpc[w] = "flush" /\ \E i \in Ifs : i \in todo[w]
  \/ wpc[w] = "write" /\ \E i \in Ifs : i \in current[w]
  \/ wpc[w] = "check"
  \/ wpc[w] = "epoll" /\ expired[w]
  \/ wpc[w] = "read" /\ \E i \in Ifs : i \in current[w]
  \/ wpc[w] \in {"found", "timed out", "failed"}

\* A goroutine is never stuck: whatever the others have taken from the sockets, it has a step to
\* take or its time still runs.
THEOREM NeverStuck == Spec => [](\A w \in Workers : wpc[w] # "idle" => CanGoOn(w))
<1>1. TypeOK /\ SocketLeft => \A w \in Workers : wpc[w] # "idle" => CanGoOn(w)
  <2> SUFFICES ASSUME TypeOK, SocketLeft, NEW w \in Workers, wpc[w] # "idle" PROVE CanGoOn(w)
    OBVIOUS
  <2>1. /\ wpc[w] \in WorkerPC /\ todo[w] \in SUBSET Ifs
        /\ wpc[w] \in {"write", "read"} => \E i \in Ifs : i \in current[w]
        /\ wpc[w] = "flush" => \E i \in Ifs : i \in todo[w]
    BY DEF TypeOK, SocketLeft
  <2> QED
    BY <2>1 DEF CanGoOn, Waiting, WorkerPC
<1> QED
  BY <1>1, TypeCorrect, SocketLeftInv, PTL

\* How many steps a goroutine whose time is up is from its end, at most.
Left(l, socks) ==
  CASE l = "flush" -> 4 + 2 * Cardinality(socks)
    [] l = "write" -> 3 + 2 * Cardinality(socks)
    [] l = "epoll" -> 4
    [] l = "read" -> 3
    [] l = "check" -> 2
    [] l = "idle" -> 0
    [] OTHER -> 1

LEMMA LeftValues ==
  \A S : /\ Left("idle", S) = 0 /\ Left("found", S) = 1
         /\ Left("timed out", S) = 1 /\ Left("failed", S) = 1
         /\ Left("check", S) = 2 /\ Left("read", S) = 3 /\ Left("epoll", S) = 4
BY DEF Left

LEMMA LeftSending ==
  \A S : /\ Left("write", S) = 3 + 2 * Cardinality(S)
         /\ Left("flush", S) = 4 + 2 * Cardinality(S)
BY DEF Left

\* A step that leaves w where it is, or takes it nearer to its end.
Nearer(w) ==
  \/ wpc'[w] = wpc[w] /\ todo'[w] = todo[w]
  \/ Left(wpc'[w], todo'[w]) < Left(wpc[w], todo[w])

\* Once its time is up, and while it sends, every step of a goroutine is one of a bounded number,
\* whatever arrives meanwhile, and nobody sets it back.
THEOREM EndsInTime ==
  Spec => [][\A w \in Workers : wpc[w] # "idle" /\ (Waiting(w) => expired[w]) => Nearer(w)]_vars
<1>1. TypeOK /\ [Next]_vars =>
        [\A w \in Workers : wpc[w] # "idle" /\ (Waiting(w) => expired[w]) => Nearer(w)]_vars
  <2> SUFFICES ASSUME TypeOK, [Next]_vars, NEW v \in Workers,
                      wpc[v] # "idle", Waiting(v) => expired[v]
               PROVE  Nearer(v)
    OBVIOUS
  <2>0. /\ wpc \in [Workers -> WorkerPC] /\ todo \in [Workers -> SUBSET Ifs]
        /\ wpc[v] # "idle" /\ (Waiting(v) => expired[v])
        /\ wpc[v] = "write" => current[v] \subseteq todo[v]
    BY DEF TypeOK
  <2>1. /\ IsFiniteSet(todo[v]) /\ Cardinality(todo[v]) \in Nat
        /\ \A i \in todo[v] : Cardinality(todo[v] \ {i}) = Cardinality(todo[v]) - 1
    BY <2>0, NDProxyAssumption, FS_Subset, FS_CardinalityType, FS_RemoveElement
  <2>2. CASE UNCHANGED <<wpc, todo>>
    BY <2>2 DEF Nearer
  <2>3. ASSUME NEW i \in Ifs, Flush(v, i) PROVE Nearer(v)
    <3>1. wpc[v] = "flush" /\ wpc'[v] = "write" /\ todo'[v] = todo[v]
      BY <2>0, <2>3 DEF Flush, Goto
    <3> QED
      BY <2>1, <3>1, LeftSending DEF Nearer
  <2>4. ASSUME NEW i \in Ifs, WriteNS(v, i) PROVE Nearer(v)
    <3>1. wpc[v] = "write" /\ i \in todo[v] /\ wpc'[v] \in {"check", "flush"} /\ todo'[v] = todo[v] \ {i}
      BY <2>0, <2>4 DEF Goto, WriteNS
    <3>2. Cardinality(todo'[v]) = Cardinality(todo[v]) - 1
      BY <2>1, <3>1
    <3>3. Left(wpc[v], todo[v]) = 3 + 2 * Cardinality(todo[v])
      BY <3>1, LeftSending
    <3>4. Left(wpc'[v], todo'[v]) = 2 \/ Left(wpc'[v], todo'[v]) = 4 + 2 * Cardinality(todo'[v])
      BY <3>1, LeftValues, LeftSending
    <3> QED
      BY <2>1, <3>2, <3>3, <3>4 DEF Nearer
  <2>5. ASSUME NEW i \in Ifs, WriteFails(v, i) PROVE Nearer(v)
    <3>1. wpc[v] = "write" /\ wpc'[v] = "failed"
      BY <2>0, <2>5 DEF Goto, Return, WriteFails
    <3>2. Left(wpc[v], todo[v]) = 3 + 2 * Cardinality(todo[v]) /\ Left(wpc'[v], todo'[v]) = 1
      BY <3>1, LeftValues, LeftSending
    <3> QED
      BY <2>1, <3>2 DEF Nearer
  <2>6. ASSUME NEW i \in Ifs, EpollReady(v, i) \/ EpollBroken(v, i) \/ Read(v, i) PROVE Nearer(v)
    <3>1. \/ wpc[v] = "epoll" /\ wpc'[v] \in {"read", "failed"}
          \/ wpc[v] = "read" /\ wpc'[v] \in {"failed", "check", "found"}
      BY <2>0, <2>6 DEF Goto, Return, GoRound, EpollReady, EpollBroken, Read
    <3>2. \/ Left(wpc[v], todo[v]) = 4 /\ Left(wpc'[v], todo'[v]) \in {1, 3}
          \/ Left(wpc[v], todo[v]) = 3 /\ Left(wpc'[v], todo'[v]) \in {1, 2}
      BY <3>1, LeftValues
    <3> QED
      BY <3>2 DEF Nearer
  <2>7. CASE Check(v) \/ EpollNone(v) \/ EpollFails(v)
    <3>1. wpc[v] \in {"check", "epoll"} /\ wpc'[v] \in {"timed out", "failed"}
      BY <2>0, <2>7 DEF Goto, Return, Check, EpollNone, EpollFails, Waiting
    <3>2. Left(wpc[v], todo[v]) \in {2, 4} /\ Left(wpc'[v], todo'[v]) = 1
      BY <3>1, LeftValues
    <3> QED
      BY <3>2 DEF Nearer
  <2>8. CASE Advertise(v) \/ GiveUp(v)
    <3>1. wpc[v] \in {"found", "timed out", "failed"} /\ wpc'[v] = "idle"
      BY <2>0, <2>8 DEF Goto, Advertise, GiveUp, Finish
    <3>2. Left(wpc[v], todo[v]) = 1 /\ Left(wpc'[v], todo'[v]) = 0
      BY <3>1, LeftValues
    <3> QED
      BY <3>2 DEF Nearer
  <2>9. ASSUME NEW w \in Workers, w # v, Worker(w) \/ \E t \in Targets : Solicited(w, t)
        PROVE  Nearer(v)
    BY <2>9, OthersLeave DEF Nearer
  <2>10. \A t \in Targets : ~ Solicited(v, t)
    BY <2>0 DEF Solicited
  <2>11. Worker(v) => Nearer(v)
    BY <2>3, <2>4, <2>5, <2>6, <2>7, <2>8 DEF Worker
  <2>12. CASE Environment
    BY <2>2, <2>9, <2>10, <2>12, WorldLeaves DEF Environment
  <2>13. CASE \E w \in Workers : Worker(w)
    BY <2>9, <2>11, <2>13
  <2>14. CASE UNCHANGED vars
    BY <2>2, <2>14 DEF vars
  <2> QED
    BY <2>12, <2>13, <2>14 DEF Next
<1> QED
  BY <1>1, TypeCorrect, PTL DEF Spec
=============================================================================
