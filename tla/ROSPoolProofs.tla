--------------------------- MODULE ROSPoolProofs ---------------------------
(***************************************************************************)
(* Proofs about ROSPool, for any number of callers and connections.        *)
(*                                                                         *)
(* TypeOK is inductive.  Exclusive use is not: that a pooled connection is *)
(* idle has to be carried through every place it passes until it is back,  *)
(* which is what Custody says.                                             *)
(***************************************************************************)
EXTENDS ROSPool, TLAPS, SequenceTheorems, FiniteSetTheorems

-----------------------------------------------------------------------------
(* The four things done to pool.cs.                                         *)

\* Put: append at the end.
LEMMA AppendElems ==
  ASSUME NEW S, NEW s \in Seq(S), NEW c \in S
  PROVE  /\ Append(s, c) \in Seq(S)
         /\ Elems(Append(s, c)) = Elems(s) \cup {c}
         /\ NoDuplicates(s) /\ c \notin Elems(s) => NoDuplicates(Append(s, c))
  BY DEF Elems, NoDuplicates

\* The keepalive: put in front of the others.
LEMMA PrependElems ==
  ASSUME NEW S, NEW s \in Seq(S), NEW c \in S
  PROVE  /\ <<c>> \o s \in Seq(S)
         /\ Elems(<<c>> \o s) = Elems(s) \cup {c}
         /\ NoDuplicates(s) /\ c \notin Elems(s) => NoDuplicates(<<c>> \o s)
<1> DEFINE t == <<c>> \o s
<1>1. /\ t \in Seq(S)
      /\ Len(t) = Len(s) + 1 /\ Len(s) \in Nat
      /\ t[1] = c
      /\ \A i \in 1 .. Len(s) : t[i + 1] = s[i]
      /\ \A i \in 2 .. Len(t) : i - 1 \in 1 .. Len(s) /\ t[i] = s[i - 1]
  OBVIOUS
<1> HIDE DEF t
<1>2. Elems(t) \subseteq Elems(s) \cup {c}
  <2> SUFFICES ASSUME NEW i \in 1 .. Len(t) PROVE t[i] \in Elems(s) \cup {c}
    BY DEF Elems
  <2>1. CASE i = 1
    BY <1>1, <2>1
  <2>2. CASE i \in 2 .. Len(t)
    BY <1>1, <2>2 DEF Elems
  <2> QED
    BY <1>1, <2>1, <2>2
<1>3. Elems(s) \cup {c} \subseteq Elems(t)
  <2>1. \A i \in 1 .. Len(s) : i + 1 \in 1 .. Len(t) /\ t[i + 1] = s[i]
    BY <1>1
  <2>2. 1 \in 1 .. Len(t) /\ t[1] = c
    BY <1>1
  <2> QED
    BY <2>1, <2>2 DEF Elems
<1>4. ASSUME NoDuplicates(s), c \notin Elems(s)
      PROVE  NoDuplicates(t)
  <2> SUFFICES ASSUME NEW i \in 1 .. Len(t), NEW j \in 1 .. Len(t), t[i] = t[j]
               PROVE  i = j
    BY DEF NoDuplicates
  <2>1. \A k \in 2 .. Len(t) : t[k] # c
    BY <1>1, <1>4 DEF Elems
  <2>2. CASE i = 1 \/ j = 1
    BY <1>1, <2>1, <2>2
  <2>3. CASE i # 1 /\ j # 1
    BY <1>1, <1>4, <2>3 DEF NoDuplicates
  <2> QED
    BY <2>2, <2>3
<1> QED
  BY <1>1, <1>2, <1>3, <1>4 DEF t

\* Get: take the first.
LEMMA TailElems ==
  ASSUME NEW S, NEW s \in Seq(S), s # <<>>
  PROVE  /\ Tail(s) \in Seq(S)
         /\ Head(s) \in Elems(s) /\ Head(s) \in S
         /\ Elems(Tail(s)) \subseteq Elems(s)
         /\ NoDuplicates(s) => /\ NoDuplicates(Tail(s))
                               /\ Elems(Tail(s)) = Elems(s) \ {Head(s)}
  BY DEF Elems, NoDuplicates

\* The keepalive: take the last.
LEMMA FrontElems ==
  ASSUME NEW S, NEW s \in Seq(S), s # <<>>
  PROVE  LET f == SubSeq(s, 1, Len(s) - 1)
             l == s[Len(s)]
         IN  /\ f \in Seq(S)
             /\ l \in Elems(s) /\ l \in S
             /\ Elems(f) \subseteq Elems(s)
             /\ NoDuplicates(s) => /\ NoDuplicates(f)
                                   /\ Elems(f) = Elems(s) \ {l}
  BY DEF Elems, NoDuplicates

-----------------------------------------------------------------------------
(* Types                                                                    *)

LEMMA ProcsFacts ==
  /\ KeepAlive \in Procs
  /\ Callers \subseteq Procs
  /\ KeepAlive \notin Callers
BY PoolAssumption DEF Procs

\* Where a goroutine is says whether it holds a connection, and the keepalive counts at
\* least one once it has left its critical section.
Located ==
  /\ \A p \in Procs : held[p] = NoConn <=> pc[p] \in {"idle", "dialing", "pick", "sleep"}
  /\ pc[KeepAlive] # "pick" => count > 0

Typed == TypeOK /\ Located

LEMMA TypedStep == Typed /\ [Next]_vars => Typed'
<1> SUFFICES ASSUME Typed, [Next]_vars PROVE Typed'
  OBVIOUS
<1> USE ProcsFacts, PoolAssumption
    DEF Typed, TypeOK, Located, CallerPC, KeepAlivePC, Goto, Start, Release
<1>1. ASSUME NEW p \in Callers, GetPooled(p) PROVE Typed'
  BY <1>1, TailElems DEF GetPooled
<1>2. ASSUME NEW p \in Callers, GetEmpty(p) PROVE Typed'
  BY <1>2 DEF GetEmpty
<1>3. ASSUME NEW p \in Callers, Dialed(p) PROVE Typed'
  BY <1>3 DEF Dialed
<1>4. ASSUME NEW p \in Callers, DialFailed(p) PROVE Typed'
  BY <1>4 DEF DialFailed
<1>5. ASSUME NEW p \in Procs, EnterSelect(p) PROVE Typed'
  BY <1>5 DEF EnterSelect
<1>6. ASSUME NEW p \in Callers, Reply(p) PROVE Typed'
  BY <1>6 DEF Reply
<1>7. ASSUME NEW p \in Procs, ReplyDropped(p) PROVE Typed'
  BY <1>7 DEF ReplyDropped
<1>8. ASSUME NEW p \in Callers, Put(p) PROVE Typed'
  <2>1. held[p] \in Conns
    BY <1>8 DEF Put
  <2> QED
    BY <1>8, <2>1, AppendElems DEF Put
<1>9. ASSUME NEW p \in Callers, Timeout(p) PROVE Typed'
  BY <1>9 DEF Timeout
<1>10. CASE KeepAliveNothing
  BY <1>10 DEF KeepAliveNothing
<1>11. CASE KeepAlivePick
  <2>1. /\ cs' \in Seq(Conns) /\ cs[Len(cs)] \in Conns
        /\ Len(cs) \in Nat /\ Len(cs) > 0
    BY <1>11, FrontElems DEF KeepAlivePick
  <2> QED
    BY <1>11, <2>1 DEF KeepAlivePick
<1>12. ASSUME NEW good \in BOOLEAN, KeepAliveReply(good) PROVE Typed'
  BY <1>12 DEF KeepAliveReply
<1>13. CASE KeepAliveNilReply
  BY <1>13 DEF KeepAliveNilReply
<1>14. CASE KeepAliveTimeout
  BY <1>14 DEF KeepAliveTimeout
<1>15. CASE KeepAliveKeep
  <2>1. held[KeepAlive] \in Conns
    BY <1>15 DEF KeepAliveKeep
  <2>2. cs' \in Seq(Conns)
    BY <1>15, <2>1, PrependElems DEF KeepAliveKeep, PushBack
  <2> QED
    BY <1>15, <2>2 DEF KeepAliveKeep
<1>16. CASE KeepAliveDiscard
  BY <1>16 DEF KeepAliveDiscard, CountAfterDiscard
<1>17. CASE KeepAliveDialed
  BY <1>17 DEF KeepAliveDialed
<1>18. CASE KeepAliveDialFailed
  BY <1>18 DEF KeepAliveDialFailed
<1>19. CASE KeepAliveWake
  BY <1>19 DEF KeepAliveWake
<1>20. ASSUME NEW p \in Procs, NEW c \in Conns, AbandonedReply(p, c) PROVE Typed'
  BY <1>20 DEF AbandonedReply
<1>21. ASSUME NEW c \in Conns, Break(c) PROVE Typed'
  BY <1>21 DEF Break
<1>22. ASSUME NEW c \in Conns, Finalize(c) PROVE Typed'
  BY <1>22 DEF Finalize
<1>23. CASE UNCHANGED vars
  BY <1>23 DEF vars
<1> HIDE DEF Typed
<1> QED
  BY <1>1, <1>2, <1>3, <1>4, <1>5, <1>6, <1>7, <1>8, <1>9, <1>10, <1>11, <1>12, <1>13,
     <1>14, <1>15, <1>16, <1>17, <1>18, <1>19, <1>20, <1>21, <1>22, <1>23
     DEF Next, Caller, KeepAliveStep

LEMMA TypedInit == Init => Typed
BY ProcsFacts DEF Init, Typed, TypeOK, Located, CallerPC, KeepAlivePC

\* The state of the pool and of every goroutine around it stays within its types.
THEOREM TypeCorrect == Spec => []TypeOK
<1>1. Spec => []Typed
  BY TypedInit, TypedStep, PTL DEF Spec
<1> QED
  BY <1>1, PTL DEF Typed

\* The keepalive never divides its ten seconds by zero.
THEOREM SleepIsDefined == Spec => []SleepDefined
<1>1. Spec => []Typed
  BY TypedInit, TypedStep, PTL DEF Spec
<1>2. Typed => SleepDefined
  BY DEF Typed, Located, SleepDefined
<1> QED
  BY <1>1, <1>2, PTL

-----------------------------------------------------------------------------
(* Custody of a connection: from pool.cs to its one holder and the goroutine *)
(* the holder started, and back only when that goroutine is done.            *)

Custody ==
  /\ NoDuplicates(cs)
  /\ \A c \in Pooled : link[c] # "closed"
  /\ \A p \in Procs : held[p] # NoConn => held[p] \notin Pooled /\ link[held[p]] # "closed"
  /\ \A p, q \in Procs : held[p] = held[q] /\ held[p] # NoConn => p = q
  /\ \A p \in Procs : pc[p] = "replied" => ~ Mine(p)
  /\ \A x \in executing : link[x[2]] # "closed" => held[x[1]] = x[2]
  /\ ExclusiveUse

\* PooledIdle, from Custody.
LEMMA PooledUnused ==
  ASSUME Typed, Custody, NEW c \in Pooled
  PROVE  /\ c \in Conns /\ link[c] # "closed"
         /\ \A p \in Procs : held[p] # c /\ <<p, c>> \notin executing
<1>1. c \in Conns /\ link[c] # "closed"
  BY DEF Typed, TypeOK, Pooled, Elems, Custody
<1>2. ASSUME NEW p \in Procs PROVE held[p] # c
  BY <1>1, PoolAssumption DEF Custody
<1>3. ASSUME NEW p \in Procs PROVE <<p, c>> \notin executing
  BY <1>1, <1>2 DEF Custody
<1> QED
  BY <1>1, <1>2, <1>3

LEMMA CustodyInit == Init => Custody
BY DEF Init, Custody, ExclusiveUse, Pooled, Elems, NoDuplicates

\* Handing c to p, which holds nothing: c was pooled and leaves the pool, or is new.
LEMMA CustodyStart ==
  ASSUME Typed, Custody, NEW p \in Procs, NEW c \in Conns,
         held[p] = NoConn, pc[p] # "replied", Start(p, c),
         NoDuplicates(cs'), Pooled' = Pooled \ {c},
         \A q \in Procs : held[q] # c /\ <<q, c>> \notin executing,
         link' \in [Conns -> {"open", "broken", "closed"}], link'[c] # "closed",
         \A d \in Conns \ {c} : link'[d] = link[d]
  PROVE  Custody'
<1> USE DEF Typed, TypeOK, Start, Goto, Custody
<1>1. /\ held' = [held EXCEPT ![p] = c]
      /\ executing' = executing \cup {<<p, c>>}
      /\ \A q \in Procs : pc'[q] = "replied" => pc[q] = "replied" /\ q # p
  OBVIOUS
<1>2. \A d \in Pooled' : d \in Conns /\ d # c /\ d \in Pooled
  <2>1. \A d \in Pooled : d \in Conns
    BY DEF Pooled, Elems
  <2> QED
    BY <2>1
<1>3. \A d \in Pooled' : link'[d] # "closed"
  BY <1>2
<1>4. ASSUME NEW q \in Procs, held'[q] # NoConn
      PROVE  held'[q] \notin Pooled' /\ link'[held'[q]] # "closed"
  BY <1>1, <1>2, <1>4
<1>5. ASSUME NEW q \in Procs, NEW r \in Procs, held'[q] = held'[r], held'[q] # NoConn
      PROVE  q = r
  <2>1. held'[p] = c /\ \A t \in Procs \ {p} : held'[t] = held[t]
    BY <1>1
  <2>2. \A s, t \in Procs : held[s] = held[t] /\ held[s] # NoConn => s = t
    OBVIOUS
  <2> HIDE DEF Start, Typed, TypeOK, Custody
  <2>3. CASE q = p \/ r = p
    BY <1>5, <2>1, <2>3
  <2>4. CASE q # p /\ r # p
    BY <1>5, <2>1, <2>2, <2>4
  <2> QED
    BY <2>3, <2>4
<1>6. ASSUME NEW q \in Procs, pc'[q] = "replied" PROVE ~ Mine(q)'
  BY <1>1, <1>6 DEF Mine
<1>7. ASSUME NEW x \in executing', link'[x[2]] # "closed" PROVE held'[x[1]] = x[2]
  <2>1. CASE x = <<p, c>>
    BY <1>1, <2>1
  <2>2. CASE x \in executing
    <3>1. x \in Procs \X Conns /\ x = <<x[1], x[2]>> /\ x[2] # c
      BY <2>2
    <3>2. held[x[1]] = x[2]
      BY <1>7, <2>2, <3>1
    <3> QED
      BY <1>1, <3>1, <3>2, PoolAssumption
  <2> QED
    BY <1>1, <2>1, <2>2
<1>8. ExclusiveUse'
  <2>1. \A x \in executing : x = <<x[1], x[2]>> /\ x[2] # c
    OBVIOUS
  <2> QED
    BY <1>1, <2>1 DEF ExclusiveUse
<1> HIDE DEF Typed, TypeOK, Start, Goto
<1> QED
  BY <1>3, <1>4, <1>5, <1>6, <1>7, <1>8

LEMMA CustodyStep == Typed /\ Custody /\ [Next]_vars => Custody'
<1> SUFFICES ASSUME Typed, Custody, [Next]_vars PROVE Custody'
  OBVIOUS
<1> USE ProcsFacts, PoolAssumption
    DEF Typed, TypeOK, Custody, ExclusiveUse, Mine, Pooled, Goto, Start, Release, Fresh, Unreferenced
<1>1. ASSUME NEW p \in Callers, GetPooled(p) PROVE Custody'
  <2>1. /\ Head(cs) \in Conns /\ Head(cs) \in Pooled
        /\ NoDuplicates(cs') /\ Pooled' = Pooled \ {Head(cs)}
    BY <1>1, TailElems DEF GetPooled
  <2>2. held[p] = NoConn /\ pc[p] # "replied"
    BY <1>1 DEF GetPooled, Located
  <2> HIDE DEF Start, Custody
  <2> QED
    BY <1>1, <2>1, <2>2, CustodyStart, PooledUnused DEF GetPooled
<1>2. ASSUME NEW p \in Callers, GetEmpty(p) PROVE Custody'
  BY <1>2 DEF GetEmpty
<1>3. ASSUME NEW p \in Callers, Dialed(p) PROVE Custody'
  <2>1. PICK c \in Conns : Fresh(c) /\ link' = [link EXCEPT ![c] = "open"] /\ Start(p, c)
    BY <1>3 DEF Dialed
  <2>2. held[p] = NoConn /\ pc[p] # "replied" /\ cs' = cs
    BY <1>3 DEF Dialed, Located
  <2>3. c \notin Pooled /\ \A q \in Procs : held[q] # c /\ <<q, c>> \notin executing
    BY <2>1
  <2>4. Pooled' = Pooled \ {c}
    BY <2>2, <2>3
  <2> HIDE DEF Start
  <2> QED
    BY <2>1, <2>2, <2>3, <2>4, CustodyStart
<1>4. ASSUME NEW p \in Callers, DialFailed(p) PROVE Custody'
  BY <1>4 DEF DialFailed
<1>5. ASSUME NEW p \in Procs, EnterSelect(p) PROVE Custody'
  BY <1>5 DEF EnterSelect
<1>6. ASSUME NEW p \in Callers, Reply(p) PROVE Custody'
  BY <1>6 DEF Reply
<1>7. ASSUME NEW p \in Procs, ReplyDropped(p) PROVE Custody'
  BY <1>7 DEF ReplyDropped
<1>8. ASSUME NEW p \in Callers, Put(p) PROVE Custody'
  BY <1>8, AppendElems DEF Put, Located
<1>9. ASSUME NEW p \in Callers, Timeout(p) PROVE Custody'
  BY <1>9 DEF Timeout, Located
<1>10. CASE KeepAliveNothing
  BY <1>10 DEF KeepAliveNothing
<1>11. CASE KeepAlivePick
  <2> DEFINE l == cs[Len(cs)]
  <2>1. /\ l \in Conns /\ l \in Pooled
        /\ NoDuplicates(cs') /\ Pooled' = Pooled \ {l}
    BY <1>11, FrontElems DEF KeepAlivePick
  <2>2. held[KeepAlive] = NoConn /\ pc[KeepAlive] # "replied"
    BY <1>11 DEF KeepAlivePick, Located
  <2> HIDE DEF Start, Custody
  <2> QED
    BY <1>11, <2>1, <2>2, CustodyStart, PooledUnused DEF KeepAlivePick
<1>12. ASSUME NEW good \in BOOLEAN, KeepAliveReply(good) PROVE Custody'
  BY <1>12 DEF KeepAliveReply
<1>13. CASE KeepAliveNilReply
  BY <1>13 DEF KeepAliveNilReply
<1>14. CASE KeepAliveTimeout
  BY <1>14 DEF KeepAliveTimeout
<1>15. CASE KeepAliveKeep
  <2>1. held[KeepAlive] \in Conns /\ held[KeepAlive] \notin Pooled
    BY <1>15 DEF KeepAliveKeep, Located
  <2>2. NoDuplicates(cs') /\ Pooled' = Pooled \cup {held[KeepAlive]}
    BY <1>15, <2>1, PrependElems DEF KeepAliveKeep, PushBack
  <2> QED
    BY <1>15, <2>1, <2>2 DEF KeepAliveKeep
<1>16. CASE KeepAliveDiscard
  BY <1>16 DEF KeepAliveDiscard, Located
<1>17. CASE KeepAliveDialed
  BY <1>17 DEF KeepAliveDialed
<1>18. CASE KeepAliveDialFailed
  BY <1>18 DEF KeepAliveDialFailed
<1>19. CASE KeepAliveWake
  BY <1>19 DEF KeepAliveWake
<1>20. ASSUME NEW p \in Procs, NEW c \in Conns, AbandonedReply(p, c) PROVE Custody'
  BY <1>20 DEF AbandonedReply
<1>21. ASSUME NEW c \in Conns, Break(c) PROVE Custody'
  BY <1>21 DEF Break
<1>22. ASSUME NEW c \in Conns, Finalize(c) PROVE Custody'
  <2>1. \A x \in executing : x = <<x[1], x[2]>> /\ x[2] # c /\ x[1] \in Procs
    BY <1>22 DEF Finalize
  <2>2. \A d \in Pooled : d \in Conns /\ d # c
    BY <1>22 DEF Finalize, Elems
  <2>3. \A d \in Conns \ {c} : link'[d] = link[d]
    BY <1>22 DEF Finalize
  <2>4. UNCHANGED <<cs, pc, held, executing>> /\ \A p \in Procs : held[p] # c
    BY <1>22 DEF Finalize
  <2> QED
    BY <2>1, <2>2, <2>3, <2>4
<1>23. CASE UNCHANGED vars
  BY <1>23 DEF vars
<1> HIDE DEF Custody
<1> QED
  BY <1>1, <1>2, <1>3, <1>4, <1>5, <1>6, <1>7, <1>8, <1>9, <1>10, <1>11, <1>12, <1>13,
     <1>14, <1>15, <1>16, <1>17, <1>18, <1>19, <1>20, <1>21, <1>22, <1>23
     DEF Next, Caller, KeepAliveStep

LEMMA CustodyInvariant == Spec => [](Typed /\ Custody)
BY TypedInit, TypedStep, CustodyInit, CustodyStep, PTL DEF Spec

\* No two goroutines are ever inside RunArgs of the same connection.
THEOREM Exclusive == Spec => []ExclusiveUse
BY CustodyInvariant, PTL DEF Custody

\* What Get finds in the pool is open as far as this program knows, in nobody's hands, and
\* in the pool once.
THEOREM PooledIsIdle == Spec => []PooledIdle
<1>1. Typed /\ Custody => PooledIdle
  BY PooledUnused DEF Custody, PooledIdle
<1> QED
  BY <1>1, CustodyInvariant, PTL

-----------------------------------------------------------------------------
(* The pool implements ConnLease.                                           *)

LEMMA LeaseInit == Init => Lease!Init
BY DEF Init, Lease!Init, Pooled, Elems

\* A step of the pool is a take, an opening, a return or a drop, or moves no connection.
LEMMA LeaseStep ==
  ASSUME Typed, Custody, [Next]_vars
  PROVE  [Lease!Next]_<<Pooled, held>>
<1> USE ProcsFacts, PoolAssumption DEF Goto, Start, Release
<1> DEFINE Stutters == Pooled' = Pooled /\ held' = held
<1>1. ASSUME NEW p \in Callers, GetPooled(p) PROVE Lease!Take(p)
  <2>1. Head(cs) \in Pooled /\ Pooled' = Pooled \ {Head(cs)}
    BY <1>1, TailElems DEF GetPooled, Typed, TypeOK, Custody, Pooled
  <2> QED
    BY <1>1, <2>1 DEF GetPooled, Typed, Located, Lease!Take
<1>2. ASSUME NEW p \in Callers, Dialed(p) PROVE Lease!Open(p)
  <2>1. PICK c \in Conns : Fresh(c) /\ Start(p, c)
    BY <1>2 DEF Dialed
  <2>2. c \in Conns \ (Pooled \cup Lease!Leased)
    BY <2>1 DEF Fresh, Unreferenced, Lease!Leased
  <2> QED
    BY <1>2, <2>1, <2>2 DEF Dialed, Typed, Located, Lease!Open, Pooled
<1>3. ASSUME NEW p \in Callers, Put(p) PROVE Lease!GiveBack(p)
  <2>1. held[p] # NoConn /\ held[p] \in Conns
    BY <1>3 DEF Put, Typed, TypeOK, Located
  <2>2. Pooled' = Pooled \cup {held[p]}
    BY <1>3, <2>1, AppendElems DEF Put, Typed, TypeOK, Pooled
  <2> QED
    BY <1>3, <2>1, <2>2 DEF Put, Lease!GiveBack
<1>4. ASSUME NEW p \in Callers, Timeout(p) PROVE Lease!Drop(p)
  BY <1>4 DEF Timeout, Typed, Located, Lease!Drop, Pooled
<1>5. ASSUME KeepAlivePick PROVE Lease!Take(KeepAlive)
  <2>1. cs[Len(cs)] \in Pooled /\ Pooled' = Pooled \ {cs[Len(cs)]}
    BY <1>5, FrontElems DEF KeepAlivePick, Typed, TypeOK, Custody, Pooled
  <2> QED
    BY <1>5, <2>1 DEF KeepAlivePick, Typed, Located, Lease!Take
<1>6. ASSUME KeepAliveKeep PROVE Lease!GiveBack(KeepAlive)
  <2>1. held[KeepAlive] # NoConn /\ held[KeepAlive] \in Conns
    BY <1>6 DEF KeepAliveKeep, Typed, TypeOK, Located
  <2>2. Pooled' = Pooled \cup {held[KeepAlive]}
    BY <1>6, <2>1, PrependElems DEF KeepAliveKeep, PushBack, Typed, TypeOK, Pooled
  <2> QED
    BY <1>6, <2>1, <2>2 DEF KeepAliveKeep, Lease!GiveBack
<1>7. ASSUME KeepAliveDiscard PROVE Lease!Drop(KeepAlive)
  BY <1>7 DEF KeepAliveDiscard, Typed, Located, Lease!Drop, Pooled
<1>8. ASSUME NEW p \in Procs,
             \/ GetEmpty(p) \/ DialFailed(p) \/ EnterSelect(p) \/ Reply(p) \/ ReplyDropped(p)
             \/ \E c \in Conns : AbandonedReply(p, c)
      PROVE  Stutters
  BY <1>8 DEF GetEmpty, DialFailed, EnterSelect, Reply, ReplyDropped, AbandonedReply, Pooled
<1>9. ASSUME \/ KeepAliveNothing \/ \E good \in BOOLEAN : KeepAliveReply(good)
             \/ KeepAliveNilReply \/ KeepAliveTimeout
             \/ KeepAliveDialed \/ KeepAliveDialFailed \/ KeepAliveWake
      PROVE  Stutters
  BY <1>9 DEF KeepAliveNothing, KeepAliveReply, KeepAliveNilReply, KeepAliveTimeout,
              KeepAliveDialed, KeepAliveDialFailed, KeepAliveWake, Pooled
<1>10. ASSUME UNCHANGED vars \/ \E c \in Conns : Break(c) \/ Finalize(c)
       PROVE  Stutters
  BY <1>10 DEF Break, Finalize, vars, Pooled
<1> HIDE DEF Stutters
<1>11. \/ \E p \in Procs : Lease!Take(p) \/ Lease!Open(p) \/ Lease!GiveBack(p) \/ Lease!Drop(p)
       \/ Stutters
  BY <1>1, <1>2, <1>3, <1>4, <1>5, <1>6, <1>7, <1>8, <1>9, <1>10
     DEF Next, Caller, KeepAliveStep
<1> QED
  BY <1>11 DEF Lease!Next, Stutters

\* Every connection is leased to one goroutine at a time, and returned or dropped by it.
THEOREM ImplementsLease == Spec => LeaseSpec
<1>1. Typed /\ Custody /\ [Next]_vars => [Lease!Next]_<<Pooled, held>>
  BY LeaseStep
<1> QED
  BY LeaseInit, <1>1, CustodyInvariant, PTL DEF Spec, LeaseSpec, Lease!Spec, Lease!vars
-----------------------------------------------------------------------------
(* How many connections there are                                           *)

LEMMA BusyFinite ==
  /\ IsFiniteSet(Procs) /\ Busy \subseteq Procs /\ IsFiniteSet(Busy)
  /\ Cardinality(Procs) \in Nat /\ Cardinality(Busy) \in Nat
  /\ Cardinality(Busy) <= Cardinality(Procs)
<1>1. IsFiniteSet(Procs)
  BY PoolAssumption, FS_AddElement DEF Procs
<1>2. Busy \subseteq Procs
  BY DEF Busy, Procs
<1> QED
  BY <1>1, <1>2, FS_Subset, FS_CardinalityType

LEMMA BusyFinitePrimed ==
  IsFiniteSet(Busy') /\ Cardinality(Busy') \in Nat /\ Cardinality(Busy') <= Cardinality(Procs)
<1>1. Busy' \subseteq Procs
  BY DEF Busy, Procs
<1> QED
  BY <1>1, BusyFinite, FS_Subset, FS_CardinalityType

\* The four ways a step can change the sum.
LEMMA NoMore ==
  ASSUME Typed, BoundedConns, Busy' \subseteq Busy, cs' = cs
  PROVE  BoundedConns'
<1>1. Len(cs) \in Nat
  BY DEF Typed, TypeOK
<1>2. Cardinality(Busy') <= Cardinality(Busy)
  BY BusyFinite, FS_Subset
<1> QED
  BY <1>1, <1>2, BusyFinite, BusyFinitePrimed DEF BoundedConns

LEMMA NonePooled ==
  ASSUME cs' = <<>>
  PROVE  BoundedConns'
BY BusyFinitePrimed, BusyFinite DEF BoundedConns

LEMMA Taken ==
  ASSUME Typed, BoundedConns, NEW p, p \notin Busy, Busy' = Busy \cup {p},
         Len(cs) \in Nat, Len(cs') = Len(cs) - 1
  PROVE  BoundedConns'
<1>1. Cardinality(Busy') = Cardinality(Busy) + 1
  BY BusyFinite, FS_AddElement
<1> QED
  BY <1>1, BusyFinite DEF BoundedConns

LEMMA GivenBack ==
  ASSUME Typed, BoundedConns, NEW p \in Busy, Busy' = Busy \ {p},
         Len(cs') = Len(cs) + 1
  PROVE  BoundedConns'
<1>1. Cardinality(Busy') = Cardinality(Busy) - 1
  BY BusyFinite, FS_RemoveElement
<1>2. Len(cs) \in Nat
  BY DEF Typed, TypeOK
<1> QED
  BY <1>1, <1>2, BusyFinite DEF BoundedConns

LEMMA BoundedStep == Typed /\ BoundedConns /\ [Next]_vars => BoundedConns'
<1> SUFFICES ASSUME Typed, BoundedConns, [Next]_vars PROVE BoundedConns'
  OBVIOUS
<1> USE ProcsFacts
<1>0. /\ cs \in Seq(Conns) /\ Len(cs) \in Nat
      /\ pc \in [Procs -> CallerPC \cup KeepAlivePC]
      /\ held \in [Procs -> Conns \cup {NoConn}] /\ NoConn \notin Conns
      /\ \A p \in Procs : held[p] = NoConn <=> pc[p] \in {"idle", "dialing", "pick", "sleep"}
  BY PoolAssumption DEF Typed, TypeOK, Located
<1>1. ASSUME NEW p \in Callers, GetPooled(p) PROVE BoundedConns'
  <2>1. Head(cs) \in Conns /\ Len(cs') = Len(cs) - 1 /\ p \in Procs
    BY <1>0, <1>1, TailElems DEF GetPooled
  <2>2. held' = [held EXCEPT ![p] = Head(cs)] /\ pc' = [pc EXCEPT ![p] = "spawned"] /\ pc[p] = "idle"
    BY <1>1 DEF GetPooled, Start, Goto
  <2>3. p \notin Busy /\ Busy' = Busy \cup {p}
    BY <1>0, <2>1, <2>2 DEF Busy
  <2> QED
    BY <1>0, <2>1, <2>3, Taken
<1>2. CASE KeepAlivePick
  <2>1. cs[Len(cs)] \in Conns /\ Len(cs') = Len(cs) - 1
    BY <1>0, <1>2, FrontElems DEF KeepAlivePick
  <2>2. /\ held' = [held EXCEPT ![KeepAlive] = cs[Len(cs)]]
        /\ pc' = [pc EXCEPT ![KeepAlive] = "spawned"] /\ pc[KeepAlive] = "pick"
    BY <1>2 DEF KeepAlivePick, Start, Goto
  <2>3. KeepAlive \notin Busy /\ Busy' = Busy \cup {KeepAlive}
    BY <1>0, <2>1, <2>2 DEF Busy
  <2> QED
    BY <1>0, <2>1, <2>3, Taken
<1>3. CASE (\E p \in Callers : GetEmpty(p)) \/ KeepAliveNothing
  BY <1>3, NonePooled DEF GetEmpty, KeepAliveNothing
<1>4. ASSUME NEW p \in Procs, pc[p] = "replied", Release(p), Len(cs') = Len(cs) + 1,
             Goto(p, "idle") \/ Goto(p, "sleep")
      PROVE  BoundedConns'
  <2>1. p \in Busy
    BY <1>0, <1>4 DEF Busy
  <2>2. Busy' = Busy \ {p}
    BY <1>0, <1>4 DEF Busy, Release, Goto
  <2> QED
    BY <1>4, <2>1, <2>2, GivenBack
<1>5. ASSUME NEW p \in Callers, Put(p) PROVE BoundedConns'
  <2>1. Len(cs') = Len(cs) + 1
    BY <1>0, <1>5 DEF Put
  <2> QED
    BY <1>4, <1>5, <2>1 DEF Put
<1>6. CASE KeepAliveKeep
  <2>1. Len(cs') = Len(cs) + 1
    BY <1>0, <1>6 DEF KeepAliveKeep, PushBack
  <2> QED
    BY <1>4, <1>6, <2>1 DEF KeepAliveKeep
<1>7. ASSUME NEW p \in Callers, Dialed(p) PROVE BoundedConns'
  <2>1. Busy' \subseteq Busy /\ cs' = cs
    BY <1>0, <1>7 DEF Dialed, Busy, Start, Goto
  <2> QED
    BY <2>1, NoMore
<1>8. ASSUME NEW p \in Procs, Release(p), UNCHANGED cs, \E l : l # "dialing" /\ Goto(p, l)
      PROVE  BoundedConns'
  <2>1. Busy' \subseteq Busy
    BY <1>0, <1>8 DEF Busy, Release, Goto
  <2> QED
    BY <1>8, <2>1, NoMore
<1>9. ASSUME NEW p \in Callers, Timeout(p) PROVE BoundedConns'
  BY <1>8, <1>9 DEF Timeout
<1>10. CASE KeepAliveDiscard
  <2>1. UNCHANGED cs /\ Release(KeepAlive) /\ \E l : Goto(KeepAlive, l)
    BY <1>10 DEF KeepAliveDiscard
  <2>2. Busy' \subseteq Busy
    BY <1>0, <2>1 DEF Busy, Release, Goto
  <2> QED
    BY <2>1, <2>2, NoMore
<1>11. ASSUME NEW p \in Procs, UNCHANGED <<cs, held>>,
              \E l : Goto(p, l) /\ (p \in Callers => l # "dialing")
       PROVE  BoundedConns'
  <2>1. Busy' \subseteq Busy
    BY <1>0, <1>11 DEF Busy, Goto
  <2> QED
    BY <1>11, <2>1, NoMore
<1>12. ASSUME NEW p \in Callers, DialFailed(p) \/ Reply(p) PROVE BoundedConns'
  BY <1>11, <1>12 DEF DialFailed, Reply
<1>13. ASSUME NEW p \in Procs, EnterSelect(p) PROVE BoundedConns'
  BY <1>11, <1>13 DEF EnterSelect
<1>14. CASE KeepAliveNilReply \/ KeepAliveTimeout \/ KeepAliveDialed \/ KeepAliveDialFailed
             \/ KeepAliveWake \/ \E good \in BOOLEAN : KeepAliveReply(good)
  BY <1>11, <1>14 DEF KeepAliveNilReply, KeepAliveTimeout, KeepAliveDialed, KeepAliveDialFailed,
                      KeepAliveWake, KeepAliveReply
<1>15. CASE UNCHANGED <<cs, held, pc>>
  BY <1>15, NoMore DEF Busy
<1> QED
  BY <1>1, <1>2, <1>3, <1>5, <1>6, <1>7, <1>9, <1>10, <1>12, <1>13, <1>14, <1>15
     DEF Next, Caller, KeepAliveStep, ReplyDropped, AbandonedReply, Break, Finalize, vars

\* For any number of callers, the pool has no more connections than calls were ever in flight
\* at once.
THEOREM Bounded == Spec => []BoundedConns
<1>1. Init => BoundedConns
  <2> SUFFICES ASSUME Init PROVE BoundedConns
    OBVIOUS
  <2> QED
    BY BusyFinite DEF Init, BoundedConns
<1> QED
  BY <1>1, TypedInit, TypedStep, BoundedStep, PTL DEF Spec

-----------------------------------------------------------------------------
(* What liveness rests on                                                   *)

\* c is in the pool, and d connections will be tested before it.
Waits(c, d) == d < Len(cs) /\ cs[Len(cs) - d] = c

\* The places in the pool after each of the four things done to it.
LEMMA Places ==
  ASSUME NEW S, NEW s \in Seq(S), NEW c \in S, NEW x \in S, NEW d \in Nat, d < Len(s),
         s[Len(s) - d] = c
  PROVE  /\ d + 1 < Len(Append(s, x)) /\ Append(s, x)[Len(Append(s, x)) - (d + 1)] = c
         /\ d < Len(<<x>> \o s) /\ (<<x>> \o s)[Len(<<x>> \o s) - d] = c
         /\ c = Head(s) \/ (d < Len(Tail(s)) /\ Tail(s)[Len(Tail(s)) - d] = c)
         /\ LET f == SubSeq(s, 1, Len(s) - 1) IN
            d > 0 => d - 1 < Len(f) /\ f[Len(f) - (d - 1)] = c
<1>1. Len(s) \in Nat /\ s # <<>>
  OBVIOUS
<1>2. d + 1 < Len(Append(s, x)) /\ Append(s, x)[Len(Append(s, x)) - (d + 1)] = c
  OBVIOUS
<1>3. d < Len(<<x>> \o s) /\ (<<x>> \o s)[Len(<<x>> \o s) - d] = c
  OBVIOUS
<1>4. c = Head(s) \/ (d < Len(Tail(s)) /\ Tail(s)[Len(Tail(s)) - d] = c)
  BY <1>1
<1>5. LET f == SubSeq(s, 1, Len(s) - 1) IN
      d > 0 => d - 1 < Len(f) /\ f[Len(f) - (d - 1)] = c
  BY <1>1
<1> QED
  BY <1>2, <1>3, <1>4, <1>5

\* Each test brings the keepalive nearer to every connection that waits: its turn comes unless a
\* caller takes it, and only a call that returns puts another one ahead of it.
THEOREM OnlyPutsPostpone ==
  Spec => [][\A c \in Conns, d \in Nat :
               Waits(c, d) =>
                 \/ KeepAlivePick /\ IF d = 0 THEN held'[KeepAlive] = c ELSE Waits(c, d - 1)'
                 \/ ~ KeepAlivePick /\ Waits(c, d)'
                 \/ \E p \in Callers : GetPooled(p) /\ held'[p] = c
                 \/ \E p \in Callers : Put(p) /\ Waits(c, d + 1)']_vars
<1>1. Typed /\ [Next]_vars =>
        [\A c \in Conns, d \in Nat :
           Waits(c, d) =>
             \/ KeepAlivePick /\ IF d = 0 THEN held'[KeepAlive] = c ELSE Waits(c, d - 1)'
             \/ ~ KeepAlivePick /\ Waits(c, d)'
             \/ \E p \in Callers : GetPooled(p) /\ held'[p] = c
             \/ \E p \in Callers : Put(p) /\ Waits(c, d + 1)']_vars
  <2> SUFFICES ASSUME Typed, Next, NEW c \in Conns, NEW d \in Nat, Waits(c, d)
               PROVE  \/ KeepAlivePick /\ IF d = 0 THEN held'[KeepAlive] = c ELSE Waits(c, d - 1)'
                      \/ ~ KeepAlivePick /\ Waits(c, d)'
                      \/ \E p \in Callers : GetPooled(p) /\ held'[p] = c
                      \/ \E p \in Callers : Put(p) /\ Waits(c, d + 1)'
    OBVIOUS
  <2>0. /\ cs \in Seq(Conns) /\ held \in [Procs -> Conns \cup {NoConn}] /\ KeepAlive \in Procs
        /\ Callers \subseteq Procs /\ d < Len(cs) /\ cs[Len(cs) - d] = c
    BY ProcsFacts DEF Typed, TypeOK, Waits
  <2>1. ASSUME UNCHANGED cs, ~ KeepAlivePick PROVE ~ KeepAlivePick /\ Waits(c, d)'
    BY <2>0, <2>1 DEF Waits
  <2>2. ASSUME NEW p \in Callers, GetPooled(p)
        PROVE  held'[p] = c \/ (~ KeepAlivePick /\ Waits(c, d)')
    <3>1. cs' = Tail(cs) /\ held' = [held EXCEPT ![p] = Head(cs)]
      BY <2>2 DEF GetPooled, Start
    <3>2. c = Head(cs) \/ (d < Len(Tail(cs)) /\ Tail(cs)[Len(Tail(cs)) - d] = c)
      BY <2>0, Places
    <3>3. ~ KeepAlivePick
      BY <2>2, ProcsFacts DEF GetPooled, KeepAlivePick, Start, Goto, Typed, TypeOK
    <3> QED
      BY <2>0, <3>1, <3>2, <3>3 DEF Waits
  <2>3. ASSUME NEW p \in Callers, Put(p) PROVE Waits(c, d + 1)'
    <3>1. held[p] \in Conns /\ cs' = Append(cs, held[p])
      BY <2>0, <2>3 DEF Put, Typed, Located
    <3>2. d + 1 < Len(Append(cs, held[p])) /\ Append(cs, held[p])[Len(Append(cs, held[p])) - (d + 1)] = c
      BY <2>0, <3>1, Places
    <3> QED
      BY <3>1, <3>2 DEF Waits
  <2>4. CASE KeepAliveKeep
    <3>1. held[KeepAlive] \in Conns /\ cs' = <<held[KeepAlive]>> \o cs /\ pc[KeepAlive] = "replied"
      BY <2>0, <2>4 DEF KeepAliveKeep, PushBack, Typed, Located
    <3>2. d < Len(<<held[KeepAlive]>> \o cs)
          /\ (<<held[KeepAlive]>> \o cs)[Len(<<held[KeepAlive]>> \o cs) - d] = c
      BY <2>0, <3>1, Places
    <3> QED
      BY <3>1, <3>2 DEF Waits, KeepAlivePick
  <2>5. CASE KeepAlivePick
    <3>1. cs' = SubSeq(cs, 1, Len(cs) - 1) /\ held' = [held EXCEPT ![KeepAlive] = cs[Len(cs)]]
      BY <2>5 DEF KeepAlivePick, Start
    <3>2. CASE d = 0
      <4>1. Len(cs) - 0 = Len(cs)
        BY <2>0
      <4> QED
        BY <2>0, <2>5, <3>1, <3>2, <4>1
    <3>3. CASE d # 0
      <4>1. LET f == SubSeq(cs, 1, Len(cs) - 1) IN d > 0 => d - 1 < Len(f) /\ f[Len(f) - (d - 1)] = c
        BY <2>0, Places
      <4> QED
        BY <2>5, <3>1, <3>3, <4>1 DEF Waits
    <3> QED
      BY <3>2, <3>3
  <2>6. \/ UNCHANGED cs \/ KeepAliveKeep \/ KeepAlivePick
        \/ \E p \in Callers : GetPooled(p) \/ Put(p)
    BY DEF Next, Caller, KeepAliveStep, GetEmpty, Dialed, DialFailed, EnterSelect, Reply,
           ReplyDropped, Timeout, KeepAliveNothing, KeepAliveReply, KeepAliveNilReply,
           KeepAliveTimeout, KeepAliveDiscard, KeepAliveDialed, KeepAliveDialFailed,
           KeepAliveWake, AbandonedReply, Break, Finalize
  <2> QED
    BY <2>1, <2>2, <2>3, <2>4, <2>5, <2>6
<1> QED
  BY <1>1, CustodyInvariant, PTL DEF Spec

\* A connection the keepalive tests, and that was dead before the device answered.
Doomed(c) ==
  held[KeepAlive] = c /\ link[c] = "broken" /\ pc[KeepAlive] \in {"spawned", "waiting", "discard"}

\* A dead connection does not survive its test, whichever of timeout, error and dropped reply it
\* ends with: the keepalive keeps it until it closes it, and it is not back in the pool.
THEOREM DeadNotKept ==
  Spec => [][\A c \in Conns :
               Doomed(c) => Doomed(c)' \/ (KeepAliveDiscard /\ link'[c] = "closed" /\ c \notin Pooled')]_vars
<1>1. Typed /\ Custody /\ [Next]_vars =>
        [\A c \in Conns :
           Doomed(c) => Doomed(c)' \/ (KeepAliveDiscard /\ link'[c] = "closed" /\ c \notin Pooled')]_vars
  <2> SUFFICES ASSUME Typed, Custody, Next, NEW c \in Conns, Doomed(c)
               PROVE  Doomed(c)' \/ (KeepAliveDiscard /\ link'[c] = "closed" /\ c \notin Pooled')
    OBVIOUS
  <2>0. /\ held \in [Procs -> Conns \cup {NoConn}] /\ KeepAlive \in Procs
        /\ pc \in [Procs -> CallerPC \cup KeepAlivePC]
        /\ link \in [Conns -> {"open", "broken", "closed"}]
        /\ Callers \subseteq Procs /\ KeepAlive \notin Callers /\ c # NoConn
        /\ held[KeepAlive] = c /\ link[c] = "broken"
        /\ pc[KeepAlive] \in {"spawned", "waiting", "discard"}
    BY ProcsFacts, PoolAssumption DEF Typed, TypeOK, Doomed
  <2>1. \A p \in Callers : held[p] # c
    BY <2>0 DEF Custody
  <2>2. ASSUME NEW p \in Callers, Caller(p) PROVE Doomed(c)'
    <3>1. pc'[KeepAlive] = pc[KeepAlive] /\ held'[KeepAlive] = held[KeepAlive]
      BY <2>0, <2>2 DEF Caller, GetPooled, GetEmpty, Dialed, DialFailed, EnterSelect, Reply,
                        ReplyDropped, Put, Timeout, Start, Release, Goto
    <3>2. link'[c] = "broken"
      <4>1. CASE Dialed(p)
        BY <2>0, <4>1 DEF Dialed, Fresh
      <4>2. CASE Timeout(p)
        BY <2>0, <2>1, <4>2 DEF Timeout, Typed, Located
      <4>3. CASE UNCHANGED link
        BY <2>0, <4>3
      <4> QED
        BY <2>2, <4>1, <4>2, <4>3 DEF Caller, GetPooled, GetEmpty, DialFailed, EnterSelect, Reply,
                                      ReplyDropped, Put
    <3> QED
      BY <2>0, <3>1, <3>2 DEF Doomed
  <2>3. CASE KeepAliveDiscard
    <3>1. c \notin Pooled' /\ link'[c] = "closed"
      BY <2>0, <2>3 DEF KeepAliveDiscard, Custody, Pooled
    <3> QED
      BY <2>3, <3>1
  <2>4. ASSUME NEW good \in BOOLEAN, KeepAliveReply(good) PROVE Doomed(c)'
    BY <2>0, <2>4 DEF KeepAliveReply, Goto, Doomed
  <2>5. CASE EnterSelect(KeepAlive) \/ ReplyDropped(KeepAlive) \/ KeepAliveNilReply \/ KeepAliveTimeout
    BY <2>0, <2>5 DEF EnterSelect, ReplyDropped, KeepAliveNilReply, KeepAliveTimeout, Goto, Doomed
  <2>6. ~ KeepAliveNothing /\ ~ KeepAlivePick /\ ~ KeepAliveKeep /\ ~ KeepAliveDialed
        /\ ~ KeepAliveDialFailed /\ ~ KeepAliveWake
    BY <2>0 DEF KeepAliveNothing, KeepAlivePick, KeepAliveKeep, KeepAliveDialed,
                KeepAliveDialFailed, KeepAliveWake
  <2>7. ASSUME NEW x \in Conns, NEW p \in Procs, AbandonedReply(p, x) PROVE Doomed(c)'
    BY <2>7 DEF AbandonedReply, Doomed
  <2>8. ASSUME NEW x \in Conns, Break(x) PROVE Doomed(c)'
    BY <2>0, <2>8 DEF Break, Doomed
  <2>9. ASSUME NEW x \in Conns, Finalize(x) PROVE Doomed(c)'
    BY <2>0, <2>9 DEF Finalize, Unreferenced, Doomed
  <2> QED
    BY <2>2, <2>3, <2>4, <2>5, <2>6, <2>7, <2>8, <2>9 DEF Next, KeepAliveStep
<1> QED
  BY <1>1, CustodyInvariant, PTL DEF Spec
=============================================================================
