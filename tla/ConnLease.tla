------------------------------ MODULE ConnLease ------------------------------
(***************************************************************************)
(* What a pool of exclusive connections promises its users, without saying *)
(* how: a connection is free, or leased to one goroutine, or out of the    *)
(* pool's books.  Whoever holds a lease ends it itself, by giving the      *)
(* connection back or by dropping it; nobody takes a connection away from  *)
(* its holder, and a dropped connection never becomes free.                *)
(***************************************************************************)
CONSTANTS
  Procs,     \* the goroutines that use the pool
  Conns,     \* the connections
  NoConn     \* "no connection"

VARIABLES
  free,      \* the connections that can be taken
  lease      \* the connection each goroutine holds, or NoConn

vars == <<free, lease>>

Leased == {lease[p] : p \in Procs} \ {NoConn}

Init ==
  /\ free = {}
  /\ lease = [p \in Procs |-> NoConn]

Take(p) == \E c \in free :
  /\ lease[p] = NoConn
  /\ free' = free \ {c}
  /\ lease' = [lease EXCEPT ![p] = c]

Open(p) == \E c \in Conns \ (free \cup Leased) :
  /\ lease[p] = NoConn
  /\ lease' = [lease EXCEPT ![p] = c]
  /\ UNCHANGED free

GiveBack(p) ==
  /\ lease[p] # NoConn
  /\ free' = free \cup {lease[p]}
  /\ lease' = [lease EXCEPT ![p] = NoConn]

Drop(p) ==
  /\ lease[p] # NoConn
  /\ lease' = [lease EXCEPT ![p] = NoConn]
  /\ UNCHANGED free

Next == \E p \in Procs : Take(p) \/ Open(p) \/ GiveBack(p) \/ Drop(p)

Spec == Init /\ [][Next]_vars
=============================================================================
