----------------------------- MODULE InfoSource -----------------------------
(***************************************************************************)
(* What the rest of the program may count on of RAClient.routerInfo        *)
(* (ra.go): NDClient reads it through ResolveFIP at any moment.  RAClient  *)
(* implements it, NDFilter takes it for its environment.                   *)
(***************************************************************************)
CONSTANTS
  RouterInfos,  \* what a router can advertise
  Prefixless,   \* those of them without a prefix
  Unset         \* routerInfo is nil

VARIABLE routerInfo

Init == routerInfo = Unset

\* soilicit takes the first advertisement and insists on a prefix; the loop that listens
\* for changes does not.
Adopt(info) ==
  /\ info \in RouterInfos
  /\ routerInfo = Unset => info \notin Prefixless
  /\ routerInfo' = info

\* The process starts over: nothing else ever takes the prefix away.
Restart == routerInfo' = Unset

Next == Restart \/ \E info \in RouterInfos : Adopt(info)

Spec == Init /\ [][Next]_routerInfo
=============================================================================
