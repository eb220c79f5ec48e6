------------------------------ MODULE RouterOS ------------------------------
(***************************************************************************)
(* What ROSClient.SetIPv6Gateway, AssignIPv6 and ExportIPv6Pool (ros.go)   *)
(* do to the tables of the device.  Each prints a table, looks for the     *)
(* entry it wants and, if it is not there, sets the entry it owns or adds  *)
(* one.                                                                    *)
(*                                                                         *)
(* A table is what the print of one plan item may return: the default      *)
(* routes, the static addresses of one interface, the pools of one name.   *)
(* An entry is a value (gateway, address with its options, prefix with its *)
(* length) and "ours", whether it has the comment this item writes.        *)
(***************************************************************************)
EXTENDS Naturals, Sequences

Kinds == {"route", "address", "pool"}

Entries(values) == [val : values, ours : BOOLEAN]

Ours(t) == {j \in 1 .. Len(t) : t[j].ours}

Largest(S) == CHOOSE j \in S : \A k \in S : k <= j

Nothing == [op |-> "none", id |-> 0]
Add     == [op |-> "add", id |-> 0]
Set(j)  == [op |-> "set", id |-> j]

OursIsEnough(kind, t, want) == Ours(t) # {}

\* A default route with this gateway counts, whoever made it.
RouteAsWanted(t, want) == \E j \in 1 .. Len(t) : t[j].val = want

\* An address counts only with this item's comment.
AddressAsWanted(t, want) == \E j \in Ours(t) : t[j].val = want

\* Of the pools only the first one is looked at.
PoolAsWanted(t, want) == t # <<>> /\ t[1].val = want

AsWanted(kind, t, want) ==
  CASE kind = "route"   -> RouteAsWanted(t, want)
    [] kind = "address" -> AddressAsWanted(t, want)
    [] kind = "pool"    -> PoolAsWanted(t, want)

AnyEntry(kind, t) == 1 .. Len(t)

\* The entries the code takes for its own: by comment, pools by name.
Candidates(kind, t) == IF kind = "pool" THEN {j \in 1 .. Len(t) : j = 1} ELSE Ours(t)

\* The command that follows a print of t; the last of the item's own entries is the one set.
Decide(kind, t, want) ==
  IF AsWanted(kind, t, want) THEN Nothing
  ELSE IF Candidates(kind, t) = {} THEN Add
  ELSE Set(Largest(Candidates(kind, t)))

\* The device executes a command.
Execute(t, cmd, want) ==
  CASE cmd.op = "none" -> t
    [] cmd.op = "add"  -> Append(t, [val |-> want, ours |-> TRUE])
    [] cmd.op = "set"  -> [t EXCEPT ![cmd.id].val = want]

Holds(t, v) == \E j \in 1 .. Len(t) : t[j].val = v

\* At most one entry is this item's own, and pool names are unique.
OneOwn(kind, t) ==
  /\ \A j, k \in Ours(t) : j = k
  /\ kind = "pool" => Len(t) <= 1

\* Entries somebody else made, with their places.
Foreign(t) == [j \in (1 .. Len(t)) \ Ours(t) |-> t[j]]
=============================================================================
