----------------------------- MODULE MCRAClient -----------------------------
(* RAClient for TLC: one item of each kind, and a default route somebody else made that *)
(* may go through one of the gateways.                                                  *)
EXTENDS RAClient

CONSTANT g1

FullPlan == <<"route", "address", "pool">>
ShortPlan == <<"route", "address">>
SomeForeigners == {g1}
=============================================================================
