---------------------------- MODULE MCSockGroup ----------------------------
(* SockGroup with one and with two external interfaces. *)
EXTENDS SockGroup

CONSTANTS e1, e2

One == <<e1>>
Two == <<e1, e2>>
=============================================================================
