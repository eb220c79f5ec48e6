----------------------------- MODULE MCVLANLink -----------------------------
(* The list both workers of VLANLink go through. *)
EXTENDS VLANLink

\* For example "eth0@x,eth0@10,eth0".
TaggedThenPlain == <<"malformed", "tagged", "plain">>
=============================================================================
