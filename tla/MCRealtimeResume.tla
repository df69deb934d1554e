-------------------------- MODULE MCRealtimeResume --------------------------
(* Instances of RealtimeResume for TLC. *)
EXTENDS RealtimeResume

CONSTANTS c, d, x, y

\* Every document is put into c.
AllInC == [id \in Ids |-> {c}]
=============================================================================
