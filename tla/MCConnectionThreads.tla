------------------------ MODULE MCConnectionThreads ------------------------
(* Two connections against the kill switch.                               *)
EXTENDS ConnectionThreads

CONSTANTS c1, c2

MCConns == {c1, c2}
=============================================================================
