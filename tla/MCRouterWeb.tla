----------------------------- MODULE MCRouterWeb -----------------------------
(* RouterWeb with the two connections of the code, for TLC.                 *)
EXTENDS RouterWeb
CONSTANTS c1, c2
MCConns == {c1, c2}
=============================================================================
