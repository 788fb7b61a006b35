---------------------------- MODULE MCBorderRouter ----------------------------
(* Instance of BorderRouter for TLC: two hosts, so that one can speak between  *)
(* two packets of the other.                                                  *)
EXTENDS BorderRouter
==============================================================================
