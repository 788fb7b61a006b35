----------------------------- MODULE MCHttpdPost -----------------------------
(* Instances of HttpdPost for TLC. *)
EXTENDS HttpdPost, TLC

\* No action, invariant or action property tells pool elements apart; only the
\* run without a liveness property uses this.
PoolSymmetry == Permutations(Conns)
==============================================================================
