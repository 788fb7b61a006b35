---------------------------- MODULE MCPageStream ----------------------------
(* Instances of PageStream for TLC. *)
EXTENDS PageStream

\* A value is of any length up to two characters too many.
MCLiterals == {2}
MCTexts    == {1}
MCValues   == 0..5
==============================================================================
