------------------------------ MODULE MCButtons ------------------------------
(* Instance of Buttons for TLC. *)
EXTENDS Buttons

\* One key that is debounced and has a listener, and the key that shuts down.
TwoKeys == {"LEFT", "RIGHT"}
==============================================================================
