------------------------------ MODULE FormEvents ------------------------------
(***************************************************************************)
(* What the web server promises the processes whose configuration its      *)
(* forms change: once some value has been accepted, the end of a POST      *)
(* broadcasts a "new configuration" event; the flag config_ok remembers    *)
(* the acceptance until then.  Who sent what is left out.                  *)
(***************************************************************************)

VARIABLES
  config_ok,  \* a value was accepted since the last announcement
  posted      \* the event is in the process event queue

Init == config_ok = FALSE /\ posted = FALSE

\* A handler answers OK.
Accept == config_ok' = TRUE /\ UNCHANGED posted

\* A POST ends; a value may have been accepted in the same callback.
Finish ==
  /\ posted' \in {posted \/ config_ok, TRUE}
  /\ config_ok' = FALSE

Deliver ==
  /\ posted
  /\ posted' = FALSE
  /\ UNCHANGED config_ok

Next == Accept \/ Finish \/ Deliver

Spec == Init /\ [][Next]_<<config_ok, posted>>
==============================================================================
