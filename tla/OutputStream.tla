----------------------------- MODULE OutputStream -----------------------------
(***************************************************************************)
(* What the web server promises of the pages it generates piece by piece:  *)
(* the peer receives the text of the page, in order, nothing lost, nothing *)
(* twice, nothing of another page, and all of it before the connection is  *)
(* closed.  Only the end of the connection cuts a page short.              *)
(***************************************************************************)
EXTENDS SequencesExt

CONSTANTS Conns

VARIABLES
  open,       \* connections on which a page is being sent
  produced,   \* the text of the page as far as it has been generated
  delivered   \* what the peer has acknowledged

Init ==
  /\ open = {}
  /\ produced = [s \in Conns |-> <<>>]
  /\ delivered = [s \in Conns |-> <<>>]

Start(s) ==
  /\ s \notin open
  /\ open' = open \union {s}
  /\ produced' = [produced EXCEPT ![s] = <<>>]
  /\ delivered' = [delivered EXCEPT ![s] = <<>>]

Produce(s) ==
  /\ s \in open
  /\ IsPrefix(produced[s], produced'[s])
  /\ produced' = [produced EXCEPT ![s] = produced'[s]]
  /\ UNCHANGED <<open, delivered>>

Deliver(s) ==
  /\ s \in open
  /\ IsStrictPrefix(delivered[s], delivered'[s])
  /\ IsPrefix(delivered'[s], produced[s])
  /\ delivered' = [delivered EXCEPT ![s] = delivered'[s]]
  /\ UNCHANGED <<open, produced>>

Close(s) ==
  /\ s \in open
  /\ delivered[s] = produced[s]
  /\ open' = open \ {s}
  /\ UNCHANGED <<produced, delivered>>

Abort(s) ==
  /\ open' = open \ {s}
  /\ produced' = [produced EXCEPT ![s] = <<>>]
  /\ delivered' = [delivered EXCEPT ![s] = <<>>]

Next == \E s \in Conns : Start(s) \/ Produce(s) \/ Deliver(s) \/ Close(s) \/ Abort(s)

Spec == Init /\ [][Next]_<<open, produced, delivered>>
==============================================================================
