------------------------------ MODULE SlipBridge ------------------------------
(***************************************************************************)
(* The bridge of the border router to the host at its serial line          *)
(* (slip-bridge.c): frames of the host, which are commands or packets to   *)
(* forward, and packets of the mesh that have no route and go to the host. *)
(* Both pass through the one packet buffer of uIP, and a command leaves in *)
(* it whatever it does not overwrite.                                      *)
(*                                                                         *)
(* BorderRouter composes these steps with the router's own process.        *)
(* An operator Name_Fault is a wrong version of Name, kept to show that    *)
(* the properties notice it; no action uses one.                           *)
(***************************************************************************)
CONSTANTS
  Hosts,    \* source addresses of packets that come over the serial line
  Nodes,    \* source addresses of packets that come from the mesh
  NOBODY    \* no address of either kind

ASSUME AddressAssumption ==
  /\ Hosts \intersect Nodes = {}
  /\ NOBODY \notin Hosts \union Nodes

VARIABLES
  buf,         \* the source address field of uip_buf
  last_sender,
  wire,        \* what output() made of the last packet: sent for this source,
               \* or NOBODY when it was dropped
  roaming,     \* packets of hosts that the mesh may send back
  fresh,       \* history: the host of the last frame, if that was a packet
  stray        \* history: the last frame was a command the bridge does not know

bridge == <<buf, last_sender, wire, roaming, fresh, stray>>

\* What the host sends: a packet, the command that sets the prefix, the one
\* that asks for the address, or another one.
Commands == {"!P", "?M", "other"}
Frames   == Hosts \union Commands

BridgeInit ==
  /\ buf = NOBODY /\ last_sender = NOBODY /\ wire = NOBODY
  /\ roaming = {} /\ fresh = NOBODY /\ stray = FALSE

\* slip_input_callback() ends by saving the source address in the buffer, for
\* commands too.  "!P" and the answer to "?M" have overwritten a part of that
\* field, other commands are shorter and leave the field of the last packet.
SourceField_Unanswered(f) ==
  IF f \in Hosts THEN f ELSE IF f = "!P" THEN NOBODY ELSE buf
SourceField(f) ==
  IF f \in Hosts THEN f ELSE IF f \in {"!P", "?M"} THEN NOBODY ELSE buf

SaveSender_First(f) == last_sender' = buf
SaveSender(f) == last_sender' = SourceField(f)

FrameIn(f) ==
  /\ SaveSender(f)
  /\ buf' = SourceField(f)
  /\ fresh' = IF f \in Hosts THEN f ELSE NOBODY
  /\ stray' = (f = "other")

\* A packet of the host, handed to the stack at once: it is for the router, it
\* goes into the mesh, or it has no route and output() drops it.
Packet(h) ==
  /\ h \in Hosts
  /\ FrameIn(h)
  /\ \/ UNCHANGED <<wire, roaming>>
     \/ roaming' = roaming \union {h} /\ UNCHANGED wire
     \/ wire' = NOBODY /\ UNCHANGED roaming

\* output(): nothing goes back to the one who sent it.
Output(src) == wire' = IF last_sender = src THEN NOBODY ELSE src

\* A packet of a node, on its way out of the mesh.
FromMesh(n) ==
  /\ n \in Nodes
  /\ buf' = n
  /\ Output(n)
  /\ UNCHANGED <<last_sender, roaming, fresh, stray>>

\* A packet of a host that finds no route in the mesh and comes back.
Returned(h) ==
  /\ h \in roaming
  /\ roaming' = roaming \ {h}
  /\ buf' = h
  /\ Output(h)
  /\ UNCHANGED <<last_sender, fresh, stray>>

------------------------------------------------------------------------------
BridgeTypeOK ==
  /\ {buf, last_sender, wire, fresh} \subseteq Hosts \union Nodes \union {NOBODY}
  /\ roaming \subseteq Hosts
  /\ stray \in BOOLEAN
==============================================================================
