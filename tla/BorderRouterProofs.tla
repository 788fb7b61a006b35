-------------------------- MODULE BorderRouterProofs --------------------------
(***************************************************************************)
(* Proofs about BorderRouter and its SlipBridge, for any hosts, nodes and  *)
(* prefixes, in both builds.  They need no fairness.                       *)
(***************************************************************************)
EXTENDS BorderRouter, TLAPS

\* The router sends only when it runs; a prefix comes from where the build takes
\* one, and the router runs only when it has one and has tried to create its DAG.
Root ==
  /\ radio \/ wire # NOBODY => at = "running"
  /\ at = "running" => rpl_prefix # NONE /\ dag \in Source \union {"failed"}
  /\ rpl_prefix \in Source \union {NONE}
  /\ told # NONE => with_slip /\ told \in Prefixes
  /\ hostaddr => ~ with_slip

\* What last_sender says about the last frame.
Senders ==
  /\ fresh # NOBODY => last_sender = fresh
  /\ last_sender \in Nodes => stray

RouterType ==
  /\ with_slip \in BOOLEAN /\ radio \in BOOLEAN /\ led \in BOOLEAN
  /\ hostaddr \in BOOLEAN /\ asked \in BOOLEAN
  /\ bouncing \in BOOLEAN /\ pressed \in BOOLEAN
  /\ at \in {"boot", "waiting", "running"}
  /\ rpl_prefix \in Prefixes \union {FIXED, NONE}
  /\ told \in Prefixes \union {FIXED, NONE}
  /\ dag \in Prefixes \union {FIXED, NONE, "failed"}
  /\ timer \in {"off", "running", "due"}
  /\ stat_prescaler \in 0..(STAT_INTERVAL - 1)
  /\ version \in 0..(Versions - 1)

IInv == RouterType /\ BridgeTypeOK /\ Root /\ Senders

------------------------------------------------------------------------------
(* The bridge by itself.                                                    *)

\* A frame of the host keeps what the bridge says about senders, and sends
\* nothing.
LEMMA FrameKeeps ==
  ASSUME IInv, NEW f \in Frames, FrameIn(f)
  PROVE  /\ Senders'
         /\ buf' \in Hosts \union Nodes \union {NOBODY}
         /\ last_sender' \in Hosts \union Nodes \union {NOBODY}
         /\ fresh' \in Hosts \union Nodes \union {NOBODY}
         /\ stray' \in BOOLEAN
<1>1. /\ last_sender' = SourceField(f) /\ buf' = SourceField(f)
      /\ fresh' = IF f \in Hosts THEN f ELSE NOBODY
      /\ stray' <=> (f = "other")
  BY DEF FrameIn, SaveSender
<1>2. stray' \in BOOLEAN
  BY DEF FrameIn
<1>3. buf \in Hosts \union Nodes \union {NOBODY}
  BY DEF IInv, BridgeTypeOK
<1>4. CASE f \in Hosts
  <2>1. SourceField(f) = f /\ f \notin Nodes
    BY <1>4, AddressAssumption DEF SourceField
  <2>2. QED
    BY <1>1, <1>2, <1>4, <2>1 DEF Senders
<1>5. CASE f \notin Hosts /\ f \in {"!P", "?M"}
  <2>1. SourceField(f) = NOBODY /\ NOBODY \notin Nodes
    BY <1>5, AddressAssumption DEF SourceField
  <2>2. QED
    BY <1>1, <1>2, <1>5, <2>1 DEF Senders
<1>6. CASE f \notin Hosts /\ f = "other"
  <2>1. SourceField(f) = buf
    BY <1>6 DEF SourceField
  <2>2. QED
    BY <1>1, <1>2, <1>3, <1>6, <2>1 DEF Senders
<1>7. QED
  BY <1>4, <1>5, <1>6 DEF Frames, Commands

\* Steps of the bridge leave the rest of the router alone.
LEMMA BridgeStep ==
  ASSUME IInv, BridgeTypeOK', Senders', UNCHANGED local,
         rpl_prefix' = rpl_prefix \/ (told # NONE /\ rpl_prefix' = told),
         told' # NONE => with_slip /\ told' \in Prefixes, asked' \in BOOLEAN,
         wire' # NOBODY => at = "running"
  PROVE  IInv'
<1>1. RouterType'
  BY DEF IInv, RouterType, Root, local, button
<1>2. Root'
  BY RouterAssumption DEF IInv, Root, Source, local
<1>3. QED
  BY <1>1, <1>2 DEF IInv

\* Steps of the router leave the bridge alone.
LEMMA RouterStep ==
  ASSUME IInv, UNCHANGED bridge, RouterType', Root'
  PROVE  IInv'
<1>1. BridgeTypeOK' /\ Senders'
  BY DEF IInv, BridgeTypeOK, Senders, bridge
<1>2. QED
  BY <1>1 DEF IInv

------------------------------------------------------------------------------
(* The process.                                                             *)

LEMMA InitInv == Init => IInv
<1> SUFFICES ASSUME Init PROVE IInv
  OBVIOUS
<1>1. RouterType
  <2>1. /\ with_slip \in BOOLEAN /\ radio \in BOOLEAN /\ led \in BOOLEAN
        /\ hostaddr \in BOOLEAN /\ asked \in BOOLEAN
        /\ bouncing \in BOOLEAN /\ pressed \in BOOLEAN
    BY DEF Init
  <2>2. stat_prescaler \in 0..(STAT_INTERVAL - 1) /\ version \in 0..(Versions - 1)
    BY RouterAssumption DEF Init
  <2>3. QED
    BY <2>1, <2>2 DEF Init, RouterType
<1>2. BridgeTypeOK /\ Root /\ Senders
  BY AddressAssumption DEF Init, BridgeInit, BridgeTypeOK, Root, Source, Senders
<1>3. QED
  BY <1>1, <1>2 DEF IInv

LEMMA StartupInv == ASSUME IInv, Startup PROVE IInv'
<1>1. /\ at \in {"boot", "waiting"} /\ timer' = "running"
      /\ UNCHANGED <<with_slip, stat_prescaler, hostaddr, told, button, version, bridge>>
  BY DEF Startup
<1>2. ~ radio /\ wire = NOBODY /\ wire' = wire
  BY <1>1 DEF IInv, Root, bridge
<1>3. CASE BecomeRoot
  <2>1. /\ PrefixKnown
        /\ rpl_prefix' = IF rpl_prefix = NONE /\ hostaddr THEN FIXED ELSE rpl_prefix
        /\ at' = "running" /\ radio' = TRUE /\ led' = FALSE /\ asked' = asked
    BY <1>3 DEF BecomeRoot
  <2>2. rpl_prefix' # NONE /\ rpl_prefix' \in Prefixes \union {FIXED}
        /\ rpl_prefix' \in Source
    BY <2>1, RouterAssumption DEF PrefixKnown, IInv, RouterType, Root, Source
  <2>3. dag' \in {rpl_prefix', "failed"}
    BY <1>3, <2>2 DEF BecomeRoot, CreateDag
  <2>4. Root'
    BY <1>1, <2>1, <2>2, <2>3 DEF IInv, Root, Source
  <2>5. RouterType'
    BY <1>1, <2>1, <2>2, <2>3 DEF IInv, RouterType, button
  <2>6. QED
    BY <1>1, <2>4, <2>5, RouterStep
<1>4. CASE AskAndWait
  <2>1. /\ asked' \in BOOLEAN /\ led' \in BOOLEAN
        /\ at' = "waiting" /\ rpl_prefix' = NONE /\ dag' = dag /\ radio' = radio
    <3>1. asked' \in BOOLEAN /\ led' \in BOOLEAN
      BY <1>4 DEF AskAndWait, Request
    <3>2. QED
      BY <1>4, <3>1 DEF AskAndWait
  <2>2. Root'
    BY <1>1, <1>2, <2>1 DEF IInv, Root, Source
  <2>3. RouterType'
    BY <1>1, <2>1 DEF IInv, RouterType, button
  <2>4. QED
    BY <1>1, <2>2, <2>3, RouterStep
<1>5. QED
  BY <1>3, <1>4 DEF Startup

LEMMA HeartbeatInv == ASSUME IInv, Heartbeat PROVE IInv'
<1>1. stat_prescaler' \in 0..(STAT_INTERVAL - 1)
  <2>1. Stats \in 0..(STAT_INTERVAL - 1)
    BY RouterAssumption DEF Stats, IInv, RouterType
  <2>2. QED
    BY <2>1 DEF Heartbeat, IInv, RouterType
<1>2. led' \in BOOLEAN /\ timer' = "running"
  BY DEF Heartbeat, SetBlink
<1>3. RouterType'
  BY <1>1, <1>2 DEF Heartbeat, IInv, RouterType, line, button
<1>4. Root' /\ UNCHANGED bridge
  BY DEF Heartbeat, IInv, Root, Source, line, bridge
<1>5. QED
  BY <1>3, <1>4, RouterStep

LEMMA ButtonInv == ASSUME IInv, ButtonEvent \/ ButtonEdge \/ DebounceExpires PROVE IInv'
<1>1. bouncing' \in BOOLEAN /\ pressed' \in BOOLEAN
  BY DEF ButtonEvent, ButtonEdge, DebounceExpires, IInv, RouterType
<1>2. version' \in 0..(Versions - 1)
  <2>1. (version + 1) % Versions \in 0..(Versions - 1)
    BY RouterAssumption DEF IInv, RouterType
  <2>2. QED
    BY <2>1 DEF ButtonEvent, ButtonEdge, DebounceExpires, IInv, RouterType
<1>3. UNCHANGED <<with_slip, at, rpl_prefix, dag, radio, led, timer,
                  stat_prescaler, hostaddr, asked, told, bridge>>
  BY DEF ButtonEvent, ButtonEdge, DebounceExpires, line
<1>4. RouterType'
  BY <1>1, <1>2, <1>3 DEF IInv, RouterType
<1>5. Root'
  BY <1>3 DEF IInv, Root, Source, bridge
<1>6. QED
  BY <1>3, <1>4, <1>5, RouterStep

LEMMA ClockInv == ASSUME IInv, TimerExpires \/ DhcpDone PROVE IInv'
<1>1. timer' \in {"off", "running", "due"} /\ hostaddr' \in BOOLEAN
  BY DEF TimerExpires, DhcpDone, IInv, RouterType
<1>2. UNCHANGED <<with_slip, at, rpl_prefix, dag, radio, led,
                  stat_prescaler, asked, told, bouncing, pressed, version, bridge>>
      /\ (hostaddr' => hostaddr \/ ~ with_slip)
  BY DEF TimerExpires, DhcpDone, line, button
<1>3. RouterType'
  BY <1>1, <1>2 DEF IInv, RouterType
<1>4. Root'
  BY <1>2 DEF IInv, Root, Source, bridge
<1>5. QED
  BY <1>2, <1>3, <1>4, RouterStep

------------------------------------------------------------------------------
(* The host, the line and the mesh.                                         *)

LEMMA LineInv ==
  ASSUME IInv, Lost \/ \E p \in Prefixes : HostTells(p)
  PROVE  IInv'
<1>1. UNCHANGED local /\ UNCHANGED rpl_prefix /\ UNCHANGED bridge
  BY DEF Lost, HostTells
<1>2. asked' \in BOOLEAN
  BY DEF Lost, HostTells
<1>3. told' # NONE => with_slip /\ told' \in Prefixes
  BY DEF Lost, HostTells
<1>4. BridgeTypeOK' /\ Senders' /\ wire' = wire
  BY <1>1 DEF IInv, BridgeTypeOK, Senders, bridge
<1>5. wire' # NOBODY => at = "running"
  BY <1>4 DEF IInv, Root
<1>6. QED
  BY <1>1, <1>2, <1>3, <1>4, <1>5, BridgeStep DEF IInv, Root

LEMMA PrefixInInv == ASSUME IInv, PrefixIn PROVE IInv'
<1>1. /\ UNCHANGED local /\ asked' = asked /\ wire' = wire /\ roaming' = roaming
      /\ rpl_prefix' = told /\ told # NONE /\ told' = NONE /\ FrameIn("!P")
  BY DEF PrefixIn
<1>2. BridgeTypeOK' /\ Senders'
  BY <1>1, FrameKeeps DEF Frames, Commands, IInv, BridgeTypeOK
<1>3. wire' # NOBODY => at = "running"
  BY <1>1 DEF IInv, Root
<1>4. asked' \in BOOLEAN
  BY <1>1 DEF IInv, RouterType
<1>5. QED
  BY <1>1, <1>2, <1>3, <1>4, BridgeStep DEF IInv, Root

LEMMA CommandInInv == ASSUME IInv, CommandIn PROVE IInv'
<1>1. PICK f \in {"?M", "other"} : FrameIn(f)
  BY DEF CommandIn
<1>2. UNCHANGED <<local, rpl_prefix, asked, told, wire, roaming>>
  BY DEF CommandIn, line
<1>3. BridgeTypeOK' /\ Senders'
  BY <1>1, <1>2, FrameKeeps DEF Frames, Commands, IInv, BridgeTypeOK
<1>4. wire' # NOBODY => at = "running"
  BY <1>2 DEF IInv, Root
<1>5. asked' \in BOOLEAN
  BY <1>2 DEF IInv, RouterType
<1>6. QED
  BY <1>2, <1>3, <1>4, <1>5, BridgeStep DEF IInv, Root

LEMMA PacketInInv == ASSUME IInv, PacketIn PROVE IInv'
<1>1. PICK h \in Hosts : Packet(h)
  BY DEF PacketIn
<1>2. UNCHANGED <<local, rpl_prefix, asked, told>>
  BY DEF PacketIn, line
<1>3. /\ FrameIn(h) /\ wire' \in {wire, NOBODY}
      /\ roaming' \in {roaming, roaming \union {h}}
  BY <1>1 DEF Packet
<1>4. BridgeTypeOK' /\ Senders'
  BY <1>3, FrameKeeps DEF Frames, IInv, BridgeTypeOK
<1>5. wire' # NOBODY => at = "running"
  BY <1>3 DEF IInv, Root
<1>6. asked' \in BOOLEAN
  BY <1>2 DEF IInv, RouterType
<1>7. QED
  BY <1>2, <1>4, <1>5, <1>6, BridgeStep DEF IInv, Root

LEMMA MeshOutInv == ASSUME IInv, MeshOut PROVE IInv'
<1>1. /\ radio /\ UNCHANGED <<local, rpl_prefix, asked, told>>
      /\ UNCHANGED <<last_sender, fresh>>
      /\ roaming' \subseteq roaming
      /\ \E a \in Hosts \union Nodes : buf' = a /\ wire' \in {NOBODY, a}
  BY DEF MeshOut, FromMesh, Returned, Output, line, IInv, BridgeTypeOK
<1>2. stray' = stray
  BY DEF MeshOut, FromMesh, Returned
<1>3. BridgeTypeOK'
  BY <1>1, <1>2 DEF IInv, BridgeTypeOK
<1>4. Senders'
  BY <1>1, <1>2 DEF IInv, Senders
<1>5. at = "running"
  BY <1>1 DEF IInv, Root
<1>6. asked' \in BOOLEAN
  BY <1>1 DEF IInv, RouterType
<1>7. QED
  BY <1>1, <1>3, <1>4, <1>5, <1>6, BridgeStep DEF IInv, Root

LEMMA Inductive == Spec => []IInv
<1>1. ASSUME IInv, [Next]_vars PROVE IInv'
  <2>1. CASE Startup
    BY <1>1, <2>1, StartupInv
  <2>2. CASE Heartbeat
    BY <1>1, <2>2, HeartbeatInv
  <2>3. CASE ButtonEvent \/ ButtonEdge \/ DebounceExpires
    BY <1>1, <2>3, ButtonInv
  <2>4. CASE TimerExpires \/ DhcpDone
    BY <1>1, <2>4, ClockInv
  <2>5. CASE Lost \/ \E p \in Prefixes : HostTells(p)
    BY <1>1, <2>5, LineInv
  <2>6. CASE PrefixIn
    BY <1>1, <2>6, PrefixInInv
  <2>7. CASE CommandIn
    BY <1>1, <2>7, CommandInInv
  <2>8. CASE PacketIn
    BY <1>1, <2>8, PacketInInv
  <2>9. CASE MeshOut
    BY <1>1, <2>9, MeshOutInv
  <2>10. CASE UNCHANGED vars
    <3>1. RouterType' /\ Root' /\ UNCHANGED bridge
      BY <1>1, <2>10 DEF vars, line, button, bridge, IInv, RouterType, Root, Source
    <3>2. QED
      BY <1>1, <3>1, RouterStep
  <2>11. QED
    BY <1>1, <2>1, <2>2, <2>3, <2>4, <2>5, <2>6, <2>7, <2>8, <2>9, <2>10 DEF Next
<1>2. QED
  BY <1>1, InitInv, PTL DEF Spec

------------------------------------------------------------------------------
(* The theorems.                                                            *)

\* Every variable of the router and its bridge keeps its type.
THEOREM TypeCorrect == Spec => []TypeOK
<1>1. IInv => TypeOK
  BY DEF IInv, RouterType, TypeOK
<1>2. QED
  BY <1>1, Inductive, PTL

\* No radio before the router has a prefix and has tried to become root with one,
\* whatever comes over the serial line, in whatever order, and whatever is lost
\* there.
THEOREM QuietBeforePrefix == Spec => []RadioWaitsForPrefix
<1>1. IInv => RadioWaitsForPrefix
  BY RouterAssumption DEF IInv, Root, Source, RadioWaitsForPrefix
<1>2. QED
  BY <1>1, Inductive, PTL

\* The suppression of bounces takes no packet of a node for one of a host, unless
\* a command it does not know came last.
THEOREM NodesGetThrough == Spec => NodesAreForwarded
<1>1. ASSUME IInv PROVE \A n \in Nodes : FromMesh(n) => wire' = n \/ stray
  BY <1>1 DEF IInv, Senders, FromMesh, Output
<1>2. QED
  BY <1>1, Inductive, PTL DEF NodesAreForwarded

\* ... and does suppress the bounce of the packet that came last.
THEOREM BounceSuppressed == Spec => NoBounce
<1>1. ASSUME IInv
      PROVE  \A h \in Hosts : Returned(h) /\ fresh = h => wire' = NOBODY
  BY <1>1, AddressAssumption DEF IInv, Senders, Returned, Output
<1>2. QED
  BY <1>1, Inductive, PTL DEF NoBounce
==============================================================================
