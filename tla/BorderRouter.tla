----------------------------- MODULE BorderRouter -----------------------------
(***************************************************************************)
(* The border router of the saker (border-router.c) with its SLIP bridge   *)
(* and its button (dev/button-sensor.c): wait, radio off, for a prefix or  *)
(* an IPv4 address; try to become the root; then blink, and repair the DAG *)
(* when the button is pressed.                                             *)
(*                                                                         *)
(* A step of the process runs from one event to the next.  The frames of   *)
(* the host are taken in by another process, between these steps, and may  *)
(* be lost on the line in either direction.  Both builds are covered: with *)
(* SLIP, and with IP64 and the fixed prefix.                               *)
(*                                                                         *)
(* An operator Name_Fault is a wrong version of Name, kept to show that    *)
(* the properties below notice it; no action uses one.                     *)
(***************************************************************************)
EXTENDS Integers, SlipBridge

CONSTANTS
  Prefixes,       \* the prefixes the host may announce
  FIXED,          \* fixed_rpl_prefix
  NONE,           \* no prefix, no DAG
  STAT_INTERVAL,
  Versions        \* the version of the DAG is counted modulo this bound

ASSUME RouterAssumption ==
  /\ NONE \notin Prefixes \union {FIXED, "failed"}
  /\ "failed" \notin Prefixes \union {FIXED}
  /\ STAT_INTERVAL \in Nat \ {0} /\ Versions \in Nat \ {0, 1}

VARIABLES
  with_slip,      \* the build, WITH_SLIP; it never changes
  at,             \* where the process is: boot, waiting, or up and running
  rpl_prefix,     \* NONE while rpl_prefix_set is zero
  dag,            \* NONE, "failed", or the prefix the DAG was created with
  radio,
  led,
  timer,          \* etimer et: off, running, or its event is due
  stat_prescaler,
  hostaddr,       \* DHCP has configured the IPv4 address
  asked,          \* "?P" is on the line
  told,           \* the prefix of the "!P" on the line, or NONE
  bouncing,       \* the debounce timer of the button runs
  pressed,        \* sensors_changed() was called and the event not delivered yet
  version         \* of the DAG; rpl_repair_root() increments it

line   == <<asked, told>>
button == <<bouncing, pressed>>
vars   == <<with_slip, at, rpl_prefix, dag, radio, led, timer, stat_prescaler,
            hostaddr, line, button, version, bridge>>

------------------------------------------------------------------------------
Init ==
  /\ with_slip \in BOOLEAN
  /\ at = "boot"
  /\ rpl_prefix = NONE /\ dag = NONE
  /\ radio = FALSE /\ led = FALSE
  /\ timer = "off" /\ stat_prescaler = 0
  /\ hostaddr = FALSE
  /\ asked = FALSE /\ told = NONE
  /\ bouncing = FALSE /\ pressed = FALSE
  /\ version = 0
  /\ BridgeInit

(* The process before the DAG.                                              *)

\* The condition of the loop, the IP64 way out of it included.  A prefix that
\* the host tells before the process has begun is forgotten.
PrefixKnown_AnyWakeUp == at = "waiting" \/ (~with_slip /\ hostaddr)
PrefixKnown ==
  \/ at = "waiting" /\ rpl_prefix # NONE
  \/ ~with_slip /\ hostaddr

\* create_rpl_dag(): refuses without a prefix; rpl_set_root() may fail.
CreateDag(p) == IF p = NONE THEN dag' = dag ELSE dag' \in {p, "failed"}

\* A pass of the loop that ends it: the DAG, the radio, the heartbeat.
BecomeRoot ==
  /\ PrefixKnown
  /\ rpl_prefix' = IF rpl_prefix = NONE /\ hostaddr THEN FIXED ELSE rpl_prefix
  /\ CreateDag(rpl_prefix')
  /\ at' = "running"
  /\ radio' = TRUE
  /\ led' = FALSE
  /\ UNCHANGED asked

\* One that does not: ask the host, and wait for a second.
Request_Once == asked' = (asked \/ (with_slip /\ at = "boot"))
Request == asked' = (asked \/ with_slip)

AskAndWait ==
  /\ ~PrefixKnown
  /\ Request
  /\ led' = ~led
  /\ at' = "waiting"
  /\ rpl_prefix' = NONE
  /\ UNCHANGED <<dag, radio>>

Startup ==
  /\ \/ at = "boot"
     \/ at = "waiting" /\ timer = "due"
  /\ BecomeRoot \/ AskAndWait
  /\ timer' = "running"
  /\ UNCHANGED <<with_slip, stat_prescaler, hostaddr, told, button, version, bridge>>

(* The process once it is running.                                          *)

\* The timer is set again whether the LED goes on or off.
SetBlink_OffOnly == timer' = IF led THEN "running" ELSE "off"
SetBlink == timer' = "running"

\* print_usage_stats(): every STAT_INTERVAL-th blink.
Stats == (IF stat_prescaler = 0 THEN STAT_INTERVAL ELSE stat_prescaler) - 1

Heartbeat ==
  /\ at = "running" /\ timer = "due"
  /\ SetBlink
  /\ led' = ~led
  /\ stat_prescaler' = IF led THEN stat_prescaler ELSE Stats
  /\ UNCHANGED <<with_slip, at, rpl_prefix, dag, radio, hostaddr, line, button,
                 version, bridge>>

\* The event of the button: a global repair, if there is a DAG to repair.  The
\* process does not look at it while it waits for the prefix.
ButtonEvent ==
  /\ pressed
  /\ pressed' = FALSE
  /\ version' = IF at = "running" /\ dag # "failed"
                THEN (version + 1) % Versions ELSE version
  /\ UNCHANGED <<with_slip, at, rpl_prefix, dag, radio, led, timer,
                 stat_prescaler, hostaddr, line, bouncing, bridge>>

\* btn_callback(), at an edge of the pin; the debounce timer.
ButtonEdge ==
  /\ ~bouncing
  /\ bouncing' = TRUE
  /\ pressed' = TRUE
  /\ UNCHANGED <<with_slip, at, rpl_prefix, dag, radio, led, timer,
                 stat_prescaler, hostaddr, line, version, bridge>>

DebounceExpires ==
  /\ bouncing
  /\ bouncing' = FALSE
  /\ UNCHANGED <<with_slip, at, rpl_prefix, dag, radio, led, timer,
                 stat_prescaler, hostaddr, line, pressed, version, bridge>>

TimerExpires ==
  /\ timer = "running"
  /\ timer' = "due"
  /\ UNCHANGED <<with_slip, at, rpl_prefix, dag, radio, led, stat_prescaler,
                 hostaddr, line, button, version, bridge>>

DhcpDone ==
  /\ ~with_slip /\ ~hostaddr
  /\ hostaddr' = TRUE
  /\ UNCHANGED <<with_slip, at, rpl_prefix, dag, radio, led, timer,
                 stat_prescaler, line, button, version, bridge>>

------------------------------------------------------------------------------
(* The host and the line.                                                   *)

local == <<with_slip, at, dag, radio, led, timer, stat_prescaler, hostaddr,
           button, version>>

\* The host answers the request, or announces a prefix of its own accord.
HostTells(p) ==
  /\ with_slip /\ told = NONE
  /\ told' = p
  /\ asked' = FALSE
  /\ UNCHANGED <<local, rpl_prefix, bridge>>

HostAnswers == asked /\ \E p \in Prefixes : HostTells(p)

Lost ==
  /\ asked \/ told # NONE
  /\ asked' = FALSE /\ told' = NONE
  /\ UNCHANGED <<local, rpl_prefix, bridge>>

\* The "!P" arrives: slip_input_callback(), set_rpl_prefix().
PrefixIn ==
  /\ told # NONE
  /\ rpl_prefix' = told
  /\ told' = NONE
  /\ FrameIn("!P")
  /\ UNCHANGED <<local, asked, wire, roaming>>

CommandIn ==
  /\ with_slip
  /\ \E f \in {"?M", "other"} : FrameIn(f)
  /\ UNCHANGED <<local, rpl_prefix, line, wire, roaming>>

PacketIn ==
  /\ with_slip
  /\ \E h \in Hosts : Packet(h)
  /\ radio \/ UNCHANGED roaming
  /\ UNCHANGED <<local, rpl_prefix, line>>

MeshOut ==
  /\ with_slip /\ radio
  /\ \/ \E n \in Nodes : FromMesh(n)
     \/ \E h \in roaming : Returned(h)
  /\ UNCHANGED <<local, rpl_prefix, line>>

Next ==
  \/ Startup \/ Heartbeat \/ ButtonEvent \/ ButtonEdge
  \/ DebounceExpires \/ TimerExpires \/ DhcpDone
  \/ \E p \in Prefixes : HostTells(p)
  \/ Lost \/ PrefixIn \/ CommandIn \/ PacketIn \/ MeshOut

Spec == Init /\ [][Next]_vars

(***************************************************************************)
(* Timers expire and their events are delivered; DHCP succeeds in the end. *)
(* A host that is asked again and again answers again and again, and of    *)
(* the answers sent again and again one gets through.                      *)
(***************************************************************************)
FairSpec ==
  /\ Spec
  /\ WF_vars(Startup) /\ WF_vars(Heartbeat) /\ WF_vars(TimerExpires)
  /\ WF_vars(DhcpDone)
  /\ SF_vars(HostAnswers) /\ SF_vars(PrefixIn)

------------------------------------------------------------------------------
TypeOK ==
  /\ {with_slip, radio, led, hostaddr, asked, bouncing, pressed} \subseteq BOOLEAN
  /\ at \in {"boot", "waiting", "running"}
  /\ {rpl_prefix, told} \subseteq Prefixes \union {FIXED, NONE}
  /\ dag \in Prefixes \union {FIXED, NONE, "failed"}
  /\ timer \in {"off", "running", "due"}
  /\ stat_prescaler \in 0..(STAT_INTERVAL - 1)
  /\ version \in 0..(Versions - 1)
  /\ BridgeTypeOK

\* While the radio is on the router has a prefix from where its build takes one,
\* and it has tried, with such a prefix, to become the root of a DAG; whatever the
\* host sends, and however often it changes its mind.  The comment above
\* NETSTACK_MAC.off(0) says more: that it is the root by then.  The code does not
\* ensure that, for when rpl_set_root() fails the radio is turned on all the same.
Source == IF with_slip THEN Prefixes ELSE {FIXED}
RadioWaitsForPrefix ==
  radio => rpl_prefix \in Source /\ dag \in Source \union {"failed"}

\* A packet of a node goes out to the host, whatever the host sent before it,
\* unless the last frame was a command the bridge does not know: that one made
\* the bridge take the last node for a sender on the serial line.
NodesAreForwarded ==
  [][\A n \in Nodes : FromMesh(n) => wire' = n \/ stray]_vars

\* A packet of the host that comes back from the mesh is not sent to the host
\* again, as long as no other frame has come in between.
NoBounce == [][\A h \in Hosts : Returned(h) /\ fresh = h => wire' = NOBODY]_vars

\* The router gets to the point where it creates its DAG, which may fail, though
\* requests and answers may be lost.
EventuallyRunning == <>(at = "running")

\* From then on the LED goes on blinking, whatever else the process is told.
KeepsBlinking ==
  /\ at = "running" /\ led ~> ~led
  /\ at = "running" /\ ~led ~> led
==============================================================================
