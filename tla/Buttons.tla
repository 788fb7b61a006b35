------------------------------- MODULE Buttons -------------------------------
(***************************************************************************)
(* The button driver of the RC-CC1310 board (rccc1310/button-sensor.c) and *)
(* the process of the demo that acts on it.  The pins change when the user *)
(* likes; the GPIO hardware latches an edge of an enabled key; the handler *)
(* runs as an interrupt, reads the pin as it is by then, and leaves a flag *)
(* for Contiki's sensors process, which later posts the event.             *)
(*                                                                         *)
(* Time passes in ticks of the system clock.  An interrupt is served       *)
(* before the next tick, but not before the pin may change again.          *)
(*                                                                         *)
(* An operator Name_Fault is a wrong version of Name, kept to show that    *)
(* the properties below notice it; no action uses one.                     *)
(***************************************************************************)
EXTENDS Integers

CONSTANTS
  Keys,              \* the keys in use, of those below
  DEBOUNCE_DURATION, \* ticks, CLOCK_SECOND >> 5 in the code
  LongPress,         \* ticks, CLOCK_SECOND * 5 in the code
  MaxTicks           \* bound on measured times, which stop counting there

ASSUME KeysAssumption ==
  Keys \subseteq {"SELECT", "LEFT", "RIGHT", "UP", "DOWN"}
ASSUME TicksAssumption ==
  /\ DEBOUNCE_DURATION \in Nat \ {0}
  /\ LongPress \in Nat /\ MaxTicks \in Nat
  /\ DEBOUNCE_DURATION < MaxTicks /\ LongPress < MaxTicks

VARIABLES
  on,        \* the device runs; FALSE after lpm_shutdown()
  pin,       \* the level of each key's pin; a pressed key is low
  edge,      \* an edge is latched and its interrupt still to be served
  enabled,   \* IOC_INT_ENABLE of each key
  debounce,  \* ticks until the debounce timer has expired
  since,     \* clock_time() - start, up to MaxTicks
  duration,
  changed,   \* sensors_changed() was called and the event not delivered yet
  demo,      \* what the demo process did about its last button event
  seen,      \* history: start was set since the device was started
  counting,  \* history: a press was taken and its release not yet
  hold,      \* history: "since" when the key was last let go
  run,       \* history: ticks the key has been up, up to DEBOUNCE_DURATION
  gap,       \* history: the longest time up between two presses since start
  unseen,    \* history: no interrupt was served since the key went down
  missed     \* history: since start, the key was down and up again before an
             \* interrupt was served, or changed while it was disabled

hardware == <<on, pin, edge, enabled>>
driver   == <<debounce, since, duration, changed, demo>>
history  == <<seen, counting, hold, run, gap, unseen, missed>>
vars     == <<hardware, driver, history>>

Level == {"high", "low"}

Up(n, bound) == IF n < bound THEN n + 1 ELSE n
Longer(m, n) == IF m < n THEN n ELSE m

------------------------------------------------------------------------------
(* button-sensor.h.  value() compares the type with these in this order.    *)

BUTTON_SENSOR_VALUE_STATE    == 0
BUTTON_SENSOR_VALUE_DURATION == 0

BUTTON_SENSOR_VALUE_RELEASED == 0
BUTTON_SENSOR_VALUE_PRESSED  == 1

value(k, type) ==
  IF type = BUTTON_SENSOR_VALUE_STATE
  THEN IF pin[k] = "low" THEN BUTTON_SENSOR_VALUE_PRESSED
                         ELSE BUTTON_SENSOR_VALUE_RELEASED
  ELSE IF type = BUTTON_SENSOR_VALUE_DURATION THEN duration[k] ELSE 0

\* status(): the interrupt of the key is enabled.
status(k) == on /\ enabled[k]

------------------------------------------------------------------------------
\* The memory of the driver when the device starts, and what SENSORS_HW_INIT
\* makes of the keys: pending events are cleared, interrupts enabled.
No   == [k \in Keys |-> FALSE]
Zero == [k \in Keys |-> 0]

Init ==
  /\ on = TRUE
  /\ pin \in [Keys -> Level]
  /\ edge = No /\ enabled = [k \in Keys |-> TRUE]
  /\ debounce = Zero /\ since = Zero /\ duration = Zero
  /\ changed = No /\ demo = "nothing"
  /\ seen = No /\ counting = No /\ hold = Zero /\ run = Zero /\ gap = Zero
  /\ unseen = No /\ missed = No

Fresh ==
  /\ edge' = No /\ enabled' = [k \in Keys |-> TRUE]
  /\ debounce' = Zero /\ since' = Zero /\ duration' = Zero
  /\ changed' = No /\ demo' = "nothing"
  /\ seen' = No /\ counting' = No /\ hold' = Zero /\ run' = Zero /\ gap' = Zero
  /\ unseen' = No /\ missed' = No

------------------------------------------------------------------------------
(* The user.                                                                *)

Latch(k) == edge' = [edge EXCEPT ![k] = @ \/ status(k)]

Press(k) ==
  /\ pin[k] = "high"
  /\ pin' = [pin EXCEPT ![k] = "low"]
  /\ Latch(k)
  /\ gap' = [gap EXCEPT ![k] = Longer(@, run[k])]
  /\ unseen' = [unseen EXCEPT ![k] = TRUE]
  /\ missed' = [missed EXCEPT ![k] = @ \/ ~status(k)]
  /\ UNCHANGED <<on, enabled, driver, seen, counting, hold, run>>

Release(k) ==
  /\ pin[k] = "low"
  /\ pin' = [pin EXCEPT ![k] = "high"]
  /\ Latch(k)
  /\ hold' = [hold EXCEPT ![k] = since[k]]
  /\ run' = [run EXCEPT ![k] = 0]
  /\ missed' = [missed EXCEPT ![k] = @ \/ ~status(k) \/ unseen[k]]
  /\ UNCHANGED <<on, enabled, driver, seen, counting, gap, unseen>>

------------------------------------------------------------------------------
(* button_press_handler().                                                  *)

\* A press starts the measurement ...
StartPress_Continues(k) ==
  /\ since' = IF counting[k] THEN since ELSE [since EXCEPT ![k] = 0]
  /\ gap' = IF counting[k] THEN gap ELSE [gap EXCEPT ![k] = 0]
  /\ duration' = [duration EXCEPT ![k] = 0]
  /\ seen' = [seen EXCEPT ![k] = TRUE]
  /\ counting' = [counting EXCEPT ![k] = TRUE]
  /\ missed' = [missed EXCEPT ![k] = FALSE]
  /\ UNCHANGED changed

StartPress(k) ==
  /\ since' = [since EXCEPT ![k] = 0]
  /\ duration' = [duration EXCEPT ![k] = 0]
  /\ seen' = [seen EXCEPT ![k] = TRUE]
  /\ counting' = [counting EXCEPT ![k] = TRUE]
  /\ gap' = [gap EXCEPT ![k] = 0]
  /\ missed' = [missed EXCEPT ![k] = FALSE]
  /\ UNCHANGED changed

\* ... and a release ends it and tells the sensors process.
EndPress(k) ==
  /\ duration' = [duration EXCEPT ![k] = since[k]]
  /\ changed' = [changed EXCEPT ![k] = TRUE]
  /\ counting' = [counting EXCEPT ![k] = FALSE]
  /\ UNCHANGED <<since, seen, gap, missed>>

\* The debounce timer of an edge that is taken.
SetDebounce_Longer(k) ==
  debounce' = [debounce EXCEPT ![k] = DEBOUNCE_DURATION + 1]
SetDebounce_Never(k) == UNCHANGED debounce
SetDebounce(k) == debounce' = [debounce EXCEPT ![k] = DEBOUNCE_DURATION]

\* The edges of any key but RIGHT.
Edge(k) ==
  /\ IF debounce[k] > 0
     THEN UNCHANGED <<debounce, since, duration, changed, seen, counting, gap,
                      missed>>
     ELSE /\ SetDebounce(k)
          /\ IF pin[k] = "low" THEN StartPress(k) ELSE EndPress(k)
  /\ edge' = [edge EXCEPT ![k] = FALSE]
  /\ unseen' = [unseen EXCEPT ![k] = FALSE]
  /\ UNCHANGED <<on, pin, enabled, demo, hold, run>>

\* RIGHT shuts the device down, at either edge: lpm_shutdown() does not return,
\* and the device starts afresh when the pin is low.
Shutdown ==
  /\ on' = FALSE
  /\ Fresh
  /\ UNCHANGED pin

Interrupt(k) ==
  /\ on /\ edge[k]
  /\ IF k = "RIGHT" THEN Shutdown ELSE Edge(k)

WakeUp ==
  /\ ~on
  /\ "RIGHT" \in Keys /\ pin["RIGHT"] = "low"
  /\ on' = TRUE
  /\ Fresh
  /\ UNCHANGED pin

(* config_buttons(), SENSORS_ACTIVE: no pending edge survives an activation. *)
Activate(k) ==
  /\ on
  /\ enabled' = [enabled EXCEPT ![k] = TRUE]
  /\ edge' = [edge EXCEPT ![k] = FALSE]
  /\ missed' = [missed EXCEPT ![k] = @ \/ edge[k]]
  /\ UNCHANGED <<on, pin, driver, seen, counting, hold, run, gap, unseen>>

Deactivate(k) ==
  /\ on
  /\ enabled' = [enabled EXCEPT ![k] = FALSE]
  /\ edge' = [edge EXCEPT ![k] = FALSE]
  /\ missed' = [missed EXCEPT ![k] = @ \/ edge[k]]
  /\ UNCHANGED <<on, pin, driver, seen, counting, hold, run, gap, unseen>>

------------------------------------------------------------------------------
\* The sensors process posts the event.  The demo process listens to LEFT: it
\* asks for the duration of the press, and restores the defaults or takes new
\* readings and has them published.
Deliver(k) ==
  /\ changed[k]
  /\ changed' = [changed EXCEPT ![k] = FALSE]
  /\ demo' = IF k # "LEFT" THEN demo
             ELSE IF value(k, BUTTON_SENSOR_VALUE_DURATION) > LongPress
                  THEN "defaults" ELSE "publish"
  /\ UNCHANGED <<hardware, debounce, since, duration, history>>

Tick ==
  /\ on
  /\ \A k \in Keys : ~edge[k]
  /\ debounce' = [k \in Keys |-> IF debounce[k] > 0 THEN debounce[k] - 1 ELSE 0]
  /\ since' = [k \in Keys |-> Up(since[k], MaxTicks)]
  /\ run' = [k \in Keys |-> IF pin[k] = "high"
                            THEN Up(run[k], DEBOUNCE_DURATION) ELSE run[k]]
  /\ UNCHANGED <<hardware, duration, changed, demo, seen, counting, hold, gap,
                 unseen, missed>>

Next ==
  \/ Tick \/ WakeUp
  \/ \E k \in Keys :
       \/ Press(k) \/ Release(k) \/ Interrupt(k)
       \/ Activate(k) \/ Deactivate(k) \/ Deliver(k)

Spec == Init /\ [][Next]_vars

------------------------------------------------------------------------------
TypeOK ==
  /\ on \in BOOLEAN
  /\ pin \in [Keys -> Level]
  /\ {edge, enabled, changed, seen, counting, unseen, missed}
       \subseteq [Keys -> BOOLEAN]
  /\ {debounce, run, gap} \subseteq [Keys -> 0..DEBOUNCE_DURATION]
  /\ {since, duration, hold} \subseteq [Keys -> 0..MaxTicks]
  /\ demo \in {"nothing", "publish", "defaults"}

\* What is measured is one press: between the edge that set "start" and now the
\* key was never let go for as long as the debounce time and pressed again,
\* however the lock-out of the debounce timer falls on the edges.  Not so if
\* the key went down and up before the interrupt was served, or was disabled.
DurationIsOnePress ==
  \A k \in Keys :
    seen[k] /\ ~edge[k] => missed[k] \/ gap[k] < DEBOUNCE_DURATION

\* A press that was taken is reported when the key is let go, unless it was
\* let go within the debounce time.
OnlyShortPressesLost ==
  \A k \in Keys :
    counting[k] /\ pin[k] = "high" /\ ~edge[k] =>
      missed[k] \/ hold[k] < DEBOUNCE_DURATION

\* No bounce is reported as a press: once a press has been taken since the
\* start, a duration is zero (a new press has begun) or at least the debounce
\* time, whatever edges were swallowed and whatever keys were disabled.
NoBounceReported ==
  \A k \in Keys : changed[k] /\ seen[k] =>
    duration[k] = 0 \/ duration[k] >= DEBOUNCE_DURATION
==============================================================================
