---------------------------- MODULE ButtonsProofs ----------------------------
(***************************************************************************)
(* Proofs about Buttons, for any set of keys and any debounce time.        *)
(***************************************************************************)
EXTENDS Buttons, TLAPS

D == DEBOUNCE_DURATION

Typed ==
  /\ on \in BOOLEAN
  /\ pin \in [Keys -> Level]
  /\ edge \in [Keys -> BOOLEAN] /\ enabled \in [Keys -> BOOLEAN]
  /\ changed \in [Keys -> BOOLEAN] /\ seen \in [Keys -> BOOLEAN]
  /\ counting \in [Keys -> BOOLEAN] /\ unseen \in [Keys -> BOOLEAN]
  /\ missed \in [Keys -> BOOLEAN]
  /\ debounce \in [Keys -> 0..D] /\ run \in [Keys -> 0..D] /\ gap \in [Keys -> 0..D]
  /\ since \in [Keys -> 0..MaxTicks] /\ duration \in [Keys -> 0..MaxTicks]
  /\ hold \in [Keys -> 0..MaxTicks]
  /\ demo \in {"nothing", "publish", "defaults"}

\* The debounce timer runs along with the two measured times: it was set when
\* the press was taken, and no later than when the key was let go.
Clocks(k) ==
  /\ seen[k] => since[k] + debounce[k] >= D
  /\ counting[k] => debounce[k] = 0 \/ since[k] + debounce[k] = D
  /\ pin[k] = "high" => run[k] + debounce[k] <= D
  /\ pin[k] = "high" /\ edge[k] => run[k] = 0

\* A press after a pause as long as the debounce time is about to be taken.
NewPress(k) ==
  seen[k] /\ ~missed[k] /\ gap[k] >= D =>
    edge[k] /\ unseen[k] /\ pin[k] = "low" /\ debounce[k] = 0

\* A release after a press as long as that is about to be taken.
NewRelease(k) ==
  counting[k] /\ ~missed[k] /\ pin[k] = "high" /\ hold[k] >= D =>
    edge[k] /\ debounce[k] = 0

Durations(k) == seen[k] => duration[k] = 0 \/ duration[k] >= D

Good(k) == Clocks(k) /\ NewPress(k) /\ NewRelease(k) /\ Durations(k)

IInv == Typed /\ \A k \in Keys : Good(k)

\* What Good says about depends on these alone.
Others(k) ==
  \A j \in Keys \ {k} :
    /\ pin'[j] = pin[j] /\ edge'[j] = edge[j] /\ debounce'[j] = debounce[j]
    /\ since'[j] = since[j] /\ duration'[j] = duration[j] /\ seen'[j] = seen[j]
    /\ counting'[j] = counting[j] /\ hold'[j] = hold[j] /\ run'[j] = run[j]
    /\ gap'[j] = gap[j] /\ unseen'[j] = unseen[j] /\ missed'[j] = missed[j]

LEMMA Numbers ==
  /\ D \in Nat \ {0} /\ MaxTicks \in Nat /\ D < MaxTicks
BY TicksAssumption DEF D

\* A step of one key.
LEMMA OneKey ==
  ASSUME IInv, NEW k \in Keys, Typed', Good(k)', Others(k)
  PROVE  IInv'
<1>1. ASSUME NEW j \in Keys \ {k} PROVE Good(j)'
  <2>1. Good(j)
    BY DEF IInv
  <2>2. QED
    BY <2>1 DEF Others, Good, Clocks, NewPress, NewRelease, Durations
<1>2. QED
  BY <1>1 DEF IInv

------------------------------------------------------------------------------
(* One lemma per action.                                                    *)

LEMMA InitInv == Init => IInv
<1> SUFFICES ASSUME Init PROVE IInv
  OBVIOUS
<1>1. Typed
  BY Numbers DEF Init, Typed, No, Zero, D
<1>2. ASSUME NEW k \in Keys PROVE Good(k)
  BY Numbers DEF Init, No, Zero, Good, Clocks, NewPress, NewRelease, Durations
<1>3. QED
  BY <1>1, <1>2 DEF IInv

LEMMA FreshInv == ASSUME IInv, Fresh, on' \in BOOLEAN, UNCHANGED pin PROVE IInv'
<1>1. Typed'
  BY Numbers DEF Fresh, IInv, Typed, No, Zero, D
<1>2. ASSUME NEW k \in Keys PROVE Good(k)'
  BY Numbers DEF Fresh, No, Zero, Good, Clocks, NewPress, NewRelease, Durations
<1>3. QED
  BY <1>1, <1>2 DEF IInv

LEMMA PressInv == ASSUME IInv, NEW k \in Keys, Press(k) PROVE IInv'
<1>1. /\ pin[k] = "high" /\ pin'[k] = "low" /\ unseen'[k] = TRUE
      /\ gap'[k] = Longer(gap[k], run[k])
      /\ edge'[k] = (edge[k] \/ status(k))
      /\ missed'[k] = (missed[k] \/ ~ status(k))
      /\ UNCHANGED <<on, enabled, debounce, since, duration, changed, demo,
                     seen, counting, hold, run>>
  BY DEF Press, Latch, driver, IInv, Typed
<1>2. Typed'
  <2>1. Longer(gap[k], run[k]) \in 0..D
    BY DEF Longer, IInv, Typed
  <2>2. pin' \in [Keys -> Level] /\ gap' \in [Keys -> 0..D]
    BY <2>1 DEF Press, IInv, Typed, Level
  <2>3. /\ edge' \in [Keys -> BOOLEAN] /\ unseen' \in [Keys -> BOOLEAN]
        /\ missed' \in [Keys -> BOOLEAN]
    BY DEF Press, Latch, status, IInv, Typed
  <2>4. QED
    BY <1>1, <2>2, <2>3 DEF IInv, Typed
<1>3. Others(k)
  BY <1>1 DEF Press, Latch, Others, IInv, Typed
<1>4. Good(k)
  BY DEF IInv
<1>5. Clocks(k)' /\ NewRelease(k)' /\ Durations(k)'
  BY <1>1, <1>4 DEF Good, Clocks, NewRelease, Durations
<1>6. NewPress(k)'
  <2>1. SUFFICES ASSUME seen'[k], ~ missed'[k], gap'[k] >= D
                 PROVE  edge'[k] /\ debounce'[k] = 0
    BY <1>1 DEF NewPress
  <2>2. seen[k] /\ ~ missed[k] /\ status(k)
    BY <1>1, <2>1
  <2>3. ~ (gap[k] >= D)
    BY <1>1, <1>4, <2>2 DEF Good, NewPress
  <2>4. run[k] = D
    BY <1>1, <2>1, <2>3, Numbers DEF Longer, IInv, Typed
  <2>5. debounce[k] = 0
    BY <1>1, <1>4, <2>4, Numbers DEF Good, Clocks, IInv, Typed
  <2>6. QED
    BY <1>1, <2>2, <2>5
<1>7. QED
  BY <1>2, <1>3, <1>5, <1>6, OneKey DEF Good

LEMMA ReleaseInv == ASSUME IInv, NEW k \in Keys, Release(k) PROVE IInv'
<1>1. /\ pin[k] = "low" /\ pin'[k] = "high" /\ hold'[k] = since[k] /\ run'[k] = 0
      /\ edge'[k] = (edge[k] \/ status(k))
      /\ missed'[k] = (missed[k] \/ ~ status(k) \/ unseen[k])
      /\ UNCHANGED <<on, enabled, debounce, since, duration, changed, demo,
                     seen, counting, gap, unseen>>
  BY DEF Release, Latch, driver, IInv, Typed
<1>2. Typed'
  <2>1. /\ pin' \in [Keys -> Level] /\ run' \in [Keys -> 0..D]
        /\ hold' \in [Keys -> 0..MaxTicks]
    BY Numbers DEF Release, IInv, Typed, Level
  <2>2. edge' \in [Keys -> BOOLEAN] /\ missed' \in [Keys -> BOOLEAN]
    BY DEF Release, Latch, status, IInv, Typed
  <2>3. QED
    BY <1>1, <2>1, <2>2 DEF IInv, Typed
<1>3. Others(k)
  BY <1>1 DEF Release, Latch, Others, IInv, Typed
<1>4. Good(k) /\ debounce[k] \in 0..D /\ since[k] \in 0..MaxTicks
  BY DEF IInv, Typed
<1>5. Clocks(k)' /\ Durations(k)'
  BY <1>1, <1>4, Numbers DEF Good, Clocks, Durations
<1>6. NewPress(k)'
  BY <1>1, <1>4 DEF Good, NewPress
<1>7. NewRelease(k)'
  <2>1. SUFFICES ASSUME counting'[k], ~ missed'[k], hold'[k] >= D
                 PROVE  edge'[k] /\ debounce'[k] = 0
    BY DEF NewRelease
  <2>2. counting[k] /\ status(k) /\ since[k] >= D
    BY <1>1, <2>1
  <2>3. debounce[k] = 0
    BY <1>4, <2>2, Numbers DEF Good, Clocks
  <2>4. QED
    BY <1>1, <2>2, <2>3
<1>8. QED
  BY <1>2, <1>3, <1>5, <1>6, <1>7, OneKey DEF Good

LEMMA EdgeInv == ASSUME IInv, NEW k \in Keys, edge[k], Edge(k) PROVE IInv'
<1>1. /\ edge'[k] = FALSE /\ unseen'[k] = FALSE
      /\ edge' \in [Keys -> BOOLEAN] /\ unseen' \in [Keys -> BOOLEAN]
      /\ \A j \in Keys \ {k} : edge'[j] = edge[j] /\ unseen'[j] = unseen[j]
      /\ UNCHANGED <<on, pin, enabled, demo, hold, run>>
  BY DEF Edge, IInv, Typed
<1>2. Good(k) /\ debounce[k] \in 0..D /\ since[k] \in 0..MaxTicks
  BY DEF IInv, Typed
<1>3. CASE debounce[k] > 0
  <2>1. UNCHANGED <<debounce, since, duration, changed, seen, counting, gap, missed>>
    BY <1>3 DEF Edge
  <2>2. Typed'
    BY <1>1, <2>1 DEF IInv, Typed
  <2>3. Others(k)
    BY <1>1, <2>1 DEF Others
  <2>4. Good(k)'
    BY <1>1, <1>2, <1>3, <2>1, Numbers
       DEF Good, Clocks, NewPress, NewRelease, Durations
  <2>5. QED
    BY <2>2, <2>3, <2>4, OneKey
<1>4. CASE ~ (debounce[k] > 0)
  <2>1. /\ debounce' = [debounce EXCEPT ![k] = D]
        /\ pin[k] = "low" => StartPress(k)
        /\ pin[k] # "low" => EndPress(k)
    BY <1>4 DEF Edge, SetDebounce, D
  <2>2. debounce'[k] = D /\ debounce' \in [Keys -> 0..D] /\ debounce[k] = 0
    BY <1>2, <1>4, <2>1, Numbers DEF IInv, Typed
  <2>3. CASE pin[k] = "low"
    <3>1. /\ since'[k] = 0 /\ duration'[k] = 0 /\ seen'[k] = TRUE
          /\ counting'[k] = TRUE /\ gap'[k] = 0 /\ missed'[k] = FALSE
          /\ changed' = changed
      BY <2>1, <2>3 DEF StartPress, IInv, Typed
    <3>2. /\ since' \in [Keys -> 0..MaxTicks] /\ duration' \in [Keys -> 0..MaxTicks]
          /\ gap' \in [Keys -> 0..D]
      BY <2>1, <2>3, Numbers DEF StartPress, IInv, Typed
    <3>3. /\ seen' \in [Keys -> BOOLEAN] /\ counting' \in [Keys -> BOOLEAN]
          /\ missed' \in [Keys -> BOOLEAN]
      BY <2>1, <2>3 DEF StartPress, IInv, Typed
    <3>4. Typed'
      BY <1>1, <2>2, <3>1, <3>2, <3>3 DEF IInv, Typed
    <3>5. Others(k)
      BY <1>1, <2>1, <2>3 DEF StartPress, Others, IInv, Typed
    <3>6. Good(k)'
      BY <1>1, <2>2, <2>3, <3>1, Numbers
         DEF Good, Clocks, NewPress, NewRelease, Durations
    <3>7. QED
      BY <3>4, <3>5, <3>6, OneKey
  <2>4. CASE pin[k] # "low"
    <3>1. /\ duration'[k] = since[k] /\ counting'[k] = FALSE
          /\ UNCHANGED <<since, seen, gap, missed>>
      BY <2>1, <2>4 DEF EndPress, IInv, Typed
    <3>2. duration' \in [Keys -> 0..MaxTicks]
      BY <1>2, <2>1, <2>4 DEF EndPress, IInv, Typed
    <3>3. counting' \in [Keys -> BOOLEAN] /\ changed' \in [Keys -> BOOLEAN]
      BY <2>1, <2>4 DEF EndPress, IInv, Typed
    <3>4. Typed'
      BY <1>1, <2>2, <3>1, <3>2, <3>3 DEF IInv, Typed
    <3>5. Others(k)
      BY <1>1, <2>1, <2>4 DEF EndPress, Others, IInv, Typed
    <3>6. pin[k] = "high" /\ run[k] = 0 /\ (seen[k] => since[k] >= D)
      BY <1>2, <2>2, <2>4, Numbers DEF Good, Clocks, IInv, Typed, Level
    <3>7. Clocks(k)' /\ Durations(k)' /\ NewRelease(k)'
      BY <1>1, <1>2, <2>2, <3>1, <3>6, Numbers DEF Clocks, Durations, NewRelease
    <3>8. NewPress(k)'
      BY <1>2, <2>4, <3>1 DEF Good, NewPress
    <3>9. QED
      BY <3>4, <3>5, <3>7, <3>8, OneKey DEF Good
  <2>5. QED
    BY <2>3, <2>4
<1>5. QED
  BY <1>3, <1>4

\* An edge that an activation throws away counts as missed.
LEMMA ActivateInv ==
  ASSUME IInv, NEW k \in Keys, Activate(k) \/ Deactivate(k)
  PROVE  IInv'
<1>1. /\ edge' = [edge EXCEPT ![k] = FALSE]
      /\ missed' = [missed EXCEPT ![k] = @ \/ edge[k]]
      /\ enabled' \in [Keys -> BOOLEAN]
      /\ UNCHANGED <<on, pin, debounce, since, duration, changed, demo, seen,
                     counting, hold, run, gap, unseen>>
  BY DEF Activate, Deactivate, driver, IInv, Typed
<1>2. /\ edge'[k] = FALSE /\ missed'[k] = (missed[k] \/ edge[k])
      /\ edge' \in [Keys -> BOOLEAN] /\ missed' \in [Keys -> BOOLEAN]
  BY <1>1 DEF IInv, Typed
<1>3. Typed'
  BY <1>1, <1>2 DEF IInv, Typed
<1>4. Others(k)
  BY <1>1 DEF Others, IInv, Typed
<1>5. Good(k)
  BY DEF IInv
<1>6. Good(k)'
  BY <1>1, <1>2, <1>5 DEF Good, Clocks, NewPress, NewRelease, Durations
<1>7. QED
  BY <1>3, <1>4, <1>6, OneKey

LEMMA DeliverInv == ASSUME IInv, NEW k \in Keys, Deliver(k) PROVE IInv'
<1>1. /\ changed' \in [Keys -> BOOLEAN] /\ demo' \in {"nothing", "publish", "defaults"}
      /\ UNCHANGED <<on, pin, edge, enabled, debounce, since, duration, seen,
                     counting, hold, run, gap, unseen, missed>>
  BY DEF Deliver, hardware, history, IInv, Typed
<1>2. Typed'
  BY <1>1 DEF IInv, Typed
<1>3. Others(k)
  BY <1>1 DEF Others
<1>4. Good(k)
  BY DEF IInv
<1>5. Good(k)'
  BY <1>1, <1>4 DEF Good, Clocks, NewPress, NewRelease, Durations
<1>6. QED
  BY <1>2, <1>3, <1>5, OneKey

\* Time passes for all keys at once; no edge waits.
LEMMA TickInv == ASSUME IInv, Tick PROVE IInv'
<1>1. /\ \A k \in Keys : ~ edge[k]
      /\ debounce' = [k \in Keys |-> IF debounce[k] > 0 THEN debounce[k] - 1 ELSE 0]
      /\ since' = [k \in Keys |-> Up(since[k], MaxTicks)]
      /\ run' = [k \in Keys |-> IF pin[k] = "high" THEN Up(run[k], D) ELSE run[k]]
      /\ UNCHANGED <<on, pin, edge, enabled, duration, changed, demo, seen,
                     counting, hold, gap, unseen, missed>>
  BY DEF Tick, hardware, D
<1>2. ASSUME NEW k \in Keys
      PROVE  /\ debounce[k] \in 0..D /\ since[k] \in 0..MaxTicks /\ run[k] \in 0..D
             /\ debounce'[k] \in 0..D /\ since'[k] \in 0..MaxTicks /\ run'[k] \in 0..D
             /\ debounce'[k] = IF debounce[k] > 0 THEN debounce[k] - 1 ELSE 0
             /\ since'[k] = IF since[k] < MaxTicks THEN since[k] + 1 ELSE since[k]
             /\ run'[k] = IF pin[k] = "high" /\ run[k] < D THEN run[k] + 1 ELSE run[k]
  BY <1>1, Numbers DEF IInv, Typed, Up
<1>3. Typed'
  <2>1. /\ debounce' \in [Keys -> 0..D] /\ run' \in [Keys -> 0..D]
        /\ since' \in [Keys -> 0..MaxTicks]
    BY <1>1, <1>2
  <2>2. QED
    BY <1>1, <2>1 DEF IInv, Typed
<1>4. ASSUME NEW k \in Keys PROVE Good(k)'
  <2>1. Good(k) /\ ~ edge[k]
    BY <1>1 DEF IInv
  <2>2. seen'[k] => since'[k] + debounce'[k] >= D
    BY <1>1, <1>2, <2>1, Numbers DEF Good, Clocks
  <2>3. counting'[k] => debounce'[k] = 0 \/ since'[k] + debounce'[k] = D
    BY <1>1, <1>2, <2>1, Numbers DEF Good, Clocks
  <2>4. pin'[k] = "high" => run'[k] + debounce'[k] <= D
    BY <1>1, <1>2, <2>1, Numbers DEF Good, Clocks
  <2>5. Clocks(k)'
    BY <1>1, <2>1, <2>2, <2>3, <2>4 DEF Clocks
  <2>6. NewPress(k)' /\ NewRelease(k)' /\ Durations(k)'
    BY <1>1, <2>1 DEF Good, NewPress, NewRelease, Durations
  <2>7. QED
    BY <2>5, <2>6 DEF Good
<1>5. QED
  BY <1>3, <1>4 DEF IInv

LEMMA Inductive == Spec => []IInv
<1>1. ASSUME IInv, [Next]_vars PROVE IInv'
  <2>1. CASE Tick
    BY <1>1, <2>1, TickInv
  <2>2. CASE WakeUp
    BY <1>1, <2>2, FreshInv DEF WakeUp
  <2>3. ASSUME NEW k \in Keys, Interrupt(k) PROVE IInv'
    <3>1. CASE k = "RIGHT"
      BY <1>1, <2>3, <3>1, FreshInv DEF Interrupt, Shutdown
    <3>2. CASE k # "RIGHT"
      BY <1>1, <2>3, <3>2, EdgeInv DEF Interrupt
    <3>3. QED
      BY <3>1, <3>2
  <2>4. ASSUME NEW k \in Keys, Press(k) \/ Release(k) PROVE IInv'
    BY <1>1, <2>4, PressInv, ReleaseInv
  <2>5. ASSUME NEW k \in Keys, Activate(k) \/ Deactivate(k) \/ Deliver(k) PROVE IInv'
    BY <1>1, <2>5, ActivateInv, DeliverInv
  <2>6. CASE UNCHANGED vars
    <3>1. /\ UNCHANGED <<on, pin, edge, enabled, debounce, since, duration, changed,
                         demo, seen, counting, hold, run, gap, unseen, missed>>
      BY <2>6 DEF vars, hardware, driver, history
    <3>2. QED
      BY <1>1, <3>1
         DEF IInv, Typed, Good, Clocks, NewPress, NewRelease, Durations
  <2>7. QED
    BY <1>1, <2>1, <2>2, <2>3, <2>4, <2>5, <2>6 DEF Next
<1>2. QED
  BY <1>1, InitInv, PTL DEF Spec

------------------------------------------------------------------------------
(* The theorems.                                                            *)

\* Every variable of the driver and of the pins keeps its type.
THEOREM TypeCorrect == Spec => []TypeOK
<1>1. IInv => TypeOK
  BY DEF IInv, Typed, TypeOK, D
<1>2. QED
  BY <1>1, Inductive, PTL

\* A duration never spans two presses, for any debounce time and however edges,
\* interrupts and ticks interleave.
THEOREM OnePress == Spec => []DurationIsOnePress
<1>1. IInv => DurationIsOnePress
  BY Numbers DEF IInv, Typed, Good, NewPress, DurationIsOnePress, D
<1>2. QED
  BY <1>1, Inductive, PTL

\* Only a press shorter than the debounce time goes unreported.
THEOREM LongPressesReported == Spec => []OnlyShortPressesLost
<1>1. IInv => OnlyShortPressesLost
  BY Numbers DEF IInv, Typed, Good, NewRelease, OnlyShortPressesLost, D
<1>2. QED
  BY <1>1, Inductive, PTL

\* No bounce is reported as a press.
THEOREM BouncesSwallowed == Spec => []NoBounceReported
<1>1. IInv => NoBounceReported
  BY DEF IInv, Good, Durations, NoBounceReported, D
<1>2. QED
  BY <1>1, Inductive, PTL
==============================================================================
