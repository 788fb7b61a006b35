--------------------------- MODULE MqttClientProofs ---------------------------
(***************************************************************************)
(* Proofs about MqttClient, for all sets of configurations, every number   *)
(* of reconnection attempts and every set of environment events.           *)
(***************************************************************************)
EXTENDS MqttClient, TLAPS

USE DEF Idle

\* The inductive invariant.  Type correctness of the counter needs BoundedRetries,
\* which needs to know in which states a session may exist.
IInv ==
  /\ TypeOK
  /\ StateMatchesEngine
  /\ BoundedRetries
  /\ SleepsOnlyOverForm

GivenUp == {"CONFIG_ERROR", "ERROR"}

\* What a step leaves behind, apart from the events it delivers.
CoreOK ==
  /\ state \in States /\ connect_attempt \in 0..RECONNECT_ATTEMPTS
  /\ conf \in Configs /\ identity \in Configs
  /\ conn \in ConnStates
  /\ tries \in Nat

FlagsOK ==
  /\ stable \in BOOLEAN /\ armed \in BOOLEAN /\ queued \in 0..MaxQueued
  /\ poll \in BOOLEAN /\ new_config \in BOOLEAN /\ owed \in BOOLEAN
  /\ address \in BOOLEAN /\ refused \in BOOLEAN

\* IInv', from its parts.
LEMMA Assemble ==
  /\ IInv <=> CoreOK /\ FlagsOK /\ StateMatchesEngine /\ BoundedRetries
              /\ SleepsOnlyOverForm
  /\ IInv' <=> (CoreOK /\ FlagsOK /\ StateMatchesEngine /\ BoundedRetries
               /\ SleepsOnlyOverForm)'
BY DEF IInv, TypeOK, CoreOK, FlagsOK

------------------------------------------------------------------------------
\* A state is entered and left with the counters in step.
LEMMA RegisterStep ==
  ASSUME IInv, NEW a \in 1..RECONNECT_ATTEMPTS, NEW m \in Nat, m < a,
         conn \in Idle, Register(a, m)
  PROVE  /\ (CoreOK /\ StateMatchesEngine /\ BoundedRetries)'
         /\ armed' = TRUE /\ stable' = stable
<1>1. CoreOK
  BY Assemble
<1>2. CoreOK'
  <2>1. a \in 0..RECONNECT_ATTEMPTS /\ m + 1 \in Nat
    BY BoundAssumption
  <2>2. connect_attempt' \in 0..RECONNECT_ATTEMPTS /\ tries' \in Nat
    BY <2>1 DEF Register
  <2>3. state' \in States /\ conn' \in ConnStates
    BY <1>1 DEF Register, CoreOK, States, ConnStates
  <2>4. conf' \in Configs /\ identity' \in Configs
    BY <1>1 DEF Register, CoreOK
  <2>6. QED
    BY <2>2, <2>3, <2>4 DEF CoreOK
<1>3. StateMatchesEngine'
  BY DEF Register, StateMatchesEngine
<1>4. BoundedRetries'
  BY BoundAssumption DEF Register, BoundedRetries
<1>5. QED
  BY <1>2, <1>3, <1>4 DEF Register

\* One run of the state machine keeps the core of the invariant, and sets the
\* timer unless it gives up.
LEMMA StateMachineStep ==
  ASSUME IInv, StateMachine
  PROVE  /\ (CoreOK /\ StateMatchesEngine /\ BoundedRetries)'
         /\ armed' = TRUE \/ armed' = armed
         /\ state' \notin GivenUp => armed' = TRUE
         /\ stable' = stable
<1>1. CoreOK /\ StateMatchesEngine /\ BoundedRetries
  BY Assemble
<1>2. CASE state = "INIT" /\ InInit
  <2>1. CASE conf \notin Quickstart /\ conf \in NoToken
    <3>1. CoreOK'
      BY <1>1, <1>2, <2>1 DEF InInit, CoreOK, States
    <3>2. (StateMatchesEngine /\ BoundedRetries)'
      BY <1>1, <1>2, <2>1 DEF InInit, StateMatchesEngine, BoundedRetries
    <3>3. armed' = TRUE /\ stable' = stable
      BY <1>2, <2>1 DEF InInit
    <3>4. QED
      BY <3>1, <3>2, <3>3
  <2>2. CASE ~(conf \notin Quickstart /\ conf \in NoToken)
    <3>1. Register(1, 0) /\ conn \in Idle /\ 1 \in 1..RECONNECT_ATTEMPTS
      BY <1>1, <1>2, <2>2, BoundAssumption DEF InInit, StateMatchesEngine
    <3>2. 0 \in Nat /\ 0 < 1
      OBVIOUS
    <3>3. QED
      BY <3>1, <3>2, RegisterStep, Zenon
  <2>3. QED
    BY <2>1, <2>2
<1>3. CASE state = "REGISTERED" /\ Register(connect_attempt, tries)
  <2>1. /\ conn \in Idle /\ tries \in Nat /\ tries < connect_attempt
        /\ connect_attempt \in 1..RECONNECT_ATTEMPTS
    BY <1>1, <1>3, BoundAssumption DEF CoreOK, StateMatchesEngine, BoundedRetries
  <2>2. QED
    BY <1>3, <2>1, RegisterStep
<1>4. CASE state = "CONNECTING" /\ InConnecting
  BY <1>1, <1>4 DEF InConnecting, CoreOK, StateMatchesEngine, BoundedRetries
<1>5. CASE state \in {"CONNECTED", "PUBLISHING"} /\ InSession
  <2>1. armed' = TRUE /\ stable' = stable
    BY <1>5 DEF InSession
  <2>2. /\ state' \in {"CONNECTED", "PUBLISHING"}
        /\ conf' = conf /\ identity' = identity /\ conn' = conn
    BY <1>1, <1>5 DEF InSession, CoreOK
  <2>3. \/ connect_attempt' = 0 /\ tries' = 0
        \/ connect_attempt' = connect_attempt /\ tries' = tries
    BY <1>5 DEF InSession
  <2>4. CoreOK'
    BY <1>1, <2>2, <2>3, BoundAssumption DEF CoreOK, States
  <2>5. StateMatchesEngine'
    BY <1>1, <1>5, <2>2 DEF StateMatchesEngine
  <2>6. BoundedRetries'
    BY <1>1, <2>2, <2>3, BoundAssumption DEF BoundedRetries
  <2>7. QED
    BY <2>1, <2>4, <2>5, <2>6
<1>6. CASE state = "DISCONNECTED" /\ InDisconnected
  BY <1>1, <1>6, BoundAssumption
     DEF InDisconnected, MayRetry, Disconnected, CoreOK, StateMatchesEngine,
         BoundedRetries, States, GivenUp
<1>7. CASE state = "NEWCONFIG" /\ InNewConfig
  BY <1>1, <1>7
     DEF InNewConfig, SessionGone, UpdateConfig, CoreOK, StateMatchesEngine,
         BoundedRetries, States, GivenUp
<1>8. CASE state \in {"CONFIG_ERROR", "ERROR"} /\ InError
  BY <1>1, <1>8 DEF InError, CoreOK, StateMatchesEngine, BoundedRetries, GivenUp
<1>9. QED
  BY <1>2, <1>3, <1>4, <1>5, <1>6, <1>7, <1>8 DEF StateMachine

\* Events that run the state machine.
LEMMA RunInv ==
  ASSUME IInv, TimerEvent \/ PollEvent \/ PublishEvent
  PROVE  IInv'
<1>1. StateMachine
  BY DEF TimerEvent, PollEvent, PublishEvent
<1>2. FlagsOK
  BY Assemble
<1>3. queued' \in 0..MaxQueued
  BY <1>2, BoundAssumption DEF TimerEvent, PollEvent, PublishEvent, FlagsOK, events, Rearmed
<1>4. armed' \in BOOLEAN /\ poll' \in BOOLEAN /\ refused' \in BOOLEAN
  BY <1>1, <1>2, StateMachineStep
     DEF TimerEvent, PollEvent, PublishEvent, FlagsOK, events, Rearmed
<1>5. FlagsOK'
  BY <1>1, <1>2, <1>3, <1>4, StateMachineStep
     DEF TimerEvent, PollEvent, PublishEvent, FlagsOK, events, Rearmed
<1>6. SleepsOnlyOverForm'
  BY <1>1, StateMachineStep DEF SleepsOnlyOverForm, Awake, GivenUp
<1>7. QED
  BY <1>1, <1>5, <1>6, StateMachineStep, Assemble

LEMMA TriggerInv == ASSUME IInv, TriggerInError PROVE IInv'
<1>1. conn \in Idle
  BY DEF IInv, StateMatchesEngine, TriggerInError
<1>2. (CoreOK /\ StateMatchesEngine /\ BoundedRetries)' /\ armed' = TRUE
      /\ stable' = stable
  <2>1. Register(1, 0) /\ 1 \in 1..RECONNECT_ATTEMPTS
    BY BoundAssumption DEF TriggerInError
  <2>2. 0 \in Nat /\ 0 < 1
    OBVIOUS
  <2>3. QED
    BY <1>1, <2>1, <2>2, RegisterStep, Zenon
<1>3. FlagsOK'
  BY <1>2, Assemble DEF TriggerInError, FlagsOK, events, Rearmed
<1>4. SleepsOnlyOverForm'
  BY <1>2 DEF SleepsOnlyOverForm, Awake
<1>5. QED
  BY <1>2, <1>3, <1>4, Assemble

\* Form handlers: the session is dropped, and the event of the POST is owed.
LEMMA PostInv ==
  ASSUME IInv, PostValue \/ PostRefused
  PROVE  IInv'
<1>1. CoreOK /\ FlagsOK /\ StateMatchesEngine /\ BoundedRetries
  BY Assemble
<1>2. (CoreOK /\ StateMatchesEngine /\ BoundedRetries)'
  BY <1>1 DEF PostValue, PostRefused, NewNetConfig, Disconnected, CoreOK, events,
     StateMatchesEngine, BoundedRetries, States, ConnStates
<1>3. armed' \in BOOLEAN /\ owed' \in BOOLEAN /\ refused' \in BOOLEAN
  BY <1>1 DEF PostValue, PostRefused, NewNetConfig, FlagsOK, events, Rearmed
<1>4. FlagsOK'
  BY <1>1, <1>3 DEF PostValue, PostRefused, NewNetConfig, FlagsOK, events, Rearmed
<1>5. SleepsOnlyOverForm'
  <2>1. SleepsOnlyOverForm
    BY Assemble
  <2>2. CASE PostValue
    BY <2>2 DEF PostValue, SleepsOnlyOverForm, Awake
  <2>3. CASE PostRefused /\ state # "NEWCONFIG"
    BY <2>3 DEF PostRefused, SleepsOnlyOverForm
  <2>4. CASE PostRefused /\ state = "NEWCONFIG"
    BY <2>1, <2>4 DEF PostRefused, NewNetConfig, SleepsOnlyOverForm,
       Awake, events
  <2>5. QED
    BY <2>2, <2>3, <2>4
<1>6. QED
  BY <1>2, <1>4, <1>5, Assemble

\* Callbacks of the engine.
LEMMA EngineInv ==
  ASSUME IInv, Connected \/ ConnectionLost \/ ConnectionRefused
  PROVE  IInv'
<1>1. CoreOK /\ FlagsOK /\ StateMatchesEngine /\ BoundedRetries /\ SleepsOnlyOverForm
  BY Assemble
<1>2. (CoreOK /\ StateMatchesEngine /\ BoundedRetries)'
  BY <1>1 DEF Connected, ConnectionLost, ConnectionRefused, CoreOK, events,
     StateMatchesEngine, BoundedRetries, States, ConnStates
<1>3. stable' \in BOOLEAN /\ poll' \in BOOLEAN /\ refused' \in BOOLEAN
  BY <1>1 DEF Connected, ConnectionLost, ConnectionRefused, FlagsOK, events, Rearmed
<1>4. FlagsOK'
  BY <1>1, <1>3 DEF Connected, ConnectionLost, ConnectionRefused, FlagsOK, events, Rearmed
<1>5. SleepsOnlyOverForm'
  BY <1>1 DEF Connected, ConnectionLost, ConnectionRefused, StateMatchesEngine,
     SleepsOnlyOverForm, Awake, events, Rearmed
<1>6. QED
  BY <1>2, <1>4, <1>5, Assemble

\* Steps that move an event along or let time pass.
LEMMA EventInv ==
  ASSUME IInv, NewConfigEvent \/ LoadDefaults \/ PostInterval \/ PostDone
               \/ TimerExpires \/ BecomesStable \/ AddressAcquired
  PROVE  IInv'
<1>1. CoreOK /\ FlagsOK /\ StateMatchesEngine /\ BoundedRetries /\ SleepsOnlyOverForm
  BY Assemble
<1>2. (CoreOK /\ StateMatchesEngine /\ BoundedRetries)'
  BY <1>1, ConfigAssumption DEF NewConfigEvent, LoadDefaults, PostInterval,
     PostDone, TimerExpires, BecomesStable, AddressAcquired, CoreOK, events,
     StateMatchesEngine, BoundedRetries
<1>3. queued' \in 0..MaxQueued
  BY <1>1, BoundAssumption DEF NewConfigEvent, LoadDefaults, PostInterval,
     PostDone, TimerExpires, BecomesStable, AddressAcquired, FlagsOK, events, Rearmed
<1>4. armed' \in BOOLEAN /\ new_config' \in BOOLEAN /\ owed' \in BOOLEAN
      /\ stable' \in BOOLEAN /\ address' \in BOOLEAN /\ poll' \in BOOLEAN
      /\ refused' \in BOOLEAN
  BY <1>1 DEF NewConfigEvent, LoadDefaults, PostInterval, PostDone, TimerExpires,
     BecomesStable, AddressAcquired, FlagsOK, events, Rearmed
<1>5. FlagsOK'
  BY <1>3, <1>4 DEF FlagsOK
<1>6. SleepsOnlyOverForm'
  BY <1>1 DEF NewConfigEvent, LoadDefaults, PostInterval, PostDone, TimerExpires,
     BecomesStable, AddressAcquired, SleepsOnlyOverForm, Awake, events, Rearmed,
     FlagsOK
<1>7. QED
  BY <1>2, <1>5, <1>6, Assemble

LEMMA InitInv == Init => IInv
<1> SUFFICES ASSUME Init PROVE IInv
  OBVIOUS
<1>1. CoreOK
  BY ConfigAssumption, BoundAssumption DEF Init, CoreOK, States, ConnStates
<1>2. FlagsOK
  <2>1. armed \in BOOLEAN
    BY DEF Init
  <2>2. queued \in 0..MaxQueued
    BY BoundAssumption DEF Init
  <2>3. QED
    BY <2>1, <2>2 DEF Init, FlagsOK
<1>3. StateMatchesEngine /\ BoundedRetries
  BY BoundAssumption DEF Init, StateMatchesEngine, BoundedRetries
<1>4. SleepsOnlyOverForm
  BY DEF Init, SleepsOnlyOverForm, Awake
<1>5. QED
  BY <1>1, <1>2, <1>3, <1>4, Assemble

LEMMA NextInv == IInv /\ [Next]_vars => IInv'
<1>1. IInv /\ UNCHANGED vars => IInv'
  BY DEF vars, IInv, TypeOK, StateMatchesEngine, BoundedRetries,
     SleepsOnlyOverForm, Awake
<1>2. IInv /\ Next => IInv'
  BY RunInv, TriggerInv, PostInv, EngineInv, EventInv DEF Next
<1>3. QED
  BY <1>1, <1>2

------------------------------------------------------------------------------
LEMMA Invariance == Spec => []IInv
BY InitInv, NextInv, PTL DEF Spec

\* Every variable keeps its type; the attempt counter never wraps.
THEOREM TypeCorrect == Spec => []TypeOK
<1>1. IInv => TypeOK
  BY DEF IInv
<1>2. QED
  BY <1>1, Invariance, PTL

\* The client never publishes without a session nor opens a second one.
THEOREM EngineAgreement == Spec => []StateMatchesEngine
<1>1. IInv => StateMatchesEngine
  BY DEF IInv
<1>2. QED
  BY <1>1, Invariance, PTL

\* At most RECONNECT_ATTEMPTS requests between two resets of the counter.
THEOREM RetriesAreBounded == Spec => []BoundedRetries
<1>1. IInv => BoundedRetries
  BY DEF IInv
<1>2. QED
  BY <1>1, Invariance, PTL

\* A client that has not given up sleeps only over a form that has not ended or
\* that was refused.
THEOREM SleepOnlyOverForm == Spec => []SleepsOnlyOverForm
<1>1. IInv => SleepsOnlyOverForm
  BY DEF IInv
<1>2. QED
  BY <1>1, Invariance, PTL
==============================================================================
