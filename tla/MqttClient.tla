------------------------------ MODULE MqttClient ------------------------------
(***************************************************************************)
(* The MQTT client of the RC-CC1310-868 demo (mqtt-client.c): its state    *)
(* machine, the one event timer that drives it, the events it reacts to,   *)
(* and the web form handlers that reach into its state from the httpd      *)
(* process.  The MQTT engine underneath (the connection and its callbacks) *)
(* is external; it is modelled from what mqtt_event() and the calls of     *)
(* state_machine() expect of it.                                           *)
(*                                                                         *)
(* Contiki runs one callback or process step at a time, to completion.  An *)
(* expired timer is an event in a queue: setting or stopping the timer     *)
(* does not take an event out of the queue again, and the code never asks  *)
(* whether the event it is handed is still the one it waits for.           *)
(*                                                                         *)
(* An operator Name_Fault is a wrong version of Name, kept to show that    *)
(* the properties below notice it; no action uses one.                     *)
(***************************************************************************)
EXTENDS Naturals, FiniteSets

CONSTANTS
  Configs,      \* the configurations the web form can produce
  Default,      \* what init_config() writes
  Quickstart,   \* those with org_id "quickstart"
  NoToken,      \* those with an empty auth_token
  TooLong,      \* those whose client id or topics overflow BUFFER_SIZE
  RECONNECT_ATTEMPTS,
  MaxQueued,    \* bound on expired timer events waiting in the event queue
  Env           \* which of the events below the environment may produce

\* "refused": a form value that ends the session although it is rejected.
\* "defaults": the defaults are restored.  "button": the user asks for readings.
\* "connrefused": the broker answers CONNECT with a refusal.  "badaddress":
\* mqtt_connect() fails.
EnvEvents == {"refused", "defaults", "button", "connrefused", "badaddress"}

ASSUME ConfigAssumption ==
  /\ Default \in Configs
  /\ Quickstart \subseteq Configs /\ NoToken \subseteq Configs
  /\ TooLong \subseteq Configs
ASSUME BoundAssumption ==
  /\ RECONNECT_ATTEMPTS \in 2..254
  /\ MaxQueued \in Nat \ {0}
ASSUME EnvAssumption == Env \subseteq EnvEvents

VARIABLES
  state,           \* MQTT_CLIENT_STATE_*
  connect_attempt,
  stable,          \* timer connection_life has expired
  conf,            \* the configuration the form handlers write into
  identity,        \* the configuration client_id and the topics were built from
  armed,           \* publish_periodic_timer is running
  queued,          \* its expiry events not delivered yet
  poll,            \* process_poll(&mqtt_client_process) not delivered yet
  new_config,      \* httpd_simple_event_new_config not delivered yet
  owed,            \* the httpd has accepted a value and not posted the event
  conn,            \* the engine: conn.state
  address,         \* a preferred global address is there
  tries,           \* history: connection requests since a reset of the counter,
                   \* counted up to one too many
  refused          \* history: a refused value dropped the session and stopped
                   \* the timer, which has not run since

vars == <<state, connect_attempt, stable, conf, identity, armed, queued, poll,
          new_config, owed, conn, address, tries, refused>>

events  == <<queued, poll, new_config, owed>>

States == {"INIT", "REGISTERED", "CONNECTING", "CONNECTED", "PUBLISHING",
           "DISCONNECTED", "NEWCONFIG", "CONFIG_ERROR", "ERROR"}

ConnStates == {"NOT_CONNECTED", "ERROR", "CONNECTING", "CONNECTED", "DISCONNECTING"}

\* No connection, nor an attempt at one.
Idle == {"NOT_CONNECTED", "ERROR"}

------------------------------------------------------------------------------
\* mqtt_disconnect(): the engine ends an established session and does nothing
\* about one that is still being established.
Disconnected(c) == IF c = "CONNECTED" THEN "DISCONNECTING" ELSE c

\* The history of every step but those of the form handlers.
Rearmed == refused' = (refused /\ ~armed')

\* update_config(), called in the boot code and from state NEWCONFIG.
UpdateConfig ==
  /\ identity' = conf
  /\ IF conf \in TooLong
     THEN /\ state' = "CONFIG_ERROR"
          /\ UNCHANGED armed
     ELSE /\ state' = "INIT"
          /\ armed' = TRUE

Init ==
  /\ conf = Default
  /\ identity = Default
  /\ state = IF Default \in TooLong THEN "CONFIG_ERROR" ELSE "INIT"
  /\ armed = (Default \notin TooLong)
  /\ connect_attempt = 0
  /\ stable = TRUE
  /\ queued = 0
  /\ poll = FALSE /\ new_config = FALSE /\ owed = FALSE
  /\ conn = "NOT_CONNECTED"
  /\ address = FALSE
  /\ tries = 0
  /\ refused = FALSE

------------------------------------------------------------------------------
(* state_machine(), one operator per case.  "attempt" and "made" are the   *)
(* attempt counter and the history "tries" when the case is entered.       *)

\* connect_to_broker(), guarded by the global address; the timer is set anyway.
\* With a bad address mqtt_connect() fails.
Register(attempt, made) ==
  /\ connect_attempt' = attempt
  /\ armed' = TRUE
  /\ \/ /\ ~address
        /\ state' = "REGISTERED"
        /\ tries' = made
        /\ UNCHANGED conn
     \/ /\ address
        /\ state' = "CONNECTING"
        /\ tries' = IF made > RECONNECT_ATTEMPTS THEN made ELSE made + 1
        /\ conn' = IF conn \in Idle THEN "CONNECTING" ELSE conn
     \/ /\ address /\ "badaddress" \in Env
        /\ state' = "CONFIG_ERROR"
        /\ tries' = made
        /\ conn' \in {conn, "ERROR"}
  /\ UNCHANGED <<stable, conf, identity>>

InInit ==
  IF conf \notin Quickstart /\ conf \in NoToken
  THEN /\ state' = "ERROR"
       /\ armed' = TRUE
       /\ UNCHANGED <<connect_attempt, stable, conf, identity, conn, tries>>
  ELSE Register(1, 0)

InConnecting_ForgetsTimer ==
  UNCHANGED <<state, connect_attempt, stable, conf, identity, armed, conn, tries>>

InConnecting ==
  /\ armed' = TRUE
  /\ UNCHANGED <<state, connect_attempt, stable, conf, identity, conn, tries>>

\* CONNECTED falls through to PUBLISHING, for quickstart as PUBLISHING.  The
\* engine may be busy; a registered device would subscribe here, but the call
\* is commented out.
InSession ==
  /\ connect_attempt' = IF stable THEN 0 ELSE connect_attempt
  /\ tries' = IF stable THEN 0 ELSE tries
  /\ armed' = TRUE
  /\ \/ conn = "CONNECTED" /\ state' = "PUBLISHING"
     \/ state' = IF state = "CONNECTED" /\ conf \in Quickstart
                 THEN "PUBLISHING" ELSE state
  /\ UNCHANGED <<stable, conf, identity, conn>>

\* One more attempt after a backoff, or give up.
MayRetry_OneMore == connect_attempt <= RECONNECT_ATTEMPTS
MayRetry == connect_attempt < RECONNECT_ATTEMPTS

InDisconnected_NotCounted ==
  /\ IF MayRetry
     THEN /\ state' = "REGISTERED"
          /\ conn' = Disconnected(conn)
     ELSE /\ state' = "ERROR"
          /\ UNCHANGED conn
  /\ armed' = TRUE
  /\ UNCHANGED <<connect_attempt, stable, conf, identity, tries>>

InDisconnected ==
  /\ IF MayRetry
     THEN /\ state' = "REGISTERED"
          /\ connect_attempt' = connect_attempt + 1
          /\ conn' = Disconnected(conn)
     ELSE /\ state' = "ERROR"
          /\ UNCHANGED <<connect_attempt, conn>>
  /\ armed' = TRUE
  /\ UNCHANGED <<stable, conf, identity, tries>>

\* The new configuration is used once the old session is gone, whether the engine
\* has ended it or is in an error state.
SessionGone_NotAwaited == TRUE
SessionGone == conn \in Idle

InNewConfig ==
  /\ IF SessionGone
     THEN UpdateConfig
     ELSE /\ armed' = TRUE
          /\ UNCHANGED <<state, identity>>
  /\ UNCHANGED <<connect_attempt, stable, conf, conn, tries>>

InError ==
  UNCHANGED <<state, connect_attempt, stable, conf, identity, armed, conn,
              tries>>

StateMachine ==
  \/ state = "INIT" /\ InInit
  \/ state = "REGISTERED" /\ Register(connect_attempt, tries)
  \/ state = "CONNECTING" /\ InConnecting
  \/ state \in {"CONNECTED", "PUBLISHING"} /\ InSession
  \/ state = "DISCONNECTED" /\ InDisconnected
  \/ state = "NEWCONFIG" /\ InNewConfig
  \/ state \in {"CONFIG_ERROR", "ERROR"} /\ InError

------------------------------------------------------------------------------
(* The process thread.                                                     *)

\* PROCESS_EVENT_TIMER for publish_periodic_timer, and PROCESS_EVENT_POLL.
TimerEvent ==
  /\ queued > 0
  /\ queued' = queued - 1
  /\ StateMachine
  /\ UNCHANGED <<poll, new_config, owed, address>>
  /\ Rearmed

PollEvent ==
  /\ poll
  /\ poll' = FALSE
  /\ StateMachine
  /\ UNCHANGED <<queued, new_config, owed, address>>
  /\ Rearmed

\* cc26xx_web_demo_publish_event, and the publish trigger in any state but ERROR.
PublishEvent ==
  /\ "button" \in Env
  /\ StateMachine
  /\ UNCHANGED <<events, address>>
  /\ Rearmed

\* The publish trigger in state ERROR starts a fresh series of attempts.
TriggerInError ==
  /\ "button" \in Env
  /\ state = "ERROR"
  /\ Register(1, 0)
  /\ UNCHANGED <<events, address>>
  /\ Rearmed

NewConfigEvent ==
  /\ new_config
  /\ new_config' = FALSE
  /\ armed' = TRUE
  /\ UNCHANGED <<state, connect_attempt, stable, conf, identity, queued, poll,
                 owed, conn, address, tries>>
  /\ Rearmed

\* cc26xx_web_demo_load_config_defaults: a new configuration, no reconnection.
LoadDefaults ==
  /\ "defaults" \in Env
  /\ conf' = Default
  /\ armed' = TRUE
  /\ UNCHANGED <<state, connect_attempt, stable, identity, events, conn,
                 address, tries>>
  /\ Rearmed

------------------------------------------------------------------------------
(* The form handlers, called by the httpd process while it parses a POST.   *)

\* new_net_config(): drop the session and wait for the rest of the form.
NewNetConfig_KeepsSession ==
  IF state = "NEWCONFIG"
  THEN UNCHANGED <<state, armed, conn>>
  ELSE /\ state' = "NEWCONFIG"
       /\ armed' = FALSE
       /\ UNCHANGED conn

NewNetConfig ==
  IF state = "NEWCONFIG"
  THEN UNCHANGED <<state, armed, conn>>
  ELSE /\ state' = "NEWCONFIG"
       /\ armed' = FALSE
       /\ conn' = Disconnected(conn)

\* A value that changes how the broker is reached or what is sent to it, and
\* "reconnect", which changes no value.
PostValue ==
  /\ \E c \in Configs : conf' = c
  /\ NewNetConfig
  /\ owed' = TRUE
  /\ UNCHANGED <<connect_attempt, stable, identity, queued, poll, new_config,
                 address, tries>>
  /\ refused' = FALSE

\* A string or an address that is refused still drops the session.  A port or an
\* interval that is refused does nothing.
PostRefused ==
  /\ "refused" \in Env
  /\ NewNetConfig
  /\ UNCHANGED <<connect_attempt, stable, conf, identity, events, address, tries>>
  /\ refused' = (refused \/ state # "NEWCONFIG")

\* The publish interval: accepted without dropping the session.
PostInterval ==
  /\ owed' = TRUE
  /\ UNCHANGED <<state, connect_attempt, stable, conf, identity, armed, queued,
                 poll, new_config, conn, address, tries>>
  /\ Rearmed

\* The httpd has reached the end of a POST and posts the event.  It need not: the
\* peer whose form it is may never finish it, and the next POST, whose end would
\* post the event instead, may never come.
PostDone ==
  /\ owed
  /\ owed' = FALSE
  /\ new_config' = TRUE
  /\ UNCHANGED <<state, connect_attempt, stable, conf, identity, armed, queued,
                 poll, conn, address, tries>>
  /\ Rearmed

------------------------------------------------------------------------------
(* The engine's callbacks, time, and the network.                           *)

\* MQTT_EVENT_CONNECTED, whatever the state of the client is by then.
Connected ==
  /\ conn = "CONNECTING"
  /\ conn' = "CONNECTED"
  /\ state' = "CONNECTED"
  /\ stable' = FALSE
  /\ UNCHANGED <<connect_attempt, conf, identity, armed, events, address, tries>>
  /\ Rearmed

\* MQTT_EVENT_DISCONNECTED: the session, or the attempt at one, is over.
ConnectionLost ==
  /\ conn \notin Idle
  /\ conn' = "NOT_CONNECTED"
  /\ IF state = "NEWCONFIG"
     THEN UNCHANGED <<state, poll>>
     ELSE state' = "DISCONNECTED" /\ poll' = TRUE
  /\ UNCHANGED <<connect_attempt, stable, conf, identity, armed, queued,
                 new_config, owed, address, tries>>
  /\ Rearmed

\* The broker refuses the connection: an event mqtt_event() does not handle.
ConnectionRefused ==
  /\ "connrefused" \in Env
  /\ conn = "CONNECTING"
  /\ conn' \in Idle
  /\ UNCHANGED <<state, connect_attempt, stable, conf, identity, armed, events,
                 address, tries>>
  /\ Rearmed

\* publish_periodic_timer expires: an event is put into the queue.
TimerExpires ==
  /\ armed /\ queued < MaxQueued
  /\ armed' = FALSE
  /\ queued' = queued + 1
  /\ UNCHANGED <<state, connect_attempt, stable, conf, identity, poll,
                 new_config, owed, conn, address, tries>>
  /\ Rearmed

\* CONNECTION_STABLE_TIME has gone by.
BecomesStable ==
  /\ ~stable
  /\ stable' = TRUE
  /\ UNCHANGED <<state, connect_attempt, conf, identity, armed, events, conn,
                 address, tries>>
  /\ Rearmed

AddressAcquired ==
  /\ ~address
  /\ address' = TRUE
  /\ UNCHANGED <<state, connect_attempt, stable, conf, identity, armed, events,
                 conn, tries>>
  /\ Rearmed

Next ==
  \/ TimerEvent \/ PollEvent \/ PublishEvent \/ TriggerInError
  \/ NewConfigEvent \/ LoadDefaults
  \/ PostValue \/ PostRefused \/ PostInterval \/ PostDone
  \/ Connected \/ ConnectionLost \/ ConnectionRefused
  \/ TimerExpires \/ BecomesStable \/ AddressAcquired

Spec == Init /\ [][Next]_vars

(***************************************************************************)
(* Contiki delivers what is queued and a running timer expires.  The       *)
(* network comes up, and the engine ends the session it was asked to end   *)
(* and settles an attempt, for better or worse.  An established session    *)
(* need not fail, nobody need press a button, fill in a form or send the   *)
(* rest of one.                                                            *)
(***************************************************************************)
Settles == conn # "CONNECTED" /\ (Connected \/ ConnectionLost)

FairSpec ==
  /\ Spec
  /\ WF_vars(TimerEvent) /\ WF_vars(PollEvent) /\ WF_vars(NewConfigEvent)
  /\ WF_vars(TimerExpires) /\ WF_vars(AddressAcquired) /\ WF_vars(Settles)

\* The same where, besides, every peer sees its form through.
FormsEndSpec == FairSpec /\ WF_vars(PostDone)

------------------------------------------------------------------------------
TypeOK ==
  /\ state \in States
  /\ connect_attempt \in 0..RECONNECT_ATTEMPTS
  /\ stable \in BOOLEAN
  /\ conf \in Configs
  /\ identity \in Configs
  /\ armed \in BOOLEAN
  /\ queued \in 0..MaxQueued
  /\ poll \in BOOLEAN
  /\ new_config \in BOOLEAN
  /\ owed \in BOOLEAN
  /\ conn \in ConnStates
  /\ address \in BOOLEAN
  /\ tries \in Nat
  /\ refused \in BOOLEAN

\* The client's state and the engine's agree: outside NEWCONFIG the client
\* believes in a session exactly when there is one, never asks for a new
\* connection while an old one is alive, and waits for an answer only while an
\* attempt is being made (unless a refusal went unnoticed), whatever order the
\* engine's callbacks, stale timer events and form posts come in.
StateMatchesEngine ==
  /\ state \in {"CONNECTED", "PUBLISHING"} => conn = "CONNECTED"
  /\ state \in {"INIT", "REGISTERED", "DISCONNECTED", "CONFIG_ERROR", "ERROR"} =>
       conn \in Idle
  /\ state = "CONNECTING" =>
       \/ conn = "CONNECTING"
       \/ conn \in Idle /\ "connrefused" \in Env

\* Without user action the client asks for a connection at most
\* RECONNECT_ATTEMPTS times before one has been stable, and every request that
\* is still to come is already counted: no event that runs the state machine
\* out of turn gets past the counter.
BoundedRetries ==
  /\ tries <= connect_attempt /\ connect_attempt <= RECONNECT_ATTEMPTS
  /\ state = "REGISTERED" => tries < connect_attempt

\* Something will run the state machine again: the timer, an event in the queue, a
\* poll, or the event of a POST.
Awake == armed \/ queued > 0 \/ poll \/ new_config

\* A client that has not given up sleeps only over a form: one of whose values was
\* accepted and that has not ended yet (for ever, if its peer dies in the middle of
\* the body and nobody posts again), or a value of which was refused.  No order of
\* stale expiries, callbacks and button presses puts it to sleep.
SleepsOnlyOverForm ==
  state \notin {"CONFIG_ERROR", "ERROR"} /\ ~ Awake => owed \/ refused

\* A disconnection is handled to the end: the client is connected again, has
\* given up, is being reconfigured, or waits after a refusal by the broker that
\* mqtt_event() does not handle.
Recovers ==
  state = "DISCONNECTED" ~>
    \/ state \in {"CONNECTED", "PUBLISHING", "NEWCONFIG", "CONFIG_ERROR", "ERROR"}
    \/ state = "CONNECTING" /\ conn \in Idle

\* A form that was posted is acted on: the client does not wait for ever for
\* the end of the form or of the old session.  (False even under FormsEndSpec.)
NewConfigProceeds == state = "NEWCONFIG" ~> state # "NEWCONFIG"

\* A new configuration is used, or found to be unusable, once anything is left to
\* run the state machine: the end of a form, the defaults, a stale expiry, a button.
\* The wait for the old session ends.  An attempt at a connection must be over: its
\* success overrides NEWCONFIG, and the form is then not acted on.
FormIsActedOn ==
  state = "NEWCONFIG" /\ Awake /\ conn # "CONNECTING" ~>
    state \in {"INIT", "CONFIG_ERROR"}
==============================================================================
