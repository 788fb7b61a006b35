----------------------------- MODULE ConfigStore -----------------------------
(***************************************************************************)
(* The configuration of the demo (RC-CC1310-868-demo.c): the structure in  *)
(* RAM that the form handlers change, the switches and the values of the   *)
(* sensor readings, the copy in the external flash, and what the MQTT      *)
(* client makes of both: its client id and its messages.  Resets may come  *)
(* at any time.                                                            *)
(*                                                                         *)
(* This is the build with a flash chip (BOARD_SENSORTAG, BOARD_LAUNCHPAD). *)
(* In the others save_config() and load_config() are empty, which is what  *)
(* the model does when every access to the flash fails.                    *)
(*                                                                         *)
(* The processes are cooperative: while one is in save_config() nothing    *)
(* else runs, but the power may fail at any point of it.  An erase that is *)
(* cut short, by the power or by an error of the driver, may have erased   *)
(* any part of the old copy; a program that is cut short has written the   *)
(* first bytes of the structure, the magic number before all others.  The  *)
(* web server is FormEvents, which HttpdPost implements; of the MQTT       *)
(* client there is what decides when its client id changes.                *)
(*                                                                         *)
(* An operator Name_Fault is a wrong version of Name, kept to show that    *)
(* the properties below notice it; no action uses one.                     *)
(***************************************************************************)
EXTENDS Naturals, Sequences

CONSTANTS
  Readings,    \* sensor_list
  Adc,         \* those of adc_process, none unless CC26XX_WEB_DEMO_ADC_DEMO is
               \* set; the others come from the battery monitor
  Orgs,        \* values of org_id, which stands for the MQTT configuration
  Pings,       \* values of def_rt_ping_interval
  DefOrg,      \* what init_config() puts there
  DefPing,     \* CC26XX_WEB_DEMO_DEFAULT_RSSI_MEAS_INTERVAL
  Garbage      \* what an erased or half programmed field reads as

ASSUME DefaultsAssumption == DefOrg \in Orgs /\ DefPing \in Pings
ASSUME AdcAssumption      == Adc \subseteq Readings
ASSUME GarbageAssumption  == Garbage \notin Orgs \union Pings

VARIABLES
  on,         \* the device has booted
  org,        \* cc26xx_web_demo_config.mqtt_config
  ping,       \* cc26xx_web_demo_config.def_rt_ping_interval
  bitmap,     \* cc26xx_web_demo_config.sensors_bitmap, as a set
  publish,    \* the readings whose publish flag is set
  shown,      \* each reading's "converted": no text yet, "N/A", or a value
  flash,      \* what the flash holds
  pc,         \* in save_config(): about to "erase", about to "write"; or "idle"
  session,    \* the MQTT client is in none of NEWCONFIG
  identity,   \* the org_id that client_id and the topics were built from
  config_ok, posted,
  last,       \* history: the configuration that was programmed last
  torn,       \* history: an erase or a program was cut short since the flash
              \* was erased last
  failed,     \* history: the last boot or save could not use the flash
  measured    \* history: the readings measured since they were last switched on

form == <<config_ok, posted>>
readings == <<shown, measured>>
ram  == <<org, ping, bitmap, publish, readings>>
mqtt == <<session, identity>>
vars == <<on, org, ping, bitmap, publish, shown, flash, pc, session, identity,
          config_ok, posted, last, torn, failed, measured>>
history == <<last, torn, failed>>

Form == INSTANCE FormEvents

Config == [org : Orgs \union {Garbage}, ping : Pings \union {Garbage},
           bitmap : SUBSET Readings]

Texts == {"", "N/A", "value"}

Defaults == [org |-> DefOrg, ping |-> DefPing, bitmap |-> Readings]
Current  == [org |-> org, ping |-> ping, bitmap |-> publish]

(* The flash, field by field in the order of cc26xx_web_demo_config_t and   *)
(* of a program.  "magic" is the magic number with the length.              *)
Layout == <<"magic", "bitmap", "ping", "org">>
Fields == {"magic", "bitmap", "ping", "org"}

Flash == [magic : BOOLEAN, bitmap : SUBSET Readings,
          ping : Pings \union {Garbage}, org : Orgs \union {Garbage}]

\* An erased bitmap has all its bits set.
Erased == [magic |-> FALSE, bitmap |-> Readings, ping |-> Garbage, org |-> Garbage]

Image(c) == [magic |-> TRUE, bitmap |-> c.bitmap, ping |-> c.ping, org |-> c.org]

\* The fields in S take what g has there.
Overlay(f, g, S) == [x \in Fields |-> IF x \in S THEN g[x] ELSE f[x]]

\* What an erase, and a program of c, may leave behind when they are cut short.
PartlyErased(f) == {Overlay(f, Erased, S) : S \in SUBSET Fields}
PartlyProgrammed(f, c) ==
  {Overlay(f, Image(c), {Layout[i] : i \in 1..n}) : n \in 0..Len(Layout) - 1}

Init ==
  /\ on = FALSE
  /\ org = DefOrg /\ ping = DefPing /\ bitmap = Readings /\ publish = Readings
  /\ shown = [r \in Readings |-> ""] /\ measured = {}
  /\ flash = Erased
  /\ pc = "idle"
  /\ session = TRUE /\ identity = DefOrg
  /\ Form!Init
  /\ last = Defaults
  /\ torn = FALSE
  /\ failed = FALSE

------------------------------------------------------------------------------
(* Boot, up to the first PROCESS_YIELD().                                   *)

\* load_config(): what the configuration becomes, if the flash can be read.
Loaded(f) == IF f.magic
             THEN [org |-> f.org, ping |-> f.ping, bitmap |-> f.bitmap]
             ELSE Defaults

\* The MQTT client is started first: init_config() and update_config() run on
\* the default values.  Then the configuration is loaded over them, and the
\* first readings are taken, some of which may fail.
Boot ==
  /\ ~ on
  /\ on' = TRUE
  /\ session' = TRUE
  /\ identity' = DefOrg
  /\ failed' \in BOOLEAN
  /\ LET c == IF failed' THEN Defaults ELSE Loaded(flash)
     IN /\ org' = c.org /\ ping' = c.ping /\ bitmap' = c.bitmap
        /\ publish' = c.bitmap
        /\ \E S \in SUBSET (c.bitmap \ Adc) :
             /\ shown' = [r \in Readings |-> IF r \in S THEN "value"
                                           ELSE IF r \in c.bitmap THEN "" ELSE "N/A"]
             /\ measured' = S
  /\ UNCHANGED <<flash, pc, form, last, torn>>

\* The power fails or the device is reset: only the flash survives, in the
\* middle of save_config() not as it was.
Reset ==
  /\ on
  /\ on' = FALSE
  /\ \/ /\ pc = "idle"
        /\ UNCHANGED <<flash, last, torn>>
     \/ /\ pc = "erase"
        /\ flash' \in PartlyErased(flash)
        /\ torn' = TRUE
        /\ UNCHANGED last
     \/ /\ pc = "write"
        /\ last' = Current
        /\ flash' \in PartlyProgrammed(flash, Current)
        /\ torn' = TRUE
  /\ org' = DefOrg /\ ping' = DefPing /\ bitmap' = Readings /\ publish' = Readings
  /\ shown' = [r \in Readings |-> ""] /\ measured' = {}
  /\ pc' = "idle"
  /\ session' = TRUE /\ identity' = DefOrg
  /\ config_ok' = FALSE /\ posted' = FALSE
  /\ UNCHANGED failed

------------------------------------------------------------------------------
(* save_config().                                                           *)

Erase_ErrorIgnored ==
  /\ pc = "erase"
  /\ flash' \in {Erased} \union PartlyErased(flash)
  /\ torn' = (torn \/ flash' # Erased)
  /\ pc' = "write"
  /\ UNCHANGED <<on, ram, mqtt, form, last, failed>>

\* The flash cannot be opened, the erase fails, or it succeeds.
Erase ==
  /\ pc = "erase"
  /\ \/ /\ flash' = Erased
        /\ torn' = FALSE
        /\ pc' = "write"
        /\ UNCHANGED failed
     \/ /\ flash' \in PartlyErased(flash)
        /\ torn' = (torn \/ flash' # flash)
        /\ failed' = TRUE
        /\ pc' = "idle"
  /\ UNCHANGED <<on, ram, mqtt, form, last>>

\* The bitmap is built afresh from the publish flags.
Write ==
  /\ pc = "write"
  /\ pc' = "idle"
  /\ bitmap' = publish
  /\ last' = Current
  /\ LET c == [org |-> org, ping |-> ping, bitmap |-> bitmap']
     IN \/ /\ flash' = Overlay(flash, Image(c), Fields)
           /\ failed' = FALSE
           /\ UNCHANGED torn
        \/ /\ flash' \in PartlyProgrammed(flash, c)
           /\ failed' = TRUE
           /\ torn' = TRUE
  /\ UNCHANGED <<on, org, ping, publish, readings, mqtt, form>>

------------------------------------------------------------------------------
(* The form handlers.  A refused value changes nothing here.                *)

Running == on /\ pc = "idle"

\* sensor_readings_handler(): a reading that is switched off forgets its value.
SwitchedOff_KeepsText(r) == shown
SwitchedOff(r) == [shown EXCEPT ![r] = "N/A"]

SensorForm ==
  /\ Running
  /\ \E r \in Readings :
       \/ publish' = publish \union {r} /\ UNCHANGED readings
       \/ /\ publish' = publish \ {r}
          /\ shown' = SwitchedOff(r)
          /\ measured' = measured \ {r}
  /\ Form!Accept
  /\ UNCHANGED <<on, org, ping, bitmap, flash, pc, mqtt, history>>

\* ping_interval_post_handler()
PingForm ==
  /\ Running
  /\ ping' \in Pings
  /\ Form!Accept
  /\ UNCHANGED <<on, org, bitmap, publish, readings, flash, pc, mqtt, history>>

\* org_id_post_handler() and its like: new_net_config() ends the session.
OrgForm ==
  /\ Running
  /\ org' \in Orgs
  /\ session' = FALSE
  /\ Form!Accept
  /\ UNCHANGED <<on, ping, bitmap, publish, readings, flash, pc, identity, history>>

\* The values of cc26xx_web_demo_restore_defaults(): every reading is published
\* again and the MQTT client, called synchronously, runs init_config().
Restored_NoSave == publish' = Readings /\ org' = DefOrg /\ pc' = "idle"
Restored        == publish' = Readings /\ org' = DefOrg /\ pc' = "erase"

\* defaults_post_handler()
DefaultsForm ==
  /\ Running
  /\ Restored
  /\ Form!Accept
  /\ UNCHANGED <<on, ping, bitmap, readings, flash, mqtt, history>>

\* A long press of the button: the same without a form.
LongPress ==
  /\ Running
  /\ Restored
  /\ UNCHANGED <<on, ping, bitmap, readings, flash, mqtt, form, history>>

EndOfPost ==
  /\ Running
  /\ posted' = (posted \/ config_ok)
  /\ config_ok' = FALSE
  /\ UNCHANGED <<on, ram, flash, pc, mqtt, history>>

\* The event reaches the demo process, which saves the configuration.
NewConfigEvent ==
  /\ Running
  /\ Form!Deliver
  /\ pc' = "erase"
  /\ UNCHANGED <<on, ram, flash, mqtt, history>>

------------------------------------------------------------------------------
(* The readings.                                                            *)

Take(S) ==
  /\ shown' = [r \in Readings |-> IF r \in S THEN "value" ELSE shown[r]]
  /\ measured' = measured \union S
  /\ UNCHANGED <<on, org, ping, bitmap, publish, flash, pc, mqtt, form, history>>

\* get_batmon_reading(), at its timer and at a short press of the button.  Either
\* reading may fail and then keeps its text.
Measure ==
  /\ Running
  /\ \E S \in SUBSET (publish \ Adc) : Take(S)

\* adc_process, every five seconds; get_adc_reading().
Convert ==
  /\ Running
  /\ Take(publish \intersect Adc)

------------------------------------------------------------------------------
(* The MQTT client.                                                         *)

\* The readings in a message of publish().  A raw value is never an error: it
\* is zero, or one that was no error when it was taken.
Message == {<<r, shown[r]>> : r \in publish}

\* The state machine runs in NEWCONFIG and the engine is disconnected.
UpdateConfig ==
  /\ Running /\ ~ session
  /\ session' = TRUE
  /\ identity' = org
  /\ UNCHANGED <<on, ram, flash, pc, form, history>>

\* MQTT_EVENT_CONNECTED overrides NEWCONFIG.
Connected ==
  /\ Running /\ ~ session
  /\ session' = TRUE
  /\ UNCHANGED <<on, ram, flash, pc, identity, form, history>>

Next ==
  \/ Boot \/ Reset \/ Erase \/ Write
  \/ SensorForm \/ PingForm \/ OrgForm \/ DefaultsForm \/ LongPress
  \/ Measure \/ Convert
  \/ EndOfPost \/ NewConfigEvent \/ UpdateConfig \/ Connected

Spec == Init /\ [][Next]_vars

------------------------------------------------------------------------------
TypeOK ==
  /\ Current \in Config /\ bitmap \subseteq Readings
  /\ flash \in Flash
  /\ shown \in [Readings -> Texts] /\ measured \subseteq Readings
  /\ pc \in {"idle", "erase", "write"}
  /\ identity \in Orgs \union {Garbage}
  /\ {on, session, config_ok, posted, torn, failed} \subseteq BOOLEAN
  /\ last \in Config

\* Nothing is half-way: no accepted value unannounced, no event on its way, no
\* save in progress.
Quiet == Running /\ ~ config_ok /\ ~ posted

\* Whenever the device is quiet its flash holds the configuration in use: a
\* restart from here changes nothing, whatever forms, announcements, saves and
\* resets came before, in whatever order, unless the flash failed the last time.
SavedWhenQuiet == Quiet /\ ~ failed => Loaded(flash) = Current

\* What a cut short erase or program can leave of a configuration: each field as
\* it was, or erased.
Pieces(c) ==
  {d \in Config : \A x \in {"org", "ping", "bitmap"} : d[x] \in {c[x], Erased[x]}}

\* The device starts with the configuration that was programmed last, as a whole,
\* or with the defaults.  Once an erase or a program has been cut short, by the
\* power or by an error, the magic number no longer vouches for the rest: erased
\* fields are then taken for settings.  But two configurations never mix, however
\* many saves fail in a row.
BootsWhole ==
  [][~ on /\ on' =>
       \/ Current' \in {last, Defaults}
       \/ torn /\ Current' \in Pieces(last)]_vars

\* A value that is published was measured since its reading was last switched
\* on: forms, the defaults, the saved configuration and the two timers between
\* them never bring back one from before.
PublishedIsMeasured ==
  \A r \in Readings : <<r, "value">> \in Message => r \in measured

\* "changes to the MQTT configuration get saved in external flash and persist
\* across device restarts" (README.md): the client comes up as who it was.
IdentityPersists == [][~ on /\ on' => identity' = org']_vars
==============================================================================
