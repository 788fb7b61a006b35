-------------------------- MODULE ConfigStoreProofs --------------------------
(***************************************************************************)
(* Proofs about ConfigStore, for every set of readings and of values.      *)
(***************************************************************************)
EXTENDS ConfigStore, TLAPS

\* Every field of the flash is of the configuration programmed last or erased;
\* with nothing cut short a flash with the magic number holds all of it; and a
\* program starts on an erased flash, so that no third value is ever left.
FlashIsLast ==
  /\ flash.org \in {last.org, Garbage}
  /\ flash.ping \in {last.ping, Garbage}
  /\ flash.bitmap \in {last.bitmap, Readings}
  /\ ~ torn /\ flash.magic => Loaded(flash) = last
  /\ pc = "write" => flash = Erased

IInv == TypeOK /\ FlashIsLast /\ SavedWhenQuiet

------------------------------------------------------------------------------
LEMMA DefaultsType == Defaults \in Config
BY DefaultsAssumption DEF Defaults, Config

LEMMA ErasedType == Erased \in Flash
BY DEF Erased, Flash

\* An overlay is a flash each of whose fields comes from one side.
LEMMA OverlayFields ==
  ASSUME NEW f \in Flash, NEW g \in Flash, NEW S \in SUBSET Fields
  PROVE  /\ Overlay(f, g, S) \in Flash
         /\ Overlay(f, g, S).org \in {f.org, g.org}
         /\ Overlay(f, g, S).ping \in {f.ping, g.ping}
         /\ Overlay(f, g, S).bitmap \in {f.bitmap, g.bitmap}
         /\ Overlay(f, g, S).magic \in {f.magic, g.magic}
         /\ S = {} => Overlay(f, g, S) = f
         /\ S = Fields => Overlay(f, g, S) = g
BY DEF Overlay, Flash, Fields

LEMMA ErasedFields ==
  ASSUME NEW f \in Flash, NEW h \in PartlyErased(f)
  PROVE  /\ h \in Flash
         /\ h.org \in {f.org, Garbage} /\ h.ping \in {f.ping, Garbage}
         /\ h.bitmap \in {f.bitmap, Readings}
<1>1. PICK S \in SUBSET Fields : h = Overlay(f, Erased, S)
  BY DEF PartlyErased
<1>2. QED
  BY <1>1, OverlayFields, ErasedType DEF Erased

LEMMA ProgrammedFields ==
  ASSUME NEW c \in Config, NEW h \in PartlyProgrammed(Erased, c)
  PROVE  /\ h \in Flash
         /\ h.org \in {c.org, Garbage} /\ h.ping \in {c.ping, Garbage}
         /\ h.bitmap \in {c.bitmap, Readings}
<1>1. Image(c) \in Flash
  BY DEF Image, Flash, Config
<1>2. PICK n \in 0..Len(Layout) - 1 :
        h = Overlay(Erased, Image(c), {Layout[i] : i \in 1..n})
  BY DEF PartlyProgrammed
<1>3. {Layout[i] : i \in 1..n} \in SUBSET Fields
  BY DEF Layout, Fields
<1>4. QED
  BY <1>1, <1>2, <1>3, OverlayFields, ErasedType DEF Erased, Image

\* What can be loaded is a configuration.
LEMMA LoadedType ==
  ASSUME TypeOK
  PROVE  Loaded(flash) \in Config
BY DefaultsType DEF TypeOK, Loaded, Flash, Config

LEMMA InitInv == Init => IInv
<1> SUFFICES ASSUME Init PROVE IInv
  OBVIOUS
<1>1. TypeOK
  <2>1. Current \in Config /\ last \in Config
    BY DefaultsType DEF Init, Current, Defaults
  <2>2. {on, session, config_ok, posted, torn, failed} \subseteq BOOLEAN
    BY DEF Init, Form!Init
  <2>3. shown \in [Readings -> Texts] /\ measured \subseteq Readings
    BY DEF Init, Texts
  <2>4. QED
    BY <2>1, <2>2, <2>3, DefaultsAssumption, ErasedType DEF Init, TypeOK
<1>2. FlashIsLast /\ SavedWhenQuiet
  BY DEF Init, Erased, Defaults, FlashIsLast, SavedWhenQuiet, Quiet, Running
<1>3. QED
  BY <1>1, <1>2 DEF IInv

\* A form handler or a button changes the configuration and leaves the device
\* not quiet, because a value awaits its announcement or a save its turn.
LEMMA ChangeInv ==
  ASSUME IInv, Current' \in Config, UNCHANGED <<on, bitmap, flash, identity, history>>,
         pc' \in {"idle", "erase"}, session' \in BOOLEAN,
         config_ok' \in BOOLEAN, posted' \in BOOLEAN,
         shown' \in [Readings -> Texts], measured' \subseteq Readings,
         pc' = "erase" \/ config_ok' \/ posted'
  PROVE  IInv'
BY DEF IInv, TypeOK, FlashIsLast, SavedWhenQuiet, Quiet, Running, history

\* A step that only moves the events on, or the client, or takes readings: if
\* the device is quiet afterwards it was so before.
LEMMA SameInv ==
  ASSUME IInv, UNCHANGED <<on, org, ping, bitmap, publish, flash, pc, history>>,
         shown' \in [Readings -> Texts], measured' \subseteq Readings,
         session' \in BOOLEAN, identity' \in Orgs \union {Garbage},
         config_ok' \in BOOLEAN, posted' \in BOOLEAN,
         config_ok \/ posted => config_ok' \/ posted'
  PROVE  IInv'
BY DEF IInv, TypeOK, FlashIsLast, SavedWhenQuiet, Quiet, Running, Current,
       Loaded, history

\* Whatever readings are taken, texts remain texts.
LEMMA TakeType ==
  ASSUME TypeOK, NEW S \in SUBSET Readings, Take(S)
  PROVE  shown' \in [Readings -> Texts] /\ measured' \subseteq Readings
BY DEF TypeOK, Take, Texts

LEMMA BootInv == ASSUME IInv, Boot PROVE IInv'
<1> DEFINE c == IF failed' THEN Defaults ELSE Loaded(flash)
<1>1. /\ org' = c.org /\ ping' = c.ping /\ bitmap' = c.bitmap
      /\ publish' = c.bitmap
  BY DEF Boot
<1>2. c \in Config
  BY LoadedType, DefaultsType DEF IInv
<1> HIDE DEF c
<1>3. Current' = c /\ bitmap' \subseteq Readings
  BY <1>1, <1>2 DEF Current, Config
<1>4. TypeOK'
  <2>1. PICK S \in SUBSET (c.bitmap \ Adc) :
          /\ shown' = [r \in Readings |-> IF r \in S THEN "value"
                                        ELSE IF r \in c.bitmap THEN "" ELSE "N/A"]
          /\ measured' = S
    BY Zenon DEF Boot, c
  <2>2. c.bitmap \subseteq Readings
    BY <1>2 DEF Config
  <2>3. shown' \in [Readings -> Texts] /\ measured' \subseteq Readings
    BY <2>1, <2>2 DEF Texts
  <2>4. QED
    BY <1>2, <1>3, <2>3, DefaultsAssumption DEF Boot, IInv, TypeOK, form
<1>5. ~ failed' => c = Loaded(flash)
  BY DEF c
<1>6. QED
  BY <1>3, <1>4, <1>5
     DEF Boot, IInv, FlashIsLast, SavedWhenQuiet, Loaded

\* Whatever a reset cuts short, the flash is left with pieces of one save.
LEMMA ResetFlash ==
  ASSUME IInv, Reset
  PROVE  /\ flash' \in Flash /\ last' \in Config /\ torn' \in BOOLEAN
         /\ flash'.org \in {last'.org, Garbage}
         /\ flash'.ping \in {last'.ping, Garbage}
         /\ flash'.bitmap \in {last'.bitmap, Readings}
         /\ ~ torn' => flash' = flash /\ last' = last /\ ~ torn
<1>1. CASE pc = "idle"
  <2>1. UNCHANGED <<flash, last, torn>>
    BY <1>1 DEF Reset
  <2>2. QED
    BY <2>1 DEF IInv, TypeOK, FlashIsLast
<1>2. CASE pc = "erase"
  <2>1. flash' \in PartlyErased(flash) /\ torn' = TRUE /\ last' = last
    BY <1>2 DEF Reset
  <2>2. flash \in Flash /\ last \in Config
    BY DEF IInv, TypeOK
  <2>3. /\ flash'.org \in {flash.org, Garbage} /\ flash'.ping \in {flash.ping, Garbage}
        /\ flash'.bitmap \in {flash.bitmap, Readings} /\ flash' \in Flash
    BY <2>1, <2>2, ErasedFields
  <2>4. QED
    BY <2>1, <2>2, <2>3 DEF IInv, FlashIsLast
<1>3. CASE pc = "write"
  <2>1. Current \in Config /\ flash = Erased
    BY <1>3 DEF IInv, TypeOK, FlashIsLast
  <2>2. last' = Current /\ flash' \in PartlyProgrammed(Erased, Current) /\ torn' = TRUE
    BY <1>3, <2>1 DEF Reset
  <2>3. QED
    BY <2>1, <2>2, ProgrammedFields
<1>4. QED
  BY <1>1, <1>2, <1>3 DEF IInv, TypeOK

LEMMA ResetInv == ASSUME IInv, Reset PROVE IInv'
<1>1. Current' \in Config
  BY DefaultsType DEF Reset, Current, Defaults
<1>2. shown' \in [Readings -> Texts] /\ measured' \subseteq Readings
  BY DEF Reset, Texts
<1>3. TypeOK'
  BY <1>1, <1>2, ResetFlash, DefaultsAssumption DEF Reset, IInv, TypeOK
<1>4. FlashIsLast'
  BY ResetFlash DEF Reset, IInv, FlashIsLast
<1>5. QED
  BY <1>3, <1>4 DEF Reset, IInv, SavedWhenQuiet, Quiet, Running

LEMMA EraseInv == ASSUME IInv, Erase PROVE IInv'
<1>1. Current' = Current /\ bitmap' = bitmap
  BY DEF Erase, ram, readings, Current
<1>2. UNCHANGED <<on, mqtt, form, last, shown, measured>>
  BY DEF Erase, ram, readings
<1>3. CASE flash' = Erased /\ torn' = FALSE /\ pc' = "write" /\ UNCHANGED failed
  <2>1. TypeOK'
    BY <1>1, <1>2, <1>3, ErasedType DEF IInv, TypeOK, mqtt, form
  <2>2. FlashIsLast'
    BY <1>2, <1>3 DEF FlashIsLast, Erased
  <2>3. QED
    BY <1>3, <2>1, <2>2 DEF IInv, SavedWhenQuiet, Quiet, Running
<1>4. CASE /\ flash' \in PartlyErased(flash) /\ torn' = (torn \/ flash' # flash)
           /\ failed' = TRUE /\ pc' = "idle"
  <2>1. /\ flash'.org \in {flash.org, Garbage} /\ flash'.ping \in {flash.ping, Garbage}
        /\ flash'.bitmap \in {flash.bitmap, Readings} /\ flash' \in Flash
    BY <1>4, ErasedFields DEF IInv, TypeOK
  <2>2. torn' \in BOOLEAN
    BY <1>4
  <2>3. TypeOK'
    BY <1>1, <1>2, <1>4, <2>1, <2>2 DEF IInv, TypeOK, mqtt, form
  <2>4. FlashIsLast'
    BY <1>2, <1>4, <2>1 DEF IInv, FlashIsLast
  <2>5. QED
    BY <1>4, <2>3, <2>4 DEF IInv, SavedWhenQuiet, Quiet, Running
<1>5. QED
  BY <1>3, <1>4 DEF Erase

LEMMA WriteInv == ASSUME IInv, Write PROVE IInv'
<1> DEFINE c == [org |-> org, ping |-> ping, bitmap |-> bitmap']
<1>1. bitmap' = publish /\ Current' = Current /\ c = Current /\ last' = Current
  BY DEF Write, Current
<1>2. \/ /\ flash' = Overlay(flash, Image(c), Fields)
         /\ failed' = FALSE
         /\ UNCHANGED torn
      \/ /\ flash' \in PartlyProgrammed(flash, c)
         /\ failed' = TRUE
         /\ torn' = TRUE
  BY DEF Write
<1>3. Current \in Config /\ publish \subseteq Readings /\ flash = Erased
  BY DEF IInv, TypeOK, FlashIsLast, Write, Current, Config
<1> HIDE DEF c
<1>4. pc' = "idle" /\ UNCHANGED <<on, mqtt, form, shown, measured>>
  BY DEF Write, readings
<1>5. CASE flash' = Overlay(flash, Image(c), Fields) /\ failed' = FALSE /\ UNCHANGED torn
  <2>1. Image(Current) \in Flash
    BY <1>3 DEF Image, Flash, Config
  <2>2. flash' = Image(Current)
    BY <1>1, <1>3, <1>5, <2>1, OverlayFields, ErasedType
  <2>3. Loaded(flash') = Current
    BY <2>2 DEF Loaded, Image, Current
  <2>4. TypeOK'
    BY <1>1, <1>3, <1>4, <1>5, <2>1, <2>2 DEF IInv, TypeOK, mqtt, form
  <2>5. FlashIsLast'
    BY <1>1, <1>4, <2>2, <2>3 DEF FlashIsLast, Image, Current
  <2>6. QED
    BY <1>1, <2>3, <2>4, <2>5 DEF IInv, SavedWhenQuiet
<1>6. CASE flash' \in PartlyProgrammed(flash, c) /\ failed' = TRUE /\ torn' = TRUE
  <2>1. /\ flash' \in Flash /\ flash'.org \in {Current.org, Garbage}
        /\ flash'.ping \in {Current.ping, Garbage}
        /\ flash'.bitmap \in {Current.bitmap, Readings}
    BY <1>1, <1>3, <1>6, ProgrammedFields
  <2>2. TypeOK'
    BY <1>1, <1>3, <1>4, <1>6, <2>1 DEF IInv, TypeOK, mqtt, form
  <2>3. FlashIsLast'
    BY <1>1, <1>4, <1>6, <2>1 DEF FlashIsLast
  <2>4. QED
    BY <1>6, <2>2, <2>3 DEF IInv, SavedWhenQuiet
<1>7. QED
  BY <1>2, <1>5, <1>6

LEMMA NextInv == ASSUME IInv, [Next]_vars PROVE IInv'
<1> USE DEF readings
<1>1. CASE SensorForm
  <2>1. publish' \subseteq Readings /\ measured' \subseteq Readings
    BY <1>1 DEF SensorForm, IInv, TypeOK, Current, Config
  <2>2. shown' \in [Readings -> Texts]
    BY <1>1 DEF SensorForm, SwitchedOff, IInv, TypeOK, Texts
  <2>3. QED
    BY <1>1, <2>1, <2>2, ChangeInv
       DEF SensorForm, Form!Accept, IInv, TypeOK, Current, Config, mqtt, Running
<1>2. CASE PingForm \/ OrgForm
  BY <1>2, ChangeInv
     DEF PingForm, OrgForm, Form!Accept, IInv, TypeOK, Current, Config, mqtt,
         Running
<1>3. CASE DefaultsForm \/ LongPress
  BY <1>3, ChangeInv, DefaultsAssumption
     DEF DefaultsForm, LongPress, Restored, Form!Accept, IInv, TypeOK, Current,
         Config, mqtt, form
<1>4. CASE NewConfigEvent
  BY <1>4, ChangeInv
     DEF NewConfigEvent, Form!Deliver, IInv, TypeOK, Current, mqtt, ram
<1>5. CASE EndOfPost
  BY <1>5, SameInv DEF EndOfPost, IInv, TypeOK, mqtt, ram
<1>6. CASE UpdateConfig \/ Connected
  <2>1. org \in Orgs \union {Garbage}
    BY DEF IInv, TypeOK, Current, Config
  <2>2. UNCHANGED <<on, org, ping, bitmap, publish, shown, measured, flash, pc,
                    config_ok, posted, history>>
    BY <1>6 DEF UpdateConfig, Connected, form, ram
  <2>3. session' \in BOOLEAN /\ identity' \in Orgs \union {Garbage}
    BY <1>6, <2>1 DEF UpdateConfig, Connected, IInv, TypeOK
  <2>4. config_ok' \in BOOLEAN /\ posted' \in BOOLEAN
    BY <2>2 DEF IInv, TypeOK
  <2>5. shown' \in [Readings -> Texts] /\ measured' \subseteq Readings
    BY <2>2 DEF IInv, TypeOK
  <2>6. QED
    BY <2>2, <2>3, <2>4, <2>5, SameInv
<1>7. CASE Measure \/ Convert
  <2>1. PICK S \in SUBSET Readings : Take(S)
    BY <1>7, AdcAssumption DEF Measure, Convert, IInv, TypeOK, Current, Config
  <2>2. shown' \in [Readings -> Texts] /\ measured' \subseteq Readings
    BY <2>1, TakeType DEF IInv
  <2>3. UNCHANGED <<on, org, ping, bitmap, publish, flash, pc, session, identity,
                    config_ok, posted, history>>
    BY <2>1 DEF Take, mqtt, form
  <2>4. QED
    BY <2>2, <2>3, SameInv DEF IInv, TypeOK
<1>8. CASE UNCHANGED vars
  BY <1>8, SameInv DEF vars, history, IInv, TypeOK
<1>9. QED
  BY <1>1, <1>2, <1>3, <1>4, <1>5, <1>6, <1>7, <1>8, BootInv, ResetInv, EraseInv,
     WriteInv DEF Next

LEMMA Inductive == Spec => []IInv
BY InitInv, NextInv, PTL DEF Spec

------------------------------------------------------------------------------
(* What is published.                                                       *)

\* No value is older than the switch of its reading, published or not: this is
\* what carries PublishedIsMeasured over the time a reading is off.
ValueIsMeasured == \A r \in Readings : shown[r] = "value" => r \in measured

LEMMA ValueInit == Init => ValueIsMeasured
BY DEF Init, ValueIsMeasured

LEMMA ValueNext ==
  ASSUME TypeOK, ValueIsMeasured, [Next]_vars
  PROVE  ValueIsMeasured'
<1>1. CASE Boot
  <2>1. PICK S : /\ \A r \in Readings : shown'[r] = "value" => r \in S
                 /\ measured' = S
    BY <1>1 DEF Boot
  <2>2. QED
    BY <2>1 DEF ValueIsMeasured
<1>2. CASE Reset
  BY <1>2 DEF Reset, ValueIsMeasured
<1>3. CASE SensorForm
  BY <1>3 DEF SensorForm, SwitchedOff, TypeOK, ValueIsMeasured, readings
<1>4. CASE Measure \/ Convert
  <2>1. PICK S : Take(S)
    BY <1>4 DEF Measure, Convert
  <2>2. QED
    BY <2>1 DEF Take, ValueIsMeasured
<1>5. CASE UNCHANGED readings
  BY <1>5 DEF readings, ValueIsMeasured
<1>6. QED
  BY <1>1, <1>2, <1>3, <1>4, <1>5
     DEF Next, Erase, Write, PingForm, OrgForm, DefaultsForm, LongPress,
         EndOfPost, NewConfigEvent, UpdateConfig, Connected, vars, ram, readings

------------------------------------------------------------------------------
\* Every variable keeps its type: what is loaded is a configuration, if perhaps
\* one with erased fields.
THEOREM TypeCorrect == Spec => []TypeOK
BY Inductive, PTL DEF IInv

\* Whenever nothing is half-way the flash holds the configuration in use.
THEOREM QuietIsSaved == Spec => []SavedWhenQuiet
BY Inductive, PTL DEF IInv

\* The device starts with the configuration programmed last or with the defaults,
\* or, after an erase or a program that was cut short, with pieces of that one.
THEOREM StartsWhole == Spec => BootsWhole
<1> DEFINE Whole == \/ Current' \in {last, Defaults}
                    \/ torn /\ Current' \in Pieces(last)
<1>1. ASSUME IInv, [Next]_vars
      PROVE  [~ on /\ on' => Whole]_vars
  <2>1. SUFFICES ASSUME ~ on, on', Next PROVE Whole
    BY <1>1
  <2>2. CASE Boot
    <3>1. PICK c \in {Loaded(flash), Defaults} :
            org' = c.org /\ ping' = c.ping /\ publish' = c.bitmap
      BY <2>2, Zenon DEF Boot
    <3>2. c \in Config
      BY <1>1, LoadedType, DefaultsType DEF IInv
    <3>3. Current' = c
      BY <3>1, <3>2 DEF Current, Config
    <3>4. CASE c = Defaults \/ ~ flash.magic
      BY <3>1, <3>3, <3>4 DEF Loaded
    <3>5. CASE c = Loaded(flash) /\ flash.magic /\ ~ torn
      BY <1>1, <3>3, <3>5 DEF IInv, FlashIsLast
    <3>6. CASE c = Loaded(flash) /\ flash.magic /\ torn
      <4>1. c.org = flash.org /\ c.ping = flash.ping /\ c.bitmap = flash.bitmap
        BY <3>6 DEF Loaded
      <4>2. /\ c.org \in {last.org, Erased.org} /\ c.ping \in {last.ping, Erased.ping}
            /\ c.bitmap \in {last.bitmap, Erased.bitmap}
        BY <1>1, <4>1 DEF IInv, FlashIsLast, Erased
      <4>3. c \in Pieces(last)
        BY <3>2, <4>2 DEF Pieces
      <4>4. QED
        BY <3>3, <3>6, <4>3
    <3>7. QED
      BY <3>1, <3>4, <3>5, <3>6
  <2>3. CASE Next /\ ~ Boot
    BY <2>1, <2>3
       DEF Next, Reset, Erase, Write, SensorForm, PingForm, OrgForm,
           DefaultsForm, LongPress, EndOfPost, NewConfigEvent, UpdateConfig,
           Connected, Measure, Convert, Take, Running
  <2>4. QED
    BY <2>1, <2>2, <2>3
<1>2. QED
  BY <1>1, Inductive, PTL DEF Spec, BootsWhole

\* A value that is published was measured since its reading was switched on.
THEOREM PublishedAreMeasured == Spec => []PublishedIsMeasured
<1>1. ValueIsMeasured => PublishedIsMeasured
  BY DEF ValueIsMeasured, PublishedIsMeasured, Message
<1>2. TypeOK /\ ValueIsMeasured /\ [Next]_vars => ValueIsMeasured'
  BY ValueNext
<1>3. QED
  BY <1>1, <1>2, ValueInit, TypeCorrect, PTL DEF Spec
==============================================================================
