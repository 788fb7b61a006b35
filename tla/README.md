# Contiki-IoT: a verification project

TLA+ models of the Contiki applications and drivers of this repository, checked
with TLC on small instances and, wherever the prover reaches, proved with TLAPS
for every value of the constants. `PROJECT.json` is the machine-readable index:
components, runs, mutants, the map from definitions to source lines, hazards,
findings and theorems.

Below, *demo* is `src/Contiki/examples/RC-CC1310-868/RC-CC1310-868-demo`, *router* is
`src/Contiki/examples/saker/ip64-rpl-border-router`, and *platform* is
`src/Contiki/platform`.

## 1. Inventory

Everything runs under Contiki: cooperative processes (protothreads) that block
only at yield and wait points, an event queue, timers that post events, polls
that come before events, and uIP callbacks. Interrupt handlers are the only
preemption. Hence the unit of interleaving in every model: what one process
does from one blocking point to the next.

| component | state it keeps | operations | what is hard | correct means |
|---|---|---|---|---|
| Web server, POST path (demo `httpd-simple.c`) | pool of `CONNS` connections; one *static* form parser; global `lock`, `config_ok` | one callback per TCP event: connect, data, poll, close, abort, timeout | several bodies arrive in pieces and share the parser; connections die half-way | a body is parsed as if its connection had a parser of its own; the answer fits the body; accepted values are announced |
| Web server, pages (demo `httpd-simple.c`) | per connection `buf`, `blen`, `tmp_buf`, generator position; global `numtimes` | `enqueue_chunk()`, generators, `handle_output()` | blocking in the middle of a chunk; arguments evaluated again; recycled elements | a page whose chunks fit arrives whole, in order, from nobody else; copies stay in their buffers |
| Web server, form parser (demo `httpd-simple.c`) | parser state, key and value buffers | `parse_post_request_chunk()`, `url_unescape()`, `html_escape_quotes()` | pairs split over chunks, escapes at the end of a buffer, buffer limits | same pairs whatever the chunking |
| MQTT client (demo `mqtt-client.c`) | `state`, `connect_attempt`, timer, client id, topics, configuration | state machine, engine callbacks, form handlers, button, timer | callbacks, stale timer events and forms in any order | agrees with the engine; retries bounded; asleep only over a form; a disconnection and a new configuration are dealt with |
| Demo process, configuration store (demo `RC-CC1310-868-demo.c`) | `cc26xx_web_demo_config`, publish flags, external flash | boot, `load_config()`, `save_config()`, form handlers, defaults, button | resets between erase and write, order of boot, events that come late | what is in use is what a restart gives back |
| Border router (router `border-router.c`) | prefix, DAG, heartbeat timer | prefix request loop, DAG creation, global repair | prefix, address and DAG come in any order | one DAG for the prefix that was set |
| Border router web server (router `httpd-simple.c`, `httpd-simple-handler.c`) | two connections; static iterators, buffer and `uint8_t` length of the generator | as above | the static variables are shared by the connections | as for the demo's pages |
| SLIP bridge (router `slip-bridge.c`) | `last_sender` | input and output of packets, host commands | who sent the packet being forwarded | a packet never goes back where it came from |
| Buttons (platform) | debounce timer, press time and duration | edge interrupt, `value()`, `configure()` | lost edges; a duration read late | a duration is that of one press |
| Configuration EEPROM (platform `saker/dev/i2c-eeprom.c`) | chip contents, position in the block | block write, block read | page wrap, missing acknowledgements, resets | only the block changes, and all of it |
| CoAP resources, LEDs, 6LBR client (demo) | LED and BLE settings | GET/POST handlers | option parsing; off by default | settings follow the last request |
| Platform start-up and drivers | hardware registers | start-up sequences, SPI, GPIO | register level | out of scope |

**How they interact.** The web server calls the *form handlers* of the demo
process and of the MQTT client while it parses a body, so they change the
configuration in the middle of a callback. When a POST ends it broadcasts
`httpd_simple_event_new_config` if anything was accepted: the demo process then
saves the configuration, the MQTT client sets its timer and, when that expires,
drops to the new configuration. `defaults` calls the MQTT client synchronously.
The MQTT engine (external) calls `mqtt_event()` and polls the client. In the
router, the web server and the prefix loop read and write the state of the RPL
stack (external), and the SLIP bridge hands packets in both directions.

## 2. How the project is built

One module per component, one action per callback, handler or process step, from
one blocking point of the code to the next. Properties are conjunctions of named
parts, no module that is proved about uses a `RECURSIVE` operator. Components
that interact are composed:

* `FormEvents` is what the other processes see of the web server's POST path.
  `HttpdPost` implements it; `ConfigStore` uses it in place of the server.
* `FormParser` is the parser of that path, character by character. It states that
  each of its chunks is one that `HttpdPost` allows (`ChunkAsAbstracted`), so the
  abstract parser of `HttpdPost` is not taken on trust.
* `ConfigStore` also holds as much of the MQTT client as decides when its client
  id and its messages are built; `MqttClient` has the whole client.
* `OutputStream` is what the page output promises; `PageStream` implements it.
* `BorderRouter` extends `SlipBridge`: the process and the bridge share the host,
  the serial line and the radio.

The order in which they were written, the most important behaviour first:
`HttpdPost`, `MqttClient`, `ConfigStore`, `PageStream`, `I2cEeprom`, `Buttons`,
`FormParser`, `SlipBridge` and `BorderRouter`, `RouterWeb`; each with an `MC` module
that names the values TLC needs, and each with a module of
proofs, `FormParser` sharing that of `HttpdPost`.

## 3. The modules and the code

An operator `Name_Fault` beside `Name` is a plausible wrong version of the code
(a dropped guard, a missing reset), used only to show that a property would
notice it; `PROJECT.json` lists which property each one breaks. Variables marked
*history* record what the properties speak of and are read by no action's guard.

### HttpdPost

`phase` is where a pool element is: free, reading the request line and headers,
in the body loop, sending the answer, or closed by the server. `lock`, `state`
and `config_ok` are the globals of the same names, `content_length` and
`return_code` the fields. `posted` is the event in Contiki's queue; several
queued events are one, since saving and restarting a timer are idempotent.
`own` and `pending` are history: the state of the parser the connection would
have had alone, and who had a pair accepted that is not announced yet.

Each action is a callback up to the next blocking read or write: `Connect`,
`Get`, `BadRequestLine`, `PostWithoutBody` (411, 413), `Post`, `PostWhileLocked`
(503), `ReadChunk`, `Answer`, `Terminate`. `quiet` is the ten second timer of an
element: `TimePasses` lets it expire, `PollTimeout` ends the connection that a
poll then finds, and every other callback, a byte of `Dribble` included, starts
it again. `FinishPost` is the tail of `handle_input()`, which every POST runs,
also the refused ones. A chunk of a body is what the parser tells apart: whether
it completed accepted pairs and where it left off (`SPILL` is the state after a
pair no handler knew, in which the parser goes on appending to the old value).

### FormParser

`parser` is the static state of `parse_post_request_chunk()`: state, key, value
buffer and length, the unescaped value, what the handlers said (`finish`) and,
as history, the pairs they accepted. A buffer keeps what was written there
before, which `url_unescape()` may look at: it reads two characters past the one
it is at. `ParseChunk` is a pass of the loop in `handle_input()` over the next
characters; a body may be cut anywhere, and the last read may bring more than
the body (`more`): the rest of Content-Length is then negative, not zero, and no
chunk is final. Initially the buffers are blank or hold the remains of another
body. The meaning of a form is defined without the parser and its chunks: `Cut`
is where the fields of the whole body end, `Key`, `Raw` and `Value` are parts of
a field, `Unescaped` replaces the escapes of a text, `Good` says which fields a
handler is to accept. One handler with one key stands for the list of handlers;
it refuses one value.

### MqttClient

`state` and `connect_attempt` are the client's, `conn` the engine's connection
state, `armed` (the timer) and the queued events Contiki's; `owed` is the web
server's flag; `tries` counts connection requests and `refused` says that a
refused value has dropped the session (history). One disjunct of
the state machine per `case`; `StateMachine` is run by `TimerEvent`, `PollEvent`,
`PublishEvent` and `TriggerInError` as in the thread. `Connected`,
`ConnectionLost` and `ConnectionRefused` are `mqtt_event()`; `PostValue`,
`PostRefused`, `PostInterval` the form handlers; `PostDone` the web server's
event, which may never come: the peer need not finish its form. The handlers of
strings and addresses drop the session whether or not they accept the value, those
of the port and the interval only refuse. `SessionGone` is the whole guard of the
`NEWCONFIG` case: the engine has no session, or is in its error state. The engine,
the timers and the acquisition of an address are external.
`Env` says which of the environment's events a run has.

### ConfigStore

`org` (standing for the MQTT part), `ping`, `bitmap` are the structure in RAM,
`publish` the flags of the readings, `shown` their texts, `flash` the chip, `pc`
the place inside `save_config()`, during which nothing else runs but a reset may
come. The chip holds the structure field by field, in the order of a program
(`Layout`): the magic number and length, then the rest. An erase that the power
or the driver cuts short leaves any part of the old copy, a program a prefix of
the new one; `load_config()` believes whatever has the magic number. `Boot` is
the whole start of the demo process, which has no yield: it starts the MQTT
client, which builds its client id from the defaults (`identity`), only then
loads the configuration, and takes the first readings. `Measure` and `Convert`
are the two timers that take readings, either of which may fail; `SensorForm`
switches a reading and forgets its text. `session` and `identity` are the
abstraction of the MQTT client: a form that changes its settings ends the
session, `UpdateConfig` and `Connected` are the two ways it starts again, and
`Message` is what it publishes. This is the build with external flash; without
it `save_config()` and `load_config()` are empty, a behaviour the model includes
because every access to the flash may fail. `last`, `torn`, `failed` and
`measured` are history.

### PageStream and OutputStream

`at` is where the output thread of a connection is: running, in one of the two
`PSOCK_SEND()`s of `enqueue_chunk()`, in that of `send_string()`, or closed. A
page is what its chunks are made from, in the order of the generators:
constants, short texts from addresses, numbers and readings, and values of the
form's fields between quotes. Redirects are headers only, refusals end with a
constant string that goes past the buffer; of several constants in a row, and of
the chunks of an entry of a table, there is one. Constants and short texts fit
the buffer. Values need not: 32 characters, most of them quotes, become 127 when
they are escaped and 136 with what is put around them, of 128. What
`enqueue_chunk()` does with such a chunk is modelled as far as the next copy,
whose length is negative (`Overrun`); `spoilt` are the connections on whose page
there was one (history). `AckFull`, `AckFlush` and `AckString` are the callbacks
that unblock a connection; one that brings no acknowledgement leaves this state
alone. `OutputStream` is the abstract specification: bytes are produced,
delivered in order, and all of them before the connection closes.

### I2cEeprom

`Write`, `SendByte`, `NextPage`, `WriteReturns` are `i2c_eeprom_write_block()` from
one bus command to the next, `Read` is `i2c_eeprom_read_block()`; `Reset` may come
anywhere. The chip (external) latches the bytes of a transaction, wraps around
inside a page and stores at the stop condition, outside its protected half. Any
start condition may go unacknowledged; `nacked` remembers that a later one of the
running call did (history). The buffer that a read fills is left out.

### Buttons

The user moves the pins (`Press`, `Release`), the GPIO latches edges of enabled
keys, `Interrupt` is `button_press_handler()`: it reads the pin as it is by then,
is deaf while the debounce timer runs, measures presses and shuts the device
down for RIGHT. `Deliver` is the sensors event at the demo process: it asks the
sensor for a duration and publishes or restores the defaults. `Activate` and
`Deactivate` are `configure()`. Time is a number of ticks; an interrupt is served
before the next tick, but the pin may move first.

### SlipBridge and BorderRouter

`at` is where the router's process is: before its first step, in the loop that
waits for a prefix, or in the heartbeat loop. `Startup` is one pass of the former,
which becomes root (`BecomeRoot`: prefix, DAG, radio) or asks and waits
(`AskAndWait`); `Heartbeat` and `ButtonEvent` the latter. `asked` and `told` are what
is on the serial line; `Lost` loses it. `with_slip` is the build: with the SLIP
radio, or with IP64, a fixed prefix and DHCP. The bridge's `FrameIn` ends, like
`slip_input_callback()`, by saving the source address in the packet buffer as
`last_sender`, for commands too, which overwrite that field wholly, partly or not
at all (`SourceField`). Creating the DAG may fail, and the radio goes on all the
same. The host, the line, the RPL stack and DHCP are external.

### RouterWeb

The page generator of the router keeps its buffer, the length of the text in it
and its iterators in static variables, which the two connections share. Each
action is a callback up to the next blocking send; `Segment` takes the text from
the buffer when a segment is made, not when the send begins, and again for a
retransmission, as `psock` does. The page is a sequence of tokens; the number of
neighbours and routes and the sizes a line may have are constants, and `ends` says
how long each line is. A margin of 45 characters is kept for the next line, but
one with a long address in state INCOMPLETE has 51: at the end of the buffer it wraps
the `uint8_t` length. `RunOver` is that step, `GoOn` the rest of the callback, in which
the page goes on over its own beginning.

## 4. Runs

| run | states | bounds | shows |
|---|---|---|---|
| `HttpdPost_safety` | 329 850 | 3 connections, two with unreliable peers, bodies of up to 2 chunks | `ParserBelongsToReader`, `AnswerMatchesBody`, `AppliedNotForgotten`, `LockSoundIfReliable`, `FinishAnnounces`; refinement of `FormEvents`; liveness: a reliable peer gives the lock back and has its values announced, every other one is dropped unless it dribbles for ever |
| `HttpdPost_lock` | stops early | 2 connections, unreliable peers | **violated**: the lock can point to an element that reads no body |
| `MqttClient_safety` | 129 868 | all environment events, five attempts, four sorts of configuration | `StateMatchesEngine`, `BoundedRetries`, `SleepsOnlyOverForm`; liveness: disconnections are handled, a new configuration is used once something runs the state machine |
| `MqttClient_refused` | stops early | three attempts, refused values, peers that finish their forms | **violated**: a refused value strands the client |
| `ConfigStore_saved` | 2 012 487 | two readings, one of them of the ADC, two values of each setting, any flash access may fail, erases and programs may be cut short | whenever nothing is half-way the flash holds the configuration in use; a boot gives the one programmed last, whole, or the defaults, or after something was cut short that one with erased fields; no value is published that was measured before its reading was switched off |
| `ConfigStore_identity` | stops early | three readings, otherwise the same | **violated**: the client comes up with the default identity |
| `FormParser_forms` | 829 838 | every body of up to four characters of seven, forms of two fields, one field of up to five, nothing or one of two texts behind the body; buffers of 4 and 8 bytes | exactly the pairs of the good fields are accepted, whatever the chunks; look-ahead and escaping stay inside the buffers; what `HttpdPost` assumes of a chunk |
| `PageStream_stream` | 292 663 | 2 connections, buffer of 3, constants of 2, texts of 1, values of 0 to 5, tables of at most one entry, two quoted fields and a plain one | on a page whose chunks fit: no overrun, text accounted for, refinement of `OutputStream`; only a page with a longer value halts the device |
| `I2cEeprom_write` | 99 840 | pages of 2, 4 writable of 6 bytes, acknowledgements may fail, resets | nothing outside the block changes; a prefix of it in place at all times, all of it at the end, while the chip acknowledges |
| `Buttons_press` | 1 031 272 | two keys, one of them RIGHT, debounce time of 2 ticks | a duration is that of one press; only short presses are lost; no bounce is reported |
| `BorderRouter_root` | 43 528 | both builds, two hosts, one node | radio off until there is a prefix and a DAG has been tried with one; packets of nodes get out unless an unknown command came last, those of hosts do not bounce; liveness: the router gets to its heartbeat and goes on blinking |
| `RouterWeb_pages` | 105 752 | 2 connections, buffer of 8 with a margin of 3, 3 neighbours with lines of 2 or 4, 1 route of 2, segments of 4, retransmissions | the length is always that of the text, and only a line longer than the margin wraps it; a page that had the static variables to itself and no such wrap is whole; liveness: every page ends |

**Type invariants.** Every component module has one, `TypeOK` (the abstract `OutputStream`
and `FormEvents` do without). All are proved for every value of the constants
(section 5); a run checks only that of `FormParser`, `ParserTypeOK`.

**Why the bounds are enough.** In `HttpdPost` two connections show every
conflict over the lock and a third recycles the element of one of them while the
other reads; two chunks are one that ends a body and one that does not. In
`MqttClient` the number of attempts is the code's own and one value of each sort
of setting suffices, because handlers differ only in what they reset. In
`ConfigStore` each setting has a default and another value, and readings differ
only in which timer takes them; a structure of four fields can be cut short
behind the magic number and between settings. In `FormParser` the buffers are so
small that every limit is reached by a body of a few characters, and the
alphabet has one character for each comparison in the code; what comes behind a
body goes on with its last value, or ends it and adds a pair. In `PageStream` a
buffer of three has an empty, partly filled and a full state, values fit, fill
it exactly and spill, and one of four or five is longer than the buffer, by as
much as makes the next copy negative or not, depending on what was there before.
In `I2cEeprom` a block can start and end at or off a page boundary, span two
pages and touch the protected half. In `Buttons` the debounce time is long
enough for an edge of the same press and one of the next to fall into it. In
`BorderRouter` two hosts are the least that can take each other's place as last
sender. In `RouterWeb` the sizes are such that the neighbours may need more than
one buffer and a text more than one segment, a short line stays within the
margin, and a long one may fill the buffer to the last character or run over.

**Fairness.** Safety runs assume none. `FairSpec` of `HttpdPost` has the event
queue emptied and reliable peers see their requests through; of the others
nothing is expected, neither progress nor an end, but time passes and uIP polls,
and a poll that finds the timer expired ends the connection. Any byte restarts
that timer (`httpd-simple.c:1207`) and the header loop (1088-1100) has no bound,
so a peer may dribble for ever; `QuietPeersAreDropped` is about those that at
some time stop. It does not make new connections come. `FairSpec` of
`MqttClient` has running timers expire, queued events and polls delivered and
the engine finish what it started; users, forms and brokers are never forced to
act, nor peers to finish a form. Only the refuted `NewConfigProceeds` is checked
under `FormsEndSpec`, where they do: so even then it fails. `FairSpec` of
`BorderRouter` has timers expire and their events delivered, DHCP succeed in the
end, and, strongly fair because the line may lose frames, a host that is asked
again and again answer and its answers get through. `FairSpec` of `RouterWeb`
only has peers acknowledge what they are sent and a callback that has begun go
on; `PageEnds` speaks of the time after new connections have stopped, since
visitors may set the shared iterators back for ever.

**Deadlock** is checked except in `FormParser_forms`, where the body ends,
`PageStream_stream`, where the device may halt, and `RouterWeb_pages`, where the
visitors stop.

## 5. Proofs

All theorems hold for every value of the constants under the named assumptions of
the modules. The common pattern: an inductive invariant `IInv`, `InitInv`, one
lemma per action, `NextInv`, `Inductive`, and theorems that draw the properties
from it.

`HttpdPostProofs`. The properties hold together because a body is read only by
the holder of the lock, who started from a fresh parser. `IInv` adds to them two
facts about a connection not yet answered: an element that has read no body is as
it was allocated (`UnusedIsInit`), and a body in progress has chunks to come and
no error (`BodyUnderway`). The tail of `handle_input()` is one lemma with and one
without the lock. Proved: types, `ParserBelongsToReader` (and that there is one
reader at most), `AnswerMatchesBody`, `AppliedNotForgotten`, `LockSoundIfReliable`,
`FinishAnnounces`, and that every step is a step of `FormEvents`
(`ImplementsFormEvents`). Assumptions: the pool is finite, not empty and does not
contain `NULL`; bodies have a positive bound.

The second part of the module is about `FormParser`, for every set of bodies over
any characters, cut into chunks in any way, and for every size of the buffers.
`ParserInv` says what every character finds: key and value in their buffers, the
last byte of the value's still zero, and after a pair no handler knows a key that
none knows. From it: types (`ParserTypeOK`), `LookAheadInside`, and
`ChunkAsAbstracted`, that what the loop does over a chunk is a chunk of
`HttpdPost`. `QuotesWhole` follows from what `html_escape_quotes()` does to any
text (`EscapeShows`). `PairsAsSent` needs more, the invariant `SentInv`: after
`m` characters there is an `n` such that the first `n` fields are good and are what
has been accepted (`TakenOf`), and the parser is (`At`) at the cut after them, in
the key of the next field with its characters so far (`InKey`), in the value with
its equals sign at some `e` (`InValue`), or has met a field that is not good
(`Bad`). The end of a value is where both meanings meet: `UnescapeMeans` shows that
`url_unescape()` computes what the escapes mean, for it sees only zeros behind the
text, and `GoodField` that the parser has checked exactly what makes a field good.
Assumptions: the buffers have room for a character and the terminator, and the
known key fits.

The loops of this code are recursive functions in the model. That such a function
exists, and what it computes, is an induction over its domain, made with a set of
the steps reached (`EveryStep`, from the well-foundedness of the order of the
numbers) since an induction theorem with an operator for a parameter cannot be
used.

`MqttClientProofs`. `StateMatchesEngine`, `BoundedRetries` and
`SleepsOnlyOverForm` for every number of attempts and every set of environment
events; together they are inductive, for they tie the client's state, the
engine's state and what is still to run (timer, queued event, poll) together.
`SleepsOnlyOverForm` does not say that the client wakes up: a form may never
end, or be refused.

`ConfigStoreProofs`. `SavedWhenQuiet`, `BootsWhole` and `PublishedIsMeasured`
for every set of readings and values. The invariant adds `FlashIsLast`: a flash
with the magic number holds what was programmed last, each field of it as it was
or erased, and as a whole unless an erase or a program was cut short; between
erase and program it is blank. Three lemmas (`OverlayFields`, `ErasedFields`,
`ProgrammedFields`) say what an access that is cut short leaves. Two more cover
most actions: a handler leaves the device not quiet, and steps that only move
events on cannot make it quiet.

`PageStreamProofs`. `RoomInBuffer`, `TextAccountedFor`, and the refinement of
`OutputStream` (`ImplementsOutputStream`), for every size of the buffer, all numbers
of entries, fields and connections, and values of any length. All three are about
the pages whose chunks fit the buffer so far, and say that the others do them no
harm; that a value is too long is not ruled out. The assumption is about constants
and short texts only. The invariant says per connection where the output thread
can be (`PieceOK`), and of pages that are not spoilt what is in the buffer
there, in particular nothing after the last chunk (`BufferOK`), and how text, buffer
and rest make up the page (`TextOK`). `Overflow` is the arithmetic of the two copies
of `enqueue_chunk()`, `DoneInv` what its end leaves in all the ways it is reached.
For the refinement, `Production` and `Delivery` turn appending a text into the
prefixes `OutputStream` speaks of.

`I2cEepromProofs`. `OnlyTheBlock`, `PrefixInPlace` and `WrittenWhenReturned` for
every size of pages, of the writable part and of the memory. The invariant adds
where the driver and the chip are in a block (`Progress`) and what is stored and
latched of it (`Placed`): together the bytes sent so far, the latched ones within
one page. The arithmetic of pages (`DivMod` and the lemmas that follow it) shows
that the loop ends a transaction exactly where the chip would wrap around.

`ButtonsProofs`. `DurationIsOnePress`, `OnlyShortPressesLost` and
`NoBounceReported` for every debounce time and set of keys. The invariant says how
the debounce timer runs along with the measured times (`Clocks`), and that a press
or a release after a pause as long as the debounce time is latched and about to be
taken (`NewPress`, `NewRelease`).

`BorderRouterProofs`. `RadioWaitsForPrefix`, `NodesAreForwarded` and `NoBounce`
for any hosts, nodes and prefixes in both builds. The invariant adds that the
router runs only with a prefix and a DAG it has at least tried to create
(`Root`) and what `last_sender` says of the last frame (`Senders`).

`RouterWebProofs`. `LengthOfText` (theorem `TextAndLength`) for every size of buffer,
margin and segment, lines of any sizes that fit an empty buffer, and every number
of connections, neighbours and routes. `Room` is the arithmetic: the neighbours go
on only while the margin is free, so a text reaches the end of the buffer only if
its last line is as long as the margin or longer, and then what is left after the
wrap (`Wrapped`) leaves the margin free again (`Overruns`). The invariant also keeps
every send inside the buffer. Assumptions: the buffer is larger than the margin,
and a line and the text of a route fit an empty buffer.

`LonePageIsWhole` is proved from `PInv`, which adds that what is received and
what is in the buffer is text (`Received`, `Written`) and, of a connection that
has had the static variables to itself and whose lines have not wrapped the
length (`intact`), that what its peer has received and what is left of the text
under way are the page up to the place its generator is at (`Lone`, `OutputOK`).
The concatenation of all lines is again an induction over a recursive function.

**Only model-checked:** what needs fairness (`LockComesBack`, `AppliedIsAnnounced`,
`QuietPeersAreDropped`, `Recovers`, `FormIsActedOn`, `EventuallyRunning`,
`KeepsBlinking`, `PageEnds`), which is beyond the prover. Every other property of a
passing run is a theorem. The runs keep checking them: a wrong model or a theorem
about too little would show there first.

## 6. What the models found

Each is a run that TLC refutes, with the text it contradicts in `PROJECT.json`.

* `httpd-simple.c`: a connection that dies in the middle of a body keeps the
  lock, contrary to the comment at its declaration; every POST is answered 503
  until the element is used for a POST again.
* `mqtt-client.c`: a refused form value leaves the client disconnected with
  nothing to wake it.
* `RC-CC1310-868-demo.c`: the client id is built before the saved configuration
  is loaded, although the configuration is documented to survive a restart.

Seen in the code while modelling, without a run of their own:

* Web server of the demo: `config_ok` is global, so a refused POST announces
  another connection's half-applied form. A key no handler knows leaves the
  parser in the value, which then grows into the next pair. The page counter is an
  argument of a blocking call and counts once per callback of a blocked page.
  `enqueue_chunk()` takes the would-be length from `vsnprintf()` (334): an accepted
  value of 32 characters with 21 quotes or more, escaped and put between quotes
  (665-668, 679-682, 720-723), is longer than both buffers, and the copies at
  349-351 and 343 leave them. A read that brings more than Content-Length leaves
  the count negative (1126-1130): the last pair is then not completed. A peer that
  sends a byte every few seconds keeps its element for ever (1207).
* MQTT client: a peer that dies in the middle of a form whose first values were
  accepted leaves the client asleep until the next form ends, since the timer is
  stopped and no event posted. A form posted while connecting is overridden when
  the connection comes up (`mqtt-client.c:390`). A timer event queued before a
  disconnection starts the next attempt without its backoff. The defaults are
  written into the configuration in use without dropping the session (812). The
  comparison in `pub_handler()` (376) is the wrong way round, and the
  subscription the demo's README describes is commented out (706). A reading
  without a text makes the published JSON malformed.
* Demo process: restoring the defaults leaves the ping interval alone (257). The
  magic number and the length are programmed before the settings (134) and are all
  that `load_config()` looks at (173): a program that is cut short boots erased
  fields as settings.
* Buttons: the constants for the state and the duration of a press are equal
  (`button-sensor.h:46-50`), so `value()` never returns a duration and the long
  press that restores the defaults is out of reach. RIGHT is not debounced and
  shuts the device down at both edges. The saker's driver is set up for rising
  edges, its comment says falling (`button-sensor.c:83`).
* EEPROM driver: a page whose start was not acknowledged counts as written (121,
  against `i2c-eeprom.h:78`); a read of 256 bytes, which is allowed, does not fit
  the length of the burst (171); the waits for the controller have no time limit
  (102, 109, 121).
* SLIP bridge and border router: a command the bridge does not know leaves the
  last packet's source in the buffer, and a node may become `last_sender`; two
  hosts that take turns defeat the suppression of bounces. The radio goes on
  also when the DAG could not be created, although the comment at
  `border-router.c:247-253` keeps it off until the router is the root. A prefix
  told before the process starts is forgotten, and one told after the DAG exists
  has no effect on it.
* Web server of the router: the line of a neighbour with a long address in state
  INCOMPLETE has 51 characters against a margin of 45
  (`httpd-simple-handler.c:156`) and may wrap the `uint8_t` length; the page
  goes on over its own beginning. Two pages generated at a time are mixed up,
  since buffer and iterators are shared, and a route is read through a null
  pointer; the generator is the same for every name, so that 404 is never sent.

## 7. Not modelled

* **Start-up code, drivers, pin tables** of both platforms: no state but the
  hardware's. Formatting, logging, LEDs of the demo.
* **CoAP resources and 6LBR client:** switched off in `project-conf.h`; the
  resources format a reading or set a value in a driver outside this repository,
  the client is a timer that sends reports nobody answers.
* **The network stack, the MQTT engine, timers, flash driver and RPL** are not in
  this repository and are modelled as the code uses them.
* **The tables the page generators walk over** (neighbours, routes, readings) may
  change while a page is sent; what an iterator then points to depends on how the
  stack recycles its entries. The page counter.
* **The demo's pings of its parent** and their reading, which touch nothing else.
* **What the device does after a copy of negative length:** the model halts there.
* **Register-level waits** of the EEPROM driver, and the buffer a read fills.
