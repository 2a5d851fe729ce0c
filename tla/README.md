# A verification development of energymonitor

energymonitor reads an electric meter over MQTT and regulates, in real time, how
much power the micro converters of a balcony solar plant feed into the house. On
the way it stores everything the devices report in a database. This directory
holds TLA+ specifications of the program, the TLC configurations that
model-check them and TLAPS proofs about each of the specifications.

`PROJECT.json` lists the components, the runs, for each property a plausible
change of the code under which the run must fail, the source lines of each
definition, the findings, the hazards and the theorems.

To check a run or the proofs:

    tlc -workers 2 -config PowerControl_steady.cfg MCPowerControl
    tlapm PowerControl_proofs.tla

## 1. Inventory

Line numbers refer to the files under `src/`.

### Realtime power controller: `mqtt.go`, `energy_device.go`

*State*: package variables `currentRequested`, `currentDelivered`,
`blockRequestTime`; no lock. *Operations*: `processEvent` (take a reading,
decide), `SetOverallPowerConsumption` (limit again, distribute over the
plugins), `refreshCurrentPowerRequest` (read back), all in the goroutine of
`LoopCounterAndCancelOutput`. *Interacts* with the plugins (power handlers), the
vendor's cloud behind them, the configuration that another goroutine rewrites,
and the meter, which shows the effect of earlier decisions.

*Hard*: the loop is closed through the house, with a delay covered only by a
block window; each limit is read twice while it may change; failed calls look
like zeros; zero means both "nothing requested" and "nothing known"; a restart
forgets everything but the cloud does not. *Correct when*: what is sent lies
within limits in force; import in the block window raises nothing; decisions rest
on answers; what is announced is sent; the request it remembers is the one the cloud
holds, or none; and once the house is calm, import and export are balanced and stay
so.

### Power handlers of the plugins: `plugins/ecoflow`, `plugins/marstek`

*State*: the list of converters of the configuration and a client of the cloud.
*Operations*: `Converter`, `GetPower`, `SetPower`, `Stop`. Ecoflow drops the
result of the call that sets the power and turns a failed query into two zeros;
marstek's `GetPower` is "Not implemented yet" and its `SetPower` does nothing.

### Configuration and its watcher: `config.go`

*State*: `adapter.DefaultConfig`, shared by all goroutines. *Operations*: load
with defaults, watch the file, unmarshal a changed file into the live value.
*Hard*: no lock; the defaults are applied only after the fields are written, so
other goroutines see zeros in between; a field the file no longer gives keeps its
old value. *Correct when* no interleaving makes the controller send something no
limits allow.

### Start, plugins and shutdown: `cmd/energymonitor/main.go`, `general.go`, `plugins.go`

*State*: the plugins map, the channels `done`, `httpDone`, `quit` and
`signalChan`, `pahoClient`. *Operations*: read the configuration, open the
database, walk the plugin directory and register each plugin, wait for the
signal, stop each plugin. *Hard*: the goroutines of the first plugin run while
the next one registers; the event loop reads the map that main writes; a signal
may come at any point; clients may be nil. *Correct when* the start ends however
often the broker refuses, a signal ends the process, and no converter is left
raised.

### Table and column store: `database.go`, the store loops of both plugins

*State*: the list `dbTables`, the tables and columns in the database, one
connection for each of the two ecoflow goroutines and one per device in each
marstek goroutine. *Operations*: `CheckTableExists`, `AddTableColumns`,
`InsertTable`. *Hard*: several goroutines over one unlocked list; tables and
columns appear between a look and an act; three functions name the fields and
columns of the same record; a record is lost when anything fails and the next
must repair it. *Correct when* every table comes to exist, and records are
stored again once the disturbances end.

### Device pollers: `plugins/ecoflow/http.go`, `eco_mqtt.go`, `plugins/marstek/marstek.go`

*State*: `ecoflowDeviceMap`, `energyProviding`, the online status of devices,
the marstek clients. *Operations*: the polling loop of ecoflow, one polling loop for
every marstek device (`Register` starts it once per device, greeter.go:78-82, and
each goes over all of them, marstek.go:35-66), and a callback of the vendor's MQTT
listener. *Hard*: maps shared with the event loop, with `Stop` and between the
marstek loops, which read and write `statusChange` at every poll.

### MQTT link and event loop: `mqtt.go`

*State*: the client, the unbuffered `msgChan`, the counter of messages and the
loop's count of silent ticks. *Operations*: dial with retries, connect, subscribe,
hand messages to the loop, take them, exit on a client error or when stuck.
*Hard*: hand-over without a buffer while the loop waits for the cloud; answers of
the broker behind messages nobody takes; retained messages before the loop
exists; a connection that is lost without an error. *Correct when* no message is
lost or overtaken, the start never hangs, the loop never costs a living
connection, and the process does not outlive a lost one.

### MQTT message mapping: `mqtt_parser.go`

*State*: the map under construction, filled entry by entry. *Operations*:
`createEntry` walks each path and splits negative numbers, `reflectType`
converts; `processEvent` then asserts the types of two entries. *Hard*: a missing
key leaves an object in place of the value; whether an entry may replace another
depends on type and sign; every mismatch ends the process. *Correct when* an
event is what the meter has shown, in whichever order the mapping is written, and
only a mismatch ends the process.

### The rest

The statistics loop (`stat.go`) prints counters and stops on `quit`. The store
queue of `database.go` has no sender; the byte formatter has no caller;
`compute.go`, `version.go` and `mqtt_logger.go` have no behaviour of interest.
The database driver, the vendor's API and the MQTT client are other repositories.

### Interactions

    meter --MQTT--> link --msgChan--> event loop = controller
                                          |  ^ reads without lock
                                          |  configuration <-- watcher <-- file
                                          v
                                   plugins map (written by main at the start)
                                          |
                              ecoflow / marstek handlers --> cloud <-- owner's app
    devices --HTTP, MQTT--> store loops --> dbTables, columns --> database
    signal --> signal goroutine --done--> main --> Stop of each plugin

## 2. Modules

### PowerControl

The controller, the watcher, the cloud's standing requests, clock, app, failures
and restarts. `pc` is the place of the loop goroutine:

| places | code |
|---|---|
| `idle`, `aim`, `import`, `upper`, `takeUpper`, `base`, `takeBase`, `announce` | `processEvent` (mqtt.go:232-308) |
| `floor`, `takeFloor`, `cap`, `takeCap`, `set` | `SetOverallPowerConsumption` (energy_device.go:8-36) |
| `refresh` | `refreshCurrentPowerRequest` (energy_device.go:38-55) |
| `down` | the process has ended and is not yet restarted |

Every read of a limit is a step, and so is each write of the watcher: the places
`takeX` lie between the comparison with a limit and its use. `call` holds the
locals, `todo` the converters the current loop over the map of plugins has still
to visit; its order is arbitrary, as in Go. The inbox stands for whatever holds
readings between the broker and the loop. `cfg` is the live configuration,
`unread` the fields of the file still to be written. The base request, the upper
limit and the window may be negative, since nothing rejects it: a converter is then
never asked for a negative power (energy_device.go:23), and a negative window is
none. A negative intermediate size is left out: with it a reading without import
would count as import, and would raise within the block window. `inForce` and `answered`
are history variables, named so in the declaration; no action looks at them but
to update them.

### ClosedLoop

Extends PowerControl by the house: its load, what each converter can yield, and
the meter, which shows the difference as import, as an out value or as a negative
power. The disturbances (load, yield, app, lost requests, failed queries, ends of
the process, slow calls) happen until a step `CalmDown`, which may come at any place
of the loop and over readings that still wait; the liveness properties speak about
what follows. Every step of the closed loop is one of the open controller or leaves
it alone, so its theorems hold here too. `RequestKnown` says that neither failure nor
delay leaves the loop with a wrong memory of its request. Two properties are the safety halves of
convergence: every decision made on the house as it is makes progress
(`DecisionsImprove`), and a balanced house the loop has come to rest in stays balanced
(`StaysBalanced`). `QueryAnswered` with an arbitrary delivery, the
disturbance "polled", is a read-back of `energyProviding` after the HTTP loop has
written it.

### Regulator, PowerControlRefinement

`Regulator` is what the controller promises while nobody edits its file: a reading
it acts on leads to one decision from one formula, in one step (`Decide`); the
decision, capped, goes to at most one converter (`Send`, `SendFails`); then what
is requested and delivered is learned anew. `PowerControlRefinement` instantiates
it over PowerControl:

| Regulator | PowerControl |
|---|---|
| `settings` | the file as loaded, defaults applied |
| `phase` | "down" and "learning" are the places `down` and `refresh`; "sending" the places of `SetOverallPowerConsumption`; everything else "ready" |
| `order` | the decision, from the step that announces it until a converter has been asked |
| `requested`, `delivered`, `window` | `currentRequested`, `currentDelivered`, `blockLeft` |

All places of `processEvent` between taking a reading and announcing the decision
are stutters of the regulator, so that two orders of applying limits, over many
reads, must come to the one formula.

### Lifecycle

main, the signal goroutine, the event loop, the store loops and the statistics
loop from start to the end of the process. `main` is the place of the main
goroutine. The store loops are the HTTP loop, the callback of the vendor's listener
and one loop for every marstek device of the set-up. Four maps are shared without a
lock: `plugins` (written by main while at "writing"), `ecoflowDeviceMap` (by the HTTP
loop at "entering"), `mapStatDatabase` (by any store loop, the callback among them, at
"counting") and `statusChange`, which every marstek loop reads and writes after each
poll (`Mark`, "marking"). `ConcurrentMapAccess` is the run-time error of an access that
meets a write. `unseen` counts the entries a loop still has to make in the first three;
for `statusChange` there is no such count, since it is written for ever.
What an event decides is left to PowerControl: here it raises the first converter
or only reads back.

### TableStore

A writer is a pair of a goroutine and a device whose records it stores; `Role` says
what the goroutine is: the HTTP loop, the callback of the vendor's listener or a loop
of the marstek plugin. There is one marstek loop for every device and each goes over
all of them (`GoroutineAssumption`), so two devices are four writers. A goroutine takes
its devices one after the other (`Turn`) and enters its loop after it has prepared all
of them. Each record follows
`CheckTableExists`, `AddTableColumns` and `InsertTable` through its places; every
call of the database is a step, and so is each assignment of `dbTables`. `conn`
holds the connections: one of the HTTP loop, one of the callback (which the HTTP
loop uses before it starts), and in each marstek loop one for each device. A record is a function
from the paths of its keys to the kinds of their values; `CollectKeys`,
`InsertHttpData`, `insertMqttData` and the functions for the columns of new tables
are operators on it; `Panics` are the type assertions of `collectKeys` on the
timestamp, the vendor and the serial number, which end the process where a device gives
them another kind of value. `LostOnlyToRace` is the safety half of `StoresAgain`: a
writer with an open connection, whose table has or can get a column for every field
(`Storable`), loses its record only if another loop has added a part of the columns
between its look at them and their addition (`Raced`).

### MqttLink

`ConnectMQTT` after dialling, `LoopCounterAndCancelOutput`, and between them the
client library, modelled by how the code uses it: a reader that hands messages one
by one to a router, which calls the function that sends on `msgChan`. `wire` holds
what the broker has sent (messages, the answer to the subscription, answers to
keep-alives, a disconnect), `reader` and `router` at most one message each. The
broker may fall silent, leave, or vanish. A timeout runs out only when nothing
that has arrived could be read (`Settled`): PacketTimeout is 2 minutes and the
keep-alive 30 s, a hand-over microseconds. The calls to the cloud while an event
is handled (`loop = "busy"`) may outlast any of them.

### Mapping

`createEntry` as one action per entry of the mapping; `Walk` is the path of a
source through the JSON object, `Accepts` the kinds of values `reflectType`
converts to each type, `Filled` what an entry does to the map. A message carries a
description of what it shows: a properly measured exchange with the grid, a
garbled one, or one that lacks a value.

The `MC` modules give the constants their values; the `_proofs` modules hold the
theorems. `Induction` holds lemmas on the natural numbers and on sums that two of the
proofs share. Where a theorem has a hypothesis on the constants, the `MC` module of the
component assumes it as well if all its instances meet it (`OwnTables`,
`OnlyExportSplits`, `LackingIsIncomplete`), so that TLC evaluates it.

## 3. Runs

| run | what it shows |
|---|---|
| `steady` | One ecoflow and one marstek converter, consistent, crossed and negative limits, readings queued up to two deep, requests changed by the app, lost requests, failed queries, ends and restarts of the process. Decisions rest on answers (`DecidesOnAnswers`), import in the block window raises nothing (`BlockedOnlyLowers`), the announced request is the one sent (`AnnouncedIsSent`), and the controller implements the regulator (`Regulates`, with the invariant of its proof, `RefinementInvariant`). |
| `reload` | The file is edited while events are processed. Every interleaving keeps what is sent within limits that were in force (`WithinLimitsInForce`), even when a reload passes through zeros before the defaults. Also checks the inductive invariant of the proofs, in a file with a window and with one open at the start, so that its part about the window is met. |
| `converges` | One converter, a changing load, a fading sun, lost requests, failed queries, slow calls during which the block window runs out over readings that wait, restarts. The loop never remembers a request other than the one the cloud holds (`RequestKnown`) and comes to know it again (`ControlRegained`). Once calm, the loop balances the house and leaves it balanced (`Converges`); a house balanced once stays so if the loop remembers it rightly (`StaysBalanced`), and a decision on the house as it is balances it or lowers a request that is not met (`DecisionsImprove`). |
| `two_converters` | Violated: with two, the first takes all of the request and the second keeps its own, so the converters are not asked for what was announced. |
| `app_change` | Violated: a request raised by the app while the loop remembers the base request, or a delivery remembered from a poll, leaves the house unbalanced for good. |
| `signals` | Set-ups with plugins, keys, broker and listener present or not, with up to two marstek devices, signals at any time, refused dials, failing goroutines and the shared maps: the start ends (`StartEnds`), a signal ends the process (`SignalEndsProcess`), in an orderly end every converter that may have been raised has been reset (`NoConverterForgotten`), and the maps of plugins, devices and tables are not written for ever (`MapsSettle`), though `statusChange` is. |
| `reset` | Violated: the event loop raises a converter again after its reset. |
| `loops` | HTTP loop and MQTT callback, new keys, a callback whose records may carry a timestamp that makes it panic, broken connections, failed queries, ends by a fatal error: a goroutine that has checked its table finds it (`CheckedTableExists`), the missing table comes to exist (`TablesCome`), no record is lost without a cause (`LostOnlyToRace`), and both store their records again (`StoresAgain`). |
| `devices` | Two marstek devices and so two goroutines, each of which goes over both devices, on one table; one device always reports more than the table has, the other comes to report more, nested values too, and the two loops may be told different records of it. Records are lost to the other loop, and to nothing else (`LostOnlyToRace`); all four writers store again (`StoresAgain`), since what the other loop has added is found at the next record. |
| `race` | `NeverFatal` is violated: two goroutines on an empty database; one sets the list of tables back under the other, which creates its table a second time and ends the program. |
| `link` | Up to four messages, retained ones before the subscription is answered, a broker that leaves, a connection that dies, slow events. No message is lost or overtaken (`InOrder`), `ConnectMQTT` returns or ends the process (`ConnectEnds`), messages are taken in the end (`MessagesTaken`), a lost connection ends the process (`LostLinkEnds`), the loop calls itself stuck only after silence (`StuckWhenSilent`), and a keep-alive fails over a living link only while an event is handled or before the loop exists (`KeptAlive`). |
| `mapping` | Eight mappings in every order of their entries, three kinds of meters, numbers and numerals, messages that lack a value or hold one of another kind: an event is what the meter has shown (`EventIsReading`), and only messages the mapping does not fit end the process (`EndsOnMismatch`). |

The violated properties quote a message or comment of the code; `findings` in
`PROJECT.json` names the lines.

### Bounds

- Powers are small integers. The decisions only compare, add and subtract, so
  what matters is their order: readings meet, miss and exceed the intermediate
  range, the block, both limits and their difference. The theorems about the
  limits hold without these bounds.
- `InboxCap` 1 or 2: one queued reading is enough for a stale one to follow a fresh
  request, as in `converges`, two for a second decision on stale readings; `Rate`
  bounds the readings between two ticks, so that the window of one tick outlasts
  those queued, as 30 s do in the program, once calls are no longer slow.
- Two converters, plugins and marstek devices at most: the interesting differences
  are first against others, and one goroutine against another. Two devices give two
  marstek goroutines and four writers.
- `MaxTries` 2 instead of 120: one retry and one surrender.
- `Entries` 1: one entry for each store loop to make in the maps of devices and
  tables; what matters is an entry while another goroutine is in its walk. The marks
  in `statusChange` are not bounded.
- `MaxSent` 4, `MaxWire` 3: one message in the loop's hands, one at the router, one
  at the reader and one on the wire in front of an answer. The proofs do without
  them. `Patience` 2 instead of 10, again any number in the proofs.
- Mappings of up to three entries with paths of one and two keys; values on both
  sides of zero, with and without a fraction. All three invariants are proved without
  these bounds.
- Records have up to five keys: present ones, a new scalar, a new nested value.
- No state constraint is used; all bounds are constants in guards or sets.

`signals`, `link` and `mapping` have the stutter `Gone` after the end of the
process; every run checks for deadlock.

### Fairness

- *ClosedLoop*: weak fairness of the loop goroutine (the Go scheduler; calls to
  the cloud return), of the meter (it reports periodically), of the clock and of
  the restart (the container is started again). The end of disturbances is weak
  fairness of `CalmDown`: without it nothing could settle. Until then time may pass at
  any place of the loop (`Wait` with the disturbance "slow"): the window is set at
  mqtt.go:302, before calls to the cloud that have no timeout, so that it may run out
  over readings that show the house before the request, and with `slow` alone TLC does
  reach a raise on such a reading. The properties of `converges` do not exclude it; they
  say that it is made up for. Once calm, time passes only while the loop waits for a
  reading: a window of 30 s outlasts a few prompt calls.
- *Lifecycle*: weak fairness of main's start, its shutdown, the signal goroutine
  and the event loop. Nothing is assumed of the environment: the broker need
  never accept, no message need arrive.
- The store loops of *Lifecycle* are weakly fair as well: they run on
  timers and their calls return.
- *TableStore*: weak fairness of each writer's steps, strong fairness of taking its
  next record, since a goroutine handles other devices in between; devices keep
  reporting. Weak fairness of the restart and of the calm.
- *MqttLink*: weak fairness of the reader, the router, the loop, of an event's end
  and of the keep-alive. Strong fairness of the timeout of the subscription and of
  the loop's tick: their timers run on while a keep-alive is answered now and then.
  Nothing is required of the broker. *Mapping* has safety properties only.

## 4. Proofs

### The controller

`PowerControl_proofs` proves, for every set of converters, readings, files,
edits and every bound, from the assumptions stated in PowerControl:

| theorem | statement |
|---|---|
| `TypeCorrect` | `Spec => []TypeOK` |
| `LimitsCorrect` | `Spec => []LimitInvariant` |
| `LimitsInForceCorrect` | `Spec => []WithinLimitsInForce` |
| `BlockWindowCorrect` | `Spec => []BlockedOnlyLowers` |
| `AnnouncementCorrect` | `Spec => []AnnouncedIsSent` |
| `AnswersCorrect` | with at most one ecoflow converter, `Spec => []DecidesOnAnswers` |

None of the three properties of the limits is inductive: each speaks of the place
where something is sent, while what makes it true happened several steps, and
possibly several writes of the watcher, earlier. `LimitInvariant` adds

- `LimitsRecorded`: while the loop decides, the live limits are among those on
  record, so a limit just taken is one that was in force;
- `FloorPassed`: what meets the second upper limit has passed a base request;
- `WindowRespected`: within the window no decision comes from import, and until
  the base request is taken the decision does not exceed the request;
- `ComparisonsHold`: as long as no reload has changed a limit, a comparison still
  holds in the step that uses it.

The proof has a lemma for each group of actions, with one step per action.
Reload and environment are dealt with once: they leave the loop's place and
locals alone and only ever add to the limits on record (`LimitsOnlyGrow`,
`SteadyBefore`). `AnswersCorrect` uses an invariant of its own: a positive sum
in a refresh was answered, and a sequence that visits one converter at most once
cannot mix an answer with a failure.

### The regulator

`PowerControlRefinement_proofs` proves, for every set of converters, readings and
files, provided the file is not edited (`Edits = {}`):

| theorem | statement |
|---|---|
| `RefinementCorrect` | `Spec => []RefinementInvariant` |
| `RegulatorImplemented` | `Spec => Regulator!Spec` under the mapping above |

A step maps to the regulator only if what the loop carries from place to place is
what the regulator would compute at the end, and this is the invariant:
`ConfigSteady` (the live configuration is the file's), `EventActedOn` (a reading
that got as far as deciding is one the regulator acts on), `DecisionSoFar` (the
decision has grown by the parts of the formula done so far) and
`OrderOutstanding` (what is on its way to a converter is the decision, capped).
The assumption on edits is needed: while a reload is in progress a decision may mix
two configurations, which `WithinLimitsInForce` covers.

### The link

`MqttLink_proofs` proves for every `Patience`, `CloseIfStuck` and all bounds:

| theorem | statement |
|---|---|
| `TypeCorrect` | `Spec => []TypeOK` |
| `OrderKept` | `Spec => []InOrder` |
| `StuckIsSilent` | `Spec => []StuckWhenSilent` |
| `LinkKeptAlive` | `Spec => KeptAlive` |

`LinkInvariant` adds that the loop runs exactly when the subscription has been
answered (`LoopStarted`), that over a living link an unanswered keep-alive has its
answer on the wire (`PongOnWire`), so that what has not been read is behind a message
nobody takes, and that each of the `try` ticks was a silent one (`TriesAreQuiet`).

### The mapping

`Mapping_proofs` proves, for every list of mappings, every object however deeply
nested, and paths of any length:

| theorem | statement |
|---|---|
| `TypeCorrect` | `Spec => []TypeOK` |
| `MismatchOnly` | `Spec => []EndsOnMismatch` |
| `EventCorrect` | with `OnlyExportSplits` and `LackingIsIncomplete`, `Spec => []EventIsReading` |

`Walk` is a recursive function, so the first thing to show is that it has the value its
definition says (`WalkEquation`), and then that it stays within the values of the
message; both are inductions on the length of the path. `MappingInvariant` says of a map
under construction that all entries so far found a value of a kind they convert, and that
it holds exactly the names they write, with their types. `ReadingSoFar` adds what the
numbers are: with a signed power an export is in `power`, or `power` is zero and the export
is in `out`, where no entry replaces it; with two unsigned values each is in its place. It
is invariant in every order of the entries because a number never replaces what is set.
`MeterAssumption` says what it means that a message shows an exchange.
`OnlyExportSplits` says that the mapping splits only a negative power into `out`, as the
templates of the repository do; `LackingIsIncomplete`, that a message called lacking does
lack a value for each of the mappings.

### The closed loop

`ClosedLoop_proofs` proves, for every load, every power a converter is able to yield,
every kind and number of disturbances and any rate of readings:

| theorem | statement | further hypotheses |
|---|---|---|
| `LimitsInHouse` | `LoopSpec => []WithinLimitsInForce` | |
| `MemoryCorrect` | `LoopSpec => []RequestKnown` | `SingleConverter`, no "app" among the disturbances |
| `BalanceKept` | `LoopSpec => StaysBalanced` | `Edits = {}`, `SingleConverter` |
| `ProgressOfDecisions` | `LoopSpec => DecisionsImprove` | `Edits = {}`, `SingleConverter` |

All of them assume `Unrestricted`: the open controller knows every power and every
reading (`Watts = Nat`, `Readings = Reading`), which is what it means that the house is
not restricted. The lemma `OpenLoop` carries the theorems of the controller over; it
needs that what the meter shows is a reading at all, and this is not obvious: the
exchange sums over the converters, by a fold of the library. `SumEquation` in
`Induction` shows that the fold satisfies its recursive definition for every finite
domain, `SumStaysIn` that the sum is a number.

- `MemoryCorrect`: between a call that sets the power and the read-back the memory is
  wrong, and a read-back may fail or find an older delivery, so the invariant follows
  the refresh through its places: what has been summed up so far is nothing or what the
  one converter is asked for. It holds for slow calls, lost calls and restarts at any
  step and while the file is edited. With the app it does not hold, as `app_change`
  shows.
- `BalanceKept`: `Settled` extends "balanced and at rest" to every place the loop passes.
  It knows the house, or nothing, wherever it is; the readings that wait show the house;
  and what it sends asks for more than is available, as what it replaces did. A loop in a
  balanced house may still send, which is why being balanced alone is not inductive.
- `ProgressOfDecisions`: `OrderIsDecision` says that what is on its way to a converter is
  still the decision on the reading and the memory it was made on; the rest is arithmetic
  on loads, limits and yields, by cases of import, export and the limits. The property
  speaks of positive limits: a negative request is never sent.

`BalanceKept` and `ProgressOfDecisions` are the safety half of `Converges`: between a calm house and a balanced
one lie decisions that either balance it or lower a natural number, and then it stays.
That decisions are made at all is fairness, and stays with TLC. `SingleConverter` is
needed: `two_converters` shows what happens with two.

### The life of the process

`Lifecycle_proofs` proves, for every set-up, list of converters and bound:

| theorem | statement |
|---|---|
| `TypeCorrect` | `Spec => []TypeOK` |
| `NobodyForgotten` | `Spec => []NoConverterForgotten` |

`NoConverterForgotten` speaks of the end; the invariant of the steps before it is that
only registered plugins are asked for power (`AskedIsRegistered`) and that from the
moment the signal is acted on the ecoflow plugin is still to be stopped, is resetting,
or has reset all its converters (`ResetOnStop`). That this covers every order rests on
the signal being acted on only after the walk: `ReceiveDone` follows `DevicesUp`.
`Registering` gives the walk's place its type.

### The store

`TableStore_proofs` proves, for any number of devices, tables and kinds of records:

| theorem | statement |
|---|---|
| `TypeCorrect` | `Spec => []TypeOK` |
| `CheckedTablesExist` | `Spec => []CheckedTableExists` |
| `NoOtherLoss` | with `OwnTables`, `Spec => []LostOnlyToRace` |
| `AloneNeverFatal` | with `OneGoroutine`, `Undisturbed` and `RecordsTyped`, `Spec => []NeverFatal` |

The shared list may be set back to an older one at any time, so what a goroutine read
is not what it finds; but no table is dropped, so an old list is still right about what
it names (`ListsAreRight`), and a table once found or created stays
(`TableFound`). `MissedInTable` is needed for the types: columns are added only to a
table that exists.

`LostOnlyToRace` speaks of the insert, and what makes it true happened when the columns
were looked at: `Prepared` says that from then on each column the record wants is there
or among the missing, and that at the insert the missing ones have all been added unless
some were there before, which is the race. The writer's own steps keep it
(`OwnStepPrepared`), and so do all others (`OtherStepPrepared`), since a goroutine is busy
with one device at a time (`OneBusy`), no connection is another goroutine's
(`ConnsOwned`) and columns are only added (`ColumnsStay`). `OwnTables` is what the
configuration of the repository sets up: the ecoflow writers have tables of their own,
which the theorem needs for the table the callback creates, while the loops of marstek
may share one, as they do in the code.

`AloneNeverFatal` is the other side of the finding of `race`: with one goroutine, however
many devices it goes over, the list it checks is the one it has just read, and no table
comes in between (`AloneInvariant`), so the second goroutine is the cause. `Undisturbed`
excludes broken connections and an end of the process by itself, `RecordsTyped` values
without a column type and those `collectKeys` panics on; each ends the program for another
reason. No kept run has this case; TLC found it to hold for two devices of one callback with
changing records.

### Induction over data

The induction theorems of the library take the statement as an operator, which the
provers installed here cannot instantiate. `Induction` states induction for a set instead
(`SetInduction`: a set with zero and each successor holds all natural numbers), from the
well-founded order of the library, and the proofs define the set of lengths, or of
cardinalities, for which a statement holds. What is defined by recursion on something
other than a number can be reached this way only if a number measures it.

### Only model-checked

The liveness properties, since the prover does neither fairness nor ENABLED:
`Converges`, `ControlRegained`, `StartEnds`, `SignalEndsProcess`, `MapsSettle`, `TablesCome`, `StoresAgain`,
`ConnectEnds`, `MessagesTaken`, `LostLinkEnds`. Of `Converges` and `StoresAgain` the safety
halves are proved. Then the properties that do not hold. Every invariant and every action
property of a passing run is stated by a theorem.

## 5. What is left out, and why

- Power is an integer number of 0.1 W, the resolution of the vendor's API;
  rounding of floating point is not modelled.
- The dynamic-request switch and all sections of the configuration the
  controller does not read; a file that cannot be read ends the process, which is
  `Crash`.
- Column types: a column takes its type from the first value, so an integral
  first value of a fractional quantity makes an integer column
  (database.go:196). Two keys that become one column name by replacing dots.
- The content of statistics and of log lines.
- The content of the online status: `statusChange`, `online` and `checkDeviceOnline`
  decide nothing but a log line (that the marstek loops write `statusChange` without a
  lock is in `Lifecycle`), and `needRefresh` only whether the vendor's device
  list is asked for again, which the loop over `devices` does not look at.
- The stop channel `mqttDone` of the event loop, to which nobody sends.
- What the client library does below the functions the code gives it, and a second
  subscription or connection, which the code does not attempt.
- The store queue, whose channel has no sender, and the byte formatter, which has no
  caller: no state of the program depends on them.

### Behaviour seen in the models that no kept run shows

Each of these was found by TLC on a variant of the instances above.

- *Crossed limits.* Nothing rejects a base request above the upper limit
  (`adapter_test.yaml` has 180 and 100). `processEvent` then announces the base
  request and `SetOverallPowerConsumption` sends the upper limit
  (mqtt.go:281-291, energy_device.go:11-16). `AnnouncedIsSent` therefore assumes
  consistent limits; `WithinLimitsInForce` does not.
- *Removed fields.* A reload unmarshals into the live value, so a field removed
  from the file keeps its value until a restart (config.go:134).
- *Request zero.* When the app sets the request to zero, the sum reads as
  "unknown" and the loop does nothing until the app raises it (mqtt.go:241).
- *Sun and load rise together.* Import is added to a delivery remembered from the
  last refresh; if the yield has grown since, the sum may be just the remembered
  request, which is neither sent nor read back (mqtt.go:273, 301). `Converges`
  is therefore checked without changes of the yield.
- *`httpDone`.* `endHttp` sends to a channel nobody receives from
  (general.go:45); the loops have channels of their own of that name
  (http.go:111). Only its buffer lets the shutdown go on, and the loops are not
  ended by it.
- *Stale readings after a slow call.* With the disturbance "slow" alone the loop raises
  a second time on a reading from before its request, when the call that sets the power
  outlasts the window (mqtt.go:302-307); without it, and with a window of at least a tick,
  it does not.
- *The status of marstek devices.* With two devices two loops read and write
  `statusChange` at every poll (marstek.go:128, 147, 154, 156), so that the process may end
  in a run-time error at any time.
- *Panicking records.* A device that sends a timestamp, a vendor or a serial number of
  another kind ends the process at each such record (database.go:266-274), before anything
  is stored.
- *Nil clients.* Without a broker `Stop` of the ecoflow plugin panics after its
  resets, without keys before them (mqtt.go:228); plugins after it are not
  stopped.
- *The plugins map* is written by main while the event loop goes over it
  (plugins.go:139, energy_device.go:21), so the start may end in a run-time error.
- *Lists.* A new key with a list, for the HTTP loop also one with an object, gets
  no column under the name the insert uses, and every later insert fails
  (database.go:308, 359).
- *A new marstek table.* Its columns are computed from names under which no value
  is found, so the table cannot be created and the program ends (marstek.go:75);
  the runs start with the table present.
- *A marstek device left out.* One that does not answer at the start is never asked
  again (marstek.go:50).
- *A marstek connection lost.* The new connection is assigned to the copy made by the
  range clause, so every later record goes to the closed one (marstek.go:142).
- *A delivery from the poll.* The HTTP loop writes `energyProviding` between a query
  and its use (http.go:164); the loop then adds import to an old delivery, and if the
  sum is just the remembered request, it stays there. `Converges` does not hold with
  the disturbance "polled"; `app_change` has it.
- *Deaf without an end.* A broker that closes the connection is only reported. Without
  `CloseIfStuck`, which nothing in the repository sets, the process stays without
  messages (mqtt.go:89, mqtt.go:154).
- *Events that end the process.* A mapping that only splits a negative power leaves
  `out` unset on the first import (mqtt.go:236); a `null` is fatal; a text that is no
  number becomes a reading of zero (mqtt_parser.go:127).

## 6. Plan

The controller and its abstraction, the closed loop, the life of the process with its
shared maps, the store, the link and the mapping are done. What would add most from
here:

1. **Proofs**: what an orderly end leaves behind, for the other liveness properties the
   invariants behind them as `StaysBalanced` and `LostOnlyToRace` are for theirs.
2. **A read-back as it is in the cloud**: the query and the use of `energyProviding`
   as two steps of PowerControl, to say for which polling intervals the house is
   balanced.
3. **Column types**: an integral first value, then a fractional one.
