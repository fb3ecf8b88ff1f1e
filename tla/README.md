# A verification project for the Felicity Solar Modbus integration

`custom_components/fsolar_modbus` is a Home Assistant integration: it polls the
registers of a solar inverter over Modbus, shows them as entities, writes
settings back, and can take over the inverter's power control. Paths below are
relative to that directory unless they start with `tests/`.

## 1. The system

| Component | State it keeps | Operations | Talks to |
| --- | --- | --- | --- |
| **ModbusController** (`modbus_controller.py`), one per inverter | `_data` (read and written value of each watched register), `_update_listeners`, `_detected_invalid_ranges`, connection state, failed-poll count, current error, refresh lock | timer-driven `_refresh`; `write_register(s)`; `read`; `register_/remove_modbus_entity`; `autodetect` | calls ModbusClient; calls back entities and the remote control manager; raises repair issues |
| **Read grouping** (`_create_read_ranges`, `inverter_profiles.py`) | none: a generator | groups the wanted registers into requests | used by `_refresh` |
| **ModbusClient** (`client/modbus_client.py`), shared by the inverters behind one adapter | an `asyncio.Lock`; the `retry_on_empty` flag of the pymodbus client | `read_registers`, `write_registers`, `close` | runs synchronous pymodbus calls in an executor thread |
| **pymodbus** (`vendor/`) synchronous client | socket, transaction lock, retries | `execute`, `connect`, `close` | the adapter |
| **RemoteControlManager** (`remote_control_manager.py`) | mode, previous mode, enabled flag, import power | `set_mode`, `poll_complete_callback`, `became_connected_callback` | reads and writes through the controller |
| **Charge period services** (`services/update_charge_period_service.py`) | none | read the cached periods, write all of them | the controller |
| **Profiles** (`inverter_profiles.py`, `common/register_types.py`) | tables: the connections, versions and special registers of each model | choose a profile and an `Inv`; create its entities | lifecycle, entities, flow |
| **Entity descriptions** (`entities/entity_descriptions.py` and the two tables beside it) | tables: the registers of each entity on each `Inv` | `create_entity_if_supported` | profiles |
| **Entities** (`entities/`) | shown state, own addresses | added, removed, updated, written to | the controller |
| **Register codec** (`read`, `write_registers`, `entities/`) | none | words to values and back | entities, services |
| **Lifecycle** (`__init__.py`) | controllers and clients per entry, entry version | setup, unload, reload, migrate | everything |
| **Config and options flow** (`flow/`, `inverter_adapters.py`) | data collected so far | steps of the flow, autodetection | ModbusController, ModbusClient |
| **Transports** (`client/custom_modbus_tcp_client.py`, `client/protocol_pollserial.py`) | socket or descriptor | read, write | the operating system |

What is hard here is concurrency on one event loop: every `await` of the
controller lets another coroutine in. Refreshes overlap when the adapter is
slow, a write lands between a poll's request and its result, an entity is
removed in the middle of a poll, a caller is cancelled while its job goes on in
a thread, and the two callbacks of the remote control manager write while the
user changes the mode. Beside it there is an unreliable link: requests and
replies are lost, so a write may have been applied without an answer.
What each component has to get right:

* read grouping: everything wanted, nothing invalid, never too much, few requests;
* controller: one refresh at a time, values of one poll, a connection state that
  follows the link and that everyone shows, writes recorded only when they hold;
* client: one call at a time and in order, writes not repeated, reads retried;
* remote control: never on without a watchdog, off again when it should be, a
  power that the inverter can deliver, that settles, and that is the user's where
  the user gave one;
* charge periods: a period that the caller did not name gets what it once held;
* profiles and descriptions: no assertion fails on any model, no two entities or
  settings collide, values of several words are read whole;
* codec: writing and reading back gives the value that was meant;
* lifecycle: the controllers, and the clients they share, run with what was
  configured last; no migration changes a unique id;
* flow: what is stored is what was entered and detected, and no two inverters of an
  entry have the same connection.

The hazards list of `PROJECT.json` gives the line at which each of these bites.

## 2. Modules

```
ReadRanges <--------- ReadRangesLoop <--- MCReadRangesLoop
     ^                       ^----------- ReadRangesLoopProofs --> ReadRangesProofs
     |
MCModbusController --> ModbusController --refines--> Availability
                             ^----------- ModbusControllerProofs
MCModbusClient ------> ModbusClient -----refines--> SerialBus
                             ^----------- ModbusClientProofs

MCEntitySetup -----> EntitySetup --> EntityTables --> InverterProfiles
                       ^  |                                  ^
                       |  +--INSTANCE--> ReadRanges          |
                       ^----------- EntitySetupProofs        |   (an INSTANCE of ReadRangesProofs)
MCConfigEntries ---> ConfigEntries --------------------------+
                             ^----------- ConfigEntriesProofs
MCRemoteControl ---> RemoteControl <----- RemoteControlProofs
MCChargePeriods ---> ChargePeriods <----- ChargePeriodsProofs
```

**ReadRanges** is the pure part of `_create_read_ranges`: `Iterate` is one
iteration of its loop on the open read (`start_address`, `read_size`) and the
reads yielded, `CreateReadRanges` the whole list, taken one read at a time.
**ReadRangesLoop** runs the iterations as steps of a behaviour, so that what the
loop promises is an invariant that can be proved by induction over the steps, and
that the two yield the same reads (`AgreesWithWholeList`) is another. Its initial
states draw the wanted registers from those outside the invalid ranges, which
`register_modbus_entity` asserts.

**ModbusController** models one controller. The unit of atomicity is what runs
between two awaits:

| Code | Actions |
| --- | --- |
| `_refresh` up to its first await | `StartRefresh`, or `AbortRefresh` when the lock is held |
| one `read_registers` of `_read_all_registers` ending | `ReadAnswered`, `ReadRefused` (IllegalAddress for a range: go on register by register), `RegisterInvalid` (for a single register), `ReadFailed` |
| storing a poll and the rest of the locked part | `PollSucceeded` / `PollFailed`, part of the last read's step |
| `became_connected_callback`, under the refresh lock | `BecameConnected`, `BecameConnectedRaises` |
| `poll_complete_callback`, behind it | `PollComplete` |
| `write_registers` | `StartWrite`, then `WriteAnswered`, `WriteUnanswered`, `WriteFailed` |
| `_confirm_write_succeeded` | `WriteConfirmed`, `ReadBackDiffers`, `ReadBackRaises`, `ConfirmAgain` |
| `register_/remove_modbus_entity` | actions of these names |
| five seconds since a write | `WriteDelayOver`: `written` is the written value while `read` prefers it |

`bus` is the order in which coroutines wait for the client, which is what
SerialBus promises; a reply comes to its head only. The device, the registers it
refuses and the link are external and move as they like. Two variables are
history: `stale`, the watched registers whose value is older than the last
successful poll, and `unrecorded`, the registers whose content comes from a write
that the inverter took and nobody has recorded.
`_create_read_ranges` is a generator that runs between the awaits; its plan is
fixed all the same, because `sorted` takes a snapshot of the addresses at its
first step, no entry changes its poll type, and the registers found invalid
during the poll lie behind the generator. `StartRefresh` therefore computes the
whole plan, through the constant operator `ReadPlan`, which the MC module binds
to `CreateReadRanges`. What the model assumes of it (`ReadPlanAssumption`,
`ReadPlanCovers`, `ReadPlanIsFinite`) is what the theorem `ListIsReadPlan` says of
`CreateReadRanges`.

**ModbusClient** models the callers of one client (`Call`, `Awake`, `Resume`,
`PauseOver`, `Cancel`), the executor jobs (`JobConnects`, `JobCloses`) and
pymodbus' transaction (`TransactionBegins`, `Sends`, `Replied`, `Garbled`,
`Retries`, `GivesUp`), which runs in a thread beside the event loop and reads the
shared `retry_on_empty` when it gets no reply. Three variables are history: the
write that began when none was under way (`outermost`), whether a write has ended
after the one it began beside (`outlasted`), and which calls another write
touched (`disturbed`). Calls may overlap and be cancelled in any way, and the
properties say with these what the code can still promise then.

**InverterProfiles** and **EntityTables** are the tables as data: sets of `Inv`s,
special registers, versions (a number, with `LATEST` for None) and capacities; and
each description with its class, key, alternatives of registers, and, of a
setting, the raw values it writes. A function of the source that yields
descriptions is an operator of its name; a long one is cut where its comments or
inner functions cut it.

**EntitySetup** sets one inverter up, which is a model, a connection, a version and
what its adapter reads at once: the controller is created with the remote
control manager (`Init`), Home Assistant sets up the platforms in any order
(`SetupPlatform`), with an entity that the user has disabled, and entities are
removed (`RemoveEntity`). Each assertion of `create_entity_if_supported`, of the
constructors and of `register_modbus_entity` is a predicate, and `errors` collects
the ones that fail. `Offered` is every entity that the tables hold for an
inverter, and `OffersFit` says that none of them trips an assertion or gets in
another's way. It composes with ReadRanges: `Grouping` cuts the registers
that ended up in `_data` into the reads of a poll.

**RemoteControl** models the manager with the tasks that run it. What lies
between two awaits is one step, and each write is two: the inverter takes it
(`Applied`), and the task goes on (`Resumes`) or an exception ends it
(`WriteFails`, before or after the inverter took it).

| Code | Actions |
| --- | --- |
| `poll_complete_callback`, after a poll that worked or did not | `PollSucceeds`, `PollFails` |
| `became_connected_callback` followed by `poll_complete_callback` | `PollSucceeds` with `next = "update"`, then `UpdatesAgain` |
| `set_mode`, from the remote control select and from the work mode select, which writes its own register after it | `SelectMode` |
| `_update`, `_update_charge`, `_update_discharge`, `_enable_/_disable_remote_control`, up to the next write | operators of these names (discharge is a case of `_update`, with `MaxExport`) |
| `charge_power` and `discharge_power`, through `ModbusRemoteControlNumber` | `EnterPower` |
| the inverter: its watchdog, its keypad, sun and battery | `Watchdog`, `SetAtPanel`, `WeatherTurns`, `BatteryPower` |
| a restart, which "lets the watchdog catch it" | `Restart` |

**ChargePeriods** has the registers of the two periods, the cache of the last poll
and of the last write, and the service calls: `_update_charge_period` fills in the
period that it does not set from the cache at once, and the write reaches the
inverter (`Applied`), is confirmed (`Succeeds`) or not (`Fails`) later, with polls,
a second call, the panel and restarts between. `shown` is what the start and end
sensors keep of the last enabled window, `held` a history variable.

**ConfigEntries** is the life of one config entry. The dicts of the code are
functions, `d.update(e)` is `Updated(d, e)`. The constant `OldEntries` has the
entries that older versions may have left behind, `LeftBehind` says how those
look.

| Code | Actions |
| --- | --- |
| `FlowHandler`, step by step | `async_step_user`, `async_step_select_adapter_type`, `NewConnection`, `async_step_friendly_name`, `async_step_add_another_inverter`, `_create_entry_data` |
| `OptionsHandler` | `async_step_init`, `ChangesAdapter`, `OtherConnection`, `async_step_version_settings`, `async_step_inverter_advanced_options` |
| `_autodetect_modbus_and_save_to_inverter_data`, `autodetect` | `Detected`, `autodetect`: what the inverter at that place and slave answers, at which baud rate |
| `async_migrate_entry`, all its versions | `async_migrate_entry`, through `TakenOver`, `Introduced`, and `Upgraded`, a `Step` for each version since |
| `async_setup_entry`, `async_unload_entry`, `async_reload_entry` | actions of these names; a reload is the second and the first |
| the table of clients by modbus type and host in `async_setup_entry` | `clients`, `Clients`: for each `Line` the `Client` made for the first inverter on it |

**Availability** is what the connection state promises (unavailable after
`_NUM_FAILED_POLLS_FOR_DISCONNECTION` failed polls in a row, available after one
good one), **SerialBus** what the client promises (calls are served one at a time
and in the order of the calls; a cancelled one leaves).

Operators whose comment begins with "mutant" are not used by any specification.
Each is a plausible defect in the operator below it; putting it in that
operator's place makes TLC find the property that `PROJECT.json` pairs it with
violated, which shows that the property depends on that code.

## 3. Runs

Runs that pass:

| Run | Question | Instance |
| --- | --- | --- |
| `MCReadRangesLoop` | Is the grouping of a poll complete, legal and minimal? | every subset of nine registers but an invalid one, two of them individual, limit 4: 1 536 states |
| `MCPoll` | Do refreshes, callbacks, entities and the connection state stay consistent? | three registers, two values, two entities that share one, one ON_CONNECTION register, two refreshes, two failed polls to disconnect, every set of refused registers: 243 376 states |
| `MCWrite` | Are replies and read-backs taken by the right write, beside polls? | two writers, a watched setting written alone or with an unwatched neighbour, one refresh: 2 million states, writers symmetric |
| `MCLiveness` | Does the connection state follow the link, do entities end up showing the inverter's setting, and does everything end? | one setting, one writer, one refresh, remote control callbacks: 11 148 states |
| `MCClient` | Is the client serial, ordered and live, and what becomes of retries, when writes overlap and callers are cancelled? | a reader, two writers, a closer, the reader and one writer cancellable, three retries: 156 237 states |
| `MCEntitySetup` | Do the tables fit together, whatever is set up and removed in which order? | all 32 combinations of model, connection and version, each with adapters that read 8, 20 and 100 registers at once, one entity disabled or removed: 12 528 states |
| `MCChargePeriods` | Can a service call or a sensor make a window up? | two periods, a window from midnight, none, and no time at all; two calls, one change at the panel: 776 000 states, callers symmetric |
| `MCRemoteControl` | Is remote control safe, does it end, and do the charge and the discharge settle? | a poller and a user, six weathers, one for each branch of the charge; two changes from outside, one failure: 860 000 states |
| `MCConfigEntries` | Is the entry true to the inverters and to the user, through every version? | six inverters, by TCP, by UDP and on a serial line with two baud rates, one of them unknown; two configured, two changes; six entries of versions 1 to 6: 214 000 states |

What the passing runs check, and what holds:

| Run | Property | What it says |
| --- | --- | --- |
| `MCReadRangesLoop` | `ReadsAreLegal` | no request is too long, overlaps another, spans an invalid register, mixes an individual one with others, or starts or ends at a register nobody wants |
| | `AllWantedRead` | every wanted register is in some request |
| | `AgreesWithWholeList` | the loop's requests are those of `CreateReadRanges` |
| | `NoGroupingNeedsFewer` | no legal grouping has fewer requests |
| `MCPoll` | `OneRefreshAtATime` | two refreshes never poll at once, and the lock is held exactly by the one that does |
| | `AvailabilityIsShown` | every entity shows the controller's connection state |
| | `NoRegisterLeftBehind`, `ConnectingReadsAll` | a successful poll leaves no register of an older poll behind but those read on connection, and the one that connects none at all |
| | `ImplementsAvailability` | the connection state is that of Availability |
| `MCWrite` | `ShownWritesHold` | the value shown as written is in the inverter, or a later write got no answer |
| `MCLiveness` | `RecoversWithLink`, `NoticesLostLink` | the connection state follows a link that stays as it is |
| | `InvalidIsReported` | a register found to be invalid is reported in the end |
| | `SettingConverges` | once nobody writes, the inverter's setting is shown |
| | `CallsReturn` | every refresh and write ends |
| `MCClient` | `OneTransaction` | one transaction is on the wire at a time |
| | `RetriesComeBack` | when no write is under way retries are on, unless a write once ended after the one it began beside |
| | `WriteSentOnce` | a write goes out again only if another one ended beside it, or its own caller was cancelled |
| | `ReadsAreRetried` | a read with no write beside it gives up only after all its retries, unless a write once ended after the one it began beside |
| | `ImplementsSerialBus` | calls are served as SerialBus has it |
| | `CallReturns` | every call returns |
| `MCEntitySetup` | `NoAssertionFails` | no assertion of the tables or of `register_modbus_entity` fails |
| | `PollsWhatIsWanted` | the entities are all that the platforms set up offer but for the disabled ones, the registers polled are theirs, each as often as they ask for |
| | `NothingCollides` | no two entities in use share a unique id, no two settings a register |
| | `ValuesReadWhole` | the words of one value are read in one request, with every adapter |
| `MCChargePeriods` | `FillsInWhatWasThere` | what a call writes to the periods it does not set is a window the inverter once held there |
| | `ShowsOneWindow` | a disabled period's sensors go on showing the two ends of one window |
| | `WritesTimes` | only times are written |
| `MCRemoteControl` | `PowerWithinCapacity` | the inverter gets the power that was meant, within its capacity |
| | `WatchdogIsSet` | remote control is never on without its timeout |
| | `DisableStops`, `FallsBackWell` | a mode that is kept ends remote control, or leaves the work mode to fall back on |
| | `ChargeSettles` | with steady weather the charge reaches its set point or the import its limit |
| | `DischargeSettles` | a forced discharge that goes on exports what the user entered last, or all it can |
| `MCConfigEntries` | `EachHasItsConnection` | no two configured inverters have the same connection, and where a baud rate is stored an inverter answers at it |
| | `RunsAsConfigured` | the controllers run with the settings configured last, and the client of each line is made as the first inverter on it is configured by then |
| | `UniqueIdsKept` | no step or migration changes the start of an entity's unique id |

`TypeOK` is the type invariant of the modules that have one; it is checked with
the first run of each.

Runs that find a stated claim violated:

| Run | What happens |
| --- | --- |
| `MCInvalidReadAgain` (`InvalidNotReadAgain`) | Register 2 is found invalid while 1 and 3 are wanted. The next poll reads 1 to 3 in one request again, is refused and falls back to single reads, at every poll. The comment at `modbus_controller.py:521` says "Don't try again." (The extension of a read tests only the profile's list at line 539.) |
| `MCClientRetriesLost` (`RetriesRestored`) | w starts while v is under way and saves `False`; v ends, then w restores `False`: no read is retried from then on. `tests/test_modbus_client.py:24` asserts that it is on after a write. |
| `MCShownDefault` (`PollsAtShownDefault`) | The options move an inverter behind a W610 from TCP to UDP. The form then tells "The default for your adapter type is 10 seconds" (`translations/en.json:159`, computed at `flow/options_handler.py:230` from the combined configuration), while `__init__.py:100` takes the default for the protocol in `entry.data`: the controller polls every 15 s. |

What `RetriesRestored` claims without a condition, `RetriesComeBack` says with the one
under which MCClient and the theorem find it to hold.

### Bounds, and why they are enough

* Two refreshes are the fewest that can overlap; the lock treats all alike. Two
  failed polls for disconnection distinguish "one failed" from "one too many" (the
  code has five). Three registers are the fewest with a gap inside one request.
* Two writers are the fewest that interleave on one register. Two of the three
  read-backs of `_confirm_write_succeeded` distinguish the last from another.
* MCWrite has one failed poll to disconnect, since no property of it speaks of
  the count, and its read limit covers both registers.
* The map of MCReadRangesLoop has an invalid register between wanted ones, two
  adjacent individual ones, and room for full requests on both sides; the
  theorems cover every other map.
* MCClient has two writers because overlapping writes take two, of which one may be
  cancelled and one not; a reader beside them meets each of their steps.
  NumRetries is the code's three. A job left behind by a cancelled caller counts
  as that caller's until it ends, so each caller has at most one.
* No state constraint cuts behaviours off: every counter is bounded by the code.
  ModbusController's runs do not check for deadlock, because a state in which
  nobody has anything to do is none: the timer can always fire.

* MCEntitySetup has every model, so its tables are checked whole; one disabled or
  removed entity at a time is enough for `WithoutEntity`, which looks at one
  entity and the union of the others. `ValuesReadWhole` speaks of the models
  that `autodetect` can still find.
* The values of MCChargePeriods take each test of the code both ways: a start at
  midnight, both ends zero, an hour of 24, a minute of 60.
* In MCRemoteControl the capacity of 1000 W is above the battery's limit and below
  the sun's 2000 W, so that the loop has to import in one weather and export in
  another; 500 W, which the user may enter for either power, is below it; `quiet` stops at 3, one more than the watchdog allows. Two changes
  let the user force a mode and the sun turn, or force a mode and leave it.
* MCConfigEntries has an inverter at the same host in TCP and UDP, and two slaves
  on a serial line that answer at different baud rates; names that differ only in
  case, which `slugify` makes equal. The user enters no prefix or takes the one
  generated from the name.

Symmetry is used in MCWrite and MCChargePeriods only, which check no liveness.

### Fairness

`async_track_time_interval` keeps calling `_refresh`, so some refresh starts
whenever one can (weak fairness of `StartRefresh`; not of a particular
coroutine). A request ends because pymodbus bounds connecting and receiving with
timeouts; the callbacks and sleeps of the event loop return; five seconds pass.
In ModbusClient each step of a job and each ready coroutine is taken. Nothing
else is fair: nobody has to write, add an entity or cancel, the inverter does not
have to change, and the link may stay down or keep flapping.

In RemoteControl a poller goes on polling (`PollSucceeds` is fair; the polls
that fail are bounded), each task goes on once its write has been taken
(`Runs`), five seconds pass, and the watchdog fires when its time has come.
Neither the user, nor the weather, nor a failure has to happen.

`RecoversWithLink` and `NoticesLostLink` assume that the link stays as it is for
good. `NoticesLostLink` also assumes that the poll has something to ask: with no
register to read a poll "succeeds" without contacting the inverter, as the code
has it. `SettingConverges` speaks of registers polled every time.

## 4. Proofs

TLC checks the instances above; the theorems hold for every value of the
constants that satisfies the ASSUMEs, which the runs evaluate. Each rests on an
inductive invariant, because next to none of the properties is inductive alone.

**ReadRangesProofs**, for any register map and limit, about `CreateReadRanges` on
any finite set of addresses, and so about every single poll.
* `WholeListCovers`, `WholeListIsLegal`, `WholeListIsFewest`: the list serves all that
  is wanted, with requests that the adapter and the inverter accept, in ascending
  order and without overlap, and no set of allowed requests that serves it all is
  smaller.
* `WordsAreReadTogether`: neighbouring wanted registers are in one request
  unless a wanted register lies just so far before them that a read which begins
  there is full in their midst (`Cuts`). The generator does not know which registers
  belong together; this is what they rely on.
* `ListIsReadPlan`: the list is a read plan as ModbusController assumes one.
* `CreateReadRanges` is a recursive function on sets; `WholeListUnfolds`, that it
  satisfies its equation on a finite set, is itself proved. Induction over the
  sets is replaced by `SmallestSubset`: a non-empty collection of subsets of a
  finite set has a smallest member, which the library's theorems `WFMin` and
  `FS_StrictSubsetOrderingWellFounded` give without an operator parameter. The
  sets for which a theorem fails have none: what remains behind the first request
  of one is smaller, and not among them.

**ReadRangesLoopProofs**, for any register map and limit.
* `Typed`, `ReadsAreShort`, `ReadsAreDisjoint`, `ReadsAreComplete`,
  `ReadsAreValid`, `IndividualReadsAreAlone`, `ReadsEndAtWanted`, and their
  conjunction `ReadsLegal`. `IInv` relates the open read and the reads yielded to
  the addresses already passed: the reads lie one behind the other and before the
  open one, the open one ends at an address passed and before all still to come,
  is not full, and together they cover exactly what was passed.
* `GreedyIsOptimal` and `ReadsAreFewest`: no set of legal requests that covers the
  wanted registers is smaller. `SeparatedInv` says that no legal request
  serves the first registers of two reads of the loop: they are too far
  apart, or something invalid or individual lies between. So any grouping has one
  request for each, and the pigeonhole principle does the rest.
* `LoopYieldsWholeList`: the loop's reads are those of `CreateReadRanges`.
  `AgreesInv` says that what was yielded, followed by the list of what is
  unserved, is the list of all, since the open read is the first request of
  what is unserved as soon as nothing more goes in (`OpenIsFirst`).

**ModbusControllerProofs**, for any registers, entities, numbers of refreshes and
writers, limits, and finite plans that cover what is wanted.
* `Typed`, `RefreshIsExclusive`, `AvailabilityShown`, `WatchedExactly`,
  `CallersWaitOnce`. `TypeInv` adds to the types that a reading refresh has a
  request left (`HasRequest`; otherwise `Head(plan)` means nothing) and that the
  count of failures stays below its limit while not disconnected (`FailuresLeft`).
* `AvailabilityImplemented`: the refinement of Availability, step by step.
* `ShownWritesAreHeld` needs `OnlySettings`: only a watched setting has a written
  value, so that no register that the inverter changes by itself can contradict it.
* `PollLeavesNothingBehind` and `ConnectingRefreshesAll`: while a poll is under
  way each register with a value to lose has been read by it, is still in its
  plan, or is one for connections (`PollCovers`). A register that the poll passes
  over because it was found invalid has no value (`OnlyLegalHaveValues`), and an
  entity that joins in the middle brings none.
* `CallsEnd` is what `CallsReturn` says but for fairness. Whoever is under way can
  take a step or waits in the client's queue behind one that can (`NobodyIsStuck`);
  the queue is left at its head only and joined at its end (`ServedInOrder`); and
  with each answer a refresh has fewer requests left or goes on to a later phase,
  and a write has fewer steps (`CallsComeToAnEnd`): the read-backs end, and a
  refused read falls back to single reads once.

**ModbusClientProofs**, for any readers, writers, closers, and calls cancelled.
* `Typed` and `TransactionsAreAlone`, from `CallerInv` (who holds or awaits the
  lock) and `JobInv` (what a job may be doing, given its coroutine).
* `SerialBusImplemented`: the refinement of SerialBus. Its queue is the holder of
  the lock with the waiters behind it. No caller is in it twice (`NoTwice`), so
  that taking a cancelled one out removes it and nobody else.
* `RetriesAreRestored`, `WritesAreSentOnce`, `ReadsUseTheirRetries`, with no hypothesis
  on how calls overlap or are cancelled. As long as no write outlasts the outermost
  one (`WritesNest`), whoever has saved `True` is that one, and it restores it
  (`FlagInv`). A write that no other write has ended beside finds the flag off
  (`FlagIsOffForWrites`), so its request is not sent again (`RequestIsNew`); a read
  without a write beside it finds it on.
* `RetriesAreLostForGood`: once the flag is off and no write under way has saved it
  as on, it stays off, whatever is called: there is no way back from what
  `MCClientRetriesLost` reaches.
* `NobodyWaitsInACircle` and `WorkEnds` are what `CallReturns` says but for fairness.
  There are two locks, the coroutines' and pymodbus' own, and a cancelled caller
  gives the first up while its job is still behind the second: all the same,
  two steps from any waiting caller there is one that can move on. Each such
  step leaves its caller less to do, whatever is lost or retried, and a caller
  gets new work only by taking the free lock.

**EntitySetupProofs**, for any models, connections and read limits.
* `WhatIsWantedIsPolled`. `IInv` says that everything that the platforms set up offer
  listens but for what is absent (`AllListen`), that only what has been set up can be
  absent (`AbsentAreSetUp`), that the polled registers are the listeners'
  (`Watched`), and, unless an assertion failed, polled as they ask (`AsAsked`).
* `AssertionsHold` and `NoneCollide`: when what the tables offer fits the inverter
  (`OffersFit`), no order of setting up platforms, disabling and removing entities
  makes an assertion fail or two entities collide. That the tables fit each inverter
  is what MCEntitySetup checks when it sets all of them up: the tables are
  constants, so the check is exhaustive, and the theorems add the behaviour.
* `EveryPollIsLegal`, `WordsAreKeptTogether`, `AllValuesReadWhole`, under the same
  condition: whatever is polled after any set-ups and removals, the requests are
  legal for this inverter and adapter, and neighbouring registers are cut only where
  `Cuts` says; once everything is set up and nothing is disabled, the values of
  several words are read whole. The theorems of ReadRangesProofs are
  instantiated (`GroupingFacts`) with the registers of the profile.

**ChargePeriodsProofs**, for any callers, requests and register contents.
* `WhatWasThereIsFilledIn`, `OneWindowIsShown`, `TimesAreWritten`. What is cached
  and what a poll under way has read was once held (`CacheInv`), and what a call is
  about to write is either that or asked for (`CallInv`). The step that matters is a
  lemma on the conversion: whatever two words the registers hold, reading them as
  a window and writing that window back is `SamePeriod`, and only times come out.

**RemoteControlProofs**, for any capacity that fits the registers, any weather,
and any powers entered.
* `PowersAreWithinCapacity`: whatever the user enters for the charge or the discharge,
  `_update` and the callbacks only ever await a write of a power within the
  capacity, and `WordsOfPower` shows that one or two 16-bit words
  in two's complement hold exactly that power.
* `WatchdogIsAlwaysSet`: a task that is about to enable remote control has set the
  timeout before, and nothing clears it (`WatchdogInv`).
* `ControlLoopSettles` is what `ChargeSettles` says but for fairness. While remote
  control is on and the sun and the battery's limit are steady, each turn of
  `_update_charge` leaves fewer turns to go (`TurnsToGo`): from above the import
  falls each time, by the whole excess at least; from below one turn reaches the set
  point, or zero import and the next does. With none to go the loop asks for the same again,
  and is where `Steady` wants it: no overshooting for ever, no sticking at zero.
* `RemoteControlEnds` is what `DisableStops` says but for fairness. While the mode is
  `disable` no task starts to enable remote control, the steps that are left to
  those that were about to (`StepsToPower`) only get fewer, nothing else turns it on
  or feeds its watchdog, and each poll brings that nearer (`QuietIsCounted`: `quiet`
  counts the polls without one of the writes that feed it).

**ConfigEntriesProofs**, for any inverters, names, and old entries as
`LeftBehind` describes them.
* `EveryOneHasItsConnection`, `ControllersRunAsConfigured`, `IdsAreKept`. `Sound` says what
  an entry of today looks like: no poll settings left in `data`, a connection and a
  prefix for each inverter, no two of one connection or one prefix, each answering
  at its baud rate. `FlowInv` says that what a flow has collected would make one,
  `EntryInv` that an entry is sound or an old one that is still to be
  migrated, `RunningInv` that the controllers have the settings of the entry, and the clients
  are those of its lines, unless a reload is under way. That each line has a first
  inverter (`ClientOfTheFirst`) is the well-foundedness of the numbers. That a migration makes an old entry sound goes version by
  version (`Upgraded`); `IdsAreKept` follows from `KeepsIds`, proved for each action.

Model-checked only:
* liveness under fairness, which is out of the proof system's reach, as is
  ENABLED: `RecoversWithLink`, `NoticesLostLink`, `InvalidIsReported`,
  `SettingConverges`, `CallsReturn`, `CallReturns`, `DisableStops`, `FallsBackWell`,
  `ChargeSettles`, `DischargeSettles`. Of `CallsReturn`, `CallReturns`, `DisableStops` and `ChargeSettles`
  the part that needs no fairness is proved (`CallsEnd`; `NobodyWaitsInACircle` and
  `WorkEnds`; `RemoteControlEnds`; `ControlLoopSettles`): what is left to TLC is that
  the steps shown there to be possible and to make progress are taken;
* that the tables fit each inverter (`OffersFit`), which the theorems that build on it
  have as a hypothesis: the states of MCEntitySetup in which everything is set up
  and nothing absent are all models and versions with each size of adapter, so
  `NoAssertionFails` and `NothingCollides` there, with the ASSUME of that module on
  addresses, say it of each. A proof could do no more than that.

## 5. What is not modelled

* Contents of registers are members of a small set; a value is one register, but
  in RemoteControl (the power's two words) and ChargePeriods (hours and minutes).
  Scaling, rounding and validation of what entities show are left out, as are the
  sensors that follow other sensors (`modbus_lambda_sensor.py`,
  `modbus_integration_sensor.py`).
* In ModbusController the refresh's callbacks return or raise after any time; the
  requests they make are other writers. What they decide is in RemoteControl,
  where in turn a poll's reads and recording are one step and no poll starts
  while the callback of the one before is still running (`_refresh_lock` covers
  `became_connected_callback` only: with an adapter slower than the poll rate
  `poll_complete_callback`s may overlap, as `set_mode` and a callback do here).
* ChargePeriods reads the six registers in one request, as every read limit
  allows, and a restart is orderly: the sensors' last values are stored. The written
  values of a period's registers expire together (the code keeps the time of each),
  and the two sensors of a period are enabled together, so that what they keep is
  one pair.
* ConfigEntries has one options flow at a time, and reloads that neither overlap
  nor fail; the energy dashboard and the texts of the forms are left out. Options
  of older versions have their modbus type in lower case (`LeftBehind`): the
  migration does not touch options, and one in upper case would end every setup in
  an AssertionError. The same inverter at two connections, over TCP and over UDP,
  counts as two, as in the code.
* An exception from an entity's `update_callback`, the read and write services
  (which pass their arguments on) and logging.
* Several controllers may share a client. Its adapter and baud rate are those of the
  first of them (ConfigEntries). In ModbusController, which has one
  controller, the others' calls delay its own; that they may also take or restore
  its retry flag is in ModbusClient only.
* An error reply other than IllegalAddress ends a poll as a lost link does.
* Transports and the rest of pymodbus: I/O and third-party code.

Remarks on the source that no run is about. Some examples in the comment at
`modbus_controller.py:504` show other groupings than the greedy loop makes, with
as many requests; the comment at line 511 supposes that the problem is
NP-hard, while `GreedyIsOptimal` proves the greedy grouping minimal for every
register map. `update_charge_period` "updates one of the two charge periods"
(the repository's `README.md:73`) but writes the other one too, from the cache: a
change made at the inverter since the last poll is undone. When the first write of
`_enable_remote_control` fails, or the watchdog fires during an outage shorter
than five polls, the manager believes remote control to be on and does not enable
it again before a reconnection; `ChargeSettles` and `DischargeSettles` therefore speak
of a remote control that is on. Overlapping writes also make pymodbus repeat one: the first to end restores
`retry_on_empty` while the other is still to be sent, or waits for a reply that is
lost (`WriteSentOnce` has this case as its exception). Two inverters on one serial
line that answer at different baud rates are both accepted, since detection
opens the port at each candidate rate, and `__init__.py:109` makes one client for
both, at the rate of the first: MCConfigEntries has such a line, and
`RunsAsConfigured` says which rate is used. The clause for `UnsupportedInverterError` in
`flow/adapter_flow_segment.py:341` is never reached, since `autodetect` wraps it.

## 6. Plan

1. (done) ReadRanges, ReadRangesLoop and proofs.
2. (done) ModbusController with Availability, and proofs.
3. (done) ModbusClient with SerialBus.
4. (done) InverterProfiles, EntityTables, EntitySetup.
5. (done) RemoteControl, ChargePeriods, ConfigEntries.
6. (done) Proofs of every invariant and action property that the passing runs
   check, of the refinements of Availability and SerialBus, of what the grouping
   of a poll does on every map, and of the progress that four of the liveness
   properties rest on.
7. RegisterCodec: words and values of any width as operators.
8. Overlapping reloads, and unloading with a refresh in flight.
