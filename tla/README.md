# Formal model of the ESP32-C5 Zigbee gateway

TLA+ models of the gateway firmware in `src/main`, checked with TLC, and
theorems about them checked with TLAPS. Paths below are relative to
`src/main` unless they say otherwise.

The gateway connects Zigbee devices with MQTT and with Home Assistant's native
API. It is one process on FreeRTOS with a preemptive scheduler: a Zigbee task
that owns the radio stack and calls all handlers of answers and reports, a
timer service task that calls timer callbacks, a monitor, a save task, tasks
for the network services, and short-lived tasks made for one job. They share
tables that are guarded by a mutex each. What is hard in this code is
therefore what happens *between* two holds of a mutex, after a timeout or a
restart, and after a long history of legal calls; single calls have unit tests
under `src/tests`.

## 1. Inventory

### Components modelled

| Component | State | Operations | What is hard | What makes it correct |
|---|---|---|---|---|
| Device registry `core/device/device_registry.c` | slot array, JSON state per slot, open-addressing hash table, allocation cursor, count | add, remove, clear all, init, deinit, lookups by id and by name, set/update/merge state, availability, name, clusters | `remove` looks its hash entry up after it has zeroed the record, so it never finds it: entries are never removed and old ones point at slots of other devices | exact lookup, no device twice, a free slot can always be used, a new device is new, each write reaches its device only |
| Command retry `zigbee/zb_cmd_retry.c`, `zigbee/zb_command_handler.c` | table of pending commands, tick counter | send and store, confirm, retry on a delivery failure, retry on timeout | a command is on the air before it is stored; a retry leaves the table before it is sent; the tick counter wraps; eight slots | one entry per device, no command held twice, no entry outlives its timeout, every entry leaves the table |
| State persistence `core/state_persistence.c` | dirty flag, mutex, save task and its notification, timer, temporary and final file | mark dirty, periodic save, save at a join, save on shutdown, load, init, deinit, erase | three writers of one temporary file, one of them without the mutex; reports during a save; crashes and failures at every step; a save without memory leaves devices out and succeeds; stop, its timeout and a restart in the middle of a save | what is not on file is noticed, a save renames its own file, everything gets saved in the end, stopping ends and leaves nobody behind |
| Device interview `zigbee/zb_interview.c` | slots with phase, counters, descriptors, two timers each | start, five kinds of answer, retries of a request and of the whole attempt, two timeout callbacks, deferred completion | handlers go on after giving the mutex back; answers carry a short address and no number of an attempt; callbacks look at a slot before they wait for the mutex; nobody asks whether a timer started | one interview per device, lists and counters in step, no interview forgotten, every interview ends |
| Device list on flash `core/device/device_persistence.c` | NVS keys: a blob per device under a running number, a list of ids, a count | save, delete, clear, load at boot | an operation is up to four writes with a crash possible between any two; the list and the count are two keys; a save reads the record three times through the caller's pointer | flash is the map of the saved devices, in a layout the next start can read; no device ever gets a record that was not saved for it; a removed device does not come back |
| Availability tracker `zigbee/zb_availability.c` | tracking data and availability in each device record, its own task | check, expire, ping, count a failure, back off, a frame, a manual check, start, stop | four tasks and no mutex for the data; addresses collected under a mutex and used after it; an 8-bit counter without a limit | what is published is the state; offline is earned by failures, undone by a frame only; a silent device goes offline |
| Join, rejoin and leave `zigbee/zb_callbacks.c`, `zb_rejoin_helper.c`, `zb_leave_helper.c` | registry by IEEE address; converter bindings, Tuya drivers and tracker by short address | announcement, report from a new address, rejoin, leave, removal by a user, end of an interview, lazy binding | four tables with a mutex each, changed one after the other; addresses change without notice and are reused | what is bound at an address belongs to the device there; no device in the registry is untracked; a report finds its record |
| Wi-Fi manager `wifi/wifi_manager.c`, `wifi/wifi_captive_portal.c` | connection state, retry and strike counters, band mode and fallback, reconnect and watchdog timers, a count of reboots in RTC memory, credentials in flash | connect at start-up, handlers of five driver events, reconnect, watchdog with driver restart and reboot, band switch, portal and connection test, reconnect after pairing | the driver's events are handled late and by another task than the timers, the portal, the test and the phase change; a callback sleeps in the middle of a driver restart; a timer that is armed anew too often never expires | a station without a link is never left alone; a wrong state is set right; a reachable network is found again; reboots stop at their limit |
| Event bus `core/events/event_bus.c` | two queues, subscribers, a dispatcher task, copies of the events' data | publish with a wait, dispatch, call the handlers, free | full queues; handlers that publish on the queue their own task empties; strings that change owner with an event | order within a queue, nothing leaked or freed too early, an urgent event overtaken at most once, nobody waits for ever |

### How they interact

* The Zigbee task calls the registry, the interview, the retry table
  (`cmd_retry_confirm()`, `cmd_retry_on_unavailable()`) and
  `state_persistence_save_immediate()` at a join.
* `system_monitor.c` calls `cmd_retry_check_timeouts()` in its loop; a retry
  calls the same `command_send_*()` functions as a user's command, which store
  it again.
* Reports of devices change the registry's states and call
  `state_persistence_mark_dirty()` (`core/device_state_publisher.c`); the save
  task copies these states device by device.
* `esp_restart()` calls the shutdown handler of state persistence; the
  lifecycle manager stops and restarts the service around a firmware update.
* Interviews, retries, converters, Tuya drivers and availability are keyed by
  short address, the registry and the list on flash by IEEE address;
  `zb_rejoin_helper.c` and `zb_leave_helper.c` keep them in step.
* A join saves the device on flash after it has changed the registry; a removal
  deletes it there last.
* The availability tracker runs in its own task, and is called by the Zigbee
  task, the bridge's request task and the task that ends an interview.
* The Wi-Fi manager is called by start-up, the captive portal and, when the
  pairing phase ends, by the lifecycle manager; the driver's events reach it
  through the default event loop.
* Components tell each other of changes through the event bus; the handlers of
  device events run in the dispatcher and publish on the bus again.

The models meet only where the interaction can break a property: the retry
table with the command handler, persistence with the registry's reports and
the lifecycle, interviews with the registry's knowledge of a sleepy device's
model, the list on flash with the tasks that change records meanwhile,
`Membership` with all four tables and both helpers, the event bus with the
handlers that publish and those that own what an event carries. The registry's
operations are atomic under its mutex, so its clients can use the map it
implements (`DeviceMap`).

### Components not modelled

| Component | Why |
|---|---|
| ESPHome entity mirror | compiled off (`esphome_entity_mirror.c` is behind a switch that is not set) |
| MQTT offline buffer | nothing enables it; the MQTT client itself is a wrapper of ESP-IDF's |
| Services of the lifecycle manager | started and stopped one after the other in one task; what that does to state persistence, and the end of pairing to Wi-Fi, is modelled there |
| Configuration store | later candidate: the dirty-flag protocol of state persistence again |
| Memory wrappers, string interning | later candidate: reference counts |
| Converters, cluster handlers, quirks | conversion of values, one report at a time |
| ESPHome API and entities, adapters, state publisher, the messages of MQTT bridge and discovery | protocols and formats; little state of their own |
| Network formation, OTA downloads | state machines of the ESP libraries |
| Reporting, binding, groups, scenes, alarms, poll control and similar | small tables with a mutex each, called one at a time |
| LED, start-up, presence sensor, Bluetooth (disabled) | no shared protocol worth a model |

`PROJECT.json` lists all components with their files, the partly modelled ones
with what is missing.

## 2. Plan

The order in which the modules were written is that of their weight: `DeviceMap`
and `DeviceRegistry` (everything else identifies devices through it),
`CmdRetry`, `StatePersistence`, `Interview`; then `StoreMap` and `DeviceStore`
(what survives a crash), `Availability`, `Membership` (the composition of the
tables keyed by address), `EventBus`, `WifiManager`. Each component that keeps a
promise of its own has its proofs in a module named after it, but for
`Membership` and `Availability`, which share `NetworkProofs`: both follow a device
by the address it has in the network.

Not written, in the order they would be worth it:

1. `event_unsubscribe()` and `event_bus_deinit()` in `EventBus`, the cache of
   results in `Interview`;
2. the reference counts of `string_intern.c`.

Runs stay within a few minutes each. Where a new module needs another one, the
runs that only document a disagreement between code and comments are the first
to be merged or dropped.

## 3. Modules

| Module | Models | Extended by |
|---|---|---|
| `DeviceMap` | what the registry promises: a bounded map from ids to records | (instantiated by `DeviceRegistry`) |
| `DeviceRegistry` | `device_registry.c` | `DeviceRegistryProofs`, `MCDeviceRegistry` |
| `CmdRetry` | `zb_cmd_retry.c` and the senders of `zb_command_handler.c` | `CmdRetryProofs`, `MCCmdRetry` |
| `StatePersistence` | `state_persistence.c` | `StatePersistenceProofs`, `MCStatePersistence` |
| `Interview` | `zb_interview.c` | `InterviewProofs`, `MCInterview` |
| `StoreMap` | what the list of devices on flash promises: a map that loses and never invents | (instantiated by `DeviceStore`) |
| `DeviceStore` | `device_persistence.c` with the tasks that call it | `DeviceStoreProofs`, `MCDeviceStore` |
| `NetworkDevices` | the devices, as `Availability` and `Membership` know them | `Availability`, `Membership` |
| `Availability` | `zb_availability.c` and `device_registry_set_online()`, with what calls them | `NetworkProofs`, `MCAvailability` |
| `Membership` | `zb_rejoin_helper.c`, `zb_leave_helper.c`, the signals of `zb_callbacks.c`, the tables of `zb_converter_registry.c` and `tuya_driver_registry.c` | `NetworkProofs`, `MCMembership` |
| `EventBus` | `event_bus.c`, with the handlers of `ha_discovery_ng.c` and `mqtt_event_handler.c` | `EventBusProofs`, `MCEventBus` |
| `WifiManager` | `wifi_manager.c` with `wifi_captive_portal.c`, the end of pairing in `lifecycle_manager.c`, the wait for Wi-Fi in `main.c`, the reboot count in `crash_reporter.c` | `WifiManagerProofs`, `MCWifiManager` |

### DeviceRegistry

`devices`, `states`, `hash`, `cursor`, `count`, `initialized` are the static
variables of the file. Every operation takes the mutex once and keeps it, so
each is one action; a mutex timeout changes nothing and is a stutter. The hash
function is a constant, any function from ids to hash slots. `RegistryMap` is
the refinement mapping: the ids of the slots in use, each with its record and
state. `set_converter` and the time a device was last seen are left out; no
property reads them.

### CmdRetry

`table` is `s_pending_cmds`; `now` the tick counter modulo `TickMod`. `todo`
and `onAir` say where each task is *outside* the mutex: the commands it has
still to send, and whether the first is on the air but not stored. A command is
sent in one action (`command_send`) and stored in another (`command_store`), as
in the code; a store that fails to get the mutex within 100 ms is lost.
`sent` and `latest` are history variables.

### StatePersistence

`save[p]` is the program counter and the buffer of each of the three savers;
the copy of the registry goes device by device and reports may come between.
`final` and `temp` are the two files, which survive `Crash` and `Reboot`;
everything else is RAM. A measured value is the number of the report it stems
from. The save at a join takes no mutex and writes summaries (`Summary`).
`LeaveOut` is a save that runs out of memory while it copies: it goes on without
the device, or without any, and succeeds. `deinit()` ends when the save task has
signalled its end (`deinit_finishes`) or when its 7 s are over
(`deinit_times_out`): it then calls `psram_task_delete()`, which deletes a task
that still runs, wherever it is, and deletes the mutex, which a shutdown handler
may be waiting for or have (`deserted`). `lost` is history: the devices whose
value was dropped since a save last began to copy, because it was left out of
the save, because a join replaced the file or cleared the flag, or because
`init()` cleared it.

### Interview

`contexts` is `s_contexts`. `zigbee` and `daemon` say where the Zigbee task and
the timer service task are between two holds of `s_mutex`, and with which slot;
`jobs` counts, by short address, the tasks made by `interview_finish_deferred()`.
`leaked` counts running timers that have no handle any more, because it was
overwritten or the command to delete them failed. An interview is started for an
IEEE address and looked up by short address from then on; two may have the short
address in common, and `find_context_by_short()` finds the one in the lower slot.
Timers may not be created, and the commands to start, reset or delete one may
fail, as may the making of the finishing task and its wait for the mutex;
`failures` bounds all of them. `spoilt` and `shared` are history: the slots a
failure left with nothing to end them, and those whose address another interview
had too. `pending` counts the requests that
are still to be answered, so a late answer is one to a request of an earlier
attempt or interview. Descriptors are the number of their endpoint.

Abstractions: a request goes out in the same step as the change under the mutex that precedes it, unless
its sender changes the slot after that (`request_first_endpoint`,
`request_basic_cluster_attributes`, and the timer callbacks, which are steps of
their own) — a slot that is taken again exactly in between would only ask
another device once more, and the proofs hold for any number of such requests;
each request is answered at most once; the waits for the mutex whose result
nobody looks at are taken to succeed; `zb_zcl_read_attr_with_lock()` does not fail; timers have no
duration and may expire whenever they run. The cache of results, the fast path
for known sleepy devices, `deinit` (which nothing calls) and what an interview
writes into the device record are left out.

### DeviceStore

`nvs` is the namespace `devices`: `count`, `list`, and `blob` by position. Each
write of a key is on flash when it returns, so each is an action of its own;
`op` is the operation that holds `s_persist_mutex` with what it has read, and
`want[t]` a call that waits for it. A record is the number of the change it
stems from. A list shorter than the count reads as the list and then whatever
the allocator left in the buffer (`ReadList`). `Pointees` is what the pointer
given to `save()` may show each time it is followed; a different device behind
it counts as a fault. `before` and `ever` are history. `Stored` is what the next
start would make of the flash, and the refinement mapping to `StoreMap` is what
was stored before the operation under way together with that operation.
`save_all()` has no caller and is left out, and so are the 5 s timeouts of the
mutex.

### Availability

`meta` is `avail_meta` of each record, `avail` its availability, `told` the one
last published. `job[t]` is how far task `t` has come with
`set_device_state()`: the record, then the registry, then the event, any other
task in between. `phase` and `todo` are the tracker's own task with the
addresses it has collected. Time is two flags per device: a check is due, a ping
has expired. An event the bus refuses
leaves record and registry changed and is not repeated (`Publish`). `bad`,
`forced`, `raced`, `crossed`, `unheard` and `answered` are history: `raced` are
the devices that two tasks were at work on at once, `crossed` those of which two
`set_device_state()` overlapped, `unheard` those whose last publication was
refused, or cut off when the tracker's task was deleted. The configuration and its
storage, custom timeouts (nothing sets them) and statistics are left out;
tracking by short address is in `Membership`.

### Membership

`net` is the network as the stack knows it, `rec` the registry with the fields
that matter here, `bound` and `driver` the two tables keyed by address, `kept`
the drivers on flash. A rejoin is three steps, record and tracker, converter,
driver, and a removal is three, since each is a call under another mutex;
`handler[t]` is the rest of what task `t` has to do. A converter lookup reads LittleFS
and then fetches the device by address again, so it is two steps. `loose` is
history: addresses at which two records have met or two tasks were at work on
the device, with whatever such a device takes along. The capacity of the Tuya
table, the drivers on flash that are never deleted, the network reset's
`unbind_all`, and `zb_callback_device_leave()`, which has no caller, are left
out; so is what else `zb_callbacks.c` does with a report.

### EventBus

`queue` are the two FreeRTOS queues, `job[t]` the event a publisher waits for
room with, `disp` the dispatcher with its event and the copy of the subscribers
still to be called. `data` and `strings` are what is allocated, by event.
`last` and `passed` are history. The handlers are those that do something to
the bus: discovery, which publishes for each entity of a device; the MQTT
handler, which frees the strings; the trace, which only reads; and an adapter
that subscribes late. HIGH and CRITICAL share a queue, as do LOW and NORMAL.
`event_unsubscribe()` and `event_bus_deinit()` (not called after start-up),
publishing from interrupts (nobody does) and timeouts of the bus's mutex are
left out.

### WifiManager

`state`, `auto_reconnect`, `failures` and `fallback` are fields of `s_wifi`,
`connectedBit` a bit of its event group, `strikes` and `had_connection` the
statics of the watchdog, `reconnect` and `watchdog` the two timers. `link`,
`lease`, `mode` and `queue` are the driver: what the station does, whether it has
an address, the bands it may use and the events posted but not handled; `aps`
are the bands on which the access point can be heard. `nvs.right` and
`cred` say whether the stored credentials and those the driver and the manager
have are the right ones, `nvs.known` whether the SSID has been connected to
before, and `nvs.magic` and `nvs.wifi_reboots` are the note in RTC memory.
`handler`, `timer`, `app` and `test` say where the four tasks are. A handler or
a callback is cut where it sleeps, writes flash or publishes, and
`wifi_manager_reconnect()` between asking for the link and reporting it.

A watchdog period is `Patience` turns of `TimePasses`; the reconnect timer may
expire at any time, so that the backoff and `retry_count`, which only choose its
delay, are left out, and an attempt to join may outlast the watchdog. The
cooldown of the band switch keeps how `uptime_seconds` stands to
`last_band_switch_time` (`first`: no switch before; `behind`: the uptime began
again and the difference wraps). `esp_wifi_connect()` on a station that joins
already leaves it alone; `esp_wifi_set_config()` is refused by one that joins.
`known` does not tell one SSID from another. Left out: timeouts of the state
mutex, a power cycle, the moment between main's last look at the event group and
the opening of the portal, its own servers, scanning, mDNS, SNTP and
`wifi_manager_disconnect()`, which has no caller.

## 4. Runs

| Run | Configuration | Shows |
|---|---|---|
| `registry` | 3 ids with colliding probe sequences, 2 device slots, 2 hash slots, 1 key, 1 value, 2 clusters | lookups stay exact after any history, a free slot is usable, and the whole implements `DeviceMap`, each operation exactly as that map says |
| `retry` | 3 devices, 2 slots, 1 sender, 3 commands, ticks modulo 3, timeout 1, monitor every tick | no command held twice, every entry leaves the table, also across the wrap of the ticks |
| `persistence` | 1 device, 1 report, 1 failure or omission, 1 reboot, 1 join, 1 stop | unsaved values are noticed, saves rename their own file, a stopped service leaves no task and nobody with the mutex that is deleted |
| `persistence_saved` | 1 device, 2 reports, 1 failure or omission, 1 join, 1 stop | all is saved in the end but what was dropped since the last save, and stopping ends |
| `interview` | 2 devices of up to 1 endpoint, 2 short addresses they may have in common, 2 slots, 2 interviews, 1 failure, 1 retry of a request | one interview per device, none forgotten |
| `interview_ends` | 1 sleepy device, 1 slot, 1 interview, 1 retry of a request, 2 of the whole, 1 failure | lists in step, and an interview ends although no answer need come |
| `store` | 3 devices, 2 places, 2 tasks, 3 changes, 2 crashes, 1 fault | flash is the map of the saved devices while nothing fails; after a fault or a crash it never gives a device another's record (`StoreMap`) |
| `availability` | 1 mains and 1 battery device, 3 failures, backoff up to 8, a counter modulo 5, 2 events besides pings and timers | published is what is on record, offline is earned, only a frame brings back, the silent go offline |
| `membership` | 2 devices with drivers, 2 addresses, 2 slots, 1 binding, 1 move | what is bound at an address is its device's, everyone is tracked, a report finds its record |
| `event_bus` | 2 publishers and the dispatcher, queues of 1 and 2, 3 subscribers, 3 events | order, nothing leaked or freed early, every publication and every urgent event ends |
| `wifi` | 5 GHz preferred, fallback after 1 failure, reboot after 1 strike or 2 where there was no connection, 1 reboot, counters modulo 3, watchdog of 2 periods, 1 event waiting, 1 fault | a station without a link is driven on, a wrong state is set right, a reachable network is found again |
| `wifi_reboots` | the same with 2 events waiting, without fairness | *violation*: the limit of reboots is not kept |

Every property of a run that passes has a mutant in the module it is about: a small change of one
definition, of the kind a bug would be, that makes the run fail.

**Why the bounds are enough.** The registry needs more ids than slots, probe
sequences that collide and wrap, and a slot that is used again by another id;
2 and 3 are the smallest sizes where all of it happens, and the run has no bound
on the number of operations. Two retry slots and three devices force evictions;
three ticks make the counter wrap while entries are in the table. A report
of a device may come before, during or after the copy of a save, and the second of
`persistence_saved` in another of these places than the first; one reboot
is enough for a file that is older than the registry, and one join, one stop and
one failure or omission meet each of the steps of a save. Two interviews allow one in
each slot, or one after the other in the same slot with answers, timers and tasks
of the first still under way, or both at one address. A failure is any one thing
that need not work; whole new attempts (`interview_ends`) and the sharing of
addresses (`interview`) are apart from each other in the runs and together in the
proofs. A sleepy device differs in what its retries wait
for, which `interview_ends` follows to the end of an interview. Three devices and
two places make the list on flash full, and a deletion move the last record; two
tasks let one change what the other is saving, and three changes are two saves
and a deletion. The bound of two events of `availability` is for frames, failed
deliveries, refused publications and the like; pings, their time limits and the checks are not bounded,
so a device goes offline, comes back and goes offline again, and the counter
modulo 5 wraps while its owner is silent. One move gives a device an address its
record does not have, brings a new one, or takes one out of the network unheard;
leaves that are heard are not counted, so that the move can be to an address
whose last device is still being removed. One binding fills the table. Queues of one and two events are full,
empty and in between with three events. One fault of the Wi-Fi model is any
one thing that need not happen (a failed call, an access point that changes its
bands, a lost address, a portal test, a phase change); refused attempts, lost
access points, band switches, driver restarts and reboots are not counted and go
on for ever. A watchdog of two periods can be armed anew before it expires, which
one of a single period could not. The proofs remove the bounds of all components,
for everything but liveness; the runs keep the sizes at which every action
happens, each property is broken by its mutant, and a run takes less than a minute
on two cores. Larger ones were run once and found nothing else: two moves
(2.6 million states), two devices in `persistence` (4.8 million) and
three reports there (13 million), three events of
`availability` (1.1 million), two events waiting in
`wifi` (a million), two interviews of a sleepy device one after
the other (half a million).

**Deadlock.** `registry`, `retry` and `event_bus` check it. It is switched off
where the bounds on reports, stops, moves, interviews or faults make the model
stop, as a gateway does whose devices have fallen silent.

**Fairness.** `CmdRetry`: ticks go on, the monitor's loop turns, and a task that
has begun to send goes on; none of them waits for anything but bounded mutex
timeouts. The model lets the monitor run at least once per `CheckPeriod`.
`StatePersistence`: the periodic timer fires, a task that is ready runs, since
the scheduler is preemptive and no task spins, and a service that is being
started or stopped finishes. Reports, joins, crashes and failures are not fair.
`Interview`: timers that run expire and tasks that have work run, taken together
as one weak fairness condition; no device has to answer. `Availability`: the
tracker's loop turns, a task that changes a state goes on, checks become due and
pings expire, and the lifecycle manager starts a stopped tracker again.
`EventBus`: the dispatcher and the handlers it calls go on, and a publisher that
waits gets room or times out; nobody has to publish. `WifiManager`: each task
runs on, timers expire, and the driver ends an attempt, loses a link whose access
point is gone, and asks for an address as long as it has none. The watchdog's
callback has strong fairness, because the bound on waiting events keeps it back
now and then, which nothing in the code does.

**Assumptions.** A save ends within the 5 s its rivals wait for the mutex
(`TakeMutex_unchecked` is the mutant that shows what happens otherwise); handlers
and callbacks of the interviews get `s_mutex` within their 5 s, since the code does
not look at the result (the finishing task does, and may give up in the model); the service's first `init`
succeeds; Zigbee starts after it; handlers of events return; in the TLC runs of `CmdRetry` there is one
sender (the proofs allow any number).

## 5. Disagreements between code and comments

One has a run that ends in the counterexample (`wifi_reboots`):

1. `wifi_manager.h:63` limits the "reboots the watchdog may order before it gives
   up on rebooting", counted in RTC memory. The count is valid while its magic
   number stands, and `consume_wdt_breadcrumb()` (`crash_reporter.c:98`), called at
   each start for the sake of another note in the same structure, clears that. The
   count is always 0 after a reboot, and the reboots go on every few driver
   restarts, as `wifi_manager.c:350` says was observed before there was a limit.
   With `Consumed(n) == n` the property holds in the same configuration.

Each of the following is stated in a module as well; naming the property in a
configuration of its own makes TLC show the behaviour.

2. `state_persistence.h:6` says state is kept so that last known values are
   seen after a reboot (`KnownValuesStay`); the file is loaded only when the MQTT
   bridge starts (`state_persistence.c:344` may save before that), values of
   silent devices are dropped from it, and the save at a join writes none.
3. `zb_availability.h:222` wants every frame of a device to count as a sign of
   life (`AnswersCount`); the answer to a ping does not (`zb_callbacks.c:189`),
   and `zb_availability_handle_read_response()` has no caller. A mains powered
   device that answers every ping and reports nothing goes offline.
4. `zb_cmd_retry.h:8` promises a single retry (`SingleRetry`);
   `execute_retry()` (`zb_cmd_retry.c:90`) goes through functions that store the
   command again with all its retries.
5. `zb_cmd_retry.h:6` says the table holds the last command of a device
   (`LastCommandStored`); a retry taken out before a newer command is stored
   again over it.
6. `state_persistence.c:182` registers a handler for a clean save on reboot
   (`CleanStopSaves`); it looks at the dirty flag alone (`:817`), which a save in
   progress has cleared. `deinit()` "saves any dirty state", but its task ends
   after a save that was under way, with what has changed since.
7. `zb_interview.c:858` guards against answers of an earlier attempt by phase
   and index (`OwnDescriptors`); within the same phase a late descriptor is
   stored under the wrong endpoint (`:896`).
8. `zb_interview.c:1388` knows that a slot can be released while a task waits;
   `timeout_callback()` does not look again after its wait (`:1903`) and may
   pass a NULL timer to `xTimerReset()` (`TimerStillThere`).
9. `device_persistence.h:5` says devices are kept "for recovery across reboots"
   (`OthersSurvive` of `DeviceStore`). A crash between the writes of `dev_list`
   and `dev_count` (`device_persistence.c:273`) leaves a list that is longer
   than the count says; it does not fit the buffer of `load_all()`, which then
   erases the namespace: every paired device is lost.
10. `state_persistence.c:231` says of a save task that does not end in time "Do NOT
    force-delete: task may hold s_save_mutex" (`NeverForceDeleted`); the next call,
    `psram_task_delete()`, deletes it wherever it is
    (`freertos_helpers.h:168`).
11. `zb_interview.c:1389` looks a slot up again "instead of carrying the pointer
    across the task switch", so that every interview whose time is up is finished
    (`EverySlotComesBack`). It looks for the short address: of two interviews at one
    address the task of one may finish the other, twice. A slot is also lost where
    the task does not get the mutex (`:1395`) or is not made (`:1440`), and where
    its timer is not created, started or reset (`:545`, `:553`, `:1903`).

Observed while modelling, without a property of their own:

* **Registry.** `device_registry_remove()` never clears a hash entry (see section
  6 for why lookups stay right), and a freed slot waits until the cursor comes
  round.
* **Retries.** The choice of the oldest retry compares timestamps without regard
  to a wrap. An answer between the sending and the storing of a command finds no
  entry. A mutex timeout skips a store or a confirmation silently.
* **State persistence.** The save at a join writes the summary of each device,
  which has no measured values, and clears the dirty flag. A save without memory
  for a device's state (`state_persistence.c:325`, `:344`) or for the list of
  devices (`:319`) replaces the file by one without them, succeeds and leaves the
  flag clear. `deinit()` deletes the mutex although a shutdown handler may wait for
  it; with a new service both may then write the file at once (`RenamesOwnFile`
  is false without `deserted`). Loading the file
  replaces a value that a device has reported since the boot by the older one on
  file (`state_persistence.c:533`). The `init` that follows
  a `deinit` clears the dirty flag. The result of
  `xSemaphoreTake()` is not looked at (`:275`).
* **Interview.** A late power descriptor moves an interview to its last phase
  from any other; a second list of endpoints leaks the descriptors of the first
  (`zb_interview.c:810`), and an empty one leaves them in place for a moment; a
  deferred completion may end a newer interview of the device, or that of another
  at its address, and `request_first_endpoint` one of another device in a reused
  slot.
  `zb_interview_get_result()` returns a pointer an eviction may free; nothing
  calls it.
* **Device list on flash.** A failed allocation in `save()` makes the list count
  as empty, and only the device being saved is left in it. At capacity a device
  that joins before the deletion of the one that left is refused. A removal by
  the bridge that overlaps a rejoin deletes the record of the device that is
  back. `save()` follows the caller's pointer three times, so it may write a
  record that is gone or another's (`device_persistence.h:43`: registry and
  persistence "can never diverge"). The header names blobs by device id, the
  code by running number.
* **Availability.** Two tasks in `set_device_state()` at once can leave another
  state published than the one on record. An event the bus refuses is logged and
  not repeated (`zb_availability.c:1125`), and what was published stays wrong until
  the next change (`PublishedMatches` is false without `crossed` and without
  `unheard`). `zb_availability_stop()` deletes the
  task wherever it is, between a record and its publication or with the
  registry's mutex. The delivery failure of a ping counts, and so does its
  timeout. A rejoin leaves a device offline until its next frame.
  `unified_device.h:175` numbers the power types differently from
  `zb_availability.h:88`.
* **Join, rejoin and leave.** The record of a device whose address is reused
  stays, and a lookup by address finds the one in the lower slot
  (`device_registry.c:594`). A leave indication with an address other than that
  of the record unbinds the other device and leaves its own binding. Removal by
  the bridge (`zb_leave_helper.h:28`: "Safe to call from any task context")
  overlapping a rejoin (`zb_rejoin_helper.h:24`: "Atomically update") leaves the
  binding at the new address. The tracker is told to remove the *old* address
  after the record has changed, and so removes another device that is there by
  now. A converter looked up for one device may be bound for another that has
  the address when the lookup is done, and a Tuya driver be written to flash for
  it. Orphaned bindings fill the table of 64. EVT_DEVICE_LEFT handlers have
  100 ms to look the device up before it is removed (`zb_leave_helper.c:48`).
* **Event bus.** `event_bus.h:132` puts higher priorities first and `:139`
  CRITICAL before all; HIGH and CRITICAL share one queue, and the dispatcher may
  be waiting on the other. Publishing "returns immediately" (`:249`), but for up
  to 100 ms when a queue is full, which in a handler nobody else can empty. A
  timeout of the mutex in `event_dispatch()` drops the event with the strings it
  carries; an early return there (`event_bus.c:258`) would keep the mutex. A
  handler that unsubscribes is still called from the copy made before.
  Subscribing twice is not noticed.
* **Wi-Fi.** A band switch leaves the fallback flag as it was; when it is set, no
  failure opens the other band before the watchdog does. The cooldown of the
  switch (`wifi_manager.c:62`: 600 s) is the difference of an uptime that starts
  again with each address and a time taken from it (`:2147`), so it wraps
  right after a switch that worked, and a second one may follow at once.
  The watchdog turns `auto_reconnect` on and restarts the driver while the portal
  is open (`wifi_captive_portal.c:886`: "so it doesn't fight the portal"). A
  reconnect pending when the portal opens still happens: the test's
  `esp_wifi_set_config()` is then refused, its result not looked at, and what was
  typed is saved as tested though the old credentials connected. A failed test
  leaves its credentials with the driver, and only a reboot or the end of a
  pairing phase restores the right ones; a test that succeeds leaves the old ones
  with the manager, which `wifi_manager_reconnect()` sets again. A test that ends
  well after the portal has stopped sets a bit of a deleted event group.
  `wifi_manager_reconnect()` may report CONNECTED after the end of the connection
  has been handled. Losing the address leaves the state CONNECTED. When
  `esp_wifi_connect()` fails at start-up no timer is armed, though `main.c:1010`
  says the manager keeps trying. `FORCE_5GHZ` does not keep the poor-signal switch
  from 2.4 GHz.

## 6. Proofs

All proofs are for any values of the constants that satisfy the ASSUMEs of the
module. Each proof module shows `Init => Inv`, `Inv /\ [Next]_vars => Inv'` by
one lemma or step per action, and derives its properties from `[]Inv`.

**`DeviceRegistryProofs`** (`RegistryInv`; theorems `Invariance`, `TypeCorrect`,
`IdsAreUnique`, `LookupsAreExact`, `TableNeverFull`, `CountIsExact`,
`NoStateLeftBehind`, `RegistryIsMap`, `OperationsAreExact`). Exactness of lookups is not inductive: entries are never
removed, so one has to know why the table does not fill up and why an old entry
does no harm. The reason is the round-robin cursor. The device slots that have
never been entered in the hash table (`Fresh`) are exactly the next ones the
cursor comes to (`FreshIsNext`), and until it has come to all of them each slot
has at most one entry (`OneEntryWhileFresh`); so with `MaxDevices <= HashSize`
there is an empty hash slot whenever one is needed, or else every slot has been
entered already. `EntriesReachable` says that each registered device is found
along its probe sequence before an empty slot. An old entry is harmless since
the id is compared with that of the device slot. The theorem would fail with an
allocator that takes the first free slot (`find_free_slot_from_zero`, a
mutant). With exact
lookups the refinement is short: the map has one record for each slot in use
(`MapShape`), so a write to a slot is one to the map (`WriteMap`), a removal
takes its record away (`RemoveMap`), and an addition finds room, because the ids
known are no more than the slots in use (`AddMap`).

**`CmdRetryProofs`** (`RetryInv`; `Invariance`, `OneEntry`, `RetryIsExclusive`,
`TimeoutsAreMet`). A command is in one slot, or in the hands of one task; to be
inductive this needs that nobody holds a command not yet given and that the
jobs of one task come from different slots. The bound on ages is stated in the
code's own arithmetic modulo the size of the counter; it is inductive because
`Timeout + CheckPeriod < TickMod`, so that an age can never wrap unseen.

**`InterviewProofs`** (`InterviewInv`; `Invariance`, `TypeCorrect`,
`DevicesAreInterviewedOnce`, `ListsStayInStep`, `NoInterviewIsForgotten`). Most
steps change one slot; `Continues` says what they may leave in it (the slot
free, or the same interview with lists in step and its timer as before or
running) and `SlotStep` shows that this is enough, even where a task acts on a
slot that has meanwhile become another interview's. The steps that pass the
duty to end an interview on (timer to callback to deferred task) are proved one
by one. The finishing task looks for an address, so what it may take from an
interview depends on who else has that address: `AloneAtAddress` says that an
interview that is not `shared` is the only one at its own, and is therefore the
one that is found. A failure takes the duty away from the slot it hits alone, and
that slot is in `spoilt`. TLC refutes `NoneForgotten` without either exception.
An empty list of endpoints resets the counters and leaves the descriptors, until
the second half of its handler ends the interview (`EmptyListCame`).

**`StatePersistenceProofs`** (`ServiceInv`; `Invariance`, `TypeCorrect`,
`StoppedIsQuiet`, `OwnFile`, `NothingForgotten`), for any number of reports,
joins, stops, failures and reboots. `ServiceInv` says who holds the mutex: the
saver that is at work behind it, unless `deinit()` deleted it under the shutdown
handler, and nobody when the service is down, whether its task ended or was
deleted. `RenamesOwnFile` needs that of the two savers that take the mutex only
one is between write and rename; a join may replace or remove the temporary file
between these steps, and then the save renames the join's summary or fails. For
`UnsavedIsNoticed` it is not enough that the dirty flag is set or a save is on its
way: a value that came during a copy must have been marked since, for each device
apart, and a save that fails must give the flag back (`Noticed`, `CopiesNoticed`,
`SavingInv`). `lost` makes it true where the code drops values: it gets a device
where a save leaves it out, a join replaces the file or clears the flag, and
`init()` clears the flag, and is emptied when a save begins to copy. The theorem
says that there is no other way to lose a value.

**`EventBusProofs`** (`BusInv`; `BusTypes`, `DeliveredInOrder`, `MemoryIsFreed`,
`MemoryIsLive`, `HighComesNext`), for any publishers and capacities, with room for
at least the two subscribers of start-up. An event is in one place only: held by
a task that waits, in one queue, or with the dispatcher (`Apart`), and the ids
of one task increase along these places. What is allocated belongs to the events
in them (`Accounted`), and an event in the high queue that has been passed
finds the dispatcher on its way back to that queue (`Patient`).

**`NetworkProofs`, the tracker** (`AvailInv`; `TypeCorrect`, `PublicationsMatch`,
`OfflineIsEarned`, `OnlyFramesBringBack`). The properties are about a device on
which nobody is at work, so the invariant has to say what the one task at work
knows (`OneWorker`) of a device that no other has been at work on. For the
publications it is the one task in `set_device_state()` that counts, whoever else
has been there meanwhile (`OneSpeaker`): before it writes, record and publication
agree; after it, the record is what it is going to publish, or the device is
`unheard`. `CountsInStep` relates the counter in
the record, which wraps, to the failures since the last frame.

**`NetworkProofs`, the tables** (`MemberInv` of `Membership`; `MemberTypeCorrect`,
`BindingsStayOwn`, `NoDeviceIsLost`, `ReportsFindRecords`, `SlotsAreOwn`,
`TablesStayInBounds`), for any devices,
addresses, sizes of the registry and of the table of converters, and any number
of moves. The properties are about addresses at which nobody is at work, and say
nothing while a rejoin or a removal is half done, so the invariant says what a
table holds *between two calls* of the helpers. Four facts carry it:

- what a task read of a record still holds, or the address is loose
  (`Informed`): a handler goes on with the address it got at its start, and only
  another task at work on the same device can have made that wrong;
- loose addresses and the devices that have them go together (`Closed`), so a
  device at an address that is not loose is the only one there and is what a
  lookup by address finds (`OnlyHolder`);
- a removal clears one table after the other before it empties the record, and
  what it has cleared stays clear (`Cleared`): who binds anew at that address
  meanwhile works on the same device, which makes it loose (`CleaningHolder`);
- a binding that does not belong to a device at its address belongs to the one
  that the Zigbee task is moving away from there (`OwnBindings`), and a device
  the tracker has lost is one a task is about to remove (`Tracking`).

`OwnRecords` adds what a device takes along: a converter and a driver of its own,
and nothing once its record is empty. Only one task moves devices (`OneMover`):
with two, one could take the record of a device on while the other is still
binding at the address in between. `MemberInv` was checked by TLC on the instance of
the run `membership`, and in random behaviours of three devices at three
addresses, before it was proved. At a loose address none of it holds.

The sizes of the tables are an invariant of their own on top (`SlotsApart`,
`BindingsFit`), which holds at loose addresses too: a record changes its slot only
when it is empty (`SlotsStay` for every other step), so the slots of the registered
devices count them (`RegisteredFit`, by an injection into the slots); and a binding
takes at most one more place, only while there is one (`BoundFits`), also where a
rejoin frees the old address and binds the new one in one step. The addresses need
not be finite: that the bound ones are is part of the invariant, and at boot follows
from the slots of their devices.

**`DeviceStoreProofs`** (`StoreInv`; `Invariance`, `TypeCorrect`, `LayoutIsKept`,
`NothingIsStale`, `StoreIsMap`). `LayoutInv` is the layout between any two
writes of each operation: the list that counts is the one on flash, and in the
second half of a deletion the one about to be written. `FreshInv` follows each
change of a record to the call that will save it, `SavedInv` each record on
flash to a save of that device, which also holds after faults and crashes, and
`Effected` says that the writes made so far and those to come add up to the
operation. `StoreIsMap` is the refinement: each step of `DeviceStore` is a step
of `StoreMap` or leaves the map alone, with any devices, tasks, capacity,
changes, crashes and faults.

**`WifiManagerProofs`** (`WifiInv`; `TypeCorrect`, `DrivenOn`, `StateIsSetRight`),
for every band selection, threshold, number of strikes and reboots, width of the
counters, number of waiting events and of faults. The events that wait in the
driver's queue carry the argument: whatever ends a link or an attempt posts
DISCONNECTED behind all other events (`DropStep`), so that a report of a
connection that has ended is always followed by the report of its end
(`QueuedIsUp`, and `HandledIsUp` for the one in the handler's hands). That is why
the handler of STA_CONNECTED may stop the watchdog late. `StateIsSetRight` needs
two more facts: only the portal keeps the manager from reconnecting
(`PortalAlone`), and what `wifi_manager_reconnect()` found and has not reported
yet is true or will be set right (`FoundUp`). `RebootsBounded` is false, see
section 5.

**What is only model-checked.** Liveness (`PendingResolved`, `EventuallySaved`,
`StopEnds`, `InterviewEnds`, `SilentGoesOffline`, `EventsEnd`, `Recovers`), since fairness
and ENABLED are beyond the TLAPS version used. Every invariant of a run and every
action property of one is stated by a theorem. `OneEntryPerDevice`, `AgeBounded`,
`LayoutHolds`, `OvertakenOnce`, `SlotsApart`, `TablesFit` and the inductive invariants are stated in their
modules and proved, and not part of a run.

## 7. Not modelled

Section 1 lists the components without a module, section 3 what is left out of
those that have one. Common to all: the heap (but for the event bus, where a
string's owner changes), the values inside records, messages and their formats,
the timeouts of mutexes (but for the lost store of `CmdRetry` and the finishing
task of `Interview`), and what ESP-IDF
and the Zigbee stack do on their own.
