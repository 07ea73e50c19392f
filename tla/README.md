# Terrascope: models and proofs

Terrascope is firmware for sensor nodes that flood small messages through a
LoRa mesh. It runs on Zephyr, on one processor. This directory holds TLA+ models
of its concurrent and stateful parts, TLC configurations that check them on
small instances, and TLAPS proofs of the most important results for every size.

Paths below are relative to the repository (`src/lora/lora.c`, ...).

## 1. The system

| Part | State | Operations | Interacts through |
|---|---|---|---|
| Duplicate detection (`routing.c`) | ring of (src, msg_id), write index, count, own id | init, is_duplicate, mark_seen | called by RX; initialised by main |
| Contention pool (`contention.c`) | slots with a message and a delayable work item, `pool_mutex` | init, schedule, cancel, work handler | RX calls; timer interrupt; system work queue; publishes on `ts_lora_out_chan` |
| Neighbour table (`routing_table.c`) | entries with `last_seen`, `table_mutex` | init, update, lookup, age, count | RX updates; a periodic work item ages |
| Configuration (`config.c`) | live struct, flash settings, `config_mutex` | init, get, set, reset | read by everyone without a lock; set by RX for remote requests |
| Transmit path (`lora.c`, `main.c`, `sensor_manager.c`) | one-message channel, notification queue, `lora_ready_sem` | publish (heartbeat, sensor, forward, ack), `lora_out_task` | zbus |
| Receive path (`lora.c`) | none of its own | `lora_in_task` | calls all of the above |
| Codec (`cbor.c`, `messages.h`) | none | serialize, deserialize | called by TX and RX |
| Authentication (`auth.c`) | the imported network key; the key id of the image | init, sign, verify | initialised by main; called by TX and RX |
| Mock radio (`lora_mock.c`) | queue of received packets | send (loops back), recv | called by TX and RX |
| Sensors (`sensor_bme280.c`, `sensor_mock.c`) | none | read | called by the periodic work item |
| Logging (`logging.c`) | none | wording of a log line | |

Threads and their priorities: timer interrupts; the system work queue
(cooperative: contention handlers, sensor reading, table aging); RX and TX
(preemptible, 3), started before `main()`; `main()` (preemptible, 5: boot, then
heartbeats).

What is hard to test here: the order in which interrupt, work queue, RX and
main interleave inside short critical sections; work items rescheduled while
their handler is running; a channel that holds one message for three producers;
values read before a lock and used after it; power failures inside a
configuration write; the boot order; a network that is moved to another key
node by node while messages travel; and rings, pools, tables and name buffers
at their limit. `PROJECT.json` lists these hazards line by line with the
properties aimed at them.

## 2. The modules

Each module `X.tla` is accompanied by `XProofs.tla` if theorems about it are proved
(section 4), and by `MCX.tla` if its runs need definitions.

### `Routing.tla`, `SeenWindow.tla` - duplicate detection
`Routing` keeps the variables of `routing.c` under their own names.
`ts_routing_init` is four actions, one per group of assignments, because RX may
preempt main between them; a packet's passage through the gate of
`lora_in_task` (own message, duplicate, fresh) is one action, because main never
preempts RX. `EarlyRx` says whether packets arrive before the initialisation is
over. `Restart` loses RAM at any time. `SeenWindow` is the abstract promise: the
last W accepted headers are remembered, exactly those are refused, a restart
forgets them. The refinement mapping reads the ring from its oldest entry to its
newest. A header is the pair (src, msg_id); nothing else matters here.

### `Contention.tla`, `ForwardPool.tla`, `MCContention.tla` - the pool of delayed forwards
Slots, the busy flags of each slot's work item as Zephyr defines them
(DELAYED, QUEUED, RUNNING, CANCELING), the work queue, its thread and RX.
`ts_contention_schedule` is `ScheduleFill` + `ScheduleArm` (or `ScheduleFull`),
`ts_contention_cancel` is `CancelFind` + `CancelWork` + `CancelFree` (or
`CancelMiss`): interrupts and the work queue may come in between. The handler's
critical section is one action, because its thread is cooperative and does not
wait inside it; its publish, which may block, is another. `ts_contention_init`
runs once, before the first packet, so its re-initialisation branch (for tests)
is not taken. The delay is what `ts_contention_rssi_to_delay_ms` computes for
any of the configurations `DelayConfig` and signal strengths `Rssi`; the
configuration may change between two packets. The kernel's operations
are external: they are modelled as Zephyr's documentation describes them and as
`contention.c` uses them. A *ticket* numbers the calls of
`ts_contention_schedule`, so that properties can tell a message from the next
one in the same slot.

`ForwardPool` is the abstract promise: a set of at most `PoolSize` pending
forwards, each of which leaves once, forwarded or cancelled. The refinement
mapping collects the occupied slots; a forward leaves the abstract pool when its
handler claims it, or when the cancel frees its slot. Filling and arming a slot,
finding it and cancelling its work, timer, queue and the publish are stuttering
steps or the one step that counts.

### `LoraOut.tla` - from a publish to the radio
Three producers (`wq`: sensor readings and forwards, `rx`: config acks, `main`:
heartbeats) lock the channel, overwrite its message, notify the subscriber's
queue (depth 2) and unlock; each waiting step may time out. TX waits for a
notification, reads the channel with a 1 ms timeout and sends. Encoding, signing
and sending are one step: whatever fails, `lora_out_task` goes back to waiting.
Preemptive priorities on one processor decide who may step. The start-up
semaphore, given once by `lora_init` or not at all, is part of the model.

### `RoutingTable.tla` - neighbours
RX reads the clock, then locks, then updates, inserts or evicts; the aging work
item reads the clock, waits for the lock and removes. Time is a clock in
seconds; an update or an aging run takes less than a second but may straddle a
tick. Entries keep node id, `direct` and `last_seen`.

The timer interrupt only submits the work item: `queued` says since when it
waits in the system work queue, which it shares with the contention handlers and
the sensor. It starts at most `Backlog` seconds later, and a timer expiry in the
meantime is lost, since submitting a queued item does nothing. `Backlog` is a
constant. The queue is first in, first out, and an item is queued at most once,
so at most 32 contention handlers and the sensor come before it, each of which
blocks up to 200 ms in a publish: 7 seconds cover them.

### `Config.tla`, `MCConfig.tla` - configuration
The live struct, the flash settings by stored name, and the calls of set and
reset broken where power may fail. A save or a delete may fail at any time, and
a boot may find settings that it cannot read (it goes on with their defaults) or
fail part of the way. `ts_config_reset` ignores a failed delete and returns 0;
the history `promised` takes it at its word, and `survivor` remembers which
values were not erased. A stored name is a key and a number of
characters: `snprintf` into `full_name[32]` keeps 31. `write_field` narrows to
the field's width and sign. `lora_init` copies the radio's parameters before
`ts_config_init` loads the stored ones, as the boot does. `MCConfig` holds the 15
rows of `config_keys`, and TLC evaluates on all of them what the theorems assume:
every range fits its field, and every name but one fits in `full_name`.

### `Mesh.tla`, `MCMesh.tla` - several nodes
The handler of `lora_in_task` from the own-message gate on: duplicates cancel the
first pending forward of their message, fresh packets are marked, enter the
neighbour table, are delivered if addressed here, a config set is applied and
acknowledged and stops there, everything but config messages takes the first
free slot of the pool while its ttl lasts and there is one. It uses one node's
parts as the other modules establish them: the window of `SeenWindow`, the pool
of `ForwardPool`, whose forwards are claimed at most once and then published, a
one-message channel with notifications. Numbering a message and publishing it are
one step. The medium is external: any of a sender's neighbours hear a packet, or
none; a packet that fails authentication, decoding or the key id check counts as
not heard.

A restart loses RAM. The node then boots with RX, TX and the work queue already
running: from `ts_auth_init` on it accepts and forwards packets, takes itself for
node 0 (`self`), and produces nothing, until `ts_routing_init` gives it its id,
numbers from 0 and empties cache and table, but not pool and channel. Two fields
of a message are history, which no node can see: `life` tells the messages before
a sender's restart from those after, `early` marks a forward that its node
accepted before its `ts_routing_init`. `ts_routing_init` is one step here; a
packet between its assignments is `Routing`'s finding. No node has the id 0
(`NodeAssumption`), which `ts_config_set` would accept. Every node has the same
`routing_ttl`.

### `Codec.tla`, `Link.tla`, `MCLink.tla` - one message from node to node
`Codec` is `cbor.c` on abstract items: a wire is the sequence of text, integers
and map ends that the encoder writes, with their sizes in bytes. One table of
fields per map, in the order of the code, drives both directions; the decoder
refuses what is not the expected item, and narrows to the C member's width.

`Link` follows a message from its producer (a sensor reading with the BME280's
conversion, a heartbeat, an operator's config set, an ack) through
`lora_out_task` (stamp the key id, encode, sign, send), the driver's size check
and queue, and `lora_in_task` (length, tag, decoding, key id, own message) to the
node that handles it and the relays that send it on. Nodes boot as `main()` does,
with its early returns, while RX and TX already run; they restart at any time,
possibly flashed with another key string or key id, and radios pick up damaged
packets, fragments and messages of unknown types. The MAC is ideal: a tag is the
pair of key and wire. The air is that of `Mesh`; a node in its own `Reach` is the
loopback of the mock driver.

`Mesh` and `Link` divide the work. `Mesh` assumes intact packets and one key, and
keeps the duplicate cache, the pool and the notifications; `Link` keeps contents,
keys and buffers, and lets any packet count as a duplicate and any forward get
lost, so that its properties rest on neither cache nor pool. A channel that is
sent twice is `LoraOut`'s and `Mesh`'s.

## 3. The runs

| Run | Result | States | What it shows |
|---|---|---|---|
| `routing` | pass | 58 k | the ring is the tail of the accepted headers and implements `SeenWindow`; nothing re-enters within the window; nothing is refused that was not accepted |
| `routing_early_rx` | violation | | a packet inside `ts_routing_init` breaks duplicate detection for good |
| `contention` | pass | 52 k | a forward is published at most once, never after its cancel, never early; a weaker signal never waits longer; the pool implements `ForwardPool`; a pending slot is emptied |
| `contention_orphan` | violation | | schedule, cancel, schedule during a publish loses a slot |
| `config` | pass | 461 k | whenever power fails, the next boot finds what set and reset promised, or a value that a reset failed to delete; live agrees with flash |
| `config_reset` | violation | | `ts_config_reset` returns 0 and a value it has not erased comes back |
| `config_long_name` | violation | | `routing_table_stale_timeout_s` does not survive a reboot |
| `lora_out` | pass | 47 k | order, no unpaid transmission, the newest message is not stranded, both threads start |
| `routing_table` | pass | 7.3 M | one current entry per node, timely and never premature aging although runs are late or lost, eviction of the longest silent |
| `mesh` | pass | 404 k | floods stay within the ttl and die out; a node delivers and forwards a message at most once while it boots and at most once after; only neighbours are marked direct; config messages stay in radio range |
| `mesh_cancel` | violation | | a repeated transmission of the origin cancels the only relay's forward |
| `link` | pass | 97 k | what a node handles is what was originated, digit for digit, and under its own key and key id; a booted node never handles its own messages; every message fits every buffer; the ttl alone ends floods |

The five violations are disagreements between the code and what its comments,
headers and documents say; `PROJECT.json` quotes both sides under `findings`.

**Bounds.** Routing: three slots, six foreign headers, seven accepted headers,
so the ring wraps twice and an evicted header comes back; node 0 and message 0
are included because a zeroed slot looks like them. Contention: two slots, two
keys, four calls of schedule: one more than the orphan needs; five delay
configurations (the default, a minimum above 0, equal and reversed thresholds,
the widest range) and signal strengths on both sides of each threshold. LoraOut: queue
depth 2 as in the code, five messages, so that the queue fills while one message
is being sent. RoutingTable: two slots and three nodes (eviction), six seconds
with a timeout of two, an interval of one and a work queue that holds a run up
for two, so that runs are late, are lost, and find a node too young; the bound of
`SilentNodesLeave` is reached. Config: two keys per run, with the ends of their
ranges and the values next to them. Mesh: a diamond of four
nodes, so that two relays compete and the far node is out of the source's range,
a ttl of 3, so that the far node forwards back, one message per node and life (a
reading or a config set of the source, an ack of the relay), a pool and a queue of one, so that both overflow,
a cache of four, which holds every header in circulation (what happens when it
wraps is `Routing`'s subject), a source and a relay that each restart once at any
time and then boot: the source hears and forwards its own old message, the relay
accepts the same one before and after its `ts_routing_init`. `Booting`, the nodes
that start unbooted, is empty in the runs, as a restart may come first, and any
set in the proofs. Link: a source, a relay and two more nodes, of which
one is on the next key; ttl 2, so that the relay forwards and what it forwards
reaches source and both others; a relay that restarts once with the same key,
the same key under another id, another key, or a mistyped one; message numbers
that start at 2^16; a temperature of -0.56 degrees, the largest humidity,
pressure and uptime; a key string as long as decoding allows and one character
more; queues of one packet; two messages, acks and disturbances counted alike.
Keys are one byte long instead of 16: parsing treats each byte alike. The counters that only grow (`MaxMarks`,
`MaxTickets`, `MaxMsgs`, `MaxClock`, `MaxSends`) are bounded in the guards of the actions.

**Fairness.** `Contention`, `LoraOut`, `Mesh` and `Link` state liveness. A started delay
expires (timer interrupt). The work queue thread has the highest thread
priority, so its steps are weakly fair; taking the next work item is strongly
fair, because the queue is served in turn although other handlers keep the
thread busy in between. RX leaves its critical sections, which do not wait.
TX and the producers take a step when they can forever. Nothing is assumed about
the arrival of packets, sensor readings or heartbeats, nor about the success of
`lora_init`: `BothThreadsStart` is conditional on the semaphore being given. In
`Mesh` RX and TX run and a handler that has claimed a forward publishes it; no
packet has to be heard, no boot has to end, and no pending forward has to be
claimed, because `contention_orphan` shows one that never is. `FloodDies` says
that the mesh falls silent for good, and leaves forwards in their slots alone.
In `Link` RX and TX of every node take what waits for them.

**Deadlock** is checked in every run but those of `Mesh` and `Link`, where a quiet
mesh that has used up its messages is what `FloodDies` and `TtlAloneEndsFloods`
ask for.

**Disagreements that have no run.** Four more were met. Each is stated where a
property or a theorem has to allow for it.
- *The minimum delay.* The ramp of `ts_contention_rssi_to_delay_ms` starts at 0,
  not at `contention_delay_min_ms`. With a minimum above 0, which `ts_config_set`
  accepts, a packet just above the weak threshold gets a shorter delay than a
  weaker one, against `contention.h` ("Weaker signal results in shorter delay").
  `WeakestForwardsFirst` is about a minimum of 0, the default;
  `RampStartsBelowMinimum` says when the order fails.
- *Stored radio parameters.* `lora_init` runs as SYS_INIT, before `main()` loads the
  configuration, and nothing configures the radio again, although `PLAN.md` says
  "Values are stored in NVS flash and loaded at boot" and "call `ts_config_init()`
  in `main()` before all other module inits". `RadioKeepsDefaults` proves that the
  radio only ever gets the defaults.
- *Remote configuration.* `PLAN.md`: a node "can push a key-value pair to any node ID
  over the mesh", `README.md`: "remote config push over LoRa mesh". A node that hears
  a config set for another one drops it (`lora.c`: "Config messages are
  point-to-point, not flooded", and so the same line of `PLAN.md`), so it arrives
  only within its sender's radio range. `ConfigStaysInRange` is about this, and
  `ConfigIsLocal` proves it for every topology.
- *Own messages during the boot.* "drop own messages that returned via other nodes"
  (`lora.c`) compares with `self_node_id`, which is 0 until `ts_routing_init`. A node
  may forward, and deliver, a message that it sent before its restart.
  `ForwardedAtMostOnce` excepts this case, `OwnComesFromEarlierLife` proves that it is
  the only one, and `OwnNeverHandled` of `Link` is about nodes that have booted.

## 4. The proofs

Eight modules hold the theorems. TLAPS checks them (SMT, Zenon, LS4); they hold for
every value of the constants that satisfies the ASSUMEs of the modules, which TLC
evaluates in the runs, and, where a theorem names one, a hypothesis:

| Hypothesis | Meaning | Where it fails |
|---|---|---|
| `Calm` (`RoutingProofs`) | no packet before the initialisation is over, fewer than 2^32 accepted messages since the restart | run `routing_early_rx` |
| `FieldsFit` (`ConfigProofs`) | each key's range fits its field's width and sign | nowhere: TLC evaluates it on all rows of `config_keys` |
| `NamesFit` (`ConfigProofs`) | each key's settings name fits in `full_name[32]` | run `config_long_name`: one row of 15 |
| `Roomy` (`MeshProofs`) | the duplicate cache holds every header in circulation | a mesh with more messages under way than cache entries; `OnceUntilFull` and `Routing` say what holds then |

Each module first proves that its inductive invariant `Inv` holds; the theorems
follow from it. There is one lemma per action, and lemmas for the operators that
several actions share.

`RoutingProofs`
- `TypeCorrect`: `Spec => []TypeOK`, also with packets during initialisation.
- `CacheIsTail`, `DuplicateDetection`, `RefusalIsRight`, `Refinement`: for every
  cache size, under `Calm`. The properties are not inductive: they speak about
  the history, the code looks at the ring. The invariant joins the two with
  `RingIsTailOfMarked`. The lemmas behind it say that the remainder in
  `ts_routing_mark_seen` is a test for the last slot (`NextIndex`), that the scan
  of the first `Entries` slots sees exactly the window (`ScanIsWindow`), and that
  marking slides the window by one (`MarkSlides`).
- `DuplicateIffRecent`, under `Calm`: `ts_routing_is_duplicate` is exact, true of the
  headers accepted among the last `CacheSize` and of no others, in every state.
  `HeardAgainIsDuplicate` follows with one more invariant (`FreshIsNewest`): what
  `routing.h` says, and run `routing_early_rx` refutes, holds once packets during
  the initialisation are excluded.

`ContentionProofs`
- `TypeCorrect`, `SlotsAreDisciplined`, `ForwardedOnce`, `CancelIsFinal`,
  `NeverEarly`: for every pool size, key set and number of tickets, with no
  assumption about the environment. The handler decides by `occupied` alone, so
  what it may take depends on what the flags of its slot stand for; the
  invariant adds `SlotDiscipline` (a free slot has nothing pending, each flag is
  about the message now in the slot, the queue holds each slot once, RX works on
  an occupied slot that is quiet before it is armed or freed). `SubmitInv` is
  shared by the timer and by a delay of zero.
- `OnlyRearmingStrands`, an action property: the one step that leaves an occupied
  slot with nothing to empty it (run `contention_orphan`) is
  `ts_contention_schedule` arming a work item that is still being cancelled; no
  other interleaving does. `ArmedUnlessRearmed`: in behaviours without that step
  `OccupiedSlotIsArmed` holds. Both need that a work item being cancelled is
  neither delayed nor queued (`CancellingIsQuiet`), so that the timer's submission
  is never refused.
- `DelayFollowsSignal`: for all thresholds, delays and signal strengths, from
  `DelayAssumption` alone. `RampStartsBelowMinimum` is the other side: with which
  minimum above 0 a weaker packet is overtaken. `Quotient` and `DivisionKeepsOrder` say that integer
  division keeps the order, `Ramp` that the values between the thresholds lie
  between the ends and rise with the signal.
- `Refinement`: `Spec => ImplementsForwardPool`, safety only, as `ForwardPool`
  states no fairness. `StepRefines` takes the actions one by one under the
  invariant: `FreeSlotLeavesRoom` counts that a free slot means fewer than
  `PoolSize` pending forwards, and `EmptiedSlot` that freeing a slot removes
  exactly its own forward, because no two slots hold the same message.

`LoraOutProofs`
- `TypeCorrect`, `ChannelIsExclusive`, `SentInOrder`, `SentAtMostAsPublished`,
  `NewestStaysReachable`: for every queue depth and number of messages. No step
  uses the threads' priorities, so the results do not depend on the scheduler.
  The invariant adds who holds the channel's semaphore (`Mutex`), and `Paid`: each
  notification, waiting, consumed or turned into a transmission, was put there by
  a publish of its own. `OneTransmissionPerPublish` alone is not inductive, since
  the notification that TX has consumed and not yet honoured is in neither count.
- `ReadyIsPassedOn`: `lora_ready_sem` is one token that is available or about to be
  given back, so no interleaving locks a radio thread out at boot. It is the safety
  half of `BothThreadsStart`.

`RoutingTableProofs`
- `TypeCorrect`, `OneEntryPerNode`, `SilentLeave`, and the action properties
  `AgingSparesFresh` and `EvictsOldest`: for every table size, timeout and interval.
  Both threads read the clock before they lock, so the invariant relates the two
  readings to each other and to the entries (`TimesAreCurrent`: an aging run never
  meets an entry younger than its own reading, so the unsigned difference does not
  wrap), and an entry's age to the timer's next expiry and to the time of the run
  that is queued (`Schedule`).
- `SilentLeave` gives the bound timeout plus interval plus `Backlog`. A run that is
  lost costs nothing, because the queued one that it would have followed starts
  within `Backlog` of an earlier expiry. The proof showed that this sum is wrong for
  a timeout of one second: an update that reads the clock before an aging run may
  write after it. `SilentNodesLeave` allows that second (`Grace`).

`ConfigProofs`
- `TypeCorrect` under `FieldsFit`; `PromiseIsKept` and `LiveIsPersisted` under
  `FieldsFit` and `NamesFit`. `FittingKeysPersist` needs only `FieldsFit`: each key
  whose own name fits keeps its promise, whatever becomes of the others. So it
  applies to 14 of the 15 rows as the table stands. What a reset failed to delete is
  the exception in both; `OnlyFailedDeletesSurvive` says that without such a delete
  the promise is kept to the letter, so run `config_reset` shows all that is wrong
  with reset.
- The invariant says what a set or reset has done so far at each point where power
  may fail (`CallInProgress`), and states the agreement of live and flash for every
  key that no call is working on (`LiveIsStored`).
- What the long name and the boot order do holds for every table.
  `LongNamesForget`: each boot leaves the default in a key whose name does not fit.
  `RadioKeepsDefaults`: the radio only ever gets the defaults, whatever is set and
  stored, since a node that is off has the default configuration in RAM and the
  radio is configured first (`RadioInv`).

`MeshProofs`
- `TypeCorrect`, `FloodIsBounded`, `DirectIsTrue`, `ConfigIsLocal`: for every
  topology, ttl, cache, pool and queue, with losses and restarts. The invariant
  `Travel` says of a message, in every place where it may wait, how far from its
  source that place is, in terms of the ttl it has left.
- `AtMostOneDelivery`, `AtMostOneForward`: under `Roomy`. The histories are related
  to the cache: it has each header once (`CacheIsExact`), what was accepted since it
  was last cleared is in it (`Known`), and a forward is in one place only, pending,
  claimed or done (`Ledger`). `ts_routing_init` clears the cache under forwards that
  stay pending, so all of this is said per mark: `Marks` says that a booting node has
  early messages only, and from `ts_routing_init` on the early ones are never added
  to, while the ledger of the others starts empty. A full cache would evict a header
  and accept it again, so the invariant speaks about the nodes whose cache is
  `Intact`: all of them under `Roomy`, else those whose cache is not full yet.
- `OnceUntilFull` is what the same invariant gives without `Roomy`: a node whose
  cache has not filled up since it was last cleared has delivered and forwarded
  everything it accepted since then at most once, for every cache size and any
  traffic.
- `OwnComesFromEarlierLife` needs no cache at all: what a node holds, claims or has
  forwarded is never its own, unless it accepted it while it booted, and then it is
  from before the restart. The invariant dates every message in the mesh
  (`AllDated`): none is of a life that its sender has not reached, or of the present
  one while the sender still boots.

`CodecProofs`
- `RoundTrip`: decoding gives back what was encoded, for every message of the four
  types whose values fit their members. `EncodeMapItems` gives the place of each
  field on the wire, `MapRoundTrip` reads it back, and `MapIsRead` shows that the
  decoder's checks all pass.
- `WireIsShort`: every message of the four types, with a key that fits its member,
  takes at most 212 bytes, however large its values. `ByteSize` is a recursive sum
  over the items, so the proof needs an induction. The library's induction theorems
  take an operator and cannot be used; `SetInduction` is stated for a set instead
  (the numbers for which the claim holds) and proved from the least element of its
  complement. With it, `SumsExist` shows that the recursive function exists, and
  `FrontSize`, `PairsBound` and `BackSize` add up the envelope, the route and the
  data. A label's length is the one thing the provers cannot see in a string:
  `LabelAssumption` bounds it by 11 and TLC evaluates it on the labels of `cbor.c`.

`LinkProofs`
- `EveryBufferFits`: what a node encodes and signs fits the buffers of TX, driver
  and RX, for all inputs. The invariant carries along that a key in a message fits
  its member, which holds at first because `InputAssumption` takes config sets with
  a `char key[TS_MSG_CONFIG_KEY_MAX]`, and the rest is `WireIsShort`.
- `TypeCorrect`, `EpochsApart`, `HandledIsAsSent`, `OwnIsNeverHandled`: for all
  images, readings, config sets and topologies. The invariant traces each message,
  wherever it is, to the step that originated it (`Travel`); for a packet in the air
  only if it would pass the gates of some node (`PacketOk`), so damaged and foreign
  ones need no case of their own. A node that relays signs anew, with the key it
  was verified under, until a restart empties its RAM. `HundredthsNear` bounds what
  the BME280 conversion loses.

**Only model-checked.**
- Liveness (`ArmedSlotIsEmptied`, `BothThreadsStart`, `NewestIsTaken`, `FloodDies`,
  `TtlAloneEndsFloods`): fairness is out of the prover's reach.
- The violation runs, which are counterexamples. For four of the five a theorem says
  how far the trouble goes: `HeardAgainIsDuplicate`, `ArmedUnlessRearmed`,
  `LongNamesForget`, `OnlyFailedDeletesSurvive`.

## 5. Not modelled

- The bytes of one CBOR item, and the MAC: zcbor and PSA are outside the
  repository. That a truncated tag may collide is not modelled.
- The mock driver's copy of the modem configuration, which it never reads, and
  its empty `test_cw`; the mock sensor, which draws random numbers; logging.
- Subscribers of `ts_lora_in_chan`, which do not exist yet.
- Nodes with different values of `routing_ttl`, though it can be set node by node:
  `is_direct` compares a packet's ttl with the receiver's own, so
  `DirectMeansNeighbour` is about a mesh with one value.
- The wrap of `seen_count` after 2^32 accepted messages: the model counts modulo
  `CountMod`, the run stays below it and the theorems assume it.
- A node with the id 0, which `ts_config_set` accepts: it would look like any node
  that boots.
- Negative readings of humidity and pressure (`ReadingAssumption` of `Link`), which
  the casts to `uint32_t` would change.
- Reads of the configuration without the lock, which are single aligned words.

## 6. Status

All modules of section 2 are written, and every invariant, action property and
refinement of the passing runs is the subject of a theorem.

What could follow: at-most-once delivery for a window, that is, a message whose
copies all arrive within the last `CacheSize` accepted headers is delivered once,
which would carry the promise of `SeenWindow` into the mesh beyond `OnceUntilFull`;
and a mesh whose nodes have different values of `routing_ttl`.
