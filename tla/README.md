# Verification of the mt76-standalone driver (mt7921 USB)

The repository is a Linux Wi-Fi driver: a copy of the mt76 core with the mt7921
front-end on USB. This directory holds TLA+ models of the parts that run
concurrently, keep state over several calls, or pack and unpack what the chip
exchanges with the driver; the TLC configurations that check them on small
instances; and theorems proved with TLAPS for every instance. Line numbers refer to
`src/`. The functions there carry the prefix `standalone_mt76_` (or
`standalone_mt792x_`, `standalone_mt7921_`), which is left out below.

## 1. Inventory

| part | state | operations | interacts with |
|---|---|---|---|
| receive reordering, `agg-rx.c` | per block-ack session a `struct rx_tid`: window head, ring of frames, `nframes`, started/stopped; its delayed work | frame in, BAR in, timer, start, stop | mac80211 starts and stops sessions under `dev->mutex`; receive path under RCU; workqueue |
| worker threads, `util.c`, `util.h` | SCHEDULED and RUNNING bits, kthread park and stop requests, task state | schedule, disable, enable, teardown, setup | URB completions, mac80211, the other workers, the reset |
| USB transmit queue, `usb.c`, `tx.c` | ring with `head`, `first`, `tail`, `queued`, `done` flags, active URBs | queue, kick, complete, reap, stop_tx | tx worker, status worker, host controller, reset, disconnect |
| USB receive queue, `usb.c` | ring with `head`, `tail`, `queued`, active and poisoned URBs | complete, process, refill, stop_rx, resume_rx | rx worker, host controller, reset |
| tx status tracking, `tx.c` | per station an idr from packet id to frame, `wcid_list`, flags in each frame's cb | add, TXS event, DMA done, check and flush, cleanup | transmit path, status worker, firmware events, `mac_work`, station removal |
| MCU channel and chip reset, `mcu.c`, `mt7921/` | `mcu.mutex`, `msg_seq`, `res_q`, MCU_RESET, `hw_full_reset`, `dev->mutex` | send and wait, event in, time-out, reset work | every mac80211 callback, firmware, reset |
| transmit scheduling, `tx.c` | `tx_pending`, `tx_offchannel` and `tx_list` of each station, `non_aql_packets` | pending frames, rounds of txqs, bursts, completion | mac80211's txqs, tx worker, status worker, reset |
| tables of the firmware, `mt7921/main.c`, `mac80211.c` | interface and station indices, keys, sessions, `dev->wcid[]`, what the firmware was told of each | add and remove interfaces, stations, keys, sessions, AP start and stop, channel and association changes | mac80211 under `dev->mutex`, firmware, reset |
| life of the device, `mt7921/usb.c`, `init.c`, `mac.c` | phy and device flags, init, reset and USB reset works, patch semaphore | probe, init work, reset work, suspend, resume, disconnect | USB core, mac80211, firmware |
| off-channel, `mt7921/main.c`, `mcu.c` | STATE_ROC, grant and token, its timer and work; HW_SCANNING, scan events and work | remain on channel, prepare and complete a join, scan, cancel | mac80211, firmware events, reset |
| MCU messages, `connac_mcu.c`, `mt7921/mcu.c` | buffers of TLVs, lists, batches | station records, scans, channel domain, power tables, firmware images, wake on WLAN | firmware |
| descriptors and receive path, `connac_mac.c`, `mt7921/mac.c`, `mac80211.c` | `rx_amsdu`, packet numbers, A-MPDU reference, rates | fill_rx, A-MSDU bursts, PN check, write_txwi, fill_txs | chip, mac80211 |
| accounting, `mac80211.c`, `mt7921/mac.c` | survey per channel, airtime counters per station | update, poll, set_channel | chip counters, mac80211 |
| power and regulatory domain, `eeprom.c`, `regd.c`, `acpi_sar.c` | limits per range and rate, country, disabled channels | SAR, power tables, notifier, update | cfg80211, device tree, ACPI, firmware |
| scan.c, channel.c; connac_pm; dma.c, npu.c, wed.c, mmio.c; testmode.c; debugfs, tracing | - | not reached or not modelled, section 8 | - |

What is hard in this code is listed line by line under `hazards` in
`PROJECT.json`. In short:

* *one lock is not one critical section*: the receive path reads `wcid->aggr[]`
  before it takes `tid->lock`, the senders test the ring before they lock it, the
  status worker tests it after it unlocked, `txq_schedule_pending` drops the list
  lock while it sends;
* *several works and a reset*: the reset parks workers, empties rings that URBs still
  complete into, enables one worker again in the middle, and forgets what the firmware
  knew; suspend, disconnect, a hung bus and init_work cross it;
* *order as a protocol*: receive URBs complete in ring order, transmit frames are
  submitted in ring order, block-ack frames leave in sequence order across the wrap,
  subframes of an A-MSDU in the order of their flags;
* *an answer that never comes, or too late*: MCU events, TXS events, grants, scan
  results, missing frames;
* *one step of several fails*: a station half added, a scan refused, a firmware load
  repeated, a suspend command lost;
* *two descriptions of one thing*: lengths in nested TLVs, a channel in two lists, run
  lengths in a power table, DMA words read past their end.

## 2. How the models are built

* A section under a spin lock is one step when nothing reads the same state without
  the lock in a way that could tell; every lock-free read, atomic bit operation,
  wait, and call-out is a step of its own. In `FwTables` a callback of mac80211 is one
  step: it holds `dev->mutex` while it sends its commands, and each command in it
  succeeds, is refused, or is never answered.
* Frames, packet payloads and firmware messages are model values, ring slots, or
  records of the fields that some branch reads.
* Pure code is modelled by operators. `Messages` makes each builder or parser an
  action that takes an input and keeps it with the output; its invariants say what one
  must be with respect to the other. Inputs of `Accounting` and `Regd` are histories.
* A definition whose comment begins with `Mutant:` is a wrong variant of the one next
  to it. It is used by nothing; put in its place it shows that a property
  is sensitive to that line (`mutants` in `PROJECT.json`).
* *History variables* change nothing in the behaviour: `out` (RxReorder: what the
  last step released), `kicks` (UsbTx), `skipped` (UsbRx), `robbed` and `misled` (TxStatus), `left`
  and `failed` (TxSched), `wiped` and the set `dirty` of entries (FwTables), `silent` and
  `twice` (Offchannel), `told`, `true` and `strayed` of a survey (Accounting). Most record that the code went through one of the faults of
  section 7, after which less is claimed. `of` and `age` of an MCU event say who sent
  its command, and how many commands followed.

| module | models | abstraction |
|---|---|---|
| `RxReorder` | `agg-rx.c` | a frame is its sequence number; time is `Age`, which may let any buffered frame pass its timeout |
| `Worker` | `__worker_fn`, `worker_schedule/disable/enable/teardown/setup` | kthread parking and `wake_up_process` as in their contract |
| `WorkerAbs` | the promise of a worker to its users | - |
| `UsbTx` | `txq_schedule_all` to `status_worker`, `stop_tx`, the reset around it | one AC queue; which station sends is left open |
| `TxFifo` | the promise of that ring: a queue of frames | - |
| `UsbRx` | `alloc_rx_queue` to `resume_rx` | the contents of buffers are left out (`Events` has them); the endpoint completes URBs in the order of submission |
| `RxFifo` | the promise of that ring: buffers go round in order | - |
| `TxStatus` | `tx_status_skb_add/get/check`, `tx_complete_skb`, TXS, wcid life | rates left out (`TxDesc` has them); `old` is "more than 250 ms ago" |
| `Mcu` | `mcu_skb_send_and_get_msg`, `parse_response`, `mac_reset_work`, `mac_reset` | a command is its sequence number; the firmware's loading is one command of the reset |
| `TxSched` | `tx`, `txq_schedule_pending_wcid`, `txq_schedule_list`, `txq_send_burst`, `check_non_aql` | a ring is the sequence of its entries: whose they are, and whether counted; the order of stations on a list is left out |
| `FwTables` | `add_interface` to `sta_remove`, `set_key`, `ampdu_action`, `start_ap`, `bss_info_changed`, `mac_reset_work`'s end | registers, EDCA, rates left out; a table of the firmware is who its entries belong to |
| `Lifecycle` | `usb_probe`, `init_work`, `mac_reset_work`, `usb_reset_work`, `suspend`, `resume`, `disconnect`, `start`, `stop` | each step of a firmware load succeeds or fails; registers left out |
| `Offchannel` | `set_roc`, `roc_abort_sync`, `roc_work`, `roc_timer`, `mgd_prepare_tx`, `mgd_complete_tx`, `hw_scan`, `scan_work`, events | the channel of a request is left out |
| `StaMsg` | station records: nested TLVs of `sta_cmd`, `sta_ba`, `sta_update_hdr_trans` | a TLV is its tag, length and the fields that another part must agree with |
| `ChanMsg` | scans, RNR table, channel domain, rate power batches | a channel is its number and flags |
| `TxPower` | `get_rate_power_limits`, SAR, `ch_power` | whole |
| `FwImage` | `send_ram_firmware`, `load_patch` | bytes numbered by their place in the file |
| `RxFrame` | `mt7921_mac_fill_rx`, `rx_amsdu`, `check_ccmp_pn`, `rx_complete` | fields that change a decision |
| `TxDesc` | `connac2_mac_write_txwi`, `fill_txs`, USB framing, beacon, aggregation start | the same |
| `Accounting` | survey, airtime and signal | division by 1000 left out; a counter of the chip is polled before it has run round |
| `Sleep` | suspend and resume commands of each interface, ARP and ND filters | a feature of the firmware is on or off |
| `Regd` | notifier, `mcu_regd_update`, `channel_update`, power type | a country is a name |
| `Events` | `build_rx_skb`, `queue_rx_skb`, `mcu_rx_event`, coredump | bytes numbered by their place |

`WorkerAbs` is implemented by `Worker` (refinement mapping `Abs` in `Worker`) and `TxFifo`
by `UsbTx` (mapping `Fifo`: the queue is the slots from the tail on, `bus` the active URBs,
`over` the slots marked done and the one being reported), `RxFifo` by `UsbRx` (mapping
`Fifo`: `inbox` is the slots from the tail on, `steady` that the queue runs and no URB was skipped).
The stateful models do not share variables: what one takes from another is an
assumption of its fairness or environment. `TxStatus` assumes that the queue completes every
frame (`EventuallyReported` of `UsbTx`), `UsbTx` that its workers keep the promise of
`WorkerAbs` and become quiet when disabled (`DisabledIsQuiet`), `TxSched` that the ring
frees entries in the end and that full rings wake the tx worker when they do, `FwTables`
and `Offchannel` that a command ends with an answer or an error (`CallsReturn` of
`Mcu`) and that an error without answer leads to a reset in operation (`TimeoutResets`), `Mcu` that
the works around the reset keep to the order of `Lifecycle`. `TxDesc` and
`Accounting` build on `RxFrame`; `Messages` composes the ten modules of pure code.

### Correspondence

*RxReorder.* `tid[t]` is an object that kzalloc returned; `aggr` is
`wcid->aggr[tidno]`; `work[t]` is its delayed work (armed, running up to the
requeue, delivering). `RxDeref` is `rcu_dereference`, `RxLocked` the section under
`tid->lock` of `rx_aggr_reorder` or `rx_aggr_check_ctl`; `WorkFire`, `WorkRequeue`,
`WorkDone` are `rx_aggr_reorder_work`; `Call`, `Shutdown`, `CancelBegin`, `CancelEnd`,
`Alloc` are `rx_aggr_start` and `rx_aggr_stop`. `Reclaim` is the end of the RCU grace
period: not while the receive path holds the object.

*Worker.* `pc` follows the loop of `__worker_fn` between its atomic operations,
`tstate` is the task state. `call[c]` is where a caller of `worker_schedule` is
between `set_bit`, `test_bit` and `wake_up_process`. A worker is torn down when no
caller is left, as `usb.c` does.

*UsbTx.* `head`, `first`, `tail`, `queued` are the fields of the queue, `done` the
flags of its entries, `flying` the active URBs. Two senders run
`txq_schedule_all`: the tx worker and, in a reset, the reset itself
(`mt7921/usb.c` 94). `ctl` walks through `mac_reset_work`, `mac_reset` and `stop_tx`,
or through the disconnect. `reset` and `up` are STATE_RESET and STATE_RUNNING.

*UsbRx.* `fifo` is the sequence of URBs the endpoint holds, `held` the URB the worker
has taken out, `poisoned` those that refuse submission.

*TxStatus.* `pktid[w]` is the idr, `listed` the stations on `wcid_list`, `published`
those in `dev->wcid[]`, `leaving` those between `sta_pre_rcu_remove` and
`wcid_cleanup`. `place` is where a frame is: with mac80211, prepared (before and after
its call of `tx_status_skb_add`), freed by `skb_adjust_pad` (`Free`) before and after its id is
released (`Release`), dropped when `tx_setup_buffers` fails (`SetupFails`), in the ring, waiting
for its status. `misled` is set by a lookup that meets a freed frame; the model rests from there.

*Mcu.* `at[c]` is where a sender is in `mcu_skb_send_and_get_msg`; `fw` the commands
the firmware may still answer; `step` the position of the reset, which takes
`dev->mutex`, sets MCU_RESET, purges `res_q`, stops the receive queues, resets the
chip, resumes the queues and loads the firmware with commands of its own; any of these may fail
(`StartFails`, `LoadEnds`), or the bus is found hung before the first (`BusHung`). `phase`
has the conditions under which `mt792x_reset` refuses: the driver not yet initialised
(`hw_init_done`), the device suspended (`pm->suspended`).

*TxSched.* `list` is `phy->tx_list`, `ring` the entries of the hardware queue, oldest first, `pend` the frames of `tx_offchannel` and
`tx_pending`, `frames` those of the station's txq, `active` and `round` what mac80211's
scheduler still offers in this round, `count` is `non_aql_packets`, `st` the status
worker's frame between the free and `check_non_aql`. The senders are the tx worker
and the reset; `pc`, `loc` and `cur` follow `txq_schedule_pending` and
`txq_schedule_list` from one lock to the next.

*FwTables.* `vif`, `sta`, `mask`, `wcid` are the driver's tables, `fw` the firmware's;
`fw.dirty` holds the entries whose last command failed, that were lost, or that nobody
takes back. One action per callback, with all its commands (`start_ap` has three);
`LeftOn` marks what stays on for an AP that is not started, and `Unmarked` leaves keys and
an AP's own record without a mark: of these commands only the effect and the answer
matter. `ResetDev` and `ResetIter` are the end of `mac_reset_work`, whose
`vif_connect_iter` runs for one interface after the other, outside the mutex.

*Lifecycle.* `core` is the call the USB core makes, `stage[w]` where init_work and
reset_work are, `bits` the flags they test and set, `sem` the patch semaphore, `usb` the
life of a requested USB reset: work queued, pending in the interface, queued in the USB
core, or lost.

*Offchannel.* `roc`, `timer`, `work` are STATE_ROC with its grant and token, `roc_timer`
and `roc_work`; `ctl` is the callback that waits in `set_roc` or aborts; `rx` the receive
worker inside `uni_roc_event`; `granted`, `fwscan`, `done` what the firmware has sent or
will; `mac` and `macscan` what mac80211 waits for.

*RxFrame.* `FillRx` is what `mac_fill_rx` and `check_ccmp_pn` decide of one descriptor. The
packet number of a frame is compared with the counter `PnIndex` names: that of its TID, or 16 for
a management frame without To DS. One with To DS uses that of TID 0, as a frame without a TID does.

*Accounting.* `air` is the channel the chip is on and `cur` the one the driver takes it to be on:
`__set_channel` keeps the new one when its command fails. A command that is lost leaves the chip
where it was, one whose answer is lost has moved it. `told` books each tick under `cur`, `true`
under `air`; a tick with the two apart puts both channels in `strayed`, from where
a channel returns when it is cleared.

## 3. Runs

| run | instance | distinct states, time | shows |
|---|---|---|---|
| `reorder` | 8 numbers, window 4, session starts at 6, two objects | 892k, 80 s | `WindowInv`, `TimerInv`, `FreedIsQuiet`, `InOrderRelease` |
| `reorder_live` | 6 numbers, window 2, one object | 6k, 70 s | `EventuallyReleased` |
| `worker` | two callers, one control context | 1k, 2 s | `NoLostWakeup`, `DisabledIsQuiet`, `KeepsPromise` |
| `usb_tx` | ring of 4, reserve of 2, refused submissions, resets, removal | 102k, 95 s | `SubmittedInv`, `KeepsFifo`, `QuietInReset`, `EventuallyReported` |
| `usb_rx` | ring of 4, protocol errors, failed refills | 4k, 3 s | `OneOwner`, `KeepsOrder`, `UrbsReturn` |
| `tx_status` | 3 frames, 1 station, 2 ids, 2 preparing contexts | 130k, 125 s | `StatusIsTracked`, `EventuallyReported` |
| `mcu` | 2 clients and the reset, 3 sequence numbers, 2 events, 2 loads | 107k, 150 s | `OwnAnswer`, `CallsReturn`, `TimeoutResets` |
| `fw_tables` | an AP with a station, a STATION interface with its AP and a TDLS peer, 2 entries, 1 fault, 1 reset | 1.0M, 60 s | `OneOwnerPerIndex`, `FirmwareAgrees`, `WipedPeersGo` |
| `lifecycle` | 2 tries of each load, 5 faults | 30k, 6 s | `LoadsAreOrderly`, `HungBusIsReset`, `EveryResetEnds` |
| `offchannel` | 2 ROCs, 2 scans, 1 reset | 201k, 80 s | `RocBitIsTemporary`, `ScanCompletesOnce`, `EveryRequestEnds` |
| `tx_sched` | 2 stations, a frame in each queue, ring of 2, limit of 1, 1 trouble | 1.0M, 60 s | `ThrottleIsSound`, `WaitingIsServed`, `NoStall` |
| `messages` | every combination of the values that branches tell apart | 84k, 150 s | `RecordsAgree`, `ListsAreComplete`, `PowerIsLimited`, `ImageArrives`, `FramesAreWhole`, `DescriptorAgrees`, `TimeIsCountedOnce`, `SleepIsUndone` |

### Bounds

* *reorder*: the session starts two before the wrap, so every window of a run
  crosses it. Numbers half the space away are "less", so 8 numbers with window 4
  have frames before, in, at the end of and beyond the window. Two objects are what
  one tid can have at a time: the current one and the one in its grace period; a
  third only repeats the second. Equal object names make a symmetry.
* *usb_tx*: four slots with a reserve of two: both senders can pass the lock-free
  test on the last free slot and fill the reserve (the real values are 256 and 32).
  `NotStale` (a state constraint of `MCUsbTx`) cuts a behaviour off when stop_tx has
  left `q->first` behind: section 7 describes that state, and no property is claimed of it.
* *usb_rx*: four slots: one taken by the worker, waiting ones and flying ones on
  both sides of the wrap.
* *tx_status*: ids `First..Last` are one fewer than the frames, so the idr runs full and
  ids are used again; two contexts prepare frames at a time, so a lookup can fall into the window of
  the other's failed preparation.
* *mcu*: `NumSeqs` = 3 makes the numbers wrap after two commands; `MaxEvents` bounds
  commands not yet answered and events not yet read; `Tries` bounds the loads of
  the firmware, ten in the code. A hung bus ends the reset for good here: what follows
  is in `Lifecycle`. `UsbTx` leaves the number of retries unbounded.
* *fw_tables*: `WtblSta` = 3 leaves two entries for three peers, so the table runs full
  and an index changes owner. `MaxFaults` = 1: one command refused or unanswered at any
  place of any callback; an unanswered one makes all that follow fail until the reset. `MaxExtras` = 1 bounds keys and sessions
  that exist together: they interact only with the entry they hang on.
* *lifecycle*: ten tries are two: the first one that fails and the last. Five faults let
  all tries of both works fail, and one more.
* *offchannel*: two ROCs are the one whose grant is late and the one that meets it; tokens
  differ as long as fewer than 256 were handed out. A third scan could only repeat what the
  second does to events of the first.
* *tx_sched*: a ring that stops at one frame, a limit of one: full, stopped and throttled
  are each reached with one frame more. `OneInTrouble` (a state constraint of `MCTxSched`): two stations
  share the ring as long as nothing goes wrong; after a trouble (a reset, a station
  that leaves, a frame that cannot be prepared) those behaviours are followed in which
  only one is served.
* *messages*: numbers are scaled so that each limit is passed: two entries in an RNR
  table, four bytes in a piece of firmware, surveys of four events on two channels, 32 for 2^32 airtime units with "half full" at 8.
  The channel tables, TLV sizes, rate tables and power rows have their real sizes.

### Fairness

Weak fairness is given to what the kernel runs by itself: worker threads, the
workqueue, timers, a context that already is inside a function and neither sleeps nor
waits, the host controller (an active URB completes, with an error at the latest when it is
killed), the passing of time (`Age`, time-outs). Strong fairness is needed where
a step is enabled only now and then but cannot be passed over for ever:

* In `Mcu` and `Offchannel`, for those who wait for a mutex: a Linux mutex hands itself
  over to a waiter that is starved.
* In `UsbTx`, for a sender's run to end: mac80211's queues are empty now and
  then or the ring is full when the sender looks; a worker that never returned would
  keep `worker_disable` waiting.
* In `Lifecycle`, for the USB core's unbinding of a device whose reset it has queued: it
  cannot be put off by suspend and resume for ever. Of mac80211 it is assumed that it stops an
  interface whose device is being unregistered, as `ieee80211_unregister_hw` does, and
  that a stop that was begun ends.

Nothing else is assumed of users, of mac80211's calls, of the peer, of the firmware's
answers, or of unplugging. Most liveness properties say that something is given back without
them. `Offchannel` assumes that the firmware's scan ends, or the chip is reset.
`FwTables`, `TxSched` and `Messages` claim no liveness and state no fairness.

Deadlock is checked in every run but `offchannel`: with its requests used up that model
rests, as the code does when nobody asks for the radio.

## 4. Properties

* `WindowInv`: each buffered frame is in the slot of its number, strictly inside the
  window, and `nframes` counts them. The in-order path, the timer and the shutdown
  loop all trust that counter.
* `TimerInv`: a frame in the buffer of a session that is not stopped always has its
  delayed work armed or about to be requeued. `FreedIsQuiet`: the object given to
  `kfree_rcu` has no work, no frame and no way to be found.
* `InOrderRelease`: frames leave in order and at most once (`InOrderStep`), and never
  otherwise than by being handed over or by the shutdown (`KeptStep`).
* `NoLostWakeup`, `KeepsPromise`: a request made between the thread's test and its
  sleep, or while it is about to park, is served. `DisabledIsQuiet` is what stop_tx and
  stop_rx rely on.
* `SubmittedInv`: `head - first` is the number of frames not submitted, although
  `first == head` may also mean a full ring; only the reserve, tested without the lock,
  rules that out. `KeepsFifo` is the refinement of `TxFifo`: no frame is submitted twice or
  before an older one, none is freed while its URB is active, and one that waits is dropped
  only by stop_tx with no URB active. The drop may end the promise (`sane`, section 7).
  `QuietInReset`: nothing is queued or submitted while the chip is reset, though
  stop_tx enables the tx worker in the middle.
* `OneOwner`: URBs complete at `q->head` (`RingOrder`), and none is submitted twice,
  whatever fails. Stop and resume restore the order after any fault. `KeepsOrder` is the
  refinement of `RxFifo`: the worker gets the buffers in the order of their completion, none
  leaves the round before something goes wrong (`steady`), and after stop_rx no URB is active
  and the worker is out of the ring.
* `StatusIsTracked`: the idr and the frames agree, so that a frame
  is reported once; `tx_status_check` finds every station with
  pending frames; nothing refers to a station that may be freed. All of it until a lookup
  meets a frame that a failed preparation has freed (`misled`, section 7).
* `OwnAnswer`: a command takes only its own answer, unless all numbers were used
  meanwhile. `CallsReturn`: nobody deadlocks between `dev->mutex`, `mcu.mutex` and the
  reset. `TimeoutResets`: a command without an answer in operation leaves a reset
  requested or in progress, and each reset gets past the reset of the chip, or finds the bus hung,
  which `HungBusIsReset` takes up. During the initialisation and in suspend nothing is requested.
* `ThrottleIsSound`: `non_aql_packets`, counted outside the queue's lock, clamped at zero
  and kept with an index that changes owner, never throttles a station for frames that
  are gone. `WaitingIsServed`: a frame's station is on a list, in mac80211's schedule, in
  a sender's hands, or throttled by a frame whose completion revives it.
  `NoStall`: when the tx worker sleeps, nothing that it could send waits, unless the ring
  is full or its last run met an error.
* `OneOwnerPerIndex`: an index has one owner from `sta_add` to the end of
  `sta_remove`, in the driver, in what it has published, and in the firmware.
  `FirmwareAgrees`: whatever is refused, left early or lost in a reset, the firmware's
  tables are the driver's, but for entries whose own last command failed and what stays
  on for an AP that is not started, until the next command for it.
  `WipedPeersGo`: a STATION interface whose AP the firmware forgot is disconnected.
* `LoadsAreOrderly`: two works never load firmware at once, the firmware starts
  only after its patch semaphore was given back, no work outlives the device.
  `HungBusIsReset`: a hung bus, which makes the driver refuse all other resets, always has a
  USB reset on its way, unless the USB core refused it. `EveryResetEnds`: after a
  reset the driver accepts the next, also when all tries have failed.
* `RocBitIsTemporary`: STATE_ROC, which refuses every further ROC, always has
  somebody to clear it. `ScanCompletesOnce`, `EveryRequestEnds`: cancellation,
  event, timer and reset between them complete each request once.
* `RecordsAgree`: the lengths and counters in nested TLVs let a reader find every TLV, the
  buffer has room, and the parts that describe one fact twice agree.
* `ListsAreComplete`: every channel of every band is sent once and the last one is marked, a
  scan asks for what it was asked, the firmware is told each country that was accepted.
* `PowerIsLimited`: every rate is within target and table, whatever the run lengths.
* `ImageArrives`: each byte of each part that is downloaded is in its place and nothing else
  is, no piece is longer than what was announced, and only the last command starts anything.
* `FramesAreWhole`: an A-MSDU is handed over whole or not at all,
  no descriptor word is read past the transfer, no frame passes with an old packet number.
* `DescriptorAgrees`: the descriptor says of a frame what its header says, and the rate
  written is the rate read back. `TimeIsCountedOnce`: a tick of the air is in one
  channel's survey, that of the channel the driver believes in, and in one airtime report; for a
  channel that no failed switch led astray it is the time the chip spent there. `SleepIsUndone`: what suspend set, resume
  clears, but for a lost command and the neighbour filter.

## 5. Proofs

TLAPS checks the proof modules for every value of the constants, under the assumptions
named in the modules they extend.

* *RxReorderProofs*: an even number of sequence numbers, at least 4; window sizes between 2
  and half of them; any number of session objects and starting numbers. `IInv` adds to `TypeOK`: each object is `Sound` (`nframes` is
  the number of occupied slots), `CtlInv` (what a stop in progress has already done to
  the object it works on, and that a stopped object is empty), `TimerInv` and the
  quietness of freed objects. For these the sizes need not divide the space. `TypeOK` alone is not
  inductive: that `nframes` stays below `size` needs the count of occupied slots, and
  that no path holds a reclaimed object needs the grace period. The proof goes section
  by section: every release leaves a buffer that is `Drained` (a part of what it was),
  which is all that the timer and lifetime arguments need to know of it. Results:
  `TypeCorrect`, `TimerNeverLost`, `FreedObjectsAreQuiet`. The second half of the module is about
  windows and needs `Aligned`: every size divides the space. With another size the invariants
  are false (`agg-rx.c` 224, section 7), and TLC shows it when a size of 3 is put
  among 8 numbers. `Windows` says of each object that its frames are strictly inside the window;
  in the middle of a section the head may also stand on a frame. The proof rests on arithmetic:
  two numbers of one window never share a slot (`SlotIsUnique`), and a slot found from
  the head holds the head's own number. Results: `WindowIsExact` and, because
  each release walks from the head through the window, `ReleaseIsInOrder`.
* *CoreProofs*, on `Worker`: any set of callers. `IInv` is `TypeOK`, `NoLostWakeup` and
  `CtlInv` (how far the thread must be at each step of a disable, enable or teardown). Results:
  `NoWakeupIsLost`, `DisabledWorkerIsQuiet`, and `Refinement`: every step of the worker is
  a step of `WorkerAbs` or leaves it unchanged.
* *CoreProofs*, on `Messages`: inputs of any length, of the types that
  `HistoriesAssumption`, `FramesAssumption`, `SleepsAssumption` and `ImagesAssumption` give. `MsgInv` says of each
  kind of message what the lemmas show of the operator that made it. The work is in
  the folds: `FoldLeft` and `FlattenSeq` choose a function that satisfies an equation, so first
  that one exists (`FoldExists`, by well-foundedness of the naturals), then that it is a
  run from one prefix to the next (`Prefix`, `Run`), then an invariant of
  one step. For `TimeStaysCounted` the invariants are `Surveyed` (the survey and the
  time since its last reading sum up to the time that passed) and `Polled` (the same of a counter of
  the chip, modulo its width, and of what an association cleared). `DescriptorsAgree` needs none: its
  lemmas go through the fields of the descriptor, the rates of a band, and what a status event reads
  out of a rate. For `SleepsAreUndone` a run of the firmware is summed up by what
  came through (`ObeyEffect`), and every command is there once per interface (`OneEach`, kept
  when the sequences of two interfaces are put together). For `ImagesArrive` the device is
  followed command by command (`OneMore`): the pieces of a part add up to it (`Sends`, with
  `Ceiling` for their number), the parts to the image (`Installs`, whose invariant is `Filled`), and up to
  any command but the last the device stays `Quiet`, which covers every place where the download may
  break off. `ImagesAssumption` asks that no two downloaded parts of an image overlap.
* *DriverProofs*, on `Lifecycle`: any number of tries and faults. `LifeInv` adds to `LifeTypeOK` and
  `HungBusIsReset`: `InitIsFirst` (resets are accepted only when init_work has nothing left
  to load: this keeps the two loads apart, with no lock between them), `TriesLeft` (a
  loop that goes on has tries left, which keeps the counters typed), `RamIsReleased` (RAM
  is downloaded without the semaphore, so a firmware that starts does too) and
  `ResetIsAlone` (`hw_full_reset` is set exactly while a reset runs before its last
  stage, and a hung bus leaves it set). A corollary of the last part: the branch of
  `mac_reset_work` that finds `bus_hung` set when it starts is not reached, because a hung
  bus refuses the request. Results: `LoadsStayOrderly`, `HungBusStaysWatched`.
* *MainProofs*, on `Offchannel`: any number of ROCs, scans and resets. `IInv` adds to `TypeOK`:
  `GrantIsTimed` (a ROC that was granted has its event, the timer or the queued work to end
  it, and no longer depends on the callback that waits for the grant; one that was not
  has the callback) and `ScanIsKnown` (HW_SCANNING is set only for a scan mac80211 has
  begun and not seen completed, which is why no second completion finds it set). `RocBitIsTemporary`
  alone is not inductive: the callback leaves after a grant, and only the second part of
  `GrantIsTimed` says that somebody else is there by then. Results:
  `RocBitStaysTemporary`, `ScansCompleteOnce`.
* *MainProofs*, on `FwTables`: any interfaces, peers, sizes of the tables, and any number of
  faults and extras. `TablesInv` has two parts. `DriverInv` is about the driver alone: the types,
  `IndicesOwned` (the mask and `dev->wcid[]` are those of the interfaces and peers that
  are up), `PeersInOrder` (how far a peer has come agrees with its interface) and `WipedPeersGo`. `FwInv`
  is about the firmware. It says more than `FirmwareAgrees`: that an entry
  is right when its last command succeeded has to be known of peers being added too, and
  a monitor entry that is left over must be dirty, or the next owner of the index
  would inherit it. A callback is a chain of commands, of which each either fails, changes nothing
  and makes its entry dirty unless that is `Unmarked`, or has its effect (`AnswersAre`); the chains are followed with
  this fact only, one lemma for each callback. Results: `IndicesHaveOneOwner`, `TablesAgree`,
  `WipedPeersLeave`.
* *UsbRxProofs*, on `UsbRx`: rings of any length from two, with any faults. `IInv` adds to `TypeOK` and
  `RingOrder`: `HeadIsLast` (the head is `queued` slots behind the tail, so a completion adds
  exactly its URB to the waiting ones), `Apart` (the endpoint's URBs, the waiting ones
  and the worker's are pairwise distinct, whatever fails) and `StopGoesOn` (what each step of
  stop_rx has reached: the worker is idle before the first URB is poisoned, and a poisoned one
  is not submitted). `RingOrder` alone says nothing once an URB was skipped, and `Apart` needs
  `HeadIsLast` to place a completed URB and a free slot for it: the completed one was not
  waiting, so not all were. Sums of indices stay below twice the length, where the remainder
  is a case distinction (`Wrap`). For the refinement the waiting URBs are a sequence that grows at the head
  (`LineGrows`) and shrinks at the tail (`LineShrinks`); every step is one of the queue or a stutter.
  Results: `UrbsHaveOneOwner`, `RingKeepsOrder`.
* *UsbTxProofs*: rings of any length above `FreeThr`, which leaves a slot for each of the two
  senders, with any faults. `IInv` adds to `TypeOK`: `RoomInv` (a frame in a sender's
  hands finds a free slot, so the ring is never full and `head` tells an empty from a filled
  one), `CtlInv` (what stop_tx and its caller have reached at each step: the workers are out
  of the ring before the URBs are killed, and nothing is offered from then on) and `OrderInv` (the
  `s` oldest slots are in flight or done, the others wait, and `first` stands between them unless the
  device is gone).
  `SubmittedInv` alone is not inductive: it says nothing of a device that is gone, and the kick
  of a full ring needs `RoomInv`. A step moves `s`: a kick up to the head, a report or drain down by one. Once the
  device is gone the drain overtakes `first`, but nothing is in flight any more. For the refinement
  the slots in use are a sequence (`Up`) that grows by one at the head (`UpGrows`) and shrinks by one at
  the tail (`UpShrinks`); what is in flight is a prefix of it less what is through
  (`BusIsPrefixNext`), and each step is one of the queue or a stutter (`StepIsFifo`). Results:
  `RingStaysInOrder`, `RingKeepsFifo`, `ResetIsQuiet`.
* *TxProofs*, on `TxStatus`: any numbers of frames, stations, packet ids and contexts. `IInv` adds to
  `TypeOK`: `FrameInv` (what each place says of a frame: one that has an id is in the idr,
  or has its status, or was robbed of the id; only a frame whose DMA is done and
  that lacks its status waits), `OwnedInv` (what the idr refers to is a frame with
  that very station and id and without a status) and `ListInv` (a station with entries is
  listed, and a listed one is published or leaving). The three lean on each other: a status
  finds a frame by `OwnedInv` and makes `FrameInv` for it; the cleanup of a station empties
  it by both. All three hold only up to the first lookup of a freed frame (`misled`), where the
  behaviour is undefined. Result: `StatusStaysTracked`, for the four parts of `StatusIsTracked`.
* *TxProofs*, on `TxSched`: any stations, frames, ring, limit and number of troubles. The three
  properties are not inductive: `NoStall` speaks of a worker at rest only, and
  `WaitingIsServed` of lists but not of the sender between two of them. `SchedInv` adds
  `CountInv` (a station's count is at most its counted entries in the ring), `EntryAtHand` (whose
  entry the status worker has), `ListsSpliced` and `AtHand` (what a sender holds, and where), `PendingInv`
  and `TxqIsOffered` (who comes to serve each queue, a sender in the middle of a station included),
  `ResetInv`, and `QuietInv`: while nothing has been scheduled since the
  worker began, what it has already passed is empty, or the ring is stopped. Results:
  `ThrottleCountsFrames`, `NobodyIsForgotten`, `WorkerRestsWhenDone`.
* *UsbRxProofs*, on `Mcu`: any number of contexts, at least three sequence numbers, any number of loads
  and faults. `McuInv` adds to `McuTypeOK`: `MutexInv` (mcu.mutex keeps one command at a time
  between its number and its return, so the number waited for is the last one given) and
  `EventsFit` (the number of an event tells how many commands ago it was asked for, up to
  a cycle; one of age 0 is the waiting command's). `OwnAnswer` follows: a matching number
  is of age 0 or of a whole cycle. Result: `CommandsTakeOwnAnswer`.
* *DriverProofs*, on `Messages`: any power tables, limits, stations and sessions of the types
  that `PowersAssumption` and `RecordsAssumption` give.
  Power: the driver walks along run-length blocks with a pointer and a count, the property
  says which block covers a row. `Walked` relates the two: after i rows the pointer stands
  at the block that covers row i, or past the last, the rows before have their block's
  entry, the others still the target, and the maximum is that of the entries so far. `TargetBounded` follows the bounds one after the other, of which each can only
  lower the target (`SarRuns` for the loop over the SAR ranges). Result: `PowerStaysLimited`.
  Records: a list of TLVs `Fits` when its tags are a given set, each there once, and its bytes are
  at most a given bound. Lists of disjoint tags add up (`FitsBoth`), and appended to a record they
  move its counter and its lengths by what they hold (`AddsAll`, `AddsAllNested`). The rest is which TLVs a station gets,
  and that two of them say the same of it (`StaRecordAgrees`, `BaRecordsAgree`,
  `TransReads`). Result: `RecordsStayAgreed`.
* *ListProofs*, on `Messages`: lists of any length, of the types that `ListsAssumption` gives.
  A batch of the power table is a cut of a band's channel list; cuts that meet make one (`CutsMeet`,
  `BandJoins`), and a load that breaks off has sent a prefix (`PowerSent`). A scan splits
  its request in two parts that put together are the request (`ScanAsks`). The RNR table grows by BSSIDs that are
  not in it, and by all of them while there is room (`RnrGrows`, `RnrIsWhole`). `EnabledRuns` and `SettledRuns`
  make the selections of channels and addresses runs through their lists. The
  history of a country needs that the domain after k notifications does not depend on later ones
  (`RegdPrefix`); then what holds after the last accepted one is kept by each that is refused or
  comes while nothing changes (`CountryTold`). Result: `ListsStayComplete`.
* *ListProofs*, received frames: runs of any length of any descriptors that `RxDescriptor` allows
  (`ReceptionAssumption`). The proof takes the history h of the run: h[k] is the state after k
  frames. `Handed` says of a frame in the queue or in the output that it is what `fill_rx` made of
  its descriptor in the state before it. `RxInv` is the invariant of the run, kept frame by
  frame (`ReceiveKeeps`): `QueueInv` (what is held and what is released is `Handed`, in the order of
  arrival, and every good frame is there or was refused with its A-MSDU; a burst is one
  A-MSDU), `GoesOn` (what is held is an A-MSDU that goes on) and `WholeInv` (an A-MSDU that has begun and not met an error is the
  queue's head, subframe for subframe, or stands whole in the output). Without `WholeInv` the invariant
  says only that frames of one burst belong together, not that none is missing. `CompleteHolds` is a second run, through the bursts:
  the number kept for a key and a tid is the largest that was validated. `ReferencesAgree` needs
  that two references in a row differ, also when the counter skips zero: hence `RefMod > 2`.
  Of a transfer `TakesAll` shows that the buffers are taken one by one until no byte is left;
  of a dump `Gathered` says which parts have been put and that they fill it; of the signal
  `SignalKeeps` bounds what three decibels per chain can add. `FramesInv` collects what is known of each
  kind of message. Result: `FramesStayWhole`.

## 6. What is only model-checked

Every safety property of the runs is a theorem. All liveness is left to TLC:
`EventuallyReleased` of `RxReorder`, the
fairness of `WorkerAbs` in `KeepsPromise` (its safety part is `Refinement`), `EventuallyReported` of `UsbTx` and `TxStatus`,
`CallsReturn` and `TimeoutResets` of `Mcu`, `UrbsReturn` of `UsbRx`, `EveryResetEnds` of
`Lifecycle`, `EveryRequestEnds` of `Offchannel`. Liveness under fairness and ENABLED are out of the
prover's reach. Induction over data is, too, in the form of the library's theorems, which take an
operator; the proofs do it with sets instead (`LeastNat` of `CoreProofs`: a set of naturals that is not empty has a
least element), which costs a set and a lemma for every fold: those named `...Runs` say that a
fold is a run from one prefix of its sequence to the next. No module uses a RECURSIVE operator.

The theorems about `Messages` hold for every input of the types that its assumptions name. What these
leave out is written at each: among others the wrap of the power delta (section 7), regions of an image that
overlap, two interfaces with one index, and a counter that runs round between two readings.

## 7. Observations

Disagreements and doubtful places met while modelling. The properties are stated so
that they hold of the code as it is: where one of these is reachable in a model, the
comment of the property, a history variable or an input set says what is left out.

*Receive.*
* `agg-rx.c` 224: the slot is `seqno % size`; with a size that does not divide 4096 two
  numbers of one window share a slot at the wrap, and `release_head` hands over the frame found
  in the head's slot without looking at its number. `MCRxReorder` uses sizes that divide.
* `usb.c` 616: a failed refill leaves the loop with one URB taken out of the ring
  and never submitted: "rx urb mismatch" refuses all later completions until the queue
  is stopped and resumed. The same happens after -EPROTO, on which `complete_rx` (566-567)
  returns without moving the head. `skipped` records both.
* `mac80211.c` 920: the first subframe of an A-MSDU is held until the next frame of the queue,
  also over a stop; subframes of two stations with one sequence number would join if a first
  one were lost.
* `mac80211.c` 1336-1338: only management frames without To DS have a packet number counter of
  their own; with To DS they use that of TID 0, so of two management frames the one with the
  lower number passes when their To DS bits differ. `PnsGrow` speaks of one counter.
* `connac_mac.c` 1117: `mode & HE_EXT_SU` tests bits, so any HE or odd mode at 40 MHz with bit 5 of the
  rate set counts as a 106-tone unit; the HE index is not bounded by 11. `fill_rx`'s signal
  loop bounds an index with the weight of the antenna mask, and `rx_signal` depends on the order of
  the chains.
* `mt7921/mac.c` 159: the acknowledgement signal of the fourth chain is taken from a field of 18 bits.

*Transmit.*
* `usb.c` 1029: when a submission failed for another reason than -ENODEV and a reset
  follows, stop_tx frees the frames that were not submitted but leaves `first` where it
  was. The next kick submits their URBs (`NotStale`).
* `usb.c` 999-1002: `stop_tx` parks the status worker, which alone empties the queues, and
  then waits up to 200 ms for them to be empty.
* `usb.c` 862-874: when `tx_queue_skb` fails its callers drop the frame's pointer. When it is
  `tx_setup_buffers` that fails (872), the frame is not freed and its packet id not released: the
  id is taken until the station is flushed: the status check passes over frames whose DMA is not done.
* `mt7921/mac.c` 808-811: `skb_adjust_pad` has freed the frame (`tx.c` 877) when its packet id is
  removed, without `status_lock` and without looking whose it is by then (`robbed`). Between the
  two the idr refers to freed memory, which a status check, a flush or a TXS event reads:
  what follows is undefined (`misled`).
* A TXS event that comes late may be taken for that of the next frame with the same id:
  `idr_alloc` hands out the lowest free one (`tx.c` 150).
* `standalone_mt792x_core.c` 180-190: the wcid of a vif link is cleaned up without a grace period.
* `tx.c` 727: `txq_schedule_pending` puts a station back on the list only when both of
  its queues hold frames; a txq skipped because of RESET (582) comes back only when
  mac80211 wakes the queues (`left`).
* `tx.c` 433-475: `release_buffered_frames` queues to the PSD ring without the
  `MT_TXQ_FREE_THR` test. It is not reached: no station gets MT_WCID_FLAG_CHECK_PS.
* A VHT station's short guard interval flag is lost at each TXS; the fixed rate of a
  frame without vif is CCK 1 Mb/s on every band, and that of a frame sent off channel is chosen by
  the interface's channel; the TXD of a beacon names 32 bytes more than the packet has.

*Tables.*
* After a reset the stations of an AP are not told to the firmware again (`mt7921/mac.c` 638).
* `start_ap` that fails at `set_bss_pm` leaves the BSS enabled, and at `sta_update` the beacon
  monitoring too, for an AP that mac80211 takes as not started (`mt7921/main.c` 1352-1360); `stop_ap` with
  a failed `set_bss_pm` leaves the BSS active; a reset turns on the BSS of every AP interface, started
  or not (`mt7921/mac.c` 645-650), all in `LeftOn`; a failed `sta_add` keeps its index; removing a TDLS peer clears the AP's
  `wep_sta`; `add_interface` sends the wcid index before it sets it.
* A disconnect asked for by the reset is ignored while the station is still authenticating.
* For a 6 GHz BSS `sta_add` and `sta_remove` take `dev->mutex` twice (`mt7921/main.c` 805,
  `regd.c` 84).

*Times.*
* `mac80211.c` 1050-1060: `__set_channel` changes `chandef` and `chan_state` before the firmware is
  asked and does not restore them. After a switch that did not reach the chip its time is booked
  to a channel it is not on, and `mac_reset_counters` is not called (`strayed`).

*Life of the device.*
* `standalone_mt792x_mac.c` 272-278: a command that times out before `hw_init_done` or while
  `pm->suspended` is set asks for no reset; `mt7921/mac.c` 681-683 leaves `hw_full_reset` set when the bus is
  hung, and only the reset of the USB device ends that.
* `mt7921/mac.c` 698: the end of reset_work clears `pm->suspended` while suspend flushes it.
* `standalone_mt792x_usb.c` 411, 417: usb_reset_work can be scheduled by reset_work after
  disconnect has cancelled it; reset_work is not cancelled when the interface is down, and the queues
  are freed under it; a disconnect before init_work leaks the device (412).
* `mt7921/init.c` 152-162: when the thermal device or debugfs fails, the registered device never
  accepts a reset.
* A reset while the interface is down sets RUNNING and queues mac_work, which nothing
  cancels; `stop` cancels mac_work before reset_work, whose restart queues it again
  (`standalone_mt792x_core.c` 148); a time-out of `set_mac_enable` in stop queues reset_work again.
* scan_work and roc_timer are not cancelled before the device is freed;
  `mac80211.c` 788-792 registers the device before the tx worker exists.
* The USB core refuses a reset of a sleeping device, and nothing asks again
  (`usb.lost`); `init_reset` (`standalone_mt792x_usb.c` 384) wakes the MCU waiters without setting
  MCU_RESET.

*Off-channel.*
* `uni_roc_event` does not look at the token; `mgd_prepare_tx` ignores -EBUSY, and
  `mgd_complete_tx` and `sta_remove` end another's ROC without `remain_on_channel_expired`
  (`mt7921/main.c` 1453, 897; `silent`).
* `scan_work` does not look at `seq_num`: a stale SCAN_DONE completes a newer scan (1042); the reset
  aborts a scan begun since, without the mutex (`mt7921/mac.c` 688); suspend cancels
  scan_work and leaves its events listed.
* A channel switch uses one `dev->new_ctx` for all interfaces (1479).

*Messages, power, regulatory domain.*
* The number of channels of a scheduled scan is cut to a byte; the RNR table may get an entry
  with a zero BSSID; TDLS peers are given the aid of the interface.
* The sum of padding 127 and a positive delta wraps in an s8 (the inputs leave it out); a disabled
  channel's target is 127; `set_tx_sar_pwr(NULL)`, at each update with ACPI SAR, replaces the
  user's limits; the maximum is -127 when no row was below its target.
* Resume does not clear the IPv6 filter that suspend has set, and neither looks at errors.
* A country noted while the USB device sleeps is not sent at resume; a failed update drops the
  request, and a repeated notify of the same country is ignored; a notify of the known country
  resets the channels' flags without `channel_update`.
* With contexts in the firmware all survey time goes to the first channel; time between
  the read and the clear of an airtime counter is lost.

## 8. Not modelled

* `scan.c` and `channel.c`: built into the library; no operation of mt7921 calls them.
* `connac_pm` (`connac_mac.c` 36-200): never enabled on USB, and debugfs refuses to.
* `dma.c`, tokens, `npu.c`, `wed.c`, `mmio.c`: no front-end in this repository uses them.
* Power save of stations and the PSD ring: the chip buffers for sleeping stations.
* Test mode: mt7921 names commands whose file the repository does not have.
* Capability tables, LEDs, tracing, debugfs, EDCA, register sequences: single writes or output.
* Firmware commands of other chips than mt7921 (`connac_mcu.c` holds many), CLC tables (not
  loaded on USB), radiotap fields of HE frames, low power events.
* The delivery of frames to mac80211 after `agg-rx.c` has dropped its lock: the two
  deliveries race in mac80211, outside the repository.
* A composition of the USB rings, the scheduler and the reset in one state space: each is already
  of the size TLC finishes; section 2 says what they assume of each other.

What would come next: abstract specifications of `Mcu` (a channel of requests and answers)
and of `TxStatus`, and proofs that the modules implement them.
