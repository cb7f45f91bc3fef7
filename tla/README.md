# EtherCrab in TLA+

EtherCrab is an EtherCAT MainDevice: it sends frames of PDUs (datagrams) through
a segment of SubDevices and hands the replies back to asynchronous application
code. This directory models the parts of the crate whose correctness depends on
interleavings, faults and boundaries, checks them with TLC on small instances
and proves the most important properties with TLAPS for every instance. Paths
below are relative to the repository root.

## 1. The system

| Part | State | Operations | Talks to |
|---|---|---|---|
| PDU loop (`src/pdu_loop/`) | an array of frame slots, each with an atomic status, first PDU index, buffer and waker; counters for slots and PDU indices; exit flag; waker of the driver | `alloc_frame`, `push_pdu`, `mark_sendable`, poll and drop of `ReceiveFrameFut`, `first_pdu`, `into_pdu_iter`, `next_sendable_frame`, `send_blocking`, `receive_frame`, `reset` | application futures on one side, the driver on the other, through the slots only |
| Drivers (`src/std/`) | a socket, the halves `PduTx` and `PduRx` | `tx_rx_task` and its poll | PDU loop, operating system |
| Timers (`src/timer_factory.rs`) | deadline of a request | timer, timeout | futures of the PDU loop and waits for states |
| Process data cycle (`src/subdevice_group/mod.rs`) | PDI behind a read-write lock, lengths of inputs and of the PDI | `tx_rx`, `tx_rx_sync_system_time`, `tx_rx_dc` | PDU loop; PDI guards through the lock |
| PDI guards (`src/subdevice/pdi.rs`) | a held lock | `inputs_raw`, `outputs_raw`, `io_raw`, `outputs_raw_mut`, `io_raw_mut` | the cycle, through the lock |
| MainDevice (`src/maindevice.rs`) | number of SubDevices, DC reference | `init`, `single_pdu`, `wait_for_state`, `release`, `release_all` | all |
| Group states (`src/subdevice_group/mod.rs`) | typestate of the group, AL state of the SubDevices | `into_safe_op`, `into_op`, `request_into_op`, ... | commands |
| FMMU and PDI layout (`src/subdevice/configuration.rs`, `src/fmmu.rs`, `src/sync_manager_channel.rs`, `src/pdi.rs`, `src/subdevice_group/handle.rs`) | next logical address, ranges of every SubDevice | `configure_fmmus`, `write_fmmu_config`, ... | EEPROM or CoE for the sizes, the cycle for the result |
| CoE mailbox (`src/mailbox/`) | mailbox contents in the SubDevice, mailbox counter | SDO read and write, expedited, normal and segmented | commands |
| EEPROM (`src/eeprom/`, `src/subdevice/eeprom.rs`) | byte position in a range, busy and error flags of the device | `read`, `write`, `write_word`, search of categories | commands |
| Distributed clocks (`src/dc.rs`, `src/subdevice/ports.rs`) | ports, parents, propagation delays | `assign_parent_relationships`, `configure_dc`, `configure_dc_sync` | commands |
| Wire format (`ethercrab-wire*`, headers, registers, vendors, error tables) | none | pack and unpack | everyone |

What is hard, and what makes each part correct:

* *PDU loop*: several threads store into one status, some without looking at it.
  A slot must have one owner, come back to the pool, and carry its owner's
  request out and its reply in; no wake-up may be missed on the way, whatever
  times out, is dropped, lost, late or sent again, and the driver must stop when
  the MainDevice is released.
* *Process data*: a cycle takes several frames and may fail between them while
  other threads use the same memory. What a successful cycle reports must be
  what was exchanged, outputs must arrive whole and never be overwritten, and a
  cycle must end.
* *Group states*: the states of many SubDevices change on their own; a group
  must not be said to be in a state that some member is not in.
* *Layout*: ranges of SubDevices and groups must be disjoint and be where the
  FMMUs put them.
* *Mailbox*: one mailbox per SubDevice, late replies and concurrent transfers.
* *EEPROM*: byte positions over a word-addressed device, limited retries.
* *Distributed clocks*: the tree is guessed from the ports; parents and delays
  must be those of the real tree.

`PROJECT.json` lists all parts with their status, and under `hazards` what is
hard to test, at its line, with the property that would catch it.

## 2. Modules and plan

| Module | Part | Checked by | Proofs |
|---|---|---|---|
| `PduLoop` | frame slots, futures, driver, release | `PduPreempt`, `PduCoop`, `PduThreads`, `PduRelease`, `PduUseAfterFree` | `PduLoopProofs`, `PduCoopProofs` |
| `ProcessData` | the cycle of a group and the guards of its PDI | `ProcessDataCycle`, `ProcessDataNoDc` | `ProcessDataProofs` |
| `DistributedClocks` | ports, parents, delays, offsets | `DcTopology` | `DistributedClocksProofs` |
| `Mailbox` | SDO transfers and the SDO information service | `Mailbox` | `MailboxProofs` |
| `EepromStream`, `EepromRange`, `SubDeviceEeprom` | what a range of the EEPROM promises, how it is read and written, what it is used for | `Eeprom` | `EepromProofs` |
| `Groups` | `init`, groups, layout of the PDI, states, SYNC0 | `Groups` | `GroupsProofs` |
| `Wire`, `WireTypes`, `WireCodec` | the derive macro, the types of the crate, a user of both | `Wire` | |
| `Commands`, `Frames` | the bytes of a frame from `push_pdu` to the reader | `Wire` | |

How they fit together: `PduLoop` says who owns a slot and when, `Frames` what is
in it; `ProcessData`, `Mailbox`, `EepromRange` and `Groups` use a request as one
step that is answered, lost or fails after its effect, which is what `PduLoop`
and `Frames` show of it. `EepromRange` implements `EepromStream` and is extended
by `SubDeviceEeprom`. `Frames` is written with the operators of `Wire`, so that
its headers are packed and read by the modelled macro. `Groups` takes from
`ProcessData` only that a cycle exchanges the PDI, and hands it the layout it
assumes. Each `MC*` module gives one of them its constants.

`SequenceFacts` holds the facts the proof modules share: what `\o`, `Append`,
`Tail` and `SubSeq` do to lengths and elements, that a set of naturals has a
least element, that a recursion over 1..n has a solution, what a function that
rises from one number to the next does, and division with remainder. Least elements stand for induction: a claim
about all n follows from looking at the least n for which it fails.

Next: `PduService`, what the PDU loop promises to a caller of `single_pdu`, as an
abstract specification that `PduLoop` implements.

## 3. PduLoop: frame slots shared without locks

`PduLoop.tla` has one action per atomic access to the shared storage, together
with the private work up to the next access, so that actors interleave where
threads can.

| Model | Code |
|---|---|
| `status`, `first_pdu`, `buf`, `waker` | `FrameElement` (`frame_element/mod.rs`) |
| `frame_idx`, `pdu_idx`, `exit_flag`, `tx_waker` | `PduStorageRef` (`storage.rs`) |
| `pc`, `slot`, `fut`, `was`, `woken` | an application future: its place, `ReceiveFrameFut`, the status read by the failed swap, what the executor knows |
| `StartRequest` .. `TaskWakeSender` | `alloc_frame`, `CreatedFrame` and its drop, `wake_sender` |
| `PollRegister`, `PollSwap`, `PollPending`, `PollTimeout`, `PollRetry`, `PollRewake`, `DropFuture` | `ReceiveFrameFut` |
| `FirstPduCheck`, `IterRead`, `DropReceived`, `ClearFirstPdu`, `ReadPdu` | `ReceivedFrame`, `ReceivedPdu` |
| `TxPoll` .. `SendFails` | `TxRxFut::poll` and `PduTx` |
| `RxTake` .. `RxWake` | `PduRx::receive_frame` |
| `Release`, `ReleaseWake`, `ResetCounters`, `ResetSlot` | `MainDevice::release`, `release_all`, `PduStorageRef::reset` |
| `net`, `Lose` | the segment (external): replies in order, possibly lost |

A frame is abstracted to whether it is a request or a reply, the index of its
first PDU and the request it belongs to. `Sched` says which actors share a
thread: all (`"coop"`), the tasks on one and the driver on another
(`"driver"`), or nobody (`"preempt"`, as in the crate's own multi-threaded
tests). Atomics are sequentially consistent in the model; weaker orderings of
the hardware are not modelled.

### Runs

| Run | Setting | Checks |
|---|---|---|
| `PduPreempt` | all on own threads, 1 slot, 2 tasks, timeouts, 1 retry, drops | `PduInv`, `SlotOwnerUnique`, `ReceivedFrameIntact`, `NoInvalidFrameState`, `NoLostWakeup`, `NoLostSend` |
| `PduCoop` | one thread, 1 slot, 2 tasks with 2 requests each, 3 indices, 1 retry, every fault | `NoSlotLeak`, `ReadsOwnReply`, `SendsRequests` |
| `PduThreads` | application thread and driver thread, 2 slots, frames of up to 2 PDUs, no faults, no timers | `EveryRequestAnswered` |
| `PduRelease` | the same with a failing driver, release and restart | `OnlyHolderFrees`, `DriverStops`, `EveryRequestEnds` |
| `PduUseAfterFree` | own threads, single PDUs | violates `ReadsOwnReply` |

*Bounds.* Everything that goes wrong in this protocol needs one contended slot
and two parties with an old and a new claim on it: with one slot and two tasks
each slot is reused while late stores of TX and RX are outstanding; with two
slots the search for free slots and the scan of the driver have a before and an
after. One retry gives a frame that is sent twice. `PduMod` stands for 256. In
`PduCoop` it is 3 for four requests on one slot, so that a slot is given back and
claimed again by the other task while late replies are under way, and the index
goes round to one that a late reply still has.

*Shared indices.* `receive_frame` has nothing but the index of the first PDU to tell
replies apart. When a frame gets an index that another frame or a reply under way
has, no code could give both their own; `clashed` is the history of such requests,
and `ReadsOwnReply` is about the others. It does not excuse the rest: a request
whose own index was free gets its own reply, whoever had its slot before, whatever
index others share, and however often the index went round or was reset.

*Fairness* (`FairSpec`): weak fairness of each task, of the two halves of the
driver and of a release: threads are scheduled and executors poll what was
woken. `TimerExpires` is weakly fair because timers fire. Nothing forces a
request, a drop, a release or a restart of the driver. `EveryRequestAnswered`
is checked with timers that never fire, so that it shows that no wake-up is lost,
not that a timeout papers over it; `EveryRequestEnds` with timers, because the
driver may be dead.

`NoSlotLeak` and the others of `PduCoop` are checked under that schedule because
they do not hold when every actor has its own thread: see section 11.

### Proofs

`PduLoopProofs.tla` proves, for every number of slots, tasks, retries and PDUs,
every schedule and every set of faults:

* `TypeCorrect`: `Spec => []TypeOK`;
* `PduInvariant`: the inductive invariant `PduInv`, from which follow
  `UniqueOwner`, `NoPanic`, `PollStatesCovered`, `WakeupNotLost`, `SendNotLost`;
* `HolderFrees`: the action property `OnlyHolderFrees`.

No property is inductive alone. That two tasks never hold one slot needs that a
held slot is never `None` (`HeldStatus`), since only then does the swap of
`alloc_frame` fail. That needs to know who may store into a held slot: TX stores
`Sent` without looking, which is harmless only because while TX has a store to
make the slot has not got past `Sending` (`TxClaim`); so a slot in
`RxProcessing` is never overwritten and the `unwrap` in the drop of a
`ReceivedFrame` cannot panic. `WakerRegistered` says that an unwoken task that
has registered its waker has it in its slot and that a reply which came after
its last look is about to be announced; `SenderRegistered` says the same of the
driver for the slots its scan has passed. The assumptions used are those stated
in the module: the number of slots is a power of two below 256, checked by
`PduStorage`, and the index has more values than there are slots.

`PduCoopProofs.tla` proves the properties of the run `PduCoop` for `Sched = "coop"`,
one executor thread, and again every number of slots, tasks and requests:

* `CoopInvariant`: `CoopInv`, that is `PduInv` with `OneRuns` (an actor between two
  awaits is the only one), `StatusKept` (so it finds a slot in the state it saw or
  stored: TX still `Sending`, RX still `RxBusy`, a future still what its last swap
  returned), `NoSlotLeak` and `RequestKept` (a frame holds the request until the
  reply is copied into it);
* `SlotsReturn` (`NoSlotLeak`) and `RequestsAreSent` (`SendsRequests`), whatever
  times out, is dropped, fails to be sent or is released. `SendsRequests` is
  `RequestKept` where TX sends; `NoSlotLeak` needs `StatusKept`, since the slots that
  leak on several threads do so when a store lands after the state has changed;
* `RepliesReachOwner`: `ReadsOwnReply`, with any number of indices, requests and
  releases. The invariant (`OwnReplyInv`) follows the index of every request that is
  not in `clashed`: no other frame in flight has it, a reply with that index, under
  way or being received, answers the request, and so does what was copied into its
  slot or read from it. A push that takes an index in use marks all who have it, so
  that nothing is asked of the number of indices.

The exception is needed: `release` sets the index to 0 while replies are under way,
and after 256 PDUs it wraps; a reply late enough then meets a new frame with its
index. The code has no other check (section 11).

## 4. ProcessData: the cycle and its lock

| Model | Code |
|---|---|
| `pdi`, `writer`, `readers` | `SubDeviceGroup::pdi`, a lock_api `RwLock` |
| `pdi_len`, `read_pdi_len`, `len` | the group after `configure_fmmus`: any layout |
| `total_bytes_sent`, `total_checks`, `time`, `time_read`, `lrw_wkc_sum`, `subdevice_states` | the locals of a cycle of those names |
| `frame` | the `CreatedFrame`, then its reply: bytes used, clock PDU, chunk, state checks |
| `LockWrite`, `WriteOutput`, `UnlockWrite`, `LockRead`, `UnlockRead` | the guards of `subdevice/pdi.rs` |
| `StartCycle` .. `TopExit` | a call, its lock, the exit of `tx_rx` |
| `AllocFrame`, `PushChunk`, `PushCheck`, `EmptyExit`, `SendFrame` | the body of the loop up to the await |
| `ProcessReceivedPdiChunk`, `ProcessReply` | the body after it |
| `Exchange`, `Tick`, `Timeout` | the segment and the PDU loop (external) |
| `written`, `given`, `chunks`, `clocks` | history, read by properties only |

The three functions are one action sequence with `kind` for their differences:
where the exit is, and whether the first frame starts with the clock. An output
byte is the number of the guard that wrote it and an input byte the time it was
sampled, which is all the properties tell apart. `Timeout` is every way a
request ends without its reply, a dropped future included. A frame must have
room for the registers that initialisation reads (`FrameAssumption`).

### Runs

`ProcessDataCycle` runs two threads that start two cycles, write once and read,
with every layout of 0 to 3 bytes and 0 to 2 SubDevices. A frame has room for 4
bytes with an overhead of 1, so that a PDI of 3 bytes fits one frame but not
beside the clock, a chunk may straddle inputs and outputs, and checks spread over
frames; `MaxChecks = 0` makes the limit of 128 checks per frame bite. The faults
are a timeout at any frame, no free slot, and SubDevices that do not answer
(working counter 0). One write suffices for torn outputs (old and new bytes), two
cycles for a cycle that meets another's lock or leftovers.

* `CycleInv`: the inductive invariant;
* `InputsDelivered`: a cycle that succeeds with the full working counter leaves
  exactly the inputs the segment gave in it;
* `OutputsDelivered`: after it the SubDevices have the outputs as the last guard
  left them;
* `OutputsKept`: only guards change outputs;
* `StatesComplete`: the states returned are those of all SubDevices, in order;
* `ClockOnce`: the DC variants distribute the clock exactly once;
* `CycleEnds`: every cycle returns.

`ProcessDataNoDc` shows `tx_rx_sync_system_time` deadlocking on its own lock on
a network without a DC reference.

*Fairness*: each thread runs, frames are answered or time out (both are steps of
`CycleStep`), guards are dropped, and `SF` of `LockCycle`: a thread that spins
for the lock gets it if it is free again and again. The spin lock alone does not
promise that against readers that come for ever; the assumption is that they
leave gaps which the spinning thread meets.

### Proofs

`ProcessDataProofs.tla` proves `CycleInvariant` and from it `InputsAreFresh`,
`OutputsAreWhole`, `OutputsSurvive`, `StatesAreComplete` and `ClockIsSentOnce`,
for every layout, frame size, number of tasks and every fault. `CycleInv` says
who holds the lock (`LockInv`: so at most one task is in a cycle, and no guard
writes meanwhile), that the outputs are those of the last guard when none is in
use (`WriteInv`), that a cycle starts clean (`LocalsInv`), that the chunk in the
frame continues where the last ended and that a frame with neither chunk nor
clock means the PDI is done (`FrameInv`), that if the working counter has kept
up with the chunks all bytes before `total_bytes_sent` have been exchanged
(`DataInv`, and `ReplyInv` for the chunk under way), that the checks so far are
those of the first SubDevices (`StatesInv`) and that the clock is in the first
frame only (`ClockInv`). The proof has one lemma per action of a cycle; steps
outside a cycle cannot touch its state because of the lock. The action
properties follow because a cycle can only succeed in three ways, each of which
implies that everything was sent.

## 5. DistributedClocks: the tree behind the ports

`configure_dc` knows of every SubDevice which ports are open and when one frame
passed them. From that it finds each SubDevice's parent, the port it is on and
its propagation delay, and writes delay and clock offset into it.

| Model | Code |
|---|---|
| `n`, `last`, `entry`, `port`, `link`, `clock`, `dc` | the segment (external): a tree, numbered the way frames reach it, so that the subtree of `d` is `d..last[d]` |
| `Transit`, `BackAt` | when the frame of `latch_dc_times` is where (external) |
| `dc_receive_times`, `downstream_to` | `Port` of `ports.rs`, by index in the order 0, 3, 1, 2 |
| `dc_receive_time`, `parent_index`, `propagation_delay` | `SubDevice` |
| `deaf` | the commands a SubDevice gets but misses, with nobody noticing (external): the broadcast that latches the times, the read of `DcReceiveTime`, the two writes |
| `LatchDcTimes`, `LatchFails`, `PortTimesOf`, `ReceiveTimeOf` | `latch_dc_times` |
| `FoundParent`, `AssignFirst`, `AssignChild`, `AssignStops` | a turn of `assign_parent_relationships`: `find_subdevice_parent`, `assign_next_downstream_port`; `Error::Topology` and the panic |
| `DelayTo` and the propagation times | `configure_subdevice_offsets` and the functions of `Ports` it calls |
| `WriteDcParameters`, `WriteFails` | `write_dc_parameters`, a command that is lost |

Of the commands only the read of the port times is checked for an answer
(`dc.rs:51`). The read of `DcReceiveTime` and the two writes use `ignore_wkc`
(`dc.rs:45`, `99`, `107`), and the broadcast is sent with a `send` that does not
look at the working counter it was given (`dc.rs:30`). A SubDevice that misses the
broadcast answers with what it latched earlier (`OldLatches`), one that misses the
read of the time leaves the zero that was sent, and one that misses a write keeps its
register: `configure_dc` goes on and returns Ok. A command that is *lost* is an error.

The search is guesswork, so the properties say where it is right. The real tree
is in the model's state but no action looks at it except through the open ports
and the times.

* `ParentsFound`: the parent found is the real one *exactly* where no junction
  lies between the two. A junction inside an earlier branch is taken instead,
  even if all its ports are in use.
* `TopologyAccepted`: the search never ends without a parent.
* `ClocksAgree`: SubDevices with DC support, entered by port 0, rightly placed,
  not on the last port of a cross and without a wrap of the time, which have all
  latched theirs, agree on the time, whatever their clocks showed and wherever the
  forks are. One that misses a command of its own has a wrong time and is excepted,
  though `configure_dc` returns Ok; the others must not suffer from it.

`DcTopology` checks these over every tree of up to six SubDevices on every
choice of ports: five is the least for a fork inside a branch of a fork, six for
a search that finds all ports of the wrong parent in use. In trees of up to four
(`OddDevices`, enough for every kind of junction) one SubDevice may be odd:
without DC support, entered by port 1, with a clock that wraps while the frame
is under way (`TimeMod` stands for 2^32), or deaf to one of the four commands, with
nothing or other times latched before. Any command may be lost at any SubDevice.
Cables of 1, 2, 4, 8 and 16 tell every sum of delays apart; equal ones make for ties. `configure_dc` ends, so
there is no deadlock check and nothing to be fair about. Of the parents found
wrongly, and of delays outside the conditions of `ClocksAgree`, section 11 speaks.

### Proofs

`DistributedClocksProofs.tla` proves `ParentsAreFound` and `TopologyIsAccepted`
for every number of SubDevices, tree and wiring. A SubDevice after the end of a
line hangs on one further up, which then has two children, hence three open
ports, because children are on ports of their own: so there is a junction to be
found, and the last one is right exactly if it is not between the two. The
invariant `ParentInv` adds to the two properties that the segment is a tree
(`SegmentOK`) and where the search is (`SearchOK`).

`ClocksDoAgree` proves `ClocksAgree`, for every tree, wiring, entry ports, cables and
clocks, from one assumption on the cables: a frame is back within one round of the
port times (`RoundTripAssumption`; 2^32 ns are 4.3 s, far more than a frame may
take before it is given up). Any SubDevices may be deaf to any of the commands, with
anything latched before. The invariant `ClockInv`, which TLC checked on the
run's instance, says of a segment that is regular so far that

* `PlacedOK`: the ports assigned are those the SubDevices before `i` are really on,
  and the running sum is the time at which the frame comes to the last of them;
* `DelaysOK`, `WrittenOK`: the delays noted are the transit times, and those written
  with the offsets are what was noted and latched (`TimesOK`), as far as the SubDevice
  took what was sent to it.

`ClocksAgree` needs both parts of `PlacedOK`, as the code reads the time at the port
it assigned and adds to the sum what it computes. The argument has four lemmas:

* `PortTimes`: the time at a port is that at the entry port and twice the cables
  behind the ports up to it, without a wrap, because the entry port shows the least;
* `DelayIs`: every one of the six branches of `configure_subdevice_offsets` but the one
  excepted computes the cables from the parent `p` to `i`, branches between included;
* `TransitNext`: this is how much later the frame comes to `i` than to the SubDevice
  before it, because the branch between is a line: a junction in it would have been
  found as the parent, and a third branch is on the port of a cross that is excepted;
* `NextIsPort`: `next_assignable_port`, which counts from the entry port's index over
  the active ports, returns the port `i` is on.

Sums of delays over sets of SubDevices are a recursive function; that they add up
(`SumUnion`) is shown for the least prefix for which they would not.

## 6. Mailbox: transfers that share one mailbox

`Mailbox.tla` has one SubDevice with an IN and an OUT mailbox, any number of
tasks that call it, and a step for every access to the bus, because the code
awaits each of them and others run meanwhile.

| Model | Code |
|---|---|
| `mb_in`, `mb_out` | the mailboxes behind the sync managers of the SubDevice |
| `mailbox_counter`, `NextCounter` | `SubDevice::mailbox_counter` |
| `Call` | `sdo_write`, `sdo_write_array`, `sdo_read`, `sdo_read_expedited`, `sdo_read_array`, `sdo_info_*` up to their first access |
| `CheckOut`, `ClearOut`, `CheckIn` | `wait_for_mailboxes` |
| `WriteIn`, `AwaitOut`, `Fetch` | `mailbox_write_read` and `wait_for_mailbox_response` |
| `FetchSdo`, `ValidateResponse`, `Respond`, `Uploaded`, `UploadedSegment`, `NextRead`, `NextWrite` | the checks of a response and what each call does with it |
| `FetchInfo` | `send_sdo_info_service` |
| `TimesOut`, `BusFails` | the two timeouts; a command that fails before or after its effect |
| `od`, `pending`, `upload`, `DevTake`, `DevAnswer`, `DevEmergency` | the SubDevice (external): it executes a request when it takes it and answers as late as it likes |
| `quiet`, `serial`, `taken`, `lastReq` | history, read by properties only |

A byte of an object is the object, its value and the position of the byte, so
that a property can tell whose bytes a call returns. Responses are cut where the
code cuts them: a segment loses three bytes that way, and what lies behind the
message follows it (`Garbage`). The request is written with a `send` that does not
look at the working counter (`coe/mod.rs:200`, `334`): if another task's request is in
the IN mailbox it takes nothing, and the call goes on to wait for an answer.

The run `Mailbox` checks

* `OwnAnswer`: if nobody else is at the mailboxes and the exchange before left no
  request with the SubDevice, the response that is fetched answers the request
  that was sent, because old ones were cleared;
* `AnswersObject`: whatever else is in the mailboxes, a read that is not
  segmented returns bytes of the object it asked for (and nothing protects a
  segmented one: segments carry no address and the toggle bit is not checked);
* `ArrayConsistent`: a write of an array that fails half way does not leave an
  array that announces entries of two writes;
* `Acknowledged`: a write that returns Ok has been carried out;
* `CounterSeparates`: requests that follow each other differ in their counters,
  unless `CounterMax` or more counters were taken in between;
* `EveryTransferEnds`: every call returns or panics.

*Bounds.* Two tasks, of which one makes the calls of several requests and the
other the rest, two calls between them: enough for a late answer to meet the next
call of the same task, or the call of another. `CounterMax = 3` stands for 7 and
wraps within a run, `ClearTries = 2` for 10: one response and one emergency use
them up. Arrays of two entries have a first and a last, `ValueLen = 8` with
segments of 7 makes two segments with the last one short. One emergency.

*Fairness*: weak fairness of the steps of each task, the timeouts included.
Nothing is asked of the SubDevice, which may never answer.

### Proofs

`MailboxProofs.tla` proves the five safety properties for any number of tasks and
calls, every size of arrays, values and segments, and every fault. Three
invariants carry them, all checked by TLC on the instance of the run first:

* `DataInvariant` (`DataInv`): what every request and response on its way looks
  like (`MessagesInv`), and what a call in an exchange has collected and asked for
  (`CallInv`). `ReadsAnswerObject` follows: a response is accepted only with the
  address of the request, so the bytes a call has put together so far are of its
  object, and the confirmation of a download has none.
* `QuietInv`: while a task has the mailboxes to itself, the SubDevice has nothing to
  do until the request is written, `mb_out` is empty but for an emergency when the
  clearing ends before its last attempt, and from then on only the request and its
  answers are on their way. `OwnAnswer` (`FetchesOwnAnswer`) is the last of these.
* `SerialInvariant` (`SerialInv`), as long as every request was quiet: the array
  announces no entries while they may differ, and not once the request in the IN
  mailbox is carried out either (`ArrayInv`); the entries below the step of a write
  are written (`WrittenInv`); a confirmation under way means that the download was
  done (`ConfirmInv`). `ArrayStaysConsistent` and `WritesAcknowledged` follow. What a
  request that failed has left in the mailboxes is why `ArrayInv` has to look ahead.

`CountersSeparate` has an invariant of its own (`CounterInv`): a counter is the
sequence number of its request less a multiple of `CounterMax`, in 1 to
`CounterMax`; two equal ones are that many requests apart.

## 7. Eeprom: a stream over a word-addressed device

Three modules. `EepromStream` is abstract: a range delivers the bytes that follow
the last ones, as many as were asked for or are left, and a write changes words
of the range only. `EepromRange` has the registers: a command, the wait while
busy, the data, a step each. `SubDeviceEeprom` extends it by the calls.

| Model | Code |
|---|---|
| `reader`, `NewRange`, `Skip`, `Read`, `ReadByte`, `Write` | `EepromRange` (`eeprom/mod.rs`) |
| `sii`, `data`, `ClearErrors`, `StartRead`, `WaitRead`, `FetchChunk`, `WaitIdle` .. `WaitWrite` | `DeviceEeprom` (`eeprom/device_provider.rs`) |
| `Begin`, `SearchCategory`, `NextItem`, `NextEntry`, `StringCount`, `StringLength`, `GeneralDone`, `FmmusDone`, ... | `SubDeviceEeprom` (`subdevice/eeprom.rs`), with `ItemLen` from the types |
| `HeaderDone`, `AliasDone`, `ChecksumDone` | `set_station_alias` |
| `mem`, `DevRead`, `DevStore`, `DevRefuse` | the SubDevice (external) |
| `BusFails`, `TimesOut`, `Intrude` | a lost command, the timeout, another task at the same registers |

*Refinement.* `Stream == INSTANCE EepromStream WITH pos <- ..., end <- ...`: the
position of the stream is where the operation began, since `byte_pos` moves with
every chunk while the bytes are delivered at once. `StreamSpec` is the abstract
specification as a property of the detailed one: chunks of 4 or 8 bytes at word
addresses are put together to any bytes of the range, from odd positions and up
to the end. The other properties of the run `Eeprom`: `ReadsDescription` (what a
call returns is what the EEPROM was made of: lists, PDOs with the sums of their
entries, strings without their zeros and with `?` for bytes that are not ASCII), `ChecksumHolds` (the header has the right checksum between two
calls, if it had it before, no write of it failed half way, and `write` is used for
what follows the header only) and `CallEnds`.

The commands to the registers are sent unchecked as well, but what follows each is a
read of the status that is checked, so a SubDevice that is gone is an error
(`BusFails`); one that is there and takes only some of the commands is not modelled.

*Decoding.* The bytes of the general category, of a sync manager and of an FMMU are
refused if a flag or a usage in them has no name (`GeneralDecodes`, `ItemDecodes`,
`FmmusDecode`; the other records take any bytes). `ReadsDescription` says when: a call
returns an error exactly if the part it reads is refused, or the general category is
missing and the call is not one that lives without it (`Refused`).

*Bounds.* Five EEPROMs: one with everything, one with flags, a usage and a sync
manager that do not decode and empty strings, a blank one, one of zeros, and one with
a category longer than the address space. 17 calls, then `set_station_alias`, chunks
of 4 and of 8 bytes, two faults. `MaxRetries = 1` stands for 20, `FirstCategory = 8` for 64;
addresses keep their 16 bits. `MCCrc` is a checksum that tells the headers apart,
as any CRC would. A computation that overflows panics, as in builds that check.

*Fairness*: of the task and of its timeouts, none of the SubDevice.

### Proofs

`EepromProofs.tla` proves for every image of the EEPROM, every sequence of calls and
every fault

* `RangeIsStream`: the refinement, `Spec => StreamSpec`. The invariant `EepromInv`
  (`EepromInvariant`) says where an operation on a range is and what it has
  (`StageInv`: a read never has more than was asked for, a word is stored only
  inside the range), that an undisturbed read has the bytes of the memory before its
  position and finds those of its word in the registers (`CleanInv`; an intruder, or
  a command still going on after a timeout, ends this), and which operation a call
  waits for (`CallInv`). Every step of the registers is then a stutter of the
  stream, and the last one delivers.
* `HeaderStaysChecked`: `ChecksumHolds`. `ChecksumInv` follows `set_station_alias`
  through its read of the header (`HeadInv`), the write of the alias with the sum of
  the header to come (`AliasInv`), and of the checksum with the sum of the header
  that is there (`SumInv`), and says that no other word is on its way into the
  memory (`PendingInv`).

* `ReadsWhatIsStored`: `ReadsDescription`. `DescriptionInv` has three parts.
  `AskedInv`: the words on their way into the memory are of the header, unless a
  `write` came, and after one no description is read. `StoredInv`: hence the
  description is still in its categories. `PlaceInv`: an undisturbed call is at one
  place of the description, a category of the chain, an item, an entry or a string,
  has the list of what comes before it, and awaits the bytes or the chunk of that
  place (`Awaits`); it ends at the last one with the whole list.
  Hypotheses: `DescriptionsStored` (every memory holds its description, if it has
  one: `IsStored` says where the chain of categories and each item and string are),
  `WritesComeLast` (no call on the description follows a `write`) and categories that
  begin after the checksum.

All take as a hypothesis that the checksum of a sequence of bytes is a byte
(`CrcIsByte`), as the `crc` crate's type says; the second one also the conditions of
`ChecksumHolds`, `HeadersChecked` and `WritesSpareHeader`. `MCSubDeviceEeprom` assumes
these and those of the third one, with the places of its EEPROMs written out, and TLC
evaluates them. The invariants were checked by TLC before they were proved.

## 8. Groups: from the first frame to the cycle

`Groups.tla` is `MainDevice::init` followed by the tasks of the groups, over
SubDevices that keep their registers, refuse states, leave them and are plugged
in and out.

| Model | Code |
|---|---|
| `Count` .. `Address` | `init`: `count_subdevices`, `reset_subdevices`, the addresses |
| `NewSubDevice`, `ConfigureDc`, `AssignGroups` | `SubDevice::new`, `configure_dc`, the groups in order of their first SubDevice |
| `ConfigureMailboxes`, `AssignToPdi`, `RequestPreOp`, `PreOpReached` | `configure_mailboxes` of each SubDevice with the owner of its EEPROM, the offset of the next group |
| `WaitForAll` | `MainDevice::wait_for_state`, a broadcast read |
| `CheckPreOp`, `ConfigureSm`, `WriteFmmu`, `SubDeviceDone`, `DirectionDone` | `configure_fmmus`, `configure_pdos_coe`, `configure_pdos_eeprom`, `write_fmmu_config` |
| `TransitionTo`, `RequestState`, `PollFrame` | `transition_to`, `request_into_op`, `wait_for_state`, `is_state` |
| `ConfigureDcSync`, `DcProgram`, `DcActivate`, `DcDone`, `TxRxDc` | `configure_dc_sync` and the arithmetic of `tx_rx_dc` |
| `InitFails`, `GroupFails` | an error at any await; a group is taken by value, so it is lost |
| `ring`, `al`, `ask`, `DevAnswers`, `DevFalls`, `Unplug`, `Plug` | the segment (external) |

Reads are checked for their working counter, so that they need exactly one SubDevice
at the address (`One`). What is sent with `send` is not, even where `with_wkc` was
called: the station address, the owner of the EEPROM and the settings of SYNC0 reach
whoever has the address, and nobody notices if that is no one (`Takes`). The sync
managers and FMMUs are sent so too; the reads around them stop a configuration whose
SubDevice is gone.

Lengths are those of the code: bits are added up in 16 bits (`SmBits`; `Wrap` is
2^16), rounded up to bytes in 16 bits (`BytesOf`), and the length of an FMMU is
extended in 16 bits. A sync manager is enabled if its EEPROM says so and it has data
(`SmConfig`, `configuration.rs:144`); an FMMU is mapped to it in any case.

* `LayoutSound`: every sync manager lies, through exactly one FMMU, at its place
  in the segment of its SubDevice, has its length if its EEPROM enables it, inputs
  come before outputs, the PDI fits, and no two FMMUs of any groups claim the same
  logical address. Segments are compared with the true number of bits, not with the 16
  bits the code computes with. For groups laid out once since the reset, of a network
  nobody left;
* `InitComplete`: when `init` returns, every SubDevice of the network has an
  address of its own, is in a group under it, in PRE-OP without error, and has
  given its EEPROM back, also after an `init` that failed;
* `TransitionReached`: a transition that returns has seen every SubDevice of the
  group in the state it asked for since it asked, provided that no other SubDevice
  has its address (section 11);
* `SyncPhase`: the wait that `tx_rx_dc` returns ends `sync0_shift` after a pulse
  of every SubDevice of the group and one period after the wait before, and SYNC0
  is activated before its first pulse if the start delay is long enough.

*Bounds.* Three SubDevices in two groups, in an order that mixes the groups, and
two in another. One has CoE and two sync managers that share an FMMU, one of them not
enabled by the EEPROM, one is configured from its EEPROM and has an empty sync
manager, one is alone. PDIs of
bits that fill up bytes, with oversampling. One state check per frame, so that a
poll takes several frames. `init` twice, so that the second one meets the
registers of the first, two events (failures, refusals, plugging), one of two
applications: transitions in both groups, or SYNC0. Periods and clocks of a few
units suffice for every remainder. `Wrap` has its real value and is not reached by
the PDOs of the run; what is below it is what the theorem is about. The run has no
deadlock check: applications
stop calling.

### Proofs

`GroupsProofs.tla` proves `InitCompletes` (`InitComplete`), `TransitionsReached`
(`TransitionReached`) and `CyclesKeepPhase` (`SyncPhase`) for every network, number of groups, number of calls of `init`
and history of failures, refusals and SubDevices plugged in and out. The invariant
`GroupsInv` (`GroupsInvariant`), which TLC checked on the instance of the run, has

* types, with a ring in which no SubDevice is twice (`DevicesOK`, `MainDeviceOK`,
  `GroupsOK`);
* `AddressInv`: the addresses of the SubDevices found are their positions, and no
  address is in two groups or twice in one. For this `AssignGroups` must not take a
  SubDevice twice: what `Pick` selects keeps the order of the sequence, shown for
  its least prefix for which it would not;
* `TransitionInv`: while a group asks for a state, the SubDevices already asked have
  a history that starts with the state they were in when asked (`Asked`); while it
  polls, those before the one polled were seen in the state (`Found`);
* `ProgressInv`: how far `init` has come as long as nobody left: which SubDevices
  have their address, which are known, that all known ones are in a group when the
  groups are made, and that the MainDevice owns all EEPROMs but the one of the
  SubDevice being configured.

`InitComplete` needs `ProgressInv` because nothing in `init` looks back: that the
last broadcast read finds as many SubDevices in PRE-OP as were counted says
something about all of them only if the counted ones are those in the groups.

`SyncPhase` has an invariant of its own on top of `GroupsInv`, `PhaseInv`
(`PhaseInvariant`), also checked by TLC on the run's instance. As long as nobody left,
the SubDevices of a group are on the network under their addresses (`PlaceInv`), so
that what `configure_dc_sync` writes reaches the SubDevice it means and no SubDevice
of another group; a group that is not being configured has SYNC0 of all its
SubDevices active, with its period, pulsing at multiples of it, and one that is has
those the loop has passed (`SyncInv`). A group lost half way never cycles again
(`FreshInv`). The rest is division with remainder for a period that is a parameter
(`DivideUnique` of `SequenceFacts`, `StartTimeFacts`, `NextCycle`): the start is rounded down to a
multiple of the period less than one period before the time asked for, and the
wait runs to the next multiple and the shift, which is one period after the last
if the clock was read before the next pulse.

`LayoutIsSound` proves `LayoutSound` for networks that have a layout at all
(`LayoutPossible`): capacities are below 64 KiB, the bits of a sync manager rounded up
to bytes, and the bytes of a direction of a SubDevice, stay below 2^16, as the code
computes them in 16 bits (`Uncut` and `SmFits` show that nothing is cut then), and the
sync managers of a direction that carry data lie one behind the other in the
SubDevice's memory where one FMMU serves them all, and apart where each has its own.
This is a condition on the SubDevices and the capacities, outside of which the code
does not map rightly (section 11); `MCGroups` assumes it, so that TLC evaluates it for
the networks of the run. The invariant `LayoutInv` (`LayoutInvariant`), on top of the other two, says

* `BlankInv`: from the reset to the end of `init`, the FMMUs of the SubDevices counted
  are off, as one left over from an earlier `init` would claim addresses again;
* `StartInv`: `init` places the PDIs of the groups one behind the other, in the order
  in which the groups come, none overlapping the next (`Placement`, `Apart`);
* `MappersInv`: only a group in PRE-OP is being laid out, and none before `init` is
  done;
* `LaidInv`: in a group laid out at most once, exactly the sync managers up to the one
  at hand are mapped; those of a SubDevice have one segment per direction, the
  segments come one behind the other, inputs before outputs, and the group's length is
  the end of the last one.

`LaidInv` is needed because `LayoutSound` compares finished layouts only, and a
finished one is built over many steps of several groups that interleave. That a
sync manager is mapped through exactly one FMMU follows from where `write_fmmu_config`
extends one; that the mapped bytes are those of its own memory is where
`LayoutPossible` comes in. As in `LayoutSound` itself, groups laid out a second time
without a reset between, and networks somebody left, are excepted (section 11).

## 9. Wire and Frames: bits and bytes

A byte, and a number of any width, is the set of its bits that are one: a shift
moves positions and a mask is an intersection. `Wire.tla` takes the declaration
of a struct or an enum as the derive macro gets it, decides whether it is
accepted (`parse_struct.rs`, `parse_enum.rs`) and does what the generated code
does (`generate_struct.rs`, `generate_enum.rs`) next to the built-in
implementations (`impls.rs`). `WireTypes.tla` is the crate's own types in these
terms: headers, AL status and control, FMMUs, sync managers, SII, EEPROM and
CoE records, DC registers, and their enums. `Commands` and `Frames` use them: a
task fills a slot (`NewFrame`, `PushPdu`, `PushPduSliceRest`, `MarkSendable`), it
is sent, goes round (`Circulate`, external: the SubDevices answer or not, and the
sender's address is changed), may come back padded, cut,
unchanged or as another protocol's packet, is recognised (`ReceiveFrame`) and
read by `FirstPdu`, `Pdu` or the iterator (`NextPdu`).

The run `Wire` checks

* `PacksImage`: packing puts every field at its declared bits, clears the bits
  between, and leaves the rest of the buffer alone;
* `ReadsImage`: reading yields the declared fields, and fails exactly on short
  buffers and on numbers an enum or flags leave out;
* `RepliesMatch`: the reader of the k-th PDU gets what the SubDevices made of it,
  a frame counts as received only if it went round and arrived whole, and a wrapped
  command ends with `WorkingCounter` exactly if it is one that looks (`receive` and
  `send_receive`, not `send`), was not told to ignore the counter, and the number of
  SubDevices that answered is not the one expected. `got` has the call and what it
  expected for this; the mutant accepts more answers than expected.

`Image` and `Reading`, what the bits mean, are defined from the declaration
alone, by positions; the packing code goes by bytes, shifts and masks, so the
two are independent.

*Bounds.* All types of the crate, a tuple, an array, and every struct of up to
three of fourteen kinds of fields with a declared width of 1, 2 or 8 bytes; most
are refused, all kinds of neighbours occur. Buffers one byte short, exact and two
bytes longer, with four patterns of older data. Frames of up to three PDUs of six
kinds in a slot of 58 bytes, which three PDUs of two bytes fill to the last byte;
a slot of zeros and one of ones whose index wraps.

## 10. Proved and only checked

Proved for all constants, each with its inductive invariant:

| Module | Properties |
|---|---|
| `PduLoopProofs` | `TypeOK`, `PduInv`, `SlotOwnerUnique`, `ReceivedFrameIntact`, `NoInvalidFrameState`, `NoLostWakeup`, `NoLostSend`, `OnlyHolderFrees` |
| `PduCoopProofs` | `NoSlotLeak`, `SendsRequests`, `ReadsOwnReply` (on one thread, the last for requests whose index is not shared) |
| `ProcessDataProofs` | `CycleInv`, `InputsDelivered`, `OutputsDelivered`, `OutputsKept`, `StatesComplete`, `ClockOnce` |
| `DistributedClocksProofs` | `ParentsFound`, `TopologyAccepted`, `ClocksAgree` |
| `MailboxProofs` | `OwnAnswer`, `AnswersObject`, `ArrayConsistent`, `Acknowledged`, `CounterSeparates` |
| `EepromProofs` | `StreamSpec`, `ChecksumHolds`, `ReadsDescription` |
| `GroupsProofs` | `InitComplete`, `TransitionReached`, `SyncPhase`, `LayoutSound` (for networks with a layout that 16 bits hold) |

Only checked by TLC:

* the liveness properties (`EveryRequestAnswered`, `EveryRequestEnds`,
  `DriverStops`, `CycleEnds`, `EveryTransferEnds`, `CallEnds`), because the
  prover does not handle fairness;
* `PacksImage`, `ReadsImage` and `RepliesMatch`: types nest, so that `Wire` and
  `WireCodec` need recursive operators, which the prover does not take.

Every property has a mutant in `PROJECT.json`: a plausible slip in the code that
TLC shows to violate it.

## 11. Where code and documents disagree

Shown by violation runs:

* `first_pdu` returns a pointer into a slot that its own return has freed
  (`received_frame.rs:42`), against "unique owner until its response data is
  dropped" (`storage.rs:216`). On one executor thread the data is read before
  anyone else runs, which is why `ReadsOwnReply` holds in `PduCoop`. Run
  `PduUseAfterFree`.
* `tx_rx_sync_system_time` without a DC reference waits for its own lock
  (`subdevice_group/mod.rs:1090`). Run `ProcessDataNoDc`.

The rest was seen while modelling; where a model contains it, the properties
above say under which condition they hold.

*PDU loop.*

* The PDU index has 8 bits and wraps (`storage.rs:98`, `frame_box.rs:78`): with
  many PDUs in flight two frames have the same first index, and the reply goes to
  the first slot found. A late reply with the index of a newer frame is taken for
  that frame's, which is why `ReadsOwnReply` excepts requests whose index was shared
  (`clashed`); `release` makes that more likely, as `reset` sets the index to 0
  while replies may be under way (`storage.rs:192`).
* With every actor on its own thread, a timeout while TX is sending frees the
  slot, and TX then stores `Sent`: the slot has no owner and is never freed
  (`receiving_frame.rs:156`, `sendable_frame.rs:74`); if it has a new owner its
  frame is marked as sent.
* A reply that is being copied when the future times out can end in the buffer
  of the slot's next owner (`pdu_rx.rs:104` to `124`).
* A retry sends the slot as it is, which may be a reply already received, with
  working counters that are not "always zero on send" (`created_frame.rs:171`,
  `receiving_frame.rs:171`).
* `first_pdu` is cleared after the slot was freed (`received_frame.rs:152`), and
  starts as 0, not as the sentinel (`frame_element/mod.rs:222`).
* One frame that cannot be received ends the driver (`std/unix/mod.rs:102`).
* The iterator over a frame's PDUs repeats an error for ever, and a PDU of more
  than 2047 bytes would have its length cut by the mask of the flags (frames are
  shorter than that).
* In the other drivers, read but not modelled: the counters of frames in flight
  do not come back to 0 after a lost frame, so the Windows and io_uring drivers
  spin and do not look at the exit flag; the XDP driver never looks at it.

*Commands.* `send` drops the reply without a look at the working counter
(`command/writes.rs:93`), also after `with_wkc`, which is to "change the expected
working counter" (`writes.rs:83`). So nobody notices a SubDevice that misses its station
address (`maindevice.rs:249`), the owner of its EEPROM, a sync manager, an FMMU, the
settings of SYNC0, a command to its EEPROM (`device_provider.rs:63`, `88`, `94`), the
latch of the clocks (`dc.rs:30`), or a request to a full IN mailbox.

*Process data.* `tx_rx_dc` allocates one frame more than it needs and fails if
there is none although everything was exchanged (`subdevice_group/mod.rs:1255`);
the lock is a spin lock held across awaits, of which `CHANGELOG.md:109` warns.

*Distributed clocks.* A SubDevice that does not answer the read of its time gets the
time 0, and one that misses its offset or delay keeps the old one; `configure_dc`
returns Ok (`dc.rs:45`, `99`, `107`). A junction inside a branch is taken for the
parent of what follows the branch (`dc.rs:166`), which `ParentsFound` states, and a full one
makes `configure_dc` panic (`dc.rs:336`). A SubDevice entered by port 1 with port
3 closed gets its child assigned to the entry port. A clock that wraps at 2^32
while the frame is under way changes the entry port and the delays
(`ports.rs:140`). The delay of the last branch of a cross (`dc.rs:292`) is not
"the time it takes for a packet to reach it" (`dc.rs:224`): it is not halved, and
mixes times since the cross with times since the MainDevice. With cables of 1, 2
and 4 in front of the branches it gets 14 where a packet arrives after 10.

*Mailbox.*

* An emergency panics in `assert_ne!` before the branch that would report it
  (`coe/mod.rs:231`); the information service skips it, and emergencies without
  end keep that service waiting without end.
* Segments are cut by 12 bytes like other responses although their headers have
  9, so that the value is short by three bytes per segment; and a SubDevice that
  answers segments by the standard uses command 0, for which `CoeCommand` has no
  variant. `tests/replay-ek1914-segmented-upload.rs` exercises a normal upload.
* `trim_front` moves the start of a response but not its length.
* The fragments of an object list after the first lose their last entry, as the
  list type is taken to be in each of them.
* The counter, the toggle bit and the command of a response are not checked.
  The counter goes from 1 to 7 where its comment says 0 to 7; it is taken also by
  calls that send nothing; a clone of a `SubDevice` copies it
  (`subdevice/mod.rs:133`), so that two of them count alike.
* `NoReadMailbox` and `NoWriteMailbox` are swapped (`coe/mod.rs:55`, `61`).

*EEPROM.*

* `read_byte` does not stop at the end of the range, which is to be the only
  part that can be read (`eeprom/mod.rs:59`).
* A read does not look at `command_error`, the answer to the reset of an error is
  what was sent and so never shows it, and a write returns Ok after 21 refusals.
* After a timeout the SubDevice may still be busy: the next read starts without
  waiting, its command is ignored, and it gets the data of the old one. Two tasks
  at one SubDevice's registers mix up in the same way.
* String number n + 1 of n is looked for, in what follows the strings.
* `set_station_alias` that fails between its two writes leaves a wrong checksum.
* Without overflow checks the search for a category may wrap round and not end.

*Groups.*

* `is_state` looks neither at the error flag nor at the working counter; the
  answer to the request of a state is what was sent, and never an error. A SubDevice
  that missed an `init` and is plugged in again with the address it had answers in
  place of the one the group has, or together with it, and the transition takes
  its state for that one's (`subdevice_group/mod.rs:640`).
* Laying a group out again, by way of SAFE-OP and `into_pre_op`, extends FMMUs that
  are still enabled: "we can use the enable flag as a sentinel"
  (`configuration.rs:439`) holds only after a reset.
* Two sync managers that share an FMMU must be neighbours in memory.
* `PdiTooLong` is reported when the FMMUs have been written already.
* `configure_dc_sync` in PRE-OP yields a group with PDI whose FMMUs were never
  configured (`subdevice_group/mod.rs:385`).
* The first pulse is rounded down to a multiple of the period and may have passed
  when SYNC0 is activated; a period of 0 divides by zero; a shift that leaves less
  of the period than a cycle takes skips a pulse; a reference that does not answer
  gives time 0.
* Capacities of 2^16 and more are truncated (`handle.rs:95`). Bits are added up in
  `u16` (`configuration.rs:314`, `384`): from 8 KiB in one sync manager on the sum goes
  round, or panics in builds that check, and the segment is too short.
* A sync manager that the EEPROM does not enable stays off (`configuration.rs:144`),
  but its FMMU is enabled and its bytes are in the PDI.
* A SubDevice swapped for another while `init` runs is not noticed, and the DC
  reference of an earlier `init` stays when no SubDevice supports DC any more.

*Wire.*

* Variants of an enum without discriminants are counted from 1 when read
  (`parse_enum.rs:91`) and from 0 when written; no enum of the crate does this.
* `f32` is 8 bytes wide by default (`parse_struct.rs:108`) and 4 when packed.
* An enum wider than the field of up to 8 bits it is in is accepted, but cannot be
  read and panics when packed (`generate_struct.rs:70`); a value wider than its
  field is cut, and an `i8` in a narrow field loses its sign.

## 12. Not modelled

The table of vendors (4838 of the crate's lines), inline tests, examples, error
texts, logging and the reader of EEPROM files have no behaviour to model.
Register addresses stay names. The sockets, io_uring, XDP, Windows and BPF are
system calls; to the PDU loop they are a thread. `run_dc_static_sync` only
repeats a command whose effect is in the SubDevices. Accessors, generic
`register_read` and `register_write` and the heapless strings and vectors of the
wire crate are left out. Memory orderings weaker than sequential consistency
and, but for the times of `DistributedClocks` and of SYNC0 in `Groups`, durations
are outside the models.

## 13. Use

`tlc -config PduPreempt.cfg MCPduLoop` runs one check: configurations named
`Pdu*` with `MCPduLoop`, `ProcessData*` with `MCProcessData`, `DcTopology` with
`MCDistributedClocks`, `Mailbox` with `MCMailbox`, `Eeprom` with
`MCSubDeviceEeprom`, `Groups` with `MCGroups`, `Wire` with `MCWire`.
`tlapm PduLoopProofs.tla` and the same for `PduCoopProofs`, `ProcessDataProofs`,
`DistributedClocksProofs`, `MailboxProofs`, `EepromProofs`, `GroupsProofs` and
`SequenceFacts` check the proofs, which takes between seconds and a few minutes each,
for `GroupsProofs` a quarter of an hour.
