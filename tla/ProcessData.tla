---------------------------- MODULE ProcessData ----------------------------
(***************************************************************************)
(* The process data cycle of a SubDeviceGroup: tx_rx, and its variants     *)
(* tx_rx_sync_system_time and tx_rx_dc that also distribute the system     *)
(* time.  A cycle exchanges the Process Data Image (PDI) of the group with *)
(* the SubDevices in as many frames as it takes, and asks every SubDevice  *)
(* for its state.  It holds the write lock of the PDI from the first frame *)
(* to the last, across awaits, while other threads of the application take *)
(* the same lock to read inputs and write outputs.                         *)
(*                                                                         *)
(* The PDI holds all inputs first, then all outputs (IIIIOOOO).  Byte k of *)
(* it is logical address PdiStart + k of the segment.  The value of an     *)
(* output is the number of the application's write it comes from, the      *)
(* value of an input the segment's time when it was sampled.               *)
(***************************************************************************)
EXTENDS Integers, Sequences, FiniteSets

CONSTANTS
  Tasks,           \* application tasks, each on a thread of its own
  NoTask,          \* "nobody holds the lock for writing"
  MAX_PDI,         \* capacity of the PDI
  MAX_SUBDEVICES,  \* capacity of the group
  PdiStart,        \* first logical address of the group
  FrameLen,        \* bytes for PDUs in a frame
  Overhead,        \* PDU_OVERHEAD_BYTES: header and working counter
  StatusLen,       \* AlControl::PACKED_LEN
  TimeLen,         \* u64::PACKED_LEN
  MaxChecks,       \* a frame is full after MaxChecks + 1 state checks
  DcRef,           \* the network has a DC reference SubDevice
  Kinds,           \* the functions the application calls
  Faults,          \* faults that may happen
  MaxCycles,       \* bound: cycles of all tasks
  MaxWrites,       \* bound: writes of the outputs
  MaxNow           \* bound: changes of the inputs

CycleKinds == {"tx_rx", "tx_rx_sync_system_time", "tx_rx_dc"}

ASSUME TasksAssumption == NoTask \notin Tasks
ASSUME SizesAssumption ==
  /\ MAX_PDI \in Nat /\ MAX_SUBDEVICES \in Nat /\ PdiStart \in Nat
  /\ Overhead \in Nat \ {0} /\ StatusLen \in Nat \ {0}
  /\ TimeLen \in Nat \ {0} /\ MaxChecks \in Nat
\* Initialisation reads registers of these sizes, a smaller frame fails there.
ASSUME FrameAssumption ==
  /\ FrameLen \in Nat
  /\ Overhead + TimeLen <= FrameLen /\ Overhead + StatusLen <= FrameLen
ASSUME OptionsAssumption ==
  /\ DcRef \in BOOLEAN /\ Kinds \subseteq CycleKinds
  /\ Faults \subseteq {"timeout", "noframe", "silent"}
ASSUME BoundsAssumption ==
  MaxCycles \in Nat /\ MaxWrites \in Nat /\ MaxNow \in Nat

VARIABLES
  pdi_len, read_pdi_len,  \* size of the group's PDI, and of its inputs
  len,                    \* SubDevices in the group
  pdi,                    \* [0..MAX_PDI-1 -> value]
  writer, readers,        \* who holds the lock of the PDI
  pc, kind,               \* [task -> where it is, in which cycle]
  result,                 \* what the last cycle returned
  total_bytes_sent, total_checks,       \* locals of the cycle: bytes done,
  time, time_read,                      \* SubDevices asked, the clock
  lrw_wkc_sum, subdevice_states,        \* and what will be returned
  frame,                  \* the frame being built, in flight or received
  cycles, version,        \* cycles started, write guards taken so far
  written,                \* history: the PDI when the last one was dropped
  now, dev_out,           \* segment: time, [logical address -> output]
  given, chunks, clocks   \* history of the cycle: inputs given by the
                          \* segment, chunks and clock PDUs sent

groupVars == <<pdi_len, read_pdi_len, len>>
lockVars  == <<writer, readers>>
taskVars  == <<pc, kind, result>>
cycleVars == <<total_bytes_sent, total_checks, time, time_read, lrw_wkc_sum,
               subdevice_states>>
segVars   == <<now, dev_out>>
histVars  == <<given, chunks, clocks>>
writeVars == <<version, written>>
vars == <<groupVars, pdi, lockVars, taskVars, cycleVars, frame, cycles,
          writeVars, segVars, histVars>>

PdiIdx    == 0..(MAX_PDI - 1)
Addresses == PdiStart..(PdiStart + MAX_PDI - 1)
Inputs    == 0..(read_pdi_len - 1)
Outputs   == read_pdi_len..(pdi_len - 1)
NotGiven  == -1
Values    == 0..(IF MaxWrites > MaxNow THEN MaxWrites ELSE MaxNow)

\* A frame: bytes used, whether it carries the clock PDU, the chunk of the
\* PDI in it (size bytes for the addresses from addr on), the SubDevices
\* asked, and in a reply the working counter of the chunk and the clock.
NewFrame(used, clock) ==
  [used |-> used, clock |-> clock, addr |-> PdiStart, size |-> 0,
   data |-> [k \in PdiIdx |-> 0], checks |-> <<>>, wkc |-> 0, time |-> 0]
EmptyFrame == NewFrame(0, FALSE)
ClockFrame == NewFrame(TimeLen + Overhead, TRUE)

Smaller(a, b) == IF a < b THEN a ELSE b
SaturatingSub(a, b) == IF a < b THEN 0 ELSE a - b

\* Pcs of a task in a cycle that has the lock.
InCycle == {"loop", "chunk", "checks", "await", "replied"}
TaskPc  == InCycle \cup {"idle", "lock", "write", "read"}

\* What a cycle returns: a TxRxResponse or an error.
Response(st, wkc, states) ==
  [status |-> st, working_counter |-> wkc, subdevice_states |-> states]
NoResult == Response("none", 0, <<>>)
Failed   == Response("err", 0, <<>>)

\* The group after configure_fmmus: any layout of inputs before outputs.
Init ==
  /\ pdi_len \in 0..MAX_PDI /\ read_pdi_len \in 0..pdi_len
  /\ len \in 0..MAX_SUBDEVICES
  /\ pdi = [k \in PdiIdx |-> 0]
  /\ writer = NoTask /\ readers = {}
  /\ pc = [t \in Tasks |-> "idle"]
  /\ kind = [t \in Tasks |-> "tx_rx"]
  /\ result = NoResult
  /\ total_bytes_sent = 0 /\ total_checks = 0
  /\ time = 0 /\ time_read = FALSE
  /\ lrw_wkc_sum = 0 /\ subdevice_states = <<>>
  /\ frame = EmptyFrame
  /\ cycles = 0 /\ version = 0 /\ written = [k \in PdiIdx |-> 0]
  /\ now = 0 /\ dev_out = [a \in Addresses |-> 0]
  /\ given = [k \in PdiIdx |-> NotGiven] /\ chunks = 0 /\ clocks = 0

(***************************************************************************)
(* The application: the lock, and the guards of SubDevicePdi.              *)
(***************************************************************************)
Free == writer = NoTask /\ readers = {}

\* outputs_raw_mut or io_raw_mut: the lock is taken for writing.
LockWrite(t) ==
  /\ pc[t] = "idle" /\ Free /\ version < MaxWrites
  /\ writer' = t /\ version' = version + 1
  /\ pc' = [pc EXCEPT ![t] = "write"]
  /\ UNCHANGED <<groupVars, pdi, readers, kind, result, cycleVars, frame,
                 cycles, written, segVars, histVars>>

\* The guard lets the outputs of a SubDevice be written, in any order.  Which
\* outputs are whose makes no difference here: k is any output not written yet.
WriteOutput(t, k) ==
  /\ pc[t] = "write" /\ k \in Outputs /\ pdi[k] # version
  /\ pdi' = [pdi EXCEPT ![k] = version]
  /\ UNCHANGED <<groupVars, lockVars, taskVars, cycleVars, frame, cycles,
                 writeVars, segVars, histVars>>

\* The write guard is dropped, whatever has been written by then.
UnlockWrite(t) ==
  /\ pc[t] = "write"
  /\ writer' = NoTask /\ written' = pdi
  /\ pc' = [pc EXCEPT ![t] = "idle"]
  /\ UNCHANGED <<groupVars, pdi, readers, kind, result, cycleVars, frame,
                 cycles, version, segVars, histVars>>

\* inputs_raw, outputs_raw or io_raw, and the drop of the guard.
LockRead(t) ==
  /\ pc[t] = "idle" /\ writer = NoTask
  /\ readers' = readers \cup {t}
  /\ pc' = [pc EXCEPT ![t] = "read"]
  /\ UNCHANGED <<groupVars, pdi, writer, kind, result, cycleVars, frame,
                 cycles, writeVars, segVars, histVars>>

UnlockRead(t) ==
  /\ pc[t] = "read"
  /\ readers' = readers \ {t}
  /\ pc' = [pc EXCEPT ![t] = "idle"]
  /\ UNCHANGED <<groupVars, pdi, writer, kind, result, cycleVars, frame,
                 cycles, writeVars, segVars, histVars>>

(***************************************************************************)
(* The cycle.                                                              *)
(***************************************************************************)

\* One of the functions of Kinds is called.
StartCycle(t, k) ==
  /\ pc[t] = "idle" /\ cycles < MaxCycles
  /\ cycles' = cycles + 1
  /\ pc' = [pc EXCEPT ![t] = "lock"]
  /\ kind' = [kind EXCEPT ![t] = k]
  /\ UNCHANGED <<groupVars, pdi, lockVars, result, cycleVars, frame, writeVars,
                 segVars, histVars>>

\* Mutant: the guard is dropped at once (let _ = self.pdi.write()).
LockCycleDropped(t) ==
  /\ pc[t] = "lock" /\ Free
  /\ IF kind[t] = "tx_rx_sync_system_time" /\ ~DcRef
     THEN kind' = [kind EXCEPT ![t] = "tx_rx"] /\ UNCHANGED pc
     ELSE pc' = [pc EXCEPT ![t] = "loop"] /\ UNCHANGED kind
  /\ UNCHANGED <<groupVars, pdi, lockVars, result, cycleVars, frame, cycles,
                 writeVars, segVars, histVars>>

\* The lock is taken for writing and the cycle starts.  Without
\* a DC reference tx_rx_sync_system_time calls tx_rx, lock in hand.
LockCycle(t) ==
  /\ pc[t] = "lock" /\ Free
  /\ writer' = t
  /\ IF kind[t] = "tx_rx_sync_system_time" /\ ~DcRef
     THEN kind' = [kind EXCEPT ![t] = "tx_rx"] /\ UNCHANGED pc
     ELSE pc' = [pc EXCEPT ![t] = "loop"] /\ UNCHANGED kind
  /\ UNCHANGED <<groupVars, pdi, readers, result, cycleVars, frame, cycles,
                 writeVars, segVars, histVars>>

\* The locals of a cycle go out of scope.
DropLocals ==
  /\ total_bytes_sent' = 0 /\ total_checks' = 0
  /\ time' = 0 /\ time_read' = FALSE
  /\ lrw_wkc_sum' = 0 /\ subdevice_states' = <<>>
  /\ frame' = EmptyFrame
  /\ given' = [k \in PdiIdx |-> NotGiven] /\ chunks' = 0 /\ clocks' = 0

\* Mutant: the guard is never dropped.
ReturnLocked(t, r) ==
  /\ pc' = [pc EXCEPT ![t] = "idle"]
  /\ kind' = [kind EXCEPT ![t] = "tx_rx"]
  /\ result' = r
  /\ DropLocals
  /\ UNCHANGED writer

\* The function returns, which drops its guard too.
Return(t, r) ==
  /\ pc' = [pc EXCEPT ![t] = "idle"]
  /\ kind' = [kind EXCEPT ![t] = "tx_rx"]
  /\ result' = r
  /\ DropLocals
  /\ writer' = NoTask

ChunkLen == SaturatingSub(pdi_len, total_bytes_sent)
AllDone  == ChunkLen = 0 /\ total_checks >= len

\* tx_rx looks at the top of its loop whether all is done.
TopExit(t) ==
  /\ pc[t] = "loop" /\ kind[t] = "tx_rx" /\ AllDone
  /\ Return(t, Response("ok", lrw_wkc_sum, subdevice_states))
  /\ UNCHANGED <<groupVars, pdi, readers, cycles, writeVars, segVars>>

\* Mutant: the clock PDU goes into every frame.
AllocFrameClock(t) ==
  /\ pc[t] = "loop" /\ ~(kind[t] = "tx_rx" /\ AllDone)
  /\ frame' = IF kind[t] # "tx_rx"
              THEN ClockFrame ELSE EmptyFrame
  /\ pc' = [pc EXCEPT ![t] = "chunk"]
  /\ UNCHANGED <<groupVars, pdi, lockVars, kind, result, cycleVars, cycles,
                 writeVars, segVars, histVars>>

\* alloc_frame; the first frame of the DC variants begins with the FRMW that
\* distributes the system time.
AllocFrame(t) ==
  /\ pc[t] = "loop" /\ ~(kind[t] = "tx_rx" /\ AllDone)
  /\ frame' = IF kind[t] # "tx_rx" /\ ~time_read
              THEN ClockFrame ELSE EmptyFrame
  /\ pc' = [pc EXCEPT ![t] = "chunk"]
  /\ UNCHANGED <<groupVars, pdi, lockVars, kind, result, cycleVars, cycles,
                 writeVars, segVars, histVars>>

\* No slot is free: the cycle ends with PduError::SwapState.
AllocFails(t) ==
  /\ "noframe" \in Faults
  /\ pc[t] = "loop" /\ ~(kind[t] = "tx_rx" /\ AllDone)
  /\ Return(t, Failed)
  /\ UNCHANGED <<groupVars, pdi, readers, cycles, writeVars, segVars>>

\* push_pdu_slice_rest: as much of the rest of the PDI as fits.
PushChunk(t) ==
  LET room == SaturatingSub(SaturatingSub(FrameLen, frame.used), Overhead)
      size == Smaller(room, ChunkLen)
  IN
  /\ pc[t] = "chunk"
  /\ frame' = IF ChunkLen = 0 \/ room = 0 THEN frame
              ELSE [used |-> frame.used + size + Overhead,
                    clock |-> frame.clock,
                    addr |-> PdiStart + total_bytes_sent, size |-> size,
                    data |-> [k \in PdiIdx |->
                                IF k < size THEN pdi[total_bytes_sent + k]
                                            ELSE 0],
                    checks |-> <<>>, wkc |-> 0, time |-> 0]
  /\ pc' = [pc EXCEPT ![t] = "checks"]
  /\ UNCHANGED <<groupVars, pdi, lockVars, kind, result, cycleVars, cycles,
                 writeVars, segVars, histVars>>

\* can_push_pdu_payload, a SubDevice is left, and the frame has not its fill.
MorePushed ==
  /\ frame.used + StatusLen + Overhead <= FrameLen
  /\ total_checks < len
  /\ Len(frame.checks) <= MaxChecks

\* push_state_checks: one more FPRD of a SubDevice's AL status.
PushCheck(t) ==
  /\ pc[t] = "checks" /\ MorePushed
  /\ frame' = [used |-> frame.used + StatusLen + Overhead,
               clock |-> frame.clock, addr |-> frame.addr,
               size |-> frame.size, data |-> frame.data,
               checks |-> Append(frame.checks, total_checks + 1),
               wkc |-> 0, time |-> 0]
  /\ total_checks' = total_checks + 1
  /\ UNCHANGED <<groupVars, pdi, lockVars, taskVars, total_bytes_sent, time,
                 time_read, lrw_wkc_sum, subdevice_states, cycles, writeVars,
                 segVars, histVars>>

FrameIsEmpty == ~frame.clock /\ frame.size = 0 /\ frame.checks = <<>>

\* Nothing to send in this frame: the cycle is over.
EmptyExit(t) ==
  /\ pc[t] = "checks" /\ ~MorePushed /\ FrameIsEmpty
  /\ Return(t, Response("ok", lrw_wkc_sum, subdevice_states))
  /\ UNCHANGED <<groupVars, pdi, readers, cycles, writeVars, segVars>>

\* mark_sendable and wake_sender; the task waits with the lock in hand.
SendFrame(t) ==
  /\ pc[t] = "checks" /\ ~MorePushed /\ ~FrameIsEmpty
  /\ pc' = [pc EXCEPT ![t] = "await"]
  /\ chunks' = chunks + (IF frame.size > 0 THEN 1 ELSE 0)
  /\ clocks' = clocks + (IF frame.clock THEN 1 ELSE 0)
  /\ UNCHANGED <<groupVars, pdi, lockVars, kind, result, cycleVars, frame,
                 cycles, writeVars, segVars, given>>

\* The frame passes the SubDevices: they take the outputs of the chunk and
\* fill in its inputs, or none of them does (working counter 0).
Exchange(t, w) ==
  LET InChunk(a) == frame.addr <= a /\ a < frame.addr + frame.size IN
  /\ pc[t] = "await"
  /\ w = 1 \/ "silent" \in Faults
  /\ dev_out' = [a \in Addresses |->
                   IF w = 1 /\ InChunk(a) /\ a - PdiStart \in Outputs
                   THEN frame.data[a - frame.addr] ELSE dev_out[a]]
  /\ given' = [k \in PdiIdx |->
                 IF w = 1 /\ InChunk(PdiStart + k) /\ k \in Inputs
                 THEN now ELSE given[k]]
  /\ frame' = [used |-> frame.used, clock |-> frame.clock,
               addr |-> frame.addr, size |-> frame.size,
               data |-> [k \in PdiIdx |->
                           IF w = 1 /\ k < frame.size
                              /\ frame.addr + k - PdiStart \in Inputs
                           THEN now ELSE frame.data[k]],
               checks |-> frame.checks, wkc |-> w, time |-> now]
  /\ pc' = [pc EXCEPT ![t] = "replied"]
  /\ UNCHANGED <<groupVars, pdi, lockVars, kind, result, cycleVars, cycles,
                 writeVars, now, chunks, clocks>>

\* The frame or its reply is lost and the PDU times out: the cycle ends with
\* an error, whatever the SubDevices have taken already.
Timeout(t) ==
  /\ "timeout" \in Faults
  /\ pc[t] \in {"await", "replied"}
  /\ Return(t, Failed)
  /\ UNCHANGED <<groupVars, pdi, readers, cycles, writeVars, segVars>>

\* Mutant: an inclusive range.
ProcessReceivedPdiChunkInclusive ==
  LET from == Smaller(total_bytes_sent, read_pdi_len)
      to   == Smaller(total_bytes_sent + frame.size, read_pdi_len)
  IN pdi' = [k \in PdiIdx |->
               IF from <= k /\ k <= to THEN frame.data[k - from] ELSE pdi[k]]

\* Mutant: the chunk is taken to start at the start of the PDI.
ProcessReceivedPdiChunkFirst ==
  LET from == 0
      to   == Smaller(frame.size, read_pdi_len)
  IN pdi' = [k \in PdiIdx |->
               IF from <= k /\ k < to THEN frame.data[k - from] ELSE pdi[k]]

\* process_received_pdi_chunk: only the inputs of the chunk are copied.
ProcessReceivedPdiChunk ==
  LET from == Smaller(total_bytes_sent, read_pdi_len)
      to   == Smaller(total_bytes_sent + frame.size, read_pdi_len)
  IN pdi' = [k \in PdiIdx |->
               IF from <= k /\ k < to THEN frame.data[k - from] ELSE pdi[k]]

\* Mutant: the loop ends with the PDI, whatever state checks are left.
ProcessReplyEarly(t) ==
  LET wkc    == lrw_wkc_sum + (IF frame.size > 0 THEN frame.wkc ELSE 0)
      states == subdevice_states \o frame.checks
  IN
  /\ pc[t] = "replied"
  /\ ProcessReceivedPdiChunk
  /\ IF kind[t] # "tx_rx" /\ ChunkLen = frame.size
     THEN Return(t, Response("ok", wkc, states))
     ELSE /\ total_bytes_sent' = total_bytes_sent + frame.size
          /\ lrw_wkc_sum' = wkc /\ subdevice_states' = states
          /\ time' = IF frame.clock THEN frame.time ELSE time
          /\ time_read' = (time_read \/ frame.clock)
          /\ pc' = [pc EXCEPT ![t] = "loop"]
          /\ frame' = EmptyFrame
          /\ UNCHANGED <<kind, result, writer, total_checks, histVars>>
  /\ UNCHANGED <<groupVars, readers, cycles, writeVars, segVars>>

\* The reply: the clock, the inputs, the states.  The DC variants look here
\* whether all is done, with the chunk_len from before this frame.
ProcessReply(t) ==
  LET wkc    == lrw_wkc_sum + (IF frame.size > 0 THEN frame.wkc ELSE 0)
      states == subdevice_states \o frame.checks
  IN
  /\ pc[t] = "replied"
  /\ ProcessReceivedPdiChunk
  /\ IF kind[t] # "tx_rx" /\ AllDone
     THEN Return(t, Response("ok", wkc, states))
     ELSE /\ total_bytes_sent' = total_bytes_sent + frame.size
          /\ lrw_wkc_sum' = wkc /\ subdevice_states' = states
          /\ time' = IF frame.clock THEN frame.time ELSE time
          /\ time_read' = (time_read \/ frame.clock)
          /\ pc' = [pc EXCEPT ![t] = "loop"]
          /\ frame' = EmptyFrame
          /\ UNCHANGED <<kind, result, writer, total_checks, histVars>>
  /\ UNCHANGED <<groupVars, readers, cycles, writeVars, segVars>>

\* The inputs of the SubDevices change.
Tick ==
  /\ now < MaxNow
  /\ now' = now + 1
  /\ UNCHANGED <<groupVars, pdi, lockVars, taskVars, cycleVars, frame, cycles,
                 writeVars, dev_out, histVars>>

(***************************************************************************)
(* The specification.                                                      *)
(***************************************************************************)
CycleStep(t) ==
  \/ LockCycle(t) \/ TopExit(t) \/ AllocFrame(t) \/ AllocFails(t)
  \/ PushChunk(t) \/ PushCheck(t) \/ EmptyExit(t) \/ SendFrame(t)
  \/ (\E w \in {0, 1} : Exchange(t, w)) \/ Timeout(t) \/ ProcessReply(t)

GuardStep(t) ==
  \/ \E k \in PdiIdx : WriteOutput(t, k)
  \/ UnlockWrite(t) \/ UnlockRead(t)

Next ==
  \/ \E t \in Tasks :
       \/ \E k \in Kinds : StartCycle(t, k)
       \/ LockWrite(t) \/ LockRead(t)
       \/ CycleStep(t) \/ GuardStep(t)
  \/ Tick

Spec == Init /\ [][Next]_vars

\* Every thread runs and every frame is answered or times out.  That a task
\* gets a lock it spins for needs no more: the others start finitely many
\* cycles and writes; that readers make way is assumed.
Fairness ==
  \A t \in Tasks : WF_vars(CycleStep(t)) /\ WF_vars(GuardStep(t))
                   /\ SF_vars(LockCycle(t))

FairSpec == Spec /\ Fairness

FrameType ==
  [used : 0..FrameLen, clock : BOOLEAN, addr : Nat, size : 0..MAX_PDI,
   data : [PdiIdx -> Values], checks : Seq(1..MAX_SUBDEVICES),
   wkc : {0, 1}, time : Values]

ResultType ==
  [status : {"none", "ok", "err"}, working_counter : Nat,
   subdevice_states : Seq(1..MAX_SUBDEVICES)]

\* The types of the group, the lock, the cycle and the segment; a frame never
\* holds more than fits in it, so that no push fails with TooLong.
TypeOK ==
  /\ pdi_len \in 0..MAX_PDI /\ read_pdi_len \in 0..pdi_len
  /\ len \in 0..MAX_SUBDEVICES
  /\ pdi \in [PdiIdx -> Values]
  /\ writer \in Tasks \cup {NoTask} /\ readers \in SUBSET Tasks
  /\ pc \in [Tasks -> TaskPc] /\ kind \in [Tasks -> CycleKinds]
  /\ result \in ResultType
  /\ total_bytes_sent \in 0..pdi_len /\ total_checks \in 0..len
  /\ time \in Values /\ time_read \in BOOLEAN
  /\ lrw_wkc_sum \in Nat /\ subdevice_states \in Seq(1..MAX_SUBDEVICES)
  /\ frame \in FrameType
  /\ cycles \in 0..MaxCycles /\ version \in 0..MaxWrites
  /\ written \in [PdiIdx -> Values]
  /\ now \in 0..MaxNow /\ dev_out \in [Addresses -> Values]
  /\ given \in [PdiIdx -> Values \cup {NotGiven}]
  /\ chunks \in Nat /\ clocks \in Nat

(***************************************************************************)
(* Properties.                                                             *)
(***************************************************************************)

\* The step is the return of a cycle with Ok.
Succeeds(t) ==
  pc[t] \in InCycle /\ pc'[t] = "idle" /\ result'.status = "ok"

\* Every chunk was processed by the SubDevices, going by the working counter
\* that is returned.
FullWkc == result'.working_counter = chunks

\* When a cycle succeeds with the expected working counter, every input of
\* the image is what the segment gave for it in this very cycle, however the
\* PDI was cut into frames.
InputsArrived ==
  \A t \in Tasks : Succeeds(t) /\ FullWkc =>
    \A k \in Inputs : pdi'[k] = given[k] /\ given[k] # NotGiven
InputsDelivered == [][InputsArrived]_vars

\* ... and the SubDevices have the outputs as the last write guard left them,
\* never those of a guard still in use, nor some from before and some from
\* after another guard.
OutputsArrived ==
  \A t \in Tasks : Succeeds(t) /\ FullWkc =>
    \A k \in Outputs : dev_out[PdiStart + k] = written[k]
OutputsDelivered == [][OutputsArrived]_vars

\* Only a write guard changes outputs: no reply is ever copied over them,
\* not in the chunk that holds inputs and outputs, not after an error.
OutputsByGuard ==
  \A k \in PdiIdx \ Inputs :
    pdi'[k] # pdi[k] => \E t \in Tasks : pc[t] = "write" /\ writer = t
OutputsKept == [][OutputsByGuard]_vars

\* A cycle that succeeds returns the state of every SubDevice of the group,
\* once and in order.
StatesReturned ==
  \A t \in Tasks : Succeeds(t) =>
    result'.subdevice_states = [i \in 1..len |-> i]
StatesComplete == [][StatesReturned]_vars

\* A cycle of the DC variants distributes the clock exactly once, also when
\* the PDI is empty; tx_rx never does.
ClockDistributed ==
  \A t \in Tasks : Succeeds(t) =>
    clocks = (IF kind[t] = "tx_rx" THEN 0 ELSE 1)
ClockOnce == [][ClockDistributed]_vars

\* Every cycle returns.
CycleEnds == \A t \in Tasks : pc[t] = "lock" ~> pc[t] = "idle"

(***************************************************************************)
(* The inductive invariant behind them.                                    *)
(***************************************************************************)

\* Who holds the lock, and for what.
LockInv ==
  /\ \A t \in Tasks : pc[t] \in InCycle \cup {"write"} => writer = t
  /\ \A t \in Tasks : pc[t] = "read" => t \in readers
  /\ writer # NoTask => readers = {}

\* The outputs are as the last guard left them, unless one is in use.
WriteInv ==
  (\A t \in Tasks : pc[t] # "write") =>
    \A k \in Outputs : pdi[k] = written[k]

\* A cycle starts with its locals at their initial values.
LocalsInv ==
  (\A t \in Tasks : pc[t] \notin InCycle) =>
    /\ total_bytes_sent = 0 /\ total_checks = 0 /\ ~time_read
    /\ lrw_wkc_sum = 0 /\ subdevice_states = <<>>
    /\ frame = EmptyFrame /\ chunks = 0 /\ clocks = 0

\* The chunk in the frame continues where the last one ended.  A frame without
\* a chunk and without the clock means that the whole PDI has been sent.
FrameInv ==
  \A t \in Tasks :
    /\ pc[t] \in {"loop", "chunk"} => frame.size = 0 /\ frame.checks = <<>>
    /\ pc[t] = "loop" => ~frame.clock
    /\ pc[t] = "chunk" =>
         frame.used = IF frame.clock THEN TimeLen + Overhead ELSE 0
    /\ pc[t] = "checks" /\ frame.size = 0 /\ ~frame.clock =>
         ChunkLen = 0 /\ (frame.checks = <<>> => frame.used = 0)
    /\ pc[t] \in InCycle /\ frame.size > 0 =>
         /\ frame.addr = PdiStart + total_bytes_sent
         /\ total_bytes_sent + frame.size <= pdi_len

\* Chunks sent and processed: all but the one in flight.
ChunksDone ==
  chunks - (IF \E t \in Tasks : pc[t] \in {"await", "replied"}
            THEN IF frame.size > 0 THEN 1 ELSE 0
            ELSE 0)

\* The working counter never exceeds the chunks, and if it has kept up with
\* them all bytes so far have been exchanged.
DataInv ==
  (\E t \in Tasks : pc[t] \in InCycle) =>
    /\ lrw_wkc_sum <= ChunksDone
    /\ lrw_wkc_sum = ChunksDone =>
         \A k \in 0..(total_bytes_sent - 1) :
           /\ k \in Inputs => pdi[k] = given[k] /\ given[k] # NotGiven
           /\ k \in Outputs => dev_out[PdiStart + k] = pdi[k]

\* What the chunk in the frame holds before and after the segment saw it.
ReplyInv ==
  \A t \in Tasks :
    /\ pc[t] \in {"checks", "await"} =>
         \A k \in 0..(frame.size - 1) :
           frame.data[k] = pdi[total_bytes_sent + k]
    /\ pc[t] = "replied" /\ frame.wkc = 1 =>
         \A k \in 0..(frame.size - 1) :
           LET b == total_bytes_sent + k IN
           /\ b \in Inputs => frame.data[k] = given[b] /\ given[b] # NotGiven
           /\ b \in Outputs => dev_out[PdiStart + b] = pdi[b]

\* The SubDevices asked so far are the first ones, in order.
StatesInv ==
  (\E t \in Tasks : pc[t] \in InCycle) =>
    /\ total_checks = Len(subdevice_states) + Len(frame.checks)
    /\ \A i \in 1..Len(subdevice_states) : subdevice_states[i] = i
    /\ \A i \in 1..Len(frame.checks) :
         frame.checks[i] = Len(subdevice_states) + i

\* The clock is in the first frame, and in no other.
ClockInv ==
  \A t \in Tasks : pc[t] \in InCycle =>
    /\ clocks = IF time_read \/ (frame.clock /\ pc[t] \in {"await", "replied"})
                THEN 1 ELSE 0
    /\ frame.clock => ~time_read
    /\ kind[t] = "tx_rx" => ~time_read /\ ~frame.clock
    /\ kind[t] # "tx_rx" /\ pc[t] # "loop" => time_read \/ frame.clock

\* The inductive invariant.
CycleInv ==
  /\ TypeOK /\ LockInv /\ WriteInv /\ LocalsInv /\ FrameInv /\ DataInv
  /\ ReplyInv /\ StatesInv /\ ClockInv
=============================================================================
