------------------------------ MODULE PduLoop ------------------------------
(***************************************************************************)
(* The PDU loop of EtherCrab: a fixed array of frame slots shared, without *)
(* locks, by the application futures that send PDUs, by the network        *)
(* driver's transmitter (PduTx) and receiver (PduRx), and by the           *)
(* MainDevice when it is released.  Every action is one atomic access to   *)
(* the shared storage (a load, store, fetch_add or compare_exchange)       *)
(* together with the private work up to the next one, so that TLC          *)
(* interleaves the actors where threads can interleave.  Accesses are      *)
(* joined in one action only where no other actor can tell: a look at the  *)
(* exit flag with the access after it, the claim of a free slot with its   *)
(* initialisation, a new PDU index with the bytes that carry it.           *)
(*                                                                         *)
(* SAME SLOT, SEVERAL PARTIES: a slot is claimed by a task (status None    *)
(* -> Created), filled, marked Sendable, claimed by TX (Sending), sent     *)
(* (Sent), claimed by RX (RxBusy), filled with the reply (RxDone), claimed *)
(* by the task's future (RxProcessing) and freed (None).  A timeout or a   *)
(* dropped future frees or re-sends the slot whatever TX and RX are doing. *)
(***************************************************************************)
EXTENDS Naturals, Sequences, FiniteSets

CONSTANTS
  N,            \* number of frame slots of PduStorage
  PduMod,       \* modulus of the PDU index: 256 (AtomicU8) in the code
  Tasks,        \* application futures that may use the loop at the same time
  NoTask,       \* "no waker registered"
  MaxReqs,      \* bound: requests per task
  MaxRetries,   \* retries_left given to mark_sendable
  MaxPdus,      \* bound: PDUs pushed into one frame
  MaxResets,    \* bound: releases of the MainDevice
  Modes,        \* how replies are consumed: "first" (single_pdu), "iter"
  Sched,        \* which actors share a thread: "coop", "driver", "preempt"
  StopOnError,  \* the driver ends on a send or receive error
  Faults        \* environment faults that may happen

FaultKinds == {"timeout", "drop", "loss", "send", "toolong", "oversize"}

ASSUME NAssumption == N \in Nat \ {0} /\ N <= 255 /\ 256 % N = 0
ASSUME PduModAssumption == PduMod \in Nat /\ N < PduMod
ASSUME TasksAssumption == NoTask \notin Tasks
ASSUME BoundsAssumption ==
  /\ MaxReqs \in Nat /\ MaxRetries \in Nat /\ MaxResets \in Nat
  /\ MaxPdus \in Nat \ {0}
ASSUME OptionsAssumption ==
  /\ Modes \subseteq {"first", "iter"} /\ Modes # {}
  /\ Sched \in {"coop", "driver", "preempt"}
  /\ StopOnError \in BOOLEAN
  /\ StopOnError => Sched # "preempt"
  /\ Faults \subseteq FaultKinds

VARIABLES
  status,      \* [slot -> FrameState]
  first_pdu,   \* [slot -> index of the first PDU, or FIRST_PDU_EMPTY]
  buf,         \* [slot -> contents of the Ethernet frame buffer]
  waker,       \* [slot -> task whose waker is registered, or NoTask]
  frame_idx,   \* next slot to try (the u8 counter modulo N, a power of two)
  pdu_idx,     \* next PDU index
  clashed,     \* history: requests whose index another live frame had too
  exit_flag,   \* the driver is asked to stop
  tx_waker,    \* a waker of the driver is registered
  tx_woken,    \* the driver has been woken and will be polled
  net,         \* replies on their way back, oldest first
  pc,          \* [task -> where its future is]
  slot,        \* [task -> slot it is trying to claim, or holds]
  was,         \* [task -> status read by the failed swap of the last poll]
  woken,       \* [task -> the executor will poll it]
  fut,         \* [task -> private data of the request]
  tx_pc, tx_i,           \* PduTx: where it is, slot it looks at or sends
  rx_pc, rx_i, rx_msg,   \* PduRx: where it is, slot, packet being received
  md_pc, md_i, md_all,   \* MainDevice being released, by release_all
  resets                 \* releases so far

slotVars == <<status, first_pdu, buf, waker>>
wakeVars == <<tx_waker, tx_woken>>
taskVars == <<pc, slot, was, woken, fut>>
txVars   == <<tx_pc, tx_i>>
rxVars   == <<rx_pc, rx_i, rx_msg>>
mdVars   == <<md_pc, md_i, md_all, resets>>
vars == <<slotVars, frame_idx, pdu_idx, clashed, exit_flag, wakeVars, net,
          taskVars, txVars, rxVars, mdVars>>

Slots  == 0..(N - 1)
PduIdx == 0..(PduMod - 1)
FIRST_PDU_EMPTY == PduMod      \* 0xff00 in the code: no u8 equals it

FrameState == {"None", "Created", "Sendable", "Sending", "Sent",
               "RxBusy", "RxDone", "RxProcessing"}

\* What the buffer holds: nothing, a request or a reply, the index of its
\* first PDU and the request (task and number) it belongs to.
Tags == (Tasks \cup {NoTask}) \X (0..MaxReqs)
Frame == [kind : {"zero", "req", "resp"}, idx : PduIdx, tag : Tags]
ZeroFrame == [kind |-> "zero", idx |-> 0, tag |-> <<NoTask, 0>>]

\* Where a task can be: between requests, in alloc_frame, filling the
\* frame, in ReceiveFrameFut::poll, waiting, consuming the reply.
TaskPc == {"idle", "alloc", "claim", "created", "abort", "marked", "wake",
           "poll", "swap", "timer", "rewake", "pending",
           "received", "free", "clear", "read", "panicked"}
Outcome == {"none", "ok", "SwapState", "TooLong", "Timeout",
            "InvalidFrameState", "InvalidIndex", "dropped"}

FutData == [req : 0..MaxReqs,       \* number of the request
            mode : {"first", "iter"},
            tries : 0..(2 * N),     \* slots tried by alloc_frame
            pushed : 0..MaxPdus,    \* PDUs in the frame
            handle : PduIdx,        \* PduResponseHandle::pdu_idx of the first
            retries : 0..MaxRetries,
            expired : BOOLEAN,      \* the timeout timer has fired
            outcome : Outcome,      \* how the last request ended
            got : Frame]            \* what the application read

\* Pcs at which a task has claimed its slot and not yet freed it.
Holding == {"created", "abort", "marked", "wake", "poll", "swap", "timer",
            "rewake", "pending", "received", "free"}
\* ... and holds it through a ReceiveFrameFut, a frame it gave to the driver.
InFlight == {"marked", "wake", "poll", "swap", "timer", "rewake", "pending"}

Owns(t, s) == pc[t] \in Holding /\ slot[t] = s
MyTag(t) == <<t, fut[t].req>>

\* The tasks that have a frame whose first PDU has index i.
Carries(t) == \/ pc[t] = "created" /\ fut[t].pushed > 0
              \/ pc[t] \in InFlight \cup {"received", "free"}
Carriers(i) == {t \in Tasks : Carries(t) /\ fut[t].handle = i}

Init ==
  /\ status = [s \in Slots |-> "None"]
  /\ first_pdu = [s \in Slots |-> 0]      \* MaybeUninit::zeroed, not EMPTY
  /\ buf = [s \in Slots |-> ZeroFrame]
  /\ waker = [s \in Slots |-> NoTask]
  /\ frame_idx = 0 /\ pdu_idx = 0 /\ clashed = {} /\ exit_flag = FALSE
  /\ tx_waker = FALSE /\ tx_woken = TRUE
  /\ net = <<>>
  /\ pc = [t \in Tasks |-> "idle"]
  /\ slot = [t \in Tasks |-> 0]
  /\ was = [t \in Tasks |-> "None"]
  /\ woken = [t \in Tasks |-> FALSE]
  /\ fut = [t \in Tasks |->
       [req |-> 0, mode |-> "first", tries |-> 0, pushed |-> 0, handle |-> 0,
        retries |-> 0, expired |-> FALSE, outcome |-> "none",
        got |-> ZeroFrame]]
  /\ tx_pc = "parked" /\ tx_i = 0
  /\ rx_pc = "idle" /\ rx_i = 0 /\ rx_msg = ZeroFrame
  /\ md_pc = "run" /\ md_i = 0 /\ md_all = FALSE /\ resets = 0

(***************************************************************************)
(* Scheduling.  Under "coop" every actor runs on one executor thread and   *)
(* is interrupted only where its future returns; under "driver" the tasks  *)
(* share one thread and TX/RX another (the std drivers); under "preempt"   *)
(* every actor has a thread of its own (the crate's own tests).            *)
(***************************************************************************)
TaskBusy(t) == pc[t] \notin {"idle", "pending", "panicked"}
TxBusy == tx_pc \notin {"parked", "stopped", "failed"}
RxBusy == rx_pc \notin {"idle", "stopped", "failed"}

TaskMayRun(t) ==
  Sched # "preempt" =>
    /\ \A u \in Tasks \ {t} : ~TaskBusy(u)
    /\ md_pc = "run"
    /\ Sched = "coop" => ~TxBusy /\ ~RxBusy
TxMayRun ==
  Sched # "preempt" =>
    /\ ~RxBusy
    /\ Sched = "coop" => md_pc = "run" /\ \A t \in Tasks : ~TaskBusy(t)
RxMayRun ==
  Sched # "preempt" =>
    /\ ~TxBusy
    /\ Sched = "coop" => md_pc = "run" /\ \A t \in Tasks : ~TaskBusy(t)
MdMayRun == Sched = "coop" => ~TxBusy /\ ~RxBusy

(***************************************************************************)
(* The atomic wakers.  wake() takes the registered waker, if any.          *)
(***************************************************************************)
WakeSender ==
  /\ tx_woken' = (tx_woken \/ tx_waker)
  /\ tx_waker' = FALSE

\* The request ends with private data f, all of it but the result forgotten.
Finish(t, f) ==
  /\ pc' = [pc EXCEPT ![t] = "idle"]
  /\ woken' = [woken EXCEPT ![t] = FALSE]
  /\ fut' = [fut EXCEPT ![t] = [f EXCEPT
               !.tries = 0, !.pushed = 0, !.handle = 0, !.retries = 0,
               !.expired = FALSE]]

\* fut[t] with its result set to r.
Result(t, r) == [fut[t] EXCEPT !.outcome = r]

(***************************************************************************)
(* Application tasks: PduStorageRef::alloc_frame.                          *)
(***************************************************************************)

\* MainDevice::single_pdu, pdu_broadcast_zeros or a group's tx_rx starts.
StartRequest(t, m) ==
  /\ pc[t] = "idle" /\ TaskMayRun(t) /\ md_pc = "run"
  /\ fut[t].req < MaxReqs
  /\ pc' = [pc EXCEPT ![t] = "alloc"]
  /\ fut' = [fut EXCEPT ![t] = [@ EXCEPT !.req = fut[t].req + 1, !.mode = m,
                          !.outcome = "none", !.got = ZeroFrame]]
  /\ UNCHANGED <<slotVars, frame_idx, pdu_idx, clashed, exit_flag, wakeVars,
                 net, slot, was, woken, txVars, rxVars, mdVars>>

\* One turn of the loop: frame_idx.fetch_add(1) picks the slot to try.
AllocNext(t) ==
  /\ pc[t] = "alloc" /\ TaskMayRun(t)
  /\ fut[t].tries < 2 * N
  /\ slot' = [slot EXCEPT ![t] = frame_idx]
  /\ frame_idx' = (frame_idx + 1) % N
  /\ fut' = [fut EXCEPT ![t] = [@ EXCEPT !.tries = fut[t].tries + 1]]
  /\ pc' = [pc EXCEPT ![t] = "claim"]
  /\ UNCHANGED <<slotVars, pdu_idx, clashed, exit_flag, wakeVars, net, was,
                 woken, txVars, rxVars, mdVars>>

\* Searched twice and found no free slot: Err(PduError::SwapState).
AllocFail(t) ==
  /\ pc[t] = "alloc" /\ TaskMayRun(t)
  /\ fut[t].tries = 2 * N
  /\ Finish(t, Result(t, "SwapState"))
  /\ UNCHANGED <<slotVars, frame_idx, pdu_idx, clashed, exit_flag, wakeVars,
                 net, slot, was, txVars, rxVars, mdVars>>

\* Mutant: a store instead of a swap.
ClaimCreatedStore(t) ==
  LET s == slot[t] IN
  /\ pc[t] = "claim" /\ TaskMayRun(t)
  /\ status' = [status EXCEPT ![s] = "Created"]
  /\ waker' = [waker EXCEPT ![s] = NoTask]
  /\ first_pdu' = [first_pdu EXCEPT ![s] = FIRST_PDU_EMPTY]
  /\ buf' = [buf EXCEPT ![s] = ZeroFrame]
  /\ pc' = [pc EXCEPT ![t] = "created"]
  /\ UNCHANGED <<frame_idx, pdu_idx, clashed, exit_flag, wakeVars, net, slot,
                 was, woken, fut, txVars, rxVars, mdVars>>

\* claim_created: swap None -> Created, then FrameBox::init overwrites the
\* waker, the first PDU sentinel and the payload.
ClaimCreated(t) ==
  LET s == slot[t] IN
  /\ pc[t] = "claim" /\ TaskMayRun(t)
  /\ IF status[s] = "None"
     THEN /\ status' = [status EXCEPT ![s] = "Created"]
          /\ waker' = [waker EXCEPT ![s] = NoTask]
          /\ first_pdu' = [first_pdu EXCEPT ![s] = FIRST_PDU_EMPTY]
          /\ buf' = [buf EXCEPT ![s] = ZeroFrame]
          /\ pc' = [pc EXCEPT ![t] = "created"]
     ELSE /\ pc' = [pc EXCEPT ![t] = "alloc"]
          /\ UNCHANGED slotVars
  /\ UNCHANGED <<frame_idx, pdu_idx, clashed, exit_flag, wakeVars, net, slot,
                 was, woken, fut, txVars, rxVars, mdVars>>

(***************************************************************************)
(* CreatedFrame.                                                           *)
(***************************************************************************)

\* Index i is that of a frame, or of a reply under way.
InUse(i) ==
  \/ Carriers(i) # {}
  \/ \E k \in 1..Len(net) : net[k].idx = i
  \/ RxBusy /\ rx_msg.idx = i

\* push_pdu: take the next PDU index, write header and data, record the
\* index as the frame's first one unless a PDU is there already.
PushPdu(t) ==
  LET s == slot[t] IN
  /\ pc[t] = "created" /\ TaskMayRun(t)
  /\ fut[t].pushed < MaxPdus
  /\ pdu_idx' = (pdu_idx + 1) % PduMod
  /\ first_pdu' = [first_pdu EXCEPT
                     ![s] = IF @ = FIRST_PDU_EMPTY THEN pdu_idx ELSE @]
  /\ IF fut[t].pushed = 0
     THEN /\ buf' = [buf EXCEPT ![s] = [kind |-> "req", idx |-> pdu_idx,
                                        tag |-> MyTag(t)]]
          /\ fut' = [fut EXCEPT ![t] = [@ EXCEPT
                        !.pushed = fut[t].pushed + 1, !.handle = pdu_idx]]
     ELSE /\ fut' = [fut EXCEPT ![t] = [@ EXCEPT
                        !.pushed = fut[t].pushed + 1]]
          /\ UNCHANGED buf
  /\ clashed' = clashed \cup
       IF fut[t].pushed = 0 /\ InUse(pdu_idx)
       THEN {MyTag(t)} \cup {MyTag(u) : u \in Carriers(pdu_idx)} ELSE {}
  /\ UNCHANGED <<status, waker, frame_idx, exit_flag, wakeVars, net, pc, slot,
                 was, woken, txVars, rxVars, mdVars>>

\* push_pdu fails: the index is consumed, the CreatedFrame will be dropped.
PushTooLong(t) ==
  /\ pc[t] = "created" /\ TaskMayRun(t)
  /\ "toolong" \in Faults
  /\ pdu_idx' = (pdu_idx + 1) % PduMod
  /\ pc' = [pc EXCEPT ![t] = "abort"]
  /\ UNCHANGED <<slotVars, frame_idx, clashed, exit_flag, wakeVars, net, slot,
                 was, woken, fut, txVars, rxVars, mdVars>>

\* mark_sendable: an unconditional store; the timer and the retry counter
\* of the ReceiveFrameFut start here.
MarkSendable(t) ==
  /\ pc[t] = "created" /\ TaskMayRun(t)
  /\ fut[t].pushed > 0
  /\ status' = [status EXCEPT ![slot[t]] = "Sendable"]
  /\ fut' = [fut EXCEPT ![t] = [@ EXCEPT !.retries = MaxRetries,
                                         !.expired = FALSE]]
  /\ pc' = [pc EXCEPT ![t] = "marked"]
  /\ UNCHANGED <<first_pdu, buf, waker, frame_idx, pdu_idx, clashed, exit_flag,
                 wakeVars, net, slot, was, woken, txVars, rxVars, mdVars>>

\* Mutant: the drop frees the slot whatever its status.
DropCreatedAlways(t) ==
  /\ pc[t] \in {"marked", "abort"} /\ TaskMayRun(t)
  /\ status' = [status EXCEPT ![slot[t]] = "None"]
  /\ IF pc[t] = "marked"
     THEN pc' = [pc EXCEPT ![t] = "wake"] /\ UNCHANGED <<fut, woken>>
     ELSE Finish(t, Result(t, "TooLong"))
  /\ UNCHANGED <<first_pdu, buf, waker, frame_idx, pdu_idx, clashed, exit_flag,
                 wakeVars, net, slot, was, txVars, rxVars, mdVars>>

\* Drop for CreatedFrame, at the end of mark_sendable (FrameBox is Copy, the
\* consumed CreatedFrame is still dropped) and when a push failed.
DropCreated(t) ==
  LET s == slot[t] IN
  /\ pc[t] \in {"marked", "abort"} /\ TaskMayRun(t)
  /\ status' = [status EXCEPT ![s] = IF @ = "Created" THEN "None" ELSE @]
  /\ IF pc[t] = "marked"
     THEN pc' = [pc EXCEPT ![t] = "wake"] /\ UNCHANGED <<fut, woken>>
     ELSE Finish(t, Result(t, "TooLong"))
  /\ UNCHANGED <<first_pdu, buf, waker, frame_idx, pdu_idx, clashed, exit_flag,
                 wakeVars, net, slot, was, txVars, rxVars, mdVars>>

\* PduLoop::wake_sender, then the future is awaited and polled at once.
TaskWakeSender(t) ==
  /\ pc[t] = "wake" /\ TaskMayRun(t)
  /\ WakeSender
  /\ pc' = [pc EXCEPT ![t] = "poll"]
  /\ UNCHANGED <<slotVars, frame_idx, pdu_idx, clashed, exit_flag, net, slot,
                 was, woken, fut, txVars, rxVars, mdVars>>

(***************************************************************************)
(* ReceiveFrameFut::poll and drop.                                         *)
(***************************************************************************)

\* The executor polls a woken task again.
Resume(t) ==
  /\ pc[t] = "pending" /\ woken[t] /\ TaskMayRun(t)
  /\ woken' = [woken EXCEPT ![t] = FALSE]
  /\ pc' = [pc EXCEPT ![t] = "poll"]
  /\ UNCHANGED <<slotVars, frame_idx, pdu_idx, clashed, exit_flag, wakeVars,
                 net, slot, was, fut, txVars, rxVars, mdVars>>

\* replace_waker, before the status is looked at.
PollRegister(t) ==
  /\ pc[t] = "poll" /\ TaskMayRun(t)
  /\ waker' = [waker EXCEPT ![slot[t]] = t]
  /\ pc' = [pc EXCEPT ![t] = "swap"]
  /\ UNCHANGED <<status, first_pdu, buf, frame_idx, pdu_idx, clashed,
                 exit_flag, wakeVars, net, slot, was, woken, fut, txVars,
                 rxVars, mdVars>>

\* Mutant: a frame RX is still busy with is taken too.
PollSwapBusy(t) ==
  LET s == slot[t] IN
  /\ pc[t] = "swap" /\ TaskMayRun(t)
  /\ IF status[s] \in {"RxBusy", "RxDone"}
     THEN /\ status' = [status EXCEPT ![s] = "RxProcessing"]
          /\ pc' = [pc EXCEPT ![t] = "received"]
          /\ UNCHANGED was
     ELSE /\ was' = [was EXCEPT ![t] = status[s]]
          /\ pc' = [pc EXCEPT ![t] = "timer"]
          /\ UNCHANGED status
  /\ UNCHANGED <<first_pdu, buf, waker, frame_idx, pdu_idx, clashed, exit_flag,
                 wakeVars, net, slot, woken, fut, txVars, rxVars, mdVars>>

\* swap RxDone -> RxProcessing: the reply is there, or remember the status.
PollSwap(t) ==
  LET s == slot[t] IN
  /\ pc[t] = "swap" /\ TaskMayRun(t)
  /\ IF status[s] = "RxDone"
     THEN /\ status' = [status EXCEPT ![s] = "RxProcessing"]
          /\ pc' = [pc EXCEPT ![t] = "received"]
          /\ UNCHANGED was
     ELSE /\ was' = [was EXCEPT ![t] = status[s]]
          /\ pc' = [pc EXCEPT ![t] = "timer"]
          /\ UNCHANGED status
  /\ UNCHANGED <<first_pdu, buf, waker, frame_idx, pdu_idx, clashed, exit_flag,
                 wakeVars, net, slot, woken, fut, txVars, rxVars, mdVars>>

\* The last match of poll: wait on, or give up with InvalidFrameState; the
\* frame is then neither kept nor freed.
MatchWas(t, f) ==
  /\ was' = [was EXCEPT ![t] = "None"]
  /\ IF was[t] \in {"Sendable", "Sending", "Sent", "RxBusy"}
     THEN /\ pc' = [pc EXCEPT ![t] = "pending"]
          /\ fut' = [fut EXCEPT ![t] = f]
          /\ UNCHANGED woken
     ELSE Finish(t, [f EXCEPT !.outcome = "InvalidFrameState"])

\* The timer has not fired.
PollPending(t) ==
  /\ pc[t] = "timer" /\ TaskMayRun(t)
  /\ ~fut[t].expired
  /\ MatchWas(t, fut[t])
  /\ UNCHANGED <<slotVars, frame_idx, pdu_idx, clashed, exit_flag, wakeVars,
                 net, slot, txVars, rxVars, mdVars>>

\* The timer fired and no retry is left: free the slot, whatever its status.
PollTimeout(t) ==
  /\ pc[t] = "timer" /\ TaskMayRun(t)
  /\ fut[t].expired /\ fut[t].retries = 0
  /\ status' = [status EXCEPT ![slot[t]] = "None"]
  /\ was' = [was EXCEPT ![t] = "None"]
  /\ Finish(t, Result(t, "Timeout"))
  /\ UNCHANGED <<first_pdu, buf, waker, frame_idx, pdu_idx, clashed, exit_flag,
                 wakeVars, net, slot, txVars, rxVars, mdVars>>

\* Mutant: the retry does not wake the sender.
PollRetryQuiet(t) ==
  /\ pc[t] = "timer" /\ TaskMayRun(t)
  /\ fut[t].expired /\ fut[t].retries > 0
  /\ status' = [status EXCEPT ![slot[t]] = "Sendable"]
  /\ was' = [was EXCEPT ![t] = "None"]
  /\ fut' = [fut EXCEPT ![t] = [@ EXCEPT !.expired = FALSE,
                                         !.retries = fut[t].retries - 1]]
  /\ pc' = [pc EXCEPT ![t] = "pending"]
  /\ UNCHANGED <<first_pdu, buf, waker, frame_idx, pdu_idx, clashed, exit_flag,
                 wakeVars, net, slot, woken, txVars, rxVars, mdVars>>

\* The timer fired with retries left: a new timer, and the slot is marked
\* Sendable again, whatever its status.
PollRetry(t) ==
  /\ pc[t] = "timer" /\ TaskMayRun(t)
  /\ fut[t].expired /\ fut[t].retries > 0
  /\ status' = [status EXCEPT ![slot[t]] = "Sendable"]
  /\ fut' = [fut EXCEPT ![t] = [@ EXCEPT !.expired = FALSE,
                                         !.retries = fut[t].retries - 1]]
  /\ pc' = [pc EXCEPT ![t] = "rewake"]
  /\ UNCHANGED <<first_pdu, buf, waker, frame_idx, pdu_idx, clashed, exit_flag,
                 wakeVars, net, slot, was, woken, txVars, rxVars, mdVars>>

\* ... then the sender is woken and the poll returns.
PollRewake(t) ==
  /\ pc[t] = "rewake" /\ TaskMayRun(t)
  /\ WakeSender
  /\ MatchWas(t, fut[t])
  /\ UNCHANGED <<slotVars, frame_idx, pdu_idx, clashed, exit_flag, net, slot,
                 txVars, rxVars, mdVars>>

\* Mutant: the timer wakes nobody.
TimerExpiresQuiet(t) ==
  /\ "timeout" \in Faults
  /\ pc[t] \in InFlight /\ ~fut[t].expired
  /\ fut' = [fut EXCEPT ![t] = [@ EXCEPT !.expired = TRUE]]
  /\ UNCHANGED <<slotVars, frame_idx, pdu_idx, clashed, exit_flag, wakeVars,
                 net, pc, slot, was, woken, txVars, rxVars, mdVars>>

\* The PDU timeout elapses.  The timer wakes a task whose last poll has
\* registered with it; a poll that is still to look at it sees it expired.
TimerExpires(t) ==
  /\ "timeout" \in Faults
  /\ pc[t] \in InFlight /\ ~fut[t].expired
  /\ fut' = [fut EXCEPT ![t] = [@ EXCEPT !.expired = TRUE]]
  /\ woken' = [woken EXCEPT ![t] = @ \/ pc[t] \in {"rewake", "pending"}]
  /\ UNCHANGED <<slotVars, frame_idx, pdu_idx, clashed, exit_flag, wakeVars,
                 net, pc, slot, was, txVars, rxVars, mdVars>>

\* Mutant: the Drop impl of ReceiveFrameFut is removed.
DropFutureKeeps(t) ==
  /\ "drop" \in Faults
  /\ pc[t] = "pending" /\ TaskMayRun(t)
  /\ Finish(t, Result(t, "dropped"))
  /\ UNCHANGED <<slotVars, frame_idx, pdu_idx, clashed, exit_flag, wakeVars,
                 net, slot, was, txVars, rxVars, mdVars>>

\* Drop for ReceiveFrameFut: an outer timeout or select drops a waiting
\* future.  The slot is freed whatever its status.
DropFuture(t) ==
  /\ "drop" \in Faults
  /\ pc[t] = "pending" /\ TaskMayRun(t)
  /\ status' = [status EXCEPT ![slot[t]] = "None"]
  /\ Finish(t, Result(t, "dropped"))
  /\ UNCHANGED <<first_pdu, buf, waker, frame_idx, pdu_idx, clashed, exit_flag,
                 wakeVars, net, slot, was, txVars, rxVars, mdVars>>

(***************************************************************************)
(* ReceivedFrame.                                                          *)
(***************************************************************************)

\* into_pdu_iter: the frame is kept while its PDUs are read; the index in
\* the reply is not compared with the handle.
IterRead(t) ==
  /\ pc[t] = "received" /\ TaskMayRun(t)
  /\ fut[t].mode = "iter"
  /\ fut' = [fut EXCEPT ![t] = [@ EXCEPT !.outcome = "ok",
                                         !.got = buf[slot[t]]]]
  /\ pc' = [pc EXCEPT ![t] = "free"]
  /\ UNCHANGED <<slotVars, frame_idx, pdu_idx, clashed, exit_flag, wakeVars,
                 net, slot, was, woken, txVars, rxVars, mdVars>>

\* first_pdu(handle): the reply must carry the index of the request.  The
\* frame is consumed: it is dropped before its data is read.
FirstPduCheck(t) ==
  /\ pc[t] = "received" /\ TaskMayRun(t)
  /\ fut[t].mode = "first"
  /\ fut' = [fut EXCEPT ![t] = Result(t,
               IF buf[slot[t]].idx = fut[t].handle THEN "ok"
                                                   ELSE "InvalidIndex")]
  /\ pc' = [pc EXCEPT ![t] = "free"]
  /\ UNCHANGED <<slotVars, frame_idx, pdu_idx, clashed, exit_flag, wakeVars,
                 net, slot, was, woken, txVars, rxVars, mdVars>>

\* Drop for ReceivedFrame, first access: unwrap(swap RxProcessing -> None).
DropReceived(t) ==
  LET s == slot[t] IN
  /\ pc[t] = "free" /\ TaskMayRun(t)
  /\ IF status[s] = "RxProcessing"
     THEN /\ status' = [status EXCEPT ![s] = "None"]
          /\ pc' = [pc EXCEPT ![t] = "clear"]
     ELSE /\ pc' = [pc EXCEPT ![t] = "panicked"]
          /\ UNCHANGED status
  /\ UNCHANGED <<first_pdu, buf, waker, frame_idx, pdu_idx, clashed, exit_flag,
                 wakeVars, net, slot, was, woken, fut, txVars, rxVars, mdVars>>

\* Drop for ReceivedFrame, second access: clear_first_pdu.
ClearFirstPdu(t) ==
  /\ pc[t] = "clear" /\ TaskMayRun(t)
  /\ first_pdu' = [first_pdu EXCEPT ![slot[t]] = FIRST_PDU_EMPTY]
  /\ IF fut[t].mode = "first" /\ fut[t].outcome = "ok"
     THEN pc' = [pc EXCEPT ![t] = "read"] /\ UNCHANGED <<fut, woken>>
     ELSE Finish(t, fut[t])
  /\ UNCHANGED <<status, buf, waker, frame_idx, pdu_idx, clashed, exit_flag,
                 wakeVars, net, slot, was, txVars, rxVars, mdVars>>

\* The ReceivedPdu returned by first_pdu is dereferenced by the caller.
ReadPdu(t) ==
  /\ pc[t] = "read" /\ TaskMayRun(t)
  /\ Finish(t, [fut[t] EXCEPT !.got = buf[slot[t]]])
  /\ UNCHANGED <<slotVars, frame_idx, pdu_idx, clashed, exit_flag, wakeVars,
                 net, slot, was, txVars, rxVars, mdVars>>

(***************************************************************************)
(* PduTx and the sending half of a driver (std/unix TxRxFut).              *)
(***************************************************************************)

\* Mutant: the driver does not register its waker.
TxPollUnregistered ==
  /\ tx_pc = "parked" /\ tx_woken /\ ~exit_flag /\ TxMayRun
  /\ tx_woken' = FALSE
  /\ tx_pc' = "scan" /\ tx_i' = 0
  /\ UNCHANGED <<slotVars, frame_idx, pdu_idx, clashed, exit_flag, tx_waker,
                 net, taskVars, rxVars, mdVars>>

\* The driver is polled: register its waker, then look at the exit flag.
TxPoll ==
  /\ tx_pc = "parked" /\ tx_woken /\ ~exit_flag /\ TxMayRun
  /\ tx_woken' = FALSE /\ tx_waker' = TRUE
  /\ tx_pc' = "scan" /\ tx_i' = 0
  /\ UNCHANGED <<slotVars, frame_idx, pdu_idx, clashed, exit_flag, net,
                 taskVars, rxVars, mdVars>>

\* ... it is set: both halves are released, which clears the flag, and the
\* socket is closed.
DriverExit ==
  /\ tx_pc = "parked" /\ tx_woken /\ exit_flag /\ TxMayRun
  /\ rx_pc = "idle"
  /\ tx_woken' = FALSE /\ tx_waker' = TRUE
  /\ tx_pc' = "stopped" /\ rx_pc' = "stopped"
  /\ exit_flag' = FALSE /\ net' = <<>>
  /\ UNCHANGED <<slotVars, frame_idx, pdu_idx, clashed, taskVars, tx_i, rx_i,
                 rx_msg, mdVars>>

\* The application spawns a driver again with the released halves.
DriverRestart ==
  /\ tx_pc = "stopped" /\ md_pc = "run"
  /\ tx_pc' = "parked" /\ rx_pc' = "idle" /\ tx_woken' = TRUE
  /\ UNCHANGED <<slotVars, frame_idx, pdu_idx, clashed, exit_flag, tx_waker,
                 net, taskVars, tx_i, rx_i, rx_msg, mdVars>>

\* next_sendable_frame: nothing left to send, or asked to exit.
TxScanEnd ==
  /\ tx_pc = "scan" /\ TxMayRun
  /\ tx_i = N \/ exit_flag
  /\ tx_pc' = "parked" /\ tx_i' = 0
  /\ UNCHANGED <<slotVars, frame_idx, pdu_idx, clashed, exit_flag, wakeVars,
                 net, taskVars, rxVars, mdVars>>

\* next_sendable_frame: swap Sendable -> Sending, else try the next slot.
ClaimSending ==
  /\ tx_pc = "scan" /\ TxMayRun
  /\ tx_i < N /\ ~exit_flag
  /\ IF status[tx_i] = "Sendable"
     THEN /\ status' = [status EXCEPT ![tx_i] = "Sending"]
          /\ tx_pc' = "send"
          /\ UNCHANGED tx_i
     ELSE /\ tx_i' = tx_i + 1
          /\ UNCHANGED <<status, tx_pc>>
  /\ UNCHANGED <<first_pdu, buf, waker, frame_idx, pdu_idx, clashed, exit_flag,
                 wakeVars, net, taskVars, rxVars, mdVars>>

\* send_blocking: the buffer's bytes go to the network, whose SubDevices
\* answer the PDUs in it and pass the frame back.
SendFrame ==
  /\ tx_pc = "send" /\ TxMayRun
  /\ net' = Append(net, [buf[tx_i] EXCEPT !.kind = "resp"])
  /\ tx_pc' = "sent"
  /\ UNCHANGED <<slotVars, frame_idx, pdu_idx, clashed, exit_flag, wakeVars,
                 taskVars, tx_i, rxVars, mdVars>>

\* mark_sent: an unconditional store; then the scan starts over.
MarkSent ==
  /\ tx_pc = "sent" /\ TxMayRun
  /\ status' = [status EXCEPT ![tx_i] = "Sent"]
  /\ tx_pc' = "scan" /\ tx_i' = 0
  /\ UNCHANGED <<first_pdu, buf, waker, frame_idx, pdu_idx, clashed, exit_flag,
                 wakeVars, net, taskVars, rxVars, mdVars>>

\* What a driver does after an error: end, or carry on.
DriverError ==
  IF StopOnError THEN tx_pc' = "failed" /\ rx_pc' = "failed"
                 ELSE rx_pc' = "idle" /\ UNCHANGED tx_pc

\* Mutant: release_sending_claim frees the slot.
SendFailsFrees ==
  /\ "send" \in Faults
  /\ tx_pc = "send" /\ TxMayRun
  /\ status' = [status EXCEPT ![tx_i] = "None"]
  /\ IF StopOnError
     THEN tx_pc' = "failed" /\ rx_pc' = "failed" /\ UNCHANGED tx_woken
     ELSE tx_pc' = "parked" /\ tx_woken' = TRUE /\ UNCHANGED rx_pc
  /\ tx_i' = 0
  /\ UNCHANGED <<first_pdu, buf, waker, frame_idx, pdu_idx, clashed, exit_flag,
                 tx_waker, net, taskVars, rx_i, rx_msg, mdVars>>

\* The socket fails, would block, or takes part of the frame:
\* release_sending_claim stores Sendable, the driver gets an error.
SendFails ==
  /\ "send" \in Faults
  /\ tx_pc = "send" /\ TxMayRun
  /\ status' = [status EXCEPT ![tx_i] = "Sendable"]
  /\ IF StopOnError
     THEN tx_pc' = "failed" /\ rx_pc' = "failed" /\ UNCHANGED tx_woken
     ELSE tx_pc' = "parked" /\ tx_woken' = TRUE /\ UNCHANGED rx_pc
  /\ tx_i' = 0
  /\ UNCHANGED <<first_pdu, buf, waker, frame_idx, pdu_idx, clashed, exit_flag,
                 tx_waker, net, taskVars, rx_i, rx_msg, mdVars>>

(***************************************************************************)
(* PduRx::receive_frame.                                                   *)
(***************************************************************************)

\* A packet arrives; it is ignored if the loop is exiting.  A driver that is
\* one future (TxRxFut) wakes itself for the packets and frames that follow.
RxTake ==
  /\ rx_pc = "idle" /\ net # <<>> /\ RxMayRun
  /\ net' = Tail(net)
  /\ tx_woken' = (tx_woken \/ Sched # "preempt")
  /\ IF exit_flag
     THEN UNCHANGED rxVars
     ELSE rx_pc' = "search" /\ rx_i' = 0 /\ rx_msg' = Head(net)
  /\ UNCHANGED <<slotVars, frame_idx, pdu_idx, clashed, exit_flag, tx_waker,
                 taskVars, txVars, mdVars>>

\* The reception ends in an error.
RxError ==
  /\ DriverError
  /\ rx_i' = 0 /\ rx_msg' = ZeroFrame
  /\ UNCHANGED <<slotVars, frame_idx, pdu_idx, clashed, exit_flag, wakeVars,
                 net, taskVars, tx_i, mdVars>>

\* frame_index_by_first_pdu_index: one slot of the linear search.
RxSearch ==
  /\ rx_pc = "search" /\ RxMayRun
  /\ rx_i < N
  /\ IF first_pdu[rx_i] = rx_msg.idx
     THEN rx_pc' = "claim" /\ UNCHANGED rx_i
     ELSE rx_i' = rx_i + 1 /\ UNCHANGED rx_pc
  /\ UNCHANGED <<slotVars, frame_idx, pdu_idx, clashed, exit_flag, wakeVars,
                 net, taskVars, txVars, rx_msg, mdVars>>

\* No slot has that first PDU: PduError::Decode.
RxUnknown ==
  /\ rx_pc = "search" /\ RxMayRun
  /\ rx_i = N
  /\ RxError

\* claim_receiving: swap Sent -> RxBusy.
ClaimReceiving ==
  /\ rx_pc = "claim" /\ RxMayRun
  /\ status[rx_i] = "Sent"
  /\ status' = [status EXCEPT ![rx_i] = "RxBusy"]
  /\ rx_pc' = "copy"
  /\ UNCHANGED <<first_pdu, buf, waker, frame_idx, pdu_idx, clashed, exit_flag,
                 wakeVars, net, taskVars, txVars, rx_i, rx_msg, mdVars>>

\* ... the slot is not waiting for a reply: PduError::InvalidIndex.
ClaimReceivingFails ==
  /\ rx_pc = "claim" /\ RxMayRun
  /\ status[rx_i] # "Sent"
  /\ RxError

\* The reply's PDUs are copied over the request's.
RxCopy ==
  /\ rx_pc = "copy" /\ RxMayRun
  /\ buf' = [buf EXCEPT ![rx_i] = rx_msg]
  /\ rx_pc' = "mark"
  /\ UNCHANGED <<status, first_pdu, waker, frame_idx, pdu_idx, clashed,
                 exit_flag, wakeVars, net, taskVars, txVars, rx_i, rx_msg,
                 mdVars>>

\* Mutant: the length is checked after the copy.
RxOversizeLate ==
  /\ "oversize" \in Faults
  /\ rx_pc = "copy" /\ RxMayRun
  /\ buf' = [buf EXCEPT ![rx_i] = rx_msg]
  /\ DriverError
  /\ rx_i' = 0 /\ rx_msg' = ZeroFrame
  /\ UNCHANGED <<status, first_pdu, waker, frame_idx, pdu_idx, clashed,
                 exit_flag, wakeVars, net, taskVars, tx_i, mdVars>>

\* The reply does not fit the slot: Error::Internal, the slot stays RxBusy.
RxOversize ==
  /\ "oversize" \in Faults
  /\ rx_pc = "copy" /\ RxMayRun
  /\ RxError

\* Mutant: a store instead of a swap.
MarkReceivedStore ==
  /\ rx_pc = "mark" /\ RxMayRun
  /\ status' = [status EXCEPT ![rx_i] = "RxDone"]
  /\ rx_pc' = "wake"
  /\ UNCHANGED <<first_pdu, buf, waker, frame_idx, pdu_idx, clashed, exit_flag,
                 wakeVars, net, taskVars, txVars, rx_i, rx_msg, mdVars>>

\* Mutant: the future is not woken.
MarkReceivedQuiet ==
  /\ rx_pc = "mark" /\ RxMayRun
  /\ status[rx_i] = "RxBusy"
  /\ status' = [status EXCEPT ![rx_i] = "RxDone"]
  /\ rx_pc' = "idle" /\ rx_i' = 0 /\ rx_msg' = ZeroFrame
  /\ UNCHANGED <<first_pdu, buf, waker, frame_idx, pdu_idx, clashed, exit_flag,
                 wakeVars, net, taskVars, txVars, mdVars>>

\* mark_received: swap RxBusy -> RxDone.
MarkReceived ==
  /\ rx_pc = "mark" /\ RxMayRun
  /\ status[rx_i] = "RxBusy"
  /\ status' = [status EXCEPT ![rx_i] = "RxDone"]
  /\ rx_pc' = "wake"
  /\ UNCHANGED <<first_pdu, buf, waker, frame_idx, pdu_idx, clashed, exit_flag,
                 wakeVars, net, taskVars, txVars, rx_i, rx_msg, mdVars>>

\* ... the slot was taken back meanwhile: PduError::InvalidFrameState.
MarkReceivedFails ==
  /\ rx_pc = "mark" /\ RxMayRun
  /\ status[rx_i] # "RxBusy"
  /\ RxError

\* mark_received wakes the waiting future, if its waker is there.  A stale
\* waker may belong to a task between requests, on which it has no effect.
RxWake ==
  /\ rx_pc = "wake" /\ RxMayRun
  /\ woken' = [t \in Tasks |->
                woken[t] \/ (waker[rx_i] = t /\ pc[t] # "idle")]
  /\ waker' = [waker EXCEPT ![rx_i] = NoTask]
  /\ rx_pc' = "idle" /\ rx_i' = 0 /\ rx_msg' = ZeroFrame
  /\ UNCHANGED <<status, first_pdu, buf, frame_idx, pdu_idx, clashed,
                 exit_flag, wakeVars, net, pc, slot, was, fut, txVars, mdVars>>

\* The network loses a frame.
Lose ==
  /\ "loss" \in Faults
  /\ net # <<>>
  /\ net' = Tail(net)
  /\ UNCHANGED <<slotVars, frame_idx, pdu_idx, clashed, exit_flag, wakeVars,
                 taskVars, txVars, rxVars, mdVars>>

(***************************************************************************)
(* MainDevice::release and release_all.  They consume the MainDevice, so   *)
(* no future that borrows it is alive; TX and RX may be at work.           *)
(***************************************************************************)

\* release_all starts with the exit flag, release with the counters.
Release ==
  /\ md_pc = "run" /\ resets < MaxResets /\ MdMayRun
  /\ \A t \in Tasks : pc[t] = "idle"
  /\ resets' = resets + 1
  /\ \/ md_pc' = "counters" /\ md_all' = FALSE /\ UNCHANGED exit_flag
     \/ md_pc' = "wake" /\ md_all' = TRUE /\ exit_flag' = TRUE
  /\ UNCHANGED <<slotVars, frame_idx, pdu_idx, clashed, wakeVars, net,
                 taskVars, txVars, rxVars, md_i>>

\* Mutant: the driver is not woken.
ReleaseQuiet ==
  /\ md_pc \in {"wake", "last"} /\ MdMayRun
  /\ md_pc' = IF md_pc = "wake" THEN "counters" ELSE "run"
  /\ UNCHANGED <<slotVars, frame_idx, pdu_idx, clashed, exit_flag, wakeVars,
                 net, taskVars, txVars, rxVars, md_i, md_all, resets>>

\* reset_all wakes the driver so that it sees the flag; release_all does so
\* again after the reset.
ReleaseWake ==
  /\ md_pc \in {"wake", "last"} /\ MdMayRun
  /\ WakeSender
  /\ md_pc' = IF md_pc = "wake" THEN "counters" ELSE "run"
  /\ UNCHANGED <<slotVars, frame_idx, pdu_idx, clashed, exit_flag, net,
                 taskVars, txVars, rxVars, md_i, md_all, resets>>

\* PduStorageRef::reset: the index counters ...
ResetCounters ==
  /\ md_pc = "counters" /\ MdMayRun
  /\ frame_idx' = 0 /\ pdu_idx' = 0
  /\ md_pc' = "slots" /\ md_i' = 0
  /\ UNCHANGED <<slotVars, clashed, exit_flag, wakeVars, net, taskVars, txVars,
                 rxVars, md_all, resets>>

\* ... then each slot's status, and only its status.
ResetSlot ==
  /\ md_pc = "slots" /\ MdMayRun
  /\ status' = [status EXCEPT ![md_i] = "None"]
  /\ IF md_i + 1 < N
     THEN md_i' = md_i + 1 /\ UNCHANGED md_pc
     ELSE md_i' = 0 /\ md_pc' = IF md_all THEN "last" ELSE "run"
  /\ UNCHANGED <<first_pdu, buf, waker, frame_idx, pdu_idx, clashed, exit_flag,
                 wakeVars, net, taskVars, txVars, rxVars, md_all, resets>>

\* The bounded workload is done.
Terminated ==
  /\ \A t \in Tasks : pc[t] = "idle" /\ fut[t].req = MaxReqs
  /\ UNCHANGED vars

(***************************************************************************)
(* The specification.                                                      *)
(***************************************************************************)

\* What a task does once it has begun a request, never optional.
TaskStep(t) ==
  \/ AllocNext(t) \/ AllocFail(t) \/ ClaimCreated(t)
  \/ PushPdu(t) \/ PushTooLong(t) \/ MarkSendable(t) \/ DropCreated(t)
  \/ TaskWakeSender(t)
  \/ Resume(t) \/ PollRegister(t) \/ PollSwap(t)
  \/ PollPending(t) \/ PollTimeout(t) \/ PollRetry(t) \/ PollRewake(t)
  \/ IterRead(t) \/ FirstPduCheck(t) \/ DropReceived(t) \/ ClearFirstPdu(t)
  \/ ReadPdu(t)

TxStep ==
  TxPoll \/ DriverExit \/ TxScanEnd \/ ClaimSending \/ SendFrame \/ MarkSent
  \/ SendFails

RxStep ==
  \/ RxTake \/ RxSearch \/ RxUnknown \/ ClaimReceiving \/ ClaimReceivingFails
  \/ RxCopy \/ RxOversize \/ MarkReceived \/ MarkReceivedFails \/ RxWake

MdStep == ReleaseWake \/ ResetCounters \/ ResetSlot

Next ==
  \/ \E t \in Tasks :
       \/ \E m \in Modes : StartRequest(t, m)
       \/ TaskStep(t) \/ TimerExpires(t) \/ DropFuture(t)
  \/ TxStep \/ DriverRestart
  \/ RxStep \/ Lose
  \/ Release \/ MdStep
  \/ Terminated

Spec == Init /\ [][Next]_vars

\* Every thread runs, every executor polls what was woken, every armed timer
\* fires.  Requests, releases, drops and restarts are never forced.
Fairness ==
  /\ \A t \in Tasks : WF_vars(TaskStep(t)) /\ WF_vars(TimerExpires(t))
  /\ WF_vars(TxStep) /\ WF_vars(RxStep) /\ WF_vars(MdStep)

FairSpec == Spec /\ Fairness

SlotType ==
  /\ status \in [Slots -> FrameState]
  /\ first_pdu \in [Slots -> PduIdx \cup {FIRST_PDU_EMPTY}]
  /\ buf \in [Slots -> Frame]
  /\ waker \in [Slots -> Tasks \cup {NoTask}]

CounterType ==
  frame_idx \in Slots /\ pdu_idx \in PduIdx /\ clashed \subseteq Tags

FlagType ==
  /\ exit_flag \in BOOLEAN /\ tx_waker \in BOOLEAN /\ tx_woken \in BOOLEAN
  /\ md_all \in BOOLEAN

TaskType ==
  /\ pc \in [Tasks -> TaskPc]
  /\ slot \in [Tasks -> Slots]
  /\ was \in [Tasks -> FrameState]
  /\ woken \in [Tasks -> BOOLEAN]
  /\ fut \in [Tasks -> FutData]

TxType ==
  /\ tx_pc \in {"parked", "scan", "send", "sent", "stopped", "failed"}
  /\ tx_i \in 0..N
  /\ tx_pc \in {"send", "sent"} => tx_i \in Slots

RxType ==
  /\ rx_pc \in {"idle", "search", "claim", "copy", "mark", "wake",
                "stopped", "failed"}
  /\ rx_i \in 0..N
  /\ rx_pc \in {"claim", "copy", "mark", "wake"} => rx_i \in Slots
  /\ rx_msg \in Frame

MdType ==
  /\ md_pc \in {"run", "wake", "counters", "slots", "last"}
  /\ md_i \in Slots
  /\ resets \in 0..MaxResets

\* The type of the storage, the futures, the driver and the release.
TypeOK ==
  /\ SlotType /\ CounterType /\ FlagType /\ net \in Seq(Frame)
  /\ TaskType /\ TxType /\ RxType /\ MdType

(***************************************************************************)
(* Properties that hold under every schedule and every fault.              *)
(***************************************************************************)

\* Two tasks never hold the same slot: the swap None -> Created in
\* alloc_frame gives a frame "a unique owner", although TX, RX, timeouts and
\* dropped futures store into the status without looking at it.
SlotOwnerUnique ==
  \A t, u \in Tasks :
    t # u /\ pc[t] \in Holding /\ pc[u] \in Holding => slot[t] # slot[u]

\* The unwrap in Drop for ReceivedFrame cannot panic: while a task has a
\* ReceivedFrame its slot stays RxProcessing, whatever late stores TX and RX
\* still have to make for an earlier user of the slot.
ReceivedFrameIntact ==
  \A t \in Tasks :
    /\ pc[t] \in {"received", "free"} => status[slot[t]] = "RxProcessing"
    /\ pc[t] # "panicked"

\* ReceiveFrameFut::poll never takes the "Frame is in invalid state" exit,
\* which would leave the slot claimed by nobody.
NoInvalidFrameState ==
  \A t \in Tasks : fut[t].outcome # "InvalidFrameState"

\* A task that waits for a reply that is already in its slot has been woken,
\* or RX is about to wake it: registering the waker before the swap, and
\* marking RxDone before the wake, leave no window.
NoLostWakeup ==
  \A t \in Tasks :
    pc[t] = "pending" /\ ~woken[t] /\ status[slot[t]] = "RxDone"
      => rx_pc = "wake" /\ rx_i = slot[t]

AboutToWake(s) ==
  \E t \in Tasks : slot[t] = s /\ pc[t] \in {"marked", "wake", "rewake"}

\* A driver that sleeps has no frame to send, except frames whose task is
\* about to call wake_sender: no request waits for an unrelated wake-up.
NoLostSend ==
  tx_pc = "parked" /\ ~tx_woken /\ ~exit_flag =>
    \A s \in Slots : status[s] = "Sendable" => AboutToWake(s)

FreedByHolder ==
  \A s \in Slots :
    status[s] # "None" /\ status'[s] = "None" =>
      \/ md_pc = "slots"
      \/ \E t \in Tasks : Owns(t, s) /\ pc'[t] \notin Holding

\* A slot goes back to None only through the task that holds it, which then
\* no longer holds it, or through the reset of a released MainDevice.
OnlyHolderFrees == [][FreedByHolder]_vars

(***************************************************************************)
(* Properties that need a schedule or an environment: the cfg files say    *)
(* which.                                                                  *)
(***************************************************************************)
\* No slot is lost: one that is not free belongs to a task that will free it.
NoSlotLeak ==
  \A s \in Slots : status[s] # "None" => \E t \in Tasks : Owns(t, s)

\* What the application reads as its reply is the reply to its request, if its
\* PDU index was free when it was taken, and was not taken again as the index
\* went round: receive_frame has nothing but the index to tell replies apart.
ReadsOwnReply ==
  \A t \in Tasks :
    pc[t] = "idle" /\ fut[t].outcome = "ok" /\ MyTag(t) \notin clashed =>
    fut[t].got.kind = "resp" /\ fut[t].got.tag = MyTag(t)

\* What TX puts on the wire is a request as it was written, with working
\* counters of zero, also when the frame is sent again after a timeout.
SendsRequests == tx_pc = "send" => buf[tx_i].kind = "req"

\* Every request ends, with a reply or an error, if timers fire.
EveryRequestEnds == \A t \in Tasks : pc[t] = "alloc" ~> pc[t] = "idle"

\* Every request is answered, with no timer at all, on a network that
\* answers: no wake-up and no reply is ever missed.
EveryRequestAnswered ==
  \A t \in Tasks :
    pc[t] = "alloc" ~> pc[t] = "idle" /\ fut[t].outcome = "ok"

\* release_all stops the driver.
DriverStops == exit_flag ~> tx_pc \in {"stopped", "failed"}

(***************************************************************************)
(* The inductive invariant behind them.                                    *)
(***************************************************************************)

\* What the status of a held slot can be.
HeldStatus ==
  \A t \in Tasks :
    /\ pc[t] \in Holding => status[slot[t]] # "None"
    /\ pc[t] \in InFlight =>
         status[slot[t]] \in {"Sendable", "Sending", "Sent", "RxBusy",
                              "RxDone"}
    /\ pc[t] \in {"timer", "rewake"} =>
         was[t] \in {"Sendable", "Sending", "Sent", "RxBusy"}

\* While TX still has to store into a slot, the slot has not got past
\* Sending: nobody but TX can move it to Sent.
TxClaim ==
  tx_pc \in {"send", "sent"} =>
    status[tx_i] \notin {"Sent", "RxBusy", "RxDone", "RxProcessing"}

\* The waker of a polled task is registered until it is used; a reply that
\* comes after the poll looked is announced.
WakerRegistered ==
  \A t \in Tasks :
    /\ pc[t] \in {"swap", "timer", "rewake", "pending"} /\ ~woken[t]
         => waker[slot[t]] = t
    /\ /\ pc[t] \in {"timer", "rewake", "pending"} /\ ~woken[t]
       /\ status[slot[t]] = "RxDone"
       => rx_pc = "wake" /\ rx_i = slot[t]

\* The driver's waker is registered or used; what its scan has passed and a
\* task has since marked Sendable is about to be announced.
SenderRegistered ==
  /\ tx_pc \in {"parked", "scan", "send", "sent"} => tx_waker \/ tx_woken
  /\ tx_pc = "scan" /\ ~tx_woken /\ ~exit_flag =>
       \A s \in Slots : s < tx_i /\ status[s] = "Sendable" => AboutToWake(s)

\* The two halves of the driver stop together.
DriverHalves == tx_pc \in {"stopped", "failed"} => rx_pc = tx_pc

\* A MainDevice is released only when no future borrows it.
ReleaseAlone == md_pc # "run" => \A t \in Tasks : pc[t] = "idle"

\* Who may store what into a slot.
OwnInv ==
  /\ SlotOwnerUnique /\ ReceivedFrameIntact /\ NoInvalidFrameState
  /\ HeldStatus /\ TxClaim /\ ReleaseAlone

\* Wake-ups of waiting tasks, and of TX.
WakeInv == DriverHalves /\ WakerRegistered
SendInv == SenderRegistered /\ NoLostSend

\* The inductive invariant.
PduInv == TypeOK /\ OwnInv /\ WakeInv /\ SendInv
=============================================================================
