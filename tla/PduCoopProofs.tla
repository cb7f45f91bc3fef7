--------------------------- MODULE PduCoopProofs ---------------------------
(***************************************************************************)
(* The PDU loop on one executor thread (Sched = "coop"): no slot is lost,  *)
(* what goes out is a request as it was written, and what a task reads is  *)
(* the reply to its own request as long as no PDU index is used twice at a *)
(* time.  For every number of slots, tasks and requests and every fault.   *)
(***************************************************************************)
EXTENDS PduLoopProofs, FiniteSetTheorems

-----------------------------------------------------------------------------
\* The invariants.

\* An actor that runs is the only one.
OneRuns ==
  /\ \A t, u \in Tasks : TaskBusy(t) /\ TaskBusy(u) => t = u
  /\ \A t \in Tasks : TaskBusy(t) => ~TxBusy /\ ~RxBusy /\ md_pc = "run"
  /\ md_pc # "run" => ~TxBusy
  /\ TxBusy \/ md_pc # "run" => ~RxBusy

\* So what it saw in a slot, or put there, is there when it goes on.
StatusKept ==
  /\ tx_pc \in {"send", "sent"} => status[tx_i] = "Sending"
  /\ rx_pc \in {"copy", "mark"} => status[rx_i] = "RxBusy"
  /\ \A t \in Tasks :
       /\ pc[t] \in {"created", "abort"} => status[slot[t]] = "Created"
       /\ pc[t] = "timer" => status[slot[t]] = was[t]
       /\ pc[t] \in {"clear", "read"} => status[slot[t]] = "None"

\* Up to the moment its reply is copied, a frame holds the request.
RequestKept ==
  /\ \A t \in Tasks :
       /\ pc[t] \in {"idle", "alloc", "claim"} => fut[t].pushed = 0
       /\ pc[t] = "created" /\ fut[t].pushed > 0 => buf[slot[t]].kind = "req"
  /\ \A s \in Slots :
       /\ status[s] \in {"Sendable", "Sending", "Sent"} => buf[s].kind = "req"
       /\ status[s] = "RxBusy" /\ ~(rx_pc = "mark" /\ rx_i = s)
            => buf[s].kind = "req"

CoopInv == PduInv /\ OneRuns /\ StatusKept /\ NoSlotLeak /\ RequestKept

-----------------------------------------------------------------------------
\* What a step of a task leaves alone.

Alone(t) ==
  /\ \A u \in Tasks \ {t} : ~TaskBusy(u)
  /\ ~TxBusy /\ ~RxBusy /\ md_pc = "run"

OnlyOwn(t) ==
  /\ \A u \in Tasks \ {t} : /\ pc'[u] = pc[u] /\ slot'[u] = slot[u]
                            /\ was'[u] = was[u] /\ fut'[u] = fut[u]
  /\ \A s \in Slots \ {slot[t]} : /\ status'[s] = status[s] /\ buf'[s] = buf[s]
                                  /\ first_pdu'[s] = first_pdu[s]
  /\ UNCHANGED <<tx_pc, tx_i, rx_pc, rx_i, rx_msg, md_pc, net>>

\* Every step of a task but the start of a request and the expiry of its timer.
Acts(t) == TaskStep(t) \/ DropFuture(t)

\* A task steps only while nobody else is in the middle of anything.
LEMMA ActsAlone ==
  ASSUME Sched = "coop", NEW t \in Tasks, Acts(t) \/ \E m \in Modes : StartRequest(t, m)
  PROVE  Alone(t)
BY DEF Acts, TaskStep, Alone, TaskMayRun, StartRequest, AllocNext, AllocFail, ClaimCreated, PushPdu, PushTooLong,
       MarkSendable, DropCreated, TaskWakeSender, Resume, PollRegister, PollSwap, PollPending,
       PollTimeout, PollRetry, PollRewake, IterRead, FirstPduCheck, DropReceived, ClearFirstPdu, ReadPdu, DropFuture

\* A task changes its own state and its own slot only.
LEMMA ActsOwn ==
  ASSUME TypeOK, NEW t \in Tasks,
         Acts(t) \/ TimerExpires(t) \/ \E m \in Modes : StartRequest(t, m)
  PROVE  OnlyOwn(t)
<1> USE DEF OnlyOwn, TypeOK, SlotType, TaskType, slotVars, wakeVars, taskVars, txVars,
        rxVars, mdVars
<1>1. CASE AllocNext(t)
  BY <1>1 DEF AllocNext
<1>2. CASE AllocFail(t)
  BY <1>2 DEF AllocFail, Finish
<1>3. CASE ClaimCreated(t)
  BY <1>3 DEF ClaimCreated
<1>4. CASE PushPdu(t)
  BY <1>4 DEF PushPdu
<1>5. CASE PushTooLong(t)
  BY <1>5 DEF PushTooLong
<1>6. CASE MarkSendable(t)
  BY <1>6 DEF MarkSendable
<1>7. CASE DropCreated(t)
  BY <1>7 DEF DropCreated, Finish
<1>8. CASE TaskWakeSender(t)
  BY <1>8 DEF TaskWakeSender
<1>9. CASE Resume(t)
  BY <1>9 DEF Resume
<1>10. CASE PollRegister(t)
  BY <1>10 DEF PollRegister
<1>11. CASE PollSwap(t)
  BY <1>11 DEF PollSwap
<1>12. CASE PollPending(t)
  BY <1>12 DEF PollPending, MatchWas, Finish
<1>13. CASE PollTimeout(t)
  BY <1>13 DEF PollTimeout, Finish
<1>14. CASE PollRetry(t)
  BY <1>14 DEF PollRetry
<1>15. CASE PollRewake(t)
  BY <1>15 DEF PollRewake, MatchWas, Finish
<1>16. CASE IterRead(t)
  BY <1>16 DEF IterRead
<1>17. CASE FirstPduCheck(t)
  BY <1>17 DEF FirstPduCheck
<1>18. CASE DropReceived(t)
  BY <1>18 DEF DropReceived
<1>19. CASE ClearFirstPdu(t)
  BY <1>19 DEF ClearFirstPdu, Finish
<1>20. CASE ReadPdu(t)
  BY <1>20 DEF ReadPdu, Finish
<1>21. CASE DropFuture(t)
  BY <1>21 DEF DropFuture, Finish
<1>22. CASE TimerExpires(t)
  BY <1>22 DEF TimerExpires
<1>23. ASSUME NEW m \in Modes, StartRequest(t, m) PROVE OnlyOwn(t)
  BY <1>23 DEF StartRequest
<1> QED BY <1>1, <1>2, <1>3, <1>4, <1>5, <1>6, <1>7, <1>8, <1>9, <1>10, <1>11, <1>12, <1>13, <1>14, <1>15, <1>16, <1>17, <1>18, <1>19, <1>20, <1>21, <1>22, <1>23
    DEF Acts, TaskStep

\* The steps of the driver, the network and the MainDevice.
Outside == TxStep \/ DriverRestart \/ RxStep \/ Lose \/ Release \/ MdStep

\* The steps of Next, by who takes them.
LEMMA NextSteps ==
  ASSUME [Next]_vars
  PROVE  \/ \E t \in Tasks : \/ Acts(t) \/ TimerExpires(t)
                             \/ \E m \in Modes : StartRequest(t, m)
         \/ Outside
         \/ UNCHANGED vars
BY DEF Next, Acts, Outside, Terminated

\* A step of the driver or of the MainDevice touches no task's own state, but
\* for the flag of those it wakes.
LEMMA OutsideTasks ==
  ASSUME Outside \/ UNCHANGED vars
  PROVE  UNCHANGED <<pc, slot, was, fut>>
BY DEF Outside, TxStep, RxStep, MdStep, TxPoll, DriverExit, DriverRestart, TxScanEnd,
       ClaimSending, SendFrame, MarkSent, SendFails, RxTake, RxSearch, RxUnknown,
       ClaimReceiving, ClaimReceivingFails, RxCopy, RxOversize, MarkReceived,
       MarkReceivedFails, RxWake, RxError, Lose, Release, ReleaseWake, ResetCounters,
       ResetSlot, taskVars, vars

\* The executor runs one actor until it returns.
LEMMA OneRunsStep ==
  ASSUME Sched = "coop", PduInv, OneRuns, [Next]_vars
  PROVE  OneRuns'
<1> USE DEF OneRuns, TaskBusy, TxBusy, RxBusy
<1>1. ASSUME NEW t \in Tasks, Acts(t) \/ \E m \in Modes : StartRequest(t, m)
      PROVE  OneRuns'
  <2>1. Alone(t) /\ OnlyOwn(t)
    BY <1>1, ActsAlone, ActsOwn DEF PduInv
  <2> QED BY <2>1 DEF Alone, OnlyOwn
<1>2. ASSUME NEW t \in Tasks, TimerExpires(t) PROVE OneRuns'
  BY <1>2 DEF TimerExpires, txVars, rxVars, mdVars
<1>3. CASE Outside
  <2> USE DEF TxMayRun, RxMayRun, MdMayRun, taskVars, txVars, rxVars, mdVars
  <2>1. CASE TxStep
    BY <2>1 DEF TxStep, TxPoll, DriverExit, TxScanEnd, ClaimSending, SendFrame, MarkSent,
           SendFails
  <2>2. CASE DriverRestart
    BY <2>2 DEF DriverRestart, PduInv, WakeInv, DriverHalves
  <2>3. CASE RxStep
    BY <2>3 DEF RxStep, RxTake, RxSearch, RxUnknown, ClaimReceiving, ClaimReceivingFails,
           RxCopy, RxOversize, MarkReceived, MarkReceivedFails, RxWake, RxError, DriverError
  <2>4. CASE Lose
    BY <2>4 DEF Lose
  <2>5. CASE Release
    BY <2>5 DEF Release
  <2>6. CASE MdStep
    <3>1. ~TxBusy /\ ~RxBusy /\ UNCHANGED <<pc, tx_pc, rx_pc>> /\ md_pc # "run"
      BY <2>6 DEF MdStep, ReleaseWake, ResetCounters, ResetSlot
    <3> QED BY <3>1
  <2> QED BY <1>3, <2>1, <2>2, <2>3, <2>4, <2>5, <2>6 DEF Outside
<1>4. CASE UNCHANGED vars
  BY <1>4 DEF vars, taskVars, txVars, rxVars, mdVars
<1> QED BY <1>1, <1>2, <1>3, <1>4, NextSteps

\* What a step of a task does to its slot.
SlotMoves(t) ==
  /\ \/ status'[slot[t]] = "None"
     \/ pc'[t] \in Holding /\ slot'[t] = slot[t]
     \/ pc[t] \notin Holding /\ status' = status
  /\ pc'[t] \in {"created", "abort"} => status'[slot'[t]] = "Created"
  /\ pc'[t] = "timer" => status'[slot'[t]] = was'[t]
  /\ pc'[t] \in {"clear", "read"} => status'[slot'[t]] = "None"

\* What each step of a task does to the state of its slot.
LEMMA ActsSlot ==
  ASSUME CoopInv, NEW t \in Tasks, Acts(t)
  PROVE  SlotMoves(t)
<1>0. Acts(t)
  OBVIOUS
<1>1. /\ status \in [Slots -> FrameState] /\ pc \in [Tasks -> TaskPc]
      /\ slot \in [Tasks -> Slots] /\ was \in [Tasks -> FrameState]
      /\ slot[t] \in Slots
  BY DEF CoopInv, PduInv, TypeOK, SlotType, TaskType
<1>2. /\ pc[t] \in {"timer", "rewake"} => was[t] \in {"Sendable", "Sending", "Sent", "RxBusy"}
      /\ pc[t] = "free" => status[slot[t]] = "RxProcessing"
      /\ pc[t] \in {"created", "abort"} => status[slot[t]] = "Created"
      /\ pc[t] = "timer" => status[slot[t]] = was[t]
      /\ pc[t] \in {"clear", "read"} => status[slot[t]] = "None"
  BY DEF CoopInv, PduInv, OwnInv, HeldStatus, ReceivedFrameIntact, StatusKept, Holding
<1> USE DEF SlotMoves, Holding, slotVars
<1> HIDE DEF Acts
<1>3. CASE AllocNext(t)
  BY <1>3, <1>1, <1>2 DEF AllocNext
<1>4. CASE AllocFail(t)
  BY <1>4, <1>1, <1>2 DEF AllocFail, Finish
<1>5. CASE ClaimCreated(t)
  BY <1>5, <1>1, <1>2 DEF ClaimCreated
<1>6. CASE PushPdu(t)
  BY <1>6, <1>1, <1>2 DEF PushPdu
<1>7. CASE PushTooLong(t)
  BY <1>7, <1>1, <1>2 DEF PushTooLong
<1>8. CASE MarkSendable(t)
  BY <1>8, <1>1, <1>2 DEF MarkSendable
<1>9. CASE DropCreated(t)
  BY <1>9, <1>1, <1>2 DEF DropCreated, Finish
<1>10. CASE TaskWakeSender(t)
  BY <1>10, <1>1, <1>2 DEF TaskWakeSender
<1>11. CASE Resume(t)
  BY <1>11, <1>1, <1>2 DEF Resume
<1>12. CASE PollRegister(t)
  BY <1>12, <1>1, <1>2 DEF PollRegister
<1>13. CASE PollSwap(t)
  BY <1>13, <1>1, <1>2 DEF PollSwap
<1>14. CASE PollPending(t)
  BY <1>14, <1>1, <1>2 DEF PollPending, MatchWas, Finish
<1>15. CASE PollTimeout(t)
  BY <1>15, <1>1, <1>2 DEF PollTimeout, Finish
<1>16. CASE PollRetry(t)
  BY <1>16, <1>1, <1>2 DEF PollRetry
<1>17. CASE PollRewake(t)
  BY <1>17, <1>1, <1>2 DEF PollRewake, MatchWas, Finish
<1>18. CASE IterRead(t)
  BY <1>18, <1>1, <1>2 DEF IterRead
<1>19. CASE FirstPduCheck(t)
  BY <1>19, <1>1, <1>2 DEF FirstPduCheck
<1>20. CASE DropReceived(t)
  BY <1>20, <1>1, <1>2 DEF DropReceived
<1>21. CASE ClearFirstPdu(t)
  BY <1>21, <1>1, <1>2 DEF ClearFirstPdu, Finish
<1>22. CASE ReadPdu(t)
  BY <1>22, <1>1, <1>2 DEF ReadPdu, Finish
<1>23. CASE DropFuture(t)
  BY <1>23, <1>1, <1>2 DEF DropFuture, Finish
<1> QED BY <1>0, <1>3, <1>4, <1>5, <1>6, <1>7, <1>8, <1>9, <1>10, <1>11, <1>12, <1>13, <1>14, <1>15, <1>16, <1>17, <1>18, <1>19, <1>20, <1>21, <1>22, <1>23
      DEF Acts, TaskStep

\* A task finds its slot as it left it, and touches nobody else's.
LEMMA StatusTask ==
  ASSUME Sched = "coop", CoopInv, NEW t \in Tasks, Acts(t)
  PROVE  StatusKept' /\ NoSlotLeak'
<1>1. Alone(t) /\ OnlyOwn(t) /\ SlotMoves(t)
  BY ActsAlone, ActsOwn, ActsSlot DEF CoopInv, PduInv
<1>2. /\ status \in [Slots -> FrameState] /\ slot \in [Tasks -> Slots]
      /\ slot' \in [Tasks -> Slots]
  <2>1. TypeOK /\ TypeOK'
    BY TypeStep DEF CoopInv, PduInv, Acts, Next
  <2> QED BY <2>1 DEF TypeOK, SlotType, TaskType
<1>3. StatusKept'
  <2>1. \A u \in Tasks \ {t} : pc'[u] \notin {"created", "abort", "timer", "clear", "read"}
    BY <1>1 DEF Alone, OnlyOwn, TaskBusy
  <2>2. tx_pc' \notin {"send", "sent"} /\ rx_pc' \notin {"copy", "mark"}
    BY <1>1 DEF Alone, OnlyOwn, TxBusy, RxBusy
  <2> QED BY <1>1, <2>1, <2>2 DEF StatusKept, SlotMoves
<1>4. NoSlotLeak'
  <2>1. SUFFICES ASSUME NEW s \in Slots, status'[s] # "None"
                 PROVE  \E u \in Tasks : pc'[u] \in Holding /\ slot'[u] = s
    BY DEF NoSlotLeak, Owns
  <2>2. CASE s # slot[t]
    <3>1. status[s] # "None"
      BY <1>1, <2>1, <2>2 DEF OnlyOwn
    <3>2. PICK u \in Tasks : pc[u] \in Holding /\ slot[u] = s
      BY <3>1 DEF CoopInv, NoSlotLeak, Owns
    <3> QED BY <1>1, <2>2, <3>2 DEF OnlyOwn
  <2>3. CASE s = slot[t] /\ pc'[t] \in Holding /\ slot'[t] = slot[t]
    BY <2>3
  <2>4. CASE s = slot[t] /\ pc[t] \notin Holding /\ status' = status
    <3>1. PICK u \in Tasks : pc[u] \in Holding /\ slot[u] = s
      BY <2>1, <2>4 DEF CoopInv, NoSlotLeak, Owns
    <3> QED BY <1>1, <2>4, <3>1 DEF OnlyOwn
  <2> QED BY <1>1, <2>1, <2>2, <2>3, <2>4 DEF SlotMoves
<1> QED BY <1>3, <1>4

\* Every step keeps what the actors know of the slots, and loses none.
LEMMA StatusStep ==
  ASSUME Sched = "coop", CoopInv, [Next]_vars
  PROVE  StatusKept' /\ NoSlotLeak'
<1>1. ASSUME NEW t \in Tasks, Acts(t) PROVE StatusKept' /\ NoSlotLeak'
  BY <1>1, StatusTask
<1> USE DEF StatusKept, NoSlotLeak, Owns, slotVars, txVars, rxVars, taskVars
<1>2. ASSUME NEW t \in Tasks, TimerExpires(t) PROVE StatusKept' /\ NoSlotLeak'
  BY <1>2 DEF TimerExpires, CoopInv
<1>3. ASSUME NEW t \in Tasks, NEW m \in Modes, StartRequest(t, m)
      PROVE StatusKept' /\ NoSlotLeak'
  <2>1. /\ pc \in [Tasks -> TaskPc] /\ pc[t] = "idle" /\ pc' = [pc EXCEPT ![t] = "alloc"]
        /\ UNCHANGED <<status, slot, was, tx_pc, tx_i, rx_pc, rx_i>>
    BY <1>3 DEF StartRequest, CoopInv, PduInv, TypeOK, TaskType
  <2>2. \A u \in Tasks : pc'[u] \in Holding <=> pc[u] \in Holding
    BY <2>1 DEF Holding
  <2>3. StatusKept'
    BY <2>1 DEF CoopInv
  <2>4. NoSlotLeak'
    BY <2>1, <2>2 DEF CoopInv
  <2> QED BY <2>3, <2>4
<1>4. CASE Outside \/ UNCHANGED vars
  <2>1. UNCHANGED <<pc, slot, was, fut>>
    BY <1>4, OutsideTasks
  <2>2. CASE \/ UNCHANGED vars \/ TxPoll \/ DriverExit \/ TxScanEnd \/ DriverRestart
             \/ RxTake \/ RxSearch \/ Lose \/ Release \/ ReleaseWake \/ ResetCounters
             \/ RxUnknown \/ ClaimReceivingFails \/ RxOversize \/ MarkReceivedFails
             \/ RxWake \/ RxCopy \/ SendFrame
    <3>1. /\ status' = status
          /\ tx_pc' \in {"send", "sent"} => tx_pc \in {"send", "sent"} /\ tx_i' = tx_i
          /\ rx_pc' \in {"copy", "mark"} => rx_pc \in {"copy", "mark"} /\ rx_i' = rx_i
      BY <2>2 DEF vars, TxPoll, DriverExit, TxScanEnd, DriverRestart, RxTake, RxSearch,
             Lose, Release, ReleaseWake, ResetCounters, RxUnknown, ClaimReceivingFails,
             RxOversize, MarkReceivedFails, RxError, DriverError, RxWake, RxCopy, SendFrame
    <3> QED BY <2>1, <3>1 DEF CoopInv
  <2>3. CASE ClaimSending \/ MarkSent \/ SendFails \/ ClaimReceiving \/ MarkReceived
    <3>1. status \in [Slots -> FrameState] /\ OneRuns /\ tx_i \in 0..N /\ rx_i \in 0..N
      BY DEF CoopInv, PduInv, TypeOK, SlotType, TxType, RxType
    <3>2. /\ \A t \in Tasks : ~TaskBusy(t)
          /\ \A s \in Slots : status'[s] # "None" => status[s] # "None"
      BY <2>3, <3>1 DEF ClaimSending, MarkSent, SendFails, ClaimReceiving, MarkReceived,
             TxMayRun, RxMayRun, CoopInv, StatusKept
    <3>3. NoSlotLeak'
      BY <2>1, <3>2 DEF CoopInv
    <3>4. \A t \in Tasks : pc'[t] \notin {"created", "abort", "timer", "clear", "read"}
      BY <2>1, <3>2 DEF TaskBusy
    <3>5. /\ tx_pc' \in {"send", "sent"} => status'[tx_i'] = "Sending"
          /\ rx_pc' \in {"copy", "mark"} => status'[rx_i'] = "RxBusy"
      <4>1. CASE ClaimSending
        <5>1. tx_i \in Slots
          BY <3>1, <4>1, ConstFacts DEF ClaimSending, Slots
        <5> QED BY <3>1, <4>1, <5>1 DEF ClaimSending, TxMayRun, RxBusy
      <4>2. CASE MarkSent \/ SendFails
        BY <4>2 DEF MarkSent, SendFails, TxMayRun, RxBusy
      <4>3. CASE ClaimReceiving
        BY <3>1, <4>3 DEF ClaimReceiving, RxMayRun, TxBusy, CoopInv, PduInv, TypeOK, RxType
      <4>4. CASE MarkReceived
        BY <4>4 DEF MarkReceived, RxMayRun, TxBusy
      <4> QED BY <2>3, <4>1, <4>2, <4>3, <4>4
    <3> QED BY <3>3, <3>4, <3>5
  <2>4. CASE ResetSlot
    <3>1. /\ status \in [Slots -> FrameState] /\ md_i \in Slots
          /\ \A t \in Tasks : pc[t] = "idle"
      BY <2>4 DEF ResetSlot, CoopInv, PduInv, OwnInv, ReleaseAlone, TypeOK, SlotType, MdType
    <3>2. \A s \in Slots : status[s] = "None"
      BY <3>1 DEF CoopInv, Holding
    <3>3. status' = status
      BY <2>4, <3>1, <3>2 DEF ResetSlot
    <3>4. UNCHANGED <<tx_pc, tx_i, rx_pc, rx_i>>
      BY <2>4 DEF ResetSlot
    <3> QED BY <2>1, <3>3, <3>4 DEF CoopInv
  <2> QED BY <1>4, <2>2, <2>3, <2>4 DEF Outside, TxStep, RxStep, MdStep
<1> QED BY <1>1, <1>2, <1>3, <1>4, NextSteps

-----------------------------------------------------------------------------
\* What a step of a task does to its private data.

FutMoves(t) ==
  LET f == fut[t] g == fut'[t] pushes == pc[t] = "created" /\ pc'[t] = "created" IN
  /\ g.req = f.req /\ g.mode = f.mode
  /\ pc'[t] = "idle" => g.pushed = 0
  /\ pc'[t] # "idle" =>
       /\ g.pushed = IF pushes THEN f.pushed + 1 ELSE f.pushed
       /\ g.handle = IF pushes /\ f.pushed = 0 THEN pdu_idx ELSE f.handle
  /\ g.got = IF pc[t] = "read" \/ (pc[t] = "received" /\ f.mode = "iter")
             THEN buf[slot[t]] ELSE f.got
  /\ g.outcome = "ok" => pc[t] = "received" \/ f.outcome = "ok"

\* The end of a request resets its counters and keeps its result.
LEMMA FinishFields ==
  ASSUME fut \in [Tasks -> FutData], NEW t \in Tasks, NEW f \in FutData, Finish(t, f)
  PROVE  /\ fut'[t].req = f.req /\ fut'[t].mode = f.mode /\ fut'[t].pushed = 0
         /\ fut'[t].outcome = f.outcome /\ fut'[t].got = f.got
BY DEF Finish, FutData

\* A result changes the outcome of a request and nothing else.
LEMMA ResultFields ==
  ASSUME fut \in [Tasks -> FutData], NEW t \in Tasks, NEW r \in Outcome
  PROVE  /\ Result(t, r) \in FutData
         /\ Result(t, r).req = fut[t].req /\ Result(t, r).mode = fut[t].mode
         /\ Result(t, r).outcome = r /\ Result(t, r).got = fut[t].got
         /\ Result(t, r).pushed = fut[t].pushed /\ Result(t, r).handle = fut[t].handle
BY DEF Result, FutData

\* What each step of a task does to its future.
LEMMA ActsFut ==
  ASSUME CoopInv, NEW t \in Tasks, Acts(t)
  PROVE  FutMoves(t)
<1>0. Acts(t)
  OBVIOUS
<1>1. /\ fut \in [Tasks -> FutData] /\ pc \in [Tasks -> TaskPc] /\ fut[t] \in FutData
      /\ buf \in [Slots -> Frame] /\ slot[t] \in Slots
  BY DEF CoopInv, PduInv, TypeOK, SlotType, TaskType
<1>2. pc[t] \in {"timer", "rewake"} => was[t] \in {"Sendable", "Sending", "Sent", "RxBusy"}
  BY DEF CoopInv, PduInv, OwnInv, HeldStatus
<1>3. pc[t] = "free" => status[slot[t]] = "RxProcessing"
  BY DEF CoopInv, PduInv, OwnInv, ReceivedFrameIntact
<1> USE DEF FutMoves
<1> HIDE DEF Acts
<1>4. CASE AllocNext(t)
  BY <1>1, <1>4 DEF AllocNext, FutData
<1>5. CASE AllocFail(t)
  <2>1. Finish(t, Result(t, "SwapState"))
    BY <1>5 DEF AllocFail
  <2>2. pc'[t] = "idle" /\ pc[t] \notin {"read", "received"}
    BY <1>5, <1>1 DEF AllocFail, Finish
  <2> QED BY <1>1, <2>1, <2>2, FinishFields, ResultFields DEF Outcome
<1>6. CASE ClaimCreated(t)
  BY <1>1, <1>6 DEF ClaimCreated
<1>7. CASE PushPdu(t)
  <2>1. CASE fut[t].pushed = 0
    <3>1. /\ fut'[t] = [fut[t] EXCEPT !.pushed = fut[t].pushed + 1, !.handle = pdu_idx]
          /\ pc[t] = "created" /\ pc' = pc
      BY <1>1, <1>7, <2>1 DEF PushPdu
    <3> QED BY <1>1, <2>1, <3>1 DEF FutData
  <2>2. CASE fut[t].pushed # 0
    <3>1. /\ fut'[t] = [fut[t] EXCEPT !.pushed = fut[t].pushed + 1]
          /\ pc[t] = "created" /\ pc' = pc
      BY <1>1, <1>7, <2>2 DEF PushPdu
    <3> QED BY <1>1, <2>2, <3>1 DEF FutData
  <2> QED BY <2>1, <2>2
<1>8. CASE PushTooLong(t)
  BY <1>1, <1>8 DEF PushTooLong
<1>9. CASE MarkSendable(t)
  BY <1>1, <1>9 DEF MarkSendable, FutData
<1>10. CASE DropCreated(t)
  <2>1. CASE pc[t] = "marked"
    BY <1>1, <1>10, <2>1 DEF DropCreated
  <2>2. CASE pc[t] = "abort"
    <3>1. Finish(t, Result(t, "TooLong")) /\ pc'[t] = "idle"
      BY <1>1, <1>10, <2>2 DEF DropCreated, Finish
    <3> QED BY <1>1, <2>2, <3>1, FinishFields, ResultFields DEF Outcome
  <2> QED BY <1>10, <2>1, <2>2 DEF DropCreated
<1>11. CASE TaskWakeSender(t)
  BY <1>1, <1>11 DEF TaskWakeSender
<1>12. CASE Resume(t)
  BY <1>1, <1>12 DEF Resume
<1>13. CASE PollRegister(t)
  BY <1>1, <1>13 DEF PollRegister
<1>14. CASE PollSwap(t)
  BY <1>1, <1>14 DEF PollSwap
<1>15. CASE PollPending(t)
  BY <1>1, <1>2, <1>15 DEF PollPending, MatchWas, FutData
<1>16. CASE PollTimeout(t)
  <2>1. Finish(t, Result(t, "Timeout"))
    BY <1>16 DEF PollTimeout
  <2>2. pc'[t] = "idle" /\ pc[t] \notin {"read", "received"}
    BY <1>16, <1>1 DEF PollTimeout, Finish
  <2> QED BY <1>1, <2>1, <2>2, FinishFields, ResultFields DEF Outcome
<1>17. CASE PollRetry(t)
  BY <1>1, <1>17 DEF PollRetry, FutData
<1>18. CASE PollRewake(t)
  BY <1>1, <1>2, <1>18 DEF PollRewake, MatchWas, FutData
<1>19. CASE IterRead(t)
  BY <1>1, <1>19 DEF IterRead, FutData
<1>20. CASE FirstPduCheck(t)
  BY <1>1, <1>20 DEF FirstPduCheck, Result, FutData
<1>21. CASE DropReceived(t)
  BY <1>1, <1>3, <1>21 DEF DropReceived
<1>22. CASE ClearFirstPdu(t)
  <2>1. CASE fut[t].mode = "first" /\ fut[t].outcome = "ok"
    BY <1>1, <1>22, <2>1 DEF ClearFirstPdu
  <2>2. CASE ~(fut[t].mode = "first" /\ fut[t].outcome = "ok")
    <3>1. Finish(t, fut[t]) /\ pc'[t] = "idle" /\ pc[t] = "clear"
      BY <1>1, <1>22, <2>2 DEF ClearFirstPdu, Finish
    <3> QED BY <1>1, <3>1, FinishFields
  <2> QED BY <2>1, <2>2
<1>23. CASE ReadPdu(t)
  <2> DEFINE f == [fut[t] EXCEPT !.got = buf[slot[t]]]
  <2>1. Finish(t, f) /\ pc'[t] = "idle" /\ pc[t] = "read"
    BY <1>1, <1>23 DEF ReadPdu, Finish
  <2>2. f \in FutData
    BY <1>1, FutUpdate
  <2>3. /\ f.req = fut[t].req /\ f.mode = fut[t].mode /\ f.got = buf[slot[t]]
        /\ f.outcome = fut[t].outcome
    BY <1>1 DEF FutData
  <2> HIDE DEF f
  <2> QED BY <1>1, <2>1, <2>2, <2>3, FinishFields
<1>24. CASE DropFuture(t)
  <2>1. Finish(t, Result(t, "dropped"))
    BY <1>24 DEF DropFuture
  <2>2. pc'[t] = "idle" /\ pc[t] \notin {"read", "received"}
    BY <1>24, <1>1, SMTT(40) DEF DropFuture, Finish
  <2> QED BY <1>1, <2>1, <2>2, FinishFields, ResultFields DEF Outcome
<1> QED BY <1>0, <1>4, <1>5, <1>6, <1>7, <1>8, <1>9, <1>10, <1>11, <1>12, <1>13, <1>14, <1>15, <1>16, <1>17, <1>18, <1>19, <1>20, <1>21, <1>22, <1>23, <1>24
    DEF Acts, TaskStep

-----------------------------------------------------------------------------
\* What a step of a task does to its frame, and how it gets on.

FrameMoves(t) ==
  LET s == slot[t] pushes == pc[t] = "created" /\ pc'[t] = "created" IN
  /\ pc[t] # "alloc" => slot'[t] = s
  /\ IF pc[t] = "claim" /\ pc'[t] = "created"
     THEN first_pdu'[s] = FIRST_PDU_EMPTY
     ELSE IF pushes
     THEN /\ first_pdu'[s] = IF first_pdu[s] = FIRST_PDU_EMPTY THEN pdu_idx ELSE first_pdu[s]
          /\ buf'[s] = IF fut[t].pushed = 0
                       THEN [kind |-> "req", idx |-> pdu_idx, tag |-> MyTag(t)] ELSE buf[s]
     ELSE /\ buf'[s] = buf[s]
          /\ pc[t] # "clear" => first_pdu'[s] = first_pdu[s]
  /\ \/ status'[s] = status[s] /\ (pc'[t] = "received" => pc[t] = "received")
     \/ status'[s] \in {"None", "Created"} /\ pc'[t] # "received"
     \/ status'[s] = "Sendable" /\ pc[t] = "created" /\ fut[t].pushed > 0
        /\ pc'[t] # "received"
     \/ status'[s] = "Sendable" /\ pc[t] = "timer" /\ pc'[t] # "received"
     \/ status'[s] = "RxProcessing" /\ status[s] = "RxDone" /\ pc[t] = "swap"

\* The order in which a request goes through its stages.
Onward(t) ==
  /\ pc'[t] \in {"alloc", "claim"} => pc[t] \in {"alloc", "claim"}
  /\ pc'[t] = "created" => pc[t] \in {"claim", "created"}
  /\ pc[t] = "claim" => pc'[t] \in {"alloc", "created"}
  /\ pc'[t] \in InFlight =>
       pc[t] \in InFlight \/ (pc[t] = "created" /\ fut[t].pushed > 0)
  /\ pc'[t] = "received" => pc[t] = "swap"
  /\ pc'[t] = "free" => pc[t] = "received"
  /\ pc'[t] = "clear" => pc[t] = "free"
  /\ pc'[t] = "read" => pc[t] = "clear"
  /\ pc'[t] = "idle" /\ fut'[t].outcome = "ok" =>
       pc[t] = "read" \/ (pc[t] = "clear" /\ fut[t].mode = "iter")

\* What each step of a task does to its frame.
LEMMA ActsFrame ==
  ASSUME CoopInv, NEW t \in Tasks, Acts(t)
  PROVE  FrameMoves(t) /\ Onward(t)
<1>0. Acts(t)
  OBVIOUS
<1>1. /\ status \in [Slots -> FrameState] /\ pc \in [Tasks -> TaskPc]
      /\ slot \in [Tasks -> Slots] /\ slot[t] \in Slots /\ buf \in [Slots -> Frame]
      /\ first_pdu \in [Slots -> PduIdx \cup {FIRST_PDU_EMPTY}]
      /\ fut \in [Tasks -> FutData] /\ fut[t] \in FutData
      /\ fut[t].mode \in {"first", "iter"}
  BY DEF CoopInv, PduInv, TypeOK, SlotType, TaskType, FutData
<1>2. /\ pc[t] \in {"timer", "rewake"} => was[t] \in {"Sendable", "Sending", "Sent", "RxBusy"}
      /\ pc[t] = "free" => status[slot[t]] = "RxProcessing"
  BY DEF CoopInv, PduInv, OwnInv, HeldStatus, ReceivedFrameIntact
<1> USE DEF FrameMoves, Onward, InFlight, slotVars
<1> HIDE DEF Acts
<1>3. CASE AllocNext(t)
  BY <1>1, <1>2, <1>3 DEF AllocNext
<1>4. CASE AllocFail(t)
  <2>1. Finish(t, Result(t, "SwapState"))
    BY <1>4 DEF AllocFail
  <2>2. fut'[t].outcome # "ok"
    BY <1>1, <2>1, FinishFields, ResultFields DEF Outcome
  <2> QED BY <1>1, <1>4, <2>2 DEF AllocFail, Finish
<1>5. CASE ClaimCreated(t)
  BY <1>1, <1>2, <1>5 DEF ClaimCreated
<1>6. CASE PushPdu(t)
  BY <1>1, <1>2, <1>6 DEF PushPdu
<1>7. CASE PushTooLong(t)
  BY <1>1, <1>2, <1>7 DEF PushTooLong
<1>8. CASE MarkSendable(t)
  BY <1>1, <1>2, <1>8 DEF MarkSendable
<1>9. CASE DropCreated(t)
  <2>1. CASE pc[t] = "marked"
    BY <1>1, <1>9, <2>1 DEF DropCreated
  <2>2. CASE pc[t] = "abort"
    <3>1. Finish(t, Result(t, "TooLong"))
      BY <1>9, <2>2 DEF DropCreated
    <3>2. fut'[t].outcome # "ok"
      BY <1>1, <3>1, FinishFields, ResultFields DEF Outcome
    <3> QED BY <1>1, <1>9, <2>2, <3>2 DEF DropCreated, Finish
  <2> QED BY <1>9, <2>1, <2>2 DEF DropCreated
<1>10. CASE TaskWakeSender(t)
  BY <1>1, <1>2, <1>10 DEF TaskWakeSender
<1>11. CASE Resume(t)
  BY <1>1, <1>2, <1>11 DEF Resume
<1>12. CASE PollRegister(t)
  BY <1>1, <1>2, <1>12 DEF PollRegister
<1>13. CASE PollSwap(t)
  BY <1>1, <1>2, <1>13 DEF PollSwap
<1>14. CASE PollPending(t)
  BY <1>1, <1>2, <1>14 DEF PollPending, MatchWas, Finish
<1>15. CASE PollTimeout(t)
  <2>1. Finish(t, Result(t, "Timeout"))
    BY <1>15 DEF PollTimeout
  <2>2. fut'[t].outcome # "ok"
    BY <1>1, <2>1, FinishFields, ResultFields DEF Outcome
  <2> QED BY <1>1, <1>15, <2>2 DEF PollTimeout, Finish
<1>16. CASE PollRetry(t)
  BY <1>1, <1>2, <1>16 DEF PollRetry
<1>17. CASE PollRewake(t)
  BY <1>1, <1>2, <1>17 DEF PollRewake, MatchWas, Finish
<1>18. CASE IterRead(t)
  BY <1>1, <1>2, <1>18 DEF IterRead
<1>19. CASE FirstPduCheck(t)
  BY <1>1, <1>2, <1>19 DEF FirstPduCheck
<1>20. CASE DropReceived(t)
  BY <1>1, <1>2, <1>20 DEF DropReceived
<1>21. CASE ClearFirstPdu(t)
  <2>1. CASE fut[t].mode = "first" /\ fut[t].outcome = "ok"
    BY <1>1, <1>21, <2>1 DEF ClearFirstPdu
  <2>2. CASE ~(fut[t].mode = "first" /\ fut[t].outcome = "ok")
    <3>1. Finish(t, fut[t])
      BY <1>21, <2>2 DEF ClearFirstPdu
    <3>2. fut'[t].outcome = "ok" => fut[t].mode = "iter"
      BY <1>1, <2>2, <3>1, FinishFields
    <3>3. /\ pc[t] = "clear" /\ pc'[t] = "idle" /\ slot' = slot /\ status' = status
          /\ buf' = buf
      BY <1>1, <1>21, <3>1 DEF ClearFirstPdu, Finish
    <3> QED BY <3>2, <3>3
  <2> QED BY <2>1, <2>2
<1>22. CASE ReadPdu(t)
  BY <1>1, <1>2, <1>22 DEF ReadPdu, Finish
<1>23. CASE DropFuture(t)
  <2>1. Finish(t, Result(t, "dropped"))
    BY <1>23 DEF DropFuture
  <2>2. fut'[t].outcome # "ok"
    BY <1>1, <2>1, FinishFields, ResultFields DEF Outcome
  <2> QED BY <1>1, <1>23, <2>2 DEF DropFuture, Finish
<1> QED BY <1>0, <1>3, <1>4, <1>5, <1>6, <1>7, <1>8, <1>9, <1>10, <1>11, <1>12, <1>13, <1>14, <1>15, <1>16, <1>17, <1>18, <1>19, <1>20, <1>21, <1>22, <1>23
    DEF Acts, TaskStep

-----------------------------------------------------------------------------
\* A frame keeps its request until the reply is copied: a retry sends what was
\* sent before.

\* A task never offers anything but a request for sending.
LEMMA RequestTask ==
  ASSUME Sched = "coop", CoopInv, NEW t \in Tasks, Acts(t)
  PROVE  RequestKept'
<1>1. Alone(t) /\ OnlyOwn(t) /\ SlotMoves(t) /\ FutMoves(t) /\ FrameMoves(t) /\ Onward(t)
  BY ActsAlone, ActsOwn, ActsSlot, ActsFut, ActsFrame DEF CoopInv, PduInv
<1>2. /\ RequestKept /\ StatusKept /\ fut[t].pushed \in Nat
      /\ pc[t] = "timer" => was[t] \in {"Sendable", "Sending", "Sent", "RxBusy"}
  BY BoundsAssumption
  DEF CoopInv, PduInv, OwnInv, HeldStatus, TypeOK, TaskType, FutData
<1>3. slot[t] \in Slots
  BY DEF CoopInv, PduInv, TypeOK, TaskType
<1>4. ASSUME NEW u \in Tasks
      PROVE  /\ pc'[u] \in {"idle", "alloc", "claim"} => fut'[u].pushed = 0
             /\ pc'[u] = "created" /\ fut'[u].pushed > 0 => buf'[slot'[u]].kind = "req"
  <2>1. CASE u # t
    BY <1>1, <1>2, <2>1 DEF Alone, OnlyOwn, RequestKept, TaskBusy
  <2>2. CASE u = t
    <3>1. pc'[t] \in {"idle", "alloc", "claim"} => fut'[t].pushed = 0
      BY <1>1, <1>2 DEF FutMoves, Onward, RequestKept
    <3>2. CASE pc[t] = "claim" /\ pc'[t] = "created"
      BY <1>1, <1>2, <2>2, <3>2 DEF FutMoves, RequestKept
    <3>3. CASE pc[t] = "created" /\ pc'[t] = "created"
      BY <1>1, <1>2, <2>2, <3>3 DEF FrameMoves, RequestKept
    <3> QED BY <1>1, <2>2, <3>1, <3>2, <3>3 DEF Onward
  <2> QED BY <2>1, <2>2
<1>5. ASSUME NEW s \in Slots, status'[s] \in {"Sendable", "Sending", "Sent", "RxBusy"}
      PROVE  buf'[s].kind = "req"
  <2>0. rx_pc # "mark"
    BY <1>1 DEF Alone, RxBusy
  <2>1. CASE s # slot[t]
    BY <1>1, <1>2, <1>5, <2>0, <2>1 DEF OnlyOwn, RequestKept
  <2>2. CASE s = slot[t]
    <3>1. pc'[t] # "created"
      BY <1>1, <1>5, <2>2 DEF SlotMoves, FrameMoves, Onward
    <3>2. buf'[s] = buf[s]
      BY <1>1, <2>2, <3>1 DEF FrameMoves
    <3> QED BY <1>1, <1>2, <1>5, <2>0, <2>2, <3>2 DEF FrameMoves, RequestKept, StatusKept
  <2> QED BY <2>1, <2>2
<1> QED BY <1>4, <1>5 DEF RequestKept

\* Nor does any other step turn a frame to be sent into something else.
LEMMA RequestStep ==
  ASSUME Sched = "coop", CoopInv, [Next]_vars
  PROVE  RequestKept'
<1>1. ASSUME NEW t \in Tasks, Acts(t) PROVE RequestKept'
  BY <1>1, RequestTask
<1>2. ASSUME NEW t \in Tasks, TimerExpires(t) \/ \E m \in Modes : StartRequest(t, m)
      PROVE  RequestKept'
  <2>1. /\ \A u \in Tasks : fut'[u].pushed = fut[u].pushed
        /\ UNCHANGED <<slot, status, buf, rx_pc, rx_i>>
        /\ pc' = pc \/ (pc' = [pc EXCEPT ![t] = "alloc"] /\ pc[t] = "idle")
    <3>1. fut \in [Tasks -> FutData]
      BY DEF CoopInv, PduInv, TypeOK, TaskType
    <3>2. CASE TimerExpires(t)
      <4>1. fut' = [fut EXCEPT ![t] = [fut[t] EXCEPT !.expired = TRUE]]
        BY <3>2 DEF TimerExpires
      <4>2. \A u \in Tasks : fut'[u].pushed = fut[u].pushed
        BY <3>1, <4>1 DEF FutData
      <4>3. UNCHANGED <<slotVars, rxVars, pc, slot>>
        BY <3>2 DEF TimerExpires
      <4> QED BY <4>2, <4>3 DEF slotVars, rxVars
    <3>3. ASSUME NEW m \in Modes, StartRequest(t, m)
          PROVE  /\ \A u \in Tasks : fut'[u].pushed = fut[u].pushed
                 /\ UNCHANGED <<slot, status, buf, rx_pc, rx_i>>
                 /\ pc' = [pc EXCEPT ![t] = "alloc"] /\ pc[t] = "idle"
      BY <3>1, <3>3 DEF StartRequest, slotVars, rxVars, FutData
    <3> QED BY <1>2, <3>2, <3>3
  <2>2. pc \in [Tasks -> TaskPc]
    BY DEF CoopInv, PduInv, TypeOK, TaskType
  <2> QED BY <2>1, <2>2 DEF CoopInv, RequestKept
<1>3. CASE Outside \/ UNCHANGED vars
  <2>1. UNCHANGED <<pc, slot, was, fut>>
    BY <1>3, OutsideTasks
  <2>2. /\ status \in [Slots -> FrameState] /\ buf \in [Slots -> Frame]
        /\ tx_i \in 0..N /\ rx_i \in 0..N
        /\ rx_pc \in {"claim", "copy", "mark", "wake"} => rx_i \in Slots
        /\ tx_pc \in {"send", "sent"} => tx_i \in Slots
        /\ RequestKept /\ StatusKept
    BY DEF CoopInv, PduInv, TypeOK, SlotType, TxType, RxType
  <2> USE DEF slotVars, txVars, rxVars
  <2>3. CASE \/ UNCHANGED vars \/ TxPoll \/ DriverExit \/ TxScanEnd \/ DriverRestart
             \/ RxTake \/ RxSearch \/ Lose \/ Release \/ ReleaseWake \/ ResetCounters
             \/ RxUnknown \/ ClaimReceivingFails \/ RxOversize \/ RxWake \/ SendFrame
    <3>1. status' = status /\ buf' = buf /\ (rx_pc = "mark" => rx_pc' = "mark" /\ rx_i' = rx_i)
      <4>1. OneRuns
        BY DEF CoopInv
      <4> QED BY <2>3, <4>1 DEF vars, TxPoll, DriverExit, TxScanEnd, DriverRestart, RxTake,
             RxSearch, Lose, Release, ReleaseWake, ResetCounters, RxUnknown,
             ClaimReceivingFails, RxOversize, RxError, DriverError, RxWake, SendFrame,
             CoopInv, PduInv, WakeInv, DriverHalves
    <3> QED BY <2>1, <2>2, <3>1 DEF RequestKept
  <2>4. CASE ClaimSending \/ MarkSent \/ SendFails
    <3>1. /\ buf' = buf /\ rx_pc # "mark" /\ \A t \in Tasks : pc[t] # "created"
      BY <2>4 DEF ClaimSending, MarkSent, SendFails, TxMayRun, RxBusy, TaskBusy
    <3>2. \A s \in Slots :
            \/ status'[s] = status[s]
            \/ status[s] \in {"Sendable", "Sending"}
      BY <2>2, <2>4 DEF ClaimSending, MarkSent, SendFails, StatusKept
    <3> QED BY <2>1, <2>2, <3>1, <3>2 DEF RequestKept
  <2>5. CASE ClaimReceiving \/ RxCopy \/ MarkReceived
    <3>1. \A t \in Tasks : pc[t] # "created"
      BY <2>5 DEF ClaimReceiving, RxCopy, MarkReceived, RxMayRun, TaskBusy
    <3>2. CASE ClaimReceiving
      BY <2>1, <2>2, <3>1, <3>2 DEF ClaimReceiving, RequestKept
    <3>3. CASE RxCopy
      BY <2>1, <2>2, <3>1, <3>3 DEF RxCopy, RequestKept, StatusKept
    <3>4. CASE MarkReceived
      BY <2>1, <2>2, <3>1, <3>4 DEF MarkReceived, RequestKept
    <3> QED BY <2>5, <3>2, <3>3, <3>4
  <2>6. CASE MarkReceivedFails
    BY <2>2, <2>6 DEF MarkReceivedFails, StatusKept
  <2>7. CASE ResetSlot
    <3>1. /\ \A s \in Slots : status'[s] \in {"None", status[s]}
          /\ buf' = buf /\ rx_pc' = rx_pc /\ rx_i' = rx_i
      BY <2>2, <2>7 DEF ResetSlot, CoopInv, PduInv, TypeOK, MdType
    <3> QED BY <2>1, <2>2, <3>1 DEF RequestKept
  <2> QED BY <1>3, <2>3, <2>4, <2>5, <2>6, <2>7 DEF Outside, TxStep, RxStep, MdStep
<1> QED BY <1>1, <1>2, <1>3, NextSteps

-----------------------------------------------------------------------------
\* The invariant on one thread, and what follows from it.

\* At the start everyone is idle and every slot free.
LEMMA CoopInit == Init => OneRuns /\ StatusKept /\ NoSlotLeak /\ RequestKept
<1> SUFFICES ASSUME Init PROVE OneRuns /\ StatusKept /\ NoSlotLeak /\ RequestKept
  OBVIOUS
<1>1. /\ \A t \in Tasks : pc[t] = "idle" /\ fut[t].pushed = 0
      /\ \A s \in Slots : status[s] = "None"
      /\ tx_pc = "parked" /\ rx_pc = "idle" /\ md_pc = "run"
  BY DEF Init
<1> QED BY <1>1 DEF OneRuns, StatusKept, NoSlotLeak, RequestKept, TaskBusy, TxBusy, RxBusy

\* On one thread no actor finds a slot other than it left it.  [PduStorage]
THEOREM CoopInvariant == Sched = "coop" => (Spec => []CoopInv)
<1> SUFFICES ASSUME Sched = "coop" PROVE Spec => []CoopInv
  OBVIOUS
<1>1. Init => CoopInv
  BY CoopInit, TypeInit, OwnInit, WakeInit DEF CoopInv, PduInv
<1>2. CoopInv /\ [Next]_vars => CoopInv'
  <2> SUFFICES ASSUME CoopInv, [Next]_vars PROVE CoopInv'
    OBVIOUS
  <2>1. TypeOK'
    BY TypeStep DEF CoopInv, PduInv
  <2>2. PduInv'
    BY <2>1, OwnStep, WakeStep, SendStep DEF CoopInv, PduInv
  <2> QED BY <2>2, OneRunsStep, StatusStep, RequestStep DEF CoopInv
<1> QED BY <1>1, <1>2, PTL DEF Spec

\* On one thread no slot is lost: whatever times out, is dropped, fails to be
\* sent or is too long, a slot that is not free has a holder that will free it.
\* [ReceiveFrameFut, CreatedFrame::drop, mark_sent]
THEOREM SlotsReturn == Sched = "coop" => (Spec => []NoSlotLeak)
<1>1. CoopInv => NoSlotLeak
  BY DEF CoopInv
<1> QED BY <1>1, CoopInvariant, PTL

\* On one thread a retry never sends a reply in place of a request.
\* [ReceiveFrameFut::poll, send_blocking]
THEOREM RequestsAreSent == Sched = "coop" => (Spec => []SendsRequests)
<1>1. CoopInv => SendsRequests
  BY DEF CoopInv, PduInv, TypeOK, TxType, StatusKept, RequestKept, SendsRequests
<1> QED BY <1>1, CoopInvariant, PTL

-----------------------------------------------------------------------------
\* Whose reply a task reads.

\* The index of task t's request is not that of any other frame or reply.
Sole(t) == MyTag(t) \notin clashed

\* A frame carries the index of its request.
FrameInv ==
  \A t \in Tasks :
    /\ pc[t] = "created" /\ fut[t].pushed = 0 => first_pdu[slot[t]] = FIRST_PDU_EMPTY
    /\ Carries(t) => /\ first_pdu[slot[t]] = fut[t].handle
                     /\ buf[slot[t]].idx = fut[t].handle
                     /\ Sole(t) => buf[slot[t]].tag = MyTag(t)
    /\ \A u \in Tasks :
         Carries(t) /\ Sole(t) /\ Carries(u) /\ fut[t].handle = fut[u].handle => t = u

\* A reply under way with the index of a frame answers the frame's request.
AnswerTo(m) ==
  /\ m.kind = "resp"
  /\ \A t \in Tasks : Carries(t) /\ Sole(t) /\ fut[t].handle = m.idx => m.tag = MyTag(t)

ReplyInv ==
  /\ \A k \in 1..Len(net) : AnswerTo(net[k])
  /\ RxBusy => AnswerTo(rx_msg)
  /\ rx_pc \in {"claim", "copy", "mark"} => first_pdu[rx_i] = rx_msg.idx
  /\ rx_pc = "mark" => buf[rx_i] = rx_msg

\* What a task has to read, and what it has read.
IsReplyTo(t, m) == m.kind = "resp" /\ (Sole(t) => m.tag = MyTag(t))

ReadInv ==
  \A t \in Tasks :
    /\ Carries(t) /\ status[slot[t]] \in {"RxDone", "RxProcessing"}
         => buf[slot[t]].kind = "resp"
    /\ pc[t] \in {"clear", "read"} => IsReplyTo(t, buf[slot[t]])
    /\ /\ pc[t] \in {"free", "clear", "idle"} /\ fut[t].outcome = "ok"
       /\ pc[t] = "idle" \/ fut[t].mode = "iter"
       => IsReplyTo(t, fut[t].got)

OwnReplyInv == FrameInv /\ ReplyInv /\ ReadInv

\* A frame under construction stays so only when a PDU is pushed to it.
LEMMA ActsPush ==
  ASSUME TypeOK, NEW t \in Tasks, Acts(t), pc[t] = "created", pc'[t] = "created"
  PROVE  PushPdu(t)
BY DEF TypeOK, TaskType, Acts, TaskStep, AllocNext, AllocFail, ClaimCreated, PushTooLong,
       MarkSendable, DropCreated, TaskWakeSender, Resume, PollRegister, PollSwap,
       PollPending, PollTimeout, PollRetry, PollRewake, IterRead, FirstPduCheck,
       DropReceived, ClearFirstPdu, ReadPdu, DropFuture

\* A frame that is given an index in use shares it with all that have it.
LEMMA ActsClash ==
  ASSUME TypeOK, NEW t \in Tasks, Acts(t)
  PROVE  /\ clashed \subseteq clashed'
         /\ /\ pc[t] = "created" /\ pc'[t] = "created" /\ fut[t].pushed = 0
            /\ InUse(pdu_idx)
            => {MyTag(t)} \cup {MyTag(u) : u \in Carriers(pdu_idx)} \subseteq clashed'
<1>1. CASE PushPdu(t)
  <2> DEFINE more == {MyTag(t)} \cup {MyTag(u) : u \in Carriers(pdu_idx)}
  <2>1. clashed' = clashed \cup IF fut[t].pushed = 0 /\ InUse(pdu_idx) THEN more ELSE {}
    BY <1>1 DEF PushPdu
  <2> HIDE DEF more
  <2>2. /\ clashed \subseteq clashed'
        /\ fut[t].pushed = 0 /\ InUse(pdu_idx) => more \subseteq clashed'
    BY <2>1
  <2> QED BY <2>2 DEF more
<1>2. CASE ~PushPdu(t)
  <2>1. clashed' = clashed
    BY <1>2 DEF Acts, TaskStep, AllocNext, AllocFail, ClaimCreated, PushTooLong, MarkSendable,
       DropCreated, TaskWakeSender, Resume, PollRegister, PollSwap, PollPending,
       PollTimeout, PollRetry, PollRewake, IterRead, FirstPduCheck, DropReceived,
       ClearFirstPdu, ReadPdu, DropFuture
  <2> QED BY <1>2, <2>1, ActsPush
<1> QED BY <1>1, <1>2

\* The frames of the other tasks are not touched.
LEMMA ActsOthers ==
  ASSUME Sched = "coop", CoopInv, NEW t \in Tasks, Acts(t),
         NEW u \in Tasks \ {t}, pc[u] \in Holding
  PROVE  /\ status'[slot[u]] = status[slot[u]] /\ buf'[slot[u]] = buf[slot[u]]
         /\ first_pdu'[slot[u]] = first_pdu[slot[u]]
<1>1. OnlyOwn(t) /\ SlotMoves(t) /\ FrameMoves(t) /\ Onward(t)
  BY ActsOwn, ActsSlot, ActsFrame DEF CoopInv, PduInv
<1>2. PduInv'
  <2>1. [Next]_vars
    BY DEF Acts, Next
  <2>2. TypeOK'
    BY <2>1, TypeStep DEF CoopInv, PduInv
  <2> QED BY <2>1, <2>2, OwnStep, WakeStep, SendStep DEF CoopInv, PduInv
<1>3. slot[t] \in Slots /\ slot[u] \in Slots
  BY DEF CoopInv, PduInv, TypeOK, TaskType
<1>4. CASE slot[u] # slot[t]
  BY <1>1, <1>3, <1>4 DEF OnlyOwn
<1>5. CASE slot[u] = slot[t]
  <2>1. pc[t] \notin Holding
    BY <1>5 DEF CoopInv, PduInv, OwnInv, SlotOwnerUnique
  <2>2. status[slot[t]] # "None"
    BY <1>5 DEF CoopInv, PduInv, OwnInv, HeldStatus
  <2>3. pc[t] \notin {"clear", "read"}
    BY <2>2 DEF CoopInv, StatusKept
  <2>4. ~(pc'[t] \in Holding /\ slot'[t] = slot[t])
    BY <1>1, <1>2, <1>5 DEF OnlyOwn, PduInv, OwnInv, SlotOwnerUnique
  <2>5. status'[slot[t]] # "None"
    BY <1>1, <1>2, <1>5 DEF OnlyOwn, PduInv, OwnInv, HeldStatus
  <2>6. status' = status
    BY <1>1, <2>4, <2>5 DEF SlotMoves
  <2>7. ~(pc[t] = "claim" /\ pc'[t] = "created") /\ pc[t] # "created"
    BY <1>1, <2>1, <2>4 DEF FrameMoves, Holding
  <2> QED BY <1>1, <1>5, <2>3, <2>6, <2>7 DEF FrameMoves
<1> QED BY <1>4, <1>5

\* A task keeps replies with their requests.
LEMMA ReplyTask ==
  ASSUME Sched = "coop", CoopInv, OwnReplyInv, NEW t \in Tasks, Acts(t)
  PROVE  OwnReplyInv'
<1> DEFINE s == slot[t]
           new == pc[t] = "created" /\ pc'[t] = "created" /\ fut[t].pushed = 0
<1>1. Alone(t) /\ OnlyOwn(t) /\ SlotMoves(t) /\ FutMoves(t) /\ FrameMoves(t) /\ Onward(t)
  BY ActsAlone, ActsOwn, ActsSlot, ActsFut, ActsFrame DEF CoopInv, PduInv
<1>2. \A u \in Tasks \ {t} : pc[u] \in Holding =>
        /\ status'[slot[u]] = status[slot[u]] /\ buf'[slot[u]] = buf[slot[u]]
        /\ first_pdu'[slot[u]] = first_pdu[slot[u]]
  BY ActsOthers
<1>3. /\ fut[t].pushed \in Nat /\ fut[t].handle \in PduIdx /\ fut[t].handle # FIRST_PDU_EMPTY
      /\ fut[t].mode \in {"first", "iter"}
  BY BoundsAssumption, ConstFacts
  DEF CoopInv, PduInv, TypeOK, TaskType, FutData, PduIdx, FIRST_PDU_EMPTY
<1>5. \A u \in Tasks \ {t} : /\ Carries(u)' <=> Carries(u)
                             /\ Carries(u) => pc[u] \in Holding
                             /\ fut'[u] = fut[u] /\ slot'[u] = slot[u] /\ MyTag(u)' = MyTag(u)
                             /\ pc[u] \notin {"created", "received", "free", "clear", "read"}
  BY <1>1 DEF OnlyOwn, Alone, TaskBusy, Carries, MyTag, Holding, InFlight
<1>6. MyTag(t)' = MyTag(t)
  BY <1>1 DEF FutMoves, MyTag
<1>4. /\ \A u \in Tasks : Sole(u)' => Sole(u)
      /\ new /\ InUse(pdu_idx) =>
           ~Sole(t)' /\ \A u \in Tasks : Carries(u) /\ fut[u].handle = pdu_idx => ~Sole(u)'
  <2>1. \A u \in Tasks : MyTag(u)' = MyTag(u)
    BY <1>5, <1>6
  <2>2. TypeOK
    BY DEF CoopInv, PduInv
  <2>3. clashed \subseteq clashed'
    BY <2>2, ActsClash
  <2>4. new /\ InUse(pdu_idx) =>
          MyTag(t) \in clashed' /\ \A u \in Carriers(pdu_idx) : MyTag(u) \in clashed'
    BY <2>2, ActsClash
  <2> QED BY <2>1, <2>3, <2>4 DEF Sole, Carriers
\* The frame of the task itself: new, or the one it had.
<1>7. /\ Carries(t)' => new \/ Carries(t)
      /\ Carries(t)' /\ ~new => /\ fut'[t].handle = fut[t].handle
                                /\ slot'[t] = s /\ buf'[s] = buf[s]
                                /\ first_pdu'[s] = first_pdu[s]
      /\ new => /\ fut'[t].handle = pdu_idx /\ slot'[t] = s
                /\ buf'[s] = [kind |-> "req", idx |-> pdu_idx, tag |-> MyTag(t)]
                /\ first_pdu[s] = FIRST_PDU_EMPTY /\ first_pdu'[s] = pdu_idx
  <2>1. new => first_pdu[s] = FIRST_PDU_EMPTY
    BY DEF OwnReplyInv, FrameInv
  <2>2. new => /\ fut'[t].handle = pdu_idx /\ slot'[t] = s
               /\ buf'[s] = [kind |-> "req", idx |-> pdu_idx, tag |-> MyTag(t)]
               /\ first_pdu'[s] = pdu_idx
    BY <1>1, <2>1 DEF FutMoves, FrameMoves
  <2>3. Carries(t)' => new \/ Carries(t)
    <3>1. CASE pc'[t] = "created" /\ pc[t] = "created"
      BY <1>3, <3>1 DEF Carries
    <3>2. CASE pc'[t] = "created" /\ pc[t] = "claim"
      BY <1>1, <3>2 DEF Carries, FutMoves, InFlight, CoopInv, RequestKept
    <3>3. CASE pc'[t] # "created"
      BY <1>1, <3>3 DEF Carries, Onward, InFlight
    <3> QED BY <1>1, <3>1, <3>2, <3>3 DEF Onward
  <2>4. ASSUME Carries(t)', ~new
        PROVE  /\ fut'[t].handle = fut[t].handle /\ slot'[t] = s /\ buf'[s] = buf[s]
               /\ first_pdu'[s] = first_pdu[s]
    <3>1. Carries(t)
      BY <2>3, <2>4
    <3>2. pc'[t] # "idle" /\ pc[t] \notin {"alloc", "claim", "clear"}
      BY <2>4, <3>1 DEF Carries, InFlight
    <3>3. first_pdu[s] # FIRST_PDU_EMPTY
      BY <1>3, <3>1 DEF OwnReplyInv, FrameInv
    <3> QED BY <1>1, <2>4, <3>2, <3>3 DEF FutMoves, FrameMoves
  <2> QED BY <2>1, <2>2, <2>3, <2>4
<1>8. FrameInv'
  <2>1. ASSUME NEW u \in Tasks
        PROVE  /\ pc'[u] = "created" /\ fut'[u].pushed = 0
                    => first_pdu'[slot'[u]] = FIRST_PDU_EMPTY
               /\ Carries(u)' => /\ first_pdu'[slot'[u]] = fut'[u].handle
                                 /\ buf'[slot'[u]].idx = fut'[u].handle
                                 /\ Sole(u)' => buf'[slot'[u]].tag = MyTag(u)'
    <3>1. CASE u # t
      BY <1>1, <1>2, <1>4, <1>5, <3>1 DEF OwnReplyInv, FrameInv, OnlyOwn
    <3>2. CASE u = t
      <4>1. Carries(t)' => /\ first_pdu'[slot'[t]] = fut'[t].handle
                           /\ buf'[slot'[t]].idx = fut'[t].handle
                           /\ Sole(t)' => buf'[slot'[t]].tag = MyTag(t)'
        BY <1>4, <1>6, <1>7 DEF OwnReplyInv, FrameInv
      <4>2. pc'[t] = "created" /\ fut'[t].pushed = 0 => first_pdu'[slot'[t]] = FIRST_PDU_EMPTY
        BY <1>1, <1>3 DEF FutMoves, FrameMoves, Onward
      <4> QED BY <3>2, <4>1, <4>2
    <3> QED BY <3>1, <3>2
  <2>2. ASSUME NEW u \in Tasks \ {t}, Carries(u)', Carries(t)', Sole(u)' \/ Sole(t)'
        PROVE  fut'[t].handle # fut'[u].handle
    <3>1. CASE new
      <4>1. fut[u].handle = pdu_idx => InUse(pdu_idx)
        BY <1>5, <2>2 DEF InUse, Carriers
      <4> QED BY <1>4, <1>5, <1>7, <2>2, <3>1, <4>1
    <3>2. CASE ~new
      BY <1>4, <1>5, <1>7, <2>2, <3>2 DEF OwnReplyInv, FrameInv
    <3> QED BY <3>1, <3>2
  <2>3. ASSUME NEW u \in Tasks \ {t}, NEW v \in Tasks \ {t}, Carries(u)', Carries(v)',
               Sole(u)', fut'[u].handle = fut'[v].handle
        PROVE  u = v
    BY <1>4, <1>5, <2>3 DEF OwnReplyInv, FrameInv
  <2> QED BY <2>1, <2>2, <2>3 DEF FrameInv
<1>9. ReplyInv'
  <2>1. ~RxBusy' /\ net' = net
    BY <1>1 DEF Alone, OnlyOwn, RxBusy
  <2>2. ASSUME NEW k \in 1..Len(net) PROVE AnswerTo(net[k])'
    <3>1. AnswerTo(net[k])
      BY DEF OwnReplyInv, ReplyInv
    <3>2. new /\ net[k].idx = pdu_idx => ~Sole(t)'
      BY <1>4 DEF InUse
    <3>3. ASSUME NEW u \in Tasks, Carries(u)', Sole(u)', fut'[u].handle = net[k].idx
          PROVE  net[k].tag = MyTag(u)'
      <4>1. CASE u # t
        BY <1>4, <1>5, <3>1, <3>3, <4>1 DEF AnswerTo
      <4>2. CASE u = t
        BY <1>4, <1>6, <1>7, <3>1, <3>2, <3>3, <4>2 DEF AnswerTo
      <4> QED BY <4>1, <4>2
    <3> QED BY <2>1, <3>1, <3>3 DEF AnswerTo
  <2> QED BY <2>1, <2>2 DEF ReplyInv, RxBusy
<1>10. ReadInv'
  <2>1. ASSUME NEW u \in Tasks \ {t}
        PROVE  /\ Carries(u)' /\ status'[slot'[u]] \in {"RxDone", "RxProcessing"}
                    => buf'[slot'[u]].kind = "resp"
               /\ pc'[u] \in {"clear", "read"} => IsReplyTo(u, buf[slot[u]])'
               /\ /\ pc'[u] \in {"free", "clear", "idle"} /\ fut'[u].outcome = "ok"
                  /\ pc'[u] = "idle" \/ fut'[u].mode = "iter"
                  => IsReplyTo(u, fut[u].got)'
    BY <1>1, <1>2, <1>4, <1>5 DEF OwnReplyInv, ReadInv, OnlyOwn, IsReplyTo
  <2>2. Carries(t)' /\ status'[slot'[t]] \in {"RxDone", "RxProcessing"}
          => buf'[slot'[t]].kind = "resp"
    <3>1. ASSUME Carries(t)', status'[slot'[t]] \in {"RxDone", "RxProcessing"}
          PROVE  buf'[slot'[t]].kind = "resp"
      <4>1. ~new
        BY <1>1, <3>1 DEF SlotMoves
      <4>2. status[s] \in {"RxDone", "RxProcessing"}
        BY <1>1, <1>7, <3>1, <4>1 DEF FrameMoves
      <4> QED BY <1>7, <3>1, <4>1, <4>2 DEF OwnReplyInv, ReadInv
    <3> QED BY <3>1
  <2>3. pc[t] \in {"received", "free"} => IsReplyTo(t, buf[s])
    BY DEF OwnReplyInv, ReadInv, FrameInv, Carries, IsReplyTo, CoopInv, PduInv, OwnInv,
           ReceivedFrameIntact
  <2>4. pc[t] \in {"received", "free", "clear", "read"} => buf'[s] = buf[s] /\ slot'[t] = s
    BY <1>1 DEF FrameMoves
  <2>5. pc'[t] \in {"clear", "read"} => IsReplyTo(t, buf[slot[t]])'
    BY <1>1, <1>4, <1>6, <2>3, <2>4 DEF Onward, IsReplyTo, OwnReplyInv, ReadInv
  <2>6. ASSUME pc'[t] \in {"free", "clear", "idle"}, fut'[t].outcome = "ok",
               pc'[t] = "idle" \/ fut'[t].mode = "iter"
        PROVE  IsReplyTo(t, fut[t].got)'
    <3>1. CASE pc'[t] = "free"
      BY <1>1, <1>4, <1>6, <2>3, <2>6, <3>1 DEF Onward, FutMoves, IsReplyTo
    <3>2. CASE pc'[t] = "clear"
      BY <1>1, <1>4, <1>6, <2>6, <3>2 DEF Onward, FutMoves, IsReplyTo, OwnReplyInv, ReadInv
    <3>3. CASE pc'[t] = "idle"
      BY <1>1, <1>4, <1>6, <2>6, <3>3 DEF Onward, FutMoves, IsReplyTo, OwnReplyInv, ReadInv
    <3> QED BY <2>6, <3>1, <3>2, <3>3
  <2> QED BY <2>1, <2>2, <2>5, <2>6 DEF ReadInv
<1> QED BY <1>8, <1>9, <1>10 DEF OwnReplyInv

\* While the driver runs, the holder of a slot waits for its reply.
LEMMA HolderWaits ==
  ASSUME CoopInv, NEW s \in Slots, status[s] # "None", \A t \in Tasks : ~TaskBusy(t)
  PROVE  \E t \in Tasks : pc[t] = "pending" /\ slot[t] = s /\ Carries(t)
BY DEF CoopInv, NoSlotLeak, Owns, Holding, TaskBusy, Carries, InFlight

\* The driver delivers a reply to the frame that has its index, and to no other.
LEMMA ReplyOutside ==
  ASSUME Sched = "coop", CoopInv, OwnReplyInv, Outside \/ UNCHANGED vars
  PROVE  OwnReplyInv'
<1>1. UNCHANGED <<pc, slot, was, fut>>
  BY OutsideTasks
<1>2. \A t \in Tasks : /\ Carries(t)' <=> Carries(t)
                       /\ MyTag(t)' = MyTag(t) /\ fut'[t] = fut[t] /\ slot'[t] = slot[t]
                       /\ pc'[t] = pc[t] /\ (Sole(t)' <=> Sole(t))
  <2>1. clashed' = clashed
    BY DEF Outside, TxStep, RxStep, MdStep, TxPoll, DriverExit, DriverRestart, TxScanEnd,
       ClaimSending, SendFrame, MarkSent, SendFails, RxTake, RxSearch, RxUnknown,
       ClaimReceiving, ClaimReceivingFails, RxCopy, RxOversize, MarkReceived,
       MarkReceivedFails, RxWake, RxError, Lose, Release, ReleaseWake, ResetCounters,
       ResetSlot, vars
  <2> QED BY <1>1, <2>1 DEF Carries, MyTag, Sole
<1>4. /\ status \in [Slots -> FrameState] /\ buf \in [Slots -> Frame]
      /\ slot \in [Tasks -> Slots] /\ net \in Seq(Frame)
      /\ tx_i \in 0..N /\ rx_i \in 0..N
      /\ rx_pc \in {"claim", "copy", "mark", "wake"} => rx_i \in Slots
      /\ tx_pc \in {"send", "sent"} => tx_i \in Slots
      /\ StatusKept
  BY DEF CoopInv, PduInv, TypeOK, SlotType, TaskType, TxType, RxType
<1>5. first_pdu' = first_pdu
  BY DEF Outside, TxStep, RxStep, MdStep, TxPoll, DriverExit, DriverRestart, TxScanEnd,
       ClaimSending, SendFrame, MarkSent, SendFails, RxTake, RxSearch, RxUnknown,
       ClaimReceiving, ClaimReceivingFails, RxCopy, RxOversize, MarkReceived,
       MarkReceivedFails, RxWake, RxError, Lose, Release, ReleaseWake, ResetCounters,
       ResetSlot, slotVars, vars
<1>6. CASE RxCopy
  <2>1. /\ rx_pc = "copy" /\ rx_pc' = "mark" /\ buf' = [buf EXCEPT ![rx_i] = rx_msg]
        /\ UNCHANGED <<status, net, rx_i, rx_msg>> /\ \A t \in Tasks : ~TaskBusy(t)
    BY <1>6 DEF RxCopy, RxMayRun
  <2>2. /\ rx_i \in Slots /\ status[rx_i] = "RxBusy" /\ AnswerTo(rx_msg)
        /\ first_pdu[rx_i] = rx_msg.idx
    BY <1>4, <2>1 DEF StatusKept, OwnReplyInv, ReplyInv, RxBusy
  <2>3. ASSUME NEW t \in Tasks, Carries(t)
        PROVE  /\ buf'[slot[t]].idx = fut[t].handle
               /\ Sole(t) => buf'[slot[t]].tag = MyTag(t)
               /\ slot[t] # rx_i => buf'[slot[t]] = buf[slot[t]]
    <3>1. slot[t] \in Slots
      BY <1>4
    <3>2. first_pdu[slot[t]] = fut[t].handle
      BY <2>3 DEF OwnReplyInv, FrameInv
    <3>3. CASE slot[t] = rx_i
      BY <1>4, <2>1, <2>2, <2>3, <3>1, <3>2, <3>3 DEF AnswerTo
    <3>4. CASE slot[t] # rx_i
      BY <1>4, <2>1, <2>3, <3>1, <3>4 DEF OwnReplyInv, FrameInv
    <3> QED BY <3>3, <3>4
  <2>4. \A t \in Tasks : pc[t] \notin {"created", "received", "free", "clear", "read"}
    BY <2>1 DEF TaskBusy
  <2>5. FrameInv'
    BY <1>2, <1>5, <2>3, <2>4 DEF OwnReplyInv, FrameInv
  <2>6. ReplyInv'
    <3>1. buf'[rx_i] = rx_msg
      BY <1>4, <2>1, <2>2
    <3> QED BY <1>2, <1>5, <2>1, <2>2, <3>1 DEF OwnReplyInv, ReplyInv, AnswerTo, RxBusy
  <2>7. ReadInv'
    BY <1>2, <2>1, <2>2, <2>3, <2>4 DEF OwnReplyInv, ReadInv, IsReplyTo
  <2> QED BY <2>5, <2>6, <2>7 DEF OwnReplyInv
<1>7. CASE ~RxCopy
  <2>1. buf' = buf
    BY <1>7 DEF Outside, TxStep, RxStep, MdStep, TxPoll, DriverExit, DriverRestart,
       TxScanEnd, ClaimSending, SendFrame, MarkSent, SendFails, RxTake, RxSearch, RxUnknown,
       ClaimReceiving, ClaimReceivingFails, RxOversize, MarkReceived,
       MarkReceivedFails, RxWake, RxError, Lose, Release, ReleaseWake, ResetCounters,
       ResetSlot, slotVars, vars
  <2>2. FrameInv'
    BY <1>2, <1>5, <2>1 DEF OwnReplyInv, FrameInv
  <2>3. \A s \in Slots : status'[s] \in {"RxDone", "RxProcessing"} =>
          status'[s] = status[s] \/ (MarkReceived /\ s = rx_i)
    BY <1>4, <1>7, ConstFacts
    DEF Outside, TxStep, RxStep, MdStep, TxPoll, DriverExit, DriverRestart,
       TxScanEnd, ClaimSending, SendFrame, MarkSent, SendFails, RxTake, RxSearch, RxUnknown,
       ClaimReceiving, ClaimReceivingFails, RxOversize, MarkReceived,
       MarkReceivedFails, RxWake, RxError, Lose, Release, ReleaseWake, ResetCounters,
       ResetSlot, slotVars, vars
  <2>4. MarkReceived => buf[rx_i].kind = "resp"
    BY DEF MarkReceived, OwnReplyInv, ReplyInv, RxBusy, AnswerTo
  <2>5. ReadInv'
    BY <1>2, <1>4, <2>1, <2>3, <2>4 DEF OwnReplyInv, ReadInv, IsReplyTo
  <2>6. ASSUME NEW k \in 1..Len(net') PROVE AnswerTo(net[k])'
    <3>1. CASE SendFrame
      <4> DEFINE m == [buf[tx_i] EXCEPT !.kind = "resp"]
      <4>1. /\ net' = Append(net, m) /\ tx_pc = "send" /\ tx_i \in Slots
            /\ \A t \in Tasks : ~TaskBusy(t)
        BY <1>4, <3>1 DEF SendFrame, TxMayRun
      <4>2. status[tx_i] # "None"
        BY <1>4, <4>1 DEF StatusKept
      <4>3. PICK t \in Tasks : slot[t] = tx_i /\ Carries(t)
        BY <4>1, <4>2, HolderWaits
      <4>4. /\ m.kind = "resp" /\ m.idx = fut[t].handle /\ m \in Frame
            /\ Sole(t) => m.tag = MyTag(t)
        BY <1>4, <4>1, <4>3 DEF OwnReplyInv, FrameInv, Frame
      <4>5. AnswerTo(m)
        BY <4>3, <4>4 DEF AnswerTo, OwnReplyInv, FrameInv
      <4> HIDE DEF m
      <4>6. k \in 1..(Len(net) + 1) /\ net'[k] = IF k <= Len(net) THEN net[k] ELSE m
        BY <1>4, <2>6, <4>1, <4>4
      <4>7. CASE k <= Len(net)
        BY <1>2, <4>6, <4>7 DEF AnswerTo, OwnReplyInv, ReplyInv
      <4>8. CASE ~(k <= Len(net))
        BY <1>2, <4>5, <4>6, <4>8 DEF AnswerTo
      <4> QED BY <4>7, <4>8
    <3>2. CASE ~SendFrame
      <4>1. \/ net' = net
            \/ net' = <<>>
            \/ net' = Tail(net) /\ net # <<>>
        BY <1>7, <3>2 DEF Outside, TxStep, RxStep, MdStep, TxPoll, DriverExit, DriverRestart,
           TxScanEnd, ClaimSending, MarkSent, SendFails, RxTake, RxSearch, RxUnknown,
           ClaimReceiving, ClaimReceivingFails, RxOversize, MarkReceived,
           MarkReceivedFails, RxWake, RxError, Lose, Release, ReleaseWake, ResetCounters,
           ResetSlot, vars
      <4>2. \E j \in 1..Len(net) : net'[k] = net[j]
        BY <1>4, <2>6, <4>1, SMTT(40)
      <4> QED BY <1>2, <4>2 DEF AnswerTo, OwnReplyInv, ReplyInv
    <3> QED BY <3>1, <3>2
  <2>7. /\ RxBusy' => AnswerTo(rx_msg)'
        /\ rx_pc' \in {"claim", "copy", "mark"} => first_pdu'[rx_i'] = rx_msg'.idx
        /\ rx_pc' = "mark" => buf'[rx_i'] = rx_msg'
    <3>1. CASE RxTake
      <4>1. AnswerTo(Head(net))
        BY <1>4, <3>1 DEF RxTake, OwnReplyInv, ReplyInv
      <4>2. \/ rx_pc' = "idle"
            \/ rx_pc' = "search" /\ rx_msg' = Head(net)
        BY <3>1 DEF RxTake, rxVars
      <4> QED BY <1>2, <4>1, <4>2 DEF AnswerTo, RxBusy
    <3>2. CASE RxSearch
      BY <1>2, <1>5, <3>2 DEF RxSearch, AnswerTo, RxBusy, OwnReplyInv, ReplyInv
    <3>3. CASE ~RxTake /\ ~RxSearch
      <4>1. \/ rx_pc' \in {"idle", "stopped", "failed"}
            \/ rx_msg' = rx_msg /\ rx_i' = rx_i /\ RxBusy /\ (rx_pc' = "mark" => rx_pc = "mark")
               /\ (rx_pc' = "copy" => rx_pc \in {"claim", "copy"})
               /\ (rx_pc' = "claim" => rx_pc = "claim")
        BY <1>7, <3>3 DEF Outside, TxStep, RxStep, MdStep, TxPoll, DriverExit, DriverRestart,
           TxScanEnd, ClaimSending, SendFrame, MarkSent, SendFails, RxUnknown,
           ClaimReceiving, ClaimReceivingFails, RxOversize, MarkReceived,
           MarkReceivedFails, RxWake, RxError, DriverError, Lose, Release, ReleaseWake,
           ResetCounters, ResetSlot, vars, rxVars, RxBusy, CoopInv, PduInv, TypeOK, RxType
      <4>2. CASE rx_pc' \in {"idle", "stopped", "failed"}
        BY <4>2 DEF RxBusy
      <4> QED BY <1>2, <1>5, <2>1, <4>1, <4>2 DEF AnswerTo, OwnReplyInv, ReplyInv, RxBusy
    <3> QED BY <3>1, <3>2, <3>3
  <2> QED BY <2>2, <2>5, <2>6, <2>7 DEF OwnReplyInv, ReplyInv
<1> QED BY <1>6, <1>7

\* Every step keeps replies with their requests.
LEMMA ReplyStep ==
  ASSUME Sched = "coop", CoopInv, OwnReplyInv, [Next]_vars
  PROVE  OwnReplyInv'
<1>1. ASSUME NEW t \in Tasks, Acts(t) PROVE OwnReplyInv'
  BY <1>1, ReplyTask
<1>2. CASE Outside \/ UNCHANGED vars
  BY <1>2, ReplyOutside
<1>3. ASSUME NEW t \in Tasks, TimerExpires(t) \/ \E m \in Modes : StartRequest(t, m)
      PROVE  OwnReplyInv'
  <2>1. /\ fut \in [Tasks -> FutData] /\ pc \in [Tasks -> TaskPc]
    BY DEF CoopInv, PduInv, TypeOK, TaskType
  <2>2. UNCHANGED <<status, first_pdu, buf, net, slot, rx_pc, rx_i, rx_msg, clashed>>
    <3>1. CASE TimerExpires(t)
      BY <3>1 DEF TimerExpires, slotVars, rxVars
    <3>2. ASSUME NEW m \in Modes, StartRequest(t, m)
          PROVE  UNCHANGED <<status, first_pdu, buf, net, slot, rx_pc, rx_i, rx_msg, clashed>>
      BY <3>2 DEF StartRequest, slotVars, rxVars
    <3> QED BY <1>3, <3>1, <3>2
  <2>3. ASSUME NEW u \in Tasks
        PROVE  /\ Carries(u)' <=> Carries(u)
               /\ Carries(u) => fut'[u].handle = fut[u].handle
               /\ Carries(u) => MyTag(u)' = MyTag(u)
               /\ pc'[u] \in {"created", "clear", "read", "free", "idle"} =>
                    /\ pc'[u] = pc[u] /\ fut'[u].mode = fut[u].mode
                    /\ fut'[u].pushed = fut[u].pushed /\ fut'[u].outcome = fut[u].outcome
                    /\ fut'[u].got = fut[u].got /\ MyTag(u)' = MyTag(u)
    <3>1. CASE TimerExpires(t)
      <4>1. fut' = [fut EXCEPT ![t] = [fut[t] EXCEPT !.expired = TRUE]] /\ pc' = pc
        BY <3>1 DEF TimerExpires
      <4>2. /\ fut'[u].req = fut[u].req /\ fut'[u].mode = fut[u].mode
            /\ fut'[u].pushed = fut[u].pushed /\ fut'[u].handle = fut[u].handle
            /\ fut'[u].outcome = fut[u].outcome /\ fut'[u].got = fut[u].got
        BY <2>1, <4>1 DEF FutData
      <4> QED BY <4>1, <4>2 DEF Carries, MyTag
    <3>2. CASE \E m \in Modes : StartRequest(t, m)
      <4>1. /\ pc[t] = "idle" /\ pc' = [pc EXCEPT ![t] = "alloc"]
            /\ \A v \in Tasks \ {t} : fut'[v] = fut[v]
        BY <2>1, <3>2 DEF StartRequest
      <4>2. CASE u = t
        BY <2>1, <4>1, <4>2 DEF Carries, InFlight
      <4>3. CASE u # t
        BY <2>1, <4>1, <4>3 DEF Carries, MyTag
      <4> QED BY <4>2, <4>3
    <3> QED BY <1>3, <3>1, <3>2
  <2>4. FrameInv'
    BY <2>2, <2>3 DEF OwnReplyInv, FrameInv, Sole
  <2>5. ReplyInv'
    BY <2>2, <2>3 DEF OwnReplyInv, ReplyInv, AnswerTo, RxBusy, Sole
  <2>6. ReadInv'
    BY <2>2, <2>3 DEF OwnReplyInv, ReadInv, IsReplyTo, Sole
  <2> QED BY <2>4, <2>5, <2>6 DEF OwnReplyInv
<1> QED BY <1>1, <1>2, <1>3, NextSteps

\* At the start there is no frame and no reply.
LEMMA ReplyInit == Init => OwnReplyInv
<1> SUFFICES ASSUME Init PROVE OwnReplyInv
  OBVIOUS
<1>1. \A t \in Tasks : pc[t] = "idle" /\ fut[t].outcome = "none" /\ ~Carries(t)
  BY DEF Init, Carries, InFlight
<1>2. rx_pc = "idle" /\ net = <<>>
  BY DEF Init
<1> QED BY <1>1, <1>2 DEF OwnReplyInv, FrameInv, ReplyInv, ReadInv, RxBusy

\* Replies that stay with their requests are read by who asked for them.
LEMMA RepliesOwn == CoopInv /\ OwnReplyInv => ReadsOwnReply
BY DEF OwnReplyInv, ReadInv, ReadsOwnReply, IsReplyTo, Sole

\* On one thread, a task reads the reply to its own request, whatever is late,
\* lost or sent again, however often slots and indices are used again and the
\* MainDevice is released, unless its PDU index was given to two live frames.
\* [PduRx::receive_frame, frame_index_by_first_pdu_index, ReceivedFrame]
THEOREM RepliesReachOwner ==
  Sched = "coop" => (Spec => []ReadsOwnReply)
<1> SUFFICES ASSUME Sched = "coop" PROVE Spec => []ReadsOwnReply
  OBVIOUS
<1>1. CoopInv /\ OwnReplyInv /\ [Next]_vars => OwnReplyInv'
  BY ReplyStep
<1> QED BY <1>1, ReplyInit, RepliesOwn, CoopInvariant, PTL DEF Spec

=============================================================================
