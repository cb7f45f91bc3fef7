--------------------------- MODULE PduLoopProofs ---------------------------
(***************************************************************************)
(* Machine-checked proofs about the PDU loop, for every number of slots    *)
(* and tasks, every schedule and every choice of faults.                   *)
(***************************************************************************)
EXTENDS PduLoop, TLAPS

\* What the assumptions on the constants give the other proofs.
LEMMA ConstFacts ==
  /\ N \in Nat /\ N > 0 /\ PduMod \in Nat /\ PduMod > 1
  /\ 0 \in Slots /\ 0 \in PduIdx /\ 0 \in 0..N
  /\ ZeroFrame \in Frame
  BY NAssumption, PduModAssumption, BoundsAssumption
  DEF Slots, PduIdx, ZeroFrame, Frame, Tags

\* The storage as PduStorage::new leaves it is well typed.
LEMMA TypeInit == Init => TypeOK
  <1> SUFFICES ASSUME Init PROVE TypeOK
    OBVIOUS
  <1> USE ConstFacts DEF Init
  <1>1. TaskType
    <2>1. fut \in [Tasks -> FutData]
      BY BoundsAssumption DEF FutData, Outcome
    <2> QED BY <2>1 DEF TaskType, TaskPc, FrameState
  <1>2. SlotType
    BY DEF SlotType, FrameState
  <1>3. CounterType /\ FlagType
    BY DEF CounterType, FlagType
  <1>4. net \in Seq(Frame)
    OBVIOUS
  <1>5. TxType /\ RxType /\ MdType
    BY BoundsAssumption DEF TxType, RxType, MdType
  <1> QED
    BY <1>1, <1>2, <1>3, <1>4, <1>5 DEF TypeOK

\* Fields of a task's private data, and what changing one of them gives.
LEMMA FutFacts ==
  ASSUME NEW f \in FutData
  PROVE  /\ f.req \in 0..MaxReqs /\ f.tries \in 0..(2 * N)
         /\ f.pushed \in 0..MaxPdus /\ f.handle \in PduIdx
         /\ f.retries \in 0..MaxRetries /\ f.got \in Frame
  BY DEF FutData

\* Setting one field of a task's private data keeps its type.
LEMMA FutUpdate ==
  ASSUME NEW f \in FutData
  PROVE  /\ \A x \in 0..MaxReqs : [f EXCEPT !.req = x] \in FutData
         /\ \A x \in {"first", "iter"} : [f EXCEPT !.mode = x] \in FutData
         /\ \A x \in 0..(2 * N) : [f EXCEPT !.tries = x] \in FutData
         /\ \A x \in 0..MaxPdus : [f EXCEPT !.pushed = x] \in FutData
         /\ \A x \in PduIdx : [f EXCEPT !.handle = x] \in FutData
         /\ \A x \in 0..MaxRetries : [f EXCEPT !.retries = x] \in FutData
         /\ \A x \in BOOLEAN : [f EXCEPT !.expired = x] \in FutData
         /\ \A x \in Outcome : [f EXCEPT !.outcome = x] \in FutData
         /\ \A x \in Frame : [f EXCEPT !.got = x] \in FutData
  <1>1. \A x \in 0..MaxReqs : [f EXCEPT !.req = x] \in FutData
    BY DEF FutData
  <1>2. \A x \in {"first", "iter"} : [f EXCEPT !.mode = x] \in FutData
    BY DEF FutData
  <1>3. \A x \in 0..(2 * N) : [f EXCEPT !.tries = x] \in FutData
    BY DEF FutData
  <1>4. \A x \in 0..MaxPdus : [f EXCEPT !.pushed = x] \in FutData
    BY DEF FutData
  <1>5. \A x \in PduIdx : [f EXCEPT !.handle = x] \in FutData
    BY DEF FutData
  <1>6. \A x \in 0..MaxRetries : [f EXCEPT !.retries = x] \in FutData
    BY DEF FutData
  <1>7. \A x \in BOOLEAN : [f EXCEPT !.expired = x] \in FutData
    BY DEF FutData
  <1>8. \A x \in Outcome : [f EXCEPT !.outcome = x] \in FutData
    BY DEF FutData
  <1>9. \A x \in Frame : [f EXCEPT !.got = x] \in FutData
    BY DEF FutData
  <1> QED
    BY <1>1, <1>2, <1>3, <1>4, <1>5, <1>6, <1>7, <1>8, <1>9

\* The end of a request keeps the types of the task's state.
LEMMA FinishType ==
  ASSUME TypeOK, NEW t \in Tasks, NEW f \in FutData, Finish(t, f)
  PROVE  /\ pc' \in [Tasks -> TaskPc]
         /\ woken' \in [Tasks -> BOOLEAN]
         /\ fut' \in [Tasks -> FutData]
  <1> DEFINE f1 == [f EXCEPT !.tries = 0]
             f2 == [f1 EXCEPT !.pushed = 0]
             f3 == [f2 EXCEPT !.handle = 0]
             f4 == [f3 EXCEPT !.retries = 0]
             f5 == [f4 EXCEPT !.expired = FALSE]
  <1>1. f5 \in FutData
    <2>0. /\ 0 \in 0..(2 * N) /\ 0 \in 0..MaxPdus /\ 0 \in PduIdx
          /\ 0 \in 0..MaxRetries
      BY ConstFacts, BoundsAssumption
    <2>1. f1 \in FutData BY <2>0, FutUpdate, Zenon
    <2> HIDE DEF f1
    <2>2. f2 \in FutData BY <2>0, <2>1, FutUpdate, Zenon
    <2> HIDE DEF f2
    <2>3. f3 \in FutData BY <2>0, <2>2, FutUpdate, Zenon
    <2> HIDE DEF f3
    <2>4. f4 \in FutData BY <2>0, <2>3, FutUpdate, Zenon
    <2> HIDE DEF f4
    <2>5. FALSE \in BOOLEAN OBVIOUS
    <2> QED BY <2>4, <2>5, FutUpdate, Zenon
  <1>2. fut' = [fut EXCEPT ![t] = f5]
    BY DEF Finish
  <1> HIDE DEF f5
  <1> QED
    BY <1>1, <1>2 DEF TypeOK, TaskType, Finish, TaskPc

\* Every access to the storage keeps the types.
LEMMA TypeStep == TypeOK /\ [Next]_vars => TypeOK'
  <1> SUFFICES ASSUME TypeOK, [Next]_vars PROVE TypeOK'
    OBVIOUS
  <1> USE ConstFacts, BoundsAssumption
      DEF TypeOK, SlotType, CounterType, FlagType, TaskType, TxType, RxType,
          MdType, slotVars, wakeVars, taskVars, txVars, rxVars, mdVars
  <1>1. ASSUME NEW t \in Tasks, NEW m \in Modes, StartRequest(t, m)
        PROVE  TypeOK'
    <2>1. m \in {"first", "iter"}
      BY OptionsAssumption
    <2> DEFINE f1 == [fut[t] EXCEPT !.req = fut[t].req + 1]
               f2 == [f1 EXCEPT !.mode = m]
               f3 == [f2 EXCEPT !.outcome = "none"]
               f4 == [f3 EXCEPT !.got = ZeroFrame]
    <2>2. fut' \in [Tasks -> FutData]
      <3>0. fut[t] \in FutData /\ fut[t].req < MaxReqs
        BY <1>1 DEF StartRequest
      <3>1. fut[t].req + 1 \in 0..MaxReqs
        BY <3>0, FutFacts
      <3>2. fut' = [fut EXCEPT ![t] = f4]
        BY <1>1 DEF StartRequest
      <3>3. f1 \in FutData BY <3>1, FutUpdate
      <3> HIDE DEF f1
      <3>4. f2 \in FutData BY <2>1, <3>3, FutUpdate
      <3> HIDE DEF f2
      <3>5. f3 \in FutData BY <3>4, FutUpdate DEF Outcome
      <3> HIDE DEF f3
      <3>6. f4 \in FutData BY <3>5, FutUpdate
      <3> HIDE DEF f4
      <3> QED BY <3>2, <3>6
    <2> QED BY <1>1, <2>2 DEF StartRequest, TaskPc
  <1>2. ASSUME NEW t \in Tasks, AllocNext(t) PROVE TypeOK'
    <2>1. fut' \in [Tasks -> FutData]
      <3>1. fut[t].tries + 1 \in 0..(2 * N)
        BY <1>2, FutFacts DEF AllocNext
      <3>2. [fut[t] EXCEPT !.tries = fut[t].tries + 1] \in FutData
        BY <3>1, FutUpdate
      <3> QED BY <1>2, <3>2 DEF AllocNext
    <2>2. (frame_idx + 1) % N \in Slots
      BY DEF Slots
    <2> QED BY <1>2, <2>1, <2>2 DEF AllocNext, TaskPc
  <1>3. ASSUME NEW t \in Tasks, AllocFail(t) PROVE TypeOK'
    <2>1. Result(t, "SwapState") \in FutData
      BY FutUpdate DEF Result, Outcome
    <2> QED BY <1>3, <2>1, FinishType DEF AllocFail
  <1>4. ASSUME NEW t \in Tasks, ClaimCreated(t) PROVE TypeOK'
    <2>1. CASE status[slot[t]] = "None"
      <3>1. SlotType'
        BY <1>4, <2>1 DEF ClaimCreated, FrameState
      <3>2. TaskType'
        BY <1>4, <2>1 DEF ClaimCreated, TaskPc
      <3> QED BY <1>4, <3>1, <3>2 DEF ClaimCreated
    <2>2. CASE status[slot[t]] # "None"
      BY <1>4, <2>2 DEF ClaimCreated, TaskPc
    <2> QED BY <2>1, <2>2
  <1>5. ASSUME NEW t \in Tasks, PushPdu(t) PROVE TypeOK'
    <2>1. (pdu_idx + 1) % PduMod \in PduIdx
      BY DEF PduIdx
    <2>2. MyTag(t) \in Tags
      BY FutFacts DEF MyTag, Tags
    <2>3. [kind |-> "req", idx |-> pdu_idx, tag |-> MyTag(t)] \in Frame
      BY <2>2 DEF Frame
    <2>4. fut' \in [Tasks -> FutData]
      <3>0. fut[t] \in FutData /\ fut[t].pushed < MaxPdus
        BY <1>5 DEF PushPdu
      <3>1. fut[t].pushed + 1 \in 0..MaxPdus
        BY <3>0, FutFacts
      <3> DEFINE f1 == [fut[t] EXCEPT !.pushed = fut[t].pushed + 1]
                 f2 == [f1 EXCEPT !.handle = pdu_idx]
      <3>2. fut' = [fut EXCEPT ![t] = f1] \/ fut' = [fut EXCEPT ![t] = f2]
        BY <1>5 DEF PushPdu
      <3>3. f1 \in FutData BY <3>1, FutUpdate
      <3> HIDE DEF f1
      <3>4. f2 \in FutData BY <3>3, FutUpdate
      <3> HIDE DEF f2
      <3> QED BY <3>2, <3>3, <3>4
    <2>5. SlotType'
      BY <1>5, <2>3 DEF PushPdu
    <2>6. TaskType'
      BY <1>5, <2>4 DEF PushPdu
    <2>7. clashed' \subseteq Tags
      <3>1. \A u \in Tasks : MyTag(u) \in Tags
        BY FutFacts DEF MyTag, Tags
      <3> QED BY <1>5, <3>1 DEF PushPdu, Carriers
    <2> QED BY <1>5, <2>1, <2>5, <2>6, <2>7 DEF PushPdu
  <1>6. ASSUME NEW t \in Tasks, PushTooLong(t) PROVE TypeOK'
    <2>1. (pdu_idx + 1) % PduMod \in PduIdx
      BY DEF PduIdx
    <2> QED BY <1>6, <2>1 DEF PushTooLong, TaskPc
  <1>7. ASSUME NEW t \in Tasks, MarkSendable(t) PROVE TypeOK'
    <2>1. fut' \in [Tasks -> FutData]
      <3> DEFINE f1 == [fut[t] EXCEPT !.retries = MaxRetries]
                 f2 == [f1 EXCEPT !.expired = FALSE]
      <3>1. fut' = [fut EXCEPT ![t] = f2]
        BY <1>7 DEF MarkSendable
      <3>r. MaxRetries \in 0..MaxRetries
        OBVIOUS
      <3>2. f1 \in FutData BY <3>r, FutUpdate
      <3> HIDE DEF f1
      <3>3. f2 \in FutData BY <3>2, FutUpdate
      <3> HIDE DEF f2
      <3> QED BY <3>1, <3>3
    <2> QED BY <1>7, <2>1 DEF MarkSendable, TaskPc, FrameState
  <1>8. ASSUME NEW t \in Tasks, DropCreated(t) PROVE TypeOK'
    <2>1. Result(t, "TooLong") \in FutData
      BY FutUpdate DEF Result, Outcome
    <2>2. /\ pc' \in [Tasks -> TaskPc] /\ woken' \in [Tasks -> BOOLEAN]
          /\ fut' \in [Tasks -> FutData]
      BY <1>8, <2>1, FinishType DEF DropCreated, TaskPc
    <2> QED BY <1>8, <2>2 DEF DropCreated, FrameState
  <1>9. ASSUME NEW t \in Tasks, TaskWakeSender(t) PROVE TypeOK'
    <2>1. FlagType'
      BY <1>9 DEF TaskWakeSender, WakeSender
    <2>2. TaskType'
      BY <1>9 DEF TaskWakeSender, TaskPc
    <2> QED BY <1>9, <2>1, <2>2 DEF TaskWakeSender
  <1>10. ASSUME NEW t \in Tasks, Resume(t) PROVE TypeOK'
    BY <1>10 DEF Resume, TaskPc
  <1>11. ASSUME NEW t \in Tasks, PollRegister(t) PROVE TypeOK'
    BY <1>11 DEF PollRegister, TaskPc
  <1>12. ASSUME NEW t \in Tasks, PollSwap(t) PROVE TypeOK'
    <2>1. SlotType'
      BY <1>12 DEF PollSwap, FrameState
    <2>2. TaskType'
      BY <1>12 DEF PollSwap, TaskPc
    <2> QED BY <1>12, <2>1, <2>2 DEF PollSwap
  <1>13. ASSUME NEW t \in Tasks, NEW f \in FutData, MatchWas(t, f)
         PROVE  TaskType' \/ slot' # slot
    <2>1. [f EXCEPT !.outcome = "InvalidFrameState"] \in FutData
      BY FutUpdate DEF Outcome
    <2> QED BY <1>13, <2>1, FinishType DEF MatchWas, TaskPc, FrameState
  <1>14. ASSUME NEW t \in Tasks, PollPending(t) PROVE TypeOK'
    <2>1. TaskType'
      BY <1>13, <1>14 DEF PollPending
    <2> QED BY <1>14, <2>1 DEF PollPending
  <1>15. ASSUME NEW t \in Tasks, PollTimeout(t) PROVE TypeOK'
    <2>1. Result(t, "Timeout") \in FutData
      BY FutUpdate DEF Result, Outcome
    <2> QED BY <1>15, <2>1, FinishType DEF PollTimeout, FrameState
  <1>16. ASSUME NEW t \in Tasks, PollRetry(t) PROVE TypeOK'
    <2>1. fut' \in [Tasks -> FutData]
      <3> DEFINE f1 == [fut[t] EXCEPT !.expired = FALSE]
                 f2 == [f1 EXCEPT !.retries = fut[t].retries - 1]
      <3>1. fut' = [fut EXCEPT ![t] = f2]
        BY <1>16 DEF PollRetry
      <3>0. fut[t] \in FutData /\ fut[t].retries > 0
        BY <1>16 DEF PollRetry
      <3>2. fut[t].retries - 1 \in 0..MaxRetries
        BY <3>0, FutFacts
      <3>3. f1 \in FutData BY FutUpdate
      <3> HIDE DEF f1
      <3>4. f2 \in FutData BY <3>2, <3>3, FutUpdate
      <3> HIDE DEF f2
      <3> QED BY <3>1, <3>4
    <2> QED BY <1>16, <2>1 DEF PollRetry, TaskPc, FrameState
  <1>17. ASSUME NEW t \in Tasks, PollRewake(t) PROVE TypeOK'
    <2>1. TaskType'
      BY <1>13, <1>17 DEF PollRewake
    <2>2. FlagType'
      BY <1>17 DEF PollRewake, WakeSender
    <2> QED BY <1>17, <2>1, <2>2 DEF PollRewake
  <1>18. ASSUME NEW t \in Tasks, TimerExpires(t) PROVE TypeOK'
    <2>1. fut' \in [Tasks -> FutData]
      <3>1. [fut[t] EXCEPT !.expired = TRUE] \in FutData
        BY FutUpdate
      <3> QED BY <1>18, <3>1 DEF TimerExpires
    <2> QED BY <1>18, <2>1 DEF TimerExpires
  <1>19. ASSUME NEW t \in Tasks, DropFuture(t) PROVE TypeOK'
    <2>1. Result(t, "dropped") \in FutData
      BY FutUpdate DEF Result, Outcome
    <2> QED BY <1>19, <2>1, FinishType DEF DropFuture, FrameState
  <1>20. ASSUME NEW t \in Tasks, IterRead(t) PROVE TypeOK'
    <2>1. fut' \in [Tasks -> FutData]
      <3> DEFINE f1 == [fut[t] EXCEPT !.outcome = "ok"]
                 f2 == [f1 EXCEPT !.got = buf[slot[t]]]
      <3>1. fut' = [fut EXCEPT ![t] = f2]
        BY <1>20 DEF IterRead
      <3>2. f1 \in FutData BY FutUpdate DEF Outcome
      <3> HIDE DEF f1
      <3>3. f2 \in FutData BY <3>2, FutUpdate
      <3> HIDE DEF f2
      <3> QED BY <3>1, <3>3
    <2> QED BY <1>20, <2>1 DEF IterRead, TaskPc
  <1>21. ASSUME NEW t \in Tasks, FirstPduCheck(t) PROVE TypeOK'
    <2>1. fut' \in [Tasks -> FutData]
      <3>1. /\ Result(t, "ok") \in FutData
            /\ Result(t, "InvalidIndex") \in FutData
        BY FutUpdate DEF Result, Outcome
      <3> QED BY <1>21, <3>1 DEF FirstPduCheck
    <2> QED BY <1>21, <2>1 DEF FirstPduCheck, TaskPc
  <1>22. ASSUME NEW t \in Tasks, DropReceived(t) PROVE TypeOK'
    BY <1>22 DEF DropReceived, TaskPc, FrameState
  <1>23. ASSUME NEW t \in Tasks, ClearFirstPdu(t) PROVE TypeOK'
    <2>1. /\ pc' \in [Tasks -> TaskPc] /\ woken' \in [Tasks -> BOOLEAN]
          /\ fut' \in [Tasks -> FutData]
      BY <1>23, FinishType DEF ClearFirstPdu, TaskPc
    <2> QED BY <1>23, <2>1 DEF ClearFirstPdu
  <1>24. ASSUME NEW t \in Tasks, ReadPdu(t) PROVE TypeOK'
    <2>1. [fut[t] EXCEPT !.got = buf[slot[t]]] \in FutData
      BY FutUpdate
    <2> QED BY <1>24, <2>1, FinishType DEF ReadPdu
  <1>25. CASE TxStep
    <2>1. CASE TxPoll       BY <2>1 DEF TxPoll
    <2>2. CASE DriverExit
      <3>1. net' \in Seq(Frame)
        BY <2>2 DEF DriverExit
      <3>2. FlagType' /\ TxType' /\ RxType'
        BY <2>2 DEF DriverExit
      <3> QED BY <2>2, <3>1, <3>2 DEF DriverExit
    <2>3. CASE TxScanEnd    BY <2>3 DEF TxScanEnd
    <2>4. CASE ClaimSending BY <2>4 DEF ClaimSending, FrameState, Slots
    <2>5. CASE SendFrame
      <3>1. [buf[tx_i] EXCEPT !.kind = "resp"] \in Frame
        BY <2>5 DEF SendFrame, Frame
      <3>2. net' \in Seq(Frame)
        BY <2>5, <3>1 DEF SendFrame
      <3> QED BY <2>5, <3>2 DEF SendFrame
    <2>6. CASE MarkSent     BY <2>6 DEF MarkSent, FrameState
    <2>7. CASE SendFails
      <3>1. SlotType'
        BY <2>7 DEF SendFails, FrameState
      <3>2. FlagType'
        BY <2>7 DEF SendFails
      <3>3. TxType' /\ RxType'
        BY <2>7 DEF SendFails
      <3> QED BY <2>7, <3>1, <3>2, <3>3 DEF SendFails
    <2> QED BY <1>25, <2>1, <2>2, <2>3, <2>4, <2>5, <2>6, <2>7 DEF TxStep
  <1>26. CASE DriverRestart
    BY <1>26 DEF DriverRestart
  <1>27. CASE RxStep
    <2>1. CASE RxTake
      <3>1. Head(net) \in Frame /\ Tail(net) \in Seq(Frame)
        BY <2>1 DEF RxTake
      <3> QED BY <2>1, <3>1 DEF RxTake
    <2>2. CASE RxSearch       BY <2>2 DEF RxSearch, Slots
    <2>3. CASE RxError        BY <2>3 DEF RxError, DriverError
    <2>4. CASE ClaimReceiving BY <2>4 DEF ClaimReceiving, FrameState
    <2>5. CASE RxCopy         BY <2>5 DEF RxCopy
    <2>6. CASE MarkReceived   BY <2>6 DEF MarkReceived, FrameState
    <2>7. CASE RxWake         BY <2>7 DEF RxWake
    <2> QED BY <1>27, <2>1, <2>2, <2>3, <2>4, <2>5, <2>6, <2>7
            DEF RxStep, RxUnknown, ClaimReceivingFails, RxOversize,
                MarkReceivedFails
  <1>28. CASE Lose
    <2>1. Tail(net) \in Seq(Frame)
      BY <1>28 DEF Lose
    <2> QED BY <1>28, <2>1 DEF Lose
  <1>29. CASE Release
    <2>1. MdType'
      BY <1>29 DEF Release
    <2>2. FlagType'
      <3>1. exit_flag' \in BOOLEAN /\ md_all' \in BOOLEAN
        BY <1>29, Zenon DEF Release
      <3> QED BY <1>29, <3>1 DEF Release
    <2> QED BY <1>29, <2>1, <2>2 DEF Release
  <1>30. CASE MdStep
    <2>1. CASE ReleaseWake
      <3>1. FlagType'
        BY <2>1 DEF ReleaseWake, WakeSender
      <3>2. MdType'
        BY <2>1 DEF ReleaseWake
      <3> QED BY <2>1, <3>1, <3>2 DEF ReleaseWake
    <2>2. CASE ResetCounters BY <2>2 DEF ResetCounters
    <2>3. CASE ResetSlot     BY <2>3 DEF ResetSlot, FrameState, Slots
    <2> QED BY <1>30, <2>1, <2>2, <2>3 DEF MdStep
  <1>31. CASE UNCHANGED vars
    BY <1>31 DEF vars
  <1> HIDE DEF TypeOK
  <1> QED
    BY <1>1, <1>2, <1>3, <1>4, <1>5, <1>6, <1>7, <1>8, <1>9, <1>10, <1>11,
       <1>12, <1>14, <1>15, <1>16, <1>17, <1>18, <1>19, <1>20, <1>21, <1>22,
       <1>23, <1>24, <1>25, <1>26, <1>27, <1>28, <1>29, <1>30, <1>31
    DEF Next, TaskStep, Terminated

\* The storage, futures, driver and release keep their types.
THEOREM TypeCorrect == Spec => []TypeOK
  BY TypeInit, TypeStep, PTL DEF Spec

(***************************************************************************)
(* Ownership of the slots.                                                 *)
(***************************************************************************)

\* What the end of a request and a push do to the results of the requests.
LEMMA FinishOutcome ==
  ASSUME fut \in [Tasks -> FutData], NEW t \in Tasks, NEW f \in FutData,
         Finish(t, f)
  PROVE  /\ fut'[t].outcome = f.outcome
         /\ \A u \in Tasks \ {t} : fut'[u].outcome = fut[u].outcome
  BY DEF Finish, FutData

\* A push changes the result of no request.
LEMMA PushOutcome ==
  ASSUME fut \in [Tasks -> FutData], NEW t \in Tasks, PushPdu(t)
  PROVE  \A u \in Tasks : fut'[u].outcome = fut[u].outcome
  <1>1. CASE fut[t].pushed = 0
    <2>1. fut' = [fut EXCEPT ![t] = [fut[t] EXCEPT
                    !.pushed = fut[t].pushed + 1, !.handle = pdu_idx]]
      BY <1>1 DEF PushPdu
    <2> QED BY <2>1 DEF FutData
  <1>2. CASE fut[t].pushed # 0
    BY <1>2 DEF PushPdu, FutData
  <1> QED BY <1>1, <1>2

\* At the start nobody holds a slot.
LEMMA OwnInit == Init => OwnInv
  BY ConstFacts
  DEF Init, OwnInv, SlotOwnerUnique, ReceivedFrameIntact, HeldStatus, TxClaim,
      NoInvalidFrameState, ReleaseAlone, Holding, InFlight

\* Every access of every actor preserves the ownership of the slots: one
\* step per action, with the actions that store blindly (MarkSent, MarkSendable,
\* PollTimeout, PollRetry, DropFuture, SendFails) resting on TxClaim and on
\* HeldStatus.
LEMMA OwnStep == PduInv /\ TypeOK' /\ [Next]_vars => OwnInv'
  <1> SUFFICES ASSUME PduInv, TypeOK', [Next]_vars PROVE OwnInv'
    OBVIOUS
  <1> USE DEF PduInv, OwnInv, TypeOK, SlotType, TaskType,
      SlotOwnerUnique, ReceivedFrameIntact, HeldStatus, TxClaim, ReleaseAlone,
      NoInvalidFrameState,
      slotVars, wakeVars, taskVars, txVars, rxVars, mdVars, Holding, InFlight
  <1>1. ASSUME NEW t \in Tasks, NEW m \in Modes, StartRequest(t, m)
        PROVE  OwnInv'
    BY <1>1 DEF StartRequest
  <1>2. ASSUME NEW t \in Tasks, AllocNext(t) PROVE OwnInv'
    BY <1>2 DEF AllocNext
  <1>3. ASSUME NEW t \in Tasks, AllocFail(t) PROVE OwnInv'
    BY <1>3 DEF AllocFail, Finish, Result
  <1>4. ASSUME NEW t \in Tasks, ClaimCreated(t) PROVE OwnInv'
    <2>1. CASE status[slot[t]] = "None"
      <3>1. /\ status' = [status EXCEPT ![slot[t]] = "Created"]
            /\ pc' = [pc EXCEPT ![t] = "created"]
            /\ UNCHANGED <<slot, was, fut, tx_pc, tx_i, md_pc>>
            /\ pc[t] = "claim"
        BY <1>4, <2>1 DEF ClaimCreated
      <3> QED BY <2>1, <3>1
    <2>2. CASE status[slot[t]] # "None"
      BY <1>4, <2>2 DEF ClaimCreated
    <2> QED BY <2>1, <2>2
  <1>5. ASSUME NEW t \in Tasks, PushPdu(t) PROVE OwnInv'
    <2>1. \A u \in Tasks : fut'[u].outcome = fut[u].outcome
      BY <1>5, PushOutcome
    <2> QED BY <1>5, <2>1 DEF PushPdu
  <1>6. ASSUME NEW t \in Tasks, PushTooLong(t) PROVE OwnInv'
    BY <1>6 DEF PushTooLong
  <1>7. ASSUME NEW t \in Tasks, MarkSendable(t) PROVE OwnInv'
    BY <1>7 DEF MarkSendable
  <1>8. ASSUME NEW t \in Tasks, DropCreated(t) PROVE OwnInv'
    <2>1. CASE pc[t] = "marked"
      BY <1>8, <2>1 DEF DropCreated
    <2>2. CASE pc[t] = "abort"
      <3>1. /\ pc' = [pc EXCEPT ![t] = "idle"]
            /\ status' = [status EXCEPT ![slot[t]] = "None"]
               \/ UNCHANGED status
            /\ UNCHANGED <<slot, was, tx_pc, tx_i, md_pc>>
        BY <1>8, <2>2 DEF DropCreated, Finish
      <3>2. Result(t, "TooLong") \in FutData
        BY FutUpdate DEF Result, Outcome
      <3>3. Result(t, "TooLong").outcome = "TooLong"
        BY DEF Result, FutData
      <3>4. NoInvalidFrameState'
        BY <1>8, <2>2, <3>2, <3>3, FinishOutcome DEF DropCreated
      <3>5. CASE UNCHANGED status
        BY <2>2, <3>1, <3>4, <3>5
      <3>6. CASE status' = [status EXCEPT ![slot[t]] = "None"]
        BY <2>2, <3>1, <3>4, <3>6
      <3> QED BY <3>1, <3>5, <3>6
    <2> QED BY <1>8, <2>1, <2>2 DEF DropCreated
  <1>9. ASSUME NEW t \in Tasks, TaskWakeSender(t) PROVE OwnInv'
    BY <1>9 DEF TaskWakeSender
  <1>10. ASSUME NEW t \in Tasks, Resume(t) PROVE OwnInv'
    BY <1>10 DEF Resume
  <1>11. ASSUME NEW t \in Tasks, PollRegister(t) PROVE OwnInv'
    BY <1>11 DEF PollRegister
  <1>12. ASSUME NEW t \in Tasks, PollSwap(t) PROVE OwnInv'
    <2>1. CASE status[slot[t]] = "RxDone"
      <3>1. /\ pc' = [pc EXCEPT ![t] = "received"] /\ pc[t] = "swap"
            /\ status' = [status EXCEPT ![slot[t]] = "RxProcessing"]
            /\ UNCHANGED <<slot, was, fut, tx_pc, tx_i, md_pc>>
        BY <1>12, <2>1 DEF PollSwap
      <3> QED BY <2>1, <3>1
    <2>2. CASE status[slot[t]] # "RxDone"
      <3>1. /\ pc' = [pc EXCEPT ![t] = "timer"] /\ pc[t] = "swap"
            /\ was' = [was EXCEPT ![t] = status[slot[t]]]
            /\ UNCHANGED <<status, slot, fut, tx_pc, tx_i, md_pc>>
        BY <1>12, <2>2 DEF PollSwap
      <3>2. HeldStatus'
        BY <2>2, <3>1
      <3> QED BY <3>1, <3>2
    <2> QED BY <2>1, <2>2
  <1>14. ASSUME NEW t \in Tasks, PollPending(t) PROVE OwnInv'
    <2>1. was[t] \in {"Sendable", "Sending", "Sent", "RxBusy"}
      BY <1>14 DEF PollPending
    <2>2. /\ pc' = [pc EXCEPT ![t] = "pending"] /\ pc[t] = "timer"
          /\ \A u \in Tasks : fut'[u].outcome = fut[u].outcome
          /\ was' = [was EXCEPT ![t] = "None"]
          /\ UNCHANGED <<status, slot, tx_pc, tx_i, md_pc>>
      BY <1>14, <2>1 DEF PollPending, MatchWas
    <2> QED BY <2>2
  <1>15. ASSUME NEW t \in Tasks, PollTimeout(t) PROVE OwnInv'
    BY <1>15 DEF PollTimeout, Finish, Result
  <1>16. ASSUME NEW t \in Tasks, PollRetry(t) PROVE OwnInv'
    BY <1>16 DEF PollRetry
  <1>17. ASSUME NEW t \in Tasks, PollRewake(t) PROVE OwnInv'
    <2>1. was[t] \in {"Sendable", "Sending", "Sent", "RxBusy"}
      BY <1>17 DEF PollRewake
    <2>2. /\ pc' = [pc EXCEPT ![t] = "pending"] /\ pc[t] = "rewake"
          /\ \A u \in Tasks : fut'[u].outcome = fut[u].outcome
          /\ was' = [was EXCEPT ![t] = "None"]
          /\ UNCHANGED <<status, slot, tx_pc, tx_i, md_pc>>
      BY <1>17, <2>1 DEF PollRewake, MatchWas
    <2> QED BY <2>2
  <1>18. ASSUME NEW t \in Tasks, TimerExpires(t) PROVE OwnInv'
    BY <1>18 DEF TimerExpires
  <1>19. ASSUME NEW t \in Tasks, DropFuture(t) PROVE OwnInv'
    BY <1>19 DEF DropFuture, Finish, Result
  <1>20. ASSUME NEW t \in Tasks, IterRead(t) PROVE OwnInv'
    BY <1>20 DEF IterRead
  <1>21. ASSUME NEW t \in Tasks, FirstPduCheck(t) PROVE OwnInv'
    BY <1>21 DEF FirstPduCheck, Result
  <1>22. ASSUME NEW t \in Tasks, DropReceived(t) PROVE OwnInv'
    <2>1. status[slot[t]] = "RxProcessing"
      BY <1>22 DEF DropReceived
    <2>2. /\ pc' = [pc EXCEPT ![t] = "clear"] /\ pc[t] = "free"
          /\ status' = [status EXCEPT ![slot[t]] = "None"]
          /\ UNCHANGED <<slot, was, fut, tx_pc, tx_i, md_pc>>
      BY <1>22, <2>1 DEF DropReceived
    <2> QED BY <2>1, <2>2
  <1>23. ASSUME NEW t \in Tasks, ClearFirstPdu(t) PROVE OwnInv'
    <2>1. /\ \/ pc' = [pc EXCEPT ![t] = "read"]
             \/ pc' = [pc EXCEPT ![t] = "idle"]
          /\ pc[t] = "clear"
          /\ UNCHANGED <<status, slot, was, tx_pc, tx_i, md_pc>>
      BY <1>23 DEF ClearFirstPdu, Finish
    <2>2. NoInvalidFrameState'
      BY <1>23, FinishOutcome DEF ClearFirstPdu
    <2>3. CASE pc' = [pc EXCEPT ![t] = "read"]
      BY <2>1, <2>2, <2>3
    <2>4. CASE pc' = [pc EXCEPT ![t] = "idle"]
      BY <2>1, <2>2, <2>4
    <2> QED BY <2>1, <2>3, <2>4
  <1>24. ASSUME NEW t \in Tasks, ReadPdu(t) PROVE OwnInv'
    BY <1>24 DEF ReadPdu, Finish
  <1>25. CASE TxStep
    <2>1. CASE TxPoll       BY <2>1 DEF TxPoll
    <2>2. CASE DriverExit   BY <2>2 DEF DriverExit
    <2>3. CASE TxScanEnd    BY <2>3 DEF TxScanEnd
    <2>4. CASE ClaimSending BY <2>4 DEF ClaimSending, TxType
    <2>5. CASE SendFrame    BY <2>5 DEF SendFrame
    <2>6. CASE MarkSent     BY <2>6 DEF MarkSent, TxType
    <2>7. CASE SendFails    BY <2>7 DEF SendFails, TxType
    <2> QED BY <1>25, <2>1, <2>2, <2>3, <2>4, <2>5, <2>6, <2>7 DEF TxStep
  <1>26. CASE DriverRestart
    BY <1>26 DEF DriverRestart
  <1>27. CASE RxStep
    <2>1. CASE RxTake         BY <2>1 DEF RxTake
    <2>2. CASE RxSearch       BY <2>2 DEF RxSearch
    <2>3. CASE RxError        BY <2>3 DEF RxError, DriverError
    <2>4. CASE ClaimReceiving BY <2>4 DEF ClaimReceiving, RxType
    <2>5. CASE RxCopy         BY <2>5 DEF RxCopy
    <2>6. CASE MarkReceived   BY <2>6 DEF MarkReceived, RxType
    <2>7. CASE RxWake         BY <2>7 DEF RxWake
    <2> QED BY <1>27, <2>1, <2>2, <2>3, <2>4, <2>5, <2>6, <2>7
            DEF RxStep, RxUnknown, ClaimReceivingFails, RxOversize,
                MarkReceivedFails
  <1>28. CASE Lose
    BY <1>28 DEF Lose
  <1>29. CASE Release
    BY <1>29 DEF Release
  <1>30. CASE MdStep
    <2>1. CASE ReleaseWake   BY <2>1 DEF ReleaseWake
    <2>2. CASE ResetCounters BY <2>2 DEF ResetCounters
    <2>3. CASE ResetSlot     BY <2>3 DEF ResetSlot, MdType
    <2> QED BY <1>30, <2>1, <2>2, <2>3 DEF MdStep
  <1>31. CASE UNCHANGED vars
    <2>1. UNCHANGED <<status, pc, slot, was, fut, tx_pc, tx_i, md_pc>>
      BY <1>31 DEF vars
    <2> QED BY <2>1
  <1> HIDE DEF OwnInv, PduInv, TypeOK
  <1> QED
    BY <1>1, <1>2, <1>3, <1>4, <1>5, <1>6, <1>7, <1>8, <1>9, <1>10, <1>11,
       <1>12, <1>14, <1>15, <1>16, <1>17, <1>18, <1>19, <1>20, <1>21, <1>22,
       <1>23, <1>24, <1>25, <1>26, <1>27, <1>28, <1>29, <1>30, <1>31
    DEF Next, TaskStep, Terminated

(***************************************************************************)
(* Wake-ups of waiting tasks.                                              *)
(***************************************************************************)

\* Every access preserves the wake-ups of waiting futures: the waker is
\* registered before the swap, and RxDone is stored before the wake.
LEMMA WakeStep == PduInv /\ TypeOK' /\ [Next]_vars => WakeInv'
  <1> SUFFICES ASSUME PduInv, TypeOK', [Next]_vars PROVE WakeInv'
    OBVIOUS
  <1> USE DEF PduInv, OwnInv, WakeInv, SendInv, TypeOK, SlotType, TaskType,
      FlagType, TxType, RxType,
      SlotOwnerUnique, HeldStatus, ReleaseAlone, DriverHalves, WakerRegistered,
      slotVars, wakeVars, taskVars, txVars, rxVars, mdVars, Holding, InFlight
  <1>1. ASSUME NEW t \in Tasks, NEW m \in Modes, StartRequest(t, m)
        PROVE  WakeInv'
    BY <1>1 DEF StartRequest
  <1>2. ASSUME NEW t \in Tasks, AllocNext(t) PROVE WakeInv'
    BY <1>2 DEF AllocNext
  <1>3. ASSUME NEW t \in Tasks, AllocFail(t) PROVE WakeInv'
    BY <1>3 DEF AllocFail, Finish
  <1>4. ASSUME NEW t \in Tasks, ClaimCreated(t) PROVE WakeInv'
    BY <1>4 DEF ClaimCreated
  <1>5. ASSUME NEW t \in Tasks, PushPdu(t) PROVE WakeInv'
    BY <1>5 DEF PushPdu
  <1>6. ASSUME NEW t \in Tasks, PushTooLong(t) PROVE WakeInv'
    BY <1>6 DEF PushTooLong
  <1>7. ASSUME NEW t \in Tasks, MarkSendable(t) PROVE WakeInv'
    BY <1>7 DEF MarkSendable
  <1>8. ASSUME NEW t \in Tasks, DropCreated(t) PROVE WakeInv'
    BY <1>8 DEF DropCreated, Finish
  <1>9. ASSUME NEW t \in Tasks, TaskWakeSender(t) PROVE WakeInv'
    BY <1>9 DEF TaskWakeSender, WakeSender
  <1>10. ASSUME NEW t \in Tasks, Resume(t) PROVE WakeInv'
    BY <1>10 DEF Resume
  <1>11. ASSUME NEW t \in Tasks, PollRegister(t) PROVE WakeInv'
    BY <1>11 DEF PollRegister
  <1>12. ASSUME NEW t \in Tasks, PollSwap(t) PROVE WakeInv'
    BY <1>12 DEF PollSwap
  <1>14. ASSUME NEW t \in Tasks, PollPending(t) PROVE WakeInv'
    BY <1>14 DEF PollPending, MatchWas, Finish
  <1>15. ASSUME NEW t \in Tasks, PollTimeout(t) PROVE WakeInv'
    BY <1>15 DEF PollTimeout, Finish
  <1>16. ASSUME NEW t \in Tasks, PollRetry(t) PROVE WakeInv'
    BY <1>16 DEF PollRetry
  <1>17. ASSUME NEW t \in Tasks, PollRewake(t) PROVE WakeInv'
    BY <1>17 DEF PollRewake, MatchWas, Finish, WakeSender
  <1>18. ASSUME NEW t \in Tasks, TimerExpires(t) PROVE WakeInv'
    BY <1>18 DEF TimerExpires
  <1>19. ASSUME NEW t \in Tasks, DropFuture(t) PROVE WakeInv'
    BY <1>19 DEF DropFuture, Finish
  <1>20. ASSUME NEW t \in Tasks, IterRead(t) PROVE WakeInv'
    BY <1>20 DEF IterRead
  <1>21. ASSUME NEW t \in Tasks, FirstPduCheck(t) PROVE WakeInv'
    BY <1>21 DEF FirstPduCheck
  <1>22. ASSUME NEW t \in Tasks, DropReceived(t) PROVE WakeInv'
    BY <1>22 DEF DropReceived
  <1>23. ASSUME NEW t \in Tasks, ClearFirstPdu(t) PROVE WakeInv'
    BY <1>23 DEF ClearFirstPdu, Finish
  <1>24. ASSUME NEW t \in Tasks, ReadPdu(t) PROVE WakeInv'
    BY <1>24 DEF ReadPdu, Finish
  <1>25. CASE TxStep
    <2>1. CASE TxPoll
      BY <2>1 DEF TxPoll
    <2>2. CASE DriverExit
      BY <2>2 DEF DriverExit
    <2>3. CASE TxScanEnd
      BY <2>3 DEF TxScanEnd
    <2>4. CASE ClaimSending
      BY <2>4 DEF ClaimSending, Slots
    <2>5. CASE SendFrame
      BY <2>5 DEF SendFrame
    <2>6. CASE MarkSent
      BY <2>6 DEF MarkSent
    <2>7. CASE SendFails
      <3>1. StopOnError => rx_pc \in {"idle", "stopped", "failed"}
        BY <2>7, OptionsAssumption DEF SendFails, TxMayRun, RxBusy
      <3> QED BY <2>7, <3>1 DEF SendFails
    <2> QED BY <1>25, <2>1, <2>2, <2>3, <2>4, <2>5, <2>6, <2>7 DEF TxStep
  <1>26. CASE DriverRestart
    BY <1>26 DEF DriverRestart
  <1>27. CASE RxStep
    <2>1. CASE RxTake
      BY <2>1 DEF RxTake
    <2>2. CASE RxSearch
      BY <2>2 DEF RxSearch
    <2>3. CASE RxUnknown \/ ClaimReceivingFails \/ RxOversize
               \/ MarkReceivedFails
      BY <2>3 DEF RxUnknown, ClaimReceivingFails, RxOversize,
                  MarkReceivedFails, RxError, DriverError
    <2>4. CASE ClaimReceiving
      BY <2>4 DEF ClaimReceiving
    <2>5. CASE RxCopy
      BY <2>5 DEF RxCopy
    <2>6. CASE MarkReceived
      BY <2>6 DEF MarkReceived
    <2>7. CASE RxWake
      <3>1. /\ \A t \in Tasks : woken'[t] =
                  (woken[t] \/ (waker[rx_i] = t /\ pc[t] # "idle"))
            /\ waker' = [waker EXCEPT ![rx_i] = NoTask]
            /\ rx_i \in Slots
            /\ UNCHANGED <<status, pc, slot, tx_pc>>
        BY <2>7 DEF RxWake
      <3>2. ASSUME NEW t \in Tasks, ~woken'[t],
                   pc[t] \in {"swap", "timer", "rewake", "pending"}
            PROVE  ~woken[t] /\ slot[t] # rx_i
        BY <3>1, <3>2
      <3>3. WakerRegistered'
        BY <3>1, <3>2
      <3>4. tx_pc \notin {"stopped", "failed"}
        BY <2>7 DEF RxWake
      <3> QED BY <3>1, <3>3, <3>4
    <2> QED
      BY <1>27, <2>1, <2>2, <2>3, <2>4, <2>5, <2>6, <2>7 DEF RxStep
  <1>28. CASE Lose
    BY <1>28 DEF Lose
  <1>29. CASE Release
    BY <1>29 DEF Release
  <1>30. CASE MdStep
    <2>1. CASE ReleaseWake
      BY <2>1 DEF ReleaseWake, WakeSender
    <2>2. CASE ResetCounters
      BY <2>2 DEF ResetCounters
    <2>3. CASE ResetSlot
      BY <2>3 DEF ResetSlot, MdType
    <2> QED BY <1>30, <2>1, <2>2, <2>3 DEF MdStep
  <1>31. CASE UNCHANGED vars
    BY <1>31 DEF vars
  <1> HIDE DEF WakeInv, PduInv, TypeOK
  <1> QED
    BY <1>1, <1>2, <1>3, <1>4, <1>5, <1>6, <1>7, <1>8, <1>9, <1>10, <1>11,
       <1>12, <1>14, <1>15, <1>16, <1>17, <1>18, <1>19, <1>20, <1>21, <1>22,
       <1>23, <1>24, <1>25, <1>26, <1>27, <1>28, <1>29, <1>30, <1>31
    DEF Next, TaskStep, Terminated

(***************************************************************************)
(* Wake-ups of the transmitter.                                            *)
(***************************************************************************)

\* Every access preserves the wake-ups of the transmitter: its waker is
\* registered before the scan, and a frame is Sendable before wake_sender.
LEMMA SendStep == PduInv /\ TypeOK' /\ [Next]_vars => SendInv'
  <1> SUFFICES ASSUME PduInv, TypeOK', [Next]_vars PROVE SendInv'
    OBVIOUS
  <1> USE DEF PduInv, OwnInv, WakeInv, SendInv, TypeOK, SlotType, TaskType,
      FlagType, TxType, RxType,
      HeldStatus, ReleaseAlone, SenderRegistered, NoLostSend, AboutToWake,
      slotVars, wakeVars, taskVars, txVars, rxVars, mdVars, Holding, InFlight
  <1>1. ASSUME NEW t \in Tasks, NEW m \in Modes, StartRequest(t, m)
        PROVE  SendInv'
    BY <1>1 DEF StartRequest
  <1>2. ASSUME NEW t \in Tasks, AllocNext(t) PROVE SendInv'
    BY <1>2 DEF AllocNext
  <1>3. ASSUME NEW t \in Tasks, AllocFail(t) PROVE SendInv'
    BY <1>3 DEF AllocFail, Finish
  <1>4. ASSUME NEW t \in Tasks, ClaimCreated(t) PROVE SendInv'
    <2>1. /\ \A s \in Slots : status'[s] = "Sendable" => status[s] = "Sendable"
          /\ \A u \in Tasks : u # t => pc'[u] = pc[u]
          /\ pc[t] = "claim"
          /\ UNCHANGED <<slot, tx_pc, tx_i, tx_waker, tx_woken, exit_flag>>
      BY <1>4 DEF ClaimCreated
    <2>2. \A s \in Slots : AboutToWake(s) => AboutToWake(s)'
      BY <2>1
    <2> HIDE DEF AboutToWake
    <2> QED BY <2>1, <2>2
  <1>5. ASSUME NEW t \in Tasks, PushPdu(t) PROVE SendInv'
    BY <1>5 DEF PushPdu
  <1>6. ASSUME NEW t \in Tasks, PushTooLong(t) PROVE SendInv'
    BY <1>6 DEF PushTooLong
  <1>7. ASSUME NEW t \in Tasks, MarkSendable(t) PROVE SendInv'
    BY <1>7 DEF MarkSendable
  <1>8. ASSUME NEW t \in Tasks, DropCreated(t) PROVE SendInv'
    <2>1. \A s \in Slots : AboutToWake(s) => AboutToWake(s)'
      BY <1>8 DEF DropCreated, Finish
    <2>2. \A s \in Slots : status'[s] = "Sendable" => status[s] = "Sendable"
      BY <1>8 DEF DropCreated
    <2> HIDE DEF AboutToWake
    <2> QED BY <1>8, <2>1, <2>2 DEF DropCreated
  <1>9. ASSUME NEW t \in Tasks, TaskWakeSender(t) PROVE SendInv'
    BY <1>9 DEF TaskWakeSender, WakeSender
  <1>10. ASSUME NEW t \in Tasks, Resume(t) PROVE SendInv'
    <2>1. \A s \in Slots : AboutToWake(s) => AboutToWake(s)'
      BY <1>10 DEF Resume
    <2> HIDE DEF AboutToWake
    <2> QED BY <1>10, <2>1 DEF Resume
  <1>11. ASSUME NEW t \in Tasks, PollRegister(t) PROVE SendInv'
    BY <1>11 DEF PollRegister
  <1>12. ASSUME NEW t \in Tasks, PollSwap(t) PROVE SendInv'
    <2>1. \A s \in Slots : AboutToWake(s) => AboutToWake(s)'
      BY <1>12 DEF PollSwap
    <2>2. \A s \in Slots : status'[s] = "Sendable" => status[s] = "Sendable"
      BY <1>12 DEF PollSwap
    <2> HIDE DEF AboutToWake
    <2> QED BY <1>12, <2>1, <2>2 DEF PollSwap
  <1>14. ASSUME NEW t \in Tasks, PollPending(t) PROVE SendInv'
    <2>1. \A s \in Slots : AboutToWake(s) => AboutToWake(s)'
      BY <1>14 DEF PollPending, MatchWas, Finish
    <2> HIDE DEF AboutToWake
    <2> QED BY <1>14, <2>1 DEF PollPending
  <1>15. ASSUME NEW t \in Tasks, PollTimeout(t) PROVE SendInv'
    BY <1>15 DEF PollTimeout, Finish
  <1>16. ASSUME NEW t \in Tasks, PollRetry(t) PROVE SendInv'
    BY <1>16 DEF PollRetry
  <1>17. ASSUME NEW t \in Tasks, PollRewake(t) PROVE SendInv'
    BY <1>17 DEF PollRewake, MatchWas, Finish, WakeSender
  <1>18. ASSUME NEW t \in Tasks, TimerExpires(t) PROVE SendInv'
    BY <1>18 DEF TimerExpires
  <1>19. ASSUME NEW t \in Tasks, DropFuture(t) PROVE SendInv'
    BY <1>19 DEF DropFuture, Finish
  <1>20. ASSUME NEW t \in Tasks, IterRead(t) PROVE SendInv'
    BY <1>20 DEF IterRead
  <1>21. ASSUME NEW t \in Tasks, FirstPduCheck(t) PROVE SendInv'
    BY <1>21 DEF FirstPduCheck
  <1>22. ASSUME NEW t \in Tasks, DropReceived(t) PROVE SendInv'
    <2>1. \A s \in Slots : AboutToWake(s) => AboutToWake(s)'
      BY <1>22 DEF DropReceived
    <2>2. \A s \in Slots : status'[s] = "Sendable" => status[s] = "Sendable"
      BY <1>22 DEF DropReceived
    <2> HIDE DEF AboutToWake
    <2> QED BY <1>22, <2>1, <2>2 DEF DropReceived
  <1>23. ASSUME NEW t \in Tasks, ClearFirstPdu(t) PROVE SendInv'
    BY <1>23 DEF ClearFirstPdu, Finish
  <1>24. ASSUME NEW t \in Tasks, ReadPdu(t) PROVE SendInv'
    BY <1>24 DEF ReadPdu, Finish
  <1>25. CASE TxStep
    <2>1. CASE TxPoll
      <3>1. \A s \in Slots : ~(s < tx_i')
        BY <2>1 DEF TxPoll, Slots
      <3>2. tx_waker' /\ tx_pc' = "scan"
        BY <2>1 DEF TxPoll
      <3> QED BY <3>1, <3>2
    <2>2. CASE DriverExit
      BY <2>2 DEF DriverExit
    <2>3. CASE TxScanEnd
      <3>1. exit_flag \/ \A s \in Slots : s < tx_i
        BY <2>3 DEF TxScanEnd, Slots
      <3>2. /\ tx_pc = "scan" /\ tx_pc' = "parked"
            /\ UNCHANGED <<status, exit_flag, tx_waker, tx_woken>>
        BY <2>3 DEF TxScanEnd
      <3>3. \A s \in Slots : AboutToWake(s) => AboutToWake(s)'
        BY <2>3 DEF TxScanEnd
      <3> HIDE DEF AboutToWake
      <3> QED BY <3>1, <3>2, <3>3
    <2>4. CASE ClaimSending
      BY <2>4 DEF ClaimSending, Slots
    <2>5. CASE SendFrame
      BY <2>5 DEF SendFrame
    <2>6. CASE MarkSent
      <3>1. \A s \in Slots : ~(s < tx_i')
        BY <2>6 DEF MarkSent, Slots
      <3>2. /\ tx_pc = "sent" /\ tx_pc' = "scan"
            /\ UNCHANGED <<tx_waker, tx_woken>>
        BY <2>6 DEF MarkSent
      <3> QED BY <3>1, <3>2
    <2>7. CASE SendFails
      BY <2>7 DEF SendFails, TxMayRun, RxBusy
    <2> QED BY <1>25, <2>1, <2>2, <2>3, <2>4, <2>5, <2>6, <2>7 DEF TxStep
  <1>26. CASE DriverRestart
    BY <1>26 DEF DriverRestart
  <1>27. CASE RxStep
    <2>1. CASE RxTake
      BY <2>1 DEF RxTake
    <2>2. CASE RxSearch
      BY <2>2 DEF RxSearch
    <2>3. CASE RxUnknown \/ ClaimReceivingFails \/ RxOversize
               \/ MarkReceivedFails
      BY <2>3 DEF RxUnknown, ClaimReceivingFails, RxOversize,
                  MarkReceivedFails, RxError, DriverError
    <2>4. CASE ClaimReceiving
      BY <2>4 DEF ClaimReceiving
    <2>5. CASE RxCopy
      BY <2>5 DEF RxCopy
    <2>6. CASE MarkReceived
      BY <2>6 DEF MarkReceived
    <2>7. CASE RxWake
      BY <2>7 DEF RxWake
    <2> QED
      BY <1>27, <2>1, <2>2, <2>3, <2>4, <2>5, <2>6, <2>7 DEF RxStep
  <1>28. CASE Lose
    BY <1>28 DEF Lose
  <1>29. CASE Release
    BY <1>29 DEF Release
  <1>30. CASE MdStep
    <2>1. CASE ReleaseWake
      BY <2>1 DEF ReleaseWake, WakeSender
    <2>2. CASE ResetCounters
      BY <2>2 DEF ResetCounters
    <2>3. CASE ResetSlot
      BY <2>3 DEF ResetSlot, MdType
    <2> QED BY <1>30, <2>1, <2>2, <2>3 DEF MdStep
  <1>31. CASE UNCHANGED vars
    BY <1>31 DEF vars
  <1> HIDE DEF SendInv, PduInv, TypeOK
  <1> QED
    BY <1>1, <1>2, <1>3, <1>4, <1>5, <1>6, <1>7, <1>8, <1>9, <1>10, <1>11,
       <1>12, <1>14, <1>15, <1>16, <1>17, <1>18, <1>19, <1>20, <1>21, <1>22,
       <1>23, <1>24, <1>25, <1>26, <1>27, <1>28, <1>29, <1>30, <1>31
    DEF Next, TaskStep, Terminated

(***************************************************************************)
(* The invariant and what follows from it.                                 *)
(***************************************************************************)

\* At the start no future waits and the driver is about to be polled.
LEMMA WakeInit == Init => WakeInv /\ SendInv
  BY DEF Init, WakeInv, SendInv, DriverHalves, WakerRegistered,
         SenderRegistered, NoLostSend

\* Ownership, wake-ups of the futures and wake-ups of the transmitter are
\* together preserved by every access of every actor to the PduStorage.
THEOREM PduInvariant == Spec => []PduInv
  <1>1. Init => PduInv
    BY TypeInit, OwnInit, WakeInit DEF PduInv
  <1>2. PduInv /\ [Next]_vars => PduInv'
    <2> SUFFICES ASSUME PduInv, [Next]_vars PROVE PduInv'
      OBVIOUS
    <2>1. TypeOK'
      BY TypeStep DEF PduInv
    <2> QED BY <2>1, OwnStep, WakeStep, SendStep DEF PduInv
  <1> QED
    BY <1>1, <1>2, PTL DEF Spec

\* alloc_frame never gives one slot to two tasks.
THEOREM UniqueOwner == Spec => []SlotOwnerUnique
  <1>1. PduInv => SlotOwnerUnique
    BY DEF PduInv, OwnInv
  <1> QED BY <1>1, PduInvariant, PTL

\* The unwrap in Drop for ReceivedFrame never panics.
THEOREM NoPanic == Spec => []ReceivedFrameIntact
  <1>1. PduInv => ReceivedFrameIntact
    BY DEF PduInv, OwnInv
  <1> QED BY <1>1, PduInvariant, PTL

\* ReceiveFrameFut::poll never sees a frame state it has no answer for.
THEOREM PollStatesCovered == Spec => []NoInvalidFrameState
  <1>1. PduInv => NoInvalidFrameState
    BY DEF PduInv, OwnInv
  <1> QED BY <1>1, PduInvariant, PTL

\* A future whose reply has been marked RxDone is woken.
THEOREM WakeupNotLost == Spec => []NoLostWakeup
  <1>1. PduInv => NoLostWakeup
    BY DEF PduInv, WakeInv, WakerRegistered, NoLostWakeup
  <1> QED BY <1>1, PduInvariant, PTL

\* A frame marked Sendable does not wait for a driver that sleeps.
THEOREM SendNotLost == Spec => []NoLostSend
  <1>1. PduInv => NoLostSend
    BY DEF PduInv, SendInv
  <1> QED BY <1>1, PduInvariant, PTL

\* A step that frees a slot is a step of its holder, or of a reset.
LEMMA FreeStep == PduInv /\ [Next]_vars => [FreedByHolder]_vars
  <1> SUFFICES ASSUME PduInv, [Next]_vars PROVE FreedByHolder
    OBVIOUS
  <1> SUFFICES ASSUME NEW s \in Slots, status[s] # "None",
                      status'[s] = "None", md_pc # "slots"
               PROVE  \E t \in Tasks : Owns(t, s) /\ pc'[t] \notin Holding
    BY DEF FreedByHolder
  <1> USE DEF PduInv, OwnInv, TypeOK, SlotType, TaskType, Owns, slotVars
  <1>1. ASSUME NEW t \in Tasks,
               DropCreated(t) \/ PollTimeout(t) \/ DropFuture(t)
                 \/ DropReceived(t)
        PROVE  Owns(t, s) /\ pc'[t] \notin Holding
    <2>1. CASE DropCreated(t)
      BY <2>1 DEF DropCreated, Finish, HeldStatus, Holding, InFlight
    <2>2. CASE PollTimeout(t)
      BY <2>2 DEF PollTimeout, Finish, Holding
    <2>3. CASE DropFuture(t)
      BY <2>3 DEF DropFuture, Finish, Holding
    <2>4. CASE DropReceived(t)
      BY <2>4 DEF DropReceived, Holding
    <2> QED BY <1>1, <2>1, <2>2, <2>3, <2>4
  <1>2. ASSUME NEW t \in Tasks,
               \/ \E m \in Modes : StartRequest(t, m)
               \/ TaskStep(t) \/ TimerExpires(t),
               ~DropCreated(t), ~PollTimeout(t), ~DropReceived(t)
        PROVE  FALSE
    <2>1. ~ClaimCreated(t)
      BY DEF ClaimCreated
    <2>2. ~MarkSendable(t)
      BY DEF MarkSendable
    <2>3. ~PollSwap(t)
      BY DEF PollSwap
    <2>4. ~PollRetry(t)
      BY DEF PollRetry
    <2>5. status' # status
      OBVIOUS
    <2>6. \A m \in Modes : ~StartRequest(t, m)
      BY <2>5 DEF StartRequest
    <2>7. /\ ~AllocNext(t) /\ ~AllocFail(t) /\ ~PushPdu(t) /\ ~PushTooLong(t)
          /\ ~TaskWakeSender(t) /\ ~Resume(t) /\ ~PollRegister(t)
          /\ ~PollPending(t) /\ ~PollRewake(t) /\ ~IterRead(t)
          /\ ~FirstPduCheck(t) /\ ~ClearFirstPdu(t) /\ ~ReadPdu(t)
          /\ ~TimerExpires(t)
      BY <2>5
      DEF AllocNext, AllocFail, PushPdu, PushTooLong, TaskWakeSender, Resume,
          PollRegister, PollPending, PollRewake, IterRead, FirstPduCheck,
          ClearFirstPdu, ReadPdu, TimerExpires
    <2> QED BY <1>2, <2>1, <2>2, <2>3, <2>4, <2>6, <2>7 DEF TaskStep
  <1>3. ~TxStep /\ ~DriverRestart
    BY DEF TxStep, TxPoll, DriverExit, TxScanEnd, ClaimSending, SendFrame,
           MarkSent, SendFails, DriverRestart
  <1>4. ~RxStep /\ ~Lose
    BY DEF RxStep, RxTake, RxSearch, RxUnknown, ClaimReceiving,
           ClaimReceivingFails, RxCopy, RxOversize, MarkReceived,
           MarkReceivedFails, RxWake, RxError, Lose
  <1>5. ~Release /\ ~MdStep /\ ~UNCHANGED vars /\ ~Terminated
    BY DEF Release, MdStep, ReleaseWake, ResetCounters, ResetSlot, vars,
           Terminated
  <1> QED BY <1>1, <1>2, <1>3, <1>4, <1>5 DEF Next, TaskStep

\* Only the task that holds a slot, or the reset of a released MainDevice,
\* frees it.
THEOREM HolderFrees == Spec => OnlyHolderFrees
  BY FreeStep, PduInvariant, PTL DEF Spec, OnlyHolderFrees
=============================================================================
