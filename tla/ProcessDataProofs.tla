------------------------- MODULE ProcessDataProofs -------------------------
(***************************************************************************)
(* Proofs about the process data cycle, for every size of the PDI, of the  *)
(* frames and of the group, every number of tasks and every bound.         *)
(***************************************************************************)
EXTENDS ProcessData, TLAPS

\* What the assumptions on the constants give the other proofs.
LEMMA ConstFacts ==
  /\ MAX_PDI \in Nat /\ MAX_SUBDEVICES \in Nat /\ PdiStart \in Nat
  /\ Overhead \in Nat /\ StatusLen \in Nat /\ TimeLen \in Nat
  /\ Overhead > 0 /\ StatusLen > 0 /\ TimeLen > 0
  /\ FrameLen \in Nat /\ MaxChecks \in Nat
  /\ Overhead + TimeLen <= FrameLen /\ Overhead + StatusLen <= FrameLen
  /\ MaxCycles \in Nat /\ MaxWrites \in Nat /\ MaxNow \in Nat
  BY SizesAssumption, FrameAssumption, BoundsAssumption

\* Versions of the outputs and times of the segment are values.
LEMMA ValueFacts ==
  /\ 0 \in Values
  /\ \A v \in 0..MaxWrites : v \in Values
  /\ \A v \in 0..MaxNow : v \in Values
  BY ConstFacts DEF Values

\* The empty frame and the one with the clock in it are frames.
LEMMA EmptyType == EmptyFrame \in FrameType /\ ClockFrame \in FrameType
  BY ConstFacts, ValueFacts DEF EmptyFrame, ClockFrame, NewFrame, FrameType

\* The group as configure_fmmus leaves it is well typed.
LEMMA TypeInit == Init => TypeOK
  <1> SUFFICES ASSUME Init PROVE TypeOK
    OBVIOUS
  <1> USE ConstFacts, ValueFacts
  <1>1. result \in ResultType
    BY DEF Init, ResultType, NoResult, Response
  <1>2. frame \in FrameType
    BY EmptyType DEF Init
  <1>3. subdevice_states \in Seq(1..MAX_SUBDEVICES)
    BY DEF Init
  <1>4. /\ pdi_len \in 0..MAX_PDI /\ read_pdi_len \in 0..pdi_len
        /\ len \in 0..MAX_SUBDEVICES
        /\ pdi \in [PdiIdx -> Values]
        /\ writer \in Tasks \cup {NoTask} /\ readers \in SUBSET Tasks
        /\ pc \in [Tasks -> TaskPc] /\ kind \in [Tasks -> CycleKinds]
        /\ dev_out \in [Addresses -> Values]
        /\ written \in [PdiIdx -> Values]
        /\ given \in [PdiIdx -> Values \cup {NotGiven}]
    BY DEF Init, TaskPc, CycleKinds
  <1>5. /\ total_bytes_sent = 0 /\ total_checks = 0 /\ time = 0
        /\ time_read = FALSE /\ lrw_wkc_sum = 0 /\ cycles = 0
        /\ version = 0 /\ now = 0 /\ chunks = 0 /\ clocks = 0
    BY DEF Init
  <1>6. /\ 0 \in 0..pdi_len /\ 0 \in 0..len /\ 0 \in 0..MaxCycles
        /\ 0 \in 0..MaxWrites /\ 0 \in 0..MaxNow /\ 0 \in Nat
        /\ FALSE \in BOOLEAN
    BY <1>4
  <1> QED
    BY <1>1, <1>2, <1>3, <1>4, <1>5, <1>6, Zenon DEF TypeOK

\* A task with the write lock is the only one in a cycle or a guard.
LEMMA HolderAlone ==
  ASSUME LockInv, NoTask \notin Tasks,
         NEW t \in Tasks, pc[t] \in InCycle \cup {"write"},
         NEW u \in Tasks, u # t
  PROVE  pc[u] \notin InCycle \cup {"write", "read"}
  BY DEF LockInv, InCycle

\* The end of a cycle keeps the types.
LEMMA ReturnType ==
  ASSUME TypeOK, NEW t \in Tasks, NEW r \in ResultType, Return(t, r)
  PROVE  /\ pc' \in [Tasks -> TaskPc] /\ kind' \in [Tasks -> CycleKinds]
         /\ result' \in ResultType /\ writer' \in Tasks \cup {NoTask}
         /\ total_bytes_sent' = 0 /\ total_checks' = 0
         /\ time' \in Values /\ time_read' \in BOOLEAN
         /\ lrw_wkc_sum' \in Nat
         /\ subdevice_states' \in Seq(1..MAX_SUBDEVICES)
         /\ frame' \in FrameType
         /\ given' \in [PdiIdx -> Values \cup {NotGiven}]
         /\ chunks' \in Nat /\ clocks' \in Nat
  <1>1. frame' \in FrameType
    BY EmptyType DEF Return, DropLocals
  <1>2. subdevice_states' \in Seq(1..MAX_SUBDEVICES)
    BY DEF Return, DropLocals
  <1>3. /\ pc' \in [Tasks -> TaskPc] /\ kind' \in [Tasks -> CycleKinds]
        /\ result' \in ResultType /\ writer' \in Tasks \cup {NoTask}
    BY DEF TypeOK, Return, TaskPc, CycleKinds
  <1>4. /\ total_bytes_sent' = 0 /\ total_checks' = 0
        /\ time' \in Values /\ time_read' \in BOOLEAN /\ lrw_wkc_sum' \in Nat
        /\ given' \in [PdiIdx -> Values \cup {NotGiven}]
        /\ chunks' \in Nat /\ clocks' \in Nat
    BY ValueFacts DEF Return, DropLocals
  <1> QED BY <1>1, <1>2, <1>3, <1>4

\* A record with the right fields is a frame.
LEMMA FrameRecord ==
  ASSUME NEW u \in 0..FrameLen, NEW c \in BOOLEAN, NEW a \in Nat,
         NEW n \in 0..MAX_PDI, NEW d \in [PdiIdx -> Values],
         NEW s \in Seq(1..MAX_SUBDEVICES)
  PROVE  [used |-> u, clock |-> c, addr |-> a, size |-> n, data |-> d,
          checks |-> s, wkc |-> 0, time |-> 0] \in FrameType
  BY ValueFacts DEF FrameType

\* push_pdu_slice_rest never writes past the end of the frame, nor past the
\* end of the PDI.
LEMMA PushChunkType ==
  ASSUME TypeOK, NEW t \in Tasks, PushChunk(t) PROVE frame' \in FrameType
  <1> DEFINE room == SaturatingSub(SaturatingSub(FrameLen, frame.used),
                                   Overhead)
             size == Smaller(room, ChunkLen)
             used == frame.used + size + Overhead
             addr == PdiStart + total_bytes_sent
             data == [k \in PdiIdx |->
                        IF k < size THEN pdi[total_bytes_sent + k] ELSE 0]
  <1>1. frame \in FrameType
    BY DEF TypeOK
  <1>2. CASE ChunkLen = 0 \/ room = 0
    BY <1>1, <1>2 DEF PushChunk
  <1>3. CASE ~(ChunkLen = 0 \/ room = 0)
    <2>1. /\ frame.used \in Nat /\ frame.clock \in BOOLEAN
          /\ pdi_len \in Nat /\ pdi_len <= MAX_PDI
          /\ total_bytes_sent \in Nat /\ total_bytes_sent <= pdi_len
          /\ pdi \in [PdiIdx -> Values]
      BY ConstFacts DEF TypeOK, FrameType
    <2>2. /\ size \in 0..MAX_PDI /\ total_bytes_sent + size <= pdi_len
          /\ used \in 0..FrameLen /\ addr \in Nat
      BY <1>3, <2>1, ConstFacts DEF ChunkLen, SaturatingSub, Smaller
    <2>3. data \in [PdiIdx -> Values]
      BY <2>1, <2>2, ConstFacts, ValueFacts DEF PdiIdx
    <2>4. frame' = [used |-> used, clock |-> frame.clock, addr |-> addr,
                    size |-> size, data |-> data, checks |-> <<>>,
                    wkc |-> 0, time |-> 0]
      BY <1>3 DEF PushChunk
    <2>5. <<>> \in Seq(1..MAX_SUBDEVICES)
      OBVIOUS
    <2> HIDE DEF size, used, addr, data
    <2> QED BY <2>1, <2>2, <2>3, <2>4, <2>5, FrameRecord, Zenon
  <1> QED BY <1>2, <1>3

\* A state check is pushed only where it fits.
LEMMA PushCheckType ==
  ASSUME TypeOK, NEW t \in Tasks, PushCheck(t) PROVE frame' \in FrameType
  <1> DEFINE used == frame.used + StatusLen + Overhead
             e == total_checks + 1
  <1>1. /\ frame.used \in Nat /\ frame.clock \in BOOLEAN /\ frame.addr \in Nat
        /\ frame.size \in 0..MAX_PDI /\ frame.data \in [PdiIdx -> Values]
        /\ frame.checks \in Seq(1..MAX_SUBDEVICES)
    BY ConstFacts DEF TypeOK, FrameType
  <1>2. used \in 0..FrameLen
    <2>1. used <= FrameLen
      BY DEF PushCheck, MorePushed
    <2> QED BY <1>1, <2>1, ConstFacts
  <1>3. e \in 1..MAX_SUBDEVICES
    BY ConstFacts DEF TypeOK, PushCheck, MorePushed
  <1>4. frame' = [used |-> used, clock |-> frame.clock, addr |-> frame.addr,
                  size |-> frame.size, data |-> frame.data,
                  checks |-> Append(frame.checks, e), wkc |-> 0, time |-> 0]
    BY DEF PushCheck
  <1> HIDE DEF used, e
  <1>5. Append(frame.checks, e) \in Seq(1..MAX_SUBDEVICES)
    BY <1>1, <1>3
  <1> QED BY <1>1, <1>2, <1>4, <1>5, FrameRecord, Zenon

\* Every step keeps the types; that a reply fits the PDI needs FrameInv.
LEMMA TypeStep == CycleInv /\ [Next]_vars => TypeOK'
  <1> SUFFICES ASSUME CycleInv, [Next]_vars PROVE TypeOK'
    OBVIOUS
  <1> USE ConstFacts, ValueFacts
      DEF CycleInv, TypeOK, groupVars, lockVars, taskVars, cycleVars, segVars,
          histVars, writeVars
  <1>1. ASSUME NEW t \in Tasks, NEW k \in Kinds, StartCycle(t, k)
        PROVE TypeOK'
    BY <1>1, OptionsAssumption DEF StartCycle, TaskPc
  <1>2. ASSUME NEW t \in Tasks, LockWrite(t) PROVE TypeOK'
    BY <1>2 DEF LockWrite, TaskPc
  <1>3. ASSUME NEW t \in Tasks, LockRead(t) PROVE TypeOK'
    BY <1>3 DEF LockRead, TaskPc
  <1>4. ASSUME NEW t \in Tasks, LockCycle(t) PROVE TypeOK'
    BY <1>4 DEF LockCycle, TaskPc, InCycle, CycleKinds
  <1>5. ASSUME NEW t \in Tasks, TopExit(t) PROVE TypeOK'
    <2> DEFINE r == Response("ok", lrw_wkc_sum, subdevice_states)
    <2>1. r \in ResultType
      BY DEF ResultType, Response
    <2>2. Return(t, r)
      BY <1>5 DEF TopExit
    <2> QED BY <1>5, <2>1, <2>2, ReturnType DEF TopExit
  <1>6. ASSUME NEW t \in Tasks, AllocFrame(t) PROVE TypeOK'
    BY <1>6, EmptyType DEF AllocFrame, TaskPc, InCycle
  <1>7. ASSUME NEW t \in Tasks, AllocFails(t) PROVE TypeOK'
    <2>1. Failed \in ResultType
      BY DEF ResultType, Response, Failed
    <2> QED BY <1>7, <2>1, ReturnType DEF AllocFails
  <1>8. ASSUME NEW t \in Tasks, PushChunk(t) PROVE TypeOK'
    BY <1>8, PushChunkType DEF PushChunk, TaskPc, InCycle
  <1>9. ASSUME NEW t \in Tasks, PushCheck(t) PROVE TypeOK'
    <2>1. frame' \in FrameType
      BY <1>9, PushCheckType
    <2>2. total_checks' \in 0..len
      BY <1>9 DEF PushCheck, MorePushed
    <2>3. UNCHANGED <<groupVars, pdi, lockVars, taskVars, total_bytes_sent,
                      time, time_read, lrw_wkc_sum, subdevice_states, cycles,
                      writeVars, segVars, histVars>>
      BY <1>9 DEF PushCheck
    <2> QED BY <2>1, <2>2, <2>3
  <1>10. ASSUME NEW t \in Tasks, EmptyExit(t) PROVE TypeOK'
    <2> DEFINE r == Response("ok", lrw_wkc_sum, subdevice_states)
    <2>1. r \in ResultType
      BY DEF ResultType, Response
    <2>2. Return(t, r)
      BY <1>10 DEF EmptyExit
    <2> QED BY <1>10, <2>1, <2>2, ReturnType DEF EmptyExit
  <1>11. ASSUME NEW t \in Tasks, SendFrame(t) PROVE TypeOK'
    BY <1>11 DEF SendFrame, TaskPc, InCycle
  <1>12. ASSUME NEW t \in Tasks, NEW w \in {0, 1}, Exchange(t, w)
         PROVE TypeOK'
    <2>1. frame' \in FrameType
      BY <1>12 DEF Exchange, FrameType
    <2>2. dev_out' \in [Addresses -> Values]
      BY <1>12 DEF Exchange, FrameType, Addresses, PdiIdx, Outputs
    <2>3. given' \in [PdiIdx -> Values \cup {NotGiven}]
      BY <1>12 DEF Exchange
    <2> QED BY <1>12, <2>1, <2>2, <2>3 DEF Exchange, TaskPc, InCycle
  <1>13. ASSUME NEW t \in Tasks, Timeout(t) PROVE TypeOK'
    <2>1. Failed \in ResultType
      BY DEF ResultType, Response, Failed
    <2> QED BY <1>13, <2>1, ReturnType DEF Timeout
  <1>14. ASSUME NEW t \in Tasks, ProcessReply(t) PROVE TypeOK'
    <2> DEFINE wkc == lrw_wkc_sum + (IF frame.size > 0 THEN frame.wkc ELSE 0)
               states == subdevice_states \o frame.checks
    <2>1. wkc \in Nat
      BY DEF FrameType
    <2>2. states \in Seq(1..MAX_SUBDEVICES)
      BY DEF FrameType
    <2>3. Response("ok", wkc, states) \in ResultType
      BY <2>1, <2>2 DEF Response, ResultType
    <2>4. pdi' \in [PdiIdx -> Values]
      BY <1>14 DEF ProcessReply, ProcessReceivedPdiChunk, FrameType, PdiIdx,
                   Smaller
    <2> HIDE DEF wkc, states
    <2>5. CASE Return(t, Response("ok", wkc, states))
      BY <1>14, <2>3, <2>4, <2>5, ReturnType DEF ProcessReply
    <2>6. CASE ~Return(t, Response("ok", wkc, states))
      <3>1. /\ total_bytes_sent' = total_bytes_sent + frame.size
            /\ lrw_wkc_sum' = wkc /\ subdevice_states' = states
            /\ time' = IF frame.clock THEN frame.time ELSE time
            /\ time_read' = (time_read \/ frame.clock)
            /\ pc' = [pc EXCEPT ![t] = "loop"]
            /\ frame' = EmptyFrame
            /\ UNCHANGED <<kind, result, writer, total_checks, histVars>>
        BY <1>14, <2>6 DEF ProcessReply, wkc, states
      <3>2. total_bytes_sent + frame.size \in 0..pdi_len
        BY <1>14, SMTT(40) DEF ProcessReply, FrameInv, FrameType, InCycle
      <3>3. time' \in Values /\ time_read' \in BOOLEAN
        BY <3>1 DEF FrameType
      <3> QED
        BY <1>14, <2>1, <2>2, <2>4, <3>1, <3>2, <3>3, EmptyType
        DEF ProcessReply, TaskPc, InCycle
    <2> QED BY <2>5, <2>6
  <1>15. ASSUME NEW t \in Tasks, NEW k \in PdiIdx, WriteOutput(t, k)
         PROVE TypeOK'
    BY <1>15 DEF WriteOutput
  <1>16. ASSUME NEW t \in Tasks, UnlockWrite(t) PROVE TypeOK'
    BY <1>16 DEF UnlockWrite, TaskPc
  <1>17. ASSUME NEW t \in Tasks, UnlockRead(t) PROVE TypeOK'
    BY <1>17 DEF UnlockRead, TaskPc
  <1>18. CASE Tick
    BY <1>18 DEF Tick
  <1>19. CASE UNCHANGED vars
    BY <1>19 DEF vars
  <1> QED
    BY <1>1, <1>2, <1>3, <1>4, <1>5, <1>6, <1>7, <1>8, <1>9, <1>10, <1>11,
       <1>12, <1>13, <1>14, <1>15, <1>16, <1>17, <1>18, <1>19
    DEF Next, CycleStep, GuardStep

\* A reply either ends the cycle or takes it back to the top of the loop.
LEMMA ReplyMoves ==
  ASSUME NEW t \in Tasks, ProcessReply(t)
  PROVE  \/ /\ writer' = NoTask /\ pc' = [pc EXCEPT ![t] = "idle"]
            /\ DropLocals
            /\ kind[t] # "tx_rx" /\ AllDone
         \/ /\ writer' = writer /\ pc' = [pc EXCEPT ![t] = "loop"]
            /\ kind' = kind /\ frame' = EmptyFrame
            /\ total_bytes_sent' = total_bytes_sent + frame.size
            /\ total_checks' = total_checks
            /\ time_read' = (time_read \/ frame.clock)
            /\ UNCHANGED histVars
  BY DEF ProcessReply, Return

\* Every step keeps the lock with who uses the PDI.
LEMMA LockStep == CycleInv /\ [Next]_vars => LockInv'
  <1> SUFFICES ASSUME CycleInv, [Next]_vars PROVE LockInv'
    OBVIOUS
  <1> USE TasksAssumption
      DEF CycleInv, TypeOK, LockInv, InCycle, TaskPc, groupVars, lockVars,
          taskVars, cycleVars, segVars, histVars, writeVars
  <1>1. ASSUME NEW t \in Tasks, NEW k \in Kinds, StartCycle(t, k)
        PROVE LockInv'
    BY <1>1 DEF StartCycle, Return, Free
  <1>2. ASSUME NEW t \in Tasks, LockWrite(t) PROVE LockInv'
    BY <1>2 DEF LockWrite, Return, Free
  <1>3. ASSUME NEW t \in Tasks, LockRead(t) PROVE LockInv'
    BY <1>3 DEF LockRead, Return, Free
  <1>4. ASSUME NEW t \in Tasks, LockCycle(t) PROVE LockInv'
    BY <1>4 DEF LockCycle, Return, Free
  <1>5. ASSUME NEW t \in Tasks, TopExit(t) PROVE LockInv'
    BY <1>5 DEF TopExit, Return, Free
  <1>6. ASSUME NEW t \in Tasks, AllocFrame(t) PROVE LockInv'
    BY <1>6 DEF AllocFrame, Return, Free
  <1>7. ASSUME NEW t \in Tasks, AllocFails(t) PROVE LockInv'
    BY <1>7 DEF AllocFails, Return, Free
  <1>8. ASSUME NEW t \in Tasks, PushChunk(t) PROVE LockInv'
    BY <1>8 DEF PushChunk, Return, Free
  <1>9. ASSUME NEW t \in Tasks, PushCheck(t) PROVE LockInv'
    BY <1>9 DEF PushCheck, Return, Free
  <1>10. ASSUME NEW t \in Tasks, EmptyExit(t) PROVE LockInv'
    BY <1>10 DEF EmptyExit, Return, Free
  <1>11. ASSUME NEW t \in Tasks, SendFrame(t) PROVE LockInv'
    BY <1>11 DEF SendFrame, Return, Free
  <1>12. ASSUME NEW t \in Tasks, NEW w \in {0, 1}, Exchange(t, w)
        PROVE LockInv'
    BY <1>12 DEF Exchange, Return, Free
  <1>13. ASSUME NEW t \in Tasks, Timeout(t) PROVE LockInv'
    BY <1>13 DEF Timeout, Return, Free
  <1>14. ASSUME NEW t \in Tasks, ProcessReply(t) PROVE LockInv'
    BY <1>14, ReplyMoves DEF ProcessReply
  <1>15. ASSUME NEW t \in Tasks, NEW k \in PdiIdx, WriteOutput(t, k)
        PROVE LockInv'
    BY <1>15 DEF WriteOutput, Return, Free
  <1>16. ASSUME NEW t \in Tasks, UnlockWrite(t) PROVE LockInv'
    BY <1>16 DEF UnlockWrite, Return, Free
  <1>17. ASSUME NEW t \in Tasks, UnlockRead(t) PROVE LockInv'
    BY <1>17 DEF UnlockRead, Return, Free
  <1>18. CASE Tick
    BY <1>18 DEF Tick, Return, Free
  <1>19. CASE UNCHANGED vars
    BY <1>19 DEF vars
  <1> QED
    BY <1>1, <1>2, <1>3, <1>4, <1>5, <1>6, <1>7, <1>8, <1>9, <1>10, <1>11,
       <1>12, <1>13, <1>14, <1>15, <1>16, <1>17, <1>18, <1>19
    DEF Next, CycleStep, GuardStep

\* A cycle of one task keeps the others out of a cycle.
LEMMA AloneInCycle ==
  ASSUME LockInv, NEW t \in Tasks, pc[t] \in InCycle
  PROVE  \A u \in Tasks : u # t => pc[u] \notin InCycle \cup {"write"}
  BY HolderAlone, TasksAssumption

\* The lock is free: nobody is in a cycle.
LEMMA FreeNobody ==
  ASSUME LockInv, Free
  PROVE  \A u \in Tasks : pc[u] \notin InCycle \cup {"write"}
  BY TasksAssumption DEF LockInv, Free

\* Every end of a cycle drops its locals, and nothing else touches them.
LEMMA LocalsStep == CycleInv /\ [Next]_vars => LocalsInv'
  <1> SUFFICES ASSUME CycleInv, [Next]_vars PROVE LocalsInv'
    OBVIOUS
  <1> USE DEF CycleInv, TypeOK, LocalsInv, InCycle, groupVars, lockVars,
              taskVars, cycleVars, segVars, histVars, writeVars
  <1>1. ASSUME NEW t \in Tasks, NEW k \in Kinds, StartCycle(t, k)
        PROVE LocalsInv'
    BY <1>1 DEF StartCycle
  <1>2. ASSUME NEW t \in Tasks, LockWrite(t) PROVE LocalsInv'
    BY <1>2 DEF LockWrite
  <1>3. ASSUME NEW t \in Tasks, LockRead(t) PROVE LocalsInv'
    BY <1>3 DEF LockRead
  <1>4. ASSUME NEW t \in Tasks, LockCycle(t) PROVE LocalsInv'
    BY <1>4 DEF LockCycle
  <1>5. ASSUME NEW t \in Tasks, TopExit(t) PROVE LocalsInv'
    BY <1>5 DEF TopExit, Return, DropLocals
  <1>6. ASSUME NEW t \in Tasks, AllocFrame(t) PROVE LocalsInv'
    BY <1>6 DEF AllocFrame
  <1>7. ASSUME NEW t \in Tasks, AllocFails(t) PROVE LocalsInv'
    BY <1>7 DEF AllocFails, Return, DropLocals
  <1>8. ASSUME NEW t \in Tasks, PushChunk(t) PROVE LocalsInv'
    BY <1>8 DEF PushChunk
  <1>9. ASSUME NEW t \in Tasks, PushCheck(t) PROVE LocalsInv'
    BY <1>9 DEF PushCheck
  <1>10. ASSUME NEW t \in Tasks, EmptyExit(t) PROVE LocalsInv'
    BY <1>10 DEF EmptyExit, Return, DropLocals
  <1>11. ASSUME NEW t \in Tasks, SendFrame(t) PROVE LocalsInv'
    BY <1>11 DEF SendFrame
  <1>12. ASSUME NEW t \in Tasks, NEW w \in {0, 1}, Exchange(t, w)
        PROVE LocalsInv'
    BY <1>12 DEF Exchange
  <1>13. ASSUME NEW t \in Tasks, Timeout(t) PROVE LocalsInv'
    BY <1>13 DEF Timeout, Return, DropLocals
  <1>14. ASSUME NEW t \in Tasks, ProcessReply(t) PROVE LocalsInv'
    BY <1>14, ReplyMoves DEF ProcessReply, DropLocals
  <1>15. ASSUME NEW t \in Tasks, NEW k \in PdiIdx, WriteOutput(t, k)
        PROVE LocalsInv'
    BY <1>15 DEF WriteOutput
  <1>16. ASSUME NEW t \in Tasks, UnlockWrite(t) PROVE LocalsInv'
    BY <1>16 DEF UnlockWrite
  <1>17. ASSUME NEW t \in Tasks, UnlockRead(t) PROVE LocalsInv'
    BY <1>17 DEF UnlockRead
  <1>18. CASE Tick
    BY <1>18 DEF Tick
  <1>19. CASE UNCHANGED vars
    BY <1>19 DEF vars
  <1> QED
    BY <1>1, <1>2, <1>3, <1>4, <1>5, <1>6, <1>7, <1>8, <1>9, <1>10, <1>11,
       <1>12, <1>13, <1>14, <1>15, <1>16, <1>17, <1>18, <1>19
    DEF Next, CycleStep, GuardStep

\* The part of the invariant that speaks of the cycle under way.
CoreInv == FrameInv /\ DataInv /\ ReplyInv /\ StatesInv /\ ClockInv

\* With no cycle under way it says nothing.
LEMMA CycleOver ==
  ASSUME \A u \in Tasks : pc'[u] \notin InCycle PROVE CoreInv'
  BY DEF CoreInv, FrameInv, DataInv, ReplyInv, StatesInv, ClockInv, InCycle

\* A step of a task outside a cycle, or of the segment, does not disturb it.
LEMMA OutsideStep ==
  ASSUME CoreInv,
         \A u \in Tasks : \/ pc'[u] = pc[u] /\ kind'[u] = kind[u]
                          \/ pc[u] \notin InCycle /\ pc'[u] \notin InCycle,
         UNCHANGED <<groupVars, pdi, cycleVars, frame, dev_out, histVars>>
  PROVE  CoreInv'
  <1> USE DEF groupVars, cycleVars, histVars
  <1>1. FrameInv'
    BY DEF CoreInv, FrameInv, ChunkLen, InCycle
  <1>2. DataInv'
    <2>1. ChunksDone' = ChunksDone
      BY DEF ChunksDone, InCycle
    <2> QED BY <2>1 DEF CoreInv, DataInv, Inputs, Outputs
  <1>3. ReplyInv'
    BY DEF CoreInv, ReplyInv, InCycle, Inputs, Outputs
  <1>4. StatesInv'
    BY DEF CoreInv, StatesInv
  <1>5. ClockInv'
    BY DEF CoreInv, ClockInv, InCycle
  <1> QED BY <1>1, <1>2, <1>3, <1>4, <1>5 DEF CoreInv

\* A cycle starts with nothing sent, asked or received.
LEMMA CycleStarts ==
  ASSUME CycleInv, NEW t \in Tasks, LockCycle(t) PROVE CoreInv'
  <1>1. /\ \A u \in Tasks : pc[u] \notin InCycle \cup {"write"}
        /\ LocalsInv
    BY FreeNobody DEF LockCycle, CycleInv
  <1>2. \A u \in Tasks : pc'[u] \in InCycle => u = t /\ pc'[u] = "loop"
    BY <1>1 DEF LockCycle, CycleInv, TypeOK, InCycle
  <1>3. /\ total_bytes_sent' = 0 /\ total_checks' = 0 /\ ~time_read'
        /\ lrw_wkc_sum' = 0 /\ subdevice_states' = <<>>
        /\ frame' = EmptyFrame /\ chunks' = 0 /\ clocks' = 0
    BY <1>1 DEF LockCycle, LocalsInv, cycleVars, histVars, InCycle
  <1>4. FrameInv'
    BY <1>2, <1>3 DEF FrameInv, EmptyFrame, NewFrame, InCycle
  <1>5. DataInv'
    BY <1>2, <1>3 DEF DataInv, ChunksDone, InCycle
  <1>6. ReplyInv'
    BY <1>2 DEF ReplyInv, InCycle
  <1>7. StatesInv'
    BY <1>3 DEF StatesInv, EmptyFrame, NewFrame
  <1>8. ClockInv'
    BY <1>2, <1>3 DEF ClockInv, EmptyFrame, NewFrame, InCycle
  <1> QED BY <1>4, <1>5, <1>6, <1>7, <1>8 DEF CoreInv

\* The one task in a cycle moves on: afterwards it is the one in a cycle.
LEMMA CycleMoves ==
  ASSUME CycleInv, NEW t \in Tasks, pc[t] \in InCycle, NEW p,
         pc' = [pc EXCEPT ![t] = p]
  PROVE  /\ \A u \in Tasks : u # t => pc'[u] \notin InCycle
         /\ \A u \in Tasks : u # t => pc[u] \notin InCycle
         /\ pc'[t] = p
  BY AloneInCycle DEF CycleInv, TypeOK

\* A new frame holds nothing but, in the first frame of a cycle, the clock.
LEMMA AllocFrameCore ==
  ASSUME CycleInv, NEW t \in Tasks, AllocFrame(t) PROVE CoreInv'
  <1> USE DEF groupVars, cycleVars, histVars
  <1>1. /\ pc[t] = "loop" /\ pc[t] \in InCycle
        /\ pc' = [pc EXCEPT ![t] = "chunk"]
    BY DEF AllocFrame, InCycle
  <1>2. /\ \A u \in Tasks : u # t => pc'[u] \notin InCycle
        /\ \A u \in Tasks : u # t => pc[u] \notin InCycle
        /\ pc'[t] = "chunk"
    BY <1>1, CycleMoves
  <1>3. FrameInv'
    BY <1>2 DEF AllocFrame, FrameInv, EmptyFrame, ClockFrame, NewFrame,
                InCycle
  <1>4. DataInv'
    <2>1. ChunksDone' = chunks - 0 /\ ChunksDone = chunks - 0
      BY <1>1, <1>2 DEF ChunksDone, AllocFrame, InCycle
    <2>2. UNCHANGED <<groupVars, pdi, cycleVars, dev_out, histVars>>
      BY DEF AllocFrame, segVars
    <2> QED
      BY <1>1, <2>1, <2>2 DEF CycleInv, DataInv, Inputs, Outputs
  <1>5. ReplyInv'
    BY <1>2 DEF ReplyInv, InCycle
  <1>6. StatesInv'
    <2>1. frame.checks = <<>>
      BY <1>1 DEF CycleInv, FrameInv
    <2>2. frame'.checks = <<>>
      BY <1>2, <1>3 DEF FrameInv
    <2> QED BY <1>1, <2>1, <2>2 DEF AllocFrame, CycleInv, StatesInv
  <1>7. ClockInv'
    <2>1. /\ kind'[t] = kind[t] /\ time_read' = time_read
          /\ clocks' = clocks
          /\ frame'.clock = (kind[t] # "tx_rx" /\ ~time_read)
      BY DEF AllocFrame, EmptyFrame, ClockFrame, NewFrame
    <2>2. ~frame.clock
      BY <1>1 DEF CycleInv, FrameInv
    <2> QED
      BY <1>1, <1>2, <2>1, <2>2 DEF CycleInv, ClockInv, InCycle
  <1> QED BY <1>3, <1>4, <1>5, <1>6, <1>7 DEF CoreInv

\* push_pdu_slice_rest cuts the next piece off the rest of the PDI.
LEMMA PushChunkCore ==
  ASSUME CycleInv, NEW t \in Tasks, PushChunk(t) PROVE CoreInv'
  <1> USE ConstFacts DEF groupVars, cycleVars, histVars
  <1> DEFINE room == SaturatingSub(SaturatingSub(FrameLen, frame.used),
                                   Overhead)
             size == Smaller(room, ChunkLen)
             none == ChunkLen = 0 \/ room = 0
  <1>1. /\ pc[t] = "chunk" /\ pc[t] \in InCycle
        /\ pc' = [pc EXCEPT ![t] = "checks"]
    BY DEF PushChunk, InCycle
  <1>2. /\ \A u \in Tasks : u # t => pc'[u] \notin InCycle
        /\ \A u \in Tasks : u # t => pc[u] \notin InCycle
        /\ pc'[t] = "checks"
    BY <1>1, CycleMoves
  <1>3. /\ frame.size = 0 /\ frame.checks = <<>>
        /\ frame.used = IF frame.clock THEN TimeLen + Overhead ELSE 0
    BY <1>1 DEF CycleInv, FrameInv
  <1>4. /\ ChunkLen \in Nat /\ total_bytes_sent + ChunkLen = pdi_len
        /\ pdi_len \in Nat /\ total_bytes_sent \in Nat
    BY DEF CycleInv, TypeOK, ChunkLen, SaturatingSub
  <1>5. room \in Nat /\ (~frame.clock => room > 0)
    BY <1>3 DEF SaturatingSub, CycleInv, TypeOK, FrameType
  <1>6. ~none => size \in Nat /\ size > 0 /\ size <= ChunkLen
    BY <1>4, <1>5 DEF Smaller
  <1>7. none => frame' = frame
    BY DEF PushChunk
  <1>8. ~none =>
          /\ frame'.clock = frame.clock /\ frame'.size = size
          /\ frame'.addr = PdiStart + total_bytes_sent
          /\ frame'.checks = <<>>
          /\ frame'.data = [k \in PdiIdx |->
                 IF k < size THEN pdi[total_bytes_sent + k] ELSE 0]
    BY DEF PushChunk
  <1>9. /\ frame'.clock = frame.clock /\ frame'.checks = <<>>
        /\ UNCHANGED <<groupVars, pdi, kind, cycleVars, dev_out, histVars>>
    BY <1>3, <1>7, <1>8 DEF PushChunk, segVars
  <1> HIDE DEF room, size, none
  <1>10. FrameInv'
    <2>1. ChunkLen' = ChunkLen
      BY <1>9 DEF ChunkLen
    <2>2. CASE none
      <3>1. ~frame.clock => ChunkLen = 0 /\ frame.used = 0
        BY <1>3, <1>5, <2>2 DEF none
      <3> QED
        BY <1>2, <1>3, <1>7, <2>1, <2>2, <3>1 DEF FrameInv, InCycle
    <2>3. CASE ~none
      BY <1>2, <1>4, <1>6, <1>8, <1>9, <2>3 DEF FrameInv, InCycle
    <2> QED BY <2>2, <2>3
  <1>11. DataInv'
    <2>1. ChunksDone' = chunks - 0 /\ ChunksDone = chunks - 0
      BY <1>1, <1>2, <1>9 DEF ChunksDone, InCycle
    <2> QED BY <1>1, <1>9, <2>1 DEF CycleInv, DataInv, Inputs, Outputs
  <1>12. ReplyInv'
    <2>1. \A k \in 0..(frame'.size - 1) :
            frame'.data[k] = pdi'[total_bytes_sent' + k]
      <3>1. CASE none
        BY <1>3, <1>7, <3>1
      <3>2. CASE ~none
        <4>1. \A k \in 0..(size - 1) : k \in PdiIdx /\ k < size
          BY <1>4, <1>6, <3>2 DEF PdiIdx, CycleInv, TypeOK
        <4> QED BY <1>8, <1>9, <3>2, <4>1
      <3> QED BY <3>1, <3>2
    <2> QED BY <1>2, <2>1 DEF ReplyInv, InCycle
  <1>13. StatesInv'
    BY <1>1, <1>3, <1>9 DEF CycleInv, StatesInv
  <1>14. ClockInv'
    BY <1>1, <1>2, <1>9 DEF CycleInv, ClockInv, InCycle
  <1> QED BY <1>10, <1>11, <1>12, <1>13, <1>14 DEF CoreInv

\* What Append returns.
LEMMA AppendIs ==
  ASSUME NEW S, NEW s \in Seq(S), NEW e \in S
  PROVE  /\ Append(s, e) \in Seq(S) /\ Len(s) \in Nat
         /\ Len(Append(s, e)) = Len(s) + 1
         /\ \A i \in 1..Len(s) : Append(s, e)[i] = s[i]
         /\ Append(s, e)[Len(s) + 1] = e
  OBVIOUS

\* push_state_checks asks the next SubDevice.
LEMMA PushCheckCore ==
  ASSUME CycleInv, NEW t \in Tasks, PushCheck(t) PROVE CoreInv'
  <1> USE ConstFacts DEF groupVars, cycleVars, histVars
  <1>1. pc[t] = "checks" /\ pc[t] \in InCycle /\ pc' = pc
    BY DEF PushCheck, InCycle, taskVars
  <1>2. \A u \in Tasks : u # t => pc[u] \notin InCycle
    BY <1>1, AloneInCycle DEF CycleInv
  <1>3. /\ frame'.clock = frame.clock /\ frame'.size = frame.size
        /\ frame'.addr = frame.addr /\ frame'.data = frame.data
        /\ frame'.checks = Append(frame.checks, total_checks + 1)
        /\ total_checks' = total_checks + 1
    BY DEF PushCheck
  <1>4. UNCHANGED <<groupVars, pdi, kind, total_bytes_sent, time, time_read,
                    lrw_wkc_sum, subdevice_states, dev_out, histVars>>
    BY DEF PushCheck, segVars, taskVars
  <1>5. /\ frame.checks \in Seq(1..MAX_SUBDEVICES) /\ total_checks \in Nat
        /\ subdevice_states \in Seq(1..MAX_SUBDEVICES)
        /\ total_checks + 1 \in 1..MAX_SUBDEVICES
    BY DEF CycleInv, TypeOK, FrameType, PushCheck, MorePushed
  <1>6. /\ Len(frame'.checks) = Len(frame.checks) + 1
        /\ Len(frame.checks) \in Nat /\ Len(subdevice_states) \in Nat
        /\ \A i \in 1..Len(frame.checks) : frame'.checks[i] = frame.checks[i]
        /\ frame'.checks[Len(frame.checks) + 1] = total_checks + 1
    <2>1. /\ Len(Append(frame.checks, total_checks + 1))
              = Len(frame.checks) + 1
          /\ Len(frame.checks) \in Nat
          /\ \A i \in 1..Len(frame.checks) :
               Append(frame.checks, total_checks + 1)[i] = frame.checks[i]
          /\ Append(frame.checks, total_checks + 1)[Len(frame.checks) + 1]
              = total_checks + 1
      <3> DEFINE e == total_checks + 1
      <3>1. frame.checks \in Seq(1..MAX_SUBDEVICES) /\ e \in 1..MAX_SUBDEVICES
        BY <1>5
      <3> HIDE DEF e
      <3>2. /\ Len(Append(frame.checks, e)) = Len(frame.checks) + 1
            /\ Len(frame.checks) \in Nat
            /\ \A i \in 1..Len(frame.checks) :
                 Append(frame.checks, e)[i] = frame.checks[i]
            /\ Append(frame.checks, e)[Len(frame.checks) + 1] = e
        BY <3>1, AppendIs
      <3> QED BY <3>2 DEF e
    <2>2. Len(subdevice_states) \in Nat
      BY <1>5
    <2> QED BY <1>3, <2>1, <2>2, Zenon
  <1>7. FrameInv'
    <2>1. ChunkLen' = ChunkLen
      BY <1>4 DEF ChunkLen
    <2>2. frame'.checks # <<>>
      BY <1>6
    <2> QED
      BY <1>1, <1>2, <1>3, <1>4, <2>1, <2>2 DEF CycleInv, FrameInv, InCycle
  <1>8. DataInv'
    <2>1. ChunksDone' = chunks - 0 /\ ChunksDone = chunks - 0
      BY <1>1, <1>2, <1>4 DEF ChunksDone, InCycle
    <2> QED BY <1>1, <1>4, <2>1 DEF CycleInv, DataInv, Inputs, Outputs
  <1>9. ReplyInv'
    BY <1>1, <1>2, <1>3, <1>4 DEF CycleInv, ReplyInv, InCycle
  <1>10. StatesInv'
    <2>1. /\ total_checks = Len(subdevice_states) + Len(frame.checks)
          /\ \A i \in 1..Len(subdevice_states) : subdevice_states[i] = i
          /\ \A i \in 1..Len(frame.checks) :
               frame.checks[i] = Len(subdevice_states) + i
      BY <1>1 DEF CycleInv, StatesInv
    <2>2. total_checks' = Len(subdevice_states') + Len(frame'.checks)
      BY <1>3, <1>4, <1>6, <2>1
    <2>3. \A i \in 1..Len(frame'.checks) :
            frame'.checks[i] = Len(subdevice_states') + i
      <3> TAKE i \in 1..Len(frame'.checks)
      <3>1. i \in 1..Len(frame.checks) \/ i = Len(frame.checks) + 1
        BY <1>6, SMTT(40)
      <3>2. CASE i \in 1..Len(frame.checks)
        BY <1>4, <1>6, <2>1, <3>2
      <3>3. CASE i = Len(frame.checks) + 1
        BY <1>4, <1>6, <2>1, <3>3
      <3> QED BY <3>1, <3>2, <3>3
    <2> QED BY <1>4, <2>1, <2>2, <2>3 DEF StatesInv
  <1>11. ClockInv'
    BY <1>1, <1>2, <1>3, <1>4 DEF CycleInv, ClockInv, InCycle
  <1> QED BY <1>7, <1>8, <1>9, <1>10, <1>11 DEF CoreInv

\* mark_sendable counts the chunk and the clock as sent.
LEMMA SendFrameCore ==
  ASSUME CycleInv, NEW t \in Tasks, SendFrame(t) PROVE CoreInv'
  <1> USE DEF groupVars, cycleVars, histVars
  <1>1. /\ pc[t] = "checks" /\ pc[t] \in InCycle
        /\ pc' = [pc EXCEPT ![t] = "await"]
    BY DEF SendFrame, InCycle
  <1>2. /\ \A u \in Tasks : u # t => pc'[u] \notin InCycle
        /\ \A u \in Tasks : u # t => pc[u] \notin InCycle
        /\ pc'[t] = "await"
    BY <1>1, CycleMoves
  <1>3. UNCHANGED <<groupVars, pdi, kind, cycleVars, frame, dev_out, given>>
    BY DEF SendFrame, segVars
  <1>4. /\ chunks' = chunks + (IF frame.size > 0 THEN 1 ELSE 0)
        /\ clocks' = clocks + (IF frame.clock THEN 1 ELSE 0)
        /\ chunks \in Nat /\ clocks \in Nat
    BY DEF SendFrame, CycleInv, TypeOK
  <1>5. FrameInv'
    BY <1>1, <1>2, <1>3 DEF CycleInv, FrameInv, InCycle
  <1>6. DataInv'
    <2>1. ChunksDone = chunks - 0
      BY <1>1, <1>2 DEF ChunksDone, InCycle
    <2>2. ChunksDone' = chunks' - (IF frame.size > 0 THEN 1 ELSE 0)
      BY <1>2, <1>3 DEF ChunksDone, InCycle
    <2>3. ChunksDone' = ChunksDone
      BY <1>4, <2>1, <2>2
    <2> QED BY <1>1, <1>3, <2>3 DEF CycleInv, DataInv, Inputs, Outputs
  <1>7. ReplyInv'
    BY <1>1, <1>2, <1>3 DEF CycleInv, ReplyInv, InCycle
  <1>8. StatesInv'
    BY <1>1, <1>3 DEF CycleInv, StatesInv
  <1>9. ClockInv'
    BY <1>1, <1>2, <1>3, <1>4 DEF CycleInv, ClockInv, InCycle
  <1> QED BY <1>5, <1>6, <1>7, <1>8, <1>9 DEF CoreInv

\* The segment takes the outputs of the chunk and gives its inputs; what it
\* took and gave before stays.
LEMMA ExchangeCore ==
  ASSUME CycleInv, NEW t \in Tasks, NEW w \in {0, 1}, Exchange(t, w)
  PROVE  CoreInv'
  <1> USE ConstFacts DEF groupVars, cycleVars, histVars
  <1>1. /\ pc[t] = "await" /\ pc[t] \in InCycle
        /\ pc' = [pc EXCEPT ![t] = "replied"]
    BY DEF Exchange, InCycle
  <1>2. /\ \A u \in Tasks : u # t => pc'[u] \notin InCycle
        /\ \A u \in Tasks : u # t => pc[u] \notin InCycle
        /\ pc'[t] = "replied"
    BY <1>1, CycleMoves
  <1>3. UNCHANGED <<groupVars, pdi, kind, cycleVars, chunks, clocks>>
    BY DEF Exchange
  <1>4. /\ frame'.clock = frame.clock /\ frame'.addr = frame.addr
        /\ frame'.size = frame.size /\ frame'.checks = frame.checks
        /\ frame'.wkc = w
        /\ frame'.data = [k \in PdiIdx |->
                            IF w = 1 /\ k < frame.size
                               /\ frame.addr + k - PdiStart \in Inputs
                            THEN now ELSE frame.data[k]]
    BY DEF Exchange
  <1>5. /\ total_bytes_sent \in Nat /\ pdi_len \in Nat /\ pdi_len <= MAX_PDI
        /\ frame.size \in Nat /\ frame.addr \in Nat /\ now \in Nat
        /\ total_bytes_sent <= pdi_len
        /\ read_pdi_len \in Nat /\ read_pdi_len <= pdi_len
    BY DEF CycleInv, TypeOK, FrameType
  <1>6. frame.size > 0 => /\ frame.addr = PdiStart + total_bytes_sent
                          /\ total_bytes_sent + frame.size <= pdi_len
    BY <1>1 DEF CycleInv, FrameInv
  <1>7. FrameInv'
    BY <1>2, <1>3, <1>4, <1>6 DEF FrameInv, InCycle
  <1>8. DataInv'
    <2>1. ChunksDone' = ChunksDone
      BY <1>1, <1>2, <1>3, <1>4 DEF ChunksDone, InCycle
    <2>2. \A k \in 0..(total_bytes_sent - 1) :
            /\ k \in PdiIdx /\ PdiStart + k \in Addresses
            /\ ~(frame.addr <= PdiStart + k
                 /\ PdiStart + k < frame.addr + frame.size)
      BY <1>5, <1>6 DEF PdiIdx, Addresses
    <2>3. \A k \in 0..(total_bytes_sent - 1) :
            /\ given'[k] = given[k]
            /\ dev_out'[PdiStart + k] = dev_out[PdiStart + k]
      BY <2>2 DEF Exchange
    <2> QED
      BY <1>1, <1>3, <2>1, <2>3 DEF CycleInv, DataInv, Inputs, Outputs
  <1>9. ReplyInv'
    <2> SUFFICES ASSUME w = 1, NEW k \in 0..(frame.size - 1)
                 PROVE  LET b == total_bytes_sent + k IN
                        /\ b \in Inputs => /\ frame'.data[k] = given'[b]
                                           /\ given'[b] # NotGiven
                        /\ b \in Outputs => dev_out'[PdiStart + b] = pdi[b]
      BY <1>2, <1>3, <1>4 DEF ReplyInv, InCycle, Inputs, Outputs
    <2> DEFINE b == total_bytes_sent + k
    <2>1. /\ k \in PdiIdx /\ b \in PdiIdx /\ PdiStart + b \in Addresses
          /\ frame.addr <= PdiStart + b
          /\ PdiStart + b < frame.addr + frame.size
          /\ k < frame.size /\ frame.addr + k - PdiStart = b
          /\ PdiStart + b - PdiStart = b /\ PdiStart + b - frame.addr = k
      BY <1>5, <1>6 DEF PdiIdx, Addresses
    <2>2. frame.data[k] = pdi[b]
      BY <1>1 DEF CycleInv, ReplyInv
    <2>3. given'[b] = IF b \in Inputs THEN now ELSE given[b]
      BY <2>1 DEF Exchange
    <2>4. dev_out'[PdiStart + b] = IF b \in Outputs THEN frame.data[k]
                                   ELSE dev_out[PdiStart + b]
      <3> DEFINE a == PdiStart + b
      <3>1. \A x \in Addresses : dev_out'[x] =
              IF w = 1 /\ frame.addr <= x /\ x < frame.addr + frame.size
                 /\ x - PdiStart \in Outputs
              THEN frame.data[x - frame.addr] ELSE dev_out[x]
        BY DEF Exchange
      <3>2. /\ a \in Addresses /\ frame.addr <= a
            /\ a < frame.addr + frame.size
            /\ a - PdiStart = b /\ a - frame.addr = k
        BY <1>5, <1>6 DEF Addresses
      <3> HIDE DEF a
      <3>3. dev_out'[a] = IF a - PdiStart \in Outputs
                          THEN frame.data[a - frame.addr] ELSE dev_out[a]
        BY <3>1, <3>2, Zenon
      <3> HIDE DEF b
      <3>4. dev_out'[a] = IF b \in Outputs THEN frame.data[k] ELSE dev_out[a]
        BY <3>2, <3>3, Zenon
      <3> QED BY <3>4 DEF a
    <2>5. frame'.data[k] = IF b \in Inputs THEN now ELSE frame.data[k]
      BY <1>4, <2>1
    <2> QED BY <1>5, <2>2, <2>3, <2>4, <2>5 DEF NotGiven
  <1>10. StatesInv'
    BY <1>1, <1>3, <1>4 DEF CycleInv, StatesInv
  <1>11. ClockInv'
    BY <1>1, <1>2, <1>3, <1>4 DEF CycleInv, ClockInv, InCycle
  <1> QED BY <1>7, <1>8, <1>9, <1>10, <1>11 DEF CoreInv

\* What a reply copies into the PDI: the inputs of its chunk, and nothing else.
LEMMA ReplyCopies ==
  ASSUME CycleInv, NEW t \in Tasks, ProcessReply(t)
  PROVE  /\ \A k \in PdiIdx : k \notin Inputs => pdi'[k] = pdi[k]
         /\ \A k \in PdiIdx : k < total_bytes_sent => pdi'[k] = pdi[k]
         /\ \A k \in Inputs :
              total_bytes_sent <= k /\ k < total_bytes_sent + frame.size
              => pdi'[k] = frame.data[k - total_bytes_sent]
         /\ frame.size = 0 => pdi' = pdi
  <1>1. /\ total_bytes_sent \in Nat /\ frame.size \in Nat /\ MAX_PDI \in Nat
        /\ read_pdi_len \in Nat /\ read_pdi_len <= MAX_PDI
        /\ pdi \in [PdiIdx -> Values]
    BY ConstFacts DEF CycleInv, TypeOK, FrameType
  <1>2. ProcessReceivedPdiChunk
    BY DEF ProcessReply
  <1> DEFINE from == Smaller(total_bytes_sent, read_pdi_len)
             to   == Smaller(total_bytes_sent + frame.size, read_pdi_len)
  <1>3. pdi' = [k \in PdiIdx |-> IF from <= k /\ k < to
                                 THEN frame.data[k - from] ELSE pdi[k]]
    BY <1>2 DEF ProcessReceivedPdiChunk
  <1>4. /\ from \in Nat /\ to \in Nat /\ to <= read_pdi_len
        /\ frame.size = 0 => to = from
        /\ from = total_bytes_sent \/ from = read_pdi_len
        /\ read_pdi_len > total_bytes_sent => from = total_bytes_sent
        /\ \A k \in Inputs : k < total_bytes_sent + frame.size => k < to
    BY <1>1 DEF Smaller, Inputs
  <1> HIDE DEF from, to
  <1>5. \A k \in PdiIdx : k \notin Inputs => pdi'[k] = pdi[k]
    BY <1>1, <1>3, <1>4 DEF Inputs, PdiIdx
  <1>6. \A k \in PdiIdx : k < total_bytes_sent => pdi'[k] = pdi[k]
    BY <1>1, <1>3, <1>4 DEF PdiIdx
  <1>7. \A k \in Inputs :
          total_bytes_sent <= k /\ k < total_bytes_sent + frame.size
          => pdi'[k] = frame.data[k - total_bytes_sent]
    BY <1>1, <1>3, <1>4 DEF Inputs, PdiIdx
  <1>8. frame.size = 0 => pdi' = pdi
    BY <1>1, <1>3, <1>4 DEF PdiIdx
  <1> QED
    BY <1>5, <1>6, <1>7, <1>8

\* The states of a reply continue those of the replies before it.
LEMMA JoinedStates ==
  ASSUME NEW S, NEW s \in Seq(S), NEW c \in Seq(S),
         \A i \in 1..Len(s) : s[i] = i,
         \A i \in 1..Len(c) : c[i] = Len(s) + i
  PROVE  /\ Len(s \o c) = Len(s) + Len(c)
         /\ \A i \in 1..(Len(s) + Len(c)) : (s \o c)[i] = i
  <1>1. /\ Len(s \o c) = Len(s) + Len(c) /\ Len(s) \in Nat /\ Len(c) \in Nat
        /\ \A i \in 1..(Len(s) + Len(c)) :
             (s \o c)[i] = IF i <= Len(s) THEN s[i] ELSE c[i - Len(s)]
    OBVIOUS
  <1> SUFFICES ASSUME NEW i \in 1..(Len(s) + Len(c)) PROVE (s \o c)[i] = i
    BY <1>1
  <1>2. CASE i <= Len(s)
    BY <1>1, <1>2
  <1>3. CASE ~(i <= Len(s))
    <2>1. i - Len(s) \in 1..Len(c) /\ Len(s) + (i - Len(s)) = i
      BY <1>1, <1>3
    <2> QED BY <1>1, <1>3, <2>1
  <1> QED BY <1>2, <1>3

\* The reply of a frame brings its chunk to an end: the bytes done grow by
\* what the working counter vouches for.
LEMMA ProcessReplyCore ==
  ASSUME CycleInv, NEW t \in Tasks, ProcessReply(t) PROVE CoreInv'
  <1> USE ConstFacts DEF groupVars, cycleVars, histVars
  <1>1. pc[t] = "replied" /\ pc[t] \in InCycle
    BY DEF ProcessReply, InCycle
  <1>2. CASE pc' = [pc EXCEPT ![t] = "idle"]
    BY <1>1, <1>2, CycleMoves, CycleOver DEF InCycle
  <1>3. CASE pc' # [pc EXCEPT ![t] = "idle"]
    <2>1. /\ total_bytes_sent' = total_bytes_sent + frame.size
          /\ lrw_wkc_sum' = lrw_wkc_sum
                            + (IF frame.size > 0 THEN frame.wkc ELSE 0)
          /\ subdevice_states' = subdevice_states \o frame.checks
          /\ time_read' = (time_read \/ frame.clock)
          /\ pc' = [pc EXCEPT ![t] = "loop"]
          /\ frame' = EmptyFrame
          /\ UNCHANGED <<kind, total_checks, histVars, groupVars, dev_out>>
      BY <1>3 DEF ProcessReply, Return, segVars
    <2>2. /\ \A u \in Tasks : u # t => pc'[u] \notin InCycle
          /\ \A u \in Tasks : u # t => pc[u] \notin InCycle
          /\ pc'[t] = "loop"
      BY <1>1, <2>1, CycleMoves
    <2>3. /\ frame'.size = 0 /\ frame'.checks = <<>> /\ ~frame'.clock
      BY <2>1 DEF EmptyFrame, NewFrame
    <2>4. /\ total_bytes_sent \in Nat /\ frame.size \in Nat
          /\ pdi_len \in Nat /\ pdi_len <= MAX_PDI
          /\ read_pdi_len \in Nat /\ read_pdi_len <= pdi_len
          /\ lrw_wkc_sum \in Nat /\ frame.wkc \in {0, 1} /\ chunks \in Nat
          /\ total_bytes_sent <= pdi_len
      BY DEF CycleInv, TypeOK, FrameType
    <2>5. total_bytes_sent + frame.size <= pdi_len
      BY <1>1, <2>4 DEF CycleInv, FrameInv
    <2>6. FrameInv'
      BY <2>2, <2>3 DEF FrameInv, InCycle
    <2>7. DataInv'
      <3>1. ChunksDone = chunks - (IF frame.size > 0 THEN 1 ELSE 0)
        BY <1>1, <2>2 DEF ChunksDone, InCycle
      <3>2. ChunksDone' = chunks - 0
        BY <2>1, <2>2 DEF ChunksDone, InCycle
      <3>3. /\ lrw_wkc_sum <= ChunksDone
            /\ lrw_wkc_sum = ChunksDone =>
                 \A k \in 0..(total_bytes_sent - 1) :
                   /\ k \in Inputs => pdi[k] = given[k] /\ given[k] # NotGiven
                   /\ k \in Outputs => dev_out[PdiStart + k] = pdi[k]
        BY <1>1 DEF CycleInv, DataInv
      <3>4. lrw_wkc_sum' <= ChunksDone'
        <4>1. lrw_wkc_sum <= chunks - (IF frame.size > 0 THEN 1 ELSE 0)
          BY <3>1, <3>3
        <4> QED BY <2>1, <2>4, <3>2, <4>1
      <3>5. ASSUME lrw_wkc_sum' = ChunksDone',
                   NEW k \in 0..(total_bytes_sent' - 1)
            PROVE  /\ k \in Inputs => pdi'[k] = given[k] /\ given[k] # NotGiven
                   /\ k \in Outputs => dev_out[PdiStart + k] = pdi'[k]
        <4>1. /\ lrw_wkc_sum = ChunksDone
              /\ frame.size > 0 => frame.wkc = 1
          <5>1. lrw_wkc_sum <= chunks - (IF frame.size > 0 THEN 1 ELSE 0)
            BY <3>1, <3>3
          <5>2. lrw_wkc_sum + (IF frame.size > 0 THEN frame.wkc ELSE 0)
                  = chunks
            BY <2>1, <2>4, <3>2, <3>5
          <5> QED BY <2>4, <3>1, <5>1, <5>2
        <4>2. k \in PdiIdx
          BY <2>1, <2>4, <2>5 DEF PdiIdx
        <4>3. k \in Outputs => k \notin Inputs
          BY <2>4 DEF Inputs, Outputs
        <4>4. CASE k < total_bytes_sent
          <5>1. k \in 0..(total_bytes_sent - 1)
            BY <2>1, <2>4, <4>4
          <5> QED BY <3>3, <4>1, <4>2, <4>4, <5>1, ReplyCopies
        <4>5. CASE ~(k < total_bytes_sent)
          <5> DEFINE j == k - total_bytes_sent
          <5>1. /\ j \in 0..(frame.size - 1) /\ total_bytes_sent + j = k
                /\ frame.size > 0 /\ total_bytes_sent <= k
                /\ k < total_bytes_sent + frame.size
            BY <2>1, <2>4, <4>5
          <5>2. \A i \in 0..(frame.size - 1) :
                  /\ total_bytes_sent + i \in Inputs =>
                       /\ frame.data[i] = given[total_bytes_sent + i]
                       /\ given[total_bytes_sent + i] # NotGiven
                  /\ total_bytes_sent + i \in Outputs =>
                       dev_out[PdiStart + (total_bytes_sent + i)]
                         = pdi[total_bytes_sent + i]
            BY <1>1, <4>1, <5>1, Zenon DEF CycleInv, ReplyInv
          <5>3. k \in Inputs => pdi'[k] = frame.data[j]
            BY <5>1, ReplyCopies
          <5>4. k \in Outputs => pdi'[k] = pdi[k]
            BY <4>2, <4>3, ReplyCopies
          <5> HIDE DEF j
          <5>5. /\ k \in Inputs =>
                     frame.data[j] = given[k] /\ given[k] # NotGiven
                /\ k \in Outputs => dev_out[PdiStart + k] = pdi[k]
            BY <5>1, <5>2
          <5> QED BY <5>3, <5>4, <5>5
        <4> QED BY <4>4, <4>5
      <3> QED BY <2>1, <3>4, <3>5 DEF DataInv, Inputs, Outputs
    <2>8. ReplyInv'
      BY <2>2 DEF ReplyInv, InCycle
    <2>9. StatesInv'
      <3>1. /\ total_checks = Len(subdevice_states) + Len(frame.checks)
            /\ \A i \in 1..Len(subdevice_states) : subdevice_states[i] = i
            /\ \A i \in 1..Len(frame.checks) :
                 frame.checks[i] = Len(subdevice_states) + i
        BY <1>1 DEF CycleInv, StatesInv
      <3>2. /\ subdevice_states \in Seq(1..MAX_SUBDEVICES)
            /\ frame.checks \in Seq(1..MAX_SUBDEVICES)
        BY DEF CycleInv, TypeOK, FrameType
      <3>3. /\ Len(subdevice_states') = total_checks
            /\ \A i \in 1..total_checks : subdevice_states'[i] = i
        <4> DEFINE s == subdevice_states
                   c == frame.checks
        <4>1. subdevice_states' = s \o c
          BY <2>1
        <4>2. /\ s \in Seq(1..MAX_SUBDEVICES) /\ c \in Seq(1..MAX_SUBDEVICES)
              /\ total_checks = Len(s) + Len(c)
              /\ \A i \in 1..Len(s) : s[i] = i
              /\ \A i \in 1..Len(c) : c[i] = Len(s) + i
          BY <3>1, <3>2
        <4> HIDE DEF s, c
        <4>3. /\ Len(s \o c) = Len(s) + Len(c)
              /\ \A i \in 1..(Len(s) + Len(c)) : (s \o c)[i] = i
          BY <4>2, JoinedStates, ZenonT(60)
        <4> QED BY <4>1, <4>2, <4>3, SMTT(40)
      <3> QED BY <2>1, <2>3, <3>3, SMTT(60) DEF StatesInv
    <2>10. ClockInv'
      BY <1>1, <2>1, <2>2, <2>3 DEF CycleInv, ClockInv, InCycle
    <2> QED BY <2>6, <2>7, <2>8, <2>9, <2>10 DEF CoreInv
  <1> QED BY <1>2, <1>3

\* Every step keeps the outputs whole: only a write guard touches them.
LEMMA WriteStep == CycleInv /\ [Next]_vars => WriteInv'
  <1> SUFFICES ASSUME CycleInv, [Next]_vars PROVE WriteInv'
    OBVIOUS
  <1> USE ConstFacts
      DEF CycleInv, TypeOK, WriteInv, groupVars, lockVars, taskVars,
          cycleVars, segVars, histVars, writeVars
  <1>1. ASSUME NEW t \in Tasks, NEW k \in Kinds, StartCycle(t, k)
        PROVE WriteInv'
    BY <1>1 DEF StartCycle, Outputs
  <1>2. ASSUME NEW t \in Tasks, LockWrite(t) PROVE WriteInv'
    BY <1>2 DEF LockWrite, Outputs
  <1>3. ASSUME NEW t \in Tasks, LockRead(t) PROVE WriteInv'
    BY <1>3 DEF LockRead, Outputs
  <1>4. ASSUME NEW t \in Tasks, LockCycle(t) PROVE WriteInv'
    BY <1>4 DEF LockCycle, Outputs
  <1>5. ASSUME NEW t \in Tasks, TopExit(t) PROVE WriteInv'
    BY <1>5 DEF TopExit, Return, Outputs
  <1>6. ASSUME NEW t \in Tasks, AllocFrame(t) PROVE WriteInv'
    BY <1>6 DEF AllocFrame, Outputs
  <1>7. ASSUME NEW t \in Tasks, AllocFails(t) PROVE WriteInv'
    BY <1>7 DEF AllocFails, Return, Outputs
  <1>8. ASSUME NEW t \in Tasks, PushChunk(t) PROVE WriteInv'
    BY <1>8 DEF PushChunk, Outputs
  <1>9. ASSUME NEW t \in Tasks, PushCheck(t) PROVE WriteInv'
    BY <1>9 DEF PushCheck, Outputs
  <1>10. ASSUME NEW t \in Tasks, EmptyExit(t) PROVE WriteInv'
    BY <1>10 DEF EmptyExit, Return, Outputs
  <1>11. ASSUME NEW t \in Tasks, SendFrame(t) PROVE WriteInv'
    BY <1>11 DEF SendFrame, Outputs
  <1>12. ASSUME NEW t \in Tasks, NEW w \in {0, 1}, Exchange(t, w)
        PROVE WriteInv'
    BY <1>12 DEF Exchange, Outputs
  <1>13. ASSUME NEW t \in Tasks, Timeout(t) PROVE WriteInv'
    BY <1>13 DEF Timeout, Return, Outputs
  <1>14. ASSUME NEW t \in Tasks, ProcessReply(t) PROVE WriteInv'
    <2>1. \A u \in Tasks : pc[u] # "write"
      BY <1>14, AloneInCycle DEF ProcessReply, InCycle
    <2>2. \A k \in Outputs : k \in PdiIdx /\ k \notin Inputs
      BY DEF Outputs, Inputs, PdiIdx
    <2>3. /\ \A k \in Outputs : pdi'[k] = pdi[k]
          /\ Outputs' = Outputs /\ written' = written
      BY <1>14, <2>2, ReplyCopies DEF ProcessReply, Outputs
    <2> QED BY <2>1, <2>3
  <1>15. ASSUME NEW t \in Tasks, NEW k \in PdiIdx, WriteOutput(t, k)
        PROVE WriteInv'
    BY <1>15 DEF WriteOutput, Outputs
  <1>16. ASSUME NEW t \in Tasks, UnlockWrite(t) PROVE WriteInv'
    BY <1>16 DEF UnlockWrite, Outputs
  <1>17. ASSUME NEW t \in Tasks, UnlockRead(t) PROVE WriteInv'
    BY <1>17 DEF UnlockRead, Outputs
  <1>18. CASE Tick
    BY <1>18 DEF Tick, Outputs
  <1>19. CASE UNCHANGED vars
    BY <1>19 DEF vars, Outputs
  <1> QED
    BY <1>1, <1>2, <1>3, <1>4, <1>5, <1>6, <1>7, <1>8, <1>9, <1>10, <1>11,
       <1>12, <1>13, <1>14, <1>15, <1>16, <1>17, <1>18, <1>19
    DEF Next, CycleStep, GuardStep

\* Every step keeps what is said of the cycle under way.
LEMMA CoreStep == CycleInv /\ [Next]_vars => CoreInv'
  <1> SUFFICES ASSUME CycleInv, [Next]_vars PROVE CoreInv'
    OBVIOUS
  <1>1. ASSUME NEW t \in Tasks, NEW k \in Kinds, StartCycle(t, k)
        PROVE CoreInv'
    BY <1>1, OutsideStep
    DEF StartCycle, CycleInv, CoreInv, TypeOK, InCycle, segVars
  <1>2. ASSUME NEW t \in Tasks, LockWrite(t) PROVE CoreInv'
    BY <1>2, OutsideStep
    DEF LockWrite, CycleInv, CoreInv, TypeOK, InCycle, segVars
  <1>3. ASSUME NEW t \in Tasks, LockRead(t) PROVE CoreInv'
    BY <1>3, OutsideStep
    DEF LockRead, CycleInv, CoreInv, TypeOK, InCycle, segVars
  <1>4. ASSUME NEW t \in Tasks, LockCycle(t) PROVE CoreInv'
    BY <1>4, CycleStarts
  <1>5. ASSUME NEW t \in Tasks, TopExit(t) PROVE CoreInv'
    <2>1. pc[t] \in InCycle /\ pc' = [pc EXCEPT ![t] = "idle"]
      BY <1>5 DEF TopExit, Return, InCycle
    <2> QED BY <2>1, CycleMoves, CycleOver DEF InCycle
  <1>6. ASSUME NEW t \in Tasks, AllocFrame(t) PROVE CoreInv'
    BY <1>6, AllocFrameCore
  <1>7. ASSUME NEW t \in Tasks, AllocFails(t) PROVE CoreInv'
    <2>1. pc[t] \in InCycle /\ pc' = [pc EXCEPT ![t] = "idle"]
      BY <1>7 DEF AllocFails, Return, InCycle
    <2> QED BY <2>1, CycleMoves, CycleOver DEF InCycle
  <1>8. ASSUME NEW t \in Tasks, PushChunk(t) PROVE CoreInv'
    BY <1>8, PushChunkCore
  <1>9. ASSUME NEW t \in Tasks, PushCheck(t) PROVE CoreInv'
    BY <1>9, PushCheckCore
  <1>10. ASSUME NEW t \in Tasks, EmptyExit(t) PROVE CoreInv'
    <2>1. pc[t] \in InCycle /\ pc' = [pc EXCEPT ![t] = "idle"]
      BY <1>10 DEF EmptyExit, Return, InCycle
    <2> QED BY <2>1, CycleMoves, CycleOver DEF InCycle
  <1>11. ASSUME NEW t \in Tasks, SendFrame(t) PROVE CoreInv'
    BY <1>11, SendFrameCore
  <1>12. ASSUME NEW t \in Tasks, NEW w \in {0, 1}, Exchange(t, w)
        PROVE CoreInv'
    BY <1>12, ExchangeCore
  <1>13. ASSUME NEW t \in Tasks, Timeout(t) PROVE CoreInv'
    <2>1. pc[t] \in InCycle /\ pc' = [pc EXCEPT ![t] = "idle"]
      BY <1>13 DEF Timeout, Return, InCycle
    <2> QED BY <2>1, CycleMoves, CycleOver DEF InCycle
  <1>14. ASSUME NEW t \in Tasks, ProcessReply(t) PROVE CoreInv'
    BY <1>14, ProcessReplyCore
  <1>15. ASSUME NEW t \in Tasks, NEW k \in PdiIdx, WriteOutput(t, k)
        PROVE CoreInv'
    <2>1. \A u \in Tasks : pc'[u] \notin InCycle
      BY <1>15, HolderAlone, TasksAssumption
      DEF WriteOutput, CycleInv, taskVars, InCycle
    <2> QED BY <2>1, CycleOver
  <1>16. ASSUME NEW t \in Tasks, UnlockWrite(t) PROVE CoreInv'
    BY <1>16, OutsideStep
    DEF UnlockWrite, CycleInv, CoreInv, TypeOK, InCycle, segVars
  <1>17. ASSUME NEW t \in Tasks, UnlockRead(t) PROVE CoreInv'
    BY <1>17, OutsideStep
    DEF UnlockRead, CycleInv, CoreInv, TypeOK, InCycle, segVars
  <1>18. CASE Tick
    BY <1>18, OutsideStep
    DEF Tick, CycleInv, CoreInv, taskVars
  <1>19. CASE UNCHANGED vars
    BY <1>19, OutsideStep
    DEF vars, CycleInv, CoreInv, groupVars, taskVars, cycleVars, segVars,
        histVars
  <1> QED
    BY <1>1, <1>2, <1>3, <1>4, <1>5, <1>6, <1>7, <1>8, <1>9, <1>10, <1>11,
       <1>12, <1>13, <1>14, <1>15, <1>16, <1>17, <1>18, <1>19
    DEF Next, CycleStep, GuardStep

\* The invariant holds at first.
LEMMA InvInit == Init => CycleInv
  <1> SUFFICES ASSUME Init PROVE CycleInv
    OBVIOUS
  <1>1. \A t \in Tasks : pc[t] = "idle"
    BY DEF Init
  <1>2. TypeOK
    BY TypeInit
  <1>3. LockInv
    BY <1>1, TasksAssumption DEF Init, LockInv, InCycle
  <1>4. WriteInv
    BY ConstFacts DEF Init, WriteInv, Outputs, PdiIdx
  <1>5. LocalsInv
    BY DEF Init, LocalsInv
  <1>6. FrameInv /\ DataInv /\ ReplyInv /\ StatesInv /\ ClockInv
    BY <1>1 DEF FrameInv, DataInv, ReplyInv, StatesInv, ClockInv, InCycle
  <1> QED BY <1>2, <1>3, <1>4, <1>5, <1>6 DEF CycleInv

\* Every step keeps the invariant.
LEMMA InvStep == CycleInv /\ [Next]_vars => CycleInv'
  BY TypeStep, LockStep, WriteStep, LocalsStep, CoreStep
  DEF CycleInv, CoreInv

\* The lock of the PDI, the frames of a cycle, the bytes exchanged, the states
\* asked for and the clock stay in step with each other, for every size of the
\* PDI and of the frames, whatever the other threads and the network do.
THEOREM CycleInvariant == Spec => []CycleInv
  <1>1. Init => CycleInv
    BY InvInit
  <1>2. CycleInv /\ [Next]_vars => CycleInv'
    BY InvStep
  <1> QED BY <1>1, <1>2, PTL DEF Spec

\* A cycle succeeds at the top of tx_rx's loop, with an empty frame, or after
\* the reply of a frame of the DC variants.
LEMMA SuccessSteps ==
  ASSUME CycleInv, [Next]_vars, NEW t \in Tasks, Succeeds(t)
  PROVE  \/ TopExit(t)
         \/ EmptyExit(t)
         \/ /\ ProcessReply(t) /\ kind[t] # "tx_rx" /\ AllDone
            /\ Return(t, Response("ok",
                   lrw_wkc_sum + (IF frame.size > 0 THEN frame.wkc ELSE 0),
                   subdevice_states \o frame.checks))
  <1> DEFINE Goal ==
        \/ TopExit(t)
        \/ EmptyExit(t)
        \/ /\ ProcessReply(t) /\ kind[t] # "tx_rx" /\ AllDone
           /\ Return(t, Response("ok",
                  lrw_wkc_sum + (IF frame.size > 0 THEN frame.wkc ELSE 0),
                  subdevice_states \o frame.checks))
  <1> USE DEF Succeeds, InCycle, CycleInv, TypeOK
  <1>1. ASSUME NEW u \in Tasks, NEW k \in Kinds, StartCycle(u, k) PROVE Goal
    BY <1>1 DEF StartCycle
  <1>2. ASSUME NEW u \in Tasks, LockWrite(u) PROVE Goal
    BY <1>2 DEF LockWrite
  <1>3. ASSUME NEW u \in Tasks, LockRead(u) PROVE Goal
    BY <1>3 DEF LockRead
  <1>4. ASSUME NEW u \in Tasks, LockCycle(u) PROVE Goal
    BY <1>4 DEF LockCycle
  <1>5. ASSUME NEW u \in Tasks, TopExit(u) PROVE Goal
    BY <1>5 DEF TopExit, Return
  <1>6. ASSUME NEW u \in Tasks, AllocFrame(u) PROVE Goal
    BY <1>6 DEF AllocFrame
  <1>7. ASSUME NEW u \in Tasks, AllocFails(u) PROVE Goal
    BY <1>7 DEF AllocFails, Return, Failed, Response
  <1>8. ASSUME NEW u \in Tasks, PushChunk(u) PROVE Goal
    BY <1>8 DEF PushChunk
  <1>9. ASSUME NEW u \in Tasks, PushCheck(u) PROVE Goal
    BY <1>9 DEF PushCheck, taskVars
  <1>10. ASSUME NEW u \in Tasks, EmptyExit(u) PROVE Goal
    BY <1>10 DEF EmptyExit, Return
  <1>11. ASSUME NEW u \in Tasks, SendFrame(u) PROVE Goal
    BY <1>11 DEF SendFrame
  <1>12. ASSUME NEW u \in Tasks, NEW w \in {0, 1}, Exchange(u, w) PROVE Goal
    BY <1>12 DEF Exchange
  <1>13. ASSUME NEW u \in Tasks, Timeout(u) PROVE Goal
    BY <1>13 DEF Timeout, Return, Failed, Response
  <1>14. ASSUME NEW u \in Tasks, ProcessReply(u) PROVE Goal
    <2>1. u = t
      BY <1>14, ReplyMoves
    <2> QED BY <1>14, <2>1 DEF ProcessReply
  <1>15. ASSUME NEW u \in Tasks, NEW k \in PdiIdx, WriteOutput(u, k) PROVE Goal
    BY <1>15 DEF WriteOutput, taskVars
  <1>16. ASSUME NEW u \in Tasks, UnlockWrite(u) PROVE Goal
    BY <1>16 DEF UnlockWrite
  <1>17. ASSUME NEW u \in Tasks, UnlockRead(u) PROVE Goal
    BY <1>17 DEF UnlockRead
  <1>18. CASE Tick
    BY <1>18 DEF Tick, taskVars
  <1>19. CASE UNCHANGED vars
    BY <1>19 DEF vars, taskVars
  <1> HIDE DEF Goal
  <1>20. Goal
    BY <1>1, <1>2, <1>3, <1>4, <1>5, <1>6, <1>7, <1>8, <1>9, <1>10, <1>11,
       <1>12, <1>13, <1>14, <1>15, <1>16, <1>17, <1>18, <1>19
    DEF Next, CycleStep, GuardStep
  <1> QED BY <1>20 DEF Goal

\* When a cycle succeeds the whole PDI has been sent, every SubDevice asked,
\* and the last frame brought no chunk.
LEMMA SuccessFacts ==
  ASSUME CycleInv, [Next]_vars, NEW t \in Tasks, Succeeds(t)
  PROVE  /\ pc[t] \in InCycle
         /\ total_bytes_sent = pdi_len /\ total_checks = len
         /\ pdi' = pdi
         /\ result'.working_counter = lrw_wkc_sum
         /\ ChunksDone = chunks
         /\ result'.subdevice_states = subdevice_states \o frame.checks
         /\ clocks = (IF kind[t] = "tx_rx" THEN 0 ELSE 1)
  <1> USE ConstFacts
  <1>1. pc[t] \in InCycle
    BY DEF Succeeds
  <1>2. \A u \in Tasks : u # t => pc[u] \notin InCycle
    BY <1>1, AloneInCycle DEF CycleInv
  <1>3. /\ total_bytes_sent \in Nat /\ pdi_len \in Nat /\ len \in Nat
        /\ total_bytes_sent <= pdi_len /\ total_checks \in Nat
        /\ total_checks <= len /\ lrw_wkc_sum \in Nat /\ chunks \in Nat
        /\ frame.size \in Nat /\ frame.wkc \in {0, 1}
        /\ subdevice_states \in Seq(1..MAX_SUBDEVICES)
    BY DEF CycleInv, TypeOK, FrameType
  <1>4. ChunkLen = 0 => total_bytes_sent = pdi_len
    BY <1>3 DEF ChunkLen, SaturatingSub
  <1>5. subdevice_states \o <<>> = subdevice_states
    BY <1>3
  <1>6. CASE TopExit(t)
    <2>1. /\ pc[t] = "loop" /\ kind[t] = "tx_rx" /\ AllDone /\ pdi' = pdi
          /\ result' = Response("ok", lrw_wkc_sum, subdevice_states)
      BY <1>6 DEF TopExit, Return
    <2>2. frame.checks = <<>> /\ frame.size = 0
      BY <2>1 DEF CycleInv, FrameInv
    <2>3. ChunksDone = chunks
      BY <1>2, <1>3, <2>1, SMTT(40) DEF ChunksDone, InCycle
    <2>4. clocks = 0
      BY <1>1, <2>1 DEF CycleInv, ClockInv
    <2> QED
      BY <1>1, <1>3, <1>4, <1>5, <2>1, <2>2, <2>3, <2>4 DEF AllDone, Response
  <1>7. CASE EmptyExit(t)
    <2>1. /\ pc[t] = "checks" /\ ~MorePushed /\ FrameIsEmpty /\ pdi' = pdi
          /\ result' = Response("ok", lrw_wkc_sum, subdevice_states)
      BY <1>7 DEF EmptyExit, Return
    <2>2. frame.checks = <<>> /\ frame.size = 0 /\ ~frame.clock
      BY <2>1 DEF FrameIsEmpty
    <2>3. ChunkLen = 0 /\ frame.used = 0
      BY <2>1, <2>2 DEF CycleInv, FrameInv
    <2>4. total_checks >= len
      <3>1. Len(frame.checks) = 0
        BY <2>2
      <3>2. 0 + StatusLen + Overhead <= FrameLen
        OBVIOUS
      <3> QED BY <1>3, <2>1, <2>3, <3>1, <3>2 DEF MorePushed
    <2>5. ChunksDone = chunks
      BY <1>2, <1>3, <2>1 DEF ChunksDone, InCycle
    <2>6. clocks = (IF kind[t] = "tx_rx" THEN 0 ELSE 1)
      BY <1>1, <2>1, <2>2 DEF CycleInv, ClockInv
    <2> QED
      BY <1>1, <1>3, <1>4, <1>5, <2>1, <2>2, <2>3, <2>4, <2>5, <2>6
      DEF Response
  <1>8. CASE /\ ProcessReply(t) /\ kind[t] # "tx_rx" /\ AllDone
             /\ Return(t, Response("ok",
                    lrw_wkc_sum + (IF frame.size > 0 THEN frame.wkc ELSE 0),
                    subdevice_states \o frame.checks))
    <2>1. /\ pc[t] = "replied" /\ ChunkLen = 0 /\ total_checks >= len
          /\ result'.working_counter = lrw_wkc_sum
                + (IF frame.size > 0 THEN frame.wkc ELSE 0)
          /\ result'.subdevice_states = subdevice_states \o frame.checks
      BY <1>8 DEF ProcessReply, AllDone, Return, Response
    <2>2. frame.size = 0
      BY <1>1, <1>3, <1>4, <2>1 DEF CycleInv, FrameInv
    <2>3. pdi' = pdi
      BY <1>8, <2>2, ReplyCopies
    <2>4. ChunksDone = chunks
      BY <1>2, <1>3, <2>1, <2>2 DEF ChunksDone, InCycle
    <2>5. clocks = 1
      BY <1>1, <1>8, <2>1 DEF CycleInv, ClockInv
    <2> QED
      BY <1>1, <1>3, <1>4, <1>8, <2>1, <2>2, <2>3, <2>4, <2>5
  <1> QED BY <1>6, <1>7, <1>8, SuccessSteps

\* On success with the full working counter every byte has been exchanged.
LEMMA AllExchanged ==
  ASSUME CycleInv, [Next]_vars, NEW t \in Tasks, Succeeds(t), FullWkc
  PROVE  /\ pdi' = pdi
         /\ \A k \in Inputs : pdi[k] = given[k] /\ given[k] # NotGiven
         /\ \A k \in Outputs : dev_out[PdiStart + k] = pdi[k]
  <1>1. /\ pc[t] \in InCycle /\ total_bytes_sent = pdi_len /\ pdi' = pdi
        /\ lrw_wkc_sum = ChunksDone
    BY SuccessFacts DEF FullWkc
  <1>2. /\ \A k \in Inputs : k \in 0..(total_bytes_sent - 1)
        /\ \A k \in Outputs : k \in 0..(total_bytes_sent - 1)
    BY <1>1, ConstFacts DEF CycleInv, TypeOK, Inputs, Outputs
  <1> QED BY <1>1, <1>2 DEF CycleInv, DataInv

\* ... the inputs,
LEMMA InputsStep == CycleInv /\ [Next]_vars => InputsArrived
  BY AllExchanged DEF InputsArrived

\* ... and the outputs, which are as the last write guard left them.
LEMMA OutputsStep == CycleInv /\ [Next]_vars => OutputsArrived
  <1> SUFFICES ASSUME CycleInv, [Next]_vars, NEW t \in Tasks, Succeeds(t),
                      FullWkc
               PROVE  \A k \in Outputs : dev_out[PdiStart + k] = written[k]
    BY DEF OutputsArrived
  <1>1. \A u \in Tasks : pc[u] # "write"
    BY SuccessFacts, AloneInCycle DEF CycleInv, InCycle
  <1>2. \A k \in Outputs : pdi[k] = written[k]
    BY <1>1 DEF CycleInv, WriteInv
  <1> QED BY <1>2, AllExchanged

\* Outputs change in no step but that of a write guard, which holds the lock.
LEMMA KeptStep == CycleInv /\ [Next]_vars => OutputsByGuard
  <1> SUFFICES ASSUME CycleInv, [Next]_vars, NEW k \in PdiIdx \ Inputs,
                      pdi'[k] # pdi[k]
               PROVE  \E t \in Tasks : pc[t] = "write" /\ writer = t
    BY DEF OutputsByGuard
  <1>1. \A t \in Tasks : ~ProcessReply(t)
    BY ReplyCopies
  <1>2. PICK t \in Tasks : \E j \in PdiIdx : WriteOutput(t, j)
    BY <1>1
    DEF Next, CycleStep, GuardStep, StartCycle, LockWrite, LockRead,
        LockCycle, TopExit, AllocFrame, AllocFails, PushChunk, PushCheck,
        EmptyExit, SendFrame, Exchange, Timeout, UnlockWrite, UnlockRead,
        Tick, vars
  <1> QED BY <1>2 DEF WriteOutput, CycleInv, LockInv, InCycle

\* The states of a cycle that succeeds are those of all SubDevices in order.
LEMMA StatesStep == CycleInv /\ [Next]_vars => StatesReturned
  <1> SUFFICES ASSUME CycleInv, [Next]_vars, NEW t \in Tasks, Succeeds(t)
               PROVE  result'.subdevice_states = [i \in 1..len |-> i]
    BY DEF StatesReturned
  <1>1. /\ total_checks = len
        /\ result'.subdevice_states = subdevice_states \o frame.checks
        /\ pc[t] \in InCycle
    BY SuccessFacts
  <1>2. /\ total_checks = Len(subdevice_states) + Len(frame.checks)
        /\ \A i \in 1..Len(subdevice_states) : subdevice_states[i] = i
        /\ \A i \in 1..Len(frame.checks) :
             frame.checks[i] = Len(subdevice_states) + i
    BY <1>1 DEF CycleInv, StatesInv
  <1>3. /\ subdevice_states \in Seq(1..MAX_SUBDEVICES)
        /\ frame.checks \in Seq(1..MAX_SUBDEVICES)
        /\ len \in Nat
    BY ConstFacts DEF CycleInv, TypeOK, FrameType
  <1> DEFINE joined == subdevice_states \o frame.checks
  <1>4. /\ Len(joined) = len
        /\ \A i \in 1..len : joined[i] = i
    BY <1>1, <1>2, <1>3, JoinedStates
  <1>5. joined \in Seq(1..MAX_SUBDEVICES)
    BY <1>3
  <1> HIDE DEF joined
  <1>6. joined = [i \in 1..len |-> i]
    BY <1>3, <1>4, <1>5
  <1> QED BY <1>1, <1>6 DEF joined

\* The clock is sent once in a cycle of the DC variants that succeeds.
LEMMA ClockStep == CycleInv /\ [Next]_vars => ClockDistributed
  BY SuccessFacts DEF ClockDistributed

\* tx_rx and its variants deliver the inputs of this very cycle, however the
\* PDI is cut into frames: process_received_pdi_chunk puts each byte in place.
THEOREM InputsAreFresh == Spec => InputsDelivered
  <1>1. CycleInv /\ [Next]_vars => InputsArrived
    BY InputsStep
  <1>2. CycleInv /\ [Next]_vars => [InputsArrived]_vars
    BY <1>1
  <1> QED BY <1>2, CycleInvariant, PTL DEF Spec, InputsDelivered

\* The SubDevices get the outputs as the last write guard left them, since the
\* write lock of the PDI is held over all frames of a cycle.
THEOREM OutputsAreWhole == Spec => OutputsDelivered
  <1>1. CycleInv /\ [Next]_vars => OutputsArrived
    BY OutputsStep
  <1>2. CycleInv /\ [Next]_vars => [OutputsArrived]_vars
    BY <1>1
  <1> QED BY <1>2, CycleInvariant, PTL DEF Spec, OutputsDelivered

\* No reply overwrites outputs: the range that process_received_pdi_chunk
\* copies ends with the inputs.
THEOREM OutputsSurvive == Spec => OutputsKept
  <1>1. CycleInv /\ [Next]_vars => OutputsByGuard
    BY KeptStep
  <1>2. CycleInv /\ [Next]_vars => [OutputsByGuard]_vars
    BY <1>1
  <1> QED BY <1>2, CycleInvariant, PTL DEF Spec, OutputsKept

\* A TxRxResponse lists the state of every SubDevice once, in group order,
\* over however many frames push_state_checks spreads them.
THEOREM StatesAreComplete == Spec => StatesComplete
  <1>1. CycleInv /\ [Next]_vars => StatesReturned
    BY StatesStep
  <1>2. CycleInv /\ [Next]_vars => [StatesReturned]_vars
    BY <1>1
  <1> QED BY <1>2, CycleInvariant, PTL DEF Spec, StatesComplete

\* The DC variants send the system time once in a cycle, even with an empty
\* PDI, and tx_rx never does.
THEOREM ClockIsSentOnce == Spec => ClockOnce
  <1>1. CycleInv /\ [Next]_vars => ClockDistributed
    BY ClockStep
  <1>2. CycleInv /\ [Next]_vars => [ClockDistributed]_vars
    BY <1>1
  <1> QED BY <1>2, CycleInvariant, PTL DEF Spec, ClockOnce
=============================================================================
