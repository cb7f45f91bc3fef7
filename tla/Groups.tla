------------------------------- MODULE Groups -------------------------------
(***************************************************************************)
(* Bringing the network up and driving its groups: MainDevice::init counts, *)
(* resets, addresses and configures the SubDevices and sorts them into     *)
(* groups; a task per group then lays out its process data (sync managers, *)
(* FMMUs), moves it through PRE-OP, SAFE-OP and OP, configures SYNC0 and   *)
(* runs cycles at the reference clock.  init may fail and be called again. *)
(*                                                                         *)
(* An access to the bus is a step, with what follows its answer up to the  *)
(* next one; a row of accesses is one step where no SubDevice can tell.    *)
(* One that is lost or times out ends the call with an error: InitFails,   *)
(* GroupFails.  So does one not answered by as many SubDevices as expected, *)
(* but for a write sent with `send`, which does not look: the SubDevices    *)
(* that have the address take it, none if there are none.  An overflow      *)
(* wraps, or is such an error where the build checks for it.                *)
(***************************************************************************)
EXTENDS Integers, Sequences, FiniteSets

CONSTANTS
  Devices,      \* SubDevices
  Station,      \* [device -> what its EEPROM and object dictionary say]
  Rings,        \* networks init may find, sequences of SubDevices
  Groups,
  MaxPdi,       \* [group -> MAX_PDI]
  GroupSize,    \* [group -> MAX_SUBDEVICES of the group]
  MaxSubDevices, \* MAX_SUBDEVICES of init
  Wrap,         \* 2^16: lengths in bits and bytes, and MAX_PDI, are u16
  ChecksPerFrame, \* state checks that fit into a frame
  Applications, \* what the tasks of the groups may call, [group -> functions]
  DcConfs,      \* DcConfigurations
  MaxLate,      \* bound: time an access or a wake-up takes
  MaxClock,     \* bound: system time
  MaxInits,     \* bound: calls of init
  MaxMaps,      \* bound: layouts of a group's process data
  MaxEvents     \* bound: calls that fail, SubDevices plugged in and out,
                \* refusing or leaving a state

ASSUME SizesAssumption ==
  /\ MaxPdi \in [Groups -> Nat] /\ GroupSize \in [Groups -> Nat]
  /\ MaxSubDevices \in Nat /\ Wrap \in Nat \ {0} /\ ChecksPerFrame \in Nat \ {0}
  /\ {MaxLate, MaxClock, MaxInits, MaxMaps, MaxEvents} \subseteq Nat

\* sms: the sync managers, in order, with their flag ENABLE, the size of the
\* mailbox and the PDOs assigned to them: the bits of each entry and the
\* oversampling; fmmus: the usage of each FMMU.
ASSUME StationAssumption ==
  \A d \in Devices :
    /\ Station[d].sms \in Seq([type : {"mailbox", "in", "out"}, phys : Nat,
                               enable : BOOLEAN, size : Nat,
                               pdos : Seq([entries : Seq(Nat), over : Nat])])
    /\ Station[d].fmmus \in Seq({"in", "out", "unused"})
    /\ {Station[d].mailbox, Station[d].coe, Station[d].dc, Station[d].assign}
         \subseteq BOOLEAN
    /\ Station[d].group \in Groups \cup {"unknown"}

ASSUME CallsAssumption ==
  /\ Rings \subseteq Seq(Devices)
  /\ \A r \in Rings : \A i, j \in DOMAIN r : r[i] = r[j] => i = j
  /\ \A calls \in Applications :
       calls \in [Groups -> SUBSET {"into_pre_op_pdi", "into_init", "into_pre_op",
                    "into_safe_op", "into_op", "request_into_op", "configure_dc_sync"}]
  /\ DcConfs \subseteq [delay : Nat, period : Nat, shift : Nat]

VARIABLES
  \* The SubDevices.
  ring,     \* the SubDevices of the network, in the order a frame passes them
  addr,     \* their configured addresses, 0 when not set
  al,       \* AL status, [state, error]
  ask,      \* AL control not yet acted on
  owner,    \* who owns the EEPROM
  sm,       \* lengths of their sync managers, 0 when disabled
  fmmu,     \* their FMMUs
  sync,     \* their SYNC0 units
  clock,    \* system time
  \* MainDevice::init.
  pc, num, idx, known,
  order,    \* the groups in the order they were found
  gi, offset,
  dcRef,    \* address of the DC reference, 0 when there never was one
  application,
  \* The groups.
  ty,       \* typestate, "none" before init returns, "lost" when consumed
  subs,     \* SubDevices, [addr, id]
  pdi,      \* [start, read, len]
  io,       \* segments, [SubDevice -> [in, out]]
  dcconf,   \* HasDc
  job,      \* what the group's task is doing
  wake,     \* when its next cycle is due, -1 before the first
  \* Bounds and histories.
  inits, events,
  left,     \* a SubDevice left the network since init began
  maps,     \* [group -> times its FMMUs were configured]
  visited   \* [device -> states it was in since it was last asked for one]

devVars  == <<ring, addr, al, ask, owner, sm, fmmu, sync, clock>>
initVars == <<pc, num, idx, known, order, gi, offset, dcRef, application>>
grpVars  == <<ty, subs, pdi, io, dcconf, job, wake>>
histVars == <<inits, events, left, maps, visited>>
vars == <<devVars, initVars, grpVars, histVars>>

States == {"Init", "PreOp", "SafeOp", "Op"}
HasPdi == {"PreOpPdi", "SafeOp", "Op"}

Sms(d) == Station[d].sms
NoFmmu == [enable |-> FALSE, start |-> 0, len |-> 0, phys |-> 0, dir |-> "none"]
NoSync == [active |-> FALSE, start |-> 0, period |-> 0]
NoConf == [delay |-> 0, period |-> 0, shift |-> 0, ref |-> 0]
NoPdi  == [start |-> 0, read |-> 0, len |-> 0]
NoJob  == [op |-> "none", want |-> "None", dir |-> "in", k |-> 1, i |-> 0,
           pos |-> 0, seg |-> 0, time |-> 0, conf |-> NoConf]

\* Registers of the FMMUs: one per sync manager or usage entry at most.
Fmmus(d) == 1..(Len(Sms(d)) + Len(Station[d].fmmus))

-----------------------------------------------------------------------------
\* The bus.  A read answered by nobody returns the zeros that were sent; when
\* two have the address the later one's answer is left in the frame.  A write
\* is taken by all that have it.

OnRing(d) == \E i \in DOMAIN ring : ring[i] = d
At(a) == {i \in DOMAIN ring : addr[ring[i]] = a}
One(a) == Cardinality(At(a)) = 1
Dev(a) == ring[CHOOSE i \in At(a) : \A j \in At(a) : j <= i]
Takes(d, a) == OnRing(d) /\ addr[d] = a
Status(a) == IF At(a) = {} THEN [state |-> "None", error |-> FALSE] ELSE al[Dev(a)]

Event == events < MaxEvents /\ events' = events + 1

-----------------------------------------------------------------------------
\* MainDevice::init.

Fresh(P) ==
  /\ subs' = [g \in Groups |-> <<>>] /\ pdi' = [g \in Groups |-> NoPdi]
  /\ io' = [g \in Groups |-> <<>>] /\ dcconf' = [g \in Groups |-> NoConf]
  /\ job' = [g \in Groups |-> NoJob] /\ wake' = [g \in Groups |-> -1]
  /\ maps' = [g \in Groups |-> 0] /\ ty' = [g \in Groups |-> P]

\* A network without SubDevices: init returns the empty groups.
Count ==
  /\ pc \in {"idle", "done", "failed"} /\ inits < MaxInits
  /\ inits' = inits + 1 /\ num' = Len(ring) /\ left' = FALSE
  /\ pc' = IF ring = <<>> THEN "done" ELSE "reset_state"
  /\ Fresh(IF ring = <<>> THEN "PreOp" ELSE "none")
  /\ idx' = 1 /\ known' = <<>> /\ order' = <<>> /\ gi' = 1 /\ offset' = 0
  /\ visited' = [d \in Devices |-> {}]
  /\ UNCHANGED <<devVars, dcRef, application, events>>

ResetState ==
  /\ pc = "reset_state" /\ pc' = "reset_memory"
  /\ ask' = [d \in Devices |-> IF OnRing(d) THEN "Reset" ELSE ask[d]]
  /\ UNCHANGED <<ring, addr, al, owner, sm, fmmu, sync, clock, num, idx, known,
                 order, gi, offset, dcRef, application, grpVars, histVars>>

Blank(f, zero) == [d \in Devices |->
  IF OnRing(d) THEN [i \in DOMAIN f[d] |-> zero] ELSE f[d]]

\* Mutant: the FMMUs of an earlier configuration stay.
BlankFmmusNot == fmmu

BlankFmmus == Blank(fmmu, NoFmmu)

ResetMemory ==
  /\ pc = "reset_memory" /\ pc' = "address"
  /\ fmmu' = BlankFmmus /\ sm' = Blank(sm, 0)
  /\ sync' = [d \in Devices |-> IF OnRing(d) THEN NoSync ELSE sync[d]]
  /\ clock' = 0
  /\ UNCHANGED <<ring, addr, al, ask, owner, num, idx, known, order, gi,
                 offset, dcRef, application, grpVars, histVars>>

Address ==
  /\ pc = "address"
  /\ addr' = [d \in Devices |->
       IF idx \in DOMAIN ring /\ d = ring[idx] THEN idx ELSE addr[d]]
  /\ IF idx < num THEN idx' = idx + 1 /\ UNCHANGED pc ELSE idx' = 1 /\ pc' = "new"
  /\ UNCHANGED <<ring, al, ask, owner, sm, fmmu, sync, clock, num, known, order,
                 gi, offset, dcRef, application, grpVars, histVars>>

\* SubDevice::new waits for INIT whoever answers; its other reads do not.
NewSubDevice ==
  /\ pc = "new" /\ Status(idx).state = "Init" /\ One(idx)
  /\ Len(known) < MaxSubDevices
  /\ known' = Append(known, [addr |-> idx, id |-> Dev(idx)])
  /\ owner' = [owner EXCEPT ![Dev(idx)] = "Master"]
  /\ IF idx < num THEN idx' = idx + 1 /\ UNCHANGED pc ELSE idx' = 1 /\ pc' = "dc"
  /\ UNCHANGED <<ring, addr, al, ask, sm, fmmu, sync, clock, num, order, gi,
                 offset, dcRef, application, grpVars, histVars>>

\* The reference is stored when there is one and else left alone.
ConfigureDc ==
  /\ pc = "dc" /\ pc' = "assign"
  /\ LET dcs == {k \in DOMAIN known : Station[known[k].id].dc} IN
     dcRef' = IF dcs = {} THEN dcRef
              ELSE known[CHOOSE k \in dcs : \A j \in dcs : k <= j].addr
  /\ UNCHANGED <<devVars, num, idx, known, order, gi, offset, application, grpVars, histVars>>

GroupOf(k) == Station[known[k].id].group

\* group_map: a group is entered when its first SubDevice is found.
GroupOrder ==
  LET f[k \in 0..Len(known)] ==
        IF k = 0 THEN <<>>
        ELSE IF \E i \in DOMAIN f[k-1] : f[k-1][i] = GroupOf(k) THEN f[k-1]
        ELSE Append(f[k-1], GroupOf(k))
  IN f[Len(known)]

\* The elements at the positions of P, in order.
Pick(s, P) ==
  LET f[k \in 0..Len(s)] ==
        IF k = 0 THEN <<>> ELSE IF k \in P THEN Append(f[k-1], s[k]) ELSE f[k-1]
  IN f[Len(s)]

AssignGroups ==
  /\ pc = "assign" /\ pc' = "mailbox"
  /\ \A k \in DOMAIN known : GroupOf(k) # "unknown"
  /\ subs' = [g \in Groups |-> Pick(known, {k \in DOMAIN known : GroupOf(k) = g})]
  /\ \A g \in Groups : Len(subs'[g]) <= GroupSize[g]
  /\ io' = [g \in Groups |-> [k \in DOMAIN subs'[g] |-> [in |-> <<0, 0>>, out |-> <<0, 0>>]]]
  /\ order' = GroupOrder
  /\ UNCHANGED <<devVars, num, idx, known, gi, offset, dcRef, application, ty, pdi, dcconf, job,
                 wake, histVars>>

\* idx is the SubDevice of the group order[gi] the loop has come to.
CurGroup == order[gi]
CurAddr  == subs[CurGroup][idx].addr

\* write_sm_config: enabled if the EEPROM says so and there is data.
SmConfig(d, i, len) == IF Sms(d)[i].enable THEN len ELSE 0

\* configure_mailboxes: the sync managers of the mailboxes, the EEPROM given to
\* the SubDevice, the request of PRE-OP; then the wait for it and the EEPROM
\* taken back.
ConfigureMailboxes ==
  /\ pc = "mailbox" /\ One(CurAddr) /\ pc' = "assign_pdi"
  /\ pdi' = [pdi EXCEPT ![CurGroup].start = offset]
  /\ LET d == Dev(CurAddr) IN
     /\ sm' = [sm EXCEPT ![d] = [i \in DOMAIN @ |->
                 IF Sms(d)[i].type = "mailbox" /\ Station[d].mailbox
                 THEN SmConfig(d, i, Sms(d)[i].size) ELSE @[i]]]
     /\ owner' = [owner EXCEPT ![d] = "Master"]
  /\ UNCHANGED <<ring, addr, al, ask, fmmu, sync, clock, num, idx, known, order, gi,
                 offset, dcRef, application, ty, subs, io, dcconf, job, wake, histVars>>

AssignToPdi ==
  /\ pc = "assign_pdi" /\ pc' = "request_pre_op"
  /\ owner' = [d \in Devices |-> IF Takes(d, CurAddr) THEN "Pdi" ELSE owner[d]]
  /\ UNCHANGED <<ring, addr, al, ask, sm, fmmu, sync, clock, num, idx, known, order, gi,
                 offset, dcRef, application, grpVars, histVars>>

RequestPreOp ==
  /\ pc = "request_pre_op" /\ One(CurAddr) /\ pc' = "wait_pre_op"
  /\ ask' = [ask EXCEPT ![Dev(CurAddr)] = "PreOp"]
  /\ visited' = [visited EXCEPT ![Dev(CurAddr)] = {al[Dev(CurAddr)].state}]
  /\ UNCHANGED <<ring, addr, al, owner, sm, fmmu, sync, clock, num, idx, known, order,
                 gi, offset, dcRef, application, grpVars, inits, events, left, maps>>

NextOffset == offset + (MaxPdi[CurGroup] % Wrap)

PreOpReached ==
  /\ pc = "wait_pre_op" /\ Status(CurAddr).state = "PreOp" /\ One(CurAddr)
  /\ owner' = [owner EXCEPT ![Dev(CurAddr)] = "Master"]
  /\ IF idx < Len(subs[CurGroup])
     THEN idx' = idx + 1 /\ pc' = "mailbox" /\ UNCHANGED <<gi, offset>>
     ELSE /\ idx' = 1 /\ gi' = gi + 1 /\ offset' = NextOffset
          /\ pc' = IF gi < Len(order) THEN "mailbox" ELSE "wait_all"
  /\ UNCHANGED <<ring, addr, al, ask, sm, fmmu, sync, clock, num, known, order,
                 dcRef, application, grpVars, histVars>>

\* Mutant: the working counter is not compared with the SubDevices counted.
AllInUncounted(s) ==
  /\ \A i \in DOMAIN ring : ~ al[ring[i]].error
  /\ {al[ring[i]].state : i \in DOMAIN ring} = {s}

\* The broadcast read: as many answers as SubDevices were counted, no error
\* flag among them, and the OR of the states, a bit each, is that of PRE-OP.
AllIn(s) ==
  /\ Len(ring) = num
  /\ \A i \in DOMAIN ring : ~ al[ring[i]].error
  /\ {al[ring[i]].state : i \in DOMAIN ring} = {s}

WaitForAll ==
  /\ pc = "wait_all" /\ AllIn("PreOp")
  /\ pc' = "done" /\ ty' = [g \in Groups |-> "PreOp"]
  /\ UNCHANGED <<devVars, num, idx, known, order, gi, offset, dcRef, application, subs, pdi, io,
                 dcconf, job, wake, histVars>>

InitFails ==
  /\ pc \notin {"idle", "done", "failed"} /\ pc' = "failed" /\ Event
  /\ UNCHANGED <<devVars, num, idx, known, order, gi, offset, dcRef, application, grpVars,
                 inits, left, maps, visited>>

InitStep ==
  \/ Count \/ ResetState \/ ResetMemory \/ Address \/ NewSubDevice \/ ConfigureDc
  \/ AssignGroups \/ ConfigureMailboxes \/ AssignToPdi \/ RequestPreOp
  \/ PreOpReached \/ WaitForAll \/ InitFails

-----------------------------------------------------------------------------
\* A group: process data.

Busy(g, op) == pc = "done" /\ job[g].op = op
Idle(g) == Busy(g, "none") /\ ty[g] \notin {"none", "lost"}
Sub(g) == subs[g][job[g].k]
More(g) == job[g].k <= Len(subs[g])

\* A call takes the group by value: an error loses it.
GroupFails(g) ==
  /\ pc = "done" /\ job[g].op # "none" /\ Event
  /\ ty' = [ty EXCEPT ![g] = "lost"] /\ job' = [job EXCEPT ![g] = NoJob]
  /\ UNCHANGED <<devVars, initVars, subs, pdi, io, dcconf, wake,
                 inits, left, maps, visited>>

IntoPreOpPdi(g) ==
  /\ Idle(g) /\ ty[g] = "PreOp" /\ "into_pre_op_pdi" \in application[g]
  /\ maps[g] < MaxMaps
  /\ job' = [job EXCEPT ![g] = [NoJob EXCEPT !.op = "fmmu", !.pos = pdi[g].start]]
  /\ maps' = [maps EXCEPT ![g] = @ + 1]
  /\ UNCHANGED <<devVars, initVars, ty, subs, pdi, io, dcconf, wake,
                 inits, events, left, visited>>

\* configure_fmmus of a SubDevice begins: it must be in PRE-OP.
CheckPreOp(g) ==
  /\ Busy(g, "fmmu") /\ More(g) /\ job[g].i = 0
  /\ One(Sub(g).addr) /\ Status(Sub(g).addr) = [state |-> "PreOp", error |-> FALSE]
  /\ job' = [job EXCEPT ![g].i = 1, ![g].seg = job[g].pos]
  /\ UNCHANGED <<devVars, initVars, ty, subs, pdi, io, dcconf, wake, histVars>>

Sum(s) == LET f[n \in 0..Len(s)] == IF n = 0 THEN 0 ELSE f[n-1] + s[n] IN f[Len(s)]

\* The bits of each sync manager: of its PDOs, times their oversampling.
PdoBits ==
  [d \in Devices |-> [i \in DOMAIN Sms(d) |->
     LET pdos == Sms(d)[i].pdos
     IN Sum([p \in DOMAIN pdos |-> Sum(pdos[p].entries) * pdos[p].over])]]

\* Added up and multiplied in u16: cutting the result is cutting every step.
SmBits(d, i) == PdoBits[d][i] % Wrap

\* Every sync manager begins at a byte.
BytesOf(bits) == ((bits + 7) % Wrap) \div 8

SmIndices(d, dir) == {i \in DOMAIN Sms(d) : Sms(d)[i].type = dir}

\* With CoE the first FMMU for the direction serves all its sync managers,
\* otherwise each sync manager has the FMMU of its own index.
UsesOf(d, dir) == {i \in DOMAIN Station[d].fmmus : Station[d].fmmus[i] = dir}
HasCoe(d) == Station[d].mailbox /\ Station[d].coe
FmmuIndex(d, i, dir) ==
  IF HasCoe(d) THEN CHOOSE f \in UsesOf(d, dir) : \A h \in UsesOf(d, dir) : f <= h ELSE i

\* write_fmmu_config: an enabled FMMU is one of this configuration.
WriteFmmu(f, pos, len, phys, dir) ==
  IF f.enable THEN [f EXCEPT !.len = (@ + len) % Wrap]
  ELSE [enable |-> TRUE, start |-> pos, len |-> len, phys |-> phys, dir |-> dir]

\* One sync manager of the direction.
ConfigureSm(g) ==
  /\ Busy(g, "fmmu") /\ More(g) /\ job[g].i > 0 /\ One(Sub(g).addr)
  /\ LET d == Dev(Sub(g).addr) j == job[g] IN
     \E i \in SmIndices(d, j.dir) :
       /\ j.i <= i /\ \A h \in SmIndices(d, j.dir) : h < j.i \/ i <= h
       /\ LET len == BytesOf(SmBits(d, i)) mapped == ~ HasCoe(d) \/ SmBits(d, i) > 0 IN
          /\ sm' = [sm EXCEPT ![d][i] = SmConfig(d, i, len)]
          /\ mapped /\ HasCoe(d) => UsesOf(d, j.dir) # {}
          /\ fmmu' = IF mapped
                     THEN [fmmu EXCEPT ![d][FmmuIndex(d, i, j.dir)]
                             = WriteFmmu(@, j.pos, len, Sms(d)[i].phys, j.dir)]
                     ELSE fmmu
          /\ job' = [job EXCEPT ![g].i = i + 1, ![g].pos = @ + len]
  /\ UNCHANGED <<ring, addr, al, ask, owner, sync, clock, initVars, ty, subs, pdi, io,
                 dcconf, wake, histVars>>

\* The segment of the SubDevice, relative to its group.
SubDeviceDone(g) ==
  /\ Busy(g, "fmmu") /\ More(g) /\ job[g].i > 0
  /\ LET j == job[g] seg == <<j.seg - pdi[g].start, j.pos - pdi[g].start>> IN
     /\ \A i \in SmIndices(Sub(g).id, j.dir) : i < j.i
     /\ io' = [io EXCEPT ![g][j.k] = IF j.dir = "in" THEN [@ EXCEPT !.in = seg]
                                     ELSE [@ EXCEPT !.out = seg]]
     /\ job' = [job EXCEPT ![g].k = @ + 1, ![g].i = 0]
  /\ UNCHANGED <<devVars, initVars, ty, subs, pdi, dcconf, wake, histVars>>

\* All inputs, then all outputs; PdiTooLong when they do not fit.
DirectionDone(g) ==
  /\ Busy(g, "fmmu") /\ ~ More(g)
  /\ LET len == job[g].pos - pdi[g].start IN
     IF job[g].dir = "in"
     THEN /\ pdi' = [pdi EXCEPT ![g].read = len]
          /\ job' = [job EXCEPT ![g].dir = "out", ![g].k = 1]
          /\ UNCHANGED ty
     ELSE /\ pdi' = [pdi EXCEPT ![g].len = len]
          /\ job' = [job EXCEPT ![g] = NoJob]
          /\ ty' = [ty EXCEPT ![g] = IF len > MaxPdi[g] THEN "lost" ELSE "PreOpPdi"]
  /\ UNCHANGED <<devVars, initVars, subs, io, dcconf, wake, histVars>>

-----------------------------------------------------------------------------
\* A group: state transitions.

\* Typestate, function, state.  The functions that go further, such as into_op
\* in PRE-OP, are these one after the other.
Transitions ==
  {<<"PreOp", "into_init", "Init">>, <<"PreOpPdi", "into_init", "Init">>,
   <<"PreOpPdi", "into_safe_op", "SafeOp">>, <<"SafeOp", "into_op", "Op">>,
   <<"SafeOp", "request_into_op", "Op">>, <<"SafeOp", "into_pre_op", "PreOp">>,
   <<"Op", "into_safe_op", "SafeOp">>}

\* The loop over the SubDevices ends with the polls, or with request_into_op.
Requests(g, j) ==
  IF j.k <= Len(subs[g])
  THEN job' = [job EXCEPT ![g] = j] /\ UNCHANGED ty
  ELSE IF j.op = "request"
  THEN job' = [job EXCEPT ![g] = [j EXCEPT !.op = "poll", !.k = 1]] /\ UNCHANGED ty
  ELSE job' = [job EXCEPT ![g] = NoJob] /\ ty' = [ty EXCEPT ![g] = j.want]

TransitionTo(g) ==
  /\ Idle(g)
  /\ \E t \in Transitions :
       /\ t[1] = ty[g] /\ t[2] \in application[g]
       /\ Requests(g, [NoJob EXCEPT !.want = t[3],
            !.op = IF t[2] = "request_into_op" THEN "request_only" ELSE "request"])
  /\ UNCHANGED <<devVars, initVars, subs, pdi, io, dcconf, wake, histVars>>

RequestState(g) ==
  /\ (Busy(g, "request") \/ Busy(g, "request_only")) /\ One(Sub(g).addr)
  /\ LET d == Dev(Sub(g).addr) IN
     /\ ask' = [ask EXCEPT ![d] = job[g].want]
     /\ visited' = [visited EXCEPT ![d] = {al[d].state}]
  /\ Requests(g, [job[g] EXCEPT !.k = @ + 1])
  /\ UNCHANGED <<ring, addr, al, owner, sm, fmmu, sync, clock, initVars, subs, pdi,
                 io, dcconf, wake, inits, events, left, maps>>

\* Mutant: one frame of checks is taken for all.
NextCheckOnce(g, ok) == IF ok THEN Len(subs[g]) + 1 ELSE 1

\* The SubDevices whose status the next frame asks for.
Checks(g) == {k \in DOMAIN subs[g] : job[g].k <= k /\ k < job[g].k + ChecksPerFrame}

\* The first other state found begins the poll anew.
NextCheck(g, ok) == IF ok THEN job[g].k + Cardinality(Checks(g)) ELSE 1

\* is_state: a frame of state checks; wait_for_state ends when none are left.
PollFrame(g) ==
  /\ Busy(g, "poll")
  /\ LET next == NextCheck(g, \A k \in Checks(g) :
                     Status(subs[g][k].addr).state = job[g].want) IN
     IF next <= Len(subs[g])
     THEN job' = [job EXCEPT ![g].k = next] /\ UNCHANGED ty
     ELSE ty' = [ty EXCEPT ![g] = job[g].want] /\ job' = [job EXCEPT ![g] = NoJob]
  /\ UNCHANGED <<devVars, initVars, subs, pdi, io, dcconf, wake, histVars>>

-----------------------------------------------------------------------------
\* A group: distributed clocks.

Later == clock' \in clock..(clock + MaxLate) /\ clock' <= MaxClock

ConfigureDcSync(g) ==
  /\ Idle(g) /\ ty[g] \in {"PreOp", "PreOpPdi"} /\ "configure_dc_sync" \in application[g]
  /\ \/ /\ dcRef # 0 /\ One(dcRef) /\ Later /\ UNCHANGED ty
        /\ \E c \in DcConfs :
             job' = [job EXCEPT ![g] = [NoJob EXCEPT !.op = "dc", !.time = clock',
                       !.conf = [delay |-> c.delay, period |-> c.period,
                                 shift |-> c.shift, ref |-> dcRef]]]
     \/ /\ ~ (dcRef # 0 /\ One(dcRef)) /\ UNCHANGED <<clock, job>>
        /\ ty' = [ty EXCEPT ![g] = "lost"]
  /\ UNCHANGED <<ring, addr, al, ask, owner, sm, fmmu, sync, initVars, subs, pdi, io,
                 dcconf, wake, histVars>>

\* Mutant: the first pulse is not rounded to a whole number of cycles.
StartTimeExact(time, c) == time + c.delay

StartTime(time, c) == ((time + c.delay) \div c.period) * c.period

\* SYNC0 is disabled and given its start and period; a period of 0 panics.
DcProgram(g) ==
  /\ Busy(g, "dc") /\ More(g) /\ job[g].i = 0
  /\ IF Station[Sub(g).id].dc
     THEN /\ job[g].conf.period > 0
          /\ sync' = [d \in Devices |-> IF Takes(d, Sub(g).addr)
               THEN [active |-> FALSE, start |-> StartTime(job[g].time, job[g].conf),
                     period |-> job[g].conf.period]
               ELSE sync[d]]
          /\ job' = [job EXCEPT ![g].i = 1] /\ Later
     ELSE job' = [job EXCEPT ![g].k = @ + 1] /\ UNCHANGED <<sync, clock>>
  /\ UNCHANGED <<ring, addr, al, ask, owner, sm, fmmu, initVars, ty, subs, pdi, io,
                 dcconf, wake, histVars>>

DcActivate(g) ==
  /\ Busy(g, "dc") /\ More(g) /\ job[g].i = 1
  /\ sync' = [d \in Devices |->
       IF Takes(d, Sub(g).addr) THEN [sync[d] EXCEPT !.active = TRUE] ELSE sync[d]]
  /\ job' = [job EXCEPT ![g].k = @ + 1, ![g].i = 0]
  /\ UNCHANGED <<ring, addr, al, ask, owner, sm, fmmu, clock, initVars, ty, subs, pdi,
                 io, dcconf, wake, histVars>>

\* PRE-OP with PDI, whether or not the FMMUs were configured.
DcDone(g) ==
  /\ Busy(g, "dc") /\ ~ More(g)
  /\ dcconf' = [dcconf EXCEPT ![g] = job[g].conf]
  /\ ty' = [ty EXCEPT ![g] = "PreOpPdi"] /\ job' = [job EXCEPT ![g] = NoJob]
  /\ UNCHANGED <<devVars, initVars, subs, pdi, io, wake, histVars>>

NextCycleWait(time, c) == (c.period - (time % c.period)) + c.shift

\* tx_rx_dc called when the wait of the last cycle is over or later.  The time
\* is that of the reference, 0 when nobody answers.
TxRxDc(g) ==
  /\ Idle(g) /\ ty[g] \in HasPdi /\ dcconf[g].period > 0
  /\ clock' \in IF wake[g] < clock THEN clock..(clock + MaxLate)
                ELSE wake[g]..(wake[g] + MaxLate)
  /\ clock' <= MaxClock
  /\ LET time == IF At(dcconf[g].ref) = {} THEN 0 ELSE clock' IN
     wake' = [wake EXCEPT ![g] = clock' + NextCycleWait(time, dcconf[g])]
  /\ UNCHANGED <<ring, addr, al, ask, owner, sm, fmmu, sync, initVars, ty, subs, pdi,
                 io, dcconf, job, histVars>>

GroupStep(g) ==
  \/ GroupFails(g) \/ IntoPreOpPdi(g) \/ CheckPreOp(g) \/ ConfigureSm(g)
  \/ SubDeviceDone(g) \/ DirectionDone(g) \/ TransitionTo(g) \/ RequestState(g)
  \/ PollFrame(g) \/ ConfigureDcSync(g)
  \/ DcProgram(g) \/ DcActivate(g) \/ DcDone(g) \/ TxRxDc(g)

-----------------------------------------------------------------------------
\* The SubDevices.

Up == {<<"Init", "PreOp">>, <<"PreOp", "SafeOp">>, <<"SafeOp", "Op">>}
Down == {<<"Op", "SafeOp">>, <<"Op", "PreOp">>, <<"SafeOp", "PreOp">>}

\* A SubDevice whose EEPROM must be assigned to it reads it on the way to PRE-OP.
Accepts(d) ==
  /\ ~ al[d].error
  /\ \/ ask[d] \in {"Init", al[d].state}
     \/ <<al[d].state, ask[d]>> \in Up \cup Down
  /\ ask[d] = "PreOp" /\ al[d].state = "Init" /\ Station[d].assign => owner[d] = "Pdi"

Enter(d, s, e) ==
  /\ al' = [al EXCEPT ![d] = [state |-> s, error |-> e]]
  /\ visited' = [visited EXCEPT ![d] = @ \cup {s}]

DevAnswers(d) ==
  /\ OnRing(d) /\ ask[d] # "none" /\ ask' = [ask EXCEPT ![d] = "none"]
  /\ \/ ask[d] = "Reset" /\ Enter(d, "Init", FALSE) /\ UNCHANGED events
     \/ ask[d] # "Reset" /\ Accepts(d) /\ Enter(d, ask[d], FALSE) /\ UNCHANGED events
     \/ ask[d] # "Reset" /\ ~ Accepts(d) /\ Enter(d, al[d].state, TRUE) /\ UNCHANGED events
     \/ ask[d] # "Reset" /\ Accepts(d) /\ Enter(d, al[d].state, TRUE)
        /\ Event
  /\ UNCHANGED <<ring, addr, owner, sm, fmmu, sync, clock, initVars, grpVars,
                 inits, left, maps>>

\* A watchdog: OP is left with an error.
DevFalls(d) ==
  /\ OnRing(d) /\ al[d].state = "Op" /\ Enter(d, "SafeOp", TRUE)
  /\ Event
  /\ UNCHANGED <<ring, addr, ask, owner, sm, fmmu, sync, clock, initVars, grpVars,
                 inits, left, maps>>

\* SubDevices keep their power, and so their registers.
Unplug ==
  /\ Event /\ ring # <<>>
  /\ ring' = SubSeq(ring, 1, Len(ring) - 1) /\ left' = TRUE
  /\ UNCHANGED <<addr, al, ask, owner, sm, fmmu, sync, clock, initVars, grpVars,
                 inits, maps, visited>>

Plug(d) ==
  /\ Event /\ ~ OnRing(d)
  /\ ring' = Append(ring, d)
  /\ UNCHANGED <<addr, al, ask, owner, sm, fmmu, sync, clock, initVars, grpVars,
                 inits, left, maps, visited>>

DeviceStep(d) == DevAnswers(d) \/ DevFalls(d) \/ Plug(d)

-----------------------------------------------------------------------------
Init ==
  /\ ring \in Rings /\ application \in Applications
  /\ addr = [d \in Devices |-> 0] /\ owner = [d \in Devices |-> "Master"]
  /\ al = [d \in Devices |-> [state |-> "Init", error |-> FALSE]]
  /\ ask = [d \in Devices |-> "none"] /\ clock = 0
  /\ sm = [d \in Devices |-> [i \in DOMAIN Sms(d) |-> 0]]
  /\ fmmu = [d \in Devices |-> [i \in Fmmus(d) |-> NoFmmu]]
  /\ sync = [d \in Devices |-> NoSync]
  /\ pc = "idle" /\ num = 0 /\ idx = 1 /\ known = <<>> /\ order = <<>>
  /\ gi = 1 /\ offset = 0 /\ dcRef = 0
  /\ ty = [g \in Groups |-> "none"] /\ subs = [g \in Groups |-> <<>>]
  /\ pdi = [g \in Groups |-> NoPdi] /\ io = [g \in Groups |-> <<>>]
  /\ dcconf = [g \in Groups |-> NoConf] /\ job = [g \in Groups |-> NoJob]
  /\ wake = [g \in Groups |-> -1]
  /\ inits = 0 /\ events = 0 /\ left = FALSE
  /\ maps = [g \in Groups |-> 0] /\ visited = [d \in Devices |-> {}]

Next ==
  \/ InitStep
  \/ \E g \in Groups : GroupStep(g)
  \/ \E d \in Devices : DeviceStep(d)
  \/ Unplug

Spec == Init /\ [][Next]_vars

-----------------------------------------------------------------------------
\* Bytes the sync managers of a direction need, up to and with the i-th.
SmBytes ==
  [d \in Devices |-> [dir \in {"in", "out"} |->
     LET f[i \in 0..Len(Sms(d))] ==
           IF i = 0 THEN 0
           ELSE f[i-1] + (IF Sms(d)[i].type = dir THEN (PdoBits[d][i] + 7) \div 8 ELSE 0)
     IN f]]

\* The FMMUs that map some of a SubDevice's memory for a direction.
Maps(d, dir, first, len) ==
  {i \in Fmmus(d) : LET f == fmmu[d][i] IN
     f.enable /\ f.dir = dir /\ f.phys < first + len /\ first < f.phys + f.len}

Mapped(g, k, dir) ==
  LET d == subs[g][k].id
      seg == io[g][k][dir]
      bytes == SmBytes[d][dir]
  IN /\ IF dir = "in" THEN 0 <= seg[1] /\ seg[2] <= pdi[g].read
        ELSE pdi[g].read <= seg[1] /\ seg[2] <= pdi[g].len
     /\ seg[2] - seg[1] = bytes[Len(Sms(d))]
     /\ \A i \in SmIndices(d, dir) :
          LET phys == Sms(d)[i].phys
              len == bytes[i] - bytes[i-1]
          IN /\ sm[d][i] = SmConfig(d, i, len)
             /\ len > 0 => \E n \in Fmmus(d) :
                  /\ Maps(d, dir, phys, len) = {n}
                  /\ fmmu[d][n].phys <= phys /\ phys + len <= fmmu[d][n].phys + fmmu[d][n].len
                  /\ fmmu[d][n].start + (phys - fmmu[d][n].phys)
                       = pdi[g].start + seg[1] + bytes[i-1]

\* Groups whose process data were laid out once since the network was reset.
\* Laid out again, by way of SAFE-OP and back, the FMMUs only grow.
LaidOut == {g \in Groups : pc = "done" /\ ~ left /\ ty[g] \in HasPdi /\ maps[g] = 1}

\* The logical addresses claimed, [SubDevice, FMMU].
Windows == UNION {{<<s.id, i>> : i \in {n \in Fmmus(s.id) : fmmu[s.id][n].enable}} :
                    s \in UNION {{subs[g][k] : k \in DOMAIN subs[g]} : g \in LaidOut}}

\* The process data image a group exchanges is the one its SubDevices have
\* mapped: every sync manager lies, through exactly one FMMU, at its place in
\* the SubDevice's segment, inputs before outputs, and no two FMMUs of any
\* groups claim the same logical address.  A sync manager is enabled, with the
\* length it is mapped with, if its EEPROM says so.
\* [configure_fmmus, write_fmmu_config, into_pre_op, reset_subdevices]
LayoutSound ==
  /\ \A g \in LaidOut :
       /\ \A k \in DOMAIN subs[g] : Mapped(g, k, "in") /\ Mapped(g, k, "out")
       /\ pdi[g].len <= MaxPdi[g]
  /\ \A v, w \in Windows : v # w =>
       LET e == fmmu[v[1]][v[2]] f == fmmu[w[1]][w[2]]
       IN e.start + e.len <= f.start \/ f.start + f.len <= e.start

\* What the code takes for granted of its constants and its SubDevices: MAX_PDI
\* is a u16, as is the number of bits of a sync manager before it is rounded up
\* and the number of bytes of a direction, and of the sync managers of a direction
\* those that carry data lie side by side where one FMMU serves them all, and apart
\* where each has its own.
SideBySide(d, dir) ==
  \A i, k \in SmIndices(d, dir) :
    LET bytes == SmBytes[d][dir]
        at == Sms(d)[i].phys
        to == Sms(d)[k].phys
        load == bytes[i] - bytes[i-1]
        other == bytes[k] - bytes[k-1]
    IN i # k /\ load > 0 =>
         IF HasCoe(d) THEN other > 0 => to - at = bytes[k-1] - bytes[i-1]
         ELSE at + load <= to \/ to + other <= at
LayoutPossible ==
  /\ \A g \in Groups : MaxPdi[g] < Wrap
  /\ \A d \in Devices : SideBySide(d, "in") /\ SideBySide(d, "out")
  /\ \A d \in Devices : \A i \in DOMAIN Sms(d) :
       /\ PdoBits[d][i] + 7 < Wrap
       /\ SmBytes[d]["in"][i] < Wrap /\ SmBytes[d]["out"][i] < Wrap

\* When init returns, every SubDevice on the network has an address of its own,
\* is in a group under it, is in PRE-OP without error and has given back its
\* EEPROM, though SubDevices were plugged in meanwhile or are left over from an
\* earlier init.  (One that is swapped for another behind init's back is not
\* noticed.)  [init, MainDevice::wait_for_state]
InitComplete ==
  [][pc # "done" /\ pc' = "done" /\ num' # 0 /\ ~ left =>
       \A i \in DOMAIN ring :
         /\ al[ring[i]] = [state |-> "PreOp", error |-> FALSE]
         /\ owner[ring[i]] = "Master" /\ One(addr[ring[i]])
         /\ \E g \in Groups : \E k \in DOMAIN subs[g] :
              subs[g][k] = [addr |-> addr[ring[i]], id |-> ring[i]]]_vars

\* No other SubDevice has its address, on the network or off it.
Sole(d) == \A e \in Devices : addr[e] = addr[d] => e = d

\* A transition that returns has seen all SubDevices of the group in the state
\* it asked for, since it asked: no stale status, none left out at the edge of a
\* frame, none that vanished.  The checks do not look at the working counter: a
\* SubDevice plugged in with the address of one of the group, left over from an
\* earlier init, answers in its place.  [transition_to, wait_for_state, is_state]
TransitionReached ==
  [][\A g \in Groups :
       Busy(g, "poll") /\ ty'[g] # ty[g] /\ ty'[g] # "lost" /\ inits' = inits =>
         /\ ty'[g] = job[g].want
         /\ \A k \in DOMAIN subs[g] : \E d \in Devices :
              addr[d] = subs[g][k].addr /\ (Sole(d) => ty'[g] \in visited[d])]_vars

\* Cycles keep step with SYNC0: the wait that tx_rx_dc returns ends sync0_shift
\* after a pulse of every SubDevice of the group, and one period after the wait
\* before it as long as the cycle is done before the next pulse.  A SubDevice is
\* activated before its first pulse when start_delay leaves a period more than
\* the configuration takes.  [configure_dc_sync, tx_rx_dc]
SyncPhase ==
  [][\A g \in Groups :
       LET c == dcconf[g] j == job[g] IN
       /\ wake'[g] \notin {-1, wake[g]} /\ At(c.ref) # {} /\ c.shift < c.period /\ ~ left =>
            /\ \A k \in DOMAIN subs[g] : Station[subs[g][k].id].dc =>
                 LET s == sync[subs[g][k].id] IN
                 s.active /\ s.period = c.period
                   /\ (wake'[g] - s.start) % c.period = c.shift
            /\ wake[g] # -1 /\ wake[g] % c.period = c.shift
                 /\ clock' - wake[g] + c.shift < c.period => wake'[g] = wake[g] + c.period
       /\ pc = "done" /\ j.op = "dc" /\ j.i = 1 /\ job'[g].op = "dc" /\ job'[g].i = 0
            /\ clock + j.conf.period <= j.time + j.conf.delay /\ ~ left =>
              sync'[subs[g][j.k].id].start > clock]_vars
=============================================================================
