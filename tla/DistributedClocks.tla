------------------------- MODULE DistributedClocks -------------------------
(***************************************************************************)
(* Configuration of distributed clocks (dc.rs, subdevice/ports.rs): from   *)
(* which ports of each SubDevice are open, and from the times at which one *)
(* frame passed them, find the tree the SubDevices form, the port each one *)
(* hangs on and its propagation delay, and write delays and clock offsets  *)
(* into the SubDevices.                                                    *)
(*                                                                         *)
(* SubDevices are numbered from 0 in the order in which a frame reaches    *)
(* them, so that the subtree of d is an interval d..last[d].  A port is    *)
(* its index in the order 0, 3, 1, 2 in which a frame passes the ports.    *)
(*                                                                         *)
(* A command that is lost is an error of configure_dc.  One that comes     *)
(* back without the SubDevice having taken it is noticed only by the read  *)
(* of the port times: the read of DcReceiveTime and all that is sent do    *)
(* not look at the working counter.                                        *)
(***************************************************************************)
EXTENDS Integers, FiniteSets

CONSTANTS
  MaxDevices,   \* bound: SubDevices of the network
  Cables,       \* sets of cables: [1..MaxDevices - 1 -> delay]
  EntryPorts,   \* port indices a SubDevice may be entered by
  Clocks,       \* values local clocks may have when the frame starts
  TimeMod,      \* modulus of port receive times: 2^32 in the code
  MaxOdd,       \* bound: SubDevices without DC, turned round or near a wrap,
  OddDevices,   \*   or deaf, in networks of up to so many SubDevices
  Now,          \* what the application's clock says
  Misses,       \* sets of commands a SubDevice may miss unnoticed
  OldLatches,   \* what an earlier latch may have left, [ports, time]
  Faults        \* a command may fail: {"command"} or {}

PortIdx == 0..3

ASSUME SizesAssumption == {MaxDevices, MaxOdd, OddDevices} \subseteq Nat
ASSUME TimesAssumption ==
  /\ \A c \in Cables : \A d \in 1..(MaxDevices - 1) : c[d] \in Nat \ {0}
  /\ Clocks \subseteq Nat /\ 0 \in Clocks
  /\ TimeMod \in Nat \ {0} /\ Now \in Nat
ASSUME OptionsAssumption ==
  /\ EntryPorts \subseteq PortIdx /\ 0 \in EntryPorts /\ Faults \subseteq {"command"}
  /\ Misses \subseteq SUBSET {"latch", "time", "offset", "delay"} /\ {} \in Misses
  /\ OldLatches \subseteq [ports : [PortIdx -> 0..(TimeMod - 1)], time : Nat]
  /\ OldLatches # {}

\* The sum of the f[k] for the k of S from 1 on.
Sum(f, S) ==
  LET upto[k \in 0..MaxDevices] ==
        IF k = 0 THEN 0 ELSE upto[k-1] + (IF k \in S THEN f[k] ELSE 0)
  IN upto[MaxDevices]

\* A frame is back before the port receive times have gone round.
ASSUME RoundTripAssumption ==
  \A c \in Cables : 2 * Sum(c, 1..(MaxDevices - 1)) < TimeMod

VARIABLES
  n, last,                \* the tree: [SubDevice -> end of its subtree]
  entry, port,            \* port d is entered by; port of its parent it is on
  link,                   \* delay of the cable to the parent
  clock, dc,              \* local clock at time 0; has DC support
  deaf,                   \* commands it misses and nobody notices
  pc, i,                  \* where configure_dc is, SubDevice at hand
  dc_receive_times,       \* [SubDevice -> [port -> u32]]
  dc_receive_time,        \* [SubDevice -> u64]
  parent_index,           \* [SubDevice -> SubDevice, or NoParent]
  downstream_to,          \* [SubDevice -> [port -> SubDevice, or NoDevice]]
  delay_accum,
  propagation_delay,      \* [SubDevice -> u32]
  offset_reg, delay_reg   \* what has been written into the SubDevices

segVars  == <<n, last, entry, port, link, clock, dc, deaf>>
timeVars == <<dc_receive_times, dc_receive_time>>
treeVars == <<parent_index, downstream_to>>
delayVars == <<delay_accum, propagation_delay>>
regVars  == <<offset_reg, delay_reg>>
vars == <<segVars, pc, i, timeVars, treeVars, delayVars, regVars>>

NoParent == -1
NoDevice == 0       \* SubDevice 0 is nobody's child: NonZeroU16
Devices  == 0..(n - 1)

(***************************************************************************)
(* The segment: what is really connected, and when a frame is where.       *)
(***************************************************************************)
Below(d, e) == d < e /\ e <= last[d]

\* Intervals that are nested or disjoint, all in that of the first SubDevice.
IsTree ==
  /\ \A d \in Devices : d <= last[d]
  /\ \A d, e \in Devices : Below(d, e) => last[e] <= last[d]
  /\ last[0] = n - 1

\* p is the SubDevice d is connected to: the closest one above it.
IsParent(p, d) == Below(p, d) /\ \A e \in (p + 1)..(d - 1) : ~Below(e, d)

Children(d) == {c \in Devices : IsParent(d, c)}

\* Ports from the entry port on, the way a frame passes them.
Turn(d, p) == (p - entry[d] + 4) % 4

\* Children are on ports of their own, and numbered the way frames go.
IsWired ==
  \A p, c \in Devices : IsParent(p, c) =>
    /\ port[c] # entry[p]
    /\ \A e \in Devices : IsParent(p, e) /\ c < e =>
         Turn(p, port[c]) < Turn(p, port[e])

ActivePorts(d) == {entry[d]} \cup {port[c] : c \in Children(d)}

\* When the frame comes to d: cables on the way are passed once, those of
\* branches it has left twice.
Transit(d) ==
  Sum(link, 1..d) + Sum(link, {c \in 1..d : c # d /\ ~Below(c, d)})

\* When it is back at d from all that is on the ports up to p.
BackAt(d, p) ==
  Transit(d) +
  2 * Sum(link, UNION {c..last[c] : c \in {e \in Children(d) :
                                        Turn(d, port[e]) <= Turn(d, p)}})

Zeros == [d \in Devices |-> 0]

Init ==
  /\ n \in 1..MaxDevices
  /\ last \in [Devices -> Devices] /\ IsTree
  /\ \E odd \in SUBSET Devices :
       /\ Cardinality(odd) <= IF n <= OddDevices THEN MaxOdd ELSE 0
       /\ dc \in {f \in [Devices -> BOOLEAN] : \A d \in Devices \ odd : f[d]}
       /\ entry \in {f \in [Devices -> EntryPorts] :
                       \A d \in Devices \ odd : f[d] = 0}
       /\ clock \in {f \in [Devices -> Clocks] :
                       \A d \in Devices \ odd : f[d] = 0}
       /\ deaf \in {f \in [Devices -> Misses] :
                      \A d \in Devices : (d \in odd /\ dc[d]) \/ f[d] = {}}
  /\ port \in [Devices -> PortIdx] /\ port[0] = 0 /\ IsWired
  /\ \E c \in Cables : link = [d \in Devices |-> IF d = 0 THEN 0 ELSE c[d]]
  /\ pc = "latch" /\ i = 0
  /\ dc_receive_times = [d \in Devices |-> [p \in PortIdx |-> 0]]
  /\ dc_receive_time = Zeros
  /\ parent_index = [d \in Devices |-> NoParent]
  /\ downstream_to = [d \in Devices |-> [p \in PortIdx |-> NoDevice]]
  /\ delay_accum = 0 /\ propagation_delay = Zeros
  /\ offset_reg = Zeros /\ delay_reg = Zeros

(***************************************************************************)
(* latch_dc_times: a broadcast makes every SubDevice note when the frame   *)
(* passes; those with DC support are asked for the times.  One the         *)
(* broadcast did not reach answers with what it noted before, one that     *)
(* misses the read of DcReceiveTime leaves the zero that was sent.         *)
(***************************************************************************)
PortTimesOf(d, old) ==
  [p \in PortIdx |->
     IF "latch" \in deaf[d] THEN old.ports[p]
     ELSE IF p \in ActivePorts(d) THEN (clock[d] + BackAt(d, p)) % TimeMod ELSE 0]

ReceiveTimeOf(d, old) ==
  IF "time" \in deaf[d] THEN 0
  ELSE IF "latch" \in deaf[d] THEN old.time ELSE clock[d] + Transit(d)

\* The times of the SubDevices of S are read and stored.
ReadTimes(S, old) ==
  /\ dc_receive_times' = [d \in Devices |->
       IF d \in S /\ dc[d] THEN PortTimesOf(d, old) ELSE dc_receive_times[d]]
  /\ dc_receive_time' = [d \in Devices |->
       IF d \in S /\ dc[d] THEN ReceiveTimeOf(d, old) ELSE dc_receive_time[d]]

LatchDcTimes ==
  /\ pc = "latch" /\ pc' = "assign"
  /\ \E old \in OldLatches : ReadTimes(Devices, old)
  /\ UNCHANGED <<segVars, i, treeVars, delayVars, regVars>>

\* The broadcast or a read of the SubDevice d is lost, or d does not answer the
\* read of its port times; those before it have been read.
LatchFails(d) ==
  /\ "command" \in Faults
  /\ pc = "latch" /\ pc' = "failed"
  /\ \E old \in OldLatches : ReadTimes(0..(d - 1), old)
  /\ UNCHANGED <<segVars, i, treeVars, delayVars, regVars>>

(***************************************************************************)
(* Ports.                                                                  *)
(***************************************************************************)

SatSub(a, b) == IF a < b THEN 0 ELSE a - b

OpenPorts(d)  == Cardinality(ActivePorts(d))
LineEnd(d)    == OpenPorts(d) = 1

\* Mutant: a fork is no junction.
IsCross(d)    == OpenPorts(d) >= 4

IsJunction(d) == OpenPorts(d) >= 3

LowestOf(S) == CHOOSE p \in S : \A q \in S : p <= q
HighestOf(S) == CHOOSE p \in S : \A q \in S : q <= p

\* The active port that saw the frame first, the lowest of several.
EntryPort(d) ==
  LET t == dc_receive_times[d]
  IN LowestOf({p \in ActivePorts(d) :
                 \A q \in ActivePorts(d) : t[p] <= t[q]})

\* The k-th active port of d, counted from 0 and beginning again at the end.
ActivePort(d, k) ==
  CHOOSE p \in ActivePorts(d) :
    Cardinality({q \in ActivePorts(d) : q < p}) = k % OpenPorts(d)

\* next_assignable_port: the first free one of four, counted over the active
\* ports from the position after the entry port's index.
NextAssignable(d, q) ==
  LET At(k) == ActivePort(d, EntryPort(d) + 1 + k)
      Free(k) == downstream_to[d][At(k)] = NoDevice
  IN \E k \in PortIdx : q = At(k) /\ Free(k) /\ \A j \in 0..(k - 1) : ~Free(j)

Spread(T) == IF T = {} THEN 0 ELSE HighestOf(T) - LowestOf(T)

TotalPropagationTime(d) ==
  Spread({dc_receive_times[d][p] : p \in ActivePorts(d)})

PropagationTimeTo(d, p) ==
  Spread({dc_receive_times[d][q] :
            q \in {r \in ActivePorts(d) : EntryPort(d) <= r /\ r <= p}})

IntermediatePropagationTimeTo(d, p) ==
  LET t == dc_receive_times[d]
      delta == [a \in 0..2 |->
                  IF a < p /\ {a, a + 1} \subseteq ActivePorts(d)
                  THEN SatSub(t[a + 1], t[a]) ELSE 0]
  IN delta[0] + delta[1] + delta[2]

(***************************************************************************)
(* assign_parent_relationships, one turn of its loop.                      *)
(***************************************************************************)

\* Mutant: the ends of lines are not looked at.
FoundParentBefore(p) == IF i = 0 THEN p = NoParent ELSE p = i - 1

\* find_subdevice_parent: the SubDevice before, or the last junction before
\* that if the SubDevice before is the end of a line.
FoundParent(p) ==
  IF i = 0 THEN p = NoParent
  ELSE IF LineEnd(i - 1)
       THEN /\ p \in 0..(i - 2) /\ IsJunction(p)
            /\ \A j \in (p + 1)..(i - 2) : ~IsJunction(j)
       ELSE p = i - 1

\* is_child_of: on a port q of the junction p other than its last.
IsChildOf(p, q) == IsJunction(p) /\ q # HighestOf(ActivePorts(p))

\* configure_subdevice_offsets: the delay of i from the one before it, where
\* q is the port of its parent p it is assigned to.
DelayTo(p, q) ==
  LET mine  == TotalPropagationTime(i)
      whole == TotalPropagationTime(p)
  IN CASE OpenPorts(p) = 2 -> SatSub(whole, mine) \div 2
       [] OpenPorts(p) = 3 ->
            IF IsChildOf(p, q)
            THEN SatSub(PropagationTimeTo(p, q), mine) \div 2
            ELSE SatSub(whole, mine) \div 2
       [] OpenPorts(p) = 4 ->
            IF IsChildOf(p, q)
            THEN SatSub(IntermediatePropagationTimeTo(p, q), mine) \div 2
            ELSE SatSub(whole, delay_accum)
       [] OTHER -> 0

NextDevice ==
  IF i + 1 < n THEN i' = i + 1 /\ UNCHANGED pc
               ELSE i' = 0 /\ pc' = "write"

\* The first SubDevice has no parent.
AssignFirst ==
  /\ pc = "assign" /\ FoundParent(NoParent)
  /\ parent_index' = [parent_index EXCEPT ![i] = NoParent]
  /\ NextDevice
  /\ UNCHANGED <<segVars, timeVars, downstream_to, delayVars, regVars>>

\* Any other is assigned to the parent's next free port.
AssignChild(p, q) ==
  LET d == delay_accum + DelayTo(p, q)
  IN
  /\ pc = "assign" /\ i > 0 /\ FoundParent(p) /\ NextAssignable(p, q)
  /\ parent_index' = [parent_index EXCEPT ![i] = p]
  /\ downstream_to' = [downstream_to EXCEPT ![p] = [@ EXCEPT ![q] = i]]
  /\ IF dc[i]
     THEN /\ delay_accum' = d
          /\ propagation_delay' = [propagation_delay EXCEPT ![i] = d]
     ELSE UNCHANGED delayVars
  /\ NextDevice
  /\ UNCHANGED <<segVars, timeVars, regVars>>

\* The loop stops: with Error::Topology if there is no junction before the end
\* of the line (p is NoParent), by the panic "no free ports on parent" if p is
\* the parent and all its ports are assigned.
AssignStops(p) ==
  /\ pc = "assign" /\ i > 0
  /\ IF p = NoParent THEN \A r \in Devices : ~FoundParent(r)
     ELSE FoundParent(p) /\ \A q \in PortIdx : ~NextAssignable(p, q)
  /\ parent_index' = [parent_index EXCEPT ![i] = p]
  /\ pc' = IF p = NoParent THEN "topology" ELSE "panicked"
  /\ UNCHANGED <<segVars, i, timeVars, downstream_to, delayVars, regVars>>

(***************************************************************************)
(* write_dc_parameters.                                                    *)
(***************************************************************************)

\* Mutant: the offset has the wrong sign.
WriteDcParametersAdded ==
  /\ pc = "write"
  /\ offset_reg' = IF dc[i] /\ "offset" \notin deaf[i]
                   THEN [offset_reg EXCEPT ![i] = Now + dc_receive_time[i]]
                   ELSE offset_reg
  /\ delay_reg' = IF dc[i] /\ "delay" \notin deaf[i]
                  THEN [delay_reg EXCEPT ![i] = propagation_delay[i]]
                  ELSE delay_reg
  /\ IF i + 1 < n THEN i' = i + 1 /\ UNCHANGED pc
                  ELSE i' = 0 /\ pc' = "done"
  /\ UNCHANGED <<segVars, timeVars, treeVars, delayVars>>

\* The offset that makes the local time of the latch Now, and the delay.  Who
\* misses them goes unnoticed.
WriteDcParameters ==
  /\ pc = "write"
  /\ offset_reg' = IF dc[i] /\ "offset" \notin deaf[i]
                   THEN [offset_reg EXCEPT ![i] = Now - dc_receive_time[i]]
                   ELSE offset_reg
  /\ delay_reg' = IF dc[i] /\ "delay" \notin deaf[i]
                  THEN [delay_reg EXCEPT ![i] = propagation_delay[i]]
                  ELSE delay_reg
  /\ IF i + 1 < n THEN i' = i + 1 /\ UNCHANGED pc
                  ELSE i' = 0 /\ pc' = "done"
  /\ UNCHANGED <<segVars, timeVars, treeVars, delayVars>>

\* One of the two is lost, on the way there or back: configure_dc returns the
\* error, and each register may have been written.
WriteFails ==
  /\ "command" \in Faults
  /\ pc = "write" /\ dc[i] /\ pc' = "failed"
  /\ offset_reg' \in {offset_reg, [offset_reg EXCEPT ![i] = Now - dc_receive_time[i]]}
  /\ delay_reg' \in {delay_reg, [delay_reg EXCEPT ![i] = propagation_delay[i]]}
  /\ UNCHANGED <<segVars, i, timeVars, treeVars, delayVars>>

Next ==
  \/ LatchDcTimes
  \/ \E d \in Devices : LatchFails(d)
  \/ AssignFirst
  \/ \E p \in Devices, q \in PortIdx : AssignChild(p, q)
  \/ \E p \in Devices \cup {NoParent} : AssignStops(p)
  \/ WriteDcParameters \/ WriteFails

Spec == Init /\ [][Next]_vars

(***************************************************************************)
(* Properties.                                                             *)
(***************************************************************************)

\* The segment is a tree on ports of its SubDevices.
SegmentOK ==
  /\ n \in Nat \ {0}
  /\ last \in [Devices -> Devices] /\ IsTree
  /\ entry \in [Devices -> PortIdx] /\ port \in [Devices -> PortIdx] /\ IsWired

\* Where configure_dc is, and the parents it has found.
SearchOK ==
  /\ pc \in {"latch", "assign", "write", "done", "panicked", "topology",
             "failed"}
  /\ i \in Devices /\ (pc = "latch" => i = 0)
  /\ parent_index \in [Devices -> Devices \cup {NoParent}]

\* SubDevices that have a parent and a port by now.
Assigned == IF pc \in {"write", "done"} THEN Devices
            ELSE IF pc \in {"assign", "panicked"} THEN 0..(i - 1) ELSE {}

RightParent(d) == d = 0 \/ IsParent(parent_index[d], d)

\* find_subdevice_parent finds the SubDevice d is really connected to exactly
\* if no junction lies between the two: a fork or cross in an earlier branch
\* of the same junction is taken for the parent.
ParentsFound ==
  \A d \in Assigned \ {0} : \A p \in Devices : IsParent(p, d) =>
    (parent_index[d] = p <=> \A j \in (p + 1)..(d - 1) : ~IsJunction(j))

\* "Did not find fork parent": Error::Topology is returned for no segment.
TopologyAccepted == pc # "topology"

\* What the code counts on: d and those before it have DC support, have latched
\* the times, are entered by port 0, have the right parent and are not the last
\* branch of a cross.
Regular(d) ==
  \A e \in 0..d :
    /\ dc[e] /\ "latch" \notin deaf[e]
    /\ EntryPort(e) = 0 /\ entry[e] = 0 /\ RightParent(e)
    /\ e > 0 => port[e] # 3 \/ OpenPorts(parent_index[e]) < 4

\* configure_dc gives a SubDevice and those before it one time: its clock with
\* the offset and the delay written into it shows what the application's clock
\* did when the frame passed the first, whatever its own clock showed, whatever
\* commands to others were missed and however wrong the others' clocks are then.
\* One that misses its own is left with a wrong time, and done all the same.
ClocksAgree ==
  pc = "done" => \A d \in Devices : Regular(d) /\ deaf[d] = {} =>
    clock[d] + offset_reg[d] + delay_reg[d] = Now

=============================================================================
