---------------------- MODULE DistributedClocksProofs ----------------------
(***************************************************************************)
(* The parents find_subdevice_parent finds and the delays configure_dc     *)
(* computes, for every tree of SubDevices.                                 *)
(*                                                                         *)
(* Parents: a SubDevice d that is not the first is connected to one before *)
(* it, r.  If the SubDevice before d has an open port downstream, r is     *)
(* that one.  If it is the end of a line, r is further up and has two      *)
(* children, so it is a junction: the search finds some junction, and it   *)
(* finds r exactly if there is none between r and d.                       *)
(*                                                                         *)
(* Delays: the times at the ports of r differ by twice the delays of the   *)
(* cables behind them, so that the round trip through the port of d less   *)
(* the round trip below d is twice the way from r to d through the branch  *)
(* between.  That branch is a line, as no junction is in it, so the frame  *)
(* comes to d just this way later than to the SubDevice before d.          *)
(***************************************************************************)
EXTENDS DistributedClocks, SequenceFacts, FiniteSetTheorems

\* A SubDevice is connected to one at most.
LEMMA OneParent ==
  ASSUME SegmentOK, NEW d \in Devices, NEW p \in Devices, NEW r \in Devices,
         IsParent(p, d), IsParent(r, d)
  PROVE  p = r
BY DEF SegmentOK, Devices, IsParent, Below

\* Every SubDevice but the first is connected to one before it.
LEMMA SomeParent ==
  ASSUME SegmentOK, NEW d \in Devices, d > 0
  PROVE  \E r \in Devices : IsParent(r, d)
<1> DEFINE A == {e \in Devices : Below(e, d)}
<1>1. d \in Nat /\ A \in SUBSET (0..d)
  BY DEF SegmentOK, Devices, Below
<1>2. 0 \in A
  BY DEF SegmentOK, IsTree, Devices, Below
<1>3. PICK r \in A : \A x \in A : x <= r
  BY <1>1, <1>2, Greatest, Zenon
<1>4. IsParent(r, d)
  BY <1>3 DEF IsParent, SegmentOK, Devices, Below
<1> QED BY <1>4

\* Ports of a SubDevice are finitely many.
LEMMA PortsFinite ==
  ASSUME SegmentOK, NEW d \in Devices
  PROVE  ActivePorts(d) \subseteq PortIdx /\ IsFiniteSet(ActivePorts(d))
<1>1. ActivePorts(d) \in SUBSET PortIdx
  BY DEF SegmentOK, ActivePorts, Children
<1>2. IsFiniteSet(PortIdx)
  <2>1. IsFiniteSet(0..3)
    BY FS_Interval, 0 \in Int, 3 \in Int
  <2> QED BY <2>1 DEF PortIdx
<1> QED BY <1>1, <1>2, FS_Subset

\* The end of a line is connected to nothing further.
LEMMA LineEnds ==
  ASSUME SegmentOK, NEW d \in Devices
  PROVE  LineEnd(d) <=> Children(d) = {}
<1>1. IsFiniteSet(ActivePorts(d))
  BY PortsFinite
<1>2. entry[d] \in ActivePorts(d)
  BY DEF ActivePorts
<1>3. LineEnd(d) <=> ActivePorts(d) = {entry[d]}
  BY <1>1, <1>2, FS_Singleton DEF LineEnd, OpenPorts
<1>4. \A c \in Children(d) : port[c] # entry[d] /\ port[c] \in ActivePorts(d)
  BY DEF SegmentOK, IsWired, Children, ActivePorts
<1> QED BY <1>3, <1>4 DEF ActivePorts

\* A new element makes a set larger by one.
LEMMA OneMore ==
  ASSUME NEW S, NEW x, IsFiniteSet(S), x \notin S
  PROVE  IsFiniteSet(S \cup {x}) /\ Cardinality(S \cup {x}) = Cardinality(S) + 1
BY FS_AddElement

\* A SubDevice that two others are connected to is a junction.
LEMMA TwoChildren ==
  ASSUME SegmentOK, NEW d \in Devices, NEW c \in Children(d),
         NEW e \in Children(d), c < e
  PROVE  IsJunction(d)
<1> DEFINE P == {entry[d], port[c], port[e]}
<1>1. P \in SUBSET ActivePorts(d)
  BY DEF ActivePorts
<1>2. port[c] # entry[d] /\ port[e] # entry[d] /\ port[c] # port[e]
  <2>1. c \in Devices /\ e \in Devices /\ IsParent(d, c) /\ IsParent(d, e)
    BY DEF Children
  <2>2. port[c] # entry[d] /\ port[e] # entry[d]
    BY <2>1 DEF SegmentOK, IsWired
  <2>3. Turn(d, port[c]) < Turn(d, port[e])
    BY <2>1 DEF SegmentOK, IsWired
  <2>4. Turn(d, port[c]) \in Int
    BY <2>1 DEF SegmentOK, Turn, PortIdx
  <2> QED BY <2>2, <2>3, <2>4
<1>3. Cardinality(P) = 3
  <2> DEFINE One == {entry[d]}
             Two == One \cup {port[c]}
  <2>1. IsFiniteSet(One) /\ Cardinality(One) = 1
    BY FS_Singleton
  <2>2. port[c] \notin One /\ port[e] \notin Two /\ P = Two \cup {port[e]}
    BY <1>2
  <2> HIDE DEF P, One
  <2>3. IsFiniteSet(Two) /\ Cardinality(Two) = 2
    BY <2>1, <2>2, OneMore
  <2> HIDE DEF Two
  <2>4. Cardinality(Two \cup {port[e]}) = 3
    BY <2>2, <2>3, OneMore
  <2> QED BY <2>2, <2>4
<1>4. IsFiniteSet(ActivePorts(d))
  BY PortsFinite
<1>5. Cardinality(ActivePorts(d)) \in Nat /\ Cardinality(P) <= Cardinality(ActivePorts(d))
  BY <1>1, <1>4, FS_Subset, FS_CardinalityType
<1> QED BY <1>3, <1>5 DEF IsJunction, OpenPorts

\* What find_subdevice_parent finds for the SubDevice i connected to r.
LEMMA SearchResult ==
  ASSUME SegmentOK, i \in Devices, i > 0, NEW r \in Devices, IsParent(r, i)
  PROVE  /\ \E p \in Devices : FoundParent(p)
         /\ \A p \in Devices : FoundParent(p) =>
              (p = r <=> \A j \in (r + 1)..(i - 1) : ~IsJunction(j))
<1>1. i \in Nat /\ r \in Nat /\ r < i /\ i - 1 \in Devices
  BY DEF SegmentOK, Devices, IsParent, Below
<1>2. CASE ~LineEnd(i - 1)
  <2>1. PICK c \in Children(i - 1) : TRUE
    BY <1>1, <1>2, LineEnds
  <2>2. IsParent(i - 1, i)
    BY <1>1, <2>1 DEF Children, IsParent, Below, Devices, SegmentOK
  <2>3. r = i - 1
    BY <1>1, <2>2, OneParent
  <2> QED BY <1>1, <1>2, <2>3 DEF FoundParent
<1>3. CASE LineEnd(i - 1)
  <2> DEFINE J == {j \in 0..(i - 2) : IsJunction(j)}
  <2>1. r < i - 1
    <3>1. Children(i - 1) = {}
      BY <1>1, <1>3, LineEnds
    <3> QED BY <1>1, <3>1 DEF Children
  <2>2. r + 1 \in Children(r) /\ i \in Children(r)
    <3>1. r + 1 \in Devices /\ IsParent(r, r + 1)
      BY <1>1, <2>1 DEF Devices, IsParent, Below, SegmentOK
    <3> QED BY <3>1 DEF Children
  <2>3. IsJunction(r)
    BY <1>1, <2>1, <2>2, TwoChildren
  <2>4. ~IsJunction(i - 1)
    BY <1>3 DEF LineEnd, IsJunction
  <2>5. i - 2 \in Nat /\ r \in J
    BY <1>1, <2>1, <2>3
  <2>6. \E p \in Devices : FoundParent(p)
    <3>1. PICK m \in J : \A x \in J : x <= m
      <4>1. J \in SUBSET (0..(i - 2)) /\ J # {}
        BY <2>5
      <4> HIDE DEF J
      <4> QED BY <2>5, <4>1, Greatest
    <3>2. m \in 0..(i - 2) /\ IsJunction(m) /\ m \in Devices
      BY <1>1, <3>1 DEF Devices, SegmentOK
    <3>3. \A j \in (m + 1)..(i - 2) : ~IsJunction(j)
      <4> SUFFICES ASSUME NEW j \in (m + 1)..(i - 2), IsJunction(j)
                   PROVE  FALSE
        OBVIOUS
      <4>1. j \in J
        BY <1>1, <3>2
      <4> QED BY <3>1, <3>2, <4>1
    <3> QED BY <1>1, <1>3, <3>2, <3>3 DEF FoundParent
  <2>7. ASSUME NEW p \in Devices, FoundParent(p)
        PROVE  p = r <=> \A j \in (r + 1)..(i - 1) : ~IsJunction(j)
    <3>1. /\ p \in 0..(i - 2) /\ IsJunction(p)
          /\ \A j \in (p + 1)..(i - 2) : ~IsJunction(j)
      BY <1>1, <1>3, <2>7 DEF FoundParent
    <3>2. r <= p
      BY <1>1, <2>1, <2>3, <3>1
    <3>3. ASSUME p # r PROVE p \in (r + 1)..(i - 1)
      BY <1>1, <3>1, <3>2, <3>3
    <3>4. ASSUME p = r, NEW j \in (r + 1)..(i - 1) PROVE ~IsJunction(j)
      <4>1. j = i - 1 \/ j \in (p + 1)..(i - 2)
        BY <1>1, <3>4
      <4> QED BY <2>4, <3>1, <4>1
    <3> QED BY <3>1, <3>3, <3>4
  <2> QED BY <2>6, <2>7
<1> QED BY <1>2, <1>3

\* What is wired stays, and with it every fact about it.
LEMMA SegmentStays ==
  ASSUME UNCHANGED segVars
  PROVE  /\ Devices' = Devices
         /\ SegmentOK => SegmentOK'
         /\ \A p, d : IsParent(p, d)' = IsParent(p, d)
         /\ \A d : IsJunction(d)' = IsJunction(d)
<1> USE DEF segVars, Devices, Below, IsParent
<1>1. Devices' = Devices
  OBVIOUS
<1>2. \A p, d : IsParent(p, d)' = IsParent(p, d)
  OBVIOUS
<1>3. SegmentOK => SegmentOK'
  BY DEF SegmentOK, IsTree, IsWired, Turn
<1>4. \A d : IsJunction(d)' = IsJunction(d)
  BY DEF IsJunction, OpenPorts, ActivePorts, Children
<1> QED BY <1>1, <1>2, <1>3, <1>4

\* The inductive invariant: the tree is one, and what has been found so far.
ParentInv == SegmentOK /\ SearchOK /\ ParentsFound /\ TopologyAccepted

\* Before the search nothing is found and the segment is a tree.
LEMMA ParentInit == Init => ParentInv
<1> SUFFICES ASSUME Init PROVE ParentInv
  OBVIOUS
<1>1. SegmentOK
  <2>1. n \in Nat \ {0}
    BY SizesAssumption DEF Init
  <2>2. EntryPorts \subseteq PortIdx
    BY OptionsAssumption
  <2> QED BY <2>1, <2>2 DEF Init, SegmentOK
<1>2. SearchOK
  BY <1>1 DEF Init, SearchOK, SegmentOK, Devices
<1>3. ParentsFound /\ TopologyAccepted
  BY DEF Init, ParentsFound, TopologyAccepted, Assigned
<1> QED BY <1>1, <1>2, <1>3 DEF ParentInv

\* One turn of the loop that leaves the parents of the others alone.
LEMMA ParentStep ==
  ASSUME ParentInv, pc = "assign", UNCHANGED segVars, NextDevice,
         NEW q \in Devices \cup {NoParent},
         parent_index' = [parent_index EXCEPT ![i] = q],
         \A p \in Devices : i > 0 /\ IsParent(p, i) =>
           (q = p <=> \A j \in (p + 1)..(i - 1) : ~IsJunction(j))
  PROVE  ParentInv'
<1>1. SegmentOK' /\ Devices' = Devices
  BY SegmentStays DEF ParentInv
<1>2. n \in Nat \ {0} /\ n' = n /\ i \in 0..(n - 1)
  BY DEF ParentInv, SegmentOK, SearchOK, Devices, segVars
<1>3. SearchOK'
  BY <1>1, <1>2 DEF ParentInv, SearchOK, NextDevice, Devices
<1>4. TopologyAccepted'
  BY DEF NextDevice, TopologyAccepted
<1>5. Assigned' = 0..i
  BY <1>2 DEF NextDevice, Assigned, Devices
<1>6. ParentsFound'
  <2> SUFFICES ASSUME NEW d \in 0..i, d # 0, NEW p \in Devices, IsParent(p, d)
               PROVE  parent_index'[d] = p <=>
                        \A j \in (p + 1)..(d - 1) : ~IsJunction(j)
    BY <1>1, <1>5, SegmentStays DEF ParentsFound
  <2>1. CASE d = i
    <3>1. parent_index'[d] = q
      BY <2>1 DEF ParentInv, SearchOK
    <3> QED BY <1>2, <2>1, <3>1
  <2>2. CASE d # i
    <3>1. parent_index'[d] = parent_index[d]
      BY <2>2 DEF ParentInv, SearchOK
    <3>2. d \in Assigned \ {0}
      BY <1>2, <2>2 DEF Assigned
    <3> QED BY <3>1, <3>2 DEF ParentInv, ParentsFound
  <2> QED BY <2>1, <2>2
<1> QED BY <1>1, <1>3, <1>4, <1>6 DEF ParentInv

\* A step that finds no parent and assigns no SubDevice.
LEMMA OtherStep ==
  ASSUME ParentInv, UNCHANGED <<segVars, parent_index>>, SearchOK', pc' # "topology",
         Assigned' \subseteq Assigned
  PROVE  ParentInv'
<1>1. SegmentOK' /\ Devices' = Devices
  BY SegmentStays DEF ParentInv
<1>2. ParentsFound'
  BY <1>1, SegmentStays DEF ParentInv, ParentsFound
<1> QED BY <1>1, <1>2 DEF ParentInv, TopologyAccepted

\* Every step of configure_dc keeps the invariant.
LEMMA ParentNext == ParentInv /\ [Next]_vars => ParentInv'
<1> SUFFICES ASSUME ParentInv, [Next]_vars PROVE ParentInv'
  OBVIOUS
<1> USE DEF ParentInv
<1>1a. ASSUME NEW d \in Devices, LatchFails(d) PROVE ParentInv'
  <2>1. SearchOK' /\ Assigned' = {}
    BY <1>1a DEF LatchFails, SearchOK, Assigned, Devices, segVars, treeVars
  <2> QED BY <1>1a, <2>1, OtherStep DEF LatchFails, treeVars
<1>1. CASE LatchDcTimes
  <2>1. SearchOK' /\ Assigned' = {}
    BY <1>1 DEF LatchDcTimes, SearchOK, Assigned, Devices, segVars, treeVars
  <2> QED BY <1>1, <2>1, OtherStep DEF LatchDcTimes, treeVars
<1>2. CASE AssignFirst
  <2>1. i = 0
    BY <1>2 DEF AssignFirst, FoundParent, NoParent, SearchOK, SegmentOK, Devices
  <2>2. /\ pc = "assign" /\ UNCHANGED segVars /\ NextDevice
        /\ parent_index' = [parent_index EXCEPT ![i] = NoParent]
    BY <1>2 DEF AssignFirst
  <2>3. ~(i > 0)
    BY <2>1
  <2>4. NoParent \in Devices \cup {NoParent}
    OBVIOUS
  <2> QED BY <2>2, <2>3, <2>4, ParentStep
<1>3. ASSUME NEW p \in Devices \cup {NoParent}, AssignStops(p)
      PROVE  FoundParent(p) /\ p \in Devices
  <2>1. i \in Devices /\ i > 0
    BY <1>3 DEF AssignStops, SearchOK
  <2>2. PICK r \in Devices : IsParent(r, i)
    BY <2>1, SomeParent
  <2>3. \E x \in Devices : FoundParent(x)
    BY <2>1, <2>2, SearchResult
  <2>4. p # NoParent
    BY <1>3, <2>3 DEF AssignStops
  <2> QED BY <1>3, <2>4 DEF AssignStops
<1>4. ASSUME NEW p \in Devices \cup {NoParent}, AssignStops(p)
      PROVE  ParentInv'
  <2>0. p \in Devices /\ p # NoParent
    <3>1. p \in Devices
      BY <1>3, <1>4
    <3> QED BY <3>1 DEF Devices, NoParent
  <2>1. SegmentOK' /\ Devices' = Devices
    BY <1>4, SegmentStays DEF AssignStops
  <2>2. SearchOK' /\ TopologyAccepted'
    BY <1>4, <2>0, <2>1 DEF AssignStops, SearchOK, TopologyAccepted
  <2>3. \A d \in Assigned' : d \in Assigned /\ parent_index'[d] = parent_index[d]
    BY <1>4, <2>0 DEF AssignStops, Assigned, SearchOK, SegmentOK, Devices
  <2>4. ParentsFound'
    BY <1>4, <2>1, <2>3, SegmentStays DEF AssignStops, ParentsFound
  <2> QED BY <2>1, <2>2, <2>4
<1>5. ASSUME NEW p \in Devices, NEW q \in PortIdx, AssignChild(p, q)
      PROVE  ParentInv'
  <2>1. i > 0 /\ FoundParent(p) /\ i \in Devices
    BY <1>5 DEF AssignChild, SearchOK
  <2>2. \A r \in Devices : IsParent(r, i) =>
          (p = r <=> \A j \in (r + 1)..(i - 1) : ~IsJunction(j))
    BY <2>1, SearchResult
  <2>3. /\ pc = "assign" /\ UNCHANGED segVars /\ NextDevice
        /\ parent_index' = [parent_index EXCEPT ![i] = p]
    BY <1>5 DEF AssignChild
  <2> QED BY <2>2, <2>3, ParentStep
<1>6. CASE WriteDcParameters
  <2>1. SearchOK' /\ Assigned' \subseteq Assigned /\ pc' # "topology"
    <3>1. /\ pc = "write" /\ n' = n /\ parent_index' = parent_index
          /\ \/ i + 1 < n /\ i' = i + 1 /\ pc' = pc
             \/ i' = 0 /\ pc' = "done"
      BY <1>6 DEF WriteDcParameters, segVars, treeVars
    <3>2. n \in Nat \ {0} /\ i \in 0..(n - 1)
      BY DEF SearchOK, SegmentOK, Devices
    <3>3. Devices' = Devices /\ i' \in Devices /\ pc' \in {"write", "done"}
      BY <3>1, <3>2 DEF Devices
    <3> QED BY <3>1, <3>3 DEF SearchOK, Assigned
  <2> QED BY <1>6, <2>1, OtherStep DEF WriteDcParameters, treeVars
<1>7. CASE WriteFails
  <2>1. SearchOK' /\ Assigned' = {}
    BY <1>7 DEF WriteFails, SearchOK, Assigned, Devices, segVars, treeVars
  <2> QED BY <1>7, <2>1, OtherStep DEF WriteFails, treeVars
<1>8. CASE UNCHANGED vars
  <2>1. SearchOK' /\ Assigned' = Assigned /\ pc' = pc
    BY <1>8 DEF vars, SearchOK, Assigned, Devices, segVars, treeVars
  <2> QED BY <1>8, <2>1, OtherStep DEF vars, treeVars, TopologyAccepted
<1> QED BY <1>1a, <1>1, <1>2, <1>4, <1>5, <1>6, <1>7, <1>8 DEF Next

\* find_subdevice_parent is right exactly where no junction lies between a
\* SubDevice and the one it is connected to, for every tree and wiring.
THEOREM ParentsAreFound == Spec => []ParentsFound
<1>1. ParentInv => ParentsFound
  BY DEF ParentInv
<1> QED BY <1>1, ParentInit, ParentNext, PTL DEF Spec

\* No tree of SubDevices makes find_subdevice_parent return Error::Topology.
THEOREM TopologyIsAccepted == Spec => []TopologyAccepted
<1>1. ParentInv => TopologyAccepted
  BY DEF ParentInv
<1> QED BY <1>1, ParentInit, ParentNext, PTL DEF Spec

(***************************************************************************)
(* Sums of delays.                                                         *)
(***************************************************************************)

\* What a sum counts up.
Upto(g, f, S) ==
  /\ g \in [0..MaxDevices -> Nat] /\ g[0] = 0 /\ Sum(f, S) = g[MaxDevices]
  /\ \A k \in 1..MaxDevices : g[k] = g[k-1] + (IF k \in S THEN f[k] ELSE 0)

Summable(f, S) == S \in SUBSET (1..MaxDevices) /\ \A k \in S : f[k] \in Nat

\* The recursion of Sum has a solution.
LEMMA SumCounts ==
  ASSUME NEW f, NEW S, Summable(f, S)
  PROVE  \E g : Upto(g, f, S)
<1> DEFINE w == [k \in 1..MaxDevices |-> IF k \in S THEN f[k] ELSE 0]
           R(g) == [k \in 0..MaxDevices |->
                      IF k = 0 THEN 0 ELSE g[k-1] + (IF k \in S THEN f[k] ELSE 0)]
<1>1. MaxDevices \in Nat
  BY SizesAssumption
<1>2. w \in [1..MaxDevices -> Nat]
  BY DEF Summable
<1>3. PICK g \in [0..MaxDevices -> Nat] :
         g[0] = 0 /\ \A k \in 1..MaxDevices : g[k] = g[k-1] + w[k]
  <2> HIDE DEF w
  <2> QED BY <1>1, <1>2, Prefixes
<1>4. g = R(g)
  <2>1. \A k \in 0..MaxDevices : k # 0 => k \in 1..MaxDevices
    BY <1>1
  <2>2. ASSUME NEW k \in 0..MaxDevices PROVE g[k] = R(g)[k]
    <3>1. CASE k = 0
      BY <1>3, <3>1
    <3>2. CASE k # 0
      BY <1>3, <2>1, <3>2
    <3> QED BY <3>1, <3>2
  <2>3. g = [k \in 0..MaxDevices |-> g[k]] /\ R(g) = [k \in 0..MaxDevices |-> R(g)[k]]
    OBVIOUS
  <2> QED BY <2>2, <2>3
<1> DEFINE h == CHOOSE x : x = R(x)
<1>5. h = R(h)
  <2> HIDE DEF R
  <2> QED BY <1>4
<1>6. Sum(f, S) = h[MaxDevices]
  BY DEF Sum
<1>7. h = g
  <2> HIDE DEF h
  <2>1. h[0] = 0
    BY <1>1, <1>5
  <2>2. \A k \in 1..MaxDevices : h[k] = h[k-1] + w[k]
    <3> TAKE k \in 1..MaxDevices
    <3>1. k \in 0..MaxDevices /\ k # 0
      BY <1>1
    <3> QED BY <1>5, <3>1
  <2>3. \A k \in 0..MaxDevices : h[k] = g[k]
    <3> HIDE DEF w
    <3>1. h[0] = g[0]
      BY <1>3, <2>1
    <3>2. \A k \in 1..MaxDevices : h[k-1] = g[k-1] => h[k] = g[k]
      BY <1>3, <2>2
    <3> DEFINE D == {k \in 0..MaxDevices : h[k] # g[k]}
    <3> SUFFICES ASSUME D # {} PROVE FALSE
      OBVIOUS
    <3>3. PICK m \in D : \A x \in D : m <= x
      <4>1. D \in SUBSET Nat
        BY <1>1
      <4> HIDE DEF D
      <4> QED BY <4>1, Least
    <3>4. m \in 1..MaxDevices /\ m - 1 \in 0..MaxDevices /\ ~(m <= m - 1)
      BY <1>1, <3>1
    <3>5. m - 1 \notin D
      <4> HIDE DEF D
      <4> QED BY <3>3, <3>4
    <3> QED BY <3>2, <3>4, <3>5
  <2>4. h = [k \in 0..MaxDevices |-> h[k]]
    <3>1. ASSUME NEW x PROVE R(x) = [k \in 0..MaxDevices |-> R(x)[k]]
      OBVIOUS
    <3> QED BY <1>5, <3>1
  <2>5. g = [k \in 0..MaxDevices |-> g[k]]
    OBVIOUS
  <2> QED BY <2>3, <2>4, <2>5
<1>8. \A k \in 1..MaxDevices : w[k] = IF k \in S THEN f[k] ELSE 0
  OBVIOUS
<1> HIDE DEF h, w
<1>9. Upto(g, f, S)
  BY <1>1, <1>3, <1>6, <1>7, <1>8 DEF Upto
<1> QED BY <1>9

\* A sum of natural numbers is one.
LEMMA SumNat ==
  ASSUME NEW f, NEW S, Summable(f, S)
  PROVE  Sum(f, S) \in Nat
<1>1. MaxDevices \in Nat
  BY SizesAssumption
<1>2. PICK g : Upto(g, f, S)
  BY SumCounts
<1> QED BY <1>1, <1>2 DEF Upto

\* A sum over two sets that have nothing in common.
LEMMA SumUnion ==
  ASSUME NEW f, NEW S, NEW T, Summable(f, S), Summable(f, T), S \cap T = {}
  PROVE  Summable(f, S \cup T) /\ Sum(f, S \cup T) = Sum(f, S) + Sum(f, T)
<1>0. MaxDevices \in Nat
  BY SizesAssumption
<1>1. Summable(f, S \cup T)
  BY DEF Summable
<1>2. PICK a : Upto(a, f, S)
  BY SumCounts
<1>3. PICK b : Upto(b, f, T)
  BY SumCounts
<1>4. PICK c : Upto(c, f, S \cup T)
  BY <1>1, SumCounts
<1> DEFINE h == [k \in 0..MaxDevices |-> a[k] + b[k]]
<1>5. c[0] = h[0]
  BY <1>0, <1>2, <1>3, <1>4 DEF Upto
<1>6. ASSUME NEW k \in 1..MaxDevices, c[k-1] = h[k-1] PROVE c[k] = h[k]
  <2>1. k \in 0..MaxDevices /\ k - 1 \in 0..MaxDevices
    BY <1>0
  <2>2. a[k-1] \in Nat /\ b[k-1] \in Nat /\ c[k-1] = a[k-1] + b[k-1] /\ h[k] = a[k] + b[k]
    BY <1>2, <1>3, <1>6, <2>1 DEF Upto
  <2>3. k \in S => f[k] \in Nat /\ k \notin T
    BY DEF Summable
  <2>4. k \in T => f[k] \in Nat
    BY DEF Summable
  <2>5. a[k] = a[k-1] + (IF k \in S THEN f[k] ELSE 0)
    BY <1>2 DEF Upto
  <2>6. b[k] = b[k-1] + (IF k \in T THEN f[k] ELSE 0)
    BY <1>3 DEF Upto
  <2>7. c[k] = c[k-1] + (IF k \in S \/ k \in T THEN f[k] ELSE 0)
    BY <1>4 DEF Upto
  <2> QED BY <2>2, <2>3, <2>4, <2>5, <2>6, <2>7
<1>7. MaxDevices \in 0..MaxDevices
  BY <1>0
<1>8. c[MaxDevices] = h[MaxDevices]
  <2> HIDE DEF h
  <2> QED BY <1>0, <1>5, <1>6, <1>7, Alike
<1> QED BY <1>1, <1>2, <1>3, <1>4, <1>7, <1>8 DEF Upto

\* A sum over nothing is 0.
LEMMA SumNone ==
  ASSUME NEW f
  PROVE  Sum(f, {}) = 0
<1>1. Summable(f, {})
  BY DEF Summable
<1>2. Sum(f, {}) \in Nat
  BY <1>1, SumNat
<1>3. Sum(f, {} \cup {}) = Sum(f, {}) + Sum(f, {}) /\ {} \cup {} = {}
  BY <1>1, SumUnion
<1> DEFINE x == Sum(f, {})
<1>4. x = x + x /\ x \in Nat
  BY <1>2, <1>3, Zenon
<1>5. x = 0
  <2> HIDE DEF x
  <2> QED BY <1>4
<1> QED BY <1>5, Zenon

\* A sum over one number.
LEMMA SumOne ==
  ASSUME NEW f, NEW d \in 1..MaxDevices, f[d] \in Nat
  PROVE  Summable(f, {d}) /\ Sum(f, {d}) = f[d]
<1>0. MaxDevices \in Nat
  BY SizesAssumption
<1>1. Summable(f, {d})
  BY DEF Summable
<1>2. PICK g : Upto(g, f, {d})
  BY <1>1, SumCounts
<1> DEFINE h == [k \in 0..MaxDevices |-> IF d <= k THEN f[d] ELSE 0]
<1>3. g[0] = h[0]
  BY <1>0, <1>2 DEF Upto
<1>4. ASSUME NEW k \in 1..MaxDevices, g[k-1] = h[k-1] PROVE g[k] = h[k]
  <2>1. k \in 0..MaxDevices /\ k - 1 \in 0..MaxDevices
    BY <1>0
  <2>2. g[k] = g[k-1] + (IF k = d THEN f[k] ELSE 0)
    BY <1>2 DEF Upto
  <2>3. h[k-1] = (IF d <= k - 1 THEN f[d] ELSE 0) /\ h[k] = (IF d <= k THEN f[d] ELSE 0)
    BY <2>1
  <2> QED BY <1>0, <1>4, <2>2, <2>3
<1>5. MaxDevices \in 0..MaxDevices
  BY <1>0
<1>6. g[MaxDevices] = h[MaxDevices]
  <2>1. \A k \in 1..MaxDevices : g[k-1] = h[k-1] => g[k] = h[k]
    BY <1>4
  <2> HIDE DEF h
  <2>2. \A k \in 0..MaxDevices : g[k] = h[k]
    BY <1>0, <1>3, <2>1, Alike
  <2> QED BY <1>5, <2>2
<1> QED BY <1>1, <1>2, <1>5, <1>6 DEF Upto

\* A sum depends only on the numbers it is over.
LEMMA SumSame ==
  ASSUME NEW f, NEW h, NEW S, Summable(f, S), \A k \in S : h[k] = f[k]
  PROVE  Summable(h, S) /\ Sum(h, S) = Sum(f, S)
<1>0. MaxDevices \in Nat
  BY SizesAssumption
<1>1. Summable(h, S)
  BY DEF Summable
<1>2. PICK a : Upto(a, f, S)
  BY SumCounts
<1>3. PICK b : Upto(b, h, S)
  BY <1>1, SumCounts
<1>4. a[0] = b[0]
  BY <1>2, <1>3 DEF Upto
<1>5. ASSUME NEW k \in 1..MaxDevices, a[k-1] = b[k-1] PROVE a[k] = b[k]
  <2>1. a[k] = a[k-1] + (IF k \in S THEN f[k] ELSE 0)
    BY <1>2 DEF Upto
  <2>2. b[k] = b[k-1] + (IF k \in S THEN h[k] ELSE 0)
    BY <1>3 DEF Upto
  <2> QED BY <1>5, <2>1, <2>2
<1>6. MaxDevices \in 0..MaxDevices
  BY <1>0
<1>7. a[MaxDevices] = b[MaxDevices]
  BY <1>0, <1>4, <1>5, <1>6, Alike
<1> QED BY <1>1, <1>2, <1>3, <1>7 DEF Upto

\* A sum over more is no smaller.
LEMMA SumMore ==
  ASSUME NEW f, NEW S, NEW T, Summable(f, T), S \subseteq T
  PROVE  Summable(f, S) /\ Sum(f, S) <= Sum(f, T)
<1> DEFINE R == T \ S
<1>1. Summable(f, S) /\ Summable(f, R) /\ S \cap R = {} /\ S \cup R = T
  BY DEF Summable
<1> HIDE DEF R
<1>2. Sum(f, T) = Sum(f, S) + Sum(f, R) /\ Sum(f, S) \in Nat /\ Sum(f, R) \in Nat
  BY <1>1, SumUnion, SumNat
<1> QED BY <1>1, <1>2

(***************************************************************************)
(* Delays of cables, and the cables behind a port.                         *)
(***************************************************************************)

\* Cables have delays, and a frame is back before the port times go round.
LinksOK ==
  /\ n <= MaxDevices
  /\ link \in [Devices -> Nat] /\ clock \in [Devices -> Nat]
  /\ 2 * Sum(link, 1..(n - 1)) < TimeMod

Way(S) == Sum(link, S)

\* The delays of some cables sum up to less than half the modulus of port times.
LEMMA WayNat ==
  ASSUME SegmentOK, LinksOK, NEW S \in SUBSET (1..(n - 1))
  PROVE  Summable(link, S) /\ Way(S) \in Nat /\ 2 * Way(S) < TimeMod
<1> DEFINE all == 1..(n - 1)
<1>0. MaxDevices \in Nat /\ TimeMod \in Nat /\ n \in Nat
  BY SizesAssumption, TimesAssumption DEF SegmentOK
<1>1. Summable(link, all)
  BY <1>0 DEF Summable, LinksOK, Devices
<1>2. 2 * Sum(link, all) < TimeMod
  BY DEF LinksOK
<1> HIDE DEF all
<1>3. Summable(link, S) /\ Sum(link, S) <= Sum(link, all)
  BY <1>1, SumMore DEF all
<1>4. Sum(link, S) \in Nat /\ Sum(link, all) \in Nat
  BY <1>1, <1>3, SumNat
<1> QED BY <1>0, <1>2, <1>3, <1>4 DEF Way

\* Delays of two sets of cables that have none in common add up.
LEMMA WayUnion ==
  ASSUME SegmentOK, LinksOK, NEW S \in SUBSET (1..(n - 1)),
         NEW T \in SUBSET (1..(n - 1)), S \cap T = {}
  PROVE  Way(S \cup T) = Way(S) + Way(T)
BY WayNat, SumUnion DEF Way

\* More cables have no smaller delay.
LEMMA WayMore ==
  ASSUME SegmentOK, LinksOK, NEW T \in SUBSET (1..(n - 1)), NEW S \in SUBSET T
  PROVE  Way(S) <= Way(T)
BY WayNat, SumMore DEF Way

\* What is below a SubDevice is in the subtree of one connected to it.
LEMMA Branch ==
  ASSUME SegmentOK, NEW p \in Devices, NEW x \in Devices, Below(p, x)
  PROVE  \E e \in Children(p) : e <= x /\ x <= last[e]
<1> DEFINE T == {e \in (p + 1)..x : x <= last[e]}
<1>1. p \in Nat /\ x \in Nat /\ p < x /\ x <= n - 1 /\ n \in Nat
  BY DEF SegmentOK, Devices, Below
<1>2. x \in T /\ T \in SUBSET Nat
  BY <1>1 DEF SegmentOK, IsTree
<1>3. PICK e \in T : \A y \in T : e <= y
  <2> HIDE DEF T
  <2> QED BY <1>2, Least
<1>4. e \in (p + 1)..x /\ x <= last[e] /\ e \in Devices
  BY <1>1, <1>3 DEF Devices
<1>5. Below(p, e)
  BY <1>1, <1>4 DEF Below, SegmentOK, Devices
<1>6. ASSUME NEW f \in (p + 1)..(e - 1), Below(f, e) PROVE FALSE
  <2>1. f \in Devices /\ f \in (p + 1)..x /\ f < e
    BY <1>1, <1>4, <1>6 DEF Devices
  <2>2. last[e] <= last[f]
    BY <1>4, <1>6, <2>1 DEF SegmentOK, IsTree
  <2>3. last[e] \in Int /\ last[f] \in Int
    BY <1>4, <2>1 DEF SegmentOK, Devices
  <2>4. f \in T
    BY <1>1, <1>4, <2>1, <2>2, <2>3
  <2> QED BY <1>1, <1>3, <1>4, <2>1, <2>4
<1>7. e \in Children(p)
  BY <1>4, <1>5, <1>6 DEF Children, IsParent
<1> QED BY <1>4, <1>7

\* The subtrees of two SubDevices connected to the same one.
LEMMA Siblings ==
  ASSUME SegmentOK, NEW p \in Devices, NEW c \in Children(p), NEW e \in Children(p)
  PROVE  /\ c \in Devices /\ p < c /\ c <= last[c] /\ last[c] <= last[p]
         /\ last[c] \in Devices /\ last[p] \in Devices
         /\ c < e => last[c] < e
BY DEF SegmentOK, IsTree, Devices, Children, IsParent, Below

\* Ports in the order of the SubDevices on them, where port 0 is the entry port.
LEMMA PortOrder ==
  ASSUME SegmentOK, NEW p \in Devices, entry[p] = 0, NEW c \in Children(p),
         NEW e \in Children(p)
  PROVE  port[c] \in 1..3 /\ port[e] \in 1..3 /\ (c <= e <=> port[c] <= port[e])
<1>1. \A x \in PortIdx : Turn(p, x) = x
  BY DEF Turn, PortIdx
<1>2. c \in Devices /\ e \in Devices /\ IsParent(p, c) /\ IsParent(p, e)
  BY DEF Children
<1>3. port[c] \in PortIdx /\ port[e] \in PortIdx /\ port[c] # 0 /\ port[e] # 0
  BY <1>2 DEF SegmentOK, IsWired
<1>4. c < e => port[c] < port[e]
  BY <1>1, <1>2, <1>3 DEF SegmentOK, IsWired
<1>5. e < c => port[e] < port[c]
  BY <1>1, <1>2, <1>3 DEF SegmentOK, IsWired
<1>6. c \in Int /\ e \in Int
  BY <1>2 DEF Devices
<1> QED BY <1>3, <1>4, <1>5, <1>6 DEF PortIdx

\* The SubDevices a frame has passed when it is back from port x.
Behind(d, x) ==
  UNION {c..last[c] : c \in {e \in Children(d) : Turn(d, port[e]) <= Turn(d, x)}}

\* What is behind a port, where ports are passed from 0 on.
LEMMA BehindIs ==
  ASSUME SegmentOK, NEW p \in Devices, entry[p] = 0, NEW x \in PortIdx
  PROVE  Behind(p, x) = UNION {c..last[c] : c \in {e \in Children(p) : port[e] <= x}}
<1>1. \A y \in PortIdx : Turn(p, y) = y
  BY DEF Turn, PortIdx
<1>2. \A c \in Children(p) : port[c] \in PortIdx
  BY DEF Children, SegmentOK
<1>3. {e \in Children(p) : Turn(p, port[e]) <= Turn(p, x)} = {e \in Children(p) : port[e] <= x}
  BY <1>1, <1>2
<1> QED BY <1>3 DEF Behind

\* Before a frame leaves by the first port nothing is behind it.
LEMMA BehindNone ==
  ASSUME SegmentOK, NEW p \in Devices, entry[p] = 0
  PROVE  Behind(p, 0) = {}
<1>1. 0 \in PortIdx
  BY DEF PortIdx
<1>2. \A c \in Children(p) : ~(port[c] <= 0)
  BY PortOrder
<1> QED BY <1>1, <1>2, BehindIs

\* When it is back from the port c is on: everything up to the last below c.
LEMMA BehindPort ==
  ASSUME SegmentOK, NEW p \in Devices, entry[p] = 0, NEW c \in Children(p)
  PROVE  Behind(p, port[c]) = (p + 1)..last[c]
<1> DEFINE U == UNION {e..last[e] : e \in {f \in Children(p) : port[f] <= port[c]}}
<1>1. port[c] \in PortIdx
  BY PortOrder DEF PortIdx
<1>2. Behind(p, port[c]) = U
  BY <1>1, BehindIs
<1>3. ASSUME NEW x \in U PROVE x \in (p + 1)..last[c]
  <2>1. PICK e \in Children(p) : port[e] <= port[c] /\ x \in e..last[e]
    OBVIOUS
  <2>2. e <= c
    BY <2>1, PortOrder
  <2>3. e \in Devices /\ p < e /\ last[e] \in Devices /\ (e < c => last[e] < c)
    BY Siblings
  <2>4. c \in Devices /\ c <= last[c] /\ last[c] \in Devices
    BY Siblings
  <2>5. last[e] <= last[c]
    BY <2>2, <2>3, <2>4 DEF Devices
  <2> QED BY <2>1, <2>3, <2>4, <2>5 DEF Devices
<1>4. ASSUME NEW x \in (p + 1)..last[c] PROVE x \in U
  <2>1. x \in Devices /\ Below(p, x)
    BY Siblings, SMTT(40) DEF Devices, SegmentOK, Below
  <2>2. PICK e \in Children(p) : e <= x /\ x <= last[e]
    BY <2>1, Branch
  <2>3. ~(c < e)
    <3>1. c < e => last[c] < e
      BY Siblings
    <3> QED BY <2>1, <2>2, <3>1, Siblings DEF Devices
  <2>4. port[e] <= port[c]
    BY <2>3, Siblings, PortOrder DEF Devices
  <2>5. x \in e..last[e]
    BY <2>1, <2>2, Siblings DEF Devices
  <2> QED BY <2>4, <2>5
<1> QED BY <1>2, <1>3, <1>4

\* When it is back from all ports: everything below p.
LEMMA BehindAll ==
  ASSUME SegmentOK, NEW p \in Devices, entry[p] = 0, NEW x \in PortIdx,
         \A c \in Children(p) : port[c] <= x
  PROVE  Behind(p, x) = (p + 1)..last[p]
<1> DEFINE U == UNION {e..last[e] : e \in {f \in Children(p) : port[f] <= x}}
<1>1. Behind(p, x) = U
  BY BehindIs
<1>2. ASSUME NEW y \in U PROVE y \in (p + 1)..last[p]
  <2>1. PICK e \in Children(p) : y \in e..last[e]
    OBVIOUS
  <2>2. e \in Devices /\ p < e /\ last[e] \in Devices /\ last[e] <= last[p]
        /\ last[p] \in Devices
    BY Siblings
  <2> QED BY <2>1, <2>2 DEF Devices
<1>3. ASSUME NEW y \in (p + 1)..last[p] PROVE y \in U
  <2>1. y \in Devices /\ Below(p, y)
    BY DEF Devices, SegmentOK, Below
  <2>2. PICK e \in Children(p) : e <= y /\ y <= last[e]
    BY <2>1, Branch
  <2>3. y \in e..last[e]
    BY <2>1, <2>2, Siblings DEF Devices
  <2> QED BY <2>2, <2>3
<1> QED BY <1>1, <1>2, <1>3

\* What is behind one port is behind every later one, and below p.
LEMMA BehindMore ==
  ASSUME SegmentOK, NEW p \in Devices, entry[p] = 0, NEW x \in PortIdx,
         NEW y \in PortIdx, x <= y
  PROVE  Behind(p, x) \subseteq Behind(p, y) /\ Behind(p, y) \in SUBSET (1..(n - 1))
<1>1. ASSUME NEW c \in Children(p)
      PROVE  port[c] \in PortIdx /\ c \in 1..(n - 1) /\ last[c] \in 1..(n - 1)
  <2>1. c \in Devices /\ p < c /\ c <= last[c] /\ last[c] \in Devices
    BY Siblings
  <2> QED BY <2>1 DEF SegmentOK, Devices
<1>2. \A c \in Children(p) : port[c] <= x => port[c] <= y
  BY <1>1 DEF PortIdx
<1>3. Behind(p, x) \subseteq Behind(p, y)
  BY <1>2, BehindIs
<1>4. ASSUME NEW z \in Behind(p, y) PROVE z \in 1..(n - 1)
  <2>1. PICK c \in Children(p) : z \in c..last[c]
    BY DEF Behind
  <2> QED BY <1>1, <2>1 DEF SegmentOK
<1> QED BY <1>3, <1>4

(***************************************************************************)
(* The times at the ports.                                                 *)
(***************************************************************************)

\* What latch_dc_times reads is when the frame passed, of those that took the
\* broadcast and answered.
Running == {"assign", "write", "done"}
TimesOK ==
  pc \in Running =>
    \A d \in Devices : dc[d] /\ "latch" \notin deaf[d] =>
      /\ \A p \in ActivePorts(d) : p \in PortIdx =>
           dc_receive_times[d][p] = (clock[d] + BackAt(d, p)) % TimeMod
      /\ "time" \notin deaf[d] => dc_receive_time[d] = clock[d] + Transit(d)

\* The time a frame needs to a SubDevice is a number.
LEMMA TransitNat ==
  ASSUME SegmentOK, LinksOK, NEW d \in Devices
  PROVE  Transit(d) \in Nat
<1> DEFINE A == {c \in 1..d : c # d /\ ~Below(c, d)}
<1>1. 1..d \in SUBSET (1..(n - 1)) /\ A \in SUBSET (1..(n - 1))
  BY DEF SegmentOK, Devices
<1>2. Transit(d) = Way(1..d) + Way(A)
  BY DEF Transit, Way
<1> HIDE DEF A
<1>3. Way(1..d) \in Nat /\ Way(A) \in Nat
  BY <1>1, WayNat
<1> QED BY <1>2, <1>3

\* LowestOf is the least element.
LEMMA Lowest ==
  ASSUME NEW S \in SUBSET Nat, S # {}
  PROVE  LowestOf(S) \in S /\ \A q \in S : LowestOf(S) <= q
<1>1. \E p \in S : \A q \in S : p <= q
  BY Least
<1> QED BY <1>1 DEF LowestOf

\* The entry port saw the frame no later than the other ports.
LEMMA EntryFirst ==
  ASSUME SegmentOK, NEW d \in Devices,
         \A x \in ActivePorts(d) : dc_receive_times[d][x] \in Nat
  PROVE  \A x \in ActivePorts(d) :
           dc_receive_times[d][EntryPort(d)] <= dc_receive_times[d][x]
<1> DEFINE t == dc_receive_times[d]
           A == ActivePorts(d)
           V == {t[x] : x \in A}
           S == {p \in A : \A q \in A : t[p] <= t[q]}
<1>1. A \in SUBSET PortIdx /\ A # {} /\ V \in SUBSET Nat /\ V # {}
  BY PortsFinite DEF ActivePorts
<1>2. PICK v \in V : \A w \in V : v <= w
  <2> HIDE DEF V
  <2> QED BY <1>1, Least
<1>3. S \in SUBSET Nat /\ S # {}
  BY <1>1, <1>2 DEF PortIdx
<1>4. EntryPort(d) = LowestOf(S)
  BY DEF EntryPort
<1>5. EntryPort(d) \in S
  <2> HIDE DEF S
  <2> QED BY <1>3, <1>4, Lowest
<1> QED BY <1>5

\* What the code counts on of d alone.
Plain(d) == dc[d] /\ "latch" \notin deaf[d] /\ entry[d] = 0 /\ EntryPort(d) = 0

\* Port times grow by twice the delays of the cables behind the port.
LEMMA PortTimes ==
  ASSUME SegmentOK, LinksOK, TimesOK, pc \in Running, NEW d \in Devices, Plain(d)
  PROVE  /\ dc_receive_times[d][0] \in Nat /\ 0 \in ActivePorts(d)
         /\ \A x \in ActivePorts(d) :
              /\ Way(Behind(d, x)) \in Nat
              /\ dc_receive_times[d][x] = dc_receive_times[d][0] + 2 * Way(Behind(d, x))
<1> DEFINE t == dc_receive_times[d]
           u == clock[d] + Transit(d)
<1>0. TimeMod \in Nat \ {0} /\ clock[d] \in Nat /\ Transit(d) \in Nat
  BY TimesAssumption, TransitNat DEF LinksOK
<1>1. 0 \in ActivePorts(d) /\ 0 \in PortIdx /\ ActivePorts(d) \subseteq PortIdx
  BY PortsFinite DEF Plain, ActivePorts, PortIdx
<1>2. u \in Nat
  BY <1>0
<1>3. ASSUME NEW x \in ActivePorts(d)
      PROVE  /\ Way(Behind(d, x)) \in Nat /\ 2 * Way(Behind(d, x)) < TimeMod
             /\ t[x] = (u + 2 * Way(Behind(d, x))) % TimeMod
             /\ t[x] \in Nat
  <2>1. x \in PortIdx /\ x <= x
    BY <1>1 DEF PortIdx
  <2>2. Behind(d, x) \in SUBSET (1..(n - 1))
    BY <2>1, BehindMore DEF Plain
  <2>3. Way(Behind(d, x)) \in Nat /\ 2 * Way(Behind(d, x)) < TimeMod
    BY <2>2, WayNat
  <2>4. BackAt(d, x) = Transit(d) + 2 * Way(Behind(d, x))
    BY DEF BackAt, Way, Behind
  <2>5. t[x] = (clock[d] + BackAt(d, x)) % TimeMod
    BY <2>1 DEF TimesOK, Plain
  <2>6. clock[d] + BackAt(d, x) = u + 2 * Way(Behind(d, x))
    BY <1>0, <2>3, <2>4
  <2>7. t[x] = (u + 2 * Way(Behind(d, x))) % TimeMod
    BY <2>5, <2>6
  <2> HIDE DEF u, t
  <2> DEFINE y == u + 2 * Way(Behind(d, x))
  <2>8. y \in Int /\ t[x] = y % TimeMod
    BY <1>2, <2>3, <2>7
  <2>9. t[x] \in Nat
    <3> HIDE DEF y
    <3>1. y % TimeMod \in 0..(TimeMod - 1)
      BY <1>0, <2>8, Divide
    <3> QED BY <1>0, <2>8, <3>1
  <2> QED BY <2>3, <2>7, <2>9
<1>4. t[0] = u % TimeMod
  <2>1. Way(Behind(d, 0)) = 0
    BY BehindNone, SumNone DEF Plain, Way
  <2>2. t[0] = (u + 2 * Way(Behind(d, 0))) % TimeMod
    BY <1>1, <1>3
  <2>3. u + 2 * Way(Behind(d, 0)) = u
    BY <1>2, <2>1
  <2> QED BY <2>2, <2>3
<1>5. \A x \in ActivePorts(d) : t[0] <= t[x]
  BY <1>3, EntryFirst DEF Plain
<1>6. ASSUME NEW x \in ActivePorts(d)
      PROVE  t[x] = t[0] + 2 * Way(Behind(d, x))
  <2> DEFINE w == 2 * Way(Behind(d, x))
  <2>1. w \in 0..(TimeMod - 1) /\ t[x] = (u + w) % TimeMod
    BY <1>0, <1>3
  <2>2. u % TimeMod <= (u + w) % TimeMod
    BY <1>4, <1>5, <2>1
  <2>3. u \in Int
    BY <1>2
  <2> HIDE DEF u, w, t
  <2>4. t[x] = t[0] + w
    BY <1>0, <1>4, <2>1, <2>2, <2>3, NoWrap
  <2> QED BY <2>4 DEF w
<1> QED BY <1>1, <1>3, <1>6

\* Port times do not fall from one active port to a later one.
LEMMA PortTimesRise ==
  ASSUME SegmentOK, LinksOK, TimesOK, pc \in Running, NEW d \in Devices, Plain(d),
         NEW x \in ActivePorts(d), NEW y \in ActivePorts(d), x <= y
  PROVE  /\ dc_receive_times[d][x] \in Nat /\ dc_receive_times[d][y] \in Nat
         /\ dc_receive_times[d][0] <= dc_receive_times[d][x]
         /\ dc_receive_times[d][x] <= dc_receive_times[d][y]
<1>1. x \in PortIdx /\ y \in PortIdx
  BY PortsFinite
<1>2. Behind(d, x) \subseteq Behind(d, y) /\ Behind(d, y) \in SUBSET (1..(n - 1))
  BY <1>1, BehindMore DEF Plain
<1>3. Way(Behind(d, x)) <= Way(Behind(d, y))
  BY <1>2, WayMore
<1> QED BY <1>3, PortTimes

\* The spread is the difference of the greatest and the least.
LEMMA SpreadIs ==
  ASSUME NEW T \in SUBSET Nat, NEW lo \in T, NEW hi \in T,
         \A x \in T : lo <= x /\ x <= hi
  PROVE  Spread(T) = hi - lo
<1>1. T # {}
  OBVIOUS
<1>2. LowestOf(T) = lo
  <2>1. \E p \in T : \A q \in T : p <= q
    OBVIOUS
  <2>2. LowestOf(T) \in T /\ \A q \in T : LowestOf(T) <= q
    BY <2>1 DEF LowestOf
  <2> DEFINE l == LowestOf(T)
  <2>3. l \in T /\ l <= lo /\ lo <= l
    BY <2>2
  <2> HIDE DEF l
  <2>4. l = lo
    BY <2>3
  <2> QED BY <2>4 DEF l
<1>3. HighestOf(T) = hi
  <2>1. \E p \in T : \A q \in T : q <= p
    OBVIOUS
  <2>2. HighestOf(T) \in T /\ \A q \in T : q <= HighestOf(T)
    BY <2>1 DEF HighestOf
  <2> DEFINE l == HighestOf(T)
  <2>3. l \in T /\ l <= hi /\ hi <= l
    BY <2>2
  <2> HIDE DEF l
  <2>4. l = hi
    BY <2>3
  <2> QED BY <2>4 DEF l
<1> QED BY <1>1, <1>2, <1>3 DEF Spread

\* The times at some active ports, the entry port among them, lie between the
\* one there and the one at the last of them.
LEMMA SpreadOfPorts ==
  ASSUME SegmentOK, LinksOK, TimesOK, pc \in Running, NEW d \in Devices, Plain(d),
         NEW S \in SUBSET ActivePorts(d), 0 \in S, NEW h \in S, \A x \in S : x <= h
  PROVE  Spread({dc_receive_times[d][x] : x \in S}) = 2 * Way(Behind(d, h))
<1> DEFINE t == dc_receive_times[d]
           T == {t[x] : x \in S}
<1>1. ASSUME NEW x \in S PROVE t[x] \in Nat /\ t[0] <= t[x] /\ t[x] <= t[h]
  BY PortTimesRise
<1>2. T \in SUBSET Nat /\ t[0] \in T /\ t[h] \in T /\ \A x \in T : t[0] <= x /\ x <= t[h]
  BY <1>1
<1>3. Spread(T) = t[h] - t[0]
  <2> HIDE DEF T, t
  <2> QED BY <1>2, SpreadIs
<1>4. t[0] \in Nat /\ Way(Behind(d, h)) \in Nat /\ t[h] = t[0] + 2 * Way(Behind(d, h))
  BY PortTimes
<1> QED BY <1>3, <1>4

\* The last active port.
LEMMA Highest ==
  ASSUME SegmentOK, NEW d \in Devices
  PROVE  /\ HighestOf(ActivePorts(d)) \in ActivePorts(d)
         /\ \A x \in ActivePorts(d) : x <= HighestOf(ActivePorts(d))
<1>1. ActivePorts(d) \in SUBSET (0..3) /\ ActivePorts(d) # {}
  BY PortsFinite DEF ActivePorts, PortIdx
<1>2. \E p \in ActivePorts(d) : \A q \in ActivePorts(d) : q <= p
  <2>1. 3 \in Nat
    OBVIOUS
  <2> QED BY <1>1, <2>1, Greatest
<1> QED BY <1>2 DEF HighestOf

\* From entry to return takes twice the delays of the cables below.
LEMMA WholeTime ==
  ASSUME SegmentOK, LinksOK, TimesOK, pc \in Running, NEW d \in Devices, Plain(d)
  PROVE  TotalPropagationTime(d) = 2 * Way((d + 1)..last[d])
<1> DEFINE h == HighestOf(ActivePorts(d))
<1>1. h \in ActivePorts(d) /\ \A x \in ActivePorts(d) : x <= h
  BY Highest
<1>2. 0 \in ActivePorts(d)
  BY DEF Plain, ActivePorts
<1>3. Spread({dc_receive_times[d][x] : x \in ActivePorts(d)}) = 2 * Way(Behind(d, h))
  <2> HIDE DEF h
  <2> QED BY <1>1, <1>2, SpreadOfPorts
<1>4. h \in PortIdx /\ \A c \in Children(d) : port[c] <= h
  BY <1>1, PortsFinite DEF ActivePorts
<1>5. Behind(d, h) = (d + 1)..last[d]
  <2> HIDE DEF h
  <2> QED BY <1>4, BehindAll DEF Plain
<1> QED BY <1>3, <1>5 DEF TotalPropagationTime

(***************************************************************************)
(* The delay from the SubDevice before.                                    *)
(***************************************************************************)

\* A SubDevice that another one is connected to has between two and four open
\* ports; if two, no other is connected to it, if four, all are open.
LEMMA Opens ==
  ASSUME SegmentOK, NEW p \in Devices, entry[p] = 0, NEW c \in Children(p)
  PROVE  /\ OpenPorts(p) \in 2..4 /\ port[c] \in ActivePorts(p)
         /\ OpenPorts(p) = 2 => ActivePorts(p) = {0, port[c]}
         /\ OpenPorts(p) = 4 => ActivePorts(p) = PortIdx
<1> DEFINE A == ActivePorts(p)
           two == {0} \cup {port[c]}
<1>1. A \in SUBSET PortIdx /\ IsFiniteSet(A) /\ two \in SUBSET A
  BY PortsFinite DEF ActivePorts
<1>2. port[c] # 0
  BY PortOrder
<1>3. IsFiniteSet({0}) /\ Cardinality({0}) = 1
  BY FS_Singleton
<1>4. IsFiniteSet(two) /\ Cardinality(two) = 2
  <2>1. port[c] \notin {0}
    BY <1>2
  <2>2. IsFiniteSet(two) /\ Cardinality(two) = Cardinality({0}) + 1
    BY <1>3, <2>1, OneMore, Zenon
  <2> QED BY <1>3, <2>2
<1>5. IsFiniteSet(PortIdx) /\ Cardinality(PortIdx) = 4
  <2>1. IsFiniteSet(0..3) /\ Cardinality(0..3) = IF 0 > 3 THEN 0 ELSE 3 - 0 + 1
    BY FS_Interval, 0 \in Int, 3 \in Int, Zenon
  <2>2. (IF 0 > 3 THEN 0 ELSE 3 - 0 + 1) = 4
    OBVIOUS
  <2> QED BY <2>1, <2>2, Zenon DEF PortIdx
<1> HIDE DEF A, two
<1>6. Cardinality(A) \in Nat /\ Cardinality(two) <= Cardinality(A)
      /\ Cardinality(A) <= Cardinality(PortIdx)
  BY <1>1, <1>5, FS_Subset, FS_CardinalityType
<1>7. Cardinality(A) = 2 => A = two
  BY <1>1, <1>4, FS_Subset
<1>8. Cardinality(A) = 4 => A = PortIdx
  BY <1>1, <1>5, FS_Subset
<1>9. OpenPorts(p) = Cardinality(A)
  BY DEF OpenPorts, A
<1>10. two = {0, port[c]} /\ port[c] \in A
  BY <1>1 DEF two
<1> QED BY <1>4, <1>5, <1>6, <1>7, <1>8, <1>9, <1>10 DEF A

\* Half the difference of two round trips.
LEMMA HalfOf ==
  ASSUME NEW a \in Nat, NEW b \in Nat
  PROVE  SatSub(2 * (a + b), 2 * b) \div 2 = a
BY DEF SatSub

\* configure_subdevice_offsets computes the delays of the cables from the parent
\* to i, through the branches between.
LEMMA DelayIs ==
  ASSUME SegmentOK, LinksOK, TimesOK, pc \in Running, i \in Devices,
         NEW p \in Devices, IsParent(p, i), Plain(p), Plain(i),
         port[i] # 3 \/ OpenPorts(p) < 4
  PROVE  DelayTo(p, port[i]) = Way((p + 1)..i) /\ Way((p + 1)..i) \in Nat
<1> DEFINE q == port[i]
           t == dc_receive_times[p]
           a == Way((p + 1)..i)
           b == Way((i + 1)..last[i])
<1>0. i \in Children(p) /\ entry[p] = 0 /\ entry[i] = 0
  BY DEF Children, Plain
<1>1. p < i /\ i <= last[i] /\ last[i] \in Devices /\ p \in Nat /\ n \in Nat /\ i \in Nat
  <2>1. p < i /\ i <= last[i] /\ last[i] \in Devices
    BY <1>0, Siblings
  <2> QED BY <2>1 DEF SegmentOK, Devices
<1>2. a \in Nat /\ b \in Nat /\ Way(Behind(p, q)) = a + b
  <2> DEFINE S == (p + 1)..i
             T == (i + 1)..last[i]
  <2>1. S \in SUBSET (1..(n - 1)) /\ T \in SUBSET (1..(n - 1)) /\ S \cap T = {}
        /\ (p + 1)..last[i] = S \cup T
    BY <1>1 DEF Devices
  <2>2. Behind(p, q) = (p + 1)..last[i]
    BY <1>0, BehindPort
  <2> HIDE DEF S, T
  <2>3. Way(S \cup T) = Way(S) + Way(T) /\ Way(S) \in Nat /\ Way(T) \in Nat
    BY <2>1, WayUnion, WayNat
  <2> QED BY <2>1, <2>2, <2>3 DEF S, T
<1>3. TotalPropagationTime(i) = 2 * b
  BY WholeTime
<1>4. /\ OpenPorts(p) \in 2..4 /\ q \in ActivePorts(p)
      /\ OpenPorts(p) = 2 => ActivePorts(p) = {0, q}
      /\ OpenPorts(p) = 4 => ActivePorts(p) = PortIdx
  BY <1>0, Opens
<1>5. q \in 1..3 /\ 0 \in ActivePorts(p) /\ ActivePorts(p) \subseteq PortIdx
  BY <1>0, PortOrder, PortsFinite DEF ActivePorts
<1>6. ASSUME q = HighestOf(ActivePorts(p))
      PROVE  TotalPropagationTime(p) = 2 * (a + b)
  <2>1. \A x \in ActivePorts(p) : x <= q
    BY <1>6, Highest
  <2>2. Spread({dc_receive_times[p][x] : x \in ActivePorts(p)}) = 2 * Way(Behind(p, q))
    <3> HIDE DEF q
    <3> QED BY <1>4, <1>5, <2>1, SpreadOfPorts
  <2> QED BY <1>2, <2>2 DEF TotalPropagationTime
<1>7. PropagationTimeTo(p, q) = 2 * (a + b)
  <2> DEFINE S == {r \in ActivePorts(p) : EntryPort(p) <= r /\ r <= q}
  <2>1. EntryPort(p) = 0
    BY DEF Plain
  <2>2. S \in SUBSET ActivePorts(p) /\ 0 \in S /\ q \in S /\ \A x \in S : x <= q
    BY <1>4, <1>5, <2>1
  <2>3. PropagationTimeTo(p, q) = Spread({dc_receive_times[p][x] : x \in S})
    BY DEF PropagationTimeTo
  <2> HIDE DEF S, q
  <2>4. Spread({dc_receive_times[p][x] : x \in S}) = 2 * Way(Behind(p, q))
    BY <2>2, SpreadOfPorts
  <2> QED BY <1>2, <2>3, <2>4
<1>8. ASSUME OpenPorts(p) = 4, q # 3
      PROVE  IntermediatePropagationTimeTo(p, q) = 2 * (a + b)
  <2>1. \A x \in 0..3 : x \in ActivePorts(p)
    BY <1>4, <1>8 DEF PortIdx
  <2>2. t[0] \in Nat /\ t[1] \in Nat /\ t[2] \in Nat
        /\ t[0] <= t[1] /\ t[1] <= t[2]
    BY <2>1, PortTimesRise
  <2>3. t[q] = t[0] + 2 * (a + b)
    BY <1>2, <1>4, PortTimes
  <2>4. q = 1 \/ q = 2
    BY <1>5, <1>8
  <2>5. \A x \in 0..2 : {x, x + 1} \subseteq ActivePorts(p)
    BY <2>1
  <2> DEFINE delta == [x \in 0..2 |->
                IF x < q /\ {x, x + 1} \subseteq ActivePorts(p)
                THEN SatSub(t[x + 1], t[x]) ELSE 0]
  <2>6. IntermediatePropagationTimeTo(p, q) = delta[0] + delta[1] + delta[2]
    BY DEF IntermediatePropagationTimeTo
  <2>7. \A x \in 0..2 : delta[x] = IF x < q THEN SatSub(t[x + 1], t[x]) ELSE 0
    BY <2>5
  <2>8. delta[0] = t[1] - t[0] /\ delta[1] = (IF 1 < q THEN t[2] - t[1] ELSE 0) /\ delta[2] = 0
    <3> HIDE DEF delta, q, t
    <3> QED BY <2>2, <2>4, <2>7 DEF SatSub
  <2> HIDE DEF delta, q, t, a, b
  <2>9. CASE q = 1
    BY <1>2, <2>2, <2>3, <2>6, <2>8, <2>9
  <2>10. CASE q = 2
    BY <1>2, <2>2, <2>3, <2>6, <2>8, <2>10
  <2> QED BY <2>4, <2>9, <2>10
<1>9. SatSub(2 * (a + b), 2 * b) \div 2 = a
  <2> HIDE DEF a, b
  <2> QED BY <1>2, HalfOf
<1>10. IsChildOf(p, q) <=> OpenPorts(p) >= 3 /\ q # HighestOf(ActivePorts(p))
  BY DEF IsChildOf, IsJunction
<1> DEFINE whole == TotalPropagationTime(p)
<1>11. DelayTo(p, q) = a
  <2> HIDE DEF a, b, q, whole
  <2>1. CASE OpenPorts(p) = 2
    <3>1. q = HighestOf(ActivePorts(p))
      BY <1>4, <1>5, <2>1, Highest
    <3>2. DelayTo(p, q) = SatSub(TotalPropagationTime(p), TotalPropagationTime(i)) \div 2
      BY <2>1 DEF DelayTo
    <3> QED BY <1>3, <1>6, <1>9, <3>1, <3>2
  <2>2. CASE OpenPorts(p) = 3 /\ q = HighestOf(ActivePorts(p))
    <3>1. DelayTo(p, q) = SatSub(TotalPropagationTime(p), TotalPropagationTime(i)) \div 2
      BY <1>10, <2>2 DEF DelayTo
    <3> QED BY <1>3, <1>6, <1>9, <2>2, <3>1
  <2>3. CASE OpenPorts(p) = 3 /\ q # HighestOf(ActivePorts(p))
    <3>1. DelayTo(p, q) = SatSub(PropagationTimeTo(p, q), TotalPropagationTime(i)) \div 2
      BY <1>10, <2>3 DEF DelayTo
    <3> QED BY <1>3, <1>7, <1>9, <3>1
  <2>4. CASE OpenPorts(p) = 4
    <3>1. q # 3
      BY <2>4 DEF q
    <3>2. q # HighestOf(ActivePorts(p))
      BY <1>4, <1>5, <2>4, <3>1, Highest DEF PortIdx
    <3>3. DelayTo(p, q) = SatSub(IntermediatePropagationTimeTo(p, q), TotalPropagationTime(i)) \div 2
      BY <1>10, <2>4, <3>2 DEF DelayTo
    <3> QED BY <1>3, <1>8, <1>9, <2>4, <3>1, <3>3
  <2> QED BY <1>4, <2>1, <2>2, <2>3, <2>4
<1> QED BY <1>2, <1>11

(***************************************************************************)
(* How much later the frame comes to i than to the SubDevice before it.    *)
(***************************************************************************)

\* A branch before that of i without a junction is a line: if p has only one
\* such branch, all of it ends at the SubDevice before i.
LEMMA StraightLine ==
  ASSUME SegmentOK, NEW d \in Devices, NEW p \in Devices, IsParent(p, d), entry[p] = 0,
         \A j \in (p + 1)..(d - 1) : ~IsJunction(j),
         port[d] # 3 \/ OpenPorts(p) < 4
  PROVE  \A c \in (p + 1)..(d - 1) : last[c] = d - 1
<1> SUFFICES ASSUME NEW c \in (p + 1)..(d - 1), last[c] # d - 1 PROVE FALSE
  OBVIOUS
<1> DEFINE x == last[c] + 1
<1>1. p \in Nat /\ d \in Nat /\ n \in Nat /\ p < d /\ d <= last[p] /\ d < n
      /\ last[p] \in Int
  BY DEF SegmentOK, Devices, IsParent, Below
<1>2. c \in Devices /\ last[c] \in Devices /\ c <= last[c] /\ ~Below(c, d)
  BY <1>1 DEF SegmentOK, IsTree, IsParent, Devices
<1>3. last[c] < d - 1 /\ x \in Devices /\ x < d /\ c < x /\ x > 0
  BY <1>1, <1>2 DEF Below, Devices
<1>4. PICK r \in Devices : IsParent(r, x)
  BY <1>3, SomeParent
<1> HIDE DEF x
<1>5. r < x /\ x <= last[r] /\ last[r] \in Int /\ \A e \in (r + 1)..(x - 1) : ~Below(e, x)
  BY <1>4 DEF IsParent, Below, SegmentOK, Devices
<1>6. r \in Nat /\ x \in Nat /\ p < x /\ Below(p, x)
  BY <1>1, <1>3 DEF Devices, Below
<1>7. ~(r < p)
  BY <1>1, <1>5, <1>6
<1>8. x \in Children(r)
  BY <1>3, <1>4 DEF Children
<1>9. r + 1 # x
  <2> SUFFICES ASSUME r + 1 = x PROVE FALSE
    OBVIOUS
  <2>1. r = last[c] /\ last[r] > last[c] /\ last[r] \in Int
    BY <1>2, <1>5, <1>6 DEF x, SegmentOK, Devices
  <2>2. c < r => Below(c, r)
    BY <1>6, <2>1 DEF Below
  <2>3. Below(c, r) => last[r] <= last[c]
    BY <1>2 DEF SegmentOK, IsTree
  <2> QED BY <1>2, <2>1, <2>2, <2>3 DEF Devices
<1>10. r + 1 < x /\ r + 1 \in Devices /\ IsParent(r, r + 1)
  <2>1. r + 1 < x /\ r + 1 <= last[r]
    BY <1>5, <1>6, <1>9
  <2>2. r + 1 \in Devices
    BY <1>1, <1>3, <1>6, <2>1 DEF Devices
  <2>3. (r + 1)..((r + 1) - 1) = {}
    BY <1>6
  <2> QED BY <1>6, <2>1, <2>2, <2>3 DEF IsParent, Below
<1>11. r + 1 \in Children(r)
  BY <1>10 DEF Children
<1>12. CASE r = p
  <2>1. d \in Children(p) /\ x \in Children(p) /\ p + 1 \in Children(p)
    BY <1>8, <1>11, <1>12 DEF Children
  <2>2. port[p + 1] \in 1..3 /\ port[x] \in 1..3 /\ port[d] \in 1..3
    BY <2>1, PortOrder
  <2>3. ~(port[x] <= port[p + 1]) /\ ~(port[d] <= port[x])
    <3>1. ~(x <= p + 1) /\ ~(d <= x)
      BY <1>1, <1>3, <1>6, <1>10, <1>12
    <3> QED BY <2>1, <3>1, PortOrder
  <2>4. port[p + 1] = 1 /\ port[x] = 2 /\ port[d] = 3
    BY <2>2, <2>3
  <2>5. {0, 1, 2, 3} \subseteq ActivePorts(p)
    BY <2>1, <2>4 DEF ActivePorts
  <2>6. ActivePorts(p) = 0..3
    BY <2>5, PortsFinite DEF PortIdx
  <2>7. OpenPorts(p) = 4
    <3>1. Cardinality(0..3) = IF 0 > 3 THEN 0 ELSE 3 - 0 + 1
      BY FS_Interval, 0 \in Int, 3 \in Int, Zenon
    <3> QED BY <2>6, <3>1 DEF OpenPorts
  <2> QED BY <2>4, <2>7
<1>13. CASE r # p
  <2>1. r \in (p + 1)..(d - 1)
    BY <1>1, <1>3, <1>5, <1>6, <1>7, <1>13
  <2>2. IsJunction(r)
    BY <1>8, <1>10, <1>11, TwoChildren
  <2> QED BY <2>1, <2>2
<1> QED BY <1>12, <1>13

\* So between the two the frame passes the cables from p to i once.
LEMMA TransitNext ==
  ASSUME SegmentOK, LinksOK, NEW d \in Devices, d > 0, NEW p \in Devices, IsParent(p, d),
         entry[p] = 0, \A j \in (p + 1)..(d - 1) : ~IsJunction(j),
         port[d] # 3 \/ OpenPorts(p) < 4
  PROVE  Transit(d) = Transit(d - 1) + Way((p + 1)..d)
<1> DEFINE A == {c \in 1..d : c # d /\ ~Below(c, d)}
           B == {c \in 1..(d - 1) : c # d - 1 /\ ~Below(c, d - 1)}
           X == (p + 1)..(d - 1)
           E == 1..(d - 1)
           N == 1..(n - 1)
<1>1. p \in Nat /\ d \in Nat /\ n \in Nat /\ p < d /\ d <= last[p] /\ d < n
      /\ last[p] \in Int
  BY DEF SegmentOK, Devices, IsParent, Below
<1>2. \A c \in X : last[c] = d - 1
  BY StraightLine
<1>3. \A c \in 1..d : c \in Devices /\ last[c] \in Int
  BY <1>1, SMTT(40) DEF SegmentOK, Devices
<1>4. ASSUME NEW c \in B PROVE c \in A /\ c \notin X
  <2>1. c \in 1..(d - 1) /\ c # d - 1 /\ ~(d - 1 <= last[c])
    BY <1>1 DEF Below
  <2>2. c \in 1..d /\ c # d /\ ~(d <= last[c])
    BY <1>1, <1>3, <2>1
  <2> QED BY <1>1, <1>2, <2>1, <2>2 DEF Below
<1>5. ASSUME NEW c \in X PROVE c \in A
  BY <1>1, <1>2 DEF Below
<1>6. ASSUME NEW c \in A, c \notin B PROVE c \in X
  <2>1. c \in 1..(d - 1) /\ ~(d <= last[c]) /\ ~Below(c, d)
    BY <1>1 DEF Below
  <2>2. c # p
    BY <2>1 DEF IsParent
  <2>3. c = d - 1 \/ (c < d - 1 /\ d - 1 <= last[c])
    BY <1>6, <2>1 DEF Below
  <2>4. ~(c < p)
    <3> SUFFICES ASSUME c < p PROVE FALSE
      OBVIOUS
    <3>1. Below(c, p)
      BY <1>1, <1>3, <2>1, <2>3 DEF Below
    <3>2. last[p] <= last[c]
      BY <1>1, <1>3, <2>1, <3>1 DEF SegmentOK, IsTree
    <3>3. last[p] \in Int /\ last[c] \in Int
      BY <1>3, <2>1 DEF SegmentOK, Devices
    <3> QED BY <1>1, <2>1, <3>2, <3>3
  <2> QED BY <1>1, <2>1, <2>2, <2>4
<1>7. A = B \cup X /\ B \cap X = {}
  BY <1>4, <1>5, <1>6
<1>8. B \in SUBSET N /\ X \in SUBSET N /\ E \in SUBSET N /\ {d} \in SUBSET N
  BY <1>1
<1>9. 1..d = E \cup {d} /\ E \cap {d} = {} /\ (p + 1)..d = X \cup {d} /\ X \cap {d} = {}
  BY <1>1
<1>10. Transit(d) = Way(1..d) + Way(A)
  BY DEF Transit, Way
<1>11. Transit(d - 1) = Way(E) + Way(B)
  BY DEF Transit, Way
<1> HIDE DEF A, B, X, E
<1>12. Way(1..d) = Way(E) + Way({d}) /\ Way((p + 1)..d) = Way(X) + Way({d})
       /\ Way(A) = Way(B) + Way(X)
  <2>1. Way(E \cup {d}) = Way(E) + Way({d})
    BY <1>8, <1>9, WayUnion
  <2>2. Way(X \cup {d}) = Way(X) + Way({d})
    BY <1>8, <1>9, WayUnion
  <2>3. Way(B \cup X) = Way(B) + Way(X)
    BY <1>7, <1>8, WayUnion
  <2> QED BY <1>7, <1>9, <2>1, <2>2, <2>3
<1>13. Way(E) \in Nat /\ Way(B) \in Nat /\ Way(X) \in Nat /\ Way({d}) \in Nat
  BY <1>8, WayNat
<1> QED BY <1>10, <1>11, <1>12, <1>13

(***************************************************************************)
(* The port i is assigned to.                                              *)
(***************************************************************************)

Rank(d, x) == Cardinality({q \in ActivePorts(d) : q < x})

\* A later active port has a higher rank.
LEMMA RankRises ==
  ASSUME SegmentOK, NEW d \in Devices, NEW x \in ActivePorts(d), NEW y \in ActivePorts(d),
         x < y
  PROVE  Rank(d, x) \in Nat /\ Rank(d, y) \in Nat /\ Rank(d, x) < Rank(d, y)
<1> DEFINE S == {q \in ActivePorts(d) : q < x}
           T == {q \in ActivePorts(d) : q < y}
<1>1. IsFiniteSet(ActivePorts(d)) /\ ActivePorts(d) \subseteq PortIdx
  BY PortsFinite
<1>2. S \in SUBSET T /\ x \in T /\ x \notin S /\ T \in SUBSET ActivePorts(d)
  BY <1>1 DEF PortIdx
<1> HIDE DEF S, T
<1>3. IsFiniteSet(T)
  BY <1>1, <1>2, FS_Subset
<1>4. IsFiniteSet(S) /\ Cardinality(S) <= Cardinality(T) /\ Cardinality(S) # Cardinality(T)
  BY <1>2, <1>3, FS_Subset
<1>5. Cardinality(S) \in Nat /\ Cardinality(T) \in Nat
  BY <1>3, <1>4, FS_CardinalityType
<1> QED BY <1>4, <1>5 DEF Rank, S, T

\* Ranks count from 0 up to the number of open ports.
LEMMA RankBounds ==
  ASSUME SegmentOK, NEW d \in Devices, NEW x \in ActivePorts(d)
  PROVE  Rank(d, x) \in 0..(OpenPorts(d) - 1) /\ OpenPorts(d) \in Nat
<1> DEFINE S == {q \in ActivePorts(d) : q < x}
<1>1. IsFiniteSet(ActivePorts(d)) /\ ActivePorts(d) \subseteq PortIdx
  BY PortsFinite
<1>2. S \in SUBSET ActivePorts(d) /\ x \notin S
  BY <1>1 DEF PortIdx
<1> HIDE DEF S
<1>3. IsFiniteSet(S) /\ Cardinality(S) <= Cardinality(ActivePorts(d))
      /\ Cardinality(S) # Cardinality(ActivePorts(d))
  BY <1>1, <1>2, FS_Subset
<1>4. Cardinality(S) \in Nat /\ Cardinality(ActivePorts(d)) \in Nat
  BY <1>1, <1>3, FS_CardinalityType
<1> QED BY <1>3, <1>4 DEF Rank, S, OpenPorts

\* Two active ports have different ranks.
LEMMA RankInjective ==
  ASSUME SegmentOK, NEW d \in Devices, NEW x \in ActivePorts(d), NEW y \in ActivePorts(d),
         Rank(d, x) = Rank(d, y)
  PROVE  x = y
<1>1. x \in Int /\ y \in Int
  BY PortsFinite DEF PortIdx
<1>2. ~(x < y) /\ ~(y < x)
  BY RankRises
<1> QED BY <1>1, <1>2

\* Every rank is that of an active port, as there are as many of both.
LEMMA RankOnto ==
  ASSUME SegmentOK, NEW d \in Devices, NEW k \in 0..(OpenPorts(d) - 1)
  PROVE  \E x \in ActivePorts(d) : Rank(d, x) = k
<1> DEFINE A == ActivePorts(d)
           R == 0..(OpenPorts(d) - 1)
           f == [x \in A |-> Rank(d, x)]
<1>1. IsFiniteSet(A) /\ OpenPorts(d) = Cardinality(A)
  BY PortsFinite DEF OpenPorts
<1>2. OpenPorts(d) \in Nat
  BY <1>1, FS_CardinalityType
<1>3. IsFiniteSet(R) /\ Cardinality(R) = OpenPorts(d)
  <2> DEFINE b == OpenPorts(d) - 1
  <2>1. b \in Int /\ 0 \in Int /\ R = 0..b
    BY <1>2
  <2>2. (IF 0 > b THEN 0 ELSE b - 0 + 1) = OpenPorts(d)
    BY <1>2
  <2> HIDE DEF b, R
  <2>3. IsFiniteSet(R) /\ Cardinality(R) = IF 0 > b THEN 0 ELSE b - 0 + 1
    BY <2>1, FS_Interval, Zenon
  <2> QED BY <2>2, <2>3
<1>4. f \in [A -> R]
  BY RankBounds
<1>5. \A x, y \in A : f[x] = f[y] => x = y
  BY RankInjective
<1> HIDE DEF f, R, A
<1>6. f \in Injection(A, R)
  BY <1>4, <1>5 DEF Injection, IsInjective
<1>7. f \in Surjection(A, R)
  BY <1>1, <1>3, <1>6, FS_Injection
<1>8. PICK x \in A : f[x] = k
  BY <1>7 DEF Surjection, R
<1> QED BY <1>8 DEF f, A

\* The k-th active port is the one of rank k.
LEMMA ActivePortIs ==
  ASSUME SegmentOK, NEW d \in Devices, NEW k \in 0..(OpenPorts(d) - 1)
  PROVE  ActivePort(d, k) \in ActivePorts(d) /\ Rank(d, ActivePort(d, k)) = k
<1>1. PICK x \in ActivePorts(d) : Rank(d, x) = k
  BY RankOnto
<1>2. OpenPorts(d) \in Nat
  BY <1>1, RankBounds
<1>3. k % OpenPorts(d) = k
  BY <1>2
<1>4. ActivePort(d, k) =
        CHOOSE p \in ActivePorts(d) : Cardinality({q \in ActivePorts(d) : q < p}) = k
  BY <1>3 DEF ActivePort
<1> QED BY <1>1, <1>4 DEF Rank

\* Port x of p is assigned to a SubDevice before i connected to it.
Taken(p, x) == \E e \in 1..(i - 1) : IsParent(p, e) /\ port[e] = x

\* next_assignable_port returns the port i is on, if it has returned the right
\* ones for those before.
LEMMA NextIsPort ==
  ASSUME SegmentOK, i \in Devices, i > 0, NEW p \in Devices, IsParent(p, i), entry[p] = 0,
         EntryPort(p) = 0, NEW q \in PortIdx, NextAssignable(p, q),
         \A x \in PortIdx : downstream_to[p][x] # NoDevice <=> Taken(p, x)
  PROVE  q = port[i]
<1> DEFINE At(k) == ActivePort(p, EntryPort(p) + 1 + k)
           m == OpenPorts(p)
           K == Rank(p, port[i]) - 1
<1>0. i \in Nat /\ p \in Nat /\ i \in Children(p)
  BY DEF Devices, Children
<1>1. port[i] \in ActivePorts(p) /\ m \in 2..4 /\ port[i] \in 1..3
  BY <1>0, Opens, PortOrder
<1>2. 0 \in ActivePorts(p) /\ ActivePorts(p) \subseteq PortIdx
  BY PortsFinite DEF ActivePorts
<1>3. Rank(p, 0) \in Nat /\ Rank(p, 0) < Rank(p, port[i]) /\ Rank(p, port[i]) \in 0..(m - 1)
  BY <1>1, <1>2, RankRises, RankBounds
<1>4. K \in 0..(m - 2) /\ K \in PortIdx /\ K + 1 = Rank(p, port[i])
  BY <1>1, <1>3 DEF PortIdx
<1>5. ASSUME NEW k \in 0..K
      PROVE  At(k) \in ActivePorts(p) /\ Rank(p, At(k)) = k + 1
  <2>1. EntryPort(p) + 1 + k = k + 1 /\ k + 1 \in 0..(m - 1)
    BY <1>1, <1>4
  <2>2. At(k) = ActivePort(p, k + 1)
    BY <2>1
  <2> QED BY <2>1, <2>2, ActivePortIs
<1>6. At(K) = port[i]
  <2>1. At(K) \in ActivePorts(p) /\ Rank(p, At(K)) = K + 1
    BY <1>4, <1>5
  <2> HIDE DEF At, K
  <2> QED BY <1>1, <1>4, <2>1, RankInjective
<1>7. downstream_to[p][At(K)] = NoDevice
  <2>1. ASSUME NEW e \in 1..(i - 1), IsParent(p, e) PROVE port[e] # port[i]
    <3>1. e \in Children(p) /\ ~(i <= e) /\ e \in Int
      BY <1>0, <2>1 DEF Children, Devices, SegmentOK
    <3> QED BY <1>0, <3>1, PortOrder
  <2>2. ~Taken(p, port[i]) /\ port[i] \in PortIdx
    BY <1>1, <2>1 DEF Taken, PortIdx
  <2> QED BY <1>6, <2>2
<1>8. ASSUME NEW k \in 0..(K - 1) PROVE downstream_to[p][At(k)] # NoDevice
  <2> DEFINE x == At(k)
  <2>1. k \in 0..K /\ x \in ActivePorts(p) /\ Rank(p, x) = k + 1 /\ k + 1 < K + 1 /\ k \in Nat
    BY <1>4, <1>5
  <2> HIDE DEF x, At, K
  <2>2. x \in Int /\ x \in PortIdx
    BY <1>2, <2>1 DEF PortIdx
  <2>3. ~(port[i] < x) /\ port[i] # x
    <3>1. port[i] < x => Rank(p, port[i]) < Rank(p, x) /\ Rank(p, x) \in Nat
      BY <1>1, <2>1, RankRises
    <3> QED BY <1>4, <2>1, <3>1
  <2>4. x # 0
    <3>1. Rank(p, 0) = 0
      <4>1. {q1 \in ActivePorts(p) : q1 < 0} = {}
        BY <1>2 DEF PortIdx
      <4> QED BY <4>1, FS_EmptySet DEF Rank
    <3> QED BY <2>1, <3>1
  <2>5. PICK c \in Children(p) : x = port[c]
    BY <2>1, <2>4 DEF ActivePorts
  <2>6. c < i /\ c > 0 /\ c \in Int /\ IsParent(p, c)
    <3>1. c \in Devices /\ p < c /\ IsParent(p, c)
      BY <2>5, Siblings DEF Children
    <3>2. ~(port[i] <= port[c])
      BY <1>1, <2>2, <2>3, <2>5
    <3>3. ~(i <= c)
      BY <1>0, <2>5, <3>2, PortOrder
    <3> QED BY <1>0, <3>1, <3>3 DEF Devices
  <2>7. Taken(p, x)
    BY <1>0, <2>5, <2>6 DEF Taken
  <2> QED BY <2>2, <2>7 DEF x
<1>9. PICK k \in PortIdx : /\ q = At(k) /\ downstream_to[p][At(k)] = NoDevice
                           /\ \A j \in 0..(k - 1) : downstream_to[p][At(j)] # NoDevice
  BY DEF NextAssignable
<1>10. k \in Nat /\ K \in Nat
  BY <1>4, <1>9 DEF PortIdx
<1> HIDE DEF At, K
<1>11. ~(k < K) /\ ~(K < k)
  BY <1>7, <1>8, <1>9, <1>10
<1> QED BY <1>6, <1>9, <1>10, <1>11

(***************************************************************************)
(* The invariant: delays so far are the transit times, as long as all      *)
(* SubDevices so far are what the code counts on.                          *)
(***************************************************************************)

TablesOK ==
  /\ downstream_to \in [Devices -> [PortIdx -> Devices]]
  /\ DOMAIN propagation_delay = Devices
  /\ DOMAIN offset_reg = Devices /\ DOMAIN delay_reg = Devices

\* The sum and the ports assigned before it comes to i.
PlacedOK ==
  pc \in {"latch", "assign"} /\ (i > 0 => Regular(i - 1)) =>
    /\ delay_accum = IF i = 0 THEN 0 ELSE Transit(i - 1)
    /\ \A p \in Devices : \A x \in PortIdx : downstream_to[p][x] # NoDevice <=> Taken(p, x)

DelaysOK ==
  /\ pc \in {"latch", "assign"} /\ i = 0 => propagation_delay[0] = 0
  /\ pc \in Running => \A d \in Assigned : Regular(d) => propagation_delay[d] = Transit(d)

WrittenOK ==
  \A d \in Devices : dc[d] /\ (pc = "done" \/ (pc = "write" /\ d < i)) =>
    /\ "offset" \notin deaf[d] => offset_reg[d] = Now - dc_receive_time[d]
    /\ "delay" \notin deaf[d] => delay_reg[d] = propagation_delay[d]

ClockInv ==
  ParentInv /\ LinksOK /\ TimesOK /\ TablesOK /\ PlacedOK /\ DelaysOK /\ WrittenOK

\* The first SubDevice gets the frame at time 0.
LEMMA TransitFirst ==
  ASSUME SegmentOK
  PROVE  Transit(0) = 0
<1>1. 1..0 = {} /\ {c \in 1..0 : c # 0 /\ ~Below(c, 0)} = {}
  OBVIOUS
<1>2. Transit(0) = Sum(link, {}) + Sum(link, {})
  BY <1>1 DEF Transit
<1>3. Sum(link, {}) = 0
  BY SumNone
<1> QED BY <1>2, <1>3

\* The delays and clocks of Init.
LEMMA ClockInit == Init => ClockInv
<1> SUFFICES ASSUME Init PROVE ClockInv
  OBVIOUS
<1>1. ParentInv
  BY ParentInit
<1>2. SegmentOK /\ 0 \in Devices /\ n \in Nat \ {0} /\ n <= MaxDevices /\ MaxDevices \in Nat
  BY <1>1, SizesAssumption DEF ParentInv, SegmentOK, Devices, Init
<1>3. LinksOK
  <2>1. PICK c \in Cables : link = [d \in Devices |-> IF d = 0 THEN 0 ELSE c[d]]
    BY DEF Init
  <2> DEFINE N == 1..(n - 1)
             M == 1..(MaxDevices - 1)
  <2>2. \A d \in M : c[d] \in Nat
    BY TimesAssumption
  <2>3. N \in SUBSET M /\ \A d \in N : d \in Devices /\ d # 0
    BY <1>2 DEF Devices
  <2>4. link \in [Devices -> Nat]
    <3>1. \A d \in Devices : d # 0 => d \in M
      BY <1>2 DEF Devices
    <3> QED BY <2>1, <2>2, <3>1
  <2>5. \A d \in N : link[d] = c[d]
    BY <2>1, <2>3
  <2>6. Summable(c, M)
    BY <1>2, <2>2 DEF Summable
  <2>7. 2 * Sum(c, M) < TimeMod /\ TimeMod \in Nat
    BY RoundTripAssumption, TimesAssumption
  <2>8. clock \in [Devices -> Nat]
    BY TimesAssumption DEF Init
  <2>9. 2 * Sum(link, N) < TimeMod
    <3> HIDE DEF N, M
    <3>1. Summable(c, N) /\ Sum(c, N) <= Sum(c, M)
      BY <2>3, <2>6, SumMore
    <3>2. Sum(link, N) = Sum(c, N)
      BY <2>5, <3>1, SumSame
    <3>3. Sum(c, N) \in Nat /\ Sum(c, M) \in Nat
      BY <2>6, <3>1, SumNat
    <3> QED BY <2>7, <3>1, <3>2, <3>3
  <2> QED BY <1>2, <2>4, <2>8, <2>9 DEF LinksOK
<1>4. pc = "latch" /\ i = 0
  BY DEF Init
<1>5. TimesOK /\ WrittenOK
  BY <1>4 DEF TimesOK, Running, WrittenOK
<1>6. TablesOK
  BY <1>2 DEF Init, TablesOK, Zeros, NoDevice
<1>7. PlacedOK
  BY <1>2, <1>4 DEF Init, PlacedOK, Taken
<1>8. DelaysOK
  BY <1>2, <1>4 DEF Init, DelaysOK, Running, Zeros
<1> QED BY <1>1, <1>3, <1>5, <1>6, <1>7, <1>8 DEF ClockInv

\* What is wired stays, and with it when the frame is where.
LEMMA TransitStays ==
  ASSUME UNCHANGED segVars
  PROVE  /\ LinksOK => LinksOK'
         /\ \A d : ActivePorts(d)' = ActivePorts(d) /\ OpenPorts(d)' = OpenPorts(d)
         /\ \A d : Transit(d)' = Transit(d)
         /\ \A d, x : BackAt(d, x)' = BackAt(d, x)
<1> USE DEF segVars
<1>1. LinksOK => LinksOK'
  BY DEF LinksOK, Devices
<1>2. \A c, d : Below(c, d)' = Below(c, d)
  BY DEF Below
<1>3. \A d : Children(d)' = Children(d)
  BY DEF Children, Devices, IsParent, Below
<1>4. \A d : ActivePorts(d)' = ActivePorts(d)
  BY <1>3 DEF ActivePorts
<1>5. \A d : OpenPorts(d)' = OpenPorts(d)
  BY <1>4 DEF OpenPorts
<1>6. \A d : Transit(d)' = Transit(d)
  BY DEF Transit, Below
<1>7. \A d, x : BackAt(d, x)' = BackAt(d, x)
  BY <1>3, <1>6 DEF BackAt, Turn
<1> QED BY <1>1, <1>4, <1>5, <1>6, <1>7

\* What has been read stays, and with it which SubDevices are regular.
LEMMA RegularStays ==
  ASSUME UNCHANGED <<segVars, timeVars>>, NEW d,
         \A e \in 0..d : parent_index'[e] = parent_index[e]
  PROVE  Regular(d)' <=> Regular(d)
<1>1. UNCHANGED segVars /\ dc_receive_times' = dc_receive_times /\ dc' = dc /\ entry' = entry
      /\ deaf' = deaf
      /\ port' = port
  BY DEF timeVars, segVars
<1>2. \A e : EntryPort(e)' = EntryPort(e)
  <2>1. \A e : ActivePorts(e)' = ActivePorts(e)
    BY <1>1, TransitStays
  <2> QED BY <1>1, <2>1 DEF EntryPort
<1>3. \A e \in 0..d : RightParent(e)' = RightParent(e)
  BY <1>1, SegmentStays DEF RightParent
<1>4. \A e \in 0..d : OpenPorts(parent_index[e])' = OpenPorts(parent_index[e])
  BY <1>1, TransitStays DEF OpenPorts, ActivePorts, Children, Devices, IsParent, Below, segVars
<1> QED BY <1>1, <1>2, <1>3, <1>4 DEF Regular

\* If i is regular, it is assigned to the port it is on, with its transit time.
LEMMA ChildPlaced ==
  ASSUME ClockInv, NEW p \in Devices, NEW q \in PortIdx, AssignChild(p, q),
         NEW d \in Devices, d = i, Regular(d)'
  PROVE  /\ IsParent(p, i) /\ q = port[i] /\ dc[i]
         /\ delay_accum + DelayTo(p, q) = Transit(i)
         /\ \A r \in Devices : \A x \in PortIdx : downstream_to[r][x] # NoDevice <=> Taken(r, x)
<1> USE DEF ClockInv, ParentInv
<1>1. /\ pc = "assign" /\ i > 0 /\ FoundParent(p) /\ NextAssignable(p, q) /\ i \in Devices
      /\ parent_index' = [parent_index EXCEPT ![i] = p]
      /\ UNCHANGED segVars /\ UNCHANGED <<segVars, timeVars>>
  BY DEF AssignChild, SearchOK
<1>2. i \in Nat /\ i - 1 \in Devices /\ n \in Nat /\ p \in Nat /\ d - 1 = i - 1
  BY <1>1 DEF Devices, SegmentOK
<1>3. \A e \in 0..(d - 1) : parent_index'[e] = parent_index[e]
  BY <1>1, <1>2 DEF SearchOK, Devices
<1>4. parent_index'[d] = p
  BY <1>1 DEF SearchOK
<1>5. Regular(i - 1)
  <2>1. Regular(d - 1)'
    <3>1. \A e \in 0..(d - 1) : e \in 0..d
      BY <1>2
    <3> QED BY <3>1 DEF Regular
  <2>2. Regular(d - 1)
    BY <1>1, <1>3, <2>1, RegularStays
  <2> QED BY <1>2, <2>2
<1>6. IsParent(p, i) /\ (port[i] # 3 \/ OpenPorts(p) < 4)
  <2>1. d \in 0..d /\ d > 0
    BY <1>1, <1>2
  <2>2. RightParent(d)' /\ (port'[d] # 3 \/ OpenPorts(parent_index[d])' < 4)
    BY <2>1 DEF Regular
  <2>3. IsParent(p, d)'
    BY <1>2, <1>4, <2>1, <2>2 DEF RightParent
  <2>4. IsParent(p, d)
    BY <1>1, <2>3, SegmentStays
  <2>5. OpenPorts(parent_index[d])' = OpenPorts(p)'
    BY <1>4 DEF OpenPorts, ActivePorts, Children, IsParent, Below, Devices
  <2>6. OpenPorts(p)' = OpenPorts(p) /\ port' = port
    BY <1>1, TransitStays DEF segVars
  <2> QED BY <2>2, <2>4, <2>5, <2>6
<1>7. Plain(i) /\ Plain(p)
  <2>1. ASSUME NEW e \in 0..d PROVE Plain(e)
    <3>1. dc'[e] /\ "latch" \notin deaf'[e] /\ EntryPort(e)' = 0 /\ entry'[e] = 0
      BY DEF Regular
    <3>2. ActivePorts(e)' = ActivePorts(e) /\ dc' = dc /\ entry' = entry /\ deaf' = deaf
          /\ dc_receive_times' = dc_receive_times
      BY <1>1, TransitStays DEF segVars, timeVars
    <3>3. EntryPort(e)' = EntryPort(e)
      BY <3>2 DEF EntryPort
    <3> QED BY <3>1, <3>2, <3>3 DEF Plain
  <2>2. i \in 0..d /\ p \in 0..d
    BY <1>2, <1>6 DEF IsParent, Below
  <2> QED BY <2>1, <2>2
<1>8. /\ delay_accum = Transit(i - 1)
      /\ \A r \in Devices : \A x \in PortIdx : downstream_to[r][x] # NoDevice <=> Taken(r, x)
  BY <1>1, <1>5 DEF PlacedOK
<1>9. q = port[i]
  BY <1>1, <1>6, <1>7, <1>8, NextIsPort DEF Plain
<1>10. DelayTo(p, q) = Way((p + 1)..i)
  BY <1>1, <1>6, <1>7, <1>9, DelayIs DEF Running
<1>11. \A j \in (p + 1)..(i - 1) : ~IsJunction(j)
  BY <1>1, <1>6, SearchResult
<1>12. Transit(i) = Transit(i - 1) + Way((p + 1)..i)
  BY <1>1, <1>6, <1>7, <1>11, TransitNext DEF Plain
<1> QED BY <1>6, <1>7, <1>8, <1>9, <1>10, <1>12 DEF Plain

\* Assigning a SubDevice to its parent keeps the invariant.
LEMMA ChildKeeps ==
  ASSUME ClockInv, ParentInv', NEW p \in Devices, NEW q \in PortIdx, AssignChild(p, q)
  PROVE  ClockInv'
<1> USE DEF ClockInv
<1>1. /\ pc = "assign" /\ i > 0 /\ i \in Devices /\ NextDevice
      /\ parent_index' = [parent_index EXCEPT ![i] = p]
      /\ downstream_to' = [downstream_to EXCEPT ![p] = [@ EXCEPT ![q] = i]]
      /\ UNCHANGED segVars /\ UNCHANGED <<segVars, timeVars>> /\ UNCHANGED regVars
  BY DEF AssignChild, ParentInv, SearchOK
<1>2. SegmentOK /\ i \in Nat /\ n \in Nat /\ p \in Nat /\ n' = n /\ Devices' = Devices
  BY <1>1, SegmentStays DEF ParentInv, SegmentOK, Devices, segVars
<1>3. \/ pc' = "assign" /\ i' = i + 1 /\ Assigned' = 0..i
      \/ pc' = "write" /\ i' = 0 /\ Assigned' = Devices /\ Devices = 0..i
  <2>1. CASE i + 1 < n
    <3>1. pc' = "assign" /\ i' = i + 1 /\ (i + 1) - 1 = i
      BY <1>1, <1>2, <2>1 DEF NextDevice
    <3> QED BY <3>1 DEF Assigned
  <2>2. CASE ~(i + 1 < n)
    <3>1. pc' = "write" /\ i' = 0 /\ n - 1 = i
      BY <1>1, <1>2, <2>2 DEF NextDevice, Devices
    <3> QED BY <1>2, <3>1 DEF Assigned, Devices
  <2> QED BY <2>1, <2>2
<1>4. pc' \in {"assign", "write"} /\ Assigned' = 0..i /\ i' \in Int
  BY <1>2, <1>3
<1>5. LinksOK'
  BY <1>1, TransitStays
<1>6. TimesOK'
  <2>1. pc \in Running
    BY <1>1 DEF Running
  <2>2. dc_receive_times' = dc_receive_times /\ dc_receive_time' = dc_receive_time
        /\ dc' = dc /\ clock' = clock /\ deaf' = deaf
    BY <1>1 DEF timeVars, segVars
  <2> QED BY <1>1, <1>2, <2>1, <2>2, TransitStays DEF TimesOK
<1>7. TablesOK'
  <2>1. downstream_to' \in [Devices -> [PortIdx -> Devices]]
    BY <1>1 DEF TablesOK
  <2>2. DOMAIN propagation_delay' = Devices
    BY DEF TablesOK, AssignChild, delayVars
  <2> QED BY <1>1, <1>2, <2>1, <2>2 DEF TablesOK, regVars
<1>8. PlacedOK'
  <2> SUFFICES ASSUME pc' \in {"latch", "assign"}, (i > 0 => Regular(i - 1))'
               PROVE  /\ delay_accum' = IF i' = 0 THEN 0 ELSE Transit(i - 1)'
                      /\ \A r \in Devices : \A x \in PortIdx :
                           downstream_to'[r][x] # NoDevice <=> Taken(r, x)'
    BY <1>2 DEF PlacedOK
  <2>1. i' = i + 1
    BY <1>3
  <2>2. PICK d \in Devices : d = i
    BY <1>1
  <2>3. i' - 1 = d /\ i' > 0
    BY <1>2, <2>1, <2>2
  <2>4. Regular(d)'
    BY <2>3 DEF Regular
  <2>5. Transit(i - 1)' = Transit(d)
    <3>1. Transit(i - 1)' = Transit(d)'
      BY <2>3 DEF Transit
    <3> QED BY <1>1, <3>1, TransitStays
  <2>6. /\ IsParent(p, i) /\ q = port[i] /\ dc[i]
        /\ delay_accum + DelayTo(p, q) = Transit(i)
        /\ \A r \in Devices : \A x \in PortIdx : downstream_to[r][x] # NoDevice <=> Taken(r, x)
    BY <2>2, <2>4, ChildPlaced
  <2>7. delay_accum' = Transit(d)
    BY <2>2, <2>6 DEF AssignChild
  <2>8. ASSUME NEW r \in Devices, NEW x \in PortIdx
        PROVE  downstream_to'[r][x] # NoDevice <=> Taken(r, x)'
    <3>1. Taken(r, x)' <=> \E e \in 1..i : IsParent(r, e) /\ port[e] = x
      <4>1. \A e : IsParent(r, e)' = IsParent(r, e)
        BY <1>1, SegmentStays
      <4>2. i' - 1 = i /\ port' = port
        BY <1>1, <2>2, <2>3 DEF segVars
      <4> QED BY <4>1, <4>2 DEF Taken
    <3>2. (\E e \in 1..i : IsParent(r, e) /\ port[e] = x)
            <=> Taken(r, x) \/ (IsParent(r, i) /\ port[i] = x)
      <4>1. i \in 1..i /\ \A e \in 1..i : e = i \/ e \in 1..(i - 1)
        BY <1>1, <1>2
      <4>2. \A e \in 1..(i - 1) : e \in 1..i
        BY <1>2
      <4> QED BY <4>1, <4>2 DEF Taken
    <3>3. IsParent(r, i) <=> r = p
      BY <1>1, <1>2, <2>6, OneParent
    <3>4. downstream_to'[r][x] = IF r = p /\ x = q THEN i ELSE downstream_to[r][x]
      BY <1>1 DEF TablesOK
    <3>5. i # NoDevice
      BY <1>1 DEF NoDevice
    <3>6. downstream_to[r][x] # NoDevice <=> Taken(r, x)
      BY <2>6
    <3> QED BY <2>6, <3>1, <3>2, <3>3, <3>4, <3>5, <3>6
  <2> QED BY <2>3, <2>5, <2>7, <2>8
<1>9. DelaysOK'
  <2>1. ~(pc' \in {"latch", "assign"} /\ i' = 0)
    BY <1>2, <1>3
  <2>2. ASSUME NEW d \in 0..i, Regular(d)' PROVE propagation_delay'[d] = Transit(d)'
    <3>0. Transit(d)' = Transit(d) /\ d \in Devices
      BY <1>1, <1>2, TransitStays DEF Devices
    <3>1. CASE d = i
      <4>1. dc[i] /\ delay_accum + DelayTo(p, q) = Transit(i)
        BY <2>2, <3>0, <3>1, ChildPlaced
      <4>2. propagation_delay'[i] = delay_accum + DelayTo(p, q)
        BY <1>1, <4>1 DEF AssignChild, TablesOK
      <4> QED BY <3>0, <3>1, <4>1, <4>2
    <3>2. CASE d # i
      <4>1. \A e \in 0..d : parent_index'[e] = parent_index[e]
        BY <1>1, <1>2, <3>2 DEF ParentInv, SearchOK, Devices
      <4>2. Regular(d)
        BY <1>1, <2>2, <4>1, RegularStays
      <4>3. d \in Assigned
        BY <1>1, <1>2, <3>2 DEF Assigned
      <4>4. propagation_delay[d] = Transit(d)
        BY <1>1, <4>2, <4>3 DEF DelaysOK, Running
      <4>5. propagation_delay'[d] = propagation_delay[d]
        BY <3>0, <3>2 DEF AssignChild, TablesOK, delayVars
      <4> QED BY <3>0, <4>4, <4>5
    <3> QED BY <3>1, <3>2
  <2> QED BY <1>4, <2>1, <2>2 DEF DelaysOK
<1>10. WrittenOK'
  <2>1. pc' # "done" /\ (pc' = "write" => \A d \in Devices : ~(d < i'))
    BY <1>3 DEF Devices
  <2> QED BY <1>2, <2>1 DEF WrittenOK
<1> QED BY <1>5, <1>6, <1>7, <1>8, <1>9, <1>10

\* So does the first SubDevice, which has no parent.
LEMMA FirstKeeps ==
  ASSUME ClockInv, ParentInv', AssignFirst
  PROVE  ClockInv'
<1> USE DEF ClockInv
<1>1. /\ pc = "assign" /\ i = 0 /\ NextDevice
      /\ UNCHANGED segVars /\ UNCHANGED <<segVars, timeVars>>
      /\ UNCHANGED <<downstream_to, delayVars, regVars>>
  BY DEF AssignFirst, FoundParent, NoParent, ParentInv, SearchOK, SegmentOK, Devices
<1>2. SegmentOK /\ n \in Nat \ {0} /\ n' = n /\ Devices' = Devices
  BY <1>1, SegmentStays DEF ParentInv, SegmentOK, Devices, segVars
<1>3. \/ pc' = "assign" /\ i' = 1 /\ Assigned' = {0}
      \/ pc' = "write" /\ i' = 0 /\ Assigned' = {0}
  <2>1. CASE 1 < n
    <3>1. pc' = "assign" /\ i' = 1 /\ 0..(1 - 1) = {0}
      BY <1>1, <2>1 DEF NextDevice
    <3> QED BY <3>1 DEF Assigned
  <2>2. CASE ~(1 < n)
    <3>1. pc' = "write" /\ i' = 0 /\ n - 1 = 0 /\ 0..0 = {0}
      BY <1>1, <1>2, <2>2 DEF NextDevice
    <3> QED BY <1>2, <3>1 DEF Assigned, Devices
  <2> QED BY <2>1, <2>2
<1>4. LinksOK'
  BY <1>1, TransitStays
<1>5. TimesOK'
  <2>1. pc \in Running
    BY <1>1 DEF Running
  <2>2. dc_receive_times' = dc_receive_times /\ dc_receive_time' = dc_receive_time
        /\ dc' = dc /\ clock' = clock /\ deaf' = deaf
    BY <1>1 DEF timeVars, segVars
  <2> QED BY <1>1, <1>2, <2>1, <2>2, TransitStays DEF TimesOK
<1>6. TablesOK'
  BY <1>1, <1>2 DEF TablesOK, regVars, delayVars
<1>7. Transit(0)' = 0
  BY <1>1, <1>2, TransitFirst, TransitStays
<1>8. PlacedOK'
  <2>1. /\ delay_accum = 0
        /\ \A p \in Devices : \A x \in PortIdx : downstream_to[p][x] # NoDevice <=> Taken(p, x)
    BY <1>1 DEF PlacedOK
  <2>2. \A p, x : ~Taken(p, x)
    BY <1>1 DEF Taken
  <2>3. pc' = "assign" => i' = 1 /\ i' - 1 = 0 /\ \A p, x : ~Taken(p, x)'
    BY <1>3 DEF Taken
  <2>4. pc' = "assign" => Transit(i - 1)' = 0
    BY <1>7, <2>3 DEF Transit
  <2>5. delay_accum' = 0 /\ downstream_to' = downstream_to
    BY <1>1, <2>1 DEF delayVars
  <2> QED BY <1>2, <1>3, <2>1, <2>2, <2>3, <2>4, <2>5 DEF PlacedOK
<1>9. DelaysOK'
  <2>1. propagation_delay[0] = 0 /\ propagation_delay' = propagation_delay
    BY <1>1 DEF DelaysOK, delayVars
  <2> QED BY <1>3, <1>7, <2>1 DEF DelaysOK
<1>10. WrittenOK'
  <2>1. pc' # "done" /\ (pc' = "write" => \A d \in Devices : ~(d < i'))
    BY <1>3 DEF Devices
  <2> QED BY <1>2, <2>1 DEF WrittenOK
<1> QED BY <1>4, <1>5, <1>6, <1>8, <1>9, <1>10

\* A step that leaves the times and the delays and assigns nothing.
LEMMA ClockOtherStep ==
  ASSUME ClockInv, ParentInv', UNCHANGED segVars, TablesOK',
         pc' \notin {"latch", "assign"},
         pc' \in Running => /\ pc = "write" /\ UNCHANGED <<segVars, timeVars>>
                            /\ UNCHANGED <<parent_index, propagation_delay>>
  PROVE  LinksOK' /\ TimesOK' /\ PlacedOK' /\ DelaysOK'
<1> USE DEF ClockInv
<1>1. LinksOK'
  BY TransitStays
<1>2. CASE pc' \notin Running
  BY <1>1, <1>2 DEF TimesOK, PlacedOK, DelaysOK
<1>3. CASE pc' \in Running
  <2>1. Devices' = Devices /\ Assigned = Devices /\ Assigned' = Devices /\ pc \in Running
    BY <1>3, SegmentStays DEF Running, Assigned
  <2>2. dc_receive_times' = dc_receive_times /\ dc_receive_time' = dc_receive_time
        /\ dc' = dc /\ clock' = clock /\ deaf' = deaf
    BY <1>3 DEF timeVars, segVars
  <2>3. TimesOK'
    BY <2>1, <2>2, TransitStays DEF TimesOK
  <2>4. PlacedOK'
    BY DEF PlacedOK
  <2>5. ASSUME NEW d \in Devices, Regular(d)' PROVE propagation_delay'[d] = Transit(d)'
    <3>1. Regular(d)
      BY <1>3, <2>5, RegularStays
    <3>2. propagation_delay[d] = Transit(d)
      BY <2>1, <3>1 DEF DelaysOK
    <3> QED BY <1>3, <3>2, TransitStays
  <2>6. DelaysOK'
    BY <2>1, <2>5 DEF DelaysOK
  <2> QED BY <1>1, <2>3, <2>4, <2>6
<1> QED BY <1>2, <1>3

\* Every step of configure_dc keeps the invariant.
LEMMA ClockNext == ClockInv /\ [Next]_vars => ClockInv'
<1> SUFFICES ASSUME ClockInv, [Next]_vars PROVE ClockInv'
  OBVIOUS
<1> USE DEF ClockInv
<1>0. ParentInv'
  BY ParentNext
<1>1. CASE LatchDcTimes
  <2>1. /\ pc = "latch" /\ i = 0 /\ pc' = "assign" /\ i' = 0
        /\ UNCHANGED segVars /\ UNCHANGED <<treeVars, delayVars, regVars>>
    BY <1>1 DEF LatchDcTimes, ParentInv, SearchOK
  <2>2. Devices' = Devices /\ LinksOK'
    BY <2>1, SegmentStays, TransitStays
  <2>3. TimesOK'
    <3>1. PICK old \in OldLatches : ReadTimes(Devices, old)
      BY <1>1 DEF LatchDcTimes
    <3>2. dc' = dc /\ clock' = clock /\ deaf' = deaf
      BY <2>1 DEF segVars
    <3>3. ASSUME NEW d \in Devices, dc[d], "latch" \notin deaf[d]
          PROVE  /\ \A p \in ActivePorts(d) : p \in PortIdx =>
                      dc_receive_times'[d][p] = (clock[d] + BackAt(d, p)) % TimeMod
                 /\ "time" \notin deaf[d] => dc_receive_time'[d] = clock[d] + Transit(d)
      <4>1. dc_receive_times'[d] = PortTimesOf(d, old) /\ dc_receive_time'[d] = ReceiveTimeOf(d, old)
        BY <3>1, <3>3 DEF ReadTimes
      <4>2. \A p \in PortIdx : PortTimesOf(d, old)[p] =
              IF p \in ActivePorts(d) THEN (clock[d] + BackAt(d, p)) % TimeMod ELSE 0
        BY <3>3 DEF PortTimesOf
      <4> QED BY <3>3, <4>1, <4>2 DEF ReceiveTimeOf
    <3> QED BY <2>2, <3>2, <3>3, <2>1, TransitStays DEF TimesOK
  <2>4. TablesOK'
    BY <2>1, <2>2 DEF TablesOK, treeVars, delayVars, regVars
  <2>5. PlacedOK'
    <3>1. /\ delay_accum = 0
          /\ \A p \in Devices : \A x \in PortIdx : downstream_to[p][x] # NoDevice <=> Taken(p, x)
      BY <2>1 DEF PlacedOK
    <3>2. \A p, x : ~Taken(p, x) /\ ~Taken(p, x)'
      BY <2>1 DEF Taken
    <3> QED BY <2>1, <2>2, <3>1, <3>2 DEF PlacedOK, treeVars, delayVars
  <2>6. DelaysOK'
    <3>1. Assigned' = {}
      BY <2>1 DEF Assigned
    <3> QED BY <2>1, <3>1 DEF DelaysOK, delayVars
  <2>7. WrittenOK'
    BY <2>1 DEF WrittenOK
  <2> QED BY <1>0, <2>2, <2>3, <2>4, <2>5, <2>6, <2>7
<1>1a. ASSUME NEW d \in Devices, LatchFails(d) PROVE ClockInv'
  <2>1. /\ UNCHANGED segVars /\ pc' = "failed" /\ Devices' = Devices
        /\ UNCHANGED <<treeVars, delayVars, regVars>>
    BY <1>1a, SegmentStays DEF LatchFails
  <2>2. TablesOK'
    BY <2>1 DEF TablesOK, treeVars, delayVars, regVars
  <2>3. LinksOK' /\ TimesOK' /\ PlacedOK' /\ DelaysOK'
    BY <1>0, <2>1, <2>2, ClockOtherStep DEF Running
  <2>4. WrittenOK'
    BY <2>1 DEF WrittenOK
  <2> QED BY <1>0, <2>2, <2>3, <2>4
<1>2. CASE AssignFirst
  BY <1>0, <1>2, FirstKeeps
<1>3. ASSUME NEW p \in Devices, NEW q \in PortIdx, AssignChild(p, q) PROVE ClockInv'
  BY <1>0, <1>3, ChildKeeps
<1>4. ASSUME NEW p \in Devices \cup {NoParent}, AssignStops(p) PROVE ClockInv'
  <2>1. /\ UNCHANGED segVars /\ pc' \in {"topology", "panicked"}
        /\ UNCHANGED <<downstream_to, delayVars, regVars>>
    BY <1>4 DEF AssignStops
  <2>2. TablesOK'
    BY <2>1, SegmentStays DEF TablesOK, delayVars, regVars
  <2>3. LinksOK' /\ TimesOK' /\ PlacedOK' /\ DelaysOK'
    BY <1>0, <2>1, <2>2, ClockOtherStep DEF Running
  <2>4. WrittenOK'
    BY <2>1 DEF WrittenOK
  <2> QED BY <1>0, <2>2, <2>3, <2>4
<1>5. CASE WriteDcParameters
  <2>1. /\ pc = "write" /\ i \in Devices /\ UNCHANGED segVars
        /\ UNCHANGED <<segVars, timeVars>> /\ UNCHANGED <<treeVars, delayVars>>
        /\ dc_receive_time' = dc_receive_time /\ propagation_delay' = propagation_delay
        /\ dc' = dc /\ deaf' = deaf
    BY <1>5 DEF WriteDcParameters, ParentInv, SearchOK, segVars, timeVars, delayVars
  <2>2. Devices' = Devices /\ n \in Nat /\ i \in Nat
    BY <2>1, SegmentStays DEF ParentInv, SegmentOK, Devices
  <2>3. \/ i + 1 < n /\ pc' = "write" /\ i' = i + 1
        \/ ~(i + 1 < n) /\ pc' = "done"
    BY <1>5 DEF WriteDcParameters
  <2>4. TablesOK'
    BY <1>5, <2>1, <2>2 DEF TablesOK, WriteDcParameters, treeVars, regVars
  <2>5. LinksOK' /\ TimesOK' /\ PlacedOK' /\ DelaysOK'
    <3>1. pc' \in {"write", "done"} /\ UNCHANGED <<parent_index, propagation_delay>>
      BY <2>1, <2>3 DEF treeVars
    <3> QED BY <1>0, <2>1, <2>4, <3>1, ClockOtherStep
  <2>6. ASSUME NEW d \in Devices, dc[d], pc' = "done" \/ (pc' = "write" /\ d < i')
        PROVE  /\ "offset" \notin deaf[d] => offset_reg'[d] = Now - dc_receive_time[d]
               /\ "delay" \notin deaf[d] => delay_reg'[d] = propagation_delay[d]
    <3>1. d = i \/ d < i
      BY <2>2, <2>3, <2>6 DEF Devices
    <3>2. CASE d = i
      BY <1>5, <2>1, <2>6, <3>2 DEF WriteDcParameters, TablesOK
    <3>3. CASE d < i
      <4>1. /\ "offset" \notin deaf[d] => offset_reg[d] = Now - dc_receive_time[d]
            /\ "delay" \notin deaf[d] => delay_reg[d] = propagation_delay[d]
        BY <2>1, <2>6, <3>3 DEF WrittenOK
      <4>2. offset_reg'[d] = offset_reg[d] /\ delay_reg'[d] = delay_reg[d]
        <5>1. d # i
          BY <2>2, <3>3
        <5> QED BY <1>5, <5>1 DEF WriteDcParameters, TablesOK, regVars
      <4> QED BY <4>1, <4>2
    <3> QED BY <3>1, <3>2, <3>3
  <2>7. WrittenOK'
    BY <2>1, <2>2, <2>6 DEF WrittenOK
  <2> QED BY <1>0, <2>4, <2>5, <2>7
<1>6. CASE WriteFails
  <2>1. /\ UNCHANGED segVars /\ pc' = "failed" /\ Devices' = Devices
        /\ UNCHANGED <<treeVars, delayVars>>
    BY <1>6, SegmentStays DEF WriteFails
  <2>2. DOMAIN offset_reg' = Devices /\ DOMAIN delay_reg' = Devices
    BY <1>6 DEF WriteFails, TablesOK
  <2>3. TablesOK'
    BY <2>1, <2>2 DEF TablesOK, treeVars, delayVars
  <2>4. LinksOK' /\ TimesOK' /\ PlacedOK' /\ DelaysOK'
    BY <1>0, <2>1, <2>3, ClockOtherStep DEF Running
  <2>5. WrittenOK'
    BY <2>1 DEF WrittenOK
  <2> QED BY <1>0, <2>3, <2>4, <2>5
<1>7. CASE UNCHANGED vars
  <2>1. /\ UNCHANGED segVars /\ pc' = pc /\ i' = i /\ UNCHANGED <<segVars, timeVars>>
        /\ UNCHANGED <<parent_index, downstream_to, delay_accum, propagation_delay>>
        /\ UNCHANGED <<offset_reg, delay_reg>> /\ dc' = dc /\ clock' = clock /\ deaf' = deaf
        /\ dc_receive_times' = dc_receive_times /\ dc_receive_time' = dc_receive_time
        /\ port' = port
    BY <1>7 DEF vars, segVars, timeVars, treeVars, delayVars, regVars
  <2>2. Devices' = Devices /\ Assigned' = Assigned /\ LinksOK'
    BY <2>1, SegmentStays, TransitStays DEF Assigned
  <2>3. \A d : Regular(d)' <=> Regular(d)
    BY <2>1, RegularStays
  <2>4. \A d : Transit(d)' = Transit(d)
    BY <2>1, TransitStays
  <2>5. TimesOK'
    BY <2>1, <2>2, <2>4, TransitStays DEF TimesOK
  <2>6. TablesOK' /\ WrittenOK'
    BY <2>1, <2>2 DEF TablesOK, WrittenOK
  <2>7. DelaysOK'
    BY <2>1, <2>2, <2>3, <2>4 DEF DelaysOK
  <2>8. PlacedOK'
    <3>1. (Regular(i - 1))' <=> Regular(i - 1)
      <4>1. PICK k : k = i - 1
        OBVIOUS
      <4>2. (Regular(i - 1))' <=> Regular(k)'
        BY <2>1, <4>1 DEF Regular
      <4> QED BY <2>3, <4>1, <4>2
    <3>2. (Transit(i - 1))' = Transit(i - 1)
      BY <2>1, <2>4 DEF Transit, Below, segVars
    <3>3. \A p, x : Taken(p, x)' <=> Taken(p, x)
      BY <2>1, SegmentStays DEF Taken
    <3> QED BY <2>1, <2>2, <3>1, <3>2, <3>3 DEF PlacedOK
  <2> QED BY <1>0, <2>2, <2>5, <2>6, <2>7, <2>8
<1> QED BY <1>1a, <1>1, <1>2, <1>3, <1>4, <1>5, <1>6, <1>7 DEF Next

\* The invariant gives the property.
LEMMA ClocksFollow ==
  ASSUME ClockInv
  PROVE  ClocksAgree
<1> SUFFICES ASSUME pc = "done", NEW d \in Devices, Regular(d), deaf[d] = {}
             PROVE  clock[d] + offset_reg[d] + delay_reg[d] = Now
  BY DEF ClocksAgree
<1> USE DEF ClockInv
<1>1. d \in Assigned /\ pc \in Running /\ d \in 0..d
  BY DEF Assigned, Running, ParentInv, SegmentOK, Devices
<1>2. dc[d]
  BY <1>1 DEF Regular
<1>3. propagation_delay[d] = Transit(d)
  BY <1>1 DEF DelaysOK
<1>4. dc_receive_time[d] = clock[d] + Transit(d)
  BY <1>1, <1>2 DEF TimesOK
<1>5. offset_reg[d] = Now - dc_receive_time[d] /\ delay_reg[d] = propagation_delay[d]
  BY <1>2 DEF WrittenOK
<1>6. clock[d] \in Nat /\ Transit(d) \in Nat /\ Now \in Nat
  BY TransitNat, TimesAssumption DEF LinksOK, ParentInv
<1> QED BY <1>3, <1>4, <1>5, <1>6

\* configure_dc makes the clocks of SubDevices agree wherever it finds what it
\* counts on and they take what is sent to them, for every tree, cable and clock: what next_assignable_port and the
\* differences of port times yield is the way the frame took.
THEOREM ClocksDoAgree == Spec => []ClocksAgree
BY ClockInit, ClockNext, ClocksFollow, PTL DEF Spec
=============================================================================
