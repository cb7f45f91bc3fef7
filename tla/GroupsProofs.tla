---------------------------- MODULE GroupsProofs ----------------------------
(***************************************************************************)
(* What init, the state transitions, the cycles and the process data       *)
(* layout of the groups promise, proved for every network, every number of *)
(* groups, every cycle and shift time and every history of failures,       *)
(* SubDevices plugged in and out and calls of init.                        *)
(***************************************************************************)
EXTENDS Groups, SequenceFacts, FiniteSetTheorems, WellFoundedInduction

Entry == [addr : Nat, id : Devices]
JobFields == {"op", "want", "dir", "k", "i", "pos", "seg", "time", "conf"}
Idles == {"idle", "done", "failed"}
Addressed == {"new", "dc", "assign", "mailbox", "assign_pdi", "request_pre_op",
              "wait_pre_op", "wait_all"}
Known == Addressed \ {"new"}
Grouped == Known \ {"dc", "assign"}

DevicesOK ==
  /\ ring \in Seq(Devices) /\ \A i, j \in DOMAIN ring : ring[i] = ring[j] => i = j
  /\ addr \in [Devices -> Nat]
  /\ al \in [Devices -> [state : States, error : BOOLEAN]]
  /\ ask \in [Devices -> States \cup {"none", "Reset"}]
  /\ owner \in [Devices -> {"Master", "Pdi"}]
  /\ visited \in [Devices -> SUBSET States]

MainDeviceOK ==
  /\ pc \in Idles \cup Addressed \cup {"reset_state", "reset_memory", "address"}
  /\ num \in Nat /\ idx \in Nat \ {0} /\ left \in BOOLEAN
  /\ known \in Seq(Entry)

JobOK(j) ==
  /\ j = [f \in JobFields |-> j[f]] /\ j.k \in Nat \ {0}
  /\ j.op \in {"request", "request_only", "poll"} => j.want \in States

GroupsOK ==
  /\ subs \in [Groups -> Seq(Entry)]
  /\ job = [g \in Groups |-> job[g]] /\ \A g \in Groups : JobOK(job[g])
  /\ ty = [g \in Groups |-> ty[g]]

\* No address is in two groups or twice in one.
Distinct ==
  \A g, h \in Groups : \A j \in DOMAIN subs[g], k \in DOMAIN subs[h] :
    subs[g][j].addr = subs[h][k].addr => g = h /\ j = k

\* The addresses of the SubDevices found are their positions.
AddressInv ==
  /\ Distinct
  /\ \A k \in DOMAIN known : known[k].addr = k
  /\ pc \in {"reset_state", "reset_memory", "address"} => known = <<>>
  /\ pc = "new" => Len(known) = idx - 1

\* What the history of a SubDevice says once it was asked for a state, and what
\* a check that found the state says.
Asked(g, k) ==
  \A d \in Devices : addr[d] = subs[g][k].addr /\ Sole(d) => al[d].state \in visited[d]
Found(g, k) ==
  \E d \in Devices :
    addr[d] = subs[g][k].addr /\ (Sole(d) => job[g].want \in visited[d])

TransitionInv ==
  /\ pc # "done" => \A g \in Groups : job[g] = NoJob
  /\ \A g \in Groups :
       job[g].op \in {"request", "request_only"} => job[g].k \in DOMAIN subs[g]
  /\ \A g \in Groups : \A k \in DOMAIN subs[g] :
       /\ job[g].op = "request" /\ k < job[g].k => Asked(g, k)
       /\ job[g].op = "poll" => Asked(g, k)
       /\ job[g].op = "poll" /\ k < job[g].k => Found(g, k)

\* How far init has come, as long as no SubDevice left the network.
ProgressInv ==
  pc \notin Idles /\ ~ left =>
    /\ num \in 1..Len(ring)
    /\ pc \in {"address", "new"} => idx <= num
    /\ pc = "address" => \A k \in 1..(idx - 1) : addr[ring[k]] = k
    /\ pc \in Addressed => /\ \A k \in 1..num : addr[ring[k]] = k
                           /\ \A k \in DOMAIN known :
                                k <= num /\ known[k] = [addr |-> k, id |-> ring[k]]
    /\ pc \in {"reset_state", "reset_memory"} => idx = 1
    /\ pc = "new" => \A k \in 1..(idx - 1) : owner[ring[k]] = "Master"
    /\ pc \in Known =>
         /\ Len(known) = num
         /\ \A k \in 1..num : owner[ring[k]] = "Master"
              \/ (pc \in {"request_pre_op", "wait_pre_op"} /\ k = CurAddr)
    /\ pc \in Grouped =>
         \A k \in DOMAIN known : \E g \in Groups : \E j \in DOMAIN subs[g] :
            subs[g][j] = known[k]

GroupsInv == DevicesOK /\ MainDeviceOK /\ GroupsOK /\ AddressInv /\ TransitionInv /\ ProgressInv

-----------------------------------------------------------------------------
\* The operators.

\* f is the function that Pick is recursive with.
Picks(f, s, P) ==
  f = [k \in 0..Len(s) |-> IF k = 0 THEN <<>>
                           ELSE IF k \in P THEN Append(f[k-1], s[k]) ELSE f[k-1]]

\* The recursion of Pick has a solution: if not, take the shortest prefix
\* without one and extend the solution of the one before it.
LEMMA PickRecursion ==
  ASSUME NEW s, Len(s) \in Nat, NEW P
  PROVE  \E f : Pick(s, P) = f[Len(s)] /\ Picks(f, s, P)
<1> DEFINE B(f, k) == IF k = 0 THEN <<>>
                      ELSE IF k \in P THEN Append(f[k-1], s[k]) ELSE f[k-1]
           T == {n \in Nat : ~ \E f : f = [k \in 0..n |-> B(f, k)]}
<1>1. SUFFICES Len(s) \notin T
  <2>1. PICK f : f = [k \in 0..Len(s) |-> B(f, k)]
    BY <1>1
  <2> DEFINE c == CHOOSE h : h = [k \in 0..Len(s) |-> B(h, k)]
  <2>2. c = [k \in 0..Len(s) |-> B(c, k)]
    BY <2>1
  <2>3. Pick(s, P) = c[Len(s)]
    BY SMTT(40) DEF Pick
  <2>4. Picks(c, s, P)
    BY <2>2 DEF Picks
  <2> HIDE DEF c
  <2> QED BY <2>3, <2>4
<1>2. SUFFICES ASSUME T # {} PROVE FALSE
  OBVIOUS
<1>3. PICK n \in T : \A m \in T : n <= m
  <2>1. T \in SUBSET Nat
    OBVIOUS
  <2> HIDE DEF T
  <2> QED BY <1>2, <2>1, Least
<1>4. n # 0
  <2>1. SUFFICES ASSUME n = 0 PROVE FALSE
    OBVIOUS
  <2> DEFINE h == [k \in 0..0 |-> <<>>]
  <2>2. h = [k \in 0..0 |-> B(h, k)]
    OBVIOUS
  <2> HIDE DEF h
  <2> QED BY <2>1, <2>2
<1>5. n - 1 \in Nat /\ n - 1 \notin T
  <2>1. n \in Nat /\ n - 1 \in Nat /\ ~(n <= n - 1)
    BY <1>4
  <2> HIDE DEF T
  <2> QED BY <1>3, <2>1
<1>6. PICK f : f = [k \in 0..(n - 1) |-> B(f, k)]
  BY <1>5
<1> DEFINE h == [k \in 0..n |-> IF k = n THEN B(f, n) ELSE f[k]]
<1>7. ASSUME NEW k \in 0..n PROVE h[k] = B(h, k)
  <2>1. CASE k = 0
    <3>1. 0 \in 0..(n - 1) /\ 0 # n
      BY <1>4, <1>5
    <3>2. f[0] = <<>>
      BY <1>6, <3>1
    <3> QED BY <2>1, <3>1, <3>2
  <2>2. CASE k # 0
    <3>1. k - 1 \in 0..(n - 1) /\ k - 1 # n /\ k - 1 \in 0..n
      BY <2>2
    <3>2. h[k - 1] = f[k - 1]
      BY <3>1
    <3>3. B(h, k) = B(f, k)
      BY <2>2, <3>2
    <3>4. CASE k = n
      BY <3>3, <3>4
    <3>5. CASE k # n
      <4>1. k \in 0..(n - 1)
        BY <3>5
      <4>2. f[k] = B(f, k)
        BY <1>6, <4>1
      <4> QED BY <3>3, <3>5, <4>2
    <3> QED BY <3>4, <3>5
  <2> QED BY <2>1, <2>2
<1>8. h = [k \in 0..n |-> B(h, k)]
  BY <1>7
<1> HIDE DEF h
<1> QED BY <1>3, <1>8

\* Pick takes the elements at the positions of P, each once and all of them.
LEMMA PickElements ==
  ASSUME NEW S, NEW s \in Seq(S), NEW P \in SUBSET DOMAIN s,
         \A i, j \in DOMAIN s : s[i] = s[j] => i = j
  PROVE  /\ Pick(s, P) \in Seq(S)
         /\ \A j \in DOMAIN Pick(s, P) : \E p \in P : Pick(s, P)[j] = s[p]
         /\ \A p \in P : \E j \in DOMAIN Pick(s, P) : Pick(s, P)[j] = s[p]
         /\ \A i, j \in DOMAIN Pick(s, P) : Pick(s, P)[i] = Pick(s, P)[j] => i = j
<1>1. Len(s) \in Nat /\ DOMAIN s = 1..Len(s)
  OBVIOUS
<1>2. PICK f : Pick(s, P) = f[Len(s)] /\ Picks(f, s, P)
  BY <1>1, PickRecursion
<1> DEFINE Good(k) ==
      /\ f[k] \in Seq(S)
      /\ \A j \in 1..Len(f[k]) : \E p \in P : p <= k /\ f[k][j] = s[p]
      /\ \A p \in P : p <= k => \E j \in 1..Len(f[k]) : f[k][j] = s[p]
      /\ \A i, j \in 1..Len(f[k]) : f[k][i] = f[k][j] => i = j
    T == {k \in 0..Len(s) : ~ Good(k)}
<1>3. SUFFICES T = {}
  <2>1. Len(s) \in 0..Len(s)
    BY <1>1
  <2>2. Good(Len(s))
    BY <1>3, <2>1
  <2>3. \A p \in P : p <= Len(s)
    BY <1>1
  <2>4. DOMAIN f[Len(s)] = 1..Len(f[Len(s)])
    BY <2>2
  <2> DEFINE r == f[Len(s)]
  <2>5. /\ r \in Seq(S) /\ DOMAIN r = 1..Len(r)
        /\ \A j \in 1..Len(r) : \E p \in P : r[j] = s[p]
        /\ \A p \in P : \E j \in 1..Len(r) : r[j] = s[p]
        /\ \A i, j \in 1..Len(r) : r[i] = r[j] => i = j
    BY <2>2, <2>3, <2>4
  <2>6. Pick(s, P) = r
    BY <1>2
  <2> HIDE DEF r
  <2> QED BY <2>5, <2>6
<1>4. SUFFICES ASSUME T # {} PROVE FALSE
  OBVIOUS
<1>5. PICK n \in T : \A m \in T : n <= m
  <2>1. T \in SUBSET Nat
    BY <1>1
  <2> HIDE DEF T
  <2> QED BY <1>4, <2>1, Least
<1>6. n \in 0..Len(s)
  OBVIOUS
<1>7. CASE n = 0
  <2>1. f[0] = <<>>
    BY <1>1, <1>2 DEF Picks
  <2>2. \A p \in P : ~(p <= 0)
    BY <1>1
  <2>3. Good(0)
    BY <2>1, <2>2
  <2> QED BY <1>5, <1>7, <2>3
<1>8. CASE n # 0
  <2> DEFINE m == n - 1
  <2>1. m \in 0..Len(s) /\ ~(n <= m) /\ n = m + 1 /\ n \in DOMAIN s
    BY <1>1, <1>6, <1>8
  <2>2. m \notin T
    <3> HIDE DEF T, m
    <3> QED BY <1>5, <2>1
  <2>3. Good(m)
    BY <2>1, <2>2
  <2>4. f[n] = IF n \in P THEN Append(f[m], s[n]) ELSE f[m]
    BY <1>2, <1>6, <1>8 DEF Picks
  <2> HIDE DEF m
  <2>5. CASE n \notin P
    <3>1. f[n] = f[m]
      BY <2>4, <2>5
    <3>2. \A p \in P : p <= n <=> p <= m
      BY <1>1, <2>1, <2>5
    <3>3. /\ f[n] \in Seq(S)
          /\ \A i, j \in 1..Len(f[n]) : f[n][i] = f[n][j] => i = j
      BY <2>3, <3>1
    <3>4. \A j \in 1..Len(f[n]) : \E p \in P : p <= n /\ f[n][j] = s[p]
      BY <2>3, <3>1, <3>2
    <3>5. \A p \in P : p <= n => \E j \in 1..Len(f[n]) : f[n][j] = s[p]
      BY <2>3, <3>1, <3>2
    <3>6. Good(n)
      BY <3>3, <3>4, <3>5
    <3> QED BY <1>5, <3>6
  <2>6. CASE n \in P
    <3>1. f[n] = Append(f[m], s[n])
      BY <2>4, <2>6
    <3>2. s[n] \in S
      BY <2>1
    <3>3. /\ f[n] \in Seq(S) /\ Len(f[n]) = Len(f[m]) + 1 /\ Len(f[m]) \in Nat
          /\ \A j \in 1..Len(f[m]) : f[n][j] = f[m][j]
          /\ f[n][Len(f[m]) + 1] = s[n]
      BY <2>3, <3>1, <3>2
    <3>4. \A p \in P : p <= n <=> (p <= m \/ p = n)
      BY <1>1, <2>1
    <3>5. ASSUME NEW j \in 1..Len(f[n])
          PROVE  (j \in 1..Len(f[m]) /\ f[n][j] = f[m][j]) \/ (j = Len(f[m]) + 1 /\ f[n][j] = s[n])
      BY <3>3
    <3>6. \A j \in 1..Len(f[n]) : \E p \in P : p <= n /\ f[n][j] = s[p]
      BY <2>3, <2>6, <3>4, <3>5
    <3>7. \A p \in P : p <= n => \E j \in 1..Len(f[n]) : f[n][j] = s[p]
      <4>1. Len(f[m]) + 1 \in 1..Len(f[n]) /\ \A j \in 1..Len(f[m]) : j \in 1..Len(f[n])
        BY <3>3
      <4> TAKE p \in P
      <4> HAVE p <= n
      <4>2. CASE p = n
        BY <3>3, <4>1, <4>2
      <4>3. CASE p <= m
        <5>1. PICK j \in 1..Len(f[m]) : f[m][j] = s[p]
          BY <2>3, <4>3
        <5> QED BY <3>3, <4>1, <5>1
      <4> QED BY <3>4, <4>2, <4>3
    <3>8. \A j \in 1..Len(f[m]) : f[m][j] # s[n]
      <4> TAKE j \in 1..Len(f[m])
      <4>1. PICK p \in P : p <= m /\ f[m][j] = s[p]
        BY <2>3
      <4>2. p # n /\ p \in DOMAIN s
        BY <1>1, <2>1, <4>1
      <4> QED BY <2>1, <4>1, <4>2
    <3>9. \A i, j \in 1..Len(f[n]) : f[n][i] = f[n][j] => i = j
      BY <2>3, <3>5, <3>8
    <3>10. Good(n)
      BY <3>3, <3>6, <3>7, <3>9
    <3> QED BY <1>5, <3>10
  <2> QED BY <2>5, <2>6
<1> QED BY <1>7, <1>8

\* A telegram that one SubDevice answers reaches the one with the address.
LEMMA OneDevice ==
  ASSUME DevicesOK, NEW a, One(a)
  PROVE  \E i \in DOMAIN ring :
           At(a) = {i} /\ Dev(a) = ring[i] /\ addr[ring[i]] = a /\ ring[i] \in Devices
<1>1. IsFiniteSet(At(a))
  <2>1. At(a) \subseteq 1..Len(ring) /\ Len(ring) \in Nat
    BY DEF DevicesOK, At
  <2>2. IsFiniteSet(1..Len(ring))
    BY <2>1, FS_Interval
  <2> QED BY <2>1, <2>2, FS_Subset
<1>2. PICK i : At(a) = {i}
  BY <1>1, FS_Singleton DEF One
<1>3. i \in DOMAIN ring /\ addr[ring[i]] = a /\ ring[i] \in Devices
  BY <1>2 DEF At, DevicesOK
<1>4. i <= i
  BY <1>3 DEF DevicesOK
<1>5. Dev(a) = ring[i]
  BY <1>2, <1>4 DEF Dev
<1> QED BY <1>2, <1>3, <1>5

\* One answers if the address is set at one place of the network.
LEMMA OneAnswers ==
  ASSUME NEW a, NEW i, At(a) = {i}
  PROVE  One(a)
<1>1. IsFiniteSet({i}) /\ Cardinality({i}) = 1
  BY FS_Singleton
<1> QED BY <1>1 DEF One

\* A status that somebody answered is that of a SubDevice with the address.
LEMMA StatusDevice ==
  ASSUME DevicesOK, NEW a, Status(a).state # "None"
  PROVE  \E d \in Devices : addr[d] = a /\ Status(a) = al[d]
<1>1. At(a) # {}
  BY DEF Status
<1>2. At(a) \in SUBSET (0..Len(ring)) /\ Len(ring) \in Nat
  BY DEF DevicesOK, At
<1>3. \E m \in At(a) : \A x \in At(a) : x <= m
  BY <1>1, <1>2, Greatest
<1> DEFINE m == CHOOSE i \in At(a) : \A j \in At(a) : j <= i
<1>4. m \in At(a)
  BY <1>3
<1>5. Dev(a) = ring[m]
  BY DEF Dev
<1> HIDE DEF m
<1>6. ring[m] \in Devices /\ addr[ring[m]] = a
  BY <1>4 DEF At, DevicesOK
<1> QED BY <1>1, <1>5, <1>6 DEF Status

-----------------------------------------------------------------------------
\* The steps of a group.

\* A record of a job with some fields set is one.
LEMMA NoJobOK == JobOK(NoJob) /\ NoJob.op = "none"
BY DEF JobOK, NoJob, JobFields

\* A call that has requests left sends them, else it polls or ends.
LEMMA RequestsStep ==
  ASSUME GroupsOK, NEW g \in Groups, NEW j, JobOK(j), j.op \in {"request", "request_only"},
         Requests(g, j)
  PROVE  /\ job' = [job EXCEPT ![g] = job'[g]] /\ JobOK(job'[g])
         /\ ty' = [ty EXCEPT ![g] = ty'[g]]
         /\ \/ job'[g] = j /\ j.k <= Len(subs[g])
            \/ /\ ~(j.k <= Len(subs[g])) /\ j.op = "request" /\ job'[g].op = "poll"
               /\ job'[g].k = 1 /\ job'[g].want = j.want /\ ty' = ty
            \/ job'[g] = NoJob
<1>1. CASE j.k <= Len(subs[g])
  BY <1>1 DEF Requests, GroupsOK
<1>2. CASE ~(j.k <= Len(subs[g])) /\ j.op = "request"
  <2> DEFINE n == [j EXCEPT !.op = "poll", !.k = 1]
  <2>1. n.op = "poll" /\ n.k = 1 /\ n.want = j.want /\ n = [f \in JobFields |-> n[f]]
    BY DEF JobOK, JobFields
  <2>2. job' = [job EXCEPT ![g] = n] /\ UNCHANGED ty
    BY <1>2 DEF Requests
  <2> HIDE DEF n
  <2>3. JobOK(n)
    <3>1. j.want \in States
      BY <1>2 DEF JobOK
    <3> QED BY <2>1, <3>1 DEF JobOK
  <2>4. job'[g] = n
    BY <2>2 DEF GroupsOK
  <2> QED BY <1>2, <2>1, <2>2, <2>3, <2>4 DEF GroupsOK
<1>3. CASE ~(j.k <= Len(subs[g])) /\ j.op # "request"
  <2>1. job' = [job EXCEPT ![g] = NoJob] /\ ty' = [ty EXCEPT ![g] = j.want]
    BY <1>3 DEF Requests
  <2> QED BY <2>1, NoJobOK DEF GroupsOK
<1> QED BY <1>1, <1>2, <1>3

\* The other jobs keep what they are doing.
LEMMA JobStep ==
  ASSUME GroupsOK, NEW g \in Groups, NEW n, n = [f \in JobFields |-> n[f]],
         n.k \in Nat \ {0}, n.op \in {"none", "fmmu", "dc"}, job' = [job EXCEPT ![g] = n]
  PROVE  /\ job' = [job EXCEPT ![g] = job'[g]] /\ JobOK(job'[g])
         /\ job'[g].op \in {"none", "fmmu", "dc"}
<1>1. job'[g] = n
  BY DEF GroupsOK
<1>2. JobOK(n)
  BY DEF JobOK
<1> QED BY <1>1, <1>2

\* What a step of one group leaves alone.
LEMMA GroupFrame ==
  ASSUME GroupsOK, NEW g \in Groups, GroupStep(g)
  PROVE  /\ UNCHANGED <<ring, addr, al, owner, pc, num, idx, known, order, gi, left, subs>>
         /\ pc = "done"
         /\ \/ /\ UNCHANGED <<ask, visited>> /\ job'[g].op \in {"none", "fmmu", "dc"}
               /\ job' = [job EXCEPT ![g] = job'[g]] /\ JobOK(job'[g])
               /\ ty' = [ty EXCEPT ![g] = ty'[g]]
            \/ TransitionTo(g) \/ RequestState(g) \/ PollFrame(g)
<1> USE DEF devVars, initVars, histVars, Busy, Idle
<1> DEFINE Frame == /\ UNCHANGED <<ring, addr, al, owner, pc, num, idx, known, order, gi,
                                   left, subs>>
                    /\ pc = "done"
           Kept == /\ UNCHANGED <<ask, visited>> /\ job'[g].op \in {"none", "fmmu", "dc"}
                   /\ job' = [job EXCEPT ![g] = job'[g]] /\ JobOK(job'[g])
                   /\ ty' = [ty EXCEPT ![g] = ty'[g]]
<1>0. SUFFICES Frame /\ (Kept \/ TransitionTo(g) \/ RequestState(g) \/ PollFrame(g))
  OBVIOUS
<1>t. ty = [ty EXCEPT ![g] = ty[g]]
  BY DEF GroupsOK
<1>1. CASE GroupFails(g)
  BY <1>1, NoJobOK DEF GroupFails, GroupsOK
<1>2. CASE IntoPreOpPdi(g)
  <2> DEFINE n == [NoJob EXCEPT !.op = "fmmu", !.pos = pdi[g].start]
  <2>1. n = [f \in JobFields |-> n[f]] /\ n.op = "fmmu" /\ n.k = 1
    BY DEF NoJob, JobFields
  <2>2. Frame /\ UNCHANGED <<ask, visited, ty>> /\ job' = [job EXCEPT ![g] = n]
    BY <1>2 DEF IntoPreOpPdi
  <2> HIDE DEF n
  <2>3. n.k \in Nat \ {0}
    BY <2>1
  <2> QED BY <2>1, <2>2, <2>3, <1>t, JobStep
<1>3. CASE CheckPreOp(g)
  <2>1. Frame /\ UNCHANGED <<ask, visited, ty>> /\ job[g].op = "fmmu"
        /\ job' = [job EXCEPT ![g].i = 1, ![g].seg = job[g].pos]
    BY <1>3 DEF CheckPreOp
  <2> QED BY <2>1, ZenonT(60) DEF GroupsOK, JobOK, JobFields
<1>4. CASE ConfigureSm(g)
  <2>1. PICK i, len : Frame /\ UNCHANGED <<ask, visited, ty>> /\ job[g].op = "fmmu"
        /\ job' = [job EXCEPT ![g].i = i + 1, ![g].pos = @ + len]
    BY <1>4 DEF ConfigureSm
  <2> QED BY <2>1, ZenonT(60) DEF GroupsOK, JobOK, JobFields
<1>5. CASE SubDeviceDone(g)
  <2>1. Frame /\ UNCHANGED <<ask, visited, ty>> /\ job[g].op = "fmmu"
        /\ job' = [job EXCEPT ![g].k = @ + 1, ![g].i = 0]
    BY <1>5 DEF SubDeviceDone
  <2> DEFINE n == [job[g] EXCEPT !.k = @ + 1, !.i = 0]
  <2>2. job' = [job EXCEPT ![g] = n]
    BY <2>1 DEF GroupsOK
  <2>3. n = [f \in JobFields |-> n[f]] /\ n.op = "fmmu" /\ n.k = job[g].k + 1
    BY <2>1 DEF GroupsOK, JobOK, JobFields
  <2> HIDE DEF n
  <2>4. n.k \in Nat \ {0}
    BY <2>3 DEF GroupsOK, JobOK
  <2> QED BY <2>1, <2>2, <2>3, <2>4, <1>t, JobStep
<1>6. CASE DirectionDone(g)
  <2>1. Frame /\ UNCHANGED <<ask, visited>> /\ job[g].op = "fmmu"
    BY <1>6 DEF DirectionDone
  <2>2. CASE job[g].dir = "in"
    <3> DEFINE n == [job[g] EXCEPT !.dir = "out", !.k = 1]
    <3>1. UNCHANGED ty /\ job' = [job EXCEPT ![g] = n]
      BY <1>6, <2>2 DEF DirectionDone, GroupsOK
    <3>2. n = [f \in JobFields |-> n[f]] /\ n.op = "fmmu" /\ n.k = 1
      BY <2>1 DEF GroupsOK, JobOK, JobFields
    <3> HIDE DEF n
    <3>3. n.k \in Nat \ {0}
      BY <3>2
    <3> QED BY <2>1, <3>1, <3>2, <3>3, <1>t, JobStep
  <2>3. CASE job[g].dir # "in"
    <3>1. PICK t : ty' = [ty EXCEPT ![g] = t] /\ job' = [job EXCEPT ![g] = NoJob]
      BY <1>6, <2>3 DEF DirectionDone
    <3> QED BY <2>1, <3>1, NoJobOK DEF GroupsOK
  <2> QED BY <2>2, <2>3
<1>7. CASE TransitionTo(g)
  BY <1>7 DEF TransitionTo
<1>8. CASE RequestState(g)
  BY <1>8 DEF RequestState
<1>9. CASE PollFrame(g)
  BY <1>9 DEF PollFrame
<1>10. CASE ConfigureDcSync(g)
  <2>1. Frame /\ UNCHANGED <<ask, visited>> /\ job[g].op = "none"
    BY <1>10 DEF ConfigureDcSync
  <2>2. ASSUME NEW c, NEW t,
               job' = [job EXCEPT ![g] = [NoJob EXCEPT !.op = "dc", !.time = t, !.conf = c]],
               UNCHANGED ty
        PROVE  Kept
    <3> DEFINE n == [NoJob EXCEPT !.op = "dc", !.time = t, !.conf = c]
    <3>1. n = [f \in JobFields |-> n[f]] /\ n.op = "dc" /\ n.k = 1
      BY DEF NoJob, JobFields
    <3>2. job' = [job EXCEPT ![g] = n]
      BY <2>2
    <3> HIDE DEF n
    <3>3. n.k \in Nat \ {0}
      BY <3>1
    <3> QED BY <2>1, <2>2, <3>1, <3>2, <3>3, <1>t, JobStep
  <2>3. ASSUME UNCHANGED job, ty' = [ty EXCEPT ![g] = "lost"]
        PROVE  Kept
    BY <2>1, <2>3 DEF GroupsOK
  <2> QED BY <1>10, <2>1, <2>2, <2>3 DEF ConfigureDcSync
<1>11. CASE DcProgram(g)
  <2>1. Frame /\ UNCHANGED <<ask, visited, ty>> /\ job[g].op = "dc"
    BY <1>11 DEF DcProgram
  <2> DEFINE m == [job[g] EXCEPT !.i = 1]
             n == [job[g] EXCEPT !.k = @ + 1]
  <2>2. job' = [job EXCEPT ![g] = m] \/ job' = [job EXCEPT ![g] = n]
    BY <1>11 DEF DcProgram, GroupsOK
  <2>3. /\ m = [f \in JobFields |-> m[f]] /\ m.op = "dc" /\ m.k = job[g].k
        /\ n = [f \in JobFields |-> n[f]] /\ n.op = "dc" /\ n.k = job[g].k + 1
    BY <2>1 DEF GroupsOK, JobOK, JobFields
  <2> HIDE DEF m, n
  <2>4. m.k \in Nat \ {0} /\ n.k \in Nat \ {0}
    BY <2>3 DEF GroupsOK, JobOK
  <2>5. CASE job' = [job EXCEPT ![g] = m]
    BY <2>1, <2>3, <2>4, <2>5, <1>t, JobStep
  <2>6. CASE job' = [job EXCEPT ![g] = n]
    BY <2>1, <2>3, <2>4, <2>6, <1>t, JobStep
  <2> QED BY <2>2, <2>5, <2>6
<1>12. CASE DcActivate(g)
  <2>1. Frame /\ UNCHANGED <<ask, visited, ty>> /\ job[g].op = "dc"
        /\ job' = [job EXCEPT ![g].k = @ + 1, ![g].i = 0]
    BY <1>12 DEF DcActivate
  <2> DEFINE n == [job[g] EXCEPT !.k = @ + 1, !.i = 0]
  <2>2. job' = [job EXCEPT ![g] = n]
    BY <2>1 DEF GroupsOK
  <2>3. n = [f \in JobFields |-> n[f]] /\ n.op = "dc" /\ n.k = job[g].k + 1
    BY <2>1 DEF GroupsOK, JobOK, JobFields
  <2> HIDE DEF n
  <2>4. n.k \in Nat \ {0}
    BY <2>3 DEF GroupsOK, JobOK
  <2> QED BY <2>1, <2>2, <2>3, <2>4, <1>t, JobStep
<1>13. CASE DcDone(g)
  BY <1>13, NoJobOK DEF DcDone, GroupsOK
<1>14. CASE TxRxDc(g)
  BY <1>14 DEF TxRxDc, GroupsOK
<1> QED
  BY <1>1, <1>2, <1>3, <1>4, <1>5, <1>6, <1>7, <1>8, <1>9, <1>10, <1>11, <1>12,
     <1>13, <1>14 DEF GroupStep

\* A group whose job ends, or does something else than a transition, has nothing
\* to show.
LEMMA OtherJobs ==
  ASSUME DevicesOK, GroupsOK, AddressInv, TransitionInv, NEW g \in Groups, pc = "done",
         UNCHANGED <<ring, addr, al, pc, known, idx, subs, visited>>,
         job' = [job EXCEPT ![g] = job'[g]], JobOK(job'[g]),
         ty' = [ty EXCEPT ![g] = ty'[g]],
         job'[g].op \in {"request", "request_only"} => job'[g].k \in DOMAIN subs[g],
         \A k \in DOMAIN subs[g] :
           /\ job'[g].op = "request" /\ k < job'[g].k => Asked(g, k)
           /\ job'[g].op = "poll" => Asked(g, k)
           /\ job'[g].op = "poll" /\ k < job'[g].k => Found(g, k)'
  PROVE  GroupsOK' /\ TransitionInv'
<1>1. \A h \in Groups : h # g => job'[h] = job[h]
  BY DEF GroupsOK
<1>2. GroupsOK'
  <2>1. \A h \in Groups : JobOK(job'[h])
    BY <1>1 DEF GroupsOK
  <2>2. job' = [h \in Groups |-> job'[h]] /\ ty' = [h \in Groups |-> ty'[h]]
    BY DEF GroupsOK
  <2>3. subs' \in [Groups -> Seq(Entry)]
    BY DEF GroupsOK
  <2> QED BY <2>1, <2>2, <2>3 DEF GroupsOK, JobOK
<1>3. ASSUME NEW h \in Groups, NEW k
      PROVE  (Asked(h, k)' <=> Asked(h, k)) /\ (h # g => (Found(h, k)' <=> Found(h, k)))
  BY <1>1 DEF Asked, Found, Sole
<1> QED BY <1>1, <1>2, <1>3 DEF TransitionInv

\* The requests of a transition begin.
LEMMA TransitionToStep ==
  ASSUME DevicesOK, GroupsOK, AddressInv, TransitionInv, NEW g \in Groups, TransitionTo(g)
  PROVE  GroupsOK' /\ TransitionInv'
<1>1. PICK t \in Transitions :
        Requests(g, [NoJob EXCEPT !.want = t[3],
            !.op = IF t[2] = "request_into_op" THEN "request_only" ELSE "request"])
  BY DEF TransitionTo
<1> DEFINE j == [NoJob EXCEPT !.want = t[3],
              !.op = IF t[2] = "request_into_op" THEN "request_only" ELSE "request"]
<1>2. j = [f \in JobFields |-> j[f]] /\ j.k = 1 /\ j.want = t[3]
      /\ j.op \in {"request", "request_only"}
  BY DEF NoJob, JobFields
<1>3. Requests(g, j)
  BY <1>1
<1> HIDE DEF j
<1>4. t[3] \in States
  BY DEF Transitions, States
<1>5. JobOK(j)
  BY <1>2, <1>4 DEF JobOK
<1>6. /\ job' = [job EXCEPT ![g] = job'[g]] /\ JobOK(job'[g])
      /\ ty' = [ty EXCEPT ![g] = ty'[g]]
      /\ \/ job'[g] = j /\ j.k <= Len(subs[g])
         \/ ~(j.k <= Len(subs[g])) /\ job'[g].op = "poll" /\ job'[g].k = 1
         \/ job'[g] = NoJob
  BY <1>2, <1>3, <1>5, RequestsStep
<1>7. DOMAIN subs[g] = 1..Len(subs[g]) /\ Len(subs[g]) \in Nat
  BY DEF GroupsOK
<1>8. pc = "done" /\ UNCHANGED <<ring, addr, al, pc, known, idx, subs, visited>>
  BY DEF TransitionTo, Idle, Busy, devVars, initVars, histVars
<1>9. CASE job'[g] = j /\ j.k <= Len(subs[g])
  <2>1. job'[g].k = 1 /\ job'[g].k \in DOMAIN subs[g] /\ job'[g].op # "poll"
    BY <1>2, <1>7, <1>9
  <2>2. \A k \in DOMAIN subs[g] : ~(k < job'[g].k)
    BY <1>7, <2>1
  <2> QED BY <1>6, <1>8, <2>1, <2>2, OtherJobs
<1>10. CASE ~(j.k <= Len(subs[g])) /\ job'[g].op = "poll" /\ job'[g].k = 1
  <2>1. DOMAIN subs[g] = {}
    BY <1>2, <1>7, <1>10
  <2> QED BY <1>6, <1>8, <1>10, <2>1, OtherJobs
<1>11. CASE job'[g] = NoJob
  BY <1>6, <1>8, <1>11, NoJobOK, OtherJobs
<1> QED BY <1>6, <1>9, <1>10, <1>11

\* A SubDevice is asked: its history begins anew with the state it is in, and no
\* other group waits for it.
LEMMA RequestStateStep ==
  ASSUME DevicesOK, GroupsOK, AddressInv, TransitionInv, NEW g \in Groups, RequestState(g)
  PROVE  DevicesOK' /\ GroupsOK' /\ TransitionInv'
<1> DEFINE j == [job[g] EXCEPT !.k = @ + 1]
           a == Sub(g).addr
<1>1. /\ pc = "done" /\ One(a) /\ job[g].op \in {"request", "request_only"}
      /\ ask' = [ask EXCEPT ![Dev(a)] = job[g].want]
      /\ visited' = [visited EXCEPT ![Dev(a)] = {al[Dev(a)].state}]
      /\ Requests(g, j)
      /\ UNCHANGED <<ring, addr, al, owner, pc, known, idx, subs>>
  BY DEF RequestState, Busy, initVars
<1>2. PICK i \in DOMAIN ring :
        At(a) = {i} /\ Dev(a) = ring[i] /\ addr[ring[i]] = a /\ ring[i] \in Devices
  BY <1>1, OneDevice
<1>3. PICK d \in Devices : /\ addr[d] = a /\ ask' = [ask EXCEPT ![d] = job[g].want]
                           /\ visited' = [visited EXCEPT ![d] = {al[d].state}]
  BY <1>1, <1>2
<1>4. job[g].want \in States /\ al[d].state \in States
  BY <1>1 DEF GroupsOK, JobOK, DevicesOK
<1>5. DevicesOK'
  <2>1. ask' \in [Devices -> States \cup {"none", "Reset"}]
    BY <1>3, <1>4 DEF DevicesOK
  <2>2. visited' \in [Devices -> SUBSET States]
    BY <1>3, <1>4 DEF DevicesOK
  <2> QED BY <1>1, <2>1, <2>2 DEF DevicesOK
<1>6. /\ visited'[d] = {al[d].state}
      /\ \A e \in Devices : e # d => visited'[e] = visited[e]
  BY <1>3 DEF DevicesOK
<1>7. j = [f \in JobFields |-> j[f]] /\ j.k = job[g].k + 1 /\ j.op = job[g].op
      /\ j.want = job[g].want /\ job[g].k \in Nat \ {0}
  BY DEF GroupsOK, JobOK, JobFields
<1> HIDE DEF j
<1>8. JobOK(j)
  BY <1>4, <1>7 DEF JobOK
<1>9. /\ job' = [job EXCEPT ![g] = job'[g]] /\ JobOK(job'[g])
      /\ ty' = [ty EXCEPT ![g] = ty'[g]]
      /\ \/ job'[g] = j /\ j.k <= Len(subs[g])
         \/ /\ ~(j.k <= Len(subs[g])) /\ j.op = "request" /\ job'[g].op = "poll"
            /\ job'[g].k = 1
         \/ job'[g] = NoJob
  BY <1>1, <1>7, <1>8, RequestsStep
<1>10. DOMAIN subs[g] = 1..Len(subs[g]) /\ Len(subs[g]) \in Nat /\ job[g].k \in DOMAIN subs[g]
       /\ a = subs[g][job[g].k].addr
  BY <1>1 DEF GroupsOK, TransitionInv, Sub
<1> HIDE DEF a
<1>11. \A h \in Groups : h # g => job'[h] = job[h]
  BY <1>9 DEF GroupsOK
<1>12. ASSUME NEW h \in Groups, NEW k \in DOMAIN subs[h], Asked(h, k)
       PROVE  Asked(h, k)'
  BY <1>1, <1>6, <1>12, SMTT(40) DEF Asked, Sole
<1>13. \A k \in DOMAIN subs[g] : k = job[g].k => Asked(g, k)'
  BY <1>1, <1>3, <1>6, <1>10 DEF Asked, Sole
<1>14. ASSUME NEW h \in Groups, h # g, NEW k \in DOMAIN subs[h], Found(h, k)
       PROVE  Found(h, k)'
  <2>1. PICK e \in Devices : addr[e] = subs[h][k].addr
                             /\ (Sole(e) => job[h].want \in visited[e])
    BY <1>14 DEF Found
  <2>2. e # d
    BY <1>3, <1>10, <1>14, <2>1 DEF AddressInv, Distinct
  <2> QED BY <1>1, <1>6, <1>11, <1>14, <2>1, <2>2 DEF Found, Sole
<1>15. GroupsOK'
  <2>1. \A h \in Groups : JobOK(job'[h])
    BY <1>9, <1>11 DEF GroupsOK
  <2>2. job' = [h \in Groups |-> job'[h]] /\ ty' = [h \in Groups |-> ty'[h]]
    BY <1>9 DEF GroupsOK
  <2>3. subs' \in [Groups -> Seq(Entry)]
    BY <1>1 DEF GroupsOK
  <2> QED BY <2>1, <2>2, <2>3 DEF GroupsOK, JobOK
<1>16. TransitionInv'
  <2>1. ASSUME NEW h \in Groups, h # g
        PROVE  /\ job'[h].op \in {"request", "request_only"} => job'[h].k \in DOMAIN subs'[h]
               /\ \A k \in DOMAIN subs'[h] :
                    /\ job'[h].op = "request" /\ k < job'[h].k => Asked(h, k)'
                    /\ job'[h].op = "poll" => Asked(h, k)'
                    /\ job'[h].op = "poll" /\ k < job'[h].k => Found(h, k)'
    BY <1>1, <1>11, <1>12, <1>14, <2>1 DEF TransitionInv
  <2>2. ASSUME NEW k \in DOMAIN subs[g], job[g].op = "request", k < job[g].k + 1
        PROVE  Asked(g, k)'
    <3>1. k < job[g].k \/ k = job[g].k
      BY <1>7, <1>10, <2>2
    <3>2. CASE k < job[g].k
      BY <1>12, <2>2, <3>2 DEF TransitionInv
    <3>3. CASE k = job[g].k
      BY <1>13, <3>3
    <3> QED BY <3>1, <3>2, <3>3
  <2>3. CASE job'[g] = j /\ j.k <= Len(subs[g])
    <3>1. job'[g].k \in DOMAIN subs[g] /\ job'[g].op # "poll"
      BY <1>1, <1>7, <1>10, <2>3
    <3> QED BY <1>1, <1>7, <2>1, <2>2, <2>3, <3>1 DEF TransitionInv
  <2>4. CASE /\ ~(j.k <= Len(subs[g])) /\ j.op = "request" /\ job'[g].op = "poll"
             /\ job'[g].k = 1
    <3>1. \A k \in DOMAIN subs[g] : k < job[g].k + 1 /\ ~(k < job'[g].k)
      BY <1>7, <1>10, <2>4
    <3> QED BY <1>1, <1>7, <2>1, <2>2, <2>4, <3>1 DEF TransitionInv
  <2>5. CASE job'[g] = NoJob
    BY <1>1, <2>1, <2>5, NoJobOK DEF TransitionInv
  <2> QED BY <1>9, <2>3, <2>4, <2>5
<1> QED BY <1>5, <1>15, <1>16

\* A frame holds as many checks as the loop goes on by.
LEMMA ChecksCounted ==
  ASSUME GroupsOK, NEW g \in Groups
  PROVE  /\ Cardinality(Checks(g)) \in Nat
         /\ \A k \in DOMAIN subs[g] :
              job[g].k <= k /\ k < job[g].k + Cardinality(Checks(g)) => k \in Checks(g)
<1> DEFINE I == job[g].k..(job[g].k + ChecksPerFrame - 1)
<1>1. job[g].k \in Nat /\ ChecksPerFrame \in Nat \ {0} /\ DOMAIN subs[g] \subseteq Nat
  BY SizesAssumption DEF GroupsOK, JobOK
<1>2. IsFiniteSet(I) /\ Cardinality(I) = ChecksPerFrame
  <2>1. /\ job[g].k \in Int /\ job[g].k + ChecksPerFrame - 1 \in Int
        /\ ~(job[g].k > job[g].k + ChecksPerFrame - 1)
        /\ (job[g].k + ChecksPerFrame - 1) - job[g].k + 1 = ChecksPerFrame
    BY <1>1
  <2> QED BY <2>1, FS_Interval
<1>3. Checks(g) \in SUBSET I
  BY <1>1 DEF Checks
<1> HIDE DEF I
<1>4. IsFiniteSet(Checks(g)) /\ Cardinality(Checks(g)) <= ChecksPerFrame
  BY <1>2, <1>3, FS_Subset
<1>5. Cardinality(Checks(g)) \in Nat
  BY <1>4, FS_CardinalityType
<1> QED BY <1>1, <1>4, <1>5 DEF Checks

\* The checks find the state in SubDevices that were asked.
LEMMA ChecksFind ==
  ASSUME DevicesOK, GroupsOK, TransitionInv, NEW g \in Groups, Busy(g, "poll"),
         \A k \in Checks(g) : Status(subs[g][k].addr).state = job[g].want,
         NEW n \in DOMAIN subs[g], n < job[g].k + Cardinality(Checks(g))
  PROVE  Found(g, n)
<1>1. job[g].op = "poll" /\ job[g].want \in States /\ job[g].k \in Nat /\ n \in Nat
  BY DEF Busy, GroupsOK, JobOK
<1>2. CASE n < job[g].k
  BY <1>1, <1>2 DEF TransitionInv
<1>3. CASE ~(n < job[g].k)
  <2>1. n \in Checks(g)
    BY <1>1, <1>3, ChecksCounted
  <2>2. Status(subs[g][n].addr).state = job[g].want
    BY <2>1
  <2>3. "None" \notin States
    BY DEF States
  <2>4. PICK d \in Devices : addr[d] = subs[g][n].addr /\ Status(subs[g][n].addr) = al[d]
    BY <1>1, <2>2, <2>3, StatusDevice
  <2>5. Sole(d) => al[d].state \in visited[d]
    BY <1>1, <2>4 DEF TransitionInv, Asked
  <2> QED BY <2>2, <2>4, <2>5 DEF Found
<1> QED BY <1>2, <1>3

\* A poll that ends the transition has found every SubDevice in the state.
LEMMA PollFrameStep ==
  ASSUME DevicesOK, GroupsOK, AddressInv, TransitionInv, NEW g \in Groups, PollFrame(g)
  PROVE  /\ GroupsOK' /\ TransitionInv' /\ ty' = [ty EXCEPT ![g] = ty'[g]]
         /\ ty'[g] # ty[g] => /\ ty'[g] = job[g].want
                              /\ \A k \in DOMAIN subs[g] : Found(g, k)
<1> DEFINE ok == \A k \in Checks(g) : Status(subs[g][k].addr).state = job[g].want
           next == NextCheck(g, ok)
<1>1. /\ Busy(g, "poll") /\ pc = "done" /\ job[g].op = "poll"
      /\ UNCHANGED <<ring, addr, al, pc, known, idx, subs, visited>>
      /\ IF next <= Len(subs[g])
         THEN job' = [job EXCEPT ![g].k = next] /\ UNCHANGED ty
         ELSE ty' = [ty EXCEPT ![g] = job[g].want] /\ job' = [job EXCEPT ![g] = NoJob]
  BY DEF PollFrame, Busy, devVars, initVars, histVars
<1>2. /\ DOMAIN subs[g] = 1..Len(subs[g]) /\ Len(subs[g]) \in Nat /\ job[g].k \in Nat \ {0}
      /\ Cardinality(Checks(g)) \in Nat /\ job[g].want \in States
  BY <1>1, ChecksCounted DEF GroupsOK, JobOK
<1>3. next \in Nat \ {0} /\ \A k \in DOMAIN subs[g] : k < next => Found(g, k)
  <2>1. CASE ok
    <3>1. next = job[g].k + Cardinality(Checks(g))
      BY <2>1 DEF NextCheck
    <3>2. \A k \in DOMAIN subs[g] :
            k < job[g].k + Cardinality(Checks(g)) => Found(g, k)
      BY <1>1, <2>1, ChecksFind
    <3> HIDE DEF next
    <3> QED BY <1>2, <3>1, <3>2
  <2>2. CASE ~ ok
    <3>1. next = 1
      BY <2>2 DEF NextCheck
    <3> HIDE DEF next
    <3> QED BY <1>2, <3>1
  <2> QED BY <2>1, <2>2
<1> HIDE DEF ok, next
<1>4. CASE next <= Len(subs[g])
  <2> DEFINE n == [job[g] EXCEPT !.k = next]
  <2>1. job' = [job EXCEPT ![g] = n] /\ UNCHANGED ty
    BY <1>1, <1>4 DEF GroupsOK
  <2>2. n = [f \in JobFields |-> n[f]] /\ n.k = next /\ n.op = "poll" /\ n.want = job[g].want
    <3>1. job[g] = [f \in JobFields |-> job[g][f]]
      BY DEF GroupsOK, JobOK
    <3> QED BY <1>1, <3>1 DEF JobFields
  <2> HIDE DEF n
  <2>3. job'[g] = n
    BY <2>1 DEF GroupsOK
  <2>4. JobOK(n)
    BY <1>2, <1>3, <2>2 DEF JobOK
  <2>5. ty' = [ty EXCEPT ![g] = ty'[g]]
    BY <2>1 DEF GroupsOK
  <2>6. \A k \in DOMAIN subs[g] : Asked(g, k) /\ (k < job'[g].k => Found(g, k)')
    BY <1>1, <1>3, <2>2, <2>3 DEF TransitionInv, Found, Sole
  <2>7. GroupsOK' /\ TransitionInv'
    BY <1>1, <2>1, <2>2, <2>3, <2>4, <2>5, <2>6, OtherJobs
  <2> QED BY <2>1, <2>5, <2>7
<1>5. CASE ~(next <= Len(subs[g]))
  <2>1. ty' = [ty EXCEPT ![g] = job[g].want] /\ job' = [job EXCEPT ![g] = NoJob]
    BY <1>1, <1>5
  <2>2. ty'[g] = job[g].want /\ ty' = [ty EXCEPT ![g] = ty'[g]] /\ job'[g] = NoJob
    BY <2>1 DEF GroupsOK
  <2>3. \A k \in DOMAIN subs[g] : Found(g, k)
    BY <1>2, <1>3, <1>5
  <2>4. GroupsOK' /\ TransitionInv'
    BY <1>1, <2>1, <2>2, NoJobOK, OtherJobs
  <2> QED BY <2>2, <2>3, <2>4
<1> QED BY <1>4, <1>5

\* Every step of a group keeps the invariant.
LEMMA GroupKeeps ==
  ASSUME GroupsInv, NEW g \in Groups, GroupStep(g)
  PROVE  GroupsInv'
<1> USE DEF GroupsInv
<1>1. /\ UNCHANGED <<ring, addr, al, owner, pc, num, idx, known, order, gi, left, subs>>
      /\ pc = "done"
      /\ \/ /\ UNCHANGED <<ask, visited>> /\ job'[g].op \in {"none", "fmmu", "dc"}
            /\ job' = [job EXCEPT ![g] = job'[g]] /\ JobOK(job'[g])
            /\ ty' = [ty EXCEPT ![g] = ty'[g]]
         \/ TransitionTo(g) \/ RequestState(g) \/ PollFrame(g)
  BY GroupFrame
<1>2. MainDeviceOK' /\ AddressInv' /\ ProgressInv'
  BY <1>1 DEF MainDeviceOK, AddressInv, Distinct, ProgressInv, Idles
<1>3. CASE /\ UNCHANGED <<ask, visited>> /\ job'[g].op \in {"none", "fmmu", "dc"}
           /\ job' = [job EXCEPT ![g] = job'[g]] /\ JobOK(job'[g])
           /\ ty' = [ty EXCEPT ![g] = ty'[g]]
  <2>1. DevicesOK'
    BY <1>1, <1>3 DEF DevicesOK
  <2>2. GroupsOK' /\ TransitionInv'
    BY <1>1, <1>3, OtherJobs
  <2> QED BY <1>2, <2>1, <2>2
<1>4. CASE TransitionTo(g)
  <2>1. DevicesOK'
    BY <1>4 DEF DevicesOK, TransitionTo, devVars, histVars
  <2> QED BY <1>2, <1>4, <2>1, TransitionToStep
<1>5. CASE RequestState(g)
  BY <1>2, <1>5, RequestStateStep
<1>6. CASE PollFrame(g)
  <2>1. DevicesOK'
    BY <1>6 DEF DevicesOK, PollFrame, devVars, histVars
  <2> QED BY <1>2, <1>6, <2>1, PollFrameStep
<1> QED BY <1>1, <1>3, <1>4, <1>5, <1>6

-----------------------------------------------------------------------------
\* The steps of the SubDevices.

\* What the invariant says of init and the groups, when these do not move.
LEMMA DevicesMove ==
  ASSUME GroupsInv, DevicesOK', UNCHANGED <<addr, owner, initVars, grpVars>>,
         left' \in BOOLEAN,
         \A d \in Devices : /\ visited[d] \subseteq visited'[d]
                            /\ al'[d] = al[d] \/ al'[d].state \in visited'[d],
         left' \/ (left' = left /\ Len(ring') >= Len(ring)
                   /\ \A k \in DOMAIN ring : ring'[k] = ring[k])
  PROVE  GroupsInv'
<1> USE DEF GroupsInv
<1>1. UNCHANGED <<addr, owner, pc, num, idx, known, order, gi, subs, job, ty>>
  BY DEF initVars, grpVars
<1>2. MainDeviceOK' /\ GroupsOK' /\ AddressInv'
  BY <1>1 DEF MainDeviceOK, GroupsOK, AddressInv, Distinct
<1>3. ASSUME NEW g \in Groups, NEW k
      PROVE  (Asked(g, k) => Asked(g, k)') /\ (Found(g, k) => Found(g, k)')
  BY <1>1 DEF Asked, Found, Sole
<1>4. TransitionInv'
  BY <1>1, <1>3 DEF TransitionInv
<1>5. ProgressInv'
  <2> SUFFICES ASSUME pc \notin Idles, ~ left', ~ left
               PROVE  ProgressInv'
    BY <1>1 DEF ProgressInv
  <2>1. /\ Len(ring') >= Len(ring) /\ Len(ring) \in Nat /\ Len(ring') \in Nat
        /\ \A k \in 1..Len(ring) : ring'[k] = ring[k]
    BY DEF DevicesOK
  <2>2. num \in 1..Len(ring) /\ num \in 1..Len(ring')
    BY <2>1 DEF ProgressInv
  <2>3. \A k \in 1..num : ring'[k] = ring[k]
    BY <2>1, <2>2
  <2>4. idx \in Nat /\ CurAddr' = CurAddr /\ \A k \in DOMAIN known : k \in Nat \ {0}
    BY <1>1 DEF MainDeviceOK, CurAddr, CurGroup
  <2> QED BY <1>1, <2>2, <2>3, <2>4 DEF ProgressInv
<1> QED BY <1>2, <1>4, <1>5

\* A SubDevice that changes its state has visited the new one.
LEMMA EnterStep ==
  ASSUME DevicesOK, NEW d \in Devices, NEW s \in States, NEW e \in BOOLEAN, Enter(d, s, e)
  PROVE  /\ al' \in [Devices -> [state : States, error : BOOLEAN]]
         /\ visited' \in [Devices -> SUBSET States]
         /\ \A c \in Devices : /\ visited[c] \subseteq visited'[c]
                               /\ al'[c] = al[c] \/ al'[c].state \in visited'[c]
<1>1. al' = [al EXCEPT ![d] = [state |-> s, error |-> e]]
      /\ visited' = [visited EXCEPT ![d] = @ \cup {s}]
  BY DEF Enter
<1>2. al' \in [Devices -> [state : States, error : BOOLEAN]]
  BY <1>1 DEF DevicesOK
<1>3. visited' \in [Devices -> SUBSET States]
  BY <1>1 DEF DevicesOK
<1>4. ASSUME NEW c \in Devices
      PROVE  visited[c] \subseteq visited'[c] /\ (al'[c] = al[c] \/ al'[c].state \in visited'[c])
  <2>1. CASE c = d
    BY <1>1, <2>1 DEF DevicesOK
  <2>2. CASE c # d
    BY <1>1, <2>2 DEF DevicesOK
  <2> QED BY <2>1, <2>2
<1> QED BY <1>2, <1>3, <1>4

\* Every step of a SubDevice on its own keeps the invariant.
LEMMA DeviceKeeps ==
  ASSUME GroupsInv, (\E d \in Devices : DeviceStep(d)) \/ Unplug
  PROVE  GroupsInv'
<1> USE DEF GroupsInv
<1>1. ASSUME NEW d \in Devices, DevAnswers(d)
      PROVE  GroupsInv'
  <2>1. PICK s \in States, e \in BOOLEAN : Enter(d, s, e)
    BY <1>1 DEF DevAnswers, DevicesOK, States
  <2>2. ask' = [ask EXCEPT ![d] = "none"]
        /\ UNCHANGED <<ring, addr, owner, left, initVars, grpVars>>
    BY <1>1 DEF DevAnswers
  <2>3. ask' \in [Devices -> States \cup {"none", "Reset"}]
    BY <2>2 DEF DevicesOK
  <2>4. DevicesOK'
    BY <2>1, <2>2, <2>3, EnterStep DEF DevicesOK
  <2>5. left' \in BOOLEAN /\ Len(ring') >= Len(ring)
    BY <2>2 DEF MainDeviceOK, DevicesOK
  <2>6. \A c \in Devices : /\ visited[c] \subseteq visited'[c]
                           /\ al'[c] = al[c] \/ al'[c].state \in visited'[c]
    BY <2>1, EnterStep
  <2>7. left' = left /\ \A k \in DOMAIN ring : ring'[k] = ring[k]
    BY <2>2
  <2>8. UNCHANGED <<addr, owner, initVars, grpVars>>
    BY <2>2
  <2> HIDE DEF GroupsInv
  <2>9. GroupsInv
    BY DEF GroupsInv
  <2> QED BY <2>4, <2>5, <2>6, <2>7, <2>8, <2>9, DevicesMove
<1>2. ASSUME NEW d \in Devices, DevFalls(d)
      PROVE  GroupsInv'
  <2>1. "SafeOp" \in States /\ Enter(d, "SafeOp", TRUE)
        /\ UNCHANGED <<ask, ring, addr, owner, left, initVars, grpVars>>
    BY <1>2 DEF DevFalls, States
  <2>2. DevicesOK'
    BY <2>1, EnterStep DEF DevicesOK
  <2>3. left' \in BOOLEAN /\ Len(ring') >= Len(ring)
    BY <2>1 DEF MainDeviceOK, DevicesOK
  <2>4. \A c \in Devices : /\ visited[c] \subseteq visited'[c]
                           /\ al'[c] = al[c] \/ al'[c].state \in visited'[c]
    BY <2>1, EnterStep
  <2>5. left' = left /\ \A k \in DOMAIN ring : ring'[k] = ring[k]
    BY <2>1
  <2>6. UNCHANGED <<addr, owner, initVars, grpVars>>
    BY <2>1
  <2> HIDE DEF GroupsInv
  <2>7. GroupsInv
    BY DEF GroupsInv
  <2> QED BY <2>2, <2>3, <2>4, <2>5, <2>6, <2>7, DevicesMove
<1>3. ASSUME NEW d \in Devices, Plug(d)
      PROVE  GroupsInv'
  <2>1. ring' = Append(ring, d) /\ ~ OnRing(d)
        /\ UNCHANGED <<addr, al, ask, owner, left, visited, initVars, grpVars>>
    BY <1>3 DEF Plug
  <2>2. ring \in Seq(Devices) /\ \A i, j \in DOMAIN ring : ring[i] = ring[j] => i = j
    BY DEF DevicesOK
  <2>3. /\ ring' \in Seq(Devices) /\ Len(ring') = Len(ring) + 1 /\ Len(ring) \in Nat
        /\ \A k \in 1..Len(ring) : ring'[k] = ring[k]
        /\ ring'[Len(ring) + 1] = d /\ DOMAIN ring = 1..Len(ring)
        /\ DOMAIN ring' = 1..(Len(ring) + 1)
    BY <2>1, <2>2
  <2>4. \A k \in 1..Len(ring) : ring[k] # d
    BY <2>1, <2>3 DEF OnRing
  <2>5. ASSUME NEW i \in DOMAIN ring', NEW j \in DOMAIN ring', ring'[i] = ring'[j]
        PROVE  i = j
    BY <2>2, <2>3, <2>4, <2>5
  <2>6. DevicesOK'
    BY <2>1, <2>3, <2>5 DEF DevicesOK
  <2>7. left' \in BOOLEAN /\ Len(ring') >= Len(ring)
    BY <2>1, <2>3 DEF MainDeviceOK
  <2> QED BY <2>1, <2>3, <2>6, <2>7, DevicesMove
<1>4. ASSUME Unplug
      PROVE  GroupsInv'
  <2>1. ring # <<>> /\ ring' = SubSeq(ring, 1, Len(ring) - 1) /\ left' = TRUE
        /\ UNCHANGED <<addr, al, ask, owner, visited, initVars, grpVars>>
    BY <1>4 DEF Unplug
  <2>2. ring \in Seq(Devices) /\ \A i, j \in DOMAIN ring : ring[i] = ring[j] => i = j
    BY DEF DevicesOK
  <2>3. Len(ring) \in Nat \ {0}
    BY <2>1, <2>2
  <2>4. /\ ring' \in Seq(Devices) /\ Len(ring') = Len(ring) - 1
        /\ \A k \in 1..(Len(ring) - 1) : ring'[k] = ring[k]
    <3> DEFINE n == Len(ring) - 1
    <3>1. 1 \in 1..(Len(ring) + 1) /\ n \in (1 - 1)..Len(ring) /\ n - 1 + 1 = n
      BY <2>3
    <3>2. IsSeq(ring) /\ Elements(ring) \subseteq Devices
      BY <2>2, IsSeqIntro
    <3>3. /\ IsSeq(ring') /\ Len(ring') = n - 1 + 1
          /\ \A k \in 1..(n - 1 + 1) : ring'[k] = ring[1 + k - 1]
          /\ Elements(ring') \subseteq Elements(ring)
      <4> HIDE DEF n
      <4>1. ring' = SubSeq(ring, 1, n)
        BY <2>1 DEF n
      <4> QED BY <3>1, <3>2, <4>1, PartSeq
    <3>4. ring' \in Seq(Devices)
      BY <3>2, <3>3, SeqOfElements
    <3>5. \A k \in 1..n : 1 + k - 1 = k
      BY <2>3
    <3> QED BY <3>1, <3>3, <3>4, <3>5
  <2>5. DOMAIN ring' = 1..(Len(ring) - 1) /\ DOMAIN ring = 1..Len(ring)
    BY <2>2, <2>4
  <2>6. ASSUME NEW i \in DOMAIN ring', NEW j \in DOMAIN ring', ring'[i] = ring'[j]
        PROVE  i = j
    BY <2>2, <2>3, <2>4, <2>5, <2>6
  <2>7. DevicesOK'
    BY <2>1, <2>4, <2>6 DEF DevicesOK
  <2> QED BY <2>1, <2>7, DevicesMove
<1> QED BY <1>1, <1>2, <1>3, <1>4 DEF DeviceStep

-----------------------------------------------------------------------------
\* The steps of init.

\* Groups with no call under way owe nothing.
LEMMA QuietGroups ==
  ASSUME \A g \in Groups : job'[g] = NoJob
  PROVE  TransitionInv'
BY NoJobOK DEF TransitionInv

\* While init runs the groups do nothing.
LEMMA InitFrame ==
  ASSUME GroupsInv, pc # "done", UNCHANGED <<job, subs>>, ty' = [g \in Groups |-> ty'[g]]
  PROVE  GroupsOK' /\ TransitionInv' /\ Distinct'
<1>1. \A g \in Groups : job'[g] = NoJob
  BY DEF GroupsInv, TransitionInv
<1>2. TransitionInv'
  BY <1>1, QuietGroups
<1>3. GroupsOK'
  BY DEF GroupsInv, GroupsOK, JobOK
<1>4. Distinct'
  BY DEF GroupsInv, AddressInv, Distinct
<1> QED BY <1>2, <1>3, <1>4

\* Counting the SubDevices keeps the invariant.
LEMMA CountKeeps ==
  ASSUME GroupsInv, Count
  PROVE  GroupsInv'
<1>1. /\ num' = Len(ring) /\ left' = FALSE /\ idx' = 1 /\ known' = <<>>
      /\ pc' = IF ring = <<>> THEN "done" ELSE "reset_state"
      /\ visited' = [d \in Devices |-> {}]
      /\ subs' = [g \in Groups |-> <<>>] /\ job' = [g \in Groups |-> NoJob]
      /\ ty' = [g \in Groups |-> IF ring = <<>> THEN "PreOp" ELSE "none"]
      /\ UNCHANGED <<ring, addr, al, ask, owner>>
  BY DEF Count, Fresh, devVars
<1>2. DevicesOK'
  <2>1. visited' \in [Devices -> SUBSET States]
    BY <1>1
  <2> QED BY <1>1, <2>1 DEF GroupsInv, DevicesOK
<1>3. ring \in Seq(Devices) /\ Len(ring) \in Nat /\ (ring # <<>> => Len(ring) # 0)
  BY DEF GroupsInv, DevicesOK
<1>4. MainDeviceOK'
  <2>1. known' \in Seq(Entry)
    BY <1>1
  <2>3. idx' \in Nat \ {0} /\ num' \in Nat
    BY <1>1, <1>3
  <2>4. left' \in BOOLEAN
    BY <1>1
  <2>2. pc' \in {"done", "reset_state"}
    BY <1>1
  <2> QED BY <2>1, <2>2, <2>3, <2>4 DEF MainDeviceOK, Idles
<1>5. \A g \in Groups : job'[g] = NoJob /\ subs'[g] = <<>>
  BY <1>1
<1>6. GroupsOK'
  <2>1. subs' \in [Groups -> Seq(Entry)]
    BY <1>1
  <2>2. \A g \in Groups : JobOK(job'[g])
    BY <1>5, NoJobOK
  <2>3. job' = [g \in Groups |-> job'[g]] /\ ty' = [g \in Groups |-> ty'[g]]
    BY <1>1
  <2> QED BY <2>1, <2>2, <2>3 DEF GroupsOK, JobOK
<1>7. TransitionInv'
  BY <1>5, QuietGroups
<1>8. AddressInv'
  BY <1>1, <1>5 DEF AddressInv, Distinct
<1>9. ProgressInv'
  <2>1. CASE ring = <<>>
    BY <1>1, <2>1 DEF ProgressInv, Idles
  <2>2. CASE ring # <<>>
    <3>1. pc' = "reset_state" /\ num' \in 1..Len(ring') /\ idx' = 1
      BY <1>1, <1>3, <2>2
    <3> QED BY <3>1 DEF ProgressInv, Addressed, Known, Grouped
  <2> QED BY <2>1, <2>2
<1> QED BY <1>2, <1>4, <1>6, <1>7, <1>8, <1>9 DEF GroupsInv

\* Resetting the SubDevices keeps the invariant.
LEMMA ResetKeeps ==
  ASSUME GroupsInv, ResetState \/ ResetMemory
  PROVE  GroupsInv'
<1>1. /\ pc \in {"reset_state", "reset_memory"} /\ pc' \in {"reset_memory", "address"}
      /\ UNCHANGED <<ring, addr, al, owner, visited, num, idx, known, left, subs, job, ty>>
      /\ (ask' = ask \/ ask' = [d \in Devices |-> IF OnRing(d) THEN "Reset" ELSE ask[d]])
  BY DEF ResetState, ResetMemory, grpVars, histVars
<1>2. DevicesOK'
  <2>1. ask' \in [Devices -> States \cup {"none", "Reset"}]
    BY <1>1 DEF GroupsInv, DevicesOK
  <2> QED BY <1>1, <2>1 DEF GroupsInv, DevicesOK
<1>3. MainDeviceOK'
  BY <1>1 DEF GroupsInv, MainDeviceOK
<1>4. GroupsOK' /\ TransitionInv' /\ Distinct'
  BY <1>1, InitFrame DEF GroupsInv, GroupsOK
<1>5. AddressInv'
  BY <1>1, <1>4 DEF GroupsInv, AddressInv
<1>6. ProgressInv'
  <2>1. pc \notin Idles /\ pc' \notin Addressed /\ pc' \notin Known /\ pc' \notin Grouped
    BY <1>1 DEF Idles, Addressed, Known, Grouped
  <2>2. ~ left => num \in 1..Len(ring) /\ idx = 1
    BY <1>1, <2>1 DEF GroupsInv, ProgressInv
  <2> QED BY <1>1, <2>1, <2>2 DEF ProgressInv
<1> QED BY <1>2, <1>3, <1>4, <1>5, <1>6 DEF GroupsInv

\* Assigning station addresses keeps the invariant.
LEMMA AddressKeeps ==
  ASSUME GroupsInv, Address
  PROVE  GroupsInv'
<1>1. /\ pc = "address"
      /\ addr' = [d \in Devices |->
                    IF idx \in DOMAIN ring /\ d = ring[idx] THEN idx ELSE addr[d]]
      /\ IF idx < num THEN idx' = idx + 1 /\ pc' = pc ELSE idx' = 1 /\ pc' = "new"
      /\ UNCHANGED <<ring, al, ask, owner, visited, num, known, left, subs, job, ty>>
  BY DEF Address, grpVars, histVars
<1>2. /\ ring \in Seq(Devices) /\ Len(ring) \in Nat /\ DOMAIN ring = 1..Len(ring)
      /\ idx \in Nat \ {0} /\ num \in Nat
      /\ \A i, j \in DOMAIN ring : ring[i] = ring[j] => i = j
      /\ known = <<>> /\ addr \in [Devices -> Nat]
  BY <1>1 DEF GroupsInv, DevicesOK, MainDeviceOK, AddressInv
<1>3. DevicesOK'
  BY <1>1, <1>2 DEF GroupsInv, DevicesOK
<1>4. MainDeviceOK'
  BY <1>1, <1>2 DEF GroupsInv, MainDeviceOK, Addressed
<1>5. GroupsOK' /\ TransitionInv' /\ Distinct'
  BY <1>1, InitFrame DEF GroupsInv, GroupsOK
<1>6. AddressInv'
  BY <1>1, <1>2, <1>5 DEF AddressInv
<1>7. ProgressInv'
  <2> SUFFICES ASSUME ~ left
               PROVE  ProgressInv'
    BY <1>1 DEF ProgressInv
  <2>1. num \in 1..Len(ring) /\ idx <= num /\ \A k \in 1..(idx - 1) : addr[ring[k]] = k
    BY <1>1 DEF GroupsInv, ProgressInv, Idles
  <2>0. idx \in DOMAIN ring
    BY <1>2, <2>1
  <2>2. \A k \in 1..idx : addr'[ring[k]] = k
    <3> TAKE k \in 1..idx
    <3>1. k \in DOMAIN ring /\ ring[k] \in Devices
      BY <1>2, <2>0
    <3>2. CASE k = idx
      BY <1>1, <2>0, <3>1, <3>2
    <3>3. CASE k # idx
      <4>1. k \in 1..(idx - 1) /\ ring[k] # ring[idx]
        BY <1>2, <2>0, <3>1, <3>3
      <4> QED BY <1>1, <1>2, <2>1, <3>1, <4>1
    <3> QED BY <3>2, <3>3
  <2>3. CASE idx < num
    <3>1. /\ pc' = "address" /\ idx' <= num /\ idx' = idx + 1
          /\ \A k \in 1..(idx' - 1) : addr'[ring[k]] = k
      BY <1>1, <1>2, <2>2, <2>3
    <3> QED BY <1>1, <2>1, <3>1 DEF ProgressInv, Addressed, Known, Grouped
  <2>4. CASE ~(idx < num)
    <3>1. /\ pc' = "new" /\ idx' = 1 /\ idx = num /\ 1 <= num /\ DOMAIN known' = {}
          /\ \A k \in 1..num : addr'[ring[k]] = k
          /\ 1..(idx' - 1) = {}
      BY <1>1, <1>2, <2>1, <2>2, <2>4
    <3> QED BY <1>1, <2>1, <3>1 DEF ProgressInv, Addressed, Known, Grouped
  <2> QED BY <2>3, <2>4
<1> QED BY <1>3, <1>4, <1>5, <1>6, <1>7 DEF GroupsInv

\* As long as none left, the SubDevice with an address of the network that
\* answers alone is the one at that position.
LEMMA AtPosition ==
  ASSUME GroupsInv, pc \in Addressed, ~ left, NEW a, One(a), NEW k \in 1..num
  PROVE  (ring[k] = Dev(a) <=> k = a) /\ ring[k] \in Devices
<1>1. PICK i \in DOMAIN ring : At(a) = {i} /\ Dev(a) = ring[i] /\ addr[ring[i]] = a
  BY OneDevice DEF GroupsInv
<1>2. k \in DOMAIN ring /\ addr[ring[k]] = k /\ ring[k] \in Devices
  BY DEF GroupsInv, ProgressInv, Idles, Addressed, DevicesOK
<1>3. ring[k] = Dev(a) => k = a
  BY <1>1, <1>2
<1>4. k = a => ring[k] = Dev(a)
  <2>1. k = a => k \in At(a)
    BY <1>2 DEF At
  <2> QED BY <1>1, <2>1
<1> QED BY <1>2, <1>3, <1>4

\* Reading a SubDevice into the list keeps the invariant.
LEMMA NewSubDeviceKeeps ==
  ASSUME GroupsInv, NewSubDevice
  PROVE  GroupsInv'
<1>1. /\ pc = "new" /\ One(idx)
      /\ known' = Append(known, [addr |-> idx, id |-> Dev(idx)])
      /\ owner' = [owner EXCEPT ![Dev(idx)] = "Master"]
      /\ IF idx < num THEN idx' = idx + 1 /\ pc' = pc ELSE idx' = 1 /\ pc' = "dc"
      /\ UNCHANGED <<ring, addr, al, ask, visited, num, left, subs, job, ty>>
  BY DEF NewSubDevice, grpVars, histVars
<1>2. PICK d \in Devices : Dev(idx) = d
  BY <1>1, OneDevice DEF GroupsInv
<1> DEFINE e == [addr |-> idx, id |-> d]
<1>3. /\ known \in Seq(Entry) /\ Len(known) \in Nat /\ Len(known) = idx - 1
      /\ idx \in Nat \ {0} /\ num \in Nat /\ e \in Entry
      /\ \A k \in 1..Len(known) : known[k].addr = k
  BY <1>1 DEF GroupsInv, MainDeviceOK, AddressInv, Entry
<1>4. known' = Append(known, e)
  BY <1>1, <1>2
<1>5. e.addr = idx
  OBVIOUS
<1> HIDE DEF e
<1>6. /\ known' \in Seq(Entry) /\ Len(known') = idx /\ DOMAIN known' = 1..idx
      /\ \A k \in 1..(idx - 1) : known'[k] = known[k]
      /\ known'[idx] = e
  BY <1>3, <1>4
<1>7. DevicesOK'
  <2>1. owner' \in [Devices -> {"Master", "Pdi"}]
    BY <1>1, <1>2 DEF GroupsInv, DevicesOK
  <2> QED BY <1>1, <2>1 DEF GroupsInv, DevicesOK
<1>8. MainDeviceOK'
  <2>1. idx' \in Nat \ {0} /\ pc' \in {"new", "dc"}
    BY <1>1, <1>3
  <2> QED BY <1>1, <1>6, <2>1 DEF GroupsInv, MainDeviceOK, Addressed
<1>9. GroupsOK' /\ TransitionInv' /\ Distinct'
  BY <1>1, InitFrame DEF GroupsInv, GroupsOK
<1>10. ASSUME NEW k \in DOMAIN known'
       PROVE  (k \in 1..(idx - 1) /\ known'[k] = known[k]) \/ (k = idx /\ known'[k] = e)
  BY <1>3, <1>6
<1>11. AddressInv'
  <2>1. \A k \in DOMAIN known' : known'[k].addr = k
    BY <1>3, <1>5, <1>10
  <2>2. pc' = "new" => Len(known') = idx' - 1
    BY <1>1, <1>3, <1>6
  <2>3. pc' \in {"new", "dc"}
    BY <1>1
  <2> QED BY <1>9, <2>1, <2>2, <2>3 DEF AddressInv
<1>12. ProgressInv'
  <2> SUFFICES ASSUME ~ left
               PROVE  ProgressInv'
    BY <1>1 DEF ProgressInv
  <2>1. pc \notin Idles /\ pc \in Addressed
    BY <1>1 DEF Idles, Addressed
  <2>2. /\ num \in 1..Len(ring) /\ idx <= num
        /\ \A k \in 1..num : addr[ring[k]] = k
        /\ \A k \in DOMAIN known : k <= num /\ known[k] = [addr |-> k, id |-> ring[k]]
        /\ \A k \in 1..(idx - 1) : owner[ring[k]] = "Master"
    BY <1>1, <2>1 DEF GroupsInv, ProgressInv
  <2>3. \A k \in 1..num : ring[k] \in Devices /\ (ring[k] = d <=> k = idx)
    BY <1>1, <1>2, <2>1, AtPosition
  <2>4. idx \in 1..num /\ e = [addr |-> idx, id |-> ring[idx]]
    BY <1>3, <2>2, <2>3 DEF e
  <2>5. \A k \in DOMAIN known' : k <= num /\ known'[k] = [addr |-> k, id |-> ring[k]]
    BY <1>3, <1>10, <2>2, <2>4
  <2>6. \A k \in 1..idx : owner'[ring[k]] = "Master"
    <3> TAKE k \in 1..idx
    <3>1. k \in 1..num /\ (k = idx \/ k \in 1..(idx - 1))
      BY <1>3, <2>4
    <3> QED BY <1>1, <1>2, <2>2, <2>3, <3>1 DEF GroupsInv, DevicesOK
  <2>7. CASE idx < num
    <3>1. pc' = "new" /\ idx' = idx + 1 /\ idx' <= num /\ 1..(idx' - 1) = 1..idx
      BY <1>1, <1>3, <2>7
    <3> QED BY <1>1, <2>2, <2>5, <2>6, <3>1 DEF ProgressInv, Known, Grouped
  <2>8. CASE ~(idx < num)
    <3>1. pc' = "dc" /\ idx = num
      BY <1>1, <1>3, <2>2, <2>8
    <3> QED BY <1>1, <1>6, <2>2, <2>5, <2>6, <3>1 DEF ProgressInv, Known, Grouped
  <2> QED BY <2>7, <2>8
<1> QED BY <1>7, <1>8, <1>9, <1>11, <1>12 DEF GroupsInv

\* Configuring the distributed clocks keeps the invariant.
LEMMA ConfigureDcKeeps ==
  ASSUME GroupsInv, ConfigureDc
  PROVE  GroupsInv'
<1>1. /\ pc = "dc" /\ pc' = "assign"
      /\ UNCHANGED <<ring, addr, al, ask, owner, visited, num, idx, known, left, subs, job, ty>>
  BY DEF ConfigureDc, devVars, grpVars, histVars
<1>2. DevicesOK'
  BY <1>1 DEF GroupsInv, DevicesOK
<1>3. MainDeviceOK'
  BY <1>1 DEF GroupsInv, MainDeviceOK, Addressed
<1>4. GroupsOK' /\ TransitionInv' /\ Distinct'
  BY <1>1, InitFrame DEF GroupsInv, GroupsOK
<1>5. AddressInv'
  BY <1>1, <1>4 DEF GroupsInv, AddressInv
<1>6. ProgressInv'
  BY <1>1 DEF GroupsInv, ProgressInv, Idles, Addressed, Known, Grouped
<1> QED BY <1>2, <1>3, <1>4, <1>5, <1>6 DEF GroupsInv

\* Every SubDevice found is put into the group it belongs to, once.
LEMMA AssignGroupsKeeps ==
  ASSUME GroupsInv, AssignGroups
  PROVE  GroupsInv'
<1> DEFINE P(g) == {k \in DOMAIN known : GroupOf(k) = g}
<1>1. /\ pc = "assign" /\ pc' = "mailbox"
      /\ \A k \in DOMAIN known : GroupOf(k) # "unknown"
      /\ subs' = [g \in Groups |-> Pick(known, P(g))]
      /\ UNCHANGED <<ring, addr, al, ask, owner, visited, num, idx, known, left, job, ty>>
  BY DEF AssignGroups, devVars, histVars
<1>2. /\ known \in Seq(Entry) /\ \A k \in DOMAIN known : known[k].addr = k
      /\ \A i, j \in DOMAIN known : known[i] = known[j] => i = j
  BY DEF GroupsInv, MainDeviceOK, AddressInv
<1>3. ASSUME NEW g \in Groups
      PROVE  /\ subs'[g] \in Seq(Entry)
             /\ \A j \in DOMAIN subs'[g] : \E p \in P(g) : subs'[g][j] = known[p]
             /\ \A p \in P(g) : \E j \in DOMAIN subs'[g] : subs'[g][j] = known[p]
             /\ \A i, j \in DOMAIN subs'[g] : subs'[g][i] = subs'[g][j] => i = j
  <2>1. P(g) \in SUBSET DOMAIN known /\ subs'[g] = Pick(known, P(g))
    BY <1>1
  <2> HIDE DEF P
  <2> QED BY <1>2, <2>1, PickElements
<1>4. \A g \in Groups : job'[g] = NoJob
  BY <1>1 DEF GroupsInv, TransitionInv
<1>5. TransitionInv'
  BY <1>4, QuietGroups
<1>6. GroupsOK'
  <2>1. subs' \in [Groups -> Seq(Entry)]
    <3>1. \A g \in Groups : subs'[g] \in Seq(Entry)
      BY <1>3
    <3>2. subs' = [g \in Groups |-> subs'[g]]
      BY <1>1
    <3> QED BY <3>1, <3>2
  <2> QED BY <1>1, <2>1 DEF GroupsInv, GroupsOK, JobOK
<1>7. Distinct'
  <2> SUFFICES ASSUME NEW g \in Groups, NEW h \in Groups, NEW j \in DOMAIN subs'[g],
                      NEW k \in DOMAIN subs'[h], subs'[g][j].addr = subs'[h][k].addr
               PROVE  g = h /\ j = k
    BY DEF Distinct
  <2>1. PICK p \in P(g) : subs'[g][j] = known[p]
    BY <1>3
  <2>2. PICK q \in P(h) : subs'[h][k] = known[q]
    BY <1>3
  <2>3. p = q
    BY <1>2, <2>1, <2>2
  <2>4. g = h
    BY <2>3
  <2> QED BY <1>3, <2>1, <2>2, <2>3, <2>4
<1>8. AddressInv'
  BY <1>1, <1>2, <1>7 DEF AddressInv
<1>9. DevicesOK' /\ MainDeviceOK'
  BY <1>1 DEF GroupsInv, DevicesOK, MainDeviceOK, Addressed
<1>10. ASSUME NEW k \in DOMAIN known
       PROVE  \E g \in Groups : \E j \in DOMAIN subs'[g] : subs'[g][j] = known[k]
  <2>1. known[k].id \in Devices
    <3>1. known[k] \in Entry
      BY <1>2
    <3> QED BY <3>1 DEF Entry
  <2>2. GroupOf(k) \in Groups
    BY <1>1, <2>1, StationAssumption DEF GroupOf
  <2>3. k \in P(GroupOf(k))
    OBVIOUS
  <2> QED BY <1>3, <2>2, <2>3
<1>11. ProgressInv'
  <2> SUFFICES ASSUME ~ left
               PROVE  ProgressInv'
    BY <1>1 DEF ProgressInv
  <2>1. /\ pc \notin Idles /\ pc \in Addressed /\ pc \in Known
        /\ pc \notin {"request_pre_op", "wait_pre_op"}
    BY <1>1 DEF Idles, Addressed, Known
  <2>2. /\ num \in 1..Len(ring) /\ \A k \in 1..num : addr[ring[k]] = k
        /\ \A k \in DOMAIN known : k <= num /\ known[k] = [addr |-> k, id |-> ring[k]]
        /\ Len(known) = num
        /\ \A k \in 1..num : owner[ring[k]] = "Master"
    BY <2>1 DEF GroupsInv, ProgressInv
  <2> QED BY <1>1, <1>10, <2>2 DEF ProgressInv
<1> QED BY <1>5, <1>6, <1>8, <1>9, <1>11 DEF GroupsInv

\* What the configuration of a SubDevice has in common: one at most does not have
\* its EEPROM with the master, and it is the one being configured.
LEMMA ConfigureKeeps ==
  ASSUME GroupsInv, pc \in Grouped, pc' \in Grouped, ~(pc = "wait_all"),
         DevicesOK', idx' \in Nat \ {0},
         UNCHANGED <<ring, addr, num, known, left, subs, job, ty>>,
         ~ left => \A k \in 1..num : owner'[ring[k]] = "Master"
           \/ (pc' \in {"request_pre_op", "wait_pre_op"} /\ k = CurAddr')
  PROVE  GroupsInv'
<1>1. /\ pc \notin Idles /\ pc \in Addressed /\ pc \in Known /\ pc # "done"
      /\ pc' \notin Idles /\ pc' \in Addressed /\ pc' \in Known
      /\ pc' \notin {"address", "new", "reset_state", "reset_memory"}
  BY DEF Idles, Addressed, Known, Grouped
<1>2. MainDeviceOK'
  BY <1>1 DEF GroupsInv, MainDeviceOK
<1>3. GroupsOK' /\ TransitionInv' /\ Distinct'
  BY <1>1, InitFrame DEF GroupsInv, GroupsOK
<1>4. AddressInv'
  BY <1>1, <1>3 DEF GroupsInv, AddressInv
<1>5. ProgressInv'
  <2> SUFFICES ASSUME ~ left
               PROVE  ProgressInv'
    BY DEF ProgressInv
  <2>1. /\ num \in 1..Len(ring) /\ \A k \in 1..num : addr[ring[k]] = k
        /\ \A k \in DOMAIN known : k <= num /\ known[k] = [addr |-> k, id |-> ring[k]]
        /\ Len(known) = num
        /\ \A k \in DOMAIN known : \E g \in Groups : \E j \in DOMAIN subs[g] :
             subs[g][j] = known[k]
    BY <1>1 DEF GroupsInv, ProgressInv
  <2> QED BY <1>1, <2>1 DEF ProgressInv
<1> QED BY <1>2, <1>3, <1>4, <1>5 DEF GroupsInv

\* Giving the EEPROM to the SubDevices of an address keeps the invariant.
LEMMA AssignToPdiKeeps ==
  ASSUME GroupsInv, AssignToPdi
  PROVE  GroupsInv'
<1>1. /\ pc = "assign_pdi" /\ pc' = "request_pre_op"
      /\ owner' = [d \in Devices |-> IF Takes(d, CurAddr) THEN "Pdi" ELSE owner[d]]
      /\ UNCHANGED <<ring, addr, al, ask, visited, num, idx, known, order, gi, left, subs, job, ty>>
  BY DEF AssignToPdi, grpVars, histVars
<1>2. /\ pc \in Grouped /\ pc' \in Grouped /\ ~(pc = "wait_all")
      /\ pc \notin Idles /\ pc \in Addressed /\ pc \in Known
  BY <1>1 DEF Idles, Grouped, Known, Addressed
<1>3. /\ owner \in [Devices -> {"Master", "Pdi"}] /\ idx \in Nat \ {0}
      /\ ring \in Seq(Devices)
  BY DEF GroupsInv, DevicesOK, MainDeviceOK
<1>4. DevicesOK'
  <2>1. owner' \in [Devices -> {"Master", "Pdi"}]
    BY <1>1, <1>3
  <2> QED BY <1>1, <2>1 DEF GroupsInv, DevicesOK
<1>5. CurAddr' = CurAddr
  BY <1>1 DEF CurAddr, CurGroup
<1>6. ASSUME ~ left, NEW k \in 1..num, k # CurAddr
      PROVE  owner'[ring[k]] = "Master"
  <2>1. num \in 1..Len(ring) /\ addr[ring[k]] = k /\ owner[ring[k]] = "Master"
    BY <1>1, <1>2, <1>6 DEF GroupsInv, ProgressInv
  <2>2. ring[k] \in Devices
    BY <1>3, <2>1
  <2>3. ~ Takes(ring[k], CurAddr)
    BY <1>6, <2>1 DEF Takes
  <2> QED BY <1>1, <2>1, <2>2, <2>3
<1> QED BY <1>1, <1>2, <1>3, <1>4, <1>5, <1>6, ConfigureKeeps

\* Configuring mailboxes and asking for PRE-OP keeps the invariant.
LEMMA MailboxKeeps ==
  ASSUME GroupsInv,
         ConfigureMailboxes \/ RequestPreOp \/ PreOpReached
  PROVE  GroupsInv'
<1> DEFINE a == CurAddr
<1>1. /\ pc \in Grouped /\ pc' \in Grouped /\ ~(pc = "wait_all") /\ One(a)
      /\ UNCHANGED <<ring, addr, al, num, known, left, subs, job, ty>>
  BY DEF ConfigureMailboxes, RequestPreOp, PreOpReached, grpVars, histVars,
         Grouped, Known, Addressed
<1>2. PICK d \in Devices : Dev(a) = d
  BY <1>1, OneDevice DEF GroupsInv
<1>3. /\ pc \notin Idles /\ pc \in Addressed /\ pc \in Known
  BY <1>1 DEF Idles, Addressed, Known, Grouped
<1>4. ~ left => /\ \A k \in 1..num : ring[k] \in Devices /\ (ring[k] = d <=> k = a)
                /\ \A k \in 1..num : owner[ring[k]] = "Master"
                     \/ (pc \in {"request_pre_op", "wait_pre_op"} /\ k = a)
  <2>1. ~ left => \A k \in 1..num : ring[k] \in Devices /\ (ring[k] = d <=> k = a)
    BY <1>1, <1>2, <1>3, AtPosition
  <2> QED BY <1>3, <2>1 DEF GroupsInv, ProgressInv
<1>5. owner \in [Devices -> {"Master", "Pdi"}] /\ idx \in Nat \ {0}
  BY DEF GroupsInv, DevicesOK, MainDeviceOK
<1>6. CASE ConfigureMailboxes
  <2>1. /\ pc = "mailbox" /\ pc' = "assign_pdi" /\ owner' = [owner EXCEPT ![d] = "Master"]
        /\ UNCHANGED <<ask, visited, idx>>
    BY <1>2, <1>6 DEF ConfigureMailboxes, histVars
  <2>2. DevicesOK'
    BY <1>1, <2>1 DEF GroupsInv, DevicesOK
  <2>3. ~ left => \A k \in 1..num : owner'[ring[k]] = "Master"
    BY <1>4, <1>5, <2>1
  <2> QED BY <1>1, <1>5, <2>1, <2>2, <2>3, ConfigureKeeps
<1>8. CASE RequestPreOp
  <2>1. /\ pc = "request_pre_op" /\ pc' = "wait_pre_op" /\ ask' = [ask EXCEPT ![d] = "PreOp"]
        /\ visited' = [visited EXCEPT ![d] = {al[d].state}]
        /\ UNCHANGED <<owner, idx, order, gi>>
    BY <1>2, <1>8 DEF RequestPreOp
  <2>2. DevicesOK'
    <3>1. "PreOp" \in States /\ al[d].state \in States
      BY DEF GroupsInv, DevicesOK, States
    <3>2. ask' \in [Devices -> States \cup {"none", "Reset"}]
      BY <2>1, <3>1 DEF GroupsInv, DevicesOK
    <3>3. visited' \in [Devices -> SUBSET States]
      BY <2>1, <3>1 DEF GroupsInv, DevicesOK
    <3> QED BY <1>1, <2>1, <3>2, <3>3 DEF GroupsInv, DevicesOK
  <2>3. CurAddr' = a
    BY <1>1, <2>1 DEF CurAddr, CurGroup
  <2>4. ~ left => \A k \in 1..num : owner'[ring[k]] = "Master" \/ k = a
    BY <1>4, <2>1
  <2> QED BY <1>1, <1>5, <2>1, <2>2, <2>3, <2>4, ConfigureKeeps
<1>9. CASE PreOpReached
  <2>1. /\ owner' = [owner EXCEPT ![d] = "Master"] /\ UNCHANGED <<ask, visited>>
        /\ (idx' = idx + 1 \/ idx' = 1)
    BY <1>2, <1>9 DEF PreOpReached, histVars
  <2>2. DevicesOK'
    BY <1>1, <2>1 DEF GroupsInv, DevicesOK
  <2>3. idx' \in Nat \ {0}
    BY <1>5, <2>1
  <2>4. ~ left => \A k \in 1..num : owner'[ring[k]] = "Master"
    BY <1>4, <1>5, <2>1
  <2> QED BY <1>1, <2>2, <2>3, <2>4, ConfigureKeeps
<1> QED BY <1>6, <1>8, <1>9

\* The end of init, good or bad, keeps the invariant.
LEMMA EndKeeps ==
  ASSUME GroupsInv, WaitForAll \/ InitFails
  PROVE  GroupsInv'
<1>1. /\ pc \notin Idles /\ pc' \in {"done", "failed"}
      /\ UNCHANGED <<ring, addr, al, ask, owner, visited, num, idx, known, left, subs, job>>
      /\ (ty' = ty \/ ty' = [g \in Groups |-> "PreOp"])
  BY DEF WaitForAll, InitFails, devVars, grpVars, histVars, Idles
<1>2. ty' = [g \in Groups |-> ty'[g]] /\ pc # "done"
  BY <1>1 DEF GroupsInv, GroupsOK, Idles
<1>3. GroupsOK' /\ TransitionInv' /\ Distinct'
  BY <1>1, <1>2, InitFrame
<1>4. DevicesOK' /\ MainDeviceOK'
  BY <1>1 DEF GroupsInv, DevicesOK, MainDeviceOK, Idles
<1>5. AddressInv' /\ ProgressInv'
  BY <1>1, <1>3 DEF GroupsInv, AddressInv, ProgressInv, Idles
<1> QED BY <1>3, <1>4, <1>5 DEF GroupsInv

-----------------------------------------------------------------------------
\* The theorems.

\* The invariant holds at the start.
LEMMA InvInit ==
  ASSUME Init
  PROVE  GroupsInv
<1>1. DevicesOK
  <2>1. ring \in Seq(Devices) /\ \A i, j \in DOMAIN ring : ring[i] = ring[j] => i = j
    BY CallsAssumption DEF Init
  <2>2. "Init" \in States
    BY DEF States
  <2>3. addr \in [Devices -> Nat] /\ owner \in [Devices -> {"Master", "Pdi"}]
    BY DEF Init
  <2>4. al \in [Devices -> [state : States, error : BOOLEAN]]
    BY <2>2 DEF Init
  <2>5. ask \in [Devices -> States \cup {"none", "Reset"}] /\ visited \in [Devices -> SUBSET States]
    BY DEF Init
  <2> QED BY <2>1, <2>3, <2>4, <2>5 DEF DevicesOK
<1>2. MainDeviceOK
  <2>1. known \in Seq(Entry)
    BY DEF Init
  <2>2. num \in Nat /\ idx \in Nat \ {0}
    BY DEF Init
  <2> QED BY <2>1, <2>2 DEF Init, MainDeviceOK, Idles
<1>3. \A g \in Groups : job[g] = NoJob /\ subs[g] = <<>>
  BY DEF Init
<1>4. GroupsOK
  <2>1. subs \in [Groups -> Seq(Entry)]
    BY DEF Init
  <2>2. job = [g \in Groups |-> job[g]] /\ ty = [g \in Groups |-> ty[g]]
    BY DEF Init
  <2> QED BY <1>3, <2>1, <2>2, NoJobOK DEF GroupsOK
<1>5. AddressInv
  <2>1. known = <<>> /\ pc = "idle"
    BY DEF Init
  <2> QED BY <1>3, <2>1 DEF AddressInv, Distinct
<1>6. TransitionInv
  BY <1>3, NoJobOK DEF TransitionInv
<1>7. ProgressInv
  BY DEF Init, ProgressInv, Idles
<1> QED BY <1>1, <1>2, <1>4, <1>5, <1>6, <1>7 DEF GroupsInv

\* Every step keeps the invariant.
LEMMA InvNext ==
  ASSUME GroupsInv, [Next]_vars
  PROVE  GroupsInv'
<1>1. CASE InitStep
  BY <1>1, CountKeeps, ResetKeeps, AddressKeeps, NewSubDeviceKeeps, ConfigureDcKeeps,
     AssignGroupsKeeps, AssignToPdiKeeps, MailboxKeeps, EndKeeps DEF InitStep
<1>2. CASE \E g \in Groups : GroupStep(g)
  BY <1>2, GroupKeeps
<1>3. CASE (\E d \in Devices : DeviceStep(d)) \/ Unplug
  BY <1>3, DeviceKeeps
<1>4. CASE UNCHANGED vars
  <2>1. UNCHANGED <<ring, addr, al, ask, owner, visited, pc, num, idx, known, order, gi,
                    left, subs, job, ty>>
    BY <1>4 DEF vars, devVars, initVars, grpVars, histVars
  <2>2. DevicesOK' /\ MainDeviceOK' /\ GroupsOK' /\ AddressInv'
    BY <2>1 DEF GroupsInv, DevicesOK, MainDeviceOK, GroupsOK, AddressInv, Distinct, JobOK
  <2>3. \A g, k : (Asked(g, k)' <=> Asked(g, k)) /\ (Found(g, k)' <=> Found(g, k))
    BY <2>1 DEF Asked, Found, Sole
  <2>4. TransitionInv'
    BY <2>1, <2>3 DEF GroupsInv, TransitionInv
  <2>5. CurAddr' = CurAddr
    BY <2>1 DEF CurAddr, CurGroup
  <2>6. ProgressInv'
    BY <2>1, <2>5 DEF GroupsInv, ProgressInv
  <2> QED BY <2>2, <2>4, <2>6 DEF GroupsInv
<1> QED BY <1>1, <1>2, <1>3, <1>4 DEF Next

\* Whatever fails, is plugged in or out and however often init is called: the
\* groups share no address, a group that waits for a state has asked all its
\* SubDevices for it, and init has given addresses, EEPROMs and groups to as many
\* SubDevices as it has come to.  [init, transition_to, wait_for_state]
THEOREM GroupsInvariant == Spec => []GroupsInv
<1>1. Init => GroupsInv
  BY InvInit
<1>2. GroupsInv /\ [Next]_vars => GroupsInv'
  BY InvNext
<1> QED BY <1>1, <1>2, PTL DEF Spec

\* A step of a group leaves the others' typestates alone, and its own while it
\* polls, but when the polls end or the call fails.
LEMMA TypestateFrame ==
  ASSUME GroupsOK, NEW h \in Groups, GroupStep(h)
  PROVE  /\ \A g \in Groups : g # h => ty'[g] = ty[g]
         /\ Busy(h, "poll") => PollFrame(h) \/ ty'[h] = "lost"
<1> USE DEF Busy, Idle, Requests, GroupsOK
<1>1. CASE GroupFails(h)
  BY <1>1, SMTT(40) DEF GroupFails
<1>2. CASE IntoPreOpPdi(h) \/ CheckPreOp(h) \/ ConfigureSm(h) \/ SubDeviceDone(h)
  BY <1>2 DEF IntoPreOpPdi, CheckPreOp, ConfigureSm, SubDeviceDone
<1>3. CASE DirectionDone(h)
  BY <1>3 DEF DirectionDone
<1>4. CASE TransitionTo(h)
  BY <1>4 DEF TransitionTo
<1>5. CASE RequestState(h)
  BY <1>5 DEF RequestState
<1>6. CASE PollFrame(h)
  BY <1>6 DEF PollFrame
<1>7. CASE ConfigureDcSync(h)
  BY <1>7 DEF ConfigureDcSync
<1>8. CASE DcProgram(h) \/ DcActivate(h) \/ DcDone(h) \/ TxRxDc(h)
  BY <1>8 DEF DcProgram, DcActivate, DcDone, TxRxDc
<1> QED BY <1>1, <1>2, <1>3, <1>4, <1>5, <1>6, <1>7, <1>8 DEF GroupStep

Counted == inits \in Nat

\* The count of the calls of init is a number.
LEMMA InitsCounted == Spec => []Counted
<1>1. Init => Counted
  BY DEF Init, Counted
<1>2. Counted /\ [Next]_vars => Counted'
  <2> SUFFICES ASSUME inits \in Nat, [Next]_vars
               PROVE  inits' = inits \/ inits' = inits + 1
    BY DEF Counted
  <2> USE DEF vars, histVars
  <2>1. CASE InitStep
    BY <2>1, SMTT(40) DEF InitStep, Count, ResetState, ResetMemory, Address, NewSubDevice,
       ConfigureDc, AssignGroups, ConfigureMailboxes, AssignToPdi, RequestPreOp,
       PreOpReached, WaitForAll, InitFails
  <2>2. CASE \E g \in Groups : GroupStep(g)
    <3>1. PICK g \in Groups : GroupStep(g)
      BY <2>2
    <3>2. CASE GroupFails(g) \/ IntoPreOpPdi(g) \/ CheckPreOp(g)
      BY <3>2 DEF GroupFails, IntoPreOpPdi, CheckPreOp
    <3>3. CASE ConfigureSm(g)
      BY <3>3 DEF ConfigureSm
    <3>4. CASE SubDeviceDone(g) \/ DirectionDone(g)
      BY <3>4 DEF SubDeviceDone, DirectionDone
    <3>5. CASE TransitionTo(g) \/ RequestState(g)
      BY <3>5 DEF TransitionTo, RequestState
    <3>6. CASE PollFrame(g)
      BY <3>6 DEF PollFrame
    <3>7. CASE ConfigureDcSync(g) \/ DcProgram(g) \/ DcActivate(g) \/ DcDone(g) \/ TxRxDc(g)
      BY <3>7 DEF ConfigureDcSync, DcProgram, DcActivate, DcDone, TxRxDc
    <3> QED BY <3>1, <3>2, <3>3, <3>4, <3>5, <3>6, <3>7 DEF GroupStep
  <2>3. CASE (\E d \in Devices : DeviceStep(d)) \/ Unplug
    BY <2>3 DEF DeviceStep, DevAnswers, DevFalls, Plug, Unplug
  <2>4. CASE UNCHANGED vars
    BY <2>4
  <2> QED BY <2>1, <2>2, <2>3, <2>4 DEF Next
<1> QED BY <1>1, <1>2, PTL DEF Spec

\* The step that ends a transition ends it in the state it asked for.
LEMMA TransitionStep ==
  ASSUME GroupsInv, inits \in Nat, Next, NEW g \in Groups, Busy(g, "poll"),
         ty'[g] # ty[g], ty'[g] # "lost", inits' = inits
  PROVE  /\ ty'[g] = job[g].want
         /\ \A k \in DOMAIN subs[g] : \E d \in Devices :
              addr[d] = subs[g][k].addr /\ (Sole(d) => ty'[g] \in visited[d])
<1>1. pc = "done" /\ job[g].op = "poll"
  BY DEF Busy
<1>2. ASSUME InitStep PROVE FALSE
  <2>1. ~ Count
    BY DEF Count
  <2> QED BY <1>1, <1>2, <2>1 DEF InitStep, ResetState, ResetMemory, Address, NewSubDevice,
       ConfigureDc, AssignGroups, ConfigureMailboxes, AssignToPdi, RequestPreOp,
       PreOpReached, WaitForAll, InitFails
<1>3. ~ ((\E d \in Devices : DeviceStep(d)) \/ Unplug)
  BY DEF DeviceStep, DevAnswers, DevFalls, Plug, Unplug, grpVars
<1>4. PICK h \in Groups : GroupStep(h)
  BY <1>2, <1>3 DEF Next
<1>5. h = g /\ PollFrame(g)
  BY <1>4, TypestateFrame DEF GroupsInv
<1>6. ty'[g] = job[g].want /\ \A k \in DOMAIN subs[g] : Found(g, k)
  BY <1>5, PollFrameStep DEF GroupsInv
<1> QED BY <1>6 DEF Found

\* A transition that returns has seen every SubDevice of the group in the state it
\* asked for since it asked, for every network and every frame size.
\* [transition_to, wait_for_state, is_state]
THEOREM TransitionsReached == Spec => TransitionReached
<1> DEFINE A == \A g \in Groups :
       Busy(g, "poll") /\ ty'[g] # ty[g] /\ ty'[g] # "lost" /\ inits' = inits =>
         /\ ty'[g] = job[g].want
         /\ \A k \in DOMAIN subs[g] : \E d \in Devices :
              addr[d] = subs[g][k].addr /\ (Sole(d) => ty'[g] \in visited[d])
<1>1. ASSUME GroupsInv, Counted, [Next]_vars
      PROVE  [A]_vars
  <2>1. CASE Next
    BY <1>1, <2>1, TransitionStep DEF Counted
  <2>2. CASE UNCHANGED vars
    BY <2>2
  <2> QED BY <1>1, <2>1, <2>2
<1>2. Spec => [][A]_vars
  <2> HIDE DEF A
  <2> QED BY <1>1, GroupsInvariant, InitsCounted, PTL DEF Spec
<1> QED BY <1>2 DEF TransitionReached

\* The step that ends init finds every SubDevice in PRE-OP and in a group.
LEMMA CompleteStep ==
  ASSUME GroupsInv, Next, pc # "done", pc' = "done", num' # 0, ~ left,
         NEW i \in DOMAIN ring
  PROVE  /\ al[ring[i]] = [state |-> "PreOp", error |-> FALSE]
         /\ owner[ring[i]] = "Master" /\ One(addr[ring[i]])
         /\ \E g \in Groups : \E k \in DOMAIN subs[g] :
              subs[g][k] = [addr |-> addr[ring[i]], id |-> ring[i]]
<1>1. WaitForAll
  <2>1. ~ Count
    BY DEF Count
  <2>2. InitStep
    BY GroupFrame DEF Next, GroupsInv, DeviceStep, DevAnswers, DevFalls, Plug, Unplug, initVars
  <2> QED BY <2>1, <2>2 DEF InitStep, ResetState, ResetMemory, Address, NewSubDevice,
       ConfigureDc, AssignGroups, ConfigureMailboxes, AssignToPdi, RequestPreOp,
       PreOpReached, InitFails
<1>2. pc = "wait_all" /\ Len(ring) = num
      /\ \A k \in DOMAIN ring : ~ al[ring[k]].error /\ al[ring[k]].state = "PreOp"
  BY <1>1 DEF WaitForAll, AllIn
<1>3. DOMAIN ring = 1..Len(ring) /\ ring[i] \in Devices /\ i \in 1..num
  BY <1>2 DEF GroupsInv, DevicesOK
<1>4. al[ring[i]] = [state |-> "PreOp", error |-> FALSE]
  <2>1. al[ring[i]] \in [state : States, error : BOOLEAN]
    BY <1>3 DEF GroupsInv, DevicesOK
  <2> QED BY <1>2, <2>1
<1>5. /\ \A k \in 1..num : addr[ring[k]] = k
      /\ \A k \in DOMAIN known : known[k] = [addr |-> k, id |-> ring[k]]
      /\ Len(known) = num /\ owner[ring[i]] = "Master"
      /\ \A k \in DOMAIN known : \E g \in Groups : \E j \in DOMAIN subs[g] :
           subs[g][j] = known[k]
  BY <1>2, <1>3 DEF GroupsInv, ProgressInv, Idles, Addressed, Known, Grouped
<1>6. One(addr[ring[i]])
  <2>1. At(addr[ring[i]]) = {i}
    BY <1>2, <1>3, <1>5 DEF At
  <2> QED BY <2>1, OneAnswers
<1>7. i \in DOMAIN known
  BY <1>3, <1>5 DEF GroupsInv, MainDeviceOK
<1> QED BY <1>3, <1>4, <1>5, <1>6, <1>7

\* When init returns, every SubDevice of the network has an address of its own, is
\* in the group it belongs to under it, is in PRE-OP without error and has given
\* back its EEPROM, for every network and whatever an earlier init left behind.
\* [init, MainDevice::wait_for_state]
THEOREM InitCompletes == Spec => InitComplete
<1> DEFINE A == pc # "done" /\ pc' = "done" /\ num' # 0 /\ ~ left =>
       \A i \in DOMAIN ring :
         /\ al[ring[i]] = [state |-> "PreOp", error |-> FALSE]
         /\ owner[ring[i]] = "Master" /\ One(addr[ring[i]])
         /\ \E g \in Groups : \E k \in DOMAIN subs[g] :
              subs[g][k] = [addr |-> addr[ring[i]], id |-> ring[i]]
<1>1. ASSUME GroupsInv, [Next]_vars
      PROVE  [A]_vars
  <2>1. CASE Next
    BY <1>1, <2>1, CompleteStep
  <2>2. CASE UNCHANGED vars
    BY <2>2
  <2> QED BY <1>1, <2>1, <2>2
<1>2. Spec => [][A]_vars
  <2> HIDE DEF A
  <2> QED BY <1>1, GroupsInvariant, PTL DEF Spec
<1> QED BY <1>2 DEF InitComplete

-----------------------------------------------------------------------------
\* Cycles and SYNC0.

SyncUnit == [active : BOOLEAN, start : Nat, period : Nat]
Conf == [delay : Nat, period : Nat, shift : Nat, ref : Nat]

TimesOK ==
  /\ clock \in Nat /\ dcRef \in Nat
  /\ sync \in [Devices -> SyncUnit] /\ dcconf \in [Groups -> Conf]
  /\ wake \in [Groups -> Int]
  /\ \A g \in Groups : job[g].op = "dc" => job[g].time \in Nat /\ job[g].conf \in Conf

\* A call begins with the group as init or the last call left it.
FreshInv ==
  /\ pc \notin Idles => \A g \in Groups : dcconf[g] = NoConf
  /\ pc \in {"reset_state", "reset_memory", "address", "new", "dc", "assign"} =>
       \A g \in Groups : subs[g] = <<>>
  /\ \A g \in Groups : ty[g] = "lost" => job[g].op = "none"

\* While no SubDevice leaves, those of the groups answer to their addresses.
PlaceInv ==
  ~ left => \A g \in Groups : \A k \in DOMAIN subs[g] :
              addr[subs[g][k].id] = subs[g][k].addr /\ OnRing(subs[g][k].id)

\* The pulses of a SYNC0 unit are multiples of the period.
Programmed(d, c) ==
  c.period > 0 /\ sync[d].period = c.period /\ sync[d].start % c.period = 0
Synced(d, c) == Station[d].dc => sync[d].active /\ Programmed(d, c)

\* A group that is not just being configured has all SubDevices in step with
\* its configuration; one that is has those the loop has passed.
GroupSynced(g) ==
  /\ ty[g] # "lost" /\ job[g].op # "dc" /\ dcconf[g].period > 0 =>
       \A k \in DOMAIN subs[g] : Synced(subs[g][k].id, dcconf[g])
  /\ job[g].op = "dc" => \A k \in DOMAIN subs[g] :
       /\ k < job[g].k => Synced(subs[g][k].id, job[g].conf)
       /\ k = job[g].k /\ job[g].i = 1 =>
            /\ Programmed(subs[g][k].id, job[g].conf)
            /\ sync[subs[g][k].id].start = StartTime(job[g].time, job[g].conf)

SyncInv == pc = "done" /\ ~ left => \A g \in Groups : GroupSynced(g)

PhaseInv == TimesOK /\ FreshInv /\ PlaceInv /\ SyncInv

\* The first pulse is at a multiple of the period, less than one period before
\* the time asked for.  [configure_dc_sync]
LEMMA StartTimeFacts ==
  ASSUME NEW t \in Nat, NEW c \in Conf, c.period > 0
  PROVE  /\ StartTime(t, c) \in Nat /\ StartTime(t, c) % c.period = 0
         /\ StartTime(t, c) + c.period > t + c.delay
<1> DEFINE p == c.period
           x == t + c.delay
           q == x \div p
<1>1. p \in Nat \ {0} /\ x \in Nat /\ x \in Int
  BY DEF Conf
<1>2. x = p * q + (x % p) /\ x % p \in 0..(p - 1) /\ q \in Int
  BY <1>1, Divide
<1>3. q >= 0
  BY <1>1
<1>4. StartTime(t, c) = q * p
  BY DEF StartTime
<1> HIDE DEF p, x, q
<1>5. q * p = p * q + 0 /\ 0 \in 0..(p - 1) /\ q * p \in Nat
  BY <1>1, <1>2, <1>3
<1>6. (p * q + 0) % p = 0
  BY <1>1, <1>2, <1>5, Remainder
<1>7. q * p + p > x
  BY <1>1, <1>2, <1>5
<1> QED BY <1>4, <1>5, <1>6, <1>7 DEF p, x

\* The wait ends sync0_shift after a multiple of the period, and one period after
\* the wait before it if the clock is read before the next pulse.  [tx_rx_dc]
LEMMA NextCycle ==
  ASSUME NEW t \in Nat, NEW c \in Conf, c.shift < c.period
  PROVE  LET w == t + NextCycleWait(t, c) IN
         /\ w \in Int
         /\ \A s \in Nat : s % c.period = 0 => (w - s) % c.period = c.shift
         /\ \A v \in Int : /\ v % c.period = c.shift /\ v <= t
                           /\ t - v + c.shift < c.period
                           => w = v + c.period
<1> DEFINE p == c.period
           h == c.shift
           q == t \div p
           w == t + NextCycleWait(t, c)
<1>1. p \in Nat \ {0} /\ h \in 0..(p - 1) /\ t \in Int
  BY DEF Conf
<1>2. t = p * q + (t % p) /\ t % p \in 0..(p - 1) /\ q \in Int
  BY <1>1, Divide
<1>3. w = t + ((p - (t % p)) + h)
  BY DEF NextCycleWait
<1> HIDE DEF p, h, q, w
<1>4. w = p * q + p + h /\ w \in Int
  BY <1>1, <1>2, <1>3
<1>5. ASSUME NEW s \in Nat, s % p = 0 PROVE (w - s) % p = h
  <2> DEFINE r == s \div p
  <2>1. s = p * r + (s % p) /\ r \in Int
    BY <1>1, Divide
  <2> HIDE DEF r
  <2>2. w - s = p * (q + 1 - r) + h /\ q + 1 - r \in Int
    BY <1>1, <1>2, <1>4, <1>5, <2>1
  <2> QED BY <1>1, <2>2, Remainder
<1>6. ASSUME NEW v \in Int, v % p = h, v <= t, t - v + h < p PROVE w = v + p
  <2> DEFINE u == v \div p
  <2>1. v = p * u + (v % p) /\ u \in Int
    BY <1>1, Divide
  <2> HIDE DEF u
  <2>2. v = p * u + h
    BY <1>6, <2>1
  <2>3. t = p * u + (t - v + h) /\ t - v + h \in 0..(p - 1)
    BY <1>1, <1>6, <2>1, <2>2
  <2> DEFINE y == t % p
             z == t - v + h
  <2>4. p * u + z = p * q + y /\ z \in 0..(p - 1) /\ y \in 0..(p - 1)
    BY <1>2, <2>3
  <2> HIDE DEF y, z
  <2>5. u = q
    BY <1>1, <1>2, <2>1, <2>4, DivideUnique
  <2> QED BY <1>1, <1>2, <1>4, <2>2, <2>5
<1> QED BY <1>4, <1>5, <1>6 DEF p, h, w

\* While no SubDevice leaves, a telegram to one of a group reaches it, and no
\* SubDevice is in two places.
LEMMA Reaches ==
  ASSUME GroupsInv, PlaceInv, ~ left, NEW g \in Groups, NEW k \in DOMAIN subs[g],
         One(subs[g][k].addr)
  PROVE  Dev(subs[g][k].addr) = subs[g][k].id /\ subs[g][k].id \in Devices
<1> DEFINE s == subs[g][k]
<1>1. PICK i \in DOMAIN ring : At(s.addr) = {i} /\ Dev(s.addr) = ring[i]
  BY OneDevice DEF GroupsInv
<1>2. PICK j \in DOMAIN ring : ring[j] = s.id /\ addr[ring[j]] = s.addr
  BY DEF PlaceInv, OnRing
<1>3. j = i
  BY <1>1, <1>2 DEF At
<1>4. ring[j] \in Devices
  BY DEF GroupsInv, DevicesOK
<1> QED BY <1>1, <1>2, <1>3, <1>4

\* A SubDevice has one place in one group.
LEMMA Places ==
  ASSUME GroupsInv, PlaceInv, ~ left, NEW g \in Groups, NEW h \in Groups,
         NEW j \in DOMAIN subs[g], NEW k \in DOMAIN subs[h], subs[g][j].id = subs[h][k].id
  PROVE  g = h /\ j = k
<1>1. subs[g][j].addr = subs[h][k].addr
  BY DEF PlaceInv
<1> QED BY <1>1 DEF GroupsInv, AddressInv, Distinct

\* While no SubDevice leaves, a write to the address of one of a group is taken by
\* no other of any group.
LEMMA TakesOwn ==
  ASSUME GroupsInv, PlaceInv, ~ left, NEW g \in Groups, NEW h \in Groups,
         NEW k \in DOMAIN subs[g], NEW n \in DOMAIN subs[h]
  PROVE  Takes(subs[h][n].id, subs[g][k].addr) <=> h = g /\ n = k
<1>1. OnRing(subs[h][n].id) /\ addr[subs[h][n].id] = subs[h][n].addr
  BY DEF PlaceInv
<1>2. subs[h][n].addr = subs[g][k].addr <=> h = g /\ n = k
  BY DEF GroupsInv, AddressInv, Distinct
<1> QED BY <1>1, <1>2 DEF Takes

\* A group whose SubDevices are left alone stays in step.
LEMMA SyncedKept ==
  ASSUME NEW g \in Groups, GroupSynced(g), subs'[g] = subs[g], job'[g] = job[g],
         dcconf'[g] = dcconf[g], ty[g] = ty'[g],
         \A k \in DOMAIN subs[g] : sync'[subs[g][k].id] = sync[subs[g][k].id]
  PROVE  GroupSynced(g)'
BY DEF GroupSynced, Synced, Programmed, StartTime

\* What a step of a group that has nothing to do with clocks leaves alone.
Clockless(g) ==
  /\ UNCHANGED <<clock, sync, dcconf, wake>>
  /\ job[g].op # "dc" /\ job'[g].op # "dc" /\ ty[g] # "lost"
  /\ ty'[g] = "lost" => job'[g].op = "none"

\* Which steps of a group touch its clock configuration.
LEMMA GroupTimes ==
  ASSUME GroupsInv, TimesOK, FreshInv, NEW g \in Groups, GroupStep(g)
  PROVE  /\ pc = "done" /\ UNCHANGED <<ring, addr, pc, left, subs, dcRef>>
         /\ \A h \in Groups \ {g} : /\ job'[h] = job[h] /\ ty'[h] = ty[h]
                                    /\ dcconf'[h] = dcconf[h] /\ wake'[h] = wake[h]
         /\ \/ Clockless(g) \/ GroupFails(g) \/ ConfigureDcSync(g) \/ DcProgram(g)
            \/ DcActivate(g) \/ DcDone(g) \/ TxRxDc(g)
<1> DEFINE Others == \A h \in Groups \ {g} : /\ job'[h] = job[h] /\ ty'[h] = ty[h]
                                             /\ dcconf'[h] = dcconf[h] /\ wake'[h] = wake[h]
<1>0. /\ pc = "done" /\ UNCHANGED <<ring, addr, pc, left, subs>> /\ GroupsOK
      /\ ty[g] = "lost" => job[g].op = "none"
  BY GroupFrame DEF GroupsInv, FreshInv
<1>a. UNCHANGED dcRef
  <2>1. CASE GroupFails(g) \/ IntoPreOpPdi(g) \/ CheckPreOp(g) \/ SubDeviceDone(g)
    BY <2>1 DEF GroupFails, IntoPreOpPdi, CheckPreOp, SubDeviceDone, initVars
  <2>2. CASE ConfigureSm(g)
    BY <2>2 DEF ConfigureSm, initVars
  <2>3. CASE DirectionDone(g) \/ PollFrame(g)
    BY <2>3 DEF DirectionDone, PollFrame, initVars
  <2>4. CASE TransitionTo(g)
    BY <2>4 DEF TransitionTo, initVars
  <2>5. CASE RequestState(g)
    BY <2>5 DEF RequestState, initVars
  <2>6. CASE ConfigureDcSync(g)
    BY <2>6, Zenon DEF ConfigureDcSync, initVars
  <2>7. CASE DcProgram(g) \/ DcActivate(g) \/ DcDone(g) \/ TxRxDc(g)
    BY <2>7 DEF DcProgram, DcActivate, DcDone, TxRxDc, initVars
  <2> QED BY <2>1, <2>2, <2>3, <2>4, <2>5, <2>6, <2>7 DEF GroupStep
<1> USE DEF devVars, Busy, Idle
<1>1. CASE GroupFails(g)
  BY <1>0, <1>a, <1>1 DEF GroupFails, GroupsOK, TimesOK
<1>2. CASE IntoPreOpPdi(g)
  BY <1>0, <1>a, <1>2 DEF IntoPreOpPdi, GroupsOK, TimesOK, Clockless, NoJob
<1>3. CASE CheckPreOp(g)
  BY <1>0, <1>a, <1>3 DEF CheckPreOp, GroupsOK, TimesOK, Clockless, JobOK, JobFields
<1>4. CASE ConfigureSm(g)
  <2>1. PICK i, len : /\ UNCHANGED <<ty, clock, sync, dcconf, wake>> /\ job[g].op = "fmmu"
                      /\ job' = [job EXCEPT ![g].i = i + 1, ![g].pos = @ + len]
    BY <1>4 DEF ConfigureSm
  <2> QED BY <1>0, <1>a, <2>1 DEF GroupsOK, Clockless, JobOK, JobFields
<1>5. CASE SubDeviceDone(g)
  <2>1. /\ UNCHANGED <<ty, clock, sync, dcconf, wake>> /\ job[g].op = "fmmu"
        /\ job' = [job EXCEPT ![g].k = @ + 1, ![g].i = 0]
    BY <1>5 DEF SubDeviceDone
  <2> QED BY <1>0, <1>a, <2>1 DEF GroupsOK, Clockless, JobOK, JobFields
<1>6. CASE DirectionDone(g)
  <2>1. /\ UNCHANGED <<clock, sync, dcconf, wake>> /\ job[g].op = "fmmu"
        /\ \/ job' = [job EXCEPT ![g].dir = "out", ![g].k = 1] /\ UNCHANGED ty
           \/ job' = [job EXCEPT ![g] = NoJob] /\ \E t : ty' = [ty EXCEPT ![g] = t]
    BY <1>6 DEF DirectionDone
  <2> QED BY <1>0, <1>a, <2>1, NoJobOK DEF GroupsOK, Clockless, JobOK, JobFields
<1>7. CASE TransitionTo(g)
  <2> HIDE DEF devVars, Busy, Idle
  <2>1. PICK t \in Transitions :
          Requests(g, [NoJob EXCEPT !.want = t[3],
            !.op = IF t[2] = "request_into_op" THEN "request_only" ELSE "request"])
    BY <1>7, Zenon DEF TransitionTo
  <2> DEFINE j == [NoJob EXCEPT !.want = t[3],
                !.op = IF t[2] = "request_into_op" THEN "request_only" ELSE "request"]
  <2>2. j = [f \in JobFields |-> j[f]] /\ j.k = 1 /\ j.want = t[3]
        /\ j.op \in {"request", "request_only"}
    BY DEF NoJob, JobFields
  <2>3. Requests(g, j) /\ UNCHANGED <<clock, sync, dcconf, wake>> /\ job[g].op = "none"
        /\ ty[g] # "lost"
    BY <1>7, <2>1 DEF TransitionTo, devVars, Busy, Idle
  <2>4. t[3] \in States /\ "lost" \notin States
    BY DEF Transitions, States
  <2> HIDE DEF j
  <2>5. JobOK(j)
    BY <2>2, <2>4 DEF JobOK
  <2>6. /\ job' = [job EXCEPT ![g] = job'[g]]
        /\ ty' = [ty EXCEPT ![g] = ty'[g]]
        /\ \/ job'[g] = j \/ job'[g].op = "poll" \/ job'[g] = NoJob
    BY <1>0, <2>2, <2>3, <2>5, RequestsStep
  <2>7. ty'[g] # "lost"
    BY <1>0, <2>2, <2>3, <2>4 DEF Requests, GroupsOK
  <2> QED BY <1>0, <1>a, <2>2, <2>3, <2>6, <2>7, NoJobOK DEF GroupsOK, Clockless
<1>8. CASE RequestState(g)
  <2> DEFINE j == [job[g] EXCEPT !.k = @ + 1]
  <2>1. /\ Requests(g, j) /\ UNCHANGED <<clock, sync, dcconf, wake>>
        /\ job[g].op \in {"request", "request_only"}
    BY <1>8 DEF RequestState
  <2>2. j = [f \in JobFields |-> j[f]] /\ j.k = job[g].k + 1 /\ j.op = job[g].op
        /\ j.want = job[g].want /\ job[g].k \in Nat \ {0} /\ j.want \in States
    BY <1>0, <2>1 DEF GroupsOK, JobOK, JobFields
  <2> HIDE DEF j
  <2>3. JobOK(j) /\ "lost" \notin States
    BY <2>2 DEF JobOK, States
  <2>4. /\ job' = [job EXCEPT ![g] = job'[g]]
        /\ ty' = [ty EXCEPT ![g] = ty'[g]]
        /\ \/ job'[g] = j \/ job'[g].op = "poll" \/ job'[g] = NoJob
    BY <1>0, <2>1, <2>2, <2>3, RequestsStep
  <2>5. ty[g] # "lost" /\ ty'[g] # "lost"
    BY <1>0, <2>1, <2>2, <2>3 DEF Requests, GroupsOK
  <2> QED BY <1>0, <1>a, <2>1, <2>2, <2>4, <2>5, NoJobOK DEF GroupsOK, Clockless
<1>9. CASE PollFrame(g)
  <2>1. PICK next :
        /\ UNCHANGED <<clock, sync, dcconf, wake>> /\ job[g].op = "poll"
        /\ \/ job' = [job EXCEPT ![g].k = next] /\ UNCHANGED ty
           \/ job' = [job EXCEPT ![g] = NoJob] /\ ty' = [ty EXCEPT ![g] = job[g].want]
    BY <1>9 DEF PollFrame
  <2> QED BY <1>0, <1>a, <2>1, NoJobOK DEF GroupsOK, Clockless, JobOK, JobFields
<1>10. CASE ConfigureDcSync(g)
  <2>1. /\ UNCHANGED <<dcconf, wake>>
        /\ \/ (\E n : job' = [job EXCEPT ![g] = n]) /\ UNCHANGED ty
           \/ UNCHANGED job /\ ty' = [ty EXCEPT ![g] = "lost"]
    BY <1>10, Zenon DEF ConfigureDcSync
  <2> QED BY <1>0, <1>a, <1>10, <2>1 DEF GroupsOK
<1>11. CASE DcProgram(g) \/ DcActivate(g) \/ DcDone(g) \/ TxRxDc(g)
  BY <1>0, <1>a, <1>11 DEF DcProgram, DcActivate, DcDone, TxRxDc, GroupsOK, TimesOK
<1> QED
  BY <1>1, <1>2, <1>3, <1>4, <1>5, <1>6, <1>7, <1>8, <1>9, <1>10, <1>11 DEF GroupStep

\* The configuration of the clocks, a call or a loop step at a time.
LEMMA DcJobs ==
  ASSUME GroupsInv, TimesOK, NEW g \in Groups
  PROVE  /\ ConfigureDcSync(g) =>
              /\ UNCHANGED <<sync, dcconf, wake>> /\ clock' \in Nat /\ job[g].op = "none"
              /\ ty[g] # "lost"
              /\ \/ /\ ty' = ty /\ job'[g].op = "dc" /\ job'[g].k = 1 /\ job'[g].i = 0
                    /\ job'[g].time \in Nat /\ job'[g].conf \in Conf
                 \/ ty'[g] = "lost" /\ job' = job /\ clock' = clock
         /\ DcProgram(g) =>
              /\ UNCHANGED <<dcconf, wake, ty>> /\ clock' \in Nat /\ job[g].op = "dc" /\ job[g].i = 0
              /\ job[g].k \in DOMAIN subs[g]
              /\ job'[g].op = "dc" /\ job'[g].time = job[g].time /\ job'[g].conf = job[g].conf
              /\ \/ /\ job[g].conf.period > 0
                    /\ sync' = [e \in Devices |-> IF Takes(e, Sub(g).addr)
                         THEN [active |-> FALSE, start |-> StartTime(job[g].time, job[g].conf),
                               period |-> job[g].conf.period] ELSE sync[e]]
                    /\ job'[g].i = 1 /\ job'[g].k = job[g].k
                 \/ /\ ~ Station[Sub(g).id].dc /\ job'[g].k = job[g].k + 1
                    /\ job'[g].i = 0 /\ UNCHANGED <<sync, clock>>
         /\ DcActivate(g) =>
              /\ UNCHANGED <<dcconf, wake, ty, clock>> /\ job[g].op = "dc" /\ job[g].i = 1
              /\ job[g].k \in DOMAIN subs[g]
              /\ sync' = [e \in Devices |-> IF Takes(e, Sub(g).addr)
                      THEN [sync[e] EXCEPT !.active = TRUE] ELSE sync[e]]
              /\ job'[g].op = "dc" /\ job'[g].k = job[g].k + 1 /\ job'[g].i = 0
              /\ job'[g].time = job[g].time /\ job'[g].conf = job[g].conf
         /\ DcDone(g) =>
              /\ UNCHANGED <<sync, wake, clock>> /\ job[g].op = "dc" /\ job[g].k > Len(subs[g])
              /\ dcconf' = [dcconf EXCEPT ![g] = job[g].conf]
              /\ ty'[g] = "PreOpPdi" /\ job'[g] = NoJob
<1> USE DEF devVars, Busy, Idle, GroupsInv
<1>0. /\ job[g] = [f \in JobFields |-> job[g][f]] /\ job[g].k \in Nat \ {0}
      /\ DOMAIN subs[g] = 1..Len(subs[g]) /\ Len(subs[g]) \in Nat
      /\ job = [h \in Groups |-> job[h]] /\ ty = [h \in Groups |-> ty[h]]
  BY DEF GroupsOK, JobOK
<1>1. ASSUME ConfigureDcSync(g)
      PROVE  /\ UNCHANGED <<sync, dcconf, wake>> /\ clock' \in Nat /\ job[g].op = "none"
             /\ ty[g] # "lost"
             /\ \/ /\ ty' = ty /\ job'[g].op = "dc" /\ job'[g].k = 1 /\ job'[g].i = 0
                   /\ job'[g].time \in Nat /\ job'[g].conf \in Conf
                \/ ty'[g] = "lost" /\ job' = job /\ clock' = clock
  <2>1. UNCHANGED <<sync, dcconf, wake>> /\ job[g].op = "none" /\ ty[g] # "lost"
    BY <1>1, Zenon DEF ConfigureDcSync
  <2>2. \/ /\ ty' = ty /\ Later
           /\ \E c \in DcConfs :
                job' = [job EXCEPT ![g] = [NoJob EXCEPT !.op = "dc", !.time = clock',
                          !.conf = [delay |-> c.delay, period |-> c.period,
                                    shift |-> c.shift, ref |-> dcRef]]]
        \/ ty' = [ty EXCEPT ![g] = "lost"] /\ job' = job /\ clock' = clock
    BY <1>1, Zenon DEF ConfigureDcSync
  <2>3. CASE ty' = [ty EXCEPT ![g] = "lost"] /\ job' = job /\ clock' = clock
    BY <1>0, <2>1, <2>3 DEF TimesOK
  <2>4. CASE ty' = ty /\ Later /\ \E c \in DcConfs :
                job' = [job EXCEPT ![g] = [NoJob EXCEPT !.op = "dc", !.time = clock',
                          !.conf = [delay |-> c.delay, period |-> c.period,
                                    shift |-> c.shift, ref |-> dcRef]]]
    <3>1. PICK c \in DcConfs :
                job' = [job EXCEPT ![g] = [NoJob EXCEPT !.op = "dc", !.time = clock',
                          !.conf = [delay |-> c.delay, period |-> c.period,
                                    shift |-> c.shift, ref |-> dcRef]]]
      BY <2>4, Zenon
    <3> DEFINE f == [delay |-> c.delay, period |-> c.period, shift |-> c.shift, ref |-> dcRef]
               n == [NoJob EXCEPT !.op = "dc", !.time = clock', !.conf = f]
    <3>2. c \in [delay : Nat, period : Nat, shift : Nat]
      BY CallsAssumption
    <3>3. f \in Conf
      BY <3>2 DEF Conf, TimesOK
    <3>4. clock' \in Nat
      BY <2>4, SizesAssumption DEF Later, TimesOK
    <3> HIDE DEF f
    <3>5. n.op = "dc" /\ n.time = clock' /\ n.conf = f /\ n.k = 1 /\ n.i = 0
      BY DEF NoJob
    <3>6. job'[g] = n
      BY <1>0, <3>1 DEF f
    <3> HIDE DEF n
    <3> QED BY <2>1, <2>4, <3>3, <3>4, <3>5, <3>6
  <2> QED BY <2>2, <2>3, <2>4, Zenon
<1>2. ASSUME DcProgram(g)
      PROVE  /\ UNCHANGED <<dcconf, wake, ty>> /\ clock' \in Nat /\ job[g].op = "dc" /\ job[g].i = 0
             /\ job[g].k \in DOMAIN subs[g]
             /\ job'[g].op = "dc" /\ job'[g].time = job[g].time /\ job'[g].conf = job[g].conf
             /\ \/ /\ job[g].conf.period > 0
                   /\ sync' = [e \in Devices |-> IF Takes(e, Sub(g).addr)
                        THEN [active |-> FALSE, start |-> StartTime(job[g].time, job[g].conf),
                              period |-> job[g].conf.period] ELSE sync[e]]
                   /\ job'[g].i = 1 /\ job'[g].k = job[g].k
                \/ /\ ~ Station[Sub(g).id].dc /\ job'[g].k = job[g].k + 1
                   /\ job'[g].i = 0 /\ UNCHANGED <<sync, clock>>
  <2>1. UNCHANGED <<dcconf, wake, ty>> /\ job[g].op = "dc" /\ job[g].i = 0
        /\ job[g].k <= Len(subs[g])
    BY <1>2 DEF DcProgram, More
  <2>2. \/ /\ job[g].conf.period > 0
           /\ sync' = [e \in Devices |-> IF Takes(e, Sub(g).addr)
                        THEN [active |-> FALSE, start |-> StartTime(job[g].time, job[g].conf),
                              period |-> job[g].conf.period] ELSE sync[e]]
           /\ job' = [job EXCEPT ![g].i = 1] /\ Later
        \/ ~ Station[Sub(g).id].dc /\ job' = [job EXCEPT ![g].k = @ + 1]
           /\ UNCHANGED <<sync, clock>>
    BY <1>2 DEF DcProgram
  <2>3. clock' \in Nat
    BY <2>2, SizesAssumption DEF Later, TimesOK
  <2>4. job[g].k \in DOMAIN subs[g]
    BY <1>0, <2>1
  <2>5. ASSUME job' = [job EXCEPT ![g].i = 1]
        PROVE  /\ job'[g].op = "dc" /\ job'[g].time = job[g].time /\ job'[g].conf = job[g].conf
               /\ job'[g].i = 1 /\ job'[g].k = job[g].k
    BY <1>0, <2>1, <2>5 DEF JobFields
  <2>6. ASSUME job' = [job EXCEPT ![g].k = @ + 1]
        PROVE  /\ job'[g].op = "dc" /\ job'[g].time = job[g].time /\ job'[g].conf = job[g].conf
               /\ job'[g].i = 0 /\ job'[g].k = job[g].k + 1
    BY <1>0, <2>1, <2>6 DEF JobFields
  <2> QED BY <2>1, <2>2, <2>3, <2>4, <2>5, <2>6
<1>3. ASSUME DcActivate(g)
      PROVE  /\ UNCHANGED <<dcconf, wake, ty, clock>> /\ job[g].op = "dc" /\ job[g].i = 1
             /\ job[g].k \in DOMAIN subs[g]
             /\ sync' = [e \in Devices |-> IF Takes(e, Sub(g).addr)
                      THEN [sync[e] EXCEPT !.active = TRUE] ELSE sync[e]]
             /\ job'[g].op = "dc" /\ job'[g].k = job[g].k + 1 /\ job'[g].i = 0
             /\ job'[g].time = job[g].time /\ job'[g].conf = job[g].conf
  <2>1. /\ UNCHANGED <<dcconf, wake, ty, clock>>
        /\ sync' = [e \in Devices |-> IF Takes(e, Sub(g).addr)
                      THEN [sync[e] EXCEPT !.active = TRUE] ELSE sync[e]]
    BY <1>3 DEF DcActivate
  <2>2. job' = [job EXCEPT ![g].k = @ + 1, ![g].i = 0]
    BY <1>3 DEF DcActivate
  <2>3. job[g].op = "dc" /\ job[g].i = 1 /\ job[g].k <= Len(subs[g])
    BY <1>3 DEF DcActivate, More
  <2> DEFINE n == [job[g] EXCEPT !.k = @ + 1, !.i = 0]
  <2>4. job' = [job EXCEPT ![g] = n]
    BY <2>2 DEF GroupsOK
  <2>5. /\ n.op = "dc" /\ n.k = job[g].k + 1 /\ n.i = 0
        /\ n.time = job[g].time /\ n.conf = job[g].conf
    BY <2>3 DEF GroupsOK, JobOK, JobFields
  <2> HIDE DEF n
  <2>6. job'[g] = n
    BY <2>4 DEF GroupsOK
  <2>7. job[g].k \in DOMAIN subs[g]
    BY <1>0, <2>3
  <2> QED BY <2>1, <2>3, <2>5, <2>6, <2>7
<1>4. ASSUME DcDone(g)
      PROVE  /\ UNCHANGED <<sync, wake, clock>> /\ job[g].op = "dc" /\ job[g].k > Len(subs[g])
             /\ dcconf' = [dcconf EXCEPT ![g] = job[g].conf]
             /\ ty'[g] = "PreOpPdi" /\ job'[g] = NoJob
  <2>1. UNCHANGED <<sync, wake, clock>> /\ job[g].op = "dc" /\ ~(job[g].k <= Len(subs[g]))
        /\ dcconf' = [dcconf EXCEPT ![g] = job[g].conf]
        /\ ty' = [ty EXCEPT ![g] = "PreOpPdi"] /\ job' = [job EXCEPT ![g] = NoJob]
    BY <1>4 DEF DcDone, More
  <2>2. job[g].k > Len(subs[g])
    BY <1>0, <2>1
  <2>3. ty'[g] = "PreOpPdi" /\ job'[g] = NoJob
    BY <1>0, <2>1
  <2> QED BY <2>1, <2>2, <2>3
<1> QED BY <1>1, <1>2, <1>3, <1>4

\* Types, and that a lost group does nothing, over a step of a group.
LEMMA GroupTypes ==
  ASSUME GroupsInv, PhaseInv, NEW g \in Groups, GroupStep(g)
  PROVE  TimesOK' /\ FreshInv' /\ PlaceInv'
<1> USE DEF PhaseInv
<1>1. /\ pc = "done" /\ UNCHANGED <<ring, addr, pc, left, subs, dcRef>>
      /\ \A h \in Groups \ {g} : /\ job'[h] = job[h] /\ ty'[h] = ty[h]
                                 /\ dcconf'[h] = dcconf[h] /\ wake'[h] = wake[h]
      /\ \/ Clockless(g) \/ GroupFails(g) \/ ConfigureDcSync(g) \/ DcProgram(g)
         \/ DcActivate(g) \/ DcDone(g) \/ TxRxDc(g)
  BY GroupTimes
<1>2. PlaceInv'
  BY <1>1 DEF PlaceInv, OnRing
<1>3. FreshInv' <=> (ty'[g] = "lost" => job'[g].op = "none")
  BY <1>1 DEF FreshInv, Idles
<1> DEFINE Dc == job'[g].op = "dc" => job'[g].time \in Nat /\ job'[g].conf \in Conf
<1>4. ASSUME clock' \in Nat, sync' \in [Devices -> SyncUnit], dcconf' \in [Groups -> Conf],
             wake' \in [Groups -> Int], Dc
      PROVE  TimesOK'
  BY <1>1, <1>4 DEF TimesOK
<1>5. /\ clock \in Nat /\ sync \in [Devices -> SyncUnit] /\ dcconf \in [Groups -> Conf]
      /\ wake \in [Groups -> Int]
      /\ job[g].op = "dc" => job[g].time \in Nat /\ job[g].conf \in Conf
      /\ ty[g] = "lost" => job[g].op = "none"
  BY DEF TimesOK, FreshInv
<1>6. CASE Clockless(g)
  BY <1>2, <1>3, <1>4, <1>5, <1>6 DEF Clockless
<1>7. CASE GroupFails(g)
  <2>1. UNCHANGED <<clock, sync, dcconf, wake>> /\ job'[g] = NoJob
    BY <1>7 DEF GroupFails, devVars, GroupsInv, GroupsOK
  <2> QED BY <1>2, <1>3, <1>4, <1>5, <2>1, NoJobOK
<1>8. CASE ConfigureDcSync(g)
  <2>1. /\ UNCHANGED <<sync, dcconf, wake>> /\ clock' \in Nat /\ job[g].op = "none"
        /\ ty[g] # "lost"
        /\ \/ /\ ty' = ty /\ job'[g].op = "dc" /\ job'[g].k = 1 /\ job'[g].i = 0
              /\ job'[g].time \in Nat /\ job'[g].conf \in Conf
           \/ ty'[g] = "lost" /\ job' = job /\ clock' = clock
    BY <1>8, DcJobs
  <2> QED BY <1>2, <1>3, <1>4, <1>5, <2>1
<1>9. CASE DcProgram(g)
  <2>1. /\ UNCHANGED <<dcconf, wake, ty>> /\ clock' \in Nat /\ job[g].op = "dc"
        /\ job'[g].op = "dc" /\ job'[g].time = job[g].time /\ job'[g].conf = job[g].conf
        /\ \/ /\ job[g].conf.period > 0
              /\ sync' = [e \in Devices |-> IF Takes(e, Sub(g).addr)
                   THEN [active |-> FALSE, start |-> StartTime(job[g].time, job[g].conf),
                         period |-> job[g].conf.period] ELSE sync[e]]
           \/ sync' = sync
    BY <1>9, DcJobs
  <2>2. sync' \in [Devices -> SyncUnit]
    <3>1. CASE sync' = sync
      BY <1>5, <3>1
    <3>2. CASE /\ job[g].conf.period > 0
               /\ sync' = [e \in Devices |-> IF Takes(e, Sub(g).addr)
                   THEN [active |-> FALSE, start |-> StartTime(job[g].time, job[g].conf),
                         period |-> job[g].conf.period] ELSE sync[e]]
      <4> DEFINE u == [active |-> FALSE, start |-> StartTime(job[g].time, job[g].conf),
                       period |-> job[g].conf.period]
      <4>1. StartTime(job[g].time, job[g].conf) \in Nat
        BY <1>5, <2>1, <3>2, StartTimeFacts
      <4>2. u \in SyncUnit
        BY <1>5, <2>1, <4>1 DEF SyncUnit, Conf
      <4>3. sync' = [e \in Devices |-> IF Takes(e, Sub(g).addr) THEN u ELSE sync[e]]
        BY <3>2
      <4> HIDE DEF u
      <4> QED BY <1>5, <4>2, <4>3
    <3> QED BY <2>1, <3>1, <3>2
  <2> QED BY <1>2, <1>3, <1>4, <1>5, <2>1, <2>2
<1>10. CASE DcActivate(g)
  <2>1. /\ UNCHANGED <<dcconf, wake, ty, clock>> /\ job[g].op = "dc"
        /\ sync' = [e \in Devices |-> IF Takes(e, Sub(g).addr)
                      THEN [sync[e] EXCEPT !.active = TRUE] ELSE sync[e]]
        /\ job'[g].op = "dc"
        /\ job'[g].time = job[g].time /\ job'[g].conf = job[g].conf
    BY <1>10, DcJobs
  <2>2. sync' \in [Devices -> SyncUnit]
    BY <1>5, <2>1 DEF SyncUnit
  <2> QED BY <1>2, <1>3, <1>4, <1>5, <2>1, <2>2
<1>11. CASE DcDone(g)
  <2>1. /\ UNCHANGED <<sync, wake, clock>> /\ job[g].op = "dc"
        /\ dcconf' = [dcconf EXCEPT ![g] = job[g].conf]
        /\ ty'[g] = "PreOpPdi" /\ job'[g] = NoJob
    BY <1>11, DcJobs
  <2>2. dcconf' \in [Groups -> Conf]
    BY <1>5, <2>1
  <2> QED BY <1>2, <1>3, <1>4, <1>5, <2>1, <2>2, NoJobOK
<1>12. CASE TxRxDc(g)
  <2>1. /\ UNCHANGED <<sync, dcconf, ty, job>> /\ dcconf[g].period > 0
        /\ clock' \in IF wake[g] < clock THEN clock..(clock + MaxLate)
                      ELSE wake[g]..(wake[g] + MaxLate)
    BY <1>12 DEF TxRxDc
  <2>2. PICK time : /\ wake' = [wake EXCEPT ![g] = clock' + NextCycleWait(time, dcconf[g])]
                    /\ time = IF At(dcconf[g].ref) = {} THEN 0 ELSE clock'
    BY <1>12 DEF TxRxDc
  <2>3. clock' \in Nat
    BY <1>5, <2>1, SizesAssumption
  <2>4. dcconf[g].period \in Nat \ {0} /\ dcconf[g].shift \in Nat /\ time \in Int
    BY <1>5, <2>1, <2>2, <2>3 DEF Conf
  <2>5. clock' + NextCycleWait(time, dcconf[g]) \in Int
    <3>1. time % dcconf[g].period \in Int
      BY <2>4, Divide
    <3> QED BY <2>3, <2>4, <3>1 DEF NextCycleWait
  <2>6. wake' \in [Groups -> Int]
    BY <1>5, <2>2, <2>5
  <2> QED BY <1>2, <1>3, <1>4, <1>5, <2>1, <2>3, <2>6
<1> QED BY <1>1, <1>6, <1>7, <1>8, <1>9, <1>10, <1>11, <1>12

\* The entries of a group are SubDevices with an address.
LEMMA Member ==
  ASSUME GroupsInv, NEW g \in Groups, NEW k \in DOMAIN subs[g]
  PROVE  subs[g][k].id \in Devices /\ subs[g][k].addr \in Nat
<1>1. subs[g] \in Seq(Entry)
  BY DEF GroupsInv, GroupsOK
<1>2. subs[g][k] \in Entry
  BY <1>1
<1> QED BY <1>2 DEF Entry

\* A step of a group keeps all groups in step.
LEMMA GroupSync ==
  ASSUME GroupsInv, PhaseInv, NEW g \in Groups, GroupStep(g)
  PROVE  SyncInv'
<1> USE DEF PhaseInv
<1>1. /\ pc = "done" /\ UNCHANGED <<ring, addr, pc, left, subs, dcRef>>
      /\ \A h \in Groups \ {g} : /\ job'[h] = job[h] /\ ty'[h] = ty[h]
                                 /\ dcconf'[h] = dcconf[h] /\ wake'[h] = wake[h]
      /\ \/ Clockless(g) \/ GroupFails(g) \/ ConfigureDcSync(g) \/ DcProgram(g)
         \/ DcActivate(g) \/ DcDone(g) \/ TxRxDc(g)
  BY GroupTimes
<1> SUFFICES ASSUME ~ left PROVE \A h \in Groups : GroupSynced(h)'
  BY <1>1 DEF SyncInv
<1>2. \A h \in Groups : GroupSynced(h)
  BY <1>1 DEF SyncInv
<1>3. ASSUME sync' = sync, GroupSynced(g)' PROVE \A h \in Groups : GroupSynced(h)'
  BY <1>1, <1>2, <1>3, SyncedKept
<1>4. ASSUME NEW u, NEW k \in DOMAIN subs[g],
             sync' = [e \in Devices |-> IF Takes(e, subs[g][k].addr) THEN u[e] ELSE sync[e]]
      PROVE  /\ sync'[subs[g][k].id] = u[subs[g][k].id]
             /\ \A n \in DOMAIN subs[g] :
                  n # k => sync'[subs[g][n].id] = sync[subs[g][n].id]
             /\ GroupSynced(g)' => \A h \in Groups : GroupSynced(h)'
  <2>1. sync'[subs[g][k].id] = u[subs[g][k].id]
    BY <1>4, Member, TakesOwn
  <2>2. \A h \in Groups : \A n \in DOMAIN subs[h] :
          ~(h = g /\ n = k) => sync'[subs[h][n].id] = sync[subs[h][n].id]
    BY <1>4, Member, TakesOwn
  <2>3. \A h \in Groups : h # g => GroupSynced(h)'
    BY <1>1, <1>2, <2>2, SyncedKept
  <2> QED BY <2>1, <2>2, <2>3
<1>5. CASE Clockless(g)
  <2>1. GroupSynced(g)'
    BY <1>1, <1>2, <1>5 DEF Clockless, GroupSynced, Synced, Programmed
  <2> QED BY <1>3, <1>5, <2>1, SMTT(40) DEF Clockless
<1>6. CASE GroupFails(g)
  <2>1. sync' = sync /\ ty'[g] = "lost" /\ job'[g] = NoJob
    BY <1>6 DEF GroupFails, devVars, GroupsInv, GroupsOK
  <2>2. GroupSynced(g)'
    BY <2>1, NoJobOK DEF GroupSynced
  <2> QED BY <1>3, <2>1, <2>2
<1>7. CASE ConfigureDcSync(g)
  <2>1. /\ sync' = sync
        /\ \/ job'[g].op = "dc" /\ job'[g].k = 1 /\ job'[g].i = 0
           \/ ty'[g] = "lost" /\ job'[g].op = "none"
    BY <1>7, DcJobs
  <2>2. \A k \in DOMAIN subs[g] : ~(k < 1)
    BY DEF GroupsInv, GroupsOK
  <2>3. GroupSynced(g)'
    BY <1>1, <2>1, <2>2 DEF GroupSynced
  <2> QED BY <1>3, <2>1, <2>3
<1> DEFINE j == job[g]
           k == j.k
           d == subs[g][k].id
<1>8. k \in DOMAIN subs[g] => d \in Devices
  BY Member
<1>9. DOMAIN subs[g] \subseteq Nat /\ k \in Nat
  BY DEF GroupsInv, GroupsOK, JobOK
<1>12. CASE DcProgram(g)
  <2>1. /\ j.op = "dc" /\ j.i = 0 /\ k \in DOMAIN subs[g]
        /\ job'[g].op = "dc" /\ job'[g].time = j.time /\ job'[g].conf = j.conf
        /\ \/ /\ j.conf.period > 0
              /\ sync' = [e \in Devices |-> IF Takes(e, Sub(g).addr)
                   THEN [active |-> FALSE, start |-> StartTime(j.time, j.conf),
                         period |-> j.conf.period] ELSE sync[e]]
              /\ job'[g].i = 1 /\ job'[g].k = k
           \/ ~ Station[Sub(g).id].dc /\ job'[g].k = k + 1 /\ job'[g].i = 0 /\ sync' = sync
    BY <1>12, DcJobs
  <2>2. Sub(g) = subs[g][k]
    BY DEF Sub
  <2>3. \A n \in DOMAIN subs[g] : n < k => Synced(subs[g][n].id, j.conf)
    BY <1>2, <2>1 DEF GroupSynced
  <2>4. CASE ~ Station[Sub(g).id].dc /\ job'[g].k = k + 1 /\ job'[g].i = 0 /\ sync' = sync
    <3>1. \A n \in DOMAIN subs[g] : n < k + 1 => n < k \/ n = k
      BY <1>9
    <3>2. \A n \in DOMAIN subs[g] : n < k + 1 => Synced(subs[g][n].id, j.conf)
      BY <2>2, <2>3, <2>4, <3>1 DEF Synced
    <3>3. GroupSynced(g)'
      <4> HIDE DEF j, k, d
      <4> QED BY <1>1, <2>1, <2>4, <3>2 DEF GroupSynced, Synced, Programmed
    <3> QED BY <1>3, <2>4, <3>3
  <2>5. CASE /\ j.conf.period > 0
             /\ sync' = [e \in Devices |-> IF Takes(e, Sub(g).addr)
                   THEN [active |-> FALSE, start |-> StartTime(j.time, j.conf),
                         period |-> j.conf.period] ELSE sync[e]]
             /\ job'[g].i = 1 /\ job'[g].k = k
    <3> DEFINE u == [active |-> FALSE, start |-> StartTime(j.time, j.conf),
                     period |-> j.conf.period]
               U == [e \in Devices |-> u]
    <3>2. /\ sync'[d] = u
          /\ \A n \in DOMAIN subs[g] : n # k => sync'[subs[g][n].id] = sync[subs[g][n].id]
          /\ GroupSynced(g)' => \A h \in Groups : GroupSynced(h)'
      <4>1. sync' = [e \in Devices |-> IF Takes(e, subs[g][k].addr) THEN U[e] ELSE sync[e]]
        BY <2>2, <2>5
      <4> HIDE DEF u
      <4>2. /\ sync'[d] = U[d]
            /\ \A n \in DOMAIN subs[g] : n # k => sync'[subs[g][n].id] = sync[subs[g][n].id]
            /\ GroupSynced(g)' => \A h \in Groups : GroupSynced(h)'
        <5> HIDE DEF U
        <5> QED BY <1>4, <2>1, <4>1
      <4> QED BY <1>8, <2>1, <4>2
    <3>3. u.start = StartTime(j.time, j.conf) /\ u.period = j.conf.period
      OBVIOUS
    <3>4. StartTime(j.time, j.conf) % j.conf.period = 0
      BY <2>1, <2>5, StartTimeFacts DEF TimesOK
    <3>5. \A n \in DOMAIN subs[g] : n < k => sync'[subs[g][n].id] = sync[subs[g][n].id]
      BY <1>9, <3>2
    <3>6. GroupSynced(g)'
      <4>1. ASSUME NEW n \in DOMAIN subs[g], n < k
            PROVE  LET e == subs[g][n].id c == job'[g].conf
                   IN Station[e].dc => /\ sync'[e].active /\ c.period > 0
                                       /\ sync'[e].period = c.period
                                       /\ sync'[e].start % c.period = 0
        BY <2>1, <2>3, <3>5, <4>1 DEF Synced, Programmed
      <4>2. /\ sync'[d].period = job'[g].conf.period /\ job'[g].conf.period > 0
            /\ sync'[d].start % job'[g].conf.period = 0
            /\ sync'[d].start = StartTime(job'[g].time, job'[g].conf)
        BY <2>1, <2>5, <3>2, <3>3, <3>4
      <4>3. \A n \in DOMAIN subs[g] : n = k => subs[g][n].id = d
        OBVIOUS
      <4> HIDE DEF j, k, d, u
      <4>4. /\ subs' = subs /\ job'[g].op = "dc" /\ job'[g].k = k
        BY <1>1, <2>1, <2>5
      <4> QED BY <4>1, <4>2, <4>3, <4>4 DEF GroupSynced, Synced, Programmed, StartTime
    <3> QED BY <3>2, <3>6
  <2> QED BY <2>1, <2>4, <2>5
<1>13. CASE DcActivate(g)
  <2>1. /\ j.op = "dc" /\ j.i = 1 /\ k \in DOMAIN subs[g]
        /\ sync' = [e \in Devices |-> IF Takes(e, Sub(g).addr)
                      THEN [sync[e] EXCEPT !.active = TRUE] ELSE sync[e]]
        /\ job'[g].op = "dc" /\ job'[g].k = k + 1 /\ job'[g].i = 0
        /\ job'[g].time = j.time /\ job'[g].conf = j.conf
    BY <1>13, DcJobs
  <2>3. /\ sync'[d].active /\ sync'[d].start = sync[d].start /\ sync'[d].period = sync[d].period
        /\ \A n \in DOMAIN subs[g] : n # k => sync'[subs[g][n].id] = sync[subs[g][n].id]
        /\ GroupSynced(g)' => \A h \in Groups : GroupSynced(h)'
    <3> DEFINE U == [e \in Devices |-> [sync[e] EXCEPT !.active = TRUE]]
    <3>1. sync' = [e \in Devices |-> IF Takes(e, subs[g][k].addr) THEN U[e] ELSE sync[e]]
      BY <2>1 DEF Sub
    <3>2. /\ sync'[d] = U[d]
          /\ \A n \in DOMAIN subs[g] : n # k => sync'[subs[g][n].id] = sync[subs[g][n].id]
          /\ GroupSynced(g)' => \A h \in Groups : GroupSynced(h)'
      <4> HIDE DEF U
      <4> QED BY <1>4, <2>1, <3>1
    <3>3. sync[d] \in SyncUnit /\ d \in Devices
      BY <1>8, <2>1 DEF TimesOK
    <3> HIDE DEF d
    <3>4. U[d].active /\ U[d].start = sync[d].start /\ U[d].period = sync[d].period
      BY <3>3 DEF SyncUnit
    <3> QED BY <3>2, <3>4
  <2>4. /\ \A n \in DOMAIN subs[g] : n < k => Synced(subs[g][n].id, j.conf)
        /\ Programmed(d, j.conf)
    BY <1>2, <2>1 DEF GroupSynced
  <2>5. ASSUME NEW n \in DOMAIN subs[g], n < k + 1
        PROVE  LET e == subs[g][n].id c == job'[g].conf
               IN Station[e].dc => /\ sync'[e].active /\ c.period > 0
                                   /\ sync'[e].period = c.period
                                   /\ sync'[e].start % c.period = 0
    <3>1. n < k \/ n = k
      BY <1>9, <2>5
    <3>2. CASE n = k
      <4>1. /\ sync'[d].active /\ j.conf.period > 0 /\ sync'[d].period = j.conf.period
            /\ sync'[d].start % j.conf.period = 0
        <5> HIDE DEF d, j
        <5> QED BY <2>3, <2>4 DEF Programmed
      <4>2. subs[g][n].id = d /\ job'[g].conf = j.conf
        BY <2>1, <3>2
      <4> HIDE DEF d, j
      <4> QED BY <4>1, <4>2
    <3>3. CASE n < k
      <4>1. n # k /\ n \in DOMAIN subs[g]
        BY <1>9, <3>3, SMTT(40)
      <4>2. sync'[subs[g][n].id] = sync[subs[g][n].id]
        BY <2>3, <4>1
      <4> QED BY <2>1, <2>4, <3>3, <4>2 DEF Synced, Programmed
    <3> QED BY <3>1, <3>2, <3>3
  <2>6. GroupSynced(g)'
    <3> HIDE DEF j, k, d
    <3> QED BY <1>1, <2>1, <2>5 DEF GroupSynced, Synced, Programmed
  <2> QED BY <2>3, <2>6
<1>14. CASE DcDone(g)
  <2>1. /\ sync' = sync /\ j.op = "dc" /\ k > Len(subs[g])
        /\ dcconf' = [dcconf EXCEPT ![g] = j.conf] /\ job'[g] = NoJob
    BY <1>14, DcJobs
  <2>2. dcconf'[g] = j.conf
    BY <2>1 DEF TimesOK
  <2>3. \A n \in DOMAIN subs[g] : n < k
    BY <1>9, <2>1 DEF GroupsInv, GroupsOK
  <2>4. \A n \in DOMAIN subs[g] : Synced(subs[g][n].id, j.conf)
    BY <1>2, <2>1, <2>3 DEF GroupSynced
  <2>5. GroupSynced(g)'
    <3> HIDE DEF j
    <3> QED BY <1>1, <2>1, <2>2, <2>4, NoJobOK DEF GroupSynced, Synced, Programmed
  <2> QED BY <1>3, <2>1, <2>5
<1>15. CASE TxRxDc(g)
  <2>1. UNCHANGED <<sync, dcconf, ty, job>>
    BY <1>15 DEF TxRxDc
  <2> QED BY <1>1, <1>2, <2>1, SyncedKept
<1> QED BY <1>1, <1>5, <1>6, <1>7, <1>12, <1>13, <1>14, <1>15

\* The SubDevices change neither clocks nor groups; one that leaves is noted.
LEMMA DevicePhase ==
  ASSUME GroupsInv, PhaseInv, (\E d \in Devices : DeviceStep(d)) \/ Unplug
  PROVE  PhaseInv'
<1>1. /\ UNCHANGED <<addr, clock, dcRef, sync, dcconf, wake, job, ty, subs, pc>>
      /\ \/ UNCHANGED <<ring, left>> \/ left'
         \/ left' = left /\ \E d \in Devices : ring' = Append(ring, d)
  BY DEF DeviceStep, DevAnswers, DevFalls, Plug, Unplug, initVars, grpVars
<1>2. TimesOK' /\ FreshInv'
  BY <1>1 DEF PhaseInv, TimesOK, FreshInv
<1>3. SyncInv'
  <2> SUFFICES ASSUME ~ left', pc = "done" PROVE \A g \in Groups : GroupSynced(g)'
    BY <1>1 DEF SyncInv
  <2>1. \A g \in Groups : GroupSynced(g)
    BY <1>1 DEF PhaseInv, SyncInv
  <2> QED BY <1>1, <2>1, SyncedKept
<1>4. PlaceInv'
  <2> SUFFICES ASSUME ~ left' PROVE PlaceInv'
    BY DEF PlaceInv
  <2>1. ASSUME NEW d, OnRing(d) PROVE OnRing(d)'
    <3>1. PICK i \in DOMAIN ring : ring[i] = d
      BY <2>1 DEF OnRing
    <3>2. ring \in Seq(Devices)
      BY DEF GroupsInv, DevicesOK
    <3>3. i \in DOMAIN ring' /\ ring'[i] = ring[i]
      <4>1. CASE UNCHANGED ring
        BY <4>1
      <4>2. CASE \E e \in Devices : ring' = Append(ring, e)
        BY <3>2, <4>2
      <4> QED BY <1>1, <4>1, <4>2
    <3> QED BY <3>1, <3>3 DEF OnRing
  <2> QED BY <1>1, <2>1 DEF PhaseInv, PlaceInv
<1> QED BY <1>2, <1>3, <1>4 DEF PhaseInv

\* Between init's call and its return the groups have no configuration.
LEMMA InitPhase ==
  ASSUME GroupsInv, PhaseInv, InitStep
  PROVE  PhaseInv'
<1>1. CASE Count
  <2>1. /\ left' = FALSE /\ pc' \in {"done", "reset_state"}
        /\ subs' = [g \in Groups |-> <<>>] /\ job' = [g \in Groups |-> NoJob]
        /\ dcconf' = [g \in Groups |-> NoConf] /\ wake' = [g \in Groups |-> -1]
        /\ ty' = [g \in Groups |-> IF ring = <<>> THEN "PreOp" ELSE "none"]
        /\ UNCHANGED <<sync, clock, dcRef>>
    BY <1>1 DEF Count, Fresh, devVars
  <2>2. \A g \in Groups : /\ subs'[g] = <<>> /\ job'[g] = NoJob /\ dcconf'[g] = NoConf
                          /\ ty'[g] # "lost"
    BY <2>1
  <2>3. NoConf \in Conf
    BY DEF NoConf, Conf
  <2>4. dcconf' \in [Groups -> Conf] /\ wake' \in [Groups -> Int]
    BY <2>1, <2>3
  <2>5. TimesOK'
    BY <2>1, <2>2, <2>4, NoJobOK DEF PhaseInv, TimesOK
  <2>6. FreshInv'
    BY <2>2 DEF FreshInv
  <2>7. PlaceInv' /\ SyncInv'
    BY <2>2, NoJobOK DEF PlaceInv, SyncInv, GroupSynced
  <2> QED BY <2>5, <2>6, <2>7 DEF PhaseInv
<1> SUFFICES ASSUME ~ Count PROVE PhaseInv'
  BY <1>1
<1>2. pc \notin Idles /\ pc # "done"
  BY DEF InitStep, ResetState, ResetMemory, Address, NewSubDevice, ConfigureDc, AssignGroups,
     ConfigureMailboxes, AssignToPdi, RequestPreOp, PreOpReached, WaitForAll, InitFails, Idles
<1>3. \A g \in Groups : job[g] = NoJob /\ dcconf[g] = NoConf
  BY <1>2 DEF GroupsInv, TransitionInv, PhaseInv, FreshInv
<1>4. NoConf.period = 0
  BY DEF NoConf
<1>5. UNCHANGED <<ring, left, job, dcconf, wake>>
  <2>1. CASE ResetState \/ ResetMemory \/ Address \/ NewSubDevice
    BY <2>1 DEF ResetState, ResetMemory, Address, NewSubDevice, grpVars, histVars
  <2>2. CASE ConfigureDc \/ AssignGroups \/ ConfigureMailboxes \/ AssignToPdi
    BY <2>2 DEF ConfigureDc, AssignGroups, ConfigureMailboxes, AssignToPdi, grpVars, histVars,
       devVars
  <2>3. CASE RequestPreOp \/ PreOpReached \/ WaitForAll \/ InitFails
    BY <2>3 DEF RequestPreOp, PreOpReached, WaitForAll, InitFails, grpVars, histVars, devVars
  <2> QED BY <2>1, <2>2, <2>3 DEF InitStep
<1>6. SyncInv'
  BY <1>3, <1>4, <1>5, NoJobOK DEF SyncInv, GroupSynced
<1>7. /\ clock' \in Nat /\ dcRef' \in Nat /\ sync' \in [Devices -> SyncUnit]
  <2>1. CASE ResetMemory
    <3>1. NoSync \in SyncUnit
      BY DEF NoSync, SyncUnit
    <3>2. /\ clock' = 0 /\ UNCHANGED dcRef
          /\ sync' = [d \in Devices |-> IF OnRing(d) THEN NoSync ELSE sync[d]]
      BY <2>1 DEF ResetMemory
    <3> QED BY <3>1, <3>2 DEF PhaseInv, TimesOK
  <2>2. CASE ConfigureDc
    <3> DEFINE dcs == {k \in DOMAIN known : Station[known[k].id].dc}
    <3>1. /\ UNCHANGED <<clock, sync>>
          /\ dcRef' = IF dcs = {} THEN dcRef
                      ELSE known[CHOOSE k \in dcs : \A j \in dcs : k <= j].addr
      BY <2>2 DEF ConfigureDc, devVars
    <3>2. CASE dcs = {}
      BY <3>1, <3>2 DEF PhaseInv, TimesOK
    <3>3. CASE dcs # {}
      <4>1. dcs \in SUBSET Nat
        BY DEF GroupsInv, MainDeviceOK
      <4>2. \E k \in dcs : \A j \in dcs : k <= j
        <5> HIDE DEF dcs
        <5> QED BY <3>3, <4>1, Least
      <4> DEFINE m == CHOOSE k \in dcs : \A j \in dcs : k <= j
      <4>3. m \in dcs
        <5> HIDE DEF dcs
        <5> QED BY <4>2
      <4>4. m \in DOMAIN known
        BY <4>3
      <4> HIDE DEF m
      <4>5. known[m] \in Entry
        BY <4>4 DEF GroupsInv, MainDeviceOK
      <4>6. known[m].addr \in Nat
        BY <4>5 DEF Entry
      <4>7. dcRef' = known[m].addr
        <5> HIDE DEF dcs
        <5> QED BY <3>1, <3>3 DEF m
      <4> QED BY <3>1, <4>6, <4>7 DEF PhaseInv, TimesOK
    <3> QED BY <3>2, <3>3
  <2>3. CASE ResetState \/ Address \/ NewSubDevice \/ AssignGroups
    BY <2>3 DEF ResetState, Address, NewSubDevice, AssignGroups, devVars, PhaseInv, TimesOK
  <2>4. CASE ConfigureMailboxes \/ AssignToPdi \/ RequestPreOp \/ PreOpReached
    BY <2>4 DEF ConfigureMailboxes, AssignToPdi, RequestPreOp, PreOpReached, PhaseInv, TimesOK
  <2>5. CASE WaitForAll \/ InitFails
    BY <2>5 DEF WaitForAll, InitFails, devVars, PhaseInv, TimesOK
  <2> QED BY <2>1, <2>2, <2>3, <2>4, <2>5 DEF InitStep
<1>8. TimesOK'
  BY <1>5, <1>7 DEF PhaseInv, TimesOK
<1> DEFINE Early == {"reset_state", "reset_memory", "address", "new", "dc", "assign"}
<1>9. \/ AssignGroups
      \/ /\ pc \in Early \ {"assign"} /\ pc' \in Early /\ UNCHANGED <<subs, ty>>
      \/ /\ pc' \notin Early /\ UNCHANGED <<addr, subs>>
         /\ ty' = ty \/ ty' = [g \in Groups |-> "PreOp"]
  <2>1. CASE ResetState \/ ResetMemory \/ Address
    BY <2>1 DEF ResetState, ResetMemory, Address, grpVars
  <2>2. CASE NewSubDevice \/ ConfigureDc
    BY <2>2 DEF NewSubDevice, ConfigureDc, grpVars
  <2>3. CASE ConfigureMailboxes \/ AssignToPdi \/ RequestPreOp
    BY <2>3 DEF ConfigureMailboxes, AssignToPdi, RequestPreOp, grpVars
  <2>4. CASE PreOpReached
    BY <2>4 DEF PreOpReached, grpVars
  <2>5. CASE WaitForAll \/ InitFails
    BY <2>5 DEF WaitForAll, InitFails, grpVars, devVars
  <2> QED BY <2>1, <2>2, <2>3, <2>4, <2>5 DEF InitStep
<1>10. FreshInv' /\ PlaceInv'
  <2>1. CASE AssignGroups
    <3> DEFINE P(g) == {k \in DOMAIN known : GroupOf(k) = g}
    <3>1. /\ pc = "assign" /\ pc' = "mailbox" /\ UNCHANGED <<ty, addr>>
          /\ subs' = [g \in Groups |-> Pick(known, P(g))]
      BY <2>1 DEF AssignGroups, devVars
    <3>2. FreshInv'
      BY <1>3, <1>5, <3>1, NoJobOK DEF FreshInv
    <3> SUFFICES ASSUME ~ left PROVE PlaceInv'
      BY <1>5, <3>2 DEF PlaceInv
    <3>3. /\ num \in 1..Len(ring) /\ \A k \in 1..num : addr[ring[k]] = k
          /\ \A k \in DOMAIN known : k <= num /\ known[k] = [addr |-> k, id |-> ring[k]]
      BY <1>2, <3>1 DEF GroupsInv, ProgressInv, Addressed
    <3>4. /\ known \in Seq(Entry)
          /\ \A i, j \in DOMAIN known : known[i] = known[j] => i = j
      BY DEF GroupsInv, MainDeviceOK, AddressInv
    <3>5. ASSUME NEW g \in Groups, NEW j \in DOMAIN subs'[g]
          PROVE  \E p \in DOMAIN known : subs'[g][j] = known[p]
      <4>1. P(g) \in SUBSET DOMAIN known /\ subs'[g] = Pick(known, P(g))
        BY <3>1
      <4>2. \A i \in DOMAIN Pick(known, P(g)) : \E p \in P(g) : Pick(known, P(g))[i] = known[p]
        <5> HIDE DEF P
        <5> QED BY <3>4, <4>1, PickElements
      <4> QED BY <4>1, <4>2
    <3>6. ASSUME NEW g \in Groups, NEW j \in DOMAIN subs'[g]
          PROVE  addr[subs'[g][j].id] = subs'[g][j].addr /\ OnRing(subs'[g][j].id)
      <4>1. PICK p \in DOMAIN known : subs'[g][j] = known[p]
        BY <3>5
      <4>2. p \in 1..num /\ p \in DOMAIN ring
        BY <3>3, <3>4 DEF GroupsInv, DevicesOK, MainDeviceOK
      <4>3. subs'[g][j].id = ring[p] /\ subs'[g][j].addr = p
        BY <3>3, <4>1
      <4> QED BY <3>3, <4>2, <4>3 DEF OnRing
    <3>7. \A d : OnRing(d)' <=> OnRing(d)
      BY <1>5 DEF OnRing
    <3> QED BY <3>1, <3>2, <3>6, <3>7 DEF PlaceInv
  <2>2. CASE pc \in Early \ {"assign"} /\ pc' \in Early /\ UNCHANGED <<subs, ty>>
    <3>1. \A g \in Groups : subs'[g] = <<>>
      BY <2>2 DEF PhaseInv, FreshInv
    <3>2. FreshInv'
      BY <1>3, <1>5, <3>1, NoJobOK DEF FreshInv
    <3> QED BY <3>1, <3>2 DEF PlaceInv
  <2>3. CASE /\ pc' \notin Early /\ UNCHANGED <<addr, subs>>
             /\ ty' = ty \/ ty' = [g \in Groups |-> "PreOp"]
    <3>1. FreshInv'
      BY <1>3, <1>5, <2>3, NoJobOK DEF FreshInv
    <3>2. PlaceInv'
      BY <1>5, <2>3 DEF PlaceInv, PhaseInv, OnRing
    <3> QED BY <3>1, <3>2
  <2> HIDE DEF Early
  <2> QED BY <1>9, <2>1, <2>2, <2>3
<1> QED BY <1>6, <1>8, <1>10 DEF PhaseInv

\* While no SubDevice leaves the network, the SYNC0 units of a group that is not
\* being configured are active, have its period and pulse at multiples of it.
\* [configure_dc_sync]
THEOREM PhaseInvariant == Spec => []PhaseInv
<1>1. Init => PhaseInv
  <2> SUFFICES ASSUME Init PROVE PhaseInv
    OBVIOUS
  <2>1. NoSync \in SyncUnit /\ NoConf \in Conf
    BY DEF NoSync, SyncUnit, NoConf, Conf
  <2>2. \A g \in Groups : /\ job[g] = NoJob /\ subs[g] = <<>> /\ dcconf[g] = NoConf
                          /\ ty[g] # "lost"
    BY DEF Init
  <2>3. TimesOK
    BY <2>1, <2>2, NoJobOK DEF Init, TimesOK
  <2>4. FreshInv /\ PlaceInv /\ SyncInv
    BY <2>2 DEF Init, FreshInv, PlaceInv, SyncInv
  <2> QED BY <2>3, <2>4 DEF PhaseInv
<1>2. GroupsInv /\ PhaseInv /\ [Next]_vars => PhaseInv'
  <2> SUFFICES ASSUME GroupsInv, PhaseInv, [Next]_vars PROVE PhaseInv'
    OBVIOUS
  <2>1. CASE \E g \in Groups : GroupStep(g)
    BY <2>1, GroupTypes, GroupSync DEF PhaseInv
  <2>2. CASE UNCHANGED vars
    <3>1. UNCHANGED <<ring, addr, clock, dcRef, sync, dcconf, wake, job, ty, subs, pc, left>>
      BY <2>2 DEF vars, devVars, initVars, grpVars, histVars
    <3>2. \A g \in Groups : GroupSynced(g) => GroupSynced(g)'
      BY <3>1, SyncedKept
    <3>3. TimesOK' /\ FreshInv' /\ PlaceInv'
      BY <3>1 DEF PhaseInv, TimesOK, FreshInv, PlaceInv, OnRing
    <3> QED BY <3>1, <3>2, <3>3 DEF PhaseInv, SyncInv
  <2> QED BY <2>1, <2>2, InitPhase, DevicePhase DEF Next
<1> QED BY <1>1, <1>2, GroupsInvariant, PTL DEF Spec

\* The wait of a cycle is set by tx_rx_dc alone.
LEMMA WakeStep ==
  ASSUME GroupsInv, PhaseInv, Next, NEW g \in Groups, wake'[g] \notin {-1, wake[g]}
  PROVE  TxRxDc(g)
<1>1. ~ InitStep
  <2>1. ~ Count
    <3> SUFFICES ASSUME Count PROVE FALSE
      OBVIOUS
    <3>1. wake' = [h \in Groups |-> -1]
      BY DEF Count, Fresh
    <3> QED BY <3>1
  <2>2. ~(ResetState \/ ResetMemory \/ Address \/ NewSubDevice \/ ConfigureDc)
    BY DEF ResetState, ResetMemory, Address, NewSubDevice, ConfigureDc, grpVars
  <2>3. ~(AssignGroups \/ ConfigureMailboxes \/ AssignToPdi \/ RequestPreOp)
    BY DEF AssignGroups, ConfigureMailboxes, AssignToPdi, RequestPreOp, grpVars
  <2>4. ~(PreOpReached \/ WaitForAll \/ InitFails)
    BY DEF PreOpReached, WaitForAll, InitFails, grpVars
  <2> QED BY <2>1, <2>2, <2>3, <2>4 DEF InitStep
<1>2. ~((\E d \in Devices : DeviceStep(d)) \/ Unplug)
  BY DEF DeviceStep, DevAnswers, DevFalls, Plug, Unplug, grpVars
<1>3. PICK h \in Groups : GroupStep(h)
  BY <1>1, <1>2 DEF Next
<1>4. /\ \A e \in Groups \ {h} : wake'[e] = wake[e]
      /\ \/ Clockless(h) \/ GroupFails(h) \/ ConfigureDcSync(h) \/ DcProgram(h)
         \/ DcActivate(h) \/ DcDone(h) \/ TxRxDc(h)
  BY <1>3, GroupTimes DEF PhaseInv
<1>5. h = g
  BY <1>4
<1>6. ~ Clockless(g) /\ ~ GroupFails(g)
  BY DEF Clockless, GroupFails
<1>7. ~ ConfigureDcSync(g) /\ ~ DcProgram(g) /\ ~ DcActivate(g) /\ ~ DcDone(g)
  BY DcJobs DEF PhaseInv
<1> QED BY <1>4, <1>5, <1>6, <1>7

\* The wait of a cycle, seen from SYNC0 and from the cycle before.
LEMMA CycleStep ==
  ASSUME GroupsInv, PhaseInv, Next, NEW g \in Groups, wake'[g] \notin {-1, wake[g]},
         At(dcconf[g].ref) # {}, dcconf[g].shift < dcconf[g].period, ~ left
  PROVE  LET c == dcconf[g] IN
         /\ \A k \in DOMAIN subs[g] : Station[subs[g][k].id].dc =>
              LET s == sync[subs[g][k].id] IN
              s.active /\ s.period = c.period /\ (wake'[g] - s.start) % c.period = c.shift
         /\ wake[g] # -1 /\ wake[g] % c.period = c.shift
              /\ clock' - wake[g] + c.shift < c.period => wake'[g] = wake[g] + c.period
<1> DEFINE c == dcconf[g]
           w == clock' + NextCycleWait(clock', c)
<1>1. /\ pc = "done" /\ job[g].op = "none" /\ ty[g] # "lost" /\ c.period > 0
      /\ clock' \in IF wake[g] < clock THEN clock..(clock + MaxLate)
                    ELSE wake[g]..(wake[g] + MaxLate)
      /\ wake' = [wake EXCEPT ![g] = w]
  BY WakeStep DEF TxRxDc, Idle, Busy
<1>2. /\ clock \in Nat /\ wake \in [Groups -> Int] /\ c \in Conf
      /\ sync \in [Devices -> SyncUnit]
  BY DEF PhaseInv, TimesOK
<1>3. clock' \in Nat /\ wake[g] <= clock'
  BY <1>1, <1>2, SizesAssumption
<1>4. wake'[g] = w
  BY <1>1, <1>2
<1>5. /\ \A s \in Nat : s % c.period = 0 => (w - s) % c.period = c.shift
      /\ \A v \in Int : v % c.period = c.shift /\ v <= clock' /\ clock' - v + c.shift < c.period
                         => w = v + c.period
  BY <1>2, <1>3, NextCycle
<1> HIDE DEF w
<1>6. \A k \in DOMAIN subs[g] : Synced(subs[g][k].id, c)
  BY <1>1 DEF PhaseInv, SyncInv, GroupSynced
<1>7. ASSUME NEW k \in DOMAIN subs[g], Station[subs[g][k].id].dc
      PROVE  LET s == sync[subs[g][k].id] IN
             s.active /\ s.period = c.period /\ (wake'[g] - s.start) % c.period = c.shift
  <2> DEFINE s == sync[subs[g][k].id]
  <2>1. s.active /\ s.period = c.period /\ s.start % c.period = 0
    BY <1>6, <1>7 DEF Synced, Programmed
  <2>2. s.start \in Nat
    <3>1. s \in SyncUnit
      BY <1>2, Member
    <3> QED BY <3>1 DEF SyncUnit
  <2> HIDE DEF s, c
  <2>3. (w - s.start) % c.period = c.shift
    BY <1>5, <2>1, <2>2
  <2> QED BY <1>4, <2>1, <2>3 DEF s
<1>8. wake[g] \in Int
  BY <1>2
<1> HIDE DEF c
<1>9. /\ wake[g] % c.period = c.shift
      /\ clock' - wake[g] + c.shift < c.period
      => wake'[g] = wake[g] + c.period
  BY <1>3, <1>4, <1>5, <1>8
<1> QED BY <1>7, <1>9 DEF c

\* A SYNC0 unit that is activated in time has its first pulse ahead.
LEMMA ActivateStep ==
  ASSUME GroupsInv, PhaseInv, Next, NEW g \in Groups, pc = "done", job[g].op = "dc",
         job[g].i = 1, job'[g].op = "dc", job'[g].i = 0,
         clock + job[g].conf.period <= job[g].time + job[g].conf.delay, ~ left
  PROVE  sync'[subs[g][job[g].k].id].start > clock
<1>1. ~ InitStep
  <2>1. ~ Count
    <3> SUFFICES ASSUME Count PROVE FALSE
      OBVIOUS
    <3>1. job'[g] = NoJob
      BY DEF Count, Fresh
    <3> QED BY <3>1, NoJobOK
  <2> QED BY <2>1 DEF InitStep, ResetState, ResetMemory, Address, NewSubDevice, ConfigureDc,
       AssignGroups, ConfigureMailboxes, AssignToPdi, RequestPreOp, PreOpReached, WaitForAll,
       InitFails
<1>2. ~((\E d \in Devices : DeviceStep(d)) \/ Unplug)
  <2>1. (\E d \in Devices : DeviceStep(d)) \/ Unplug => job' = job
    BY DEF DeviceStep, DevAnswers, DevFalls, Plug, Unplug, grpVars
  <2> QED BY <2>1
<1>3. PICK h \in Groups : GroupStep(h)
  BY <1>1, <1>2 DEF Next
<1>4. /\ \A e \in Groups \ {h} : job'[e] = job[e]
      /\ \/ Clockless(h) \/ GroupFails(h) \/ ConfigureDcSync(h) \/ DcProgram(h)
         \/ DcActivate(h) \/ DcDone(h) \/ TxRxDc(h)
  BY <1>3, GroupTimes DEF PhaseInv
<1>5. h = g
  BY <1>4
<1>6. DcActivate(g)
  <2>1. ~ Clockless(g) /\ ~ TxRxDc(g)
    BY DEF Clockless, TxRxDc, Idle, Busy
  <2>2. ~ GroupFails(g)
    <3> SUFFICES ASSUME GroupFails(g) PROVE FALSE
      OBVIOUS
    <3>1. job'[g] = NoJob
      BY DEF GroupFails, GroupsInv, GroupsOK
    <3> QED BY <3>1, NoJobOK
  <2>3. /\ ConfigureDcSync(g) => job[g].op = "none"
        /\ DcProgram(g) => job[g].i = 0
        /\ DcDone(g) => job'[g] = NoJob
    BY DcJobs DEF PhaseInv
  <2>4. ~ ConfigureDcSync(g) /\ ~ DcProgram(g) /\ ~ DcDone(g)
    BY <2>3, NoJobOK
  <2> QED BY <1>4, <1>5, <2>1, <2>2, <2>4
<1> DEFINE d == subs[g][job[g].k].id
<1>7. /\ job[g].k \in DOMAIN subs[g]
      /\ sync' = [e \in Devices |-> IF Takes(e, Sub(g).addr)
                      THEN [sync[e] EXCEPT !.active = TRUE] ELSE sync[e]]
  BY <1>6, DcJobs DEF PhaseInv
<1>8. /\ Programmed(d, job[g].conf)
      /\ sync[d].start = StartTime(job[g].time, job[g].conf)
  BY <1>7 DEF PhaseInv, SyncInv, GroupSynced
<1>9. d \in Devices /\ sync \in [Devices -> SyncUnit]
  BY <1>7, Member DEF PhaseInv, TimesOK
<1> HIDE DEF d
<1>10. sync'[d].start = sync[d].start
  BY <1>7, <1>9 DEF SyncUnit
<1>11. /\ clock \in Nat /\ job[g].time \in Nat /\ job[g].conf \in Conf
  BY DEF PhaseInv, TimesOK
<1>12. job[g].conf.period > 0
  BY <1>8 DEF Programmed
<1>13. /\ StartTime(job[g].time, job[g].conf) \in Nat
       /\ StartTime(job[g].time, job[g].conf) + job[g].conf.period
            > job[g].time + job[g].conf.delay
  BY <1>11, <1>12, StartTimeFacts
<1>14. job[g].conf.period \in Nat /\ job[g].conf.delay \in Nat
  BY <1>11 DEF Conf
<1>15. StartTime(job[g].time, job[g].conf) > clock
  BY <1>11, <1>13, <1>14
<1> QED BY <1>8, <1>10, <1>15 DEF d

\* Cycles keep step with SYNC0 for every network, period, shift and delay, however
\* late the calls are and however often the clocks are configured anew: the wait
\* that tx_rx_dc returns ends sync0_shift after a pulse of every SubDevice of the
\* group and one period after the wait before it.  [configure_dc_sync, tx_rx_dc]
THEOREM CyclesKeepPhase == Spec => SyncPhase
<1> DEFINE A == \A g \in Groups :
       LET c == dcconf[g] j == job[g] IN
       /\ wake'[g] \notin {-1, wake[g]} /\ At(c.ref) # {} /\ c.shift < c.period /\ ~ left =>
            /\ \A k \in DOMAIN subs[g] : Station[subs[g][k].id].dc =>
                 LET s == sync[subs[g][k].id] IN
                 s.active /\ s.period = c.period
                   /\ (wake'[g] - s.start) % c.period = c.shift
            /\ wake[g] # -1 /\ wake[g] % c.period = c.shift
                 /\ clock' - wake[g] + c.shift < c.period => wake'[g] = wake[g] + c.period
       /\ pc = "done" /\ j.op = "dc" /\ j.i = 1 /\ job'[g].op = "dc" /\ job'[g].i = 0
            /\ clock + j.conf.period <= j.time + j.conf.delay /\ ~ left =>
              sync'[subs[g][j.k].id].start > clock
<1>1. ASSUME GroupsInv, PhaseInv, [Next]_vars
      PROVE  [A]_vars
  <2>1. CASE Next
    BY <1>1, <2>1, CycleStep, ActivateStep
  <2>2. CASE UNCHANGED vars
    BY <2>2
  <2> QED BY <1>1, <2>1, <2>2
<1>2. Spec => [][A]_vars
  <2> HIDE DEF A
  <2> QED BY <1>1, GroupsInvariant, PhaseInvariant, PTL DEF Spec
<1> QED BY <1>2 DEF SyncPhase

-----------------------------------------------------------------------------
\* The layout of the process data.

\* The bytes a sync manager needs.
SmLen(d, i) == (PdoBits[d][i] + 7) \div 8

\* A sum of numbers is a number.
LEMMA SumNat ==
  ASSUME NEW s \in Seq(Nat)
  PROVE  Sum(s) \in Nat
<1> DEFINE N == Len(s)
           B(f, k) == IF k = 0 THEN 0 ELSE f[k-1] + s[k]
           c == CHOOSE h : h = [k \in 0..N |-> B(h, k)]
<1>1. N \in Nat /\ \A k \in 1..N : s[k] \in Nat
  OBVIOUS
<1>2. s \in [1..N -> Nat]
  OBVIOUS
<1>3. PICK f \in [0..N -> Nat] : f[0] = 0 /\ \A k \in 1..N : f[k] = f[k-1] + s[k]
  <2> HIDE DEF N
  <2> QED BY <1>1, <1>2, Prefixes
<1>4. ASSUME NEW k \in 0..N PROVE f[k] = B(f, k)
  <2>1. CASE k = 0
    BY <1>3, <2>1
  <2>2. CASE k # 0
    <3>1. k \in 1..N
      BY <1>1, <2>2
    <3> QED BY <1>3, <2>2, <3>1
  <2> QED BY <2>1, <2>2
<1>5. f = [k \in 0..N |-> B(f, k)]
  BY <1>4
<1>6. c = [k \in 0..N |-> B(c, k)]
  BY <1>5
<1>7. Sum(s) = c[N]
  BY DEF Sum
<1> HIDE DEF c
<1>8. c[0] = 0 /\ \A k \in 1..N : c[k] = c[k-1] + s[k]
  <2>1. \A k \in 0..N : c[k] = B(c, k)
    BY <1>6
  <2>2. 0 \in 0..N /\ \A k \in 1..N : k \in 0..N /\ k # 0
    BY <1>1
  <2> HIDE DEF N
  <2> QED BY <2>1, <2>2
<1> DEFINE T == {k \in 0..N : c[k] \notin Nat}
<1> SUFFICES ASSUME T # {} PROVE FALSE
  <2>1. N \in 0..N
    BY <1>1
  <2>2. T = {}
    OBVIOUS
  <2> QED BY <1>7, <2>1, <2>2
<1>9. PICK m \in T : \A x \in T : m <= x
  <2>1. T \in SUBSET Nat
    BY <1>1
  <2> HIDE DEF T
  <2> QED BY <2>1, Least
<1>10. m \in 0..N /\ c[m] \notin Nat
  OBVIOUS
<1>11. m \in 1..N /\ m - 1 \in 0..N /\ ~(m <= m - 1)
  BY <1>1, <1>8, <1>10
<1>12. m - 1 \notin T
  <2> HIDE DEF T
  <2> QED BY <1>9, <1>11
<1>13. c[m-1] \in Nat /\ s[m] \in Nat
  BY <1>1, <1>11, <1>12
<1> QED BY <1>8, <1>10, <1>11, <1>13

\* Sync managers have a length.
LEMMA SmLenNat ==
  ASSUME NEW d \in Devices, NEW i \in DOMAIN Sms(d)
  PROVE  SmLen(d, i) \in Nat /\ Sms(d)[i].phys \in Nat /\ PdoBits[d][i] \in Nat
<1> DEFINE pdos == Sms(d)[i].pdos
           bits == [p \in DOMAIN pdos |-> Sum(pdos[p].entries) * pdos[p].over]
           Pdo == [entries : Seq(Nat), over : Nat]
           SM == [type : {"mailbox", "in", "out"}, phys : Nat, enable : BOOLEAN, size : Nat,
                  pdos : Seq(Pdo)]
<1>1. Sms(d)[i] \in SM
  <2>1. Sms(d) \in Seq(SM)
    BY StationAssumption DEF Sms
  <2> HIDE DEF SM
  <2> QED BY <2>1
<1>2. pdos \in Seq(Pdo) /\ Sms(d)[i].phys \in Nat
  <2> HIDE DEF Pdo
  <2> QED BY <1>1
<1> HIDE DEF pdos
<1>3. ASSUME NEW p \in DOMAIN pdos PROVE Sum(pdos[p].entries) * pdos[p].over \in Nat
  <2>1. pdos[p] \in Pdo
    <3> HIDE DEF Pdo
    <3> QED BY <1>2
  <2>3. pdos[p].entries \in Seq(Nat) /\ pdos[p].over \in Nat
    BY <2>1
  <2>2. Sum(pdos[p].entries) \in Nat
    BY <2>3, SumNat
  <2> QED BY <2>2, <2>3
<1>4. bits \in Seq(Nat)
  <2>1. Len(pdos) \in Nat /\ DOMAIN pdos = 1..Len(pdos)
    <3> HIDE DEF Pdo
    <3> QED BY <1>2
  <2>2. bits \in [1..Len(pdos) -> Nat]
    BY <1>3, <2>1
  <2> HIDE DEF bits
  <2> QED BY <2>1, <2>2
<1>5. Sum(bits) \in Nat
  BY <1>4, SumNat
<1>6. PdoBits[d][i] = Sum(bits)
  BY DEF PdoBits, pdos
<1> HIDE DEF bits
<1> QED BY <1>2, <1>5, <1>6 DEF SmLen

\* What fits a u16 is not cut.
LEMMA Uncut ==
  ASSUME NEW n \in Nat, n < Wrap
  PROVE  n % Wrap = n
BY SizesAssumption

\* A sync manager that can be laid out gets the length it needs.
LEMMA SmFits ==
  ASSUME LayoutPossible, NEW d \in Devices, NEW i \in DOMAIN Sms(d)
  PROVE  BytesOf(SmBits(d, i)) = SmLen(d, i) /\ (SmBits(d, i) > 0 <=> SmLen(d, i) > 0)
<1> DEFINE n == PdoBits[d][i]
<1>1. n \in Nat /\ n + 7 < Wrap /\ Wrap \in Nat
  BY SmLenNat, SizesAssumption DEF LayoutPossible
<1> HIDE DEF n
<1>2. n % Wrap = n /\ (n + 7) % Wrap = n + 7
  BY <1>1, Uncut
<1>3. n > 0 <=> (n + 7) \div 8 > 0
  BY <1>1
<1> QED BY <1>2, <1>3 DEF BytesOf, SmBits, SmLen, n

\* What SmBytes adds up.
LEMMA SmBytesFacts ==
  ASSUME NEW d \in Devices, NEW dir \in {"in", "out"}
  PROVE  LET b == SmBytes[d][dir] N == Len(Sms(d)) IN
         /\ N \in Nat /\ DOMAIN Sms(d) = 1..N /\ b \in [0..N -> Nat] /\ b[0] = 0
         /\ \A i \in 1..N : b[i] = b[i-1] + IF i \in SmIndices(d, dir) THEN SmLen(d, i) ELSE 0
<1> DEFINE N == Len(Sms(d))
           W(i) == IF Sms(d)[i].type = dir THEN (PdoBits[d][i] + 7) \div 8 ELSE 0
           w == [k \in 1..N |-> W(k)]
           B(f, k) == IF k = 0 THEN 0 ELSE f[k-1] + W(k)
           c == CHOOSE h : h = [k \in 0..N |-> B(h, k)]
<1>1. N \in Nat /\ DOMAIN Sms(d) = 1..N
  BY StationAssumption DEF Sms
<1>2. \A k \in 1..N : W(k) \in Nat
  BY <1>1, SmLenNat DEF SmLen
<1>3. SmBytes[d][dir] = c
  BY DEF SmBytes
<1>4. \A k \in 1..N : W(k) = IF k \in SmIndices(d, dir) THEN SmLen(d, k) ELSE 0
  BY <1>1 DEF SmIndices, SmLen
<1> HIDE DEF N, W
<1>5. w \in [1..N -> Nat] /\ \A k \in 1..N : w[k] = W(k)
  BY <1>2
<1>6. PICK f \in [0..N -> Nat] : f[0] = 0 /\ \A k \in 1..N : f[k] = f[k-1] + W(k)
  <2> HIDE DEF w
  <2>1. PICK f \in [0..N -> Nat] : f[0] = 0 /\ \A k \in 1..N : f[k] = f[k-1] + w[k]
    BY <1>1, <1>5, Prefixes
  <2> QED BY <1>5, <2>1
<1>7. ASSUME NEW k \in 0..N PROVE f[k] = B(f, k)
  <2>1. CASE k = 0
    BY <1>6, <2>1
  <2>2. CASE k # 0
    <3>1. k \in 1..N
      BY <1>1, <2>2
    <3> QED BY <1>6, <2>2, <3>1
  <2> QED BY <2>1, <2>2
<1>8. f = [k \in 0..N |-> B(f, k)]
  BY <1>7
<1>9. c = [k \in 0..N |-> B(c, k)]
  BY <1>8
<1> HIDE DEF c
<1>10. c[0] = 0 /\ \A k \in 1..N : c[k] = c[k-1] + W(k)
  BY <1>1, <1>9
<1> DEFINE T == {k \in 0..N : c[k] \notin Nat}
<1>11. T = {}
  <2> SUFFICES ASSUME T # {} PROVE FALSE
    OBVIOUS
  <2>9. PICK m \in T : \A x \in T : m <= x
    <3>1. T \in SUBSET Nat
      BY <1>1
    <3> HIDE DEF T
    <3> QED BY <3>1, Least
  <2>10. m \in 0..N /\ c[m] \notin Nat
    OBVIOUS
  <2>11. m \in 1..N /\ m - 1 \in 0..N /\ ~(m <= m - 1)
    BY <1>1, <1>10, <2>10
  <2>12. m - 1 \notin T
    <3> HIDE DEF T
    <3> QED BY <2>9, <2>11
  <2>13. c[m-1] \in Nat /\ W(m) \in Nat
    BY <1>2, <2>11, <2>12
  <2> QED BY <1>10, <2>10, <2>11, <2>13
<1>12. c \in [0..N -> Nat]
  BY <1>9, <1>11
<1> QED BY <1>1, <1>3, <1>4, <1>10, <1>12 DEF N
Dirs == {"in", "out"}

\* The FMMUs of a SubDevice that are for a direction.
Mine(d, dir) ==
  IF ~ HasCoe(d) THEN SmIndices(d, dir)
  ELSE IF UsesOf(d, dir) = {} THEN {} ELSE {FmmuIndex(d, 1, dir)}

\* An FMMU that maps memory at phys to the logical address s.
Window(s, len, phys, dir) ==
  [enable |-> TRUE, start |-> s, len |-> len, phys |-> phys, dir |-> dir]

\* FMMU n when the sync managers of a direction up to the q-th have been mapped
\* from the logical address s on: one for all of them, or one for each.
FmmuAt(d, F, dir, s, q, n) ==
  LET b == SmBytes[d][dir] IN
  IF ~ HasCoe(d)
  THEN F[n] = IF n <= q THEN Window(s + b[n-1], SmLen(d, n), Sms(d)[n].phys, dir) ELSE NoFmmu
  ELSE IF b[q] = 0 THEN F[n] = NoFmmu
  ELSE /\ F[n] = Window(s, b[q], F[n].phys, dir)
       /\ \A i \in SmIndices(d, dir) :
            i <= q /\ b[i-1] = 0 /\ SmLen(d, i) > 0 => F[n].phys = Sms(d)[i].phys

\* The registers F and S of a SubDevice's FMMUs and sync managers at that time.
Placed(d, F, S, dir, s, q) ==
  /\ \A n \in Mine(d, dir) : FmmuAt(d, F, dir, s, q, n)
  /\ Mine(d, dir) = {} => SmBytes[d][dir][q] = 0
  /\ \A i \in SmIndices(d, dir) : i <= q => S[i] = SmConfig(d, i, SmLen(d, i))
Unused(d, F) ==
  \A n \in Fmmus(d) \ (Mine(d, "in") \cup Mine(d, "out")) : F[n] = NoFmmu

\* They are registers of the SubDevice, and are written when its i-th sync
\* manager is mapped to the logical address pos.
AreRegisters(d, F, S) == F = [n \in Fmmus(d) |-> F[n]] /\ S = [k \in DOMAIN Sms(d) |-> S[k]]
MapsSm(d, F, S, F2, S2, dir, pos, i) ==
  LET len == SmLen(d, i) mapped == ~ HasCoe(d) \/ len > 0 IN
  /\ i \in SmIndices(d, dir) /\ S2 = [S EXCEPT ![i] = SmConfig(d, i, len)]
  /\ mapped /\ HasCoe(d) => UsesOf(d, dir) # {}
  /\ F2 = IF mapped THEN [F EXCEPT ![FmmuIndex(d, i, dir)] =
                             WriteFmmu(@, pos, len, Sms(d)[i].phys, dir)] ELSE F

\* Each direction has FMMUs of its own.
LEMMA MineFacts ==
  ASSUME NEW d \in Devices
  PROVE  /\ Mine(d, "in") \cap Mine(d, "out") = {}
         /\ \A dir \in Dirs :
              /\ Mine(d, dir) \subseteq Fmmus(d)
              /\ \A i \in SmIndices(d, dir) : (HasCoe(d) => UsesOf(d, dir) # {}) =>
                   /\ FmmuIndex(d, i, dir) \in Mine(d, dir)
                   /\ ~ HasCoe(d) => FmmuIndex(d, i, dir) = i
                   /\ HasCoe(d) => Mine(d, dir) = {FmmuIndex(d, i, dir)}
<1> DEFINE N == Len(Sms(d))
           M == Len(Station[d].fmmus)
           use(dir) == CHOOSE f \in UsesOf(d, dir) : \A h \in UsesOf(d, dir) : f <= h
<1>1. /\ N \in Nat /\ DOMAIN Sms(d) = 1..N /\ M \in Nat /\ DOMAIN Station[d].fmmus = 1..M
  BY StationAssumption DEF Sms
<1>2. ASSUME NEW dir \in Dirs, UsesOf(d, dir) # {}
      PROVE  use(dir) \in UsesOf(d, dir)
  <2>1. UsesOf(d, dir) \in SUBSET Nat
    BY <1>1 DEF UsesOf
  <2>2. \E f \in UsesOf(d, dir) : \A h \in UsesOf(d, dir) : f <= h
    BY <1>2, <2>1, Least
  <2> QED BY <2>2
<1>3. \A i, dir : FmmuIndex(d, i, dir) = IF HasCoe(d) THEN use(dir) ELSE i
  BY DEF FmmuIndex
<1> HIDE DEF use
<1>4. \A dir \in Dirs : Mine(d, dir) \subseteq Fmmus(d)
  <2> TAKE dir \in Dirs
  <2>1. CASE ~ HasCoe(d)
    BY <1>1, <2>1 DEF Mine, SmIndices, Fmmus
  <2>2. CASE HasCoe(d) /\ UsesOf(d, dir) # {}
    <3>1. use(dir) \in UsesOf(d, dir)
      BY <1>2, <2>2
    <3>2. use(dir) \in 1..M
      BY <1>1, <3>1 DEF UsesOf
    <3>3. use(dir) \in Fmmus(d)
      BY <1>1, <3>2 DEF Fmmus
    <3>4. Mine(d, dir) = {use(dir)}
      BY <1>3, <2>2 DEF Mine
    <3> QED BY <3>3, <3>4
  <2>3. CASE HasCoe(d) /\ UsesOf(d, dir) = {}
    BY <2>3 DEF Mine
  <2> QED BY <2>1, <2>2, <2>3
<1>5. Mine(d, "in") \cap Mine(d, "out") = {}
  <2>1. CASE ~ HasCoe(d)
    BY <2>1 DEF Mine, SmIndices
  <2>2. CASE HasCoe(d)
    <3> SUFFICES ASSUME NEW x \in Mine(d, "in"), x \in Mine(d, "out") PROVE FALSE
      OBVIOUS
    <3>1. UsesOf(d, "in") # {} /\ UsesOf(d, "out") # {} /\ x = use("in") /\ x = use("out")
      BY <1>3, <2>2 DEF Mine
    <3>2. x \in UsesOf(d, "in") /\ x \in UsesOf(d, "out")
      BY <1>2, <3>1 DEF Dirs
    <3> QED BY <3>2 DEF UsesOf
  <2> QED BY <2>1, <2>2
<1>6. ASSUME NEW dir \in Dirs, NEW i \in SmIndices(d, dir), HasCoe(d) => UsesOf(d, dir) # {}
      PROVE  /\ FmmuIndex(d, i, dir) \in Mine(d, dir)
             /\ ~ HasCoe(d) => FmmuIndex(d, i, dir) = i
             /\ HasCoe(d) => Mine(d, dir) = {FmmuIndex(d, i, dir)}
  BY <1>3, <1>6 DEF Mine
<1> QED BY <1>4, <1>5, <1>6

\* Sync managers of the other types take no space.
LEMMA SmBytesBetween ==
  ASSUME NEW d \in Devices, NEW dir \in Dirs
  PROVE  LET b == SmBytes[d][dir] N == Len(Sms(d)) IN
         /\ \A x \in 0..N : \A y \in x..N : b[x] <= b[y]
         /\ \A x \in 0..N : \A y \in x..N :
              (\A i \in SmIndices(d, dir) : i <= x \/ y < i) => b[x] = b[y]
         /\ \A i \in SmIndices(d, dir) : /\ i \in 1..N /\ SmLen(d, i) \in Nat
                                         /\ b[i] = b[i-1] + SmLen(d, i)
<1> DEFINE b == SmBytes[d][dir]
           N == Len(Sms(d))
<1>1. /\ N \in Nat /\ DOMAIN Sms(d) = 1..N /\ b \in [0..N -> Nat]
      /\ \A i \in 1..N : b[i] = b[i-1] + IF i \in SmIndices(d, dir) THEN SmLen(d, i) ELSE 0
  BY SmBytesFacts DEF Dirs
<1>2. \A i \in SmIndices(d, dir) : i \in 1..N /\ SmLen(d, i) \in Nat
  BY <1>1, SmLenNat DEF SmIndices
<1> HIDE DEF b, N
<1>3. ASSUME NEW k \in 1..N PROVE b[k-1] <= b[k] /\ (k \notin SmIndices(d, dir) => b[k] = b[k-1])
  <2>1. k - 1 \in 0..N
    BY <1>1
  <2>2. b[k-1] \in Nat
    BY <1>1, <2>1
  <2> QED BY <1>1, <1>2, <2>2
<1>4. ASSUME NEW x \in 0..N, NEW y \in x..N PROVE b[x] <= b[y]
  <2>1. \A k \in (x + 1)..y : b[k-1] <= b[k]
    BY <1>1, <1>3
  <2> QED BY <1>1, <2>1, Rising
<1>5. ASSUME NEW x \in 0..N, NEW y \in x..N, \A i \in SmIndices(d, dir) : i <= x \/ y < i
      PROVE  b[x] = b[y]
  <2>1. ASSUME NEW k \in (x + 1)..y PROVE b[k] = b[k-1]
    <3>1. k \in 1..N /\ ~(k <= x) /\ ~(y < k)
      BY <1>1
    <3> QED BY <1>3, <1>5, <3>1
  <2> QED BY <1>1, <2>1, Level
<1>6. \A i \in SmIndices(d, dir) : b[i] = b[i-1] + SmLen(d, i)
  BY <1>1, <1>2
<1> QED BY <1>2, <1>4, <1>5, <1>6 DEF b, N

\* What write_fmmu_config leaves.
LEMMA WriteFacts ==
  ASSUME NEW s, NEW len, NEW phys, NEW dir
  PROVE  /\ WriteFmmu(NoFmmu, s, len, phys, dir) = Window(s, len, phys, dir)
         /\ \A pos, at, way : \A more \in Nat : len \in Nat /\ len + more < Wrap =>
              WriteFmmu(Window(s, len, phys, dir), pos, more, at, way)
                = Window(s, len + more, phys, dir)
         /\ Window(s, len, phys, dir).enable
         /\ Window(s, len, phys, dir).start = s
         /\ Window(s, len, phys, dir).len = len
         /\ Window(s, len, phys, dir).phys = phys
         /\ Window(s, len, phys, dir).dir = dir
<1>1. WriteFmmu(NoFmmu, s, len, phys, dir) = Window(s, len, phys, dir)
  BY DEF WriteFmmu, NoFmmu, Window
<1>2. /\ Window(s, len, phys, dir).enable
      /\ Window(s, len, phys, dir).start = s
      /\ Window(s, len, phys, dir).len = len
      /\ Window(s, len, phys, dir).phys = phys
      /\ Window(s, len, phys, dir).dir = dir
  BY DEF Window
<1>3. ASSUME NEW pos, NEW at, NEW way, NEW more \in Nat, len \in Nat, len + more < Wrap
      PROVE  WriteFmmu(Window(s, len, phys, dir), pos, more, at, way)
               = Window(s, len + more, phys, dir)
  <2>1. WriteFmmu(Window(s, len, phys, dir), pos, more, at, way)
          = [Window(s, len, phys, dir) EXCEPT !.len = (len + more) % Wrap]
    BY <1>2 DEF WriteFmmu
  <2>2. (len + more) % Wrap = len + more
    BY <1>3, Uncut
  <2> QED BY <2>1, <2>2 DEF Window
<1> QED BY <1>1, <1>2, <1>3

\* The next sync manager is mapped behind the ones before it.
LEMMA PlaceNext ==
  ASSUME LayoutPossible, NEW d \in Devices, NEW dir \in Dirs, NEW s \in Nat, NEW q \in 0..Len(Sms(d)),
         NEW i, q < i, \A h \in SmIndices(d, dir) : h <= q \/ i <= h,
         NEW F, NEW S, NEW F2, NEW S2, AreRegisters(d, F, S),
         Placed(d, F, S, dir, s, q), Unused(d, F),
         MapsSm(d, F, S, F2, S2, dir, s + SmBytes[d][dir][q], i)
  PROVE  /\ Placed(d, F2, S2, dir, s, i) /\ Unused(d, F2)
         /\ \A o \in Dirs \ {dir} : \A t, p : Placed(d, F, S, o, t, p) => Placed(d, F2, S2, o, t, p)
         /\ SmBytes[d][dir][i] = SmBytes[d][dir][q] + SmLen(d, i)
         /\ SmLen(d, i) \in Nat /\ i \in 1..Len(Sms(d))
<1> USE DEF AreRegisters
<1>0. /\ i \in SmIndices(d, dir) /\ S2 = [S EXCEPT ![i] = SmConfig(d, i, SmLen(d, i))]
      /\ (~ HasCoe(d) \/ SmLen(d, i) > 0) /\ HasCoe(d) => UsesOf(d, dir) # {}
      /\ F2 = IF ~ HasCoe(d) \/ SmLen(d, i) > 0
              THEN [F EXCEPT ![FmmuIndex(d, i, dir)] =
                      WriteFmmu(@, s + SmBytes[d][dir][q], SmLen(d, i), Sms(d)[i].phys, dir)]
              ELSE F
  BY DEF MapsSm
<1> USE <1>0
<1> DEFINE b == SmBytes[d][dir]
           N == Len(Sms(d))
           len == SmLen(d, i)
           n == FmmuIndex(d, i, dir)
           P == Sms(d)[i].phys
           mapped == ~ HasCoe(d) \/ len > 0
           I == SmIndices(d, dir)
<1>1. /\ N \in Nat /\ DOMAIN Sms(d) = 1..N /\ b \in [0..N -> Nat] /\ b[0] = 0
  BY SmBytesFacts DEF Dirs
<1>2. /\ i \in 1..N /\ len \in Nat /\ b[i] = b[i-1] + len
      /\ \A h \in I : h \in 1..N /\ SmLen(d, h) \in Nat /\ b[h] = b[h-1] + SmLen(d, h)
  BY SmBytesBetween
<1>3. q \in 0..N /\ i - 1 \in q..N
  BY <1>1, <1>2
<1>4. b[q] = b[i-1] /\ b[q] \in Nat
  <2>1. \A h \in I : h <= q \/ i - 1 < h
    <3> TAKE h \in I
    <3>1. i \in Nat /\ h \in Nat /\ q \in Nat /\ (h <= q \/ i <= h)
      BY <1>1, <1>2
    <3> QED BY <3>1
  <2>2. \A x \in 0..N : \A y \in x..N : (\A h \in I : h <= x \/ y < h) => b[x] = b[y]
    BY SmBytesBetween
  <2> HIDE DEF I, N, b
  <2> QED BY <1>1, <1>3, <2>1, <2>2
<1>5. ASSUME NEW h \in I, h <= q PROVE b[h] <= b[q]
  <2>1. h \in 0..N /\ q \in h..N
    BY <1>2, <1>3, <1>5
  <2> QED BY <2>1, SmBytesBetween
<1>6. \A h \in I : h <= i <=> h <= q \/ h = i
  BY <1>2
<1>7. \A h \in I : h <= q => h # i
  BY <1>2
<1>8. i \in DOMAIN S /\ S2[i] = SmConfig(d, i, len) /\ \A h \in DOMAIN Sms(d) : h # i => S2[h] = S[h]
  <2>1. i \in DOMAIN Sms(d)
    BY <1>1, <1>2
  <2>2. DOMAIN S = DOMAIN Sms(d)
    OBVIOUS
  <2> QED BY <2>1, <2>2
<1>10. \A h \in I : h <= i => S2[h] = SmConfig(d, h, SmLen(d, h))
  <2> TAKE h \in I
  <2> HAVE h <= i
  <2>1. h \in DOMAIN Sms(d)
    BY <1>1, <1>2
  <2>2. CASE h = i
    BY <1>8, <2>2
  <2>3. CASE h # i
    BY <1>6, <1>8, <2>1, <2>3 DEF Placed
  <2> QED BY <2>2, <2>3
<1>17. DOMAIN F = Fmmus(d)
  OBVIOUS
<1>11. /\ F2 = [k \in Fmmus(d) |-> F2[k]]
       /\ \A k \in Fmmus(d) : k \notin Mine(d, dir) => F2[k] = F[k]
       /\ mapped => n \in Mine(d, dir) /\ n \in Fmmus(d)
                    /\ F2[n] = WriteFmmu(F[n], s + b[q], len, P, dir)
                    /\ \A k \in Fmmus(d) : k # n => F2[k] = F[k]
       /\ ~ mapped => F2 = F
  <2>1. CASE mapped
    <3>1. n \in Mine(d, dir) /\ n \in Fmmus(d)
      BY <2>1, MineFacts
    <3> DEFINE w == WriteFmmu(F[n], s + b[q], len, P, dir)
    <3>2. F2 = [F EXCEPT ![n] = w]
      BY <2>1
    <3>3. F2[n] = w /\ \A k \in Fmmus(d) : k # n => F2[k] = F[k]
      <4> HIDE DEF w, n
      <4> QED BY <1>17, <3>1, <3>2
    <3>4. F2 = [k \in Fmmus(d) |-> F2[k]]
      <4> HIDE DEF w, n
      <4> QED BY <1>17, <3>2
    <3> HIDE DEF n, mapped
    <3> QED BY <2>1, <3>1, <3>3, <3>4
  <2>2. CASE ~ mapped
    BY <2>2
  <2> QED BY <2>1, <2>2
<1>12. Unused(d, F2)
  <2>1. Mine(d, dir) \subseteq Mine(d, "in") \cup Mine(d, "out")
    BY DEF Dirs
  <2> QED BY <1>11, <2>1 DEF Unused
<1>13. ASSUME NEW o \in Dirs \ {dir}, NEW t, NEW p, Placed(d, F, S, o, t, p)
       PROVE  Placed(d, F2, S2, o, t, p)
  <2>1. \A k \in Mine(d, o) : F2[k] = F[k]
    <3>1. Mine(d, o) \cap Mine(d, dir) = {} /\ Mine(d, o) \subseteq Fmmus(d)
      BY MineFacts DEF Dirs
    <3> QED BY <1>11, <3>1
  <2>2. \A h \in SmIndices(d, o) : S2[h] = S[h]
    <3>1. \A h \in SmIndices(d, o) : h \in DOMAIN Sms(d) /\ h # i
      BY DEF SmIndices
    <3> QED BY <1>8, <3>1
  <2>3. ASSUME NEW k \in Mine(d, o) PROVE FmmuAt(d, F2, o, t, p, k)
    <3>1. FmmuAt(d, F, o, t, p, k) /\ F2[k] = F[k]
      BY <1>13, <2>1 DEF Placed
    <3> QED BY <3>1 DEF FmmuAt
  <2> QED BY <1>13, <2>2, <2>3 DEF Placed
<1>14. ASSUME NEW k \in Mine(d, dir) PROVE FmmuAt(d, F2, dir, s, i, k)
  <2>1. FmmuAt(d, F, dir, s, q, k) /\ k \in Fmmus(d)
    BY MineFacts DEF Placed
  <2>2. CASE ~ HasCoe(d)
    <3>1. n = i /\ k \in I /\ mapped
      BY <2>2, MineFacts DEF Mine
    <3>3. CASE k # i
      <4>1. F2[k] = F[k]
        BY <1>11, <2>1, <3>1, <3>3
      <4>2. k <= i <=> k <= q
        BY <1>6, <3>1, <3>3
      <4> QED BY <2>1, <2>2, <4>1, <4>2 DEF FmmuAt
    <3>4. CASE k = i
      <4>1. F[i] = NoFmmu
        <5>1. ~(i <= q)
          BY <1>2
        <5> QED BY <2>1, <2>2, <3>4, <5>1 DEF FmmuAt
      <4>2. F2[i] = Window(s + b[q], len, P, dir)
        <5>1. F2[i] = WriteFmmu(F[i], s + b[q], len, P, dir)
          BY <1>11, <3>1
        <5> QED BY <4>1, <5>1, WriteFacts
      <4>3. i <= i
        BY <1>2
      <4> QED BY <1>4, <2>2, <3>4, <4>2, <4>3 DEF FmmuAt
    <3> QED BY <3>3, <3>4
  <2>3. CASE HasCoe(d) /\ ~(len > 0)
    <3>1. F2 = F /\ len = 0
      BY <1>2, <1>11, <2>3
    <3>2. b[i] = b[q]
      BY <1>2, <1>4, <3>1
    <3>3. \A h \in I : h <= i /\ SmLen(d, h) > 0 => h <= q
      BY <1>6, <2>3
    <3> QED BY <2>1, <2>3, <3>1, <3>2, <3>3 DEF FmmuAt
  <2>4. CASE HasCoe(d) /\ len > 0
    <3>1. k = n /\ mapped
      BY <2>4, MineFacts
    <3>2. F2[k] = WriteFmmu(F[k], s + b[q], len, P, dir)
      BY <1>11, <3>1
    <3>3. b[i] # 0 /\ b[i] = b[q] + len
      BY <1>2, <1>4, <2>4
    <3>4. CASE b[q] = 0
      <4>1. F[k] = NoFmmu
        BY <2>1, <2>4, <3>4 DEF FmmuAt
      <4>2. s + b[q] = s /\ b[i] = len
        BY <1>2, <3>3, <3>4
      <4>5. F2[k] = WriteFmmu(NoFmmu, s, b[i], P, dir)
        BY <3>2, <4>1, <4>2
      <4>3. F2[k] = Window(s, b[i], P, dir) /\ F2[k].phys = P
        <5> HIDE DEF P, b
        <5> QED BY <4>5, WriteFacts
      <4>4. ASSUME NEW h \in I, h <= i, SmLen(d, h) > 0 PROVE h = i
        <5> SUFFICES ASSUME h <= q PROVE FALSE
          BY <1>6, <4>4
        <5>1. b[h] <= b[q] /\ b[h] = b[h-1] + SmLen(d, h) /\ h \in 1..N
          BY <1>2, <1>5
        <5>2. b[h-1] \in Nat /\ SmLen(d, h) \in Nat
          <6>1. h - 1 \in 0..N
            BY <1>1, <5>1
          <6> QED BY <1>1, <1>2, <6>1
        <5> HIDE DEF b
        <5> QED BY <3>4, <4>4, <5>1, <5>2
      <4> QED BY <2>4, <3>3, <4>3, <4>4 DEF FmmuAt
    <3>5. CASE b[q] # 0
      <4>1. /\ F[k] = Window(s, b[q], F[k].phys, dir)
            /\ \A h \in I : h <= q /\ b[h-1] = 0 /\ SmLen(d, h) > 0 => F[k].phys = Sms(d)[h].phys
        BY <2>1, <2>4, <3>5 DEF FmmuAt
      <4>5. b[q] + len < Wrap
        <5>1. i \in DOMAIN Sms(d)
          BY <1>1, <1>2
        <5>2. b[i] < Wrap
          BY <5>1 DEF LayoutPossible, Dirs
        <5> QED BY <3>3, <5>2
      <4>2. F2[k] = Window(s, b[q] + len, F[k].phys, dir)
        <5> DEFINE w == F[k].phys
                   l == b[q]
        <5>1. F2[k] = WriteFmmu(Window(s, l, w, dir), s + b[q], len, P, dir)
          BY <3>2, <4>1
        <5>2. l \in Nat /\ len \in Nat /\ l + len < Wrap
          BY <1>2, <1>4, <4>5
        <5> HIDE DEF w, l, len, P
        <5>3. WriteFmmu(Window(s, l, w, dir), s + b[q], len, P, dir) = Window(s, l + len, w, dir)
          BY <5>2, WriteFacts
        <5> QED BY <5>1, <5>3 DEF w, l
      <4>3. F2[k] = Window(s, b[i], F[k].phys, dir) /\ F2[k].phys = F[k].phys
        BY <3>3, <4>2, WriteFacts
      <4>4. ASSUME NEW h \in I, h <= i, b[h-1] = 0 PROVE h <= q
        BY <1>4, <1>6, <3>5, <4>4
      <4> QED BY <2>4, <3>3, <4>1, <4>3, <4>4 DEF FmmuAt
    <3> QED BY <3>4, <3>5
  <2> QED BY <2>2, <2>3, <2>4
<1>15. Mine(d, dir) = {} => b[i] = 0
  <2> SUFFICES ASSUME Mine(d, dir) = {} PROVE b[i] = 0
    OBVIOUS
  <2>1. ~ mapped
    BY MineFacts
  <2>2. b[q] = 0 /\ len = 0
    BY <1>2, <2>1 DEF Placed
  <2> QED BY <1>2, <1>4, <2>2
<1>16. Placed(d, F2, S2, dir, s, i)
  BY <1>10, <1>14, <1>15 DEF Placed
<1> QED BY <1>2, <1>4, <1>11, <1>12, <1>13, <1>16

\* Before the first sync manager it does not matter where the segment begins.
LEMMA PlaceStart ==
  ASSUME NEW d \in Devices, NEW dir \in Dirs, NEW F, NEW S, NEW s, NEW t,
         Placed(d, F, S, dir, s, 0)
  PROVE  Placed(d, F, S, dir, t, 0)
<1>1. /\ SmBytes[d][dir][0] = 0 /\ \A i \in SmIndices(d, dir) : ~(i <= 0)
  <2>1. SmBytes[d][dir][0] = 0 /\ Len(Sms(d)) \in Nat
    BY SmBytesFacts DEF Dirs
  <2>2. \A i \in SmIndices(d, dir) : i \in 1..Len(Sms(d))
    BY SmBytesBetween
  <2> QED BY <2>1, <2>2
<1>2. ASSUME NEW n \in Mine(d, dir) PROVE FmmuAt(d, F, dir, t, 0, n)
  <2>1. FmmuAt(d, F, dir, s, 0, n)
    BY DEF Placed
  <2>2. CASE ~ HasCoe(d)
    <3>1. ~(n <= 0)
      BY <1>1, <2>2 DEF Mine
    <3> QED BY <2>1, <2>2, <3>1 DEF FmmuAt
  <2>3. CASE HasCoe(d)
    BY <1>1, <2>1, <2>3 DEF FmmuAt
  <2> QED BY <2>2, <2>3
<1> QED BY <1>2 DEF Placed

\* A SubDevice that was reset has nothing mapped.
LEMMA PlaceBlank ==
  ASSUME NEW d \in Devices, NEW F, NEW S, \A n \in Fmmus(d) : F[n] = NoFmmu
  PROVE  Unused(d, F) /\ \A dir \in Dirs : \A s : Placed(d, F, S, dir, s, 0)
<1>1. Unused(d, F)
  BY DEF Unused
<1>2. ASSUME NEW dir \in Dirs, NEW s PROVE Placed(d, F, S, dir, s, 0)
  <2>1. /\ SmBytes[d][dir][0] = 0 /\ \A i \in SmIndices(d, dir) : ~(i <= 0)
    <3>1. SmBytes[d][dir][0] = 0 /\ Len(Sms(d)) \in Nat
      BY SmBytesFacts DEF Dirs
    <3>2. \A i \in SmIndices(d, dir) : i \in 1..Len(Sms(d))
      BY SmBytesBetween
    <3> QED BY <3>1, <3>2
  <2>2. ASSUME NEW n \in Mine(d, dir) PROVE FmmuAt(d, F, dir, s, 0, n)
    <3>1. F[n] = NoFmmu
      BY MineFacts
    <3>2. ~ HasCoe(d) => ~(n <= 0)
      BY <2>1 DEF Mine
    <3> QED BY <2>1, <3>1, <3>2 DEF FmmuAt
  <2> QED BY <2>1, <2>2 DEF Placed
<1> QED BY <1>1, <1>2

\* Behind the last sync manager of a direction nothing is left to map.
LEMMA PlaceRest ==
  ASSUME NEW d \in Devices, NEW dir \in Dirs, NEW F, NEW S, NEW s, NEW q \in 0..Len(Sms(d)),
         Placed(d, F, S, dir, s, q), \A i \in SmIndices(d, dir) : i <= q
  PROVE  Placed(d, F, S, dir, s, Len(Sms(d))) /\ SmBytes[d][dir][q] = SmBytes[d][dir][Len(Sms(d))]
<1> DEFINE b == SmBytes[d][dir]
           N == Len(Sms(d))
<1>1. N \in Nat /\ q \in 0..N /\ N \in q..N /\ N \in 0..N
  BY SmBytesFacts DEF Dirs
<1>2. \A i \in SmIndices(d, dir) : i <= N /\ i <= q
  <2>1. \A i \in SmIndices(d, dir) : i \in 1..N
    BY SmBytesBetween
  <2> QED BY <1>1, <2>1
<1>3. b[q] = b[N]
  <2>1. \A x \in 0..N : \A y \in x..N :
          (\A i \in SmIndices(d, dir) : i <= x \/ y < i) => b[x] = b[y]
    BY SmBytesBetween
  <2> HIDE DEF b, N
  <2> QED BY <1>1, <1>2, <2>1
<1>4. ASSUME NEW n \in Mine(d, dir) PROVE FmmuAt(d, F, dir, s, N, n)
  <2>1. FmmuAt(d, F, dir, s, q, n)
    BY DEF Placed
  <2>2. CASE ~ HasCoe(d)
    <3>1. n <= q /\ n <= N
      BY <1>2, <2>2 DEF Mine
    <3> QED BY <2>1, <2>2, <3>1 DEF FmmuAt
  <2>3. CASE HasCoe(d)
    BY <1>2, <1>3, <2>1, <2>3 DEF FmmuAt
  <2> QED BY <2>2, <2>3
<1> QED BY <1>2, <1>3, <1>4 DEF Placed

-----------------------------------------------------------------------------
\* The layout of a group: its SubDevices s, what its task does, j, its process
\* data p, their segments o, and how often they were laid out, c.

Mapping(j) == j.op = "fmmu"

\* The SubDevices that have all their sync managers of a direction mapped, and
\* the one that is being configured.
Past(j, c, k, dir) ==
  IF Mapping(j) THEN (dir = "in" /\ j.dir = "out") \/ (dir = j.dir /\ k < j.k) ELSE c = 1
Current(j, k, dir) == Mapping(j) /\ dir = j.dir /\ k = j.k /\ j.i > 0

\* The sync managers of the k-th SubDevice, d, that are mapped, and from where on.
Stage(d, j, c, k, dir) ==
  IF Past(j, c, k, dir) THEN Len(Sms(d)) ELSE IF Current(j, k, dir) THEN j.i - 1 ELSE 0
Base(j, p, o, k, dir) == IF Current(j, k, dir) THEN j.seg ELSE p.start + o[k][dir][1]

\* Where the segments of a direction end that are there already.
Here(j, p) == (IF j.i > 0 THEN j.seg ELSE j.pos) - p.start
Limit(j, p, dir) ==
  IF Mapping(j) /\ dir = j.dir THEN Here(j, p) ELSE IF dir = "in" THEN p.read ELSE p.len

\* A segment has the size of the SubDevice's sync managers and lies behind those
\* before it, outputs behind the inputs.
Total(d, dir) == SmBytes[d][dir][Len(Sms(d))]
SegmentOK(s, j, p, o, k, dir) ==
  LET from == o[k][dir][1] to == o[k][dir][2] IN
  /\ from \in Nat /\ to \in Nat /\ to = from + Total(s[k].id, dir) /\ to <= Limit(j, p, dir)
  /\ dir = "out" => p.read <= from
  /\ \A h \in DOMAIN s : h < k => o[h][dir][2] <= from
Segments(s, j, p, o, c) ==
  \A dir \in Dirs : \A k \in DOMAIN s : Past(j, c, k, dir) => SegmentOK(s, j, p, o, k, dir)

\* How far the loop has come.
JobPlace(s, j, p) ==
  /\ j.dir \in Dirs /\ j.i \in Nat /\ j.pos \in Nat /\ j.seg \in Nat /\ Here(j, p) \in Nat
  /\ j.dir = "out" => p.read \in Nat /\ p.read <= Here(j, p)
  /\ j.i > 0 => /\ j.k \in DOMAIN s /\ j.i - 1 \in 0..Len(Sms(s[j.k].id))
                /\ j.pos = j.seg + SmBytes[s[j.k].id][j.dir][j.i - 1]

\* The registers F and M of the SubDevices' FMMUs and sync managers.
Registers(s, j, p, o, c, F, M) ==
  \A k \in DOMAIN s : LET d == s[k].id IN
    /\ Unused(d, F[d])
    /\ \A dir \in Dirs :
         Placed(d, F[d], M[d], dir, Base(j, p, o, k, dir), Stage(d, j, c, k, dir))

Laid(s, j, p, o, c, F, M, max) ==
  /\ p.start \in Nat /\ Registers(s, j, p, o, c, F, M) /\ Segments(s, j, p, o, c)
  /\ Mapping(j) => JobPlace(s, j, p) /\ c = 1
  /\ ~ Mapping(j) /\ c = 1 => p.read \in Nat /\ p.len \in Nat /\ p.read <= p.len /\ p.len <= max

-----------------------------------------------------------------------------
\* Whoever writes the registers of others leaves the layout alone.
LEMMA LaidApart ==
  ASSUME NEW s, NEW j, NEW p, NEW o, NEW c, NEW F, NEW M, NEW max, NEW F2, NEW M2,
         Laid(s, j, p, o, c, F, M, max),
         \A k \in DOMAIN s : F2[s[k].id] = F[s[k].id] /\ M2[s[k].id] = M[s[k].id]
  PROVE  Laid(s, j, p, o, c, F2, M2, max)
BY DEF Laid, Registers

\* So does a group that does not map.
LEMMA LaidQuiet ==
  ASSUME NEW s, NEW j, NEW p, NEW o, NEW c, NEW F, NEW M, NEW max, NEW j2,
         Laid(s, j, p, o, c, F, M, max), ~ Mapping(j), ~ Mapping(j2)
  PROVE  Laid(s, j2, p, o, c, F, M, max)
<1>1. \A k, dir : /\ Past(j2, c, k, dir) <=> Past(j, c, k, dir)
                  /\ Current(j2, k, dir) <=> Current(j, k, dir)
  BY DEF Past, Current
<1>2. \A k, dir : /\ \A d : Stage(d, j2, c, k, dir) = Stage(d, j, c, k, dir)
                  /\ Base(j2, p, o, k, dir) = Base(j, p, o, k, dir)
                  /\ Limit(j2, p, dir) = Limit(j, p, dir)
  BY <1>1 DEF Stage, Base, Limit, Current
<1>3. Registers(s, j2, p, o, c, F, M)
  BY <1>2 DEF Laid, Registers
<1>4. Segments(s, j2, p, o, c)
  BY <1>1, <1>2 DEF Laid, Segments, SegmentOK
<1> QED BY <1>3, <1>4 DEF Laid

\* A group that was never laid out since its SubDevices were reset.
LEMMA LaidNever ==
  ASSUME NEW s, NEW j, NEW p, NEW o, NEW F, NEW M, NEW max, ~ Mapping(j), p.start \in Nat,
         \A k \in DOMAIN s : s[k].id \in Devices /\ \A n \in Fmmus(s[k].id) : F[s[k].id][n] = NoFmmu
  PROVE  Laid(s, j, p, o, 0, F, M, max)
<1>1. \A k, dir : ~ Past(j, 0, k, dir) /\ ~ Current(j, k, dir)
  BY DEF Past, Current
<1>2. \A d, k, dir : Stage(d, j, 0, k, dir) = 0
  BY <1>1 DEF Stage
<1>3. Registers(s, j, p, o, 0, F, M)
  BY <1>2, PlaceBlank DEF Registers
<1> QED BY <1>1, <1>3 DEF Laid, Segments

\* into_pre_op_pdi begins to lay out the process data.
LEMMA LaidBegin ==
  ASSUME NEW s \in Seq(Entry), NEW j, NEW p, NEW o, NEW F, NEW M, NEW max, NEW j2,
         Laid(s, j, p, o, 0, F, M, max), ~ Mapping(j),
         Mapping(j2), j2.dir = "in", j2.k = 1, j2.i = 0, j2.seg = 0, j2.pos = p.start
  PROVE  Laid(s, j2, p, o, 1, F, M, max)
<1>1. \A k \in DOMAIN s : \A dir \in Dirs :
        /\ ~ Past(j2, 1, k, dir) /\ ~ Current(j2, k, dir)
        /\ ~ Past(j, 0, k, dir) /\ ~ Current(j, k, dir)
  BY DEF Past, Current, Dirs
<1>2. \A k \in DOMAIN s : \A dir \in Dirs : \A d :
        Stage(d, j2, 1, k, dir) = 0 /\ Stage(d, j, 0, k, dir) = 0
  BY <1>1 DEF Stage
<1>3. \A k \in DOMAIN s : s[k].id \in Devices
  <2>1. \A k \in DOMAIN s : s[k] \in Entry
    OBVIOUS
  <2> QED BY <2>1 DEF Entry
<1>4. Registers(s, j2, p, o, 1, F, M)
  BY <1>2, <1>3, PlaceStart DEF Laid, Registers
<1>5. Segments(s, j2, p, o, 1)
  BY <1>1 DEF Segments
<1>6. JobPlace(s, j2, p)
  BY DEF Laid, JobPlace, Here, Dirs
<1> QED BY <1>4, <1>5, <1>6 DEF Laid

\* The devices of a group.
LEMMA EntryDevice ==
  ASSUME NEW s \in Seq(Entry)
  PROVE  \A k \in DOMAIN s : s[k].id \in Devices /\ k \in Nat \ {0}
<1>1. \A k \in DOMAIN s : s[k] \in Entry /\ k \in Nat \ {0}
  OBVIOUS
<1> QED BY <1>1 DEF Entry

\* configure_fmmus of the next SubDevice begins.
LEMMA LaidCheck ==
  ASSUME NEW s \in Seq(Entry), NEW j, NEW p, NEW o, NEW c, NEW F, NEW M, NEW max, NEW j2,
         Laid(s, j, p, o, c, F, M, max), Mapping(j), j.i = 0, j.k \in DOMAIN s,
         Mapping(j2), j2.dir = j.dir, j2.k = j.k, j2.i = 1, j2.seg = j.pos, j2.pos = j.pos
  PROVE  Laid(s, j2, p, o, c, F, M, max)
<1>1. /\ j.dir \in Dirs /\ j.pos \in Nat /\ c = 1 /\ p.start \in Nat
      /\ s[j.k].id \in Devices /\ j.k \in Nat
  BY EntryDevice DEF Laid, JobPlace
<1>2. Here(j2, p) = Here(j, p)
  BY DEF Here
<1>3. \A k, dir : Past(j2, c, k, dir) <=> Past(j, c, k, dir)
  BY DEF Past
<1>4. \A dir : Limit(j2, p, dir) = Limit(j, p, dir)
  BY <1>2 DEF Limit
<1>5. Segments(s, j2, p, o, c)
  BY <1>3, <1>4 DEF Laid, Segments, SegmentOK
<1>6. ASSUME NEW k \in DOMAIN s, NEW dir \in Dirs
      PROVE  LET d == s[k].id IN
             Placed(d, F[d], M[d], dir, Base(j2, p, o, k, dir), Stage(d, j2, c, k, dir))
  <2> DEFINE d == s[k].id
  <2>1. d \in Devices
    BY EntryDevice
  <2>2. Placed(d, F[d], M[d], dir, Base(j, p, o, k, dir), Stage(d, j, c, k, dir))
    BY DEF Laid, Registers
  <2>3. CASE dir = j.dir /\ k = j.k
    <3>1. ~(j.k < j.k)
      BY <1>1
    <3>2. ~ Past(j, c, k, dir) /\ ~ Current(j, k, dir) /\ ~ Past(j2, c, k, dir)
          /\ Current(j2, k, dir)
      BY <2>3, <3>1 DEF Past, Current, Dirs
    <3>3. Stage(d, j, c, k, dir) = 0 /\ Stage(d, j2, c, k, dir) = 0
      BY <3>2 DEF Stage
    <3> QED BY <2>1, <2>2, <3>3, PlaceStart
  <2>4. CASE ~(dir = j.dir /\ k = j.k)
    <3>1. ~ Current(j, k, dir) /\ ~ Current(j2, k, dir)
      BY <2>4 DEF Current
    <3>2. /\ Stage(d, j, c, k, dir) = Stage(d, j2, c, k, dir)
          /\ Base(j, p, o, k, dir) = Base(j2, p, o, k, dir)
      BY <1>3, <3>1 DEF Stage, Base
    <3> QED BY <2>2, <3>2
  <2> QED BY <2>3, <2>4
<1>7. Registers(s, j2, p, o, c, F, M)
  BY <1>6 DEF Laid, Registers
<1>8. JobPlace(s, j2, p)
  <2>1. /\ SmBytes[s[j.k].id][j.dir][0] = 0 /\ Len(Sms(s[j.k].id)) \in Nat
    BY <1>1, SmBytesFacts DEF Dirs
  <2>2. j2.i - 1 = 0 /\ j2.i \in Nat /\ j2.pos = j2.seg + 0
    BY <1>1
  <2>3. Here(j2, p) \in Nat /\ (j2.dir = "out" => p.read \in Nat /\ p.read <= Here(j2, p))
    BY <1>2 DEF Laid, JobPlace
  <2> QED BY <1>1, <2>1, <2>2, <2>3 DEF JobPlace
<1> QED BY <1>5, <1>7, <1>8 DEF Laid

\* One of its sync managers is mapped.
LEMMA LaidNext ==
  ASSUME LayoutPossible, NEW s \in Seq(Entry), NEW j, NEW p, NEW o, NEW c, NEW F, NEW M, NEW max, NEW j2,
         Laid(s, j, p, o, c, F, M, max), Mapping(j), j.i > 0, j.k \in DOMAIN s,
         NEW F2, NEW M2, NEW d, d = s[j.k].id,
         \A k \in DOMAIN s : k # j.k => F2[s[k].id] = F[s[k].id] /\ M2[s[k].id] = M[s[k].id],
         NEW i, j.i <= i, \A h \in SmIndices(d, j.dir) : h < j.i \/ i <= h,
         AreRegisters(d, F[d], M[d]), MapsSm(d, F[d], M[d], F2[d], M2[d], j.dir, j.pos, i),
         Mapping(j2), j2.dir = j.dir, j2.k = j.k, j2.i = i + 1, j2.seg = j.seg,
         j2.pos = j.pos + SmLen(d, i)
  PROVE  Laid(s, j2, p, o, c, F2, M2, max)
<1> DEFINE b == SmBytes[d][j.dir]
           q == j.i - 1
           N == Len(Sms(d))
<1>1. /\ j.dir \in Dirs /\ j.pos \in Nat /\ j.seg \in Nat /\ j.i \in Nat /\ c = 1 /\ p.start \in Nat
      /\ d \in Devices /\ j.k \in Nat /\ q \in 0..N /\ j.pos = j.seg + b[q]
  BY EntryDevice DEF Laid, JobPlace
<1>2. ~ Past(j, c, j.k, j.dir) /\ Current(j, j.k, j.dir)
  <2>1. ~(j.k < j.k)
    BY <1>1
  <2> QED BY <2>1 DEF Past, Current, Dirs
<1>3. Placed(d, F[d], M[d], j.dir, j.seg, q) /\ Unused(d, F[d])
  <2>1. Base(j, p, o, j.k, j.dir) = j.seg /\ Stage(d, j, c, j.k, j.dir) = q
    BY <1>2, SMTT(40) DEF Base, Stage
  <2>2. /\ Unused(d, F[d])
        /\ Placed(d, F[d], M[d], j.dir, Base(j, p, o, j.k, j.dir), Stage(d, j, c, j.k, j.dir))
    BY <1>1, SMTT(40) DEF Laid, Registers
  <2> QED BY <2>1, <2>2
<1>4. i \in SmIndices(d, j.dir) /\ i \in Nat /\ q < i /\ \A h \in SmIndices(d, j.dir) : h <= q \/ i <= h
  <2>1. \A h \in SmIndices(d, j.dir) : h \in Nat
    BY <1>1, SmBytesBetween
  <2>2. i \in SmIndices(d, j.dir)
    BY DEF MapsSm
  <2> QED BY <1>1, <2>1, <2>2, SMTT(40)
<1>5. /\ Placed(d, F2[d], M2[d], j.dir, j.seg, i) /\ Unused(d, F2[d])
      /\ \A y \in Dirs \ {j.dir} : \A t, x :
           Placed(d, F[d], M[d], y, t, x) => Placed(d, F2[d], M2[d], y, t, x)
      /\ b[i] = b[q] + SmLen(d, i) /\ SmLen(d, i) \in Nat /\ i \in 1..N
  <2>1. MapsSm(d, F[d], M[d], F2[d], M2[d], j.dir, j.seg + SmBytes[d][j.dir][q], i)
    BY <1>1
  <2>2. q \in 0..Len(Sms(d))
    BY <1>1
  <2>3. d \in Devices /\ j.dir \in Dirs /\ j.seg \in Nat
    BY <1>1
  <2> DEFINE G == F[d]
             G2 == F2[d]
             R == M[d]
             R2 == M2[d]
             dir == j.dir
             z == j.seg
  <2>4. AreRegisters(d, G, R) /\ MapsSm(d, G, R, G2, R2, dir, z + SmBytes[d][dir][q], i)
    BY <2>1
  <2>5. Placed(d, G, R, dir, z, q) /\ Unused(d, G)
    BY <1>3
  <2>6. q < i /\ \A h \in SmIndices(d, dir) : h <= q \/ i <= h
    BY <1>4
  <2>7. dir \in Dirs /\ z \in Nat
    BY <2>3
  <2>8. /\ Placed(d, G2, R2, dir, z, i) /\ Unused(d, G2)
        /\ \A y \in Dirs \ {dir} : \A t, x : Placed(d, G, R, y, t, x) => Placed(d, G2, R2, y, t, x)
        /\ SmBytes[d][dir][i] = SmBytes[d][dir][q] + SmLen(d, i)
        /\ SmLen(d, i) \in Nat /\ i \in 1..Len(Sms(d))
    <3> HIDE DEF q, G, G2, R, R2, dir, z
    <3> QED BY <2>2, <2>3, <2>4, <2>5, <2>6, <2>7, PlaceNext
  <2> QED BY <2>8, SMTT(40)
<1>6. j2.i > 0 /\ j2.i - 1 = i /\ j2.i \in Nat /\ i \in 0..N
  <2>1. N \in Nat /\ i \in 1..N
    BY <1>1, <1>5, SmBytesFacts DEF Dirs
  <2>2. i \in 0..N
    BY <2>1
  <2> HIDE DEF N
  <2> QED BY <1>4, <2>2
<1>7. Here(j2, p) = Here(j, p)
  BY <1>6 DEF Here
<1>8. \A k, dir : /\ Past(j2, c, k, dir) <=> Past(j, c, k, dir)
                  /\ Current(j2, k, dir) <=> Current(j, k, dir)
  BY <1>6 DEF Past, Current
<1>9. \A dir : Limit(j2, p, dir) = Limit(j, p, dir)
  BY <1>7 DEF Limit
<1>10. Segments(s, j2, p, o, c)
  BY <1>8, <1>9 DEF Laid, Segments, SegmentOK
<1>11. ASSUME NEW k \in DOMAIN s
       PROVE  LET e == s[k].id IN /\ Unused(e, F2[e])
              /\ \A dir \in Dirs :
                   Placed(e, F2[e], M2[e], dir, Base(j2, p, o, k, dir), Stage(e, j2, c, k, dir))
  <2> DEFINE e == s[k].id
  <2>1. Unused(e, F[e]) /\ \A dir \in Dirs :
          Placed(e, F[e], M[e], dir, Base(j, p, o, k, dir), Stage(e, j, c, k, dir))
    BY DEF Laid, Registers
  <2>2. ASSUME NEW dir \in Dirs, ~(dir = j.dir /\ k = j.k)
        PROVE  /\ Stage(e, j, c, k, dir) = Stage(e, j2, c, k, dir)
               /\ Base(j, p, o, k, dir) = Base(j2, p, o, k, dir)
    <3>1. ~ Current(j, k, dir) /\ ~ Current(j2, k, dir)
      BY <2>2 DEF Current
    <3> QED BY <1>8, <3>1 DEF Stage, Base
  <2>3. CASE k # j.k
    <3>1. F2[e] = F[e] /\ M2[e] = M[e]
      BY <2>3
    <3> HIDE DEF e
    <3> QED BY <2>1, <2>2, <2>3, <3>1 DEF e
  <2>4. CASE k = j.k
    <3>1. e = d /\ Unused(e, F2[e])
      BY <1>5, <2>4
    <3>2. ASSUME NEW dir \in Dirs
          PROVE  Placed(e, F2[e], M2[e], dir, Base(j2, p, o, k, dir), Stage(e, j2, c, k, dir))
      <4>1. CASE dir = j.dir
        <5>1. ~ Past(j2, c, k, dir) /\ Current(j2, k, dir)
          BY <1>2, <1>8, <2>4, <4>1
        <5>2. Base(j2, p, o, k, dir) = j.seg /\ Stage(e, j2, c, k, dir) = i
          BY <1>6, <5>1 DEF Base, Stage
        <5> QED BY <1>5, <3>1, <4>1, <5>2
      <4>2. CASE dir # j.dir
        <5>1. Placed(d, F[d], M[d], dir, Base(j, p, o, k, dir), Stage(d, j, c, k, dir))
          BY <2>1, <3>1
        <5>2. Placed(d, F2[d], M2[d], dir, Base(j, p, o, k, dir), Stage(d, j, c, k, dir))
          BY <1>5, <4>2, <5>1
        <5> QED BY <2>2, <3>1, <4>2, <5>2
      <4> QED BY <4>1, <4>2
    <3> HIDE DEF e
    <3> QED BY <3>1, <3>2 DEF e
  <2> QED BY <2>3, <2>4
<1>12. Registers(s, j2, p, o, c, F2, M2)
  BY <1>11, SMTT(40) DEF Registers
<1>13. JobPlace(s, j2, p)
  <2>1. j2.pos = j2.seg + b[i] /\ j2.pos \in Nat
    <3>1. b[q] \in Nat
      <4>1. b \in [0..N -> Nat]
        BY <1>1, SmBytesFacts DEF Dirs
      <4> QED BY <1>1, <4>1, ZenonT(60)
    <3>2. j.pos = j.seg + b[q] /\ b[i] = b[q] + SmLen(d, i) /\ SmLen(d, i) \in Nat
          /\ j.seg \in Nat
      BY <1>1, <1>5
    <3> HIDE DEF b, q
    <3> QED BY <3>1, <3>2, SMTT(40)
  <2>2. Here(j2, p) \in Nat /\ (j2.dir = "out" => p.read \in Nat /\ p.read <= Here(j2, p))
    BY <1>7 DEF Laid, JobPlace
  <2> QED BY <1>1, <1>6, <2>1, <2>2 DEF JobPlace
<1> QED BY <1>10, <1>12, <1>13 DEF Laid

\* A SubDevice has all its sync managers of the direction mapped.
LEMMA LaidDone ==
  ASSUME NEW s \in Seq(Entry), NEW j, NEW p, NEW o, NEW c, NEW F, NEW M, NEW max, NEW j2, NEW o2,
         Laid(s, j, p, o, c, F, M, max), Mapping(j), j.i > 0, j.k \in DOMAIN s,
         \A i \in SmIndices(s[j.k].id, j.dir) : i < j.i,
         Mapping(j2), j2.dir = j.dir, j2.k = j.k + 1, j2.i = 0, j2.seg = j.seg, j2.pos = j.pos,
         o2[j.k][j.dir][1] = j.seg - p.start, o2[j.k][j.dir][2] = j.pos - p.start,
         \A k \in DOMAIN s : \A dir \in Dirs : ~(k = j.k /\ dir = j.dir) => o2[k][dir] = o[k][dir]
  PROVE  Laid(s, j2, p, o2, c, F, M, max)
<1> DEFINE d == s[j.k].id
           b == SmBytes[d][j.dir]
           q == j.i - 1
           N == Len(Sms(d))
<1>1. /\ j.dir \in Dirs /\ j.pos \in Nat /\ j.seg \in Nat /\ j.i \in Nat /\ c = 1 /\ p.start \in Nat
      /\ d \in Devices /\ j.k \in Nat /\ q \in 0..N /\ j.pos = j.seg + b[q] /\ Here(j, p) \in Nat
  BY EntryDevice DEF Laid, JobPlace
<1>2. \A k \in DOMAIN s : k \in Nat /\ (k < j.k + 1 <=> k < j.k \/ k = j.k)
  BY <1>1, EntryDevice
<1>3. b[q] = b[N] /\ b[q] \in Nat /\ Placed(d, F[d], M[d], j.dir, j.seg, N)
  <2>1. ~ Past(j, c, j.k, j.dir) /\ Current(j, j.k, j.dir)
    <3>1. ~(j.k < j.k)
      BY <1>1
    <3> QED BY <3>1 DEF Past, Current, Dirs
  <2>2. Base(j, p, o, j.k, j.dir) = j.seg /\ Stage(d, j, c, j.k, j.dir) = q
    BY <2>1 DEF Base, Stage
  <2>3. Placed(d, F[d], M[d], j.dir, Base(j, p, o, j.k, j.dir), Stage(d, j, c, j.k, j.dir))
    BY <1>1 DEF Laid, Registers
  <2>4. Placed(d, F[d], M[d], j.dir, j.seg, q)
    BY <2>2, <2>3
  <2>5. \A i \in SmIndices(d, j.dir) : i <= q
    <3>1. \A i \in SmIndices(d, j.dir) : i \in Nat
      BY <1>1, SmBytesBetween, SMTT(40)
    <3> QED BY <1>1, <3>1
  <2>6. b \in [0..N -> Nat]
    BY <1>1, SmBytesFacts DEF Dirs
  <2>7. b[q] \in Nat
    BY <1>1, <2>6
  <2>8. SmBytes[d][j.dir][q] = SmBytes[d][j.dir][Len(Sms(d))]
        /\ Placed(d, F[d], M[d], j.dir, j.seg, Len(Sms(d)))
    <3>1. q \in 0..Len(Sms(d))
      BY <1>1
    <3> HIDE DEF d, q
    <3> QED BY <1>1, <2>4, <2>5, <3>1, PlaceRest
  <2> QED BY <2>7, <2>8
<1>4. Here(j, p) = j.seg - p.start /\ Here(j2, p) = j.pos - p.start
  BY DEF Here
<1>5. Here(j2, p) = Here(j, p) + b[N] /\ Here(j2, p) \in Nat /\ Here(j, p) <= Here(j2, p)
  <2>1. j.pos = j.seg + b[N] /\ b[N] \in Nat
    BY <1>1, <1>3
  <2>2. j.seg \in Nat /\ p.start \in Nat /\ Here(j, p) \in Nat
    BY <1>1
  <2> HIDE DEF b, N
  <2> QED BY <1>4, <2>1, <2>2
<1>6. \A k \in DOMAIN s : \A dir \in Dirs :
        Past(j2, c, k, dir) <=> Past(j, c, k, dir) \/ (k = j.k /\ dir = j.dir)
  BY <1>2 DEF Past
<1>7. \A k, dir : ~ Current(j2, k, dir)
  BY DEF Current
<1>8. ASSUME NEW k \in DOMAIN s, NEW dir \in Dirs
      PROVE  LET e == s[k].id IN
             Placed(e, F[e], M[e], dir, Base(j2, p, o2, k, dir), Stage(e, j2, c, k, dir))
  <2> DEFINE e == s[k].id
  <2>1. CASE k = j.k /\ dir = j.dir
    <3>1. Stage(e, j2, c, k, dir) = Len(Sms(e))
      BY <1>6, <2>1 DEF Stage
    <3>2. Base(j2, p, o2, k, dir) = j.seg
      <4>1. Base(j2, p, o2, k, dir) = p.start + (j.seg - p.start)
        BY <1>7, <2>1 DEF Base
      <4> QED BY <1>1, <4>1
    <3> QED BY <1>3, <2>1, <3>1, <3>2
  <2>2. CASE ~(k = j.k /\ dir = j.dir)
    <3>1. o2[k][dir] = o[k][dir] /\ ~ Current(j, k, dir)
      BY <2>2 DEF Current
    <3>2. /\ Base(j2, p, o2, k, dir) = Base(j, p, o, k, dir)
          /\ Stage(e, j2, c, k, dir) = Stage(e, j, c, k, dir)
      BY <1>6, <1>7, <2>2, <3>1 DEF Base, Stage
    <3> QED BY <3>2 DEF Laid, Registers
  <2> QED BY <2>1, <2>2
<1>9. Registers(s, j2, p, o2, c, F, M)
  BY <1>8 DEF Laid, Registers
<1>10. ASSUME NEW dir \in Dirs, NEW k \in DOMAIN s, Past(j, c, k, dir)
       PROVE  ~(k = j.k /\ dir = j.dir) /\ SegmentOK(s, j, p, o, k, dir)
  <2>1. ~(j.k < j.k)
    BY <1>1
  <2>2. ~(k = j.k /\ dir = j.dir)
    BY <1>10, <2>1 DEF Past, Dirs
  <2> QED BY <1>10, <2>2 DEF Laid, Segments
<1>11. ASSUME NEW dir \in Dirs, NEW k \in DOMAIN s, Past(j2, c, k, dir)
       PROVE  SegmentOK(s, j2, p, o2, k, dir)
  <2>1. CASE ~(k = j.k /\ dir = j.dir)
    <3>1. Past(j, c, k, dir) /\ SegmentOK(s, j, p, o, k, dir) /\ o2[k][dir] = o[k][dir]
      BY <1>6, <1>10, <1>11, <2>1
    <3>2. /\ dir = j.dir => Limit(j, p, dir) = Here(j, p) /\ Limit(j2, p, dir) = Here(j2, p)
          /\ dir # j.dir => Limit(j, p, dir) = Limit(j2, p, dir)
      BY DEF Limit
    <3> DEFINE from == o[k][dir][1]
               to == o[k][dir][2]
    <3>3. /\ from \in Nat /\ to \in Nat /\ to = from + Total(s[k].id, dir) /\ to <= Limit(j, p, dir)
          /\ dir = "out" => p.read <= from
          /\ \A h \in DOMAIN s : h < k => o[h][dir][2] <= from
      BY <3>1 DEF SegmentOK
    <3>4. to <= Limit(j2, p, dir)
      <4>1. CASE dir = j.dir
        <5>1. to \in Nat /\ to <= Here(j, p) /\ Here(j, p) \in Nat /\ Here(j2, p) \in Nat
              /\ Here(j, p) <= Here(j2, p) /\ Limit(j2, p, dir) = Here(j2, p)
          BY <1>1, <1>5, <3>2, <3>3, <4>1
        <5> HIDE DEF to
        <5> QED BY <5>1, SMTT(40)
      <4>2. CASE dir # j.dir
        BY <3>2, <3>3, <4>2
      <4> QED BY <4>1, <4>2
    <3>5. ASSUME NEW h \in DOMAIN s, h < k PROVE o2[h][dir] = o[h][dir]
      <4>1. CASE dir # j.dir
        BY <4>1
      <4>2. CASE dir = j.dir
        <5>1. k < j.k
          BY <3>1, <4>2 DEF Past, Dirs
        <5>2. h # j.k
          BY <1>1, <1>2, <3>5, <5>1
        <5> QED BY <5>2
      <4> QED BY <4>1, <4>2
    <3> QED BY <3>1, <3>3, <3>4, <3>5 DEF SegmentOK
  <2>2. CASE k = j.k /\ dir = j.dir
    <3>1. o2[k][dir][1] = Here(j, p) /\ o2[k][dir][2] = Here(j2, p)
      BY <1>4, <2>2
    <3>2. Limit(j2, p, dir) = Here(j2, p) /\ Limit(j, p, dir) = Here(j, p)
      BY <2>2 DEF Limit
    <3>3. Total(s[k].id, dir) = b[N]
      BY <2>2 DEF Total
    <3>4. dir = "out" => p.read <= Here(j, p)
      BY <2>2 DEF Laid, JobPlace
    <3>5. ASSUME NEW h \in DOMAIN s, h < k PROVE o2[h][dir][2] <= Here(j, p)
      <4>1. Past(j, c, h, dir)
        BY <2>2, <3>5 DEF Past
      <4>2. SegmentOK(s, j, p, o, h, dir) /\ o2[h][dir] = o[h][dir]
        BY <1>10, <4>1
      <4> QED BY <3>2, <4>2 DEF SegmentOK
    <3>6. Here(j2, p) <= Here(j2, p)
      BY <1>5
    <3> HIDE DEF b, N
    <3> QED BY <1>1, <1>5, <3>1, <3>2, <3>3, <3>4, <3>5, <3>6 DEF SegmentOK
  <2> QED BY <2>1, <2>2
<1>12. Segments(s, j2, p, o2, c)
  BY <1>11 DEF Segments
<1>13. JobPlace(s, j2, p)
  <2>1. j2.dir = "out" => p.read \in Nat /\ p.read <= Here(j2, p)
    <3>1. j.dir = "out" => p.read \in Nat /\ p.read <= Here(j, p)
      BY DEF Laid, JobPlace
    <3>2. Here(j, p) \in Nat /\ Here(j2, p) \in Nat /\ Here(j, p) <= Here(j2, p)
      BY <1>1, <1>5
    <3>3. j2.dir = j.dir
      BY <1>1
    <3> HIDE DEF b, N
    <3> QED BY <3>1, <3>2, <3>3, SMTT(40)
  <2> QED BY <1>1, <1>5, <2>1 DEF JobPlace
<1> QED BY <1>9, <1>12, <1>13 DEF Laid

\* The inputs are mapped, the outputs begin.
LEMMA LaidInputs ==
  ASSUME NEW s \in Seq(Entry), NEW j, NEW p, NEW o, NEW c, NEW F, NEW M, NEW max, NEW j2, NEW p2,
         Laid(s, j, p, o, c, F, M, max), Mapping(j), j.k \in Nat, j.k > Len(s), j.dir = "in",
         Mapping(j2), j2.dir = "out", j2.k = 1, j2.i = j.i, j2.seg = j.seg, j2.pos = j.pos,
         p2.start = p.start, p2.read = j.pos - p.start
  PROVE  Laid(s, j2, p2, o, c, F, M, max)
<1>1. \A k \in DOMAIN s : k \in Nat /\ k < j.k /\ ~(k < 1)
  <2>1. Len(s) \in Nat /\ DOMAIN s = 1..Len(s)
    OBVIOUS
  <2> QED BY <2>1
<1>2. j.i = 0 /\ j.pos \in Nat /\ j.seg \in Nat /\ c = 1
  BY <1>1 DEF Laid, JobPlace
<1>3. Here(j, p) = p2.read /\ Here(j2, p2) = p2.read /\ p2.read \in Nat
  <2>1. Here(j, p) \in Nat
    BY DEF Laid, JobPlace
  <2> QED BY <1>2, <2>1 DEF Here
<1>4. \A k \in DOMAIN s : \A dir \in Dirs :
        /\ Past(j2, c, k, dir) <=> Past(j, c, k, dir)
        /\ Past(j, c, k, dir) => dir = "in"
        /\ ~ Current(j, k, dir) /\ ~ Current(j2, k, dir)
  BY <1>1, <1>2 DEF Past, Current, Dirs
<1>5. Registers(s, j2, p2, o, c, F, M)
  <2>1. \A k \in DOMAIN s : \A dir \in Dirs :
          /\ \A d : Stage(d, j2, c, k, dir) = Stage(d, j, c, k, dir)
          /\ Base(j2, p2, o, k, dir) = Base(j, p, o, k, dir)
    BY <1>4 DEF Stage, Base
  <2> QED BY <2>1 DEF Laid, Registers
<1>6. Limit(j, p, "in") = p2.read /\ Limit(j2, p2, "in") = p2.read
  BY <1>3 DEF Limit
<1>7. ASSUME NEW dir \in Dirs, NEW k \in DOMAIN s, Past(j2, c, k, dir)
      PROVE  SegmentOK(s, j2, p2, o, k, dir)
  <2>1. dir = "in" /\ SegmentOK(s, j, p, o, k, dir)
    BY <1>4, <1>7 DEF Laid, Segments
  <2> QED BY <1>6, <2>1 DEF SegmentOK
<1>8. JobPlace(s, j2, p2)
  <2>1. p2.read <= p2.read
    BY <1>3
  <2> QED BY <1>2, <1>3, <2>1 DEF JobPlace, Dirs
<1> QED BY <1>2, <1>5, <1>7, <1>8 DEF Laid, Segments

\* The outputs are mapped and all fit.
LEMMA LaidAll ==
  ASSUME NEW s \in Seq(Entry), NEW j, NEW p, NEW o, NEW c, NEW F, NEW M, NEW max \in Nat,
         NEW j2, NEW p2, Laid(s, j, p, o, c, F, M, max), Mapping(j), j.k \in Nat,
         j.k > Len(s), j.dir # "in", ~ Mapping(j2), p2.start = p.start, p2.read = p.read,
         p2.len = j.pos - p.start, ~(p2.len > max)
  PROVE  Laid(s, j2, p2, o, c, F, M, max)
<1>1. \A k \in DOMAIN s : k \in Nat /\ k < j.k
  <2>1. Len(s) \in Nat /\ DOMAIN s = 1..Len(s)
    OBVIOUS
  <2> QED BY <2>1
<1>2. j.i = 0 /\ j.pos \in Nat /\ c = 1 /\ j.dir = "out"
  BY <1>1 DEF Laid, JobPlace, Dirs
<1>3. Here(j, p) = p2.len /\ p2.len \in Nat /\ p2.read \in Nat /\ p2.read <= p2.len
  <2>1. Here(j, p) \in Nat /\ p.read \in Nat /\ p.read <= Here(j, p)
    BY <1>2 DEF Laid, JobPlace
  <2> QED BY <1>2, <2>1 DEF Here
<1>4. \A k \in DOMAIN s : \A dir \in Dirs :
        /\ Past(j2, c, k, dir) /\ Past(j, c, k, dir)
        /\ ~ Current(j, k, dir) /\ ~ Current(j2, k, dir)
  BY <1>1, <1>2 DEF Past, Current, Dirs
<1>5. Registers(s, j2, p2, o, c, F, M)
  <2>1. \A k \in DOMAIN s : \A dir \in Dirs :
          /\ \A d : Stage(d, j2, c, k, dir) = Stage(d, j, c, k, dir)
          /\ Base(j2, p2, o, k, dir) = Base(j, p, o, k, dir)
    BY <1>4 DEF Stage, Base
  <2> QED BY <2>1 DEF Laid, Registers
<1>6. \A dir \in Dirs : Limit(j, p, dir) = Limit(j2, p2, dir)
  BY <1>2, <1>3 DEF Limit, Dirs
<1>7. ASSUME NEW dir \in Dirs, NEW k \in DOMAIN s
      PROVE  SegmentOK(s, j2, p2, o, k, dir)
  <2>1. SegmentOK(s, j, p, o, k, dir)
    BY <1>4 DEF Laid, Segments
  <2> QED BY <1>6, <2>1 DEF SegmentOK
<1>8. p2.len <= max
  BY <1>3
<1> QED BY <1>3, <1>5, <1>7, <1>8 DEF Laid, Segments

\* An FMMU that is a window into the segment of a direction, which begins at a.
Opens(d, F, a, n, dir) ==
  \E x \in Nat, l \in Nat :
    /\ F[n] = Window(a + x, l, F[n].phys, dir) /\ x + l <= Total(d, dir)
    /\ ~ HasCoe(d) => x = SmBytes[d][dir][n-1] /\ l = SmLen(d, n)
                      /\ x + l = SmBytes[d][dir][n] /\ F[n].phys = Sms(d)[n].phys

\* An FMMU of a direction is not in use or is such a window.
LEMMA WindowOf ==
  ASSUME NEW d \in Devices, NEW dir \in Dirs, NEW F, NEW S, NEW a \in Nat,
         Placed(d, F, S, dir, a, Len(Sms(d))), NEW n \in Mine(d, dir)
  PROVE  F[n] = NoFmmu \/ Opens(d, F, a, n, dir)
<1> DEFINE b == SmBytes[d][dir]
           N == Len(Sms(d))
<1>1. N \in Nat /\ b \in [0..N -> Nat] /\ N \in 0..N
  BY SmBytesFacts DEF Dirs
<1>2. FmmuAt(d, F, dir, a, N, n) /\ Total(d, dir) = b[N] /\ b[N] \in Nat
  BY <1>1 DEF Placed, Total
<1>3. CASE ~ HasCoe(d)
  <2>1. n \in SmIndices(d, dir) /\ n \in 1..N /\ SmLen(d, n) \in Nat /\ b[n] = b[n-1] + SmLen(d, n)
    <3>1. n \in SmIndices(d, dir)
      BY <1>3 DEF Mine
    <3> QED BY <3>1, SmBytesBetween
  <2>2. n \in 0..N /\ N \in n..N /\ n - 1 \in 0..N /\ n <= N
    BY <1>1, <2>1
  <2>3. b[n] <= b[N] /\ b[n-1] \in Nat
    BY <1>1, <2>2, SmBytesBetween
  <2>4. F[n] = Window(a + b[n-1], SmLen(d, n), Sms(d)[n].phys, dir)
    BY <1>2, <1>3, <2>2 DEF FmmuAt
  <2>5. F[n].phys = Sms(d)[n].phys
    BY <2>4, WriteFacts
  <2> DEFINE x == b[n-1]
             l == SmLen(d, n)
  <2>6. x \in Nat /\ l \in Nat /\ F[n] = Window(a + x, l, F[n].phys, dir)
        /\ x + l <= Total(d, dir) /\ x + l = SmBytes[d][dir][n]
    BY <1>2, <2>1, <2>3, <2>4, <2>5
  <2> QED BY <2>5, <2>6 DEF Opens
<1>4. CASE HasCoe(d) /\ b[N] # 0
  <2>1. F[n] = Window(a, b[N], F[n].phys, dir)
    BY <1>2, <1>4 DEF FmmuAt
  <2>2. a + 0 = a /\ 0 + b[N] <= b[N] /\ b[N] \in Nat
    BY <1>2
  <2>3. F[n] = Window(a + 0, b[N], F[n].phys, dir)
    BY <2>1, <2>2
  <2> HIDE DEF b, N
  <2> QED BY <1>2, <1>4, <2>2, <2>3 DEF Opens
<1>5. CASE HasCoe(d) /\ b[N] = 0
  BY <1>2, <1>5 DEF FmmuAt
<1> QED BY <1>3, <1>4, <1>5

\* The registers of a SubDevice when both directions are mapped, from A on, and an
\* FMMU that is in use for one of them.
Complete(d, F, S, A) ==
  /\ Unused(d, F)
  /\ \A dir \in Dirs : A[dir] \in Nat /\ Placed(d, F, S, dir, A[dir], Len(Sms(d)))
InUse(d, F, A, n, dir) ==
  /\ n \in Mine(d, dir) /\ F[n].dir = dir
  /\ \E x \in Nat, l \in Nat :
       /\ F[n].start = A[dir] + x /\ F[n].len = l /\ x + l <= Total(d, dir)
       /\ ~ HasCoe(d) => x = SmBytes[d][dir][n-1] /\ l = SmLen(d, n)
                         /\ x + l = SmBytes[d][dir][n] /\ F[n].phys = Sms(d)[n].phys

\* Then the FMMUs that are enabled are such windows.
LEMMA WindowsOf ==
  ASSUME NEW d \in Devices, NEW F, NEW S, NEW A, Complete(d, F, S, A),
         NEW n \in Fmmus(d), F[n].enable
  PROVE  \E dir \in Dirs : InUse(d, F, A, n, dir)
<1>1. F[n] # NoFmmu
  BY DEF NoFmmu
<1>2. PICK dir \in Dirs : n \in Mine(d, dir)
  BY <1>1 DEF Complete, Unused, Dirs
<1>3. PICK x \in Nat, l \in Nat :
        /\ F[n] = Window(A[dir] + x, l, F[n].phys, dir) /\ x + l <= Total(d, dir)
        /\ ~ HasCoe(d) => x = SmBytes[d][dir][n-1] /\ l = SmLen(d, n)
                          /\ x + l = SmBytes[d][dir][n] /\ F[n].phys = Sms(d)[n].phys
  <2>1. Placed(d, F, S, dir, A[dir], Len(Sms(d))) /\ A[dir] \in Nat
    BY DEF Complete
  <2> DEFINE a == A[dir]
  <2>2. Placed(d, F, S, dir, a, Len(Sms(d))) /\ a \in Nat
    BY <2>1
  <2>3. Opens(d, F, a, n, dir)
    <3> HIDE DEF a
    <3> QED BY <1>1, <1>2, <2>2, WindowOf
  <2> QED BY <2>3 DEF Opens
<1>4. F[n].start = A[dir] + x /\ F[n].len = l /\ F[n].dir = dir
  BY <1>3, WriteFacts
<1>5. InUse(d, F, A, n, dir)
  BY <1>2, <1>3, <1>4 DEF InUse
<1> QED BY <1>5

\* Where the FMMU that serves a sync manager lies.
LEMMA Served ==
  ASSUME NEW d \in Devices, NEW dir \in Dirs, NEW F, NEW S, NEW a \in Nat,
         Placed(d, F, S, dir, a, Len(Sms(d))), SideBySide(d, dir),
         NEW i \in SmIndices(d, dir), SmLen(d, i) > 0
  PROVE  \E n \in Mine(d, dir) : \E x \in Nat, l \in Nat :
           /\ F[n] = Window(a + x, l, F[n].phys, dir) /\ F[n].phys \in Nat
           /\ F[n].phys <= Sms(d)[i].phys /\ Sms(d)[i].phys + SmLen(d, i) <= F[n].phys + l
           /\ a + x + (Sms(d)[i].phys - F[n].phys) = a + SmBytes[d][dir][i-1]
           /\ ~ HasCoe(d) => n = i
<1> DEFINE b == SmBytes[d][dir]
           N == Len(Sms(d))
           I == SmIndices(d, dir)
<1>1. N \in Nat /\ b \in [0..N -> Nat] /\ N \in 0..N /\ b[0] = 0
  BY SmBytesFacts DEF Dirs
<1>2. \A h \in I : /\ h \in 1..N /\ h \in DOMAIN Sms(d) /\ SmLen(d, h) \in Nat
                   /\ b[h] = b[h-1] + SmLen(d, h) /\ Sms(d)[h].phys \in Nat
  <2>1. \A h \in I : h \in DOMAIN Sms(d)
    BY DEF SmIndices
  <2> QED BY <2>1, SmBytesBetween, SmLenNat
<1>3. \A h \in I : h \in 0..N /\ h - 1 \in 0..N /\ N \in h..N /\ h <= N
  BY <1>1, <1>2
<1>4. \A h \in I : b[h] <= b[N] /\ b[h-1] \in Nat /\ b[h] \in Nat
  BY <1>1, <1>3, SmBytesBetween
<1>5. CASE ~ HasCoe(d)
  <2>1. i \in Mine(d, dir)
    BY <1>5 DEF Mine
  <2>2. FmmuAt(d, F, dir, a, N, i)
    BY <2>1 DEF Placed
  <2>3. F[i] = Window(a + b[i-1], SmLen(d, i), Sms(d)[i].phys, dir)
    BY <1>3, <1>5, <2>2 DEF FmmuAt
  <2>4. F[i].phys = Sms(d)[i].phys
    BY <2>3, WriteFacts
  <2>5. b[i-1] \in Nat /\ SmLen(d, i) \in Nat /\ Sms(d)[i].phys \in Nat
    BY <1>2, <1>4
  <2>6. /\ Sms(d)[i].phys <= Sms(d)[i].phys
        /\ Sms(d)[i].phys + SmLen(d, i) <= Sms(d)[i].phys + SmLen(d, i)
        /\ a + b[i-1] + (Sms(d)[i].phys - Sms(d)[i].phys) = a + b[i-1]
    <3> HIDE DEF b
    <3> QED BY <2>5
  <2> QED BY <2>1, <2>3, <2>4, <2>5, <2>6
<1>6. CASE HasCoe(d)
  <2> DEFINE T == {h \in I : SmLen(d, h) > 0}
  <2>1. PICK f \in T : \A h \in T : f <= h
    <3>1. T \in SUBSET Nat /\ T # {}
      BY <1>2
    <3> HIDE DEF T
    <3> QED BY <3>1, Least
  <2>2. f \in I /\ SmLen(d, f) > 0 /\ f <= i
    BY <2>1
  <2>3. b[f-1] = 0
    <3> DEFINE Z == {h \in 0..N : h < f /\ b[h] # 0}
    <3>1. CASE Z = {}
      <4>1. f - 1 \in 0..N /\ f - 1 < f
        BY <1>1, <1>2, <2>2
      <4> QED BY <3>1, <4>1
    <3>2. CASE Z # {}
      <4>1. PICK z \in Z : \A h \in Z : z <= h
        <5>1. Z \in SUBSET Nat
          BY <1>1
        <5> HIDE DEF Z
        <5> QED BY <3>2, <5>1, Least
      <4>2. z \in 1..N /\ z < f /\ b[z] # 0 /\ z - 1 \in 0..N /\ z - 1 < f /\ ~(z <= z - 1)
        <5>1. z \in 0..N /\ z < f /\ b[z] # 0
          OBVIOUS
        <5>2. f \in Nat
          BY <1>2, <2>2
        <5> QED BY <1>1, <5>1, <5>2
      <4>3. b[z-1] = 0
        <5>1. z - 1 \notin Z
          <6> HIDE DEF Z
          <6> QED BY <4>1, <4>2
        <5> QED BY <4>2, <5>1
      <4>4. z \in I /\ SmLen(d, z) # 0
        <5>1. b[z] = b[z-1] + IF z \in SmIndices(d, dir) THEN SmLen(d, z) ELSE 0
          BY <4>2, SmBytesFacts DEF Dirs
        <5>2. z \in I
          <6> SUFFICES ASSUME z \notin SmIndices(d, dir) PROVE FALSE
            OBVIOUS
          <6> QED BY <4>2, <4>3, <5>1
        <5>3. SmLen(d, z) \in Nat
          BY <1>2, <5>2
        <5> HIDE DEF b
        <5> QED BY <4>2, <4>3, <5>1, <5>2, <5>3
      <4>5. z \in T
        BY <1>2, <4>4
      <4>6. f <= z /\ f \in Nat /\ z \in Nat
        BY <1>2, <2>1, <2>2, <4>2, <4>5
      <4> QED BY <4>2, <4>6
    <3> QED BY <3>1, <3>2
  <2>4. PICK n : Mine(d, dir) = {n}
    <3>1. Mine(d, dir) # {}
      <4> SUFFICES ASSUME Mine(d, dir) = {} PROVE FALSE
        OBVIOUS
      <4>1. b[N] = 0
        BY DEF Placed
      <4>2. b[i] <= b[N] /\ b[i-1] \in Nat /\ b[i] = b[i-1] + SmLen(d, i) /\ SmLen(d, i) \in Nat
        BY <1>2, <1>4
      <4> HIDE DEF b, N
      <4> QED BY <4>1, <4>2
    <3> QED BY <1>6, <3>1 DEF Mine
  <2>5. FmmuAt(d, F, dir, a, N, n) /\ b[N] # 0
    <3>1. FmmuAt(d, F, dir, a, N, n)
      BY <2>4 DEF Placed
    <3>2. b[i] <= b[N] /\ b[i-1] \in Nat /\ b[i] = b[i-1] + SmLen(d, i) /\ SmLen(d, i) \in Nat
      BY <1>2, <1>4
    <3>3. b[N] # 0
      <4> HIDE DEF b, N
      <4> QED BY <3>2
    <3> QED BY <3>1, <3>3
  <2>6. F[n] = Window(a, b[N], F[n].phys, dir) /\ F[n].phys = Sms(d)[f].phys
    BY <1>3, <1>6, <2>2, <2>3, <2>5 DEF FmmuAt
  <2>7. Sms(d)[i].phys - Sms(d)[f].phys = b[i-1]
    <3>1. CASE i = f
      BY <1>2, <2>3, <3>1
    <3>2. CASE i # f
      <4>1. b[f] - b[f-1] > 0 /\ b[i] - b[i-1] > 0
        <5>1. /\ b[f] = b[f-1] + SmLen(d, f) /\ b[i] = b[i-1] + SmLen(d, i)
              /\ b[f-1] \in Nat /\ b[i-1] \in Nat /\ SmLen(d, f) \in Nat /\ SmLen(d, i) \in Nat
          BY <1>2, <1>4, <2>2
        <5> HIDE DEF b
        <5> QED BY <2>2, <5>1
      <4>2. Sms(d)[i].phys - Sms(d)[f].phys = b[i-1] - b[f-1]
        BY <1>6, <2>2, <3>2, <4>1 DEF SideBySide
      <4>3. b[i-1] \in Nat
        BY <1>4
      <4> HIDE DEF b
      <4> QED BY <2>3, <4>2, <4>3
    <3> QED BY <3>1, <3>2
  <2>8. /\ b[i-1] \in Nat /\ b[N] \in Nat /\ SmLen(d, i) \in Nat /\ b[i] = b[i-1] + SmLen(d, i)
        /\ b[i] <= b[N] /\ Sms(d)[i].phys \in Nat /\ Sms(d)[f].phys \in Nat
    BY <1>1, <1>2, <1>4, <2>2
  <2> DEFINE at == Sms(d)[i].phys
             ph == Sms(d)[f].phys
             len == SmLen(d, i)
  <2>9. /\ ph <= at /\ at + len <= ph + b[N] /\ a + 0 + (at - ph) = a + b[i-1] /\ a + 0 = a
    <3>1. /\ at - ph = b[i-1] /\ b[i-1] \in Nat /\ b[N] \in Nat /\ len \in Nat
          /\ b[i-1] + len <= b[N] /\ at \in Nat /\ ph \in Nat
      BY <2>7, <2>8
    <3> DEFINE x == b[i-1]
               y == b[N]
    <3>2. at - ph = x /\ x \in Nat /\ y \in Nat /\ len \in Nat /\ x + len <= y /\ at \in Nat /\ ph \in Nat
      BY <3>1
    <3>3. ph <= at /\ at + len <= ph + y /\ a + 0 + (at - ph) = a + x /\ a + 0 = a
      <4> HIDE DEF x, y, at, ph, len
      <4> QED BY <3>2
    <3> QED BY <3>3
  <2>10. F[n] = Window(a + 0, b[N], F[n].phys, dir) /\ F[n].phys = ph
    BY <2>6, <2>9
  <2>11. n \in Mine(d, dir) /\ 0 \in Nat
    BY <2>4
  <2>12. F[n].phys \in Nat
    BY <2>8, <2>10
  <2> HIDE DEF b, N, at, ph, len
  <2> QED BY <1>6, <2>8, <2>9, <2>10, <2>11, <2>12 DEF b, at, len
<1> QED BY <1>5, <1>6

\* A sync manager that carries data is mapped by that FMMU and no other.
LEMMA ServedAlone ==
  ASSUME NEW d \in Devices, NEW A, Complete(d, fmmu[d], sm[d], A),
         NEW dir \in Dirs, SideBySide(d, dir), NEW i \in SmIndices(d, dir)
  PROVE  LET phys == Sms(d)[i].phys
             bytes == SmBytes[d][dir]
             len == bytes[i] - bytes[i-1]
         IN /\ sm[d][i] = SmConfig(d, i, len)
            /\ len > 0 => \E n \in Fmmus(d) :
                  /\ Maps(d, dir, phys, len) = {n}
                  /\ fmmu[d][n].phys <= phys /\ phys + len <= fmmu[d][n].phys + fmmu[d][n].len
                  /\ fmmu[d][n].start + (phys - fmmu[d][n].phys) = A[dir] + bytes[i-1]
<1> DEFINE b == SmBytes[d][dir]
           N == Len(Sms(d))
           F == fmmu[d]
           at == Sms(d)[i].phys
           len == SmLen(d, i)
           a == A[dir]
<1>1. N \in Nat /\ b \in [0..N -> Nat]
  BY SmBytesFacts DEF Dirs
<1>2. /\ i \in 1..N /\ len \in Nat /\ b[i] = b[i-1] + len /\ b[i-1] \in Nat /\ i <= N /\ at \in Nat
  <2>1. i \in 1..N /\ len \in Nat /\ b[i] = b[i-1] + len
    BY SmBytesBetween
  <2>2. i - 1 \in 0..N /\ i <= N
    BY <1>1, <2>1
  <2>3. at \in Nat
    BY SmLenNat DEF SmIndices
  <2> QED BY <1>1, <2>1, <2>2, <2>3
<1>3. b[i] - b[i-1] = len
  <2> HIDE DEF b, len
  <2> QED BY <1>2
<1>4. sm[d][i] = SmConfig(d, i, len)
  BY <1>2 DEF Complete, Placed
<1>5. SUFFICES ASSUME len > 0
               PROVE  \E n \in Fmmus(d) :
                  /\ Maps(d, dir, at, len) = {n}
                  /\ F[n].phys <= at /\ at + len <= F[n].phys + F[n].len
                  /\ F[n].start + (at - F[n].phys) = a + b[i-1]
  BY <1>3, <1>4
<1>6. PICK n \in Mine(d, dir) : \E x \in Nat, l \in Nat :
           /\ F[n] = Window(a + x, l, F[n].phys, dir) /\ F[n].phys \in Nat
           /\ F[n].phys <= at /\ at + len <= F[n].phys + l
           /\ a + x + (at - F[n].phys) = a + b[i-1] /\ (~ HasCoe(d) => n = i)
  <2>1. Placed(d, F, sm[d], dir, a, Len(Sms(d))) /\ a \in Nat
    BY DEF Complete
  <2> HIDE DEF F, a
  <2> QED BY <1>5, <2>1, Served
<1>7. PICK x \in Nat, l \in Nat :
           /\ F[n] = Window(a + x, l, F[n].phys, dir) /\ F[n].phys \in Nat
           /\ F[n].phys <= at /\ at + len <= F[n].phys + l
           /\ a + x + (at - F[n].phys) = a + b[i-1] /\ (~ HasCoe(d) => n = i)
  BY <1>6
<1>8. F[n].enable /\ F[n].start = a + x /\ F[n].len = l /\ F[n].dir = dir
  <2> HIDE DEF F, a
  <2> QED BY <1>7, WriteFacts
<1>9. n \in Fmmus(d)
  BY MineFacts
<1>10. n \in Maps(d, dir, at, len)
  <2>1. F[n].phys < at + len /\ at < F[n].phys + F[n].len
    <3> DEFINE ph == F[n].phys
    <3>1. ph \in Nat /\ ph <= at /\ at + len <= ph + l /\ F[n].len = l
      BY <1>7, <1>8
    <3> HIDE DEF ph, at, len
    <3>2. ph < at + len /\ at < ph + l
      BY <1>2, <1>5, <3>1
    <3> QED BY <3>1, <3>2 DEF ph
  <2> QED BY <1>8, <1>9, <2>1 DEF Maps
<1>11. ASSUME NEW m \in Maps(d, dir, at, len) PROVE m = n
  <2>1. m \in Fmmus(d) /\ F[m].enable /\ F[m].dir = dir /\ F[m].phys < at + len
        /\ at < F[m].phys + F[m].len
    BY DEF Maps
  <2>2. PICK w \in Dirs : InUse(d, fmmu[d], A, m, w)
    BY <2>1, WindowsOf
  <2>3. w = dir /\ m \in Mine(d, dir)
    BY <2>1, <2>2 DEF InUse
  <2>4. CASE HasCoe(d)
    BY <2>3, <2>4 DEF Mine
  <2>5. CASE ~ HasCoe(d)
    <3> SUFFICES ASSUME m # i PROVE FALSE
      BY <1>7, <2>5
    <3>1. m \in SmIndices(d, dir)
      BY <2>3, <2>5 DEF Mine
    <3>2. F[m].phys = Sms(d)[m].phys /\ F[m].len = SmLen(d, m)
      BY <2>2, <2>5 DEF InUse
    <3>3. SmLen(d, m) \in Nat /\ Sms(d)[m].phys \in Nat /\ b[m] - b[m-1] = SmLen(d, m)
      <4>1. m \in 1..N /\ SmLen(d, m) \in Nat /\ b[m] = b[m-1] + SmLen(d, m)
        BY <3>1, SmBytesBetween
      <4>2. m - 1 \in 0..N
        BY <1>1, <4>1
      <4>3. b[m-1] \in Nat
        BY <1>1, <4>2
      <4>4. Sms(d)[m].phys \in Nat
        BY <3>1, SmLenNat DEF SmIndices
      <4> HIDE DEF b
      <4> QED BY <4>1, <4>3, <4>4
    <3>4. at + len <= Sms(d)[m].phys \/ Sms(d)[m].phys + SmLen(d, m) <= at
      BY <1>3, <1>5, <2>5, <3>1, <3>3 DEF SideBySide
    <3> DEFINE pm == Sms(d)[m].phys
               lm == SmLen(d, m)
    <3>5. pm < at + len /\ at < pm + lm /\ pm \in Nat /\ lm \in Nat
      BY <2>1, <3>2, <3>3
    <3> HIDE DEF pm, lm, at, len
    <3> QED BY <1>2, <3>4, <3>5 DEF pm, lm
  <2> QED BY <2>4, <2>5, <2>3, <1>6 DEF Mine
<1>12. Maps(d, dir, at, len) = {n}
  BY <1>10, <1>11
<1> QED BY <1>7, <1>8, <1>9, <1>12

\* The logical addresses of the segments of the k-th SubDevice.
Bases(p, o, k) == [dir \in Dirs |-> p.start + o[k][dir][1]]

\* A group that is laid out.
LEMMA Finished ==
  ASSUME NEW s \in Seq(Entry), NEW j, NEW p, NEW o, NEW F, NEW M, NEW max, ~ Mapping(j),
         Laid(s, j, p, o, 1, F, M, max), NEW k \in DOMAIN s
  PROVE  /\ s[k].id \in Devices /\ Complete(s[k].id, F[s[k].id], M[s[k].id], Bases(p, o, k))
         /\ p.start \in Nat /\ p.read \in Nat /\ p.len \in Nat /\ p.read <= p.len /\ p.len <= max
         /\ \A dir \in Dirs :
              LET from == o[k][dir][1] to == o[k][dir][2] IN
              /\ from \in Nat /\ to \in Nat /\ to = from + Total(s[k].id, dir)
              /\ to <= IF dir = "in" THEN p.read ELSE p.len
              /\ dir = "out" => p.read <= from
              /\ \A h \in DOMAIN s : h < k => o[h][dir][2] <= from
<1>1. s[k].id \in Devices
  BY EntryDevice
<1>2. \A dir : Past(j, 1, k, dir) /\ ~ Current(j, k, dir)
  BY DEF Past, Current
<1>3. \A dir : /\ Stage(s[k].id, j, 1, k, dir) = Len(Sms(s[k].id))
               /\ Base(j, p, o, k, dir) = p.start + o[k][dir][1]
               /\ Limit(j, p, dir) = IF dir = "in" THEN p.read ELSE p.len
  BY <1>2 DEF Stage, Base, Limit
<1>4. \A dir \in Dirs : SegmentOK(s, j, p, o, k, dir)
  BY <1>2 DEF Laid, Segments
<1>5. /\ p.start \in Nat /\ p.read \in Nat /\ p.len \in Nat /\ p.read <= p.len /\ p.len <= max
  BY DEF Laid
<1>6. ASSUME NEW dir \in Dirs
      PROVE  LET from == o[k][dir][1] to == o[k][dir][2] IN
              /\ from \in Nat /\ to \in Nat /\ to = from + Total(s[k].id, dir)
              /\ to <= IF dir = "in" THEN p.read ELSE p.len
              /\ dir = "out" => p.read <= from
              /\ \A h \in DOMAIN s : h < k => o[h][dir][2] <= from
  <2>1. SegmentOK(s, j, p, o, k, dir) /\ Limit(j, p, dir) = IF dir = "in" THEN p.read ELSE p.len
    BY <1>3, <1>4
  <2> QED BY <2>1 DEF SegmentOK
<1>7. ASSUME NEW dir \in Dirs
      PROVE  /\ Bases(p, o, k)[dir] \in Nat
             /\ Placed(s[k].id, F[s[k].id], M[s[k].id], dir, Bases(p, o, k)[dir], Len(Sms(s[k].id)))
  <2>1. Bases(p, o, k)[dir] = p.start + o[k][dir][1] /\ o[k][dir][1] \in Nat
    BY <1>6 DEF Bases
  <2>2. Placed(s[k].id, F[s[k].id], M[s[k].id], dir, Base(j, p, o, k, dir), Stage(s[k].id, j, 1, k, dir))
    BY DEF Laid, Registers
  <2> QED BY <1>3, <1>5, <2>1, <2>2
<1>8. Unused(s[k].id, F[s[k].id])
  BY DEF Laid, Registers
<1>9. Complete(s[k].id, F[s[k].id], M[s[k].id], Bases(p, o, k))
  BY <1>7, <1>8 DEF Complete
<1> QED BY <1>1, <1>5, <1>6, <1>9

-----------------------------------------------------------------------------
\* The layout of all groups.

GroupLaid(g) == Laid(subs[g], job[g], pdi[g], io[g], maps[g], fmmu, sm, MaxPdi[g])

\* The process data of two groups have room for both.
Apart ==
  \A g, h \in Groups : g # h /\ subs[g] # <<>> /\ subs[h] # <<>> =>
    \/ pdi[g].start + MaxPdi[g] <= pdi[h].start
    \/ pdi[h].start + MaxPdi[h] <= pdi[g].start

\* FMMU n of the k-th SubDevice of group g claims logical addresses for dir.
Claims(g, k, dir, v) ==
  /\ v[1] = subs[g][k].id
  /\ InUse(v[1], fmmu[v[1]], Bases(pdi[g], io[g], k), v[2], dir)

\* From where to where.
LEMMA ClaimRange ==
  ASSUME GroupsInv, NEW g \in Groups, GroupLaid(g), maps[g] = 1, ~ Mapping(job[g]),
         NEW k \in DOMAIN subs[g], NEW dir \in Dirs, NEW v, Claims(g, k, dir, v)
  PROVE  LET f == fmmu[v[1]][v[2]]
             from == pdi[g].start + io[g][k][dir][1]
             to == pdi[g].start + io[g][k][dir][2]
         IN /\ f.start \in Nat /\ f.len \in Nat /\ from <= f.start /\ f.start + f.len <= to
            /\ from \in Nat /\ to \in Nat /\ to <= pdi[g].start + MaxPdi[g]
            /\ pdi[g].start <= from /\ pdi[g].start \in Nat
<1> DEFINE p == pdi[g]
           f == fmmu[v[1]][v[2]]
           x1 == io[g][k][dir][1]
           x2 == io[g][k][dir][2]
           d == subs[g][k].id
<1>1. subs[g] \in Seq(Entry)
  BY DEF GroupsInv, GroupsOK
<1>2. /\ p.start \in Nat /\ p.read \in Nat /\ p.len \in Nat /\ p.read <= p.len
      /\ p.len <= MaxPdi[g] /\ x1 \in Nat /\ x2 \in Nat /\ x2 = x1 + Total(d, dir)
      /\ x2 <= IF dir = "in" THEN p.read ELSE p.len
  BY <1>1, Finished, SMTT(40) DEF GroupLaid
<1>3. PICK x \in Nat, l \in Nat :
        f.start = Bases(p, io[g], k)[dir] + x /\ f.len = l /\ x + l <= Total(d, dir)
  BY DEF Claims, InUse
<1>4. Bases(p, io[g], k)[dir] = p.start + x1
  BY DEF Bases
<1>5. MaxPdi[g] \in Nat
  BY SizesAssumption
<1> DEFINE ps == p.start
           pr == p.read
           pl == p.len
           fs == f.start
           t == Total(d, dir)
           mx == MaxPdi[g]
<1>6. /\ ps \in Nat /\ pr \in Nat /\ pl \in Nat /\ pr <= pl /\ pl <= mx /\ mx \in Nat /\ x1 \in Nat
      /\ x2 \in Nat /\ x2 = x1 + t /\ (x2 <= pr \/ x2 <= pl) /\ fs = ps + x1 + x /\ f.len = l
      /\ x + l <= t
  BY <1>2, <1>3, <1>4, <1>5
<1>7. t \in Int
  <2>1. d \in Devices
    BY <1>1, EntryDevice
  <2>2. SmBytes[d][dir] \in [0..Len(Sms(d)) -> Nat] /\ Len(Sms(d)) \in Nat
    BY <2>1, SmBytesFacts DEF Dirs
  <2> QED BY <2>2 DEF Total
<1>8. /\ fs \in Nat /\ ps + x1 <= fs /\ fs + l <= ps + x2 /\ ps + x1 \in Nat /\ ps + x2 \in Nat
      /\ ps + x2 <= ps + mx /\ ps <= ps + x1
  <2> HIDE DEF p, f, x1, x2, ps, pr, pl, fs, t, mx
  <2> QED BY <1>6, <1>7
<1> QED BY <1>6, <1>8

\* Claims of different SubDevices, or of different FMMUs of a SubDevice, are apart.
LEMMA ClaimsApart ==
  ASSUME GroupsInv, Apart, NEW g \in Groups, NEW h \in Groups,
         GroupLaid(g), maps[g] = 1, ~ Mapping(job[g]),
         GroupLaid(h), maps[h] = 1, ~ Mapping(job[h]),
         NEW k \in DOMAIN subs[g], NEW m \in DOMAIN subs[h], NEW a \in Dirs, NEW b \in Dirs,
         NEW v, NEW w, Claims(g, k, a, v), Claims(h, m, b, w), v[1] # w[1] \/ v[2] # w[2]
  PROVE  LET e == fmmu[v[1]][v[2]] f == fmmu[w[1]][w[2]]
         IN e.start + e.len <= f.start \/ f.start + f.len <= e.start
<1> DEFINE e == fmmu[v[1]][v[2]]
           f == fmmu[w[1]][w[2]]
           ef == pdi[g].start + io[g][k][a][1]
           et == pdi[g].start + io[g][k][a][2]
           ff == pdi[h].start + io[h][m][b][1]
           ft == pdi[h].start + io[h][m][b][2]
           es == e.start
           el == e.len
           fs == f.start
           fl == f.len
<1>1. /\ es \in Nat /\ el \in Nat /\ ef <= es /\ es + el <= et
      /\ ef \in Nat /\ et \in Nat /\ et <= pdi[g].start + MaxPdi[g]
      /\ pdi[g].start <= ef /\ pdi[g].start \in Nat
  BY ClaimRange
<1>2. /\ fs \in Nat /\ fl \in Nat /\ ff <= fs /\ fs + fl <= ft
      /\ ff \in Nat /\ ft \in Nat /\ ft <= pdi[h].start + MaxPdi[h]
      /\ pdi[h].start <= ff /\ pdi[h].start \in Nat
  BY ClaimRange
<1>3. SUFFICES es + el <= fs \/ fs + fl <= es
  OBVIOUS
<1>4. ASSUME et <= ff \/ ft <= ef PROVE es + el <= fs \/ fs + fl <= es
  <2> HIDE DEF es, el, fs, fl, ef, et, ff, ft
  <2> QED BY <1>1, <1>2, <1>4
<1>5. subs[g] \in Seq(Entry) /\ subs[h] \in Seq(Entry)
  BY DEF GroupsInv, GroupsOK
<1>6. CASE g # h
  <2>1. subs[g] # <<>> /\ subs[h] # <<>>
    OBVIOUS
  <2>2. \/ pdi[g].start + MaxPdi[g] <= pdi[h].start
        \/ pdi[h].start + MaxPdi[h] <= pdi[g].start
    BY <1>6, <2>1 DEF Apart
  <2> DEFINE gs == pdi[g].start
             hs == pdi[h].start
             gm == MaxPdi[g]
             hm == MaxPdi[h]
  <2>3. /\ gs \in Nat /\ hs \in Nat /\ gm \in Nat /\ hm \in Nat /\ et <= gs + gm /\ gs <= ef
        /\ ft <= hs + hm /\ hs <= ff /\ (gs + gm <= hs \/ hs + hm <= gs)
        /\ ef \in Nat /\ et \in Nat /\ ff \in Nat /\ ft \in Nat
    BY <1>1, <1>2, <2>2, SizesAssumption
  <2>4. et <= ff \/ ft <= ef
    <3> HIDE DEF gs, hs, gm, hm, ef, et, ff, ft
    <3> QED BY <2>3
  <2> QED BY <1>4, <2>4
<1>7. CASE g = h /\ (a # b \/ k # m)
  <2> DEFINE ps == pdi[g].start
             r == pdi[g].read
             k1 == io[g][k][a][1]
             k2 == io[g][k][a][2]
             m1 == io[g][m][b][1]
             m2 == io[g][m][b][2]
  <2>1. /\ k1 \in Nat /\ k2 \in Nat /\ (a = "in" => k2 <= r) /\ (a = "out" => r <= k1)
        /\ \A x \in DOMAIN subs[g] : x < k => io[g][x][a][2] <= k1
        /\ r \in Nat /\ ps \in Nat
    BY <1>5, Finished, SMTT(60) DEF GroupLaid
  <2>2. /\ m1 \in Nat /\ m2 \in Nat /\ (b = "in" => m2 <= r) /\ (b = "out" => r <= m1)
        /\ \A x \in DOMAIN subs[g] : x < m => io[g][x][b][2] <= m1
    BY <1>5, <1>7, Finished, SMTT(40) DEF GroupLaid
  <2>3. k2 <= m1 \/ m2 <= k1
    <3>1. CASE a # b
      <4>1. (a = "in" /\ b = "out") \/ (a = "out" /\ b = "in")
        BY <3>1 DEF Dirs
      <4>2. (k2 <= r /\ r <= m1) \/ (m2 <= r /\ r <= k1)
        BY <2>1, <2>2, <4>1
      <4> HIDE DEF k1, k2, m1, m2, r, ps
      <4> QED BY <2>1, <2>2, <4>2
    <3>2. CASE a = b /\ k # m
      <4>1. k < m \/ m < k
        BY <1>5, <1>7, <3>2, EntryDevice
      <4> QED BY <1>7, <2>1, <2>2, <3>2, <4>1
    <3> QED BY <1>7, <3>1, <3>2
  <2>4. ef = ps + k1 /\ et = ps + k2 /\ ff = ps + m1 /\ ft = ps + m2
    BY <1>7
  <2>5. et <= ff \/ ft <= ef
    <3> HIDE DEF ef, et, ff, ft, k1, k2, m1, m2, r, ps
    <3> QED BY <2>1, <2>2, <2>3, <2>4
  <2> QED BY <1>4, <2>5
<1>8. CASE g = h /\ a = b /\ k = m
  <2> DEFINE d == subs[g][k].id
             A == Bases(pdi[g], io[g], k)
             y == SmBytes[d][a]
             N == Len(Sms(d))
  <2>1. v[1] = d /\ w[1] = d /\ v[2] # w[2] /\ d \in Devices
        /\ InUse(d, fmmu[d], A, v[2], a) /\ InUse(d, fmmu[d], A, w[2], a)
    BY <1>5, <1>8, EntryDevice DEF Claims
  <2>2. ~ HasCoe(d) /\ v[2] \in SmIndices(d, a) /\ w[2] \in SmIndices(d, a)
    <3>1. v[2] \in Mine(d, a) /\ w[2] \in Mine(d, a)
      BY <2>1 DEF InUse
    <3> QED BY <2>1, <3>1 DEF Mine
  <2>3. /\ es = A[a] + y[v[2]-1] /\ es + el = A[a] + y[v[2]]
        /\ fs = A[a] + y[w[2]-1] /\ fs + fl = A[a] + y[w[2]]
    <3>1. PICK x \in Nat, l \in Nat :
            es = A[a] + x /\ el = l /\ x = y[v[2]-1] /\ x + l = y[v[2]]
      BY <2>1, <2>2, ZenonT(60) DEF InUse
    <3>2. PICK z \in Nat, n \in Nat :
            fs = A[a] + z /\ fl = n /\ z = y[w[2]-1] /\ z + n = y[w[2]]
      BY <2>1, <2>2 DEF InUse
    <3>3. A[a] \in Nat
      <4>1. Complete(d, fmmu[d], sm[d], A)
        BY <1>5, Finished DEF GroupLaid
      <4> QED BY <4>1 DEF Complete
    <3> DEFINE q == A[a]
    <3>4. q \in Nat /\ es = q + x /\ el = l /\ fs = q + z /\ fl = n
      BY <3>1, <3>2, <3>3
    <3>5. es + el = q + (x + l) /\ fs + fl = q + (z + n)
      <4> HIDE DEF q, es, el, fs, fl
      <4> QED BY <3>4
    <3> HIDE DEF es, el, fs, fl, y, A
    <3> QED BY <3>1, <3>2, <3>5
  <2>4. ASSUME NEW i \in SmIndices(d, a), NEW n \in SmIndices(d, a), i < n
        PROVE  y[i] <= y[n-1]
    <3>1. N \in Nat /\ i \in 1..N /\ n \in 1..N
      BY <2>1, SmBytesBetween, SmBytesFacts DEF Dirs
    <3>2. i \in 0..N /\ n - 1 \in i..N
      BY <2>4, <3>1
    <3> QED BY <2>1, <3>2, SmBytesBetween
  <2>5. v[2] < w[2] \/ w[2] < v[2]
    <3>1. v[2] \in Nat /\ w[2] \in Nat
      <4>1. v[2] \in 1..N /\ w[2] \in 1..N
        BY <2>1, <2>2, SmBytesBetween
      <4> QED BY <4>1
    <3> QED BY <2>1, <3>1
  <2>6. y[v[2]] <= y[w[2]-1] \/ y[w[2]] <= y[v[2]-1]
    BY <2>2, <2>4, <2>5
  <2>7. /\ y[v[2]] \in Nat /\ y[w[2]] \in Nat /\ y[v[2]-1] \in Nat /\ y[w[2]-1] \in Nat
        /\ A[a] \in Nat
    <3>1. N \in Nat /\ y \in [0..N -> Nat]
      BY <2>1, SmBytesFacts DEF Dirs
    <3>2. v[2] \in 1..N /\ w[2] \in 1..N
      BY <2>1, <2>2, SmBytesBetween
    <3>3. v[2] \in 0..N /\ w[2] \in 0..N /\ v[2] - 1 \in 0..N /\ w[2] - 1 \in 0..N
      BY <3>1, <3>2
    <3>4. A[a] \in Nat
      <4>1. Complete(d, fmmu[d], sm[d], A)
        BY <1>5, Finished DEF GroupLaid
      <4> QED BY <4>1 DEF Complete
    <3> HIDE DEF y, N, A
    <3> QED BY <3>1, <3>3, <3>4
  <2> DEFINE q == A[a]
             v1 == y[v[2]-1]
             v2 == y[v[2]]
             w1 == y[w[2]-1]
             w2 == y[w[2]]
  <2>8. /\ q \in Nat /\ v1 \in Nat /\ v2 \in Nat /\ w1 \in Nat /\ w2 \in Nat
        /\ (v2 <= w1 \/ w2 <= v1)
        /\ es = q + v1 /\ es + el = q + v2 /\ fs = q + w1 /\ fs + fl = q + w2
    <3> HIDE DEF es, el, fs, fl, y, A
    <3> QED BY <2>3, <2>6, <2>7
  <2> HIDE DEF es, el, fs, fl, q, v1, v2, w1, w2
  <2> QED BY <2>8
<1> QED BY <1>6, <1>7, <1>8

\* Registers and records keep their shape, whatever happens.
ShapesOK ==
  /\ fmmu = [d \in Devices |-> fmmu[d]] /\ sm = [d \in Devices |-> sm[d]]
  /\ \A d \in Devices : AreRegisters(d, fmmu[d], sm[d])
  /\ pdi = [g \in Groups |-> pdi[g]] /\ io = [g \in Groups |-> io[g]]
  /\ \A g \in Groups : pdi[g] = [f \in {"start", "read", "len"} |-> pdi[g][f]]
  /\ \A g \in Groups : \A k \in DOMAIN subs[g] :
       k \in DOMAIN io[g] /\ io[g][k] = [f \in Dirs |-> io[g][k][f]]
  /\ maps \in [Groups -> Nat]

\* Only a group in PRE-OP lays out its process data, and not before init is done.
MappersInv ==
  /\ pc \notin Idles => \A g \in Groups : maps[g] = 0
  /\ \A g \in Groups : Mapping(job[g]) => ty[g] = "PreOp"

\* The SubDevices that init counted have been reset.
BlankInv ==
  ~ left /\ pc \in {"address"} \cup Addressed =>
    \A k \in 1..num : \A n \in Fmmus(ring[k]) : fmmu[ring[k]][n] = NoFmmu

\* The groups init has come to have process data one behind the other.
Early == {"reset_state", "reset_memory", "address", "new", "dc", "assign"}
OrderOK ==
  /\ order \in Seq(Groups) /\ \A a, b \in DOMAIN order : order[a] = order[b] => a = b
  /\ \A g \in Groups : subs[g] # <<>> => \E a \in DOMAIN order : order[a] = g
Placement ==
  /\ gi \in 1..(Len(order) + 1) /\ offset \in Nat
  /\ IF pc = "wait_all" THEN gi = Len(order) + 1 ELSE gi <= Len(order)
  /\ \A a \in 1..(gi - 1) : pdi[order[a]].start + MaxPdi[order[a]] <= offset
  /\ \A a, b \in 1..(gi - 1) : a < b => pdi[order[a]].start + MaxPdi[order[a]] <= pdi[order[b]].start
  /\ pc \in {"assign_pdi", "request_pre_op", "wait_pre_op"} => pdi[order[gi]].start = offset
StartInv ==
  ~ left => /\ \A g \in Groups : pdi[g].start \in Nat
            /\ pc \in Early => gi = 1 /\ offset = 0
            /\ pc \in Grouped => OrderOK /\ Placement
            /\ pc = "done" => Apart

\* Every group that was laid out at most once since the reset is as it should be.
LaidInv ==
  ~ left /\ pc = "done" =>
    \A g \in Groups : ty[g] # "lost" /\ maps[g] \in {0, 1} => GroupLaid(g)

LayoutInv == ShapesOK /\ MappersInv /\ BlankInv /\ StartInv /\ LaidInv

\* Then the layout is sound.
LEMMA LayoutFollows ==
  ASSUME LayoutPossible, GroupsInv, LayoutInv
  PROVE  LayoutSound
<1>1. ASSUME NEW g \in LaidOut
      PROVE  /\ g \in Groups /\ GroupLaid(g) /\ maps[g] = 1 /\ ~ Mapping(job[g])
             /\ subs[g] \in Seq(Entry)
  <2>1. g \in Groups /\ pc = "done" /\ ~ left /\ ty[g] \in HasPdi /\ maps[g] = 1
    BY DEF LaidOut
  <2>2. ty[g] # "lost" /\ ty[g] # "PreOp"
    BY <2>1, SMTT(40) DEF HasPdi
  <2> QED BY <2>1, <2>2 DEF LayoutInv, LaidInv, MappersInv, GroupsInv, GroupsOK
<1>2. ASSUME NEW g \in LaidOut, NEW k \in DOMAIN subs[g], NEW dir \in Dirs PROVE Mapped(g, k, dir)
  <2> DEFINE p == pdi[g]
             d == subs[g][k].id
             A == Bases(pdi[g], io[g], k)
  <2>1. /\ d \in Devices /\ Complete(d, fmmu[d], sm[d], A) /\ p.start \in Nat
        /\ LET from == io[g][k][dir][1] to == io[g][k][dir][2] IN
           /\ from \in Nat /\ to \in Nat /\ to = from + Total(d, dir)
           /\ to <= IF dir = "in" THEN p.read ELSE p.len
           /\ dir = "out" => p.read <= from
    BY <1>1, Finished DEF GroupLaid
  <2>2. IF dir = "in" THEN 0 <= io[g][k][dir][1] /\ io[g][k][dir][2] <= pdi[g].read
        ELSE pdi[g].read <= io[g][k][dir][1] /\ io[g][k][dir][2] <= pdi[g].len
    BY <2>1 DEF Dirs
  <2>3. io[g][k][dir][2] - io[g][k][dir][1] = SmBytes[d][dir][Len(Sms(d))]
    <3>1. Total(d, dir) \in Int
      <4>1. SmBytes[d][dir] \in [0..Len(Sms(d)) -> Nat] /\ Len(Sms(d)) \in Nat
        BY <2>1, SmBytesFacts DEF Dirs
      <4> QED BY <4>1 DEF Total
    <3>2. io[g][k][dir][2] - io[g][k][dir][1] = Total(d, dir)
      BY <2>1, <3>1
    <3> QED BY <3>2 DEF Total
  <2>4. SideBySide(d, dir)
    BY <2>1 DEF LayoutPossible, Dirs
  <2>5. A[dir] = pdi[g].start + io[g][k][dir][1]
    BY SMTT(40) DEF Bases
  <2>6. ASSUME NEW i \in SmIndices(d, dir)
        PROVE  LET phys == Sms(d)[i].phys
                   len == SmBytes[d][dir][i] - SmBytes[d][dir][i-1]
               IN /\ sm[d][i] = SmConfig(d, i, len)
                  /\ len > 0 => \E n \in Fmmus(d) :
                       /\ Maps(d, dir, phys, len) = {n}
                       /\ fmmu[d][n].phys <= phys /\ phys + len <= fmmu[d][n].phys + fmmu[d][n].len
                       /\ fmmu[d][n].start + (phys - fmmu[d][n].phys)
                            = pdi[g].start + io[g][k][dir][1] + SmBytes[d][dir][i-1]
    <3>1. LET phys == Sms(d)[i].phys
              bytes == SmBytes[d][dir]
              len == bytes[i] - bytes[i-1]
          IN /\ sm[d][i] = SmConfig(d, i, len)
             /\ len > 0 => \E n \in Fmmus(d) :
                  /\ Maps(d, dir, phys, len) = {n}
                  /\ fmmu[d][n].phys <= phys /\ phys + len <= fmmu[d][n].phys + fmmu[d][n].len
                  /\ fmmu[d][n].start + (phys - fmmu[d][n].phys) = A[dir] + bytes[i-1]
      <4>1. d \in Devices /\ Complete(d, fmmu[d], sm[d], A)
        BY <2>1
      <4>2. SideBySide(d, dir)
        BY <2>4
      <4> HIDE DEF A, d
      <4> QED BY <4>1, <4>2, ServedAlone
    <3> QED BY <2>5, <3>1
  <2> QED BY <2>2, <2>3, <2>6 DEF Mapped
<1>3. \A g \in LaidOut : pdi[g].len <= MaxPdi[g]
  BY <1>1 DEF GroupLaid, Laid
<1>4. ASSUME NEW v \in Windows
      PROVE  \E g \in LaidOut : \E k \in DOMAIN subs[g] : \E dir \in Dirs : Claims(g, k, dir, v)
  <2>6. PICK s \in UNION {{subs[g][k] : k \in DOMAIN subs[g]} : g \in LaidOut} :
          v \in {<<s.id, i>> : i \in {n \in Fmmus(s.id) : fmmu[s.id][n].enable}}
    BY DEF Windows
  <2>7. PICK g \in LaidOut : \E k \in DOMAIN subs[g] : s = subs[g][k]
    BY <2>6
  <2>8. PICK k \in DOMAIN subs[g] : s = subs[g][k]
    BY <2>7
  <2>9. PICK i \in Fmmus(subs[g][k].id) :
          v = <<subs[g][k].id, i>> /\ fmmu[subs[g][k].id][i].enable
    BY <2>6, <2>8
  <2>1. /\ i \in Fmmus(subs[g][k].id) /\ v = <<subs[g][k].id, i>> /\ fmmu[subs[g][k].id][i].enable
    BY <2>9
  <2> DEFINE d == subs[g][k].id
             A == Bases(pdi[g], io[g], k)
  <2>2. d \in Devices /\ Complete(d, fmmu[d], sm[d], A)
    BY <1>1, Finished DEF GroupLaid
  <2>3. PICK dir \in Dirs : InUse(d, fmmu[d], A, i, dir)
    <3> HIDE DEF A
    <3> QED BY <2>1, <2>2, WindowsOf
  <2>4. v[1] = d /\ v[2] = i
    BY <2>1
  <2>5. Claims(g, k, dir, v)
    BY <2>3, <2>4 DEF Claims
  <2> QED BY <2>5
<1>5. ASSUME NEW v \in Windows, NEW w \in Windows, v # w
      PROVE  LET e == fmmu[v[1]][v[2]] f == fmmu[w[1]][w[2]]
             IN e.start + e.len <= f.start \/ f.start + f.len <= e.start
  <2>5. PICK g \in LaidOut : \E k \in DOMAIN subs[g] : \E dir \in Dirs : Claims(g, k, dir, v)
    BY <1>4
  <2>6. PICK h \in LaidOut : \E k \in DOMAIN subs[h] : \E dir \in Dirs : Claims(h, k, dir, w)
    BY <1>4
  <2>1. PICK k \in DOMAIN subs[g] : \E a \in Dirs : Claims(g, k, a, v)
    BY <2>5
  <2>2. PICK m \in DOMAIN subs[h] : \E b \in Dirs : Claims(h, m, b, w)
    BY <2>6
  <2>3. v[1] # w[1] \/ v[2] # w[2]
    <3>1. \A x \in Windows : x = <<x[1], x[2]>>
      BY DEF Windows
    <3> QED BY <1>5, <3>1
  <2>4. Apart
    BY <2>5 DEF LaidOut, LayoutInv, StartInv
  <2> QED BY <1>1, <2>1, <2>2, <2>3, <2>4, ClaimsApart
<1> QED BY <1>2, <1>3, <1>5 DEF LayoutSound, Dirs

\* Steps that touch no register, record or history of the layout.
Untouched == UNCHANGED <<fmmu, sm, pdi, io, maps>>
Quiet(g) == Untouched /\ ~ Mapping(job[g]) /\ ~ Mapping(job'[g]) /\ ty[g] # "lost"
Loses(g) == Untouched /\ ~ Mapping(job'[g]) /\ ty'[g] = "lost"

\* What the steps of a group have to do with the layout.
LEMMA LayoutKinds ==
  ASSUME GroupsInv, PhaseInv, NEW g \in Groups, GroupStep(g)
  PROVE  /\ pc = "done" /\ UNCHANGED <<ring, pc, left, subs, num, order, gi>>
         /\ \A h \in Groups \ {g} : job'[h] = job[h] /\ ty'[h] = ty[h]
         /\ \/ Quiet(g) \/ Loses(g) \/ IntoPreOpPdi(g) \/ CheckPreOp(g) \/ ConfigureSm(g)
            \/ SubDeviceDone(g) \/ DirectionDone(g)
<1>0. /\ pc = "done" /\ UNCHANGED <<ring, pc, left, subs, num, order, gi>> /\ GroupsOK
      /\ ty[g] = "lost" => job[g].op = "none"
      /\ \A h \in Groups \ {g} : job'[h] = job[h] /\ ty'[h] = ty[h]
  BY GroupFrame, GroupTimes DEF GroupsInv, PhaseInv, FreshInv
<1>1. ~ Mapping(NoJob)
  BY NoJobOK DEF Mapping
<1>2. CASE GroupFails(g)
  BY <1>0, <1>1, <1>2 DEF GroupFails, GroupsOK, devVars, Loses, Untouched
<1>3. CASE TransitionTo(g)
  <2>1. PICK t \in Transitions :
          Requests(g, [NoJob EXCEPT !.want = t[3],
            !.op = IF t[2] = "request_into_op" THEN "request_only" ELSE "request"])
    BY <1>3, Zenon DEF TransitionTo
  <2> DEFINE j == [NoJob EXCEPT !.want = t[3],
                !.op = IF t[2] = "request_into_op" THEN "request_only" ELSE "request"]
  <2>2. j = [f \in JobFields |-> j[f]] /\ j.k = 1 /\ j.want = t[3]
        /\ j.op \in {"request", "request_only"}
    BY DEF NoJob, JobFields
  <2>3. Requests(g, j)
    BY <2>1
  <2>4. t[3] \in States
    BY DEF Transitions, States
  <2>a. job[g].op = "none" /\ ty[g] # "lost"
    BY <1>3 DEF TransitionTo, Busy, Idle
  <2>b. Untouched
    BY <1>3, Zenon DEF TransitionTo, devVars, histVars, Untouched
  <2> HIDE DEF j
  <2>5. JobOK(j)
    BY <2>2, <2>4 DEF JobOK
  <2>6. job'[g] = j \/ job'[g].op = "poll" \/ job'[g] = NoJob
    BY <1>0, <2>2, <2>3, <2>5, RequestsStep
  <2>7. ~ Mapping(job'[g]) /\ ~ Mapping(job[g])
    BY <1>1, <2>2, <2>6, <2>a DEF Mapping
  <2> QED BY <1>0, <2>a, <2>b, <2>7 DEF Quiet
<1>4. CASE RequestState(g)
  <2> DEFINE j == [job[g] EXCEPT !.k = @ + 1]
  <2>1. /\ Requests(g, j) /\ Untouched /\ job[g].op \in {"request", "request_only"}
    BY <1>4 DEF RequestState, Busy, Untouched
  <2>2. j = [f \in JobFields |-> j[f]] /\ j.k = job[g].k + 1 /\ j.op = job[g].op
        /\ j.want = job[g].want /\ job[g].k \in Nat \ {0} /\ j.want \in States
    BY <1>0, <2>1 DEF GroupsOK, JobOK, JobFields
  <2> HIDE DEF j
  <2>3. JobOK(j)
    BY <2>1, <2>2 DEF JobOK
  <2>4. job'[g] = j \/ job'[g].op = "poll" \/ job'[g] = NoJob
    BY <1>0, <2>1, <2>2, <2>3, RequestsStep
  <2>5. ~ Mapping(job'[g]) /\ ~ Mapping(job[g]) /\ ty[g] # "lost"
    BY <1>0, <1>1, <2>1, <2>2, <2>4 DEF Mapping
  <2> QED BY <1>0, <2>1, <2>5 DEF Quiet
<1>5. CASE PollFrame(g)
  <2>1. PICK next :
        /\ job[g].op = "poll"
        /\ \/ job' = [job EXCEPT ![g].k = next] /\ UNCHANGED ty
           \/ job' = [job EXCEPT ![g] = NoJob] /\ ty' = [ty EXCEPT ![g] = job[g].want]
    BY <1>5 DEF PollFrame, Busy
  <2>2. job'[g].op = "poll" \/ job'[g] = NoJob
    BY <1>0, <2>1 DEF GroupsOK, JobOK, JobFields
  <2>3. Untouched
    BY <1>5, Zenon DEF PollFrame, devVars, histVars, Untouched
  <2>4. ~ Mapping(job'[g]) /\ ~ Mapping(job[g]) /\ ty[g] # "lost"
    BY <1>0, <1>1, <2>1, <2>2 DEF Mapping
  <2> QED BY <1>0, <2>3, <2>4 DEF Quiet
<1>6. CASE ConfigureDcSync(g)
  <2>1. Untouched
    BY <1>6, Zenon DEF ConfigureDcSync, histVars, Untouched
  <2>2. /\ job[g].op = "none" /\ ty[g] # "lost"
        /\ job'[g].op = "dc" \/ job' = job
    BY <1>6, DcJobs DEF PhaseInv
  <2>3. ~ Mapping(job'[g]) /\ ~ Mapping(job[g])
    BY <2>2 DEF Mapping
  <2> QED BY <1>0, <2>1, <2>2, <2>3 DEF Quiet
<1>7. CASE DcProgram(g) \/ DcActivate(g) \/ DcDone(g)
  <2>1. Untouched
    BY <1>7 DEF DcProgram, DcActivate, DcDone, Untouched, devVars, histVars
  <2>2. job[g].op = "dc" /\ (job'[g].op = "dc" \/ job'[g] = NoJob)
    BY <1>7, DcJobs DEF PhaseInv
  <2>3. ~ Mapping(job'[g]) /\ ~ Mapping(job[g]) /\ ty[g] # "lost"
    BY <1>0, <1>1, <2>2 DEF Mapping
  <2> QED BY <1>0, <2>1, <2>3 DEF Quiet
<1>8. CASE TxRxDc(g)
  <2>1. Untouched /\ job' = job /\ job[g].op = "none" /\ ty[g] # "lost"
    BY <1>8 DEF TxRxDc, Idle, Busy, Untouched, histVars
  <2>2. Quiet(g)
    BY <2>1 DEF Quiet, Mapping
  <2> QED BY <1>0, <2>2
<1> QED BY <1>0, <1>2, <1>3, <1>4, <1>5, <1>6, <1>7, <1>8 DEF GroupStep

\* It is enough to look at the group that makes the step.
LEMMA LayoutOf ==
  ASSUME GroupsInv, PhaseInv, LayoutInv, NEW g \in Groups,
         pc = "done", UNCHANGED <<ring, pc, left, subs, num, order, gi>>,
         ShapesOK', Mapping(job'[g]) => ty'[g] = "PreOp", pdi'[g].start = pdi[g].start,
         \A h \in Groups \ {g} :
           /\ job'[h] = job[h] /\ ty'[h] = ty[h] /\ pdi'[h] = pdi[h]
           /\ io'[h] = io[h] /\ maps'[h] = maps[h]
           /\ ~ left => \A k \in DOMAIN subs[h] :
                LET d == subs[h][k].id IN fmmu'[d] = fmmu[d] /\ sm'[d] = sm[d],
         ~ left /\ ty'[g] # "lost" /\ maps'[g] \in {0, 1} => GroupLaid(g)'
  PROVE  LayoutInv'
<1>1. pc' = "done" /\ pc' \notin {"address"} \cup Addressed /\ pc' \notin Early /\ pc' \notin Grouped
      /\ pc' \in Idles
  BY DEF Addressed, Early, Grouped, Known, Idles
<1>2. MappersInv'
  BY <1>1 DEF LayoutInv, MappersInv
<1>3. BlankInv'
  BY <1>1 DEF BlankInv
<1>4. StartInv'
  <2>1. \A h \in Groups : pdi'[h].start = pdi[h].start
    OBVIOUS
  <2> QED BY <1>1, <2>1 DEF LayoutInv, StartInv, Apart
<1>5. LaidInv'
  <2> SUFFICES ASSUME ~ left, NEW h \in Groups, h # g, ty[h] # "lost", maps[h] \in {0, 1}
               PROVE  GroupLaid(h)'
    BY DEF LaidInv
  <2>1. GroupLaid(h)
    BY DEF LayoutInv, LaidInv
  <2>2. Laid(subs[h], job[h], pdi[h], io[h], maps[h], fmmu', sm', MaxPdi[h])
    BY <2>1, LaidApart DEF GroupLaid
  <2>3. subs'[h] = subs[h] /\ job'[h] = job[h] /\ pdi'[h] = pdi[h] /\ io'[h] = io[h]
        /\ maps'[h] = maps[h]
    OBVIOUS
  <2> QED BY <2>2, <2>3 DEF GroupLaid
<1> QED BY <1>2, <1>3, <1>4, <1>5 DEF LayoutInv

\* Fields of a job that a step sets or keeps.
LEMMA JobSet ==
  ASSUME GroupsOK, NEW g \in Groups, NEW n, job' = [job EXCEPT ![g] = n]
  PROVE  job'[g] = n
BY DEF GroupsOK

\* A step that writes no register leaves the shapes alone when the group's
\* records keep theirs.
LEMMA ShapesKept ==
  ASSUME ShapesOK, NEW g \in Groups, UNCHANGED <<subs, fmmu, sm>>,
         pdi' = [pdi EXCEPT ![g] = pdi'[g]],
         pdi'[g] = [f \in {"start", "read", "len"} |-> pdi'[g][f]],
         io' = [io EXCEPT ![g] = io'[g]],
         \A k \in DOMAIN subs[g] : k \in DOMAIN io'[g] /\ io'[g][k] = [f \in Dirs |-> io'[g][k][f]],
         maps' \in [Groups -> Nat]
  PROVE  ShapesOK'
<1>1. pdi' = [h \in Groups |-> pdi'[h]] /\ io' = [h \in Groups |-> io'[h]]
  BY DEF ShapesOK
<1>2. ASSUME NEW h \in Groups PROVE pdi'[h] = [f \in {"start", "read", "len"} |-> pdi'[h][f]]
  <2>1. CASE h = g
    BY <2>1
  <2>2. CASE h # g
    <3>1. pdi'[h] = pdi[h]
      BY <2>2 DEF ShapesOK
    <3> QED BY <3>1 DEF ShapesOK
  <2> QED BY <2>1, <2>2
<1>3. ASSUME NEW h \in Groups, NEW k \in DOMAIN subs[h]
      PROVE  k \in DOMAIN io'[h] /\ io'[h][k] = [f \in Dirs |-> io'[h][k][f]]
  <2>1. CASE h = g
    BY <2>1
  <2>2. CASE h # g
    <3>1. io'[h] = io[h]
      BY <2>2 DEF ShapesOK
    <3>2. k \in DOMAIN io[h] /\ io[h][k] = [f \in Dirs |-> io[h][k][f]]
      BY DEF ShapesOK
    <3> QED BY <3>1, <3>2
  <2> QED BY <2>1, <2>2
<1>4. ShapesOK!1 /\ ShapesOK!2
  BY DEF ShapesOK
<1> QED BY <1>1, <1>2, <1>3, <1>4 DEF ShapesOK

\* A step that writes neither.
LEMMA SameShapes ==
  ASSUME ShapesOK, UNCHANGED <<fmmu, sm, pdi, io, subs>>, maps' \in [Groups -> Nat]
  PROVE  ShapesOK'
BY DEF ShapesOK

\* A step that changes the records and registers of group g only.
Only(g) ==
  /\ \A h \in Groups \ {g} : pdi'[h] = pdi[h] /\ io'[h] = io[h] /\ maps'[h] = maps[h]
  /\ ~ left => \A h \in Groups \ {g} : \A k \in DOMAIN subs[h] :
       LET d == subs[h][k].id IN fmmu'[d] = fmmu[d] /\ sm'[d] = sm[d]

\* After such a step it is enough that group g is as it should be.
LEMMA LayoutOnly ==
  ASSUME GroupsInv, PhaseInv, LayoutInv, NEW g \in Groups, GroupStep(g), ShapesOK', Only(g),
         Mapping(job'[g]) => ty'[g] = "PreOp", pdi'[g].start = pdi[g].start,
         ~ left /\ ty'[g] # "lost" /\ maps'[g] \in {0, 1} => GroupLaid(g)'
  PROVE  LayoutInv'
<1>1. /\ pc = "done" /\ UNCHANGED <<ring, pc, left, subs, num, order, gi>>
      /\ \A h \in Groups \ {g} : job'[h] = job[h] /\ ty'[h] = ty[h]
  BY LayoutKinds
<1>2. \A h \in Groups \ {g} :
        /\ job'[h] = job[h] /\ ty'[h] = ty[h] /\ pdi'[h] = pdi[h]
        /\ io'[h] = io[h] /\ maps'[h] = maps[h]
        /\ ~ left => \A k \in DOMAIN subs[h] :
             LET d == subs[h][k].id IN fmmu'[d] = fmmu[d] /\ sm'[d] = sm[d]
  BY <1>1 DEF Only
<1> QED BY <1>1, <1>2, LayoutOf

\* What a group that has been laid out once keeps.
LEMMA WasLaid ==
  ASSUME GroupsInv, LayoutInv, pc = "done", ~ left, NEW g \in Groups, ty[g] # "lost",
         maps[g] \in {0, 1}
  PROVE  Laid(subs[g], job[g], pdi[g], io[g], maps[g], fmmu, sm, MaxPdi[g])
         /\ subs[g] \in Seq(Entry)
BY DEF LayoutInv, LaidInv, GroupLaid, GroupsInv, GroupsOK

\* into_pre_op_pdi.
LEMMA BeginLayout ==
  ASSUME GroupsInv, PhaseInv, LayoutInv, NEW g \in Groups, IntoPreOpPdi(g)
  PROVE  LayoutInv'
<1> DEFINE n == [NoJob EXCEPT !.op = "fmmu", !.pos = pdi[g].start]
<1>1. /\ pc = "done" /\ job[g].op = "none" /\ ty[g] = "PreOp" /\ UNCHANGED <<ty, subs, left>>
      /\ job' = [job EXCEPT ![g] = n] /\ maps' = [maps EXCEPT ![g] = @ + 1]
      /\ UNCHANGED <<fmmu, sm, pdi, io>> /\ GroupsOK /\ ShapesOK
  BY DEF IntoPreOpPdi, Idle, Busy, devVars, GroupsInv, LayoutInv
<1>2. /\ n.op = "fmmu" /\ n.dir = "in" /\ n.k = 1 /\ n.i = 0 /\ n.seg = 0 /\ n.pos = pdi[g].start
  BY DEF NoJob
<1>3. job'[g] = n
  BY <1>1, JobSet
<1> HIDE DEF n
<1>4. maps \in [Groups -> Nat] /\ maps' \in [Groups -> Nat] /\ maps'[g] = maps[g] + 1
  BY <1>1 DEF ShapesOK
<1>5. Only(g)
  BY <1>1 DEF Only, ShapesOK
<1>6. ShapesOK'
  BY <1>1, <1>4, SameShapes
<1>7. ASSUME ~ left, maps'[g] \in {0, 1} PROVE GroupLaid(g)'
  <2>1. maps[g] = 0 /\ maps'[g] = 1
    BY <1>4, <1>7
  <2>2. Laid(subs[g], job[g], pdi[g], io[g], 0, fmmu, sm, MaxPdi[g]) /\ subs[g] \in Seq(Entry)
    BY <1>1, <1>7, <2>1, WasLaid
  <2>3. ~ Mapping(job[g]) /\ Mapping(n)
    BY <1>1, <1>2 DEF Mapping
  <2>4. Laid(subs[g], n, pdi[g], io[g], 1, fmmu, sm, MaxPdi[g])
    BY <1>2, <2>2, <2>3, LaidBegin
  <2> QED BY <1>1, <1>3, <2>1, <2>4 DEF GroupLaid
<1>8. ty'[g] = "PreOp" /\ pdi'[g].start = pdi[g].start
  BY <1>1
<1>9. GroupStep(g)
  BY DEF GroupStep
<1> QED BY <1>5, <1>6, <1>7, <1>8, <1>9, LayoutOnly

\* What is known of a group that lays out its process data.
LEMMA Layer ==
  ASSUME GroupsInv, PhaseInv, LayoutInv, NEW g \in Groups, job[g].op = "fmmu"
  PROVE  /\ Mapping(job[g]) /\ ty[g] = "PreOp" /\ GroupsOK /\ ShapesOK /\ job[g].k \in Nat \ {0}
         /\ job[g] = [f \in JobFields |-> job[g][f]] /\ subs[g] \in Seq(Entry)
         /\ More(g) => job[g].k \in DOMAIN subs[g]
         /\ ~ More(g) => job[g].k > Len(subs[g])
<1>1. Mapping(job[g])
  BY DEF Mapping
<1>2. ty[g] = "PreOp"
  BY <1>1 DEF LayoutInv, MappersInv
<1>3. GroupsOK /\ ShapesOK
  BY DEF GroupsInv, LayoutInv
<1>4. job[g].k \in Nat \ {0} /\ job[g] = [f \in JobFields |-> job[g][f]] /\ subs[g] \in Seq(Entry)
  BY <1>3 DEF GroupsOK, JobOK
<1> QED BY <1>1, <1>2, <1>3, <1>4 DEF More

\* configure_fmmus of a SubDevice begins.
LEMMA CheckLayout ==
  ASSUME GroupsInv, PhaseInv, LayoutInv, NEW g \in Groups, CheckPreOp(g)
  PROVE  LayoutInv'
<1> DEFINE n == [job[g] EXCEPT !.i = 1, !.seg = job[g].pos]
<1>1. /\ pc = "done" /\ job[g].op = "fmmu" /\ More(g) /\ job[g].i = 0
      /\ UNCHANGED <<ty, subs, left>> /\ job' = [job EXCEPT ![g].i = 1, ![g].seg = job[g].pos]
      /\ Untouched
  BY DEF CheckPreOp, Busy, devVars, histVars, Untouched
<1>2. /\ Mapping(job[g]) /\ ty[g] = "PreOp" /\ GroupsOK /\ ShapesOK /\ job[g].k \in DOMAIN subs[g]
      /\ job[g] = [f \in JobFields |-> job[g][f]]
  BY <1>1, Layer
<1>3. job'[g] = n
  BY <1>1, <1>2 DEF GroupsOK, JobFields
<1>4. /\ n.op = "fmmu" /\ n.dir = job[g].dir /\ n.k = job[g].k /\ n.i = 1 /\ n.seg = job[g].pos
      /\ n.pos = job[g].pos
  BY <1>1, <1>2 DEF JobFields
<1> HIDE DEF n
<1>5. Only(g) /\ pdi'[g].start = pdi[g].start /\ ty'[g] = "PreOp"
  BY <1>1, <1>2 DEF Only, Untouched
<1>6. ShapesOK'
  BY <1>1, <1>2, SameShapes DEF Untouched, ShapesOK
<1>7. ASSUME ~ left, maps'[g] \in {0, 1} PROVE GroupLaid(g)'
  <2>1. maps[g] \in {0, 1} /\ ty[g] # "lost"
    BY <1>1, <1>2, <1>7 DEF Untouched
  <2>2. Laid(subs[g], job[g], pdi[g], io[g], maps[g], fmmu, sm, MaxPdi[g]) /\ subs[g] \in Seq(Entry)
    BY <1>1, <1>7, <2>1, WasLaid
  <2>3. Mapping(n)
    BY <1>4 DEF Mapping
  <2>4. Laid(subs[g], n, pdi[g], io[g], maps[g], fmmu, sm, MaxPdi[g])
    BY <1>1, <1>2, <1>4, <2>2, <2>3, LaidCheck
  <2> QED BY <1>1, <1>3, <2>4 DEF GroupLaid, Untouched
<1>8. GroupStep(g)
  BY DEF GroupStep
<1> QED BY <1>5, <1>6, <1>7, <1>8, LayoutOnly

\* The group's task does nothing that has to do with the layout, or fails.
LEMMA QuietLayout ==
  ASSUME GroupsInv, PhaseInv, LayoutInv, NEW g \in Groups, GroupStep(g), Quiet(g) \/ Loses(g)
  PROVE  LayoutInv'
<1>1. /\ pc = "done" /\ UNCHANGED <<subs, left>>
  BY LayoutKinds
<1>2. Untouched /\ ~ Mapping(job'[g])
  BY DEF Quiet, Loses
<1>3. Only(g) /\ pdi'[g].start = pdi[g].start
  BY <1>2 DEF Only, Untouched
<1>4. ShapesOK'
  BY <1>1, <1>2, SameShapes DEF LayoutInv, Untouched, ShapesOK
<1>5. ASSUME ~ left, ty'[g] # "lost", maps'[g] \in {0, 1} PROVE GroupLaid(g)'
  <2>1. maps[g] \in {0, 1} /\ ty[g] # "lost" /\ ~ Mapping(job[g])
    BY <1>2, <1>5 DEF Untouched, Quiet, Loses
  <2>2. Laid(subs[g], job[g], pdi[g], io[g], maps[g], fmmu, sm, MaxPdi[g])
    BY <1>1, <1>5, <2>1, WasLaid
  <2>3. Laid(subs[g], job'[g], pdi[g], io[g], maps[g], fmmu, sm, MaxPdi[g])
    BY <1>2, <2>1, <2>2, LaidQuiet, SMTT(40)
  <2> QED BY <1>1, <1>2, <2>3 DEF GroupLaid, Untouched
<1> QED BY <1>2, <1>3, <1>4, <1>5, LayoutOnly

\* One sync manager of one SubDevice is mapped.
LEMMA SmStep ==
  ASSUME LayoutPossible, GroupsInv, ShapesOK, NEW g \in Groups, ConfigureSm(g)
  PROVE  LET d == Dev(Sub(g).addr) j == job[g] IN
         /\ d \in Devices /\ One(Sub(g).addr)
         /\ \A e \in Devices \ {d} : fmmu'[e] = fmmu[e] /\ sm'[e] = sm[e]
         /\ fmmu' = [e \in Devices |-> fmmu'[e]] /\ sm' = [e \in Devices |-> sm'[e]]
         /\ \E i : /\ j.i <= i /\ \A h \in SmIndices(d, j.dir) : h < j.i \/ i <= h
                   /\ MapsSm(d, fmmu[d], sm[d], fmmu'[d], sm'[d], j.dir, j.pos, i)
                   /\ job' = [job EXCEPT ![g].i = i + 1, ![g].pos = @ + SmLen(d, i)]
<1> DEFINE d == Dev(Sub(g).addr)
           j == job[g]
           way == j.dir
           pos == j.pos
<1>1. One(Sub(g).addr)
  BY DEF ConfigureSm
<1>2. d \in Devices
  BY <1>1, OneDevice DEF GroupsInv, DevicesOK
<1>3. PICK i \in SmIndices(d, way) :
       /\ j.i <= i /\ \A h \in SmIndices(d, way) : h < j.i \/ i <= h
       /\ LET len == BytesOf(SmBits(d, i)) mapped == ~ HasCoe(d) \/ SmBits(d, i) > 0 IN
          /\ sm' = [sm EXCEPT ![d][i] = SmConfig(d, i, len)]
          /\ mapped /\ HasCoe(d) => UsesOf(d, way) # {}
          /\ fmmu' = IF mapped
                     THEN [fmmu EXCEPT ![d][FmmuIndex(d, i, way)]
                             = WriteFmmu(@, pos, len, Sms(d)[i].phys, way)]
                     ELSE fmmu
          /\ job' = [job EXCEPT ![g].i = i + 1, ![g].pos = @ + len]
  BY DEF ConfigureSm
<1> DEFINE len == SmLen(d, i)
           mapped == ~ HasCoe(d) \/ len > 0
           x == FmmuIndex(d, i, way)
           R == [sm[d] EXCEPT ![i] = SmConfig(d, i, len)]
           F == [fmmu[d] EXCEPT ![x] = WriteFmmu(fmmu[d][x], pos, len, Sms(d)[i].phys, way)]
<1>9. BytesOf(SmBits(d, i)) = len /\ (SmBits(d, i) > 0 <=> len > 0)
  <2>1. i \in DOMAIN Sms(d)
    BY DEF SmIndices
  <2> QED BY <1>2, <2>1, SmFits
<1>4. /\ sm' = [sm EXCEPT ![d] = R]
      /\ mapped /\ HasCoe(d) => UsesOf(d, way) # {}
      /\ fmmu' = IF mapped THEN [fmmu EXCEPT ![d] = F] ELSE fmmu
      /\ job' = [job EXCEPT ![g].i = i + 1, ![g].pos = @ + len]
  BY <1>3, <1>9
<1>5. /\ fmmu = [e \in Devices |-> fmmu[e]] /\ sm = [e \in Devices |-> sm[e]]
  BY DEF ShapesOK
<1> HIDE DEF d, F, R, mapped
<1>6. /\ \A e \in Devices \ {d} : fmmu'[e] = fmmu[e] /\ sm'[e] = sm[e]
      /\ fmmu' = [e \in Devices |-> fmmu'[e]] /\ sm' = [e \in Devices |-> sm'[e]]
      /\ sm'[d] = R /\ fmmu'[d] = IF mapped THEN F ELSE fmmu[d]
  BY <1>2, <1>4, <1>5
<1>7. MapsSm(d, fmmu[d], sm[d], fmmu'[d], sm'[d], way, pos, i)
  BY <1>3, <1>4, <1>6 DEF MapsSm, R, F, mapped
<1> QED BY <1>1, <1>2, <1>3, <1>4, <1>6, <1>7 DEF d

\* The registers of a SubDevice keep their shape.
LEMMA MapsRegisters ==
  ASSUME NEW d, NEW F, NEW S, NEW F2, NEW S2, NEW dir, NEW pos, NEW i, AreRegisters(d, F, S),
         MapsSm(d, F, S, F2, S2, dir, pos, i)
  PROVE  AreRegisters(d, F2, S2)
BY DEF AreRegisters, MapsSm

\* A step that writes registers only.
LEMMA RegisterShapes ==
  ASSUME ShapesOK, UNCHANGED <<subs, pdi, io, maps>>,
         fmmu' = [e \in Devices |-> fmmu'[e]], sm' = [e \in Devices |-> sm'[e]],
         \A e \in Devices : AreRegisters(e, fmmu'[e], sm'[e])
  PROVE  ShapesOK'
BY DEF ShapesOK

\* The next sync manager of the direction is mapped.
LEMMA SmLayout ==
  ASSUME LayoutPossible, GroupsInv, PhaseInv, LayoutInv, NEW g \in Groups, ConfigureSm(g)
  PROVE  LayoutInv'
<1> DEFINE d == Dev(Sub(g).addr)
           j == job[g]
<1>1. /\ pc = "done" /\ j.op = "fmmu" /\ More(g) /\ j.i > 0
      /\ UNCHANGED <<ty, subs, left, pdi, io, maps>>
  BY DEF ConfigureSm, Busy, histVars
<1>2. /\ Mapping(j) /\ ty[g] = "PreOp" /\ GroupsOK /\ ShapesOK /\ j.k \in DOMAIN subs[g]
      /\ j = [f \in JobFields |-> j[f]]
  BY <1>1, Layer
<1>3. /\ d \in Devices /\ One(Sub(g).addr)
      /\ \A e \in Devices \ {d} : fmmu'[e] = fmmu[e] /\ sm'[e] = sm[e]
      /\ fmmu' = [e \in Devices |-> fmmu'[e]] /\ sm' = [e \in Devices |-> sm'[e]]
      /\ \E i : /\ j.i <= i /\ \A h \in SmIndices(d, j.dir) : h < j.i \/ i <= h
                /\ MapsSm(d, fmmu[d], sm[d], fmmu'[d], sm'[d], j.dir, j.pos, i)
                /\ job' = [job EXCEPT ![g].i = i + 1, ![g].pos = @ + SmLen(d, i)]
  BY <1>2, SmStep
<1>4. PICK i : /\ j.i <= i /\ \A h \in SmIndices(d, j.dir) : h < j.i \/ i <= h
               /\ MapsSm(d, fmmu[d], sm[d], fmmu'[d], sm'[d], j.dir, j.pos, i)
               /\ job' = [job EXCEPT ![g].i = i + 1, ![g].pos = @ + SmLen(d, i)]
  BY <1>3
<1> DEFINE n == [j EXCEPT !.i = i + 1, !.pos = @ + SmLen(d, i)]
<1> HIDE DEF d
<1>5. job'[g] = n
  BY <1>2, <1>4 DEF GroupsOK, JobFields
<1>6. /\ n.op = "fmmu" /\ n.dir = j.dir /\ n.k = j.k /\ n.i = i + 1 /\ n.seg = j.seg
      /\ n.pos = j.pos + SmLen(d, i)
  BY <1>1, <1>2 DEF JobFields
<1> HIDE DEF n
<1>7. \A e \in Devices : AreRegisters(e, fmmu[e], sm[e])
  BY <1>2 DEF ShapesOK
<1>8. \A e \in Devices : AreRegisters(e, fmmu'[e], sm'[e])
  <2>1. AreRegisters(d, fmmu'[d], sm'[d])
    BY <1>3, <1>4, <1>7, MapsRegisters
  <2> SUFFICES ASSUME NEW e \in Devices, e # d PROVE AreRegisters(e, fmmu'[e], sm'[e])
    BY <2>1
  <2> QED BY <1>3, <1>7
<1>9. ShapesOK'
  BY <1>1, <1>2, <1>3, <1>8, RegisterShapes, SMTT(40)
<1>10. ASSUME ~ left PROVE d = subs[g][j.k].id
  BY <1>2, <1>3, <1>10, Reaches DEF Sub, d, PhaseInv
<1>11. Only(g)
  <2>1. ASSUME ~ left, NEW h \in Groups \ {g}, NEW k \in DOMAIN subs[h]
        PROVE  fmmu'[subs[h][k].id] = fmmu[subs[h][k].id] /\ sm'[subs[h][k].id] = sm[subs[h][k].id]
    <3>1. subs[h][k].id # d
      BY <1>2, <1>10, <2>1, Places DEF PhaseInv
    <3>2. subs[h][k].id \in Devices
      BY Member
    <3> QED BY <1>3, <3>1, <3>2
  <2> QED BY <1>1, <2>1 DEF Only
<1>12. ASSUME ~ left, maps'[g] \in {0, 1} PROVE GroupLaid(g)'
  <2>1. maps[g] \in {0, 1} /\ ty[g] # "lost"
    BY <1>1, <1>2, <1>12
  <2>2. Laid(subs[g], j, pdi[g], io[g], maps[g], fmmu, sm, MaxPdi[g]) /\ subs[g] \in Seq(Entry)
    BY <1>1, <1>12, <2>1, WasLaid
  <2>3. Mapping(n)
    BY <1>6 DEF Mapping
  <2>4. ASSUME NEW k \in DOMAIN subs[g], k # j.k
        PROVE  fmmu'[subs[g][k].id] = fmmu[subs[g][k].id] /\ sm'[subs[g][k].id] = sm[subs[g][k].id]
    <3>1. subs[g][k].id # d
      BY <1>2, <1>10, <1>12, <2>4, Places DEF PhaseInv
    <3>2. subs[g][k].id \in Devices
      BY Member
    <3> QED BY <1>3, <3>1, <3>2
  <2>5. d = subs[g][j.k].id /\ AreRegisters(d, fmmu[d], sm[d])
    BY <1>3, <1>7, <1>10, <1>12
  <2> DEFINE s == subs[g]
             p == pdi[g]
             o == io[g]
             c == maps[g]
             F2 == fmmu'
             M2 == sm'
  <2> HIDE DEF s, p, o, c, F2, M2, j
  <2>6. Laid(s, j, p, o, c, fmmu, sm, MaxPdi[g]) /\ s \in Seq(Entry)
    BY <2>2 DEF s, p, o, c
  <2>7. \A k \in DOMAIN s : k # j.k => F2[s[k].id] = fmmu[s[k].id] /\ M2[s[k].id] = sm[s[k].id]
    BY <2>4, SMTT(40) DEF s, F2, M2
  <2>8. d = s[j.k].id /\ AreRegisters(d, fmmu[d], sm[d]) /\ j.k \in DOMAIN s /\ j.i > 0 /\ Mapping(j)
        /\ j.i <= i /\ (\A h \in SmIndices(d, j.dir) : h < j.i \/ i <= h)
        /\ MapsSm(d, fmmu[d], sm[d], F2[d], M2[d], j.dir, j.pos, i)
    BY <1>1, <1>2, <1>4, <2>5 DEF s, F2, M2
  <2>9. Laid(s, n, p, o, c, F2, M2, MaxPdi[g])
    BY <1>6, <2>3, <2>6, <2>7, <2>8, LaidNext
  <2> QED BY <1>1, <1>5, <2>9 DEF GroupLaid, s, p, o, c, F2, M2
<1>13. GroupStep(g) /\ ty'[g] = "PreOp" /\ pdi'[g].start = pdi[g].start
  BY <1>1, <1>2 DEF GroupStep
<1> QED BY <1>9, <1>11, <1>12, <1>13, LayoutOnly

\* A SubDevice has all its sync managers of the direction mapped.
LEMMA DoneLayout ==
  ASSUME GroupsInv, PhaseInv, LayoutInv, NEW g \in Groups, SubDeviceDone(g)
  PROVE  LayoutInv'
<1> DEFINE j == job[g]
           seg == <<j.seg - pdi[g].start, j.pos - pdi[g].start>>
           n == [j EXCEPT !.k = @ + 1, !.i = 0]
           r == io[g][j.k]
           r2 == IF j.dir = "in" THEN [r EXCEPT !.in = seg] ELSE [r EXCEPT !.out = seg]
<1>1. /\ pc = "done" /\ j.op = "fmmu" /\ More(g) /\ j.i > 0
      /\ UNCHANGED <<ty, subs, left, pdi, maps, fmmu, sm>>
      /\ \A i \in SmIndices(Sub(g).id, j.dir) : i < j.i
      /\ io' = [io EXCEPT ![g][j.k] = r2]
      /\ job' = [job EXCEPT ![g].k = @ + 1, ![g].i = 0]
  BY DEF SubDeviceDone, Busy, histVars, devVars
<1>2. /\ Mapping(j) /\ ty[g] = "PreOp" /\ GroupsOK /\ ShapesOK /\ j.k \in DOMAIN subs[g]
      /\ j = [f \in JobFields |-> j[f]] /\ subs[g] \in Seq(Entry)
  BY <1>1, Layer
<1>3. job'[g] = n
  BY <1>1, <1>2 DEF GroupsOK, JobFields
<1>4. /\ n.op = "fmmu" /\ n.dir = j.dir /\ n.k = j.k + 1 /\ n.i = 0 /\ n.seg = j.seg
      /\ n.pos = j.pos
  BY <1>1, <1>2 DEF JobFields
<1>5. r = [f \in Dirs |-> r[f]] /\ j.k \in DOMAIN io[g] /\ io = [h \in Groups |-> io[h]]
  BY <1>2 DEF ShapesOK
<1>6. /\ r2 = [f \in Dirs |-> r2[f]]
      /\ j.dir \in Dirs => r2[j.dir] = seg /\ \A dir \in Dirs \ {j.dir} : r2[dir] = r[dir]
  BY <1>5 DEF Dirs
<1>7. seg[1] = j.seg - pdi[g].start /\ seg[2] = j.pos - pdi[g].start
  OBVIOUS
<1> HIDE DEF n, r2, seg
<1>8. /\ io' = [io EXCEPT ![g] = io'[g]] /\ io'[g] = [io[g] EXCEPT ![j.k] = r2]
  BY <1>1, <1>5
<1>9. /\ io'[g][j.k] = r2 /\ \A k \in DOMAIN io[g] \ {j.k} : io'[g][k] = io[g][k]
      /\ DOMAIN io'[g] = DOMAIN io[g]
  BY <1>5, <1>8
<1>10. \A k \in DOMAIN subs[g] : k \in DOMAIN io'[g] /\ io'[g][k] = [f \in Dirs |-> io'[g][k][f]]
  <2> SUFFICES ASSUME NEW k \in DOMAIN subs[g]
               PROVE  k \in DOMAIN io'[g] /\ io'[g][k] = [f \in Dirs |-> io'[g][k][f]]
    OBVIOUS
  <2>1. k \in DOMAIN io[g] /\ io[g][k] = [f \in Dirs |-> io[g][k][f]]
    BY <1>2 DEF ShapesOK
  <2>2. CASE k = j.k
    BY <1>6, <1>9, <2>1, <2>2
  <2>3. CASE k # j.k
    BY <1>9, <2>1, <2>3
  <2> QED BY <2>2, <2>3
<1>11. ShapesOK'
  <2>1. pdi' = [pdi EXCEPT ![g] = pdi'[g]] /\ maps' \in [Groups -> Nat]
        /\ pdi'[g] = [f \in {"start", "read", "len"} |-> pdi'[g][f]]
    BY <1>1, <1>2 DEF ShapesOK
  <2> QED BY <1>1, <1>2, <1>8, <1>10, <2>1, ShapesKept
<1>12. Only(g)
  <2>1. \A h \in Groups \ {g} : io'[h] = io[h]
    BY <1>5, <1>8
  <2> QED BY <1>1, <2>1 DEF Only
<1>13. ASSUME ~ left, maps'[g] \in {0, 1} PROVE GroupLaid(g)'
  <2>1. maps[g] \in {0, 1} /\ ty[g] # "lost"
    BY <1>1, <1>2, <1>13
  <2>2. Laid(subs[g], j, pdi[g], io[g], maps[g], fmmu, sm, MaxPdi[g])
    BY <1>1, <1>13, <2>1, WasLaid
  <2>3. Mapping(n)
    BY <1>4, SMTT(40) DEF Mapping
  <2>4. j.dir \in Dirs
    BY <1>2, <2>2 DEF Laid, JobPlace
  <2>5. \A k \in DOMAIN subs[g] : \A dir \in Dirs :
          ~(k = j.k /\ dir = j.dir) => io'[g][k][dir] = io[g][k][dir]
    <3> SUFFICES ASSUME NEW k \in DOMAIN subs[g], NEW dir \in Dirs, ~(k = j.k /\ dir = j.dir)
                 PROVE  io'[g][k][dir] = io[g][k][dir]
      OBVIOUS
    <3>1. CASE k = j.k
      BY <1>6, <1>9, <2>4, <3>1
    <3>2. CASE k # j.k
      <4>1. k \in DOMAIN io[g]
        BY <1>2 DEF ShapesOK
      <4> QED BY <1>9, <3>2, <4>1
    <3> QED BY <3>1, <3>2
  <2>6. io'[g][j.k][j.dir][1] = j.seg - pdi[g].start /\ io'[g][j.k][j.dir][2] = j.pos - pdi[g].start
    BY <1>6, <1>7, <1>9, <2>4
  <2>7. \A i \in SmIndices(subs[g][j.k].id, j.dir) : i < j.i
    BY <1>1 DEF Sub
  <2> DEFINE s == subs[g]
             p == pdi[g]
             o == io[g]
             o2 == io'[g]
             c == maps[g]
  <2> HIDE DEF s, p, o, o2, c, j
  <2>8. Laid(s, j, p, o, c, fmmu, sm, MaxPdi[g]) /\ s \in Seq(Entry) /\ Mapping(j) /\ j.i > 0
        /\ j.k \in DOMAIN s /\ \A i \in SmIndices(s[j.k].id, j.dir) : i < j.i
    BY <1>1, <1>2, <2>2, <2>7 DEF s, p, o, c
  <2>9. o2[j.k][j.dir][1] = j.seg - p.start /\ o2[j.k][j.dir][2] = j.pos - p.start
        /\ \A k \in DOMAIN s : \A dir \in Dirs : ~(k = j.k /\ dir = j.dir) => o2[k][dir] = o[k][dir]
    BY <2>5, <2>6 DEF s, p, o, o2
  <2>10. Laid(s, n, p, o2, c, fmmu, sm, MaxPdi[g])
    BY <1>4, <2>3, <2>8, <2>9, LaidDone
  <2> QED BY <1>1, <1>3, <2>10 DEF GroupLaid, s, p, o2, c
<1>14. GroupStep(g) /\ ty'[g] = "PreOp" /\ pdi'[g].start = pdi[g].start
  BY <1>1, <1>2 DEF GroupStep
<1> QED BY <1>11, <1>12, <1>13, <1>14, LayoutOnly

\* The inputs are laid out, then the outputs.
LEMMA DirectionLayout ==
  ASSUME GroupsInv, PhaseInv, LayoutInv, NEW g \in Groups, DirectionDone(g)
  PROVE  LayoutInv'
<1> DEFINE j == job[g]
           p == pdi[g]
           len == j.pos - p.start
           n == [j EXCEPT !.dir = "out", !.k = 1]
           p2 == [p EXCEPT !.read = len]
           p3 == [p EXCEPT !.len = len]
<1>1. /\ pc = "done" /\ j.op = "fmmu" /\ ~ More(g)
      /\ UNCHANGED <<subs, left, io, maps, fmmu, sm>>
      /\ IF j.dir = "in"
         THEN /\ pdi' = [pdi EXCEPT ![g] = p2]
              /\ job' = [job EXCEPT ![g] = n] /\ UNCHANGED ty
         ELSE /\ pdi' = [pdi EXCEPT ![g] = p3] /\ job' = [job EXCEPT ![g] = NoJob]
              /\ ty' = [ty EXCEPT ![g] = IF len > MaxPdi[g] THEN "lost" ELSE "PreOpPdi"]
  BY DEF DirectionDone, Busy, histVars, devVars
<1>2. /\ Mapping(j) /\ ty[g] = "PreOp" /\ GroupsOK /\ ShapesOK /\ j.k \in Nat /\ j.k > Len(subs[g])
      /\ j = [f \in JobFields |-> j[f]] /\ subs[g] \in Seq(Entry)
  BY <1>1, Layer
<1>3. /\ p = [f \in {"start", "read", "len"} |-> p[f]] /\ pdi = [h \in Groups |-> pdi[h]]
      /\ io = [h \in Groups |-> io[h]]
      /\ \A k \in DOMAIN subs[g] : k \in DOMAIN io[g] /\ io[g][k] = [f \in Dirs |-> io[g][k][f]]
      /\ maps \in [Groups -> Nat]
  BY <1>2 DEF ShapesOK
<1>4. /\ n.op = "fmmu" /\ n.dir = "out" /\ n.k = 1 /\ n.i = j.i /\ n.seg = j.seg /\ n.pos = j.pos
  BY <1>1, <1>2 DEF JobFields
<1>5. /\ p2 = [f \in {"start", "read", "len"} |-> p2[f]] /\ p2.start = p.start /\ p2.read = len
      /\ p3 = [f \in {"start", "read", "len"} |-> p3[f]] /\ p3.start = p.start /\ p3.read = p.read
      /\ p3.len = len
  BY <1>3
<1> HIDE DEF n, p2, p3, len
<1>6. /\ pdi' = [pdi EXCEPT ![g] = pdi'[g]] /\ pdi'[g] = IF j.dir = "in" THEN p2 ELSE p3
      /\ job'[g] = IF j.dir = "in" THEN n ELSE NoJob
  BY <1>1, <1>2, <1>3 DEF GroupsOK
<1>7. /\ j.dir = "in" => ty'[g] = "PreOp"
      /\ j.dir # "in" => ty'[g] = IF len > MaxPdi[g] THEN "lost" ELSE "PreOpPdi"
  BY <1>1, <1>2 DEF GroupsOK
<1>8. pdi'[g] = [f \in {"start", "read", "len"} |-> pdi'[g][f]] /\ pdi'[g].start = p.start
  BY <1>5, <1>6
<1>9. ShapesOK'
  <2>1. io' = [io EXCEPT ![g] = io'[g]]
    BY <1>1, <1>3
  <2> QED BY <1>1, <1>2, <1>3, <1>6, <1>8, <2>1, ShapesKept, ZenonT(60)
<1>10. Only(g)
  <2>1. \A h \in Groups \ {g} : pdi'[h] = pdi[h]
    BY <1>3, <1>6
  <2> QED BY <1>1, <2>1 DEF Only
<1>11. ~ Mapping(NoJob) /\ Mapping(n)
  BY <1>4, NoJobOK DEF Mapping
<1>12. ASSUME ~ left, ty'[g] # "lost", maps'[g] \in {0, 1} PROVE GroupLaid(g)'
  <2>1. maps[g] \in {0, 1} /\ ty[g] # "lost"
    BY <1>1, <1>2, <1>12
  <2>2. Laid(subs[g], j, p, io[g], maps[g], fmmu, sm, MaxPdi[g])
    BY <1>1, <1>12, <2>1, WasLaid
  <2> DEFINE s == subs[g]
             o == io[g]
             c == maps[g]
             max == MaxPdi[g]
  <2>3. max \in Nat
    BY SizesAssumption
  <2>4. len = j.pos - p.start
    BY DEF len
  <2> HIDE DEF s, o, c, max, j, p
  <2>5. /\ Laid(s, j, p, o, c, fmmu, sm, max) /\ Mapping(j) /\ j.k \in Nat /\ j.k > Len(s)
        /\ s \in Seq(Entry)
    BY <1>2, <2>2 DEF s, o, c, max
  <2>6. CASE j.dir = "in"
    <3>1. Laid(s, n, p2, o, c, fmmu, sm, max)
      BY <1>4, <1>5, <1>11, <2>4, <2>5, <2>6, LaidInputs
    <3> QED BY <1>1, <1>6, <2>6, <3>1 DEF GroupLaid, s, o, c, max
  <2>7. CASE j.dir # "in"
    <3>1. ~(p3.len > max)
      BY <1>5, <1>7, <1>12, <2>7 DEF max
    <3>2. Laid(s, NoJob, p3, o, c, fmmu, sm, max)
      BY <1>5, <1>11, <2>3, <2>4, <2>5, <2>7, <3>1, LaidAll
    <3> QED BY <1>1, <1>6, <2>7, <3>2 DEF GroupLaid, s, o, c, max
  <2> QED BY <2>6, <2>7
<1>13. GroupStep(g) /\ (Mapping(job'[g]) => ty'[g] = "PreOp")
  BY <1>6, <1>7, <1>11 DEF GroupStep
<1> QED BY <1>8, <1>9, <1>10, <1>12, <1>13, LayoutOnly

\* A step of a group keeps the layout of all.
LEMMA GroupLayout ==
  ASSUME LayoutPossible, GroupsInv, PhaseInv, LayoutInv, NEW g \in Groups, GroupStep(g)
  PROVE  LayoutInv'
<1>1. \/ Quiet(g) \/ Loses(g) \/ IntoPreOpPdi(g) \/ CheckPreOp(g) \/ ConfigureSm(g)
      \/ SubDeviceDone(g) \/ DirectionDone(g)
  BY LayoutKinds
<1> QED BY <1>1, QuietLayout, BeginLayout, CheckLayout, SmLayout, DoneLayout, DirectionLayout

\* What of the layout depends on the groups and on how far init has come only.
LEMMA StartsSame ==
  ASSUME StartInv, UNCHANGED <<pc, subs, pdi, order, gi, offset>>, ~ left' => ~ left
  PROVE  StartInv'
BY DEF StartInv, OrderOK, Placement, Apart

\* What of it depends on the registers as well.
LEMMA LaidSame ==
  ASSUME LaidInv, UNCHANGED <<pc, subs, job, pdi, io, maps, ty, fmmu, sm>>, ~ left' => ~ left
  PROVE  LaidInv'
<1>1. \A g \in Groups : GroupLaid(g) => GroupLaid(g)'
  BY DEF GroupLaid
<1> QED BY <1>1 DEF LaidInv

\* The SubDevices do not change the layout.
LEMMA DeviceLayout ==
  ASSUME GroupsInv, LayoutInv, (\E d \in Devices : DeviceStep(d)) \/ Unplug
  PROVE  LayoutInv'
<1>1. /\ UNCHANGED <<fmmu, sm, pdi, io, maps, job, ty, subs, pc, num, order, gi, offset>>
      /\ \/ UNCHANGED <<ring, left>> \/ left'
         \/ left' = left /\ \E d \in Devices : ring' = Append(ring, d)
  BY DEF DeviceStep, DevAnswers, DevFalls, Plug, Unplug, initVars, grpVars
<1>2. ShapesOK'
  BY <1>1, SameShapes DEF LayoutInv, ShapesOK
<1>3. MappersInv'
  BY <1>1 DEF LayoutInv, MappersInv
<1>4. left \in BOOLEAN /\ (~ left' => ~ left)
  BY <1>1 DEF GroupsInv, MainDeviceOK
<1>5. StartInv' /\ LaidInv'
  BY <1>1, <1>4, StartsSame, LaidSame DEF LayoutInv
<1>6. BlankInv'
  <2> SUFFICES ASSUME ~ left', pc \in {"address"} \cup Addressed, NEW k \in 1..num
               PROVE  \A n \in Fmmus(ring'[k]) : fmmu[ring'[k]][n] = NoFmmu
    BY <1>1 DEF BlankInv
  <2>1. num \in 1..Len(ring) /\ ring \in Seq(Devices)
    BY <1>4 DEF GroupsInv, DevicesOK, ProgressInv, Addressed, Idles
  <2>2. ring'[k] = ring[k]
    <3>1. CASE UNCHANGED ring
      BY <3>1
    <3>2. CASE \E d \in Devices : ring' = Append(ring, d)
      BY <2>1, <3>2
    <3> QED BY <1>1, <3>1, <3>2
  <2> QED BY <1>4, <2>2 DEF LayoutInv, BlankInv
<1> QED BY <1>2, <1>3, <1>5, <1>6 DEF LayoutInv

\* The step of GroupOrder's recursion.
Enters(x, v) == IF \E i \in DOMAIN x : x[i] = v THEN x ELSE Append(x, v)

\* It adds what is not there.
LEMMA EntersOnce ==
  ASSUME NEW S, NEW x \in Seq(S), NEW v \in S, \A a, b \in DOMAIN x : x[a] = x[b] => a = b
  PROVE  LET y == Enters(x, v) IN
         /\ y \in Seq(S) /\ \A a, b \in DOMAIN y : y[a] = y[b] => a = b
         /\ \E a \in DOMAIN y : y[a] = v
         /\ \A a \in DOMAIN x : a \in DOMAIN y /\ y[a] = x[a]
<1>1. CASE \E i \in DOMAIN x : x[i] = v
  BY <1>1 DEF Enters
<1>2. CASE ~ \E i \in DOMAIN x : x[i] = v
  <2> DEFINE y == Append(x, v)
             m == Len(x)
  <2>1. Enters(x, v) = y
    BY <1>2 DEF Enters
  <2>2. /\ m \in Nat /\ DOMAIN x = 1..m /\ y \in Seq(S) /\ DOMAIN y = 1..(m + 1)
        /\ \A a \in 1..m : y[a] = x[a]
        /\ y[m + 1] = v
    OBVIOUS
  <2> HIDE DEF y, m
  <2>3. ASSUME NEW a \in 1..(m + 1) PROVE a \in 1..m \/ a = m + 1
    BY <2>2
  <2>4. m + 1 \in 1..(m + 1) /\ \A a \in 1..m : a \in 1..(m + 1)
    BY <2>2
  <2>5. \A a, b \in DOMAIN y : y[a] = y[b] => a = b
    BY <1>2, <2>2, <2>3
  <2> QED BY <2>1, <2>2, <2>4, <2>5
<1> QED BY <1>1, <1>2

\* A group is entered once, and every group a SubDevice belongs to is.  [group_map]
LEMMA GroupOrderFacts ==
  ASSUME known \in Seq(Entry), \A k \in DOMAIN known : GroupOf(k) \in Groups
  PROVE  /\ GroupOrder \in Seq(Groups)
         /\ \A a, b \in DOMAIN GroupOrder : GroupOrder[a] = GroupOrder[b] => a = b
         /\ \A k \in DOMAIN known : \E a \in DOMAIN GroupOrder : GroupOrder[a] = GroupOf(k)
<1> DEFINE N == Len(known)
           B(f, k) == IF k = 0 THEN <<>>
                      ELSE IF \E i \in DOMAIN f[k-1] : f[k-1][i] = GroupOf(k) THEN f[k-1]
                      ELSE Append(f[k-1], GroupOf(k))
           c == CHOOSE h : h = [k \in 0..N |-> B(h, k)]
           step == [k \in 1..N |-> [x \in Seq(Groups) |-> Enters(x, GroupOf(k))]]
<1>1. N \in Nat /\ DOMAIN known = 1..N
  OBVIOUS
<1>2. GroupOrder = c[N]
  BY DEF GroupOrder
<1> HIDE DEF N
<1>3. \A f : \A k \in 1..N : B(f, k) = Enters(f[k-1], GroupOf(k))
  BY <1>1 DEF Enters
<1>4. \A k \in 1..N : \A x \in Seq(Groups) : Enters(x, GroupOf(k)) \in Seq(Groups)
  BY <1>1 DEF Enters
<1>5. IsRecursion(Seq(Groups), <<>>, N, step)
  BY <1>1, <1>4 DEF IsRecursion
<1>6. \A k \in 1..N : \A x \in Seq(Groups) : step[k][x] = Enters(x, GroupOf(k))
  OBVIOUS
<1> HIDE DEF step
<1>7. PICK f : f \in [0..N -> Seq(Groups)] /\ f[0] = <<>> /\ \A k \in 1..N : f[k] = step[k][f[k-1]]
  BY <1>5, Recursion DEF Computes
<1>8. ASSUME NEW k \in 0..N PROVE f[k] = B(f, k)
  <2>1. CASE k = 0
    BY <1>7, <2>1
  <2>2. CASE k # 0
    <3>1. k \in 1..N /\ k - 1 \in 0..N
      BY <1>1, <2>2
    <3>2. f[k-1] \in Seq(Groups)
      BY <1>7, <3>1
    <3>3. f[k] = Enters(f[k-1], GroupOf(k))
      BY <1>6, <1>7, <3>1, <3>2
    <3> HIDE DEF B
    <3> QED BY <1>3, <3>1, <3>3
  <2> QED BY <2>1, <2>2
<1>9. f = [k \in 0..N |-> B(f, k)]
  BY <1>7, <1>8
<1>10. c = [k \in 0..N |-> B(c, k)]
  <2> HIDE DEF B
  <2> QED BY <1>9
<1> HIDE DEF c
<1>11. c[0] = <<>> /\ \A k \in 1..N : c[k] = Enters(c[k-1], GroupOf(k))
  <2>1. c[0] = <<>>
    BY <1>1, <1>10
  <2>2. \A k \in 1..N : c[k] = B(c, k)
    <3> HIDE DEF B
    <3>1. \A k \in 1..N : k \in 0..N
      BY <1>1
    <3> QED BY <1>10, <3>1
  <2> HIDE DEF B
  <2> QED BY <1>3, <2>1, <2>2
<1> HIDE DEF B
<1> DEFINE Good(k) == /\ c[k] \in Seq(Groups) /\ \A a, b \in DOMAIN c[k] : c[k][a] = c[k][b] => a = b
                      /\ \A i \in 1..k : \E a \in DOMAIN c[k] : c[k][a] = GroupOf(i)
           T == {k \in 0..N : ~ Good(k)}
<1>12. T = {}
  <2> SUFFICES ASSUME T # {} PROVE FALSE
    OBVIOUS
  <2>1. PICK m \in T : \A x \in T : m <= x
    <3>1. T \in SUBSET Nat
      BY <1>1
    <3> HIDE DEF T
    <3> QED BY <3>1, Least
  <2>2. m \in 0..N /\ ~ Good(m)
    OBVIOUS
  <2>3. Good(0)
    BY <1>11
  <2>4. m \in 1..N /\ m - 1 \in 0..N /\ ~(m <= m - 1)
    BY <1>1, <2>2, <2>3
  <2>5. m - 1 \notin T
    <3> HIDE DEF T
    <3> QED BY <2>1, <2>4
  <2>6. Good(m - 1)
    BY <2>4, <2>5
  <2> DEFINE x == c[m-1]
             y == c[m]
             v == GroupOf(m)
  <2>7. y = Enters(x, v) /\ v \in Groups
    BY <1>1, <1>11, <2>4
  <2>8. /\ x \in Seq(Groups) /\ \A a, b \in DOMAIN x : x[a] = x[b] => a = b
        /\ \A i \in 1..(m-1) : \E a \in DOMAIN x : x[a] = GroupOf(i)
    BY <2>6
  <2> HIDE DEF x, y, v
  <2>9. /\ y \in Seq(Groups) /\ \A a, b \in DOMAIN y : y[a] = y[b] => a = b
        /\ \E a \in DOMAIN y : y[a] = v
        /\ \A a \in DOMAIN x : a \in DOMAIN y /\ y[a] = x[a]
    <3>1. LET z == Enters(x, v) IN
          /\ z \in Seq(Groups) /\ \A a, b \in DOMAIN z : z[a] = z[b] => a = b
          /\ \E a \in DOMAIN z : z[a] = v
          /\ \A a \in DOMAIN x : a \in DOMAIN z /\ z[a] = x[a]
      BY <2>7, <2>8, EntersOnce
    <3> QED BY <2>7, <3>1
  <2>10. ASSUME NEW i \in 1..m PROVE \E a \in DOMAIN y : y[a] = GroupOf(i)
    <3>1. i \in 1..(m-1) \/ i = m
      BY <2>4
    <3> QED BY <2>8, <2>9, <3>1 DEF v
  <2>11. Good(m)
    BY <2>9, <2>10 DEF y
  <2> QED BY <2>2, <2>11
<1>13. Good(N)
  BY <1>1, <1>12, SMTT(40)
<1> QED BY <1>1, <1>2, <1>13

\* A call of init begins anew.
LEMMA CountLayout ==
  ASSUME GroupsInv, LayoutInv, Count
  PROVE  LayoutInv'
<1>1. /\ UNCHANGED <<fmmu, sm>> /\ left' = FALSE /\ pc' \in {"done", "reset_state"}
      /\ gi' = 1 /\ offset' = 0
      /\ subs' = [g \in Groups |-> <<>>] /\ job' = [g \in Groups |-> NoJob]
      /\ pdi' = [g \in Groups |-> NoPdi] /\ io' = [g \in Groups |-> <<>>]
      /\ maps' = [g \in Groups |-> 0]
  BY DEF Count, Fresh, devVars
<1>2. \A g \in Groups : /\ subs'[g] = <<>> /\ job'[g] = NoJob /\ pdi'[g] = NoPdi
                        /\ io'[g] = <<>> /\ maps'[g] = 0
  BY <1>1
<1>3. DOMAIN <<>> = {}
  OBVIOUS
<1>4. NoPdi = [f \in {"start", "read", "len"} |-> NoPdi[f]] /\ NoPdi.start = 0
  BY DEF NoPdi
<1>5. ~ Mapping(NoJob)
  BY NoJobOK DEF Mapping
<1>6. ShapesOK'
  <2>1. \A g \in Groups : \A k \in DOMAIN subs'[g] : FALSE
    BY <1>2
  <2>2. maps' \in [Groups -> Nat] /\ pdi' = [g \in Groups |-> pdi'[g]] /\ io' = [g \in Groups |-> io'[g]]
    BY <1>1
  <2>3. \A g \in Groups : pdi'[g] = [f \in {"start", "read", "len"} |-> pdi'[g][f]]
    BY <1>2, <1>4
  <2>4. /\ fmmu' = [d \in Devices |-> fmmu'[d]] /\ sm' = [d \in Devices |-> sm'[d]]
        /\ \A d \in Devices : AreRegisters(d, fmmu'[d], sm'[d])
    BY <1>1 DEF LayoutInv, ShapesOK
  <2> QED BY <2>1, <2>2, <2>3, <2>4 DEF ShapesOK
<1>7. MappersInv'
  BY <1>2, <1>5 DEF MappersInv
<1>8. BlankInv'
  BY <1>1 DEF BlankInv, Addressed
<1>9. StartInv'
  <2>1. pc' \notin Grouped
    BY <1>1 DEF Grouped, Known, Addressed
  <2> QED BY <1>1, <1>2, <1>4, <2>1 DEF StartInv, Apart
<1>10. LaidInv'
  <2> SUFFICES ASSUME NEW g \in Groups PROVE GroupLaid(g)'
    BY DEF LaidInv
  <2> DEFINE s == subs'[g]
             p == pdi'[g]
             o == io'[g]
  <2>1. /\ \A k \in DOMAIN s : s[k].id \in Devices /\ \A n \in Fmmus(s[k].id) : fmmu'[s[k].id][n] = NoFmmu
        /\ p.start \in Nat
    BY <1>2, <1>4
  <2> HIDE DEF s, p, o
  <2>2. Laid(s, NoJob, p, o, 0, fmmu', sm', MaxPdi[g])
    BY <1>5, <2>1, LaidNever
  <2> QED BY <1>2, <2>2 DEF GroupLaid, s, p, o
<1> QED BY <1>6, <1>7, <1>8, <1>9, <1>10 DEF LayoutInv

\* What the other steps of init have in common.
LEMMA InitQuiet ==
  ASSUME GroupsInv, LayoutInv, InitStep, ~ Count
  PROVE  /\ pc \notin Idles /\ UNCHANGED <<ring, num, left, job, maps>>
         /\ MappersInv' /\ (pc' # "done" => LaidInv')
         /\ \A g \in Groups : job[g] = NoJob /\ maps[g] = 0
<1>1. pc \notin Idles /\ pc # "done"
  BY DEF InitStep, ResetState, ResetMemory, Address, NewSubDevice, ConfigureDc, AssignGroups,
     ConfigureMailboxes, AssignToPdi, RequestPreOp, PreOpReached, WaitForAll, InitFails, Idles
<1>2. \A g \in Groups : job[g] = NoJob /\ maps[g] = 0
  BY <1>1 DEF GroupsInv, TransitionInv, LayoutInv, MappersInv
<1>3. UNCHANGED <<ring, num, left, job, maps>>
  <2>1. CASE ResetState \/ ResetMemory \/ Address \/ NewSubDevice
    BY <2>1 DEF ResetState, ResetMemory, Address, NewSubDevice, grpVars, histVars
  <2>2. CASE ConfigureDc \/ AssignGroups \/ ConfigureMailboxes \/ AssignToPdi
    BY <2>2 DEF ConfigureDc, AssignGroups, ConfigureMailboxes, AssignToPdi, grpVars, histVars,
       devVars
  <2>3. CASE RequestPreOp \/ PreOpReached \/ WaitForAll \/ InitFails
    BY <2>3 DEF RequestPreOp, PreOpReached, WaitForAll, InitFails, grpVars, histVars, devVars
  <2> QED BY <2>1, <2>2, <2>3 DEF InitStep
<1>4. MappersInv'
  BY <1>2, <1>3, NoJobOK DEF MappersInv, Mapping
<1> QED BY <1>1, <1>2, <1>3, <1>4 DEF LaidInv

\* The registers are reset.
LEMMA ResetLayout ==
  ASSUME GroupsInv, LayoutInv, ResetMemory
  PROVE  LayoutInv'
<1>1. /\ pc = "reset_memory" /\ pc' = "address" /\ fmmu' = BlankFmmus /\ sm' = Blank(sm, 0)
      /\ UNCHANGED <<ring, num, left, subs, pdi, io, maps, order, gi, offset>>
  BY DEF ResetMemory, grpVars, histVars
<1>2. MappersInv' /\ LaidInv'
  BY <1>1, InitQuiet DEF InitStep, Count
<1>3. ShapesOK /\ fmmu' = [d \in Devices |-> fmmu'[d]] /\ sm' = [d \in Devices |-> sm'[d]]
  BY <1>1 DEF LayoutInv, BlankFmmus, Blank
<1>4. ASSUME NEW d \in Devices
      PROVE  /\ AreRegisters(d, fmmu'[d], sm'[d])
             /\ OnRing(d) => \A n \in Fmmus(d) : fmmu'[d][n] = NoFmmu
  <2>1. /\ fmmu'[d] = IF OnRing(d) THEN [i \in DOMAIN fmmu[d] |-> NoFmmu] ELSE fmmu[d]
        /\ sm'[d] = IF OnRing(d) THEN [i \in DOMAIN sm[d] |-> 0] ELSE sm[d]
    BY <1>1 DEF BlankFmmus, Blank
  <2>2. AreRegisters(d, fmmu[d], sm[d])
    BY <1>3 DEF ShapesOK
  <2>3. DOMAIN fmmu[d] = Fmmus(d) /\ DOMAIN sm[d] = DOMAIN Sms(d)
    BY <2>2 DEF AreRegisters
  <2>4. CASE OnRing(d)
    BY <2>1, <2>3, <2>4 DEF AreRegisters
  <2>5. CASE ~ OnRing(d)
    BY <2>1, <2>2, <2>5
  <2> QED BY <2>4, <2>5
<1>5. ShapesOK'
  BY <1>1, <1>3, <1>4, RegisterShapes
<1>6. BlankInv'
  <2> SUFFICES ASSUME ~ left, NEW k \in 1..num
               PROVE  \A n \in Fmmus(ring[k]) : fmmu'[ring[k]][n] = NoFmmu
    BY <1>1 DEF BlankInv
  <2>1. num \in 1..Len(ring) /\ ring \in Seq(Devices)
    BY <1>1 DEF GroupsInv, DevicesOK, ProgressInv, Idles
  <2>2. k \in DOMAIN ring /\ ring[k] \in Devices
    BY <2>1
  <2>3. OnRing(ring[k])
    BY <2>2 DEF OnRing
  <2> QED BY <1>4, <2>2, <2>3
<1>7. StartInv'
  BY <1>1 DEF LayoutInv, StartInv, Early, Grouped, Known, Addressed
<1> QED BY <1>2, <1>5, <1>6, <1>7 DEF LayoutInv

\* The steps of init that neither lay out nor reset anything.
LEMMA OtherLayout ==
  ASSUME GroupsInv, LayoutInv,
         ResetState \/ Address \/ NewSubDevice \/ ConfigureDc \/ AssignToPdi \/ RequestPreOp
           \/ InitFails
  PROVE  LayoutInv'
<1>1. /\ UNCHANGED <<ring, num, left, fmmu, sm, subs, pdi, io, maps, order, gi, offset>>
      /\ pc' # "done"
      /\ \/ pc = "reset_state" /\ pc' = "reset_memory"
         \/ pc \in {"address", "new", "dc"} /\ pc' \in {"address", "new", "dc", "assign"}
         \/ pc = "assign_pdi" /\ pc' = "request_pre_op"
         \/ pc = "request_pre_op" /\ pc' = "wait_pre_op"
         \/ pc' = "failed"
  <2>1. CASE ResetState \/ Address \/ NewSubDevice \/ ConfigureDc
    BY <2>1 DEF ResetState, Address, NewSubDevice, ConfigureDc, grpVars, histVars, devVars
  <2>2. CASE AssignToPdi \/ RequestPreOp \/ InitFails
    BY <2>2 DEF AssignToPdi, RequestPreOp, InitFails, grpVars, histVars, devVars
  <2> QED BY <2>1, <2>2, SMTT(40)
<1>2. MappersInv' /\ LaidInv'
  <2>1. InitStep /\ pc \notin {"idle", "done", "failed"}
    BY DEF InitStep, ResetState, Address, NewSubDevice, ConfigureDc, AssignToPdi, RequestPreOp,
       InitFails
  <2>2. ~ Count
    BY <2>1 DEF Count
  <2> QED BY <1>1, <2>1, <2>2, InitQuiet
<1>3. ShapesOK'
  BY <1>1, SameShapes DEF LayoutInv, ShapesOK
<1>4. BlankInv'
  <2>1. pc' \in {"address"} \cup Addressed => pc \in {"address"} \cup Addressed
    BY <1>1 DEF Addressed
  <2> QED BY <1>1, <2>1 DEF LayoutInv, BlankInv
<1>5. StartInv'
  <2> SUFFICES ASSUME ~ left PROVE StartInv'
    BY <1>1 DEF StartInv
  <2>1. /\ pc' \in Early => pc \in Early
        /\ pc' \in Grouped => pc \in {"assign_pdi", "request_pre_op"}
                              /\ pc' \in {"request_pre_op", "wait_pre_op"}
        /\ pc \in {"assign_pdi", "request_pre_op"} => pc \in Grouped
    BY <1>1 DEF Early, Grouped, Known, Addressed
  <2>2. /\ \A g \in Groups : pdi[g].start \in Nat
        /\ pc \in Early => gi = 1 /\ offset = 0
        /\ pc \in Grouped => OrderOK /\ Placement
    BY DEF LayoutInv, StartInv
  <2>3. ASSUME pc' \in Grouped PROVE OrderOK' /\ Placement'
    <3>1. OrderOK'
      BY <1>1, <2>1, <2>2, <2>3 DEF OrderOK
    <3>2. Placement'
      BY <1>1, <2>1, <2>2, <2>3 DEF Placement
    <3> QED BY <3>1, <3>2
  <2> QED BY <1>1, <2>1, <2>2, <2>3 DEF StartInv
<1> QED BY <1>2, <1>3, <1>4, <1>5 DEF LayoutInv

\* The groups get their SubDevices.
LEMMA AssignLayout ==
  ASSUME GroupsInv, LayoutInv, AssignGroups
  PROVE  LayoutInv'
<1> DEFINE P(g) == {k \in DOMAIN known : GroupOf(k) = g}
           none == [in |-> <<0, 0>>, out |-> <<0, 0>>]
<1>1. /\ pc = "assign" /\ pc' = "mailbox"
      /\ \A k \in DOMAIN known : GroupOf(k) # "unknown"
      /\ subs' = [g \in Groups |-> Pick(known, P(g))]
      /\ io' = [g \in Groups |-> [k \in DOMAIN subs'[g] |-> none]]
      /\ order' = GroupOrder
      /\ UNCHANGED <<fmmu, sm, pdi, maps, ring, num, left, gi, offset>>
  BY DEF AssignGroups, devVars, histVars
<1>2. MappersInv' /\ LaidInv'
  <2>1. ~ Count /\ pc' # "done"
    BY <1>1 DEF Count
  <2> QED BY <2>1, InitQuiet DEF InitStep
<1>3. ShapesOK'
  <2>1. none = [f \in Dirs |-> none[f]]
    BY DEF Dirs
  <2> HIDE DEF none
  <2>2. io' = [g \in Groups |-> io'[g]] /\ \A g \in Groups : \A k \in DOMAIN subs'[g] :
          k \in DOMAIN io'[g] /\ io'[g][k] = [f \in Dirs |-> io'[g][k][f]]
    BY <1>1, <2>1
  <2> QED BY <1>1, <2>2 DEF LayoutInv, ShapesOK
<1>4. BlankInv'
  BY <1>1 DEF LayoutInv, BlankInv, Addressed
<1>5. StartInv'
  <2> SUFFICES ASSUME ~ left PROVE StartInv'
    BY <1>1 DEF StartInv
  <2>1. gi = 1 /\ offset = 0 /\ \A g \in Groups : pdi[g].start \in Nat
    BY <1>1 DEF LayoutInv, StartInv, Early
  <2>2. /\ known \in Seq(Entry) /\ \A i, j \in DOMAIN known : known[i] = known[j] => i = j
    BY DEF GroupsInv, MainDeviceOK, AddressInv
  <2>3. Len(known) # 0
    BY <1>1 DEF GroupsInv, ProgressInv, Idles, Known, Addressed
  <2>4. ASSUME NEW k \in DOMAIN known PROVE GroupOf(k) \in Groups
    <3>1. known[k] \in Entry
      BY <2>2
    <3>2. known[k].id \in Devices
      BY <3>1 DEF Entry
    <3> QED BY <1>1, <3>2, StationAssumption DEF GroupOf
  <2>5. /\ order' \in Seq(Groups) /\ \A a, b \in DOMAIN order' : order'[a] = order'[b] => a = b
        /\ \A k \in DOMAIN known : \E a \in DOMAIN order' : order'[a] = GroupOf(k)
    BY <1>1, <2>2, <2>4, GroupOrderFacts
  <2>6. Len(order') \in Nat \ {0}
    <3>1. 1 \in DOMAIN known
      BY <2>2, <2>3
    <3>2. PICK a \in DOMAIN order' : order'[a] = GroupOf(1)
      BY <2>5, <3>1
    <3> QED BY <2>5, <3>2
  <2>7. ASSUME NEW g \in Groups, subs'[g] # <<>> PROVE \E a \in DOMAIN order' : order'[a] = g
    <3>1. P(g) \in SUBSET DOMAIN known /\ subs'[g] = Pick(known, P(g))
      BY <1>1
    <3>2. /\ Pick(known, P(g)) \in Seq(Entry)
          /\ \A i \in DOMAIN Pick(known, P(g)) : \E p \in P(g) : Pick(known, P(g))[i] = known[p]
      <4> HIDE DEF P
      <4> QED BY <2>2, <3>1, PickElements
    <3>3. subs'[g] \in Seq(Entry) /\ \A i \in DOMAIN subs'[g] : \E p \in P(g) : subs'[g][i] = known[p]
      <4> HIDE DEF P
      <4> QED BY <3>1, <3>2
    <3>4. 1 \in DOMAIN subs'[g]
      BY <2>7, <3>3
    <3>5. PICK p \in P(g) : subs'[g][1] = known[p]
      BY <3>3, <3>4
    <3> QED BY <2>5, <3>5
  <2>8. OrderOK'
    BY <2>5, <2>7 DEF OrderOK
  <2>9. Placement'
    BY <1>1, <2>1, <2>6 DEF Placement
  <2> QED BY <1>1, <2>1, <2>8, <2>9 DEF StartInv, Early
<1> QED BY <1>2, <1>3, <1>4, <1>5 DEF LayoutInv

\* The group that init has come to gets its place.
LEMMA MailboxLayout ==
  ASSUME GroupsInv, LayoutInv, ConfigureMailboxes
  PROVE  LayoutInv'
<1> DEFINE d == Dev(CurAddr)
           R == [i \in DOMAIN sm[d] |->
                   IF Sms(d)[i].type = "mailbox" /\ Station[d].mailbox
                   THEN SmConfig(d, i, Sms(d)[i].size) ELSE sm[d][i]]
<1>1. /\ pc = "mailbox" /\ One(CurAddr) /\ pc' = "assign_pdi"
      /\ pdi' = [pdi EXCEPT ![CurGroup].start = offset]
      /\ sm' = [sm EXCEPT ![d] = R]
      /\ UNCHANGED <<fmmu, io, maps, ring, num, left, subs, order, gi, offset>>
  BY DEF ConfigureMailboxes, histVars
<1>2. MappersInv' /\ LaidInv'
  <2>1. ~ Count /\ pc' # "done"
    BY <1>1 DEF Count
  <2> QED BY <2>1, InitQuiet DEF InitStep
<1>3. d \in Devices
  BY <1>1, OneDevice DEF GroupsInv
<1>4. /\ ShapesOK /\ sm = [e \in Devices |-> sm[e]] /\ \A e \in Devices : AreRegisters(e, fmmu[e], sm[e])
      /\ pdi = [g \in Groups |-> pdi[g]]
      /\ \A g \in Groups : pdi[g] = [f \in {"start", "read", "len"} |-> pdi[g][f]]
  BY DEF LayoutInv, ShapesOK
<1>5. /\ sm' = [e \in Devices |-> sm'[e]] /\ \A e \in Devices : AreRegisters(e, fmmu'[e], sm'[e])
  <2>1. AreRegisters(d, fmmu[d], R)
    <3>1. AreRegisters(d, fmmu[d], sm[d])
      BY <1>3, <1>4
    <3>2. DOMAIN sm[d] = DOMAIN Sms(d)
      BY <3>1 DEF AreRegisters
    <3> QED BY <3>1, <3>2 DEF AreRegisters
  <2> HIDE DEF R, d
  <2>2. sm' = [e \in Devices |-> sm'[e]] /\ sm'[d] = R /\ \A e \in Devices \ {d} : sm'[e] = sm[e]
    BY <1>1, <1>3, <1>4
  <2> QED BY <1>1, <1>4, <2>1, <2>2
<1>6. /\ pdi' = [g \in Groups |-> pdi'[g]]
      /\ \A g \in Groups : pdi'[g] = [f \in {"start", "read", "len"} |-> pdi'[g][f]]
      /\ \A g \in Groups : pdi'[g].start = IF g = CurGroup THEN offset ELSE pdi[g].start
  <2> DEFINE c == CurGroup
  <2>1. pdi' = [pdi EXCEPT ![c] = [pdi[c] EXCEPT !.start = offset]]
    BY <1>1
  <2> HIDE DEF c
  <2>2. ASSUME NEW g \in Groups
        PROVE  pdi'[g] = IF g = c THEN [pdi[g] EXCEPT !.start = offset] ELSE pdi[g]
    BY <1>4, <2>1
  <2>3. ASSUME NEW g \in Groups
        PROVE  /\ pdi'[g] = [f \in {"start", "read", "len"} |-> pdi'[g][f]]
               /\ pdi'[g].start = IF g = c THEN offset ELSE pdi[g].start
    <3>1. pdi[g] = [f \in {"start", "read", "len"} |-> pdi[g][f]]
      BY <1>4
    <3> QED BY <2>2, <3>1
  <2> QED BY <1>4, <2>1, <2>3 DEF c
<1>7. ShapesOK'
  <2>1. fmmu' = [e \in Devices |-> fmmu'[e]] /\ UNCHANGED <<io, maps, subs>>
    BY <1>1, <1>4 DEF ShapesOK
  <2> QED BY <1>4, <1>5, <1>6, <2>1 DEF ShapesOK
<1>8. BlankInv'
  BY <1>1 DEF LayoutInv, BlankInv, Addressed
<1>9. StartInv'
  <2> SUFFICES ASSUME ~ left PROVE StartInv'
    BY <1>1 DEF StartInv
  <2>1. OrderOK /\ Placement /\ \A g \in Groups : pdi[g].start \in Nat
    BY <1>1 DEF LayoutInv, StartInv, Grouped, Known, Addressed
  <2>2. /\ order \in Seq(Groups) /\ \A a, b \in DOMAIN order : order[a] = order[b] => a = b
    BY <2>1 DEF OrderOK
  <2>3. /\ gi \in 1..Len(order) /\ offset \in Nat /\ gi \in DOMAIN order
    BY <1>1, <2>1, <2>2 DEF Placement
  <2>4. CurGroup \in Groups /\ CurGroup = order[gi]
    BY <2>2, <2>3 DEF CurGroup
  <2>5. \A g \in Groups : pdi'[g].start \in Nat
    BY <1>6, <2>1, <2>3
  <2>6. ASSUME NEW a \in 1..(gi - 1) PROVE pdi'[order[a]].start = pdi[order[a]].start
    <3>1. a \in DOMAIN order /\ a # gi
      BY <2>2, <2>3
    <3>2. order[a] \in Groups /\ order[a] # CurGroup
      BY <2>2, <2>3, <2>4, <3>1
    <3> QED BY <1>6, <3>2
  <2>7. Placement'
    <3>1. \A a \in 1..(gi - 1) : pdi'[order[a]].start + MaxPdi[order[a]] <= offset
      BY <2>1, <2>6 DEF Placement
    <3>2. \A a, b \in 1..(gi - 1) :
            a < b => pdi'[order[a]].start + MaxPdi[order[a]] <= pdi'[order[b]].start
      BY <2>1, <2>6 DEF Placement
    <3>3. pdi'[order[gi]].start = offset
      BY <1>6, <2>4
    <3>4. gi \in 1..(Len(order) + 1) /\ gi <= Len(order) /\ offset \in Nat
      BY <2>2, <2>3
    <3> QED BY <1>1, <3>1, <3>2, <3>3, <3>4 DEF Placement
  <2>8. OrderOK'
    BY <1>1, <2>1 DEF OrderOK
  <2> QED BY <1>1, <2>5, <2>7, <2>8 DEF StartInv, Early
<1> QED BY <1>2, <1>7, <1>8, <1>9 DEF LayoutInv

\* The next group lies behind this one.
LEMMA NextLayout ==
  ASSUME LayoutPossible, GroupsInv, LayoutInv, PreOpReached
  PROVE  LayoutInv'
<1>1. /\ pc = "wait_pre_op" /\ pc' \in {"mailbox", "wait_all"}
      /\ \/ pc' = "mailbox" /\ UNCHANGED <<gi, offset>>
         \/ /\ gi' = gi + 1 /\ offset' = NextOffset
            /\ pc' = IF gi < Len(order) THEN "mailbox" ELSE "wait_all"
      /\ UNCHANGED <<fmmu, sm, pdi, io, maps, ring, num, left, subs, order>>
  BY DEF PreOpReached, grpVars, histVars
<1>2. MappersInv' /\ LaidInv'
  <2>1. ~ Count /\ pc' # "done"
    BY <1>1 DEF Count
  <2> QED BY <2>1, InitQuiet DEF InitStep
<1>3. ShapesOK'
  BY <1>1, SameShapes DEF LayoutInv, ShapesOK
<1>4. BlankInv'
  BY <1>1 DEF LayoutInv, BlankInv, Addressed
<1>5. StartInv'
  <2> SUFFICES ASSUME ~ left PROVE StartInv'
    BY <1>1 DEF StartInv
  <2>1. OrderOK /\ Placement /\ \A g \in Groups : pdi[g].start \in Nat
    BY <1>1 DEF LayoutInv, StartInv, Grouped, Known, Addressed
  <2>2. order \in Seq(Groups)
    BY <2>1 DEF OrderOK
  <2>3. /\ gi \in 1..Len(order) /\ offset \in Nat /\ gi \in DOMAIN order /\ Len(order) \in Nat
        /\ pdi[order[gi]].start = offset
        /\ \A a \in 1..(gi - 1) : pdi[order[a]].start + MaxPdi[order[a]] <= offset
        /\ \A a, b \in 1..(gi - 1) :
             a < b => pdi[order[a]].start + MaxPdi[order[a]] <= pdi[order[b]].start
    BY <1>1, <2>1, <2>2 DEF Placement
  <2>4. OrderOK'
    BY <1>1, <2>1 DEF OrderOK
  <2>5. CASE pc' = "mailbox" /\ UNCHANGED <<gi, offset>>
    <3>1. Placement'
      BY <1>1, <2>1, <2>3, <2>5 DEF Placement
    <3> QED BY <1>1, <2>1, <2>4, <3>1 DEF StartInv, Early
  <2>6. CASE /\ gi' = gi + 1 /\ offset' = NextOffset
             /\ pc' = IF gi < Len(order) THEN "mailbox" ELSE "wait_all"
    <3> DEFINE m == MaxPdi[order[gi]]
               to(a) == pdi[order[a]].start + MaxPdi[order[a]]
    <3>1. order[gi] \in Groups
      BY <2>2, <2>3
    <3>2. m \in Nat /\ Wrap \in Nat \ {0} /\ m < Wrap
      BY <3>1, SizesAssumption DEF LayoutPossible
    <3>3. m % Wrap = m
      BY <3>2, Remainder
    <3>4. offset' = offset + m
      BY <2>6, <3>3 DEF NextOffset, CurGroup
    <3>5. /\ \A a \in 1..gi : order[a] \in Groups
      BY <2>2, <2>3
    <3>6. \A a \in 1..gi : to(a) \in Nat
      BY <2>1, <3>5, SizesAssumption
    <3>7. to(gi) = offset + m
      BY <2>3
    <3>8. \A a \in 1..(gi - 1) : to(a) <= offset
      BY <2>3
    <3> HIDE DEF to, m
    <3>9. \A a \in 1..gi : to(a) <= offset'
      <4> SUFFICES ASSUME NEW a \in 1..gi PROVE to(a) <= offset'
        OBVIOUS
      <4>1. a \in 1..(gi - 1) \/ a = gi
        BY <2>3
      <4> QED BY <2>3, <3>2, <3>4, <3>6, <3>7, <3>8, <4>1
    <3>10. \A a, b \in 1..gi : a < b => to(a) <= pdi[order[b]].start
      <4> SUFFICES ASSUME NEW a \in 1..gi, NEW b \in 1..gi, a < b PROVE to(a) <= pdi[order[b]].start
        OBVIOUS
      <4>1. a \in 1..(gi - 1) /\ (b \in 1..(gi - 1) \/ b = gi)
        BY <2>3
      <4> QED BY <2>3, <3>8, <4>1 DEF to
    <3>11. gi' - 1 = gi /\ gi' \in 1..(Len(order) + 1) /\ offset' \in Nat
           /\ IF pc' = "wait_all" THEN gi' = Len(order) + 1 ELSE gi' <= Len(order)
      BY <2>3, <2>6, <3>2, <3>4
    <3>12. Placement'
      BY <1>1, <3>9, <3>10, <3>11 DEF Placement, to
    <3> QED BY <1>1, <2>1, <2>4, <3>12 DEF StartInv, Early
  <2> QED BY <1>1, <2>5, <2>6
<1> QED BY <1>2, <1>3, <1>4, <1>5 DEF LayoutInv

\* init returns.
LEMMA ReturnLayout ==
  ASSUME GroupsInv, PhaseInv, LayoutInv, WaitForAll
  PROVE  LayoutInv'
<1>1. /\ pc = "wait_all" /\ pc' = "done" /\ AllIn("PreOp")
      /\ UNCHANGED <<fmmu, sm, pdi, io, maps, ring, num, left, subs, order, gi, offset, job>>
  BY DEF WaitForAll, devVars, histVars
<1>2. MappersInv' /\ \A g \in Groups : job[g] = NoJob /\ maps[g] = 0
  <2>1. ~ Count
    BY <1>1 DEF Count
  <2> QED BY <2>1, InitQuiet DEF InitStep
<1>3. ShapesOK'
  BY <1>1, SameShapes DEF LayoutInv, ShapesOK
<1>4. BlankInv'
  BY <1>1 DEF BlankInv, Addressed
<1> SUFFICES ASSUME ~ left PROVE StartInv' /\ LaidInv'
  BY <1>1, <1>2, <1>3, <1>4 DEF LayoutInv, StartInv, LaidInv
<1>5. OrderOK /\ Placement /\ \A g \in Groups : pdi[g].start \in Nat
  BY <1>1 DEF LayoutInv, StartInv, Grouped, Known, Addressed
<1>6. StartInv'
  <2>1. Apart
    <3> SUFFICES ASSUME NEW g \in Groups, NEW h \in Groups, g # h, subs[g] # <<>>, subs[h] # <<>>
                 PROVE  \/ pdi[g].start + MaxPdi[g] <= pdi[h].start
                        \/ pdi[h].start + MaxPdi[h] <= pdi[g].start
      BY DEF Apart
    <3>1. order \in Seq(Groups) /\ gi = Len(order) + 1 /\ Len(order) \in Nat
      BY <1>1, <1>5 DEF OrderOK, Placement
    <3>2. PICK a \in DOMAIN order : order[a] = g
      BY <1>5 DEF OrderOK
    <3>3. PICK b \in DOMAIN order : order[b] = h
      BY <1>5 DEF OrderOK
    <3>4. a \in 1..(gi - 1) /\ b \in 1..(gi - 1) /\ (a < b \/ b < a)
      BY <3>1, <3>2, <3>3
    <3> QED BY <1>5, <3>2, <3>3, <3>4 DEF Placement
  <2> QED BY <1>1, <1>5, <2>1 DEF StartInv, Early, Grouped, Known, Addressed, Apart
<1>7. LaidInv'
  <2> SUFFICES ASSUME NEW g \in Groups PROVE GroupLaid(g)'
    BY DEF LaidInv
  <2>1. num = Len(ring) /\ ring \in Seq(Devices)
    BY <1>1 DEF AllIn, GroupsInv, DevicesOK
  <2>2. ASSUME NEW k \in DOMAIN subs[g]
        PROVE  /\ subs[g][k].id \in Devices
               /\ \A n \in Fmmus(subs[g][k].id) : fmmu[subs[g][k].id][n] = NoFmmu
    <3>1. OnRing(subs[g][k].id)
      BY DEF PhaseInv, PlaceInv
    <3>2. PICK i \in DOMAIN ring : ring[i] = subs[g][k].id
      BY <3>1 DEF OnRing
    <3>3. i \in 1..num
      BY <2>1
    <3>4. \A n \in Fmmus(ring[i]) : fmmu[ring[i]][n] = NoFmmu
      BY <1>1, <3>3 DEF LayoutInv, BlankInv, Addressed
    <3> QED BY <3>2, <3>4, Member
  <2> DEFINE s == subs[g]
             p == pdi[g]
             o == io[g]
  <2>3. /\ \A k \in DOMAIN s : s[k].id \in Devices /\ \A n \in Fmmus(s[k].id) : fmmu[s[k].id][n] = NoFmmu
        /\ p.start \in Nat /\ ~ Mapping(NoJob)
    BY <1>5, <2>2, NoJobOK DEF Mapping
  <2> HIDE DEF s, p, o
  <2>4. Laid(s, NoJob, p, o, 0, fmmu, sm, MaxPdi[g])
    BY <2>3, LaidNever
  <2>5. GroupLaid(g)
    BY <1>2, <2>4 DEF GroupLaid, s, p, o
  <2> QED BY <1>1, <2>5 DEF GroupLaid
<1> QED BY <1>6, <1>7

\* A step of init keeps the layout.
LEMMA InitLayout ==
  ASSUME LayoutPossible, GroupsInv, PhaseInv, LayoutInv, InitStep
  PROVE  LayoutInv'
BY CountLayout, ResetLayout, OtherLayout, AssignLayout, MailboxLayout, NextLayout, ReturnLayout
   DEF InitStep

\* Nothing is laid out before the first init.
LEMMA LayoutInit ==
  ASSUME Init
  PROVE  LayoutInv
<1>1. NoPdi = [f \in {"start", "read", "len"} |-> NoPdi[f]] /\ NoPdi.start = 0
  BY DEF NoPdi
<1>2. \A g \in Groups : /\ subs[g] = <<>> /\ job[g] = NoJob /\ pdi[g] = NoPdi /\ maps[g] = 0
  BY DEF Init
<1>3. ShapesOK
  <2>1. \A g \in Groups : \A k \in DOMAIN subs[g] : FALSE
    BY <1>2
  <2>2. /\ maps \in [Groups -> Nat] /\ pdi = [g \in Groups |-> pdi[g]] /\ io = [g \in Groups |-> io[g]]
        /\ fmmu = [d \in Devices |-> fmmu[d]] /\ sm = [d \in Devices |-> sm[d]]
    BY DEF Init
  <2>3. \A d \in Devices : AreRegisters(d, fmmu[d], sm[d])
    BY DEF Init, AreRegisters
  <2> QED BY <1>1, <1>2, <2>1, <2>2, <2>3 DEF ShapesOK
<1>4. MappersInv
  BY <1>2, NoJobOK DEF MappersInv, Mapping
<1>5. pc = "idle" /\ pc \notin {"address"} \cup Addressed /\ pc \notin Early /\ pc \notin Grouped
  BY DEF Init, Addressed, Early, Grouped, Known
<1> QED BY <1>1, <1>2, <1>3, <1>4, <1>5 DEF LayoutInv, BlankInv, StartInv, LaidInv

\* Steps that change nothing.
LEMMA LayoutStutter ==
  ASSUME LayoutInv, UNCHANGED vars
  PROVE  LayoutInv'
<1>1. UNCHANGED <<fmmu, sm, pdi, io, maps, ring, num, left, subs, order, gi, offset, job, ty, pc>>
  BY DEF vars, devVars, initVars, grpVars, histVars
<1>2. ShapesOK'
  BY <1>1, SameShapes DEF LayoutInv, ShapesOK
<1>3. MappersInv' /\ BlankInv'
  BY <1>1 DEF LayoutInv, MappersInv, BlankInv
<1>4. StartInv' /\ LaidInv'
  BY <1>1, StartsSame, LaidSame DEF LayoutInv
<1> QED BY <1>2, <1>3, <1>4 DEF LayoutInv

\* As long as no SubDevice leaves: init gives the groups places one behind the
\* other, finds the FMMUs of its SubDevices disabled and so leaves them; a group
\* that lays out its process data for the first time since has, at every access,
\* exactly the sync managers behind it mapped, each at its place in its segment.
\* [init, into_pre_op, configure_fmmus, write_fmmu_config]
THEOREM LayoutInvariant == LayoutPossible => (Spec => []LayoutInv)
<1> SUFFICES ASSUME LayoutPossible PROVE Spec => []LayoutInv
  OBVIOUS
<1>1. Init => LayoutInv
  BY LayoutInit
<1>2. GroupsInv /\ PhaseInv /\ LayoutInv /\ [Next]_vars => LayoutInv'
  <2> SUFFICES ASSUME GroupsInv, PhaseInv, LayoutInv, [Next]_vars PROVE LayoutInv'
    OBVIOUS
  <2>1. CASE \E g \in Groups : GroupStep(g)
    BY <2>1, GroupLayout
  <2>2. CASE InitStep
    BY <2>2, InitLayout
  <2>3. CASE (\E d \in Devices : DeviceStep(d)) \/ Unplug
    BY <2>3, DeviceLayout
  <2>4. CASE UNCHANGED vars
    BY <2>4, LayoutStutter
  <2> QED BY <2>1, <2>2, <2>3, <2>4 DEF Next
<1> QED BY <1>1, <1>2, GroupsInvariant, PhaseInvariant, PTL DEF Spec

\* For every network, every layout of sync managers that one FMMU or FMMUs of their
\* own can map, every MAX_PDI and every interleaving of the groups' tasks with
\* failures, refused states and SubDevices plugged in, the image a group exchanges
\* is the one its SubDevices have mapped and no two FMMUs claim the same address.
\* [into_pre_op, configure_fmmus, write_fmmu_config, reset_subdevices]
THEOREM LayoutIsSound == LayoutPossible => (Spec => []LayoutSound)
<1> SUFFICES ASSUME LayoutPossible PROVE Spec => []LayoutSound
  OBVIOUS
<1>1. GroupsInv /\ LayoutInv => LayoutSound
  BY LayoutFollows
<1>2. Spec => []LayoutInv
  BY LayoutInvariant
<1> QED BY <1>1, <1>2, GroupsInvariant, PTL
=============================================================================
