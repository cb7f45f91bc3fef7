--------------------------- MODULE MailboxProofs ---------------------------
(***************************************************************************)
(* Proofs about the mailboxes of a SubDevice, for any number of tasks and  *)
(* calls, every size of the array and of the segments and every choice of  *)
(* faults.                                                                 *)
(***************************************************************************)
EXTENDS Mailbox, SequenceFacts

Length0 == <<"array", 0>>

-----------------------------------------------------------------------------
\* The invariant AnswersObject rests on: what requests and responses carry,
\* and where a call has come to when it is in an exchange.

IsRequest(m) ==
  m = [cmd |-> m.cmd, obj |-> m.obj, value |-> m.value, toggle |-> m.toggle,
       counter |-> m.counter, seq |-> m.seq]

GoodRequest(m) ==
  /\ IsRequest(m)
  /\ m.cmd \in {"Download", "Upload", "UploadSegment", "Info"}
  /\ m.seq \in 1..taken /\ m.value \in Nat
  /\ m.cmd # "Info" => m.obj \in Objects
  /\ m.cmd = "Download" /\ m.obj = Length0 => m.value <= ArrayLen

GoodUpload(m) ==
  \/ /\ m.obj \in Entries \cup {Single} /\ m.bits1 = 7
     /\ \E v \in Nat : /\ m.data = Bytes(m.obj, v, 1, 1)
                       /\ m.obj = Length0 => v <= ArrayLen
  \/ /\ m.obj = Normal /\ m.bits1 = 0 /\ m.length = 10 + ValueLen
     /\ \E v \in Nat : m.data = <<ValueLen>> \o Bytes(Normal, v, 1, ValueLen)
  \/ m.obj = Long /\ m.bits1 = 0 /\ m.length = 10 /\ m.data = <<ValueLen>>

GoodResponse(m) ==
  /\ m.cmd \in {"Download", "Upload", "UploadSegment", "Reserved", "Info",
                "InfoError", "Abort", "Emergency"}
  /\ m.seq \in 0..taken
  /\ m.cmd = "UploadSegment" => m.obj = NoObject
  /\ m.cmd = "Download" => m.bits1 = 0 /\ m.length = 10 /\ m.data = << 0 >>
  /\ m.cmd = "Upload" => GoodUpload(m)

MessagesInv ==
  /\ mb_in = Empty \/ GoodRequest(mb_in)
  /\ mb_out = Empty \/ GoodResponse(mb_out)
  /\ IsSeq(pending) /\ \A k \in 1..Len(pending) : GoodResponse(pending[k])
  /\ od[Length0] <= ArrayLen

Kinds == {"none", "sdo_write", "sdo_read", "sdo_read_expedited",
          "sdo_write_array", "sdo_read_array", "sdo_info"}
CallRecord ==
  [kind : Kinds, obj : Objects \cup {NoObject}, id : Nat, len : Nat]

\* The entries before sub-index s of the array.
EntriesBefore(b, s) ==
  /\ IsSeq(b) /\ Len(b) = IF s = 0 THEN 0 ELSE s - 1
  /\ \A k \in 1..Len(b) : b[k][1] = <<"array", k>>

\* A call o at step s whose request is cmd, with b read so far.
GoodCall(o, s, cmd, b) ==
  /\ o \in CallRecord /\ <<o.kind, o.obj>> \in AllCalls /\ s \in Nat
  /\ \/ cmd = Command(o.kind)
     \/ cmd = "UploadSegment" /\ o.kind = "sdo_read" /\ o.obj = Long
  /\ o.kind = "sdo_write_array" => s <= ArrayLen + 1
  /\ o.kind = "sdo_read_array" =>
       o.len \in 0..ArrayLen /\ s <= o.len /\ EntriesBefore(b, s)

CallInv(t) ==
  Exchanging(t) =>
    /\ GoodCall(op[t], step[t], req[t].cmd, buf[t])
    /\ req[t].obj = Target(op[t], step[t])
    /\ req[t].value = Written(op[t], step[t])
    /\ req[t].seq \in 1..taken /\ IsRequest(req[t])

FunctionsInv ==
  /\ op \in [Tasks -> CallRecord] /\ req = [t \in Tasks |-> req[t]]
  /\ buf = [t \in Tasks |-> buf[t]]

DataInv ==
  TypeOK /\ FunctionsInv /\ MessagesInv /\ (\A t \in Tasks : CallInv(t))

-----------------------------------------------------------------------------
\* The invariant OwnAnswer rests on.  What a quiet request of a task has to
\* itself: nobody else is in an exchange, the SubDevice has nothing to do
\* until the request is written, OUT is empty (but for an emergency) when the
\* clearing ends before its last attempt, and then only the request and its
\* responses are on their way.

Foreign(m, t) == m.cmd \notin {"Empty", "Emergency"} /\ m.seq # req[t].seq

QuietInv(t) ==
  quiet[t] /\ Exchanging(t) =>
    /\ \A u \in Tasks \ {t} : ~Exchanging(u)
    /\ pc[t] \in {"clear", "clearing", "ready", "write"} => Idle
    /\ pc[t] \in {"ready", "write"} => mb_out.cmd \in {"Empty", "Emergency"}
    /\ pc[t] \in {"wait", "fetch"} => /\ ~Foreign(mb_in, t)
                                      /\ ~Foreign(mb_out, t)
                                      /\ \A k \in 1..Len(pending) :
                                           ~Foreign(pending[k], t)

-----------------------------------------------------------------------------
\* The invariant Acknowledged and ArrayConsistent rest on, as long as every
\* request was quiet.

Even == \A i, j \in 1..ArrayLen : od[<<"array", i>>] = od[<<"array", j>>]

\* The array announces no entries while they may differ, not even when the
\* request in IN has been carried out.
ArrayInv ==
  /\ od[Length0] > 0 => Even
  /\ mb_in.cmd = "Download" =>
       /\ \A k \in 1..ArrayLen : mb_in.obj = <<"array", k>> => od[Length0] = 0
       /\ mb_in.obj = Length0 /\ mb_in.value > 0 => Even

\* What an sdo_write_array has achieved when it has come to step s.
WrittenInv(t) ==
  Exchanging(t) /\ op[t].kind = "sdo_write_array" =>
    /\ step[t] \in 1..ArrayLen => od[Length0] = 0
    /\ \A i \in 1..ArrayLen : i < step[t] => od[<<"array", i>>] = op[t].id

\* A response to a download says that it was carried out.
Confirms(m, t) ==
  m.cmd \notin {"Empty", "Emergency"} /\ req[t].cmd = "Download" =>
    /\ m.cmd \in {"Download", "Abort"}
    /\ m.cmd = "Download" => od[req[t].obj] = req[t].value

ConfirmInv(t) ==
  pc[t] \in {"wait", "fetch"} =>
    /\ mb_in = Empty \/ mb_in = req[t]
    /\ Confirms(mb_out, t)
    /\ \A k \in 1..Len(pending) : Confirms(pending[k], t)

SerialInv ==
  serial => /\ ArrayInv
            /\ \A t \in Tasks : /\ Exchanging(t) => quiet[t]
                                /\ WrittenInv(t) /\ ConfirmInv(t)

-----------------------------------------------------------------------------
\* The invariant CounterSeparates rests on: the counter of a request is that
\* many more than a multiple of CounterMax below its sequence number.
Counted(seq, counter) == \E q \in Nat : seq = q * CounterMax + counter

CounterInv ==
  /\ Counted(taken + 1, mailbox_counter)
  /\ lastReq.counter \in 0..CounterMax /\ lastReq.seq \in Nat
  /\ Counted(lastReq.seq, lastReq.counter)
  /\ \A t \in Tasks : Exchanging(t) =>
       /\ req[t].counter \in 1..CounterMax
       /\ Counted(req[t].seq, req[t].counter)

-----------------------------------------------------------------------------
\* Facts about the operators.

LEMMA Sizes ==
  /\ CounterMax \in Nat \ {0} /\ ClearTries \in Nat \ {0}
  /\ ArrayLen \in Nat \ {0} /\ MaxEntries \in Nat
  /\ SegLen \in Nat /\ ValueLen \in Nat /\ ValueLen > 7
  /\ Len(InfoParts) \in Nat /\ \A t \in Tasks : Calls[t] \subseteq AllCalls
BY SizesAssumption, OptionsAssumption

\* The objects are distinct, and only two have more than one byte.
LEMMA ObjectFacts ==
  /\ Single \in Objects /\ Normal \in Objects /\ Long \in Objects
  /\ \A k \in 0..ArrayLen : <<"array", k>> \in Entries
  /\ Entries \subseteq Objects /\ NoObject \notin Objects
  /\ Length0 \in Entries
  /\ Single \notin Entries /\ Normal \notin Entries /\ Long \notin Entries
  /\ Single # Normal /\ Single # Long /\ Normal # Long
  /\ \A o \in Entries \cup {Single} : Length(o) = 1
  /\ Length(Normal) = ValueLen /\ Length(Long) = ValueLen
BY Sizes DEF Objects, Entries, Single, Normal, Long, NoObject, Length0, Length

LEMMA CallFacts ==
  ASSUME NEW kind, NEW o, <<kind, o>> \in AllCalls
  PROVE  /\ kind \in {"sdo_write", "sdo_read", "sdo_read_expedited",
                      "sdo_write_array", "sdo_read_array", "sdo_info"}
         /\ kind \in {"sdo_write", "sdo_read", "sdo_read_expedited"}
              <=> o \in {Single, Normal, Long}
         /\ kind \in {"sdo_write_array", "sdo_read_array", "sdo_info"}
              <=> o = NoObject
BY DEF AllCalls, Single, Normal, Long, NoObject

\* A function on 1..n is a sequence of length n.
LEMMA FunctionSeq ==
  ASSUME NEW n \in Nat, NEW f, f = [k \in 1..n |-> f[k]]
  PROVE  IsSeq(f) /\ Len(f) = n
BY DEF IsSeq

LEMMA TakeSeq ==
  ASSUME NEW data, NEW n \in Nat
  PROVE  /\ IsSeq(Take(data, n)) /\ Len(Take(data, n)) = n
         /\ \A k \in 1..n : k <= Len(data) => Take(data, n)[k] = data[k]
<1>1. Take(data, n) = [k \in 1..n |-> Take(data, n)[k]]
  BY DEF Take
<1> QED BY <1>1, FunctionSeq DEF Take

LEMMA BytesSeq ==
  ASSUME NEW o, NEW v, NEW n \in Nat
  PROVE  /\ IsSeq(Bytes(o, v, 1, n)) /\ Len(Bytes(o, v, 1, n)) = n
         /\ \A k \in 1..n : Bytes(o, v, 1, n)[k] = <<o, v, k>>
<1>1. Bytes(o, v, 1, n) = [k \in 1..n |-> <<o, v, k>>]
  BY DEF Bytes, Byte
<1>2. Bytes(o, v, 1, n) = [k \in 1..n |-> Bytes(o, v, 1, n)[k]]
  BY <1>1
<1> QED BY <1>1, <1>2, FunctionSeq

-----------------------------------------------------------------------------
\* How a step that reads OUT ends: the call returns, goes on with another
\* request, waits for more or panics.

\* What AnswersObject says of a call of this kind that returns v.
GoodValue(kind, o, v) ==
  /\ kind \in {"sdo_read", "sdo_read_expedited"} /\ o # Long
       => \A k \in 1..Len(v) : v[k][1] = o /\ v[k][3] = k
  /\ kind = "sdo_read_array"
       => \A k \in 1..Len(v) : v[k][1] = <<"array", k>>

IsWrite(t) == op[t].kind \in {"sdo_write", "sdo_write_array"}
IsAccepted == mb_out.cmd \in {"Download", "Upload", "UploadSegment"}

Returns(t) ==
  \E ok, v :
    /\ ok \in BOOLEAN /\ Return(t, ok, v)
    /\ ok => /\ GoodValue(op[t].kind, op[t].obj, v)
             /\ IsWrite(t) => IsAccepted
             /\ op[t].kind = "sdo_write_array" => step[t] > ArrayLen

Continues(t) ==
  \E o, s, cmd, tog, b :
    /\ Exchange(t, o, s, cmd, tog, b)
    /\ GoodCall(o, s, cmd, b) /\ tog \in BOOLEAN
    /\ o.kind = op[t].kind
    /\ IsWrite(t) => IsAccepted /\ o = op[t] /\ s = step[t] + 1

Waits(t) ==
  op[t].kind = "sdo_info" /\ \E s, b : s \in Nat /\ AwaitNext(t, s, b)

\* An error is returned with nothing to show for it.
LEMMA FailReturns ==
  ASSUME NEW t, Fail(t)
  PROVE  Returns(t)
BY DEF Fail, Returns

LEMMA ExchangeContinues ==
  ASSUME NEW t, NEW o, NEW s, NEW cmd, NEW tog \in BOOLEAN, NEW b,
         Exchange(t, o, s, cmd, tog, b), GoodCall(o, s, cmd, b),
         o.kind = op[t].kind,
         IsWrite(t) => IsAccepted /\ o = op[t] /\ s = step[t] + 1
  PROVE  Continues(t)
BY DEF Continues

\* Bytes that a read may unpack: of the object asked for, in order.
GoodPayload(t, payload) ==
  /\ IsSeq(payload)
  /\ \A k \in 1..Len(payload) :
       k <= Length(req[t].obj) =>
         /\ payload[k][1] = req[t].obj /\ payload[k][3] = k
         /\ payload[k][2] \in Nat
         /\ req[t].obj = Length0 => payload[k][2] <= ArrayLen

\* The array is read on from the byte that sub-index step[t] holds.
LEMMA NextReadOutcome ==
  ASSUME NEW t \in Tasks, TypeOK, FunctionsInv, CallInv(t), pc[t] = "fetch",
         op[t].kind = "sdo_read_array", NEW byte, NextRead(t, byte),
         byte[1] = <<"array", step[t]>>, byte[2] \in Nat,
         step[t] = 0 => byte[2] <= ArrayLen
  PROVE  Returns(t) \/ Continues(t)
<1> DEFINE o == IF step[t] = 0 THEN [op[t] EXCEPT !.len = byte[2]] ELSE op[t]
           values == IF step[t] = 0 THEN <<>> ELSE Append(buf[t], byte)
<1> USE Sizes
<1>1. GoodCall(op[t], step[t], req[t].cmd, buf[t]) /\ ~IsWrite(t)
  BY DEF CallInv, Exchanging, IsWrite
<1>2. /\ o.kind = "sdo_read_array" /\ <<o.kind, o.obj>> \in AllCalls
      /\ o \in CallRecord /\ o.len \in 0..ArrayLen /\ step[t] \in 0..o.len
  <2>1. CASE step[t] = 0
    BY <1>1, <2>1, SMTT(40) DEF GoodCall, CallRecord
  <2>2. CASE step[t] # 0
    BY <1>1, <2>2, SMTT(40) DEF GoodCall
  <2> QED BY <2>1, <2>2
<1>3. /\ IsSeq(values) /\ Len(values) = step[t]
      /\ \A k \in 1..Len(values) : values[k][1] = <<"array", k>>
  <2>1. CASE step[t] = 0
    BY <2>1, EmptyIsSeq
  <2>2. CASE step[t] # 0
    <3>1. /\ IsSeq(buf[t]) /\ Len(buf[t]) = step[t] - 1 /\ step[t] \in Nat
          /\ \A k \in 1..Len(buf[t]) : buf[t][k][1] = <<"array", k>>
      BY <1>1, <2>2 DEF GoodCall, EntriesBefore
    <3>2. values = Append(buf[t], byte)
      BY <2>2
    <3> HIDE DEF values
    <3>3. /\ IsSeq(values) /\ Len(values) = Len(buf[t]) + 1
          /\ \A k \in 1..Len(buf[t]) : values[k] = buf[t][k]
          /\ values[Len(buf[t]) + 1] = byte
      BY <3>1, <3>2, AppendSeq
    <3>4. ASSUME NEW k \in 1..Len(values)
          PROVE  values[k][1] = <<"array", k>>
      <4>1. CASE k <= Len(buf[t])
        <5>1. k \in 1..Len(buf[t])
          BY <3>1, <4>1
        <5> QED BY <3>1, <3>3, <5>1, Zenon
      <4>2. CASE k = step[t]
        BY <3>1, <3>3, <4>2
      <4> QED BY <3>1, <3>3, <4>1, <4>2
    <3> QED BY <3>1, <3>3, <3>4
  <2> QED BY <2>1, <2>2
<1>4. \/ Fail(t)
      \/ Return(t, TRUE, values)
      \/ step[t] # o.len /\ Exchange(t, o, step[t] + 1, "Upload", FALSE, values)
  BY DEF NextRead
<1> HIDE DEF o, values
<1>5. CASE Return(t, TRUE, values)
  <2>1. GoodValue(op[t].kind, op[t].obj, values)
    BY <1>3 DEF GoodValue
  <2> QED BY <1>1, <1>5, <2>1 DEF Returns
<1>6. CASE step[t] # o.len /\ Exchange(t, o, step[t] + 1, "Upload", FALSE, values)
  <2>1. GoodCall(o, step[t] + 1, "Upload", values)
    <3>1. EntriesBefore(values, step[t] + 1)
      BY <1>2, <1>3 DEF EntriesBefore
    <3> QED BY <1>2, <1>6, <3>1, SMTT(40) DEF GoodCall, Command
  <2> QED BY <1>1, <1>2, <1>6, <2>1, ExchangeContinues
<1> QED BY <1>4, <1>5, <1>6, FailReturns

\* A read unpacks the bytes of its object.
LEMMA UnpackOutcome ==
  ASSUME NEW t \in Tasks, TypeOK, FunctionsInv, CallInv(t), pc[t] = "fetch",
         ~IsWrite(t), op[t].kind # "sdo_info",
         NEW payload, GoodPayload(t, payload), Unpack(t, payload)
  PROVE  Returns(t) \/ Continues(t)
<1> USE Sizes
<1>1. /\ GoodCall(op[t], step[t], req[t].cmd, buf[t])
      /\ req[t].obj = Target(op[t], step[t])
  BY DEF CallInv, Exchanging
<1>2. op[t].kind \in {"sdo_read", "sdo_read_expedited", "sdo_read_array"}
  BY <1>1, CallFacts DEF GoodCall, IsWrite
<1>3. CASE Fail(t)
  BY <1>3, FailReturns
<1>4. CASE op[t].kind = "sdo_read_array" /\ ~Fail(t)
  <2>1. req[t].obj = <<"array", step[t]>> /\ step[t] \in 0..ArrayLen
    BY <1>1, <1>4 DEF GoodCall, Target
  <2>2. Length(req[t].obj) = 1
    BY <2>1, ObjectFacts
  <2>3. NextRead(t, payload[1]) /\ Len(payload) >= 1
    BY <1>4, <2>2 DEF Unpack, GoodPayload, IsSeq
  <2>4. 1 \in 1..Len(payload)
    BY <2>3 DEF GoodPayload, IsSeq
  <2>5. /\ payload[1][1] = req[t].obj /\ payload[1][2] \in Nat
        /\ req[t].obj = Length0 => payload[1][2] <= ArrayLen
    BY <2>2, <2>4 DEF GoodPayload
  <2> QED BY <1>4, <2>1, <2>3, <2>5, NextReadOutcome DEF Length0
<1>5. CASE op[t].kind # "sdo_read_array" /\ ~Fail(t)
  <2> DEFINE n == Length(req[t].obj)
             value == SubSeq(payload, 1, n)
  <2>0. ~(Len(payload) < n) /\ Return(t, TRUE, value)
    BY <1>5, Zenon DEF Unpack
  <2>1. Len(payload) >= n
    BY <2>0 DEF GoodPayload, IsSeq, Length
  <2>2. req[t].obj = op[t].obj /\ n \in Nat
    BY <1>1, <1>2, <1>5 DEF Target, Length
  <2>3. /\ Len(payload) \in Nat /\ IsSeq(payload)
        /\ \A k \in 1..Len(payload) : k <= n =>
             payload[k][1] = req[t].obj /\ payload[k][3] = k
    BY DEF GoodPayload, IsSeq
  <2> HIDE DEF n
  <2>4. Len(value) = n /\ \A k \in 1..n : value[k] = payload[k]
    BY <2>1, <2>2, <2>3, PartSeq
  <2>5. \A k \in 1..n : k \in 1..Len(payload) /\ k <= n
    BY <2>1, <2>2, <2>3
  <2> HIDE DEF value
  <2>6. \A k \in 1..Len(value) : value[k][1] = op[t].obj /\ value[k][3] = k
    BY <2>2, <2>3, <2>4, <2>5, Zenon
  <2>7. GoodValue(op[t].kind, op[t].obj, value)
    BY <1>5, <2>6 DEF GoodValue
  <2> QED BY <1>2, <2>0, <2>7 DEF Returns
<1> QED BY <1>3, <1>4, <1>5

\* The request of a call that is not for the object list names an object.
LEMMA TargetObject ==
  ASSUME NEW o, NEW s, NEW cmd, NEW b, GoodCall(o, s, cmd, b)
  PROVE  /\ o.kind # "sdo_info" => Target(o, s) \in Objects
         /\ o.kind \in {"sdo_read", "sdo_read_expedited"} => Target(o, s) = o.obj
         /\ o.kind = "sdo_read_array" => Target(o, s) \in Entries
         /\ o.kind # "sdo_info" <=> cmd # "Info"
<1> USE Sizes
<1>1. /\ o.kind \in {"sdo_write", "sdo_read", "sdo_read_expedited",
                     "sdo_write_array", "sdo_read_array", "sdo_info"}
      /\ o.kind \in {"sdo_write", "sdo_read", "sdo_read_expedited"}
           => o.obj \in Objects
  BY CallFacts, ObjectFacts DEF GoodCall
<1>2. CASE o.kind = "sdo_write_array"
  <2>1. (IF s > ArrayLen THEN 0 ELSE s) \in 0..ArrayLen
    BY <1>2 DEF GoodCall
  <2> QED BY <1>2, <2>1, ObjectFacts DEF GoodCall, Target, Command
<1>3. CASE o.kind = "sdo_read_array"
  <2>1. s \in 0..ArrayLen
    BY <1>3 DEF GoodCall
  <2> QED BY <1>3, <2>1, ObjectFacts DEF GoodCall, Target, Command
<1>4. CASE o.kind \notin {"sdo_write_array", "sdo_read_array"}
  BY <1>1, <1>4 DEF GoodCall, Target, Command
<1> QED BY <1>2, <1>3, <1>4

\* The first byte of an expedited answer, and the bytes of a normal one.
LEMMA OneByte ==
  ASSUME NEW o, NEW v
  PROVE  LET p == Take(Bytes(o, v, 1, 1), 1)
         IN IsSeq(p) /\ Len(p) = 1 /\ p[1] = <<o, v, 1>>
<1> DEFINE b == Bytes(o, v, 1, 1)
           p == Take(b, 1)
<1>1. IsSeq(b) /\ Len(b) = 1 /\ b[1] = <<o, v, 1>>
  BY BytesSeq
<1> HIDE DEF b
<1>2. IsSeq(p) /\ Len(p) = 1 /\ \A k \in 1..1 : k <= Len(b) => p[k] = b[k]
  BY TakeSeq
<1> QED BY <1>1, <1>2 DEF b

LEMMA ExpeditedPayload ==
  ASSUME NEW t, NEW r, r.obj = req[t].obj,
         r.obj \in Entries \cup {Single}, r.bits1 = 7, GoodUpload(r)
  PROVE  Expedited(r) /\ GoodPayload(t, Take(r.data, 4 - r.bits1 \div 2))
<1>1. PICK v \in Nat : /\ r.data = Bytes(r.obj, v, 1, 1)
                       /\ r.obj = Length0 => v <= ArrayLen
  BY ObjectFacts DEF GoodUpload
<1>2. 4 - r.bits1 \div 2 = 1 /\ Expedited(r)
  BY DEF Expedited
<1> DEFINE p == Take(r.data, 1)
<1>3. IsSeq(p) /\ Len(p) = 1 /\ p[1] = <<r.obj, v, 1>>
  BY <1>1, OneByte, Zenon
<1> HIDE DEF p
<1>4. \A k \in 1..Len(p) : k = 1
  BY <1>3
<1>5. /\ p[1][1] = req[t].obj /\ p[1][3] = 1 /\ p[1][2] \in Nat
      /\ req[t].obj = Length0 => p[1][2] <= ArrayLen
  BY <1>1, <1>3
<1>6. GoodPayload(t, p)
  BY <1>3, <1>4, <1>5, Zenon DEF GoodPayload
<1> QED BY <1>2, <1>6 DEF p

LEMMA NormalPayload ==
  ASSUME NEW t, NEW r, r.obj = req[t].obj, r.obj = Normal, GoodUpload(r)
  PROVE  /\ ~Expedited(r) /\ r.data[1] = ValueLen
         /\ r.length - 10 = ValueLen
         /\ GoodPayload(t, Take(Tail(r.data), r.length - 10))
<1>1. /\ r.bits1 = 0 /\ r.length = 10 + ValueLen
      /\ \E v \in Nat : r.data = <<ValueLen>> \o Bytes(Normal, v, 1, ValueLen)
  BY ObjectFacts DEF GoodUpload
<1>2. PICK v \in Nat : r.data = <<ValueLen>> \o Bytes(Normal, v, 1, ValueLen)
  BY <1>1
<1> DEFINE bytes == Bytes(Normal, v, 1, ValueLen)
           rest == Tail(r.data)
           payload == Take(rest, ValueLen)
<1>3. /\ IsSeq(bytes) /\ Len(bytes) = ValueLen
      /\ \A k \in 1..ValueLen : bytes[k] = <<Normal, v, k>>
  BY Sizes, BytesSeq
<1>4. IsSeq(<<ValueLen>>) /\ Len(<<ValueLen>>) = 1 /\ <<ValueLen>>[1] = ValueLen
  BY SingleSeq
<1> HIDE DEF bytes
<1>5. /\ IsSeq(r.data) /\ Len(r.data) = 1 + ValueLen
      /\ \A k \in 1..(1 + ValueLen) :
           r.data[k] = IF k <= 1 THEN <<ValueLen>>[k] ELSE bytes[k - 1]
  BY <1>2, <1>3, <1>4, ConcatSeq DEF bytes
<1>6. r.data # <<>> /\ r.data[1] = ValueLen
  BY <1>4, <1>5, EmptyIsSeq, Sizes
<1>7. /\ Len(rest) = ValueLen
      /\ \A k \in 1..ValueLen : rest[k] = r.data[k + 1]
  BY <1>5, <1>6, TailSeq, Sizes
<1>8. \A k \in 1..ValueLen : r.data[k + 1] = bytes[k]
  <2> SUFFICES ASSUME NEW k \in 1..ValueLen PROVE r.data[k + 1] = bytes[k]
    OBVIOUS
  <2>1. k + 1 \in 1..(1 + ValueLen) /\ ~(k + 1 <= 1) /\ (k + 1) - 1 = k
    BY Sizes
  <2> QED BY <1>5, <2>1
<1> HIDE DEF rest
<1>9. /\ IsSeq(payload) /\ Len(payload) = ValueLen
      /\ \A k \in 1..ValueLen : payload[k] = rest[k]
  <2>1. /\ IsSeq(payload) /\ Len(payload) = ValueLen
        /\ \A k \in 1..ValueLen : k <= Len(rest) => payload[k] = rest[k]
    BY Sizes, TakeSeq
  <2> HIDE DEF payload
  <2>2. \A k \in 1..ValueLen : k <= Len(rest)
    BY <1>7, Sizes
  <2> QED BY <2>1, <2>2
<1> HIDE DEF payload
<1>10. ASSUME NEW k \in 1..Len(payload)
       PROVE  payload[k] = <<Normal, v, k>>
  BY <1>3, <1>7, <1>8, <1>9
<1>11. GoodPayload(t, payload)
  BY <1>9, <1>10, ObjectFacts DEF GoodPayload
<1>12. ~Expedited(r)
  BY <1>1 DEF Expedited
<1> QED BY <1>1, <1>6, <1>11, <1>12, Sizes DEF payload, rest

\* The confirmation of a download, taken for the answer to a read, holds no
\* byte of the object.
LEMMA DownloadPayload ==
  ASSUME NEW t, NEW r, r.bits1 = 0, r.length = 10, r.data = << 0 >>
  PROVE  /\ ~Expedited(r) /\ r.data[1] = 0 /\ r.length - 10 = 0
         /\ GoodPayload(t, Take(Tail(r.data), r.length - 10))
<1>1. ~Expedited(r) /\ r.length - 10 = 0
  BY DEF Expedited
<1>2. r.data[1] = 0
  BY SingleSeq, Zenon
<1> DEFINE p == Take(Tail(r.data), 0)
<1>3. IsSeq(p) /\ Len(p) = 0
  BY TakeSeq
<1> HIDE DEF p
<1>4. \A k \in 1..Len(p) : FALSE
  BY <1>3
<1>5. GoodPayload(t, p)
  BY <1>3, <1>4, Zenon DEF GoodPayload
<1> QED BY <1>1, <1>2, <1>5 DEF p

LEMMA LongAnswer ==
  ASSUME NEW r, r.obj = Long, GoodUpload(r)
  PROVE  ~Expedited(r) /\ r.data[1] = ValueLen /\ r.length - 10 = 0
<1>1. r.bits1 = 0 /\ r.length = 10 /\ r.data = <<ValueLen>>
  BY ObjectFacts DEF GoodUpload
<1>2. r.data[1] = ValueLen
  BY <1>1, SingleSeq, Zenon
<1> QED BY <1>1, <1>2 DEF Expedited

\* The answer to a read, validated, when the request was no segment.
LEMMA UploadedOutcome ==
  ASSUME NEW t \in Tasks, TypeOK, FunctionsInv, CallInv(t), pc[t] = "fetch",
         ~IsWrite(t), op[t].kind # "sdo_info", req[t].cmd = "Upload",
         NEW r, GoodResponse(r), r.cmd \in {"Download", "Upload"},
         r.obj = req[t].obj,
         \/ op[t].kind = "sdo_read_expedited"
              /\ IF Expedited(r)
                 THEN Unpack(t, Take(r.data, 4 - r.bits1 \div 2)) ELSE Fail(t)
         \/ op[t].kind # "sdo_read_expedited" /\ Uploaded(t, r)
  PROVE  Returns(t) \/ Continues(t)
<1>1. /\ GoodCall(op[t], step[t], req[t].cmd, buf[t])
      /\ req[t].obj = Target(op[t], step[t])
  BY DEF CallInv, Exchanging
<1>2. req[t].obj \in Objects
  BY <1>1, TargetObject
<1>3. CASE r.cmd = "Download"
  <2>1. r.bits1 = 0 /\ r.length = 10 /\ r.data = << 0 >>
    BY <1>3 DEF GoodResponse
  <2>2. /\ ~Expedited(r) /\ r.data[1] = 0 /\ r.length - 10 = 0
        /\ GoodPayload(t, Take(Tail(r.data), r.length - 10))
    BY <2>1, DownloadPayload
  <2>3. ~(r.data[1] > Length(req[t].obj)) /\ r.data[1] <= r.length - 10
    BY <2>2, Sizes DEF Length
  <2>4. Fail(t) \/ Unpack(t, Take(Tail(r.data), r.length - 10))
    BY <2>2, <2>3, Zenon DEF Uploaded
  <2> QED BY <2>2, <2>4, FailReturns, UnpackOutcome
<1>4. CASE r.cmd = "Upload"
  <2>1. GoodUpload(r)
    BY <1>4 DEF GoodResponse
  <2>2. CASE r.obj \in Entries \cup {Single}
    <3>1. r.bits1 = 7
      BY <2>1, <2>2, ObjectFacts DEF GoodUpload
    <3>2. Expedited(r) /\ GoodPayload(t, Take(r.data, 4 - r.bits1 \div 2))
      BY <2>1, <2>2, <3>1, ExpeditedPayload
    <3>3. Unpack(t, Take(r.data, 4 - r.bits1 \div 2))
      BY <3>2, Zenon DEF Uploaded
    <3> QED BY <3>2, <3>3, UnpackOutcome
  <2>3. CASE r.obj = Normal
    <3>1. /\ ~Expedited(r) /\ r.data[1] = ValueLen
          /\ r.length - 10 = ValueLen
          /\ GoodPayload(t, Take(Tail(r.data), r.length - 10))
      BY <2>1, <2>3, NormalPayload
    <3>2. ~(r.data[1] > Length(req[t].obj)) /\ r.data[1] <= r.length - 10
      BY <2>3, <3>1, ObjectFacts, Sizes
    <3>3. Fail(t) \/ Unpack(t, Take(Tail(r.data), r.length - 10))
      BY <3>1, <3>2, Zenon DEF Uploaded
    <3> QED BY <3>1, <3>3, FailReturns, UnpackOutcome
  <2>4. CASE r.obj = Long
    <3>1. ~Expedited(r) /\ r.data[1] = ValueLen /\ r.length - 10 = 0
      BY <2>1, <2>4, LongAnswer
    <3>2. ~(r.data[1] <= r.length - 10)
      BY <3>1, Sizes
    <3>3. \/ Fail(t)
          \/ op[t].kind # "sdo_read_expedited" /\ NextSegment(t, FALSE, <<>>)
      BY <3>1, <3>2, Zenon DEF Uploaded
    <3>4. CASE op[t].kind # "sdo_read_expedited" /\ NextSegment(t, FALSE, <<>>)
      <4>1. op[t].kind = "sdo_read"
        <5>1. op[t].kind # "sdo_read_array"
          BY <1>1, <2>4, TargetObject, ObjectFacts
        <5>2. <<op[t].kind, op[t].obj>> \in AllCalls
          BY <1>1 DEF GoodCall
        <5> QED BY <3>4, <5>1, <5>2, CallFacts DEF IsWrite
      <4>2. op[t].obj = Long
        BY <1>1, <2>4, <4>1, TargetObject
      <4>3. GoodCall(op[t], step[t] + 1, "UploadSegment", <<>>)
        BY <1>1, <4>1, <4>2 DEF GoodCall
      <4> QED BY <3>4, <4>3, ExchangeContinues DEF NextSegment
    <3> QED BY <3>3, <3>4, FailReturns
  <2> QED BY <1>2, <2>2, <2>3, <2>4 DEF Objects
<1> QED BY <1>3, <1>4

\* A segment, or what was taken for one.
LEMMA SegmentOutcome ==
  ASSUME NEW t \in Tasks, TypeOK, FunctionsInv, CallInv(t), pc[t] = "fetch",
         req[t].cmd = "UploadSegment", NEW r, UploadedSegment(t, r)
  PROVE  Returns(t) \/ Continues(t)
<1>1. GoodCall(op[t], step[t], req[t].cmd, buf[t])
  BY DEF CallInv, Exchanging
<1>2. op[t].kind = "sdo_read" /\ op[t].obj = Long /\ ~IsWrite(t)
  BY <1>1 DEF GoodCall, Command, IsWrite
<1> DEFINE full == r.length - 3
           bytes == buf[t] \o Take(r.data, IF full = 7 THEN 7 - r.bits1 ELSE full)
<1>3. \/ Fail(t) \/ Unpack(t, bytes) \/ NextSegment(t, ~toggle[t], bytes)
  BY DEF UploadedSegment
<1> HIDE DEF bytes
<1>4. CASE Unpack(t, bytes)
  <2>1. Fail(t) \/ Return(t, TRUE, SubSeq(bytes, 1, Length(req[t].obj)))
    BY <1>2, <1>4 DEF Unpack
  <2>2. \A v : GoodValue(op[t].kind, op[t].obj, v)
    BY <1>2 DEF GoodValue
  <2> QED BY <1>2, <2>1, <2>2, FailReturns DEF Returns
<1>5. CASE NextSegment(t, ~toggle[t], bytes)
  <2>1. GoodCall(op[t], step[t] + 1, "UploadSegment", bytes)
    BY <1>1, <1>2 DEF GoodCall
  <2>2. (~toggle[t]) \in BOOLEAN
    OBVIOUS
  <2> QED BY <1>2, <1>5, <2>1, <2>2, ExchangeContinues DEF NextSegment
<1> QED BY <1>3, <1>4, <1>5, FailReturns

LEMMA RespondOutcome ==
  ASSUME NEW t \in Tasks, DataInv, pc[t] = "fetch", op[t].kind # "sdo_info",
         IsAccepted, ValidateResponse(req[t], mb_out), Respond(t, mb_out)
  PROVE  Returns(t) \/ Continues(t)
<1>1. /\ TypeOK /\ FunctionsInv /\ CallInv(t) /\ GoodResponse(mb_out)
      /\ GoodCall(op[t], step[t], req[t].cmd, buf[t])
      /\ req[t].obj = Target(op[t], step[t])
  BY DEF DataInv, CallInv, Exchanging, MessagesInv, IsAccepted, Empty
<1>2. CASE op[t].kind = "sdo_write"
  <2>1. Return(t, TRUE, <<>>)
    BY <1>2 DEF Respond
  <2> QED BY <1>2, <2>1 DEF Returns, GoodValue
<1>3. CASE op[t].kind = "sdo_write_array"
  <2>1. NextWrite(t)
    BY <1>3 DEF Respond
  <2>2. CASE step[t] > ArrayLen
    BY <1>3, <2>1, <2>2 DEF NextWrite, Returns, GoodValue
  <2>3. CASE ~(step[t] > ArrayLen)
    <3>1. Exchange(t, op[t], step[t] + 1, "Download", FALSE, <<>>)
      BY <2>1, <2>3 DEF NextWrite
    <3>2. GoodCall(op[t], step[t] + 1, "Download", <<>>)
      BY <1>1, <1>3, <2>3, Sizes DEF GoodCall, Command
    <3> QED BY <3>1, <3>2, ExchangeContinues
  <2> QED BY <2>2, <2>3
<1>4. CASE ~IsWrite(t) /\ req[t].cmd = "UploadSegment"
  <2>1. op[t].kind = "sdo_read"
    BY <1>1, <1>4 DEF GoodCall, Command
  <2>2. UploadedSegment(t, mb_out)
    BY <1>4, <2>1 DEF Respond
  <2> QED BY <1>1, <1>4, <2>2, SegmentOutcome
<1>5. CASE ~IsWrite(t) /\ req[t].cmd # "UploadSegment"
  <2>1. req[t].cmd = "Upload"
    BY <1>1, <1>5 DEF GoodCall, Command, IsWrite
  <2>2. mb_out.obj = req[t].obj
    BY <1>5 DEF ValidateResponse
  <2>3. req[t].obj \in Objects
    BY <1>1, TargetObject
  <2>4. mb_out.cmd \in {"Download", "Upload"}
    BY <1>1, <2>2, <2>3, ObjectFacts DEF IsAccepted, GoodResponse
  <2>5. \/ op[t].kind = "sdo_read_expedited"
             /\ IF Expedited(mb_out)
                THEN Unpack(t, Take(mb_out.data, 4 - mb_out.bits1 \div 2))
                ELSE Fail(t)
        \/ op[t].kind # "sdo_read_expedited" /\ Uploaded(t, mb_out)
    BY <1>5, <2>1 DEF Respond, IsWrite
  <2> QED BY <1>1, <1>5, <2>1, <2>2, <2>4, <2>5, UploadedOutcome
<1> QED BY <1>2, <1>3, <1>4, <1>5 DEF IsWrite

LEMMA FetchOutcome ==
  ASSUME NEW t \in Tasks, DataInv, Fetch(t)
  PROVE  Returns(t) \/ Continues(t) \/ Waits(t) \/ Panic(t)
<1>1. CASE Fail(t)
  BY <1>1, FailReturns
<1>2. CASE op[t].kind = "sdo_info" /\ FetchInfo(t, mb_out)
  <2>1. ASSUME NEW v, Return(t, TRUE, v)
        PROVE  Returns(t)
    BY <1>2, <2>1 DEF Returns, GoodValue, IsWrite
  <2>2. ASSUME NEW s \in Nat, NEW b, AwaitNext(t, s, b)
        PROVE  Waits(t)
    BY <1>2, <2>2 DEF Waits
  <2>3. step[t] \in Nat
    BY DEF DataInv, TypeOK
  <2> QED BY <1>1, <1>2, <2>1, <2>2, <2>3 DEF FetchInfo
<1>3. CASE op[t].kind # "sdo_info" /\ mb_out # Empty /\ FetchSdo(t, mb_out)
  <2>1. GoodResponse(mb_out)
    BY <1>3 DEF DataInv, MessagesInv
  <2>2. \/ Panic(t) \/ Fail(t)
        \/ /\ IsAccepted /\ ValidateResponse(req[t], mb_out)
           /\ Respond(t, mb_out)
    BY <1>3, <2>1 DEF FetchSdo, GoodResponse, IsAccepted
  <2>3. pc[t] = "fetch"
    BY DEF Fetch
  <2> QED BY <1>1, <1>3, <2>2, <2>3, RespondOutcome
<1> QED BY <1>1, <1>2, <1>3 DEF Fetch

-----------------------------------------------------------------------------
\* DataInv is inductive.  What a task does leaves the SubDevice with the
\* messages it had, but for OUT emptied and a request of the task in IN.

LaterSeq == taken' \in {taken, taken + 1}

LEMMA GoodRequestLater ==
  ASSUME NEW m, taken \in Nat, LaterSeq, GoodRequest(m)
  PROVE  /\ IsRequest(m)
         /\ m.cmd \in {"Download", "Upload", "UploadSegment", "Info"}
         /\ m.seq \in 1..taken' /\ m.value \in Nat
         /\ m.cmd # "Info" => m.obj \in Objects
         /\ m.cmd = "Download" /\ m.obj = Length0 => m.value <= ArrayLen
BY DEF GoodRequest, LaterSeq

LEMMA GoodResponseLater ==
  ASSUME NEW m, taken \in Nat, LaterSeq, GoodResponse(m)
  PROVE  /\ m.cmd \in {"Download", "Upload", "UploadSegment", "Reserved", "Info",
                       "InfoError", "Abort", "Emergency"}
         /\ m.seq \in 0..taken'
         /\ m.cmd = "UploadSegment" => m.obj = NoObject
         /\ m.cmd = "Download" => m.bits1 = 0 /\ m.length = 10 /\ m.data = << 0 >>
         /\ m.cmd = "Upload" => GoodUpload(m)
BY DEF GoodResponse, LaterSeq

TaskLeaves(t) ==
  /\ od' = od /\ pending' = pending /\ mb_out' \in {mb_out, Empty}
  /\ mb_in' = mb_in \/ (Exchanging(t) /\ mb_in' = req[t])

LEMMA MessagesKept ==
  ASSUME NEW t \in Tasks, TypeOK, MessagesInv, CallInv(t), TaskLeaves(t), LaterSeq
  PROVE  MessagesInv'
<1>1. taken \in Nat
  BY DEF TypeOK
<1>2. mb_in' = Empty \/ GoodRequest(mb_in)'
  <2>1. CASE mb_in' = mb_in
    BY <1>1, <2>1, GoodRequestLater DEF MessagesInv, GoodRequest
  <2>2. CASE Exchanging(t) /\ mb_in' = req[t]
    <3>1. /\ GoodCall(op[t], step[t], req[t].cmd, buf[t])
          /\ req[t].obj = Target(op[t], step[t])
          /\ req[t].value = Written(op[t], step[t])
          /\ req[t].seq \in 1..taken /\ IsRequest(req[t])
      BY <2>2 DEF CallInv
    <3>2. req[t].cmd \in {"Download", "Upload", "UploadSegment", "Info"}
      BY <3>1 DEF GoodCall, Command
    <3>3. req[t].value \in Nat
      BY <3>1, Sizes DEF Written, GoodCall, CallRecord
    <3>4. req[t].cmd # "Info" => req[t].obj \in Objects
      BY <3>1, TargetObject
    <3>5. ASSUME req[t].cmd = "Download", req[t].obj = Length0
          PROVE  req[t].value <= ArrayLen
      <4>1. op[t].kind \in {"sdo_write", "sdo_write_array"}
        BY <3>1, <3>5 DEF GoodCall, Command
      <4>2. op[t].kind # "sdo_write"
        <5>1. ASSUME op[t].kind = "sdo_write" PROVE op[t].obj \in {Single, Normal, Long}
          BY <3>1, <5>1, CallFacts DEF GoodCall
        <5> QED BY <3>1, <3>5, <5>1, ObjectFacts DEF Target
      <4>3. op[t].kind = "sdo_write_array"
        BY <4>1, <4>2
      <4>4. step[t] \in Nat /\ (step[t] = 0 \/ step[t] > ArrayLen)
        BY <3>1, <3>5, <4>3, Sizes DEF Target, Length0, GoodCall
      <4> QED BY <3>1, <4>3, <4>4, Sizes DEF Written
    <3> QED BY <1>1, <2>2, <3>1, <3>2, <3>3, <3>4, <3>5 DEF GoodRequest, LaterSeq
  <2> QED BY <2>1, <2>2 DEF TaskLeaves
<1>3. mb_out' = Empty \/ GoodResponse(mb_out)'
  <2>1. CASE mb_out' = mb_out
    BY <1>1, <2>1, GoodResponseLater DEF MessagesInv, GoodResponse
  <2> QED BY <2>1 DEF TaskLeaves
<1>4. IsSeq(pending') /\ \A k \in 1..Len(pending') : GoodResponse(pending[k])'
  <2> SUFFICES ASSUME NEW k \in 1..Len(pending)
               PROVE  IsSeq(pending) /\ GoodResponse(pending[k])'
    BY DEF TaskLeaves, MessagesInv
  <2>1. GoodResponse(pending[k]) /\ IsSeq(pending) /\ pending' = pending
    BY DEF MessagesInv, TaskLeaves
  <2> QED BY <1>1, <2>1, GoodResponseLater DEF GoodResponse
<1> QED BY <1>2, <1>3, <1>4 DEF MessagesInv, TaskLeaves

\* A task that does not move keeps its call.
LEMMA CallKept ==
  ASSUME NEW u \in Tasks, TypeOK, CallInv(u), LaterSeq,
         pc'[u] = pc[u], op'[u] = op[u], step'[u] = step[u],
         req'[u] = req[u], buf'[u] = buf[u]
  PROVE  CallInv(u)'
<1>1. CASE Exchanging(u)
  <2>1. /\ GoodCall(op[u], step[u], req[u].cmd, buf[u])
        /\ req[u].obj = Target(op[u], step[u])
        /\ req[u].value = Written(op[u], step[u]) /\ req[u].seq \in 1..taken'
        /\ IsRequest(req[u])
    BY <1>1 DEF CallInv, LaterSeq, TypeOK
  <2> QED BY <2>1, Zenon DEF CallInv
<1>2. CASE ~Exchanging(u)
  BY <1>2, Zenon DEF CallInv, Exchanging
<1> QED BY <1>1, <1>2

LEMMA ExchangeKeeps ==
  ASSUME NEW t \in Tasks, DataInv, TaskLeaves(t),
         NEW o, NEW s, NEW cmd, NEW tog \in BOOLEAN, NEW b,
         GoodCall(o, s, cmd, b), Exchange(t, o, s, cmd, tog, b)
  PROVE  DataInv'
<1> USE Sizes
<1>1. TypeOK /\ FunctionsInv /\ MessagesInv /\ CallInv(t) /\ LaterSeq
  BY DEF DataInv, LaterSeq, Exchange
<1>2. /\ pc'[t] = "clear" /\ op'[t] = o /\ step'[t] = s /\ buf'[t] = b
      /\ req'[t] = Request(cmd, Target(o, s), Written(o, s), tog)
      /\ \A u \in Tasks \ {t} : /\ pc'[u] = pc[u] /\ op'[u] = op[u]
                                /\ step'[u] = step[u] /\ req'[u] = req[u]
                                /\ buf'[u] = buf[u]
  BY <1>1 DEF Exchange, TypeOK, FunctionsInv
<1>3. MessagesInv'
  BY <1>1, MessagesKept
<1>4. CallInv(t)'
  <2>1. /\ req'[t].cmd = cmd /\ req'[t].obj = Target(o, s)
        /\ req'[t].value = Written(o, s) /\ req'[t].seq = taken + 1
    BY <1>2 DEF Request
  <2>2. req'[t].seq \in 1..taken'
    BY <1>1, <2>1 DEF TypeOK, Exchange
  <2>3. IsRequest(req'[t])
    BY <1>2 DEF IsRequest, Request
  <2> QED BY <1>2, <2>1, <2>2, <2>3, Zenon DEF CallInv
<1>5. ASSUME NEW u \in Tasks \ {t} PROVE CallInv(u)'
  BY <1>1, <1>2, CallKept DEF DataInv
<1>6. FunctionsInv'
  <2>1. op' \in [Tasks -> CallRecord]
    BY <1>1 DEF Exchange, FunctionsInv, GoodCall
  <2>2. req' = [u \in Tasks |-> req'[u]] /\ buf' = [u \in Tasks |-> buf'[u]]
    BY <1>1 DEF Exchange, FunctionsInv
  <2> QED BY <2>1, <2>2 DEF FunctionsInv
<1>7. TypeOK'
  <2>1. mailbox_counter' \in 1..CounterMax /\ taken' \in Nat /\ od' \in [Objects -> Nat]
    BY <1>1, SMTT(40) DEF TypeOK, Exchange, NextCounter, TaskLeaves
  <2>2. /\ pc' \in [Tasks -> {"idle", "clear", "clearing", "ready", "write",
                               "wait", "fetch", "panicked"}]
        /\ tries' \in [Tasks -> Nat] /\ step' \in [Tasks -> Nat]
        /\ toggle' \in [Tasks -> BOOLEAN]
    BY <1>1 DEF TypeOK, Exchange, GoodCall
  <2>3. Alone(t) \in BOOLEAN /\ \A u \in Tasks : Exchanging(u) \in BOOLEAN
    BY DEF Alone, Exchanging
  <2>4. quiet' \in [Tasks -> BOOLEAN] /\ serial' \in BOOLEAN
    BY <1>1, <2>3 DEF TypeOK, Exchange
  <2>5. ASSUME NEW u \in Tasks PROVE req'[u].seq \in 0..taken'
    <3>1. CASE u = t
      BY <1>1, <1>2, <3>1 DEF Request, TypeOK, Exchange
    <3>2. CASE u # t
      <4>1. req[u].seq \in 0..taken /\ taken \in Nat
        BY <1>1 DEF TypeOK
      <4> QED BY <1>1, <1>2, <3>2, <4>1 DEF LaterSeq
    <3> QED BY <3>1, <3>2
  <2> QED BY <2>1, <2>2, <2>4, <2>5 DEF TypeOK
<1> QED BY <1>3, <1>4, <1>5, <1>6, <1>7 DEF DataInv

\* A call that ends, returning or by a panic.
Ends(t) ==
  /\ pc' = [pc EXCEPT ![t] = "idle"] \/ pc' = [pc EXCEPT ![t] = "panicked"]
  /\ DropLocals(t) /\ UNCHANGED <<mailbox_counter, taken, serial>>

LEMMA EndKeeps ==
  ASSUME NEW t \in Tasks, DataInv, TaskLeaves(t), Ends(t)
  PROVE  DataInv'
<1> USE Sizes
<1>1. TypeOK /\ FunctionsInv /\ MessagesInv /\ CallInv(t) /\ LaterSeq
  BY DEF DataInv, LaterSeq, Ends
<1>2. /\ pc'[t] \in {"idle", "panicked"} /\ req'[t] = NoRequest
      /\ \A u \in Tasks \ {t} : /\ pc'[u] = pc[u] /\ op'[u] = op[u]
                                /\ step'[u] = step[u] /\ req'[u] = req[u]
                                /\ buf'[u] = buf[u]
  BY <1>1 DEF Ends, DropLocals, TypeOK, FunctionsInv
<1>3. MessagesInv'
  BY <1>1, MessagesKept
<1>4. CallInv(t)'
  BY <1>2 DEF CallInv, Exchanging
<1>5. ASSUME NEW u \in Tasks \ {t} PROVE CallInv(u)'
  BY <1>1, <1>2, CallKept DEF DataInv
<1>6. FunctionsInv'
  <2>1. NoCall \in CallRecord
    BY DEF NoCall, CallRecord, Kinds
  <2>2. op' \in [Tasks -> CallRecord]
    BY <1>1, <2>1 DEF Ends, DropLocals, FunctionsInv
  <2>3. req' = [u \in Tasks |-> req'[u]] /\ buf' = [u \in Tasks |-> buf'[u]]
    BY <1>1 DEF Ends, DropLocals, FunctionsInv
  <2> QED BY <2>2, <2>3 DEF FunctionsInv
<1>7. TypeOK'
  <2>1. mailbox_counter' \in 1..CounterMax /\ taken' \in Nat /\ od' \in [Objects -> Nat]
        /\ serial' \in BOOLEAN
    BY <1>1 DEF TypeOK, Ends, TaskLeaves
  <2>2. pc' \in [Tasks -> {"idle", "clear", "clearing", "ready", "write",
                             "wait", "fetch", "panicked"}]
    BY <1>1 DEF TypeOK, Ends
  <2>4. tries' \in [Tasks -> Nat] /\ step' \in [Tasks -> Nat]
    BY <1>1 DEF TypeOK, DropLocals, Ends
  <2>3. toggle' \in [Tasks -> BOOLEAN] /\ quiet' \in [Tasks -> BOOLEAN]
    BY <1>1 DEF TypeOK, Ends, DropLocals
  <2>5. ASSUME NEW u \in Tasks PROVE req'[u].seq \in 0..taken'
    <3>1. CASE u = t
      BY <1>1, <1>2, <3>1 DEF NoRequest, TypeOK, Ends
    <3>2. CASE u # t
      <4>1. req[u].seq \in 0..taken /\ taken \in Nat
        BY <1>1 DEF TypeOK
      <4> QED BY <1>1, <1>2, <3>2, <4>1 DEF LaterSeq
    <3> QED BY <3>1, <3>2
  <2> QED BY <2>1, <2>2, <2>3, <2>4, <2>5 DEF TypeOK
<1> QED BY <1>3, <1>4, <1>5, <1>6, <1>7 DEF DataInv

\* A step within an exchange.
Moves(t, p) ==
  /\ Exchanging(t) /\ pc' = [pc EXCEPT ![t] = p]
  /\ p \in {"clear", "clearing", "ready", "write", "wait", "fetch"}
  /\ UNCHANGED <<op, req, toggle, mailbox_counter, taken, quiet, serial>>
  /\ tries' \in [Tasks -> Nat]

LEMMA MoveKeeps ==
  ASSUME NEW t \in Tasks, DataInv, TaskLeaves(t), NEW p, Moves(t, p),
         \/ UNCHANGED <<step, buf>>
         \/ op[t].kind = "sdo_info" /\ \E s, b :
              /\ s \in Nat /\ step' = [step EXCEPT ![t] = s]
              /\ buf' = [buf EXCEPT ![t] = b]
  PROVE  DataInv'
<1> USE Sizes
<1>1. TypeOK /\ FunctionsInv /\ MessagesInv /\ CallInv(t) /\ LaterSeq
  BY DEF DataInv, LaterSeq, Moves
<1>2. /\ \A u \in Tasks \ {t} : pc'[u] = pc[u] /\ step'[u] = step[u] /\ buf'[u] = buf[u]
      /\ \A u \in Tasks : op'[u] = op[u] /\ req'[u] = req[u]
  BY <1>1 DEF Moves, TypeOK, FunctionsInv
<1>3. MessagesInv'
  BY <1>1, MessagesKept
<1>4. CallInv(t)'
  <2>1. /\ GoodCall(op[t], step[t], req[t].cmd, buf[t])
        /\ req[t].obj = Target(op[t], step[t])
        /\ req[t].value = Written(op[t], step[t]) /\ req[t].seq \in 1..taken
        /\ IsRequest(req[t])
    BY <1>1 DEF CallInv, Moves
  <2>2. CASE UNCHANGED <<step, buf>>
    BY <2>1, <2>2, Zenon DEF CallInv, Moves
  <2>3. CASE op[t].kind = "sdo_info" /\ \E s, b :
              /\ s \in Nat /\ step' = [step EXCEPT ![t] = s]
              /\ buf' = [buf EXCEPT ![t] = b]
    <3>1. PICK s, b : /\ s \in Nat /\ step' = [step EXCEPT ![t] = s]
                      /\ buf' = [buf EXCEPT ![t] = b]
      BY <2>3
    <3>2. step'[t] = s /\ buf'[t] = b
      BY <1>1, <3>1 DEF TypeOK, FunctionsInv
    <3>3. GoodCall(op[t], s, req[t].cmd, b)
      BY <2>1, <2>3, <3>1 DEF GoodCall
    <3>4. /\ Target(op[t], s) = Target(op[t], step[t])
          /\ Written(op[t], s) = Written(op[t], step[t])
      BY <2>3 DEF Target, Written
    <3> QED BY <2>1, <3>2, <3>3, <3>4, Zenon DEF CallInv, Moves
  <2> QED BY <2>2, <2>3
<1>5. ASSUME NEW u \in Tasks \ {t} PROVE CallInv(u)'
  BY <1>1, <1>2, CallKept DEF DataInv
<1>6. FunctionsInv'
  BY <1>1 DEF Moves, FunctionsInv
<1>7. TypeOK'
  <2>1. /\ mailbox_counter' \in 1..CounterMax /\ taken' \in Nat
        /\ od' \in [Objects -> Nat] /\ serial' \in BOOLEAN
        /\ toggle' \in [Tasks -> BOOLEAN] /\ quiet' \in [Tasks -> BOOLEAN]
        /\ tries' \in [Tasks -> Nat]
        /\ \A u \in Tasks : req'[u].seq \in 0..taken'
    BY <1>1 DEF TypeOK, Moves, TaskLeaves
  <2>2. pc' \in [Tasks -> {"idle", "clear", "clearing", "ready", "write",
                             "wait", "fetch", "panicked"}]
    BY <1>1 DEF TypeOK, Moves
  <2>3. step' \in [Tasks -> Nat]
    BY <1>1 DEF TypeOK
  <2> QED BY <2>1, <2>2, <2>3 DEF TypeOK
<1> QED BY <1>3, <1>4, <1>5, <1>6, <1>7 DEF DataInv

\* What begins with a call: an exchange, or nothing but a counter taken.
Begins(t) ==
  \E o : /\ Exchange(t, o, 0, Command(o.kind), FALSE, <<>>)
         /\ GoodCall(o, 0, Command(o.kind), <<>>) /\ o.id = taken + 1

Declines(t) ==
  /\ mailbox_counter' = NextCounter(mailbox_counter) /\ taken' = taken + 1
  /\ \E kind, o : /\ <<kind, o>> \in AllCalls
                  /\ result' = [kind |-> kind, obj |-> o,
                                ok |-> kind = "sdo_info", value |-> <<>>]
  /\ UNCHANGED <<pc, callVars, tries, quiet, serial>>

LEMMA CallOutcome ==
  ASSUME NEW t \in Tasks, DataInv, Call(t)
  PROVE  /\ Begins(t) \/ Declines(t)
         /\ pc[t] = "idle" /\ TaskLeaves(t) /\ UNCHANGED <<devVars, lastReq>>
<1>1. pc[t] = "idle" /\ TaskLeaves(t) /\ UNCHANGED <<devVars, lastReq>>
  BY DEF Call, devVars, TaskLeaves
<1>2. PICK c \in Calls[t] :
        LET kind == c[1]
            o == c[2]
        IN IF has_mailbox /\ ~(kind = "sdo_write" /\ Length(o) > 4)
           THEN Exchange(t, [kind |-> kind, obj |-> o, id |-> taken + 1, len |-> 0],
                         0, Command(kind), FALSE, <<>>)
           ELSE /\ mailbox_counter' = NextCounter(mailbox_counter)
                /\ taken' = taken + 1
                /\ result' = [kind |-> kind, obj |-> o, ok |-> kind = "sdo_info",
                              value |-> <<>>]
                /\ UNCHANGED <<pc, callVars, tries, quiet, serial>>
  BY DEF Call
<1>3. c \in AllCalls /\ c = <<c[1], c[2]>>
  BY Sizes DEF AllCalls
<1> DEFINE call == [kind |-> c[1], obj |-> c[2], id |-> taken + 1, len |-> 0]
<1>4. CASE Exchange(t, call, 0, Command(c[1]), FALSE, <<>>)
  <2>1. /\ c[1] \in Kinds /\ c[2] \in Objects \cup {NoObject} /\ taken + 1 \in Nat
    BY <1>3, CallFacts, ObjectFacts DEF Kinds, DataInv, TypeOK
  <2>2. call \in CallRecord
    BY <2>1 DEF CallRecord
  <2>3. EntriesBefore(<<>>, 0)
    BY EmptyIsSeq DEF EntriesBefore
  <2>4. GoodCall(call, 0, Command(c[1]), <<>>)
    BY <1>3, <2>2, <2>3, Sizes DEF GoodCall
  <2>5. call.kind = c[1] /\ call.id = taken + 1
    OBVIOUS
  <2> HIDE DEF call
  <2>6. Begins(t)
    BY <1>4, <2>4, <2>5 DEF Begins
  <2> QED BY <1>1, <2>6
<1>5. CASE /\ mailbox_counter' = NextCounter(mailbox_counter)
           /\ taken' = taken + 1
           /\ result' = [kind |-> c[1], obj |-> c[2], ok |-> c[1] = "sdo_info",
                         value |-> <<>>]
           /\ UNCHANGED <<pc, callVars, tries, quiet, serial>>
  <2>1. Declines(t)
    BY <1>3, <1>5, Zenon DEF Declines
  <2> QED BY <1>1, <2>1
<1> QED BY <1>2, <1>4, <1>5

LEMMA DeclineKeeps ==
  ASSUME NEW t \in Tasks, DataInv, TaskLeaves(t), Declines(t)
  PROVE  DataInv'
<1>1. TypeOK /\ FunctionsInv /\ MessagesInv /\ CallInv(t) /\ LaterSeq
      /\ UNCHANGED <<pc, op, step, req, buf, toggle, tries, quiet, serial, od>>
  BY DEF DataInv, LaterSeq, Declines, callVars, TaskLeaves
<1>2. MessagesInv'
  BY <1>1, MessagesKept
<1>3. ASSUME NEW u \in Tasks PROVE CallInv(u)'
  BY <1>1, CallKept DEF DataInv
<1>4. FunctionsInv'
  BY <1>1 DEF FunctionsInv
<1>5. TypeOK'
  <2>1. mailbox_counter' \in 1..CounterMax /\ taken' \in Nat
    BY <1>1, Sizes DEF Declines, NextCounter, TypeOK
  <2>2. ASSUME NEW u \in Tasks PROVE req'[u].seq \in 0..taken'
    <3>1. req[u].seq \in 0..taken /\ taken \in Nat
      BY <1>1 DEF TypeOK
    <3> QED BY <1>1, <3>1 DEF LaterSeq
  <2> QED BY <1>1, <2>1, <2>2 DEF TypeOK
<1> QED BY <1>2, <1>3, <1>4, <1>5 DEF DataInv

\* The steps of a task that neither begin nor end an exchange.
LEMMA MoveSteps ==
  ASSUME NEW t \in Tasks, DataInv,
         \/ CheckOut(t) \/ ClearOut(t) \/ CheckIn(t) \/ AwaitOut(t)
         \/ WriteIn(t)
  PROVE  TaskLeaves(t) /\ UNCHANGED <<step, buf>> /\ \E p : Moves(t, p)
<1>1. tries \in [Tasks -> Nat]
  BY DEF DataInv, TypeOK
<1>2. CASE CheckOut(t)
  BY <1>1, <1>2 DEF CheckOut, Moves, TaskLeaves, Exchanging, devVars, callVars, histVars
<1>3. CASE ClearOut(t)
  <2> DEFINE p == IF tries[t] + 1 < ClearTries THEN "clear" ELSE "ready"
  <2>1. pc' = [pc EXCEPT ![t] = p] /\ p \in {"clear", "ready"}
    BY <1>3 DEF ClearOut
  <2> HIDE DEF p
  <2>2. tries' \in [Tasks -> Nat]
    BY <1>1, <1>3, Sizes DEF ClearOut
  <2> QED BY <1>3, <2>1, <2>2 DEF ClearOut, Moves, TaskLeaves, Exchanging, callVars, histVars
<1>4. CASE CheckIn(t)
  BY <1>1, <1>4 DEF CheckIn, Moves, TaskLeaves, Exchanging, devVars, callVars, histVars
<1>5. CASE AwaitOut(t)
  BY <1>1, <1>5 DEF AwaitOut, Moves, TaskLeaves, Exchanging, devVars, callVars, histVars
<1>6. CASE WriteIn(t)
  BY <1>1, <1>6 DEF WriteIn, Moves, TaskLeaves, Exchanging, callVars, histVars
<1> QED BY <1>2, <1>3, <1>4, <1>5, <1>6

\* The steps that end a call with an error.
LEMMA FailSteps ==
  ASSUME NEW t \in Tasks,
         TimesOut(t) \/ BusFails(t)
  PROVE  TaskLeaves(t) /\ Exchanging(t) /\ Fail(t)
<1>1. CASE TimesOut(t)
  BY <1>1 DEF TimesOut, TaskLeaves, Exchanging, devVars
<1>2. CASE BusFails(t)
  BY <1>2 DEF BusFails, TaskLeaves, Exchanging
<1> QED BY <1>1, <1>2

LEMMA ReturnEnds ==
  ASSUME NEW t, NEW ok, NEW v, Return(t, ok, v)
  PROVE  Ends(t)
BY DEF Return, Ends

LEMMA TaskData ==
  ASSUME NEW t \in Tasks, DataInv, TaskStep(t)
  PROVE  DataInv'
<1>1. CASE Call(t)
  <2>1. CASE Begins(t)
    <3>1. PICK o : /\ Exchange(t, o, 0, Command(o.kind), FALSE, <<>>)
                   /\ GoodCall(o, 0, Command(o.kind), <<>>)
      BY <2>1 DEF Begins
    <3> QED BY <1>1, <3>1, CallOutcome, ExchangeKeeps
  <2> QED BY <1>1, <2>1, CallOutcome, DeclineKeeps
<1>2. CASE \/ CheckOut(t) \/ ClearOut(t) \/ CheckIn(t) \/ AwaitOut(t)
           \/ WriteIn(t)
  <2>1. TaskLeaves(t) /\ UNCHANGED <<step, buf>> /\ \E p : Moves(t, p)
    BY <1>2, MoveSteps
  <2>2. PICK p : Moves(t, p)
    BY <2>1
  <2> QED BY <2>1, <2>2, MoveKeeps
<1>3. CASE TimesOut(t) \/ BusFails(t)
  BY <1>3, FailSteps, ReturnEnds, EndKeeps DEF Fail
<1>4. CASE Fetch(t)
  <2>1. TaskLeaves(t) /\ Exchanging(t)
    BY <1>4 DEF Fetch, TaskLeaves, Exchanging
  <2>2. CASE Returns(t)
    BY <2>1, <2>2, ReturnEnds, EndKeeps DEF Returns
  <2>3. CASE Panic(t)
    BY <2>1, <2>3, EndKeeps DEF Panic, Ends
  <2>4. CASE Continues(t)
    <3>1. PICK o, s, cmd, tog, b :
                /\ Exchange(t, o, s, cmd, tog, b)
                /\ GoodCall(o, s, cmd, b) /\ tog \in BOOLEAN
      BY <2>4 DEF Continues
    <3> QED BY <2>1, <3>1, ExchangeKeeps
  <2>5. CASE Waits(t)
    <3>1. PICK s, b : s \in Nat /\ AwaitNext(t, s, b)
      BY <2>5 DEF Waits
    <3>2. Moves(t, "wait")
      BY <2>1, <3>1 DEF AwaitNext, Moves, DataInv, TypeOK
    <3>3. step' = [step EXCEPT ![t] = s] /\ buf' = [buf EXCEPT ![t] = b]
      BY <3>1 DEF AwaitNext
    <3>4. op[t].kind = "sdo_info"
      BY <2>5 DEF Waits
    <3> QED BY <2>1, <3>1, <3>2, <3>3, <3>4, MoveKeeps
  <2> QED BY <1>4, <2>2, <2>3, <2>4, <2>5, FetchOutcome
<1> QED BY <1>1, <1>2, <1>3, <1>4 DEF TaskStep

\* What the SubDevice does.

LEMMA AppendGood ==
  ASSUME IsSeq(pending), \A k \in 1..Len(pending) : GoodResponse(pending[k]),
         NEW m, GoodResponse(m), pending' = Append(pending, m), taken' = taken
  PROVE  IsSeq(pending') /\ \A k \in 1..Len(pending') : GoodResponse(pending[k])'
<1>1. /\ IsSeq(pending') /\ Len(pending') = Len(pending) + 1
      /\ \A k \in 1..Len(pending) : pending'[k] = pending[k]
      /\ pending'[Len(pending) + 1] = m
  BY AppendSeq
<1>2. ASSUME NEW k \in 1..Len(pending') PROVE GoodResponse(pending'[k])
  <2>1. CASE k \in 1..Len(pending)
    BY <1>1, <2>1
  <2>2. CASE k = Len(pending) + 1
    BY <1>1, <2>2
  <2> QED BY <1>1, <2>1, <2>2 DEF IsSeq
<1>3. ASSUME NEW k \in 1..Len(pending') PROVE GoodResponse(pending[k])'
  BY <1>2 DEF GoodResponse
<1> QED BY <1>1, <1>3

LEMMA DownloadGood ==
  ASSUME NEW r, taken \in Nat, GoodRequest(r)
  PROVE  GoodResponse(DownloadResponse(r))
BY DEF GoodRequest, GoodResponse, DownloadResponse, Response

LEMMA AbortGood ==
  ASSUME NEW r, taken \in Nat, GoodRequest(r)
  PROVE  GoodResponse(Abort(r))
BY DEF GoodRequest, GoodResponse, Abort, Response

LEMMA UploadGood ==
  ASSUME NEW r, taken \in Nat, GoodRequest(r), r.cmd = "Upload",
         od \in [Objects -> Nat], od[Length0] <= ArrayLen
  PROVE  GoodResponse(UploadResponse(r))
<1> DEFINE m == UploadResponse(r)
<1>1. r.obj \in Objects /\ r.seq \in 1..taken /\ od[r.obj] \in Nat
  BY DEF GoodRequest
<1>2. CASE r.obj \in Entries \cup {Single}
  <2>1. m = Response("Upload", r, TRUE, 1 + 2 * 3, 10, Bytes(r.obj, od[r.obj], 1, 1))
    BY <1>2, ObjectFacts DEF UploadResponse
  <2> HIDE DEF m
  <2>2. /\ m.cmd = "Upload" /\ m.obj = r.obj /\ m.bits1 = 7 /\ m.seq = r.seq
        /\ m.data = Bytes(r.obj, od[r.obj], 1, 1)
    BY <2>1 DEF Response
  <2>3. GoodUpload(m)
    BY <1>1, <1>2, <2>2 DEF GoodUpload
  <2> QED BY <1>1, <2>2, <2>3 DEF GoodResponse, m
<1>3. CASE r.obj = Normal
  <2>1. m = Response("Upload", r, TRUE, 0, 10 + ValueLen,
                     <<ValueLen>> \o Bytes(Normal, od[Normal], 1, ValueLen))
    BY <1>3, ObjectFacts, Sizes DEF UploadResponse
  <2> HIDE DEF m
  <2>2. /\ m.cmd = "Upload" /\ m.obj = Normal /\ m.bits1 = 0 /\ m.seq = r.seq
        /\ m.length = 10 + ValueLen
        /\ m.data = <<ValueLen>> \o Bytes(Normal, od[Normal], 1, ValueLen)
    BY <1>3, <2>1 DEF Response
  <2>3. GoodUpload(m)
    BY <1>1, <1>3, <2>2, Zenon DEF GoodUpload
  <2> QED BY <1>1, <2>2, <2>3 DEF GoodResponse, m
<1>4. CASE r.obj = Long
  <2>1. m = Response("Upload", r, TRUE, 0, 10, <<ValueLen>>)
    <3>1. Length(r.obj) # 1 /\ r.obj # Normal
      BY <1>4, ObjectFacts, Sizes
    <3> QED BY <3>1, Zenon DEF UploadResponse
  <2> HIDE DEF m
  <2>2. /\ m.cmd = "Upload" /\ m.obj = Long /\ m.bits1 = 0 /\ m.seq = r.seq
        /\ m.length = 10 /\ m.data = <<ValueLen>>
    BY <1>4, <2>1 DEF Response
  <2>3. GoodUpload(m)
    BY <2>2 DEF GoodUpload
  <2> QED BY <1>1, <2>2, <2>3 DEF GoodResponse, m
<1> QED BY <1>1, <1>2, <1>3, <1>4 DEF Objects

\* The responses without an object in their headers.
LEMMA OtherGood ==
  ASSUME NEW r, taken \in Nat, GoodRequest(r)
  PROVE  /\ \A cmd \in {"UploadSegment", "Reserved"} :
              GoodResponse(SegmentResponse(r, cmd))
         /\ \A k \in 1..Len(InfoParts) : GoodResponse(InfoResponse(r, k))
         /\ GoodResponse(InfoError(r))
<1> DEFINE q == [r EXCEPT !.obj = NoObject]
<1>1. q.obj = NoObject /\ q.seq \in 1..taken
  BY DEF GoodRequest, IsRequest
<1> HIDE DEF q
<1>2. ASSUME NEW cmd \in {"UploadSegment", "Reserved", "Info", "InfoError"},
             NEW b0, NEW b1, NEW length, NEW data
      PROVE  GoodResponse(Response(cmd, q, b0, b1, length, data))
  BY <1>1 DEF GoodResponse, Response
<1>3. ASSUME NEW cmd \in {"UploadSegment", "Reserved"}
      PROVE  GoodResponse(SegmentResponse(r, cmd))
  BY <1>2 DEF SegmentResponse, q
<1>4. ASSUME NEW k \in 1..Len(InfoParts)
      PROVE  GoodResponse(InfoResponse(r, k))
  BY <1>2 DEF InfoResponse, q
<1>5. GoodResponse(InfoError(r))
  BY <1>2 DEF InfoError, q
<1> QED BY <1>3, <1>4, <1>5

LEMMA DevTakeData ==
  ASSUME DataInv, DevTake
  PROVE  DataInv'
<1>1. /\ TypeOK /\ FunctionsInv /\ MessagesInv /\ GoodRequest(mb_in)
      /\ taken \in Nat /\ taken' = taken /\ mb_in' = Empty /\ mb_out' = mb_out
      /\ UNCHANGED <<mailbox_counter, pc, op, step, req, buf, toggle, tries,
                      quiet, serial>>
  BY DEF DataInv, MessagesInv, TypeOK, DevTake, callVars, histVars
<1>2. od' \in [Objects -> Nat] /\ od'[Length0] <= ArrayLen
  <2>1. CASE DevDownload
    <3>1. mb_in.obj \in Objects /\ mb_in.value \in Nat
          /\ (mb_in.obj = Length0 => mb_in.value <= ArrayLen)
      BY <1>1, <2>1 DEF GoodRequest, DevDownload
    <3>2. Length0 \in Objects
      BY ObjectFacts
    <3> QED BY <1>1, <2>1, <3>1, <3>2 DEF DevDownload, TypeOK, MessagesInv
  <2>2. CASE od' = od
    BY <1>1, <2>2 DEF TypeOK, MessagesInv
  <2> QED BY <2>1, <2>2 DEF DevTake, DevUpload, DevSegment, DevInfo, DevRefuse
<1>3. IsSeq(pending') /\ \A k \in 1..Len(pending') : GoodResponse(pending[k])'
  <2>1. ASSUME NEW m, GoodResponse(m), pending' = Append(pending, m)
        PROVE  IsSeq(pending') /\ \A k \in 1..Len(pending') : GoodResponse(pending[k])'
    BY <1>1, <2>1, AppendGood DEF MessagesInv
  <2>2. CASE DevDownload
    BY <1>1, <2>1, <2>2, DownloadGood DEF DevDownload
  <2>3. CASE DevUpload
    <3>1. GoodResponse(UploadResponse(mb_in))
      BY <1>1, <2>3, UploadGood DEF DevUpload, TypeOK, MessagesInv
    <3> QED BY <2>1, <2>3, <3>1 DEF DevUpload
  <2>4. CASE DevSegment
    BY <1>1, <2>1, <2>4, OtherGood, AbortGood DEF DevSegment
  <2>5. CASE DevInfo
    <3> DEFINE infos == [k \in 1..Len(InfoParts) |-> InfoResponse(mb_in, k)]
    <3>1. infos = [k \in 1..Len(InfoParts) |-> infos[k]]
      OBVIOUS
    <3>2. \A k \in 1..Len(InfoParts) : GoodResponse(infos[k])
      BY <1>1, OtherGood
    <3>3. pending' = pending \o infos
      BY <2>5 DEF DevInfo
    <3> HIDE DEF infos
    <3>4. IsSeq(infos) /\ Len(infos) = Len(InfoParts)
      BY <3>1, Sizes, FunctionSeq
    <3>5. IsSeq(pending) /\ Len(pending) \in Nat
          /\ \A k \in 1..Len(pending) : GoodResponse(pending[k])
      BY <1>1 DEF MessagesInv, IsSeq
    <3>6. /\ IsSeq(pending') /\ Len(pending') = Len(pending) + Len(InfoParts)
          /\ \A k \in 1..(Len(pending) + Len(InfoParts)) : pending'[k] =
               IF k <= Len(pending) THEN pending[k] ELSE infos[k - Len(pending)]
      BY <3>3, <3>4, <3>5, ConcatSeq
    <3>7. ASSUME NEW k \in 1..Len(pending') PROVE GoodResponse(pending'[k])
      <4>1. CASE k <= Len(pending)
        <5>1. k \in 1..Len(pending) /\ pending'[k] = pending[k]
          BY <3>5, <3>6, <4>1
        <5> QED BY <3>5, <5>1
      <4>2. CASE ~(k <= Len(pending))
        <5>1. k - Len(pending) \in 1..Len(InfoParts)
              /\ pending'[k] = infos[k - Len(pending)]
          BY <3>5, <3>6, <4>2, Sizes
        <5> QED BY <3>2, <5>1
      <4> QED BY <4>1, <4>2
    <3>8. ASSUME NEW k \in 1..Len(pending') PROVE GoodResponse(pending[k])'
      BY <1>1, <3>7 DEF GoodResponse
    <3> QED BY <3>6, <3>8
  <2>6. CASE DevRefuse
    BY <1>1, <2>1, <2>6, OtherGood, AbortGood DEF DevRefuse
  <2> QED BY <2>2, <2>3, <2>4, <2>5, <2>6 DEF DevTake
<1>4. MessagesInv'
  BY <1>1, <1>2, <1>3 DEF MessagesInv, GoodResponse
<1>5. TypeOK' /\ FunctionsInv'
  BY <1>1, <1>2 DEF TypeOK, FunctionsInv
<1>6. ASSUME NEW u \in Tasks PROVE CallInv(u)'
  BY <1>1, CallKept DEF DataInv, LaterSeq
<1> QED BY <1>4, <1>5, <1>6 DEF DataInv

LEMMA DevAnswerData ==
  ASSUME DataInv, DevAnswer \/ DevEmergency
  PROVE  DataInv'
<1>1. /\ TypeOK /\ FunctionsInv /\ MessagesInv
      /\ taken \in Nat /\ taken' = taken /\ mb_in' = mb_in /\ od' = od
      /\ UNCHANGED <<mailbox_counter, pc, op, step, req, buf, toggle, tries,
                      quiet, serial>>
  BY DEF DataInv, TypeOK, DevAnswer, DevEmergency, callVars, histVars
<1>2. /\ GoodResponse(mb_out') /\ IsSeq(pending')
      /\ \A k \in 1..Len(pending') : GoodResponse(pending'[k])
  <2>1. IsSeq(pending) /\ \A k \in 1..Len(pending) : GoodResponse(pending[k])
    BY <1>1 DEF MessagesInv
  <2>2. CASE DevAnswer
    <3>1. /\ IsSeq(pending') /\ Len(pending) \in Nat \ {0}
          /\ Len(pending') = Len(pending) - 1
          /\ \A k \in 1..(Len(pending) - 1) : pending'[k] = pending[k + 1]
          /\ mb_out' = pending[1]
      BY <2>1, <2>2, TailSeq DEF DevAnswer
    <3>2. ASSUME NEW k \in 1..Len(pending') PROVE GoodResponse(pending'[k])
      <4>1. k + 1 \in 1..Len(pending) /\ pending'[k] = pending[k + 1]
        BY <3>1
      <4> QED BY <2>1, <4>1
    <3>3. 1 \in 1..Len(pending)
      BY <3>1
    <3> QED BY <2>1, <3>1, <3>2, <3>3
  <2>3. CASE DevEmergency
    <3>1. GoodResponse(Emergency)
      BY <1>1 DEF GoodResponse, Emergency
    <3> QED BY <2>1, <2>3, <3>1 DEF DevEmergency
  <2> QED BY <2>2, <2>3
<1>3. /\ GoodResponse(mb_out)'
      /\ \A k \in 1..Len(pending') : GoodResponse(pending[k])'
  BY <1>1, <1>2 DEF GoodResponse
<1>4. MessagesInv'
  BY <1>1, <1>2, <1>3 DEF MessagesInv, GoodRequest
<1>5. TypeOK' /\ FunctionsInv'
  BY <1>1 DEF TypeOK, FunctionsInv
<1>6. ASSUME NEW u \in Tasks PROVE CallInv(u)'
  BY <1>1, CallKept DEF DataInv, LaterSeq
<1> QED BY <1>4, <1>5, <1>6 DEF DataInv

LEMMA DataInit == Init => DataInv
<1> SUFFICES ASSUME Init PROVE DataInv
  OBVIOUS
<1> USE Sizes
<1>1. TypeOK
  BY DEF Init, TypeOK, NoRequest
<1>2. NoCall \in CallRecord
  BY DEF NoCall, CallRecord, Kinds
<1>3. FunctionsInv
  BY <1>2 DEF Init, FunctionsInv
<1>4. Length0 \in Objects
  BY ObjectFacts
<1>5. od[Length0] <= ArrayLen
  BY <1>4 DEF Init, Length0
<1>6. MessagesInv
  BY <1>5, EmptyIsSeq DEF Init, MessagesInv
<1>7. ASSUME NEW t \in Tasks PROVE CallInv(t)
  BY DEF Init, CallInv, Exchanging
<1> QED BY <1>1, <1>3, <1>6, <1>7 DEF DataInv

LEMMA DataStutter ==
  ASSUME DataInv, UNCHANGED vars
  PROVE  DataInv'
<1>1. /\ UNCHANGED <<mb_in, mb_out, pending, od, mailbox_counter, pc, op, step,
                     req, buf, toggle, tries, taken, quiet, serial>>
      /\ TypeOK /\ FunctionsInv /\ MessagesInv
  BY DEF vars, devVars, callVars, histVars, DataInv
<1>2. TypeOK' /\ FunctionsInv'
  BY <1>1 DEF TypeOK, FunctionsInv
<1>3. MessagesInv'
  BY <1>1 DEF MessagesInv, GoodRequest, GoodResponse
<1>4. ASSUME NEW u \in Tasks PROVE CallInv(u)'
  BY <1>1, CallKept DEF DataInv, LaterSeq
<1> QED BY <1>2, <1>3, <1>4 DEF DataInv

LEMMA DataStep == DataInv /\ [Next]_vars => DataInv'
BY TaskData, DevTakeData, DevAnswerData, DataStutter DEF Next

\* The types of the variables, what the messages of the two mailboxes carry
\* and where every call in an exchange has come to.
THEOREM DataInvariant == Spec => []DataInv
BY DataInit, DataStep, PTL DEF Spec

\* AnswersObject: whatever is in the mailboxes, of another task or late after
\* a timeout, a read that is not segmented returns bytes of the object it was
\* asked for.
THEOREM ReadsAnswerObject == Spec => []AnswersObject
<1>1. Init => AnswersObject
  BY DEF Init, AnswersObject, NoResult
<1>2. ASSUME DataInv, AnswersObject, [Next]_vars
      PROVE  AnswersObject'
  <2>1. CASE result' = result
    BY <1>2, <2>1 DEF AnswersObject
  <2>2. ASSUME NEW t \in Tasks, Returns(t) PROVE AnswersObject'
    <3>1. PICK ok, v : /\ ok \in BOOLEAN /\ Return(t, ok, v)
                       /\ ok => GoodValue(op[t].kind, op[t].obj, v)
      BY <2>2 DEF Returns
    <3>2. /\ result'.ok = ok /\ result'.kind = op[t].kind
          /\ result'.obj = op[t].obj /\ result'.value = v
      BY <3>1 DEF Return
    <3> QED BY <3>1, <3>2, Zenon DEF AnswersObject, GoodValue
  <2>3. ASSUME NEW t \in Tasks, Call(t) PROVE AnswersObject'
    <3>1. CASE Begins(t)
      BY <2>1, <3>1 DEF Begins, Exchange
    <3>2. CASE Declines(t)
      <4>1. PICK kind, o : result' = [kind |-> kind, obj |-> o,
                                      ok |-> kind = "sdo_info", value |-> <<>>]
        BY <3>2 DEF Declines
      <4>2. result'.value = <<>> /\ \A k \in 1..Len(<<>>) : FALSE
        BY <4>1, EmptyIsSeq
      <4> QED BY <4>2, Zenon DEF AnswersObject
    <3> QED BY <1>2, <2>3, <3>1, <3>2, CallOutcome
  <2>4. ASSUME NEW t \in Tasks, Fetch(t) PROVE AnswersObject'
    <3>1. CASE Continues(t) \/ Waits(t) \/ Panic(t)
      BY <2>1, <3>1 DEF Continues, Exchange, Waits, AwaitNext, Panic
    <3> QED BY <1>2, <2>2, <2>4, <3>1, FetchOutcome
  <2>5. ASSUME NEW t \in Tasks,
               TimesOut(t) \/ BusFails(t)
        PROVE  AnswersObject'
    BY <2>2, <2>5, FailSteps, FailReturns
  <2>6. ASSUME NEW t \in Tasks,
               \/ CheckOut(t) \/ ClearOut(t) \/ CheckIn(t) \/ AwaitOut(t)
               \/ WriteIn(t)
        PROVE  AnswersObject'
    BY <2>1, <2>6 DEF CheckOut, ClearOut, CheckIn, AwaitOut, WriteIn
  <2>7. CASE DevTake \/ DevAnswer \/ DevEmergency
    BY <2>1, <2>7 DEF DevTake, DevAnswer, DevEmergency
  <2>8. CASE UNCHANGED vars
    BY <2>1, <2>8 DEF vars
  <2>9. ASSUME NEW t \in Tasks, TaskStep(t) PROVE AnswersObject'
    BY <2>3, <2>4, <2>5, <2>6, <2>9 DEF TaskStep
  <2> QED BY <1>2, <2>7, <2>8, <2>9 DEF Next
<1> QED BY <1>1, <1>2, DataInvariant, PTL DEF Spec

-----------------------------------------------------------------------------
\* QuietInv is inductive.

\* The responses the SubDevice adds when it takes a request answer that
\* request, those to a download confirm or refuse it.
IsAnswer(m) ==
  /\ m.seq = mb_in.seq
  /\ mb_in.cmd = "Download" => m.cmd = "Abort" \/ (m.cmd = "Download" /\ DevDownload)

LEMMA DevTakeAnswers ==
  ASSUME DataInv, DevTake
  PROVE  \A k \in 1..Len(pending') :
           \/ k \in 1..Len(pending) /\ pending'[k] = pending[k]
           \/ IsAnswer(pending'[k])
<1>1. GoodRequest(mb_in) /\ IsSeq(pending) /\ Len(pending) \in Nat
  BY DEF DataInv, MessagesInv, DevTake, IsSeq
<1> DEFINE q == [mb_in EXCEPT !.obj = NoObject]
<1>2. q.seq = mb_in.seq
  BY <1>1 DEF GoodRequest, IsRequest
<1> HIDE DEF q
<1>3. ASSUME NEW m, IsAnswer(m), pending' = Append(pending, m),
             NEW k \in 1..Len(pending')
      PROVE  \/ k \in 1..Len(pending) /\ pending'[k] = pending[k]
             \/ IsAnswer(pending'[k])
  <2>1. /\ Len(pending') = Len(pending) + 1
        /\ \A j \in 1..Len(pending) : pending'[j] = pending[j]
        /\ pending'[Len(pending) + 1] = m
    BY <1>1, <1>3, AppendSeq
  <2>2. k \in 1..Len(pending) \/ k = Len(pending) + 1
    BY <1>1, <2>1
  <2> QED BY <1>3, <2>1, <2>2
<1>4. CASE DevDownload
  <2>1. IsAnswer(DownloadResponse(mb_in))
    BY <1>4 DEF IsAnswer, DownloadResponse, Response
  <2> QED BY <1>3, <1>4, <2>1 DEF DevDownload
<1>5. CASE DevUpload
  <2>1. IsAnswer(UploadResponse(mb_in))
    BY <1>5 DEF IsAnswer, UploadResponse, Response, DevUpload
  <2> QED BY <1>3, <1>5, <2>1 DEF DevUpload
<1>6. IsAnswer(Abort(mb_in))
  BY DEF IsAnswer, Abort, Response
<1>7. CASE DevSegment
  <2>1. \A cmd : IsAnswer(SegmentResponse(mb_in, cmd))
    BY <1>2, <1>7 DEF IsAnswer, SegmentResponse, Response, DevSegment, q
  <2> QED BY <1>3, <1>6, <1>7, <2>1 DEF DevSegment
<1>8. CASE DevInfo
  <2> DEFINE infos == [k \in 1..Len(InfoParts) |-> InfoResponse(mb_in, k)]
  <2>1. infos = [k \in 1..Len(InfoParts) |-> infos[k]]
    OBVIOUS
  <2>2. \A k \in 1..Len(InfoParts) : IsAnswer(infos[k])
    BY <1>2, <1>8 DEF IsAnswer, InfoResponse, Response, DevInfo, q
  <2>3. pending' = pending \o infos
    BY <1>8 DEF DevInfo
  <2> HIDE DEF infos
  <2>4. IsSeq(infos) /\ Len(infos) = Len(InfoParts)
    BY <2>1, Sizes, FunctionSeq
  <2>5. /\ Len(pending') = Len(pending) + Len(InfoParts)
        /\ \A k \in 1..(Len(pending) + Len(InfoParts)) : pending'[k] =
             IF k <= Len(pending) THEN pending[k] ELSE infos[k - Len(pending)]
    BY <1>1, <2>3, <2>4, ConcatSeq
  <2>6. ASSUME NEW k \in 1..Len(pending'), ~(k <= Len(pending))
        PROVE  k - Len(pending) \in 1..Len(InfoParts)
               /\ pending'[k] = infos[k - Len(pending)]
    BY <1>1, <2>5, <2>6, Sizes
  <2>7. ASSUME NEW k \in 1..Len(pending'), k <= Len(pending)
        PROVE  k \in 1..Len(pending) /\ pending'[k] = pending[k]
    BY <1>1, <2>5, <2>7, Sizes
  <2> QED BY <2>2, <2>6, <2>7
<1>9. CASE DevRefuse
  <2>1. mb_in.cmd = "Info" => IsAnswer(InfoError(mb_in))
    BY <1>2 DEF IsAnswer, InfoError, Response, q
  <2> QED BY <1>3, <1>6, <1>9, <2>1 DEF DevRefuse
<1> QED BY <1>4, <1>5, <1>7, <1>8, <1>9 DEF DevTake

QuietAll == \A t \in Tasks : QuietInv(t)

LEMMA QuietDevTake ==
  ASSUME DataInv, QuietAll, DevTake, NEW t \in Tasks
  PROVE  QuietInv(t)'
<1> SUFFICES ASSUME quiet'[t], Exchanging(t)'
             PROVE  QuietInv(t)'
  BY DEF QuietInv
<1>1. UNCHANGED <<pc, req, quiet, mb_out>> /\ mb_in # Empty /\ mb_in' = Empty
  BY DEF DevTake, callVars, histVars
<1>2. /\ quiet[t] /\ Exchanging(t) /\ pc[t] \in {"wait", "fetch"}
      /\ \A u \in Tasks \ {t} : ~Exchanging(u)
      /\ ~Foreign(mb_in, t) /\ ~Foreign(mb_out, t)
      /\ \A k \in 1..Len(pending) : ~Foreign(pending[k], t)
  <2>1. quiet[t] /\ Exchanging(t)
    BY <1>1 DEF Exchanging
  <2> QED BY <1>1, <2>1 DEF QuietAll, QuietInv, Idle, Exchanging
<1>3. mb_in.seq = req[t].seq
  <2>1. GoodRequest(mb_in)
    BY <1>1 DEF DataInv, MessagesInv
  <2> QED BY <1>2, <2>1 DEF Foreign, GoodRequest
<1>4. ASSUME NEW k \in 1..Len(pending') PROVE ~Foreign(pending'[k], t)
  BY <1>2, <1>3, DevTakeAnswers DEF IsAnswer, Foreign
<1> QED BY <1>1, <1>2, <1>4 DEF QuietInv, Exchanging, Foreign, Empty

LEMMA QuietDevAnswer ==
  ASSUME DataInv, QuietAll, DevAnswer \/ DevEmergency, NEW t \in Tasks
  PROVE  QuietInv(t)'
<1> SUFFICES ASSUME quiet'[t], Exchanging(t)'
             PROVE  QuietInv(t)'
  BY DEF QuietInv
<1>1. UNCHANGED <<pc, req, quiet, mb_in>>
  BY DEF DevAnswer, DevEmergency, callVars, histVars
<1>2. quiet[t] /\ Exchanging(t)
  BY <1>1 DEF Exchanging
<1>3. CASE DevEmergency
  <2>1. mb_out'.cmd = "Emergency" /\ pending' = pending
    BY <1>3 DEF DevEmergency, Emergency
  <2> QED BY <1>1, <1>2, <2>1 DEF QuietAll, QuietInv, Exchanging, Foreign, Idle
<1>4. CASE DevAnswer
  <2>1. pending # <<>> /\ IsSeq(pending)
    BY <1>4 DEF DevAnswer, DataInv, MessagesInv
  <2>2. /\ pc[t] \in {"wait", "fetch"} /\ ~Foreign(mb_in, t)
        /\ \A u \in Tasks \ {t} : ~Exchanging(u)
        /\ \A k \in 1..Len(pending) : ~Foreign(pending[k], t)
    BY <1>2, <2>1 DEF QuietAll, QuietInv, Idle, Exchanging
  <2>3. /\ Len(pending) \in Nat \ {0} /\ Len(pending') = Len(pending) - 1
        /\ \A k \in 1..(Len(pending) - 1) : pending'[k] = pending[k + 1]
        /\ mb_out' = pending[1]
    BY <1>4, <2>1, TailSeq DEF DevAnswer
  <2>4. ASSUME NEW k \in 1..Len(pending') PROVE ~Foreign(pending'[k], t)
    <3>1. k + 1 \in 1..Len(pending) /\ pending'[k] = pending[k + 1]
      BY <2>3
    <3> QED BY <2>2, <3>1
  <2>5. 1 \in 1..Len(pending)
    BY <2>3
  <2>6. ~Foreign(mb_out', t)
    BY <2>2, <2>3, <2>5
  <2> QED BY <1>1, <2>2, <2>4, <2>6 DEF QuietInv, Exchanging, Foreign
<1> QED BY <1>3, <1>4

\* A request begins: it is quiet if it is alone, and nobody else is then.
LEMMA QuietExchange ==
  ASSUME NEW t \in Tasks, DataInv, QuietAll, NEW u \in Tasks,
         NEW o, NEW s, NEW cmd, NEW tog, NEW b, Exchange(t, o, s, cmd, tog, b),
         mb_in' = mb_in, pending' = pending
  PROVE  QuietInv(u)'
<1>1. /\ pc'[t] = "clear" /\ \A w \in Tasks \ {t} : pc'[w] = pc[w]
      /\ quiet'[t] = Alone(t)
      /\ \A w \in Tasks \ {t} : quiet'[w] = (quiet[w] /\ ~Exchanging(w))
  BY DEF Exchange, DataInv, TypeOK
<1>2. CASE u = t
  BY <1>1, <1>2 DEF QuietInv, Exchanging, Alone, Idle
<1>3. CASE u # t
  BY <1>1, <1>3 DEF QuietInv, Exchanging
<1> QED BY <1>2, <1>3

\* A task in an exchange makes a step that begins no other: only its own
\* request may be quiet.
LEMMA QuietOthers ==
  ASSUME NEW t \in Tasks, QuietAll, Exchanging(t), NEW u \in Tasks, u # t,
         pc'[u] = pc[u], quiet'[u] = quiet[u]
  PROVE  QuietInv(u)'
<1>1. ~(quiet[u] /\ Exchanging(u))
  BY DEF QuietAll, QuietInv
<1> QED BY <1>1 DEF QuietInv, Exchanging

LEMMA QuietEnds ==
  ASSUME NEW t \in Tasks, DataInv, QuietAll, Exchanging(t), Ends(t), NEW u \in Tasks
  PROVE  QuietInv(u)'
<1>1. /\ pc'[t] \in {"idle", "panicked"}
      /\ \A w \in Tasks \ {t} : pc'[w] = pc[w] /\ quiet'[w] = quiet[w]
  BY DEF Ends, DropLocals, DataInv, TypeOK
<1>2. CASE u = t
  BY <1>1, <1>2 DEF QuietInv, Exchanging
<1> QED BY <1>1, <1>2, QuietOthers

\* A task goes on in its own exchange.
LEMMA QuietMoves ==
  ASSUME NEW t \in Tasks, DataInv, QuietAll, NEW u \in Tasks,
         \/ CheckOut(t) \/ ClearOut(t) \/ CheckIn(t) \/ AwaitOut(t)
         \/ WriteIn(t)
         \/ Fetch(t) /\ Waits(t)
  PROVE  QuietInv(u)'
<1>1. Exchanging(t) /\ pc \in [Tasks -> {"idle", "clear", "clearing", "ready",
                                          "write", "wait", "fetch", "panicked"}]
  BY DEF CheckOut, ClearOut, CheckIn, AwaitOut, WriteIn, Fetch, Exchanging,
         DataInv, TypeOK
<1>2. UNCHANGED <<quiet, req, pending>>
      /\ \A w \in Tasks \ {t} : pc'[w] = pc[w]
  BY <1>1 DEF CheckOut, ClearOut, CheckIn, AwaitOut, WriteIn, Fetch, Waits,
         AwaitNext, devVars, callVars, histVars
<1>3. CASE u # t
  BY <1>1, <1>2, <1>3, QuietOthers
<1>4. CASE u = t
  <2> SUFFICES ASSUME quiet[t] PROVE QuietInv(t)'
    BY <1>2, <1>4 DEF QuietInv
  <2>1. /\ \A w \in Tasks \ {t} : ~Exchanging(w)
        /\ pc[t] \in {"clear", "clearing", "ready", "write"} => Idle
        /\ pc[t] \in {"ready", "write"} => mb_out.cmd \in {"Empty", "Emergency"}
        /\ pc[t] \in {"wait", "fetch"} =>
             /\ ~Foreign(mb_in, t) /\ ~Foreign(mb_out, t)
             /\ \A k \in 1..Len(pending) : ~Foreign(pending[k], t)
    BY <1>1 DEF QuietAll, QuietInv
  <2>2. \A w \in Tasks \ {t} : ~Exchanging(w)'
    BY <1>2, <2>1 DEF Exchanging
  <2>3. CASE CheckOut(t)
    <3>1. /\ pc'[t] \in {"clearing", "ready"}
          /\ pc'[t] = "ready" => mb_out = Empty
          /\ pc[t] = "clear" /\ UNCHANGED <<mb_in, mb_out>>
      BY <1>1, <2>3 DEF CheckOut, devVars
    <3> QED BY <1>2, <2>1, <2>2, <3>1 DEF QuietInv, Idle, Empty
  <2>4. CASE ClearOut(t)
    <3>1. /\ pc'[t] \in {"clear", "ready"} /\ pc[t] = "clearing"
          /\ mb_in' = mb_in /\ mb_out' = Empty
      BY <1>1, <2>4 DEF ClearOut
    <3> QED BY <1>2, <2>1, <2>2, <3>1 DEF QuietInv, Idle, Empty
  <2>5. CASE CheckIn(t)
    <3>1. pc'[t] = "write" /\ pc[t] = "ready" /\ UNCHANGED <<mb_in, mb_out>>
      BY <1>1, <2>5 DEF CheckIn, devVars
    <3> QED BY <1>2, <2>1, <2>2, <3>1 DEF QuietInv, Idle
  <2>6. CASE AwaitOut(t)
    <3>1. pc'[t] = "fetch" /\ pc[t] = "wait" /\ UNCHANGED <<mb_in, mb_out>>
      BY <1>1, <2>6 DEF AwaitOut, devVars
    <3> QED BY <1>2, <2>1, <2>2, <3>1 DEF QuietInv, Foreign
  <2>7. CASE WriteIn(t)
    <3>1. /\ pc'[t] = "wait" /\ pc[t] = "write" /\ mb_in' = req[t]
          /\ mb_out' = mb_out
      BY <1>1, <2>1, <2>7 DEF WriteIn, Idle
    <3>2. pending = <<>> /\ mb_out.cmd \in {"Empty", "Emergency"}
      BY <2>1, <3>1 DEF Idle
    <3>3. \A k \in 1..Len(pending) : FALSE
      BY <3>2, EmptyIsSeq
    <3> QED BY <1>2, <2>2, <3>1, <3>2, <3>3 DEF QuietInv, Foreign
  <2>8. CASE Fetch(t) /\ Waits(t)
    <3>1. pc'[t] = "wait" /\ pc[t] = "fetch" /\ mb_in' = mb_in /\ mb_out' = Empty
      BY <1>1, <2>8 DEF Fetch, Waits, AwaitNext
    <3> QED BY <1>2, <2>1, <2>2, <3>1 DEF QuietInv, Foreign, Empty
  <2> QED BY <2>3, <2>4, <2>5, <2>6, <2>7, <2>8
<1> QED BY <1>3, <1>4

LEMMA QuietStep ==
  ASSUME DataInv, QuietAll, [Next]_vars
  PROVE  QuietAll'
<1> SUFFICES ASSUME NEW u \in Tasks PROVE QuietInv(u)'
  BY DEF QuietAll
<1>1. ASSUME NEW t \in Tasks, Call(t) PROVE QuietInv(u)'
  <2>1. mb_in' = mb_in /\ pending' = pending /\ mb_out' = mb_out
    BY <1>1 DEF Call, devVars
  <2>2. CASE Begins(t)
    BY <2>1, <2>2, QuietExchange DEF Begins
  <2>3. CASE Declines(t)
    <3>1. UNCHANGED <<pc, req, quiet>> /\ QuietInv(u)
      BY <2>3 DEF Declines, callVars, QuietAll
    <3> QED BY <2>1, <3>1 DEF QuietInv, Exchanging, Idle, Foreign
  <2> QED BY <1>1, <2>2, <2>3, CallOutcome
<1>2. ASSUME NEW t \in Tasks, Fetch(t) PROVE QuietInv(u)'
  <2>1. Exchanging(t) /\ mb_in' = mb_in /\ pending' = pending
    BY <1>2 DEF Fetch, Exchanging
  <2>2. CASE Returns(t) \/ Panic(t)
    BY <2>1, <2>2, ReturnEnds, QuietEnds DEF Returns, Panic, Ends
  <2>3. CASE Continues(t)
    BY <2>1, <2>3, QuietExchange DEF Continues
  <2>4. CASE Waits(t)
    BY <1>2, <2>4, QuietMoves
  <2> QED BY <1>2, <2>2, <2>3, <2>4, FetchOutcome
<1>3. ASSUME NEW t \in Tasks,
             TimesOut(t) \/ BusFails(t)
      PROVE  QuietInv(u)'
  BY <1>3, FailSteps, ReturnEnds, QuietEnds DEF Fail
<1>4. ASSUME NEW t \in Tasks,
             \/ CheckOut(t) \/ ClearOut(t) \/ CheckIn(t) \/ AwaitOut(t)
             \/ WriteIn(t)
      PROVE  QuietInv(u)'
  BY <1>4, QuietMoves
<1>5. ASSUME NEW t \in Tasks, TaskStep(t) PROVE QuietInv(u)'
  BY <1>1, <1>2, <1>3, <1>4, <1>5 DEF TaskStep
<1>6. CASE UNCHANGED vars
  <2>1. UNCHANGED <<mb_in, mb_out, pending, pc, req, quiet>> /\ QuietInv(u)
    BY <1>6 DEF vars, devVars, callVars, histVars, QuietAll
  <2> QED BY <2>1 DEF QuietInv, Exchanging, Idle, Foreign
<1> QED BY <1>5, <1>6, QuietDevTake, QuietDevAnswer DEF Next

LEMMA QuietInit == Init => QuietAll
BY DEF Init, QuietAll, QuietInv, Exchanging

\* OwnAnswer: as long as no other exchange runs and the one before left no
\* request with the SubDevice, mailbox_write_read reads the response to the
\* request it wrote, or one the SubDevice sends unasked.
THEOREM FetchesOwnAnswer == Spec => []OwnAnswer
<1>1. QuietAll => OwnAnswer
  BY DEF QuietAll, QuietInv, OwnAnswer, Exchanging, Foreign
<1> QED BY <1>1, QuietInit, QuietStep, DataInvariant, PTL DEF Spec

-----------------------------------------------------------------------------
\* SerialInv is inductive.

SerialTask(t) == (Exchanging(t) => quiet[t]) /\ WrittenInv(t) /\ ConfirmInv(t)

\* In a serial history the task in an exchange is the only one.
LEMMA SerialAlone ==
  ASSUME QuietAll, SerialInv, serial, NEW t \in Tasks, Exchanging(t)
  PROVE  /\ quiet[t] /\ QuietInv(t) /\ \A u \in Tasks \ {t} : ~Exchanging(u)
         /\ ArrayInv /\ WrittenInv(t) /\ ConfirmInv(t)
BY DEF SerialInv, QuietAll, QuietInv

\* A task outside an exchange promises nothing.
LEMMA SerialOutside ==
  ASSUME NEW u \in Tasks, ~Exchanging(u)'
  PROVE  SerialTask(u)'
BY DEF SerialTask, WrittenInv, ConfirmInv, Exchanging

\* The array's indices are objects, and differ.
LEMMA ArrayObjects ==
  /\ Length0 \in Objects /\ \A k \in 1..ArrayLen : <<"array", k>> \in Objects
  /\ \A k \in 1..ArrayLen : <<"array", k>> # Length0
  /\ \A j, k \in 1..ArrayLen : <<"array", j>> = <<"array", k>> => j = k
BY Sizes, ObjectFacts DEF Length0

\* The request of an sdo_write_array at step s.
LEMMA ArrayRequest ==
  ASSUME NEW o, NEW s, NEW cmd, NEW b, GoodCall(o, s, cmd, b),
         o.kind = "sdo_write_array"
  PROVE  /\ cmd = "Download"
         /\ s = 0 => Target(o, s) = Length0 /\ Written(o, s) = 0
         /\ s \in 1..ArrayLen => Target(o, s) = <<"array", s>> /\ Written(o, s) = o.id
         /\ s > ArrayLen => Target(o, s) = Length0 /\ Written(o, s) = ArrayLen
         /\ s \in 0..(ArrayLen + 1)
<1>1. s \in 0..(ArrayLen + 1) /\ cmd = "Download"
  BY Sizes DEF GoodCall, Command
<1>2. CASE s = 0
  BY <1>1, <1>2, Sizes DEF Target, Written, Length0
<1>3. CASE s \in 1..ArrayLen
  BY <1>1, <1>3, Sizes DEF Target, Written
<1>4. CASE s > ArrayLen
  BY <1>1, <1>4, Sizes DEF Target, Written, Length0
<1> QED BY <1>1, <1>2, <1>3, <1>4, Sizes

\* Only an sdo_write_array downloads to the array.
LEMMA ArrayDownload ==
  ASSUME NEW o, NEW s, NEW cmd, NEW b, GoodCall(o, s, cmd, b),
         cmd = "Download", Target(o, s) \in Entries
  PROVE  o.kind = "sdo_write_array"
<1>1. o.kind \in {"sdo_write", "sdo_write_array"} /\ <<o.kind, o.obj>> \in AllCalls
  BY DEF GoodCall, Command
<1>2. ASSUME o.kind = "sdo_write" PROVE FALSE
  <2>1. o.obj \in {Single, Normal, Long} /\ Target(o, s) = o.obj
    BY <1>1, <1>2, CallFacts DEF Target
  <2> QED BY <2>1, ObjectFacts
<1> QED BY <1>1, <1>2

\* The request a task is about to write into IN leaves the array in order.
LEMMA RequestInOrder ==
  ASSUME NEW t \in Tasks, DataInv, Exchanging(t), WrittenInv(t), ArrayInv,
         od' = od, mb_in' = mb_in \/ mb_in' = req[t]
  PROVE  ArrayInv'
<1>1. /\ GoodCall(op[t], step[t], req[t].cmd, buf[t])
      /\ req[t].obj = Target(op[t], step[t])
      /\ req[t].value = Written(op[t], step[t])
  BY DEF DataInv, CallInv
<1>2. Even' = Even
  BY DEF Even
<1>3. CASE mb_in' = mb_in
  BY <1>2, <1>3 DEF ArrayInv
<1>4. CASE mb_in' = req[t]
  <2>1. ASSUME req[t].cmd = "Download", NEW k \in 1..ArrayLen,
               req[t].obj = <<"array", k>>
        PROVE  od[Length0] = 0
    <3>1. <<"array", k>> \in Entries
      BY Sizes, ObjectFacts
    <3>2. op[t].kind = "sdo_write_array"
      BY <1>1, <2>1, <3>1, ArrayDownload
    <3>3. step[t] \in 1..ArrayLen
      <4>1. /\ step[t] = 0 => req[t].obj = Length0
            /\ step[t] > ArrayLen => req[t].obj = Length0
            /\ step[t] \in 0..(ArrayLen + 1)
        BY <1>1, <3>2, ArrayRequest
      <4>2. req[t].obj # Length0
        BY <2>1, ArrayObjects
      <4> QED BY <4>1, <4>2, Sizes
    <3> QED BY <3>2, <3>3 DEF WrittenInv
  <2>2. ASSUME req[t].cmd = "Download", req[t].obj = Length0, req[t].value > 0
        PROVE  Even
    <3>1. op[t].kind = "sdo_write_array"
      BY <1>1, <2>2, ObjectFacts, ArrayDownload
    <3>2. step[t] > ArrayLen /\ step[t] \in Nat
      <4>1. /\ step[t] = 0 => req[t].value = 0
            /\ step[t] \in 1..ArrayLen => req[t].obj = <<"array", step[t]>>
            /\ step[t] \in 0..(ArrayLen + 1)
        BY <1>1, <3>1, ArrayRequest
      <4>2. step[t] \notin 1..ArrayLen
        BY <2>2, <4>1, ArrayObjects
      <4> QED BY <2>2, <4>1, <4>2, Sizes
    <3>3. \A i \in 1..ArrayLen : i < step[t]
      BY <3>2, Sizes
    <3>4. \A i \in 1..ArrayLen : od[<<"array", i>>] = op[t].id
      BY <3>1, <3>3 DEF WrittenInv
    <3> QED BY <3>4 DEF Even
  <2> QED BY <1>2, <1>4, <2>1, <2>2 DEF ArrayInv
<1> QED BY <1>3, <1>4

\* A request begins.  What an sdo_write_array has achieved by then is given.
LEMMA SerialExchange ==
  ASSUME NEW t \in Tasks, DataInv, SerialInv, serial', UNCHANGED <<mb_in, pending, od>>,
         NEW o, NEW s, NEW cmd, NEW tog, NEW b, Exchange(t, o, s, cmd, tog, b),
         serial /\ o.kind = "sdo_write_array" =>
           /\ s \in 1..ArrayLen => od[Length0] = 0
           /\ \A i \in 1..ArrayLen : i < s => od[<<"array", i>>] = o.id
  PROVE  ArrayInv' /\ \A u \in Tasks : SerialTask(u)'
<1>1. /\ pc'[t] = "clear" /\ op'[t] = o /\ step'[t] = s
      /\ quiet'[t] = Alone(t) /\ \A u \in Tasks \ {t} : pc'[u] = pc[u]
  BY DEF Exchange, DataInv, TypeOK, FunctionsInv
<1>2. serial /\ Alone(t)
  BY DEF Exchange
<1>3. ArrayInv'
  BY <1>2 DEF SerialInv, ArrayInv, Even
<1>4. SerialTask(t)'
  <2>1. (Exchanging(t) => quiet[t])' /\ ConfirmInv(t)'
    BY <1>1, <1>2 DEF ConfirmInv
  <2>2. WrittenInv(t)'
    BY <1>1, <1>2 DEF WrittenInv
  <2> QED BY <2>1, <2>2 DEF SerialTask
<1>5. ASSUME NEW u \in Tasks \ {t} PROVE SerialTask(u)'
  <2>1. ~Exchanging(u)'
    BY <1>1, <1>2 DEF Alone, Exchanging
  <2> QED BY <2>1, SerialOutside
<1> QED BY <1>3, <1>4, <1>5

LEMMA SerialEnds ==
  ASSUME NEW t \in Tasks, DataInv, QuietAll, SerialInv, serial', TaskLeaves(t),
         Exchanging(t), Ends(t)
  PROVE  ArrayInv' /\ \A u \in Tasks : SerialTask(u)'
<1>1. /\ serial /\ pc'[t] \in {"idle", "panicked"}
      /\ \A u \in Tasks \ {t} : pc'[u] = pc[u]
  BY DEF Ends, DataInv, TypeOK
<1>2. /\ \A u \in Tasks \ {t} : ~Exchanging(u)
      /\ ArrayInv /\ WrittenInv(t)
  BY <1>1, SerialAlone
<1>3. ArrayInv'
  BY <1>2, RequestInOrder DEF TaskLeaves
<1>4. ASSUME NEW u \in Tasks PROVE SerialTask(u)'
  <2>1. ~Exchanging(u)'
    BY <1>1, <1>2 DEF Exchanging
  <2> QED BY <2>1, SerialOutside
<1> QED BY <1>3, <1>4

LEMMA SerialMoves ==
  ASSUME NEW t \in Tasks, DataInv, QuietAll, SerialInv, serial',
         \/ CheckOut(t) \/ ClearOut(t) \/ CheckIn(t) \/ AwaitOut(t)
         \/ WriteIn(t)
         \/ Fetch(t) /\ Waits(t)
  PROVE  ArrayInv' /\ \A u \in Tasks : SerialTask(u)'
<1>1. Exchanging(t) /\ pc \in [Tasks -> {"idle", "clear", "clearing", "ready",
                                          "write", "wait", "fetch", "panicked"}]
  BY DEF CheckOut, ClearOut, CheckIn, AwaitOut, WriteIn, Fetch, Exchanging,
         DataInv, TypeOK
<1>2. /\ UNCHANGED <<quiet, req, pending, od, op, serial>>
      /\ \A w \in Tasks \ {t} : pc'[w] = pc[w]
      /\ mb_in' = mb_in \/ mb_in' = req[t]
      /\ op[t].kind # "sdo_info" => step'[t] = step[t]
  BY <1>1 DEF CheckOut, ClearOut, CheckIn, AwaitOut, WriteIn, Fetch, Waits,
         AwaitNext, devVars, callVars, histVars
<1>3. /\ quiet[t] /\ QuietInv(t) /\ \A u \in Tasks \ {t} : ~Exchanging(u)
      /\ ArrayInv /\ WrittenInv(t) /\ ConfirmInv(t)
  BY <1>1, <1>2, SerialAlone
<1>4. ArrayInv'
  BY <1>1, <1>2, <1>3, RequestInOrder
<1>5. ASSUME NEW u \in Tasks \ {t} PROVE SerialTask(u)'
  <2>1. ~Exchanging(u)'
    BY <1>2, <1>3 DEF Exchanging
  <2> QED BY <2>1, SerialOutside
<1>6. WrittenInv(t)'
  BY <1>1, <1>2, <1>3 DEF WrittenInv
<1>7. ConfirmInv(t)'
  <2>1. CASE CheckOut(t) \/ ClearOut(t) \/ CheckIn(t)
    <3>1. pc'[t] \notin {"wait", "fetch"}
      BY <1>1, <2>1 DEF CheckOut, ClearOut, CheckIn
    <3> QED BY <3>1 DEF ConfirmInv
  <2>2. CASE AwaitOut(t)
    <3>1. pc[t] = "wait" /\ UNCHANGED <<mb_in, mb_out>>
      BY <2>2 DEF AwaitOut, devVars
    <3> QED BY <1>2, <1>3, <3>1 DEF ConfirmInv, Confirms
  <2>3. CASE WriteIn(t)
    <3>1. pc[t] = "write" /\ mb_in' = req[t] /\ mb_out' = mb_out
      BY <1>1, <1>3, <2>3 DEF WriteIn, QuietInv, Idle
    <3>2. pending = <<>> /\ mb_out.cmd \in {"Empty", "Emergency"}
      BY <1>1, <1>3, <3>1 DEF QuietInv, Idle
    <3>3. \A k \in 1..Len(pending) : FALSE
      BY <3>2, EmptyIsSeq
    <3> QED BY <1>2, <3>1, <3>2, <3>3 DEF ConfirmInv, Confirms
  <2>4. CASE Fetch(t) /\ Waits(t)
    <3>1. pc[t] = "fetch" /\ mb_in' = mb_in /\ mb_out' = Empty
      BY <2>4 DEF Fetch
    <3> QED BY <1>2, <1>3, <3>1 DEF ConfirmInv, Confirms, Empty
  <2> QED BY <2>1, <2>2, <2>3, <2>4
<1> QED BY <1>2, <1>3, <1>4, <1>5, <1>6, <1>7 DEF SerialTask

\* The SubDevice carries out a request.
LEMMA TakeInOrder ==
  ASSUME DataInv, ArrayInv, DevTake
  PROVE  ArrayInv'
<1>1. mb_in'.cmd = "Empty" /\ od \in [Objects -> Nat]
  BY DEF DevTake, Empty, DataInv, TypeOK
<1>2. od'[Length0] > 0 => Even'
  <2>1. CASE od' = od
    BY <2>1 DEF ArrayInv, Even
  <2>2. CASE DevDownload
    <3>1. /\ mb_in.cmd = "Download" /\ mb_in.obj \in Objects
          /\ od' = [od EXCEPT ![mb_in.obj] = mb_in.value]
      BY <2>2 DEF DevDownload, DevTake, DataInv, MessagesInv, GoodRequest
    <3>2. CASE mb_in.obj = Length0
      <4>1. /\ od'[Length0] = mb_in.value
            /\ \A i \in 1..ArrayLen : od'[<<"array", i>>] = od[<<"array", i>>]
        BY <1>1, <3>1, <3>2, ArrayObjects
      <4> QED BY <3>1, <3>2, <4>1 DEF ArrayInv, Even
    <3>3. CASE \E k \in 1..ArrayLen : mb_in.obj = <<"array", k>>
      <4>1. od[Length0] = 0 /\ od'[Length0] = od[Length0]
        BY <1>1, <3>1, <3>3, ArrayObjects DEF ArrayInv
      <4> QED BY <4>1
    <3>4. CASE mb_in.obj # Length0 /\ \A k \in 1..ArrayLen : mb_in.obj # <<"array", k>>
      <4>1. /\ od'[Length0] = od[Length0]
            /\ \A i \in 1..ArrayLen : od'[<<"array", i>>] = od[<<"array", i>>]
        BY <1>1, <3>1, <3>4, ArrayObjects
      <4> QED BY <4>1 DEF ArrayInv, Even
    <3> QED BY <3>2, <3>3, <3>4
  <2> QED BY <2>1, <2>2 DEF DevTake, DevUpload, DevSegment, DevInfo, DevRefuse
<1> QED BY <1>1, <1>2 DEF ArrayInv

LEMMA SerialDevTake ==
  ASSUME DataInv, QuietAll, SerialInv, serial, DevTake, NEW t \in Tasks, Exchanging(t)
  PROVE  SerialTask(t)'
<1>1. /\ UNCHANGED <<pc, req, quiet, mb_out, op, step>> /\ mb_in # Empty
      /\ mb_in' = Empty
  BY DEF DevTake, callVars, histVars
<1>2. /\ quiet[t] /\ QuietInv(t) /\ WrittenInv(t) /\ ConfirmInv(t)
  BY SerialAlone
<1>3. pc[t] \in {"wait", "fetch"} /\ mb_in = req[t]
  BY <1>1, <1>2 DEF QuietInv, Idle, Exchanging, ConfirmInv
<1>4. /\ GoodCall(op[t], step[t], req[t].cmd, buf[t])
      /\ req[t].obj = Target(op[t], step[t]) /\ od \in [Objects -> Nat]
      /\ GoodRequest(mb_in)
  BY <1>1 DEF DataInv, CallInv, TypeOK, MessagesInv
<1>5. \/ od' = od
      \/ /\ od' = [od EXCEPT ![req[t].obj] = req[t].value]
         /\ req[t].cmd = "Download" /\ req[t].obj \in Objects
  BY <1>3, <1>4 DEF DevTake, DevDownload, DevUpload, DevSegment, DevInfo,
                    DevRefuse, GoodRequest
<1>6. ASSUME op[t].kind = "sdo_write_array"
      PROVE  /\ step[t] \in 1..ArrayLen => od'[Length0] = 0
             /\ \A i \in 1..ArrayLen : i < step[t] => od'[<<"array", i>>] = op[t].id
  <2>1. /\ step[t] \in 1..ArrayLen => od[Length0] = 0
        /\ \A i \in 1..ArrayLen : i < step[t] => od[<<"array", i>>] = op[t].id
    BY <1>2, <1>6 DEF WrittenInv
  <2>2. /\ step[t] = 0 => req[t].obj = Length0
        /\ step[t] \in 1..ArrayLen => req[t].obj = <<"array", step[t]>>
        /\ step[t] > ArrayLen => req[t].obj = Length0
        /\ step[t] \in 0..(ArrayLen + 1)
    BY <1>4, <1>6, ArrayRequest
  <2>3. CASE od' = od
    BY <2>1, <2>3
  <2>4. CASE /\ od' = [od EXCEPT ![req[t].obj] = req[t].value]
             /\ req[t].obj \in Objects
    <3>1. ASSUME step[t] \in 1..ArrayLen PROVE od'[Length0] = 0
      <4>1. req[t].obj # Length0
        BY <2>2, <3>1, ArrayObjects
      <4> QED BY <1>4, <2>1, <2>4, <3>1, <4>1, ArrayObjects
    <3>2. ASSUME NEW i \in 1..ArrayLen, i < step[t]
          PROVE  od'[<<"array", i>>] = op[t].id
      <4>1. req[t].obj # <<"array", i>>
        <5>1. CASE step[t] \in 1..ArrayLen
          <6>1. i # step[t]
            BY <3>2, <5>1, Sizes
          <6> QED BY <2>2, <5>1, <6>1, ArrayObjects
        <5>2. CASE step[t] \notin 1..ArrayLen
          <6>1. req[t].obj = Length0
            BY <2>2, <5>2, Sizes
          <6> QED BY <6>1, ArrayObjects
        <5> QED BY <5>1, <5>2
      <4>2. <<"array", i>> \in Objects
        BY ArrayObjects
      <4> QED BY <1>4, <2>1, <2>4, <3>2, <4>1, <4>2
    <3> QED BY <3>1, <3>2
  <2> QED BY <1>5, <2>3, <2>4
<1> DEFINE Confirmed(m) ==
      m.cmd \notin {"Empty", "Emergency"} /\ req[t].cmd = "Download" =>
        /\ m.cmd \in {"Download", "Abort"}
        /\ m.cmd = "Download" => od'[req[t].obj] = req[t].value
<1>7. ASSUME NEW m, Confirms(m, t)
      PROVE  Confirmed(m)
  BY <1>4, <1>5, <1>7 DEF Confirms
<1>8. ASSUME NEW m, IsAnswer(m)
      PROVE  Confirmed(m)
  <2>1. ASSUME DevDownload PROVE od'[req[t].obj] = req[t].value
    BY <1>3, <1>4, <2>1 DEF DevDownload, GoodRequest
  <2> QED BY <1>3, <1>8, <2>1 DEF IsAnswer
<1> HIDE DEF Confirmed
<1>9. ASSUME NEW k \in 1..Len(pending') PROVE Confirmed(pending'[k])
  <2>1. \/ k \in 1..Len(pending) /\ pending'[k] = pending[k]
        \/ IsAnswer(pending'[k])
    BY DevTakeAnswers
  <2>2. \A j \in 1..Len(pending) : Confirms(pending[j], t)
    BY <1>2, <1>3 DEF ConfirmInv
  <2> QED BY <1>7, <1>8, <2>1, <2>2
<1>10. ConfirmInv(t)'
  <2>1. Confirmed(mb_out')
    BY <1>1, <1>2, <1>3, <1>7 DEF ConfirmInv
  <2> QED BY <1>1, <1>9, <2>1 DEF ConfirmInv, Confirms, Confirmed
<1>11. WrittenInv(t)'
  BY <1>1, <1>6 DEF WrittenInv, Exchanging
<1> QED BY <1>1, <1>2, <1>10, <1>11 DEF SerialTask

LEMMA SerialDevAnswer ==
  ASSUME DataInv, QuietAll, SerialInv, serial, DevAnswer \/ DevEmergency,
         NEW t \in Tasks, Exchanging(t)
  PROVE  SerialTask(t)'
<1>1. UNCHANGED <<pc, req, quiet, mb_in, op, step, od>>
  BY DEF DevAnswer, DevEmergency, callVars, histVars
<1>2. quiet[t] /\ WrittenInv(t) /\ ConfirmInv(t) /\ IsSeq(pending)
  BY SerialAlone DEF DataInv, MessagesInv
<1>3. ConfirmInv(t)'
  <2> SUFFICES ASSUME pc[t] \in {"wait", "fetch"}
               PROVE  ConfirmInv(t)'
    BY <1>1 DEF ConfirmInv
  <2>1. /\ mb_in = Empty \/ mb_in = req[t]
        /\ \A k \in 1..Len(pending) : Confirms(pending[k], t)
    BY <1>2 DEF ConfirmInv
  <2>2. CASE DevEmergency
    <3>1. mb_out'.cmd = "Emergency" /\ pending' = pending
      BY <2>2 DEF DevEmergency, Emergency
    <3> QED BY <1>1, <2>1, <3>1 DEF ConfirmInv, Confirms
  <2>3. CASE DevAnswer
    <3>1. /\ Len(pending) \in Nat \ {0} /\ Len(pending') = Len(pending) - 1
          /\ \A k \in 1..(Len(pending) - 1) : pending'[k] = pending[k + 1]
          /\ mb_out' = pending[1]
      BY <1>2, <2>3, TailSeq DEF DevAnswer
    <3>2. ASSUME NEW k \in 1..Len(pending') PROVE Confirms(pending'[k], t)
      <4>1. k + 1 \in 1..Len(pending) /\ pending'[k] = pending[k + 1]
        BY <3>1
      <4> QED BY <2>1, <4>1
    <3>3. 1 \in 1..Len(pending)
      BY <3>1
    <3>4. Confirms(mb_out', t)
      BY <2>1, <3>1, <3>3
    <3> QED BY <1>1, <2>1, <3>2, <3>4 DEF ConfirmInv, Confirms
  <2> QED BY <2>2, <2>3
<1> QED BY <1>1, <1>2, <1>3 DEF SerialTask, WrittenInv, Exchanging

\* The response a write is waiting for says that it was carried out.
LEMMA WriteConfirmed ==
  ASSUME NEW t \in Tasks, DataInv, ConfirmInv(t), pc[t] = "fetch",
         IsWrite(t), IsAccepted
  PROVE  od[Target(op[t], step[t])] = Written(op[t], step[t])
<1>1. /\ GoodCall(op[t], step[t], req[t].cmd, buf[t])
      /\ req[t].obj = Target(op[t], step[t])
      /\ req[t].value = Written(op[t], step[t])
  BY DEF DataInv, CallInv, Exchanging
<1>2. req[t].cmd = "Download"
  BY <1>1 DEF GoodCall, Command, IsWrite
<1>3. Confirms(mb_out, t)
  BY DEF ConfirmInv
<1> QED BY <1>1, <1>2, <1>3 DEF Confirms, IsAccepted

LEMMA SerialFetch ==
  ASSUME NEW t \in Tasks, DataInv, QuietAll, SerialInv, serial', Fetch(t)
  PROVE  ArrayInv' /\ \A u \in Tasks : SerialTask(u)'
<1>1. /\ Exchanging(t) /\ pc[t] = "fetch" /\ TaskLeaves(t)
      /\ UNCHANGED <<mb_in, pending, od>>
  BY DEF Fetch, Exchanging, TaskLeaves
<1>2. CASE Returns(t) \/ Panic(t)
  BY <1>1, <1>2, ReturnEnds, SerialEnds DEF Returns, Panic, Ends
<1>3. CASE Waits(t)
  BY <1>3, SerialMoves
<1>4. CASE Continues(t)
  <2>1. PICK o, s, cmd, tog, b :
          /\ Exchange(t, o, s, cmd, tog, b) /\ GoodCall(o, s, cmd, b)
          /\ o.kind = op[t].kind
          /\ IsWrite(t) => IsAccepted /\ o = op[t] /\ s = step[t] + 1
    BY <1>4 DEF Continues
  <2>2. ASSUME serial, o.kind = "sdo_write_array"
        PROVE  /\ s \in 1..ArrayLen => od[Length0] = 0
               /\ \A i \in 1..ArrayLen : i < s => od[<<"array", i>>] = o.id
    <3>1. /\ IsWrite(t) /\ IsAccepted /\ o = op[t] /\ s = step[t] + 1
      BY <2>1, <2>2 DEF IsWrite
    <3>2. WrittenInv(t) /\ ConfirmInv(t)
      BY <1>1, <2>2, SerialAlone
    <3>3. /\ step[t] \in 1..ArrayLen => od[Length0] = 0
          /\ \A i \in 1..ArrayLen : i < step[t] => od[<<"array", i>>] = o.id
      BY <1>1, <2>2, <3>1, <3>2 DEF WrittenInv
    <3>4. od[Target(op[t], step[t])] = Written(op[t], step[t])
      BY <1>1, <3>1, <3>2, WriteConfirmed
    <3>5. GoodCall(op[t], step[t], req[t].cmd, buf[t])
      BY <1>1 DEF DataInv, CallInv
    <3>6. /\ step[t] = 0 => od[Length0] = 0
          /\ step[t] \in 1..ArrayLen => od[<<"array", step[t]>>] = o.id
          /\ step[t] \in 0..(ArrayLen + 1)
      BY <2>2, <3>1, <3>4, <3>5, ArrayRequest
    <3>7. s \in 1..ArrayLen => od[Length0] = 0
      BY <3>1, <3>3, <3>6, Sizes
    <3>8. ASSUME NEW i \in 1..ArrayLen, i < s PROVE od[<<"array", i>>] = o.id
      <4>1. i < step[t] \/ i = step[t]
        BY <3>1, <3>6, <3>8, Sizes
      <4> QED BY <3>3, <3>6, <4>1
    <3> QED BY <3>7, <3>8
  <2> QED BY <1>1, <2>1, <2>2, SerialExchange
<1> QED BY <1>2, <1>3, <1>4, FetchOutcome

LEMMA SerialStep ==
  ASSUME DataInv, QuietAll, SerialInv, [Next]_vars
  PROVE  SerialInv'
<1> SUFFICES ASSUME serial'
             PROVE  ArrayInv' /\ \A u \in Tasks : SerialTask(u)'
  BY DEF SerialInv, SerialTask
<1>1. ASSUME serial, UNCHANGED <<mb_in, mb_out, pending, od, pc, op, step, req, quiet>>
      PROVE  ArrayInv' /\ \A u \in Tasks : SerialTask(u)'
  <2>1. ArrayInv /\ \A u \in Tasks : SerialTask(u)
    BY <1>1 DEF SerialInv, SerialTask
  <2>2. ArrayInv'
    BY <1>1, <2>1 DEF ArrayInv, Even
  <2>3. ASSUME NEW u \in Tasks PROVE SerialTask(u)'
    BY <1>1, <2>1 DEF SerialTask, WrittenInv, ConfirmInv, Confirms, Exchanging
  <2> QED BY <2>2, <2>3
<1>2. CASE UNCHANGED vars
  BY <1>1, <1>2 DEF vars, devVars, callVars, histVars
<1>3. ASSUME NEW t \in Tasks, Call(t)
      PROVE  ArrayInv' /\ \A u \in Tasks : SerialTask(u)'
  <2>1. UNCHANGED <<mb_in, mb_out, pending, od>>
    BY <1>3 DEF Call, devVars
  <2>2. CASE Begins(t)
    <3>1. PICK o : Exchange(t, o, 0, Command(o.kind), FALSE, <<>>)
      BY <2>2 DEF Begins
    <3>2. 0 \notin 1..ArrayLen /\ \A i \in 1..ArrayLen : ~(i < 0)
      BY Sizes
    <3> QED BY <2>1, <3>1, <3>2, SerialExchange
  <2>3. CASE Declines(t)
    BY <1>1, <2>1, <2>3 DEF Declines, callVars
  <2> QED BY <1>3, <2>2, <2>3, CallOutcome
<1>4. ASSUME NEW t \in Tasks,
             TimesOut(t) \/ BusFails(t)
      PROVE  ArrayInv' /\ \A u \in Tasks : SerialTask(u)'
  BY <1>4, FailSteps, ReturnEnds, SerialEnds DEF Fail
<1>5. ASSUME NEW t \in Tasks,
             \/ CheckOut(t) \/ ClearOut(t) \/ CheckIn(t) \/ AwaitOut(t)
             \/ WriteIn(t)
      PROVE  ArrayInv' /\ \A u \in Tasks : SerialTask(u)'
  BY <1>5, SerialMoves
<1>6. ASSUME NEW t \in Tasks, TaskStep(t)
      PROVE  ArrayInv' /\ \A u \in Tasks : SerialTask(u)'
  <2>1. CASE Fetch(t)
    BY <2>1, SerialFetch
  <2> QED BY <1>3, <1>4, <1>5, <1>6, <2>1 DEF TaskStep
<1>7. CASE DevTake \/ DevAnswer \/ DevEmergency
  <2>1. serial /\ pc' = pc
    BY <1>7 DEF DevTake, DevAnswer, DevEmergency, histVars
  <2>2. ArrayInv'
    <3>1. CASE DevTake
      BY <2>1, <3>1, TakeInOrder DEF SerialInv
    <3>2. CASE DevAnswer \/ DevEmergency
      <4>1. UNCHANGED <<mb_in, od>>
        BY <3>2 DEF DevAnswer, DevEmergency
      <4> QED BY <2>1, <4>1 DEF SerialInv, ArrayInv, Even
    <3> QED BY <1>7, <3>1, <3>2
  <2>3. ASSUME NEW u \in Tasks PROVE SerialTask(u)'
    <3>1. CASE Exchanging(u)
      BY <1>7, <2>1, <3>1, SerialDevTake, SerialDevAnswer
    <3>2. CASE ~Exchanging(u)
      <4>1. ~Exchanging(u)'
        BY <2>1, <3>2 DEF Exchanging
      <4> QED BY <4>1, SerialOutside
    <3> QED BY <3>1, <3>2
  <2> QED BY <2>2, <2>3
<1> QED BY <1>2, <1>6, <1>7 DEF Next

LEMMA SerialInit == Init => SerialInv
<1> SUFFICES ASSUME Init PROVE SerialInv
  OBVIOUS
<1>1. \A i \in 1..ArrayLen : od[<<"array", i>>] = 0
  <2>1. \A o \in Objects : o # Length0 => od[o] = 0
    BY DEF Init, Length0
  <2> QED BY <2>1, ArrayObjects
<1>2. ArrayInv
  BY <1>1 DEF Init, ArrayInv, Even, Empty
<1>3. ASSUME NEW t \in Tasks
      PROVE  (Exchanging(t) => quiet[t]) /\ WrittenInv(t) /\ ConfirmInv(t)
  BY DEF Init, WrittenInv, ConfirmInv, Exchanging
<1> QED BY <1>2, <1>3 DEF SerialInv

\* What the proofs of Acknowledged and ArrayConsistent rest on.
\* [Coe::sdo_write, Coe::sdo_write_array, Coe::wait_for_mailbox_response]
THEOREM SerialInvariant == Spec => [](DataInv /\ QuietAll /\ SerialInv)
BY QuietInit, QuietStep, SerialInit, SerialStep, DataInvariant, PTL DEF Spec

\* ArrayConsistent: an sdo_write_array that fails half way leaves no array
\* that announces entries of two writes.
THEOREM ArrayStaysConsistent == Spec => []ArrayConsistent
<1>1. SerialInv => ArrayConsistent
  BY DEF SerialInv, ArrayInv, Even, Length0, ArrayConsistent
<1> QED BY <1>1, SerialInvariant, PTL

\* Acknowledged: a write that returns Ok has been carried out.
THEOREM WritesAcknowledged == Spec => Acknowledged
<1> DEFINE Done(t) ==
      serial /\ Exchanging(t) /\ pc'[t] = "idle" /\ result'.ok =>
        /\ op[t].kind = "sdo_write" => od[op[t].obj] = op[t].id
        /\ op[t].kind = "sdo_write_array" =>
             \A i \in 1..ArrayLen : od[<<"array", i>>] = op[t].id
<1>1. ASSUME DataInv, QuietAll, SerialInv, Next, NEW t \in Tasks
      PROVE  Done(t)
  <2> SUFFICES ASSUME serial, Exchanging(t), pc'[t] = "idle", result'.ok
               PROVE  /\ op[t].kind = "sdo_write" => od[op[t].obj] = op[t].id
                      /\ op[t].kind = "sdo_write_array" =>
                           \A i \in 1..ArrayLen : od[<<"array", i>>] = op[t].id
    OBVIOUS
  <2>0. /\ pc[t] # "idle"
        /\ pc \in [Tasks -> {"idle", "clear", "clearing", "ready", "write",
                             "wait", "fetch", "panicked"}]
    BY <1>1 DEF Exchanging, DataInv, TypeOK
  <2>1. ASSUME NEW u \in Tasks, Fail(u) PROVE FALSE
    BY <2>1 DEF Fail, Return
  <2>2. ASSUME NEW u \in Tasks, Fetch(u), Returns(u)
        PROVE  /\ op[t].kind = "sdo_write" => od[op[t].obj] = op[t].id
               /\ op[t].kind = "sdo_write_array" =>
                    \A i \in 1..ArrayLen : od[<<"array", i>>] = op[t].id
    <3>1. PICK ok, v : /\ Return(u, ok, v)
                       /\ ok => /\ IsWrite(u) => IsAccepted
                                /\ op[u].kind = "sdo_write_array" => step[u] > ArrayLen
      BY <2>2 DEF Returns
    <3>2. ok /\ u = t
      BY <2>0, <3>1 DEF Return
    <3>3. pc[t] = "fetch" /\ WrittenInv(t) /\ ConfirmInv(t)
      BY <1>1, <2>2, <3>2, SerialAlone DEF Fetch
    <3>4. CASE op[t].kind = "sdo_write"
      <4>1. od[Target(op[t], step[t])] = Written(op[t], step[t])
        BY <1>1, <3>1, <3>2, <3>3, <3>4, WriteConfirmed DEF IsWrite
      <4> QED BY <3>4, <4>1 DEF Target, Written
    <3>5. CASE op[t].kind = "sdo_write_array"
      <4>1. step[t] > ArrayLen /\ step[t] \in Nat
        BY <1>1, <3>1, <3>2, <3>5 DEF DataInv, TypeOK
      <4>2. \A i \in 1..ArrayLen : i < step[t]
        BY <4>1, Sizes
      <4> QED BY <3>3, <3>5, <4>2 DEF WrittenInv
    <3> QED BY <3>4, <3>5
  <2>3. ASSUME NEW u \in Tasks, Fetch(u), ~Returns(u) PROVE FALSE
    <3>1. Continues(u) \/ Waits(u) \/ Panic(u)
      BY <1>1, <2>3, FetchOutcome
    <3> QED BY <2>0, <3>1 DEF Continues, Exchange, Waits, AwaitNext, Panic
  <2>4. ASSUME NEW u \in Tasks, Call(u) PROVE FALSE
    <3>1. Begins(u) \/ Declines(u)
      BY <1>1, <2>4, CallOutcome
    <3> QED BY <2>0, <3>1 DEF Begins, Exchange, Declines
  <2>5. ASSUME NEW u \in Tasks,
               TimesOut(u) \/ BusFails(u)
        PROVE  FALSE
    BY <2>1, <2>5, FailSteps
  <2>6. ASSUME NEW u \in Tasks,
               \/ CheckOut(u) \/ ClearOut(u) \/ CheckIn(u) \/ AwaitOut(u)
               \/ WriteIn(u)
        PROVE  FALSE
    BY <2>0, <2>6 DEF CheckOut, ClearOut, CheckIn, AwaitOut, WriteIn
  <2>7. ASSUME DevTake \/ DevAnswer \/ DevEmergency PROVE FALSE
    BY <2>0, <2>7 DEF DevTake, DevAnswer, DevEmergency
  <2>8. ASSUME NEW u \in Tasks, TaskStep(u)
        PROVE  Fetch(u)
    BY <2>4, <2>5, <2>6, <2>8 DEF TaskStep
  <2> QED BY <1>1, <2>2, <2>3, <2>7, <2>8 DEF Next
<1>2. ASSUME DataInv, QuietAll, SerialInv, [Next]_vars
      PROVE  [\A t \in Tasks : Done(t)]_vars
  BY <1>1, <1>2
<1> QED BY <1>2, SerialInvariant, PTL DEF Spec, Acknowledged

-----------------------------------------------------------------------------
\* CounterInv is inductive.

\* A difference of two multiples of m is none of 1..m-1.
LEMMA NoSmallMultiple ==
  ASSUME NEW m \in Nat \ {0}, NEW p \in Nat, NEW q \in Nat
  PROVE  p * m - q * m \notin 1..(m - 1)
<1>1. CASE p <= q
  <2>1. p * m <= q * m
    BY <1>1
  <2>2. p * m \in Nat /\ q * m \in Nat
    OBVIOUS
  <2> QED BY <2>1, <2>2
<1>2. CASE p >= q + 1
  <2>1. p * m >= (q + 1) * m
    BY <1>2
  <2>2. (q + 1) * m = q * m + m
    OBVIOUS
  <2>3. p * m \in Nat /\ q * m \in Nat
    OBVIOUS
  <2> QED BY <2>1, <2>2, <2>3
<1> QED BY <1>1, <1>2

\* Requests with one counter are a multiple of CounterMax apart.
LEMMA CountedApart ==
  ASSUME NEW s1 \in Nat, NEW s2 \in Nat, NEW c \in Nat,
         Counted(s1, c), Counted(s2, c)
  PROVE  s1 - s2 \notin 1..(CounterMax - 1)
<1>1. PICK p \in Nat : s1 = p * CounterMax + c
  BY DEF Counted
<1>2. PICK q \in Nat : s2 = q * CounterMax + c
  BY DEF Counted
<1>3. p * CounterMax \in Nat /\ q * CounterMax \in Nat
  BY Sizes
<1>4. s1 - s2 = p * CounterMax - q * CounterMax
  BY <1>1, <1>2, <1>3
<1> QED BY <1>4, Sizes, NoSmallMultiple

\* The counter after the last one begins again with the next request.
LEMMA CountedNext ==
  ASSUME NEW s \in Nat, NEW c \in 1..CounterMax, Counted(s, c)
  PROVE  Counted(s + 1, NextCounter(c))
<1>1. PICK q \in Nat : s = q * CounterMax + c
  BY DEF Counted
<1>2. q * CounterMax \in Nat
  BY Sizes
<1>3. CASE c >= CounterMax
  <2>1. (q + 1) * CounterMax = q * CounterMax + CounterMax
    BY Sizes
  <2>2. s + 1 = (q + 1) * CounterMax + 1 /\ NextCounter(c) = 1
    BY <1>1, <1>2, <1>3, <2>1, Sizes DEF NextCounter
  <2> QED BY <2>2 DEF Counted
<1>4. CASE ~(c >= CounterMax)
  <2>1. s + 1 = q * CounterMax + (c + 1) /\ NextCounter(c) = c + 1
    BY <1>1, <1>2, <1>4, Sizes DEF NextCounter
  <2> QED BY <2>1 DEF Counted
<1> QED BY <1>3, <1>4

\* IN receives the requests of tasks in an exchange only.
Labelled == \E t \in Tasks : Exchanging(t) /\ lastReq' = Label(req[t])

LEMMA LastRequest ==
  ASSUME [Next]_vars
  PROVE  lastReq' = lastReq \/ Labelled
<1>1. ASSUME NEW t \in Tasks, WriteIn(t)
      PROVE  lastReq' = lastReq \/ Labelled
  BY <1>1 DEF WriteIn, Labelled, Exchanging
<1>2. ASSUME NEW t \in Tasks, BusFails(t)
      PROVE  lastReq' = lastReq \/ Labelled
  BY <1>2 DEF BusFails, Labelled, Exchanging
<1>3. ASSUME NEW t \in Tasks,
             \/ Call(t) \/ CheckOut(t) \/ ClearOut(t) \/ CheckIn(t)
             \/ AwaitOut(t) \/ Fetch(t) \/ TimesOut(t)
      PROVE  lastReq' = lastReq
  BY <1>3 DEF Call, CheckOut, ClearOut, CheckIn, AwaitOut, Fetch, TimesOut, histVars
<1>4. ASSUME NEW t \in Tasks, TaskStep(t)
      PROVE  lastReq' = lastReq \/ Labelled
  BY <1>1, <1>2, <1>3, <1>4 DEF TaskStep
<1>5. ASSUME DevTake \/ DevAnswer \/ DevEmergency PROVE lastReq' = lastReq
  BY <1>5 DEF DevTake, DevAnswer, DevEmergency, histVars
<1>6. ASSUME UNCHANGED vars PROVE lastReq' = lastReq
  BY <1>6 DEF vars, histVars
<1> QED BY <1>4, <1>5, <1>6 DEF Next

GoodLabel(r) == r.counter \in 1..CounterMax /\ Counted(r.seq, r.counter)

LEMMA CounterExchange ==
  ASSUME NEW t \in Tasks, DataInv, CounterInv,
         NEW o, NEW s, NEW cmd, NEW tog, NEW b, Exchange(t, o, s, cmd, tog, b)
  PROVE  /\ Counted(taken' + 1, mailbox_counter')
         /\ \A u \in Tasks : Exchanging(u)' => GoodLabel(req'[u])
<1>1. /\ taken \in Nat /\ mailbox_counter \in 1..CounterMax
      /\ Counted(taken + 1, mailbox_counter)
      /\ \A u \in Tasks : Exchanging(u) => GoodLabel(req[u])
  BY DEF DataInv, TypeOK, CounterInv, GoodLabel
<1>2. Counted((taken + 1) + 1, NextCounter(mailbox_counter))
  BY <1>1, CountedNext
<1>3. /\ req'[t].counter = mailbox_counter /\ req'[t].seq = taken + 1
      /\ \A u \in Tasks \ {t} : req'[u] = req[u] /\ pc'[u] = pc[u]
      /\ taken' = taken + 1 /\ mailbox_counter' = NextCounter(mailbox_counter)
  BY DEF Exchange, Request, DataInv, TypeOK, FunctionsInv
<1>4. GoodLabel(req'[t])
  BY <1>1, <1>3 DEF GoodLabel
<1>5. ASSUME NEW u \in Tasks \ {t}, Exchanging(u)' PROVE GoodLabel(req'[u])
  BY <1>1, <1>3, <1>5 DEF Exchanging
<1> QED BY <1>2, <1>3, <1>4, <1>5

\* No step but a call or an answer hands out counters, and only a request
\* that begins gives a task a new label.
LEMMA CounterStep ==
  ASSUME DataInv, CounterInv, [Next]_vars
  PROVE  CounterInv'
<1> DEFINE Kept == /\ Counted(taken' + 1, mailbox_counter')
                   /\ \A u \in Tasks : Exchanging(u)' => GoodLabel(req'[u])
<1>1. /\ taken \in Nat /\ mailbox_counter \in 1..CounterMax
      /\ Counted(taken + 1, mailbox_counter)
      /\ \A u \in Tasks : Exchanging(u) => GoodLabel(req[u]) /\ req[u].seq \in Nat
  BY DEF DataInv, TypeOK, CounterInv, GoodLabel
<1>2. ASSUME taken' = taken, mailbox_counter' = mailbox_counter,
             \A u \in Tasks : Exchanging(u)' => Exchanging(u) /\ req'[u] = req[u]
      PROVE  Kept
  BY <1>1, <1>2
<1>3. ASSUME NEW t \in Tasks, Ends(t) PROVE Kept
  <2>1. /\ taken' = taken /\ mailbox_counter' = mailbox_counter
        /\ pc'[t] \notin {"clear", "clearing", "ready", "write", "wait", "fetch"}
        /\ \A u \in Tasks \ {t} : req'[u] = req[u] /\ pc'[u] = pc[u]
    BY <1>3 DEF Ends, DropLocals, DataInv, TypeOK, FunctionsInv
  <2> QED BY <1>2, <2>1 DEF Exchanging
<1>4. ASSUME NEW t \in Tasks, NEW p, Moves(t, p) PROVE Kept
  <2>1. /\ taken' = taken /\ mailbox_counter' = mailbox_counter /\ req' = req
        /\ Exchanging(t) /\ \A u \in Tasks \ {t} : pc'[u] = pc[u]
    BY <1>4 DEF Moves, DataInv, TypeOK
  <2> QED BY <1>2, <2>1 DEF Exchanging
<1>5. ASSUME NEW t \in Tasks, Call(t) PROVE Kept
  <2>1. CASE Begins(t)
    BY <2>1, CounterExchange DEF Begins
  <2>2. CASE Declines(t)
    <3>1. Counted((taken + 1) + 1, NextCounter(mailbox_counter))
      BY <1>1, CountedNext
    <3>2. /\ taken' = taken + 1 /\ mailbox_counter' = NextCounter(mailbox_counter)
          /\ req' = req /\ pc' = pc
      BY <2>2 DEF Declines, callVars
    <3> QED BY <1>1, <3>1, <3>2 DEF Exchanging
  <2> QED BY <1>5, <2>1, <2>2, CallOutcome
<1>6. ASSUME NEW t \in Tasks, Fetch(t) PROVE Kept
  <2>1. CASE Returns(t) \/ Panic(t)
    BY <1>3, <2>1, ReturnEnds DEF Returns, Panic, Ends
  <2>2. CASE Continues(t)
    BY <2>2, CounterExchange DEF Continues
  <2>3. CASE Waits(t)
    <3>1. Moves(t, "wait")
      BY <1>6, <2>3 DEF Waits, Fetch, AwaitNext, Moves, Exchanging, DataInv, TypeOK
    <3> QED BY <1>4, <3>1
  <2> QED BY <1>6, <2>1, <2>2, <2>3, FetchOutcome
<1>7. ASSUME NEW t \in Tasks, TaskStep(t) PROVE Kept
  <2>1. CASE TimesOut(t) \/ BusFails(t)
    BY <1>3, <2>1, FailSteps, ReturnEnds DEF Fail
  <2>2. CASE \/ CheckOut(t) \/ ClearOut(t) \/ CheckIn(t) \/ AwaitOut(t)
             \/ WriteIn(t)
    BY <1>4, <2>2, MoveSteps
  <2> QED BY <1>5, <1>6, <1>7, <2>1, <2>2 DEF TaskStep
<1>8. ASSUME DevTake \/ DevAnswer \/ DevEmergency \/ UNCHANGED vars
      PROVE  Kept
  <2>1. UNCHANGED <<taken, mailbox_counter, req, pc>>
    BY <1>8 DEF DevTake, DevAnswer, DevEmergency, vars, callVars, histVars
  <2> QED BY <1>2, <2>1 DEF Exchanging
<1>9. Kept
  BY <1>7, <1>8 DEF Next
<1>10. /\ lastReq'.counter \in 0..CounterMax /\ lastReq'.seq \in Nat
       /\ Counted(lastReq'.seq, lastReq'.counter)
  <2>1. CASE lastReq' = lastReq
    BY <2>1 DEF CounterInv
  <2>2. CASE Labelled
    BY <1>1, <2>2, Sizes DEF Labelled, Label, GoodLabel
  <2> QED BY <2>1, <2>2, LastRequest
<1> HIDE DEF Kept
<1> QED BY <1>9, <1>10 DEF CounterInv, GoodLabel, Kept

LEMMA CounterInit == Init => CounterInv
<1> SUFFICES ASSUME Init PROVE CounterInv
  OBVIOUS
<1>1. /\ taken = 0 /\ mailbox_counter = 1 /\ lastReq.counter = 0 /\ lastReq.seq = 0
      /\ \A t \in Tasks : ~Exchanging(t)
  BY DEF Init, Label, NoRequest, Exchanging
<1>2. 1 = 0 * CounterMax + 1 /\ 0 = 0 * CounterMax + 0
  BY Sizes
<1>3. Counted(1, 1) /\ Counted(0, 0)
  BY <1>2 DEF Counted
<1> QED BY <1>1, <1>3, Sizes DEF CounterInv

\* CounterSeparates: two requests that follow each other into IN differ in
\* their counters, unless CounterMax or more counters lie between them.
THEOREM CountersSeparate == Spec => CounterSeparates
<1>1. ASSUME DataInv, CounterInv, [Next]_vars,
             lastReq' # lastReq, lastReq'.counter = lastReq.counter
      PROVE  lastReq'.seq - lastReq.seq \notin 1..(CounterMax - 1)
  <2>1. PICK t \in Tasks : Exchanging(t) /\ lastReq' = Label(req[t])
    BY <1>1, LastRequest DEF Labelled
  <2>2. /\ lastReq'.seq \in Nat /\ lastReq'.counter \in Nat
        /\ Counted(lastReq'.seq, lastReq'.counter)
    BY <1>1, <2>1, Sizes DEF Label, CounterInv, DataInv, TypeOK
  <2>3. lastReq.seq \in Nat /\ Counted(lastReq.seq, lastReq.counter)
    BY <1>1 DEF CounterInv
  <2> QED BY <1>1, <2>2, <2>3, CountedApart
<1>2. ASSUME DataInv, CounterInv, [Next]_vars
      PROVE  [lastReq' # lastReq /\ lastReq'.counter = lastReq.counter
                => lastReq'.seq - lastReq.seq \notin 1..(CounterMax - 1)]_vars
  BY <1>1, <1>2
<1> QED BY <1>2, CounterInit, CounterStep, DataInvariant, PTL
        DEF Spec, CounterSeparates
=============================================================================
