------------------------------ MODULE Mailbox ------------------------------
(***************************************************************************)
(* CoE over the mailboxes of one SubDevice: SDO reads and writes, expedited, *)
(* normal and segmented, arrays of sub-indices and the SDO information     *)
(* service.  Tasks of the application share the two mailboxes, IN for      *)
(* requests and OUT for responses, and the counter of the SubDevice.       *)
(*                                                                         *)
(* Every access to the bus (a status, a mailbox) is a step of its own, as  *)
(* the code awaits each; what follows an answer up to the next access is   *)
(* part of the step that received it.  The SubDevice executes a request    *)
(* when it takes it from IN and answers when OUT is free, as late as it    *)
(* likes.                                                                  *)
(*                                                                         *)
(* A byte of an object is <<object, value, position>>; the value of an     *)
(* entry is the sequence number of the request that wrote it, the value of *)
(* sub-index 0 of an array its length.                                     *)
(***************************************************************************)
EXTENDS Integers, Sequences, FiniteSets

CONSTANTS
  Tasks,        \* tasks of the application
  CounterMax,   \* 7: the counter runs from 1 to CounterMax
  ClearTries,   \* 10: attempts to empty OUT before a request
  ArrayLen,     \* entries of the array object
  MaxEntries,   \* capacity sdo_read_array is called with
  ValueLen,     \* bytes of the objects that are not expedited
  SegLen,       \* bytes of a segment, at least 7 but in the last
  InfoParts,    \* entries of the object list in each of its fragments
  Calls,        \* [task -> the calls it makes, <<function, object>>]
  Faults,       \* faults that may happen
  MaxOps,       \* bound: calls of all tasks
  MaxEmergencies \* bound: emergencies the SubDevice sends

ASSUME SizesAssumption ==
  /\ CounterMax \in Nat \ {0} /\ ClearTries \in Nat \ {0}
  /\ ArrayLen \in Nat \ {0} /\ MaxEntries \in Nat
  /\ SegLen \in Nat /\ SegLen >= 7 /\ ValueLen \in Nat /\ SegLen < ValueLen
  /\ InfoParts \in Seq(Nat \ {0}) /\ InfoParts # <<>>
Entries == {"array"} \X (0..ArrayLen)
Single == <<"single", 0>>   \* one byte, uploaded expedited
Normal == <<"normal", 0>>   \* uploaded in one response
Long   == <<"long", 0>>     \* uploaded in segments
Objects == Entries \cup {Single, Normal, Long}
NoObject == <<"none", 0>>

\* Arrays and the object list are taken whole.
AllCalls ==
  ({"sdo_write", "sdo_read", "sdo_read_expedited"} \X {Single, Normal, Long})
    \cup ({"sdo_write_array", "sdo_read_array", "sdo_info"} \X {NoObject})

ASSUME OptionsAssumption ==
  /\ Calls \in [Tasks -> SUBSET AllCalls] /\ MaxOps \in Nat
  /\ Faults \subseteq {"timeout", "bus", "abort"} /\ MaxEmergencies \in Nat

VARIABLES
  has_mailbox,   \* the SubDevice has a read and a write mailbox
  mb_in,         \* the request in the IN mailbox
  mb_out,        \* the response in the OUT mailbox
  pending,       \* responses the SubDevice has yet to put into OUT
  upload,        \* its segmented upload: [obj, value, next byte]
  od,            \* its object dictionary, [object -> value]
  mailbox_counter,
  pc, op,        \* [task -> where it is, in which call]
  step,          \* sub-index or segment the call has come to
  req,           \* its request
  tries,         \* attempts to empty OUT
  buf, toggle,   \* bytes, entries read so far; the toggle bit
  result,        \* what the last call returned
  ops,           \* calls so far
  emergencies,   \* emergencies so far
  taken,         \* history: counters handed out
  lastReq,       \* history: the last request written into IN
  quiet,         \* history: [task -> nobody else used the mailboxes since
                 \* its request began and the SubDevice was idle then]
  serial         \* history: every request so far was quiet

devVars  == <<has_mailbox, mb_in, mb_out, pending, upload, od>>
callVars == <<op, step, req, buf, toggle>>
histVars == <<emergencies, taken, lastReq, quiet, serial>>
vars == <<devVars, mailbox_counter, pc, callVars, tries, result, ops, histVars>>

Empty == [cmd |-> "Empty"]

NoCall == [kind |-> "none", obj |-> NoObject, id |-> 0, len |-> 0]
NoResult == [kind |-> "none", obj |-> NoObject, ok |-> FALSE, value |-> <<>>]
NoRequest == [cmd |-> "None", obj |-> NoObject, value |-> 0, toggle |-> FALSE,
              counter |-> 0, seq |-> 0]

Length(o) == IF o \in Entries \cup {Single} THEN 1 ELSE ValueLen
Byte(o, v, k) == <<o, v, k>>
Bytes(o, v, first, last) == [k \in 1..(last - first + 1) |->
                               Byte(o, v, first + k - 1)]

\* What lies in the mailbox behind the message, or fills it up.
Garbage == Byte(NoObject, 0, 0)

AtLeast(n, m) == IF n < m THEN m ELSE n

\* slice.get(0..n): trim_front moves the start of a ReceivedPdu but not its
\* length, so that the slice goes on behind the message.
Take(data, n) == [k \in 1..n |-> IF k <= Len(data) THEN data[k] ELSE Garbage]

-----------------------------------------------------------------------------
\* The messages.  bit0 and bits1 are bit 0 and bits 1 to 3 of the byte that
\* an SdoHeader reads as size_indicator, expedited_transfer and size, and an
\* SdoHeaderSegmented as is_last_segment and segment_data_size.  data is what
\* comes behind the twelve bytes of the headers, where every response is cut.

Request(cmd, o, v, tog) ==
  [cmd |-> cmd, obj |-> o, value |-> v, toggle |-> tog,
   counter |-> mailbox_counter, seq |-> taken + 1]

Label(r) == [counter |-> r.counter, seq |-> r.seq]

Response(cmd, r, bit0, bits1, length, data) ==
  [cmd |-> cmd, obj |-> r.obj, bit0 |-> bit0, bits1 |-> bits1,
   length |-> length, data |-> data, seq |-> r.seq]

Abort(r) == Response("Abort", r, FALSE, 0, 10, <<>>)
Emergency == [cmd |-> "Emergency", obj |-> NoObject, bit0 |-> FALSE,
              bits1 |-> 0, length |-> 10, data |-> <<>>, seq |-> 0]

InfoError(r) ==
  Response("InfoError", [r EXCEPT !.obj = NoObject], FALSE, 0, 10, <<>>)

DownloadResponse(r) == Response("Download", r, FALSE, 0, 10, <<0>>)

UploadResponse(r) ==
  LET o == r.obj IN
  CASE Length(o) = 1 ->
         Response("Upload", r, TRUE, 1 + 2 * 3, 10, Bytes(o, od[o], 1, 1))
    [] o = Normal ->
         Response("Upload", r, TRUE, 0, 10 + ValueLen,
                  <<ValueLen>> \o Bytes(o, od[o], 1, ValueLen))
    [] OTHER -> Response("Upload", r, TRUE, 0, 10, <<ValueLen>>)

\* A segment has headers of 9 bytes only, so that the cut takes three bytes of
\* its data, and at least 7 bytes of data.  Where the other responses have
\* their object there is data.  By the standard its command is 0, for which
\* CoeCommand has no variant.
SegmentResponse(r, cmd) ==
  LET last == IF upload.next + SegLen > ValueLen THEN ValueLen
              ELSE upload.next + SegLen - 1
      len == last - upload.next + 1
  IN Response(cmd, [r EXCEPT !.obj = NoObject], last = ValueLen,
              IF len < 7 THEN 7 - len ELSE 0, 3 + AtLeast(len, 7),
              Bytes(upload.obj, upload.value, upload.next + 3, last))

\* The list type comes with the first fragment only.  length counts entries
\* of two bytes, the headers as three.
InfoResponse(r, k) ==
  LET entries == InfoParts[k] IN
  Response("Info", [r EXCEPT !.obj = NoObject], k < Len(InfoParts), 0,
           3 + entries + (IF k = 1 THEN 1 ELSE 0),
           (IF k = 1 THEN <<"list_type">> ELSE <<>>)
             \o [e \in 1..entries |-> <<k, e>>])

-----------------------------------------------------------------------------
\* The SubDevice.

Idle == mb_in = Empty /\ pending = <<>>

NoUpload == [obj |-> NoObject, value |-> 0, next |-> 0, toggle |-> FALSE]

DevDownload ==
  /\ mb_in.cmd = "Download"
  /\ od' = [od EXCEPT ![mb_in.obj] = mb_in.value]
  /\ pending' = Append(pending, DownloadResponse(mb_in))
  /\ UNCHANGED upload

DevUpload ==
  /\ mb_in.cmd = "Upload"
  /\ pending' = Append(pending, UploadResponse(mb_in))
  /\ upload' = IF mb_in.obj = Long
               THEN [obj |-> mb_in.obj, value |-> od[mb_in.obj], next |-> 1,
                     toggle |-> FALSE]
               ELSE NoUpload
  /\ UNCHANGED od

\* Without an upload, or with the wrong toggle bit, a segment is refused.
DevSegment ==
  /\ mb_in.cmd = "UploadSegment"
  /\ IF upload.obj # NoObject /\ upload.toggle = mb_in.toggle
     THEN /\ \E cmd \in {"UploadSegment", "Reserved"} :
               pending' = Append(pending, SegmentResponse(mb_in, cmd))
          /\ upload' = IF upload.next + SegLen > ValueLen THEN NoUpload
                       ELSE [upload EXCEPT !.next = @ + SegLen,
                                           !.toggle = ~@]
     ELSE pending' = Append(pending, Abort(mb_in)) /\ upload' = NoUpload
  /\ UNCHANGED od

DevInfo ==
  /\ mb_in.cmd = "Info"
  /\ pending' = pending \o [k \in 1..Len(InfoParts) |-> InfoResponse(mb_in, k)]
  /\ UNCHANGED <<od, upload>>

DevRefuse ==
  /\ "abort" \in Faults
  /\ pending' = Append(pending, IF mb_in.cmd = "Info" THEN InfoError(mb_in)
                                ELSE Abort(mb_in))
  /\ upload' = NoUpload
  /\ UNCHANGED od

DevTake ==
  /\ mb_in # Empty
  /\ DevDownload \/ DevUpload \/ DevSegment \/ DevInfo \/ DevRefuse
  /\ mb_in' = Empty
  /\ UNCHANGED <<has_mailbox, mb_out, mailbox_counter, pc, callVars, tries, result, ops,
                 histVars>>

DevAnswer ==
  /\ mb_out = Empty /\ pending # <<>>
  /\ mb_out' = Head(pending)
  /\ pending' = Tail(pending)
  /\ UNCHANGED <<has_mailbox, mb_in, upload, od, mailbox_counter, pc, callVars, tries,
                 result, ops, histVars>>

DevEmergency ==
  /\ emergencies < MaxEmergencies
  /\ mb_out = Empty
  /\ mb_out' = Emergency
  /\ emergencies' = emergencies + 1
  /\ UNCHANGED <<has_mailbox, mb_in, pending, upload, od, mailbox_counter, pc, callVars,
                 tries, result, ops, taken, lastReq, quiet, serial>>

-----------------------------------------------------------------------------
\* The MainDevice.

Exchanging(t) ==
  pc[t] \in {"clear", "clearing", "ready", "write", "wait", "fetch"}

Alone(t) == Idle /\ \A u \in Tasks \ {t} : ~Exchanging(u)

\* Mutant: the last counter is left out.
NextCounterShort(n) == IF n >= CounterMax - 1 THEN 1 ELSE n + 1
NextCounter(n) == IF n >= CounterMax THEN 1 ELSE n + 1

\* The object and the value of a call's request at step s.
Target(o, s) ==
  CASE o.kind = "sdo_write_array" -> <<"array", IF s > ArrayLen THEN 0 ELSE s>>
    [] o.kind = "sdo_read_array" -> <<"array", s>>
    [] OTHER -> o.obj

\* Mutant: the length is not cleared before the entries are written.
WrittenUncleared(o, s) ==
  IF o.kind = "sdo_write_array" /\ s \in {0, ArrayLen + 1} THEN ArrayLen
  ELSE o.id
Written(o, s) ==
  CASE o.kind = "sdo_write_array" /\ s = 0 -> 0
    [] o.kind = "sdo_write_array" /\ s > ArrayLen -> ArrayLen
    [] OTHER -> o.id

\* Take a counter, build a request and begin mailbox_write_read.
Exchange(t, o, s, cmd, tog, b) ==
  /\ op' = [op EXCEPT ![t] = o]
  /\ step' = [step EXCEPT ![t] = s]
  /\ toggle' = [toggle EXCEPT ![t] = tog]
  /\ buf' = [buf EXCEPT ![t] = b]
  /\ req' = [req EXCEPT ![t] = Request(cmd, Target(o, s), Written(o, s), tog)]
  /\ mailbox_counter' = NextCounter(mailbox_counter)
  /\ taken' = taken + 1
  /\ tries' = [tries EXCEPT ![t] = 0]
  /\ pc' = [pc EXCEPT ![t] = "clear"]
  /\ quiet' = [u \in Tasks |-> IF u = t THEN Alone(t)
                                ELSE quiet[u] /\ ~Exchanging(u)]
  /\ serial' = (serial /\ Alone(t))
  /\ UNCHANGED result

DropLocals(t) ==
  /\ op' = [op EXCEPT ![t] = NoCall] /\ step' = [step EXCEPT ![t] = 0]
  /\ req' = [req EXCEPT ![t] = NoRequest] /\ tries' = [tries EXCEPT ![t] = 0]
  /\ buf' = [buf EXCEPT ![t] = <<>>] /\ toggle' = [toggle EXCEPT ![t] = FALSE]
  /\ quiet' = [quiet EXCEPT ![t] = FALSE]

Return(t, ok, value) ==
  /\ pc' = [pc EXCEPT ![t] = "idle"]
  /\ result' = [kind |-> op[t].kind, obj |-> op[t].obj, ok |-> ok,
                value |-> value]
  /\ DropLocals(t)
  /\ UNCHANGED <<mailbox_counter, taken, serial>>
Fail(t) == Return(t, FALSE, <<>>)

Command(kind) ==
  CASE kind \in {"sdo_write", "sdo_write_array"} -> "Download"
    [] kind = "sdo_info" -> "Info"
    [] OTHER -> "Upload"

\* The counter is taken even when nothing is sent: a value of more than four
\* bytes cannot be written, and without mailboxes the call fails, but for the
\* information service, which has nothing to list then.
Call(t) ==
  /\ pc[t] = "idle" /\ ops < MaxOps
  /\ ops' = ops + 1
  /\ \E c \in Calls[t] : LET kind == c[1]  o == c[2] IN
       IF has_mailbox /\ ~(kind = "sdo_write" /\ Length(o) > 4)
       THEN Exchange(t, [kind |-> kind, obj |-> o, id |-> taken + 1, len |-> 0],
                     0, Command(kind), FALSE, <<>>)
       ELSE /\ mailbox_counter' = NextCounter(mailbox_counter)
            /\ taken' = taken + 1
            /\ result' = [kind |-> kind, obj |-> o, ok |-> kind = "sdo_info",
                          value |-> <<>>]
            /\ UNCHANGED <<pc, callVars, tries, quiet, serial>>
  /\ UNCHANGED <<devVars, lastReq, emergencies>>

\* wait_for_mailboxes: up to ClearTries times the status of OUT is read, and
\* OUT itself if it is full.  Then wait for IN.
\*
\* Mutant: OUT is not emptied.
CheckOutOnly(t) ==
  /\ pc[t] = "clear"
  /\ pc' = [pc EXCEPT ![t] = "ready"]
  /\ UNCHANGED <<devVars, mailbox_counter, callVars, tries, result, ops,
                 histVars>>

CheckOut(t) ==
  /\ pc[t] = "clear"
  /\ pc' = [pc EXCEPT ![t] = IF mb_out # Empty THEN "clearing" ELSE "ready"]
  /\ UNCHANGED <<devVars, mailbox_counter, callVars, tries, result, ops,
                 histVars>>

ClearOut(t) ==
  /\ pc[t] = "clearing"
  /\ mb_out' = Empty
  /\ tries' = [tries EXCEPT ![t] = @ + 1]
  /\ pc' = [pc EXCEPT ![t] =
              IF tries[t] + 1 < ClearTries THEN "clear" ELSE "ready"]
  /\ UNCHANGED <<has_mailbox, mb_in, pending, upload, od, mailbox_counter,
                 callVars, result, ops, histVars>>

CheckIn(t) ==
  /\ pc[t] = "ready" /\ mb_in = Empty
  /\ pc' = [pc EXCEPT ![t] = "write"]
  /\ UNCHANGED <<devVars, mailbox_counter, callVars, tries, result, ops,
                 histVars>>

\* A full IN mailbox takes nothing, which nobody notices: send does not look at
\* the working counter.
WriteIn(t) ==
  /\ pc[t] = "write"
  /\ IF mb_in = Empty THEN mb_in' = req[t] /\ lastReq' = Label(req[t])
     ELSE UNCHANGED <<mb_in, lastReq>>
  /\ pc' = [pc EXCEPT ![t] = "wait"]
  /\ UNCHANGED <<has_mailbox, mb_out, pending, upload, od, mailbox_counter, callVars,
                 tries, result, ops, emergencies, taken, quiet, serial>>

AwaitOut(t) ==
  /\ pc[t] = "wait" /\ mb_out # Empty
  /\ pc' = [pc EXCEPT ![t] = "fetch"]
  /\ UNCHANGED <<devVars, mailbox_counter, callVars, tries, result, ops,
                 histVars>>

\* The mailbox timeouts of the two waits.
\*
\* Mutant: the wait for the response has no timeout.
TimesOutReady(t) ==
  /\ "timeout" \in Faults
  /\ pc[t] = "ready"
  /\ Fail(t)
  /\ UNCHANGED <<devVars, ops, lastReq, emergencies>>

TimesOut(t) ==
  /\ "timeout" \in Faults
  /\ pc[t] \in {"ready", "wait"}
  /\ Fail(t)
  /\ UNCHANGED <<devVars, ops, lastReq, emergencies>>

\* A command fails or its answer is lost, with or without its effect.
BusFails(t) ==
  /\ "bus" \in Faults
  /\ \/ Exchanging(t) /\ UNCHANGED <<mb_in, mb_out, lastReq>>
     \/ /\ pc[t] = "write" /\ mb_in = Empty
        /\ mb_in' = req[t] /\ lastReq' = Label(req[t])
        /\ UNCHANGED mb_out
     \/ /\ pc[t] \in {"clearing", "fetch"} /\ mb_out # Empty
        /\ mb_out' = Empty
        /\ UNCHANGED <<mb_in, lastReq>>
  /\ Fail(t)
  /\ UNCHANGED <<has_mailbox, pending, upload, od, ops, emergencies>>

-----------------------------------------------------------------------------
\* What a call does with a response.

\* Mutant: any response will do.
ValidateResponseAny(q, r) == q.seq \in Nat
ValidateResponse(q, r) == q.cmd = "UploadSegment" \/ r.obj = q.obj

Expedited(r) == r.bits1 % 2 = 1

\* Go on with the next sub-index of the array, the first one after the last.
NextWrite(t) ==
  IF step[t] > ArrayLen THEN Return(t, TRUE, <<>>)
  ELSE Exchange(t, op[t], step[t] + 1, "Download", FALSE, <<>>)

NextRead(t, byte) ==
  LET o == IF step[t] = 0 THEN [op[t] EXCEPT !.len = byte[2]] ELSE op[t]
      values == IF step[t] = 0 THEN <<>> ELSE Append(buf[t], byte)
  IN IF o.len > MaxEntries THEN Fail(t)
     ELSE IF step[t] = o.len THEN Return(t, TRUE, values)
     ELSE Exchange(t, o, step[t] + 1, "Upload", FALSE, values)

\* Unpack the payload: bytes beyond the value are ignored.
Unpack(t, payload) ==
  IF Len(payload) < Length(req[t].obj) THEN Fail(t)
  ELSE IF op[t].kind = "sdo_read_array" THEN NextRead(t, payload[1])
  ELSE Return(t, TRUE, SubSeq(payload, 1, Length(req[t].obj)))

NextSegment(t, tog, bytes) ==
  Exchange(t, op[t], step[t] + 1, "UploadSegment", tog, bytes)

\* The first response to an sdo_read: expedited, normal or segmented.
Uploaded(t, r) ==
  IF Expedited(r) THEN Unpack(t, Take(r.data, 4 - r.bits1 \div 2))
  ELSE IF r.data[1] > Length(req[t].obj) THEN Fail(t)
  ELSE IF r.data[1] <= r.length - 10 THEN Unpack(t, Take(Tail(r.data), r.length - 10))
  ELSE NextSegment(t, FALSE, <<>>)

UploadedSegment(t, r) ==
  LET full == r.length - 3
      bytes == buf[t] \o Take(r.data, IF full = 7 THEN 7 - r.bits1 ELSE full)
  IN IF Len(bytes) > Length(req[t].obj) THEN Fail(t)
     ELSE IF r.bit0 THEN Unpack(t, bytes)
     ELSE NextSegment(t, ~toggle[t], bytes)

Respond(t, r) ==
  CASE op[t].kind = "sdo_write" -> Return(t, TRUE, <<>>)
    [] op[t].kind = "sdo_write_array" -> NextWrite(t)
    [] op[t].kind = "sdo_read_expedited" ->
         IF Expedited(r) THEN Unpack(t, Take(r.data, 4 - r.bits1 \div 2))
         ELSE Fail(t)
    [] OTHER -> IF req[t].cmd = "UploadSegment" THEN UploadedSegment(t, r)
                ELSE Uploaded(t, r)

\* assert_ne! on the service of the response.
Panic(t) ==
  /\ pc' = [pc EXCEPT ![t] = "panicked"]
  /\ DropLocals(t)
  /\ UNCHANGED <<mailbox_counter, result, taken, serial>>

\* The end of mailbox_write_read and what its caller does.  Read as an SDO
\* response, a fragment of the information service is an abort or has a
\* command that does not exist.
\*
\* Mutant: an abort is taken for the response to a write.
FetchSdoAborted(t, r) ==
  CASE r.cmd = "Emergency" -> Panic(t)
    [] r.cmd = "Abort" -> IF req[t].cmd = "Download" THEN Respond(t, r) ELSE Fail(t)
    [] r.cmd \in {"Reserved", "Info", "InfoError"} -> Fail(t)
    [] OTHER -> IF ValidateResponse(req[t], r) THEN Respond(t, r) ELSE Fail(t)

FetchSdo(t, r) ==
  CASE r.cmd = "Emergency" -> Panic(t)
    [] r.cmd \in {"Abort", "Reserved", "Info", "InfoError"} -> Fail(t)
    [] OTHER -> IF ValidateResponse(req[t], r) THEN Respond(t, r) ELSE Fail(t)

AwaitNext(t, s, bytes) ==
  /\ pc' = [pc EXCEPT ![t] = "wait"]
  /\ step' = [step EXCEPT ![t] = s]
  /\ buf' = [buf EXCEPT ![t] = bytes]
  /\ UNCHANGED <<mailbox_counter, op, req, toggle, tries, result, taken, quiet,
                 serial>>

\* send_sdo_info_service: one request, a response for every fragment.  Other
\* operations of the service are skipped; what an emergency or a segment has
\* in the place of the operation may be one or none.
FetchInfo(t, r) ==
  \/ /\ r.cmd = "Info"
     /\ LET data == IF step[t] = 0 THEN Tail(r.data) ELSE r.data
            list == buf[t] \o Take(data, r.length - 4)
        IN IF r.bit0 THEN AwaitNext(t, 1, list) ELSE Return(t, TRUE, list)
  \/ r.cmd \in {"InfoError", "Emergency", "Reserved"} /\ AwaitNext(t, step[t], buf[t])
  \/ r.cmd \notin {"Info", "InfoError"} /\ Fail(t)

\* Read OUT; the working counter is wrong if somebody else emptied it.
Fetch(t) ==
  /\ pc[t] = "fetch"
  /\ mb_out' = Empty
  /\ IF mb_out = Empty THEN Fail(t)
     ELSE IF op[t].kind = "sdo_info" THEN FetchInfo(t, mb_out)
     ELSE FetchSdo(t, mb_out)
  /\ UNCHANGED <<has_mailbox, mb_in, pending, upload, od, ops, lastReq,
                 emergencies>>

-----------------------------------------------------------------------------
Init ==
  /\ has_mailbox \in BOOLEAN
  /\ mb_in = Empty /\ mb_out = Empty /\ pending = <<>>
  /\ upload = NoUpload
  /\ od = [o \in Objects |-> IF o = <<"array", 0>> THEN ArrayLen ELSE 0]
  /\ mailbox_counter = 1
  /\ pc = [t \in Tasks |-> "idle"]
  /\ op = [t \in Tasks |-> NoCall]
  /\ step = [t \in Tasks |-> 0]
  /\ req = [t \in Tasks |-> NoRequest]
  /\ tries = [t \in Tasks |-> 0]
  /\ buf = [t \in Tasks |-> <<>>]
  /\ toggle = [t \in Tasks |-> FALSE]
  /\ result = NoResult
  /\ ops = 0 /\ emergencies = 0 /\ taken = 0 /\ lastReq = Label(NoRequest)
  /\ quiet = [t \in Tasks |-> FALSE]
  /\ serial = TRUE

TaskStep(t) ==
  \/ Call(t) \/ CheckOut(t) \/ ClearOut(t) \/ CheckIn(t) \/ WriteIn(t)
  \/ AwaitOut(t) \/ Fetch(t) \/ TimesOut(t) \/ BusFails(t)

Next ==
  \/ DevTake \/ DevAnswer \/ DevEmergency
  \/ \E t \in Tasks : TaskStep(t)

Spec == Init /\ [][Next]_vars

\* The executor runs every task that can go on, and the waits are bounded by
\* the timeouts; nothing is asked of the SubDevice.
FairSpec ==
  /\ Spec
  /\ \A t \in Tasks : WF_vars(CheckOut(t) \/ ClearOut(t) \/ CheckIn(t)
                              \/ WriteIn(t) \/ AwaitOut(t) \/ Fetch(t)
                              \/ TimesOut(t))

-----------------------------------------------------------------------------
\* Correctness.

TypeOK ==
  /\ mailbox_counter \in 1..CounterMax
  /\ od \in [Objects -> Nat]
  /\ pc \in [Tasks -> {"idle", "clear", "clearing", "ready", "write", "wait",
                       "fetch", "panicked"}]
  /\ tries \in [Tasks -> Nat]
  /\ step \in [Tasks -> Nat] /\ toggle \in [Tasks -> BOOLEAN]
  /\ quiet \in [Tasks -> BOOLEAN] /\ serial \in BOOLEAN
  /\ taken \in Nat
  /\ \A t \in Tasks : req[t].seq \in 0..taken

\* A response is read from OUT by the request it answers, or it is one a
\* SubDevice sends unasked, as long as no other exchange runs and the one
\* before left no request with the SubDevice.
OwnAnswer ==
  \A t \in Tasks :
    quiet[t] /\ pc[t] = "fetch" /\ mb_out.cmd \notin {"Empty", "Emergency"}
      => mb_out.seq = req[t].seq

\* A read that is not segmented returns bytes of the object it was asked for,
\* whatever is in the mailboxes: of another task, or late after a timeout.
AnswersObject ==
  LET r == result IN
  /\ r.ok /\ r.kind \in {"sdo_read", "sdo_read_expedited"} /\ r.obj # Long
       => \A k \in 1..Len(r.value) : r.value[k][1] = r.obj /\ r.value[k][3] = k
  /\ r.ok /\ r.kind = "sdo_read_array"
       => \A k \in 1..Len(r.value) : r.value[k][1] = <<"array", k>>

\* An sdo_write_array that fails half way, whichever of its requests is
\* refused or lost, leaves no array that announces entries of two writes.
ArrayConsistent ==
  serial /\ od[<<"array", 0>>] > 0 /\ (\A t \in Tasks : ~Exchanging(t))
    => \A i, j \in 1..ArrayLen : od[<<"array", i>>] = od[<<"array", j>>]

\* A write that returns Ok has been carried out, if every request was quiet.
Acknowledged ==
  [][\A t \in Tasks :
       serial /\ Exchanging(t) /\ pc'[t] = "idle" /\ result'.ok =>
         /\ op[t].kind = "sdo_write" => od[op[t].obj] = op[t].id
         /\ op[t].kind = "sdo_write_array" =>
              \A i \in 1..ArrayLen : od[<<"array", i>>] = op[t].id]_vars

\* Two requests that follow each other into IN differ in their counters, by
\* which a SubDevice tells a repetition from a new request, unless CounterMax
\* or more counters lie between them.
CounterSeparates ==
  [][lastReq' # lastReq /\ lastReq'.counter = lastReq.counter
       => lastReq'.seq - lastReq.seq \notin 1..(CounterMax - 1)]_vars

\* Every call returns, with a result or an error, or panics, even if the
\* SubDevice never answers.  (Emergencies are bounded: one after the other
\* without end, each would end a wait of the information service before its
\* timeout.)
EveryTransferEnds ==
  \A t \in Tasks : Exchanging(t) ~> pc[t] \in {"idle", "panicked"}

=============================================================================
