------------------------------- MODULE Frames -------------------------------
(***************************************************************************)
(* What is in a frame.  A task fills a slot's buffer with PDUs, the driver *)
(* sends the bytes, the SubDevices change them on the way round, and what  *)
(* comes back is recognised, copied into the slot and read PDU by PDU.     *)
(*                                                                         *)
(* PduLoop models who owns the slot and when; here one task owns it and    *)
(* the subject is the bytes.  Between two frames other tasks use the slots *)
(* and take indices: what a new frame finds there is an input.             *)
(***************************************************************************)
EXTENDS WireTypes, Commands, FiniteSetsExt

CONSTANTS
  DataLen,    \* DATA, the bytes of a slot
  Requests,   \* PDUs that are pushed: [call, command, data, len_override]
  Slots,      \* what a claimed slot is found with: [bytes, pdu_idx]
  Counters,   \* what SubDevices add to a working counter when they answer
  Expected    \* wkc of a WrappedRead or WrappedWrite, <<>> for None

VARIABLES
  phase,     \* idle, created, sendable, sent, received, read
  bytes,     \* FrameElement::ethernet_frame
  len,       \* FrameElement::pdu_payload_len
  last,      \* CreatedFrame::last_header_location, <<>> for None
  handles,   \* PduResponseHandle of every PDU; their number is pdu_count
  pdu_idx,   \* PduStorage::pdu_idx
  packet,    \* the Ethernet frame on its way
  buf_pos,   \* ReceivedPduIter::buf_pos, -1 for usize::MAX
  got,       \* what was read: [k, res, data, wkc, call, expected]
  pushed,    \* history: the PDUs, [command, data]
  answers    \* history: what the SubDevices added to each working counter

frameVars == <<phase, bytes, len, last, handles, pdu_idx, packet, buf_pos, got, pushed, answers>>

Number(bits) == MapThenSumSet(LAMBDA b : 2^b, bits)

-----------------------------------------------------------------------------
(* EthernetFrame, a view of a buffer                                       *)

ETHERNET_HEADER_LEN == 14
ETHERCAT_ETHERTYPE == Bits(34980)                  \* 0x88a4
MAINDEVICE_ADDR == [i \in 1..6 |-> {4}]            \* 10:10:10:10:10:10
BROADCAST == [i \in 1..6 |-> 0..7]

set_dst_addr(b, addr) == Splice(b, 0, addr)
set_src_addr(b, addr) == Splice(b, 6, addr)
set_ethertype(b, n) == Splice(b, 12, Reverse(to_le_bytes(n, 2)))
src_addr(b) == SubSeq(b, 7, 12)
ethertype(b) == from_le_bytes(Reverse(SubSeq(b, 13, 14)))
payload(b) == SubSeq(b, ETHERNET_HEADER_LEN + 1, Len(b))

\* PACKED_LEN of the two headers
ETHERCAT_HEADER_LEN == 2
PDU_HEADER_LEN == 10
ASSUME PackedLen == EthercatFrameHeader.len = ETHERCAT_HEADER_LEN /\ PduHeader.len = PDU_HEADER_LEN

\* The PDUs begin behind the headers of Ethernet and of EtherCAT
PDU_START == ETHERNET_HEADER_LEN + ETHERCAT_HEADER_LEN
PDU_OVERHEAD_BYTES == PDU_HEADER_LEN + 2
pdu_buf == SubSeq(bytes, PDU_START + 1, Len(bytes))

\* The flags of the PDU that begins behind `pos` bytes
FlagsAt(b, pos) == unpack_from_slice(PduFlags, SubSeq(b, pos + 7, Len(b))).v

-----------------------------------------------------------------------------
FrameInit ==
  /\ phase = "idle" /\ bytes = <<>> /\ len = 0 /\ last = <<>> /\ handles = <<>>
  /\ pdu_idx = 0 /\ packet = <<>> /\ buf_pos = 0
  /\ got = <<>> /\ pushed = <<>> /\ answers = <<>>

\* The slot is given back; what it holds is the next frame's input
DropFrame ==
  /\ phase' = "idle" /\ bytes' = <<>> /\ len' = 0 /\ last' = <<>> /\ handles' = <<>>
  /\ pdu_idx' = 0 /\ packet' = <<>> /\ buf_pos' = 0
  /\ got' = <<>> /\ pushed' = <<>> /\ answers' = <<>>

\* FrameBox::init of a buffer
InitBytes(b) ==
  LET header == set_ethertype(set_dst_addr(set_src_addr(b, MAINDEVICE_ADDR), BROADCAST),
                              ETHERCAT_ETHERTYPE)
  IN Splice(header, ETHERNET_HEADER_LEN, Zeros(Len(b) - ETHERNET_HEADER_LEN))

\* alloc_frame
NewFrame(slot) ==
  /\ phase = "idle" /\ phase' = "created"
  /\ bytes' = InitBytes(slot.bytes)
  /\ pdu_idx' = slot.pdu_idx
  /\ UNCHANGED <<len, last, handles, packet, buf_pos, got, pushed, answers>>

-----------------------------------------------------------------------------
(* CreatedFrame                                                            *)

\* The more_follows flag of the PDU before, if any, is set
SetMoreFollows(b) ==
  IF last = <<>> THEN b
  ELSE LET at == PDU_START + last[1]
       IN Splice(b, at + 6, pack_to_slice_unchecked(PduFlags, [FlagsAt(b, at) EXCEPT ![3] = {0}]))

\* Header and data of a PDU of n bytes at the end of the frame
Write(command, data, n) ==
  LET header == <<code(command), Bits(pdu_idx), pack(command), <<Bits(n), {}, {}>>, {}>>
  IN /\ bytes' = SetMoreFollows(Splice(bytes, PDU_START + len,
                                        pack_to_slice_unchecked(PduHeader, header) \o data))
     /\ last' = IF last = <<>> THEN <<0>> ELSE <<len>>
     /\ len' = len + n + PDU_OVERHEAD_BYTES
     /\ pdu_idx' = (pdu_idx + 1) % 256
     /\ handles' = Append(handles, [index_in_frame |-> Len(handles), pdu_idx |-> pdu_idx,
                                    command_code |-> code(command)])
     /\ pushed' = Append(pushed, [command |-> command, data |-> data \o Zeros(n - Len(data))])

\* WrappedRead::common, which pushes a length and no data, and
\* WrappedWrite::common with the length override of with_len
CommonRead(command, n) ==
  [call |-> "push_pdu", command |-> command, data |-> <<>>, len_override |-> <<n>>]
CommonWrite(command, data, len_override) ==
  [call |-> "push_pdu", command |-> command, data |-> data, len_override |-> len_override]

\* push_pdu; one that does not fit is an error and drops the frame
PushPdu(r) ==
  /\ phase = "created" /\ r.call = "push_pdu"
  /\ LET n == IF r.len_override = <<>> \/ r.len_override[1] < Len(r.data) THEN Len(r.data)
              ELSE r.len_override[1]
     IN IF len + n + PDU_OVERHEAD_BYTES <= Len(pdu_buf)
        THEN Write(r.command, r.data, n) /\ UNCHANGED <<phase, packet, buf_pos, got, answers>>
        ELSE DropFrame

\* push_pdu_slice_rest: as much as fits.  It does nothing when no byte does.
PushPduSliceRest(r) ==
  /\ phase = "created" /\ r.call = "push_pdu_slice_rest" /\ r.data # <<>>
  /\ LET max_bytes == Len(pdu_buf) - len - PDU_OVERHEAD_BYTES
         n == IF max_bytes < Len(r.data) THEN max_bytes ELSE Len(r.data)
     IN max_bytes > 0 /\ Write(r.command, SubSeq(r.data, 1, n), n)
  /\ UNCHANGED <<phase, packet, buf_pos, got, answers>>

\* mark_sendable writes the header with the length of all PDUs
MarkSendable ==
  /\ phase = "created" /\ handles # <<>> /\ phase' = "sendable"
  /\ bytes' = Splice(bytes, ETHERNET_HEADER_LEN,
                     pack_to_slice_unchecked(EthercatFrameHeader, <<Bits(len), [k |-> 1, raw |-> {}]>>))
  /\ UNCHANGED <<len, last, handles, pdu_idx, packet, buf_pos, got, pushed, answers>>

\* SendableFrame::as_bytes, what the driver sends
Send ==
  /\ phase = "sendable" /\ phase' = "sent"
  /\ packet' = SubSeq(bytes, 1, PDU_START + len)
  /\ UNCHANGED <<bytes, len, last, handles, pdu_idx, buf_pos, got, pushed, answers>>
-----------------------------------------------------------------------------
(* The segment (external): the SubDevices process a frame PDU by PDU while *)
(* it passes.  One that is addressed replaces the data and adds to the     *)
(* working counter; auto increment and broadcast addresses are counted up, *)
(* and the first SubDevice marks the frame in its source address.          *)

\* What SubDevices put into n bytes of the k-th PDU
Answer(k, n) == [i \in 1..n |-> Bits(16 * k + i)]

RECURSIVE Pass(_, _, _)
Pass(b, pos, adds) ==
  LET flags == FlagsAt(b, pos)
      n == Number(flags[1])
      k == Len(answers') - Len(adds) + 1
      counted == IF Number(b[pos + 1]) \in {1, 2, 7, 8}
                 THEN Splice(b, pos + 2, <<SymDiff(b[pos + 3], {0})>>) ELSE b
      served == IF adds[1] = 0 THEN counted
                ELSE Splice(counted, pos + PDU_HEADER_LEN, Answer(k, n) \o to_le_bytes(Bits(adds[1]), 2))
  IN IF flags[3] = {} \/ Len(adds) = 1 THEN served
     ELSE Pass(served, pos + n + PDU_OVERHEAD_BYTES, Tail(adds))

Circulate ==
  /\ phase = "sent" /\ answers = <<>>
  /\ answers' \in [1..Len(pushed) -> {0} \cup Counters]
  /\ packet' = Pass(set_src_addr(packet, <<{4, 1}>> \o Tail(MAINDEVICE_ADDR)), PDU_START, answers')
  /\ UNCHANGED <<phase, bytes, len, last, handles, pdu_idx, buf_pos, got, pushed>>

\* What the driver may hand over: the frame, which its network card has
\* padded, cut short or not at all, another protocol's and an empty one
Arriving ==
  {packet, packet \o Zeros(3), SubSeq(packet, 1, Len(packet) - 1), SubSeq(packet, 1, 13),
   SubSeq(packet, 1, 14), set_ethertype(packet, Bits(2048)),
   Splice(packet, ETHERNET_HEADER_LEN, <<{}, {4}>>), Splice(packet, ETHERNET_HEADER_LEN, <<{}, {6}>>)}

-----------------------------------------------------------------------------
(* PduRx::receive_frame.  The first PDU's index leads to the slot.         *)

Recognised(b) ==
  IF Len(b) < ETHERNET_HEADER_LEN THEN "Ethernet"
  ELSE IF ethertype(b) # ETHERCAT_ETHERTYPE \/ src_addr(b) = MAINDEVICE_ADDR THEN "Ignored"
  ELSE LET header == unpack_from_slice(EthercatFrameHeader, payload(b))
       IN IF header.res # "ok" THEN "Wire"
          ELSE IF header.v[1] = {} THEN "Ignored"
          ELSE IF Len(payload(b)) < ETHERCAT_HEADER_LEN + Number(header.v[1]) THEN "ReceiveFrame"
          ELSE "Processed"

\* A packet that is ignored or refused changes nothing
ReceiveFrame(b) ==
  /\ phase = "sent" /\ Recognised(b) = "Processed"
  /\ LET n == Number(unpack_from_slice(EthercatFrameHeader, payload(b)).v[1])
         i == SubSeq(b, PDU_START + 1, PDU_START + n)
     IN i[2] = Bits(handles[1].pdu_idx) /\ bytes' = Splice(bytes, PDU_START, i)
  /\ phase' = "received" /\ packet' = <<>>
  /\ UNCHANGED <<len, last, handles, pdu_idx, buf_pos, got, pushed, answers>>

-----------------------------------------------------------------------------
(* ReceivedFrame                                                           *)

\* The PDU at the beginning of a buffer, with this header
PduOf(buf, header) ==
  LET n == Number(header.v[4][1])
      end == PDU_HEADER_LEN + n
  IN IF header.res # "ok" THEN [res |-> header.res]
     ELSE IF Len(buf) < n + 2 THEN [res |-> "TooLong"]
     ELSE IF Len(buf) < end THEN [res |-> "Internal"]
     ELSE IF Len(buf) < end + 2 THEN [res |-> "short"]
     ELSE [res |-> "ok", header |-> header.v, data |-> SubSeq(buf, PDU_HEADER_LEN + 1, end),
           wkc |-> Number(from_le_bytes(SubSeq(buf, end + 1, end + 2)))]

PduIn(buf) == PduOf(buf, unpack_from_slice(PduHeader, buf))
PduAt(pos) == PduIn(SubSeq(pdu_buf, pos + 1, Len(pdu_buf)))

\* ... if it is the one a handle stands for
Checked(handle, pdu) ==
  IF pdu.res # "ok" THEN pdu
  ELSE IF pdu.header[1] # handle.command_code THEN [res |-> "Decode"]
  ELSE IF pdu.header[2] # Bits(handle.pdu_idx) THEN [res |-> "InvalidIndex"]
  ELSE pdu

\* A result as the reader of the k-th PDU gets it; `call` is the method of a
\* WrappedRead or WrappedWrite, "" for readers that expect no counter
Result(k, pdu) ==
  [k |-> k, res |-> pdu.res, call |-> "", expected |-> <<>>,
   data |-> IF pdu.res = "ok" THEN pdu.data ELSE <<>>,
   wkc |-> IF pdu.res = "ok" THEN pdu.wkc ELSE 0]

\* Mutant of maybe_wkc: more answers than expected will do
maybe_wkcAtLeast(r, expected) ==
  IF r.res = "ok" /\ expected # <<>> /\ r.wkc < expected[1]
  THEN [r EXCEPT !.res = "WorkingCounter"] ELSE r

\* ReceivedPdu::maybe_wkc
maybe_wkc(r, expected) ==
  IF r.res = "ok" /\ expected \notin {<<>>, <<r.wkc>>} THEN [r EXCEPT !.res = "WorkingCounter"] ELSE r

\* first_pdu of single_pdu, and the working counter a WrappedRead or WrappedWrite
\* was given: receive, receive_slice, send_receive and send_receive_slice compare
\* it; receive_wkc and send do not look at it
Calls == {"receive", "send"}
FirstPdu(call, expected) ==
  /\ phase = "received" /\ Len(handles) = 1 /\ phase' = "read"
  /\ LET r == [Result(1, Checked(handles[1], PduAt(0))) EXCEPT !.call = call, !.expected = expected]
     IN got' = <<IF call = "send" THEN r ELSE maybe_wkc(r, expected)>>
  /\ UNCHANGED <<bytes, len, last, handles, pdu_idx, packet, buf_pos, pushed, answers>>

\* ReceivedFrame::pdu skips the PDUs before the one of the handle
Pdu(k) ==
  LET pos[i \in 0..(k - 1)] ==
        IF i = 0 THEN 0
        ELSE pos[i - 1] + Number(FlagsAt(pdu_buf, pos[i - 1])[1]) + PDU_OVERHEAD_BYTES
  IN /\ phase = "received" /\ phase' = "read" /\ Len(handles) > 1
     /\ got' = <<Result(k, Checked(handles[k], PduAt(pos[handles[k].index_in_frame])))>>
     /\ UNCHANGED <<bytes, len, last, handles, pdu_idx, packet, buf_pos, pushed, answers>>

\* What an iterator yields, and where it goes on: behind the PDU, or nowhere
Yield(pdu) ==
  /\ got' = Append(got, Result(Len(got) + 1, pdu))
  /\ buf_pos' = IF pdu.res # "ok" THEN buf_pos
                ELSE IF pdu.header[4][3] = {} THEN -1
                ELSE buf_pos + Len(pdu.data) + PDU_OVERHEAD_BYTES

\* ReceivedPduIter::next
NextPdu ==
  /\ phase = "received"
  /\ IF buf_pos = -1 \/ len = 0 \/ buf_pos > Len(pdu_buf)
     THEN phase' = "read" /\ UNCHANGED <<got, buf_pos>>
     ELSE Yield(PduAt(buf_pos)) /\ UNCHANGED phase
  /\ UNCHANGED <<bytes, len, last, handles, pdu_idx, packet, pushed, answers>>

FrameNext ==
  \/ \E slot \in Slots : NewFrame(slot)
  \/ \E r \in Requests : PushPdu(r) \/ PushPduSliceRest(r)
  \/ MarkSendable \/ Send \/ Circulate
  \/ phase = "sent" /\ \E b \in Arriving : ReceiveFrame(b)
  \/ got = <<>> /\ \E call \in Calls, expected \in Expected : FirstPdu(call, expected)
  \/ got = <<>> /\ \E k \in DOMAIN handles : Pdu(k)
  \/ NextPdu
  \/ phase = "read" /\ DropFrame

-----------------------------------------------------------------------------
\* Whatever PDUs a frame carries and whatever its slot held before, the
\* reader of the k-th PDU gets what the SubDevices made of that PDU: their
\* data and working counter when they answered it, else the data as pushed
\* and a working counter of 0.  The iterator yields all of them in order and
\* then ends, a handle finds its own PDU, a wrapped command that compares the
\* working counter fails exactly when that is not the expected one, one that does
\* not compare it never, and a frame counts as received only when it has been
\* round and arrived whole.
RepliesMatch ==
  /\ phase \in {"received", "read"} => answers # <<>>
  /\ \A j \in DOMAIN got :
       LET r == got[j] IN
         /\ r.wkc = answers[r.k]
         /\ r.data = IF answers[r.k] = 0 THEN pushed[r.k].data ELSE Answer(r.k, Len(pushed[r.k].data))
         /\ r.res = IF r.call = "receive" /\ r.expected \notin {<<>>, <<answers[r.k]>>}
                    THEN "WorkingCounter" ELSE "ok"
  /\ phase = "read" /\ buf_pos # 0 => [j \in DOMAIN got |-> got[j].k] = [j \in DOMAIN pushed |-> j]
=============================================================================
