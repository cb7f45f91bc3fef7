---------------------------- MODULE EepromProofs ----------------------------
(***************************************************************************)
(* A range of the EEPROM is a stream of bytes: SubDeviceEeprom implements  *)
(* EepromStream, for every image, every sequence of calls and every choice *)
(* of faults.  The header keeps its checksum, and what the calls return is *)
(* what is stored.                                                         *)
(***************************************************************************)
EXTENDS SubDeviceEeprom, SequenceFacts

\* The checksum is a byte, as that of the crc crate.
CrcIsByte == \A bytes \in Seq(Byte) : Crc(bytes) \in Byte

-----------------------------------------------------------------------------
\* The invariant of the range.

SiiType == [busy : BOOLEAN, cmd : {"none", "read", "write"}, addr : Nat,
            error : BOOLEAN, command_error : BOOLEAN]
RangeType == [byte_pos : Nat, end : Nat]
WantType == [kind : {"none", "read", "byte", "chunk", "write"}, n : Nat]

Reading == {"clear", "reset", "start", "busy", "fetch"}
Storing == {"data", "store", "stored"}
Resting == {"idle", "done", "failed"}

RangeTypeOK ==
  /\ mem = [a \in DOMAIN mem |-> mem[a]]
  /\ \A a \in DOMAIN mem : a \in Nat /\ mem[a] \in Byte
  /\ chunk_len \in {4, 8} /\ sii \in SiiType
  /\ data \in Seq(Byte) /\ Len(data) >= 2
  /\ reader \in RangeType /\ want \in WantType
  /\ got \in Seq(Byte) /\ delivered \in Seq(Byte)
  /\ rpc \in {"ask", "word", "wait"} \cup Reading \cup Storing \cup Resting
  /\ clean \in BOOLEAN

IsRead == want.kind \in {"read", "byte"}

\* Where an operation is, with what it has.
StageInv ==
  /\ rpc \in Resting <=> want = Nothing
  /\ rpc = "ask" => want.kind = "read" /\ got = <<>>
  /\ rpc \in Reading => want.kind \in {"read", "byte", "chunk"}
  /\ rpc \in {"clear", "reset"} => got = <<>>
  /\ want.kind = "chunk" => got = <<>>
  /\ IsRead => Len(got) <= Stream!Count
  /\ rpc \in {"word", "wait"} \cup Storing => want.kind = "write"
  /\ rpc \in {"wait"} \cup Storing => reader.byte_pos < reader.end /\ got # <<>>
  /\ rpc \in Storing => reader.byte_pos \div 2 \in asked
  /\ sii.busy /\ sii.cmd = "write" => sii.addr \in asked

\* What a read that nothing disturbed has read, and finds in the registers.
CleanInv ==
  clean /\ want.kind \in {"read", "byte", "chunk"} =>
    /\ IsRead => got = Stream!BytesAt(mem, reader.byte_pos - Len(got), Len(got))
    /\ rpc = "busy" => /\ sii.cmd = "read" /\ sii.addr = StartWord
                       /\ sii.busy \/ data = Stream!BytesAt(mem, 2 * StartWord, chunk_len)
    /\ rpc = "fetch" => ~sii.busy /\ data = Stream!BytesAt(mem, 2 * StartWord, chunk_len)
    /\ rpc = "start" /\ got # <<>> => ~sii.busy

\* The call under way and the operation it waits for.
CallFields == {"op", "arg", "phase", "cat", "word_addr", "empty", "list", "left",
               "sync_manager", "sum"}
IsCallRecord(c) == c = [f \in CallFields |-> c[f]]

ReadPhases == {"read", "fmmus", "general", "items", "entries", "string", "head"}
KindOf(phase) ==
  CASE phase = "category" -> "chunk"
    [] phase \in {"num", "len"} -> "byte"
    [] phase \in {"write", "alias", "checksum"} -> "write"
    [] OTHER -> "read"

GoodCall(c) ==
  /\ IsCallRecord(c) /\ c.word_addr \in Nat
  /\ c.phase \in ReadPhases \cup {"category", "num", "len", "write", "alias",
                                   "checksum", "none"}
  /\ c.phase = "category" /\ c.cat = General => c.op \in GeneralOps
  /\ c.phase = "general" => c.op \in GeneralOps
  /\ c.phase = "head" => c.arg \in Seq(Byte) /\ Len(c.arg) = 2
  /\ c.phase = "alias" => c.sum \in Byte

CallInv ==
  /\ GoodCall(call) /\ calls \in Nat
  /\ rpc \notin Resting => want.kind = KindOf(call.phase) /\ call.phase # "none"
  /\ rpc = "done" /\ call.phase = "category" => Len(delivered) >= 4
  /\ rpc = "done" /\ call.phase \in {"num", "len"} => Len(delivered) = 1

EepromInv == RangeTypeOK /\ StageInv /\ CleanInv /\ CallInv

-----------------------------------------------------------------------------
\* The invariant behind the checksum of the header.

Written(w, bytes) == mem[2 * w] = bytes[1] /\ mem[2 * w + 1] = bytes[2]

\* A word is being written that nothing disturbs.
WritesWord(w, bytes) ==
  /\ rpc \in {"wait"} \cup Storing => reader.byte_pos = 2 * w /\ got = bytes
  /\ rpc = "word" => \/ reader.byte_pos = 2 * w /\ reader.end > 2 * w /\ got = bytes
                     \/ got = <<>> /\ Written(w, bytes)
  /\ rpc \in {"data", "store"} => ~sii.busy
  /\ rpc = "store" => data = bytes
  /\ rpc = "stored" => /\ ~sii.command_error
                       /\ \/ sii.busy /\ sii.cmd = "write" /\ sii.addr = w /\ data = bytes
                          \/ ~sii.busy /\ Written(w, bytes)
  /\ rpc = "done" => Written(w, bytes)

HeadInv ==
  clean /\ call.phase = "head" =>
    /\ rpc \notin Resting => reader.byte_pos = Len(got)
    /\ rpc = "done" => delivered = Stream!BytesAt(mem, 0, Len(delivered))

AliasInv ==
  clean /\ call.phase = "alias" /\ rpc # "failed" =>
    /\ call.arg \in Seq(Byte) /\ Len(call.arg) = 2
    /\ call.sum = Crc(Header(Stream!BytesAt(mem, 0, 14), call.arg))
    /\ WritesWord(AliasWord, call.arg)

SumInv ==
  clean /\ call.phase = "checksum" /\ rpc # "failed" =>
    /\ call.sum \in Byte /\ call.sum = Crc(Stream!BytesAt(mem, 0, 14))
    /\ WritesWord(ChecksumWord, <<call.sum, 0>>)

WritePhases == {"write", "alias", "checksum"}

\* No word is on its way into the memory but those of the call.
PendingInv ==
  sii.busy /\ sii.cmd = "write" =>
    /\ call.phase \in WritePhases
    /\ call.phase = "write" => sii.addr > ChecksumWord
    /\ clean => rpc \in {"stored", "failed"}

SafeInv ==
  /\ 0..15 \subseteq DOMAIN mem
  /\ call.phase \notin {"alias", "checksum"} => HeaderChecked(mem)
  /\ PendingInv /\ HeadInv /\ AliasInv /\ SumInv

ChecksumInv ==
  /\ rpc = "idle" => call.phase = "none"
  /\ call.phase \in {"head", "alias", "checksum"} => call.op = "set_station_alias"
  /\ call.phase = "write" => reader.byte_pos > 2 * ChecksumWord + 1
  /\ desc # <<>> /\ ~torn => SafeInv

-----------------------------------------------------------------------------
\* Bytes of the memory.

BytesAt(m, a, n) == Stream!BytesAt(m, a, n)

IsMem(m) == \A a \in DOMAIN m : m[a] \in Byte

LEMMA BytesAtSeq ==
  ASSUME NEW m, IsMem(m), NEW a \in Int, NEW n \in Nat
  PROVE  /\ BytesAt(m, a, n) \in Seq(Byte) /\ IsSeq(BytesAt(m, a, n))
         /\ Len(BytesAt(m, a, n)) = n
         /\ \A k \in 1..n : BytesAt(m, a, n)[k] = Stream!ByteAt(m, a + k - 1)
<1>1. \A b \in Int : Stream!ByteAt(m, b) \in Byte
  BY DEF Stream!ByteAt, IsMem, Byte
<1>2. BytesAt(m, a, n) \in [1..n -> Byte]
  BY <1>1 DEF BytesAt, Stream!BytesAt
<1>3. BytesAt(m, a, n) \in Seq(Byte) /\ Len(BytesAt(m, a, n)) = n
  BY <1>2
<1>4. IsSeq(BytesAt(m, a, n))
  BY <1>3, IsSeqIntro
<1>5. \A k \in 1..n : BytesAt(m, a, n)[k] = Stream!ByteAt(m, a + k - 1)
  BY DEF BytesAt, Stream!BytesAt
<1> QED BY <1>3, <1>4, <1>5

\* What follows on n bytes continues them.
LEMMA BytesJoin ==
  ASSUME NEW m, IsMem(m), NEW a \in Int, NEW n \in Nat, NEW p \in Nat
  PROVE  BytesAt(m, a, n) \o BytesAt(m, a + n, p) = BytesAt(m, a, n + p)
<1> DEFINE s == BytesAt(m, a, n)
           t == BytesAt(m, a + n, p)
           u == BytesAt(m, a, n + p)
<1>1. a + n \in Int /\ n + p \in Nat
  OBVIOUS
<1>2. /\ IsSeq(s) /\ Len(s) = n
      /\ \A k \in 1..n : s[k] = Stream!ByteAt(m, a + k - 1)
  BY BytesAtSeq
<1>3. /\ IsSeq(t) /\ Len(t) = p
      /\ \A k \in 1..p : t[k] = Stream!ByteAt(m, a + n + k - 1)
  BY <1>1, BytesAtSeq
<1>4. /\ IsSeq(u) /\ Len(u) = n + p
      /\ \A k \in 1..(n + p) : u[k] = Stream!ByteAt(m, a + k - 1)
  BY <1>1, BytesAtSeq
<1> HIDE DEF s, t, u
<1>5. /\ IsSeq(s \o t) /\ Len(s \o t) = n + p
      /\ \A k \in 1..(n + p) : (s \o t)[k] = IF k <= n THEN s[k] ELSE t[k - n]
  BY <1>2, <1>3, ConcatSeq
<1>6. ASSUME NEW k \in 1..(n + p)
      PROVE  (s \o t)[k] = u[k]
  <2>1. CASE k <= n
    BY <2>1, <1>2, <1>4, <1>5
  <2>2. CASE ~(k <= n)
    <3>1. k - n \in 1..p /\ a + n + (k - n) - 1 = a + k - 1
      BY <2>2
    <3>2. t[k - n] = Stream!ByteAt(m, a + k - 1)
      BY <1>3, <3>1
    <3> QED BY <2>2, <3>2, <1>4, <1>5
  <2> QED BY <2>1, <2>2
<1>7. s \o t = u
  BY <1>4, <1>5, <1>6, SameSeq
<1> QED BY <1>7 DEF s, t, u

\* The part of a chunk that a read at a position uses.
LEMMA UsablePart ==
  ASSUME NEW c, IsSeq(c), Len(c) >= 4, reader \in RangeType, NEW n \in Nat
  PROVE  /\ IsSeq(Usable(c, n)) /\ Elements(Usable(c, n)) \subseteq Elements(c)
         /\ Len(Usable(c, n)) = IF n < Len(c) - (reader.byte_pos % 2) THEN n
                                ELSE Len(c) - (reader.byte_pos % 2)
         /\ \A k \in 1..Len(Usable(c, n)) : Usable(c, n)[k] = c[k + (reader.byte_pos % 2)]
<1> DEFINE odd == reader.byte_pos % 2
           t == SubSeq(c, 1 + odd, Len(c))
           x == IF n < Len(t) THEN n ELSE Len(t)
<1>1. odd \in 0..1 /\ Len(c) \in Nat
  BY DEF RangeType, IsSeq
<1>2. 1 + odd \in 1..(Len(c) + 1) /\ Len(c) \in ((1 + odd) - 1)..Len(c)
      /\ Len(c) - (1 + odd) + 1 = Len(c) - odd
  BY <1>1
<1> HIDE DEF odd
<1>3. /\ IsSeq(t) /\ Len(t) = Len(c) - odd /\ Elements(t) \subseteq Elements(c)
      /\ \A k \in 1..(Len(c) - (1 + odd) + 1) : t[k] = c[(1 + odd) + k - 1]
  BY <1>2, PartSeq
<1>3a. \A k \in 1..(Len(c) - odd) : t[k] = c[k + odd]
  <2> TAKE k \in 1..(Len(c) - odd)
  <2>1. k \in 1..(Len(c) - (1 + odd) + 1) /\ (1 + odd) + k - 1 = k + odd
    BY <1>1
  <2>2. t[k] = c[(1 + odd) + k - 1]
    BY <2>1, <1>3
  <2> QED BY <2>1, <2>2
<1> HIDE DEF t
<1>4. 1 \in 1..(Len(t) + 1) /\ x \in (1 - 1)..Len(t) /\ x - 1 + 1 = x
  BY <1>1, <1>3
<1> HIDE DEF x
<1>5. /\ IsSeq(SubSeq(t, 1, x)) /\ Len(SubSeq(t, 1, x)) = x
      /\ Elements(SubSeq(t, 1, x)) \subseteq Elements(t)
      /\ \A k \in 1..(x - 1 + 1) : SubSeq(t, 1, x)[k] = t[1 + k - 1]
  BY <1>3, <1>4, PartSeq
<1>6. \A k \in 1..x : SubSeq(t, 1, x)[k] = c[k + odd]
  <2> TAKE k \in 1..x
  <2>1. k \in 1..(x - 1 + 1) /\ 1 + k - 1 = k /\ k \in 1..(Len(c) - odd)
    BY <1>1, <1>3, <1>4
  <2>2. SubSeq(t, 1, x)[k] = t[k]
    BY <2>1, <1>5
  <2> QED BY <2>1, <2>2, <1>3a
<1>7. Usable(c, n) = SubSeq(t, 1, x)
  BY DEF Usable, t, x, odd
<1>8. x = IF n < Len(c) - odd THEN n ELSE Len(c) - odd
  BY <1>3 DEF x
<1> QED BY <1>3, <1>5, <1>6, <1>7, <1>8 DEF odd

\* Of a chunk of the memory it is the bytes at the position.
LEMMA UsableBytes ==
  ASSUME NEW m, IsMem(m), reader \in RangeType, NEW cl \in {4, 8}, NEW n \in Nat
  PROVE  LET u == Usable(BytesAt(m, 2 * (reader.byte_pos \div 2), cl), n)
         IN u = BytesAt(m, reader.byte_pos, Len(u))
<1> DEFINE odd == reader.byte_pos % 2
           w == 2 * (reader.byte_pos \div 2)
           c == BytesAt(m, w, cl)
           u == Usable(c, n)
<1>1. odd \in 0..1 /\ w \in Nat /\ reader.byte_pos = w + odd /\ reader.byte_pos \in Nat
  BY DEF RangeType
<1>1a. cl \in Nat /\ cl >= 4
  OBVIOUS
<1> HIDE DEF odd, w
<1>2. /\ IsSeq(c) /\ Len(c) = cl
      /\ \A k \in 1..cl : c[k] = Stream!ByteAt(m, w + k - 1)
  BY <1>1, <1>1a, BytesAtSeq
<1> HIDE DEF c
<1>3. /\ IsSeq(u) /\ Len(u) <= cl - odd
      /\ \A k \in 1..Len(u) : u[k] = c[k + odd]
  <2>1. /\ IsSeq(u)
        /\ Len(u) = IF n < Len(c) - odd THEN n ELSE Len(c) - odd
        /\ \A k \in 1..Len(u) : u[k] = c[k + odd]
    BY <1>1a, <1>2, UsablePart DEF odd
  <2> QED BY <2>1, <1>1, <1>1a, <1>2
<1> HIDE DEF u
<1>4. Len(u) \in Nat
  BY <1>3 DEF IsSeq
<1> DEFINE b == BytesAt(m, reader.byte_pos, Len(u))
<1>5. /\ IsSeq(b) /\ Len(b) = Len(u)
      /\ \A k \in 1..Len(u) : b[k] = Stream!ByteAt(m, reader.byte_pos + k - 1)
  BY <1>1, <1>4, BytesAtSeq
<1> HIDE DEF b
<1>6. ASSUME NEW k \in 1..Len(u)
      PROVE  u[k] = b[k]
  <2>1. k + odd \in 1..cl /\ w + (k + odd) - 1 = reader.byte_pos + k - 1
    BY <1>1, <1>1a, <1>3, <1>4
  <2>2. c[k + odd] = Stream!ByteAt(m, w + (k + odd) - 1)
    BY <2>1, <1>2
  <2> QED BY <2>1, <2>2, <1>3, <1>5
<1>7. u = b
  BY <1>3, <1>5, <1>6, SameSeq
<1> QED BY <1>7 DEF b, u, c, w

LEMMA FunctionIsSeq ==
  ASSUME NEW n \in Nat, NEW S, NEW f \in [1..n -> S]
  PROVE  f \in Seq(S)
OBVIOUS

-----------------------------------------------------------------------------
\* The steps of the range that the stream does not see.

RangeInv == RangeTypeOK /\ StageInv /\ CleanInv

Unseen == UNCHANGED <<mem, chunk_len, reader, want, got, delivered, asked>>

LEMMA UnseenStep ==
  ASSUME RangeInv, Unseen, clean' \in BOOLEAN
  PROVE  /\ Stream!Next /\ Stream!Count' = Stream!Count /\ StartWord' = StartWord
         /\ IsRead' = IsRead
BY DEF Unseen, Stream!Next, Stream!Count, Stream!Left, StartWord, IsRead

LEMMA StartWordNat ==
  ASSUME RangeTypeOK
  PROVE  StartWord \in Nat
BY DEF RangeTypeOK, StartWord, RangeType, WantType

\* A command is taken up, or ignored and remembered as such.
LEMMA CommandTypes ==
  ASSUME RangeTypeOK, NEW c \in {"read", "write"}, Command(c)
  PROVE  /\ sii' \in SiiType /\ clean' \in BOOLEAN
         /\ \/ clean' = FALSE /\ sii' = sii /\ sii.busy
            \/ /\ clean' = clean /\ ~sii.busy /\ sii'.busy /\ sii'.cmd = c
               /\ sii'.addr = StartWord
BY StartWordNat, ZenonT(60) DEF RangeTypeOK, Command, SiiType

\* Steps that leave everything but the registers and the program counter.
Moves ==
  \/ rpc' = rpc
  \/ rpc = "ask" /\ rpc' = "clear"
  \/ rpc = "clear" /\ rpc' \in {"reset", "start"}
  \/ rpc = "reset" /\ rpc' = "start"
  \/ rpc = "start" /\ rpc' = "busy"
  \/ rpc = "busy" /\ rpc' = "fetch"
  \/ rpc = "data" /\ rpc' = "store"
  \/ rpc = "store" /\ rpc' = "stored"

LEMMA UnseenKeeps ==
  ASSUME RangeInv, Unseen, Moves, clean' \in BOOLEAN, sii' \in SiiType,
         data' \in Seq(Byte), Len(data') >= 2,
         sii'.busy /\ sii'.cmd = "write" => sii'.addr \in asked
  PROVE  RangeTypeOK' /\ StageInv' /\ Stream!Next
<1>1. /\ Stream!Count' = Stream!Count /\ StartWord' = StartWord
      /\ IsRead' = IsRead /\ Stream!Next
  BY UnseenStep
<1>2. RangeTypeOK'
  BY DEF RangeInv, RangeTypeOK, Unseen, Moves, Reading, Storing, Resting
<1>3. StageInv'
  BY <1>1 DEF RangeInv, RangeTypeOK, StageInv, Unseen, Moves, Reading, Storing, Resting
<1> QED BY <1>1, <1>2, <1>3

\* What is read stays as it is; the registers have to be looked at.
LEMMA UnseenClean ==
  ASSUME RangeInv, Unseen, clean' \in BOOLEAN, clean' => clean,
         clean' /\ rpc' = "busy" /\ want.kind \in {"read", "byte", "chunk"} =>
           /\ sii'.cmd = "read" /\ sii'.addr = StartWord
           /\ sii'.busy \/ data' = BytesAt(mem, 2 * StartWord, chunk_len),
         clean' /\ rpc' = "fetch" /\ want.kind \in {"read", "byte", "chunk"} =>
           ~sii'.busy /\ data' = BytesAt(mem, 2 * StartWord, chunk_len),
         clean' /\ rpc' = "start" /\ want.kind \in {"read", "byte", "chunk"}
           /\ got # <<>> => ~sii'.busy
  PROVE  CleanInv'
<1>1. StartWord' = StartWord /\ IsRead' = IsRead
  BY UnseenStep
<1>2. /\ want' = want /\ got' = got /\ reader' = reader /\ mem' = mem
      /\ chunk_len' = chunk_len
  BY DEF Unseen
<1>3. SUFFICES ASSUME clean', want.kind \in {"read", "byte", "chunk"}
               PROVE  /\ IsRead' => got' = (Stream!BytesAt(mem, reader.byte_pos - Len(got),
                                                       Len(got)))'
                      /\ rpc' = "busy" => /\ sii'.cmd = "read" /\ sii'.addr = StartWord'
                                          /\ \/ sii'.busy
                                             \/ data' = Stream!BytesAt(mem, 2 * StartWord, chunk_len)'
                      /\ rpc' = "fetch" => /\ ~sii'.busy
                                           /\ data' = Stream!BytesAt(mem, 2 * StartWord, chunk_len)'
                      /\ rpc' = "start" /\ got' # <<>> => ~sii'.busy
  BY <1>2 DEF CleanInv
<1>4. IsRead => got = Stream!BytesAt(mem, reader.byte_pos - Len(got), Len(got))
  BY <1>3 DEF RangeInv, CleanInv
<1>5. /\ (Stream!BytesAt(mem, reader.byte_pos - Len(got), Len(got)))'
         = Stream!BytesAt(mem, reader.byte_pos - Len(got), Len(got))
      /\ Stream!BytesAt(mem, 2 * StartWord, chunk_len)'
         = Stream!BytesAt(mem, 2 * StartWord, chunk_len)
  BY <1>1, <1>2 DEF Stream!BytesAt, Stream!ByteAt
<1> QED BY <1>1, <1>2, <1>3, <1>4, <1>5 DEF BytesAt

Kept == (RangeTypeOK /\ StageInv /\ CleanInv)' /\ Stream!Next

LEMMA ClearErrorsKeeps ==
  ASSUME RangeInv, ClearErrors
  PROVE  Kept
<1>1. Unseen /\ Moves /\ clean' = clean /\ sii' = sii /\ data' = data /\ rpc' \in {"reset", "start"}
      /\ got = <<>>
  BY DEF ClearErrors, Unseen, Moves, RangeInv, StageInv
<1>2. RangeTypeOK' /\ StageInv' /\ Stream!Next
  BY <1>1, UnseenKeeps DEF RangeInv, RangeTypeOK, StageInv
<1>3. CleanInv'
  BY <1>1, UnseenClean DEF RangeInv, RangeTypeOK
<1> QED BY <1>2, <1>3 DEF Kept

LEMMA ResetErrorsKeeps ==
  ASSUME RangeInv, ResetErrors
  PROVE  Kept
<1>1. Unseen /\ Moves /\ clean' = clean /\ data' = data /\ rpc' = "start" /\ got = <<>>
      /\ sii' \in SiiType /\ sii'.busy = sii.busy /\ sii'.cmd = sii.cmd
      /\ sii'.addr = sii.addr
  BY ZenonT(60) DEF ResetErrors, Unseen, Moves, RangeInv, RangeTypeOK, StageInv, SiiType
<1>2. RangeTypeOK' /\ StageInv' /\ Stream!Next
  BY <1>1, UnseenKeeps DEF RangeInv, RangeTypeOK, StageInv
<1>3. CleanInv'
  BY <1>1, UnseenClean DEF RangeInv, RangeTypeOK
<1> QED BY <1>2, <1>3 DEF Kept

LEMMA StartReadKeeps ==
  ASSUME RangeInv, StartRead
  PROVE  Kept
<1>1. Unseen /\ Moves /\ data' = data /\ rpc' = "busy" /\ Command("read")
  BY DEF StartRead, Unseen, Moves
<1>2. /\ sii' \in SiiType /\ clean' \in BOOLEAN
      /\ \/ clean' = FALSE /\ sii' = sii /\ sii.busy
         \/ /\ clean' = clean /\ ~sii.busy /\ sii'.busy /\ sii'.cmd = "read"
            /\ sii'.addr = StartWord
  BY <1>1, CommandTypes DEF RangeInv
<1>3. RangeTypeOK' /\ StageInv' /\ Stream!Next
  BY <1>1, <1>2, UnseenKeeps DEF RangeInv, RangeTypeOK, StageInv
<1>4. CleanInv'
  BY <1>1, <1>2, UnseenClean DEF RangeInv, RangeTypeOK
<1> QED BY <1>3, <1>4 DEF Kept

LEMMA WaitReadKeeps ==
  ASSUME RangeInv, WaitRead
  PROVE  Kept
<1>1. Unseen /\ Moves /\ clean' = clean /\ sii' = sii /\ data' = data /\ rpc' = "fetch"
      /\ ~sii.busy /\ rpc = "busy"
  BY DEF WaitRead, Unseen, Moves
<1>2. RangeTypeOK' /\ StageInv' /\ Stream!Next
  BY <1>1, UnseenKeeps DEF RangeInv, RangeTypeOK, StageInv
<1>3. CleanInv'
  BY <1>1, UnseenClean DEF RangeInv, RangeTypeOK, CleanInv, BytesAt
<1> QED BY <1>2, <1>3 DEF Kept

LEMMA WriteDataKeeps ==
  ASSUME RangeInv, WriteData
  PROVE  Kept
<1>1. Unseen /\ Moves /\ clean' = clean /\ sii' = sii /\ rpc' = "store"
      /\ got \in Seq(Byte) /\ got # <<>>
  BY DEF WriteData, Unseen, Moves, RangeInv, RangeTypeOK, StageInv, Storing
<1>2. data' \in Seq(Byte) /\ Len(data') = 2
  <2>1. IsSeq(<<0>>) /\ Len(<<0>>) = 1 /\ Elements(<<0>>) \subseteq Byte
    BY SingleSeq DEF Byte
  <2>2. IsSeq(got) /\ Elements(got) \subseteq Byte /\ Len(got) \in Nat \ {0}
    BY <1>1, IsSeqIntro, LengthZero DEF IsSeq
  <2>3. IsSeq(got \o <<0>>) /\ Len(got \o <<0>>) = Len(got) + 1
        /\ Elements(got \o <<0>>) \subseteq Byte
    BY <2>1, <2>2, ConcatSeq
  <2> DEFINE w == got \o <<0>>
  <2>4. data' = SubSeq(w, 1, 2)
    BY DEF WriteData
  <2>5. 1 \in 1..(Len(w) + 1) /\ 2 \in (1 - 1)..Len(w) /\ 2 - 1 + 1 = 2
    BY <2>2, <2>3
  <2> HIDE DEF w
  <2>6. IsSeq(data') /\ Len(data') = 2 /\ Elements(data') \subseteq Elements(w)
    BY <2>3, <2>4, <2>5, PartSeq DEF w
  <2> QED BY <2>3, <2>6, SeqOfElements DEF w
<1>3. RangeTypeOK' /\ StageInv' /\ Stream!Next
  BY <1>1, <1>2, UnseenKeeps DEF RangeInv, RangeTypeOK, StageInv
<1>4. CleanInv'
  BY <1>1, UnseenClean DEF RangeInv, RangeTypeOK
<1> QED BY <1>3, <1>4 DEF Kept

LEMMA StartWriteKeeps ==
  ASSUME RangeInv, StartWrite
  PROVE  Kept
<1>1. Unseen /\ Moves /\ data' = data /\ rpc' = "stored" /\ Command("write")
      /\ StartWord \in asked
  BY DEF StartWrite, Unseen, Moves, RangeInv, StageInv, Storing, StartWord
<1>2. /\ sii' \in SiiType /\ clean' \in BOOLEAN
      /\ \/ clean' = FALSE /\ sii' = sii /\ sii.busy
         \/ /\ clean' = clean /\ ~sii.busy /\ sii'.busy /\ sii'.cmd = "write"
            /\ sii'.addr = StartWord
  BY <1>1, CommandTypes DEF RangeInv
<1>3. RangeTypeOK' /\ StageInv' /\ Stream!Next
  BY <1>1, <1>2, UnseenKeeps DEF RangeInv, RangeTypeOK, StageInv
<1>4. CleanInv'
  BY <1>1, <1>2, UnseenClean DEF RangeInv, RangeTypeOK
<1> QED BY <1>3, <1>4 DEF Kept

LEMMA IntrudeKeeps ==
  ASSUME RangeInv, Intrude
  PROVE  Kept
<1>1. Unseen /\ Moves /\ clean' = FALSE /\ data' = data
      /\ sii' \in SiiType /\ sii'.cmd = "read"
  BY DEF Intrude, Unseen, Moves, RangeInv, RangeTypeOK, SiiType
<1>2. RangeTypeOK' /\ StageInv' /\ Stream!Next
  BY <1>1, UnseenKeeps DEF RangeInv, RangeTypeOK
<1>3. CleanInv'
  BY <1>1 DEF CleanInv
<1> QED BY <1>2, <1>3 DEF Kept

LEMMA DevRefuseKeeps ==
  ASSUME RangeInv, DevRefuse
  PROVE  Kept
<1>1. Unseen /\ Moves /\ clean' = FALSE /\ data' = data
      /\ sii' \in SiiType /\ ~sii'.busy
  BY DEF DevRefuse, Unseen, Moves, RangeInv, RangeTypeOK, SiiType
<1>2. RangeTypeOK' /\ StageInv' /\ Stream!Next
  BY <1>1, UnseenKeeps DEF RangeInv, RangeTypeOK
<1>3. CleanInv'
  BY <1>1 DEF CleanInv
<1> QED BY <1>2, <1>3 DEF Kept

LEMMA DevReadKeeps ==
  ASSUME RangeInv, DevRead
  PROVE  Kept
<1>1. Unseen /\ Moves /\ clean' = clean /\ rpc' = rpc /\ sii' \in SiiType /\ ~sii'.busy
      /\ sii.busy /\ sii'.cmd = sii.cmd /\ sii'.addr = sii.addr /\ sii.addr \in Nat
  BY DEF DevRead, Unseen, Moves, RangeInv, RangeTypeOK, SiiType
<1>2. data' = BytesAt(mem, 2 * sii.addr, chunk_len)
  BY DEF DevRead, BytesAt
<1>3. IsMem(mem) /\ chunk_len \in Nat /\ chunk_len >= 4 /\ 2 * sii.addr \in Int
  BY <1>1 DEF RangeInv, RangeTypeOK, IsMem
<1>4. data' \in Seq(Byte) /\ Len(data') >= 2
  BY <1>2, <1>3, BytesAtSeq
<1>5. RangeTypeOK' /\ StageInv' /\ Stream!Next
  BY <1>1, <1>4, UnseenKeeps DEF RangeInv, RangeTypeOK
<1>6. CleanInv'
  <2>1. clean /\ rpc = "busy" /\ want.kind \in {"read", "byte", "chunk"} =>
          /\ sii.cmd = "read" /\ sii.addr = StartWord
    BY DEF RangeInv, CleanInv
  <2>2. ~(clean /\ rpc = "fetch" /\ want.kind \in {"read", "byte", "chunk"})
    BY <1>1 DEF RangeInv, CleanInv
  <2> QED BY <1>1, <1>2, <2>1, <2>2, UnseenClean DEF RangeInv, RangeTypeOK
<1> QED BY <1>5, <1>6 DEF Kept

-----------------------------------------------------------------------------
\* The steps of the range that the stream sees.

\* An operation ends without delivering anything.
LEMMA FailedKeeps ==
  ASSUME RangeInv, rpc \notin Resting, Failed, clean' \in BOOLEAN, sii' \in SiiType,
         sii'.busy /\ sii'.cmd = "write" => sii'.addr \in asked,
         UNCHANGED <<mem, chunk_len, data, reader, asked>>
  PROVE  Kept
<1>1. want # Nothing /\ want' = Nothing /\ got' = <<>> /\ rpc' = "failed"
      /\ delivered' = delivered
  BY DEF Failed, RangeInv, StageInv
<1>2. RangeTypeOK'
  BY <1>1 DEF RangeInv, RangeTypeOK, Resting, Nothing, Stream!Nothing, WantType
<1>3. StageInv'
  BY <1>1 DEF StageInv, Resting, Reading, Storing, Nothing, Stream!Nothing, IsRead
<1>4. CleanInv'
  BY <1>1 DEF CleanInv, Nothing, Stream!Nothing
<1>5. Stream!Fail
  <2>1. Stream!Count \in Nat
    BY DEF Stream!Count, Stream!Left, RangeInv, RangeTypeOK, RangeType, WantType
  <2>2. IsRead => Len(got) <= Stream!Count
    BY DEF RangeInv, StageInv
  <2>3. Len(got) \in Nat /\ reader.byte_pos \in Nat
    BY DEF RangeInv, RangeTypeOK, RangeType
  <2> DEFINE p == IF want.kind \in {"read", "byte"} THEN reader.byte_pos - Len(got)
                  ELSE reader.byte_pos
  <2>4. reader.byte_pos \in p..(p + Stream!Count)
    BY <2>1, <2>2, <2>3 DEF IsRead
  <2> QED BY <1>1, <2>4 DEF Stream!Fail, Nothing, Stream!Nothing
<1>6. Stream!Next
  BY <1>5 DEF Stream!Next
<1> QED BY <1>2, <1>3, <1>4, <1>6 DEF Kept

LEMMA TimesOutKeeps ==
  ASSUME RangeInv, TimesOut
  PROVE  Kept
<1>1. rpc \notin Resting /\ Failed /\ clean' = clean /\ sii' = sii
      /\ UNCHANGED <<mem, chunk_len, data, reader, asked>>
  BY DEF TimesOut, Resting
<1> QED BY <1>1, FailedKeeps DEF RangeInv, RangeTypeOK, StageInv

LEMMA BusFailsKeeps ==
  ASSUME RangeInv, BusFails
  PROVE  Kept
<1>1. rpc \notin Resting /\ Failed /\ UNCHANGED <<mem, chunk_len, data, reader, asked>>
  BY DEF BusFails, Resting
<1>2. CASE UNCHANGED <<sii, clean>>
  BY <1>1, <1>2, FailedKeeps DEF RangeInv, RangeTypeOK, StageInv
<1>3. CASE rpc = "start" /\ Command("read")
  <2>1. sii' \in SiiType /\ clean' \in BOOLEAN /\ (sii' = sii \/ sii'.cmd = "read")
    BY <1>3, CommandTypes DEF RangeInv
  <2> QED BY <1>1, <2>1, FailedKeeps DEF RangeInv, StageInv
<1>4. CASE rpc = "store" /\ Command("write")
  <2>1. StartWord \in asked
    BY <1>4 DEF RangeInv, StageInv, Storing, StartWord
  <2>2. sii' \in SiiType /\ clean' \in BOOLEAN /\ (sii' = sii \/ sii'.addr = StartWord)
    BY <1>4, CommandTypes DEF RangeInv
  <2> QED BY <1>1, <2>1, <2>2, FailedKeeps DEF RangeInv, StageInv
<1> QED BY <1>2, <1>3, <1>4 DEF BusFails

LEMMA ReadAskKeeps ==
  ASSUME RangeInv, ReadAsk
  PROVE  Kept
<1>1. /\ rpc = "ask" /\ want.kind = "read" /\ got = <<>> /\ Len(got) = 0
      /\ UNCHANGED <<mem, chunk_len, sii, data, reader, asked, clean>>
  BY DEF ReadAsk, RangeInv, StageInv
<1>2. CASE Stream!Count # 0
  <2>1. Unseen /\ Moves /\ rpc' = "clear"
    BY <1>1, <1>2 DEF ReadAsk, Unseen, Moves
  <2>2. RangeTypeOK' /\ StageInv' /\ Stream!Next
    BY <1>1, <2>1, UnseenKeeps DEF RangeInv, RangeTypeOK, StageInv
  <2>3. CleanInv'
    BY <1>1, <2>1, UnseenClean DEF RangeInv, RangeTypeOK
  <2> QED BY <2>2, <2>3 DEF Kept
<1>3. CASE Stream!Count = 0
  <2>1. want' = Nothing /\ got' = <<>> /\ rpc' = "done" /\ delivered' = <<>>
    BY <1>3 DEF ReadAsk, Finish
  <2>2. RangeTypeOK'
    BY <1>1, <2>1 DEF RangeInv, RangeTypeOK, Resting, Nothing, Stream!Nothing, WantType
  <2>3. StageInv'
    BY <1>1, <2>1 DEF RangeInv, StageInv, Resting, Reading, Storing, Nothing,
       Stream!Nothing, IsRead
  <2>4. CleanInv'
    BY <2>1 DEF CleanInv, Nothing, Stream!Nothing
  <2>5. <<>> = BytesAt(mem, reader.byte_pos - 0, 0)
    <3>1. IsMem(mem) /\ reader.byte_pos - 0 \in Int
      BY DEF RangeInv, RangeTypeOK, IsMem, RangeType
    <3> QED BY <3>1, BytesAtSeq, LengthZero
  <2>6. Stream!Deliver
    <3>1. Len(delivered') = 0 /\ reader.byte_pos \in Nat
      BY <2>1 DEF RangeInv, RangeTypeOK, RangeType
    <3> QED BY <1>1, <1>3, <2>1, <2>5, <3>1 DEF Stream!Deliver, Nothing, Stream!Nothing, BytesAt
  <2>7. Stream!Next
    BY <1>1, <2>6 DEF Stream!Next, RangeInv, RangeTypeOK
  <2> QED BY <2>2, <2>3, <2>4, <2>7 DEF Kept
<1> QED BY <1>2, <1>3

LEMMA WriteNextKeeps ==
  ASSUME RangeInv, WriteNext
  PROVE  Kept
<1>1. /\ rpc = "word" /\ want.kind = "write" /\ want # Nothing
      /\ UNCHANGED <<mem, chunk_len, sii, data, reader, got, delivered, asked, clean>>
  BY DEF WriteNext, RangeInv, StageInv, Resting
<1>2. CASE ~(reader.byte_pos >= reader.end \/ got = <<>>)
  <2>1. Unseen /\ rpc' = "wait" /\ want' = want
    BY <1>1, <1>2 DEF WriteNext, Unseen
  <2>2. /\ Stream!Count' = Stream!Count /\ IsRead' = IsRead /\ Stream!Next
    BY <1>1, <2>1, UnseenStep DEF RangeInv, RangeTypeOK
  <2>3. RangeTypeOK'
    BY <1>1, <2>1 DEF RangeInv, RangeTypeOK
  <2>4. reader.byte_pos < reader.end /\ got # <<>>
    BY <1>2 DEF RangeInv, RangeTypeOK, RangeType
  <2>5. StageInv'
    BY <1>1, <2>1, <2>2, <2>4 DEF RangeInv, StageInv, Reading, Storing, Resting
  <2>6. CleanInv'
    BY <1>1, <2>1, UnseenClean DEF RangeInv, RangeTypeOK
  <2> QED BY <2>2, <2>3, <2>5, <2>6 DEF Kept
<1>3. CASE reader.byte_pos >= reader.end \/ got = <<>>
  <2>1. want' = Nothing /\ rpc' = "done"
    BY <1>3 DEF WriteNext
  <2>2. RangeTypeOK'
    BY <1>1, <2>1 DEF RangeInv, RangeTypeOK, Resting, Nothing, Stream!Nothing, WantType
  <2>3. StageInv'
    BY <1>1, <2>1 DEF RangeInv, StageInv, Resting, Reading, Storing, Nothing,
       Stream!Nothing, IsRead
  <2>4. CleanInv'
    BY <2>1 DEF CleanInv, Nothing, Stream!Nothing
  <2>5. Stream!Fail
    <3>1. Stream!Count = 0 /\ reader.byte_pos \in reader.byte_pos..(reader.byte_pos + 0)
      BY <1>1 DEF Stream!Count, RangeInv, RangeTypeOK, RangeType
    <3> QED BY <1>1, <2>1, <3>1 DEF Stream!Fail, Nothing, Stream!Nothing
  <2>6. Stream!Next
    BY <1>1, <2>5 DEF Stream!Next, RangeInv, RangeTypeOK
  <2> QED BY <2>2, <2>3, <2>4, <2>6 DEF Kept
<1> QED BY <1>2, <1>3

LEMMA WaitIdleKeeps ==
  ASSUME RangeInv, WaitIdle
  PROVE  Kept
<1>1. /\ rpc = "wait" /\ rpc' = "data" /\ want.kind = "write" /\ want # Nothing
      /\ asked' = asked \cup {reader.byte_pos \div 2} /\ reader.byte_pos < reader.end
      /\ got # <<>>
      /\ UNCHANGED <<mem, chunk_len, sii, data, reader, want, got, delivered, clean>>
  BY DEF WaitIdle, RangeInv, StageInv, Resting, StartWord
<1>2. RangeTypeOK'
  BY <1>1 DEF RangeInv, RangeTypeOK, Storing
<1>3. StageInv'
  BY <1>1 DEF RangeInv, StageInv, Resting, Reading, Storing, IsRead
<1>4. CleanInv'
  BY <1>1 DEF CleanInv
<1>5. Stream!Select
  BY <1>1 DEF Stream!Select
<1>6. Stream!Next
  BY <1>1, <1>5 DEF Stream!Next, RangeInv, RangeTypeOK
<1> QED BY <1>2, <1>3, <1>4, <1>6 DEF Kept

LEMMA WaitWriteKeeps ==
  ASSUME RangeInv, WaitWrite
  PROVE  Kept
<1>1. /\ rpc = "stored" /\ want.kind = "write" /\ want # Nothing
      /\ reader.byte_pos \div 2 \in asked /\ reader.byte_pos < reader.end
      /\ got # <<>>
      /\ UNCHANGED <<mem, chunk_len, sii, data, want, delivered, asked, clean>>
  BY DEF WaitWrite, RangeInv, StageInv, Resting, Storing
<1>2. CASE sii.command_error /\ retry_count < MaxRetries
  <2>1. Unseen /\ rpc' = "data" /\ reader' = reader /\ got' = got
    BY <1>1, <1>2 DEF WaitWrite, Unseen
  <2>2. /\ Stream!Count' = Stream!Count /\ IsRead' = IsRead /\ Stream!Next
    BY <1>1, <2>1, UnseenStep DEF RangeInv, RangeTypeOK
  <2>3. RangeTypeOK'
    BY <1>1, <2>1 DEF RangeInv, RangeTypeOK, Storing
  <2>5. StageInv'
    BY <1>1, <2>1, <2>2 DEF RangeInv, StageInv, Reading, Storing, Resting
  <2>6. CleanInv'
    BY <1>1, <2>1, UnseenClean DEF RangeInv, RangeTypeOK
  <2> QED BY <2>2, <2>3, <2>5, <2>6 DEF Kept
<1>3. CASE ~(sii.command_error /\ retry_count < MaxRetries)
  <2>1. /\ reader' = [reader EXCEPT !.byte_pos = @ + 2] /\ rpc' = "word"
        /\ got' = IF Len(got) > 1 THEN SubSeq(got, 3, Len(got)) ELSE <<>>
    BY <1>3 DEF WaitWrite
  <2>2. reader' \in RangeType /\ reader'.byte_pos = reader.byte_pos + 2
        /\ reader'.end = reader.end
    BY <2>1, SMTT(60) DEF RangeInv, RangeTypeOK, RangeType
  <2>3. got' \in Seq(Byte)
    <3>1. CASE Len(got) > 1
      <4>1. IsSeq(got) /\ Elements(got) \subseteq Byte /\ Len(got) \in Nat
        BY IsSeqIntro DEF RangeInv, RangeTypeOK
      <4>2. 3 \in 1..(Len(got) + 1) /\ Len(got) \in (3 - 1)..Len(got)
        BY <3>1, <4>1
      <4>3. IsSeq(SubSeq(got, 3, Len(got)))
            /\ Elements(SubSeq(got, 3, Len(got))) \subseteq Elements(got)
        BY <4>1, <4>2, PartSeq
      <4> QED BY <2>1, <3>1, <4>1, <4>3, SeqOfElements
    <3>2. CASE ~(Len(got) > 1)
      BY <2>1, <3>2
    <3> QED BY <3>1, <3>2
  <2>4. RangeTypeOK'
    BY <1>1, <2>1, <2>2, <2>3 DEF RangeInv, RangeTypeOK
  <2>5. StageInv'
    BY <1>1, <2>1 DEF RangeInv, StageInv, Resting, Reading, Storing, IsRead
  <2>6. CleanInv'
    BY <1>1 DEF CleanInv
  <2>7. Stream!Advance
    BY <1>1, <2>2 DEF Stream!Advance
  <2>8. Stream!Next
    BY <1>1, <2>7 DEF Stream!Next, RangeInv, RangeTypeOK
  <2> QED BY <2>4, <2>5, <2>6, <2>8 DEF Kept
<1> QED BY <1>2, <1>3

LEMMA DevStoreKeeps ==
  ASSUME RangeInv, DevStore
  PROVE  Kept
<1>1. /\ sii.busy /\ sii.cmd = "write" /\ sii.addr \in asked
      /\ sii' \in SiiType /\ ~sii'.busy /\ sii'.cmd = sii.cmd
      /\ DOMAIN mem' = DOMAIN mem
      /\ UNCHANGED <<chunk_len, data, reader, want, got, delivered, rpc, asked, clean>>
  BY DEF DevStore, RangeInv, RangeTypeOK, StageInv, SiiType
<1>2. /\ mem' = [a \in DOMAIN mem' |-> mem'[a]]
      /\ \A a \in DOMAIN mem : a \div 2 # sii.addr => mem'[a] = mem[a]
  BY DEF DevStore
<1>3. \A a \in DOMAIN mem : mem'[a] \in Byte
  <2> TAKE a \in DOMAIN mem
  <2>1. a \in Nat /\ mem[a] \in Byte
    BY DEF RangeInv, RangeTypeOK
  <2>2. 1 + (a % 2) \in 1..Len(data)
    BY <2>1 DEF RangeInv, RangeTypeOK
  <2>3. data[1 + (a % 2)] \in Byte
    BY <2>2 DEF RangeInv, RangeTypeOK
  <2> QED BY <2>1, <2>3 DEF DevStore
<1>4. RangeTypeOK'
  BY <1>1, <1>2, <1>3 DEF RangeInv, RangeTypeOK
<1>5. Stream!Count' = Stream!Count /\ IsRead' = IsRead
  BY <1>1 DEF Stream!Count, Stream!Left, IsRead
<1>6. StageInv'
  BY <1>1, <1>5 DEF RangeInv, StageInv
<1>7. CleanInv'
  <2>1. SUFFICES ASSUME clean, want.kind \in {"read", "byte", "chunk"}
                 PROVE  /\ IsRead => got = BytesAt(mem', reader.byte_pos - Len(got), Len(got))
                        /\ rpc # "busy" /\ rpc # "fetch"
                        /\ ~sii'.busy
    BY <1>1, <1>5 DEF CleanInv, BytesAt, Stream!BytesAt, Stream!ByteAt
  <2>2. rpc # "busy" /\ rpc # "fetch" /\ (rpc = "start" => got = <<>>)
    BY <1>1, <2>1 DEF RangeInv, CleanInv
  <2>3. got = <<>>
    BY <2>1, <2>2 DEF RangeInv, RangeTypeOK, StageInv, Reading, Storing, Resting,
       Nothing, Stream!Nothing
  <2>4. <<>> = BytesAt(mem', reader.byte_pos - 0, 0)
    <3>1. IsMem(mem') /\ reader.byte_pos - 0 \in Int
      BY <1>1, <1>3 DEF RangeInv, RangeTypeOK, IsMem, RangeType
    <3> QED BY <3>1, BytesAtSeq, LengthZero
  <2> QED BY <1>1, <2>2, <2>3, <2>4
<1>8. Stream!Store
  BY <1>1, <1>2 DEF Stream!Store
<1>9. Stream!Next
  BY <1>1, <1>8 DEF Stream!Next, RangeInv, RangeTypeOK
<1> QED BY <1>4, <1>6, <1>7, <1>9 DEF Kept

\* The chunk in the data register, filled up with zeroes.
LEMMA ChunkSeq ==
  ASSUME RangeTypeOK
  PROVE  LET chunk == SubSeq(data \o [k \in 1..chunk_len |-> 0], 1, chunk_len)
         IN /\ IsSeq(chunk) /\ Len(chunk) = chunk_len /\ Elements(chunk) \subseteq Byte
            /\ Len(data) = chunk_len => chunk = data
<1> DEFINE z == [k \in 1..chunk_len |-> 0]
           w == data \o z
           chunk == SubSeq(w, 1, chunk_len)
<1>1. chunk_len \in Nat /\ IsSeq(data) /\ Elements(data) \subseteq Byte /\ Len(data) \in Nat
  BY IsSeqIntro DEF RangeTypeOK
<1>2. z \in Seq(Byte) /\ Len(z) = chunk_len
  BY <1>1 DEF Byte
<1>3. IsSeq(z) /\ Elements(z) \subseteq Byte
  BY <1>2, IsSeqIntro
<1> HIDE DEF z
<1>4. /\ IsSeq(w) /\ Len(w) = Len(data) + chunk_len
      /\ \A k \in 1..(Len(data) + Len(z)) :
           w[k] = IF k <= Len(data) THEN data[k] ELSE z[k - Len(data)]
      /\ Elements(w) = Elements(data) \cup Elements(z)
  BY <1>1, <1>2, <1>3, ConcatSeq
<1> HIDE DEF w
<1>5. 1 \in 1..(Len(w) + 1) /\ chunk_len \in (1 - 1)..Len(w) /\ chunk_len - 1 + 1 = chunk_len
  BY <1>1, <1>4
<1>6. /\ IsSeq(chunk) /\ Len(chunk) = chunk_len /\ Elements(chunk) \subseteq Elements(w)
      /\ \A k \in 1..chunk_len : chunk[k] = w[1 + k - 1]
  BY <1>4, <1>5, PartSeq
<1> HIDE DEF chunk
<1>7. ASSUME Len(data) = chunk_len PROVE chunk = data
  <2>1. \A k \in 1..chunk_len : chunk[k] = data[k]
    <3> TAKE k \in 1..chunk_len
    <3>1. 1 + k - 1 = k /\ k \in 1..(Len(data) + Len(z)) /\ k <= Len(data)
      BY <1>1, <1>2, <1>7
    <3>2. w[k] = data[k]
      BY <3>1, <1>4
    <3> QED BY <3>1, <3>2, <1>6
  <2> QED BY <1>1, <1>6, <1>7, <2>1, SameSeq
<1>8. Elements(chunk) \subseteq Byte
  BY <1>1, <1>3, <1>4, <1>6
<1> QED BY <1>6, <1>7, <1>8 DEF chunk, w, z

LEMMA CountTypes ==
  ASSUME RangeTypeOK
  PROVE  Stream!Count \in Nat /\ (want.kind = "byte" => Stream!Count = 1)
BY DEF Stream!Count, Stream!Left, RangeTypeOK, RangeType, WantType

\* A chunk for the search of a category is delivered as it is.
LEMMA FetchForSearch ==
  ASSUME RangeInv, FetchChunk, want.kind = "chunk"
  PROVE  /\ Kept /\ rpc' = "done" /\ Len(delivered') \in {4, 8}
         /\ UNCHANGED <<mem, reader, asked, clean>>
         /\ clean => delivered' = BytesAt(mem, 2 * want.n, Len(delivered'))
<1> DEFINE chunk == SubSeq(data \o [k \in 1..chunk_len |-> 0], 1, chunk_len)
<1>1. /\ rpc = "fetch" /\ got = <<>>
      /\ reader' = reader /\ delivered' = got \o chunk
      /\ want' = Nothing /\ got' = <<>> /\ rpc' = "done"
      /\ UNCHANGED <<mem, chunk_len, sii, data, asked, clean>>
  BY DEF FetchChunk, Finish, RangeInv, StageInv
<1>2. /\ IsSeq(chunk) /\ Len(chunk) = chunk_len /\ Elements(chunk) \subseteq Byte
      /\ Len(data) = chunk_len => chunk = data
  BY ChunkSeq DEF RangeInv
<1> HIDE DEF chunk
<1>3. chunk \in Seq(Byte)
  BY <1>2, SeqOfElements
<1>4. delivered' = chunk
  BY <1>1, <1>3
<1>5. chunk_len \in {4, 8} /\ chunk_len \in Nat
  BY DEF RangeInv, RangeTypeOK
<1>6. RangeTypeOK'
  BY <1>1, <1>3, <1>4 DEF RangeInv, RangeTypeOK, Resting, Nothing, Stream!Nothing, WantType
<1>7. StageInv'
  BY <1>1 DEF RangeInv, StageInv, Resting, Reading, Storing, Nothing, Stream!Nothing, IsRead
<1>8. CleanInv'
  BY <1>1 DEF CleanInv, Nothing, Stream!Nothing
<1>9. ASSUME clean PROVE chunk = BytesAt(mem, 2 * want.n, chunk_len)
  <2>1. data = BytesAt(mem, 2 * want.n, chunk_len)
    BY <1>1, <1>9 DEF RangeInv, CleanInv, StartWord, BytesAt
  <2>2. IsMem(mem) /\ 2 * want.n \in Int
    BY DEF RangeInv, RangeTypeOK, IsMem, WantType
  <2>3. Len(data) = chunk_len
    BY <1>5, <2>1, <2>2, BytesAtSeq
  <2> QED BY <1>2, <2>1, <2>3
<1>10. Stream!DeliverChunk
  BY <1>1, <1>2, <1>4, <1>5, <1>9 DEF Stream!DeliverChunk, Nothing, Stream!Nothing, BytesAt
<1>11. Stream!Next
  BY <1>1, <1>10 DEF Stream!Next, RangeInv, RangeTypeOK
<1> QED BY <1>1, <1>2, <1>4, <1>5, <1>6, <1>7, <1>8, <1>9, <1>11 DEF Kept

\* A chunk for a read: the bytes it lacks, the last of them or not.
LEMMA FetchForRead ==
  ASSUME RangeInv, FetchChunk, want.kind # "chunk"
  PROVE  /\ Kept /\ mem' = mem /\ clean' = clean
         /\ want.kind = "byte" /\ rpc' = "done" => Len(delivered') = 1
         /\ asked' = asked /\ reader'.end = reader.end
         /\ \/ /\ rpc' = "done" /\ Len(delivered') \in Nat /\ Len(delivered') = Stream!Count
               /\ reader'.byte_pos = reader.byte_pos - Len(got) + Stream!Count
               /\ clean => delivered' = BytesAt(mem, reader.byte_pos - Len(got),
                                               Len(delivered'))
            \/ /\ rpc' = "start" /\ want' = want
               /\ reader'.byte_pos - Len(got') = reader.byte_pos - Len(got)
<1> DEFINE chunk == SubSeq(data \o [k \in 1..chunk_len |-> 0], 1, chunk_len)
           part == Usable(chunk, Missing)
           start == reader.byte_pos - Len(got)
<1>1. /\ rpc = "fetch" /\ IsRead /\ want # Nothing
      /\ reader' = [reader EXCEPT !.byte_pos = @ + Len(part)]
      /\ UNCHANGED <<mem, chunk_len, sii, data, asked, clean>>
      /\ IF Len(part) = Missing THEN Finish(got \o part)
         ELSE got' = got \o part /\ rpc' = "start" /\ UNCHANGED <<want, delivered>>
  BY DEF FetchChunk, RangeInv, StageInv, Reading, Resting, IsRead
<1>2. /\ IsSeq(chunk) /\ Len(chunk) = chunk_len /\ Elements(chunk) \subseteq Byte
      /\ Len(data) = chunk_len => chunk = data
  BY ChunkSeq DEF RangeInv
<1>3. /\ chunk_len \in {4, 8} /\ chunk_len \in Nat /\ chunk_len >= 4
      /\ reader \in RangeType /\ reader.byte_pos \in Nat
      /\ got \in Seq(Byte) /\ Len(got) \in Nat /\ IsSeq(got) /\ Elements(got) \subseteq Byte
      /\ IsMem(mem)
  BY IsSeqIntro DEF RangeInv, RangeTypeOK, RangeType, IsMem
<1>4. Stream!Count \in Nat /\ (want.kind = "byte" => Stream!Count = 1)
      /\ Len(got) <= Stream!Count
  BY <1>1, CountTypes DEF RangeInv, StageInv
<1>5. Missing \in Nat /\ Missing = Stream!Count - Len(got)
  BY <1>3, <1>4 DEF Missing
<1> HIDE DEF chunk
<1>6. /\ IsSeq(part) /\ Elements(part) \subseteq Elements(chunk)
      /\ Len(part) = IF Missing < Len(chunk) - (reader.byte_pos % 2) THEN Missing
                     ELSE Len(chunk) - (reader.byte_pos % 2)
  BY <1>2, <1>3, <1>5, UsablePart
<1>7. reader.byte_pos % 2 \in 0..1
  BY <1>3
<1>8. Len(part) \in Nat /\ Len(part) <= Missing
  BY <1>2, <1>3, <1>5, <1>6, <1>7
<1>9. /\ got \o part \in Seq(Byte) /\ Len(got \o part) = Len(got) + Len(part)
  <2>1. IsSeq(got \o part) /\ Len(got \o part) = Len(got) + Len(part)
        /\ Elements(got \o part) = Elements(got) \cup Elements(part)
    BY <1>3, <1>6, ConcatSeq
  <2> QED BY <1>2, <1>3, <1>6, <2>1, SeqOfElements
\* If nothing disturbed the read.
<1>10. ASSUME clean
       PROVE  got \o part = BytesAt(mem, start, Len(got) + Len(part))
  <2>1. /\ got = BytesAt(mem, start, Len(got))
        /\ data = BytesAt(mem, 2 * (reader.byte_pos \div 2), chunk_len)
    BY <1>1, <1>10 DEF RangeInv, CleanInv, StartWord, BytesAt, IsRead
  <2>2. 2 * (reader.byte_pos \div 2) \in Int
    BY <1>3
  <2>3. Len(data) = chunk_len
    BY <1>3, <2>1, <2>2, BytesAtSeq
  <2>4. chunk = BytesAt(mem, 2 * (reader.byte_pos \div 2), chunk_len)
    BY <1>2, <2>1, <2>3
  <2>5. part = BytesAt(mem, reader.byte_pos, Len(part))
    BY <1>3, <1>5, <2>4, UsableBytes
  <2>6. start \in Int /\ start + Len(got) = reader.byte_pos
    BY <1>3
  <2> HIDE DEF part, start
  <2>7. BytesAt(mem, start, Len(got)) \o BytesAt(mem, start + Len(got), Len(part))
        = BytesAt(mem, start, Len(got) + Len(part))
    BY <1>3, <1>8, <2>6, BytesJoin
  <2> QED BY <2>1, <2>5, <2>6, <2>7
<1> HIDE DEF part
<1>11. reader' \in RangeType /\ reader'.byte_pos = reader.byte_pos + Len(part)
       /\ reader'.end = reader.end
  BY <1>1, <1>3, <1>8 DEF RangeType
<1>12. CASE Len(part) = Missing
  <2>1. /\ delivered' = got \o part /\ want' = Nothing /\ got' = <<>> /\ rpc' = "done"
    BY <1>1, <1>12 DEF Finish
  <2>2. Len(got) + Len(part) = Stream!Count
    BY <1>3, <1>4, <1>5, <1>8, <1>12
  <2>3. RangeTypeOK'
    BY <1>1, <1>9, <1>11, <2>1 DEF RangeInv, RangeTypeOK, Resting, Nothing,
       Stream!Nothing, WantType
  <2>4. StageInv'
    BY <1>1, <2>1 DEF RangeInv, StageInv, Resting, Reading, Storing, Nothing,
       Stream!Nothing, IsRead
  <2>5. CleanInv'
    BY <2>1 DEF CleanInv, Nothing, Stream!Nothing
  <2>6. reader.byte_pos + Len(part) = start + Stream!Count
    BY <1>3, <1>4, <1>8, <2>2
  <2>7. Stream!Deliver
    BY <1>1, <1>9, <1>10, <1>11, <2>1, <2>2, <2>6
       DEF Stream!Deliver, Nothing, Stream!Nothing, BytesAt, IsRead
  <2>8. Stream!Next
    BY <1>1, <2>7 DEF Stream!Next, RangeInv, RangeTypeOK
  <2>9. clean => delivered' = BytesAt(mem, start, Len(delivered'))
    BY <1>9, <1>10, <2>1
  <2>10. reader'.byte_pos = start + Stream!Count
    BY <1>11, <2>6
  <2> QED BY <1>1, <1>3, <1>4, <1>8, <1>9, <1>11, <2>1, <2>2, <2>3, <2>4, <2>5, <2>8, <2>9,
             <2>10 DEF Kept
<1>13. CASE Len(part) # Missing
  <2>1. got' = got \o part /\ rpc' = "start" /\ want' = want /\ delivered' = delivered
    BY <1>1, <1>13
  <2>2. Len(got') = Len(got) + Len(part) /\ Len(got') <= Stream!Count
    BY <1>3, <1>4, <1>5, <1>8, <1>9, <2>1
  <2>3. reader'.byte_pos - Len(got') = start
    BY <1>3, <1>8, <1>11, <2>2
  <2>4. Stream!Count' = Stream!Count /\ IsRead' = IsRead
    BY <1>1, <1>11, <2>1, <2>3 DEF Stream!Count, Stream!Left, IsRead
  <2>5. RangeTypeOK'
    BY <1>1, <1>9, <1>11, <2>1 DEF RangeInv, RangeTypeOK, Reading
  <2>6. StageInv'
    BY <1>1, <2>1, <2>2, <2>4 DEF RangeInv, StageInv, Resting, Reading, Storing, IsRead
  <2>7. CleanInv'
    <3>1. SUFFICES ASSUME clean
                   PROVE  got' = BytesAt(mem, start, Len(got')) /\ ~sii.busy
      BY <1>1, <2>1, <2>3 DEF CleanInv, BytesAt, Stream!BytesAt, Stream!ByteAt
    <3>2. ~sii.busy
      BY <1>1, <3>1 DEF RangeInv, CleanInv, IsRead
    <3> QED BY <1>10, <2>1, <2>2, <3>1, <3>2
  <2>8. Stream!Next
    BY <1>1, <1>11, <2>1, <2>3 DEF Stream!Next, RangeInv, RangeTypeOK, IsRead
  <2> QED BY <1>1, <1>11, <2>1, <2>3, <2>5, <2>6, <2>7, <2>8 DEF Kept
<1> QED BY <1>12, <1>13

-----------------------------------------------------------------------------
\* The steps of a call: each begins something in a range, or returns.

Starts ==
  /\ rpc \in Resting
  /\ reader' \in RangeType /\ delivered' = <<>> /\ clean' \in BOOLEAN
  /\ UNCHANGED <<mem, chunk_len, sii, data, asked>>
  /\ want' \in WantType /\ got' \in Seq(Byte)
  /\ \/ rpc' = "idle" /\ want' = Nothing /\ got' = <<>>
     \/ rpc' = "ask" /\ want'.kind = "read" /\ got' = <<>>
     \/ rpc' = "clear" /\ want'.kind = "byte" /\ got' = <<>>
     \/ rpc' = "start" /\ want'.kind = "chunk" /\ got' = <<>>
     \/ rpc' = "word" /\ want'.kind = "write"

LEMMA StartsKeeps ==
  ASSUME RangeInv, Starts
  PROVE  Kept
<1>1. want = Nothing
  BY DEF Starts, RangeInv, StageInv
<1>2. RangeTypeOK'
  BY DEF Starts, RangeInv, RangeTypeOK, Reading, Resting
<1>3. want'.kind \in {"read", "byte"} => got' = <<>> /\ Len(got') = 0
  BY DEF Starts, Nothing, Stream!Nothing
<1>4. Stream!Count' \in Nat
  BY <1>2 DEF Stream!Count, Stream!Left, RangeTypeOK, RangeType, WantType
<1>5. StageInv'
  BY <1>3, <1>4 DEF Starts, RangeInv, StageInv, Resting, Reading, Storing, Nothing,
     Stream!Nothing, IsRead
<1>6. <<>> = BytesAt(mem', reader'.byte_pos - 0, 0)
  <2>1. IsMem(mem') /\ reader'.byte_pos - 0 \in Int
    BY <1>2 DEF RangeTypeOK, IsMem, RangeType
  <2> QED BY <2>1, BytesAtSeq, LengthZero
<1>7. CleanInv'
  BY <1>3, <1>6 DEF Starts, CleanInv, IsRead, BytesAt, Nothing, Stream!Nothing
<1>8. Stream!Begin
  <2>1. reader'.byte_pos \in Nat /\ reader'.end \in Nat
    BY DEF Starts, RangeType
  <2>2. (IF want'.kind \in {"read", "byte"} THEN reader'.byte_pos - Len(got')
         ELSE reader'.byte_pos) \in Nat
    BY <1>3, <2>1
  <2> QED BY <1>1, <2>1, <2>2 DEF Starts, Stream!Begin, Nothing, Stream!Nothing
<1>9. Stream!Next
  BY <1>8 DEF Starts, Stream!Next
<1> QED BY <1>2, <1>5, <1>7, <1>9 DEF Kept

Started == Starts /\ CallInv'

\* What every step of a call has in common.
Client == rpc \in Resting /\ clean' \in BOOLEAN /\ calls' \in Nat

LEMMA ReturnStarts ==
  ASSUME RangeInv, Client, NEW c, NEW tag, NEW value, Return(c, tag, value)
  PROVE  Started
<1>1. Starts
  BY DEF Client, Return, Starts, RangeInv, RangeTypeOK, StageInv, RangeType, NoRange
<1>2. call' = NoCall /\ rpc' = "idle"
  BY DEF Return
<1>3. GoodCall(NoCall)
  BY DEF GoodCall, IsCallRecord, CallFields, NoCall
<1>4. CallInv'
  BY <1>2, <1>3 DEF CallInv, Client, Resting
<1> QED BY <1>1, <1>4 DEF Started

LEMMA ReadStarts ==
  ASSUME RangeInv, Client, NEW n \in Nat, Read(n), reader' \in RangeType,
         NEW c, GoodCall(c), c.phase \in ReadPhases, call' = c
  PROVE  Started
<1>1. Starts
  BY DEF Client, Read, Operate, Starts, WantType
<1>2. CallInv'
  BY DEF Client, Read, Operate, CallInv, KindOf, ReadPhases
<1> QED BY <1>1, <1>2 DEF Started

LEMMA ReadByteStarts ==
  ASSUME RangeInv, Client, ReadByte, reader' \in RangeType,
         NEW c, GoodCall(c), c.phase \in {"num", "len"}, call' = c
  PROVE  Started
<1>1. Starts
  BY DEF Client, ReadByte, Operate, Starts, WantType
<1>2. CallInv'
  BY DEF Client, ReadByte, Operate, CallInv, KindOf
<1> QED BY <1>1, <1>2 DEF Started

LEMMA ReadChunkStarts ==
  ASSUME RangeInv, Client, NEW word \in Nat, ReadChunk(word), reader' \in RangeType,
         NEW c, GoodCall(c), c.phase = "category", call' = c
  PROVE  Started
<1>1. Starts
  BY DEF Client, ReadChunk, Operate, Starts, WantType
<1>2. CallInv'
  BY DEF Client, ReadChunk, Operate, CallInv, KindOf
<1> QED BY <1>1, <1>2 DEF Started

LEMMA WriteStarts ==
  ASSUME RangeInv, Client, NEW bytes \in Seq(Byte), Write(bytes), reader' \in RangeType,
         NEW c, GoodCall(c), c.phase \in {"write", "alias", "checksum"}, call' = c
  PROVE  Started
<1>1. Starts
  BY DEF Client, Write, Operate, Starts, WantType
<1>2. CallInv'
  BY DEF Client, Write, Operate, CallInv, KindOf
<1> QED BY <1>1, <1>2 DEF Started

LEMMA NewRangeType ==
  ASSUME NEW start_word \in Nat, NEW len_words \in Nat, NewRange(start_word, len_words)
  PROVE  reader' \in RangeType
BY DEF NewRange, RangeType

\* A search begins at the first category.
LEMMA SearchStarts ==
  ASSUME RangeInv, Client, NEW c, IsCallRecord(c), NEW cat,
         cat = General => c.op \in GeneralOps, Search(c, cat)
  PROVE  Started
<1> DEFINE d == [c EXCEPT !.phase = "category", !.cat = cat, !.word_addr = FirstCategory,
                          !.empty = 0]
<1>1. /\ ReadChunk(FirstCategory) /\ call' = d /\ reader' = reader /\ FirstCategory \in Nat
      /\ reader \in RangeType
  BY EepromAssumption DEF Search, Stay, GoOn, RangeInv, RangeTypeOK
<1>2. IsCallRecord(d) /\ d.phase = "category" /\ d.cat = cat /\ d.op = c.op
      /\ d.word_addr = FirstCategory
  BY DEF IsCallRecord, CallFields
<1> HIDE DEF d
<1>3. GoodCall(d)
  BY <1>1, <1>2 DEF GoodCall, ReadPhases
<1> QED BY <1>1, <1>2, <1>3, ReadChunkStarts

LEMMA FindStringStarts ==
  ASSUME RangeInv, Client, NEW c, IsCallRecord(c), NEW index, FindString(c, index)
  PROVE  Started
<1>1. CASE index = 0
  BY <1>1, ReturnStarts DEF FindString
<1>2. CASE index # 0
  <2> DEFINE d == [c EXCEPT !.left = index - 1]
  <2>1. Search(d, Strings) /\ IsCallRecord(d) /\ Strings # General
    BY <1>2 DEF FindString, IsCallRecord, CallFields, Strings, General
  <2> HIDE DEF d
  <2> QED BY <2>1, SearchStarts
<1> QED BY <1>1, <1>2

LEMMA NotFoundStarts ==
  ASSUME RangeInv, Client, NEW c, NotFound(c)
  PROVE  Started
<1>1. \E tag : Return(c, tag, <<>>)
  BY DEF NotFound
<1> QED BY <1>1, ReturnStarts

LEMMA FoundStarts ==
  ASSUME RangeInv, Client, NEW c, GoodCall(c), c.phase = "category",
         NEW start_word \in Nat, NEW len_words \in Nat, Found(c, start_word, len_words)
  PROVE  Started
<1>1. reader' \in RangeType
  BY NewRangeType DEF Found
<1>2. CASE c.cat = Strings
  <2> DEFINE d == [c EXCEPT !.phase = "num"]
  <2>1. ReadByte /\ call' = d
    BY <1>2 DEF Found, GoOn, Strings, General, Fmmu
  <2>2. GoodCall(d) /\ d.phase = "num"
    BY DEF GoodCall, IsCallRecord, CallFields, ReadPhases
  <2> HIDE DEF d
  <2> QED BY <1>1, <2>1, <2>2, ReadByteStarts
<1>3. CASE c.cat = General
  <2> DEFINE d == [c EXCEPT !.phase = "general"]
  <2>1. Read(GeneralLen) /\ GeneralLen \in Nat /\ call' = d
    BY <1>3 DEF Found, GoOn, Strings, General, Fmmu, GeneralLen
  <2>2. GoodCall(d) /\ d.phase = "general"
    BY <1>3 DEF GoodCall, IsCallRecord, CallFields, ReadPhases
  <2> HIDE DEF d
  <2> QED BY <1>1, <2>1, <2>2, ReadStarts DEF ReadPhases
<1>4. CASE c.cat = Fmmu
  <2> DEFINE d == [c EXCEPT !.phase = "fmmus"]
  <2>1. Read(16) /\ 16 \in Nat /\ call' = d
    BY <1>4 DEF Found, GoOn, Strings, General, Fmmu
  <2>2. GoodCall(d) /\ d.phase = "fmmus"
    BY DEF GoodCall, IsCallRecord, CallFields, ReadPhases
  <2> HIDE DEF d
  <2> QED BY <1>1, <2>1, <2>2, ReadStarts DEF ReadPhases
<1>5. CASE c.cat \notin {Strings, General, Fmmu}
  <2> DEFINE d == [c EXCEPT !.phase = "items"]
  <2>1. Read(ItemLen(c.op)) /\ ItemLen(c.op) \in Nat /\ call' = d
    BY <1>5 DEF Found, GoOn, ItemLen
  <2>2. GoodCall(d) /\ d.phase = "items"
    BY DEF GoodCall, IsCallRecord, CallFields, ReadPhases
  <2> HIDE DEF d
  <2> QED BY <1>1, <2>1, <2>2, ReadStarts DEF ReadPhases
<1> QED BY <1>2, <1>3, <1>4, <1>5

\* The steps of a call, one by one.

LEMMA BeginStarts ==
  ASSUME RangeInv, CallInv, Begin
  PROVE  Started
<1>1. Client /\ rpc = "idle"
  BY SMTT(40) DEF Begin, Client, CallInv, Resting
<1>2. PICK k \in Calls[calls + 1] :
        LET c == [NoCall EXCEPT !.op = k.op, !.arg = k.arg] IN
        CASE k.op = "read" ->
               StartAt([c EXCEPT !.phase = "read"], k.arg.word, k.arg.len, Read(k.arg.len))
          [] k.op = "write" ->
               StartAt([c EXCEPT !.phase = "write"], k.arg.word, Len(k.arg.bytes),
                       Write(k.arg.bytes))
          [] k.op = "set_station_alias" ->
               StartAt([c EXCEPT !.phase = "head"], 0, 14, Read(14))
          [] k.op = "find_string" -> FindString(c, k.arg)
          [] OTHER -> Search(c, Category(k.op))
  BY DEF Begin
<1>3. IsCall(k)
  <2>1. calls + 1 \in 1..Len(Calls)
    BY DataAssumption DEF Begin, CallInv
  <2> QED BY <2>1, DataAssumption
<1> DEFINE c == [NoCall EXCEPT !.op = k.op, !.arg = k.arg]
<1>4. IsCallRecord(c) /\ c.op = k.op /\ c.arg = k.arg /\ c.word_addr = 0
  BY DEF IsCallRecord, CallFields, NoCall
<1> HIDE DEF c
<1>6. CASE k.op = "read"
  <2> DEFINE d == [c EXCEPT !.phase = "read"]
  <2>1. StartAt(d, k.arg.word, k.arg.len, Read(k.arg.len))
    BY <1>2, <1>6 DEF c
  <2>2. k.arg.word \in Nat /\ k.arg.len \in Nat
    BY <1>3, <1>6 DEF IsCall
  <2>3. GoodCall(d) /\ d.phase = "read"
    BY <1>4 DEF GoodCall, IsCallRecord, CallFields, ReadPhases
  <2> HIDE DEF d
  <2>4. CASE RangeFits(k.arg.word, k.arg.len \div 2)
    <3>1. NewRange(k.arg.word, k.arg.len \div 2) /\ Read(k.arg.len) /\ call' = d
      BY <2>1, <2>4 DEF StartAt, GoOn
    <3>2. k.arg.len \div 2 \in Nat
      BY <2>2
    <3>3. reader' \in RangeType
      BY <2>2, <3>1, <3>2, NewRangeType
    <3> QED BY <1>1, <2>2, <2>3, <3>1, <3>3, ReadStarts DEF ReadPhases
  <2>5. CASE ~RangeFits(k.arg.word, k.arg.len \div 2)
    BY <1>1, <2>1, <2>5, ReturnStarts DEF StartAt
  <2> QED BY <2>4, <2>5
<1>7. CASE k.op = "write"
  <2> DEFINE d == [c EXCEPT !.phase = "write"]
             b == k.arg.bytes
  <2>1. StartAt(d, k.arg.word, Len(b), Write(b))
    BY <1>2, <1>7 DEF c
  <2>2. k.arg.word \in Nat /\ b \in Seq(Byte)
    BY <1>3, <1>7 DEF IsCall
  <2>3. GoodCall(d) /\ d.phase = "write"
    BY <1>4 DEF GoodCall, IsCallRecord, CallFields, ReadPhases
  <2> HIDE DEF d, b
  <2>4. CASE RangeFits(k.arg.word, Len(b) \div 2)
    <3>1. NewRange(k.arg.word, Len(b) \div 2) /\ Write(b) /\ call' = d
      BY <2>1, <2>4 DEF StartAt, GoOn
    <3>2. Len(b) \div 2 \in Nat
      BY <2>2
    <3>3. reader' \in RangeType
      BY <2>2, <3>1, <3>2, NewRangeType
    <3> QED BY <1>1, <2>2, <2>3, <3>1, <3>3, WriteStarts
  <2>5. CASE ~RangeFits(k.arg.word, Len(b) \div 2)
    BY <1>1, <2>1, <2>5, ReturnStarts DEF StartAt
  <2> QED BY <2>4, <2>5
<1>8. CASE k.op = "set_station_alias"
  <2> DEFINE d == [c EXCEPT !.phase = "head"]
  <2>1. StartAt(d, 0, 14, Read(14))
    BY <1>2, <1>8 DEF c
  <2>2. k.arg \in Seq(Byte) /\ Len(k.arg) = 2
    BY <1>3, <1>8 DEF IsCall
  <2>2a. IsCallRecord(d) /\ d.phase = "head" /\ d.arg = k.arg /\ d.word_addr = 0
    BY <1>4 DEF IsCallRecord, CallFields
  <2> HIDE DEF d
  <2>3. GoodCall(d) /\ d.phase = "head"
    BY <2>2, <2>2a DEF GoodCall, ReadPhases
  <2>4. CASE RangeFits(0, 14 \div 2)
    <3>1. NewRange(0, 14 \div 2) /\ Read(14) /\ call' = d
      BY <2>1, <2>4 DEF StartAt, GoOn
    <3>2. 14 \div 2 \in Nat /\ 0 \in Nat /\ 14 \in Nat
      OBVIOUS
    <3>3. reader' \in RangeType
      BY <3>1, <3>2, NewRangeType
    <3> QED BY <1>1, <2>3, <3>1, <3>2, <3>3, ReadStarts DEF ReadPhases
  <2>5. CASE ~RangeFits(0, 14 \div 2)
    BY <1>1, <2>1, <2>5, ReturnStarts DEF StartAt
  <2> QED BY <2>4, <2>5
<1>9. CASE k.op = "find_string"
  <2>1. FindString(c, k.arg)
    BY <1>2, <1>9 DEF c
  <2> QED BY <1>1, <1>4, <2>1, FindStringStarts
<1>10. CASE k.op \notin {"read", "write", "set_station_alias", "find_string"}
  <2>1. Search(c, Category(k.op))
    BY <1>2, <1>10 DEF c
  <2>2. k.op \in Lists \cup GeneralOps
    BY <1>3, <1>10 DEF IsCall
  <2>3. Category(k.op) = General => c.op \in GeneralOps
    BY <1>4, <2>2 DEF Category, Lists, GeneralOps, General, Fmmu, SyncManager,
       FmmuExtended, TxPdo, RxPdo
  <2> QED BY <1>1, <1>4, <2>1, <2>3, SearchStarts
<1> QED BY <1>6, <1>7, <1>8, <1>9, <1>10

LEMMA ContinueClient ==
  ASSUME RangeInv, CallInv, NEW phase, Continue(phase)
  PROVE  /\ Client /\ call.phase = phase /\ GoodCall(call) /\ IsCallRecord(call)
         /\ rpc = "done" /\ delivered \in Seq(Byte) /\ Len(delivered) \in Nat
         /\ \A k \in 1..Len(delivered) : delivered[k] \in Byte
BY DEF RangeInv, RangeTypeOK, CallInv, Continue, Client, GoodCall, Resting

LEMMA SearchCategoryStarts ==
  ASSUME RangeInv, CallInv, SearchCategory
  PROVE  Started
<1>1. Client /\ call.phase = "category" /\ GoodCall(call) /\ rpc = "done"
      /\ IsCallRecord(call)
      /\ \A k \in 1..Len(delivered) : delivered[k] \in Byte
  BY ContinueClient DEF SearchCategory
<1>2. Len(delivered) >= 4 /\ Len(delivered) \in Nat /\ call.word_addr \in Nat
  BY <1>1 DEF CallInv, GoodCall, RangeInv, RangeTypeOK
<1> DEFINE type == U16At(1)
           len_words == U16At(3)
           start == call.word_addr + 2
           next == NextCategory(call.word_addr, len_words)
           empty == call.empty + (IF len_words = 0 THEN 1 ELSE 0)
<1>3. len_words \in Nat
  <2>1. delivered[3] \in Byte /\ delivered[4] \in Byte
    BY <1>1, <1>2
  <2>2. delivered[3 + 1] \in Byte
    BY <2>1
  <2>3. \A x, y \in Byte : x + 256 * y \in Nat
    BY DEF Byte
  <2> QED BY <2>1, <2>2, <2>3 DEF U16At
<1>4. start \in Nat /\ next \in Nat
  BY <1>2, <1>3 DEF NextCategory
<1>5. \/ NotFound(call)
      \/ Found(call, start, len_words)
      \/ Return(call, "panic", <<>>)
      \/ ReadChunk(next) /\ Stay([call EXCEPT !.word_addr = next, !.empty = empty])
  <2> HIDE DEF type, len_words, start, next, empty
  <2>1. (CASE start >= U16 \/ empty >= MaxEmpty -> NotFound(call)
          [] start < U16 /\ empty < MaxEmpty /\ type = call.cat ->
               IF RangeFits(start, len_words) THEN Found(call, start, len_words)
               ELSE Return(call, "panic", <<>>)
          [] start < U16 /\ empty < MaxEmpty /\ type = End /\ type # call.cat ->
               NotFound(call)
          [] OTHER ->
               IF next >= U16 THEN Return(call, "panic", <<>>)
               ELSE /\ ReadChunk(next)
                    /\ Stay([call EXCEPT !.word_addr = next, !.empty = empty]))
    BY DEF SearchCategory, type, len_words, start, next, empty
  <2> QED BY <2>1
<1> HIDE DEF len_words, start, next, empty
<1>6. CASE NotFound(call)
  BY <1>1, <1>6, NotFoundStarts
<1>7. CASE Found(call, start, len_words)
  BY <1>1, <1>3, <1>4, <1>7, FoundStarts
<1>8. CASE Return(call, "panic", <<>>)
  BY <1>1, <1>8, ReturnStarts
<1>9. CASE ReadChunk(next) /\ Stay([call EXCEPT !.word_addr = next, !.empty = empty])
  <2> DEFINE d == [call EXCEPT !.word_addr = next, !.empty = empty]
  <2>1. IsCallRecord(d) /\ d.phase = "category" /\ d.cat = call.cat /\ d.op = call.op
        /\ d.word_addr = next
    BY <1>1 DEF IsCallRecord, CallFields
  <2>2. ReadChunk(next) /\ call' = d /\ reader' = reader /\ reader \in RangeType
    BY <1>9 DEF Stay, GoOn, RangeInv, RangeTypeOK
  <2> HIDE DEF d
  <2>3. GoodCall(d)
    BY <1>1, <1>4, <2>1 DEF GoodCall, ReadPhases
  <2> QED BY <1>1, <1>4, <2>1, <2>2, <2>3, ReadChunkStarts
<1> QED BY <1>5, <1>6, <1>7, <1>8, <1>9

\* These return, whatever was read.
LEMMA ReturningStarts ==
  ASSUME RangeInv, CallInv,
         ReadDone \/ WriteDone \/ FmmusDone \/ StringDone \/ ChecksumDone \/ CallFails
  PROVE  Started
<1>1. \E tag, value : Return(call, tag, value)
  BY DEF ReadDone, WriteDone, FmmusDone, StringDone, ChecksumDone, CallFails
<1>2. Client
  BY DEF ReadDone, WriteDone, FmmusDone, StringDone, ChecksumDone, CallFails, Continue,
     Client, CallInv, RangeInv, RangeTypeOK, Resting
<1> QED BY <1>1, <1>2, ReturnStarts

LEMMA GeneralDoneStarts ==
  ASSUME RangeInv, CallInv, GeneralDone
  PROVE  Started
<1>1. Client /\ call.phase = "general" /\ GoodCall(call) /\ IsCallRecord(call)
  BY ContinueClient DEF GeneralDone
<1>2. call.op \in GeneralOps
  BY <1>1 DEF GoodCall
<1>3. (\E tag, value : Return(call, tag, value)) \/ (\E index : FindString(call, index))
  BY <1>2 DEF GeneralDone, GeneralOps
<1> QED BY <1>1, <1>3, ReturnStarts, FindStringStarts

\* Another item is read, unless the list is full.
LEMMA PushStarts ==
  ASSUME RangeInv, Client, NEW c, IsCallRecord(c), c.word_addr \in Nat, NEW item,
         Push(c, item)
  PROVE  Started
<1>1. CASE Len(c.list) < MaxItems
  <2> DEFINE d == [c EXCEPT !.phase = "items", !.list = Append(@, item)]
  <2>1. Read(ItemLen(c.op)) /\ call' = d /\ reader' = reader /\ reader \in RangeType
        /\ ItemLen(c.op) \in Nat
    BY <1>1 DEF Push, Stay, GoOn, RangeInv, RangeTypeOK, ItemLen
  <2>2. IsCallRecord(d) /\ d.phase = "items" /\ d.word_addr = c.word_addr
    BY DEF IsCallRecord, CallFields
  <2> HIDE DEF d
  <2>3. GoodCall(d)
    BY <2>2 DEF GoodCall, ReadPhases
  <2> QED BY <2>1, <2>2, <2>3, ReadStarts DEF ReadPhases
<1>2. CASE ~(Len(c.list) < MaxItems)
  BY <1>2, ReturnStarts DEF Push
<1> QED BY <1>1, <1>2

LEMMA NextItemStarts ==
  ASSUME RangeInv, CallInv, NextItem
  PROVE  Started
<1>1. Client /\ call.phase = "items" /\ GoodCall(call) /\ IsCallRecord(call)
      /\ call.word_addr \in Nat
  BY ContinueClient DEF NextItem, GoodCall
<1> DEFINE d == [call EXCEPT !.phase = "entries", !.left = delivered[3],
                             !.sync_manager = delivered[4], !.sum = 0]
<1>2. \/ \E tag, value : Return(call, tag, value)
      \/ Read(ItemLen(call.op)) /\ Stay(d)
      \/ \E item : Push(call, item)
  BY DEF NextItem
<1>3. CASE Read(ItemLen(call.op)) /\ Stay(d)
  <2>1. Read(ItemLen(call.op)) /\ call' = d /\ reader' = reader /\ reader \in RangeType
        /\ ItemLen(call.op) \in Nat
    BY <1>3 DEF Stay, GoOn, RangeInv, RangeTypeOK, ItemLen
  <2>2. IsCallRecord(d) /\ d.phase = "entries" /\ d.word_addr = call.word_addr
    BY <1>1 DEF IsCallRecord, CallFields
  <2> HIDE DEF d
  <2>3. GoodCall(d)
    BY <1>1, <2>2 DEF GoodCall, ReadPhases
  <2> QED BY <1>1, <2>1, <2>2, <2>3, ReadStarts DEF ReadPhases
<1> QED BY <1>1, <1>2, <1>3, ReturnStarts, PushStarts

LEMMA NextEntryStarts ==
  ASSUME RangeInv, CallInv, NextEntry
  PROVE  Started
<1>1. Client /\ call.phase = "entries" /\ GoodCall(call) /\ IsCallRecord(call)
      /\ call.word_addr \in Nat
  BY ContinueClient DEF NextEntry, GoodCall
<1> DEFINE d == [call EXCEPT !.left = @ - 1, !.sum = @ + delivered[6]]
<1>2. \/ Return(call, "error", <<>>)
      \/ \E item : Push(d, item)
      \/ Read(ItemLen(call.op)) /\ Stay(d)
  BY DEF NextEntry
<1>3. IsCallRecord(d) /\ d.phase = "entries" /\ d.word_addr = call.word_addr
  BY <1>1 DEF IsCallRecord, CallFields
<1> HIDE DEF d
<1>4. GoodCall(d)
  BY <1>1, <1>3 DEF GoodCall, ReadPhases
<1>5. CASE Read(ItemLen(call.op)) /\ Stay(d)
  <2>1. Read(ItemLen(call.op)) /\ call' = d /\ reader' = reader /\ reader \in RangeType
        /\ ItemLen(call.op) \in Nat
    BY <1>5 DEF Stay, GoOn, RangeInv, RangeTypeOK, ItemLen
  <2> QED BY <1>1, <1>3, <1>4, <2>1, ReadStarts DEF ReadPhases
<1> QED BY <1>1, <1>2, <1>3, <1>5, ReturnStarts, PushStarts

LEMMA StringCountStarts ==
  ASSUME RangeInv, CallInv, StringCount
  PROVE  Started
<1>1. Client /\ call.phase = "num" /\ GoodCall(call) /\ IsCallRecord(call)
      /\ call.word_addr \in Nat
  BY ContinueClient DEF StringCount, GoodCall
<1> DEFINE d == [call EXCEPT !.phase = "len"]
<1>2. Return(call, "missing", <<>>) \/ (ReadByte /\ Stay(d))
  BY DEF StringCount
<1>3. CASE ReadByte /\ Stay(d)
  <2>1. ReadByte /\ call' = d /\ reader' = reader /\ reader \in RangeType
    BY <1>3 DEF Stay, GoOn, RangeInv, RangeTypeOK
  <2>2. IsCallRecord(d) /\ d.phase = "len" /\ d.word_addr = call.word_addr
    BY <1>1 DEF IsCallRecord, CallFields
  <2> HIDE DEF d
  <2>3. GoodCall(d)
    BY <1>1, <2>2 DEF GoodCall, ReadPhases
  <2> QED BY <1>1, <2>1, <2>2, <2>3, ReadByteStarts
<1> QED BY <1>1, <1>2, <1>3, ReturnStarts

LEMMA StringLengthStarts ==
  ASSUME RangeInv, CallInv, StringLength
  PROVE  Started
<1>1. Client /\ call.phase = "len" /\ GoodCall(call) /\ IsCallRecord(call)
      /\ call.word_addr \in Nat /\ rpc = "done"
      /\ \A k \in 1..Len(delivered) : delivered[k] \in Byte
  BY ContinueClient DEF StringLength, GoodCall
<1> DEFINE n == delivered[1]
           e == [call EXCEPT !.left = @ - 1]
           d == [call EXCEPT !.phase = "string", !.sum = n]
<1>2. n \in Nat
  <2>1. Len(delivered) = 1
    BY <1>1 DEF CallInv
  <2>2. n \in Byte
    BY <1>1, <2>1
  <2> QED BY <2>2 DEF Byte
<1>3. \/ Return(call, "error", <<>>)
      \/ Skip(n) /\ ReadByte /\ GoOn(e)
      \/ Read(n) /\ Stay(d)
  BY DEF StringLength
<1>4. IsCallRecord(e) /\ e.phase = "len" /\ e.word_addr = call.word_addr
  BY <1>1 DEF IsCallRecord, CallFields
<1>5. IsCallRecord(d) /\ d.phase = "string" /\ d.word_addr = call.word_addr
  BY <1>1 DEF IsCallRecord, CallFields
<1> HIDE DEF d, e, n
<1>6. GoodCall(d) /\ GoodCall(e)
  BY <1>1, <1>4, <1>5 DEF GoodCall, ReadPhases
<1>7. CASE Skip(n) /\ ReadByte /\ GoOn(e)
  <2>1. ReadByte /\ call' = e /\ reader \in RangeType
        /\ reader' = [reader EXCEPT !.byte_pos = @ + n]
    BY <1>7 DEF GoOn, Skip, RangeInv, RangeTypeOK
  <2>2. reader' \in RangeType
    BY <1>2, <2>1 DEF RangeType
  <2> QED BY <1>1, <1>4, <1>6, <2>1, <2>2, ReadByteStarts
<1>8. CASE Read(n) /\ Stay(d)
  <2>1. Read(n) /\ call' = d /\ reader' = reader /\ reader \in RangeType
    BY <1>8 DEF Stay, GoOn, RangeInv, RangeTypeOK
  <2> QED BY <1>1, <1>2, <1>5, <1>6, <2>1, ReadStarts DEF ReadPhases
<1> QED BY <1>1, <1>3, <1>7, <1>8, ReturnStarts

\* The header is read, then the alias is written, and last its checksum.
LEMMA HeaderDoneStarts ==
  ASSUME CrcIsByte, RangeInv, CallInv, HeaderDone
  PROVE  Started
<1>1. Client /\ call.phase = "head" /\ GoodCall(call) /\ IsCallRecord(call)
      /\ call.word_addr \in Nat /\ call.arg \in Seq(Byte) /\ Len(call.arg) = 2
      /\ \A k \in 1..Len(delivered) : delivered[k] \in Byte
      /\ Len(delivered) \in Nat
  BY ContinueClient DEF HeaderDone, GoodCall
<1> DEFINE sum == AliasChecksum(call.arg)
           d == [call EXCEPT !.phase = "alias", !.sum = sum]
<1>2. \/ \E tag : Return(call, tag, <<>>)
      \/ Len(delivered) >= 14 /\ StartAt(d, AliasWord, 2, Write(call.arg))
  BY <1>1 DEF HeaderDone
<1>3. CASE Len(delivered) >= 14 /\ StartAt(d, AliasWord, 2, Write(call.arg))
  <2>1. Header(delivered, call.arg) \in [1..14 -> Byte]
    <3>1. \A k \in {9, 10} : call.arg[k - 8] \in Byte
      BY <1>1
    <3>2. \A k \in 1..14 : delivered[k] \in Byte
      BY <1>1, <1>3
    <3> QED BY <3>1, <3>2 DEF Header
  <2>2. Header(delivered, call.arg) \in Seq(Byte)
    BY <2>1, FunctionIsSeq
  <2>3. sum \in Byte
    BY <2>2 DEF AliasChecksum, CrcIsByte
  <2> HIDE DEF sum
  <2>4. IsCallRecord(d) /\ d.phase = "alias" /\ d.word_addr = call.word_addr /\ d.sum = sum
    BY <1>1 DEF IsCallRecord, CallFields
  <2> HIDE DEF d
  <2>5. GoodCall(d)
    BY <1>1, <2>3, <2>4 DEF GoodCall, ReadPhases
  <2>6. Return(d, "panic", <<>>)
        \/ (NewRange(AliasWord, 2 \div 2) /\ Write(call.arg) /\ call' = d)
    BY <1>3 DEF StartAt, GoOn
  <2>7. ASSUME NewRange(AliasWord, 2 \div 2)
        PROVE  reader' \in RangeType
    <3>1. AliasWord \in Nat /\ 2 \div 2 \in Nat
      BY DEF AliasWord
    <3> QED BY <2>7, <3>1, NewRangeType
  <2> QED BY <1>1, <2>4, <2>5, <2>6, <2>7, ReturnStarts, WriteStarts
<1> QED BY <1>1, <1>2, <1>3, ReturnStarts

LEMMA AliasDoneStarts ==
  ASSUME RangeInv, CallInv, AliasDone
  PROVE  Started
<1>1. Client /\ call.phase = "alias" /\ GoodCall(call) /\ IsCallRecord(call)
      /\ call.word_addr \in Nat /\ call.sum \in Byte
  BY ContinueClient DEF AliasDone, GoodCall
<1> DEFINE d == [call EXCEPT !.phase = "checksum"]
           b == <<call.sum, 0>>
<1>2. b \in Seq(Byte)
  BY <1>1 DEF Byte
<1>3. IsCallRecord(d) /\ d.phase = "checksum" /\ d.word_addr = call.word_addr
  BY <1>1 DEF IsCallRecord, CallFields
<1>4. StartAt(d, ChecksumWord, 2, Write(b))
  BY DEF AliasDone
<1> HIDE DEF d, b
<1>5. GoodCall(d)
  BY <1>1, <1>3 DEF GoodCall, ReadPhases
<1>6. Return(d, "panic", <<>>) \/ (NewRange(ChecksumWord, 2 \div 2) /\ Write(b) /\ call' = d)
  BY <1>4 DEF StartAt, GoOn
<1>7. ASSUME NewRange(ChecksumWord, 2 \div 2)
      PROVE  reader' \in RangeType
  <2>1. ChecksumWord \in Nat /\ 2 \div 2 \in Nat
    BY DEF ChecksumWord
  <2> QED BY <1>7, <2>1, NewRangeType
<1> QED BY <1>1, <1>2, <1>3, <1>5, <1>6, <1>7, ReturnStarts, WriteStarts

-----------------------------------------------------------------------------
\* The refinement.

LEMMA ClientKeeps ==
  ASSUME CrcIsByte, RangeInv, CallInv, Begin \/ ClientStep
  PROVE  Kept /\ CallInv'
<1>1. Started
  BY BeginStarts, SearchCategoryStarts, ReturningStarts, GeneralDoneStarts,
     NextItemStarts, NextEntryStarts, StringCountStarts, StringLengthStarts,
     HeaderDoneStarts, AliasDoneStarts DEF ClientStep
<1> QED BY <1>1, StartsKeeps DEF Started

\* A step of the range leaves the call; it may end the operation.
LEMMA RangeKeeps ==
  ASSUME RangeInv, CallInv, RangeNext, UNCHANGED clientVars
  PROVE  Kept /\ CallInv'
<1>1. Kept
  BY ClearErrorsKeeps, ResetErrorsKeeps, StartReadKeeps, WaitReadKeeps, WriteDataKeeps,
     StartWriteKeeps, IntrudeKeeps, DevRefuseKeeps, DevReadKeeps, TimesOutKeeps,
     BusFailsKeeps, ReadAskKeeps, WriteNextKeeps, WaitIdleKeeps, WaitWriteKeeps,
     DevStoreKeeps, FetchForSearch, FetchForRead
     DEF RangeNext, TaskStep, DevStep
<1>2. call' = call /\ calls' = calls
  BY SMTT(40) DEF clientVars
<1>3. \/ want' = want /\ delivered' = delivered /\ (rpc' \in Resting <=> rpc \in Resting)
         /\ (rpc' = "done" <=> rpc = "done")
      \/ rpc' = "failed"
      \/ rpc' = "done" /\ rpc \notin Resting /\ want.kind \notin {"chunk", "byte"}
      \/ rpc' = "done" /\ rpc \notin Resting /\ FetchChunk
  BY DEF RangeNext, TaskStep, DevStep, ReadAsk, ClearErrors, ResetErrors, StartRead,
     WaitRead, FetchChunk, WriteNext, WaitIdle, WriteData, StartWrite, WaitWrite,
     TimesOut, BusFails, Intrude, DevRead, DevStore, DevRefuse, Failed, Finish, Resting,
     RangeInv, StageInv
<1>4. CASE want' = want /\ delivered' = delivered /\ (rpc' \in Resting <=> rpc \in Resting)
           /\ (rpc' = "done" <=> rpc = "done")
  BY <1>1, <1>2, <1>4 DEF CallInv
<1>5. CASE rpc' = "failed"
  BY <1>1, <1>2, <1>5 DEF CallInv, Resting
<1>6. CASE rpc' = "done" /\ rpc \notin Resting
  <2>1. want.kind = KindOf(call.phase)
    BY <1>6 DEF CallInv
  <2>2. /\ call.phase = "category" => want.kind = "chunk"
        /\ call.phase \in {"num", "len"} => want.kind = "byte"
    BY <2>1 DEF KindOf
  <2>3. /\ want.kind = "chunk" => Len(delivered') >= 4
        /\ want.kind = "byte" => Len(delivered') = 1
    BY <1>3, <1>6, FetchForSearch, FetchForRead DEF Resting
  <2> QED BY <1>1, <1>2, <1>6, <2>2, <2>3 DEF CallInv, Resting
<1> QED BY <1>3, <1>4, <1>5, <1>6

LEMMA EepromInit ==
  ASSUME Init
  PROVE  EepromInv /\ Stream!Init
<1>1. RangeTypeOK
  <2>1. mem = [a \in DOMAIN mem |-> mem[a]] /\ \A a \in DOMAIN mem : a \in Nat /\ mem[a] \in Byte
    BY DataAssumption DEF Init
  <2>2. <<0, 0>> \in Seq(Byte) /\ Len(<<0, 0>>) = 2
    BY DEF Byte
  <2> QED BY <2>1, <2>2 DEF Init, RangeInit, RangeTypeOK, Sii0, SiiType, NoRange, RangeType,
          Nothing, Stream!Nothing, WantType, Resting
<1>2. StageInv /\ CleanInv
  BY DEF Init, RangeInit, StageInv, CleanInv, Sii0, Nothing, Stream!Nothing, Resting,
     Reading, Storing, IsRead
<1>3. CallInv
  BY DEF Init, RangeInit, CallInv, GoodCall, IsCallRecord, CallFields, NoCall, Resting
<1>4. Stream!Init
  BY DEF Init, RangeInit, Stream!Init, Nothing, Stream!Nothing, NoRange
<1> QED BY <1>1, <1>2, <1>3, <1>4 DEF EepromInv

LEMMA EepromStep ==
  ASSUME CrcIsByte, EepromInv, [Next]_vars
  PROVE  EepromInv' /\ [Stream!Next]_(Stream!vars)
<1>1. RangeInv /\ CallInv
  BY DEF EepromInv, RangeInv
<1>2. CASE Begin \/ ClientStep
  BY <1>1, <1>2, ClientKeeps DEF Kept, EepromInv
<1>3. CASE RangeNext /\ UNCHANGED clientVars
  BY <1>1, <1>3, RangeKeeps DEF Kept, EepromInv
<1>4. CASE UNCHANGED vars
  <2>1. UNCHANGED <<mem, chunk_len, sii, data, reader, want, got, delivered, rpc, asked,
                    clean, call, calls>>
    BY <1>4 DEF vars, rangeVars, clientVars
  <2>2. Unseen /\ Moves
    BY <2>1 DEF Unseen, Moves
  <2>3. RangeTypeOK' /\ StageInv'
    BY <1>1, <2>1, <2>2, UnseenKeeps DEF RangeInv, RangeTypeOK, StageInv
  <2>4. CleanInv'
    BY <1>1, <2>1, <2>2, UnseenClean DEF RangeInv, RangeTypeOK, CleanInv, BytesAt
  <2>5. CallInv'
    BY <1>1, <2>1 DEF CallInv
  <2>6. UNCHANGED Stream!vars
    BY <2>1 DEF Stream!vars
  <2> QED BY <2>3, <2>4, <2>5, <2>6 DEF EepromInv
<1> QED BY <1>2, <1>3, <1>4 DEF Next

\* The invariant of the range and of the call under way holds throughout.
\* [EepromRange, DeviceEeprom, SubDeviceEeprom]
THEOREM EepromInvariant == CrcIsByte => (Spec => []EepromInv)
<1> SUFFICES ASSUME CrcIsByte PROVE Spec => []EepromInv
  OBVIOUS
<1>1. Init => EepromInv
  BY EepromInit
<1>2. EepromInv /\ [Next]_vars => EepromInv'
  BY EepromStep
<1> QED BY <1>1, <1>2, PTL DEF Spec

\* For every image, every sequence of calls and all faults, a range is a
\* stream: a read delivers the bytes of the memory that follow, as many as
\* were asked for or are left; a write changes words of its range only.
THEOREM RangeIsStream == CrcIsByte => (Spec => StreamSpec)
<1> SUFFICES ASSUME CrcIsByte PROVE Spec => StreamSpec
  OBVIOUS
<1>1. Init => EepromInv /\ Stream!Init
  BY EepromInit
<1>2. EepromInv /\ [Next]_vars => EepromInv' /\ [Stream!Next]_(Stream!vars)
  BY EepromStep
<1> QED BY <1>1, <1>2, PTL DEF Spec, StreamSpec, Stream!Spec

-----------------------------------------------------------------------------
\* The checksum of the header, step by step of the range.

\* What a step of the range does to the bytes and to where they are read.
RangeFrame ==
  \/ /\ UNCHANGED <<mem, reader, got, delivered>> /\ (clean' => clean)
     /\ rpc' \in Resting <=> rpc \in Resting
     /\ rpc' = "done" <=> rpc = "done"
     /\ rpc' = "idle" <=> rpc = "idle"
  \/ DevStore
  \/ rpc' = "failed" /\ UNCHANGED <<mem, reader>>
  \/ /\ rpc' = "done" /\ delivered' = <<>> /\ got = <<>>
     /\ UNCHANGED <<mem, reader, clean>>
  \/ FetchChunk
  \/ /\ want.kind = "write" /\ rpc' \in {"done", "word"} /\ rpc \notin Resting
     /\ UNCHANGED <<mem, clean>>
     /\ reader'.byte_pos \in {reader.byte_pos, reader.byte_pos + 2}

LEMMA RangeFrames ==
  ASSUME RangeInv, RangeNext
  PROVE  RangeFrame
<1> USE DEF RangeFrame, Resting
<1>1. CASE ReadAsk \/ ClearErrors \/ ResetErrors \/ WaitRead \/ WaitIdle \/ WriteData
  BY <1>1 DEF ReadAsk, ClearErrors, ResetErrors, WaitRead, WaitIdle, WriteData, Finish,
     RangeInv, StageInv
<1>2. CASE StartRead \/ StartWrite
  BY <1>2 DEF StartRead, StartWrite, Command
<1>3. CASE WriteNext \/ WaitWrite
  BY <1>3 DEF WriteNext, WaitWrite, RangeInv, RangeTypeOK, RangeType, StageInv, Storing
<1>4. CASE TimesOut \/ BusFails
  BY <1>4 DEF TimesOut, BusFails, Failed
<1>5. CASE Intrude \/ DevRead \/ DevRefuse
  BY <1>5 DEF Intrude, DevRead, DevRefuse
<1> QED BY <1>1, <1>2, <1>3, <1>4, <1>5 DEF RangeNext, TaskStep, DevStep

\* A word gets on its way by StartWrite, or by one whose answer is lost.
LEMMA PendingStep ==
  ASSUME RangeInv, RangeNext, sii'.busy, sii'.cmd = "write"
  PROVE  \/ /\ sii.busy /\ sii.cmd = "write" /\ sii'.addr = sii.addr /\ (clean' => clean)
            /\ rpc \in {"stored", "failed"} => rpc' = rpc \/ rpc' = "failed"
         \/ /\ rpc = "store" /\ rpc' \in {"stored", "failed"} /\ sii'.addr = StartWord
<1> USE DEF SiiType
<1>0. sii \in SiiType
  BY DEF RangeInv, RangeTypeOK
<1>1. CASE ReadAsk \/ ClearErrors \/ ResetErrors \/ WaitRead \/ WaitIdle \/ WriteData
  BY <1>0, <1>1 DEF ReadAsk, ClearErrors, ResetErrors, WaitRead, WaitIdle, WriteData
<1>2. ASSUME NEW c \in {"read", "write"}, Command(c)
      PROVE  \/ clean' = FALSE /\ sii' = sii
             \/ c = "write" /\ sii'.addr = StartWord
  BY <1>2, CommandTypes DEF RangeInv
<1>3. CASE StartRead
  <2>1. Command("read") /\ rpc = "start"
    BY <1>3 DEF StartRead
  <2>2. clean' = FALSE /\ sii' = sii
    BY <1>2, <2>1
  <2> QED BY <2>1, <2>2
<1>3a. CASE StartWrite
  <2>1. Command("write") /\ rpc = "store" /\ rpc' = "stored"
    BY <1>3a DEF StartWrite
  <2>2. (clean' = FALSE /\ sii' = sii) \/ sii'.addr = StartWord
    BY <1>2, <2>1
  <2> QED BY <2>1, <2>2
<1>4. CASE WriteNext \/ WaitWrite \/ FetchChunk
  BY <1>0, <1>4 DEF WriteNext, WaitWrite, FetchChunk
<1>5. CASE TimesOut \/ BusFails
  BY <1>2, <1>5 DEF TimesOut, BusFails, Failed
<1>6. ~Intrude
  <2>1. Intrude => sii'.cmd = "read"
    BY <1>0 DEF Intrude
  <2> QED BY <2>1
<1>6a. ~DevRead /\ ~DevStore
  BY <1>0 DEF DevRead, DevStore
<1>7. ~DevRefuse
  BY <1>0 DEF DevRefuse
<1> QED BY <1>1, <1>3, <1>3a, <1>4, <1>5, <1>6, <1>6a, <1>7 DEF RangeNext, TaskStep, DevStep

LEMMA WriteKinds ==
  ASSUME CallInv, rpc \notin Resting
  PROVE  /\ want.kind = "write" <=> call.phase \in WritePhases
         /\ call.phase = "head" => want.kind = "read"
BY DEF CallInv, GoodCall, KindOf, WritePhases, ReadPhases

LEMMA PendingKept ==
  ASSUME RangeInv, CallInv, call.phase = "write" => reader.byte_pos > 2 * ChecksumWord + 1,
         PendingInv, RangeNext, UNCHANGED clientVars
  PROVE  PendingInv'
<1>1. call' = call
  BY DEF clientVars
<1>2. SUFFICES ASSUME sii'.busy, sii'.cmd = "write"
               PROVE  /\ call.phase \in WritePhases
                      /\ call.phase = "write" => sii'.addr > ChecksumWord
                      /\ clean' => rpc' \in {"stored", "failed"}
  BY <1>1 DEF PendingInv
<1>3. CASE /\ sii.busy /\ sii.cmd = "write" /\ sii'.addr = sii.addr /\ (clean' => clean)
           /\ rpc \in {"stored", "failed"} => rpc' = rpc \/ rpc' = "failed"
  BY <1>3 DEF PendingInv
<1>4. CASE rpc = "store" /\ rpc' \in {"stored", "failed"} /\ sii'.addr = StartWord
  <2>1. want.kind = "write" /\ rpc \notin Resting
    BY <1>4 DEF RangeInv, StageInv, Storing, Resting
  <2>2. call.phase \in WritePhases
    BY <2>1, WriteKinds
  <2>3. StartWord = reader.byte_pos \div 2 /\ reader.byte_pos \in Nat
    BY <2>1 DEF StartWord, RangeInv, RangeTypeOK, RangeType
  <2>4. call.phase = "write" => StartWord > ChecksumWord
    BY <2>3 DEF ChecksumWord
  <2> QED BY <1>4, <2>2, <2>4
<1> QED BY <1>2, <1>3, <1>4, PendingStep

LEMMA HeadKept ==
  ASSUME RangeInv, CallInv, PendingInv, HeadInv, RangeNext, UNCHANGED clientVars
  PROVE  HeadInv'
<1>1. call' = call
  BY DEF clientVars
<1>2. SUFFICES ASSUME clean', call.phase = "head"
               PROVE  /\ rpc' \notin Resting => reader'.byte_pos = Len(got')
                      /\ rpc' = "done" => delivered' = BytesAt(mem', 0, Len(delivered'))
  BY <1>1 DEF HeadInv, BytesAt, Stream!BytesAt, Stream!ByteAt
<1>3. reader.byte_pos \in Nat /\ Len(got) \in Nat /\ IsMem(mem)
  BY DEF RangeInv, RangeTypeOK, RangeType, IsMem
<1>4. /\ clean /\ rpc \notin Resting => reader.byte_pos = Len(got)
      /\ clean /\ rpc = "done" => delivered = BytesAt(mem, 0, Len(delivered))
  BY <1>2 DEF HeadInv, BytesAt
<1>5. CASE UNCHANGED <<mem, reader, got, delivered>> /\ (clean' => clean)
           /\ (rpc' \in Resting <=> rpc \in Resting) /\ (rpc' = "done" <=> rpc = "done")
  BY <1>2, <1>4, <1>5
<1>6. CASE DevStore
  <2>1. sii.busy /\ sii.cmd = "write" /\ clean' = clean
    BY <1>6 DEF DevStore
  <2> QED BY <1>2, <2>1 DEF PendingInv, WritePhases
<1>7. CASE rpc' = "failed"
  BY <1>7 DEF Resting
<1>8. CASE rpc' = "done" /\ delivered' = <<>>
  <2>1. IsMem(mem')
    BY <1>3, <1>8, RangeFrames, RangeKeeps DEF Kept, RangeTypeOK, IsMem
  <2>2. <<>> = BytesAt(mem', 0, 0)
    BY <2>1, BytesAtSeq, LengthZero
  <2> QED BY <1>8, <2>2, EmptyIsSeq DEF Resting
<1>9. CASE FetchChunk
  <2>1. rpc = "fetch" /\ rpc \notin Resting
    BY <1>9 DEF FetchChunk, Resting
  <2>2. want.kind = "read"
    BY <1>2, <2>1, WriteKinds
  <2>3. /\ mem' = mem /\ clean' = clean
        /\ \/ /\ rpc' = "done" /\ Len(delivered') \in Nat
              /\ clean => delivered' = BytesAt(mem, reader.byte_pos - Len(got),
                                               Len(delivered'))
           \/ /\ rpc' = "start"
              /\ reader'.byte_pos - Len(got') = reader.byte_pos - Len(got)
    BY <1>9, <2>2, FetchForRead
  <2>4. reader.byte_pos - Len(got) = 0
    BY <1>2, <1>3, <1>4, <2>1, <2>3
  <2>5. reader'.byte_pos \in Nat /\ Len(got') \in Nat
    BY RangeKeeps DEF Kept, RangeTypeOK, RangeType
  <2> QED BY <1>2, <2>3, <2>4, <2>5 DEF Resting
<1>10. CASE want.kind = "write" /\ rpc \notin Resting
  BY <1>2, <1>10, WriteKinds
<1> QED BY <1>5, <1>6, <1>7, <1>8, <1>9, <1>10, RangeFrames DEF RangeFrame

\* A word that is written undisturbed gets to the memory before the write
\* is done.
LEMMA WordKept ==
  ASSUME RangeInv, NEW w \in Nat, NEW b \in Seq(Byte), Len(b) = 2,
         2 * w \in DOMAIN mem, 2 * w + 1 \in DOMAIN mem,
         rpc \notin Resting => want.kind = "write",
         rpc # "failed", rpc' # "failed",
         sii.busy /\ sii.cmd = "write" => rpc = "stored",
         clean, clean', WritesWord(w, b), RangeNext
  PROVE  /\ WritesWord(w, b)'
         /\ \/ mem' = mem
            \/ DevStore /\ sii.addr = w
<1>1. /\ sii \in SiiType /\ b # <<>> /\ rpc \notin {"ask"} \cup Reading
      /\ reader \in RangeType /\ got \in Seq(Byte)
  <2>1. Len(<<>>) # Len(b)
    BY EmptyIsSeq
  <2>1a. b # <<>>
    BY <2>1, Zenon
  <2> QED BY <2>1a DEF RangeInv, RangeTypeOK, StageInv, Resting, Reading
<1>2. CASE WriteNext
  <2>1. reader.byte_pos = 2 * w /\ reader.end > 2 * w => ~(reader.byte_pos >= reader.end)
    BY <1>1 DEF RangeType
  <2> QED BY <1>1, <1>2, <2>1 DEF WriteNext, WritesWord, Written, Storing
<1>3. CASE WaitIdle
  BY <1>3 DEF WaitIdle, WritesWord, Written, Storing
<1>4. CASE WriteData
  <2>1. rpc = "data" /\ got = b /\ rpc' = "store" /\ data' = SubSeq(b \o <<0>>, 1, 2)
    BY <1>4 DEF WriteData, WritesWord, Storing
  <2>2. SubSeq(b \o <<0>>, 1, 2) = b
    <3> DEFINE z == <<0>>
               v == b \o z
               u == SubSeq(v, 1, 2)
    <3>1. IsSeq(b) /\ IsSeq(z) /\ Len(z) = 1
      BY IsSeqIntro, SingleSeq
    <3> HIDE DEF z
    <3>2a. IsSeq(v) /\ Len(v) = Len(b) + Len(z)
          /\ \A k \in 1..(Len(b) + Len(z)) : v[k] = IF k <= Len(b) THEN b[k] ELSE z[k - Len(b)]
      BY <3>1, ConcatSeq
    <3>2. IsSeq(v) /\ Len(v) = 3 /\ \A k \in 1..2 : v[k] = b[k]
      BY <3>1, <3>2a
    <3> HIDE DEF v
    <3>3. 1 \in 1..(Len(v) + 1) /\ 2 \in (1 - 1)..Len(v) /\ 2 - 1 + 1 = 2
      BY <3>2
    <3>4a. IsSeq(u) /\ Len(u) = 2 - 1 + 1 /\ \A k \in 1..(2 - 1 + 1) : u[k] = v[1 + k - 1]
      BY <3>2, <3>3, PartSeq, ZenonT(60)
    <3>4. IsSeq(u) /\ Len(u) = 2 /\ \A k \in 1..2 : u[k] = v[1 + k - 1]
      BY <3>4a
    <3>5. \A k \in 1..2 : u[k] = b[k]
      <4> TAKE k \in 1..2
      <4>1. 1 + k - 1 = k
        OBVIOUS
      <4> QED BY <4>1, <3>2, <3>4
    <3> HIDE DEF u
    <3>6. u = b
      BY <3>1, <3>4, <3>5, SameSeq
    <3> QED BY <3>6 DEF u, v, z
  <2> QED BY <1>4, <2>1, <2>2 DEF WriteData, WritesWord, Written, Storing
<1>5. CASE StartWrite
  <2>1. rpc = "store" /\ rpc' = "stored" /\ ~sii.busy /\ data = b /\ reader.byte_pos = 2 * w
        /\ got = b /\ want.kind = "write"
        /\ UNCHANGED <<mem, data, reader, got>>
    BY <1>5 DEF StartWrite, WritesWord, Storing, Resting
  <2>2. StartWord = w
    BY <2>1 DEF StartWord
  <2>3. sii' = [sii EXCEPT !.busy = TRUE, !.cmd = "write", !.addr = StartWord,
                           !.command_error = FALSE]
    BY <1>5, <2>1 DEF StartWrite, Command
  <2>4. sii'.busy /\ sii'.cmd = "write" /\ sii'.addr = w /\ ~sii'.command_error
    BY <1>1, <2>2, <2>3 DEF SiiType
  <2> QED BY <2>1, <2>4 DEF WritesWord, Storing
<1>6. CASE WaitWrite
  <2>1. rpc = "stored" /\ rpc' = "word" /\ got = b /\ Written(w, b) /\ mem' = mem
        /\ got' = IF Len(got) > 1 THEN SubSeq(got, 3, Len(got)) ELSE <<>>
    BY <1>6 DEF WaitWrite, WritesWord, Storing
  <2>2. got' = <<>>
    <3>1. IsSeq(b) /\ 3 \in 1..(Len(b) + 1) /\ 2 \in (3 - 1)..Len(b) /\ 2 - 3 + 1 = 0
      BY IsSeqIntro
    <3>2. IsSeq(SubSeq(b, 3, 2)) /\ Len(SubSeq(b, 3, 2)) = 0
      BY <3>1, PartSeq
    <3> QED BY <2>1, <3>2, LengthZero
  <2> QED BY <2>1, <2>2 DEF WritesWord, Written, Storing
<1>7. CASE Intrude \/ DevRefuse
  BY <1>7 DEF Intrude, DevRefuse
<1>8. CASE DevRead
  <2>1. sii.busy /\ sii.cmd = "read" /\ ~sii'.busy /\ sii'.command_error = sii.command_error
        /\ UNCHANGED <<mem, reader, got, rpc>>
    BY <1>1, <1>8 DEF DevRead, SiiType
  <2>2. rpc \notin Storing
    BY <2>1 DEF WritesWord, Storing
  <2> QED BY <2>1, <2>2 DEF WritesWord, Written, Storing
<1>9. CASE DevStore
  <2>1. rpc = "stored" /\ sii.busy /\ sii.addr = w /\ data = b /\ ~sii.command_error
        /\ UNCHANGED <<reader, got, rpc, data>>
    BY <1>9 DEF DevStore, WritesWord
  <2>2. ~sii'.busy /\ ~sii'.command_error
    BY <1>1, <1>9, <2>1 DEF DevStore, SiiType
  <2>3. (2 * w) \div 2 = w /\ (2 * w) % 2 = 0 /\ (2 * w + 1) \div 2 = w /\ (2 * w + 1) % 2 = 1
    OBVIOUS
  <2>4. mem'[2 * w] = b[1] /\ mem'[2 * w + 1] = b[2]
    BY <1>9, <2>1, <2>3 DEF DevStore
  <2> QED BY <1>9, <2>1, <2>2, <2>4 DEF WritesWord, Written, Storing
<1>10. CASE TimesOut \/ BusFails
  BY <1>10 DEF TimesOut, BusFails, Failed
<1>11. CASE ReadAsk \/ ClearErrors \/ ResetErrors \/ StartRead \/ WaitRead \/ FetchChunk
  BY <1>1, <1>11 DEF ReadAsk, ClearErrors, ResetErrors, StartRead, WaitRead, FetchChunk, Reading
<1> QED BY <1>2, <1>3, <1>4, <1>5, <1>6, <1>7, <1>8, <1>9, <1>10, <1>11
        DEF RangeNext, TaskStep, DevStep

\* The header but for the bytes of the alias stays when the alias is stored,
\* all of it when another word is.
LEMMA HeaderStays ==
  ASSUME RangeInv, 0..15 \subseteq DOMAIN mem, DevStore
  PROVE  /\ sii.addr > ChecksumWord => HeaderChecked(mem) = HeaderChecked(mem')
         /\ sii.addr = ChecksumWord => BytesAt(mem', 0, 14) = BytesAt(mem, 0, 14)
         /\ sii.addr = AliasWord =>
              \A arg : Header(BytesAt(mem', 0, 14), arg) = Header(BytesAt(mem, 0, 14), arg)
<1>1. /\ DOMAIN mem' = DOMAIN mem /\ sii.addr \in Nat
      /\ \A a \in DOMAIN mem : a \div 2 # sii.addr => mem'[a] = mem[a]
  BY DEF DevStore, RangeInv, RangeTypeOK, SiiType
<1>2. \A a \in 0..15 : a \div 2 # sii.addr => Stream!ByteAt(mem', a) = Stream!ByteAt(mem, a)
                                             /\ mem'[a] = mem[a]
  BY <1>1 DEF Stream!ByteAt
<1>3. ASSUME sii.addr \notin 0..6
      PROVE  BytesAt(mem', 0, 14) = BytesAt(mem, 0, 14)
  <2>1. \A k \in 1..14 : Stream!ByteAt(mem', 0 + k - 1) = Stream!ByteAt(mem, 0 + k - 1)
    <3> TAKE k \in 1..14
    <3>1. 0 + k - 1 \in 0..15 /\ (0 + k - 1) \div 2 \in 0..6
      OBVIOUS
    <3> QED BY <1>2, <1>3, <3>1
  <2> QED BY <2>1 DEF BytesAt, Stream!BytesAt
<1>4. ASSUME sii.addr > ChecksumWord
      PROVE  HeaderChecked(mem) = HeaderChecked(mem')
  <2>1. sii.addr \notin 0..6 /\ sii.addr # 7 /\ 14 \div 2 = 7 /\ 15 \div 2 = 7
        /\ 14 \in 0..15 /\ 15 \in 0..15
    BY <1>1, <1>4 DEF ChecksumWord
  <2>2. BytesAt(mem', 0, 14) = BytesAt(mem, 0, 14)
    BY <1>3, <2>1
  <2>3. mem'[14] = mem[14] /\ mem'[15] = mem[15]
    BY <1>2, <2>1
  <2> QED BY <2>2, <2>3 DEF HeaderChecked, BytesAt
<1>5. ASSUME sii.addr = AliasWord
      PROVE  \A arg : Header(BytesAt(mem', 0, 14), arg) = Header(BytesAt(mem, 0, 14), arg)
  <2> TAKE arg
  <2>1. \A k \in 1..14 : k \notin {9, 10} =>
          BytesAt(mem', 0, 14)[k] = BytesAt(mem, 0, 14)[k]
    <3> SUFFICES ASSUME NEW k \in 1..14, k \notin {9, 10}
                 PROVE  BytesAt(mem', 0, 14)[k] = BytesAt(mem, 0, 14)[k]
      OBVIOUS
    <3>1. 0 + k - 1 \in 0..15 /\ (0 + k - 1) \div 2 # 4
      OBVIOUS
    <3> QED BY <1>2, <1>5, <3>1 DEF AliasWord, BytesAt, Stream!BytesAt
  <2> QED BY <2>1 DEF Header
<1> QED BY <1>1, <1>3, <1>4, <1>5 DEF ChecksumWord

LEMMA SafeKept ==
  ASSUME RangeInv, CallInv, call.phase = "write" => reader.byte_pos > 2 * ChecksumWord + 1,
         SafeInv, RangeNext, UNCHANGED clientVars
  PROVE  SafeInv'
<1>1. call' = call
  BY DEF clientVars
<1>2. PendingInv'
  BY PendingKept DEF SafeInv
<1>3. HeadInv'
  BY HeadKept DEF SafeInv
<1>4. mem' = mem \/ DevStore
  <2>1. FetchChunk => mem' = mem
    BY DEF FetchChunk
  <2> QED BY <2>1, RangeFrames DEF RangeFrame
<1>5. 0..15 \subseteq DOMAIN mem'
  BY <1>4 DEF DevStore, SafeInv
<1>6. ASSUME call.phase \notin {"alias", "checksum"} PROVE HeaderChecked(mem')
  <2>1. HeaderChecked(mem)
    BY <1>6 DEF SafeInv
  <2>2. DevStore => sii.addr > ChecksumWord
    BY <1>6 DEF DevStore, SafeInv, PendingInv, WritePhases
  <2> QED BY <1>4, <2>1, <2>2, HeaderStays DEF SafeInv
<1>7. ASSUME clean', rpc' # "failed", call.phase \in WritePhases
      PROVE  /\ clean /\ rpc # "failed"
             /\ rpc \notin Resting => want.kind = "write"
             /\ sii.busy /\ sii.cmd = "write" => rpc = "stored"
  <2>1. FetchChunk => clean' = clean /\ rpc # "failed"
    BY DEF FetchChunk
  <2>2. DevStore => clean' = clean /\ rpc' = rpc
    BY DEF DevStore
  <2>3. clean
    BY <1>7, <2>1, <2>2, RangeFrames DEF RangeFrame
  <2>4. rpc # "failed"
    BY <1>7 DEF RangeNext, TaskStep, DevStep, ReadAsk, ClearErrors, ResetErrors, StartRead,
       WaitRead, FetchChunk, WriteNext, WaitIdle, WriteData, StartWrite, WaitWrite,
       TimesOut, BusFails, Failed, Intrude, DevRead, DevStore, DevRefuse
  <2>5. rpc \notin Resting => want.kind = "write"
    BY <1>7, WriteKinds
  <2> QED BY <2>3, <2>4, <2>5 DEF SafeInv, PendingInv
<1>8. AliasInv'
  <2>1. SUFFICES ASSUME clean', call.phase = "alias", rpc' # "failed"
                 PROVE  /\ call.arg \in Seq(Byte) /\ Len(call.arg) = 2
                        /\ call.sum = Crc(Header(BytesAt(mem', 0, 14), call.arg))
                        /\ WritesWord(AliasWord, call.arg)'
    BY <1>1 DEF AliasInv, BytesAt, Stream!BytesAt, Stream!ByteAt
  <2>2. /\ clean /\ rpc # "failed"
        /\ rpc \notin Resting => want.kind = "write"
        /\ sii.busy /\ sii.cmd = "write" => rpc = "stored"
    BY <1>7, <2>1 DEF WritePhases
  <2>3. /\ call.arg \in Seq(Byte) /\ Len(call.arg) = 2
        /\ call.sum = Crc(Header(BytesAt(mem, 0, 14), call.arg))
        /\ WritesWord(AliasWord, call.arg)
    BY <2>1, <2>2 DEF SafeInv, AliasInv, BytesAt
  <2>4. PICK b : b = call.arg
    OBVIOUS
  <2>5. AliasWord \in Nat /\ 2 * AliasWord \in DOMAIN mem /\ 2 * AliasWord + 1 \in DOMAIN mem
    BY DEF AliasWord, SafeInv
  <2>6. b \in Seq(Byte) /\ Len(b) = 2 /\ WritesWord(AliasWord, b)
    BY <2>3, <2>4
  <2>7. WritesWord(AliasWord, b)' /\ (mem' = mem \/ (DevStore /\ sii.addr = AliasWord))
    BY <2>1, <2>2, <2>5, <2>6, WordKept
  <2>8. WritesWord(AliasWord, call.arg)'
    BY <1>1, <2>4, <2>7 DEF WritesWord, Written
  <2>9. Header(BytesAt(mem', 0, 14), call.arg) = Header(BytesAt(mem, 0, 14), call.arg)
    BY <2>7, HeaderStays DEF SafeInv
  <2> QED BY <2>3, <2>8, <2>9
<1>9. SumInv'
  <2>1. SUFFICES ASSUME clean', call.phase = "checksum", rpc' # "failed"
                 PROVE  /\ call.sum \in Byte /\ call.sum = Crc(BytesAt(mem', 0, 14))
                        /\ WritesWord(ChecksumWord, <<call.sum, 0>>)'
    BY <1>1 DEF SumInv, BytesAt, Stream!BytesAt, Stream!ByteAt
  <2>2. /\ clean /\ rpc # "failed"
        /\ rpc \notin Resting => want.kind = "write"
        /\ sii.busy /\ sii.cmd = "write" => rpc = "stored"
    BY <1>7, <2>1 DEF WritePhases
  <2>3. /\ call.sum \in Byte /\ call.sum = Crc(BytesAt(mem, 0, 14))
        /\ WritesWord(ChecksumWord, <<call.sum, 0>>)
    BY <2>1, <2>2 DEF SafeInv, SumInv, BytesAt
  <2>4. PICK b : b = <<call.sum, 0>>
    OBVIOUS
  <2>5. ChecksumWord \in Nat /\ 2 * ChecksumWord \in DOMAIN mem
        /\ 2 * ChecksumWord + 1 \in DOMAIN mem
    BY DEF ChecksumWord, SafeInv
  <2>6. b \in Seq(Byte) /\ Len(b) = 2
    BY <2>3, <2>4 DEF Byte
  <2>6a. WritesWord(ChecksumWord, b)
    BY <2>3, <2>4
  <2>7. WritesWord(ChecksumWord, b)' /\ (mem' = mem \/ (DevStore /\ sii.addr = ChecksumWord))
    BY <2>1, <2>2, <2>5, <2>6, <2>6a, WordKept
  <2>8. WritesWord(ChecksumWord, <<call.sum, 0>>)'
    BY <1>1, <2>4, <2>7 DEF WritesWord, Written
  <2>9. BytesAt(mem', 0, 14) = BytesAt(mem, 0, 14)
    BY <2>7, HeaderStays DEF SafeInv
  <2> QED BY <2>3, <2>8, <2>9
<1> QED BY <1>1, <1>2, <1>3, <1>5, <1>6, <1>8, <1>9
        DEF SafeInv, HeaderChecked, Stream!BytesAt, Stream!ByteAt

LEMMA ChecksumRange ==
  ASSUME RangeInv, CallInv, ChecksumInv, RangeNext, UNCHANGED clientVars
  PROVE  ChecksumInv'
<1>1. call' = call /\ desc' = desc /\ torn' = torn
  BY DEF clientVars
<1>2. desc' # <<>> /\ ~torn' => SafeInv'
  BY <1>1, SafeKept DEF ChecksumInv
<1>3. FetchChunk => /\ rpc' \in {"done", "start"} /\ rpc \notin Resting
                    /\ call.phase \notin WritePhases
  <2>1. FetchChunk => rpc' \in {"done", "start"} /\ rpc = "fetch"
    BY DEF FetchChunk, Finish
  <2>2. rpc = "fetch" => want.kind # "write"
    BY DEF RangeInv, StageInv, Reading
  <2> QED BY <2>1, <2>2, WriteKinds DEF Resting
<1>4. DevStore => rpc' = rpc /\ reader' = reader
  BY DEF DevStore
<1>5. rpc' = "idle" => rpc = "idle"
  BY <1>3, <1>4, RangeFrames DEF RangeFrame
<1>6. call.phase = "write" => reader'.byte_pos > 2 * ChecksumWord + 1
  <2>1. reader.byte_pos \in Nat
    BY DEF RangeInv, RangeTypeOK, RangeType
  <2>2. call.phase = "write" => reader'.byte_pos \in {reader.byte_pos, reader.byte_pos + 2}
    BY <1>3, <1>4, RangeFrames DEF RangeFrame, WritePhases
  <2> QED BY <2>1, <2>2 DEF ChecksumInv, ChecksumWord
<1> QED BY <1>1, <1>2, <1>5, <1>6 DEF ChecksumInv

-----------------------------------------------------------------------------
\* The checksum of the header, step by step of a call.

\* Steps that go on reading, or return after nothing but reading.
Plain ==
  /\ UNCHANGED <<mem, sii, desc>> /\ (~torn' => ~torn)
  /\ call'.phase \notin WritePhases \cup {"head"}
  /\ rpc' = "idle" => call'.phase = "none"

LEMMA PlainKeeps ==
  ASSUME ChecksumInv, call.phase \notin WritePhases, Plain
  PROVE  ChecksumInv'
<1>1. ASSUME desc # <<>>, ~torn
      PROVE  /\ 0..15 \subseteq DOMAIN mem /\ HeaderChecked(mem)
             /\ ~(sii.busy /\ sii.cmd = "write")
  BY <1>1 DEF ChecksumInv, SafeInv, PendingInv, WritePhases
<1>2. desc' # <<>> /\ ~torn' => SafeInv'
  BY <1>1 DEF Plain, SafeInv, PendingInv, HeadInv, AliasInv, SumInv, WritePhases,
     HeaderChecked, Stream!BytesAt, Stream!ByteAt
<1> QED BY <1>2 DEF Plain, ChecksumInv, WritePhases

LEMMA ReturnPlain ==
  ASSUME NEW c, NEW tag, NEW value, Return(c, tag, value), desc' = desc,
         c.phase \notin WritePhases
  PROVE  Plain
BY DEF Return, Plain, NoCall, WritePhases

\* A call that writes returns untorn only if it is done undisturbed.
LEMMA ReturnWrite ==
  ASSUME RangeInv, ChecksumInv, NEW c, NEW tag, NEW value, Return(c, tag, value),
         desc' = desc, c.phase \in WritePhases,
         tag = "ok" /\ clean /\ ~torn /\ desc # <<>> => HeaderChecked(mem) /\ rpc = "done"
  PROVE  ChecksumInv'
<1>1. UNCHANGED <<mem, sii>> /\ call' = NoCall
  BY DEF Return
<1>2. ~torn' => ~torn /\ tag = "ok" /\ clean
  BY DEF Return, WritePhases
<1>3. ASSUME desc' # <<>>, ~torn'
      PROVE  /\ 0..15 \subseteq DOMAIN mem /\ HeaderChecked(mem)
             /\ ~(sii.busy /\ sii.cmd = "write")
  BY <1>2, <1>3 DEF ChecksumInv, SafeInv, PendingInv
<1>4. desc' # <<>> /\ ~torn' => SafeInv'
  BY <1>1, <1>3 DEF NoCall, SafeInv, PendingInv, HeadInv, AliasInv, SumInv, WritePhases,
     HeaderChecked, Stream!BytesAt, Stream!ByteAt
<1> QED BY <1>1, <1>4 DEF ChecksumInv, NoCall

LEMMA GoOnPlain ==
  ASSUME NEW c, GoOn(c), c.phase \notin WritePhases \cup {"head"}, desc' = desc,
         UNCHANGED <<mem, sii>>, rpc' # "idle"
  PROVE  Plain
BY DEF GoOn, Plain

LEMMA SearchPlain ==
  ASSUME NEW c, IsCallRecord(c), NEW cat, Search(c, cat), desc' = desc
  PROVE  Plain
<1> DEFINE d == [c EXCEPT !.phase = "category", !.cat = cat, !.word_addr = FirstCategory,
                          !.empty = 0]
<1>1. GoOn(d) /\ UNCHANGED <<mem, sii>> /\ rpc' # "idle"
  BY DEF Search, Stay, ReadChunk, Operate
<1>2. d.phase = "category"
  BY DEF IsCallRecord, CallFields
<1> HIDE DEF d
<1> QED BY <1>1, <1>2, GoOnPlain DEF WritePhases

LEMMA FindStringPlain ==
  ASSUME NEW c, IsCallRecord(c), c.phase \notin WritePhases, NEW index,
         FindString(c, index), desc' = desc
  PROVE  Plain
<1>1. CASE index = 0
  BY <1>1, ReturnPlain DEF FindString
<1>2. CASE index # 0
  <2>1. Search([c EXCEPT !.left = index - 1], Strings)
        /\ IsCallRecord([c EXCEPT !.left = index - 1])
    BY <1>2 DEF FindString, IsCallRecord, CallFields
  <2> QED BY <2>1, SearchPlain
<1> QED BY <1>1, <1>2

LEMMA PushPlain ==
  ASSUME NEW c, IsCallRecord(c), c.phase \notin WritePhases, NEW item, Push(c, item),
         desc' = desc
  PROVE  Plain
<1>1. CASE Len(c.list) < MaxItems
  <2> DEFINE d == [c EXCEPT !.phase = "items", !.list = Append(@, item)]
  <2>1. GoOn(d) /\ UNCHANGED <<mem, sii>> /\ rpc' # "idle"
    BY <1>1 DEF Push, Stay, Read, Operate
  <2>2. d.phase = "items"
    BY DEF IsCallRecord, CallFields
  <2> HIDE DEF d
  <2> QED BY <2>1, <2>2, GoOnPlain DEF WritePhases
<1>2. CASE ~(Len(c.list) < MaxItems)
  BY <1>2, ReturnPlain DEF Push
<1> QED BY <1>1, <1>2

LEMMA SearchCategoryPlain ==
  ASSUME RangeInv, CallInv, SearchCategory
  PROVE  Plain
<1>1. call.phase = "category" /\ IsCallRecord(call) /\ desc' = desc
  BY ContinueClient DEF SearchCategory, Continue
<1>2. \/ NotFound(call)
      \/ \E start, len : Found(call, start, len)
      \/ Return(call, "panic", <<>>)
      \/ \E next, empty :
           ReadChunk(next) /\ Stay([call EXCEPT !.word_addr = next, !.empty = empty])
  BY DEF SearchCategory
<1>3. CASE NotFound(call)
  <2>1. \E tag : Return(call, tag, <<>>)
    BY <1>3 DEF NotFound
  <2> QED BY <1>1, <2>1, ReturnPlain DEF WritePhases
<1>4. CASE \E start, len : Found(call, start, len)
  <2>1. PICK start, len : Found(call, start, len)
    BY <1>4
  <2>2. PICK p \in {"num", "general", "fmmus", "items"} : GoOn([call EXCEPT !.phase = p])
    BY <2>1 DEF Found
  <2>3. UNCHANGED <<mem, sii>> /\ rpc' # "idle"
    BY <2>1 DEF Found, ReadByte, Read, Operate
  <2>4. [call EXCEPT !.phase = p].phase = p
    BY <1>1 DEF IsCallRecord, CallFields
  <2> QED BY <1>1, <2>2, <2>3, <2>4, GoOnPlain DEF WritePhases
<1>5. CASE Return(call, "panic", <<>>)
  BY <1>1, <1>5, ReturnPlain DEF WritePhases
<1>6. CASE \E next, empty :
             ReadChunk(next) /\ Stay([call EXCEPT !.word_addr = next, !.empty = empty])
  <2>1. PICK next, empty :
          ReadChunk(next) /\ Stay([call EXCEPT !.word_addr = next, !.empty = empty])
    BY <1>6
  <2> DEFINE d == [call EXCEPT !.word_addr = next, !.empty = empty]
  <2>2. GoOn(d) /\ UNCHANGED <<mem, sii>> /\ rpc' # "idle"
    BY <2>1 DEF Stay, ReadChunk, Operate
  <2>3. d.phase = "category"
    BY <1>1 DEF IsCallRecord, CallFields
  <2> HIDE DEF d
  <2> QED BY <1>1, <2>2, <2>3, GoOnPlain DEF WritePhases
<1> QED BY <1>2, <1>3, <1>4, <1>5, <1>6

\* The other steps that only read.
LEMMA ReadingPlain ==
  ASSUME RangeInv, CallInv,
         \/ ReadDone \/ FmmusDone \/ GeneralDone \/ NextItem \/ NextEntry
         \/ StringCount \/ StringLength \/ StringDone
  PROVE  Plain /\ call.phase \notin WritePhases
<1>1. /\ call.phase \in {"read", "fmmus", "general", "items", "entries", "num", "len", "string"}
      /\ call.phase \notin WritePhases \cup {"head"} /\ IsCallRecord(call) /\ desc' = desc
  BY DEF ReadDone, FmmusDone, GeneralDone, NextItem, NextEntry, StringCount, StringLength,
     StringDone, Continue, CallInv, GoodCall, WritePhases
<1>2. CASE ReadDone \/ FmmusDone \/ StringDone
  <2>1. \E tag, value : Return(call, tag, value)
    BY <1>2 DEF ReadDone, FmmusDone, StringDone
  <2> QED BY <1>1, <2>1, ReturnPlain
<1>3. CASE GeneralDone
  <2>1. call.op \in GeneralOps
    BY <1>3 DEF GeneralDone, Continue, CallInv, GoodCall
  <2>2. (\E tag, value : Return(call, tag, value)) \/ (\E index : FindString(call, index))
    BY <1>3, <2>1 DEF GeneralDone, GeneralOps
  <2> QED BY <1>1, <2>2, ReturnPlain, FindStringPlain
<1>4. CASE NextItem
  <2> DEFINE d == [call EXCEPT !.phase = "entries", !.left = delivered[3],
                               !.sync_manager = delivered[4], !.sum = 0]
  <2>1. \/ \E tag, value : Return(call, tag, value)
        \/ Read(ItemLen(call.op)) /\ Stay(d)
        \/ \E item : Push(call, item)
    BY <1>4 DEF NextItem
  <2>2. d.phase = "entries"
    BY <1>1 DEF IsCallRecord, CallFields
  <2> HIDE DEF d
  <2>3. CASE Read(ItemLen(call.op)) /\ Stay(d)
    BY <1>1, <2>2, <2>3, GoOnPlain DEF Stay, Read, Operate, WritePhases
  <2> QED BY <1>1, <2>1, <2>3, ReturnPlain, PushPlain
<1>5. CASE NextEntry
  <2> DEFINE d == [call EXCEPT !.left = @ - 1, !.sum = @ + delivered[6]]
  <2>1. \/ Return(call, "error", <<>>)
        \/ \E item : Push(d, item)
        \/ Read(ItemLen(call.op)) /\ Stay(d)
    BY <1>5 DEF NextEntry
  <2>2. d.phase = call.phase /\ IsCallRecord(d)
    BY <1>1 DEF IsCallRecord, CallFields
  <2> HIDE DEF d
  <2>3. CASE Read(ItemLen(call.op)) /\ Stay(d)
    BY <1>1, <2>2, <2>3, GoOnPlain DEF Stay, Read, Operate, WritePhases
  <2> QED BY <1>1, <2>1, <2>2, <2>3, ReturnPlain, PushPlain
<1>6. CASE StringCount
  <2> DEFINE d == [call EXCEPT !.phase = "len"]
  <2>1. Return(call, "missing", <<>>) \/ (ReadByte /\ Stay(d))
    BY <1>6 DEF StringCount
  <2>2. d.phase = "len"
    BY <1>1 DEF IsCallRecord, CallFields
  <2> HIDE DEF d
  <2>3. CASE ReadByte /\ Stay(d)
    BY <1>1, <2>2, <2>3, GoOnPlain DEF Stay, ReadByte, Operate, WritePhases
  <2> QED BY <1>1, <2>1, <2>3, ReturnPlain
<1>7. CASE StringLength
  <2> DEFINE e == [call EXCEPT !.left = @ - 1]
             d == [call EXCEPT !.phase = "string", !.sum = delivered[1]]
  <2>1. \/ Return(call, "error", <<>>)
        \/ ReadByte /\ GoOn(e)
        \/ Read(delivered[1]) /\ GoOn(d)
    BY <1>7 DEF StringLength, Stay
  <2>2. d.phase = "string" /\ e.phase = call.phase
    BY <1>1 DEF IsCallRecord, CallFields
  <2> HIDE DEF d, e
  <2>3. CASE ReadByte /\ GoOn(e)
    BY <1>1, <2>2, <2>3, GoOnPlain DEF ReadByte, Operate, WritePhases
  <2>4. CASE Read(delivered[1]) /\ GoOn(d)
    BY <1>1, <2>2, <2>4, GoOnPlain DEF Read, Operate, WritePhases
  <2> QED BY <1>1, <2>1, <2>3, <2>4, ReturnPlain
<1> QED BY <1>1, <1>2, <1>3, <1>4, <1>5, <1>6, <1>7

LEMMA BeginChecksum ==
  ASSUME WritesSpareHeader, RangeInv, CallInv, ChecksumInv, Begin
  PROVE  ChecksumInv'
<1>1. rpc = "idle" /\ call.phase = "none" /\ desc' = desc
  BY SMTT(40) DEF Begin, ChecksumInv
<1>2. PICK k \in Calls[calls + 1] :
        LET c == [NoCall EXCEPT !.op = k.op, !.arg = k.arg] IN
        CASE k.op = "read" ->
               StartAt([c EXCEPT !.phase = "read"], k.arg.word, k.arg.len, Read(k.arg.len))
          [] k.op = "write" ->
               StartAt([c EXCEPT !.phase = "write"], k.arg.word, Len(k.arg.bytes),
                       Write(k.arg.bytes))
          [] k.op = "set_station_alias" ->
               StartAt([c EXCEPT !.phase = "head"], 0, 14, Read(14))
          [] k.op = "find_string" -> FindString(c, k.arg)
          [] OTHER -> Search(c, Category(k.op))
  BY DEF Begin
<1>3. IsCall(k) /\ (k.op = "write" => k.arg.word > ChecksumWord)
  <2>1. calls + 1 \in 1..Len(Calls)
    BY DataAssumption DEF Begin, CallInv
  <2> QED BY <2>1, DataAssumption DEF WritesSpareHeader
<1> DEFINE c == [NoCall EXCEPT !.op = k.op, !.arg = k.arg]
<1>4. IsCallRecord(c) /\ c.op = k.op /\ c.arg = k.arg /\ c.phase = "none"
  BY DEF IsCallRecord, CallFields, NoCall
<1> HIDE DEF c
<1>5. ASSUME desc # <<>>, ~torn
      PROVE  /\ 0..15 \subseteq DOMAIN mem /\ HeaderChecked(mem)
             /\ ~(sii.busy /\ sii.cmd = "write")
  BY <1>1, <1>5 DEF ChecksumInv, SafeInv, PendingInv, WritePhases
<1>6. CASE k.op = "read"
  <2> DEFINE d == [c EXCEPT !.phase = "read"]
  <2>1. StartAt(d, k.arg.word, k.arg.len, Read(k.arg.len))
    BY <1>2, <1>6 DEF c
  <2>2. d.phase = "read"
    BY <1>4 DEF IsCallRecord, CallFields
  <2> HIDE DEF d
  <2>3. Return(d, "panic", <<>>) \/ (Read(k.arg.len) /\ GoOn(d))
    BY <2>1 DEF StartAt
  <2>4. Plain
    BY <1>1, <2>2, <2>3, ReturnPlain, GoOnPlain DEF Read, Operate, WritePhases
  <2> QED BY <1>1, <2>4, PlainKeeps DEF WritePhases
<1>7. CASE k.op = "write"
  <2> DEFINE d == [c EXCEPT !.phase = "write"]
             b == k.arg.bytes
  <2>1. StartAt(d, k.arg.word, Len(b), Write(b))
    BY <1>2, <1>7 DEF c
  <2>2. d.phase = "write" /\ k.arg.word \in Nat /\ k.arg.word > ChecksumWord
    BY <1>3, <1>4, <1>7 DEF IsCallRecord, CallFields, IsCall
  <2> HIDE DEF d, b
  <2>3. CASE Return(d, "panic", <<>>)
    BY <1>1, <2>2, <2>3, ReturnWrite DEF WritePhases
  <2>4. CASE NewRange(k.arg.word, Len(b) \div 2) /\ Write(b) /\ GoOn(d)
    <3>1. UNCHANGED <<mem, sii>> /\ call' = d /\ torn' = torn /\ rpc' = "word"
          /\ reader'.byte_pos = 2 * k.arg.word
      BY <2>4 DEF NewRange, Write, Operate, GoOn
    <3>2. reader'.byte_pos > 2 * ChecksumWord + 1
      BY <2>2, <3>1 DEF ChecksumWord
    <3>3. desc' # <<>> /\ ~torn' => SafeInv'
      BY <1>1, <1>5, <2>2, <3>1 DEF SafeInv, PendingInv, HeadInv, AliasInv, SumInv,
         HeaderChecked, Stream!BytesAt, Stream!ByteAt
    <3> QED BY <2>2, <3>1, <3>2, <3>3 DEF ChecksumInv
  <2> QED BY <2>1, <2>3, <2>4 DEF StartAt
<1>8. CASE k.op = "set_station_alias"
  <2> DEFINE d == [c EXCEPT !.phase = "head"]
  <2>1. StartAt(d, 0, 14, Read(14))
    BY <1>2, <1>8 DEF c
  <2>2. d.phase = "head" /\ d.op = "set_station_alias"
    BY <1>4, <1>8 DEF IsCallRecord, CallFields
  <2> HIDE DEF d
  <2>3. CASE Return(d, "panic", <<>>)
    <3>1. Plain
      BY <1>1, <2>2, <2>3, ReturnPlain DEF WritePhases
    <3> QED BY <1>1, <3>1, PlainKeeps DEF WritePhases
  <2>4. CASE NewRange(0, 14 \div 2) /\ Read(14) /\ GoOn(d)
    <3>1. UNCHANGED <<mem, sii>> /\ call' = d /\ torn' = torn /\ rpc' = "ask"
          /\ reader'.byte_pos = 0 /\ got' = <<>> /\ Len(got') = 0
      BY <2>4 DEF NewRange, Read, Operate, GoOn
    <3>2. desc' # <<>> /\ ~torn' => SafeInv'
      BY <1>1, <1>5, <2>2, <3>1 DEF SafeInv, PendingInv, HeadInv, AliasInv, SumInv,
         HeaderChecked, Stream!BytesAt, Stream!ByteAt
    <3> QED BY <2>2, <3>1, <3>2 DEF ChecksumInv
  <2> QED BY <2>1, <2>3, <2>4 DEF StartAt
<1>9. CASE k.op \notin {"read", "write", "set_station_alias"}
  <2>1. FindString(c, k.arg) \/ Search(c, Category(k.op))
    BY <1>2, <1>9 DEF c
  <2>2. Plain
    BY <1>1, <1>4, <2>1, FindStringPlain, SearchPlain DEF WritePhases
  <2> QED BY <1>1, <2>2, PlainKeeps DEF WritePhases
<1> QED BY <1>6, <1>7, <1>8, <1>9

\* The alias goes into a header whose checksum was computed with it.
LEMMA HeaderDoneChecksum ==
  ASSUME RangeInv, CallInv, ChecksumInv, HeaderDone
  PROVE  ChecksumInv'
<1>1. /\ call.phase = "head" /\ IsCallRecord(call) /\ desc' = desc /\ clean' = clean
      /\ rpc = "done" /\ call.arg \in Seq(Byte) /\ Len(call.arg) = 2
      /\ Len(delivered) \in Nat /\ call.op = "set_station_alias"
  BY ContinueClient DEF HeaderDone, Continue, GoodCall, ChecksumInv
<1> DEFINE sum == AliasChecksum(call.arg)
           d == [call EXCEPT !.phase = "alias", !.sum = sum]
<1>2. \/ Return(call, "error", <<>>)
      \/ Len(delivered) >= 14 /\ StartAt(d, AliasWord, 2, Write(call.arg))
  BY <1>1 DEF HeaderDone
<1>3. CASE Return(call, "error", <<>>)
  <2>1. Plain
    BY <1>1, <1>3, ReturnPlain DEF WritePhases
  <2> QED BY <1>1, <2>1, PlainKeeps DEF WritePhases
<1>4. CASE Len(delivered) >= 14 /\ StartAt(d, AliasWord, 2, Write(call.arg))
  <2> HIDE DEF sum
  <2>1. d.phase = "alias" /\ d.sum = sum /\ d.arg = call.arg /\ d.op = call.op
    BY <1>1 DEF IsCallRecord, CallFields
  <2> HIDE DEF d
  <2>2. CASE Return(d, "panic", <<>>)
    BY <1>1, <2>1, <2>2, ReturnWrite DEF WritePhases
  <2>3. CASE NewRange(AliasWord, 2 \div 2) /\ Write(call.arg) /\ GoOn(d)
    <3>1. UNCHANGED <<mem, sii>> /\ call' = d /\ torn' = torn /\ rpc' = "word"
          /\ reader' = [byte_pos |-> 2 * AliasWord, end |-> 2 * AliasWord + 2 * (2 \div 2)]
          /\ got' = call.arg
      BY <2>3 DEF NewRange, Write, Operate, GoOn
    <3>2. reader'.byte_pos = 2 * AliasWord /\ reader'.end > 2 * AliasWord
      BY <3>1 DEF AliasWord
    <3>3. ASSUME clean, desc # <<>>, ~torn
          PROVE  sum = Crc(Header(BytesAt(mem, 0, 14), call.arg))
      <4>1. delivered = BytesAt(mem, 0, Len(delivered))
        BY <1>1, <3>3 DEF ChecksumInv, SafeInv, HeadInv, BytesAt
      <4>2. \A k \in 1..14 : BytesAt(mem, 0, Len(delivered))[k] = BytesAt(mem, 0, 14)[k]
        BY <1>1, <1>4 DEF BytesAt, Stream!BytesAt
      <4>3. \A k \in 1..14 : delivered[k] = BytesAt(mem, 0, 14)[k]
        BY <4>1, <4>2
      <4>4. Header(delivered, call.arg) = Header(BytesAt(mem, 0, 14), call.arg)
        BY <4>3 DEF Header
      <4> QED BY <4>4 DEF sum, AliasChecksum
    <3>4. WritesWord(AliasWord, call.arg)'
      <4>1. call'.arg = call.arg
        BY <2>1, <3>1
      <4> QED BY <3>1, <3>2, <4>1 DEF WritesWord, Storing
    <3>5. ASSUME desc' # <<>>, ~torn'
          PROVE  SafeInv'
      <4>1. 0..15 \subseteq DOMAIN mem /\ ~(sii.busy /\ sii.cmd = "write")
        BY <1>1, <3>1, <3>5 DEF ChecksumInv, SafeInv, PendingInv, WritePhases
      <4>2. PendingInv' /\ HeadInv' /\ SumInv'
        BY <2>1, <3>1, <4>1 DEF PendingInv, HeadInv, SumInv
      <4>3. AliasInv'
        <5>1. clean' => sum = Crc(Header(BytesAt(mem', 0, 14), call.arg))
          BY <1>1, <3>1, <3>3, <3>5
        <5> QED BY <1>1, <2>1, <3>1, <3>4, <5>1 DEF AliasInv, BytesAt, Stream!BytesAt,
                Stream!ByteAt
      <4> QED BY <2>1, <3>1, <4>1, <4>2, <4>3 DEF SafeInv
    <3> QED BY <1>1, <2>1, <3>1, <3>5 DEF ChecksumInv
  <2> QED BY <1>4, <2>2, <2>3 DEF StartAt
<1> QED BY <1>2, <1>3, <1>4

\* With the alias in the memory the checksum is that of the header there.
LEMMA AliasDoneChecksum ==
  ASSUME RangeInv, CallInv, ChecksumInv, AliasDone
  PROVE  ChecksumInv'
<1>1. /\ call.phase = "alias" /\ IsCallRecord(call) /\ desc' = desc /\ clean' = clean
      /\ rpc = "done" /\ call.sum \in Byte /\ call.op = "set_station_alias"
  BY ContinueClient DEF AliasDone, Continue, GoodCall, ChecksumInv
<1> DEFINE d == [call EXCEPT !.phase = "checksum"]
           b == <<call.sum, 0>>
<1>2. d.phase = "checksum" /\ d.sum = call.sum /\ d.op = call.op
  BY <1>1 DEF IsCallRecord, CallFields
<1>3. StartAt(d, ChecksumWord, 2, Write(b))
  BY DEF AliasDone
<1> HIDE DEF d
<1>4. CASE Return(d, "panic", <<>>)
  BY <1>1, <1>2, <1>4, ReturnWrite DEF WritePhases
<1>5. CASE NewRange(ChecksumWord, 2 \div 2) /\ Write(b) /\ GoOn(d)
  <2>1. UNCHANGED <<mem, sii>> /\ call' = d /\ torn' = torn /\ rpc' = "word"
        /\ reader' = [byte_pos |-> 2 * ChecksumWord,
                      end |-> 2 * ChecksumWord + 2 * (2 \div 2)]
        /\ got' = b
    BY <1>5 DEF NewRange, Write, Operate, GoOn
  <2>2. reader'.byte_pos = 2 * ChecksumWord /\ reader'.end > 2 * ChecksumWord
    BY <2>1 DEF ChecksumWord
  <2>3. ASSUME clean, desc # <<>>, ~torn
        PROVE  call.sum = Crc(BytesAt(mem, 0, 14))
    <3>1. /\ call.sum = Crc(Header(BytesAt(mem, 0, 14), call.arg))
          /\ Written(AliasWord, call.arg) /\ 0..15 \subseteq DOMAIN mem
      BY <1>1, <2>3 DEF ChecksumInv, SafeInv, AliasInv, WritesWord, BytesAt
    <3>2. BytesAt(mem, 0, 14)[9] = call.arg[1] /\ BytesAt(mem, 0, 14)[10] = call.arg[2]
      <4>1. 8 \in DOMAIN mem /\ 9 \in DOMAIN mem /\ mem[8] = call.arg[1] /\ mem[9] = call.arg[2]
        BY <3>1 DEF Written, AliasWord
      <4>2. 9 \in 1..14 /\ 10 \in 1..14 /\ 0 + 9 - 1 = 8 /\ 0 + 10 - 1 = 9
        OBVIOUS
      <4> QED BY <4>1, <4>2 DEF BytesAt, Stream!BytesAt, Stream!ByteAt
    <3>3. BytesAt(mem, 0, 14) = [k \in 1..14 |-> BytesAt(mem, 0, 14)[k]]
      BY DEF BytesAt, Stream!BytesAt
    <3>4. Header(BytesAt(mem, 0, 14), call.arg) = BytesAt(mem, 0, 14)
      <4>1. 9 - 8 = 1 /\ 10 - 8 = 2
        OBVIOUS
      <4> QED BY <3>2, <3>3, <4>1 DEF Header
    <3> QED BY <3>1, <3>4
  <2>4. WritesWord(ChecksumWord, <<call.sum, 0>>)'
    <3>1. call'.sum = call.sum
      BY <1>2, <2>1
    <3> QED BY <2>1, <2>2, <3>1 DEF WritesWord, Storing
  <2>5. ASSUME desc' # <<>>, ~torn'
        PROVE  SafeInv'
    <3>1. 0..15 \subseteq DOMAIN mem /\ ~(clean /\ sii.busy /\ sii.cmd = "write")
      BY <1>1, <2>1, <2>5 DEF ChecksumInv, SafeInv, PendingInv
    <3>2. PendingInv' /\ HeadInv' /\ AliasInv'
      BY <1>1, <1>2, <2>1, <3>1 DEF PendingInv, HeadInv, AliasInv, WritePhases
    <3>3. SumInv'
      <4>1. clean' => call.sum = Crc(BytesAt(mem', 0, 14))
        BY <1>1, <2>1, <2>3, <2>5
      <4> QED BY <1>1, <1>2, <2>1, <2>4, <4>1 DEF SumInv, BytesAt, Stream!BytesAt,
              Stream!ByteAt
    <3> QED BY <1>2, <2>1, <3>1, <3>2, <3>3 DEF SafeInv
  <2> QED BY <1>1, <1>2, <2>1, <2>5 DEF ChecksumInv
<1> QED BY <1>3, <1>4, <1>5 DEF StartAt

LEMMA WritingDone ==
  ASSUME RangeInv, CallInv, ChecksumInv, WriteDone \/ ChecksumDone \/ CallFails
  PROVE  ChecksumInv'
<1>1. desc' = desc
  BY DEF WriteDone, ChecksumDone, CallFails, Continue
<1>2. CASE WriteDone
  <2>1. call.phase = "write" /\ rpc = "done" /\ \E tag : Return(call, tag, <<>>)
    BY <1>2 DEF WriteDone, Continue
  <2>2. ~torn /\ desc # <<>> => HeaderChecked(mem)
    BY <2>1 DEF ChecksumInv, SafeInv
  <2> QED BY <1>1, <2>1, <2>2, ReturnWrite DEF WritePhases
<1>3. CASE ChecksumDone
  <2>1. call.phase = "checksum" /\ rpc = "done" /\ Return(call, "ok", <<>>)
    BY <1>3 DEF ChecksumDone, Continue
  <2>2. ASSUME clean, ~torn, desc # <<>> PROVE HeaderChecked(mem)
    <3>1. call.sum = Crc(Stream!BytesAt(mem, 0, 14)) /\ Written(ChecksumWord, <<call.sum, 0>>)
      BY <2>1, <2>2 DEF ChecksumInv, SafeInv, SumInv, WritesWord
    <3>2. mem[14] = call.sum /\ mem[15] = 0
      BY <3>1 DEF Written, ChecksumWord
    <3> QED BY <3>1, <3>2 DEF HeaderChecked
  <2> QED BY <1>1, <2>1, <2>2, ReturnWrite DEF WritePhases
<1>4. CASE CallFails
  <2>1. Return(call, "failed", <<>>)
    BY <1>4 DEF CallFails
  <2>2. CASE call.phase \in WritePhases
    BY <1>1, <2>1, <2>2, ReturnWrite
  <2>3. CASE call.phase \notin WritePhases
    BY <1>1, <2>1, <2>3, ReturnPlain, PlainKeeps
  <2> QED BY <2>2, <2>3
<1> QED BY <1>2, <1>3, <1>4

LEMMA ChecksumStep ==
  ASSUME WritesSpareHeader, EepromInv, ChecksumInv, [Next]_vars
  PROVE  ChecksumInv'
<1>1. RangeInv /\ CallInv
  BY DEF EepromInv, RangeInv
<1>2. CASE Begin
  BY <1>1, <1>2, BeginChecksum
<1>3. CASE ClientStep
  <2>1. CASE SearchCategory
    <3>1. Plain /\ call.phase \notin WritePhases
      BY <1>1, <2>1, SearchCategoryPlain DEF SearchCategory, Continue, WritePhases
    <3> QED BY <3>1, PlainKeeps
  <2>2. CASE \/ ReadDone \/ FmmusDone \/ GeneralDone \/ NextItem \/ NextEntry
             \/ StringCount \/ StringLength \/ StringDone
    BY <1>1, <2>2, ReadingPlain, PlainKeeps
  <2> QED BY <1>1, <1>3, <2>1, <2>2, HeaderDoneChecksum, AliasDoneChecksum, WritingDone
          DEF ClientStep
<1>4. CASE RangeNext /\ UNCHANGED clientVars
  BY <1>1, <1>4, ChecksumRange
<1>5. CASE UNCHANGED vars
  <2>1. UNCHANGED <<mem, sii, data, reader, got, delivered, rpc, clean, call, desc, torn>>
    BY <1>5 DEF vars, rangeVars, clientVars
  <2> QED BY <2>1 DEF ChecksumInv, SafeInv, PendingInv, HeadInv, AliasInv, SumInv,
          WritesWord, Written, HeaderChecked, Stream!BytesAt, Stream!ByteAt
<1> QED BY <1>2, <1>3, <1>4, <1>5 DEF Next

\* Whatever is read, written and set, in whatever order, and whatever fails:
\* an untorn header has the right checksum between two calls.
\* [set_station_alias]
THEOREM HeaderStaysChecked ==
  CrcIsByte /\ HeadersChecked /\ WritesSpareHeader => (Spec => []ChecksumHolds)
<1> SUFFICES ASSUME CrcIsByte, HeadersChecked, WritesSpareHeader
             PROVE  Spec => []ChecksumHolds
  OBVIOUS
<1>1. Init => EepromInv /\ ChecksumInv
  <2> SUFFICES ASSUME Init PROVE EepromInv /\ ChecksumInv
    OBVIOUS
  <2>1. EepromInv
    BY EepromInit
  <2>2. desc # <<>> => 0..15 \subseteq DOMAIN mem /\ HeaderChecked(mem)
    BY DEF Init, HeadersChecked
  <2>3. ChecksumInv
    BY <2>2 DEF Init, RangeInit, NoCall, Sii0, ChecksumInv, SafeInv, PendingInv, HeadInv,
       AliasInv, SumInv
  <2> QED BY <2>1, <2>3
<1>2. EepromInv /\ ChecksumInv /\ [Next]_vars => (EepromInv /\ ChecksumInv)'
  BY EepromStep, ChecksumStep
<1>3. EepromInv /\ ChecksumInv => ChecksumHolds
  BY DEF ChecksumInv, SafeInv, ChecksumHolds, Idle
<1> QED BY <1>1, <1>2, <1>3, PTL DEF Spec

-----------------------------------------------------------------------------
\* The invariant behind what the calls read: where in the description they are.

ItemOps == {"sync_managers", "fmmu_mappings", "pdos", "write_pdos"}
StringOps == {"find_string", "device_name", "device_description"}
DescOps == Lists \cup GeneralOps \cup {"find_string"}
OtherOps == {"none", "read", "write", "set_station_alias"}
DescPhases == {"category", "num", "len", "string", "general", "fmmus", "items", "entries"}
Low == 0..ChecksumWord

\* A call has written, or writes, bytes of its own.
Wrote == \E j \in 1..calls : \E k \in Calls[j] : k.op = "write"

AskedInv ==
  /\ asked \subseteq Low \/ Wrote
  /\ call.phase = "write" => Wrote
  /\ call.phase \in {"alias", "checksum"} => reader.end <= 2 * ChecksumWord + 2
  /\ call.op \in DescOps \/ result.op \in DescOps => asked \subseteq Low
  /\ call.op \in DescOps \cup OtherOps
  /\ call.op \in DescOps <=> call.phase \in DescPhases
  /\ call.op = "none" <=> call = NoCall
  /\ call.op # "none" => result = NoResult

StoredInv ==
  desc # <<>> /\ asked \subseteq Low => \E y : IsStored(y, Categories(mem), desc)

\* A task is a read of n bytes at byte `from` of a range, one byte there, or a chunk at
\* word n: it is under way, or has delivered what is stored there, or has failed.
Task(kind, from, n, end) == [kind |-> kind, from |-> from, n |-> n, end |-> end]
Chunk(word) == Task("chunk", 0, word, 0)
Bytes(u, a, n) == [k \in 1..n |-> u[a + k - 1]]
Within(n, from, end) == IF n < end - from THEN n ELSE end - from

AwaitsBytes(u, kind, from, n, end) ==
  \/ /\ rpc \notin Resting /\ want = [kind |-> kind, n |-> n] /\ reader.end = end
     /\ reader.byte_pos - Len(got) = from
  \/ /\ rpc = "done" /\ reader.end = end /\ reader.byte_pos = from + Within(n, from, end)
     /\ delivered = Bytes(u, from, Within(n, from, end))
  \/ rpc = "failed"
AwaitsChunk(u, word) ==
  \/ rpc \notin Resting /\ want = [kind |-> "chunk", n |-> word]
  \/ /\ rpc = "done" /\ Len(delivered) >= 4
     /\ \A k \in 1..4 : delivered[k] = u[2 * word + k - 1]
  \/ rpc = "failed"
Awaits(u, t) == IF t.kind = "chunk" THEN AwaitsChunk(u, t.n)
                ELSE AwaitsBytes(u, t.kind, t.from, t.n, t.end)

\* The string that a call wants, if it does, and the items of a list.
Sought(d, c) == CASE c.op = "find_string" -> c.arg
                  [] c.op = "device_name" -> d.general[3]
                  [] c.op = "device_description" -> d.general[4]
Named(d) == d.general # <<>> /\ GeneralDecodes(d.general)
SeeksString(d, c) ==
  /\ c.op \in StringOps /\ (c.op # "find_string" => Named(d))
  /\ Sought(d, c) \in Nat \ {0, Len(d.strings) + 1} /\ c.left \in 0..(Sought(d, c) - 1)
Items(d, op) == CASE op = "sync_managers" -> d.sync_managers
                  [] op = "fmmu_mappings" -> d.mappings
                  [] op = "pdos" -> d.pdos
                  [] op = "write_pdos" -> d.write_pdos
Value(op, item) ==
  IF HasEntries(op) THEN PdoItem(item.sync_manager, SumBits(item.entries)) ELSE item

Seeks(d, c) ==
  \/ c.op \in Lists \cup GeneralOps /\ c.cat = Category(c.op) /\ c.list = <<>>
  \/ SeeksString(d, c) /\ c.cat = Strings /\ c.left = Sought(d, c) - 1

\* Where call c is in description d, stored in u as y says, and its task t.
AtCategory(y, u, d, c, t) ==
  \E k \in 1..y.n :
    /\ c.word_addr = y.w[k] /\ c.empty = y.e[k] /\ Seeks(d, c)
    /\ \A j \in 1..(k - 1) : WordAt(u, y.w[j]) # c.cat
    /\ t = Chunk(y.w[k])
AtNum(y, u, d, c, t) ==
  /\ y.loc[Strings] > 0 /\ SeeksString(d, c) /\ c.left = Sought(d, c) - 1
  /\ t = Task("byte", From(y, Strings), 1, Behind(y, u, Strings))
AtLen(y, u, d, c, t) ==
  /\ y.loc[Strings] > 0 /\ SeeksString(d, c) /\ Sought(d, c) <= Len(d.strings)
  /\ t = Task("byte", y.str[Sought(d, c) - 1 - c.left], 1, Behind(y, u, Strings))
AtString(y, u, d, c, t) ==
  /\ y.loc[Strings] > 0 /\ SeeksString(d, c) /\ Sought(d, c) <= Len(d.strings)
  /\ c.sum = Len(d.strings[Sought(d, c)])
  /\ t = Task("read", y.str[Sought(d, c) - 1] + 1, c.sum, Behind(y, u, Strings))
AtGeneral(y, u, d, c, t) ==
  /\ y.loc[General] > 0 /\ c.op \in GeneralOps
  /\ t = Task("read", From(y, General), GeneralLen, Behind(y, u, General))
AtFmmus(y, u, d, c, t) ==
  /\ y.loc[Fmmu] > 0 /\ c.op = "fmmus"
  /\ t = Task("read", From(y, Fmmu), 16, Behind(y, u, Fmmu))
Collected(y, d, c) ==
  /\ c.op \in ItemOps /\ y.loc[Category(c.op)] > 0
  /\ IsSeq(c.list) /\ Len(c.list) <= Len(Items(d, c.op))
  /\ \A k \in 1..Len(c.list) : /\ c.list[k] = Value(c.op, Items(d, c.op)[k])
                                /\ ItemDecodes(c.op, Items(d, c.op)[k])
AtItems(y, u, d, c, t) ==
  /\ Collected(y, d, c)
  /\ t = Task("read", y.at[c.op][Len(c.list)], ItemLen(c.op), Behind(y, u, Category(c.op)))
AtEntries(y, u, d, c, t) ==
  LET item == Items(d, c.op)[Len(c.list) + 1]
      i == Len(item.entries) - c.left
  IN /\ Collected(y, d, c) /\ HasEntries(c.op) /\ Len(c.list) < Len(Items(d, c.op))
     /\ c.left \in 1..Len(item.entries)
     /\ c.sync_manager = item.sync_manager /\ c.sum = Sums(item.entries)[i]
     /\ t = Task("read", y.at[c.op][Len(c.list)] + 8 + 8 * i, 8,
                 Behind(y, u, Category(c.op)))

At(y, u, d, c, t) ==
  /\ c.phase \in DescPhases
  /\ c.phase = "category" => AtCategory(y, u, d, c, t)
  /\ c.phase = "num" => AtNum(y, u, d, c, t)
  /\ c.phase = "len" => AtLen(y, u, d, c, t)
  /\ c.phase = "string" => AtString(y, u, d, c, t)
  /\ c.phase = "general" => AtGeneral(y, u, d, c, t)
  /\ c.phase = "fmmus" => AtFmmus(y, u, d, c, t)
  /\ c.phase = "items" => AtItems(y, u, d, c, t)
  /\ c.phase = "entries" => AtEntries(y, u, d, c, t)

\* String n + 1 of n.
Beyond(d, c) == c.op = "find_string" /\ c.arg = Len(d.strings) + 1

PlaceInv ==
  desc # <<>> /\ clean /\ call.op \in DescOps /\ ~Beyond(desc, call) =>
    \E y, u, t : /\ u = Categories(mem) /\ IsStored(y, u, desc)
                 /\ At(y, u, desc, call, t) /\ Awaits(u, t)

DescriptionInv == AskedInv /\ StoredInv /\ PlaceInv /\ ReadsDescription

-----------------------------------------------------------------------------
\* The categories in the memory.

LEMMA CategoriesType ==
  ASSUME NEW m, IsMem(m)
  PROVE  Categories(m) \in [Nat -> Byte]
<1>1. ASSUME NEW a \in Nat PROVE Stream!ByteAt(m, a) \in Byte
  BY DEF IsMem, Stream!ByteAt, Byte
<1> QED BY <1>1 DEF Categories, Byte

LEMMA CategoryBytes ==
  ASSUME NEW m, NEW a \in Nat, NEW n \in Nat, a >= 2 * FirstCategory
  PROVE  BytesAt(m, a, n) = Bytes(Categories(m), a, n)
<1>1. ASSUME NEW k \in 1..n
      PROVE  Stream!ByteAt(m, a + k - 1) = Categories(m)[a + k - 1]
  <2>1. a + k - 1 \in Nat /\ a + k - 1 >= 2 * FirstCategory
    BY EepromAssumption
  <2> QED BY <2>1 DEF Categories
<1> QED BY <1>1 DEF BytesAt, Stream!BytesAt, Bytes

\* Words of the header are below the categories.
LEMMA StoreLow ==
  ASSUME RangeInv, RangeNext, asked \subseteq Low, FirstCategory > ChecksumWord
  PROVE  Categories(mem') = Categories(mem)
<1>1. CASE DevStore
  <2>1. sii.addr \in Low
    BY <1>1 DEF DevStore, RangeInv, StageInv
  <2>2. \A a \in Nat : a >= 2 * FirstCategory => a \div 2 # sii.addr
    BY <2>1, EepromAssumption DEF Low, ChecksumWord
  <2>3. mem' = [a \in DOMAIN mem |->
                  IF a \div 2 = sii.addr THEN data[1 + (a % 2)] ELSE mem[a]]
    BY <1>1 DEF DevStore
  <2>4. ASSUME NEW a \in Nat, a >= 2 * FirstCategory
        PROVE  Stream!ByteAt(mem', a) = Stream!ByteAt(mem, a)
    BY <2>2, <2>3, <2>4 DEF Stream!ByteAt
  <2> QED BY <2>4 DEF Categories
<1>2. CASE ~DevStore
  <2>1. mem' = mem
    BY <1>2 DEF RangeNext, TaskStep, DevStep, ReadAsk, ClearErrors, ResetErrors, StartRead,
       WaitRead, FetchChunk, WriteNext, WaitIdle, WriteData, StartWrite, WaitWrite, TimesOut,
       BusFails, Intrude, DevRead, DevRefuse
  <2> QED BY <2>1
<1> QED BY <1>1, <1>2

\* What a step of the range does to an operation.
RangeMove ==
  \/ /\ UNCHANGED <<reader, want, got, delivered>>
     /\ IF rpc \in Resting THEN rpc' = rpc ELSE rpc' \notin Resting
  \/ rpc' = "failed"
  \/ /\ rpc = "ask" /\ rpc' = "done" /\ Stream!Count = 0 /\ delivered' = <<>>
     /\ reader' = reader
  \/ FetchChunk
  \/ want.kind = "write"

LEMMA RangeMoves ==
  ASSUME RangeInv, RangeNext
  PROVE  RangeMove /\ (clean' => clean)
<1> USE DEF RangeMove, Resting
<1>1. CASE ReadAsk
  BY <1>1 DEF ReadAsk, Finish
<1>2. CASE ClearErrors \/ ResetErrors \/ WaitRead \/ WaitIdle \/ WriteData
  BY <1>2 DEF ClearErrors, ResetErrors, WaitRead, WaitIdle, WriteData
<1>3. CASE StartRead \/ StartWrite
  BY <1>3 DEF StartRead, StartWrite, Command
<1>4. CASE WriteNext \/ WaitWrite
  BY <1>4 DEF WriteNext, WaitWrite, RangeInv, StageInv, Storing
<1>5. CASE TimesOut \/ BusFails
  BY <1>5 DEF TimesOut, BusFails, Failed, Command
<1>6. CASE Intrude
  BY <1>6 DEF Intrude
<1>8. CASE DevRead \/ DevStore
  BY <1>8 DEF DevRead, DevStore
<1>9. CASE DevRefuse
  BY <1>9 DEF DevRefuse
<1>7. CASE FetchChunk
  BY <1>7 DEF FetchChunk
<1> QED BY <1>1, <1>2, <1>3, <1>4, <1>5, <1>6, <1>7, <1>8, <1>9 DEF RangeNext, TaskStep, DevStep

\* A place a read can begin at.
Spot(kind, from, n, end) ==
  /\ from \in Nat /\ from >= 2 * FirstCategory /\ n \in Nat /\ end \in Nat /\ from <= end
  /\ kind \in {"read", "byte"} /\ (kind = "byte" => n = 1 /\ from < end)

LEMMA BytesKept ==
  ASSUME RangeInv, RangeNext, clean', NEW u, u = Categories(mem),
         NEW kind, NEW from, NEW n, NEW end, Spot(kind, from, n, end),
         AwaitsBytes(u, kind, from, n, end)
  PROVE  AwaitsBytes(u, kind, from, n, end)'
<1>1. clean /\ RangeMove
  BY RangeMoves
<1>2. Within(n, from, end) \in Nat
  BY DEF Spot, Within
<1>3. CASE rpc \in Resting
  <2>1. want = Nothing
    BY <1>3 DEF RangeInv, StageInv
  <2>2. ~FetchChunk /\ rpc # "ask" /\ want.kind # "write"
    BY <1>3, <2>1 DEF FetchChunk, Resting, Nothing, Stream!Nothing
  <2> QED BY <1>1, <1>3, <2>2 DEF RangeMove, AwaitsBytes, Resting
<1>4. CASE rpc \notin Resting
  <2>1. /\ want = [kind |-> kind, n |-> n] /\ reader.end = end
        /\ reader.byte_pos - Len(got) = from /\ want.kind = kind /\ want.n = n
    BY <1>4 DEF AwaitsBytes, Resting
  <2>2. want.kind \in {"read", "byte"}
    BY <2>1 DEF Spot
  <2>3. Stream!Count = Within(n, from, end)
    BY <2>1, <2>2 DEF Stream!Count, Stream!Left, Within, Spot
  <2>4. CASE UNCHANGED <<reader, want, got, delivered>> /\ rpc' \notin Resting
    BY <2>1, <2>4 DEF AwaitsBytes
  <2>5. CASE rpc' = "failed"
    BY <2>5 DEF AwaitsBytes
  <2>6. CASE rpc = "ask" /\ rpc' = "done" /\ Stream!Count = 0 /\ delivered' = <<>>
             /\ reader' = reader
    <3>1. Len(got) = 0
      BY <2>6 DEF RangeInv, StageInv
    <3>2. reader.byte_pos \in Nat
      BY DEF RangeInv, RangeTypeOK, RangeType
    <3>3. Bytes(u, from, 0) = <<>>
      BY DEF Bytes
    <3> QED BY <1>2, <2>1, <2>3, <2>6, <3>1, <3>2, <3>3 DEF AwaitsBytes
  <2>7. CASE FetchChunk
    <3>1. want.kind # "chunk"
      BY <2>2
    <3>2. CASE rpc' = "done"
      <4>1. /\ Len(delivered') = Stream!Count /\ reader'.byte_pos = from + Stream!Count
            /\ delivered' = BytesAt(mem, from, Stream!Count) /\ reader'.end = end
        BY <1>1, <2>1, <2>7, <3>1, <3>2, FetchForRead
      <4>2. BytesAt(mem, from, Stream!Count) = Bytes(u, from, Stream!Count)
        BY <1>2, <2>3, CategoryBytes DEF Spot
      <4> QED BY <2>3, <3>2, <4>1, <4>2 DEF AwaitsBytes
    <3>3. CASE rpc' # "done"
      <4>1. /\ rpc' = "start" /\ want' = want /\ reader'.end = end
            /\ reader'.byte_pos - Len(got') = from
        BY <2>1, <2>7, <3>1, <3>3, FetchForRead
      <4> QED BY <2>1, <4>1 DEF AwaitsBytes, Resting
    <3> QED BY <3>2, <3>3
  <2> QED BY <1>1, <1>4, <2>2, <2>4, <2>5, <2>6, <2>7 DEF RangeMove
<1> QED BY <1>3, <1>4

LEMMA ChunkKept ==
  ASSUME RangeInv, RangeNext, clean', NEW u, u = Categories(mem),
         NEW word \in Nat, word >= FirstCategory, AwaitsChunk(u, word)
  PROVE  AwaitsChunk(u, word)'
<1>1. clean /\ RangeMove
  BY RangeMoves
<1>3. CASE rpc \in Resting
  <2>1. want = Nothing
    BY <1>3 DEF RangeInv, StageInv
  <2>2. ~FetchChunk /\ rpc # "ask" /\ want.kind # "write"
    BY <1>3, <2>1 DEF FetchChunk, Resting, Nothing, Stream!Nothing
  <2> QED BY <1>1, <1>3, <2>2 DEF RangeMove, AwaitsChunk, Resting
<1>4. CASE rpc \notin Resting
  <2>1. want = [kind |-> "chunk", n |-> word] /\ want.kind = "chunk" /\ want.n = word
    BY <1>4 DEF AwaitsChunk, Resting
  <2>2. CASE UNCHANGED <<reader, want, got, delivered>> /\ rpc' \notin Resting
    BY <2>1, <2>2 DEF AwaitsChunk
  <2>3. CASE rpc' = "failed"
    BY <2>3 DEF AwaitsChunk
  <2>4. rpc # "ask"
    BY <2>1 DEF RangeInv, StageInv
  <2>5. CASE FetchChunk
    <3> DEFINE l == Len(delivered')
    <3>1. rpc' = "done" /\ l \in {4, 8} /\ delivered' = BytesAt(mem, 2 * word, l)
      BY <1>1, <2>1, <2>5, FetchForSearch
    <3> HIDE DEF l
    <3>2. 2 * word \in Nat /\ 2 * word >= 2 * FirstCategory /\ l \in Nat
      BY <3>1, EepromAssumption
    <3>3. delivered' = Bytes(u, 2 * word, l)
      BY <3>1, <3>2, CategoryBytes
    <3>4. \A k \in 1..4 : delivered'[k] = u[2 * word + k - 1]
      BY <3>1, <3>3 DEF Bytes
    <3> QED BY <3>1, <3>4 DEF AwaitsChunk, l
  <2> QED BY <1>1, <1>4, <2>1, <2>2, <2>3, <2>4, <2>5 DEF RangeMove
<1> QED BY <1>3, <1>4

\* A task goes on, and ends with what is stored.
TaskSpot(t) == IF t.kind = "chunk" THEN t.n \in Nat /\ t.n >= FirstCategory
               ELSE Spot(t.kind, t.from, t.n, t.end)

LEMMA AwaitsKept ==
  ASSUME RangeInv, RangeNext, clean', NEW u, u = Categories(mem), NEW t, TaskSpot(t),
         Awaits(u, t)
  PROVE  Awaits(u, t)'
<1>1. CASE t.kind = "chunk"
  BY <1>1, ChunkKept DEF TaskSpot, Awaits
<1>2. CASE t.kind # "chunk"
  BY <1>2, BytesKept DEF TaskSpot, Awaits
<1> QED BY <1>1, <1>2

\* A task begins.
LEMMA ReadAwaits ==
  ASSUME NEW u, NEW from \in Nat, NEW n, NEW end, Read(n), reader'.byte_pos = from,
         reader'.end = end
  PROVE  Awaits(u, Task("read", from, n, end))'
BY DEF Awaits, AwaitsBytes, Task, Read, Operate, Resting

LEMMA ByteAwaits ==
  ASSUME NEW u, NEW from \in Nat, NEW end, ReadByte, reader'.byte_pos = from,
         reader'.end = end
  PROVE  Awaits(u, Task("byte", from, 1, end))'
BY DEF Awaits, AwaitsBytes, Task, ReadByte, Operate, Resting

LEMMA ChunkAwaits ==
  ASSUME NEW u, NEW word, ReadChunk(word)
  PROVE  Awaits(u, Chunk(word))'
BY DEF Awaits, AwaitsChunk, Chunk, Task, ReadChunk, Operate, Resting

\* A task has ended.
LEMMA BytesDone ==
  ASSUME NEW u, NEW kind, kind # "chunk", NEW from, NEW n, NEW end,
         Awaits(u, Task(kind, from, n, end)), rpc = "done"
  PROVE  /\ reader.end = end /\ reader.byte_pos = from + Within(n, from, end)
         /\ delivered = Bytes(u, from, Within(n, from, end))
BY DEF Awaits, AwaitsBytes, Task, Resting

LEMMA ChunkDone ==
  ASSUME NEW u, NEW word, Awaits(u, Chunk(word)), rpc = "done"
  PROVE  /\ delivered[1] = u[2 * word + 1 - 1] /\ delivered[2] = u[2 * word + 2 - 1]
         /\ delivered[3] = u[2 * word + 3 - 1] /\ delivered[4] = u[2 * word + 4 - 1]
<1>1. \A k \in 1..4 : delivered[k] = u[2 * word + k - 1]
  BY DEF Awaits, AwaitsChunk, Chunk, Task, Resting
<1>2. 1 \in 1..4 /\ 2 \in 1..4 /\ 3 \in 1..4 /\ 4 \in 1..4
  OBVIOUS
<1> QED BY <1>1, <1>2

LEMMA BytesSeq ==
  ASSUME NEW u, NEW a, NEW n \in Nat
  PROVE  /\ IsSeq(Bytes(u, a, n)) /\ Len(Bytes(u, a, n)) = n
         /\ \A k \in 1..n : Bytes(u, a, n)[k] = u[a + k - 1]
BY DEF Bytes, IsSeq

LEMMA BytesAre ==
  ASSUME NEW u, NEW a, NEW s, IsSeq(s), HasBytes(u, a, s)
  PROVE  Bytes(u, a, Len(s)) = s
<1>1. Len(s) \in Nat
  BY DEF IsSeq
<1>2. \A k \in 1..Len(s) : Bytes(u, a, Len(s))[k] = s[k]
  BY <1>1, BytesSeq DEF HasBytes
<1> QED BY <1>1, <1>2, BytesSeq, SameSeq

-----------------------------------------------------------------------------
\* Facts about a stored description.

LEMMA WordNat ==
  ASSUME NEW u \in [Nat -> Byte], NEW w \in Nat
  PROVE  WordAt(u, w) \in Nat
<1>1. 2 * w \in Nat /\ 2 * w + 1 \in Nat
  OBVIOUS
<1>2. u[2 * w] \in 0..255 /\ u[2 * w + 1] \in 0..255
  BY <1>1 DEF Byte
<1>3. \A p, q \in 0..255 : p + 256 * q \in Nat
  OBVIOUS
<1> QED BY <1>2, <1>3 DEF WordAt

\* The categories follow each other from FirstCategory on.
LEMMA ChainAbove ==
  ASSUME NEW u \in [Nat -> Byte], NEW y, Chain(y, u), NEW k \in 1..y.n
  PROVE  /\ y.w[k] \in Nat /\ y.w[k] >= FirstCategory
         /\ WordAt(u, y.w[k]) \in Nat /\ WordAt(u, y.w[k] + 1) \in Nat
<1>1. /\ y.n \in Nat \ {0} /\ y.w \in [1..y.n -> Nat] /\ y.w[1] = FirstCategory
      /\ \A j \in 1..(y.n - 1) : y.w[j + 1] = y.w[j] + 2 + WordAt(u, y.w[j] + 1)
  BY DEF Chain
<1>2. FirstCategory \in Nat
  BY EepromAssumption
<1>3. \A j \in 1..y.n : y.w[j] \in Nat /\ y.w[j] + 1 \in Nat
  BY <1>1
<1>4. \A j \in 1..y.n : WordAt(u, y.w[j]) \in Nat /\ WordAt(u, y.w[j] + 1) \in Nat
  BY <1>3, WordNat
<1> DEFINE T == {j \in 1..y.n : ~(y.w[j] >= FirstCategory)}
<1>5. T = {}
  <2> SUFFICES ASSUME T # {} PROVE FALSE
    OBVIOUS
  <2>1. PICK m \in T : \A x \in T : m <= x
    <3>1. T \in SUBSET Nat
      BY <1>1
    <3> HIDE DEF T
    <3> QED BY <3>1, Least
  <2>2. m \in 1..y.n /\ m # 1
    BY <1>1, <1>2
  <2>3. m - 1 \in 1..(y.n - 1) /\ m - 1 \in 1..y.n /\ ~(m <= m - 1) /\ (m - 1) + 1 = m
    BY <1>1, <2>2
  <2>4. m - 1 \notin T
    <3> HIDE DEF T
    <3> QED BY <2>1, <2>3
  <2>5. y.w[m] = y.w[m - 1] + 2 + WordAt(u, y.w[m - 1] + 1)
    BY <1>1, <2>3
  <2>6. y.w[m - 1] >= FirstCategory
    BY <2>3, <2>4
  <2>7. y.w[m] >= FirstCategory
    <3>1. y.w[m - 1] \in Nat /\ WordAt(u, y.w[m - 1] + 1) \in Nat
      BY <1>3, <1>4, <2>3
    <3> QED BY <1>2, <2>5, <2>6, <3>1
  <2> QED BY <2>1, <2>7
<1> QED BY <1>3, <1>4, <1>5

LEMMA Region ==
  ASSUME NEW u \in [Nat -> Byte], NEW y, Chain(y, u), Located(y, u), NEW t \in Types,
         y.loc[t] > 0
  PROVE  /\ y.loc[t] \in 1..(y.n - 1) /\ y.loc[t] \in 1..y.n
         /\ From(y, t) \in Nat /\ Behind(y, u, t) \in Nat /\ From(y, t) <= Behind(y, u, t)
         /\ From(y, t) >= 2 * FirstCategory
<1>1. y.loc[t] \in 0..(y.n - 1) /\ y.n \in Nat \ {0}
  BY DEF Located, Chain
<1>2. y.loc[t] \in 1..(y.n - 1) /\ y.loc[t] \in 1..y.n
  BY <1>1
<1>3. /\ y.w[y.loc[t]] \in Nat /\ y.w[y.loc[t]] >= FirstCategory
      /\ WordAt(u, y.w[y.loc[t]] + 1) \in Nat
  BY <1>2, ChainAbove
<1> QED BY <1>2, <1>3, EepromAssumption DEF From, Behind

\* Where the strings are.
StringHeld(y, u, s, j) ==
  /\ Len(s) \in Nat /\ Len(s) <= MaxString
  /\ y.str[j] = y.str[j - 1] + 1 + Len(s) /\ u[y.str[j - 1]] = Len(s)
  /\ HasBytes(u, y.str[j - 1] + 1, s)

LEMMA StringSpots ==
  ASSUME NEW u \in [Nat -> Byte], NEW y, NEW d, IsStored(y, u, d), y.loc[Strings] > 0
  PROVE  /\ d.strings \in Seq(Seq(Byte \ {0})) /\ Len(d.strings) \in Nat
         /\ From(y, Strings) \in Nat /\ From(y, Strings) >= 2 * FirstCategory
         /\ Behind(y, u, Strings) \in Nat /\ From(y, Strings) < Behind(y, u, Strings)
         /\ u[From(y, Strings)] = Len(d.strings) /\ y.str[0] = From(y, Strings) + 1
         /\ \A j \in 0..Len(d.strings) : /\ y.str[j] \in Nat /\ y.str[j] >= 2 * FirstCategory
                                         /\ y.str[j] <= Behind(y, u, Strings)
         /\ \A j \in 1..Len(d.strings) : StringHeld(y, u, d.strings[j], j)
<1>1. /\ From(y, Strings) \in Nat /\ Behind(y, u, Strings) \in Nat
      /\ From(y, Strings) >= 2 * FirstCategory
  BY Region DEF Types, IsStored
<1>2. y.loc[Strings] # 0
  OBVIOUS
<1> DEFINE f == y.str
           s == d.strings
           n == Len(s)
           b == Behind(y, u, Strings)
<1>3. /\ s \in Seq(Seq(Byte \ {0})) /\ u[From(y, Strings)] = n
      /\ f \in [0..n -> Nat] /\ f[0] = From(y, Strings) + 1
      /\ \A j \in 0..n : f[j] <= b
      /\ \A j \in 1..n : /\ Len(s[j]) <= MaxString /\ u[f[j - 1]] = Len(s[j])
                         /\ HasBytes(u, f[j - 1] + 1, s[j])
                         /\ f[j] = f[j - 1] + 1 + Len(s[j])
  BY <1>2 DEF HoldsStrings, IsStored
<1>4. n \in Nat /\ \A j \in 1..n : Len(s[j]) \in Nat
  BY <1>3
<1>4a. \A j \in 1..n : StringHeld(y, u, s[j], j)
  BY <1>3, <1>4 DEF StringHeld
<1> SUFFICES /\ From(y, Strings) < b
             /\ \A j \in 0..n : f[j] \in Nat /\ f[j] >= 2 * FirstCategory
  BY <1>1, <1>3, <1>4, <1>4a
<1> HIDE DEF f, s, n, b
<1>5. 0 \in 0..n
  BY <1>4
<1>6. From(y, Strings) < b
  BY <1>1, <1>3, <1>5 DEF b
<1>7. \A j \in 0..n : f[j] \in Nat
  BY <1>3
<1>8. \A j \in 1..n : f[j - 1] <= f[j]
  <2> TAKE j \in 1..n
  <2>1. j - 1 \in 0..n
    BY <1>4
  <2>2. f[j - 1] \in Nat /\ Len(s[j]) \in Nat /\ f[j] = f[j - 1] + 1 + Len(s[j])
    BY <1>3, <1>4, <1>7, <2>1
  <2> QED BY <2>2
<1>9. ASSUME NEW j \in 0..n PROVE f[j] >= 2 * FirstCategory
  <2>1. \A i \in (0 + 1)..j : f[i - 1] <= f[i]
    BY <1>4, <1>8
  <2>2. f[0] <= f[j]
    BY <1>3, <1>4, <1>5, <2>1, Rising
  <2> QED BY <1>1, <1>3, <1>7, <2>2, EepromAssumption
<1> QED BY <1>6, <1>7, <1>9

\* Where the items of the lists are.
LEMMA ListStored ==
  ASSUME NEW u, NEW y, NEW d, IsStored(y, u, d), NEW op \in ItemOps
  PROVE  HoldsItems(y, u, op, Items(d, op)) /\ Category(op) \in Types
BY DEF IsStored, Items, ItemOps, Category, Types

LEMMA ItemSpots ==
  ASSUME NEW u \in [Nat -> Byte], NEW y, NEW d, IsStored(y, u, d), NEW op \in ItemOps,
         y.loc[Category(op)] > 0
  PROVE  LET t == Category(op)
             n == Len(Items(d, op)) IN
         /\ Items(d, op) \in Seq(ItemType(op)) /\ n \in Nat /\ n <= MaxItems
         /\ y.at[op][0] = From(y, t) /\ Behind(y, u, t) \in Nat
         /\ Behind(y, u, t) - y.at[op][n] \in 0..(ItemLen(op) - 1)
         /\ \A k \in 0..n : /\ y.at[op][k] \in Nat /\ y.at[op][k] >= 2 * FirstCategory
                            /\ y.at[op][k] <= Behind(y, u, t)
         /\ \A k \in 1..n : IsItem(u, y.at[op][k - 1], y.at[op][k], op, Items(d, op)[k])
<1> DEFINE t == Category(op)
           X == Items(d, op)
           f == y.at[op]
           n == Len(X)
           b == Behind(y, u, t)
<1>1. HoldsItems(y, u, op, X) /\ t \in Types /\ Chain(y, u) /\ Located(y, u)
  BY ListStored DEF IsStored
<1>2. From(y, t) \in Nat /\ b \in Nat /\ From(y, t) <= b /\ From(y, t) >= 2 * FirstCategory
  BY <1>1, Region
<1>3. y.loc[t] # 0
  OBVIOUS
<1>4. /\ X \in Seq(ItemType(op)) /\ n <= MaxItems /\ f \in [0..n -> Nat] /\ f[0] = From(y, t)
      /\ \A j \in 1..n : IsItem(u, f[j - 1], f[j], op, X[j]) /\ f[j] <= b
      /\ b - f[n] \in 0..(ItemLen(op) - 1)
  BY <1>1, <1>3 DEF HoldsItems
<1>5. n \in Nat
  BY <1>4
<1> SUFFICES \A k \in 0..n : f[k] \in Nat /\ f[k] >= 2 * FirstCategory /\ f[k] <= b
  BY <1>2, <1>4, <1>5
<1> HIDE DEF f, X, n, t, b
<1>6. \A j \in 1..n : f[j - 1] <= f[j]
  <2> TAKE j \in 1..n
  <2>1. j - 1 \in 0..n
    BY <1>5
  <2>2. f[j - 1] \in Nat
    BY <1>4, <2>1
  <2>3. IsItem(u, f[j - 1], f[j], op, X[j])
    BY <1>4
  <2>4. CASE HasEntries(op)
    <3>1. X[j] \in [sync_manager : Byte, entries : Seq(Byte)]
      <4>1. X[j] \in ItemType(op)
        BY <1>4 DEF n
      <4> QED BY <2>4, <4>1 DEF ItemType
    <3>2. Len(X[j].entries) \in Nat
      BY <3>1
    <3>3. f[j] = f[j - 1] + 8 + 8 * Len(X[j].entries)
      BY <2>3, <2>4 DEF IsItem
    <3> QED BY <2>2, <3>2, <3>3
  <2>5. CASE ~HasEntries(op)
    <3>1. f[j] = f[j - 1] + ItemLen(op)
      BY <2>3, <2>5 DEF IsItem
    <3>2. ItemLen(op) \in {3, 8}
      BY DEF ItemLen
    <3> QED BY <2>2, <3>1, <3>2
  <2> QED BY <2>4, <2>5
<1>7. ASSUME NEW k \in 0..n
      PROVE  f[k] \in Nat /\ f[k] >= 2 * FirstCategory /\ f[k] <= b
  <2>1. 0 \in 0..n /\ \A j \in (0 + 1)..k : f[j - 1] <= f[j]
    BY <1>5, <1>6
  <2>2. f[0] <= f[k]
    BY <1>4, <1>5, <2>1, Rising
  <2>3. f[k] \in Nat
    BY <1>4
  <2>4. f[k] <= b
    <3>1. CASE k = 0
      BY <1>2, <1>4, <3>1
    <3>2. CASE k # 0
      <4>1. k \in 1..n
        BY <1>5, <3>2
      <4> QED BY <1>4, <4>1
    <3> QED BY <3>1, <3>2
  <2> QED BY <1>2, <1>4, <2>2, <2>3, <2>4, EepromAssumption
<1> QED BY <1>7

\* An item with entries, and one without.
PdoHeld(y, u, op, item, k) ==
  LET a == y.at[op][k - 1]
      l == Len(item.entries)
      b == Behind(y, u, Category(op))
  IN /\ item.entries \in Seq(Byte) /\ l \in Nat
     /\ a \in Nat /\ a >= 2 * FirstCategory /\ b \in Nat
     /\ y.at[op][k] = a + 8 + 8 * l /\ y.at[op][k] <= b
     /\ u[a + 2] = l /\ u[a + 3] = item.sync_manager
     /\ \A i \in 1..l : u[a + 8 * i + 5] = item.entries[i]
PlainHeld(y, u, op, item, k) ==
  LET a == y.at[op][k - 1]
      b == Behind(y, u, Category(op))
  IN /\ IsSeq(item) /\ Len(item) = ItemLen(op) /\ HasBytes(u, a, item)
     /\ a \in Nat /\ b \in Nat /\ y.at[op][k] = a + ItemLen(op) /\ y.at[op][k] <= b

LEMMA ItemHeld ==
  ASSUME NEW u \in [Nat -> Byte], NEW y, NEW d, IsStored(y, u, d), NEW op \in ItemOps,
         y.loc[Category(op)] > 0, NEW k \in 1..Len(Items(d, op))
  PROVE  IF HasEntries(op) THEN PdoHeld(y, u, op, Items(d, op)[k], k)
         ELSE PlainHeld(y, u, op, Items(d, op)[k], k)
<1> DEFINE X == Items(d, op)
           n == Len(X)
           item == X[k]
           f == y.at[op]
           b == Behind(y, u, Category(op))
<1>1. /\ X \in Seq(ItemType(op)) /\ n \in Nat /\ b \in Nat
      /\ \A j \in 0..n : f[j] \in Nat /\ f[j] >= 2 * FirstCategory /\ f[j] <= b
      /\ \A j \in 1..n : IsItem(u, f[j - 1], f[j], op, X[j])
  BY ItemSpots
<1>2. k \in 1..n /\ k \in 0..n /\ k - 1 \in 0..n
  BY <1>1
<1> HIDE DEF X, f, b
<1>3. item \in ItemType(op)
  BY <1>1, <1>2
<1> DEFINE a == f[k - 1]
           e == f[k]
<1>4. /\ IsItem(u, a, e, op, item)
      /\ a \in Nat /\ a >= 2 * FirstCategory /\ e <= b /\ b \in Nat
  BY <1>1, <1>2
<1> HIDE DEF n, item, a, e
<1>5. CASE HasEntries(op)
  <2>1. item \in [sync_manager : Byte, entries : Seq(Byte)]
    BY <1>3, <1>5 DEF ItemType
  <2>2. item.entries \in Seq(Byte) /\ Len(item.entries) \in Nat
    BY <2>1
  <2>3. PdoHeld(y, u, op, item, k)
    BY <1>4, <1>5, <2>2 DEF IsItem, PdoHeld, a, e, f, b
  <2> QED BY <1>5, <2>3 DEF item, X
<1>6. CASE ~HasEntries(op)
  <2>1. item \in Seq(Byte)
    BY <1>3, <1>6 DEF ItemType
  <2>2. IsSeq(item)
    BY <2>1, IsSeqIntro
  <2>3. PlainHeld(y, u, op, item, k)
    BY <1>4, <1>6, <2>2 DEF IsItem, PlainHeld, a, e, f, b
  <2> QED BY <1>6, <2>3 DEF item, X
<1> QED BY <1>5, <1>6

LEMMA GeneralSpot ==
  ASSUME NEW u \in [Nat -> Byte], NEW y, NEW d, IsStored(y, u, d), y.loc[General] > 0
  PROVE  /\ d.general \in Seq(Byte) /\ Len(d.general) = 18 /\ d.general # <<>>
         /\ HasBytes(u, From(y, General), d.general)
         /\ From(y, General) \in Nat /\ From(y, General) >= 2 * FirstCategory
         /\ Behind(y, u, General) \in Nat /\ From(y, General) + 18 <= Behind(y, u, General)
         /\ Len(d.strings) + 1 \notin {d.general[3], d.general[4]}
<1>1. /\ From(y, General) \in Nat /\ Behind(y, u, General) \in Nat
      /\ From(y, General) >= 2 * FirstCategory
  BY Region DEF Types, IsStored
<1>2. y.loc[General] # 0
  OBVIOUS
<1>3. /\ d.general \in Seq(Byte) /\ Len(d.general) = 18
      /\ HasBytes(u, From(y, General), d.general)
      /\ From(y, General) + 18 <= Behind(y, u, General)
      /\ Len(d.strings) + 1 \notin {d.general[3], d.general[4]}
  BY <1>2 DEF IsStored, HoldsGeneral, GeneralLen
<1>4. d.general # <<>>
  BY <1>3
<1> QED BY <1>1, <1>3, <1>4

LEMMA FmmuSpot ==
  ASSUME NEW u \in [Nat -> Byte], NEW y, NEW d, IsStored(y, u, d), y.loc[Fmmu] > 0
  PROVE  /\ d.fmmus \in Seq(Byte) /\ Len(d.fmmus) \in Nat /\ Len(d.fmmus) <= 16
         /\ HasBytes(u, From(y, Fmmu), d.fmmus)
         /\ From(y, Fmmu) \in Nat /\ From(y, Fmmu) >= 2 * FirstCategory
         /\ Behind(y, u, Fmmu) \in Nat /\ From(y, Fmmu) + Len(d.fmmus) = Behind(y, u, Fmmu)
<1>1. /\ From(y, Fmmu) \in Nat /\ Behind(y, u, Fmmu) \in Nat
      /\ From(y, Fmmu) >= 2 * FirstCategory
  BY Region DEF Types, IsStored
<1>2. y.loc[Fmmu] # 0
  OBVIOUS
<1>3. /\ d.fmmus \in Seq(Byte) /\ Len(d.fmmus) <= 16
      /\ HasBytes(u, From(y, Fmmu), d.fmmus)
      /\ From(y, Fmmu) + Len(d.fmmus) = Behind(y, u, Fmmu)
  BY <1>2 DEF IsStored, HoldsFmmus
<1> QED BY <1>1, <1>3

\* The task of a call is a read above the header.
LEMMA PlaceSpot ==
  ASSUME NEW u \in [Nat -> Byte], NEW y, NEW d, NEW c, NEW t, IsStored(y, u, d),
         c.phase \in DescPhases, At(y, u, d, c, t)
  PROVE  TaskSpot(t)
<1>1. CASE c.phase = "category"
  <2>1. PICK k \in 1..y.n : t = Chunk(y.w[k])
    BY <1>1 DEF At, AtCategory
  <2>2. y.w[k] \in Nat /\ y.w[k] >= FirstCategory
    BY ChainAbove DEF IsStored
  <2> QED BY <2>1, <2>2 DEF Chunk, TaskSpot, Task
<1>2. CASE c.phase = "num"
  <2>1. /\ y.loc[Strings] > 0
        /\ t = Task("byte", From(y, Strings), 1, Behind(y, u, Strings))
    BY <1>2 DEF At, AtNum
  <2> QED BY <2>1, StringSpots DEF TaskSpot, Spot, Task
<1>3. CASE c.phase = "len"
  <2> DEFINE s == Sought(d, c)
             j == s - 1 - c.left
  <2>1. /\ y.loc[Strings] > 0 /\ s \in Nat \ {0} /\ c.left \in 0..(s - 1)
        /\ s <= Len(d.strings) /\ t = Task("byte", y.str[j], 1, Behind(y, u, Strings))
    BY <1>3 DEF At, AtLen, SeeksString
  <2> HIDE DEF s
  <2>2. Len(d.strings) \in Nat /\ Behind(y, u, Strings) \in Nat
    BY <2>1, StringSpots
  <2>3. j \in 0..Len(d.strings) /\ j + 1 \in 1..Len(d.strings) /\ (j + 1) - 1 = j
        /\ j + 1 \in 0..Len(d.strings)
    BY <2>1, <2>2
  <2> HIDE DEF j
  <2>4. /\ y.str[j] \in Nat /\ y.str[j] >= 2 * FirstCategory
        /\ y.str[j + 1] <= Behind(y, u, Strings)
        /\ y.str[j + 1] = y.str[j] + 1 + Len(d.strings[j + 1]) /\ Len(d.strings[j + 1]) \in Nat
    <3>1. y.loc[Strings] > 0
      BY <2>1
    <3>2. \A k \in 0..Len(d.strings) : /\ y.str[k] \in Nat /\ y.str[k] >= 2 * FirstCategory
                                       /\ y.str[k] <= Behind(y, u, Strings)
      BY <3>1, StringSpots
    <3>3. StringHeld(y, u, d.strings[j + 1], j + 1)
      BY <2>3, <3>1, StringSpots
    <3> QED BY <2>3, <3>2, <3>3 DEF StringHeld
  <2>5. y.str[j] < Behind(y, u, Strings)
    BY <2>2, <2>4
  <2> QED BY <2>1, <2>2, <2>4, <2>5 DEF TaskSpot, Spot, Task
<1>4. CASE c.phase = "string"
  <2> DEFINE s == Sought(d, c)
  <2>1. /\ y.loc[Strings] > 0 /\ s \in Nat \ {0} /\ s <= Len(d.strings)
        /\ c.sum = Len(d.strings[s])
        /\ t = Task("read", y.str[s - 1] + 1, c.sum, Behind(y, u, Strings))
    BY <1>4 DEF At, AtString, SeeksString
  <2> HIDE DEF s
  <2>2. Len(d.strings) \in Nat /\ Behind(y, u, Strings) \in Nat
    BY <2>1, StringSpots
  <2>3. s \in 1..Len(d.strings) /\ s \in 0..Len(d.strings) /\ s - 1 \in 0..Len(d.strings)
    BY <2>1, <2>2
  <2>4. /\ y.str[s - 1] \in Nat /\ y.str[s - 1] >= 2 * FirstCategory
        /\ y.str[s] <= Behind(y, u, Strings)
        /\ y.str[s] = y.str[s - 1] + 1 + Len(d.strings[s]) /\ Len(d.strings[s]) \in Nat
    <3>1. y.loc[Strings] > 0
      BY <2>1
    <3>2. \A k \in 0..Len(d.strings) : /\ y.str[k] \in Nat /\ y.str[k] >= 2 * FirstCategory
                                       /\ y.str[k] <= Behind(y, u, Strings)
      BY <3>1, StringSpots
    <3>3. StringHeld(y, u, d.strings[s], s)
      BY <2>3, <3>1, StringSpots
    <3> QED BY <2>3, <3>2, <3>3 DEF StringHeld
  <2>5. y.str[s - 1] + 1 <= Behind(y, u, Strings)
    BY <2>2, <2>4
  <2> QED BY <2>1, <2>2, <2>4, <2>5, EepromAssumption DEF TaskSpot, Spot, Task
<1>5. CASE c.phase = "general"
  <2>1. /\ y.loc[General] > 0
        /\ t = Task("read", From(y, General), 18, Behind(y, u, General))
    BY <1>5 DEF At, AtGeneral, GeneralLen
  <2> QED BY <2>1, GeneralSpot DEF TaskSpot, Spot, Task
<1>6. CASE c.phase = "fmmus"
  <2>1. y.loc[Fmmu] > 0 /\ t = Task("read", From(y, Fmmu), 16, Behind(y, u, Fmmu))
    BY <1>6 DEF At, AtFmmus
  <2> QED BY <2>1, FmmuSpot DEF TaskSpot, Spot, Task
<1>7. CASE c.phase = "items"
  <2> DEFINE b == Behind(y, u, Category(c.op))
             m == Len(c.list)
  <2>1. /\ c.op \in ItemOps /\ y.loc[Category(c.op)] > 0 /\ m \in Nat
        /\ m <= Len(Items(d, c.op)) /\ t = Task("read", y.at[c.op][m], ItemLen(c.op), b)
    BY <1>7 DEF At, AtItems, Collected, IsSeq
  <2> HIDE DEF m
  <2>2. Len(Items(d, c.op)) \in Nat
    BY <2>1, ItemSpots
  <2>3. m \in 0..Len(Items(d, c.op))
    BY <2>1, <2>2
  <2>4. /\ y.at[c.op][m] \in Nat /\ y.at[c.op][m] >= 2 * FirstCategory
        /\ y.at[c.op][m] <= b /\ b \in Nat
    BY <2>1, <2>3, ItemSpots
  <2>5. ItemLen(c.op) \in Nat
    BY DEF ItemLen
  <2> QED BY <2>1, <2>4, <2>5 DEF TaskSpot, Spot, Task
<1>8. CASE c.phase = "entries"
  <2> DEFINE b == Behind(y, u, Category(c.op))
             m == Len(c.list)
             l == Len(Items(d, c.op)[m + 1].entries)
             a == y.at[c.op][m]
             i == l - c.left
  <2>1. /\ c.op \in ItemOps /\ y.loc[Category(c.op)] > 0 /\ m \in Nat /\ HasEntries(c.op)
        /\ m < Len(Items(d, c.op)) /\ c.left \in 1..l
        /\ t = Task("read", a + 8 + 8 * i, 8, b)
    BY <1>8 DEF At, AtEntries, Collected, IsSeq
  <2> HIDE DEF m
  <2>2. Len(Items(d, c.op)) \in Nat
    BY <2>1, ItemSpots
  <2>3. m + 1 \in 1..Len(Items(d, c.op)) /\ (m + 1) - 1 = m
    BY <2>1, <2>2
  <2>4. /\ l \in Nat /\ a \in Nat /\ a >= 2 * FirstCategory /\ b \in Nat
        /\ y.at[c.op][m + 1] = a + 8 + 8 * l /\ y.at[c.op][m + 1] <= b
    <3> DEFINE k == m + 1
    <3>1. k \in 1..Len(Items(d, c.op)) /\ k - 1 = m
      BY <2>3
    <3> HIDE DEF k
    <3>2. PdoHeld(y, u, c.op, Items(d, c.op)[k], k)
      BY <2>1, <3>1, ItemHeld
    <3> QED BY <3>1, <3>2 DEF k, PdoHeld
  <2> HIDE DEF l, a, b
  <2>5a. c.left \in 1..l
    BY <2>1
  <2>5. i \in Nat /\ i < l /\ a + 8 + 8 * i \in Nat /\ a + 8 + 8 * i >= 2 * FirstCategory
        /\ a + 8 + 8 * i <= b
    BY <2>4, <2>5a, EepromAssumption
  <2> QED BY <2>1, <2>4, <2>5 DEF TaskSpot, Spot, Task
<1> QED BY <1>1, <1>2, <1>3, <1>4, <1>5, <1>6, <1>7, <1>8 DEF DescPhases

-----------------------------------------------------------------------------
\* What the calls compute.

LEMMA SumsCount ==
  ASSUME NEW entries \in Seq(Nat)
  PROVE  /\ Sums(entries)[0] = 0
         /\ \A k \in 1..Len(entries) :
              Sums(entries)[k] = Sums(entries)[k - 1] + entries[k]
<1> DEFINE n == Len(entries)
           R(g) == [k \in 0..n |-> IF k = 0 THEN 0 ELSE g[k - 1] + entries[k]]
<1>1. n \in Nat /\ entries \in [1..n -> Nat]
  OBVIOUS
<1>2. PICK g \in [0..n -> Nat] : g[0] = 0 /\ \A k \in 1..n : g[k] = g[k - 1] + entries[k]
  <2> HIDE DEF n
  <2> QED BY <1>1, Prefixes
<1>3. g = R(g)
  <2>1. \A k \in 0..n : k # 0 => k \in 1..n
    BY <1>1
  <2> HIDE DEF n
  <2>2. ASSUME NEW k \in 0..n PROVE g[k] = R(g)[k]
    BY <1>2, <2>1
  <2>3. g = [k \in 0..n |-> g[k]] /\ R(g) = [k \in 0..n |-> R(g)[k]]
    OBVIOUS
  <2> QED BY <2>2, <2>3
<1> DEFINE h == CHOOSE x : x = R(x)
<1>4. h = R(h)
  <2> HIDE DEF R
  <2> QED BY <1>3
<1>5. Sums(entries) = h
  BY DEF Sums
<1> HIDE DEF h
<1>6. h[0] = 0
  BY <1>1, <1>4
<1>7. \A k \in 1..n : h[k] = h[k - 1] + entries[k]
  <2> TAKE k \in 1..n
  <2>1. k \in 0..n /\ k # 0
    BY <1>1
  <2> HIDE DEF n
  <2> QED BY <1>4, <2>1
<1> QED BY <1>5, <1>6, <1>7

\* A string without zeroes stays as it is.
LEMMA RetainAll ==
  ASSUME NEW bytes \in Seq(Byte \ {0})
  PROVE  Retain(bytes) = bytes
<1> DEFINE n == Len(bytes)
           R(g) == [k \in 0..n |->
                      IF k = 0 THEN <<>>
                      ELSE IF bytes[k] = 0 THEN g[k - 1] ELSE Append(g[k - 1], bytes[k])]
           f == [k \in 0..n |-> SubSeq(bytes, 1, k)]
<1>1. n \in Nat /\ IsSeq(bytes) /\ \A k \in 1..n : bytes[k] # 0
  BY IsSeqIntro
<1>2. SubSeq(bytes, 1, 0) = <<>> /\ SubSeq(bytes, 1, n) = bytes
  OBVIOUS
<1>3. ASSUME NEW k \in 1..n
      PROVE  SubSeq(bytes, 1, k) = Append(SubSeq(bytes, 1, k - 1), bytes[k])
  <2> DEFINE p == SubSeq(bytes, 1, k)
             q == SubSeq(bytes, 1, k - 1)
  <2>1. 1 \in 1..(n + 1) /\ k \in 0..n /\ k - 1 \in 0..n /\ 1 - 1 = 0 /\ k - 1 + 1 = k
        /\ (k - 1) - 1 + 1 = k - 1
    BY <1>1
  <2>2. IsSeq(p) /\ Len(p) = k /\ \A j \in 1..k : p[j] = bytes[1 + j - 1]
    BY <1>1, <2>1, PartSeq
  <2>3. IsSeq(q) /\ Len(q) = k - 1 /\ \A j \in 1..(k - 1) : q[j] = bytes[1 + j - 1]
    BY <1>1, <2>1, PartSeq
  <2> HIDE DEF p, q
  <2>4. /\ IsSeq(Append(q, bytes[k])) /\ Len(Append(q, bytes[k])) = k
        /\ \A j \in 1..(k - 1) : Append(q, bytes[k])[j] = q[j]
        /\ Append(q, bytes[k])[k] = bytes[k]
    BY <2>1, <2>3, AppendSeq
  <2>5. \A j \in 1..k : p[j] = Append(q, bytes[k])[j]
    <3> TAKE j \in 1..k
    <3>1. 1 + j - 1 = j /\ (j # k => j \in 1..(k - 1))
      BY <2>1
    <3> QED BY <2>2, <2>3, <2>4, <3>1
  <2>6. p = Append(q, bytes[k])
    BY <2>2, <2>4, <2>5, SameSeq
  <2> QED BY <2>6 DEF p, q
<1> HIDE DEF n
<1>4. f = R(f)
  <2>1. ASSUME NEW k \in 0..n PROVE f[k] = R(f)[k]
    <3>1. CASE k = 0
      BY <1>2, <3>1
    <3>2. CASE k # 0
      <4>1. k \in 1..n /\ k - 1 \in 0..n
        BY <1>1, <3>2
      <4> QED BY <1>1, <1>3, <3>2, <4>1
    <3> QED BY <3>1, <3>2
  <2>2. f = [k \in 0..n |-> f[k]] /\ R(f) = [k \in 0..n |-> R(f)[k]]
    OBVIOUS
  <2> QED BY <2>1, <2>2
<1> DEFINE h == CHOOSE x : x = R(x)
<1>5. h = R(h)
  <2> HIDE DEF R
  <2> QED BY <1>4
<1>6. Retain(bytes) = h[n]
  BY DEF Retain, n
<1> HIDE DEF h
<1>7. h[0] = f[0]
  <2>1. 0 \in 0..n
    BY <1>1
  <2> QED BY <1>2, <1>5, <2>1
<1>8. \A k \in 1..n : h[k - 1] = f[k - 1] => h[k] = f[k]
  <2> SUFFICES ASSUME NEW k \in 1..n, h[k - 1] = f[k - 1] PROVE h[k] = f[k]
    OBVIOUS
  <2>1. k \in 0..n /\ k # 0 /\ k - 1 \in 0..n
    BY <1>1
  <2>2. h[k] = Append(h[k - 1], bytes[k])
    BY <1>1, <1>5, <2>1
  <2>3. f[k] = Append(f[k - 1], bytes[k])
    BY <1>3, <2>1
  <2> QED BY <2>2, <2>3
<1>9. \A k \in 0..n : h[k] = f[k]
  <2> HIDE DEF f, R
  <2>1. n \in Nat
    BY <1>1
  <2>2. \A k \in 1..n : h[k-1] = f[k-1] => h[k] = f[k]
    BY <1>8
  <2> QED BY <2>1, <2>2, <1>7, Alike, ZenonT(40)
<1>10. n \in 0..n
  BY <1>1
<1> QED BY <1>2, <1>6, <1>9, <1>10

-----------------------------------------------------------------------------
\* What a step of a call reaches: the next place, or the right result.

Result(c, tag, value) == [op |-> c.op, arg |-> c.arg, tag |-> tag, value |-> value]
Right(d, r) ==
  r.tag \in {"ok", "missing", "error"} =>
    r.value = Expected(d, r) /\ (r.tag = "error" <=> Refused(d, r.op))
Arrives(y, u, d) ==
  \/ call' = NoCall /\ Right(d, result')
  \/ \E t : At(y, u, d, call', t) /\ Awaits(u, t)'

LEMMA Returns ==
  ASSUME NEW y, NEW u, NEW d, NEW c, NEW tag, NEW value, Return(c, tag, value),
         Right(d, Result(c, tag, value))
  PROVE  Arrives(y, u, d)
BY DEF Return, Arrives, Result

LEMMA Panics ==
  ASSUME NEW y, NEW u, NEW d, NEW c, NEW tag, tag \in {"panic", "failed"}, NEW value,
         Return(c, tag, value)
  PROVE  Arrives(y, u, d)
<1>1. Right(d, Result(c, tag, value))
  BY DEF Right, Result
<1> QED BY <1>1, Returns

\* What is expected of strings and of lists.
LEMMA ExpectString ==
  ASSUME NEW d, NEW c, NEW tag, NEW value, c.op \in StringOps, tag \in {"ok", "missing"},
         c.op # "find_string" => Named(d), value = StringAt(d, Sought(d, c))
  PROVE  Right(d, Result(c, tag, value))
<1>1. CASE c.op = "find_string"
  BY <1>1 DEF Right, Result, Expected, Sought, Refused, Named, GeneralOps
<1>2. CASE c.op = "device_name"
  BY <1>2 DEF Right, Result, Expected, Sought, Refused, Named, GeneralOps
<1>3. CASE c.op = "device_description"
  BY <1>3 DEF Right, Result, Expected, Sought, Refused, Named, GeneralOps
<1> QED BY <1>1, <1>2, <1>3 DEF StringOps

Values(op, items) == IF HasEntries(op) THEN Pdos(items) ELSE items

LEMMA ExpectItems ==
  ASSUME NEW d, NEW c, NEW value, c.op \in ItemOps, value = Values(c.op, Items(d, c.op)),
         \A k \in 1..Len(Items(d, c.op)) : ItemDecodes(c.op, Items(d, c.op)[k])
  PROVE  Right(d, Result(c, "ok", value))
<1>1. CASE c.op = "sync_managers"
  BY <1>1 DEF Right, Result, Expected, Items, Values, HasEntries, Refused,
     GeneralOps
<1>2. CASE c.op = "fmmu_mappings"
  BY <1>2 DEF Right, Result, Expected, Items, Values, HasEntries, Refused,
     GeneralOps
<1>3. CASE c.op = "pdos"
  BY <1>3 DEF Right, Result, Expected, Items, Values, HasEntries, Refused,
     GeneralOps
<1>4. CASE c.op = "write_pdos"
  BY <1>4 DEF Right, Result, Expected, Items, Values, HasEntries, Refused,
     GeneralOps
<1> QED BY <1>1, <1>2, <1>3, <1>4 DEF ItemOps

\* A list with the values of all items.
LEMMA ListComplete ==
  ASSUME NEW op, NEW items, NEW list, IsSeq(items), IsSeq(list), Len(list) = Len(items),
         \A k \in 1..Len(list) : list[k] = Value(op, items[k])
  PROVE  list = Values(op, items)
<1>1. Len(list) \in Nat
  BY DEF IsSeq
<1>2. CASE HasEntries(op)
  <2>1. Len(Pdos(items)) = Len(list) /\ IsSeq(Pdos(items))
        /\ \A k \in 1..Len(list) : Pdos(items)[k] = Value(op, items[k])
    BY <1>1, <1>2 DEF Pdos, Value, IsSeq
  <2> QED BY <1>2, <2>1, SameSeq DEF Values
<1>3. CASE ~HasEntries(op)
  <2>1. \A k \in 1..Len(list) : list[k] = items[k]
    BY <1>3 DEF Value
  <2> QED BY <1>3, <2>1, SameSeq DEF Values
<1> QED BY <1>2, <1>3

-----------------------------------------------------------------------------
\* The search for a category.

LEMMA SearchArrives ==
  ASSUME NEW y, NEW u, NEW d, IsStored(y, u, d), NEW c, IsCallRecord(c), NEW cat,
         Search(c, cat), Seeks(d, [c EXCEPT !.cat = cat])
  PROVE  Arrives(y, u, d)
<1> DEFINE e == [c EXCEPT !.phase = "category", !.cat = cat, !.word_addr = FirstCategory,
                          !.empty = 0]
           f == [c EXCEPT !.cat = cat]
<1>1. call' = e /\ ReadChunk(FirstCategory)
  BY DEF Search, Stay, GoOn
<1>2. /\ e.phase = "category" /\ e.word_addr = FirstCategory /\ e.empty = 0
      /\ e.op = f.op /\ e.cat = f.cat /\ e.list = f.list /\ e.left = f.left /\ e.arg = f.arg
  BY DEF IsCallRecord, CallFields
<1>3. Seeks(d, f)
  OBVIOUS
<1> HIDE DEF e, f
<1>4. Seeks(d, e)
  BY <1>2, <1>3 DEF Seeks, SeeksString, Sought
<1>5. y.n \in Nat \ {0} /\ y.w[1] = FirstCategory /\ y.e[1] = 0
  BY DEF IsStored, Chain
<1>6. AtCategory(y, u, d, e, Chunk(FirstCategory))
  <2>1. 1 \in 1..y.n /\ 1..(1 - 1) = {}
    BY <1>5
  <2> QED BY <1>2, <1>4, <1>5, <2>1 DEF AtCategory
<1>7. At(y, u, d, e, Chunk(FirstCategory))
  BY <1>2, <1>6 DEF At, DescPhases
<1>8. Awaits(u, Chunk(FirstCategory))'
  BY <1>1, ChunkAwaits
<1> QED BY <1>1, <1>7, <1>8 DEF Arrives

\* A call for a string with its index.
LEMMA FindStringArrives ==
  ASSUME NEW y, NEW u, NEW d, IsStored(y, u, d), NEW c, IsCallRecord(c), NEW index \in Nat,
         c.op \in StringOps, c.op # "find_string" => Named(d),
         index = Sought(d, c), index # Len(d.strings) + 1, FindString(c, index)
  PROVE  Arrives(y, u, d)
<1>1. CASE index = 0
  <2>1. Return(c, "missing", <<>>)
    BY <1>1 DEF FindString
  <2>2. StringAt(d, Sought(d, c)) = <<>>
    BY <1>1 DEF StringAt
  <2> QED BY <2>1, <2>2, ExpectString, Returns
<1>2. CASE index # 0
  <2> DEFINE e == [c EXCEPT !.left = index - 1]
             f == [e EXCEPT !.cat = Strings]
  <2>1. Search(e, Strings)
    BY <1>2 DEF FindString
  <2>2. IsCallRecord(e) /\ f.op = c.op /\ f.arg = c.arg /\ f.left = index - 1 /\ f.cat = Strings
    BY DEF IsCallRecord, CallFields
  <2>3. index - 1 \in 0..(index - 1)
    BY <1>2
  <2> HIDE DEF f
  <2>4. Sought(d, f) = Sought(d, c)
    BY <2>2 DEF Sought
  <2>5. Seeks(d, f)
    BY <1>2, <2>2, <2>3, <2>4 DEF Seeks, SeeksString
  <2> HIDE DEF e
  <2> QED BY <2>1, <2>2, <2>5, SearchArrives DEF f
<1> QED BY <1>1, <1>2

\* What is not stored is not found.
LEMMA NotFoundArrives ==
  ASSUME NEW y, NEW u, NEW d, IsStored(y, u, d), NEW c, Seeks(d, c), y.loc[c.cat] = 0,
         NotFound(c)
  PROVE  Arrives(y, u, d)
<1>1. CASE c.op \in ItemOps /\ c.cat = Category(c.op)
  <2>1. Return(c, "ok", <<>>)
    BY <1>1 DEF NotFound, ItemOps
  <2>2. HoldsItems(y, u, c.op, Items(d, c.op))
    BY <1>1, ListStored
  <2>3. Items(d, c.op) = <<>>
    BY <1>1, <2>2 DEF HoldsItems
  <2>4. Values(c.op, <<>>) = <<>>
    BY DEF Values, Pdos
  <2>5. 1..Len(Items(d, c.op)) = {}
    BY <2>3
  <2> QED BY <1>1, <2>1, <2>3, <2>4, <2>5, ExpectItems, Returns
<1>2. CASE c.op = "fmmus" /\ c.cat = Category(c.op)
  <2>1. Return(c, "ok", <<>>)
    BY <1>2 DEF NotFound
  <2>2. d.fmmus = <<>>
    BY <1>2 DEF IsStored, HoldsFmmus, Category
  <2>3. Right(d, Result(c, "ok", <<>>))
    BY <1>2, <2>2 DEF Right, Result, Expected, Refused, FmmusDecode, GeneralOps
  <2> QED BY <2>1, <2>3, Returns
<1>3. CASE c.op \in GeneralOps /\ c.cat = Category(c.op)
  <2>1. c.cat = General
    BY <1>3 DEF Category, GeneralOps
  <2>2. d.general = <<>>
    BY <2>1 DEF IsStored, HoldsGeneral
  <2>3. CASE c.op = "device_name"
    <3>1. Return(c, "missing", <<>>)
      BY <2>3 DEF NotFound
    <3>2. Right(d, Result(c, "missing", <<>>))
      BY <2>2, <2>3 DEF Right, Result, Expected, Refused, GeneralOps
    <3> QED BY <3>1, <3>2, Returns
  <2>4. CASE c.op \in {"general", "device_description"}
    <3>1. Return(c, "error", <<>>)
      BY <2>1, <2>4 DEF NotFound
    <3>2. Right(d, Result(c, "error", <<>>))
      BY <2>2, <2>4 DEF Right, Result, Expected, Refused, GeneralOps
    <3> QED BY <3>1, <3>2, Returns
  <2> QED BY <1>3, <2>3, <2>4 DEF GeneralOps
<1>4. CASE SeeksString(d, c) /\ c.cat = Strings
  <2>1. Return(c, "missing", <<>>)
    BY <1>4 DEF NotFound, SeeksString, StringOps, Strings, General
  <2>2. d.strings = <<>>
    BY <1>4 DEF IsStored, HoldsStrings
  <2>3. StringAt(d, Sought(d, c)) = <<>>
    BY <2>2 DEF StringAt
  <2> QED BY <1>4, <2>1, <2>3, ExpectString, Returns DEF SeeksString
<1> QED BY <1>1, <1>2, <1>3, <1>4 DEF Seeks, Lists, ItemOps

\* What is found is read from its beginning.
LEMMA FoundArrives ==
  ASSUME NEW u \in [Nat -> Byte], NEW y, NEW d, IsStored(y, u, d), NEW c, IsCallRecord(c),
         Seeks(d, c), c.cat \in Types, y.loc[c.cat] > 0, NEW start, NEW len_words,
         Found(c, start, len_words), 2 * start = From(y, c.cat),
         2 * start + 2 * len_words = Behind(y, u, c.cat)
  PROVE  Arrives(y, u, d)
<1> DEFINE a == From(y, c.cat)
           b == Behind(y, u, c.cat)
<1>1. reader' = [byte_pos |-> a, end |-> b] /\ a \in Nat
  BY Region DEF Found, NewRange, IsStored
<1>2. reader'.byte_pos = a /\ reader'.end = b
  BY <1>1
<1> HIDE DEF a, b
<1>3. CASE c.cat = Strings
  <2> DEFINE e == [c EXCEPT !.phase = "num"]
             t == Task("byte", a, 1, b)
  <2>1. call' = e /\ ReadByte
    BY <1>3 DEF Found, GoOn, Strings, General, Fmmu
  <2>2. e.phase = "num" /\ e.op = c.op /\ e.arg = c.arg /\ e.left = c.left
    BY DEF IsCallRecord, CallFields
  <2> HIDE DEF e
  <2>3. SeeksString(d, c) /\ c.left = Sought(d, c) - 1
    BY <1>3 DEF Seeks, Category, Lists, GeneralOps, Strings, General, Fmmu, SyncManager,
       FmmuExtended, TxPdo, RxPdo
  <2>4. AtNum(y, u, d, e, t)
    BY <1>3, <2>2, <2>3 DEF AtNum, SeeksString, Sought, a, b
  <2>5. At(y, u, d, e, t)
    BY <2>2, <2>4 DEF At, DescPhases
  <2>6. Awaits(u, t)'
    BY <1>1, <1>2, <2>1, ByteAwaits
  <2> QED BY <2>1, <2>5, <2>6 DEF Arrives
<1>4. CASE c.cat = General
  <2> DEFINE e == [c EXCEPT !.phase = "general"]
             t == Task("read", a, GeneralLen, b)
  <2>1. call' = e /\ Read(GeneralLen)
    BY <1>4 DEF Found, GoOn, Strings, General, Fmmu
  <2>2. e.phase = "general" /\ e.op = c.op
    BY DEF IsCallRecord, CallFields
  <2> HIDE DEF e
  <2>3. c.op \in GeneralOps
    BY <1>4 DEF Seeks, Category, Lists, GeneralOps, Strings, General, Fmmu, SyncManager,
       FmmuExtended, TxPdo, RxPdo
  <2>4. AtGeneral(y, u, d, e, t)
    BY <1>4, <2>2, <2>3 DEF AtGeneral, a, b
  <2>5. At(y, u, d, e, t)
    BY <2>2, <2>4 DEF At, DescPhases
  <2>6. Awaits(u, t)'
    BY <1>1, <1>2, <2>1, ReadAwaits
  <2> QED BY <2>1, <2>5, <2>6 DEF Arrives
<1>5. CASE c.cat = Fmmu
  <2> DEFINE e == [c EXCEPT !.phase = "fmmus"]
             t == Task("read", a, 16, b)
  <2>1. call' = e /\ Read(16)
    BY <1>5 DEF Found, GoOn, Strings, General, Fmmu
  <2>2. e.phase = "fmmus" /\ e.op = c.op
    BY DEF IsCallRecord, CallFields
  <2> HIDE DEF e
  <2>3. c.op = "fmmus"
    BY <1>5 DEF Seeks, Category, Lists, GeneralOps, Strings, General, Fmmu, SyncManager,
       FmmuExtended, TxPdo, RxPdo
  <2>4. AtFmmus(y, u, d, e, t)
    BY <1>5, <2>2, <2>3 DEF AtFmmus, a, b
  <2>5. At(y, u, d, e, t)
    BY <2>2, <2>4 DEF At, DescPhases
  <2>6. Awaits(u, t)'
    BY <1>1, <1>2, <2>1, ReadAwaits
  <2> QED BY <2>1, <2>5, <2>6 DEF Arrives
<1>6. CASE c.cat \notin {Strings, General, Fmmu}
  <2> DEFINE e == [c EXCEPT !.phase = "items"]
             t == Task("read", a, ItemLen(c.op), b)
  <2>1. call' = e /\ Read(ItemLen(c.op))
    BY <1>6 DEF Found, GoOn
  <2>2. e.phase = "items" /\ e.op = c.op /\ e.list = c.list
    BY DEF IsCallRecord, CallFields
  <2> HIDE DEF e
  <2>3. c.op \in ItemOps /\ c.cat = Category(c.op) /\ c.list = <<>>
    BY <1>6 DEF Seeks, Category, Lists, GeneralOps, ItemOps
  <2>4. /\ y.at[c.op][0] = From(y, Category(c.op)) /\ Len(Items(d, c.op)) \in Nat
    BY <2>3, ItemSpots
  <2>5. IsSeq(e.list) /\ Len(e.list) = 0
    BY <2>2, <2>3, EmptyIsSeq
  <2>6. Collected(y, d, e)
    BY <2>2, <2>3, <2>4, <2>5 DEF Collected
  <2>7. AtItems(y, u, d, e, t)
    BY <2>2, <2>3, <2>4, <2>5, <2>6 DEF AtItems, a, b
  <2>8. At(y, u, d, e, t)
    BY <2>2, <2>7 DEF At, DescPhases
  <2>9. Awaits(u, t)'
    BY <1>1, <1>2, <2>1, ReadAwaits
  <2> QED BY <2>1, <2>8, <2>9 DEF Arrives
<1> QED BY <1>3, <1>4, <1>5, <1>6

-----------------------------------------------------------------------------
\* The steps of a call that reads the description, one by one.

Stands(y, u, d, c, t) ==
  /\ u \in [Nat -> Byte] /\ IsStored(y, u, d)
  /\ c = call /\ IsCallRecord(c) /\ At(y, u, d, c, t) /\ Awaits(u, t)
  /\ reader \in RangeType

\* A chunk holds the type and the length of a category.
LEMMA ChunkWords ==
  ASSUME NEW u, NEW w \in Nat, Awaits(u, Chunk(w)), rpc = "done"
  PROVE  U16At(1) = WordAt(u, w) /\ U16At(3) = WordAt(u, w + 1)
<1>1. /\ delivered[1] = u[2 * w + 1 - 1] /\ delivered[2] = u[2 * w + 2 - 1]
      /\ delivered[3] = u[2 * w + 3 - 1] /\ delivered[4] = u[2 * w + 4 - 1]
  BY ChunkDone
<1>2. /\ 2 * w + 1 - 1 = 2 * w /\ 2 * w + 2 - 1 = 2 * w + 1
      /\ 2 * w + 3 - 1 = 2 * (w + 1) /\ 2 * w + 4 - 1 = 2 * (w + 1) + 1
      /\ 1 + 1 = 2 /\ 3 + 1 = 4
  OBVIOUS
<1>3. delivered[1 + 1] = delivered[2] /\ delivered[3 + 1] = delivered[4]
  BY <1>2
<1>4. /\ delivered[1] = u[2 * w] /\ delivered[2] = u[2 * w + 1]
      /\ delivered[3] = u[2 * (w + 1)] /\ delivered[4] = u[2 * (w + 1) + 1]
  BY <1>1, <1>2
<1> QED BY <1>3, <1>4 DEF U16At, WordAt

LEMMA SearchCategoryArrives ==
  ASSUME NEW y, NEW u, NEW d, NEW c, NEW t, Stands(y, u, d, c, t), SearchCategory
  PROVE  Arrives(y, u, d)
<1>1. /\ u \in [Nat -> Byte] /\ IsStored(y, u, d) /\ Chain(y, u) /\ Located(y, u)
      /\ c = call /\ IsCallRecord(c) /\ c.phase = "category" /\ rpc = "done"
      /\ AtCategory(y, u, d, c, t) /\ Awaits(u, t)
  BY DEF Stands, At, IsStored, SearchCategory, Continue
<1>2. PICK k \in 1..y.n :
         /\ c.word_addr = y.w[k] /\ c.empty = y.e[k] /\ Seeks(d, c)
         /\ \A j \in 1..(k - 1) : WordAt(u, y.w[j]) # c.cat
         /\ t = Chunk(y.w[k])
  BY <1>1 DEF AtCategory
<1> DEFINE w == y.w[k]
           type == WordAt(u, w)
           len == WordAt(u, w + 1)
           start == w + 2
           next == w + 2 + len
           empty == y.e[k] + (IF len = 0 THEN 1 ELSE 0)
<1>3. w \in Nat /\ w >= FirstCategory /\ type \in Nat /\ len \in Nat
  BY <1>1, ChainAbove
<1>4. U16At(1) = type /\ U16At(3) = len
  BY <1>1, <1>2, <1>3, ChunkWords
<1>5. (CASE start >= U16 \/ empty >= MaxEmpty -> NotFound(c)
        [] start < U16 /\ empty < MaxEmpty /\ type = c.cat ->
             IF RangeFits(start, len) THEN Found(c, start, len) ELSE Return(c, "panic", <<>>)
        [] start < U16 /\ empty < MaxEmpty /\ type = End /\ type # c.cat -> NotFound(c)
        [] OTHER ->
             IF next >= U16 THEN Return(c, "panic", <<>>)
             ELSE /\ ReadChunk(next)
                  /\ Stay([c EXCEPT !.word_addr = next, !.empty = empty]))
  BY <1>1, <1>2, <1>4 DEF SearchCategory, NextCategory
<1> HIDE DEF type, len
<1>6. c.cat \in Types /\ c.cat # End
  BY <1>2 DEF Seeks, Types, Category, Lists, GeneralOps, End, Strings, General, Fmmu,
     SyncManager, FmmuExtended, TxPdo, RxPdo
<1>7. /\ y.n \in Nat \ {0} /\ U16 \in Nat /\ MaxEmpty \in Nat /\ y.e[k] \in Nat
      /\ y.loc[c.cat] \in 0..(y.n - 1)
  BY <1>1, <1>6, RangeAssumption, EepromAssumption DEF Chain, Located
<1>8. empty \in Nat /\ start \in Nat /\ next \in Nat
  BY <1>3, <1>7
<1>9. CASE k = y.n
  <2>1. type = End
    BY <1>1, <1>9 DEF Chain, type
  <2>2. NotFound(c)
    BY <1>5, <1>6, <1>7, <1>8, <2>1
  <2>3. y.loc[c.cat] = 0
    <3> SUFFICES ASSUME y.loc[c.cat] # 0 PROVE FALSE
      OBVIOUS
    <3>1. y.loc[c.cat] > 0 /\ y.loc[c.cat] \in 1..(k - 1)
      BY <1>7, <1>9
    <3>2. WordAt(u, y.w[y.loc[c.cat]]) = c.cat
      BY <1>1, <1>6, <3>1 DEF Located
    <3> QED BY <1>2, <3>1, <3>2
  <2> QED BY <1>1, <1>2, <2>2, <2>3, NotFoundArrives
<1>10. CASE k # y.n
  <2>1. k \in 1..(y.n - 1) /\ k + 1 \in 1..y.n /\ (k + 1) - 1 = k
    BY <1>7, <1>10
  <2>2. /\ type # End /\ y.w[k + 1] = next /\ y.e[k + 1] = empty
        /\ y.w[k + 1] < U16 /\ y.e[k + 1] < MaxEmpty
    BY <1>1, <2>1 DEF Chain, type, len
  <2>3. start < U16 /\ empty < MaxEmpty /\ next < U16
    BY <1>3, <1>7, <1>8, <2>2
  <2>4. CASE type = c.cat
    <3>1. y.loc[c.cat] \in 1..k
      BY <1>1, <1>6, <2>1, <2>4 DEF Located, type
    <3>2. y.loc[c.cat] > 0 /\ (y.loc[c.cat] # k => y.loc[c.cat] \in 1..(k - 1))
      BY <2>1, <3>1
    <3>3. WordAt(u, y.w[y.loc[c.cat]]) = c.cat /\ Behind(y, u, c.cat) < U16
      BY <1>1, <1>6, <3>2 DEF Located
    <3>4. y.loc[c.cat] = k
      BY <1>2, <3>2, <3>3
    <3>5. 2 * start = From(y, c.cat) /\ 2 * start + 2 * len = Behind(y, u, c.cat)
      BY <3>4 DEF From, Behind, len
    <3>6. Found(c, start, len)
      BY <1>5, <1>7, <1>8, <2>3, <2>4, <3>3, <3>5 DEF RangeFits
    <3> HIDE DEF start
    <3> QED BY <1>1, <1>2, <1>6, <3>2, <3>5, <3>6, FoundArrives
  <2>5. CASE type # c.cat
    <3> DEFINE e == [c EXCEPT !.word_addr = next, !.empty = empty]
    <3>1. ReadChunk(next) /\ call' = e
      BY <1>5, <1>7, <1>8, <2>2, <2>3, <2>5 DEF Stay, GoOn
    <3>2. /\ e.phase = "category" /\ e.word_addr = next /\ e.empty = empty /\ e.op = c.op
          /\ e.arg = c.arg /\ e.cat = c.cat /\ e.list = c.list /\ e.left = c.left
      BY <1>1 DEF IsCallRecord, CallFields
    <3> HIDE DEF e, next, empty
    <3>3. Seeks(d, e)
      BY <1>2, <3>2 DEF Seeks, SeeksString, Sought
    <3>4. ASSUME NEW j \in 1..((k + 1) - 1) PROVE WordAt(u, y.w[j]) # e.cat
      <4>1. j = k \/ j \in 1..(k - 1)
        BY <2>1
      <4> QED BY <1>2, <2>5, <3>2, <4>1 DEF type
    <3>5. AtCategory(y, u, d, e, Chunk(next))
      BY <2>1, <2>2, <3>2, <3>3, <3>4 DEF AtCategory
    <3>6. At(y, u, d, e, Chunk(next))
      BY <3>2, <3>5 DEF At, DescPhases
    <3>7. PICK v : v = next
      OBVIOUS
    <3>8. Awaits(u, Chunk(v))'
      BY <3>1, <3>7, ChunkAwaits
    <3> QED BY <3>1, <3>6, <3>7, <3>8 DEF Arrives
  <2> QED BY <2>4, <2>5
<1> QED BY <1>9, <1>10

LEMMA FmmusDoneArrives ==
  ASSUME NEW y, NEW u, NEW d, NEW c, NEW t, Stands(y, u, d, c, t), FmmusDone
  PROVE  Arrives(y, u, d)
<1> DEFINE a == From(y, Fmmu)
           b == Behind(y, u, Fmmu)
           n == Len(d.fmmus)
<1>1. /\ u \in [Nat -> Byte] /\ IsStored(y, u, d) /\ c = call /\ rpc = "done"
      /\ y.loc[Fmmu] > 0 /\ c.op = "fmmus" /\ Awaits(u, Task("read", a, 16, b))
  BY DEF Stands, At, AtFmmus, FmmusDone, Continue
<1>2. delivered = Bytes(u, a, Within(16, a, b))
  BY <1>1, BytesDone
<1>3. /\ d.fmmus \in Seq(Byte) /\ n \in Nat /\ n <= 16 /\ HasBytes(u, a, d.fmmus)
      /\ a \in Nat /\ a + n = b
  BY <1>1, FmmuSpot
<1>4. Within(16, a, b) = n
  <2> HIDE DEF a, b, n
  <2> QED BY <1>3 DEF Within
<1>5. IsSeq(d.fmmus)
  BY <1>3, IsSeqIntro
<1>6. delivered = d.fmmus
  BY <1>2, <1>3, <1>4, <1>5, BytesAre
<1>7. CASE FmmusDecode(d.fmmus)
  <2>1. Return(c, "ok", d.fmmus)
    BY <1>1, <1>6, <1>7 DEF FmmusDone
  <2>2. Right(d, Result(c, "ok", d.fmmus))
    BY <1>1, <1>7 DEF Right, Result, Expected, Refused, GeneralOps
  <2> QED BY <2>1, <2>2, Returns
<1>8. CASE ~FmmusDecode(d.fmmus)
  <2>1. Return(c, "error", <<>>)
    BY <1>1, <1>6, <1>8 DEF FmmusDone
  <2>2. Right(d, Result(c, "error", <<>>))
    BY <1>1, <1>8 DEF Right, Result, Expected, Refused
  <2> QED BY <2>1, <2>2, Returns
<1> QED BY <1>7, <1>8

LEMMA GeneralDoneArrives ==
  ASSUME NEW y, NEW u, NEW d, NEW c, NEW t, Stands(y, u, d, c, t), GeneralDone
  PROVE  Arrives(y, u, d)
<1> DEFINE a == From(y, General)
           b == Behind(y, u, General)
           g == d.general
<1>1. /\ u \in [Nat -> Byte] /\ IsStored(y, u, d) /\ c = call /\ rpc = "done"
      /\ IsCallRecord(c) /\ y.loc[General] > 0 /\ c.op \in GeneralOps
      /\ Awaits(u, Task("read", a, 18, b))
  BY DEF Stands, At, AtGeneral, GeneralDone, Continue, GeneralLen
<1>2. delivered = Bytes(u, a, Within(18, a, b))
  BY <1>1, BytesDone
<1>3. /\ g \in Seq(Byte) /\ Len(g) = 18 /\ g # <<>> /\ HasBytes(u, a, g)
      /\ a \in Nat /\ b \in Nat /\ a + 18 <= b /\ Len(d.strings) + 1 \notin {g[3], g[4]}
  BY <1>1, GeneralSpot
<1>4. Within(18, a, b) = 18
  <2> HIDE DEF a, b
  <2> QED BY <1>3 DEF Within
<1>5. IsSeq(g)
  BY <1>3, IsSeqIntro
<1>6. delivered = g
  BY <1>2, <1>3, <1>4, <1>5, BytesAre
<1>7. ~(Len(delivered) < GeneralLen)
  <2>1. Len(delivered) = 18
    BY <1>3, <1>6
  <2> QED BY <2>1 DEF GeneralLen
<1>8. CASE ~GeneralDecodes(g)
  <2>1. Return(c, "error", <<>>)
    BY <1>1, <1>6, <1>8 DEF GeneralDone
  <2>2. Right(d, Result(c, "error", <<>>))
    BY <1>1, <1>3, <1>8 DEF Right, Result, Expected, Refused
  <2> QED BY <2>1, <2>2, Returns
<1>9. CASE GeneralDecodes(g)
  <2>1. CASE c.op = "general"
    <3>1. Return(c, "ok", g)
      BY <1>1, <1>6, <1>7, <1>9, <2>1 DEF GeneralDone
    <3>2. Right(d, Result(c, "ok", g))
      BY <1>3, <1>9, <2>1 DEF Right, Result, Expected, Refused
    <3> QED BY <3>1, <3>2, Returns
  <2>2. g[3] \in Nat /\ g[4] \in Nat /\ Named(d)
    <3>1. g[3] \in Byte /\ g[4] \in Byte
      BY <1>3
    <3>2. Named(d)
      BY <1>3, <1>9 DEF Named
    <3> HIDE DEF g
    <3> QED BY <3>1, <3>2 DEF Byte
  <2>3. CASE c.op = "device_name"
    <3>1. FindString(c, g[3])
      BY <1>1, <1>6, <1>7, <1>9, <2>3 DEF GeneralDone
    <3>2. g[3] = Sought(d, c) /\ c.op \in StringOps
      BY <2>3 DEF Sought, StringOps
    <3> QED BY <1>1, <1>3, <2>2, <3>1, <3>2, FindStringArrives
  <2>4. CASE c.op = "device_description"
    <3>1. FindString(c, g[4])
      BY <1>1, <1>6, <1>7, <1>9, <2>4 DEF GeneralDone
    <3>2. g[4] = Sought(d, c) /\ c.op \in StringOps
      BY <2>4 DEF Sought, StringOps
    <3> QED BY <1>1, <1>3, <2>2, <3>1, <3>2, FindStringArrives
  <2> QED BY <1>1, <2>1, <2>3, <2>4 DEF GeneralOps
<1> QED BY <1>8, <1>9

LEMMA StringCountArrives ==
  ASSUME NEW y, NEW u, NEW d, NEW c, NEW t, Stands(y, u, d, c, t), StringCount
  PROVE  Arrives(y, u, d)
<1> DEFINE a == From(y, Strings)
           b == Behind(y, u, Strings)
           n == Len(d.strings)
           s == Sought(d, c)
<1>1. /\ u \in [Nat -> Byte] /\ IsStored(y, u, d) /\ c = call /\ rpc = "done"
      /\ IsCallRecord(c) /\ y.loc[Strings] > 0 /\ SeeksString(d, c) /\ c.left = s - 1
      /\ Awaits(u, Task("byte", a, 1, b))
  BY DEF Stands, At, AtNum, StringCount, Continue
<1>2. /\ reader.end = b /\ reader.byte_pos = a + Within(1, a, b)
      /\ delivered = Bytes(u, a, Within(1, a, b))
  BY <1>1, BytesDone
<1>3. /\ a \in Nat /\ b \in Nat /\ a < b /\ u[a] = n /\ n \in Nat /\ y.str[0] = a + 1
      /\ y.str[0] \in Nat
  BY <1>1, StringSpots
<1>4. Within(1, a, b) = 1
  <2> HIDE DEF a, b
  <2> QED BY <1>3 DEF Within
<1>5. delivered[1] = n
  BY <1>2, <1>3, <1>4 DEF Bytes
<1>6. s \in Nat \ {0} /\ s # n + 1
  BY <1>1, <1>3 DEF SeeksString
<1> HIDE DEF s, n
<1>7. CASE c.left > n
  <2>1. Return(c, "missing", <<>>)
    BY <1>1, <1>5, <1>7 DEF StringCount
  <2>2. s \notin 1..n
    BY <1>1, <1>3, <1>6, <1>7
  <2>3. StringAt(d, s) = <<>>
    BY <2>2 DEF StringAt, n
  <2> QED BY <1>1, <2>1, <2>3, ExpectString, Returns DEF SeeksString, s
<1>8. CASE ~(c.left > n)
  <2> DEFINE e == [c EXCEPT !.phase = "len"]
             f == y.str[0]
             q == Task("byte", f, 1, b)
  <2>1. ReadByte /\ call' = e /\ reader' = reader
    BY <1>1, <1>5, <1>8 DEF StringCount, Stay, GoOn
  <2>2. e.phase = "len" /\ e.op = c.op /\ e.arg = c.arg /\ e.left = c.left
    BY <1>1 DEF IsCallRecord, CallFields
  <2> HIDE DEF e
  <2>3. s <= n /\ s - 1 - c.left = 0
    BY <1>1, <1>3, <1>6, <1>8
  <2>4. Sought(d, e) = s /\ SeeksString(d, e)
    BY <1>1, <2>2 DEF Sought, SeeksString, s
  <2>5. AtLen(y, u, d, e, q)
    BY <1>1, <2>2, <2>3, <2>4 DEF AtLen, n
  <2>6. At(y, u, d, e, q)
    BY <2>2, <2>5 DEF At, DescPhases
  <2>7. reader'.byte_pos = f /\ reader'.end = b /\ f \in Nat
    BY <1>2, <1>3, <1>4, <2>1
  <2> HIDE DEF f, b
  <2>8. Awaits(u, q)'
    BY <2>1, <2>7, ByteAwaits
  <2> QED BY <2>1, <2>6, <2>8 DEF Arrives
<1> QED BY <1>7, <1>8

LEMMA StringLengthArrives ==
  ASSUME NEW y, NEW u, NEW d, NEW c, NEW t, Stands(y, u, d, c, t), StringLength
  PROVE  Arrives(y, u, d)
<1> DEFINE b == Behind(y, u, Strings)
           n == Len(d.strings)
           s == Sought(d, c)
           j == s - 1 - c.left
           a == y.str[j]
           l == Len(d.strings[j + 1])
<1>1. /\ u \in [Nat -> Byte] /\ IsStored(y, u, d) /\ c = call /\ rpc = "done"
      /\ IsCallRecord(c) /\ y.loc[Strings] > 0 /\ SeeksString(d, c) /\ s <= n
      /\ Awaits(u, Task("byte", a, 1, b))
  BY DEF Stands, At, AtLen, StringLength, Continue
<1>2. /\ reader.end = b /\ reader.byte_pos = a + Within(1, a, b)
      /\ delivered = Bytes(u, a, Within(1, a, b))
  BY <1>1, BytesDone
<1>3. s \in Nat \ {0} /\ c.left \in 0..(s - 1) /\ c.left \in Nat
  BY <1>1 DEF SeeksString
<1>4. n \in Nat /\ b \in Nat /\ \A k \in 0..n : y.str[k] \in Nat /\ y.str[k] <= b
  BY <1>1, StringSpots
<1> HIDE DEF s, n
<1>5. j \in 0..n /\ j + 1 \in 1..n /\ j + 1 \in 0..n /\ (j + 1) - 1 = j
  BY <1>1, <1>3, <1>4
<1>6. StringHeld(y, u, d.strings[j + 1], j + 1)
  BY <1>1, <1>5, StringSpots DEF n
<1>7. /\ a \in Nat /\ l \in Nat /\ l <= MaxString /\ u[a] = l
      /\ y.str[j + 1] = a + 1 + l /\ y.str[j + 1] <= b
  BY <1>4, <1>5, <1>6 DEF StringHeld
<1>8. Within(1, a, b) = 1
  <2>1. a < b
    BY <1>4, <1>7
  <2> HIDE DEF a, b
  <2> QED BY <1>4, <1>7, <2>1 DEF Within
<1>9. delivered[1] = l /\ reader.byte_pos = a + 1
  BY <1>2, <1>7, <1>8 DEF Bytes
<1>10. CASE c.left > 0
  <2> DEFINE e == [c EXCEPT !.left = @ - 1]
             f == y.str[j + 1]
             q == Task("byte", f, 1, b)
  <2>1. j + 2 \in 1..n /\ j + 2 \in 0..n /\ (j + 2) - 1 = j + 1
    BY <1>1, <1>3, <1>4, <1>10
  <2>2. y.str[j + 1] < b
    <3>1. StringHeld(y, u, d.strings[j + 2], j + 2)
      BY <1>1, <2>1, StringSpots DEF n
    <3>2. /\ y.str[j + 2] = f + 1 + Len(d.strings[j + 2]) /\ Len(d.strings[j + 2]) \in Nat
          /\ y.str[j + 2] <= b /\ f \in Nat
      BY <1>4, <1>5, <2>1, <3>1 DEF StringHeld
    <3> QED BY <1>4, <3>2
  <2>3. reader.byte_pos + l < reader.end /\ reader.byte_pos + l = f
    BY <1>2, <1>4, <1>7, <1>9, <2>2
  <2>4. Skip(l) /\ ReadByte /\ call' = e
    BY <1>1, <1>9, <1>10, <2>3 DEF StringLength, SkipFits, GoOn
  <2>5. reader'.byte_pos = f /\ reader'.end = b /\ f \in Nat
    <3>1. reader'.byte_pos = reader.byte_pos + l /\ reader'.end = reader.end
      BY <2>4 DEF Skip, Stands, RangeType
    <3> QED BY <1>2, <1>4, <1>5, <2>3, <3>1
  <2>6. e.phase = c.phase /\ e.op = c.op /\ e.arg = c.arg /\ e.left = c.left - 1
    BY <1>1 DEF IsCallRecord, CallFields
  <2>7. c.phase = "len"
    BY <1>1 DEF StringLength, Continue
  <2> HIDE DEF e
  <2>8. Sought(d, e) = s
    BY <2>6 DEF Sought, s
  <2>9. e.left \in 0..(s - 1) /\ s - 1 - e.left = j + 1
    BY <1>3, <1>10, <2>6
  <2>10. SeeksString(d, e)
    BY <1>1, <2>6, <2>8, <2>9 DEF SeeksString, s
  <2>11. AtLen(y, u, d, e, q)
    BY <1>1, <2>8, <2>9, <2>10 DEF AtLen, n
  <2>12. At(y, u, d, e, q)
    BY <2>6, <2>7, <2>11 DEF At, DescPhases
  <2> HIDE DEF f, b
  <2>13. Awaits(u, q)'
    BY <2>4, <2>5, ByteAwaits
  <2> QED BY <2>4, <2>12, <2>13 DEF Arrives
<1>11. CASE ~(c.left > 0)
  <2> DEFINE e == [c EXCEPT !.phase = "string", !.sum = l]
             f == a + 1
             q == Task("read", f, l, b)
  <2>1. c.left = 0 /\ j = s - 1 /\ j + 1 = s
    BY <1>3, <1>11
  <2>2. Read(l) /\ call' = e /\ reader' = reader
    BY <1>1, <1>7, <1>9, <1>11, EepromAssumption DEF StringLength, Stay, GoOn
  <2>3. e.phase = "string" /\ e.op = c.op /\ e.arg = c.arg /\ e.left = c.left /\ e.sum = l
    BY <1>1 DEF IsCallRecord, CallFields
  <2> HIDE DEF e
  <2>4. Sought(d, e) = s
    BY <2>3 DEF Sought, s
  <2>5. SeeksString(d, e)
    BY <1>1, <2>3, <2>4 DEF SeeksString, s
  <2>6. AtString(y, u, d, e, q)
    BY <1>1, <2>1, <2>3, <2>4, <2>5 DEF AtString, n
  <2>7. At(y, u, d, e, q)
    BY <2>3, <2>6 DEF At, DescPhases
  <2>8. reader'.byte_pos = f /\ reader'.end = b /\ f \in Nat
    BY <1>2, <1>7, <1>9, <2>2
  <2> HIDE DEF f, b, l
  <2>9. Awaits(u, q)'
    BY <2>2, <2>8, ReadAwaits
  <2> QED BY <2>2, <2>7, <2>9 DEF Arrives
<1> QED BY <1>10, <1>11

LEMMA StringDoneArrives ==
  ASSUME NEW y, NEW u, NEW d, NEW c, NEW t, Stands(y, u, d, c, t), StringDone
  PROVE  Arrives(y, u, d)
<1> DEFINE b == Behind(y, u, Strings)
           n == Len(d.strings)
           s == Sought(d, c)
           x == d.strings[s]
           a == y.str[s - 1] + 1
           l == Len(x)
<1>1. /\ u \in [Nat -> Byte] /\ IsStored(y, u, d) /\ c = call /\ rpc = "done"
      /\ y.loc[Strings] > 0 /\ SeeksString(d, c) /\ s <= n /\ c.sum = l
      /\ Awaits(u, Task("read", a, l, b))
  BY DEF Stands, At, AtString, StringDone, Continue
<1>2. delivered = Bytes(u, a, Within(l, a, b))
  BY <1>1, BytesDone
<1>3. s \in Nat \ {0}
  BY <1>1 DEF SeeksString
<1>4. /\ n \in Nat /\ b \in Nat /\ d.strings \in Seq(Seq(Byte \ {0}))
      /\ \A k \in 0..n : y.str[k] \in Nat /\ y.str[k] <= b
  BY <1>1, StringSpots
<1> HIDE DEF s
<1>5. s \in 1..n /\ s \in 0..n /\ s - 1 \in 0..n
  BY <1>1, <1>3, <1>4
<1>6. StringHeld(y, u, x, s)
  BY <1>1, <1>5, StringSpots
<1>7. x \in Seq(Byte \ {0}) /\ IsSeq(x)
  BY <1>4, <1>5, IsSeqIntro
<1>8. /\ a \in Nat /\ l \in Nat /\ a + l <= b /\ HasBytes(u, a, x)
  <2>1. y.str[s - 1] \in Nat /\ y.str[s] <= b
    BY <1>4, <1>5
  <2>2. y.str[s] = y.str[s - 1] + 1 + l /\ l \in Nat /\ HasBytes(u, a, x)
    BY <1>6 DEF StringHeld
  <2> DEFINE e == y.str[s - 1]
             f == y.str[s]
  <2>3. e \in Nat /\ l \in Nat /\ b \in Nat /\ f = e + 1 + l /\ f <= b
    BY <1>4, <2>1, <2>2
  <2> HIDE DEF e, f, b, l
  <2>4. e + 1 \in Nat /\ e + 1 + l <= b
    BY <2>3
  <2> QED BY <2>2, <2>3, <2>4 DEF e
<1>9. Within(l, a, b) = l
  <2> HIDE DEF a, b, l
  <2> QED BY <1>4, <1>8 DEF Within
<1>10. delivered = x
  BY <1>2, <1>7, <1>8, <1>9, BytesAre
<1>11. Return(c, "ok", Ascii(x))
  <2>1. Retain(x) = x
    BY <1>7, RetainAll
  <2>2. ~(Len(delivered) < c.sum)
    BY <1>1, <1>8, <1>10
  <2> HIDE DEF x
  <2> QED BY <1>1, <1>10, <2>1, <2>2 DEF StringDone
<1>12. StringAt(d, s) = Ascii(x)
  BY <1>5 DEF StringAt
<1> QED BY <1>1, <1>11, <1>12, ExpectString, Returns DEF SeeksString, s

LEMMA BytesAreNat ==
  ASSUME NEW s \in Seq(Byte)
  PROVE  s \in Seq(Nat)
<1>1. IsSeq(s) /\ Elements(s) \subseteq Byte
  BY IsSeqIntro
<1>2. Byte \subseteq Nat
  BY DEF Byte
<1>3. Elements(s) \subseteq Nat
  BY <1>1, <1>2
<1> QED BY <1>1, <1>3, SeqOfElements

\* An item more.
LEMMA PushArrives ==
  ASSUME NEW u \in [Nat -> Byte], NEW y, NEW d, IsStored(y, u, d), NEW c, IsCallRecord(c),
         NEW item, Collected(y, d, c), Len(c.list) < Len(Items(d, c.op)),
         item = Value(c.op, Items(d, c.op)[Len(c.list) + 1]), Push(c, item),
         ItemDecodes(c.op, Items(d, c.op)[Len(c.list) + 1]),
         reader.byte_pos = y.at[c.op][Len(c.list) + 1],
         reader.end = Behind(y, u, Category(c.op))
  PROVE  Arrives(y, u, d)
<1> DEFINE X == Items(d, c.op)
           m == Len(c.list)
           b == Behind(y, u, Category(c.op))
           e == [c EXCEPT !.phase = "items", !.list = Append(@, item)]
           f == y.at[c.op][m + 1]
           t == Task("read", f, ItemLen(c.op), b)
<1>1. /\ c.op \in ItemOps /\ y.loc[Category(c.op)] > 0 /\ IsSeq(c.list) /\ m \in Nat
      /\ \A k \in 1..m : c.list[k] = Value(c.op, X[k]) /\ ItemDecodes(c.op, X[k])
  BY DEF Collected, IsSeq
<1>2. /\ Len(X) \in Nat /\ Len(X) <= MaxItems
      /\ \A k \in 0..Len(X) : y.at[c.op][k] \in Nat
  BY <1>1, ItemSpots
<1>3. m + 1 \in 0..Len(X) /\ m < MaxItems
  BY <1>1, <1>2, EepromAssumption
<1>4. Read(ItemLen(c.op)) /\ call' = e /\ reader' = reader
  BY <1>3 DEF Push, Stay, GoOn
<1>5. e.phase = "items" /\ e.op = c.op /\ e.list = Append(c.list, item)
  BY DEF IsCallRecord, CallFields
<1>6. /\ IsSeq(e.list) /\ Len(e.list) = m + 1
      /\ \A k \in 1..m : e.list[k] = c.list[k]
      /\ e.list[m + 1] = item
  BY <1>1, <1>5, AppendSeq
<1> HIDE DEF e, m, X
<1>7. \A k \in 1..Len(e.list) : e.list[k] = Value(e.op, X[k]) /\ ItemDecodes(e.op, X[k])
  <2> TAKE k \in 1..Len(e.list)
  <2>1. k \in 1..m \/ k = m + 1
    BY <1>1, <1>6
  <2>2. item = Value(c.op, X[m + 1]) /\ ItemDecodes(c.op, X[m + 1])
    BY DEF X, m
  <2> QED BY <1>1, <1>5, <1>6, <2>1, <2>2
<1>8. Len(e.list) <= Len(X)
  BY <1>2, <1>3, <1>6
<1>9. Collected(y, d, e)
  BY <1>1, <1>5, <1>6, <1>7, <1>8 DEF Collected, X
<1>10. AtItems(y, u, d, e, t)
  BY <1>5, <1>6, <1>9 DEF AtItems
<1>11. At(y, u, d, e, t)
  BY <1>5, <1>10 DEF At, DescPhases
<1>12. reader'.byte_pos = f /\ reader'.end = b /\ f \in Nat
  BY <1>2, <1>3, <1>4 DEF m
<1> HIDE DEF f, b
<1>13. Awaits(u, t)'
  BY <1>4, <1>12, ReadAwaits
<1> QED BY <1>4, <1>11, <1>13 DEF Arrives

LEMMA NextItemArrives ==
  ASSUME NEW y, NEW u, NEW d, NEW c, NEW t, Stands(y, u, d, c, t), NextItem
  PROVE  Arrives(y, u, d)
<1> DEFINE X == Items(d, c.op)
           m == Len(c.list)
           b == Behind(y, u, Category(c.op))
           a == y.at[c.op][m]
           L == ItemLen(c.op)
           k == m + 1
           item == X[k]
<1>1. /\ u \in [Nat -> Byte] /\ IsStored(y, u, d) /\ c = call /\ rpc = "done"
      /\ IsCallRecord(c) /\ Collected(y, d, c) /\ Awaits(u, Task("read", a, L, b))
  BY DEF Stands, At, AtItems, NextItem, Continue
<1>2. /\ reader.end = b /\ reader.byte_pos = a + Within(L, a, b)
      /\ delivered = Bytes(u, a, Within(L, a, b))
  BY <1>1, BytesDone
<1>3. /\ c.op \in ItemOps /\ y.loc[Category(c.op)] > 0 /\ IsSeq(c.list) /\ m \in Nat
      /\ m <= Len(X) /\ \A i \in 1..m : c.list[i] = Value(c.op, X[i]) /\ ItemDecodes(c.op, X[i])
  BY <1>1 DEF Collected, IsSeq
<1>4. /\ X \in Seq(ItemType(c.op)) /\ Len(X) \in Nat /\ b \in Nat
      /\ b - y.at[c.op][Len(X)] \in 0..(L - 1)
      /\ \A i \in 0..Len(X) : y.at[c.op][i] \in Nat /\ y.at[c.op][i] <= b
  BY <1>1, <1>3, ItemSpots
<1>5. a \in Nat /\ a <= b
  <2>1. m \in 0..Len(X)
    BY <1>3, <1>4
  <2> QED BY <1>4, <2>1
<1>6. L \in {3, 8} /\ L \in Nat
  BY DEF ItemLen
<1> HIDE DEF L
<1>7. Within(L, a, b) \in Nat /\ Within(L, a, b) = IF b - a < L THEN b - a ELSE L
  <2> HIDE DEF a, b
  <2> QED BY <1>4, <1>5, <1>6 DEF Within
<1>8. Len(delivered) = Within(L, a, b)
  BY <1>2, <1>7, BytesSeq
<1>9. ASSUME m # Len(X)
      PROVE  /\ k \in 1..Len(X) /\ k - 1 = m /\ m < Len(X)
             /\ IF HasEntries(c.op) THEN PdoHeld(y, u, c.op, item, k)
                ELSE PlainHeld(y, u, c.op, item, k)
  <2>1. k \in 1..Len(X) /\ k - 1 = m /\ m < Len(X)
    BY <1>3, <1>4, <1>9
  <2> HIDE DEF k, m
  <2> QED BY <1>1, <1>3, <2>1, ItemHeld
<1>10. ASSUME m # Len(X) PROVE ~(b - a < L)
  <2> HIDE DEF k
  <2>1. CASE HasEntries(c.op)
    <3>1. PdoHeld(y, u, c.op, item, k) /\ k - 1 = m
      BY <1>9, <1>10, <2>1
    <3>2. y.at[c.op][k] = a + 8 + 8 * Len(item.entries) /\ Len(item.entries) \in Nat
          /\ y.at[c.op][k] <= b
      BY <3>1 DEF PdoHeld
    <3>3. L = 8
      BY <2>1 DEF L, ItemLen, HasEntries
    <3> DEFINE l == Len(item.entries)
    <3>4. l \in Nat /\ a + 8 + 8 * l <= b
      BY <3>2
    <3> HIDE DEF a, b, l
    <3>5. 8 * l \in Nat
      BY <3>4
    <3> QED BY <1>4, <1>5, <3>3, <3>4, <3>5
  <2>2. CASE ~HasEntries(c.op)
    <3>1. PlainHeld(y, u, c.op, item, k) /\ k - 1 = m
      BY <1>9, <1>10, <2>2
    <3>2. y.at[c.op][k] = a + L /\ y.at[c.op][k] <= b
      BY <3>1 DEF PlainHeld, L
    <3>3. a + L <= b
      BY <3>2
    <3> HIDE DEF a, b, L
    <3> QED BY <1>4, <1>5, <1>6, <3>3
  <2> QED BY <2>1, <2>2
<1>11. CASE Len(delivered) < L
  <2>1. m = Len(X)
    BY <1>6, <1>7, <1>8, <1>10, <1>11
  <2>2. Return(c, "ok", c.list)
    BY <1>1, <1>11 DEF NextItem, L
  <2>3. IsSeq(X)
    BY <1>4, IsSeqIntro
  <2> HIDE DEF X
  <2>4. c.list = Values(c.op, X)
    BY <1>3, <2>1, <2>3, ListComplete
  <2>5. Right(d, Result(c, "ok", c.list))
    BY <1>3, <2>1, <2>4, ExpectItems DEF X
  <2> QED BY <2>2, <2>5, Returns
<1>12. CASE ~(Len(delivered) < L)
  <2>1. Within(L, a, b) = L /\ ~(b - a < L)
    BY <1>4, <1>5, <1>6, <1>7, <1>8, <1>12
  <2>2. m # Len(X)
    BY <1>4, <1>5, <1>6, <2>1
  <2>3. /\ k \in 1..Len(X) /\ k - 1 = m /\ m < Len(X)
        /\ IF HasEntries(c.op) THEN PdoHeld(y, u, c.op, item, k)
           ELSE PlainHeld(y, u, c.op, item, k)
    BY <1>9, <2>2
  <2>4. delivered = Bytes(u, a, L) /\ reader.byte_pos = a + L
    BY <1>2, <2>1
  <2>5. CASE ~HasEntries(c.op)
    <3>1. /\ IsSeq(item) /\ Len(item) = L /\ HasBytes(u, a, item) /\ y.at[c.op][k] = a + L
      BY <2>3, <2>5 DEF PlainHeld, L
    <3>2. delivered = item
      BY <2>4, <3>1, BytesAre
    <3>3. item = Value(c.op, item)
      BY <2>5 DEF Value
    <3>4. CASE ItemDecodes(c.op, item)
      <4>1. Push(c, item)
        BY <1>1, <1>12, <2>5, <3>2, <3>4 DEF NextItem, L
      <4> HIDE DEF L
      <4> QED BY <1>1, <1>2, <2>3, <2>4, <3>1, <3>3, <3>4, <4>1, PushArrives
    <3>5. CASE ~ItemDecodes(c.op, item)
      <4>1. Return(c, "error", <<>>)
        BY <1>1, <1>12, <3>2, <3>5 DEF NextItem, L
      <4>2. c.op = "sync_managers" /\ X = d.sync_managers
        BY <3>5 DEF ItemDecodes, Items
      <4>3. Refused(d, c.op)
        BY <2>3, <3>5, <4>2 DEF Refused
      <4>4. Right(d, Result(c, "error", <<>>))
        BY <4>3 DEF Right, Result, Expected
      <4> QED BY <4>1, <4>4, Returns
    <3> QED BY <3>4, <3>5
  <2>6. CASE HasEntries(c.op)
    <3> DEFINE l == Len(item.entries)
    <3>0. ItemDecodes(c.op, delivered) /\ ItemDecodes(c.op, item)
      BY <2>6 DEF ItemDecodes, HasEntries
    <3>1. /\ item.entries \in Seq(Byte) /\ l \in Nat /\ y.at[c.op][k] = a + 8 + 8 * l
          /\ u[a + 2] = l /\ u[a + 3] = item.sync_manager
      BY <2>3, <2>6 DEF PdoHeld
    <3>2. L = 8
      BY <2>6 DEF L, ItemLen, HasEntries
    <3>3. delivered[3] = l /\ delivered[4] = item.sync_manager
      <4>1. delivered[3] = u[a + 3 - 1] /\ delivered[4] = u[a + 4 - 1]
        BY <2>4, <3>2 DEF Bytes
      <4>2. a + 3 - 1 = a + 2 /\ a + 4 - 1 = a + 3
        BY <1>5
      <4> QED BY <3>1, <4>1, <4>2
    <3>4. item.entries \in Seq(Nat)
      BY <3>1, BytesAreNat
    <3>5. Sums(item.entries)[0] = 0
      BY <3>4, SumsCount
    <3>6. CASE l > 0
      <4> DEFINE e == [c EXCEPT !.phase = "entries", !.left = delivered[3],
                                !.sync_manager = delivered[4], !.sum = 0]
                 f == a + 8 + 8 * 0
                 q == Task("read", f, 8, b)
      <4>1. Read(L) /\ call' = e /\ reader' = reader
        BY <1>1, <1>12, <2>6, <3>0, <3>3, <3>6 DEF NextItem, L, Stay, GoOn
      <4>2. /\ e.phase = "entries" /\ e.op = c.op /\ e.list = c.list /\ e.left = l
            /\ e.sync_manager = item.sync_manager /\ e.sum = 0
        BY <1>1, <3>3 DEF IsCallRecord, CallFields
      <4> HIDE DEF e
      <4>3. Collected(y, d, e)
        BY <1>1, <4>2 DEF Collected
      <4>4. l - e.left = 0 /\ e.left \in 1..l
        BY <3>1, <3>6, <4>2
      <4>5. AtEntries(y, u, d, e, q)
        BY <2>3, <2>6, <3>5, <4>2, <4>3, <4>4 DEF AtEntries
      <4>6. At(y, u, d, e, q)
        BY <4>2, <4>5 DEF At, DescPhases
      <4>7. reader'.byte_pos = f /\ reader'.end = b /\ f \in Nat
        BY <1>2, <1>5, <2>4, <3>2, <4>1
      <4> HIDE DEF f, b
      <4>8. Awaits(u, q)'
        BY <3>2, <4>1, <4>7, ReadAwaits
      <4> QED BY <4>1, <4>6, <4>8 DEF Arrives
    <3>7. CASE ~(l > 0)
      <4>1. l = 0
        BY <3>1, <3>7
      <4>2. Push(c, PdoItem(item.sync_manager, 0))
        BY <1>1, <1>12, <2>6, <3>0, <3>3, <3>7 DEF NextItem, L
      <4>3. PdoItem(item.sync_manager, 0) = Value(c.op, item)
        BY <2>6, <3>5, <4>1 DEF Value, SumBits
      <4>4. reader.byte_pos = y.at[c.op][k]
        BY <1>5, <2>4, <3>1, <3>2, <4>1
      <4> QED BY <1>1, <1>2, <2>3, <3>0, <4>2, <4>3, <4>4, PushArrives
    <3> QED BY <3>6, <3>7
  <2> QED BY <2>5, <2>6
<1> QED BY <1>11, <1>12

LEMMA NextEntryArrives ==
  ASSUME NEW y, NEW u, NEW d, NEW c, NEW t, Stands(y, u, d, c, t), NextEntry
  PROVE  Arrives(y, u, d)
<1> DEFINE X == Items(d, c.op)
           m == Len(c.list)
           b == Behind(y, u, Category(c.op))
           k == m + 1
           item == X[k]
           l == Len(item.entries)
           i == l - c.left
           a == y.at[c.op][m]
           f == a + 8 + 8 * i
<1>1. /\ u \in [Nat -> Byte] /\ IsStored(y, u, d) /\ c = call /\ rpc = "done"
      /\ c.phase = "entries" /\ IsCallRecord(c) /\ Collected(y, d, c) /\ HasEntries(c.op)
      /\ m < Len(X) /\ c.left \in 1..l /\ c.sync_manager = item.sync_manager
      /\ c.sum = Sums(item.entries)[i] /\ Awaits(u, Task("read", f, 8, b))
  BY DEF Stands, At, AtEntries, NextEntry, Continue
<1>2. /\ reader.end = b /\ reader.byte_pos = f + Within(8, f, b)
      /\ delivered = Bytes(u, f, Within(8, f, b))
  BY <1>1, BytesDone
<1>3. c.op \in ItemOps /\ y.loc[Category(c.op)] > 0 /\ m \in Nat
  BY <1>1 DEF Collected, IsSeq
<1>4. k \in 1..Len(X) /\ k - 1 = m
  <2>1. Len(X) \in Nat
    BY <1>1, <1>3, ItemSpots
  <2> QED BY <1>1, <1>3, <2>1
<1>5. PdoHeld(y, u, c.op, item, k)
  <2> HIDE DEF k
  <2> QED BY <1>1, <1>3, <1>4, ItemHeld
<1>6. /\ item.entries \in Seq(Byte) /\ l \in Nat /\ a \in Nat /\ b \in Nat
      /\ y.at[c.op][k] = a + 8 + 8 * l /\ y.at[c.op][k] <= b
      /\ \A j \in 1..l : u[a + 8 * j + 5] = item.entries[j]
  <2> HIDE DEF k
  <2> QED BY <1>4, <1>5 DEF PdoHeld
<1>7. c.left \in 1..l
  BY <1>1
<1> HIDE DEF l, a, b
<1>8. /\ i \in Nat /\ i + 1 \in 1..l /\ f \in Nat /\ f + 8 <= b
      /\ f + 8 = a + 8 + 8 * (i + 1) /\ f + 6 - 1 = a + 8 * (i + 1) + 5
  <2>1. a + 8 + 8 * l <= b
    BY <1>6
  <2>2. i = l - c.left /\ f = a + 8 + 8 * i
    OBVIOUS
  <2> DEFINE n == c.left
  <2>3. a \in Nat /\ b \in Nat /\ l \in Nat /\ n \in 1..l /\ i = l - n
    BY <1>6, <1>7
  <2> HIDE DEF i, f, n
  <2>4. f = a + 8 + 8 * i
    BY <2>2
  <2>5. i \in Nat /\ i + 1 \in 1..l /\ i + 1 <= l
    BY <2>3
  <2>6. f \in Nat /\ f + 8 = a + 8 + 8 * (i + 1) /\ f + 6 - 1 = a + 8 * (i + 1) + 5
    BY <2>3, <2>4, <2>5
  <2>7. 8 * (i + 1) <= 8 * l
    BY <2>3, <2>5
  <2> QED BY <2>1, <2>3, <2>5, <2>6, <2>7
<1>9. Within(8, f, b) = 8
  <2> HIDE DEF f, i
  <2> QED BY <1>6, <1>8 DEF Within
<1>10. Len(delivered) = 8 /\ delivered[6] = u[f + 6 - 1] /\ reader.byte_pos = f + 8
  BY <1>2, <1>9 DEF Bytes
<1>11. delivered[6] = item.entries[i + 1]
  <2> HIDE DEF f, i
  <2> QED BY <1>6, <1>8, <1>10
<1>12. c.sum + delivered[6] = Sums(item.entries)[i + 1]
  <2>1. item.entries \in Seq(Nat)
    BY <1>6, BytesAreNat
  <2>2. Sums(item.entries)[i + 1] = Sums(item.entries)[(i + 1) - 1] + item.entries[i + 1]
    BY <1>8, <2>1, SumsCount DEF l
  <2>3. (i + 1) - 1 = i
    BY <1>8
  <2> HIDE DEF i
  <2> QED BY <1>1, <1>11, <2>2, <2>3
<1> DEFINE e == [c EXCEPT !.left = @ - 1, !.sum = @ + delivered[6]]
<1>13. ItemLen(c.op) = 8
  BY <1>1 DEF ItemLen, HasEntries
<1>14. /\ IsCallRecord(e) /\ e.phase = "entries" /\ e.op = c.op /\ e.list = c.list
       /\ e.left = c.left - 1 /\ e.sum = c.sum + delivered[6]
       /\ e.sync_manager = item.sync_manager
  BY <1>1 DEF IsCallRecord, CallFields
<1>15. IF c.left = 1 THEN Push(e, PdoItem(e.sync_manager, e.sum))
       ELSE Read(8) /\ call' = e /\ reader' = reader
  BY <1>1, <1>10, <1>13 DEF NextEntry, Stay, GoOn
<1> HIDE DEF e
<1>16. Collected(y, d, e)
  BY <1>1, <1>14 DEF Collected
<1>17. CASE c.left = 1
  <2>1. i + 1 = l
    BY <1>6, <1>7, <1>17
  <2>2. Push(e, PdoItem(e.sync_manager, e.sum))
    BY <1>15, <1>17
  <2>3. PdoItem(e.sync_manager, e.sum) = Value(e.op, Items(d, e.op)[Len(e.list) + 1])
    BY <1>1, <1>12, <1>14, <2>1 DEF Value, SumBits, l
  <2>4. reader.byte_pos = y.at[e.op][Len(e.list) + 1] /\ reader.end = Behind(y, u, Category(e.op))
    <3>1. f + 8 = a + 8 + 8 * l
      <4> HIDE DEF f, i
      <4> QED BY <1>8, <2>1
    <3> QED BY <1>2, <1>6, <1>10, <1>14, <3>1 DEF b
  <2>5. /\ Len(e.list) < Len(Items(d, e.op))
        /\ ItemDecodes(e.op, Items(d, e.op)[Len(e.list) + 1])
    BY <1>1, <1>14 DEF ItemDecodes, HasEntries
  <2> HIDE DEF X, m, k, item
  <2> QED BY <1>1, <1>14, <1>16, <2>2, <2>3, <2>4, <2>5, PushArrives
<1>18. CASE c.left # 1
  <2> DEFINE h == a + 8 + 8 * (i + 1)
             q == Task("read", h, 8, b)
  <2>1. e.left \in 1..l /\ l - e.left = i + 1
    BY <1>6, <1>7, <1>14, <1>18
  <2>2. AtEntries(y, u, d, e, q)
    BY <1>1, <1>12, <1>14, <1>16, <2>1 DEF AtEntries, l, a, b
  <2>3. At(y, u, d, e, q)
    BY <1>14, <2>2 DEF At, DescPhases
  <2>4. Read(8) /\ call' = e /\ reader' = reader
    BY <1>15, <1>18
  <2>5. reader'.byte_pos = h /\ reader'.end = b /\ h \in Nat
    <3>1. f + 8 = h /\ h \in Nat
      <4> HIDE DEF f, i
      <4> QED BY <1>8
    <3> QED BY <1>2, <1>10, <2>4, <3>1
  <2> HIDE DEF h
  <2>6. Awaits(u, q)'
    BY <2>4, <2>5, ReadAwaits
  <2> QED BY <2>3, <2>4, <2>6 DEF Arrives
<1> QED BY <1>17, <1>18

-----------------------------------------------------------------------------
\* The calls and what they have written.

\* A step of a call b that reads the description.
Goes(b) ==
  /\ UNCHANGED <<mem, asked>>
  /\ \/ call' = NoCall /\ result'.op = b.op /\ result'.arg = b.arg
     \/ /\ result' = NoResult /\ call'.op = b.op /\ call'.arg = b.arg
        /\ call'.phase \in DescPhases

\* The same call, further on.
Same(c, b) == IsCallRecord(c) /\ c.op = b.op /\ c.arg = b.arg

LEMMA ReturnGoes ==
  ASSUME NEW b, NEW c, Same(c, b), NEW tag, NEW value, Return(c, tag, value)
  PROVE  Goes(b)
BY DEF Return, Goes, Same

LEMMA GoOnGoes ==
  ASSUME NEW b, NEW c, Same(c, b), GoOn(c), c.phase \in DescPhases, UNCHANGED <<mem, asked>>
  PROVE  Goes(b)
BY DEF GoOn, Goes, Same

LEMMA SearchGoes ==
  ASSUME NEW b, NEW c, Same(c, b), NEW cat, Search(c, cat)
  PROVE  Goes(b)
<1> DEFINE e == [c EXCEPT !.phase = "category", !.cat = cat, !.word_addr = FirstCategory,
                          !.empty = 0]
<1>1. GoOn(e) /\ UNCHANGED <<mem, asked>>
  BY DEF Search, Stay, ReadChunk, Operate
<1>2. Same(e, b) /\ e.phase = "category"
  BY DEF Same, IsCallRecord, CallFields
<1> HIDE DEF e
<1> QED BY <1>1, <1>2, GoOnGoes DEF DescPhases

LEMMA FindStringGoes ==
  ASSUME NEW b, NEW c, Same(c, b), NEW index, FindString(c, index)
  PROVE  Goes(b)
<1>1. CASE index = 0
  BY <1>1, ReturnGoes DEF FindString
<1>2. CASE index # 0
  <2>1. Search([c EXCEPT !.left = index - 1], Strings) /\ Same([c EXCEPT !.left = index - 1], b)
    BY <1>2 DEF FindString, Same, IsCallRecord, CallFields
  <2> QED BY <2>1, SearchGoes
<1> QED BY <1>1, <1>2

LEMMA PushGoes ==
  ASSUME NEW b, NEW c, Same(c, b), NEW item, Push(c, item)
  PROVE  Goes(b)
<1>1. CASE Len(c.list) < MaxItems
  <2> DEFINE e == [c EXCEPT !.phase = "items", !.list = Append(@, item)]
  <2>1. GoOn(e) /\ UNCHANGED <<mem, asked>>
    BY <1>1 DEF Push, Stay, Read, Operate
  <2>2. Same(e, b) /\ e.phase = "items"
    BY DEF Same, IsCallRecord, CallFields
  <2> HIDE DEF e
  <2> QED BY <2>1, <2>2, GoOnGoes DEF DescPhases
<1>2. CASE ~(Len(c.list) < MaxItems)
  BY <1>2, ReturnGoes DEF Push
<1> QED BY <1>1, <1>2

LEMMA SearchCategoryGoes ==
  ASSUME IsCallRecord(call), SearchCategory
  PROVE  Goes(call)
<1>1. call.phase = "category" /\ Same(call, call)
  BY DEF SearchCategory, Continue, Same
<1>2. \/ NotFound(call)
      \/ \E start, len : Found(call, start, len)
      \/ Return(call, "panic", <<>>)
      \/ \E next, empty :
           ReadChunk(next) /\ Stay([call EXCEPT !.word_addr = next, !.empty = empty])
  BY DEF SearchCategory
<1>3. CASE NotFound(call)
  <2>1. \E tag : Return(call, tag, <<>>)
    BY <1>3 DEF NotFound
  <2> QED BY <1>1, <2>1, ReturnGoes
<1>4. CASE \E start, len : Found(call, start, len)
  <2>1. PICK start, len : Found(call, start, len)
    BY <1>4
  <2>2. PICK p \in {"num", "general", "fmmus", "items"} : GoOn([call EXCEPT !.phase = p])
    BY <2>1 DEF Found
  <2>3. UNCHANGED <<mem, asked>>
    BY <2>1 DEF Found, ReadByte, Read, Operate
  <2> DEFINE e == [call EXCEPT !.phase = p]
  <2>4. Same(e, call) /\ e.phase = p
    BY <1>1 DEF Same, IsCallRecord, CallFields
  <2>5. GoOn(e)
    BY <2>2
  <2> HIDE DEF e
  <2> QED BY <2>3, <2>4, <2>5, GoOnGoes DEF DescPhases
<1>5. CASE Return(call, "panic", <<>>)
  BY <1>1, <1>5, ReturnGoes
<1>6. CASE \E next, empty :
             ReadChunk(next) /\ Stay([call EXCEPT !.word_addr = next, !.empty = empty])
  <2>1. PICK next, empty :
          ReadChunk(next) /\ Stay([call EXCEPT !.word_addr = next, !.empty = empty])
    BY <1>6
  <2> DEFINE e == [call EXCEPT !.word_addr = next, !.empty = empty]
  <2>2. GoOn(e) /\ UNCHANGED <<mem, asked>>
    BY <2>1 DEF Stay, ReadChunk, Operate
  <2>3. Same(e, call) /\ e.phase = "category"
    BY <1>1 DEF Same, IsCallRecord, CallFields
  <2> HIDE DEF e
  <2> QED BY <2>2, <2>3, GoOnGoes DEF DescPhases
<1> QED BY <1>2, <1>3, <1>4, <1>5, <1>6

DescSteps ==
  \/ SearchCategory \/ FmmusDone \/ GeneralDone \/ NextItem \/ NextEntry
  \/ StringCount \/ StringLength \/ StringDone

LEMMA DescGoes ==
  ASSUME GoodCall(call), DescSteps
  PROVE  Goes(call) /\ call.phase \in DescPhases
<1>1. /\ call.phase \in DescPhases /\ IsCallRecord(call) /\ Same(call, call)
  BY DEF DescSteps, SearchCategory, FmmusDone, GeneralDone, NextItem, NextEntry,
     StringCount, StringLength, StringDone, Continue, GoodCall, DescPhases, Same
<1>2. CASE FmmusDone \/ StringDone
  <2>1. \E tag, value : Return(call, tag, value)
    BY <1>2 DEF FmmusDone, StringDone
  <2> QED BY <1>1, <2>1, ReturnGoes
<1>3. CASE GeneralDone
  <2>1. call.op \in GeneralOps
    BY <1>3 DEF GeneralDone, Continue, GoodCall
  <2>2. (\E tag, value : Return(call, tag, value)) \/ (\E index : FindString(call, index))
    BY <1>3, <2>1 DEF GeneralDone, GeneralOps
  <2> QED BY <1>1, <2>2, ReturnGoes, FindStringGoes
<1>4. CASE NextItem
  <2> DEFINE e == [call EXCEPT !.phase = "entries", !.left = delivered[3],
                               !.sync_manager = delivered[4], !.sum = 0]
  <2>1. \/ \E tag, value : Return(call, tag, value)
        \/ Read(ItemLen(call.op)) /\ Stay(e)
        \/ \E item : Push(call, item)
    BY <1>4 DEF NextItem
  <2>2. Same(e, call) /\ e.phase = "entries"
    BY <1>1 DEF Same, IsCallRecord, CallFields
  <2> HIDE DEF e
  <2>3. CASE Read(ItemLen(call.op)) /\ Stay(e)
    <3>1. GoOn(e) /\ UNCHANGED <<mem, asked>>
      BY <2>3 DEF Stay, Read, Operate
    <3>2. e.phase \in DescPhases
      BY <2>2 DEF DescPhases
    <3> QED BY <1>1, <2>2, <3>1, <3>2, GoOnGoes
  <2> QED BY <1>1, <2>1, <2>3, ReturnGoes, PushGoes
<1>5. CASE NextEntry
  <2> DEFINE e == [call EXCEPT !.left = @ - 1, !.sum = @ + delivered[6]]
  <2>1. \/ Return(call, "error", <<>>)
        \/ \E item : Push(e, item)
        \/ Read(ItemLen(call.op)) /\ Stay(e)
    BY <1>5 DEF NextEntry
  <2>2. Same(e, call) /\ e.phase = call.phase
    BY <1>1 DEF Same, IsCallRecord, CallFields
  <2> HIDE DEF e
  <2>3. CASE Read(ItemLen(call.op)) /\ Stay(e)
    BY <1>1, <2>2, <2>3, GoOnGoes DEF Stay, Read, Operate
  <2> QED BY <1>1, <2>1, <2>2, <2>3, ReturnGoes, PushGoes
<1>6. CASE StringCount
  <2> DEFINE e == [call EXCEPT !.phase = "len"]
  <2>1. Return(call, "missing", <<>>) \/ (ReadByte /\ Stay(e))
    BY <1>6 DEF StringCount
  <2>2. Same(e, call) /\ e.phase = "len"
    BY <1>1 DEF Same, IsCallRecord, CallFields
  <2> HIDE DEF e
  <2>3. CASE ReadByte /\ Stay(e)
    <3>1. GoOn(e) /\ UNCHANGED <<mem, asked>>
      BY <2>3 DEF Stay, ReadByte, Operate
    <3>2. e.phase \in DescPhases
      BY <2>2 DEF DescPhases
    <3> QED BY <1>1, <2>2, <3>1, <3>2, GoOnGoes
  <2> QED BY <1>1, <2>1, <2>3, ReturnGoes
<1>7. CASE StringLength
  <2> DEFINE e == [call EXCEPT !.left = @ - 1]
             f == [call EXCEPT !.phase = "string", !.sum = delivered[1]]
  <2>1. \/ Return(call, "error", <<>>)
        \/ ReadByte /\ GoOn(e)
        \/ Read(delivered[1]) /\ GoOn(f)
    BY <1>7 DEF StringLength, Stay
  <2>2. Same(e, call) /\ Same(f, call) /\ f.phase = "string" /\ e.phase = call.phase
    BY <1>1 DEF Same, IsCallRecord, CallFields
  <2> HIDE DEF e, f
  <2>3. CASE ReadByte /\ GoOn(e)
    BY <1>1, <2>2, <2>3, GoOnGoes DEF ReadByte, Operate
  <2>4. CASE Read(delivered[1]) /\ GoOn(f)
    <3>1. GoOn(f) /\ UNCHANGED <<mem, asked>>
      BY <2>4 DEF Read, Operate
    <3>2. f.phase \in DescPhases
      BY <2>2 DEF DescPhases
    <3> QED BY <1>1, <2>2, <3>1, <3>2, GoOnGoes
  <2> QED BY <1>1, <2>1, <2>3, <2>4, ReturnGoes
<1> QED BY <1>1, <1>2, <1>3, <1>4, <1>5, <1>6, <1>7, SearchCategoryGoes DEF DescSteps

\* The steps of the other calls, and a call that fails.
Others(b) ==
  /\ UNCHANGED <<mem, asked>>
  /\ \/ call' = NoCall /\ result'.op = b.op /\ result'.arg = b.arg
     \/ /\ result' = NoResult /\ call'.op = b.op
        /\ call'.phase \notin DescPhases \cup {"write", "none"}
        /\ call'.phase \in {"alias", "checksum"} => reader'.end <= 2 * ChecksumWord + 2

LEMMA OtherGoes ==
  ASSUME IsCallRecord(call), ReadDone \/ WriteDone \/ HeaderDone \/ AliasDone \/ ChecksumDone
  PROVE  Others(call) /\ call.phase \notin DescPhases \cup {"none"}
<1>1. call.phase \notin DescPhases \cup {"none"}
  BY DEF ReadDone, WriteDone, HeaderDone, AliasDone, ChecksumDone, Continue, DescPhases
<1>2. ASSUME NEW c, c.op = call.op, c.arg = call.arg, NEW tag, NEW value, Return(c, tag, value)
      PROVE  Others(call)
  BY <1>2 DEF Return, Others
<1>3. CASE ReadDone \/ WriteDone \/ ChecksumDone
  <2>1. \E tag, value : Return(call, tag, value)
    BY <1>3 DEF ReadDone, WriteDone, ChecksumDone
  <2> QED BY <1>1, <1>2, <2>1
<1>4. CASE HeaderDone
  <2> DEFINE e == [call EXCEPT !.phase = "alias", !.sum = AliasChecksum(call.arg)]
  <2>1. Return(call, "error", <<>>) \/ StartAt(e, AliasWord, 2, Write(call.arg))
    BY <1>4 DEF HeaderDone
  <2>2. e.phase = "alias" /\ e.op = call.op /\ e.arg = call.arg
    BY DEF IsCallRecord, CallFields
  <2> HIDE DEF e
  <2>3. CASE NewRange(AliasWord, 2 \div 2) /\ Write(call.arg) /\ GoOn(e)
    <3>1. reader'.end = 2 * AliasWord + 2 * (2 \div 2) /\ UNCHANGED <<mem, asked>>
          /\ result' = NoResult /\ call' = e
      BY <2>3 DEF NewRange, Write, Operate, GoOn
    <3>2. reader'.end <= 2 * ChecksumWord + 2
      BY <3>1 DEF AliasWord, ChecksumWord
    <3>3. call'.phase \notin DescPhases \cup {"write", "none"} /\ call'.op = call.op
      BY <2>2, <3>1 DEF DescPhases
    <3> QED BY <1>1, <3>1, <3>2, <3>3 DEF Others
  <2> QED BY <1>1, <1>2, <2>1, <2>2, <2>3 DEF StartAt
<1>5. CASE AliasDone
  <2> DEFINE e == [call EXCEPT !.phase = "checksum"]
             b == <<call.sum, 0>>
  <2>1. StartAt(e, ChecksumWord, 2, Write(b))
    BY <1>5 DEF AliasDone
  <2>2. e.phase = "checksum" /\ e.op = call.op /\ e.arg = call.arg
    BY DEF IsCallRecord, CallFields
  <2> HIDE DEF e, b
  <2>3. CASE NewRange(ChecksumWord, 2 \div 2) /\ Write(b) /\ GoOn(e)
    <3>1. reader'.end = 2 * ChecksumWord + 2 * (2 \div 2) /\ UNCHANGED <<mem, asked>>
          /\ result' = NoResult /\ call' = e
      BY <2>3 DEF NewRange, Write, Operate, GoOn
    <3>2. reader'.end <= 2 * ChecksumWord + 2
      BY <3>1 DEF ChecksumWord
    <3>3. call'.phase \notin DescPhases \cup {"write", "none"} /\ call'.op = call.op
      BY <2>2, <3>1 DEF DescPhases
    <3> QED BY <1>1, <3>1, <3>2, <3>3 DEF Others
  <2> QED BY <1>1, <1>2, <2>1, <2>2, <2>3 DEF StartAt
<1> QED BY <1>1, <1>3, <1>4, <1>5

\* The call to begin with.
BeginsWith(k) ==
  LET c == [NoCall EXCEPT !.op = k.op, !.arg = k.arg] IN
  CASE k.op = "read" ->
         StartAt([c EXCEPT !.phase = "read"], k.arg.word, k.arg.len, Read(k.arg.len))
    [] k.op = "write" ->
         StartAt([c EXCEPT !.phase = "write"], k.arg.word, Len(k.arg.bytes),
                 Write(k.arg.bytes))
    [] k.op = "set_station_alias" -> StartAt([c EXCEPT !.phase = "head"], 0, 14, Read(14))
    [] k.op = "find_string" -> FindString(c, k.arg)
    [] OTHER -> Search(c, Category(k.op))

LEMMA BeginCalls ==
  ASSUME CallInv, WritesComeLast, Begin
  PROVE  \E k : /\ BeginsWith(k) /\ k.op \in DescOps \cup {"read", "write", "set_station_alias"}
                /\ k.op = "find_string" => k.arg \in Nat
                /\ k.op = "write" => Wrote'
                /\ k.op \in DescOps => ~Wrote
<1>1. calls \in Nat /\ calls' = calls + 1 /\ calls + 1 \in 1..Len(Calls) /\ Len(Calls) \in Nat
  <2>1. calls \in Nat
    BY DEF CallInv
  <2>2. calls' = calls + 1 /\ calls < Len(Calls)
    BY DEF Begin
  <2>3. Len(Calls) \in Nat
    BY DataAssumption
  <2> QED BY <2>1, <2>2, <2>3
<1>2. PICK k \in Calls[calls + 1] : BeginsWith(k)
  <2>1. \E k \in Calls[calls + 1] :
          LET c == [NoCall EXCEPT !.op = k.op, !.arg = k.arg] IN
          CASE k.op = "read" ->
                 StartAt([c EXCEPT !.phase = "read"], k.arg.word, k.arg.len, Read(k.arg.len))
            [] k.op = "write" ->
                 StartAt([c EXCEPT !.phase = "write"], k.arg.word, Len(k.arg.bytes),
                         Write(k.arg.bytes))
            [] k.op = "set_station_alias" ->
                 StartAt([c EXCEPT !.phase = "head"], 0, 14, Read(14))
            [] k.op = "find_string" -> FindString(c, k.arg)
            [] OTHER -> Search(c, Category(k.op))
    BY Zenon DEF Begin
  <2> QED BY <2>1, ZenonT(40) DEF BeginsWith
<1>3. IsCall(k)
  BY <1>1, DataAssumption
<1>4. k.op \in DescOps \cup {"read", "write", "set_station_alias"}
      /\ (k.op = "find_string" => k.arg \in Nat)
  BY <1>3 DEF IsCall, DescOps
<1>5. k.op = "write" => Wrote'
  <2>1. calls + 1 \in 1..(calls + 1)
    BY <1>1
  <2> QED BY <1>1, <2>1 DEF Wrote
<1>6. ASSUME k.op \in DescOps, Wrote PROVE FALSE
  <2>1. PICK j \in 1..calls : \E q \in Calls[j] : q.op = "write"
    BY <1>6 DEF Wrote
  <2>2. j \in 1..Len(Calls) /\ j < calls + 1
    BY <1>1
  <2>3. k.op \in {"read", "write", "set_station_alias"}
    BY <1>1, <2>1, <2>2 DEF WritesComeLast
  <2> QED BY <1>6, <2>3 DEF DescOps, Lists, GeneralOps
<1> QED BY <1>2, <1>3, <1>4, <1>5, <1>6, Zenon

DescCalled(c) == IsCallRecord(c) /\ c.op \in DescOps /\ c.phase = "none" /\ c.list = <<>>
\* A call for the description that begins.
DescBegins(c) ==
  /\ DescCalled(c) /\ (c.op = "find_string" => c.arg \in Nat) /\ ~Wrote
  /\ IF c.op = "find_string" THEN FindString(c, c.arg) ELSE Search(c, Category(c.op))

LEMMA BeginSplit ==
  ASSUME CallInv, WritesComeLast, Begin
  PROVE  \/ \E c : DescBegins(c)
         \/ \E b : /\ b.op \in {"read", "write", "set_station_alias"} /\ UNCHANGED <<mem, asked>>
                   /\ \/ call' = NoCall /\ result'.op = b.op
                      \/ /\ result' = NoResult /\ call'.op = b.op
                         /\ call'.phase \in {"read", "write", "head"}
                         /\ call'.phase = "write" => Wrote'
<1>1. PICK k : /\ BeginsWith(k) /\ k.op \in DescOps \cup {"read", "write", "set_station_alias"}
               /\ k.op = "find_string" => k.arg \in Nat
               /\ k.op = "write" => Wrote'
               /\ k.op \in DescOps => ~Wrote
  BY BeginCalls
<1> DEFINE c == [NoCall EXCEPT !.op = k.op, !.arg = k.arg]
<1>2. IsCallRecord(c) /\ c.op = k.op /\ c.arg = k.arg /\ c.phase = "none" /\ c.list = <<>>
  BY DEF IsCallRecord, CallFields, NoCall
<1>3. ASSUME NEW p \in {"read", "write", "head"}, NEW word, NEW len, NEW kind, NEW n, NEW bytes,
             NEW pc, StartAt([c EXCEPT !.phase = p], word, len, Operate(kind, n, bytes, pc))
      PROVE  /\ UNCHANGED <<mem, asked>>
             /\ \/ call' = NoCall /\ result'.op = k.op
                \/ /\ result' = NoResult /\ call'.op = k.op
                   /\ call'.phase = p
  <2> DEFINE e == [c EXCEPT !.phase = p]
  <2>1. e.op = k.op /\ e.phase = p
    BY <1>2 DEF IsCallRecord, CallFields
  <2>2. Return(e, "panic", <<>>) \/ (Operate(kind, n, bytes, pc) /\ GoOn(e))
    BY <1>3 DEF StartAt
  <2> HIDE DEF e
  <2> QED BY <2>1, <2>2 DEF Return, GoOn, Operate
<1>4. CASE k.op = "read"
  <2>1. StartAt([c EXCEPT !.phase = "read"], k.arg.word, k.arg.len, Read(k.arg.len))
    BY <1>1, <1>4 DEF BeginsWith
  <2> HIDE DEF c
  <2>2. /\ UNCHANGED <<mem, asked>>
        /\ \/ call' = NoCall /\ result'.op = k.op
           \/ result' = NoResult /\ call'.op = k.op /\ call'.phase = "read"
    BY <1>3, <2>1 DEF Read
  <2> QED BY <1>4, <2>2
<1>5. CASE k.op = "write"
  <2>1. StartAt([c EXCEPT !.phase = "write"], k.arg.word, Len(k.arg.bytes),
                Write(k.arg.bytes))
    BY <1>1, <1>5 DEF BeginsWith
  <2> HIDE DEF c
  <2>2. /\ UNCHANGED <<mem, asked>>
        /\ \/ call' = NoCall /\ result'.op = k.op
           \/ result' = NoResult /\ call'.op = k.op /\ call'.phase = "write"
    BY <1>3, <2>1 DEF Write
  <2> QED BY <1>1, <1>5, <2>2
<1>6. CASE k.op = "set_station_alias"
  <2>1. StartAt([c EXCEPT !.phase = "head"], 0, 14, Read(14))
    BY <1>1, <1>6 DEF BeginsWith
  <2> HIDE DEF c
  <2>2. /\ UNCHANGED <<mem, asked>>
        /\ \/ call' = NoCall /\ result'.op = k.op
           \/ result' = NoResult /\ call'.op = k.op /\ call'.phase = "head"
    BY <1>3, <2>1 DEF Read
  <2> QED BY <1>6, <2>2
<1>7. CASE k.op \in DescOps
  <2>1. k.op \notin {"read", "write", "set_station_alias"}
    BY <1>7 DEF DescOps, Lists, GeneralOps
  <2>2. IF k.op = "find_string" THEN FindString(c, k.arg) ELSE Search(c, Category(k.op))
    BY <1>1, <2>1 DEF BeginsWith
  <2> HIDE DEF c
  <2>3. DescBegins(c)
    BY <1>1, <1>2, <1>7, <2>2 DEF DescBegins, DescCalled
  <2> QED BY <2>3
<1> QED BY <1>1, <1>4, <1>5, <1>6, <1>7

LEMMA DescBeginsGoes ==
  ASSUME NEW c, DescBegins(c)
  PROVE  Goes(c)
<1>1. Same(c, c)
  BY DEF DescBegins, DescCalled, Same
<1> QED BY <1>1, FindStringGoes, SearchGoes DEF DescBegins

-----------------------------------------------------------------------------
\* Who has asked for which words.

LEMMA OpsApart ==
  /\ DescOps \cap OtherOps = {} /\ NoCall.op = "none" /\ NoCall.phase = "none"
  /\ NoResult.op = "none" /\ "none" \notin DescPhases /\ "none" \in OtherOps
  /\ {"read", "write", "set_station_alias"} \subseteq OtherOps \ {"none"}
BY DEF DescOps, OtherOps, Lists, GeneralOps, NoCall, NoResult, DescPhases

\* A call for the description that returns or goes on.
LEMMA GoesAsked ==
  ASSUME NEW b, Goes(b), b.op \in DescOps, asked \subseteq Low
  PROVE  AskedInv'
<1>1. asked' = asked /\ asked' \subseteq Low
  BY DEF Goes
<1>2. CASE call' = NoCall /\ result'.op = b.op
  BY <1>1, <1>2, OpsApart DEF AskedInv
<1>3. CASE result' = NoResult /\ call'.op = b.op /\ call'.phase \in DescPhases
  <2>1. call'.phase \notin {"write", "alias", "checksum"}
    BY <1>3 DEF DescPhases
  <2> QED BY <1>1, <1>3, <2>1, OpsApart DEF AskedInv
<1> QED BY <1>2, <1>3 DEF Goes

LEMMA AskedBegin ==
  ASSUME CallInv, WritesComeLast, AskedInv, Begin
  PROVE  AskedInv'
<1>1. calls \in Nat /\ calls' = calls + 1
  BY DEF Begin, CallInv
<1>2. Wrote => Wrote'
  <2>1. 1..calls \subseteq 1..(calls + 1)
    BY <1>1
  <2> QED BY <1>1, <2>1 DEF Wrote
<1>3. ASSUME NEW c, DescBegins(c) PROVE AskedInv'
  <2>1. ~Wrote /\ c.op \in DescOps
    BY <1>3 DEF DescBegins, DescCalled
  <2>2. asked \subseteq Low
    BY <2>1 DEF AskedInv
  <2> QED BY <1>3, <2>1, <2>2, DescBeginsGoes, GoesAsked
<1>4. ASSUME NEW b, b.op \in {"read", "write", "set_station_alias"}, UNCHANGED <<mem, asked>>,
             \/ call' = NoCall /\ result'.op = b.op
             \/ /\ result' = NoResult /\ call'.op = b.op
                /\ call'.phase \in {"read", "write", "head"}
                /\ call'.phase = "write" => Wrote'
      PROVE  AskedInv'
  <2>1. asked' \subseteq Low \/ Wrote'
    BY <1>2, <1>4 DEF AskedInv
  <2>2. b.op \in OtherOps \ {"none"} /\ b.op \notin DescOps
    BY <1>4, OpsApart
  <2>3. CASE call' = NoCall /\ result'.op = b.op
    BY <2>1, <2>2, <2>3, OpsApart DEF AskedInv
  <2>4. CASE /\ result' = NoResult /\ call'.op = b.op
             /\ call'.phase \in {"read", "write", "head"}
             /\ call'.phase = "write" => Wrote'
    <3>1. call'.phase \notin DescPhases \cup {"alias", "checksum"}
      BY <2>4 DEF DescPhases
    <3> QED BY <2>1, <2>2, <2>4, <3>1, OpsApart DEF AskedInv
  <2> QED BY <1>4, <2>3, <2>4
<1> QED BY <1>3, <1>4, BeginSplit

LEMMA AskedClient ==
  ASSUME CallInv, AskedInv, ClientStep
  PROVE  AskedInv' /\ UNCHANGED <<mem, asked, desc, clean>>
<1>1. GoodCall(call) /\ IsCallRecord(call)
  BY DEF CallInv, GoodCall
<1>2. UNCHANGED <<desc, calls, clean>>
  BY DEF ClientStep, SearchCategory, ReadDone, WriteDone, FmmusDone, GeneralDone, NextItem,
     NextEntry, StringCount, StringLength, StringDone, HeaderDone, AliasDone, ChecksumDone,
     CallFails, Continue
<1>3. CASE DescSteps
  <2>1. Goes(call) /\ call.phase \in DescPhases
    BY <1>1, <1>3, DescGoes
  <2>2. call.op \in DescOps /\ asked \subseteq Low
    BY <2>1 DEF AskedInv
  <2> QED BY <1>2, <2>1, <2>2, GoesAsked DEF Goes
<1>4. Wrote' <=> Wrote
  BY <1>2 DEF Wrote
<1>5. CASE ReadDone \/ WriteDone \/ HeaderDone \/ AliasDone \/ ChecksumDone
  <2>1. Others(call) /\ call.phase \notin DescPhases \cup {"none"}
    BY <1>1, <1>5, OtherGoes
  <2>2. call.op \notin DescOps /\ call.op \in OtherOps \ {"none"}
    BY <2>1, OpsApart DEF AskedInv
  <2>3. asked' \subseteq Low \/ Wrote'
    BY <1>4, <2>1 DEF AskedInv, Others
  <2>4. CASE call' = NoCall /\ result'.op = call.op
    BY <1>2, <2>1, <2>2, <2>3, <2>4, OpsApart DEF AskedInv, Others
  <2>5. CASE /\ result' = NoResult /\ call'.op = call.op
             /\ call'.phase \notin DescPhases \cup {"write", "none"}
             /\ call'.phase \in {"alias", "checksum"} => reader'.end <= 2 * ChecksumWord + 2
    BY <1>2, <2>1, <2>2, <2>3, <2>5, OpsApart DEF AskedInv, Others
  <2> QED BY <1>2, <2>1, <2>4, <2>5 DEF Others
<1>6. CASE CallFails
  <2>1. /\ call' = NoCall /\ result'.op = call.op /\ UNCHANGED <<mem, asked>>
        /\ call.op # "none"
    BY <1>6 DEF CallFails, Return, Idle
  <2>2. asked' \subseteq Low \/ Wrote'
    BY <1>4, <2>1 DEF AskedInv
  <2>3. result'.op \in DescOps => asked' \subseteq Low
    BY <2>1 DEF AskedInv
  <2> QED BY <1>2, <2>1, <2>2, <2>3, OpsApart DEF AskedInv
<1> QED BY <1>3, <1>5, <1>6 DEF ClientStep, DescSteps

\* A step of the range: a word is asked for when it is written.
LEMMA RangeAsks ==
  ASSUME RangeInv, RangeNext
  PROVE  /\ reader'.end = reader.end
         /\ asked' = asked \/ (rpc = "wait" /\ asked' = asked \cup {StartWord})
<1>1. reader \in RangeType
  BY DEF RangeInv, RangeTypeOK
<1>2. CASE FetchChunk \/ WaitWrite
  BY <1>1, <1>2 DEF FetchChunk, WaitWrite, RangeType
<1>3. CASE WaitIdle
  BY <1>3 DEF WaitIdle
<1>4. CASE ReadAsk \/ ClearErrors \/ ResetErrors \/ StartRead \/ WaitRead \/ WriteNext
  BY <1>4 DEF ReadAsk, ClearErrors, ResetErrors, StartRead, WaitRead, WriteNext
<1>5. CASE WriteData \/ StartWrite \/ TimesOut \/ BusFails
  BY <1>5 DEF WriteData, StartWrite, TimesOut, BusFails
<1>6. CASE Intrude
  BY <1>6 DEF Intrude
<1>7. CASE DevRead \/ DevRefuse
  BY <1>7, Zenon DEF DevRead, DevRefuse
<1>8. CASE DevStore
  BY <1>8 DEF DevStore
<1> QED BY <1>2, <1>3, <1>4, <1>5, <1>6, <1>7, <1>8 DEF DevStep, RangeNext, TaskStep

LEMMA AskedRange ==
  ASSUME RangeInv, CallInv, AskedInv, RangeNext, UNCHANGED clientVars
  PROVE  AskedInv' /\ asked \subseteq asked'
<1>1. UNCHANGED <<call, result, calls>> /\ (Wrote' <=> Wrote)
  BY SMTT(40) DEF clientVars, Wrote
<1>2. reader'.end = reader.end /\ asked \subseteq asked'
  BY RangeAsks
<1>3. CASE asked' = asked
  BY <1>1, <1>2, <1>3 DEF AskedInv
<1>4. CASE rpc = "wait" /\ asked' = asked \cup {StartWord}
  <2>1. /\ want.kind = "write" /\ rpc \notin Resting /\ reader.byte_pos < reader.end
        /\ reader.byte_pos \in Nat /\ reader.end \in Nat
    BY <1>4 DEF RangeInv, StageInv, Resting, RangeTypeOK, RangeType
  <2>2. call.phase \in WritePhases
    BY <2>1, WriteKinds
  <2>3. call.phase \notin DescPhases /\ call.phase # "none"
    BY <2>2 DEF WritePhases, DescPhases
  <2>4. call.op \notin DescOps /\ call.op # "none"
    BY <2>3, OpsApart DEF AskedInv
  <2>5. result.op \notin DescOps
    BY <2>4, OpsApart DEF AskedInv
  <2>6. asked' \subseteq Low \/ Wrote
    <3>1. CASE call.phase = "write"
      BY <3>1 DEF AskedInv
    <3>2. CASE call.phase \in {"alias", "checksum"}
      <4>1. reader.end <= 2 * ChecksumWord + 2
        BY <3>2 DEF AskedInv
      <4>2. StartWord = reader.byte_pos \div 2
        BY <2>1 DEF StartWord
      <4>3. StartWord \in Low
        BY <2>1, <4>1, <4>2 DEF Low, ChecksumWord
      <4> QED BY <1>4, <4>3 DEF AskedInv
    <3> QED BY <2>2, <3>1, <3>2 DEF WritePhases
  <2> QED BY <1>1, <1>2, <2>4, <2>5, <2>6 DEF AskedInv
<1> QED BY <1>2, <1>3, <1>4, RangeAsks

-----------------------------------------------------------------------------
\* What the calls return is what is stored.

LEMMA ArrivesKeeps ==
  ASSUME AskedInv', NEW y, NEW u, u = Categories(mem), mem' = mem, desc' = desc,
         IsStored(y, u, desc), Arrives(y, u, desc)
  PROVE  PlaceInv' /\ ReadsDescription'
<1>1. CASE call' = NoCall /\ Right(desc, result')
  <2>1. PlaceInv'
    BY <1>1, OpsApart DEF PlaceInv
  <2>2. ReadsDescription'
    BY <1>1 DEF ReadsDescription, Right
  <2> QED BY <2>1, <2>2
<1>2. ASSUME NEW t, At(y, u, desc, call', t), Awaits(u, t)' PROVE PlaceInv' /\ ReadsDescription'
  <2>1. call'.phase \in DescPhases
    BY <1>2 DEF At
  <2>2. call'.op # "none"
    BY <2>1, OpsApart DEF AskedInv
  <2>3. ReadsDescription'
    BY <2>2 DEF ReadsDescription, Idle
  <2>4. u = Categories(mem') /\ IsStored(y, u, desc') /\ At(y, u, desc', call', t)
    BY <1>2
  <2>5. PlaceInv'
    BY <1>2, <2>4 DEF PlaceInv
  <2> QED BY <2>3, <2>5
<1> QED BY <1>1, <1>2 DEF Arrives

\* Where nothing is promised.
LEMMA NothingPromised ==
  ASSUME NEW b, desc' = desc,
         desc = <<>> \/ b.op \in OtherOps \/ Beyond(desc, b),
         \/ call' = NoCall /\ result'.op = b.op /\ (b.op \in OtherOps \/ result'.arg = b.arg)
         \/ /\ call'.op = b.op /\ (b.op \in OtherOps \/ call'.arg = b.arg)
            /\ b.op # "none"
  PROVE  PlaceInv' /\ ReadsDescription'
<1>1. PlaceInv'
  BY OpsApart DEF PlaceInv, Beyond
<1>2. CASE call' = NoCall /\ result'.op = b.op /\ (b.op \in OtherOps \/ result'.arg = b.arg)
  <2>1. ReadsDescription'
    BY <1>2 DEF ReadsDescription, Beyond, OtherOps
  <2> QED BY <1>1, <2>1
<1>3. CASE call'.op = b.op /\ b.op # "none"
  <2>1. ReadsDescription'
    BY <1>3 DEF ReadsDescription, Idle
  <2> QED BY <1>1, <2>1
<1> QED BY <1>2, <1>3

LEMMA BeginArrives ==
  ASSUME NEW y, NEW u, NEW d, IsStored(y, u, d), NEW c, DescBegins(c), ~Beyond(d, c)
  PROVE  Arrives(y, u, d)
<1>1. /\ IsCallRecord(c) /\ c.op \in DescOps /\ c.list = <<>>
      /\ c.op = "find_string" => c.arg \in Nat
  BY DEF DescBegins, DescCalled
<1>2. CASE c.op = "find_string"
  <2>1. FindString(c, c.arg) /\ c.arg # Len(d.strings) + 1
    BY <1>2 DEF DescBegins, Beyond
  <2>2. c.arg = Sought(d, c) /\ c.op \in StringOps
    BY <1>2 DEF Sought, StringOps
  <2> QED BY <1>1, <1>2, <2>1, <2>2, FindStringArrives
<1>3. CASE c.op # "find_string"
  <2> DEFINE e == [c EXCEPT !.cat = Category(c.op)]
  <2>1. Search(c, Category(c.op))
    BY <1>3 DEF DescBegins
  <2>2. e.op = c.op /\ e.list = <<>> /\ e.cat = Category(c.op)
    BY <1>1 DEF IsCallRecord, CallFields
  <2> HIDE DEF e
  <2>3. Seeks(d, e)
    BY <1>1, <1>3, <2>2 DEF Seeks, DescOps
  <2> QED BY <1>1, <2>1, <2>3, SearchArrives DEF e
<1> QED BY <1>2, <1>3

LEMMA PlaceBegin ==
  ASSUME CallInv, WritesComeLast, AskedInv, AskedInv', StoredInv, Begin
  PROVE  PlaceInv' /\ ReadsDescription' /\ StoredInv'
<1>1. desc' = desc
  BY DEF Begin
<1>2. ASSUME NEW c, DescBegins(c) PROVE PlaceInv' /\ ReadsDescription' /\ StoredInv'
  <2>1. Goes(c) /\ c.op \in DescOps /\ ~Wrote
    BY <1>2, DescBeginsGoes DEF DescBegins, DescCalled
  <2>2. mem' = mem /\ asked' = asked
    BY <2>1 DEF Goes
  <2>3. StoredInv'
    BY <1>1, <2>2 DEF StoredInv
  <2>4. CASE desc = <<>> \/ Beyond(desc, c)
    <3>1. c.op # "none"
      BY <2>1, OpsApart
    <3>2. PlaceInv' /\ ReadsDescription'
      BY <1>1, <2>1, <2>4, <3>1, NothingPromised DEF Goes
    <3> QED BY <2>3, <3>2
  <2>5. CASE desc # <<>> /\ ~Beyond(desc, c)
    <3>1. asked \subseteq Low
      BY <2>1 DEF AskedInv
    <3>2. PICK u : u = Categories(mem)
      OBVIOUS
    <3>3. PICK y : IsStored(y, u, desc)
      BY <2>5, <3>1, <3>2 DEF StoredInv
    <3>4. PICK d : d = desc
      OBVIOUS
    <3>5. Arrives(y, u, d)
      BY <1>2, <2>5, <3>3, <3>4, BeginArrives
    <3>6. Arrives(y, u, desc)
      BY <3>4, <3>5
    <3> QED BY <1>1, <2>2, <2>3, <3>2, <3>3, <3>6, ArrivesKeeps
  <2> QED BY <2>4, <2>5
<1>3. ASSUME NEW b, b.op \in {"read", "write", "set_station_alias"}, UNCHANGED <<mem, asked>>,
             \/ call' = NoCall /\ result'.op = b.op
             \/ /\ result' = NoResult /\ call'.op = b.op
                /\ call'.phase \in {"read", "write", "head"}
                /\ call'.phase = "write" => Wrote'
      PROVE  PlaceInv' /\ ReadsDescription' /\ StoredInv'
  <2>1. b.op \in OtherOps /\ b.op # "none"
    BY <1>3, OpsApart
  <2>2. StoredInv'
    BY <1>1, <1>3 DEF StoredInv
  <2>3. PlaceInv' /\ ReadsDescription'
    BY <1>1, <1>3, <2>1, NothingPromised
  <2> QED BY <2>2, <2>3
<1> QED BY <1>2, <1>3, BeginSplit

\* A step of a call for the description, from where the call stands.
LEMMA DescArrives ==
  ASSUME NEW y, NEW u, NEW d, NEW c, NEW t, Stands(y, u, d, c, t), DescSteps \/ CallFails
  PROVE  Arrives(y, u, d)
<1>1. CASE CallFails
  BY <1>1, Panics DEF CallFails
<1>2. CASE DescSteps
  BY <1>2, SearchCategoryArrives, FmmusDoneArrives, GeneralDoneArrives, NextItemArrives,
     NextEntryArrives, StringCountArrives, StringLengthArrives, StringDoneArrives
     DEF DescSteps
<1> QED BY <1>1, <1>2

LEMMA PlaceClient ==
  ASSUME RangeInv, CallInv, AskedInv, AskedInv', StoredInv, PlaceInv, ReadsDescription,
         ClientStep, UNCHANGED <<mem, asked, desc, clean>>
  PROVE  PlaceInv' /\ ReadsDescription' /\ StoredInv'
<1>1. GoodCall(call) /\ IsCallRecord(call)
  BY DEF CallInv, GoodCall
<1>2. StoredInv'
  BY DEF StoredInv
<1>3. CASE ReadDone \/ WriteDone \/ HeaderDone \/ AliasDone \/ ChecksumDone
  <2>1. Others(call) /\ call.phase \notin DescPhases \cup {"none"}
    BY <1>1, <1>3, OtherGoes
  <2>2. call.op \in OtherOps /\ call.op # "none"
    BY <2>1, OpsApart DEF AskedInv
  <2>3. PICK b : b = call
    OBVIOUS
  <2>4. PlaceInv' /\ ReadsDescription'
    BY <2>1, <2>2, <2>3, NothingPromised DEF Others
  <2> QED BY <1>2, <2>4
<1>4. CASE DescSteps \/ CallFails
  <2>1. /\ \/ call' = NoCall /\ result'.op = call.op /\ result'.arg = call.arg
           \/ call'.op = call.op /\ call'.arg = call.arg
        /\ call.op # "none"
    <3>1. CASE CallFails
      BY <3>1 DEF CallFails, Return, Idle
    <3>2. CASE DescSteps
      <4>1. Goes(call) /\ call.phase \in DescPhases
        BY <1>1, <3>2, DescGoes
      <4>2. call.op # "none"
        BY <4>1, OpsApart DEF AskedInv
      <4> QED BY <4>1, <4>2 DEF Goes
    <3> QED BY <1>4, <3>1, <3>2
  <2>2. PICK b : b = call
    OBVIOUS
  <2>3. CASE desc = <<>> \/ call.op \in OtherOps \/ Beyond(desc, call)
    <3>1. PlaceInv' /\ ReadsDescription'
      BY <2>1, <2>2, <2>3, NothingPromised
    <3> QED BY <1>2, <3>1
  <2>4. CASE desc # <<>> /\ call.op \notin OtherOps /\ ~Beyond(desc, call) /\ clean
    <3>1. call.op \in DescOps
      BY <2>4 DEF AskedInv
    <3>2. PICK y, u, t : /\ u = Categories(mem) /\ IsStored(y, u, desc)
                         /\ At(y, u, desc, call, t) /\ Awaits(u, t)
      BY <2>4, <3>1 DEF PlaceInv
    <3>3. PICK d : d = desc
      OBVIOUS
    <3>4. u \in [Nat -> Byte] /\ reader \in RangeType
      <4>1. IsMem(mem)
        BY DEF RangeInv, RangeTypeOK, IsMem
      <4> QED BY <3>2, <4>1, CategoriesType DEF RangeInv, RangeTypeOK
    <3>5. Stands(y, u, d, b, t)
      BY <1>1, <2>2, <3>2, <3>3, <3>4 DEF Stands
    <3>6. Arrives(y, u, d)
      BY <1>4, <3>5, DescArrives
    <3>7. Arrives(y, u, desc)
      BY <3>3, <3>6
    <3> QED BY <1>2, <3>2, <3>7, ArrivesKeeps
  <2>5. CASE ~clean
    <3>1. PlaceInv' /\ ReadsDescription'
      BY <2>5 DEF PlaceInv, ReadsDescription
    <3> QED BY <1>2, <3>1
  <2> QED BY <2>3, <2>4, <2>5
<1> QED BY <1>3, <1>4 DEF ClientStep, DescSteps

LEMMA PlaceRange ==
  ASSUME RangeInv, CallInv, AskedInv, AskedInv', StoredInv, PlaceInv, ReadsDescription,
         FirstCategory > ChecksumWord, RangeNext, UNCHANGED clientVars, asked \subseteq asked'
  PROVE  PlaceInv' /\ ReadsDescription' /\ StoredInv'
<1>1. UNCHANGED <<desc, call, result>>
  BY SMTT(40) DEF clientVars
<1>2. clean' => clean
  BY RangeMoves
<1>3. ReadsDescription'
  BY <1>1, <1>2 DEF ReadsDescription, Idle
<1>4. ASSUME asked' \subseteq Low PROVE Categories(mem') = Categories(mem)
  BY <1>4, StoreLow
<1>5. StoredInv'
  <2> SUFFICES ASSUME desc' # <<>>, asked' \subseteq Low
               PROVE  \E y : IsStored(y, Categories(mem'), desc')
    BY DEF StoredInv
  <2>1. asked \subseteq Low
    OBVIOUS
  <2>2. \E y : IsStored(y, Categories(mem), desc)
    BY <1>1, <2>1 DEF StoredInv
  <2> QED BY <1>1, <1>4, <2>2
<1>6. PlaceInv'
  <2> SUFFICES ASSUME desc # <<>>, clean', call.op \in DescOps, ~Beyond(desc, call)
               PROVE  PlaceInv'
    BY <1>1 DEF PlaceInv
  <2>1. PICK y, u, t : /\ u = Categories(mem) /\ IsStored(y, u, desc)
                       /\ At(y, u, desc, call, t) /\ Awaits(u, t)
    BY <1>2 DEF PlaceInv
  <2>2. asked' \subseteq Low
    BY <1>1 DEF AskedInv
  <2>3. u = Categories(mem')
    BY <1>4, <2>1, <2>2
  <2>4. u \in [Nat -> Byte]
    <3>1. IsMem(mem)
      BY DEF RangeInv, RangeTypeOK, IsMem
    <3> QED BY <2>1, <3>1, CategoriesType
  <2>5. PICK d, c : d = desc /\ c = call
    OBVIOUS
  <2>6. At(y, u, d, c, t) /\ IsStored(y, u, d)
    BY <2>1, <2>5
  <2>7. TaskSpot(t)
    <3>1. c.phase \in DescPhases
      BY <2>6 DEF At
    <3> QED BY <2>4, <2>6, <3>1, PlaceSpot
  <2>8. Awaits(u, t)'
    BY <2>1, <2>7, AwaitsKept
  <2>9. IsStored(y, u, desc') /\ At(y, u, desc', call', t)
    BY <1>1, <2>1
  <2> QED BY <2>3, <2>8, <2>9 DEF PlaceInv
<1> QED BY <1>3, <1>5, <1>6

LEMMA DescriptionStep ==
  ASSUME WritesComeLast, FirstCategory > ChecksumWord, EepromInv, DescriptionInv, [Next]_vars
  PROVE  DescriptionInv'
<1>1. RangeInv /\ CallInv /\ AskedInv /\ StoredInv /\ PlaceInv /\ ReadsDescription
  BY DEF EepromInv, RangeInv, DescriptionInv
<1>2. CASE Begin
  <2>1. AskedInv'
    BY <1>1, <1>2, AskedBegin
  <2> QED BY <1>1, <1>2, <2>1, PlaceBegin DEF DescriptionInv
<1>3. CASE ClientStep
  <2>1. AskedInv' /\ UNCHANGED <<mem, asked, desc, clean>>
    BY <1>1, <1>3, AskedClient
  <2> QED BY <1>1, <1>3, <2>1, PlaceClient DEF DescriptionInv
<1>4. CASE RangeNext /\ UNCHANGED clientVars
  <2>1. AskedInv' /\ asked \subseteq asked'
    BY <1>1, <1>4, AskedRange
  <2> QED BY <1>1, <1>4, <2>1, PlaceRange DEF DescriptionInv
<1>5. CASE UNCHANGED vars
  <2>1. UNCHANGED <<mem, reader, want, got, delivered, rpc, asked, clean, desc, call, result,
                    calls>>
    BY <1>5 DEF vars, rangeVars, clientVars
  <2>2. AskedInv' /\ StoredInv' /\ ReadsDescription'
    BY <1>1, <2>1 DEF AskedInv, Wrote, StoredInv, ReadsDescription, Idle
  <2>3. ASSUME NEW u, NEW t, Awaits(u, t) PROVE Awaits(u, t)'
    BY <2>1, <2>3 DEF Awaits, AwaitsChunk, AwaitsBytes
  <2>4. PlaceInv'
    BY <1>1, <2>1, <2>3 DEF PlaceInv
  <2> QED BY <2>2, <2>4 DEF DescriptionInv
<1> QED BY <1>2, <1>3, <1>4, <1>5 DEF Next

\* Whatever calls come before and whatever fails: a call on a SubDevice whose
\* EEPROM stores a description, the answer of which nothing disturbed, returns
\* the string, general information, FMMUs, sync managers or PDOs in it, with
\* all of its items and in their order, and an error only if it has no general
\* category.
\* [SubDeviceEeprom]
THEOREM ReadsWhatIsStored ==
  CrcIsByte /\ DescriptionsStored /\ WritesComeLast /\ FirstCategory > ChecksumWord =>
    (Spec => []ReadsDescription)
<1> SUFFICES ASSUME CrcIsByte, DescriptionsStored, WritesComeLast,
                    FirstCategory > ChecksumWord
             PROVE  Spec => []ReadsDescription
  OBVIOUS
<1>1. Init => EepromInv /\ DescriptionInv
  <2> SUFFICES ASSUME Init PROVE EepromInv /\ DescriptionInv
    OBVIOUS
  <2>1. EepromInv
    BY EepromInit
  <2>2. call = NoCall /\ result = NoResult /\ asked = {}
    BY DEF Init, RangeInit
  <2>3. AskedInv
    BY <2>2, OpsApart DEF AskedInv
  <2>4. StoredInv
    BY DEF Init, StoredInv, DescriptionsStored
  <2>5. PlaceInv /\ ReadsDescription
    BY <2>2, OpsApart DEF PlaceInv, ReadsDescription
  <2> QED BY <2>1, <2>3, <2>4, <2>5 DEF DescriptionInv
<1>2. EepromInv /\ DescriptionInv /\ [Next]_vars => EepromInv' /\ DescriptionInv'
  BY EepromStep, DescriptionStep
<1>3. DescriptionInv => ReadsDescription
  BY DEF DescriptionInv
<1> QED BY <1>1, <1>2, <1>3, PTL DEF Spec

=============================================================================
