-------------------------- MODULE SubDeviceEeprom --------------------------
(***************************************************************************)
(* What the MainDevice does with the EEPROM of a SubDevice: search it for a *)
(* category, read the strings, sync managers, FMMUs and PDOs in it, read   *)
(* and write words, set the station alias and its checksum.                *)
(***************************************************************************)
EXTENDS EepromRange

CONSTANTS
  FirstCategory,  \* 0x40: word address of the first category
  MaxEmpty,       \* 32: empty categories after which the search gives up
  MaxString,      \* longest string a name may have
  MaxItems,       \* 8 sync managers, 64 PDOs: capacity of the lists
  Images,         \* EEPROMs: [mem, desc], desc what was put into mem
  Calls,          \* for each call in turn, the ones to choose from: [op, arg]
  Crc(_)          \* the checksum of a sequence of bytes

ASSUME EepromAssumption ==
  /\ FirstCategory \in Nat /\ 2 * FirstCategory < U16 /\ MaxEmpty \in Nat \ {0}
  /\ MaxString \in Nat /\ MaxItems \in Nat \ {0}

\* The operations of the MainDevice and their arguments.
Lists == {"fmmus", "sync_managers", "fmmu_mappings", "pdos", "write_pdos"}
GeneralOps == {"general", "device_name", "device_description"}
IsCall(k) ==
  CASE k.op = "read" -> k.arg.word \in Nat /\ k.arg.len \in Nat
    [] k.op = "write" -> k.arg.word \in Nat /\ k.arg.bytes \in Seq(Byte)
    [] k.op = "set_station_alias" -> k.arg \in Seq(Byte) /\ Len(k.arg) = 2
    [] k.op = "find_string" -> k.arg \in Nat
    [] OTHER -> k.op \in Lists \cup GeneralOps

ASSUME DataAssumption ==
  /\ \A i \in Images : /\ i.mem = [a \in DOMAIN i.mem |-> i.mem[a]]
                       /\ \A a \in DOMAIN i.mem : a \in Nat /\ i.mem[a] \in Byte
  /\ Len(Calls) \in Nat /\ \A j \in 1..Len(Calls) : \A k \in Calls[j] : IsCall(k)

\* CategoryType
Strings == 10
General == 30
Fmmu == 40
SyncManager == 41
FmmuExtended == 42
TxPdo == 50
RxPdo == 51
End == 65535

\* STATION_ALIAS_POSITION and CHECKSUM_POSITION as words, packed lengths
AliasWord == 4
ChecksumWord == 7
GeneralLen == 18
ItemLen(op) == IF op = "fmmu_mappings" THEN 3 ELSE 8

VARIABLES
  desc,      \* what the EEPROM was made of
  call,      \* the call under way
  result,    \* of the last call: [op, arg, tag, value]
  calls,     \* calls so far
  torn       \* history: a call that writes failed or was disturbed

clientVars == <<desc, call, result, calls, torn>>
vars == <<rangeVars, clientVars>>

NoCall == [op |-> "none", arg |-> 0, phase |-> "none", cat |-> 0, word_addr |-> 0,
           empty |-> 0, list |-> <<>>, left |-> 0, sync_manager |-> 0, sum |-> 0]
Idle == call.op = "none"
NoResult == [op |-> "none", arg |-> 0, tag |-> "none", value |-> <<>>]

Init ==
  /\ RangeInit
  /\ \E i \in Images : mem = i.mem /\ desc = i.desc
  /\ call = NoCall /\ result = NoResult /\ calls = 0 /\ torn = FALSE

-----------------------------------------------------------------------------
\* Returning and going on.

Return(c, tag, value) ==
  /\ call' = NoCall
  /\ result' = [op |-> c.op, arg |-> c.arg, tag |-> tag, value |-> value]
  /\ torn' = (torn \/ (c.phase \in {"alias", "checksum", "write"} /\ ~(tag = "ok" /\ clean)))
  /\ rpc' = "idle" /\ got' = <<>> /\ delivered' = <<>> /\ retry_count' = 0
  /\ reader' = NoRange
  /\ UNCHANGED <<mem, chunk_len, sii, data, want, faults, asked>>

\* The call goes on as c, in another range or the same one.
GoOn(c) == call' = c /\ result' = NoResult /\ UNCHANGED torn
Stay(c) == GoOn(c) /\ UNCHANGED reader

\* category: one chunk for the type and the length of a category.
Search(c, cat) ==
  /\ ReadChunk(FirstCategory)
  /\ Stay([c EXCEPT !.phase = "category", !.cat = cat, !.word_addr = FirstCategory,
                    !.empty = 0])

\* find_string and what precedes the search in it.
FindString(c, index) ==
  IF index = 0 THEN Return(c, "missing", <<>>)
  ELSE Search([c EXCEPT !.left = index - 1], Strings)

NotFound(c) ==
  CASE c.op \in {"sync_managers", "fmmus", "fmmu_mappings", "pdos", "write_pdos"} ->
         Return(c, "ok", <<>>)
    [] c.op \in {"general", "device_description"} /\ c.cat = General ->
         Return(c, "error", <<>>)
    [] OTHER -> Return(c, "missing", <<>>)

Found(c, start_word, len_words) ==
  /\ NewRange(start_word, len_words)
  /\ CASE c.cat = Strings -> ReadByte /\ GoOn([c EXCEPT !.phase = "num"])
       [] c.cat = General -> Read(GeneralLen) /\ GoOn([c EXCEPT !.phase = "general"])
       [] c.cat = Fmmu -> Read(16) /\ GoOn([c EXCEPT !.phase = "fmmus"])
       [] OTHER -> Read(ItemLen(c.op)) /\ GoOn([c EXCEPT !.phase = "items"])

-----------------------------------------------------------------------------
\* The calls.

StartAt(c, start_word, len_bytes, op) ==
  IF RangeFits(start_word, len_bytes \div 2)
  THEN /\ NewRange(start_word, len_bytes \div 2)
       /\ op
       /\ GoOn(c)
  ELSE Return(c, "panic", <<>>)

Category(op) ==
  CASE op \in {"general", "device_name", "device_description"} -> General
    [] op = "fmmus" -> Fmmu
    [] op = "sync_managers" -> SyncManager
    [] op = "fmmu_mappings" -> FmmuExtended
    [] op = "pdos" -> TxPdo
    [] op = "write_pdos" -> RxPdo

Begin ==
  /\ Idle /\ rpc = "idle" /\ calls < Len(Calls)
  /\ calls' = calls + 1 /\ clean' = TRUE
  /\ \E k \in Calls[calls + 1] :
       LET c == [NoCall EXCEPT !.op = k.op, !.arg = k.arg] IN
       CASE k.op = "read" ->
              StartAt([c EXCEPT !.phase = "read"], k.arg.word, k.arg.len, Read(k.arg.len))
         [] k.op = "write" ->
              StartAt([c EXCEPT !.phase = "write"], k.arg.word, Len(k.arg.bytes),
                      Write(k.arg.bytes))
         [] k.op = "set_station_alias" ->
              StartAt([c EXCEPT !.phase = "head"], 0, 14, Read(14))
         [] k.op = "find_string" -> FindString(c, k.arg)
         [] OTHER -> Search(c, Category(k.op))
  /\ UNCHANGED desc

\* The steps of a call, each with the bytes of the last read.
Continue(phase) ==
  /\ call.phase = phase /\ rpc = "done"
  /\ UNCHANGED <<desc, calls, clean>>

\* An operation on the range failed.
CallFails ==
  /\ ~Idle /\ rpc = "failed"
  /\ Return(call, "failed", <<>>)
  /\ UNCHANGED <<desc, calls, clean>>

U16At(k) == delivered[k] + 256 * delivered[k + 1]

\* Mutant: the two words in front of the data are forgotten.
NextCategoryShort(word_addr, len_words) == word_addr + len_words

NextCategory(word_addr, len_words) == word_addr + 2 + len_words

SearchCategory ==
  /\ Continue("category")
  /\ LET type == U16At(1)
         len_words == U16At(3)
         start == call.word_addr + 2
         next == NextCategory(call.word_addr, len_words)
         empty == call.empty + (IF len_words = 0 THEN 1 ELSE 0)
     IN CASE start >= U16 \/ empty >= MaxEmpty -> NotFound(call)
          [] start < U16 /\ empty < MaxEmpty /\ type = call.cat ->
               IF RangeFits(start, len_words) THEN Found(call, start, len_words)
               ELSE Return(call, "panic", <<>>)
          [] start < U16 /\ empty < MaxEmpty /\ type = End /\ type # call.cat ->
               NotFound(call)
          [] OTHER ->
               IF next >= U16 THEN Return(call, "panic", <<>>)
               ELSE /\ ReadChunk(next)
                    /\ Stay([call EXCEPT !.word_addr = next, !.empty = empty])

\* Read bytes: the identity, the mailbox configuration, the alias, any bytes.
ReadDone ==
  /\ Continue("read")
  /\ IF Len(delivered) < call.arg.len /\ call.arg.exact
     THEN Return(call, "error", <<>>) ELSE Return(call, "ok", delivered)

\* write_all panics when write takes none of the bytes left.
WriteDone ==
  /\ Continue("write")
  /\ Return(call, IF got = <<>> THEN "ok" ELSE "panic", <<>>)

\* What decodes: a FmmuUsage is one of five values, CoeDetails has six bits, Flags
\* five and SyncManagerEnable four.  The other types take any bytes.
FmmusDecode(bytes) == \A k \in 1..Len(bytes) : bytes[k] \in {0, 1, 2, 3, 255}
GeneralDecodes(bytes) == bytes[6] < 64 /\ bytes[12] < 32
ItemDecodes(op, bytes) == op = "sync_managers" => bytes[7] < 16

FmmusDone ==
  /\ Continue("fmmus")
  /\ IF FmmusDecode(delivered)
     THEN Return(call, "ok", delivered) ELSE Return(call, "error", <<>>)

\* The third byte is order_string_idx, the fourth name_string_idx.
GeneralDone ==
  /\ Continue("general")
  /\ IF Len(delivered) < GeneralLen \/ ~GeneralDecodes(delivered)
     THEN Return(call, "error", <<>>)
     ELSE CASE call.op = "general" -> Return(call, "ok", delivered)
            [] call.op = "device_name" -> FindString(call, delivered[3])
            [] call.op = "device_description" -> FindString(call, delivered[4])

\* An item more in the list, read the next one.
Push(c, item) ==
  IF Len(c.list) < MaxItems
  THEN Read(ItemLen(c.op)) /\ Stay([c EXCEPT !.phase = "items", !.list = Append(@, item)])
  ELSE Return(c, "error", <<>>)

HasEntries(op) == op \in {"pdos", "write_pdos"}

PdoItem(sync_manager, bit_len) ==
  [sync_manager |-> sync_manager, bit_len |-> bit_len]

\* The third byte of a Pdo is num_entries, the fourth its sync manager.
NextItem ==
  /\ Continue("items")
  /\ IF Len(delivered) < ItemLen(call.op) THEN Return(call, "ok", call.list)
     ELSE IF ~ItemDecodes(call.op, delivered) THEN Return(call, "error", <<>>)
     ELSE IF HasEntries(call.op) /\ delivered[3] > 0
     THEN /\ Read(ItemLen(call.op))
          /\ Stay([call EXCEPT !.phase = "entries", !.left = delivered[3],
                               !.sync_manager = delivered[4], !.sum = 0])
     ELSE Push(call, IF HasEntries(call.op) THEN PdoItem(delivered[4], 0)
                     ELSE delivered)

\* The sixth byte of a PdoEntry is data_length_bits.
NextEntry ==
  /\ Continue("entries")
  /\ LET c == [call EXCEPT !.left = @ - 1, !.sum = @ + delivered[6]] IN
     IF Len(delivered) < ItemLen(call.op) THEN Return(call, "error", <<>>)
     ELSE IF call.left = 1 THEN Push(c, PdoItem(c.sync_manager, c.sum))
     ELSE Read(ItemLen(call.op)) /\ Stay(c)

StringCount ==
  /\ Continue("num")
  /\ IF call.left > delivered[1] THEN Return(call, "missing", <<>>)
     ELSE ReadByte /\ Stay([call EXCEPT !.phase = "len"])

StringLength ==
  /\ Continue("len")
  /\ LET string_len == delivered[1] IN
     IF call.left > 0
     THEN IF SkipFits(string_len)
          THEN Skip(string_len) /\ ReadByte /\ GoOn([call EXCEPT !.left = @ - 1])
          ELSE Return(call, "error", <<>>)
     ELSE IF string_len > MaxString THEN Return(call, "error", <<>>)
     ELSE Read(string_len) /\ Stay([call EXCEPT !.phase = "string", !.sum = string_len])

\* The bytes that are not zero.
Retain(bytes) ==
  LET kept[k \in 0..Len(bytes)] ==
        IF k = 0 THEN <<>>
        ELSE IF bytes[k] = 0 THEN kept[k - 1] ELSE Append(kept[k - 1], bytes[k])
  IN kept[Len(bytes)]

\* A question mark for every byte that is not ASCII.
Ascii(bytes) == [k \in 1..Len(bytes) |-> IF bytes[k] < 128 THEN bytes[k] ELSE 63]

StringDone ==
  /\ Continue("string")
  /\ IF Len(delivered) < call.sum THEN Return(call, "error", <<>>)
     ELSE Return(call, "ok", Ascii(Retain(delivered)))

\* set_station_alias: the checksum of the header with the new alias in it.
Header(bytes, alias) ==
  [k \in 1..14 |-> IF k \in {9, 10} THEN alias[k - 8] ELSE bytes[k]]

\* Mutant: the checksum of the header as it was.
AliasChecksumOld(alias) == Crc(delivered)
AliasChecksum(alias) == Crc(Header(delivered, alias))

HeaderDone ==
  /\ Continue("head")
  /\ IF Len(delivered) < 14 THEN Return(call, "error", <<>>)
     ELSE StartAt([call EXCEPT !.phase = "alias", !.sum = AliasChecksum(call.arg)],
                  AliasWord, 2, Write(call.arg))

AliasDone ==
  /\ Continue("alias")
  /\ StartAt([call EXCEPT !.phase = "checksum"], ChecksumWord, 2, Write(<<call.sum, 0>>))

ChecksumDone ==
  /\ Continue("checksum")
  /\ Return(call, "ok", <<>>)

ClientStep ==
  \/ SearchCategory \/ ReadDone \/ WriteDone \/ FmmusDone \/ GeneralDone
  \/ NextItem \/ NextEntry \/ StringCount \/ StringLength \/ StringDone
  \/ HeaderDone \/ AliasDone \/ ChecksumDone \/ CallFails

Next ==
  \/ Begin
  \/ ClientStep
  \/ (RangeNext /\ UNCHANGED clientVars)

Spec == Init /\ [][Next]_vars

\* The executor runs the task, the wait for the SubDevice has a timeout.
FairSpec ==
  Spec /\ WF_vars(ClientStep) /\ WF_vars(TaskStep /\ UNCHANGED clientVars)

-----------------------------------------------------------------------------
\* Correctness.

\* An EepromRange is a stream of the bytes of the memory: chunks of 4 or 8
\* bytes at word addresses are put together to any bytes of the range, at odd
\* positions and up to its end, and writes stay in the range.
StreamSpec == Stream!Spec

\* What a call returns is what was put into the EEPROM, if the SubDevice
\* reported no error and nobody else used it, strings as far as they are ASCII.
\* It is an error exactly if the general category is missing, except for the name,
\* or some of the bytes do not decode.  (String number n + 1 of n strings is
\* left out: the bound of the index admits it.)
StringAt(d, i) == IF i \in 1..Len(d.strings) THEN Ascii(d.strings[i]) ELSE <<>>
Sums(entries) ==
  LET sum[k \in 0..Len(entries)] == IF k = 0 THEN 0 ELSE sum[k - 1] + entries[k] IN sum
SumBits(entries) == Sums(entries)[Len(entries)]
Pdos(pdos) ==
  [k \in 1..Len(pdos) |-> PdoItem(pdos[k].sync_manager, SumBits(pdos[k].entries))]
Refused(d, op) ==
  \/ op \in {"general", "device_description"} /\ d.general = <<>>
  \/ op \in GeneralOps /\ d.general # <<>> /\ ~GeneralDecodes(d.general)
  \/ op = "fmmus" /\ ~FmmusDecode(d.fmmus)
  \/ op = "sync_managers" /\ \E k \in 1..Len(d.sync_managers) :
                                ~ItemDecodes(op, d.sync_managers[k])
Expected(d, r) ==
  IF Refused(d, r.op) THEN <<>> ELSE
  CASE r.op = "find_string" -> StringAt(d, r.arg)
    [] r.op = "device_name" /\ d.general # <<>> -> StringAt(d, d.general[3])
    [] r.op = "device_description" -> StringAt(d, d.general[4])
    [] r.op = "general" -> d.general
    [] r.op = "fmmus" -> d.fmmus
    [] r.op = "sync_managers" -> d.sync_managers
    [] r.op = "fmmu_mappings" -> d.mappings
    [] r.op = "pdos" -> Pdos(d.pdos)
    [] r.op = "write_pdos" -> Pdos(d.write_pdos)
    [] OTHER -> <<>>

ReadsDescription ==
  LET r == result IN
  desc # <<>> /\ clean /\ Idle /\ r.tag \in {"ok", "missing", "error"}
    /\ r.op \notin {"none", "read", "write", "set_station_alias"}
    /\ ~(r.op = "find_string" /\ r.arg = Len(desc.strings) + 1)
    => r.value = Expected(desc, r) /\ (r.tag = "error" <=> Refused(desc, r.op))

\* Its preconditions.  A description is stored as the categories of u, the memory
\* from FirstCategory on: y says where.  Category k of n is at word w[k] and behind
\* e[k] empty ones, the last is the end marker.  The first one of a type is number
\* loc[type], 0 if there is none.  Item k of a list begins at byte at[op][k - 1],
\* string k with its length at byte str[k - 1].
Categories(m) ==
  [a \in Nat |-> IF a >= 2 * FirstCategory THEN Stream!ByteAt(m, a) ELSE 0]
Types == {Strings, General, Fmmu, SyncManager, FmmuExtended, TxPdo, RxPdo}
WordAt(u, w) == u[2 * w] + 256 * u[2 * w + 1]
HasBytes(u, a, bytes) == \A k \in 1..Len(bytes) : u[a + k - 1] = bytes[k]

Chain(y, u) ==
  /\ y.n \in Nat \ {0} /\ y.w \in [1..y.n -> Nat] /\ y.e \in [1..y.n -> Nat]
  /\ y.w[1] = FirstCategory /\ y.e[1] = 0 /\ WordAt(u, y.w[y.n]) = End
  /\ \A k \in 1..y.n : y.w[k] < U16 /\ y.e[k] < MaxEmpty
  /\ \A k \in 1..(y.n - 1) :
       LET words == WordAt(u, y.w[k] + 1) IN
       /\ WordAt(u, y.w[k]) # End
       /\ y.w[k + 1] = y.w[k] + 2 + words
       /\ y.e[k + 1] = y.e[k] + (IF words = 0 THEN 1 ELSE 0)

\* Where the data of a category begins and ends.
From(y, type) == 2 * (y.w[y.loc[type]] + 2)
Behind(y, u, type) == From(y, type) + 2 * WordAt(u, y.w[y.loc[type]] + 1)
Located(y, u) ==
  /\ y.loc \in [Types -> 0..(y.n - 1)]
  /\ \A t \in Types : y.loc[t] > 0 => WordAt(u, y.w[y.loc[t]]) = t /\ Behind(y, u, t) < U16
  /\ \A t \in Types : \A k \in 1..(y.n - 1) : WordAt(u, y.w[k]) = t => y.loc[t] \in 1..k

HoldsGeneral(y, u, d) ==
  IF y.loc[General] = 0 THEN d.general = <<>>
  ELSE /\ d.general \in Seq(Byte) /\ Len(d.general) = GeneralLen
       /\ HasBytes(u, From(y, General), d.general)
       /\ From(y, General) + GeneralLen <= Behind(y, u, General)
       /\ Len(d.strings) + 1 \notin {d.general[3], d.general[4]}

HoldsFmmus(y, u, d) ==
  IF y.loc[Fmmu] = 0 THEN d.fmmus = <<>>
  ELSE /\ d.fmmus \in Seq(Byte) /\ Len(d.fmmus) <= 16
       /\ HasBytes(u, From(y, Fmmu), d.fmmus)
       /\ From(y, Fmmu) + Len(d.fmmus) = Behind(y, u, Fmmu)

HoldsStrings(y, u, d) ==
  IF y.loc[Strings] = 0 THEN d.strings = <<>>
  ELSE /\ d.strings \in Seq(Seq(Byte \ {0}))
       /\ u[From(y, Strings)] = Len(d.strings)
       /\ y.str \in [0..Len(d.strings) -> Nat] /\ y.str[0] = From(y, Strings) + 1
       /\ \A k \in 0..Len(d.strings) : y.str[k] <= Behind(y, u, Strings)
       /\ \A k \in 1..Len(d.strings) :
            /\ Len(d.strings[k]) <= MaxString /\ u[y.str[k - 1]] = Len(d.strings[k])
            /\ HasBytes(u, y.str[k - 1] + 1, d.strings[k])
            /\ y.str[k] = y.str[k - 1] + 1 + Len(d.strings[k])

\* An item is its bytes, a Pdo its head and its entries.
IsItem(u, a, b, op, item) ==
  IF HasEntries(op)
  THEN /\ u[a + 2] = Len(item.entries) /\ u[a + 3] = item.sync_manager
       /\ b = a + 8 + 8 * Len(item.entries)
       /\ \A i \in 1..Len(item.entries) : u[a + 8 * i + 5] = item.entries[i]
  ELSE Len(item) = ItemLen(op) /\ b = a + ItemLen(op) /\ HasBytes(u, a, item)
ItemType(op) ==
  IF HasEntries(op) THEN [sync_manager : Byte, entries : Seq(Byte)] ELSE Seq(Byte)
HoldsItems(y, u, op, items) ==
  LET t == Category(op) IN
  IF y.loc[t] = 0 THEN items = <<>>
  ELSE /\ items \in Seq(ItemType(op)) /\ Len(items) <= MaxItems
       /\ y.at[op] \in [0..Len(items) -> Nat] /\ y.at[op][0] = From(y, t)
       /\ \A k \in 1..Len(items) : /\ IsItem(u, y.at[op][k - 1], y.at[op][k], op, items[k])
                                   /\ y.at[op][k] <= Behind(y, u, t)
       /\ Behind(y, u, t) - y.at[op][Len(items)] \in 0..(ItemLen(op) - 1)

IsStored(y, u, d) ==
  /\ Chain(y, u) /\ Located(y, u)
  /\ HoldsGeneral(y, u, d) /\ HoldsFmmus(y, u, d) /\ HoldsStrings(y, u, d)
  /\ HoldsItems(y, u, "sync_managers", d.sync_managers)
  /\ HoldsItems(y, u, "fmmu_mappings", d.mappings)
  /\ HoldsItems(y, u, "pdos", d.pdos) /\ HoldsItems(y, u, "write_pdos", d.write_pdos)

DescriptionsStored ==
  \A i \in Images : i.desc # <<>> => \E y : IsStored(y, Categories(i.mem), i.desc)

\* Who writes any bytes does not read a description afterwards.
WritesComeLast ==
  \A j, l \in 1..Len(Calls) : \A k \in Calls[j], q \in Calls[l] :
    j < l /\ k.op = "write" => q.op \in {"read", "write", "set_station_alias"}

\* The checksum is that of the header, unless a station alias was written
\* whose checksum failed to be, or the SubDevice refused to write.
HeaderChecked(m) == m[14] = Crc(Stream!BytesAt(m, 0, 14)) /\ m[15] = 0
ChecksumHolds == desc # <<>> /\ Idle /\ ~torn => HeaderChecked(mem)

\* Its preconditions: it was so from the start, and who writes any bytes
\* leaves the header alone.
HeadersChecked ==
  \A i \in Images : i.desc # <<>> => 0..15 \subseteq DOMAIN i.mem /\ HeaderChecked(i.mem)
WritesSpareHeader ==
  \A j \in 1..Len(Calls) : \A k \in Calls[j] : k.op = "write" => k.arg.word > ChecksumWord

\* Every call ends, whatever the EEPROM holds and the SubDevice does.
CallEnds == ~Idle ~> Idle
=============================================================================
