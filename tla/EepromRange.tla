---------------------------- MODULE EepromRange ----------------------------
(***************************************************************************)
(* Ranges of the EEPROM of a SubDevice, read in chunks and written in words *)
(* through its SII registers: control and address, and data.  Every access *)
(* to a register is a step.  The SubDevice takes its time to carry out a   *)
(* command; one that comes while it is busy is ignored.                    *)
(***************************************************************************)
EXTENDS Integers, Sequences

CONSTANTS
  U16,          \* 65536: addresses are computed modulo U16
  MaxRetries,   \* 20: repetitions of a write the SubDevice refuses
  Faults,       \* faults that may happen
  MaxFaults     \* bound: faults other than timeouts

ASSUME RangeAssumption ==
  /\ U16 \in Nat \ {0} /\ MaxRetries \in Nat /\ MaxFaults \in Nat
  /\ Faults \subseteq {"timeout", "bus", "error", "other"}

Byte == 0..255

VARIABLES
  mem,          \* the memory: [byte address -> byte]
  chunk_len,    \* 4 or 8: bytes the SubDevice reads at once
  sii,          \* [busy, cmd, addr, error, command_error]
  data,         \* the data register
  reader,       \* the range: [byte_pos, end]
  want,         \* the operation under way: [kind, n]
  got,          \* bytes read so far, or yet to be written
  delivered,    \* bytes of the last read
  rpc,          \* where the operation is
  retry_count,
  faults,       \* faults so far
  asked,        \* history: words that were to be written
  clean         \* history: no error, nobody else at the SII registers and
                \* no command ignored since the call began

rangeVars == <<mem, chunk_len, sii, data, reader, want, got, delivered, rpc,
               retry_count, faults, asked, clean>>

\* read and read_byte show the range from where the operation began.
Stream == INSTANCE EepromStream WITH
  pos <- IF want.kind \in {"read", "byte"} THEN reader.byte_pos - Len(got)
         ELSE reader.byte_pos,
  end <- reader.end

Nothing == Stream!Nothing
Sii0 == [busy |-> FALSE, cmd |-> "none", addr |-> 0, error |-> FALSE,
         command_error |-> FALSE]

NoRange == [byte_pos |-> 0, end |-> 0]

RangeInit ==
  /\ chunk_len \in {4, 8}
  /\ sii = Sii0 /\ data = <<0, 0>>
  /\ reader = NoRange
  /\ want = Nothing /\ got = <<>> /\ delivered = <<>>
  /\ rpc = "idle" /\ retry_count = 0
  /\ faults = 0 /\ asked = {} /\ clean = TRUE

-----------------------------------------------------------------------------
\* What the users of a range call.

\* EepromRange::new, if the addresses fit.
RangeFits(start_word, len_words) == 2 * start_word + 2 * len_words < U16
NewRange(start_word, len_words) ==
  reader' = [byte_pos |-> 2 * start_word,
             end |-> 2 * start_word + 2 * len_words]
SkipFits(skip) == reader.byte_pos + skip < reader.end
Skip(skip) == reader' = [reader EXCEPT !.byte_pos = @ + skip]

\* Begin to read, or to write bytes.
Operate(kind, n, bytes, pc) ==
  /\ want' = [kind |-> kind, n |-> n]
  /\ got' = bytes
  /\ rpc' = pc
  /\ delivered' = <<>>
  /\ UNCHANGED <<mem, chunk_len, sii, data, retry_count, faults, asked>>

\* The kinds: a read of at most n bytes, one byte without regard to the end,
\* a chunk at word n.  Only the first two clear errors.
Read(n)  == Operate("read", n, <<>>, "ask")
ReadByte == Operate("byte", 1, <<>>, "clear")
ReadChunk(start_word) == Operate("chunk", start_word, <<>>, "start")
Write(bytes) == Operate("write", Len(bytes), bytes, "word")

Ended == rpc \in {"done", "failed"}

-----------------------------------------------------------------------------
\* Reading.

Finish(bytes) ==
  /\ delivered' = bytes
  /\ want' = Nothing /\ got' = <<>> /\ rpc' = "done"
Failed ==
  /\ want' = Nothing /\ got' = <<>> /\ rpc' = "failed"
  /\ UNCHANGED delivered

\* Nothing is left of the range.
ReadAsk ==
  /\ rpc = "ask"
  /\ IF Stream!Count = 0 THEN Finish(<<>>)
     ELSE rpc' = "clear" /\ UNCHANGED <<want, got, delivered>>
  /\ UNCHANGED <<mem, chunk_len, sii, data, reader, retry_count, faults, asked, clean>>

\* clear_errors: command_error does not count as one.  The answer to the
\* reset is what was sent, and shows no error.
ClearErrors ==
  /\ rpc = "clear"
  /\ rpc' = IF sii.error THEN "reset" ELSE "start"
  /\ UNCHANGED <<mem, chunk_len, sii, data, reader, want, got, delivered,
                 retry_count, faults, asked, clean>>

ResetErrors ==
  /\ rpc = "reset"
  /\ \/ sii' = [sii EXCEPT !.error = FALSE, !.command_error = FALSE]
     \/ UNCHANGED sii
  /\ rpc' = "start"
  /\ UNCHANGED <<mem, chunk_len, data, reader, want, got, delivered,
                 retry_count, faults, asked, clean>>

\* Mutant: the word behind the position.
StartWordUp == IF want.kind = "chunk" THEN want.n ELSE (reader.byte_pos + 1) \div 2

StartWord == IF want.kind = "chunk" THEN want.n ELSE reader.byte_pos \div 2

\* A command for the SubDevice, ignored if it is busy.
Command(cmd) ==
  IF sii.busy THEN clean' = FALSE /\ UNCHANGED sii
  ELSE /\ sii' = [sii EXCEPT !.busy = TRUE, !.cmd = cmd, !.addr = StartWord,
                             !.command_error = FALSE]
       /\ UNCHANGED clean

StartRead ==
  /\ rpc = "start"
  /\ Command("read")
  /\ rpc' = "busy"
  /\ UNCHANGED <<mem, chunk_len, data, reader, want, got, delivered,
                 retry_count, faults, asked>>

\* wait_while_busy; nobody looks at command_error.
WaitRead ==
  /\ rpc = "busy" /\ ~sii.busy
  /\ rpc' = "fetch"
  /\ UNCHANGED <<mem, chunk_len, sii, data, reader, want, got, delivered,
                 retry_count, faults, asked, clean>>

\* The bytes of a chunk that go to the buffer: the first one is skipped at an
\* odd position, those that do not fit are left.
Usable(chunk, n) ==
  LET tail == SubSeq(chunk, 1 + (reader.byte_pos % 2), Len(chunk))
  IN SubSeq(tail, 1, IF n < Len(tail) THEN n ELSE Len(tail))

Missing == Stream!Count - Len(got)

FetchChunk ==
  /\ rpc = "fetch"
  /\ LET chunk == SubSeq(data \o [k \in 1..chunk_len |-> 0], 1, chunk_len)
         part == IF want.kind = "chunk" THEN chunk ELSE Usable(chunk, Missing)
     IN /\ reader' = IF want.kind = "chunk" THEN reader
                     ELSE [reader EXCEPT !.byte_pos = @ + Len(part)]
        /\ IF want.kind = "chunk" \/ Len(part) = Missing
           THEN Finish(got \o part)
           ELSE /\ got' = got \o part /\ rpc' = "start"
                /\ UNCHANGED <<want, delivered>>
  /\ UNCHANGED <<mem, chunk_len, sii, data, retry_count, faults, asked, clean>>

-----------------------------------------------------------------------------
\* Writing.

\* The next word, the last byte of an odd number padded with zero, unless the
\* end of the range is reached or nothing is left to write.
WriteNext ==
  /\ rpc = "word"
  /\ IF reader.byte_pos >= reader.end \/ got = <<>>
     THEN want' = Nothing /\ rpc' = "done"
     ELSE rpc' = "wait" /\ UNCHANGED want
  /\ retry_count' = 0
  /\ UNCHANGED <<mem, chunk_len, sii, data, reader, got, delivered, faults, asked,
                 clean>>

WaitIdle ==
  /\ rpc = "wait" /\ ~sii.busy
  /\ rpc' = "data"
  /\ asked' = asked \cup {StartWord}
  /\ UNCHANGED <<mem, chunk_len, sii, data, reader, want, got, delivered,
                 retry_count, faults, clean>>

WriteData ==
  /\ rpc = "data"
  /\ data' = SubSeq(got \o <<0>>, 1, 2)
  /\ rpc' = "store"
  /\ UNCHANGED <<mem, chunk_len, sii, reader, want, got, delivered,
                 retry_count, faults, asked, clean>>

StartWrite ==
  /\ rpc = "store"
  /\ Command("write")
  /\ rpc' = "stored"
  /\ UNCHANGED <<mem, chunk_len, data, reader, want, got, delivered,
                 retry_count, faults, asked>>

\* After MaxRetries repetitions the word is taken for written.
WaitWrite ==
  /\ rpc = "stored" /\ ~sii.busy
  /\ IF sii.command_error /\ retry_count < MaxRetries
     THEN /\ retry_count' = retry_count + 1
          /\ rpc' = "data"
          /\ UNCHANGED <<reader, got>>
     ELSE /\ reader' = [reader EXCEPT !.byte_pos = @ + 2]
          /\ got' = IF Len(got) > 1 THEN SubSeq(got, 3, Len(got)) ELSE <<>>
          /\ rpc' = "word"
          /\ UNCHANGED retry_count
  /\ UNCHANGED <<mem, chunk_len, sii, data, want, delivered, faults, asked,
                 clean>>

-----------------------------------------------------------------------------
\* Faults.

Fault == faults < MaxFaults /\ faults' = faults + 1

\* Mutant: a read waits for ever.
TimesOutWriting ==
  /\ "timeout" \in Faults
  /\ rpc \in {"wait", "stored"} /\ sii.busy
  /\ Failed
  /\ UNCHANGED <<mem, chunk_len, sii, data, reader, retry_count, faults, asked, clean>>

TimesOut ==
  /\ "timeout" \in Faults
  /\ rpc \in {"busy", "wait", "stored"} /\ sii.busy
  /\ Failed
  /\ UNCHANGED <<mem, chunk_len, sii, data, reader, retry_count, faults, asked, clean>>

\* A command or its answer is lost, with or without its effect.
BusFails ==
  /\ "bus" \in Faults /\ Fault
  /\ \/ /\ rpc \in {"clear", "reset", "start", "busy", "fetch", "wait", "data",
                    "store", "stored"}
        /\ UNCHANGED <<sii, clean>>
     \/ rpc = "start" /\ Command("read")
     \/ rpc = "store" /\ Command("write")
  /\ Failed
  /\ UNCHANGED <<mem, chunk_len, data, reader, retry_count, asked>>

\* Another task reads a chunk of the same EEPROM.
Intrude ==
  /\ "other" \in Faults /\ Fault
  /\ rpc \notin {"idle", "done", "failed"}
  /\ ~sii.busy
  /\ sii' = [sii EXCEPT !.busy = TRUE, !.cmd = "read", !.addr = 0]
  /\ clean' = FALSE
  /\ UNCHANGED <<mem, chunk_len, data, reader, want, got, delivered, rpc,
                 retry_count, asked>>

-----------------------------------------------------------------------------
\* The SubDevice.

DevRead ==
  /\ sii.busy /\ sii.cmd = "read"
  /\ sii' = [sii EXCEPT !.busy = FALSE]
  /\ data' = Stream!BytesAt(mem, 2 * sii.addr, chunk_len)
  /\ UNCHANGED <<mem, chunk_len, reader, want, got, delivered, rpc,
                 retry_count, faults, asked, clean>>

DevStore ==
  /\ sii.busy /\ sii.cmd = "write"
  /\ sii' = [sii EXCEPT !.busy = FALSE]
  /\ mem' = [a \in DOMAIN mem |->
               IF a \div 2 = sii.addr THEN data[1 + (a % 2)] ELSE mem[a]]
  /\ UNCHANGED <<chunk_len, data, reader, want, got, delivered, rpc,
                 retry_count, faults, asked, clean>>

\* It refuses a command: command_error, or an error that has to be reset.
DevRefuse ==
  /\ "error" \in Faults /\ Fault /\ sii.busy
  /\ \E e \in BOOLEAN :
       sii' = [sii EXCEPT !.busy = FALSE, !.error = @ \/ e, !.command_error = TRUE]
  /\ clean' = FALSE
  /\ UNCHANGED <<mem, chunk_len, data, reader, want, got, delivered, rpc,
                 retry_count, asked>>

DevStep == DevRead \/ DevStore \/ DevRefuse

TaskStep ==
  \/ ReadAsk \/ ClearErrors \/ ResetErrors \/ StartRead \/ WaitRead
  \/ FetchChunk \/ WriteNext \/ WaitIdle \/ WriteData \/ StartWrite
  \/ WaitWrite \/ TimesOut

RangeNext == TaskStep \/ BusFails \/ Intrude \/ DevStep

=============================================================================
