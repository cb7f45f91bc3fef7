------------------------- MODULE MCSubDeviceEeprom -------------------------
EXTENDS SubDeviceEeprom, SequencesExt

\* A checksum that tells headers of a few bytes apart.
MCCrc(bytes) == FoldLeft(LAMBDA sum, b : (3 * sum + b) % 256, 255, bytes)

\* A category: its type, the number of its words, its bytes up to a word.
Padded(bytes) == IF Len(bytes) % 2 = 1 THEN Append(bytes, 0) ELSE bytes
CategoryBytes(type, bytes) ==
  <<type % 256, type \div 256, Len(Padded(bytes)) \div 2, 0>> \o Padded(bytes)

StringBytes(strings) ==
  <<Len(strings)>> \o FlattenSeq([k \in 1..Len(strings) |->
                                   <<Len(strings[k])>> \o strings[k]])
EntryBytes(bits) == <<0, 0, 0, 0, 0, bits, 0, 0>>
PdoBytes(p) ==
  <<0, 26, Len(p.entries), p.sync_manager, 0, 0, 0, 0>>
    \o FlattenSeq([k \in 1..Len(p.entries) |-> EntryBytes(p.entries[k])])

HeaderBytes == <<1, 2, 3, 4, 5, 6, 7, 8, 0, 0, 9, 9, 9, 9>>

AsMem(bytes) == [a \in 0..(Len(bytes) - 1) |-> bytes[a + 1]]

\* An EEPROM: header, a category to pass over, the described ones in an order,
\* the end marker and a word behind it.
Describe(d) ==
  [mem |-> AsMem(HeaderBytes \o <<MCCrc(HeaderBytes), 0>>
             \o CategoryBytes(20, <<1, 2, 3>>)
             \o CategoryBytes(General, d.general)
             \o CategoryBytes(Strings, StringBytes(d.strings))
             \o CategoryBytes(Fmmu, d.fmmus)
             \o CategoryBytes(SyncManager, FlattenSeq(d.sync_managers))
             \o CategoryBytes(FmmuExtended, FlattenSeq(d.mappings))
             \o CategoryBytes(TxPdo, FlattenSeq([k \in 1..Len(d.pdos) |->
                                                 PdoBytes(d.pdos[k])]))
             \o (IF d.write_pdos = <<>> THEN <<>>
                 ELSE CategoryBytes(RxPdo, FlattenSeq([k \in 1..Len(d.write_pdos) |->
                                                       PdoBytes(d.write_pdos[k])])))
             \o <<255, 255, 0, 0, 0, 0>>),
   desc |-> d]

Sm(k) == <<0, 16, 128, 0, 38, 0, 1, k>>
GeneralBytes(order, name) ==
  <<0, 0, order, name, 0, 0, 0, 0, 0, 0, 0, 0, 0, 0, 0, 0, 0, 0>>

Full == [strings |-> << <<65, 66, 67>>, <<68>>, <<69, 181>> >>,
         general |-> GeneralBytes(2, 3), fmmus |-> <<1, 2>>,
         sync_managers |-> <<Sm(3)>>,
         mappings |-> << <<0, 0, 2>>, <<0, 1, 3>> >>,
         pdos |-> <<[sync_manager |-> 2, entries |-> <<1, 16>>]>>,
         write_pdos |-> <<[sync_manager |-> 3, entries |-> <<>>]>>]
\* What does not decode: flags of the general category, a FMMU, the sync manager.
Odd == [strings |-> << <<>>, <<65, 66>> >>,
        general |-> [GeneralBytes(1, 2) EXCEPT ![12] = 32], fmmus |-> <<1, 4>>,
        sync_managers |-> <<[Sm(3) EXCEPT ![7] = 16]>>,
        mappings |-> << <<0, 0, 2>> >>, pdos |-> <<>>, write_pdos |-> <<>>]
Blank == [strings |-> <<>>, general |-> <<>>, fmmus |-> <<>>, sync_managers |-> <<>>,
          mappings |-> <<>>, pdos |-> <<>>, write_pdos |-> <<>>]

\* Nothing behind the header, zeros, a category longer than the address space.
MCImages ==
  LET Begun == HeaderBytes \o <<MCCrc(HeaderBytes), 0>> IN
  {Describe(Full), Describe(Odd), [mem |-> AsMem(Begun), desc |-> Blank]}
  \cup {[mem |-> AsMem(Begun \o b), desc |-> <<>>] :
          b \in {[k \in 1..64 |-> 0], <<30, 0, 255, 255>>}}

FirstCalls ==
  {[op |-> "read", arg |-> [word |-> 4, len |-> 11, exact |-> e]] : e \in BOOLEAN}
  \cup {[op |-> "read", arg |-> [word |-> 40000, len |-> 2, exact |-> TRUE]]}
  \cup {[op |-> "write", arg |-> [word |-> 10, bytes |-> b]] :
           b \in {<<1, 2, 3, 0>>, <<1, 2, 7>>}}
  \cup {[op |-> "set_station_alias", arg |-> <<7, 1>>]}
  \cup {[op |-> "find_string", arg |-> k] : k \in {0, 2, 4}}
  \cup {[op |-> o, arg |-> 0] :
           o \in {"general", "device_name", "device_description", "fmmus",
                  "sync_managers", "fmmu_mappings", "pdos", "write_pdos"}}
SecondCalls == {[op |-> "set_station_alias", arg |-> <<8, 1>>]}
MCCalls == <<FirstCalls, SecondCalls>>

ASSUME ChecksumAssumption == HeadersChecked /\ WritesSpareHeader

\* Where the parts of a description are.
Ends(from, sizes) ==
  LET at[k \in 0..Len(sizes)] == IF k = 0 THEN from ELSE at[k - 1] + sizes[k] IN at
StoredAt(d, u) ==
  LET words[k \in 1..10] ==
        IF k = 1 THEN FirstCategory ELSE words[k - 1] + 2 + WordAt(u, words[k - 1] + 1)
      n == CHOOSE k \in 1..10 : WordAt(u, words[k]) = End
                                /\ \A j \in 1..(k - 1) : WordAt(u, words[j]) # End
      empty == Ends(0, [k \in 1..n |-> IF WordAt(u, words[k] + 1) = 0 THEN 1 ELSE 0])
      loc == [t \in Types |-> IF \E k \in 1..(n - 1) : WordAt(u, words[k]) = t
                              THEN CHOOSE k \in 1..(n - 1) : WordAt(u, words[k]) = t ELSE 0]
      from(t) == IF loc[t] = 0 THEN 0 ELSE 2 * (words[loc[t]] + 2)
      pdoEnds(t, pdos) == Ends(from(t), [k \in 1..Len(pdos) |-> 8 + 8 * Len(pdos[k].entries)])
  IN [n |-> n, w |-> [k \in 1..n |-> words[k]], e |-> [k \in 1..n |-> empty[k - 1]],
      loc |-> loc,
      str |-> Ends(from(Strings) + 1, [k \in 1..Len(d.strings) |-> 1 + Len(d.strings[k])]),
      at |-> [sync_managers |-> Ends(from(SyncManager), [k \in 1..Len(d.sync_managers) |-> 8]),
              fmmu_mappings |-> Ends(from(FmmuExtended), [k \in 1..Len(d.mappings) |-> 3]),
              pdos |-> pdoEnds(TxPdo, d.pdos), write_pdos |-> pdoEnds(RxPdo, d.write_pdos)]]

ASSUME DescriptionAssumption ==
  /\ FirstCategory > ChecksumWord /\ WritesComeLast
  /\ \A i \in Images : i.desc # <<>> =>
       LET u == Categories(i.mem) IN IsStored(StoredAt(i.desc, u), u, i.desc)
=============================================================================
