------------------------------- MODULE MCWire -------------------------------
(***************************************************************************)
(* The types of the crate, a tuple and an array, and every struct of up to *)
(* three of a set of fields with a declared width of one, two or eight     *)
(* bytes; the macro refuses most of them.  And frames of up to three PDUs, *)
(* which three PDUs of two bytes fill to the last byte, in a slot of zeros *)
(* and in one that an earlier frame has filled with ones.                  *)
(***************************************************************************)
EXTENDS WireCodec, Frames

Two == U8Enum(<<0, 2>>)
Word == EnumType(2, <<Default(1), [Variant(2) EXCEPT !.alts = <<515>>]>>)
Nibble == StructType(4, <<Field(bool, 1), Field(Two, 2), Field(bool, 1)>>)

Fields == {Field(u8, 3), Gap(2, u8, 3, 3), Field(u8, 0), Field(u8, 12), Field(bool, 1),
           Gap(4, bool, 3, 0), Field(bool, 0), Field(u16, 0), Field(u16, 8), Field(f32, 0),
           Gap(0, Two, 2, 3), Field(Word, 16), Field(Nibble, 4), SkipField(u16)}
Declared == UNION {[1..n -> Fields] : n \in 1..3}

MCItems == {[ty |-> t, write |-> TRUE] : t \in ReadWriteTypes \cup {Tuple(<<u16, u8, Two>>)}}
           \cup {[ty |-> t, write |-> FALSE] : t \in ReadTypes \cup {Array(u16, 3)}}
           \cup {[ty |-> StructType(w, f), write |-> TRUE] : w \in {8, 16, 64}, f \in Declared}
MCPatterns == {<<{}, {}>>, <<0..7, 0..7>>, <<{0, 1}, {}>>, <<{0, 1}, {1}>>}
-----------------------------------------------------------------------------
MCRequests == {CommonRead(aprd(1, 304), 2), CommonRead(frmw(4096, 2320), 0),
               CommonWrite(bwr(768), <<>>, <<3>>),
               CommonWrite(fpwr(4097, 288), <<{1, 7}, {0}>>, <<>>),
               CommonWrite(fpwr(4098, 289), <<{2}, 0..7>>, <<1>>),
               [call |-> "push_pdu_slice_rest", command |-> lrw(65536),
                data |-> <<{}, 0..7, {3}, {4}, {5}>>, len_override |-> <<>>]}
MCSlots == {[bytes |-> [i \in 1..DataLen |-> {}], pdu_idx |-> 0],
            [bytes |-> [i \in 1..DataLen |-> 0..7], pdu_idx |-> 254]}
MCExpected == {<<>>, <<1>>, <<3>>}

Init == CodecInit /\ FrameInit
\* A program at one of the two
Next == \/ phase = "idle" /\ CodecNext /\ UNCHANGED frameVars
        \/ item = <<>> /\ FrameNext /\ UNCHANGED vars
Spec == Init /\ [][Next]_<<vars, frameVars>>
=============================================================================
