------------------------------ MODULE WireCodec ------------------------------
(***************************************************************************)
(* A user of the wire traits: it derives them for a type, packs values     *)
(* into a buffer that holds older data and reads values out of a buffer    *)
(* that may come from the network.                                         *)
(***************************************************************************)
EXTENDS WireTypes

CONSTANTS Items,     \* the types: [ty, write], what is derived for each
          Patterns   \* pairs of bytes a buffer may be filled with before

VARIABLES item,   \* the type under test, <<>> before one is derived
          buf,    \* the buffer
          value,  \* the value packed last, in a sequence of length one
          out     \* the result of the last unpack, in a sequence of length one

vars == <<item, buf, value, out>>

-----------------------------------------------------------------------------
(* The fields of a type that has fields: where they are in it.             *)

Parts(t) ==
  CASE t.kind = "struct" ->
         [i \in DOMAIN t.fields |-> [ty |-> t.fields[i].ty, start |-> t.fields[i].bit_start,
                                     bits |-> IF t.fields[i].skip THEN 0 ELSE t.fields[i].bits]]
    [] t.kind = "tuple" ->
         [i \in DOMAIN t.tys |-> [ty |-> t.tys[i], start |-> 8 * Before(t.tys, i - 1),
                                  bits |-> 8 * t.tys[i].len]]
    [] t.kind = "array" ->
         [i \in 1..t.n |-> [ty |-> t.of, start |-> 8 * (i - 1) * t.of.len, bits |-> 8 * t.of.len]]
    [] t.kind = "PduFlags" ->
         <<[ty |-> u16, start |-> 0, bits |-> 11], [ty |-> bool, start |-> 14, bits |-> 1],
           [ty |-> bool, start |-> 15, bits |-> 1]>>
    [] t.kind = "EthercatFrameHeader" ->
         <<[ty |-> u16, start |-> 0, bits |-> 11], [ty |-> t.protocol, start |-> 12, bits |-> 4]>>
    [] t.kind = "PortStatuses" ->
         [i \in 1..4 |-> [ty |-> t.status, start |-> 4 * (i - 1), bits |-> 4]]

Composite(t) == t.kind \notin {"u8", "int", "f32", "bytes", "bool", "flags", "enum"}

\* The values that are packed: every field varied on its own between
\* neighbours that are all empty or all different from that.  The length of
\* a frame header is at most 2047, which EthercatFrameHeader::pdu sees to.
RECURSIVE Values(_)
Values(t) ==
  CASE t.kind = "bool" -> {{}, {0}}
    [] t.kind = "enum" ->
         LET plain == {[k |-> k, raw |-> {}] : k \in DOMAIN t.variants \ {t.meta.catch_all}}
             other == IF t.meta.catch_all = 0 THEN {}
                      ELSE {[k |-> t.meta.catch_all, raw |-> raw] : raw \in {{0, 2}, 0..(8 * t.len - 1)}}
         IN plain \cup other
    [] Composite(t) ->
         LET parts == Parts(t)
             at(i) == IF t.kind = "EthercatFrameHeader" /\ i = 1 THEN {{}, {0, 9}, 0..10}
                      ELSE Values(parts[i].ty)
             low == [i \in DOMAIN parts |-> CHOOSE v \in at(i) : TRUE]
             high == [i \in DOMAIN parts |-> CHOOSE v \in at(i) : at(i) = {v} \/ v # low[i]]
         IN UNION {{[base EXCEPT ![i] = v] : base \in {low, high}, v \in at(i)} : i \in DOMAIN parts}
    [] OTHER -> {{}, 0..(8 * t.len - 1), {0}, {8 * t.len - 1}, {b \in 0..(8 * t.len - 1) : b % 2 = 1}}
-----------------------------------------------------------------------------
CodecInit == item = <<>> /\ buf = <<>> /\ value = <<>> /\ out = <<>>

\* The derive macro accepts the declaration, or refuses to compile it
Derive(i) == /\ i.ty.kind = "struct" => i.ty.ok
             /\ item' = <<i>>
             /\ UNCHANGED <<buf, value, out>>

Drop == item # <<>> /\ item' = <<>> /\ buf' = <<>> /\ value' = <<>> /\ out' = <<>>

\* A buffer one byte short, exact or two bytes longer, with other data in it
Receive(pair, more) ==
  /\ item # <<>> /\ buf = <<>>
  /\ buf' = [i \in 1..(item[1].ty.len + more - 1) |-> pair[2 - (i % 2)]]
  /\ UNCHANGED <<item, value, out>>

\* One value per buffer; a layout whose generated code panics is not used
Pack(v) == /\ item # <<>> /\ buf # <<>> /\ value = <<>>
           /\ item[1].write
           /\ LET r == pack_to_slice(item[1].ty, v, buf)
              IN r.res # "panic" /\ buf' = r.buf
           /\ value' = <<v>>
           /\ out' = <<>>
           /\ UNCHANGED item

Unpack == /\ item # <<>> /\ buf # <<>>
          /\ out' = <<unpack_from_slice(item[1].ty, buf)>>
          /\ UNCHANGED <<item, buf, value>>

CodecNext == \/ item = <<>> /\ \E i \in Items : Derive(i)
             \/ Drop
             \/ \E pair \in Patterns, more \in {0, 1, 3} : Receive(pair, more)
             \/ /\ item # <<>>
                /\ \E v \in Values(item[1].ty) : Pack(v)
             \/ Unpack

-----------------------------------------------------------------------------
(* The bits a value stands for, from the declaration alone: every field at *)
(* its place, cut to its width, an enum's variant by its number.           *)

RECURSIVE Image(_, _)
Image(t, v) ==
  CASE t.kind = "enum" ->
         IF t.variants[v.k].catch_all THEN v.raw ELSE Bits(t.variants[v.k].disc[1])
    [] Composite(t) ->
         LET parts == Parts(t)
         IN UNION {Shl(Image(parts[i].ty, v[i]) \cap (0..(parts[i].bits - 1)), parts[i].start) :
                     i \in {j \in DOMAIN parts : parts[j].bits > 0}}
    [] OTHER -> v

\* Does an enum list this number?
Lists(variant, bits) == \/ variant.disc # <<>> /\ Bits(variant.disc[1]) = bits
                        \/ \E i \in DOMAIN variant.alts : Bits(variant.alts[i]) = bits
Listed(t, bits) == \E k \in DOMAIN t.variants : Lists(t.variants[k], bits)

RECURSIVE Readable(_, _)
Readable(t, all) ==
  LET bits == all \cap (0..(8 * t.len - 1))
  IN CASE t.kind = "flags" -> bits \subseteq t.mask
       [] t.kind = "enum" ->
            \/ Listed(t, bits)
            \/ \E k \in DOMAIN t.variants : t.variants[k].catch_all \/ t.variants[k].default
       [] Composite(t) ->
            LET parts == Parts(t)
            IN \A i \in {j \in DOMAIN parts : parts[j].bits > 0} :
                 Readable(parts[i].ty, Shr(bits, parts[i].start) \cap (0..(parts[i].bits - 1)))
       [] OTHER -> TRUE

RECURSIVE Reading(_, _, _)
\* v is a reading of these bits
Reading(t, v, all) ==
  LET bits == all \cap (0..(8 * t.len - 1))
  IN CASE t.kind = "bool" -> v = IF all = {} THEN {} ELSE {0}
       [] t.kind = "enum" ->
            IF Listed(t, bits) THEN Lists(t.variants[v.k], bits)
            ELSE IF \E k \in DOMAIN t.variants : t.variants[k].catch_all
            THEN t.variants[v.k].catch_all /\ v.raw = bits
            ELSE t.variants[v.k].default
       [] Composite(t) ->
            LET parts == Parts(t)
            IN \A i \in {j \in DOMAIN parts : parts[j].bits > 0} :
                 Reading(parts[i].ty, v[i], Shr(bits, parts[i].start) \cap (0..(parts[i].bits - 1)))
       [] OTHER -> v = bits

\* pack_to_slice puts every field of a value exactly at the bits the struct
\* declares, clears the bits between the fields, whatever the buffer held,
\* and touches nothing behind the packed length; a buffer that is too short
\* is left as it was.
PacksImage ==
  [][value' # <<>> =>
       LET t == item[1].ty
       IN IF Len(buf) < t.len THEN buf' = buf
          ELSE /\ from_le_bytes(SubSeq(buf', 1, t.len)) = Image(t, value'[1])
               /\ SubSeq(buf', t.len + 1, Len(buf')) = SubSeq(buf, t.len + 1, Len(buf))]_vars

\* unpack_from_slice reads every field from the bits the struct declares; it
\* fails on a buffer that is too short and, for the enums and flags that
\* leave numbers out, on exactly the numbers left out.  Only for layouts that
\* give a type at least its own length.
ReadsImage ==
  out # <<>> /\ ~Panics(item[1].ty) =>
    LET t == item[1].ty
        bits == from_le_bytes(SubSeq(buf, 1, t.len))
    IN IF Len(buf) < t.len THEN out[1].res = "short"
       ELSE IF Readable(t, bits) THEN out[1].res = "ok" /\ Reading(t, out[1].v, bits)
       ELSE out[1].res = "invalid"
=============================================================================
