-------------------------------- MODULE Wire --------------------------------
(***************************************************************************)
(* The wire format: what `#[derive(EtherCrabWireReadWrite)]` makes of a    *)
(* struct or an enum (ethercrab-wire-derive) and what the built-in         *)
(* implementations of the wire traits do (ethercrab-wire).                 *)
(*                                                                         *)
(* A byte, and a number of any width, is the set of the bits that are one  *)
(* in it: a shift adds to the positions, a mask is an intersection, and    *)
(* no 64 bit number overflows.  A buffer is a sequence of bytes.           *)
(*                                                                         *)
(* A type is a record with its `kind` and its `len` in bytes.  The values  *)
(* of the kinds are                                                        *)
(*   u8, int, f32, bytes, flags   the set of the value's bits;             *)
(*   bool                         {} or {0}, the bits of `value as u8`;    *)
(*   enum                         [k, raw], the k-th variant, and the      *)
(*                                number a catch-all variant carries;      *)
(*   struct, tuple, array         the sequence of the fields' values.      *)
(***************************************************************************)
EXTENDS Naturals, Sequences, SequencesExt

\* The bits of the number n < 2^31
Bits(n) == {b \in 0..30 : (n \div 2^b) % 2 = 1}

Shl(bits, n) == {b + n : b \in bits}
Shr(bits, n) == {b - n : b \in {c \in bits : c >= n}}

\* 2u16.pow(len) - 1 << start, of the bits of a field in its byte
Mask(start, len) == start..(start + len - 1)

to_le_bytes(bits, len) == [i \in 1..len |-> Shr(bits, 8 * (i - 1)) \cap (0..7)]
from_le_bytes(bytes) == UNION {Shl(bytes[i], 8 * (i - 1)) : i \in DOMAIN bytes}

-----------------------------------------------------------------------------
(* Enums.  A variant is declared with its discriminant (<<>> when it has   *)
(* none), its alternatives, and its catch_all and default attributes.      *)

\* One turn of the loop over the variants: the next implicit discriminant
\* follows the last discriminant or alternative, and the first one is 1.
ParseVariant(p, v) ==
  LET disc == IF v.disc = <<>> THEN p.accum + 1 ELSE v.disc[1]
      arms == [i \in 1..Len(v.alts) + 1 |->
                 [k |-> p.k, disc |-> IF i = 1 THEN disc ELSE v.alts[i - 1],
                  catch_all |-> v.catch_all]]
  IN [k |-> p.k + 1,
      accum |-> IF v.alts = <<>> THEN disc ELSE Last(v.alts),
      arms |-> p.arms \o arms,
      catch_all |-> IF v.catch_all THEN p.k ELSE p.catch_all,
      default |-> IF v.default THEN p.k ELSE p.default,
      ok |-> /\ p.ok
             /\ v.catch_all => v.alts = <<>> /\ p.catch_all = 0
             /\ v.default => p.default = 0]

parse_enum(variants) ==
  FoldLeft(ParseVariant,
           [k |-> 1, accum |-> 0, arms |-> <<>>, catch_all |-> 0, default |-> 0, ok |-> TRUE],
           variants)

\* The compiler's own numbering, which `*self as repr` yields (external)
RustDiscriminant(variants, k) ==
  LET d[i \in 1..k] == IF variants[i].disc # <<>> THEN variants[i].disc[1]
                       ELSE IF i = 1 THEN 0 ELSE d[i - 1] + 1
  IN d[k]

EnumType(len, variants) ==
  [kind |-> "enum", len |-> len, variants |-> variants, meta |-> parse_enum(variants)]

\* The first match arm of a variant, with a catch-all; else the cast
generate_enum_write(t, v) ==
  IF t.meta.catch_all = 0 THEN Bits(RustDiscriminant(t.variants, v.k))
  ELSE IF v.k = t.meta.catch_all THEN v.raw
  ELSE Bits(t.meta.arms[SelectInSeq(t.meta.arms, LAMBDA a : a.k = v.k)].disc)

Ok(v) == [res |-> "ok", v |-> v]
Failed(res) == [res |-> res, v |-> {}]

\* Mutant of generate_enum_read: the default is preferred to the alternatives
DefaultFirstRead(t, raw) ==
  IF t.meta.default # 0 /\ ~\E k \in DOMAIN t.variants : t.variants[k].disc # <<>>
                                                       /\ Bits(t.variants[k].disc[1]) = raw
  THEN Ok([k |-> t.meta.default, raw |-> {}])
  ELSE LET arm == SelectInSeq(t.meta.arms, LAMBDA a : ~a.catch_all /\ Bits(a.disc) = raw)
       IN IF arm # 0 THEN Ok([k |-> t.meta.arms[arm].k, raw |-> {}])
          ELSE IF t.meta.catch_all # 0 THEN Ok([k |-> t.meta.catch_all, raw |-> raw])
          ELSE Failed("invalid")

\* Match arms in order, then the catch-all, then the default, else an error
generate_enum_read(t, raw) ==
  LET arm == SelectInSeq(t.meta.arms, LAMBDA a : ~a.catch_all /\ Bits(a.disc) = raw)
  IN IF arm # 0 THEN Ok([k |-> t.meta.arms[arm].k, raw |-> {}])
     ELSE IF t.meta.catch_all # 0 THEN Ok([k |-> t.meta.catch_all, raw |-> raw])
     ELSE IF t.meta.default # 0 THEN Ok([k |-> t.meta.default, raw |-> {}])
     ELSE Failed("invalid")

-----------------------------------------------------------------------------
(* Structs.  A field is declared with its type, its width in bits (0 for   *)
(* none), the bits skipped before and after it, and the skip attribute.    *)

DefaultWidth(t) == CASE t.kind \in {"u8", "int"} -> 8 * t.len
                     [] t.kind = "f32" -> 64
                     [] OTHER -> 0

\* One turn of the loop over the fields
ParseField(p, f) ==
  LET width == IF f.bits # 0 THEN f.bits ELSE DefaultWidth(f.ty)
      start == p.total + IF f.skip THEN 0 ELSE f.pre
      meta == [ty |-> f.ty, skip |-> f.skip, bit_start |-> start, bits |-> width,
               byte_start |-> start \div 8, byte_end |-> (start + width + 7) \div 8,
               bit_offset |-> start % 8]
      multibyte == meta.byte_end - meta.byte_start > 1
      valid == /\ width # 0
               /\ ~(multibyte /\ (meta.bit_offset > 0 \/ width % 8 > 0))
               /\ ~(multibyte /\ width < 8)
  IN [total |-> IF f.skip THEN p.total ELSE start + width + f.post,
      fields |-> Append(p.fields, meta),
      ok |-> p.ok /\ (f.skip \/ valid)]

\* A u8 or bool field of more than a byte has a mask no u8 holds: the
\* generated code does not compile
parse_struct(width, fields) ==
  LET p == FoldLeft(ParseField, [total |-> 0, fields |-> <<>>, ok |-> TRUE], fields)
  IN [p EXCEPT !.ok = /\ @
                      /\ p.total = width
                      /\ \A i \in DOMAIN p.fields :
                           LET m == p.fields[i]
                           IN ~m.skip /\ m.ty.kind \in {"u8", "bool"} => m.bits <= 8]

StructType(width, fields) ==
  LET p == parse_struct(width, fields)
  IN [kind |-> "struct", len |-> (width + 7) \div 8, fields |-> p.fields, ok |-> p.ok]

-----------------------------------------------------------------------------
(* Packing.  The slice given to a field's type may be shorter than the     *)
(* type: then pack_to_slice_unchecked panics.                              *)

Shortcut(m) == m.ty.kind \in {"u8", "bool"}

RECURSIVE Panics(_)
Panics(t) ==
  /\ t.kind = "struct"
  /\ \E i \in DOMAIN t.fields :
       LET m == t.fields[i]
       IN ~m.skip /\ ~Shortcut(m) /\ (m.byte_end - m.byte_start < m.ty.len \/ Panics(m.ty))

Zeros(n) == [i \in 1..n |-> {}]

\* Overwrite the bytes of buf from the byte `at` (counted from 0)
Splice(buf, at, bytes) ==
  [i \in DOMAIN buf |-> IF i \in at + 1..at + Len(bytes) THEN bytes[i - at] ELSE buf[i]]

\* The sum of the lengths of the first n types
Before(tys, n) == FoldLeft(LAMBDA s, t : s + t.len, 0, SubSeq(tys, 1, n))

RECURSIVE pack_to_slice_unchecked(_, _)

\* Mutant of PackField: a value wider than its field is not masked
UnmaskedPackField(buf, m, v) ==
  IF m.skip THEN buf
  ELSE LET byte == IF Shortcut(m) THEN v ELSE pack_to_slice_unchecked(m.ty, v)[1]
           merge == buf[m.byte_start + 1] \cup (Shl(byte, m.bit_offset) \cap (0..7))
       IN IF m.byte_end - m.byte_start = 1 THEN Splice(buf, m.byte_start, <<merge>>)
          ELSE Splice(buf, m.byte_start, pack_to_slice_unchecked(m.ty, v))

\* One field merged into the buffer of its struct
PackField(buf, m, v) ==
  IF m.skip THEN buf
  ELSE LET merge(byte) == Splice(buf, m.byte_start,
             <<buf[m.byte_start + 1] \cup (Shl(byte, m.bit_offset) \cap Mask(m.bit_offset, m.bits))>>)
       IN IF Shortcut(m) THEN merge(v)
          ELSE IF m.byte_end - m.byte_start = 1 THEN merge(pack_to_slice_unchecked(m.ty, v)[1])
          ELSE Splice(buf, m.byte_start, pack_to_slice_unchecked(m.ty, v))

PackStruct(t, v) ==
  FoldLeft(LAMBDA buf, i : PackField(buf, t.fields[i], v[i]), Zeros(t.len),
           [i \in DOMAIN t.fields |-> i])

\* The elements one after the other
PackTuple(t, v) == FlattenSeq([i \in DOMAIN t.tys |-> pack_to_slice_unchecked(t.tys[i], v[i])])

PackPduFlags(v) ==
  to_le_bytes((v[1] \cap (0..10)) \cup Shl(v[2], 14) \cup Shl(v[3], 15), 2)

PackFrameHeader(t, v) == to_le_bytes(v[1] \cup Shl(generate_enum_write(t.protocol, v[2]), 12), 2)

pack_to_slice_unchecked(t, v) ==
  CASE t.kind \in {"u8", "int", "f32", "bytes"} -> to_le_bytes(v, t.len)
    [] t.kind = "bool" -> <<IF v = {} THEN {} ELSE 0..7>>
    [] t.kind = "enum" -> to_le_bytes(generate_enum_write(t, v), t.len)
    [] t.kind = "struct" -> PackStruct(t, v)
    [] t.kind = "tuple" -> PackTuple(t, v)
    [] t.kind = "PduFlags" -> PackPduFlags(v)
    [] t.kind = "EthercatFrameHeader" -> PackFrameHeader(t, v)

\* Into the beginning of a buffer, if it is long enough
pack_to_slice(t, v, buf) ==
  IF Len(buf) < t.len THEN [res |-> "short", buf |-> buf]
  ELSE IF Panics(t) THEN [res |-> "panic", buf |-> buf]
  ELSE [res |-> "ok", buf |-> Splice(buf, 0, pack_to_slice_unchecked(t, v))]

-----------------------------------------------------------------------------
(* Unpacking                                                               *)

RECURSIVE unpack_from_slice(_, _)

UnpackField(buf, m) ==
  IF m.skip THEN Ok({})
  ELSE IF m.bits <= 8
  THEN LET masked == Shr(buf[m.byte_start + 1] \cap Mask(m.bit_offset, m.bits), m.bit_offset)
       IN CASE m.ty.kind = "bool" -> Ok(IF masked = {} THEN {} ELSE {0})
            [] m.ty.kind = "u8" -> Ok(masked)
            [] OTHER -> unpack_from_slice(m.ty, <<masked>>)
  ELSE unpack_from_slice(m.ty, SubSeq(buf, m.byte_start + 1, m.byte_end))

\* The values of a sequence of results, or the first error (`?`)
Collect(results) ==
  LET bad == SelectInSeq(results, LAMBDA r : r.res # "ok")
  IN IF bad = 0 THEN Ok([i \in DOMAIN results |-> results[i].v]) ELSE Failed(results[bad].res)

UnpackInt(t, buf) ==
  IF Len(buf) < t.len THEN Failed("short") ELSE Ok(from_le_bytes(SubSeq(buf, 1, t.len)))

UnpackStruct(t, buf) ==
  IF Len(buf) < t.len THEN Failed("short")
  ELSE Collect([i \in DOMAIN t.fields |-> UnpackField(buf, t.fields[i])])

\* Each element reads what the ones before it left
UnpackTuple(t, buf) ==
  Collect([i \in DOMAIN t.tys |->
             unpack_from_slice(t.tys[i], SubSeq(buf, Before(t.tys, i - 1) + 1, Len(buf)))])

UnpackArray(t, buf) ==
  IF Len(buf) < t.len THEN Failed("short")
  ELSE Collect([i \in 1..t.n |->
                  unpack_from_slice(t.of, SubSeq(buf, (i - 1) * t.of.len + 1, i * t.of.len))])

UnpackPduFlags(buf) ==
  IF Len(buf) < 2 THEN Failed("short")
  ELSE LET src == from_le_bytes(SubSeq(buf, 1, 2))
       IN Ok(<<src \cap (0..10), Shr(src \cap {14}, 14), Shr(src \cap {15}, 15)>>)

UnpackFrameHeader(t, buf) ==
  IF Len(buf) < 2 THEN Failed("short")
  ELSE LET raw == from_le_bytes(SubSeq(buf, 1, 2))
       IN Collect(<<Ok(raw \cap (0..10)), generate_enum_read(t.protocol, Shr(raw, 12))>>)

\* Four nibbles of two bytes, each PortStatus::from, which never fails
UnpackPortStatuses(t, buf) ==
  IF Len(buf) < 2 THEN Failed("short")
  ELSE Collect([i \in 1..4 |->
         generate_enum_read(t.status, Shr(from_le_bytes(SubSeq(buf, 1, 2)), 4 * (i - 1)) \cap (0..3))])

unpack_from_slice(t, buf) ==
  CASE t.kind \in {"u8", "int", "f32", "bytes"} -> UnpackInt(t, buf)
    [] t.kind = "bool" ->
         IF buf = <<>> THEN Failed("short") ELSE Ok(IF buf[1] = {} THEN {} ELSE {0})
    [] t.kind = "flags" ->
         LET raw == UnpackInt(t, buf)
         IN IF raw.res = "ok" /\ ~(raw.v \subseteq t.mask) THEN Failed("invalid") ELSE raw
    [] t.kind = "enum" ->
         IF Len(buf) < t.len THEN Failed("short")
         ELSE generate_enum_read(t, from_le_bytes(SubSeq(buf, 1, t.len)))
    [] t.kind = "struct" -> UnpackStruct(t, buf)
    [] t.kind = "tuple" -> UnpackTuple(t, buf)
    [] t.kind = "array" -> UnpackArray(t, buf)
    [] t.kind = "PduFlags" -> UnpackPduFlags(buf)
    [] t.kind = "EthercatFrameHeader" -> UnpackFrameHeader(t, buf)
    [] t.kind = "PortStatuses" -> UnpackPortStatuses(t, buf)
=============================================================================
