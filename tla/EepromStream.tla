---------------------------- MODULE EepromStream ----------------------------
(***************************************************************************)
(* What a range of the EEPROM promises its user: a read delivers the bytes *)
(* of the memory that follow the last ones, as many as were asked for or   *)
(* are left in the range, and moves on behind them; it may fail somewhere  *)
(* on the way.  A single byte is delivered even behind the end.  A write   *)
(* changes words of the range, one after the other, and nothing else.      *)
(*                                                                         *)
(* If the interface of the SubDevice reported an error or was used by      *)
(* somebody else (clean is FALSE) only the number of bytes is promised.    *)
(***************************************************************************)
EXTENDS Integers, Sequences

VARIABLES
  mem,         \* the memory: [byte address -> byte]
  pos, end,    \* the range, in bytes
  want,        \* what was asked for: [kind, n]
  delivered,   \* bytes of the last read
  asked,       \* words that were to be written
  clean

vars == <<mem, pos, end, want, delivered, asked, clean>>

\* Behind the memory there are ones.
ByteAt(m, a) == IF a \in DOMAIN m THEN m[a] ELSE 255
BytesAt(m, a, n) == [k \in 1..n |-> ByteAt(m, a + k - 1)]

Nothing == [kind |-> "none", n |-> 0]

Left == IF pos < end THEN end - pos ELSE 0
Count == CASE want.kind = "read" -> IF want.n < Left THEN want.n ELSE Left
           [] want.kind = "byte" -> 1
           [] OTHER -> 0

Init ==
  /\ pos = 0 /\ end = 0 /\ want = Nothing /\ delivered = <<>>
  /\ asked = {} /\ clean \in BOOLEAN

\* A new range or bytes skipped, and something asked of it.
Begin ==
  /\ want = Nothing
  /\ pos' \in Nat /\ end' \in Nat
  /\ delivered' = <<>>
  /\ UNCHANGED <<mem, asked>>

Deliver ==
  /\ want.kind \in {"read", "byte"}
  /\ Len(delivered') = Count
  /\ clean => delivered' = BytesAt(mem, pos, Count)
  /\ pos' = pos + Count
  /\ want' = Nothing
  /\ UNCHANGED <<mem, end, asked>>

\* One chunk at a word address, whatever the range is.
DeliverChunk ==
  /\ want.kind = "chunk"
  /\ Len(delivered') \in {4, 8}
  /\ clean => delivered' = BytesAt(mem, 2 * want.n, Len(delivered'))
  /\ want' = Nothing
  /\ UNCHANGED <<mem, pos, end, asked>>

Fail ==
  /\ want # Nothing /\ want' = Nothing
  /\ pos' \in pos..(pos + Count)
  /\ UNCHANGED <<mem, end, delivered, asked>>

Select ==
  /\ want.kind = "write" /\ pos < end
  /\ asked' = asked \cup {pos \div 2}
  /\ UNCHANGED <<mem, pos, end, want, delivered>>

Advance ==
  /\ want.kind = "write" /\ pos \div 2 \in asked
  /\ pos' = pos + 2
  /\ UNCHANGED <<mem, end, want, delivered, asked>>

\* The SubDevice stores a word, some time after it was asked to.
Store ==
  /\ \E w \in asked :
       /\ DOMAIN mem' = DOMAIN mem
       /\ \A a \in DOMAIN mem : a \div 2 # w => mem'[a] = mem[a]
  /\ UNCHANGED <<pos, end, want, delivered, asked>>

Next ==
  /\ clean' \in BOOLEAN
  /\ \/ Begin \/ Deliver \/ DeliverChunk \/ Fail
     \/ Select \/ Advance \/ Store
     \/ UNCHANGED <<mem, pos, end, want, delivered, asked>>

Spec == Init /\ [][Next]_vars
=============================================================================
