--------------------------- MODULE SequenceFacts ---------------------------
(***************************************************************************)
(* Facts about sequences whose elements have no common type: messages,     *)
(* bytes and the chunks they are put together from; and about sets of      *)
(* numbers, whose least elements stand for induction.                      *)
(***************************************************************************)
EXTENDS Integers, Sequences, SequenceTheorems, WellFoundedInduction, TLAPS

IsSeq(s) == Len(s) \in Nat /\ s = [k \in 1..Len(s) |-> s[k]]

\* The elements of a sequence.
Elements(s) == {s[k] : k \in 1..Len(s)}

\* A sequence is one over its own elements, and over every larger set.
LEMMA SeqOfElements ==
  ASSUME NEW s, IsSeq(s), NEW S, Elements(s) \subseteq S
  PROVE  s \in Seq(S)
BY DEF IsSeq, Elements

LEMMA IsSeqIntro ==
  ASSUME NEW S, NEW s \in Seq(S)
  PROVE  IsSeq(s) /\ Elements(s) \subseteq S
BY DEF IsSeq, Elements

\* Two sequences with the same elements in the same order are equal.
LEMMA SameSeq ==
  ASSUME NEW s, NEW t, IsSeq(s), IsSeq(t), Len(s) = Len(t),
         \A k \in 1..Len(s) : s[k] = t[k]
  PROVE  s = t
BY DEF IsSeq

LEMMA EmptyIsSeq == IsSeq(<<>>) /\ Len(<<>>) = 0 /\ Elements(<<>>) = {}
<1>1. <<>> \in Seq({}) /\ Len(<<>>) = 0
  OBVIOUS
<1>2. IsSeq(<<>>)
  BY <1>1, IsSeqIntro
<1>3. Elements(<<>>) = {}
  BY <1>1 DEF Elements
<1> QED BY <1>1, <1>2, <1>3

LEMMA LengthZero ==
  ASSUME NEW s, IsSeq(s), Len(s) = 0
  PROVE  s = <<>>
BY EmptyIsSeq, SameSeq

LEMMA SingleSeq ==
  ASSUME NEW e
  PROVE  IsSeq(<<e>>) /\ Len(<<e>>) = 1 /\ <<e>>[1] = e /\ Elements(<<e>>) = {e}
BY DEF IsSeq, Elements

LEMMA AppendSeq ==
  ASSUME NEW s, NEW e, IsSeq(s)
  PROVE  /\ IsSeq(Append(s, e)) /\ Len(Append(s, e)) = Len(s) + 1
         /\ \A k \in 1..Len(s) : Append(s, e)[k] = s[k]
         /\ Append(s, e)[Len(s) + 1] = e
         /\ Elements(Append(s, e)) = Elements(s) \cup {e}
<1> DEFINE S == Elements(s) \cup {e}
<1>1. s \in Seq(S) /\ e \in S
  BY SeqOfElements
<1>2. Append(s, e) \in Seq(S)
  BY <1>1
<1>3. IsSeq(Append(s, e))
  BY <1>2, IsSeqIntro
<1>4. /\ Len(Append(s, e)) = Len(s) + 1
      /\ \A k \in 1..Len(s) : Append(s, e)[k] = s[k]
      /\ Append(s, e)[Len(s) + 1] = e
  BY <1>1, AppendProperties
<1>5. Elements(Append(s, e)) = S
  BY <1>4 DEF Elements, IsSeq
<1> QED BY <1>3, <1>4, <1>5

LEMMA ConcatSeq ==
  ASSUME NEW s, NEW t, IsSeq(s), IsSeq(t)
  PROVE  /\ IsSeq(s \o t) /\ Len(s \o t) = Len(s) + Len(t)
         /\ \A k \in 1..(Len(s) + Len(t)) :
              (s \o t)[k] = IF k <= Len(s) THEN s[k] ELSE t[k - Len(s)]
         /\ Elements(s \o t) = Elements(s) \cup Elements(t)
<1> DEFINE S == Elements(s) \cup Elements(t)
<1>1. s \in Seq(S) /\ t \in Seq(S)
  BY SeqOfElements
<1>2. s \o t \in Seq(S)
  BY <1>1
<1>3. IsSeq(s \o t) /\ Elements(s \o t) \subseteq S
  BY <1>2, IsSeqIntro
<1>4. /\ Len(s \o t) = Len(s) + Len(t)
      /\ \A k \in 1..(Len(s) + Len(t)) :
           (s \o t)[k] = IF k <= Len(s) THEN s[k] ELSE t[k - Len(s)]
  BY <1>1, ConcatProperties
<1>5. Elements(s) \subseteq Elements(s \o t)
  BY <1>4 DEF Elements, IsSeq
<1>6. ASSUME NEW j \in 1..Len(t)
      PROVE  t[j] \in Elements(s \o t)
  <2>1. Len(s) + j \in 1..(Len(s) + Len(t)) /\ ~(Len(s) + j <= Len(s))
        /\ (Len(s) + j) - Len(s) = j
    BY DEF IsSeq
  <2>2. (s \o t)[Len(s) + j] = t[j]
    BY <1>4, <2>1
  <2> QED BY <1>4, <2>1, <2>2 DEF Elements
<1>7. Elements(t) \subseteq Elements(s \o t)
  BY <1>6 DEF Elements
<1> QED BY <1>3, <1>4, <1>5, <1>7

LEMMA TailSeq ==
  ASSUME NEW s, IsSeq(s), s # <<>>
  PROVE  /\ IsSeq(Tail(s)) /\ Len(s) \in Nat \ {0} /\ Len(Tail(s)) = Len(s) - 1
         /\ \A k \in 1..(Len(s) - 1) : Tail(s)[k] = s[k + 1]
         /\ Head(s) = s[1]
         /\ Head(s) \in Elements(s) /\ Elements(Tail(s)) \subseteq Elements(s)
<1>1. s \in Seq(Elements(s))
  BY SeqOfElements
<1>2. Tail(s) \in Seq(Elements(s)) /\ Head(s) \in Elements(s) /\ Head(s) = s[1]
      /\ Len(Tail(s)) = Len(s) - 1
      /\ \A k \in 1..Len(Tail(s)) : Tail(s)[k] = s[k + 1]
  BY <1>1, HeadTailProperties
<1>3. IsSeq(Tail(s)) /\ Elements(Tail(s)) \subseteq Elements(s)
  BY <1>2, IsSeqIntro
<1>4. Len(s) \in Nat \ {0}
  BY LengthZero DEF IsSeq
<1> QED BY <1>2, <1>3, <1>4

\* The part of a sequence from m to n.
LEMMA PartSeq ==
  ASSUME NEW s, IsSeq(s), NEW m \in 1..(Len(s) + 1), NEW n \in (m - 1)..Len(s)
  PROVE  /\ IsSeq(SubSeq(s, m, n)) /\ Len(SubSeq(s, m, n)) = n - m + 1
         /\ \A k \in 1..(n - m + 1) : SubSeq(s, m, n)[k] = s[m + k - 1]
         /\ Elements(SubSeq(s, m, n)) \subseteq Elements(s)
<1>1. s \in Seq(Elements(s)) /\ Len(s) \in Nat
  BY SeqOfElements DEF IsSeq
<1>2. \A k \in m..n : s[k] \in Elements(s)
  BY <1>1 DEF Elements
<1>3. /\ SubSeq(s, m, n) \in Seq(Elements(s))
      /\ Len(SubSeq(s, m, n)) = IF m <= n THEN n - m + 1 ELSE 0
      /\ \A k \in 1..(n - m + 1) : SubSeq(s, m, n)[k] = s[m + k - 1]
  BY <1>1, <1>2, SubSeqProperties
<1>4. IsSeq(SubSeq(s, m, n)) /\ Elements(SubSeq(s, m, n)) \subseteq Elements(s)
  BY <1>3, IsSeqIntro
<1> QED BY <1>1, <1>3, <1>4

\* A set of natural numbers that is not empty has a least one.
LEMMA Least ==
  ASSUME NEW T \in SUBSET Nat, T # {}
  PROVE  \E m \in T : \A x \in T : m <= x
<1> DEFINE R == {ss \in Nat \X Nat : ss[1] < ss[2]}
<1>1. IsWellFoundedOn(R, Nat)
  BY NatLessThanWellFounded DEF OpToRel
<1>2. PICK m \in T : \A y \in T : ~(<<y, m>> \in R)
  <2> HIDE DEF R
  <2> QED BY <1>1, WFMin
<1>3. \A x \in T : m <= x
  <2> TAKE x \in T
  <2>1. x \in Nat /\ m \in Nat /\ ~(x < m)
    BY <1>2
  <2> QED BY <2>1
<1> QED BY <1>3

\* A bounded set of numbers that is not empty has a greatest one.
LEMMA Greatest ==
  ASSUME NEW b \in Nat, NEW T \in SUBSET (0..b), T # {}
  PROVE  \E m \in T : \A x \in T : x <= m
<1> DEFINE U == {b - x : x \in T}
<1>1. U \in SUBSET Nat /\ U # {}
  <2>1. \A x \in T : b - x \in Nat
    OBVIOUS
  <2> QED BY <2>1
<1>2. PICK u \in U : \A y \in U : u <= y
  <2> HIDE DEF U
  <2> QED BY <1>1, Least
<1>3. PICK m \in T : u = b - m
  OBVIOUS
<1>4. \A x \in T : x <= m
  <2> TAKE x \in T
  <2>1. b - x \in U
    OBVIOUS
  <2> QED BY <1>2, <1>3, <2>1
<1> QED BY <1>4

\* A recursion over 1..n with its steps given as functions, and what it computes.
IsRecursion(A, base, n, step) ==
  base \in A /\ n \in Nat /\ step \in [1..n -> [A -> A]]
Computes(f, A, base, n, step) ==
  f \in [0..n -> A] /\ f[0] = base /\ \A k \in 1..n : f[k] = step[k][f[k-1]]

\* A recursion has a solution: if not, take the shortest without one.
LEMMA Recursion ==
  ASSUME NEW A, NEW base, NEW n, NEW step, IsRecursion(A, base, n, step)
  PROVE  \E f : Computes(f, A, base, n, step)
<1> USE DEF IsRecursion, Computes
<1> DEFINE Good(m, f) == f[0] = base /\ \A k \in 1..m : f[k] = step[k][f[k-1]]
           T == {m \in 0..n : ~ \E f \in [0..m -> A] : Good(m, f)}
<1> SUFFICES ASSUME T # {} PROVE FALSE
  <2>1. n \in 0..n
    OBVIOUS
  <2>2. n \notin T
    OBVIOUS
  <2> QED BY <2>1, <2>2
<1>1. PICK m \in T : \A x \in T : m <= x
  <2>1. T \in SUBSET Nat
    OBVIOUS
  <2> HIDE DEF T
  <2> QED BY <2>1, Least
<1>2. m \in 0..n
  OBVIOUS
<1>3. CASE m = 0
  <2> DEFINE f == [k \in 0..0 |-> base]
  <2>1. f \in [0..0 -> A] /\ Good(0, f)
    OBVIOUS
  <2> HIDE DEF f, Good
  <2> QED BY <1>1, <1>3, <2>1
<1>4. CASE m # 0
  <2>1. m - 1 \in 0..n /\ ~(m <= m - 1) /\ m \in 1..n
    BY <1>2, <1>4
  <2>2. m - 1 \notin T
    <3> HIDE DEF T
    <3> QED BY <1>1, <2>1
  <2>3. PICK f \in [0..(m - 1) -> A] : Good(m - 1, f)
    BY <2>1, <2>2
  <2> DEFINE h == [k \in 0..m |-> IF k = m THEN step[m][f[m-1]] ELSE f[k]]
  <2>4. m - 1 \in 0..(m - 1) /\ 0 \in 0..(m - 1) /\ 0 # m
    BY <2>1
  <2>5. step[m][f[m-1]] \in A
    BY <2>1, <2>3, <2>4
  <2>6. h \in [0..m -> A]
    <3>1. \A k \in 0..m : k # m => k \in 0..(m - 1)
      BY <2>1
    <3>2. \A k \in 0..m : k # m => f[k] \in A
      BY <2>3, <3>1
    <3> QED BY <2>5, <3>2
  <2>7. h[0] = base
    BY <2>3, <2>4
  <2>8. ASSUME NEW k \in 1..m PROVE h[k] = step[k][h[k-1]]
    <3>1. k - 1 \in 0..m /\ k \in 0..m /\ k - 1 # m
      BY <2>1
    <3>2. h[k-1] = f[k-1]
      BY <3>1
    <3>3. CASE k = m
      BY <3>1, <3>2, <3>3
    <3>4. CASE k # m
      <4>1. k \in 1..(m - 1)
        BY <2>1, <3>4
      <4>2. h[k] = f[k]
        BY <3>1, <3>4
      <4> HIDE DEF h
      <4> QED BY <2>3, <3>2, <4>1, <4>2
    <3> QED BY <3>3, <3>4
  <2>9. Good(m, h)
    <3> HIDE DEF h
    <3> QED BY <2>7, <2>8
  <2> HIDE DEF h, Good
  <2> QED BY <1>1, <2>6, <2>9
<1> QED BY <1>3, <1>4

\* The sums of the first numbers of a sequence.
LEMMA Prefixes ==
  ASSUME NEW n \in Nat, NEW w \in [1..n -> Nat]
  PROVE  \E f \in [0..n -> Nat] : f[0] = 0 /\ \A k \in 1..n : f[k] = f[k-1] + w[k]
<1> DEFINE step == [k \in 1..n |-> [x \in Nat |-> x + w[k]]]
<1>1. step \in [1..n -> [Nat -> Nat]] /\ 0 \in Nat
  OBVIOUS
<1>2. PICK f : Computes(f, Nat, 0, n, step)
  <2>1. IsRecursion(Nat, 0, n, step)
    BY <1>1 DEF IsRecursion
  <2> HIDE DEF step
  <2> QED BY <2>1, Recursion
<1>3. f \in [0..n -> Nat] /\ f[0] = 0 /\ \A k \in 1..n : f[k] = step[k][f[k-1]]
  <2> HIDE DEF step
  <2> QED BY <1>2 DEF Computes
<1>4. ASSUME NEW k \in 1..n PROVE f[k] = f[k-1] + w[k]
  <2>1. k - 1 \in 0..n
    OBVIOUS
  <2>2. f[k-1] \in Nat
    BY <1>3, <2>1
  <2>3. step[k][f[k-1]] = f[k-1] + w[k]
    BY <2>2
  <2> HIDE DEF step
  <2> QED BY <1>3, <2>3
<1> QED BY <1>3, <1>4

\* A function that never falls from one number to the next never falls.
LEMMA Rising ==
  ASSUME NEW n \in Nat, NEW f \in [0..n -> Nat], NEW a \in 0..n, NEW b \in a..n,
         \A k \in (a + 1)..b : f[k-1] <= f[k]
  PROVE  f[a] <= f[b]
<1> DEFINE T == {k \in a..b : ~(f[a] <= f[k])}
<1> SUFFICES ASSUME T # {} PROVE FALSE
  <2>1. b \in a..b
    OBVIOUS
  <2>2. T = {}
    OBVIOUS
  <2> QED BY <2>1, <2>2
<1>1. PICK m \in T : \A x \in T : m <= x
  <2>1. T \in SUBSET Nat
    OBVIOUS
  <2> HIDE DEF T
  <2> QED BY <2>1, Least
<1>2. m \in a..b /\ m # a /\ f[a] \in Nat /\ f[m] \in Nat
  OBVIOUS
<1>3. m - 1 \in a..b /\ ~(m <= m - 1) /\ m \in (a + 1)..b /\ f[m-1] \in Nat
  BY <1>2
<1>4. m - 1 \notin T
  <2> HIDE DEF T
  <2> QED BY <1>1, <1>3
<1>5. f[a] <= f[m-1] /\ f[m-1] <= f[m]
  BY <1>3, <1>4
<1> QED BY <1>1, <1>2, <1>3, <1>5

\* A function that does not change from one number to the next does not change.
LEMMA Level ==
  ASSUME NEW n \in Nat, NEW f \in [0..n -> Nat], NEW a \in 0..n, NEW b \in a..n,
         \A k \in (a + 1)..b : f[k] = f[k-1]
  PROVE  f[a] = f[b]
<1> DEFINE T == {k \in a..b : ~(f[a] = f[k])}
<1> SUFFICES ASSUME T # {} PROVE FALSE
  <2>1. b \in a..b /\ b \notin T
    OBVIOUS
  <2> QED BY <2>1
<1>1. PICK m \in T : \A x \in T : m <= x
  <2>1. T \in SUBSET Nat
    OBVIOUS
  <2> HIDE DEF T
  <2> QED BY <2>1, Least
<1>2. m \in a..b /\ m # a
  OBVIOUS
<1>3. m - 1 \in a..b /\ ~(m <= m - 1) /\ m \in (a + 1)..b
  BY <1>2
<1>4. m - 1 \notin T
  <2> HIDE DEF T
  <2> QED BY <1>1, <1>3
<1>5. f[a] = f[m-1] /\ f[m-1] = f[m]
  BY <1>3, <1>4
<1> QED BY <1>1, <1>5

\* Two functions that never part from one number to the next are equal.
LEMMA Alike ==
  ASSUME NEW n \in Nat, NEW f, NEW h, f[0] = h[0],
         \A k \in 1..n : f[k-1] = h[k-1] => f[k] = h[k]
  PROVE  \A k \in 0..n : f[k] = h[k]
<1> DEFINE T == {k \in 0..n : f[k] # h[k]}
<1> SUFFICES ASSUME T # {} PROVE FALSE
  OBVIOUS
<1>1. PICK m \in T : \A x \in T : m <= x
  <2>1. T \in SUBSET Nat
    OBVIOUS
  <2> HIDE DEF T
  <2> QED BY <2>1, Least
<1>2. m \in 1..n /\ m - 1 \in 0..n /\ ~(m <= m - 1)
  OBVIOUS
<1>3. m - 1 \notin T
  <2> HIDE DEF T
  <2> QED BY <1>1, <1>2
<1> QED BY <1>1, <1>2, <1>3

\* Quotient and remainder.
LEMMA Divide ==
  ASSUME NEW x \in Int, NEW p \in Nat \ {0}
  PROVE  x = p * (x \div p) + (x % p) /\ x % p \in 0..(p - 1) /\ x \div p \in Int
OBVIOUS

\* A positive multiple is at least one period.
LEMMA AtLeastOnce ==
  ASSUME NEW p \in Nat \ {0}, NEW a \in Int, a > 0
  PROVE  p * a >= p
OBVIOUS

\* There is one way to divide.
LEMMA DivideUnique ==
  ASSUME NEW p \in Nat \ {0}, NEW a \in Int, NEW b \in Int, NEW r \in 0..(p - 1),
         NEW s \in 0..(p - 1), p * a + r = p * b + s
  PROVE  a = b /\ r = s
<1>1. p * (a - b) = s - r /\ p * (b - a) = r - s
  OBVIOUS
<1>2. ~(a > b)
  <2> SUFFICES ASSUME a > b PROVE FALSE
    OBVIOUS
  <2>1. a - b \in Int /\ a - b > 0
    OBVIOUS
  <2>2. p * (a - b) >= p
    BY <2>1, AtLeastOnce
  <2> QED BY <1>1, <2>2
<1>3. ~(b > a)
  <2> SUFFICES ASSUME b > a PROVE FALSE
    OBVIOUS
  <2>1. b - a \in Int /\ b - a > 0
    OBVIOUS
  <2>2. p * (b - a) >= p
    BY <2>1, AtLeastOnce
  <2> QED BY <1>1, <2>2
<1>4. a = b
  BY <1>2, <1>3
<1> QED BY <1>4

\* The remainder of a multiple and a bit.
LEMMA Remainder ==
  ASSUME NEW p \in Nat \ {0}, NEW a \in Int, NEW r \in 0..(p - 1)
  PROVE  (p * a + r) % p = r
<1> DEFINE x == p * a + r
<1>1. x \in Int
  OBVIOUS
<1>2. x = p * (x \div p) + (x % p) /\ x % p \in 0..(p - 1) /\ x \div p \in Int
  BY <1>1, Divide
<1> DEFINE q == x \div p
           y == x % p
<1>3. p * q + y = p * a + r /\ y \in 0..(p - 1) /\ q \in Int
  BY <1>2
<1>4. y = (p * a + r) % p
  OBVIOUS
<1> HIDE DEF x, q, y
<1>5. y = r
  BY <1>3, DivideUnique
<1> QED BY <1>4, <1>5

\* A clock that counts modulo p and is read twice within p counts on, unless it
\* shows less than before.
LEMMA NoWrap ==
  ASSUME NEW p \in Nat \ {0}, NEW u \in Int, NEW w \in 0..(p - 1),
         u % p <= (u + w) % p
  PROVE  (u + w) % p = (u % p) + w
<1> DEFINE a == u \div p
           r == u % p
           b == (u + w) \div p
           s == (u + w) % p
<1>1. u = p * a + r /\ r \in 0..(p - 1) /\ a \in Int
  BY Divide
<1>2. u + w = p * b + s /\ s \in 0..(p - 1) /\ b \in Int
  <2>1. u + w \in Int
    OBVIOUS
  <2> QED BY <2>1, Divide
<1>3. r <= s
  OBVIOUS
<1> HIDE DEF a, r, b, s
<1>4. p * a + (r + w) = p * b + s
  BY <1>1, <1>2
<1>5. p * (b - a) = p * b - p * a /\ b - a \in Int
  BY <1>1, <1>2
<1>6. p * (b - a) + (s - r) = p * 0 + w /\ s - r \in 0..(p - 1)
  BY <1>1, <1>2, <1>3, <1>4, <1>5
<1>7. s - r = w
  BY <1>5, <1>6, DivideUnique
<1>8. s = r + w
  BY <1>1, <1>2, <1>7
<1> QED BY <1>8 DEF r, s
=============================================================================
