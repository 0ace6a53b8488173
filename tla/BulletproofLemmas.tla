---------------------------- MODULE BulletproofLemmas ----------------------------
(***************************************************************************)
(* Lemmas about the operators of the Bulletproofs modules, for every value *)
(* of their constants: induction and sequences, which carry the            *)
(* transcripts; scalars, which are a field because the order of the group  *)
(* is prime, with Fermat's little theorem for Invert; sums and powers;     *)
(* what the inner-product argument does to a transcript and to a proof on  *)
(* its way; inner products and combinations of points; the challenges of a *)
(* transcript; what one round of the argument keeps and, with it, what     *)
(* create makes of any vectors and how verification_scalars retraces it.   *)
(***************************************************************************)
EXTENDS InnerProductProof, WellFoundedInduction, FiniteSetTheorems, TLAPS

\* A number below another.
Below == {pair \in Nat \X Nat : pair[1] < pair[2]}

\* The naturals in their order.
LEMMA BelowIsWellFounded == IsWellFoundedOn(Below, Nat)
BY NatLessThanWellFounded DEF OpToRel, Below

(* Every nonempty set of natural numbers has a least element. *)
LEMMA LeastElement ==
    ASSUME NEW T, T \subseteq Nat, T # {}
    PROVE  \E m \in T : \A k \in T : m <= k
<1>1. PICK m \in T : \A k \in T : <<k, m>> \notin Below
  BY BelowIsWellFounded, WFMin
<1>2. ASSUME NEW k \in T, ~(m <= k) PROVE FALSE
  <2>1. <<k, m>> \in Nat \X Nat /\ <<k, m>>[1] < <<k, m>>[2]
    BY <1>2
  <2> QED BY <1>1, <2>1 DEF Below
<1> QED BY <1>2

(* A set that holds 0 and the successor of each of its members holds every  *)
(* natural number.                                                          *)
LEMMA InductionOnNat ==
    ASSUME NEW S, 0 \in S, \A n \in Nat : n \in S => n + 1 \in S
    PROVE  \A n \in Nat : n \in S
<1> SUFFICES ASSUME Nat \ S # {} PROVE FALSE
  OBVIOUS
<1>1. PICK m \in Nat \ S : \A k \in Nat \ S : m <= k
  BY LeastElement
<1>2. m # 0 /\ m - 1 \in Nat
  OBVIOUS
<1>3. m - 1 \in S
  BY <1>1, <1>2
<1> QED BY <1>2, <1>3

(* The same up to a bound. *)
LEMMA InductionUpTo ==
    ASSUME NEW bound \in Nat, NEW S, 0 \in S,
           \A n \in 0..(bound - 1) : n \in S => n + 1 \in S
    PROVE  \A n \in 0..bound : n \in S
<1> DEFINE T == {n \in Nat : n <= bound => n \in S}
<1>1. 0 \in T
  OBVIOUS
<1>2. \A n \in Nat : n \in T => n + 1 \in T
  OBVIOUS
<1>3. \A n \in Nat : n \in T
  <2> HIDE DEF T
  <2> QED BY <1>1, <1>2, InductionOnNat
<1> QED BY <1>3

-----------------------------------------------------------------------------
(* Sequences.                                                              *)

\* A sequence, of whatever elements.
IsSequence(s) == \E S : s \in Seq(S)

\* A sequence has a length.
LEMMA LenOfSequence ==
  ASSUME NEW s, IsSequence(s)
  PROVE  Len(s) \in Nat
BY DEF IsSequence

\* So it has a last index.
LEMMA SequenceDomain ==
  ASSUME NEW s, IsSequence(s)
  PROVE  Len(s) \in Nat /\ DOMAIN s = 1..Len(s)
BY DEF IsSequence

\* A sequence stays one, longer by one, with the entries it had.
LEMMA AppendIsSequence ==
  ASSUME NEW s, NEW e, IsSequence(s)
  PROVE  /\ IsSequence(Append(s, e))
         /\ Len(Append(s, e)) = Len(s) + 1
         /\ \A i \in 1..Len(s) : Append(s, e)[i] = s[i]
<1>1. PICK S : s \in Seq(S)
  BY DEF IsSequence
<1> DEFINE U == S \cup {e}
<1>2. s \in Seq(U) /\ e \in U
  BY <1>1
<1> HIDE DEF U
<1>3. /\ Append(s, e) \in Seq(U)
      /\ Len(Append(s, e)) = Len(s) + 1
      /\ \A i \in 1..Len(s) : Append(s, e)[i] = s[i]
  BY <1>2
<1> QED BY <1>3 DEF IsSequence

\* What was appended is last.
LEMMA LastAppended ==
  ASSUME NEW s, NEW e, IsSequence(s)
  PROVE  Append(s, e)[Len(s) + 1] = e
<1>1. PICK S : s \in Seq(S)
  BY DEF IsSequence
<1> DEFINE U == S \cup {e}
<1>2. s \in Seq(U) /\ e \in U
  BY <1>1
<1> HIDE DEF U
<1> QED BY <1>2

\* s with entry k replaced.
Replaced(s, k, e) == [s EXCEPT ![k] = e]

\* So does one of which an entry is replaced.
LEMMA ReplaceIsSequence ==
  ASSUME NEW s, NEW e, NEW k, IsSequence(s), k \in 1..Len(s)
  PROVE  /\ IsSequence(Replaced(s, k, e))
         /\ Len(Replaced(s, k, e)) = Len(s)
         /\ \A i \in 1..Len(s) : i # k => Replaced(s, k, e)[i] = s[i]
<1>1. PICK S : s \in Seq(S)
  BY DEF IsSequence
<1> DEFINE U == S \cup {e}
<1>2. s \in Seq(U) /\ e \in U
  BY <1>1
<1> HIDE DEF U
<1>3. /\ Replaced(s, k, e) \in Seq(U)
      /\ Len(Replaced(s, k, e)) = Len(s)
      /\ \A i \in 1..Len(s) : i # k => Replaced(s, k, e)[i] = s[i]
  BY <1>2 DEF Replaced
<1> QED BY <1>3 DEF IsSequence

\* t has what s has, where s has it.
Extends(s, t) == \A i \in DOMAIN s : i \in DOMAIN t /\ t[i] = s[i]

\* One sequence after the other is a sequence.
LEMMA ThenSequence ==
  ASSUME NEW s, NEW r, IsSequence(s), IsSequence(r)
  PROVE  /\ IsSequence(s \o r) /\ Len(s \o r) = Len(s) + Len(r)
         /\ \A i \in 1..Len(s) : (s \o r)[i] = s[i]
         /\ \A i \in 1..Len(r) : (s \o r)[Len(s) + i] = r[i]
         /\ Extends(s, s \o r)
<1>1. PICK S : s \in Seq(S)
  BY DEF IsSequence
<1>2. PICK R : r \in Seq(R)
  BY DEF IsSequence
<1>3. s \in Seq(S \cup R) /\ r \in Seq(S \cup R)
  <2> DEFINE U == S \cup R
  <2>1. S \subseteq U /\ R \subseteq U
    OBVIOUS
  <2> HIDE DEF U
  <2> QED BY <1>1, <1>2, <2>1
<1>4. s \o r \in Seq(S \cup R) /\ Len(s \o r) = Len(s) + Len(r)
  BY <1>3
<1>5. Len(s) \in Nat /\ DOMAIN s = 1..Len(s) /\ DOMAIN (s \o r) = 1..Len(s \o r)
      /\ Len(r) \in Nat
  BY <1>1, <1>2, <1>4
<1>6. /\ \A i \in 1..Len(s) : (s \o r)[i] = s[i]
      /\ \A i \in 1..Len(r) : (s \o r)[Len(s) + i] = r[i]
  BY <1>3
<1>7. Extends(s, s \o r)
  BY <1>4, <1>5, <1>6 DEF Extends
<1> QED BY <1>4, <1>6, <1>7 DEF IsSequence

\* Its entries are behind those it was put after.
LEMMA LaterElements ==
  ASSUME NEW s, NEW r, IsSequence(s), IsSequence(r), NEW i \in 1..Len(r)
  PROVE  (s \o r)[Len(s) + i] = r[i]
BY ThenSequence

\* What is left behind a sequence is what was put there.
LEMMA Suffix ==
  ASSUME NEW s, NEW r, IsSequence(s), IsSequence(r)
  PROVE  SubSeq(s \o r, Len(s) + 1, Len(s \o r)) = r
<1>1. PICK k \in Nat : k = Len(s)
  BY LenOfSequence
<1>2. PICK l \in Nat : l = Len(r)
  BY LenOfSequence
<1>3. PICK t : t = s \o r
  OBVIOUS
<1>4. /\ IsSequence(t) /\ Len(t) = k + l
      /\ \A i \in 1..l : t[k + i] = r[i]
  BY <1>1, <1>2, <1>3, ThenSequence
<1>5. PICK T : t \in Seq(T)
  BY <1>4 DEF IsSequence
<1>6. PICK R : r \in Seq(R)
  BY DEF IsSequence
<1>7. PICK u : u = SubSeq(t, k + 1, k + l)
  OBVIOUS
<1>8. \A i \in (k + 1)..(k + l) : t[i] \in T
  BY <1>4, <1>5
<1>9. /\ u \in Seq(T) /\ Len(u) = l
      /\ \A i \in 1..l : u[i] = t[k + i]
  BY <1>4, <1>5, <1>7, <1>8
<1>10. \A i \in 1..l : u[i] = r[i]
  BY <1>4, <1>9
<1>11. u = [i \in 1..l |-> u[i]] /\ r = [i \in 1..l |-> r[i]]
  BY <1>2, <1>6, <1>9
<1>12. u = r
  BY <1>10, <1>11
<1> QED BY <1>1, <1>3, <1>4, <1>7, <1>12

\* Five entries behind a sequence.
LEMMA FiveMore ==
  ASSUME NEW s, NEW q, IsSequence(s), IsSequence(q)
  PROVE  Len(q) = 5 =>
         /\ IsSequence(s \o q) /\ Extends(s, s \o q) /\ Len(s) \in Nat
         /\ Len(s \o q) = Len(s) + 5
         /\ DOMAIN s = 1..Len(s) /\ DOMAIN (s \o q) = 1..(Len(s) + 5)
         /\ (s \o q)[Len(s) + 1] = q[1] /\ (s \o q)[Len(s) + 2] = q[2]
         /\ (s \o q)[Len(s) + 3] = q[3] /\ (s \o q)[Len(s) + 4] = q[4]
         /\ (s \o q)[Len(s) + 5] = q[5]
<1>1. PICK r : r = s \o q
  OBVIOUS
<1>2. IsSequence(r) /\ Extends(s, r) /\ Len(r) = Len(s) + Len(q)
  BY <1>1, ThenSequence
<1>3. ASSUME NEW i \in 1..Len(q) PROVE r[Len(s) + i] = q[i]
  BY <1>1, <1>3, LaterElements
<1>4. Len(s) \in Nat /\ DOMAIN s = 1..Len(s) /\ DOMAIN r = 1..Len(r)
  BY <1>2, SequenceDomain
<1> QED BY <1>1, <1>2, <1>3, <1>4

\* What is left of a sequence after its first n entries goes behind them.
LEMMA Prefix ==
  ASSUME NEW s, IsSequence(s), NEW n \in 0..Len(s), NEW p, p = [i \in 1..n |-> s[i]]
  PROVE  /\ IsSequence(p) /\ Len(p) = n /\ SubSeq(s, 1, n) = p
         /\ \A q : IsSequence(q) /\ n + Len(q) <= Len(s)
                    /\ (\A i \in 1..Len(q) : q[i] = s[n + i])
                  => p \o q = [i \in 1 .. n + Len(q) |-> s[i]]
<1>1. PICK S : s \in Seq(S)
  BY DEF IsSequence
<1>2. Len(s) \in Nat /\ DOMAIN s = 1..Len(s) /\ n \in Nat
  BY <1>1
<1>3. p \in [1..n -> S]
  <2>1. \A i \in 1..n : s[i] \in S
    BY <1>1, <1>2
  <2> QED BY <2>1
<1>4. p \in Seq(S) /\ Len(p) = n
  BY <1>2, <1>3
<1>5. SubSeq(s, 1, n) = p
  <2>1. /\ SubSeq(s, 1, n) \in Seq(S) /\ Len(SubSeq(s, 1, n)) = n
        /\ \A i \in 1..n : SubSeq(s, 1, n)[i] = s[i]
    BY <1>1, <1>2
  <2>2. \A i \in 1..n : p[i] = s[i]
    OBVIOUS
  <2> QED BY <1>4, <2>1, <2>2
<1>6. ASSUME NEW q, IsSequence(q), n + Len(q) <= Len(s),
             \A i \in 1..Len(q) : q[i] = s[n + i]
      PROVE  p \o q = [i \in 1 .. n + Len(q) |-> s[i]]
  <2>1. PICK k \in Nat : k = Len(q)
    BY <1>6, LenOfSequence
  <2>2. PICK r : r = p \o q
    OBVIOUS
  <2>3. IsSequence(p)
    BY <1>4 DEF IsSequence
  <2>4. /\ IsSequence(r) /\ Len(r) = n + k
        /\ \A i \in 1..n : r[i] = p[i]
        /\ \A i \in 1..k : r[n + i] = q[i]
    BY <1>4, <1>6, <2>1, <2>2, <2>3, ThenSequence
  <2>5. DOMAIN r = 1..(n + k)
    BY <2>4, SequenceDomain
  <2>6. ASSUME NEW i \in 1..(n + k) PROVE r[i] = s[i]
    <3>1. CASE i \in 1..n
      BY <2>4, <3>1
    <3>2. CASE i \notin 1..n
      <4>1. i - n \in 1..k /\ n + (i - n) = i
        BY <1>2, <2>1, <3>2
      <4>2. r[n + (i - n)] = q[i - n] /\ q[i - n] = s[n + (i - n)]
        BY <1>6, <2>1, <2>4, <4>1
      <4> QED BY <4>1, <4>2
    <3> QED BY <3>1, <3>2
  <2>7. r = [i \in 1..(n + k) |-> r[i]]
    <3>1. PICK R : r \in Seq(R)
      BY <2>4 DEF IsSequence
    <3> QED BY <2>5, <3>1
  <2>8. r = [i \in 1..(n + k) |-> s[i]]
    BY <2>6, <2>7
  <2> QED BY <2>1, <2>2, <2>8
<1> QED BY <1>4, <1>5, <1>6 DEF IsSequence

\* The tuples of the sizes the models write out.
LEMMA TuplesAreSequences ==
  /\ \A a, b : IsSequence(<<a, b>>) /\ Len(<<a, b>>) = 2
  /\ \A a, b, c : IsSequence(<<a, b, c>>) /\ Len(<<a, b, c>>) = 3
  /\ \A a, b, c, d, e : IsSequence(<<a, b, c, d, e>>) /\ Len(<<a, b, c, d, e>>) = 5
  /\ \A a, b, c, d, e, f, g, h : IsSequence(<<a, b, c, d, e, f, g, h>>)
                                 /\ Len(<<a, b, c, d, e, f, g, h>>) = 8
<1>1. ASSUME NEW a, NEW b PROVE <<a, b>> \in Seq({a, b})
  OBVIOUS
<1>2. ASSUME NEW a, NEW b, NEW c PROVE <<a, b, c>> \in Seq({a, b, c})
  OBVIOUS
<1>3. ASSUME NEW a, NEW b, NEW c, NEW d, NEW e
      PROVE  <<a, b, c, d, e>> \in Seq({a, b, c, d, e})
  OBVIOUS
<1>4. ASSUME NEW a, NEW b, NEW c, NEW d, NEW e, NEW f, NEW g, NEW h
      PROVE  <<a, b, c, d, e, f, g, h>> \in Seq({a, b, c, d, e, f, g, h})
  OBVIOUS
<1> QED BY <1>1, <1>2, <1>3, <1>4 DEF IsSequence

\* The entries of a pair.
LEMMA PairDomain == \A a, b : <<a, b>>[1] = a /\ <<a, b>>[2] = b /\ DOMAIN <<a, b>> = {1, 2}
<1>1. 1..2 = {1, 2}
  OBVIOUS
<1>2. ASSUME NEW a, NEW b PROVE DOMAIN <<a, b>> = 1..2
  <2>1. <<a, b>> \in Seq({a, b}) /\ Len(<<a, b>>) = 2
    OBVIOUS
  <2> QED BY <2>1
<1>3. \A a, b : <<a, b>>[1] = a /\ <<a, b>>[2] = b
  OBVIOUS
<1> QED BY <1>1, <1>2, <1>3

\* Appending to a tuple of one.
LEMMA AppendToOne ==
  ASSUME NEW a, NEW b
  PROVE  Append(<<a>>, b) = <<a, b>>
<1>1. IsSequence(<<a>>) /\ Len(<<a>>) = 1 /\ <<a>>[1] = a
  <2>1. <<a>> \in Seq({a}) /\ Len(<<a>>) = 1 /\ <<a>>[1] = a
    OBVIOUS
  <2> QED BY <2>1 DEF IsSequence
<1>2. IsSequence(<<a, b>>) /\ Len(<<a, b>>) = 2 /\ <<a, b>>[1] = a /\ <<a, b>>[2] = b
  BY TuplesAreSequences
<1>3. ASSUME NEW r, NEW t, IsSequence(r), Len(r) = 1, r[1] = a,
             IsSequence(t), Len(t) = 2, t[1] = a, t[2] = b
      PROVE  Append(r, b) = t
  <2>1. PICK R : r \in Seq(R)
    BY <1>3 DEF IsSequence
  <2>2. PICK T : t \in Seq(T)
    BY <1>3 DEF IsSequence
  <2> DEFINE S == R \cup T \cup {b}
  <2>3. r \in Seq(S) /\ t \in Seq(S) /\ b \in S
    <3>1. R \subseteq S /\ T \subseteq S /\ b \in S
      OBVIOUS
    <3> HIDE DEF S
    <3> QED BY <2>1, <2>2, <3>1
  <2> HIDE DEF S
  <2>4. /\ Append(r, b) \in Seq(S) /\ Len(Append(r, b)) = 2
        /\ Append(r, b)[1] = a /\ Append(r, b)[2] = b
    <3>1. /\ Append(r, b) \in Seq(S) /\ Len(Append(r, b)) = Len(r) + 1
          /\ \A i \in 1..Len(r) : Append(r, b)[i] = r[i]
          /\ Append(r, b)[Len(r) + 1] = b
      BY <2>3
    <3>2. 1 \in 1..Len(r) /\ Len(r) + 1 = 2
      BY <1>3
    <3> QED BY <1>3, <3>1, <3>2
  <2>5. \A i \in 1..2 : Append(r, b)[i] = t[i]
    BY <1>3, <2>4
  <2> QED BY <1>3, <2>3, <2>4, <2>5
<1> QED BY <1>1, <1>2, <1>3

-----------------------------------------------------------------------------
(* Scalars: the operations are those of the integers, reduced.             *)

\* The scalar an integer stands for.
M(x) == x % Order

\* A remainder is known by any way of writing the number.
LEMMA ModUnique ==
  ASSUME NEW p \in Nat \ {0}, NEW q \in Int, NEW r \in 0..p-1
  PROVE (q * p + r) % p = r
OBVIOUS

\* And every number can be written so.
LEMMA DivMod ==
  ASSUME NEW p \in Nat \ {0}, NEW x \in Int
  PROVE  x \div p \in Int /\ (x % p) \in 0..p-1 /\ x = (x \div p) * p + (x % p)
OBVIOUS

\* Multiples of the order do not count.
LEMMA ModShift ==
  ASSUME NEW x \in Int, NEW k \in Int
  PROVE  M(x + k * Order) = M(x)
<1> DEFINE q == x \div Order
           r == x % Order
<1>1. q \in Int /\ r \in 0..Order-1 /\ x = q * Order + r
  BY OrderAssumption, DivMod
<1> HIDE DEF q
<1>2. PICK s : s = r
  OBVIOUS
<1> HIDE DEF r
<1>3. x + k * Order = (q + k) * Order + s
  BY <1>1, <1>2, OrderAssumption
<1>4. (q + k) \in Int
  BY <1>1
<1>5. ((q + k) * Order + s) % Order = s
  BY <1>1, <1>2, <1>4, OrderAssumption, ModUnique
<1>6. (x + k * Order) % Order = s
  BY <1>3, <1>5
<1> QED BY <1>1, <1>2, <1>6 DEF M, r

\* Every integer has one scalar, from which it differs by a multiple of the order.
LEMMA ScalarOfInt ==
  ASSUME NEW x \in Int
  PROVE  M(x) \in Scalar /\ \E k \in Int : x = M(x) + k * Order
<1>1. x \div Order \in Int /\ x = (x \div Order) * Order + (x % Order)
      /\ (x % Order) \in 0..Order-1
  BY OrderAssumption, DivMod
<1>2. PICK k \in Int : k = x \div Order
  BY <1>1
<1>3. x = (x % Order) + k * Order
  BY <1>1, <1>2, OrderAssumption
<1> QED BY <1>1, <1>2, <1>3, OrderAssumption DEF M, Scalar

\* A scalar is the scalar of itself.
LEMMA ScalarIsItsOwn ==
  ASSUME NEW a \in Scalar
  PROVE  M(a) = a
BY OrderAssumption DEF M, Scalar

\* The scalar of a sum is the sum of the scalars.
LEMMA MAdd ==
  ASSUME NEW x \in Int, NEW y \in Int
  PROVE  M(x) ++ M(y) = M(x + y)
<1>1. PICK k \in Int : x = M(x) + k * Order
  BY ScalarOfInt
<1>2. PICK l \in Int : y = M(y) + l * Order
  BY ScalarOfInt
<1>3. M(x) \in Int /\ M(y) \in Int
  BY ScalarOfInt, OrderAssumption DEF Scalar
<1>4. PICK a, b : a = M(x) /\ b = M(y)
  OBVIOUS
<1>5. x + y = (a + b) + (k + l) * Order
  BY <1>1, <1>2, <1>3, <1>4, OrderAssumption
<1>6. a + b \in Int /\ k + l \in Int
  BY <1>3, <1>4
<1>7. M((a + b) + (k + l) * Order) = M(a + b)
  BY <1>6, ModShift
<1> QED BY <1>4, <1>5, <1>7 DEF M, ++

\* And that of a product their product.
LEMMA MMul ==
  ASSUME NEW x \in Int, NEW y \in Int
  PROVE  M(x) ** M(y) = M(x * y)
<1>1. PICK k \in Int : x = M(x) + k * Order
  BY ScalarOfInt
<1>2. PICK l \in Int : y = M(y) + l * Order
  BY ScalarOfInt
<1>3. M(x) \in Int /\ M(y) \in Int
  BY ScalarOfInt, OrderAssumption DEF Scalar
<1>4. PICK a, b : a = M(x) /\ b = M(y)
  OBVIOUS
<1>5. x * y = (a * b) + (a * l + b * k + k * l * Order) * Order
  <2>1. x = a + k * Order /\ y = b + l * Order
    BY <1>1, <1>2, <1>4
  <2>2. a \in Int /\ b \in Int /\ Order \in Int
    BY <1>3, <1>4, OrderAssumption
  <2>3. \A c, d, e, f, n \in Int :
          (c + e * n) * (d + f * n) = (c * d) + (c * f + d * e + e * f * n) * n
    OBVIOUS
  <2>4. (a + k * Order) * (b + l * Order) = (a * b) + (a * l + b * k + k * l * Order) * Order
    BY <2>2, <2>3
  <2> QED BY <2>1, <2>4
<1>6. a * b \in Int /\ a * l + b * k + k * l * Order \in Int
  BY <1>3, <1>4, OrderAssumption
<1>7. M((a * b) + (a * l + b * k + k * l * Order) * Order) = M(a * b)
  BY <1>6, ModShift
<1> QED BY <1>4, <1>5, <1>7 DEF M, **

\* And that of an opposite their opposite.
LEMMA MNeg ==
  ASSUME NEW x \in Int
  PROVE  Neg(M(x)) = M(-x)
<1>1. PICK k \in Int : x = M(x) + k * Order
  BY ScalarOfInt
<1>2. PICK a \in Int : a = M(x)
  BY ScalarOfInt, OrderAssumption DEF Scalar
<1>3. Order - a = -x + (k + 1) * Order /\ k + 1 \in Int /\ -x \in Int
  BY <1>1, <1>2, OrderAssumption
<1>4. M(-x + (k + 1) * Order) = M(-x)
  BY <1>3, ModShift
<1> QED BY <1>2, <1>3, <1>4 DEF M, Neg

-----------------------------------------------------------------------------
(* The laws of a ring.                                                     *)

\* The operations on scalars return scalars.
LEMMA ScalarClosed ==
  /\ 0 \in Scalar /\ 1 \in Scalar /\ Scalar \subseteq Int
  /\ \A a, b \in Scalar : a ++ b \in Scalar /\ a ** b \in Scalar /\ a -- b \in Scalar
  /\ \A a \in Scalar : Neg(a) \in Scalar
<1>1. 0 \in Scalar /\ 1 \in Scalar /\ Scalar \subseteq Int
  BY OrderAssumption DEF Scalar
<1>2. ASSUME NEW a \in Scalar, NEW b \in Scalar
      PROVE  a ++ b \in Scalar /\ a ** b \in Scalar
  <2>1. a + b \in Int /\ a * b \in Int
    BY <1>1
  <2> QED BY <2>1, ScalarOfInt DEF M, ++, **
<1>3. ASSUME NEW a \in Scalar PROVE Neg(a) \in Scalar
  <2>1. Order - a \in Int
    BY <1>1, OrderAssumption
  <2> QED BY <2>1, ScalarOfInt DEF M, Neg
<1> QED BY <1>1, <1>2, <1>3 DEF --

\* Sums, products and negations are those of the integers, reduced at the end.
LEMMA Reduced ==
  /\ \A a \in Scalar : a \in Int /\ a = M(a)
  /\ \A x, y \in Int : /\ M(x) ++ M(y) = M(x + y) /\ M(x) ** M(y) = M(x * y)
                       /\ M(x) -- M(y) = M(x - y)
  /\ \A x \in Int : Neg(M(x)) = M(-x)
<1>1. ASSUME NEW x \in Int, NEW y \in Int PROVE M(x) -- M(y) = M(x - y)
  <2>1. -y \in Int /\ x + (-y) = x - y
    OBVIOUS
  <2> QED BY <2>1, MNeg, MAdd DEF --
<1> QED BY <1>1, ScalarClosed, ScalarIsItsOwn, MAdd, MMul, MNeg

\* The laws of a ring, one by one.
LEMMA AddCommutes == \A a, b \in Scalar : a ++ b = b ++ a
<1>1. ASSUME NEW a \in Scalar, NEW b \in Scalar PROVE a ++ b = b ++ a
  <2>1. a + b = b + a
    BY ScalarClosed
  <2> QED BY <2>1 DEF ++
<1> QED BY <1>1

\* Multiplication commutes.
LEMMA MulCommutes == \A a, b \in Scalar : a ** b = b ** a
<1>1. ASSUME NEW a \in Scalar, NEW b \in Scalar PROVE a ** b = b ** a
  <2>1. a * b = b * a
    BY ScalarClosed
  <2> QED BY <2>1 DEF **
<1> QED BY <1>1

\* Addition associates.
LEMMA AddAssociates == \A a, b, c \in Scalar : (a ++ b) ++ c = a ++ (b ++ c)
<1> SUFFICES ASSUME NEW a \in Scalar, NEW b \in Scalar, NEW c \in Scalar
             PROVE  (a ++ b) ++ c = a ++ (b ++ c)
  OBVIOUS
<1>1. a \in Int /\ b \in Int /\ c \in Int
  BY ScalarClosed
<1>2. PICK d, e \in Int : d = a + b /\ e = b + c
  BY <1>1
<1>3. a = M(a) /\ b = M(b) /\ c = M(c)
  BY ScalarIsItsOwn
<1>4. (a ++ b) ++ c = M(d + c) /\ a ++ (b ++ c) = M(a + e)
  BY <1>1, <1>2, <1>3, MAdd
<1>5. d + c = a + e
  BY <1>1, <1>2
<1> QED BY <1>4, <1>5

\* Multiplication associates.
LEMMA MulAssociates == \A a, b, c \in Scalar : (a ** b) ** c = a ** (b ** c)
<1> SUFFICES ASSUME NEW a \in Scalar, NEW b \in Scalar, NEW c \in Scalar
             PROVE  (a ** b) ** c = a ** (b ** c)
  OBVIOUS
<1>1. a \in Int /\ b \in Int /\ c \in Int
  BY ScalarClosed
<1>2. PICK d, e \in Int : d = a * b /\ e = b * c
  BY <1>1
<1>3. a = M(a) /\ b = M(b) /\ c = M(c)
  BY ScalarIsItsOwn
<1>4. (a ** b) ** c = M(d * c) /\ a ** (b ** c) = M(a * e)
  BY <1>1, <1>2, <1>3, MMul
<1>5. d * c = a * e
  BY <1>1, <1>2
<1> QED BY <1>4, <1>5

\* And distributes over addition.
LEMMA Distributes == \A a, b, c \in Scalar : a ** (b ++ c) = a ** b ++ a ** c
<1> SUFFICES ASSUME NEW a \in Scalar, NEW b \in Scalar, NEW c \in Scalar
             PROVE  a ** (b ++ c) = a ** b ++ a ** c
  OBVIOUS
<1>1. a \in Int /\ b \in Int /\ c \in Int
  BY ScalarClosed
<1>2. PICK d, e, f \in Int : d = a * b /\ e = a * c /\ f = b + c
  BY <1>1
<1>3. a = M(a) /\ b = M(b) /\ c = M(c)
  BY ScalarIsItsOwn
<1>4. a ** b = M(d) /\ a ** c = M(e) /\ b ++ c = M(f)
  BY <1>1, <1>2, <1>3, MMul, MAdd
<1>5. a ** (b ++ c) = M(a * f) /\ a ** b ++ a ** c = M(d + e)
  BY <1>1, <1>2, <1>3, <1>4, MMul, MAdd
<1>6. a * f = d + e
  BY <1>1, <1>2
<1> QED BY <1>5, <1>6

\* Zero and one are the units.
LEMMA Units ==
  \A a \in Scalar : /\ a ++ 0 = a /\ 0 ++ a = a /\ a ** 1 = a /\ 1 ** a = a
                    /\ a ** 0 = 0 /\ 0 ** a = 0 /\ a -- a = 0
<1> SUFFICES ASSUME NEW a \in Scalar
             PROVE  a ++ 0 = a /\ a ** 1 = a /\ a ** 0 = 0 /\ a -- a = 0
  BY AddCommutes, MulCommutes, ScalarClosed
<1>. a \in Int /\ 0 \in Int /\ 1 \in Int
  BY ScalarClosed
<1>1. M(a) ++ M(0) = M(a + 0) /\ M(a) ** M(1) = M(a * 1) /\ M(a) ** M(0) = M(a * 0)
      /\ M(a) -- M(a) = M(a - a)
  BY Reduced
<1>2. a + 0 = a /\ a * 1 = a /\ a * 0 = 0 /\ a - a = 0
  OBVIOUS
<1> QED BY <1>1, <1>2, Reduced, ScalarClosed

\* Four terms or factors in another order.
LEMMA AddInterchanges ==
  \A a, b, c, d \in Scalar : (a ++ b) ++ (c ++ d) = (a ++ c) ++ (b ++ d)
<1> SUFFICES ASSUME NEW a \in Scalar, NEW b \in Scalar, NEW c \in Scalar, NEW d \in Scalar
             PROVE  (a ++ b) ++ (c ++ d) = (a ++ c) ++ (b ++ d)
  OBVIOUS
<1>1. /\ a ++ b \in Scalar /\ c ++ d \in Scalar /\ a ++ c \in Scalar /\ b ++ d \in Scalar
      /\ b ++ c \in Scalar
  BY ScalarClosed
<1>2. (a ++ b) ++ (c ++ d) = ((a ++ b) ++ c) ++ d /\ (a ++ b) ++ c = a ++ (b ++ c)
  BY <1>1, AddAssociates
<1>3. (a ++ c) ++ (b ++ d) = ((a ++ c) ++ b) ++ d /\ (a ++ c) ++ b = a ++ (c ++ b)
  BY <1>1, AddAssociates
<1> QED BY <1>2, <1>3, AddCommutes

\* The same for a product of products.
LEMMA MulInterchanges ==
  \A a, b, c, d \in Scalar : (a ** b) ** (c ** d) = (a ** c) ** (b ** d)
<1> SUFFICES ASSUME NEW a \in Scalar, NEW b \in Scalar, NEW c \in Scalar, NEW d \in Scalar
             PROVE  (a ** b) ** (c ** d) = (a ** c) ** (b ** d)
  OBVIOUS
<1>1. /\ a ** b \in Scalar /\ c ** d \in Scalar /\ a ** c \in Scalar /\ b ** d \in Scalar
      /\ b ** c \in Scalar
  BY ScalarClosed
<1>2. (a ** b) ** (c ** d) = ((a ** b) ** c) ** d /\ (a ** b) ** c = a ** (b ** c)
  BY <1>1, MulAssociates
<1>3. (a ** c) ** (b ** d) = ((a ** c) ** b) ** d /\ (a ** c) ** b = a ** (c ** b)
  BY <1>1, MulAssociates
<1> QED BY <1>2, <1>3, MulCommutes

\* Distribution from the other side.
LEMMA DistributesLeft == \A a, b, c \in Scalar : (a ++ b) ** c = a ** c ++ b ** c
<1> SUFFICES ASSUME NEW a \in Scalar, NEW b \in Scalar, NEW c \in Scalar
             PROVE  (a ++ b) ** c = a ** c ++ b ** c
  OBVIOUS
<1>1. (a ++ b) ** c = c ** (a ++ b) /\ a ** c = c ** a /\ b ** c = c ** b
  BY ScalarClosed, MulCommutes
<1> QED BY <1>1, Distributes

\* A product of two sums is four products.
LEMMA Expands ==
  \A a, b, c, d \in Scalar :
      (a ++ b) ** (c ++ d) = (a ** c ++ a ** d) ++ (b ** c ++ b ** d)
<1> SUFFICES ASSUME NEW a \in Scalar, NEW b \in Scalar, NEW c \in Scalar, NEW d \in Scalar
             PROVE  (a ++ b) ** (c ++ d) = (a ** c ++ a ** d) ++ (b ** c ++ b ** d)
  OBVIOUS
<1>1. c ++ d \in Scalar
  BY ScalarClosed
<1>2. (a ++ b) ** (c ++ d) = a ** (c ++ d) ++ b ** (c ++ d)
  BY <1>1, DistributesLeft
<1>3. a ** (c ++ d) = a ** c ++ a ** d /\ b ** (c ++ d) = b ** c ++ b ** d
  BY Distributes
<1> QED BY <1>2, <1>3

-----------------------------------------------------------------------------
(* Order is prime: a field.                                                *)

\* A product is zero only if a factor is.  Of the factors that annihilate b,
\* the least one d but zero divides the order: so d is 1, and b is zero.
LEMMA NoZeroDivisors ==
  ASSUME NEW a \in Scalar, NEW b \in Scalar, a ** b = 0
  PROVE  a = 0 \/ b = 0
<1> SUFFICES ASSUME a # 0 PROVE b = 0
  OBVIOUS
<1> DEFINE T == {d \in Nat : d # 0 /\ M(d * b) = 0}
<1>1. a \in T
  BY ScalarClosed, OrderAssumption DEF Scalar, M, **
<1>2. PICK d \in T : \A e \in T : d <= e
  <2> HIDE DEF T
  <2>1. T \subseteq Nat
    BY DEF T
  <2> QED BY <1>1, <2>1, LeastElement
<1>3. d \in Nat /\ d # 0 /\ M(d * b) = 0 /\ d <= a
  BY <1>1, <1>2
<1>4. PICK q, r \in Int : q = Order \div d /\ r = Order % d /\ r \in 0..(d - 1)
                          /\ Order = q * d + r
  <2>1. d \in Nat \ {0} /\ Order \in Int
    BY <1>3, OrderAssumption
  <2>2. Order \div d \in Int /\ (Order % d) \in 0..(d - 1)
        /\ Order = (Order \div d) * d + (Order % d)
    BY <2>1, DivMod
  <2>3. (Order % d) \in Int
    BY <2>1, <2>2
  <2> QED BY <2>2, <2>3
<1>5. M(r * b) = 0
  <2>1. r * b = Order * b - q * (d * b)
    <3>1. r = Order - q * d
      BY <1>3, <1>4, OrderAssumption
    <3>2. \A o, c, e, f \in Int : (o - c * e) * f = o * f - c * (e * f)
      OBVIOUS
    <3> QED BY <1>3, <1>4, <3>1, <3>2, ScalarClosed, OrderAssumption
  <2>2. PICK x, y \in Int : x = d * b /\ y = q * x
    BY <1>3, <1>4, ScalarClosed
  <2>3. M(q) ** M(x) = M(y) /\ M(x) = 0
    BY <1>3, <1>4, <2>2, MMul
  <2>4. M(y) = 0
    BY <1>4, <2>3, Units, ScalarOfInt
  <2>9. PICK l \in Int : y = M(y) + l * Order
    BY ScalarOfInt
  <2>5. y = l * Order
    BY <2>4, <2>9, OrderAssumption
  <2>6. r * b = 0 + (b - l) * Order
    <3>1. Order * b - l * Order = (b - l) * Order
      BY OrderAssumption, ScalarClosed
    <3> QED BY <2>1, <2>2, <2>5, <3>1, OrderAssumption, ScalarClosed
  <2>7. b - l \in Int /\ 0 \in Int
    BY ScalarClosed
  <2>8. M(0 + (b - l) * Order) = M(0)
    BY <2>7, ModShift
  <2> QED BY <2>6, <2>8, ScalarIsItsOwn, ScalarClosed
<1>6. r = 0
  <2>1. CASE r # 0
    <3>1. r \in T
      BY <1>4, <1>5, <2>1, <1>3
    <3> HIDE DEF T
    <3> QED BY <1>2, <1>3, <1>4, <3>1
  <2> QED BY <2>1
<1>7. d = 1
  <2>1. d <= Order - 1 /\ Order % d = 0
    BY <1>3, <1>4, <1>6, OrderAssumption DEF Scalar
  <2> QED BY <1>3, <2>1, PrimeAssumption, OrderAssumption
<1> QED BY <1>3, <1>7, ScalarIsItsOwn, ScalarClosed

-----------------------------------------------------------------------------
(* Sums.                                                                   *)

\* f starts from base and takes step k from each f[k - 1]; a step stays in S.
Recursive(f, n, base, step) ==
    f[0] = base /\ \A k \in 1..n : f[k] = step[<<k, f[k - 1]>>]

\* What a step yields from a value in S is in S.
StaysIn(S, n, step) == \A k \in 1..n : \A a \in S : step[<<k, a>>] \in S

\* A function defined by a recursion that stays in a set exists.
LEMMA RecursionExists ==
  ASSUME NEW n \in Nat, NEW S, NEW base \in S, NEW step, StaysIn(S, n, step)
  PROVE  \E f \in [0..n -> S] : Recursive(f, n, base, step)
<1> DEFINE T == {m \in 0..n : \E f \in [0..m -> S] : Recursive(f, m, base, step)}
<1>1. 0 \in T
  <2> DEFINE f == [k \in 0..0 |-> base]
  <2>1. f \in [0..0 -> S] /\ f[0] = base
    OBVIOUS
  <2> HIDE DEF f
  <2>2. Recursive(f, 0, base, step)
    BY <2>1 DEF Recursive
  <2> QED BY <2>1, <2>2
<1>2. ASSUME NEW m \in 0..(n - 1), m \in T PROVE m + 1 \in T
  <2>1. PICK f \in [0..m -> S] : Recursive(f, m, base, step)
    BY <1>2
  <2>2. m + 1 \in 1..n /\ f[m] \in S
    BY <1>2
  <2>3. PICK e \in S : e = step[<<m + 1, f[m]>>]
    BY <2>2 DEF StaysIn
  <2> DEFINE g == [k \in 0..(m + 1) |-> IF k = m + 1 THEN e ELSE f[k]]
  <2>4. g \in [0..(m + 1) -> S]
    BY <2>2
  <2>5. /\ g[0] = f[0] /\ g[m + 1] = e
        /\ \A k \in 0..m : g[k] = f[k]
    BY <1>2
  <2>6. Recursive(g, m + 1, base, step)
    <3> HIDE DEF g
    <3>1. g[0] = base
      BY <2>1, <2>5 DEF Recursive
    <3>2. ASSUME NEW k \in 1..(m + 1) PROVE g[k] = step[<<k, g[k - 1]>>]
      <4>1. CASE k = m + 1
        <5>1. k - 1 = m /\ m \in 0..m
          BY <1>2, <4>1
        <5> QED BY <2>3, <2>5, <4>1, <5>1
      <4>2. CASE k # m + 1
        <5>1. k \in 1..m /\ k \in 0..m /\ k - 1 \in 0..m
          BY <1>2, <4>2
        <5>2. f[k] = step[<<k, f[k - 1]>>]
          BY <2>1, <5>1 DEF Recursive
        <5> QED BY <2>5, <5>1, <5>2
      <4> QED BY <4>1, <4>2
    <3> QED BY <3>1, <3>2 DEF Recursive
  <2> HIDE DEF g
  <2> QED BY <1>2, <2>4, <2>6
<1>3. n \in T
  <2> HIDE DEF T
  <2>1. \A m \in 0..n : m \in T
    BY <1>1, <1>2, InductionUpTo
  <2> QED BY <2>1
<1> QED BY <1>3

\* t holds the sums of the first entries of v.
Sums(t, n, v) == t[0] = 0 /\ \A k \in 1..n : t[k] = t[k - 1] ++ v[k]

\* What SumOf computes: the sum of nothing is zero, and every entry is added.
LEMMA SumRecursion ==
  ASSUME NEW n \in Nat, NEW v \in [1..n -> Scalar]
  PROVE  \E t \in [0..n -> Scalar] : SumOf(v) = t[n] /\ Sums(t, n, v)
<1>1. Len(v) = n
  BY DEF Scalar
<1> DEFINE P(t) == t = [k \in 0..n |-> IF k = 0 THEN 0 ELSE t[k - 1] ++ v[k]]
<1>2. \E t \in [0..n -> Scalar] : P(t)
  <2>5. PICK step : step = [p \in (1..n) \X Scalar |-> p[2] ++ v[p[1]]]
    OBVIOUS
  <2>1. StaysIn(Scalar, n, step)
    <3>1. \A k \in 1..n : \A a \in Scalar : a ++ v[k] \in Scalar
      BY ScalarClosed
    <3> QED BY <2>5, <3>1 DEF StaysIn
  <2>2. PICK t \in [0..n -> Scalar] : Recursive(t, n, 0, step)
    BY <2>1, ScalarClosed, RecursionExists
  <2>3. ASSUME NEW k \in 1..n PROVE t[k] = t[k - 1] ++ v[k]
    <3>1. <<k, t[k - 1]>> \in (1..n) \X Scalar
      OBVIOUS
    <3>2. t[k] = step[<<k, t[k - 1]>>]
      BY <2>2 DEF Recursive
    <3> QED BY <2>5, <3>1, <3>2
  <2>4. \A k \in 0..n : t[k] = IF k = 0 THEN 0 ELSE t[k - 1] ++ v[k]
    <3>1. ASSUME NEW k \in 0..n, k # 0 PROVE k \in 1..n
      BY <3>1
    <3> QED BY <2>2, <2>3, <3>1 DEF Recursive
  <2> QED BY <2>4
<1> DEFINE total == CHOOSE t : P(t)
<1>3. P(total)
  BY <1>2
<1>4. SumOf(v) = total[n]
  BY <1>1 DEF SumOf, SumOfFirst
<1> HIDE DEF total
<1>5. \A k \in 0..n : total[k] = IF k = 0 THEN 0 ELSE total[k - 1] ++ v[k]
  BY <1>3
<1>6. \A k \in 0..n : total[k] \in Scalar
  <2> DEFINE T == {k \in 0..n : total[k] \in Scalar}
  <2>1. 0 \in T
    BY <1>5, ScalarClosed
  <2>2. ASSUME NEW k \in 0..(n - 1), k \in T PROVE k + 1 \in T
    <3>1. k + 1 \in 0..n /\ k + 1 # 0 /\ (k + 1) - 1 = k /\ v[k + 1] \in Scalar
      OBVIOUS
    <3>2. total[k + 1] = total[k] ++ v[k + 1]
      BY <1>5, <3>1
    <3> QED BY <2>2, <3>1, <3>2, ScalarClosed
  <2>3. \A k \in 0..n : k \in T
    <3> HIDE DEF T
    <3> QED BY <2>1, <2>2, InductionUpTo
  <2> QED BY <2>3
<1>7. total \in [0..n -> Scalar]
  BY <1>3, <1>6
<1>8. Sums(total, n, v)
  BY <1>5 DEF Sums
<1> QED BY <1>4, <1>7, <1>8

-----------------------------------------------------------------------------
(* Sums of vectors.                                                        *)

\* Vectors of n scalars.
Vec(n) == [1..n -> Scalar]

\* The sum of the first n entries of n entries is their sum.
LEMMA SumOfAll ==
  ASSUME NEW n \in Nat, NEW v \in Vec(n)
  PROVE  SumOfFirst(n, v) = SumOf(v)
<1>1. Len(v) = n
  BY DEF Vec
<1> QED BY <1>1 DEF SumOf

\* Whatever adds up the entries one after the other is the sum.
LEMMA SumUnique ==
  ASSUME NEW n \in Nat, NEW v \in Vec(n), NEW t, Sums(t, n, v)
  PROVE  SumOf(v) = t[n]
<1>1. v \in [1..n -> Scalar]
  BY DEF Vec
<1>2. PICK s \in [0..n -> Scalar] : SumOf(v) = s[n] /\ Sums(s, n, v)
  BY <1>1, SumRecursion
<1> DEFINE T == {k \in 0..n : s[k] = t[k]}
<1>3. 0 \in T
  BY <1>2 DEF Sums
<1>4. ASSUME NEW k \in 0..(n - 1), k \in T PROVE k + 1 \in T
  <2>1. k + 1 \in 1..n /\ (k + 1) - 1 = k
    OBVIOUS
  <2>2. s[k + 1] = s[k] ++ v[k + 1] /\ t[k + 1] = t[k] ++ v[k + 1]
    BY <1>2, <2>1 DEF Sums
  <2> QED BY <1>4, <2>1, <2>2
<1>5. \A k \in 0..n : k \in T
  <2> HIDE DEF T
  <2> QED BY <1>3, <1>4, InductionUpTo
<1> QED BY <1>2, <1>5

\* The sum of a vector is a scalar.
LEMMA SumClosed ==
  ASSUME NEW n \in Nat, NEW v \in Vec(n)
  PROVE  SumOf(v) \in Scalar
BY SumRecursion DEF Vec

\* The partial sums of v.
LEMMA PartialSums ==
  ASSUME NEW n \in Nat, NEW v \in Vec(n)
  PROVE  \E t \in [0..n -> Scalar] : SumOf(v) = t[n] /\ Sums(t, n, v)
BY SumRecursion DEF Vec

\* The sum of no entries.
LEMMA SumOfNothing ==
  ASSUME NEW v \in Vec(0)
  PROVE  SumOf(v) = 0
<1>1. PICK t \in [0..0 -> Scalar] : SumOf(v) = t[0] /\ Sums(t, 0, v)
  BY PartialSums
<1> QED BY <1>1 DEF Sums

\* The sum of one entry.
LEMMA SumOfOne ==
  ASSUME NEW v \in Vec(1)
  PROVE  SumOf(v) = v[1]
<1>1. PICK t \in [0..1 -> Scalar] : SumOf(v) = t[1] /\ Sums(t, 1, v)
  BY PartialSums
<1>2. t[1] = 0 ++ v[1] /\ v[1] \in Scalar
  BY <1>1 DEF Sums, Vec
<1> QED BY <1>1, <1>2, Units

\* The sum of the first entries and one more.
LEMMA SumExtend ==
  ASSUME NEW n \in Nat, NEW v \in Vec(n + 1), NEW w \in Vec(n), \A k \in 1..n : w[k] = v[k]
  PROVE  SumOf(v) = SumOf(w) ++ v[n + 1]
<1>1. PICK t \in [0..(n + 1) -> Scalar] : SumOf(v) = t[n + 1] /\ Sums(t, n + 1, v)
  BY PartialSums
<1>2. Sums(t, n, w)
  BY <1>1 DEF Sums
<1>3. SumOf(w) = t[n]
  BY <1>2, SumUnique
<1>4. n + 1 \in 1..(n + 1) /\ (n + 1) - 1 = n
  OBVIOUS
<1>5. t[n + 1] = t[n] ++ v[n + 1]
  BY <1>1, <1>4 DEF Sums
<1> QED BY <1>1, <1>3, <1>5

\* Entry by entry.
LEMMA SumAdd ==
  ASSUME NEW n \in Nat, NEW v \in Vec(n), NEW w \in Vec(n), NEW x \in Vec(n),
         \A k \in 1..n : x[k] = v[k] ++ w[k]
  PROVE  SumOf(x) = SumOf(v) ++ SumOf(w)
<1>1. PICK s \in [0..n -> Scalar] : SumOf(v) = s[n] /\ Sums(s, n, v)
  BY PartialSums
<1>2. PICK t \in [0..n -> Scalar] : SumOf(w) = t[n] /\ Sums(t, n, w)
  BY PartialSums
<1>3. PICK u : u = [k \in 0..n |-> s[k] ++ t[k]]
  OBVIOUS
<1>4. u[0] = 0
  BY <1>1, <1>2, <1>3, Units, ScalarClosed DEF Sums
<1>5. ASSUME NEW k \in 1..n PROVE u[k] = u[k - 1] ++ x[k]
  <2>1. k - 1 \in 0..n /\ k \in 0..n
    OBVIOUS
  <2>2. s[k - 1] \in Scalar /\ t[k - 1] \in Scalar /\ v[k] \in Scalar /\ w[k] \in Scalar
    BY <2>1 DEF Vec
  <2>3. u[k] = (s[k - 1] ++ v[k]) ++ (t[k - 1] ++ w[k])
    BY <1>1, <1>2, <1>3, <2>1 DEF Sums
  <2>4. u[k - 1] = s[k - 1] ++ t[k - 1]
    BY <1>3, <2>1
  <2>5. x[k] = v[k] ++ w[k]
    OBVIOUS
  <2> QED BY <2>2, <2>3, <2>4, <2>5, AddInterchanges
<1>6. Sums(u, n, x)
  BY <1>4, <1>5 DEF Sums
<1>7. u[n] = s[n] ++ t[n]
  BY <1>3
<1> QED BY <1>1, <1>2, <1>6, <1>7, SumUnique

\* A factor of every entry is a factor of the sum.
LEMMA SumScale ==
  ASSUME NEW n \in Nat, NEW v \in Vec(n), NEW c \in Scalar, NEW x \in Vec(n),
         \A k \in 1..n : x[k] = c ** v[k]
  PROVE  SumOf(x) = c ** SumOf(v)
<1>1. PICK s \in [0..n -> Scalar] : SumOf(v) = s[n] /\ Sums(s, n, v)
  BY PartialSums
<1>3. PICK u : u = [k \in 0..n |-> c ** s[k]]
  OBVIOUS
<1>4. u[0] = 0
  BY <1>1, <1>3, Units, ScalarClosed DEF Sums
<1>5. ASSUME NEW k \in 1..n PROVE u[k] = u[k - 1] ++ x[k]
  <2>1. k - 1 \in 0..n /\ k \in 0..n
    OBVIOUS
  <2>2. s[k - 1] \in Scalar /\ v[k] \in Scalar
    BY <2>1 DEF Vec
  <2>3. u[k] = c ** (s[k - 1] ++ v[k])
    BY <1>1, <1>3, <2>1 DEF Sums
  <2>4. u[k - 1] = c ** s[k - 1]
    BY <1>3, <2>1
  <2>5. x[k] = c ** v[k]
    OBVIOUS
  <2> QED BY <2>2, <2>3, <2>4, <2>5, Distributes
<1>6. Sums(u, n, x)
  BY <1>4, <1>5 DEF Sums
<1>7. u[n] = c ** s[n]
  BY <1>3
<1> QED BY <1>1, <1>6, <1>7, SumUnique

\* One vector after the other.
LEMMA SumThen ==
  ASSUME NEW n \in Nat, NEW m \in Nat, NEW v \in Vec(n), NEW w \in Vec(m),
         NEW x \in Vec(n + m),
         \A k \in 1..n : x[k] = v[k], \A k \in 1..m : x[n + k] = w[k]
  PROVE  SumOf(x) = SumOf(v) ++ SumOf(w)
<1>1. PICK s \in [0..n -> Scalar] : SumOf(v) = s[n] /\ Sums(s, n, v)
  BY PartialSums
<1>2. PICK t \in [0..m -> Scalar] : SumOf(w) = t[m] /\ Sums(t, m, w)
  BY PartialSums
<1>3. PICK u : u = [k \in 0..(n + m) |-> IF k <= n THEN s[k] ELSE s[n] ++ t[k - n]]
  OBVIOUS
<1>4. u[0] = 0
  BY <1>1, <1>3 DEF Sums
<1>8. \A k \in 0..m : u[n + k] = s[n] ++ t[k]
  <2>1. ASSUME NEW k \in 0..m PROVE u[n + k] = s[n] ++ t[k]
    <3>1. n + k \in 0..(n + m) /\ (n + k) - n = k /\ (n + k <= n <=> k = 0)
      OBVIOUS
    <3>2. CASE k = 0
      <4>1. u[n + k] = s[n] /\ t[k] = 0 /\ s[n] \in Scalar
        BY <1>2, <1>3, <3>1, <3>2 DEF Sums
      <4> QED BY <4>1, Units
    <3>3. CASE k # 0
      BY <1>3, <3>1, <3>3
    <3> QED BY <3>2, <3>3
  <2> QED BY <2>1
<1>5. ASSUME NEW k \in 1..(n + m) PROVE u[k] = u[k - 1] ++ x[k]
  <2>1. CASE k <= n
    <3>1. k \in 1..n /\ k - 1 \in 0..n /\ k \in 0..(n + m) /\ k - 1 \in 0..(n + m)
      BY <2>1
    <3>2. u[k] = s[k] /\ u[k - 1] = s[k - 1]
      BY <1>3, <3>1
    <3>3. s[k] = s[k - 1] ++ v[k]
      BY <1>1, <3>1 DEF Sums
    <3> QED BY <3>1, <3>2, <3>3
  <2>2. CASE ~(k <= n)
    <3>1. PICK l \in 1..m : k = n + l
      <4>1. k - n \in 1..m /\ k = n + (k - n)
        BY <2>2
      <4> QED BY <4>1
    <3>2. l \in 0..m /\ l - 1 \in 0..m /\ k - 1 = n + (l - 1)
      BY <3>1
    <3>3. u[k] = s[n] ++ t[l] /\ u[k - 1] = s[n] ++ t[l - 1]
      BY <1>8, <3>1, <3>2
    <3>4. t[l] = t[l - 1] ++ w[l] /\ x[k] = w[l]
      BY <1>2, <3>1 DEF Sums
    <3>5. s[n] \in Scalar /\ t[l - 1] \in Scalar /\ w[l] \in Scalar
      BY <3>2 DEF Vec
    <3>6. s[n] ++ (t[l - 1] ++ w[l]) = (s[n] ++ t[l - 1]) ++ w[l]
      BY <3>5, AddAssociates
    <3> QED BY <3>3, <3>4, <3>6
  <2> QED BY <2>1, <2>2
<1>6. Sums(u, n + m, x)
  BY <1>4, <1>5 DEF Sums
<1>7. u[n + m] = s[n] ++ t[m]
  BY <1>8
<1>9. n + m \in Nat
  OBVIOUS
<1> QED BY <1>1, <1>2, <1>6, <1>7, <1>9, SumUnique

\* Odd places and even places.
LEMMA SumPairs ==
  ASSUME NEW n \in Nat, NEW v \in Vec(n), NEW w \in Vec(n), NEW x \in Vec(2 * n),
         \A k \in 1..n : x[2 * k - 1] = v[k] /\ x[2 * k] = w[k]
  PROVE  SumOf(x) = SumOf(v) ++ SumOf(w)
<1>1. PICK s \in [0..n -> Scalar] : SumOf(v) = s[n] /\ Sums(s, n, v)
  BY PartialSums
<1>2. PICK t \in [0..n -> Scalar] : SumOf(w) = t[n] /\ Sums(t, n, w)
  BY PartialSums
<1>3. PICK u : u = [k \in 0..(2 * n) |-> s[(k + 1) \div 2] ++ t[k \div 2]]
  OBVIOUS
<1>4. \A k \in 0..n : u[2 * k] = s[k] ++ t[k]
  <2>1. ASSUME NEW k \in 0..n PROVE u[2 * k] = s[k] ++ t[k]
    <3>1. 2 * k \in 0..(2 * n) /\ (2 * k + 1) \div 2 = k /\ (2 * k) \div 2 = k
      OBVIOUS
    <3> QED BY <1>3, <3>1
  <2> QED BY <2>1
<1>5. \A k \in 1..n : u[2 * k - 1] = s[k] ++ t[k - 1]
  <2>1. ASSUME NEW k \in 1..n PROVE u[2 * k - 1] = s[k] ++ t[k - 1]
    <3>1. /\ 2 * k - 1 \in 0..(2 * n) /\ ((2 * k - 1) + 1) \div 2 = k
          /\ (2 * k - 1) \div 2 = k - 1
      OBVIOUS
    <3> QED BY <1>3, <3>1
  <2> QED BY <2>1
<1>6. u[0] = 0
  <2>1. 2 * 0 = 0 /\ 0 \in 0..n
    OBVIOUS
  <2>2. u[0] = s[0] ++ t[0] /\ s[0] = 0 /\ t[0] = 0
    BY <1>1, <1>2, <1>4, <2>1 DEF Sums
  <2> QED BY <2>2, Units, ScalarClosed
<1>7. ASSUME NEW k \in 1..(2 * n) PROVE u[k] = u[k - 1] ++ x[k]
  <2>1. PICK l \in 1..n : k = 2 * l - 1 \/ k = 2 * l
    <3>1. (k + 1) \div 2 \in 1..n /\ (k = 2 * ((k + 1) \div 2) - 1 \/ k = 2 * ((k + 1) \div 2))
      OBVIOUS
    <3> QED BY <3>1
  <2>2. l \in 0..n /\ l - 1 \in 0..n /\ 2 * l - 2 = 2 * (l - 1)
    OBVIOUS
  <2>3. /\ s[l] \in Scalar /\ t[l] \in Scalar /\ s[l - 1] \in Scalar /\ t[l - 1] \in Scalar
        /\ v[l] \in Scalar /\ w[l] \in Scalar
    BY <2>2 DEF Vec
  <2>4. s[l] = s[l - 1] ++ v[l] /\ t[l] = t[l - 1] ++ w[l]
    BY <1>1, <1>2 DEF Sums
  <2>5. CASE k = 2 * l - 1
    <3>1. k - 1 = 2 * (l - 1)
      BY <2>5
    <3>2. u[k] = (s[l - 1] ++ v[l]) ++ t[l - 1] /\ u[k - 1] = s[l - 1] ++ t[l - 1]
          /\ x[k] = v[l]
      BY <1>4, <1>5, <2>2, <2>4, <2>5, <3>1
    <3>3. (s[l - 1] ++ v[l]) ++ t[l - 1] = s[l - 1] ++ (v[l] ++ t[l - 1])
          /\ (s[l - 1] ++ t[l - 1]) ++ v[l] = s[l - 1] ++ (t[l - 1] ++ v[l])
      BY <2>3, AddAssociates
    <3> QED BY <2>3, <3>2, <3>3, AddCommutes
  <2>6. CASE k = 2 * l
    <3>1. k - 1 = 2 * l - 1
      BY <2>6
    <3>2. u[k] = s[l] ++ (t[l - 1] ++ w[l]) /\ u[k - 1] = s[l] ++ t[l - 1] /\ x[k] = w[l]
      BY <1>4, <1>5, <2>2, <2>4, <2>6, <3>1
    <3> QED BY <2>3, <3>2, AddAssociates
  <2> QED BY <2>1, <2>5, <2>6
<1>8. Sums(u, 2 * n, x)
  BY <1>6, <1>7 DEF Sums
<1>9. u[2 * n] = s[n] ++ t[n] /\ 2 * n \in Nat
  BY <1>4
<1> QED BY <1>1, <1>2, <1>8, <1>9, SumUnique

-----------------------------------------------------------------------------
(* Powers: the binary exponentiation of scalar_exp_vartime.                *)

\* p holds the first powers of a.
Powers(p, n, a) == p[0] = 1 /\ \A k \in 1..n : p[k] = p[k - 1] ** a

\* The power itself, read from a table.
Power(a, n) == CHOOSE c : \E p \in [0..n -> Scalar] : Powers(p, n, a) /\ c = p[n]

\* There is a table of the first powers.
LEMMA PowersExist ==
  ASSUME NEW n \in Nat, NEW a \in Scalar
  PROVE  \E p \in [0..n -> Scalar] : Powers(p, n, a)
<1>1. PICK step : step = [q \in (1..n) \X Scalar |-> q[2] ** a]
  OBVIOUS
<1>2. StaysIn(Scalar, n, step)
  <2>1. \A b \in Scalar : b ** a \in Scalar
    BY ScalarClosed
  <2> QED BY <1>1, <2>1 DEF StaysIn
<1>3. PICK p \in [0..n -> Scalar] : Recursive(p, n, 1, step)
  BY <1>2, ScalarClosed, RecursionExists
<1>4. ASSUME NEW k \in 1..n PROVE p[k] = p[k - 1] ** a
  <2>1. <<k, p[k - 1]>> \in (1..n) \X Scalar
    OBVIOUS
  <2>2. p[k] = step[<<k, p[k - 1]>>]
    BY <1>3 DEF Recursive
  <2> QED BY <1>1, <2>1, <2>2
<1> QED BY <1>3, <1>4 DEF Powers, Recursive

\* There is one only, and Power reads it.
LEMMA PowersUnique ==
  ASSUME NEW n \in Nat, NEW a \in Scalar, NEW p, Powers(p, n, a)
  PROVE  Power(a, n) = p[n] /\ Power(a, n) \in Scalar
<1>1. ASSUME NEW q, Powers(q, n, a) PROVE q[n] = p[n]
  <2> DEFINE T == {k \in 0..n : q[k] = p[k]}
  <2>1. 0 \in T
    BY <1>1 DEF Powers
  <2>2. ASSUME NEW k \in 0..(n - 1), k \in T PROVE k + 1 \in T
    <3>1. k + 1 \in 1..n /\ (k + 1) - 1 = k
      OBVIOUS
    <3>2. q[k + 1] = q[k] ** a /\ p[k + 1] = p[k] ** a
      BY <1>1, <3>1 DEF Powers
    <3> QED BY <2>2, <3>1, <3>2
  <2>3. \A k \in 0..n : k \in T
    <3> HIDE DEF T
    <3> QED BY <2>1, <2>2, InductionUpTo
  <2> QED BY <2>3
<1>2. PICK q \in [0..n -> Scalar] : Powers(q, n, a)
  BY PowersExist
<1>3. \E c : \E r \in [0..n -> Scalar] : Powers(r, n, a) /\ c = r[n]
  BY <1>2
<1>4. \E r \in [0..n -> Scalar] : Powers(r, n, a) /\ Power(a, n) = r[n]
  BY <1>3 DEF Power
<1> QED BY <1>1, <1>4

\* So Power has the recursion of its definition, for all exponents.
LEMMA PowerRecursion ==
  ASSUME NEW a \in Scalar
  PROVE  /\ Power(a, 0) = 1
         /\ \A n \in Nat : /\ Power(a, n) \in Scalar
                           /\ Power(a, n + 1) = Power(a, n) ** a
<1>1. ASSUME NEW n \in Nat
      PROVE  Power(a, n) \in Scalar /\ Power(a, n + 1) = Power(a, n) ** a
  <2>7. n + 1 \in Nat
    OBVIOUS
  <2>1. PICK p \in [0..(n + 1) -> Scalar] : Powers(p, n + 1, a)
    BY <2>7, PowersExist
  <2>2. Powers(p, n, a)
    BY <2>1 DEF Powers
  <2>3. Power(a, n) = p[n] /\ Power(a, n) \in Scalar
    BY <2>2, PowersUnique
  <2>4. Power(a, n + 1) = p[n + 1]
    BY <2>1, PowersUnique
  <2>5. n + 1 \in 1..(n + 1) /\ (n + 1) - 1 = n
    OBVIOUS
  <2>6. p[n + 1] = p[n] ** a
    BY <2>1, <2>5 DEF Powers
  <2> QED BY <2>3, <2>4, <2>6
<1>2. Power(a, 0) = 1
  <2>1. PICK p \in [0..0 -> Scalar] : Powers(p, 0, a)
    BY PowersExist
  <2> QED BY <2>1, PowersUnique DEF Powers
<1> QED BY <1>1, <1>2

\* Half the exponent of the square is the same power.
LEMMA PowerOfSquare ==
  ASSUME NEW a \in Scalar, NEW n \in Nat
  PROVE  Power(a ** a, n) = Power(a, 2 * n)
<1> DEFINE T == {k \in Nat : Power(a ** a, k) = Power(a, 2 * k)}
<1>1. 0 \in T
  <2>1. a ** a \in Scalar /\ 2 * 0 = 0
    BY ScalarClosed
  <2> QED BY <2>1, PowerRecursion
<1>2. ASSUME NEW k \in Nat, k \in T PROVE k + 1 \in T
  <2>1. a ** a \in Scalar /\ 2 * (k + 1) = (2 * k + 1) + 1 /\ 2 * k \in Nat /\ 2 * k + 1 \in Nat
    BY ScalarClosed
  <2>2. Power(a, 2 * (k + 1)) = (Power(a, 2 * k) ** a) ** a /\ Power(a, 2 * k) \in Scalar
    BY <2>1, PowerRecursion
  <2>3. Power(a ** a, k + 1) = Power(a ** a, k) ** (a ** a)
    BY <2>1, PowerRecursion
  <2> QED BY <1>2, <2>2, <2>3, MulAssociates
<1>3. \A k \in Nat : k \in T
  <2> HIDE DEF T
  <2> QED BY <1>1, <1>2, InductionOnNat
<1> QED BY <1>3

\* Binary exponentiation computes the power.
LEMMA ExpIsPower ==
  ASSUME NEW x \in Scalar, NEW n \in Nat
  PROVE  scalar_exp_vartime(x, n) = Power(x, n)
<1> DEFINE D == Nat \X Scalar \X Scalar
           body(f, s) == IF s[1] = 0 THEN s[3]
                         ELSE f[<<s[1] \div 2, s[2] ** s[2],
                                  IF s[1] % 2 = 1 THEN s[3] ** s[2] ELSE s[3]>>]
           P(f) == f = [s \in D |-> body(f, s)]
           value(s) == s[3] ** Power(s[2], s[1])
           next(s) == <<s[1] \div 2, s[2] ** s[2],
                        IF s[1] % 2 = 1 THEN s[3] ** s[2] ELSE s[3]>>
<1>1. ASSUME NEW s \in D, s[1] # 0
      PROVE  /\ next(s) \in D /\ next(s)[1] < s[1]
             /\ value(next(s)) = value(s)
  <2>1. PICK m \in Nat, a \in Scalar, r \in Scalar : s = <<m, a, r>>
    OBVIOUS
  <2>2. m # 0
    BY <1>1, <2>1
  <2>3. PICK h \in Nat : h = m \div 2 /\ h < m /\ (m = 2 * h \/ m = 2 * h + 1)
                         /\ (m % 2 = 1 <=> m = 2 * h + 1)
    <3>1. m \div 2 \in Nat /\ m \div 2 < m /\ (m = 2 * (m \div 2) \/ m = 2 * (m \div 2) + 1)
          /\ (m % 2 = 1 <=> m = 2 * (m \div 2) + 1)
      BY <2>2
    <3> QED BY <3>1
  <2>4. a ** a \in Scalar /\ r ** a \in Scalar
    BY ScalarClosed
  <2>5. PICK q \in Scalar : q = IF m % 2 = 1 THEN r ** a ELSE r
    BY <2>4
  <2>6. next(s) = <<h, a ** a, q>>
    BY <2>1, <2>3, <2>5
  <2>7. next(s) \in D /\ next(s)[1] < s[1]
    BY <2>1, <2>3, <2>4, <2>6
  <2>8. value(s) = r ** Power(a, m)
    BY <2>1
  <2>9. value(next(s)) = q ** Power(a, 2 * h)
    <3>1. value(next(s)) = q ** Power(a ** a, h)
      BY <2>6
    <3> HIDE DEF value, next
    <3> QED BY <3>1, PowerOfSquare
  <2>10. q ** Power(a, 2 * h) = r ** Power(a, m)
    <3>1. 2 * h \in Nat /\ Power(a, 2 * h) \in Scalar
      <4>1. 2 * h \in Nat
        OBVIOUS
      <4> QED BY <4>1, PowerRecursion
    <3>2. CASE m = 2 * h
      <4>1. q = r
        BY <2>3, <2>5, <3>2
      <4> QED BY <4>1, <3>2
    <3>3. CASE m # 2 * h
      <4>1. q = r ** a /\ m = 2 * h + 1
        BY <2>3, <2>5, <3>3
      <4>2. Power(a, m) = Power(a, 2 * h) ** a
        BY <3>1, <4>1, PowerRecursion
      <4>3. (r ** a) ** Power(a, 2 * h) = r ** (a ** Power(a, 2 * h))
        BY <3>1, MulAssociates
      <4> QED BY <3>1, <4>1, <4>2, <4>3, MulCommutes
    <3> QED BY <3>2, <3>3
  <2> QED BY <2>7, <2>8, <2>9, <2>10
<1>2. ASSUME NEW s \in D, s[1] = 0 PROVE value(s) = s[3]
  <2>1. PICK m \in Nat, a \in Scalar, r \in Scalar : s = <<m, a, r>>
    OBVIOUS
  <2>2. m = 0 /\ s[2] = a /\ s[3] = r /\ s[1] = 0
    BY <1>2, <2>1
  <2>3. Power(a, 0) = 1
    BY PowerRecursion
  <2>4. value(s) = r ** Power(a, 0)
    BY <2>2
  <2> HIDE DEF value
  <2> QED BY <2>2, <2>3, <2>4, Units
<1> DEFINE go == CHOOSE f : P(f)
<1>3. P(go)
  <2>1. PICK f : f = [s \in D |-> value(s)]
    OBVIOUS
  <2>2. ASSUME NEW s \in D PROVE f[s] = body(f, s)
    <3>1. CASE s[1] = 0
      <4>1. body(f, s) = s[3] /\ f[s] = value(s)
        BY <2>1, <3>1
      <4> HIDE DEF value, body, D
      <4> QED BY <1>2, <3>1, <4>1
    <3>2. CASE s[1] # 0
      <4>1. body(f, s) = f[next(s)]
        BY <3>2
      <4> HIDE DEF value, body, D, next
      <4> QED BY <1>1, <2>1, <3>2, <4>1
    <3> QED BY <3>1, <3>2
  <2>3. f = [s \in D |-> f[s]]
    <3> HIDE DEF value, D
    <3> QED BY <2>1
  <2>4. P(f)
    <3> HIDE DEF body, D
    <3> QED BY <2>2, <2>3
  <2> HIDE DEF P
  <2> QED BY <2>4
<1>4. scalar_exp_vartime(x, n) = go[<<n, x % Order, 1 % Order>>]
  BY DEF scalar_exp_vartime
<1>5. x % Order = x /\ 1 % Order = 1
  BY ScalarIsItsOwn, ScalarClosed DEF M
<1>6. \A s \in D : go[s] = body(go, s)
  <2> HIDE DEF go, body, D
  <2> QED BY <1>3
<1> DEFINE Wrong == {m \in Nat : \E s \in D : s[1] = m /\ go[s] # value(s)}
<1>7. Wrong = {}
  <2> SUFFICES ASSUME Wrong # {} PROVE FALSE
    OBVIOUS
  <2>1. PICK m \in Wrong : \A k \in Wrong : m <= k
    <3>1. Wrong \subseteq Nat
      OBVIOUS
    <3> HIDE DEF Wrong
    <3> QED BY <3>1, LeastElement
  <2>2. PICK s \in D : s[1] = m /\ go[s] # value(s)
    <3> HIDE DEF D, go, value
    <3> QED BY <2>1
  <2>3. CASE s[1] = 0
    <3>1. go[s] = s[3]
      <4>1. body(go, s) = s[3]
        BY <2>3
      <4> HIDE DEF go, body, D
      <4> QED BY <1>6, <4>1
    <3> HIDE DEF D, go, value
    <3> QED BY <1>2, <2>2, <2>3, <3>1
  <2>4. CASE s[1] # 0
    <3>1. go[s] = go[next(s)]
      <4>1. body(go, s) = go[next(s)]
        BY <2>4
      <4> HIDE DEF go, body, D, next
      <4> QED BY <1>6, <4>1
    <3>2. next(s)[1] \in Nat
      <4>1. next(s) \in D
        <5> HIDE DEF D, next
        <5> QED BY <1>1, <2>4
      <4> HIDE DEF next
      <4> QED BY <4>1
    <3>3. next(s)[1] \in Wrong
      <4> HIDE DEF D, go, value, next
      <4> QED BY <1>1, <2>2, <2>4, <3>1, <3>2
    <3>4. m \in Nat
      BY <2>1
    <3> HIDE DEF D, go, value, next, Wrong
    <3> QED BY <1>1, <2>1, <2>2, <2>4, <3>2, <3>3, <3>4
  <2> QED BY <2>3, <2>4
<1>8. PICK s : s = <<n, x, 1>>
  OBVIOUS
<1>9. s \in D /\ s[1] \in Nat /\ value(s) = 1 ** Power(x, n)
  BY <1>8, ScalarClosed
<1>10. go[s] = value(s)
  <2> HIDE DEF D, go, value
  <2> QED BY <1>7, <1>9
<1>11. 1 ** Power(x, n) = Power(x, n)
  BY PowerRecursion, Units
<1> HIDE DEF go, value
<1> QED BY <1>4, <1>5, <1>8, <1>9, <1>10, <1>11

-----------------------------------------------------------------------------
(* Products, Fermat's little theorem and inverses.                         *)

\* A factor that is not zero may be left out on both sides.
LEMMA Cancels ==
  ASSUME NEW a \in Scalar, NEW b \in Scalar, NEW c \in Scalar, c # 0, a ** c = b ** c
  PROVE  a = b
<1>1. PICK d \in Scalar : d = a -- b
  BY ScalarClosed
<1>2. Neg(b) \in Scalar /\ b ++ Neg(b) = 0
  BY ScalarClosed, Units DEF --
<1>3. d ** c = a ** c ++ Neg(b) ** c
  BY <1>1, <1>2, DistributesLeft DEF --
<1>4. (b ++ Neg(b)) ** c = b ** c ++ Neg(b) ** c
  BY <1>2, DistributesLeft
<1>5. d ** c = 0
  BY <1>2, <1>3, <1>4, Units
<1>6. d = 0
  BY <1>5, NoZeroDivisors
<1>7. (a ++ Neg(b)) ++ b = a ++ (Neg(b) ++ b)
  BY <1>2, AddAssociates
<1>8. Neg(b) ++ b = 0
  BY <1>2, AddCommutes
<1> QED BY <1>1, <1>6, <1>7, <1>8, Units DEF --

\* t multiplies the members of T in their natural order.
Products(t, T) ==
    t[0] = 1 /\ \A k \in 1 .. Order - 1 : t[k] = IF k \in T THEN t[k - 1] ** k ELSE t[k - 1]

\* c is the product over T.
IsProduct(c, T) ==
    \E t \in [0 .. Order - 1 -> Scalar] : Products(t, T) /\ c = t[Order - 1]

\* The product over no numbers is one.
LEMMA ProductOfNothing == IsProduct(1, {})
<1>1. PICK t : t = [k \in 0 .. Order - 1 |-> 1]
  OBVIOUS
<1>2. t \in [0 .. Order - 1 -> Scalar] /\ t[0] = 1 /\ t[Order - 1] = 1
  BY <1>1, ScalarClosed, OrderAssumption
<1>3. \A k \in 1 .. Order - 1 : t[k] = t[k - 1]
  BY <1>1, OrderAssumption
<1> QED BY <1>2, <1>3 DEF IsProduct, Products

\* One more number is one more factor.
LEMMA ProductWithOneMore ==
  ASSUME NEW T, NEW c \in Scalar, IsProduct(c, T), NEW j \in 1 .. Order - 1, j \notin T
  PROVE  IsProduct(c ** j, T \cup {j})
<1>1. PICK t \in [0 .. Order - 1 -> Scalar] : Products(t, T) /\ c = t[Order - 1]
  BY DEF IsProduct
<1>2. PICK U : U = T \cup {j}
  OBVIOUS
<1>3. PICK u : u = [k \in 0 .. Order - 1 |-> IF k < j THEN t[k] ELSE t[k] ** j]
  OBVIOUS
<1>4. j \in Scalar /\ 1 .. Order - 1 \subseteq Scalar
  BY OrderAssumption DEF Scalar
<1>5. u \in [0 .. Order - 1 -> Scalar]
  BY <1>3, <1>4, ScalarClosed
<1>6. u[0] = 1
  BY <1>1, <1>3, OrderAssumption DEF Products
<1>7. u[Order - 1] = c ** j
  BY <1>1, <1>3, OrderAssumption
<1>8. ASSUME NEW k \in 1 .. Order - 1
      PROVE  u[k] = IF k \in U THEN u[k - 1] ** k ELSE u[k - 1]
  <2>1. k \in 0 .. Order - 1 /\ k - 1 \in 0 .. Order - 1 /\ k \in Scalar
    BY <1>4, OrderAssumption
  <2>2. t[k] = IF k \in T THEN t[k - 1] ** k ELSE t[k - 1]
    BY <1>1 DEF Products
  <2>3. t[k - 1] \in Scalar
    BY <2>1
  <2>4. CASE k < j
    <3>1. u[k] = t[k] /\ u[k - 1] = t[k - 1] /\ (k \in U <=> k \in T)
      BY <1>2, <1>3, <2>1, <2>4
    <3> QED BY <2>2, <3>1
  <2>5. CASE k = j
    <3>1. u[k] = t[k] ** j /\ u[k - 1] = t[k - 1] /\ k \in U /\ k \notin T
      BY <1>2, <1>3, <2>1, <2>5
    <3> QED BY <2>2, <2>5, <3>1
  <2>6. CASE k > j
    <3>1. u[k] = t[k] ** j /\ u[k - 1] = t[k - 1] ** j /\ (k \in U <=> k \in T)
      BY <1>2, <1>3, <2>1, <2>6
    <3>2. (t[k - 1] ** k) ** j = (t[k - 1] ** j) ** k
      <4>1. (t[k - 1] ** k) ** j = t[k - 1] ** (k ** j)
            /\ (t[k - 1] ** j) ** k = t[k - 1] ** (j ** k)
        BY <1>4, <2>1, <2>3, MulAssociates
      <4> QED BY <1>4, <2>1, <4>1, MulCommutes
    <3> QED BY <2>2, <3>1, <3>2
  <2> QED BY <2>4, <2>5, <2>6
<1>9. Products(u, U)
  BY <1>6, <1>8 DEF Products
<1> QED BY <1>2, <1>5, <1>7, <1>9 DEF IsProduct

\* A set of numbers has one product.
LEMMA ProductUnique ==
  ASSUME NEW T, NEW c, NEW d, IsProduct(c, T), IsProduct(d, T)
  PROVE  c = d
<1>1. PICK t \in [0 .. Order - 1 -> Scalar] : Products(t, T) /\ c = t[Order - 1]
  BY DEF IsProduct
<1>2. PICK u \in [0 .. Order - 1 -> Scalar] : Products(u, T) /\ d = u[Order - 1]
  BY DEF IsProduct
<1>3. PICK n \in Nat : n = Order - 1
  BY OrderAssumption
<1> DEFINE S == {k \in 0..n : u[k] = t[k]}
<1>4. 0 \in S
  BY <1>1, <1>2 DEF Products
<1>5. ASSUME NEW k \in 0..(n - 1), k \in S PROVE k + 1 \in S
  <2>1. k + 1 \in 1..n /\ (k + 1) - 1 = k /\ k + 1 \in 0..n
    OBVIOUS
  <2>2. /\ t[k + 1] = IF k + 1 \in T THEN t[k] ** (k + 1) ELSE t[k]
        /\ u[k + 1] = IF k + 1 \in T THEN u[k] ** (k + 1) ELSE u[k]
    BY <1>1, <1>2, <1>3, <2>1 DEF Products
  <2> QED BY <1>5, <2>1, <2>2
<1>6. \A k \in 0..n : k \in S
  <2> HIDE DEF S
  <2> QED BY <1>4, <1>5, InductionUpTo
<1> QED BY <1>1, <1>2, <1>3, <1>6

\* Fermat's little theorem.  Multiplying 1, ..., Order - 1 by a permutes them:
\* their product is itself times the power of a, and not zero.
LEMMA FermatsLittleTheorem ==
  ASSUME NEW a \in Scalar \ {0}
  PROVE  Power(a, Order - 1) = 1
<1>1. PICK n \in Nat : n = Order - 1
  BY OrderAssumption
<1>2. 1..n \subseteq Scalar \ {0} /\ Scalar \ {0} \subseteq 1..n
  BY <1>1, OrderAssumption DEF Scalar
<1> DEFINE Multiples(m) == {a ** i : i \in 1..m}
           Good(m) == \E f \in Scalar \ {0} :
                          /\ IsProduct(f, 1..m)
                          /\ IsProduct(Power(a, m) ** f, Multiples(m))
           S == {m \in 0..n : Good(m)}
<1>3. ASSUME NEW i \in 1..n, NEW j \in 1..n, a ** i = a ** j PROVE i = j
  <2>1. i \in Scalar /\ j \in Scalar /\ a \in Scalar /\ a # 0
    BY <1>2
  <2>2. i ** a = j ** a
    BY <1>3, <2>1, MulCommutes
  <2> QED BY <2>1, <2>2, Cancels
<1>4. 0 \in S
  <2>1. PICK one \in Scalar : one = 1 /\ one # 0
    BY ScalarClosed
  <2>2. 1..0 = {} /\ Multiples(0) = {}
    OBVIOUS
  <2>3. Power(a, 0) ** one = one
    BY <2>1, PowerRecursion, Units
  <2>4. Good(0)
    <3>1. IsProduct(one, {})
      BY <2>1, ProductOfNothing
    <3> HIDE DEF Multiples
    <3> QED BY <2>1, <2>2, <2>3, <3>1
  <2> QED BY <2>4
<1>5. ASSUME NEW m \in 0..(n - 1), m \in S PROVE m + 1 \in S
  <2>1. PICK f \in Scalar \ {0} : /\ IsProduct(f, 1..m)
                                  /\ IsProduct(Power(a, m) ** f, Multiples(m))
    BY <1>5
  <2>2. PICK k \in 1..n : k = m + 1
    OBVIOUS
  <2>3. k \in Scalar \ {0} /\ k \in 1 .. Order - 1 /\ k \notin 1..m
    BY <1>1, <1>2, <2>2
  <2>4. IsProduct(f ** k, 1..k)
    <3>1. 1..k = (1..m) \cup {k}
      BY <2>2
    <3>2. IsProduct(f ** k, (1..m) \cup {k})
      BY <2>1, <2>3, ProductWithOneMore
    <3> QED BY <3>1, <3>2
  <2>5. f ** k \in Scalar \ {0}
    BY <2>1, <2>3, ScalarClosed, NoZeroDivisors
  <2>6. PICK j : j = a ** k
    OBVIOUS
  <2>7. j \in 1 .. Order - 1
    <3>1. j \in Scalar \ {0}
      BY <2>3, <2>6, ScalarClosed, NoZeroDivisors
    <3> QED BY <1>1, <1>2, <3>1
  <2>8. Multiples(k) = Multiples(m) \cup {j}
    BY <2>2, <2>6
  <2>9. j \notin Multiples(m)
    <3>1. ASSUME NEW i \in 1..m PROVE a ** i # j
      <4>1. i \in 1..n /\ i # k
        BY <2>2
      <4> QED BY <1>3, <2>6, <4>1
    <3> QED BY <3>1
  <2>10. PICK c \in Scalar : c = Power(a, m)
    BY PowerRecursion
  <2>11. IsProduct((c ** f) ** j, Multiples(m) \cup {j})
    <3>1. c ** f \in Scalar
      BY ScalarClosed
    <3> HIDE DEF Multiples
    <3> QED BY <2>1, <2>7, <2>9, <2>10, <3>1, ProductWithOneMore
  <2>12. (c ** f) ** j = Power(a, k) ** (f ** k)
    <3>1. Power(a, k) = c ** a
      BY <2>2, <2>10, PowerRecursion
    <3>2. (c ** f) ** (a ** k) = (c ** a) ** (f ** k)
      BY <2>3, MulInterchanges
    <3> QED BY <2>6, <3>1, <3>2
  <2>13. Good(k)
    <3> HIDE DEF Multiples
    <3> QED BY <2>4, <2>5, <2>8, <2>11, <2>12
  <2> HIDE DEF Good
  <2> QED BY <2>2, <2>13
<1>6. Good(n)
  <2> HIDE DEF Good
  <2>1. \A m \in 0..n : m \in S
    <3> HIDE DEF S
    <3> QED BY <1>4, <1>5, InductionUpTo
  <2> QED BY <2>1
<1>7. Multiples(n) = 1..n
  <2>1. PICK F : F = [i \in 1..n |-> a ** i]
    OBVIOUS
  <2>2. \A i \in 1..n : a ** i \in 1..n
    BY <1>2, ScalarClosed, NoZeroDivisors
  <2>3. F \in [1..n -> 1..n]
    BY <2>1, <2>2
  <2>4. F \in Injection(1..n, 1..n)
    BY <1>3, <2>1, <2>3 DEF Injection, IsInjective
  <2>5. IsFiniteSet(1..n)
    BY FS_Interval
  <2>6. F \in Surjection(1..n, 1..n)
    BY <2>4, <2>5, FS_Injection
  <2> QED BY <2>1, <2>2, <2>6 DEF Surjection
<1>8. PICK f \in Scalar \ {0} : IsProduct(f, 1..n) /\ IsProduct(Power(a, n) ** f, 1..n)
  BY <1>6, <1>7
<1>9. Power(a, n) ** f = f
  BY <1>8, ProductUnique
<1>10. Power(a, n) ** f = 1 ** f /\ Power(a, n) \in Scalar /\ 1 \in Scalar
  BY <1>9, Units, ScalarClosed, PowerRecursion
<1>11. Power(a, n) = 1
  BY <1>10, Cancels
<1> QED BY <1>1, <1>11

\* A scalar but zero has an inverse.
THEOREM Inverses ==
  ASSUME NEW a \in Scalar \ {0}
  PROVE  Invert(a) \in Scalar /\ a ** Invert(a) = 1 /\ Invert(a) ** a = 1
<1>1. PICK n \in Nat : n = Order - 2 /\ n + 1 = Order - 1
  BY OrderAssumption
<1>2. Invert(a) = Power(a, n)
  BY <1>1, ExpIsPower DEF Invert
<1>3. Power(a, n + 1) = Power(a, n) ** a /\ Power(a, n) \in Scalar
  BY PowerRecursion
<1>4. Power(a, n) ** a = 1
  BY <1>1, <1>3, FermatsLittleTheorem
<1> QED BY <1>2, <1>3, <1>4, MulCommutes

\* What multiplies a scalar to one is its inverse.
LEMMA InverseUnique ==
  ASSUME NEW a \in Scalar \ {0}, NEW b \in Scalar, a ** b = 1
  PROVE  b = Invert(a)
<1>1. Invert(a) \in Scalar /\ b ** a = Invert(a) ** a
  BY Inverses, MulCommutes
<1> QED BY <1>1, Cancels

\* The inverse of a product is the product of the inverses.
LEMMA InverseOfProduct ==
  ASSUME NEW a \in Scalar \ {0}, NEW b \in Scalar \ {0}
  PROVE  a ** b \in Scalar \ {0} /\ Invert(a ** b) = Invert(a) ** Invert(b)
<1>1. a ** b \in Scalar \ {0}
  BY ScalarClosed, NoZeroDivisors
<1>2. Invert(a) \in Scalar /\ Invert(b) \in Scalar
  BY Inverses
<1>3. (a ** b) ** (Invert(a) ** Invert(b)) = (a ** Invert(a)) ** (b ** Invert(b))
  BY <1>2, MulInterchanges
<1>4. a ** Invert(a) = 1 /\ b ** Invert(b) = 1
  BY Inverses
<1>5. (a ** b) ** (Invert(a) ** Invert(b)) = 1 /\ Invert(a) ** Invert(b) \in Scalar
  BY <1>2, <1>3, <1>4, Units, ScalarClosed
<1> QED BY <1>1, <1>5, InverseUnique

-----------------------------------------------------------------------------
(* What the inner-product argument does to a transcript, and a proof on    *)
(* its way.                                                                *)

\* As many rounds as it takes to halve n wires down to one: there are at most n.
LEMMA RoundsType ==
  ASSUME NEW n \in Nat
  PROVE  Rounds(n) \in Nat
<1>1. ASSUME NEW k \in Nat PROVE 2^k \in Nat /\ k <= 2^k
  <2> DEFINE S == 1..k
             single == {{i} : i \in S}
  <2>1. IsFiniteSet(S) /\ Cardinality(S) = k
    BY FS_Interval
  <2>2. /\ IsFiniteSet(SUBSET S) /\ Cardinality(SUBSET S) = 2^k
    BY <2>1, FS_SUBSET
  <2>3. 2^k \in Nat
    BY <2>2, FS_CardinalityType
  <2>4. single \subseteq SUBSET S
    OBVIOUS
  <2>5. Cardinality(single) = k
    <3> DEFINE f == [i \in S |-> {i}]
    <3>1. f \in Bijection(S, single)
      BY DEF Bijection, Injection, Surjection, IsInjective
    <3> HIDE DEF f
    <3> QED BY <2>1, <3>1, FS_Bijection DEF ExistsBijection
  <2>6. Cardinality(single) <= Cardinality(SUBSET S)
    BY <2>2, <2>4, FS_Subset
  <2> QED BY <2>2, <2>3, <2>5, <2>6
<1> DEFINE enough == {k \in Nat : 2^k >= n}
<1>2. n \in enough
  BY <1>1
<1>3. PICK k \in enough : \A l \in enough : k <= l
  BY <1>2, LeastElement
<1>4. k \in 0..n /\ 2^k >= n
  BY <1>2, <1>3
<1>5. \A l \in 0 .. k - 1 : 2^l < n
  BY <1>1, <1>3
<1>6. \E j \in 0..n : 2^j >= n /\ \A l \in 0 .. j - 1 : 2^l < n
  BY <1>4, <1>5
<1>7. Rounds(n) \in 0..n
  BY <1>6 DEF Rounds
<1> QED BY <1>7

\* The rounds append to the transcript and to the cross terms.
LEMMA CreateAppends ==
  ASSUME NEW told, NEW Q, NEW vectors, NEW us, Len(us) \in Nat
  PROVE  LET made == create(told, Q, vectors, us)
         IN  /\ IsSequence(told) =>
                    IsSequence(made.transcript) /\ Extends(told, made.transcript)
             /\ IsSequence(made.L_vec) /\ IsSequence(made.R_vec)
             /\ Len(made.R_vec) = Len(made.L_vec)
<1> DEFINE first == [v |-> vectors, L_vec |-> <<>>, R_vec |-> <<>>,
                     transcript |->
                         innerproduct_domain_sep(told, Len(vectors.G))]
           round(s, u) ==
               LET L == CrossL(s.v, Q)
                   R == CrossR(s.v, Q)
               IN  [v |-> Fold(s.v, u), L_vec |-> Append(s.L_vec, L),
                    R_vec |-> Append(s.R_vec, R),
                    transcript |-> s.transcript \o
                        <<<<"L", L>>, <<"R", R>>, <<"u", u>>>>]
           loop(f, k) == IF k = 0 THEN first ELSE round(f[k - 1], us[k])
           after == CHOOSE f : f = [k \in 0..Len(us) |-> loop(f, k)]
           n == Len(us)
<1>1. create(told, Q, vectors, us) = after[n]
  BY DEF create
<1>2. after = [k \in 0..n |-> loop(after, k)]
  <2> DEFINE reached == {m \in 0..n : \E f : f = [k \in 0..m |-> loop(f, k)]}
  <2> HIDE DEF first, round
  <2>1. 0 \in reached
    <3> DEFINE f == [k \in 0..0 |-> first]
    <3>1. f = [k \in 0..0 |-> loop(f, k)]
      OBVIOUS
    <3> HIDE DEF f, loop
    <3> QED BY <3>1
  <2>2. ASSUME NEW m \in 0..(n - 1), m \in reached PROVE m + 1 \in reached
    <3>1. PICK f : f = [k \in 0..m |-> loop(f, k)]
      BY <2>2
    <3> DEFINE g == [k \in 0..(m + 1) |-> IF k <= m THEN f[k] ELSE loop(f, m + 1)]
    <3>2. ASSUME NEW k \in 0..(m + 1) PROVE g[k] = loop(g, k)
      <4>1. CASE k = m + 1
        <5>1. g[k] = loop(f, k) /\ k # 0 /\ k - 1 = m /\ g[m] = f[m]
          BY <4>1
        <5> HIDE DEF g
        <5> QED BY <5>1
      <4>2. CASE k <= m
        <5>1. g[k] = loop(f, k)
          <6> HIDE DEF loop
          <6> QED BY <3>1, <4>2
        <5>2. k # 0 => g[k - 1] = f[k - 1]
          BY <4>2
        <5> HIDE DEF g
        <5> QED BY <5>1, <5>2
      <4> QED BY <4>1, <4>2
    <3>3. g = [k \in 0..(m + 1) |-> loop(g, k)]
      <4>1. g = [k \in 0..(m + 1) |-> g[k]]
        OBVIOUS
      <4> HIDE DEF g, loop
      <4> QED BY <3>2, <4>1
    <3> HIDE DEF g, loop
    <3> QED BY <3>3
  <2>3. n \in reached
    <3> HIDE DEF reached
    <3>1. \A m \in 0..n : m \in reached
      BY <2>1, <2>2, InductionUpTo
    <3> QED BY <3>1
  <2> HIDE DEF loop
  <2> QED BY <2>3
<1> HIDE DEF after
<1> DEFINE good(s) == /\ IsSequence(told) =>
                             IsSequence(s.transcript) /\ Extends(told, s.transcript)
                      /\ IsSequence(s.L_vec) /\ IsSequence(s.R_vec)
                      /\ Len(s.R_vec) = Len(s.L_vec)
           kept == {k \in 0..n : good(after[k])}
<1>3. 0 \in kept
  <2>1. after[0] = first
    <3> HIDE DEF first, round
    <3> QED BY <1>2
  <2>2. <<>> \in Seq({})
    OBVIOUS
  <2>3. good(first)
    BY <2>2, ThenSequence, TuplesAreSequences DEF innerproduct_domain_sep, IsSequence
  <2> HIDE DEF good, first
  <2> QED BY <2>1, <2>3
<1>4. ASSUME NEW k \in 0..(n - 1), k \in kept PROVE k + 1 \in kept
  <2>1. after[k + 1] = round(after[k], us[k + 1])
    <3>1. k + 1 \in 0..n /\ k + 1 # 0 /\ (k + 1) - 1 = k
      OBVIOUS
    <3> HIDE DEF first, round
    <3> QED BY <1>2, <3>1
  <2>2. ASSUME NEW s, NEW u, good(s) PROVE good(round(s, u))
    <3> DEFINE L == CrossL(s.v, Q)
               R == CrossR(s.v, Q)
               more == <<<<"L", L>>, <<"R", R>>, <<"u", u>>>>
    <3>1. IsSequence(more)
      BY TuplesAreSequences
    <3>2. round(s, u).transcript = s.transcript \o more
          /\ round(s, u).L_vec = Append(s.L_vec, L)
          /\ round(s, u).R_vec = Append(s.R_vec, R)
      OBVIOUS
    <3> HIDE DEF more, L, R, round
    <3>3. IsSequence(told) => /\ IsSequence(s.transcript \o more)
                              /\ Extends(s.transcript, s.transcript \o more)
      BY <2>2, <3>1, ThenSequence
    <3>4. /\ IsSequence(Append(s.L_vec, L)) /\ Len(Append(s.L_vec, L)) = Len(s.L_vec) + 1
          /\ IsSequence(Append(s.R_vec, R)) /\ Len(Append(s.R_vec, R)) = Len(s.R_vec) + 1
      BY <2>2, AppendIsSequence
    <3>5. IsSequence(told) => Extends(told, s.transcript \o more)
      BY <2>2, <3>3 DEF Extends
    <3>6. Len(Append(s.R_vec, R)) = Len(Append(s.L_vec, L))
      BY <2>2, <3>4
    <3>7. good(round(s, u)) <=>
             /\ IsSequence(told) => /\ IsSequence(s.transcript \o more)
                                    /\ Extends(told, s.transcript \o more)
             /\ IsSequence(Append(s.L_vec, L)) /\ IsSequence(Append(s.R_vec, R))
             /\ Len(Append(s.R_vec, R)) = Len(Append(s.L_vec, L))
      BY <3>2
    <3> HIDE DEF good
    <3> QED BY <3>3, <3>4, <3>5, <3>6, <3>7
  <2> HIDE DEF good, round
  <2> QED BY <1>4, <2>1, <2>2
<1>5. n \in kept
  <2> HIDE DEF kept
  <2>1. \A k \in 0..n : k \in kept
    BY <1>3, <1>4, InductionUpTo
  <2> QED BY <2>1
<1> QED BY <1>1, <1>5

\* A proof comes out of its bytes as it went in, unless it has too many rounds.
LEMMA ThroughBytes ==
  ASSUME NEW p, IsSequence(p.L_vec), IsSequence(p.R_vec), Len(p.R_vec) = Len(p.L_vec),
         p = [L_vec |-> p.L_vec, R_vec |-> p.R_vec, a |-> p.a, b |-> p.b]
  PROVE  /\ IsSequence(to_bytes(p))
         /\ Len(to_bytes(p)) = 2 * Len(p.L_vec) + 2
         /\ from_bytes(to_bytes(p)) = p
         /\ IPPFormatError(to_bytes(p)) <=> Len(p.L_vec) >= 32
<1> DEFINE Cross(i) == IF i % 2 = 1 THEN p.L_vec[(i + 1) \div 2] ELSE p.R_vec[i \div 2]
<1>1. PICK k \in Nat : k = Len(p.L_vec)
  BY LenOfSequence
<1>2. PICK f : f = [i \in 1 .. 2 * k |-> Cross(i)]
  OBVIOUS
<1>3. PICK e : e = <<p.a, p.b>>
  OBVIOUS
<1>4. to_bytes(p) = f \o e
  BY <1>1, <1>2, <1>3 DEF to_bytes
<1>5. IsSequence(f) /\ Len(f) = 2 * k
  <2> DEFINE S == {Cross(i) : i \in 1 .. 2 * k}
  <2>1. f \in [1 .. 2 * k -> S]
    <3> HIDE DEF Cross
    <3> QED BY <1>2
  <2> HIDE DEF S
  <2>2. 2 * k \in Nat
    OBVIOUS
  <2>3. f \in Seq(S) /\ Len(f) = 2 * k
    BY <2>1, <2>2
  <2> QED BY <2>3 DEF IsSequence
<1>6. IsSequence(e) /\ Len(e) = 2 /\ e[1] = p.a /\ e[2] = p.b
  BY <1>3, TuplesAreSequences
<1>7. PICK bytes : bytes = f \o e
  OBVIOUS
<1>8. /\ IsSequence(bytes) /\ Len(bytes) = 2 * k + 2
      /\ \A i \in 1 .. 2 * k : bytes[i] = f[i]
      /\ bytes[2 * k + 1] = p.a /\ bytes[2 * k + 2] = p.b
  <2>1. /\ IsSequence(bytes) /\ Len(bytes) = Len(f) + Len(e)
        /\ \A i \in 1..Len(f) : bytes[i] = f[i]
    BY <1>5, <1>6, <1>7, ThenSequence
  <2>3. IsSequence(f) /\ IsSequence(e)
    BY <1>5, <1>6
  <2>2. ASSUME NEW i \in 1..Len(e) PROVE bytes[Len(f) + i] = e[i]
    BY <1>7, <2>3, LaterElements
  <2> QED BY <1>5, <1>6, <2>1, <2>2
<1>9. (Len(bytes) - 2) \div 2 = k /\ (Len(bytes) - 2) % 2 = 0
  BY <1>8
<1>10. ASSUME NEW i \in 1..k
       PROVE  bytes[2 * i - 1] = p.L_vec[i] /\ bytes[2 * i] = p.R_vec[i]
  <2>1. 2 * i - 1 \in 1 .. 2 * k /\ 2 * i \in 1 .. 2 * k
    OBVIOUS
  <2>2. (2 * i - 1) % 2 = 1 /\ (2 * i) % 2 = 0
    OBVIOUS
  <2>3. ((2 * i - 1) + 1) \div 2 = i /\ (2 * i) \div 2 = i
    OBVIOUS
  <2>4. Cross(2 * i - 1) = p.L_vec[i] /\ Cross(2 * i) = p.R_vec[i]
    BY <2>2, <2>3
  <2> HIDE DEF Cross
  <2>5. f[2 * i - 1] = Cross(2 * i - 1) /\ f[2 * i] = Cross(2 * i)
    BY <1>2, <2>1
  <2> QED BY <1>8, <2>1, <2>4, <2>5
<1>11. /\ p.L_vec = [i \in 1..k |-> p.L_vec[i]]
       /\ p.R_vec = [i \in 1..k |-> p.R_vec[i]]
  <2>1. PICK l, r : l = p.L_vec /\ r = p.R_vec
    OBVIOUS
  <2>2. PICK S, T : l \in Seq(S) /\ r \in Seq(T)
    BY <2>1 DEF IsSequence
  <2>3. Len(l) = k /\ Len(r) = k
    BY <1>1, <2>1
  <2>4. l = [i \in 1..k |-> l[i]] /\ r = [i \in 1..k |-> r[i]]
    BY <2>2, <2>3
  <2> QED BY <2>1, <2>4
<1>12. from_bytes(bytes) = p
  <2>1. from_bytes(bytes) =
          [L_vec |-> [i \in 1..k |-> bytes[2 * i - 1]],
           R_vec |-> [i \in 1..k |-> bytes[2 * i]],
           a |-> bytes[2 * k + 1], b |-> bytes[2 * k + 2]]
    BY <1>9 DEF from_bytes
  <2>2. /\ [i \in 1..k |-> bytes[2 * i - 1]] = p.L_vec
        /\ [i \in 1..k |-> bytes[2 * i]] = p.R_vec
    BY <1>10, <1>11
  <2> QED BY <1>8, <2>1, <2>2
<1>13. IPPFormatError(bytes) <=> k >= 32
  BY <1>8, <1>9 DEF IPPFormatError
<1> QED BY <1>1, <1>4, <1>7, <1>8, <1>12, <1>13

-----------------------------------------------------------------------------
(* Sequences with one entry more, vectors after one another.               *)

\* The length of one sequence after another.
LEMMA SeqThen ==
  ASSUME NEW S, NEW v \in Seq(S), NEW w \in Seq(S)
  PROVE  v \o w \in Seq(S) /\ Len(v \o w) = Len(v) + Len(w)
OBVIOUS

\* The same for vectors, with their entries.
LEMMA Concat ==
  ASSUME NEW S, NEW n \in Nat, NEW m \in Nat, NEW v \in [1..n -> S], NEW w \in [1..m -> S]
  PROVE  /\ v \o w \in [1..(n + m) -> S]
         /\ Len(v \o w) = n + m
         /\ \A i \in 1..n : (v \o w)[i] = v[i]
         /\ \A i \in 1..m : (v \o w)[n + i] = w[i]
<1>1. v \in Seq(S) /\ w \in Seq(S) /\ Len(v) = n /\ Len(w) = m
  OBVIOUS
<1>2. PICK x : x = v \o w
  OBVIOUS
<1>3. x \in Seq(S) /\ Len(x) = n + m
  BY <1>1, <1>2, SeqThen
<1>4. /\ \A i \in 1..n : x[i] = v[i]
      /\ \A i \in 1..m : x[n + i] = w[i]
  <2>1. IsSequence(v) /\ IsSequence(w)
    BY <1>1 DEF IsSequence
  <2>2. \A i \in 1..n : x[i] = v[i]
    BY <1>1, <1>2
  <2>3. ASSUME NEW i \in 1..m PROVE x[n + i] = w[i]
    <3>1. i \in 1..Len(w)
      BY <1>1
    <3> QED BY <1>1, <1>2, <2>1, <3>1, LaterElements
  <2> QED BY <2>2, <2>3
<1>5. x \in [1..(n + m) -> S]
  BY <1>3
<1> QED BY <1>2, <1>3, <1>4, <1>5

\* A sequence is a function on its indices.
LEMMA SeqIsFun ==
  ASSUME NEW S, NEW k \in Nat, NEW t \in Seq(S), Len(t) = k
  PROVE  t \in [1..k -> S]
OBVIOUS

\* t is s with e behind it.
Longer(t, s, e) == t = Append(s, e)

\* A vector with one entry more.
LEMMA AppendFun ==
  ASSUME NEW S, NEW n \in Nat, NEW s \in [1..n -> S], NEW e \in S, NEW t, Longer(t, s, e)
  PROVE  t \in [1..(n + 1) -> S] /\ t[n + 1] = e
<1>1. s \in Seq(S) /\ Len(s) = n
  OBVIOUS
<1>2. t \in Seq(S) /\ Len(t) = n + 1 /\ t[n + 1] = e
  BY <1>1 DEF Longer
<1>4. t \in [1..(n + 1) -> S]
  <2>1. n + 1 \in Nat
    OBVIOUS
  <2> QED BY <1>2, <2>1, SeqIsFun
<1> QED BY <1>2, <1>4

\* What is appended comes last and moves nothing.
LEMMA AppendAt ==
  ASSUME NEW s, IsSequence(s), NEW e, NEW t, Longer(t, s, e)
  PROVE  t[Len(s) + 1] = e /\ \A i \in 1..Len(s) : t[i] = s[i]
BY AppendIsSequence, LastAppended DEF Longer

\* The same for a vector of scalars.
LEMMA AppendVec ==
  ASSUME NEW n \in Nat, NEW s \in Vec(n), NEW e \in Scalar, NEW t, Longer(t, s, e)
  PROVE  /\ t \in Vec(n + 1) /\ t[n + 1] = e
         /\ \A i \in 1..n : t[i] = s[i]
<1>1. s \in [1..n -> Scalar]
  BY DEF Vec
<1>2. t \in [1..(n + 1) -> Scalar]
  BY <1>1, AppendFun
<1>3. s \in Seq(Scalar) /\ Len(s) = n
  BY <1>1
<1>4. IsSequence(s)
  BY <1>3 DEF IsSequence
<1>5. t[n + 1] = e /\ \A i \in 1..n : t[i] = s[i]
  BY <1>3, <1>4, AppendAt
<1> QED BY <1>2, <1>5 DEF Vec

-----------------------------------------------------------------------------
(* Vectors of scalars and their inner products.                            *)

\* Vectors with the same entries are the same.
LEMMA VecExtensional ==
  ASSUME NEW k \in Nat, NEW a \in Vec(k), NEW b \in Vec(k), \A i \in 1..k : a[i] = b[i]
  PROVE  a = b
BY DEF Vec

\* The sum of the products, entry by entry.
Dot(a, x) == SumOf(Times(a, x))

\* The entrywise product of two vectors is a vector.
LEMMA TimesType ==
  ASSUME NEW n \in Nat, NEW a \in Vec(n), NEW b \in Vec(n)
  PROVE  /\ Times(a, b) \in Vec(n)
         /\ \A i \in 1..n : Times(a, b)[i] = a[i] ** b[i]
<1>1. DOMAIN a = 1..n /\ \A i \in 1..n : a[i] \in Scalar /\ b[i] \in Scalar
  BY DEF Vec
<1> QED BY <1>1, ScalarClosed DEF Times, Vec

\* An inner product is a scalar.
LEMMA DotClosed ==
  ASSUME NEW n \in Nat, NEW a \in Vec(n), NEW b \in Vec(n)
  PROVE  Dot(a, b) \in Scalar
BY TimesType, SumClosed DEF Dot

\* What inner_product computes is the inner product.
LEMMA InnerProductIsDot ==
  ASSUME NEW n \in Nat, NEW a \in Vec(n), NEW b \in Vec(n)
  PROVE  inner_product(a, b) = Dot(a, b)
<1>1. Len(a) = n /\ DOMAIN a = 1..n
  BY DEF Vec
<1>2. inner_product(a, b) = SumOfFirst(n, [i \in 1..n |-> a[i] ** b[i]])
  BY <1>1 DEF inner_product, SumUpTo
<1>3. Times(a, b) = [i \in 1..n |-> a[i] ** b[i]]
  BY <1>1 DEF Times
<1>4. Times(a, b) \in Vec(n)
  BY TimesType
<1> QED BY <1>2, <1>3, <1>4, SumOfAll DEF Dot

-----------------------------------------------------------------------------
(* Linear combinations of points, coordinate by coordinate.                *)

\* Vectors of n points.
PointVec(n) == [1..n -> Point]

\* A linear combination, coordinate by coordinate.
LEMMA MsmAt ==
  ASSUME NEW n \in Nat, NEW s \in Vec(n), NEW p \in PointVec(n), NEW g \in Generator,
         NEW x, x = [k \in 1..n |-> s[k] ** p[k][g]]
  PROVE  x \in Vec(n) /\ multiscalar_mul(s, p)[g] = SumOf(x)
<1>1. Len(p) = n
  BY DEF PointVec
<1>2. \A k \in 1..n : s[k] \in Scalar /\ p[k][g] \in Scalar
  BY DEF Vec, PointVec, Point
<1>3. x \in Vec(n)
  BY <1>2, ScalarClosed DEF Vec
<1>4. multiscalar_mul(s, p)[g] = SumOfFirst(n, x)
  BY <1>1 DEF multiscalar_mul, SumUpTo
<1> QED BY <1>3, <1>4, SumOfAll

\* A combination of points is a point.
LEMMA MsmType ==
  ASSUME NEW n \in Nat, NEW s \in Vec(n), NEW p \in PointVec(n)
  PROVE  multiscalar_mul(s, p) \in Point
<1>1. ASSUME NEW g \in Generator PROVE multiscalar_mul(s, p)[g] \in Scalar
  <2>1. PICK x : x = [k \in 1..n |-> s[k] ** p[k][g]]
    OBVIOUS
  <2> QED BY <2>1, MsmAt, SumClosed
<1>2. multiscalar_mul(s, p) = [g \in Generator |-> multiscalar_mul(s, p)[g]]
  BY DEF multiscalar_mul
<1> QED BY <1>1, <1>2 DEF Point

\* A combination can be computed in two parts.
LEMMA MsmThen ==
  ASSUME NEW n \in Nat, NEW m \in Nat, NEW s \in Vec(n), NEW t \in Vec(m),
         NEW p \in PointVec(n), NEW q \in PointVec(m), NEW g \in Generator
  PROVE  multiscalar_mul(s \o t, p \o q)[g]
           = multiscalar_mul(s, p)[g] ++ multiscalar_mul(t, q)[g]
<1>1. PICK st, pq : st = s \o t /\ pq = p \o q
  OBVIOUS
<1>2. /\ st \in Vec(n + m)
      /\ \A i \in 1..n : st[i] = s[i]
      /\ \A i \in 1..m : st[n + i] = t[i]
  <2>1. s \in [1..n -> Scalar] /\ t \in [1..m -> Scalar]
    BY DEF Vec
  <2>2. s \o t \in [1..(n + m) -> Scalar]
    BY <2>1, Concat
  <2>3. /\ \A i \in 1..n : (s \o t)[i] = s[i]
        /\ \A i \in 1..m : (s \o t)[n + i] = t[i]
    BY <2>1, Concat
  <2> QED BY <1>1, <2>2, <2>3 DEF Vec
<1>3. /\ pq \in PointVec(n + m)
      /\ \A i \in 1..n : pq[i] = p[i]
      /\ \A i \in 1..m : pq[n + i] = q[i]
  <2>1. p \in [1..n -> Point] /\ q \in [1..m -> Point]
    BY DEF PointVec
  <2>2. p \o q \in [1..(n + m) -> Point]
    BY <2>1, Concat
  <2>3. /\ \A i \in 1..n : (p \o q)[i] = p[i]
        /\ \A i \in 1..m : (p \o q)[n + i] = q[i]
    BY <2>1, Concat
  <2> QED BY <1>1, <2>2, <2>3 DEF PointVec
<1>4. n + m \in Nat
  OBVIOUS
<1>5. PICK x, y, z : /\ x = [k \in 1..n |-> s[k] ** p[k][g]]
                     /\ y = [k \in 1..m |-> t[k] ** q[k][g]]
                     /\ z = [k \in 1..(n + m) |-> st[k] ** pq[k][g]]
  OBVIOUS
<1>6. x \in Vec(n) /\ multiscalar_mul(s, p)[g] = SumOf(x)
  BY <1>5, MsmAt
<1>7. y \in Vec(m) /\ multiscalar_mul(t, q)[g] = SumOf(y)
  BY <1>5, MsmAt
<1>8. z \in Vec(n + m) /\ multiscalar_mul(st, pq)[g] = SumOf(z)
  BY <1>2, <1>3, <1>4, <1>5, MsmAt
<1>9. \A k \in 1..n : z[k] = x[k]
  BY <1>2, <1>3, <1>5
<1>10. \A k \in 1..m : z[n + k] = y[k]
  <2>1. \A k \in 1..m : n + k \in 1..(n + m)
    OBVIOUS
  <2> QED BY <1>2, <1>3, <1>5, <2>1
<1>11. SumOf(z) = SumOf(x) ++ SumOf(y)
  BY <1>6, <1>7, <1>8, <1>9, <1>10, SumThen
<1> QED BY <1>1, <1>6, <1>7, <1>8, <1>11

\* The combination of one point is its multiple.
LEMMA MsmOfOne ==
  ASSUME NEW c \in Scalar, NEW P \in Point, NEW g \in Generator
  PROVE  multiscalar_mul(<<c>>, <<P>>)[g] = c ** P[g]
<1>1. PICK s, p : s = <<c>> /\ p = <<P>>
  OBVIOUS
<1>2. PICK n \in Nat : n = 1
  OBVIOUS
<1>3. s \in Vec(n) /\ p \in PointVec(n)
  BY <1>1, <1>2 DEF Vec, PointVec
<1>4. s[1] = c /\ p[1] = P
  BY <1>1
<1>5. PICK x : x = [k \in 1..n |-> s[k] ** p[k][g]]
  OBVIOUS
<1>6. x \in Vec(n) /\ multiscalar_mul(s, p)[g] = SumOf(x)
  BY <1>3, <1>5, MsmAt
<1>7. SumOf(x) = c ** P[g]
  BY <1>2, <1>4, <1>5, <1>6, SumOfOne
<1> QED BY <1>1, <1>6, <1>7

\* One coordinate of scaled points.
At(f, P, g) == [i \in DOMAIN f |-> f[i] ** P[i][g]]

\* A vector of weighted points is, at each generator, a vector of scalars.
LEMMA AtType ==
  ASSUME NEW n \in Nat, NEW f \in Vec(n), NEW P \in PointVec(n), NEW g \in Generator
  PROVE  /\ At(f, P, g) \in Vec(n)
         /\ \A i \in 1..n : At(f, P, g)[i] = f[i] ** P[i][g]
<1>1. DOMAIN f = 1..n /\ \A i \in 1..n : f[i] \in Scalar /\ P[i][g] \in Scalar
  BY DEF Vec, PointVec, Point
<1> QED BY <1>1, ScalarClosed DEF At, Vec

\* A combination is, at each generator, an inner product.
LEMMA MsmIsDot ==
  ASSUME NEW n \in Nat, NEW a \in Vec(n), NEW f \in Vec(n), NEW P \in PointVec(n),
         NEW g \in Generator
  PROVE  multiscalar_mul(Times(a, f), P)[g] = Dot(a, At(f, P, g))
<1>1. PICK s : s = Times(a, f)
  OBVIOUS
<1>2. s \in Vec(n) /\ \A i \in 1..n : s[i] = a[i] ** f[i]
  BY <1>1, TimesType
<1>3. PICK x : x = [k \in 1..n |-> s[k] ** P[k][g]]
  OBVIOUS
<1>4. multiscalar_mul(s, P)[g] = SumOf(x)
  BY <1>2, <1>3, MsmAt
<1>5. PICK y : y = At(f, P, g)
  OBVIOUS
<1>6. y \in Vec(n) /\ \A i \in 1..n : y[i] = f[i] ** P[i][g]
  BY <1>5, AtType
<1>7. \A i \in 1..n : s[i] ** P[i][g] = a[i] ** y[i]
  <2>1. \A i \in 1..n : a[i] \in Scalar /\ f[i] \in Scalar /\ P[i][g] \in Scalar
    BY DEF Vec, PointVec, Point
  <2> QED BY <1>2, <1>6, <2>1, MulAssociates
<1>8. Times(a, y) = [k \in 1..n |-> a[k] ** y[k]]
  BY DEF Times, Vec
<1>9. x = Times(a, y)
  BY <1>3, <1>7, <1>8
<1> QED BY <1>1, <1>4, <1>5, <1>9 DEF Dot

\* Three parts of a combination, the last one a single point.
LEMMA MsmInThree ==
  ASSUME NEW n \in Nat, NEW m \in Nat, NEW s \in Vec(n), NEW t \in Vec(m), NEW c \in Scalar,
         NEW p \in PointVec(n), NEW q \in PointVec(m), NEW Qp \in Point, NEW g \in Generator
  PROVE  multiscalar_mul(s \o t \o <<c>>, p \o q \o <<Qp>>)[g]
           = (multiscalar_mul(s, p)[g] ++ multiscalar_mul(t, q)[g]) ++ c ** Qp[g]
<1>1. PICK st, pq : st = s \o t /\ pq = p \o q
  OBVIOUS
<1>2. st \in Vec(n + m)
  BY <1>1, Concat DEF Vec
<1>3. pq \in PointVec(n + m)
  BY <1>1, Concat DEF PointVec
<1>4. PICK one \in Nat : one = 1
  OBVIOUS
<1>5. PICK c1, Q1 : c1 = <<c>> /\ Q1 = <<Qp>>
  OBVIOUS
<1>6. c1 \in Vec(one) /\ Q1 \in PointVec(one)
  BY <1>4, <1>5 DEF Vec, PointVec
<1>7. n + m \in Nat
  OBVIOUS
<1>8. multiscalar_mul(st \o c1, pq \o Q1)[g]
        = multiscalar_mul(st, pq)[g] ++ multiscalar_mul(c1, Q1)[g]
  BY <1>2, <1>3, <1>6, <1>7, MsmThen
<1>9. multiscalar_mul(st, pq)[g] = multiscalar_mul(s, p)[g] ++ multiscalar_mul(t, q)[g]
  BY <1>1, MsmThen
<1>10. multiscalar_mul(c1, Q1)[g] = c ** Qp[g]
  BY <1>5, MsmOfOne
<1> QED BY <1>1, <1>5, <1>8, <1>9, <1>10

\* And for a vector of points.
LEMMA AppendPointVec ==
  ASSUME NEW n \in Nat, NEW s \in PointVec(n), NEW e \in Point, NEW t, Longer(t, s, e)
  PROVE  /\ t \in PointVec(n + 1) /\ t[n + 1] = e
         /\ \A i \in 1..n : t[i] = s[i]
<1>1. s \in [1..n -> Point]
  BY DEF PointVec
<1>2. t \in [1..(n + 1) -> Point]
  BY <1>1, AppendFun
<1>3. s \in Seq(Point) /\ Len(s) = n
  BY <1>1
<1>4. IsSequence(s)
  BY <1>3 DEF IsSequence
<1>5. t[n + 1] = e /\ \A i \in 1..n : t[i] = s[i]
  BY <1>3, <1>4, AppendAt
<1> QED BY <1>2, <1>5 DEF PointVec

\* One more point adds its multiple to a combination.
LEMMA MsmAppend ==
  ASSUME NEW n \in Nat, NEW s \in Vec(n), NEW p \in PointVec(n), NEW c \in Scalar,
         NEW P \in Point, NEW t, Longer(t, s, c), NEW q, Longer(q, p, P), NEW g \in Generator
  PROVE  multiscalar_mul(t, q)[g] = multiscalar_mul(s, p)[g] ++ c ** P[g]
<1>1. /\ q \in PointVec(n + 1) /\ q[n + 1] = P
      /\ \A i \in 1..n : q[i] = p[i]
  BY AppendPointVec
<1>8. /\ t \in Vec(n + 1) /\ t[n + 1] = c
      /\ \A i \in 1..n : t[i] = s[i]
  BY AppendVec
<1>2. PICK x, y : /\ x = [k \in 1..n |-> s[k] ** p[k][g]]
                  /\ y = [k \in 1..(n + 1) |-> t[k] ** q[k][g]]
  OBVIOUS
<1>3. x \in Vec(n) /\ multiscalar_mul(s, p)[g] = SumOf(x)
  BY <1>2, MsmAt
<1>4. y \in Vec(n + 1) /\ multiscalar_mul(t, q)[g] = SumOf(y)
  <2>1. n + 1 \in Nat
    OBVIOUS
  <2> QED BY <1>1, <1>2, <1>8, <2>1, MsmAt
<1>5. \A k \in 1..n : x[k] = y[k]
  <2>1. ASSUME NEW k \in 1..n PROVE x[k] = y[k]
    <3>1. k \in 1..(n + 1)
      OBVIOUS
    <3>2. t[k] = s[k] /\ q[k] = p[k]
      BY <1>1, <1>8
    <3> QED BY <1>2, <3>1, <3>2
  <2> QED BY <2>1
<1>6. y[n + 1] = c ** P[g]
  <2>1. n + 1 \in 1..(n + 1)
    OBVIOUS
  <2> QED BY <1>1, <1>2, <1>8, <2>1
<1>7. SumOf(y) = SumOf(x) ++ y[n + 1]
  BY <1>3, <1>4, <1>5, SumExtend
<1> QED BY <1>3, <1>4, <1>6, <1>7

\* Points with the same coordinates are the same.
LEMMA PointExtensional ==
  ASSUME NEW P1 \in Point, NEW P2 \in Point, \A g \in Generator : P1[g] = P2[g]
  PROVE  P1 = P2
BY DEF Point

\* The sum of two points.
LEMMA SumOfTwo ==
  ASSUME NEW P1 \in Point, NEW P2 \in Point
  PROVE  P1 (+) P2 \in Point /\ \A g \in Generator : (P1 (+) P2)[g] = P1[g] ++ P2[g]
<1>1. \A g \in Generator : P1[g] ++ P2[g] \in Scalar
  BY ScalarClosed DEF Point
<1> QED BY <1>1 DEF Point, (+)

\* A base is a point.
LEMMA BaseType ==
  ASSUME NEW g
  PROVE  Base(g) \in Point
<1>1. 0 \in Scalar /\ 1 \in Scalar
  BY ScalarClosed
<1> QED BY <1>1 DEF Base, Identity, Point

\* So are the generators of a party.
LEMMA ShareGensType ==
  ASSUME NEW n \in Nat, NEW letter, NEW j
  PROVE  ShareGens(letter, j, n) \in PointVec(n)
<1>1. \A i \in 1..n : Base(<<letter, j, i>>) \in Point
  BY BaseType
<1> QED BY <1>1 DEF ShareGens, PointVec

-----------------------------------------------------------------------------
(* Powers in a row, powers of two.                                         *)

\* The powers of a scalar are scalars.
LEMMA ExpIterType ==
  ASSUME NEW n \in Nat, NEW x \in Scalar
  PROVE  exp_iter(x, n) \in Vec(n)
<1> DEFINE P(p) == p = [k \in 1..n |-> IF k = 1 THEN 1 ELSE p[k - 1] ** x]
           power == CHOOSE p : P(p)
<1>1. PICK f : f = [k \in 1..n |-> Power(x, k - 1)]
  OBVIOUS
<1>2. ASSUME NEW k \in 1..n PROVE f[k] = IF k = 1 THEN 1 ELSE f[k - 1] ** x
  <2>1. CASE k = 1
    <3>1. k - 1 = 0 /\ f[k] = Power(x, k - 1)
      BY <1>1, <2>1
    <3>2. Power(x, 0) = 1
      BY PowerRecursion
    <3>3. Power(x, k - 1) = Power(x, 0)
      BY <3>1
    <3> QED BY <2>1, <3>1, <3>2, <3>3
  <2>2. CASE k # 1
    <3>1. PICK j \in Nat : j = k - 2 /\ k - 1 = j + 1 /\ (k - 1) - 1 = j /\ k - 1 \in 1..n
      <4>1. k - 2 \in Nat /\ k - 1 = (k - 2) + 1 /\ (k - 1) - 1 = k - 2 /\ k - 1 \in 1..n
        BY <2>2
      <4> QED BY <4>1
    <3>2. Power(x, j + 1) = Power(x, j) ** x
      BY PowerRecursion
    <3>3. f[k] = Power(x, j + 1) /\ f[k - 1] = Power(x, j)
      BY <1>1, <3>1
    <3> QED BY <2>2, <3>2, <3>3
  <2> QED BY <2>1, <2>2
<1>3. P(f)
  BY <1>1, <1>2, Zenon
<1>4. P(power)
  BY <1>3
<1> HIDE DEF power
<1> DEFINE T == {k \in Nat : k + 1 \in 1..n => power[k + 1] \in Scalar}
<1>5. 0 \in T
  <2>1. 0 + 1 = 1 /\ (1 \in 1..n => power[1] = 1)
    BY <1>4
  <2> QED BY <2>1, ScalarClosed
<1>6. ASSUME NEW k \in Nat, k \in T PROVE k + 1 \in T
  <2> SUFFICES ASSUME (k + 1) + 1 \in 1..n PROVE power[(k + 1) + 1] \in Scalar
    OBVIOUS
  <2>1. k + 1 \in 1..n /\ (k + 1) + 1 # 1 /\ ((k + 1) + 1) - 1 = k + 1
    OBVIOUS
  <2>2. power[(k + 1) + 1] = power[k + 1] ** x
    BY <1>4, <2>1
  <2>3. power[k + 1] \in Scalar
    BY <1>6, <2>1
  <2> QED BY <2>2, <2>3, ScalarClosed
<1>7. \A k \in Nat : k \in T
  <2> HIDE DEF T
  <2> QED BY <1>5, <1>6, InductionOnNat
<1>8. \A k \in 1..n : power[k] \in Scalar
  <2>1. ASSUME NEW k \in 1..n PROVE power[k] \in Scalar
    <3>1. PICK j \in Nat : j = k - 1 /\ j + 1 = k
      <4>1. k - 1 \in Nat /\ (k - 1) + 1 = k
        OBVIOUS
      <4> QED BY <4>1
    <3>2. j \in T
      BY <1>7
    <3> QED BY <3>1, <3>2
  <2> QED BY <2>1
<1>9. exp_iter(x, n) = [k \in 1..n |-> power[k]]
  BY DEF exp_iter, power
<1> QED BY <1>8, <1>9 DEF Vec

\* 2^k is a number: that of the subsets of k things.
LEMMA PowerOfTwoType ==
  ASSUME NEW k \in Nat
  PROVE  2^k \in Nat /\ 2^k = Cardinality(SUBSET (1..k)) /\ IsFiniteSet(SUBSET (1..k))
<1>1. IsFiniteSet(1..k) /\ Cardinality(1..k) = k
  BY FS_Interval
<1>2. IsFiniteSet(SUBSET (1..k)) /\ Cardinality(SUBSET (1..k)) = 2^k
  BY <1>1, FS_SUBSET
<1>3. Cardinality(SUBSET (1..k)) \in Nat
  BY <1>2, FS_CardinalityType
<1> QED BY <1>2, <1>3

\* The powers of two start from one.
LEMMA PowerOfTwoZero == 2^0 = 1
<1>1. 2^0 = Cardinality(SUBSET (1..0))
  BY PowerOfTwoType
<1>2. SUBSET (1..0) = {{}}
  OBVIOUS
<1>3. Cardinality({{}}) = 1
  BY FS_Singleton
<1> QED BY <1>1, <1>2, <1>3

\* The subsets of 1 .. k + 1 are those without k + 1 and those with it.
LEMMA PowerOfTwoNext ==
  ASSUME NEW k \in Nat
  PROVE  2^(k + 1) = 2 * 2^k
<1>1. PICK A : A = SUBSET (1..k)
  OBVIOUS
<1>2. PICK f : f = [T \in A |-> T \cup {k + 1}]
  OBVIOUS
<1>3. PICK C : C = {T \cup {k + 1} : T \in A}
  OBVIOUS
<1>4. f \in Bijection(A, C)
  <2>1. f \in [A -> C]
    BY <1>2, <1>3
  <2>2. ASSUME NEW S \in A, NEW T \in A, f[S] = f[T] PROVE S = T
    <3>1. k + 1 \notin S /\ k + 1 \notin T
      BY <1>1
    <3>2. S \cup {k + 1} = T \cup {k + 1}
      BY <1>2, <2>2
    <3> QED BY <3>1, <3>2
  <2>3. \A U \in C : \E T \in A : f[T] = U
    BY <1>2, <1>3
  <2> QED BY <2>1, <2>2, <2>3 DEF Bijection, Injection, Surjection, IsInjective
<1>5. IsFiniteSet(A) /\ Cardinality(A) = 2^k /\ 2^k \in Nat
  BY <1>1, PowerOfTwoType
<1>6. IsFiniteSet(C) /\ Cardinality(C) = 2^k
  <2>1. ExistsBijection(A, C)
    BY <1>4 DEF ExistsBijection
  <2> QED BY <1>5, <2>1, FS_Bijection
<1>7. A \cap C = {}
  BY <1>1, <1>3
<1>8. SUBSET (1..(k + 1)) = A \cup C
  <2>1. ASSUME NEW T \in SUBSET (1..(k + 1)) PROVE T \in A \cup C
    <3>1. CASE k + 1 \in T
      <4>1. T \ {k + 1} \in A /\ T = (T \ {k + 1}) \cup {k + 1}
        BY <1>1, <3>1
      <4> QED BY <1>3, <4>1
    <3>2. CASE k + 1 \notin T
      BY <1>1, <3>2
    <3> QED BY <3>1, <3>2
  <2>2. ASSUME NEW T \in A \cup C PROVE T \subseteq 1..(k + 1)
    BY <1>1, <1>3
  <2> QED BY <2>1, <2>2
<1>9. Cardinality(A \cup C) = Cardinality(A) + Cardinality(C) - Cardinality(A \cap C)
  BY <1>5, <1>6, FS_Union
<1>10. Cardinality(A \cap C) = 0
  BY <1>7, FS_EmptySet
<1>11. 2^(k + 1) = Cardinality(SUBSET (1..(k + 1)))
  <2>1. k + 1 \in Nat
    OBVIOUS
  <2> QED BY <2>1, PowerOfTwoType
<1>12. Cardinality(A \cup C) = 2^k + 2^k
  <2>1. Cardinality(A) = 2^k /\ Cardinality(C) = 2^k /\ 2^k \in Nat
    BY <1>5, <1>6
  <2> QED BY <1>9, <1>10, <2>1
<1>13. 2^(k + 1) = 2^k + 2^k
  <2>1. Cardinality(SUBSET (1..(k + 1))) = Cardinality(A \cup C)
    BY <1>8, Zenon
  <2> QED BY <1>11, <1>12, <2>1, Zenon
<1>14. PICK m \in Nat : m = 2^k
  BY <1>5
<1> QED BY <1>13, <1>14

\* They outgrow their exponents.
LEMMA PowerOfTwoGrows ==
  ASSUME NEW k \in Nat
  PROVE  k < 2^k /\ 1 <= 2^k
<1> DEFINE T == {j \in Nat : j < 2^j /\ 1 <= 2^j}
<1>1. 0 \in T
  BY PowerOfTwoZero
<1>2. ASSUME NEW j \in Nat, j \in T PROVE j + 1 \in T
  <2>1. 2^(j + 1) = 2 * 2^j /\ 2^j \in Nat
    BY PowerOfTwoNext, PowerOfTwoType
  <2> QED BY <1>2, <2>1
<1>3. \A j \in Nat : j \in T
  <2> HIDE DEF T
  <2> QED BY <1>1, <1>2, InductionOnNat
<1> QED BY <1>3

\* They are ordered as their exponents.
LEMMA PowerOfTwoOrders ==
  ASSUME NEW j \in Nat, NEW k \in Nat, j <= k
  PROVE  2^j <= 2^k
<1> DEFINE T == {d \in Nat : 2^j <= 2^(j + d)}
<1>1. 0 \in T
  <2>1. j + 0 = j
    OBVIOUS
  <2>2. PICK m \in Nat : m = 2^j
    BY PowerOfTwoType
  <2>3. 2^j <= 2^j
    BY <2>2
  <2> QED BY <2>1, <2>3
<1>2. ASSUME NEW d \in Nat, d \in T PROVE d + 1 \in T
  <2>1. PICK e \in Nat : e = j + d /\ e + 1 = j + (d + 1)
    OBVIOUS
  <2>2. 2^(e + 1) = 2 * 2^e /\ 2^e \in Nat /\ 2^j \in Nat
    BY PowerOfTwoNext, PowerOfTwoType
  <2>3. 2^j <= 2^e
    BY <1>2, <2>1
  <2>4. 2^j <= 2^(e + 1)
    BY <2>2, <2>3
  <2> QED BY <2>1, <2>4
<1>3. \A d \in Nat : d \in T
  <2> HIDE DEF T
  <2> QED BY <1>1, <1>2, InductionOnNat
<1>4. k - j \in Nat /\ j + (k - j) = k
  OBVIOUS
<1> QED BY <1>3, <1>4

-----------------------------------------------------------------------------
(* The challenges a transcript yields.                                     *)

\* d holds the challenges after each of the first n entries of t.
Collects(d, t, n, label) ==
    /\ d[0] = <<>>
    /\ \A k \in 1..n : d[k] = IF t[k][1] = label THEN Append(d[k - 1], t[k][2]) ELSE d[k - 1]

\* What is drawn from a transcript depends on its entries only.
LEMMA CollectsAgree ==
  ASSUME NEW n \in Nat, NEW label, NEW s, NEW t, \A i \in 1..n : s[i] = t[i],
         NEW d, Collects(d, s, n, label), NEW e, Collects(e, t, n, label)
  PROVE  \A k \in 0..n : d[k] = e[k]
<1> DEFINE T == {k \in 0..n : d[k] = e[k]}
<1>1. 0 \in T
  BY DEF Collects
<1>2. ASSUME NEW k \in 0..(n - 1), k \in T PROVE k + 1 \in T
  <2>1. k + 1 \in 1..n /\ (k + 1) - 1 = k /\ k + 1 \in 0..n
    OBVIOUS
  <2>2. /\ d[k + 1] = IF s[k + 1][1] = label THEN Append(d[k], s[k + 1][2]) ELSE d[k]
        /\ e[k + 1] = IF t[k + 1][1] = label THEN Append(e[k], t[k + 1][2]) ELSE e[k]
    BY <2>1 DEF Collects
  <2>3. s[k + 1] = t[k + 1] /\ d[k] = e[k]
    BY <1>2, <2>1
  <2> QED BY <2>1, <2>2, <2>3
<1>3. \A k \in 0..n : k \in T
  <2> HIDE DEF T
  <2> QED BY <1>1, <1>2, InductionUpTo
<1> QED BY <1>3

\* ChallengesOf has the recursion of its definition.
LEMMA ChallengesAre ==
  ASSUME NEW t, IsSequence(t), NEW label
  PROVE  \E d : Collects(d, t, Len(t), label) /\ ChallengesOf(t, label) = d[Len(t)]
                  /\ IsSequence(d[Len(t)])
<1>1. PICK n \in Nat : n = Len(t)
  BY LenOfSequence
<1>2. PICK V : V = {t[i][2] : i \in 1..n}
  OBVIOUS
<1>3. PICK step : step = [p \in (1..n) \X Seq(V) |->
                             IF t[p[1]][1] = label THEN Append(p[2], t[p[1]][2]) ELSE p[2]]
  OBVIOUS
<1>4. PICK S : S = Seq(V)
  OBVIOUS
<1>5. StaysIn(S, n, step)
  <2>1. \A k \in 1..n : t[k][2] \in V
    BY <1>2
  <2>2. \A k \in 1..n : \A a \in Seq(V) : Append(a, t[k][2]) \in Seq(V)
    BY <2>1
  <2> QED BY <1>3, <1>4, <2>2 DEF StaysIn
<1>6. <<>> \in S
  BY <1>4
<1>7. PICK f \in [0..n -> S] : Recursive(f, n, <<>>, step)
  BY <1>5, <1>6, RecursionExists
<1>8. ASSUME NEW k \in 1..n
      PROVE  f[k] = IF t[k][1] = label THEN Append(f[k - 1], t[k][2]) ELSE f[k - 1]
  <2>1. <<k, f[k - 1]>> \in (1..n) \X Seq(V)
    BY <1>4
  <2>2. f[k] = step[<<k, f[k - 1]>>]
    BY <1>7 DEF Recursive
  <2> QED BY <1>3, <2>1, <2>2
<1>9. Collects(f, t, n, label)
  BY <1>7, <1>8 DEF Collects, Recursive
<1> DEFINE P(d) == d = [k \in 0..n |->
                          IF k = 0 THEN <<>>
                          ELSE IF t[k][1] = label THEN Append(d[k - 1], t[k][2])
                          ELSE d[k - 1]]
           drawn == CHOOSE d : P(d)
<1>10. P(drawn)
  <2>1. \A k \in 0..n : f[k] = IF k = 0 THEN <<>>
                               ELSE IF t[k][1] = label THEN Append(f[k - 1], t[k][2])
                               ELSE f[k - 1]
    <3>1. ASSUME NEW k \in 0..n, k # 0 PROVE k \in 1..n
      BY <3>1
    <3>2. f[0] = <<>>
      BY <1>7 DEF Recursive
    <3> QED BY <1>8, <3>1, <3>2, Zenon
  <2>2. P(f)
    BY <1>7, <2>1, Zenon
  <2> QED BY <2>2, Zenon
<1>11. ChallengesOf(t, label) = drawn[n]
  BY <1>1 DEF ChallengesOf
<1> HIDE DEF drawn
<1>12. Collects(drawn, t, n, label)
  <2>1. drawn[0] = <<>>
    <3>1. 0 \in 0..n
      OBVIOUS
    <3> QED BY <1>10, <3>1
  <2>2. ASSUME NEW k \in 1..n
        PROVE  drawn[k] = IF t[k][1] = label THEN Append(drawn[k - 1], t[k][2])
                                              ELSE drawn[k - 1]
    <3>1. k \in 0..n /\ k # 0
      OBVIOUS
    <3> QED BY <1>10, <3>1
  <2> QED BY <2>1, <2>2 DEF Collects
<1>13. drawn[n] = f[n]
  <2>1. \A k \in 0..n : drawn[k] = f[k]
    BY <1>9, <1>12, CollectsAgree
  <2> QED BY <2>1
<1>14. IsSequence(f[n])
  BY <1>4, <1>7 DEF IsSequence
<1> QED BY <1>1, <1>11, <1>12, <1>13, <1>14

\* One more entry of the transcript is a challenge more if it has the label, and no
\* other entry is one.
LEMMA ChallengesAppend ==
  ASSUME NEW s, IsSequence(s), NEW e, NEW t, Longer(t, s, e), NEW label
  PROVE  /\ e[1] = label => Longer(ChallengesOf(t, label), ChallengesOf(s, label), e[2])
         /\ e[1] # label => ChallengesOf(t, label) = ChallengesOf(s, label)
         /\ IsSequence(t) /\ IsSequence(ChallengesOf(s, label))
<1>1. PICK n \in Nat : n = Len(s)
  BY LenOfSequence
<1>2. IsSequence(t) /\ Len(t) = n + 1
  BY <1>1, AppendIsSequence DEF Longer
<1>3. t[n + 1] = e /\ \A i \in 1..n : t[i] = s[i]
  BY <1>1, AppendAt
<1>4. PICK d : Collects(d, s, n, label) /\ ChallengesOf(s, label) = d[n] /\ IsSequence(d[n])
  BY <1>1, ChallengesAre
<1>5. PICK f : Collects(f, t, n + 1, label) /\ ChallengesOf(t, label) = f[n + 1]
  BY <1>2, ChallengesAre
<1>6. Collects(f, t, n, label)
      /\ f[n + 1] = IF e[1] = label THEN Append(f[n], e[2]) ELSE f[n]
  <2>1. n + 1 \in 1..(n + 1) /\ (n + 1) - 1 = n /\ \A k \in 1..n : k \in 1..(n + 1)
    OBVIOUS
  <2> QED BY <1>3, <1>5, <2>1 DEF Collects
<1>7. f[n] = d[n]
  <2>1. \A k \in 0..n : d[k] = f[k]
    BY <1>3, <1>4, <1>6, CollectsAgree
  <2> QED BY <2>1
<1> QED BY <1>2, <1>4, <1>5, <1>6, <1>7 DEF Longer

\* An empty transcript yields no challenges.
LEMMA ChallengesOfNone ==
  ASSUME NEW label
  PROVE  ChallengesOf(<<>>, label) = <<>> /\ IsSequence(<<>>)
<1>1. <<>> \in Seq({}) /\ Len(<<>>) = 0
  OBVIOUS
<1>2. IsSequence(<<>>)
  BY <1>1 DEF IsSequence
<1>3. PICK d : Collects(d, <<>>, Len(<<>>), label) /\ ChallengesOf(<<>>, label) = d[Len(<<>>)]
  BY <1>2, ChallengesAre
<1> QED BY <1>1, <1>2, <1>3 DEF Collects

-----------------------------------------------------------------------------
(* A combination of generators.                                            *)

\* A sum of nothing but zeros.
LEMMA SumOfZeros ==
  ASSUME NEW n \in Nat, NEW v \in Vec(n), \A k \in 1..n : v[k] = 0
  PROVE  SumOf(v) = 0
<1>1. PICK t \in [0..n -> Scalar] : SumOf(v) = t[n] /\ Sums(t, n, v)
  BY PartialSums
<1> DEFINE T == {k \in 0..n : t[k] = 0}
<1>2. 0 \in T
  BY <1>1 DEF Sums
<1>3. ASSUME NEW k \in 0..(n - 1), k \in T PROVE k + 1 \in T
  <2>1. k + 1 \in 1..n /\ (k + 1) - 1 = k /\ k + 1 \in 0..n
    OBVIOUS
  <2>2. t[k + 1] = t[k] ++ v[k + 1]
    BY <1>1, <2>1 DEF Sums
  <2>3. t[k] = 0 /\ v[k + 1] = 0
    BY <1>3, <2>1
  <2> QED BY <2>1, <2>2, <2>3, Units, ScalarClosed
<1>4. \A k \in 0..n : k \in T
  <2> HIDE DEF T
  <2> QED BY <1>2, <1>3, InductionUpTo
<1>5. t[n] = 0
  BY <1>4
<1> QED BY <1>1, <1>5

\* A sum with one entry that is not zero.
LEMMA SumSelects ==
  ASSUME NEW n \in Nat, NEW v \in Vec(n), NEW i \in 1..n, \A k \in 1..n : k # i => v[k] = 0
  PROVE  SumOf(v) = v[i]
<1>1. PICK t \in [0..n -> Scalar] : SumOf(v) = t[n] /\ Sums(t, n, v)
  BY PartialSums
<1> DEFINE T == {k \in 0..n : t[k] = IF k < i THEN 0 ELSE v[i]}
<1>2. 0 \in T
  BY <1>1 DEF Sums
<1>3. ASSUME NEW k \in 0..(n - 1), k \in T PROVE k + 1 \in T
  <2>1. k + 1 \in 1..n /\ (k + 1) - 1 = k /\ k + 1 \in 0..n
    OBVIOUS
  <2>2. t[k + 1] = t[k] ++ v[k + 1]
    BY <1>1, <2>1 DEF Sums
  <2>3. v[i] \in Scalar /\ 0 \in Scalar
    BY ScalarClosed DEF Vec
  <2>4. CASE k + 1 < i
    <3>1. t[k] = 0 /\ v[k + 1] = 0
      BY <1>3, <2>1, <2>4
    <3> QED BY <2>1, <2>2, <2>3, <2>4, <3>1, Units
  <2>5. CASE k + 1 = i
    <3>1. t[k] = 0 /\ v[k + 1] = v[i]
      BY <1>3, <2>1, <2>5
    <3>2. t[k + 1] = v[i]
      BY <2>2, <2>3, <3>1, Units
    <3> QED BY <2>1, <2>5, <3>2
  <2>6. CASE k + 1 > i
    <3>1. t[k] = v[i] /\ v[k + 1] = 0
      BY <1>3, <2>1, <2>6
    <3>2. t[k + 1] = v[i]
      BY <2>2, <2>3, <3>1, Units
    <3> QED BY <2>1, <2>6, <3>2
  <2> QED BY <2>1, <2>4, <2>5, <2>6
<1>4. \A k \in 0..n : k \in T
  <2> HIDE DEF T
  <2> QED BY <1>2, <1>3, InductionUpTo
<1>5. t[n] = v[i]
  BY <1>4
<1> QED BY <1>1, <1>5

\* The coordinates of a generator.
LEMMA BaseAt ==
  ASSUME NEW h, NEW g \in Generator
  PROVE  Base(h)[g] = IF h = g THEN 1 ELSE 0
BY DEF Base, Identity

\* A combination of different generators has their weights for its coordinates.
LEMMA MsmOfBases ==
  ASSUME NEW n \in Nat, NEW s \in Vec(n), NEW P \in PointVec(n), NEW b,
         \A k \in 1..n : P[k] = Base(b[k]), NEW g \in Generator
  PROVE  /\ (\A k \in 1..n : b[k] # g) => multiscalar_mul(s, P)[g] = 0
         /\ \A i \in 1..n : b[i] = g /\ (\A k \in 1..n : k # i => b[k] # g)
                              => multiscalar_mul(s, P)[g] = s[i]
<1>1. PICK x : x = [k \in 1..n |-> s[k] ** P[k][g]]
  OBVIOUS
<1>2. x \in Vec(n) /\ multiscalar_mul(s, P)[g] = SumOf(x)
  BY <1>1, MsmAt
<1>3. \A k \in 1..n : s[k] \in Scalar
  BY DEF Vec
<1>4. \A k \in 1..n : x[k] = IF b[k] = g THEN s[k] ELSE 0
  <2>1. \A k \in 1..n : P[k][g] = IF b[k] = g THEN 1 ELSE 0
    BY BaseAt
  <2> QED BY <1>1, <1>3, <2>1, Units
<1>5. ASSUME \A k \in 1..n : b[k] # g PROVE multiscalar_mul(s, P)[g] = 0
  <2>1. \A k \in 1..n : x[k] = 0
    BY <1>4, <1>5
  <2> QED BY <1>2, <2>1, SumOfZeros
<1>6. ASSUME NEW i \in 1..n, b[i] = g, \A k \in 1..n : k # i => b[k] # g
      PROVE  multiscalar_mul(s, P)[g] = s[i]
  <2>1. \A k \in 1..n : k # i => x[k] = 0
    BY <1>4, <1>6
  <2>2. x[i] = s[i]
    BY <1>4, <1>6
  <2> QED BY <1>2, <2>1, <2>2, SumSelects
<1> QED BY <1>5, <1>6

\* The coordinates of a combination of a party's generators.
LEMMA MsmOfShareGens ==
  ASSUME NEW n \in Nat, NEW s \in Vec(n), NEW letter, NEW j, NEW g \in Generator
  PROVE  /\ (\A i \in 1..n : g # <<letter, j, i>>)
                => multiscalar_mul(s, ShareGens(letter, j, n))[g] = 0
         /\ \A i \in 1..n : g = <<letter, j, i>>
                => multiscalar_mul(s, ShareGens(letter, j, n))[g] = s[i]
<1>1. PICK b : b = [k \in 1..n |-> <<letter, j, k>>]
  OBVIOUS
<1>2. PICK P : P = ShareGens(letter, j, n)
  OBVIOUS
<1>3. P \in PointVec(n) /\ \A k \in 1..n : P[k] = Base(b[k])
  BY <1>1, <1>2, ShareGensType DEF ShareGens
<1>4. \A i, k \in 1..n : k # i => <<letter, j, i>> # <<letter, j, k>>
  <2>1. ASSUME NEW i \in 1..n, NEW k \in 1..n, <<letter, j, i>> = <<letter, j, k>> PROVE k = i
    <3>1. <<letter, j, i>>[3] = <<letter, j, k>>[3]
      BY <2>1
    <3> QED BY <3>1
  <2> QED BY <2>1
<1>5. (\A i \in 1..n : g # <<letter, j, i>>) => multiscalar_mul(s, P)[g] = 0
  BY <1>1, <1>3, MsmOfBases
<1>6. ASSUME NEW i \in 1..n, g = <<letter, j, i>> PROVE multiscalar_mul(s, P)[g] = s[i]
  <2>1. b[i] = g /\ \A k \in 1..n : k # i => b[k] # g
    BY <1>1, <1>4, <1>6
  <2> QED BY <1>3, <2>1, MsmOfBases
<1> QED BY <1>2, <1>5, <1>6


-----------------------------------------------------------------------------
(* Powers of a scalar, and their sums.                                     *)

\* The power of a sum of exponents.
LEMMA PowerAdds ==
  ASSUME NEW a \in Scalar, NEW j \in Nat, NEW k \in Nat
  PROVE  Power(a, j + k) = Power(a, j) ** Power(a, k)
<1> DEFINE T == {i \in Nat : Power(a, j + i) = Power(a, j) ** Power(a, i)}
<1>1. Power(a, j) \in Scalar
  BY PowerRecursion
<1>2. 0 \in T
  <2>1. j + 0 = j /\ Power(a, 0) = 1
    BY PowerRecursion
  <2>2. Power(a, j) ** 1 = Power(a, j)
    BY <1>1, Units
  <2> QED BY <2>1, <2>2
<1>3. ASSUME NEW i \in Nat, i \in T PROVE i + 1 \in T
  <2>1. j + (i + 1) = (j + i) + 1 /\ j + i \in Nat
    OBVIOUS
  <2>2. Power(a, j + (i + 1)) = Power(a, j + i) ** a
    BY <2>1, PowerRecursion
  <2>3. Power(a, i + 1) = Power(a, i) ** a /\ Power(a, i) \in Scalar
    BY PowerRecursion
  <2>4. (Power(a, j) ** Power(a, i)) ** a = Power(a, j) ** (Power(a, i) ** a)
    BY <1>1, <2>3, MulAssociates
  <2> QED BY <1>3, <2>2, <2>3, <2>4
<1>4. \A i \in Nat : i \in T
  <2> HIDE DEF T
  <2> QED BY <1>2, <1>3, InductionOnNat
<1> QED BY <1>4

\* The power of a product, and of one.
LEMMA PowerOfProduct ==
  ASSUME NEW a \in Scalar, NEW b \in Scalar, NEW k \in Nat
  PROVE  Power(a ** b, k) = Power(a, k) ** Power(b, k)
<1> DEFINE T == {i \in Nat : Power(a ** b, i) = Power(a, i) ** Power(b, i)}
<1>1. a ** b \in Scalar
  BY ScalarClosed
<1>2. 0 \in T
  BY <1>1, PowerRecursion, Units, ScalarClosed
<1>3. ASSUME NEW i \in Nat, i \in T PROVE i + 1 \in T
  <2>1. Power(a ** b, i + 1) = Power(a ** b, i) ** (a ** b)
    BY <1>1, PowerRecursion
  <2>2. /\ Power(a, i + 1) = Power(a, i) ** a /\ Power(a, i) \in Scalar
        /\ Power(b, i + 1) = Power(b, i) ** b /\ Power(b, i) \in Scalar
    BY PowerRecursion
  <2>3. (Power(a, i) ** Power(b, i)) ** (a ** b) = (Power(a, i) ** a) ** (Power(b, i) ** b)
    BY <2>2, MulInterchanges
  <2> QED BY <1>3, <2>1, <2>2, <2>3
<1>4. \A i \in Nat : i \in T
  <2> HIDE DEF T
  <2> QED BY <1>2, <1>3, InductionOnNat
<1> QED BY <1>4

\* The powers of one.
LEMMA PowerOfOne ==
  ASSUME NEW k \in Nat
  PROVE  Power(1, k) = 1
<1> DEFINE T == {i \in Nat : Power(1, i) = 1}
<1>1. 1 \in Scalar
  BY ScalarClosed
<1>2. 0 \in T
  BY <1>1, PowerRecursion
<1>3. ASSUME NEW i \in Nat, i \in T PROVE i + 1 \in T
  <2>1. Power(1, i + 1) = Power(1, i) ** 1
    BY <1>1, PowerRecursion
  <2>2. Power(1, i) = 1
    BY <1>3
  <2>3. 1 ** 1 = 1
    BY <1>1, Units
  <2> QED BY <2>1, <2>2, <2>3
<1>4. \A i \in Nat : i \in T
  <2> HIDE DEF T
  <2> QED BY <1>2, <1>3, InductionOnNat
<1> QED BY <1>4

\* A power is not zero, and the power of the inverse is its inverse.
LEMMA PowerOfInverse ==
  ASSUME NEW a \in Scalar \ {0}, NEW k \in Nat
  PROVE  /\ Power(a, k) \in Scalar \ {0}
         /\ Power(Invert(a), k) \in Scalar
         /\ Power(a, k) ** Power(Invert(a), k) = 1
         /\ Power(Invert(a), k) = Invert(Power(a, k))
<1>1. Invert(a) \in Scalar /\ a ** Invert(a) = 1
  BY Inverses
<1>2. Power(a ** Invert(a), k) = Power(a, k) ** Power(Invert(a), k)
  BY <1>1, PowerOfProduct
<1>3. Power(a, k) ** Power(Invert(a), k) = 1
  BY <1>1, <1>2, PowerOfOne
<1>4. Power(a, k) \in Scalar /\ Power(Invert(a), k) \in Scalar
  BY <1>1, PowerRecursion
<1>5. Power(a, k) # 0
  <2>1. 0 ** Power(Invert(a), k) = 0
    BY <1>4, Units
  <2> QED BY <1>3, <2>1
<1> QED BY <1>3, <1>4, <1>5, InverseUnique

\* The powers of a scalar in a row.
LEMMA ExpIterIs ==
  ASSUME NEW n \in Nat, NEW x \in Scalar
  PROVE  /\ exp_iter(x, n) \in Vec(n)
         /\ \A k \in 1..n : exp_iter(x, n)[k] = Power(x, k - 1)
<1> DEFINE P(p) == p = [k \in 1..n |-> IF k = 1 THEN 1 ELSE p[k - 1] ** x]
           power == CHOOSE p : P(p)
<1>1. PICK f : f = [k \in 1..n |-> Power(x, k - 1)]
  OBVIOUS
<1>2. ASSUME NEW k \in 1..n PROVE f[k] = IF k = 1 THEN 1 ELSE f[k - 1] ** x
  <2>1. CASE k = 1
    <3>1. k - 1 = 0 /\ f[k] = Power(x, k - 1)
      BY <1>1, <2>1
    <3>2. Power(x, 0) = 1
      BY PowerRecursion
    <3>3. Power(x, k - 1) = Power(x, 0)
      BY <3>1
    <3> QED BY <2>1, <3>1, <3>2, <3>3
  <2>2. CASE k # 1
    <3>1. PICK j \in Nat : j = k - 2 /\ k - 1 = j + 1 /\ (k - 1) - 1 = j /\ k - 1 \in 1..n
      <4>1. k - 2 \in Nat /\ k - 1 = (k - 2) + 1 /\ (k - 1) - 1 = k - 2 /\ k - 1 \in 1..n
        BY <2>2
      <4> QED BY <4>1
    <3>2. Power(x, j + 1) = Power(x, j) ** x
      BY PowerRecursion
    <3>3. f[k] = Power(x, j + 1) /\ f[k - 1] = Power(x, j)
      BY <1>1, <3>1
    <3> QED BY <2>2, <3>2, <3>3
  <2> QED BY <2>1, <2>2
<1>3. P(f)
  BY <1>1, <1>2, Zenon
<1>4. P(power)
  BY <1>3
<1> HIDE DEF power
<1> DEFINE T == {k \in Nat : k + 1 \in 1..n => power[k + 1] = Power(x, k)}
<1>5. 0 \in T
  <2>1. 0 + 1 = 1 /\ (1 \in 1..n => power[1] = 1)
    BY <1>4
  <2> QED BY <2>1, PowerRecursion
<1>6. ASSUME NEW k \in Nat, k \in T PROVE k + 1 \in T
  <2> SUFFICES ASSUME (k + 1) + 1 \in 1..n
               PROVE  power[(k + 1) + 1] = Power(x, k + 1)
    OBVIOUS
  <2>1. k + 1 \in 1..n /\ (k + 1) + 1 # 1 /\ ((k + 1) + 1) - 1 = k + 1
    OBVIOUS
  <2>2. power[(k + 1) + 1] = power[k + 1] ** x
    BY <1>4, <2>1
  <2>3. power[k + 1] = Power(x, k)
    BY <1>6, <2>1
  <2> QED BY <2>2, <2>3, PowerRecursion
<1>7. \A k \in Nat : k \in T
  <2> HIDE DEF T
  <2> QED BY <1>5, <1>6, InductionOnNat
<1>8. \A k \in 1..n : power[k] = Power(x, k - 1)
  <2>1. ASSUME NEW k \in 1..n PROVE power[k] = Power(x, k - 1)
    <3>1. PICK j \in Nat : j = k - 1 /\ j + 1 = k
      <4>1. k - 1 \in Nat /\ (k - 1) + 1 = k
        OBVIOUS
      <4> QED BY <4>1
    <3>2. j \in T
      BY <1>7
    <3> QED BY <3>1, <3>2
  <2> QED BY <2>1
<1>9. exp_iter(x, n) = [k \in 1..n |-> power[k]]
  BY DEF exp_iter, power
<1>10. \A k \in 1..n : Power(x, k - 1) \in Scalar
  <2>1. \A k \in 1..n : k - 1 \in Nat
    OBVIOUS
  <2> QED BY <2>1, PowerRecursion
<1> QED BY <1>8, <1>9, <1>10 DEF Vec

\* The sum of the first powers.
Geometric(x, n) == SumOf(exp_iter(x, n))

\* One power more.
LEMMA GeometricNext ==
  ASSUME NEW x \in Scalar
  PROVE  /\ Geometric(x, 0) = 0
         /\ \A n \in Nat : /\ Geometric(x, n) \in Scalar
                           /\ Geometric(x, n + 1) = Geometric(x, n) ++ Power(x, n)
<1>1. Geometric(x, 0) = 0
  BY ExpIterIs, SumOfNothing DEF Geometric
<1>2. ASSUME NEW n \in Nat
      PROVE  /\ Geometric(x, n) \in Scalar
             /\ Geometric(x, n + 1) = Geometric(x, n) ++ Power(x, n)
  <2>1. PICK k \in Nat : k = n + 1
    OBVIOUS
  <2>2. PICK v, w : v = exp_iter(x, k) /\ w = exp_iter(x, n)
    OBVIOUS
  <2>3. v \in Vec(k) /\ \A i \in 1..k : v[i] = Power(x, i - 1)
    BY <2>2, ExpIterIs
  <2>4. w \in Vec(n) /\ \A i \in 1..n : w[i] = Power(x, i - 1)
    BY <2>2, ExpIterIs
  <2>5. \A i \in 1..n : w[i] = v[i]
    BY <2>1, <2>3, <2>4
  <2>6. v[n + 1] = Power(x, n)
    <3>1. k \in 1..k /\ k - 1 = n
      BY <2>1
    <3> QED BY <2>1, <2>3, <3>1
  <2>7. v \in Vec(n + 1)
    BY <2>1, <2>3
  <2>8. SumOf(v) = SumOf(w) ++ v[n + 1]
    BY <2>4, <2>5, <2>7, SumExtend
  <2>9. SumOf(w) \in Scalar
    BY <2>4, SumClosed
  <2> QED BY <2>1, <2>2, <2>6, <2>8, <2>9 DEF Geometric
<1> QED BY <1>1, <1>2

\* As many powers more as one likes: they are the first ones times a power.
LEMMA GeometricAdds ==
  ASSUME NEW x \in Scalar, NEW j \in Nat, NEW k \in Nat
  PROVE  Geometric(x, j + k) = Geometric(x, j) ++ Power(x, j) ** Geometric(x, k)
<1> DEFINE T == {i \in Nat : Geometric(x, j + i)
                                = Geometric(x, j) ++ Power(x, j) ** Geometric(x, i)}
<1>1. Geometric(x, j) \in Scalar /\ Power(x, j) \in Scalar
  BY GeometricNext, PowerRecursion
<1>2. 0 \in T
  <2>1. j + 0 = j /\ Geometric(x, 0) = 0
    BY GeometricNext
  <2>2. Power(x, j) ** 0 = 0 /\ Geometric(x, j) ++ 0 = Geometric(x, j)
    BY <1>1, Units
  <2> QED BY <2>1, <2>2
<1>3. ASSUME NEW i \in Nat, i \in T PROVE i + 1 \in T
  <2>1. j + (i + 1) = (j + i) + 1 /\ j + i \in Nat
    OBVIOUS
  <2>2. Geometric(x, j + (i + 1)) = Geometric(x, j + i) ++ Power(x, j + i)
    BY <2>1, GeometricNext
  <2>3. Geometric(x, i + 1) = Geometric(x, i) ++ Power(x, i)
        /\ Geometric(x, i) \in Scalar /\ Power(x, i) \in Scalar
    BY GeometricNext, PowerRecursion
  <2>4. Power(x, j + i) = Power(x, j) ** Power(x, i)
    BY PowerAdds
  <2>5. Power(x, j) ** (Geometric(x, i) ++ Power(x, i))
          = Power(x, j) ** Geometric(x, i) ++ Power(x, j) ** Power(x, i)
    BY <1>1, <2>3, Distributes
  <2>6. Power(x, j) ** Geometric(x, i) \in Scalar /\ Power(x, j) ** Power(x, i) \in Scalar
    BY <1>1, <2>3, ScalarClosed
  <2>7. (Geometric(x, j) ++ Power(x, j) ** Geometric(x, i)) ++ Power(x, j) ** Power(x, i)
          = Geometric(x, j) ++ (Power(x, j) ** Geometric(x, i) ++ Power(x, j) ** Power(x, i))
    BY <1>1, <2>6, AddAssociates
  <2> QED BY <1>3, <2>2, <2>3, <2>4, <2>5, <2>7
<1>4. \A i \in Nat : i \in T
  <2> HIDE DEF T
  <2> QED BY <1>2, <1>3, InductionOnNat
<1> QED BY <1>4

\* What sum_of_powers computes is the sum of the first powers, for powers of two by
\* doubling: with twice h powers summed up, the next as many are these times the
\* power in hand squared.
LEMMA SumOfPowersIs ==
  ASSUME NEW x \in Scalar, NEW n \in Nat
  PROVE  sum_of_powers(x, n) = Geometric(x, n)
<1> DEFINE D == Nat \X Scalar \X Scalar
           next(s) == <<s[1] \div 2, s[2] ++ (s[3] ** s[3]) ** s[2], s[3] ** s[3]>>
           body(f, s) == IF s[1] <= 2 THEN s[2] ELSE f[next(s)]
           P(f) == f = [s \in D |-> body(f, s)]
           Trace(p, k, s) == /\ p[0] = s /\ p[k][1] <= 2
                             /\ \A i \in 0..(k - 1) : p[i][1] > 2 /\ p[i + 1] = next(p[i])
           Ends(s) == {c \in Scalar : \E k \in Nat : \E p \in [0..k -> D] :
                                          Trace(p, k, s) /\ c = p[k][2]}
           value(s) == CHOOSE c : c \in Ends(s)
           double == CHOOSE f : P(f)
<1>1. ASSUME NEW s \in D PROVE /\ next(s) \in D /\ s[1] \in Nat /\ s[2] \in Scalar
  <2>1. s[1] \in Nat /\ s[2] \in Scalar /\ s[3] \in Scalar
    OBVIOUS
  <2>2. s[1] \div 2 \in Nat
    <3>1. \A k \in Nat : k \div 2 \in Nat
      OBVIOUS
    <3> QED BY <2>1, <3>1
  <2>3. s[3] ** s[3] \in Scalar /\ s[2] ++ (s[3] ** s[3]) ** s[2] \in Scalar
    BY <2>1, ScalarClosed
  <2> QED BY <2>1, <2>2, <2>3
<1>2. ASSUME NEW s \in D, s[1] <= 2 PROVE value(s) = s[2]
  <2>1. s[2] \in Ends(s)
    <3>1. PICK p : p = [i \in 0..0 |-> s]
      OBVIOUS
    <3>2. p \in [0..0 -> D] /\ p[0] = s
      <4> HIDE DEF D
      <4> QED BY <3>1
    <3>3. Trace(p, 0, s)
      <4>1. \A i \in 0..(0 - 1) : FALSE
        OBVIOUS
      <4> HIDE DEF next
      <4> QED BY <1>2, <3>2, <4>1
    <3>4. \E q \in [0..0 -> D] : Trace(q, 0, s) /\ s[2] = q[0][2]
      <4> HIDE DEF Trace, D
      <4> QED BY <3>2, <3>3
    <3>5. 0 \in Nat /\ s[2] \in Scalar
      BY <1>1
    <3> HIDE DEF Trace, D
    <3> QED BY <3>4, <3>5
  <2>2. ASSUME NEW c \in Ends(s) PROVE c = s[2]
    <3>0. PICK k \in Nat : \E p \in [0..k -> D] : Trace(p, k, s) /\ c = p[k][2]
      <4> HIDE DEF Trace, D
      <4> QED OBVIOUS
    <3>1. PICK p \in [0..k -> D] : Trace(p, k, s) /\ c = p[k][2]
      BY <3>0
    <3>2. k = 0
      <4>1. CASE k # 0
        <5>1. 0 \in 0..(k - 1)
          BY <4>1
        <5>2. p[0][1] > 2 /\ p[0] = s
          <6> HIDE DEF D, next
          <6> QED BY <3>1, <5>1
        <5>3. s[1] \in Nat
          BY <1>1
        <5> HIDE DEF D, next, Trace
        <5> QED BY <1>2, <5>2, <5>3
      <4> QED BY <4>1
    <3>3. p[0] = s
      <4> HIDE DEF D, next
      <4> QED BY <3>1
    <3> HIDE DEF D, next, Trace
    <3> QED BY <3>1, <3>2, <3>3
  <2> HIDE DEF Ends
  <2> QED BY <2>1, <2>2
<1>3. ASSUME NEW s \in D, ~(s[1] <= 2) PROVE value(s) = value(next(s))
  <2>1. ASSUME NEW c \in Ends(s) PROVE c \in Ends(next(s))
    <3>1. c \in Scalar /\ \E k \in Nat : \E p \in [0..k -> D] : Trace(p, k, s) /\ c = p[k][2]
      <4> HIDE DEF Trace, D
      <4> QED OBVIOUS
    <3>21. PICK k \in Nat : \E p \in [0..k -> D] : Trace(p, k, s) /\ c = p[k][2]
      BY <3>1
    <3>2. PICK p \in [0..k -> D] : Trace(p, k, s) /\ c = p[k][2]
      BY <3>21
    <3>3. /\ p[0] = s /\ p[k][1] <= 2
          /\ \A i \in 0..(k - 1) : p[i][1] > 2 /\ p[i + 1] = next(p[i])
      <4> HIDE DEF D, next
      <4> QED BY <3>2
    <3> HIDE DEF next, D
    <3>4. k # 0
      BY <1>3, <3>3
    <3>5. PICK j \in Nat : k = j + 1
      <4>1. k - 1 \in Nat /\ k = (k - 1) + 1
        BY <3>4
      <4> QED BY <4>1
    <3>6. PICK q : q = [i \in 0..j |-> p[i + 1]]
      OBVIOUS
    <3>7. \A i \in 0..j : i + 1 \in 0..k
      BY <3>5
    <3>8. q \in [0..j -> D]
      BY <3>6, <3>7
    <3>9. q[0] = next(s) /\ q[j] = p[k]
      <4>1. 0 \in 0..j /\ j \in 0..j /\ 0 + 1 = 1 /\ 0 \in 0..(k - 1)
        BY <3>5
      <4>2. p[0 + 1] = next(p[0])
        BY <3>3, <4>1
      <4> QED BY <3>3, <3>5, <3>6, <4>1, <4>2
    <3>10. ASSUME NEW i \in 0..(j - 1) PROVE q[i][1] > 2 /\ q[i + 1] = next(q[i])
      <4>1. i \in 0..j /\ i + 1 \in 0..j /\ i + 1 \in 0..(k - 1)
        BY <3>5
      <4>2. q[i] = p[i + 1] /\ q[i + 1] = p[(i + 1) + 1]
        BY <3>6, <4>1
      <4> QED BY <3>3, <4>1, <4>2
    <3>11. Trace(q, j, next(s)) /\ c = q[j][2]
      BY <3>2, <3>3, <3>9, <3>10
    <3> HIDE DEF Trace
    <3> QED BY <3>1, <3>8, <3>11
  <2>2. ASSUME NEW c \in Ends(next(s)) PROVE c \in Ends(s)
    <3>1. c \in Scalar /\ \E k \in Nat : \E p \in [0..k -> D] :
                              Trace(p, k, next(s)) /\ c = p[k][2]
      <4> HIDE DEF Trace, D
      <4> QED OBVIOUS
    <3>21. PICK k \in Nat : \E p \in [0..k -> D] : Trace(p, k, next(s)) /\ c = p[k][2]
      BY <3>1
    <3>2. PICK p \in [0..k -> D] : Trace(p, k, next(s)) /\ c = p[k][2]
      BY <3>21
    <3>3. /\ p[0] = next(s) /\ p[k][1] <= 2
          /\ \A i \in 0..(k - 1) : p[i][1] > 2 /\ p[i + 1] = next(p[i])
      <4> HIDE DEF D, next
      <4> QED BY <3>2
    <3>4. s[1] > 2
      <4>1. s[1] \in Nat
        BY <1>1
      <4> HIDE DEF D, next, Trace
      <4> QED BY <1>3, <4>1
    <3> HIDE DEF next, D
    <3>5. PICK j \in Nat : j = k + 1
      OBVIOUS
    <3>6. PICK q : q = [i \in 0..j |-> IF i = 0 THEN s ELSE p[i - 1]]
      OBVIOUS
    <3>7. \A i \in 0..j : i # 0 => i - 1 \in 0..k
      BY <3>5
    <3>8. q \in [0..j -> D]
      BY <3>6, <3>7
    <3>9. q[0] = s /\ q[j] = p[k]
      <4>1. 0 \in 0..j /\ j \in 0..j /\ j # 0 /\ j - 1 = k
        BY <3>5
      <4> QED BY <3>6, <4>1
    <3>10. ASSUME NEW i \in 0..(j - 1) PROVE q[i][1] > 2 /\ q[i + 1] = next(q[i])
      <4>1. i \in 0..j /\ i + 1 \in 0..j /\ i + 1 # 0 /\ (i + 1) - 1 = i
        BY <3>5
      <4>2. q[i + 1] = p[i]
        BY <3>6, <4>1
      <4>3. CASE i = 0
        <5>1. q[i] = s /\ p[i] = next(s)
          BY <3>3, <3>9, <4>3
        <5> QED BY <3>4, <4>2, <5>1
      <4>4. CASE i # 0
        <5>1. i - 1 \in 0..(k - 1) /\ (i - 1) + 1 = i
          BY <3>5, <4>4
        <5>2. q[i] = p[i - 1]
          BY <3>6, <4>1, <4>4
        <5>3. p[i - 1][1] > 2 /\ p[(i - 1) + 1] = next(p[i - 1])
          BY <3>3, <5>1
        <5> QED BY <4>2, <5>1, <5>2, <5>3
      <4> QED BY <4>3, <4>4
    <3>11. Trace(q, j, s) /\ c = q[j][2]
      BY <3>2, <3>3, <3>9, <3>10
    <3> HIDE DEF Trace
    <3> QED BY <3>1, <3>8, <3>11
  <2>3. Ends(s) = Ends(next(s))
    <3> HIDE DEF Ends, next
    <3> QED BY <2>1, <2>2
  <2> HIDE DEF Ends, next
  <2> QED BY <2>3
<1> HIDE DEF Ends, Trace
<1>4. P(double)
  <2>1. PICK f : f = [s \in D |-> value(s)]
    OBVIOUS
  <2> HIDE DEF value
  <2>2. ASSUME NEW s \in D PROVE f[s] = body(f, s)
    <3>1. CASE s[1] <= 2
      <4>1. body(f, s) = s[2]
        BY <3>1
      <4> HIDE DEF body, D, next
      <4> QED BY <1>2, <2>1, <3>1, <4>1
    <3>2. CASE ~(s[1] <= 2)
      <4>1. body(f, s) = f[next(s)]
        BY <3>2
      <4> HIDE DEF body, D, next
      <4> QED BY <1>1, <1>3, <2>1, <3>2, <4>1
    <3> QED BY <3>1, <3>2
  <2>3. f = [s \in D |-> f[s]]
    <3> HIDE DEF D
    <3> QED BY <2>1
  <2>4. P(f)
    <3> HIDE DEF body, D
    <3> QED BY <2>2, <2>3
  <2> HIDE DEF P
  <2> QED BY <2>4
<1> HIDE DEF double, value
<1>5. \A s \in D : double[s] = body(double, s)
  <2> HIDE DEF body, D
  <2> QED BY <1>4
<1> DEFINE start(i, h) == <<2^(i + 1), Geometric(x, 2 * h), Power(x, h)>>
           T == {i \in Nat : \A h \in Nat :
                    double[start(i, h)] = Geometric(x, (2 * h) * 2^i)}
<1>6. ASSUME NEW i \in Nat, NEW h \in Nat
      PROVE  start(i, h) \in D /\ 2^i \in Nat /\ 2^(i + 1) = 2 * 2^i
  <2>1. 2 * h \in Nat /\ i + 1 \in Nat
    OBVIOUS
  <2> QED BY <2>1, PowerOfTwoType, PowerOfTwoNext, GeometricNext, PowerRecursion
<1>7. 0 \in T
  <2> SUFFICES ASSUME NEW h \in Nat PROVE double[start(0, h)] = Geometric(x, (2 * h) * 2^0)
    OBVIOUS
  <2>1. 2^0 = 1 /\ 2^(0 + 1) = 2
    <3>1. 2^0 = 1 /\ 2^(0 + 1) = 2 * 2^0
      BY <1>6, PowerOfTwoZero
    <3> QED BY <3>1
  <2>2. PICK s : s = start(0, h)
    OBVIOUS
  <2>3. s \in D /\ s[1] = 2 /\ s[2] = Geometric(x, 2 * h)
    <3>1. s \in D
      <4> HIDE DEF D, start
      <4> QED BY <1>6, <2>2
    <3>2. s = <<2, Geometric(x, 2 * h), Power(x, h)>>
      BY <2>1, <2>2
    <3> HIDE DEF D
    <3> QED BY <3>1, <3>2
  <2>4. body(double, s) = s[2]
    BY <2>3
  <2>5. double[s] = s[2]
    <3> HIDE DEF body, D
    <3> QED BY <1>5, <2>3, <2>4
  <2>6. (2 * h) * 2^0 = 2 * h
    <3>1. 2^0 = 1 /\ (2 * h) * 1 = 2 * h
      BY <2>1
    <3> QED BY <3>1
  <2> HIDE DEF D, start
  <2> QED BY <2>2, <2>3, <2>5, <2>6
<1>8. ASSUME NEW i \in Nat, i \in T PROVE i + 1 \in T
  <2> SUFFICES ASSUME NEW h \in Nat
               PROVE  double[start(i + 1, h)] = Geometric(x, (2 * h) * 2^(i + 1))
    OBVIOUS
  <2>1. PICK w \in Nat : w = 2^i /\ 2^(i + 1) = 2 * w /\ 2^((i + 1) + 1) = 2 * (2 * w)
    <3>1. i + 1 \in Nat
      OBVIOUS
    <3>2. 2^i \in Nat /\ 2^(i + 1) = 2 * 2^i /\ 2^((i + 1) + 1) = 2 * 2^(i + 1)
      BY <1>6, <3>1, PowerOfTwoNext, PowerOfTwoType
    <3> QED BY <3>2
  <2>2. 1 <= w
    BY <2>1, PowerOfTwoGrows
  <2>3. PICK g \in Nat : g = 2 * h
    OBVIOUS
  <2>4. PICK s : s = start(i + 1, h)
    OBVIOUS
  <2>5. s = <<2 * (2 * w), Geometric(x, g), Power(x, h)>>
    BY <2>1, <2>3, <2>4
  <2>6. s \in D
    <3>1. i + 1 \in Nat
      OBVIOUS
    <3> HIDE DEF D, start
    <3> QED BY <1>6, <2>4, <3>1
  <2>7. next(s) = start(i, g)
    <3>1. (2 * (2 * w)) \div 2 = 2 * w
      OBVIOUS
    <3>2. Power(x, h) ** Power(x, h) = Power(x, g)
      <4>1. h + h = g
        BY <2>3
      <4> QED BY <4>1, PowerAdds
    <3>3. Geometric(x, g) ++ Power(x, g) ** Geometric(x, g) = Geometric(x, 2 * g)
      <4>1. g + g = 2 * g
        OBVIOUS
      <4> QED BY <4>1, GeometricAdds
    <3>4. next(s) = <<(2 * (2 * w)) \div 2,
                      Geometric(x, g) ++ (Power(x, h) ** Power(x, h)) ** Geometric(x, g),
                      Power(x, h) ** Power(x, h)>>
      BY <2>5
    <3> QED BY <2>1, <3>1, <3>2, <3>3, <3>4
  <2>8. ~(s[1] <= 2)
    BY <2>2, <2>5
  <2>9. double[s] = double[next(s)]
    <3>1. body(double, s) = double[next(s)]
      BY <2>8
    <3> HIDE DEF body, D, next
    <3> QED BY <1>5, <2>6, <3>1
  <2>10. double[start(i, g)] = Geometric(x, (2 * g) * 2^i)
    <3> HIDE DEF start
    <3> QED BY <1>8
  <2>11. (2 * g) * 2^i = (2 * h) * 2^(i + 1)
    <3>1. (2 * g) * w = g * (2 * w)
      OBVIOUS
    <3> QED BY <2>1, <2>3, <3>1
  <2> HIDE DEF D, start, next
  <2> QED BY <2>4, <2>7, <2>9, <2>10, <2>11
<1>9. \A i \in Nat : i \in T
  <2> HIDE DEF T
  <2> QED BY <1>7, <1>8, InductionOnNat
<1>10. sum_of_powers(x, n) = IF ~IsPowerOfTwo(n) THEN sum_of_powers_slow(x, n)
                             ELSE IF n = 1 THEN 1 ELSE double[<<n, 1 ++ x, x>>]
  BY DEF sum_of_powers, double
<1>11. CASE ~IsPowerOfTwo(n)
  <2>1. PICK v : v = exp_iter(x, n)
    OBVIOUS
  <2>2. v \in Vec(n)
    BY <2>1, ExpIterIs
  <2>3. sum_of_powers_slow(x, n) = SumOfFirst(n, [k \in 1..n |-> v[k]])
    BY <2>1 DEF sum_of_powers_slow, SumUpTo
  <2>4. [k \in 1..n |-> v[k]] = v
    BY <2>2 DEF Vec
  <2> QED BY <1>10, <1>11, <2>1, <2>2, <2>3, <2>4, SumOfAll DEF Geometric
<1>12. Geometric(x, 1) = 1
  <2>1. Geometric(x, 0 + 1) = Geometric(x, 0) ++ Power(x, 0)
    BY GeometricNext
  <2>2. Geometric(x, 0) = 0 /\ Power(x, 0) = 1 /\ 0 + 1 = 1 /\ 0 ++ 1 = 1
    BY GeometricNext, PowerRecursion, Units, ScalarClosed
  <2> QED BY <2>1, <2>2
<1>13. CASE IsPowerOfTwo(n) /\ n # 1
  <2>1. PICK k \in 0..n : n = 2^k
    BY <1>13 DEF IsPowerOfTwo
  <2>2. k # 0
    BY <1>13, <2>1, PowerOfTwoZero
  <2>3. PICK i \in Nat : k = i + 1
    <3>1. k - 1 \in Nat /\ k = (k - 1) + 1
      BY <2>2
    <3> QED BY <3>1
  <2>4. double[start(i, 1)] = Geometric(x, (2 * 1) * 2^i)
    <3> HIDE DEF start
    <3> QED BY <1>9
  <2>5. n = 2^(i + 1) /\ n = 2 * 2^i
    BY <1>6, <2>1, <2>3
  <2>6. Power(x, 1) = x
    <3>1. Power(x, 0 + 1) = Power(x, 0) ** x
      BY PowerRecursion
    <3>2. Power(x, 0) = 1 /\ 1 ** x = x /\ 0 + 1 = 1
      BY PowerRecursion, Units
    <3> QED BY <3>1, <3>2
  <2>7. Geometric(x, 2 * 1) = 1 ++ x
    <3>1. Geometric(x, 1 + 1) = Geometric(x, 1) ++ Power(x, 1)
      BY GeometricNext
    <3>2. 1 + 1 = 2 * 1
      OBVIOUS
    <3> QED BY <1>12, <2>6, <3>1, <3>2
  <2>8. start(i, 1) = <<n, 1 ++ x, x>>
    BY <2>5, <2>6, <2>7
  <2>9. (2 * 1) * 2^i = n
    <3>1. 2^i \in Nat
      BY <1>6
    <3> QED BY <2>5, <3>1
  <2> HIDE DEF start
  <2> QED BY <1>10, <1>13, <2>4, <2>8, <2>9
<1>14. CASE n = 1 /\ IsPowerOfTwo(n)
  BY <1>10, <1>12, <1>14
<1> QED BY <1>11, <1>13, <1>14


-----------------------------------------------------------------------------
(* Polynomials of degree two and vectors of polynomials.                   *)

\* h holds the values of Horner's rule, from the last coefficient of t down.
Values(h, t, n, x) == h[n + 1] = 0 /\ \A k \in 1..n : h[k] = t[k] ++ x ** h[k + 1]

\* A polynomial is evaluated from its last coefficient.
LEMMA Horner ==
  ASSUME NEW n \in Nat, NEW t \in Vec(n), NEW x \in Scalar
  PROVE  \E h \in [1..(n + 1) -> Scalar] : Values(h, t, n, x) /\ PolyEval(t, x) = h[1]
<1> DEFINE P(h) == h = [k \in 1..(n + 1) |-> IF k > n THEN 0 ELSE t[k] ++ x ** h[k + 1]]
           value == CHOOSE h : P(h)
<1>1. \A k \in 1..n : t[k] \in Scalar
  BY DEF Vec
<1>2. PICK step : step = [p \in (1..n) \X Scalar |-> t[(n + 1) - p[1]] ++ x ** p[2]]
  OBVIOUS
<1>3. \A k \in 1..n : \A a \in Scalar : step[<<k, a>>] = t[(n + 1) - k] ++ x ** a
  BY <1>2
<1>4. \A k \in 1..n : (n + 1) - k \in 1..n
  OBVIOUS
<1>5. StaysIn(Scalar, n, step)
  <2>1. ASSUME NEW k \in 1..n, NEW e \in Scalar PROVE step[<<k, e>>] \in Scalar
    <3>1. t[(n + 1) - k] \in Scalar
      BY <1>1, <1>4
    <3>2. x ** e \in Scalar
      BY ScalarClosed
    <3>3. t[(n + 1) - k] ++ x ** e \in Scalar
      BY <3>1, <3>2, ScalarClosed
    <3> QED BY <1>3, <3>3
  <2> QED BY <2>1 DEF StaysIn
<1>6. PICK f \in [0..n -> Scalar] : Recursive(f, n, 0, step)
  BY <1>5, RecursionExists, ScalarClosed
<1>7. PICK h : h = [k \in 1..(n + 1) |-> f[(n + 1) - k]]
  OBVIOUS
<1>8. h \in [1..(n + 1) -> Scalar]
  <2>1. \A k \in 1..(n + 1) : (n + 1) - k \in 0..n
    OBVIOUS
  <2> QED BY <1>7, <2>1
<1>9. ASSUME NEW k \in 1..n PROVE h[k] = t[k] ++ x ** h[k + 1]
  <2>1. PICK i \in 1..n : i = (n + 1) - k /\ (n + 1) - i = k
    <3>1. (n + 1) - k \in 1..n /\ (n + 1) - ((n + 1) - k) = k
      OBVIOUS
    <3> QED BY <3>1
  <2>2. i - 1 = (n + 1) - (k + 1) /\ k + 1 \in 1..(n + 1) /\ k \in 1..(n + 1)
        /\ i - 1 \in 0..n
    BY <2>1
  <2>3. f[i] = step[<<i, f[i - 1]>>]
    BY <1>6 DEF Recursive
  <2>4. f[i] = t[k] ++ x ** f[i - 1]
    BY <1>3, <2>1, <2>2, <2>3
  <2> QED BY <1>7, <2>1, <2>2, <2>4
<1>10. h[n + 1] = 0
  <2>1. n + 1 \in 1..(n + 1) /\ (n + 1) - (n + 1) = 0
    OBVIOUS
  <2> QED BY <1>6, <1>7, <2>1 DEF Recursive
<1>11. P(h)
  <2>1. ASSUME NEW k \in 1..(n + 1)
        PROVE  h[k] = IF k > n THEN 0 ELSE t[k] ++ x ** h[k + 1]
    <3>1. k > n => k = n + 1
      OBVIOUS
    <3>2. ~(k > n) => k \in 1..n
      OBVIOUS
    <3> QED BY <1>9, <1>10, <3>1, <3>2
  <2> QED BY <1>8, <2>1, Zenon
<1>12. P(value)
  BY <1>11
<1> HIDE DEF value
<1>13. value[n + 1] = 0 /\ \A k \in 1..n : value[k] = t[k] ++ x ** value[k + 1]
  <2>1. n + 1 \in 1..(n + 1) /\ n + 1 > n
    OBVIOUS
  <2>2. \A k \in 1..n : k \in 1..(n + 1) /\ ~(k > n)
    OBVIOUS
  <2> QED BY <1>12, <2>1, <2>2
<1>14. \A k \in 1..(n + 1) : value[k] = h[k]
  <2> DEFINE T == {i \in 0..n : value[(n + 1) - i] = h[(n + 1) - i]}
  <2>1. 0 \in T
    BY <1>10, <1>13
  <2>2. ASSUME NEW i \in 0..(n - 1), i \in T PROVE i + 1 \in T
    <3>1. PICK k \in 1..n : k = (n + 1) - (i + 1) /\ k + 1 = (n + 1) - i
      <4>1. n - i \in 1..n /\ n - i = (n + 1) - (i + 1) /\ (n - i) + 1 = (n + 1) - i
        OBVIOUS
      <4> QED BY <4>1
    <3>2. value[k] = h[k]
      BY <1>9, <1>13, <2>2, <3>1
    <3> QED BY <3>1, <3>2
  <2>3. \A i \in 0..n : i \in T
    <3> HIDE DEF T
    <3> QED BY <2>1, <2>2, InductionUpTo
  <2>4. ASSUME NEW k \in 1..(n + 1) PROVE value[k] = h[k]
    <3>1. PICK i \in 0..n : k = (n + 1) - i
      <4>1. (n + 1) - k \in 0..n /\ (n + 1) - ((n + 1) - k) = k
        OBVIOUS
      <4> QED BY <4>1
    <3> QED BY <2>3, <3>1
  <2> QED BY <2>4
<1>15. PolyEval(t, x) = value[1]
  <2>1. Len(t) = n
    BY DEF Vec
  <2> QED BY <2>1 DEF PolyEval, value
<1> QED BY <1>8, <1>9, <1>10, <1>14, <1>15 DEF Values

\* A line, and a parabola.
LEMMA PolyEvalOfTwo ==
  ASSUME NEW t \in Vec(2), NEW x \in Scalar
  PROVE  PolyEval(t, x) = t[1] ++ x ** t[2]
<1>1. PICK h \in [1..(2 + 1) -> Scalar] : Values(h, t, 2, x) /\ PolyEval(t, x) = h[1]
  BY Horner
<1>2. h[3] = 0 /\ h[2] = t[2] ++ x ** h[3] /\ h[1] = t[1] ++ x ** h[2]
  <2>1. 2 + 1 = 3 /\ 1 + 1 = 2 /\ 1 \in 1..2 /\ 2 \in 1..2
    OBVIOUS
  <2> QED BY <1>1, <2>1 DEF Values
<1>3. t[2] \in Scalar
  BY DEF Vec
<1>4. t[2] ++ x ** 0 = t[2]
  BY <1>3, Units
<1> QED BY <1>1, <1>2, <1>4

\* The value of a polynomial of degree two.
LEMMA PolyEvalOfThree ==
  ASSUME NEW t \in Vec(3), NEW x \in Scalar
  PROVE  PolyEval(t, x) = t[1] ++ x ** (t[2] ++ x ** t[3])
<1>1. PICK h \in [1..(3 + 1) -> Scalar] : Values(h, t, 3, x) /\ PolyEval(t, x) = h[1]
  BY Horner
<1>2. h[4] = 0 /\ h[3] = t[3] ++ x ** h[4] /\ h[2] = t[2] ++ x ** h[3]
      /\ h[1] = t[1] ++ x ** h[2]
  <2>1. 3 + 1 = 4 /\ 2 + 1 = 3 /\ 1 + 1 = 2 /\ 1 \in 1..3 /\ 2 \in 1..3 /\ 3 \in 1..3
    OBVIOUS
  <2> QED BY <1>1, <2>1 DEF Values
<1>3. t[3] \in Scalar
  BY DEF Vec
<1>4. t[3] ++ x ** 0 = t[3]
  BY <1>3, Units
<1> QED BY <1>1, <1>2, <1>4

\* p is the value at x of the polynomial with coefficients a and b, entry by entry.
IsLine(p, a, b, x) == \A k \in DOMAIN a : p[k] = a[k] ++ x ** b[k]

\* The value of a vector polynomial of degree one.
LEMMA VecPolyEvalIsLine ==
  ASSUME NEW n \in Nat, NEW a \in Vec(n), NEW b \in Vec(n), NEW x \in Scalar
  PROVE  LET p == VecPolyEval(<<a, b>>, x)
         IN  p \in Vec(n) /\ IsLine(p, a, b, x)
<1>1. Len(<<a, b>>) = 2 /\ <<a, b>>[1] = a /\ <<a, b>>[2] = b
  BY TuplesAreSequences, PairDomain
<1>2. Len(a) = n /\ DOMAIN a = 1..n
  BY DEF Vec
<1>3. VecPolyEval(<<a, b>>, x)
        = [i \in 1..n |-> PolyEval([k \in 1..2 |-> <<a, b>>[k][i]], x)]
  BY <1>1, <1>2 DEF VecPolyEval
<1>4. ASSUME NEW i \in 1..n
      PROVE  /\ PolyEval([k \in 1..2 |-> <<a, b>>[k][i]], x) = a[i] ++ x ** b[i]
             /\ a[i] ++ x ** b[i] \in Scalar
  <2>1. PICK t : t = [k \in 1..2 |-> <<a, b>>[k][i]]
    OBVIOUS
  <2>2. a[i] \in Scalar /\ b[i] \in Scalar
    BY DEF Vec
  <2>3. t[1] = a[i] /\ t[2] = b[i]
    <3>1. 1 \in 1..2 /\ 2 \in 1..2
      OBVIOUS
    <3> QED BY <1>1, <2>1, <3>1
  <2>4. t \in Vec(2)
    <3>1. \A k \in 1..2 : k = 1 \/ k = 2
      OBVIOUS
    <3>2. \A k \in 1..2 : t[k] \in Scalar
      BY <2>2, <2>3, <3>1
    <3> QED BY <2>1, <3>2 DEF Vec
  <2>5. a[i] ++ x ** b[i] \in Scalar
    BY <2>2, ScalarClosed
  <2> QED BY <2>1, <2>3, <2>4, <2>5, PolyEvalOfTwo
<1> QED BY <1>2, <1>3, <1>4 DEF Vec, IsLine

\* The product of two lines.
LEMMA LineProduct ==
  ASSUME NEW a \in Scalar, NEW b \in Scalar, NEW c \in Scalar, NEW d \in Scalar, NEW x \in Scalar
  PROVE  (a ++ x ** b) ** (c ++ x ** d)
           = a ** c ++ x ** ((a ** d ++ b ** c) ++ x ** (b ** d))
<1>1. /\ a \in Int /\ b \in Int /\ c \in Int /\ d \in Int /\ x \in Int
      /\ M(a) = a /\ M(b) = b /\ M(c) = c /\ M(d) = d /\ M(x) = x
  BY Reduced
<1>2. /\ x * b \in Int /\ x * d \in Int /\ a + x * b \in Int /\ c + x * d \in Int
      /\ a * c \in Int /\ a * d \in Int /\ b * c \in Int /\ b * d \in Int
      /\ a * d + b * c \in Int
  BY <1>1
<1>3. x * (b * d) \in Int /\ (a * d + b * c) + x * (b * d) \in Int
  BY <1>1, <1>2
<1>4. x * ((a * d + b * c) + x * (b * d)) \in Int
  BY <1>1, <1>3
<1>5. a ++ x ** b = M(a + x * b) /\ c ++ x ** d = M(c + x * d)
  <2>1. x ** b = M(x * b) /\ x ** d = M(x * d)
    BY <1>1, MMul
  <2> QED BY <1>1, <1>2, <2>1, MAdd
<1>6. (a ++ x ** b) ** (c ++ x ** d) = M((a + x * b) * (c + x * d))
  BY <1>2, <1>5, MMul
<1>7. a ** d ++ b ** c = M(a * d + b * c) /\ x ** (b ** d) = M(x * (b * d))
  <2>1. a ** d = M(a * d) /\ b ** c = M(b * c) /\ b ** d = M(b * d)
    BY <1>1, MMul
  <2> QED BY <1>1, <1>2, <2>1, MAdd, MMul
<1>8. (a ** d ++ b ** c) ++ x ** (b ** d) = M((a * d + b * c) + x * (b * d))
  BY <1>2, <1>3, <1>7, MAdd
<1>9. x ** ((a ** d ++ b ** c) ++ x ** (b ** d)) = M(x * ((a * d + b * c) + x * (b * d)))
  BY <1>1, <1>3, <1>8, MMul
<1>10. a ** c = M(a * c)
  BY <1>1, MMul
<1>11. a ** c ++ x ** ((a ** d ++ b ** c) ++ x ** (b ** d))
         = M(a * c + x * ((a * d + b * c) + x * (b * d)))
  BY <1>2, <1>4, <1>9, <1>10, MAdd
<1>12. (a + x * b) * (c + x * d) = a * c + x * ((a * d + b * c) + x * (b * d))
  <2>1. (a + x * b) * (c + x * d) = a * (c + x * d) + (x * b) * (c + x * d)
    BY <1>1, <1>2
  <2>2. a * (c + x * d) = a * c + x * (a * d)
    BY <1>1
  <2>3. (x * b) * (c + x * d) = x * (b * c) + x * (x * (b * d))
    BY <1>1
  <2>4. x * ((a * d + b * c) + x * (b * d)) = x * (a * d) + x * (b * c) + x * (x * (b * d))
    BY <1>1
  <2> QED BY <1>1, <1>2, <2>1, <2>2, <2>3, <2>4
<1> QED BY <1>6, <1>11, <1>12

\* The inner product of two lines is a parabola.
LEMMA DotOfLines ==
  ASSUME NEW n \in Nat, NEW a \in Vec(n), NEW b \in Vec(n), NEW c \in Vec(n), NEW d \in Vec(n),
         NEW x \in Scalar, NEW p \in Vec(n), IsLine(p, a, b, x), NEW q \in Vec(n),
         IsLine(q, c, d, x)
  PROVE  Dot(p, q) = Dot(a, c) ++ x ** ((Dot(a, d) ++ Dot(b, c)) ++ x ** Dot(b, d))
<1>1. DOMAIN a = 1..n /\ DOMAIN c = 1..n
  BY DEF Vec
<1>2. \A i \in 1..n : a[i] \in Scalar /\ b[i] \in Scalar /\ c[i] \in Scalar /\ d[i] \in Scalar
  BY DEF Vec
<1>3. PICK u : u = [i \in 1..n |-> a[i] ** d[i] ++ b[i] ** c[i]]
  OBVIOUS
<1>4. PICK v : v = [i \in 1..n |-> x ** (b[i] ** d[i])]
  OBVIOUS
<1>5. PICK w : w = [i \in 1..n |-> u[i] ++ v[i]]
  OBVIOUS
<1>6. PICK s : s = [i \in 1..n |-> x ** w[i]]
  OBVIOUS
<1>7. u \in Vec(n)
  BY <1>2, <1>3, ScalarClosed DEF Vec
<1>8. v \in Vec(n)
  BY <1>2, <1>4, ScalarClosed DEF Vec
<1>9. w \in Vec(n)
  <2>1. \A i \in 1..n : u[i] \in Scalar /\ v[i] \in Scalar
    BY <1>7, <1>8 DEF Vec
  <2> QED BY <1>5, <2>1, ScalarClosed DEF Vec
<1>10. s \in Vec(n)
  <2>1. \A i \in 1..n : w[i] \in Scalar
    BY <1>9 DEF Vec
  <2> QED BY <1>6, <2>1, ScalarClosed DEF Vec
<1>11. SumOf(u) = Dot(a, d) ++ Dot(b, c)
  BY <1>3, <1>7, TimesType, SumAdd DEF Dot
<1>12. SumOf(v) = x ** Dot(b, d)
  BY <1>4, <1>8, TimesType, SumScale DEF Dot
<1>13. SumOf(w) = SumOf(u) ++ SumOf(v)
  BY <1>5, <1>7, <1>8, <1>9, SumAdd
<1>14. SumOf(s) = x ** SumOf(w)
  BY <1>6, <1>9, <1>10, SumScale
<1>15. ASSUME NEW i \in 1..n PROVE Times(p, q)[i] = Times(a, c)[i] ++ s[i]
  <2>1. Times(p, q)[i] = p[i] ** q[i] /\ Times(a, c)[i] = a[i] ** c[i]
    BY TimesType
  <2>2. p[i] = a[i] ++ x ** b[i] /\ q[i] = c[i] ++ x ** d[i]
    BY <1>1 DEF IsLine
  <2>3. s[i] = x ** ((a[i] ** d[i] ++ b[i] ** c[i]) ++ x ** (b[i] ** d[i]))
    BY <1>3, <1>4, <1>5, <1>6
  <2>4. PICK e \in Scalar, f \in Scalar, g \in Scalar, h \in Scalar :
              e = a[i] /\ f = b[i] /\ g = c[i] /\ h = d[i]
    BY <1>2
  <2>5. (e ++ x ** f) ** (g ++ x ** h) = e ** g ++ x ** ((e ** h ++ f ** g) ++ x ** (f ** h))
    BY LineProduct
  <2>6. Times(p, q)[i] = (a[i] ++ x ** b[i]) ** (c[i] ++ x ** d[i])
    BY <2>1, <2>2
  <2>7. Times(a, c)[i] ++ s[i]
          = a[i] ** c[i] ++ x ** ((a[i] ** d[i] ++ b[i] ** c[i]) ++ x ** (b[i] ** d[i]))
    BY <2>1, <2>3
  <2> QED BY <2>4, <2>5, <2>6, <2>7
<1>16. SumOf(Times(p, q)) = SumOf(Times(a, c)) ++ SumOf(s)
  BY <1>10, <1>15, TimesType, SumAdd
<1> QED BY <1>11, <1>12, <1>13, <1>14, <1>16 DEF Dot

\* What is left of a sum of three when the outer two are taken away.
LEMMA MiddleIsLeft ==
  ASSUME NEW a \in Scalar, NEW b \in Scalar, NEW c \in Scalar
  PROVE  ((a ++ (b ++ c)) -- a) -- c = b
<1>1. /\ a \in Int /\ b \in Int /\ c \in Int
      /\ M(a) = a /\ M(b) = b /\ M(c) = c
  BY Reduced
<1>2. b ++ c = M(b + c) /\ b + c \in Int
  BY <1>1, MAdd
<1>3. a ++ (b ++ c) = M(a + (b + c)) /\ a + (b + c) \in Int
  BY <1>1, <1>2, MAdd
<1>4. (a ++ (b ++ c)) -- a = M((a + (b + c)) - a) /\ (a + (b + c)) - a \in Int
  BY <1>1, <1>3, Reduced
<1>5. ((a ++ (b ++ c)) -- a) -- c = M(((a + (b + c)) - a) - c)
  BY <1>1, <1>4, Reduced
<1>6. ((a + (b + c)) - a) - c = b
  BY <1>1
<1> QED BY <1>1, <1>5, <1>6

\* The coefficients VecPoly1InnerProduct computes with one product of sums are those of
\* the product: evaluating it is multiplying the values.
LEMMA ProductOfPolynomials ==
  ASSUME NEW n \in Nat, NEW a \in Vec(n), NEW b \in Vec(n), NEW c \in Vec(n), NEW d \in Vec(n)
  PROVE  LET t == VecPoly1InnerProduct(<<a, b>>, <<c, d>>)
         IN  /\ t \in Vec(3) /\ t[1] = Dot(a, c)
             /\ \A x \in Scalar :
                    /\ PolyEval(t, x) = t[1] ++ x ** (t[2] ++ x ** t[3])
                    /\ PolyEval(t, x) = inner_product(VecPolyEval(<<a, b>>, x),
                                                      VecPolyEval(<<c, d>>, x))
<1>1. <<a, b>>[1] = a /\ <<a, b>>[2] = b /\ <<c, d>>[1] = c /\ <<c, d>>[2] = d
  BY PairDomain
<1>2. PICK p : p = add_vec(a, b)
  OBVIOUS
<1>3. PICK q : q = add_vec(c, d)
  OBVIOUS
<1>4. ASSUME NEW e \in Vec(n), NEW f \in Vec(n), NEW s, s = add_vec(e, f)
      PROVE  s \in Vec(n) /\ IsLine(s, e, f, 1)
  <2>1. Len(f) = n /\ DOMAIN e = 1..n
    BY DEF Vec
  <2>2. s = [i \in 1..n |-> e[i] ++ f[i]]
    BY <1>4, <2>1 DEF add_vec
  <2>3. \A i \in 1..n : e[i] \in Scalar /\ f[i] \in Scalar
    BY DEF Vec
  <2>4. \A i \in 1..n : e[i] ++ f[i] \in Scalar /\ 1 ** f[i] = f[i]
    BY <2>3, ScalarClosed, Units
  <2> QED BY <2>1, <2>2, <2>4 DEF Vec, IsLine
<1>5. p \in Vec(n) /\ IsLine(p, a, b, 1) /\ q \in Vec(n) /\ IsLine(q, c, d, 1)
  BY <1>2, <1>3, <1>4
<1>6. PICK t0 \in Scalar : t0 = Dot(a, c)
  BY DotClosed
<1>7. PICK t1 \in Scalar : t1 = Dot(a, d) ++ Dot(b, c)
  BY DotClosed, ScalarClosed
<1>8. PICK t2 \in Scalar : t2 = Dot(b, d)
  BY DotClosed
<1>9. Dot(p, q) = t0 ++ (t1 ++ t2)
  <2>1. Dot(p, q) = t0 ++ 1 ** (t1 ++ 1 ** t2)
    BY <1>5, <1>6, <1>7, <1>8, DotOfLines, ScalarClosed
  <2>2. 1 ** t2 = t2 /\ t1 ++ t2 \in Scalar
    BY ScalarClosed, Units
  <2>3. 1 ** (t1 ++ t2) = t1 ++ t2
    BY <2>2, Units
  <2> QED BY <2>1, <2>2, <2>3
<1>10. PICK t : t = <<t0, t1, t2>>
  OBVIOUS
<1>11. VecPoly1InnerProduct(<<a, b>>, <<c, d>>) = t
  <2>1. inner_product(a, c) = t0 /\ inner_product(b, d) = t2 /\ inner_product(p, q) = Dot(p, q)
    BY <1>5, <1>6, <1>8, InnerProductIsDot
  <2>2. (Dot(p, q) -- t0) -- t2 = t1
    BY <1>9, MiddleIsLeft
  <2> QED BY <1>1, <1>2, <1>3, <1>10, <2>1, <2>2 DEF VecPoly1InnerProduct
<1>12. t \in Vec(3) /\ t[1] = t0 /\ t[2] = t1 /\ t[3] = t2
  BY <1>10 DEF Vec
<1>13. ASSUME NEW x \in Scalar
       PROVE  /\ PolyEval(t, x) = t0 ++ x ** (t1 ++ x ** t2)
              /\ PolyEval(t, x) = inner_product(VecPolyEval(<<a, b>>, x),
                                                VecPolyEval(<<c, d>>, x))
  <2>1. PolyEval(t, x) = t0 ++ x ** (t1 ++ x ** t2)
    BY <1>12, PolyEvalOfThree
  <2>2. PICK l : l = VecPolyEval(<<a, b>>, x)
    OBVIOUS
  <2>3. PICK r : r = VecPolyEval(<<c, d>>, x)
    OBVIOUS
  <2>4. l \in Vec(n) /\ IsLine(l, a, b, x) /\ r \in Vec(n) /\ IsLine(r, c, d, x)
    BY <2>2, <2>3, VecPolyEvalIsLine
  <2>5. inner_product(l, r) = Dot(l, r)
    BY <2>4, InnerProductIsDot
  <2>6. Dot(l, r) = t0 ++ x ** (t1 ++ x ** t2)
    BY <1>6, <1>7, <1>8, <2>4, DotOfLines
  <2> QED BY <2>1, <2>2, <2>3, <2>5, <2>6
<1> QED BY <1>6, <1>11, <1>12, <1>13

\* The value of a polynomial of degree two.
LEMMA QuadraticClosed ==
  ASSUME NEW a \in Scalar, NEW b \in Scalar, NEW c \in Scalar, NEW x \in Scalar
  PROVE  a ++ x ** (b ++ x ** c) \in Scalar
<1>1. x ** c \in Scalar
  BY ScalarClosed
<1>2. b ++ x ** c \in Scalar
  BY <1>1, ScalarClosed
<1>3. x ** (b ++ x ** c) \in Scalar
  BY <1>2, ScalarClosed
<1> QED BY <1>3, ScalarClosed


-----------------------------------------------------------------------------
(* Halves, combinations of few points, and what tells two values apart.    *)

\* A number is twice its half, and one more if it is odd.
LEMMA Halves ==
  ASSUME NEW q \in Int
  PROVE  \E h \in Int, b \in 0..1 : q = h * 2 + b /\ b = q % 2
<1>1. q \div 2 \in Int
  OBVIOUS
<1>2. q % 2 \in 0..1
  OBVIOUS
<1>3. q = (q \div 2) * 2 + (q % 2)
  OBVIOUS
<1>4. PICK h \in Int : h = q \div 2
  BY <1>1
<1>5. PICK b \in 0..1 : b = q % 2
  BY <1>2
<1>6. q = h * 2 + b /\ b = q % 2
  BY <1>3, <1>4, <1>5
<1> QED BY <1>6

\* The remainder modulo twice as much has one digit more.
LEMMA RemainderOfTwice ==
  ASSUME NEW p \in Nat \ {0}, NEW v \in Nat
  PROVE  v % (2 * p) = (v % p) + ((v \div p) % 2) * p
<1> DEFINE q == v \div p
           r == v % p
<1>1. q \in Int /\ r \in 0 .. p - 1 /\ v = q * p + r
  BY DivMod
<1> HIDE DEF q, r
<1>3. PICK h \in Int, b \in 0..1 : q = h * 2 + b /\ b = q % 2
  BY <1>1, Halves
<1>4. v = h * (2 * p) + (r + b * p)
  <2>1. (h * 2 + b) * p + r = h * (2 * p) + (r + b * p)
    BY <1>1, <1>3
  <2> QED BY <1>1, <1>3, <2>1
<1>5. r + b * p \in 0 .. 2 * p - 1
  <2>1. CASE b = 0
    BY <1>1, <2>1
  <2>2. CASE b = 1
    BY <1>1, <2>2
  <2> QED BY <1>3, <2>1, <2>2
<1>6. (h * (2 * p) + (r + b * p)) % (2 * p) = r + b * p
  <2>1. 2 * p \in Nat \ {0}
    OBVIOUS
  <2> QED BY <1>3, <1>5, <2>1, ModUnique
<1>7. v % (2 * p) = r + b * p
  BY <1>4, <1>6
<1>8. v % (2 * p) = r + (q % 2) * p
  BY <1>3, <1>7
<1> QED BY <1>8 DEF q, r

\* The sum of two, of three and of five entries.
LEMMA SumsOfFew ==
  /\ \A v \in Vec(2) : SumOf(v) = v[1] ++ v[2]
  /\ \A v \in Vec(3) : SumOf(v) = (v[1] ++ v[2]) ++ v[3]
  /\ \A v \in Vec(5) : SumOf(v) = (((v[1] ++ v[2]) ++ v[3]) ++ v[4]) ++ v[5]
<1>1. ASSUME NEW v \in Vec(2) PROVE SumOf(v) = v[1] ++ v[2]
  <2>1. PICK t \in [0..2 -> Scalar] : SumOf(v) = t[2] /\ Sums(t, 2, v)
    BY PartialSums
  <2>2. v[1] \in Scalar
    BY DEF Vec
  <2>3. 1 \in 1..2 /\ 2 \in 1..2 /\ 1 - 1 = 0 /\ 2 - 1 = 1
    OBVIOUS
  <2>4. t[0] = 0 /\ t[1] = t[0] ++ v[1] /\ t[2] = t[1] ++ v[2]
    BY <2>1, <2>3 DEF Sums
  <2> QED BY <2>1, <2>2, <2>4, Units
<1>2. ASSUME NEW v \in Vec(3) PROVE SumOf(v) = (v[1] ++ v[2]) ++ v[3]
  <2>1. PICK t \in [0..3 -> Scalar] : SumOf(v) = t[3] /\ Sums(t, 3, v)
    BY PartialSums
  <2>2. v[1] \in Scalar
    BY DEF Vec
  <2>3. 1 \in 1..3 /\ 2 \in 1..3 /\ 3 \in 1..3 /\ 1 - 1 = 0 /\ 2 - 1 = 1 /\ 3 - 1 = 2
    OBVIOUS
  <2>4. t[0] = 0 /\ t[1] = t[0] ++ v[1] /\ t[2] = t[1] ++ v[2] /\ t[3] = t[2] ++ v[3]
    BY <2>1, <2>3 DEF Sums
  <2> QED BY <2>1, <2>2, <2>4, Units
<1>3. ASSUME NEW v \in Vec(5)
      PROVE  SumOf(v) = (((v[1] ++ v[2]) ++ v[3]) ++ v[4]) ++ v[5]
  <2>1. PICK t \in [0..5 -> Scalar] : SumOf(v) = t[5] /\ Sums(t, 5, v)
    BY PartialSums
  <2>2. v[1] \in Scalar
    BY DEF Vec
  <2>3. /\ 1 \in 1..5 /\ 2 \in 1..5 /\ 3 \in 1..5 /\ 4 \in 1..5 /\ 5 \in 1..5
        /\ 1 - 1 = 0 /\ 2 - 1 = 1 /\ 3 - 1 = 2 /\ 4 - 1 = 3 /\ 5 - 1 = 4
    OBVIOUS
  <2>4. /\ t[0] = 0 /\ t[1] = t[0] ++ v[1] /\ t[2] = t[1] ++ v[2] /\ t[3] = t[2] ++ v[3]
        /\ t[4] = t[3] ++ v[4] /\ t[5] = t[4] ++ v[5]
    BY <2>1, <2>3 DEF Sums
  <2> QED BY <2>1, <2>2, <2>4, Units
<1> QED BY <1>1, <1>2, <1>3

\* Two points.
LEMMA MsmOfTwo ==
  ASSUME NEW a \in Scalar, NEW b \in Scalar, NEW P1 \in Point, NEW P2 \in Point
  PROVE  /\ multiscalar_mul(<<a, b>>, <<P1, P2>>) \in Point
         /\ \A g \in Generator :
                multiscalar_mul(<<a, b>>, <<P1, P2>>)[g] = a ** P1[g] ++ b ** P2[g]
<1>1. PICK s : s = <<a, b>>
  OBVIOUS
<1>2. PICK p : p = <<P1, P2>>
  OBVIOUS
<1>3. s \in Vec(2) /\ p \in PointVec(2)
  BY <1>1, <1>2 DEF Vec, PointVec
<1>4. ASSUME NEW g \in Generator PROVE multiscalar_mul(s, p)[g] = a ** P1[g] ++ b ** P2[g]
  <2>1. PICK x : x = [k \in 1..2 |-> s[k] ** p[k][g]]
    OBVIOUS
  <2>2. x \in Vec(2) /\ multiscalar_mul(s, p)[g] = SumOf(x)
    <3>1. PICK l \in Nat : l = 2
      OBVIOUS
    <3>2. s \in Vec(l) /\ p \in PointVec(l) /\ x = [k \in 1..l |-> s[k] ** p[k][g]]
      BY <1>3, <2>1, <3>1
    <3>3. x \in Vec(l) /\ multiscalar_mul(s, p)[g] = SumOf(x)
      BY <3>2, MsmAt
    <3> QED BY <3>1, <3>3
  <2>3. x[1] = a ** P1[g] /\ x[2] = b ** P2[g]
    BY <1>1, <1>2, <2>1
  <2>4. SumOf(x) = x[1] ++ x[2]
    BY <2>2, SumsOfFew
  <2> QED BY <2>2, <2>3, <2>4
<1> QED BY <1>1, <1>2, <1>3, <1>4, MsmType

\* Three points.
LEMMA MsmOfThree ==
  ASSUME NEW a \in Scalar, NEW b \in Scalar, NEW c \in Scalar,
         NEW P1 \in Point, NEW P2 \in Point, NEW P3 \in Point
  PROVE  /\ <<a, b, c>> \in Vec(3) /\ <<P1, P2, P3>> \in PointVec(3)
         /\ \A g \in Generator : multiscalar_mul(<<a, b, c>>, <<P1, P2, P3>>)[g]
                                   = (a ** P1[g] ++ b ** P2[g]) ++ c ** P3[g]
<1>1. PICK s : s = <<a, b, c>>
  OBVIOUS
<1>2. PICK p : p = <<P1, P2, P3>>
  OBVIOUS
<1>3. s \in Vec(3) /\ p \in PointVec(3)
  BY <1>1, <1>2 DEF Vec, PointVec
<1>4. ASSUME NEW g \in Generator
      PROVE  multiscalar_mul(s, p)[g] = (a ** P1[g] ++ b ** P2[g]) ++ c ** P3[g]
  <2>1. PICK x : x = [k \in 1..3 |-> s[k] ** p[k][g]]
    OBVIOUS
  <2>2. x \in Vec(3) /\ multiscalar_mul(s, p)[g] = SumOf(x)
    <3>1. PICK l \in Nat : l = 3
      OBVIOUS
    <3>2. s \in Vec(l) /\ p \in PointVec(l) /\ x = [k \in 1..l |-> s[k] ** p[k][g]]
      BY <1>3, <2>1, <3>1
    <3>3. x \in Vec(l) /\ multiscalar_mul(s, p)[g] = SumOf(x)
      BY <3>2, MsmAt
    <3> QED BY <3>1, <3>3
  <2>3. x[1] = a ** P1[g] /\ x[2] = b ** P2[g] /\ x[3] = c ** P3[g]
    BY <1>1, <1>2, <2>1
  <2>4. SumOf(x) = (x[1] ++ x[2]) ++ x[3]
    BY <2>2, SumsOfFew
  <2> QED BY <2>2, <2>3, <2>4
<1> QED BY <1>1, <1>2, <1>3, <1>4

\* Five points.
IsFivePoints(p, a, b, c, d, e, P1, P2, P3, P4, P5) ==
  /\ p \in Point
  /\ \A g \in Generator :
         p[g] = (((a ** P1[g] ++ b ** P2[g]) ++ c ** P3[g]) ++ d ** P4[g]) ++ e ** P5[g]

FivePoints(a, b, c, d, e, P1, P2, P3, P4, P5) ==
  multiscalar_mul(<<a, b, c, d, e>>, <<P1, P2, P3, P4, P5>>)

LEMMA MsmOfFive ==
  ASSUME NEW a \in Scalar, NEW b \in Scalar, NEW c \in Scalar, NEW d \in Scalar, NEW e \in Scalar,
         NEW P1 \in Point, NEW P2 \in Point, NEW P3 \in Point, NEW P4 \in Point, NEW P5 \in Point
  PROVE  IsFivePoints(FivePoints(a, b, c, d, e, P1, P2, P3, P4, P5),
                      a, b, c, d, e, P1, P2, P3, P4, P5)
<1>1. PICK s : s = <<a, b, c, d, e>>
  OBVIOUS
<1>2. PICK p : p = <<P1, P2, P3, P4, P5>>
  OBVIOUS
<1>3. s \in Vec(5) /\ p \in PointVec(5)
  BY <1>1, <1>2 DEF Vec, PointVec
<1>4. ASSUME NEW g \in Generator
      PROVE  multiscalar_mul(s, p)[g]
               = (((a ** P1[g] ++ b ** P2[g]) ++ c ** P3[g]) ++ d ** P4[g]) ++ e ** P5[g]
  <2>1. PICK x : x = [k \in 1..5 |-> s[k] ** p[k][g]]
    OBVIOUS
  <2>2. x \in Vec(5) /\ multiscalar_mul(s, p)[g] = SumOf(x)
    <3>1. PICK l \in Nat : l = 5
      OBVIOUS
    <3>2. s \in Vec(l) /\ p \in PointVec(l) /\ x = [k \in 1..l |-> s[k] ** p[k][g]]
      BY <1>3, <2>1, <3>1
    <3>3. x \in Vec(l) /\ multiscalar_mul(s, p)[g] = SumOf(x)
      BY <3>2, MsmAt
    <3> QED BY <3>1, <3>3
  <2>3. /\ x[1] = a ** P1[g] /\ x[2] = b ** P2[g] /\ x[3] = c ** P3[g]
        /\ x[4] = d ** P4[g] /\ x[5] = e ** P5[g]
    BY <1>1, <1>2, <2>1
  <2>4. SumOf(x) = (((x[1] ++ x[2]) ++ x[3]) ++ x[4]) ++ x[5]
    BY <2>2, SumsOfFew
  <2> QED BY <2>2, <2>3, <2>4
<1>5. multiscalar_mul(s, p) \in Point
  <2>1. PICK l \in Nat : l = 5
    OBVIOUS
  <2> QED BY <1>3, <2>1, MsmType
<1> QED BY <1>1, <1>2, <1>4, <1>5 DEF FivePoints, IsFivePoints

\* A difference is zero when there is none.
LEMMA NoDifference ==
  ASSUME NEW a \in Scalar, NEW b \in Scalar
  PROVE  a -- b = 0 <=> a = b
<1>1. a -- a = 0
  BY Units
<1>2. ASSUME a -- b = 0 PROVE a = b
  <2>1. Neg(b) \in Scalar /\ Neg(b) ++ b = b -- b /\ b -- b = 0
    BY ScalarClosed, AddCommutes, Units DEF --
  <2>2. (a ++ Neg(b)) ++ b = a ++ (Neg(b) ++ b)
    BY <2>1, AddAssociates
  <2>3. a ++ Neg(b) = 0
    BY <1>2 DEF --
  <2> QED BY <2>1, <2>2, <2>3, Units
<1> QED BY <1>1, <1>2

\* What is added on both sides may be left out.
LEMMA AddCancels ==
  ASSUME NEW a \in Scalar, NEW b \in Scalar, NEW c \in Scalar, a ++ c = b ++ c
  PROVE  a = b
<1>1. Neg(c) \in Scalar /\ c ++ Neg(c) = 0
  BY ScalarClosed, Units DEF --
<1>2. (a ++ c) ++ Neg(c) = a ++ (c ++ Neg(c)) /\ (b ++ c) ++ Neg(c) = b ++ (c ++ Neg(c))
  BY <1>1, AddAssociates
<1> QED BY <1>1, <1>2, Units

\* One more is another scalar.
LEMMA OneMore ==
  ASSUME NEW a \in Scalar
  PROVE  a ++ 1 \in Scalar /\ a ++ 1 # a
<1>1. a ++ 1 \in Scalar /\ 0 ++ a = a /\ a ++ 1 = 1 ++ a
  BY ScalarClosed, Units, AddCommutes
<1>2. CASE a ++ 1 = a
  <2>1. 1 = 0
    BY <1>1, <1>2, AddCancels, ScalarClosed
  <2> QED BY <2>1
<1> QED BY <1>1, <1>2

\* Adding one to an entry of a vector.
LEMMA EntryPlusOne ==
  ASSUME NEW bits \in Nat \ {0}, NEW l \in Vec(bits), NEW k, k = [l EXCEPT ![1] = @ ++ 1]
  PROVE  /\ k \in Vec(bits) /\ k[1] = l[1] ++ 1 /\ k[1] # l[1]
         /\ \A i \in 1..bits : i # 1 => k[i] = l[i]
<1>1. 1 \in 1..bits /\ l[1] \in Scalar
  BY DEF Vec
<1>2. l[1] ++ 1 \in Scalar /\ l[1] ++ 1 # l[1]
  BY <1>1, OneMore
<1>3. k[1] = l[1] ++ 1 /\ \A i \in 1..bits : i # 1 => k[i] = l[i]
  BY <1>1 DEF Vec
<1>4. k \in Vec(bits)
  BY <1>1, <1>2 DEF Vec
<1> QED BY <1>2, <1>3, <1>4

\* The value a commitment holds is all there is between two equal values of t(x).
LEMMA ValueMatters ==
  ASSUME NEW d \in Scalar, NEW o \in Scalar \ {0}, NEW u \in Scalar, NEW v \in Scalar,
         NEW e \in Scalar, (d ++ o ** u) ++ e = (d ++ o ** v) ++ e
  PROVE  u = v
<1>1. PICK p \in Scalar, q \in Scalar : p = o ** u /\ q = o ** v
  BY ScalarClosed
<1>2. d ++ p \in Scalar /\ d ++ q \in Scalar
  BY ScalarClosed
<1>3. d ++ p = d ++ q
  BY <1>1, <1>2, AddCancels
<1>4. p = q
  <2>1. d ++ p = p ++ d /\ d ++ q = q ++ d
    BY AddCommutes
  <2>2. p ++ d = q ++ d
    BY <1>3, <2>1
  <2> QED BY <2>2, AddCancels
<1>5. PICK c \in Scalar : c = o
  OBVIOUS
<1>6. u ** c = v ** c /\ c # 0
  BY <1>1, <1>4, <1>5, MulCommutes
<1> QED BY <1>6, Cancels

\* And so is its second coefficient, unless x is zero.
LEMMA CoefficientMatters ==
  ASSUME NEW d \in Scalar, NEW x \in Scalar \ {0}, NEW a \in Scalar, NEW b \in Scalar,
         NEW e \in Scalar, d ++ x ** (a ++ e) = d ++ x ** (b ++ e)
  PROVE  a = b
<1>1. PICK p \in Scalar, q \in Scalar : p = a ++ e /\ q = b ++ e
  BY ScalarClosed
<1>2. PICK f \in Scalar, g \in Scalar : f = x ** p /\ g = x ** q
  BY ScalarClosed
<1>3. f ++ d = g ++ d
  BY <1>1, <1>2, AddCommutes
<1>4. f = g
  BY <1>3, AddCancels
<1>5. p ** x = q ** x /\ x # 0 /\ x \in Scalar
  BY <1>2, <1>4, MulCommutes
<1>6. p = q
  BY <1>5, Cancels
<1> QED BY <1>1, <1>6, AddCancels


-----------------------------------------------------------------------------
(* The first challenge a transcript yields for a label.                    *)

\* Three entries, or four.
LEMMA ShortSequences ==
  /\ \A a, b, c : LET r == <<a, b, c>>
                  IN  IsSequence(r) /\ Len(r) = 3 /\ r[1] = a /\ r[2] = b /\ r[3] = c
  /\ \A a, b, c, d : LET r == <<a, b, c, d>>
                     IN  IsSequence(r) /\ Len(r) = 4 /\ r[1] = a /\ r[2] = b
                             /\ r[3] = c /\ r[4] = d
<1>1. ASSUME NEW a, NEW b, NEW c
      PROVE  LET r == <<a, b, c>>
             IN  IsSequence(r) /\ Len(r) = 3 /\ r[1] = a /\ r[2] = b /\ r[3] = c
  <2>1. <<a, b, c>> \in Seq({a, b, c})
    OBVIOUS
  <2> QED BY <2>1 DEF IsSequence
<1>2. ASSUME NEW a, NEW b, NEW c, NEW d
      PROVE  LET r == <<a, b, c, d>>
             IN  IsSequence(r) /\ Len(r) = 4 /\ r[1] = a /\ r[2] = b
                     /\ r[3] = c /\ r[4] = d
  <2>1. <<a, b, c, d>> \in Seq({a, b, c, d})
    OBVIOUS
  <2> QED BY <2>1 DEF IsSequence
<1> QED BY <1>1, <1>2

\* No entry of the transcript has the label.
Without(t, label) == \A i \in 1..Len(t) : t[i][1] # label

\* The first entry with the label is the challenge c.
FirstDraw(t, label, c) ==
    \E i \in 1..Len(t) : t[i] = <<label, c>> /\ \A h \in 1..(i - 1) : t[h][1] # label

\* That challenge is the first one the transcript yields.
LEMMA FirstDrawn ==
  ASSUME NEW t, IsSequence(t), NEW label, NEW c, FirstDraw(t, label, c)
  PROVE  ChallengesOf(t, label)[1] = c
<1>1. PICK k \in Nat : k = Len(t)
  BY LenOfSequence
<1>2. PICK i \in 1..k : t[i] = <<label, c>> /\ \A h \in 1..(i - 1) : t[h][1] # label
  BY <1>1 DEF FirstDraw
<1>3. PICK d : Collects(d, t, k, label) /\ ChallengesOf(t, label) = d[k]
  BY <1>1, ChallengesAre
<1> DEFINE T == {h \in 0..k : (h < i => d[h] = <<>>)
                              /\ (h >= i => IsSequence(d[h]) /\ Len(d[h]) >= 1 /\ d[h][1] = c)}
<1>4. 0 \in T
  BY <1>3 DEF Collects
<1>5. ASSUME NEW h \in 0..(k - 1), h \in T PROVE h + 1 \in T
  <2>1. h + 1 \in 1..k /\ (h + 1) - 1 = h /\ h + 1 \in 0..k
    OBVIOUS
  <2>2. d[h + 1] = IF t[h + 1][1] = label THEN Append(d[h], t[h + 1][2]) ELSE d[h]
    BY <1>3, <2>1 DEF Collects
  <2>3. CASE h + 1 < i
    <3>1. h + 1 \in 1..(i - 1) /\ h < i /\ ~(h + 1 >= i)
      BY <2>1, <2>3
    <3>2. d[h] = <<>> /\ t[h + 1][1] # label
      BY <1>2, <1>5, <3>1
    <3> QED BY <2>1, <2>2, <3>1, <3>2
  <2>4. CASE h + 1 = i
    <3>1. h < i
      BY <2>1, <2>4
    <3>2. d[h + 1] = Append(<<>>, c)
      <4>1. t[h + 1] = <<label, c>> /\ d[h] = <<>>
        BY <1>2, <1>5, <2>4, <3>1
      <4>2. t[h + 1][1] = label /\ t[h + 1][2] = c
        BY <4>1
      <4> QED BY <2>2, <4>1, <4>2
    <3>3. /\ IsSequence(Append(<<>>, c)) /\ Len(Append(<<>>, c)) = 1 /\ Append(<<>>, c)[1] = c
      <4>1. Append(<<>>, c) \in Seq({c}) /\ Len(Append(<<>>, c)) = 1 /\ Append(<<>>, c)[1] = c
        OBVIOUS
      <4> QED BY <4>1 DEF IsSequence
    <3>4. d[h + 1] = Append(<<>>, c) /\ ~(h + 1 < i)
      BY <2>1, <2>4, <3>2
    <3>5. IsSequence(d[h + 1]) /\ Len(d[h + 1]) >= 1 /\ d[h + 1][1] = c
      <4>1. PICK e : e = Append(<<>>, c)
        OBVIOUS
      <4>2. IsSequence(e) /\ Len(e) >= 1 /\ e[1] = c
        BY <3>3, <4>1
      <4> QED BY <3>4, <4>1, <4>2
    <3> QED BY <2>1, <3>4, <3>5
  <2>5. CASE h + 1 > i
    <3>1. h >= i /\ ~(h + 1 < i)
      BY <2>1, <2>5
    <3>2. IsSequence(d[h]) /\ Len(d[h]) >= 1 /\ d[h][1] = c
      BY <1>5, <3>1
    <3>3. PICK s : s = d[h]
      OBVIOUS
    <3>4. \A e : IsSequence(Append(s, e)) /\ Len(Append(s, e)) >= 1 /\ Append(s, e)[1] = c
      <4> TAKE e
      <4>1. /\ IsSequence(Append(s, e)) /\ Len(Append(s, e)) = Len(s) + 1
            /\ \A l \in 1..Len(s) : Append(s, e)[l] = s[l]
        BY <3>2, <3>3, AppendIsSequence
      <4>2. Len(s) \in Nat /\ Len(s) >= 1
        BY <3>2, <3>3, LenOfSequence
      <4>3. 1 \in 1..Len(s)
        BY <4>2
      <4> QED BY <3>2, <3>3, <4>1, <4>2, <4>3
    <3> QED BY <2>1, <2>2, <3>1, <3>2, <3>3, <3>4
  <2> QED BY <2>1, <2>3, <2>4, <2>5
<1>6. \A h \in 0..k : h \in T
  <2> HIDE DEF T
  <2> QED BY <1>4, <1>5, InductionUpTo
<1>7. k \in 0..k /\ k >= i
  OBVIOUS
<1> QED BY <1>3, <1>6, <1>7

\* It stays the first one.
LEMMA FirstDrawStays ==
  ASSUME NEW s, IsSequence(s), NEW r, IsSequence(r), NEW label, NEW c, FirstDraw(s, label, c)
  PROVE  FirstDraw(s \o r, label, c)
<1>1. PICK k \in Nat, l \in Nat : k = Len(s) /\ l = Len(r)
  BY LenOfSequence
<1>2. PICK t : t = s \o r
  OBVIOUS
<1>3. Len(t) = k + l /\ \A i \in 1..k : t[i] = s[i]
  BY <1>1, <1>2, ThenSequence
<1>4. PICK i \in 1..k : s[i] = <<label, c>> /\ \A h \in 1..(i - 1) : s[h][1] # label
  BY <1>1 DEF FirstDraw
<1>5. i \in 1..(k + l) /\ \A h \in 1..(i - 1) : h \in 1..k
  OBVIOUS
<1>6. t[i] = <<label, c>> /\ \A h \in 1..(i - 1) : t[h][1] # label
  BY <1>3, <1>4, <1>5
<1>7. FirstDraw(t, label, c)
  BY <1>3, <1>5, <1>6 DEF FirstDraw
<1> QED BY <1>2, <1>7

\* The entries of two transcripts, one behind the other.
LEMMA WithoutThen ==
  ASSUME NEW s, IsSequence(s), NEW r, IsSequence(r), NEW label, Without(s, label),
         Without(r, label)
  PROVE  Without(s \o r, label)
<1>1. PICK k \in Nat, l \in Nat : k = Len(s) /\ l = Len(r)
  BY LenOfSequence
<1>2. PICK t : t = s \o r
  OBVIOUS
<1>3. /\ Len(t) = k + l /\ \A i \in 1..k : t[i] = s[i]
      /\ \A i \in 1..l : t[k + i] = r[i]
  BY <1>1, <1>2, ThenSequence
<1>4. ASSUME NEW i \in 1..(k + l) PROVE t[i][1] # label
  <2>1. CASE i \in 1..k
    BY <1>1, <1>3, <2>1 DEF Without
  <2>2. CASE i \notin 1..k
    <3>1. PICK g \in 1..l : k + g = i
      <4>1. i - k \in 1..l /\ k + (i - k) = i
        BY <2>2
      <4> QED BY <4>1
    <3>2. t[i] = r[g] /\ r[g][1] # label
      BY <1>1, <1>3, <3>1 DEF Without
    <3> QED BY <3>2
  <2> QED BY <2>1, <2>2
<1>5. Without(t, label)
  BY <1>3, <1>4 DEF Without
<1> QED BY <1>2, <1>5

\* A challenge drawn for the first time.
LEMMA FirstDrawThen ==
  ASSUME NEW s, IsSequence(s), NEW r, IsSequence(r), NEW label, NEW c, Without(s, label),
         FirstDraw(r, label, c)
  PROVE  FirstDraw(s \o r, label, c)
<1>1. PICK k \in Nat, l \in Nat : k = Len(s) /\ l = Len(r)
  BY LenOfSequence
<1>2. PICK t : t = s \o r
  OBVIOUS
<1>3. /\ Len(t) = k + l /\ \A i \in 1..k : t[i] = s[i]
      /\ \A i \in 1..l : t[k + i] = r[i]
  BY <1>1, <1>2, ThenSequence
<1>4. PICK i \in 1..l : r[i] = <<label, c>> /\ \A h \in 1..(i - 1) : r[h][1] # label
  BY <1>1 DEF FirstDraw
<1>5. k + i \in 1..(k + l) /\ t[k + i] = <<label, c>>
  BY <1>3, <1>4
<1>6. ASSUME NEW h \in 1..((k + i) - 1) PROVE t[h][1] # label
  <2>1. CASE h \in 1..k
    BY <1>1, <1>3, <2>1 DEF Without
  <2>2. CASE h \notin 1..k
    <3>1. h - k \in 1..(i - 1) /\ h - k \in 1..l /\ k + (h - k) = h
      BY <2>2
    <3>3. PICK g \in 1..(i - 1) : g = h - k
      BY <3>1
    <3>4. g \in 1..l /\ k + g = h
      BY <3>1, <3>3
    <3>5. t[h] = r[g]
      BY <1>3, <3>4
    <3>6. r[g][1] # label
      BY <1>4, <3>3
    <3> QED BY <3>5, <3>6
  <2> QED BY <2>1, <2>2
<1>7. FirstDraw(t, label, c)
  BY <1>3, <1>5, <1>6 DEF FirstDraw
<1> QED BY <1>2, <1>7

-----------------------------------------------------------------------------
(* The inner-product argument, round by round.                             *)

\* Both halves of a vector are as long.
LEMMA HalfOf ==
  ASSUME NEW S, NEW n \in Nat, NEW v \in [1 .. 2 * n -> S]
  PROVE  Half(v, "L") \in [1..n -> S] /\ Half(v, "R") \in [1..n -> S]
<1>1. v \in Seq(S) /\ Len(v) = 2 * n /\ Len(v) \div 2 = n
  <2>1. 2 * n \in Nat /\ (2 * n) \div 2 = n
    OBVIOUS
  <2>2. v \in Seq(S) /\ Len(v) = 2 * n
    BY <2>1
  <2> QED BY <2>1, <2>2
<1>2. PICK l, r : l = SubSeq(v, 1, n) /\ r = SubSeq(v, n + 1, 2 * n)
  OBVIOUS
<1>3. l = Half(v, "L") /\ r = Half(v, "R")
  BY <1>1, <1>2 DEF Half
<1>4. l \in Seq(S) /\ Len(l) = n
  BY <1>1, <1>2
<1>5. r \in Seq(S) /\ Len(r) = n
  BY <1>1, <1>2
<1> QED BY <1>3, <1>4, <1>5

\* What they hold.
LEMMA HalfAt ==
  ASSUME NEW S, NEW n \in Nat, NEW v \in [1 .. 2 * n -> S], NEW i \in 1..n
  PROVE  Half(v, "L")[i] = v[i] /\ Half(v, "R")[i] = v[n + i]
<1>1. v \in Seq(S) /\ Len(v) = 2 * n /\ Len(v) \div 2 = n
  <2>1. 2 * n \in Nat /\ (2 * n) \div 2 = n
    OBVIOUS
  <2>2. v \in Seq(S) /\ Len(v) = 2 * n
    BY <2>1
  <2> QED BY <2>1, <2>2
<1>2. PICK l, r : l = SubSeq(v, 1, n) /\ r = SubSeq(v, n + 1, 2 * n)
  OBVIOUS
<1>3. l = Half(v, "L") /\ r = Half(v, "R")
  BY <1>1, <1>2 DEF Half
<1>4. l[i] = v[i]
  BY <1>1, <1>2
<1>5. r[i] = v[n + i]
  <2>1. (n + 1) + i - 1 = n + i /\ i \in 1 .. ((2 * n) - (n + 1) + 1)
    OBVIOUS
  <2>2. n + 1 \in Nat /\ 2 * n \in Nat
    OBVIOUS
  <2>3. r[i] = v[(n + 1) + i - 1]
    BY <1>1, <1>2, <2>1, <2>2
  <2> QED BY <2>1, <2>3
<1> QED BY <1>3, <1>4, <1>5

-----------------------------------------------------------------------------
(* One folding.                                                            *)

\* What folding does to one pair of entries, for a challenge and its inverse.
LEMMA FoldTerm ==
  ASSUME NEW u \in Scalar, NEW w \in Scalar, u ** w = 1,
         NEW a \in Scalar, NEW b \in Scalar, NEW x \in Scalar, NEW y \in Scalar
  PROVE  (a ** u ++ w ** b) ** (w ** x ++ u ** y)
           = (a ** x ++ b ** y) ++ ((u ** u) ** (a ** y) ++ (w ** w) ** (b ** x))
<1>1. /\ a ** u \in Scalar /\ w ** b \in Scalar /\ w ** x \in Scalar /\ u ** y \in Scalar
      /\ a ** x \in Scalar /\ b ** y \in Scalar /\ a ** y \in Scalar /\ b ** x \in Scalar
      /\ u ** u \in Scalar /\ w ** w \in Scalar
  BY ScalarClosed
<1>2. (a ** u ++ w ** b) ** (w ** x ++ u ** y)
        = ((a ** u) ** (w ** x) ++ (a ** u) ** (u ** y))
            ++ ((w ** b) ** (w ** x) ++ (w ** b) ** (u ** y))
  BY <1>1, Expands
<1>3. (a ** u) ** (w ** x) = a ** x
  <2>1. (a ** u) ** (x ** w) = (a ** x) ** (u ** w)
    BY MulInterchanges
  <2> QED BY <1>1, <2>1, MulCommutes, Units
<1>4. (a ** u) ** (u ** y) = (u ** u) ** (a ** y)
  <2>1. (u ** a) ** (u ** y) = (u ** u) ** (a ** y)
    BY MulInterchanges
  <2> QED BY <2>1, MulCommutes
<1>5. (w ** b) ** (w ** x) = (w ** w) ** (b ** x)
  BY MulInterchanges
<1>6. (w ** b) ** (u ** y) = b ** y
  <2>1. (w ** b) ** (u ** y) = (w ** u) ** (b ** y)
    BY MulInterchanges
  <2>2. w ** u = 1
    BY MulCommutes
  <2> QED BY <1>1, <2>1, <2>2, Units
<1>7. PICK p, q, r, s \in Scalar : /\ p = a ** x /\ q = (u ** u) ** (a ** y)
                                   /\ r = (w ** w) ** (b ** x) /\ s = b ** y
  BY <1>1, ScalarClosed
<1>8. (p ++ q) ++ (r ++ s) = (p ++ s) ++ (q ++ r)
  <2>1. (p ++ q) ++ (s ++ r) = (p ++ s) ++ (q ++ r)
    BY AddInterchanges
  <2> QED BY <2>1, AddCommutes
<1> QED BY <1>2, <1>3, <1>4, <1>5, <1>6, <1>7, <1>8

\* The halves of a vector of scalars.
LEMMA HalfOfVec ==
  ASSUME NEW n \in Nat, NEW v \in Vec(2 * n)
  PROVE  /\ Half(v, "L") \in Vec(n) /\ Half(v, "R") \in Vec(n)
         /\ \A i \in 1..n : Half(v, "L")[i] = v[i] /\ Half(v, "R")[i] = v[n + i]
<1>1. v \in [1 .. 2 * n -> Scalar]
  BY DEF Vec
<1>2. Half(v, "L") \in [1..n -> Scalar] /\ Half(v, "R") \in [1..n -> Scalar]
  BY <1>1, HalfOf
<1>3. ASSUME NEW i \in 1..n PROVE Half(v, "L")[i] = v[i] /\ Half(v, "R")[i] = v[n + i]
  BY <1>1, HalfAt
<1> QED BY <1>2, <1>3 DEF Vec

\* The halves of a vector of points.
LEMMA HalfOfPointVec ==
  ASSUME NEW n \in Nat, NEW v \in PointVec(2 * n)
  PROVE  /\ Half(v, "L") \in PointVec(n) /\ Half(v, "R") \in PointVec(n)
         /\ \A i \in 1..n : Half(v, "L")[i] = v[i] /\ Half(v, "R")[i] = v[n + i]
<1>1. v \in [1 .. 2 * n -> Point]
  BY DEF PointVec
<1>2. Half(v, "L") \in [1..n -> Point] /\ Half(v, "R") \in [1..n -> Point]
  BY <1>1, HalfOf
<1>3. ASSUME NEW i \in 1..n PROVE Half(v, "L")[i] = v[i] /\ Half(v, "R")[i] = v[n + i]
  BY <1>1, HalfAt
<1> QED BY <1>2, <1>3 DEF PointVec

\* The halves of a folded vector: s for the lower one, t for the upper one.
FoldsTo(a, n, s, t, c) == \A i \in 1..n : c[i] = s ** a[i] ++ t ** a[n + i]

\* An inner product after folding is the one before it and two cross terms.
LEMMA DotFold ==
  ASSUME NEW n \in Nat, NEW u \in Scalar, NEW w \in Scalar, u ** w = 1,
         NEW a \in Vec(2 * n), NEW x \in Vec(2 * n), NEW c \in Vec(n), NEW z \in Vec(n),
         FoldsTo(a, n, u, w, c), FoldsTo(x, n, w, u, z)
  PROVE  Dot(c, z) = Dot(a, x) ++ ((u ** u) ** Dot(Half(a, "L"), Half(x, "R"))
                                      ++ (w ** w) ** Dot(Half(a, "R"), Half(x, "L")))
<1>1. PICK aL, aR, xL, xR : /\ aL = Half(a, "L") /\ aR = Half(a, "R")
                            /\ xL = Half(x, "L") /\ xR = Half(x, "R")
  OBVIOUS
<1>2. /\ aL \in Vec(n) /\ aR \in Vec(n)
      /\ \A i \in 1..n : aL[i] = a[i] /\ aR[i] = a[n + i]
  BY <1>1, HalfOfVec
<1>3. /\ xL \in Vec(n) /\ xR \in Vec(n)
      /\ \A i \in 1..n : xL[i] = x[i] /\ xR[i] = x[n + i]
  BY <1>1, HalfOfVec
<1>4. \A i \in 1..n : aL[i] \in Scalar /\ aR[i] \in Scalar /\ xL[i] \in Scalar /\ xR[i] \in Scalar
  BY <1>2, <1>3 DEF Vec
<1>5. PICK lo, up, l, r, ul, wr, whole, cross, all :
          /\ lo = Times(aL, xL) /\ up = Times(aR, xR) /\ l = Times(aL, xR) /\ r = Times(aR, xL)
          /\ ul = [i \in 1..n |-> (u ** u) ** l[i]] /\ wr = [i \in 1..n |-> (w ** w) ** r[i]]
          /\ whole = [i \in 1..n |-> lo[i] ++ up[i]] /\ cross = [i \in 1..n |-> ul[i] ++ wr[i]]
          /\ all = Times(c, z)
  OBVIOUS
<1>6. /\ lo \in Vec(n) /\ up \in Vec(n) /\ l \in Vec(n) /\ r \in Vec(n) /\ all \in Vec(n)
      /\ \A i \in 1..n : /\ lo[i] = aL[i] ** xL[i] /\ up[i] = aR[i] ** xR[i]
                         /\ l[i] = aL[i] ** xR[i] /\ r[i] = aR[i] ** xL[i]
                         /\ all[i] = c[i] ** z[i]
  BY <1>2, <1>3, <1>5, TimesType
<1>7. u ** u \in Scalar /\ w ** w \in Scalar
  BY ScalarClosed
<1>8. ul \in Vec(n) /\ wr \in Vec(n)
  <2>1. \A i \in 1..n : (u ** u) ** l[i] \in Scalar /\ (w ** w) ** r[i] \in Scalar
    BY <1>6, <1>7, ScalarClosed DEF Vec
  <2> QED BY <1>5, <2>1 DEF Vec
<1>9. whole \in Vec(n) /\ cross \in Vec(n)
  <2>1. \A i \in 1..n : lo[i] ++ up[i] \in Scalar /\ ul[i] ++ wr[i] \in Scalar
    BY <1>6, <1>8, ScalarClosed DEF Vec
  <2> QED BY <1>5, <2>1 DEF Vec
<1>10. ASSUME NEW i \in 1..n PROVE all[i] = whole[i] ++ cross[i]
  <2>1. c[i] = aL[i] ** u ++ w ** aR[i]
    BY <1>2, <1>4, MulCommutes DEF FoldsTo
  <2>2. z[i] = w ** xL[i] ++ u ** xR[i]
    BY <1>3 DEF FoldsTo
  <2>3. whole[i] = aL[i] ** xL[i] ++ aR[i] ** xR[i]
    BY <1>5, <1>6
  <2>4. cross[i] = (u ** u) ** (aL[i] ** xR[i]) ++ (w ** w) ** (aR[i] ** xL[i])
    BY <1>5, <1>6
  <2>5. all[i] = c[i] ** z[i]
    BY <1>6
  <2> QED BY <1>4, <2>1, <2>2, <2>3, <2>4, <2>5, FoldTerm
<1>11. SumOf(all) = SumOf(whole) ++ SumOf(cross)
  BY <1>6, <1>9, <1>10, SumAdd
<1>12. SumOf(whole) = SumOf(lo) ++ SumOf(up)
  <2>1. \A i \in 1..n : whole[i] = lo[i] ++ up[i]
    BY <1>5
  <2> QED BY <1>6, <1>9, <2>1, SumAdd
<1>13. SumOf(cross) = SumOf(ul) ++ SumOf(wr)
  <2>1. \A i \in 1..n : cross[i] = ul[i] ++ wr[i]
    BY <1>5
  <2> QED BY <1>8, <1>9, <2>1, SumAdd
<1>14. SumOf(ul) = (u ** u) ** SumOf(l)
  BY <1>5, <1>6, <1>7, <1>8, SumScale
<1>15. SumOf(wr) = (w ** w) ** SumOf(r)
  BY <1>5, <1>6, <1>7, <1>8, SumScale
<1>16. PICK ax : ax = Times(a, x)
  OBVIOUS
<1>17. 2 * n \in Nat /\ 2 * n = n + n
  OBVIOUS
<1>18. ax \in Vec(n + n) /\ \A i \in 1 .. 2 * n : ax[i] = a[i] ** x[i]
  BY <1>16, <1>17, TimesType
<1>19. /\ \A i \in 1..n : ax[i] = lo[i]
       /\ \A i \in 1..n : ax[n + i] = up[i]
  <2>1. \A i \in 1..n : i \in 1 .. 2 * n /\ n + i \in 1 .. 2 * n
    OBVIOUS
  <2> QED BY <1>2, <1>3, <1>6, <1>18, <2>1
<1>20. SumOf(ax) = SumOf(lo) ++ SumOf(up)
  BY <1>6, <1>18, <1>19, SumThen
<1>21. /\ Dot(c, z) = SumOf(all) /\ Dot(a, x) = SumOf(ax)
       /\ Dot(aL, xR) = SumOf(l) /\ Dot(aR, xL) = SumOf(r)
  BY <1>5, <1>16 DEF Dot
<1> QED BY <1>1, <1>11, <1>12, <1>13, <1>14, <1>15, <1>20, <1>21

-----------------------------------------------------------------------------
(* The claim of a round and its cross terms, at one generator.             *)

\* What create asserts of its vectors, and what they hold.
WellFormed(v, n) ==
    /\ v.a \in Vec(n) /\ v.b \in Vec(n) /\ v.gf \in Vec(n) /\ v.hf \in Vec(n)
    /\ v.G \in PointVec(n) /\ v.H \in PointVec(n)

\* The combinations of a round: two vectors, a scalar on Qp.
Combined(c, f, d, h, e, G, H, Qp) ==
    multiscalar_mul(Times(c, f) \o Times(d, h) \o <<e>>, G \o H \o <<Qp>>)

\* Vectors, points and a scalar that make a combination.
Fits(n, c, f, d, h, e, G, H, Qp) ==
    /\ n \in Nat /\ c \in Vec(n) /\ f \in Vec(n) /\ d \in Vec(n) /\ h \in Vec(n)
    /\ e \in Scalar /\ G \in PointVec(n) /\ H \in PointVec(n) /\ Qp \in Point

\* The combination of a round, at one generator.
LEMMA CombinedAt ==
  ASSUME NEW n, NEW c, NEW f, NEW d, NEW h, NEW e, NEW G, NEW H, NEW Qp,
         Fits(n, c, f, d, h, e, G, H, Qp), NEW g \in Generator
  PROVE  Combined(c, f, d, h, e, G, H, Qp)[g]
           = (Dot(c, At(f, G, g)) ++ Dot(d, At(h, H, g))) ++ e ** Qp[g]
<1> USE DEF Fits
<1>1. PICK s, t : s = Times(c, f) /\ t = Times(d, h)
  OBVIOUS
<1>2. s \in Vec(n) /\ t \in Vec(n)
  BY <1>1, TimesType
<1>3. multiscalar_mul(s \o t \o <<e>>, G \o H \o <<Qp>>)[g]
        = (multiscalar_mul(s, G)[g] ++ multiscalar_mul(t, H)[g]) ++ e ** Qp[g]
  BY <1>2, MsmInThree
<1>4. multiscalar_mul(s, G)[g] = Dot(c, At(f, G, g))
  BY <1>1, MsmIsDot
<1>5. multiscalar_mul(t, H)[g] = Dot(d, At(h, H, g))
  BY <1>1, MsmIsDot
<1> QED BY <1>1, <1>3, <1>4, <1>5 DEF Combined

\* The commitment to the vectors and their inner product.
Claim(v, Qp) ==
    Combined(v.a, v.gf, v.b, v.hf, inner_product(v.a, v.b), v.G, v.H, Qp)

\* The claim, at one generator.
LEMMA ClaimAt ==
  ASSUME NEW n \in Nat, NEW v, WellFormed(v, n), NEW Qp \in Point, NEW g \in Generator
  PROVE  Claim(v, Qp)[g] = (Dot(v.a, At(v.gf, v.G, g)) ++ Dot(v.b, At(v.hf, v.H, g)))
                             ++ Dot(v.a, v.b) ** Qp[g]
<1>1. /\ v.a \in Vec(n) /\ v.b \in Vec(n) /\ v.gf \in Vec(n) /\ v.hf \in Vec(n)
      /\ v.G \in PointVec(n) /\ v.H \in PointVec(n)
  BY DEF WellFormed
<1>2. PICK c \in Scalar : c = inner_product(v.a, v.b) /\ c = Dot(v.a, v.b)
  BY <1>1, InnerProductIsDot, DotClosed
<1>3. Claim(v, Qp) = Combined(v.a, v.gf, v.b, v.hf, c, v.G, v.H, Qp)
  BY <1>2 DEF Claim
<1>4. Fits(n, v.a, v.gf, v.b, v.hf, c, v.G, v.H, Qp)
  BY <1>1 DEF Fits
<1>5. Combined(v.a, v.gf, v.b, v.hf, c, v.G, v.H, Qp)[g]
        = (Dot(v.a, At(v.gf, v.G, g)) ++ Dot(v.b, At(v.hf, v.H, g))) ++ c ** Qp[g]
  BY <1>4, CombinedAt
<1> QED BY <1>2, <1>3, <1>5

\* Halving and looking at one generator can be done in either order.
LEMMA HalfOfAt ==
  ASSUME NEW n \in Nat, NEW f \in Vec(2 * n), NEW P \in PointVec(2 * n), NEW g \in Generator
  PROVE  /\ At(Half(f, "L"), Half(P, "L"), g) = Half(At(f, P, g), "L")
         /\ At(Half(f, "R"), Half(P, "R"), g) = Half(At(f, P, g), "R")
<1>1. PICK m \in Nat : m = 2 * n
  OBVIOUS
<1>2. PICK x : x = At(f, P, g)
  OBVIOUS
<1>3. x \in Vec(2 * n) /\ \A i \in 1 .. 2 * n : x[i] = f[i] ** P[i][g]
  BY <1>1, <1>2, AtType
<1>4. /\ Half(x, "L") \in Vec(n) /\ Half(x, "R") \in Vec(n)
      /\ \A i \in 1..n : Half(x, "L")[i] = x[i] /\ Half(x, "R")[i] = x[n + i]
  BY <1>3, HalfOfVec
<1>5. /\ Half(f, "L") \in Vec(n) /\ Half(f, "R") \in Vec(n)
      /\ \A i \in 1..n : Half(f, "L")[i] = f[i] /\ Half(f, "R")[i] = f[n + i]
  BY HalfOfVec
<1>6. /\ Half(P, "L") \in PointVec(n) /\ Half(P, "R") \in PointVec(n)
      /\ \A i \in 1..n : Half(P, "L")[i] = P[i] /\ Half(P, "R")[i] = P[n + i]
  BY HalfOfPointVec
<1>7. PICK l, r : /\ l = At(Half(f, "L"), Half(P, "L"), g)
                  /\ r = At(Half(f, "R"), Half(P, "R"), g)
  OBVIOUS
<1>8. /\ l \in Vec(n) /\ r \in Vec(n)
      /\ \A i \in 1..n : /\ l[i] = Half(f, "L")[i] ** Half(P, "L")[i][g]
                         /\ r[i] = Half(f, "R")[i] ** Half(P, "R")[i][g]
  BY <1>5, <1>6, <1>7, AtType
<1>9. \A i \in 1..n : l[i] = Half(x, "L")[i] /\ r[i] = Half(x, "R")[i]
  <2>1. \A i \in 1..n : i \in 1 .. 2 * n /\ n + i \in 1 .. 2 * n
    OBVIOUS
  <2> QED BY <1>3, <1>4, <1>5, <1>6, <1>8, <2>1
<1>10. PICK xl, xr : xl = Half(x, "L") /\ xr = Half(x, "R")
  OBVIOUS
<1>11. l = xl /\ r = xr
  BY <1>4, <1>8, <1>9, <1>10 DEF Vec
<1> QED BY <1>2, <1>7, <1>10, <1>11

\* The cross terms, at one generator.
LEMMA CrossAt ==
  ASSUME NEW n \in Nat, NEW v, WellFormed(v, 2 * n), NEW Qp \in Point, NEW g \in Generator,
         NEW x, x = At(v.gf, v.G, g), NEW y, y = At(v.hf, v.H, g)
  PROVE  /\ CrossL(v, Qp)[g] = (Dot(Half(v.a, "L"), Half(x, "R"))
                                 ++ Dot(Half(v.b, "R"), Half(y, "L")))
                                ++ Dot(Half(v.a, "L"), Half(v.b, "R")) ** Qp[g]
         /\ CrossR(v, Qp)[g] = (Dot(Half(v.a, "R"), Half(x, "L"))
                                 ++ Dot(Half(v.b, "L"), Half(y, "R")))
                                ++ Dot(Half(v.a, "R"), Half(v.b, "L")) ** Qp[g]
<1>1. /\ v.a \in Vec(2 * n) /\ v.b \in Vec(2 * n) /\ v.gf \in Vec(2 * n)
      /\ v.hf \in Vec(2 * n) /\ v.G \in PointVec(2 * n) /\ v.H \in PointVec(2 * n)
  BY DEF WellFormed
<1>2. PICK aL, aR, bL, bR, fL, fR, hL, hR :
          /\ aL = Half(v.a, "L") /\ aR = Half(v.a, "R") /\ bL = Half(v.b, "L")
          /\ bR = Half(v.b, "R") /\ fL = Half(v.gf, "L") /\ fR = Half(v.gf, "R")
          /\ hL = Half(v.hf, "L") /\ hR = Half(v.hf, "R")
  OBVIOUS
<1>3. /\ aL \in Vec(n) /\ aR \in Vec(n) /\ bL \in Vec(n) /\ bR \in Vec(n)
      /\ fL \in Vec(n) /\ fR \in Vec(n) /\ hL \in Vec(n) /\ hR \in Vec(n)
  BY <1>1, <1>2, HalfOfVec
<1>4. PICK GL, GR, HL, HR : /\ GL = Half(v.G, "L") /\ GR = Half(v.G, "R")
                            /\ HL = Half(v.H, "L") /\ HR = Half(v.H, "R")
  OBVIOUS
<1>5. /\ GL \in PointVec(n) /\ GR \in PointVec(n) /\ HL \in PointVec(n) /\ HR \in PointVec(n)
  BY <1>1, <1>4, HalfOfPointVec
<1>6. /\ At(fL, GL, g) = Half(x, "L") /\ At(fR, GR, g) = Half(x, "R")
      /\ At(hL, HL, g) = Half(y, "L") /\ At(hR, HR, g) = Half(y, "R")
  BY <1>1, <1>2, <1>4, HalfOfAt
<1>8. PICK cl, cr \in Scalar : /\ cl = inner_product(aL, bR) /\ cl = Dot(aL, bR)
                               /\ cr = inner_product(aR, bL) /\ cr = Dot(aR, bL)
  BY <1>3, InnerProductIsDot, DotClosed
<1>9. CrossL(v, Qp) = Combined(aL, fR, bR, hL, cl, GR, HL, Qp)
  BY <1>2, <1>4, <1>8 DEF CrossL, Combined
<1>10. CrossR(v, Qp) = Combined(aR, fL, bL, hR, cr, GL, HR, Qp)
  BY <1>2, <1>4, <1>8 DEF CrossR, Combined
<1>11. CrossL(v, Qp)[g] = (Dot(aL, At(fR, GR, g)) ++ Dot(bR, At(hL, HL, g))) ++ cl ** Qp[g]
  <2>1. Fits(n, aL, fR, bR, hL, cl, GR, HL, Qp)
    BY <1>3, <1>5, <1>8 DEF Fits
  <2> QED BY <2>1, <1>9, CombinedAt
<1>12. CrossR(v, Qp)[g] = (Dot(aR, At(fL, GL, g)) ++ Dot(bL, At(hR, HR, g))) ++ cr ** Qp[g]
  <2>1. Fits(n, aR, fL, bL, hR, cr, GL, HR, Qp)
    BY <1>3, <1>5, <1>8 DEF Fits
  <2> QED BY <2>1, <1>10, CombinedAt
<1> QED BY <1>2, <1>6, <1>8, <1>11, <1>12

\* A folding of points, coordinate by coordinate.
LEMMA PairAt ==
  ASSUME NEW s \in Scalar, NEW t \in Scalar, NEW P \in Point, NEW R \in Point,
         NEW g \in Generator
  PROVE  /\ multiscalar_mul(<<s, t>>, <<P, R>>) \in Point
         /\ multiscalar_mul(<<s, t>>, <<P, R>>)[g] = s ** P[g] ++ t ** R[g]
<1>1. PICK c, p : c = <<s, t>> /\ p = <<P, R>>
  OBVIOUS
<1>2. PICK n \in Nat : n = 2
  OBVIOUS
<1>3. c \in Vec(n) /\ p \in PointVec(n)
  BY <1>1, <1>2 DEF Vec, PointVec
<1>4. PICK x : x = [k \in 1..n |-> c[k] ** p[k][g]]
  OBVIOUS
<1>5. x \in Vec(n) /\ multiscalar_mul(c, p)[g] = SumOf(x)
  BY <1>3, <1>4, MsmAt
<1>6. PICK m \in Nat : m = 1 /\ n = m + 1
  BY <1>2
<1>7. PICK y : y = [k \in 1..m |-> x[k]]
  OBVIOUS
<1>8. y \in Vec(m)
  BY <1>5, <1>6, <1>7 DEF Vec
<1>9. SumOf(x) = SumOf(y) ++ x[m + 1]
  BY <1>5, <1>6, <1>7, <1>8, SumExtend
<1>10. SumOf(y) = y[1]
  BY <1>6, <1>8, SumOfOne
<1>11. c[1] = s /\ c[2] = t /\ p[1] = P /\ p[2] = R
  BY <1>1
<1>12. y[1] = x[1] /\ x[1] = s ** P[g] /\ x[m + 1] = t ** R[g]
  BY <1>2, <1>4, <1>6, <1>7, <1>11
<1>13. multiscalar_mul(c, p) \in Point
  BY <1>3, MsmType
<1> QED BY <1>1, <1>5, <1>9, <1>10, <1>12, <1>13

\* R is P folded, by s for its lower half and t for its upper one.
FoldsPoints(P, f, n, s, t, R) ==
    R = [i \in 1..n |-> multiscalar_mul(<<s ** f[i], t ** f[n + i]>>, <<P[i], P[n + i]>>)]

\* Points folded with factors, which become ones.
LEMMA PointsFoldTo ==
  ASSUME NEW n \in Nat, NEW f \in Vec(2 * n), NEW P \in PointVec(2 * n),
         NEW s \in Scalar, NEW t \in Scalar, NEW R,
         FoldsPoints(P, f, n, s, t, R)
  PROVE  /\ R \in PointVec(n) /\ Ones(n) \in Vec(n)
         /\ \A g \in Generator : FoldsTo(At(f, P, g), n, s, t, At(Ones(n), R, g))
<1>1. Ones(n) \in Vec(n) /\ \A i \in 1..n : Ones(n)[i] = 1
  BY ScalarClosed DEF Ones, Vec
<1>2. ASSUME NEW i \in 1..n, NEW g \in Generator
      PROVE  /\ R[i] \in Point
             /\ R[i][g] = (s ** f[i]) ** P[i][g] ++ (t ** f[n + i]) ** P[n + i][g]
             /\ f[i] \in Scalar /\ f[n + i] \in Scalar
             /\ P[i][g] \in Scalar /\ P[n + i][g] \in Scalar
  <2>1. i \in 1 .. 2 * n /\ n + i \in 1 .. 2 * n
    OBVIOUS
  <2>2. f[i] \in Scalar /\ f[n + i] \in Scalar /\ P[i] \in Point /\ P[n + i] \in Point
    BY <2>1 DEF Vec, PointVec
  <2>3. s ** f[i] \in Scalar /\ t ** f[n + i] \in Scalar
    BY <2>2, ScalarClosed
  <2>4. R[i] = multiscalar_mul(<<s ** f[i], t ** f[n + i]>>, <<P[i], P[n + i]>>)
    BY DEF FoldsPoints
  <2>5. P[i][g] \in Scalar /\ P[n + i][g] \in Scalar
    BY <2>2 DEF Point
  <2> QED BY <2>2, <2>3, <2>4, <2>5, PairAt
<1>3. Generator # {}
  BY DEF Generator
<1>4. R \in PointVec(n)
  BY <1>2, <1>3 DEF PointVec, FoldsPoints
<1>5. ASSUME NEW g \in Generator PROVE FoldsTo(At(f, P, g), n, s, t, At(Ones(n), R, g))
  <2>1. PICK m \in Nat : m = 2 * n
    OBVIOUS
  <2>2. PICK x, z : x = At(f, P, g) /\ z = At(Ones(n), R, g)
    OBVIOUS
  <2>3. \A i \in 1 .. 2 * n : x[i] = f[i] ** P[i][g]
    BY <2>1, <2>2, AtType
  <2>4. \A i \in 1..n : z[i] = Ones(n)[i] ** R[i][g]
    BY <1>1, <1>4, <2>2, AtType
  <2>5. ASSUME NEW i \in 1..n PROVE z[i] = s ** x[i] ++ t ** x[n + i]
    <3>1. i \in 1 .. 2 * n /\ n + i \in 1 .. 2 * n
      OBVIOUS
    <3>2. x[i] = f[i] ** P[i][g] /\ x[n + i] = f[n + i] ** P[n + i][g]
      BY <2>3, <3>1
    <3>3. R[i][g] \in Scalar
      BY <1>2 DEF Point
    <3>4. z[i] = R[i][g]
      BY <1>1, <2>4, <3>3, Units
    <3>5. /\ (s ** f[i]) ** P[i][g] = s ** (f[i] ** P[i][g])
          /\ (t ** f[n + i]) ** P[n + i][g] = t ** (f[n + i] ** P[n + i][g])
      BY <1>2, MulAssociates
    <3> QED BY <1>2, <3>2, <3>4, <3>5
  <2> QED BY <2>2, <2>5 DEF FoldsTo
<1> QED BY <1>1, <1>4, <1>5

\* What a round makes of the vectors.
LEMMA FoldIs ==
  ASSUME NEW n \in Nat, NEW v, WellFormed(v, 2 * n), NEW u \in Scalar \ {0},
         NEW w, w = Invert(u), NEW r, r = Fold(v, u)
  PROVE  /\ WellFormed(r, n)
         /\ FoldsTo(v.a, n, u, w, r.a) /\ FoldsTo(v.b, n, w, u, r.b)
         /\ \A g \in Generator :
                /\ FoldsTo(At(v.gf, v.G, g), n, w, u, At(r.gf, r.G, g))
                /\ FoldsTo(At(v.hf, v.H, g), n, u, w, At(r.hf, r.H, g))
<1>1. /\ v.a \in Vec(2 * n) /\ v.b \in Vec(2 * n) /\ v.gf \in Vec(2 * n)
      /\ v.hf \in Vec(2 * n) /\ v.G \in PointVec(2 * n) /\ v.H \in PointVec(2 * n)
  BY DEF WellFormed
<1>2. w \in Scalar /\ u \in Scalar
  BY Inverses
<1>3. Len(v.a) \div 2 = n
  <2>1. Len(v.a) = 2 * n /\ (2 * n) \div 2 = n
    BY <1>1 DEF Vec
  <2> QED BY <2>1
<1>4. /\ r.a = [i \in 1..n |-> v.a[i] ** u ++ w ** v.a[n + i]]
      /\ r.b = [i \in 1..n |-> v.b[i] ** w ++ u ** v.b[n + i]]
      /\ FoldsPoints(v.G, v.gf, n, w, u, r.G)
      /\ FoldsPoints(v.H, v.hf, n, u, w, r.H)
      /\ r.gf = Ones(n) /\ r.hf = Ones(n)
  BY <1>3 DEF Fold, FoldsPoints
<1>5. ASSUME NEW x \in Vec(2 * n), NEW s \in Scalar, NEW t \in Scalar, NEW y,
             y = [i \in 1..n |-> x[i] ** s ++ t ** x[n + i]]
      PROVE  y \in Vec(n) /\ FoldsTo(x, n, s, t, y)
  <2>1. \A i \in 1..n : x[i] \in Scalar /\ x[n + i] \in Scalar
    <3>1. \A i \in 1..n : i \in 1 .. 2 * n /\ n + i \in 1 .. 2 * n
      OBVIOUS
    <3> QED BY <3>1 DEF Vec
  <2>2. \A i \in 1..n : x[i] ** s \in Scalar /\ t ** x[n + i] \in Scalar
                        /\ x[i] ** s = s ** x[i]
    BY <2>1, ScalarClosed, MulCommutes
  <2>3. \A i \in 1..n : x[i] ** s ++ t ** x[n + i] \in Scalar
    BY <2>2, ScalarClosed
  <2> QED BY <1>5, <2>2, <2>3 DEF Vec, FoldsTo
<1>6. r.a \in Vec(n) /\ FoldsTo(v.a, n, u, w, r.a)
  BY <1>1, <1>2, <1>4, <1>5
<1>7. r.b \in Vec(n) /\ FoldsTo(v.b, n, w, u, r.b)
  BY <1>1, <1>2, <1>4, <1>5
<1>8. /\ r.G \in PointVec(n) /\ r.gf \in Vec(n)
      /\ \A g \in Generator : FoldsTo(At(v.gf, v.G, g), n, w, u, At(r.gf, r.G, g))
  BY <1>1, <1>2, <1>4, PointsFoldTo
<1>9. /\ r.H \in PointVec(n) /\ r.hf \in Vec(n)
      /\ \A g \in Generator : FoldsTo(At(v.hf, v.H, g), n, u, w, At(r.hf, r.H, g))
  BY <1>1, <1>2, <1>4, PointsFoldTo
<1> QED BY <1>6, <1>7, <1>8, <1>9 DEF WellFormed

-----------------------------------------------------------------------------
(* A round keeps the claim.                                                *)

\* All of them are scalars.
AreScalars(A, D, C, U, W, l1, l2, l3, r1, r2, r3, q) ==
    /\ A \in Scalar /\ D \in Scalar /\ C \in Scalar /\ U \in Scalar /\ W \in Scalar
    /\ l1 \in Scalar /\ l2 \in Scalar /\ l3 \in Scalar
    /\ r1 \in Scalar /\ r2 \in Scalar /\ r3 \in Scalar /\ q \in Scalar

\* The three inner products of a claim, each with its cross terms, add up to a claim
\* and two cross terms.
LEMMA CrossesAdd ==
  ASSUME NEW A, NEW D, NEW C, NEW U, NEW W, NEW l1, NEW l2, NEW l3, NEW r1, NEW r2, NEW r3,
         NEW q, AreScalars(A, D, C, U, W, l1, l2, l3, r1, r2, r3, q)
  PROVE  ((A ++ (U ** l1 ++ W ** r1)) ++ (D ++ (W ** r2 ++ U ** l2)))
            ++ (C ++ (U ** l3 ++ W ** r3)) ** q
         = ((A ++ D) ++ C ** q)
              ++ (U ** ((l1 ++ l2) ++ l3 ** q) ++ W ** ((r1 ++ r2) ++ r3 ** q))
<1> USE DEF AreScalars
<1>1. PICK u1, u2, u3, w1, w2, w3, c \in Scalar :
          /\ u1 = U ** l1 /\ u2 = U ** l2 /\ u3 = U ** (l3 ** q)
          /\ w1 = W ** r1 /\ w2 = W ** r2 /\ w3 = W ** (r3 ** q) /\ c = C ** q
  BY ScalarClosed
<1>2. (C ++ (U ** l3 ++ W ** r3)) ** q = c ++ (u3 ++ w3)
  <2>1. U ** l3 \in Scalar /\ W ** r3 \in Scalar
    BY ScalarClosed
  <2>2. U ** l3 ++ W ** r3 \in Scalar
    BY <2>1, ScalarClosed
  <2>3. (C ++ (U ** l3 ++ W ** r3)) ** q = C ** q ++ (U ** l3 ++ W ** r3) ** q
    BY <2>2, DistributesLeft
  <2>4. (U ** l3 ++ W ** r3) ** q = (U ** l3) ** q ++ (W ** r3) ** q
    BY <2>1, DistributesLeft
  <2>5. (U ** l3) ** q = u3 /\ (W ** r3) ** q = w3
    BY <1>1, MulAssociates
  <2> QED BY <1>1, <2>3, <2>4, <2>5
<1>3. (A ++ (u1 ++ w1)) ++ (D ++ (w2 ++ u2)) = (A ++ D) ++ ((u1 ++ u2) ++ (w1 ++ w2))
  <2>1. u1 ++ w1 \in Scalar /\ u2 ++ w2 \in Scalar /\ w2 ++ u2 = u2 ++ w2
    BY ScalarClosed, AddCommutes
  <2>2. (A ++ (u1 ++ w1)) ++ (D ++ (u2 ++ w2)) = (A ++ D) ++ ((u1 ++ w1) ++ (u2 ++ w2))
    BY <2>1, AddInterchanges
  <2>3. (u1 ++ w1) ++ (u2 ++ w2) = (u1 ++ u2) ++ (w1 ++ w2)
    BY AddInterchanges
  <2> QED BY <2>1, <2>2, <2>3
<1>4. PICK AB, u12, w12 \in Scalar : AB = A ++ D /\ u12 = u1 ++ u2 /\ w12 = w1 ++ w2
  BY ScalarClosed
<1>5. (AB ++ (u12 ++ w12)) ++ (c ++ (u3 ++ w3)) = (AB ++ c) ++ ((u12 ++ u3) ++ (w12 ++ w3))
  <2>1. u12 ++ w12 \in Scalar /\ u3 ++ w3 \in Scalar
    BY ScalarClosed
  <2>2. (AB ++ (u12 ++ w12)) ++ (c ++ (u3 ++ w3)) = (AB ++ c) ++ ((u12 ++ w12) ++ (u3 ++ w3))
    BY <2>1, AddInterchanges
  <2>3. (u12 ++ w12) ++ (u3 ++ w3) = (u12 ++ u3) ++ (w12 ++ w3)
    BY AddInterchanges
  <2> QED BY <2>2, <2>3
<1>6. u12 ++ u3 = U ** ((l1 ++ l2) ++ l3 ** q)
  <2>1. l1 ++ l2 \in Scalar /\ l3 ** q \in Scalar
    BY ScalarClosed
  <2>2. U ** (l1 ++ l2) = u12
    BY <1>1, <1>4, Distributes
  <2> QED BY <1>1, <2>1, <2>2, Distributes
<1>7. w12 ++ w3 = W ** ((r1 ++ r2) ++ r3 ** q)
  <2>1. r1 ++ r2 \in Scalar /\ r3 ** q \in Scalar
    BY ScalarClosed
  <2>2. W ** (r1 ++ r2) = w12
    BY <1>1, <1>4, Distributes
  <2> QED BY <1>1, <2>1, <2>2, Distributes
<1> QED BY <1>1, <1>2, <1>3, <1>4, <1>5, <1>6, <1>7

\* A round changes the claim by its two cross terms.
LEMMA RoundKeepsClaim ==
  ASSUME NEW n \in Nat, NEW v, WellFormed(v, 2 * n), NEW u \in Scalar \ {0}, NEW Qp \in Point,
         NEW g \in Generator
  PROVE  Claim(Fold(v, u), Qp)[g]
           = Claim(v, Qp)[g] ++ ((u ** u) ** CrossL(v, Qp)[g]
                                   ++ (Invert(u) ** Invert(u)) ** CrossR(v, Qp)[g])
<1>1. PICK w, r : w = Invert(u) /\ r = Fold(v, u)
  OBVIOUS
<1>2. /\ w \in Scalar /\ u \in Scalar /\ u ** w = 1 /\ w ** u = 1
  BY <1>1, Inverses
<1>3. PICK x, y, z, t : /\ x = At(v.gf, v.G, g) /\ y = At(v.hf, v.H, g)
                        /\ z = At(r.gf, r.G, g) /\ t = At(r.hf, r.H, g)
  OBVIOUS
<1>4. WellFormed(r, n)
  BY <1>1, FoldIs
<1>5. /\ FoldsTo(v.a, n, u, w, r.a) /\ FoldsTo(v.b, n, w, u, r.b)
      /\ FoldsTo(x, n, w, u, z) /\ FoldsTo(y, n, u, w, t)
  <2>1. FoldsTo(v.a, n, u, w, r.a) /\ FoldsTo(v.b, n, w, u, r.b)
    BY <1>1, FoldIs
  <2>2. \A h \in Generator :
           /\ FoldsTo(At(v.gf, v.G, h), n, w, u, At(r.gf, r.G, h))
           /\ FoldsTo(At(v.hf, v.H, h), n, u, w, At(r.hf, r.H, h))
    BY <1>1, FoldIs
  <2> QED BY <1>3, <2>1, <2>2
<1>6. PICK m \in Nat : m = 2 * n
  OBVIOUS
<1>7. /\ v.a \in Vec(2 * n) /\ v.b \in Vec(2 * n) /\ x \in Vec(2 * n) /\ y \in Vec(2 * n)
  <2>1. v.gf \in Vec(m) /\ v.hf \in Vec(m) /\ v.G \in PointVec(m) /\ v.H \in PointVec(m)
    BY <1>6 DEF WellFormed
  <2>2. x \in Vec(m) /\ y \in Vec(m)
    BY <1>3, <2>1, AtType
  <2> QED BY <1>6, <2>2 DEF WellFormed
<1>8. r.a \in Vec(n) /\ r.b \in Vec(n) /\ z \in Vec(n) /\ t \in Vec(n)
  <2>1. r.gf \in Vec(n) /\ r.hf \in Vec(n) /\ r.G \in PointVec(n) /\ r.H \in PointVec(n)
    BY <1>4 DEF WellFormed
  <2>2. z \in Vec(n) /\ t \in Vec(n)
    BY <1>3, <2>1, AtType
  <2> QED BY <1>4, <2>2 DEF WellFormed
<1>9. PICK aL, aR, bL, bR, xL, xR, yL, yR :
          /\ aL = Half(v.a, "L") /\ aR = Half(v.a, "R") /\ bL = Half(v.b, "L")
          /\ bR = Half(v.b, "R") /\ xL = Half(x, "L") /\ xR = Half(x, "R")
          /\ yL = Half(y, "L") /\ yR = Half(y, "R")
  OBVIOUS
<1>10. /\ aL \in Vec(n) /\ aR \in Vec(n) /\ bL \in Vec(n) /\ bR \in Vec(n)
       /\ xL \in Vec(n) /\ xR \in Vec(n) /\ yL \in Vec(n) /\ yR \in Vec(n)
  BY <1>7, <1>9, HalfOfVec
<1>11. PICK A, D, C, l1, l2, l3, r1, r2, r3, q, U, W \in Scalar :
          /\ A = Dot(v.a, x) /\ D = Dot(v.b, y) /\ C = Dot(v.a, v.b)
          /\ l1 = Dot(aL, xR) /\ l2 = Dot(bR, yL) /\ l3 = Dot(aL, bR)
          /\ r1 = Dot(aR, xL) /\ r2 = Dot(bL, yR) /\ r3 = Dot(aR, bL)
          /\ q = Qp[g] /\ U = u ** u /\ W = w ** w
  <2>1. Dot(v.a, x) \in Scalar /\ Dot(v.b, y) \in Scalar /\ Dot(v.a, v.b) \in Scalar
    BY <1>6, <1>7, DotClosed
  <2>2. /\ Dot(aL, xR) \in Scalar /\ Dot(bR, yL) \in Scalar /\ Dot(aL, bR) \in Scalar
        /\ Dot(aR, xL) \in Scalar /\ Dot(bL, yR) \in Scalar /\ Dot(aR, bL) \in Scalar
    BY <1>10, DotClosed
  <2>3. Qp[g] \in Scalar /\ u ** u \in Scalar /\ w ** w \in Scalar
    BY <1>2, ScalarClosed DEF Point
  <2> QED BY <2>1, <2>2, <2>3
<1>12. Dot(r.a, z) = A ++ (U ** l1 ++ W ** r1)
  BY <1>2, <1>5, <1>7, <1>8, <1>9, <1>11, DotFold
<1>13. Dot(r.b, t) = D ++ (W ** r2 ++ U ** l2)
  BY <1>2, <1>5, <1>7, <1>8, <1>9, <1>11, DotFold
<1>14. Dot(r.a, r.b) = C ++ (U ** l3 ++ W ** r3)
  BY <1>2, <1>5, <1>7, <1>8, <1>9, <1>11, DotFold
<1>15. Claim(r, Qp)[g] = (Dot(r.a, z) ++ Dot(r.b, t)) ++ Dot(r.a, r.b) ** q
  BY <1>3, <1>4, <1>11, ClaimAt
<1>16. Claim(v, Qp)[g] = (A ++ D) ++ C ** q
  <2>1. WellFormed(v, m)
    BY <1>6
  <2> QED BY <1>3, <1>11, <2>1, ClaimAt
<1>17. /\ CrossL(v, Qp)[g] = (l1 ++ l2) ++ l3 ** q
       /\ CrossR(v, Qp)[g] = (r1 ++ r2) ++ r3 ** q
  BY <1>3, <1>9, <1>11, CrossAt
<1>18. ((A ++ (U ** l1 ++ W ** r1)) ++ (D ++ (W ** r2 ++ U ** l2)))
            ++ (C ++ (U ** l3 ++ W ** r3)) ** q
         = ((A ++ D) ++ C ** q)
              ++ (U ** ((l1 ++ l2) ++ l3 ** q) ++ W ** ((r1 ++ r2) ++ r3 ** q))
  <2>1. AreScalars(A, D, C, U, W, l1, l2, l3, r1, r2, r3, q)
    BY DEF AreScalars
  <2> QED BY <2>1, CrossesAdd
<1> QED BY <1>1, <1>11, <1>12, <1>13, <1>14, <1>15, <1>16, <1>17, <1>18

-----------------------------------------------------------------------------
(* Claims and cross terms are points.                                      *)

\* A combination is a point.
LEMMA CombinedType ==
  ASSUME NEW n, NEW c, NEW f, NEW d, NEW h, NEW e, NEW G, NEW H, NEW Qp,
         Fits(n, c, f, d, h, e, G, H, Qp)
  PROVE  Combined(c, f, d, h, e, G, H, Qp) \in Point
<1>1. ASSUME NEW g \in Generator PROVE Combined(c, f, d, h, e, G, H, Qp)[g] \in Scalar
  <2>1. Combined(c, f, d, h, e, G, H, Qp)[g]
          = (Dot(c, At(f, G, g)) ++ Dot(d, At(h, H, g))) ++ e ** Qp[g]
    BY CombinedAt
  <2>2. At(f, G, g) \in Vec(n) /\ At(h, H, g) \in Vec(n)
    BY AtType DEF Fits
  <2>3. Dot(c, At(f, G, g)) \in Scalar /\ Dot(d, At(h, H, g)) \in Scalar
    BY <2>2, DotClosed DEF Fits
  <2>4. e ** Qp[g] \in Scalar
    BY ScalarClosed DEF Fits, Point
  <2>5. PICK x, y, z \in Scalar : /\ x = Dot(c, At(f, G, g)) /\ y = Dot(d, At(h, H, g))
                                  /\ z = e ** Qp[g]
    BY <2>3, <2>4
  <2>6. x ++ y \in Scalar
    BY ScalarClosed
  <2>7. (x ++ y) ++ z \in Scalar
    BY <2>6, ScalarClosed
  <2> QED BY <2>1, <2>5, <2>7
<1>2. Combined(c, f, d, h, e, G, H, Qp)
        = [g \in Generator |-> Combined(c, f, d, h, e, G, H, Qp)[g]]
  BY DEF Combined, multiscalar_mul
<1> QED BY <1>1, <1>2 DEF Point

\* A claim is a point.
LEMMA ClaimType ==
  ASSUME NEW n \in Nat, NEW v, WellFormed(v, n), NEW Qp \in Point
  PROVE  Claim(v, Qp) \in Point
<1>1. v.a \in Vec(n) /\ v.b \in Vec(n)
  BY DEF WellFormed
<1>2. PICK c \in Scalar : c = inner_product(v.a, v.b)
  BY <1>1, InnerProductIsDot, DotClosed
<1>3. Fits(n, v.a, v.gf, v.b, v.hf, c, v.G, v.H, Qp)
  BY <1>2 DEF Fits, WellFormed
<1> QED BY <1>2, <1>3, CombinedType DEF Claim

\* So are the cross terms of a round.
LEMMA CrossType ==
  ASSUME NEW n \in Nat, NEW v, WellFormed(v, 2 * n), NEW Qp \in Point
  PROVE  CrossL(v, Qp) \in Point /\ CrossR(v, Qp) \in Point
<1>1. /\ v.a \in Vec(2 * n) /\ v.b \in Vec(2 * n) /\ v.gf \in Vec(2 * n)
      /\ v.hf \in Vec(2 * n) /\ v.G \in PointVec(2 * n) /\ v.H \in PointVec(2 * n)
  BY DEF WellFormed
<1>2. PICK aL, aR, bL, bR, fL, fR, hL, hR :
          /\ aL = Half(v.a, "L") /\ aR = Half(v.a, "R") /\ bL = Half(v.b, "L")
          /\ bR = Half(v.b, "R") /\ fL = Half(v.gf, "L") /\ fR = Half(v.gf, "R")
          /\ hL = Half(v.hf, "L") /\ hR = Half(v.hf, "R")
  OBVIOUS
<1>3. /\ aL \in Vec(n) /\ aR \in Vec(n) /\ bL \in Vec(n) /\ bR \in Vec(n)
      /\ fL \in Vec(n) /\ fR \in Vec(n) /\ hL \in Vec(n) /\ hR \in Vec(n)
  BY <1>1, <1>2, HalfOfVec
<1>4. PICK GL, GR, HL, HR : /\ GL = Half(v.G, "L") /\ GR = Half(v.G, "R")
                            /\ HL = Half(v.H, "L") /\ HR = Half(v.H, "R")
  OBVIOUS
<1>5. /\ GL \in PointVec(n) /\ GR \in PointVec(n) /\ HL \in PointVec(n) /\ HR \in PointVec(n)
  BY <1>1, <1>4, HalfOfPointVec
<1>8. PICK cl, cr \in Scalar : cl = inner_product(aL, bR) /\ cr = inner_product(aR, bL)
  BY <1>3, InnerProductIsDot, DotClosed
<1>9. CrossL(v, Qp) = Combined(aL, fR, bR, hL, cl, GR, HL, Qp)
  BY <1>2, <1>4, <1>8 DEF CrossL, Combined
<1>10. CrossR(v, Qp) = Combined(aR, fL, bL, hR, cr, GL, HR, Qp)
  BY <1>2, <1>4, <1>8 DEF CrossR, Combined
<1>11. Fits(n, aL, fR, bR, hL, cl, GR, HL, Qp) /\ Fits(n, aR, fL, bL, hR, cr, GL, HR, Qp)
  BY <1>3, <1>5, <1>8 DEF Fits
<1> QED BY <1>9, <1>10, <1>11, CombinedType

-----------------------------------------------------------------------------
(* All the rounds.                                                         *)

\* One iteration of create's loop.
RoundOf(s, Qp, u) ==
    LET L == CrossL(s.v, Qp)
        R == CrossR(s.v, Qp)
    IN  [v |-> Fold(s.v, u), L_vec |-> Append(s.L_vec, L), R_vec |-> Append(s.R_vec, R),
         transcript |-> s.transcript \o <<<<"L", L>>, <<"R", R>>, <<"u", u>>>>]

\* k challenges.
Usable(us, k) == us \in Vec(k) /\ \A i \in 1..k : us[i] # 0

\* What verification_scalars returns besides s.
Squares(us) == Times(us, us)
\* The inverses of the squares.
InverseSquares(us) == [k \in DOMAIN us |-> Invert(us[k]) ** Invert(us[k])]

\* The claim about what is left is the first claim and the weighted cross terms.
KeepsClaim(s, v, Qp, us) ==
    \A g \in Generator :
        Claim(s.v, Qp)[g]
          = (Claim(v, Qp)[g] ++ multiscalar_mul(Squares(us), s.L_vec)[g])
               ++ multiscalar_mul(InverseSquares(us), s.R_vec)[g]

\* The squares of challenges and of their inverses.
LEMMA DrawnType ==
  ASSUME NEW k \in Nat, NEW us, Usable(us, k)
  PROVE  /\ Squares(us) \in Vec(k) /\ InverseSquares(us) \in Vec(k)
         /\ \A i \in 1..k : /\ Squares(us)[i] = us[i] ** us[i]
                            /\ InverseSquares(us)[i] = Invert(us[i]) ** Invert(us[i])
                            /\ us[i] \in Scalar \ {0} /\ Invert(us[i]) \in Scalar
<1>1. \A i \in 1..k : us[i] \in Scalar \ {0}
  BY DEF Usable, Vec
<1>2. \A i \in 1..k : Invert(us[i]) \in Scalar
  BY <1>1, Inverses
<1>3. us \in Vec(k) /\ DOMAIN us = 1..k
  BY DEF Usable, Vec
<1>4. \A i \in 1..k : Invert(us[i]) ** Invert(us[i]) \in Scalar
  BY <1>2, ScalarClosed
<1>5. InverseSquares(us) = [i \in 1..k |-> Invert(us[i]) ** Invert(us[i])]
  BY <1>3 DEF InverseSquares
<1>6. InverseSquares(us) \in Vec(k)
  BY <1>4, <1>5 DEF Vec
<1>7. /\ Squares(us) \in Vec(k)
      /\ \A i \in 1..k : Squares(us)[i] = us[i] ** us[i]
  BY <1>3, TimesType DEF Squares
<1> QED BY <1>1, <1>2, <1>5, <1>6, <1>7

\* One more challenge.
LEMMA DrawnLonger ==
  ASSUME NEW k \in Nat, NEW us, Usable(us, k), NEW u \in Scalar \ {0}, NEW ws, Longer(ws, us, u)
  PROVE  /\ Usable(ws, k + 1) /\ ws[k + 1] = u /\ \A i \in 1..k : ws[i] = us[i]
         /\ Longer(Squares(ws), Squares(us), u ** u)
         /\ Longer(InverseSquares(ws), InverseSquares(us), Invert(u) ** Invert(u))
<1>1. us \in Vec(k) /\ u \in Scalar /\ k + 1 \in Nat
  BY DEF Usable
<1>2. /\ ws \in Vec(k + 1) /\ ws[k + 1] = u
      /\ \A i \in 1..k : ws[i] = us[i]
  BY <1>1, AppendVec
<1>3. Usable(ws, k + 1)
  <2>1. ASSUME NEW i \in 1..(k + 1) PROVE ws[i] # 0
    <3>1. i \in 1..k \/ i = k + 1
      OBVIOUS
    <3> QED BY <1>2, <3>1 DEF Usable
  <2> QED BY <1>2, <2>1 DEF Usable
<1>4. u ** u \in Scalar /\ Invert(u) ** Invert(u) \in Scalar
  BY Inverses, ScalarClosed
<1>5. PICK sq, isq, sq1, isq1 :
          /\ sq = Squares(us) /\ isq = InverseSquares(us)
          /\ sq1 = Squares(ws) /\ isq1 = InverseSquares(ws)
  OBVIOUS
<1>6. /\ sq \in Vec(k) /\ isq \in Vec(k)
      /\ \A i \in 1..k : sq[i] = us[i] ** us[i] /\ isq[i] = Invert(us[i]) ** Invert(us[i])
  BY <1>5, DrawnType
<1>7. /\ sq1 \in Vec(k + 1) /\ isq1 \in Vec(k + 1)
      /\ \A i \in 1..(k + 1) : /\ sq1[i] = ws[i] ** ws[i]
                               /\ isq1[i] = Invert(ws[i]) ** Invert(ws[i])
  BY <1>1, <1>3, <1>5, DrawnType
<1>8. PICK t, it : Longer(t, sq, u ** u) /\ Longer(it, isq, Invert(u) ** Invert(u))
  BY DEF Longer
<1>9. /\ t \in Vec(k + 1) /\ t[k + 1] = u ** u
      /\ \A i \in 1..k : t[i] = sq[i]
  BY <1>4, <1>6, <1>8, AppendVec
<1>10. /\ it \in Vec(k + 1) /\ it[k + 1] = Invert(u) ** Invert(u)
       /\ \A i \in 1..k : it[i] = isq[i]
  BY <1>4, <1>6, <1>8, AppendVec
<1>11. \A i \in 1..(k + 1) : t[i] = sq1[i] /\ it[i] = isq1[i]
  <2>1. ASSUME NEW i \in 1..(k + 1) PROVE t[i] = sq1[i] /\ it[i] = isq1[i]
    <3>1. CASE i = k + 1
      <4>1. sq1[i] = u ** u /\ isq1[i] = Invert(u) ** Invert(u)
        BY <1>2, <1>7, <3>1
      <4> QED BY <1>9, <1>10, <3>1, <4>1
    <3>2. CASE i # k + 1
      <4>1. i \in 1..k
        BY <3>2
      <4>2. sq1[i] = us[i] ** us[i] /\ isq1[i] = Invert(us[i]) ** Invert(us[i])
        BY <1>2, <1>7, <4>1
      <4> QED BY <1>6, <1>9, <1>10, <4>1, <4>2
    <3> QED BY <3>1, <3>2
  <2> QED BY <2>1
<1>12. t = sq1 /\ it = isq1
  BY <1>1, <1>7, <1>9, <1>10, <1>11, VecExtensional
<1> QED BY <1>2, <1>3, <1>5, <1>8, <1>12

\* A round keeps the claim that the rounds before it kept.
LEMMA ClaimStep ==
  ASSUME NEW k \in Nat, NEW n \in Nat, NEW m \in Nat, NEW s, NEW v, NEW us, Usable(us, k),
         s.L_vec \in PointVec(k), s.R_vec \in PointVec(k),
         WellFormed(s.v, 2 * n), WellFormed(v, m), NEW Qp \in Point, KeepsClaim(s, v, Qp, us),
         NEW u \in Scalar \ {0}, NEW ws, Longer(ws, us, u), NEW r, r = RoundOf(s, Qp, u)
  PROVE  /\ KeepsClaim(r, v, Qp, ws) /\ WellFormed(r.v, n)
         /\ r.L_vec \in PointVec(k + 1) /\ r.R_vec \in PointVec(k + 1)
<1>1. PICK w, L, R : w = s.v /\ L = CrossL(w, Qp) /\ R = CrossR(w, Qp)
  OBVIOUS
<1>2. WellFormed(w, 2 * n) /\ L \in Point /\ R \in Point
  BY <1>1, CrossType
<1>3. /\ r.v = Fold(w, u)
      /\ Longer(r.L_vec, s.L_vec, L) /\ Longer(r.R_vec, s.R_vec, R)
  BY <1>1 DEF RoundOf, Longer
<1>4. r.L_vec \in PointVec(k + 1) /\ r.R_vec \in PointVec(k + 1)
  BY <1>2, <1>3, AppendPointVec
<1>5. WellFormed(r.v, n)
  BY <1>2, <1>3, FoldIs
<1>6. PICK U, W \in Scalar : U = u ** u /\ W = Invert(u) ** Invert(u)
  BY Inverses, ScalarClosed
<1>7. Longer(Squares(ws), Squares(us), U) /\ Longer(InverseSquares(ws), InverseSquares(us), W)
  BY <1>6, DrawnLonger
<1>8. Squares(us) \in Vec(k) /\ InverseSquares(us) \in Vec(k)
  BY DrawnType
<1>9. ASSUME NEW g \in Generator
      PROVE  Claim(r.v, Qp)[g]
               = (Claim(v, Qp)[g] ++ multiscalar_mul(Squares(ws), r.L_vec)[g])
                    ++ multiscalar_mul(InverseSquares(ws), r.R_vec)[g]
  <2>1. PICK C, x, y \in Scalar : /\ C = Claim(v, Qp)[g]
                                  /\ x = multiscalar_mul(Squares(us), s.L_vec)[g]
                                  /\ y = multiscalar_mul(InverseSquares(us), s.R_vec)[g]
    <3>1. Claim(v, Qp) \in Point
      BY ClaimType
    <3>2. /\ multiscalar_mul(Squares(us), s.L_vec) \in Point
          /\ multiscalar_mul(InverseSquares(us), s.R_vec) \in Point
      BY <1>8, MsmType
    <3>3. /\ Claim(v, Qp)[g] \in Scalar /\ multiscalar_mul(Squares(us), s.L_vec)[g] \in Scalar
          /\ multiscalar_mul(InverseSquares(us), s.R_vec)[g] \in Scalar
      BY <3>1, <3>2 DEF Point
    <3> QED BY <3>3
  <2>2. Claim(w, Qp)[g] = (C ++ x) ++ y
    BY <1>1, <2>1 DEF KeepsClaim
  <2>3. PICK l, t \in Scalar : l = U ** L[g] /\ t = W ** R[g]
    <3>1. L[g] \in Scalar /\ R[g] \in Scalar
      BY <1>2 DEF Point
    <3> QED BY <3>1, ScalarClosed
  <2>4. Claim(r.v, Qp)[g] = Claim(w, Qp)[g] ++ (l ++ t)
    BY <1>1, <1>2, <1>3, <1>6, <2>3, RoundKeepsClaim
  <2>5. multiscalar_mul(Squares(ws), r.L_vec)[g] = x ++ l
    BY <1>2, <1>3, <1>7, <1>8, <2>1, <2>3, MsmAppend
  <2>6. multiscalar_mul(InverseSquares(ws), r.R_vec)[g] = y ++ t
    BY <1>2, <1>3, <1>7, <1>8, <2>1, <2>3, MsmAppend
  <2>7. ((C ++ x) ++ y) ++ (l ++ t) = (C ++ (x ++ l)) ++ (y ++ t)
    <3>1. C ++ x \in Scalar
      BY ScalarClosed
    <3>2. ((C ++ x) ++ y) ++ (l ++ t) = ((C ++ x) ++ l) ++ (y ++ t)
      BY <3>1, AddInterchanges
    <3>3. (C ++ x) ++ l = C ++ (x ++ l)
      BY AddAssociates
    <3> QED BY <3>2, <3>3
  <2> QED BY <2>1, <2>2, <2>4, <2>5, <2>6, <2>7
<1>10. KeepsClaim(r, v, Qp, ws)
  BY <1>9 DEF KeepsClaim
<1> QED BY <1>4, <1>5, <1>10

\* Before the first round.
LEMMA ClaimStarts ==
  ASSUME NEW m \in Nat, NEW s, NEW v, WellFormed(v, m), NEW Qp \in Point, NEW us, Usable(us, 0),
         s.v = v, s.L_vec \in PointVec(0), s.R_vec \in PointVec(0)
  PROVE  KeepsClaim(s, v, Qp, us)
<1>1. PICK z \in Nat : z = 0
  OBVIOUS
<1>2. Usable(us, z) /\ s.L_vec \in PointVec(z) /\ s.R_vec \in PointVec(z)
  BY <1>1
<1>3. Squares(us) \in Vec(z) /\ InverseSquares(us) \in Vec(z)
  BY <1>2, DrawnType
<1>4. ASSUME NEW c \in Vec(z), NEW p \in PointVec(z), NEW g \in Generator
      PROVE  multiscalar_mul(c, p)[g] = 0
  <2>1. PICK x : x = [k \in 1..z |-> c[k] ** p[k][g]]
    OBVIOUS
  <2>2. x \in Vec(z) /\ multiscalar_mul(c, p)[g] = SumOf(x)
    BY <2>1, MsmAt
  <2> QED BY <1>1, <2>2, SumOfNothing
<1>5. ASSUME NEW g \in Generator
      PROVE  Claim(s.v, Qp)[g]
               = (Claim(v, Qp)[g] ++ multiscalar_mul(Squares(us), s.L_vec)[g])
                    ++ multiscalar_mul(InverseSquares(us), s.R_vec)[g]
  <2>1. /\ multiscalar_mul(Squares(us), s.L_vec)[g] = 0
        /\ multiscalar_mul(InverseSquares(us), s.R_vec)[g] = 0
    BY <1>2, <1>3, <1>4
  <2>2. Claim(v, Qp)[g] \in Scalar
    BY ClaimType DEF Point
  <2> QED BY <2>1, <2>2, Units, ScalarClosed
<1> QED BY <1>5 DEF KeepsClaim

-----------------------------------------------------------------------------
(* The leading bit of an index, on which verification_scalars recurses.    *)

\* k is the leading bit of i.
HasLeadingBit(i, k) == 2^k <= i /\ i < 2^(k + 1)

\* As in SVector.
LeadingBit(i) == CHOOSE k \in 0..i : 2^k <= i /\ i < 2^(k + 1)

\* A number has one leading bit.
LEMMA LeadingBitUnique ==
  ASSUME NEW i \in Nat, NEW j \in Nat, NEW k \in Nat, HasLeadingBit(i, j), HasLeadingBit(i, k)
  PROVE  j = k
<1>1. /\ 2^j \in Nat /\ 2^k \in Nat /\ 2^(j + 1) \in Nat /\ 2^(k + 1) \in Nat
      /\ j + 1 \in Nat /\ k + 1 \in Nat
  <2>1. j + 1 \in Nat /\ k + 1 \in Nat
    OBVIOUS
  <2> QED BY <2>1, PowerOfTwoType
<1>2. ~(j + 1 <= k)
  <2> SUFFICES ASSUME j + 1 <= k PROVE FALSE
    OBVIOUS
  <2>1. 2^(j + 1) <= 2^k
    BY <1>1, PowerOfTwoOrders
  <2> QED BY <1>1, <2>1 DEF HasLeadingBit
<1>3. ~(k + 1 <= j)
  <2> SUFFICES ASSUME k + 1 <= j PROVE FALSE
    OBVIOUS
  <2>1. 2^(k + 1) <= 2^j
    BY <1>1, PowerOfTwoOrders
  <2> QED BY <1>1, <2>1 DEF HasLeadingBit
<1> QED BY <1>2, <1>3

\* LeadingBit finds it.
LEMMA LeadingBitIs ==
  ASSUME NEW i \in Nat \ {0}
  PROVE  LeadingBit(i) \in Nat /\ HasLeadingBit(i, LeadingBit(i))
<1> DEFINE T == {l \in Nat : i < 2^l}
<1>1. i \in T
  BY PowerOfTwoGrows
<1>2. PICK l \in T : \A m \in T : l <= m
  <2>1. T \subseteq Nat
    OBVIOUS
  <2> HIDE DEF T
  <2> QED BY <1>1, <2>1, LeastElement
<1>3. l \in Nat /\ i < 2^l
  BY <1>2
<1>4. l # 0
  <2> SUFFICES ASSUME l = 0 PROVE FALSE
    OBVIOUS
  <2>1. i < 2^0
    BY <1>3
  <2>2. i < 1
    BY <2>1, PowerOfTwoZero, Zenon
  <2> QED BY <2>2
<1>5. PICK k \in Nat : l = k + 1
  <2>1. l - 1 \in Nat /\ l = (l - 1) + 1
    BY <1>3, <1>4
  <2> QED BY <2>1
<1>6. k \notin T
  <2> HIDE DEF T
  <2>1. ~(l <= k)
    BY <1>5
  <2> QED BY <1>2, <2>1
<1>7. 2^k <= i /\ 2^k \in Nat
  <2>1. PICK m \in Nat : m = 2^k
    BY PowerOfTwoType
  <2>2. ~(i < 2^k)
    BY <1>6
  <2>3. 2^k <= i
    BY <2>1, <2>2
  <2> QED BY <2>1, <2>3
<1>8. k < 2^k
  BY PowerOfTwoGrows
<1>9. k \in 0..i
  BY <1>7, <1>8
<1>10. \E j \in 0..i : 2^j <= i /\ i < 2^(j + 1)
  BY <1>3, <1>5, <1>7, <1>9
<1>11. LeadingBit(i) \in 0..i /\ 2^LeadingBit(i) <= i /\ i < 2^(LeadingBit(i) + 1)
  BY <1>10 DEF LeadingBit
<1> QED BY <1>11 DEF HasLeadingBit

\* Whatever is a leading bit is LeadingBit.
LEMMA LeadingBitOf ==
  ASSUME NEW i \in Nat \ {0}, NEW k \in Nat, HasLeadingBit(i, k)
  PROVE  LeadingBit(i) = k
BY LeadingBitIs, LeadingBitUnique

\* The leading bit of an index lies below its length, that of twice it is the next.
LEMMA LeadingBitBelow ==
  ASSUME NEW k \in Nat, NEW i \in Nat \ {0}, i < 2^k
  PROVE  LeadingBit(i) \in 0..(k - 1) /\ i - 2^LeadingBit(i) \in 0..(i - 1)
<1>1. PICK l \in Nat : l = LeadingBit(i) /\ HasLeadingBit(i, l)
  BY LeadingBitIs
<1>2. 2^l \in Nat /\ 2^k \in Nat /\ 1 <= 2^l
  BY PowerOfTwoType, PowerOfTwoGrows
<1>3. ~(k <= l)
  <2> SUFFICES ASSUME k <= l PROVE FALSE
    OBVIOUS
  <2>1. 2^k <= 2^l
    BY PowerOfTwoOrders
  <2> QED BY <1>1, <1>2, <2>1 DEF HasLeadingBit
<1>4. 2^l <= i
  BY <1>1 DEF HasLeadingBit
<1>5. l \in 0..(k - 1)
  BY <1>3
<1>6. i - 2^l \in 0..(i - 1)
  BY <1>2, <1>4
<1> QED BY <1>1, <1>5, <1>6

\* Doubling a number moves its leading bit by one.
LEMMA LeadingBitOfTwice ==
  ASSUME NEW i \in Nat \ {0}, NEW b \in {0, 1}
  PROVE  LeadingBit(2 * i + b) = LeadingBit(i) + 1
<1>1. PICK l \in Nat : l = LeadingBit(i) /\ HasLeadingBit(i, l)
  BY LeadingBitIs
<1>2. PICK m \in Nat : m = l + 1
  OBVIOUS
<1>3. 2^m = 2 * 2^l /\ 2^(m + 1) = 2 * 2^m /\ 2^l \in Nat /\ 2^m \in Nat
  BY <1>2, PowerOfTwoNext, PowerOfTwoType
<1>4. 2^l <= i /\ i < 2^m
  BY <1>1, <1>2 DEF HasLeadingBit
<1>5. 2^m <= 2 * i + b /\ 2 * i + b < 2^(m + 1)
  BY <1>3, <1>4
<1>6. 2 * i + b \in Nat \ {0}
  OBVIOUS
<1> QED BY <1>1, <1>2, <1>5, <1>6, LeadingBitOf DEF HasLeadingBit

\* The leading bit of one.
LEMMA LeadingBitOfOne == LeadingBit(1) = 0
<1>1. 2^(0 + 1) = 2 * 2^0
  BY PowerOfTwoNext
<1>2. HasLeadingBit(1, 0)
  BY <1>1, PowerOfTwoZero DEF HasLeadingBit
<1> QED BY <1>2, LeadingBitOf

-----------------------------------------------------------------------------
(* Recursion that refers to any earlier entry.                             *)

\* What holds of a number whenever it holds of all smaller ones holds of all.
LEMMA StrongInduction ==
  ASSUME NEW S, \A n \in Nat : (\A m \in Nat : m < n => m \in S) => n \in S
  PROVE  \A n \in Nat : n \in S
<1> SUFFICES ASSUME Nat \ S # {} PROVE FALSE
  OBVIOUS
<1>1. PICK m \in Nat \ S : \A k \in Nat \ S : m <= k
  BY LeastElement
<1>2. \A k \in Nat : k < m => k \in S
  <2>1. ASSUME NEW k \in Nat, k < m, k \notin S PROVE FALSE
    <3>1. m <= k
      BY <1>1, <2>1
    <3> QED BY <2>1, <3>1
  <2> QED BY <2>1
<1> QED BY <1>1, <1>2

\* An entry is a multiple of one before it.
Links(f, n, c, prev, w) == f[0] = c /\ \A i \in 1..n : f[i] = f[prev[i]] ** w[i]

\* Every index but the first refers to one before it.
PointsBack(prev, n) == \A i \in 1..n : prev[i] \in 0 .. i - 1

\* A table each entry of which refers to an earlier one exists.
LEMMA LinksExist ==
  ASSUME NEW n \in Nat, NEW c \in Scalar, NEW prev, PointsBack(prev, n), NEW w \in Vec(n)
  PROVE  \E f \in [0..n -> Scalar] : Links(f, n, c, prev, w)
<1> DEFINE T == {m \in 0..n : \E f \in [0..m -> Scalar] : Links(f, m, c, prev, w)}
<1>1. 0 \in T
  <2>1. PICK f : f = [i \in 0..0 |-> c]
    OBVIOUS
  <2>2. f \in [0..0 -> Scalar] /\ f[0] = c
    BY <2>1
  <2>3. Links(f, 0, c, prev, w)
    BY <2>2 DEF Links
  <2> QED BY <2>2, <2>3
<1>2. ASSUME NEW m \in 0..(n - 1), m \in T PROVE m + 1 \in T
  <2>1. PICK f \in [0..m -> Scalar] : Links(f, m, c, prev, w)
    BY <1>2
  <2>2. prev[m + 1] \in 0..m /\ w[m + 1] \in Scalar
    <3>1. m + 1 \in 1..n /\ (m + 1) - 1 = m
      OBVIOUS
    <3> QED BY <3>1 DEF PointsBack, Vec
  <2>3. PICK d \in Scalar : d = f[prev[m + 1]] ** w[m + 1]
    BY <2>2, ScalarClosed
  <2>4. PICK h : h = [i \in 0..(m + 1) |-> IF i = m + 1 THEN d ELSE f[i]]
    OBVIOUS
  <2>5. h \in [0..(m + 1) -> Scalar] /\ h[m + 1] = d /\ \A i \in 0..m : h[i] = f[i]
    BY <2>4
  <2>6. ASSUME NEW i \in 1..(m + 1) PROVE h[i] = h[prev[i]] ** w[i]
    <3>1. CASE i = m + 1
      <4>1. h[prev[i]] = f[prev[i]]
        BY <2>2, <2>5, <3>1
      <4> QED BY <2>3, <2>5, <3>1, <4>1
    <3>2. CASE i # m + 1
      <4>1. i \in 1..m /\ i \in 0..m /\ i \in 1..n
        BY <3>2
      <4>2. prev[i] \in 0..m
        BY <4>1 DEF PointsBack
      <4>3. h[prev[i]] = f[prev[i]] /\ h[i] = f[i]
        BY <2>5, <4>1, <4>2
      <4>4. f[i] = f[prev[i]] ** w[i]
        BY <2>1, <4>1 DEF Links
      <4> QED BY <4>3, <4>4
    <3> QED BY <3>1, <3>2
  <2>7. Links(h, m + 1, c, prev, w)
    <3>1. h[0] = c
      <4>1. f[0] = c /\ h[0] = f[0]
        BY <2>1, <2>5 DEF Links
      <4> QED BY <4>1
    <3> QED BY <2>6, <3>1 DEF Links
  <2>8. m + 1 \in 0..n
    OBVIOUS
  <2> QED BY <2>5, <2>7, <2>8
<1>3. \A m \in 0..n : m \in T
  <2> HIDE DEF T
  <2> QED BY <1>1, <1>2, InductionUpTo
<1>4. n \in T
  BY <1>3
<1> QED BY <1>4

-----------------------------------------------------------------------------
(* The product of the challenges, from which the scalars start.            *)

\* p holds the products of the first entries of v.
Prods(p, n, v) == p[0] = 1 /\ \A k \in 1..n : p[k] = p[k - 1] ** v[k]

\* c is the product of all n.
IsProd(c, v, n) == \E p \in [0..n -> Scalar] : Prods(p, n, v) /\ c = p[n]

\* So does the table of the products of the first entries.
LEMMA ProdsExist ==
  ASSUME NEW n \in Nat, NEW v \in Vec(n)
  PROVE  \E p \in [0..n -> Scalar] : Prods(p, n, v)
<1>1. PICK step : step = [q \in (1..n) \X Scalar |-> q[2] ** v[q[1]]]
  OBVIOUS
<1>2. StaysIn(Scalar, n, step)
  <2>1. \A k \in 1..n : \A a \in Scalar : a ** v[k] \in Scalar
    BY ScalarClosed DEF Vec
  <2> QED BY <1>1, <2>1 DEF StaysIn
<1>3. PICK p \in [0..n -> Scalar] : Recursive(p, n, 1, step)
  BY <1>2, ScalarClosed, RecursionExists
<1>4. ASSUME NEW k \in 1..n PROVE p[k] = p[k - 1] ** v[k]
  <2>1. <<k, p[k - 1]>> \in (1..n) \X Scalar
    OBVIOUS
  <2>2. p[k] = step[<<k, p[k - 1]>>]
    BY <1>3 DEF Recursive
  <2> QED BY <1>1, <2>1, <2>2
<1>5. Prods(p, n, v)
  BY <1>3, <1>4 DEF Prods, Recursive
<1> QED BY <1>5

\* It depends on the entries it multiplies only.
LEMMA ProdsAgree ==
  ASSUME NEW n \in Nat, NEW v, NEW w, \A i \in 1..n : w[i] = v[i], NEW p, Prods(p, n, v),
         NEW q, Prods(q, n, w)
  PROVE  \A k \in 0..n : p[k] = q[k]
<1> DEFINE T == {k \in 0..n : p[k] = q[k]}
<1>1. 0 \in T
  BY DEF Prods
<1>2. ASSUME NEW k \in 0..(n - 1), k \in T PROVE k + 1 \in T
  <2>1. k + 1 \in 1..n /\ (k + 1) - 1 = k /\ k + 1 \in 0..n
    OBVIOUS
  <2>2. p[k + 1] = p[k] ** v[k + 1] /\ q[k + 1] = q[k] ** w[k + 1]
    BY <2>1 DEF Prods
  <2>3. w[k + 1] = v[k + 1] /\ p[k] = q[k]
    BY <1>2, <2>1
  <2> QED BY <2>1, <2>2, <2>3
<1>3. \A k \in 0..n : k \in T
  <2> HIDE DEF T
  <2> QED BY <1>1, <1>2, InductionUpTo
<1> QED BY <1>3

\* A product of challenges is not zero, for the order is prime.
LEMMA ProdNotZero ==
  ASSUME NEW n \in Nat, NEW v, Usable(v, n), NEW p \in [0..n -> Scalar], Prods(p, n, v)
  PROVE  \A k \in 0..n : p[k] # 0
<1> DEFINE T == {k \in 0..n : p[k] # 0}
<1>1. 0 \in T
  BY DEF Prods
<1>2. ASSUME NEW k \in 0..(n - 1), k \in T PROVE k + 1 \in T
  <2>1. k + 1 \in 1..n /\ (k + 1) - 1 = k /\ k + 1 \in 0..n /\ k \in 0..n
    OBVIOUS
  <2>2. p[k + 1] = p[k] ** v[k + 1]
    BY <2>1 DEF Prods
  <2>3. p[k] \in Scalar /\ p[k] # 0 /\ v[k + 1] \in Scalar /\ v[k + 1] # 0
    BY <1>2, <2>1 DEF Usable, Vec
  <2>4. p[k + 1] # 0
    BY <2>2, <2>3, NoZeroDivisors
  <2> QED BY <2>1, <2>4
<1>3. \A k \in 0..n : k \in T
  <2> HIDE DEF T
  <2> QED BY <1>1, <1>2, InductionUpTo
<1> QED BY <1>3

\* One more challenge is one more factor.
LEMMA ProdOfLonger ==
  ASSUME NEW n \in Nat, NEW us, Usable(us, n), NEW u \in Scalar \ {0}, NEW ws,
         Longer(ws, us, u), NEW c, IsProd(c, us, n), NEW d, IsProd(d, ws, n + 1)
  PROVE  c \in Scalar \ {0} /\ d = c ** u
<1>1. PICK p \in [0..n -> Scalar] : Prods(p, n, us) /\ c = p[n]
  BY DEF IsProd
<1>2. PICK q \in [0..(n + 1) -> Scalar] : Prods(q, n + 1, ws) /\ d = q[n + 1]
  BY DEF IsProd
<1>3. ws[n + 1] = u /\ \A i \in 1..n : ws[i] = us[i]
  BY DrawnLonger
<1>4. Prods(q, n, ws) /\ q[n + 1] = q[n] ** ws[n + 1]
  <2>1. n + 1 \in 1..(n + 1) /\ (n + 1) - 1 = n /\ \A i \in 1..n : i \in 1..(n + 1)
    OBVIOUS
  <2> QED BY <1>2, <2>1 DEF Prods
<1>5. p[n] = q[n]
  <2>1. \A k \in 0..n : p[k] = q[k]
    BY <1>1, <1>3, <1>4, ProdsAgree, SMTT(30)
  <2> QED BY <2>1
<1>6. p[n] # 0 /\ p[n] \in Scalar
  BY <1>1, ProdNotZero
<1> QED BY <1>1, <1>2, <1>3, <1>4, <1>5, <1>6

-----------------------------------------------------------------------------
(* The scalars: SVector is what its recursion says.                        *)

\* What the scalars of the generators are: the first entry, and each other one
\* from the one that lacks its leading bit.
Unfolds(s, k, us, c) ==
    /\ s[0] = Invert(c)
    /\ \A i \in 1 .. 2^k - 1 :
           s[i] = s[i - 2^LeadingBit(i)]
                    ** (us[k - LeadingBit(i)] ** us[k - LeadingBit(i)])

\* The definition of SVector yields the scalars it describes.
LEMMA SVectorIs ==
  ASSUME NEW k \in Nat, NEW us, Usable(us, k)
  PROVE  \E s \in [0 .. 2^k - 1 -> Scalar], c \in Scalar :
             /\ IsProd(c, us, k) /\ Unfolds(s, k, us, c)
             /\ SVector(us) = [i \in 1 .. 2^k |-> s[i - 1]]
<1>1. us \in Vec(k) /\ Len(us) = k
  BY DEF Usable, Vec
<1> DEFINE P(p) == p = [j \in 0..k |-> IF j = 0 THEN 1 ELSE p[j - 1] ** us[j]]
           product == CHOOSE p : P(p)
<1>2. P(product)
  <2>1. PICK p \in [0..k -> Scalar] : Prods(p, k, us)
    BY <1>1, ProdsExist
  <2>2. \A j \in 0..k : p[j] = IF j = 0 THEN 1 ELSE p[j - 1] ** us[j]
    <3>1. \A j \in 0..k : j # 0 => j \in 1..k
      OBVIOUS
    <3> QED BY <2>1, <3>1 DEF Prods
  <2>3. P(p)
    BY <2>2
  <2> QED BY <2>3
<1>3. PICK c \in Scalar : c = product[k] /\ IsProd(c, us, k) /\ c # 0
  <2> HIDE DEF product
  <2>1. \A j \in 0..k : product[j] = IF j = 0 THEN 1 ELSE product[j - 1] ** us[j]
    BY <1>2
  <2>2. Prods(product, k, us)
    <3>1. \A j \in 1..k : j # 0 /\ j \in 0..k
      OBVIOUS
    <3> QED BY <2>1, <3>1 DEF Prods
  <2>3. PICK p \in [0..k -> Scalar] : Prods(p, k, us)
    BY <1>1, ProdsExist
  <2>4. \A j \in 0..k : p[j] = product[j]
    BY <2>2, <2>3, ProdsAgree
  <2>5. p[k] = product[k] /\ p[k] \in Scalar /\ p[k] # 0
    BY <2>3, <2>4, ProdNotZero
  <2>6. IsProd(p[k], us, k)
    BY <2>3 DEF IsProd
  <2> QED BY <2>5, <2>6
<1>4. PICK N \in Nat : N = 2^k - 1 /\ 2^k = N + 1
  <2>1. PICK m \in Nat : m = 2^k /\ 1 <= m
    BY PowerOfTwoType, PowerOfTwoGrows
  <2>2. m - 1 \in Nat /\ m = (m - 1) + 1
    BY <2>1
  <2> QED BY <2>1, <2>2
<1>5. ASSUME NEW i \in 1..N
      PROVE  /\ i - 2^LeadingBit(i) \in 0 .. i - 1
             /\ k - LeadingBit(i) \in 1..k
             /\ (k - 1) - LeadingBit(i) + 1 = k - LeadingBit(i)
  <2>1. i \in Nat \ {0} /\ i < 2^k
    BY <1>4
  <2>2. LeadingBit(i) \in 0..(k - 1) /\ i - 2^LeadingBit(i) \in 0..(i - 1)
    BY <2>1, LeadingBitBelow
  <2> QED BY <2>2
<1>6. PICK prev : prev = [i \in 1..N |-> i - 2^LeadingBit(i)]
  OBVIOUS
<1>7. PICK w : w = [i \in 1..N |-> us[k - LeadingBit(i)] ** us[k - LeadingBit(i)]]
  OBVIOUS
<1>8. w \in Vec(N) /\ PointsBack(prev, N)
  <2>1. \A i \in 1..N : us[k - LeadingBit(i)] \in Scalar
    BY <1>1, <1>5 DEF Vec
  <2>2. \A i \in 1..N : us[k - LeadingBit(i)] ** us[k - LeadingBit(i)] \in Scalar
    BY <2>1, ScalarClosed
  <2>3. w \in Vec(N)
    BY <1>7, <2>2 DEF Vec
  <2>4. PointsBack(prev, N)
    BY <1>5, <1>6 DEF PointsBack
  <2> QED BY <2>3, <2>4
<1>9. PICK d \in Scalar : d = Invert(c)
  BY <1>3, Inverses
<1> DEFINE S(f) == f = [i \in 0 .. 2^k - 1 |->
                          IF i = 0 THEN Invert(product[k])
                          ELSE f[i - 2^LeadingBit(i)]
                                 ** (us[(k - 1) - LeadingBit(i) + 1]
                                       ** us[(k - 1) - LeadingBit(i) + 1])]
           s == CHOOSE f : S(f)
<1>10. S(s)
  <2> HIDE DEF product
  <2>1. PICK f \in [0..N -> Scalar] : Links(f, N, d, prev, w)
    BY <1>8, LinksExist
  <2>2. ASSUME NEW i \in 1..N
        PROVE  f[i] = f[i - 2^LeadingBit(i)]
                        ** (us[(k - 1) - LeadingBit(i) + 1]
                              ** us[(k - 1) - LeadingBit(i) + 1])
    <3>1. f[i] = f[prev[i]] ** w[i]
      BY <2>1 DEF Links
    <3>2. prev[i] = i - 2^LeadingBit(i)
      BY <1>6
    <3>3. w[i] = us[k - LeadingBit(i)] ** us[k - LeadingBit(i)]
      BY <1>7
    <3>4. (k - 1) - LeadingBit(i) + 1 = k - LeadingBit(i)
      BY <1>5
    <3> QED BY <3>1, <3>2, <3>3, <3>4, Zenon
  <2>3. f[0] = Invert(product[k])
    BY <1>3, <1>9, <2>1 DEF Links
  <2>4. \A i \in 0..N : i = 0 \/ i \in 1..N
    OBVIOUS
  <2>5. 0 .. 2^k - 1 = 0..N
    BY <1>4
  <2>6. \A i \in 0 .. 2^k - 1 :
           f[i] = IF i = 0 THEN Invert(product[k])
                          ELSE f[i - 2^LeadingBit(i)]
                                 ** (us[(k - 1) - LeadingBit(i) + 1]
                                       ** us[(k - 1) - LeadingBit(i) + 1])
    BY <2>2, <2>3, <2>4, <2>5, Zenon
  <2>7. S(f)
    BY <2>5, <2>6, Zenon
  <2> QED BY <2>7
<1>11. SVector(us) = [i \in 1 .. 2^k |-> s[i - 1]]
  BY <1>1 DEF SVector, LeadingBit
<1> HIDE DEF s, product
<1>12. Unfolds(s, k, us, c)
  <2>1. 0 .. 2^k - 1 = 0..N /\ 1 .. 2^k - 1 = 1..N
    BY <1>4
  <2>2. s[0] = Invert(c)
    BY <1>3, <1>10, <2>1
  <2>3. ASSUME NEW i \in 1..N
        PROVE  s[i] = s[i - 2^LeadingBit(i)]
                        ** (us[k - LeadingBit(i)] ** us[k - LeadingBit(i)])
    <3>1. i \in 0..N /\ i # 0
      OBVIOUS
    <3>2. s[i] = s[i - 2^LeadingBit(i)]
                        ** (us[(k - 1) - LeadingBit(i) + 1]
                              ** us[(k - 1) - LeadingBit(i) + 1])
      BY <1>10, <2>1, <3>1, Zenon
    <3>3. (k - 1) - LeadingBit(i) + 1 = k - LeadingBit(i)
      BY <1>5
    <3> QED BY <3>2, <3>3, Zenon
  <2> QED BY <2>1, <2>2, <2>3, Zenon DEF Unfolds
<1>13. s \in [0 .. 2^k - 1 -> Scalar]
  <2> DEFINE T == {i \in Nat : i <= N => s[i] \in Scalar}
  <2>1. ASSUME NEW i \in Nat, \A m \in Nat : m < i => m \in T PROVE i \in T
    <3>1. CASE i = 0
      BY <1>9, <1>12, <3>1 DEF Unfolds
    <3>2. CASE i \in 1..N
      <4>1. PICK m \in Nat : m = i - 2^LeadingBit(i) /\ m < i /\ m <= N
        BY <1>5, <3>2
      <4>2. s[m] \in Scalar
        BY <2>1, <4>1
      <4>3. w[i] \in Scalar /\ w[i] = us[k - LeadingBit(i)] ** us[k - LeadingBit(i)]
        BY <1>7, <1>8, <3>2 DEF Vec
      <4>4. i \in 1 .. 2^k - 1
        BY <1>4, <3>2
      <4>5. s[i] = s[m] ** w[i]
        BY <1>12, <4>1, <4>3, <4>4 DEF Unfolds
      <4>6. s[i] \in Scalar
        BY <4>2, <4>3, <4>5, ScalarClosed
      <4> QED BY <4>6
    <3>3. CASE ~(i <= N)
      BY <3>3
    <3> QED BY <3>1, <3>2, <3>3
  <2>2. \A i \in Nat : i \in T
    <3> HIDE DEF T
    <3> QED BY <2>1, StrongInduction
  <2>3. \A i \in 0..N : s[i] \in Scalar
    BY <2>2
  <2>4. 0 .. 2^k - 1 = 0..N
    BY <1>4
  <2>5. s = [i \in 0..N |-> s[i]]
    <3>1. \E body : s = [i \in 0..N |-> body[i]]
      <4>1. PICK body : body = [i \in 0..N |->
                          IF i = 0 THEN Invert(product[k])
                          ELSE s[i - 2^LeadingBit(i)]
                                 ** (us[(k - 1) - LeadingBit(i) + 1]
                                       ** us[(k - 1) - LeadingBit(i) + 1])]
        OBVIOUS
      <4>2. s = body
        BY <1>10, <2>4, <4>1, Zenon
      <4>3. body = [i \in 0..N |-> body[i]]
        BY <4>1, Zenon
      <4> QED BY <4>2, <4>3
    <3> QED BY <3>1
  <2> QED BY <2>3, <2>4, <2>5
<1> QED BY <1>3, <1>11, <1>12, <1>13

-----------------------------------------------------------------------------
(* One more challenge: the scalars double.                                 *)

\* s holds the scalars of k challenges.
Unfolded(s, k, us) ==
    /\ s \in [0 .. 2^k - 1 -> Scalar]
    /\ \E c \in Scalar : IsProd(c, us, k) /\ Unfolds(s, k, us, c)

\* The same without naming the product it starts from.
LEMMA SVectorOf ==
  ASSUME NEW k \in Nat, NEW us, Usable(us, k)
  PROVE  \E s : Unfolded(s, k, us) /\ SVector(us) = [i \in 1 .. 2^k |-> s[i - 1]]
BY SVectorIs DEF Unfolded

\* The entries for even and for odd indexes after one more challenge.
Doubles(j, s, t, u) == t[2 * j] = s[j] ** Invert(u) /\ t[2 * j + 1] = s[j] ** u

\* One more challenge doubles the scalars: an even index takes its inverse as a factor
\* and an odd one the challenge.
LEMMA UnfoldsOnce ==
  ASSUME NEW k \in Nat, NEW us, Usable(us, k), NEW u \in Scalar \ {0}, NEW ws,
         Longer(ws, us, u), NEW s, Unfolded(s, k, us), NEW t, Unfolded(t, k + 1, ws)
  PROVE  \A j \in Nat : j < 2^k => Doubles(j, s, t, u)
<1>1. PICK c \in Scalar : IsProd(c, us, k) /\ Unfolds(s, k, us, c)
  BY DEF Unfolded
<1>2. PICK d \in Scalar : IsProd(d, ws, k + 1) /\ Unfolds(t, k + 1, ws, d)
  BY DEF Unfolded
<1>3. c \in Scalar \ {0} /\ d = c ** u
  BY <1>1, <1>2, ProdOfLonger
<1>4. PICK x \in Scalar : x = Invert(u) /\ u ** x = 1 /\ x ** u = 1
  BY Inverses
<1>5. PICK e \in Scalar : e = Invert(c) /\ Invert(d) = e ** x
  <2>1. Invert(c) \in Scalar
    BY <1>3, Inverses
  <2>2. Invert(c ** u) = Invert(c) ** Invert(u)
    BY <1>3, InverseOfProduct
  <2> QED BY <1>3, <1>4, <2>1, <2>2
<1>6. PICK N \in Nat : N = 2^k /\ 2^(k + 1) = 2 * N /\ 1 <= N
  <2>1. PICK m \in Nat : m = 2^k /\ 1 <= m
    BY PowerOfTwoType, PowerOfTwoGrows
  <2>2. 2^(k + 1) = 2 * 2^k
    BY PowerOfTwoNext
  <2> QED BY <2>1, <2>2
<1>7. Usable(ws, k + 1) /\ ws[k + 1] = u /\ \A i \in 1..k : ws[i] = us[i]
  BY DrawnLonger
<1>8. s[0] = e /\ t[0] = e ** x
  BY <1>1, <1>2, <1>5 DEF Unfolds
<1> DEFINE T == {j \in Nat : j < N => Doubles(j, s, t, u)}
<1>9. ASSUME NEW j \in Nat, \A m \in Nat : m < j => m \in T, j < N PROVE Doubles(j, s, t, u)
  <2>1. CASE j = 0
    <3>1. t[1] = t[0] ** (u ** u)
      <4>1. 1 \in 1 .. 2^(k + 1) - 1
        BY <1>6
      <4>2. t[1] = t[1 - 2^LeadingBit(1)]
                     ** (ws[(k + 1) - LeadingBit(1)] ** ws[(k + 1) - LeadingBit(1)])
        BY <1>2, <4>1 DEF Unfolds
      <4>3. 1 - 2^LeadingBit(1) = 0 /\ (k + 1) - LeadingBit(1) = k + 1
        <5>1. 2^LeadingBit(1) = 1
          BY LeadingBitOfOne, PowerOfTwoZero, Zenon
        <5> QED BY <5>1, LeadingBitOfOne
      <4> QED BY <1>7, <4>2, <4>3, Zenon
    <3>2. e ** x = e ** x /\ e ** u \in Scalar /\ e ** x \in Scalar
      BY ScalarClosed
    <3>3. (e ** x) ** (u ** u) = e ** u
      <4>1. (e ** x) ** (u ** u) = (e ** u) ** (x ** u)
        BY MulInterchanges
      <4>2. (e ** u) ** 1 = e ** u
        BY <3>2, Units
      <4> QED BY <1>4, <4>1, <4>2
    <3>4. 2 * j = 0 /\ 2 * j + 1 = 1
      BY <2>1
    <3> QED BY <1>4, <1>8, <2>1, <3>1, <3>3, <3>4 DEF Doubles
  <2>2. CASE j # 0
    <3>1. j \in Nat \ {0}
      BY <2>2
    <3>2. PICK l \in Nat : l = LeadingBit(j) /\ l \in 0..(k - 1)
                              /\ j - 2^l \in 0..(j - 1)
      <4>1. j < 2^k
        BY <1>6, <1>9
      <4> QED BY <3>1, <4>1, LeadingBitBelow, LeadingBitIs
    <3>3. PICK p \in Nat : p = 2^l /\ 2^(l + 1) = 2 * p
      BY PowerOfTwoType, PowerOfTwoNext
    <3>4. PICK m \in Nat : m = j - p /\ m < j /\ m < N
      BY <1>9, <3>2, <3>3
    <3>5. Doubles(m, s, t, u)
      BY <1>9, <3>4
    <3>6. PICK y \in Scalar : y = us[k - l]
      BY <3>2 DEF Usable, Vec
    <3>7. PICK z \in Scalar : z = y ** y
      BY ScalarClosed
    <3>8. s[j] = s[m] ** z
      <4>1. j \in 1 .. 2^k - 1
        BY <1>6, <1>9, <3>1
      <4>2. s[j] = s[j - 2^l] ** (us[k - l] ** us[k - l])
        BY <1>1, <3>2, <4>1 DEF Unfolds
      <4> QED BY <3>3, <3>4, <3>6, <3>7, <4>2
    <3>9. ASSUME NEW b \in {0, 1} PROVE t[2 * j + b] = t[2 * m + b] ** z
      <4>1. LeadingBit(2 * j + b) = l + 1
        BY <3>1, <3>2, LeadingBitOfTwice
      <4>2. 2 * j + b \in 1 .. 2^(k + 1) - 1
        BY <1>6, <1>9, <3>1
      <4>3. PICK i \in Nat : i = 2 * j + b
        BY <3>1
      <4>4. t[i] = t[i - 2^LeadingBit(i)]
                     ** (ws[(k + 1) - LeadingBit(i)] ** ws[(k + 1) - LeadingBit(i)])
        BY <1>2, <4>2, <4>3 DEF Unfolds
      <4>5. i - 2^LeadingBit(i) = 2 * m + b
        <5>1. 2^LeadingBit(i) = 2 * p
          BY <3>3, <4>1, <4>3, Zenon
        <5> QED BY <3>4, <4>3, <5>1
      <4>6. (k + 1) - LeadingBit(i) = k - l
        BY <3>2, <4>1, <4>3
      <4>7. ws[k - l] = y
        BY <1>7, <3>2, <3>6
      <4> QED BY <3>7, <4>3, <4>4, <4>5, <4>6, <4>7
    <3>10. PICK r \in Scalar : r = s[m]
      BY <1>6, <3>4 DEF Unfolded
    <3>11. /\ t[2 * j + 0] = t[2 * m + 0] ** z
           /\ t[2 * j + 1] = t[2 * m + 1] ** z
      BY <3>9
    <3>12. t[2 * j] = t[2 * m] ** z
      BY <3>4, <3>11
    <3>13. t[2 * m] = r ** x /\ t[2 * m + 1] = r ** u
      BY <1>4, <3>5, <3>10 DEF Doubles
    <3>14. \A q \in Scalar : (r ** q) ** z = (r ** z) ** q
      BY MulAssociates, MulCommutes, ScalarClosed
    <3> QED BY <1>4, <3>8, <3>10, <3>11, <3>12, <3>13, <3>14 DEF Doubles
  <2> QED BY <2>1, <2>2
<1>10. \A j \in Nat : j \in T
  <2>1. ASSUME NEW j \in Nat, \A m \in Nat : m < j => m \in T PROVE j \in T
    BY <1>9, <2>1
  <2> HIDE DEF T
  <2> QED BY <2>1, StrongInduction
<1> QED BY <1>6, <1>10

\* The vectors themselves, read forwards and backwards.
Entwines(x, y, n, s, t) ==
    \A i \in 1..n : y[2 * i - 1] = x[i] ** s /\ y[2 * i] = x[i] ** t

\* So the vector of the scalars after one more round entwines two multiples of the
\* vector before it, and so does the vector read backwards.
LEMMA SVectorStep ==
  ASSUME NEW k \in Nat, NEW us, Usable(us, k), NEW u \in Scalar \ {0}, NEW ws,
         Longer(ws, us, u)
  PROVE  /\ SVector(us) \in Vec(2^k) /\ SVector(ws) \in Vec(2 * 2^k)
         /\ Reversed(SVector(us)) \in Vec(2^k) /\ Reversed(SVector(ws)) \in Vec(2 * 2^k)
         /\ Entwines(SVector(us), SVector(ws), 2^k, Invert(u), u)
         /\ Entwines(Reversed(SVector(us)), Reversed(SVector(ws)), 2^k, u, Invert(u))
<1>1. PICK N \in Nat : N = 2^k /\ 2^(k + 1) = 2 * N /\ 1 <= N
  <2>1. PICK m \in Nat : m = 2^k /\ 1 <= m
    BY PowerOfTwoType, PowerOfTwoGrows
  <2>2. 2^(k + 1) = 2 * 2^k
    BY PowerOfTwoNext
  <2> QED BY <2>1, <2>2
<1>2. PICK s : Unfolded(s, k, us) /\ SVector(us) = [i \in 1 .. 2^k |-> s[i - 1]]
  BY SVectorOf
<1>3. Usable(ws, k + 1) /\ k + 1 \in Nat
  BY DrawnLonger
<1>4. PICK t : Unfolded(t, k + 1, ws) /\ SVector(ws) = [i \in 1 .. 2^(k + 1) |-> t[i - 1]]
  BY <1>3, SVectorOf, ZenonT(40)
<1>5. PICK a : a = SVector(us)
  OBVIOUS
<1>6. PICK b : b = SVector(ws)
  OBVIOUS
<1>7. a \in Vec(N) /\ \A i \in 1..N : a[i] = s[i - 1]
  BY <1>1, <1>2, <1>5 DEF Unfolded, Vec
<1>8. b \in Vec(2 * N) /\ \A i \in 1 .. 2 * N : b[i] = t[i - 1]
  BY <1>1, <1>4, <1>6 DEF Unfolded, Vec
<1>9. \A j \in Nat : j < N => Doubles(j, s, t, u)
  BY <1>1, <1>2, <1>4, UnfoldsOnce
<1>10. ASSUME NEW i \in 1..N
       PROVE  b[2 * i - 1] = a[i] ** Invert(u) /\ b[2 * i] = a[i] ** u
  <2>1. PICK j \in Nat : j = i - 1 /\ j < N /\ 2 * i - 1 \in 1 .. 2 * N /\ 2 * i \in 1 .. 2 * N
                            /\ (2 * i - 1) - 1 = 2 * j /\ 2 * i - 1 = 2 * j + 1
    OBVIOUS
  <2>2. Doubles(j, s, t, u)
    BY <1>9, <2>1
  <2>3. b[2 * i - 1] = t[2 * j] /\ b[2 * i] = t[2 * j + 1] /\ a[i] = s[j]
    BY <1>7, <1>8, <2>1
  <2> QED BY <2>2, <2>3 DEF Doubles
<1>11. PICK ra : ra = Reversed(a)
  OBVIOUS
<1>12. PICK rb : rb = Reversed(b)
  OBVIOUS
<1>13. ra \in Vec(N) /\ \A i \in 1..N : ra[i] = a[N + 1 - i]
  BY <1>7, <1>11 DEF Reversed, Vec
<1>14. rb \in Vec(2 * N) /\ \A i \in 1 .. 2 * N : rb[i] = b[2 * N + 1 - i]
  BY <1>8, <1>12 DEF Reversed, Vec
<1>15. ASSUME NEW i \in 1..N
       PROVE  rb[2 * i - 1] = ra[i] ** u /\ rb[2 * i] = ra[i] ** Invert(u)
  <2>1. PICK j \in 1..N : j = N + 1 - i /\ 2 * N + 1 - (2 * i - 1) = 2 * j
                             /\ 2 * N + 1 - 2 * i = 2 * j - 1
                             /\ 2 * i - 1 \in 1 .. 2 * N /\ 2 * i \in 1 .. 2 * N
    OBVIOUS
  <2>2. ra[i] = a[j] /\ rb[2 * i - 1] = b[2 * j] /\ rb[2 * i] = b[2 * j - 1]
    BY <1>13, <1>14, <2>1
  <2> QED BY <1>10, <2>1, <2>2
<1>16. Entwines(a, b, N, Invert(u), u) /\ Entwines(ra, rb, N, u, Invert(u))
  BY <1>10, <1>15 DEF Entwines
<1> QED BY <1>1, <1>5, <1>6, <1>7, <1>8, <1>11, <1>12, <1>13, <1>14, <1>16

\* The scalars for k challenges are 2^k.
LEMMA SVectorType ==
  ASSUME NEW k \in Nat, NEW us, Usable(us, k)
  PROVE  SVector(us) \in Vec(2^k) /\ Reversed(SVector(us)) \in Vec(2^k)
<1>1. PICK ws : Longer(ws, us, 1)
  BY DEF Longer
<1>2. 1 \in Scalar \ {0}
  BY ScalarClosed
<1> QED BY <1>1, <1>2, SVectorStep

-----------------------------------------------------------------------------
(* The generators: every w-th of them folds into one.                      *)

\* Every w-th entry of X from the j-th, weighted with x.
Strided(x, X, w, n, j) == [t \in 1..n |-> x[t] ** X[j + (t - 1) * w]]

\* The w entries of Y are the sums of every w-th entry of X weighted with x.
FoldsBy(x, X, w, n, Y) == \A j \in 1..w : Y[j] = SumOf(Strided(x, X, w, n, j))

\* Multiplication by a number keeps the order.
LEMMA TimesGrows ==
  ASSUME NEW w \in Nat, NEW a \in Nat, NEW b \in Nat, a <= b
  PROVE  a * w <= b * w
<1>1. PICK d \in Nat : d = b - a /\ b = a + d
  <2>1. b - a \in Nat /\ b = a + (b - a)
    OBVIOUS
  <2> QED BY <2>1
<1>2. b * w = a * w + d * w
  BY <1>1
<1>3. d * w \in Nat /\ a * w \in Nat
  BY SMT
<1> QED BY <1>2, <1>3

\* An index that takes every w-th entry stays within the vector.
LEMMA StridedIndex ==
  ASSUME NEW w \in Nat, NEW n \in Nat, NEW j \in 1..w, NEW t \in 1..n
  PROVE  j + (t - 1) * w \in 1 .. w * n
<1>1. PICK a \in Nat : a = t - 1 /\ a + 1 <= n
  <2>1. t - 1 \in Nat /\ (t - 1) + 1 <= n
    OBVIOUS
  <2> QED BY <2>1
<1>2. (a + 1) * w <= n * w
  <2>1. a + 1 \in Nat
    OBVIOUS
  <2> QED BY <1>1, <2>1, TimesGrows
<1>3. (a + 1) * w = a * w + w /\ n * w = w * n /\ a * w \in Nat /\ w * n \in Nat
  BY SMT
<1>4. PICK p \in Nat : p = a * w
  BY <1>3
<1>5. PICK q \in Nat : q = w * n
  BY <1>3
<1>6. p + w <= q
  BY <1>2, <1>3, <1>4, <1>5
<1>7. j + p \in 1..q
  BY <1>6
<1> QED BY <1>1, <1>4, <1>5, <1>7

\* Every w-th entry of a vector, weighted.
LEMMA StridedType ==
  ASSUME NEW w \in Nat, NEW n \in Nat, NEW x \in Vec(n), NEW X \in Vec(w * n), NEW j \in 1..w
  PROVE  /\ Strided(x, X, w, n, j) \in Vec(n)
         /\ \A t \in 1..n : Strided(x, X, w, n, j)[t] = x[t] ** X[j + (t - 1) * w]
<1>1. ASSUME NEW t \in 1..n PROVE x[t] ** X[j + (t - 1) * w] \in Scalar
  <2>1. j + (t - 1) * w \in 1 .. w * n
    BY StridedIndex
  <2>2. PICK i \in 1 .. w * n : i = j + (t - 1) * w
    BY <2>1
  <2>3. X[i] \in Scalar /\ x[t] \in Scalar
    BY DEF Vec
  <2> QED BY <2>2, <2>3, ScalarClosed
<1>2. Strided(x, X, w, n, j) = [t \in 1..n |-> x[t] ** X[j + (t - 1) * w]]
  BY DEF Strided
<1> QED BY <1>1, <1>2, Zenon DEF Vec

\* A round folds the generators two by two, and the weights entwine.
LEMMA FoldsByStep ==
  ASSUME NEW h \in Nat, NEW n \in Nat, NEW s \in Scalar, NEW r \in Scalar,
         NEW x \in Vec(n), NEW y \in Vec(2 * n), Entwines(x, y, n, s, r),
         NEW X, X \in Vec((2 * h) * n),
         NEW Y \in Vec(2 * h), FoldsBy(x, X, 2 * h, n, Y),
         NEW Z \in Vec(h), FoldsTo(Y, h, s, r, Z)
  PROVE  FoldsBy(y, X, h, 2 * n, Z)
<1> SUFFICES ASSUME NEW j \in 1..h PROVE Z[j] = SumOf(Strided(y, X, h, 2 * n, j))
  BY DEF FoldsBy
<1>1. PICK w \in Nat : w = 2 * h
  OBVIOUS
<1>2. PICK m \in Nat : m = 2 * n
  OBVIOUS
<1>3. X \in Vec(w * n) /\ X \in Vec(h * m)
  <2>1. (2 * h) * n = h * (2 * n)
    OBVIOUS
  <2> QED BY <1>1, <1>2, <2>1
<1>4. j \in 1..w /\ h + j \in 1..w
  BY <1>1
<1>5. PICK a \in Vec(n) : a = Strided(x, X, w, n, j)
  BY <1>3, <1>4, StridedType
<1>6. PICK b \in Vec(n) : b = Strided(x, X, w, n, h + j)
  BY <1>3, <1>4, StridedType
<1>7. PICK c \in Vec(2 * n) : c = Strided(y, X, h, m, j)
  BY <1>2, <1>3, StridedType
<1>8. \A t \in 1..n : a[t] = x[t] ** X[j + (t - 1) * w]
  BY <1>3, <1>4, <1>5, StridedType
<1>9. \A t \in 1..n : b[t] = x[t] ** X[(h + j) + (t - 1) * w]
  BY <1>3, <1>4, <1>6, StridedType
<1>10. \A t \in 1..m : c[t] = y[t] ** X[j + (t - 1) * h]
  BY <1>2, <1>3, <1>7, StridedType
<1>11. PICK sa \in Vec(n) : sa = [t \in 1..n |-> s ** a[t]]
  <2>1. \A t \in 1..n : s ** a[t] \in Scalar
    BY ScalarClosed DEF Vec
  <2> QED BY <2>1 DEF Vec
<1>12. PICK rb \in Vec(n) : rb = [t \in 1..n |-> r ** b[t]]
  <2>1. \A t \in 1..n : r ** b[t] \in Scalar
    BY ScalarClosed DEF Vec
  <2> QED BY <2>1 DEF Vec
<1>13. ASSUME NEW t \in 1..n PROVE c[2 * t - 1] = sa[t] /\ c[2 * t] = rb[t]
  <2>1. 2 * t - 1 \in 1..m /\ 2 * t \in 1..m
    BY <1>2
  <2>2. /\ y[2 * t - 1] = x[t] ** s /\ y[2 * t] = x[t] ** r
    BY DEF Entwines
  <2>3. /\ j + ((2 * t - 1) - 1) * h = j + (t - 1) * w
        /\ j + (2 * t - 1) * h = (h + j) + (t - 1) * w
    <3>1. PICK q \in Nat : q = t - 1 /\ t = q + 1
      <4>1. t - 1 \in Nat /\ t = (t - 1) + 1
        OBVIOUS
      <4> QED BY <4>1
    <3>2. (2 * t - 1) - 1 = 2 * q /\ 2 * t - 1 = 2 * q + 1
      BY <3>1
    <3>3. (2 * q) * h = q * (2 * h) /\ (2 * q + 1) * h = h + q * (2 * h)
      BY SMT
    <3>4. PICK z \in Nat : z = q * (2 * h)
      BY SMT
    <3> QED BY <1>1, <3>1, <3>2, <3>3, <3>4
  <2>4. c[2 * t - 1] = y[2 * t - 1] ** X[j + (t - 1) * w]
    BY <1>10, <2>1, <2>3
  <2>5. c[2 * t] = y[2 * t] ** X[(h + j) + (t - 1) * w]
    BY <1>10, <2>1, <2>3
  <2>6. PICK X1 \in Scalar : X1 = X[j + (t - 1) * w]
    <3>1. PICK i \in 1 .. w * n : i = j + (t - 1) * w
      BY <1>4, StridedIndex
    <3> QED BY <1>3, <3>1 DEF Vec
  <2>7. PICK X2 \in Scalar : X2 = X[(h + j) + (t - 1) * w]
    <3>1. PICK i \in 1 .. w * n : i = (h + j) + (t - 1) * w
      BY <1>4, StridedIndex
    <3> QED BY <1>3, <3>1 DEF Vec
  <2>8. PICK xt \in Scalar : xt = x[t]
    BY DEF Vec
  <2>9. (xt ** s) ** X1 = s ** (xt ** X1) /\ (xt ** r) ** X2 = r ** (xt ** X2)
    BY MulAssociates, MulCommutes
  <2>10. sa[t] = s ** (xt ** X1) /\ rb[t] = r ** (xt ** X2)
    BY <1>8, <1>9, <1>11, <1>12, <2>6, <2>7, <2>8
  <2> QED BY <2>2, <2>4, <2>5, <2>6, <2>7, <2>8, <2>9, <2>10
<1>14. SumOf(c) = SumOf(sa) ++ SumOf(rb)
  BY <1>13, SumPairs
<1>15. SumOf(sa) = s ** SumOf(a)
  <2>1. \A t \in 1..n : sa[t] = s ** a[t]
    BY <1>11
  <2> QED BY <2>1, SumScale
<1>16. SumOf(rb) = r ** SumOf(b)
  <2>1. \A t \in 1..n : rb[t] = r ** b[t]
    BY <1>12
  <2> QED BY <2>1, SumScale
<1>17. Y[j] = SumOf(a) /\ Y[h + j] = SumOf(b)
  <2>1. \A i \in 1..w : Y[i] = SumOf(Strided(x, X, w, n, i))
    BY <1>1 DEF FoldsBy
  <2> QED BY <1>4, <1>5, <1>6, <2>1
<1>18. Z[j] = s ** Y[j] ++ r ** Y[h + j]
  BY DEF FoldsTo
<1> QED BY <1>2, <1>7, <1>14, <1>15, <1>16, <1>17, <1>18

\* Before the first round the only scalar is one.
LEMMA SVectorOfNone ==
  ASSUME NEW us, Usable(us, 0)
  PROVE  /\ SVector(us) \in Vec(1) /\ Reversed(SVector(us)) \in Vec(1)
         /\ SVector(us)[1] = 1 /\ Reversed(SVector(us))[1] = 1
<1>1. PICK s : Unfolded(s, 0, us) /\ SVector(us) = [i \in 1 .. 2^0 |-> s[i - 1]]
  BY SVectorOf
<1>2. PICK c \in Scalar : IsProd(c, us, 0) /\ Unfolds(s, 0, us, c)
  BY <1>1 DEF Unfolded
<1>3. c = 1
  BY <1>2 DEF IsProd, Prods
<1>4. Invert(1) = 1 /\ 1 \in Scalar
  <2>1. 1 \in Scalar /\ 1 \in Scalar \ {0}
    BY ScalarClosed
  <2>2. 1 ** 1 = 1
    BY <2>1, Units
  <2> QED BY <2>1, <2>2, InverseUnique
<1>5. s[0] = 1
  BY <1>2, <1>3, <1>4 DEF Unfolds
<1>6. PICK a : a = SVector(us)
  OBVIOUS
<1>7. PICK n \in Nat : n = 1 /\ 2^0 = n
  BY PowerOfTwoZero
<1>8. a = [i \in 1..n |-> s[i - 1]]
  BY <1>1, <1>6, <1>7, Zenon
<1>9. \A i \in 1..n : i = 1 /\ i - 1 = 0
  BY <1>7
<1>10. a \in Vec(n) /\ a[1] = 1 /\ Len(a) = n
  <2>1. \A i \in 1..n : s[i - 1] \in Scalar
    BY <1>4, <1>5, <1>9
  <2>2. a \in [1..n -> Scalar]
    BY <1>8, <2>1
  <2>3. 1 \in 1..n /\ 1 - 1 = 0
    BY <1>7
  <2>4. a[1] = s[1 - 1]
    BY <1>8, <2>3, Zenon
  <2> QED BY <1>5, <2>2, <2>3, <2>4 DEF Vec
<1>11. PICK r : r = Reversed(a)
  OBVIOUS
<1>12. r = [i \in 1..n |-> a[n + 1 - i]]
  BY <1>10, <1>11 DEF Reversed, Vec
<1>13. \A i \in 1..n : n + 1 - i = 1
  BY <1>7
<1>14. r \in Vec(n) /\ r[1] = 1
  BY <1>4, <1>7, <1>10, <1>12, <1>13 DEF Vec
<1> QED BY <1>6, <1>7, <1>10, <1>11, <1>14

\* At the start every generator weighs one.
LEMMA FoldsByStart ==
  ASSUME NEW w \in Nat, NEW X \in Vec(w), NEW x \in Vec(1), x[1] = 1
  PROVE  FoldsBy(x, X, w, 1, X)
<1> SUFFICES ASSUME NEW j \in 1..w PROVE X[j] = SumOf(Strided(x, X, w, 1, j))
  BY DEF FoldsBy
<1>1. PICK n \in Nat : n = 1 /\ w * n = w
  OBVIOUS
<1>2. PICK a \in Vec(n) : a = Strided(x, X, w, n, j)
  BY <1>1, StridedType
<1>3. a[1] = x[1] ** X[j + (1 - 1) * w]
  <2>1. 1 \in 1..n
    BY <1>1
  <2> QED BY <1>1, <1>2, <2>1, StridedType
<1>4. j + (1 - 1) * w = j
  OBVIOUS
<1>5. PICK e \in Scalar : e = X[j]
  BY DEF Vec
<1>6. a[1] = e
  BY <1>3, <1>4, <1>5, Units
<1>7. SumOf(a) = a[1]
  BY <1>1, <1>2, SumOfOne
<1> QED BY <1>1, <1>2, <1>5, <1>6, <1>7

\* At the end the single entry left is the weighted sum of all.
LEMMA FoldsByEnd ==
  ASSUME NEW n \in Nat, NEW x \in Vec(n), NEW X \in Vec(n), NEW Y \in Vec(1),
         FoldsBy(x, X, 1, n, Y)
  PROVE  Y[1] = Dot(x, X)
<1>1. PICK w \in Nat : w = 1 /\ w * n = n
  OBVIOUS
<1>2. 1 \in 1..w
  BY <1>1
<1>0. PICK j \in 1..w : j = 1
  BY <1>2
<1>3. PICK a \in Vec(n) : /\ a = Strided(x, X, w, n, 1)
                          /\ \A t \in 1..n : a[t] = x[t] ** X[j + (t - 1) * w]
  <2>1. X \in Vec(w * n)
    BY <1>1
  <2>2. /\ Strided(x, X, w, n, j) \in Vec(n)
        /\ \A t \in 1..n : Strided(x, X, w, n, j)[t] = x[t] ** X[j + (t - 1) * w]
    BY <2>1, StridedType
  <2> QED BY <1>0, <2>2
<1>4. Y[1] = SumOf(a)
  BY <1>1, <1>2, <1>3 DEF FoldsBy
<1>5. Times(x, X) \in Vec(n) /\ \A i \in 1..n : Times(x, X)[i] = x[i] ** X[i]
  BY TimesType
<1>6. ASSUME NEW t \in 1..n PROVE a[t] = Times(x, X)[t]
  <2>1. a[t] = x[t] ** X[1 + (t - 1) * w]
    BY <1>0, <1>3
  <2>2. 1 + (t - 1) * w = t
    BY <1>1
  <2> QED BY <1>5, <2>1, <2>2
<1>7. a = Times(x, X)
  BY <1>5, <1>6, VecExtensional
<1> QED BY <1>4, <1>7 DEF Dot

-----------------------------------------------------------------------------
(* What a round adds to the transcript.                                    *)

\* Two entries are appended one by one, and so are three.
LEMMA OneByOne ==
  ASSUME NEW s, IsSequence(s), NEW a, NEW b, NEW c
  PROVE  /\ s \o <<a, b>> = Append(Append(s, a), b)
         /\ s \o <<a, b, c>> = Append(Append(Append(s, a), b), c)
<1>1. PICK S : s \in Seq(S)
  BY DEF IsSequence
<1>2. PICK U : S \subseteq U /\ a \in U /\ b \in U /\ c \in U
  <2>1. S \subseteq S \cup {a, b, c}
    OBVIOUS
  <2> QED BY <2>1
<1>3. s \in Seq(U)
  BY <1>1, <1>2
<1>4. \A x \in U : Append(s, x) \in Seq(U)
  BY <1>3
<1>5. s \o <<a, b>> = Append(Append(s, a), b)
  BY <1>2, <1>3
<1>6. s \o <<a, b, c>> = Append(Append(Append(s, a), b), c)
  BY <1>2, <1>3
<1> QED BY <1>5, <1>6

\* A round of the argument is one challenge more.
LEMMA ChallengesOfRound ==
  ASSUME NEW t, IsSequence(t), NEW L, NEW R, NEW u, NEW r,
         r = t \o <<<<"L", L>>, <<"R", R>>, <<"u", u>>>>
  PROVE  IsSequence(r) /\ Longer(ChallengesOf(r, "u"), ChallengesOf(t, "u"), u)
<1>1. PICK a : a = <<"L", L>>
  OBVIOUS
<1>2. PICK b : b = <<"R", R>>
  OBVIOUS
<1>3. PICK c : c = <<"u", u>>
  OBVIOUS
<1>4. a[1] # "u" /\ b[1] # "u" /\ c[1] = "u" /\ c[2] = u
  BY <1>1, <1>2, <1>3
<1>5. PICK t1 : Longer(t1, t, a)
  BY DEF Longer
<1>6. PICK t2 : Longer(t2, t1, b)
  BY DEF Longer
<1>7. PICK t3 : Longer(t3, t2, c)
  BY DEF Longer
<1>8. r = t3
  <2>1. t \o <<a, b, c>> = Append(Append(Append(t, a), b), c)
    BY OneByOne
  <2> QED BY <1>1, <1>2, <1>3, <1>5, <1>6, <1>7, <2>1 DEF Longer
<1>9. IsSequence(t1) /\ ChallengesOf(t1, "u") = ChallengesOf(t, "u")
  BY <1>4, <1>5, ChallengesAppend
<1>10. IsSequence(t2) /\ ChallengesOf(t2, "u") = ChallengesOf(t1, "u")
  BY <1>4, <1>6, <1>9, ChallengesAppend
<1>11. IsSequence(t3) /\ Longer(ChallengesOf(t3, "u"), ChallengesOf(t2, "u"), u)
  BY <1>4, <1>7, <1>10, ChallengesAppend
<1> QED BY <1>8, <1>9, <1>10, <1>11

\* Its domain separator is none.
LEMMA ChallengesAtStart ==
  ASSUME NEW t, IsSequence(t), NEW n
  PROVE  /\ IsSequence(innerproduct_domain_sep(t, n))
         /\ ChallengesOf(innerproduct_domain_sep(t, n), "u") = ChallengesOf(t, "u")
<1>1. PICK a : a = <<"dom-sep", "ipp v1">>
  OBVIOUS
<1>2. PICK b : b = <<"n", n>>
  OBVIOUS
<1>3. a[1] # "u" /\ b[1] # "u"
  BY <1>1, <1>2
<1>4. PICK t1 : Longer(t1, t, a)
  BY DEF Longer
<1>5. PICK t2 : Longer(t2, t1, b)
  BY DEF Longer
<1>6. innerproduct_domain_sep(t, n) = t2
  <2>1. t \o <<a, b>> = Append(Append(t, a), b)
    BY OneByOne
  <2> QED BY <1>1, <1>2, <1>4, <1>5, <2>1 DEF Longer, innerproduct_domain_sep
<1>7. IsSequence(t1) /\ ChallengesOf(t1, "u") = ChallengesOf(t, "u")
  BY <1>3, <1>4, ChallengesAppend
<1>8. IsSequence(t2) /\ ChallengesOf(t2, "u") = ChallengesOf(t1, "u")
  BY <1>3, <1>5, <1>7, ChallengesAppend
<1> QED BY <1>6, <1>7, <1>8

-----------------------------------------------------------------------------
(* The invariant of create's loop, its start and its step.                 *)

\* The transcript is the domain separator and three entries for every round.
Recorded(s, us, k, n) ==
    /\ Len(s.transcript) = 2 + 3 * k
    /\ s.transcript[1] = <<"dom-sep", "ipp v1">> /\ s.transcript[2] = <<"n", n>>
    /\ \A i \in 1..k : /\ s.transcript[3 * i] = <<"L", s.L_vec[i]>>
                       /\ s.transcript[3 * i + 1] = <<"R", s.R_vec[i]>>
                       /\ s.transcript[3 * i + 2] = <<"u", us[i]>>

\* The scalars the verifier computes turn the n generators of v into those of r.
GeneratorsFold(v, us, n, w, r) ==
    \A g \in Generator :
        /\ FoldsBy(SVector(us), At(v.gf, v.G, g), w, n, At(r.gf, r.G, g))
        /\ FoldsBy(Reversed(SVector(us)), At(v.hf, v.H, g), w, n, At(r.hf, r.H, g))

\* What the loop of create keeps: w entries are left of the w * 2^k there were.
KeptBy(s, v, Qp, us, k, w) ==
    /\ Usable(us, k) /\ w \in Nat
    /\ WellFormed(s.v, w) /\ WellFormed(v, w * 2^k)
    /\ s.L_vec \in PointVec(k) /\ s.R_vec \in PointVec(k)
    /\ KeepsClaim(s, v, Qp, us)
    /\ GeneratorsFold(v, us, 2^k, w, s.v)
    /\ Recorded(s, us, k, w * 2^k)

\* Before the first round nothing is folded.
LEMMA GeneratorsStart ==
  ASSUME NEW w \in Nat, NEW v, WellFormed(v, w), NEW us, Usable(us, 0)
  PROVE  GeneratorsFold(v, us, 1, w, v)
<1> SUFFICES ASSUME NEW g \in Generator
             PROVE  /\ FoldsBy(SVector(us), At(v.gf, v.G, g), w, 1, At(v.gf, v.G, g))
                    /\ FoldsBy(Reversed(SVector(us)), At(v.hf, v.H, g), w, 1,
                               At(v.hf, v.H, g))
  BY DEF GeneratorsFold
<1>1. At(v.gf, v.G, g) \in Vec(w) /\ At(v.hf, v.H, g) \in Vec(w)
  BY AtType DEF WellFormed
<1>2. /\ SVector(us) \in Vec(1) /\ Reversed(SVector(us)) \in Vec(1)
      /\ SVector(us)[1] = 1 /\ Reversed(SVector(us))[1] = 1
  BY SVectorOfNone
<1> QED BY <1>1, <1>2, FoldsByStart

\* A round folds the generators once more, by the scalars with one challenge more.
LEMMA GeneratorsStep ==
  ASSUME NEW k \in Nat, NEW h \in Nat, NEW us, Usable(us, k), NEW u \in Scalar \ {0}, NEW ws,
         Longer(ws, us, u), NEW v, WellFormed(v, (2 * h) * 2^k), NEW x, WellFormed(x, 2 * h),
         GeneratorsFold(v, us, 2^k, 2 * h, x), NEW r, r = Fold(x, u)
  PROVE  GeneratorsFold(v, ws, 2 * 2^k, h, r)
<1> SUFFICES ASSUME NEW g \in Generator
             PROVE  /\ FoldsBy(SVector(ws), At(v.gf, v.G, g), h, 2 * 2^k, At(r.gf, r.G, g))
                    /\ FoldsBy(Reversed(SVector(ws)), At(v.hf, v.H, g), h, 2 * 2^k,
                               At(r.hf, r.H, g))
  BY DEF GeneratorsFold
<1>1. PICK n \in Nat : n = 2^k
  BY PowerOfTwoType
<1>2. PICK m \in Nat : m = (2 * h) * n
  BY SMT
<1>3. PICK i \in Scalar : i = Invert(u)
  BY Inverses
<1>4. PICK X \in Vec(m) : X = At(v.gf, v.G, g)
  <2>1. v.gf \in Vec(m) /\ v.G \in PointVec(m)
    BY <1>1, <1>2 DEF WellFormed
  <2> QED BY <2>1, AtType
<1>5. PICK Y \in Vec(m) : Y = At(v.hf, v.H, g)
  <2>1. v.hf \in Vec(m) /\ v.H \in PointVec(m)
    BY <1>1, <1>2 DEF WellFormed
  <2> QED BY <2>1, AtType
<1>6. PICK l \in Nat : l = 2 * h
  OBVIOUS
<1>7. PICK x1 \in Vec(l) : x1 = At(x.gf, x.G, g)
  BY <1>6, AtType DEF WellFormed
<1>8. PICK y1 \in Vec(l) : y1 = At(x.hf, x.H, g)
  BY <1>6, AtType DEF WellFormed
<1>9. WellFormed(r, h)
      /\ FoldsTo(x1, h, i, u, At(r.gf, r.G, g)) /\ FoldsTo(y1, h, u, i, At(r.hf, r.H, g))
  BY <1>3, <1>7, <1>8, FoldIs
<1>10. PICK x2 \in Vec(h) : x2 = At(r.gf, r.G, g)
  BY <1>9, AtType DEF WellFormed
<1>11. PICK y2 \in Vec(h) : y2 = At(r.hf, r.H, g)
  BY <1>9, AtType DEF WellFormed
<1>12. PICK s1 \in Vec(n) : s1 = SVector(us)
  BY <1>1, SVectorStep
<1>13. PICK s2 \in Vec(2 * n) : s2 = SVector(ws)
  BY <1>1, SVectorStep
<1>14. PICK r1 \in Vec(n) : r1 = Reversed(SVector(us))
  BY <1>1, SVectorStep
<1>15. PICK r2 \in Vec(2 * n) : r2 = Reversed(SVector(ws))
  BY <1>1, SVectorStep
<1>16. Entwines(s1, s2, n, i, u) /\ Entwines(r1, r2, n, u, i)
  BY <1>1, <1>3, <1>12, <1>13, <1>14, <1>15, SVectorStep
<1>17. FoldsBy(s1, X, 2 * h, n, x1) /\ FoldsBy(r1, Y, 2 * h, n, y1)
  BY <1>1, <1>4, <1>5, <1>7, <1>8, <1>12, <1>14 DEF GeneratorsFold
<1>18. /\ u \in Scalar /\ X \in Vec((2 * h) * n) /\ Y \in Vec((2 * h) * n)
       /\ x1 \in Vec(2 * h) /\ y1 \in Vec(2 * h)
  BY <1>2, <1>4, <1>5, <1>6, <1>7, <1>8
<1>19. FoldsTo(x1, h, i, u, x2) /\ FoldsTo(y1, h, u, i, y2)
  BY <1>9, <1>10, <1>11
<1>20. FoldsBy(s2, X, h, 2 * n, x2)
  BY <1>16, <1>17, <1>18, <1>19, FoldsByStep
<1>21. FoldsBy(r2, Y, h, 2 * n, y2)
  BY <1>16, <1>17, <1>18, <1>19, FoldsByStep
<1> QED BY <1>1, <1>4, <1>5, <1>10, <1>11, <1>13, <1>15, <1>20, <1>21

\* Three more entries for one more round.
RecordsMore(t, q, L, R, u) == q = t \o <<<<"L", L>>, <<"R", R>>, <<"u", u>>>>

\* What a round appends to the transcript.
LEMMA ThreeMore ==
  ASSUME NEW t, IsSequence(t), NEW L, NEW R, NEW u, NEW q, RecordsMore(t, q, L, R, u)
  PROVE  /\ IsSequence(q) /\ Len(t) \in Nat /\ Len(q) = Len(t) + 3
         /\ q[Len(t) + 1] = <<"L", L>> /\ q[Len(t) + 2] = <<"R", R>>
         /\ q[Len(t) + 3] = <<"u", u>>
         /\ \A i \in 1..Len(t) : q[i] = t[i]
<1>1. PICK r : r = <<<<"L", L>>, <<"R", R>>, <<"u", u>>>>
  OBVIOUS
<1>2. IsSequence(r) /\ Len(r) = 3
  BY <1>1, TuplesAreSequences
<1>3. r[1] = <<"L", L>> /\ r[2] = <<"R", R>> /\ r[3] = <<"u", u>>
  BY <1>1
<1>4. q = t \o r
  BY <1>1 DEF RecordsMore
<1>5. /\ IsSequence(q) /\ Len(q) = Len(t) + Len(r) /\ Len(t) \in Nat
      /\ \A i \in 1..Len(t) : q[i] = t[i]
  <2>1. Extends(t, q) /\ IsSequence(q) /\ Len(q) = Len(t) + Len(r)
    BY <1>2, <1>4, ThenSequence
  <2>2. Len(t) \in Nat /\ DOMAIN t = 1..Len(t)
    BY SequenceDomain
  <2> QED BY <2>1, <2>2 DEF Extends
<1>6. q[Len(t) + 1] = r[1] /\ q[Len(t) + 2] = r[2] /\ q[Len(t) + 3] = r[3]
  <2>1. 1 \in 1..Len(r) /\ 2 \in 1..Len(r) /\ 3 \in 1..Len(r)
    BY <1>2
  <2>2. ASSUME NEW i \in 1..Len(r) PROVE q[Len(t) + i] = r[i]
    BY <1>2, <1>4, LaterElements, ZenonT(40)
  <2> QED BY <2>1, <2>2
<1> QED BY <1>2, <1>3, <1>5, <1>6, LenOfSequence

\* One round more, of which the transcript, the cross terms and the challenge are new.
RecordsRound(r, s, ws, us, k, L, R, u) ==
    /\ IsSequence(s.transcript) /\ RecordsMore(s.transcript, r.transcript, L, R, u)
    /\ \A i \in 1..k : r.L_vec[i] = s.L_vec[i] /\ r.R_vec[i] = s.R_vec[i] /\ ws[i] = us[i]
    /\ r.L_vec[k + 1] = L /\ r.R_vec[k + 1] = R /\ ws[k + 1] = u

\* The transcript of one round more records it.
LEMMA RecordedStep ==
  ASSUME NEW k \in Nat, NEW n, NEW s, NEW us, NEW r, NEW ws, NEW L, NEW R, NEW u,
         Recorded(s, us, k, n), RecordsRound(r, s, ws, us, k, L, R, u)
  PROVE  Recorded(r, ws, k + 1, n) /\ IsSequence(r.transcript)
<1>7. /\ IsSequence(s.transcript) /\ RecordsMore(s.transcript, r.transcript, L, R, u)
      /\ \A i \in 1..k : r.L_vec[i] = s.L_vec[i] /\ r.R_vec[i] = s.R_vec[i] /\ ws[i] = us[i]
      /\ r.L_vec[k + 1] = L /\ r.R_vec[k + 1] = R /\ ws[k + 1] = u
  BY DEF RecordsRound
<1>1. PICK t, q : t = s.transcript /\ q = r.transcript
  OBVIOUS
<1>2. PICK l \in Nat : l = 2 + 3 * k
  OBVIOUS
<1>3. /\ IsSequence(q) /\ Len(q) = l + 3
      /\ q[l + 1] = <<"L", L>> /\ q[l + 2] = <<"R", R>> /\ q[l + 3] = <<"u", u>>
      /\ \A i \in 1..l : q[i] = t[i]
  <2>1. Len(t) = l
    BY <1>1, <1>2 DEF Recorded
  <2> QED BY <1>1, <1>7, <2>1, ThreeMore
<1>4. q[1] = <<"dom-sep", "ipp v1">> /\ q[2] = <<"n", n>>
  <2>1. 1 \in 1..l /\ 2 \in 1..l
    BY <1>2
  <2> QED BY <1>1, <1>3, <2>1 DEF Recorded
<1>5. ASSUME NEW i \in 1..(k + 1)
      PROVE  /\ q[3 * i] = <<"L", r.L_vec[i]>> /\ q[3 * i + 1] = <<"R", r.R_vec[i]>>
             /\ q[3 * i + 2] = <<"u", ws[i]>>
  <2>1. CASE i = k + 1
    <3>1. 3 * i = l + 1 /\ 3 * i + 1 = l + 2 /\ 3 * i + 2 = l + 3
      BY <1>2, <2>1
    <3> QED BY <1>3, <1>7, <2>1, <3>1
  <2>2. CASE i \in 1..k
    <3>1. 3 * i \in 1..l /\ 3 * i + 1 \in 1..l /\ 3 * i + 2 \in 1..l
      BY <1>2, <2>2
    <3>2. /\ t[3 * i] = <<"L", s.L_vec[i]>> /\ t[3 * i + 1] = <<"R", s.R_vec[i]>>
          /\ t[3 * i + 2] = <<"u", us[i]>>
      BY <1>1, <2>2 DEF Recorded
    <3>3. q[3 * i] = t[3 * i] /\ q[3 * i + 1] = t[3 * i + 1] /\ q[3 * i + 2] = t[3 * i + 2]
      BY <1>3, <3>1
    <3> QED BY <1>7, <2>2, <3>2, <3>3
  <2> QED BY <2>1, <2>2
<1>6. Len(q) = 2 + 3 * (k + 1)
  BY <1>2, <1>3
<1> QED BY <1>1, <1>3, <1>4, <1>5, <1>6 DEF Recorded

\* One round of create, from what its loop keeps to what it keeps.
LEMMA KeptStep ==
  ASSUME NEW k \in Nat, NEW h \in Nat, NEW s, NEW v, NEW Qp \in Point, NEW us,
         KeptBy(s, v, Qp, us, k, 2 * h), IsSequence(s.transcript),
         NEW u \in Scalar \ {0}, NEW ws, Longer(ws, us, u), NEW r, r = RoundOf(s, Qp, u)
  PROVE  KeptBy(r, v, Qp, ws, k + 1, h) /\ IsSequence(r.transcript)
<1>1. PICK n \in Nat : n = 2^k /\ 2^(k + 1) = 2 * n
  BY PowerOfTwoType, PowerOfTwoNext
<1>2. PICK m \in Nat : m = (2 * h) * n /\ m = h * (2 * n)
  <2>1. (2 * h) * n \in Nat /\ (2 * h) * n = h * (2 * n)
    BY SMT
  <2> QED BY <2>1
<1>3. /\ Usable(us, k) /\ WellFormed(s.v, 2 * h) /\ WellFormed(v, m)
      /\ s.L_vec \in PointVec(k) /\ s.R_vec \in PointVec(k)
      /\ KeepsClaim(s, v, Qp, us) /\ GeneratorsFold(v, us, n, 2 * h, s.v)
      /\ Recorded(s, us, k, m)
  BY <1>1, <1>2 DEF KeptBy
<1>4. /\ KeepsClaim(r, v, Qp, ws) /\ WellFormed(r.v, h)
      /\ r.L_vec \in PointVec(k + 1) /\ r.R_vec \in PointVec(k + 1)
  BY <1>3, ClaimStep
<1>5. /\ Usable(ws, k + 1) /\ ws[k + 1] = u /\ \A i \in 1..k : ws[i] = us[i]
  BY <1>3, DrawnLonger
<1>6. GeneratorsFold(v, ws, 2 * n, h, r.v)
  <2>1. r.v = Fold(s.v, u)
    BY DEF RoundOf
  <2>2. WellFormed(v, (2 * h) * 2^k) /\ GeneratorsFold(v, us, 2^k, 2 * h, s.v)
    BY <1>1, <1>2, <1>3
  <2>3. GeneratorsFold(v, ws, 2 * 2^k, h, r.v)
    BY <1>3, <2>1, <2>2, GeneratorsStep
  <2> QED BY <1>1, <2>3
<1>7. Recorded(r, ws, k + 1, m) /\ IsSequence(r.transcript)
  <2>1. PICK L, R \in Point : L = CrossL(s.v, Qp) /\ R = CrossR(s.v, Qp)
    BY <1>3, CrossType
  <2>2. /\ RecordsMore(s.transcript, r.transcript, L, R, u)
        /\ Longer(r.L_vec, s.L_vec, L) /\ Longer(r.R_vec, s.R_vec, R)
    BY <2>1 DEF RoundOf, RecordsMore, Longer
  <2>3. r.L_vec[k + 1] = L /\ \A i \in 1..k : r.L_vec[i] = s.L_vec[i]
    BY <1>3, <2>2, AppendPointVec
  <2>4. r.R_vec[k + 1] = R /\ \A i \in 1..k : r.R_vec[i] = s.R_vec[i]
    BY <1>3, <2>2, AppendPointVec
  <2>5. \A i \in 1..k : r.L_vec[i] = s.L_vec[i] /\ r.R_vec[i] = s.R_vec[i] /\ ws[i] = us[i]
    BY <1>5, <2>3, <2>4
  <2>6. RecordsRound(r, s, ws, us, k, L, R, u)
    BY <1>5, <2>2, <2>3, <2>4, <2>5 DEF RecordsRound
  <2>7. Recorded(s, us, k, m)
    BY <1>3
  <2> QED BY <2>6, <2>7, RecordedStep, Zenon
<1> QED BY <1>1, <1>2, <1>4, <1>5, <1>6, <1>7 DEF KeptBy

\* create up to its first round.
LEMMA CreateAtOnce ==
  ASSUME NEW told, NEW Qp, NEW v
  PROVE  create(told, Qp, v, <<>>)
           = [v |-> v, L_vec |-> <<>>, R_vec |-> <<>>,
              transcript |-> innerproduct_domain_sep(told, Len(v.G))]
<1>1. PICK first : first = [v |-> v, L_vec |-> <<>>, R_vec |-> <<>>,
                            transcript |-> innerproduct_domain_sep(told, Len(v.G))]
  OBVIOUS
<1> DEFINE loop(f, k) ==
               IF k = 0 THEN [v |-> v, L_vec |-> <<>>, R_vec |-> <<>>,
                            transcript |-> innerproduct_domain_sep(told, Len(v.G))]
               ELSE LET s == f[k - 1]
                        L == CrossL(s.v, Qp)
                        R == CrossR(s.v, Qp)
                    IN  [v |-> Fold(s.v, <<>>[k]),
                         L_vec |-> Append(s.L_vec, L),
                         R_vec |-> Append(s.R_vec, R),
                         transcript |-> s.transcript \o
                             <<<<"L", L>>, <<"R", R>>, <<"u", <<>>[k]>>>>]
           after == CHOOSE f : f = [k \in 0..Len(<<>>) |-> loop(f, k)]
<1>2. create(told, Qp, v, <<>>) = after[Len(<<>>)]
  BY DEF create
<1>3. Len(<<>>) = 0
  OBVIOUS
<1>4. \A f : loop(f, 0) = first
  BY <1>1
<1>5. \E f : f = [k \in 0..Len(<<>>) |-> loop(f, k)]
  <2> HIDE DEF loop
  <2>1. PICK f : f = [k \in 0..0 |-> first]
    OBVIOUS
  <2>2. \A k \in 0..0 : loop(f, k) = first
    BY <1>4
  <2>3. f = [k \in 0..0 |-> loop(f, k)]
    BY <2>1, <2>2
  <2> QED BY <1>3, <2>3
<1>6. after = [k \in 0..Len(<<>>) |-> loop(after, k)]
  <2> HIDE DEF loop
  <2> QED BY <1>5
<1>7. after[0] = first
  <2> HIDE DEF loop, after
  <2>1. 0 \in 0..Len(<<>>)
    BY <1>3
  <2>2. after[0] = loop(after, 0)
    BY <1>6, <2>1
  <2> QED BY <1>4, <2>2
<1> QED BY <1>1, <1>2, <1>3, <1>7

\* What create starts its loop with.
LEMMA KeptStart ==
  ASSUME NEW w \in Nat, NEW v, WellFormed(v, w), NEW Qp \in Point, NEW s,
         s = create(<<>>, Qp, v, <<>>)
  PROVE  /\ KeptBy(s, v, Qp, ChallengesOf(s.transcript, "u"), 0, w)
         /\ IsSequence(s.transcript)
<1>1. /\ s.v = v /\ s.L_vec = <<>> /\ s.R_vec = <<>>
      /\ s.transcript = innerproduct_domain_sep(<<>>, Len(v.G))
  BY CreateAtOnce
<1>2. Len(v.G) = w
  BY DEF WellFormed, PointVec
<1>3. PICK t : t = s.transcript /\ t = <<<<"dom-sep", "ipp v1">>, <<"n", w>>>>
  <2>1. \A r : IsSequence(r) => <<>> \o r = r
    BY DEF IsSequence
  <2>2. IsSequence(<<<<"dom-sep", "ipp v1">>, <<"n", w>>>>)
    BY TuplesAreSequences
  <2>3. innerproduct_domain_sep(<<>>, w) = <<<<"dom-sep", "ipp v1">>, <<"n", w>>>>
    BY <2>1, <2>2 DEF innerproduct_domain_sep
  <2> QED BY <1>1, <1>2, <2>3
<1>4. PICK us : us = ChallengesOf(t, "u") /\ us = <<>>
  <2>1. ChallengesOf(<<>>, "u") = <<>> /\ IsSequence(<<>>)
    BY ChallengesOfNone
  <2>2. ChallengesOf(innerproduct_domain_sep(<<>>, w), "u") = ChallengesOf(<<>>, "u")
    BY <2>1, ChallengesAtStart
  <2>3. t = innerproduct_domain_sep(<<>>, w)
    BY <1>1, <1>2, <1>3
  <2> QED BY <2>1, <2>2, <2>3
<1>5. <<>> \in Vec(0) /\ <<>> \in PointVec(0)
  BY DEF Vec, PointVec
<1>6. Usable(us, 0)
  BY <1>4, <1>5 DEF Usable
<1>7. s.L_vec \in PointVec(0) /\ s.R_vec \in PointVec(0)
  BY <1>1, <1>5
<1>8. KeepsClaim(s, v, Qp, us)
  BY <1>1, <1>6, <1>7, ClaimStarts
<1>9. GeneratorsFold(v, us, 1, w, s.v)
  BY <1>1, <1>6, GeneratorsStart
<1>10. Recorded(s, us, 0, w)
  <2>1. t[1] = <<"dom-sep", "ipp v1">> /\ t[2] = <<"n", w>> /\ Len(t) = 2
    <3>1. PICK a, b : a = <<"dom-sep", "ipp v1">> /\ b = <<"n", w>>
      OBVIOUS
    <3>2. t = <<a, b>>
      BY <1>3, <3>1
    <3>3. t[1] = a /\ t[2] = b /\ Len(t) = 2
      BY <3>2, PairDomain, TuplesAreSequences
    <3> QED BY <3>1, <3>3
  <2>2. 2 + 3 * 0 = 2 /\ 1..0 = {}
    OBVIOUS
  <2> QED BY <1>3, <2>1, <2>2 DEF Recorded
<1>11. PICK one \in Nat : one = 1 /\ 2^0 = one /\ w * one = w
  BY PowerOfTwoZero
<1>12. KeptBy(s, v, Qp, us, 0, w)
  <2>1. WellFormed(v, w * 2^0) /\ Recorded(s, us, 0, w * 2^0)
        /\ GeneratorsFold(v, us, 2^0, w, s.v)
    BY <1>9, <1>10, <1>11
  <2> QED BY <1>1, <1>6, <1>7, <1>8, <2>1 DEF KeptBy
<1>13. IsSequence(s.transcript)
  BY <1>3, TuplesAreSequences
<1> QED BY <1>3, <1>4, <1>12, <1>13

-----------------------------------------------------------------------------
(* The verifier replays the transcript of the prover.                      *)

\* The first n entries of t.
FirstOf(t, n) == [i \in 1..n |-> t[i]]

\* To append is to concatenate one entry.
LEMMA AppendIsThen ==
  ASSUME NEW s, IsSequence(s), NEW e
  PROVE  Append(s, e) = s \o <<e>> /\ IsSequence(<<e>>) /\ Len(<<e>>) = 1 /\ <<e>>[1] = e
<1>1. PICK S : s \in Seq(S)
  BY DEF IsSequence
<1>2. PICK T : S \subseteq T /\ e \in T
  <2>1. S \subseteq S \cup {e} /\ e \in S \cup {e}
    OBVIOUS
  <2> QED BY <2>1
<1>3. s \in Seq(T) /\ <<e>> \in Seq(T)
  BY <1>1, <1>2
<1> QED BY <1>3 DEF IsSequence

\* What follows the first m entries of t.
Follows(t, m, q) == m + Len(q) <= Len(t) /\ \A i \in 1..Len(q) : q[i] = t[m + i]

\* The first entries of a sequence are a sequence.
LEMMA FirstIs ==
  ASSUME NEW t, IsSequence(t), NEW m \in Nat, m <= Len(t), NEW p, p = FirstOf(t, m)
  PROVE  IsSequence(p) /\ Len(p) = m /\ SubSeq(t, 1, m) = p
<1>1. m \in 0..Len(t)
  BY LenOfSequence
<1>2. p = [i \in 1..m |-> t[i]]
  BY DEF FirstOf
<1> QED BY <1>1, <1>2, Prefix

\* The entries that follow them make a longer start.
LEMMA FirstThen ==
  ASSUME NEW t, IsSequence(t), NEW m \in Nat, NEW q, IsSequence(q), Follows(t, m, q)
  PROVE  FirstOf(t, m) \o q = FirstOf(t, m + Len(q))
<1>1. PICK l \in Nat : l = Len(q)
  BY LenOfSequence
<1>2. m <= Len(t) /\ m + l <= Len(t) /\ \A i \in 1..l : q[i] = t[m + i]
  BY <1>1, LenOfSequence DEF Follows
<1>3. PICK p : p = FirstOf(t, m)
  OBVIOUS
<1>4. IsSequence(p) /\ Len(p) = m
  BY <1>2, <1>3, FirstIs
<1>5. PICK r : r = p \o q
  OBVIOUS
<1>6. IsSequence(r) /\ Len(r) = m + l /\ \A i \in 1..m : r[i] = p[i]
  <2>1. IsSequence(r) /\ Len(r) = Len(p) + Len(q) /\ Extends(p, r)
    BY <1>4, <1>5, ThenSequence
  <2>2. DOMAIN p = 1..m
    BY <1>4, SequenceDomain
  <2> QED BY <1>1, <1>4, <2>1, <2>2 DEF Extends
<1>7. ASSUME NEW i \in 1..l PROVE r[m + i] = q[i]
  <2>1. i \in 1..Len(q)
    BY <1>1
  <2>2. r[Len(p) + i] = q[i]
    BY <1>4, <1>5, <2>1, LaterElements
  <2> QED BY <1>4, <2>2
<1>8. ASSUME NEW i \in 1..(m + l) PROVE r[i] = t[i]
  <2>1. CASE i \in 1..m
    BY <1>3, <1>6, <2>1 DEF FirstOf
  <2>2. CASE i \notin 1..m
    <3>1. PICK j \in 1..l : m + j = i
      <4>1. i - m \in 1..l /\ m + (i - m) = i
        BY <2>2
      <4> QED BY <4>1
    <3> QED BY <1>2, <1>7, <3>1
  <2> QED BY <2>1, <2>2
<1>9. r = [i \in 1..(m + l) |-> r[i]]
  <2>1. PICK S : r \in Seq(S)
    BY <1>6 DEF IsSequence
  <2> QED BY <1>6, <2>1
<1>10. r = [i \in 1..(m + l) |-> t[i]]
  BY <1>8, <1>9
<1> QED BY <1>1, <1>3, <1>5, <1>10 DEF FirstOf

\* An entry of t, a record of a label and a value.
Holds(t, i, label, value) == t[i] = <<label, value>>

\* Two entries of the transcript that follow.
LEMMA PairFollows ==
  ASSUME NEW t, NEW m \in Nat, m + 2 <= Len(t), NEW k, NEW x, NEW l, NEW y,
         Holds(t, m + 1, k, x), Holds(t, m + 2, l, y), NEW q, q = <<<<k, x>>, <<l, y>>>>
  PROVE  IsSequence(q) /\ Len(q) = 2 /\ Follows(t, m, q)
<1>1. PICK a, b : a = <<k, x>> /\ b = <<l, y>>
  OBVIOUS
<1>2. q = <<a, b>>
  BY <1>1
<1>3. IsSequence(q) /\ Len(q) = 2 /\ q[1] = a /\ q[2] = b
  BY <1>2, TuplesAreSequences, PairDomain
<1>4. q[1] = t[m + 1] /\ q[2] = t[m + 2]
  BY <1>1, <1>3 DEF Holds
<1>5. \A i \in 1..Len(q) : i = 1 \/ i = 2
  BY <1>3
<1> QED BY <1>3, <1>4, <1>5 DEF Follows

\* One round as the verifier replays it.
Replayed(q, L, R, rest, unrelated) ==
    LET t == q \o <<<<"L", L>>, <<"R", R>>>>
    IN  Append1(t, "u", challenge_scalar(t, rest, unrelated, "u"))

\* The verifier retraces a round: it appends the cross terms of the proof and finds the
\* challenge where the prover found it.
LEMMA ReplaysOne ==
  ASSUME NEW t, IsSequence(t), NEW m \in Nat, m + 3 <= Len(t), NEW L, NEW R, NEW u,
         Holds(t, m + 1, "L", L), Holds(t, m + 2, "R", R), Holds(t, m + 3, "u", u),
         NEW unrelated
  PROVE  Replayed(FirstOf(t, m), L, R, t, unrelated) = FirstOf(t, m + 3)
<1>1. PICK n \in Nat : n = Len(t) /\ m + 2 <= n /\ m + 3 <= n
  BY LenOfSequence
<1>2. PICK q : q = <<<<"L", L>>, <<"R", R>>>>
  OBVIOUS
<1>3. IsSequence(q) /\ Len(q) = 2 /\ Follows(t, m, q)
  BY <1>1, <1>2, PairFollows
<1>4. PICK l \in Nat : l = m + 2
  OBVIOUS
<1>5. PICK r : r = FirstOf(t, l)
  OBVIOUS
<1>6. FirstOf(t, m) \o q = r
  BY <1>3, <1>4, <1>5, FirstThen
<1>7. IsSequence(r) /\ Len(r) = l /\ SubSeq(t, 1, l) = r
  BY <1>1, <1>4, <1>5, FirstIs
<1>8. PICK c : c = <<"u", u>> /\ c[1] = "u" /\ c[2] = u
  BY PairDomain
<1>9. t[l + 1] = c
  <2>1. l + 1 = m + 3
    BY <1>4
  <2> QED BY <1>8, <2>1 DEF Holds
<1>10. challenge_scalar(r, t, unrelated, "u") = u
  <2>1. PICK z \in Nat : z = l + 1 /\ z - 1 = l /\ z <= n
    BY <1>1, <1>4
  <2>2. t[z][1] = "u" /\ t[z][2] = u
    BY <1>8, <1>9, <2>1
  <2>3. Len(r) + 1 = z
    BY <1>7, <2>1
  <2> QED BY <1>1, <1>7, <2>1, <2>2, <2>3 DEF challenge_scalar
<1>11. Replayed(FirstOf(t, m), L, R, t, unrelated) = Append(r, c)
  BY <1>2, <1>6, <1>8, <1>10 DEF Replayed, Append1
<1>12. PICK e : /\ Append(r, c) = r \o e /\ IsSequence(e) /\ Len(e) = 1 /\ e[1] = c
  BY <1>7, AppendIsThen
<1>13. Follows(t, l, e)
  <2>1. \A i \in 1..Len(e) : i = 1
    BY <1>12
  <2>2. e[1] = t[l + 1]
    BY <1>9, <1>12
  <2> QED BY <1>1, <1>4, <1>12, <2>1, <2>2 DEF Follows
<1>14. r \o e = FirstOf(t, l + Len(e))
  BY <1>5, <1>12, <1>13, FirstThen
<1>15. l + Len(e) = m + 3
  BY <1>4, <1>12
<1> QED BY <1>11, <1>12, <1>14, <1>15

\* All of a sequence.
LEMMA AllOf ==
  ASSUME NEW t, IsSequence(t)
  PROVE  FirstOf(t, Len(t)) = t /\ SubSeq(t, 1, Len(t)) = t
<1>1. PICK T : t \in Seq(T)
  BY DEF IsSequence
<1>2. t = [i \in 1..Len(t) |-> t[i]]
  BY <1>1
<1>3. Len(t) \in 0..Len(t)
  BY <1>1
<1>4. SubSeq(t, 1, Len(t)) = t
  BY <1>2, <1>3, Prefix
<1> QED BY <1>2, <1>4 DEF FirstOf

\* The transcript starts with the domain separator of the argument.
Opens(t, n) ==
    2 <= Len(t) /\ Holds(t, 1, "dom-sep", "ipp v1") /\ Holds(t, 2, "n", n)

\* It starts as the prover did.
LEMMA ReplayStart ==
  ASSUME NEW t, IsSequence(t), NEW n, Opens(t, n)
  PROVE  innerproduct_domain_sep(<<>>, n) = FirstOf(t, 2)
<1>1. PICK zero \in Nat : zero = 0 /\ zero + 1 = 1 /\ zero + 2 = 2
  OBVIOUS
<1>2. PICK q : q = <<<<"dom-sep", "ipp v1">>, <<"n", n>>>>
  OBVIOUS
<1>3. IsSequence(q) /\ Len(q) = 2 /\ Follows(t, zero, q)
  <2>1. /\ zero + 2 <= Len(t) /\ Holds(t, zero + 1, "dom-sep", "ipp v1")
        /\ Holds(t, zero + 2, "n", n)
    BY <1>1 DEF Opens
  <2> QED BY <1>2, <2>1, PairFollows
<1>4. FirstOf(t, zero) \o q = FirstOf(t, zero + Len(q))
  BY <1>3, FirstThen
<1>5. FirstOf(t, zero) = <<>>
  <2>1. 1..zero = {}
    BY <1>1
  <2> QED BY <2>1 DEF FirstOf
<1> QED BY <1>1, <1>2, <1>3, <1>4, <1>5 DEF innerproduct_domain_sep

\* So a verifier that is given the cross terms of the prover retraces its transcript to
\* the end.
LEMMA ReplayIs ==
  ASSUME NEW k \in Nat, NEW n, NEW s, NEW us, IsSequence(s.transcript), Recorded(s, us, k, n),
         NEW p, p.L_vec = s.L_vec, p.R_vec = s.R_vec, Len(p.L_vec) = k, NEW unrelated
  PROVE  ReplayRounds(p, n, <<>>, s.transcript, unrelated) = s.transcript
<1>1. PICK t : t = s.transcript
  OBVIOUS
<1>2. IsSequence(t) /\ Len(t) = 2 + 3 * k
  BY <1>1 DEF Recorded
<1> DEFINE P(f) == f = [j \in 0..k |->
                          IF j = 0 THEN innerproduct_domain_sep(<<>>, n)
                          ELSE Replayed(f[j - 1], p.L_vec[j], p.R_vec[j], t, unrelated)]
           at == CHOOSE f : P(f)
<1>3. PICK pre : pre = [j \in 0..k |-> FirstOf(t, 2 + 3 * j)]
  OBVIOUS
<1>4. pre[0] = innerproduct_domain_sep(<<>>, n)
  <2>1. pre[0] = FirstOf(t, 2)
    <3>1. 2 + 3 * 0 = 2 /\ 0 \in 0..k
      OBVIOUS
    <3> QED BY <1>3, <3>1
  <2>2. 2 <= Len(t)
    BY <1>2
  <2>3. Holds(t, 1, "dom-sep", "ipp v1") /\ Holds(t, 2, "n", n)
    BY <1>1 DEF Recorded, Holds
  <2>4. Opens(t, n)
    BY <2>2, <2>3 DEF Opens
  <2> QED BY <1>2, <2>1, <2>4, ReplayStart
<1>5. ASSUME NEW j \in 1..k
      PROVE  pre[j] = Replayed(pre[j - 1], p.L_vec[j], p.R_vec[j], t, unrelated)
  <2>1. PICK m \in Nat : /\ m = 2 + 3 * (j - 1) /\ m + 1 = 3 * j /\ m + 2 = 3 * j + 1
                         /\ m + 3 = 3 * j + 2 /\ m + 3 = 2 + 3 * j /\ m + 3 <= 2 + 3 * k
                         /\ j - 1 \in 0..k /\ j \in 0..k
    <3>1. 2 + 3 * (j - 1) \in Nat
      OBVIOUS
    <3> QED BY <3>1
  <2>2. /\ Holds(t, m + 1, "L", p.L_vec[j]) /\ Holds(t, m + 2, "R", p.R_vec[j])
        /\ Holds(t, m + 3, "u", us[j])
    <3>1. /\ Holds(t, 3 * j, "L", p.L_vec[j]) /\ Holds(t, 3 * j + 1, "R", p.R_vec[j])
          /\ Holds(t, 3 * j + 2, "u", us[j])
      BY <1>1 DEF Recorded, Holds
    <3> QED BY <2>1, <3>1
  <2>3. m + 3 <= Len(t)
    BY <1>2, <2>1
  <2>4. Replayed(FirstOf(t, m), p.L_vec[j], p.R_vec[j], t, unrelated) = FirstOf(t, m + 3)
    BY <1>2, <2>2, <2>3, ReplaysOne
  <2>5. pre[j] = FirstOf(t, m + 3) /\ pre[j - 1] = FirstOf(t, m)
    BY <1>3, <2>1
  <2> QED BY <2>4, <2>5
<1>6. P(pre)
  <2>1. \A j \in 0..k : j = 0 \/ j \in 1..k
    OBVIOUS
  <2>2. \A j \in 0..k :
           pre[j] = IF j = 0 THEN innerproduct_domain_sep(<<>>, n)
                    ELSE Replayed(pre[j - 1], p.L_vec[j], p.R_vec[j], t, unrelated)
    BY <1>4, <1>5, <2>1, Zenon
  <2> QED BY <1>3, <2>2, Zenon
<1>7. P(at)
  BY <1>6, Zenon
<1>8. ReplayRounds(p, n, <<>>, s.transcript, unrelated) = at[k]
  BY <1>1 DEF ReplayRounds, Replayed
<1> HIDE DEF at
<1> DEFINE T == {j \in 0..k : at[j] = pre[j]}
<1>9. 0 \in T
  BY <1>4, <1>7
<1>10. ASSUME NEW j \in 0..(k - 1), j \in T PROVE j + 1 \in T
  <2>1. j + 1 \in 0..k /\ j + 1 # 0 /\ (j + 1) - 1 = j /\ j + 1 \in 1..k
    OBVIOUS
  <2>2. at[j + 1] = Replayed(at[j], p.L_vec[j + 1], p.R_vec[j + 1], t, unrelated)
    BY <1>7, <2>1
  <2>3. pre[j + 1] = Replayed(pre[j], p.L_vec[j + 1], p.R_vec[j + 1], t, unrelated)
    BY <1>5, <2>1
  <2> QED BY <1>10, <2>1, <2>2, <2>3
<1>11. \A j \in 0..k : j \in T
  <2> HIDE DEF T
  <2> QED BY <1>9, <1>10, InductionUpTo
<1>12. at[k] = pre[k] /\ pre[k] = FirstOf(t, Len(t))
  <2>1. k \in 0..k
    OBVIOUS
  <2> QED BY <1>2, <1>3, <1>11, <2>1
<1> QED BY <1>1, <1>2, <1>8, <1>12, AllOf

-----------------------------------------------------------------------------
(* The equation the verifier checks.                                       *)

\* n scalars and n points.
PairFits(n, x, G) == n \in Nat /\ x \in Vec(n) /\ G \in PointVec(n)

\* Scalars and points joined to others, and the sum that makes.
Joined(z, J, x, y, G, H) == z = x \o y /\ J = G \o H

\* The combination of the joined is the sum of the two.
Adds(z, J, x, y, G, H) ==
    \A g \in Generator :
        multiscalar_mul(z, J)[g] = multiscalar_mul(x, G)[g] ++ multiscalar_mul(y, H)[g]

\* A combination can be computed in two parts, wrapped.
LEMMA FitsThen ==
  ASSUME NEW n, NEW m, NEW x, NEW y, NEW G, NEW H, PairFits(n, x, G), PairFits(m, y, H),
         NEW z, NEW J, Joined(z, J, x, y, G, H)
  PROVE  PairFits(n + m, z, J) /\ Adds(z, J, x, y, G, H)
<1>1. n \in Nat /\ m \in Nat /\ n + m \in Nat
  BY DEF PairFits
<1>2. x \in Vec(n) /\ y \in Vec(m) /\ G \in PointVec(n) /\ H \in PointVec(m)
  BY DEF PairFits
<1>3. x \o y \in Vec(n + m)
  BY <1>1, <1>2, Concat DEF Vec
<1>4. G \o H \in PointVec(n + m)
  BY <1>1, <1>2, Concat DEF PointVec
<1>5. ASSUME NEW g \in Generator
      PROVE  multiscalar_mul(x \o y, G \o H)[g]
                  = multiscalar_mul(x, G)[g] ++ multiscalar_mul(y, H)[g]
  BY <1>1, <1>2, MsmThen
<1> QED BY <1>1, <1>3, <1>4, <1>5 DEF PairFits, Joined, Adds

\* And one point is a part.
LEMMA FitsOne ==
  ASSUME NEW c \in Scalar, NEW P \in Point
  PROVE  /\ PairFits(1, <<c>>, <<P>>)
         /\ \A g \in Generator : multiscalar_mul(<<c>>, <<P>>)[g] = c ** P[g]
<1>1. <<c>> \in Vec(1) /\ <<P>> \in PointVec(1)
  BY DEF Vec, PointVec
<1> QED BY <1>1, MsmOfOne DEF PairFits

\* The value of a part at a generator.
LEMMA FitsAt ==
  ASSUME NEW n, NEW x, NEW G, PairFits(n, x, G), NEW g \in Generator
  PROVE  multiscalar_mul(x, G)[g] \in Scalar
BY MsmType DEF PairFits, Point

\* The combination verify compares the claim with, and its five parts.
FiveParts(c, x, y, s, t, P, G, H, L, R) ==
    multiscalar_mul(<<c>> \o x \o y \o s \o t, <<P>> \o G \o H \o L \o R)

\* The value of the five parts together.
LEMMA FiveAt ==
  ASSUME NEW c \in Scalar, NEW P \in Point, NEW n, NEW k, NEW x, NEW y, NEW s, NEW t,
         NEW G, NEW H, NEW L, NEW R,
         PairFits(n, x, G), PairFits(n, y, H), PairFits(k, s, L), PairFits(k, t, R)
  PROVE  /\ FiveParts(c, x, y, s, t, P, G, H, L, R) \in Point
         /\ \A g \in Generator :
                FiveParts(c, x, y, s, t, P, G, H, L, R)[g]
                  = (((c ** P[g] ++ multiscalar_mul(x, G)[g]) ++ multiscalar_mul(y, H)[g])
                        ++ multiscalar_mul(s, L)[g]) ++ multiscalar_mul(t, R)[g]
<1>1. PICK s1, p1 : s1 = <<c>> /\ p1 = <<P>>
  OBVIOUS
<1>2. PairFits(1, s1, p1) /\ \A g \in Generator : multiscalar_mul(s1, p1)[g] = c ** P[g]
  BY <1>1, FitsOne
<1>3. PICK s2, p2 : Joined(s2, p2, s1, x, p1, G)
  BY DEF Joined
<1>4. PairFits(1 + n, s2, p2) /\ Adds(s2, p2, s1, x, p1, G)
  BY <1>2, <1>3, FitsThen
<1>5. PICK s3, p3 : Joined(s3, p3, s2, y, p2, H)
  BY DEF Joined
<1>6. PairFits((1 + n) + n, s3, p3) /\ Adds(s3, p3, s2, y, p2, H)
  BY <1>4, <1>5, FitsThen
<1>7. PICK s4, p4 : Joined(s4, p4, s3, s, p3, L)
  BY DEF Joined
<1>8. PairFits(((1 + n) + n) + k, s4, p4) /\ Adds(s4, p4, s3, s, p3, L)
  BY <1>6, <1>7, FitsThen
<1>9. PICK s5, p5 : Joined(s5, p5, s4, t, p4, R)
  BY DEF Joined
<1>10. PairFits((((1 + n) + n) + k) + k, s5, p5) /\ Adds(s5, p5, s4, t, p4, R)
  BY <1>8, <1>9, FitsThen
<1>11. FiveParts(c, x, y, s, t, P, G, H, L, R) = multiscalar_mul(s5, p5)
  BY <1>1, <1>3, <1>5, <1>7, <1>9 DEF FiveParts, Joined
<1>12. multiscalar_mul(s5, p5) \in Point
  BY <1>10, MsmType DEF PairFits
<1> QED BY <1>2, <1>4, <1>6, <1>8, <1>10, <1>11, <1>12 DEF Adds

\* The opposites, as verify takes them.
Negated(v) == [k \in DOMAIN v |-> Neg(v[k])]

\* The opposite of a scalar is its product with that of one.
LEMMA NegScales ==
  ASSUME NEW a \in Scalar
  PROVE  Neg(1) \in Scalar /\ Neg(a) \in Scalar /\ Neg(a) = Neg(1) ** a /\ a ++ Neg(a) = 0
<1>1. PICK x \in Int : x = a /\ a = M(x)
  BY Reduced
<1>2. 1 \in Scalar /\ 1 = M(1)
  BY ScalarClosed, Reduced
<1>3. Neg(a) = M(-x) /\ Neg(1) = M(-1)
  BY <1>1, <1>2, Reduced
<1>4. M(-1) ** M(x) = M((-1) * x) /\ (-1) * x = -x
  BY Reduced
<1>5. a ++ Neg(a) = M(x + (-x)) /\ x + (-x) = 0
  <2>1. PICK y \in Int : y = -x /\ x + y = 0
    OBVIOUS
  <2>2. M(x) ++ M(y) = M(x + y)
    BY Reduced
  <2> QED BY <1>1, <1>3, <2>1, <2>2
<1>6. M(0) = 0
  BY ScalarClosed, Reduced
<1> QED BY <1>1, <1>2, <1>3, <1>4, <1>5, <1>6, ScalarClosed

\* A factor of every scalar is a factor of the combination.
LEMMA MsmScaled ==
  ASSUME NEW n, NEW x, NEW G, PairFits(n, x, G), NEW c \in Scalar, NEW y \in Vec(n),
         \A i \in 1..n : y[i] = c ** x[i], NEW g \in Generator
  PROVE  multiscalar_mul(y, G)[g] = c ** multiscalar_mul(x, G)[g]
<1>1. n \in Nat /\ x \in Vec(n) /\ G \in PointVec(n)
  BY DEF PairFits
<1>2. PICK p : p = [i \in 1..n |-> x[i] ** G[i][g]]
  OBVIOUS
<1>3. PICK q : q = [i \in 1..n |-> y[i] ** G[i][g]]
  OBVIOUS
<1>4. p \in Vec(n) /\ multiscalar_mul(x, G)[g] = SumOf(p)
  BY <1>1, <1>2, MsmAt
<1>5. q \in Vec(n) /\ multiscalar_mul(y, G)[g] = SumOf(q)
  BY <1>1, <1>3, MsmAt
<1>6. ASSUME NEW i \in 1..n PROVE q[i] = c ** p[i]
  <2>1. PICK a, b \in Scalar : a = x[i] /\ b = G[i][g]
    BY <1>1 DEF Vec, PointVec, Point
  <2>2. (c ** a) ** b = c ** (a ** b)
    BY MulAssociates
  <2>3. q[i] = (c ** a) ** b /\ p[i] = a ** b
    BY <1>2, <1>3, <2>1
  <2> QED BY <2>2, <2>3
<1>7. SumOf(q) = c ** SumOf(p)
  BY <1>1, <1>4, <1>5, <1>6, SumScale
<1> QED BY <1>4, <1>5, <1>7

\* So the opposites of the scalars give the opposite.
LEMMA MsmNegated ==
  ASSUME NEW n, NEW x, NEW G, PairFits(n, x, G)
  PROVE  /\ PairFits(n, Negated(x), G)
         /\ \A g \in Generator :
                multiscalar_mul(Negated(x), G)[g] = Neg(multiscalar_mul(x, G)[g])
<1>1. n \in Nat /\ x \in Vec(n) /\ G \in PointVec(n)
  BY DEF PairFits
<1>2. PICK y : y = Negated(x)
  OBVIOUS
<1>3. ASSUME NEW i \in 1..n PROVE y[i] = Neg(1) ** x[i] /\ y[i] \in Scalar
  <2>1. x[i] \in Scalar /\ y[i] = Neg(x[i])
    BY <1>1, <1>2 DEF Vec, Negated
  <2> QED BY <2>1, NegScales
<1>4. y \in Vec(n)
  <2>1. y = [i \in 1..n |-> Neg(x[i])]
    BY <1>1, <1>2 DEF Negated, Vec
  <2>2. \A i \in 1..n : Neg(x[i]) \in Scalar
    BY <1>3, <2>1
  <2> QED BY <2>1, <2>2 DEF Vec
<1>5. PairFits(n, y, G)
  BY <1>1, <1>4 DEF PairFits
<1>6. ASSUME NEW g \in Generator
      PROVE  multiscalar_mul(y, G)[g] = Neg(multiscalar_mul(x, G)[g])
  <2>1. PICK m \in Scalar : m = multiscalar_mul(x, G)[g]
    BY FitsAt
  <2>2. PICK c \in Scalar : c = Neg(1) /\ Neg(m) = c ** m
    BY NegScales
  <2>3. \A i \in 1..n : y[i] = c ** x[i]
    BY <1>3, <2>2
  <2>4. multiscalar_mul(y, G)[g] = c ** multiscalar_mul(x, G)[g]
    BY <1>4, <2>3, MsmScaled
  <2> QED BY <2>1, <2>2, <2>4
<1> QED BY <1>2, <1>5, <1>6

\* What is added can be taken away.
LEMMA TakesAway ==
  ASSUME NEW C \in Scalar, NEW l \in Scalar, NEW r \in Scalar
  PROVE  (((C ++ l) ++ r) ++ Neg(l)) ++ Neg(r) = C
<1>1. PICK nl, nr \in Scalar : nl = Neg(l) /\ nr = Neg(r) /\ l ++ nl = 0 /\ r ++ nr = 0
  BY NegScales
<1>2. PICK Cl, nn, lr \in Scalar : Cl = C ++ l /\ nn = nl ++ nr /\ lr = l ++ r
  BY ScalarClosed
<1>3. PICK D \in Scalar : D = Cl ++ r
  BY ScalarClosed
<1>4. (D ++ nl) ++ nr = D ++ nn
  BY <1>2, AddAssociates
<1>5. D = C ++ lr
  BY <1>2, <1>3, AddAssociates
<1>6. (C ++ lr) ++ nn = C ++ (lr ++ nn)
  BY AddAssociates
<1>7. lr ++ nn = (l ++ nl) ++ (r ++ nr)
  BY <1>2, AddInterchanges
<1>8. lr ++ nn = 0
  BY <1>1, <1>7, Units, ScalarClosed
<1>9. C ++ 0 = C
  BY Units
<1> QED BY <1>1, <1>2, <1>3, <1>4, <1>5, <1>6, <1>8, <1>9

\* The inner product of one entry each.
LEMMA DotOfOne ==
  ASSUME NEW a \in Vec(1), NEW x \in Vec(1)
  PROVE  Dot(a, x) = a[1] ** x[1]
<1>1. PICK one \in Nat : one = 1 /\ 1 \in 1..one
  OBVIOUS
<1>2. PICK t : t = Times(a, x)
  OBVIOUS
<1>3. t \in Vec(one) /\ t[1] = a[1] ** x[1]
  <2>1. a \in Vec(one) /\ x \in Vec(one)
    BY <1>1
  <2> QED BY <1>1, <1>2, <2>1, TimesType
<1>4. SumOf(t) = t[1]
  BY <1>1, <1>3, SumOfOne
<1> QED BY <1>2, <1>3, <1>4 DEF Dot

\* A factor of weights is a factor of the combination.
LEMMA ScaledTimes ==
  ASSUME NEW n \in Nat, NEW s \in Vec(n), NEW f \in Vec(n), NEW c \in Scalar, NEW G \in PointVec(n)
  PROVE  /\ PairFits(n, Times(Scale(c, s), f), G)
         /\ \A g \in Generator :
                multiscalar_mul(Times(Scale(c, s), f), G)[g]
                  = c ** multiscalar_mul(Times(s, f), G)[g]
<1>1. PICK x \in Vec(n) : x = Times(s, f) /\ \A i \in 1..n : x[i] = s[i] ** f[i]
  BY TimesType
<1>2. PICK z \in Vec(n) : z = Scale(c, s) /\ \A i \in 1..n : z[i] = c ** s[i]
  <2>1. \A i \in 1..n : c ** s[i] \in Scalar
    BY ScalarClosed DEF Vec
  <2>2. Scale(c, s) = [i \in 1..n |-> c ** s[i]]
    BY DEF Scale, Vec
  <2> QED BY <2>1, <2>2 DEF Vec
<1>3. PICK y \in Vec(n) : y = Times(z, f) /\ \A i \in 1..n : y[i] = z[i] ** f[i]
  BY TimesType
<1>4. ASSUME NEW i \in 1..n PROVE y[i] = c ** x[i]
  <2>1. PICK a, b \in Scalar : a = s[i] /\ b = f[i]
    BY DEF Vec
  <2>2. (c ** a) ** b = c ** (a ** b)
    BY MulAssociates
  <2> QED BY <1>1, <1>2, <1>3, <2>1, <2>2
<1>5. PairFits(n, x, G) /\ PairFits(n, y, G)
  BY DEF PairFits
<1>6. \A g \in Generator : multiscalar_mul(y, G)[g] = c ** multiscalar_mul(x, G)[g]
  BY <1>4, <1>5, MsmScaled
<1> QED BY <1>1, <1>2, <1>3, <1>5, <1>6

\* The one generator that is left, weighted, is the combination of all.
LEMMA LastIsAll ==
  ASSUME NEW n \in Nat, NEW f \in Vec(n), NEW G \in PointVec(n), NEW x \in Vec(n),
         NEW e \in Vec(1), NEW P \in PointVec(1), NEW g \in Generator,
         FoldsBy(x, At(f, G, g), 1, n, At(e, P, g))
  PROVE  /\ multiscalar_mul(Times(x, f), G)[g] = At(e, P, g)[1]
         /\ multiscalar_mul(Times(x, f), G)[g] = multiscalar_mul(e, P)[g]
<1>1. PICK X \in Vec(n) : X = At(f, G, g)
  BY AtType
<1>2. PICK one \in Nat : one = 1
  OBVIOUS
<1>3. PICK Y \in Vec(one) : Y = At(e, P, g) /\ Y[1] = e[1] ** P[1][g]
  <2>1. 1 \in 1..one
    BY <1>2
  <2> QED BY <1>2, <2>1, AtType
<1>4. Y[1] = Dot(x, X)
  BY <1>1, <1>2, <1>3, FoldsByEnd
<1>5. multiscalar_mul(Times(x, f), G)[g] = Dot(x, X)
  BY <1>1, MsmIsDot
<1>6. multiscalar_mul(e, P)[g] = Y[1]
  <2>1. PICK y : y = [k \in 1..one |-> e[k] ** P[k][g]]
    OBVIOUS
  <2>2. y \in Vec(one) /\ multiscalar_mul(e, P)[g] = SumOf(y)
    <3>1. e \in Vec(one) /\ P \in PointVec(one)
      BY <1>2
    <3> QED BY <2>1, <3>1, MsmAt
  <2>3. SumOf(y) = y[1]
    BY <1>2, <2>2, SumOfOne
  <2>4. y[1] = e[1] ** P[1][g]
    <3>1. 1 \in 1..one
      BY <1>2
    <3> QED BY <2>1, <3>1
  <2> QED BY <1>3, <2>2, <2>3, <2>4
<1> QED BY <1>1, <1>3, <1>4, <1>5, <1>6

\* The combination the verifier computes is the commitment the prover started from.
Combination(s, v, Qp, us) ==
    FiveParts(s.v.a[1] ** s.v.b[1],
              Times(Scale(s.v.a[1], SVector(us)), v.gf),
              Times(Scale(s.v.b[1], Reversed(SVector(us))), v.hf),
              Negated(Squares(us)), Negated(InverseSquares(us)),
              Qp, v.G, v.H, s.L_vec, s.R_vec)

\* With one entry left, what the loop of create keeps is the equation of the verifier.
LEMMA CombinationIsClaim ==
  ASSUME NEW k \in Nat, NEW s, NEW v, NEW Qp \in Point, NEW us, KeptBy(s, v, Qp, us, k, 1)
  PROVE  Claim(v, Qp) = Combination(s, v, Qp, us)
<1>1. PICK n \in Nat : n = 2^k /\ 1 * 2^k = n
  <2>1. PICK n \in Nat : n = 2^k
    BY PowerOfTwoType
  <2>2. 1 * n = n
    OBVIOUS
  <2> QED BY <2>1, <2>2
<1>2. /\ Usable(us, k) /\ WellFormed(s.v, 1) /\ WellFormed(v, n)
      /\ s.L_vec \in PointVec(k) /\ s.R_vec \in PointVec(k)
      /\ KeepsClaim(s, v, Qp, us) /\ GeneratorsFold(v, us, n, 1, s.v)
  BY <1>1 DEF KeptBy
<1>3. PICK x, y : x = SVector(us) /\ y = Reversed(SVector(us))
  OBVIOUS
<1>4. x \in Vec(n) /\ y \in Vec(n)
  BY <1>1, <1>2, <1>3, SVectorType
<1>5. PICK a, b \in Scalar : a = s.v.a[1] /\ b = s.v.b[1]
  <2>1. PICK one \in Nat : one = 1 /\ 1 \in 1..one
    OBVIOUS
  <2>2. s.v.a \in Vec(one) /\ s.v.b \in Vec(one)
    BY <1>2, <2>1 DEF WellFormed
  <2> QED BY <2>1, <2>2 DEF Vec
<1>6. PICK c \in Scalar : c = a ** b
  BY ScalarClosed
<1>7. PICK sq, inv_sq \in Vec(k) : sq = Squares(us) /\ inv_sq = InverseSquares(us)
  BY <1>2, DrawnType
<1>8. v.gf \in Vec(n) /\ v.hf \in Vec(n) /\ v.G \in PointVec(n) /\ v.H \in PointVec(n)
  BY <1>2 DEF WellFormed
<1>9. PICK ax : ax = Times(Scale(a, x), v.gf)
  OBVIOUS
<1>10. PICK by : by = Times(Scale(b, y), v.hf)
  OBVIOUS
<1>11. PairFits(n, ax, v.G)
       /\ \A g \in Generator : multiscalar_mul(ax, v.G)[g]
                                 = a ** multiscalar_mul(Times(x, v.gf), v.G)[g]
  BY <1>4, <1>8, <1>9, ScaledTimes
<1>12. PairFits(n, by, v.H)
       /\ \A g \in Generator : multiscalar_mul(by, v.H)[g]
                                 = b ** multiscalar_mul(Times(y, v.hf), v.H)[g]
  BY <1>4, <1>8, <1>10, ScaledTimes
<1>13. PairFits(k, sq, s.L_vec) /\ PairFits(k, inv_sq, s.R_vec)
  BY <1>2 DEF PairFits
<1>14. PICK ns, ni : ns = Negated(sq) /\ ni = Negated(inv_sq)
  OBVIOUS
<1>15. PairFits(k, ns, s.L_vec)
       /\ \A g \in Generator :
             multiscalar_mul(ns, s.L_vec)[g] = Neg(multiscalar_mul(sq, s.L_vec)[g])
  BY <1>13, <1>14, MsmNegated
<1>16. PairFits(k, ni, s.R_vec)
       /\ \A g \in Generator :
             multiscalar_mul(ni, s.R_vec)[g] = Neg(multiscalar_mul(inv_sq, s.R_vec)[g])
  BY <1>13, <1>14, MsmNegated
<1>17. PICK E : E = FiveParts(c, ax, by, ns, ni, Qp, v.G, v.H, s.L_vec, s.R_vec)
  OBVIOUS
<1>18. /\ E \in Point
       /\ \A g \in Generator :
              E[g] = (((c ** Qp[g] ++ multiscalar_mul(ax, v.G)[g]) ++ multiscalar_mul(by, v.H)[g])
                        ++ multiscalar_mul(ns, s.L_vec)[g]) ++ multiscalar_mul(ni, s.R_vec)[g]
  BY <1>11, <1>12, <1>15, <1>16, <1>17, FiveAt
<1>19. Claim(v, Qp) \in Point
  BY <1>2, ClaimType
<1>20. ASSUME NEW g \in Generator PROVE Claim(v, Qp)[g] = E[g]
  <2>1. PICK C, l, r, q \in Scalar :
            /\ C = Claim(v, Qp)[g] /\ l = multiscalar_mul(sq, s.L_vec)[g]
            /\ r = multiscalar_mul(inv_sq, s.R_vec)[g] /\ q = Qp[g]
    <3>1. /\ multiscalar_mul(sq, s.L_vec)[g] \in Scalar
          /\ multiscalar_mul(inv_sq, s.R_vec)[g] \in Scalar
      BY <1>13, FitsAt
    <3>2. Claim(v, Qp)[g] \in Scalar /\ Qp[g] \in Scalar
      BY <1>19 DEF Point
    <3> QED BY <3>1, <3>2
  <2>2. Claim(s.v, Qp)[g] = (C ++ l) ++ r
    BY <1>2, <1>7, <2>1 DEF KeepsClaim
  <2>3. PICK X1, Y1 : X1 = At(s.v.gf, s.v.G, g) /\ Y1 = At(s.v.hf, s.v.H, g)
    OBVIOUS
  <2>4. X1 \in Vec(1) /\ Y1 \in Vec(1)
    <3>1. PICK one \in Nat : one = 1
      OBVIOUS
    <3>2. /\ s.v.gf \in Vec(one) /\ s.v.G \in PointVec(one)
          /\ s.v.hf \in Vec(one) /\ s.v.H \in PointVec(one)
      BY <1>2, <3>1 DEF WellFormed
    <3>3. X1 \in Vec(one) /\ Y1 \in Vec(one)
      BY <2>3, <3>2, AtType
    <3> QED BY <3>1, <3>3
  <2>5. PICK x1, y1 \in Scalar : x1 = X1[1] /\ y1 = Y1[1]
    <3>1. PICK one \in Nat : one = 1 /\ 1 \in 1..one
      OBVIOUS
    <3>2. X1 \in Vec(one) /\ Y1 \in Vec(one)
      BY <2>4, <3>1
    <3> QED BY <3>1, <3>2 DEF Vec
  <2>6. Claim(s.v, Qp)[g] = (a ** x1 ++ b ** y1) ++ c ** q
    <3>1. PICK one \in Nat : one = 1
      OBVIOUS
    <3>2. WellFormed(s.v, one)
      BY <1>2, <3>1
    <3>3. Claim(s.v, Qp)[g] = (Dot(s.v.a, X1) ++ Dot(s.v.b, Y1)) ++ Dot(s.v.a, s.v.b) ** q
      BY <2>1, <2>3, <3>2, ClaimAt
    <3>4. s.v.a \in Vec(1) /\ s.v.b \in Vec(1)
      BY <1>2 DEF WellFormed
    <3>5. /\ Dot(s.v.a, X1) = a ** x1 /\ Dot(s.v.b, Y1) = b ** y1
          /\ Dot(s.v.a, s.v.b) = c
      BY <1>5, <1>6, <2>4, <2>5, <3>4, DotOfOne
    <3> QED BY <3>3, <3>5
  <2>7. multiscalar_mul(Times(x, v.gf), v.G)[g] = x1
        /\ multiscalar_mul(Times(y, v.hf), v.H)[g] = y1
    <3>1. /\ FoldsBy(x, At(v.gf, v.G, g), 1, n, At(s.v.gf, s.v.G, g))
          /\ FoldsBy(y, At(v.hf, v.H, g), 1, n, At(s.v.hf, s.v.H, g))
      BY <1>2, <1>3 DEF GeneratorsFold
    <3>2. /\ s.v.gf \in Vec(1) /\ s.v.G \in PointVec(1)
          /\ s.v.hf \in Vec(1) /\ s.v.H \in PointVec(1)
      BY <1>2 DEF WellFormed
    <3>3. multiscalar_mul(Times(x, v.gf), v.G)[g] = At(s.v.gf, s.v.G, g)[1]
      BY <1>4, <1>8, <3>1, <3>2, LastIsAll
    <3>4. multiscalar_mul(Times(y, v.hf), v.H)[g] = At(s.v.hf, s.v.H, g)[1]
      BY <1>4, <1>8, <3>1, <3>2, LastIsAll
    <3> QED BY <2>3, <2>5, <3>3, <3>4
  <2>8. E[g] = (((c ** q ++ a ** x1) ++ b ** y1) ++ Neg(l)) ++ Neg(r)
    BY <1>11, <1>12, <1>15, <1>16, <1>18, <2>1, <2>7
  <2>9. PICK ax1, by1, cq \in Scalar : ax1 = a ** x1 /\ by1 = b ** y1 /\ cq = c ** q
    BY ScalarClosed
  <2>10. (cq ++ ax1) ++ by1 = (ax1 ++ by1) ++ cq
    <3>1. ax1 ++ by1 \in Scalar
      BY ScalarClosed
    <3>2. (cq ++ ax1) ++ by1 = cq ++ (ax1 ++ by1)
      BY AddAssociates
    <3> QED BY <3>1, <3>2, AddCommutes
  <2>11. (cq ++ ax1) ++ by1 = (C ++ l) ++ r
    BY <2>2, <2>6, <2>9, <2>10
  <2>12. (((C ++ l) ++ r) ++ Neg(l)) ++ Neg(r) = C
    BY TakesAway
  <2> QED BY <2>1, <2>8, <2>9, <2>11, <2>12
<1>21. Claim(v, Qp) = E
  BY <1>18, <1>19, <1>20, PointExtensional
<1>22. E = Combination(s, v, Qp, us)
  BY <1>3, <1>5, <1>6, <1>7, <1>9, <1>10, <1>14, <1>17 DEF Combination
<1> QED BY <1>21, <1>22

\* The loop of create, as the sequence of what it has after each round.
LoopsTo(f, made, told, Q, vectors, us, n) ==
    /\ made = f[n]
    /\ f[0] = [v |-> vectors, L_vec |-> <<>>, R_vec |-> <<>>,
               transcript |-> innerproduct_domain_sep(told, Len(vectors.G))]
    /\ \A k \in 1..n : f[k] = RoundOf(f[k - 1], Q, us[k])

\* It has such a sequence.
LEMMA CreateLoops ==
  ASSUME NEW told, NEW Q, NEW vectors, NEW us, NEW n \in Nat, Len(us) = n
  PROVE  \E f : LoopsTo(f, create(told, Q, vectors, us), told, Q, vectors, us, n)
<1> DEFINE first == [v |-> vectors, L_vec |-> <<>>, R_vec |-> <<>>,
                     transcript |->
                         innerproduct_domain_sep(told, Len(vectors.G))]
           round(s, u) ==
               LET L == CrossL(s.v, Q)
                   R == CrossR(s.v, Q)
               IN  [v |-> Fold(s.v, u), L_vec |-> Append(s.L_vec, L),
                    R_vec |-> Append(s.R_vec, R),
                    transcript |-> s.transcript \o
                        <<<<"L", L>>, <<"R", R>>, <<"u", u>>>>]
           loop(f, k) == IF k = 0 THEN first ELSE round(f[k - 1], us[k])
           after == CHOOSE f : f = [k \in 0..n |-> loop(f, k)]
<1>1. create(told, Q, vectors, us) = after[n]
  BY DEF create
<1>2. after = [k \in 0..n |-> loop(after, k)]
  <2> DEFINE reached == {m \in 0..n : \E f : f = [k \in 0..m |-> loop(f, k)]}
  <2> HIDE DEF first, round
  <2>1. 0 \in reached
    <3> DEFINE f == [k \in 0..0 |-> first]
    <3>1. f = [k \in 0..0 |-> loop(f, k)]
      OBVIOUS
    <3> HIDE DEF f, loop
    <3> QED BY <3>1
  <2>2. ASSUME NEW m \in 0..(n - 1), m \in reached PROVE m + 1 \in reached
    <3>1. PICK f : f = [k \in 0..m |-> loop(f, k)]
      BY <2>2
    <3> DEFINE g == [k \in 0..(m + 1) |-> IF k <= m THEN f[k] ELSE loop(f, m + 1)]
    <3>2. ASSUME NEW k \in 0..(m + 1) PROVE g[k] = loop(g, k)
      <4>1. CASE k = m + 1
        <5>1. g[k] = loop(f, k) /\ k # 0 /\ k - 1 = m /\ g[m] = f[m]
          BY <4>1
        <5> HIDE DEF g
        <5> QED BY <5>1
      <4>2. CASE k <= m
        <5>1. g[k] = loop(f, k)
          <6> HIDE DEF loop
          <6> QED BY <3>1, <4>2
        <5>2. k # 0 => g[k - 1] = f[k - 1]
          BY <4>2
        <5> HIDE DEF g
        <5> QED BY <5>1, <5>2
      <4> QED BY <4>1, <4>2
    <3>3. g = [k \in 0..(m + 1) |-> loop(g, k)]
      <4>1. g = [k \in 0..(m + 1) |-> g[k]]
        OBVIOUS
      <4> HIDE DEF g, loop
      <4> QED BY <3>2, <4>1
    <3> HIDE DEF g, loop
    <3> QED BY <3>3
  <2>3. n \in reached
    <3> HIDE DEF reached
    <3>1. \A m \in 0..n : m \in reached
      BY <2>1, <2>2, InductionUpTo
    <3> QED BY <3>1
  <2> HIDE DEF loop
  <2> QED BY <2>3
<1> HIDE DEF after
<1>3. after[0] = first
  <2> HIDE DEF first, round
  <2> QED BY <1>2
<1>4. \A k \in 1..n : after[k] = round(after[k - 1], us[k])
  <2> HIDE DEF first, round
  <2>1. \A k \in 1..n : k \in 0..n /\ k # 0
    OBVIOUS
  <2> QED BY <1>2, <2>1
<1>5. \A s, u : round(s, u) = RoundOf(s, Q, u)
  BY DEF RoundOf
<1>6. \A k \in 1..n : after[k] = RoundOf(after[k - 1], Q, us[k])
  <2> HIDE DEF round
  <2> QED BY <1>4, <1>5
<1>7. LoopsTo(after, create(told, Q, vectors, us), told, Q, vectors, us, n)
  <2> HIDE DEF after
  <2> QED BY <1>1, <1>3, <1>6 DEF LoopsTo
<1> HIDE DEF after
<1> QED BY <1>7

\* Three sequences, whichever two are put together first.
LEMMA SequencesAssociate ==
  ASSUME NEW a, NEW b, NEW c, IsSequence(a), IsSequence(b), IsSequence(c)
  PROVE  (a \o b) \o c = a \o (b \o c)
<1>1. PICK S, T, U : a \in Seq(S) /\ b \in Seq(T) /\ c \in Seq(U)
  BY DEF IsSequence
<1>2. PICK V : V = S \cup T \cup U
  OBVIOUS
<1>3. a \in Seq(V) /\ b \in Seq(V) /\ c \in Seq(V)
  BY <1>1, <1>2
<1> QED BY <1>3

\* Create on a transcript with entries before.
StartsAfter(f, s, told) ==
    /\ f.v = s.v /\ f.L_vec = s.L_vec /\ f.R_vec = s.R_vec
    /\ f.transcript = told \o s.transcript

\* A round is the same on either transcript.
LEMMA RoundAfter ==
  ASSUME NEW f, NEW s, NEW told, IsSequence(told), IsSequence(s.transcript),
         StartsAfter(f, s, told), NEW Qp, NEW u
  PROVE  StartsAfter(RoundOf(f, Qp, u), RoundOf(s, Qp, u), told)
<1>1. PICK L, R : L = CrossL(s.v, Qp) /\ R = CrossR(s.v, Qp)
  OBVIOUS
<1>2. PICK e : e = <<<<"L", L>>, <<"R", R>>, <<"u", u>>>>
  OBVIOUS
<1>3. IsSequence(e)
  BY <1>2, TuplesAreSequences
<1>4. (told \o s.transcript) \o e = told \o (s.transcript \o e)
  <2>1. PICK t : t = s.transcript
    OBVIOUS
  <2>3. IsSequence(t)
    BY <2>1
  <2>2. (told \o t) \o e = told \o (t \o e)
    BY <1>3, <2>3, SequencesAssociate
  <2> QED BY <2>1, <2>2
<1>5. f.transcript \o e = told \o (s.transcript \o e)
  BY <1>4 DEF StartsAfter
<1>6. ASSUME NEW q, q.v = s.v
      PROVE  LET r == RoundOf(q, Qp, u)
             IN  /\ r.v = Fold(s.v, u) /\ r.L_vec = Append(q.L_vec, L)
                 /\ r.R_vec = Append(q.R_vec, R) /\ r.transcript = q.transcript \o e
  <2>1. CrossL(q.v, Qp) = L /\ CrossR(q.v, Qp) = R /\ Fold(q.v, u) = Fold(s.v, u)
    BY <1>1, <1>6, SMT
  <2>2. RoundOf(q, Qp, u) = [v |-> Fold(q.v, u), L_vec |-> Append(q.L_vec, CrossL(q.v, Qp)),
                             R_vec |-> Append(q.R_vec, CrossR(q.v, Qp)),
                             transcript |-> q.transcript \o
                                <<<<"L", CrossL(q.v, Qp)>>, <<"R", CrossR(q.v, Qp)>>, <<"u", u>>>>]
    BY DEF RoundOf
  <2> QED BY <1>2, <2>1, <2>2, SMTT(30)
<1>7. PICK rf, rs : rf = RoundOf(f, Qp, u) /\ rs = RoundOf(s, Qp, u)
  OBVIOUS
<1>8. /\ rf.v = Fold(s.v, u) /\ rf.L_vec = Append(f.L_vec, L)
      /\ rf.R_vec = Append(f.R_vec, R) /\ rf.transcript = f.transcript \o e
  BY <1>6, <1>7 DEF StartsAfter
<1>9. /\ rs.v = Fold(s.v, u) /\ rs.L_vec = Append(s.L_vec, L)
      /\ rs.R_vec = Append(s.R_vec, R) /\ rs.transcript = s.transcript \o e
  BY <1>6, <1>7
<1> QED BY <1>5, <1>7, <1>8, <1>9 DEF StartsAfter

\* What create has made of vectors of 2^k entries with the challenges us, on any
\* transcript: one entry is left, and the rest is what it makes on none.
Created(made, s, told, v, Qp, us, k) ==
    /\ KeptBy(s, v, Qp, us, k, 1) /\ IsSequence(s.transcript)
    /\ ChallengesOf(s.transcript, "u") = us
    /\ StartsAfter(made, s, told)

\* The same when h rounds are still to come.
CreatedSoFar(f, s, told, v, Qp, us, h, w) ==
    /\ KeptBy(s, v, Qp, us, h, w) /\ IsSequence(s.transcript)
    /\ ChallengesOf(s.transcript, "u") = us
    /\ StartsAfter(f, s, told)

\* One round more of it.
LEMMA CreatedStep ==
  ASSUME NEW told, IsSequence(told), NEW v, NEW Qp \in Point, NEW h \in Nat, NEW w \in Nat,
         NEW f, NEW s, NEW us, CreatedSoFar(f, s, told, v, Qp, us, h, 2 * w),
         NEW u \in Scalar \ {0}, NEW ws, Longer(ws, us, u)
  PROVE  \E r : CreatedSoFar(RoundOf(f, Qp, u), r, told, v, Qp, ws, h + 1, w)
<1>1. PICK r : r = RoundOf(s, Qp, u)
  OBVIOUS
<1>2. KeptBy(r, v, Qp, ws, h + 1, w) /\ IsSequence(r.transcript)
  BY <1>1, KeptStep DEF CreatedSoFar
<1>3. StartsAfter(RoundOf(f, Qp, u), r, told)
  BY <1>1, RoundAfter DEF CreatedSoFar
<1>4. ChallengesOf(r.transcript, "u") = ws
  <2>1. PICK t, q : t = s.transcript /\ q = r.transcript
    OBVIOUS
  <2>2. \E L, R : q = t \o <<<<"L", L>>, <<"R", R>>, <<"u", u>>>>
    BY <1>1, <2>1 DEF RoundOf
  <2>3. Longer(ChallengesOf(q, "u"), ChallengesOf(t, "u"), u)
    BY <2>1, <2>2, ChallengesOfRound DEF CreatedSoFar
  <2> QED BY <2>1, <2>3 DEF CreatedSoFar, Longer
<1> QED BY <1>2, <1>3, <1>4 DEF CreatedSoFar

\* The first entries of a vector.
LEMMA FirstEntries ==
  ASSUME NEW k \in Nat, NEW us, Usable(us, k), NEW h \in 0 .. k - 1
  PROVE  /\ us[h + 1] \in Scalar \ {0}
         /\ Longer(FirstOf(us, h + 1), FirstOf(us, h), us[h + 1])
<1>1. us \in Vec(k) /\ h + 1 \in 1..k /\ us[h + 1] # 0
  BY DEF Usable
<1>2. us[h + 1] \in Scalar
  BY <1>1 DEF Vec
<1>3. PICK a : a = FirstOf(us, h) /\ a \in Seq(Scalar) /\ Len(a) = h
  <2>1. FirstOf(us, h) \in [1..h -> Scalar]
    BY <1>1 DEF FirstOf, Vec
  <2> QED BY <2>1
<1>4. PICK b : b = FirstOf(us, h + 1) /\ b \in Seq(Scalar) /\ Len(b) = h + 1
  <2>1. FirstOf(us, h + 1) \in [1..(h + 1) -> Scalar] /\ h + 1 \in Nat
    BY <1>1 DEF FirstOf, Vec
  <2> QED BY <2>1
<1>5. /\ \A i \in 1..h : a[i] = us[i] /\ b[i] = us[i]
      /\ b[h + 1] = us[h + 1]
  BY <1>3, <1>4 DEF FirstOf
<1>6. PICK c : c = Append(a, us[h + 1]) /\ c \in Seq(Scalar) /\ Len(c) = h + 1
               /\ c[h + 1] = us[h + 1] /\ \A i \in 1..h : c[i] = a[i]
  <2>1. PICK e : e = us[h + 1]
    OBVIOUS
  <2>2. PICK c : c = Append(a, e)
    OBVIOUS
  <2>3. c \in Seq(Scalar) /\ Len(c) = h + 1
    BY <1>2, <1>3, <2>1, <2>2
  <2>4. IsSequence(a)
    BY <1>3 DEF IsSequence
  <2>5. c[h + 1] = e /\ \A i \in 1..h : c[i] = a[i]
    BY <1>3, <2>2, <2>4, AppendAt DEF Longer
  <2> QED BY <2>1, <2>2, <2>3, <2>5
<1>7. \A i \in 1..(h + 1) : b[i] = c[i]
  BY <1>5, <1>6
<1>8. b = c
  BY <1>4, <1>6, <1>7
<1> QED BY <1>1, <1>2, <1>3, <1>4, <1>6, <1>8 DEF Longer

\* create keeps its invariant to the end, whatever the transcript held before.
LEMMA CreateKeepsClaim ==
  ASSUME NEW told, IsSequence(told), NEW k \in Nat, NEW v, WellFormed(v, 2^k),
         NEW Qp \in Point, NEW us, Usable(us, k)
  PROVE  \E s : Created(create(told, Qp, v, us), s, told, v, Qp, us, k)
<1>1. us \in Vec(k) /\ Len(us) = k
  BY DEF Usable, Vec
<1>10. PICK f : LoopsTo(f, create(told, Qp, v, us), told, Qp, v, us, k)
  BY <1>1, CreateLoops, Zenon
<1>2. /\ create(told, Qp, v, us) = f[k]
      /\ f[0] = [v |-> v, L_vec |-> <<>>, R_vec |-> <<>>,
                 transcript |-> innerproduct_domain_sep(told, Len(v.G))]
      /\ \A h \in 1..k : f[h] = RoundOf(f[h - 1], Qp, us[h])
  BY <1>10 DEF LoopsTo
<1> DEFINE T == {h \in 0..k : \E s : CreatedSoFar(f[h], s, told, v, Qp, FirstOf(us, h), h, 2^(k - h))}
<1>3. 0 \in T
  <2>1. PICK s : s = create(<<>>, Qp, v, <<>>)
    OBVIOUS
  <2>2. KeptBy(s, v, Qp, ChallengesOf(s.transcript, "u"), 0, 2^k) /\ IsSequence(s.transcript)
    BY <2>1, KeptStart, PowerOfTwoType
  <2>3. /\ s.v = v /\ s.L_vec = <<>> /\ s.R_vec = <<>>
        /\ s.transcript = innerproduct_domain_sep(<<>>, Len(v.G))
    BY <2>1, CreateAtOnce
  <2>4. PICK d : d = <<<<"dom-sep", "ipp v1">>, <<"n", Len(v.G)>>>>
    OBVIOUS
  <2>5. innerproduct_domain_sep(told, Len(v.G)) = told \o d
        /\ innerproduct_domain_sep(<<>>, Len(v.G)) = <<>> \o d
    BY <2>4 DEF innerproduct_domain_sep
  <2>6. <<>> \o d = d
    <3>1. \A r : IsSequence(r) => <<>> \o r = r
      BY DEF IsSequence
    <3> QED BY <2>4, <3>1, TuplesAreSequences
  <2>7. StartsAfter(f[0], s, told)
    BY <1>2, <2>3, <2>5, <2>6 DEF StartsAfter
  <2>8. ChallengesOf(s.transcript, "u") = <<>>
    BY <2>3, ChallengesOfNone, ChallengesAtStart
  <2>9. FirstOf(us, 0) = <<>> /\ k - 0 = k /\ 0 \in 0..k
    BY DEF FirstOf
  <2> QED BY <2>2, <2>7, <2>8, <2>9 DEF CreatedSoFar
<1>4. ASSUME NEW h \in 0..(k - 1), h \in T PROVE h + 1 \in T
  <2>1. PICK s : CreatedSoFar(f[h], s, told, v, Qp, FirstOf(us, h), h, 2^(k - h))
    BY <1>4
  <2>2. h \in Nat /\ h + 1 \in 1..k /\ h + 1 \in 0..k /\ (h + 1) - 1 = h
        /\ k - (h + 1) \in Nat /\ k - h = (k - (h + 1)) + 1
    OBVIOUS
  <2>3. PICK w \in Nat : w = 2^(k - (h + 1)) /\ 2^(k - h) = 2 * w
    BY <2>2, PowerOfTwoType, PowerOfTwoNext
  <2>4. f[h + 1] = RoundOf(f[h], Qp, us[h + 1])
    BY <1>2, <2>2
  <2>5. PICK a, b, u : a = FirstOf(us, h) /\ b = FirstOf(us, h + 1) /\ u = us[h + 1]
    OBVIOUS
  <2>6. u \in Scalar \ {0} /\ Longer(b, a, u)
    BY <2>5, FirstEntries
  <2>7. CreatedSoFar(f[h], s, told, v, Qp, a, h, 2 * w)
    BY <2>1, <2>3, <2>5
  <2>8. \E r : CreatedSoFar(RoundOf(f[h], Qp, u), r, told, v, Qp, b, h + 1, w)
    BY <2>2, <2>6, <2>7, CreatedStep
  <2> QED BY <2>2, <2>3, <2>4, <2>5, <2>8
<1>5. k \in T
  <2> HIDE DEF T
  <2>1. \A h \in 0..k : h \in T
    BY <1>3, <1>4, InductionUpTo
  <2> QED BY <2>1
<1>6. FirstOf(us, k) = us
  BY <1>1 DEF FirstOf, Vec
<1>7. 2^(k - k) = 1
  <2>1. k - k = 0
    OBVIOUS
  <2> QED BY <2>1, PowerOfTwoZero
<1> QED BY <1>2, <1>5, <1>6, <1>7 DEF CreatedSoFar, Created

\* The argument's part of a transcript starts with its domain separator.
OpensAfter(t, o, n) ==
    o + 2 <= Len(t) /\ Holds(t, o + 1, "dom-sep", "ipp v1") /\ Holds(t, o + 2, "n", n)

\* The verifier starts it as the prover did.
LEMMA ReplayStarts ==
  ASSUME NEW t, IsSequence(t), NEW o \in Nat, NEW n, OpensAfter(t, o, n)
  PROVE  innerproduct_domain_sep(FirstOf(t, o), n) = FirstOf(t, o + 2)
<1>2. PICK q : q = <<<<"dom-sep", "ipp v1">>, <<"n", n>>>>
  OBVIOUS
<1>3. IsSequence(q) /\ Len(q) = 2 /\ Follows(t, o, q)
  BY <1>2, PairFollows DEF OpensAfter
<1>4. FirstOf(t, o) \o q = FirstOf(t, o + Len(q))
  BY <1>3, FirstThen
<1> QED BY <1>2, <1>3, <1>4 DEF innerproduct_domain_sep

\* What a sequence holds after another is at the places after it.
LEMMA HoldsAfter ==
  ASSUME NEW a, IsSequence(a), NEW b, IsSequence(b), NEW t, t = a \o b,
         NEW i \in 1..Len(b), NEW label, NEW value, Holds(b, i, label, value)
  PROVE  Holds(t, Len(a) + i, label, value)
BY LaterElements DEF Holds

\* A verifier of the proof p is told the transcript before the argument and what the
\* prover made of it in k rounds.
IsTold(t, told, s, us, k, n, p) ==
    /\ IsSequence(told) /\ IsSequence(s.transcript) /\ Recorded(s, us, k, n)
    /\ t = told \o s.transcript
    /\ p.L_vec = s.L_vec /\ p.R_vec = s.R_vec /\ Len(p.L_vec) = k

\* So a verifier that is given the cross terms of the prover, and the transcript
\* it told before, retraces the rest of its transcript to the end.
LEMMA ReplayFrom ==
  ASSUME NEW k \in Nat, NEW t, NEW told, NEW s, NEW us, NEW n, NEW p,
         IsTold(t, told, s, us, k, n, p), NEW unrelated
  PROVE  ReplayRounds(p, n, told, t, unrelated) = t
<1>19. /\ IsSequence(told) /\ IsSequence(s.transcript) /\ Recorded(s, us, k, n)
       /\ t = told \o s.transcript
       /\ p.L_vec = s.L_vec /\ p.R_vec = s.R_vec /\ Len(p.L_vec) = k
  BY DEF IsTold
<1>17. PICK r : r = s.transcript
  OBVIOUS
<1>18. PICK o \in Nat : o = Len(told)
  BY <1>19, LenOfSequence
<1>1. r = s.transcript /\ o = Len(told)
  BY <1>17, <1>18
<1>2. IsSequence(r) /\ Len(r) = 2 + 3 * k
  BY <1>1, <1>19 DEF Recorded
<1>16. t = told \o r
  BY <1>1, <1>19
<1>13. IsSequence(t) /\ Len(t) = o + (2 + 3 * k)
  <2>1. IsSequence(told \o r) /\ Len(told \o r) = Len(told) + Len(r)
    BY <1>2, <1>19, ThenSequence
  <2> QED BY <1>1, <1>2, <1>16, <2>1
<1>14. ASSUME NEW i \in 1 .. 2 + 3 * k, NEW label, NEW value, Holds(r, i, label, value)
       PROVE  Holds(t, o + i, label, value)
  <2>1. i \in 1..Len(r)
    BY <1>2
  <2>2. Holds(t, Len(told) + i, label, value)
    BY <1>2, <1>14, <1>16, <1>19, <2>1, HoldsAfter
  <2> QED BY <1>1, <2>2
<1>15. FirstOf(t, o) = told
  <2>1. \A i \in 1..o : t[i] = told[i]
    BY <1>1, <1>2, <1>16, <1>19, ThenSequence
  <2>2. told = [i \in 1..o |-> told[i]]
    BY <1>1, <1>19 DEF IsSequence
  <2> QED BY <2>1, <2>2 DEF FirstOf
<1> DEFINE P(f) == f = [j \in 0..k |->
                          IF j = 0 THEN innerproduct_domain_sep(told, n)
                          ELSE Replayed(f[j - 1], p.L_vec[j], p.R_vec[j], t, unrelated)]
           at == CHOOSE f : P(f)
<1>3. PICK pre : pre = [j \in 0..k |-> FirstOf(t, o + (2 + 3 * j))]
  OBVIOUS
<1>4. pre[0] = innerproduct_domain_sep(told, n)
  <2>1. pre[0] = FirstOf(t, o + 2)
    <3>1. o + (2 + 3 * 0) = o + 2 /\ 0 \in 0..k
      OBVIOUS
    <3> QED BY <1>3, <3>1
  <2>2. o + 2 <= Len(t) /\ 1 \in 1 .. 2 + 3 * k /\ 2 \in 1 .. 2 + 3 * k
    BY <1>13
  <2>3. Holds(r, 1, "dom-sep", "ipp v1") /\ Holds(r, 2, "n", n)
    BY <1>1, <1>19 DEF Recorded, Holds
  <2>5. Holds(t, o + 1, "dom-sep", "ipp v1") /\ Holds(t, o + 2, "n", n)
    BY <1>14, <2>2, <2>3
  <2>4. OpensAfter(t, o, n)
    BY <2>2, <2>5 DEF OpensAfter
  <2> QED BY <1>13, <1>15, <2>1, <2>4, ReplayStarts
<1>5. ASSUME NEW j \in 1..k
      PROVE  pre[j] = Replayed(pre[j - 1], p.L_vec[j], p.R_vec[j], t, unrelated)
  <2>1. PICK m \in Nat : /\ m = o + (2 + 3 * (j - 1)) /\ m + 1 = o + (3 * j)
                         /\ m + 2 = o + (3 * j + 1)
                         /\ m + 3 = o + (3 * j + 2) /\ m + 3 = o + (2 + 3 * j)
                         /\ m + 3 <= o + (2 + 3 * k)
                         /\ j - 1 \in 0..k /\ j \in 0..k
                         /\ 3 * j \in 1 .. 2 + 3 * k /\ 3 * j + 1 \in 1 .. 2 + 3 * k
                         /\ 3 * j + 2 \in 1 .. 2 + 3 * k
    <3>1. o + (2 + 3 * (j - 1)) \in Nat
      OBVIOUS
    <3> QED BY <3>1
  <2>2. /\ Holds(t, m + 1, "L", p.L_vec[j]) /\ Holds(t, m + 2, "R", p.R_vec[j])
        /\ Holds(t, m + 3, "u", us[j])
    <3>1. /\ Holds(r, 3 * j, "L", p.L_vec[j]) /\ Holds(r, 3 * j + 1, "R", p.R_vec[j])
          /\ Holds(r, 3 * j + 2, "u", us[j])
      BY <1>1, <1>19 DEF Recorded, Holds
    <3>2. /\ Holds(t, o + (3 * j), "L", p.L_vec[j]) /\ Holds(t, o + (3 * j + 1), "R", p.R_vec[j])
          /\ Holds(t, o + (3 * j + 2), "u", us[j])
      <4>1. PICK i1 \in 1 .. 2 + 3 * k : i1 = 3 * j
        BY <2>1
      <4>2. PICK i2 \in 1 .. 2 + 3 * k : i2 = 3 * j + 1
        BY <2>1
      <4>3. PICK i3 \in 1 .. 2 + 3 * k : i3 = 3 * j + 2
        BY <2>1
      <4>4. /\ Holds(t, o + i1, "L", p.L_vec[j]) /\ Holds(t, o + i2, "R", p.R_vec[j])
            /\ Holds(t, o + i3, "u", us[j])
        BY <1>14, <3>1, <4>1, <4>2, <4>3, Zenon
      <4> QED BY <4>1, <4>2, <4>3, <4>4, Zenon
    <3> QED BY <2>1, <3>2
  <2>3. m + 3 <= Len(t)
    BY <1>13, <2>1
  <2>4. Replayed(FirstOf(t, m), p.L_vec[j], p.R_vec[j], t, unrelated) = FirstOf(t, m + 3)
    <3>1. PICK q, L, R, u : q = t /\ L = p.L_vec[j] /\ R = p.R_vec[j] /\ u = us[j]
      OBVIOUS
    <3>2. /\ IsSequence(q) /\ m + 3 <= Len(q) /\ Holds(q, m + 1, "L", L)
          /\ Holds(q, m + 2, "R", R) /\ Holds(q, m + 3, "u", u)
      BY <1>13, <2>2, <2>3, <3>1
    <3>3. Replayed(FirstOf(q, m), L, R, q, unrelated) = FirstOf(q, m + 3)
      BY <3>2, ReplaysOne
    <3> QED BY <3>1, <3>3
  <2>5. pre[j] = FirstOf(t, m + 3) /\ pre[j - 1] = FirstOf(t, m)
    BY <1>3, <2>1
  <2> QED BY <2>4, <2>5
<1>6. P(pre)
  <2>1. \A j \in 0..k : j = 0 \/ j \in 1..k
    OBVIOUS
  <2>2. \A j \in 0..k :
           pre[j] = IF j = 0 THEN innerproduct_domain_sep(told, n)
                    ELSE Replayed(pre[j - 1], p.L_vec[j], p.R_vec[j], t, unrelated)
    BY <1>4, <1>5, <2>1, Zenon
  <2> QED BY <1>3, <2>2, Zenon
<1>7. P(at)
  BY <1>6, Zenon
<1>8. ReplayRounds(p, n, told, t, unrelated) = at[k]
  BY <1>19 DEF ReplayRounds, Replayed
<1> HIDE DEF at
<1> DEFINE T == {j \in 0..k : at[j] = pre[j]}
<1>9. 0 \in T
  BY <1>4, <1>7
<1>10. ASSUME NEW j \in 0..(k - 1), j \in T PROVE j + 1 \in T
  <2>1. j + 1 \in 0..k /\ j + 1 # 0 /\ (j + 1) - 1 = j /\ j + 1 \in 1..k
    OBVIOUS
  <2>2. at[j + 1] = Replayed(at[j], p.L_vec[j + 1], p.R_vec[j + 1], t, unrelated)
    BY <1>7, <2>1
  <2>3. pre[j + 1] = Replayed(pre[j], p.L_vec[j + 1], p.R_vec[j + 1], t, unrelated)
    BY <1>5, <2>1
  <2> QED BY <1>10, <2>1, <2>2, <2>3
<1>11. \A j \in 0..k : j \in T
  <2> HIDE DEF T
  <2> QED BY <1>9, <1>10, InductionUpTo
<1>12. at[k] = pre[k] /\ pre[k] = FirstOf(t, Len(t))
  <2>1. k \in 0..k
    OBVIOUS
  <2> QED BY <1>3, <1>11, <1>13, <2>1
<1> QED BY <1>8, <1>12, <1>13, AllOf

\* A challenge the rest of the prover's transcript tells is the one it drew.
LEMMA ChallengeIs ==
  ASSUME NEW t, IsSequence(t), NEW rest, IsSequence(rest), NEW label, NEW c,
         Extends(Append(t, <<label, c>>), rest), NEW unrelated
  PROVE  /\ Append1(t, label, challenge_scalar(t, rest, unrelated, label))
              = Append(t, <<label, c>>)
         /\ IsSequence(Append(t, <<label, c>>))
<1>8. PICK m \in Nat : m = Len(t)
  BY LenOfSequence
<1>1. PICK e, q : e = <<label, c>> /\ q = Append(t, e) /\ m = Len(t)
  BY <1>8
<1>2. /\ IsSequence(q) /\ Len(q) = m + 1 /\ q[m + 1] = e
      /\ \A i \in 1..m : q[i] = t[i]
  <2>1. Longer(q, t, e)
    BY <1>1 DEF Longer
  <2>2. q[Len(t) + 1] = e /\ \A i \in 1..Len(t) : q[i] = t[i]
    BY <2>1, AppendAt
  <2>3. IsSequence(Append(t, e)) /\ Len(Append(t, e)) = Len(t) + 1
    BY AppendIsSequence
  <2> QED BY <1>1, <2>2, <2>3
<1>3. DOMAIN q = 1 .. m + 1 /\ Len(rest) \in Nat /\ DOMAIN rest = 1..Len(rest)
  BY <1>2, SequenceDomain
<1>4. \A i \in 1 .. m + 1 : i \in 1..Len(rest) /\ rest[i] = q[i]
  BY <1>1, <1>3 DEF Extends
<1>5. m + 1 <= Len(rest) /\ rest[m + 1] = e
  BY <1>2, <1>4
<1>6. SubSeq(rest, 1, m) = t
  <2>1. t = [i \in 1..m |-> t[i]]
    BY <1>1 DEF IsSequence
  <2>2. t = FirstOf(rest, m)
    BY <1>2, <1>4, <2>1 DEF FirstOf
  <2> QED BY <1>5, <2>2, FirstIs
<1>7. challenge_scalar(t, rest, unrelated, label) = c
  <2>1. e[1] = label /\ e[2] = c
    BY <1>1, PairDomain
  <2>2. (m + 1) - 1 = m
    OBVIOUS
  <2> QED BY <1>1, <1>5, <1>6, <2>1, <2>2 DEF challenge_scalar
<1> QED BY <1>1, <1>2, <1>7 DEF Append1

\* A prefix of a prefix is a prefix.
LEMMA ExtendsTransitive ==
  ASSUME NEW a, NEW b, NEW c, Extends(a, b), Extends(b, c)
  PROVE  Extends(a, c)
BY DEF Extends

\* What the verifier computes for the argument made.
ScalarsOf(vs, made, k, told, unrelated) ==
    vs = verification_scalars(IPPProof(made), 2^k, told, made.transcript, unrelated)

\* The scalars it has for the argument are those of the prover's challenges.
LEMMA ScalarsAre ==
  ASSUME NEW told, IsSequence(told), NEW k \in Nat, NEW v, NEW Qp \in Point, NEW us,
         NEW made, NEW s, Created(made, s, told, v, Qp, us, k), NEW unrelated,
         NEW vs, ScalarsOf(vs, made, k, told, unrelated)
  PROVE  vs.u_sq = Squares(us) /\ vs.u_inv_sq = InverseSquares(us) /\ vs.s = SVector(us)
<1>1. PICK r, n, p : r = s.transcript /\ n = 2^k /\ p = IPPProof(made)
  OBVIOUS
<1>2. IsSequence(r) /\ Recorded(s, us, k, n) /\ ChallengesOf(r, "u") = us
  <2>1. 1 * 2^k = n
    BY <1>1, PowerOfTwoType
  <2> QED BY <1>1, <2>1 DEF Created, KeptBy
<1>3. PICK t : t = made.transcript
  OBVIOUS
<1>4. t = told \o r /\ made.L_vec = s.L_vec /\ made.R_vec = s.R_vec
  BY <1>1, <1>3 DEF Created, StartsAfter
<1>5. p.L_vec = s.L_vec /\ p.R_vec = s.R_vec
  BY <1>1, <1>4 DEF IPPProof
<1>6. Len(p.L_vec) = k
  <2>1. s.L_vec \in [1..k -> Point]
    BY DEF Created, KeptBy, PointVec
  <2>2. PICK L : L = s.L_vec
    OBVIOUS
  <2>3. L \in [1..k -> Point] => Len(L) = k
    OBVIOUS
  <2> QED BY <1>5, <2>1, <2>2, <2>3
<1>7. ReplayRounds(p, n, told, t, unrelated) = t
  <2>1. IsTold(t, told, s, us, k, n, p)
    BY <1>1, <1>2, <1>4, <1>5, <1>6 DEF IsTold
  <2> QED BY <2>1, ReplayFrom
<1>8. SubSeq(t, Len(told) + 1, Len(t)) = r
  BY <1>2, <1>4, Suffix
<1>9. vs = verification_scalars(p, n, told, t, unrelated)
  BY <1>1, <1>3 DEF ScalarsOf
<1>10. vs = [u_sq |-> Times(us, us),
             u_inv_sq |-> [h \in DOMAIN us |-> Invert(us[h]) ** Invert(us[h])],
             s |-> SVector(us)]
  BY <1>2, <1>7, <1>8, <1>9 DEF verification_scalars
<1> QED BY <1>1, <1>3, <1>9, <1>10 DEF Squares, InverseSquares

\* A power of two is halved as often as its exponent says.
LEMMA RoundsOfPower ==
  ASSUME NEW k \in Nat
  PROVE  Rounds(2^k) = k
<1>1. PICK p \in Nat : p = 2^k /\ k < p
  BY PowerOfTwoType, PowerOfTwoGrows
<1> DEFINE Fits2(j) == 2^j >= p /\ \A l \in 0 .. j - 1 : 2^l < p
<1>2. ASSUME NEW j \in Nat, j < k PROVE 2^j \in Nat /\ 2^j < p
  <2>1. PICK q \in Nat : q = 2^j /\ 1 <= q /\ 2^(j + 1) = 2 * q
    BY PowerOfTwoType, PowerOfTwoGrows, PowerOfTwoNext
  <2>2. j + 1 \in Nat /\ j + 1 <= k
    BY <1>2
  <2>3. 2^(j + 1) <= 2^k
    BY <2>2, PowerOfTwoOrders
  <2> QED BY <1>1, <2>1, <2>3
<1>3. k \in 0..p /\ Fits2(k)
  BY <1>1, <1>2
<1>4. ASSUME NEW j \in 0..p, Fits2(j) PROVE j = k
  <2>1. ~(j < k)
    <3>1. CASE j < k
      <4>1. 2^j \in Nat /\ 2^j < p /\ 2^j >= p
        BY <1>2, <1>4, <3>1
      <4> QED BY <1>1, <4>1
    <3> QED BY <3>1
  <2>2. ~(k < j)
    <3>1. CASE k < j
      <4>1. k \in 0 .. j - 1
        BY <3>1
      <4>2. 2^k < p
        BY <1>4, <4>1
      <4> QED BY <1>1, <4>2
    <3> QED BY <3>1
  <2> QED BY <2>1, <2>2
<1>5. Rounds(p) = CHOOSE j \in 0..p : Fits2(j)
  BY DEF Rounds
<1> HIDE DEF Fits2
<1> QED BY <1>1, <1>3, <1>4, <1>5

\* A product of powers of two is one, and its exponent the number of rounds.
LEMMA ProductOfPowers ==
  ASSUME NEW n \in Nat, NEW m \in Nat, IsPowerOfTwo(n), IsPowerOfTwo(m)
  PROVE  \E k \in Nat : n * m = 2^k /\ Rounds(n * m) = k
<1>1. PICK a \in Nat, b \in Nat : n = 2^a /\ m = 2^b
  BY DEF IsPowerOfTwo
<1> DEFINE S == {c \in Nat : n * 2^c = 2^(a + c)}
<1>2. 0 \in S
  <2>1. a + 0 = a /\ n * 1 = n
    OBVIOUS
  <2> QED BY <1>1, <2>1, PowerOfTwoZero
<1>3. ASSUME NEW c \in Nat, c \in S PROVE c + 1 \in S
  <2>5. PICK d \in Nat : d = a + c
    OBVIOUS
  <2>6. 2^c \in Nat /\ 2^d \in Nat /\ 2^(c + 1) = 2 * 2^c /\ 2^(d + 1) = 2 * 2^d
    BY PowerOfTwoType, PowerOfTwoNext
  <2>1. PICK p \in Nat, q \in Nat : p = 2^c /\ q = 2^(a + c) /\ 2^(c + 1) = 2 * p
                                    /\ 2^((a + c) + 1) = 2 * q
    BY <2>5, <2>6
  <2>2. n * p = q
    BY <1>3, <2>1
  <2>3. n * (2 * p) = 2 * q
    <3>1. PICK r \in Nat : r = n * p
      OBVIOUS
    <3>2. 2 * p = p + p /\ n * (p + p) = n * p + n * p
      OBVIOUS
    <3> QED BY <2>2, <3>1, <3>2
  <2>4. a + (c + 1) = (a + c) + 1
    OBVIOUS
  <2> QED BY <2>1, <2>3, <2>4
<1>4. b \in S
  <2> HIDE DEF S
  <2>1. \A c \in Nat : c \in S
    BY <1>2, <1>3, InductionOnNat
  <2> QED BY <2>1
<1>5. n * m = 2^(a + b) /\ a + b \in Nat
  BY <1>1, <1>4
<1> QED BY <1>5, RoundsOfPower

-----------------------------------------------------------------------------
(* Vectors in blocks: m parties with n entries each.                       *)

\* Where the entry of index i of the party at position j is.
At1(n, j, i) == j * n + i

\* Every place is one entry of one party.
LEMMA PlaceIs ==
  ASSUME NEW n \in Nat \ {0}, NEW m \in Nat
  PROVE  /\ \A j \in 0 .. m - 1, i \in 1..n :
                /\ At1(n, j, i) \in 1 .. n * m
                /\ (At1(n, j, i) - 1) \div n = j
                /\ ((At1(n, j, i) - 1) % n) + 1 = i
         /\ \A k \in 1 .. n * m :
                /\ (k - 1) \div n \in 0 .. m - 1
                /\ ((k - 1) % n) + 1 \in 1..n
                /\ k = At1(n, (k - 1) \div n, ((k - 1) % n) + 1)
<1>1. ASSUME NEW j \in 0 .. m - 1, NEW i \in 1..n
      PROVE  /\ At1(n, j, i) \in 1 .. n * m
             /\ (At1(n, j, i) - 1) \div n = j
             /\ ((At1(n, j, i) - 1) % n) + 1 = i
  <2>1. PICK r \in 0 .. n - 1 : r = i - 1
    OBVIOUS
  <2>2. j \in Nat /\ j + 1 <= m /\ j * n \in Nat
    OBVIOUS
  <2>3. (j + 1) * n <= m * n
    BY <2>2, TimesGrows
  <2>4. (j + 1) * n = j * n + n /\ m * n = n * m
    BY <2>2
  <2>5. At1(n, j, i) \in 1 .. n * m
    <3>1. j * n + i \in Nat /\ 1 <= j * n + i /\ j * n + i <= n * m
      BY <2>2, <2>3, <2>4
    <3> QED BY <3>1 DEF At1
  <2>6. At1(n, j, i) - 1 = j * n + r
    BY <2>1, <2>2 DEF At1
  <2>7. (j * n + r) % n = r
    BY <2>2, ModUnique
  <2>8. (j * n + r) \div n = j
    <3>1. PICK q, x \in Int : x = j * n + r /\ q = x \div n
      OBVIOUS
    <3>2. q \in Int /\ x = q * n + (x % n)
      BY <3>1, DivMod
    <3>3. q * n = j * n
      BY <2>2, <2>7, <3>1, <3>2
    <3>4. q = j
      BY <2>2, <3>2, <3>3
    <3> QED BY <3>1, <3>4
  <2>9. PICK e : e = At1(n, j, i) - 1 /\ e = j * n + r
    BY <2>6
  <2>10. e % n = r /\ e \div n = j
    BY <2>7, <2>8, <2>9
  <2>11. (At1(n, j, i) - 1) \div n = j /\ (At1(n, j, i) - 1) % n = r
    BY <2>9, <2>10
  <2>12. r + 1 = i
    BY <2>1
  <2> QED BY <2>5, <2>11, <2>12, Zenon
<1>2. ASSUME NEW k \in 1 .. n * m
      PROVE  /\ (k - 1) \div n \in 0 .. m - 1
             /\ ((k - 1) % n) + 1 \in 1..n
             /\ k = At1(n, (k - 1) \div n, ((k - 1) % n) + 1)
  <2>1. PICK x \in Int : x = k - 1 /\ 0 <= x /\ x < n * m
    OBVIOUS
  <2>2. PICK q \in Int, r \in 0 .. n - 1 : q = x \div n /\ r = x % n /\ x = q * n + r
    BY DivMod
  <2>3. 0 <= q
    <3>1. CASE q <= 0 - 1
      <4>1. PICK s \in Nat : s = -q /\ 1 <= s
        BY <3>1
      <4>2. 1 * n <= s * n
        BY <4>1, TimesGrows
      <4>3. 1 * n = n
        OBVIOUS
      <4>4. q * n = -(s * n)
        <5>1. q = -s
          BY <2>2, <4>1
        <5>2. (-s) * n = -(s * n)
          OBVIOUS
        <5> QED BY <5>1, <5>2
      <4>5. PICK u, w \in Int : u = s * n /\ w = q * n
        BY <2>2, <4>1
      <4> QED BY <2>1, <2>2, <4>2, <4>3, <4>4, <4>5
    <3> QED BY <2>2, <3>1
  <2>4. q < m
    <3>1. CASE m <= q
      <4>1. m * n <= q * n
        BY <2>3, <3>1, TimesGrows
      <4> QED BY <2>1, <2>2, <4>1
    <3> QED BY <2>2, <3>1
  <2> QED BY <2>1, <2>2, <2>3, <2>4 DEF At1
<1> QED BY <1>1, <1>2

\* The part of a vector that is the k-th party's.
Block(f, n, k) == [i \in 1..n |-> f[At1(n, k - 1, i)]]

\* It is a vector of its own.
LEMMA BlockType ==
  ASSUME NEW n \in Nat \ {0}, NEW m \in Nat, NEW f \in Vec(n * m), NEW k \in 1..m
  PROVE  Block(f, n, k) \in Vec(n)
<1>1. k - 1 \in 0 .. m - 1
  OBVIOUS
<1>2. \A i \in 1..n : At1(n, k - 1, i) \in 1 .. n * m
  BY <1>1, PlaceIs
<1> QED BY <1>2 DEF Block, Vec

\* The sum of a vector is the sum of the sums of its blocks.
LEMMA SumOfBlocks ==
  ASSUME NEW n \in Nat \ {0}, NEW m \in Nat, NEW f \in Vec(n * m), NEW v \in Vec(m),
         \A k \in 1..m : v[k] = SumOf(Block(f, n, k))
  PROVE  SumOf(f) = SumOf(v)
<1> DEFINE First(k) == [i \in 1 .. n * k |-> f[i]]
           t == [k \in 0..m |-> SumOf(First(k))]
<1>1. ASSUME NEW k \in 0..m PROVE n * k \in Nat /\ First(k) \in Vec(n * k)
  <2>1. k * n <= m * n
    BY TimesGrows
  <2>2. k \in Nat /\ n * k = k * n /\ n * m = m * n /\ n * k \in Nat /\ n * m \in Nat
    OBVIOUS
  <2>3. 1 .. n * k \subseteq 1 .. n * m
    BY <2>1, <2>2
  <2> QED BY <2>2, <2>3 DEF Vec
<1>2. t[0] = 0
  <2>1. n * 0 = 0 /\ 0 \in 0..m
    OBVIOUS
  <2>2. First(0) \in Vec(0)
    BY <1>1, <2>1
  <2>3. SumOf(First(0)) = 0
    <3> HIDE DEF First
    <3> QED BY <2>2, SumOfNothing
  <2> QED BY <2>1, <2>3
<1>3. ASSUME NEW k \in 1..m PROVE t[k] = t[k - 1] ++ v[k]
  <2>1. k - 1 \in 0..m /\ k \in 0..m /\ k - 1 \in 0 .. m - 1
    OBVIOUS
  <2>2. PICK j \in Nat, a \in Nat, b \in Nat : j = k - 1 /\ a = n * (k - 1) /\ b = n * k
    BY <1>1, <2>1
  <2>3. b = a + n /\ a = j * n
    BY <2>2
  <2>4. First(k) \in Vec(a + n) /\ First(k - 1) \in Vec(a)
    <3> HIDE DEF First
    <3> QED BY <1>1, <2>1, <2>2, <2>3
  <2>5. \A i \in 1..a : First(k)[i] = First(k - 1)[i]
    BY <2>2, <2>3
  <2>6. \A i \in 1..n : First(k)[a + i] = Block(f, n, k)[i]
    <3>1. ASSUME NEW i \in 1..n PROVE First(k)[a + i] = Block(f, n, k)[i]
      <4>1. a + i \in 1 .. n * k
        BY <2>2, <2>3
      <4>2. At1(n, k - 1, i) = a + i
        BY <2>2, <2>3 DEF At1
      <4> QED BY <4>1, <4>2 DEF Block
    <3> QED BY <3>1
  <2>7. Block(f, n, k) \in Vec(n)
    BY BlockType
  <2>8. SumOf(First(k)) = SumOf(First(k - 1)) ++ SumOf(Block(f, n, k))
    <3> HIDE DEF First
    <3> QED BY <2>4, <2>5, <2>6, <2>7, SumThen
  <2> QED BY <2>1, <2>8
<1>4. Sums(t, m, v)
  <2> HIDE DEF t
  <2> QED BY <1>2, <1>3 DEF Sums
<1>5. SumOf(v) = t[m]
  <2> HIDE DEF t
  <2> QED BY <1>4, SumUnique
<1>6. First(m) = f
  BY DEF Vec
<1>7. t[m] = SumOf(First(m))
  OBVIOUS
<1> QED BY <1>5, <1>6, <1>7
================================================================================
