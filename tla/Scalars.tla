-------------------------------- MODULE Scalars --------------------------------
(***************************************************************************)
(* The arithmetic the Bulletproofs crate is built on                       *)
(* (crates/bulletproofs-vendor/src/util.rs and the inner product of        *)
(* inner_product_proof.rs).  A scalar is an integer below Order, the prime *)
(* order of the group; a vector of scalars is a sequence.  The prime of    *)
(* ristretto255 is out of TLC's integers: any prime below 46341 keeps the  *)
(* products it computes within 32 bits.                                    *)
(***************************************************************************)
EXTENDS Naturals, Sequences

CONSTANT Order  \* the order of the group

ASSUME OrderAssumption == Order \in Nat \ {0, 1}
ASSUME PrimeAssumption == \A d \in 2 .. Order - 1 : Order % d # 0

Scalar == 0 .. Order - 1

a ++ b == (a + b) % Order
a ** b == (a * b) % Order
Neg(a) == (Order - a) % Order
a -- b == a ++ Neg(b)

\* The first n entries of a vector, added up in the order its loops take them.
SumOfFirst(n, v) ==
    LET total[k \in 0..n] == IF k = 0 THEN 0 ELSE total[k - 1] ++ v[k]
    IN  total[n]

SumOf(v) == SumOfFirst(Len(v), v)

SumUpTo(n, F(_)) == SumOfFirst(n, [k \in 1..n |-> F(k)])

\* Binary exponentiation: result gathers the squares of x that n's bits name.
scalar_exp_vartime(x, n) ==
    LET go[s \in Nat \X Scalar \X Scalar] ==
            LET left == s[1]  aux == s[2]  result == s[3] IN
            IF left = 0 THEN result
            ELSE go[<<left \div 2, aux ** aux,
                      IF left % 2 = 1 THEN result ** aux ELSE result>>]
    IN  go[<<n, x % Order, 1 % Order>>]

\* Zero has no inverse; curve25519-dalek's invert() returns zero for it.
Invert(x) == scalar_exp_vartime(x, Order - 2)

\* The first n powers of x, from x^0.
exp_iter(x, n) ==
    LET power[k \in 1..n] == IF k = 1 THEN 1 ELSE power[k - 1] ** x
    IN  [k \in 1..n |-> power[k]]

inner_product(a, b) == SumUpTo(Len(a), LAMBDA i : a[i] ** b[i])

add_vec(a, b) == [i \in 1..Len(b) |-> a[i] ++ b[i]]

IsPowerOfTwo(n) == \E k \in 0..n : n = 2^k

sum_of_powers_slow(x, n) == SumUpTo(n, LAMBDA k : exp_iter(x, n)[k])

\* Doubling: 1 + x, then (1 + x)(1 + x^2), ... while more than two are left.
sum_of_powers(x, n) ==
    LET double[s \in Nat \X Scalar \X Scalar] ==
            LET m == s[1]  result == s[2]  factor == s[3] ** s[3] IN
            IF m <= 2 THEN result
            ELSE double[<<m \div 2, result ++ factor ** result, factor>>]
    IN  IF ~IsPowerOfTwo(n) THEN sum_of_powers_slow(x, n)
        ELSE IF n = 1 THEN 1
        ELSE double[<<n, 1 ++ x, x>>]

-----------------------------------------------------------------------------
(* Vector polynomials are sequences of coefficient vectors, from degree 0; *)
(* scalar polynomials sequences of coefficients.                           *)

\* Karatsuba: the middle coefficient from one product of the sums.
VecPoly1InnerProduct(l, r) ==
    LET t0 == inner_product(l[1], r[1])
        t2 == inner_product(l[2], r[2])
        t1 == inner_product(add_vec(l[1], l[2]), add_vec(r[1], r[2]))
    IN  <<t0, (t1 -- t0) -- t2, t2>>

\* For l without a constant and r without a square term; from degree 1 to 6.
special_inner_product(l, r) ==
    <<inner_product(l[2], r[1]),
      inner_product(l[2], r[2]) ++ inner_product(l[3], r[1]),
      inner_product(l[3], r[2]) ++ inner_product(l[4], r[1]),
      inner_product(l[2], r[4]) ++ inner_product(l[4], r[2]),
      inner_product(l[3], r[4]),
      inner_product(l[4], r[4])>>

\* Horner's rule.
PolyEval(t, x) ==
    LET value[k \in 1..(Len(t) + 1)] ==
            IF k > Len(t) THEN 0 ELSE t[k] ++ x ** value[k + 1]
    IN  value[1]

\* Poly6 has no constant term.
Poly6Eval(t, x) == x ** PolyEval(t, x)

VecPolyEval(p, x) ==
    [i \in 1..Len(p[1]) |-> PolyEval([k \in 1..Len(p) |-> p[k][i]], x)]
================================================================================
