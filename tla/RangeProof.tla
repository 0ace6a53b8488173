------------------------------ MODULE RangeProof -------------------------------
(***************************************************************************)
(* What the parties, the dealer and the verifier of an aggregated range    *)
(* proof compute (crates/bulletproofs-vendor/src/range_proof).  Positions  *)
(* j are numbered from 0, as in the code; vectors of messages from 1.      *)
(***************************************************************************)
EXTENDS InnerProductProof

CONSTANTS
    BitSizes,       \* the bit sizes the protocol accepts
    Draw(_, _)      \* Draw(j, k): the k-th scalar party j's generator yields

\* The code's are 8, 16, 32 and 64.
ASSUME BitSizesAssumption ==
    BitSizes \subseteq Nat \ {0} /\ \A n \in BitSizes : IsPowerOfTwo(n)
\* The group's order has 253 bits: two is not a multiple of it.
ASSUME LargeOrderAssumption == 2 < Order
\* Scalar::random reduces what the generator yields modulo the order.
ASSUME DrawAssumption ==
    \A j \in 0..PartyCapacity, k \in 0 .. 2 * GensCapacity + 4 : Draw(j, k) \in Scalar

Bit(v, i) == (v \div 2^i) % 2

\* The checks the prover and the verifier share; verification does not ask
\* that m be a power of two.
SizesRefused(n, m) ==
    IF n \notin BitSizes THEN "InvalidBitsize"
    ELSE IF GensCapacity < n \/ PartyCapacity < m THEN "InvalidGeneratorsLength"
    ELSE "none"

\* Dealer::new looks at m before it looks at the generators.
DealerRefuses(n, m) ==
    IF n \in BitSizes /\ ~IsPowerOfTwo(m) THEN "InvalidAggregation"
    ELSE SizesRefused(n, m)

-----------------------------------------------------------------------------
(* The party.                                                              *)

\* What a party draws, in the order it draws it: blindings of A and S, then
\* s_L and s_R; after the bit challenge, blindings of T_1 and T_2.
v_blinding(j) == Draw(j, 0)
a_blinding(j) == Draw(j, 1)
s_blinding(j) == Draw(j, 2)
s_L(j, n) == [i \in 1..n |-> Draw(j, 2 + i)]
s_R(j, n) == [i \in 1..n |-> Draw(j, 2 + n + i)]
t_blinding(j, k, n) == Draw(j, 2 + 2 * n + k)

\* A commits to the low n bits of v, whatever v is; V to v itself.
BitCommitment(j, v, n) ==
    LET G == ShareGens("G", j, n)
        H == ShareGens("H", j, n)
        A_j == SumOfPoints(
                 <<multiscalar_mul(<<a_blinding(j)>>, <<B_blinding>>)>> \o
                 [i \in 1..n |-> IF Bit(v, i - 1) = 1 THEN G[i]
                                 ELSE multiscalar_mul(<<Neg(1)>>, <<H[i]>>)])
    IN  [V_j |-> commit(v % Order, v_blinding(j)),
         A_j |-> A_j,
         S_j |-> multiscalar_mul(<<s_blinding(j)>> \o s_L(j, n) \o s_R(j, n),
                                 <<B_blinding>> \o G \o H)]

\* Mutant of HonestSessionsVerify: every party starts with y^0.
PolynomialsUnshifted(j, v, n, y, z) ==
    LET exp_y == exp_iter(y, n)
        exp_2 == exp_iter(2, n)
        offset_zz == (z ** z) ** scalar_exp_vartime(z, j)
        l == <<[i \in 1..n |-> Bit(v, i - 1) -- z], s_L(j, n)>>
        r == <<[i \in 1..n |-> exp_y[i] ** ((Bit(v, i - 1) -- 1) ++ z)
                                  ++ offset_zz ** exp_2[i]],
               Times(exp_y, s_R(j, n))>>
    IN  [l |-> l, r |-> r, t |-> VecPoly1InnerProduct(l, r), offset_zz |-> offset_zz]

\* apply_challenge of the bit challenge: the polynomials l, r and t of the
\* party at position j, its part of the powers of y and z starting at j.
Polynomials(j, v, n, y, z) ==
    LET exp_y == Scale(scalar_exp_vartime(y, j * n), exp_iter(y, n))
        exp_2 == exp_iter(2, n)
        offset_zz == (z ** z) ** scalar_exp_vartime(z, j)
        a_L == [i \in 1..n |-> Bit(v, i - 1)]
        l_poly == <<[i \in 1..n |-> a_L[i] -- z], s_L(j, n)>>
        r_poly == <<[i \in 1..n |-> exp_y[i] ** ((a_L[i] -- 1) ++ z)
                                      ++ offset_zz ** exp_2[i]],
                    Times(exp_y, s_R(j, n))>>
    IN  [l |-> l_poly, r |-> r_poly, t |-> VecPoly1InnerProduct(l_poly, r_poly),
         offset_zz |-> offset_zz]

PolyCommitment(j, p, n) ==
    [T_1_j |-> commit(p.t[2], t_blinding(j, 1, n)),
     T_2_j |-> commit(p.t[3], t_blinding(j, 2, n))]

\* apply_challenge of the poly challenge, x not zero.
ProofShare(j, p, n, x) ==
    [t_x |-> PolyEval(p.t, x),
     t_x_blinding |-> PolyEval(<<p.offset_zz ** v_blinding(j),
                                 t_blinding(j, 1, n), t_blinding(j, 2, n)>>, x),
     e_blinding |-> a_blinding(j) ++ s_blinding(j) ** x,
     l_vec |-> VecPolyEval(p.l, x),
     r_vec |-> VecPolyEval(p.r, x)]

-----------------------------------------------------------------------------
(* The dealer's checks of a share.                                         *)

SizeIsRight(share, n, j) ==
    /\ Len(share.l_vec) = n
    /\ Len(share.r_vec) = n
    /\ n <= GensCapacity
    /\ j < PartyCapacity

\* Mutant of AuditNamesTheDeviants: T_1_j and T_2_j are not looked at.
AuditOfVectors(share, j, bit, poly, y, z, x) ==
    LET n == Len(share.l_vec)
        y_inv == Scale(Invert(scalar_exp_vartime(y, j * n)), exp_iter(Invert(y), n))
        z_j == (z ** z) ** scalar_exp_vartime(z, j)
    IN  /\ SizeIsRight(share, n, j)
        /\ share.t_x = inner_product(share.l_vec, share.r_vec)
        /\ Identity = multiscalar_mul(
               <<1, x, Neg(share.e_blinding)>>
                   \o [i \in 1..n |-> Neg(z) -- share.l_vec[i]]
                   \o [i \in 1..n |-> z ++ y_inv[i] **
                          (z_j ** exp_iter(2, n)[i] -- share.r_vec[i])],
               <<bit.A_j, bit.S_j, B_blinding>>
                   \o ShareGens("G", j, n) \o ShareGens("H", j, n))

\* audit_share: the share at position j against the messages at position j.
AuditPasses(share, j, bit, poly, y, z, x) ==
    LET n == Len(share.l_vec)
        zz == z ** z
        z_j == scalar_exp_vartime(z, j)
        y_jn == scalar_exp_vartime(y, j * n)
        y_inv == exp_iter(Invert(y), n)
        exp_2 == exp_iter(2, n)
        g == [i \in 1..n |-> Neg(z) -- share.l_vec[i]]
        h == [i \in 1..n |->
                z ++ (y_inv[i] ** Invert(y_jn))
                        ** ((zz ** z_j) ** exp_2[i] -- share.r_vec[i])]
        delta == ((z -- zz) ** sum_of_powers(y, n)) ** y_jn
                    -- ((z ** zz) ** sum_of_powers(2, n)) ** z_j
    IN  /\ SizeIsRight(share, n, j)
        /\ share.t_x = inner_product(share.l_vec, share.r_vec)
        /\ Identity = multiscalar_mul(
               <<1, x, Neg(share.e_blinding)>> \o g \o h,
               <<bit.A_j, bit.S_j, B_blinding>>
                   \o ShareGens("G", j, n) \o ShareGens("H", j, n))
        /\ Identity = multiscalar_mul(
               <<zz ** z_j, x, x ** x, delta -- share.t_x,
                 Neg(share.t_x_blinding)>>,
               <<bit.V_j, poly.T_1_j, poly.T_2_j, B, B_blinding>>)

-----------------------------------------------------------------------------
(* A proof on its way: seven elements, then the inner-product proof's.     *)

range_to_bytes(p) ==
    <<p.A, p.S, p.T_1, p.T_2, p.t_x, p.t_x_blinding, p.e_blinding>>
        \o to_bytes(p.ipp)

RangeFormatError(elements) ==
    \/ Len(elements) < 7
    \/ IPPFormatError(SubSeq(elements, 8, Len(elements)))

range_from_bytes(e) ==
    [A |-> e[1], S |-> e[2], T_1 |-> e[3], T_2 |-> e[4],
     t_x |-> e[5], t_x_blinding |-> e[6], e_blinding |-> e[7],
     ipp |-> from_bytes(SubSeq(e, 8, Len(e)))]

-----------------------------------------------------------------------------
(* The verifier.                                                           *)

Delta(n, m, y, z) ==
    (z -- z ** z) ** sum_of_powers(y, n * m)
        -- (((z ** z) ** z) ** sum_of_powers(2, n)) ** sum_of_powers(z, m)

\* z^0 times the powers of two, then z^1 times them, and so on.
ConcatZAnd2(n, m, z) ==
    [k \in 1 .. n * m |->
        exp_iter(2, n)[((k - 1) % n) + 1] ** exp_iter(z, m)[(k - 1) \div n + 1]]

\* The transcript verify_multiple rebuilds from the proof and the commitments.
Replay(proof, Vs, n, rest, unrelated) ==
    LET Then(t, label) ==
            Append1(t, label, challenge_scalar(t, rest, unrelated, label))
        opened == rangeproof_domain_sep(<<>>, n, Len(Vs))
                      \o [j \in DOMAIN Vs |-> <<"V", Vs[j]>>]
                      \o <<<<"A", proof.A>>, <<"S", proof.S>>>>
        bits == Then(Then(opened, "y"), "z")
                    \o <<<<"T_1", proof.T_1>>, <<"T_2", proof.T_2>>>>
        shares == Then(bits, "x")
                    \o <<<<"t_x", proof.t_x>>,
                         <<"t_x_blinding", proof.t_x_blinding>>,
                         <<"e_blinding", proof.e_blinding>>>>
    IN  Then(shares, "w")

\* verify_multiple: one combination of every point of the proof, the range
\* statement weighted by c, the inner-product statement by w.
verify_multiple(proof, Vs, n, rest, unrelated, c) ==
    LET m == Len(Vs)
        transcript == Replay(proof, Vs, n, rest, unrelated)
        Drawn(label) == ChallengesOf(transcript, label)[1]
        y == Drawn("y")  z == Drawn("z")  x == Drawn("x")  w == Drawn("w")
        zz == z ** z
        vs == verification_scalars(proof.ipp, n * m, transcript, rest, unrelated)
        a == proof.ipp.a
        b == proof.ipp.b
        s_inv == Reversed(vs.s)
        y_inv == exp_iter(Invert(y), n * m)
        z_and_2 == ConcatZAnd2(n, m, z)
        g == [i \in 1 .. n * m |-> Neg(z) -- a ** vs.s[i]]
        h == [i \in 1 .. n * m |->
                z ++ y_inv[i] ** (zz ** z_and_2[i] -- b ** s_inv[i])]
    IN  /\ SizesRefused(n, m) = "none"
        /\ Identity \notin {proof.A, proof.S, proof.T_1, proof.T_2}
        /\ ~ScalarsRefused(proof.ipp, n * m)
        /\ Identity = multiscalar_mul(
               <<1, x, c ** x, (c ** x) ** x>> \o vs.u_sq \o vs.u_inv_sq
                   \o <<Neg(proof.e_blinding) -- c ** proof.t_x_blinding,
                        w ** (proof.t_x -- a ** b)
                            ++ c ** (Delta(n, m, y, z) -- proof.t_x)>>
                   \o g \o h \o Scale(c ** zz, exp_iter(z, m)),
               <<proof.A, proof.S, proof.T_1, proof.T_2>>
                   \o proof.ipp.L_vec \o proof.ipp.R_vec
                   \o <<B_blinding, B>>
                   \o AggregatedGens("G", n, m) \o AggregatedGens("H", n, m)
                   \o Vs)
================================================================================
