--------------------------- MODULE InnerProductProof ---------------------------
(***************************************************************************)
(* The inner-product argument (inner_product_proof.rs): the prover halves  *)
(* two vectors and the generators they are committed with until one entry  *)
(* of each is left; the verifier recomputes the challenges and checks all  *)
(* rounds with one combination of the original generators.                 *)
(***************************************************************************)
EXTENDS Points

Half(v, side) ==
    LET n == Len(v) \div 2
    IN  IF side = "L" THEN SubSeq(v, 1, n) ELSE SubSeq(v, n + 1, 2 * n)

Ones(n) == [i \in 1..n |-> 1]
Times(a, b) == [i \in DOMAIN a |-> a[i] ** b[i]]
Scale(x, v) == [i \in DOMAIN v |-> x ** v[i]]

\* The vectors at the start.  The factors scale the generators in the first
\* round only, which unrolls them; afterwards they are all one.
Vectors(G_factors, H_factors, G, H, a, b) ==
    [a |-> a, b |-> b, G |-> G, H |-> H, gf |-> G_factors, hf |-> H_factors]

\* The asserts of create.
CreatePanics(v) ==
    \/ \E f \in DOMAIN v : Len(v[f]) # Len(v.G)
    \/ ~IsPowerOfTwo(Len(v.G))

\* The cross terms of a round.
CrossL(v, Q) ==
    multiscalar_mul(
        Times(Half(v.a, "L"), Half(v.gf, "R"))
            \o Times(Half(v.b, "R"), Half(v.hf, "L"))
            \o <<inner_product(Half(v.a, "L"), Half(v.b, "R"))>>,
        Half(v.G, "R") \o Half(v.H, "L") \o <<Q>>)

CrossR(v, Q) ==
    multiscalar_mul(
        Times(Half(v.a, "R"), Half(v.gf, "L"))
            \o Times(Half(v.b, "L"), Half(v.hf, "R"))
            \o <<inner_product(Half(v.a, "R"), Half(v.b, "L"))>>,
        Half(v.G, "L") \o Half(v.H, "R") \o <<Q>>)

\* Mutant of RoundsKeepTheClaim: G is folded as H is.
FoldAlike(v, u) ==
    LET n == Len(v.a) \div 2
        u_inv == Invert(u)
        Folded(x, s, t) == [i \in 1..n |-> x[i] ** s ++ t ** x[n + i]]
        FoldedPoints(x, f) ==
            [i \in 1..n |-> multiscalar_mul(<<u ** f[i], u_inv ** f[n + i]>>,
                                            <<x[i], x[n + i]>>)]
    IN  [a |-> Folded(v.a, u, u_inv), b |-> Folded(v.b, u_inv, u),
         G |-> FoldedPoints(v.G, v.gf), H |-> FoldedPoints(v.H, v.hf),
         gf |-> Ones(n), hf |-> Ones(n)]

\* The four foldings by the round's challenge.
Fold(v, u) ==
    LET n == Len(v.a) \div 2
        u_inv == Invert(u)
        FoldScalars(x, s, t) ==
            [i \in 1..n |-> x[i] ** s ++ t ** x[n + i]]
        FoldPoints(x, f, s, t) ==
            [i \in 1..n |-> multiscalar_mul(<<s ** f[i], t ** f[n + i]>>,
                                            <<x[i], x[n + i]>>)]
    IN  [a |-> FoldScalars(v.a, u, u_inv),
         b |-> FoldScalars(v.b, u_inv, u),
         G |-> FoldPoints(v.G, v.gf, u_inv, u),
         H |-> FoldPoints(v.H, v.hf, u, u_inv),
         gf |-> Ones(n),
         hf |-> Ones(n)]

\* What create has after the rounds whose challenges are us: the vectors left,
\* the cross terms, and what it appended to the transcript it was given.
create(transcript, Q, v, us) ==
    LET after[k \in 0..Len(us)] ==
            IF k = 0
            THEN [v |-> v, L_vec |-> <<>>, R_vec |-> <<>>,
                  transcript |-> innerproduct_domain_sep(transcript, Len(v.G))]
            ELSE LET s == after[k - 1]
                     L == CrossL(s.v, Q)
                     R == CrossR(s.v, Q)
                 IN  [v |-> Fold(s.v, us[k]),
                      L_vec |-> Append(s.L_vec, L),
                      R_vec |-> Append(s.R_vec, R),
                      transcript |-> s.transcript \o
                          <<<<"L", L>>, <<"R", R>>, <<"u", us[k]>>>>]
    IN  after[Len(us)]

\* How often a vector of length n is halved: lg of the next power of two.
Rounds(n) == CHOOSE k \in 0..n : 2^k >= n /\ \A l \in 0 .. k - 1 : 2^l < n

IPPProof(s) == [L_vec |-> s.L_vec, R_vec |-> s.R_vec,
                a |-> s.v.a[1], b |-> s.v.b[1]]

-----------------------------------------------------------------------------
(* A proof on its way: the sequence of its 32-byte elements.               *)

to_bytes(proof) ==
    LET k == Len(proof.L_vec)
        Cross(i) == IF i % 2 = 1 THEN proof.L_vec[(i + 1) \div 2]
                                 ELSE proof.R_vec[i \div 2]
    IN  [i \in 1 .. 2 * k |-> Cross(i)] \o <<proof.a, proof.b>>

\* Two scalars after an even number of points, of which there are not too many.
IPPFormatError(elements) ==
    \/ Len(elements) < 2
    \/ (Len(elements) - 2) % 2 # 0
    \/ (Len(elements) - 2) \div 2 >= 32

from_bytes(elements) ==
    LET lg_n == (Len(elements) - 2) \div 2
    IN  [L_vec |-> [i \in 1..lg_n |-> elements[2 * i - 1]],
         R_vec |-> [i \in 1..lg_n |-> elements[2 * i]],
         a |-> elements[2 * lg_n + 1], b |-> elements[2 * lg_n + 2]]

-----------------------------------------------------------------------------
(* The verifier.  rest is the prover's transcript, as in challenge_scalar. *)

\* The transcript after the first k cross terms were replayed.
ReplayRounds(proof, n, transcript, rest, unrelated) ==
    LET at[k \in 0..Len(proof.L_vec)] ==
            IF k = 0 THEN innerproduct_domain_sep(transcript, n)
            ELSE LET t == at[k - 1] \o
                          <<<<"L", proof.L_vec[k]>>, <<"R", proof.R_vec[k]>>>>
                 IN  Append1(t, "u", challenge_scalar(t, rest, unrelated, "u"))
    IN  at[Len(proof.L_vec)]

\* Mutant of HonestProofsVerify: cross terms are not validated.
ScalarsOfWrongSize(proof, n) ==
    Len(proof.L_vec) >= 32 \/ n # 2^Len(proof.L_vec)

\* The length the verifier was asked for must be the one the proof is for,
\* and no cross term may be the identity.
ScalarsRefused(proof, n) ==
    \/ Len(proof.L_vec) >= 32
    \/ n # 2^Len(proof.L_vec)
    \/ \E k \in DOMAIN proof.L_vec :
           Identity \in {proof.L_vec[k], proof.R_vec[k]}

\* Mutant of ScalarsFoldTheGenerators: the challenges are taken from the last.
SVectorBackwards(us) ==
    LET lg_n == Len(us)
        Bit(i, k) == (i \div 2^k) % 2
        entry[i \in 0 .. 2^lg_n - 1, k \in 0..lg_n] ==
            IF k = 0 THEN 1
            ELSE entry[i, k - 1] ** (IF Bit(i, k - 1) = 1 THEN us[k] ELSE Invert(us[k]))
    IN  [i \in 1 .. 2^lg_n |-> entry[i - 1, lg_n]]

\* s[i + 1], from s[1] the inverse of the product of all challenges, the
\* challenge of i's leading bit squared times the entry that lacks it.
SVector(us) ==
    LET lg_n == Len(us)
        product[k \in 0..lg_n] == IF k = 0 THEN 1 ELSE product[k - 1] ** us[k]
        LeadingBit(i) == CHOOSE k \in 0..i : 2^k <= i /\ i < 2^(k + 1)
        s[i \in 0 .. 2^lg_n - 1] ==
            IF i = 0 THEN Invert(product[lg_n])
            ELSE LET lg_i == LeadingBit(i)
                     u == us[(lg_n - 1) - lg_i + 1]
                 IN  s[i - 2^lg_i] ** (u ** u)
    IN  [i \in 1 .. 2^lg_n |-> s[i - 1]]

Reversed(v) == [i \in DOMAIN v |-> v[Len(v) + 1 - i]]

\* The challenges of one label a transcript yielded, in their order.
ChallengesOf(transcript, label) ==
    LET drawn[k \in 0..Len(transcript)] ==
            IF k = 0 THEN <<>>
            ELSE IF transcript[k][1] = label
                 THEN Append(drawn[k - 1], transcript[k][2])
                 ELSE drawn[k - 1]
    IN  drawn[Len(transcript)]

\* The transcript may hold other challenges called u from before the argument.
verification_scalars(proof, n, transcript, rest, unrelated) ==
    LET replayed == ReplayRounds(proof, n, transcript, rest, unrelated)
        us == ChallengesOf(SubSeq(replayed, Len(transcript) + 1, Len(replayed)), "u")
    IN  [u_sq |-> Times(us, us),
         u_inv_sq |-> [k \in DOMAIN us |-> Invert(us[k]) ** Invert(us[k])],
         s |-> SVector(us)]

\* Mutant of OnlyTheProvedClaimVerifies: a is taken for both vectors.
verifyWithOneScalar(proof, n, transcript, rest, unrelated, G_factors, H_factors, P, Q, G, H) ==
    LET vs == verification_scalars(proof, n, transcript, rest, unrelated)
        Negated(v) == [k \in DOMAIN v |-> Neg(v[k])]
    IN  /\ ~ScalarsRefused(proof, n)
        /\ P = multiscalar_mul(
                   <<proof.a ** proof.b>>
                       \o Times(Scale(proof.a, vs.s), G_factors)
                       \o Times(Scale(proof.a, Reversed(vs.s)), H_factors)
                       \o Negated(vs.u_sq) \o Negated(vs.u_inv_sq),
                   <<Q>> \o G \o H \o proof.L_vec \o proof.R_vec)

verify(proof, n, transcript, rest, unrelated, G_factors, H_factors, P, Q, G, H) ==
    LET vs == verification_scalars(proof, n, transcript, rest, unrelated)
        Negated(v) == [k \in DOMAIN v |-> Neg(v[k])]
    IN  /\ ~ScalarsRefused(proof, n)
        /\ P = multiscalar_mul(
                   <<proof.a ** proof.b>>
                       \o Times(Scale(proof.a, vs.s), G_factors)
                       \o Times(Scale(proof.b, Reversed(vs.s)), H_factors)
                       \o Negated(vs.u_sq) \o Negated(vs.u_inv_sq),
                   <<Q>> \o G \o H \o proof.L_vec \o proof.R_vec)
================================================================================
