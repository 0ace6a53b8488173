---------------------- MODULE InnerProductArgumentProofs ----------------------
(***************************************************************************)
(* Three theorems about the inner-product argument, for every prime order  *)
(* of the group, every length, all vectors, factors and challenges: what a *)
(* round does keeps the claim true, the scalars the verifier computes from *)
(* the challenges alone fold the generators as the rounds did, and what    *)
(* was proved is accepted.                                                 *)
(* They rest on one invariant of the loop of create (KeptBy): of w * 2^k   *)
(* entries w are left after k rounds, the claim about them is the first    *)
(* claim and the cross terms weighted by the squares of the challenges,    *)
(* every one of the generators left is the combination of every w-th       *)
(* generator that the verifier's scalars give, and the transcript records  *)
(* the cross terms and the challenges in order. One round more (KeptStep)  *)
(* is where the arithmetic is; with one entry left the invariant is the    *)
(* equation verify checks (CombinationIsClaim).                            *)
(***************************************************************************)
EXTENDS InnerProductArgument, BulletproofLemmas

-----------------------------------------------------------------------------
(* The argument as a specification: the invariant and what follows from    *)
(* it.                                                                     *)

\* The challenges the prover has drawn so far.
Challenged == ChallengesOf(state.transcript, "u")

\* What create holds between two rounds.
Kept ==
    /\ IsSequence(state.transcript)
    /\ KeptBy(state, input, Q, Challenged, Len(Challenged), Len(state.v.a))
    /\ IsPowerOfTwo(Len(state.v.a))

\* What verify answered to the message it was given.
Judged ==
    /\ Len(state.v.a) = 1
    /\ altered \in Alterations
    /\ LET m == Received(altered) IN
       verdict = IF verify(m.proof, m.n, <<>>, state.transcript, Unrelated,
                           input.gf, input.hf, m.P, Q, input.G, input.H)
                 THEN "ok" ELSE "VerificationError"

\* The inductive invariant.
IInv ==
    /\ pc \in {"rounds", "done"} => Kept
    /\ pc = "done" => Judged

\* So is the base of the inner product.
LEMMA QType == Q \in Point
<1>1. B \in Point /\ B_blinding \in Point
  BY BaseType DEF B, B_blinding
<1>2. PICK pts : pts = <<B, B_blinding>>
  OBVIOUS
<1>3. PICK scs : scs = <<7, 0>>
  OBVIOUS
<1>4. /\ Len(pts) = 2 /\ pts[1] = B /\ pts[2] = B_blinding
      /\ scs[1] = 7 /\ scs[2] = 0
  BY <1>2, <1>3
<1>5. ASSUME NEW g \in Generator
      PROVE  SumUpTo(Len(pts), LAMBDA k : scs[k] ** pts[k][g]) \in Scalar
  <2>1. PICK b1, b2 \in Scalar : b1 = B[g] /\ b2 = B_blinding[g]
    BY <1>1 DEF Point
  <2>2. PICK two \in Nat : two = 2
    OBVIOUS
  <2>3. PICK v : v = [k \in 1..two |-> scs[k] ** pts[k][g]]
    OBVIOUS
  <2>4. 7 ** b1 \in Scalar /\ 0 ** b2 \in Scalar
    <3>1. 7 * b1 \in Int /\ 0 * b2 \in Int
      BY <2>1, ScalarClosed
    <3>2. M(7 * b1) \in Scalar /\ M(0 * b2) \in Scalar
      BY <3>1, ScalarOfInt
    <3> QED BY <3>2 DEF M, **
  <2>5. \A k \in 1..two : k = 1 \/ k = 2
    BY <2>2
  <2>6. v \in Vec(two)
    <3>1. ASSUME NEW k \in 1..two PROVE scs[k] ** pts[k][g] \in Scalar
      <4>1. CASE k = 1
        BY <1>4, <2>1, <2>4, <4>1
      <4>2. CASE k = 2
        BY <1>4, <2>1, <2>4, <4>2
      <4> QED BY <2>5, <4>1, <4>2
    <3> QED BY <2>3, <3>1 DEF Vec
  <2>7. SumOfFirst(two, v) \in Scalar
    BY <2>6, SumClosed, SumOfAll
  <2> QED BY <1>4, <2>2, <2>3, <2>7 DEF SumUpTo
<1>6. Q = [g \in Generator |-> SumUpTo(Len(pts), LAMBDA k : scs[k] ** pts[k][g])]
  BY <1>2, <1>3 DEF Q, commit, multiscalar_mul
<1> QED BY <1>5, <1>6, Zenon DEF Point

\* create is called with vectors that fit.
LEMMA InputFits ==
  ASSUME NEW n \in Lengths, NEW f \in Factors, NEW h \in Factors,
         NEW a \in [1..n -> Entries], NEW b \in [1..n -> Entries],
         NEW v, v = Vectors(exp_iter(f, n), exp_iter(h, n),
                            ShareGens("G", 0, n), ShareGens("H", 0, n), a, b)
  PROVE  n \in Nat /\ WellFormed(v, n)
<1>1. n \in Nat /\ f \in Scalar /\ h \in Scalar /\ Entries \subseteq Scalar
  BY ArgumentAssumption, CapacityAssumption
<1>2. exp_iter(f, n) \in Vec(n) /\ exp_iter(h, n) \in Vec(n)
  BY <1>1, ExpIterType
<1>3. ShareGens("G", 0, n) \in PointVec(n) /\ ShareGens("H", 0, n) \in PointVec(n)
  BY <1>1, ShareGensType
<1>4. a \in Vec(n) /\ b \in Vec(n)
  BY <1>1 DEF Vec
<1> QED BY <1>1, <1>2, <1>3, <1>4 DEF Vectors, WellFormed

\* A power of two other than one is twice another.
LEMMA PowerHalves ==
  ASSUME NEW w \in Nat, IsPowerOfTwo(w), w # 1
  PROVE  \E h \in Nat : w = 2 * h /\ IsPowerOfTwo(h)
<1>1. PICK k \in 0..w : w = 2^k
  BY DEF IsPowerOfTwo
<1>2. k \in Nat /\ k # 0
  <2> SUFFICES ASSUME k = 0 PROVE FALSE
    OBVIOUS
  <2>1. w = 2^0
    BY <1>1
  <2>2. w = 1
    BY <2>1, PowerOfTwoZero, Zenon
  <2> QED BY <2>2
<1>3. PICK j \in Nat : k = j + 1
  <2>1. k - 1 \in Nat /\ k = (k - 1) + 1
    BY <1>2
  <2> QED BY <2>1
<1>4. PICK h \in Nat : h = 2^j /\ w = 2 * h
  BY <1>1, <1>3, PowerOfTwoNext, PowerOfTwoType
<1>5. j \in 0..h
  BY <1>4, PowerOfTwoGrows
<1>6. IsPowerOfTwo(h)
  BY <1>4, <1>5 DEF IsPowerOfTwo
<1> QED BY <1>4, <1>6

\* The lengths in what the loop keeps.
LEMMA KeptLengths ==
  ASSUME NEW s, NEW v, NEW U, NEW us, NEW k, NEW w, k \in Nat, KeptBy(s, v, U, us, k, w)
  PROVE  Len(us) = k /\ Len(s.v.a) = w /\ Len(s.L_vec) = k /\ Len(s.R_vec) = k
         /\ DOMAIN s.L_vec = 1..k /\ DOMAIN s.R_vec = 1..k /\ w \in Nat
BY DEF KeptBy, Usable, WellFormed, Vec, PointVec

\* The invariant holds before create is called.
LEMMA KeptInitially == Init => IInv
BY DEF Init, IInv

\* create establishes it.
LEMMA CreateKeeps ==
  ASSUME NEW n \in Lengths, NEW f \in Factors, NEW h \in Factors,
         NEW a \in [1..n -> Entries], NEW b \in [1..n -> Entries], Create(n, a, b, f, h)
  PROVE  IInv'
<1>1. PICK v : v = Vectors(exp_iter(f, n), exp_iter(h, n),
                           ShareGens("G", 0, n), ShareGens("H", 0, n), a, b)
  OBVIOUS
<1>2. n \in Nat /\ WellFormed(v, n)
  BY <1>1, InputFits
<1>3. CASE CreatePanics(v)
  BY <1>1, <1>3 DEF Create, IInv
<1>4. CASE ~CreatePanics(v)
  <2>1. pc' = "rounds" /\ input' = v /\ state' = create(<<>>, Q, v, <<>>)
    BY <1>1, <1>4 DEF Create
  <2>2. PICK s : s = create(<<>>, Q, v, <<>>)
    OBVIOUS
  <2>3. PICK us : us = ChallengesOf(s.transcript, "u")
    OBVIOUS
  <2>4. KeptBy(s, v, Q, us, 0, n) /\ IsSequence(s.transcript)
    BY <1>2, <2>2, <2>3, QType, KeptStart
  <2>5. Len(us) = 0 /\ Len(s.v.a) = n
    BY <2>4, KeptLengths
  <2>6. IsPowerOfTwo(n)
    <3>1. Len(v.G) = n
      BY <1>2 DEF WellFormed, PointVec
    <3> QED BY <1>4, <3>1 DEF CreatePanics
  <2>7. Kept'
    BY <2>1, <2>2, <2>3, <2>4, <2>5, <2>6 DEF Kept, Challenged
  <2> QED BY <2>1, <2>7 DEF IInv
<1> QED BY <1>3, <1>4

\* A round keeps it.
LEMMA RoundKeeps ==
  ASSUME IInv, NEW u \in Challenges, Round(u)
  PROVE  IInv'
<1>1. pc = "rounds" /\ pc' = "rounds" /\ input' = input /\ Len(state.v.a) # 1
  BY DEF Round
<1>2. PICK s, v : s = state /\ v = input
  OBVIOUS
<1>3. PICK r : r = state'
  OBVIOUS
<1>4. r = RoundOf(s, Q, u)
  BY <1>2, <1>3 DEF Round, RoundOf
<1>5. Kept
  BY <1>1 DEF IInv
<1>6. PICK us : us = ChallengesOf(s.transcript, "u")
  OBVIOUS
<1>7. PICK k, w : k = Len(us) /\ w = Len(s.v.a)
  OBVIOUS
<1>8. KeptBy(s, v, Q, us, k, w) /\ IsSequence(s.transcript) /\ IsPowerOfTwo(w)
  BY <1>2, <1>5, <1>6, <1>7 DEF Kept, Challenged
<1>9. IsSequence(us) /\ k \in Nat
  BY <1>6, <1>7, <1>8, ChallengesAre, LenOfSequence
<1>10. w \in Nat
  BY <1>8 DEF KeptBy
<1>11. PICK h \in Nat : w = 2 * h /\ IsPowerOfTwo(h)
  BY <1>1, <1>2, <1>7, <1>8, <1>10, PowerHalves
<1>12. u \in Scalar \ {0}
  BY ArgumentAssumption
<1>13. PICK ws : ws = ChallengesOf(r.transcript, "u")
  OBVIOUS
<1>14. Longer(ws, us, u)
  <2>1. PICK L, R : r.transcript = s.transcript \o <<<<"L", L>>, <<"R", R>>, <<"u", u>>>>
    BY <1>4 DEF RoundOf
  <2> QED BY <1>6, <1>8, <1>13, <2>1, ChallengesOfRound
<1>15. KeptBy(r, v, Q, ws, k + 1, h) /\ IsSequence(r.transcript)
  <2>1. KeptBy(s, v, Q, us, k, 2 * h)
    BY <1>8, <1>11
  <2> QED BY <1>4, <1>8, <1>9, <1>12, <1>14, <2>1, QType, KeptStep
<1>16. Len(ws) = k + 1 /\ Len(r.v.a) = h
  <2>1. k + 1 \in Nat
    BY <1>9
  <2> QED BY <1>15, <2>1, KeptLengths
<1>17. Kept'
  BY <1>1, <1>2, <1>3, <1>11, <1>13, <1>15, <1>16 DEF Kept, Challenged
<1> QED BY <1>1, <1>17 DEF IInv

\* verify does not disturb it.
LEMMA VerifyKeeps ==
  ASSUME IInv, NEW alteration \in Alterations, Verify(alteration)
  PROVE  IInv'
<1>1. /\ pc = "rounds" /\ pc' = "done" /\ input' = input /\ state' = state
      /\ Len(state.v.a) = 1 /\ altered' = alteration
  BY DEF Verify
<1>2. Kept'
  BY <1>1 DEF IInv, Kept, Challenged
<1>3. Judged'
  BY <1>1 DEF Judged, Verify, Received
<1> QED BY <1>1, <1>2, <1>3 DEF IInv

\* What the loop of create keeps, at every step of every run: for every prime order,
\* length, input, factors and challenges.
THEOREM ArgumentInvariant == Spec => []IInv
<1>1. Init => IInv
  BY KeptInitially
<1>2. IInv /\ [Next]_vars => IInv'
  <2> SUFFICES ASSUME IInv, [Next]_vars PROVE IInv'
    OBVIOUS
  <2>1. CASE Next
    <3>1. CASE \E n \in Lengths, f, h \in Factors :
                   \E a, b \in [1..n -> Entries] : Create(n, a, b, f, h)
      BY <3>1, CreateKeeps
    <3>2. CASE \E u \in Challenges : Round(u)
      BY <3>2, RoundKeeps
    <3>3. CASE \E alteration \in Alterations : Verify(alteration)
      BY <3>3, VerifyKeeps
    <3> QED BY <2>1, <3>1, <3>2, <3>3 DEF Next
  <2>2. CASE UNCHANGED vars
    BY <2>2 DEF vars, IInv, Kept, Challenged, Judged, Received
  <2> QED BY <2>1, <2>2
<1> QED BY <1>1, <1>2, PTL DEF Spec

\* What the argument is about is the claim of its first vectors.
LEMMA CommitmentIsClaim ==
  ASSUME NEW v
  PROVE  Commitment(v) = Claim(v, Q)
BY DEF Commitment, Claim, Combined

\* The invariant is strong enough for the claim.
LEMMA KeptIsTheClaim == IInv => RoundsKeepTheClaim
<1> SUFFICES ASSUME IInv, pc \in {"rounds", "done"} PROVE RoundsKeepTheClaim
  BY DEF RoundsKeepTheClaim
<1>1. PICK us : us = Challenged
  OBVIOUS
<1>2. PICK k : k = Len(us)
  OBVIOUS
<1>3. PICK w : w = Len(state.v.a)
  OBVIOUS
<1>4. KeptBy(state, input, Q, us, k, w) /\ k \in Nat
  <2>1. IsSequence(us)
    BY <1>1, ChallengesAre DEF IInv, Kept, Challenged
  <2> QED BY <1>1, <1>2, <1>3, <2>1, LenOfSequence DEF IInv, Kept
<1>5. /\ Usable(us, k) /\ w \in Nat /\ w * 2^k \in Nat
      /\ WellFormed(state.v, w) /\ WellFormed(input, w * 2^k)
      /\ state.L_vec \in PointVec(k) /\ state.R_vec \in PointVec(k)
      /\ KeepsClaim(state, input, Q, us)
  <2>1. PICK n \in Nat : n = 2^k
    BY <1>4, PowerOfTwoType
  <2>2. w \in Nat
    BY <1>4 DEF KeptBy
  <2>3. w * n \in Nat
    BY <2>2, SMT
  <2> QED BY <1>4, <2>1, <2>2, <2>3 DEF KeptBy
<1>6. PICK sq : sq = Times(us, us) /\ sq = Squares(us)
  BY DEF Squares
<1>7. PICK inv_sq : inv_sq = [i \in DOMAIN us |-> Invert(sq[i])]
  OBVIOUS
<1>8. inv_sq = InverseSquares(us)
  <2>1. DOMAIN us = 1..k
    BY <1>5 DEF Usable, Vec
  <2>2. ASSUME NEW i \in 1..k PROVE Invert(sq[i]) = Invert(us[i]) ** Invert(us[i])
    <3>1. sq[i] = us[i] ** us[i] /\ us[i] \in Scalar \ {0}
      BY <1>4, <1>5, <1>6, DrawnType
    <3> QED BY <3>1, InverseOfProduct
  <2> QED BY <1>7, <2>1, <2>2 DEF InverseSquares
<1>9. sq \in Vec(k) /\ inv_sq \in Vec(k)
  BY <1>4, <1>5, <1>6, <1>8, DrawnType
<1>10. PICK C \in Point : C = Commitment(input) /\ C = Claim(input, Q)
  BY <1>5, QType, ClaimType, CommitmentIsClaim
<1>11. PICK S \in Point : S = Commitment(state.v) /\ S = Claim(state.v, Q)
  BY <1>5, QType, ClaimType, CommitmentIsClaim
<1>12. PICK L \in Point : L = multiscalar_mul(sq, state.L_vec)
  BY <1>4, <1>5, <1>9, MsmType
<1>13. PICK R \in Point : R = multiscalar_mul(inv_sq, state.R_vec)
  BY <1>4, <1>5, <1>9, MsmType
<1>14. PICK CL \in Point : CL = C (+) L /\ \A g \in Generator : CL[g] = C[g] ++ L[g]
  BY SumOfTwo
<1>15. CL (+) R \in Point /\ \A g \in Generator : (CL (+) R)[g] = CL[g] ++ R[g]
  BY SumOfTwo
<1>16. \A g \in Generator : S[g] = (C[g] ++ L[g]) ++ R[g]
  BY <1>5, <1>6, <1>8, <1>10, <1>11, <1>12, <1>13 DEF KeepsClaim
<1>17. S = CL (+) R
  BY <1>14, <1>15, <1>16, PointExtensional
<1>18. Commitment(state.v) = Commitment(input) (+) multiscalar_mul(sq, state.L_vec)
                               (+) multiscalar_mul(inv_sq, state.R_vec)
  BY <1>10, <1>11, <1>12, <1>13, <1>14, <1>17
<1> QED BY <1>1, <1>6, <1>7, <1>18 DEF RoundsKeepTheClaim, Challenged

\* Whatever the challenges were, the claim of the vectors create has left is the first
\* one and the cross terms weighted by their squares.
THEOREM RoundsKeepTheClaimAlways == Spec => []RoundsKeepTheClaim
BY ArgumentInvariant, KeptIsTheClaim, PTL

\* And for the generators.
LEMMA KeptFoldsGenerators == IInv => ScalarsFoldTheGenerators
<1> SUFFICES ASSUME IInv, pc = "done" PROVE ScalarsFoldTheGenerators
  BY DEF ScalarsFoldTheGenerators
<1>1. PICK us : us = Challenged
  OBVIOUS
<1>2. PICK k : k = Len(us)
  OBVIOUS
<1>3. KeptBy(state, input, Q, us, k, 1) /\ k \in Nat
  <2>1. IsSequence(us)
    BY <1>1, ChallengesAre DEF IInv, Kept, Challenged
  <2> QED BY <1>1, <1>2, <2>1, LenOfSequence DEF IInv, Kept, Judged
<1>4. PICK n \in Nat : n = 2^k /\ 1 * 2^k = n
  <2>1. PICK n \in Nat : n = 2^k
    BY <1>3, PowerOfTwoType
  <2>2. 1 * n = n
    OBVIOUS
  <2> QED BY <2>1, <2>2
<1>5. /\ Usable(us, k) /\ WellFormed(state.v, 1) /\ WellFormed(input, n)
      /\ GeneratorsFold(input, us, n, 1, state.v)
  BY <1>3, <1>4 DEF KeptBy
<1>6. PICK s \in Vec(n) : s = SVector(us)
  BY <1>3, <1>4, <1>5, SVectorType
<1>7. PICK r \in Vec(n) : r = Reversed(s)
  BY <1>3, <1>4, <1>5, <1>6, SVectorType
<1>8. /\ multiscalar_mul(Times(s, input.gf), input.G) \in Point
      /\ multiscalar_mul(Times(r, input.hf), input.H) \in Point
  <2>1. Times(s, input.gf) \in Vec(n) /\ Times(r, input.hf) \in Vec(n)
    BY <1>5, TimesType DEF WellFormed
  <2> QED BY <1>5, <2>1, MsmType DEF WellFormed
<1>9. PICK one \in Nat : one = 1
  OBVIOUS
<1>10. /\ multiscalar_mul(state.v.gf, state.v.G) \in Point
       /\ multiscalar_mul(state.v.hf, state.v.H) \in Point
  <2>1. /\ state.v.gf \in Vec(one) /\ state.v.G \in PointVec(one)
        /\ state.v.hf \in Vec(one) /\ state.v.H \in PointVec(one)
    BY <1>5, <1>9 DEF WellFormed
  <2> QED BY <2>1, MsmType
<1>11. ASSUME NEW g \in Generator
       PROVE  /\ multiscalar_mul(Times(s, input.gf), input.G)[g]
                   = multiscalar_mul(state.v.gf, state.v.G)[g]
              /\ multiscalar_mul(Times(r, input.hf), input.H)[g]
                   = multiscalar_mul(state.v.hf, state.v.H)[g]
  <2>1. /\ FoldsBy(s, At(input.gf, input.G, g), 1, n, At(state.v.gf, state.v.G, g))
        /\ FoldsBy(r, At(input.hf, input.H, g), 1, n, At(state.v.hf, state.v.H, g))
    BY <1>5, <1>6, <1>7 DEF GeneratorsFold
  <2>2. /\ input.gf \in Vec(n) /\ input.G \in PointVec(n)
        /\ input.hf \in Vec(n) /\ input.H \in PointVec(n)
        /\ state.v.gf \in Vec(1) /\ state.v.G \in PointVec(1)
        /\ state.v.hf \in Vec(1) /\ state.v.H \in PointVec(1)
    BY <1>5 DEF WellFormed
  <2>3. multiscalar_mul(Times(s, input.gf), input.G)[g]
          = multiscalar_mul(state.v.gf, state.v.G)[g]
    BY <2>1, <2>2, LastIsAll
  <2>4. multiscalar_mul(Times(r, input.hf), input.H)[g]
          = multiscalar_mul(state.v.hf, state.v.H)[g]
    BY <2>1, <2>2, LastIsAll
  <2> QED BY <2>3, <2>4
<1>12. multiscalar_mul(Times(s, input.gf), input.G) = multiscalar_mul(state.v.gf, state.v.G)
  BY <1>8, <1>10, <1>11, PointExtensional
<1>13. multiscalar_mul(Times(r, input.hf), input.H) = multiscalar_mul(state.v.hf, state.v.H)
  BY <1>8, <1>10, <1>11, PointExtensional
<1> QED BY <1>1, <1>6, <1>7, <1>12, <1>13 DEF ScalarsFoldTheGenerators, Challenged

\* The scalars verification_scalars computes fold the generators as the rounds of
\* create did.
THEOREM ScalarsFoldTheGeneratorsAlways == Spec => []ScalarsFoldTheGenerators
BY ArgumentInvariant, KeptFoldsGenerators, PTL

\* The message verify gets when nothing was altered.
LEMMA ReceivedUnaltered ==
  Received("nothing") = [proof |-> IPPProof(state), n |-> Len(input.a), P |-> Commitment(input)]
BY DEF Received

\* The verifier retraces the transcript of the proof made from s.
Retraces(p, n, s, unrelated) ==
    p = IPPProof(s) /\ ReplayRounds(p, n, <<>>, s.transcript, unrelated) = s.transcript

\* It compares the commitment C it was given with a combination of what is left of v.
ComparesWith(p, n, s, v, us, C, X, unrelated) ==
    verify(p, n, <<>>, s.transcript, unrelated, v.gf, v.hf, C, X, v.G, v.H)
        <=> ~ScalarsRefused(p, n) /\ C = Combination(s, v, X, us)

\* What verify compares, once it has recomputed the challenges us of the prover.
LEMMA VerifyIs ==
  ASSUME NEW s, NEW v, NEW us, NEW n, NEW C, NEW X, NEW unrelated, IsSequence(s.transcript),
         NEW p, Retraces(p, n, s, unrelated), us = ChallengesOf(s.transcript, "u")
  PROVE  ComparesWith(p, n, s, v, us, C, X, unrelated)
<1>1. PICK t : t = s.transcript
  OBVIOUS
<1>2. PICK vs : vs = verification_scalars(p, n, <<>>, t, unrelated)
  OBVIOUS
<1>3. /\ p.a = s.v.a[1] /\ p.b = s.v.b[1] /\ p.L_vec = s.L_vec /\ p.R_vec = s.R_vec
  BY DEF IPPProof, Retraces
<1>4. SubSeq(t, Len(<<>>) + 1, Len(t)) = t
  <2>1. Len(<<>>) + 1 = 1
    OBVIOUS
  <2> QED BY <1>1, <2>1, AllOf
<1>5. vs.u_sq = Squares(us) /\ vs.u_inv_sq = InverseSquares(us) /\ vs.s = SVector(us)
  BY <1>1, <1>2, <1>4 DEF Retraces, verification_scalars, Squares, InverseSquares
<1> QED BY <1>1, <1>2, <1>3, <1>5 DEF ComparesWith, verify, Combination, FiveParts, Negated

\* And for the verdict.
LEMMA HonestIsAccepted == IInv => HonestProofsVerify
<1> SUFFICES ASSUME IInv, pc = "done", ~Differs(altered)
             PROVE  verdict = "ok" <=>
                      /\ Len(state.L_vec) < 32
                      /\ Identity \notin {state.L_vec[k] : k \in DOMAIN state.L_vec}
                      /\ Identity \notin {state.R_vec[k] : k \in DOMAIN state.R_vec}
  BY DEF HonestProofsVerify
<1>1. PICK us : us = Challenged
  OBVIOUS
<1>2. PICK k : k = Len(us)
  OBVIOUS
<1>3. KeptBy(state, input, Q, us, k, 1) /\ k \in Nat /\ IsSequence(state.transcript)
  <2>1. IsSequence(us)
    BY <1>1, ChallengesAre DEF IInv, Kept, Challenged
  <2> QED BY <1>1, <1>2, <2>1, LenOfSequence DEF IInv, Kept, Judged
<1>4. PICK n \in Nat : n = 2^k /\ 1 * 2^k = n
  <2>1. PICK n \in Nat : n = 2^k
    BY <1>3, PowerOfTwoType
  <2>2. 1 * n = n
    OBVIOUS
  <2> QED BY <2>1, <2>2
<1>5. Recorded(state, us, k, n) /\ WellFormed(input, n)
  BY <1>3, <1>4 DEF KeptBy
<1>6. /\ Len(input.a) = n /\ Len(state.L_vec) = k
      /\ DOMAIN state.L_vec = 1..k /\ DOMAIN state.R_vec = 1..k
  BY <1>3, <1>5, KeptLengths DEF WellFormed, Vec
<1>7. PICK p : p = IPPProof(state)
  OBVIOUS
<1>8. p.L_vec = state.L_vec /\ p.R_vec = state.R_vec
  BY <1>7 DEF IPPProof
<1>9. ReplayRounds(p, n, <<>>, state.transcript, Unrelated) = state.transcript
  BY <1>3, <1>5, <1>6, <1>8, ReplayIs
<1>10. PICK C : C = Commitment(input)
  OBVIOUS
<1>11. verify(p, n, <<>>, state.transcript, Unrelated, input.gf, input.hf, C, Q,
              input.G, input.H)
          <=> ~ScalarsRefused(p, n) /\ C = Combination(state, input, Q, us)
  <2>1. Retraces(p, n, state, Unrelated) /\ us = ChallengesOf(state.transcript, "u")
    BY <1>1, <1>7, <1>9 DEF Retraces, Challenged
  <2>2. ComparesWith(p, n, state, input, us, C, Q, Unrelated)
    BY <1>3, <2>1, VerifyIs
  <2> QED BY <2>2 DEF ComparesWith
<1>12. C = Combination(state, input, Q, us)
  <2>1. Q \in Point
    BY QType
  <2>2. Claim(input, Q) = Combination(state, input, Q, us)
    BY <1>3, <2>1, CombinationIsClaim
  <2> QED BY <1>10, <2>2, CommitmentIsClaim
<1>13. ~ScalarsRefused(p, n) <=>
         /\ Len(state.L_vec) < 32
         /\ Identity \notin {state.L_vec[i] : i \in DOMAIN state.L_vec}
         /\ Identity \notin {state.R_vec[i] : i \in DOMAIN state.R_vec}
  BY <1>3, <1>4, <1>6, <1>8 DEF ScalarsRefused
<1>14. Received(altered) = [proof |-> p, n |-> n, P |-> C]
  BY <1>6, <1>7, <1>10, ReceivedUnaltered DEF Differs
<1>15. verdict = IF verify(p, n, <<>>, state.transcript, Unrelated, input.gf, input.hf, C, Q,
                           input.G, input.H)
                 THEN "ok" ELSE "VerificationError"
  BY <1>14 DEF IInv, Judged
<1> QED BY <1>11, <1>12, <1>13, <1>15

\* Completeness: verify accepts what create made of any vectors with any challenges,
\* unless a cross term is the identity or there are 32 rounds.
THEOREM HonestProofsVerifyAlways == Spec => []HonestProofsVerify
BY ArgumentInvariant, HonestIsAccepted, PTL
================================================================================
