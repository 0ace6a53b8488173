--------------------------- MODULE RangeProofMPCProofs ---------------------------
(***************************************************************************)
(* A session of the aggregated range proof, for every session, every way   *)
(* of carrying its messages, every challenge and every number of parties:  *)
(* what the dealer verified is what the verifier decides about, whatever   *)
(* that decision rests on; the audit names the parties that deviated,      *)
(* which rests on the algebra of the shares: the two combinations of       *)
(* points audit_share forms are the identity, coordinate by coordinate,    *)
(* when a share is what its party committed to; and the proof that honest  *)
(* parties make verifies, since the equations of the audit add up over the *)
(* parties, with the inner-product argument, to the verifier's.            *)
(***************************************************************************)
EXTENDS RangeProofMPC, BulletproofLemmas

\* An inner-product proof as create leaves it.
WholeIPP(p) ==
    /\ p = [L_vec |-> p.L_vec, R_vec |-> p.R_vec, a |-> p.a, b |-> p.b]
    /\ IsSequence(p.L_vec) /\ IsSequence(p.R_vec)
    /\ Len(p.R_vec) = Len(p.L_vec)

\* A range proof as the dealer assembles it.
WholeProof(p) ==
    /\ p = [A |-> p.A, S |-> p.S, T_1 |-> p.T_1, T_2 |-> p.T_2,
            t_x |-> p.t_x, t_x_blinding |-> p.t_x_blinding,
            e_blinding |-> p.e_blinding, ipp |-> p.ipp]
    /\ WholeIPP(p.ipp)

\* A proof the dealer may hand out: whole, and if the dealer audits, one that
\* verifies for the commitments and from the transcript the verifier has.
MayBeHandedOut(p) ==
    /\ WholeProof(p)
    /\ session.route = "receive_shares" =>
           verify_multiple(p, Commitments, n, transcript, Unrelated, Weight)

\* The inductive invariant.
Audited ==
    /\ session \in Sessions
    /\ DOMAIN received = {"bits", "polys", "shares"}
    /\ dealer # "done" => result.kind # "proof"
    /\ result.kind = "proof" => MayBeHandedOut(result.proof)
    /\ AuditedProofsVerify

-----------------------------------------------------------------------------
(* The proof on its way.                                                   *)

LEMMA SevenEntries ==
  ASSUME NEW a, NEW b, NEW c, NEW d, NEW e, NEW f, NEW g
  PROVE  LET h == <<a, b, c, d, e, f, g>>
         IN  /\ IsSequence(h) /\ Len(h) = 7
             /\ h[1] = a /\ h[2] = b /\ h[3] = c /\ h[4] = d
             /\ h[5] = e /\ h[6] = f /\ h[7] = g
<1>1. <<a, b, c, d, e, f, g>> \in Seq({a, b, c, d, e, f, g})
  OBVIOUS
<1> QED BY <1>1 DEF IsSequence

\* A whole proof comes out of its bytes as it went in, unless it has too many
\* rounds.
LEMMA ThroughRangeBytes ==
  ASSUME NEW p, WholeProof(p), ~(Len(p.ipp.L_vec) >= 32)
  PROVE  /\ ~RangeFormatError(range_to_bytes(p))
         /\ range_from_bytes(range_to_bytes(p)) = p
<1>1. PICK h : h = <<p.A, p.S, p.T_1, p.T_2, p.t_x, p.t_x_blinding, p.e_blinding>>
  OBVIOUS
<1>2. IsSequence(h)
  BY <1>1, SevenEntries
<1>3. /\ Len(h) = 7
      /\ h[1] = p.A /\ h[2] = p.S /\ h[3] = p.T_1 /\ h[4] = p.T_2
      /\ h[5] = p.t_x /\ h[6] = p.t_x_blinding /\ h[7] = p.e_blinding
  BY <1>1, SevenEntries
<1>4. PICK t : t = to_bytes(p.ipp)
  OBVIOUS
<1>5. IsSequence(t) /\ from_bytes(t) = p.ipp /\ ~IPPFormatError(t)
  BY <1>4, ThroughBytes DEF WholeProof, WholeIPP
<1>6. PICK e : e = h \o t
  OBVIOUS
<1>7. SubSeq(e, 8, Len(e)) = t
  <2>1. SubSeq(e, Len(h) + 1, Len(e)) = t
    BY <1>2, <1>5, <1>6, Suffix
  <2> QED BY <1>3, <2>1
<1>8. Len(e) \in Nat /\ Len(e) >= 7 /\ \A i \in 1..7 : e[i] = h[i]
  <2>1. IsSequence(e) /\ Len(e) = Len(h) + Len(t) /\ \A i \in 1..Len(h) : e[i] = h[i]
    BY <1>2, <1>5, <1>6, ThenSequence
  <2>2. Len(t) \in Nat
    BY <1>5, LenOfSequence
  <2> QED BY <1>3, <2>1, <2>2
<1>9. range_to_bytes(p) = e
  BY <1>1, <1>4, <1>6 DEF range_to_bytes
<1>10. ~RangeFormatError(e)
  <2>1. ~(Len(e) < 7)
    BY <1>8
  <2>2. ~IPPFormatError(SubSeq(e, 8, Len(e)))
    BY <1>5, <1>7
  <2> QED BY <2>1, <2>2 DEF RangeFormatError
<1>11. range_from_bytes(e) = p
  <2>1. range_from_bytes(e) =
          [A |-> e[1], S |-> e[2], T_1 |-> e[3], T_2 |-> e[4],
           t_x |-> e[5], t_x_blinding |-> e[6], e_blinding |-> e[7],
           ipp |-> p.ipp]
    BY <1>5, <1>7 DEF range_from_bytes
  <2>2. /\ e[1] = p.A /\ e[2] = p.S /\ e[3] = p.T_1 /\ e[4] = p.T_2
        /\ e[5] = p.t_x /\ e[6] = p.t_x_blinding /\ e[7] = p.e_blinding
    BY <1>3, <1>8
  <2> QED BY <2>1, <2>2 DEF WholeProof
<1> QED BY <1>9, <1>10, <1>11

\* What a dealer assembles is whole, whatever shares it was handed.
LEMMA AssembledIsWhole ==
  ASSUME NEW shares, NEW w, NEW us, Len(us) \in Nat
  PROVE  WholeProof(Assembled(shares, w, us).proof)
<1>1. PICK told, Q, v, made :
          /\ made = create(told, Q, v, us)
          /\ Assembled(shares, w, us).proof.ipp = IPPProof(made)
  BY DEF Assembled
<1>2. WholeIPP(IPPProof(made))
  BY <1>1, CreateAppends DEF WholeIPP, IPPProof
<1>3. \E c1, c2, c3, c4, c5, c6, c7, c8 : Assembled(shares, w, us).proof =
          [A |-> c1, S |-> c2, T_1 |-> c3, T_2 |-> c4, t_x |-> c5,
           t_x_blinding |-> c6, e_blinding |-> c7, ipp |-> c8]
  BY DEF Assembled
<1> QED BY <1>1, <1>2, <1>3 DEF WholeProof

-----------------------------------------------------------------------------
(* The steps.                                                              *)

LEMMA InitAudited == Init => Audited
BY DEF Init, Audited, NoResult, AuditedProofsVerify

\* An error is no proof.
LEMMA ErrorsAreNoProofs ==
  /\ \A e : Err(e).kind # "proof"
  /\ \A bad : Malformed(bad).kind # "proof"
BY DEF Err, Malformed

\* Nothing the dealer could hand out is there before it is done.
LEMMA BeforeShares ==
  ASSUME Audited, dealer # "done", result' = result \/ result'.kind # "proof",
         UNCHANGED <<session, altered, verdict>>,
         DOMAIN received' = {"bits", "polys", "shares"}
  PROVE  Audited'
BY DEF Audited, AuditedProofsVerify

\* What receive_shares returns it verified, unless it trusts the parties.
LEMMA SharesAreAudited ==
  ASSUME Audited, NEW w \in Yields("w"),
         NEW us \in [1..Rounds(n * m) -> Yields("u")], ReceiveShares(w, us)
  PROVE  Audited'
<1>1. /\ dealer = "awaiting_proof_shares" /\ dealer' = "done"
      /\ UNCHANGED <<session, altered, verdict>>
  BY DEF ReceiveShares
<1>2. n \in Nat /\ m \in Nat
  BY SessionsAssumption DEF Audited, Session, n, m
<1>3. Len(us) \in Nat
  <2>1. PICK k \in Nat : k = n * m
    BY <1>2
  <2>2. Rounds(n * m) \in Nat
    BY <2>1, RoundsType
  <2>3. PICK r \in Nat : r = Rounds(n * m)
    BY <2>2
  <2>4. us \in Seq(Yields("u"))
    BY <2>3
  <2> QED BY <2>4
<1> DEFINE shares == Handed(session.shares)
           a == Assembled(shares, w, us)
<1>4. CASE result'.kind # "proof"
  <2>1. DOMAIN received' = {"bits", "polys", "shares"}
    BY DEF ReceiveShares, Audited
  <2> QED BY <1>1, <1>4, <2>1, BeforeShares
<1>5. CASE result'.kind = "proof"
  <2>1. /\ received' = [received EXCEPT !.shares = shares]
        /\ transcript' = a.transcript
        /\ Accepts(a)
        /\ result' = [kind |-> "proof", proof |-> a.proof]
    <3> HIDE DEF a, shares
    <3> QED BY <1>5, ErrorsAreNoProofs DEF ReceiveShares, a, shares
  <2>2. WholeProof(a.proof)
    BY <1>3, AssembledIsWhole
  <2> HIDE DEF a, shares
  <2>3. received'.bits = received.bits /\ DOMAIN received' = {"bits", "polys", "shares"}
    BY <2>1 DEF Audited
  <2>4. Commitments' = Commitments /\ n' = n /\ Weight' = Weight
    BY <1>1, <2>3 DEF Commitments, n, m, Weight
  <2>5. session.route = "receive_shares" =>
            verify_multiple(a.proof, Commitments, n, a.transcript, Unrelated, Weight)
    BY <2>1 DEF Accepts
  <2>6. MayBeHandedOut(result.proof)'
    BY <1>1, <2>1, <2>2, <2>4, <2>5 DEF MayBeHandedOut
  <2> QED BY <1>1, <2>3, <2>6 DEF Audited, AuditedProofsVerify
<1> QED BY <1>4, <1>5

\* The verifier decides as the audit did: neither the proof's way through its
\* bytes nor the transcript it starts from makes a difference.
LEMMA VerifierAgrees ==
  ASSUME Audited, NEW how \in Alterations, Verify(how)
  PROVE  Audited'
<1>1. /\ dealer = "done" /\ result.kind = "proof" /\ altered' = how
      /\ UNCHANGED <<session, dealer, party, sent, received, transcript, result>>
  BY DEF Verify
<1>2. MayBeHandedOut(result.proof)
  BY <1>1 DEF Audited
<1>3. MayBeHandedOut(result.proof)'
  BY <1>1, <1>2 DEF MayBeHandedOut, Commitments, n, m, Weight
<1>4. ASSUME how = "no", session.route = "receive_shares"
      PROVE  verdict' = "ok"
  <2> DEFINE p == result.proof
  <2>1. verify_multiple(p, Commitments, n, transcript, Unrelated, Weight)
    BY <1>2, <1>4 DEF MayBeHandedOut
  <2>2. ~(Len(p.ipp.L_vec) >= 32)
    BY <2>1 DEF verify_multiple, ScalarsRefused
  <2>3. WholeProof(p)
    BY <1>2 DEF MayBeHandedOut
  <2>4. AlteredBytes(range_to_bytes(p), how) = range_to_bytes(p)
    BY <1>4 DEF AlteredBytes
  <2>5. Alter(Commitments, how) = Commitments
    BY <1>4 DEF Alter
  <2>6. /\ ~RangeFormatError(range_to_bytes(p))
        /\ range_from_bytes(range_to_bytes(p)) = p
    BY <2>2, <2>3, ThroughRangeBytes
  <2> QED BY <2>1, <2>4, <2>5, <2>6 DEF Verify
<1> QED BY <1>1, <1>3, <1>4 DEF Audited, AuditedProofsVerify

LEMMA NextAudited == Audited /\ [Next]_vars => Audited'
<1> SUFFICES ASSUME Audited, [Next]_vars PROVE Audited'
  OBVIOUS
<1>1. CASE DealerNew
  BY <1>1, BeforeShares, ErrorsAreNoProofs DEF DealerNew, Fail, Audited
<1>2. ASSUME NEW j \in Positions, AssignPosition(j) PROVE Audited'
  BY <1>2, BeforeShares DEF AssignPosition, Audited
<1>3. ASSUME NEW j \in Positions, ApplyBitChallenge(j) PROVE Audited'
  BY <1>3, BeforeShares DEF ApplyBitChallenge, Audited
<1>4. ASSUME NEW j \in Positions, ApplyPolyChallenge(j) PROVE Audited'
  BY <1>4, BeforeShares, ErrorsAreNoProofs DEF ApplyPolyChallenge, Fail, Audited
<1>5. ASSUME NEW y \in Yields("y"), NEW z \in Yields("z"), ReceiveBitCommitments(y, z)
      PROVE  Audited'
  BY <1>5, BeforeShares, ErrorsAreNoProofs DEF ReceiveBitCommitments, Fail, Audited
<1>6. ASSUME NEW x \in Yields("x"), ReceivePolyCommitments(x) PROVE Audited'
  BY <1>6, BeforeShares, ErrorsAreNoProofs DEF ReceivePolyCommitments, Fail, Audited
<1>7. ASSUME NEW w \in Yields("w"), NEW us \in [1..Rounds(n * m) -> Yields("u")],
             ReceiveShares(w, us)
      PROVE  Audited'
  BY <1>7, SharesAreAudited
<1>8. ASSUME NEW how \in Alterations, Verify(how) PROVE Audited'
  BY <1>8, VerifierAgrees
<1>9. CASE Ended \/ UNCHANGED vars
  BY <1>9 DEF Ended, vars, Audited, AuditedProofsVerify, MayBeHandedOut, Commitments,
              n, m, Weight
<1> QED BY <1>1, <1>2, <1>3, <1>4, <1>5, <1>6, <1>7, <1>8, <1>9 DEF Next

\* What a dealer that does not trust its parties hands out, the verifier
\* accepts: RangeProof::verify_multiple on the proof's bytes, the commitments
\* the dealer returned and a fresh transcript decides as receive_shares did on
\* its own copy, whatever the parties computed, in whatever order their
\* messages came and whatever the transcript yielded.
THEOREM AuditedIsAccepted == Spec => []AuditedProofsVerify
<1>1. Spec => []Audited
  BY InitAudited, NextAudited, PTL DEF Spec
<1>2. Audited => AuditedProofsVerify
  BY DEF Audited
<1> QED BY <1>1, <1>2, PTL

-----------------------------------------------------------------------------
(* The bits of a value.                                                    *)

\* A bit is a bit.
LEMMA BitIsBit ==
  ASSUME NEW v \in Nat, NEW i \in Nat
  PROVE  Bit(v, i) \in {0, 1} /\ Bit(v, i) \in Scalar
<1>1. 2^i \in Nat /\ 1 <= 2^i
  BY PowerOfTwoType, PowerOfTwoGrows
<1>2. PICK p \in Nat \ {0} : p = 2^i
  BY <1>1
<1>3. v \div p \in Int
  BY DivMod
<1>4. (v \div p) % 2 \in {0, 1}
  <2>1. \A q \in Int : q % 2 \in {0, 1}
    OBVIOUS
  <2> QED BY <1>3, <2>1
<1> QED BY <1>2, <1>4, ScalarClosed DEF Bit

\* A power of two, as a scalar.
LEMMA PowerOfTwoIsScalar ==
  ASSUME NEW k \in Nat
  PROVE  Power(2, k) = M(2^k) /\ Power(2, k) \in Scalar
<1> DEFINE S == {i \in Nat : Power(2, i) = M(2^i)}
<1>1. 2 \in Scalar /\ 1 \in Scalar /\ M(2) = 2 /\ M(1) = 1
  <2>1. 2 \in Scalar
    BY LargeOrderAssumption, OrderAssumption DEF Scalar
  <2> QED BY <2>1, ScalarClosed, Reduced
<1>2. 0 \in S
  BY <1>1, PowerRecursion, PowerOfTwoZero
<1>3. ASSUME NEW i \in Nat, i \in S PROVE i + 1 \in S
  <2>1. 2^i \in Int /\ 2^(i + 1) = 2^i * 2
    BY PowerOfTwoType, PowerOfTwoNext
  <2>2. Power(2, i + 1) = Power(2, i) ** 2
    BY <1>1, PowerRecursion
  <2>3. M(2^i) ** M(2) = M(2^i * 2)
    BY <2>1, MMul
  <2> QED BY <1>1, <1>3, <2>1, <2>2, <2>3
<1>4. \A i \in Nat : i \in S
  <2> HIDE DEF S
  <2> QED BY <1>2, <1>3, InductionOnNat
<1> QED BY <1>1, <1>4, PowerRecursion

\* The bits of a value, times the powers of two, add up to its lower part.
LEMMA BitsAddUp ==
  ASSUME NEW bits \in Nat, NEW v \in Nat, NEW w \in Vec(bits),
         \A i \in 1..bits : w[i] = Bit(v, i - 1) ** Power(2, i - 1)
  PROVE  SumOf(w) = M(v % 2^bits)
<1>1. PICK t \in [0..bits -> Scalar] : SumOf(w) = t[bits] /\ Sums(t, bits, w)
  BY PartialSums
<1> DEFINE S == {k \in 0..bits : t[k] = M(v % 2^k)}
<1>2. 0 \in S
  <2>1. v % 1 = 0
    OBVIOUS
  <2> QED BY <1>1, <2>1, PowerOfTwoZero, Reduced, ScalarClosed DEF Sums
<1>3. ASSUME NEW k \in 0..(bits - 1), k \in S PROVE k + 1 \in S
  <2>1. k \in Nat /\ k + 1 \in 1..bits /\ (k + 1) - 1 = k
    OBVIOUS
  <2>2. PICK p \in Nat \ {0} : p = 2^k /\ 2^(k + 1) = 2 * p
    BY <2>1, PowerOfTwoType, PowerOfTwoGrows, PowerOfTwoNext
  <2>3. PICK b \in Int : b = Bit(v, k) /\ M(b) = b
    BY <2>1, BitIsBit, Reduced
  <2>4. t[k + 1] = M(v % p) ++ M(b) ** M(p)
    <3>1. t[k + 1] = t[k] ++ Bit(v, k) ** Power(2, k)
      BY <1>1, <2>1 DEF Sums
    <3>2. Power(2, k) = M(2^k) /\ t[k] = M(v % 2^k)
      BY <1>3, <2>1, PowerOfTwoIsScalar
    <3> QED BY <2>2, <2>3, <3>1, <3>2
  <2>5. M(v % p) ++ M(b) ** M(p) = M((v % p) + b * p)
    <3>1. v % p \in Int /\ b * p \in Int
      OBVIOUS
    <3> QED BY <3>1, MAdd, MMul
  <2>6. v % (2 * p) = (v % p) + b * p
    BY <2>2, <2>3, RemainderOfTwice DEF Bit
  <2>7. t[k + 1] = M(v % 2^(k + 1))
    BY <2>2, <2>4, <2>5, <2>6
  <2> QED BY <2>1, <2>7
<1>4. \A k \in 0..bits : k \in S
  <2> HIDE DEF S
  <2> QED BY <1>2, <1>3, InductionUpTo
<1> QED BY <1>1, <1>4

-----------------------------------------------------------------------------
(* What a party computes.                                                  *)

\* One entry of l(0) times that of r(0), for a bit a: Y the power of y, e that of two,
\* o the party's offset.
LEMMA ConstantEntry ==
  ASSUME NEW a \in Scalar, NEW z \in Scalar, NEW Y \in Scalar, NEW o \in Scalar,
         NEW e \in Scalar, a * a = a
  PROVE  (a -- z) ** ((Y ** ((a -- 1) ++ z)) ++ (o ** e))
           = ((z -- (z ** z)) ** Y) ++ ((o ** (a ** e)) ++ (Neg(z ** o) ** e))
<1>1. /\ a \in Int /\ z \in Int /\ Y \in Int /\ o \in Int /\ e \in Int /\ 1 \in Int
      /\ M(a) = a /\ M(z) = z /\ M(Y) = Y /\ M(o) = o /\ M(e) = e /\ M(1) = 1
  BY Reduced, ScalarClosed
<1>2. a -- z = M(a - z) /\ a - z \in Int
  BY <1>1, Reduced
<1>3. a -- 1 = M(a - 1) /\ a - 1 \in Int
  BY <1>1, Reduced
<1>4. (a -- 1) ++ z = M((a - 1) + z) /\ (a - 1) + z \in Int
  BY <1>1, <1>3, Reduced
<1>5. Y ** ((a -- 1) ++ z) = M(Y * ((a - 1) + z)) /\ Y * ((a - 1) + z) \in Int
  BY <1>1, <1>4, Reduced
<1>6. o ** e = M(o * e) /\ o * e \in Int
  BY <1>1, Reduced
<1>7. /\ (Y ** ((a -- 1) ++ z)) ++ (o ** e) = M((Y * ((a - 1) + z)) + (o * e))
      /\ (Y * ((a - 1) + z)) + (o * e) \in Int
  BY <1>1, <1>5, <1>6, Reduced
<1>8. /\ (a -- z) ** ((Y ** ((a -- 1) ++ z)) ++ (o ** e))
           = M((a - z) * ((Y * ((a - 1) + z)) + (o * e)))
      /\ (a - z) * ((Y * ((a - 1) + z)) + (o * e)) \in Int
  BY <1>1, <1>2, <1>7, Reduced
<1>9. z ** z = M(z * z) /\ z * z \in Int
  BY <1>1, Reduced
<1>10. z -- (z ** z) = M(z - (z * z)) /\ z - (z * z) \in Int
  BY <1>1, <1>9, Reduced
<1>11. (z -- (z ** z)) ** Y = M((z - (z * z)) * Y) /\ (z - (z * z)) * Y \in Int
  BY <1>1, <1>10, Reduced
<1>12. a ** e = M(a * e) /\ a * e \in Int
  BY <1>1, Reduced
<1>13. o ** (a ** e) = M(o * (a * e)) /\ o * (a * e) \in Int
  BY <1>1, <1>12, Reduced
<1>14. z ** o = M(z * o) /\ z * o \in Int
  BY <1>1, Reduced
<1>15. Neg(z ** o) = M(-(z * o)) /\ -(z * o) \in Int
  BY <1>1, <1>14, Reduced
<1>16. Neg(z ** o) ** e = M((-(z * o)) * e) /\ (-(z * o)) * e \in Int
  BY <1>1, <1>15, Reduced
<1>17. /\ (o ** (a ** e)) ++ (Neg(z ** o) ** e) = M((o * (a * e)) + ((-(z * o)) * e))
       /\ (o * (a * e)) + ((-(z * o)) * e) \in Int
  BY <1>1, <1>13, <1>16, Reduced
<1>18. /\ ((z -- (z ** z)) ** Y) ++ ((o ** (a ** e)) ++ (Neg(z ** o) ** e))
            = M(((z - (z * z)) * Y) + ((o * (a * e)) + ((-(z * o)) * e)))
       /\ ((z - (z * z)) * Y) + ((o * (a * e)) + ((-(z * o)) * e)) \in Int
  BY <1>1, <1>11, <1>17, Reduced
<1>19. (a - z) * ((Y * ((a - 1) + z)) + (o * e))
        = ((z - (z * z)) * Y) + ((o * (a * e)) + ((-(z * o)) * e))
  BY <1>1
<1> QED BY <1>8, <1>18, <1>19

\* Their sum, from the sums g of powers of y, h of powers of two and q of the bits' weights.
LEMMA ConstantTerm ==
  ASSUME NEW z \in Scalar, NEW k \in Scalar, NEW e \in Scalar, NEW g \in Scalar,
         NEW h \in Scalar, NEW q \in Scalar
  PROVE  (((z -- (z ** z)) ** k) ** g)
             ++ ((((z ** z) ** e) ** q) ++ (Neg(z ** ((z ** z) ** e)) ** h))
           = ((((z -- (z ** z)) ** g) ** k) -- (((z ** (z ** z)) ** h) ** e))
                 ++ (((z ** z) ** e) ** q)
<1>1. /\ z \in Int /\ k \in Int /\ e \in Int /\ g \in Int /\ h \in Int /\ q \in Int
      /\ M(z) = z /\ M(k) = k /\ M(e) = e /\ M(g) = g /\ M(h) = h /\ M(q) = q
  BY Reduced
<1>2. z ** z = M(z * z) /\ z * z \in Int
  BY <1>1, Reduced
<1>3. z -- (z ** z) = M(z - (z * z)) /\ z - (z * z) \in Int
  BY <1>1, <1>2, Reduced
<1>4. (z -- (z ** z)) ** k = M((z - (z * z)) * k) /\ (z - (z * z)) * k \in Int
  BY <1>1, <1>3, Reduced
<1>5. /\ ((z -- (z ** z)) ** k) ** g = M(((z - (z * z)) * k) * g)
      /\ ((z - (z * z)) * k) * g \in Int
  BY <1>1, <1>4, Reduced
<1>6. (z ** z) ** e = M((z * z) * e) /\ (z * z) * e \in Int
  BY <1>1, <1>2, Reduced
<1>7. ((z ** z) ** e) ** q = M(((z * z) * e) * q) /\ ((z * z) * e) * q \in Int
  BY <1>1, <1>6, Reduced
<1>8. z ** ((z ** z) ** e) = M(z * ((z * z) * e)) /\ z * ((z * z) * e) \in Int
  BY <1>1, <1>6, Reduced
<1>9. /\ Neg(z ** ((z ** z) ** e)) = M(-(z * ((z * z) * e)))
      /\ -(z * ((z * z) * e)) \in Int
  BY <1>1, <1>8, Reduced
<1>10. /\ Neg(z ** ((z ** z) ** e)) ** h = M((-(z * ((z * z) * e))) * h)
       /\ (-(z * ((z * z) * e))) * h \in Int
  BY <1>1, <1>9, Reduced
<1>11. /\ (((z ** z) ** e) ** q) ++ (Neg(z ** ((z ** z) ** e)) ** h)
            = M((((z * z) * e) * q) + ((-(z * ((z * z) * e))) * h))
       /\ (((z * z) * e) * q) + ((-(z * ((z * z) * e))) * h) \in Int
  BY <1>1, <1>7, <1>10, Reduced
<1>12. /\ (((z -- (z ** z)) ** k) ** g) ++ ((((z ** z) ** e) ** q) ++ (Neg(z ** ((z ** z) ** e)) ** h))
            = M((((z - (z * z)) * k) * g) + ((((z * z) * e) * q) + ((-(z * ((z * z) * e))) * h)))
       /\ (((z - (z * z)) * k) * g) + ((((z * z) * e) * q) + ((-(z * ((z * z) * e))) * h)) \in Int
  BY <1>1, <1>5, <1>11, Reduced
<1>13. (z -- (z ** z)) ** g = M((z - (z * z)) * g) /\ (z - (z * z)) * g \in Int
  BY <1>1, <1>3, Reduced
<1>14. /\ ((z -- (z ** z)) ** g) ** k = M(((z - (z * z)) * g) * k)
       /\ ((z - (z * z)) * g) * k \in Int
  BY <1>1, <1>13, Reduced
<1>15. z ** (z ** z) = M(z * (z * z)) /\ z * (z * z) \in Int
  BY <1>1, <1>2, Reduced
<1>16. (z ** (z ** z)) ** h = M((z * (z * z)) * h) /\ (z * (z * z)) * h \in Int
  BY <1>1, <1>15, Reduced
<1>17. /\ ((z ** (z ** z)) ** h) ** e = M(((z * (z * z)) * h) * e)
       /\ ((z * (z * z)) * h) * e \in Int
  BY <1>1, <1>16, Reduced
<1>18. /\ (((z -- (z ** z)) ** g) ** k) -- (((z ** (z ** z)) ** h) ** e)
            = M((((z - (z * z)) * g) * k) - (((z * (z * z)) * h) * e))
       /\ (((z - (z * z)) * g) * k) - (((z * (z * z)) * h) * e) \in Int
  BY <1>1, <1>14, <1>17, Reduced
<1>19. /\ ((((z -- (z ** z)) ** g) ** k) -- (((z ** (z ** z)) ** h) ** e)) ++ (((z ** z) ** e) ** q)
            = M(((((z - (z * z)) * g) * k) - (((z * (z * z)) * h) * e)) + (((z * z) * e) * q))
       /\ ((((z - (z * z)) * g) * k) - (((z * (z * z)) * h) * e)) + (((z * z) * e) * q) \in Int
  BY <1>1, <1>7, <1>18, Reduced
<1>20. (((z - (z * z)) * k) * g) + ((((z * z) * e) * q) + ((-(z * ((z * z) * e))) * h))
        = ((((z - (z * z)) * g) * k) - (((z * (z * z)) * h) * e)) + (((z * z) * e) * q)
  BY <1>1
<1> QED BY <1>12, <1>19, <1>20

\* A party that has generators, and as many bits as it has generators for.
Sized(j, bits) == j \in 0 .. PartyCapacity - 1 /\ bits \in 1..GensCapacity

\* What a party draws are scalars.
LEMMA PartyDraws ==
  ASSUME NEW j, NEW bits, Sized(j, bits)
  PROVE  /\ v_blinding(j) \in Scalar /\ a_blinding(j) \in Scalar /\ s_blinding(j) \in Scalar
         /\ s_L(j, bits) \in Vec(bits) /\ s_R(j, bits) \in Vec(bits)
         /\ t_blinding(j, 1, bits) \in Scalar /\ t_blinding(j, 2, bits) \in Scalar
<1>1. j \in 0..PartyCapacity /\ bits \in 1..GensCapacity /\ GensCapacity \in Nat
  BY CapacityAssumption DEF Sized
<1>2. 0 \in 0 .. 2 * GensCapacity + 4 /\ 1 \in 0 .. 2 * GensCapacity + 4
      /\ 2 \in 0 .. 2 * GensCapacity + 4
  BY <1>1
<1>3. \A i \in 1..bits : 2 + i \in 0 .. 2 * GensCapacity + 4
                         /\ 2 + bits + i \in 0 .. 2 * GensCapacity + 4
  BY <1>1
<1>4. 2 + 2 * bits + 1 \in 0 .. 2 * GensCapacity + 4
      /\ 2 + 2 * bits + 2 \in 0 .. 2 * GensCapacity + 4
  BY <1>1
<1>5. v_blinding(j) \in Scalar /\ a_blinding(j) \in Scalar /\ s_blinding(j) \in Scalar
  BY <1>1, <1>2, DrawAssumption DEF v_blinding, a_blinding, s_blinding
<1>6. \A i \in 1..bits : Draw(j, 2 + i) \in Scalar /\ Draw(j, 2 + bits + i) \in Scalar
  BY <1>1, <1>3, DrawAssumption
<1>7. s_L(j, bits) \in Vec(bits) /\ s_R(j, bits) \in Vec(bits)
  BY <1>6 DEF s_L, s_R, Vec
<1>8. t_blinding(j, 1, bits) \in Scalar /\ t_blinding(j, 2, bits) \in Scalar
  BY <1>1, <1>4, DrawAssumption DEF t_blinding
<1> QED BY <1>5, <1>7, <1>8

\* The power of y a party's powers of y start from, and its offset.
Start(y, j, bits) == Power(y, j * bits)

Offset(z, j) == (z ** z) ** Power(z, j)

\* They are not zero.
LEMMA StartAndOffset ==
  ASSUME NEW j, NEW bits, Sized(j, bits), NEW y \in Scalar \ {0}, NEW z \in Scalar \ {0}
  PROVE  /\ Start(y, j, bits) \in Scalar \ {0} /\ Offset(z, j) \in Scalar \ {0}
         /\ scalar_exp_vartime(y, j * bits) = Start(y, j, bits)
         /\ (z ** z) ** scalar_exp_vartime(z, j) = Offset(z, j)
         /\ Power(z, j) \in Scalar /\ scalar_exp_vartime(z, j) = Power(z, j)
         /\ j \in Nat /\ bits \in Nat /\ j * bits \in Nat
<1>1. j \in Nat /\ bits \in Nat /\ j * bits \in Nat
  BY CapacityAssumption DEF Sized
<1>2. Start(y, j, bits) \in Scalar \ {0} /\ Power(z, j) \in Scalar \ {0}
  BY <1>1, PowerOfInverse DEF Start
<1>3. z ** z \in Scalar \ {0}
  BY ScalarClosed, NoZeroDivisors
<1>4. Offset(z, j) \in Scalar \ {0}
  BY <1>2, <1>3, ScalarClosed, NoZeroDivisors DEF Offset
<1>5. scalar_exp_vartime(y, j * bits) = Power(y, j * bits) /\ scalar_exp_vartime(z, j) = Power(z, j)
  BY <1>1, ExpIsPower
<1> QED BY <1>1, <1>2, <1>4, <1>5 DEF Start, Offset

\* The entries of a party's polynomials for the value v: la and ra are the constant
\* coefficients, rb the linear one of r.
Coefficients(la, ra, rb, j, v, bits, y, z) ==
  /\ la \in Vec(bits) /\ ra \in Vec(bits) /\ rb \in Vec(bits)
  /\ \A i \in 1..bits :
         /\ la[i] = Bit(v, i - 1) -- z
         /\ ra[i] = (Start(y, j, bits) ** Power(y, i - 1)) ** ((Bit(v, i - 1) -- 1) ++ z)
                      ++ Offset(z, j) ** Power(2, i - 1)
         /\ rb[i] = (Start(y, j, bits) ** Power(y, i - 1)) ** s_R(j, bits)[i]

\* What Polynomials computes.
ArePolynomials(p, la, ra, rb, j, v, bits, y, z) ==
  /\ Coefficients(la, ra, rb, j, v, bits, y, z)
  /\ p.offset_zz = Offset(z, j)
  /\ p.l = <<la, s_L(j, bits)>> /\ p.r = <<ra, rb>>
  /\ p.t = VecPoly1InnerProduct(<<la, s_L(j, bits)>>, <<ra, rb>>)

LEMMA PolynomialsAre ==
  ASSUME NEW j, NEW bits, Sized(j, bits), NEW v \in Nat,
         NEW y \in Scalar \ {0}, NEW z \in Scalar \ {0}
  PROVE  \E la, ra, rb :
             ArePolynomials(Polynomials(j, v, bits, y, z), la, ra, rb, j, v, bits, y, z)
<1>0. PICK p : p = Polynomials(j, v, bits, y, z)
  OBVIOUS
<1> DEFINE start == Start(y, j, bits)
           off == Offset(z, j)
           a(i) == Bit(v, i - 1)
<1>1. /\ start \in Scalar /\ off \in Scalar
      /\ scalar_exp_vartime(y, j * bits) = start
      /\ (z ** z) ** scalar_exp_vartime(z, j) = off
      /\ bits \in Nat
  BY StartAndOffset
<1> HIDE DEF start, off
<1>2. PICK ey : ey = exp_iter(y, bits)
  OBVIOUS
<1>3. ey \in Vec(bits) /\ \A i \in 1..bits : ey[i] = Power(y, i - 1)
  BY <1>1, <1>2, ExpIterIs
<1>4. 2 \in Scalar
  BY PowerOfTwoIsScalar, LargeOrderAssumption, OrderAssumption DEF Scalar
<1>5. PICK e2 : e2 = exp_iter(2, bits)
  OBVIOUS
<1>6. e2 \in Vec(bits) /\ \A i \in 1..bits : e2[i] = Power(2, i - 1)
  BY <1>1, <1>4, <1>5, ExpIterIs
<1>7. PICK Y : Y = Scale(start, ey)
  OBVIOUS
<1>8. Y \in Vec(bits) /\ \A i \in 1..bits : Y[i] = start ** Power(y, i - 1)
  <2>1. DOMAIN ey = 1..bits /\ \A i \in 1..bits : ey[i] \in Scalar
    BY <1>3 DEF Vec
  <2>2. Y = [i \in 1..bits |-> start ** ey[i]]
    BY <1>7, <2>1 DEF Scale
  <2>3. \A i \in 1..bits : start ** ey[i] \in Scalar
    BY <1>1, <2>1, ScalarClosed
  <2> QED BY <1>3, <2>2, <2>3 DEF Vec
<1>9. PICK aL : aL = [i \in 1..bits |-> a(i)]
  OBVIOUS
<1>10. \A i \in 1..bits : aL[i] = a(i) /\ a(i) \in Scalar
  <2>1. \A i \in 1..bits : i - 1 \in Nat
    OBVIOUS
  <2> QED BY <1>9, <2>1, BitIsBit
<1> HIDE DEF a
<1>11. PICK la : la = [i \in 1..bits |-> aL[i] -- z]
  OBVIOUS
<1>12. PICK ra : ra = [i \in 1..bits |-> Y[i] ** ((aL[i] -- 1) ++ z) ++ off ** e2[i]]
  OBVIOUS
<1>13. PICK rb : rb = Times(Y, s_R(j, bits))
  OBVIOUS
<1>14. s_R(j, bits) \in Vec(bits)
  BY PartyDraws
<1>15. la \in Vec(bits) /\ \A i \in 1..bits : la[i] = a(i) -- z
  <2>1. \A i \in 1..bits : aL[i] -- z \in Scalar
    BY <1>10, ScalarClosed
  <2> QED BY <1>10, <1>11, <2>1 DEF Vec
<1>16. ra \in Vec(bits)
       /\ \A i \in 1..bits : ra[i] = (start ** Power(y, i - 1)) ** ((a(i) -- 1) ++ z)
                                       ++ off ** Power(2, i - 1)
  <2>1. ASSUME NEW i \in 1..bits
        PROVE  Y[i] ** ((aL[i] -- 1) ++ z) ++ off ** e2[i] \in Scalar
    <3>1. Y[i] \in Scalar /\ aL[i] \in Scalar /\ e2[i] \in Scalar
      BY <1>6, <1>8, <1>10 DEF Vec
    <3>2. (aL[i] -- 1) ++ z \in Scalar /\ off ** e2[i] \in Scalar
      BY <1>1, <3>1, ScalarClosed
    <3>3. Y[i] ** ((aL[i] -- 1) ++ z) \in Scalar
      BY <3>1, <3>2, ScalarClosed
    <3> QED BY <3>2, <3>3, ScalarClosed
  <2>2. ra \in Vec(bits)
    BY <1>12, <2>1 DEF Vec
  <2> QED BY <1>6, <1>8, <1>10, <1>12, <2>2
<1>17. rb \in Vec(bits)
       /\ \A i \in 1..bits : rb[i] = (start ** Power(y, i - 1)) ** s_R(j, bits)[i]
  BY <1>1, <1>8, <1>13, <1>14, TimesType
<1>18. Coefficients(la, ra, rb, j, v, bits, y, z)
  BY <1>15, <1>16, <1>17 DEF Coefficients, start, off, a
<1>19. p = [l |-> <<la, s_L(j, bits)>>, r |-> <<ra, rb>>,
            t |-> VecPoly1InnerProduct(<<la, s_L(j, bits)>>, <<ra, rb>>),
            offset_zz |-> off]
  BY <1>0, <1>1, <1>2, <1>5, <1>7, <1>9, <1>11, <1>12, <1>13 DEF Polynomials, a
<1>20. ArePolynomials(p, la, ra, rb, j, v, bits, y, z)
  BY <1>18, <1>19 DEF off, ArePolynomials
<1> QED BY <1>0, <1>20

\* The part of t(0) that does not depend on the value.
DeltaOf(j, bits, y, z) ==
  ((z -- z ** z) ** Geometric(y, bits)) ** Start(y, j, bits)
    -- ((z ** (z ** z)) ** Geometric(2, bits)) ** Power(z, j)

\* The constant coefficient of t is the value's lower part at the party's offset, and
\* what everybody knows.
LEMMA ConstantCoefficient ==
  ASSUME NEW j, NEW bits, Sized(j, bits), NEW v \in Nat,
         NEW y \in Scalar \ {0}, NEW z \in Scalar \ {0},
         NEW la, NEW ra, NEW rb, Coefficients(la, ra, rb, j, v, bits, y, z)
  PROVE  /\ Dot(la, ra) = DeltaOf(j, bits, y, z) ++ Offset(z, j) ** M(v % 2^bits)
         /\ DeltaOf(j, bits, y, z) \in Scalar
<1> DEFINE start == Start(y, j, bits)
           off == Offset(z, j)
           a(i) == Bit(v, i - 1)
<1>1. /\ start \in Scalar /\ off \in Scalar /\ bits \in Nat /\ Power(z, j) \in Scalar
  BY StartAndOffset
<1>2. off = (z ** z) ** Power(z, j)
  BY DEF Offset
<1>3. la \in Vec(bits) /\ ra \in Vec(bits)
      /\ \A i \in 1..bits :
           /\ la[i] = a(i) -- z
           /\ ra[i] = (start ** Power(y, i - 1)) ** ((a(i) -- 1) ++ z) ++ off ** Power(2, i - 1)
  BY DEF Coefficients
<1>4. \A i \in 1..bits : a(i) \in {0, 1} /\ a(i) \in Scalar
  <2>1. \A i \in 1..bits : i - 1 \in Nat
    OBVIOUS
  <2> QED BY <2>1, BitIsBit
<1>5. 2 \in Scalar
  BY LargeOrderAssumption, OrderAssumption DEF Scalar
<1>6. PICK ey \in Vec(bits) : ey = exp_iter(y, bits) /\ \A i \in 1..bits : ey[i] = Power(y, i - 1)
  BY <1>1, ExpIterIs
<1>7. PICK e2 \in Vec(bits) : e2 = exp_iter(2, bits) /\ \A i \in 1..bits : e2[i] = Power(2, i - 1)
  BY <1>1, <1>5, ExpIterIs
<1>8. \A i \in 1..bits : ey[i] \in Scalar /\ e2[i] \in Scalar
  BY <1>6, <1>7 DEF Vec
<1>9. PICK w : w = [i \in 1..bits |-> a(i) ** e2[i]]
  OBVIOUS
<1>10. w \in Vec(bits) /\ SumOf(w) = M(v % 2^bits)
  <2>1. \A i \in 1..bits : w[i] \in Scalar
    BY <1>4, <1>8, <1>9, ScalarClosed
  <2>2. w \in Vec(bits)
    BY <1>9, <2>1 DEF Vec
  <2>3. \A i \in 1..bits : w[i] = Bit(v, i - 1) ** Power(2, i - 1)
    BY <1>7, <1>9
  <2> QED BY <1>1, <2>2, <2>3, BitsAddUp
<1>11. \A i \in 1..bits : w[i] = a(i) ** e2[i] /\ w[i] \in Scalar
  BY <1>9, <1>10 DEF Vec
<1> HIDE DEF start, off, a
<1>12. PICK k1 \in Scalar : k1 = (z -- z ** z) ** start
  BY <1>1, ScalarClosed
<1>13. PICK k3 \in Scalar : k3 = Neg(z ** off)
  BY <1>1, ScalarClosed
<1>14. PICK f1 : f1 = [i \in 1..bits |-> k1 ** ey[i]]
  OBVIOUS
<1>15. PICK f2 : f2 = [i \in 1..bits |-> off ** w[i]]
  OBVIOUS
<1>16. PICK f3 : f3 = [i \in 1..bits |-> k3 ** e2[i]]
  OBVIOUS
<1>17. PICK f4 : f4 = [i \in 1..bits |-> f2[i] ++ f3[i]]
  OBVIOUS
<1>18. f1 \in Vec(bits) /\ f2 \in Vec(bits) /\ f3 \in Vec(bits)
  <2>1. f1 \in Vec(bits)
    BY <1>8, <1>12, <1>14, ScalarClosed DEF Vec
  <2>2. f2 \in Vec(bits)
    BY <1>1, <1>11, <1>15, ScalarClosed DEF Vec
  <2>3. f3 \in Vec(bits)
    BY <1>8, <1>13, <1>16, ScalarClosed DEF Vec
  <2> QED BY <2>1, <2>2, <2>3
<1>19. f4 \in Vec(bits)
  <2>1. \A i \in 1..bits : f2[i] \in Scalar /\ f3[i] \in Scalar
    BY <1>18 DEF Vec
  <2> QED BY <1>17, <2>1, ScalarClosed DEF Vec
<1>20. ASSUME NEW i \in 1..bits PROVE Times(la, ra)[i] = f1[i] ++ f4[i]
  <2>1. PICK b \in Scalar, Yi \in Scalar, e \in Scalar, g \in Scalar :
            b = a(i) /\ Yi = start ** ey[i] /\ e = e2[i] /\ g = ey[i]
    BY <1>1, <1>4, <1>8, ScalarClosed
  <2>2. b * b = b
    <3>1. b = 0 \/ b = 1
      BY <1>4, <2>1
    <3> QED BY <3>1
  <2>3. Times(la, ra)[i] = la[i] ** ra[i]
    BY <1>1, <1>3, TimesType
  <2>4. la[i] = b -- z /\ ra[i] = Yi ** ((b -- 1) ++ z) ++ off ** e
    BY <1>3, <1>6, <1>7, <2>1 DEF start, off, a
  <2>5. (b -- z) ** (Yi ** ((b -- 1) ++ z) ++ off ** e)
          = (z -- z ** z) ** Yi ++ (off ** (b ** e) ++ Neg(z ** off) ** e)
    BY <1>1, <2>2, ConstantEntry
  <2>6. (z -- z ** z) ** Yi = f1[i]
    <3>1. z -- z ** z \in Scalar
      BY ScalarClosed
    <3>2. ((z -- z ** z) ** start) ** g = (z -- z ** z) ** (start ** g)
      BY <1>1, <3>1, MulAssociates
    <3> QED BY <1>12, <1>14, <2>1, <3>2
  <2>7. f4[i] = off ** (b ** e) ++ Neg(z ** off) ** e
    BY <1>11, <1>13, <1>15, <1>16, <1>17, <2>1
  <2> QED BY <2>3, <2>4, <2>5, <2>6, <2>7
<1>21. Times(la, ra) \in Vec(bits)
  BY <1>1, <1>3, TimesType
<1>22. Dot(la, ra) = SumOf(f1) ++ SumOf(f4)
  BY <1>1, <1>18, <1>19, <1>20, <1>21, SumAdd DEF Dot
<1>23. SumOf(f4) = SumOf(f2) ++ SumOf(f3)
  BY <1>1, <1>17, <1>18, <1>19, SumAdd
<1>24. PICK g \in Scalar, h \in Scalar, q \in Scalar :
           g = Geometric(y, bits) /\ h = Geometric(2, bits) /\ q = M(v % 2^bits)
  <2>1. SumOf(w) \in Scalar
    BY <1>1, <1>10, SumClosed
  <2> QED BY <1>1, <1>5, <1>10, <2>1, GeometricNext
<1>25. SumOf(f1) = k1 ** g
  BY <1>1, <1>6, <1>12, <1>14, <1>18, <1>24, SumScale DEF Geometric
<1>26. SumOf(f2) = off ** q
  BY <1>1, <1>10, <1>11, <1>15, <1>18, <1>24, SumScale
<1>27. SumOf(f3) = k3 ** h
  <2>1. SumOf(f3) = k3 ** SumOf(e2)
    BY <1>1, <1>16, <1>18, SumScale
  <2> QED BY <1>7, <1>24, <2>1 DEF Geometric
<1>28. PICK k \in Scalar, e \in Scalar : k = start /\ e = Power(z, j)
  BY <1>1
<1>29. ((z -- z ** z) ** k) ** g
          ++ (((z ** z) ** e) ** q ++ Neg(z ** ((z ** z) ** e)) ** h)
        = (((z -- z ** z) ** g) ** k -- ((z ** (z ** z)) ** h) ** e) ++ ((z ** z) ** e) ** q
  <2>1. z \in Scalar
    OBVIOUS
  <2> QED BY <2>1, ConstantTerm, SMTT(60)
<1>30. Dot(la, ra) = (((z -- z ** z) ** g) ** k -- ((z ** (z ** z)) ** h) ** e)
                        ++ ((z ** z) ** e) ** q
  <2>1. Dot(la, ra) = k1 ** g ++ (off ** q ++ k3 ** h)
    BY <1>22, <1>23, <1>25, <1>26, <1>27
  <2>2. off = (z ** z) ** e
    BY <1>2, <1>28 DEF off
  <2> QED BY <1>12, <1>13, <1>28, <1>29, <2>1, <2>2
<1>31. DeltaOf(j, bits, y, z)
         = ((z -- z ** z) ** g) ** k -- ((z ** (z ** z)) ** h) ** e
  BY <1>24, <1>28 DEF DeltaOf, start
<1>32. DeltaOf(j, bits, y, z) \in Scalar
  <2>1. z -- z ** z \in Scalar /\ z ** (z ** z) \in Scalar
    BY ScalarClosed
  <2>2. ((z -- z ** z) ** g) ** k \in Scalar /\ ((z ** (z ** z)) ** h) ** e \in Scalar
    BY <2>1, ScalarClosed
  <2> QED BY <1>31, <2>2, ScalarClosed, ZenonT(40)
<1> QED BY <1>2, <1>24, <1>28, <1>30, <1>31, <1>32 DEF off

-----------------------------------------------------------------------------
(* Combinations of a few points and the party's generators.                *)

\* The generators no party has: what is committed with, and the blinding's.
b0 == <<"B", 0, 0>>

b1 == <<"B_blinding", 0, 0>>

\* The generators are different from one another.
LEMMA GeneratorsDiffer ==
  ASSUME NEW j, NEW bits, Sized(j, bits)
  PROVE  /\ b0 \in Generator /\ b1 \in Generator /\ b0 # b1
         /\ \A letter \in {"G", "H"} : \A i \in 1..bits :
                /\ <<letter, j, i>> \in Generator
                /\ <<letter, j, i>> # b0 /\ <<letter, j, i>> # b1
         /\ \A i, k \in 1..bits : /\ <<"G", j, i>> # <<"H", j, k>>
                                  /\ <<"G", j, i>> = <<"G", j, k>> => i = k
                                  /\ <<"H", j, i>> = <<"H", j, k>> => i = k
<1>1. bits \in Nat /\ \A i \in 1..bits : i \in 1..GensCapacity
  BY CapacityAssumption DEF Sized
<1>2. b0 # b1 /\ b0 \in Generator /\ b1 \in Generator
  BY DEF b0, b1, Generator
<1>3. ASSUME NEW letter \in {"G", "H"}, NEW i \in 1..bits
      PROVE  /\ <<letter, j, i>> \in Generator
             /\ <<letter, j, i>> # b0 /\ <<letter, j, i>> # b1
  BY <1>1 DEF b0, b1, Generator, Sized
<1> QED BY <1>2, <1>3

\* The coordinates of the two, and of a commitment.
LEMMA CommitAt ==
  ASSUME NEW a \in Scalar, NEW b \in Scalar
  PROVE  /\ B \in Point /\ B_blinding \in Point /\ commit(a, b) \in Point
         /\ \A g \in Generator : /\ B[g] = IF g = b0 THEN 1 ELSE 0
                                 /\ B_blinding[g] = IF g = b1 THEN 1 ELSE 0
                                 /\ commit(a, b)[g] = IF g = b0 THEN a
                                                      ELSE IF g = b1 THEN b ELSE 0
<1>1. B \in Point /\ B_blinding \in Point
  BY BaseType DEF B, B_blinding
<1>2. ASSUME NEW g \in Generator
      PROVE  /\ B[g] = IF g = b0 THEN 1 ELSE 0
             /\ B_blinding[g] = IF g = b1 THEN 1 ELSE 0
  BY BaseAt DEF B, B_blinding, b0, b1
<1>3. commit(a, b) \in Point
      /\ \A g \in Generator : commit(a, b)[g] = a ** B[g] ++ b ** B_blinding[g]
  BY <1>1, MsmOfTwo DEF commit
<1>4. b0 # b1
  BY DEF b0, b1
<1>5. ASSUME NEW g \in Generator
      PROVE  commit(a, b)[g] = IF g = b0 THEN a ELSE IF g = b1 THEN b ELSE 0
  <2>1. a ** 1 = a /\ b ** 1 = b /\ a ** 0 = 0 /\ b ** 0 = 0 /\ a ++ 0 = a /\ 0 ++ b = b
        /\ 0 ++ 0 = 0
    BY Units, ScalarClosed
  <2> QED BY <1>2, <1>3, <1>4, <2>1
<1> QED BY <1>1, <1>2, <1>3, <1>5

\* A combination of a few points and the party's generators has their weights more, at
\* these generators.
LEMMA WithShareGens ==
  ASSUME NEW j, NEW bits, Sized(j, bits), NEW k \in Nat, NEW s \in Vec(k), NEW P \in PointVec(k),
         NEW f \in Vec(bits), NEW h \in Vec(bits), NEW c,
         c = multiscalar_mul(s \o f \o h, P \o ShareGens("G", j, bits) \o ShareGens("H", j, bits))
  PROVE  /\ c \in Point
         /\ \A g \in Generator :
                (\A i \in 1..bits : g # <<"G", j, i>> /\ g # <<"H", j, i>>)
                    => c[g] = multiscalar_mul(s, P)[g]
         /\ \A i \in 1..bits :
                /\ c[<<"G", j, i>>] = multiscalar_mul(s, P)[<<"G", j, i>>] ++ f[i]
                /\ c[<<"H", j, i>>] = multiscalar_mul(s, P)[<<"H", j, i>>] ++ h[i]
<1>1. bits \in Nat
  BY StartAndOffset, CapacityAssumption DEF Sized
<1>2. PICK G : G = ShareGens("G", j, bits)
  OBVIOUS
<1>3. PICK H : H = ShareGens("H", j, bits)
  OBVIOUS
<1>4. G \in PointVec(bits) /\ H \in PointVec(bits)
  BY <1>1, <1>2, <1>3, ShareGensType
<1>5. PICK sf : sf = s \o f
  OBVIOUS
<1>6. PICK PG : PG = P \o G
  OBVIOUS
<1>7. sf \in Vec(k + bits)
  <2>1. s \o f \in [1..(k + bits) -> Scalar]
    BY <1>1, Concat DEF Vec
  <2> QED BY <1>5, <2>1 DEF Vec
<1>8. PG \in PointVec(k + bits)
  <2>1. P \o G \in [1..(k + bits) -> Point]
    BY <1>1, <1>4, Concat DEF PointVec
  <2> QED BY <1>6, <2>1 DEF PointVec
<1>9. k + bits \in Nat /\ (k + bits) + bits \in Nat
  BY <1>1
<1>10. c = multiscalar_mul(sf \o h, PG \o H)
  BY <1>2, <1>3, <1>5, <1>6
<1>11. c \in Point
  <2>1. sf \o h \in [1..((k + bits) + bits) -> Scalar]
    BY <1>1, <1>7, <1>9, Concat DEF Vec
  <2>2. PG \o H \in [1..((k + bits) + bits) -> Point]
    BY <1>1, <1>4, <1>8, <1>9, Concat DEF PointVec
  <2>3. sf \o h \in Vec((k + bits) + bits) /\ PG \o H \in PointVec((k + bits) + bits)
    BY <2>1, <2>2 DEF Vec, PointVec
  <2> QED BY <1>9, <1>10, <2>3, MsmType
<1>12. ASSUME NEW g \in Generator
       PROVE  c[g] = (multiscalar_mul(s, P)[g] ++ multiscalar_mul(f, G)[g])
                       ++ multiscalar_mul(h, H)[g]
  <2>1. c[g] = multiscalar_mul(sf, PG)[g] ++ multiscalar_mul(h, H)[g]
    BY <1>1, <1>4, <1>7, <1>8, <1>9, <1>10, MsmThen
  <2>2. multiscalar_mul(sf, PG)[g] = multiscalar_mul(s, P)[g] ++ multiscalar_mul(f, G)[g]
    BY <1>1, <1>4, <1>5, <1>6, MsmThen
  <2> QED BY <2>1, <2>2
<1>13. ASSUME NEW g \in Generator
       PROVE  multiscalar_mul(s, P)[g] \in Scalar
  BY MsmType DEF Point
<1>14. ASSUME NEW g \in Generator
       PROVE  /\ (\A i \in 1..bits : g # <<"G", j, i>>) => multiscalar_mul(f, G)[g] = 0
              /\ (\A i \in 1..bits : g # <<"H", j, i>>) => multiscalar_mul(h, H)[g] = 0
              /\ \A i \in 1..bits : /\ g = <<"G", j, i>> => multiscalar_mul(f, G)[g] = f[i]
                                    /\ g = <<"H", j, i>> => multiscalar_mul(h, H)[g] = h[i]
  BY <1>1, <1>2, <1>3, MsmOfShareGens
<1>15. ASSUME NEW g \in Generator,
              \A i \in 1..bits : g # <<"G", j, i>> /\ g # <<"H", j, i>>
       PROVE  c[g] = multiscalar_mul(s, P)[g]
  <2>1. multiscalar_mul(f, G)[g] = 0 /\ multiscalar_mul(h, H)[g] = 0
    BY <1>14, <1>15
  <2> QED BY <1>12, <1>13, <2>1, Units
<1>16. ASSUME NEW i \in 1..bits
       PROVE  /\ c[<<"G", j, i>>] = multiscalar_mul(s, P)[<<"G", j, i>>] ++ f[i]
              /\ c[<<"H", j, i>>] = multiscalar_mul(s, P)[<<"H", j, i>>] ++ h[i]
  <2>1. PICK g : g = <<"G", j, i>>
    OBVIOUS
  <2>2. PICK q : q = <<"H", j, i>>
    OBVIOUS
  <2>3. g \in Generator /\ q \in Generator
        /\ (\A l \in 1..bits : g # <<"H", j, l>>) /\ (\A l \in 1..bits : q # <<"G", j, l>>)
    BY <2>1, <2>2, GeneratorsDiffer
  <2>4. multiscalar_mul(f, G)[g] = f[i] /\ multiscalar_mul(h, H)[g] = 0
        /\ multiscalar_mul(f, G)[q] = 0 /\ multiscalar_mul(h, H)[q] = h[i]
    BY <1>14, <2>1, <2>2, <2>3
  <2>5. f[i] \in Scalar /\ h[i] \in Scalar
    BY DEF Vec
  <2>6. c[g] = (multiscalar_mul(s, P)[g] ++ f[i]) ++ 0
        /\ c[q] = (multiscalar_mul(s, P)[q] ++ 0) ++ h[i]
    BY <1>12, <2>3, <2>4
  <2>7. multiscalar_mul(s, P)[g] ++ f[i] \in Scalar
    BY <1>13, <2>3, <2>5, ScalarClosed
  <2> QED BY <1>13, <2>1, <2>2, <2>3, <2>6, <2>7, Units
<1> QED BY <1>11, <1>15, <1>16

\* A sum of points with one point in front.
LEMMA SumOfPointsAt ==
  ASSUME NEW k \in Nat, NEW P \in Point, NEW T \in PointVec(k), NEW c, c = SumOfPoints(<<P>> \o T)
  PROVE  /\ c \in Point
         /\ \A g \in Generator : \A w \in Vec(k) :
                (\A i \in 1..k : w[i] = T[i][g]) => c[g] = P[g] ++ SumOf(w)
<1>1. PICK U : U = <<P>> \o T
  OBVIOUS
<1>2. <<P>> \in [1..1 -> Point]
  OBVIOUS
<1>3. 1 \in Nat /\ 1 + k \in Nat
  OBVIOUS
<1>4. /\ U \in [1..(1 + k) -> Point]
      /\ \A i \in 1..1 : U[i] = <<P>>[i]
      /\ \A i \in 1..k : U[1 + i] = T[i]
  <2>1. PICK l \in Nat : l = 1
    OBVIOUS
  <2>2. PICK F : F = <<P>>
    OBVIOUS
  <2>3. F \in [1..l -> Point] /\ T \in [1..k -> Point] /\ U = F \o T
    BY <1>1, <1>2, <2>1, <2>2 DEF PointVec
  <2>4. /\ F \o T \in [1..(l + k) -> Point]
        /\ \A i \in 1..l : (F \o T)[i] = F[i]
        /\ \A i \in 1..k : (F \o T)[l + i] = T[i]
    <3>1. F \in [1..l -> Point] /\ T \in [1..k -> Point]
      BY <2>3
    <3>2. F \o T \in [1..(l + k) -> Point]
      BY <3>1, Concat
    <3>3. \A i \in 1..l : (F \o T)[i] = F[i]
      BY <3>1, Concat
    <3>4. \A i \in 1..k : (F \o T)[l + i] = T[i]
      BY <3>1, Concat
    <3> QED BY <3>2, <3>3, <3>4
  <2>5. /\ U \in [1..(l + k) -> Point]
        /\ \A i \in 1..l : U[i] = F[i]
        /\ \A i \in 1..k : U[l + i] = T[i]
    BY <2>3, <2>4
  <2> QED BY <2>1, <2>2, <2>5
<1>5. U \in PointVec(1 + k) /\ U[1] = P /\ DOMAIN U = 1..(1 + k)
  <2>1. 1 \in 1..1 /\ <<P>>[1] = P
    OBVIOUS
  <2>2. U[1] = P
    BY <1>4, <2>1
  <2> QED BY <1>4, <2>2 DEF PointVec
<1>6. PICK ones : ones = [i \in 1..(1 + k) |-> 1]
  OBVIOUS
<1>7. ones \in Vec(1 + k)
  BY <1>6, ScalarClosed DEF Vec
<1>8. c = multiscalar_mul(ones, U)
  BY <1>1, <1>5, <1>6 DEF SumOfPoints
<1>9. c \in Point
  BY <1>3, <1>5, <1>7, <1>8, MsmType
<1>10. ASSUME NEW g \in Generator, NEW w \in Vec(k), \A i \in 1..k : w[i] = T[i][g]
       PROVE  c[g] = P[g] ++ SumOf(w)
  <2>1. PICK x : x = [i \in 1..(1 + k) |-> ones[i] ** U[i][g]]
    OBVIOUS
  <2>2. x \in Vec(1 + k) /\ c[g] = SumOf(x)
    BY <1>3, <1>5, <1>7, <1>8, <2>1, MsmAt
  <2>3. P[g] \in Scalar /\ \A i \in 1..k : w[i] \in Scalar
    BY DEF Point, Vec
  <2>4. PICK v : v = [i \in 1..1 |-> P[g]]
    OBVIOUS
  <2>5. v \in Vec(1) /\ v[1] = P[g]
    BY <2>3, <2>4 DEF Vec
  <2>6. \A i \in 1..1 : x[i] = v[i]
    <3>1. 1 \in 1..(1 + k) /\ \A i \in 1..1 : i = 1
      OBVIOUS
    <3>2. x[1] = 1 ** P[g]
      BY <1>5, <1>6, <2>1, <3>1
    <3> QED BY <2>3, <2>5, <3>1, <3>2, Units
  <2>7. ASSUME NEW i \in 1..k PROVE x[1 + i] = w[i]
    <3>1. 1 + i \in 1..(1 + k)
      OBVIOUS
    <3>2. x[1 + i] = 1 ** T[i][g]
      BY <1>4, <1>6, <2>1, <3>1
    <3>3. w[i] \in Scalar /\ w[i] = T[i][g]
      BY <1>10, <2>3
    <3> QED BY <3>2, <3>3, Units
  <2>8. SumOf(x) = SumOf(v) ++ SumOf(w)
    BY <1>3, <2>2, <2>5, <2>6, <2>7, SumThen
  <2>9. SumOf(v) = P[g]
    BY <2>5, SumOfOne
  <2> QED BY <2>2, <2>8, <2>9
<1> QED BY <1>9, <1>10

\* A generator the blinding's and the party's first ones are not.
Other(g, j, bits) == g # b1 /\ \A i \in 1..bits : g # <<"G", j, i>> /\ g # <<"H", j, i>>

\* The coordinates of what a party commits to.
LEMMA BitCommitmentAt ==
  ASSUME NEW j, NEW bits, Sized(j, bits), NEW v \in Nat, v < Order,
         NEW c, c = BitCommitment(j, v, bits)
  PROVE  /\ c.V_j = commit(v, v_blinding(j)) /\ v \in Scalar
         /\ c.A_j \in Point /\ c.S_j \in Point
         /\ c.A_j[b1] = a_blinding(j) /\ c.S_j[b1] = s_blinding(j)
         /\ \A i \in 1..bits :
                /\ c.A_j[<<"G", j, i>>] = Bit(v, i - 1) /\ c.S_j[<<"G", j, i>>] = s_L(j, bits)[i]
                /\ c.A_j[<<"H", j, i>>] = Bit(v, i - 1) -- 1
                /\ c.S_j[<<"H", j, i>>] = s_R(j, bits)[i]
         /\ \A g \in Generator : Other(g, j, bits) => c.A_j[g] = 0 /\ c.S_j[g] = 0
<1>1. bits \in Nat /\ bits # 0 /\ \A i \in 1..bits : i - 1 \in Nat
  BY CapacityAssumption DEF Sized
<1>2. PICK G : G = ShareGens("G", j, bits)
  OBVIOUS
<1>3. PICK H : H = ShareGens("H", j, bits)
  OBVIOUS
<1>4. G \in PointVec(bits) /\ H \in PointVec(bits)
      /\ \A i \in 1..bits : G[i] = Base(<<"G", j, i>>) /\ H[i] = Base(<<"H", j, i>>)
  BY <1>1, <1>2, <1>3, ShareGensType DEF ShareGens
<1>5. PICK T : T = [i \in 1..bits |-> IF Bit(v, i - 1) = 1 THEN G[i]
                                      ELSE multiscalar_mul(<<Neg(1)>>, <<H[i]>>)]
  OBVIOUS
<1>6. /\ B_blinding \in Point /\ a_blinding(j) \in Scalar /\ s_blinding(j) \in Scalar
      /\ s_L(j, bits) \in Vec(bits) /\ s_R(j, bits) \in Vec(bits)
      /\ \A g \in Generator : B_blinding[g] = IF g = b1 THEN 1 ELSE 0
  BY PartyDraws, CommitAt, ScalarClosed
<1>7. ASSUME NEW s \in Scalar, NEW P \in Point
      PROVE  multiscalar_mul(<<s>>, <<P>>) \in Point
             /\ \A g \in Generator : multiscalar_mul(<<s>>, <<P>>)[g] = s ** P[g]
  <2>1. <<s>> \in Vec(1) /\ <<P>> \in PointVec(1)
    BY DEF Vec, PointVec
  <2>2. PICK l \in Nat : l = 1
    OBVIOUS
  <2>3. <<s>> \in Vec(l) /\ <<P>> \in PointVec(l)
    BY <2>1, <2>2
  <2> QED BY <2>3, MsmType, MsmOfOne
<1>8. PICK P0 \in Point : /\ P0 = multiscalar_mul(<<a_blinding(j)>>, <<B_blinding>>)
                          /\ \A g \in Generator : P0[g] = a_blinding(j) ** B_blinding[g]
  BY <1>6, <1>7
<1>9. T \in PointVec(bits)
  <2>1. \A i \in 1..bits : G[i] \in Point /\ H[i] \in Point
    BY <1>4 DEF PointVec
  <2>2. Neg(1) \in Scalar
    BY ScalarClosed
  <2>3. \A i \in 1..bits : multiscalar_mul(<<Neg(1)>>, <<H[i]>>) \in Point
    BY <1>7, <2>1, <2>2
  <2> QED BY <1>5, <2>1, <2>3 DEF PointVec
<1>10. PICK A : A = SumOfPoints(<<P0>> \o T)
  OBVIOUS
<1>11. /\ A \in Point
       /\ \A g \in Generator : \A w \in Vec(bits) :
              (\A i \in 1..bits : w[i] = T[i][g]) => A[g] = P0[g] ++ SumOf(w)
  BY <1>1, <1>9, <1>10, SumOfPointsAt
<1>12. PICK S : S = multiscalar_mul(<<s_blinding(j)>> \o s_L(j, bits) \o s_R(j, bits),
                                    <<B_blinding>> \o G \o H)
  OBVIOUS
<1>13. c = [V_j |-> commit(v % Order, v_blinding(j)), A_j |-> A, S_j |-> S]
  BY <1>2, <1>3, <1>5, <1>8, <1>10, <1>12 DEF BitCommitment
<1>14. v \in Scalar /\ v % Order = v
  BY OrderAssumption DEF Scalar
\* S_j
<1>15. PICK q : q = multiscalar_mul(<<s_blinding(j)>>, <<B_blinding>>)
  OBVIOUS
<1>16. \A g \in Generator : q[g] = IF g = b1 THEN s_blinding(j) ELSE 0
  <2>1. \A g \in Generator : q[g] = s_blinding(j) ** B_blinding[g]
    BY <1>6, <1>7, <1>15
  <2>2. s_blinding(j) ** 1 = s_blinding(j) /\ s_blinding(j) ** 0 = 0
    BY <1>6, Units
  <2> QED BY <1>6, <2>1, <2>2
<1>17. /\ S \in Point
       /\ \A g \in Generator :
              (\A i \in 1..bits : g # <<"G", j, i>> /\ g # <<"H", j, i>>) => S[g] = q[g]
       /\ \A i \in 1..bits :
              /\ S[<<"G", j, i>>] = q[<<"G", j, i>>] ++ s_L(j, bits)[i]
              /\ S[<<"H", j, i>>] = q[<<"H", j, i>>] ++ s_R(j, bits)[i]
  <2>1. PICK l \in Nat : l = 1
    OBVIOUS
  <2>2. <<s_blinding(j)>> \in Vec(l) /\ <<B_blinding>> \in PointVec(l)
    BY <1>6, <2>1 DEF Vec, PointVec
  <2>3. PICK s : s = <<s_blinding(j)>>
    OBVIOUS
  <2>4. PICK P : P = <<B_blinding>>
    OBVIOUS
  <2>5. s \in Vec(l) /\ P \in PointVec(l) /\ q = multiscalar_mul(s, P)
    BY <1>15, <2>2, <2>3, <2>4
  <2>6. S = multiscalar_mul(s \o s_L(j, bits) \o s_R(j, bits),
                            P \o ShareGens("G", j, bits) \o ShareGens("H", j, bits))
    BY <1>2, <1>3, <1>12, <2>3, <2>4
  <2> QED BY <1>6, <2>5, <2>6, WithShareGens
<1>18. /\ S[b1] = s_blinding(j)
       /\ \A i \in 1..bits : /\ S[<<"G", j, i>>] = s_L(j, bits)[i]
                             /\ S[<<"H", j, i>>] = s_R(j, bits)[i]
       /\ \A g \in Generator : Other(g, j, bits) => S[g] = 0
  <2>1. S[b1] = s_blinding(j)
    BY <1>16, <1>17, GeneratorsDiffer
  <2>2. ASSUME NEW i \in 1..bits
        PROVE  /\ S[<<"G", j, i>>] = s_L(j, bits)[i] /\ S[<<"H", j, i>>] = s_R(j, bits)[i]
    <3>1. q[<<"G", j, i>>] = 0 /\ q[<<"H", j, i>>] = 0
      BY <1>16, GeneratorsDiffer
    <3>2. s_L(j, bits)[i] \in Scalar /\ s_R(j, bits)[i] \in Scalar
      BY <1>6 DEF Vec
    <3> QED BY <1>17, <3>1, <3>2, Units
  <2>3. \A g \in Generator : Other(g, j, bits) => S[g] = 0
    BY <1>16, <1>17 DEF Other
  <2> QED BY <2>1, <2>2, <2>3
\* A_j
<1>19. ASSUME NEW g \in Generator, NEW i \in 1..bits
       PROVE  T[i][g] = IF Bit(v, i - 1) = 1
                        THEN IF <<"G", j, i>> = g THEN 1 ELSE 0
                        ELSE Neg(1) ** (IF <<"H", j, i>> = g THEN 1 ELSE 0)
  <2>1. Base(<<"G", j, i>>)[g] = IF <<"G", j, i>> = g THEN 1 ELSE 0
    BY BaseAt
  <2>2. Base(<<"H", j, i>>)[g] = IF <<"H", j, i>> = g THEN 1 ELSE 0
    BY BaseAt
  <2>3. multiscalar_mul(<<Neg(1)>>, <<H[i]>>)[g] = Neg(1) ** H[i][g]
    <3>1. Neg(1) \in Scalar /\ H[i] \in Point
      BY <1>4, ScalarClosed DEF PointVec
    <3> QED BY <1>7, <3>1
  <2>4. CASE Bit(v, i - 1) = 1
    BY <1>4, <1>5, <2>1, <2>4
  <2>5. CASE Bit(v, i - 1) # 1
    BY <1>4, <1>5, <2>2, <2>3, <2>5
  <2> QED BY <2>4, <2>5
<1>20. Neg(1) ** 1 = Neg(1) /\ Neg(1) ** 0 = 0 /\ Neg(1) \in Scalar
  BY Units, ScalarClosed
<1>21. ASSUME NEW g \in Generator PROVE \E w \in Vec(bits) : \A i \in 1..bits : w[i] = T[i][g]
  <2>1. PICK w : w = [i \in 1..bits |-> T[i][g]]
    OBVIOUS
  <2>2. \A i \in 1..bits : T[i][g] \in Scalar
    BY <1>9 DEF PointVec, Point
  <2>3. w \in Vec(bits)
    BY <2>1, <2>2 DEF Vec
  <2> QED BY <2>1, <2>3
<1>22. \A i \in 1..bits : Bit(v, i - 1) \in {0, 1} /\ Bit(v, i - 1) \in Scalar
  BY <1>1, BitIsBit
<1>23. ASSUME NEW g \in Generator, \A i \in 1..bits : g # <<"G", j, i>> /\ g # <<"H", j, i>>
       PROVE  A[g] = P0[g]
  <2>1. PICK w \in Vec(bits) : \A i \in 1..bits : w[i] = T[i][g]
    BY <1>21
  <2>2. \A i \in 1..bits : w[i] = 0
    BY <1>19, <1>20, <1>23, <2>1
  <2>3. SumOf(w) = 0
    BY <1>1, <2>2, SumOfZeros
  <2>4. P0[g] \in Scalar
    BY DEF Point
  <2> QED BY <1>11, <2>1, <2>3, <2>4, Units
<1>24. ASSUME NEW g \in Generator PROVE P0[g] = IF g = b1 THEN a_blinding(j) ELSE 0
  <2>1. a_blinding(j) ** 1 = a_blinding(j) /\ a_blinding(j) ** 0 = 0
    BY <1>6, Units
  <2> QED BY <1>6, <1>8, <2>1
<1>25. ASSUME NEW i \in 1..bits, NEW g \in Generator, g = <<"G", j, i>>
       PROVE  A[g] = Bit(v, i - 1)
  <2>1. PICK w \in Vec(bits) : \A k \in 1..bits : w[k] = T[k][g]
    BY <1>21
  <2>2. P0[g] = 0
    BY <1>24, <1>25, GeneratorsDiffer
  <2>3. ASSUME NEW k \in 1..bits, k # i PROVE w[k] = 0
    <3>1. <<"G", j, k>> # g /\ <<"H", j, k>> # g
      BY <1>25, <2>3, GeneratorsDiffer
    <3> QED BY <1>19, <1>20, <2>1, <3>1
  <2>4. w[i] = Bit(v, i - 1)
    <3>1. <<"H", j, i>> # g
      BY <1>25, GeneratorsDiffer
    <3> QED BY <1>19, <1>20, <1>22, <1>25, <2>1, <3>1
  <2>5. SumOf(w) = w[i]
    BY <1>1, <2>3, SumSelects
  <2> QED BY <1>11, <1>22, <2>1, <2>2, <2>4, <2>5, Units
<1>26. ASSUME NEW i \in 1..bits, NEW g \in Generator, g = <<"H", j, i>>
       PROVE  A[g] = Bit(v, i - 1) -- 1
  <2>1. PICK w \in Vec(bits) : \A k \in 1..bits : w[k] = T[k][g]
    BY <1>21
  <2>2. P0[g] = 0
    BY <1>24, <1>26, GeneratorsDiffer
  <2>3. ASSUME NEW k \in 1..bits, k # i PROVE w[k] = 0
    <3>1. <<"G", j, k>> # g /\ <<"H", j, k>> # g
      BY <1>26, <2>3, GeneratorsDiffer
    <3> QED BY <1>19, <1>20, <2>1, <3>1
  <2>4. w[i] = Bit(v, i - 1) -- 1
    <3>1. <<"G", j, i>> # g
      BY <1>26, GeneratorsDiffer
    <3>2. 1 -- 1 = 0 /\ 0 -- 1 = Neg(1)
      BY Units, ScalarClosed DEF --
    <3> QED BY <1>19, <1>20, <1>22, <1>26, <2>1, <3>1, <3>2
  <2>5. SumOf(w) = w[i] /\ w[i] \in Scalar
    BY <1>1, <2>3, SumSelects DEF Vec
  <2> QED BY <1>11, <2>1, <2>2, <2>4, <2>5, Units
<1>27. A[b1] = a_blinding(j)
  BY <1>23, <1>24, GeneratorsDiffer
<1>28. \A i \in 1..bits : A[<<"G", j, i>>] = Bit(v, i - 1) /\ A[<<"H", j, i>>] = Bit(v, i - 1) -- 1
  BY <1>25, <1>26, GeneratorsDiffer
<1>29. \A g \in Generator : Other(g, j, bits) => A[g] = 0
  BY <1>23, <1>24 DEF Other
<1> QED BY <1>11, <1>13, <1>14, <1>17, <1>18, <1>27, <1>28, <1>29

-----------------------------------------------------------------------------
(* The two checks of the audit, coordinate by coordinate.                  *)

\* What the check of the vectors says of an entry of l.
LEMMA AtG ==
  ASSUME NEW a \in Scalar, NEW x \in Scalar, NEW s \in Scalar, NEW z \in Scalar, NEW l \in
         Scalar
  PROVE  (a ++ (x ** s)) ++ (Neg(z) -- l)
           = ((a -- z) ++ (x ** s)) -- l
<1>1. /\ a \in Int /\ x \in Int /\ s \in Int /\ z \in Int /\ l \in Int
      /\ M(a) = a /\ M(x) = x /\ M(s) = s /\ M(z) = z /\ M(l) = l
  BY Reduced
<1>2. x ** s = M(x * s) /\ x * s \in Int
  BY <1>1, Reduced
<1>3. a ++ (x ** s) = M(a + (x * s)) /\ a + (x * s) \in Int
  BY <1>1, <1>2, Reduced
<1>4. Neg(z) = M(-z) /\ -z \in Int
  BY <1>1, Reduced
<1>5. Neg(z) -- l = M((-z) - l) /\ (-z) - l \in Int
  BY <1>1, <1>4, Reduced
<1>6. /\ (a ++ (x ** s)) ++ (Neg(z) -- l) = M((a + (x * s)) + ((-z) - l))
      /\ (a + (x * s)) + ((-z) - l) \in Int
  BY <1>1, <1>3, <1>5, Reduced
<1>7. a -- z = M(a - z) /\ a - z \in Int
  BY <1>1, Reduced
<1>8. (a -- z) ++ (x ** s) = M((a - z) + (x * s)) /\ (a - z) + (x * s) \in Int
  BY <1>1, <1>2, <1>7, Reduced
<1>9. /\ ((a -- z) ++ (x ** s)) -- l = M(((a - z) + (x * s)) - l)
      /\ ((a - z) + (x * s)) - l \in Int
  BY <1>1, <1>8, Reduced
<1>10. (a + (x * s)) + ((-z) - l)
        = ((a - z) + (x * s)) - l
  BY <1>1
<1> QED BY <1>6, <1>9, <1>10

\* And of r, times the power k of y.
HoldsAtH(b, s, z, k, d) ==
  k ** ((b ++ s) ++ (z ++ d)) = ((k ** (b ++ z)) ++ (k ** s)) ++ (k ** d)

\* That is no more than distributing k.
LEMMA AtH ==
  ASSUME NEW b \in Scalar, NEW s \in Scalar, NEW z \in Scalar, NEW k \in Scalar,
         NEW d \in Scalar
  PROVE  HoldsAtH(b, s, z, k, d)
<1>1. /\ b \in Int /\ s \in Int /\ z \in Int /\ k \in Int /\ d \in Int
      /\ M(b) = b /\ M(s) = s /\ M(z) = z /\ M(k) = k /\ M(d) = d
  BY Reduced
<1>2. b ++ s = M(b + s) /\ b + s \in Int
  BY <1>1, Reduced
<1>3. z ++ d = M(z + d) /\ z + d \in Int
  BY <1>1, Reduced
<1>4. (b ++ s) ++ (z ++ d) = M((b + s) + (z + d)) /\ (b + s) + (z + d) \in Int
  BY <1>1, <1>2, <1>3, Reduced
<1>5. /\ k ** ((b ++ s) ++ (z ++ d)) = M(k * ((b + s) + (z + d)))
      /\ k * ((b + s) + (z + d)) \in Int
  BY <1>1, <1>4, Reduced
<1>6. b ++ z = M(b + z) /\ b + z \in Int
  BY <1>1, Reduced
<1>7. k ** (b ++ z) = M(k * (b + z)) /\ k * (b + z) \in Int
  BY <1>1, <1>6, Reduced
<1>8. k ** s = M(k * s) /\ k * s \in Int
  BY <1>1, Reduced
<1>9. /\ (k ** (b ++ z)) ++ (k ** s) = M((k * (b + z)) + (k * s))
      /\ (k * (b + z)) + (k * s) \in Int
  BY <1>1, <1>7, <1>8, Reduced
<1>10. k ** d = M(k * d) /\ k * d \in Int
  BY <1>1, Reduced
<1>11. /\ ((k ** (b ++ z)) ++ (k ** s)) ++ (k ** d) = M(((k * (b + z)) + (k * s)) + (k * d))
       /\ ((k * (b + z)) + (k * s)) + (k * d) \in Int
  BY <1>1, <1>9, <1>10, Reduced
<1>12. k * ((b + s) + (z + d))
        = ((k * (b + z)) + (k * s)) + (k * d)
  BY <1>1
<1> QED BY <1>5, <1>11, <1>12 DEF HoldsAtH

\* Where the product is one.
LEMMA AtHAgain ==
  ASSUME NEW a \in Scalar, NEW b \in Scalar, NEW o \in Scalar, NEW r \in Scalar
  PROVE  (a ++ b) ++ (o -- r)
           = ((a ++ o) ++ b) -- r
<1>1. /\ a \in Int /\ b \in Int /\ o \in Int /\ r \in Int
      /\ M(a) = a /\ M(b) = b /\ M(o) = o /\ M(r) = r
  BY Reduced
<1>2. a ++ b = M(a + b) /\ a + b \in Int
  BY <1>1, Reduced
<1>3. o -- r = M(o - r) /\ o - r \in Int
  BY <1>1, Reduced
<1>4. (a ++ b) ++ (o -- r) = M((a + b) + (o - r)) /\ (a + b) + (o - r) \in Int
  BY <1>1, <1>2, <1>3, Reduced
<1>5. a ++ o = M(a + o) /\ a + o \in Int
  BY <1>1, Reduced
<1>6. (a ++ o) ++ b = M((a + o) + b) /\ (a + o) + b \in Int
  BY <1>1, <1>5, Reduced
<1>7. ((a ++ o) ++ b) -- r = M(((a + o) + b) - r) /\ ((a + o) + b) - r \in Int
  BY <1>1, <1>6, Reduced
<1>8. (a + b) + (o - r)
        = ((a + o) + b) - r
  BY <1>1
<1> QED BY <1>4, <1>7, <1>8

\* What the check of the values says of t(x).
LEMMA AtB ==
  ASSUME NEW o \in Scalar, NEW a \in Scalar, NEW b \in Scalar, NEW d \in Scalar, NEW t \in
         Scalar
  PROVE  ((o ++ a) ++ b) ++ (d -- t)
           = ((d ++ o) ++ (a ++ b)) -- t
<1>1. /\ o \in Int /\ a \in Int /\ b \in Int /\ d \in Int /\ t \in Int
      /\ M(o) = o /\ M(a) = a /\ M(b) = b /\ M(d) = d /\ M(t) = t
  BY Reduced
<1>2. o ++ a = M(o + a) /\ o + a \in Int
  BY <1>1, Reduced
<1>3. (o ++ a) ++ b = M((o + a) + b) /\ (o + a) + b \in Int
  BY <1>1, <1>2, Reduced
<1>4. d -- t = M(d - t) /\ d - t \in Int
  BY <1>1, Reduced
<1>5. /\ ((o ++ a) ++ b) ++ (d -- t) = M(((o + a) + b) + (d - t))
      /\ ((o + a) + b) + (d - t) \in Int
  BY <1>1, <1>3, <1>4, Reduced
<1>6. d ++ o = M(d + o) /\ d + o \in Int
  BY <1>1, Reduced
<1>7. a ++ b = M(a + b) /\ a + b \in Int
  BY <1>1, Reduced
<1>8. (d ++ o) ++ (a ++ b) = M((d + o) + (a + b)) /\ (d + o) + (a + b) \in Int
  BY <1>1, <1>6, <1>7, Reduced
<1>9. /\ ((d ++ o) ++ (a ++ b)) -- t = M(((d + o) + (a + b)) - t)
      /\ ((d + o) + (a + b)) - t \in Int
  BY <1>1, <1>8, Reduced
<1>10. ((o + a) + b) + (d - t)
        = ((d + o) + (a + b)) - t
  BY <1>1
<1> QED BY <1>5, <1>9, <1>10

\* And of its blinding.
LEMMA AtBlinding ==
  ASSUME NEW o \in Scalar, NEW a \in Scalar, NEW b \in Scalar, NEW t \in Scalar
  PROVE  ((o ++ a) ++ b) ++ Neg(t)
           = (o ++ (a ++ b)) -- t
<1>1. /\ o \in Int /\ a \in Int /\ b \in Int /\ t \in Int
      /\ M(o) = o /\ M(a) = a /\ M(b) = b /\ M(t) = t
  BY Reduced
<1>2. o ++ a = M(o + a) /\ o + a \in Int
  BY <1>1, Reduced
<1>3. (o ++ a) ++ b = M((o + a) + b) /\ (o + a) + b \in Int
  BY <1>1, <1>2, Reduced
<1>4. Neg(t) = M(-t) /\ -t \in Int
  BY <1>1, Reduced
<1>5. /\ ((o ++ a) ++ b) ++ Neg(t) = M(((o + a) + b) + (-t))
      /\ ((o + a) + b) + (-t) \in Int
  BY <1>1, <1>3, <1>4, Reduced
<1>6. a ++ b = M(a + b) /\ a + b \in Int
  BY <1>1, Reduced
<1>7. o ++ (a ++ b) = M(o + (a + b)) /\ o + (a + b) \in Int
  BY <1>1, <1>6, Reduced
<1>8. (o ++ (a ++ b)) -- t = M((o + (a + b)) - t) /\ (o + (a + b)) - t \in Int
  BY <1>1, <1>7, Reduced
<1>9. ((o + a) + b) + (-t)
        = (o + (a + b)) - t
  BY <1>1
<1> QED BY <1>5, <1>8, <1>9

\* The combination of the check of the vectors.
VectorSum(j, bits, x, e, PA, PS, f, h) ==
  multiscalar_mul(<<1, x, Neg(e)>> \o f \o h,
                  <<PA, PS, B_blinding>> \o ShareGens("G", j, bits) \o ShareGens("H", j, bits))

\* The coordinates it has.
VectorSumIs(c, j, bits, x, e, PA, PS, f, h) ==
  /\ c \in Point
  /\ c[b1] = (PA[b1] ++ x ** PS[b1]) -- e
  /\ \A i \in 1..bits :
         /\ c[<<"G", j, i>>] = (PA[<<"G", j, i>>] ++ x ** PS[<<"G", j, i>>]) ++ f[i]
         /\ c[<<"H", j, i>>] = (PA[<<"H", j, i>>] ++ x ** PS[<<"H", j, i>>]) ++ h[i]
  /\ \A g \in Generator : Other(g, j, bits) => c[g] = PA[g] ++ x ** PS[g]

LEMMA VectorCheckAt ==
  ASSUME NEW j, NEW bits, Sized(j, bits), NEW x \in Scalar, NEW e \in Scalar,
         NEW PA \in Point, NEW PS \in Point, NEW f \in Vec(bits), NEW h \in Vec(bits)
  PROVE  VectorSumIs(VectorSum(j, bits, x, e, PA, PS, f, h), j, bits, x, e, PA, PS, f, h)
<1>0. PICK c : c = VectorSum(j, bits, x, e, PA, PS, f, h)
  OBVIOUS
<1>1. PICK k \in Nat : k = 3
  OBVIOUS
<1>2. PICK s : s = <<1, x, Neg(e)>>
  OBVIOUS
<1>3. PICK P : P = <<PA, PS, B_blinding>>
  OBVIOUS
<1>4. /\ 1 \in Scalar /\ Neg(e) \in Scalar /\ B_blinding \in Point
      /\ \A g \in Generator : B_blinding[g] = IF g = b1 THEN 1 ELSE 0
  BY ScalarClosed, CommitAt
<1>5. /\ s \in Vec(3) /\ P \in PointVec(3)
      /\ \A g \in Generator : multiscalar_mul(s, P)[g]
             = (1 ** PA[g] ++ x ** PS[g]) ++ Neg(e) ** B_blinding[g]
  BY <1>2, <1>3, <1>4, MsmOfThree
<1>6. s \in Vec(k) /\ P \in PointVec(k)
  BY <1>1, <1>5
<1>7. c = multiscalar_mul(s \o f \o h, P \o ShareGens("G", j, bits) \o ShareGens("H", j, bits))
  BY <1>0, <1>2, <1>3 DEF VectorSum
<1>8. /\ c \in Point
      /\ \A g \in Generator :
             (\A i \in 1..bits : g # <<"G", j, i>> /\ g # <<"H", j, i>>)
                 => c[g] = multiscalar_mul(s, P)[g]
      /\ \A i \in 1..bits :
             /\ c[<<"G", j, i>>] = multiscalar_mul(s, P)[<<"G", j, i>>] ++ f[i]
             /\ c[<<"H", j, i>>] = multiscalar_mul(s, P)[<<"H", j, i>>] ++ h[i]
  BY <1>6, <1>7, WithShareGens
<1>9. ASSUME NEW g \in Generator
      PROVE  multiscalar_mul(s, P)[g]
               = IF g = b1 THEN (PA[g] ++ x ** PS[g]) -- e ELSE PA[g] ++ x ** PS[g]
  <2>1. PA[g] \in Scalar /\ PS[g] \in Scalar /\ x ** PS[g] \in Scalar
    BY ScalarClosed DEF Point
  <2>2. 1 ** PA[g] = PA[g] /\ Neg(e) ** 1 = Neg(e) /\ Neg(e) ** 0 = 0
    BY <1>4, <2>1, Units
  <2>3. PA[g] ++ x ** PS[g] \in Scalar
    BY <2>1, ScalarClosed
  <2>4. (PA[g] ++ x ** PS[g]) ++ 0 = PA[g] ++ x ** PS[g]
    BY <2>3, Units
  <2>5. CASE g = b1
    BY <1>4, <1>5, <2>2, <2>5 DEF --
  <2>6. CASE g # b1
    BY <1>4, <1>5, <2>2, <2>4, <2>6
  <2> QED BY <2>5, <2>6
<1>10. c[b1] = (PA[b1] ++ x ** PS[b1]) -- e
  BY <1>8, <1>9, GeneratorsDiffer
<1>11. ASSUME NEW i \in 1..bits
       PROVE  /\ c[<<"G", j, i>>] = (PA[<<"G", j, i>>] ++ x ** PS[<<"G", j, i>>]) ++ f[i]
              /\ c[<<"H", j, i>>] = (PA[<<"H", j, i>>] ++ x ** PS[<<"H", j, i>>]) ++ h[i]
  BY <1>8, <1>9, GeneratorsDiffer
<1>12. \A g \in Generator : Other(g, j, bits) => c[g] = PA[g] ++ x ** PS[g]
  BY <1>8, <1>9 DEF Other
<1> QED BY <1>0, <1>8, <1>10, <1>11, <1>12 DEF VectorSumIs

\* A generator is the blinding's, one of the party's, or another.
LEMMA GeneratorKinds ==
  ASSUME NEW j, NEW bits, NEW P \in Point,
         P[b1] = 0, \A i \in 1..bits : P[<<"G", j, i>>] = 0 /\ P[<<"H", j, i>>] = 0,
         \A g \in Generator : Other(g, j, bits) => P[g] = 0
  PROVE  Identity = P
<1>1. ASSUME NEW g \in Generator PROVE P[g] = 0
  <2>1. CASE Other(g, j, bits)
    BY <2>1
  <2>2. CASE g = b1
    BY <2>2
  <2>3. CASE \E i \in 1..bits : g = <<"G", j, i>> \/ g = <<"H", j, i>>
    <3>1. PICK i \in 1..bits : g = <<"G", j, i>> \/ g = <<"H", j, i>>
      BY <2>3
    <3>2. P[<<"G", j, i>>] = 0 /\ P[<<"H", j, i>>] = 0
      OBVIOUS
    <3> QED BY <3>1, <3>2
  <2> QED BY <2>1, <2>2, <2>3 DEF Other
<1>2. Identity \in Point /\ \A g \in Generator : Identity[g] = 0
  BY ScalarClosed DEF Identity, Point
<1> QED BY <1>1, <1>2, PointExtensional

\* A point d with the coordinates of the check of the vectors.
HasVectorCoordinates(d, j, bits, x, z, e, ab, sb, alpha, beta, sl, sr, l, r, k, u, o) ==
  /\ d \in Point
  /\ d[b1] = (ab ++ x ** sb) -- e
  /\ \A i \in 1..bits :
         /\ d[<<"G", j, i>>] = (alpha[i] ++ x ** sl[i]) ++ (Neg(z) -- l[i])
         /\ d[<<"H", j, i>>] = (beta[i] ++ x ** sr[i]) ++ (z ++ u[i] ** (o[i] -- r[i]))
  /\ \A g \in Generator : Other(g, j, bits) => d[g] = 0
  /\ \A i \in 1..bits : k[i] ** u[i] = 1

\* What these coordinates compare.
VectorsAgree(bits, x, z, e, ab, sb, alpha, beta, sl, sr, l, r, k, o) ==
  /\ e = ab ++ sb ** x
  /\ \A i \in 1..bits :
         /\ l[i] = (alpha[i] -- z) ++ x ** sl[i]
         /\ r[i] = (k[i] ** (beta[i] ++ z) ++ o[i]) ++ x ** (k[i] ** sr[i])

\* When the combination of the check of the vectors is the identity: its coordinates
\* compare the vectors and the blinding with what the commitments hold, k being what
\* the check divides the second vector's coordinates by.
LEMMA VectorZero ==
  ASSUME NEW j, NEW bits, Sized(j, bits), NEW d, NEW x \in Scalar, NEW z \in Scalar,
         NEW e \in Scalar, NEW ab \in Scalar, NEW sb \in Scalar,
         NEW alpha \in Vec(bits), NEW beta \in Vec(bits), NEW sl \in Vec(bits),
         NEW sr \in Vec(bits), NEW l \in Vec(bits), NEW r \in Vec(bits), NEW k \in Vec(bits),
         NEW u \in Vec(bits), NEW o \in Vec(bits),
         HasVectorCoordinates(d, j, bits, x, z, e, ab, sb, alpha, beta, sl, sr, l, r, k, u, o)
  PROVE  Identity = d
           <=> VectorsAgree(bits, x, z, e, ab, sb, alpha, beta, sl, sr, l, r, k, o)
<1> DEFINE G(i) == <<"G", j, i>>
           H(i) == <<"H", j, i>>
<1>0. /\ d \in Point
      /\ d[b1] = (ab ++ x ** sb) -- e
      /\ \A i \in 1..bits :
             /\ d[G(i)] = (alpha[i] ++ x ** sl[i]) ++ (Neg(z) -- l[i])
             /\ d[H(i)] = (beta[i] ++ x ** sr[i]) ++ (z ++ u[i] ** (o[i] -- r[i]))
      /\ \A g \in Generator : Other(g, j, bits) => d[g] = 0
      /\ \A i \in 1..bits : k[i] ** u[i] = 1
  BY DEF HasVectorCoordinates
<1>1. d[b1] = 0 <=> e = ab ++ sb ** x
  <2>1. x ** sb = sb ** x
    BY MulCommutes
  <2>2. sb ** x \in Scalar
    BY ScalarClosed
  <2>3. ab ++ sb ** x \in Scalar
    BY <2>2, ScalarClosed
  <2> QED BY <1>0, <2>1, <2>3, NoDifference
<1>2. ASSUME NEW i \in 1..bits
      PROVE  d[G(i)] = 0 <=> l[i] = (alpha[i] -- z) ++ x ** sl[i]
  <2>1. PICK p \in Scalar, q \in Scalar, t \in Scalar : p = alpha[i] /\ q = sl[i] /\ t = l[i]
    BY DEF Vec
  <2>2. (p ++ x ** q) ++ (Neg(z) -- t) = ((p -- z) ++ x ** q) -- t
    BY AtG
  <2>3. x ** q \in Scalar /\ p -- z \in Scalar
    BY ScalarClosed
  <2>4. (p -- z) ++ x ** q \in Scalar
    BY <2>3, ScalarClosed
  <2>5. d[G(i)] = ((p -- z) ++ x ** q) -- t
    BY <1>0, <2>1, <2>2
  <2>6. d[G(i)] = 0 <=> (p -- z) ++ x ** q = t
    BY <2>4, <2>5, NoDifference
  <2> QED BY <2>1, <2>6
<1>3. ASSUME NEW i \in 1..bits
      PROVE  d[H(i)] = 0
               <=> r[i] = (k[i] ** (beta[i] ++ z) ++ o[i]) ++ x ** (k[i] ** sr[i])
  <2>1. PICK p \in Scalar, q \in Scalar, t \in Scalar, v \in Scalar, w \in Scalar, c \in Scalar :
            /\ p = beta[i] /\ q = sr[i] /\ t = r[i] /\ v = u[i] /\ w = o[i] /\ c = k[i]
    BY DEF Vec
  <2>2. c ** v = 1
    BY <1>0, <2>1
  <2>3. PICK f \in Scalar : f = w -- t
    BY ScalarClosed
  <2>4. c ** ((p ++ x ** q) ++ (z ++ v ** f)) = (c ** (p ++ z) ++ x ** (c ** q)) ++ (c ** v) ** f
    <3>1. PICK g \in Scalar, h \in Scalar : g = x ** q /\ h = v ** f
      BY ScalarClosed
    <3>2. c ** ((p ++ g) ++ (z ++ h)) = (c ** (p ++ z) ++ c ** g) ++ c ** h
      <4>1. HoldsAtH(p, g, z, c, h)
        BY AtH
      <4> QED BY <4>1 DEF HoldsAtH
    <3>3. c ** g = x ** (c ** q)
      BY <3>1, MulAssociates, MulCommutes
    <3>4. c ** h = (c ** v) ** f
      BY <3>1, MulAssociates
    <3> QED BY <3>1, <3>2, <3>3, <3>4
  <2>5. (c ** v) ** f = f
    BY <2>2, Units
  <2>6. PICK a1 \in Scalar, a2 \in Scalar : a1 = c ** (p ++ z) /\ a2 = x ** (c ** q)
    <3>1. p ++ z \in Scalar /\ c ** q \in Scalar
      BY ScalarClosed
    <3> QED BY <3>1, ScalarClosed
  <2>7. (a1 ++ a2) ++ (w -- t) = ((a1 ++ w) ++ a2) -- t
    BY AtHAgain
  <2>8. d[H(i)] = (p ++ x ** q) ++ (z ++ v ** f)
    BY <1>0, <2>1, <2>3
  <2>9. c ** d[H(i)] = ((a1 ++ w) ++ a2) -- t
    BY <2>3, <2>4, <2>5, <2>6, <2>7, <2>8
  <2>10. (a1 ++ w) ++ a2 \in Scalar
    <3>1. a1 ++ w \in Scalar
      BY ScalarClosed
    <3> QED BY <3>1, ScalarClosed
  <2>11. c ** d[H(i)] = 0 <=> t = (a1 ++ w) ++ a2
    BY <2>9, <2>10, NoDifference
  <2>12. PICK h \in Scalar : h = d[H(i)]
    BY <1>0, GeneratorsDiffer DEF Point
  <2>13. c # 0
    <3>1. 0 ** v = 0
      BY Units
    <3> QED BY <2>2, <3>1
  <2>14. c ** h = 0 <=> h = 0
    <3>1. c ** 0 = 0
      BY Units
    <3> QED BY <2>13, <3>1, NoZeroDivisors
  <2> QED BY <2>1, <2>6, <2>11, <2>12, <2>14
<1>4. \A i \in 1..bits : G(i) \in Generator /\ H(i) \in Generator
  BY GeneratorsDiffer
<1>5. b1 \in Generator
  BY GeneratorsDiffer
<1>6. ASSUME Identity = d
      PROVE  /\ d[b1] = 0
             /\ \A i \in 1..bits : d[G(i)] = 0 /\ d[H(i)] = 0
  BY <1>4, <1>5, <1>6 DEF Identity
<1>7. ASSUME d[b1] = 0, \A i \in 1..bits : d[G(i)] = 0 /\ d[H(i)] = 0
      PROVE  Identity = d
  BY <1>0, <1>7, GeneratorKinds
<1> QED BY <1>1, <1>2, <1>3, <1>6, <1>7 DEF VectorsAgree

\* Scalars the check of the vectors divides the second vector's coordinates by.
LEMMA Divisors ==
  ASSUME NEW j, NEW bits, Sized(j, bits), NEW y \in Scalar \ {0}
  PROVE  \E k \in Vec(bits), u \in Vec(bits) :
             \A i \in 1..bits :
                 /\ k[i] = Start(y, j, bits) ** Power(y, i - 1)
                 /\ u[i] = exp_iter(Invert(y), bits)[i] ** Invert(Start(y, j, bits))
                 /\ k[i] ** u[i] = 1
<1>1. 1 \in Scalar \ {0}
  BY ScalarClosed
<1>2. /\ Start(y, j, bits) \in Scalar \ {0} /\ bits \in Nat
  BY <1>1, StartAndOffset
<1>3. PICK p1 \in Scalar \ {0} : p1 = Start(y, j, bits)
  BY <1>2
<1>4. PICK p4 \in Scalar : p4 = Invert(p1) /\ p1 ** p4 = 1
  BY Inverses
<1>5. Invert(y) \in Scalar
  BY Inverses
<1>6. PICK yi \in Vec(bits) : /\ yi = exp_iter(Invert(y), bits)
                              /\ \A i \in 1..bits : yi[i] = Power(Invert(y), i - 1)
  BY <1>2, <1>5, ExpIterIs
<1>7. ASSUME NEW i \in 1..bits
      PROVE  /\ p1 ** Power(y, i - 1) \in Scalar /\ yi[i] ** p4 \in Scalar
             /\ (p1 ** Power(y, i - 1)) ** (yi[i] ** p4) = 1
  <2>1. i - 1 \in Nat
    BY <1>2
  <2>2. PICK p2 \in Scalar, p3 \in Scalar :
            p2 = Power(y, i - 1) /\ p3 = yi[i] /\ p2 ** p3 = 1
    BY <1>6, <2>1, PowerOfInverse
  <2>3. (p1 ** p2) ** (p4 ** p3) = (p1 ** p4) ** (p2 ** p3)
    BY MulInterchanges
  <2>4. p3 ** p4 = p4 ** p3
    BY MulCommutes
  <2>5. 1 ** 1 = 1
    BY Units, ScalarClosed
  <2>6. p1 ** p2 \in Scalar /\ p3 ** p4 \in Scalar
    BY ScalarClosed
  <2> QED BY <1>4, <2>2, <2>3, <2>4, <2>5, <2>6
<1>8. PICK k : k = [i \in 1..bits |-> p1 ** Power(y, i - 1)]
  OBVIOUS
<1>9. PICK u : u = [i \in 1..bits |-> yi[i] ** p4]
  OBVIOUS
<1>10. k \in Vec(bits) /\ u \in Vec(bits)
  BY <1>7, <1>8, <1>9 DEF Vec
<1>11. ASSUME NEW i \in 1..bits
       PROVE  /\ k[i] = Start(y, j, bits) ** Power(y, i - 1)
              /\ u[i] = exp_iter(Invert(y), bits)[i] ** Invert(Start(y, j, bits))
              /\ k[i] ** u[i] = 1
  BY <1>3, <1>4, <1>6, <1>7, <1>8, <1>9
<1> QED BY <1>10, <1>11

\* The scalars the check of the vectors multiplies a party's generators by.
OfFirst(bits, z, l) == [i \in 1..bits |-> Neg(z) -- l[i]]

OfSecond(j, bits, y, z, r) ==
  [i \in 1..bits |-> z ++ (exp_iter(Invert(y), bits)[i] ** Invert(Start(y, j, bits)))
                            ** (Offset(z, j) ** exp_iter(2, bits)[i] -- r[i])]

\* Those of the second vector, with their divisors and offsets.
Divides(j, bits, y, z, r, k, u, o) ==
  \A i \in 1..bits :
      /\ k[i] = Start(y, j, bits) ** Power(y, i - 1)
      /\ o[i] = Offset(z, j) ** Power(2, i - 1)
      /\ k[i] ** u[i] = 1
      /\ OfSecond(j, bits, y, z, r)[i] = z ++ u[i] ** (o[i] -- r[i])

\* They are scalars.
LEMMA VectorScalars ==
  ASSUME NEW j, NEW bits, Sized(j, bits),
         NEW y \in Scalar \ {0}, NEW z \in Scalar \ {0}, NEW l \in Vec(bits), NEW r \in Vec(bits)
  PROVE  /\ OfFirst(bits, z, l) \in Vec(bits)
         /\ OfSecond(j, bits, y, z, r) \in Vec(bits)
         /\ \E k \in Vec(bits), u \in Vec(bits), o \in Vec(bits) :
                Divides(j, bits, y, z, r, k, u, o)
<1>1. Neg(z) \in Scalar /\ bits \in Nat /\ Offset(z, j) \in Scalar
  BY ScalarClosed, StartAndOffset
<1>2. ASSUME NEW i \in 1..bits
      PROVE  l[i] \in Scalar /\ r[i] \in Scalar /\ Neg(z) -- l[i] \in Scalar
  <2>1. l[i] \in Scalar /\ r[i] \in Scalar
    BY DEF Vec
  <2> QED BY <1>1, <2>1, ScalarClosed
<1>3. PICK k \in Vec(bits), u \in Vec(bits) :
          \A i \in 1..bits :
              /\ k[i] = Start(y, j, bits) ** Power(y, i - 1)
              /\ u[i] = exp_iter(Invert(y), bits)[i] ** Invert(Start(y, j, bits))
              /\ k[i] ** u[i] = 1
  BY Divisors
<1>4. 2 \in Scalar
  BY LargeOrderAssumption, OrderAssumption DEF Scalar
<1>5. PICK e2 \in Vec(bits) : e2 = exp_iter(2, bits) /\ \A i \in 1..bits : e2[i] = Power(2, i - 1)
  BY <1>1, <1>4, ExpIterIs
<1>6. PICK o : o = [i \in 1..bits |-> Offset(z, j) ** e2[i]]
  OBVIOUS
<1>7. o \in Vec(bits)
  <2>1. ASSUME NEW i \in 1..bits PROVE Offset(z, j) ** e2[i] \in Scalar
    <3>1. e2[i] \in Scalar
      BY DEF Vec
    <3> QED BY <1>1, <3>1, ScalarClosed
  <2> QED BY <1>6, <2>1 DEF Vec
<1>8. PICK h : h = OfSecond(j, bits, y, z, r)
  OBVIOUS
<1>9. ASSUME NEW i \in 1..bits
      PROVE  h[i] = z ++ u[i] ** (o[i] -- r[i]) /\ h[i] \in Scalar
  <2>1. h[i] = z ++ (exp_iter(Invert(y), bits)[i] ** Invert(Start(y, j, bits)))
                      ** (Offset(z, j) ** exp_iter(2, bits)[i] -- r[i])
    BY <1>8 DEF OfSecond
  <2>2. h[i] = z ++ u[i] ** (o[i] -- r[i])
    BY <1>3, <1>5, <1>6, <2>1
  <2>3. PICK p \in Scalar, q \in Scalar, t \in Scalar : p = u[i] /\ q = o[i] /\ t = r[i]
    BY <1>7 DEF Vec
  <2>4. q -- t \in Scalar
    BY ScalarClosed
  <2>5. p ** (q -- t) \in Scalar
    BY <2>4, ScalarClosed
  <2>6. z ++ p ** (q -- t) \in Scalar
    BY <2>5, ScalarClosed
  <2> QED BY <2>2, <2>3, <2>6
<1>10. h \in Vec(bits)
  <2>1. DOMAIN h = 1..bits /\ h = [i \in DOMAIN h |-> h[i]]
    BY <1>8 DEF OfSecond
  <2> QED BY <1>9, <2>1 DEF Vec
<1>11. OfFirst(bits, z, l) \in Vec(bits)
  BY <1>2 DEF Vec, OfFirst
<1>12. Divides(j, bits, y, z, r, k, u, o)
  <2>1. ASSUME NEW i \in 1..bits
        PROVE  /\ k[i] = Start(y, j, bits) ** Power(y, i - 1)
               /\ o[i] = Offset(z, j) ** Power(2, i - 1)
               /\ k[i] ** u[i] = 1
               /\ h[i] = z ++ u[i] ** (o[i] -- r[i])
    BY <1>3, <1>5, <1>6, <1>9
  <2> QED BY <1>8, <2>1 DEF Divides
<1> QED BY <1>7, <1>8, <1>10, <1>11, <1>12

\* A commitment to the vector alpha where an honest one is to the value's bits.
HoldsVector(P, j, v, bits, alpha) ==
  /\ P \in Point
  /\ P[b1] = a_blinding(j)
  /\ \A i \in 1..bits : /\ P[<<"G", j, i>>] = alpha[i]
                        /\ P[<<"H", j, i>>] = Bit(v, i - 1) -- 1
  /\ \A g \in Generator : Other(g, j, bits) => P[g] = 0

\* What a share has to have to pass the check of the vectors against it.
VectorsRight(j, bits, x, z, e, alpha, l, r, ra, rb) ==
  /\ e = a_blinding(j) ++ s_blinding(j) ** x
  /\ \A i \in 1..bits : /\ l[i] = (alpha[i] -- z) ++ x ** s_L(j, bits)[i]
                        /\ r[i] = ra[i] ++ x ** rb[i]

LEMMA VectorCheck ==
  ASSUME NEW j, NEW bits, Sized(j, bits), NEW v \in Nat, v < Order,
         NEW y \in Scalar \ {0}, NEW z \in Scalar \ {0}, NEW x \in Scalar,
         NEW la, NEW ra, NEW rb, Coefficients(la, ra, rb, j, v, bits, y, z),
         NEW PA, NEW alpha \in Vec(bits), HoldsVector(PA, j, v, bits, alpha),
         NEW l \in Vec(bits), NEW r \in Vec(bits), NEW e \in Scalar
  PROVE  Identity = VectorSum(j, bits, x, e, PA, BitCommitment(j, v, bits).S_j,
                              OfFirst(bits, z, l), OfSecond(j, bits, y, z, r))
           <=> VectorsRight(j, bits, x, z, e, alpha, l, r, ra, rb)
<1>a. PICK c : c = BitCommitment(j, v, bits)
  OBVIOUS
<1>b. PICK d : d = VectorSum(j, bits, x, e, PA, c.S_j, OfFirst(bits, z, l),
                             OfSecond(j, bits, y, z, r))
  OBVIOUS
<1>c. /\ PA \in Point
      /\ PA[b1] = a_blinding(j)
      /\ \A i \in 1..bits : /\ PA[<<"G", j, i>>] = alpha[i]
                            /\ PA[<<"H", j, i>>] = Bit(v, i - 1) -- 1
      /\ \A g \in Generator : Other(g, j, bits) => PA[g] = 0
  BY DEF HoldsVector
<1>1. PICK PS \in Point :
          /\ PS = c.S_j
          /\ PS[b1] = s_blinding(j)
          /\ \A i \in 1..bits : /\ PS[<<"G", j, i>>] = s_L(j, bits)[i]
                                /\ PS[<<"H", j, i>>] = s_R(j, bits)[i]
          /\ \A g \in Generator : Other(g, j, bits) => PS[g] = 0
  BY <1>a, BitCommitmentAt
<1>2. PICK f \in Vec(bits), h \in Vec(bits), k \in Vec(bits), u \in Vec(bits), o \in Vec(bits) :
          /\ f = OfFirst(bits, z, l) /\ h = OfSecond(j, bits, y, z, r)
          /\ Divides(j, bits, y, z, r, k, u, o)
  <2>1. z \in Scalar
    OBVIOUS
  <2> QED BY VectorScalars
<1>3. \A i \in 1..bits :
          /\ k[i] = Start(y, j, bits) ** Power(y, i - 1)
          /\ o[i] = Offset(z, j) ** Power(2, i - 1)
          /\ k[i] ** u[i] = 1
          /\ h[i] = z ++ u[i] ** (o[i] -- r[i])
  BY <1>2 DEF Divides
<1>4. d = VectorSum(j, bits, x, e, PA, PS, f, h)
  BY <1>b, <1>1, <1>2
<1>5. /\ d \in Point
      /\ d[b1] = (PA[b1] ++ x ** PS[b1]) -- e
      /\ \A i \in 1..bits :
             /\ d[<<"G", j, i>>] = (PA[<<"G", j, i>>] ++ x ** PS[<<"G", j, i>>]) ++ f[i]
             /\ d[<<"H", j, i>>] = (PA[<<"H", j, i>>] ++ x ** PS[<<"H", j, i>>]) ++ h[i]
      /\ \A g \in Generator : Other(g, j, bits) => d[g] = PA[g] ++ x ** PS[g]
  <2>1. VectorSumIs(VectorSum(j, bits, x, e, PA, PS, f, h), j, bits, x, e, PA, PS, f, h)
    BY <1>c, VectorCheckAt
  <2> QED BY <1>4, <2>1 DEF VectorSumIs
<1>6. /\ s_L(j, bits) \in Vec(bits) /\ s_R(j, bits) \in Vec(bits) /\ a_blinding(j) \in Scalar
      /\ s_blinding(j) \in Scalar
  BY PartyDraws
<1>7. PICK beta \in Vec(bits) : \A i \in 1..bits : beta[i] = Bit(v, i - 1) -- 1
  <2>1. ASSUME NEW i \in 1..bits PROVE Bit(v, i - 1) -- 1 \in Scalar
    <3>1. i - 1 \in Nat
      BY CapacityAssumption DEF Sized
    <3>2. Bit(v, i - 1) \in Scalar /\ 1 \in Scalar
      BY <3>1, BitIsBit, ScalarClosed
    <3> QED BY <3>2, ScalarClosed
  <2>2. [i \in 1..bits |-> Bit(v, i - 1) -- 1] \in Vec(bits)
    BY <2>1 DEF Vec
  <2> QED BY <2>2
<1>8. \A g \in Generator : Other(g, j, bits) => d[g] = 0
  <2>1. x ** 0 = 0 /\ 0 ++ 0 = 0
    BY Units, ScalarClosed
  <2> QED BY <1>c, <1>1, <1>5, <2>1
<1>9. \A i \in 1..bits : f[i] = Neg(z) -- l[i]
  BY <1>2 DEF OfFirst
<1>10. /\ d[b1] = (a_blinding(j) ++ x ** s_blinding(j)) -- e
       /\ \A i \in 1..bits :
              /\ d[<<"G", j, i>>] = (alpha[i] ++ x ** s_L(j, bits)[i]) ++ (Neg(z) -- l[i])
              /\ d[<<"H", j, i>>] = (beta[i] ++ x ** s_R(j, bits)[i])
                                       ++ (z ++ u[i] ** (o[i] -- r[i]))
  BY <1>c, <1>1, <1>3, <1>5, <1>7, <1>9
<1>11. z \in Scalar
  OBVIOUS
<1>12. PICK sl \in Vec(bits), sr \in Vec(bits), ab \in Scalar, sb \in Scalar :
           /\ sl = s_L(j, bits) /\ sr = s_R(j, bits)
           /\ ab = a_blinding(j) /\ sb = s_blinding(j)
  BY <1>6
<1>13. /\ d[b1] = (ab ++ x ** sb) -- e
       /\ \A i \in 1..bits :
              /\ d[<<"G", j, i>>] = (alpha[i] ++ x ** sl[i]) ++ (Neg(z) -- l[i])
              /\ d[<<"H", j, i>>] = (beta[i] ++ x ** sr[i]) ++ (z ++ u[i] ** (o[i] -- r[i]))
  BY <1>10, <1>12
<1>14. \A i \in 1..bits : k[i] ** u[i] = 1
  BY <1>3
<1>15. Identity = d <=>
           /\ e = ab ++ sb ** x
           /\ \A i \in 1..bits :
                  /\ l[i] = (alpha[i] -- z) ++ x ** sl[i]
                  /\ r[i] = (k[i] ** (beta[i] ++ z) ++ o[i]) ++ x ** (k[i] ** sr[i])
  <2>1. HasVectorCoordinates(d, j, bits, x, z, e, ab, sb, alpha, beta, sl, sr, l, r, k, u, o)
    BY <1>5, <1>8, <1>13, <1>14 DEF HasVectorCoordinates
  <2>2. Identity = d
          <=> VectorsAgree(bits, x, z, e, ab, sb, alpha, beta, sl, sr, l, r, k, o)
    BY <1>11, <2>1, VectorZero
  <2> QED BY <2>2 DEF VectorsAgree
<1>16. \A i \in 1..bits : /\ ra[i] = k[i] ** (beta[i] ++ z) ++ o[i]
                          /\ rb[i] = k[i] ** sr[i]
  BY <1>3, <1>7, <1>12 DEF Coefficients
<1>17. Identity = d <=>
           /\ e = ab ++ sb ** x
           /\ \A i \in 1..bits : /\ l[i] = (alpha[i] -- z) ++ x ** sl[i]
                                 /\ r[i] = ra[i] ++ x ** rb[i]
  BY <1>15, <1>16
<1> QED BY <1>a, <1>b, <1>12, <1>17 DEF VectorsRight

\* A point that commits to a, with the blinding b.
IsCommitment(P, a, b) ==
  /\ P \in Point /\ a \in Scalar /\ b \in Scalar
  /\ \A g \in Generator : P[g] = IF g = b0 THEN a ELSE IF g = b1 THEN b ELSE 0

\* The combination of the check of the values.
ValueSum(x, off, delta, t, tb, P1, P2, P3) ==
  multiscalar_mul(<<off, x, x ** x, delta -- t, Neg(tb)>>, <<P1, P2, P3, B, B_blinding>>)

\* What a share has to have to pass the check of the values.
ValuesRight(x, off, delta, t, tb, v, vb, a, ab, b, bb) ==
  /\ t = (delta ++ off ** v) ++ x ** (a ++ x ** b)
  /\ tb = off ** vb ++ x ** (ab ++ x ** bb)

LEMMA ValueCheck ==
  ASSUME NEW x \in Scalar, NEW off \in Scalar, NEW delta \in Scalar, NEW t \in Scalar,
         NEW tb \in Scalar, NEW P1, NEW P2, NEW P3, NEW v, NEW vb, NEW a, NEW ab, NEW b, NEW bb,
         IsCommitment(P1, v, vb), IsCommitment(P2, a, ab), IsCommitment(P3, b, bb)
  PROVE  Identity = ValueSum(x, off, delta, t, tb, P1, P2, P3)
           <=> ValuesRight(x, off, delta, t, tb, v, vb, a, ab, b, bb)
<1>0. PICK d : d = ValueSum(x, off, delta, t, tb, P1, P2, P3)
  OBVIOUS
<1>1. /\ x ** x \in Scalar /\ delta -- t \in Scalar /\ Neg(tb) \in Scalar
  BY ScalarClosed
<1>2. /\ B \in Point /\ B_blinding \in Point /\ 0 \in Scalar
      /\ \A g \in Generator : /\ B[g] = IF g = b0 THEN 1 ELSE 0
                              /\ B_blinding[g] = IF g = b1 THEN 1 ELSE 0
  BY CommitAt, ScalarClosed
<1>3. /\ P1 \in Point /\ P2 \in Point /\ P3 \in Point
      /\ v \in Scalar /\ vb \in Scalar /\ a \in Scalar /\ ab \in Scalar /\ b \in Scalar
      /\ bb \in Scalar
  BY DEF IsCommitment
<1>4. /\ d \in Point
      /\ \A g \in Generator :
             d[g] = (((off ** P1[g] ++ x ** P2[g]) ++ (x ** x) ** P3[g])
                        ++ (delta -- t) ** B[g]) ++ Neg(tb) ** B_blinding[g]
  <2>1. PICK q1 \in Scalar, q2 \in Scalar, q3 \in Scalar :
            q1 = x ** x /\ q2 = delta -- t /\ q3 = Neg(tb)
    BY <1>1
  <2>2. PICK Q1 \in Point, Q2 \in Point, Q3 \in Point, Q4 \in Point, Q5 \in Point :
            Q1 = P1 /\ Q2 = P2 /\ Q3 = P3 /\ Q4 = B /\ Q5 = B_blinding
    BY <1>2, <1>3
  <2>3. d = FivePoints(off, x, q1, q2, q3, Q1, Q2, Q3, Q4, Q5)
    BY <1>0, <2>1, <2>2 DEF FivePoints, ValueSum
  <2>4. IsFivePoints(FivePoints(off, x, q1, q2, q3, Q1, Q2, Q3, Q4, Q5),
                     off, x, q1, q2, q3, Q1, Q2, Q3, Q4, Q5)
    BY MsmOfFive
  <2> QED BY <2>1, <2>2, <2>3, <2>4 DEF IsFivePoints
<1>5. b0 # b1 /\ b0 \in Generator /\ b1 \in Generator
  BY DEF b0, b1, Generator
<1>6. d[b0] = ((delta ++ off ** v) ++ x ** (a ++ x ** b)) -- t
  <2>1. d[b0] = (((off ** v ++ x ** a) ++ (x ** x) ** b) ++ (delta -- t) ** 1) ++ Neg(tb) ** 0
    BY <1>2, <1>4, <1>5 DEF IsCommitment
  <2>2. (delta -- t) ** 1 = delta -- t /\ Neg(tb) ** 0 = 0
    BY <1>1, Units
  <2>3. ((off ** v ++ x ** a) ++ (x ** x) ** b) ++ (delta -- t)
          = ((delta ++ off ** v) ++ x ** (a ++ x ** b)) -- t
    <3>0. PICK s \in Scalar : s = x ** b
      BY <1>3, ScalarClosed
    <3>1. PICK p \in Scalar, q \in Scalar, w \in Scalar :
              p = off ** v /\ q = x ** a /\ w = x ** s
      BY <1>3, ScalarClosed
    <3>2. (x ** x) ** b = w
      BY <1>3, <3>0, <3>1, MulAssociates
    <3>3. x ** (a ++ x ** b) = q ++ w
      BY <1>3, <3>0, <3>1, Distributes
    <3>4. ((p ++ q) ++ w) ++ (delta -- t) = ((delta ++ p) ++ (q ++ w)) -- t
      BY AtB
    <3> QED BY <3>1, <3>2, <3>3, <3>4
  <2>4. ((delta ++ off ** v) ++ x ** (a ++ x ** b)) -- t \in Scalar
    <3>1. off ** v \in Scalar /\ x ** b \in Scalar
      BY <1>3, ScalarClosed
    <3>2. delta ++ off ** v \in Scalar /\ x ** (a ++ x ** b) \in Scalar
      BY <1>3, <3>1, ScalarClosed
    <3> QED BY <3>2, ScalarClosed
  <2> QED BY <2>1, <2>2, <2>3, <2>4, Units
<1>7. d[b1] = (off ** vb ++ x ** (ab ++ x ** bb)) -- tb
  <2>1. d[b1] = (((off ** vb ++ x ** ab) ++ (x ** x) ** bb) ++ (delta -- t) ** 0) ++ Neg(tb) ** 1
    BY <1>2, <1>4, <1>5 DEF IsCommitment
  <2>2. (delta -- t) ** 0 = 0 /\ Neg(tb) ** 1 = Neg(tb)
    BY <1>1, Units
  <2>3. (off ** vb ++ x ** ab) ++ (x ** x) ** bb \in Scalar
    <3>1. off ** vb \in Scalar /\ x ** ab \in Scalar /\ (x ** x) ** bb \in Scalar
      BY <1>1, <1>3, ScalarClosed
    <3> QED BY <3>1, ScalarClosed
  <2>4. ((off ** vb ++ x ** ab) ++ (x ** x) ** bb) ++ Neg(tb)
          = (off ** vb ++ x ** (ab ++ x ** bb)) -- tb
    <3>0. PICK s \in Scalar : s = x ** bb
      BY <1>3, ScalarClosed
    <3>1. PICK p \in Scalar, q \in Scalar, w \in Scalar :
              p = off ** vb /\ q = x ** ab /\ w = x ** s
      BY <1>3, ScalarClosed
    <3>2. (x ** x) ** bb = w
      BY <1>3, <3>0, <3>1, MulAssociates
    <3>3. x ** (ab ++ x ** bb) = q ++ w
      BY <1>3, <3>0, <3>1, Distributes
    <3>4. ((p ++ q) ++ w) ++ Neg(tb) = (p ++ (q ++ w)) -- tb
      BY AtBlinding
    <3> QED BY <3>1, <3>2, <3>3, <3>4
  <2> QED BY <2>1, <2>2, <2>3, <2>4, Units
<1>8. ASSUME NEW g \in Generator, g # b0, g # b1 PROVE d[g] = 0
  <2>1. d[g] = (((off ** 0 ++ x ** 0) ++ (x ** x) ** 0) ++ (delta -- t) ** 0) ++ Neg(tb) ** 0
    BY <1>2, <1>4, <1>8 DEF IsCommitment
  <2>2. off ** 0 = 0 /\ x ** 0 = 0 /\ (x ** x) ** 0 = 0 /\ (delta -- t) ** 0 = 0
        /\ Neg(tb) ** 0 = 0 /\ 0 ++ 0 = 0
    BY <1>1, <1>2, Units
  <2> QED BY <2>1, <2>2
<1>9. /\ d[b0] = 0 <=> t = (delta ++ off ** v) ++ x ** (a ++ x ** b)
      /\ d[b1] = 0 <=> tb = off ** vb ++ x ** (ab ++ x ** bb)
  <2>1. off ** v \in Scalar /\ x ** b \in Scalar /\ off ** vb \in Scalar /\ x ** bb \in Scalar
    BY <1>3, ScalarClosed
  <2>2. /\ delta ++ off ** v \in Scalar /\ x ** (a ++ x ** b) \in Scalar
        /\ x ** (ab ++ x ** bb) \in Scalar
    BY <1>3, <2>1, ScalarClosed
  <2>3. /\ (delta ++ off ** v) ++ x ** (a ++ x ** b) \in Scalar
        /\ off ** vb ++ x ** (ab ++ x ** bb) \in Scalar
    BY <2>1, <2>2, ScalarClosed
  <2> QED BY <1>6, <1>7, <2>3, NoDifference
<1>10. Identity \in Point /\ \A g \in Generator : Identity[g] = 0
  BY <1>2 DEF Identity, Point
<1>11. Identity = d <=> d[b0] = 0 /\ d[b1] = 0
  <2>1. ASSUME Identity = d PROVE d[b0] = 0 /\ d[b1] = 0
    BY <1>5, <1>10, <2>1
  <2>2. ASSUME d[b0] = 0, d[b1] = 0 PROVE Identity = d
    <3>1. \A g \in Generator : Identity[g] = d[g]
      BY <1>8, <1>10, <2>2
    <3> QED BY <1>4, <1>10, <3>1, PointExtensional
  <2> QED BY <2>1, <2>2
<1> QED BY <1>0, <1>9, <1>11 DEF ValuesRight

-----------------------------------------------------------------------------
(* The audit of a share.                                                   *)

\* The three checks of a share of the right size.
LEMMA AuditIs ==
  ASSUME NEW j, NEW bits, Sized(j, bits), NEW y \in Scalar \ {0}, NEW z \in Scalar \ {0},
         NEW x, NEW share, share.l_vec \in Vec(bits), share.r_vec \in Vec(bits), NEW bit, NEW poly
  PROVE  AuditPasses(share, j, bit, poly, y, z, x) <=>
           /\ share.t_x = inner_product(share.l_vec, share.r_vec)
           /\ Identity = VectorSum(j, bits, x, share.e_blinding, bit.A_j, bit.S_j,
                                   OfFirst(bits, z, share.l_vec),
                                   OfSecond(j, bits, y, z, share.r_vec))
           /\ Identity = ValueSum(x, Offset(z, j), DeltaOf(j, bits, y, z), share.t_x,
                                  share.t_x_blinding, bit.V_j, poly.T_1_j, poly.T_2_j)
<1>1. /\ scalar_exp_vartime(y, j * bits) = Start(y, j, bits)
      /\ (z ** z) ** scalar_exp_vartime(z, j) = Offset(z, j)
      /\ scalar_exp_vartime(z, j) = Power(z, j)
      /\ bits \in Nat
  BY StartAndOffset
<1>2. PICK l : l = share.l_vec
  OBVIOUS
<1>3. PICK r : r = share.r_vec
  OBVIOUS
<1>4. Len(l) = bits /\ Len(r) = bits
  BY <1>1, <1>2, <1>3 DEF Vec
<1>5. 2 \in Scalar
  BY LargeOrderAssumption, OrderAssumption DEF Scalar
<1>6. sum_of_powers(y, bits) = Geometric(y, bits) /\ sum_of_powers(2, bits) = Geometric(2, bits)
  BY <1>1, <1>5, SumOfPowersIs
<1>7. SizeIsRight(share, bits, j)
  BY <1>2, <1>3, <1>4, CapacityAssumption DEF SizeIsRight, Sized
<1>8. PICK f : f = OfFirst(bits, z, l)
  OBVIOUS
<1>9. PICK h : h = OfSecond(j, bits, y, z, r)
  OBVIOUS
<1>10. f = [i \in 1..bits |-> Neg(z) -- l[i]]
  BY <1>8 DEF OfFirst
<1>11. h = [i \in 1..bits |->
              z ++ (exp_iter(Invert(y), bits)[i]
                       ** Invert(scalar_exp_vartime(y, j * bits)))
                     ** (((z ** z) ** scalar_exp_vartime(z, j)) ** exp_iter(2, bits)[i] -- r[i])]
  BY <1>1, <1>9 DEF OfSecond
<1>12. PICK delta : delta = ((z -- z ** z) ** sum_of_powers(y, bits))
                                  ** scalar_exp_vartime(y, j * bits)
                              -- ((z ** (z ** z)) ** sum_of_powers(2, bits))
                                  ** scalar_exp_vartime(z, j)
  OBVIOUS
<1>13. delta = DeltaOf(j, bits, y, z)
  BY <1>1, <1>6, <1>12 DEF DeltaOf
<1>14. AuditPasses(share, j, bit, poly, y, z, x) <=>
         /\ SizeIsRight(share, bits, j)
         /\ share.t_x = inner_product(l, r)
         /\ Identity = multiscalar_mul(
                <<1, x, Neg(share.e_blinding)>> \o f \o h,
                <<bit.A_j, bit.S_j, B_blinding>>
                    \o ShareGens("G", j, bits) \o ShareGens("H", j, bits))
         /\ Identity = multiscalar_mul(
                <<(z ** z) ** scalar_exp_vartime(z, j), x, x ** x, delta -- share.t_x,
                  Neg(share.t_x_blinding)>>,
                <<bit.V_j, poly.T_1_j, poly.T_2_j, B, B_blinding>>)
  BY <1>2, <1>3, <1>4, <1>10, <1>11, <1>12 DEF AuditPasses
<1> QED BY <1>1, <1>2, <1>3, <1>7, <1>8, <1>9, <1>13, <1>14 DEF VectorSum, ValueSum

\* What a party's share is made of, ra and rb being the coefficients of its second
\* vector and t those of the inner product of its vectors.
IsShare(s, j, bits, v, y, z, x, ra, rb, t) ==
  /\ s.l_vec \in Vec(bits) /\ s.r_vec \in Vec(bits) /\ t \in Vec(3)
  /\ s.t_x \in Scalar /\ s.t_x_blinding \in Scalar /\ s.e_blinding \in Scalar
  /\ s.t_x = inner_product(s.l_vec, s.r_vec)
  /\ s.t_x = (DeltaOf(j, bits, y, z) ++ Offset(z, j) ** M(v % 2^bits))
                 ++ x ** (t[2] ++ x ** t[3])
  /\ s.t_x_blinding = Offset(z, j) ** v_blinding(j)
                          ++ x ** (t_blinding(j, 1, bits) ++ x ** t_blinding(j, 2, bits))
  /\ s.e_blinding = a_blinding(j) ++ s_blinding(j) ** x
  /\ \A i \in 1..bits : /\ s.l_vec[i] = (Bit(v, i - 1) -- z) ++ x ** s_L(j, bits)[i]
                        /\ s.r_vec[i] = ra[i] ++ x ** rb[i]

LEMMA ShareIs ==
  ASSUME NEW j, NEW bits, Sized(j, bits), NEW v \in Nat,
         NEW y \in Scalar \ {0}, NEW z \in Scalar \ {0}, NEW x \in Scalar,
         NEW p, p = Polynomials(j, v, bits, y, z)
  PROVE  \E la, ra, rb : /\ Coefficients(la, ra, rb, j, v, bits, y, z)
                         /\ IsShare(ProofShare(j, p, bits, x), j, bits, v, y, z, x, ra, rb, p.t)
<1>1. PICK la, ra, rb : /\ Coefficients(la, ra, rb, j, v, bits, y, z)
                        /\ p.l = <<la, s_L(j, bits)>> /\ p.r = <<ra, rb>>
                        /\ p.t = VecPoly1InnerProduct(<<la, s_L(j, bits)>>, <<ra, rb>>)
                        /\ p.offset_zz = Offset(z, j)
  <2>1. PICK la, ra, rb : ArePolynomials(p, la, ra, rb, j, v, bits, y, z)
    BY PolynomialsAre
  <2> QED BY <2>1 DEF ArePolynomials
<1>2. la \in Vec(bits) /\ ra \in Vec(bits) /\ rb \in Vec(bits)
  BY <1>1 DEF Coefficients
<1>3. PICK sl \in Vec(bits) : sl = s_L(j, bits)
  BY PartyDraws
<1>4. PICK s : s = ProofShare(j, p, bits, x)
  OBVIOUS
<1>5. bits \in Nat /\ Offset(z, j) \in Scalar
  BY StartAndOffset
<1>6. PICK t \in Vec(3) : /\ t = p.t /\ t[1] = Dot(la, ra)
                          /\ PolyEval(t, x) = t[1] ++ x ** (t[2] ++ x ** t[3])
                          /\ PolyEval(t, x) = inner_product(VecPolyEval(<<la, sl>>, x),
                                                            VecPolyEval(<<ra, rb>>, x))
  <2>1. PICK t : t = VecPoly1InnerProduct(<<la, sl>>, <<ra, rb>>)
    OBVIOUS
  <2>2. /\ t \in Vec(3) /\ t[1] = Dot(la, ra)
        /\ \A q \in Scalar :
               /\ PolyEval(t, q) = t[1] ++ q ** (t[2] ++ q ** t[3])
               /\ PolyEval(t, q) = inner_product(VecPolyEval(<<la, sl>>, q),
                                                 VecPolyEval(<<ra, rb>>, q))
    <3>1. PICK a1 \in Vec(bits), a2 \in Vec(bits), a3 \in Vec(bits), a4 \in Vec(bits) :
              a1 = la /\ a2 = sl /\ a3 = ra /\ a4 = rb
      BY <1>2
    <3>2. LET f == VecPoly1InnerProduct(<<a1, a2>>, <<a3, a4>>)
          IN  /\ f \in Vec(3) /\ f[1] = Dot(a1, a3)
              /\ \A q \in Scalar :
                    /\ PolyEval(f, q) = f[1] ++ q ** (f[2] ++ q ** f[3])
                    /\ PolyEval(f, q) = inner_product(VecPolyEval(<<a1, a2>>, q),
                                                      VecPolyEval(<<a3, a4>>, q))
      BY <1>5, ProductOfPolynomials
    <3> QED BY <2>1, <3>1, <3>2
  <2>3. t = p.t
    BY <1>1, <1>3, <2>1
  <2>4. /\ PolyEval(t, x) = t[1] ++ x ** (t[2] ++ x ** t[3])
        /\ PolyEval(t, x) = inner_product(VecPolyEval(<<la, sl>>, x),
                                          VecPolyEval(<<ra, rb>>, x))
    BY <2>2
  <2> QED BY <2>2, <2>3, <2>4
<1>7. PICK l \in Vec(bits) : /\ l = VecPolyEval(<<la, sl>>, x) /\ IsLine(l, la, sl, x)
  BY <1>2, <1>3, <1>5, VecPolyEvalIsLine
<1>8. PICK r \in Vec(bits) : /\ r = VecPolyEval(<<ra, rb>>, x) /\ IsLine(r, ra, rb, x)
  BY <1>2, <1>5, VecPolyEvalIsLine
<1>9. /\ s.l_vec = l /\ s.r_vec = r /\ s.t_x = PolyEval(t, x)
      /\ s.e_blinding = a_blinding(j) ++ s_blinding(j) ** x
      /\ s.t_x_blinding = PolyEval(<<Offset(z, j) ** v_blinding(j), t_blinding(j, 1, bits),
                                     t_blinding(j, 2, bits)>>, x)
  BY <1>1, <1>3, <1>4, <1>6, <1>7, <1>8 DEF ProofShare
<1>10. s.t_x = inner_product(l, r)
  BY <1>6, <1>7, <1>8, <1>9
<1>11. t[1] = DeltaOf(j, bits, y, z) ++ Offset(z, j) ** M(v % 2^bits)
  BY <1>1, <1>6, ConstantCoefficient
<1>12. PICK u1 \in Scalar, u2 \in Scalar, u3 \in Scalar :
           /\ u1 = Offset(z, j) ** v_blinding(j)
           /\ u2 = t_blinding(j, 1, bits) /\ u3 = t_blinding(j, 2, bits)
  BY <1>5, PartyDraws, ScalarClosed
<1>13. s.t_x_blinding = u1 ++ x ** (u2 ++ x ** u3)
  <2>1. PICK u : u = <<u1, u2, u3>>
    OBVIOUS
  <2>2. u \in Vec(3) /\ u[1] = u1 /\ u[2] = u2 /\ u[3] = u3
    BY <2>1 DEF Vec
  <2>3. PolyEval(u, x) = u[1] ++ x ** (u[2] ++ x ** u[3])
    BY <2>2, PolyEvalOfThree
  <2>4. s.t_x_blinding = PolyEval(u, x)
    BY <1>9, <1>12, <2>1
  <2> QED BY <2>2, <2>3, <2>4
<1>14. s.t_x \in Scalar /\ s.t_x_blinding \in Scalar /\ s.e_blinding \in Scalar
  <2>1. s.t_x \in Scalar
    <3>1. PICK t1 \in Scalar, t2 \in Scalar, t3 \in Scalar :
              t1 = t[1] /\ t2 = t[2] /\ t3 = t[3]
      BY DEF Vec
    <3>2. t1 ++ x ** (t2 ++ x ** t3) \in Scalar
      BY QuadraticClosed
    <3> QED BY <1>6, <1>9, <3>1, <3>2
  <2>2. s.t_x_blinding \in Scalar
    BY <1>13, QuadraticClosed
  <2>3. s.e_blinding \in Scalar
    <3>1. a_blinding(j) \in Scalar /\ s_blinding(j) ** x \in Scalar
      BY PartyDraws, ScalarClosed
    <3> QED BY <1>9, <3>1, ScalarClosed
  <2> QED BY <2>1, <2>2, <2>3
<1>15. ASSUME NEW i \in 1..bits
       PROVE  /\ l[i] = (Bit(v, i - 1) -- z) ++ x ** s_L(j, bits)[i]
              /\ r[i] = ra[i] ++ x ** rb[i]
  <2>1. DOMAIN la = 1..bits /\ DOMAIN ra = 1..bits
    BY <1>2 DEF Vec
  <2>2. la[i] = Bit(v, i - 1) -- z
    BY <1>1 DEF Coefficients
  <2> QED BY <1>3, <1>7, <1>8, <2>1, <2>2 DEF IsLine
<1>16. IsShare(s, j, bits, v, y, z, x, ra, rb, p.t)
  <2>1. s.t_x = (DeltaOf(j, bits, y, z) ++ Offset(z, j) ** M(v % 2^bits))
                    ++ x ** (t[2] ++ x ** t[3])
    BY <1>6, <1>9, <1>11
  <2> QED BY <1>6, <1>9, <1>10, <1>12, <1>13, <1>14, <1>15, <2>1 DEF IsShare
<1> QED BY <1>1, <1>4, <1>16

\* The audit of a share with vectors of the right size: against a commitment to the
\* bits alpha, the one to v, and the ones to w and t3.
Committed(bit, poly, j, v, bits, alpha, w, t3) ==
  /\ bit.V_j = commit(v, v_blinding(j))
  /\ bit.S_j = BitCommitment(j, v, bits).S_j
  /\ HoldsVector(bit.A_j, j, v, bits, alpha)
  /\ IsCommitment(poly.T_1_j, w, t_blinding(j, 1, bits))
  /\ IsCommitment(poly.T_2_j, t3, t_blinding(j, 2, bits))

PassesAudit(share, j, bits, v, y, z, x, alpha, ra, rb, w, t3) ==
  /\ share.t_x = inner_product(share.l_vec, share.r_vec)
  /\ VectorsRight(j, bits, x, z, share.e_blinding, alpha, share.l_vec, share.r_vec, ra, rb)
  /\ ValuesRight(x, Offset(z, j), DeltaOf(j, bits, y, z), share.t_x, share.t_x_blinding,
                 v, v_blinding(j), w, t_blinding(j, 1, bits), t3, t_blinding(j, 2, bits))

LEMMA AuditOf ==
  ASSUME NEW j, NEW bits, Sized(j, bits), NEW v \in Nat, v < Order,
         NEW y \in Scalar \ {0}, NEW z \in Scalar \ {0}, NEW x \in Scalar,
         NEW la, NEW ra, NEW rb, Coefficients(la, ra, rb, j, v, bits, y, z),
         NEW alpha \in Vec(bits), NEW w, NEW t3, NEW bit, NEW poly,
         Committed(bit, poly, j, v, bits, alpha, w, t3),
         NEW share, share.l_vec \in Vec(bits), share.r_vec \in Vec(bits),
         share.t_x \in Scalar, share.t_x_blinding \in Scalar, share.e_blinding \in Scalar
  PROVE  AuditPasses(share, j, bit, poly, y, z, x)
           <=> PassesAudit(share, j, bits, v, y, z, x, alpha, ra, rb, w, t3)
<1>1. PICK l \in Vec(bits), r \in Vec(bits), e \in Scalar, t \in Scalar, tb \in Scalar :
          /\ l = share.l_vec /\ r = share.r_vec /\ e = share.e_blinding /\ t = share.t_x
          /\ tb = share.t_x_blinding
  OBVIOUS
<1>2. HoldsVector(bit.A_j, j, v, bits, alpha) /\ bit.S_j = BitCommitment(j, v, bits).S_j
  BY DEF Committed
<1>3. Identity = VectorSum(j, bits, x, e, bit.A_j, BitCommitment(j, v, bits).S_j,
                           OfFirst(bits, z, l), OfSecond(j, bits, y, z, r))
        <=> VectorsRight(j, bits, x, z, e, alpha, l, r, ra, rb)
  BY <1>2, VectorCheck
<1>4. /\ IsCommitment(bit.V_j, v, v_blinding(j))
      /\ IsCommitment(poly.T_1_j, w, t_blinding(j, 1, bits))
      /\ IsCommitment(poly.T_2_j, t3, t_blinding(j, 2, bits))
  <2>1. v \in Scalar
    <3>1. PICK c : c = BitCommitment(j, v, bits)
      OBVIOUS
    <3> QED BY <3>1, BitCommitmentAt
  <2>2. v_blinding(j) \in Scalar
    BY PartyDraws
  <2>3. IsCommitment(commit(v, v_blinding(j)), v, v_blinding(j))
    <3>1. PICK p \in Scalar, q \in Scalar : p = v /\ q = v_blinding(j)
      BY <2>1, <2>2
    <3>2. /\ commit(p, q) \in Point
          /\ \A g \in Generator : commit(p, q)[g] = IF g = b0 THEN p
                                                    ELSE IF g = b1 THEN q ELSE 0
      BY CommitAt
    <3> QED BY <3>1, <3>2 DEF IsCommitment
  <2> QED BY <2>3 DEF Committed
<1>5. PICK off \in Scalar, delta \in Scalar :
          off = Offset(z, j) /\ delta = DeltaOf(j, bits, y, z)
  BY StartAndOffset, ConstantCoefficient
<1>6. Identity = ValueSum(x, off, delta, t, tb, bit.V_j, poly.T_1_j, poly.T_2_j)
        <=> ValuesRight(x, off, delta, t, tb, v, v_blinding(j), w, t_blinding(j, 1, bits),
                        t3, t_blinding(j, 2, bits))
  BY <1>4, ValueCheck
<1>7. AuditPasses(share, j, bit, poly, y, z, x) <=>
           /\ share.t_x = inner_product(share.l_vec, share.r_vec)
           /\ Identity = VectorSum(j, bits, x, share.e_blinding, bit.A_j, bit.S_j,
                                   OfFirst(bits, z, share.l_vec),
                                   OfSecond(j, bits, y, z, share.r_vec))
           /\ Identity = ValueSum(x, Offset(z, j), DeltaOf(j, bits, y, z), share.t_x,
                                  share.t_x_blinding, bit.V_j, poly.T_1_j, poly.T_2_j)
  BY AuditIs
<1> QED BY <1>1, <1>2, <1>3, <1>5, <1>6, <1>7 DEF PassesAudit

-----------------------------------------------------------------------------
(* What a party sends, and what the audit makes of it.                     *)

\* What a party at position j sends in each round, for its value and its fault.
SentBits(j, v, bits, fault) ==
  LET c == BitCommitment(j, v, bits)
  IN  IF fault = "A_j" THEN [c EXCEPT !.A_j = @ (+) Base(<<"G", j, 1>>)] ELSE c

SentPolys(j, v, bits, y, z, fault) ==
  LET c == PolyCommitment(j, Polynomials(j, v, bits, y, z), bits)
  IN  IF fault = "T_1_j" THEN [c EXCEPT !.T_1_j = @ (+) B] ELSE c

SentShare(j, v, bits, y, z, x, fault) ==
  Skewed(ProofShare(j, Polynomials(j, v, bits, y, z), bits, x), fault)

\* The fields of a share, skewed or not.
LEMMA SkewedIs ==
  ASSUME NEW a, NEW b, NEW c, NEW l, NEW r, NEW fault \in Faults, NEW s,
         s = [t_x |-> a, t_x_blinding |-> b, e_blinding |-> c, l_vec |-> l, r_vec |-> r]
  PROVE  /\ Skewed(s, fault).t_x = IF fault = "t_x" THEN a ++ 1 ELSE a
         /\ Skewed(s, fault).t_x_blinding = IF fault = "t_x_blinding" THEN b ++ 1 ELSE b
         /\ Skewed(s, fault).e_blinding = IF fault = "e_blinding" THEN c ++ 1 ELSE c
         /\ Skewed(s, fault).l_vec = IF fault = "l_vec" THEN [l EXCEPT ![1] = @ ++ 1]
                                     ELSE IF fault = "short" THEN Tail(l) ELSE l
         /\ Skewed(s, fault).r_vec = IF fault = "r_vec" THEN [r EXCEPT ![1] = @ ++ 1] ELSE r
<1>1. CASE fault = "t_x"
  <2>1. Skewed(s, fault) = [s EXCEPT !["t_x"] = @ ++ 1]
    BY <1>1 DEF Skewed
  <2> QED BY <1>1, <2>1
<1>2. CASE fault = "t_x_blinding"
  <2>1. Skewed(s, fault) = [s EXCEPT !["t_x_blinding"] = @ ++ 1]
    BY <1>2 DEF Skewed
  <2> QED BY <1>2, <2>1
<1>3. CASE fault = "e_blinding"
  <2>1. Skewed(s, fault) = [s EXCEPT !["e_blinding"] = @ ++ 1]
    BY <1>3 DEF Skewed
  <2> QED BY <1>3, <2>1
<1>4. CASE fault = "l_vec"
  <2>1. Skewed(s, fault) = [s EXCEPT !["l_vec"][1] = @ ++ 1]
    BY <1>4 DEF Skewed
  <2> QED BY <1>4, <2>1
<1>5. CASE fault = "r_vec"
  <2>1. Skewed(s, fault) = [s EXCEPT !["r_vec"][1] = @ ++ 1]
    BY <1>5 DEF Skewed
  <2> QED BY <1>5, <2>1
<1>6. CASE fault = "short"
  <2>1. Skewed(s, fault) = [s EXCEPT !.l_vec = Tail(@)]
    BY <1>6 DEF Skewed
  <2> QED BY <1>6, <2>1
<1>7. CASE fault \in {"none", "A_j", "T_1_j"}
  <2>1. Skewed(s, fault) = s
    BY <1>7 DEF Skewed
  <2> QED BY <1>7, <2>1
<1> QED BY <1>1, <1>2, <1>3, <1>4, <1>5, <1>6, <1>7 DEF Faults

\* A value is its own lower part when it is in range.
LEMMA LowerPart ==
  ASSUME NEW v \in Nat, v < Order, NEW bits \in Nat
  PROVE  /\ v \in Scalar /\ M(v % 2^bits) \in Scalar
         /\ M(v % 2^bits) = v <=> v < 2^bits
<1>1. PICK p \in Nat \ {0} : p = 2^bits
  <2>1. 2^bits \in Nat
    BY PowerOfTwoType
  <2>2. 1 <= 2^bits
    BY PowerOfTwoGrows
  <2> QED BY <2>1, <2>2
<1>2. PICK q \in Nat : q = v \div p /\ v = p * q + (v % p) /\ v % p \in 0 .. p - 1
  <2>1. v \div p \in Nat /\ v = p * (v \div p) + (v % p) /\ v % p \in 0 .. p - 1
    OBVIOUS
  <2> QED BY <2>1
<1>7. p * q >= 0
  OBVIOUS
<1>8. v % p \in Nat /\ v % p < p /\ v % p <= v
  BY <1>2, <1>7
<1>3. Order \in Nat \ {0, 1}
  BY OrderAssumption
<1>4. v \in Scalar /\ v % p \in Scalar
  BY <1>8, <1>3 DEF Scalar
<1>5. M(v % p) = v % p
  BY <1>4, Reduced
<1>6. v < p => v % p = v
  OBVIOUS
<1> QED BY <1>1, <1>8, <1>4, <1>5, <1>6

\* A vector alpha and a coefficient t1 for what a party sends in the first two rounds.
IsSent(j, v, bits, y, z, fault, t, alpha, t1) ==
  /\ Committed(SentBits(j, v, bits, fault), SentPolys(j, v, bits, y, z, fault),
               j, v, bits, alpha, t1, t[3])
  /\ alpha[1] = IF fault = "A_j" THEN Bit(v, 0) ++ 1 ELSE Bit(v, 0)
  /\ \A i \in 1..bits : i # 1 => alpha[i] = Bit(v, i - 1)
  /\ t1 = IF fault = "T_1_j" THEN t[2] ++ 1 ELSE t[2]

\* What a party sends in the first two rounds: alpha is the vector A commits to and
\* t1 the coefficient T_1 commits to.
LEMMA SentIsCommitted ==
  ASSUME NEW j, NEW bits, Sized(j, bits), NEW v \in Nat, v < Order, NEW y, NEW z,
         NEW fault \in Faults, NEW p, p = Polynomials(j, v, bits, y, z), p.t \in Vec(3)
  PROVE  \E alpha \in Vec(bits), t1 \in Scalar :
             IsSent(j, v, bits, y, z, fault, p.t, alpha, t1)
<1>1. bits \in Nat \ {0} /\ 1 \in 1..bits
  BY CapacityAssumption DEF Sized
<1>2. PICK c : c = BitCommitment(j, v, bits)
  OBVIOUS
<1>3. /\ c.V_j = commit(v, v_blinding(j)) /\ c.A_j \in Point
      /\ c.A_j[b1] = a_blinding(j)
      /\ \A i \in 1..bits : /\ c.A_j[<<"G", j, i>>] = Bit(v, i - 1)
                            /\ c.A_j[<<"H", j, i>>] = Bit(v, i - 1) -- 1
      /\ \A g \in Generator : Other(g, j, bits) => c.A_j[g] = 0
  BY <1>2, BitCommitmentAt
<1>4. PICK a0 \in Vec(bits) : \A i \in 1..bits : a0[i] = Bit(v, i - 1)
  <2>1. \A i \in 1..bits : i - 1 \in Nat
    BY <1>1
  <2>2. \A i \in 1..bits : Bit(v, i - 1) \in Scalar
    BY <2>1, BitIsBit
  <2>3. [i \in 1..bits |-> Bit(v, i - 1)] \in Vec(bits)
    BY <2>2 DEF Vec
  <2> QED BY <2>3
<1>5. a0[1] = Bit(v, 0)
  BY <1>1, <1>4
<1>6. \E alpha \in Vec(bits) :
          /\ HoldsVector(SentBits(j, v, bits, fault).A_j, j, v, bits, alpha)
          /\ alpha[1] = IF fault = "A_j" THEN Bit(v, 0) ++ 1 ELSE Bit(v, 0)
          /\ \A i \in 1..bits : i # 1 => alpha[i] = Bit(v, i - 1)
  <2>1. CASE fault # "A_j"
    <3>1. SentBits(j, v, bits, fault).A_j = c.A_j
      BY <1>2, <2>1 DEF SentBits
    <3>2. HoldsVector(c.A_j, j, v, bits, a0)
      BY <1>3, <1>4 DEF HoldsVector
    <3> QED BY <1>4, <1>5, <2>1, <3>1, <3>2
  <2>2. CASE fault = "A_j"
    <3>1. PICK a1 \in Vec(bits) : /\ a1 = [a0 EXCEPT ![1] = @ ++ 1]
                                  /\ a1[1] = a0[1] ++ 1
                                  /\ \A i \in 1..bits : i # 1 => a1[i] = a0[i]
      <4>1. PICK k : k = [a0 EXCEPT ![1] = @ ++ 1]
        OBVIOUS
      <4>2. PICK l \in Nat \ {0} : l = bits
        BY <1>1
      <4>3. a0 \in Vec(l)
        BY <4>2
      <4>4. k \in Vec(l) /\ k[1] = a0[1] ++ 1 /\ \A i \in 1..l : i # 1 => k[i] = a0[i]
        <5>1. k \in Vec(l)
          BY <4>1, <4>3, EntryPlusOne
        <5>2. k[1] = a0[1] ++ 1
          BY <4>1, <4>3, EntryPlusOne
        <5>3. \A i \in 1..l : i # 1 => k[i] = a0[i]
          BY <4>1, <4>3, EntryPlusOne
        <5> QED BY <5>1, <5>2, <5>3
      <4> QED BY <4>1, <4>2, <4>4
    <3>2. PICK P \in Point, Q \in Point, R \in Point :
              /\ P = c.A_j /\ Q = Base(<<"G", j, 1>>) /\ R = P (+) Q
              /\ \A g \in Generator : R[g] = P[g] ++ Q[g]
      BY <1>3, BaseType, SumOfTwo
    <3>3. SentBits(j, v, bits, fault).A_j = R
      <4>1. SentBits(j, v, bits, fault) = [c EXCEPT !.A_j = @ (+) Base(<<"G", j, 1>>)]
        BY <1>2, <2>2 DEF SentBits
      <4>2. \E c1, c2, c3 : c = [V_j |-> c1, A_j |-> c2, S_j |-> c3]
        BY <1>2 DEF BitCommitment
      <4>3. SentBits(j, v, bits, fault).A_j = c.A_j (+) Base(<<"G", j, 1>>)
        BY <4>1, <4>2
      <4> QED BY <3>2, <4>3
    <3>4. \A g \in Generator : Q[g] = IF g = <<"G", j, 1>> THEN 1 ELSE 0
      <4> TAKE g \in Generator
      <4>1. Base(<<"G", j, 1>>)[g] = IF <<"G", j, 1>> = g THEN 1 ELSE 0
        BY BaseAt
      <4> QED BY <3>2, <4>1
    <3>5. \A g \in Generator : P[g] \in Scalar
      BY DEF Point
    <3>6. \A g \in Generator : R[g] = IF g = <<"G", j, 1>> THEN P[g] ++ 1 ELSE P[g]
      BY <3>2, <3>4, <3>5, Units
    <3>7. R[b1] = a_blinding(j)
      BY <1>1, <1>3, <3>2, <3>6, GeneratorsDiffer
    <3>8. ASSUME NEW i \in 1..bits
          PROVE  R[<<"G", j, i>>] = a1[i] /\ R[<<"H", j, i>>] = Bit(v, i - 1) -- 1
      <4>1. <<"G", j, i>> \in Generator /\ <<"H", j, i>> \in Generator
        BY <1>1, GeneratorsDiffer
      <4>5. <<"H", j, i>> # <<"G", j, 1>>
        OBVIOUS
      <4>2. R[<<"H", j, i>>] = Bit(v, i - 1) -- 1
        BY <1>3, <3>2, <3>6, <4>1, <4>5
      <4>3. CASE i = 1
        BY <1>3, <1>4, <3>1, <3>2, <3>6, <4>1, <4>3
      <4>4. CASE i # 1
        <5>1. <<"G", j, i>> # <<"G", j, 1>>
          BY <4>4
        <5> QED BY <1>3, <1>4, <3>1, <3>2, <3>6, <4>1, <4>4, <5>1
      <4> QED BY <4>2, <4>3, <4>4
    <3>9. \A g \in Generator : Other(g, j, bits) => R[g] = 0
      BY <1>1, <1>3, <3>2, <3>6 DEF Other
    <3>10. HoldsVector(R, j, v, bits, a1)
      BY <3>7, <3>8, <3>9 DEF HoldsVector
    <3>11. /\ a1[1] = Bit(v, 0) ++ 1
           /\ \A i \in 1..bits : i # 1 => a1[i] = Bit(v, i - 1)
      BY <1>4, <1>5, <3>1
    <3> QED BY <2>2, <3>3, <3>10, <3>11
  <2> QED BY <2>1, <2>2
<1>7. /\ SentBits(j, v, bits, fault).V_j = commit(v, v_blinding(j))
      /\ SentBits(j, v, bits, fault).S_j = BitCommitment(j, v, bits).S_j
  <2>1. \E c1, c2, c3 : c = [V_j |-> c1, A_j |-> c2, S_j |-> c3]
    BY <1>2 DEF BitCommitment
  <2> QED BY <1>2, <1>3, <2>1 DEF SentBits
<1>8. PICK t2 \in Scalar, t3 \in Scalar, tb1 \in Scalar, tb2 \in Scalar :
          /\ t2 = p.t[2] /\ t3 = p.t[3]
          /\ tb1 = t_blinding(j, 1, bits) /\ tb2 = t_blinding(j, 2, bits)
  BY PartyDraws DEF Vec
<1>9. PICK pc : /\ pc = PolyCommitment(j, p, bits)
                /\ pc = [T_1_j |-> commit(t2, tb1), T_2_j |-> commit(t3, tb2)]
  BY <1>8 DEF PolyCommitment
<1>10. IsCommitment(commit(t2, tb1), t2, tb1) /\ IsCommitment(commit(t3, tb2), t3, tb2)
  BY CommitAt DEF IsCommitment
<1>11. \E t1 \in Scalar :
          /\ IsCommitment(SentPolys(j, v, bits, y, z, fault).T_1_j, t1, tb1)
          /\ t1 = IF fault = "T_1_j" THEN t2 ++ 1 ELSE t2
  <2>1. CASE fault # "T_1_j"
    <3>1. SentPolys(j, v, bits, y, z, fault).T_1_j = commit(t2, tb1)
      BY <1>9, <2>1 DEF SentPolys
    <3> QED BY <1>10, <2>1, <3>1
  <2>2. CASE fault = "T_1_j"
    <3>1. SentPolys(j, v, bits, y, z, fault).T_1_j = commit(t2, tb1) (+) B
      BY <1>9, <2>2 DEF SentPolys
    <3>2. PICK P \in Point : P = commit(t2, tb1)
      BY <1>10 DEF IsCommitment
    <3>3. PICK R \in Point : R = P (+) B /\ \A g \in Generator : R[g] = P[g] ++ B[g]
      <4>1. B \in Point
        BY BaseType DEF B
      <4> QED BY <4>1, SumOfTwo
    <3>4. \A g \in Generator : B[g] = IF g = b0 THEN 1 ELSE 0
      BY CommitAt, ScalarClosed
    <3>5. b0 # b1
      BY DEF b0, b1
    <3>6. t2 ++ 1 \in Scalar /\ 0 ++ 0 = 0 /\ tb1 ++ 0 = tb1
      BY Units, ScalarClosed
    <3>7. \A g \in Generator : P[g] = IF g = b0 THEN t2 ELSE IF g = b1 THEN tb1 ELSE 0
      BY <1>10, <3>2 DEF IsCommitment
    <3>8. \A g \in Generator : R[g] = IF g = b0 THEN t2 ++ 1 ELSE IF g = b1 THEN tb1 ELSE 0
      BY <3>3, <3>4, <3>5, <3>6, <3>7
    <3>9. IsCommitment(R, t2 ++ 1, tb1)
      BY <3>6, <3>8 DEF IsCommitment
    <3> QED BY <2>2, <3>1, <3>2, <3>3, <3>6, <3>9
  <2> QED BY <2>1, <2>2
<1>12. SentPolys(j, v, bits, y, z, fault).T_2_j = commit(t3, tb2)
  BY <1>9 DEF SentPolys
<1>13. PICK alpha \in Vec(bits) :
          /\ HoldsVector(SentBits(j, v, bits, fault).A_j, j, v, bits, alpha)
          /\ alpha[1] = IF fault = "A_j" THEN Bit(v, 0) ++ 1 ELSE Bit(v, 0)
          /\ \A i \in 1..bits : i # 1 => alpha[i] = Bit(v, i - 1)
  BY <1>6
<1>14. PICK t1 \in Scalar :
          /\ IsCommitment(SentPolys(j, v, bits, y, z, fault).T_1_j, t1, tb1)
          /\ t1 = IF fault = "T_1_j" THEN t2 ++ 1 ELSE t2
  BY <1>11
<1>15. Committed(SentBits(j, v, bits, fault), SentPolys(j, v, bits, y, z, fault),
                 j, v, bits, alpha, t1, p.t[3])
  BY <1>7, <1>8, <1>10, <1>12, <1>13, <1>14 DEF Committed
<1>16. IsSent(j, v, bits, y, z, fault, p.t, alpha, t1)
  BY <1>8, <1>13, <1>14, <1>15 DEF IsSent
<1> QED BY <1>16

\* A share of the right size, whatever is in it.
ShareType(bits) ==
  [t_x : Scalar, t_x_blinding : Scalar, e_blinding : Scalar,
   l_vec : Vec(bits), r_vec : Vec(bits)]

\* Vectors with the same entries are the same.
LEMMA SameEntries ==
  ASSUME NEW k, NEW a \in Vec(k), NEW b \in Vec(k), \A i \in 1..k : a[i] = b[i]
  PROVE  a = b
<1>1. a = [i \in 1..k |-> a[i]] /\ b = [i \in 1..k |-> b[i]]
  BY DEF Vec
<1>2. [i \in 1..k |-> a[i]] = [i \in 1..k |-> b[i]]
  OBVIOUS
<1> QED BY <1>1, <1>2

\* The commitments of the protocol, as the audit sees them.
LEMMA HonestCommitted ==
  ASSUME NEW j, NEW bits, Sized(j, bits), NEW v \in Nat, v < Order, NEW y, NEW z,
         NEW p, p = Polynomials(j, v, bits, y, z), p.t \in Vec(3)
  PROVE  \E alpha \in Vec(bits) :
             /\ Committed(BitCommitment(j, v, bits), PolyCommitment(j, p, bits),
                          j, v, bits, alpha, p.t[2], p.t[3])
             /\ \A i \in 1..bits : alpha[i] = Bit(v, i - 1)
<1>1. PICK alpha \in Vec(bits), t1 \in Scalar :
          IsSent(j, v, bits, y, z, "none", p.t, alpha, t1)
  <2>1. "none" \in Faults
    BY DEF Faults
  <2> QED BY <2>1, SentIsCommitted
<1>2. /\ SentBits(j, v, bits, "none") = BitCommitment(j, v, bits)
      /\ SentPolys(j, v, bits, y, z, "none") = PolyCommitment(j, p, bits)
  BY DEF SentBits, SentPolys
<1>3. /\ Committed(BitCommitment(j, v, bits), PolyCommitment(j, p, bits),
                   j, v, bits, alpha, t1, p.t[3])
      /\ t1 = p.t[2]
  BY <1>1, <1>2 DEF IsSent
<1>4. \A i \in 1..bits : alpha[i] = Bit(v, i - 1)
  <2>1. alpha[1] = Bit(v, 0) /\ \A i \in 1..bits : i # 1 => alpha[i] = Bit(v, i - 1)
    BY <1>1 DEF IsSent
  <2>2. 1 - 1 = 0
    OBVIOUS
  <2> QED BY <2>1, <2>2
<1> QED BY <1>3, <1>4

\* audit_share against the commitments the protocol makes, for whatever a party
\* sends as its share: it passes the one share the protocol computes and no
\* other, and not even that one when the value is out of range.
THEOREM OnlyTheShareIsAccepted ==
  ASSUME NEW j, NEW bits, Sized(j, bits), NEW v \in Nat, v < Order,
         NEW y \in Scalar \ {0}, NEW z \in Scalar \ {0}, NEW x \in Scalar,
         NEW p, p = Polynomials(j, v, bits, y, z), NEW share \in ShareType(bits)
  PROVE  AuditPasses(share, j, BitCommitment(j, v, bits), PolyCommitment(j, p, bits), y, z, x)
           <=> share = ProofShare(j, p, bits, x) /\ v < 2^bits
<1>1. PICK la, ra, rb : /\ Coefficients(la, ra, rb, j, v, bits, y, z)
                        /\ IsShare(ProofShare(j, p, bits, x), j, bits, v, y, z, x, ra, rb, p.t)
  BY ShareIs
<1>2. PICK s : s = ProofShare(j, p, bits, x)
  OBVIOUS
<1>3. IsShare(s, j, bits, v, y, z, x, ra, rb, p.t)
  BY <1>1, <1>2
<1>4. s = [t_x |-> s.t_x, t_x_blinding |-> s.t_x_blinding, e_blinding |-> s.e_blinding,
           l_vec |-> s.l_vec, r_vec |-> s.r_vec]
  BY <1>2 DEF ProofShare
<1>5. PICK l \in Vec(bits), r \in Vec(bits), a \in Scalar, b \in Scalar, e \in Scalar :
          /\ l = s.l_vec /\ r = s.r_vec /\ a = s.t_x /\ b = s.t_x_blinding /\ e = s.e_blinding
  BY <1>3 DEF IsShare
<1>6. PICK t2 \in Scalar, t3 \in Scalar : t2 = p.t[2] /\ t3 = p.t[3] /\ p.t \in Vec(3)
  BY <1>3 DEF IsShare, Vec
<1>7. PICK alpha \in Vec(bits) :
          /\ Committed(BitCommitment(j, v, bits), PolyCommitment(j, p, bits),
                       j, v, bits, alpha, t2, t3)
          /\ \A i \in 1..bits : alpha[i] = Bit(v, i - 1)
  BY <1>6, HonestCommitted
<1>8. /\ share.l_vec \in Vec(bits) /\ share.r_vec \in Vec(bits)
      /\ share.t_x \in Scalar /\ share.t_x_blinding \in Scalar /\ share.e_blinding \in Scalar
      /\ share = [t_x |-> share.t_x, t_x_blinding |-> share.t_x_blinding,
                  e_blinding |-> share.e_blinding, l_vec |-> share.l_vec,
                  r_vec |-> share.r_vec]
  BY DEF ShareType
<1>9. AuditPasses(share, j, BitCommitment(j, v, bits), PolyCommitment(j, p, bits), y, z, x)
        <=> PassesAudit(share, j, bits, v, y, z, x, alpha, ra, rb, t2, t3)
  BY <1>1, <1>7, <1>8, AuditOf
<1>10. PICK D \in Scalar, off \in Scalar \ {0}, low \in Scalar :
           /\ D = DeltaOf(j, bits, y, z) /\ off = Offset(z, j) /\ low = M(v % 2^bits)
           /\ v \in Scalar /\ (low = v <=> v < 2^bits)
  BY <1>1, StartAndOffset, ConstantCoefficient, LowerPart
<1>11. PICK g \in Scalar : g = x ** (t2 ++ x ** t3)
  <2>1. PICK f \in Scalar : f = t2 ++ x ** t3
    <3>1. x ** t3 \in Scalar
      BY ScalarClosed
    <3> QED BY <3>1, ScalarClosed
  <2>2. x ** f \in Scalar
    BY ScalarClosed
  <2> QED BY <2>1, <2>2
<1>12. /\ a = inner_product(l, r)
       /\ a = (D ++ off ** low) ++ g
       /\ b = off ** v_blinding(j)
                  ++ x ** (t_blinding(j, 1, bits) ++ x ** t_blinding(j, 2, bits))
       /\ e = a_blinding(j) ++ s_blinding(j) ** x
       /\ \A i \in 1..bits : /\ l[i] = (alpha[i] -- z) ++ x ** s_L(j, bits)[i]
                             /\ r[i] = ra[i] ++ x ** rb[i]
  BY <1>3, <1>5, <1>6, <1>7, <1>10, <1>11 DEF IsShare
<1>13. PassesAudit(share, j, bits, v, y, z, x, alpha, ra, rb, t2, t3) <=>
         /\ share.t_x = inner_product(share.l_vec, share.r_vec)
         /\ share.e_blinding = e
         /\ \A i \in 1..bits : share.l_vec[i] = l[i] /\ share.r_vec[i] = r[i]
         /\ share.t_x = (D ++ off ** v) ++ g
         /\ share.t_x_blinding = b
  BY <1>10, <1>11, <1>12 DEF PassesAudit, VectorsRight, ValuesRight
<1>14. (\A i \in 1..bits : share.l_vec[i] = l[i] /\ share.r_vec[i] = r[i])
         <=> share.l_vec = l /\ share.r_vec = r
  <2>1. PICK k \in Vec(bits), q \in Vec(bits) : k = share.l_vec /\ q = share.r_vec
    BY <1>8
  <2>2. (\A i \in 1..bits : k[i] = l[i]) => k = l
    BY SameEntries
  <2>3. (\A i \in 1..bits : q[i] = r[i]) => q = r
    BY SameEntries
  <2> QED BY <2>1, <2>2, <2>3
<1>15. share = s <=> /\ share.t_x = a /\ share.t_x_blinding = b /\ share.e_blinding = e
                     /\ share.l_vec = l /\ share.r_vec = r
  BY <1>4, <1>5, <1>8
<1>16. a = (D ++ off ** v) ++ g <=> v < 2^bits
  <2>1. PICK w \in Scalar : w = v
    BY <1>10
  <2>2. (D ++ off ** low) ++ g = (D ++ off ** w) ++ g => low = w
    BY ValueMatters
  <2>3. low = v => (D ++ off ** low) ++ g = (D ++ off ** v) ++ g
    OBVIOUS
  <2> QED BY <1>10, <1>12, <2>1, <2>2, <2>3
<1>17. PassesAudit(share, j, bits, v, y, z, x, alpha, ra, rb, t2, t3)
         <=> share = s /\ v < 2^bits
  <2>1. ASSUME share.l_vec = l, share.r_vec = r
        PROVE  inner_product(share.l_vec, share.r_vec) = a
    BY <1>12, <2>1
  <2> QED BY <1>13, <1>14, <1>15, <1>16, <2>1
<1> QED BY <1>2, <1>9, <1>17

\* Whatever vector a party's A_j holds beside the generators G, and whatever values
\* its T_1_j and T_2_j are commitments to: of all shares of the right size, at most
\* one passes the audit, so a party cannot answer the challenge in two ways.
THEOREM AtMostOneShareIsAccepted ==
  ASSUME NEW j, NEW bits, Sized(j, bits), NEW v \in Nat, v < Order,
         NEW y \in Scalar \ {0}, NEW z \in Scalar \ {0}, NEW x \in Scalar,
         NEW alpha \in Vec(bits), NEW w, NEW t3, NEW bit, NEW poly,
         Committed(bit, poly, j, v, bits, alpha, w, t3),
         NEW one \in ShareType(bits), NEW other \in ShareType(bits),
         AuditPasses(one, j, bit, poly, y, z, x), AuditPasses(other, j, bit, poly, y, z, x)
  PROVE  one = other
<1>1. PICK la, ra, rb : Coefficients(la, ra, rb, j, v, bits, y, z)
  <2>1. PICK p : p = Polynomials(j, v, bits, y, z)
    OBVIOUS
  <2> QED BY <2>1, ShareIs
<1>2. ASSUME NEW share \in ShareType(bits), AuditPasses(share, j, bit, poly, y, z, x)
      PROVE  PassesAudit(share, j, bits, v, y, z, x, alpha, ra, rb, w, t3)
  <2>1. /\ share.l_vec \in Vec(bits) /\ share.r_vec \in Vec(bits) /\ share.t_x \in Scalar
        /\ share.t_x_blinding \in Scalar /\ share.e_blinding \in Scalar
    BY DEF ShareType
  <2> QED BY <1>1, <1>2, <2>1, AuditOf
<1>3. /\ one.t_x = other.t_x /\ one.t_x_blinding = other.t_x_blinding
      /\ one.e_blinding = other.e_blinding
      /\ \A i \in 1..bits : /\ one.l_vec[i] = other.l_vec[i]
                            /\ one.r_vec[i] = other.r_vec[i]
  BY <1>2 DEF PassesAudit, VectorsRight, ValuesRight
<1>4. one.l_vec = other.l_vec /\ one.r_vec = other.r_vec
  <2>1. PICK k \in Vec(bits), q \in Vec(bits) : k = one.l_vec /\ q = one.r_vec
    BY DEF ShareType
  <2>2. PICK l \in Vec(bits), r \in Vec(bits) : l = other.l_vec /\ r = other.r_vec
    BY DEF ShareType
  <2>3. (\A i \in 1..bits : k[i] = l[i]) => k = l
    BY SameEntries
  <2>4. (\A i \in 1..bits : q[i] = r[i]) => q = r
    BY SameEntries
  <2> QED BY <1>3, <2>1, <2>2, <2>3, <2>4
<1> QED BY <1>3, <1>4 DEF ShareType

\* The audit of what a party sends when it deviates in one of the ways named, or
\* not at all: it passes when it did not and its value is in range.  A deviation in
\* T_1 could make up for a value out of range, for one x; a share that is too short
\* is not audited.
LEMMA AuditDecides ==
  ASSUME NEW j, NEW bits, Sized(j, bits), NEW v \in Nat, v < Order,
         NEW y \in Scalar \ {0}, NEW z \in Scalar \ {0}, NEW x \in Scalar \ {0},
         NEW fault \in Faults, fault # "short", fault = "T_1_j" => v < 2^bits
  PROVE  AuditPasses(SentShare(j, v, bits, y, z, x, fault), j, SentBits(j, v, bits, fault),
                     SentPolys(j, v, bits, y, z, fault), y, z, x)
           <=> fault = "none" /\ v < 2^bits
<1>1. bits \in Nat \ {0} /\ 1 \in 1..bits /\ x \in Scalar /\ x # 0
  BY CapacityAssumption DEF Sized
<1>2. PICK p : p = Polynomials(j, v, bits, y, z)
  OBVIOUS
<1>3. PICK la, ra, rb : /\ Coefficients(la, ra, rb, j, v, bits, y, z)
                        /\ IsShare(ProofShare(j, p, bits, x), j, bits, v, y, z, x, ra, rb, p.t)
  BY <1>1, <1>2, ShareIs
<1>4. PICK s : s = ProofShare(j, p, bits, x)
  OBVIOUS
<1>5. IsShare(s, j, bits, v, y, z, x, ra, rb, p.t)
  BY <1>3, <1>4
<1>6. s = [t_x |-> s.t_x, t_x_blinding |-> s.t_x_blinding, e_blinding |-> s.e_blinding,
           l_vec |-> s.l_vec, r_vec |-> s.r_vec]
  BY <1>4 DEF ProofShare
<1>7. PICK l \in Vec(bits), r \in Vec(bits), a \in Scalar, b \in Scalar, e \in Scalar :
          /\ l = s.l_vec /\ r = s.r_vec /\ a = s.t_x /\ b = s.t_x_blinding /\ e = s.e_blinding
  BY <1>5 DEF IsShare
<1>8. PICK k : k = SentShare(j, v, bits, y, z, x, fault)
  OBVIOUS
<1>9. /\ k.t_x = IF fault = "t_x" THEN a ++ 1 ELSE a
      /\ k.t_x_blinding = IF fault = "t_x_blinding" THEN b ++ 1 ELSE b
      /\ k.e_blinding = IF fault = "e_blinding" THEN e ++ 1 ELSE e
      /\ k.l_vec = IF fault = "l_vec" THEN [l EXCEPT ![1] = @ ++ 1] ELSE l
      /\ k.r_vec = IF fault = "r_vec" THEN [r EXCEPT ![1] = @ ++ 1] ELSE r
  <2>1. k = Skewed(s, fault)
    BY <1>2, <1>4, <1>8 DEF SentShare
  <2>2. s = [t_x |-> a, t_x_blinding |-> b, e_blinding |-> e, l_vec |-> l, r_vec |-> r]
    BY <1>6, <1>7
  <2> QED BY <2>1, <2>2, SkewedIs
<1>10. PICK t2 \in Scalar, t3 \in Scalar : t2 = p.t[2] /\ t3 = p.t[3] /\ p.t \in Vec(3)
  BY <1>5 DEF IsShare, Vec
<1>11. PICK alpha \in Vec(bits), t1 \in Scalar :
          /\ Committed(SentBits(j, v, bits, fault), SentPolys(j, v, bits, y, z, fault),
                       j, v, bits, alpha, t1, t3)
          /\ alpha[1] = IF fault = "A_j" THEN Bit(v, 0) ++ 1 ELSE Bit(v, 0)
          /\ \A i \in 1..bits : i # 1 => alpha[i] = Bit(v, i - 1)
          /\ t1 = IF fault = "T_1_j" THEN t2 ++ 1 ELSE t2
  <2>1. PICK alpha \in Vec(bits), t1 \in Scalar :
            IsSent(j, v, bits, y, z, fault, p.t, alpha, t1)
    BY <1>2, <1>10, SentIsCommitted
  <2> QED BY <1>10, <2>1 DEF IsSent
<1>12. /\ k.l_vec \in Vec(bits) /\ k.r_vec \in Vec(bits)
       /\ k.t_x \in Scalar /\ k.t_x_blinding \in Scalar /\ k.e_blinding \in Scalar
  <2>1. a ++ 1 \in Scalar /\ b ++ 1 \in Scalar /\ e ++ 1 \in Scalar
    BY OneMore
  <2>2. [l EXCEPT ![1] = @ ++ 1] \in Vec(bits) /\ [r EXCEPT ![1] = @ ++ 1] \in Vec(bits)
    BY <1>1, EntryPlusOne
  <2> QED BY <1>9, <2>1, <2>2
<1>13. AuditPasses(k, j, SentBits(j, v, bits, fault), SentPolys(j, v, bits, y, z, fault), y, z, x)
         <=> PassesAudit(k, j, bits, v, y, z, x, alpha, ra, rb, t1, t3)
  BY <1>1, <1>3, <1>11, <1>12, AuditOf
<1>14. PICK D \in Scalar, off \in Scalar \ {0}, low \in Scalar :
           /\ D = DeltaOf(j, bits, y, z) /\ off = Offset(z, j) /\ low = M(v % 2^bits)
           /\ v \in Scalar /\ (low = v <=> v < 2^bits)
  BY <1>1, <1>3, StartAndOffset, ConstantCoefficient, LowerPart
<1>15. PICK f \in Scalar : f = x ** t3
  BY ScalarClosed
<1>16. /\ a = inner_product(l, r)
       /\ a = (D ++ off ** low) ++ x ** (t2 ++ f)
       /\ b = off ** v_blinding(j)
                  ++ x ** (t_blinding(j, 1, bits) ++ x ** t_blinding(j, 2, bits))
       /\ e = a_blinding(j) ++ s_blinding(j) ** x
       /\ \A i \in 1..bits : /\ l[i] = (Bit(v, i - 1) -- z) ++ x ** s_L(j, bits)[i]
                             /\ r[i] = ra[i] ++ x ** rb[i]
  BY <1>5, <1>7, <1>10, <1>14, <1>15 DEF IsShare
<1>17. PassesAudit(k, j, bits, v, y, z, x, alpha, ra, rb, t1, t3) <=>
         /\ k.t_x = inner_product(k.l_vec, k.r_vec)
         /\ k.e_blinding = e
         /\ \A i \in 1..bits : /\ k.l_vec[i] = (alpha[i] -- z) ++ x ** s_L(j, bits)[i]
                               /\ k.r_vec[i] = r[i]
         /\ k.t_x = (D ++ off ** v) ++ x ** (t1 ++ f)
         /\ k.t_x_blinding = b
  BY <1>14, <1>15, <1>16 DEF PassesAudit, VectorsRight, ValuesRight
<1>18. CASE fault = "none"
  <2>1. /\ k.t_x = a /\ k.t_x_blinding = b /\ k.e_blinding = e /\ k.l_vec = l /\ k.r_vec = r
        /\ t1 = t2 /\ \A i \in 1..bits : alpha[i] = Bit(v, i - 1)
    BY <1>9, <1>11, <1>18
  <2>2. PassesAudit(k, j, bits, v, y, z, x, alpha, ra, rb, t1, t3)
          <=> a = (D ++ off ** v) ++ x ** (t2 ++ f)
    BY <1>16, <1>17, <2>1
  <2>3. PICK g \in Scalar : g = x ** (t2 ++ f)
    <3>1. t2 ++ f \in Scalar
      BY ScalarClosed
    <3> QED BY <1>1, <3>1, ScalarClosed
  <2>4. a = (D ++ off ** v) ++ g => low = v
    <3>1. (D ++ off ** low) ++ g = (D ++ off ** v) ++ g => low = v
      <4>1. PICK w \in Scalar : w = v
        BY <1>14
      <4>2. (D ++ off ** low) ++ g = (D ++ off ** w) ++ g => low = w
        BY ValueMatters
      <4> QED BY <4>1, <4>2
    <3> QED BY <1>16, <2>3, <3>1
  <2>5. low = v => a = (D ++ off ** v) ++ g
    BY <1>16, <2>3
  <2> QED BY <1>8, <1>13, <1>14, <1>18, <2>2, <2>3, <2>4, <2>5
<1>19. CASE fault = "A_j"
  <2>1. k.l_vec[1] = (Bit(v, 0) -- z) ++ x ** s_L(j, bits)[1]
    BY <1>1, <1>9, <1>16, <1>19
  <2>2. alpha[1] = Bit(v, 0) ++ 1
    BY <1>11, <1>19
  <2>3. PICK p1 \in Scalar, q1 \in Scalar, c \in Scalar :
            p1 = Bit(v, 0) /\ q1 = p1 ++ 1 /\ c = x ** s_L(j, bits)[1]
    <3>1. Bit(v, 0) \in Scalar
      BY BitIsBit
    <3>2. s_L(j, bits)[1] \in Scalar
      BY <1>1, PartyDraws DEF Vec
    <3> QED BY <1>1, <3>1, <3>2, ScalarClosed
  <2>4. (p1 -- z) ++ c # (q1 -- z) ++ c
    <3>1. PICK p2 \in Scalar, q2 \in Scalar : p2 = p1 -- z /\ q2 = q1 -- z
      BY ScalarClosed
    <3>2. p2 ++ c = q2 ++ c => p2 = q2
      BY AddCancels
    <3>3. p1 -- z = q1 -- z => p1 = q1
      <4>1. PICK w \in Scalar : w = Neg(z)
        BY ScalarClosed
      <4>2. p1 ++ w = q1 ++ w => p1 = q1
        BY AddCancels
      <4> QED BY <4>1, <4>2 DEF --
    <3>4. q1 # p1
      BY <2>3, OneMore
    <3> QED BY <3>1, <3>2, <3>3, <3>4
  <2>5. ~PassesAudit(k, j, bits, v, y, z, x, alpha, ra, rb, t1, t3)
    BY <1>1, <1>17, <2>1, <2>2, <2>3, <2>4
  <2> QED BY <1>8, <1>13, <1>19, <2>5
<1>20. CASE fault = "T_1_j"
  <2>1. k.t_x = a /\ t1 = t2 ++ 1 /\ low = v
    BY <1>9, <1>11, <1>14, <1>20
  <2>2. PICK w \in Scalar : w = D ++ off ** v
    <3>1. off ** v \in Scalar
      BY <1>14, ScalarClosed
    <3> QED BY <3>1, ScalarClosed
  <2>3. t1 # t2
    BY <2>1, OneMore
  <2>4. w ++ x ** (t2 ++ f) = w ++ x ** (t1 ++ f) => t2 = t1
    BY CoefficientMatters
  <2>5. ~PassesAudit(k, j, bits, v, y, z, x, alpha, ra, rb, t1, t3)
    BY <1>16, <1>17, <2>1, <2>2, <2>3, <2>4
  <2> QED BY <1>8, <1>13, <1>20, <2>5
<1>21. CASE fault = "t_x"
  <2>1. k.t_x = a ++ 1 /\ k.l_vec = l /\ k.r_vec = r /\ a ++ 1 # a
    BY <1>9, <1>21, OneMore
  <2> QED BY <1>8, <1>13, <1>16, <1>17, <1>21, <2>1
<1>22. CASE fault = "t_x_blinding"
  <2>1. k.t_x_blinding = b ++ 1 /\ b ++ 1 # b
    BY <1>9, <1>22, OneMore
  <2> QED BY <1>8, <1>13, <1>17, <1>22, <2>1
<1>23. CASE fault = "e_blinding"
  <2>1. k.e_blinding = e ++ 1 /\ e ++ 1 # e
    BY <1>9, <1>23, OneMore
  <2> QED BY <1>8, <1>13, <1>17, <1>23, <2>1
<1>24. CASE fault = "l_vec"
  <2>1. PICK q : q = [l EXCEPT ![1] = @ ++ 1]
    OBVIOUS
  <2>2. q[1] # l[1]
    BY <1>1, <2>1, EntryPlusOne
  <2>3. k.l_vec[1] # l[1]
    BY <1>9, <1>24, <2>1, <2>2
  <2>4. l[1] = (Bit(v, 0) -- z) ++ x ** s_L(j, bits)[1] /\ alpha[1] = Bit(v, 0)
    BY <1>1, <1>11, <1>16, <1>24
  <2>5. ~PassesAudit(k, j, bits, v, y, z, x, alpha, ra, rb, t1, t3)
    BY <1>1, <1>17, <2>3, <2>4
  <2> QED BY <1>8, <1>13, <1>24, <2>5
<1>25. CASE fault = "r_vec"
  <2>1. PICK q : q = [r EXCEPT ![1] = @ ++ 1]
    OBVIOUS
  <2>2. q[1] # r[1]
    BY <1>1, <2>1, EntryPlusOne
  <2>3. k.r_vec[1] # r[1]
    BY <1>9, <1>25, <2>1, <2>2
  <2>5. ~PassesAudit(k, j, bits, v, y, z, x, alpha, ra, rb, t1, t3)
    BY <1>1, <1>17, <2>3
  <2> QED BY <1>8, <1>13, <1>25, <2>5
<1> QED BY <1>18, <1>19, <1>20, <1>21, <1>22, <1>23, <1>24, <1>25 DEF Faults

\* A transcript a session has just opened.
LEMMA OpenedTranscript ==
  ASSUME NEW bits, NEW parties, NEW t, t = rangeproof_domain_sep(<<>>, bits, parties)
  PROVE  IsSequence(t) /\ Without(t, "y") /\ Without(t, "z") /\ Without(t, "x")
<1>1. PICK r : r = <<<<"dom-sep", "rangeproof v1">>, <<"n", bits>>, <<"m", parties>>>>
  OBVIOUS
<1>2. IsSequence(r) /\ Len(r) = 3
  BY <1>1, ShortSequences
<1>3. r[1][1] = "dom-sep" /\ r[2][1] = "n" /\ r[3][1] = "m"
  BY <1>1
<1>4. \A i \in 1..3 : i = 1 \/ i = 2 \/ i = 3
  OBVIOUS
<1>5. \A i \in 1..3 : r[i][1] \in {"dom-sep", "n", "m"}
  BY <1>3, <1>4
<1>6. IsSequence(<<>>) /\ Len(<<>>) = 0
  BY ChallengesOfNone
<1>7. Without(r, "y") /\ Without(r, "z") /\ Without(r, "x")
  BY <1>2, <1>5 DEF Without
<1>8. Without(<<>>, "y") /\ Without(<<>>, "z") /\ Without(<<>>, "x")
  BY <1>6 DEF Without
<1>9. t = <<>> \o r
  BY <1>1 DEF rangeproof_domain_sep
<1>10. IsSequence(<<>> \o r)
  BY <1>2, <1>6, ThenSequence
<1>11. Without(<<>> \o r, "y") /\ Without(<<>> \o r, "z") /\ Without(<<>> \o r, "x")
  BY <1>2, <1>6, <1>7, <1>8, WithoutThen
<1> QED BY <1>9, <1>10, <1>11

\* What the dealer draws for the bit commitments is drawn for the first time.
LEMMA BitChallenges ==
  ASSUME NEW s, IsSequence(s), Without(s, "y"), Without(s, "z"), Without(s, "x"),
         NEW v, IsSequence(v), Without(v, "y"), Without(v, "z"), Without(v, "x"),
         NEW a, NEW b, NEW y, NEW z, NEW t,
         t = s \o v \o <<<<"A", a>>, <<"S", b>>, <<"y", y>>, <<"z", z>>>>
  PROVE  IsSequence(t) /\ FirstDraw(t, "y", y) /\ FirstDraw(t, "z", z) /\ Without(t, "x")
<1>1. PICK r : r = <<<<"A", a>>, <<"S", b>>, <<"y", y>>, <<"z", z>>>>
  OBVIOUS
<1>2. IsSequence(r) /\ Len(r) = 4
  BY <1>1, ShortSequences
<1>3. r[1][1] = "A" /\ r[2][1] = "S" /\ r[3] = <<"y", y>> /\ r[4] = <<"z", z>>
  BY <1>1
<1>4. r[3][1] = "y" /\ r[4][1] = "z"
  BY <1>3
<1>5. \A i \in 1..4 : i = 1 \/ i = 2 \/ i = 3 \/ i = 4
  OBVIOUS
<1>6. Without(r, "x")
  BY <1>2, <1>3, <1>4, <1>5 DEF Without
<1>7. FirstDraw(r, "y", y)
  <2>1. 3 \in 1..4 /\ \A h \in 1..(3 - 1) : h = 1 \/ h = 2
    OBVIOUS
  <2> QED BY <1>2, <1>3, <2>1 DEF FirstDraw
<1>8. FirstDraw(r, "z", z)
  <2>1. 4 \in 1..4 /\ \A h \in 1..(4 - 1) : h = 1 \/ h = 2 \/ h = 3
    OBVIOUS
  <2> QED BY <1>2, <1>3, <1>4, <2>1 DEF FirstDraw
<1>9. PICK u : u = s \o v /\ IsSequence(u)
  BY ThenSequence
<1>10. Without(u, "y") /\ Without(u, "z") /\ Without(u, "x")
  <2>1. Without(s \o v, "y") /\ Without(s \o v, "z") /\ Without(s \o v, "x")
    BY WithoutThen
  <2> QED BY <1>9, <2>1
<1>11. t = u \o r
  BY <1>1, <1>9
<1>12. IsSequence(u \o r)
  BY <1>2, <1>9, ThenSequence
<1>13. FirstDraw(u \o r, "y", y) /\ FirstDraw(u \o r, "z", z)
  BY <1>2, <1>7, <1>8, <1>9, <1>10, FirstDrawThen
<1>14. Without(u \o r, "x")
  BY <1>2, <1>6, <1>9, <1>10, WithoutThen
<1> QED BY <1>11, <1>12, <1>13, <1>14

\* The transcript t is s, the points of a round and its challenge.
PolysThen(t, s, a, b, x) == t = s \o <<<<"T_1", a>>, <<"T_2", b>>, <<"x", x>>>>

\* So is what it draws for the polynomials, and that leaves the others the first ones.
LEMMA PolyChallengeDrawn ==
  ASSUME NEW s, IsSequence(s), NEW y, FirstDraw(s, "y", y), NEW z, FirstDraw(s, "z", z),
         Without(s, "x"), NEW a, NEW b, NEW x, NEW t, PolysThen(t, s, a, b, x)
  PROVE  IsSequence(t) /\ FirstDraw(t, "y", y) /\ FirstDraw(t, "z", z) /\ FirstDraw(t, "x", x)
<1>1. PICK r : r = <<<<"T_1", a>>, <<"T_2", b>>, <<"x", x>>>>
  OBVIOUS
<1>2. IsSequence(r) /\ Len(r) = 3
  BY <1>1, ShortSequences
<1>3. r[1][1] = "T_1" /\ r[2][1] = "T_2" /\ r[3] = <<"x", x>>
  BY <1>1
<1>4. FirstDraw(r, "x", x)
  <2>1. 3 \in 1..3 /\ \A h \in 1..(3 - 1) : h = 1 \/ h = 2
    OBVIOUS
  <2> QED BY <1>2, <1>3, <2>1 DEF FirstDraw
<1>5. IsSequence(s \o r)
  BY <1>2, ThenSequence
<1>6. FirstDraw(s \o r, "y", y) /\ FirstDraw(s \o r, "z", z)
  BY <1>2, FirstDrawStays
<1>7. FirstDraw(s \o r, "x", x)
  BY <1>2, <1>4, FirstDrawThen
<1> QED BY <1>1, <1>5, <1>6, <1>7 DEF PolysThen

-----------------------------------------------------------------------------
(* What the parties sent and the dealer holds.                             *)

\* The dealer collects messages; it has drawn the challenges of the first round.
Collecting == dealer \in {"awaiting_bit_commitments", "awaiting_poly_commitments",
                          "awaiting_proof_shares"}

Challenged == dealer \in {"awaiting_poly_commitments", "awaiting_proof_shares"}

\* The challenges of a session are in its transcript, and those to come are not.
ChallengesInPlace ==
    /\ Collecting => IsSequence(transcript)
    /\ dealer = "awaiting_bit_commitments" =>
           Without(transcript, "y") /\ Without(transcript, "z") /\ Without(transcript, "x")
    /\ Challenged => /\ \E c \in Scalar \ {0} : FirstDraw(transcript, "y", c)
                     /\ \E c \in Scalar \ {0} : FirstDraw(transcript, "z", c)
    /\ dealer = "awaiting_poly_commitments" => Without(transcript, "x")
    /\ dealer = "awaiting_proof_shares" => \E c \in Scalar : FirstDraw(transcript, "x", c)

\* What the party at position j sends in each round of this session.
Bits(j) == SentBits(j, Value(j), n, Fault(j))

Polys(j) == SentPolys(j, Value(j), n, Drawn("y"), Drawn("z"), Fault(j))

Share(j) == SentShare(j, Value(j), n, Drawn("y"), Drawn("z"), Drawn("x"), Fault(j))

\* The last message of a party is of a round the dealer has reached, and is what
\* its value and its fault make of the challenges.
Message(j) ==
    \/ sent[j].of = "nothing"
    \/ sent[j].of = "bits" /\ Collecting /\ sent[j].m = Bits(j)
    \/ sent[j].of = "polys" /\ Challenged /\ sent[j].m = Polys(j)
    \/ sent[j].of = "shares" /\ dealer = "awaiting_proof_shares"
           /\ Drawn("x") # 0 /\ sent[j].m = Share(j)

MessagesInPlace ==
    /\ DOMAIN sent = Positions
    /\ dealer # "done" => \A j \in Positions : Message(j)

\* The dealer holds at each position the message of that party, if the messages
\* came in order.
HeldInPlace ==
    /\ DOMAIN received = {"bits", "polys", "shares"}
    /\ Challenged /\ InOrder(session.bits) =>
           \A j \in Positions : received.bits[j + 1] = Bits(j)
    /\ dealer = "awaiting_proof_shares" /\ InOrder(session.polys) =>
           \A j \in Positions : received.polys[j + 1] = Polys(j)

\* The inductive invariant of the audit.
InPlace ==
    /\ session \in Sessions
    /\ Collecting => DealerRefuses(n, m) = "none"
    /\ dealer \in {"new", "done"} \/ Collecting
    /\ dealer # "done" => result.kind # "error"
    /\ ChallengesInPlace
    /\ MessagesInPlace
    /\ HeldInPlace
    /\ AuditNamesTheDeviants

-----------------------------------------------------------------------------
(* The steps of a session whose messages may be audited.                   *)

\* The sizes and the parties of a session.
LEMMA PartiesOfSession ==
  ASSUME session \in Sessions
  PROVE  /\ n \in Nat /\ m \in Nat
         /\ \A j \in Positions :
                /\ j \in Nat /\ j + 1 \in 1..m
                /\ Value(j) \in Nat /\ Value(j) < Order /\ Fault(j) \in Faults
                /\ Fault(j) = "T_1_j" => Value(j) < 2^n
         /\ session.bits \in Seq(Nat) /\ session.polys \in Seq(Nat) /\ session.shares \in Seq(Nat)
<1>1. /\ session.n \in Nat /\ session.values \in Seq(Nat) /\ session.faults \in Seq(Faults)
      /\ session.bits \in Seq(Nat) /\ session.polys \in Seq(Nat) /\ session.shares \in Seq(Nat)
      /\ Len(session.faults) = Len(session.values)
  BY SessionsAssumption DEF Session
<1>2. n \in Nat /\ m \in Nat
  BY <1>1 DEF n, m
<1>3. ASSUME NEW j \in Positions
      PROVE  /\ j \in Nat /\ j + 1 \in 1..m
             /\ Value(j) \in Nat /\ Value(j) < Order /\ Fault(j) \in Faults
             /\ Fault(j) = "T_1_j" => Value(j) < 2^n
  <2>1. j \in Nat /\ j + 1 \in 1..m
    BY <1>2 DEF Positions
  <2>2. PICK i \in 1..m : i = j + 1
    BY <2>1
  <2>3. i \in 1..Len(session.values) /\ i \in DOMAIN session.values /\ i \in 1..Len(session.faults)
    BY <1>1, <1>2, <2>2 DEF m
  <2>4. session.values[i] \in Nat /\ session.faults[i] \in Faults
    BY <1>1, <2>3
  <2>5. /\ session.values[i] < Order
        /\ session.faults[i] = "T_1_j" => session.values[i] < 2^session.n
    BY <2>3, ValuesAssumption, OneDeviationAssumption
  <2> QED BY <2>1, <2>2, <2>4, <2>5 DEF Value, Fault, n
<1> QED BY <1>1, <1>2, <1>3

\* What the dealer has not refused, the generators are enough for.
LEMMA SizedInSession ==
  ASSUME session \in Sessions, DealerRefuses(n, m) = "none", NEW j \in Positions
  PROVE  Sized(j, n)
<1>1. n \in Nat /\ m \in Nat /\ j \in Nat /\ j < m
  BY PartiesOfSession DEF Positions
<1>2. n \in BitSizes /\ ~(GensCapacity < n) /\ ~(PartyCapacity < m)
  BY DEF DealerRefuses, SizesRefused
<1>3. n \in Nat \ {0}
  BY <1>2, BitSizesAssumption
<1> QED BY <1>1, <1>2, <1>3, CapacityAssumption DEF Sized

\* A share has the right size unless the party cut it short.
LEMMA ShareSizes ==
  ASSUME NEW j, NEW bits, Sized(j, bits), NEW v \in Nat,
         NEW y \in Scalar \ {0}, NEW z \in Scalar \ {0}, NEW x \in Scalar,
         NEW fault \in Faults
  PROVE  SizeIsRight(SentShare(j, v, bits, y, z, x, fault), bits, j) <=> fault # "short"
<1>1. bits \in Nat \ {0} /\ bits <= GensCapacity /\ j < PartyCapacity
  BY CapacityAssumption DEF Sized
<1>2. PICK p : p = Polynomials(j, v, bits, y, z)
  OBVIOUS
<1>3. PICK s : s = ProofShare(j, p, bits, x)
  OBVIOUS
<1>4. \E la, ra, rb : IsShare(s, j, bits, v, y, z, x, ra, rb, p.t)
  BY <1>2, <1>3, ShareIs
<1>5. PICK l \in Vec(bits), r \in Vec(bits) : l = s.l_vec /\ r = s.r_vec
  BY <1>4 DEF IsShare
<1>6. PICK k : k = SentShare(j, v, bits, y, z, x, fault)
  OBVIOUS
<1>7. /\ k.l_vec = IF fault = "l_vec" THEN [l EXCEPT ![1] = @ ++ 1]
                   ELSE IF fault = "short" THEN Tail(l) ELSE l
      /\ k.r_vec = IF fault = "r_vec" THEN [r EXCEPT ![1] = @ ++ 1] ELSE r
  <2>1. k = Skewed(s, fault)
    BY <1>2, <1>3, <1>6 DEF SentShare
  <2>2. s = [t_x |-> s.t_x, t_x_blinding |-> s.t_x_blinding, e_blinding |-> s.e_blinding,
             l_vec |-> l, r_vec |-> r]
    BY <1>3, <1>5 DEF ProofShare
  <2> QED BY <2>1, <2>2, SkewedIs
<1>8. Len(l) = bits /\ Len(r) = bits /\ l \in Seq(Scalar)
  BY <1>1 DEF Vec
<1>9. Len([l EXCEPT ![1] = @ ++ 1]) = bits /\ Len([r EXCEPT ![1] = @ ++ 1]) = bits
  <2>1. PICK f : f = [l EXCEPT ![1] = @ ++ 1]
    OBVIOUS
  <2>2. PICK h : h = [r EXCEPT ![1] = @ ++ 1]
    OBVIOUS
  <2>3. f \in Vec(bits)
    BY <1>1, <2>1, EntryPlusOne
  <2>4. h \in Vec(bits)
    BY <1>1, <2>2, EntryPlusOne
  <2>5. Len(f) = bits /\ Len(h) = bits
    BY <1>1, <2>3, <2>4 DEF Vec
  <2> QED BY <2>1, <2>2, <2>5
<1>10. Len(Tail(l)) = bits - 1
  <2>1. l # <<>>
    BY <1>1, <1>8
  <2> QED BY <1>1, <1>8, <2>1
<1>11. Len(k.r_vec) = bits /\ (Len(k.l_vec) = bits <=> fault # "short")
  BY <1>1, <1>7, <1>8, <1>9, <1>10
<1> QED BY <1>1, <1>6, <1>11 DEF SizeIsRight

LEMMA InitInPlace == Init => InPlace
<1> SUFFICES ASSUME Init PROVE InPlace
  OBVIOUS
<1>1. /\ session \in Sessions /\ dealer = "new" /\ result.kind = "none"
      /\ DOMAIN sent = Positions /\ \A j \in Positions : sent[j].of = "nothing"
      /\ DOMAIN received = {"bits", "polys", "shares"}
  BY DEF Init, NoResult
<1>2. ~Collecting /\ ~Challenged
  BY <1>1 DEF Collecting, Challenged
<1> QED BY <1>1, <1>2 DEF InPlace, ChallengesInPlace, MessagesInPlace, HeldInPlace, Message,
                         AuditNamesTheDeviants

\* When the dealer is done, the invariant is what it says of the result.
LEMMA DoneInPlace ==
  ASSUME InPlace, UNCHANGED session, dealer' = "done", DOMAIN sent' = DOMAIN sent,
         DOMAIN received' = DOMAIN received, AuditNamesTheDeviants'
  PROVE  InPlace'
<1>1. ~Collecting' /\ ~Challenged'
  BY DEF Collecting, Challenged
<1>2. Positions' = Positions /\ DOMAIN sent = Positions
  BY DEF InPlace, MessagesInPlace, Positions, m
<1> QED BY <1>1, <1>2 DEF InPlace, ChallengesInPlace, MessagesInPlace, HeldInPlace

\* An error that is not about the shares names nobody.
LEMMA OtherErrors ==
  ASSUME InPlace, UNCHANGED <<session, sent, received>>, NEW e, e # "MalformedProofShares",
         Fail(Err(e))
  PROVE  InPlace'
<1>1. dealer' = "done" /\ result'.error = e
  BY DEF Fail, Err
<1>2. AuditNamesTheDeviants'
  BY <1>1 DEF AuditNamesTheDeviants
<1> QED BY <1>1, <1>2, DoneInPlace

\* While the dealer collects, there is no error.
LEMMA NoErrorYet ==
  ASSUME result'.kind # "error"
  PROVE  AuditNamesTheDeviants'
BY DEF AuditNamesTheDeviants

\* The challenges are read off the transcript.
LEMMA DrawnAre ==
  ASSUME ChallengesInPlace, Challenged
  PROVE  /\ Drawn("y") \in Scalar \ {0} /\ Drawn("z") \in Scalar \ {0}
         /\ FirstDraw(transcript, "y", Drawn("y")) /\ FirstDraw(transcript, "z", Drawn("z"))
         /\ dealer = "awaiting_proof_shares" => Drawn("x") \in Scalar
<1>1. IsSequence(transcript)
  BY DEF ChallengesInPlace, Challenged, Collecting
<1>2. PICK y \in Scalar \ {0} : FirstDraw(transcript, "y", y)
  BY DEF ChallengesInPlace
<1>3. PICK z \in Scalar \ {0} : FirstDraw(transcript, "z", z)
  BY DEF ChallengesInPlace
<1>4. Drawn("y") = y /\ Drawn("z") = z
  BY <1>1, <1>2, <1>3, FirstDrawn DEF Drawn
<1>5. ASSUME dealer = "awaiting_proof_shares" PROVE Drawn("x") \in Scalar
  <2>1. PICK x \in Scalar : FirstDraw(transcript, "x", x)
    BY <1>5 DEF ChallengesInPlace
  <2>2. Drawn("x") = x
    BY <1>1, <2>1, FirstDrawn DEF Drawn
  <2> QED BY <2>2
<1> QED BY <1>2, <1>3, <1>4, <1>5

\* The dealer is made.
LEMMA DealerNewInPlace ==
  ASSUME InPlace, DealerNew
  PROVE  InPlace'
<1>1. dealer = "new" /\ UNCHANGED <<session, sent, received>>
  BY DEF DealerNew
<1>2. CASE DealerRefuses(n, m) # "none"
  <2>1. PICK e : e = DealerRefuses(n, m)
    OBVIOUS
  <2>2. e # "MalformedProofShares"
    BY <2>1 DEF DealerRefuses, SizesRefused
  <2>3. Fail(Err(e))
    BY <1>2, <2>1 DEF DealerNew
  <2> QED BY <1>1, <2>2, <2>3, OtherErrors
<1>3. CASE DealerRefuses(n, m) = "none"
  <2>1. /\ dealer' = "awaiting_bit_commitments" /\ UNCHANGED result
        /\ transcript' = rangeproof_domain_sep(<<>>, n, m)
    BY <1>3 DEF DealerNew
  <2>2. Collecting' /\ ~Challenged' /\ n' = n /\ m' = m /\ Positions' = Positions
    BY <1>1, <2>1 DEF Collecting, Challenged, n, m, Positions
  <2>3. IsSequence(transcript') /\ Without(transcript', "y") /\ Without(transcript', "z")
        /\ Without(transcript', "x")
    BY <2>1, OpenedTranscript
  <2>4. ChallengesInPlace'
    BY <2>1, <2>2, <2>3 DEF ChallengesInPlace
  <2>5. ~Collecting /\ ~Challenged /\ dealer # "done"
    BY <1>1 DEF Collecting, Challenged
  <2>6. \A j \in Positions : sent'[j].of = "nothing"
    BY <1>1, <2>5 DEF InPlace, MessagesInPlace, Message
  <2>7. MessagesInPlace'
    <3>1. DOMAIN sent' = Positions'
      BY <1>1, <2>2 DEF InPlace, MessagesInPlace
    <3>2. \A j \in Positions' : Message(j)'
      BY <2>2, <2>6 DEF Message
    <3> QED BY <3>1, <3>2 DEF MessagesInPlace
  <2>8. HeldInPlace'
    BY <1>1, <2>1, <2>2 DEF InPlace, HeldInPlace
  <2>9. result'.kind # "error"
    BY <2>1, <2>5 DEF InPlace
  <2>10. (session \in Sessions)' /\ (DealerRefuses(n, m) = "none")'
    BY <1>1, <1>3, <2>2 DEF InPlace
  <2> QED BY <2>1, <2>2, <2>4, <2>7, <2>8, <2>9, <2>10, NoErrorYet DEF InPlace
<1> QED BY <1>2, <1>3

\* A party's call changes what it has sent, and nothing else of the invariant.
LEMMA PartySends ==
  ASSUME InPlace, NEW j \in Positions, NEW f, sent' = [sent EXCEPT ![j] = f],
         UNCHANGED <<session, dealer, received, transcript, result>>, dealer # "done",
         \/ f.of = "bits" /\ Collecting /\ f.m = Bits(j)
         \/ f.of = "polys" /\ Challenged /\ f.m = Polys(j)
         \/ f.of = "shares" /\ dealer = "awaiting_proof_shares"
                /\ Drawn("x") # 0 /\ f.m = Share(j)
  PROVE  InPlace'
<1>1. /\ Collecting' = Collecting /\ Challenged' = Challenged /\ n' = n /\ m' = m
      /\ Positions' = Positions
  BY DEF Collecting, Challenged, n, m, Positions
<1>2. /\ \A label : Drawn(label)' = Drawn(label)
      /\ \A i : /\ Bits(i)' = Bits(i) /\ Polys(i)' = Polys(i) /\ Share(i)' = Share(i)
  BY DEF Drawn, Bits, Polys, Share, Value, Fault, n
<1>3. ChallengesInPlace'
  BY <1>1 DEF InPlace, ChallengesInPlace
<1>4. DOMAIN sent = Positions /\ \A i \in Positions : Message(i)
  BY DEF InPlace, MessagesInPlace
<1>5. ASSUME NEW i \in Positions PROVE Message(i)'
  <2>1. CASE i = j
    <3>1. sent'[i] = f
      BY <1>4, <2>1
    <3> QED BY <1>1, <1>2, <2>1, <3>1 DEF Message
  <2>2. CASE i # j
    <3>1. sent'[i] = sent[i]
      BY <1>4, <2>2
    <3> QED BY <1>1, <1>2, <1>4, <3>1 DEF Message
  <2> QED BY <2>1, <2>2
<1>6. MessagesInPlace'
  BY <1>1, <1>4, <1>5 DEF MessagesInPlace
<1>7. HeldInPlace'
  BY <1>1, <1>2 DEF InPlace, HeldInPlace, InOrder, m
<1>8. AuditNamesTheDeviants'
  BY NoErrorYet DEF InPlace
<1>9. (session \in Sessions)' /\ (Collecting => DealerRefuses(n, m) = "none")'
      /\ (dealer \in {"new", "done"} \/ Collecting)' /\ (dealer # "done" => result.kind # "error")'
  BY <1>1 DEF InPlace
<1> QED BY <1>3, <1>6, <1>7, <1>8, <1>9 DEF InPlace

\* The three calls of a party.
LEMMA AssignInPlace ==
  ASSUME InPlace, NEW j \in Positions, AssignPosition(j)
  PROVE  InPlace'
<1>1. /\ dealer = "awaiting_bit_commitments"
      /\ UNCHANGED <<session, dealer, received, transcript, result>>
  BY DEF AssignPosition
<1>2. PICK f : /\ f = [of |-> "bits", m |-> Bits(j)]
               /\ sent' = [sent EXCEPT ![j] = f]
  BY DEF AssignPosition, Bits, SentBits
<1>3. f.of = "bits" /\ f.m = Bits(j) /\ Collecting
  BY <1>1, <1>2 DEF Collecting
<1> QED BY <1>1, <1>2, <1>3, PartySends

LEMMA BitChallengeInPlace ==
  ASSUME InPlace, NEW j \in Positions, ApplyBitChallenge(j)
  PROVE  InPlace'
<1>1. /\ dealer = "awaiting_poly_commitments"
      /\ UNCHANGED <<session, dealer, received, transcript, result>>
  BY DEF ApplyBitChallenge
<1>2. PICK f : /\ f = [of |-> "polys", m |-> Polys(j)]
               /\ sent' = [sent EXCEPT ![j] = f]
  BY DEF ApplyBitChallenge, Polys, SentPolys
<1>3. f.of = "polys" /\ f.m = Polys(j) /\ Challenged
  BY <1>1, <1>2 DEF Challenged
<1> QED BY <1>1, <1>2, <1>3, PartySends

LEMMA PolyChallengeInPlace ==
  ASSUME InPlace, NEW j \in Positions, ApplyPolyChallenge(j)
  PROVE  InPlace'
<1>1. /\ dealer = "awaiting_proof_shares"
      /\ UNCHANGED <<session, received, transcript>>
  BY DEF ApplyPolyChallenge
<1>2. CASE Drawn("x") = 0
  <2>1. Fail(Err("MaliciousDealer")) /\ UNCHANGED sent
    BY <1>2 DEF ApplyPolyChallenge
  <2> QED BY <1>1, <2>1, OtherErrors
<1>3. CASE Drawn("x") # 0
  <2>1. PICK f : /\ f = [of |-> "shares", m |-> Share(j)]
                 /\ sent' = [sent EXCEPT ![j] = f]
    BY <1>3 DEF ApplyPolyChallenge, Share, SentShare
  <2>2. f.of = "shares" /\ f.m = Share(j) /\ dealer # "done"
    BY <1>1, <2>1
  <2>3. UNCHANGED <<dealer, result>>
    BY <1>3 DEF ApplyPolyChallenge
  <2> QED BY <1>1, <1>3, <2>1, <2>2, <2>3, PartySends
<1> QED BY <1>2, <1>3

\* Messages handed over in order are at the positions of the parties that sent them.
LEMMA HandedInOrder ==
  ASSUME InPlace, NEW order, InOrder(order), NEW round, Collected(order, round),
         NEW j \in Positions
  PROVE  sent[j].of = round /\ Handed(order)[j + 1] = sent[j].m
<1>1. m \in Nat /\ j \in Nat /\ j + 1 \in 1..m
  BY PartiesOfSession DEF InPlace
<1>2. PICK i \in 1..m : i = j + 1
  BY <1>1
<1>3. DOMAIN order = 1..m /\ order[i] = j
  <2>1. DOMAIN order = 1..m /\ order[i] = i - 1
    BY DEF InOrder
  <2> QED BY <1>1, <1>2, <2>1
<1>4. sent[order[i]].of = round
  BY <1>3 DEF Collected
<1>5. Handed(order)[i] = sent[order[i]].m
  BY <1>3 DEF Handed
<1> QED BY <1>2, <1>3, <1>4, <1>5

\* The first round.
LEMMA BitsInPlace ==
  ASSUME InPlace, NEW y \in Yields("y"), NEW z \in Yields("z"), ReceiveBitCommitments(y, z)
  PROVE  InPlace'
<1>1. /\ dealer = "awaiting_bit_commitments" /\ UNCHANGED <<session, sent>>
      /\ Collected(session.bits, "bits")
  BY DEF ReceiveBitCommitments
<1>2. CASE Len(session.bits) # m
  <2>1. Fail(Err("WrongNumBitCommitments")) /\ UNCHANGED received
    BY <1>2 DEF ReceiveBitCommitments
  <2> QED BY <1>1, <2>1, OtherErrors
<1>3. CASE Len(session.bits) = m
  <2>1. PICK vc, a, b, v :
            /\ vc = Handed(session.bits)
            /\ received' = [received EXCEPT !.bits = vc]
            /\ v = [k \in 1..m |-> <<"V", vc[k].V_j>>]
            /\ transcript' = transcript \o v
                                 \o <<<<"A", a>>, <<"S", b>>, <<"y", y>>, <<"z", z>>>>
            /\ dealer' = "awaiting_poly_commitments" /\ UNCHANGED result
    BY <1>3 DEF ReceiveBitCommitments
  <2>2. /\ Collecting /\ Collecting' /\ Challenged' /\ n' = n /\ m' = m
        /\ Positions' = Positions /\ m \in Nat
    BY <1>1, <2>1, PartiesOfSession DEF Collecting, Challenged, n, m, Positions, InPlace
  <2>3. IsSequence(transcript) /\ Without(transcript, "y") /\ Without(transcript, "z")
        /\ Without(transcript, "x")
    BY <1>1, <2>2 DEF InPlace, ChallengesInPlace
  <2>4. IsSequence(v) /\ Without(v, "y") /\ Without(v, "z") /\ Without(v, "x")
    <3>1. PICK l \in Nat : l = m
      BY <2>2
    <3>2. v \in Seq({<<"V", vc[k].V_j>> : k \in 1..l}) /\ Len(v) = l
      <4>1. PICK V : V = {<<"V", vc[k].V_j>> : k \in 1..l}
        OBVIOUS
      <4>2. \A k \in 1..l : <<"V", vc[k].V_j>> \in V
        BY <4>1
      <4>3. v = [k \in 1..l |-> <<"V", vc[k].V_j>>]
        BY <2>1, <3>1
      <4>4. v \in [1..l -> V]
        BY <4>2, <4>3
      <4>5. v \in Seq(V) /\ Len(v) = l
        BY <4>4
      <4> QED BY <4>1, <4>5
    <3>3. \A i \in 1..l : v[i][1] = "V"
      BY <2>1, <3>1
    <3> QED BY <3>2, <3>3 DEF IsSequence, Without
  <2>5. /\ IsSequence(transcript') /\ Without(transcript', "x")
        /\ FirstDraw(transcript', "y", y) /\ FirstDraw(transcript', "z", z)
    <3>1. PICK s, t : s = transcript /\ t = transcript'
      OBVIOUS
    <3>2. t = s \o v \o <<<<"A", a>>, <<"S", b>>, <<"y", y>>, <<"z", z>>>>
      BY <2>1, <3>1
    <3>3. IsSequence(t) /\ FirstDraw(t, "y", y) /\ FirstDraw(t, "z", z) /\ Without(t, "x")
      BY <2>3, <2>4, <3>1, <3>2, BitChallenges
    <3> QED BY <3>1, <3>3
  <2>6. y \in Scalar \ {0} /\ z \in Scalar \ {0}
    BY YieldsAssumption
  <2>7. ChallengesInPlace'
    BY <2>1, <2>2, <2>5, <2>6 DEF ChallengesInPlace
  <2>8. DOMAIN sent = Positions /\ \A j \in Positions : Message(j)
    BY <1>1 DEF InPlace, MessagesInPlace
  <2>9. \A j : Bits(j)' = Bits(j)
    BY <1>1, <2>2 DEF Bits, Value, Fault
  <2>10. MessagesInPlace'
    <3>1. \A j \in Positions : Message(j)'
      <4> TAKE j \in Positions
      <4>1. sent[j].of = "nothing" \/ (sent[j].of = "bits" /\ sent[j].m = Bits(j))
        BY <1>1, <2>8 DEF Message, Challenged
      <4> QED BY <1>1, <2>2, <2>9, <4>1 DEF Message
    <3> QED BY <1>1, <2>2, <2>8, <3>1 DEF MessagesInPlace
  <2>11. HeldInPlace'
    <3>1. DOMAIN received' = {"bits", "polys", "shares"} /\ received'.bits = vc
      BY <2>1 DEF InPlace, HeldInPlace
    <3>2. ASSUME InOrder(session.bits), NEW j \in Positions PROVE vc[j + 1] = Bits(j)
      <4>1. sent[j].of = "bits" /\ vc[j + 1] = sent[j].m
        BY <1>1, <2>1, <3>2, HandedInOrder
      <4> QED BY <2>8, <4>1 DEF Message
    <3>3. InOrder(session.bits)' => InOrder(session.bits)
      BY <1>1, <2>2 DEF InOrder
    <3>4. InOrder(session.bits)' => \A j \in Positions' : received'.bits[j + 1] = Bits(j)'
      BY <2>2, <2>9, <3>1, <3>2, <3>3
    <3>5. dealer' # "awaiting_proof_shares"
      BY <2>1
    <3> QED BY <3>1, <3>4, <3>5 DEF HeldInPlace
  <2>12. AuditNamesTheDeviants' /\ (dealer # "done" => result.kind # "error")'
    BY <1>1, <2>1, NoErrorYet DEF InPlace
  <2>13. (session \in Sessions)' /\ (DealerRefuses(n, m) = "none")'
    BY <1>1, <2>2 DEF InPlace
  <2> QED BY <2>2, <2>7, <2>10, <2>11, <2>12, <2>13 DEF InPlace
<1> QED BY <1>2, <1>3

\* The second round.
LEMMA PolysInPlace ==
  ASSUME InPlace, NEW x \in Yields("x"), ReceivePolyCommitments(x)
  PROVE  InPlace'
<1>1. /\ dealer = "awaiting_poly_commitments" /\ UNCHANGED <<session, sent>>
      /\ Collected(session.polys, "polys")
  BY DEF ReceivePolyCommitments
<1>2. CASE Len(session.polys) # m
  <2>1. Fail(Err("WrongNumPolyCommitments")) /\ UNCHANGED received
    BY <1>2 DEF ReceivePolyCommitments
  <2> QED BY <1>1, <2>1, OtherErrors
<1>3. CASE Len(session.polys) = m
  <2>1. PICK pc, a, b :
            /\ pc = Handed(session.polys)
            /\ received' = [received EXCEPT !.polys = pc]
            /\ transcript' = transcript \o <<<<"T_1", a>>, <<"T_2", b>>, <<"x", x>>>>
            /\ dealer' = "awaiting_proof_shares" /\ UNCHANGED result
    BY <1>3 DEF ReceivePolyCommitments
  <2>2. /\ Collecting /\ Challenged /\ Collecting' /\ Challenged' /\ n' = n /\ m' = m
        /\ Positions' = Positions
    BY <1>1, <2>1 DEF Collecting, Challenged, n, m, Positions
  <2>3. /\ Drawn("y") \in Scalar \ {0} /\ Drawn("z") \in Scalar \ {0}
        /\ FirstDraw(transcript, "y", Drawn("y")) /\ FirstDraw(transcript, "z", Drawn("z"))
        /\ IsSequence(transcript) /\ Without(transcript, "x")
    BY <1>1, <2>2, DrawnAre DEF InPlace, ChallengesInPlace
  <2>4. PICK y \in Scalar \ {0}, z \in Scalar \ {0} : y = Drawn("y") /\ z = Drawn("z")
    BY <2>3
  <2>5. /\ IsSequence(transcript') /\ FirstDraw(transcript', "x", x)
        /\ FirstDraw(transcript', "y", y) /\ FirstDraw(transcript', "z", z)
    <3>1. PICK s, t : s = transcript /\ t = transcript'
      OBVIOUS
    <3>2. PolysThen(t, s, a, b, x)
      BY <2>1, <3>1 DEF PolysThen
    <3>3. FirstDraw(s, "y", y) /\ FirstDraw(s, "z", z) /\ Without(s, "x") /\ IsSequence(s)
      BY <2>3, <2>4, <3>1
    <3>4. IsSequence(t) /\ FirstDraw(t, "y", y) /\ FirstDraw(t, "z", z) /\ FirstDraw(t, "x", x)
      BY <3>2, <3>3, PolyChallengeDrawn
    <3> QED BY <3>1, <3>4
  <2>6. x \in Scalar
    BY YieldsAssumption
  <2>7. ChallengesInPlace'
    BY <2>1, <2>2, <2>4, <2>5, <2>6 DEF ChallengesInPlace
  <2>8. Drawn("y")' = Drawn("y") /\ Drawn("z")' = Drawn("z")
    BY <2>4, <2>5, FirstDrawn DEF Drawn
  <2>9. \A j : Bits(j)' = Bits(j) /\ Polys(j)' = Polys(j)
    BY <1>1, <2>2, <2>8 DEF Bits, Polys, Value, Fault
  <2>10. DOMAIN sent = Positions /\ \A j \in Positions : Message(j)
    BY <1>1 DEF InPlace, MessagesInPlace
  <2>11. MessagesInPlace'
    <3>1. \A j \in Positions : Message(j)'
      <4> TAKE j \in Positions
      <4>1. \/ sent[j].of = "nothing"
            \/ sent[j].of = "bits" /\ sent[j].m = Bits(j)
            \/ sent[j].of = "polys" /\ sent[j].m = Polys(j)
        BY <1>1, <2>10 DEF Message
      <4> QED BY <1>1, <2>2, <2>9, <4>1 DEF Message
    <3> QED BY <1>1, <2>2, <2>10, <3>1 DEF MessagesInPlace
  <2>12. HeldInPlace'
    <3>1. /\ DOMAIN received' = {"bits", "polys", "shares"} /\ received'.polys = pc
          /\ received'.bits = received.bits
      BY <2>1 DEF InPlace, HeldInPlace
    <3>2. ASSUME InOrder(session.polys), NEW j \in Positions PROVE pc[j + 1] = Polys(j)
      <4>1. sent[j].of = "polys" /\ pc[j + 1] = sent[j].m
        BY <1>1, <2>1, <3>2, HandedInOrder
      <4> QED BY <2>10, <4>1 DEF Message
    <3>3. /\ InOrder(session.polys)' => InOrder(session.polys)
          /\ InOrder(session.bits)' => InOrder(session.bits)
      BY <1>1, <2>2 DEF InOrder
    <3>4. InOrder(session.polys)' => \A j \in Positions' : received'.polys[j + 1] = Polys(j)'
      BY <2>2, <2>9, <3>1, <3>2, <3>3
    <3>5. InOrder(session.bits)' => \A j \in Positions' : received'.bits[j + 1] = Bits(j)'
      BY <2>2, <2>9, <3>1, <3>3 DEF InPlace, HeldInPlace
    <3> QED BY <3>1, <3>4, <3>5 DEF HeldInPlace
  <2>13. AuditNamesTheDeviants' /\ (dealer # "done" => result.kind # "error")'
    BY <1>1, <2>1, NoErrorYet DEF InPlace
  <2>14. (session \in Sessions)' /\ (DealerRefuses(n, m) = "none")'
    BY <1>1, <2>2 DEF InPlace
  <2> QED BY <2>2, <2>7, <2>11, <2>12, <2>13, <2>14 DEF InPlace
<1> QED BY <1>2, <1>3

\* The last round: the positions audited to deviate are the deviants'.
LEMMA SharesInPlace ==
  ASSUME InPlace, NEW w, NEW us, ReceiveShares(w, us)
  PROVE  InPlace'
<1>1. /\ dealer = "awaiting_proof_shares" /\ dealer' = "done" /\ UNCHANGED <<session, sent>>
      /\ Collected(session.shares, "shares")
  BY DEF ReceiveShares
<1>2. Collecting /\ Challenged /\ session \in Sessions /\ DealerRefuses(n, m) = "none"
  BY <1>1 DEF Collecting, Challenged, InPlace
<1>3. /\ Drawn("y") \in Scalar \ {0} /\ Drawn("z") \in Scalar \ {0} /\ Drawn("x") \in Scalar
  BY <1>1, <1>2, DrawnAre DEF InPlace
<1>4. PICK shares : shares = Handed(session.shares)
  OBVIOUS
<1>5. PICK malformed : malformed = {j \in Positions : ~SizeIsRight(shares[j + 1], n, j)}
  OBVIOUS
<1>6. PICK failing : failing = {j \in Positions :
                          ~AuditPasses(shares[j + 1], j, received.bits[j + 1],
                                       received.polys[j + 1],
                                       Drawn("y"), Drawn("z"), Drawn("x"))}
  OBVIOUS
<1>7. DOMAIN received' = DOMAIN received
      /\ \/ result' = Err("WrongNumProofShares")
         \/ malformed # {} /\ result' = Malformed(malformed)
         \/ malformed = {} /\ result'.kind = "proof"
         \/ malformed = {} /\ result' = Malformed(failing)
  <2>1. PICK a : a = Assembled(shares, w, us)
    OBVIOUS
  <2>2. IF Len(session.shares) # m
        THEN result' = Err("WrongNumProofShares") /\ UNCHANGED received
        ELSE IF malformed # {}
        THEN result' = Malformed(malformed) /\ UNCHANGED received
        ELSE /\ received' = [received EXCEPT !.shares = shares]
             /\ result' = IF Accepts(a) THEN [kind |-> "proof", proof |-> a.proof]
                          ELSE Malformed(failing)
    BY <1>4, <1>5, <1>6, <2>1 DEF ReceiveShares
  <2> QED BY <2>2
<1>8. ASSUME Orderly, NEW j \in Positions
      PROVE  /\ j \in malformed <=> Fault(j) = "short"
             /\ Fault(j) # "short" => (j \in failing <=> j \in Deviants)
  <2>1. sent[j].of = "shares" /\ shares[j + 1] = sent[j].m
    BY <1>1, <1>4, <1>8, HandedInOrder DEF Orderly
  <2>2. Drawn("x") # 0 /\ shares[j + 1] = Share(j)
    BY <1>1, <2>1 DEF InPlace, MessagesInPlace, Message
  <2>3. received.bits[j + 1] = Bits(j) /\ received.polys[j + 1] = Polys(j)
    BY <1>1, <1>2, <1>8 DEF InPlace, HeldInPlace, Orderly
  <2>4. PICK y \in Scalar \ {0}, z \in Scalar \ {0}, x \in Scalar \ {0} :
            y = Drawn("y") /\ z = Drawn("z") /\ x = Drawn("x")
    BY <1>3, <2>2
  <2>5. PICK v \in Nat, fault \in Faults : /\ v = Value(j) /\ fault = Fault(j) /\ v < Order
                                           /\ fault = "T_1_j" => v < 2^n
    BY <1>2, PartiesOfSession
  <2>6. PICK bits : bits = n /\ Sized(j, bits)
    BY <1>2, SizedInSession
  <2>7. /\ Share(j) = SentShare(j, v, bits, y, z, x, fault)
        /\ Bits(j) = SentBits(j, v, bits, fault)
        /\ Polys(j) = SentPolys(j, v, bits, y, z, fault)
    BY <2>4, <2>5, <2>6 DEF Share, Bits, Polys
  <2>8. j \in malformed <=> fault = "short"
    <3>1. SizeIsRight(SentShare(j, v, bits, y, z, x, fault), bits, j) <=> fault # "short"
      BY <2>6, ShareSizes
    <3> QED BY <1>5, <2>2, <2>6, <2>7, <3>1
  <2>9. ASSUME fault # "short" PROVE j \in failing <=> j \in Deviants
    <3>1. AuditPasses(SentShare(j, v, bits, y, z, x, fault), j, SentBits(j, v, bits, fault),
                      SentPolys(j, v, bits, y, z, fault), y, z, x)
            <=> fault = "none" /\ v < 2^bits
      BY <2>5, <2>6, <2>9, AuditDecides
    <3>2. j \in failing <=> ~(fault = "none" /\ v < 2^bits)
      BY <1>6, <2>2, <2>3, <2>4, <2>7, <3>1
    <3> QED BY <2>5, <2>6, <3>2 DEF Deviants, InRange
  <2> QED BY <2>5, <2>8, <2>9
<1>9. AuditNamesTheDeviants'
  <2> SUFFICES ASSUME Orderly', result'.kind = "error",
                      result'.error = "MalformedProofShares"
               PROVE  LET short == {j \in Positions : Fault(j) = "short"}
                      IN  result'.bad_shares = IF short # {} THEN short ELSE Deviants
    BY <1>1 DEF AuditNamesTheDeviants, Deviants, InRange, Fault, Value, Positions, n, m
  <2>1. Orderly
    BY <1>1 DEF Orderly, InOrder, m
  <2>2. PICK short : short = {j \in Positions : Fault(j) = "short"}
    OBVIOUS
  <2>3. malformed = short
    BY <1>5, <1>8, <2>1, <2>2
  <2>4. CASE malformed # {} /\ result' = Malformed(malformed)
    BY <2>2, <2>3, <2>4 DEF Malformed
  <2>5. CASE malformed = {} /\ result' = Malformed(failing)
    <3>1. \A j \in Positions : Fault(j) # "short"
      BY <2>2, <2>3, <2>5
    <3>2. failing = Deviants
      BY <1>6, <1>8, <2>1, <3>1 DEF Deviants
    <3> QED BY <2>2, <2>3, <2>5, <3>2 DEF Malformed
  <2> QED BY <1>7, <2>4, <2>5 DEF Err
<1> QED BY <1>1, <1>7, <1>9, DoneInPlace

LEMMA NextInPlace == InPlace /\ [Next]_vars => InPlace'
<1> SUFFICES ASSUME InPlace, [Next]_vars PROVE InPlace'
  OBVIOUS
<1>1. CASE DealerNew
  BY <1>1, DealerNewInPlace
<1>2. ASSUME NEW j \in Positions, AssignPosition(j) PROVE InPlace'
  BY <1>2, AssignInPlace
<1>3. ASSUME NEW j \in Positions, ApplyBitChallenge(j) PROVE InPlace'
  BY <1>3, BitChallengeInPlace
<1>4. ASSUME NEW j \in Positions, ApplyPolyChallenge(j) PROVE InPlace'
  BY <1>4, PolyChallengeInPlace
<1>5. ASSUME NEW y \in Yields("y"), NEW z \in Yields("z"), ReceiveBitCommitments(y, z)
      PROVE  InPlace'
  BY <1>5, BitsInPlace
<1>6. ASSUME NEW x \in Yields("x"), ReceivePolyCommitments(x) PROVE InPlace'
  BY <1>6, PolysInPlace
<1>7. ASSUME NEW w, NEW us, ReceiveShares(w, us) PROVE InPlace'
  BY <1>7, SharesInPlace
<1>8. ASSUME NEW how \in Alterations, Verify(how) PROVE InPlace'
  <2>1. dealer = "done" /\ UNCHANGED <<session, dealer, sent, received, result>>
    BY <1>8 DEF Verify
  <2>2. AuditNamesTheDeviants'
    BY <2>1 DEF InPlace, AuditNamesTheDeviants, Orderly, InOrder, Deviants, InRange, Fault,
                Value, Positions, n, m
  <2> QED BY <2>1, <2>2, DoneInPlace
<1>9. CASE Ended \/ UNCHANGED vars
  <2>1. UNCHANGED vars
    BY <1>9 DEF Ended
  <2> QED BY <2>1 DEF vars, InPlace, ChallengesInPlace, MessagesInPlace, HeldInPlace, Message,
                      AuditNamesTheDeviants, Orderly, InOrder, Deviants, InRange, Collecting,
                      Challenged, Bits, Polys, Share, Drawn, Fault, Value, Positions, n, m
<1> QED BY <1>1, <1>2, <1>3, <1>4, <1>5, <1>6, <1>7, <1>8, <1>9 DEF Next

\* When receive_shares refuses shares carried in order, it names the parties that
\* deviated, all of them and nobody else: for every number of parties, every value
\* and every challenge, and whatever each of the parties does.
THEOREM AuditNamesTheDeviantsAlways == Spec => []AuditNamesTheDeviants
<1>1. Spec => []InPlace
  BY InitInPlace, NextInPlace, PTL DEF Spec
<1>2. InPlace => AuditNamesTheDeviants
  BY DEF InPlace
<1> QED BY <1>1, <1>2, PTL

-----------------------------------------------------------------------------
(* What honest parties and the dealer make of their session verifies.      *)

\* The aggregated generators are those of the parties, one after the other.
LEMMA AggregatedGensAre ==
  ASSUME NEW bits \in Nat \ {0}, NEW size \in Nat, NEW letter
  PROVE  /\ AggregatedGens(letter, bits, size) \in PointVec(bits * size)
         /\ \A k \in 1 .. bits * size :
                AggregatedGens(letter, bits, size)[k]
                  = Base(<<letter, (k - 1) \div bits, ((k - 1) % bits) + 1>>)
<1>1. PICK b : b = [k \in 1 .. bits * size |-> <<letter, (k - 1) \div bits, ((k - 1) % bits) + 1>>]
  OBVIOUS
<1>2. AggregatedGens(letter, bits, size) = [k \in 1 .. bits * size |-> Base(b[k])]
  BY <1>1 DEF AggregatedGens
<1>3. \A k \in 1 .. bits * size : Base(b[k]) \in Point
  BY BaseType
<1> QED BY <1>1, <1>2, <1>3 DEF PointVec

\* A combination of them is the sum of the parties' combinations of theirs.
LEMMA MsmOfAggregated ==
  ASSUME NEW bits \in Nat \ {0}, NEW size \in Nat, NEW letter, NEW f \in Vec(bits * size),
         NEW g \in Generator, NEW v \in Vec(size),
         \A k \in 1..size :
             v[k] = multiscalar_mul(Block(f, bits, k), ShareGens(letter, k - 1, bits))[g]
  PROVE  multiscalar_mul(f, AggregatedGens(letter, bits, size))[g] = SumOf(v)
<1>1. PICK N \in Nat : N = bits * size
  OBVIOUS
<1>2. PICK b : b = [k \in 1..N |-> <<letter, (k - 1) \div bits, ((k - 1) % bits) + 1>>]
  OBVIOUS
<1>3. PICK P : P = AggregatedGens(letter, bits, size)
  OBVIOUS
<1>4. /\ P \in PointVec(N) /\ f \in Vec(N)
      /\ \A k \in 1..N : P[k] = Base(b[k])
  BY <1>1, <1>2, <1>3, AggregatedGensAre
<1>5. /\ (\A k \in 1..N : b[k] # g) => multiscalar_mul(f, P)[g] = 0
      /\ \A i \in 1..N : b[i] = g /\ (\A k \in 1..N : k # i => b[k] # g)
                              => multiscalar_mul(f, P)[g] = f[i]
  BY <1>4, MsmOfBases
<1>6. ASSUME NEW k \in 1..size
      PROVE  /\ (\A i \in 1..bits : g # <<letter, k - 1, i>>) => v[k] = 0
             /\ \A i \in 1..bits : g = <<letter, k - 1, i>> => v[k] = f[At1(bits, k - 1, i)]
  <2>1. PICK s, j : s = Block(f, bits, k) /\ j = k - 1
    OBVIOUS
  <2>2. s \in Vec(bits)
    BY <2>1, BlockType
  <2>3. /\ (\A i \in 1..bits : g # <<letter, j, i>>)
               => multiscalar_mul(s, ShareGens(letter, j, bits))[g] = 0
        /\ \A i \in 1..bits : g = <<letter, j, i>>
               => multiscalar_mul(s, ShareGens(letter, j, bits))[g] = s[i]
    BY <2>2, MsmOfShareGens
  <2>4. v[k] = multiscalar_mul(s, ShareGens(letter, j, bits))[g]
    BY <2>1
  <2>5. \A i \in 1..bits : s[i] = f[At1(bits, j, i)]
    BY <2>1 DEF Block
  <2> QED BY <2>1, <2>3, <2>4, <2>5
<1>7. ASSUME NEW k \in 1..N
      PROVE  /\ b[k] = <<letter, (k - 1) \div bits, ((k - 1) % bits) + 1>>
             /\ (k - 1) \div bits \in 0 .. size - 1 /\ ((k - 1) % bits) + 1 \in 1..bits
             /\ k = At1(bits, (k - 1) \div bits, ((k - 1) % bits) + 1)
  BY <1>1, <1>2, PlaceIs
<1>8. CASE \E j \in 0 .. size - 1, i \in 1..bits : g = <<letter, j, i>>
  <2>1. PICK j \in 0 .. size - 1, i \in 1..bits : g = <<letter, j, i>>
    BY <1>8
  <2>2. PICK h \in 1..size : h = j + 1 /\ h - 1 = j
    OBVIOUS
  <2>3. PICK p : p = At1(bits, j, i)
    OBVIOUS
  <2>4. p \in 1..N /\ (p - 1) \div bits = j /\ ((p - 1) % bits) + 1 = i
    BY <1>1, <2>3, PlaceIs
  <2>5. b[p] = g
    BY <1>7, <2>1, <2>4
  <2>6. \A k \in 1..N : k # p => b[k] # g
    <3>1. ASSUME NEW k \in 1..N, b[k] = g PROVE k = p
      <4>1. PICK q, r : q = (k - 1) \div bits /\ r = ((k - 1) % bits) + 1
        OBVIOUS
      <4>2. <<letter, q, r>> = <<letter, j, i>> /\ k = At1(bits, q, r)
        BY <1>7, <2>1, <3>1, <4>1
      <4> QED BY <2>3, <4>2
    <3> QED BY <3>1
  <2>7. multiscalar_mul(f, P)[g] = f[p]
    BY <1>5, <2>4, <2>5, <2>6
  <2>8. v[h] = f[p]
    BY <1>6, <2>1, <2>2, <2>3
  <2>9. \A k \in 1..size : k # h => v[k] = 0
    <3>1. ASSUME NEW k \in 1..size, k # h PROVE v[k] = 0
      <4>1. k - 1 # j
        BY <2>2, <3>1
      <4>2. \A e \in 1..bits : g # <<letter, k - 1, e>>
        BY <2>1, <4>1
      <4> QED BY <1>6, <4>2
    <3> QED BY <3>1
  <2>10. SumOf(v) = v[h]
    BY <2>9, SumSelects
  <2> QED BY <1>3, <2>7, <2>8, <2>10
<1>9. CASE ~\E j \in 0 .. size - 1, i \in 1..bits : g = <<letter, j, i>>
  <2>1. \A k \in 1..N : b[k] # g
    BY <1>7, <1>9
  <2>2. multiscalar_mul(f, P)[g] = 0
    BY <1>5, <2>1
  <2>3. \A k \in 1..size : v[k] = 0
    <3>1. ASSUME NEW k \in 1..size PROVE v[k] = 0
      <4>1. k - 1 \in 0 .. size - 1
        OBVIOUS
      <4>2. \A e \in 1..bits : g # <<letter, k - 1, e>>
        BY <1>9, <4>1
      <4> QED BY <1>6, <4>2
    <3> QED BY <3>1
  <2>4. SumOf(v) = 0
    BY <2>3, SumOfZeros
  <2> QED BY <1>3, <2>2, <2>4
<1> QED BY <1>8, <1>9

\* The verifier's delta is the sum of the parties'.
LEMMA DeltaAddsUp ==
  ASSUME NEW bits \in Nat, NEW size \in Nat, NEW y \in Scalar, NEW z \in Scalar, NEW v \in Vec(size),
         \A k \in 1..size : v[k] = DeltaOf(k - 1, bits, y, z)
  PROVE  Delta(bits, size, y, z) = SumOf(v)
<1>1. PICK a \in Scalar, gy \in Scalar, c \in Scalar, d \in Scalar :
         /\ a = z -- z ** z /\ gy = Geometric(y, bits) /\ c = z ** (z ** z)
         /\ d = Geometric(2, bits)
  <2>1. z ** z \in Scalar /\ 2 \in Scalar
    BY ScalarClosed, LargeOrderAssumption, OrderAssumption DEF Scalar
  <2>2. Geometric(y, bits) \in Scalar /\ Geometric(2, bits) \in Scalar
    BY <2>1, GeometricNext
  <2>3. z -- z ** z \in Scalar /\ z ** (z ** z) \in Scalar
    BY <2>1, ScalarClosed
  <2> QED BY <2>2, <2>3
<1>2. \A k \in 1..size : /\ k - 1 \in Nat /\ (k - 1) * bits \in Nat
                      /\ Start(y, k - 1, bits) \in Scalar /\ Power(z, k - 1) \in Scalar
  <2>1. \A k \in 1..size : k - 1 \in Nat /\ (k - 1) * bits \in Nat
    OBVIOUS
  <2> QED BY <2>1, PowerRecursion DEF Start
<1>3. PICK s : s = [k \in 1..size |-> Start(y, k - 1, bits)]
  OBVIOUS
<1>4. PICK q : q = [k \in 1..size |-> Power(z, k - 1)]
  OBVIOUS
<1>5. s \in Vec(size) /\ q \in Vec(size)
  BY <1>2, <1>3, <1>4 DEF Vec
<1>6. PICK e : e = [k \in 1..size |-> gy ** s[k]]
  OBVIOUS
<1>7. e \in Vec(size) /\ \A k \in 1..size : e[k] = gy ** s[k]
  BY <1>5, <1>6, ScalarClosed DEF Vec
<1>8. SumOf(e) = Geometric(y, bits * size)
  <2> DEFINE t == [k \in 0..size |-> Geometric(y, bits * k)]
  <2>1. t[0] = 0
    <3>1. bits * 0 = 0 /\ 0 \in 0..size
      OBVIOUS
    <3> QED BY <3>1, GeometricNext
  <2>2. ASSUME NEW k \in 1..size PROVE t[k] = t[k - 1] ++ e[k]
    <3>1. PICK j \in Nat : j = bits * (k - 1)
      OBVIOUS
    <3>2. bits * k = j + bits /\ (k - 1) * bits = j
      BY <3>1
    <3>3. Geometric(y, j + bits) = Geometric(y, j) ++ Power(y, j) ** Geometric(y, bits)
      BY GeometricAdds
    <3>4. Power(y, j) = s[k] /\ Power(y, j) \in Scalar
      BY <1>3, <1>2, <3>2 DEF Start
    <3>5. Power(y, j) ** gy = e[k]
      BY <1>7, <3>4, MulCommutes
    <3>6. k \in 0..size /\ k - 1 \in 0..size
      OBVIOUS
    <3> QED BY <1>1, <3>1, <3>2, <3>3, <3>5, <3>6
  <2>3. Sums(t, size, e)
    <3> HIDE DEF t
    <3> QED BY <2>1, <2>2 DEF Sums
  <2>4. SumOf(e) = t[size]
    <3> HIDE DEF t
    <3> QED BY <1>7, <2>3, SumUnique
  <2> QED BY <2>4
<1>9. SumOf(q) = Geometric(z, size)
  <2>1. exp_iter(z, size) \in Vec(size) /\ \A k \in 1..size : exp_iter(z, size)[k] = Power(z, k - 1)
    BY ExpIterIs
  <2>2. exp_iter(z, size) = q
    BY <1>4, <1>5, <2>1, VecExtensional
  <2> QED BY <2>2 DEF Geometric
<1>10. PICK x : x = [k \in 1..size |-> a ** e[k]]
  OBVIOUS
<1>11. PICK w : w = [k \in 1..size |-> Neg(c ** d) ** q[k]]
  OBVIOUS
<1>12. PICK cd \in Scalar : cd = c ** d /\ Neg(cd) \in Scalar
  BY ScalarClosed
<1>13. /\ x \in Vec(size) /\ w \in Vec(size)
       /\ \A k \in 1..size : x[k] = a ** e[k] /\ w[k] = Neg(cd) ** q[k]
  BY <1>5, <1>7, <1>10, <1>11, <1>12, ScalarClosed DEF Vec
<1>14. SumOf(x) = a ** SumOf(e) /\ SumOf(w) = Neg(cd) ** SumOf(q)
  BY <1>5, <1>7, <1>12, <1>13, SumScale
<1>15. \A k \in 1..size : v[k] = x[k] ++ w[k]
  <2>1. ASSUME NEW k \in 1..size PROVE v[k] = x[k] ++ w[k]
    <3>1. PICK sk \in Scalar, qk \in Scalar : sk = s[k] /\ qk = q[k]
      BY <1>5 DEF Vec
    <3>2. v[k] = (a ** gy) ** sk -- cd ** qk
      BY <1>1, <1>3, <1>4, <1>12, <3>1 DEF DeltaOf
    <3>3. x[k] = a ** (gy ** sk) /\ w[k] = Neg(cd) ** qk
      BY <1>7, <1>13, <3>1
    <3>4. (a ** gy) ** sk = a ** (gy ** sk)
      BY MulAssociates
    <3>5. cd ** qk \in Scalar /\ Neg(cd) ** qk = Neg(cd ** qk)
      <4>1. /\ cd ** qk \in Scalar /\ Neg(cd ** qk) = Neg(1) ** (cd ** qk)
            /\ Neg(cd) = Neg(1) ** cd /\ Neg(1) \in Scalar
        BY ScalarClosed, NegScales
      <4>2. (Neg(1) ** cd) ** qk = Neg(1) ** (cd ** qk)
        BY <4>1, MulAssociates
      <4> QED BY <4>1, <4>2
    <3>6. (a ** gy) ** sk -- cd ** qk = (a ** gy) ** sk ++ Neg(cd ** qk)
      BY DEF --
    <3> QED BY <3>2, <3>3, <3>4, <3>5, <3>6
  <2> QED BY <2>1
<1>16. SumOf(v) = SumOf(x) ++ SumOf(w)
  BY <1>13, <1>15, SumAdd
<1>17. Delta(bits, size, y, z) = a ** Geometric(y, bits * size) -- (((z ** z) ** z) ** d) ** Geometric(z, size)
  <2>1. /\ bits * size \in Nat /\ 2 \in Scalar
    BY LargeOrderAssumption, OrderAssumption DEF Scalar
  <2>2. /\ sum_of_powers(y, bits * size) = Geometric(y, bits * size) /\ sum_of_powers(2, bits) = d
        /\ sum_of_powers(z, size) = Geometric(z, size)
    BY <1>1, <2>1, SumOfPowersIs
  <2> QED BY <1>1, <2>2 DEF Delta
<1>18. (z ** z) ** z = c
  BY <1>1, ScalarClosed, MulCommutes
<1>19. PICK E \in Scalar, Q \in Scalar : E = SumOf(e) /\ Q = SumOf(q)
  BY <1>5, <1>7, SumClosed
<1>20. a ** E -- cd ** Q = a ** E ++ Neg(cd) ** Q
  <2>1. /\ cd ** Q \in Scalar /\ Neg(cd ** Q) = Neg(1) ** (cd ** Q)
        /\ Neg(cd) = Neg(1) ** cd /\ Neg(1) \in Scalar
    BY ScalarClosed, NegScales
  <2>2. (Neg(1) ** cd) ** Q = Neg(1) ** (cd ** Q)
    BY <2>1, MulAssociates
  <2> QED BY <2>1, <2>2 DEF --
<1> QED BY <1>8, <1>9, <1>12, <1>14, <1>16, <1>17, <1>18, <1>19, <1>20

\* Several entries are appended one by one.
LEMMA EntriesOneByOne ==
  ASSUME NEW s, IsSequence(s), NEW a, NEW b, NEW c, NEW d
  PROVE  /\ s \o <<a, b, c>> = Append(s \o <<a, b>>, c)
         /\ s \o <<a, b, c, d>> = Append(s \o <<a, b, c>>, d)
         /\ s \o <<a, b, c, d>> = Append(Append(s \o <<a, b>>, c), d)
<1>1. PICK S : s \in Seq(S)
  BY DEF IsSequence
<1>2. PICK U : S \subseteq U /\ a \in U /\ b \in U /\ c \in U /\ d \in U
  <2>1. S \subseteq S \cup {a, b, c, d}
    OBVIOUS
  <2> QED BY <2>1
<1>3. s \in Seq(U)
  BY <1>1, <1>2
<1>4. s \o <<a, b, c, d>> = Append(s \o <<a, b, c>>, d)
  BY <1>2, <1>3
<1> QED BY <1>4, OneByOne

\* The dealer's transcript: before the bit challenges, with them, with the poly
\* challenge and with the sums.
Opening(bits, Vs) ==
    rangeproof_domain_sep(<<>>, bits, Len(Vs)) \o [k \in DOMAIN Vs |-> <<"V", Vs[k]>>]
\* The transcript after the bit commitments, after the polynomial commitments and after
\* the sums, with the challenges drawn in between.
WithBits(t, PA, PS, y, z) == t \o <<<<"A", PA>>, <<"S", PS>>, <<"y", y>>, <<"z", z>>>>
\* Likewise.
WithPolys(t, P1, P2, x) == t \o <<<<"T_1", P1>>, <<"T_2", P2>>, <<"x", x>>>>
\* Likewise.
WithSums(t, tx, tb, e, w) ==
    t \o <<<<"t_x", tx>>, <<"t_x_blinding", tb>>, <<"e_blinding", e>>, <<"w", w>>>>

\* The labels of the points and challenges it is asked for.
Told == {"A", "S", "y", "z", "T_1", "T_2", "x", "w"}

\* It opens with none of them.
LEMMA OpeningIs ==
  ASSUME NEW bits, NEW Vs, IsSequence(Vs)
  PROVE  /\ IsSequence(Opening(bits, Vs))
         /\ \A label \in Told : Without(Opening(bits, Vs), label)
<1>1. PICK k \in Nat : k = Len(Vs) /\ DOMAIN Vs = 1..k
  BY SequenceDomain
<1>2. PICK d : d = <<<<"dom-sep", "rangeproof v1">>, <<"n", bits>>, <<"m", k>>>>
  OBVIOUS
<1>3. IsSequence(d) /\ Len(d) = 3 /\ \A label \in Told : Without(d, label)
  <2>1. IsSequence(d) /\ Len(d) = 3
    BY <1>2, ShortSequences
  <2>2. d[1][1] = "dom-sep" /\ d[2][1] = "n" /\ d[3][1] = "m"
    BY <1>2
  <2>3. \A i \in 1..3 : i = 1 \/ i = 2 \/ i = 3
    OBVIOUS
  <2>4. \A i \in 1..3 : d[i][1] \notin Told
    BY <2>2, <2>3 DEF Told
  <2> QED BY <2>1, <2>4 DEF Without
<1>4. PICK v : v = [i \in 1..k |-> <<"V", Vs[i]>>]
  OBVIOUS
<1>5. IsSequence(v) /\ Len(v) = k /\ \A label \in Told : Without(v, label)
  <2>1. PICK S : S = {v[i] : i \in 1..k}
    OBVIOUS
  <2>2. v \in [1..k -> S]
    BY <1>4, <2>1
  <2>3. v \in Seq(S) /\ Len(v) = k
    BY <2>2
  <2>4. \A i \in 1..k : v[i][1] = "V"
    BY <1>4
  <2>5. "V" \notin Told
    BY DEF Told
  <2> QED BY <2>3, <2>4, <2>5 DEF IsSequence, Without
<1>6. \A e, f : IsSequence(e) /\ e = f => <<>> \o e = f
  BY DEF IsSequence
<1>7. Opening(bits, Vs) = d \o v
  BY <1>1, <1>2, <1>3, <1>4, <1>6 DEF Opening, rangeproof_domain_sep
<1> QED BY <1>3, <1>5, <1>7, ThenSequence, WithoutThen

\* What each label names first.
LEMMA TranscriptTells ==
  ASSUME NEW bits, NEW Vs, IsSequence(Vs), NEW PA, NEW PS, NEW y, NEW z, NEW P1, NEW P2,
         NEW x, NEW t, t = WithPolys(WithBits(Opening(bits, Vs), PA, PS, y, z), P1, P2, x)
  PROVE  /\ IsSequence(t) /\ Without(t, "w")
         /\ FirstDraw(t, "A", PA) /\ FirstDraw(t, "S", PS)
         /\ FirstDraw(t, "y", y) /\ FirstDraw(t, "z", z)
         /\ FirstDraw(t, "T_1", P1) /\ FirstDraw(t, "T_2", P2) /\ FirstDraw(t, "x", x)
<1>1. PICK o : o = Opening(bits, Vs)
  OBVIOUS
<1>2. IsSequence(o) /\ \A label \in Told : Without(o, label)
  BY <1>1, OpeningIs
<1>3. PICK a : a = <<<<"A", PA>>, <<"S", PS>>, <<"y", y>>, <<"z", z>>>>
  OBVIOUS
<1>4. /\ IsSequence(a) /\ Len(a) = 4 /\ a[1] = <<"A", PA>> /\ a[2] = <<"S", PS>>
      /\ a[3] = <<"y", y>> /\ a[4] = <<"z", z>>
  BY <1>3, ShortSequences
<1>5. a[1][1] = "A" /\ a[2][1] = "S" /\ a[3][1] = "y" /\ a[4][1] = "z"
  BY <1>4
<1>6. /\ FirstDraw(a, "A", PA) /\ FirstDraw(a, "S", PS)
      /\ FirstDraw(a, "y", y) /\ FirstDraw(a, "z", z)
  <2>1. /\ \A i \in 1 .. 1 - 1 : a[i][1] # "A"
        /\ \A i \in 1 .. 2 - 1 : a[i][1] # "S"
        /\ \A i \in 1 .. 3 - 1 : a[i][1] # "y"
        /\ \A i \in 1 .. 4 - 1 : a[i][1] # "z"
    <3>1. \A i \in 1..3 : i = 1 \/ i = 2 \/ i = 3
      OBVIOUS
    <3> QED BY <1>5, <3>1
  <2>2. 1 \in 1..4 /\ 2 \in 1..4 /\ 3 \in 1..4 /\ 4 \in 1..4
    OBVIOUS
  <2> QED BY <1>4, <2>1, <2>2 DEF FirstDraw
<1>7. Without(a, "T_1") /\ Without(a, "T_2") /\ Without(a, "x") /\ Without(a, "w")
  <2>1. \A i \in 1..4 : i = 1 \/ i = 2 \/ i = 3 \/ i = 4
    OBVIOUS
  <2> QED BY <1>4, <1>5, <2>1 DEF Without
<1>8. PICK b : b = <<<<"T_1", P1>>, <<"T_2", P2>>, <<"x", x>>>>
  OBVIOUS
<1>9. /\ IsSequence(b) /\ Len(b) = 3 /\ b[1] = <<"T_1", P1>> /\ b[2] = <<"T_2", P2>>
      /\ b[3] = <<"x", x>>
  BY <1>8, ShortSequences
<1>10. b[1][1] = "T_1" /\ b[2][1] = "T_2" /\ b[3][1] = "x"
  BY <1>9
<1>11. FirstDraw(b, "T_1", P1) /\ FirstDraw(b, "T_2", P2) /\ FirstDraw(b, "x", x)
  <2>1. /\ \A i \in 1 .. 1 - 1 : b[i][1] # "T_1"
        /\ \A i \in 1 .. 2 - 1 : b[i][1] # "T_2"
        /\ \A i \in 1 .. 3 - 1 : b[i][1] # "x"
    <3>1. \A i \in 1..2 : i = 1 \/ i = 2
      OBVIOUS
    <3> QED BY <1>10, <3>1
  <2>2. 1 \in 1..3 /\ 2 \in 1..3 /\ 3 \in 1..3
    OBVIOUS
  <2> QED BY <1>9, <2>1, <2>2 DEF FirstDraw
<1>12. Without(b, "w")
  <2>1. \A i \in 1..3 : i = 1 \/ i = 2 \/ i = 3
    OBVIOUS
  <2> QED BY <1>9, <1>10, <2>1 DEF Without
<1>13. PICK c : c = o \o a
  OBVIOUS
<1>14. t = c \o b
  BY <1>1, <1>3, <1>8, <1>13 DEF WithPolys, WithBits
<1>15. /\ Without(o, "A") /\ Without(o, "S") /\ Without(o, "y") /\ Without(o, "z")
       /\ Without(o, "T_1") /\ Without(o, "T_2") /\ Without(o, "x") /\ Without(o, "w")
  BY <1>2 DEF Told
<1>16. IsSequence(c)
  BY <1>2, <1>4, <1>13, ThenSequence
<1>17. /\ FirstDraw(c, "A", PA) /\ FirstDraw(c, "S", PS)
       /\ FirstDraw(c, "y", y) /\ FirstDraw(c, "z", z)
  BY <1>2, <1>4, <1>6, <1>13, <1>15, FirstDrawThen
<1>18. Without(c, "T_1") /\ Without(c, "T_2") /\ Without(c, "x") /\ Without(c, "w")
  BY <1>2, <1>4, <1>7, <1>13, <1>15, WithoutThen
<1>19. IsSequence(t) /\ Without(t, "w")
  BY <1>9, <1>12, <1>14, <1>16, <1>18, ThenSequence, WithoutThen
<1>20. /\ FirstDraw(t, "A", PA) /\ FirstDraw(t, "S", PS)
       /\ FirstDraw(t, "y", y) /\ FirstDraw(t, "z", z)
  BY <1>9, <1>14, <1>16, <1>17, FirstDrawStays
<1>21. FirstDraw(t, "T_1", P1) /\ FirstDraw(t, "T_2", P2) /\ FirstDraw(t, "x", x)
  BY <1>9, <1>11, <1>14, <1>16, <1>18, FirstDrawThen
<1> QED BY <1>19, <1>20, <1>21

\* And with the sums.
LEMMA SumsTell ==
  ASSUME NEW s, IsSequence(s), Without(s, "w"), NEW tx, NEW tb, NEW e, NEW w,
         NEW t, t = WithSums(s, tx, tb, e, w)
  PROVE  /\ IsSequence(t) /\ FirstDraw(t, "w", w)
         /\ \A label, c : FirstDraw(s, label, c) => FirstDraw(t, label, c)
<1>1. PICK a : a = <<<<"t_x", tx>>, <<"t_x_blinding", tb>>, <<"e_blinding", e>>, <<"w", w>>>>
  OBVIOUS
<1>2. /\ IsSequence(a) /\ Len(a) = 4 /\ a[1] = <<"t_x", tx>> /\ a[2] = <<"t_x_blinding", tb>>
      /\ a[3] = <<"e_blinding", e>> /\ a[4] = <<"w", w>>
  BY <1>1, ShortSequences
<1>3. FirstDraw(a, "w", w)
  <2>1. a[1][1] = "t_x" /\ a[2][1] = "t_x_blinding" /\ a[3][1] = "e_blinding"
    BY <1>2
  <2>2. \A i \in 1..3 : i = 1 \/ i = 2 \/ i = 3
    OBVIOUS
  <2>3. \A i \in 1 .. 4 - 1 : a[i][1] # "w"
    BY <2>1, <2>2
  <2>4. 4 \in 1..4
    OBVIOUS
  <2> QED BY <1>2, <2>3, <2>4 DEF FirstDraw
<1>4. t = s \o a
  BY <1>1 DEF WithSums
<1>5. IsSequence(t)
  BY <1>2, <1>4, ThenSequence
<1>6. FirstDraw(t, "w", w)
  BY <1>2, <1>3, <1>4, FirstDrawThen
<1>7. ASSUME NEW label, NEW c, FirstDraw(s, label, c) PROVE FirstDraw(t, label, c)
  BY <1>2, <1>4, <1>7, FirstDrawStays
<1> QED BY <1>5, <1>6, <1>7

\* What is appended is preceded by what was there.
LEMMA AppendExtends ==
  ASSUME NEW s, IsSequence(s), NEW e
  PROVE  IsSequence(Append(s, e)) /\ Extends(s, Append(s, e))
<1>1. PICK a, t : a = <<e>> /\ t = Append(s, e)
  OBVIOUS
<1>2. IsSequence(a) /\ t = s \o a
  BY <1>1, AppendIsThen
<1>3. IsSequence(s \o a) /\ Extends(s, s \o a)
  BY <1>2, ThenSequence
<1> QED BY <1>1, <1>2, <1>3

\* The transcript of a proof, up to the inner-product argument.
Tells(t, p, Vs, bits, y, z, x, w) ==
    t = WithSums(WithPolys(WithBits(Opening(bits, Vs), p.A, p.S, y, z), p.T_1, p.T_2, x),
                 p.t_x, p.t_x_blinding, p.e_blinding, w)

\* A verifier that has the proof and the commitments rebuilds the transcript the
\* dealer had before the inner-product argument.
LEMMA ReplayTells ==
  ASSUME NEW bits, NEW Vs, IsSequence(Vs), NEW y, NEW z, NEW x, NEW w, NEW p, NEW t,
         Tells(t, p, Vs, bits, y, z, x, w),
         NEW rest, IsSequence(rest), Extends(t, rest), NEW unrelated
  PROVE  Replay(p, Vs, bits, rest, unrelated) = t
<1> DEFINE Then(s, label) ==
               Append1(s, label, challenge_scalar(s, rest, unrelated, label))
<1>1. PICK t0 : t0 = Opening(bits, Vs)
  OBVIOUS
<1>2. PICK a, b : a = <<"A", p.A>> /\ b = <<"S", p.S>>
  OBVIOUS
<1>3. PICK c, d : c = <<"y", y>> /\ d = <<"z", z>>
  OBVIOUS
<1>4. PICK e, f, g : e = <<"T_1", p.T_1>> /\ f = <<"T_2", p.T_2>> /\ g = <<"x", x>>
  OBVIOUS
<1>5. PICK h, i, j, k : /\ h = <<"t_x", p.t_x>> /\ i = <<"t_x_blinding", p.t_x_blinding>>
                        /\ j = <<"e_blinding", p.e_blinding>> /\ k = <<"w", w>>
  OBVIOUS
<1>6. PICK t1 : t1 = t0 \o <<a, b>>
  OBVIOUS
<1>7. PICK t2, t3 : t2 = Append(t1, c) /\ t3 = Append(t2, d)
  OBVIOUS
<1>8. PICK t4, t5 : t4 = t3 \o <<e, f>> /\ t5 = Append(t4, g)
  OBVIOUS
<1>9. PICK t6, t7 : t6 = t5 \o <<h, i, j>> /\ t7 = Append(t6, k)
  OBVIOUS
<1>10. IsSequence(t0)
  BY <1>1, OpeningIs
<1>11. IsSequence(t1)
  BY <1>6, <1>10, TuplesAreSequences, ThenSequence
<1>12. IsSequence(t2) /\ IsSequence(t3) /\ Extends(t2, t3)
  BY <1>7, <1>11, AppendExtends
<1>13. IsSequence(t4) /\ Extends(t3, t4)
  BY <1>8, <1>12, TuplesAreSequences, ThenSequence
<1>14. IsSequence(t5) /\ Extends(t4, t5)
  BY <1>8, <1>13, AppendExtends
<1>15. IsSequence(t6) /\ Extends(t5, t6)
  BY <1>9, <1>14, TuplesAreSequences, ThenSequence
<1>16. IsSequence(t7) /\ Extends(t6, t7)
  BY <1>9, <1>15, AppendExtends
<1>17. t7 = t
  <2>1. t3 = WithBits(t0, p.A, p.S, y, z)
    <3>1. t0 \o <<a, b, c, d>> = Append(Append(t0 \o <<a, b>>, c), d)
      BY <1>10, EntriesOneByOne
    <3> QED BY <1>2, <1>3, <1>6, <1>7, <3>1 DEF WithBits
  <2>2. t5 = WithPolys(t3, p.T_1, p.T_2, x)
    <3>1. t3 \o <<e, f, g>> = Append(t3 \o <<e, f>>, g)
      BY <1>12, EntriesOneByOne
    <3> QED BY <1>4, <1>8, <3>1 DEF WithPolys
  <2>3. t7 = WithSums(t5, p.t_x, p.t_x_blinding, p.e_blinding, w)
    <3>1. t5 \o <<h, i, j, k>> = Append(t5 \o <<h, i, j>>, k)
      BY <1>14, EntriesOneByOne
    <3> QED BY <1>5, <1>9, <3>1 DEF WithSums
  <2> QED BY <1>1, <2>1, <2>2, <2>3 DEF Tells
<1>18. Extends(t7, rest)
  BY <1>17
<1>19. /\ Extends(t6, rest) /\ Extends(t5, rest) /\ Extends(t4, rest) /\ Extends(t3, rest)
       /\ Extends(t2, rest)
  BY <1>12, <1>13, <1>14, <1>15, <1>16, <1>18, ExtendsTransitive
<1>27. ASSUME NEW q, IsSequence(q), NEW r, NEW label, NEW value,
              r = Append(q, <<label, value>>), Extends(r, rest)
       PROVE  Then(q, label) = r
  BY <1>27, ChallengeIs, Zenon
<1>28. /\ t2 = Append(t1, <<"y", y>>) /\ t3 = Append(t2, <<"z", z>>)
       /\ t5 = Append(t4, <<"x", x>>) /\ t7 = Append(t6, <<"w", w>>)
  BY <1>3, <1>4, <1>5, <1>7, <1>8, <1>9, Zenon
<1>20. Then(t1, "y") = t2 /\ Then(t2, "z") = t3
  <2> HIDE DEF Then
  <2> QED BY <1>11, <1>12, <1>19, <1>27, <1>28, Zenon
<1>21. Then(t4, "x") = t5
  <2> HIDE DEF Then
  <2> QED BY <1>13, <1>19, <1>27, <1>28, Zenon
<1>22. Then(t6, "w") = t7
  <2> HIDE DEF Then
  <2> QED BY <1>15, <1>18, <1>27, <1>28, Zenon
<1>23. t1 = rangeproof_domain_sep(<<>>, bits, Len(Vs))
              \o [place \in DOMAIN Vs |-> <<"V", Vs[place]>>]
              \o <<<<"A", p.A>>, <<"S", p.S>>>>
  BY <1>1, <1>2, <1>6 DEF Opening
<1> DEFINE opened == rangeproof_domain_sep(<<>>, bits, Len(Vs))
                        \o [place \in DOMAIN Vs |-> <<"V", Vs[place]>>]
                        \o <<<<"A", p.A>>, <<"S", p.S>>>>
           withBits == Then(Then(opened, "y"), "z")
                          \o <<<<"T_1", p.T_1>>, <<"T_2", p.T_2>>>>
           withShares == Then(withBits, "x")
                          \o <<<<"t_x", p.t_x>>, <<"t_x_blinding", p.t_x_blinding>>,
                               <<"e_blinding", p.e_blinding>>>>
<1>24. Replay(p, Vs, bits, rest, unrelated) = Then(withShares, "w")
  BY DEF Replay
<1>25. withBits = t4
  <2>1. opened = t1
    BY <1>23
  <2> HIDE DEF opened, Then
  <2> QED BY <1>4, <1>8, <1>20, <2>1
<1>26. withShares = t6
  <2> HIDE DEF withBits, Then
  <2> QED BY <1>5, <1>9, <1>21, <1>25
<1> HIDE DEF withShares, Then
<1> QED BY <1>17, <1>22, <1>24, <1>26

\* Five scalars added up, as the combinations of an audit have them.
Five(a, b, c, d, e) == (((a ++ b) ++ c) ++ d) ++ e

\* The five sums of what adds up to nothing at every place add up to nothing.
AddsToNothing(k, v1, v2, v3, v4, v5) ==
    /\ v1 \in Vec(k) /\ v2 \in Vec(k) /\ v3 \in Vec(k) /\ v4 \in Vec(k) /\ v5 \in Vec(k)
    /\ \A i \in 1..k : Five(v1[i], v2[i], v3[i], v4[i], v5[i]) = 0

\* Two vectors can be added entry by entry, and so are their sums.
LEMMA AddsTo ==
  ASSUME NEW k \in Nat, NEW v \in Vec(k), NEW w \in Vec(k)
  PROVE  \E x \in Vec(k) : /\ \A i \in 1..k : x[i] = v[i] ++ w[i]
                           /\ SumOf(x) = SumOf(v) ++ SumOf(w)
<1>1. PICK x : x = [i \in 1..k |-> v[i] ++ w[i]]
  OBVIOUS
<1>2. \A i \in 1..k : v[i] \in Scalar /\ w[i] \in Scalar
  BY DEF Vec
<1>3. x \in Vec(k) /\ \A i \in 1..k : x[i] = v[i] ++ w[i]
  BY <1>1, <1>2, ScalarClosed DEF Vec
<1>4. SumOf(x) = SumOf(v) ++ SumOf(w)
  BY <1>3, SumAdd
<1> QED BY <1>3, <1>4

\* Five vectors that add up to nothing entry by entry have sums that do.
LEMMA SumsOfFive ==
  ASSUME NEW k \in Nat, NEW v1, NEW v2, NEW v3, NEW v4, NEW v5,
         AddsToNothing(k, v1, v2, v3, v4, v5)
  PROVE  Five(SumOf(v1), SumOf(v2), SumOf(v3), SumOf(v4), SumOf(v5)) = 0
<1>1. v1 \in Vec(k) /\ v2 \in Vec(k) /\ v3 \in Vec(k) /\ v4 \in Vec(k) /\ v5 \in Vec(k)
  BY DEF AddsToNothing
<1>2. PICK w2 \in Vec(k) : /\ \A i \in 1..k : w2[i] = v1[i] ++ v2[i]
                           /\ SumOf(w2) = SumOf(v1) ++ SumOf(v2)
  BY <1>1, AddsTo
<1>3. PICK w3 \in Vec(k) : /\ \A i \in 1..k : w3[i] = w2[i] ++ v3[i]
                           /\ SumOf(w3) = SumOf(w2) ++ SumOf(v3)
  BY <1>1, AddsTo
<1>4. PICK w4 \in Vec(k) : /\ \A i \in 1..k : w4[i] = w3[i] ++ v4[i]
                           /\ SumOf(w4) = SumOf(w3) ++ SumOf(v4)
  BY <1>1, AddsTo
<1>5. PICK w5 \in Vec(k) : /\ \A i \in 1..k : w5[i] = w4[i] ++ v5[i]
                           /\ SumOf(w5) = SumOf(w4) ++ SumOf(v5)
  BY <1>1, AddsTo
<1>6. \A i \in 1..k : w5[i] = 0
  BY <1>2, <1>3, <1>4, <1>5 DEF AddsToNothing, Five
<1>7. SumOf(w5) = 0
  BY <1>6, SumOfZeros
<1> QED BY <1>2, <1>3, <1>4, <1>5, <1>7 DEF Five

\* A sum of points is the sum of them at every generator.
LEMMA SumOfPointsIs ==
  ASSUME NEW k \in Nat, NEW P \in PointVec(k), NEW g \in Generator
  PROVE  /\ SumOfPoints(P) \in Point
         /\ \E v \in Vec(k) : /\ \A i \in 1..k : v[i] = P[i][g]
                             /\ SumOfPoints(P)[g] = SumOf(v)
<1>0. PICK v : v = [i \in 1..k |-> P[i][g]]
  OBVIOUS
<1>1. PICK s : s = [i \in 1..k |-> 1]
  OBVIOUS
<1>2. DOMAIN P = 1..k /\ \A i \in 1..k : P[i][g] \in Scalar
  BY DEF PointVec, Point
<1>3. s \in Vec(k) /\ SumOfPoints(P) = multiscalar_mul(s, P)
  BY <1>1, <1>2, ScalarClosed DEF Vec, SumOfPoints
<1>4. v \in Vec(k) /\ \A i \in 1..k : v[i] = P[i][g]
  BY <1>0, <1>2 DEF Vec
<1>5. \A i \in 1..k : s[i] ** P[i][g] = P[i][g]
  BY <1>1, <1>2, Units
<1>6. v = [i \in 1..k |-> s[i] ** P[i][g]]
  BY <1>0, <1>5
<1>7. multiscalar_mul(s, P)[g] = SumOf(v)
  BY <1>3, <1>6, MsmAt
<1> QED BY <1>3, <1>4, <1>7, MsmType

\* A factor of every summand is one of the sum.
LEMMA ScaledSum ==
  ASSUME NEW k \in Nat, NEW v \in Vec(k), NEW c \in Scalar
  PROVE  \E x \in Vec(k) : /\ \A i \in 1..k : x[i] = c ** v[i]
                           /\ SumOf(x) = c ** SumOf(v)
<1>0. PICK x : x = [i \in 1..k |-> c ** v[i]]
  OBVIOUS
<1>1. \A i \in 1..k : v[i] \in Scalar
  BY DEF Vec
<1>2. x \in Vec(k) /\ \A i \in 1..k : x[i] = c ** v[i]
  BY <1>0, <1>1, ScalarClosed DEF Vec
<1> QED BY <1>2, SumScale

\* A scalar times five that add up to nothing.
FiveTimes(r1, r2, r3, r4, r5, u, a, b, c, d, e) ==
    /\ a \in Scalar /\ b \in Scalar /\ c \in Scalar /\ d \in Scalar /\ e \in Scalar
    /\ u \in Scalar /\ Five(a, b, c, d, e) = 0
    /\ r1 = u ** a /\ r2 = u ** b /\ r3 = u ** c /\ r4 = u ** d /\ r5 = u ** e

\* A multiple of five scalars that add up to nothing adds up to nothing.
LEMMA FiveScaled ==
  ASSUME NEW r1, NEW r2, NEW r3, NEW r4, NEW r5, NEW u, NEW a, NEW b, NEW c, NEW d, NEW e,
         FiveTimes(r1, r2, r3, r4, r5, u, a, b, c, d, e)
  PROVE  Five(r1, r2, r3, r4, r5) = 0
<1>0. /\ a \in Scalar /\ b \in Scalar /\ c \in Scalar /\ d \in Scalar /\ e \in Scalar
      /\ u \in Scalar /\ Five(a, b, c, d, e) = 0
      /\ r1 = u ** a /\ r2 = u ** b /\ r3 = u ** c /\ r4 = u ** d /\ r5 = u ** e
  BY DEF FiveTimes
<1>1. PICK ab, abc, abcd \in Scalar : ab = a ++ b /\ abc = ab ++ c /\ abcd = abc ++ d
  BY <1>0, ScalarClosed
<1>2. abcd ++ e = 0
  BY <1>0, <1>1 DEF Five
<1>3. u ** (abcd ++ e) = (u ** abcd) ++ (u ** e)
  BY <1>0, <1>1, <1>2, Distributes
<1>4. u ** abcd = (u ** abc) ++ (u ** d)
  BY <1>0, <1>1, Distributes
<1>5. u ** abc = (u ** ab) ++ (u ** c)
  BY <1>0, <1>1, Distributes
<1>6. u ** ab = (u ** a) ++ (u ** b)
  BY <1>0, <1>1, Distributes
<1>7. u ** 0 = 0
  BY <1>0, Units
<1> QED BY <1>0, <1>2, <1>3, <1>4, <1>5, <1>6, <1>7 DEF Five

\* What the verifier adds up: the two checks of the audits, p and r, and the
\* inner-product argument's.
Total(p1, p2, p3, p4, p5, r1, r2, r3, r4, r5, sl, sr, k1, k2, lg, ag, rh, bh) ==
    (((((((p1 ++ p2) ++ r2) ++ r3) ++ sl) ++ sr)
        ++ ((p3 ++ r5) ++ ((k1 -- k2) ++ r4)))
        ++ ((p4 ++ lg) -- ag)) ++ ((p5 ++ rh) -- bh) ++ r1

\* The eighteen scalars, the two equations that hold and the one of the inner product.
TotalFits(p1, p2, p3, p4, p5, r1, r2, r3, r4, r5, sl, sr, k1, k2, lg, ag, rh, bh) ==
    /\ p1 \in Scalar /\ p2 \in Scalar /\ p3 \in Scalar /\ p4 \in Scalar /\ p5 \in Scalar
    /\ r1 \in Scalar /\ r2 \in Scalar /\ r3 \in Scalar /\ r4 \in Scalar /\ r5 \in Scalar
    /\ sl \in Scalar /\ sr \in Scalar /\ k1 \in Scalar /\ k2 \in Scalar
    /\ lg \in Scalar /\ ag \in Scalar /\ rh \in Scalar /\ bh \in Scalar
    /\ Five(p1, p2, p3, p4, p5) = 0 /\ Five(r1, r2, r3, r4, r5) = 0
    /\ (lg ++ rh) ++ k1 = (((k2 ++ ag) ++ bh) ++ Neg(sl)) ++ Neg(sr)

\* What the verifier adds up at one generator is then zero.
LEMMA TotalIsNothing ==
  ASSUME NEW p1, NEW p2, NEW p3, NEW p4, NEW p5, NEW r1, NEW r2, NEW r3, NEW r4, NEW r5,
         NEW sl, NEW sr, NEW k1, NEW k2, NEW lg, NEW ag, NEW rh, NEW bh,
         TotalFits(p1, p2, p3, p4, p5, r1, r2, r3, r4, r5, sl, sr, k1, k2, lg, ag, rh, bh)
  PROVE  Total(p1, p2, p3, p4, p5, r1, r2, r3, r4, r5, sl, sr, k1, k2, lg, ag, rh, bh) = 0
<1> /\ p1 \in Scalar /\ p2 \in Scalar /\ p3 \in Scalar /\ p4 \in Scalar /\ p5 \in Scalar
    /\ r1 \in Scalar /\ r2 \in Scalar /\ r3 \in Scalar /\ r4 \in Scalar /\ r5 \in Scalar
    /\ sl \in Scalar /\ sr \in Scalar /\ k1 \in Scalar /\ k2 \in Scalar
    /\ lg \in Scalar /\ ag \in Scalar /\ rh \in Scalar /\ bh \in Scalar
    /\ Five(p1, p2, p3, p4, p5) = 0 /\ Five(r1, r2, r3, r4, r5) = 0
    /\ (lg ++ rh) ++ k1 = (((k2 ++ ag) ++ bh) ++ Neg(sl)) ++ Neg(sr)
  BY DEF TotalFits
<1>0. \A a \in Scalar : \E k \in Int : a = M(k)
  BY Reduced
<1>1. PICK P1, P2, P3, P4, P5 \in Int :
         p1 = M(P1) /\ p2 = M(P2) /\ p3 = M(P3) /\ p4 = M(P4) /\ p5 = M(P5)
  <2>1. PICK P1_ \in Int : p1 = M(P1_)
    BY <1>0
  <2>2. PICK P2_ \in Int : p2 = M(P2_)
    BY <1>0
  <2>3. PICK P3_ \in Int : p3 = M(P3_)
    BY <1>0
  <2>4. PICK P4_ \in Int : p4 = M(P4_)
    BY <1>0
  <2>5. PICK P5_ \in Int : p5 = M(P5_)
    BY <1>0
  <2> QED BY <2>1, <2>2, <2>3, <2>4, <2>5
<1>2. PICK R1, R2, R3, R4, R5 \in Int :
         r1 = M(R1) /\ r2 = M(R2) /\ r3 = M(R3) /\ r4 = M(R4) /\ r5 = M(R5)
  <2>1. PICK R1_ \in Int : r1 = M(R1_)
    BY <1>0
  <2>2. PICK R2_ \in Int : r2 = M(R2_)
    BY <1>0
  <2>3. PICK R3_ \in Int : r3 = M(R3_)
    BY <1>0
  <2>4. PICK R4_ \in Int : r4 = M(R4_)
    BY <1>0
  <2>5. PICK R5_ \in Int : r5 = M(R5_)
    BY <1>0
  <2> QED BY <2>1, <2>2, <2>3, <2>4, <2>5
<1>3. PICK SL, SR, K1, K2 \in Int :
         sl = M(SL) /\ sr = M(SR) /\ k1 = M(K1) /\ k2 = M(K2)
  <2>1. PICK SL_ \in Int : sl = M(SL_)
    BY <1>0
  <2>2. PICK SR_ \in Int : sr = M(SR_)
    BY <1>0
  <2>3. PICK K1_ \in Int : k1 = M(K1_)
    BY <1>0
  <2>4. PICK K2_ \in Int : k2 = M(K2_)
    BY <1>0
  <2> QED BY <2>1, <2>2, <2>3, <2>4
<1>4. PICK LG, AG, RH, BH \in Int :
         lg = M(LG) /\ ag = M(AG) /\ rh = M(RH) /\ bh = M(BH)
  <2>1. PICK LG_ \in Int : lg = M(LG_)
    BY <1>0
  <2>2. PICK AG_ \in Int : ag = M(AG_)
    BY <1>0
  <2>3. PICK RH_ \in Int : rh = M(RH_)
    BY <1>0
  <2>4. PICK BH_ \in Int : bh = M(BH_)
    BY <1>0
  <2> QED BY <2>1, <2>2, <2>3, <2>4
<1>5. \A a, b, c, d, e \in Int : Five(M(a), M(b), M(c), M(d), M(e)) = M((((a + b) + c) + d) + e)
  <2>1. ASSUME NEW a \in Int, NEW b \in Int, NEW c \in Int, NEW d \in Int, NEW e \in Int
        PROVE  Five(M(a), M(b), M(c), M(d), M(e)) = M((((a + b) + c) + d) + e)
    <3>1. PICK ab, abc, abcd \in Int : ab = a + b /\ abc = ab + c /\ abcd = abc + d
      OBVIOUS
    <3>2. M(a) ++ M(b) = M(ab)
      BY <3>1, Reduced
    <3>3. M(ab) ++ M(c) = M(abc)
      BY <3>1, Reduced
    <3>4. M(abc) ++ M(d) = M(abcd)
      BY <3>1, Reduced
    <3>5. M(abcd) ++ M(e) = M(abcd + e)
      BY <3>1, Reduced
    <3> QED BY <3>1, <3>2, <3>3, <3>4, <3>5 DEF Five
  <2> QED BY <2>1
<1>6. PICK X, Y \in Int : /\ X = (((P1 + P2) + P3) + P4) + P5
                          /\ Y = (((R1 + R2) + R3) + R4) + R5
  OBVIOUS
<1>7. M(X) = 0 /\ M(Y) = 0
  <2>1. Five(M(P1), M(P2), M(P3), M(P4), M(P5)) = M((((P1 + P2) + P3) + P4) + P5)
    BY <1>5
  <2>2. Five(M(R1), M(R2), M(R3), M(R4), M(R5)) = M((((R1 + R2) + R3) + R4) + R5)
    BY <1>5
  <2>3. M(X) = 0
    BY <1>1, <1>6, <2>1
  <2>4. M(Y) = 0
    BY <1>2, <1>6, <2>2
  <2> QED BY <2>3, <2>4
<1>8. PICK U, W \in Int : U = (LG + RH) + K1 /\ W = (((K2 + AG) + BH) - SL) - SR
  OBVIOUS
<1>9. (lg ++ rh) ++ k1 = M(U)
  <2>1. PICK a \in Int : a = LG + RH
    OBVIOUS
  <2>2. lg ++ rh = M(a) /\ M(a) ++ M(K1) = M(a + K1)
    BY <1>3, <1>4, <2>1, Reduced
  <2> QED BY <1>3, <1>8, <2>1, <2>2
<1>10. (((k2 ++ ag) ++ bh) ++ Neg(sl)) ++ Neg(sr) = M(W)
  <2>1. PICK a, b, c, nl, nr \in Int :
           a = K2 + AG /\ b = a + BH /\ nl = -SL /\ nr = -SR /\ c = b + nl
    OBVIOUS
  <2>2. Neg(sl) = M(nl) /\ Neg(sr) = M(nr)
    BY <1>3, <2>1, Reduced
  <2>3. k2 ++ ag = M(a)
    BY <1>3, <1>4, <2>1, Reduced
  <2>4. M(a) ++ M(BH) = M(b)
    BY <2>1, Reduced
  <2>5. M(b) ++ M(nl) = M(c)
    BY <2>1, Reduced
  <2>6. M(c) ++ M(nr) = M(c + nr)
    BY Reduced
  <2>7. c + nr = W
    BY <1>8, <2>1
  <2> QED BY <1>4, <2>2, <2>3, <2>4, <2>5, <2>6, <2>7
<1>11. M(U) -- M(W) = 0 /\ M(U - W) = 0
  <2>1. M(U) = M(W) /\ M(U) \in Scalar /\ M(U) -- M(W) = M(U - W)
    BY <1>9, <1>10, ScalarOfInt, Reduced
  <2> QED BY <2>1, Units
<1>12. PICK Z \in Int : Z = (X + Y) + (U - W)
  OBVIOUS
<1>13. M(Z) = 0
  <2>1. PICK a, b \in Int : a = X + Y /\ b = U - W
    OBVIOUS
  <2>2. M(a) = M(X) ++ M(Y) /\ M(Z) = M(a) ++ M(b)
    BY <1>12, <2>1, Reduced
  <2>3. 0 ++ 0 = 0
    BY ScalarClosed, Units
  <2> QED BY <1>7, <1>11, <2>1, <2>2, <2>3
<1>14. PICK t1, t2, t3, t4, t5, t6, t7, t8 \in Int :
         /\ t1 = P1 + P2 /\ t2 = t1 + R2 /\ t3 = t2 + R3 /\ t4 = t3 + SL /\ t5 = t4 + SR
         /\ t6 = P3 + R5 /\ t7 = K1 - K2 /\ t8 = t7 + R4
  OBVIOUS
<1>15. PICK t9, t10, t11, t12, t13, t14 \in Int :
         /\ t9 = t6 + t8 /\ t10 = t5 + t9 /\ t11 = P4 + LG /\ t12 = t11 - AG
         /\ t13 = P5 + RH /\ t14 = t13 - BH
  OBVIOUS
<1>16. PICK t15, t16 \in Int : t15 = t10 + t12 /\ t16 = t15 + t14
  OBVIOUS
<1>17. (((((p1 ++ p2) ++ r2) ++ r3) ++ sl) ++ sr) = M(t5)
  <2>1. p1 ++ p2 = M(t1)
    BY <1>1, <1>14, Reduced
  <2>2. M(t1) ++ r2 = M(t2)
    BY <1>2, <1>14, Reduced
  <2>3. M(t2) ++ r3 = M(t3)
    BY <1>2, <1>14, Reduced
  <2>4. M(t3) ++ sl = M(t4)
    BY <1>3, <1>14, Reduced
  <2>5. M(t4) ++ sr = M(t5)
    BY <1>3, <1>14, Reduced
  <2> QED BY <2>1, <2>2, <2>3, <2>4, <2>5
<1>18. (p3 ++ r5) ++ ((k1 -- k2) ++ r4) = M(t9)
  <2>1. p3 ++ r5 = M(t6)
    BY <1>1, <1>2, <1>14, Reduced
  <2>2. k1 -- k2 = M(t7)
    BY <1>3, <1>14, Reduced
  <2>3. M(t7) ++ r4 = M(t8)
    BY <1>2, <1>14, Reduced
  <2>4. M(t6) ++ M(t8) = M(t9)
    BY <1>14, <1>15, Reduced
  <2> QED BY <2>1, <2>2, <2>3, <2>4
<1>19. (p4 ++ lg) -- ag = M(t12) /\ (p5 ++ rh) -- bh = M(t14)
  <2>1. p4 ++ lg = M(t11)
    BY <1>1, <1>4, <1>15, Reduced
  <2>2. M(t11) -- ag = M(t12)
    BY <1>4, <1>15, Reduced
  <2>3. p5 ++ rh = M(t13)
    BY <1>1, <1>4, <1>15, Reduced
  <2>4. M(t13) -- bh = M(t14)
    BY <1>4, <1>15, Reduced
  <2> QED BY <2>1, <2>2, <2>3, <2>4
<1>20. ((M(t5) ++ M(t9)) ++ M(t12)) ++ M(t14) ++ r1 = M(t16 + R1)
  <2>1. M(t5) ++ M(t9) = M(t10)
    BY <1>15, Reduced
  <2>2. M(t10) ++ M(t12) = M(t15)
    BY <1>16, Reduced
  <2>3. M(t15) ++ M(t14) = M(t16)
    BY <1>16, Reduced
  <2>4. M(t16) ++ r1 = M(t16 + R1)
    BY <1>2, Reduced
  <2> QED BY <2>1, <2>2, <2>3, <2>4
<1>21. t16 + R1 = Z
  <2>1. t16 + R1 = ((((((((P1 + P2) + R2) + R3) + SL) + SR) + ((P3 + R5) + ((K1 - K2) + R4)))
                       + ((P4 + LG) - AG)) + ((P5 + RH) - BH)) + R1
    BY <1>14, <1>15, <1>16
  <2>2. Z = (((((P1 + P2) + P3) + P4) + P5) + ((((R1 + R2) + R3) + R4) + R5))
              + (((LG + RH) + K1) - ((((K2 + AG) + BH) - SL) - SR))
    BY <1>6, <1>8, <1>12
  <2> QED BY <2>1, <2>2, <1>1, <1>2, <1>3, <1>4
<1> QED BY <1>13, <1>17, <1>18, <1>19, <1>20, <1>21 DEF Total

\* The two combinations of an audit, generator by generator.
LEMMA VectorSumAt ==
  ASSUME NEW j, NEW bits, Sized(j, bits), NEW x \in Scalar, NEW e \in Scalar,
         NEW PA \in Point, NEW PS \in Point, NEW f \in Vec(bits), NEW h \in Vec(bits),
         NEW g \in Generator
  PROVE  VectorSum(j, bits, x, e, PA, PS, f, h)[g]
           = Five(PA[g], x ** PS[g], Neg(e) ** B_blinding[g],
                  multiscalar_mul(f, ShareGens("G", j, bits))[g],
                  multiscalar_mul(h, ShareGens("H", j, bits))[g])
<1>1. PICK s, p : s = <<1, x, Neg(e)>> /\ p = <<PA, PS, B_blinding>>
  OBVIOUS
<1>2. 1 \in Scalar /\ Neg(e) \in Scalar /\ B_blinding \in Point
  BY ScalarClosed, CommitAt
<1>3. /\ s \in Vec(3) /\ p \in PointVec(3)
      /\ multiscalar_mul(s, p)[g] = (1 ** PA[g] ++ x ** PS[g]) ++ Neg(e) ** B_blinding[g]
  BY <1>1, <1>2, MsmOfThree
<1>4. 1 ** PA[g] = PA[g]
  BY Units DEF Point
<1>5. PICK G, H : G = ShareGens("G", j, bits) /\ H = ShareGens("H", j, bits)
  OBVIOUS
<1>6. bits \in Nat /\ G \in PointVec(bits) /\ H \in PointVec(bits)
  BY <1>5, ShareGensType DEF Sized
<1>7. PairFits(3, s, p) /\ PairFits(bits, f, G) /\ PairFits(bits, h, H)
  BY <1>3, <1>6 DEF PairFits
<1>8. PICK s1, p1 : Joined(s1, p1, s, f, p, G)
  BY DEF Joined
<1>9. PairFits(3 + bits, s1, p1) /\ Adds(s1, p1, s, f, p, G)
  BY <1>7, <1>8, FitsThen
<1>10. PICK s2, p2 : Joined(s2, p2, s1, h, p1, H)
  BY DEF Joined
<1>11. Adds(s2, p2, s1, h, p1, H)
  BY <1>7, <1>9, <1>10, FitsThen
<1>12. VectorSum(j, bits, x, e, PA, PS, f, h) = multiscalar_mul(s2, p2)
  BY <1>1, <1>5, <1>8, <1>10 DEF VectorSum, Joined
<1> QED BY <1>3, <1>4, <1>5, <1>9, <1>11, <1>12 DEF Adds, Five

\* The scalars and points of one party's equation about its value.
ValuesFit(x, off, d, t, tb, P1, P2, P3) ==
    /\ x \in Scalar /\ off \in Scalar /\ d \in Scalar /\ t \in Scalar /\ tb \in Scalar
    /\ P1 \in Point /\ P2 \in Point /\ P3 \in Point

\* That equation at one generator is a sum of five.
LEMMA ValueSumAt ==
  ASSUME NEW x, NEW off, NEW d, NEW t, NEW tb, NEW P1, NEW P2, NEW P3,
         ValuesFit(x, off, d, t, tb, P1, P2, P3), NEW g \in Generator
  PROVE  ValueSum(x, off, d, t, tb, P1, P2, P3)[g]
           = Five(off ** P1[g], x ** P2[g], (x ** x) ** P3[g], (d -- t) ** B[g],
                  Neg(tb) ** B_blinding[g])
<1>0. /\ x \in Scalar /\ off \in Scalar /\ d \in Scalar /\ t \in Scalar /\ tb \in Scalar
      /\ P1 \in Point /\ P2 \in Point /\ P3 \in Point
  BY DEF ValuesFit
<1>1. PICK xx, dt, nb \in Scalar : xx = x ** x /\ dt = d -- t /\ nb = Neg(tb)
  BY <1>0, ScalarClosed
<1>2. B \in Point /\ B_blinding \in Point
  BY ScalarClosed, CommitAt
<1>3. IsFivePoints(FivePoints(off, x, xx, dt, nb, P1, P2, P3, B, B_blinding),
                   off, x, xx, dt, nb, P1, P2, P3, B, B_blinding)
  BY <1>0, <1>2, MsmOfFive
<1>4. ValueSum(x, off, d, t, tb, P1, P2, P3)
        = FivePoints(off, x, xx, dt, nb, P1, P2, P3, B, B_blinding)
  BY <1>1 DEF ValueSum, FivePoints
<1> QED BY <1>1, <1>3, <1>4 DEF IsFivePoints, Five

\* The messages of a session whose shares all pass the audit.
OfSizes(bits, size) == bits \in 1..GensCapacity /\ size \in 1..PartyCapacity

\* Messages of every party, each of which the audit of the dealer passes.
AreMessages(sh, bc, pc, bits, size, y, z, x) ==
    \A k \in 1..size :
        /\ bc[k].V_j \in Point /\ bc[k].A_j \in Point /\ bc[k].S_j \in Point
        /\ pc[k].T_1_j \in Point /\ pc[k].T_2_j \in Point
        /\ sh[k].l_vec \in Vec(bits) /\ sh[k].r_vec \in Vec(bits)
        /\ sh[k].t_x \in Scalar /\ sh[k].t_x_blinding \in Scalar
        /\ sh[k].e_blinding \in Scalar
        /\ AuditPasses(sh[k], k - 1, bc[k], pc[k], y, z, x)

\* The sizes of a session are those the generators and the parties have.
LEMMA SizesFit ==
  ASSUME NEW bits, NEW size, OfSizes(bits, size)
  PROVE  /\ bits \in Nat \ {0} /\ size \in Nat
         /\ \A k \in 1..size : Sized(k - 1, bits) /\ k - 1 \in Nat
BY CapacityAssumption DEF OfSizes, Sized

\* What each audit looks at is nothing at every generator.
LEMMA PartsAreNothing ==
  ASSUME NEW bits, NEW size, OfSizes(bits, size),
         NEW y \in Scalar \ {0}, NEW z \in Scalar \ {0}, NEW x \in Scalar,
         NEW sh, NEW bc, NEW pc, AreMessages(sh, bc, pc, bits, size, y, z, x),
         NEW k \in 1..size, NEW g \in Generator
  PROVE  /\ Five(bc[k].A_j[g], x ** bc[k].S_j[g], Neg(sh[k].e_blinding) ** B_blinding[g],
                 multiscalar_mul(OfFirst(bits, z, sh[k].l_vec), ShareGens("G", k - 1, bits))[g],
                 multiscalar_mul(OfSecond(k - 1, bits, y, z, sh[k].r_vec),
                                 ShareGens("H", k - 1, bits))[g]) = 0
         /\ Five(Offset(z, k - 1) ** bc[k].V_j[g], x ** pc[k].T_1_j[g],
                 (x ** x) ** pc[k].T_2_j[g],
                 (DeltaOf(k - 1, bits, y, z) -- sh[k].t_x) ** B[g],
                 Neg(sh[k].t_x_blinding) ** B_blinding[g]) = 0
         /\ sh[k].t_x = inner_product(sh[k].l_vec, sh[k].r_vec)
<1>1. PICK s, b, p, j : s = sh[k] /\ b = bc[k] /\ p = pc[k] /\ j = k - 1
  OBVIOUS
<1>2. Sized(j, bits) /\ bits \in Nat /\ j \in Nat
  BY <1>1, SizesFit
<1>3. /\ b.V_j \in Point /\ b.A_j \in Point /\ b.S_j \in Point
      /\ p.T_1_j \in Point /\ p.T_2_j \in Point
      /\ s.l_vec \in Vec(bits) /\ s.r_vec \in Vec(bits)
      /\ s.t_x \in Scalar /\ s.t_x_blinding \in Scalar /\ s.e_blinding \in Scalar
      /\ AuditPasses(s, j, b, p, y, z, x)
  BY <1>1 DEF AreMessages
<1>4. PICK f, h : f = OfFirst(bits, z, s.l_vec) /\ h = OfSecond(j, bits, y, z, s.r_vec)
  OBVIOUS
<1>5. f \in Vec(bits) /\ h \in Vec(bits)
  BY <1>2, <1>3, <1>4, VectorScalars
<1>6. PICK off, d : off = Offset(z, j) /\ d = DeltaOf(j, bits, y, z)
  OBVIOUS
<1>7. off \in Scalar
  BY <1>2, <1>6, StartAndOffset
<1>8. d \in Scalar
  <2>1. PICK la, ra, rb : ArePolynomials(Polynomials(j, 0, bits, y, z), la, ra, rb, j, 0, bits, y, z)
    BY <1>2, PolynomialsAre
  <2> QED BY <1>2, <1>6, <2>1, ConstantCoefficient DEF ArePolynomials
<1>9. /\ s.t_x = inner_product(s.l_vec, s.r_vec)
      /\ Identity = VectorSum(j, bits, x, s.e_blinding, b.A_j, b.S_j, f, h)
      /\ Identity = ValueSum(x, off, d, s.t_x, s.t_x_blinding, b.V_j, p.T_1_j, p.T_2_j)
  <2>1. AuditPasses(s, j, b, p, y, z, x) <=>
           /\ s.t_x = inner_product(s.l_vec, s.r_vec)
           /\ Identity = VectorSum(j, bits, x, s.e_blinding, b.A_j, b.S_j,
                                   OfFirst(bits, z, s.l_vec),
                                   OfSecond(j, bits, y, z, s.r_vec))
           /\ Identity = ValueSum(x, Offset(z, j), DeltaOf(j, bits, y, z), s.t_x,
                                  s.t_x_blinding, b.V_j, p.T_1_j, p.T_2_j)
    BY <1>2, <1>3, AuditIs
  <2> QED BY <1>3, <1>4, <1>6, <2>1
<1>10. Identity[g] = 0
  BY DEF Identity
<1>11. VectorSum(j, bits, x, s.e_blinding, b.A_j, b.S_j, f, h)[g]
         = Five(b.A_j[g], x ** b.S_j[g], Neg(s.e_blinding) ** B_blinding[g],
                multiscalar_mul(f, ShareGens("G", j, bits))[g],
                multiscalar_mul(h, ShareGens("H", j, bits))[g])
  <2>1. PICK e \in Scalar, PA \in Point, PS \in Point :
           e = s.e_blinding /\ PA = b.A_j /\ PS = b.S_j
    BY <1>3
  <2>2. VectorSum(j, bits, x, e, PA, PS, f, h)[g]
          = Five(PA[g], x ** PS[g], Neg(e) ** B_blinding[g],
                 multiscalar_mul(f, ShareGens("G", j, bits))[g],
                 multiscalar_mul(h, ShareGens("H", j, bits))[g])
    BY <1>2, <1>5, VectorSumAt
  <2> QED BY <2>1, <2>2
<1>12. ValueSum(x, off, d, s.t_x, s.t_x_blinding, b.V_j, p.T_1_j, p.T_2_j)[g]
         = Five(off ** b.V_j[g], x ** p.T_1_j[g], (x ** x) ** p.T_2_j[g],
                (d -- s.t_x) ** B[g], Neg(s.t_x_blinding) ** B_blinding[g])
  <2>1. PICK t, tb \in Scalar : t = s.t_x /\ tb = s.t_x_blinding
    BY <1>3
  <2>2. PICK P1, P2, P3 \in Point : P1 = b.V_j /\ P2 = p.T_1_j /\ P3 = p.T_2_j
    BY <1>3
  <2>0. ValuesFit(x, off, d, t, tb, P1, P2, P3)
    BY <1>7, <1>8 DEF ValuesFit
  <2>3. ValueSum(x, off, d, t, tb, P1, P2, P3)[g]
          = Five(off ** P1[g], x ** P2[g], (x ** x) ** P3[g], (d -- t) ** B[g],
                 Neg(tb) ** B_blinding[g])
    BY <2>0, ValueSumAt
  <2> QED BY <2>1, <2>2, <2>3
<1> QED BY <1>1, <1>4, <1>6, <1>9, <1>10, <1>11, <1>12

\* The sign of a product may stand with either factor, here in the blinding.
LEMMA NegMoves ==
  ASSUME NEW e \in Scalar, NEW b \in Scalar
  PROVE  Neg(1) ** b \in Scalar /\ Neg(e) ** b = (Neg(1) ** b) ** e
<1>1. PICK n1 \in Scalar : n1 = Neg(1) /\ Neg(e) = n1 ** e
  BY NegScales
<1>2. (n1 ** e) ** b = n1 ** (e ** b)
  BY MulAssociates
<1>3. (n1 ** b) ** e = n1 ** (b ** e)
  BY MulAssociates
<1>4. e ** b = b ** e /\ n1 ** b \in Scalar
  BY MulCommutes, ScalarClosed
<1> QED BY <1>1, <1>2, <1>3, <1>4

\* One combination for all parties, of what the audits look at first.
AllVectors(sh, bits, size, y, z, F, H) ==
    /\ F \in Vec(bits * size) /\ H \in Vec(bits * size)
    /\ \A k \in 1..size : /\ Block(F, bits, k) = OfFirst(bits, z, sh[k].l_vec)
                          /\ Block(H, bits, k) = OfSecond(k - 1, bits, y, z, sh[k].r_vec)

\* The equations of the parties about their vectors add up to one about the sums of
\* their commitments and the joint vectors.
LEMMA VectorsAddUp ==
  ASSUME NEW bits, NEW size, OfSizes(bits, size),
         NEW y \in Scalar \ {0}, NEW z \in Scalar \ {0}, NEW x \in Scalar,
         NEW sh, NEW bc, NEW pc, AreMessages(sh, bc, pc, bits, size, y, z, x),
         NEW F, NEW H, AllVectors(sh, bits, size, y, z, F, H),
         NEW PA, PA = [k \in 1..size |-> bc[k].A_j],
         NEW PS, PS = [k \in 1..size |-> bc[k].S_j],
         NEW ve, ve = [k \in 1..size |-> sh[k].e_blinding],
         NEW g \in Generator
  PROVE  /\ SumOfPoints(PA) \in Point /\ SumOfPoints(PS) \in Point /\ ve \in Vec(size)
         /\ Five(SumOfPoints(PA)[g], x ** SumOfPoints(PS)[g], Neg(SumOf(ve)) ** B_blinding[g],
                 multiscalar_mul(F, AggregatedGens("G", bits, size))[g],
                 multiscalar_mul(H, AggregatedGens("H", bits, size))[g]) = 0
<1>1. bits \in Nat \ {0} /\ size \in Nat
  BY SizesFit
<1>2. PA \in PointVec(size) /\ PS \in PointVec(size) /\ ve \in Vec(size)
  BY DEF AreMessages, PointVec, Vec
<1>3. PICK v1 \in Vec(size) : /\ \A k \in 1..size : v1[k] = PA[k][g]
                             /\ SumOfPoints(PA)[g] = SumOf(v1)
  BY <1>1, <1>2, SumOfPointsIs
<1>4. PICK u2 \in Vec(size) : /\ \A k \in 1..size : u2[k] = PS[k][g]
                             /\ SumOfPoints(PS)[g] = SumOf(u2)
  BY <1>1, <1>2, SumOfPointsIs
<1>5. SumOfPoints(PA) \in Point /\ SumOfPoints(PS) \in Point
  BY <1>1, <1>2, SumOfPointsIs
<1>6. PICK v2 \in Vec(size) : /\ \A k \in 1..size : v2[k] = x ** u2[k]
                             /\ SumOf(v2) = x ** SumOf(u2)
  BY <1>1, ScaledSum
<1>7. PICK b \in Scalar : b = B_blinding[g]
  BY CommitAt, ScalarClosed DEF Point
<1>8. PICK nb \in Scalar : nb = Neg(1) ** b
  BY NegMoves, ScalarClosed
<1>10. PICK v3 \in Vec(size) : /\ \A k \in 1..size : v3[k] = nb ** ve[k]
                              /\ SumOf(v3) = nb ** SumOf(ve)
  BY <1>1, <1>2, ScaledSum
<1>11. SumOf(ve) \in Scalar
  BY <1>1, <1>2, SumClosed
<1>12. SumOf(v3) = Neg(SumOf(ve)) ** b
  BY <1>8, <1>10, <1>11, NegMoves
<1>13. PICK v4 : v4 = [k \in 1..size |->
                          multiscalar_mul(Block(F, bits, k), ShareGens("G", k - 1, bits))[g]]
  OBVIOUS
<1>14. PICK v5 : v5 = [k \in 1..size |->
                          multiscalar_mul(Block(H, bits, k), ShareGens("H", k - 1, bits))[g]]
  OBVIOUS
<1>15. ASSUME NEW f \in Vec(bits * size), NEW letter, NEW k \in 1..size
       PROVE  multiscalar_mul(Block(f, bits, k), ShareGens(letter, k - 1, bits))[g] \in Scalar
  <2>1. PICK s, P : s = Block(f, bits, k) /\ P = ShareGens(letter, k - 1, bits)
    OBVIOUS
  <2>2. s \in Vec(bits) /\ P \in PointVec(bits)
    BY <1>1, <2>1, BlockType, ShareGensType
  <2>3. multiscalar_mul(s, P) \in Point
    BY <1>1, <2>2, MsmType
  <2> QED BY <2>1, <2>3 DEF Point
<1>16. F \in Vec(bits * size) /\ H \in Vec(bits * size)
  BY DEF AllVectors
<1>17. v4 \in Vec(size) /\ v5 \in Vec(size)
  BY <1>13, <1>14, <1>15, <1>16 DEF Vec
<1>18. multiscalar_mul(F, AggregatedGens("G", bits, size))[g] = SumOf(v4)
  <2>1. \A k \in 1..size :
           v4[k] = multiscalar_mul(Block(F, bits, k), ShareGens("G", k - 1, bits))[g]
    BY <1>13
  <2>2. v4 \in Vec(size) /\ F \in Vec(bits * size)
    BY <1>16, <1>17
  <2> QED BY <1>1, <2>1, <2>2, MsmOfAggregated
<1>19. multiscalar_mul(H, AggregatedGens("H", bits, size))[g] = SumOf(v5)
  <2>1. \A k \in 1..size :
           v5[k] = multiscalar_mul(Block(H, bits, k), ShareGens("H", k - 1, bits))[g]
    BY <1>14
  <2>2. v5 \in Vec(size) /\ H \in Vec(bits * size)
    BY <1>16, <1>17
  <2> QED BY <1>1, <2>1, <2>2, MsmOfAggregated
<1>20. ASSUME NEW k \in 1..size
       PROVE  Five(v1[k], v2[k], v3[k], v4[k], v5[k]) = 0
  <2>1. Five(bc[k].A_j[g], x ** bc[k].S_j[g], Neg(sh[k].e_blinding) ** B_blinding[g],
             multiscalar_mul(OfFirst(bits, z, sh[k].l_vec), ShareGens("G", k - 1, bits))[g],
             multiscalar_mul(OfSecond(k - 1, bits, y, z, sh[k].r_vec),
                             ShareGens("H", k - 1, bits))[g]) = 0
    BY PartsAreNothing
  <2>2. v1[k] = bc[k].A_j[g] /\ v2[k] = x ** bc[k].S_j[g]
    BY <1>3, <1>4, <1>6
  <2>3. v3[k] = Neg(sh[k].e_blinding) ** B_blinding[g]
    <3>1. PICK e \in Scalar : e = ve[k] /\ e = sh[k].e_blinding
      BY <1>2 DEF Vec
    <3>2. Neg(e) ** b = nb ** e
      BY <1>8, NegMoves
    <3> QED BY <1>7, <1>10, <3>1, <3>2
  <2>4. Block(F, bits, k) = OfFirst(bits, z, sh[k].l_vec)
        /\ Block(H, bits, k) = OfSecond(k - 1, bits, y, z, sh[k].r_vec)
    BY DEF AllVectors
  <2>5. v4[k] = multiscalar_mul(OfFirst(bits, z, sh[k].l_vec), ShareGens("G", k - 1, bits))[g]
    BY <1>13, <2>4
  <2>6. v5[k] = multiscalar_mul(OfSecond(k - 1, bits, y, z, sh[k].r_vec),
                                ShareGens("H", k - 1, bits))[g]
    BY <1>14, <2>4
  <2> QED BY <2>1, <2>2, <2>3, <2>5, <2>6
<1>21. AddsToNothing(size, v1, v2, v3, v4, v5)
  BY <1>17, <1>20 DEF AddsToNothing
<1>22. Five(SumOf(v1), SumOf(v2), SumOf(v3), SumOf(v4), SumOf(v5)) = 0
  BY <1>1, <1>21, SumsOfFive
<1> QED BY <1>2, <1>3, <1>4, <1>5, <1>6, <1>7, <1>12, <1>18, <1>19, <1>22

\* The commitments to the polynomials, the values at the challenge and the offset
\* value commitments, party by party.
OfPolys(P1, P2, pc, size) ==
    P1 = [k \in 1..size |-> pc[k].T_1_j] /\ P2 = [k \in 1..size |-> pc[k].T_2_j]
\* Likewise.
OfValues(vt, vb, sh, size) ==
    vt = [k \in 1..size |-> sh[k].t_x] /\ vb = [k \in 1..size |-> sh[k].t_x_blinding]
\* Likewise.
OfOffsets(vo, bc, size, z, g) == vo = [k \in 1..size |-> Offset(z, k - 1) ** bc[k].V_j[g]]

\* And of what they look at second.
LEMMA ValuesAddUp ==
  ASSUME NEW bits, NEW size, OfSizes(bits, size),
         NEW y \in Scalar \ {0}, NEW z \in Scalar \ {0}, NEW x \in Scalar,
         NEW sh, NEW bc, NEW pc, AreMessages(sh, bc, pc, bits, size, y, z, x),
         NEW P1, NEW P2, OfPolys(P1, P2, pc, size), NEW vt, NEW vb, OfValues(vt, vb, sh, size),
         NEW g \in Generator, NEW vo, OfOffsets(vo, bc, size, z, g)
  PROVE  /\ SumOfPoints(P1) \in Point /\ SumOfPoints(P2) \in Point
         /\ vt \in Vec(size) /\ vb \in Vec(size) /\ vo \in Vec(size)
         /\ Delta(bits, size, y, z) \in Scalar
         /\ Five(SumOf(vo), x ** SumOfPoints(P1)[g], (x ** x) ** SumOfPoints(P2)[g],
                 (Delta(bits, size, y, z) -- SumOf(vt)) ** B[g],
                 Neg(SumOf(vb)) ** B_blinding[g]) = 0
<1> USE DEF OfPolys, OfValues, OfOffsets
<1>1. bits \in Nat \ {0} /\ size \in Nat
  BY SizesFit
<1>2. P1 \in PointVec(size) /\ P2 \in PointVec(size) /\ vt \in Vec(size) /\ vb \in Vec(size)
  BY DEF AreMessages, PointVec, Vec
<1>3. PICK u1 \in Vec(size) : /\ \A k \in 1..size : u1[k] = P1[k][g]
                             /\ SumOfPoints(P1)[g] = SumOf(u1)
  BY <1>1, <1>2, SumOfPointsIs
<1>4. PICK u2 \in Vec(size) : /\ \A k \in 1..size : u2[k] = P2[k][g]
                             /\ SumOfPoints(P2)[g] = SumOf(u2)
  BY <1>1, <1>2, SumOfPointsIs
<1>30. SumOfPoints(P1) \in Point /\ SumOfPoints(P2) \in Point
  BY <1>1, <1>2, SumOfPointsIs
<1>5. PICK xx \in Scalar : xx = x ** x
  BY ScalarClosed
<1>6. PICK v2 \in Vec(size) : /\ \A k \in 1..size : v2[k] = x ** u1[k]
                             /\ SumOf(v2) = x ** SumOf(u1)
  BY <1>1, ScaledSum
<1>7. PICK v3 \in Vec(size) : /\ \A k \in 1..size : v3[k] = xx ** u2[k]
                             /\ SumOf(v3) = xx ** SumOf(u2)
  BY <1>1, ScaledSum
<1>29. B \in Point /\ B_blinding \in Point
  BY CommitAt, ScalarClosed
<1>8. PICK b, c \in Scalar : b = B_blinding[g] /\ c = B[g]
  BY <1>29 DEF Point
<1>9. PICK nb, n1 \in Scalar : nb = Neg(1) ** b /\ n1 = Neg(1)
  BY NegMoves, NegScales, ScalarClosed
<1>11. PICK v5 \in Vec(size) : /\ \A k \in 1..size : v5[k] = nb ** vb[k]
                             /\ SumOf(v5) = nb ** SumOf(vb)
  BY <1>1, <1>2, ScaledSum
<1>12. SumOf(v5) = Neg(SumOf(vb)) ** b
  BY <1>1, <1>2, <1>8, <1>9, <1>11, NegMoves, SumClosed
<1>13. PICK vd : vd = [k \in 1..size |-> DeltaOf(k - 1, bits, y, z)]
  OBVIOUS
<1>14. vd \in Vec(size)
  <2>1. ASSUME NEW k \in 1..size PROVE DeltaOf(k - 1, bits, y, z) \in Scalar
    <3>1. PICK j : j = k - 1
      OBVIOUS
    <3>2. Sized(j, bits) /\ j \in Nat
      BY <3>1, SizesFit
    <3>3. PICK la, ra, rb :
             ArePolynomials(Polynomials(j, 0, bits, y, z), la, ra, rb, j, 0, bits, y, z)
      BY <3>2, PolynomialsAre
    <3> QED BY <3>1, <3>2, <3>3, ConstantCoefficient DEF ArePolynomials
  <2> QED BY <1>13, <2>1 DEF Vec
<1>15. Delta(bits, size, y, z) = SumOf(vd) /\ SumOf(vd) \in Scalar
  BY <1>1, <1>13, <1>14, DeltaAddsUp, SumClosed
<1>17. PICK vn \in Vec(size) : /\ \A k \in 1..size : vn[k] = n1 ** vt[k]
                             /\ SumOf(vn) = n1 ** SumOf(vt)
  BY <1>1, <1>2, ScaledSum
<1>18. PICK vs \in Vec(size) : /\ \A k \in 1..size : vs[k] = vd[k] ++ vn[k]
                               /\ SumOf(vs) = SumOf(vd) ++ SumOf(vn)
  BY <1>1, <1>14, <1>17, AddsTo
<1>19. SumOf(vs) = Delta(bits, size, y, z) -- SumOf(vt) /\ SumOf(vs) \in Scalar
  <2>1. Neg(SumOf(vt)) = n1 ** SumOf(vt)
    BY <1>1, <1>2, <1>9, SumClosed, NegScales
  <2> QED BY <1>1, <1>15, <1>17, <1>18, <2>1, SumClosed DEF --
<1>21. PICK v4 \in Vec(size) : /\ \A k \in 1..size : v4[k] = c ** vs[k]
                             /\ SumOf(v4) = c ** SumOf(vs)
  BY <1>1, <1>18, ScaledSum
<1>22. SumOf(v4) = (Delta(bits, size, y, z) -- SumOf(vt)) ** B[g]
  BY <1>8, <1>19, <1>21, MulCommutes
<1>23. vo \in Vec(size)
  <2>1. ASSUME NEW k \in 1..size PROVE Offset(z, k - 1) ** bc[k].V_j[g] \in Scalar
    <3>1. PICK j, V : j = k - 1 /\ V = bc[k].V_j
      OBVIOUS
    <3>2. Sized(j, bits) /\ V \in Point
      BY <3>1, SizesFit DEF AreMessages
    <3>3. Offset(z, j) \in Scalar /\ V[g] \in Scalar
      BY <3>2, StartAndOffset DEF Point
    <3> QED BY <3>1, <3>3, ScalarClosed
  <2> QED BY <2>1 DEF Vec
<1>24. ASSUME NEW k \in 1..size
       PROVE  Five(vo[k], v2[k], v3[k], v4[k], v5[k]) = 0
  <2>1. Five(Offset(z, k - 1) ** bc[k].V_j[g], x ** pc[k].T_1_j[g], (x ** x) ** pc[k].T_2_j[g],
             (DeltaOf(k - 1, bits, y, z) -- sh[k].t_x) ** B[g],
             Neg(sh[k].t_x_blinding) ** B_blinding[g]) = 0
    BY PartsAreNothing
  <2>2. vo[k] = Offset(z, k - 1) ** bc[k].V_j[g]
    OBVIOUS
  <2>3. v2[k] = x ** pc[k].T_1_j[g] /\ v3[k] = (x ** x) ** pc[k].T_2_j[g]
    BY <1>3, <1>4, <1>5, <1>6, <1>7
  <2>4. v5[k] = Neg(sh[k].t_x_blinding) ** B_blinding[g]
    <3>1. PICK e \in Scalar : e = vb[k] /\ e = sh[k].t_x_blinding
      BY <1>2 DEF Vec
    <3>2. Neg(e) ** b = nb ** e
      BY <1>9, NegMoves
    <3> QED BY <1>8, <1>11, <3>1, <3>2
  <2>5. v4[k] = (DeltaOf(k - 1, bits, y, z) -- sh[k].t_x) ** B[g]
    <3>1. PICK t \in Scalar, d \in Scalar : /\ t = vt[k] /\ t = sh[k].t_x
                                           /\ d = vd[k] /\ d = DeltaOf(k - 1, bits, y, z)
      BY <1>2, <1>13, <1>14 DEF Vec
    <3>2. Neg(t) = n1 ** t
      BY <1>9, NegScales
    <3>3. vs[k] = d -- t
      BY <1>17, <1>18, <3>1, <3>2 DEF --
    <3>4. d -- t \in Scalar
      BY ScalarClosed
    <3> QED BY <1>8, <1>21, <3>1, <3>3, <3>4, MulCommutes
  <2> QED BY <2>1, <2>2, <2>3, <2>4, <2>5
<1>25. AddsToNothing(size, vo, v2, v3, v4, v5)
  BY <1>7, <1>11, <1>21, <1>23, <1>24 DEF AddsToNothing
<1>26. Five(SumOf(vo), SumOf(v2), SumOf(v3), SumOf(v4), SumOf(v5)) = 0
  BY <1>1, <1>25, SumsOfFive
<1> QED BY <1>2, <1>3, <1>4, <1>30, <1>6, <1>5, <1>7, <1>8, <1>12, <1>15, <1>22, <1>23, <1>26

\* The shares' vectors, one after the other, as the dealer joins them.
Joint(sh, f, bits, size) ==
    [k \in 1 .. bits * size |-> sh[(k - 1) \div bits + 1][f][((k - 1) % bits) + 1]]

\* The joint vector has the vector of every party as a block.
LEMMA JointIs ==
  ASSUME NEW bits, NEW size, OfSizes(bits, size), NEW sh, NEW f,
         \A k \in 1..size : sh[k][f] \in Vec(bits)
  PROVE  /\ Joint(sh, f, bits, size) \in Vec(bits * size)
         /\ \A k \in 1..size : Block(Joint(sh, f, bits, size), bits, k) = sh[k][f]
<1>1. bits \in Nat \ {0} /\ size \in Nat
  BY SizesFit
<1>2. PICK J : J = Joint(sh, f, bits, size)
  OBVIOUS
<1>3. ASSUME NEW k \in 1 .. bits * size PROVE J[k] \in Scalar
  <2>1. PICK j, i : j = (k - 1) \div bits /\ i = ((k - 1) % bits) + 1
    OBVIOUS
  <2>2. j \in 0 .. size - 1 /\ i \in 1..bits
    BY <1>1, <2>1, PlaceIs
  <2>3. j + 1 \in 1..size
    BY <1>1, <2>2
  <2>4. J[k] = sh[j + 1][f][i]
    BY <1>2, <2>1 DEF Joint
  <2> QED BY <2>2, <2>3, <2>4 DEF Vec
<1>4. J \in Vec(bits * size)
  BY <1>2, <1>3 DEF Joint, Vec
<1>6. PICK N \in Nat : N = bits * size
  BY <1>1
<1>5. ASSUME NEW k \in 1..size PROVE Block(J, bits, k) = sh[k][f]
  <2>1. PICK j : j = k - 1 /\ j \in 0 .. size - 1 /\ j + 1 = k
    BY <1>1
  <2>2. ASSUME NEW i \in 1..bits PROVE J[At1(bits, j, i)] = sh[k][f][i]
    <3>1. PICK p : p = At1(bits, j, i)
      OBVIOUS
    <3>2. j \in 0 .. size - 1
      BY <2>1
    <3>3. p \in 1..N /\ (p - 1) \div bits = j /\ ((p - 1) % bits) + 1 = i
      BY <1>1, <1>6, <3>1, <3>2, PlaceIs
    <3> QED BY <1>2, <1>6, <2>1, <3>1, <3>3 DEF Joint
  <2>3. sh[k][f] = [i \in 1..bits |-> sh[k][f][i]]
    BY DEF Vec
  <2> QED BY <2>1, <2>2, <2>3 DEF Block
<1> QED BY <1>2, <1>4, <1>5

\* The inner product of the joint vectors is the sum of the shares'.
LEMMA ProductsAddUp ==
  ASSUME NEW bits, NEW size, OfSizes(bits, size),
         NEW a \in Vec(bits * size), NEW b \in Vec(bits * size), NEW v \in Vec(size),
         \A k \in 1..size : v[k] = inner_product(Block(a, bits, k), Block(b, bits, k))
  PROVE  inner_product(a, b) = SumOf(v)
<1>1. bits \in Nat \ {0} /\ size \in Nat
  BY SizesFit
<1>2. PICK N \in Nat : N = bits * size
  BY <1>1
<1>3. PICK f : f = Times(a, b)
  OBVIOUS
<1>4. f \in Vec(N) /\ \A i \in 1..N : f[i] = a[i] ** b[i]
  BY <1>2, <1>3, TimesType
<1>5. inner_product(a, b) = SumOf(f)
  BY <1>2, <1>3, InnerProductIsDot DEF Dot
<1>6. ASSUME NEW k \in 1..size PROVE v[k] = SumOf(Block(f, bits, k))
  <2>1. PICK c, d : c = Block(a, bits, k) /\ d = Block(b, bits, k)
    OBVIOUS
  <2>2. c \in Vec(bits) /\ d \in Vec(bits)
    BY <1>1, <2>1, BlockType
  <2>3. v[k] = SumOf(Times(c, d))
    BY <1>1, <2>1, <2>2, InnerProductIsDot DEF Dot
  <2>4. PICK j : j = k - 1 /\ j \in 0 .. size - 1
    BY <1>1
  <2>5. ASSUME NEW i \in 1..bits PROVE f[At1(bits, j, i)] = c[i] ** d[i]
    <3>1. At1(bits, j, i) \in 1..N
      BY <1>1, <1>2, <2>4, PlaceIs
    <3>2. c[i] = a[At1(bits, j, i)] /\ d[i] = b[At1(bits, j, i)]
      BY <2>1, <2>4 DEF Block
    <3> QED BY <1>4, <3>1, <3>2
  <2>6. Times(c, d) = [i \in 1..bits |-> c[i] ** d[i]]
    BY <2>2 DEF Times, Vec
  <2>7. Block(f, bits, k) = Times(c, d)
    BY <2>4, <2>5, <2>6 DEF Block
  <2> QED BY <2>3, <2>7
<1> QED BY <1>1, <1>2, <1>4, <1>5, <1>6, SumOfBlocks

\* What the verifier's vectors are before the inner-product argument's part.
OfAllFirst(N, z, L) == [i \in 1..N |-> Neg(z) -- L[i]]
\* The scalars of all the second generators, as the first ones above.
OfAllSecond(bits, size, y, z, R) ==
  [i \in 1 .. bits * size |->
      z ++ exp_iter(Invert(y), bits * size)[i]
             ** ((z ** z) ** ConcatZAnd2(bits, size, z)[i] -- R[i])]

\* A power of two times a power of z, in either order.
LEMMA SecondEntry ==
  ASSUME NEW zz \in Scalar, NEW p \in Scalar, NEW t \in Scalar
  PROVE  zz ** (t ** p) = (zz ** p) ** t
<1>1. t ** p = p ** t
  BY MulCommutes
<1> QED BY <1>1, MulAssociates

\* Block by block they are the scalars of the parties' own equations.
LEMMA AllVectorsAre ==
  ASSUME NEW bits, NEW size, OfSizes(bits, size),
         NEW y \in Scalar \ {0}, NEW z \in Scalar \ {0}, NEW sh,
         NEW L \in Vec(bits * size), NEW R \in Vec(bits * size),
         \A k \in 1..size : /\ sh[k].l_vec \in Vec(bits) /\ sh[k].r_vec \in Vec(bits)
                            /\ Block(L, bits, k) = sh[k].l_vec
                            /\ Block(R, bits, k) = sh[k].r_vec
  PROVE  AllVectors(sh, bits, size, y, z, OfAllFirst(bits * size, z, L),
                    OfAllSecond(bits, size, y, z, R))
<1>1. bits \in Nat \ {0} /\ size \in Nat
  BY SizesFit
<1>2. PICK N \in Nat : N = bits * size
  BY <1>1
<1>3. PICK u \in Scalar : u = Invert(y)
  BY Inverses
<1>4. PICK e1, e2, e3 : /\ e1 = exp_iter(u, N) /\ e2 = exp_iter(2, bits)
                        /\ e3 = exp_iter(z, size)
  OBVIOUS
<1>5. 2 \in Scalar
  BY LargeOrderAssumption, OrderAssumption DEF Scalar
<1>6. /\ e1 \in Vec(N) /\ \A i \in 1..N : e1[i] = Power(u, i - 1)
      /\ e2 \in Vec(bits)
      /\ e3 \in Vec(size) /\ \A k \in 1..size : e3[k] = Power(z, k - 1)
  BY <1>1, <1>3, <1>4, <1>5, ExpIterIs
<1>7. PICK c : c = ConcatZAnd2(bits, size, z)
  OBVIOUS
<1>8. ASSUME NEW j \in 0 .. size - 1, NEW i \in 1..bits
      PROVE  /\ At1(bits, j, i) \in 1..N
             /\ c[At1(bits, j, i)] = e2[i] ** e3[j + 1]
  <2>1. PICK p : p = At1(bits, j, i)
    OBVIOUS
  <2>2. p \in 1..N /\ (p - 1) \div bits = j /\ ((p - 1) % bits) + 1 = i
    BY <1>1, <1>2, <2>1, PlaceIs
  <2> QED BY <1>2, <1>4, <1>7, <2>1, <2>2 DEF ConcatZAnd2
<1>9. ASSUME NEW k \in 1..N PROVE c[k] \in Scalar
  <2>1. PICK j, i : j = (k - 1) \div bits /\ i = ((k - 1) % bits) + 1
    OBVIOUS
  <2>2. j \in 0 .. size - 1 /\ i \in 1..bits /\ k = At1(bits, j, i)
    BY <1>1, <1>2, <2>1, PlaceIs
  <2>3. j + 1 \in 1..size
    BY <1>1, <2>2
  <2>4. c[k] = e2[i] ** e3[j + 1]
    BY <1>8, <2>2
  <2>5. e2[i] \in Scalar /\ e3[j + 1] \in Scalar
    BY <1>6, <2>2, <2>3 DEF Vec
  <2> QED BY <2>4, <2>5, ScalarClosed
<1>10. PICK zz \in Scalar : zz = z ** z
  BY ScalarClosed
<1>11. PICK F, H : F = OfAllFirst(N, z, L) /\ H = OfAllSecond(bits, size, y, z, R)
  OBVIOUS
<1>12. H = [i \in 1..N |-> z ++ e1[i] ** (zz ** c[i] -- R[i])]
  BY <1>2, <1>3, <1>4, <1>7, <1>10, <1>11 DEF OfAllSecond
<1>13. F \in Vec(N)
  <2>1. \A i \in 1..N : Neg(z) -- L[i] \in Scalar
    BY <1>2, ScalarClosed DEF Vec
  <2> QED BY <1>11, <2>1 DEF OfAllFirst, Vec
<1>14. H \in Vec(N)
  <2>1. ASSUME NEW i \in 1..N PROVE z ++ e1[i] ** (zz ** c[i] -- R[i]) \in Scalar
    <3>1. e1[i] \in Scalar /\ R[i] \in Scalar
      BY <1>2, <1>6 DEF Vec
    <3>2. zz ** c[i] \in Scalar
      BY <1>9, ScalarClosed
    <3>3. zz ** c[i] -- R[i] \in Scalar
      BY <3>1, <3>2, ScalarClosed
    <3> QED BY <3>1, <3>3, ScalarClosed
  <2> QED BY <1>12, <2>1 DEF Vec
<1>15. ASSUME NEW k \in 1..size
       PROVE  /\ Block(F, bits, k) = OfFirst(bits, z, sh[k].l_vec)
              /\ Block(H, bits, k) = OfSecond(k - 1, bits, y, z, sh[k].r_vec)
  <2>1. PICK j : j = k - 1 /\ j \in 0 .. size - 1 /\ j + 1 = k
    BY <1>1
  <2>2. Sized(j, bits) /\ j \in Nat
    BY <2>1, SizesFit
  <2>3. PICK l, r : l = sh[k].l_vec /\ r = sh[k].r_vec
    OBVIOUS
  <2>4. \A i \in 1..bits : /\ L[At1(bits, j, i)] = l[i] /\ R[At1(bits, j, i)] = r[i]
                           /\ l[i] \in Scalar /\ r[i] \in Scalar
    <3>1. Block(L, bits, k) = l /\ Block(R, bits, k) = r /\ l \in Vec(bits) /\ r \in Vec(bits)
      BY <2>3
    <3>2. Block(L, bits, k) = [i \in 1..bits |-> L[At1(bits, j, i)]]
          /\ Block(R, bits, k) = [i \in 1..bits |-> R[At1(bits, j, i)]]
      BY <2>1 DEF Block
    <3>3. \A i \in 1..bits : l[i] = L[At1(bits, j, i)] /\ r[i] = R[At1(bits, j, i)]
      BY <3>1, <3>2
    <3> QED BY <3>1, <3>3 DEF Vec
  <2>5. ASSUME NEW i \in 1..bits PROVE F[At1(bits, j, i)] = Neg(z) -- l[i]
    <3>1. PICK p : p = At1(bits, j, i)
      OBVIOUS
    <3>2. p \in 1..N
      BY <1>8, <2>1, <3>1
    <3>3. F[p] = Neg(z) -- L[p]
      BY <1>11, <3>2 DEF OfAllFirst
    <3> QED BY <2>4, <3>1, <3>3
  <2>6. Block(F, bits, k) = OfFirst(bits, z, l)
    BY <2>1, <2>5 DEF Block, OfFirst
  <2>7. PICK e4 : e4 = exp_iter(u, bits)
    OBVIOUS
  <2>8. e4 \in Vec(bits) /\ \A i \in 1..bits : e4[i] = Power(u, i - 1)
    BY <1>1, <1>3, <2>7, ExpIterIs
  <2>9. PICK s \in Scalar : /\ s = Invert(Start(y, j, bits)) /\ s = Power(u, j * bits)
    <3>1. j * bits \in Nat
      BY <2>2, StartAndOffset
    <3> QED BY <1>3, <3>1, PowerOfInverse DEF Start
  <2>10. ASSUME NEW i \in 1..bits
         PROVE  H[At1(bits, j, i)]
                  = z ++ (e4[i] ** s) ** (Offset(z, j) ** e2[i] -- r[i])
    <3>0. PICK p : p = At1(bits, j, i)
      OBVIOUS
    <3>1. p = At1(bits, j, i) /\ p \in 1..N /\ c[p] = e2[i] ** e3[j + 1]
      BY <1>8, <2>1, <3>0
    <3>2. e1[p] = e4[i] ** s
      <4>1. j * bits \in Nat /\ i - 1 \in Nat /\ p - 1 = j * bits + (i - 1)
        BY <1>1, <2>2, <3>1, StartAndOffset DEF At1
      <4>2. e1[p] = Power(u, j * bits + (i - 1))
        BY <1>6, <3>1, <4>1
      <4>3. Power(u, j * bits + (i - 1)) = Power(u, j * bits) ** Power(u, i - 1)
        BY <1>3, <4>1, PowerAdds
      <4>4. e4[i] = Power(u, i - 1) /\ e4[i] \in Scalar
        BY <2>8 DEF Vec
      <4> QED BY <2>9, <4>2, <4>3, <4>4, MulCommutes
    <3>3. zz ** c[p] = Offset(z, j) ** e2[i]
      <4>1. j + 1 \in 1..size /\ (j + 1) - 1 = j
        BY <2>1
      <4>2. e3[j + 1] = Power(z, j) /\ e3[j + 1] \in Scalar /\ e2[i] \in Scalar
        BY <1>6, <4>1 DEF Vec
      <4>3. zz ** (e2[i] ** e3[j + 1]) = (zz ** e3[j + 1]) ** e2[i]
        BY <1>10, <4>2, SecondEntry
      <4> QED BY <1>10, <3>1, <4>2, <4>3 DEF Offset
    <3>4. R[p] = r[i]
      BY <2>4, <3>1
    <3> QED BY <1>12, <3>1, <3>2, <3>3, <3>4
  <2>11. OfSecond(j, bits, y, z, r)
           = [i \in 1..bits |-> z ++ (e4[i] ** s) ** (Offset(z, j) ** e2[i] -- r[i])]
    BY <1>3, <1>4, <2>7, <2>9 DEF OfSecond
  <2>12. Block(H, bits, k) = OfSecond(j, bits, y, z, r)
    BY <2>1, <2>10, <2>11 DEF Block
  <2> QED BY <2>1, <2>3, <2>6, <2>12
<1> QED BY <1>2, <1>11, <1>13, <1>14, <1>15 DEF AllVectors

\* A sum of four.
LEMMA SumOfFour ==
  ASSUME NEW v \in Vec(4)
  PROVE  SumOf(v) = ((v[1] ++ v[2]) ++ v[3]) ++ v[4]
<1>1. PICK w : w = [k \in 1..3 |-> v[k]]
  OBVIOUS
<1>2. w \in Vec(3) /\ \A k \in 1..3 : w[k] = v[k]
  BY <1>1 DEF Vec
<1>3. PICK q \in Nat : q = 3 /\ q + 1 = 4
  OBVIOUS
<1>4. SumOf(v) = SumOf(w) ++ v[q + 1]
  BY <1>2, <1>3, SumExtend
<1>5. SumOf(w) = (w[1] ++ w[2]) ++ w[3]
  BY <1>2, SumsOfFew
<1> QED BY <1>2, <1>3, <1>4, <1>5

\* A combination of four points at a generator.
LEMMA FourTerms ==
  ASSUME NEW s \in Vec(4), NEW p \in PointVec(4), NEW g \in Generator
  PROVE  multiscalar_mul(s, p)[g]
           = ((s[1] ** p[1][g] ++ s[2] ** p[2][g]) ++ s[3] ** p[3][g]) ++ s[4] ** p[4][g]
<1>1. PICK q \in Nat : q = 4
  OBVIOUS
<1>2. PICK v : v = [k \in 1..q |-> s[k] ** p[k][g]]
  OBVIOUS
<1>3. s \in Vec(q) /\ p \in PointVec(q)
  BY <1>1
<1>4. v \in Vec(q) /\ multiscalar_mul(s, p)[g] = SumOf(v)
  BY <1>2, <1>3, MsmAt
<1>5. SumOf(v) = ((v[1] ++ v[2]) ++ v[3]) ++ v[4]
  BY <1>1, <1>4, SumOfFour
<1> QED BY <1>1, <1>2, <1>4, <1>5

\* Four scalars and four points.
FourFit(a, b, c, d, P1, P2, P3, P4) ==
    /\ a \in Scalar /\ b \in Scalar /\ c \in Scalar /\ d \in Scalar
    /\ P1 \in Point /\ P2 \in Point /\ P3 \in Point /\ P4 \in Point

\* The combination of the points a proof carries itself.
LEMMA MsmOfFour ==
  ASSUME NEW a, NEW b, NEW c, NEW d, NEW P1, NEW P2, NEW P3, NEW P4,
         FourFit(a, b, c, d, P1, P2, P3, P4), NEW s, s = <<a, b, c, d>>,
         NEW p, p = <<P1, P2, P3, P4>>
  PROVE  /\ PairFits(4, s, p)
         /\ \A g \in Generator :
                multiscalar_mul(s, p)[g]
                  = ((a ** P1[g] ++ b ** P2[g]) ++ c ** P3[g]) ++ d ** P4[g]
<1>1. /\ s \in Seq(Scalar) /\ Len(s) = 4 /\ s[1] = a /\ s[2] = b /\ s[3] = c /\ s[4] = d
  BY DEF FourFit
<1>2. /\ p \in Seq(Point) /\ Len(p) = 4 /\ p[1] = P1 /\ p[2] = P2 /\ p[3] = P3 /\ p[4] = P4
  BY DEF FourFit
<1>3. PICK q \in Nat : q = 4
  OBVIOUS
<1>4. s \in [1..q -> Scalar] /\ p \in [1..q -> Point]
  BY <1>1, <1>2, <1>3, SeqIsFun
<1>5. s \in Vec(4) /\ p \in PointVec(4)
  BY <1>3, <1>4 DEF Vec, PointVec
<1>6. \A g \in Generator :
          multiscalar_mul(s, p)[g]
            = ((s[1] ** p[1][g] ++ s[2] ** p[2][g]) ++ s[3] ** p[3][g]) ++ s[4] ** p[4][g]
  BY <1>5, FourTerms
<1> QED BY <1>1, <1>2, <1>5, <1>6 DEF PairFits

\* The verifier's combination: the points of the proof, the two vectors of
\* cross terms, the blinding and the base, the generators, the commitments.
SevenParts(s, p, sq, lv, iq, rv, r, q, gg, G, hh, H, vv, Vs) ==
    multiscalar_mul(s \o sq \o iq \o r \o gg \o hh \o vv,
                    p \o lv \o rv \o q \o G \o H \o Vs)

\* The seven parts of the combination are each of as many scalars as points.
SevenFit(N, k, size, s, p, sq, lv, iq, rv, r, q, gg, G, hh, H, vv, Vs) ==
    /\ PairFits(4, s, p) /\ PairFits(k, sq, lv) /\ PairFits(k, iq, rv) /\ PairFits(2, r, q)
    /\ PairFits(N, gg, G) /\ PairFits(N, hh, H) /\ PairFits(size, vv, Vs)

\* At a generator their sum is the sum of the seven parts.
LEMMA SevenAt ==
  ASSUME NEW N, NEW k, NEW size, NEW s, NEW p, NEW sq, NEW lv, NEW iq, NEW rv, NEW r, NEW q,
         NEW gg, NEW G, NEW hh, NEW H, NEW vv, NEW Vs,
         SevenFit(N, k, size, s, p, sq, lv, iq, rv, r, q, gg, G, hh, H, vv, Vs)
  PROVE  /\ SevenParts(s, p, sq, lv, iq, rv, r, q, gg, G, hh, H, vv, Vs) \in Point
         /\ \A g \in Generator :
                SevenParts(s, p, sq, lv, iq, rv, r, q, gg, G, hh, H, vv, Vs)[g]
                  = (((((multiscalar_mul(s, p)[g] ++ multiscalar_mul(sq, lv)[g])
                          ++ multiscalar_mul(iq, rv)[g]) ++ multiscalar_mul(r, q)[g])
                          ++ multiscalar_mul(gg, G)[g]) ++ multiscalar_mul(hh, H)[g])
                          ++ multiscalar_mul(vv, Vs)[g]
<1>1. /\ PairFits(4, s, p) /\ PairFits(k, sq, lv) /\ PairFits(k, iq, rv) /\ PairFits(2, r, q)
      /\ PairFits(N, gg, G) /\ PairFits(N, hh, H) /\ PairFits(size, vv, Vs)
  BY DEF SevenFit
<1>2. PICK s1, p1 : Joined(s1, p1, s, sq, p, lv)
  BY DEF Joined
<1>3. PairFits(4 + k, s1, p1) /\ Adds(s1, p1, s, sq, p, lv)
  BY <1>1, <1>2, FitsThen
<1>4. PICK s2, p2 : Joined(s2, p2, s1, iq, p1, rv)
  BY DEF Joined
<1>5. PairFits((4 + k) + k, s2, p2) /\ Adds(s2, p2, s1, iq, p1, rv)
  BY <1>1, <1>3, <1>4, FitsThen
<1>6. PICK s3, p3 : Joined(s3, p3, s2, r, p2, q)
  BY DEF Joined
<1>7. PairFits(((4 + k) + k) + 2, s3, p3) /\ Adds(s3, p3, s2, r, p2, q)
  BY <1>1, <1>5, <1>6, FitsThen
<1>8. PICK s4, p4 : Joined(s4, p4, s3, gg, p3, G)
  BY DEF Joined
<1>9. PairFits((((4 + k) + k) + 2) + N, s4, p4) /\ Adds(s4, p4, s3, gg, p3, G)
  BY <1>1, <1>7, <1>8, FitsThen
<1>10. PICK s5, p5 : Joined(s5, p5, s4, hh, p4, H)
  BY DEF Joined
<1>11. PairFits(((((4 + k) + k) + 2) + N) + N, s5, p5) /\ Adds(s5, p5, s4, hh, p4, H)
  BY <1>1, <1>9, <1>10, FitsThen
<1>12. PICK s6, p6 : Joined(s6, p6, s5, vv, p5, Vs)
  BY DEF Joined
<1>13. PairFits((((((4 + k) + k) + 2) + N) + N) + size, s6, p6) /\ Adds(s6, p6, s5, vv, p5, Vs)
  BY <1>1, <1>11, <1>12, FitsThen
<1>14. SevenParts(s, p, sq, lv, iq, rv, r, q, gg, G, hh, H, vv, Vs) = multiscalar_mul(s6, p6)
  BY <1>2, <1>4, <1>6, <1>8, <1>10, <1>12 DEF SevenParts, Joined
<1>15. multiscalar_mul(s6, p6) \in Point
  BY <1>13, MsmType DEF PairFits
<1> QED BY <1>3, <1>5, <1>7, <1>9, <1>11, <1>13, <1>14, <1>15 DEF Adds

\* A combination by scalars that are each a sum less another scalar.
LEMMA MsmOfDifference ==
  ASSUME NEW N, NEW G, NEW f, NEW l, NEW a, NEW d, PairFits(N, f, G), PairFits(N, l, G),
         PairFits(N, a, G), \A i \in 1..N : d[i] = (f[i] ++ l[i]) -- a[i],
         d \in Vec(N), NEW g \in Generator
  PROVE  multiscalar_mul(d, G)[g]
           = (multiscalar_mul(f, G)[g] ++ multiscalar_mul(l, G)[g]) -- multiscalar_mul(a, G)[g]
<1>1. /\ N \in Nat /\ G \in PointVec(N) /\ f \in Vec(N) /\ l \in Vec(N) /\ a \in Vec(N)
  BY DEF PairFits
<1>2. \A i \in 1..N : /\ f[i] \in Scalar /\ l[i] \in Scalar /\ a[i] \in Scalar
                      /\ G[i][g] \in Scalar
  BY <1>1 DEF Vec, PointVec, Point
<1>3. PICK vf : vf = [i \in 1..N |-> f[i] ** G[i][g]]
  OBVIOUS
<1>4. vf \in Vec(N) /\ multiscalar_mul(f, G)[g] = SumOf(vf)
  BY <1>1, <1>3, MsmAt
<1>5. PICK vl : vl = [i \in 1..N |-> l[i] ** G[i][g]]
  OBVIOUS
<1>6. vl \in Vec(N) /\ multiscalar_mul(l, G)[g] = SumOf(vl)
  BY <1>1, <1>5, MsmAt
<1>7. PICK va : va = [i \in 1..N |-> a[i] ** G[i][g]]
  OBVIOUS
<1>8. va \in Vec(N) /\ multiscalar_mul(a, G)[g] = SumOf(va)
  BY <1>1, <1>7, MsmAt
<1>9. PICK vd : vd = [i \in 1..N |-> d[i] ** G[i][g]]
  OBVIOUS
<1>10. vd \in Vec(N) /\ multiscalar_mul(d, G)[g] = SumOf(vd)
  BY <1>1, <1>9, MsmAt
<1>11. PICK n1 \in Scalar : n1 = Neg(1)
  BY NegScales, ScalarClosed
<1>12. PICK vs \in Vec(N) : /\ \A i \in 1..N : vs[i] = vf[i] ++ vl[i]
                            /\ SumOf(vs) = SumOf(vf) ++ SumOf(vl)
  BY <1>1, <1>4, <1>6, AddsTo
<1>13. PICK vn \in Vec(N) : /\ \A i \in 1..N : vn[i] = n1 ** va[i]
                            /\ SumOf(vn) = n1 ** SumOf(va)
  BY <1>1, <1>8, ScaledSum
<1>14. ASSUME NEW i \in 1..N PROVE vd[i] = vs[i] ++ vn[i]
  <2>1. PICK ff, ll, aa, G0 \in Scalar : ff = f[i] /\ ll = l[i] /\ aa = a[i] /\ G0 = G[i][g]
    BY <1>2
  <2>2. ff ++ ll \in Scalar /\ Neg(aa) \in Scalar /\ Neg(aa) = n1 ** aa
    BY <1>11, ScalarClosed, NegScales
  <2>3. ((ff ++ ll) ++ Neg(aa)) ** G0 = (ff ++ ll) ** G0 ++ Neg(aa) ** G0
    BY <2>2, DistributesLeft
  <2>4. (ff ++ ll) ** G0 = ff ** G0 ++ ll ** G0
    BY DistributesLeft
  <2>5. (n1 ** aa) ** G0 = n1 ** (aa ** G0)
    BY MulAssociates
  <2>6. vs[i] = ff ** G0 ++ ll ** G0 /\ vn[i] = n1 ** (aa ** G0)
    BY <1>3, <1>5, <1>7, <1>12, <1>13, <2>1
  <2>7. vd[i] = ((ff ++ ll) ++ Neg(aa)) ** G0
    BY <1>9, <2>1 DEF --
  <2> QED BY <2>2, <2>3, <2>4, <2>5, <2>6, <2>7
<1>15. SumOf(vd) = SumOf(vs) ++ SumOf(vn)
  BY <1>1, <1>10, <1>14, SumAdd
<1>16. Neg(SumOf(va)) = n1 ** SumOf(va)
  BY <1>1, <1>8, <1>11, SumClosed, NegScales
<1> QED BY <1>4, <1>6, <1>8, <1>10, <1>12, <1>13, <1>15, <1>16 DEF --

\* What the argument says at one generator: the claim is the verifier's
\* combination.
ArgumentAt(s, v, Qp, us, g) ==
    (multiscalar_mul(Times(v.a, v.gf), v.G)[g] ++ multiscalar_mul(Times(v.b, v.hf), v.H)[g])
          ++ inner_product(v.a, v.b) ** Qp[g]
      = ((((s.v.a[1] ** s.v.b[1]) ** Qp[g]
              ++ multiscalar_mul(Times(Scale(s.v.a[1], SVector(us)), v.gf), v.G)[g])
              ++ multiscalar_mul(Times(Scale(s.v.b[1], Reversed(SVector(us))), v.hf), v.H)[g])
              ++ Neg(multiscalar_mul(Squares(us), s.L_vec)[g]))
              ++ Neg(multiscalar_mul(InverseSquares(us), s.R_vec)[g])

\* The vectors of an argument reduced to one entry fit the generators.
ArgumentFits(s, v, us, k, N) ==
    /\ PairFits(N, Times(v.a, v.gf), v.G) /\ PairFits(N, Times(v.b, v.hf), v.H)
    /\ PairFits(N, Times(Scale(s.v.a[1], SVector(us)), v.gf), v.G)
    /\ PairFits(N, Times(Scale(s.v.b[1], Reversed(SVector(us))), v.hf), v.H)
    /\ PairFits(k, Squares(us), s.L_vec) /\ PairFits(k, InverseSquares(us), s.R_vec)
    /\ s.v.a[1] \in Scalar /\ s.v.b[1] \in Scalar
    /\ SVector(us) \in Vec(N) /\ Reversed(SVector(us)) \in Vec(N)

\* What create keeps holds of an argument says, at one generator.
LEMMA ArgumentHolds ==
  ASSUME NEW k \in Nat, NEW s, NEW v, NEW Qp \in Point, NEW us, KeptBy(s, v, Qp, us, k, 1)
  PROVE  /\ ArgumentFits(s, v, us, k, 2^k)
         /\ \A g \in Generator : ArgumentAt(s, v, Qp, us, g)
<1>0. PICK N \in Nat : N = 2^k
  BY PowerOfTwoType
<1>1. N = 2^k /\ 1 * N = N
  BY <1>0
<1>2. /\ Usable(us, k) /\ WellFormed(s.v, 1) /\ WellFormed(v, 1 * 2^k)
      /\ s.L_vec \in PointVec(k) /\ s.R_vec \in PointVec(k)
  BY DEF KeptBy
<1>22. WellFormed(v, N)
  BY <1>1, <1>2
<1>3. /\ v.a \in Vec(N) /\ v.b \in Vec(N) /\ v.gf \in Vec(N) /\ v.hf \in Vec(N)
      /\ v.G \in PointVec(N) /\ v.H \in PointVec(N)
  BY <1>22 DEF WellFormed
<1>4. s.v.a[1] \in Scalar /\ s.v.b[1] \in Scalar
  BY <1>2 DEF WellFormed, Vec
<1>5. SVector(us) \in Vec(N) /\ Reversed(SVector(us)) \in Vec(N)
  BY <1>1, <1>2, SVectorType
<1>6. /\ PairFits(N, Times(v.a, v.gf), v.G) /\ PairFits(N, Times(v.b, v.hf), v.H)
  BY <1>3, TimesType DEF PairFits
<1>7. /\ PairFits(N, Times(Scale(s.v.a[1], SVector(us)), v.gf), v.G)
      /\ PairFits(N, Times(Scale(s.v.b[1], Reversed(SVector(us))), v.hf), v.H)
  BY <1>3, <1>4, <1>5, ScaledTimes
<1>8. PairFits(k, Squares(us), s.L_vec) /\ PairFits(k, InverseSquares(us), s.R_vec)
  BY <1>2, DrawnType DEF PairFits
<1>9. ASSUME NEW g \in Generator PROVE ArgumentAt(s, v, Qp, us, g)
  <2>1. Claim(v, Qp)[g] = (Dot(v.a, At(v.gf, v.G, g)) ++ Dot(v.b, At(v.hf, v.H, g)))
                             ++ Dot(v.a, v.b) ** Qp[g]
    BY <1>22, ClaimAt
  <2>2. /\ multiscalar_mul(Times(v.a, v.gf), v.G)[g] = Dot(v.a, At(v.gf, v.G, g))
        /\ multiscalar_mul(Times(v.b, v.hf), v.H)[g] = Dot(v.b, At(v.hf, v.H, g))
    BY <1>3, MsmIsDot
  <2>3. inner_product(v.a, v.b) = Dot(v.a, v.b)
    BY <1>3, InnerProductIsDot
  <2>4. Claim(v, Qp) = Combination(s, v, Qp, us)
    BY CombinationIsClaim
  <2>5. /\ PairFits(k, Negated(Squares(us)), s.L_vec)
        /\ PairFits(k, Negated(InverseSquares(us)), s.R_vec)
        /\ multiscalar_mul(Negated(Squares(us)), s.L_vec)[g]
             = Neg(multiscalar_mul(Squares(us), s.L_vec)[g])
        /\ multiscalar_mul(Negated(InverseSquares(us)), s.R_vec)[g]
             = Neg(multiscalar_mul(InverseSquares(us), s.R_vec)[g])
    <3>1. PICK f, h : f = Squares(us) /\ h = InverseSquares(us)
      OBVIOUS
    <3>2. PICK sL, sR : sL = s.L_vec /\ sR = s.R_vec
      OBVIOUS
    <3>3. PairFits(k, f, sL) /\ PairFits(k, h, sR)
      BY <1>8, <3>1, <3>2
    <3>6. PICK nf, nh : nf = Negated(f) /\ nh = Negated(h)
      OBVIOUS
    <3>4. PairFits(k, nf, sL)
          /\ \A e \in Generator : multiscalar_mul(nf, sL)[e] = Neg(multiscalar_mul(f, sL)[e])
      BY <3>3, <3>6, MsmNegated
    <3>5. PairFits(k, nh, sR)
          /\ \A e \in Generator : multiscalar_mul(nh, sR)[e] = Neg(multiscalar_mul(h, sR)[e])
      BY <3>3, <3>6, MsmNegated
    <3> QED BY <3>1, <3>2, <3>4, <3>5, <3>6
  <2>6. s.v.a[1] ** s.v.b[1] \in Scalar
    BY <1>4, ScalarClosed
  <2>8. PICK c \in Scalar : c = s.v.a[1] ** s.v.b[1]
    BY <2>6
  <2>9. PICK x, y, i, j : /\ x = Times(Scale(s.v.a[1], SVector(us)), v.gf)
                          /\ y = Times(Scale(s.v.b[1], Reversed(SVector(us))), v.hf)
                          /\ i = Negated(Squares(us)) /\ j = Negated(InverseSquares(us))
    OBVIOUS
  <2>10. PICK vG, vH, sL, sR : vG = v.G /\ vH = v.H /\ sL = s.L_vec /\ sR = s.R_vec
    OBVIOUS
  <2>11. /\ PairFits(N, x, vG) /\ PairFits(N, y, vH)
         /\ PairFits(k, i, sL) /\ PairFits(k, j, sR)
    BY <1>7, <2>5, <2>9, <2>10
  <2>12. FiveParts(c, x, y, i, j, Qp, vG, vH, sL, sR)[g]
           = (((c ** Qp[g] ++ multiscalar_mul(x, vG)[g]) ++ multiscalar_mul(y, vH)[g])
                 ++ multiscalar_mul(i, sL)[g]) ++ multiscalar_mul(j, sR)[g]
    BY <2>11, FiveAt
  <2>13. Combination(s, v, Qp, us) = FiveParts(c, x, y, i, j, Qp, vG, vH, sL, sR)
    BY <2>8, <2>9, <2>10 DEF Combination
  <2>7. Combination(s, v, Qp, us)[g]
          = (((((s.v.a[1] ** s.v.b[1]) ** Qp[g]
                 ++ multiscalar_mul(Times(Scale(s.v.a[1], SVector(us)), v.gf), v.G)[g])
                 ++ multiscalar_mul(Times(Scale(s.v.b[1], Reversed(SVector(us))), v.hf), v.H)[g])
                 ++ multiscalar_mul(Negated(Squares(us)), s.L_vec)[g])
                 ++ multiscalar_mul(Negated(InverseSquares(us)), s.R_vec)[g])
    BY <2>8, <2>9, <2>10, <2>12, <2>13
  <2> QED BY <2>1, <2>2, <2>3, <2>4, <2>5, <2>7 DEF ArgumentAt
<1> QED BY <1>1, <1>4, <1>5, <1>6, <1>7, <1>8, <1>9 DEF ArgumentFits

-----------------------------------------------------------------------------
(* The scalars of the generators in the verifier's combination.            *)

\* The scalars that verify_multiple computes for the two families of generators.
VerifierFirst(N, z, a, sv) == [i \in 1..N |-> Neg(z) -- a ** sv[i]]
\* Likewise.
VerifierSecond(bits, size, y, z, b, si) ==
  [i \in 1 .. bits * size |->
      z ++ exp_iter(Invert(y), bits * size)[i]
             ** ((z ** z) ** ConcatZAnd2(bits, size, z)[i] -- b ** si[i])]

\* A subtraction through an intermediate value.
LEMMA PutsBack ==
  ASSUME NEW t \in Scalar, NEW l \in Scalar, NEW q \in Scalar
  PROVE  /\ t -- l \in Scalar /\ t -- q \in Scalar
         /\ t -- q = ((t -- l) ++ l) -- q
<1>1. Neg(l) \in Scalar /\ l ++ Neg(l) = 0
  BY NegScales
<1>2. (t ++ Neg(l)) ++ l = t ++ (Neg(l) ++ l)
  BY <1>1, AddAssociates
<1>3. Neg(l) ++ l = 0
  BY <1>1, AddCommutes
<1> QED BY <1>2, <1>3, Units, ScalarClosed DEF --

\* Subtraction under a factor.
LEMMA DistributesOverLess ==
  ASSUME NEW a \in Scalar, NEW b \in Scalar, NEW c \in Scalar
  PROVE  a ** (b -- c) = a ** b -- a ** c /\ (b -- c) ** a = b ** a -- c ** a
<1>1. PICK n1 \in Scalar : n1 = Neg(1)
  BY NegScales, ScalarClosed
<1>2. Neg(c) \in Scalar /\ Neg(c) = n1 ** c /\ a ** c \in Scalar /\ a ** b \in Scalar
  BY <1>1, NegScales, ScalarClosed
<1>3. a ** (b ++ Neg(c)) = a ** b ++ a ** Neg(c)
  BY <1>2, Distributes
<1>4. a ** Neg(c) = n1 ** (a ** c)
  BY <1>1, <1>2, MulAssociates, MulCommutes
<1>5. Neg(a ** c) = n1 ** (a ** c)
  BY <1>1, <1>2, NegScales
<1>6. a ** (b -- c) = a ** b -- a ** c
  BY <1>3, <1>4, <1>5 DEF --
<1>7. b -- c \in Scalar
  BY ScalarClosed
<1> QED BY <1>6, <1>7, MulCommutes

\* The same under the scaling of the second generators.
LEMMA PutsBackScaled ==
  ASSUME NEW z \in Scalar, NEW y \in Scalar, NEW t \in Scalar, NEW r \in Scalar, NEW q \in Scalar
  PROVE  z ++ y ** (t -- q) = ((z ++ y ** (t -- r)) ++ r ** y) -- q ** y
<1>1. PICK T, rr, qq \in Scalar : T = y ** t /\ rr = y ** r /\ qq = y ** q
  BY ScalarClosed
<1>2. rr = r ** y /\ qq = q ** y
  BY <1>1, MulCommutes
<1>3. y ** (t -- q) = T -- qq /\ y ** (t -- r) = T -- rr
  BY <1>1, DistributesOverLess
<1>4. T -- rr \in Scalar /\ T -- qq \in Scalar /\ Neg(qq) \in Scalar
  BY ScalarClosed
<1>5. T -- qq = ((T -- rr) ++ rr) -- qq
  BY PutsBack
<1>6. (z ++ (T -- rr)) ++ rr = z ++ ((T -- rr) ++ rr)
  BY <1>4, AddAssociates
<1>7. (T -- rr) ++ rr \in Scalar
  BY <1>4, ScalarClosed
<1>8. (z ++ ((T -- rr) ++ rr)) ++ Neg(qq) = z ++ (((T -- rr) ++ rr) ++ Neg(qq))
  BY <1>4, <1>7, AddAssociates
<1>9. (z ++ ((T -- rr) ++ rr)) -- qq = z ++ (((T -- rr) ++ rr) -- qq)
  BY <1>8 DEF --
<1> QED BY <1>2, <1>3, <1>5, <1>6, <1>9

\* A vector times ones is itself.
LEMMA OnesAre ==
  ASSUME NEW N \in Nat, NEW v \in Vec(N)
  PROVE  /\ Ones(N) \in Vec(N) /\ Times(v, Ones(N)) \in Vec(N)
         /\ \A i \in 1..N : Times(v, Ones(N))[i] = v[i]
<1>1. Ones(N) \in Vec(N) /\ \A i \in 1..N : Ones(N)[i] = 1
  BY ScalarClosed DEF Ones, Vec
<1>2. \A i \in 1..N : v[i] \in Scalar
  BY DEF Vec
<1> QED BY <1>1, <1>2, TimesType, Units

\* A scaled vector has as many entries.
LEMMA ScaleType ==
  ASSUME NEW N \in Nat, NEW v \in Vec(N), NEW c \in Scalar
  PROVE  Scale(c, v) \in Vec(N) /\ \A i \in 1..N : Scale(c, v)[i] = c ** v[i]
<1>1. DOMAIN v = 1..N /\ \A i \in 1..N : v[i] \in Scalar
  BY DEF Vec
<1>2. \A i \in 1..N : c ** v[i] \in Scalar
  BY <1>1, ScalarClosed
<1> QED BY <1>1, <1>2 DEF Scale, Vec

\* The verifier's scalars of the first generators are what the vectors of the parties
\* want, plus the argument's claim, less what the argument folded to.
LEMMA FirstScalars ==
  ASSUME NEW N \in Nat, NEW L \in Vec(N), NEW sv \in Vec(N), NEW a \in Scalar, NEW z \in Scalar
  PROVE  /\ VerifierFirst(N, z, a, sv) \in Vec(N) /\ OfAllFirst(N, z, L) \in Vec(N)
         /\ \A i \in 1..N :
                VerifierFirst(N, z, a, sv)[i]
                  = (OfAllFirst(N, z, L)[i] ++ Times(L, Ones(N))[i])
                        -- Times(Scale(a, sv), Ones(N))[i]
<1>1. PICK nz \in Scalar : nz = Neg(z)
  BY ScalarClosed
<1>2. \A i \in 1..N : L[i] \in Scalar /\ sv[i] \in Scalar /\ a ** sv[i] \in Scalar
  BY ScalarClosed DEF Vec
<1>3. Scale(a, sv) \in Vec(N) /\ \A i \in 1..N : Scale(a, sv)[i] = a ** sv[i]
  BY ScaleType
<1>4. \A i \in 1..N : Times(Scale(a, sv), Ones(N))[i] = a ** sv[i]
  BY <1>3, OnesAre
<1>5. \A i \in 1..N : Times(L, Ones(N))[i] = L[i]
  BY OnesAre
<1>6. \A i \in 1..N : /\ nz -- a ** sv[i] \in Scalar /\ nz -- L[i] \in Scalar
                      /\ nz -- a ** sv[i] = ((nz -- L[i]) ++ L[i]) -- a ** sv[i]
  BY <1>2, PutsBack
<1>7. \A i \in 1..N : /\ VerifierFirst(N, z, a, sv)[i] = nz -- a ** sv[i]
                      /\ OfAllFirst(N, z, L)[i] = nz -- L[i]
  BY <1>1 DEF VerifierFirst, OfAllFirst
<1>8. VerifierFirst(N, z, a, sv) \in Vec(N) /\ OfAllFirst(N, z, L) \in Vec(N)
  BY <1>1, <1>6 DEF VerifierFirst, OfAllFirst, Vec
<1> QED BY <1>4, <1>5, <1>6, <1>7, <1>8

\* So are the combinations.
LEMMA FirstAt ==
  ASSUME NEW N \in Nat, NEW L \in Vec(N), NEW sv \in Vec(N), NEW a \in Scalar, NEW z \in Scalar,
         NEW G \in PointVec(N), NEW g \in Generator
  PROVE  /\ PairFits(N, VerifierFirst(N, z, a, sv), G)
         /\ multiscalar_mul(VerifierFirst(N, z, a, sv), G)[g]
              = (multiscalar_mul(OfAllFirst(N, z, L), G)[g]
                   ++ multiscalar_mul(Times(L, Ones(N)), G)[g])
                   -- multiscalar_mul(Times(Scale(a, sv), Ones(N)), G)[g]
<1>1. PICK d, f, l, q : /\ d = VerifierFirst(N, z, a, sv) /\ f = OfAllFirst(N, z, L)
                        /\ l = Times(L, Ones(N)) /\ q = Times(Scale(a, sv), Ones(N))
  OBVIOUS
<1>2. d \in Vec(N) /\ f \in Vec(N) /\ \A i \in 1..N : d[i] = (f[i] ++ l[i]) -- q[i]
  BY <1>1, FirstScalars
<1>3. Scale(a, sv) \in Vec(N)
  BY ScaleType
<1>4. l \in Vec(N) /\ q \in Vec(N)
  BY <1>1, <1>3, OnesAre
<1>5. PairFits(N, d, G) /\ PairFits(N, f, G) /\ PairFits(N, l, G) /\ PairFits(N, q, G)
  BY <1>2, <1>4 DEF PairFits
<1>6. multiscalar_mul(d, G)[g]
        = (multiscalar_mul(f, G)[g] ++ multiscalar_mul(l, G)[g]) -- multiscalar_mul(q, G)[g]
  BY <1>2, <1>5, MsmOfDifference
<1> QED BY <1>1, <1>5, <1>6

\* The number of generators of each family (a name for a product).
IsProductOf(N, bits, size) == N = bits * size

\* The verifier's scalars of the second generators, likewise.
LEMMA SecondScalars ==
  ASSUME NEW bits, NEW size, OfSizes(bits, size), NEW y \in Scalar \ {0}, NEW z \in Scalar,
         NEW N \in Nat, IsProductOf(N, bits, size), NEW R \in Vec(N), NEW si \in Vec(N), NEW b \in Scalar
  PROVE  /\ exp_iter(Invert(y), N) \in Vec(N)
         /\ VerifierSecond(bits, size, y, z, b, si) \in Vec(N)
         /\ OfAllSecond(bits, size, y, z, R) \in Vec(N)
         /\ \A i \in 1..N :
                VerifierSecond(bits, size, y, z, b, si)[i]
                  = (OfAllSecond(bits, size, y, z, R)[i] ++ Times(R, exp_iter(Invert(y), N))[i])
                        -- Times(Scale(b, si), exp_iter(Invert(y), N))[i]
<1> USE DEF IsProductOf
<1>1. PICK yi : yi = exp_iter(Invert(y), N)
  OBVIOUS
<1>2. yi \in Vec(N)
  BY <1>1, Inverses, ExpIterIs
<1>3. \A i \in 1..N : (z ** z) ** ConcatZAnd2(bits, size, z)[i] \in Scalar
  <2>1. bits \in Nat \ {0} /\ size \in Nat
    BY SizesFit
  <2>2. exp_iter(2, bits) \in Vec(bits) /\ exp_iter(z, size) \in Vec(size) /\ z ** z \in Scalar
    BY <2>1, LargeOrderAssumption, OrderAssumption, ExpIterIs, ScalarClosed DEF Scalar
  <2>3. \A i \in 1 .. bits * size : (i - 1) \div bits \in 0 .. size - 1 /\ ((i - 1) % bits) + 1 \in 1..bits
    BY <2>1, PlaceIs
  <2>4. \A i \in 1 .. bits * size : (i - 1) \div bits + 1 \in 1..size
    BY <2>1, <2>3
  <2>5. \A i \in 1 .. bits * size :
            exp_iter(2, bits)[((i - 1) % bits) + 1] ** exp_iter(z, size)[(i - 1) \div bits + 1]
              \in Scalar
    BY <2>2, <2>3, <2>4, ScalarClosed DEF Vec
  <2>6. \A i \in 1 .. bits * size : ConcatZAnd2(bits, size, z)[i] \in Scalar
    BY <2>5 DEF ConcatZAnd2
  <2> QED BY <2>2, <2>6, ScalarClosed
<1>4. Scale(b, si) \in Vec(N) /\ \A i \in 1..N : Scale(b, si)[i] = b ** si[i]
  BY ScaleType
<1>5. PICK t : \A i \in 1..N : t[i] = (z ** z) ** ConcatZAnd2(bits, size, z)[i]
  <2>1. PICK t : t = [i \in 1..N |-> (z ** z) ** ConcatZAnd2(bits, size, z)[i]]
    OBVIOUS
  <2> QED BY <2>1
<1>6. \A i \in 1..N : /\ t[i] \in Scalar /\ R[i] \in Scalar /\ b ** si[i] \in Scalar
                      /\ yi[i] \in Scalar
  BY <1>2, <1>3, <1>5, ScalarClosed DEF Vec
<1>7. \A i \in 1..N :
          /\ VerifierSecond(bits, size, y, z, b, si)[i] = z ++ yi[i] ** (t[i] -- b ** si[i])
          /\ OfAllSecond(bits, size, y, z, R)[i] = z ++ yi[i] ** (t[i] -- R[i])
  BY <1>1, <1>5 DEF VerifierSecond, OfAllSecond
<1>8. \A i \in 1..N : /\ Times(R, yi)[i] = R[i] ** yi[i]
                      /\ Times(Scale(b, si), yi)[i] = (b ** si[i]) ** yi[i]
  BY <1>2, <1>4, TimesType
<1>9. \A i \in 1..N :
          z ++ yi[i] ** (t[i] -- b ** si[i])
            = ((z ++ yi[i] ** (t[i] -- R[i])) ++ R[i] ** yi[i]) -- (b ** si[i]) ** yi[i]
  BY <1>6, PutsBackScaled
<1>10. \A i \in 1..N : /\ z ++ yi[i] ** (t[i] -- b ** si[i]) \in Scalar
                       /\ z ++ yi[i] ** (t[i] -- R[i]) \in Scalar
  BY <1>6, ScalarClosed
<1>11. /\ DOMAIN VerifierSecond(bits, size, y, z, b, si) = 1..N
       /\ VerifierSecond(bits, size, y, z, b, si)
            = [i \in 1..N |-> VerifierSecond(bits, size, y, z, b, si)[i]]
  BY DEF VerifierSecond
<1>12. OfAllSecond(bits, size, y, z, R) = [i \in 1..N |-> OfAllSecond(bits, size, y, z, R)[i]]
  BY DEF OfAllSecond
<1>13. VerifierSecond(bits, size, y, z, b, si) \in Vec(N)
  BY <1>7, <1>10, <1>11 DEF Vec
<1>14. OfAllSecond(bits, size, y, z, R) \in Vec(N)
  BY <1>7, <1>10, <1>12 DEF Vec
<1> QED BY <1>1, <1>2, <1>7, <1>8, <1>9, <1>13, <1>14

\* Names for the five vectors of that equation.
SecondParts(d, yi, f, l, q, bits, size, y, z, b, si, R, N) ==
    /\ IsProductOf(N, bits, size)
    /\ d = VerifierSecond(bits, size, y, z, b, si) /\ f = OfAllSecond(bits, size, y, z, R)
    /\ yi = exp_iter(Invert(y), N) /\ l = Times(R, yi) /\ q = Times(Scale(b, si), yi)

\* So are the combinations.
LEMMA SecondAt ==
  ASSUME NEW bits, NEW size, OfSizes(bits, size), NEW y \in Scalar \ {0}, NEW z \in Scalar,
         NEW N \in Nat, NEW R \in Vec(N), NEW si \in Vec(N), NEW b \in Scalar,
         NEW d, NEW yi, NEW f, NEW l, NEW q,
         SecondParts(d, yi, f, l, q, bits, size, y, z, b, si, R, N),
         NEW H \in PointVec(N), NEW g \in Generator
  PROVE  /\ PairFits(N, d, H)
         /\ multiscalar_mul(d, H)[g]
              = (multiscalar_mul(f, H)[g] ++ multiscalar_mul(l, H)[g]) -- multiscalar_mul(q, H)[g]
<1>2. /\ d \in Vec(N) /\ f \in Vec(N) /\ yi \in Vec(N)
      /\ \A i \in 1..N : d[i] = (f[i] ++ l[i]) -- q[i]
  BY SecondScalars DEF SecondParts
<1>3. Scale(b, si) \in Vec(N)
  BY ScaleType
<1>4. l \in Vec(N) /\ q \in Vec(N)
  BY <1>2, <1>3, TimesType DEF SecondParts
<1>5. PairFits(N, d, H) /\ PairFits(N, f, H) /\ PairFits(N, l, H) /\ PairFits(N, q, H)
  BY <1>2, <1>4 DEF PairFits
<1>6. multiscalar_mul(d, H)[g]
        = (multiscalar_mul(f, H)[g] ++ multiscalar_mul(l, H)[g]) -- multiscalar_mul(q, H)[g]
  BY <1>2, <1>5, MsmOfDifference
<1> QED BY <1>5, <1>6

\* The points of the proof, those of the range statement weighted by c.
LEMMA ProofPointsAt ==
  ASSUME NEW x \in Scalar, NEW c \in Scalar,
         NEW PA \in Point, NEW PS \in Point, NEW P1 \in Point, NEW P2 \in Point
  PROVE  /\ PairFits(4, <<1, x, c ** x, (c ** x) ** x>>, <<PA, PS, P1, P2>>)
         /\ \A g \in Generator :
                multiscalar_mul(<<1, x, c ** x, (c ** x) ** x>>, <<PA, PS, P1, P2>>)[g]
                  = ((PA[g] ++ x ** PS[g]) ++ c ** (x ** P1[g])) ++ c ** ((x ** x) ** P2[g])
<1>1. PICK cx, cxx \in Scalar : cx = c ** x /\ cxx = cx ** x
  BY ScalarClosed
<1>2. FourFit(1, x, cx, cxx, PA, PS, P1, P2)
  BY ScalarClosed DEF FourFit
<1>3. PICK s, p : s = <<1, x, cx, cxx>> /\ p = <<PA, PS, P1, P2>>
  OBVIOUS
<1>4. /\ PairFits(4, s, p)
      /\ \A g \in Generator :
             multiscalar_mul(s, p)[g]
               = ((1 ** PA[g] ++ x ** PS[g]) ++ cx ** P1[g]) ++ cxx ** P2[g]
  BY <1>2, <1>3, MsmOfFour
<1>5. ASSUME NEW g \in Generator
      PROVE  /\ 1 ** PA[g] = PA[g] /\ cx ** P1[g] = c ** (x ** P1[g])
             /\ cxx ** P2[g] = c ** ((x ** x) ** P2[g])
  <2>1. PICK a, p1, p2 \in Scalar : a = PA[g] /\ p1 = P1[g] /\ p2 = P2[g]
    BY DEF Point
  <2>2. cxx = c ** (x ** x) /\ x ** x \in Scalar
    BY <1>1, MulAssociates, ScalarClosed
  <2>3. (c ** (x ** x)) ** p2 = c ** ((x ** x) ** p2)
    BY <2>2, MulAssociates
  <2>4. (c ** x) ** p1 = c ** (x ** p1)
    BY MulAssociates
  <2> QED BY <1>1, <2>1, <2>2, <2>3, <2>4, Units
<1> QED BY <1>1, <1>3, <1>4, <1>5

\* The scalars of the two bases, and what their combination is.
BasesOf(s, p, e, c, tb, w, t, ab, d) ==
    /\ s = <<Neg(e) -- c ** tb, w ** (t -- ab) ++ c ** (d -- t)>> /\ p = <<B_blinding, B>>

\* Likewise.
BasesGive(s, p, e, c, tb, w, t, ab, d) ==
    /\ PairFits(2, s, p)
    /\ \A g \in Generator :
           multiscalar_mul(s, p)[g]
             = (Neg(e) ** B_blinding[g] ++ c ** (Neg(tb) ** B_blinding[g]))
                 ++ ((t ** (w ** B[g]) -- ab ** (w ** B[g])) ++ c ** ((d -- t) ** B[g]))

\* The combination of the two bases, taken apart.
LEMMA BasesAt ==
  ASSUME NEW e \in Scalar, NEW c \in Scalar, NEW tb \in Scalar, NEW w \in Scalar,
         NEW t \in Scalar, NEW ab \in Scalar, NEW d \in Scalar,
         NEW s, NEW p, BasesOf(s, p, e, c, tb, w, t, ab, d)
  PROVE  BasesGive(s, p, e, c, tb, w, t, ab, d)
<1>1. PICK ne, ntb, ct, dt, tab \in Scalar : /\ ne = Neg(e) /\ ntb = Neg(tb) /\ ct = c ** tb
                                             /\ dt = d -- t /\ tab = t -- ab
  BY ScalarClosed
<1>2. PICK r1, r2 \in Scalar : r1 = ne -- ct /\ r2 = w ** tab ++ c ** dt
  BY ScalarClosed
<1>3. B \in Point /\ B_blinding \in Point
  BY CommitAt, ScalarClosed
<1>4. s = <<r1, r2>> /\ p = <<B_blinding, B>>
  BY <1>1, <1>2 DEF BasesOf
<1>5. s \in Seq(Scalar) /\ Len(s) = 2 /\ p \in Seq(Point) /\ Len(p) = 2
  BY <1>3, <1>4
<1>6. PICK q \in Nat : q = 2
  OBVIOUS
<1>7. s \in [1..q -> Scalar] /\ p \in [1..q -> Point]
  BY <1>5, <1>6, SeqIsFun
<1>8. PairFits(2, s, p)
  BY <1>6, <1>7 DEF PairFits, Vec, PointVec
<1>9. \A g \in Generator : multiscalar_mul(s, p)[g] = r1 ** B_blinding[g] ++ r2 ** B[g]
  BY <1>3, <1>4, MsmOfTwo
<1>10. ASSUME NEW g \in Generator
       PROVE  /\ r1 ** B_blinding[g] = ne ** B_blinding[g] ++ c ** (ntb ** B_blinding[g])
              /\ r2 ** B[g] = (t ** (w ** B[g]) -- ab ** (w ** B[g])) ++ c ** (dt ** B[g])
  <2>1. PICK b, f \in Scalar : b = B_blinding[g] /\ f = B[g]
    BY <1>3 DEF Point
  <2>2. Neg(ct) = c ** ntb
    <3>1. PICK n1 \in Scalar : n1 = Neg(1)
      BY NegScales, ScalarClosed
    <3>2. Neg(ct) = n1 ** ct /\ ntb = n1 ** tb
      BY <1>1, <3>1, NegScales
    <3>3. n1 ** (c ** tb) = c ** (n1 ** tb)
      BY <3>1, MulAssociates, MulCommutes
    <3> QED BY <1>1, <3>2, <3>3
  <2>3. c ** ntb \in Scalar
    BY ScalarClosed
  <2>4. (ne ++ c ** ntb) ** b = ne ** b ++ (c ** ntb) ** b
    BY <2>3, DistributesLeft
  <2>5. (c ** ntb) ** b = c ** (ntb ** b)
    BY MulAssociates
  <2>6. r1 ** b = ne ** b ++ c ** (ntb ** b)
    BY <1>2, <2>2, <2>4, <2>5 DEF --
  <2>7. w ** tab \in Scalar /\ c ** dt \in Scalar
    BY ScalarClosed
  <2>8. (w ** tab ++ c ** dt) ** f = (w ** tab) ** f ++ (c ** dt) ** f
    BY <2>7, DistributesLeft
  <2>9. (c ** dt) ** f = c ** (dt ** f)
    BY MulAssociates
  <2>10. PICK wf \in Scalar : wf = w ** f
    BY ScalarClosed
  <2>11. (w ** tab) ** f = tab ** wf
    BY <2>10, MulAssociates, MulCommutes
  <2>12. tab ** wf = t ** wf -- ab ** wf
    BY <1>1, DistributesOverLess
  <2> QED BY <1>2, <2>1, <2>6, <2>8, <2>9, <2>10, <2>11, <2>12
<1> QED BY <1>1, <1>8, <1>9, <1>10 DEF BasesGive

\* The commitments, weighted.
LEMMA CommitmentsAt ==
  ASSUME NEW size \in Nat, NEW z \in Scalar, NEW c \in Scalar, NEW Vs \in PointVec(size),
         NEW g \in Generator, NEW vo \in Vec(size),
         \A k \in 1..size : vo[k] = Offset(z, k - 1) ** Vs[k][g]
  PROVE  /\ PairFits(size, Scale(c ** (z ** z), exp_iter(z, size)), Vs)
         /\ multiscalar_mul(Scale(c ** (z ** z), exp_iter(z, size)), Vs)[g] = c ** SumOf(vo)
<1>1. PICK zz, cz \in Scalar : zz = z ** z /\ cz = c ** zz
  BY ScalarClosed
<1>2. exp_iter(z, size) \in Vec(size) /\ \A k \in 1..size : exp_iter(z, size)[k] = Power(z, k - 1)
  BY ExpIterIs
<1>3. PICK vv : vv = Scale(cz, exp_iter(z, size))
  OBVIOUS
<1>4. vv \in Vec(size) /\ \A k \in 1..size : vv[k] = cz ** Power(z, k - 1)
  BY <1>2, <1>3, ScaleType
<1>5. PICK q : q = [k \in 1..size |-> vv[k] ** Vs[k][g]]
  OBVIOUS
<1>6. q \in Vec(size) /\ multiscalar_mul(vv, Vs)[g] = SumOf(q)
  BY <1>4, <1>5, MsmAt
<1>7. ASSUME NEW k \in 1..size PROVE q[k] = c ** vo[k]
  <2>5a. Vs[k][g] \in Scalar
    BY DEF PointVec, Point
  <2>5b. PICK h \in Nat : h = k - 1
    OBVIOUS
  <2>5c. Power(z, h) \in Scalar
    BY PowerRecursion
  <2>1. PICK p, f \in Scalar : p = Power(z, k - 1) /\ f = Vs[k][g]
    BY <2>5a, <2>5b, <2>5c
  <2>2. q[k] = (cz ** p) ** f /\ vo[k] = (zz ** p) ** f
    BY <1>1, <1>4, <1>5, <2>1 DEF Offset
  <2>3. zz ** p \in Scalar
    BY ScalarClosed
  <2>4. (c ** zz) ** p = c ** (zz ** p)
    BY MulAssociates
  <2>5. (c ** (zz ** p)) ** f = c ** ((zz ** p) ** f)
    BY <2>3, MulAssociates
  <2> QED BY <1>1, <2>2, <2>4, <2>5
<1>8. SumOf(q) = c ** SumOf(vo)
  BY <1>6, <1>7, SumScale
<1> QED BY <1>1, <1>3, <1>4, <1>6, <1>8 DEF PairFits

\* The one combination of verify_multiple.
VerifierSum(p, Vs, bits, size, y, z, x, w, c, us) ==
    SevenParts(<<1, x, c ** x, (c ** x) ** x>>, <<p.A, p.S, p.T_1, p.T_2>>,
               Squares(us), p.ipp.L_vec, InverseSquares(us), p.ipp.R_vec,
               <<Neg(p.e_blinding) -- c ** p.t_x_blinding,
                 w ** (p.t_x -- p.ipp.a ** p.ipp.b)
                     ++ c ** (Delta(bits, size, y, z) -- p.t_x)>>,
               <<B_blinding, B>>,
               VerifierFirst(bits * size, z, p.ipp.a, SVector(us)),
               AggregatedGens("G", bits, size),
               VerifierSecond(bits, size, y, z, p.ipp.b, Reversed(SVector(us))),
               AggregatedGens("H", bits, size),
               Scale(c ** (z ** z), exp_iter(z, size)), Vs)

\* The vectors the dealer starts the argument with.
Argued(v, sh, bits, size, y) ==
    /\ v.a = Joint(sh, "l_vec", bits, size) /\ v.b = Joint(sh, "r_vec", bits, size)
    /\ v.gf = Ones(bits * size) /\ v.hf = exp_iter(Invert(y), bits * size)
    /\ v.G = AggregatedGens("G", bits, size) /\ v.H = AggregatedGens("H", bits, size)

\* The proof the dealer puts together from the messages and the argument s.
PutTogether(p, s, sh, bc, pc, size) ==
    /\ p.A = SumOfPoints([k \in 1..size |-> bc[k].A_j])
    /\ p.S = SumOfPoints([k \in 1..size |-> bc[k].S_j])
    /\ p.T_1 = SumOfPoints([k \in 1..size |-> pc[k].T_1_j])
    /\ p.T_2 = SumOfPoints([k \in 1..size |-> pc[k].T_2_j])
    /\ p.t_x = SumOf([k \in 1..size |-> sh[k].t_x])
    /\ p.t_x_blinding = SumOf([k \in 1..size |-> sh[k].t_x_blinding])
    /\ p.e_blinding = SumOf([k \in 1..size |-> sh[k].e_blinding])
    /\ p.ipp.a = s.v.a[1] /\ p.ipp.b = s.v.b[1]
    /\ p.ipp.L_vec = s.L_vec /\ p.ipp.R_vec = s.R_vec

\* The value commitments of the parties, in their order.
ForCommitments(Vs, bc, size) == Vs = [k \in 1..size |-> bc[k].V_j]

\* The vectors and sums of the messages at one generator: the three equations
\* the verifier's combination adds up.
VectorsZero(p, F, H, bits, size, x, g) ==
    Five(p.A[g], x ** p.S[g], Neg(p.e_blinding) ** B_blinding[g],
         multiscalar_mul(F, AggregatedGens("G", bits, size))[g],
         multiscalar_mul(H, AggregatedGens("H", bits, size))[g]) = 0
\* The joint equation about the values, at one generator.
ValuesZero(p, vo, bits, size, y, z, x, g) ==
    Five(SumOf(vo), x ** p.T_1[g], (x ** x) ** p.T_2[g],
         (Delta(bits, size, y, z) -- p.t_x) ** B[g], Neg(p.t_x_blinding) ** B_blinding[g]) = 0

\* What a proof carries has its type.
ProofTypes(p, bits, size, y, z) ==
    /\ p.A \in Point /\ p.S \in Point /\ p.T_1 \in Point /\ p.T_2 \in Point
    /\ p.t_x \in Scalar /\ p.t_x_blinding \in Scalar /\ p.e_blinding \in Scalar
    /\ Delta(bits, size, y, z) \in Scalar

\* The proof put together from audited messages satisfies both joint equations.
LEMMA SumsAre ==
  ASSUME NEW bits, NEW size, OfSizes(bits, size),
         NEW y \in Scalar \ {0}, NEW z \in Scalar \ {0}, NEW x \in Scalar,
         NEW sh, NEW bc, NEW pc, AreMessages(sh, bc, pc, bits, size, y, z, x),
         NEW p, NEW s, PutTogether(p, s, sh, bc, pc, size),
         NEW v, Argued(v, sh, bits, size, y), NEW Vs, ForCommitments(Vs, bc, size),
         NEW g \in Generator
  PROVE  /\ ProofTypes(p, bits, size, y, z)
         /\ Vs \in PointVec(size)
         /\ VectorsZero(p, OfAllFirst(bits * size, z, v.a), OfAllSecond(bits, size, y, z, v.b),
                        bits, size, x, g)
         /\ \E vo \in Vec(size) :
                /\ \A k \in 1..size : vo[k] = Offset(z, k - 1) ** Vs[k][g]
                /\ ValuesZero(p, vo, bits, size, y, z, x, g)
         /\ inner_product(v.a, v.b) = p.t_x
<1>0. bits \in Nat \ {0} /\ size \in Nat
  BY SizesFit
<1>1. \A k \in 1..size : sh[k].l_vec \in Vec(bits) /\ sh[k].r_vec \in Vec(bits)
  BY DEF AreMessages
<1>2. PICK L, R : L = v.a /\ R = v.b
  OBVIOUS
<1>3. /\ L \in Vec(bits * size) /\ \A k \in 1..size : Block(L, bits, k) = sh[k].l_vec
  BY <1>1, <1>2, JointIs DEF Argued
<1>4. /\ R \in Vec(bits * size) /\ \A k \in 1..size : Block(R, bits, k) = sh[k].r_vec
  BY <1>1, <1>2, JointIs DEF Argued
<1>5. PICK F, H : F = OfAllFirst(bits * size, z, L) /\ H = OfAllSecond(bits, size, y, z, R)
  OBVIOUS
<1>6. AllVectors(sh, bits, size, y, z, F, H)
  BY <1>1, <1>3, <1>4, <1>5, AllVectorsAre
<1>7. PICK PA, PS, ve : /\ PA = [k \in 1..size |-> bc[k].A_j]
                        /\ PS = [k \in 1..size |-> bc[k].S_j]
                        /\ ve = [k \in 1..size |-> sh[k].e_blinding]
  OBVIOUS
<1>8. /\ SumOfPoints(PA) \in Point /\ SumOfPoints(PS) \in Point /\ ve \in Vec(size)
      /\ Five(SumOfPoints(PA)[g], x ** SumOfPoints(PS)[g], Neg(SumOf(ve)) ** B_blinding[g],
              multiscalar_mul(F, AggregatedGens("G", bits, size))[g],
              multiscalar_mul(H, AggregatedGens("H", bits, size))[g]) = 0
  BY <1>6, <1>7, VectorsAddUp
<1>91. PICK P1 : P1 = [k \in 1..size |-> pc[k].T_1_j]
  OBVIOUS
<1>92. PICK P2 : P2 = [k \in 1..size |-> pc[k].T_2_j]
  OBVIOUS
<1>93. PICK vt : vt = [k \in 1..size |-> sh[k].t_x]
  OBVIOUS
<1>94. PICK vb : vb = [k \in 1..size |-> sh[k].t_x_blinding]
  OBVIOUS
<1>95. PICK vo : vo = [k \in 1..size |-> Offset(z, k - 1) ** bc[k].V_j[g]]
  OBVIOUS
<1>96. OfPolys(P1, P2, pc, size) /\ OfValues(vt, vb, sh, size) /\ OfOffsets(vo, bc, size, z, g)
  BY <1>91, <1>92, <1>93, <1>94, <1>95 DEF OfPolys, OfValues, OfOffsets
<1>10. /\ SumOfPoints(P1) \in Point /\ SumOfPoints(P2) \in Point
       /\ vt \in Vec(size) /\ vb \in Vec(size) /\ vo \in Vec(size)
       /\ Delta(bits, size, y, z) \in Scalar
       /\ Five(SumOf(vo), x ** SumOfPoints(P1)[g], (x ** x) ** SumOfPoints(P2)[g],
               (Delta(bits, size, y, z) -- SumOf(vt)) ** B[g],
               Neg(SumOf(vb)) ** B_blinding[g]) = 0
  BY <1>96, ValuesAddUp
<1>11. /\ p.A = SumOfPoints(PA) /\ p.S = SumOfPoints(PS) /\ p.e_blinding = SumOf(ve)
       /\ p.T_1 = SumOfPoints(P1) /\ p.T_2 = SumOfPoints(P2)
       /\ p.t_x = SumOf(vt) /\ p.t_x_blinding = SumOf(vb)
  BY <1>7, <1>91, <1>92, <1>93, <1>94 DEF PutTogether
<1>12. ProofTypes(p, bits, size, y, z)
  BY <1>0, <1>8, <1>10, <1>11, SumClosed DEF ProofTypes
<1>13. Vs \in PointVec(size) /\ \A k \in 1..size : Vs[k] = bc[k].V_j
  BY DEF ForCommitments, AreMessages, PointVec
<1>14. \A k \in 1..size : vo[k] = Offset(z, k - 1) ** Vs[k][g]
  BY <1>95, <1>13
<1>15. \A k \in 1..size : sh[k].t_x = inner_product(sh[k].l_vec, sh[k].r_vec)
  BY PartsAreNothing
<1>16. \A k \in 1..size : vt[k] = inner_product(Block(L, bits, k), Block(R, bits, k))
  BY <1>3, <1>4, <1>93, <1>15
<1>17. inner_product(L, R) = SumOf(vt)
  BY <1>3, <1>4, <1>10, <1>16, ProductsAddUp
<1>18. VectorsZero(p, F, H, bits, size, x, g)
  BY <1>8, <1>11 DEF VectorsZero
<1>19. ValuesZero(p, vo, bits, size, y, z, x, g)
  BY <1>10, <1>11 DEF ValuesZero
<1> QED BY <1>2, <1>5, <1>10, <1>11, <1>12, <1>13, <1>14, <1>17, <1>18, <1>19

\* Everything that goes into the verifier's combination.
AllHold(bits, size, y, z, x, k, sh, bc, pc, s, us, v, p, Vs, w) ==
    /\ OfSizes(bits, size) /\ bits * size = 2^k
    /\ y \in Scalar \ {0} /\ z \in Scalar \ {0} /\ x \in Scalar /\ w \in Scalar
    /\ AreMessages(sh, bc, pc, bits, size, y, z, x)
    /\ k \in Nat /\ KeptBy(s, v, multiscalar_mul(<<w>>, <<B>>), us, k, 1)
    /\ Argued(v, sh, bits, size, y)
    /\ PutTogether(p, s, sh, bc, pc, size)
    /\ ForCommitments(Vs, bc, size)

\* The verifier's combination at one generator.
VerifierAt(p, vo, F, H, v, s, us, bits, size, y, z, x, w, c, g) ==
    Total(p.A[g], x ** p.S[g], Neg(p.e_blinding) ** B_blinding[g],
          multiscalar_mul(F, v.G)[g], multiscalar_mul(H, v.H)[g],
          c ** SumOf(vo), c ** (x ** p.T_1[g]), c ** ((x ** x) ** p.T_2[g]),
          c ** ((Delta(bits, size, y, z) -- p.t_x) ** B[g]),
          c ** (Neg(p.t_x_blinding) ** B_blinding[g]),
          multiscalar_mul(Squares(us), s.L_vec)[g],
          multiscalar_mul(InverseSquares(us), s.R_vec)[g],
          p.t_x ** (w ** B[g]), (s.v.a[1] ** s.v.b[1]) ** (w ** B[g]),
          multiscalar_mul(Times(v.a, v.gf), v.G)[g],
          multiscalar_mul(Times(Scale(s.v.a[1], SVector(us)), v.gf), v.G)[g],
          multiscalar_mul(Times(v.b, v.hf), v.H)[g],
          multiscalar_mul(Times(Scale(s.v.b[1], Reversed(SVector(us))), v.hf), v.H)[g])

\* The one combination at a generator, in the parts that the equations are about.
LEMMA VerifierSumAt ==
  ASSUME NEW bits, NEW size, NEW y, NEW z, NEW x, NEW k, NEW sh, NEW bc, NEW pc, NEW s,
         NEW us, NEW v, NEW p, NEW Vs, NEW w,
         AllHold(bits, size, y, z, x, k, sh, bc, pc, s, us, v, p, Vs, w),
         NEW c \in Scalar, NEW g \in Generator
  PROVE  /\ VerifierSum(p, Vs, bits, size, y, z, x, w, c, us) \in Point
         /\ \E vo \in Vec(size) :
                /\ ValuesZero(p, vo, bits, size, y, z, x, g)
                /\ VerifierSum(p, Vs, bits, size, y, z, x, w, c, us)[g]
                     = VerifierAt(p, vo, OfAllFirst(bits * size, z, v.a),
                                  OfAllSecond(bits, size, y, z, v.b), v, s, us,
                                  bits, size, y, z, x, w, c, g)
<1>1. /\ OfSizes(bits, size) /\ bits * size = 2^k
      /\ y \in Scalar \ {0} /\ z \in Scalar \ {0} /\ x \in Scalar /\ w \in Scalar
      /\ y \in Scalar /\ z \in Scalar /\ k \in Nat
      /\ Argued(v, sh, bits, size, y) /\ PutTogether(p, s, sh, bc, pc, size)
  BY DEF AllHold
<1>2. bits \in Nat \ {0} /\ size \in Nat
  BY <1>1, SizesFit
<1>3. PICK N \in Nat : N = bits * size /\ N = 2^k
  BY <1>1, PowerOfTwoType
<1>4. /\ ProofTypes(p, bits, size, y, z) /\ Vs \in PointVec(size)
      /\ \E vo \in Vec(size) : /\ \A h \in 1..size : vo[h] = Offset(z, h - 1) ** Vs[h][g]
                               /\ ValuesZero(p, vo, bits, size, y, z, x, g)
  BY SumsAre DEF AllHold
<1>5. PICK vo \in Vec(size) : /\ \A h \in 1..size : vo[h] = Offset(z, h - 1) ** Vs[h][g]
                              /\ ValuesZero(p, vo, bits, size, y, z, x, g)
  BY <1>4
<1>6. multiscalar_mul(<<w>>, <<B>>) \in Point
  BY <1>1, CommitAt, ScalarClosed, FitsOne, MsmType DEF PairFits
<1>7. /\ ArgumentFits(s, v, us, k, N)
  BY <1>1, <1>3, <1>6, ArgumentHolds DEF AllHold
<1>8. PICK a, b, sv, si : a = s.v.a[1] /\ b = s.v.b[1] /\ sv = SVector(us)
                          /\ si = Reversed(SVector(us))
  OBVIOUS
<1>9. /\ a \in Scalar /\ b \in Scalar /\ sv \in Vec(N) /\ si \in Vec(N)
      /\ PairFits(k, Squares(us), s.L_vec) /\ PairFits(k, InverseSquares(us), s.R_vec)
  BY <1>7, <1>8 DEF ArgumentFits
<1>10. PICK L, R, G, H : L = v.a /\ R = v.b /\ G = v.G /\ H = v.H
  OBVIOUS
<1>11. L \in Vec(N) /\ R \in Vec(N)
  <2>1. \A h \in 1..size : sh[h].l_vec \in Vec(bits) /\ sh[h].r_vec \in Vec(bits)
    BY DEF AllHold, AreMessages
  <2> QED BY <1>1, <1>3, <1>10, <2>1, JointIs DEF Argued
<1>12. G \in PointVec(N) /\ H \in PointVec(N)
  BY <1>1, <1>2, <1>3, <1>10, AggregatedGensAre DEF Argued
<1>13. /\ v.gf = Ones(N) /\ v.hf = exp_iter(Invert(y), N)
       /\ G = AggregatedGens("G", bits, size) /\ H = AggregatedGens("H", bits, size)
  BY <1>1, <1>3, <1>10 DEF Argued
<1>14. PICK gg, hh, vv : /\ gg = VerifierFirst(N, z, a, sv)
                         /\ hh = VerifierSecond(bits, size, y, z, b, si)
                         /\ vv = Scale(c ** (z ** z), exp_iter(z, size))
  OBVIOUS
<1>15. /\ PairFits(N, gg, G)
       /\ multiscalar_mul(gg, G)[g]
            = (multiscalar_mul(OfAllFirst(N, z, L), G)[g]
                 ++ multiscalar_mul(Times(L, Ones(N)), G)[g])
                 -- multiscalar_mul(Times(Scale(a, sv), Ones(N)), G)[g]
  BY <1>1, <1>9, <1>11, <1>12, <1>14, FirstAt, SMTT(30)
<1>16. /\ PairFits(N, hh, H)
       /\ multiscalar_mul(hh, H)[g]
            = (multiscalar_mul(OfAllSecond(bits, size, y, z, R), H)[g]
                 ++ multiscalar_mul(Times(R, exp_iter(Invert(y), N)), H)[g])
                 -- multiscalar_mul(Times(Scale(b, si), exp_iter(Invert(y), N)), H)[g]
  <2>1. IsProductOf(N, bits, size)
    BY <1>3 DEF IsProductOf
  <2>2. PICK yi, f, l, q : SecondParts(hh, yi, f, l, q, bits, size, y, z, b, si, R, N)
    BY <1>14, <2>1 DEF SecondParts
  <2>3. /\ PairFits(N, hh, H)
        /\ multiscalar_mul(hh, H)[g]
             = (multiscalar_mul(f, H)[g] ++ multiscalar_mul(l, H)[g]) -- multiscalar_mul(q, H)[g]
    BY <1>1, <1>9, <1>11, <1>12, <2>2, SecondAt
  <2> QED BY <2>2, <2>3 DEF SecondParts
<1>17. /\ PairFits(size, vv, Vs) /\ multiscalar_mul(vv, Vs)[g] = c ** SumOf(vo)
  BY <1>1, <1>2, <1>4, <1>5, <1>14, CommitmentsAt
<1>18. PICK A, S, T1, T2, t, tb, e, d : /\ A = p.A /\ S = p.S /\ T1 = p.T_1 /\ T2 = p.T_2
                                        /\ t = p.t_x /\ tb = p.t_x_blinding
                                        /\ e = p.e_blinding /\ d = Delta(bits, size, y, z)
  OBVIOUS
<1>19. /\ A \in Point /\ S \in Point /\ T1 \in Point /\ T2 \in Point
       /\ t \in Scalar /\ tb \in Scalar /\ e \in Scalar /\ d \in Scalar
  BY <1>4, <1>18 DEF ProofTypes
<1>20. PICK ab \in Scalar : ab = a ** b
  BY <1>9, ScalarClosed
<1>21. PICK sp, pp : sp = <<1, x, c ** x, (c ** x) ** x>> /\ pp = <<A, S, T1, T2>>
  OBVIOUS
<1>22. /\ PairFits(4, sp, pp)
       /\ multiscalar_mul(sp, pp)[g]
            = ((A[g] ++ x ** S[g]) ++ c ** (x ** T1[g])) ++ c ** ((x ** x) ** T2[g])
  BY <1>1, <1>19, <1>21, ProofPointsAt
<1>23. PICK sb, pb : /\ sb = <<Neg(e) -- c ** tb, w ** (t -- ab) ++ c ** (d -- t)>>
                     /\ pb = <<B_blinding, B>>
  OBVIOUS
<1>24. /\ PairFits(2, sb, pb)
       /\ multiscalar_mul(sb, pb)[g]
            = (Neg(e) ** B_blinding[g] ++ c ** (Neg(tb) ** B_blinding[g]))
                ++ ((t ** (w ** B[g]) -- ab ** (w ** B[g])) ++ c ** ((d -- t) ** B[g]))
  <2>1. BasesOf(sb, pb, e, c, tb, w, t, ab, d)
    BY <1>23 DEF BasesOf
  <2>2. e \in Scalar /\ tb \in Scalar /\ w \in Scalar /\ t \in Scalar /\ d \in Scalar
    BY <1>1, <1>19
  <2>3. BasesGive(sb, pb, e, c, tb, w, t, ab, d)
    BY <2>1, <2>2, BasesAt
  <2> QED BY <2>3 DEF BasesGive
<1>25. PICK sq, iq, lv, rv : /\ sq = Squares(us) /\ iq = InverseSquares(us)
                             /\ lv = s.L_vec /\ rv = s.R_vec
  OBVIOUS
<1>26. PairFits(k, sq, lv) /\ PairFits(k, iq, rv)
  BY <1>9, <1>25
<1>27. SevenFit(N, k, size, sp, pp, sq, lv, iq, rv, sb, pb, gg, G, hh, H, vv, Vs)
  BY <1>15, <1>16, <1>17, <1>22, <1>24, <1>26 DEF SevenFit
<1>28. PICK all : all = SevenParts(sp, pp, sq, lv, iq, rv, sb, pb, gg, G, hh, H, vv, Vs)
  OBVIOUS
<1>29. /\ all \in Point
       /\ all[g] = (((((multiscalar_mul(sp, pp)[g] ++ multiscalar_mul(sq, lv)[g])
                          ++ multiscalar_mul(iq, rv)[g]) ++ multiscalar_mul(sb, pb)[g])
                          ++ multiscalar_mul(gg, G)[g]) ++ multiscalar_mul(hh, H)[g])
                          ++ multiscalar_mul(vv, Vs)[g]
  BY <1>27, <1>28, SevenAt
<1>30. p.ipp.a = a /\ p.ipp.b = b /\ p.ipp.L_vec = lv /\ p.ipp.R_vec = rv
  BY <1>1, <1>8, <1>25 DEF PutTogether
<1>31. VerifierSum(p, Vs, bits, size, y, z, x, w, c, us) = all
  BY <1>3, <1>8, <1>10, <1>13, <1>14, <1>18, <1>20, <1>21, <1>23, <1>25, <1>28, <1>30
     DEF VerifierSum
<1>32. VerifierAt(p, vo, OfAllFirst(N, z, L), OfAllSecond(bits, size, y, z, R), v, s, us,
                  bits, size, y, z, x, w, c, g)
         = all[g]
  <2>1. VerifierAt(p, vo, OfAllFirst(N, z, L), OfAllSecond(bits, size, y, z, R), v, s, us,
                   bits, size, y, z, x, w, c, g)
        = Total(A[g], x ** S[g], Neg(e) ** B_blinding[g],
                multiscalar_mul(OfAllFirst(N, z, L), G)[g],
                multiscalar_mul(OfAllSecond(bits, size, y, z, R), H)[g],
                c ** SumOf(vo), c ** (x ** T1[g]), c ** ((x ** x) ** T2[g]),
                c ** ((d -- t) ** B[g]), c ** (Neg(tb) ** B_blinding[g]),
                multiscalar_mul(sq, lv)[g], multiscalar_mul(iq, rv)[g],
                t ** (w ** B[g]), ab ** (w ** B[g]),
                multiscalar_mul(Times(L, Ones(N)), G)[g],
                multiscalar_mul(Times(Scale(a, sv), Ones(N)), G)[g],
                multiscalar_mul(Times(R, exp_iter(Invert(y), N)), H)[g],
                multiscalar_mul(Times(Scale(b, si), exp_iter(Invert(y), N)), H)[g])
    BY <1>8, <1>10, <1>13, <1>18, <1>20, <1>25 DEF VerifierAt
  <2> QED BY <1>15, <1>16, <1>17, <1>22, <1>24, <1>29, <2>1 DEF Total
<1> QED BY <1>3, <1>5, <1>10, <1>29, <1>31, <1>32

\* The verifier's combination is nothing.
LEMMA CombinationIsNothing ==
  ASSUME NEW bits, NEW size, NEW y, NEW z, NEW x, NEW k, NEW sh, NEW bc, NEW pc, NEW s,
         NEW us, NEW v, NEW p, NEW Vs, NEW w,
         AllHold(bits, size, y, z, x, k, sh, bc, pc, s, us, v, p, Vs, w),
         NEW c \in Scalar
  PROVE  VerifierSum(p, Vs, bits, size, y, z, x, w, c, us) = Identity
<1>1. /\ OfSizes(bits, size) /\ bits * size = 2^k
      /\ y \in Scalar \ {0} /\ z \in Scalar \ {0} /\ x \in Scalar /\ w \in Scalar
      /\ y \in Scalar /\ z \in Scalar /\ k \in Nat
      /\ Argued(v, sh, bits, size, y) /\ PutTogether(p, s, sh, bc, pc, size)
  BY DEF AllHold
<1>2. bits \in Nat \ {0} /\ size \in Nat
  BY <1>1, SizesFit
<1>3. PICK N \in Nat : N = bits * size /\ N = 2^k
  BY <1>1, PowerOfTwoType
<1>4. PICK Qp \in Point : /\ Qp = multiscalar_mul(<<w>>, <<B>>)
                          /\ \A g \in Generator : Qp[g] = w ** B[g]
  <2>1. B \in Point
    BY CommitAt, ScalarClosed
  <2>2. /\ PairFits(1, <<w>>, <<B>>)
        /\ \A g \in Generator : multiscalar_mul(<<w>>, <<B>>)[g] = w ** B[g]
    BY <1>1, <2>1, FitsOne
  <2>3. multiscalar_mul(<<w>>, <<B>>) \in Point
    BY <2>2, MsmType DEF PairFits
  <2> QED BY <2>2, <2>3
<1>5. /\ ArgumentFits(s, v, us, k, N)
      /\ \A g \in Generator : ArgumentAt(s, v, Qp, us, g)
  BY <1>1, <1>3, <1>4, ArgumentHolds DEF AllHold
<1>6. PICK F, H : F = OfAllFirst(N, z, v.a) /\ H = OfAllSecond(bits, size, y, z, v.b)
  OBVIOUS
<1>7. PICK sum : sum = VerifierSum(p, Vs, bits, size, y, z, x, w, c, us)
  OBVIOUS
<1>8. ASSUME NEW g \in Generator PROVE sum \in Point /\ sum[g] = 0
  <2>1. /\ ProofTypes(p, bits, size, y, z) /\ VectorsZero(p, F, H, bits, size, x, g)
        /\ inner_product(v.a, v.b) = p.t_x
    BY <1>3, <1>6, SumsAre DEF AllHold
  <2>2. PICK vo \in Vec(size) :
            /\ ValuesZero(p, vo, bits, size, y, z, x, g) /\ sum \in Point
            /\ sum[g] = VerifierAt(p, vo, F, H, v, s, us, bits, size, y, z, x, w, c, g)
    BY <1>3, <1>6, <1>7, VerifierSumAt
  <2>3. PICK f0, f1 \in Scalar : f0 = B[g] /\ f1 = B_blinding[g]
    BY CommitAt, ScalarClosed DEF Point
  <2>4. PICK a, ss, t1, t2, t, tb, e, d, o \in Scalar :
            /\ a = p.A[g] /\ ss = p.S[g] /\ t1 = p.T_1[g] /\ t2 = p.T_2[g] /\ t = p.t_x
            /\ tb = p.t_x_blinding /\ e = p.e_blinding /\ d = Delta(bits, size, y, z)
            /\ o = SumOf(vo)
    BY <1>2, <2>1, SumClosed DEF ProofTypes, Point
  <2>5. v.G \in PointVec(N) /\ v.H \in PointVec(N) /\ F \in Vec(N) /\ H \in Vec(N)
    <3>1. v.G \in PointVec(N) /\ v.H \in PointVec(N)
      BY <1>5 DEF ArgumentFits, PairFits
    <3>2. \A h \in 1..size : sh[h].l_vec \in Vec(bits) /\ sh[h].r_vec \in Vec(bits)
      BY DEF AllHold, AreMessages
    <3>3. PICK L, R : L = v.a /\ R = v.b
      OBVIOUS
    <3>4. L \in Vec(bits * size) /\ \A h \in 1..size : Block(L, bits, h) = sh[h].l_vec
      BY <1>1, <3>2, <3>3, JointIs DEF Argued
    <3>5. R \in Vec(bits * size) /\ \A h \in 1..size : Block(R, bits, h) = sh[h].r_vec
      BY <1>1, <3>2, <3>3, JointIs DEF Argued
    <3>6. AllVectors(sh, bits, size, y, z, OfAllFirst(bits * size, z, L),
                     OfAllSecond(bits, size, y, z, R))
      BY <1>1, <3>2, <3>4, <3>5, AllVectorsAre
    <3> QED BY <1>3, <1>6, <3>1, <3>3, <3>6 DEF AllVectors
  <2>6. PICK p4, p5, lg, ag, rh, bh, sl, sr \in Scalar :
            /\ p4 = multiscalar_mul(F, v.G)[g] /\ p5 = multiscalar_mul(H, v.H)[g]
            /\ lg = multiscalar_mul(Times(v.a, v.gf), v.G)[g]
            /\ ag = multiscalar_mul(Times(Scale(s.v.a[1], SVector(us)), v.gf), v.G)[g]
            /\ rh = multiscalar_mul(Times(v.b, v.hf), v.H)[g]
            /\ bh = multiscalar_mul(Times(Scale(s.v.b[1], Reversed(SVector(us))), v.hf), v.H)[g]
            /\ sl = multiscalar_mul(Squares(us), s.L_vec)[g]
            /\ sr = multiscalar_mul(InverseSquares(us), s.R_vec)[g]
    <3>1. /\ multiscalar_mul(F, v.G)[g] \in Scalar /\ multiscalar_mul(H, v.H)[g] \in Scalar
      BY <2>5, FitsAt DEF PairFits
    <3>2. multiscalar_mul(Times(v.a, v.gf), v.G)[g] \in Scalar
      BY <1>5, FitsAt DEF ArgumentFits
    <3>3. multiscalar_mul(Times(Scale(s.v.a[1], SVector(us)), v.gf), v.G)[g] \in Scalar
      BY <1>5, FitsAt DEF ArgumentFits
    <3>4. multiscalar_mul(Times(v.b, v.hf), v.H)[g] \in Scalar
      BY <1>5, FitsAt DEF ArgumentFits
    <3>5. multiscalar_mul(Times(Scale(s.v.b[1], Reversed(SVector(us))), v.hf), v.H)[g] \in Scalar
      BY <1>5, FitsAt DEF ArgumentFits
    <3>6. /\ multiscalar_mul(Squares(us), s.L_vec)[g] \in Scalar
          /\ multiscalar_mul(InverseSquares(us), s.R_vec)[g] \in Scalar
      BY <1>5, FitsAt DEF ArgumentFits
    <3> QED BY <3>1, <3>2, <3>3, <3>4, <3>5, <3>6
  <2>7. PICK ab \in Scalar : ab = s.v.a[1] ** s.v.b[1]
    BY <1>5, ScalarClosed DEF ArgumentFits
  <2>8. PICK p2, p3, q2, q3, q4, q5, k1, k2 \in Scalar :
            /\ p2 = x ** ss /\ p3 = Neg(e) ** f1
            /\ q2 = x ** t1 /\ q3 = (x ** x) ** t2 /\ q4 = (d -- t) ** f0 /\ q5 = Neg(tb) ** f1
            /\ k1 = t ** (w ** f0) /\ k2 = ab ** (w ** f0)
    <3>1. /\ Neg(e) \in Scalar /\ Neg(tb) \in Scalar /\ x ** x \in Scalar /\ d -- t \in Scalar
          /\ w ** f0 \in Scalar
      BY <1>1, ScalarClosed
    <3>2. x ** ss \in Scalar /\ Neg(e) ** f1 \in Scalar /\ x ** t1 \in Scalar
      BY <1>1, <3>1, ScalarClosed
    <3>3. (x ** x) ** t2 \in Scalar /\ (d -- t) ** f0 \in Scalar /\ Neg(tb) ** f1 \in Scalar
      BY <3>1, ScalarClosed
    <3>4. t ** (w ** f0) \in Scalar /\ ab ** (w ** f0) \in Scalar
      BY <3>1, ScalarClosed
    <3> QED BY <3>2, <3>3, <3>4
  <2>9. Five(a, p2, p3, p4, p5) = 0
    <3>1. v.G = AggregatedGens("G", bits, size) /\ v.H = AggregatedGens("H", bits, size)
      BY <1>1 DEF Argued
    <3> QED BY <2>1, <2>3, <2>4, <2>6, <2>8, <3>1 DEF VectorsZero
  <2>10. Five(o, q2, q3, q4, q5) = 0
    BY <2>2, <2>3, <2>4, <2>8 DEF ValuesZero
  <2>11. PICK r1, r2, r3, r4, r5 \in Scalar :
             /\ r1 = c ** o /\ r2 = c ** q2 /\ r3 = c ** q3 /\ r4 = c ** q4 /\ r5 = c ** q5
    BY ScalarClosed
  <2>12. Five(r1, r2, r3, r4, r5) = 0
    <3>1. FiveTimes(r1, r2, r3, r4, r5, c, o, q2, q3, q4, q5)
      BY <2>4, <2>8, <2>10, <2>11 DEF FiveTimes
    <3> QED BY <3>1, FiveScaled
  <2>13. (lg ++ rh) ++ k1 = (((k2 ++ ag) ++ bh) ++ Neg(sl)) ++ Neg(sr)
    <3>1. ArgumentAt(s, v, Qp, us, g) /\ Qp[g] = w ** f0
      BY <1>4, <1>5, <2>3
    <3> QED BY <2>1, <2>4, <2>6, <2>7, <2>8, <3>1 DEF ArgumentAt
  <2>14. Total(a, p2, p3, p4, p5, r1, r2, r3, r4, r5, sl, sr, k1, k2, lg, ag, rh, bh) = 0
    <3>1. TotalFits(a, p2, p3, p4, p5, r1, r2, r3, r4, r5, sl, sr, k1, k2, lg, ag, rh, bh)
      BY <2>4, <2>6, <2>8, <2>9, <2>11, <2>12, <2>13 DEF TotalFits
    <3> QED BY <3>1, TotalIsNothing
  <2>15. VerifierAt(p, vo, F, H, v, s, us, bits, size, y, z, x, w, c, g)
           = Total(a, p2, p3, p4, p5, r1, r2, r3, r4, r5, sl, sr, k1, k2, lg, ag, rh, bh)
    BY <2>3, <2>4, <2>6, <2>7, <2>8, <2>11 DEF VerifierAt
  <2> QED BY <2>2, <2>14, <2>15
<1>9. <<"B", 0, 0>> \in Generator
  BY DEF Generator
<1>10. sum \in Point /\ \A g \in Generator : sum[g] = 0
  BY <1>8, <1>9
<1>11. Identity \in Point /\ \A g \in Generator : Identity[g] = 0
  BY ScalarClosed DEF Identity, Point
<1> QED BY <1>7, <1>10, <1>11, PointExtensional

\* A proof p assembled from the messages, for the challenges of the transcript t.
Assembly(bits, size, y, z, x, w, k, us, sh, bc, pc, Vs, t, v, made, p) ==
    /\ OfSizes(bits, size) /\ SizesRefused(bits, size) = "none"
    /\ k \in Nat /\ bits * size = 2^k /\ Usable(us, k)
    /\ y \in Scalar \ {0} /\ z \in Scalar \ {0} /\ x \in Scalar /\ w \in Scalar
    /\ AreMessages(sh, bc, pc, bits, size, y, z, x)
    /\ ForCommitments(Vs, bc, size)
    /\ t = WithSums(WithPolys(WithBits(Opening(bits, Vs), p.A, p.S, y, z), p.T_1, p.T_2, x),
                    p.t_x, p.t_x_blinding, p.e_blinding, w)
    /\ Argued(v, sh, bits, size, y)
    /\ made = create(t, multiscalar_mul(<<w>>, <<B>>), v, us)
    /\ PutTogether(p, made, sh, bc, pc, size) /\ p.ipp = IPPProof(made)

\* The vectors the argument starts with.
LEMMA ArguedFits ==
  ASSUME NEW bits, NEW size, OfSizes(bits, size), NEW y \in Scalar \ {0}, NEW sh,
         \A h \in 1..size : sh[h].l_vec \in Vec(bits) /\ sh[h].r_vec \in Vec(bits),
         NEW v, Argued(v, sh, bits, size, y)
  PROVE  WellFormed(v, bits * size)
<1>1. bits \in Nat \ {0} /\ size \in Nat
  BY SizesFit
<1>2. PICK N \in Nat : N = bits * size
  BY <1>1
<1>3. PICK L : L = v.a
  OBVIOUS
<1>4. PICK R : R = v.b
  OBVIOUS
<1>5. L \in Vec(bits * size)
  BY <1>3, JointIs DEF Argued
<1>6. R \in Vec(bits * size)
  BY <1>4, JointIs DEF Argued
<1>7. Ones(N) \in Vec(N)
  BY <1>2, ScalarClosed DEF Ones, Vec
<1>8. exp_iter(Invert(y), N) \in Vec(N)
  BY <1>2, Inverses, ExpIterIs
<1>9. v.G \in PointVec(N) /\ v.H \in PointVec(N)
  BY <1>1, <1>2, AggregatedGensAre DEF Argued
<1> QED BY <1>2, <1>3, <1>4, <1>5, <1>6, <1>7, <1>8, <1>9 DEF WellFormed, Argued

\* The argument made for it, and its challenges.
LEMMA AssemblyArgues ==
  ASSUME NEW bits, NEW size, NEW y, NEW z, NEW x, NEW w, NEW k, NEW us, NEW sh, NEW bc,
         NEW pc, NEW Vs, NEW t, NEW v, NEW made, NEW p,
         Assembly(bits, size, y, z, x, w, k, us, sh, bc, pc, Vs, t, v, made, p)
  PROVE  /\ IsSequence(Vs) /\ Len(Vs) = size /\ IsSequence(t)
         /\ multiscalar_mul(<<w>>, <<B>>) \in Point
         /\ \E s : /\ Created(made, s, t, v, multiscalar_mul(<<w>>, <<B>>), us, k)
                   /\ AllHold(bits, size, y, z, x, k, sh, bc, pc, s, us, v, p, Vs, w)
<1>1. /\ OfSizes(bits, size) /\ k \in Nat /\ bits * size = 2^k /\ Usable(us, k)
      /\ y \in Scalar \ {0} /\ z \in Scalar \ {0} /\ x \in Scalar /\ w \in Scalar
      /\ AreMessages(sh, bc, pc, bits, size, y, z, x)
      /\ ForCommitments(Vs, bc, size) /\ Argued(v, sh, bits, size, y)
      /\ made = create(t, multiscalar_mul(<<w>>, <<B>>), v, us)
      /\ PutTogether(p, made, sh, bc, pc, size)
  BY DEF Assembly
<1>2. size \in Nat
  BY <1>1, SizesFit
<1>3. IsSequence(Vs) /\ Len(Vs) = size
  <2>1. Vs \in [1..size -> Point]
    BY <1>1 DEF ForCommitments, AreMessages
  <2>2. Vs \in Seq(Point) /\ Len(Vs) = size
    BY <1>2, <2>1
  <2> QED BY <2>2 DEF IsSequence
<1>4. PICK t0 : t0 = WithPolys(WithBits(Opening(bits, Vs), p.A, p.S, y, z), p.T_1, p.T_2, x)
  OBVIOUS
<1>5. IsSequence(t0) /\ Without(t0, "w")
  BY <1>3, <1>4, TranscriptTells
<1>6. t = WithSums(t0, p.t_x, p.t_x_blinding, p.e_blinding, w)
  BY <1>4 DEF Assembly
<1>7. IsSequence(t)
  BY <1>5, <1>6, SumsTell
<1>8. PICK Qp : Qp = multiscalar_mul(<<w>>, <<B>>)
  OBVIOUS
<1>9. Qp \in Point
  BY <1>1, <1>8, CommitAt, ScalarClosed, FitsOne, MsmType DEF PairFits
<1>10. WellFormed(v, 2^k)
  BY <1>1, ArguedFits DEF AreMessages
<1>11. PICK s : Created(create(t, Qp, v, us), s, t, v, Qp, us, k)
  BY <1>1, <1>7, <1>9, <1>10, CreateKeepsClaim
<1>12. Created(made, s, t, v, Qp, us, k)
  BY <1>1, <1>8, <1>11
<1>13. made.v = s.v /\ made.L_vec = s.L_vec /\ made.R_vec = s.R_vec
       /\ KeptBy(s, v, Qp, us, k, 1)
  BY <1>12 DEF Created, StartsAfter
<1>14. PutTogether(p, s, sh, bc, pc, size)
  BY <1>1, <1>13 DEF PutTogether
<1>15. AllHold(bits, size, y, z, x, k, sh, bc, pc, s, us, v, p, Vs, w)
  BY <1>1, <1>8, <1>13, <1>14 DEF AllHold
<1> QED BY <1>3, <1>7, <1>8, <1>9, <1>12, <1>15

\* Replayed, the transcript yields the challenges again.
LEMMA AssemblyReplays ==
  ASSUME NEW bits, NEW size, NEW y, NEW z, NEW x, NEW w, NEW k, NEW us, NEW sh, NEW bc,
         NEW pc, NEW Vs, NEW t, NEW v, NEW made, NEW p,
         Assembly(bits, size, y, z, x, w, k, us, sh, bc, pc, Vs, t, v, made, p),
         NEW unrelated
  PROVE  /\ Replay(p, Vs, bits, made.transcript, unrelated) = t
         /\ ChallengesOf(t, "y")[1] = y /\ ChallengesOf(t, "z")[1] = z
         /\ ChallengesOf(t, "x")[1] = x /\ ChallengesOf(t, "w")[1] = w
<1>1. PICK s : /\ IsSequence(Vs) /\ IsSequence(t)
               /\ Created(made, s, t, v, multiscalar_mul(<<w>>, <<B>>), us, k)
  BY AssemblyArgues
<1>2. PICK t0 : t0 = WithPolys(WithBits(Opening(bits, Vs), p.A, p.S, y, z), p.T_1, p.T_2, x)
  OBVIOUS
<1>3. IsSequence(t0) /\ Without(t0, "w") /\ FirstDraw(t0, "y", y) /\ FirstDraw(t0, "z", z)
      /\ FirstDraw(t0, "x", x)
  BY <1>1, <1>2, TranscriptTells
<1>4. t = WithSums(t0, p.t_x, p.t_x_blinding, p.e_blinding, w)
  BY <1>2 DEF Assembly
<1>5. FirstDraw(t, "w", w) /\ \A label, c : FirstDraw(t0, label, c) => FirstDraw(t, label, c)
  BY <1>3, <1>4, SumsTell
<1>6. FirstDraw(t, "y", y) /\ FirstDraw(t, "z", z) /\ FirstDraw(t, "x", x)
  BY <1>3, <1>5
<1>7. ChallengesOf(t, "y")[1] = y
  BY <1>1, <1>6, FirstDrawn
<1>8. ChallengesOf(t, "z")[1] = z
  BY <1>1, <1>6, FirstDrawn
<1>9. ChallengesOf(t, "x")[1] = x
  BY <1>1, <1>6, FirstDrawn
<1>10. ChallengesOf(t, "w")[1] = w
  BY <1>1, <1>5, FirstDrawn
<1>11. PICK rest : rest = made.transcript
  OBVIOUS
<1>12. rest = t \o s.transcript /\ IsSequence(s.transcript)
  BY <1>1, <1>11 DEF Created, StartsAfter
<1>13. IsSequence(rest) /\ Extends(t, rest)
  BY <1>1, <1>12, ThenSequence
<1>14. Replay(p, Vs, bits, rest, unrelated) = t
  <2>1. Tells(t, p, Vs, bits, y, z, x, w)
    BY DEF Assembly, Tells
  <2> QED BY <1>1, <1>13, <2>1, ReplayTells
<1> QED BY <1>7, <1>8, <1>9, <1>10, <1>11, <1>14

\* Its points are in the transcript, each under its label.
LEMMA AssemblyTellsPoints ==
  ASSUME NEW bits, NEW size, NEW y, NEW z, NEW x, NEW w, NEW k, NEW us, NEW sh, NEW bc,
         NEW pc, NEW Vs, NEW t, NEW v, NEW made, NEW p,
         Assembly(bits, size, y, z, x, w, k, us, sh, bc, pc, Vs, t, v, made, p),
         ~HasIdentity(made.transcript)
  PROVE  /\ Identity \notin {p.A, p.S, p.T_1, p.T_2}
         /\ \A i \in 1..k : Identity \notin {made.L_vec[i], made.R_vec[i]}
<1>1. PICK s : /\ IsSequence(Vs) /\ IsSequence(t)
               /\ Created(made, s, t, v, multiscalar_mul(<<w>>, <<B>>), us, k)
  BY AssemblyArgues
<1>2. PICK r, q : r = made.transcript /\ q = s.transcript
  OBVIOUS
<1>3. /\ r = t \o q /\ IsSequence(q) /\ made.L_vec = s.L_vec /\ made.R_vec = s.R_vec
      /\ Recorded(s, us, k, 1 * 2^k)
  BY <1>1, <1>2 DEF Created, StartsAfter, KeptBy
<1>4. IsSequence(r) /\ Extends(t, r) /\ \A i \in 1..Len(q) : r[Len(t) + i] = q[i]
  BY <1>1, <1>3, ThenSequence
<1>5. Len(t) \in Nat /\ Len(q) \in Nat /\ DOMAIN r = 1..Len(r) /\ Len(r) = Len(t) + Len(q)
  BY <1>1, <1>3, <1>4, ThenSequence, LenOfSequence, SequenceDomain
<1>6. ASSUME NEW i \in DOMAIN r, NEW label \in PointLabels, NEW P, r[i] = <<label, P>>
      PROVE  P # Identity
  BY <1>2, <1>6 DEF HasIdentity
<1>7. PICK t0 : t0 = WithPolys(WithBits(Opening(bits, Vs), p.A, p.S, y, z), p.T_1, p.T_2, x)
  OBVIOUS
<1>8. IsSequence(t0) /\ Without(t0, "w")
      /\ FirstDraw(t0, "A", p.A) /\ FirstDraw(t0, "S", p.S)
      /\ FirstDraw(t0, "T_1", p.T_1) /\ FirstDraw(t0, "T_2", p.T_2)
  BY <1>1, <1>7, TranscriptTells
<1>9. t = WithSums(t0, p.t_x, p.t_x_blinding, p.e_blinding, w)
  BY <1>7 DEF Assembly
<1>10. \A label, c : FirstDraw(t0, label, c) => FirstDraw(t, label, c)
  BY <1>8, <1>9, SumsTell
<1>11. FirstDraw(t, "A", p.A) /\ FirstDraw(t, "S", p.S)
       /\ FirstDraw(t, "T_1", p.T_1) /\ FirstDraw(t, "T_2", p.T_2)
  BY <1>8, <1>10
<1>12. ASSUME NEW label \in PointLabels, NEW P, FirstDraw(t, label, P) PROVE P # Identity
  <2>1. PICK i \in 1..Len(t) : t[i] = <<label, P>>
    BY <1>12 DEF FirstDraw
  <2>2. i \in DOMAIN r /\ r[i] = <<label, P>>
    BY <1>1, <1>4, <2>1, SequenceDomain DEF Extends
  <2> QED BY <1>6, <2>2
<1>13. PointLabels = {"A", "S", "T_1", "T_2", "L", "R"}
  BY DEF PointLabels
<1>14. p.A # Identity /\ p.S # Identity /\ p.T_1 # Identity /\ p.T_2 # Identity
  BY <1>11, <1>12, <1>13
<1>15. ASSUME NEW i \in 1..k PROVE Identity \notin {made.L_vec[i], made.R_vec[i]}
  <2>1. k \in Nat
    BY DEF Assembly
  <2>2. Len(q) = 2 + 3 * k /\ q[3 * i] = <<"L", made.L_vec[i]>>
        /\ q[3 * i + 1] = <<"R", made.R_vec[i]>>
    BY <1>2, <1>3, <1>15 DEF Recorded
  <2>3. 3 * i \in 1..Len(q) /\ 3 * i + 1 \in 1..Len(q)
    BY <2>1, <2>2
  <2>4. PICK a, b : a = Len(t) + 3 * i /\ b = Len(t) + (3 * i + 1)
    OBVIOUS
  <2>5. a \in DOMAIN r /\ b \in DOMAIN r
    BY <1>5, <2>3, <2>4
  <2>6. r[a] = <<"L", made.L_vec[i]>> /\ r[b] = <<"R", made.R_vec[i]>>
    BY <1>4, <2>2, <2>3, <2>4
  <2> QED BY <1>6, <1>13, <2>5, <2>6
<1> QED BY <1>14, <1>15

\* The verifier accepts what was assembled.
LEMMA AssemblyVerifies ==
  ASSUME NEW bits, NEW size, NEW y, NEW z, NEW x, NEW w, NEW k, NEW us, NEW sh, NEW bc,
         NEW pc, NEW Vs, NEW t, NEW v, NEW made, NEW p,
         Assembly(bits, size, y, z, x, w, k, us, sh, bc, pc, Vs, t, v, made, p),
         k < 32, ~HasIdentity(made.transcript), NEW unrelated, NEW c \in Scalar
  PROVE  verify_multiple(p, Vs, bits, made.transcript, unrelated, c)
<1>1. PICK Qp, s :
          /\ Qp \in Point /\ IsSequence(Vs) /\ Len(Vs) = size /\ IsSequence(t)
          /\ Created(made, s, t, v, Qp, us, k)
          /\ AllHold(bits, size, y, z, x, k, sh, bc, pc, s, us, v, p, Vs, w)
  BY AssemblyArgues
<1>2. k \in Nat /\ bits * size = 2^k /\ SizesRefused(bits, size) = "none"
      /\ p.ipp = IPPProof(made) /\ Identity \notin {p.A, p.S, p.T_1, p.T_2}
      /\ \A i \in 1..k : Identity \notin {made.L_vec[i], made.R_vec[i]}
  BY AssemblyTellsPoints DEF Assembly
<1>3. PICK vs : vs = verification_scalars(p.ipp, bits * size, t, made.transcript, unrelated)
  OBVIOUS
<1>4. vs.u_sq = Squares(us) /\ vs.u_inv_sq = InverseSquares(us) /\ vs.s = SVector(us)
  <2>1. ScalarsOf(vs, made, k, t, unrelated)
    BY <1>2, <1>3 DEF ScalarsOf
  <2> QED BY <1>1, <1>2, <2>1, ScalarsAre
<1>5. p.ipp.L_vec = made.L_vec /\ p.ipp.R_vec = made.R_vec
  BY <1>2 DEF IPPProof
<1>6. Len(p.ipp.L_vec) = k /\ DOMAIN p.ipp.L_vec = 1..k
  <2>1. s.L_vec \in [1..k -> Point] /\ made.L_vec = s.L_vec
    BY <1>1 DEF Created, StartsAfter, KeptBy, PointVec
  <2>2. PICK L : L = s.L_vec
    OBVIOUS
  <2>3. L \in [1..k -> Point] => Len(L) = k /\ DOMAIN L = 1..k
    BY <1>2
  <2> QED BY <1>5, <2>1, <2>2, <2>3
<1>7. ~ScalarsRefused(p.ipp, bits * size)
  BY <1>2, <1>5, <1>6 DEF ScalarsRefused
<1>8. VerifierSum(p, Vs, bits, size, y, z, x, w, c, us) = Identity
  BY <1>1, CombinationIsNothing
<1>9. /\ Replay(p, Vs, bits, made.transcript, unrelated) = t
      /\ ChallengesOf(t, "y")[1] = y /\ ChallengesOf(t, "z")[1] = z
      /\ ChallengesOf(t, "x")[1] = x /\ ChallengesOf(t, "w")[1] = w
  BY AssemblyReplays
<1>10. Identity = multiscalar_mul(
           <<1, x, c ** x, (c ** x) ** x>> \o vs.u_sq \o vs.u_inv_sq
               \o <<Neg(p.e_blinding) -- c ** p.t_x_blinding,
                    w ** (p.t_x -- p.ipp.a ** p.ipp.b)
                        ++ c ** (Delta(bits, size, y, z) -- p.t_x)>>
               \o VerifierFirst(bits * size, z, p.ipp.a, vs.s)
               \o VerifierSecond(bits, size, y, z, p.ipp.b, Reversed(vs.s))
               \o Scale(c ** (z ** z), exp_iter(z, size)),
           <<p.A, p.S, p.T_1, p.T_2>> \o p.ipp.L_vec \o p.ipp.R_vec \o <<B_blinding, B>>
               \o AggregatedGens("G", bits, size) \o AggregatedGens("H", bits, size) \o Vs)
  BY <1>4, <1>8 DEF VerifierSum, SevenParts
<1> QED BY <1>1, <1>2, <1>3, <1>7, <1>9, <1>10, ZenonT(40) DEF verify_multiple, VerifierFirst, VerifierSecond

\* The messages of one party, as the dealer holds them.
IsMessage(share, bit, poly, j, bits, y, z, x) ==
    /\ bit.V_j \in Point /\ bit.A_j \in Point /\ bit.S_j \in Point
    /\ poly.T_1_j \in Point /\ poly.T_2_j \in Point
    /\ share.l_vec \in Vec(bits) /\ share.r_vec \in Vec(bits)
    /\ share.t_x \in Scalar /\ share.t_x_blinding \in Scalar
    /\ share.e_blinding \in Scalar
    /\ AuditPasses(share, j, bit, poly, y, z, x)

\* Those of an honest party pass the audit.
LEMMA HonestMessage ==
  ASSUME NEW j, NEW bits, Sized(j, bits), NEW v \in Nat, v < Order, v < 2^bits,
         NEW y \in Scalar \ {0}, NEW z \in Scalar \ {0}, NEW x \in Scalar \ {0}
  PROVE  IsMessage(SentShare(j, v, bits, y, z, x, "none"), SentBits(j, v, bits, "none"),
                   SentPolys(j, v, bits, y, z, "none"), j, bits, y, z, x)
<1>1. PICK share, bit, poly : /\ share = SentShare(j, v, bits, y, z, x, "none")
                              /\ bit = SentBits(j, v, bits, "none")
                              /\ poly = SentPolys(j, v, bits, y, z, "none")
  OBVIOUS
<1>2. "none" \in Faults
  BY DEF Faults
<1>3. AuditPasses(share, j, bit, poly, y, z, x)
  BY <1>1, <1>2, AuditDecides
<1>4. PICK p : p = Polynomials(j, v, bits, y, z)
  OBVIOUS
<1>5. PICK s : s = ProofShare(j, p, bits, x)
  OBVIOUS
<1>6. PICK la, ra, rb : IsShare(s, j, bits, v, y, z, x, ra, rb, p.t)
  BY <1>4, <1>5, ShareIs
<1>7. share = s
  BY <1>1, <1>4, <1>5 DEF SentShare, Skewed
<1>8. /\ share.l_vec \in Vec(bits) /\ share.r_vec \in Vec(bits)
      /\ share.t_x \in Scalar /\ share.t_x_blinding \in Scalar
      /\ share.e_blinding \in Scalar /\ p.t \in Vec(3)
  BY <1>6, <1>7 DEF IsShare
<1>9. PICK alpha \in Vec(bits), t1 \in Scalar : IsSent(j, v, bits, y, z, "none", p.t, alpha, t1)
  BY <1>2, <1>4, <1>8, SentIsCommitted
<1>10. Committed(bit, poly, j, v, bits, alpha, t1, p.t[3])
  BY <1>1, <1>9 DEF IsSent
<1>11. bit.A_j \in Point /\ poly.T_1_j \in Point /\ poly.T_2_j \in Point
  BY <1>10 DEF Committed, HoldsVector, IsCommitment
<1>12. PICK c : c = BitCommitment(j, v, bits)
  OBVIOUS
<1>13. c.S_j \in Point /\ v \in Scalar
  BY <1>12, BitCommitmentAt
<1>14. bit.S_j \in Point
  BY <1>10, <1>12, <1>13 DEF Committed
<1>15. bit.V_j \in Point
  <2>1. PICK b \in Scalar : b = v_blinding(j)
    BY PartyDraws
  <2>2. commit(v, b) \in Point
    BY <1>13, CommitAt
  <2> QED BY <1>10, <2>1, <2>2 DEF Committed
<1> QED BY <1>1, <1>3, <1>8, <1>11, <1>14, <1>15 DEF IsMessage

\* The sizes of a session the dealer has not refused.
LEMMA SizesInSession ==
  ASSUME session \in Sessions, DealerRefuses(n, m) = "none"
  PROVE  /\ OfSizes(n, m) /\ SizesRefused(n, m) = "none"
         /\ n \in Nat /\ m \in Nat /\ IsPowerOfTwo(n) /\ IsPowerOfTwo(m)
<1>1. n \in Nat /\ m \in Nat
  BY PartiesOfSession
<1>2. /\ n \in BitSizes /\ ~(GensCapacity < n) /\ ~(PartyCapacity < m) /\ IsPowerOfTwo(m)
      /\ SizesRefused(n, m) = "none"
  BY DEF DealerRefuses, SizesRefused
<1>3. n \in Nat \ {0} /\ IsPowerOfTwo(n)
  BY <1>2, BitSizesAssumption
<1>4. m # 0
  <2>1. PICK k \in 0..m : m = 2^k
    BY <1>2 DEF IsPowerOfTwo
  <2>2. k \in Nat /\ 1 <= 2^k
    BY <1>1, <2>1, PowerOfTwoGrows
  <2> QED BY <2>1, <2>2
<1> QED BY <1>1, <1>2, <1>3, <1>4, CapacityAssumption DEF OfSizes

\* What the dealer holds when all parties are honest and nothing was exchanged.
LEMMA HonestShares ==
  ASSUME InPlace, dealer = "awaiting_proof_shares", Orderly, Deviants = {},
         Collected(session.shares, "shares"), NEW shares, shares = Handed(session.shares)
  PROVE  /\ AreMessages(shares, received.bits, received.polys, n, m,
                        Drawn("y"), Drawn("z"), Drawn("x"))
         /\ \A j \in Positions : SizeIsRight(shares[j + 1], n, j)
<1>1. /\ Collecting /\ Challenged /\ session \in Sessions /\ DealerRefuses(n, m) = "none"
  BY DEF Collecting, Challenged, InPlace
<1>2. /\ Drawn("y") \in Scalar \ {0} /\ Drawn("z") \in Scalar \ {0} /\ Drawn("x") \in Scalar
  BY <1>1, DrawnAre DEF InPlace
<1>3. m \in Nat
  BY <1>1, PartiesOfSession
<1>4. ASSUME NEW j \in Positions
      PROVE  /\ IsMessage(shares[j + 1], received.bits[j + 1], received.polys[j + 1], j, n,
                          Drawn("y"), Drawn("z"), Drawn("x"))
             /\ SizeIsRight(shares[j + 1], n, j)
  <2>1. sent[j].of = "shares" /\ shares[j + 1] = sent[j].m
    BY HandedInOrder DEF Orderly
  <2>2. Drawn("x") # 0 /\ shares[j + 1] = Share(j)
    BY <2>1 DEF InPlace, MessagesInPlace, Message
  <2>3. received.bits[j + 1] = Bits(j) /\ received.polys[j + 1] = Polys(j)
    BY <1>1 DEF InPlace, HeldInPlace, Orderly
  <2>4. PICK y \in Scalar \ {0}, z \in Scalar \ {0}, x \in Scalar \ {0} :
            y = Drawn("y") /\ z = Drawn("z") /\ x = Drawn("x")
    BY <1>2, <2>2
  <2>5. PICK v \in Nat : v = Value(j) /\ v < Order
    BY <1>1, PartiesOfSession
  <2>6. PICK bits : bits = n /\ Sized(j, bits)
    BY <1>1, SizedInSession
  <2>7. v < 2^bits /\ Fault(j) = "none"
    BY <2>5, <2>6 DEF Deviants, InRange
  <2>8. /\ Share(j) = SentShare(j, v, bits, y, z, x, "none")
        /\ Bits(j) = SentBits(j, v, bits, "none")
        /\ Polys(j) = SentPolys(j, v, bits, y, z, "none")
    BY <2>4, <2>5, <2>6, <2>7 DEF Share, Bits, Polys
  <2>9. IsMessage(SentShare(j, v, bits, y, z, x, "none"), SentBits(j, v, bits, "none"),
                  SentPolys(j, v, bits, y, z, "none"), j, bits, y, z, x)
    BY <2>5, <2>6, <2>7, HonestMessage
  <2>10. SizeIsRight(SentShare(j, v, bits, y, z, x, "none"), bits, j)
    BY <2>6, ShareSizes DEF Faults
  <2> QED BY <2>2, <2>3, <2>4, <2>6, <2>8, <2>9, <2>10
<1>5. ASSUME NEW k \in 1..m
      PROVE  IsMessage(shares[k], received.bits[k], received.polys[k], k - 1, n,
                       Drawn("y"), Drawn("z"), Drawn("x"))
  <2>1. PICK j \in Positions : j = k - 1 /\ j + 1 = k
    BY <1>3 DEF Positions
  <2> QED BY <1>4, <2>1
<1> QED BY <1>4, <1>5 DEF AreMessages, IsMessage

\* The transcript after each round, for the challenges drawn.
BitsTold(y, z) ==
    WithBits(Opening(n, Commitments),
             SumOfPoints([k \in 1..m |-> received.bits[k].A_j]),
             SumOfPoints([k \in 1..m |-> received.bits[k].S_j]), y, z)
\* The transcript after the polynomial commitments.
PolysTold(y, z, x) ==
    WithPolys(BitsTold(y, z),
              SumOfPoints([k \in 1..m |-> received.polys[k].T_1_j]),
              SumOfPoints([k \in 1..m |-> received.polys[k].T_2_j]), x)

\* The dealer's transcript tells what it was handed.
TranscriptInPlace ==
    /\ dealer = "awaiting_bit_commitments" => transcript = rangeproof_domain_sep(<<>>, n, m)
    /\ dealer = "awaiting_poly_commitments" => \E y, z : transcript = BitsTold(y, z)
    /\ dealer = "awaiting_proof_shares" => \E y, z, x : transcript = PolysTold(y, z, x)

\* What Assembled puts together: the proof p, the argument made for the vectors v.
Assembles(a, shares, w, us, p, made, v) ==
    /\ p = a.proof
    /\ made = create(WithSums(transcript, p.t_x, p.t_x_blinding, p.e_blinding, w),
                     multiscalar_mul(<<w>>, <<B>>), v, us)
    /\ a.transcript = made.transcript /\ p.ipp = IPPProof(made)
    /\ p.A = Drawn("A") /\ p.S = Drawn("S")
    /\ p.T_1 = Drawn("T_1") /\ p.T_2 = Drawn("T_2")
    /\ p.t_x = SumOfFirst(m, [k \in 1..m |-> shares[k].t_x])
    /\ p.t_x_blinding = SumOfFirst(m, [k \in 1..m |-> shares[k].t_x_blinding])
    /\ p.e_blinding = SumOfFirst(m, [k \in 1..m |-> shares[k].e_blinding])
    /\ v.a = Joint(shares, "l_vec", n, m) /\ v.b = Joint(shares, "r_vec", n, m)
    /\ v.gf = Ones(n * m) /\ v.hf = exp_iter(Invert(Drawn("y")), n * m)
    /\ v.G = AggregatedGens("G", n, m) /\ v.H = AggregatedGens("H", n, m)

\* What the dealer assembles has the parts named above.
LEMMA AssembledIs ==
  ASSUME NEW shares, NEW w, NEW us, NEW a, a = Assembled(shares, w, us)
  PROVE  \E p, made, v : Assembles(a, shares, w, us, p, made, v)
<1> DEFINE Sum(f) == SumUpTo(m, LAMBDA k : shares[k][f])
           t == transcript \o
                    <<<<"t_x", Sum("t_x")>>, <<"t_x_blinding", Sum("t_x_blinding")>>,
                      <<"e_blinding", Sum("e_blinding")>>, <<"w", w>>>>
           v == Vectors(Ones(n * m), exp_iter(Invert(Drawn("y")), n * m),
                        AggregatedGens("G", n, m), AggregatedGens("H", n, m),
                        Joint(shares, "l_vec", n, m), Joint(shares, "r_vec", n, m))
           made == create(t, multiscalar_mul(<<w>>, <<B>>), v, us)
           p == [A |-> Drawn("A"), S |-> Drawn("S"),
                 T_1 |-> Drawn("T_1"), T_2 |-> Drawn("T_2"),
                 t_x |-> Sum("t_x"), t_x_blinding |-> Sum("t_x_blinding"),
                 e_blinding |-> Sum("e_blinding"), ipp |-> IPPProof(made)]
<1>1. a = [transcript |-> made.transcript, proof |-> p]
  BY DEF Assembled, Joint, Drawn
<1>2. /\ v.a = Joint(shares, "l_vec", n, m) /\ v.b = Joint(shares, "r_vec", n, m)
      /\ v.gf = Ones(n * m) /\ v.hf = exp_iter(Invert(Drawn("y")), n * m)
      /\ v.G = AggregatedGens("G", n, m) /\ v.H = AggregatedGens("H", n, m)
  BY DEF Vectors
<1> HIDE DEF v
<1>3. t = WithSums(transcript, p.t_x, p.t_x_blinding, p.e_blinding, w)
  BY DEF WithSums
<1>4. /\ p.t_x = Sum("t_x") /\ p.t_x_blinding = Sum("t_x_blinding")
      /\ p.e_blinding = Sum("e_blinding") /\ p.ipp = IPPProof(made)
      /\ p.A = Drawn("A") /\ p.S = Drawn("S") /\ p.T_1 = Drawn("T_1") /\ p.T_2 = Drawn("T_2")
  OBVIOUS
<1>7. /\ Sum("t_x") = SumOfFirst(m, [k \in 1..m |-> shares[k].t_x])
      /\ Sum("t_x_blinding") = SumOfFirst(m, [k \in 1..m |-> shares[k].t_x_blinding])
      /\ Sum("e_blinding") = SumOfFirst(m, [k \in 1..m |-> shares[k].e_blinding])
  BY DEF SumUpTo
<1>5. made = create(WithSums(transcript, p.t_x, p.t_x_blinding, p.e_blinding, w),
                    multiscalar_mul(<<w>>, <<B>>), v, us)
  BY <1>3
<1>6. a.transcript = made.transcript /\ a.proof = p
  BY <1>1
<1> HIDE DEF made, p, t, Sum
<1>8. Assembles(a, shares, w, us, p, made, v)
  BY <1>2, <1>4, <1>5, <1>6, <1>7 DEF Assembles
<1> QED BY <1>8

\* What the dealer assembles from the shares of honest parties verifies, unless
\* it is refused for what it is.
LEMMA HonestProofVerifies ==
  ASSUME InPlace, TranscriptInPlace, dealer = "awaiting_proof_shares", Orderly, Deviants = {},
         Collected(session.shares, "shares"), NEW shares, shares = Handed(session.shares),
         NEW w \in Yields("w"), NEW us \in [1..Rounds(n * m) -> Yields("u")],
         NEW a, a = Assembled(shares, w, us),
         ~(Rounds(n * m) >= 32), ~HasIdentity(a.transcript)
  PROVE  verify_multiple(a.proof, Commitments, n, a.transcript, Unrelated, Weight)
<1>1. /\ Collecting /\ Challenged /\ session \in Sessions /\ DealerRefuses(n, m) = "none"
  BY DEF Collecting, Challenged, InPlace
<1>2. /\ OfSizes(n, m) /\ SizesRefused(n, m) = "none"
      /\ n \in Nat /\ m \in Nat /\ IsPowerOfTwo(n) /\ IsPowerOfTwo(m)
  BY <1>1, SizesInSession
<1>3. PICK k \in Nat : n * m = 2^k /\ Rounds(n * m) = k
  BY <1>2, ProductOfPowers
<1>4. PICK y, z, x : transcript = PolysTold(y, z, x)
  BY DEF TranscriptInPlace
<1>5. PICK bc, pc, Vs : bc = received.bits /\ pc = received.polys /\ Vs = Commitments
  OBVIOUS
<1>6. ForCommitments(Vs, bc, m)
  BY <1>5 DEF ForCommitments, Commitments
<1>7. PICK PA, PS : /\ PA = SumOfPoints([i \in 1..m |-> bc[i].A_j])
                    /\ PS = SumOfPoints([i \in 1..m |-> bc[i].S_j])
  OBVIOUS
<1>8. PICK P1, P2 : /\ P1 = SumOfPoints([i \in 1..m |-> pc[i].T_1_j])
                    /\ P2 = SumOfPoints([i \in 1..m |-> pc[i].T_2_j])
  OBVIOUS
<1>9. transcript = WithPolys(WithBits(Opening(n, Vs), PA, PS, y, z), P1, P2, x)
  BY <1>4, <1>5, <1>7, <1>8 DEF PolysTold, BitsTold
<1>10. PICK t0 : t0 = transcript
  OBVIOUS
<1>11. IsSequence(Vs)
  <2>1. PICK S : S = {bc[i].V_j : i \in 1..m}
    OBVIOUS
  <2>2. Vs \in [1..m -> S]
    BY <1>6, <2>1 DEF ForCommitments
  <2>3. Vs \in Seq(S)
    BY <1>2, <2>2
  <2> QED BY <2>3 DEF IsSequence
<1>12. /\ IsSequence(t0)
       /\ FirstDraw(t0, "A", PA) /\ FirstDraw(t0, "S", PS)
       /\ FirstDraw(t0, "y", y) /\ FirstDraw(t0, "z", z)
       /\ FirstDraw(t0, "T_1", P1) /\ FirstDraw(t0, "T_2", P2) /\ FirstDraw(t0, "x", x)
  BY <1>9, <1>10, <1>11, TranscriptTells
<1>13. \A label : Drawn(label) = ChallengesOf(t0, label)[1]
  BY <1>10 DEF Drawn
<1>14. \A label, c : FirstDraw(t0, label, c) => ChallengesOf(t0, label)[1] = c
  BY <1>12, FirstDrawn
<1>15. /\ Drawn("A") = PA /\ Drawn("S") = PS /\ Drawn("T_1") = P1 /\ Drawn("T_2") = P2
       /\ Drawn("y") = y /\ Drawn("z") = z /\ Drawn("x") = x
  BY <1>12, <1>13, <1>14
<1>16. y \in Scalar \ {0} /\ z \in Scalar \ {0} /\ x \in Scalar
  BY <1>1, <1>15, DrawnAre DEF InPlace
<1>17. AreMessages(shares, bc, pc, n, m, y, z, x)
  BY <1>5, <1>15, HonestShares
<1>18. w \in Scalar
  BY YieldsAssumption
<1>19. Usable(us, k)
  <2>1. Yields("u") \subseteq Scalar \ {0}
    BY YieldsAssumption
  <2> QED BY <1>3, <2>1 DEF Usable, Vec
<1>30. PICK p, made, v : Assembles(a, shares, w, us, p, made, v)
  BY AssembledIs
<1>20. /\ p = a.proof
       /\ made = create(WithSums(transcript, p.t_x, p.t_x_blinding, p.e_blinding, w),
                        multiscalar_mul(<<w>>, <<B>>), v, us)
       /\ a.transcript = made.transcript /\ p.ipp = IPPProof(made)
       /\ p.A = Drawn("A") /\ p.S = Drawn("S")
       /\ p.T_1 = Drawn("T_1") /\ p.T_2 = Drawn("T_2")
       /\ p.t_x = SumOfFirst(m, [i \in 1..m |-> shares[i].t_x])
       /\ p.t_x_blinding = SumOfFirst(m, [i \in 1..m |-> shares[i].t_x_blinding])
       /\ p.e_blinding = SumOfFirst(m, [i \in 1..m |-> shares[i].e_blinding])
       /\ v.a = Joint(shares, "l_vec", n, m) /\ v.b = Joint(shares, "r_vec", n, m)
       /\ v.gf = Ones(n * m) /\ v.hf = exp_iter(Invert(Drawn("y")), n * m)
       /\ v.G = AggregatedGens("G", n, m) /\ v.H = AggregatedGens("H", n, m)
  BY <1>30, Zenon DEF Assembles
<1>21. /\ p.t_x = SumOf([i \in 1..m |-> shares[i].t_x])
       /\ p.t_x_blinding = SumOf([i \in 1..m |-> shares[i].t_x_blinding])
       /\ p.e_blinding = SumOf([i \in 1..m |-> shares[i].e_blinding])
  <2>1. \A f : f = [i \in 1..m |-> f[i]] => SumOf(f) = SumOfFirst(m, f)
    BY <1>2 DEF SumOf
  <2> QED BY <1>20, <2>1
<1>22. PutTogether(p, made, shares, bc, pc, m)
  <2>1. /\ p.A = PA /\ p.S = PS /\ p.T_1 = P1 /\ p.T_2 = P2
    BY <1>15, <1>20
  <2>2. p.ipp = IPPProof(made)
    BY <1>20
  <2>3. /\ p.ipp.a = made.v.a[1] /\ p.ipp.b = made.v.b[1]
        /\ p.ipp.L_vec = made.L_vec /\ p.ipp.R_vec = made.R_vec
    BY <2>2 DEF IPPProof
  <2> QED BY <1>7, <1>8, <1>21, <2>1, <2>3 DEF PutTogether
<1>23. Argued(v, shares, n, m, y)
  BY <1>15, <1>20 DEF Argued
<1>24. PICK t : t = WithSums(WithPolys(WithBits(Opening(n, Vs), p.A, p.S, y, z), p.T_1, p.T_2, x),
                             p.t_x, p.t_x_blinding, p.e_blinding, w)
  OBVIOUS
<1>25. made = create(t, multiscalar_mul(<<w>>, <<B>>), v, us)
  BY <1>9, <1>15, <1>20, <1>24
<1>26. Assembly(n, m, y, z, x, w, k, us, shares, bc, pc, Vs, t, v, made, p)
  <2>1. p.ipp = IPPProof(made)
    BY <1>20
  <2> QED BY <1>2, <1>3, <1>6, <1>16, <1>17, <1>18, <1>19, <1>22, <1>23, <1>24, <1>25, <2>1
          DEF Assembly
<1>27. Weight \in Scalar
  <2>1. m \in 0..PartyCapacity /\ 0 \in 0 .. 2 * GensCapacity + 4
    BY <1>2, CapacityAssumption DEF OfSizes
  <2> QED BY <2>1, DrawAssumption DEF Weight
<1>28. k < 32 /\ ~HasIdentity(made.transcript)
  BY <1>3, <1>20
<1>29. verify_multiple(p, Vs, n, made.transcript, Unrelated, Weight)
  BY <1>26, <1>27, <1>28, AssemblyVerifies
<1> QED BY <1>5, <1>20, <1>29

\* A session that ought to end with a proof that verifies.
Honest ==
    Orderly /\ Deviants = {} /\ DealerRefuses(n, m) = "none" /\ ~Refusable

\* It ends with such a proof, or for a challenge that is zero.
Settled ==
    \/ /\ result.kind = "proof"
       /\ verify_multiple(result.proof, Commitments, n, transcript, Unrelated, Weight)
    \/ result = Err("MaliciousDealer")

\* What the audit's invariants do not say of such a session.
HonestInPlace ==
    /\ TranscriptInPlace
    /\ dealer # "done" => verdict = "none"
    /\ dealer = "done" /\ Honest => Settled
    /\ HonestSessionsVerify

\* Nothing has been said at first.
LEMMA InitHonest == Init => HonestInPlace
BY DEF Init, HonestInPlace, TranscriptInPlace, HonestSessionsVerify

\* The proof passes the verifier on its way through its bytes, too.
LEMMA WholeProofPasses ==
  ASSUME WholeProof(result.proof), Verify("no"),
         verify_multiple(result.proof, Commitments, n, transcript, Unrelated, Weight)
  PROVE  verdict' = "ok"
<1>1. PICK p : p = result.proof
  OBVIOUS
<1>2. ~(Len(p.ipp.L_vec) >= 32)
  BY <1>1 DEF verify_multiple, ScalarsRefused
<1>3. AlteredBytes(range_to_bytes(p), "no") = range_to_bytes(p)
  BY DEF AlteredBytes
<1>4. Alter(Commitments, "no") = Commitments
  BY DEF Alter
<1>5. ~RangeFormatError(range_to_bytes(p)) /\ range_from_bytes(range_to_bytes(p)) = p
  BY <1>1, <1>2, ThroughRangeBytes
<1> QED BY <1>1, <1>3, <1>4, <1>5 DEF Verify

\* While the dealer collects, only its transcript matters.
LEMMA CollectingHonest ==
  ASSUME HonestInPlace, dealer # "done", dealer' # "done", UNCHANGED verdict,
         TranscriptInPlace'
  PROVE  HonestInPlace'
BY DEF HonestInPlace, HonestSessionsVerify

\* When it is done, what came of it.
LEMMA DoneHonest ==
  ASSUME HonestInPlace, dealer # "done", dealer' = "done", UNCHANGED verdict,
         Honest' => Settled'
  PROVE  HonestInPlace'
<1>1. TranscriptInPlace'
  BY DEF TranscriptInPlace
<1>2. verdict' = "none"
  BY DEF HonestInPlace
<1>3. Settled' => result'.kind = "proof" \/ result' = Err("MaliciousDealer")
  BY DEF Settled, Err
<1>4. HonestSessionsVerify'
  BY <1>2, <1>3 DEF HonestSessionsVerify, Honest
<1> QED BY <1>1, <1>2, <1>4 DEF HonestInPlace

\* A party's call leaves the transcript as it is.
LEMMA PartyHonest ==
  ASSUME HonestInPlace, dealer # "done",
         UNCHANGED <<session, dealer, received, transcript, verdict>>
  PROVE  HonestInPlace'
<1>1. TranscriptInPlace'
  BY DEF HonestInPlace, TranscriptInPlace, BitsTold, PolysTold, Commitments, n, m
<1> QED BY <1>1, CollectingHonest

\* What decides whether a session is honest stays as it is.
LEMMA HonestStays ==
  ASSUME UNCHANGED session
  PROVE  /\ n' = n /\ m' = m /\ Orderly' = Orderly /\ Deviants' = Deviants
         /\ Weight' = Weight
BY DEF n, m, Orderly, InOrder, Deviants, InRange, Fault, Value, Positions, Weight

\* Messages in order are all there.
LEMMA OrderlyIsWhole ==
  ASSUME session \in Sessions, Orderly
  PROVE  Len(session.bits) = m /\ Len(session.polys) = m /\ Len(session.shares) = m
<1>1. m \in Nat
  BY PartiesOfSession
<1>2. \A order : InOrder(order) => Len(order) = m
  BY <1>1 DEF InOrder
<1> QED BY <1>2 DEF Orderly

\* A dealer that starts writes the domain separator, which is what it keeps.
LEMMA DealerNewHonest ==
  ASSUME HonestInPlace, DealerNew
  PROVE  HonestInPlace'
<1>1. dealer = "new" /\ UNCHANGED <<session, verdict>>
  BY DEF DealerNew
<1>2. CASE DealerRefuses(n, m) # "none"
  <2>1. dealer' = "done"
    BY <1>2 DEF DealerNew, Fail
  <2>2. ~Honest'
    BY <1>1, <1>2, HonestStays DEF Honest
  <2> QED BY <1>1, <2>1, <2>2, DoneHonest
<1>3. CASE DealerRefuses(n, m) = "none"
  <2>1. /\ dealer' = "awaiting_bit_commitments"
        /\ transcript' = rangeproof_domain_sep(<<>>, n, m)
    BY <1>3 DEF DealerNew
  <2>2. TranscriptInPlace'
    BY <1>1, <2>1, HonestStays DEF TranscriptInPlace
  <2> QED BY <1>1, <2>1, <2>2, CollectingHonest
<1> QED BY <1>2, <1>3

\* The party refuses the challenge, or sends its share.
LEMMA PolyChallengeHonest ==
  ASSUME HonestInPlace, NEW j \in Positions, ApplyPolyChallenge(j)
  PROVE  HonestInPlace'
<1>1. dealer = "awaiting_proof_shares" /\ UNCHANGED <<session, received, transcript, verdict>>
  BY DEF ApplyPolyChallenge
<1>2. CASE Drawn("x") = 0
  <2>1. dealer' = "done" /\ result' = Err("MaliciousDealer")
    BY <1>2 DEF ApplyPolyChallenge, Fail
  <2>2. Settled'
    BY <2>1 DEF Settled, Err
  <2> QED BY <1>1, <2>1, <2>2, DoneHonest
<1>3. CASE Drawn("x") # 0
  BY <1>1, <1>3, PartyHonest DEF ApplyPolyChallenge
<1> QED BY <1>2, <1>3

\* Once the bit commitments are in, the transcript is what they make it.
LEMMA BitsHonest ==
  ASSUME HonestInPlace, InPlace, NEW y, NEW z, ReceiveBitCommitments(y, z)
  PROVE  HonestInPlace'
<1>1. dealer = "awaiting_bit_commitments" /\ UNCHANGED <<session, verdict>>
  BY DEF ReceiveBitCommitments
<1>2. CASE Len(session.bits) # m
  <2>1. dealer' = "done"
    BY <1>2 DEF ReceiveBitCommitments, Fail
  <2>2. ~Honest'
    BY <1>1, <1>2, HonestStays, OrderlyIsWhole DEF Honest, InPlace
  <2> QED BY <1>1, <2>1, <2>2, DoneHonest
<1>3. CASE Len(session.bits) = m
  <2>1. PICK vc, v, a, b :
            /\ vc = Handed(session.bits) /\ v = [k \in 1..m |-> <<"V", vc[k].V_j>>]
            /\ a = SumOfPoints([k \in 1..m |-> vc[k].A_j])
            /\ b = SumOfPoints([k \in 1..m |-> vc[k].S_j])
            /\ received' = [received EXCEPT !.bits = vc]
            /\ transcript' = transcript \o v
                                 \o <<<<"A", a>>, <<"S", b>>, <<"y", y>>, <<"z", z>>>>
            /\ dealer' = "awaiting_poly_commitments"
    BY <1>3, ZenonT(40) DEF ReceiveBitCommitments
  <2>2. received'.bits = vc
    BY <2>1 DEF InPlace, HeldInPlace
  <2>3. m \in Nat /\ m' = m /\ n' = n
    BY <1>1, PartiesOfSession, HonestStays DEF InPlace
  <2>4. PICK Vs : Vs = [k \in 1..m |-> vc[k].V_j]
    OBVIOUS
  <2>5. Commitments' = Vs
    BY <2>2, <2>3, <2>4 DEF Commitments
  <2>6. transcript \o v = Opening(n, Vs)
    <3>1. PICK l \in Nat : l = m
      BY <2>3
    <3>2. Vs = [k \in 1..l |-> vc[k].V_j]
      BY <2>4, <3>1
    <3>3. DOMAIN Vs = 1..l /\ \A k \in 1..l : Vs[k] = vc[k].V_j
      BY <3>2
    <3>4. Len(Vs) = l
      BY <3>1, <3>2
    <3>5. v = [k \in DOMAIN Vs |-> <<"V", Vs[k]>>]
      BY <2>1, <3>1, <3>3
    <3>6. transcript = rangeproof_domain_sep(<<>>, n, l)
      BY <1>1, <3>1 DEF HonestInPlace, TranscriptInPlace
    <3> QED BY <3>4, <3>5, <3>6 DEF Opening
  <2>7. transcript' = BitsTold(y, z)'
    <3>1. /\ SumOfPoints([k \in 1..m |-> received.bits[k].A_j])' = a
          /\ SumOfPoints([k \in 1..m |-> received.bits[k].S_j])' = b
      BY <2>1, <2>2, <2>3
    <3>2. transcript' = WithBits(Opening(n, Vs), a, b, y, z)
      BY <2>1, <2>6 DEF WithBits
    <3> QED BY <2>3, <2>5, <3>1, <3>2 DEF BitsTold
  <2>8. TranscriptInPlace'
    BY <2>1, <2>7 DEF TranscriptInPlace
  <2> QED BY <1>1, <2>1, <2>8, CollectingHonest
<1> QED BY <1>2, <1>3

\* Once the polynomial commitments are in, so is the rest of it.
LEMMA PolysHonest ==
  ASSUME HonestInPlace, InPlace, NEW x, ReceivePolyCommitments(x)
  PROVE  HonestInPlace'
<1>1. dealer = "awaiting_poly_commitments" /\ UNCHANGED <<session, verdict>>
  BY DEF ReceivePolyCommitments
<1>2. CASE Len(session.polys) # m
  <2>1. dealer' = "done"
    BY <1>2 DEF ReceivePolyCommitments, Fail
  <2>2. ~Honest'
    BY <1>1, <1>2, HonestStays, OrderlyIsWhole DEF Honest, InPlace
  <2> QED BY <1>1, <2>1, <2>2, DoneHonest
<1>3. CASE Len(session.polys) = m
  <2>1. PICK pc, a, b :
            /\ pc = Handed(session.polys)
            /\ a = SumOfPoints([k \in 1..m |-> pc[k].T_1_j])
            /\ b = SumOfPoints([k \in 1..m |-> pc[k].T_2_j])
            /\ received' = [received EXCEPT !.polys = pc]
            /\ transcript' = transcript \o <<<<"T_1", a>>, <<"T_2", b>>, <<"x", x>>>>
            /\ dealer' = "awaiting_proof_shares"
    BY <1>3 DEF ReceivePolyCommitments
  <2>2. received'.polys = pc /\ received'.bits = received.bits
    BY <2>1 DEF InPlace, HeldInPlace
  <2>3. m' = m /\ n' = n
    BY <1>1, HonestStays
  <2>4. PICK y, z : transcript = BitsTold(y, z)
    BY <1>1 DEF HonestInPlace, TranscriptInPlace
  <2>5. BitsTold(y, z)' = BitsTold(y, z)
    BY <2>2, <2>3 DEF BitsTold, Commitments
  <2>6. /\ SumOfPoints([k \in 1..m |-> received.polys[k].T_1_j])' = a
        /\ SumOfPoints([k \in 1..m |-> received.polys[k].T_2_j])' = b
    BY <2>1, <2>2, <2>3
  <2>7. transcript' = PolysTold(y, z, x)'
    BY <2>1, <2>4, <2>5, <2>6 DEF PolysTold, WithPolys
  <2>8. TranscriptInPlace'
    BY <2>1, <2>7 DEF TranscriptInPlace
  <2> QED BY <1>1, <2>1, <2>8, CollectingHonest
<1> QED BY <1>2, <1>3

\* The proof assembled from honest shares verifies.
LEMMA SharesHonest ==
  ASSUME HonestInPlace, InPlace, NEW w \in Yields("w"),
         NEW us \in [1..Rounds(n * m) -> Yields("u")], ReceiveShares(w, us)
  PROVE  HonestInPlace'
<1>1. /\ dealer = "awaiting_proof_shares" /\ dealer' = "done"
      /\ UNCHANGED <<session, verdict>> /\ Collected(session.shares, "shares")
  BY DEF ReceiveShares
<1> SUFFICES ASSUME Honest' PROVE Settled'
  BY <1>1, DoneHonest
<1>2. n' = n /\ m' = m /\ Orderly /\ Deviants = {} /\ Weight' = Weight
  BY <1>1, HonestStays DEF Honest
<1>3. Len(session.shares) = m
  BY <1>2, OrderlyIsWhole DEF InPlace
<1>4. PICK shares : shares = Handed(session.shares)
  OBVIOUS
<1>5. \A j \in Positions : SizeIsRight(shares[j + 1], n, j)
  BY <1>1, <1>2, <1>4, HonestShares
<1>6. PICK a : a = Assembled(shares, w, us)
  OBVIOUS
<1>7. PICK failing : failing = {j \in Positions :
                          ~AuditPasses(shares[j + 1], j, received.bits[j + 1],
                                       received.polys[j + 1],
                                       Drawn("y"), Drawn("z"), Drawn("x"))}
  OBVIOUS
<1>8. {j \in Positions : ~SizeIsRight(shares[j + 1], n, j)} = {}
  BY <1>5
<1>9. /\ received' = [received EXCEPT !.shares = shares]
      /\ transcript' = a.transcript
      /\ result' = IF Accepts(a) THEN [kind |-> "proof", proof |-> a.proof]
                   ELSE Malformed(failing)
  BY <1>3, <1>4, <1>6, <1>7, <1>8 DEF ReceiveShares
<1>10. ~(Rounds(n * m) >= 32) /\ ~HasIdentity(a.transcript)
  BY <1>2, <1>9 DEF Honest, Refusable
<1>11. verify_multiple(a.proof, Commitments, n, a.transcript, Unrelated, Weight)
  BY <1>1, <1>2, <1>4, <1>6, <1>10, HonestProofVerifies DEF HonestInPlace
<1>12. Accepts(a)
  BY <1>11 DEF Accepts
<1>13. result'.kind = "proof" /\ result'.proof = a.proof
  BY <1>9, <1>12
<1>14. Commitments' = Commitments
  BY <1>2, <1>9 DEF Commitments, InPlace, HeldInPlace
<1> QED BY <1>2, <1>9, <1>11, <1>13, <1>14 DEF Settled

\* The verifier accepts it.
LEMMA VerifyHonest ==
  ASSUME HonestInPlace, Audited, NEW how \in Alterations, Verify(how)
  PROVE  HonestInPlace'
<1>1. /\ dealer = "done" /\ result.kind = "proof" /\ altered' = how
      /\ UNCHANGED <<session, dealer, received, transcript, result>>
  BY DEF Verify
<1>2. n' = n /\ m' = m /\ Orderly' = Orderly /\ Deviants' = Deviants /\ Weight' = Weight
  BY <1>1, HonestStays
<1>3. Commitments' = Commitments
  BY <1>1, <1>2 DEF Commitments
<1>4. Honest' = Honest /\ Settled' = Settled
  BY <1>1, <1>2, <1>3 DEF Honest, Settled, Refusable
<1>5. TranscriptInPlace'
  BY <1>1 DEF TranscriptInPlace
<1>6. ASSUME Honest', how = "no" PROVE verdict' = "ok"
  <2>1. verify_multiple(result.proof, Commitments, n, transcript, Unrelated, Weight)
    BY <1>1, <1>4, <1>6 DEF HonestInPlace, Settled, Err
  <2>2. WholeProof(result.proof)
    BY <1>1 DEF Audited, MayBeHandedOut
  <2> QED BY <1>6, <2>1, <2>2, WholeProofPasses
<1>7. HonestSessionsVerify'
  BY <1>1, <1>6 DEF HonestSessionsVerify, Honest
<1> QED BY <1>1, <1>4, <1>5, <1>7 DEF HonestInPlace

\* Every step of the session keeps the invariant.
LEMMA NextHonest == HonestInPlace /\ InPlace /\ Audited /\ [Next]_vars => HonestInPlace'
<1> SUFFICES ASSUME HonestInPlace, InPlace, Audited, [Next]_vars PROVE HonestInPlace'
  OBVIOUS
<1>1. CASE DealerNew
  BY <1>1, DealerNewHonest
<1>2. ASSUME NEW j \in Positions, AssignPosition(j) PROVE HonestInPlace'
  BY <1>2, PartyHonest DEF AssignPosition
<1>3. ASSUME NEW j \in Positions, ApplyBitChallenge(j) PROVE HonestInPlace'
  BY <1>3, PartyHonest DEF ApplyBitChallenge
<1>4. ASSUME NEW j \in Positions, ApplyPolyChallenge(j) PROVE HonestInPlace'
  BY <1>4, PolyChallengeHonest
<1>5. ASSUME NEW y \in Yields("y"), NEW z \in Yields("z"), ReceiveBitCommitments(y, z)
      PROVE  HonestInPlace'
  BY <1>5, BitsHonest
<1>6. ASSUME NEW x \in Yields("x"), ReceivePolyCommitments(x) PROVE HonestInPlace'
  BY <1>6, PolysHonest
<1>7. ASSUME NEW w \in Yields("w"), NEW us \in [1..Rounds(n * m) -> Yields("u")],
             ReceiveShares(w, us)
      PROVE  HonestInPlace'
  BY <1>7, SharesHonest
<1>8. ASSUME NEW how \in Alterations, Verify(how) PROVE HonestInPlace'
  BY <1>8, VerifyHonest
<1>9. CASE Ended \/ UNCHANGED vars
  <2>1. UNCHANGED vars
    BY <1>9 DEF Ended
  <2>2. /\ UNCHANGED <<session, dealer, received, transcript, result, altered, verdict>>
    BY <2>1 DEF vars
  <2>3. n' = n /\ m' = m /\ Orderly' = Orderly /\ Deviants' = Deviants /\ Weight' = Weight
    BY <2>2, HonestStays
  <2>4. TranscriptInPlace'
    BY <2>2, <2>3 DEF HonestInPlace, TranscriptInPlace, BitsTold, PolysTold, Commitments
  <2>5. Honest' = Honest /\ Settled' = Settled
    BY <2>2, <2>3 DEF Honest, Settled, Refusable, Commitments
  <2>6. HonestSessionsVerify'
    BY <2>2, <2>3 DEF HonestInPlace, HonestSessionsVerify, Refusable
  <2> QED BY <2>2, <2>4, <2>5, <2>6 DEF HonestInPlace
<1> QED BY <1>1, <1>2, <1>3, <1>4, <1>5, <1>6, <1>7, <1>8, <1>9 DEF Next

\* A session of honest parties, for every number of parties, every value in
\* range, every blinding and every challenge: the proof the dealer assembles,
\* whether it audits it or trusts the parties, satisfies the one combination
\* verify_multiple forms, and the proof's bytes are accepted.
THEOREM HonestSessionsVerifyAlways == Spec => []HonestSessionsVerify
<1>1. Spec => []Audited
  BY InitAudited, NextAudited, PTL DEF Spec
<1>2. Spec => []InPlace
  BY InitInPlace, NextInPlace, PTL DEF Spec
<1>3. Spec => []HonestInPlace
  BY <1>1, <1>2, InitHonest, NextHonest, PTL DEF Spec
<1>4. HonestInPlace => HonestSessionsVerify
  BY DEF HonestInPlace
<1> QED BY <1>3, <1>4, PTL
================================================================================
