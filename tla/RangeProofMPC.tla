------------------------------ MODULE RangeProofMPC ------------------------------
(***************************************************************************)
(* One session of the aggregated range proof: a dealer and m parties, each *)
(* with its own state (the types of dealer.rs and party.rs), and a         *)
(* verifier.  The caller carries the messages: it may hand them over in    *)
(* another order than the positions it assigned, and may have lost one.  A *)
(* party may commit to a value the n bits do not hold, or deviate from     *)
(* what the protocol computes.  RangeProof::prove_multiple is the session  *)
(* that carries every message in order and trusts the shares.              *)
(***************************************************************************)
EXTENDS RangeProof, FiniteSets

CONSTANTS
    Sessions,       \* the sessions there may be
    Yields(_),      \* the challenges a transcript may yield for a label
    Unrelated       \* a challenge of a transcript the dealer has not seen

Faults == {"none", "A_j", "T_1_j", "t_x", "t_x_blinding", "e_blinding",
           "l_vec", "r_vec", "short"}

\* bits, polys and shares list the positions whose messages the dealer is
\* handed, in that order.
Session ==
    [n : Nat, values : Seq(Nat), faults : Seq(Faults),
     bits : Seq(Nat), polys : Seq(Nat), shares : Seq(Nat),
     route : {"receive_shares", "receive_trusted_shares"}]

ASSUME SessionsAssumption ==
    \A s \in Sessions :
        /\ s \in Session
        /\ Len(s.faults) = Len(s.values)
        /\ \A o \in {s.bits, s.polys, s.shares} :
               /\ \A k \in DOMAIN o : o[k] < Len(s.values)
               /\ \A k, l \in DOMAIN o : o[k] = o[l] => k = l
\* Values are u64; the group's order has 253 bits.
ASSUME ValuesAssumption ==
    \A s \in Sessions : \A k \in DOMAIN s.values : s.values[k] < Order
\* A party deviates once: for one x, a deviation in T_1_j cancels what a value
\* out of range adds, and the audit sees neither.
ASSUME OneDeviationAssumption ==
    \A s \in Sessions : \A k \in DOMAIN s.values :
        s.faults[k] = "T_1_j" => s.values[k] < 2^s.n
ASSUME YieldsAssumption ==
    /\ \A label \in {"y", "z", "w", "u"} : Yields(label) \subseteq Scalar \ {0}
    /\ Yields("x") \subseteq Scalar

VARIABLES
    session,    \* the session
    dealer,     \* the state the dealer is in
    party,      \* the state each party is in
    sent,       \* the last message of each party
    received,   \* the vectors of messages the dealer holds
    transcript, \* the dealer's transcript
    result,     \* what the dealer's or a party's call returned in the end
    altered,    \* how the verifier's commitments differ from the dealer's
    verdict     \* what verify_multiple returned

vars == <<session, dealer, party, sent, received, transcript, result,
          altered, verdict>>

m == Len(session.values)
n == session.n
Positions == 0 .. m - 1
Value(j) == session.values[j + 1]
Fault(j) == session.faults[j + 1]

NoResult == [kind |-> "none"]
Err(e) == [kind |-> "error", error |-> e, bad_shares |-> {}]
Malformed(bad) ==
    [kind |-> "error", error |-> "MalformedProofShares", bad_shares |-> bad]

Drawn(label) == ChallengesOf(transcript, label)[1]

Init ==
    /\ session \in Sessions
    /\ dealer = "new"
    /\ party = [j \in Positions |-> "awaiting_position"]
    /\ sent = [j \in Positions |-> [of |-> "nothing"]]
    /\ received = [bits |-> <<>>, polys |-> <<>>, shares |-> <<>>]
    /\ transcript = <<>>
    /\ result = NoResult
    /\ altered = "no" /\ verdict = "none"

Fail(e) == dealer' = "done" /\ result' = e

-----------------------------------------------------------------------------
(* The dealer is made, then each party given its position.                 *)

DealerNew ==
    /\ dealer = "new"
    /\ LET e == DealerRefuses(n, m) IN
       IF e # "none" THEN Fail(Err(e)) /\ UNCHANGED transcript
       ELSE /\ dealer' = "awaiting_bit_commitments"
            /\ transcript' = rangeproof_domain_sep(<<>>, n, m)
            /\ UNCHANGED result
    /\ UNCHANGED <<session, party, sent, received, altered, verdict>>

\* A party that deviates in A_j commits to the double of its first bit.
AssignPosition(j) ==
    /\ dealer = "awaiting_bit_commitments" /\ party[j] = "awaiting_position"
    /\ LET c == BitCommitment(j, Value(j), n)
           skewed == [c EXCEPT !.A_j = @ (+) Base(<<"G", j, 1>>)]
       IN  sent' = [sent EXCEPT ![j] =
                       [of |-> "bits", m |-> IF Fault(j) = "A_j" THEN skewed ELSE c]]
    /\ party' = [party EXCEPT ![j] = "awaiting_bit_challenge"]
    /\ UNCHANGED <<session, dealer, received, transcript, result, altered, verdict>>

\* The caller hands over the messages it collected, all of this round.
Collected(order, round) == \A k \in DOMAIN order : sent[order[k]].of = round
Handed(order) == [k \in DOMAIN order |-> sent[order[k]].m]

ReceiveBitCommitments(y, z) ==
    /\ dealer = "awaiting_bit_commitments" /\ Collected(session.bits, "bits")
    /\ IF Len(session.bits) # m
       THEN Fail(Err("WrongNumBitCommitments")) /\ UNCHANGED <<received, transcript>>
       ELSE LET vc == Handed(session.bits)
                A == SumOfPoints([k \in 1..m |-> vc[k].A_j])
                S == SumOfPoints([k \in 1..m |-> vc[k].S_j])
            IN  /\ received' = [received EXCEPT !.bits = vc]
                /\ transcript' =
                       transcript \o [k \in 1..m |-> <<"V", vc[k].V_j>>]
                         \o <<<<"A", A>>, <<"S", S>>, <<"y", y>>, <<"z", z>>>>
                /\ dealer' = "awaiting_poly_commitments"
                /\ UNCHANGED result
    /\ UNCHANGED <<session, party, sent, altered, verdict>>

-----------------------------------------------------------------------------
(* The bit challenge and the poly commitments.                             *)

ApplyBitChallenge(j) ==
    /\ dealer = "awaiting_poly_commitments" /\ party[j] = "awaiting_bit_challenge"
    /\ LET p == Polynomials(j, Value(j), n, Drawn("y"), Drawn("z"))
           c == PolyCommitment(j, p, n)
           skewed == [c EXCEPT !.T_1_j = @ (+) B]
       IN  sent' = [sent EXCEPT ![j] =
                       [of |-> "polys", m |-> IF Fault(j) = "T_1_j" THEN skewed ELSE c]]
    /\ party' = [party EXCEPT ![j] = "awaiting_poly_challenge"]
    /\ UNCHANGED <<session, dealer, received, transcript, result, altered, verdict>>

ReceivePolyCommitments(x) ==
    /\ dealer = "awaiting_poly_commitments" /\ Collected(session.polys, "polys")
    /\ IF Len(session.polys) # m
       THEN Fail(Err("WrongNumPolyCommitments")) /\ UNCHANGED <<received, transcript>>
       ELSE LET pc == Handed(session.polys) IN
            /\ received' = [received EXCEPT !.polys = pc]
            /\ transcript' = transcript \o
                   <<<<"T_1", SumOfPoints([k \in 1..m |-> pc[k].T_1_j])>>,
                     <<"T_2", SumOfPoints([k \in 1..m |-> pc[k].T_2_j])>>,
                     <<"x", x>>>>
            /\ dealer' = "awaiting_proof_shares"
            /\ UNCHANGED result
    /\ UNCHANGED <<session, party, sent, altered, verdict>>

-----------------------------------------------------------------------------
(* The poly challenge and the shares.                                      *)

Skewed(share, fault) ==
    CASE fault \in {"t_x", "t_x_blinding", "e_blinding"} ->
             [share EXCEPT ![fault] = @ ++ 1]
      [] fault \in {"l_vec", "r_vec"} -> [share EXCEPT ![fault][1] = @ ++ 1]
      [] fault = "short" -> [share EXCEPT !.l_vec = Tail(@)]
      [] OTHER -> share

\* A zero challenge would annihilate the blindings: the party refuses it, and
\* its caller gives the session up.
ApplyPolyChallenge(j) ==
    /\ dealer = "awaiting_proof_shares" /\ party[j] = "awaiting_poly_challenge"
    /\ IF Drawn("x") = 0
       THEN Fail(Err("MaliciousDealer")) /\ UNCHANGED <<party, sent>>
       ELSE LET p == Polynomials(j, Value(j), n, Drawn("y"), Drawn("z")) IN
            /\ sent' = [sent EXCEPT ![j] =
                   [of |-> "shares",
                    m |-> Skewed(ProofShare(j, p, n, Drawn("x")), Fault(j))]]
            /\ party' = [party EXCEPT ![j] = "done"]
            /\ UNCHANGED <<dealer, result>>
    /\ UNCHANGED <<session, received, transcript, altered, verdict>>

\* What assemble_shares makes of shares of the right sizes: the proof and the
\* transcript, for the challenges w and us.
Assembled(shares, w, us) ==
    LET Sum(f) == SumUpTo(m, LAMBDA k : shares[k][f])
        t_x == Sum("t_x")
        t_x_blinding == Sum("t_x_blinding")
        e_blinding == Sum("e_blinding")
        t == transcript \o
                 <<<<"t_x", t_x>>, <<"t_x_blinding", t_x_blinding>>,
                   <<"e_blinding", e_blinding>>, <<"w", w>>>>
        Concat(f) == [k \in 1 .. n * m |->
                         shares[(k - 1) \div n + 1][f][((k - 1) % n) + 1]]
        v == Vectors(Ones(n * m), exp_iter(Invert(Drawn("y")), n * m),
                     AggregatedGens("G", n, m), AggregatedGens("H", n, m),
                     Concat("l_vec"), Concat("r_vec"))
        ipp == create(t, multiscalar_mul(<<w>>, <<B>>), v, us)
        Entry(label) == ChallengesOf(transcript, label)[1]
    IN  [transcript |-> ipp.transcript,
         proof |-> [A |-> Entry("A"), S |-> Entry("S"),
                    T_1 |-> Entry("T_1"), T_2 |-> Entry("T_2"),
                    t_x |-> t_x, t_x_blinding |-> t_x_blinding,
                    e_blinding |-> e_blinding, ipp |-> IPPProof(ipp)]]

Commitments == [k \in 1..m |-> received.bits[k].V_j]

\* Mutant of VerifiedCommitmentsAreInRange: the statements are not weighted.
Weightless == 0

\* The weight of the range statement in a verification is drawn by the verifier.
Weight == Draw(m, 0)

\* Mutant of AuditedProofsVerify: the proof is handed out unverified.
TrustedAlways(a) == TRUE

\* A dealer that trusts the parties does not verify what it assembled; the
\* other one verifies it on a copy of the transcript it was first given.
Accepts(a) ==
    \/ session.route = "receive_trusted_shares"
    \/ verify_multiple(a.proof, Commitments, n, a.transcript, Unrelated, Weight)

\* receive_shares audits every share when the proof is not accepted.
ReceiveShares(w, us) ==
    /\ dealer = "awaiting_proof_shares" /\ Collected(session.shares, "shares")
    /\ LET shares == Handed(session.shares)
           malformed == {j \in Positions : ~SizeIsRight(shares[j + 1], n, j)}
           a == Assembled(shares, w, us)
           failing == {j \in Positions :
                          ~AuditPasses(shares[j + 1], j, received.bits[j + 1],
                                       received.polys[j + 1],
                                       Drawn("y"), Drawn("z"), Drawn("x"))}
       IN  IF Len(session.shares) # m
           THEN result' = Err("WrongNumProofShares") /\ UNCHANGED <<received, transcript>>
           ELSE IF malformed # {}
           THEN result' = Malformed(malformed) /\ UNCHANGED <<received, transcript>>
           ELSE /\ received' = [received EXCEPT !.shares = shares]
                /\ transcript' = a.transcript
                /\ result' =
                       IF Accepts(a) THEN [kind |-> "proof", proof |-> a.proof]
                       ELSE Malformed(failing)
    /\ dealer' = "done"
    /\ UNCHANGED <<session, party, sent, altered, verdict>>

-----------------------------------------------------------------------------
(* The verifier, with the commitments the dealer returned, or with the     *)
(* first one moved by B (the adapter's invalid case), or with the last two *)
(* exchanged; and with the proof's bytes, or with others.                  *)

Alter(Vs, how) ==
    CASE how = "first" -> [Vs EXCEPT ![1] = @ (+) B]
      [] how = "exchanged" -> [Vs EXCEPT ![m - 1] = Vs[m], ![m] = Vs[m - 1]]
      [] OTHER -> Vs

AlteredBytes(e, how) ==
    CASE how = "header" -> SubSeq(e, 1, 6)
      [] how = "truncated" -> SubSeq(e, 1, Len(e) - 1)
      [] how = "a_round_more" -> SubSeq(e, 1, 7) \o <<B, B>> \o SubSeq(e, 8, Len(e))
      [] how = "S" -> [e EXCEPT ![2] = @ (+) B_blinding]
      [] how = "t_x" -> [e EXCEPT ![5] = @ ++ 1]
      [] OTHER -> e

Alterations == {"no", "first", "exchanged", "header", "truncated",
                "a_round_more", "S", "t_x"}

Verify(how) ==
    /\ dealer = "done" /\ result.kind = "proof" /\ verdict = "none"
    /\ how = "exchanged" => m > 1 /\ Commitments[m - 1] # Commitments[m]
    /\ altered' = how
    /\ LET bytes == AlteredBytes(range_to_bytes(result.proof), how) IN
       verdict' = IF RangeFormatError(bytes) THEN "FormatError"
                  ELSE IF verify_multiple(range_from_bytes(bytes),
                                          Alter(Commitments, how), n,
                                          transcript, Unrelated, Weight)
                  THEN "ok" ELSE "VerificationError"
    /\ UNCHANGED <<session, dealer, party, sent, received, transcript, result>>

\* The only state a session may stop in; TLC looks for any other.
Ended ==
    /\ dealer = "done" /\ (result.kind = "proof" => verdict # "none")
    /\ UNCHANGED vars

Next ==
    \/ DealerNew
    \/ \E j \in Positions :
           AssignPosition(j) \/ ApplyBitChallenge(j) \/ ApplyPolyChallenge(j)
    \/ \E y \in Yields("y"), z \in Yields("z") : ReceiveBitCommitments(y, z)
    \/ \E x \in Yields("x") : ReceivePolyCommitments(x)
    \/ \E w \in Yields("w") : \E us \in [1..Rounds(n * m) -> Yields("u")] :
           ReceiveShares(w, us)
    \/ \E how \in Alterations : Verify(how)
    \/ Ended

Spec == Init /\ [][Next]_vars

-----------------------------------------------------------------------------

InOrder(order) == order = [k \in 1..m |-> k - 1]
Orderly == InOrder(session.bits) /\ InOrder(session.polys) /\ InOrder(session.shares)
InRange(j) == Value(j) < 2^n

\* The parties whose messages are not those of a value in range.
Deviants == {j \in Positions : Fault(j) # "none" \/ ~InRange(j)}

\* What the verifier refuses without looking at what is proved: too many rounds,
\* or an identity where the proof has a point of its own.
PointLabels == {"A", "S", "T_1", "T_2", "L", "R"}
HasIdentity(t) ==
    \E k \in DOMAIN t : t[k][1] \in PointLabels /\ t[k][2] = Identity
Refusable == Rounds(n * m) >= 32 \/ HasIdentity(transcript)

\* A session of honest parties in agreed sizes, its messages carried in order,
\* ends with a proof, unless the transcript yields zero; and the verifier
\* accepts that proof for the commitments the dealer returned, unless it is one
\* that verification_scalars or validate_and_append_point refuses whatever it
\* proves.  The parties' offsets, the dealer's sums and the verifier's
\* combination have to agree for every number of parties.
HonestSessionsVerify ==
    dealer = "done" /\ Orderly /\ Deviants = {} /\ DealerRefuses(n, m) = "none"
        /\ ~Refusable =>
        /\ result.kind = "proof" \/ result = Err("MaliciousDealer")
        /\ altered = "no" => verdict \in {"none", "ok"}

\* When receive_shares refuses shares carried in order, it names the parties
\* that deviated, all of them and nobody else; but shares of a wrong size hide
\* the other deviants, since nothing is audited then.
AuditNamesTheDeviants ==
    result.kind = "error" /\ result.error = "MalformedProofShares" /\ Orderly =>
        LET short == {j \in Positions : Fault(j) = "short"}
        IN  result.bad_shares = IF short # {} THEN short ELSE Deviants

\* No proof verifies for commitments of which one is to a value out of range,
\* or which are not the ones the parties made, and no other bytes than the
\* proof's verify, whichever route the dealer took and in whatever order the
\* messages came.
VerifiedCommitmentsAreInRange ==
    verdict = "ok" => altered = "no" /\ \A j \in Positions : InRange(j)

\* What receive_shares returns as a proof, the verifier accepts, also when
\* messages were exchanged on the way: the dealer's own verification starts
\* from the transcript as it was before the session, like the verifier's.
AuditedProofsVerify ==
    verdict # "none" /\ altered = "no" /\ session.route = "receive_shares" =>
        verdict = "ok"
================================================================================
