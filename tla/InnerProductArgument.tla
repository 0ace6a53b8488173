-------------------------- MODULE InnerProductArgument --------------------------
(***************************************************************************)
(* One run of the inner-product argument, round by round: the prover       *)
(* (InnerProductProof::create) starts from two vectors and their           *)
(* commitment, every round answers one challenge, and the verifier         *)
(* (InnerProductProof::verify) is then given the proof, possibly altered   *)
(* on the way, and the statement, possibly another one.                    *)
(***************************************************************************)
EXTENDS InnerProductProof

CONSTANTS
    Lengths,        \* lengths of the vectors the prover may be given
    Entries,        \* their entries
    Factors,        \* bases of the powers the generators are scaled with
    Challenges,     \* challenges the transcript may yield
    Unrelated       \* a challenge drawn from a transcript the prover has not seen

ASSUME ArgumentAssumption ==
    /\ Lengths \subseteq 1..GensCapacity
    /\ Entries \subseteq Scalar
    /\ Factors \subseteq Scalar
    /\ Challenges \subseteq Scalar \ {0}

VARIABLES
    pc,         \* where the run is
    input,      \* the vectors create was called with
    state,      \* what create holds: vectors left, cross terms, transcript
    altered,    \* what differs between what was proved and what is verified
    verdict     \* what verify returned

vars == <<pc, input, state, altered, verdict>>

Q == commit(7, 0)

Init ==
    /\ pc = "start" /\ input = <<>> /\ state = <<>>
    /\ altered = "nothing" /\ verdict = "none"

\* create up to its first round, on the generators of one party.
Create(n, a, b, f, h) ==
    LET v == Vectors(exp_iter(f, n), exp_iter(h, n),
                     ShareGens("G", 0, n), ShareGens("H", 0, n), a, b)
    IN  /\ pc = "start"
        /\ input' = v
        /\ IF CreatePanics(v)
           THEN pc' = "panicked" /\ UNCHANGED state
           ELSE pc' = "rounds" /\ state' = create(<<>>, Q, v, <<>>)
        /\ UNCHANGED <<altered, verdict>>

\* One iteration of create's loop, for the challenge u its transcript yields.
Round(u) ==
    /\ pc = "rounds" /\ Len(state.v.a) # 1
    /\ LET L == CrossL(state.v, Q)
           R == CrossR(state.v, Q)
       IN  state' = [v |-> Fold(state.v, u),
                     L_vec |-> Append(state.L_vec, L),
                     R_vec |-> Append(state.R_vec, R),
                     transcript |-> state.transcript \o
                         <<<<"L", L>>, <<"R", R>>, <<"u", u>>>>]
    /\ UNCHANGED <<pc, input, altered, verdict>>

\* The commitment the argument is about: <a, G> + <b, H> + <a, b> Q.
Commitment(v) ==
    multiscalar_mul(
        Times(v.a, v.gf) \o Times(v.b, v.hf) \o <<inner_product(v.a, v.b)>>,
        v.G \o v.H \o <<Q>>)

Alterations == {"nothing", "a", "b", "claim", "length", "cross_terms", "round"}

\* The proof and the statement as the verifier receives them.
Received(alteration) ==
    LET proof == IPPProof(state)
        n == Len(input.a)
        P == Commitment(input)
        message(p, len, c) == [proof |-> p, n |-> len, P |-> c]
        Front(s) == SubSeq(s, 1, Len(s) - 1)
    IN  CASE alteration = "nothing" -> message(proof, n, P)
          [] alteration = "a" -> message([proof EXCEPT !.a = @ ++ 1], n, P)
          [] alteration = "b" -> message([proof EXCEPT !.b = @ ++ 1], n, P)
          [] alteration = "claim" -> message(proof, n, P (+) Q)
          [] alteration = "length" -> message(proof, 2 * n, P)
          [] alteration = "cross_terms" ->
                 message([proof EXCEPT !.L_vec = proof.R_vec,
                                       !.R_vec = proof.L_vec], n, P)
          [] alteration = "round" ->
                 message([proof EXCEPT !.L_vec = Front(@), !.R_vec = Front(@)],
                         n, P)

\* Another proof or statement than the one that was made.
Differs(alteration) ==
    Received(alteration) # Received("nothing")

Verify(alteration) ==
    LET m == Received(alteration) IN
    /\ pc = "rounds" /\ Len(state.v.a) = 1
    /\ alteration = "round" => Len(state.L_vec) > 0
    /\ altered' = alteration
    /\ verdict' = IF verify(m.proof, m.n, <<>>, state.transcript, Unrelated,
                            input.gf, input.hf, m.P, Q, input.G, input.H)
                  THEN "ok" ELSE "VerificationError"
    /\ pc' = "done"
    /\ UNCHANGED <<input, state>>

Next ==
    \/ \E n \in Lengths, f, h \in Factors :
           \E a, b \in [1..n -> Entries] : Create(n, a, b, f, h)
    \/ \E u \in Challenges : Round(u)
    \/ \E alteration \in Alterations : Verify(alteration)

Spec == Init /\ [][Next]_vars

-----------------------------------------------------------------------------

\* Whatever the challenges were, the cross terms weighted by their squares
\* account for exactly what a round did to the commitment: the loop of create
\* (first unrolled with the factors, then without) keeps the claim it started
\* from true of the vectors it has left.
RoundsKeepTheClaim ==
    pc \in {"rounds", "done"} =>
        LET us == ChallengesOf(state.transcript, "u")
            sq == Times(us, us)
            inv_sq == [k \in DOMAIN us |-> Invert(sq[k])]
        IN  Commitment(state.v) =
                Commitment(input)
                    (+) multiscalar_mul(sq, state.L_vec)
                    (+) multiscalar_mul(inv_sq, state.R_vec)

\* The scalars verification_scalars computes from the challenges alone, bit by
\* bit of the index, turn the original generators into the single pair the
\* prover's foldings arrived at: s for G and s read backwards for H.
ScalarsFoldTheGenerators ==
    pc = "done" /\ altered = "nothing" =>
        LET s == SVector(ChallengesOf(state.transcript, "u")) IN
        /\ multiscalar_mul(Times(s, input.gf), input.G)
               = multiscalar_mul(state.v.gf, state.v.G)
        /\ multiscalar_mul(Times(Reversed(s), input.hf), input.H)
               = multiscalar_mul(state.v.hf, state.v.H)

\* What was proved is accepted when it arrives as it was made, whatever the vectors
\* and the challenges were, with two exceptions the prover does not guard against:
\* a proof of 32 or more rounds, and one with the identity for a cross term, which
\* the prover appends without the validation the verifier insists on.
HonestProofsVerify ==
    pc = "done" /\ ~Differs(altered) =>
        (verdict = "ok" <=>
            /\ Len(state.L_vec) < 32
            /\ Identity \notin {state.L_vec[k] : k \in DOMAIN state.L_vec}
            /\ Identity \notin {state.R_vec[k] : k \in DOMAIN state.R_vec})

\* And nothing else is: a proof with another scalar, with its cross terms exchanged
\* or a round less, a longer statement and another claim are all refused.
OnlyTheProvedClaimVerifies ==
    pc = "done" /\ verdict = "ok" => ~Differs(altered)
================================================================================
