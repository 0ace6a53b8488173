------------------------------- MODULE R1CSProof --------------------------------
(***************************************************************************)
(* A prover and a verifier of a constraint system, and the proof between   *)
(* them (r1cs/proof.rs): each runs a gadget on its own system; the proof   *)
(* goes from one to the other as bytes, with the commitments.              *)
(***************************************************************************)
EXTENDS R1CSChain, InnerProductProof

CONSTANTS
    Sessions,   \* gadgets and publics of the two sides, and how the message
                \* is altered on its way
    Gadgets, Publics,
    Yields(_),  \* the challenges a transcript may yield for a label
    Draw(_),    \* scalars of the prover's generator, numbered by their use
    Weight,     \* the weight the verifier draws
    Unrelated   \* a challenge of a transcript the prover has not seen

VARIABLES
    session,
    calls, phase, a_L, a_R, a_O, v, v_blinding, constraints,
    deferred_constraints, pending_multiplier, returned, challenge, transcript,
    n1, proof, error,
    vcalls, vphase, num_vars, V, vconstraints, vdeferred, vpending, vreturned,
    vchallenge, vtranscript, vn1, verdict, message

Proving == INSTANCE R1CSProver
Verifying == INSTANCE R1CSVerifier

proverVars ==
    <<calls, phase, a_L, a_R, a_O, v, v_blinding, constraints,
      deferred_constraints, pending_multiplier, returned, challenge, transcript,
      n1, proof, error>>
systemOfVerifier ==
    <<vcalls, vphase, num_vars, V, vconstraints, vdeferred, vpending, vreturned,
      vchallenge, vtranscript, vn1>>
vars == <<session, proverVars, systemOfVerifier, verdict, message>>

Init ==
    /\ session \in Sessions
    /\ calls = session.gadget /\ vcalls = session.vgadget
    /\ transcript = r1cs_domain_sep(<<<<"public", session.public>>>>)
    /\ vtranscript = r1cs_domain_sep(<<<<"public", session.vpublic>>>>)
    /\ Proving!Init /\ Verifying!Init
    /\ message = <<>>

-----------------------------------------------------------------------------
(* The proof as bytes: a version, then elements.                           *)

ONE_PHASE_COMMITMENTS == 0
TWO_PHASE_COMMITMENTS == 1

missing_phase2_commitments(p) == {p.A_I2, p.A_O2, p.S2} = {Identity}

Encode(p) ==
    LET missing == missing_phase2_commitments(p)
    IN  [version |-> IF missing THEN ONE_PHASE_COMMITMENTS ELSE TWO_PHASE_COMMITMENTS,
         elements |-> <<p.A_I1, p.A_O1, p.S1>>
             \o (IF missing THEN <<>> ELSE <<p.A_I2, p.A_O2, p.S2>>)
             \o <<p.T_1, p.T_3, p.T_4, p.T_5, p.T_6,
                  p.t_x, p.t_x_blinding, p.e_blinding>>
             \o to_bytes(p.ipp)]

\* The elements before those of the inner-product proof.
Fixed(version) == IF version = ONE_PHASE_COMMITMENTS THEN 11 ELSE 14

FormatError(slice) ==
    \/ slice.version \notin {ONE_PHASE_COMMITMENTS, TWO_PHASE_COMMITMENTS}
    \/ Len(slice.elements) < Fixed(slice.version)
    \/ IPPFormatError(SubSeq(slice.elements, Fixed(slice.version) + 1,
                             Len(slice.elements)))

Decode(slice) ==
    LET e == slice.elements
        fixed == Fixed(slice.version)
        second == IF slice.version = ONE_PHASE_COMMITMENTS
                  THEN <<Identity, Identity, Identity>> ELSE SubSeq(e, 4, 6)
    IN  [A_I1 |-> e[1], A_O1 |-> e[2], S1 |-> e[3],
         A_I2 |-> second[1], A_O2 |-> second[2], S2 |-> second[3],
         T_1 |-> e[fixed - 7], T_3 |-> e[fixed - 6], T_4 |-> e[fixed - 5],
         T_5 |-> e[fixed - 4], T_6 |-> e[fixed - 3],
         t_x |-> e[fixed - 2], t_x_blinding |-> e[fixed - 1], e_blinding |-> e[fixed],
         ipp |-> from_bytes(SubSeq(e, fixed + 1, Len(e)))]

\* What becomes of the bytes, or of the commitments sent along.
AlteredBytes(slice, how) ==
    LET e == slice.elements
        last == Len(e)
    IN  CASE how = "version" -> [slice EXCEPT !.version = 2]
          [] how = "truncated" -> [slice EXCEPT !.elements = SubSeq(e, 1, last - 1)]
          [] how = "header" -> [slice EXCEPT !.elements = SubSeq(e, 1, 5)]
          [] how = "a_round_more" ->
                 [slice EXCEPT !.elements = SubSeq(e, 1, last - 2)
                      \o <<B, B>> \o SubSeq(e, last - 1, last)]
          [] how = "A_I1" -> [slice EXCEPT !.elements[1] = Identity]
          [] how = "t_x" ->
                 [slice EXCEPT !.elements[Fixed(slice.version) - 2] = @ ++ 1]
          [] how = "second_phase" /\ slice.version = TWO_PHASE_COMMITMENTS ->
                 [slice EXCEPT !.elements[4] = @ (+) B_blinding]
          [] how = "T_6" ->
                 [slice EXCEPT !.elements[Fixed(slice.version) - 3] = Identity]
          [] OTHER -> slice

Commitments ==
    LET made == [k \in DOMAIN v |-> commit(v[k], v_blinding[k])]
    IN  IF session.altered = "commitment" THEN [made EXCEPT ![1] = @ (+) B] ELSE made

Deliver ==
    /\ phase = "proved" /\ message = <<>> /\ verdict = "none"
    /\ LET slice == AlteredBytes(Encode(proof), session.altered) IN
       IF FormatError(slice) THEN verdict' = "FormatError" /\ UNCHANGED message
       ELSE /\ message' = [V |-> Commitments, proof |-> Decode(slice),
                           transcript |-> transcript]
            /\ UNCHANGED verdict
    /\ UNCHANGED <<session, proverVars, systemOfVerifier>>

\* The only states a session may stop in; TLC looks for any other.
Ended == (error # "none" \/ verdict # "none") /\ UNCHANGED vars

Next ==
    \/ Proving!Next /\ UNCHANGED <<session, systemOfVerifier, verdict, message>>
    \/ Deliver
    \/ message # <<>> /\ Verifying!Next /\ UNCHANGED <<session, proverVars>>
    \/ Ended

Spec == Init /\ [][Next]_vars

-----------------------------------------------------------------------------

Judged == verdict # "none"
SameStatement == session.gadget = session.vgadget /\ session.public = session.vpublic

\* Alterations that leave the proof as it was.
Unaltered ==
    \/ session.altered = "no"
    \/ session.altered = "second_phase" /\ missing_phase2_commitments(proof)

Satisfied == \A q \in DOMAIN constraints : Proving!eval(constraints[q]) = 0

\* The verifier accepts exactly the unaltered proofs, of the statement it has
\* itself, whose prover's assignment satisfies every constraint: those of the
\* gadget, of the closures run with challenges, and of padding nothing.  The
\* prover does not check the assignment; it proves whatever it was given.
VerifiesIffSatisfied ==
    Judged => (verdict = "ok" <=> SameStatement /\ Unaltered /\ Satisfied)

\* When both sides ran the same gadget in the same context, the verifier has
\* the prover's constraints, over the same variables, whichever challenges the
\* closures drew and however the wires were allocated: it knows of none of the
\* prover's values, and both split the multipliers at the same place.
SystemsAgree ==
    vphase = "verified" /\ SameStatement /\ Unaltered =>
        /\ vconstraints = constraints /\ vreturned = returned
        /\ num_vars = Len(a_L) /\ vn1 = n1 /\ vchallenge = challenge

\* Wires stay what the first phase committed to: R1CSProver states it.
CommittedWiresAreFinal == Proving!CommittedWiresAreFinal

\* The prover's constraint system is the one the gadget was written for.
ProverIsASystem == Proving!ProverIsASystem

\* So is the verifier's.
VerifierIsASystem == Verifying!VerifierIsASystem
================================================================================
