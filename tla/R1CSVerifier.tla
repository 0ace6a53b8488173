------------------------------ MODULE R1CSVerifier ------------------------------
(***************************************************************************)
(* The verifier's constraint system (r1cs/verifier.rs): the same gadget    *)
(* makes the same calls, but wires are only counted; the proof stands for  *)
(* their assignment.                                                       *)
(***************************************************************************)
EXTENDS InnerProductProof, LinearCombinations

CONSTANTS
    Gadgets,    \* the gadgets there may be
    Publics,    \* what the application may have put into the transcript
    Yields(_),  \* the challenges a transcript may yield for a label
    Weight,     \* the weight r the verifier draws for the constraints
    Unrelated   \* a challenge of a transcript the prover has not seen

VARIABLES
    vcalls,             \* the calls still to be made
    vphase,             \* "build", "randomize" or "verified"
    num_vars,           \* multipliers
    V,                  \* the commitments
    vconstraints, vdeferred, vpending,
    vreturned,          \* what each call returned
    vchallenge,         \* the challenge a closure drew last
    vtranscript,
    vn1,                \* the multipliers of the first phase
    verdict,            \* "none", "ok" or the error
    message             \* the commitments and the proof received, and the
                        \* transcript they were made with

vsystem == <<num_vars, V, vconstraints, vdeferred, vpending, vreturned, vchallenge>>
vvars == <<vcalls, vphase, vsystem, vtranscript, vn1, verdict, message>>

Init ==
    /\ vcalls \in Gadgets
    /\ vtranscript \in {r1cs_domain_sep(<<<<"public", p>>>>) : p \in Publics}
    /\ vphase = "build"
    /\ num_vars = 0 /\ V = <<>>
    /\ vconstraints = <<>> /\ vdeferred = <<>> /\ vpending = None
    /\ vreturned = <<>> /\ vchallenge = 1
    /\ vn1 = 0 /\ verdict = "none"

Challenge(t, label) == challenge_scalar(t, message.transcript, Unrelated, label)

-----------------------------------------------------------------------------
(* The calls of a gadget.                                                  *)

Call == Head(vcalls)
Lc(lc) == Resolve(lc, vreturned, vchallenge)

Calling(op) ==
    /\ verdict = "none" /\ vphase # "verified"
    /\ vcalls # <<>> /\ Call.op = op /\ vcalls' = Tail(vcalls)
    /\ UNCHANGED <<vphase, vn1, verdict, message>>
Returning(result) == vreturned' = Append(vreturned, result)

commit_variable ==
    /\ vphase = "build" /\ Calling("commit")
    /\ V' = Append(V, message.V[Len(V) + 1])
    /\ vtranscript' = Append1(vtranscript, "V", message.V[Len(V) + 1])
    /\ Returning(Single(Var("Committed", Len(V))))
    /\ UNCHANGED <<num_vars, vconstraints, vdeferred, vpending, vchallenge>>

\* Mutant of SystemsAgree: the right input is constrained before the left one.
MultiplyRightFirst ==
    /\ Calling("multiply")
    /\ num_vars' = num_vars + 1
    /\ vconstraints' = vconstraints \o
           <<Minus(Lc(Call.right), Var("MultiplierRight", num_vars)),
             Minus(Lc(Call.left), Var("MultiplierLeft", num_vars))>>
    /\ Returning(Multiplier(num_vars))
    /\ UNCHANGED <<V, vdeferred, vpending, vchallenge, vtranscript>>

multiply ==
    /\ Calling("multiply")
    /\ num_vars' = num_vars + 1
    /\ vconstraints' = vconstraints \o
           <<Minus(Lc(Call.left), Var("MultiplierLeft", num_vars)),
             Minus(Lc(Call.right), Var("MultiplierRight", num_vars))>>
    /\ Returning(Multiplier(num_vars))
    /\ UNCHANGED <<V, vdeferred, vpending, vchallenge, vtranscript>>

\* Mutant of VerifierIsASystem: the output wire is returned for the right one.
AllocateOutput ==
    /\ Calling("allocate")
    /\ IF vpending = None
       THEN /\ num_vars' = num_vars + 1
            /\ vpending' = num_vars
            /\ Returning(Single(Var("MultiplierLeft", num_vars)))
       ELSE /\ vpending' = None
            /\ Returning(Single(Var("MultiplierOutput", vpending)))
            /\ UNCHANGED num_vars
    /\ UNCHANGED <<V, vconstraints, vdeferred, vchallenge, vtranscript>>

allocate ==
    /\ Calling("allocate")
    /\ IF vpending = None
       THEN /\ num_vars' = num_vars + 1
            /\ vpending' = num_vars
            /\ Returning(Single(Var("MultiplierLeft", num_vars)))
       ELSE /\ vpending' = None
            /\ Returning(Single(Var("MultiplierRight", vpending)))
            /\ UNCHANGED num_vars
    /\ UNCHANGED <<V, vconstraints, vdeferred, vchallenge, vtranscript>>

allocate_multiplier ==
    /\ Calling("allocate_multiplier")
    /\ num_vars' = num_vars + 1
    /\ Returning(Multiplier(num_vars))
    /\ UNCHANGED <<V, vconstraints, vdeferred, vpending, vchallenge, vtranscript>>

constrain ==
    /\ Calling("constrain")
    /\ vconstraints' = Append(vconstraints, Lc(Call.lc))
    /\ Returning(Nothing)
    /\ UNCHANGED <<num_vars, V, vdeferred, vpending, vchallenge, vtranscript>>

specify_randomized_constraints ==
    /\ vphase = "build" /\ Calling("specify_randomized_constraints")
    /\ vdeferred' = Append(vdeferred, Call.closure)
    /\ Returning(Nothing)
    /\ UNCHANGED <<num_vars, V, vconstraints, vpending, vchallenge, vtranscript>>

challenge_scalar_call ==
    /\ vphase = "randomize" /\ Calling("challenge_scalar")
    /\ vchallenge' = Challenge(vtranscript, "closure")
    /\ vtranscript' = Append1(vtranscript, "closure", vchallenge')
    /\ Returning(Nothing)
    /\ UNCHANGED <<num_vars, V, vconstraints, vdeferred, vpending>>

-----------------------------------------------------------------------------
(* verify_and_return_transcript.                                           *)

Reject(e) ==
    verdict' = e /\ UNCHANGED <<vcalls, vphase, vdeferred, vpending, vtranscript, vn1>>

\* The commitments of the first phase, none of which may be the identity; then
\* create_randomized_constraints, as the prover's.
ReplayFirstPhase ==
    /\ verdict = "none" /\ vphase = "build" /\ vcalls = <<>>
    /\ LET p == message.proof IN
       IF Identity \in {p.A_I1, p.A_O1, p.S1} THEN Reject("VerificationError")
       ELSE /\ vn1' = num_vars
            /\ vtranscript' = vtranscript \o
                   <<<<"m", Len(V)>>, <<"A_I1", p.A_I1>>, <<"A_O1", p.A_O1>>,
                     <<"S1", p.S1>>,
                     <<"dom-sep", IF vdeferred = <<>>
                                  THEN "r1cs-1phase" ELSE "r1cs-2phase">>>>
            /\ vphase' = "randomize"
            /\ vpending' = None
            /\ vcalls' = InTurn(vdeferred)
            /\ vdeferred' = <<>>
            /\ UNCHANGED verdict
    /\ UNCHANGED <<num_vars, V, vconstraints, vreturned, vchallenge, message>>

n == num_vars
padded_n == 2^Rounds(n)

\* The transcript of the second phase, up to w.
Replay(p) ==
    LET Then(t, label) == Append1(t, label, Challenge(t, label))
        wires == vtranscript \o
                    <<<<"A_I2", p.A_I2>>, <<"A_O2", p.A_O2>>, <<"S2", p.S2>>>>
        polys == Then(Then(wires, "y"), "z") \o
                    <<<<"T_1", p.T_1>>, <<"T_3", p.T_3>>, <<"T_4", p.T_4>>,
                      <<"T_5", p.T_5>>, <<"T_6", p.T_6>>>>
        shares == Then(Then(polys, "u"), "x") \o
                    <<<<"t_x", p.t_x>>, <<"t_x_blinding", p.t_x_blinding>>,
                      <<"e_blinding", p.e_blinding>>>>
    IN  Then(shares, "w")

ZeroPadded(vec) == vec \o [i \in 1 .. padded_n - n |-> 0]

\* The one check, for a proof p whose points are as they have to be.
MegaCheck(p, t) ==
    LET Drawn(label) == ChallengesOf(t, label)[1]
        y == Drawn("y")  z == Drawn("z")  u == Drawn("u")
        x == Drawn("x")  w == Drawn("w")  r == Weight
        xx == x ** x
        xxx == x ** xx
        rxx == r ** xx
        wL == ZeroPadded(Weights(vconstraints, "MultiplierLeft", n, z))
        wR == ZeroPadded(Weights(vconstraints, "MultiplierRight", n, z))
        wO == ZeroPadded(Weights(vconstraints, "MultiplierOutput", n, z))
        wV == Scale(Neg(1), Weights(vconstraints, "Committed", Len(V), z))
        wc == Neg(WeightOf(vconstraints, One, z))
        ipp == verification_scalars(p.ipp, padded_n, t, message.transcript, Unrelated)
        s == ipp.s
        s_inv == Reversed(ipp.s)
        a == p.ipp.a
        b == p.ipp.b
        y_inv == exp_iter(Invert(y), padded_n)
        yneg_wR == Times(wR, y_inv)
        delta == inner_product(yneg_wR, wL)
        u_or_1 == [i \in 1..padded_n |-> IF i <= vn1 THEN 1 ELSE u]
        g == [i \in 1..padded_n |-> u_or_1[i] ** (x ** yneg_wR[i] -- a ** s[i])]
        h == [i \in 1..padded_n |->
                u_or_1[i] ** (y_inv[i] ** ((x ** wL[i] ++ wO[i]) -- b ** s_inv[i]) -- 1)]
    IN  Identity = multiscalar_mul(
            <<x, xx, xxx, u ** x, u ** xx, u ** xxx>>
                \o Scale(rxx, wV)
                \o <<r ** x, rxx ** x, rxx ** xx, rxx ** xxx, (rxx ** xx) ** xx,
                     w ** (p.t_x -- a ** b) ++ r ** (xx ** (wc ++ delta) -- p.t_x),
                     Neg(p.e_blinding) -- r ** p.t_x_blinding>>
                \o g \o h \o ipp.u_sq \o ipp.u_inv_sq,
            <<p.A_I1, p.A_O1, p.S1, p.A_I2, p.A_O2, p.S2>> \o V
                \o <<p.T_1, p.T_3, p.T_4, p.T_5, p.T_6, B, B_blinding>>
                \o ShareGens("G", 0, padded_n) \o ShareGens("H", 0, padded_n)
                \o p.ipp.L_vec \o p.ipp.R_vec)

\* The points of the first phase and the T commitments are validated, those of
\* the second phase are not: they are the identity when it has no multipliers.
Verify ==
    /\ verdict = "none" /\ vphase = "randomize" /\ vcalls = <<>>
    /\ LET p == message.proof
           t == Replay(p)
       IN  /\ verdict' =
                  IF GensCapacity < padded_n THEN "InvalidGeneratorsLength"
                  ELSE IF \/ Identity \in {p.T_1, p.T_3, p.T_4, p.T_5, p.T_6}
                          \/ ScalarsRefused(p.ipp, padded_n)
                  THEN "VerificationError"
                  ELSE IF MegaCheck(p, t) THEN "ok" ELSE "VerificationError"
           /\ vtranscript' = t
    /\ vphase' = "verified"
    /\ UNCHANGED <<vcalls, vsystem, vn1, message>>

Next ==
    \/ commit_variable \/ multiply \/ allocate \/ allocate_multiplier \/ constrain
    \/ specify_randomized_constraints \/ challenge_scalar_call
    \/ ReplayFirstPhase \/ Verify

Spec == Init /\ [][Next]_vvars

-----------------------------------------------------------------------------

CS == INSTANCE ConstraintSystem WITH
          todo <- vcalls, randomizing <- (vphase # "build"), committed <- Len(V),
          multipliers <- num_vars, pending <- vpending,
          constraints <- vconstraints, deferred <- vdeferred,
          returned <- vreturned, challenge <- vchallenge

\* The verifier's constraint system is the one the gadget was written for.
VerifierIsASystem == CS!Spec
================================================================================
