------------------------------- MODULE R1CSProver -------------------------------
(***************************************************************************)
(* The prover's constraint system (r1cs/prover.rs): it is built by a       *)
(* gadget's calls, each of which assigns the wires it creates, commits to  *)
(* the wires of the first phase, runs the closures of the second with      *)
(* challenges drawn after that commitment, and proves.                     *)
(***************************************************************************)
EXTENDS InnerProductProof, LinearCombinations

CONSTANTS
    Gadgets,    \* the gadgets there may be
    Publics,    \* what the application may have put into the transcript
    Yields(_),  \* the challenges a transcript may yield for a label
    Draw(_)     \* scalars of the prover's generator, numbered by their use

VARIABLES
    calls,              \* the calls still to be made
    phase,              \* "build", "randomize" or "proved"
    a_L, a_R, a_O,      \* the wires of the multipliers
    v, v_blinding,      \* the committed variables and their blindings
    constraints, deferred_constraints, pending_multiplier,
    returned,           \* what each call returned
    challenge,          \* the challenge a closure drew last
    transcript,
    n1,                 \* the multipliers of the first phase
    proof,
    error               \* the error the prover stopped with

system == <<a_L, a_R, a_O, v, v_blinding, constraints, deferred_constraints,
            pending_multiplier, returned, challenge>>
pvars == <<calls, phase, system, transcript, n1, proof, error>>

Init ==
    /\ calls \in Gadgets
    /\ transcript \in {r1cs_domain_sep(<<<<"public", p>>>>) : p \in Publics}
    /\ phase = "build"
    /\ a_L = <<>> /\ a_R = <<>> /\ a_O = <<>> /\ v = <<>> /\ v_blinding = <<>>
    /\ constraints = <<>> /\ deferred_constraints = <<>>
    /\ pending_multiplier = None
    /\ returned = <<>> /\ challenge = 1
    /\ n1 = 0 /\ proof = <<>> /\ error = "none"

-----------------------------------------------------------------------------
(* The calls of a gadget.                                                  *)

Call == Head(calls)
Lc(lc) == Resolve(lc, returned, challenge)

Calling(op) ==
    /\ error = "none" /\ phase # "proved"
    /\ calls # <<>> /\ Call.op = op /\ calls' = Tail(calls)
    /\ UNCHANGED <<phase, n1, proof>>
Returning(result) == returned' = Append(returned, result)

\* The value of a variable under the assignment.
ValueOf(var) ==
    CASE var[1] = "MultiplierLeft" -> a_L[var[2] + 1]
      [] var[1] = "MultiplierRight" -> a_R[var[2] + 1]
      [] var[1] = "MultiplierOutput" -> a_O[var[2] + 1]
      [] var[1] = "Committed" -> v[var[2] + 1]
      [] var[1] = "One" -> 1

eval(lc) == SumUpTo(Len(lc), LAMBDA t : lc[t][2] ** ValueOf(lc[t][1]))

\* A new multiplier with all its wires assigned.
Push(l, r) ==
    /\ a_L' = Append(a_L, l)
    /\ a_R' = Append(a_R, r)
    /\ a_O' = Append(a_O, l ** r)

\* Only the system itself commits, not the wrapper the closures are given.
commit_variable ==
    /\ phase = "build" /\ Calling("commit")
    /\ v' = Append(v, Call.value)
    /\ v_blinding' = Append(v_blinding, Call.blinding)
    /\ transcript' = Append1(transcript, "V", commit(Call.value, Call.blinding))
    /\ Returning(Single(Var("Committed", Len(v))))
    /\ UNCHANGED <<a_L, a_R, a_O, constraints, deferred_constraints,
                   pending_multiplier, challenge, error>>

multiply ==
    /\ Calling("multiply")
    /\ Push(eval(Lc(Call.left)), eval(Lc(Call.right)))
    /\ constraints' = constraints \o
           <<Minus(Lc(Call.left), Var("MultiplierLeft", Len(a_L))),
             Minus(Lc(Call.right), Var("MultiplierRight", Len(a_R)))>>
    /\ Returning(<<Var("MultiplierLeft", Len(a_L)), Var("MultiplierRight", Len(a_R)),
                   Var("MultiplierOutput", Len(a_O))>>)
    /\ UNCHANGED <<v, v_blinding, deferred_constraints, pending_multiplier,
                   challenge, transcript, error>>

\* Mutant of ProverIsASystem: every allocation makes a multiplier.
AllocateEach ==
    /\ Calling("allocate") /\ Call.value # None
    /\ Push(Call.value, 0)
    /\ Returning(Single(Var("MultiplierLeft", Len(a_L))))
    /\ UNCHANGED <<v, v_blinding, constraints, deferred_constraints,
                   pending_multiplier, challenge, transcript, error>>

\* The first of two allocations makes a multiplier with a zero right input,
\* the second assigns that input and the output.
allocate ==
    /\ Calling("allocate") /\ Call.value # None
    /\ IF pending_multiplier = None
       THEN /\ pending_multiplier' = Len(a_L)
            /\ a_L' = Append(a_L, Call.value)
            /\ a_R' = Append(a_R, 0)
            /\ a_O' = Append(a_O, 0)
            /\ Returning(Single(Var("MultiplierLeft", Len(a_L))))
       ELSE LET i == pending_multiplier IN
            /\ pending_multiplier' = None
            /\ a_R' = [a_R EXCEPT ![i + 1] = Call.value]
            /\ a_O' = [a_O EXCEPT ![i + 1] = a_L[i + 1] ** Call.value]
            /\ Returning(Single(Var("MultiplierRight", i)))
            /\ UNCHANGED a_L
    /\ UNCHANGED <<v, v_blinding, constraints, deferred_constraints, challenge,
                   transcript, error>>

allocate_multiplier ==
    /\ Calling("allocate_multiplier") /\ Call.left # None
    /\ Push(Call.left, Call.right)
    /\ Returning(<<Var("MultiplierLeft", Len(a_L)), Var("MultiplierRight", Len(a_R)),
                   Var("MultiplierOutput", Len(a_O))>>)
    /\ UNCHANGED <<v, v_blinding, constraints, deferred_constraints,
                   pending_multiplier, challenge, transcript, error>>

\* A prover's gadget has to know what it allocates.
MissingAssignment ==
    /\ error = "none" /\ phase # "proved" /\ calls # <<>>
    /\ \/ Call.op = "allocate" /\ Call.value = None
       \/ Call.op = "allocate_multiplier" /\ Call.left = None
    /\ error' = "MissingAssignment"
    /\ UNCHANGED <<calls, phase, system, transcript, n1, proof>>

constrain ==
    /\ Calling("constrain")
    /\ constraints' = Append(constraints, Lc(Call.lc))
    /\ Returning(Nothing)
    /\ UNCHANGED <<a_L, a_R, a_O, v, v_blinding, deferred_constraints,
                   pending_multiplier, challenge, transcript, error>>

specify_randomized_constraints ==
    /\ phase = "build" /\ Calling("specify_randomized_constraints")
    /\ deferred_constraints' = Append(deferred_constraints, Call.closure)
    /\ Returning(Nothing)
    /\ UNCHANGED <<a_L, a_R, a_O, v, v_blinding, constraints, pending_multiplier,
                   challenge, transcript, error>>

challenge_scalar_call ==
    /\ phase = "randomize" /\ Calling("challenge_scalar")
    /\ challenge' \in Yields("closure")
    /\ transcript' = Append1(transcript, "closure", challenge')
    /\ Returning(Nothing)
    /\ UNCHANGED <<a_L, a_R, a_O, v, v_blinding, constraints, deferred_constraints,
                   pending_multiplier, error>>

-----------------------------------------------------------------------------
(* prove_and_return_transcript up to the second phase.                     *)

\* Commitments to the multipliers from first to last, blinded with what the
\* generator yields from draw k.
s_L(i) == Draw(10 + 2 * i)
s_R(i) == Draw(11 + 2 * i)
CommitWires(first, last, k) ==
    LET count == last - first + 1
        G == SubSeq(ShareGens("G", 0, last), first, last)
        H == SubSeq(ShareGens("H", 0, last), first, last)
        Slice(wires) == SubSeq(wires, first, last)
        Blindings(S(_)) == [i \in 1..count |-> S(first + i - 1)]
    IN  [A_I |-> multiscalar_mul(<<Draw(k)>> \o Slice(a_L) \o Slice(a_R),
                                 <<B_blinding>> \o G \o H),
         A_O |-> multiscalar_mul(<<Draw(k + 1)>> \o Slice(a_O), <<B_blinding>> \o G),
         S |-> multiscalar_mul(<<Draw(k + 2)>> \o Blindings(s_L) \o Blindings(s_R),
                               <<B_blinding>> \o G \o H)]

\* Mutant of CommittedWiresAreFinal: a half allocated multiplier stays pending.
CommitAndKeepPending ==
    /\ error = "none" /\ phase = "build" /\ calls = <<>> /\ Len(a_L) <= GensCapacity
    /\ LET c == CommitWires(1, Len(a_L), 0)
           sep == IF deferred_constraints = <<>> THEN "r1cs-1phase" ELSE "r1cs-2phase"
       IN  transcript' = transcript \o
               <<<<"m", Len(v)>>, <<"A_I1", c.A_I>>, <<"A_O1", c.A_O>>, <<"S1", c.S>>,
                 <<"dom-sep", sep>>>>
    /\ n1' = Len(a_L)
    /\ phase' = "randomize"
    /\ calls' = InTurn(deferred_constraints)
    /\ deferred_constraints' = <<>>
    /\ UNCHANGED <<a_L, a_R, a_O, v, v_blinding, constraints, pending_multiplier,
                   returned, challenge, proof, error>>

\* The first phase is committed to, then create_randomized_constraints forgets
\* a half allocated multiplier and takes out the closures.
CommitFirstPhase ==
    /\ error = "none" /\ phase = "build" /\ calls = <<>>
    /\ IF GensCapacity < Len(a_L)
       THEN /\ error' = "InvalidGeneratorsLength"
            /\ UNCHANGED <<calls, phase, deferred_constraints, pending_multiplier,
                           transcript, n1>>
       ELSE LET c == CommitWires(1, Len(a_L), 0) IN
            /\ n1' = Len(a_L)
            /\ transcript' = transcript \o
                   <<<<"m", Len(v)>>, <<"A_I1", c.A_I>>, <<"A_O1", c.A_O>>,
                     <<"S1", c.S>>,
                     <<"dom-sep", IF deferred_constraints = <<>>
                                  THEN "r1cs-1phase" ELSE "r1cs-2phase">>>>
            /\ phase' = "randomize"
            /\ pending_multiplier' = None
            /\ calls' = InTurn(deferred_constraints)
            /\ deferred_constraints' = <<>>
            /\ UNCHANGED error
    /\ UNCHANGED <<a_L, a_R, a_O, v, v_blinding, constraints, returned, challenge,
                   proof>>

-----------------------------------------------------------------------------
(* The rest of prove_and_return_transcript.                                *)

n == Len(a_L)
padded_n == 2^Rounds(n)     \* also 1 for a circuit without multipliers

\* Without multipliers in the second phase its commitments are the identity.
SecondPhase ==
    IF n > n1 THEN CommitWires(n1 + 1, n, 3)
    ELSE [A_I |-> Identity, A_O |-> Identity, S |-> Identity]
Blinding(k, u) == Draw(k) ++ (IF n > n1 THEN u ** Draw(3 + k) ELSE 0)

wL(z) == Weights(constraints, "MultiplierLeft", n, z)
wR(z) == Weights(constraints, "MultiplierRight", n, z)
wO(z) == Weights(constraints, "MultiplierOutput", n, z)
wV(z) == Scale(Neg(1), Weights(constraints, "Committed", Len(v), z))

Zero == [i \in 1..n |-> 0]

l_poly(y, z) ==
    LET y_inv == exp_iter(Invert(y), n)
        w_R == wR(z)
    IN  <<Zero,
          [i \in 1..n |-> a_L[i] ++ y_inv[i] ** w_R[i]],
          a_O,
          [i \in 1..n |-> s_L(i)]>>

r_poly(y, z) ==
    LET exp_y == exp_iter(y, n)
        w_L == wL(z)
        w_O == wO(z)
    IN  <<[i \in 1..n |-> w_O[i] -- exp_y[i]],
          [i \in 1..n |-> exp_y[i] ** a_R[i] ++ w_L[i]],
          Zero,
          [i \in 1..n |-> exp_y[i] ** s_R(i)]>>

\* The blindings of T_1, T_3, ..., T_6; t_2 is blinded by what V is.
t_blinding(z) ==
    <<Draw(6), inner_product(wV(z), v_blinding), Draw(7), Draw(8), Draw(9), Draw(10)>>

Padded(vec, pad) == vec \o SubSeq(pad, n + 1, padded_n)

\* Mutant of VerifiesIffSatisfied: the padding counts for the first phase.
G_factorsUnpadded(u) == [i \in 1..padded_n |-> IF i <= n1 \/ i > n THEN 1 ELSE u]

\* The generators of the second phase and of the padding carry u.
G_factors(u) == [i \in 1..padded_n |-> IF i <= n1 THEN 1 ELSE u]

\* proof' and transcript', for the challenges drawn on the way.
Prove(y, z, u, x, w, us) ==
    LET c2 == SecondPhase
        l == l_poly(y, z)
        r == r_poly(y, z)
        t == special_inner_product(l, r)
        blindings == t_blinding(z)
        T(k) == commit(t[k], blindings[k])
        t_x == Poly6Eval(t, x)
        t_x_blinding == Poly6Eval(blindings, x)
        e_blinding == x ** (Blinding(0, u)
                              ++ x ** (Blinding(1, u) ++ x ** Blinding(2, u)))
        before == transcript \o
            <<<<"A_I2", c2.A_I>>, <<"A_O2", c2.A_O>>, <<"S2", c2.S>>,
              <<"y", y>>, <<"z", z>>,
              <<"T_1", T(1)>>, <<"T_3", T(3)>>, <<"T_4", T(4)>>, <<"T_5", T(5)>>,
              <<"T_6", T(6)>>, <<"u", u>>, <<"x", x>>,
              <<"t_x", t_x>>, <<"t_x_blinding", t_x_blinding>>,
              <<"e_blinding", e_blinding>>, <<"w", w>>>>
        ipp == create(before, multiscalar_mul(<<w>>, <<B>>),
                      Vectors(G_factors(u),
                              Times(exp_iter(Invert(y), padded_n), G_factors(u)),
                              ShareGens("G", 0, padded_n), ShareGens("H", 0, padded_n),
                              Padded(VecPolyEval(l, x), [i \in 1..padded_n |-> 0]),
                              Padded(VecPolyEval(r, x),
                                     [i \in 1..padded_n |-> Neg(exp_iter(y, i)[i])])),
                      us)
        Sent(label) ==
            transcript[CHOOSE k \in DOMAIN transcript : transcript[k][1] = label][2]
    IN  /\ proof' = [A_I1 |-> Sent("A_I1"), A_O1 |-> Sent("A_O1"), S1 |-> Sent("S1"),
                     A_I2 |-> c2.A_I, A_O2 |-> c2.A_O, S2 |-> c2.S,
                     T_1 |-> T(1), T_3 |-> T(3), T_4 |-> T(4), T_5 |-> T(5),
                     T_6 |-> T(6), t_x |-> t_x, t_x_blinding |-> t_x_blinding,
                     e_blinding |-> e_blinding, ipp |-> IPPProof(ipp)]
        /\ transcript' = ipp.transcript

Finish ==
    /\ error = "none" /\ phase = "randomize" /\ calls = <<>>
    /\ IF GensCapacity < padded_n
       THEN error' = "InvalidGeneratorsLength" /\ UNCHANGED <<phase, transcript, proof>>
       ELSE /\ phase' = "proved"
            /\ \E y \in Yields("y"), z \in Yields("z"), u \in Yields("u"),
                  x \in Yields("x"), w \in Yields("w") :
                   \E us \in [1..Rounds(n) -> Yields("u")] : Prove(y, z, u, x, w, us)
            /\ UNCHANGED error
    /\ UNCHANGED <<calls, system, n1>>

Next ==
    \/ commit_variable \/ multiply \/ allocate \/ allocate_multiplier
    \/ MissingAssignment \/ constrain \/ specify_randomized_constraints
    \/ challenge_scalar_call \/ CommitFirstPhase \/ Finish

Spec == Init /\ [][Next]_pvars

-----------------------------------------------------------------------------

CS == INSTANCE ConstraintSystem WITH
          todo <- calls, randomizing <- (phase # "build"), committed <- Len(v),
          multipliers <- Len(a_L), pending <- pending_multiplier,
          deferred <- deferred_constraints

\* The constraint system a prover is to its gadget is the one the gadget was
\* written for.
ProverIsASystem == CS!Spec

\* What the prover committed to before it drew a challenge it does not change
\* afterwards: a closure that allocates gets a multiplier of its own, also when
\* the first phase left one half allocated.
CommittedWiresAreFinal ==
    [][phase # "build" =>
          \A i \in 1..n1 :
              a_L'[i] = a_L[i] /\ a_R'[i] = a_R[i] /\ a_O'[i] = a_O[i]]_pvars
================================================================================
