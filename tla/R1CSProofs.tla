------------------------------- MODULE R1CSProofs -------------------------------
(***************************************************************************)
(* The prover's constraint system and the verifier's both implement        *)
(* ConstraintSystem, the prover's does not change a wire after it has      *)
(* committed to it, and the two agree: for every set of gadgets, every     *)
(* assignment, every challenge and every size of the generators.           *)
(***************************************************************************)
EXTENDS R1CSProof, BulletproofLemmas

\* The wires are sequences of one length, and the half allocated multiplier is
\* one of them.
WiresOK ==
    /\ IsSequence(a_L) /\ IsSequence(a_R) /\ IsSequence(a_O)
    /\ Len(a_R) = Len(a_L) /\ Len(a_O) = Len(a_L)
    /\ pending_multiplier # Proving!None => pending_multiplier \in 0 .. Len(a_L) - 1

\* After the first phase there are no fewer multipliers than were committed to,
\* and none of those is half allocated any more.
SplitOK ==
    phase # "build" =>
        /\ n1 \in Nat /\ n1 <= Len(a_L)
        /\ pending_multiplier # Proving!None => pending_multiplier >= n1

PInv ==
    /\ phase \in {"build", "randomize", "proved"}
    /\ IsSequence(v)
    /\ WiresOK
    /\ SplitOK

LEMMA InitPInv == Proving!Init => PInv
<1>1. <<>> \in Seq({}) /\ Len(<<>>) = 0
  OBVIOUS
<1> QED BY <1>1 DEF Proving!Init, PInv, WiresOK, SplitOK, IsSequence

-----------------------------------------------------------------------------
(* What a step does to the wires that were committed to.                   *)

Kept == \A i \in 1..n1 : a_L'[i] = a_L[i] /\ a_R'[i] = a_R[i] /\ a_O'[i] = a_O[i]

\* New multipliers go behind those there are.
LEMMA PushKeeps ==
  ASSUME PInv, NEW l, NEW r,
         \/ Proving!Push(l, r)
         \/ /\ a_L' = Append(a_L, l) /\ a_R' = Append(a_R, 0) /\ a_O' = Append(a_O, 0)
  PROVE  /\ IsSequence(a_L') /\ IsSequence(a_R') /\ IsSequence(a_O')
         /\ Len(a_L') = Len(a_L) + 1 /\ Len(a_L) \in Nat
         /\ Len(a_R') = Len(a_L') /\ Len(a_O') = Len(a_L')
         /\ phase # "build" => Kept
<1>1. PICK x, y, z : /\ a_L' = Append(a_L, x) /\ a_R' = Append(a_R, y)
                     /\ a_O' = Append(a_O, z)
  BY DEF Proving!Push
<1>2. IsSequence(a_L) /\ IsSequence(a_R) /\ IsSequence(a_O)
  BY DEF PInv, WiresOK
<1>3. Len(a_R) = Len(a_L) /\ Len(a_O) = Len(a_L) /\ Len(a_L) \in Nat
  BY <1>2, LenOfSequence DEF PInv, WiresOK
<1>4. /\ IsSequence(a_L') /\ Len(a_L') = Len(a_L) + 1
      /\ \A i \in 1..Len(a_L) : a_L'[i] = a_L[i]
  BY <1>1, <1>2, AppendIsSequence
<1>5. /\ IsSequence(a_R') /\ Len(a_R') = Len(a_R) + 1
      /\ \A i \in 1..Len(a_R) : a_R'[i] = a_R[i]
  BY <1>1, <1>2, AppendIsSequence
<1>6. /\ IsSequence(a_O') /\ Len(a_O') = Len(a_O) + 1
      /\ \A i \in 1..Len(a_O) : a_O'[i] = a_O[i]
  BY <1>1, <1>2, AppendIsSequence
<1>7. phase # "build" => Kept
  BY <1>3, <1>4, <1>5, <1>6 DEF PInv, SplitOK, Kept
<1> QED BY <1>3, <1>4, <1>5, <1>6, <1>7

wires == <<a_L, a_R, a_O, pending_multiplier>>

\* A call that leaves the wires alone.
LEMMA SameWires ==
  ASSUME PInv, UNCHANGED <<phase, n1, wires>>, IsSequence(v')
  PROVE  PInv' /\ Kept
BY DEF PInv, WiresOK, SplitOK, Kept, wires

\* A call that makes a multiplier, half allocated or not.
LEMMA NewMultiplier ==
  ASSUME PInv, NEW l, NEW r, UNCHANGED <<phase, n1, v>>,
         \/ Proving!Push(l, r)
         \/ /\ a_L' = Append(a_L, l) /\ a_R' = Append(a_R, 0) /\ a_O' = Append(a_O, 0),
         pending_multiplier' \in {pending_multiplier, Len(a_L)}
  PROVE  /\ PInv' /\ (phase # "build" => Kept)
         /\ Len(a_L') = Len(a_L) + 1 /\ Len(a_R) = Len(a_L) /\ Len(a_O) = Len(a_L)
<1>1. /\ IsSequence(a_L') /\ IsSequence(a_R') /\ IsSequence(a_O')
      /\ Len(a_L') = Len(a_L) + 1 /\ Len(a_L) \in Nat
      /\ Len(a_R') = Len(a_L') /\ Len(a_O') = Len(a_L')
      /\ phase # "build" => Kept
  BY PushKeeps
<1>2. WiresOK'
  BY <1>1 DEF PInv, WiresOK
<1>3. SplitOK'
  BY <1>1 DEF PInv, SplitOK
<1> QED BY <1>1, <1>2, <1>3 DEF PInv, WiresOK

\* The second of two allocations: the multiplier it completes is one the first
\* phase did not commit to.
LEMMA SecondAllocation ==
  ASSUME PInv, UNCHANGED <<phase, n1, v, a_L>>, NEW x, NEW y,
         pending_multiplier # Proving!None, pending_multiplier' = Proving!None,
         a_R' = [a_R EXCEPT ![pending_multiplier + 1] = x],
         a_O' = [a_O EXCEPT ![pending_multiplier + 1] = y]
  PROVE  PInv' /\ (phase # "build" => Kept)
<1> DEFINE k == pending_multiplier + 1
<1>1. IsSequence(a_L) /\ IsSequence(a_R) /\ IsSequence(a_O)
  BY DEF PInv, WiresOK
<1>2. Len(a_R) = Len(a_L) /\ Len(a_O) = Len(a_L) /\ Len(a_L) \in Nat
  BY <1>1, LenOfSequence DEF PInv, WiresOK
<1>3. k \in 1..Len(a_L)
  BY <1>2 DEF PInv, WiresOK
<1>4. /\ IsSequence(a_R') /\ Len(a_R') = Len(a_R)
      /\ \A i \in 1..Len(a_R) : i # k => a_R'[i] = a_R[i]
  <2>1. k \in 1..Len(a_R) /\ a_R' = Replaced(a_R, k, x)
    BY <1>2, <1>3 DEF Replaced
  <2> HIDE DEF k
  <2> QED
    BY ONLY <1>1, <2>1, ReplaceIsSequence
<1>5. /\ IsSequence(a_O') /\ Len(a_O') = Len(a_O)
      /\ \A i \in 1..Len(a_O) : i # k => a_O'[i] = a_O[i]
  <2>1. k \in 1..Len(a_O) /\ a_O' = Replaced(a_O, k, y)
    BY <1>2, <1>3 DEF Replaced
  <2> HIDE DEF k
  <2> QED
    BY ONLY <1>1, <2>1, ReplaceIsSequence
<1>6. phase # "build" => n1 \in Nat /\ n1 <= Len(a_L) /\ n1 < k
  BY <1>2, <1>3 DEF PInv, WiresOK, SplitOK
<1>7. phase # "build" => Kept
  BY <1>2, <1>4, <1>5, <1>6 DEF Kept
<1>8. WiresOK'
  BY <1>1, <1>2, <1>4, <1>5 DEF WiresOK
<1>9. SplitOK'
  BY <1>6 DEF SplitOK
<1> QED BY <1>7, <1>8, <1>9 DEF PInv

-----------------------------------------------------------------------------
(* The calls of a gadget.                                                  *)

\* A call of the gadget is the same call of the abstract system.
LEMMA CallIsACall ==
  ASSUME PInv,
         \/ Proving!commit_variable \/ Proving!multiply \/ Proving!allocate
         \/ Proving!allocate_multiplier \/ Proving!constrain
         \/ Proving!specify_randomized_constraints \/ Proving!challenge_scalar_call
  PROVE  PInv' /\ Proving!CS!Next /\ (phase # "build" => Kept)
<1> USE DEF Proving!Calling, Proving!Returning, Proving!Call, Proving!CS!Calling,
            Proving!CS!Returning, Proving!CS!Call
<1>1. CASE Proving!commit_variable
  <2>1. IsSequence(v') /\ Len(v') = Len(v) + 1
    BY <1>1, AppendIsSequence DEF PInv, Proving!commit_variable
  <2>2. Proving!CS!commit
    BY <1>1, <2>1 DEF Proving!commit_variable, Proving!CS!commit
  <2>3. PInv' /\ Kept
    BY <1>1, <2>1, SameWires DEF Proving!commit_variable, wires
  <2> QED
    BY <2>2, <2>3 DEF Proving!CS!Next
<1>2. CASE Proving!multiply
  <2>1. Proving!Push(Proving!eval(Proving!Lc(Proving!Call.left)),
                   Proving!eval(Proving!Lc(Proving!Call.right)))
    BY <1>2 DEF Proving!multiply
  <2>2. UNCHANGED <<phase, n1, v, pending_multiplier>>
    BY <1>2 DEF Proving!multiply
  <2>3. /\ PInv' /\ (phase # "build" => Kept)
        /\ Len(a_L') = Len(a_L) + 1 /\ Len(a_R) = Len(a_L) /\ Len(a_O) = Len(a_L)
    BY <2>1, <2>2, NewMultiplier
  <2>4. Proving!CS!multiply
    BY <1>2, <2>3 DEF Proving!multiply, Proving!Lc, Proving!CS!multiply,
       Proving!CS!Lc, Proving!Multiplier
  <2> QED
    BY <2>3, <2>4 DEF Proving!CS!Next
<1>3. CASE Proving!allocate /\ pending_multiplier = Proving!None
  <2>1. /\ a_L' = Append(a_L, Proving!Call.value) /\ a_R' = Append(a_R, 0)
        /\ a_O' = Append(a_O, 0)
    BY <1>3 DEF Proving!allocate
  <2>2. UNCHANGED <<phase, n1, v>> /\ pending_multiplier' = Len(a_L)
    BY <1>3 DEF Proving!allocate
  <2>3. PInv' /\ (phase # "build" => Kept) /\ Len(a_L') = Len(a_L) + 1
    BY <2>1, <2>2, NewMultiplier
  <2>4. Proving!CS!allocate
    BY <1>3, <2>3 DEF Proving!allocate, Proving!CS!allocate
  <2> QED
    BY <2>3, <2>4 DEF Proving!CS!Next
<1>4. CASE Proving!allocate /\ pending_multiplier # Proving!None
  <2>1. PInv' /\ (phase # "build" => Kept)
    BY <1>4, SecondAllocation DEF Proving!allocate
  <2>2. Proving!CS!allocate
    BY <1>4 DEF Proving!allocate, Proving!CS!allocate
  <2> QED
    BY <2>1, <2>2 DEF Proving!CS!Next
<1>5. CASE Proving!allocate_multiplier
  <2>1. Proving!Push(Proving!Call.left, Proving!Call.right)
    BY <1>5 DEF Proving!allocate_multiplier
  <2>2. UNCHANGED <<phase, n1, v, pending_multiplier>>
    BY <1>5 DEF Proving!allocate_multiplier
  <2>3. /\ PInv' /\ (phase # "build" => Kept)
        /\ Len(a_L') = Len(a_L) + 1 /\ Len(a_R) = Len(a_L) /\ Len(a_O) = Len(a_L)
    BY <2>1, <2>2, NewMultiplier
  <2>4. Proving!CS!allocate_multiplier
    BY <1>5, <2>3 DEF Proving!allocate_multiplier, Proving!CS!allocate_multiplier,
       Proving!Multiplier
  <2> QED
    BY <2>3, <2>4 DEF Proving!CS!Next
<1>6. CASE Proving!constrain
  <2>1. Proving!CS!constrain
    BY <1>6 DEF Proving!constrain, Proving!Lc, Proving!CS!constrain, Proving!CS!Lc
  <2>2. UNCHANGED <<phase, n1, wires, v>>
    BY <1>6 DEF Proving!constrain, wires
  <2> QED
    BY <2>1, <2>2, SameWires DEF PInv, Proving!CS!Next
<1>7. CASE Proving!specify_randomized_constraints
  <2>1. Proving!CS!specify_randomized_constraints
    BY <1>7 DEF Proving!specify_randomized_constraints,
       Proving!CS!specify_randomized_constraints
  <2>2. UNCHANGED <<phase, n1, wires, v>>
    BY <1>7 DEF Proving!specify_randomized_constraints, wires
  <2> QED
    BY <2>1, <2>2, SameWires DEF PInv, Proving!CS!Next
<1>8. CASE Proving!challenge_scalar_call
  <2>1. Proving!CS!challenge_scalar_call
    BY <1>8 DEF Proving!challenge_scalar_call, Proving!CS!challenge_scalar_call
  <2>2. UNCHANGED <<phase, n1, wires, v>>
    BY <1>8 DEF Proving!challenge_scalar_call, wires
  <2> QED
    BY <2>1, <2>2, SameWires DEF PInv, Proving!CS!Next
<1> QED
  BY <1>1, <1>2, <1>3, <1>4, <1>5, <1>6, <1>7, <1>8

\* Every step is one of the abstract system or leaves that as it is.
LEMMA StepIsAStep ==
  ASSUME PInv, [Proving!Next]_Proving!pvars
  PROVE  PInv' /\ [Proving!CS!Next]_Proving!CS!vars /\ (phase # "build" => Kept)
<1>1. CASE Proving!CommitFirstPhase /\ GensCapacity < Len(a_L)
  <2>1. UNCHANGED <<phase, n1, wires, v>> /\ UNCHANGED Proving!CS!vars
    BY <1>1 DEF Proving!CommitFirstPhase, wires, Proving!CS!vars
  <2> QED
    BY <2>1, SameWires DEF PInv
<1>2. CASE Proving!CommitFirstPhase /\ ~(GensCapacity < Len(a_L))
  <2>1. Proving!CS!create_randomized_constraints
    BY <1>2 DEF Proving!CommitFirstPhase, Proving!CS!create_randomized_constraints
  <2>2. /\ phase = "build" /\ phase' = "randomize" /\ n1' = Len(a_L)
        /\ pending_multiplier' = Proving!None /\ UNCHANGED <<a_L, a_R, a_O, v>>
    BY <1>2 DEF Proving!CommitFirstPhase
  <2>3. Len(a_L) \in Nat
    BY LenOfSequence DEF PInv, WiresOK
  <2> QED
    BY <2>1, <2>2, <2>3 DEF PInv, WiresOK, SplitOK, Proving!CS!Next
<1>3. CASE Proving!Finish
  <2>1. /\ phase = "randomize" /\ phase' \in {"randomize", "proved"}
        /\ UNCHANGED <<calls, Proving!system, n1>>
    BY <1>3 DEF Proving!Finish
  <2> QED
    BY <2>1 DEF Proving!system, PInv, WiresOK, SplitOK, Kept, Proving!CS!vars
<1>4. CASE Proving!MissingAssignment \/ UNCHANGED Proving!pvars
  <2>1. UNCHANGED <<phase, n1, wires, v>> /\ UNCHANGED Proving!CS!vars
    BY <1>4 DEF Proving!MissingAssignment, Proving!pvars, Proving!system, wires,
       Proving!CS!vars
  <2> QED
    BY <2>1, SameWires DEF PInv
<1> QED
  BY <1>1, <1>2, <1>3, <1>4, CallIsACall DEF Proving!Next

\* The other steps of a session leave the prover alone.
LEMMA SessionStep == [Next]_vars => [Proving!Next]_Proving!pvars
BY DEF Next, Deliver, Ended, vars, proverVars, Proving!pvars, Proving!system

LEMMA InitOfProver == Init => PInv /\ Proving!CS!Init
BY InitPInv DEF Init, Proving!Init, Proving!CS!Init

\* ProverIsASystem: the prover's constraint system does what the gadget was
\* written for, whatever the gadget, the assignment and the challenges.
THEOREM ProverImplementsSystem == Spec => ProverIsASystem
<1>1. PInv /\ [Next]_vars => PInv' /\ [Proving!CS!Next]_Proving!CS!vars
  BY SessionStep, StepIsAStep
<1> QED
  BY <1>1, InitOfProver, PTL DEF Spec, ProverIsASystem, Proving!ProverIsASystem,
     Proving!CS!Spec

\* CommittedWiresAreFinal: no gadget, no closure and no half allocated
\* multiplier makes the prover change what it has committed to.
THEOREM ProverKeepsCommittedWires == Spec => CommittedWiresAreFinal
<1>1. PInv /\ [Next]_vars =>
        [phase # "build" =>
            \A i \in 1..n1 :
                a_L'[i] = a_L[i] /\ a_R'[i] = a_R[i] /\ a_O'[i] = a_O[i]]_Proving!pvars
  BY SessionStep, StepIsAStep DEF Kept
<1>2. PInv /\ [Next]_vars => PInv'
  BY SessionStep, StepIsAStep
<1> QED
  BY <1>1, <1>2, InitOfProver, PTL DEF Spec, CommittedWiresAreFinal,
     Proving!CommittedWiresAreFinal

-----------------------------------------------------------------------------
(* The verifier.                                                           *)

VInv ==
    /\ vphase \in {"build", "randomize", "verified"}
    /\ IsSequence(V)

LEMMA InitVInv == Verifying!Init => VInv
<1>1. <<>> \in Seq({})
  OBVIOUS
<1> QED BY <1>1 DEF Verifying!Init, VInv, IsSequence

\* A call of the gadget is the same call of the abstract system.
LEMMA VerifierCall ==
  ASSUME VInv,
         \/ Verifying!commit_variable \/ Verifying!multiply \/ Verifying!allocate
         \/ Verifying!allocate_multiplier \/ Verifying!constrain
         \/ Verifying!specify_randomized_constraints \/ Verifying!challenge_scalar_call
  PROVE  VInv' /\ Verifying!CS!Next
<1>1. CASE Verifying!commit_variable
  <2>1. IsSequence(V') /\ Len(V') = Len(V) + 1
    BY <1>1, AppendIsSequence DEF VInv, Verifying!commit_variable
  <2>2. Verifying!CS!commit
    BY <1>1, <2>1 DEF Verifying!commit_variable, Verifying!Calling,
       Verifying!Returning, Verifying!Call, Verifying!CS!commit,
       Verifying!CS!Calling, Verifying!CS!Returning, Verifying!CS!Call
  <2> QED
    BY <1>1, <2>1, <2>2 DEF VInv, Verifying!commit_variable, Verifying!Calling,
       Verifying!CS!Next
<1>2. CASE Verifying!multiply
  <2>1. Verifying!CS!multiply
    BY <1>2 DEF Verifying!multiply, Verifying!Calling, Verifying!Returning,
       Verifying!Call, Verifying!CS!multiply, Verifying!CS!Calling,
       Verifying!CS!Returning, Verifying!CS!Call, Verifying!CS!Lc, Verifying!Lc
  <2>2. UNCHANGED <<vphase, V>>
    BY <1>2 DEF Verifying!multiply, Verifying!Calling
  <2> QED
    BY <2>1, <2>2 DEF VInv, Verifying!CS!Next
<1>3. CASE Verifying!allocate
  <2>1. Verifying!CS!allocate
    BY <1>3 DEF Verifying!allocate, Verifying!Calling, Verifying!Returning,
       Verifying!Call, Verifying!CS!allocate, Verifying!CS!Calling,
       Verifying!CS!Returning, Verifying!CS!Call
  <2>2. UNCHANGED <<vphase, V>>
    BY <1>3 DEF Verifying!allocate, Verifying!Calling
  <2> QED
    BY <2>1, <2>2 DEF VInv, Verifying!CS!Next
<1>4. CASE Verifying!allocate_multiplier
  <2>1. Verifying!CS!allocate_multiplier
    BY <1>4 DEF Verifying!allocate_multiplier, Verifying!Calling,
       Verifying!Returning, Verifying!Call, Verifying!CS!allocate_multiplier,
       Verifying!CS!Calling, Verifying!CS!Returning, Verifying!CS!Call
  <2>2. UNCHANGED <<vphase, V>>
    BY <1>4 DEF Verifying!allocate_multiplier, Verifying!Calling
  <2> QED
    BY <2>1, <2>2 DEF VInv, Verifying!CS!Next
<1>5. CASE Verifying!constrain
  <2>1. Verifying!CS!constrain
    BY <1>5 DEF Verifying!constrain, Verifying!Calling, Verifying!Returning,
       Verifying!Call, Verifying!CS!constrain, Verifying!CS!Calling,
       Verifying!CS!Returning, Verifying!CS!Call, Verifying!CS!Lc, Verifying!Lc
  <2>2. UNCHANGED <<vphase, V>>
    BY <1>5 DEF Verifying!constrain, Verifying!Calling
  <2> QED
    BY <2>1, <2>2 DEF VInv, Verifying!CS!Next
<1>6. CASE Verifying!specify_randomized_constraints
  <2>1. Verifying!CS!specify_randomized_constraints
    BY <1>6 DEF Verifying!specify_randomized_constraints, Verifying!Calling,
       Verifying!Returning, Verifying!Call,
       Verifying!CS!specify_randomized_constraints, Verifying!CS!Calling,
       Verifying!CS!Returning, Verifying!CS!Call
  <2>2. UNCHANGED <<vphase, V>>
    BY <1>6 DEF Verifying!specify_randomized_constraints, Verifying!Calling
  <2> QED
    BY <2>1, <2>2 DEF VInv, Verifying!CS!Next
<1>7. CASE Verifying!challenge_scalar_call
  <2>1. Verifying!CS!challenge_scalar_call
    BY <1>7 DEF Verifying!challenge_scalar_call, Verifying!Calling,
       Verifying!Returning, Verifying!Call, Verifying!CS!challenge_scalar_call,
       Verifying!CS!Calling, Verifying!CS!Returning, Verifying!CS!Call
  <2>2. UNCHANGED <<vphase, V>>
    BY <1>7 DEF Verifying!challenge_scalar_call, Verifying!Calling
  <2> QED
    BY <2>1, <2>2 DEF VInv, Verifying!CS!Next
<1> QED BY <1>1, <1>2, <1>3, <1>4, <1>5, <1>6, <1>7

\* Replaying the first phase runs the closures; the rest is not the gadget's.
LEMMA VerifierStep ==
  ASSUME VInv, [Verifying!Next]_Verifying!vvars
  PROVE  VInv' /\ [Verifying!CS!Next]_Verifying!CS!vars
<1>1. CASE Verifying!ReplayFirstPhase
  <2>1. CASE Verifying!Identity \in {message.proof.A_I1,
             message.proof.A_O1, message.proof.S1}
    BY <1>1, <2>1 DEF Verifying!ReplayFirstPhase, Verifying!Reject, VInv,
       Verifying!CS!vars
  <2>2. CASE Verifying!Identity \notin {message.proof.A_I1,
             message.proof.A_O1, message.proof.S1}
    <3>1. Verifying!CS!create_randomized_constraints
      BY <1>1, <2>2 DEF Verifying!ReplayFirstPhase,
         Verifying!CS!create_randomized_constraints
    <3>2. vphase' = "randomize" /\ V' = V
      BY <1>1, <2>2 DEF Verifying!ReplayFirstPhase
    <3> QED
      BY <3>1, <3>2 DEF VInv, Verifying!CS!Next
  <2> QED
    BY <2>1, <2>2
<1>2. CASE Verifying!Verify
  BY <1>2 DEF Verifying!Verify, Verifying!vsystem, VInv, Verifying!CS!vars
<1>3. CASE UNCHANGED Verifying!vvars
  BY <1>3 DEF Verifying!vvars, Verifying!vsystem, VInv, Verifying!CS!vars
<1> QED
  BY <1>1, <1>2, <1>3, VerifierCall DEF Verifying!Next

\* The other steps of a session leave the verifier's constraint system alone.
LEMMA VerifierSessionStep ==
  ASSUME VInv, [Next]_vars
  PROVE  VInv' /\ [Verifying!CS!Next]_Verifying!CS!vars
<1>1. CASE Verifying!Next
  BY <1>1, VerifierStep
<1>2. CASE UNCHANGED systemOfVerifier
  BY <1>2 DEF systemOfVerifier, VInv, Verifying!CS!vars
<1> QED
  BY <1>1, <1>2 DEF Next, Deliver, Ended, vars

\* VerifierIsASystem: the verifier's constraint system does what the gadget was
\* written for, whatever the gadget and whatever the message.
THEOREM VerifierImplementsSystem == Spec => VerifierIsASystem
<1>1. Init => VInv /\ Verifying!CS!Init
  BY InitVInv DEF Init, Verifying!Init, Verifying!CS!Init
<1> QED
  BY <1>1, VerifierSessionStep, PTL DEF Spec, VerifierIsASystem,
     Verifying!VerifierIsASystem, Verifying!CS!Spec

-----------------------------------------------------------------------------
(* SystemsAgree: both sides step through one sequence of states, the       *)
(* history, which the statement, the prover's transcript and its           *)
(* commitments determine.  The prover makes it, the verifier follows.      *)

\* What two calls after each other leave, s and then t, when T is the transcript
\* and W the commitments: Calls is common to those of a gadget.
Calls(s, t, op, result) ==
    /\ s.todo # <<>> /\ Head(s.todo).op = op /\ t.todo = Tail(s.todo)
    /\ t.returned = Append(s.returned, result)
    /\ t.stage = s.stage /\ t.first = s.first

Commits(s, t, T, W) ==
    /\ s.stage = "build"
    /\ Calls(s, t, "commit", Single(Var("Committed", s.committed)))
    /\ t.committed = s.committed + 1 /\ t.committed \in DOMAIN W
    /\ t.len = s.len + 1 /\ t.len \in DOMAIN T /\ T[t.len] = <<"V", W[t.committed]>>
    /\ t.multipliers = s.multipliers /\ t.pending = s.pending
    /\ t.constraints = s.constraints /\ t.deferred = s.deferred
    /\ t.challenge = s.challenge

Multiplies(s, t) ==
    /\ Calls(s, t, "multiply", Multiplier(s.multipliers))
    /\ t.multipliers = s.multipliers + 1
    /\ t.constraints = s.constraints \o
          <<Minus(Resolve(Head(s.todo).left, s.returned, s.challenge),
                  Var("MultiplierLeft", s.multipliers)),
            Minus(Resolve(Head(s.todo).right, s.returned, s.challenge),
                  Var("MultiplierRight", s.multipliers))>>
    /\ t.committed = s.committed /\ t.pending = s.pending
    /\ t.deferred = s.deferred /\ t.challenge = s.challenge /\ t.len = s.len

Allocates(s, t) ==
    /\ \/ /\ s.pending = None
          /\ Calls(s, t, "allocate", Single(Var("MultiplierLeft", s.multipliers)))
          /\ t.multipliers = s.multipliers + 1 /\ t.pending = s.multipliers
       \/ /\ s.pending # None
          /\ Calls(s, t, "allocate", Single(Var("MultiplierRight", s.pending)))
          /\ t.multipliers = s.multipliers /\ t.pending = None
    /\ t.committed = s.committed /\ t.constraints = s.constraints
    /\ t.deferred = s.deferred /\ t.challenge = s.challenge /\ t.len = s.len

AllocatesMultiplier(s, t) ==
    /\ Calls(s, t, "allocate_multiplier", Multiplier(s.multipliers))
    /\ t.multipliers = s.multipliers + 1
    /\ t.committed = s.committed /\ t.pending = s.pending
    /\ t.constraints = s.constraints
    /\ t.deferred = s.deferred /\ t.challenge = s.challenge /\ t.len = s.len

Constrains(s, t) ==
    /\ Calls(s, t, "constrain", Nothing)
    /\ t.constraints = Append(s.constraints,
                              Resolve(Head(s.todo).lc, s.returned, s.challenge))
    /\ t.committed = s.committed /\ t.multipliers = s.multipliers
    /\ t.pending = s.pending
    /\ t.deferred = s.deferred /\ t.challenge = s.challenge /\ t.len = s.len

Defers(s, t) ==
    /\ s.stage = "build"
    /\ Calls(s, t, "specify_randomized_constraints", Nothing)
    /\ t.deferred = Append(s.deferred, Head(s.todo).closure)
    /\ t.committed = s.committed /\ t.multipliers = s.multipliers
    /\ t.pending = s.pending /\ t.constraints = s.constraints
    /\ t.challenge = s.challenge /\ t.len = s.len

Draws(s, t, T) ==
    /\ s.stage = "randomize"
    /\ Calls(s, t, "challenge_scalar", Nothing)
    /\ t.len = s.len + 1 /\ t.len \in DOMAIN T /\ T[t.len] = <<"closure", t.challenge>>
    /\ t.committed = s.committed /\ t.multipliers = s.multipliers
    /\ t.pending = s.pending /\ t.constraints = s.constraints
    /\ t.deferred = s.deferred

Label(deferred) == IF deferred = <<>> THEN "r1cs-1phase" ELSE "r1cs-2phase"

Randomizes(s, t, T) ==
    /\ s.todo = <<>> /\ s.stage = "build" /\ t.stage = "randomize"
    /\ t.todo = InTurn(s.deferred) /\ t.deferred = <<>>
    /\ t.pending = None /\ t.first = s.multipliers
    /\ t.len = s.len + 5 /\ s.len + 1 .. s.len + 5 \subseteq DOMAIN T
    /\ T[s.len + 1] = <<"m", s.committed>>
    /\ T[s.len + 2] = <<"A_I1", T[s.len + 2][2]>>
    /\ T[s.len + 3] = <<"A_O1", T[s.len + 3][2]>>
    /\ T[s.len + 4] = <<"S1", T[s.len + 4][2]>>
    /\ T[s.len + 5] = <<"dom-sep", Label(s.deferred)>>
    /\ t.committed = s.committed /\ t.multipliers = s.multipliers
    /\ t.constraints = s.constraints /\ t.returned = s.returned
    /\ t.challenge = s.challenge

Followed(s, t, T, W) ==
    /\ s.len \in Nat /\ t.len \in Nat
    /\ \/ Commits(s, t, T, W) \/ Multiplies(s, t) \/ Allocates(s, t)
       \/ AllocatesMultiplier(s, t) \/ Constrains(s, t) \/ Defers(s, t)
       \/ Draws(s, t, T) \/ Randomizes(s, t, T)

\* More of the transcript and more commitments do not change what was done.
LEMMA FollowedStays ==
  ASSUME NEW s, NEW t, NEW T, NEW W, NEW T2, NEW W2,
         Followed(s, t, T, W), Extends(T, T2), Extends(W, W2)
  PROVE  Followed(s, t, T2, W2)
<1>1. CASE Commits(s, t, T, W)
  BY <1>1 DEF Followed, Commits, Extends
<1>2. CASE Draws(s, t, T)
  BY <1>2 DEF Followed, Draws, Extends
<1>3. CASE Randomizes(s, t, T)
  <2>1. \A i \in s.len + 1 .. s.len + 5 : i \in DOMAIN T2 /\ T2[i] = T[i]
    BY <1>3 DEF Randomizes, Extends
  <2>2. /\ s.len + 1 .. s.len + 5 \subseteq DOMAIN T2
        /\ T2[s.len + 1] = T[s.len + 1] /\ T2[s.len + 2] = T[s.len + 2]
        /\ T2[s.len + 3] = T[s.len + 3] /\ T2[s.len + 4] = T[s.len + 4]
        /\ T2[s.len + 5] = T[s.len + 5]
    BY <2>1 DEF Followed
  <2>3. Randomizes(s, t, T2)
    BY <1>3, <2>2 DEF Randomizes
  <2> QED BY <2>3 DEF Followed
<1> QED BY <1>1, <1>2, <1>3 DEF Followed

\* The two sides' linear combinations are the ones of LinearCombinations.
LEMMA SameCombinations ==
  /\ Proving!None = None /\ Verifying!None = None
  /\ Proving!Nothing = Nothing /\ Verifying!Nothing = Nothing
  /\ \A k, i : Proving!Var(k, i) = Var(k, i) /\ Verifying!Var(k, i) = Var(k, i)
  /\ \A x : Proving!Single(x) = Single(x) /\ Verifying!Single(x) = Single(x)
  /\ \A i : Verifying!Multiplier(i) = Multiplier(i)
  /\ \A lc, x : Proving!Minus(lc, x) = Minus(lc, x) /\ Verifying!Minus(lc, x) = Minus(lc, x)
  /\ \A d : Proving!InTurn(d) = InTurn(d) /\ Verifying!InTurn(d) = InTurn(d)
  /\ \A lc, r, c : Proving!Resolve(lc, r, c) = Resolve(lc, r, c)
                   /\ Verifying!Resolve(lc, r, c) = Resolve(lc, r, c)
<1>1. \A k, i : Proving!Var(k, i) = Var(k, i) /\ Verifying!Var(k, i) = Var(k, i)
  BY DEF Var, Proving!Var, Verifying!Var
<1>2. \A x : Proving!Single(x) = Single(x) /\ Verifying!Single(x) = Single(x)
  BY DEF Single, Proving!Single, Verifying!Single, NoVar, Proving!NoVar,
     Verifying!NoVar, Var, Proving!Var, Verifying!Var
<1>3. /\ Proving!None = None /\ Verifying!None = None
      /\ Proving!Nothing = Nothing /\ Verifying!Nothing = Nothing
  BY DEF None, Proving!None, Verifying!None, Nothing, Proving!Nothing,
     Verifying!Nothing, Single, Proving!Single, Verifying!Single, NoVar,
     Proving!NoVar, Verifying!NoVar, Var, Proving!Var, Verifying!Var
<1>4. \A i : Verifying!Multiplier(i) = Multiplier(i)
  BY DEF Multiplier, Verifying!Multiplier, Var, Verifying!Var
<1>5. \A lc, x : Proving!Minus(lc, x) = Minus(lc, x) /\ Verifying!Minus(lc, x) = Minus(lc, x)
  BY DEF Minus, Proving!Minus, Verifying!Minus, Negate, Proving!Negate,
     Verifying!Negate, From, Proving!From, Verifying!From, Neg, Proving!Neg,
     Verifying!Neg
<1>6. \A d : Proving!InTurn(d) = InTurn(d) /\ Verifying!InTurn(d) = InTurn(d)
  BY DEF InTurn, Proving!InTurn, Verifying!InTurn
<1>7. \A lc, r, c : Proving!Resolve(lc, r, c) = Resolve(lc, r, c)
                    /\ Verifying!Resolve(lc, r, c) = Resolve(lc, r, c)
  BY DEF Resolve, Proving!Resolve, Verifying!Resolve, scalar_exp_vartime,
     Proving!scalar_exp_vartime, Verifying!scalar_exp_vartime, **, Proving!**,
     Verifying!**, Scalar, Proving!Scalar, Verifying!Scalar, One, Proving!One,
     Verifying!One, Var, Proving!Var, Verifying!Var
<1> QED BY <1>1, <1>2, <1>3, <1>4, <1>5, <1>6, <1>7

\* So are the commitments.
LEMMA SameCommitment == \A a, b : Proving!commit(a, b) = commit(a, b)
BY DEF commit, Proving!commit, multiscalar_mul, Proving!multiscalar_mul, SumUpTo,
   Proving!SumUpTo, SumOfFirst, Proving!SumOfFirst, ++, **, Proving!++, Proving!**, B, B_blinding, Proving!B,
   Proving!B_blinding, Base, Proving!Base, Identity, Proving!Identity, Generator,
   Proving!Generator

\* Nor is what the prover does with the inner-product argument.
LEMMA SameArgument ==
  /\ \A n : Proving!Rounds(n) = Rounds(n)
  /\ \A t, Q, x, us : Proving!create(t, Q, x, us) = create(t, Q, x, us)
  /\ \A s : Proving!IPPProof(s) = IPPProof(s)
<1>1. \A n : Proving!Rounds(n) = Rounds(n)
  BY DEF Rounds, Proving!Rounds
<1>2. \A t, Q, x, us : Proving!create(t, Q, x, us) = create(t, Q, x, us)
  BY DEF create, Proving!create, innerproduct_domain_sep,
     Proving!innerproduct_domain_sep, CrossL, Proving!CrossL, CrossR,
     Proving!CrossR, Fold, Proving!Fold, Half, Proving!Half, Ones, Proving!Ones,
     Times, Proving!Times, Invert, Proving!Invert, inner_product,
     Proving!inner_product, multiscalar_mul, Proving!multiscalar_mul,
     scalar_exp_vartime, Proving!scalar_exp_vartime, SumUpTo, Proving!SumUpTo,
     SumOfFirst, Proving!SumOfFirst, ++, Proving!++, **, Proving!**, Scalar, Proving!Scalar, Generator,
     Proving!Generator
<1>3. \A s : Proving!IPPProof(s) = IPPProof(s)
  BY DEF IPPProof, Proving!IPPProof
<1> QED BY <1>1, <1>2, <1>3

-----------------------------------------------------------------------------
(* The prover's way.                                                       *)

Made == [k \in DOMAIN v |-> commit(v[k], v_blinding[k])]

Stage(p) == IF p = "build" THEN "build" ELSE "randomize"

\* What a gadget's calls have made of the prover's system, with len entries of
\* the transcript.
Snapshot(len) ==
    [todo |-> calls, stage |-> Stage(phase), committed |-> Len(v),
     multipliers |-> Len(a_L), pending |-> pending_multiplier,
     constraints |-> constraints, deferred |-> deferred_constraints,
     returned |-> returned, challenge |-> challenge, first |-> n1, len |-> len]

Start ==
    [todo |-> session.gadget, stage |-> "build", committed |-> 0,
     multipliers |-> 0, pending |-> None, constraints |-> <<>>, deferred |-> <<>>,
     returned |-> <<>>, challenge |-> 1, first |-> 0, len |-> 2]

Told(len) == [i \in 1..len |-> transcript[i]]

FirstPhase == {"A_I1", "A_O1", "S1"}

\* The first phase is committed to once, and the proof has what was sent then.
SentOnce ==
    /\ phase = "build" => \A i \in DOMAIN transcript : transcript[i][1] \notin FirstPhase
    /\ phase # "proved" =>
          \A i, j \in DOMAIN transcript :
              transcript[i][1] \in FirstPhase /\ transcript[j][1] = transcript[i][1] => j = i

\* The prover's transcript starts with the statement.
LogOK ==
    /\ IsSequence(transcript) /\ {1, 2} \subseteq DOMAIN transcript
    /\ transcript[1] = <<"public", session.public>>
    /\ transcript[2] = <<"dom-sep", "r1cs v1">>
    /\ IsSequence(v_blinding) /\ Len(v_blinding) = Len(v)
    /\ SentOnce
    /\ phase = "proved" => calls = <<>> /\ IsSequence(proof.ipp.L_vec)

\* h is the sequence of the states the prover's system has gone through in m
\* steps, the last of them with len entries of its transcript.
History(h, m, len) ==
    /\ h[0] = Start /\ h[m] = Snapshot(len)
    /\ len \in DOMAIN transcript /\ (phase # "proved" => len = Len(transcript))
    /\ \A k \in 0..(m - 1) : Followed(h[k], h[k + 1], Told(len), Made)
    /\ phase = "proved" =>
          \A i \in 1..len : transcript[i][1] \in FirstPhase =>
              transcript[i][2] = proof[transcript[i][1]]

HasHistory == \E m \in Nat : \E h, len : History(h, m, len)

LEMMA InitHistory == Init => LogOK /\ HasHistory
<1> SUFFICES ASSUME Init PROVE LogOK /\ HasHistory
  OBVIOUS
<1>1. transcript = <<<<"public", session.public>>, <<"dom-sep", "r1cs v1">>>>
  BY AppendToOne DEF Init, r1cs_domain_sep, Append1
<1>2. /\ IsSequence(transcript) /\ Len(transcript) = 2 /\ DOMAIN transcript = {1, 2}
      /\ transcript[1] = <<"public", session.public>>
      /\ transcript[2] = <<"dom-sep", "r1cs v1">>
  BY <1>1, TuplesAreSequences, PairDomain
<1>3. <<>> \in Seq({}) /\ Len(<<>>) = 0
  OBVIOUS
<1>4. LogOK
  <2>1. \A i \in DOMAIN transcript : transcript[i][1] \in {"public", "dom-sep"}
    <3>1. transcript[1][1] = "public" /\ transcript[2][1] = "dom-sep"
      BY <1>2, PairDomain
    <3> QED BY <1>2, <3>1
  <2>2. SentOnce
    BY <2>1 DEF SentOnce, FirstPhase
  <2>3. phase # "proved" /\ v = <<>> /\ v_blinding = <<>>
    BY DEF Init, Proving!Init
  <2> QED BY <1>2, <1>3, <2>2, <2>3 DEF LogOK, IsSequence
<1>5. Snapshot(2) = Start
  BY <1>3, SameCombinations DEF Init, Proving!Init, Snapshot, Start, Stage
<1>6. History([k \in {0} |-> Start], 0, 2)
  <2>1. phase = "build" /\ 2 \in DOMAIN transcript
    BY <1>2 DEF Init, Proving!Init
  <2>2. [k \in {0} |-> Start][0] = Start /\ 0..(0 - 1) = {}
    OBVIOUS
  <2> QED BY <1>2, <1>5, <2>1, <2>2 DEF History
<1> QED BY <1>4, <1>6 DEF HasHistory

\* Entries behind the first that have other labels keep SentOnce.
LEMMA OthersSent ==
  ASSUME LogOK, NEW label, NEW value, label \notin FirstPhase,
         transcript' = Append(transcript, <<label, value>>), phase' = phase,
         phase # "proved"
  PROVE  SentOnce' /\ IsSequence(transcript') /\ Extends(transcript, transcript')
         /\ Len(transcript') = Len(transcript) + 1 /\ Len(transcript') \in DOMAIN transcript'
         /\ transcript'[Len(transcript')] = <<label, value>> /\ Len(transcript) \in Nat
<1>1. PICK S : transcript \in Seq(S)
  BY DEF LogOK, IsSequence
<1> DEFINE e == <<label, value>>
           U == S \cup {e}
<1>2. transcript \in Seq(U) /\ e \in U
  BY <1>1
<1>3. e[1] = label
  OBVIOUS
<1> HIDE DEF U, e
<1>4. /\ transcript' \in Seq(U) /\ Len(transcript') = Len(transcript) + 1
      /\ Len(transcript) \in Nat /\ DOMAIN transcript = 1..Len(transcript)
      /\ DOMAIN transcript' = 1..(Len(transcript) + 1)
      /\ \A i \in 1..Len(transcript) : transcript'[i] = transcript[i]
      /\ transcript'[Len(transcript) + 1] = e
  BY <1>2 DEF e
<1>5. SentOnce'
  <2>1. ASSUME NEW i \in DOMAIN transcript', transcript'[i][1] \in FirstPhase
        PROVE  i \in DOMAIN transcript /\ transcript'[i] = transcript[i]
    BY <1>3, <1>4, <2>1
  <2> QED BY <2>1, ZenonT(40) DEF LogOK, SentOnce
<1> QED BY <1>4, <1>5 DEF Extends, IsSequence, e

\* A state more.
LEMMA LongerHistory ==
  ASSUME PInv, LogOK, HasHistory, phase # "proved", phase' # "proved",
         session' = session, IsSequence(transcript'),
         Extends(transcript, transcript'), Extends(Made, Made'),
         NEW n, n = Len(transcript'), n \in DOMAIN transcript',
         Followed(Snapshot(Len(transcript)), Snapshot(n)', transcript', Made')
  PROVE  HasHistory'
<1>1. PICK m \in Nat : \E h, len : History(h, m, len)
  BY DEF HasHistory
<1>2. PICK h, len : History(h, m, len)
  BY <1>1
<1> PICK g : g = [k \in 0..(m + 1) |-> IF k <= m THEN h[k] ELSE Snapshot(n)']
  OBVIOUS
<1>3. len = Len(transcript) /\ h[0] = Start /\ h[m] = Snapshot(len)
  BY <1>2 DEF History
<1>4. /\ DOMAIN transcript' = 1..n /\ DOMAIN transcript = 1..len
      /\ len \in Nat /\ n \in Nat
  BY <1>3, SequenceDomain DEF LogOK
<1>5. Extends(Told(len), Told(n)') /\ Extends(transcript', Told(n)')
  BY <1>3, <1>4 DEF Told, Extends
<1>6. \A k \in 0..(m - 1) : Followed(h[k], h[k + 1], Told(n)', Made')
  BY <1>2, <1>5, FollowedStays DEF History
<1>7. Followed(h[m], Snapshot(n)', Told(n)', Made')
  <2>1. Followed(Snapshot(len), Snapshot(n)', transcript', Made')
    BY <1>3
  <2>2. Extends(Made', Made')
    BY DEF Extends
  <2> QED BY <1>3, <1>5, <2>1, <2>2, FollowedStays
<1>8. /\ g[0] = h[0] /\ g[m + 1] = Snapshot(n)'
      /\ \A k \in 0..(m - 1) : g[k] = h[k] /\ g[k + 1] = h[k + 1]
      /\ g[m] = h[m]
  OBVIOUS
<1>9. \A k \in 0..((m + 1) - 1) : Followed(g[k], g[k + 1], Told(n)', Made')
  <2> QED BY <1>6, <1>7, <1>8
<1>10. Start' = Start
  BY DEF Start
<1>11. History(g, m + 1, n)'
  BY <1>3, <1>8, <1>9, <1>10 DEF History
<1> QED BY <1>11 DEF HasHistory

\* A call that leaves the transcript and the commitments alone.
LEMMA QuietCall ==
  ASSUME PInv, LogOK, HasHistory, phase # "proved",
         UNCHANGED <<session, transcript, v, v_blinding, phase>>,
         NEW l, l = Len(transcript), NEW s, s = Snapshot(l), NEW t, t = Snapshot(l)',
         \/ Multiplies(s, t) \/ Allocates(s, t) \/ AllocatesMultiplier(s, t)
         \/ Constrains(s, t) \/ Defers(s, t)
  PROVE  LogOK' /\ HasHistory'
<1>1. LogOK'
  BY DEF LogOK, SentOnce
<1>2. l \in Nat /\ l \in DOMAIN transcript
  <2>1. l \in Nat /\ DOMAIN transcript = 1..l /\ 1 \in DOMAIN transcript
    BY SequenceDomain DEF LogOK
  <2> QED BY <2>1
<1>3. s.len = l /\ t.len = l
  BY DEF Snapshot
<1>4. Followed(s, t, transcript', Made')
  BY <1>2, <1>3 DEF Followed
<1>5. Extends(transcript, transcript') /\ Extends(Made, Made') /\ IsSequence(transcript')
  BY DEF Extends, Made, LogOK
<1>6. HasHistory'
  BY <1>2, <1>4, <1>5, LongerHistory
<1> QED BY <1>1, <1>6

\* The history goes on with each call of the gadget.
LEMMA CallHistory ==
  ASSUME PInv, LogOK, HasHistory, session' = session,
         \/ Proving!commit_variable \/ Proving!multiply \/ Proving!allocate
         \/ Proving!allocate_multiplier \/ Proving!constrain
         \/ Proving!specify_randomized_constraints \/ Proving!challenge_scalar_call
  PROVE  LogOK' /\ HasHistory'
<1>1. PICK l : l = Len(transcript)
  OBVIOUS
<1>2. PICK s : s = Snapshot(l)
  OBVIOUS
<1>3. PICK t : t = Snapshot(l)'
  OBVIOUS
<1>4. phase # "proved" /\ phase' = phase /\ Len(a_R) = Len(a_L) /\ Len(a_O) = Len(a_L)
  BY DEF Proving!commit_variable, Proving!multiply, Proving!allocate,
     Proving!allocate_multiplier, Proving!constrain,
     Proving!specify_randomized_constraints, Proving!challenge_scalar_call,
     Proving!Calling, PInv, WiresOK
<1> USE DEF Proving!Calling, Proving!Returning, Proving!Call, Calls, Snapshot
<1>5. CASE Proving!multiply
  <2>1. Len(a_L') = Len(a_L) + 1
    BY <1>5, NewMultiplier DEF Proving!multiply
  <2>2. Multiplies(s, t)
    BY <1>2, <1>3, <1>4, <1>5, <2>1, SameCombinations
       DEF Proving!multiply, Proving!Lc, Multiplies, Multiplier
  <2>3. UNCHANGED <<transcript, v, v_blinding>>
    BY <1>5 DEF Proving!multiply
  <2> QED BY <1>1, <1>2, <1>3, <1>4, <2>2, <2>3, QuietCall
<1>6. CASE Proving!allocate
  <2>1. pending_multiplier = Proving!None => Len(a_L') = Len(a_L) + 1
    BY <1>6, NewMultiplier DEF Proving!allocate
  <2>2. Allocates(s, t)
    BY <1>2, <1>3, <1>4, <1>6, <2>1, SameCombinations DEF Proving!allocate, Allocates
  <2>3. UNCHANGED <<transcript, v, v_blinding>>
    BY <1>6 DEF Proving!allocate
  <2> QED BY <1>1, <1>2, <1>3, <1>4, <2>2, <2>3, QuietCall
<1>7. CASE Proving!allocate_multiplier
  <2>1. Len(a_L') = Len(a_L) + 1
    BY <1>7, NewMultiplier DEF Proving!allocate_multiplier
  <2>2. AllocatesMultiplier(s, t)
    BY <1>2, <1>3, <1>4, <1>7, <2>1, SameCombinations
       DEF Proving!allocate_multiplier, AllocatesMultiplier, Multiplier
  <2>3. UNCHANGED <<transcript, v, v_blinding>>
    BY <1>7 DEF Proving!allocate_multiplier
  <2> QED BY <1>1, <1>2, <1>3, <1>4, <2>2, <2>3, QuietCall
<1>8. CASE Proving!constrain
  <2>1. Constrains(s, t)
    BY <1>2, <1>3, <1>4, <1>8, SameCombinations DEF Proving!constrain, Proving!Lc, Constrains
  <2>2. UNCHANGED <<transcript, v, v_blinding>>
    BY <1>8 DEF Proving!constrain
  <2> QED BY <1>1, <1>2, <1>3, <1>4, <2>1, <2>2, QuietCall
<1>9. CASE Proving!specify_randomized_constraints
  <2>1. Defers(s, t)
    BY <1>2, <1>3, <1>4, <1>9, SameCombinations
       DEF Proving!specify_randomized_constraints, Defers, Stage
  <2>2. UNCHANGED <<transcript, v, v_blinding>>
    BY <1>9 DEF Proving!specify_randomized_constraints
  <2> QED BY <1>1, <1>2, <1>3, <1>4, <2>1, <2>2, QuietCall
<1>10. CASE Proving!commit_variable
  <2> DEFINE c == Proving!commit(Proving!Call.value, Proving!Call.blinding)
  <2>1. /\ transcript' = Append(transcript, <<"V", c>>) /\ "V" \notin FirstPhase
        /\ v' = Append(v, Proving!Call.value)
        /\ v_blinding' = Append(v_blinding, Proving!Call.blinding)
    BY <1>10 DEF Proving!commit_variable, Proving!Append1, FirstPhase
  <2>2. /\ IsSequence(v') /\ Len(v') = Len(v) + 1
        /\ \A i \in 1..Len(v) : v'[i] = v[i]
    BY <2>1, AppendIsSequence DEF PInv
  <2>3. /\ IsSequence(v_blinding') /\ Len(v_blinding') = Len(v_blinding) + 1
        /\ \A i \in 1..Len(v_blinding) : v_blinding'[i] = v_blinding[i]
    BY <2>1, AppendIsSequence DEF LogOK
  <2>4. /\ SentOnce' /\ IsSequence(transcript') /\ Extends(transcript, transcript')
        /\ Len(transcript') = l + 1 /\ Len(transcript') \in DOMAIN transcript'
        /\ transcript'[Len(transcript')] = <<"V", c>> /\ l \in Nat
    BY <1>1, <1>4, <2>1, OthersSent
  <2>5. LogOK'
    BY <1>4, <2>2, <2>3, <2>4 DEF LogOK, Extends
  <2>6. Len(v) \in Nat /\ DOMAIN v = 1..Len(v) /\ DOMAIN v' = 1..(Len(v) + 1)
    BY <2>2, SequenceDomain DEF PInv
  <2>7. Extends(Made, Made')
    <3>1. Len(v_blinding) = Len(v)
      BY DEF LogOK
    <3>2. ASSUME NEW i \in DOMAIN v
          PROVE  i \in DOMAIN v' /\ v'[i] = v[i] /\ v_blinding'[i] = v_blinding[i]
      BY <2>2, <2>3, <2>6, <3>1
    <3> QED BY <3>2 DEF Extends, Made
  <2>8. Made'[Len(v')] = c /\ Len(v') \in DOMAIN Made'
    <3>1. v'[Len(v')] = Proving!Call.value
      BY <2>1, <2>2 DEF PInv, IsSequence
    <3>2. v_blinding'[Len(v')] = Proving!Call.blinding
      <4>1. v_blinding'[Len(v_blinding) + 1] = Proving!Call.blinding
        BY <2>1, LastAppended DEF LogOK
      <4> QED BY <2>2, <4>1 DEF LogOK
    <3>3. Len(v') \in DOMAIN v'
      BY <2>2, <2>6
    <3> HIDE DEF c
    <3>4. c = commit(v'[Len(v')], v_blinding'[Len(v')])
      BY <3>1, <3>2, SameCommitment DEF c
    <3> QED BY <3>3, <3>4 DEF Made
  <2>9. PICK u : u = Snapshot(l + 1)'
    OBVIOUS
  <2> HIDE DEF c
  <2>10. Commits(s, u, transcript', Made')
    BY <1>2, <1>4, <1>10, <2>2, <2>4, <2>8, <2>9, SameCombinations
       DEF Proving!commit_variable, Commits, Stage
  <2>11. s.len = l /\ u.len = l + 1
    BY <1>2, <2>9
  <2>12. Followed(s, u, transcript', Made')
    BY <2>4, <2>10, <2>11 DEF Followed
  <2>13. HasHistory'
    BY <1>1, <1>2, <1>4, <2>4, <2>7, <2>9, <2>12, LongerHistory
  <2> QED BY <2>5, <2>13
<1>11. CASE Proving!challenge_scalar_call
  <2>1. transcript' = Append(transcript, <<"closure", challenge'>>)
        /\ UNCHANGED <<v, v_blinding>>
    BY <1>11 DEF Proving!challenge_scalar_call, Proving!Append1
  <2>2. PICK c : c = challenge'
    OBVIOUS
  <2>3. transcript' = Append(transcript, <<"closure", c>>) /\ "closure" \notin FirstPhase
    BY <2>1, <2>2 DEF FirstPhase
  <2>4. /\ SentOnce' /\ IsSequence(transcript') /\ Extends(transcript, transcript')
        /\ Len(transcript') = l + 1 /\ Len(transcript') \in DOMAIN transcript'
        /\ transcript'[Len(transcript')] = <<"closure", c>> /\ l \in Nat
    BY <1>1, <1>4, <2>3, OthersSent
  <2>5. LogOK'
    BY <1>4, <2>1, <2>4 DEF LogOK, Extends
  <2>6. Extends(Made, Made')
    BY <2>1 DEF Extends, Made
  <2>7. PICK u : u = Snapshot(l + 1)'
    OBVIOUS
  <2>8. Draws(s, u, transcript')
    BY <1>2, <1>4, <1>11, <2>2, <2>4, <2>7, SameCombinations
       DEF Proving!challenge_scalar_call, Draws, Stage
  <2>9. s.len = l /\ u.len = l + 1
    BY <1>2, <2>7
  <2>10. Followed(s, u, transcript', Made')
    BY <2>4, <2>8, <2>9 DEF Followed
  <2>11. HasHistory'
    BY <1>1, <1>2, <1>4, <2>4, <2>6, <2>7, <2>10, LongerHistory
  <2> QED BY <2>5, <2>11
<1> QED BY <1>5, <1>6, <1>7, <1>8, <1>9, <1>10, <1>11

LEMMA FirstPhaseHistory ==
  ASSUME PInv, LogOK, HasHistory, session' = session,
         Proving!CommitFirstPhase, ~(GensCapacity < Len(a_L))
  PROVE  LogOK' /\ HasHistory'
<1>1. PICK l : l = Len(transcript)
  OBVIOUS
<1>2. PICK s : s = Snapshot(l)
  OBVIOUS
<1>3. PICK A_I, A_O, S :
        transcript' = transcript \o
            <<<<"m", Len(v)>>, <<"A_I1", A_I>>, <<"A_O1", A_O>>, <<"S1", S>>,
              <<"dom-sep", Label(deferred_constraints)>>>>
  BY DEF Proving!CommitFirstPhase, Label
<1>4. /\ phase = "build" /\ phase' = "randomize" /\ calls = <<>> /\ n1' = Len(a_L)
      /\ calls' = InTurn(deferred_constraints) /\ deferred_constraints' = <<>>
      /\ pending_multiplier' = None
      /\ UNCHANGED <<a_L, a_R, a_O, v, v_blinding, constraints, returned, challenge>>
  BY SameCombinations DEF Proving!CommitFirstPhase
<1>5. /\ IsSequence(transcript') /\ Extends(transcript, transcript') /\ l \in Nat
      /\ Len(transcript') = l + 5 /\ DOMAIN transcript = 1..l
      /\ DOMAIN transcript' = 1..(l + 5)
      /\ transcript'[l + 1] = <<"m", Len(v)>> /\ transcript'[l + 2] = <<"A_I1", A_I>>
      /\ transcript'[l + 3] = <<"A_O1", A_O>> /\ transcript'[l + 4] = <<"S1", S>>
      /\ transcript'[l + 5] = <<"dom-sep", Label(deferred_constraints)>>
  <2>1. PICK a, b, c, d, e : /\ a = <<"m", Len(v)>> /\ b = <<"A_I1", A_I>>
                             /\ c = <<"A_O1", A_O>> /\ d = <<"S1", S>>
                             /\ e = <<"dom-sep", Label(deferred_constraints)>>
    OBVIOUS
  <2>2. transcript' = transcript \o <<a, b, c, d, e>>
    BY <1>3, <2>1
  <2>3. IsSequence(transcript)
    BY DEF LogOK
  <2>5. PICK q : q = <<a, b, c, d, e>>
    OBVIOUS
  <2>6. /\ IsSequence(q) /\ Len(q) = 5
        /\ q[1] = a /\ q[2] = b /\ q[3] = c /\ q[4] = d /\ q[5] = e
    BY <2>5, TuplesAreSequences
  <2>7. transcript' = transcript \o q
    BY <2>2, <2>5
  <2>4. /\ IsSequence(transcript') /\ Extends(transcript, transcript') /\ l \in Nat
        /\ Len(transcript') = l + 5 /\ DOMAIN transcript = 1..l
        /\ DOMAIN transcript' = 1..(l + 5)
        /\ transcript'[l + 1] = a /\ transcript'[l + 2] = b /\ transcript'[l + 3] = c
        /\ transcript'[l + 4] = d /\ transcript'[l + 5] = e
    BY <1>1, <2>3, <2>6, <2>7, FiveMore
  <2> QED BY <2>1, <2>4
<1>6. SentOnce'
  <2>1. /\ transcript'[l + 1][1] = "m" /\ transcript'[l + 2][1] = "A_I1"
        /\ transcript'[l + 3][1] = "A_O1" /\ transcript'[l + 4][1] = "S1"
        /\ transcript'[l + 5][1] = "dom-sep"
    BY <1>5, PairDomain
  <2>2. ASSUME NEW i \in 1..l PROVE transcript'[i][1] \notin FirstPhase
    BY <1>4, <1>5 DEF LogOK, SentOnce, Extends
  <2>3. ASSUME NEW i \in DOMAIN transcript', transcript'[i][1] \in FirstPhase
        PROVE  \/ i = l + 2 /\ transcript'[i][1] = "A_I1"
               \/ i = l + 3 /\ transcript'[i][1] = "A_O1"
               \/ i = l + 4 /\ transcript'[i][1] = "S1"
    BY <1>5, <2>1, <2>2, <2>3 DEF FirstPhase
  <2> QED BY <1>4, <2>3 DEF SentOnce
<1>7. LogOK'
  BY <1>4, <1>5, <1>6 DEF LogOK, Extends
<1>8. PICK u : u = Snapshot(l + 5)'
  OBVIOUS
<1>9. s.len = l /\ u.len = l + 5
  BY <1>2, <1>8 DEF Snapshot
<1>10. Randomizes(s, u, transcript')
  <2>1. /\ transcript'[l + 2] = <<"A_I1", transcript'[l + 2][2]>>
        /\ transcript'[l + 3] = <<"A_O1", transcript'[l + 3][2]>>
        /\ transcript'[l + 4] = <<"S1", transcript'[l + 4][2]>>
    BY <1>5, PairDomain
  <2>2. l + 1 .. l + 5 \subseteq DOMAIN transcript'
    BY <1>5
  <2> QED BY <1>2, <1>4, <1>5, <1>8, <1>9, <2>1, <2>2 DEF Snapshot, Randomizes, Stage
<1>11. Followed(s, u, transcript', Made')
  BY <1>5, <1>9, <1>10 DEF Followed
<1>12. Extends(Made, Made') /\ l + 5 \in DOMAIN transcript'
  BY <1>4, <1>5 DEF Extends, Made
<1>13. HasHistory'
  BY <1>1, <1>2, <1>4, <1>5, <1>8, <1>11, <1>12, LongerHistory
<1> QED BY <1>7, <1>13

\* Finishing appends to the transcript, and the proof repeats what was sent for
\* the first phase.
LEMMA FinishEffect ==
  ASSUME PInv, LogOK, Proving!Finish, phase' = "proved"
  PROVE  /\ phase = "randomize" /\ calls = <<>>
         /\ UNCHANGED <<calls, Proving!system, n1>>
         /\ IsSequence(transcript') /\ Extends(transcript, transcript')
         /\ IsSequence(proof'.ipp.L_vec)
         /\ \A label \in FirstPhase :
               proof'[label] =
                 transcript[CHOOSE k \in DOMAIN transcript : transcript[k][1] = label][2]
<1>1. /\ phase = "randomize" /\ calls = <<>> /\ UNCHANGED <<calls, Proving!system, n1>>
  BY DEF Proving!Finish
<1>2. PICK y, z, u, x, w :
        \E us \in [1..Proving!Rounds(Proving!n) -> Yields("u")] :
            Proving!Prove(y, z, u, x, w, us)
  BY <1>1 DEF Proving!Finish
<1>3. PICK us \in [1..Proving!Rounds(Proving!n) -> Yields("u")] :
        Proving!Prove(y, z, u, x, w, us)
  BY <1>2
<1>4. \A e1, e2, e3, e4, e5, e6, e7, e8, e9, e10, e11, e12, e13, e14, e15, e16 :
        LET more == <<e1, e2, e3, e4, e5, e6, e7, e8, e9, e10, e11, e12, e13, e14, e15, e16>>
        IN  IsSequence(transcript \o more) /\ Extends(transcript, transcript \o more)
  <2> TAKE e1, e2, e3, e4, e5, e6, e7, e8, e9, e10, e11, e12, e13, e14, e15, e16
  <2> DEFINE more == <<e1, e2, e3, e4, e5, e6, e7, e8, e9, e10, e11, e12, e13, e14, e15, e16>>
             S == {e1, e2, e3, e4, e5, e6, e7, e8, e9, e10, e11, e12, e13, e14, e15, e16}
  <2>1. more \in Seq(S)
    OBVIOUS
  <2>2. IsSequence(more)
    BY <2>1 DEF IsSequence
  <2> HIDE DEF more
  <2>3. IsSequence(transcript)
    BY DEF LogOK
  <2>4. PICK r : r = more
    OBVIOUS
  <2>5. IsSequence(transcript \o r) /\ Extends(transcript, transcript \o r)
    BY <2>2, <2>3, <2>4, ThenSequence
  <2> QED BY <2>4, <2>5 DEF more
<1>5. \E before, Q, vs :
        /\ IsSequence(before) /\ Extends(transcript, before)
        /\ transcript' = Proving!create(before, Q, vs, us).transcript
        /\ proof'.ipp = Proving!IPPProof(Proving!create(before, Q, vs, us))
  BY <1>3, <1>4 DEF Proving!Prove
<1>6. ASSUME NEW label \in FirstPhase
      PROVE  proof'[label] =
               transcript[CHOOSE k \in DOMAIN transcript : transcript[k][1] = label][2]
  <2>1. CASE label = "A_I1"
    BY <1>3, <2>1 DEF Proving!Prove
  <2>2. CASE label = "A_O1"
    BY <1>3, <2>2 DEF Proving!Prove
  <2>3. CASE label = "S1"
    BY <1>3, <2>3 DEF Proving!Prove
  <2> QED BY <2>1, <2>2, <2>3 DEF FirstPhase
<1>7. PICK before, Q, vs :
        /\ IsSequence(before) /\ Extends(transcript, before)
        /\ transcript' = Proving!create(before, Q, vs, us).transcript
        /\ proof'.ipp = Proving!IPPProof(Proving!create(before, Q, vs, us))
  BY <1>5
<1>8. Len(us) \in Nat
  <2>1. Proving!n \in Nat
    BY SequenceDomain DEF Proving!n, PInv, WiresOK
  <2>2. Proving!Rounds(Proving!n) \in Nat
    BY <2>1, RoundsType, SameArgument
  <2> QED BY <2>2
<1>9. PICK made : made = create(before, Q, vs, us)
  OBVIOUS
<1>10. /\ IsSequence(made.transcript) /\ Extends(before, made.transcript)
       /\ IsSequence(made.L_vec)
  BY <1>7, <1>8, <1>9, CreateAppends
<1>11. IsSequence(transcript') /\ Extends(transcript, transcript')
  BY <1>7, <1>9, <1>10, SameArgument DEF Extends
<1>12. IsSequence(proof'.ipp.L_vec)
  BY <1>7, <1>9, <1>10, SameArgument DEF IPPProof
<1> QED BY <1>1, <1>6, <1>11, <1>12

LEMMA FinishHistory ==
  ASSUME PInv, LogOK, HasHistory, session' = session, Proving!Finish, phase' = "proved"
  PROVE  LogOK' /\ HasHistory'
<1>1. PICK m \in Nat : \E h, len : History(h, m, len)
  BY DEF HasHistory
<1>2. PICK h, len : History(h, m, len)
  BY <1>1
<1>3. /\ phase = "randomize" /\ calls = <<>>
      /\ IsSequence(transcript') /\ Extends(transcript, transcript')
      /\ IsSequence(proof'.ipp.L_vec)
      /\ UNCHANGED <<calls, Proving!system, n1>>
  BY FinishEffect
<1>4. UNCHANGED <<calls, a_L, v, v_blinding, constraints, deferred_constraints,
                  pending_multiplier, returned, challenge, n1>>
  BY <1>3 DEF Proving!system
<1>5. SentOnce'
  BY DEF SentOnce
<1>6. LogOK'
  BY <1>3, <1>4, <1>5 DEF LogOK, Extends
<1>7. h[0] = Start /\ h[m] = Snapshot(len) /\ len \in DOMAIN transcript
  BY <1>2 DEF History
<1>8. DOMAIN transcript = 1..Len(transcript) /\ Len(transcript) \in Nat
      /\ \A i \in 1..len : i \in DOMAIN transcript /\ transcript'[i] = transcript[i]
  <2>1. DOMAIN transcript = 1..Len(transcript) /\ Len(transcript) \in Nat
    BY SequenceDomain DEF LogOK
  <2>2. \A i \in 1..len : i \in DOMAIN transcript
    BY <1>7, <2>1
  <2> QED BY <1>3, <2>1, <2>2 DEF Extends
<1>9. Snapshot(len)' = Snapshot(len) /\ Start' = Start /\ Made' = Made
  BY <1>3, <1>4 DEF Snapshot, Stage, Start, Made
<1>10. Told(len)' = Told(len)
  BY <1>8 DEF Told
<1>11. ASSUME NEW i \in 1..len, transcript'[i][1] \in FirstPhase
       PROVE  transcript'[i][2] = proof'[transcript'[i][1]]
  <2>1. PICK label : label = transcript[i][1]
    OBVIOUS
  <2>2. i \in DOMAIN transcript /\ transcript'[i] = transcript[i] /\ label \in FirstPhase
    BY <1>8, <1>11, <2>1
  <2>3. \A k \in DOMAIN transcript : transcript[k][1] = label => k = i
    BY <1>3, <2>1, <2>2 DEF LogOK, SentOnce
  <2>4. (CHOOSE k \in DOMAIN transcript : transcript[k][1] = label) = i
    BY <2>1, <2>2, <2>3
  <2>5. proof'[label] = transcript[i][2]
    BY <2>2, <2>4, FinishEffect
  <2> QED BY <2>1, <2>2, <2>5
<1>12. len \in DOMAIN transcript'
  BY <1>3, <1>7 DEF Extends
<1>13. \A k \in 0..(m - 1) : Followed(h[k], h[k + 1], Told(len)', Made')
  BY <1>2, <1>9, <1>10 DEF History
<1>14. History(h, m, len)'
  BY <1>7, <1>9, <1>11, <1>12, <1>13 DEF History
<1> QED BY <1>6, <1>14 DEF HasHistory

\* Nothing the history is about.
LEMMA SameHistory ==
  ASSUME UNCHANGED <<session, calls, phase, a_L, v, v_blinding, constraints,
                     deferred_constraints, pending_multiplier, returned, challenge,
                     transcript, n1, proof>>
  PROVE  /\ LogOK => LogOK'
         /\ \A h, m, len : History(h, m, len) => History(h, m, len)'
         /\ HasHistory => HasHistory'
<1>1. LogOK => LogOK'
  BY DEF LogOK, SentOnce
<1>2. ASSUME NEW h, NEW m, NEW len, History(h, m, len) PROVE History(h, m, len)'
  <2>1. /\ Snapshot(len)' = Snapshot(len) /\ Start' = Start /\ Made' = Made
        /\ Told(len)' = Told(len)
    BY DEF Snapshot, Start, Made, Told
  <2> QED BY <1>2, <2>1 DEF History
<1> QED BY <1>1, <1>2 DEF HasHistory

LEMMA ProverHistory ==
  ASSUME PInv, LogOK, HasHistory, [Next]_vars
  PROVE  LogOK' /\ HasHistory'
<1>1. CASE Proving!Next /\ session' = session
  <2>1. CASE Proving!MissingAssignment
    BY <1>1, <2>1, SameHistory DEF Proving!MissingAssignment, Proving!system
  <2>2. CASE Proving!CommitFirstPhase
    <3>1. CASE GensCapacity < Len(a_L)
      BY <1>1, <2>2, <3>1, SameHistory DEF Proving!CommitFirstPhase
    <3>2. CASE ~(GensCapacity < Len(a_L))
      BY <1>1, <2>2, <3>2, FirstPhaseHistory
    <3> QED BY <3>1, <3>2
  <2>3. CASE Proving!Finish
    <3>1. CASE phase' = "proved"
      BY <1>1, <2>3, <3>1, FinishHistory
    <3>2. CASE phase' # "proved"
      BY <1>1, <2>3, <3>2, SameHistory DEF Proving!Finish, Proving!system
    <3> QED BY <3>1, <3>2
  <2> QED BY <1>1, <2>1, <2>2, <2>3, CallHistory DEF Proving!Next
<1>2. CASE UNCHANGED <<session, proverVars>>
  BY <1>2, SameHistory DEF proverVars
<1> QED BY <1>1, <1>2 DEF Next, Deliver, Ended, vars

-----------------------------------------------------------------------------
(* What the verifier receives.                                             *)

\* The message tells the transcript, the commitments and the first phase.
Received ==
    /\ message.transcript = transcript /\ message.V = Made
    /\ \A label \in FirstPhase : message.proof[label] = proof[label]

\* A proof comes out of its bytes with the points of the first phase it had.
LEMMA Transported ==
  ASSUME LogOK, phase = "proved"
  PROVE  \A label \in FirstPhase : Decode(Encode(proof))[label] = proof[label]
<1>1. PICK a : a = <<proof.A_I1, proof.A_O1, proof.S1>>
  OBVIOUS
<1>2. PICK b : b = IF missing_phase2_commitments(proof) THEN <<>>
                   ELSE <<proof.A_I2, proof.A_O2, proof.S2>>
  OBVIOUS
<1>3. PICK c : c = <<proof.T_1, proof.T_3, proof.T_4, proof.T_5, proof.T_6,
                     proof.t_x, proof.t_x_blinding, proof.e_blinding>>
  OBVIOUS
<1>4. PICK d : d = to_bytes(proof.ipp)
  OBVIOUS
<1>5. /\ IsSequence(a) /\ Len(a) = 3
      /\ a[1] = proof.A_I1 /\ a[2] = proof.A_O1 /\ a[3] = proof.S1
  BY <1>1, TuplesAreSequences
<1>6. IsSequence(b)
  <2>1. <<>> \in Seq({})
    OBVIOUS
  <2> QED BY <1>2, <2>1, TuplesAreSequences DEF IsSequence
<1>7. IsSequence(c)
  BY <1>3, TuplesAreSequences
<1>8. IsSequence(d)
  <2> DEFINE k == Len(proof.ipp.L_vec)
             Cross(i) == IF i % 2 = 1 THEN proof.ipp.L_vec[(i + 1) \div 2]
                         ELSE proof.ipp.R_vec[i \div 2]
             S == {Cross(i) : i \in 1 .. 2 * k}
  <2>1. 2 * k \in Nat
    <3>1. IsSequence(proof.ipp.L_vec)
      BY DEF LogOK
    <3>2. k \in Nat
      BY <3>1, LenOfSequence
    <3> HIDE DEF k
    <3> QED BY <3>2
  <2>2. PICK f : f = [i \in 1 .. 2 * k |-> Cross(i)]
    OBVIOUS
  <2>3. f \in [1 .. 2 * k -> S]
    <3> HIDE DEF Cross, k
    <3> QED BY <2>2
  <2>4. IsSequence(f)
    <3> HIDE DEF S, k
    <3>1. f \in Seq(S)
      BY <2>1, <2>3
    <3> QED BY <3>1 DEF IsSequence
  <2>5. PICK e : e = <<proof.ipp.a, proof.ipp.b>>
    OBVIOUS
  <2>6. IsSequence(e)
    BY <2>5, TuplesAreSequences
  <2>7. d = f \o e
    BY <1>4, <2>2, <2>5 DEF to_bytes
  <2> HIDE DEF S, k, Cross
  <2> QED BY <2>4, <2>6, <2>7, ThenSequence
<1>9. PICK all : all = a \o b \o c \o d
  OBVIOUS
<1>10. all[1] = a[1] /\ all[2] = a[2] /\ all[3] = a[3]
  <2>1. IsSequence(a \o b) /\ Extends(a, a \o b)
    BY <1>5, <1>6, ThenSequence
  <2>2. IsSequence((a \o b) \o c) /\ Extends(a \o b, (a \o b) \o c)
    BY <1>7, <2>1, ThenSequence
  <2>3. Extends((a \o b) \o c, ((a \o b) \o c) \o d)
    BY <1>8, <2>2, ThenSequence
  <2>4. Extends(a, all)
    BY <1>9, <2>1, <2>2, <2>3 DEF Extends
  <2>5. {1, 2, 3} \subseteq DOMAIN a
    BY <1>5, SequenceDomain
  <2> QED BY <2>4, <2>5 DEF Extends
<1>11. Encode(proof).elements = all
  BY <1>1, <1>2, <1>3, <1>4, <1>9 DEF Encode
<1>12. /\ Decode(Encode(proof)).A_I1 = proof.A_I1
       /\ Decode(Encode(proof)).A_O1 = proof.A_O1
       /\ Decode(Encode(proof)).S1 = proof.S1
  BY <1>5, <1>10, <1>11 DEF Decode
<1> QED BY <1>12 DEF FirstPhase

LEMMA DeliverReceives ==
  ASSUME LogOK, Deliver, Unaltered, message' # <<>>
  PROVE  Received'
<1>1. PICK slice : slice = Encode(proof)
  OBVIOUS
<1>2. AlteredBytes(slice, session.altered) = slice
  BY <1>1 DEF AlteredBytes, Unaltered, Encode, TWO_PHASE_COMMITMENTS,
     ONE_PHASE_COMMITMENTS
<1>3. message' = [V |-> Commitments, proof |-> Decode(slice), transcript |-> transcript]
  BY <1>1, <1>2 DEF Deliver
<1>4. Commitments = Made
  BY DEF Commitments, Made, Unaltered
<1>5. phase = "proved" /\ UNCHANGED <<transcript, proof, v, v_blinding>>
  BY DEF Deliver, proverVars
<1>6. \A label \in FirstPhase : Decode(slice)[label] = proof[label]
  BY <1>1, <1>5, Transported
<1>7. message'.proof = Decode(slice) /\ message'.V = Made /\ message'.transcript = transcript
  BY <1>3, <1>4
<1> QED BY <1>5, <1>6, <1>7 DEF Received, Made

-----------------------------------------------------------------------------
(* The verifier's way along the prover's.                                  *)

\* The verifier's system is in state s, and what it was told so far is what the
\* prover was.
VAt(s) ==
    /\ vcalls = s.todo /\ Stage(vphase) = s.stage
    /\ IsSequence(V) /\ Len(V) = s.committed
    /\ num_vars = s.multipliers /\ vpending = s.pending
    /\ vconstraints = s.constraints /\ vdeferred = s.deferred
    /\ vreturned = s.returned /\ vchallenge = s.challenge /\ vn1 = s.first

VTold(s) == vtranscript = Told(s.len)

VStart ==
    /\ vcalls = session.vgadget /\ vphase = "build"
    /\ vtranscript = <<<<"public", session.vpublic>>, <<"dom-sep", "r1cs v1">>>>
    /\ num_vars = 0 /\ V = <<>> /\ vconstraints = <<>> /\ vdeferred = <<>>
    /\ vpending = None /\ vreturned = <<>> /\ vchallenge = 1 /\ vn1 = 0

\* Of the m steps of the history h the verifier has taken some, and all when it
\* has verified.
VerifierAt(h, m) ==
    \E k \in 0..m :
        /\ VAt(h[k])
        /\ vphase # "verified" => VTold(h[k])
        /\ vphase = "verified" => k = m

\* One entry more, and the five of the first phase.
LEMMA ToldMore ==
  ASSUME LogOK, NEW n \in Nat
  PROVE  /\ n + 1 \in DOMAIN transcript =>
                /\ IsSequence(Told(n)) /\ Len(Told(n)) = n /\ n + 1 <= Len(transcript)
                /\ SubSeq(transcript, 1, n) = Told(n)
                /\ Append(Told(n), transcript[n + 1]) = Told(n + 1)
         /\ n + 1 .. n + 5 \subseteq DOMAIN transcript =>
                Told(n) \o <<transcript[n + 1], transcript[n + 2], transcript[n + 3],
                             transcript[n + 4], transcript[n + 5]>> = Told(n + 5)
<1>1. DOMAIN transcript = 1..Len(transcript) /\ Len(transcript) \in Nat
      /\ IsSequence(transcript)
  BY SequenceDomain DEF LogOK
<1>2. PICK p : p = Told(n)
  OBVIOUS
<1>3. ASSUME n <= Len(transcript)
      PROVE  /\ IsSequence(p) /\ Len(p) = n /\ SubSeq(transcript, 1, n) = p
             /\ \A q : IsSequence(q) /\ n + Len(q) <= Len(transcript)
                       /\ (\A i \in 1..Len(q) : q[i] = transcript[n + i])
                     => p \o q = Told(n + Len(q))
  <2>1. n \in 0..Len(transcript) /\ p = [i \in 1..n |-> transcript[i]]
    BY <1>1, <1>2, <1>3 DEF Told
  <2> QED BY <1>1, <2>1, Prefix DEF Told
<1>4. ASSUME n + 1 \in DOMAIN transcript
      PROVE  /\ IsSequence(p) /\ Len(p) = n /\ n + 1 <= Len(transcript)
             /\ SubSeq(transcript, 1, n) = p
             /\ Append(p, transcript[n + 1]) = Told(n + 1)
  <2>1. n <= Len(transcript) /\ n + 1 <= Len(transcript)
    BY <1>1, <1>4
  <2>2. PICK e : e = transcript[n + 1]
    OBVIOUS
  <2>3. PICK q : q = <<e>>
    OBVIOUS
  <2>4. IsSequence(q) /\ Len(q) = 1 /\ q[1] = e
    <3>1. q \in Seq({e})
      BY <2>3
    <3> QED BY <2>3, <3>1 DEF IsSequence
  <2>5. p \o q = Told(n + 1)
    <3>1. \A i \in 1..Len(q) : q[i] = transcript[n + i]
      BY <2>2, <2>4
    <3>2. p \o q = Told(n + Len(q))
      BY <1>3, <2>1, <2>4, <3>1
    <3> QED BY <2>4, <3>2
  <2>6. Append(p, e) = p \o q
    <3>1. PICK S : p \in Seq(S)
      BY <1>3, <2>1 DEF IsSequence
    <3> QED BY <2>3, <3>1
  <2> QED BY <1>3, <2>1, <2>2, <2>5, <2>6
<1>5. ASSUME n + 1 .. n + 5 \subseteq DOMAIN transcript
      PROVE  p \o <<transcript[n + 1], transcript[n + 2], transcript[n + 3],
                    transcript[n + 4], transcript[n + 5]>> = Told(n + 5)
  <2>1. PICK q : q = <<transcript[n + 1], transcript[n + 2], transcript[n + 3],
                       transcript[n + 4], transcript[n + 5]>>
    OBVIOUS
  <2>2. /\ IsSequence(q) /\ Len(q) = 5
        /\ q[1] = transcript[n + 1] /\ q[2] = transcript[n + 2]
        /\ q[3] = transcript[n + 3] /\ q[4] = transcript[n + 4]
        /\ q[5] = transcript[n + 5]
    BY <2>1, TuplesAreSequences
  <2>3. n + 5 <= Len(transcript)
    <3>1. n + 5 \in DOMAIN transcript
      BY <1>5
    <3> QED BY <1>1, <3>1
  <2>4. \A i \in 1..Len(q) : q[i] = transcript[n + i]
    BY <2>2
  <2>5. p \o q = Told(n + 5)
    <3>1. n <= Len(transcript) /\ n + Len(q) <= Len(transcript)
      BY <1>1, <2>2, <2>3
    <3>2. p \o q = Told(n + Len(q))
      BY <1>3, <2>2, <2>4, <3>1
    <3> QED BY <2>2, <3>2
  <2> QED BY <2>1, <2>5
<1> QED BY <1>2, <1>4, <1>5

\* What the verifier is about to do is what comes next in the history.
LEMMA CallAlong ==
  ASSUME LogOK, Received, UNCHANGED proverVars,
         NEW len, len \in DOMAIN transcript,
         NEW s, NEW t, Followed(s, t, Told(len), Made), VAt(s), VTold(s),
         \/ Verifying!commit_variable \/ Verifying!multiply \/ Verifying!allocate
         \/ Verifying!allocate_multiplier \/ Verifying!constrain
         \/ Verifying!specify_randomized_constraints \/ Verifying!challenge_scalar_call
  PROVE  VAt(t)' /\ VTold(t)' /\ vphase' # "verified"
<1>1. vphase' = vphase /\ vphase # "verified" /\ vn1' = vn1 /\ vcalls # <<>>
      /\ vcalls' = Tail(vcalls)
  BY DEF Verifying!commit_variable, Verifying!multiply, Verifying!allocate,
     Verifying!allocate_multiplier, Verifying!constrain,
     Verifying!specify_randomized_constraints, Verifying!challenge_scalar_call,
     Verifying!Calling
<1>2. transcript' = transcript /\ \A n : Told(n)' = Told(n)
  BY DEF proverVars, Told
<1>3. s.todo # <<>> /\ vcalls = s.todo /\ Verifying!Call = Head(s.todo)
  BY <1>1 DEF VAt, Verifying!Call
<1>4. DOMAIN transcript = 1..Len(transcript) /\ Len(transcript) \in Nat /\ s.len \in Nat
      /\ \A i \in DOMAIN Told(len) : i \in DOMAIN transcript /\ Told(len)[i] = transcript[i]
  <2>1. DOMAIN transcript = 1..Len(transcript) /\ Len(transcript) \in Nat
    BY SequenceDomain DEF LogOK
  <2> QED BY <2>1 DEF Told, Followed
<1> USE DEF Verifying!Calling, Verifying!Returning, Calls
<1>5. CASE Verifying!multiply
  <2>1. Multiplies(s, t)
    BY <1>3, <1>5 DEF Verifying!multiply, Followed, Commits, Allocates,
       AllocatesMultiplier, Constrains, Defers, Draws, Randomizes
  <2>2. VAt(t)'
    BY <1>1, <1>3, <1>5, <2>1, SameCombinations
       DEF Verifying!multiply, Verifying!Lc, Multiplies, VAt
  <2> QED BY <1>1, <1>2, <1>5, <2>1, <2>2 DEF Verifying!multiply, Multiplies, VTold
<1>6. CASE Verifying!allocate
  <2>1. Allocates(s, t)
    BY <1>3, <1>6 DEF Verifying!allocate, Followed, Commits, Multiplies,
       AllocatesMultiplier, Constrains, Defers, Draws, Randomizes
  <2>2. VAt(t)'
    BY <1>1, <1>3, <1>6, <2>1, SameCombinations DEF Verifying!allocate, Allocates, VAt
  <2> QED BY <1>1, <1>2, <1>6, <2>1, <2>2 DEF Verifying!allocate, Allocates, VTold
<1>7. CASE Verifying!allocate_multiplier
  <2>1. AllocatesMultiplier(s, t)
    BY <1>3, <1>7 DEF Verifying!allocate_multiplier, Followed, Commits, Multiplies,
       Allocates, Constrains, Defers, Draws, Randomizes
  <2>2. VAt(t)'
    BY <1>1, <1>3, <1>7, <2>1, SameCombinations
       DEF Verifying!allocate_multiplier, AllocatesMultiplier, VAt
  <2> QED
    BY <1>1, <1>2, <1>7, <2>1, <2>2
       DEF Verifying!allocate_multiplier, AllocatesMultiplier, VTold
<1>8. CASE Verifying!constrain
  <2>1. Constrains(s, t)
    BY <1>3, <1>8 DEF Verifying!constrain, Followed, Commits, Multiplies, Allocates,
       AllocatesMultiplier, Defers, Draws, Randomizes
  <2>2. VAt(t)'
    BY <1>1, <1>3, <1>8, <2>1, SameCombinations
       DEF Verifying!constrain, Verifying!Lc, Constrains, VAt
  <2> QED BY <1>1, <1>2, <1>8, <2>1, <2>2 DEF Verifying!constrain, Constrains, VTold
<1>9. CASE Verifying!specify_randomized_constraints
  <2>1. Defers(s, t)
    BY <1>3, <1>9 DEF Verifying!specify_randomized_constraints, Followed, Commits,
       Multiplies, Allocates, AllocatesMultiplier, Constrains, Draws, Randomizes
  <2>2. VAt(t)'
    BY <1>1, <1>3, <1>9, <2>1, SameCombinations
       DEF Verifying!specify_randomized_constraints, Defers, VAt
  <2> QED
    BY <1>1, <1>2, <1>9, <2>1, <2>2
       DEF Verifying!specify_randomized_constraints, Defers, VTold
<1>10. CASE Verifying!commit_variable
  <2>1. Commits(s, t, Told(len), Made)
    BY <1>3, <1>10 DEF Verifying!commit_variable, Followed, Multiplies, Allocates,
       AllocatesMultiplier, Constrains, Defers, Draws, Randomizes
  <2>2. PICK e : e = Made[t.committed]
    OBVIOUS
  <2>3. /\ V' = Append(V, e) /\ vtranscript' = Append(vtranscript, <<"V", e>>)
        /\ t.committed = Len(V) + 1
    BY <1>10, <2>1, <2>2 DEF Verifying!commit_variable, Verifying!Append1, Received,
       Commits, VAt
  <2>4. IsSequence(V') /\ Len(V') = t.committed
    BY <2>3, AppendIsSequence DEF VAt
  <2>5. VAt(t)'
    BY <1>1, <1>3, <1>10, <2>1, <2>4, SameCombinations
       DEF Verifying!commit_variable, Commits, VAt
  <2>6. t.len = s.len + 1 /\ s.len + 1 \in DOMAIN transcript
        /\ transcript[s.len + 1] = <<"V", e>>
    BY <1>4, <2>1, <2>2 DEF Commits
  <2>7. vtranscript' = Told(t.len)
    BY <1>4, <2>3, <2>6, ToldMore DEF VTold
  <2> QED BY <1>1, <1>2, <2>5, <2>7 DEF VTold
<1>11. CASE Verifying!challenge_scalar_call
  <2>1. Draws(s, t, Told(len))
    BY <1>3, <1>11 DEF Verifying!challenge_scalar_call, Followed, Commits,
       Multiplies, Allocates, AllocatesMultiplier, Constrains, Defers, Randomizes
  <2>2. t.len = s.len + 1 /\ s.len + 1 \in DOMAIN transcript
        /\ transcript[s.len + 1] = <<"closure", t.challenge>>
    BY <1>4, <2>1 DEF Draws
  <2>3. /\ Len(Told(s.len)) = s.len /\ s.len + 1 <= Len(transcript)
        /\ SubSeq(transcript, 1, s.len) = Told(s.len)
        /\ Append(Told(s.len), transcript[s.len + 1]) = Told(s.len + 1)
    BY <1>4, <2>2, ToldMore
  <2>4. vchallenge' = t.challenge
    <3>1. vchallenge' = Verifying!challenge_scalar(Told(s.len), transcript, Unrelated,
                                                   "closure")
      BY <1>11 DEF Verifying!challenge_scalar_call, Verifying!Challenge, Received, VTold
    <3>2. transcript[s.len + 1][1] = "closure" /\ transcript[s.len + 1][2] = t.challenge
      BY <2>2, PairDomain
    <3>3. (s.len + 1) - 1 = s.len
      BY <1>4
    <3> QED BY <2>3, <3>1, <3>2, <3>3 DEF Verifying!challenge_scalar
  <2>5. vtranscript' = Append(vtranscript, <<"closure", vchallenge'>>)
    BY <1>11 DEF Verifying!challenge_scalar_call, Verifying!Append1
  <2>6. vtranscript' = Told(t.len)
    BY <2>2, <2>3, <2>4, <2>5 DEF VTold
  <2>7. VAt(t)'
    BY <1>1, <1>3, <1>11, <2>1, <2>4, SameCombinations
       DEF Verifying!challenge_scalar_call, Draws, VAt
  <2> QED BY <1>1, <1>2, <2>6, <2>7 DEF VTold
<1> QED BY <1>5, <1>6, <1>7, <1>8, <1>9, <1>10, <1>11

LEMMA ReplayAlong ==
  ASSUME LogOK, Received, UNCHANGED proverVars,
         NEW len, len \in DOMAIN transcript,
         \A i \in 1..len : transcript[i][1] \in FirstPhase =>
             transcript[i][2] = proof[transcript[i][1]],
         NEW s, NEW t, Followed(s, t, Told(len), Made), VAt(s), VTold(s),
         Verifying!ReplayFirstPhase, vphase' # "build"
  PROVE  VAt(t)' /\ VTold(t)' /\ vphase' # "verified"
<1>1. /\ vphase = "build" /\ vphase' = "randomize" /\ vcalls = <<>>
      /\ vn1' = num_vars /\ vpending' = None /\ vcalls' = InTurn(vdeferred)
      /\ vdeferred' = <<>>
      /\ UNCHANGED <<num_vars, V, vconstraints, vreturned, vchallenge>>
      /\ vtranscript' = vtranscript \o
            <<<<"m", Len(V)>>, <<"A_I1", message.proof["A_I1"]>>,
              <<"A_O1", message.proof["A_O1"]>>, <<"S1", message.proof["S1"]>>,
              <<"dom-sep", Label(vdeferred)>>>>
  BY SameCombinations DEF Verifying!ReplayFirstPhase, Verifying!Reject, Label
<1>2. Randomizes(s, t, Told(len))
  BY <1>1 DEF VAt, Followed, Calls, Commits, Multiplies, Allocates,
     AllocatesMultiplier, Constrains, Defers, Draws
<1>3. /\ s.len \in Nat /\ t.len = s.len + 5
      /\ \A i \in s.len + 1 .. s.len + 5 :
            i \in DOMAIN transcript /\ i \in 1..len /\ Told(len)[i] = transcript[i]
  <2>1. DOMAIN transcript = 1..Len(transcript) /\ Len(transcript) \in Nat
    BY SequenceDomain DEF LogOK
  <2>2. DOMAIN Told(len) = 1..len /\ \A i \in 1..len : Told(len)[i] = transcript[i]
    BY DEF Told
  <2>3. s.len \in Nat /\ t.len = s.len + 5
        /\ \A i \in s.len + 1 .. s.len + 5 : i \in DOMAIN Told(len)
    BY <1>2 DEF Followed, Randomizes
  <2> QED BY <2>1, <2>2, <2>3
<1>4. /\ transcript[s.len + 1] = <<"m", Len(V)>>
      /\ transcript[s.len + 2] = <<"A_I1", transcript[s.len + 2][2]>>
      /\ transcript[s.len + 3] = <<"A_O1", transcript[s.len + 3][2]>>
      /\ transcript[s.len + 4] = <<"S1", transcript[s.len + 4][2]>>
      /\ transcript[s.len + 5] = <<"dom-sep", Label(vdeferred)>>
  <2>1. /\ Told(len)[s.len + 1] = transcript[s.len + 1]
        /\ Told(len)[s.len + 2] = transcript[s.len + 2]
        /\ Told(len)[s.len + 3] = transcript[s.len + 3]
        /\ Told(len)[s.len + 4] = transcript[s.len + 4]
        /\ Told(len)[s.len + 5] = transcript[s.len + 5]
    BY <1>3
  <2> QED BY <1>2, <2>1 DEF Randomizes, VAt
<1>5. /\ transcript[s.len + 2] = <<"A_I1", proof["A_I1"]>>
      /\ transcript[s.len + 3] = <<"A_O1", proof["A_O1"]>>
      /\ transcript[s.len + 4] = <<"S1", proof["S1"]>>
  <2>1. /\ transcript[s.len + 2][1] = "A_I1" /\ transcript[s.len + 3][1] = "A_O1"
        /\ transcript[s.len + 4][1] = "S1"
    BY <1>4, PairDomain
  <2>2. /\ s.len + 2 \in 1..len /\ s.len + 3 \in 1..len /\ s.len + 4 \in 1..len
    BY <1>3
  <2>3. /\ transcript[s.len + 2][2] = proof["A_I1"]
        /\ transcript[s.len + 3][2] = proof["A_O1"]
        /\ transcript[s.len + 4][2] = proof["S1"]
    BY <2>1, <2>2 DEF FirstPhase
  <2> QED BY <1>4, <2>3
<1>6. /\ message.proof["A_I1"] = proof["A_I1"] /\ message.proof["A_O1"] = proof["A_O1"]
      /\ message.proof["S1"] = proof["S1"]
  BY DEF Received, FirstPhase
<1>7. vtranscript' = Told(s.len) \o
        <<transcript[s.len + 1], transcript[s.len + 2], transcript[s.len + 3],
          transcript[s.len + 4], transcript[s.len + 5]>>
  BY <1>1, <1>4, <1>5, <1>6 DEF VTold
<1>8. vtranscript' = Told(t.len)
  <2>1. s.len + 1 .. s.len + 5 \subseteq DOMAIN transcript
    BY <1>3
  <2> QED BY <1>3, <1>7, <2>1, ToldMore
<1>9. VTold(t)'
  BY <1>8 DEF VTold, Told, proverVars
<1>10. VAt(t)'
  BY <1>1, <1>2 DEF VAt, Randomizes, Stage
<1> QED BY <1>1, <1>9, <1>10

\* When the verifier has not come to the end of the history it takes the step
\* that is next in it, or stays; at the end it can only verify.
LEMMA VerifierAlong ==
  ASSUME LogOK, Received, phase = "proved", UNCHANGED <<session, proverVars>>,
         Verifying!Next, NEW m \in Nat, NEW h, NEW len, History(h, m, len),
         VerifierAt(h, m)
  PROVE  VerifierAt(h, m)'
<1>1. PICK k \in 0..m : /\ VAt(h[k])
                        /\ vphase # "verified" => VTold(h[k])
                        /\ vphase = "verified" => k = m
  BY DEF VerifierAt
<1>2. /\ len \in DOMAIN transcript /\ h[m] = Snapshot(len)
      /\ \A i \in 0..(m - 1) : Followed(h[i], h[i + 1], Told(len), Made)
      /\ \A i \in 1..len : transcript[i][1] \in FirstPhase =>
            transcript[i][2] = proof[transcript[i][1]]
  BY DEF History
<1>3. k = m => vcalls = <<>> /\ vphase # "build"
  <2>1. Snapshot(len).todo = <<>> /\ Snapshot(len).stage = "randomize"
    BY DEF LogOK, Snapshot, Stage
  <2> QED BY <1>1, <1>2, <2>1 DEF VAt, Stage
<1> DEFINE call == \/ Verifying!commit_variable \/ Verifying!multiply
                   \/ Verifying!allocate \/ Verifying!allocate_multiplier
                   \/ Verifying!constrain
                   \/ Verifying!specify_randomized_constraints
                   \/ Verifying!challenge_scalar_call
<1>4. CASE call \/ (Verifying!ReplayFirstPhase /\ vphase' # "build")
  <2>1. vphase # "verified" /\ k # m
    BY <1>3, <1>4 DEF Verifying!commit_variable, Verifying!multiply,
       Verifying!allocate, Verifying!allocate_multiplier, Verifying!constrain,
       Verifying!specify_randomized_constraints, Verifying!challenge_scalar_call,
       Verifying!Calling, Verifying!ReplayFirstPhase
  <2>2. k \in 0..(m - 1) /\ k + 1 \in 0..m
    BY <2>1
  <2>3. PICK s, t : s = h[k] /\ t = h[k + 1]
    OBVIOUS
  <2>4. Followed(s, t, Told(len), Made) /\ VAt(s) /\ VTold(s)
    BY <1>1, <1>2, <2>1, <2>2, <2>3
  <2>5. VAt(t)' /\ VTold(t)' /\ vphase' # "verified"
    <3>1. CASE call
      BY <1>2, <2>4, <3>1, CallAlong
    <3>2. CASE Verifying!ReplayFirstPhase /\ vphase' # "build"
      BY <1>2, <2>4, <3>2, ReplayAlong
    <3> QED BY <1>4, <3>1, <3>2
  <2> QED BY <2>2, <2>3, <2>5 DEF VerifierAt
<1>5. CASE Verifying!ReplayFirstPhase /\ vphase' = "build"
  <2>1. /\ vphase = "build"
        /\ UNCHANGED <<vcalls, vphase, num_vars, V, vconstraints, vdeferred, vpending,
                       vreturned, vchallenge, vtranscript, vn1>>
    BY <1>5 DEF Verifying!ReplayFirstPhase, Verifying!Reject
  <2>2. VAt(h[k])' /\ VTold(h[k])'
    BY <1>1, <2>1 DEF VAt, VTold, Told, proverVars
  <2> QED BY <1>1, <2>1, <2>2 DEF VerifierAt
<1>6. CASE Verifying!Verify
  <2>1. /\ vphase = "randomize" /\ vcalls = <<>> /\ vphase' = "verified"
        /\ UNCHANGED <<vcalls, num_vars, V, vconstraints, vdeferred, vpending,
                       vreturned, vchallenge, vn1>>
    BY <1>6 DEF Verifying!Verify, Verifying!vsystem
  <2>2. k = m
    <3> SUFFICES ASSUME k # m PROVE FALSE
      OBVIOUS
    <3>1. k \in 0..(m - 1)
      OBVIOUS
    <3>2. PICK s, t : s = h[k] /\ t = h[k + 1]
      OBVIOUS
    <3>3. Followed(s, t, Told(len), Made) /\ s.todo = <<>> /\ s.stage = "randomize"
      BY <1>1, <1>2, <2>1, <3>1, <3>2 DEF VAt, Stage
    <3> QED
      BY <3>3 DEF Followed, Calls, Commits, Multiplies, Allocates,
         AllocatesMultiplier, Constrains, Defers, Draws, Randomizes
  <2>3. VAt(h[k])'
    BY <1>1, <2>1 DEF VAt, Stage
  <2> QED BY <1>1, <2>1, <2>2, <2>3 DEF VerifierAt
<1> QED BY <1>4, <1>5, <1>6 DEF Verifying!Next

\* The verifier starts with the message; from then on the prover is done, and
\* the verifier somewhere on its way.
AgreeInv ==
    /\ PInv /\ LogOK /\ HasHistory
    /\ message = <<>> => VStart
    /\ message # <<>> => phase = "proved" /\ (Unaltered => Received)
    /\ message # <<>> /\ SameStatement /\ Unaltered =>
          \E m \in Nat : \E h, len : History(h, m, len) /\ VerifierAt(h, m)

LEMMA InitAgrees == Init => AgreeInv
<1> SUFFICES ASSUME Init PROVE AgreeInv
  OBVIOUS
<1>1. vtranscript = <<<<"public", session.vpublic>>, <<"dom-sep", "r1cs v1">>>>
  BY AppendToOne DEF Init, r1cs_domain_sep, Append1
<1>2. VStart /\ message = <<>>
  BY <1>1, SameCombinations DEF Init, Verifying!Init, VStart
<1> QED BY <1>2, InitOfProver, InitHistory DEF AgreeInv

\* With the message the verifier is where the history starts.
LEMMA StartAlong ==
  ASSUME LogOK, VStart, SameStatement, NEW h, NEW m \in Nat, NEW len, History(h, m, len)
  PROVE  VerifierAt(h, m)
<1>1. h[0] = Start /\ 0 \in 0..m
  BY DEF History
<1>2. VAt(Start)
  <2>1. <<>> \in Seq({}) /\ Len(<<>>) = 0
    OBVIOUS
  <2>2. IsSequence(V) /\ Len(V) = 0
    BY <2>1 DEF VStart, IsSequence
  <2>3. PICK s : s = Start
    OBVIOUS
  <2>4. /\ s.todo = session.gadget /\ s.stage = "build" /\ s.committed = 0
        /\ s.multipliers = 0 /\ s.pending = None /\ s.constraints = <<>>
        /\ s.deferred = <<>> /\ s.returned = <<>> /\ s.challenge = 1 /\ s.first = 0
    BY <2>3 DEF Start
  <2>5. vcalls = s.todo /\ Stage(vphase) = s.stage
    BY <2>4 DEF VStart, Stage, SameStatement
  <2>6. VAt(s)
    BY <2>2, <2>4, <2>5 DEF VStart, VAt
  <2> QED BY <2>3, <2>6
<1>3. VTold(Start)
  <2>1. PICK a, b : a = transcript[1] /\ b = transcript[2]
    OBVIOUS
  <2>2. vtranscript = <<a, b>>
    BY <2>1 DEF VStart, LogOK, SameStatement
  <2>3. Told(2) = <<a, b>>
    <3>1. <<a, b>> = [i \in 1..2 |-> <<a, b>>[i]]
      <4>1. <<a, b>> \in Seq({a, b}) /\ Len(<<a, b>>) = 2
        OBVIOUS
      <4> QED BY <4>1
    <3>2. \A i \in 1..2 : <<a, b>>[i] = transcript[i]
      BY <2>1, PairDomain
    <3> QED BY <3>1, <3>2 DEF Told
  <2> QED BY <2>2, <2>3 DEF VTold, Start
<1>4. vphase = "build"
  BY DEF VStart
<1> QED BY <1>1, <1>2, <1>3, <1>4 DEF VerifierAt

LEMMA StepAgrees ==
  ASSUME AgreeInv, [Next]_vars
  PROVE  AgreeInv'
<1>1. PInv' /\ LogOK' /\ HasHistory'
  BY SessionStep, StepIsAStep, ProverHistory DEF AgreeInv
<1>2. CASE Proving!Next /\ UNCHANGED <<session, systemOfVerifier, verdict, message>>
  <2>1. message = <<>>
    <3> SUFFICES ASSUME phase = "proved" PROVE FALSE
      BY DEF AgreeInv
    <3> QED
      BY <1>2 DEF Proving!Next, Proving!commit_variable, Proving!multiply,
         Proving!allocate, Proving!allocate_multiplier, Proving!MissingAssignment,
         Proving!constrain, Proving!specify_randomized_constraints,
         Proving!challenge_scalar_call, Proving!CommitFirstPhase, Proving!Finish,
         Proving!Calling
  <2>2. message' = <<>> /\ VStart'
    BY <1>2, <2>1 DEF AgreeInv, VStart, systemOfVerifier
  <2> QED BY <1>1, <2>2 DEF AgreeInv
<1>3. CASE Deliver
  <2>1. /\ message = <<>> /\ phase = "proved"
        /\ UNCHANGED <<session, proverVars, systemOfVerifier>>
    BY <1>3 DEF Deliver
  <2>2. VStart' /\ phase' = "proved"
    BY <2>1 DEF AgreeInv, VStart, systemOfVerifier, proverVars
  <2>3. Unaltered' = Unaltered /\ SameStatement' = SameStatement
    BY <2>1 DEF Unaltered, SameStatement, proverVars, missing_phase2_commitments
  <2>4. message' # <<>> /\ Unaltered' => Received'
    BY <1>3, <2>3, DeliverReceives DEF AgreeInv
  <2>5. SameStatement' =>
          \E m \in Nat : \E h, len : History(h, m, len)' /\ VerifierAt(h, m)'
    <3> SUFFICES ASSUME SameStatement
                 PROVE  \E m \in Nat : \E h, len : History(h, m, len)'
                                                 /\ VerifierAt(h, m)'
      BY <2>3
    <3>1. PICK m \in Nat : \E h, len : History(h, m, len)
      BY DEF AgreeInv, HasHistory
    <3>2. PICK h, len : History(h, m, len)
      BY <3>1
    <3>3. History(h, m, len)'
      BY <2>1, <3>2, SameHistory DEF proverVars
    <3>4. VerifierAt(h, m)
      BY <2>1, <3>2, StartAlong DEF AgreeInv
    <3>5. VerifierAt(h, m)'
      BY <2>1, <3>4
         DEF VerifierAt, VAt, VTold, Told, Stage, systemOfVerifier, proverVars
    <3> QED BY <3>3, <3>5
  <2> QED BY <1>1, <2>2, <2>4, <2>5 DEF AgreeInv
<1>4. CASE message # <<>> /\ Verifying!Next /\ UNCHANGED <<session, proverVars>>
  <2>1. phase = "proved" /\ phase' = "proved" /\ message' = message
    <3>1. message' = message
      BY <1>4 DEF Verifying!Next, Verifying!commit_variable, Verifying!multiply,
         Verifying!allocate, Verifying!allocate_multiplier, Verifying!constrain,
         Verifying!specify_randomized_constraints, Verifying!challenge_scalar_call,
         Verifying!ReplayFirstPhase, Verifying!Verify, Verifying!Calling
    <3> QED BY <1>4, <3>1 DEF AgreeInv, proverVars
  <2>2. Unaltered' = Unaltered /\ SameStatement' = SameStatement
        /\ (Received => Received')
    BY <1>4, <2>1 DEF Unaltered, SameStatement, Received, Made, proverVars,
       missing_phase2_commitments
  <2>3. ASSUME SameStatement, Unaltered
        PROVE  \E m \in Nat : \E h, len : History(h, m, len)' /\ VerifierAt(h, m)'
    <3>1. PICK m \in Nat : \E h, len : History(h, m, len) /\ VerifierAt(h, m)
      BY <1>4, <2>3 DEF AgreeInv
    <3>2. PICK h, len : History(h, m, len) /\ VerifierAt(h, m)
      BY <3>1
    <3>3. History(h, m, len)'
      BY <1>4, <3>2, SameHistory DEF proverVars
    <3>4. VerifierAt(h, m)'
      BY <1>4, <2>1, <2>3, <3>2, VerifierAlong DEF AgreeInv
    <3> QED BY <3>3, <3>4
  <2> QED BY <1>1, <1>4, <2>1, <2>2, <2>3 DEF AgreeInv
<1>5. CASE UNCHANGED vars
  <2>1. /\ Unaltered' = Unaltered /\ SameStatement' = SameStatement
        /\ (Received => Received') /\ (VStart => VStart')
        /\ message' = message /\ phase' = phase
    BY <1>5 DEF Unaltered, SameStatement, Received, Made, VStart, vars, proverVars,
       systemOfVerifier, missing_phase2_commitments
  <2>2. /\ \A h, m, len : History(h, m, len) => History(h, m, len)'
    BY <1>5, SameHistory DEF vars, proverVars
  <2>3. \A h, m : VerifierAt(h, m) => VerifierAt(h, m)'
    BY <1>5 DEF VerifierAt, VAt, VTold, Told, Stage, vars, systemOfVerifier, proverVars
  <2> QED BY <1>1, <2>1, <2>2, <2>3 DEF AgreeInv
<1> QED BY <1>2, <1>3, <1>4, <1>5 DEF Next, Ended

\* SystemsAgree: whatever the gadget, the assignment, the challenges and the
\* weights, a verifier of the same statement that got the proof as it was made
\* ends with the prover's constraints, variables and split of the multipliers,
\* although it sees commitments and challenges only.
THEOREM BothBuildOneSystem == Spec => []SystemsAgree
<1>1. AgreeInv => SystemsAgree
  <2> SUFFICES ASSUME AgreeInv, vphase = "verified", SameStatement, Unaltered
               PROVE  /\ vconstraints = constraints /\ vreturned = returned
                      /\ num_vars = Len(a_L) /\ vn1 = n1 /\ vchallenge = challenge
    BY DEF SystemsAgree
  <2>1. message # <<>>
    BY DEF AgreeInv, VStart
  <2>2. PICK m \in Nat : \E h, len : History(h, m, len) /\ VerifierAt(h, m)
    BY <2>1 DEF AgreeInv
  <2>3. PICK h, len : History(h, m, len) /\ VerifierAt(h, m)
    BY <2>2
  <2>4. VAt(h[m]) /\ h[m] = Snapshot(len)
    BY <2>3 DEF VerifierAt, History
  <2> QED BY <2>4 DEF VAt, Snapshot
<1> QED BY <1>1, InitAgrees, StepAgrees, PTL DEF Spec
================================================================================
