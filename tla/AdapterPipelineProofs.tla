------------------------- MODULE AdapterPipelineProofs -------------------------
(***************************************************************************)
(* Proofs about AdapterPipeline, for every request and every size of a     *)
(* relation: what an accepted transcript says of the process that wrote it.*)
(*                                                                         *)
(* The adapters enter through their programs only.  What the proofs need   *)
(* of a program is WellFormed; it is shown once for each adapter.  The     *)
(* invariant relates the lines written to the steps passed.                *)
(***************************************************************************)
EXTENDS AdapterPipeline, TLAPS

-----------------------------------------------------------------------------
(* The programs. *)

EndsWithResult(p) ==
    /\ Len(p) \in Nat
    /\ DOMAIN p = 1..Len(p)
    /\ \A i \in DOMAIN p : p[i] = "result" <=> i = Len(p)

NoStepTwice(p) == \A i, j \in DOMAIN p : p[i] = p[j] => i = j

ReportsCoarsePhases(p) == \A f \in COARSE_PHASES : \E i \in DOMAIN p : p[i] = f

ChecksFirst(p) ==
    /\ \A c \in {"validate", "build_plan", "verify"} : \E i \in DOMAIN p : p[i] = c
    /\ \A i \in DOMAIN p :
         p[i] = "verify" => \E k \in 1..(i - 1) : p[k] = "invalid_case"

WellFormed(p) ==
    EndsWithResult(p) /\ NoStepTwice(p) /\ ReportsCoarsePhases(p) /\ ChecksFirst(p)

LEMMA ArkGroth16WellFormed == WellFormed(ArkGroth16)
<1>1. EndsWithResult(ArkGroth16)
  BY SMTT(60) DEF EndsWithResult, ArkGroth16
<1>2. NoStepTwice(ArkGroth16)
  BY SMTT(60) DEF NoStepTwice, ArkGroth16
<1>3. ReportsCoarsePhases(ArkGroth16)
  BY SMTT(60) DEF ReportsCoarsePhases, COARSE_PHASES, ArkGroth16
<1>4. ChecksFirst(ArkGroth16)
  BY SMTT(60) DEF ChecksFirst, ArkGroth16
<1> QED
  BY <1>1, <1>2, <1>3, <1>4 DEF WellFormed

LEMMA ArkGroth16Bls377WellFormed == WellFormed(ArkGroth16Bls377)
<1>1. EndsWithResult(ArkGroth16Bls377)
  BY SMTT(60) DEF EndsWithResult, ArkGroth16Bls377
<1>2. NoStepTwice(ArkGroth16Bls377)
  BY SMTT(60) DEF NoStepTwice, ArkGroth16Bls377
<1>3. ReportsCoarsePhases(ArkGroth16Bls377)
  BY SMTT(60) DEF ReportsCoarsePhases, COARSE_PHASES, ArkGroth16Bls377
<1>4. ChecksFirst(ArkGroth16Bls377)
  BY SMTT(60) DEF ChecksFirst, ArkGroth16Bls377
<1> QED
  BY <1>1, <1>2, <1>3, <1>4 DEF WellFormed

LEMMA ArkGroth16Bls381WellFormed == WellFormed(ArkGroth16Bls381)
<1>1. EndsWithResult(ArkGroth16Bls381)
  BY SMTT(60) DEF EndsWithResult, ArkGroth16Bls381
<1>2. NoStepTwice(ArkGroth16Bls381)
  BY SMTT(60) DEF NoStepTwice, ArkGroth16Bls381
<1>3. ReportsCoarsePhases(ArkGroth16Bls381)
  BY SMTT(60) DEF ReportsCoarsePhases, COARSE_PHASES, ArkGroth16Bls381
<1>4. ChecksFirst(ArkGroth16Bls381)
  BY SMTT(60) DEF ChecksFirst, ArkGroth16Bls381
<1> QED
  BY <1>1, <1>2, <1>3, <1>4 DEF WellFormed

LEMMA JellyfishPlonkWellFormed == WellFormed(JellyfishPlonk)
<1>1. EndsWithResult(JellyfishPlonk)
  BY SMTT(60) DEF EndsWithResult, JellyfishPlonk
<1>2. NoStepTwice(JellyfishPlonk)
  BY SMTT(60) DEF NoStepTwice, JellyfishPlonk
<1>3. ReportsCoarsePhases(JellyfishPlonk)
  BY SMTT(60) DEF ReportsCoarsePhases, COARSE_PHASES, JellyfishPlonk
<1>4. ChecksFirst(JellyfishPlonk)
  BY SMTT(60) DEF ChecksFirst, JellyfishPlonk
<1> QED
  BY <1>1, <1>2, <1>3, <1>4 DEF WellFormed

LEMMA WinterfellStarkWellFormed == WellFormed(WinterfellStark)
<1>1. EndsWithResult(WinterfellStark)
  BY SMTT(60) DEF EndsWithResult, WinterfellStark
<1>2. NoStepTwice(WinterfellStark)
  BY SMTT(60) DEF NoStepTwice, WinterfellStark
<1>3. ReportsCoarsePhases(WinterfellStark)
  BY SMTT(60) DEF ReportsCoarsePhases, COARSE_PHASES, WinterfellStark
<1>4. ChecksFirst(WinterfellStark)
  BY SMTT(60) DEF ChecksFirst, WinterfellStark
<1> QED
  BY <1>1, <1>2, <1>3, <1>4 DEF WellFormed

LEMMA BulletproofsR1csWellFormed == WellFormed(BulletproofsR1cs)
<1>1. EndsWithResult(BulletproofsR1cs)
  BY SMTT(60) DEF EndsWithResult, BulletproofsR1cs
<1>2. NoStepTwice(BulletproofsR1cs)
  BY SMTT(60) DEF NoStepTwice, BulletproofsR1cs
<1>3. ReportsCoarsePhases(BulletproofsR1cs)
  BY SMTT(60) DEF ReportsCoarsePhases, COARSE_PHASES, BulletproofsR1cs
<1>4. ChecksFirst(BulletproofsR1cs)
  BY SMTT(60) DEF ChecksFirst, BulletproofsR1cs
<1> QED
  BY <1>1, <1>2, <1>3, <1>4 DEF WellFormed

LEMMA ProgramWellFormed == ASSUME NEW a \in Adapters PROVE WellFormed(Program(a))
BY ArkGroth16WellFormed, ArkGroth16Bls377WellFormed, ArkGroth16Bls381WellFormed,
   JellyfishPlonkWellFormed, WinterfellStarkWellFormed, BulletproofsR1csWellFormed
   DEF Adapters, Program

(* The adapters whose witness may fail to satisfy the relation check it,    *)
(* those of the matrix export the proof, and the size is checked where the *)
(* relation is built.                                                      *)
LEMMA ProgramChecks ==
    ASSUME NEW a \in Adapters
    PROVE  /\ a \notin {"winterfell-stark", "bulletproofs-range"}
                => \E i \in DOMAIN Program(a) : Program(a)[i] = "is_satisfied"
           /\ a \in MatrixAdapters
                => \E i \in DOMAIN Program(a) : Program(a)[i] = "write_proof_artifact"
           /\ a = "jellyfish-plonk"
                => \E i \in DOMAIN Program(a) : Program(a)[i] = "synthesize"
           /\ a = "winterfell-stark"
                => \E i \in DOMAIN Program(a) : Program(a)[i] = "trace_rows"
<1>1. a = "ark-groth16" => \E i \in DOMAIN ArkGroth16 : ArkGroth16[i] = "is_satisfied"
  BY DEF ArkGroth16
<1>2. \E i \in DOMAIN ArkGroth16Bls377 : ArkGroth16Bls377[i] = "is_satisfied"
  BY DEF ArkGroth16Bls377
<1>3. /\ \E i \in DOMAIN ArkGroth16Bls381 : ArkGroth16Bls381[i] = "is_satisfied"
      /\ \E i \in DOMAIN ArkGroth16Bls381 : ArkGroth16Bls381[i] = "write_proof_artifact"
  BY DEF ArkGroth16Bls381
<1>4. \A s \in {"is_satisfied", "write_proof_artifact", "synthesize"} :
        \E i \in DOMAIN JellyfishPlonk : JellyfishPlonk[i] = s
  BY DEF JellyfishPlonk
<1>5. \A s \in {"write_proof_artifact", "trace_rows"} :
        \E i \in DOMAIN WinterfellStark : WinterfellStark[i] = s
  BY DEF WinterfellStark
<1>6. \E i \in DOMAIN BulletproofsR1cs : BulletproofsR1cs[i] = "write_proof_artifact"
  BY DEF BulletproofsR1cs
<1> QED
  BY <1>1, <1>2, <1>3, <1>4, <1>5, <1>6 DEF Adapters, MatrixAdapters, Program

-----------------------------------------------------------------------------
(* The invariant. *)

Passed == 1..(pc - 1)

Lines == {PhaseLine(job, f) : f \in Phases} \cup {ResultLine(job, b) : b \in BOOLEAN}

(* Every phase line is the report of a step passed, no two report the same *)
(* phase, and no phase passed but invalid_reject went unreported.          *)
PhasesWritten ==
    /\ \A i \in DOMAIN out : out[i].kind = "phase" =>
         \E k \in Passed : Steps[k] \in Phases /\ out[i] = PhaseLine(job, Steps[k])
    /\ \A i, j \in DOMAIN out :
         out[i].kind = "phase" /\ out[j].kind = "phase"
           /\ out[i].phase = out[j].phase => i = j
    /\ \A k \in Passed : Steps[k] \in Phases \ {"invalid_reject"} =>
         \E i \in DOMAIN out : out[i] = PhaseLine(job, Steps[k])

(* The result is the last line, of the last step. *)
ResultWritten ==
    /\ \A i \in DOMAIN out : out[i].kind = "result" =>
         /\ pc = Len(Steps) + 1
         /\ i = Len(out)
         /\ out[i] = ResultLine(job, verdict = "accepted")
    /\ pc = Len(Steps) + 1 => out # <<>> /\ out[Len(out)].kind = "result"

(* What the steps passed have established. *)
Established ==
    /\ SatisfiedByConstruction(job.adapter, job.request) => job.satisfied
    /\ \A k \in Passed : ~Refused(job, Steps[k])
    /\ altered => job.request.invalid # "none"
    /\ \A k \in Passed : Steps[k] = "invalid_case" =>
         altered = (job.request.invalid # "none")
    /\ \A k \in Passed : Steps[k] = "verify" => verdict # "none"
    /\ verdict = "accepted" => job.satisfied /\ job.request.invalid = "none"
    /\ verdict = "rejected" => ~job.satisfied \/ altered
    /\ \A k \in Passed :
         Steps[k] = "write_proof_artifact" /\ job.export = "local" =>
           artifact = "fresh"

ExitsAtTheEnd == exit = "ok" => pc = Len(Steps) + 1

IInv ==
    /\ TypeOK /\ out \in Seq(Lines)
    /\ PhasesWritten /\ ResultWritten /\ Established /\ ExitsAtTheEnd

LEMMA StepsWellFormed == ASSUME TypeOK PROVE WellFormed(Steps)
BY ProgramWellFormed DEF TypeOK, Steps

(* Where the process stands: the step it is at is of the program, and the   *)
(* result is the last one.                                                 *)
LEMMA AtStep ==
    ASSUME TypeOK, Running
    PROVE  /\ pc \in Nat /\ Len(Steps) \in Nat
           /\ 1 <= pc /\ pc <= Len(Steps)
           /\ Step = "result" <=> pc = Len(Steps)
           /\ \A k \in 1..(pc - 1) : Steps[k] # Step
<1>1. EndsWithResult(Steps) /\ NoStepTwice(Steps)
  BY StepsWellFormed DEF WellFormed
<1>2. pc \in DOMAIN Steps
  BY DEF Running
<1> QED
  BY <1>1, <1>2 DEF EndsWithResult, NoStepTwice, Step

LEMMA LineKinds ==
    ASSUME NEW l \in Lines
    PROVE  /\ l.kind \in {"phase", "result"}
           /\ l.kind = "phase" => \E f \in Phases : l = PhaseLine(job, f)
           /\ l.kind = "result" => \E b \in BOOLEAN : l = ResultLine(job, b)
BY DEF Lines, PhaseLine, ResultLine

LEMMA PhaseLineFields ==
    ASSUME NEW f
    PROVE  /\ PhaseLine(job, f).kind = "phase" /\ PhaseLine(job, f).phase = f
           /\ PhaseLine(job, f).run = job.request.run
           /\ PhaseLine(job, f).threads = job.request.threads
           /\ PhaseLine(job, f).adapter = job.adapter
           /\ f \notin Unsupported(job.adapter) => PhaseLine(job, f).supported
           /\ f = "native_execution" => PhaseLine(job, f).units = ApplicationUnits(job)
<1>1. f \notin Unsupported(job.adapter) => PhaseLine(job, f).supported
  BY Zenon DEF PhaseLine
<1>2. f = "native_execution" => PhaseLine(job, f).units = ApplicationUnits(job)
  BY DEF PhaseLine
<1>3. /\ PhaseLine(job, f).kind = "phase" /\ PhaseLine(job, f).phase = f
      /\ PhaseLine(job, f).run = job.request.run
      /\ PhaseLine(job, f).threads = job.request.threads
      /\ PhaseLine(job, f).adapter = job.adapter
  BY DEF PhaseLine
<1> QED
  BY <1>1, <1>2, <1>3

LEMMA ResultLineFields ==
    ASSUME NEW b
    PROVE  /\ ResultLine(job, b).kind = "result"
           /\ ResultLine(job, b).verify = b
           /\ ResultLine(job, b).constraints = Constraints(job)
           /\ ResultLine(job, b).units = NativeWorkUnits(job)
BY DEF ResultLine

(* Init. *)
LEMMA InitIInv == Init => IInv
<1> SUFFICES ASSUME Init PROVE IInv
  OBVIOUS
<1>1. job \in [adapter : Adapters, request : Requests, size : Sizes,
               satisfied : BOOLEAN, export : {"unset", "local", "outside"}]
  BY DEF Init
<1>2. WellFormed(Steps)
  BY <1>1, ProgramWellFormed DEF Steps
<1>3. Len(Steps) \in Nat /\ Len(Steps) # 0
  <2>1. \E i \in DOMAIN Steps : Steps[i] = "verify"
    BY <1>2 DEF WellFormed, ChecksFirst
  <2> QED BY <1>2, <2>1 DEF WellFormed, EndsWithResult
<1>4. TypeOK
  <2>1. DOMAIN out = {} /\ Len(out) = 0
    BY DEF Init
  <2>2. pc \in 1..(Len(Steps) + 1) /\ Len(out) < pc
    BY <1>3, <2>1 DEF Init
  <2> QED
    BY <1>1, <2>1, <2>2 DEF Init, TypeOK
<1>5. out = <<>> /\ Passed = {} /\ pc = 1
  BY DEF Init, Passed
<1>6. out \in Seq(Lines)
  BY <1>5
<1>7. PhasesWritten
  BY <1>5 DEF PhasesWritten
<1>8. ResultWritten
  BY <1>3, <1>5 DEF ResultWritten
<1>9. Established
  BY <1>5 DEF Established, Init
<1>10. ExitsAtTheEnd
  BY DEF ExitsAtTheEnd, Init
<1> QED
  BY <1>4, <1>6, <1>7, <1>8, <1>9, <1>10 DEF IInv

(* A step that only ends the process, or nothing at all. *)
LEMMA UnwrittenIInv ==
    ASSUME IInv, UNCHANGED <<job, pc, out, altered, verdict, artifact>>,
           exit' \in {"running", "ok", "failed", "killed"},
           exit' = "ok" => pc = Len(Steps) + 1
    PROVE  IInv'
BY DEF IInv, ExitsAtTheEnd, TypeOK, Steps, Lines, Passed, PhasesWritten, ResultWritten, Established,
       PhaseLine, ResultLine

(* What a step that writes no line does to the lines written.               *)
LEMMA SilentStep ==
    ASSUME IInv, Running, Proceed, out' = out,
           Step \notin (Phases \ {"invalid_reject"}) \cup {"result"}
    PROVE  /\ (out \in Seq(Lines))' /\ PhasesWritten' /\ ResultWritten'
           /\ pc' \in 1..(Len(Steps) + 1) /\ Len(out') < pc'
<1> USE DEF IInv, Proceed
<1>1. /\ pc \in Nat /\ Len(Steps) \in Nat /\ 1 <= pc /\ pc < Len(Steps)
      /\ pc' = pc + 1 /\ job' = job /\ Steps' = Steps
  BY AtStep DEF Steps
<1>2. (out \in Seq(Lines))'
  <2>1. Lines' = Lines
    BY <1>1 DEF Lines, PhaseLine, ResultLine
  <2> QED BY <2>1
<1>3. \A f : PhaseLine(job, f)' = PhaseLine(job, f)
  BY <1>1 DEF PhaseLine
<1>4. PhasesWritten'
  BY <1>1, <1>3 DEF PhasesWritten, Passed, Step
<1>5. ResultWritten'
  BY <1>1 DEF ResultWritten
<1> QED
  BY <1>1, <1>2, <1>4, <1>5 DEF TypeOK

(* A step that establishes nothing beyond not being refused. *)
LEMMA NothingNew ==
    ASSUME IInv, Running, Proceed, UNCHANGED <<altered, verdict, artifact>>,
           ~Refused(job, Step),
           Step \notin {"invalid_case", "verify", "write_proof_artifact"}
    PROVE  Established'
<1>1. /\ pc \in Nat /\ 1 <= pc /\ pc' = pc + 1 /\ job' = job /\ Steps' = Steps
  BY AtStep DEF IInv, Proceed, Steps
<1>2. \A k \in 1..(pc' - 1) : k \in 1..(pc - 1) \/ Steps[k] = Step
  BY <1>1 DEF Step
<1> QED
  BY <1>1, <1>2 DEF IInv, Established, Passed

LEMMA CheckIInv == ASSUME IInv, Check PROVE IInv'
<1>1. Step \notin Phases \cup {"result"}
  BY DEF Check, Phases, COARSE_PHASES
<1>2. /\ (out \in Seq(Lines))' /\ PhasesWritten' /\ ResultWritten'
      /\ pc' \in 1..(Len(Steps) + 1) /\ Len(out') < pc'
  BY <1>1, SilentStep DEF Check
<1>3. Established'
  BY NothingNew DEF Check
<1>4. TypeOK'
  BY <1>2 DEF IInv, TypeOK, Check, Proceed, Steps
<1>9. ExitsAtTheEnd'
  BY DEF Check, Running, Proceed, ExitsAtTheEnd
<1> QED
  BY <1>2, <1>3, <1>4, <1>9 DEF IInv

LEMMA WriteProofArtifactIInv == ASSUME IInv, WriteProofArtifact PROVE IInv'
<1>1. Step \notin Phases \cup {"result"}
  BY DEF WriteProofArtifact, Phases, COARSE_PHASES
<1>2. /\ (out \in Seq(Lines))' /\ PhasesWritten' /\ ResultWritten'
      /\ pc' \in 1..(Len(Steps) + 1) /\ Len(out') < pc'
  BY <1>1, SilentStep DEF WriteProofArtifact
<1>3. Established'
  <2>1. /\ pc \in Nat /\ 1 <= pc /\ pc' = pc + 1 /\ job' = job /\ Steps' = Steps
    BY AtStep DEF IInv, WriteProofArtifact, Proceed, Steps
  <2>2. \A k \in 1..(pc' - 1) : k \in 1..(pc - 1) \/ Steps[k] = Step
    BY <2>1 DEF Step
  <2> QED
    BY <2>1, <2>2 DEF IInv, Established, Passed, WriteProofArtifact
<1>4. TypeOK'
  BY <1>2 DEF IInv, TypeOK, WriteProofArtifact, Proceed, Steps
<1>9. ExitsAtTheEnd'
  BY DEF WriteProofArtifact, Running, Proceed, ExitsAtTheEnd
<1> QED
  BY <1>2, <1>3, <1>4, <1>9 DEF IInv

LEMMA InvalidCaseIInv == ASSUME IInv, InvalidCase PROVE IInv'
<1>1. Step \notin Phases \cup {"result"}
  BY DEF InvalidCase, Phases, COARSE_PHASES
<1>2. /\ (out \in Seq(Lines))' /\ PhasesWritten' /\ ResultWritten'
      /\ pc' \in 1..(Len(Steps) + 1) /\ Len(out') < pc'
  BY <1>1, SilentStep DEF InvalidCase
<1>3. Established'
  <2>1. /\ pc \in Nat /\ 1 <= pc /\ pc' = pc + 1 /\ job' = job /\ Steps' = Steps
    BY AtStep DEF IInv, InvalidCase, Proceed, Steps
  <2>2. \A k \in 1..(pc' - 1) : k \in 1..(pc - 1) \/ Steps[k] = Step
    BY <2>1 DEF Step
  <2> QED
    BY <2>1, <2>2 DEF IInv, Established, Passed, InvalidCase
<1>4. TypeOK'
  BY <1>2 DEF IInv, TypeOK, InvalidCase, Proceed, Steps
<1>9. ExitsAtTheEnd'
  BY DEF InvalidCase, Running, Proceed, ExitsAtTheEnd
<1> QED
  BY <1>2, <1>3, <1>4, <1>9 DEF IInv

(* Verification judges the inputs the invalid case left.                    *)
LEMMA VerifyIInv == ASSUME IInv, Verify PROVE IInv'
<1>1. Step \notin Phases \cup {"result"}
  BY DEF Verify, Phases, COARSE_PHASES
<1>2. /\ (out \in Seq(Lines))' /\ PhasesWritten' /\ ResultWritten'
      /\ pc' \in 1..(Len(Steps) + 1) /\ Len(out') < pc'
  BY <1>1, SilentStep DEF Verify
<1>3. altered = (job.request.invalid # "none")
  <2>1. ChecksFirst(Steps) /\ pc \in DOMAIN Steps /\ Steps[pc] = "verify"
    BY StepsWellFormed DEF IInv, WellFormed, Verify, Running, Step
  <2>2. \E k \in Passed : Steps[k] = "invalid_case"
    BY <2>1 DEF ChecksFirst, Passed
  <2> QED
    BY <2>2 DEF IInv, Established
<1>4. Established'
  <2>1. /\ pc \in Nat /\ 1 <= pc /\ pc' = pc + 1 /\ job' = job /\ Steps' = Steps
    BY AtStep DEF IInv, Verify, Proceed, Steps
  <2>2. \A k \in 1..(pc' - 1) : k \in 1..(pc - 1) \/ Steps[k] = Step
    BY <2>1 DEF Step
  <2>3. ~Refused(job, Step)
    BY DEF Verify, Refused
  <2> QED
    BY <1>3, <2>1, <2>2, <2>3 DEF IInv, Established, Passed, Verify
<1>5. TypeOK'
  BY <1>2 DEF IInv, TypeOK, Verify, Proceed, Steps
<1>9. ExitsAtTheEnd'
  BY DEF Verify, Running, Proceed, ExitsAtTheEnd
<1> QED
  BY <1>2, <1>4, <1>5, <1>9 DEF IInv

LEMMA EmitIInv == ASSUME IInv, Emit PROVE IInv'
<1>1. Step \in Phases /\ Step # "result" /\ Running /\ Proceed
      /\ UNCHANGED <<altered, verdict, artifact>>
  BY DEF Emit, Phases, COARSE_PHASES
<1>2. Established'
  BY <1>1, NothingNew DEF Refused, Phases, COARSE_PHASES
<1>3. /\ (out \in Seq(Lines))' /\ PhasesWritten' /\ ResultWritten'
      /\ pc' \in 1..(Len(Steps) + 1) /\ Len(out') < pc'
  <2>1. CASE Step = "invalid_reject" /\ job.request.invalid = "none"
    <3>1. out' = out
      BY <2>1 DEF Emit
    <3> QED
      BY <1>1, <2>1, <3>1, SilentStep
  <2>2. CASE ~(Step = "invalid_reject" /\ job.request.invalid = "none")
    <3> DEFINE l == PhaseLine(job, Step)
    <3>1. out' = Append(out, l)
      BY <2>2 DEF Emit
    <3>2. l \in Lines /\ l.kind = "phase" /\ l.phase = Step
      BY <1>1, PhaseLineFields DEF Lines
    <3>3. /\ pc \in Nat /\ Len(Steps) \in Nat /\ 1 <= pc /\ pc < Len(Steps)
          /\ \A k \in 1..(pc - 1) : Steps[k] # Step
          /\ pc' = pc + 1 /\ job' = job /\ Steps' = Steps
      BY <1>1, AtStep DEF IInv, Proceed, Steps
    <3>4. Lines' = Lines /\ \A f : PhaseLine(job, f)' = PhaseLine(job, f)
      BY <3>3 DEF Lines, PhaseLine, ResultLine
    <3>5. /\ out \in Seq(Lines) /\ out' \in Seq(Lines)
          /\ Len(out') = Len(out) + 1 /\ Len(out) \in Nat /\ Len(out) < pc
          /\ DOMAIN out = 1..Len(out) /\ DOMAIN out' = 1..(Len(out) + 1)
          /\ \A i \in DOMAIN out : out'[i] = out[i]
          /\ out'[Len(out) + 1] = l
      <4> HIDE DEF l
      <4> QED BY <3>1, <3>2 DEF IInv, TypeOK
    <3>6. PhasesWritten'
      <4> HIDE DEF l
      <4>1. \A k \in 1..(pc' - 1) : k \in 1..(pc - 1) \/ k = pc
        BY <3>3
      <4>2. ASSUME NEW i \in DOMAIN out', out'[i].kind = "phase"
            PROVE  \E k \in Passed' : Steps'[k] \in Phases
                       /\ out'[i] = PhaseLine(job, Steps[k])'
        <5>1. CASE i \in DOMAIN out
          <6>1. PICK k \in Passed : Steps[k] \in Phases /\ out[i] = PhaseLine(job, Steps[k])
            BY <3>5, <4>2, <5>1 DEF IInv, PhasesWritten
          <6>2. k \in Passed'
            BY <3>3 DEF Passed
          <6>3. PhaseLine(job, Steps[k])' = PhaseLine(job, Steps[k])
            BY <3>3, <3>4 DEF PhaseLine
          <6> QED
            BY <3>3, <3>5, <5>1, <6>1, <6>2, <6>3
        <5>2. CASE i = Len(out) + 1
          <6>1. PICK k \in Passed' : Steps[k] = Step /\ Steps'[k] = Step
            BY <3>3 DEF Passed, Step
          <6>2. PhaseLine(job, Steps[k])' = l
            BY <3>3, <6>1 DEF l, PhaseLine
          <6> QED
            BY <1>1, <3>5, <5>2, <6>1, <6>2
        <5> QED
          BY <3>5, <5>1, <5>2
      <4>3. \A i \in DOMAIN out : out[i].kind = "phase" => out[i].phase # Step
        <5> SUFFICES ASSUME NEW i \in DOMAIN out, out[i].kind = "phase"
                     PROVE  out[i].phase # Step
          OBVIOUS
        <5>1. PICK k \in Passed : out[i] = PhaseLine(job, Steps[k])
          BY DEF IInv, PhasesWritten
        <5> QED
          BY <3>3, <5>1, PhaseLineFields DEF Passed
      <4>4. \A i, j \in DOMAIN out' :
              out'[i].kind = "phase" /\ out'[j].kind = "phase"
                /\ out'[i].phase = out'[j].phase => i = j
        <5>1. \A i, j \in DOMAIN out :
                out[i].kind = "phase" /\ out[j].kind = "phase"
                  /\ out[i].phase = out[j].phase => i = j
          BY DEF IInv, PhasesWritten
        <5> QED
          BY <3>2, <3>5, <4>3, <5>1 DEF l
      <4>5. ASSUME NEW k \in Passed', Steps'[k] \in Phases \ {"invalid_reject"}
            PROVE  \E i \in DOMAIN out' : out'[i] = PhaseLine(job, Steps[k])'
        <5>1. CASE k \in Passed
          <6>1. PICK i \in DOMAIN out : out[i] = PhaseLine(job, Steps[k])
            BY <3>3, <4>5, <5>1 DEF IInv, PhasesWritten
          <6>2. PhaseLine(job, Steps[k])' = PhaseLine(job, Steps[k])
            BY <3>3, <3>4 DEF PhaseLine
          <6> QED
            BY <3>5, <6>1, <6>2
        <5>2. CASE k = pc
          <6>1. PhaseLine(job, Steps[k])' = l
            BY <3>3, <5>2 DEF l, PhaseLine, Step
          <6> QED
            BY <3>5, <6>1
        <5> QED
          BY <4>1, <5>1, <5>2 DEF Passed
      <4> QED
        BY <4>2, <4>4, <4>5 DEF PhasesWritten
    <3>7. ResultWritten'
      <4>1. \A i \in DOMAIN out' : out'[i].kind # "result"
        <5>1. \A i \in DOMAIN out : out[i].kind # "result"
          BY <3>3 DEF IInv, ResultWritten
        <5> QED
          BY <3>2, <3>5, <5>1
      <4> QED
        BY <3>3, <4>1 DEF ResultWritten
    <3> QED
      BY <3>3, <3>4, <3>5, <3>6, <3>7
  <2> QED
    BY <2>1, <2>2
<1>4. TypeOK'
  <2>1. \A i \in DOMAIN out' : out'[i].kind \in {"phase", "result"}
    BY <1>3, LineKinds DEF Lines, PhaseLine, ResultLine
  <2> QED
    BY <1>1, <1>3, <2>1 DEF IInv, TypeOK, Emit, Proceed, Steps
<1>9. ExitsAtTheEnd'
  BY DEF Emit, Running, Proceed, ExitsAtTheEnd
<1> QED
  BY <1>2, <1>3, <1>4, <1>9 DEF IInv

LEMMA EmitResultIInv == ASSUME IInv, EmitResult PROVE IInv'
<1> DEFINE l == ResultLine(job, verdict = "accepted")
<1>1. /\ pc \in Nat /\ pc = Len(Steps) /\ 1 <= pc /\ Steps[pc] = "result"
      /\ pc' = pc + 1 /\ job' = job /\ Steps' = Steps
      /\ UNCHANGED <<altered, verdict, artifact>>
      /\ out' = Append(out, l)
  BY AtStep DEF IInv, EmitResult, Proceed, Steps, Step
<1>2. l \in Lines /\ l.kind = "result"
  BY ResultLineFields DEF Lines
<1>3. Lines' = Lines
  BY <1>1 DEF Lines, PhaseLine, ResultLine
<1>4. /\ out \in Seq(Lines) /\ out' \in Seq(Lines)
      /\ Len(out') = Len(out) + 1 /\ Len(out) \in Nat /\ Len(out) < pc
      /\ DOMAIN out = 1..Len(out) /\ DOMAIN out' = 1..(Len(out) + 1)
      /\ \A i \in DOMAIN out : out'[i] = out[i]
      /\ out'[Len(out) + 1] = l
  <2> HIDE DEF l
  <2> QED BY <1>1, <1>2 DEF IInv, TypeOK
<1>5. \A i \in DOMAIN out : out[i].kind # "result"
  BY <1>1 DEF IInv, ResultWritten
<1>6. \A k \in 1..(pc' - 1) : k \in 1..(pc - 1) \/ k = pc
  BY <1>1
<1>7. PhasesWritten'
  <2> HIDE DEF l
  <2>1. ASSUME NEW i \in DOMAIN out', out'[i].kind = "phase"
        PROVE  \E k \in Passed' : Steps'[k] \in Phases
                   /\ out'[i] = PhaseLine(job, Steps[k])'
    <3>1. i \in DOMAIN out /\ out[i].kind = "phase"
      BY <1>2, <1>4, <2>1
    <3>2. PICK k \in Passed : Steps[k] \in Phases /\ out[i] = PhaseLine(job, Steps[k])
      BY <3>1 DEF IInv, PhasesWritten
    <3>3. k \in Passed' /\ PhaseLine(job, Steps[k])' = PhaseLine(job, Steps[k])
      BY <1>1 DEF Passed, PhaseLine
    <3> QED
      BY <1>1, <1>4, <3>1, <3>2, <3>3
  <2>2. \A i, j \in DOMAIN out' :
          out'[i].kind = "phase" /\ out'[j].kind = "phase"
            /\ out'[i].phase = out'[j].phase => i = j
    BY <1>2, <1>4 DEF IInv, PhasesWritten
  <2>3. ASSUME NEW k \in Passed', Steps'[k] \in Phases \ {"invalid_reject"}
        PROVE  \E i \in DOMAIN out' : out'[i] = PhaseLine(job, Steps[k])'
    <3>1. k \in Passed
      BY <1>1, <1>6, <2>3 DEF Passed, Phases, COARSE_PHASES
    <3>2. PICK i \in DOMAIN out : out[i] = PhaseLine(job, Steps[k])
      BY <1>1, <2>3, <3>1 DEF IInv, PhasesWritten
    <3>3. PhaseLine(job, Steps[k])' = PhaseLine(job, Steps[k])
      BY <1>1 DEF PhaseLine
    <3> QED
      BY <1>4, <3>2, <3>3
  <2> QED
    BY <2>1, <2>2, <2>3 DEF PhasesWritten
<1>8. ResultWritten'
  <2>1. ResultLine(job, verdict = "accepted")' = l
    BY <1>1 DEF ResultLine
  <2> HIDE DEF l
  <2>2. \A i \in DOMAIN out' : out'[i].kind = "result" => i = Len(out')
    BY <1>4, <1>5
  <2>3. out' # <<>> /\ out'[Len(out')] = l
    BY <1>4
  <2> QED
    BY <1>1, <1>2, <2>1, <2>2, <2>3 DEF ResultWritten
<1>9. Established'
  BY NothingNew DEF EmitResult, Refused
<1>10. TypeOK'
  <2>1. pc' \in 1..(Len(Steps') + 1) /\ Len(out') < pc'
    BY <1>1, <1>4
  <2>2. \A i \in DOMAIN out' : out'[i].kind \in {"phase", "result"}
    <3> HIDE DEF l
    <3> QED BY <1>2, <1>4 DEF IInv, TypeOK
  <2> QED
    BY <2>1, <2>2 DEF IInv, TypeOK, EmitResult, Proceed
<1>11. ExitsAtTheEnd'
  BY DEF EmitResult, Running, Proceed, ExitsAtTheEnd
<1> QED
  BY <1>3, <1>4, <1>7, <1>8, <1>9, <1>10, <1>11 DEF IInv

(* Every step keeps the invariant. *)
LEMMA NextIInv == IInv /\ [Next]_vars => IInv'
<1> SUFFICES ASSUME IInv, [Next]_vars PROVE IInv'
  OBVIOUS
<1>1. CASE Check
  BY <1>1, CheckIInv
<1>2. CASE Emit
  BY <1>2, EmitIInv
<1>3. CASE WriteProofArtifact
  BY <1>3, WriteProofArtifactIInv
<1>4. CASE InvalidCase
  BY <1>4, InvalidCaseIInv
<1>5. CASE Verify
  BY <1>5, VerifyIInv
<1>6. CASE EmitResult
  BY <1>6, EmitResultIInv
<1>7. CASE Fail
  BY <1>7, UnwrittenIInv DEF Fail
<1>8. CASE Killed
  BY <1>8, UnwrittenIInv DEF Killed
<1>9. CASE Exit
  <2>1. pc = Len(Steps) + 1
    <3>1. Len(Steps) \in Nat
      BY StepsWellFormed DEF IInv, WellFormed, EndsWithResult
    <3> QED BY <1>9, <3>1 DEF Exit, IInv, TypeOK
  <2> QED
    BY <1>9, <2>1, UnwrittenIInv DEF Exit
<1>10. CASE UNCHANGED vars
  BY <1>10, UnwrittenIInv DEF vars, IInv, TypeOK, ExitsAtTheEnd
<1> QED
  BY <1>1, <1>2, <1>3, <1>4, <1>5, <1>6, <1>7, <1>8, <1>9, <1>10 DEF Next

(* The lines written always agree with the steps passed. *)
THEOREM Inductive == Spec => []IInv
<1>1. Init => IInv
  BY InitIInv
<1>2. IInv /\ [Next]_vars => IInv'
  BY NextIInv
<1> QED
  BY <1>1, <1>2, PTL DEF Spec

(* The state keeps its types, and no step writes more than one line. *)
THEOREM TypeCorrect == Spec => []TypeOK
<1>1. IInv => TypeOK
  BY DEF IInv
<1> QED
  BY <1>1, Inductive, PTL
-----------------------------------------------------------------------------
(* What an accepted transcript implies. *)

(* An accepted transcript ends with the result of a process at its end.     *)
LEMMA AcceptedEndsWithResult ==
    ASSUME IInv, Accepted
    PROVE  /\ pc = Len(Steps) + 1
           /\ Len(out) \in DOMAIN out
           /\ out[Len(out)] = ResultLine(job, verdict = "accepted")
           /\ T!VerdictAgrees(Asked(job.request), out[Len(out)])
           /\ \A i \in DOMAIN Steps : i \in Passed
<1>1. PICK r \in T!ResultIndices(out) : T!VerdictAgrees(Asked(job.request), out[r])
  BY DEF Accepted, T!ValidateTranscript
<1>2. r \in DOMAIN out /\ out[r].kind = "result"
  BY DEF T!ResultIndices
<1>3. /\ pc = Len(Steps) + 1 /\ r = Len(out)
      /\ out[r] = ResultLine(job, verdict = "accepted")
  BY <1>2 DEF IInv, ResultWritten
<1>4. EndsWithResult(Steps)
  BY StepsWellFormed DEF IInv, WellFormed
<1> QED
  BY <1>1, <1>2, <1>3, <1>4 DEF EndsWithResult, Passed

(* No step of the process was refused. *)
LEMMA AcceptedRefusesNothing ==
    ASSUME IInv, Accepted
    PROVE  \A i \in DOMAIN Steps : ~Refused(job, Steps[i])
BY AcceptedEndsWithResult DEF IInv, Established

(* A process that reached its end built its proof from a satisfying witness *)
(* and verified it.                                                        *)
LEMMA EndedIsAudited ==
    ASSUME IInv, pc = Len(Steps) + 1
    PROVE  job.satisfied /\ verdict \in {"accepted", "rejected"}
<1>1. job.adapter \in Adapters
  BY DEF IInv, TypeOK
<1>2. \A i \in DOMAIN Steps : i \in Passed
  BY StepsWellFormed DEF IInv, WellFormed, EndsWithResult, Passed
<1>3. verdict \in {"accepted", "rejected"}
  <2>1. \E i \in DOMAIN Steps : Steps[i] = "verify"
    BY StepsWellFormed DEF IInv, WellFormed, ChecksFirst
  <2> QED
    BY <1>2, <2>1 DEF IInv, Established, TypeOK
<1>4. CASE job.adapter \in {"winterfell-stark", "bulletproofs-range"}
  BY <1>3, <1>4 DEF IInv, Established, SatisfiedByConstruction
<1>5. CASE job.adapter \notin {"winterfell-stark", "bulletproofs-range"}
  <2>1. \E i \in DOMAIN Steps : Steps[i] = "is_satisfied"
    BY <1>1, <1>5, ProgramChecks DEF Steps
  <2> QED
    BY <1>2, <1>3, <2>1 DEF IInv, Established, Refused
<1> QED BY <1>4, <1>5

(* No transcript cut short, by a failure or by the runner's kill, passes    *)
(* for a complete one.                                                     *)
THEOREM NoPartialTranscript == Spec => []AcceptedIsComplete
<1>1. IInv => AcceptedIsComplete
  <2> SUFFICES ASSUME IInv, Accepted PROVE pc > Len(Steps)
    BY DEF AcceptedIsComplete
  <2>1. Len(Steps) \in Nat
    BY StepsWellFormed DEF IInv, WellFormed, EndsWithResult
  <2> QED
    BY <2>1, AcceptedEndsWithResult
<1> QED
  BY <1>1, Inductive, PTL

(* An accepted rejection is due to the altered input alone. *)
THEOREM RejectionIsTheInputs == Spec => []RejectedForTheInput
<1>1. IInv => RejectedForTheInput
  <2> SUFFICES ASSUME IInv, Accepted, job.request.invalid # "none"
               PROVE  job.satisfied /\ altered
    BY DEF RejectedForTheInput
  <2>1. verdict # "accepted"
    BY AcceptedEndsWithResult, ResultLineFields DEF T!VerdictAgrees, Asked
  <2>2. job.satisfied /\ verdict = "rejected"
    BY <2>1, AcceptedEndsWithResult, EndedIsAudited
  <2> QED
    BY <2>2 DEF IInv, Established
<1> QED
  BY <1>1, Inductive, PTL

(* An accepted answer to a native-size request proved a relation of just    *)
(* that size.                                                              *)
THEOREM NativeSizeIsProved == Spec => []SizeMatched
<1>1. IInv => SizeMatched
  <2> DEFINE r == job.request
  <2> SUFFICES ASSUME IInv, Accepted, r.scale_mode = "target_native_size"
               PROVE  out[Len(out)].constraints = r.scale
    BY DEF SizeMatched
  <2>1. job.adapter \in Adapters /\ r \in Request
    BY RequestsAssumption DEF IInv, TypeOK
  <2>2. out[Len(out)].constraints = Constraints(job)
    BY AcceptedEndsWithResult, ResultLineFields
  <2>3. /\ ~Refused(job, "validate") /\ ~Refused(job, "build_plan")
        /\ job.adapter = "jellyfish-plonk" => ~Refused(job, "synthesize")
        /\ job.adapter = "winterfell-stark" => ~Refused(job, "trace_rows")
    <3>1. /\ \E i \in DOMAIN Steps : Steps[i] = "validate"
          /\ \E i \in DOMAIN Steps : Steps[i] = "build_plan"
      BY StepsWellFormed DEF IInv, WellFormed, ChecksFirst
    <3>2. \A c : (\E i \in DOMAIN Steps : Steps[i] = c) => ~Refused(job, c)
      BY AcceptedRefusesNothing
    <3>3. job.adapter = "jellyfish-plonk"
            => \E i \in DOMAIN Steps : Steps[i] = "synthesize"
      BY <2>1, ProgramChecks DEF Steps
    <3>4. job.adapter = "winterfell-stark"
            => \E i \in DOMAIN Steps : Steps[i] = "trace_rows"
      BY <2>1, ProgramChecks DEF Steps
    <3> QED
      BY <3>1, <3>2, <3>3, <3>4
  <2>4. r.scale \in Nat /\ r.scale > 1 /\ Target(r) = r.scale /\ Target(r) # 0
    <3>1. ~Malformed(r)
      BY <2>3 DEF Refused
    <3>2. r.scale \in Nat
      BY <2>1 DEF Request
    <3>3. ~(r.scale <= 1)
      BY <3>1, Zenon DEF Malformed
    <3> QED
      BY <3>2, <3>3 DEF Target
  <2>5. Constraints(job) = r.scale
    <3>1. CASE job.adapter \in {"ark-groth16", "ark-groth16-bls12-381"}
      BY <2>4, <3>1 DEF Constraints
    <3>2. CASE job.adapter = "ark-groth16-bls12-377"
      BY <3>2 DEF Constraints
    <3>3. CASE job.adapter = "jellyfish-plonk"
      BY <2>3, <2>4, <3>3 DEF Refused, SynthesisRefused
    <3>4. CASE job.adapter = "winterfell-stark"
      <4>1. ~StatePredicateEnabled(r)
        BY <2>3, <3>4 DEF Refused, TraceRefused
      <4>2. TraceRows(r) = r.scale /\ TraceWidth(r) = 1
        BY <2>4, <4>1 DEF TraceRows, TraceWidth
      <4> QED
        BY <2>4, <3>4, <4>2 DEF Constraints
    <3>5. CASE job.adapter = "bulletproofs-range"
      BY <2>4, <3>5 DEF Constraints
    <3> QED
      BY <2>1, <3>1, <3>2, <3>3, <3>4, <3>5 DEF Adapters
  <2> QED
    BY <2>2, <2>5
<1> QED
  BY <1>1, Inductive, PTL

(* An accepted answer is to the question asked: the two facts together.     *)
THEOREM AcceptedAnswersTheRequest == Spec => []AnswersTheRequest
<1>1. SizeMatched /\ RejectedForTheInput => AnswersTheRequest
  BY DEF AnswersTheRequest
<1> QED
  BY <1>1, NativeSizeIsProved, RejectionIsTheInputs, PTL

(* The file exported after an accepted run is this run's proof. *)
THEOREM ArtifactIsFresh == Spec => []ExportedIsFresh
<1>1. IInv => ExportedIsFresh
  <2> SUFFICES ASSUME IInv, Accepted, job.export = "local",
                      job.adapter \in MatrixAdapters
               PROVE  artifact = "fresh"
    BY DEF ExportedIsFresh
  <2>1. \E i \in DOMAIN Steps : Steps[i] = "write_proof_artifact"
    BY ProgramChecks DEF IInv, TypeOK, Steps
  <2> QED
    BY <2>1, AcceptedEndsWithResult DEF IInv, Established
<1> QED
  BY <1>1, Inductive, PTL
-----------------------------------------------------------------------------
(* The converse: the runner accepts what the configured campaigns produce.  *)

(* Where a transcript's size is read, it is the size the request named.     *)
LEMMA ConfiguredSizes ==
    ASSUME job.adapter \in Adapters, job.request \in Request,
           Configured(job.adapter, job.request)
    PROVE  /\ job.request.scale_mode = "application_units"
                => /\ ApplicationUnits(job) = job.request.scale
                   /\ "native_execution" \notin Unsupported(job.adapter)
           /\ job.request.scale_mode # "application_units"
                => NativeWorkUnits(job) = job.request.scale
<1> DEFINE r == job.request
<1>1. r.scale \in Nat
  BY DEF Request
<1>2. CASE PilotRequest(job.adapter, r)
  <2>1. r.scale_mode = "none" /\ Target(r) = 0
    BY <1>2 DEF PilotRequest, Target
  <2>2. CASE job.adapter = "winterfell-stark"
    <3>1. r.workload = Kernel
      BY <1>2, <2>2 DEF PilotRequest
    <3>2. TraceRows(r) = r.scale /\ TraceWidth(r) = 1
      BY <2>1, <3>1 DEF TraceRows, TraceWidth, StatePredicateEnabled, Kernel
    <3> QED
      BY <1>1, <2>1, <2>2, <3>2 DEF NativeWorkUnits
  <2>3. CASE job.adapter # "winterfell-stark"
    BY <2>1, <2>3 DEF NativeWorkUnits
  <2> QED
    BY <2>2, <2>3
<1>3. CASE ReproductionRequest(job.adapter, r)
  <2>1. /\ r.scale_mode = "target_native_size" /\ Target(r) = r.scale
        /\ job.adapter # "ark-groth16"
    BY <1>3 DEF ReproductionRequest, Target, MatrixAdapters
  <2>2. CASE job.adapter = "winterfell-stark"
    <3>1. ~StatePredicateEnabled(r)
      BY <1>3 DEF ReproductionRequest, StatePredicateEnabled
    <3>2. TraceRows(r) = r.scale /\ TraceWidth(r) = 1
      BY <2>1, <3>1 DEF TraceRows, TraceWidth
    <3> QED
      BY <1>1, <2>1, <2>2, <3>2 DEF NativeWorkUnits
  <2>3. CASE job.adapter # "winterfell-stark"
    BY <2>1, <2>3 DEF NativeWorkUnits
  <2> QED
    BY <2>2, <2>3
<1>4. CASE StateApplicationRequest(job.adapter, r)
  <2>1. /\ r.workload = "batched_state" /\ r.scale_mode = "application_units"
        /\ r.units = 0 /\ StatePredicateEnabled(r)
        /\ job.adapter \in {"ark-groth16-bls12-381", "jellyfish-plonk",
                            "winterfell-stark"}
    BY <1>4 DEF StateApplicationRequest, MatrixAdapters, StatePredicateEnabled
  <2> QED
    BY <2>1 DEF ApplicationUnits, UnitsOr, Unsupported
<1> QED
  BY <1>2, <1>3, <1>4 DEF Configured

(* The runner accepts every completed answer to a request the repository    *)
(* configures.                                                             *)
THEOREM ProtocolAgrees == Spec => []ConfiguredIsAccepted
<1>1. IInv => ConfiguredIsAccepted
  <2> DEFINE q == Asked(job.request)
             last == Len(out)
  <2> SUFFICES ASSUME IInv, exit = "ok", Configured(job.adapter, job.request)
               PROVE  Accepted
    BY DEF ConfiguredIsAccepted
  <2>1. pc = Len(Steps) + 1
    BY DEF IInv, ExitsAtTheEnd
  <2>2. job.adapter \in Adapters /\ job.request \in Request
    BY RequestsAssumption DEF IInv, TypeOK
  <2>3. /\ last \in DOMAIN out
        /\ out[last] = ResultLine(job, verdict = "accepted")
        /\ out[last].kind = "result"
        /\ T!ResultIndices(out) = {last}
    <3>1. out # <<>> /\ out[last].kind = "result"
      BY <2>1 DEF IInv, ResultWritten
    <3>2. last \in DOMAIN out
      BY <3>1 DEF IInv
    <3> QED
      BY <3>1, <3>2 DEF IInv, ResultWritten, T!ResultIndices
  <2>4. \A f \in COARSE_PHASES :
          \E i \in DOMAIN out : out[i] = PhaseLine(job, f)
    <3> SUFFICES ASSUME NEW f \in COARSE_PHASES
                 PROVE  \E i \in DOMAIN out : out[i] = PhaseLine(job, f)
      OBVIOUS
    <3>1. PICK k \in DOMAIN Steps : Steps[k] = f
      BY StepsWellFormed DEF IInv, WellFormed, ReportsCoarsePhases
    <3>2. k \in Passed
      BY <2>1, StepsWellFormed DEF IInv, WellFormed, EndsWithResult, Passed
    <3>3. f \in Phases \ {"invalid_reject"}
      BY DEF Phases, COARSE_PHASES
    <3> QED
      BY <3>1, <3>2, <3>3 DEF IInv, PhasesWritten
  <2>5. \A i \in T!PhaseIndices(out) : \E f \in Phases : out[i] = PhaseLine(job, f)
    BY DEF T!PhaseIndices, IInv, PhasesWritten
  <2>6. out[last].run = q.run
    BY <2>3 DEF ResultLine, Asked
  <2>7. T!ScaleAgrees(q, out, out[last])
    <3>1. CASE job.request.scale_mode = "application_units"
      <4>1. /\ ApplicationUnits(job) = job.request.scale
            /\ "native_execution" \notin Unsupported(job.adapter)
        BY <2>2, <3>1, ConfiguredSizes
      <4>2. PICK n \in DOMAIN out : out[n] = PhaseLine(job, "native_execution")
        BY <2>4 DEF COARSE_PHASES
      <4>3. /\ out[n].kind = "phase" /\ out[n].phase = "native_execution"
            /\ out[n].supported /\ out[n].units = job.request.scale
        BY <4>1, <4>2, PhaseLineFields
      <4>4. T!NativeIndices(out) = {n}
        BY <4>3 DEF T!NativeIndices, T!PhaseIndices, IInv, PhasesWritten
      <4> QED
        BY <3>1, <4>3, <4>4 DEF T!ScaleAgrees, Asked
    <3>2. CASE job.request.scale_mode # "application_units"
      BY <2>2, <2>3, <3>2, ConfiguredSizes, ResultLineFields
         DEF T!ScaleAgrees, Asked
    <3> QED BY <3>1, <3>2
  <2>8. T!VerdictAgrees(q, out[last])
    <3>1. (verdict = "accepted") = (job.request.invalid = "none")
      BY <2>1, EndedIsAudited DEF IInv, Established
    <3>2. out[last].verify = (verdict = "accepted")
      BY <2>3, ResultLineFields
    <3> QED
      BY <3>1, <3>2 DEF T!VerdictAgrees, Asked
  <2>9. T!PhasesAgree(q, out)
    BY <2>5, PhaseLineFields DEF T!PhasesAgree, Asked
  <2>10. T!NoDuplicatePhase(out)
    BY DEF T!NoDuplicatePhase, T!PhaseIndices, IInv, PhasesWritten
  <2>11. T!CoarsePhasesPresent(out)
    <3>1. \A f \in COARSE_PHASES :
            \E i \in T!PhaseIndices(out) : out[i].phase = f
      BY <2>4, PhaseLineFields DEF T!PhaseIndices
    <3> QED
      BY <3>1 DEF T!CoarsePhasesPresent
  <2>12. T!OneAdapter(out, out[last])
    BY <2>3, <2>5, PhaseLineFields DEF T!OneAdapter, ResultLine
  <2> QED
    BY <2>3, <2>6, <2>7, <2>8, <2>9, <2>10, <2>11, <2>12
       DEF Accepted, T!ValidateTranscript
<1> QED
  BY <1>1, Inductive, PTL
=============================================================================
