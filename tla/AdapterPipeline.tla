---------------------------- MODULE AdapterPipeline ----------------------------
(***************************************************************************)
(* One adapter process from the request on its standard input to its exit  *)
(* status.  The adapters (adapters/*/src) share the SDK (crates/adapter-   *)
(* sdk) and one shape: a fixed sequence of steps, some of which write a    *)
(* phase line, any of which may fail and end the process with status 1.    *)
(* Program gives each adapter's sequence.  The lines written are those of  *)
(* Transcript, so that ValidateTranscript, which the runner applies to     *)
(* them, can be asked what it makes of every sequence an adapter may leave *)
(* behind, cut short by a failure or by the runner's kill or complete.     *)
(*                                                                         *)
(* A request is abstracted to the fields its handling depends on.  0 is an *)
(* absent numeric parameter, "none" an absent one of another kind;         *)
(* "widths" stands for the parameters that shape a relation (bit widths,   *)
(* hash rounds, Merkle depth, ablation): "common" ones every adapter       *)
(* takes, "unusual" ones the state AIR does not have, "refused" ones are   *)
(* above 64 bits.                                                          *)
(*                                                                         *)
(* Arithmetic is left out: job.satisfied says whether the witness the      *)
(* program builds satisfies the relation, job.size is the size of the      *)
(* relation before padding, and a proof verifies iff it was made from a    *)
(* satisfying witness and is checked against the inputs it was made for.   *)
(***************************************************************************)
EXTENDS Naturals, Sequences, FiniteSets

CONSTANTS
    Requests,   \* the requests a process may read
    Sizes       \* the sizes a relation may have before padding

Kernel == "controlled_kernel"
Applications == {"credential", "batched_state", "private_swap"}
WorkloadNames == Applications \cup {Kernel, "sha256", "unknown_workload"}

Adapters == {"ark-groth16", "ark-groth16-bls12-377", "ark-groth16-bls12-381",
             "jellyfish-plonk", "winterfell-stark", "bulletproofs-range"}

Request ==
    [run : STRING, workload : WorkloadNames, scale : Nat, threads : Nat,
     invalid : {"none", "wrong_public_input", "other"},
     scale_mode : {"none", "application_units", "target_native_size", "other"},
     target : Nat,    \* parameters["target_native_size"]
     units : Nat,     \* parameters["application_units"]
     stark_mode : {"none", "application_predicate", "size_proxy", "other"},
     schedule : {"none", "linear-v1", "splitmix64-v1", "other"},
     widths : {"none", "common", "unusual", "refused"}]

ASSUME RequestsAssumption == Requests \subseteq Request
ASSUME SizesAssumption == Sizes \subseteq Nat \ {0}

VARIABLES
    job,        \* the adapter, its request and environment
    pc,         \* the next step of Program(job.adapter)
    out,        \* the lines written to standard output
    altered,    \* the public inputs differ from those proved
    verdict,    \* what verification returned
    artifact,   \* the file at ZKBENCH_PROOF_ARTIFACT_PATH
    exit        \* how the process ended

vars == <<job, pc, out, altered, verdict, artifact, exit>>

COARSE_PHASES == {"native_execution", "setup_or_preprocess", "key_load",
                  "witness", "prove_total", "serialize", "verify_total"}

Phases == COARSE_PHASES \cup
    {"constraint_synthesis", "witness_assignment", "satisfiability_check",
     "fft_ntt", "msm", "commitment", "deserialize", "verify_core",
     "invalid_reject"}

T == INSTANCE Transcript WITH CoarsePhases <- COARSE_PHASES

-----------------------------------------------------------------------------
(* What each adapter does, in order.  A name of Phases is the emission of  *)
(* that phase, the rest are steps that write nothing.                      *)

ArkGroth16 ==
    <<"validate", "configure_rayon", "build_plan", "native_execution",
      "synthesize", "is_satisfied", "witness", "setup_or_preprocess",
      "prove_total", "serialize", "invalid_case", "verify",
      "deserialize", "verify_core", "invalid_reject", "verify_total",
      "fft_ntt", "msm", "commitment", "key_load", "result">>

ArkGroth16Bls377 ==
    <<"validate", "build_plan", "configure_rayon", "native_execution",
      "synthesize", "is_satisfied", "witness", "setup_or_preprocess",
      "prove_total", "serialize", "deserialize", "invalid_case",
      "verify", "verify_core", "invalid_reject", "verify_total",
      "fft_ntt", "msm", "commitment", "key_load", "result">>

ArkGroth16Bls381 ==
    <<"validate", "configure_rayon", "build_plan", "native_execution",
      "synthesize", "constraint_synthesis", "witness_assignment",
      "satisfiability_check", "is_satisfied", "witness",
      "setup_or_preprocess", "prove_total", "serialize",
      "write_proof_artifact", "deserialize", "invalid_case", "verify",
      "verify_core", "invalid_reject", "verify_total",
      "fft_ntt", "msm", "commitment", "key_load", "result">>

JellyfishPlonk ==
    <<"validate", "configure_rayon", "build_plan", "native_execution",
      "synthesize", "constraint_synthesis", "witness_assignment",
      "is_satisfied", "satisfiability_check", "witness",
      "setup_or_preprocess", "prove_total", "serialize",
      "write_proof_artifact", "invalid_case", "verify", "deserialize",
      "verify_core", "invalid_reject", "verify_total",
      "fft_ntt", "msm", "commitment", "key_load", "result">>

WinterfellStark ==
    <<"validate", "build_plan", "configure_rayon", "trace_rows",
      "native_execution", "witness", "setup_or_preprocess", "key_load",
      "msm", "fft_ntt", "prove_total", "serialize",
      "write_proof_artifact", "deserialize", "invalid_case", "verify",
      "verify_total", "invalid_reject", "result">>

BulletproofsR1cs ==
    <<"validate", "build_plan", "native_execution",
      "setup_or_preprocess", "key_load", "commitment", "witness",
      "prove_total", "serialize", "write_proof_artifact",
      "deserialize", "fft_ntt", "msm", "invalid_case", "verify",
      "verify_core", "verify_total", "invalid_reject", "result">>

Program(adapter) ==
    CASE adapter = "ark-groth16" -> ArkGroth16
      [] adapter = "ark-groth16-bls12-377" -> ArkGroth16Bls377
      [] adapter = "ark-groth16-bls12-381" -> ArkGroth16Bls381
      [] adapter = "jellyfish-plonk" -> JellyfishPlonk
      [] adapter = "winterfell-stark" -> WinterfellStark
      [] adapter = "bulletproofs-range" -> BulletproofsR1cs

(* The phases an adapter reports without a measurement. *)
Unsupported(adapter) ==
    CASE adapter = "ark-groth16" -> {"fft_ntt", "msm", "commitment", "key_load"}
      [] adapter = "ark-groth16-bls12-377" ->
           {"fft_ntt", "msm", "commitment", "key_load"}
      [] adapter \in {"ark-groth16-bls12-381", "jellyfish-plonk"} ->
           {"fft_ntt", "msm", "commitment", "key_load", "witness_assignment"}
      [] adapter = "winterfell-stark" ->
           {"setup_or_preprocess", "key_load", "msm", "fft_ntt"}
      [] adapter = "bulletproofs-range" -> {"key_load", "fft_ntt", "msm"}

Workloads(adapter) ==
    CASE adapter = "ark-groth16" -> Applications \cup {Kernel, "sha256"}
      [] adapter = "ark-groth16-bls12-377" -> {Kernel}
      [] OTHER -> Applications \cup {Kernel}

-----------------------------------------------------------------------------
(* The relation a request asks for. *)

HasParameters(r) ==
    \/ r.scale_mode # "none" \/ r.target # 0 \/ r.units # 0
    \/ r.stark_mode # "none" \/ r.schedule # "none" \/ r.widths # "none"

(* The size an application is padded to, 0 for none. *)
Target(r) == IF r.scale_mode = "target_native_size" THEN r.scale ELSE r.target

UnitsOr(r, default) == IF r.units # 0 THEN r.units ELSE default

(* Whether the STARK adapter proves the state predicate itself or the size *)
(* proxy: a request that names neither gets the predicate only if it asks  *)
(* for no native size.                                                     *)
StatePredicateEnabled(r) ==
    /\ r.workload = "batched_state"
    /\ \/ r.stark_mode = "application_predicate"
       \/ /\ r.stark_mode = "none"
          /\ r.scale_mode \in {"none", "application_units"}
          /\ r.target = 0

TraceWidth(r) == IF StatePredicateEnabled(r) THEN 29 ELSE 1

TraceRows(r) ==
    IF StatePredicateEnabled(r) THEN r.scale + 1
    ELSE IF Target(r) # 0 THEN Target(r) ELSE r.scale

IsPowerOfTwo(n) == \E k \in 0..n : n = 2^k

(* Rows of the evaluation domain of a circuit of n gates. *)
Domain(n) == CHOOSE d \in n..(2 * n - 1) : IsPowerOfTwo(d)

(* TurboPLONK pads the gates to just over half of the target and leaves    *)
(* the rest to the domain.                                                 *)
Padded(n, target) == IF n > target \div 2 THEN n ELSE target \div 2 + 1

(* Mutant of AnswersTheRequest: the R1CS is not padded. *)
ConstraintsUnpadded(j) ==
    LET r == j.request
    IN CASE j.adapter = "jellyfish-plonk" ->
                Domain(IF Target(r) # 0 THEN Padded(j.size, Target(r))
                       ELSE j.size)
         [] j.adapter = "winterfell-stark" -> TraceRows(r) * TraceWidth(r)
         [] j.adapter = "bulletproofs-range" /\ Target(r) # 0 -> Target(r)
         [] OTHER -> IF r.workload = Kernel THEN r.scale ELSE j.size

(* The size of the relation proved, in the adapter's own unit. *)
Constraints(j) ==
    LET r == j.request
    IN CASE j.adapter \in {"ark-groth16", "ark-groth16-bls12-381"} ->
                IF r.workload = Kernel THEN r.scale
                ELSE IF Target(r) # 0 THEN Target(r) ELSE j.size
         [] j.adapter = "ark-groth16-bls12-377" -> r.scale
         [] j.adapter = "jellyfish-plonk" ->
                Domain(IF Target(r) # 0 THEN Padded(j.size, Target(r))
                       ELSE j.size)
         [] j.adapter = "winterfell-stark" -> TraceRows(r) * TraceWidth(r)
         [] j.adapter = "bulletproofs-range" ->
                IF Target(r) # 0 THEN Target(r)
                ELSE IF r.workload = Kernel THEN r.scale ELSE j.size

(* Mutant of ConfiguredIsAccepted: rows are reported instead of cells, and *)
(* updates instead of rows.                                                *)
NativeWorkUnitsOfTrace(j) ==
    IF j.adapter = "winterfell-stark" THEN TraceRows(j.request) - 1
    ELSE j.request.scale

(* The result's native_work_units. *)
NativeWorkUnits(j) ==
    LET r == j.request
    IN CASE j.adapter = "ark-groth16" ->
                IF Target(r) # 0 THEN Target(r) ELSE r.scale
         [] j.adapter = "winterfell-stark" -> TraceRows(r) * TraceWidth(r)
         [] OTHER -> r.scale

(* The metric application_units of native_execution, 0 when it has none. *)
ApplicationUnits(j) ==
    LET r == j.request
    IN CASE j.adapter = "ark-groth16-bls12-377" \/ r.workload = "sha256" -> 0
         [] j.adapter \in {"ark-groth16", "ark-groth16-bls12-381"} ->
                IF r.scale_mode = "target_native_size" THEN UnitsOr(r, 2)
                ELSE r.scale
         [] j.adapter = "winterfell-stark" ->
                IF StatePredicateEnabled(r) THEN r.scale
                ELSE UnitsOr(r, r.scale)
         [] OTHER -> UnitsOr(r, r.scale)

(* The schedule of the state deltas that the relation proved uses. *)
DeltaSchedule(j) ==
    IF j.request.schedule # "none" THEN j.request.schedule
    ELSE IF j.adapter = "winterfell-stark" /\ StatePredicateEnabled(j.request)
         THEN "splitmix64-v1" ELSE "linear-v1"

-----------------------------------------------------------------------------
(* Requests an adapter turns down, at the step that does. *)

Malformed(r) ==
    \/ r.run = "" \/ r.scale <= 1 \/ r.threads = 0
    \/ r.target = 1 \/ r.units = 1

(* An application relation of the pairing adapters. *)
UnknownParameters(r) ==
    r.scale_mode = "other" \/ r.schedule = "other" \/ r.widths = "refused"

PlanRefused(j) ==
    LET r == j.request
    IN \/ r.workload \notin Workloads(j.adapter)
       \/ CASE j.adapter \in {"ark-groth16", "ark-groth16-bls12-381"} ->
                  IF r.workload \in Applications THEN UnknownParameters(r)
                  ELSE HasParameters(r)
            [] j.adapter = "ark-groth16-bls12-377" -> HasParameters(r)
            [] j.adapter = "jellyfish-plonk" ->
                  r.workload \in Applications /\ UnknownParameters(r)
            [] j.adapter = "winterfell-stark" ->
                  r.workload = Kernel /\ HasParameters(r)
            [] j.adapter = "bulletproofs-range" ->
                  r.scale_mode \notin {"none", "target_native_size"}

(* The state AIR is fixed; the proxy only needs a size. *)
TraceRefused(r) ==
    \/ r.workload = "batched_state" /\ r.stark_mode = "other"
    \/ ~IsPowerOfTwo(TraceRows(r))
    \/ IF StatePredicateEnabled(r)
       THEN \/ r.scale_mode \notin {"none", "application_units"}
            \/ r.widths \notin {"none", "common"}
            \/ r.schedule \notin {"none", "splitmix64-v1"}
       ELSE r.scale_mode = "other"

(* A circuit that does not fit its target is refused while it is built. *)
SynthesisRefused(j) ==
    LET r == j.request
    IN IF j.adapter = "jellyfish-plonk"
       THEN \/ r.workload = Kernel /\ HasParameters(r)
            \/ /\ Target(r) # 0
               /\ \/ ~IsPowerOfTwo(Target(r))
                  \/ j.size > Target(r)
                  \/ Constraints(j) # Target(r)
       ELSE Target(r) # 0 /\ j.size > Target(r)

InvalidCaseRefused(j) ==
    /\ j.adapter # "bulletproofs-range"
    /\ j.request.invalid = "other"

(* Mutant of AnswersTheRequest: the satisfiability check is dropped. *)
RefusedUnaudited(j, step) ==
    \/ step = "validate" /\ Malformed(j.request)
    \/ step = "build_plan" /\ PlanRefused(j)
    \/ step = "trace_rows" /\ TraceRefused(j.request)
    \/ step = "synthesize" /\ SynthesisRefused(j)
    \/ step = "write_proof_artifact" /\ j.export = "outside"
    \/ step = "invalid_case" /\ InvalidCaseRefused(j)

Refused(j, step) ==
    \/ step = "validate" /\ Malformed(j.request)
    \/ step = "build_plan" /\ PlanRefused(j)
    \/ step = "trace_rows" /\ TraceRefused(j.request)
    \/ step = "synthesize" /\ SynthesisRefused(j)
    \/ step = "is_satisfied" /\ ~j.satisfied
    \/ step = "write_proof_artifact" /\ j.export = "outside"
    \/ step = "invalid_case" /\ InvalidCaseRefused(j)

(* Relations whose witness is computed by the very steps they check. *)
SatisfiedByConstruction(adapter, r) ==
    adapter \in {"winterfell-stark", "bulletproofs-range"}
        \/ r.workload \in {Kernel, "sha256"}

-----------------------------------------------------------------------------
(* The lines. *)

PhaseLine(j, phase) ==
    [kind |-> "phase", run |-> j.request.run, adapter |-> j.adapter,
     phase |-> phase, threads |-> j.request.threads,
     supported |-> phase \notin Unsupported(j.adapter),
     units |-> IF phase = "native_execution" THEN ApplicationUnits(j) ELSE 0]

ResultLine(j, ok) ==
    [kind |-> "result", run |-> j.request.run, adapter |-> j.adapter,
     units |-> NativeWorkUnits(j), verify |-> ok,
     constraints |-> Constraints(j)]

-----------------------------------------------------------------------------
(* The steps of a process. *)

Init ==
    /\ \E a \in Adapters, r \in Requests, n \in Sizes, s \in BOOLEAN,
          e \in {"unset", "local", "outside"} :
          /\ SatisfiedByConstruction(a, r) => s
          /\ job = [adapter |-> a, request |-> r, size |-> n,
                    satisfied |-> s, export |-> e]
    /\ pc = 1
    /\ out = <<>>
    /\ altered = FALSE
    /\ verdict = "none"
    /\ artifact = "stale"
    /\ exit = "running"

(* Mutant of AcceptedIsComplete: the last two steps change places. *)
StepsResultFirst ==
    LET p == Program(job.adapter)
    IN [p EXCEPT ![Len(p) - 1] = "result", ![Len(p)] = p[Len(p) - 1]]

Steps == Program(job.adapter)

Step == Steps[pc]

Running == exit = "running" /\ pc \in DOMAIN Steps

Proceed == pc' = pc + 1 /\ UNCHANGED <<job, exit>>

(* validate, configure_rayon, build_plan, trace_rows, synthesize and       *)
(* is_satisfied: nothing is written unless they refuse.                    *)
Check ==
    /\ Running
    /\ Step \in {"validate", "configure_rayon", "build_plan", "trace_rows",
                 "synthesize", "is_satisfied"}
    /\ ~Refused(job, Step)
    /\ Proceed
    /\ UNCHANGED <<out, altered, verdict, artifact>>

(* Mutant of TypeOK: a phase is printed twice. *)
EmitTwice ==
    /\ Running
    /\ Step \in Phases
    /\ out' = out \o <<PhaseLine(job, Step), PhaseLine(job, Step)>>
    /\ Proceed
    /\ UNCHANGED <<altered, verdict, artifact>>

(* A phase is reported; invalid_reject only for an invalid case, whatever  *)
(* verification returned.                                                  *)
Emit ==
    /\ Running
    /\ Step \in Phases
    /\ out' = IF Step = "invalid_reject" /\ job.request.invalid = "none"
              THEN out ELSE Append(out, PhaseLine(job, Step))
    /\ Proceed
    /\ UNCHANGED <<altered, verdict, artifact>>

(* Mutant of ExportedIsFresh: the proof of an invalid case is not kept. *)
WriteValidProofArtifact ==
    /\ Running
    /\ Step = "write_proof_artifact"
    /\ ~Refused(job, Step)
    /\ artifact' = IF job.export = "local" /\ job.request.invalid = "none"
                   THEN "fresh" ELSE artifact
    /\ Proceed
    /\ UNCHANGED <<out, altered, verdict>>

(* The proof is written before it is verified. *)
WriteProofArtifact ==
    /\ Running
    /\ Step = "write_proof_artifact"
    /\ ~Refused(job, Step)
    /\ artifact' = IF job.export = "local" THEN "fresh" ELSE artifact
    /\ Proceed
    /\ UNCHANGED <<out, altered, verdict>>

InvalidCase ==
    /\ Running
    /\ Step = "invalid_case"
    /\ ~Refused(job, Step)
    /\ altered' = (job.request.invalid # "none")
    /\ Proceed
    /\ UNCHANGED <<out, verdict, artifact>>

Verify ==
    /\ Running
    /\ Step = "verify"
    /\ verdict' = IF job.satisfied /\ ~altered THEN "accepted" ELSE "rejected"
    /\ Proceed
    /\ UNCHANGED <<out, altered, artifact>>

EmitResult ==
    /\ Running
    /\ Step = "result"
    /\ out' = Append(out, ResultLine(job, verdict = "accepted"))
    /\ Proceed
    /\ UNCHANGED <<altered, verdict, artifact>>

(* A refusal, an error of a library, a measurement of zero time or a       *)
(* closed pipe: the lines already written stay.                            *)
Fail ==
    /\ Running
    /\ exit' = "failed"
    /\ UNCHANGED <<job, pc, out, altered, verdict, artifact>>

(* The runner's time limit. *)
Killed ==
    /\ exit = "running"
    /\ exit' = "killed"
    /\ UNCHANGED <<job, pc, out, altered, verdict, artifact>>

Exit ==
    /\ exit = "running"
    /\ pc > Len(Steps)
    /\ exit' = "ok"
    /\ UNCHANGED <<job, pc, out, altered, verdict, artifact>>

Next ==
    \/ Check \/ Emit \/ WriteProofArtifact \/ InvalidCase \/ Verify
    \/ EmitResult \/ Fail \/ Killed \/ Exit

Spec == Init /\ [][Next]_vars

-----------------------------------------------------------------------------
(* Properties. *)

(* What validate_transcript compares of the request.  Every line of an     *)
(* adapter is an event, so out is what parse_json_lines returns of it.     *)
Asked(r) == [run |-> r.run, scale |-> r.scale, threads |-> r.threads,
             invalid |-> r.invalid # "none", scale_mode |-> r.scale_mode]

Accepted == T!ValidateTranscript(Asked(job.request), out)

(* The requests the configurations of the repository make of an adapter:   *)
(* the pilots, the native-size matrix and the application matrix.          *)
PilotRequest(adapter, r) ==
    /\ r.scale_mode = "none" /\ r.target = 0 /\ r.units = 0
    /\ r.stark_mode = "none" /\ r.schedule = "none"
    /\ \/ r.workload = Kernel /\ r.widths = "none"
       \/ r.workload = "sha256" /\ r.widths = "none" /\ adapter = "ark-groth16"
       \/ /\ r.workload \in Applications /\ r.widths = "common"
          /\ adapter \in {"ark-groth16", "jellyfish-plonk"}
       \/ /\ r.workload = "private_swap" /\ r.widths = "common"
          /\ adapter = "bulletproofs-range"

MatrixAdapters == {"ark-groth16-bls12-381", "jellyfish-plonk",
                   "winterfell-stark", "bulletproofs-range"}

ReproductionRequest(adapter, r) ==
    /\ adapter \in MatrixAdapters
    /\ r.workload \in Applications /\ r.widths = "common"
    /\ r.scale_mode = "target_native_size" /\ r.units = 2 /\ r.target = 0
    /\ r.stark_mode = "none" /\ r.schedule = "none"

StateApplicationRequest(adapter, r) ==
    /\ adapter \in MatrixAdapters \ {"bulletproofs-range"}
    /\ r.workload = "batched_state" /\ r.widths = "common"
    /\ r.scale_mode = "application_units" /\ r.units = 0 /\ r.target = 0
    /\ r.stark_mode = "application_predicate"
    /\ r.schedule = "splitmix64-v1"

Configured(adapter, r) ==
    /\ r.invalid # "other"
    /\ \/ PilotRequest(adapter, r)
       \/ ReproductionRequest(adapter, r)
       \/ StateApplicationRequest(adapter, r)

TypeOK ==
    /\ job \in [adapter : Adapters, request : Requests, size : Sizes,
                satisfied : BOOLEAN, export : {"unset", "local", "outside"}]
    /\ pc \in 1..(Len(Steps) + 1)
    /\ \A i \in DOMAIN out : out[i].kind \in {"phase", "result"}
    /\ Len(out) < pc
    /\ altered \in BOOLEAN
    /\ verdict \in {"none", "accepted", "rejected"}
    /\ artifact \in {"stale", "fresh"}
    /\ exit \in {"running", "ok", "failed", "killed"}

(* No transcript cut short, by a failure or by the runner's kill, passes   *)
(* for a complete one: whatever validate_transcript accepts was written by *)
(* a process with no step left but to exit.                                *)
AcceptedIsComplete == Accepted => pc > Len(Steps)

(* The adapters and the runner agree on the protocol: a request of the     *)
(* repository's configurations that an adapter answers with status 0 has   *)
(* a transcript that is accepted, with the size reported as the mode of    *)
(* the request wants it, every coarse phase once, and the right verdict.   *)
ConfiguredIsAccepted ==
    exit = "ok" /\ Configured(job.adapter, job.request) => Accepted

(* An accepted answer to a native-size request proved a relation of just   *)
(* that size in the adapter's own unit, whatever the application needed.   *)
SizeMatched ==
    Accepted /\ job.request.scale_mode = "target_native_size" =>
        out[Len(out)].constraints = job.request.scale

(* An accepted rejection is due to the altered input: the same proof would *)
(* have verified against the inputs it was made for.                       *)
RejectedForTheInput ==
    Accepted /\ job.request.invalid # "none" => job.satisfied /\ altered

(* So an accepted answer is to the question that was asked, its size and   *)
(* its verdict alike, whatever the adapter made of the request on its way. *)
AnswersTheRequest == SizeMatched /\ RejectedForTheInput

(* What export_identity_proofs finds at the artifact's path after an       *)
(* accepted run is this run's proof and not an earlier export's.           *)
ExportedIsFresh ==
    Accepted /\ job.export = "local" /\ job.adapter \in MatrixAdapters =>
        artifact = "fresh"

(* EXPERIMENTS.md: "The deterministic splitmix64-v1 fixture schedule is    *)
(* opt-in": an accepted state relation uses it only if the request says so. *)
ScheduleIsOptIn ==
    /\ Accepted
    /\ job.request.workload = "batched_state"
    /\ DeltaSchedule(job) = "splitmix64-v1"
    => job.request.schedule = "splitmix64-v1"
=============================================================================
