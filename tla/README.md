# TLA+ verification of ZK-Bench

ZK-Bench is a benchmark for zero-knowledge proof systems. A Python orchestrator
(`src/zkbench`, `scripts`) starts one Rust adapter process per measurement
(`adapters`, `crates`), records what it reports, summarises the rows, and validates
the resulting bundle before any number may be quoted. A second campaign pays for
transactions on Base Sepolia and validates a bundle of chain results.

The numbers themselves are not what a model can check. What it can check is the
machinery that decides *which numbers count*: threads that sample while a process
runs, timeouts, files written by processes that can be killed, RPC waits that give
up, budgets, and validators that accept or reject what is left on disk; and that the
proofs which are timed are proofs of what the benchmark says: the relations of the
adapters, and the Bulletproofs protocols of the vendored crate. This
directory models both, model-checks them with TLC, and proves the central
facts with TLAPS. Paths below are relative to the repository root.

## 1. Inventory

### Adapter runner - `src/zkbench/adapter_runner.py`
* **State**: the child process and its pipes, a stop event, two sampler threads,
  a counter accumulator and a system-memory accumulator (first, last, least sample).
* **Operations**: `execute_adapter` (capture, Popen, start samplers, communicate with a
  timeout, kill and drain, stop, join, capture again, judge), `validate_transcript`.
* **Interactions**: called by the campaign and by the equivalence scripts, writes a request to the
  adapter's stdin, reads procfs through `system_metrics.py`.
* **Hard**: a capture and the add that follows are two steps of a thread; the adapter
  may exit at the moment the timer runs out; an exception travels through `finally`.
* **Right when**: the swap verdict covers the whole life of the adapter; an accepted
  answer is whole and in time; a returned call leaves nothing running; it always ends.

### Adapter protocol - `src/zkbench/adapter_protocol.py`
* **State**: none; request and event records, `parse_json_lines`, `COARSE_PHASES`.
* **Right when**: what it accepts has each coarse phase once and one result.

### Counter providers - `src/zkbench/system_metrics.py`
* **State**: none; a capture is a good sample or one with `supported = False`.
* **Hard**: procfs of a process that has just been reaped.

### Measured campaign - `src/zkbench/campaign.py`
* **State**: the output directory (`config.json`, `environment.json`,
  `raw_results.csv`, `summary.csv`, `logs/`), the open raw file, the list of rows.
* **Operations**: `load_campaign_config`, `_tasks`, `run_adapter_campaign`,
  `execution_rows`, `write_campaign_summary`.
* **Hard**: killed between two files or rows; started twice on one directory; the
  evidence check and the creation of the files are apart; a failed run is recorded
  before the campaign stops.
* **Right when**: rows are only added, no run follows a failed one, a bundle that
  validates is exactly the configured campaign.

### Bundle validation and resummarize - `src/zkbench/result_validation.py`, `scripts/resummarize_campaign.py`
* **State**: the bundle on disk; `resummarize` replaces the summary through a
  temporary file.
* **Hard**: `resummarize` may run while the campaign does; the validator reads files
  an interrupted process left.

### Base Sepolia publication - `scripts/run_base_sepolia_publication.py`, `src/zkbench/base_sepolia.py`, `src/zkbench/chain.py`
* **State**: `TransactionBudget`, the task list (one task for each repetition and each entry of the `--system`
  list, which may repeat a name), the rows, `raw_results.jsonl`,
  `raw_results.csv`, `summary.csv`, `estimates.json`; outside, the wallet and the chain.
* **Operations**: gate, estimate, reserve, read balance, sign and send, wait for the receipt,
  wait for the balance, fetch again, record, rewrite the tables.
* **Hard**: a sent transaction whose answer is lost; waits that give up; a receipt that
  is still provisional; tables rewritten in place after every row; a `--system` named twice.
* **Right when**: the wallet never loses more than was reserved, the fees in a validated bundle are
  final, no transaction is sent while another one is unrecorded, and a validated bundle accounts for every wei (which
  it does when no system was named twice, or the campaign came to its end).

### Chain bundle validation - `scripts/validate_chain_results.py`
* Row counts, fees against the wallet's loss, caps, summary coverage.

### Rust side
* **Adapter SDK** (`crates/adapter-sdk`): request validation, measured and unsupported
  phases, emission of the events.
* **Adapters** (`adapters/*`): Groth16 on three curves, PLONK, STARK, Bulletproofs.
  One sequential pipeline each: setup, witness, prove, verify, serialise, emit.
  *Hard*: any step may fail with lines already printed; each adapter reports its size in its own unit
  and fills in missing parameters on its own. *Right when*: what the runner accepts is a whole, honest answer
  of the size asked for, and what the campaigns ask for is accepted.
* **Application relations** (`adapters/ark-groth16/src/relations.rs`,
  `adapters/jellyfish-plonk/src/relations.rs`, `adapters/winterfell-stark/src/main.rs`): credential, batched state,
  private swap and the controlled kernel, once as rank-1 constraints, once as gates, and batched state and
  a size proxy once as a trace. *State*: the wires a unit hands on, the rows of a trace. *Operations*: one unit or
  row at a time, then the comparison with the public inputs. *Hard*: four encodings written apart from the
  function that computes the public inputs; tests only prove the code's own assignment. *Right when*: each
  is satisfied exactly by the assignments of which the application's predicate holds.
* **Bulletproofs adapter** (`adapters/bulletproofs-range`): two paths behind one process. The range workload runs an
  aggregated range proof (`main.rs`), every other one a chain of multiplications in the R1CS proof
  system (`r1cs.rs`).
* **Inner-product argument** (`crates/bulletproofs-vendor/src/inner_product_proof.rs`). *State*: two vectors with
  their generators, halved in every round, cross terms, the transcript. *Hard*: the first round is unrolled and
  scales the generators, the verifier computes all folds at once from the bits of an index. *Right when*: the
  claim survives every round and nothing but the proved claim verifies.
* **Aggregated range proof** (`crates/bulletproofs-vendor/src/range_proof`): dealer and parties, each a chain of types, in
  three rounds of messages, then the verifier. *Hard*: parties that deviate, messages that are exchanged or missing,
  three computations of one polynomial. *Right when*: honest sessions verify, the audit blames exactly the
  deviants, nothing verifies for a value out of range.
* **R1CS proof system** (`crates/bulletproofs-vendor/src/r1cs`): a gadget is run by a prover and by a verifier, each with a
  constraint system of its own; closures run after the first phase is committed to, with challenges.
  *Hard*: two implementations of one interface must allocate alike; half-allocated multipliers; two phases and
  their padding. *Right when*: both build the same system, committed wires stay, and the
  proof verifies if and only if the assignment satisfies it.
* **Arithmetic benchmark** (`crates/arithmetic-bench`): timed loops.

### The rest
* `analysis.py` (percentiles, bootstrap, saturation points), `runner.py`,
  `workloads.py`, `fixtures.py`, `energy.py`; scripts that promote a campaign, guard a
  release, audit swap verdicts and derive tables. `PROJECT.json` lists each of them
  with its status.

## 2. Modules

| module | models | refines |
| --- | --- | --- |
| `Transcript` | `parse_json_lines`, `validate_transcript` as operators on sequences of lines | |
| `AdapterRunner` | `execute_adapter`, its samplers, the adapter process, the kernel's swap counter | `AdapterExecution` |
| `AdapterExecution` | what a call promises: at most one process, a verdict given once and only when it is gone | |
| `AdapterRunnerProofs` | the proofs about `AdapterRunner` | |
| `Publication` | the publication script, the network, the chain validator | `PublicationLedger` |
| `PublicationLedger` | one transaction at a time, the next after the last is on record | |
| `PublicationProofs` | the proofs about `Publication` | |
| `Campaign` | campaign processes, resummarize, the bundle validator | `EvidenceLog` |
| `CampaignProofs` | the proofs about `Campaign` | |
| `AdapterPipeline` | one adapter process: its steps, what it refuses, the lines it prints, the exported proof; instantiates `Transcript` | |
| `AdapterPipelineProofs` | the proofs about `AdapterPipeline` | |
| `EvidenceLog` | one writer, rows only added, nothing after it closed | |
| `Relations` | what the adapters compute of an application outside the proof systems: values of a seed, hash, public inputs | |
| `ArkRelations`, `JellyfishRelations`, `StateAir` | the relations as rank-1 constraints, as gates, as transition constraints and assertions | |
| `ApplicationRelations` | a relation synthesized unit by unit, or evaluated row by row, from a chosen assignment; composes the four above | |
| `Scalars`, `Points` | scalars, vectors and polynomials; formal points, generators, the transcript | |
| `InnerProductProof`, `InnerProductArgument` | the argument's functions; one run of it with its verifier | |
| `BulletproofLemmas` | lemmas about the operators of the vendored protocols: induction, the field of scalars, sums, powers, points, transcripts, proofs as bytes, what a round of the inner-product argument keeps | |
| `InnerProductArgumentProofs` | the proofs about `InnerProductArgument` | |
| `RangeProof`, `RangeProofMPC` | what parties, dealer and verifier compute; a session of them | |
| `RangeProofMPCProofs` | the proofs about `RangeProofMPC` | |
| `RangeWorkload` | the sessions the Bulletproofs adapter holds for its range workload | |
| `LinearCombinations` | variables, linear combinations, gadgets as the calls they make | |
| `ConstraintSystem` | what a gadget relies on: same calls, same variables, same constraints | |
| `R1CSProver`, `R1CSVerifier` | the two constraint systems, prove and verify | `ConstraintSystem`, each |
| `R1CSChain` | the chain relation of the Bulletproofs adapter as a gadget | |
| `R1CSProof` | prover, bytes, verifier; composes the prover's and the verifier's system with the chain's gadget | |
| `R1CSProofs` | the proofs about the two systems and `R1CSProof` | |
| `MC*` | the instances for TLC | |

### AdapterRunner
`main` is the program counter of the calling thread; each value is the statement it is
about to run (`first_capture` is line 325, `communicate` line 362, and so on). `sampler[t]`
is the loop of a sampler: `capture` reads, `add` adds, `wait` is `stop.wait(interval)`.
Between `capture` and `add` the sample lives in `heldSys`/`heldProc`. A sample is
`[avail, swaps]`: `MemAvailable` and `pswpin + pswpout`, or `NoSample` when procfs could not
be read. `swapped` is the kernel's own counter; `swapAtSpawn` and `swapAtReap` are
history variables, read by no action. The child is `running`, `exited` (a zombie) or
`reaped`, since `Popen.kill` and `communicate` behave differently for each.
A script of lines stands for what the adapter would write; it may end anywhere in it, with
code 0 or 1. `Judge` is the code after the `finally` block and the `succeeded` property.
`StartFails` is the one path on which the code leaves a process behind: both
`Thread.start` calls are before the `try`. The abstract contract says so: only a call that
raised may leave the adapter alive.

The data left out: the maxima of the process counters, the byte conversions, the memory
totals and the reason texts. `ProcAdd` keeps whether a read succeeded.

### Publication
`pc` is the place in the task loop. A transaction in `chain` is `pending`, `preconfirmed`
(the receipt is visible, its L1 fee still provisional) or `included` (final, and taken
from the wallet, whose losses are `spent`). `Reserve`, `ReadBalance`, `Send`,
`ReceiptArrives`/`ReceiptTimeout`, `BalanceChanges`/`BalanceTimeout`, `Refetch`,
`AppendRow`/`RowRaises` are the statements of the loop; `OpenCsv`, `WriteCsvRow`,
`OpenSummary` and `WriteSummary` are the two rewrites, with the truncation of each as a step
of its own. Files are the number of rows they hold, or were computed from: each is always
a prefix of `rows`. `RpcRaises` is any exception of a call, `Crash` a kill.
`Validated` is `validate_chain_results.py`.

`systems` is the list `--system` builds up, by default every artifact once. A task is a repetition and a *place* in
that list, since the code makes a task of each entry and removes no duplicates; `Entry` is what a row says
of it, the repetition and the name. With a repeated name there are more tasks than the validator expects
rows, for it counts rows per system and looks at neither the repetitions nor the log. Such a campaign killed when the
table happens to have the expected number of rows may leave a bundle that validates with one repetition twice and another one
missing, or with a transaction more on the chain than in the table. Hence what a bundle's acceptance implies
is stated twice: `ValidatedFeesAreFinal` of every bundle that validates, and the two properties about its completeness
of a `Trusted` one, whose campaign came to its end or named no system twice.

Assumed of the outside: nobody else uses the wallet; L2 gas is bounded by what the
transaction was quoted; transactions are included in nonce order; an endpoint never takes
back a receipt it has shown. The nonce is left out, since only this script uses it and a
transaction that is not accepted ends the script.

### Campaign
Every process in `Campaigns` was given the same directory. `files`, `raw` and `summary`
are the directory, `offset[p]` the position of a process's own file handle, so that two
processes writing to one file overwrite or leave holes as the operating system does.
`attached` tells whose handle for `summary.csv` still is the file of that name once
`resummarize` has replaced it. The phase rows of a run are one row, the process row
another; a run ends in one of the four ways `AdapterRunner` allows that produce rows, or
raises. A summary row holds the set of runs it was computed from and whether all its
verdicts were the expected ones: the medians and percentiles are left out.
`Validated` is the structural part of `validate_result_bundle`.

### AdapterPipeline
The six adapters share the SDK and one shape, a straight line of steps, any of which may fail.
`ArkGroth16` ... `BulletproofsR1cs` are those lines, read from each `run` and `real_main` with the
order of its emissions; `pc` is the place in it. A step that is the name of a phase prints that
phase's line, `result` prints the result, the others print nothing. `Refused` is what each check
turns down: `Malformed` is `AdapterRequest::validate`, `PlanRefused` and `TraceRefused` are the errors of
`build_plan`, `from_request` and `state_trace_rows`, `SynthesisRefused` a relation that does not fit its
native size. `Constraints`, `NativeWorkUnits` and `ApplicationUnits` are the three sizes an adapter
computes, each in its own unit. `Fail` is any error after which the process exits with 1, lines already
printed staying where they are; `Killed` is the runner's time limit. `Accepted` asks
`validate_transcript` (`Transcript`) what it makes of the lines, at every step and not only at the end.

A witness either satisfies its relation or does not (`job.satisfied`), `job.size` is the size of a
relation before padding, and a proof verifies when it was made from a satisfying witness and is checked
against the inputs it was made for: soundness and completeness of the proof systems are assumed here, and
what the witness has to satisfy is the subject of `ApplicationRelations` and `R1CSProof`. Every
line is written whole. Of the two paths of the Bulletproofs adapter the pipeline follows the one through `r1cs.rs`.
The range workload takes the other one: the requests it refuses and the session it runs are in
`RangeWorkload` and `RangeProofMPC`, the lines it prints are not modelled.

### ApplicationRelations
A session is an adapter's encoding, a workload, an assignment and the verifier's public inputs. The
circuits run one unit per step: `SynthesizeArk` takes what `ArkRelations` says of a unit (the wires it hands on and
whether its constraints hold), `SynthesizeJellyfish` what `JellyfishRelations` says, and `EnforceOutputs...` compares
the wires left with the public inputs. A wire which one constraint fixes is a function of others; where a
prover has a choice (a witness, a bit, a boolean, the intermediate wires of a chain) the assignment has a value of its own.
`StateAir` fills a trace row by row (`FillRow`, which may write one column of one row otherwise
than the code does, and goes on from there), evaluates every pair of rows and then the assertions.

`Relations` holds the native functions, which exist in the repository once for each adapter; the two
copies for arkworks and Jellyfish compute the same. They are the reference of the property, together with a
predicate over the values: `RelationsAcceptThePredicate` says that satisfaction implies the predicate whatever is
assigned, and that the predicate implies satisfaction of the code's own assignment. The library's gadgets
(`le_bits_to_fp`, `select`, `enforce_in_range`, `conditional_select`) are external, modelled by what they
compute; the two selections take their values in opposite orders, and the two circuits use them so.

Left out: `splitmix64` is any function of seed and index; wrapping of 64-bit seeds near their maximum; the
padding (constraints `1 * 1 = 1`, whose number `AdapterPipeline` counts); the SHA-256 circuit.

### The Bulletproofs crate
`Scalars` is arithmetic modulo `Order`. In `Points` a group element is the formal combination of independent
generators it was computed as: two points are equal when their coefficients are, which is what a prover that knows
no relation between the generators can use. A transcript is the sequence of what was appended and drawn. Challenges are
nondeterministic when first drawn and recorded with the transcript; a verifier draws the same challenge exactly when its
transcript is the same so far, and `Unrelated` otherwise (Fiat-Shamir).

`InnerProductArgument`: `Create` is `create` up to its loop, `Round` one iteration, `Verify` is `verify` of the
proof or statement as it arrives. `RangeProofMPC`: every state of the dealer's and the parties' types is a value of
`dealer` and `party[j]`, every consuming method an action (`AssignPosition`, `ReceiveBitCommitments`,
`ApplyBitChallenge`, `ReceivePolyCommitments`, `ApplyPolyChallenge`, `ReceiveShares`). The caller carries the messages:
a session says in which order, which are missing, which party deviates and in what. `prove_multiple` is the session
with everything in order through `receive_trusted_shares`. `Verify` is `verify_multiple` on the proof's bytes.

`ConstraintSystem` is what a gadget can see of a system: variables, constraints, deferred closures. `R1CSProver` adds
assignments, blindings, the two commitments and `prove`; `R1CSVerifier` has counts in their place, replays the
transcript and evaluates the one combination. Both are shown to refine it. A gadget is a sequence of calls
whose linear combinations refer to the results of earlier calls, so that both sides may run it. In `R1CSProof` each
side has its gadget, normally the same one, and `Deliver` carries the proof as bytes, which may be altered.
`R1CSChain` builds the gadget of the adapter's request.

## 3. Runs

| run | question | bounds |
| --- | --- | --- |
| `adapter_runner` | every interleaving of one call | `MaxSwap` = 1, `MaxCaptures` = 1 for the process and 2 for the system sampler, two memory levels, scripts of 3 lines |
| `publication` | every network behaviour and every crash point of a publication | two artifacts, `MaxNamed` = 2 (the entries of `--system`), `MaxRepetitions` = 2, `MaxTransactions` = 2, `MaxTotalWei` = 11, `L1Reserve` = 3 |
| `publication_fees` | is a recorded fee final? (violated) | as above |
| `campaign` | one campaign killed and restarted, with resummarize at any time | one valid cell with one primer and two repetitions, one invalid cell with two |
| `campaign_summary` | does a validated summary come from all raw rows? (violated) | one cell, as its cfg says |
| `campaign_race` | are rows never lost with two processes? (violated) | two processes |
| `adapter_pipeline` | what does acceptance say of the process that wrote the lines? | six adapters, 189 requests, relations of size 3 and 9 before padding, a failure or a kill at every step |
| `pipeline_schedule` | is the `splitmix64-v1` schedule opt-in? (violated) | as above |
| `application_relations` | do the encodings mean the application's predicate? | `Order` = 46337, 3282 sessions: two seeds, one to four units, widths that hold the values and widths that do not, two hash rounds, depth 2, two paths, five ablations, one deviating value, bit, wire or column |
| `inner_product_argument` | does the argument prove its claim and nothing else? | `Order` = 46337, lengths 1 to 4, entries 0 and 1019, two factors for each generator vector, two challenges per round, six ways to alter proof or statement |
| `range_proof_mpc` | who gets a proof, who is blamed, what does it prove? | one, two or four parties with one or two bits (the adapter's: two with eight), capacity for eight bits and four parties, every single deviation and the pairs with a wrong size or `t_x`, every exchange and loss of the messages of two parties |
| `r1cs_proof` | does a proof verify exactly for satisfied systems? | `Order` = 46337, 16 generators, 13 gadgets with one phase or two, the adapter's chains of two to five steps and the 16 steps of its smallest relation, nine alterations |

*Why the bounds suffice.* One unit of swap traffic can fall in each gap between two
steps, which is what the swap verdict depends on; two captures of the system sampler give
one that is held over the stop and one in the middle. The second level of memory tells
minimum from maximum. The scripts hold a good answer, a doubled result, a doubled
phase with another line in between, a wrong verdict, a blank line and a line that does not parse, and each
may be cut at any line. In `publication` an L1 fee may be below or above its reserve, the
second reservation may or may not fit the cap, and the fees paid may break the cap
although the reservations fitted; four tasks meet a limit of two transactions, so the count
limit is met as well; a list of two names may name one artifact twice, leave one out, or have both. In `campaign` a failed run may be the first, a middle or the last one; a campaign killed before it wrote
`config.json` may be started again, later ones are refused by the evidence check.
In `adapter_pipeline` the scales 3, 4, 6, 7 and 8 are powers of two, one less than one, and neither; a
relation of size 3 needs padding to 6 or 8 and one of size 9 does not fit; every scale mode, STARK mode
and schedule is there, and every refusal happens. An adapter's behaviour depends on a size only through these
comparisons, and the theorems below hold for every size.

The four runs about proofs compute in the field of 46337 elements, a prime whose products stay within TLC's 32 bits.
Equality of scalars or points there is equality of polynomials in challenges that were drawn once and never come out
zero (except `x` of the range proof, whose zero the party refuses); two values of the challenges the folds depend on keep an
identity from holding for one of them by chance. Values are mixed so that no coefficient of one place equals that of
another. In `inner_product_argument` length 3 is refused, length 1 has no rounds, 2 only the
unrolled one and 4 one of each kind. In `range_proof_mpc` two parties are where an offset shows, four where the
aggregated indexes do; sizes the dealer refuses (bits, parties, capacity) each occur. In `r1cs_proof` there are gadgets with no
multiplier, with a half-allocated one at the end of each phase, with a second phase that only constrains, with more
multipliers than generators, without a witness, and with an assignment that does not satisfy them. In
`application_relations` two units show what one hands to the next, a trace has four rows, of which the last updates
nothing; each deviation leaves the rest of the assignment alone, so that one constraint has to notice it.

*What they show.* In `adapter_runner`: `SwapVerdictCoversAdapter`, `MinimumBelowEnds`,
`AcceptedAnswerIsWholeAndInTime`, `NothingLeftRunning`, `MeasurementsFrozen` (after the joins nobody
but the main thread touches the accumulators), `ExecutionEnds`, and the refinement of
`AdapterExecution`. In `publication`: `SpendsOnlyReservations`,
`ValidatedFeesAreFinal`, `ValidatedTotalIsWhatTheWalletLost`, `ValidatedBundleIsWhole` (the last two with the proviso
about repeated names),
`PublicationEnds` and the refinement of `PublicationLedger`: at most one paid transaction is without a
record, whatever happens. In `campaign`: `ValidatedRunsAreTheCampaign` (the validator only
counts run ids; that each task is there once rests on the campaign),
`FailureIsLast`, `SummaryCountsMeasurementsOnce`, `CampaignEnds` and the
refinement of `EvidenceLog`. In `adapter_pipeline`: `AcceptedIsComplete` (no cut transcript passes),
`ConfiguredIsAccepted` (the adapters and the runner agree on every request the repository configures),
`AnswersTheRequest` (of the size asked for, and a rejection for the altered input's sake), `ExportedIsFresh`. In `application_relations`:
`RelationsAcceptThePredicate`. It also shows what the code does *not* ask for: a width too small for a value
(`age_bits` 5, `range_bits` 7, `time_bits` 9) is accepted as a parameter and gives a relation the code's own
witness does not satisfy, and the hash columns of a trace's last row may hold anything. In `inner_product_argument`:
`RoundsKeepTheClaim`, `ScalarsFoldTheGenerators`; `HonestProofsVerify`, completeness with its two exceptions (an honest proof of
which a cross term is the identity, as of zero vectors, is refused by the verifier, since the prover appends without the
check the verifier makes; and so is one of 32 rounds or more); and `OnlyTheProvedClaimVerifies`, soundness against the alterations. In `range_proof_mpc`: `HonestSessionsVerify`, `AuditNamesTheDeviants` (a
share of the wrong size hides the other deviants), `VerifiedCommitmentsAreInRange`, `AuditedProofsVerify`. In
`r1cs_proof`: `VerifiesIffSatisfied` (the prover does not check its assignment), `SystemsAgree`,
`CommittedWiresAreFinal`, and the two refinements `ProverIsASystem` and `VerifierIsASystem`.

Deadlock is checked in `range_proof_mpc`, `r1cs_proof` and `application_relations`: their `Ended` says in which states a
session may stop, so that any other one with no step is an error. It is not checked in the other runs: a call
that has returned, a script that has ended, a directory that nobody works on, an adapter that has exited and an argument
that was verified are the ends of these systems.

*Mutants.* Next to some definitions stands a `Mutant of ...`: the same definition with a
plausible bug (a thread that is not joined, a reservation that is taken off, a validator that looks at the
exit code alone). `PROJECT.json` says which property each one breaks; no
specification uses them.

## 4. Fairness

* `AdapterRunner`: weak fairness of the main thread's step and of each sampler's step. They are
  scheduled by the interpreter, and the timer of `communicate` makes `Timeout` possible
  whatever the adapter does. Nothing is assumed of the adapter, which may hang for ever; it is
  the timeout that ends the call.
* `Publication`: weak fairness of the script's own steps. Every wait has a deadline, so
  one of its steps is always possible; `RpcRaises` is not among them, so the script does not end just
  because an error has to come. Nothing is assumed of the network.
* `AdapterPipeline` has no fairness: it is asked for safety only, and an adapter may hang.
* The proof systems and relations have none either: they are straight-line programs without waits, called by one
  thread, so that deadlock freedom up to `Ended` says all there is to say of their ends.
* `Campaign`: weak fairness of a started process's steps. It waits only for
  `execute_adapter`, which ends (`ExecutionEnds`). Nobody has to start a campaign or to
  resummarize, and nobody has to kill one.

## 5. Proofs

`AdapterRunnerProofs`, for every set of scripts and levels, every request and every bound, under
`BoundsAssumption` (levels are natural numbers, `NoSample` is not a sample, the bounds are
natural numbers):

* `TypeCorrect`: `Spec => []TypeOK`.
* `SwapVerdict`: `Spec => []SwapVerdictCoversAdapter`. When a returned execution says that
  no swap I/O was observed and gives no reason for missing counters, the kernel swapped
  nothing between launch and reaping.

The property speaks of the returned state only, so it is not inductive. `IInv` adds
what holds on the way there: `BeforeLaunch` (the adapter and the system sampler do not exist
during the first capture), `WindowOpens` (the first sample is no newer than the
launch), `AfterJoin` (the system sampler is done when the last sample is taken, so nothing
can replace it), `AdapterGone` (past the `try` the adapter is reaped, or an exception is on its
way and there will be no verdict) and `WindowCloses` (the last sample is no older than the
reaping). With both ends fixed, equal counters in the window mean equal counters
in the adapter's life (`NoSwapMeansSameCounter`). `SysAddEffect` states what the accumulator keeps.

* `ReportedMinimum` (`MinimumBelowEnds`) and `AcceptedAnswer` (`AcceptedAnswerIsWholeAndInTime`), from
  `VerdictInv`: the first and the last good sample are there together, no sample kept is below the minimum, and a
  verdict is given in the last step only. An accepted answer depends on `parse_json_lines`, a recursive
  function: `ParseLoop` says by induction on the number of lines read that the loop has either met a line that
  does not parse or kept exactly the lines that are not blank, and `EventsAreTheLines` that the events are the
  script's lines, in order. `AcceptedTranscript` then turns the runner's comparisons of counts into "each
  phase once".
* `NothingLeft` (`NothingLeftRunning`) and `Frozen` (`MeasurementsFrozen`), from `AfterJoin` and `AdapterGone`.
* `StepsAreContractSteps`: initial states and steps of the runner are initial states and steps (or stutters) of
  `AdapterExecution`. What remains of `ImplementsContract`, that the call ends, is model-checked.

`PublicationProofs`, for every set of artifacts, quotes and fees, every number of repetitions,
every limit, every reserve and every list of systems, with or without repetitions, under `FeeAssumption` (all of them natural
numbers, at least one repetition and one name):

* `TypeCorrect`: `Spec => []TypeOK`, with `TaskAtHand`: past `next` there is a task, and from
  `receipt` to `row` there is a transaction.
* `OwnersCap`: `Spec => []SpendsOnlyReservations`. Several transactions may be accepted and not
  yet included, so the wallet's losses have to be compared with a sum over the chain. `BudgetInv`
  does it without a recursive sum: there is a running total `owed` that grows by at least the
  reservation of each accepted transaction and stays, with the reservation in hand, within the
  budget; the included transactions are the first `k`; and the losses are at most `owed[k]`.
  One lemma per kind of step: `ReserveStep` (the cap is compared before the reservation),
  `AcceptStep` (the transaction uses up the reservation in hand, and `owed` is extended by the
  budget itself), `PreconfirmStep`, `IncludeStep` (the next in nonce order costs at most its
  reservation) and `QuietStep` (everything else).
* `LogIsNeverBehind`: `Spec => []LogCoversTables`, which is inductive given the types: the log, which the next theorem
  counts, has every row the two rewritten tables had. (The run checks the ledger, whose `recorded` is the log.)
* `StepsAreLedgerSteps`: initial states and steps of `Publication` are initial states and steps
  (or stutters) of `PublicationLedger`, from `OneUnrecorded`: the chain is one ahead of the log
  between the sending and the row, and level elsewhere. The remaining part of
  `ImplementsLedger`, that the campaign ends, is model-checked.
* `BundleIsWhole`: `Spec => []ValidatedBundleIsWhole`. The validator counts rows and looks at no repetition.
  When no system is named twice, that each repetition of each artifact is there exactly once rests on `TaskOnce`, no task
  with two rows, and on counting: a table with as many rows as a set of distinct tasks has elements has all of them
  (`EveryRepetition`, `CountedTableIsWhole`). A campaign that came to its end skipped no task (`NoneSkipped`) and wrote both tables
  from all rows (`TablesWritten`); had it named a system twice, the table would hold more rows of that system than the
  validator accepts (`CountsRevealRepeats`). So both kinds of `Trusted` bundles come down to the first case.
* `FeesAreFinal`: `Spec => []ValidatedFeesAreFinal`, without that proviso. A row may be wrong, with a deduction that
  came late or a receipt still provisional, and the script goes on. `SettledFeesAreFinal` says that a row whose fee and
  whose loss of the wallet agree has its own transaction's final fee *if all rows before it are so too*: then nothing
  earlier is outstanding, and the wallet can only have lost the latest transaction's fee (`SettledRow`). A final
  fee stays final (`ChainEffect`).
* `TotalIsTheWallets`: `Spec => []ValidatedTotalIsWhatTheWalletLost`. `AccountInv` is conditional in the same way: *as
  long as every row is settled* the books balance between two tasks, and from a transaction's sending to
  its row only this one can still take anything from the wallet. A validated bundle is settled
  (`ValidatedIsSettled`), and a trusted one has a row for every task, hence it is balanced. `NetworkKeepsAccounts`, `QuietAccountStep`,
  `AcceptKeepsAccounts` and `AppendKeepsAccounts` are its kinds of step.

`CampaignProofs`, for every finite set of cells, with any numbers of repetitions and primers, under
`CampaignAssumption`:

* `TypeCorrect`: `Spec => []TypeOK`, for any number of campaign processes on the directory.

The others assume one campaign process (`OneProcess`, a hypothesis of each theorem; `Crash` and `Start` may stop
and start it as often as one likes, and `resummarize` may run at any time): `campaign_race` shows that they
fail with two.

* `FirstFailureEndsIt` (`FailureIsLast`), `NoPrimerInTheSummary` (`SummaryCountsMeasurementsOnce`) and
  `BundleIsTheCampaign` (`ValidatedRunsAreTheCampaign`).
* `DirectoryIsALog`: `Spec => ImplementsEvidenceLog`, the whole refinement, since `EvidenceLog` asks for no
  progress.
* `EvidenceIsKept`: `Spec => EvidenceIsNotOverwritten`, which finding 3 refutes for two processes.

`OneProcessInv` is the inductive invariant. `OpenedOnce` tells the time before the raw file from the time after it by the
name in the directory, which the evidence check reads; `WritesAtTheEnd` says that the handle stands at the
end of the file, so that a write appends (`WriteRowStep`); `TasksAhead` that the tasks left are as many as the
ids left to draw and none of them is in the file; `RowsOfTheRunAtHand` and `FailureIsAtHand` tie the rows held, and
a failure in the file, to the run at hand; `RunsAreTasks` says that ids and tasks determine each other. The validator only
counts ids: `RunsAndTasksAreAsMany` carries the count over to tasks by that bijection, and `CountingIsEnough` that as many
tasks as there are is all of them.

Induction over data: the library states it with an operator parameter, which no installed prover can instantiate; with a
set for the hypothesis (`InductionOnNat`, `InductionUpTo`, in `BulletproofLemmas` and, for the parser's loop,
`AdapterRunnerProofs`) it follows from the library's well-foundedness of `<`, and each use names the set of numbers its claim
holds for.

`AdapterPipelineProofs`, for every set of requests and every size of a relation, under
`RequestsAssumption` (requests are records of the type `Request`) and `SizesAssumption` (sizes are positive):

* `TypeCorrect`, `NoPartialTranscript` (`AcceptedIsComplete`), `ProtocolAgrees` (`ConfiguredIsAccepted`),
  `AcceptedAnswersTheRequest` (`AnswersTheRequest`, from `NativeSizeIsProved` and `RejectionIsTheInputs`) and
  `ArtifactIsFresh` (`ExportedIsFresh`).

The adapters enter by their programs alone: `WellFormed` says that the result is the last step and no step occurs
twice, that every coarse phase is reported, and that the invalid case precedes verification; it is proved
once per adapter. What is accepted depends on the lines, so `IInv` relates lines to steps passed:
`PhasesWritten` (each phase line reports a step passed, once, and every phase passed is reported),
`ResultWritten` (a result only at the very end, with the verdict reached), `Established` (no step passed
was refused, and what the checks, the alteration of the input, verification and the export left behind) and
`ExitsAtTheEnd`. Each theorem then reads one fact off a transcript that is accepted, and
`ProtocolAgrees` shows the converse conjunct by conjunct of `ValidateTranscript`, with
`ConfiguredSizes` for the one place where each adapter's unit matters.

`R1CSProofs`, for every set of gadgets and sessions, every challenge and scalar, and
for the composed system `R1CSProof!Spec`:

* `ProverImplementsSystem` (`Spec => ProverIsASystem`) and `VerifierImplementsSystem` (`Spec => VerifierIsASystem`): every
  step of a session is one call of the constraint system or leaves it alone, on either side.
* `ProverKeepsCommittedWires` (`Spec => CommittedWiresAreFinal`): once the first phase is committed to, no call, closure or
  padding changes a wire of it.

The steps need to know that appending and replacing leave the wires sequences of one length, which their first values do
not say: `PInv` has the phases, `WiresOK` (three sequences of one length, a half-allocated multiplier is one of them)
and `SplitOK` (past the first phase a half-allocated multiplier is one of the second). `AppendIsSequence` and
`ReplaceIsSequence` say what the two operations keep. On the verifier's side `VInv` is enough, since it only counts.
`SessionStep` splits a step of the composition into the prover's, the verifier's and the others.

* `BothBuildOneSystem` (`SystemsAgree`): a verifier of the same statement that got the proof as it was made ends with the
  prover's constraints, returned variables, multipliers, challenge and split of the phases, whatever the assignment.

That two systems implement the same abstract one does not give this: `ConstraintSystem` lets a closure draw any challenge,
and the verifier builds its system after the prover has finished its own. The inductive invariant `AgreeInv` therefore speaks of a
*history*: some sequence of states that starts with the statement's gadget, ends with the prover's system, and of which each state
follows the one before it (`Followed`) by a call whose only outside inputs are an entry of the transcript and a commitment.
While the prover works, the history grows by one state per step (`CallHistory`, `FirstPhaseHistory`) and stays what it was when
the transcript grows (`FollowedStays`); `FinishHistory` shows that the proof repeats the three points the transcript has for
the first phase, which `SentOnce` makes unique, and `Transported` that they survive the bytes. Once the message is there the prover
cannot move, and `VerifierAlong` shows the verifier at some state of the history: each of its steps is the next one, a refusal
leaves it where it is, and it can verify only at the end. `VTold`, that it was told a prefix of what the prover was, is what makes its
challenges the prover's. Two facts of `BulletproofLemmas` are needed: the rounds of `create` only append
to the transcript (`CreateAppends`, by induction on the rounds), and a vector is halved a natural number of times (`RoundsType`,
since n is at most 2^n). `AgreeInv` quantifies over sequences of states, so TLC cannot evaluate it; it checks `SystemsAgree` itself.

`BulletproofLemmas` is the algebra under the next two modules, under `PrimeAssumption` (`Order` is prime, as the order of
the Ristretto group is):

* Scalars are a field. The laws of a ring follow from those of the integers modulo `Order` (`ModUnique`, `ScalarOfInt`);
  that every scalar but zero has the inverse `Invert` computes does not, since `Invert` is a binary exponentiation by
  `Order - 2`. `ExpIsPower` says by induction that the exponentiation computes a power, `FermatsLittleTheorem` that the power
  by `Order - 1` is one: the multiples of a scalar are all scalars again, so the product of all of them is the same. `Inverses`
  follows.
* Sums over any number of terms (`SumUpTo`): of equal, added, scaled, concatenated and interleaved terms; the sequences of powers
  `exp_iter` yields, and `sum_of_powers`, which adds them by squaring, against the plain sum (`Geometric`).
* Points: what `multiscalar_mul` yields at each generator (coordinates), for combinations concatenated, scaled and added, and that
  two points with the same coordinates are one.
* Transcripts and bytes: the first challenge of a label stays the first when the transcript grows, `create` only appends
  (`CreateAppends`), a whole proof comes out of its bytes as it went in (`ThroughBytes`).
* The inner-product argument: what a round keeps (`KeptBy`, `KeptStep`), so that both a run of the argument and a range
  proof, which calls `create` with its own transcript, may use it.

`InnerProductArgumentProofs`, for every prime order, every set of lengths, entries and factors and all challenges but zero,
under `ArgumentAssumption`:

* `RoundsKeepTheClaimAlways` (`RoundsKeepTheClaim`), `ScalarsFoldTheGeneratorsAlways` (`ScalarsFoldTheGenerators`) and
  `HonestProofsVerifyAlways` (`HonestProofsVerify`, with both of its exceptions: the verifier accepts what arrived as it was made *if and
  only if* it has fewer than 32 rounds and no identity among its cross terms).

None of the three properties is inductive: each compares the end with the beginning. `ArgumentInvariant` is the invariant
of the loop, `KeptBy`: of `w * 2^k` entries `w` are left after `k` rounds; the commitment to what is left is the first one
and the cross terms weighted by the squares of the challenges; each generator left is the combination of every `w`-th first one with
the scalars `SVector` gives for the `k` challenges so far; and the transcript records cross terms and challenges in order.
`KeptStep` is one round: the fold of two halves, where the scalars for `k + 1` challenges are those for `k`, once over the new
challenge and once times it. With one entry left the invariant is the verifier's equation (`CombinationIsClaim`), and the recorded transcript makes
its replay draw the prover's challenges. TLC checked the invariant on a small instance before it was proved.

`RangeProofMPCProofs`, for every set of sessions (`SessionsAssumption`: any number of parties, any values, deviations and orders
of messages), every challenge and every scalar:

* `AuditedIsAccepted` (`AuditedProofsVerify`): a proof that `receive_shares` hands out is accepted by the verifier.
* `OnlyTheShareIsAccepted`: against the commitments the protocol makes, the audit passes of all shares of the right size the one the
  protocol computes and no other, and not even that one when the value is out of range.
* `AtMostOneShareIsAccepted`: whatever vector was committed to in `A_j`, and whatever values in `T_1_j` and `T_2_j`, no two
  different shares pass: a party cannot answer its challenge in two ways.
* `AuditNamesTheDeviantsAlways` (`AuditNamesTheDeviants`): in a session, with any of the named deviations by any of the parties,
  the audit blames the deviants, all of them and nobody else.

The dealer's check and the verifier's are one call of `verify_multiple` each, far apart: the verifier has the proof's bytes,
the commitments the dealer returned and its own copy of the transcript. The inductive invariant `Audited` says that there is no
proof before the dealer is done, and that a proof there is `MayBeHandedOut`: it is whole (two vectors of cross terms of one length)
and, if the dealer audits, it verifies for what the verifier will have. `AssembledIsWhole` has the shape from `CreateAppends`,
`ThroughRangeBytes` (with `ThroughBytes` of `BulletproofLemmas`) that a whole proof comes out of its bytes as it went in unless it has 32
rounds or more, which the dealer's own check has excluded. No algebra is involved in this one: `verify_multiple` is compared with
itself.

The audit is all algebra. `audit_share` forms two combinations of points, one to see that a share's vectors are those of the bits
committed to and one to see that its `t_x` is the value of the polynomial committed to, and passes a share if both
are the identity. `VectorCheck` and `ValueCheck` compute them coordinate by coordinate. The first one vanishes on the generators of
G and H exactly when the vectors are what the party's polynomials are at `x`, and on the blinding when `e_blinding` is; the second
one on `B` when `t(x) = delta + offset * v + x * (t_1 + x * t_2)`, which holds for the honest polynomials exactly when the bits add up to
the value: the low bits of a value out of range add up to another scalar (`ValuesAssumption`). Read with an arbitrary share these are the two theorems about shares: between them the coordinates fix
each of its five entries. The session's invariant needs the deviations in `A_j` and `T_1_j` too, which move the commitments
instead: the lemma `AuditDecides` goes through the named deviations, of which each moves at least one coordinate. The inductive
invariant `InPlace` ties the messages sent, the ones received and the transcript's challenges to what a party at
that position computes (`MessagesInPlace`, `HeldInPlace`, `ChallengesInPlace`); that the challenges are not zero is the party's own
check, since otherwise there would be no shares. TLC checked `InPlace` before it was proved. The assumptions are `LargeOrderAssumption` (2 is
not 0 among scalars), `DrawAssumption` (blindings are scalars), `ValuesAssumption` (values are of 64 bits, the order of 253)
and `OneDeviationAssumption`: a party whose value is out of range does not deviate in `T_1_j` as well. The last one is necessary, for
a deviation in `T_1_j` chosen for one particular `x` can cancel what the value out of range adds to the second
combination; the code's protection is that `x` is drawn after `T_1_j` is sent, which is a matter of probability.

* `HonestSessionsVerifyAlways` (`HonestSessionsVerify`): a session of honest parties, with its messages in order, ends with a proof
  that the verifier accepts, unless a challenge is zero. Two kinds of proofs are excepted (`Refusable`), which the verifier
  refuses whatever they prove: with 32 rounds or more (`verification_scalars`), and with the identity for one of their points
  (`validate_and_append_point`), which happens when blindings cancel.

This is completeness of the aggregated proof, through the dealer, the argument and the verifier. The equations the
audit checks hold of every honest share (`AuditDecides`, with no deviation), each party's with its own generators, its power `y^(jn)` and its offset
`z^j`. Added up over the parties they are two equations about the sums in the proof (`VectorsAddUp`, `ValuesAddUp`): the parties'
generators are the blocks of the aggregated ones (`MsmOfAggregated`), their deltas add up to the verifier's (`DeltaAddsUp`) and their powers
of `y` are one sequence of powers. What `create` makes of the joint vectors satisfies the argument's equation (`CreateKeepsClaim`, from
`KeptStep`). The verifier's one combination, with its random weight `c`, is the first equation plus `c` times the second plus the
argument's, generator by generator (`VerifierSumAt`), so it is the identity (`CombinationIsNothing`); and the verifier draws the
dealer's challenges because it is told the same (`AssemblyReplays`). `AssemblyVerifies` puts these together, without any state.
The inductive invariant `HonestInPlace` has the rest: while the session is honest the transcript is, message by message, what the sums of
the messages received make it (`TranscriptInPlace`), and a session that ended is `Settled`. It rests on `InPlace` for what the messages are,
and on `Audited` for the proof that was dealt and checked already. `BitSizesAssumption` says that the accepted numbers
of bits are powers of two, as the code's 8, 16, 32 and 64 are; the dealer sees to it that the number of parties is one, and the argument needs their product to
be one.

Model-checked only are liveness (`ExecutionEnds`, `PublicationEnds`, `CampaignEnds` and what two of the refinements ask for at the
end), which needs `ENABLED`, and four invariants:

* `OnlyTheProvedClaimVerifies` and `VerifiedCommitmentsAreInRange` are soundness. For some challenges out of all a wrong
  claim does hold, so the two are not true of every value of the constants; they hold of the runs' challenges because those are not
  among the few. What is true of all of them is a bound on how many there are, which is a statement of another kind.
* `VerifiesIffSatisfied` contains soundness in the same way. Its other half is completeness of the R1CS proof, of which the parts
  about the transcript (`BothBuildOneSystem`) and about the argument (`CreateKeepsClaim`) are proved; the algebra of its polynomials
  in between is not.
* `RelationsAcceptThePredicate` quantifies over constraint systems built for particular seeds and widths.

## 6. Findings

1. **A validated summary need not come from all raw rows** (`campaign_summary`). The
   summary is written in place and the validator compares neither its groups nor their `n` with
   the raw rows: a campaign killed while writing the summary leaves a bundle that
   validates, and so does a `resummarize` that read the raw file before the campaign finished it.
2. **A recorded fee may be provisional** (`publication_fees`). The comment says the receipt is
   fetched again "after the wallet balance changes"; the code goes on when the balance has *not* changed in
   time. The chain validator rejects such a bundle, after it has been paid for.
3. **Two campaigns on one directory** (`campaign_race`). Both pass the evidence check before
   either has written; the second empties the first one's raw file.
4. **`splitmix64-v1` is not opt-in for the STARK adapter** (`pipeline_schedule`). `EXPERIMENTS.md` says the
   schedule is opt-in; `state_trace_rows` takes it when a request names none, where the SNARK
   adapters take `linear-v1`. The configured state matrix names it, so its results are not affected.

## 7. Not modelled

Pairings, polynomial commitments, FRI, curve and field arithmetic, and probability: a challenge is fixed or one of a few,
never likely. Of the Bulletproofs crate: the derivation of the generators, the clearing of secrets on drop, `metrics()`, and
`linear_proof.rs`, which nothing in the repository calls. The SHA-256 circuit of the BN254 adapter. The lines printed by the
range path of the Bulletproofs adapter. The arithmetic benchmark, a loop of timed operations. Parsing and formatting of CSV,
JSON and procfs; statistics on floating point; the Windows counter provider; reading of credentials. The configuration
checks, the environment record (commit, worktree, hashes), the swap audit, promotion and
release guard are planned below.

## 8. Plan

1. `AdapterRunner` - done: model, refinement; all of its safety properties and the steps of the refinement proved.
2. `Publication` - done: model, refinement; all of its safety properties and the steps of the refinement proved.
3. `Campaign` - done: model, refinement; all of its safety properties and the refinement proved.
4. `AdapterPipeline` - done: the SDK and the six pipelines, composed with `Transcript`; all of its safety
   properties proved.
5. `ApplicationRelations` - done: all four relations in every encoding the adapters have, against the native functions.
   `RangeProofMPC`, `InnerProductArgument`, `R1CSProof` - done: the vendored protocols, with the refinement of
   `ConstraintSystem` and its proof, the proof that both sides build one system, the proofs that the inner-product argument
   keeps its claim and is complete, that an audited range proof is accepted, that the audit names the deviants, and that
   the proof of an honest session verifies.
6. `CampaignConfig` - `validate_campaign_config` and `_tasks`: that every configuration accepted expands to
   distinct tasks within the adapters' bounds, and that promotion yields one that is accepted; composed with
   `Campaign`, whose cells are fixed so far, and with the rest of `validate_result_bundle` (lineage of
   hashes and parameter sets).
7. `SwapAudit` - the audit's runs, its per-run verdicts from `AdapterRunner` and how they combine into the
   verdict of a bundle, with interruptions. `run_swap_audit` does not look at the reason `AdapterRunner` gives for an
   unavailable counter, on which `SwapVerdictCoversAdapter` depends.
8. `Analysis` - percentiles, the saturation point and the outcome table against reference definitions over
   bounded inputs.
9. Further theorems: completeness of the R1CS proof system (one half of `VerifiesIffSatisfied`), from
   `BothBuildOneSystem` and `CreateKeepsClaim` as for the range proof.
