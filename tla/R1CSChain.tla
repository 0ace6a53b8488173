------------------------------- MODULE R1CSChain -------------------------------
(***************************************************************************)
(* The relation the Bulletproofs adapter proves for the four workloads it  *)
(* shares with the other adapters (adapters/bulletproofs-range/src/        *)
(* r1cs.rs): a committed start, multiplied step by step with the           *)
(* workload's public factors, is the public output.                        *)
(***************************************************************************)
EXTENDS LinearCombinations

\* A request is its workload, its scale, its scale_mode, if any, and the numbers
\* among its other parameters, none of which may be 0 or 1.
numeric_parameter(request, name, default) ==
    IF name \in DOMAIN request.parameters THEN request.parameters[name] ELSE default

\* The steps of one unit: what the workload's relation takes elsewhere.
steps_per_unit(request) ==
    LET P(name, default) == numeric_parameter(request, name, default)
        hash == P("hash_rounds", 5)
    IN  CASE request.workload = "controlled_kernel" -> 1
          [] request.workload = "credential" -> 2 * P("age_bits", 8) + 9 * hash + 2
          [] request.workload = "batched_state" -> P("update_bits", 16) + 6 * hash + 2
          [] request.workload = "private_swap" ->
                 2 * P("range_bits", 64) + P("time_bits", 32)
                   + (2 + P("membership_paths", 2) * (P("merkle_depth", 32) + 2))
                       * 3 * hash + 8

\* A target overrides the workload's own size, a scale that is a target both.
relation_steps(request) ==
    IF request.scale_mode = "target_native_size" THEN request.scale
    ELSE IF "target_native_size" \in DOMAIN request.parameters
    THEN request.parameters["target_native_size"]
    ELSE request.scale * steps_per_unit(request)

\* Only the controlled kernel multiplies with the same factor at every step.
workload_factor(workload, base, index) ==
    LET domain == CASE workload = "credential" -> 3
                    [] workload = "batched_state" -> 5
                    [] workload = "private_swap" -> 7
    IN  IF workload = "controlled_kernel" THEN base
        ELSE base ++ (domain + (index % 17))

\* start and factor are drawn from the request's seed.
chain_instance(start, factor, workload, steps) ==
    LET output[k \in 0..steps] ==
            IF k = 0 THEN start
            ELSE output[k - 1] ** workload_factor(workload, factor, k - 1)
    IN  [workload |-> workload, steps |-> steps, start |-> start,
         factor |-> factor, output |-> output[steps]]

append_public_instance(i) == <<i.workload, i.steps, i.factor, i.output>>

\* The commitment to start, then chain_gadget: the state of a step is the
\* output wire of the one before.
Constant(c) == <<0, 1, c, 0>>
chain_gadget(i, blinding) ==
    LET state(k) == IF k = 0 THEN <<1, 1, 1, 0>> ELSE <<k + 1, 3, 1, 0>>
        factor(k) == workload_factor(i.workload, i.factor, k)
    IN  <<[op |-> "commit", value |-> i.start, blinding |-> blinding]>>
            \o [k \in 1 .. i.steps |->
                   [op |-> "multiply", left |-> <<state(k - 1)>>,
                    right |-> <<Constant(factor(k - 1))>>]]
            \o <<[op |-> "constrain",
                  lc |-> <<state(i.steps), Constant(Neg(i.output))>>]>>

\* The invalid case verifies against another output.
verification_instance(i, invalid) ==
    IF invalid THEN [i EXCEPT !.output = @ ++ 1] ELSE i
================================================================================
