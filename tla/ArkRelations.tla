------------------------------ MODULE ArkRelations ------------------------------
(***************************************************************************)
(* The relations as rank-1 constraint systems, for the Groth16 adapters    *)
(* (adapters/ark-groth16/src/relations.rs, main.rs).  A product is a wire  *)
(* of its own that one constraint fixes, so what is synthesized from wires *)
(* is a function of them; what a prover is free in are the witnesses.      *)
(***************************************************************************)
EXTENDS Relations

hash_gadget(left, right, rounds) ==
    LET state[r \in 0..rounds] ==
            IF r = 0 THEN (left ++ right ** Fr(7)) ++ Fr(11)
            ELSE LET square == state[r - 1] ** state[r - 1]
                     fourth == square ** square
                 IN  fourth ** state[r - 1] ++ Fr(r + 18)
    IN  state[rounds]

IsBoolean(b) == b ** (1 -- b) = 0

le_bits_to_fp(bits) == SumUpTo(Len(bits), LAMBDA i : bits[i] ** Fr(2^(i - 1)))

\* Mutant of RelationsAcceptThePredicate: the bits need not be bits.
bounded_witness_of_digits(w) == le_bits_to_fp(w.bits) = w.value

bounded_witness(w) ==
    /\ \A i \in DOMAIN w.bits : IsBoolean(w.bits[i])
    /\ le_bits_to_fp(w.bits) = w.value

\* The first value when the condition holds.
select(condition, true_value, false_value) ==
    false_value ++ condition ** (true_value -- false_value)

\* The public inputs a setup allocates, which has no seed to compute them from.
setup_inputs(workload, P) ==
    CASE workload = "controlled_kernel" -> 2
      [] workload = "credential" -> 2
      [] workload = "batched_state" -> 3
      [] workload = "private_swap" -> IF membership_enabled(P) THEN 7 ELSE 6

-----------------------------------------------------------------------------
(* One unit of each relation: the wires it hands on, and whether its       *)
(* constraints hold.                                                       *)

synthesize_credential(u, wires, public, P) ==
    LET H(left, right) == hash_gadget(left, right, P.hash_rounds)
        identity == H(u.subject, u.nonce)
    IN  [wires |-> [aggregate |-> H(wires.aggregate, H(identity, u.age.value))],
         holds |-> /\ bounded_witness(u.age) /\ bounded_witness(u.age_delta)
                   /\ u.age.value = public[1] ++ u.age_delta.value
                   /\ IsBoolean(u.authorized) /\ u.authorized = 1]

synthesize_state(u, wires, P) ==
    LET H(left, right) == hash_gadget(left, right, P.hash_rounds)
        state == wires.state ++ u.delta.value
    IN  [wires |-> [state |-> state,
                    digest |-> H(wires.digest, H(u.delta.value, state))],
         holds |-> bounded_witness(u.delta)]

\* The roots of the unit's paths, gathered from aggregate.
membership(u, aggregate, P) ==
    LET H(left, right) == hash_gadget(left, right, P.hash_rounds)
        leaf == H(u.amount_a.value, u.amount_b.value)
        root(path) ==
            LET node[level \in 0..P.merkle_depth] ==
                    IF level = 0 THEN H(leaf, Fr(path + 1))
                    ELSE LET direction == u.directions[path][level]
                             sibling == u.siblings[path][level]
                             below == node[level - 1]
                         IN  H(select(direction, sibling, below),
                               select(direction, below, sibling))
            IN  node[P.merkle_depth]
        gathered[path \in 0..P.membership_paths] ==
            IF path = 0 THEN aggregate ELSE H(gathered[path - 1], root(path))
    IN  gathered[P.membership_paths]

synthesize_swap(u, wires, public, P) ==
    LET H(left, right) == hash_gadget(left, right, P.hash_rounds)
        hashlock == H(u.secret, public[5])
    IN  [wires |->
            [hashlocks |-> H(wires.hashlocks, hashlock),
             roots |-> IF membership_enabled(P) THEN membership(u, wires.roots, P)
                       ELSE wires.roots],
         holds |->
            /\ range_enabled(P) =>
                   bounded_witness(u.amount_a) /\ bounded_witness(u.amount_b)
            /\ price_enabled(P) =>
                   u.amount_a.value ** public[1] = u.amount_b.value ** public[2]
            /\ bounded_witness(u.remaining)
            /\ public[3] ++ u.remaining.value = public[4]
            /\ authorization_enabled(P) => IsBoolean(u.authorized) /\ u.authorized = 1
            /\ membership_enabled(P) =>
                   \A path \in 1..P.membership_paths, level \in 1..P.merkle_depth :
                       IsBoolean(u.directions[path][level])]

\* One step of MultiplicativeChain: after is the wire of the next step, or the
\* output in the last one.
multiplicative_step(u, after, wires, public) ==
    [wires |-> [current |-> after],
     holds |-> wires.current ** public[1] = after]

\* What is left to enforce when all units are synthesized.
enforce_outputs(workload, wires, public, P) ==
    CASE workload = "controlled_kernel" -> TRUE
      [] workload = "credential" -> wires.aggregate = public[2]
      [] workload = "batched_state" ->
             wires.state = public[2] /\ wires.digest = public[3]
      [] workload = "private_swap" ->
             /\ wires.hashlocks = public[6]
             /\ membership_enabled(P) => wires.roots = public[7]
================================================================================
