--------------------------- MODULE JellyfishRelations ---------------------------
(***************************************************************************)
(* The relations as gates of the PLONK adapter                             *)
(* (adapters/jellyfish-plonk/src/relations.rs, main.rs).  The circuit      *)
(* computes a variable's value when its gate is added, so that add, mul    *)
(* and conditional_select are the values; constants are variables.         *)
(***************************************************************************)
EXTENDS Relations

\* Jellyfish's own gadgets.  A boolean variable is one that is zero or one; the
\* selection takes the value for zero first.
enforce_bool(b) == b ** b = b
enforce_in_range(value, width) == value < 2^width
conditional_select(b, for_zero, for_one) ==
    b ** for_one ++ (1 -- b) ** for_zero

hash_gadget(left, right, rounds) ==
    LET scaled == Fr(7) ** right
        state[r \in 0..rounds] ==
            IF r = 0 THEN (left ++ scaled) ++ Fr(11)
            ELSE LET square == state[r - 1] ** state[r - 1]
                     fifth == (square ** square) ** state[r - 1]
                 IN  fifth ++ Fr(r + 18)
    IN  state[rounds]

bounded_witness(w, width) == enforce_in_range(w.value, width)

enforce_true(b) == enforce_bool(b) /\ b = 1

-----------------------------------------------------------------------------
(* One unit of each relation.                                              *)

synthesize_credential(u, wires, public, P) ==
    LET H(left, right) == hash_gadget(left, right, P.hash_rounds)
        age_expected == public[1] ++ u.age_delta.value
        commitment == H(H(u.subject, u.nonce), u.age.value)
    IN  [wires |-> [aggregate |-> H(wires.aggregate, commitment)],
         holds |-> /\ bounded_witness(u.age, P.age_bits)
                   /\ bounded_witness(u.age_delta, P.age_bits)
                   /\ u.age.value = age_expected
                   /\ enforce_true(u.authorized)]

synthesize_state(u, wires, P) ==
    LET H(left, right) == hash_gadget(left, right, P.hash_rounds)
        state == wires.state ++ u.delta.value
        update == H(u.delta.value, state)
    IN  [wires |-> [state |-> state, digest |-> H(wires.digest, update)],
         holds |-> bounded_witness(u.delta, P.update_bits)]

\* Mutant of RelationsAcceptThePredicate: the order in which arkworks takes the
\* values of a selection.
children_in_ark_order(b, below, sibling) ==
    <<conditional_select(b, sibling, below), conditional_select(b, below, sibling)>>

children(b, below, sibling) ==
    <<conditional_select(b, below, sibling), conditional_select(b, sibling, below)>>

\* The unit's paths, each from its tag up, and the roots gathered in turn.
paths(u, aggregate, P) ==
    LET H(left, right) == hash_gadget(left, right, P.hash_rounds)
        leaf == H(u.amount_a.value, u.amount_b.value)
        node[k \in (1..P.membership_paths) \X (0..P.merkle_depth)] ==
            IF k[2] = 0 THEN H(leaf, Fr(k[1] + 1))
            ELSE LET pair == children(u.directions[k[1]][k[2]], node[<<k[1], k[2] - 1>>],
                                      u.siblings[k[1]][k[2]])
                 IN  H(pair[1], pair[2])
        gathered[path \in 0..P.membership_paths] ==
            IF path = 0 THEN aggregate
            ELSE H(gathered[path - 1], node[<<path, P.merkle_depth>>])
    IN  gathered[P.membership_paths]

synthesize_swap(u, wires, public, P) ==
    LET H(left, right) == hash_gadget(left, right, P.hash_rounds)
        price_left == u.amount_a.value ** public[1]
        price_right == u.amount_b.value ** public[2]
        time_sum == public[3] ++ u.remaining.value
    IN  [wires |->
            [hashlocks |-> H(wires.hashlocks, H(u.secret, public[5])),
             roots |-> IF membership_enabled(P) THEN paths(u, wires.roots, P)
                       ELSE wires.roots],
         holds |->
            /\ range_enabled(P) => /\ bounded_witness(u.amount_a, P.range_bits)
                                   /\ bounded_witness(u.amount_b, P.range_bits)
            /\ price_enabled(P) => price_left = price_right
            /\ bounded_witness(u.remaining, P.time_bits)
            /\ time_sum = public[4]
            /\ authorization_enabled(P) => enforce_true(u.authorized)
            /\ membership_enabled(P) =>
                   \A path \in 1..P.membership_paths, level \in 1..P.merkle_depth :
                       enforce_bool(u.directions[path][level])]

\* One multiplication gate of the controlled circuit.
controlled_gate(u, after, wires, public) ==
    [wires |-> [current |-> after],
     holds |-> wires.current ** public[1] = after]

enforce_outputs(workload, wires, public, P) ==
    CASE workload = "controlled_kernel" -> TRUE
      [] workload = "credential" -> wires.aggregate = public[2]
      [] workload = "batched_state" ->
             wires.state = public[2] /\ wires.digest = public[3]
      [] workload = "private_swap" ->
             /\ wires.hashlocks = public[6]
             /\ membership_enabled(P) => wires.roots = public[7]
================================================================================
