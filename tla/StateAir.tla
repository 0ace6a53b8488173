-------------------------------- MODULE StateAir --------------------------------
(***************************************************************************)
(* The two relations of the STARK adapter (adapters/winterfell-stark/src/  *)
(* main.rs): the batched state as a trace whose every row but the last is  *)
(* one update, and, for the other workloads, a chain of multiplications of *)
(* the size asked for.  Both are a trace, a condition on every pair of     *)
(* consecutive rows, and assertions on the first and the last row.         *)
(***************************************************************************)
EXTENDS Relations

CONSTANTS STATE_UPDATE_BITS, STATE_HASH_ROUNDS

STATE_INITIAL_DIGEST == 31

fifth_power(value) == LET square == value ** value IN (square ** square) ** value

\* The state after each round.
h5_round_values(left, right) ==
    LET state[r \in 0..STATE_HASH_ROUNDS] ==
            IF r = 0 THEN (left ++ Fr(7) ** right) ++ Fr(11)
            ELSE scalar_exp_vartime(state[r - 1], 5) ++ Fr(r + 18)
    IN  [r \in 1..STATE_HASH_ROUNDS |-> state[r]]

-----------------------------------------------------------------------------
(* The state predicate.                                                    *)

\* A row holds the state and the digest before an update, and how the update
\* changes them.
populate_state_row(u, state, digest) ==
    LET delta == u.delta.value
        update == h5_round_values(delta, state ++ delta)
    IN  [state |-> state, digest |-> digest, delta |-> delta, bits |-> u.delta.bits,
         update_hash |-> update,
         digest_hash |-> h5_round_values(digest, update[STATE_HASH_ROUNDS])]

\* build_state_trace: the first row, and the row after another one.
first_state_row(seed, u) ==
    populate_state_row(u, Fr(seed + 29), Fr(STATE_INITIAL_DIGEST))
next_state_row(row, u) ==
    populate_state_row(u, row.state ++ row.delta, row.digest_hash[STATE_HASH_ROUNDS])

\* Each column holds the round of the one before it, the first that of input.
rounds_hold(columns, input) ==
    \A r \in DOMAIN columns :
        columns[r] = fifth_power(IF r = 1 THEN input ELSE columns[r - 1]) ++ Fr(r + 18)

\* Mutant of RelationsAcceptThePredicate: the state before the update is hashed.
update_input_before(current, next) ==
    (current.delta ++ current.state ** Fr(7)) ++ Fr(11)

update_input(current, next) == (current.delta ++ next.state ** Fr(7)) ++ Fr(11)

state_transition(current, next) ==
    /\ next.state = current.state ++ current.delta
    /\ current.delta =
           SumUpTo(STATE_UPDATE_BITS, LAMBDA i : current.bits[i] ** Fr(2^(i - 1)))
    /\ \A i \in 1..STATE_UPDATE_BITS : current.bits[i] ** (current.bits[i] -- 1) = 0
    /\ rounds_hold(current.update_hash, update_input(current, next))
    /\ rounds_hold(current.digest_hash,
                   (current.digest
                        ++ current.update_hash[STATE_HASH_ROUNDS] ** Fr(7)) ++ Fr(11))
    /\ next.digest = current.digest_hash[STATE_HASH_ROUNDS]

\* Public inputs are the start, the result and the digest: initial state, final
\* state and aggregate digest, in the order of the pairing adapters.
state_assertions(trace, public) ==
    LET last == Len(trace) IN
    /\ trace[1].state = public[1]
    /\ trace[1].digest = Fr(STATE_INITIAL_DIGEST)
    /\ trace[last].state = public[2]
    /\ trace[last].digest = public[3]

\* What the prover takes for the public inputs of its trace.
state_pub_inputs(trace) ==
    <<trace[1].state, trace[Len(trace)].state, trace[Len(trace)].digest>>

-----------------------------------------------------------------------------
(* The size proxy.  start and factor are drawn from the request.           *)

\* A trace of steps rows has one transition less.
result_value(start, factor, steps) ==
    LET result[k \in 1..steps] == IF k = 1 THEN start ELSE result[k - 1] ** factor
    IN  result[steps]

next_proxy_row(row, factor) == [cell |-> row.cell ** factor]

proxy_transition(current, next, factor) == next.cell = current.cell ** factor

proxy_assertions(trace, public) ==
    trace[1].cell = public[1] /\ trace[Len(trace)].cell = public[2]

proxy_pub_inputs(trace, factor) == <<trace[1].cell, trace[Len(trace)].cell, factor>>
================================================================================
