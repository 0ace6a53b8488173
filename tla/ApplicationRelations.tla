-------------------------- MODULE ApplicationRelations --------------------------
(***************************************************************************)
(* What the Groth16, PLONK and STARK adapters prove of one application: a  *)
(* circuit is synthesized unit by unit, a trace is filled and evaluated    *)
(* row by row, from the assignment a prover has chosen and for the public  *)
(* inputs the verifier has.  The assignment the adapters choose is that of *)
(* a seed; the relation has to mean the same for any other.                *)
(***************************************************************************)
EXTENDS Relations

CONSTANTS
    STATE_UPDATE_BITS, STATE_HASH_ROUNDS,
    Sessions    \* an adapter, a relation, an assignment and public inputs

VARIABLES
    session,    \* the session
    wires,      \* what the units synthesized hand on
    trace,      \* the rows filled
    forged,     \* the column of a row that was not filled as computed
    index,      \* units synthesized, or pairs of rows evaluated
    holds,      \* every constraint so far holds
    verdict     \* whether the relation is satisfied

vars == <<session, wires, trace, forged, index, holds, verdict>>

Ark == INSTANCE ArkRelations
Jellyfish == INSTANCE JellyfishRelations
Stark == INSTANCE StateAir

ASSUME AirAssumption ==
    /\ STATE_UPDATE_BITS \in Nat \ {0, 1} /\ 2^STATE_UPDATE_BITS <= Order
    /\ STATE_HASH_ROUNDS \in Nat \ {0}

Systems == {"ark", "jellyfish", "state_air", "proxy_air"}

ASSUME SessionsAssumption ==
    \A s \in Sessions :
        /\ s.system \in Systems /\ s.scale \in Nat \ {0}
        /\ Len(s.units) = IF s.system = "state_air" THEN s.scale + 1 ELSE s.scale
        \* The bits of a bounded witness name one field element.
        /\ \A width \in {"age_bits", "update_bits", "range_bits", "time_bits"} :
               2^s.parameters[width] <= Order

P == session.parameters
unit(k) == session.units[k]
public == session.public

IsAir == session.system \in {"state_air", "proxy_air"}

\* The digests and aggregates start from constants, the state from its input.
InitialWires(s) ==
    CASE s.workload = "controlled_kernel" -> [current |-> s.units[1].before]
      [] s.workload = "credential" -> [aggregate |-> Fr(23)]
      [] s.workload = "batched_state" -> [state |-> s.public[1], digest |-> Fr(31)]
      [] s.workload = "private_swap" -> [hashlocks |-> Fr(37), roots |-> Fr(41)]

NotForged == <<"none", 0, 0>>

Init ==
    /\ session \in Sessions
    /\ wires = IF IsAir THEN <<>> ELSE InitialWires(session)
    /\ trace = <<>> /\ forged = NotForged
    /\ index = 0 /\ holds = TRUE /\ verdict = "none"

-----------------------------------------------------------------------------
(* Circuits.                                                               *)

\* The wire after the k-th step of a chain: the last one is the output itself.
After(k) == IF k = session.scale THEN public[2] ELSE unit(k + 1).before

ArkUnit(k) ==
    CASE session.workload = "controlled_kernel" ->
             Ark!multiplicative_step(unit(k), After(k), wires, public)
      [] session.workload = "credential" ->
             Ark!synthesize_credential(unit(k), wires, public, P)
      [] session.workload = "batched_state" ->
             Ark!synthesize_state(unit(k), wires, P)
      [] session.workload = "private_swap" ->
             Ark!synthesize_swap(unit(k), wires, public, P)

JellyfishUnit(k) ==
    CASE session.workload = "controlled_kernel" ->
             Jellyfish!controlled_gate(unit(k), After(k), wires, public)
      [] session.workload = "credential" ->
             Jellyfish!synthesize_credential(unit(k), wires, public, P)
      [] session.workload = "batched_state" ->
             Jellyfish!synthesize_state(unit(k), wires, P)
      [] session.workload = "private_swap" ->
             Jellyfish!synthesize_swap(unit(k), wires, public, P)

Synthesize(u) ==
    /\ wires' = u.wires /\ holds' = (holds /\ u.holds)
    /\ index' = index + 1
    /\ UNCHANGED <<session, trace, forged, verdict>>

SynthesizeArk ==
    /\ session.system = "ark" /\ index < session.scale
    /\ Synthesize(ArkUnit(index + 1))

SynthesizeJellyfish ==
    /\ session.system = "jellyfish" /\ index < session.scale
    /\ Synthesize(JellyfishUnit(index + 1))

Judge(satisfied) == verdict' = IF satisfied THEN "satisfied" ELSE "unsatisfied"

\* A Groth16 key has room for the inputs that its setup allocated.
EnforceOutputsArk ==
    /\ session.system = "ark" /\ index = session.scale /\ verdict = "none"
    /\ Judge(/\ holds
             /\ Ark!enforce_outputs(session.workload, wires, public, P)
             /\ Len(public) = Ark!setup_inputs(session.workload, P))
    /\ UNCHANGED <<session, wires, trace, forged, index, holds>>

EnforceOutputsJellyfish ==
    /\ session.system = "jellyfish" /\ index = session.scale /\ verdict = "none"
    /\ Judge(holds /\ Jellyfish!enforce_outputs(session.workload, wires, public, P))
    /\ UNCHANGED <<session, wires, trace, forged, index, holds>>

-----------------------------------------------------------------------------
(* Traces.                                                                 *)

Rows == Len(session.units)

\* A prover may write something else into one column of one row, and goes on
\* from what it wrote.
Forge(row, column, r) ==
    IF column \in {"update_hash", "digest_hash"}
    THEN [row EXCEPT ![column][r] = @ ++ 1] ELSE [row EXCEPT ![column] = @ ++ 1]

Columns ==
    IF session.system = "state_air"
    THEN ({"state", "digest"} \X {0})
             \cup ({"update_hash", "digest_hash"} \X (1..STATE_HASH_ROUNDS))
    ELSE {<<"cell", 0>>}

FilledRow ==
    LET k == Len(trace) + 1 IN
    IF session.system = "state_air"
    THEN IF k = 1 THEN Stark!first_state_row(session.seed, unit(1))
         ELSE Stark!next_state_row(trace[k - 1], unit(k))
    ELSE IF k = 1 THEN [cell |-> session.start]
         ELSE Stark!next_proxy_row(trace[k - 1], session.factor)

FillRow ==
    /\ IsAir /\ Len(trace) < Rows
    /\ \/ trace' = Append(trace, FilledRow) /\ UNCHANGED forged
       \/ /\ forged = NotForged
          /\ \E c \in Columns :
                 /\ forged' = <<c[1], c[2], Len(trace) + 1>>
                 /\ trace' = Append(trace, Forge(FilledRow, c[1], c[2]))
    /\ UNCHANGED <<session, wires, index, holds, verdict>>

EvaluateTransition ==
    /\ IsAir /\ Len(trace) = Rows /\ index < Rows - 1
    /\ LET current == trace[index + 1]
           next == trace[index + 2]
       IN  holds' = /\ holds
                    /\ IF session.system = "state_air"
                       THEN Stark!state_transition(current, next)
                       ELSE Stark!proxy_transition(current, next, public[3])
    /\ index' = index + 1
    /\ UNCHANGED <<session, wires, trace, forged, verdict>>

CheckAssertions ==
    /\ IsAir /\ Len(trace) = Rows /\ index = Rows - 1 /\ verdict = "none"
    /\ Judge(/\ holds
             /\ IF session.system = "state_air"
                THEN Stark!state_assertions(trace, public)
                ELSE Stark!proxy_assertions(trace, public))
    /\ UNCHANGED <<session, wires, trace, forged, index, holds>>

\* The only states a session may stop in; TLC looks for any other.
Ended == verdict # "none" /\ UNCHANGED vars

Next ==
    \/ SynthesizeArk \/ EnforceOutputsArk
    \/ SynthesizeJellyfish \/ EnforceOutputsJellyfish
    \/ FillRow \/ EvaluateTransition \/ CheckAssertions
    \/ Ended

Spec == Init /\ [][Next]_vars

-----------------------------------------------------------------------------
(* What the relations are meant to say of the values they are given: the   *)
(* conditions of the application under its public inputs, and that the     *)
(* digests and aggregates among these are those of the values.             *)

Holds(w, width) == w.value < 2^width

CredentialHolds(u) ==
    /\ Holds(u.age, P.age_bits) /\ Holds(u.age_delta, P.age_bits)
    /\ u.age.value = public[1] ++ u.age_delta.value
    /\ u.authorized = 1

SwapHolds(u) ==
    /\ range_enabled(P) => /\ Holds(u.amount_a, P.range_bits)
                           /\ Holds(u.amount_b, P.range_bits)
    /\ price_enabled(P) => public[1] ** u.amount_a.value = public[2] ** u.amount_b.value
    /\ Holds(u.remaining, P.time_bits)
    /\ public[3] ++ u.remaining.value = public[4]
    /\ authorization_enabled(P) => u.authorized = 1
    /\ membership_enabled(P) =>
           \A path \in 1..P.membership_paths, level \in 1..P.merkle_depth :
               u.directions[path][level] \in {0, 1}

Power(x, k) == exp_iter(x, k + 1)[k + 1]

Predicate ==
    LET units == SubSeq(session.units, 1, session.scale)
        All(Condition(_)) == \A k \in DOMAIN units : Condition(units[k])
        \* From the first-th on.
        Aggregates(first, inputs) ==
            SubSeq(public, first, Len(public)) = SubSeq(inputs, first, Len(inputs))
    IN  CASE session.system = "proxy_air" ->
                 public = <<session.start,
                            session.start ** Power(session.factor, session.scale - 1),
                            session.factor>>
          [] OTHER ->
             CASE session.workload = "controlled_kernel" ->
                      public[2] = units[1].before ** Power(public[1], session.scale)
               [] session.workload = "credential" ->
                      All(CredentialHolds) /\ Aggregates(2, credential_public_inputs(units, P))
               [] session.workload = "batched_state" ->
                      /\ All(LAMBDA u : Holds(u.delta, P.update_bits))
                      /\ public = state_public_inputs(session.seed, units, P)
               [] session.workload = "private_swap" ->
                      /\ All(SwapHolds)
                      /\ Aggregates(5, swap_public_inputs(session.seed, units, P))

\* What a prover adds to the values, where the code computes it from them: the
\* bits of a bounded witness, the wires of a chain, the columns of a trace.
Assigned ==
    LET bounded(u) == {f \in DOMAIN u : f \in {"age", "age_delta", "delta", "amount_a",
                                               "amount_b", "remaining"}}
    IN  /\ forged = NotForged
        /\ session.workload = "controlled_kernel" =>
               \A k \in 1 .. session.scale - 1 :
                   unit(k + 1).before = unit(k).before ** public[1]
        /\ \A k \in 1..session.scale : \A f \in bounded(unit(k)) :
               unit(k)[f].bits = Bits(unit(k)[f].value, Len(unit(k)[f].bits))

\* Four encodings, written apart from each other and from the code that computes
\* the public inputs, mean one predicate: whatever a prover assigns, values,
\* bits, wires or columns, a relation is satisfied only if the predicate holds of
\* the values and the public inputs; and when it holds, the assignment the code
\* computes satisfies the relation, unless a width is too small for it.  A trace
\* that satisfies its AIR has the verifier's public inputs for its prover, too.
RelationsAcceptThePredicate ==
    verdict # "none" =>
        /\ verdict = "satisfied" => Predicate
        /\ Predicate /\ Assigned => verdict = "satisfied"
        /\ verdict = "satisfied" /\ IsAir =>
               public = IF session.system = "state_air"
                        THEN Stark!state_pub_inputs(trace)
                        ELSE Stark!proxy_pub_inputs(trace, session.factor)
================================================================================
