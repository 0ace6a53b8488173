------------------------- MODULE MCApplicationRelations -------------------------
EXTENDS ApplicationRelations

\* Any number will do for a mixed one.
MCSplitmix(seed, i) == 7919 * (seed + 1) + 104729 * i

-----------------------------------------------------------------------------
(* Assignments: the code's, or one value of one unit another one.          *)

MCParameters ==
    [age_bits |-> 7, update_bits |-> STATE_UPDATE_BITS, range_bits |-> 12, time_bits |-> 10,
     hash_rounds |-> STATE_HASH_ROUNDS, merkle_depth |-> 2, membership_paths |-> 2,
     ablation |-> "full", delta_schedule |-> "splitmix64-v1"]

\* A number w bits cannot hold, as its lowest bits and a digit on top.
Digits(number, w) ==
    LET top == number \div 2^(w - 1)
    IN  [value |-> number, bits |-> [Bits(number % 2^(w - 1), w) EXCEPT ![w] = top]]

\* The value with the bits of another one.
OtherBits(b) == [b EXCEPT !.bits[1] = 1 - @]

Credentials(u, p) ==
    LET w == p.age_bits
        aged(age, delta) == [u EXCEPT !.age = age, !.age_delta = delta]
    IN  {aged(Bounded(17, w), [value |-> Neg(1), bits |-> Bits(Neg(1), w)]),
         aged(Bounded(18, w), Bounded(0, w)),
         aged(Bounded(2^w, w), Bounded(2^w - 18, w)),
         aged(Digits(2^w + 1, w), Bounded(2^w - 17, w)),
         aged(u.age, Bounded(u.age.value - 17, w)),
         aged(OtherBits(u.age), u.age_delta),
         [u EXCEPT !.authorized = 0], [u EXCEPT !.nonce = @ ++ 1]}

States(u, p) ==
    LET w == p.update_bits IN
    {[delta |-> d] : d \in {Bounded(0, w), Bounded(2^w - 1, w), Bounded(2^w, w),
                            Digits(2^w + 1, w), OtherBits(u.delta)}}

Swaps(u, p) ==
    LET w == p.range_bits IN
    {[u EXCEPT !.amount_b = Bounded(@.value ++ 1, w)],
     [u EXCEPT !.amount_a = Bounded(2^w, w), !.amount_b = Bounded(3 * 2^(w - 1), w)],
     [u EXCEPT !.amount_a = Digits(2^w, w), !.amount_b = Digits(3 * 2^(w - 1), w)],
     [u EXCEPT !.amount_a = OtherBits(@)],
     [u EXCEPT !.remaining = Bounded(601, p.time_bits)],
     [u EXCEPT !.authorized = 0], [u EXCEPT !.secret = @ ++ 1],
     [u EXCEPT !.siblings[2][1] = @ ++ 1],
     [u EXCEPT !.directions[1][2] = 1 - @], [u EXCEPT !.directions[1][1] = 2]}

\* The code's units, and those that differ from them in one place.
Variants(units, Others(_)) ==
    {units} \cup UNION {{[units EXCEPT ![k] = o] : o \in Others(units[k])} : k \in DOMAIN units}

-----------------------------------------------------------------------------
(* Sessions.  The verifier's public inputs are those of the seed, those of *)
(* the units assigned, or another last one (the adapters' invalid case).   *)

Session(system, workload, seed, p, units, inputs) ==
    [system |-> system, workload |-> workload, seed |-> seed, parameters |-> p,
     scale |-> IF system = "state_air" THEN Len(units) - 1 ELSE Len(units),
     units |-> units, public |-> inputs, start |-> 0, factor |-> 0]

Inputs(Of(_), units, variant) ==
    LET own == Of(variant)
    IN  {Of(units), own, [own EXCEPT ![Len(own)] = @ ++ 1]}

Circuits == {"ark", "jellyfish"}
Seeds == {7, 20}

CredentialSessions ==
    UNION {LET p == [MCParameters EXCEPT !.age_bits = bits]
               units == [k \in 1..2 |-> credential_unit(seed, k - 1, p)]
               Of(us) == credential_public_inputs(us, p)
           IN  UNION {{Session(system, "credential", seed, p, v, i) :
                          system \in Circuits,
                          i \in Inputs(Of, units, v) \cup {[Of(v) EXCEPT ![1] = 17]}} :
                      v \in Variants(units, LAMBDA u : Credentials(u, p))} :
           seed \in Seeds, bits \in {5, 7}}

StateSessions ==
    UNION {LET p == [MCParameters EXCEPT !.delta_schedule = schedule]
               units == [k \in 1..4 |-> state_unit(seed, k - 1, p)]
               Of(us) == state_public_inputs(seed, SubSeq(us, 1, 3), p)
           IN  UNION {{Session(system, "batched_state", seed, p,
                               IF system = "state_air" THEN v ELSE SubSeq(v, 1, 3), i) :
                          system \in IF schedule = "linear-v1" THEN Circuits
                                     ELSE Circuits \cup {"state_air"},
                          i \in Inputs(Of, units, v)} :
                      v \in Variants(units, LAMBDA u : States(u, p))} :
           seed \in Seeds, schedule \in {"linear-v1", "splitmix64-v1"}}

\* A price of one to one, and amounts that are not, is one more claim.
SwapSessions ==
    UNION {LET p == [MCParameters EXCEPT !.ablation = ablation, !.range_bits = bits[1],
                                         !.time_bits = bits[2]]
               units == [k \in 1..2 |-> swap_unit(7, k - 1, p)]
               Of(us) == swap_public_inputs(7, us, p)
           IN  UNION {{Session(system, "private_swap", 7, p, v, i) :
                          system \in Circuits,
                          i \in Inputs(Of, units, v) \cup {[Of(v) EXCEPT ![1] = 2]}} :
                      v \in Variants(units, LAMBDA u : Swaps(u, p))} :
           ablation \in {"full", "no_membership", "no_range", "no_price",
                         "no_authorization"},
           bits \in {<<12, 10>>, <<7, 10>>, <<12, 9>>}}

\* The code's wires, and others; and the output of a chain a step shorter.
ChainSessions ==
    UNION {LET v == values(seed, scale)
               before[k \in 1..scale] ==
                   IF k = 1 THEN v.initial ELSE before[k - 1] ** v.factor
               units == [k \in 1..scale |-> [before |-> before[k]]]
           IN  {Session(system, "controlled_kernel", seed, MCParameters, us,
                        <<v.factor, output>>) :
                   system \in Circuits,
                   us \in Variants(units, LAMBDA u : {[before |-> u.before ++ 1]}),
                   output \in {v.output, v.output ++ 1, values(seed, scale - 1).output}} :
           seed \in Seeds, scale \in 1..3}

ProxySessions ==
    UNION {{[Session("proxy_air", "credential", 7, MCParameters,
                     [k \in 1..steps |-> [cell |-> k]],
                     <<19, Stark!result_value(19, 23, steps) ++ more, factor>>)
                EXCEPT !.start = 19, !.factor = 23] :
               more \in {0, 1}, factor \in {23, 29}} :
           steps \in {2, 4, 8}}

MCSessions ==
    CredentialSessions \cup StateSessions \cup SwapSessions
        \cup ChainSessions \cup ProxySessions
================================================================================
