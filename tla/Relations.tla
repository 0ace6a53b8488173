-------------------------------- MODULE Relations --------------------------------
(***************************************************************************)
(* The application relations as the adapters compute them outside of any   *)
(* proof system (adapters/ark-groth16/src/relations.rs and the same        *)
(* functions in the PLONK adapter): the values a seed stands for, and the  *)
(* public inputs of a sequence of units.  A field element is a scalar; a   *)
(* bounded witness is its value with the bits it is assigned.              *)
(***************************************************************************)
EXTENDS Scalars

\* splitmix64 of a seed and an index: a number of 64 bits like any other.
CONSTANT Splitmix(_, _)

Fr(number) == number % Order

hash_native(left, right, rounds) ==
    LET state[r \in 0..rounds] ==
            IF r = 0 THEN (left ++ Fr(7) ** right) ++ Fr(11)
            ELSE LET square == state[r - 1] ** state[r - 1]
                     fourth == square ** square
                 IN  fourth ** state[r - 1] ++ Fr(r + 18)
    IN  state[rounds]

membership_enabled(P) == P.ablation # "no_membership"
range_enabled(P) == P.ablation # "no_range"
price_enabled(P) == P.ablation # "no_price"
authorization_enabled(P) == P.ablation # "no_authorization"

-----------------------------------------------------------------------------
(* The values of a unit, and the witness they are assigned to.             *)

\* The low bits of a number, whether they hold it or not.
Bits(number, width) == [i \in 1..width |-> (number \div 2^(i - 1)) % 2]
Bounded(number, width) == [value |-> Fr(number), bits |-> Bits(number, width)]

credential_unit(seed, index, P) ==
    LET age == 18 + ((seed + 17 * index) % 83)
    IN  [age |-> Bounded(age, P.age_bits), age_delta |-> Bounded(age - 18, P.age_bits),
         subject |-> Fr(seed + 31 * index + 101), nonce |-> Fr(seed + 43 * index + 211),
         authorized |-> 1]

state_delta(seed, index, width, schedule) ==
    LET mask == 2^(IF width >= 63 THEN 63 ELSE width) - 1
        raw == IF schedule = "linear-v1" THEN seed + 13 * index ELSE Splitmix(seed, index)
    IN  2 + (raw % (mask - 2))

state_unit(seed, index, P) ==
    [delta |-> Bounded(state_delta(seed, index, P.update_bits, P.delta_schedule),
                       P.update_bits)]

swap_values(seed, index) ==
    LET a == 100 + 2 * ((seed + 5 * index) % 1000)
    IN  [amount_a |-> a, amount_b |-> (a * 3) \div 2, secret |-> seed + 47 * index + 401]

swap_unit(seed, index, P) ==
    LET v == swap_values(seed, index)
        At(F(_, _)) == [path \in 1..P.membership_paths |->
                           [level \in 1..P.merkle_depth |-> F(path - 1, level - 1)]]
    IN  [amount_a |-> Bounded(v.amount_a, P.range_bits),
         amount_b |-> Bounded(v.amount_b, P.range_bits),
         secret |-> Fr(v.secret),
         remaining |-> Bounded(600, P.time_bits),
         authorized |-> 1,
         siblings |-> At(LAMBDA p, l : Fr(seed + index * 101 + p * 17 + l + 607)),
         directions |-> At(LAMBDA p, l : (seed + index + p + l) % 2)]

-----------------------------------------------------------------------------
(* The public inputs of units: what the code computes natively from the    *)
(* values of a seed.                                                       *)

credential_public_inputs(units, P) ==
    LET H(left, right) == hash_native(left, right, P.hash_rounds)
        aggregate[k \in 0..Len(units)] ==
            IF k = 0 THEN Fr(23)
            ELSE LET identity == H(units[k].subject, units[k].nonce)
                 IN  H(aggregate[k - 1], H(identity, units[k].age.value))
    IN  <<Fr(18), aggregate[Len(units)]>>

state_public_inputs(seed, units, P) ==
    LET H(left, right) == hash_native(left, right, P.hash_rounds)
        state[k \in 0..Len(units)] ==
            IF k = 0 THEN Fr(seed + 29) ELSE state[k - 1] ++ units[k].delta.value
        digest[k \in 0..Len(units)] ==
            IF k = 0 THEN Fr(31)
            ELSE H(digest[k - 1], H(units[k].delta.value, state[k]))
    IN  <<Fr(seed + 29), state[Len(units)], digest[Len(units)]>>

\* A path from the leaf of its amounts: the sibling is on the left when the
\* direction says so.
path_root(u, path, P) ==
    LET H(left, right) == hash_native(left, right, P.hash_rounds)
        node[level \in 0..P.merkle_depth] ==
            IF level = 0 THEN H(H(u.amount_a.value, u.amount_b.value), Fr(path + 1))
            ELSE IF u.directions[path][level] = 1
            THEN H(u.siblings[path][level], node[level - 1])
            ELSE H(node[level - 1], u.siblings[path][level])
    IN  node[P.merkle_depth]

swap_public_inputs(seed, units, P) ==
    LET H(left, right) == hash_native(left, right, P.hash_rounds)
        domain == Fr(seed + 503)
        hashlocks[k \in 0..Len(units)] ==
            IF k = 0 THEN Fr(37) ELSE H(hashlocks[k - 1], H(units[k].secret, domain))
        \* The paths of all units, one after the other.
        roots[k \in 0 .. Len(units) * P.membership_paths] ==
            IF k = 0 THEN Fr(41)
            ELSE H(roots[k - 1],
                   path_root(units[((k - 1) \div P.membership_paths) + 1],
                             ((k - 1) % P.membership_paths) + 1, P))
    IN  <<Fr(3), Fr(2), Fr(10000), Fr(10600), domain, hashlocks[Len(units)]>>
            \o (IF membership_enabled(P)
                THEN <<roots[Len(units) * P.membership_paths]>> ELSE <<>>)

\* The controlled kernel: a start multiplied steps times with a factor.
values(seed, steps) ==
    LET output[k \in 0..steps] ==
            IF k = 0 THEN Fr(seed + 17) ELSE output[k - 1] ** Fr(seed + 29)
    IN  [initial |-> Fr(seed + 17), factor |-> Fr(seed + 29), output |-> output[steps]]
================================================================================
