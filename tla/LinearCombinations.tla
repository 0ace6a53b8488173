--------------------------- MODULE LinearCombinations ---------------------------
(***************************************************************************)
(* Variables, linear combinations and gadgets of the constraint systems    *)
(* (crates/bulletproofs-vendor/src/r1cs/linear_combination.rs).            *)
(*                                                                         *)
(* A gadget is the sequence of the calls it makes.  It knows a variable    *)
(* only as what an earlier call returned: a term <<k, c, coefficient,      *)
(* power>> is component c of the k-th call's result (the constant 1 when k *)
(* is 0), times coefficient, times that power of the challenge it drew     *)
(* last.  A resolved term is a pair of a variable and its coefficient.     *)
(***************************************************************************)
EXTENDS Scalars, Integers

None == -1      \* an absent assignment, no pending multiplier

\* Variables as the crate numbers them, from 0.
Var(kind, i) == <<kind, i>>
NoVar == Var("None", 0)
One == Var("One", 0)
Multiplier(i) ==
    <<Var("MultiplierLeft", i), Var("MultiplierRight", i), Var("MultiplierOutput", i)>>
Single(var) == <<var, NoVar, NoVar>>
Nothing == Single(NoVar)

Resolve(lc, returned, challenge) ==
    [t \in DOMAIN lc |->
        <<IF lc[t][1] = 0 THEN One ELSE returned[lc[t][1]][lc[t][2]],
          lc[t][3] ** scalar_exp_vartime(challenge, lc[t][4])>>]

\* Linear combinations are only ever put one after the other: terms of the
\* same variable stay apart.
From(var) == <<<<var, 1>>>>
Negate(lc) == [t \in DOMAIN lc |-> <<lc[t][1], Neg(lc[t][2])>>]

\* lc - var, the constraint multiply adds for each of its inputs.
Minus(lc, var) == lc \o Negate(From(var))

\* The closures of the randomized phase, one after the other.
InTurn(closures) ==
    LET upto[k \in 0..Len(closures)] ==
            IF k = 0 THEN <<>> ELSE upto[k - 1] \o closures[k]
    IN  upto[Len(closures)]

\* z for the first constraint, z^2 for the next, ..., each times the
\* coefficients its constraint has for var.
WeightOf(constraints, var, z) ==
    SumUpTo(Len(constraints), LAMBDA q :
        scalar_exp_vartime(z, q) **
            SumUpTo(Len(constraints[q]), LAMBDA t :
                IF constraints[q][t][1] = var THEN constraints[q][t][2] ELSE 0))

Weights(constraints, kind, count, z) ==
    [i \in 1..count |-> WeightOf(constraints, Var(kind, i - 1), z)]
================================================================================
