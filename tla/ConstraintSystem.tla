---------------------------- MODULE ConstraintSystem ----------------------------
(***************************************************************************)
(* What a gadget relies on (r1cs/constraint_system.rs): the same calls,    *)
(* made to the prover's constraint system and to the verifier's, return    *)
(* the same variables and leave the same constraints behind, whatever the  *)
(* assignments are that only the prover sees.  This is the system neither  *)
(* of them is: only its shape, whatever linear combinations are made of.   *)
(* R1CSProver and R1CSVerifier implement it.                               *)
(***************************************************************************)
EXTENDS Integers, Sequences

CONSTANTS
    Gadgets,            \* the gadgets there may be
    None,               \* no pending multiplier
    Var(_, _),          \* the variable of a kind and a number
    Single(_),          \* what a call returns that returns one variable,
    Multiplier(_),      \* a multiplier's three,
    Nothing,            \* or none
    Resolve(_, _, _),   \* the linear combination a term of a gadget stands for
    Minus(_, _),        \* that combination less a variable
    InTurn(_)           \* closures one after the other

VARIABLES
    todo,           \* the calls still to be made
    randomizing,    \* the closures are being run
    committed,      \* committed variables
    multipliers,    \* multipliers
    pending,        \* the multiplier of which only the left input is allocated
    constraints,    \* the linear constraints
    deferred,       \* the closures for the randomized phase
    returned,       \* what each call returned
    challenge       \* the last challenge a closure drew

vars == <<todo, randomizing, committed, multipliers, pending, constraints,
          deferred, returned, challenge>>

Init ==
    /\ todo \in Gadgets
    /\ randomizing = FALSE /\ committed = 0 /\ multipliers = 0 /\ pending = None
    /\ constraints = <<>> /\ deferred = <<>> /\ returned = <<>> /\ challenge = 1

Call == Head(todo)
Lc(lc) == Resolve(lc, returned, challenge)

Calling(op) == todo # <<>> /\ Call.op = op /\ todo' = Tail(todo)
Returning(result) == returned' = Append(returned, result)

commit ==
    /\ Calling("commit") /\ ~randomizing
    /\ committed' = committed + 1
    /\ Returning(Single(Var("Committed", committed)))
    /\ UNCHANGED <<randomizing, multipliers, pending, constraints, deferred, challenge>>

multiply ==
    /\ Calling("multiply")
    /\ multipliers' = multipliers + 1
    /\ constraints' = constraints \o
           <<Minus(Lc(Call.left), Var("MultiplierLeft", multipliers)),
             Minus(Lc(Call.right), Var("MultiplierRight", multipliers))>>
    /\ Returning(Multiplier(multipliers))
    /\ UNCHANGED <<randomizing, committed, pending, deferred, challenge>>

\* Two allocations share a multiplier.
allocate ==
    /\ Calling("allocate")
    /\ IF pending = None
       THEN /\ multipliers' = multipliers + 1
            /\ pending' = multipliers
            /\ Returning(Single(Var("MultiplierLeft", multipliers)))
       ELSE /\ pending' = None
            /\ Returning(Single(Var("MultiplierRight", pending)))
            /\ UNCHANGED multipliers
    /\ UNCHANGED <<randomizing, committed, constraints, deferred, challenge>>

allocate_multiplier ==
    /\ Calling("allocate_multiplier")
    /\ multipliers' = multipliers + 1
    /\ Returning(Multiplier(multipliers))
    /\ UNCHANGED <<randomizing, committed, pending, constraints, deferred, challenge>>

constrain ==
    /\ Calling("constrain")
    /\ constraints' = Append(constraints, Lc(Call.lc))
    /\ Returning(Nothing)
    /\ UNCHANGED <<randomizing, committed, multipliers, pending, deferred, challenge>>

specify_randomized_constraints ==
    /\ Calling("specify_randomized_constraints") /\ ~randomizing
    /\ deferred' = Append(deferred, Call.closure)
    /\ Returning(Nothing)
    /\ UNCHANGED <<randomizing, committed, multipliers, pending, constraints, challenge>>

\* The first phase is over: a half allocated multiplier stays half allocated.
create_randomized_constraints ==
    /\ todo = <<>> /\ ~randomizing
    /\ randomizing' = TRUE
    /\ pending' = None
    /\ todo' = InTurn(deferred)
    /\ deferred' = <<>>
    /\ UNCHANGED <<committed, multipliers, constraints, returned, challenge>>

\* The transcript is not the system's: it does not say what is drawn.
challenge_scalar_call ==
    /\ Calling("challenge_scalar") /\ randomizing
    /\ Returning(Nothing)
    /\ UNCHANGED <<randomizing, committed, multipliers, pending, constraints, deferred>>

Next ==
    \/ commit \/ multiply \/ allocate \/ allocate_multiplier \/ constrain
    \/ specify_randomized_constraints \/ create_randomized_constraints
    \/ challenge_scalar_call

Spec == Init /\ [][Next]_vars
================================================================================
