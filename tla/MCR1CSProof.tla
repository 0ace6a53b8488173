------------------------------- MODULE MCR1CSProof ------------------------------
EXTENDS R1CSProof

\* Arbitrary scalars, none of them zero.
MCDraw(k) == 1 + ((7919 * (k + 1) + 31 * k * k) % 46336)

MCYields(label) ==
    CASE label = "y" -> {211}
      [] label = "z" -> {3001}
      [] label = "x" -> {401, 11}
      [] label = "w" -> {17}
      [] label = "u" -> {29, 8191}
      [] label = "closure" -> {5, 613}

-----------------------------------------------------------------------------
(* Gadgets.  Result(k) is what call k returned.                            *)

Times1(c, k, part) == <<k, part, c, 0>>
Result(k) == Times1(1, k, 1)
Output(k) == Times1(1, k, 3)
Commit(x) == [op |-> "commit", value |-> x, blinding |-> MCDraw(100 + x)]
Multiply(l, r) == [op |-> "multiply", left |-> l, right |-> r]
Allocate(x) == [op |-> "allocate", value |-> x]
AllocateMultiplier(l, r) == [op |-> "allocate_multiplier", left |-> l, right |-> r]
Constrain(lc) == [op |-> "constrain", lc |-> lc]
Randomize(closure) == [op |-> "specify_randomized_constraints", closure |-> closure]
DrawChallenge == [op |-> "challenge_scalar"]

\* a * b = c over commitments.
Product(a, b, c) ==
    <<Commit(a), Commit(b), Commit(c), Multiply(<<Result(1)>>, <<Result(2)>>),
      Constrain(<<Output(4), Times1(Neg(1), 3, 1)>>)>>

\* a + b = c, without a multiplier.
Linear(a, b, c) ==
    <<Commit(a), Commit(b),
      Constrain(<<Result(1), Result(2), Constant(Neg(c))>>)>>

\* Three allocations: the last multiplier stays half allocated; l * r = o.
Allocations(l, r, o) ==
    <<Allocate(l), Allocate(r), Allocate(o),
      Multiply(<<Result(1)>>, <<Result(2)>>),
      Constrain(<<Output(4), Times1(Neg(1), 3, 1)>>)>>

\* The first phase leaves a multiplier half allocated, a closure allocates.
HalfAllocated(x, y) ==
    <<Commit(x), Allocate(x),
      Constrain(<<Result(1), Times1(Neg(1), 2, 1)>>),
      Randomize(<<DrawChallenge, Allocate(y),
                  Constrain(<<Result(6), Constant(Neg(y))>>)>>)>>

\* (a - ch)(b - ch) = (c - ch)(d - ch): the shuffle of two.
Shuffle(a, b, c, d) ==
    LET less(k) == <<Result(k), <<0, 1, Neg(1), 1>>>>
    IN  <<Commit(a), Commit(b), Commit(c), Commit(d),
          Randomize(<<DrawChallenge, Multiply(less(1), less(2)),
                      Multiply(less(3), less(4)),
                      Constrain(<<Output(7), Times1(Neg(1), 8, 3)>>)>>)>>

\* Two closures, of which the first only constrains: a multiplier of the first
\* phase, another in the second; x = y as x + ch * y = ch * y + y.
TwoClosures(x, y) ==
    <<AllocateMultiplier(x, y),
      Randomize(<<DrawChallenge,
                  Constrain(<<Result(1), <<1, 2, 1, 1>>, <<1, 2, Neg(1), 1>>,
                              Times1(Neg(1), 1, 2)>>)>>),
      Randomize(<<DrawChallenge, Multiply(<<Result(1)>>, <<<<1, 2, 1, 2>>>>)>>)>>

\* Only constraints in the second phase.
LateConstraint(x, y) ==
    <<Commit(x), AllocateMultiplier(x, y),
      Randomize(<<DrawChallenge,
                  Constrain(<<<<1, 1, 1, 1>>, <<2, 1, Neg(1), 1>>>>)>>)>>

NoWitness == <<Allocate(None)>>
NoMultiplierWitness == <<AllocateMultiplier(None, None)>>

Honest ==
    {Product(3, 5, 15), Product(3, 5, 16), Product(0, 5, 0),
     Linear(2, 3, 5), Linear(2, 3, 6),
     Allocations(3, 4, 12), Allocations(3, 4, 13),
     HalfAllocated(7, 9),
     Shuffle(8, 9, 9, 8), Shuffle(8, 9, 8, 8),
     TwoClosures(6, 6), TwoClosures(6, 7), LateConstraint(4, 2)}

-----------------------------------------------------------------------------
(* Sessions.                                                               *)

None4 == <<"none", 0, 0, 0>>

Same(g, p, how) ==
    [gadget |-> g, vgadget |-> g, public |-> p, vpublic |-> p, altered |-> how]

\* The chain of a request, verified with its output or with the next.
Chain(request, invalid) ==
    LET i == chain_instance(1234, 77, request.workload, relation_steps(request))
        j == verification_instance(i, invalid)
    IN  [gadget |-> chain_gadget(i, MCDraw(99)), vgadget |-> chain_gadget(j, MCDraw(99)),
         public |-> append_public_instance(i), vpublic |-> append_public_instance(j),
         altered |-> "no"]

NoParameters == [name \in {} |-> 0]
Request(workload, mode, scale, parameters) ==
    [workload |-> workload, scale_mode |-> mode, scale |-> scale,
     parameters |-> parameters]

\* The last of them has the shortest chain a relation can have in its own size.
Requests ==
    {Request("controlled_kernel", "absent", 2, NoParameters),
     Request("controlled_kernel", "absent", 3, NoParameters),
     Request("credential", "target_native_size", 2, NoParameters),
     Request("batched_state", "target_native_size", 5, NoParameters),
     Request("private_swap", "absent", 7, [target_native_size |-> 3])}
Smallest ==
    Request("batched_state", "absent", 1, [update_bits |-> 2, hash_rounds |-> 2])

Alterations == {"commitment", "version", "truncated", "header", "a_round_more",
                "A_I1", "t_x", "second_phase", "T_6"}

MCSessions ==
    {Same(g, None4, "no") : g \in Honest \cup {NoWitness, NoMultiplierWitness}}
    \cup {Same(g, None4, how) :
             g \in {Product(3, 5, 15), Shuffle(8, 9, 9, 8), Linear(2, 3, 5)},
             how \in Alterations}
    \cup {Chain(r, invalid) : r \in Requests, invalid \in BOOLEAN}
    \cup {Chain(Smallest, FALSE)}
    \cup {[Same(Linear(2, 3, 5), None4, "no") EXCEPT !.vgadget = Linear(2, 3, 6)],
          [Same(Linear(2, 3, 5), None4, "no") EXCEPT !.vpublic = <<"none", 1, 0, 0>>]}

\* More multipliers than generators, in the first phase alone or with those of
\* the second.
Multipliers(count) == [k \in 1..count |-> AllocateMultiplier(1, 2)]
MCLate ==
    {Same(Multipliers(GensCapacity + 1), None4, "no"),
     Same(Append(Multipliers(GensCapacity \div 2 - 1), Randomize(Multipliers(2 + GensCapacity \div 2))),
          None4, "no")}

MCAllSessions == MCSessions \cup MCLate
MCGadgets == {s.gadget : s \in MCAllSessions} \cup {s.vgadget : s \in MCAllSessions}
MCPublics == {s.public : s \in MCAllSessions} \cup {s.vpublic : s \in MCAllSessions}
================================================================================
