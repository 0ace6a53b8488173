-------------------------------- MODULE Points ---------------------------------
(***************************************************************************)
(* Group elements, generators and the Fiat-Shamir transcript of the        *)
(* Bulletproofs crate (generators.rs, transcript.rs).  No relation between *)
(* the generators is known to anybody, so a point is what it is a formal   *)
(* combination of: a function from generators to scalars.                  *)
(***************************************************************************)
EXTENDS Scalars

CONSTANTS
    GensCapacity,   \* generators precomputed for each party
    PartyCapacity   \* parties that have generators

ASSUME CapacityAssumption == GensCapacity \in Nat /\ PartyCapacity \in Nat

\* increase_capacity derives party j's G_i and H_i from a stream labelled by
\* the letter and the party: they are independent across labels and places.
Generator ==
    {<<"B", 0, 0>>, <<"B_blinding", 0, 0>>}
        \cup ({"G", "H"} \X (0 .. PartyCapacity - 1) \X (1 .. GensCapacity))

Point == [Generator -> Scalar]

Identity == [g \in Generator |-> 0]
Base(g) == [Identity EXCEPT ![g] = 1]
B == Base(<<"B", 0, 0>>)
B_blinding == Base(<<"B_blinding", 0, 0>>)

P (+) Q == [g \in Generator |-> P[g] ++ Q[g]]

multiscalar_mul(scalars, points) ==
    [g \in Generator |->
        SumUpTo(Len(points), LAMBDA k : scalars[k] ** points[k][g])]

SumOfPoints(points) == multiscalar_mul([k \in DOMAIN points |-> 1], points)

commit(value, blinding) == multiscalar_mul(<<value, blinding>>, <<B, B_blinding>>)

\* Party j's first n generators: share(j).G(n) and share(j).H(n).
ShareGens(letter, j, n) == [i \in 1..n |-> Base(<<letter, j, i>>)]

\* G(n, m) and H(n, m): AggregatedGensIter moves on to the next party's
\* generators after n of them.
AggregatedGens(letter, n, m) ==
    [k \in 1 .. n * m |->
        Base(<<letter, (k - 1) \div n, ((k - 1) % n) + 1>>)]

-----------------------------------------------------------------------------
(* A transcript is the sequence of what was appended to it and drawn from  *)
(* it.  A challenge is a function of all that precedes it: whoever has     *)
(* built the same transcript as the prover draws the prover's challenge,   *)
(* whoever has not draws one that has nothing to do with it.               *)

Append1(transcript, label, value) == Append(transcript, <<label, value>>)

rangeproof_domain_sep(transcript, n, m) ==
    transcript \o <<<<"dom-sep", "rangeproof v1">>, <<"n", n>>, <<"m", m>>>>

innerproduct_domain_sep(transcript, n) ==
    transcript \o <<<<"dom-sep", "ipp v1">>, <<"n", n>>>>

r1cs_domain_sep(transcript) == Append1(transcript, "dom-sep", "r1cs v1")

\* The prover's transcript, rest, tells what was drawn after transcript.
challenge_scalar(transcript, rest, unrelated, label) ==
    LET k == Len(transcript) + 1 IN
    IF k <= Len(rest) /\ SubSeq(rest, 1, k - 1) = transcript
                      /\ rest[k][1] = label
    THEN rest[k][2] ELSE unrelated
================================================================================
