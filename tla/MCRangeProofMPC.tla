----------------------------- MODULE MCRangeProofMPC -----------------------------
EXTENDS RangeProofMPC, RangeWorkload

\* Arbitrary scalars, different for every party and place.
MCDraw(j, k) == 1 + ((7919 * (j + 1) + 10473 * k + 31 * k * k * (j + 2)) % 46336)

\* The challenges of a session; only x may come out zero.
MCYields(label) ==
    CASE label = "x" -> {0, 401}
      [] label = "y" -> {211, 11}
      [] label = "z" -> {3001}
      [] label = "w" -> {17}
      [] label = "u" -> {29, 8191}

Positions0(k) == [i \in 1..k |-> i - 1]
Exchanged(k) == [Positions0(k) EXCEPT ![1] = 1, ![2] = 0]

MakeSession(bits, vs, faults, route) ==
    LET o == Positions0(Len(vs)) IN
    [n |-> bits, values |-> vs, faults |-> faults,
     bits |-> o, polys |-> o, shares |-> o, route |-> route]

Fine(k) == [i \in 1..k |-> "none"]
Routes == {"receive_shares", "receive_trusted_shares"}

\* One, two and four parties, two bits or one; values in range and not.
HonestSessions ==
    {MakeSession(2, v, Fine(Len(v)), r) :
        v \in {<<0>>, <<3>>, <<4>>, <<0, 1>>, <<3, 2>>, <<1, 1>>, <<3, 5>>}, r \in Routes}
    \cup {MakeSession(1, v, Fine(4), r) :
              v \in {<<0, 1, 1, 0>>, <<1, 0, 2, 1>>}, r \in Routes}

\* Sizes the dealer refuses.
RefusedSessions ==
    {MakeSession(16, <<1>>, Fine(1), "receive_shares"),
     MakeSession(3, <<1>>, Fine(1), "receive_shares"),
     MakeSession(2, <<1, 2, 3>>, Fine(3), "receive_shares"),
     MakeSession(1, [k \in 1..8 |-> 0], Fine(8), "receive_shares")}

\* Two parties, any of them deviating.
DeviantSessions ==
    {MakeSession(2, <<2, 1>>, f, "receive_shares") :
        f \in {g \in [1..2 -> Faults] :
                  "none" \in {g[1], g[2]} \/ {g[1], g[2]} \cap {"short", "t_x"} # {}}}
    \cup {MakeSession(2, <<2, 1>>, <<f, "none">>, "receive_trusted_shares") :
              f \in Faults}
    \cup {MakeSession(2, <<7, 1>>, <<"none", f>>, "receive_shares") : f \in Faults}

\* Two honest parties whose messages are exchanged, or of whom one is lost.
CarriedSessions ==
    LET honest(r) == MakeSession(2, <<2, 1>>, Fine(2), r)
        orders == {<<0, 1>>, <<1, 0>>, <<1>>}
    IN  {[honest(r) EXCEPT !.bits = b, !.polys = p, !.shares = s] :
            b \in orders, p \in orders, s \in orders, r \in Routes}

\* Requests to the adapter, which refuses ranges of four bits and a scale of
\* three.  The values drawn reach the upper end of the range.
Requests ==
    {[range_bits |-> b, scale |-> s, mixed |-> [k \in 1 .. 2 * s |-> x + 126 * k]] :
        b \in {4, 8}, s \in {1, 3}, x \in {0, 126}}

MCSessions ==
    HonestSessions \cup RefusedSessions \cup DeviantSessions \cup CarriedSessions
        \cup AdapterSessions(Requests)
================================================================================
