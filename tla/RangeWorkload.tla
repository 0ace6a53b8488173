----------------------------- MODULE RangeWorkload ------------------------------
(***************************************************************************)
(* The session the Bulletproofs adapter holds for its range workload       *)
(* (adapters/bulletproofs-range/src/main.rs): twice as many values as the  *)
(* request's scale, all of them within its range, proved in one go.        *)
(***************************************************************************)
EXTENDS Scalars

\* A request's range_bits and scale decide; range_bits is 32 if it is absent.
range_bits_refused(bits) == bits \notin 8..32 \/ ~IsPowerOfTwo(bits)

aggregate_values(scale) == 2 * scale
aggregation_refused(scale) == ~IsPowerOfTwo(aggregate_values(scale))

\* mixed is what the request's seed and a value's index are mixed into: any
\* number of 64 bits.  Neither 0 nor 1 nor the largest value is ever proved.
values(mixed, bits) ==
    LET max == 2^bits - 1
    IN  [i \in DOMAIN mixed |-> 2 + (mixed[i] % (max - 2))]

\* prove_multiple carries every message in order and trusts its own shares.
AdapterSession(request) ==
    LET count == aggregate_values(request.scale)
        order == [k \in 1..count |-> k - 1]
    IN  [n |-> request.range_bits,
         values |-> values(request.mixed, request.range_bits),
         faults |-> [k \in 1..count |-> "none"],
         bits |-> order, polys |-> order, shares |-> order,
         route |-> "receive_trusted_shares"]

\* The sessions of the requests the adapter does not refuse.
AdapterSessions(requests) ==
    {AdapterSession(r) :
        r \in {q \in requests : /\ ~range_bits_refused(q.range_bits)
                                /\ ~aggregation_refused(q.scale)}}
================================================================================
