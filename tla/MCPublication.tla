---------------------------- MODULE MCPublication ----------------------------
(***************************************************************************)
(* Publication with two systems, one repetition of each by default, and    *)
(* fees chosen so that an L1 fee may exceed its reserve, the reservations  *)
(* may exceed the cap, and the fees paid may exceed it when they do not.   *)
(***************************************************************************)
EXTENDS Publication

MCArtifacts == {"groth16", "stark"}
MCQuotes == {2, 3}
MCL2Fees == {2}
MCL1Fees == {2, 4}
=============================================================================
