----------------------------- MODULE EvidenceLog -----------------------------
(***************************************************************************)
(* What a campaign directory promises whoever reads raw_results.csv: it is *)
(* written by one campaign, once.  Rows are only ever added behind the     *)
(* ones that are there, and when the campaign is over, however it ended,   *)
(* nothing is added any more.                                              *)
(***************************************************************************)
EXTENDS Sequences

CONSTANT Rows

VARIABLES
    log,      \* the rows in the file
    writer    \* "none" before the campaign, "open" during it, "closed" after

logVars == <<log, writer>>

Init == log = <<>> /\ writer = "none"

Open == writer = "none" /\ writer' = "open" /\ UNCHANGED log

Add ==
    /\ writer = "open"
    /\ \E row \in Rows : log' = Append(log, row)
    /\ UNCHANGED writer

Close == writer = "open" /\ writer' = "closed" /\ UNCHANGED log

Next == Open \/ Add \/ Close

Spec == Init /\ [][Next]_logVars
=============================================================================
