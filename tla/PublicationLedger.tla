-------------------------- MODULE PublicationLedger --------------------------
(***************************************************************************)
(* What a publication campaign promises the owner of the wallet, without   *)
(* RPC endpoint, receipts or files: transactions go out one at a time, the *)
(* next one only after the last one is on record, and the campaign ends.   *)
(* However it ends, at most one transaction was paid and not recorded.     *)
(***************************************************************************)
EXTENDS Naturals

VARIABLES
    sent,       \* transactions the network has accepted
    recorded,   \* transactions with a row on record
    over        \* the campaign has ended

ledgerVars == <<sent, recorded, over>>

Init == sent = 0 /\ recorded = 0 /\ over = FALSE

Send ==
    /\ ~over /\ sent = recorded
    /\ sent' = sent + 1
    /\ over' \in BOOLEAN      \* the answer may be lost with the connection
    /\ UNCHANGED recorded

Record ==
    /\ ~over /\ recorded < sent
    /\ recorded' = recorded + 1
    /\ UNCHANGED <<sent, over>>

End ==
    /\ ~over
    /\ over' = TRUE
    /\ UNCHANGED <<sent, recorded>>

Next == Send \/ Record \/ End

Spec == Init /\ [][Next]_ledgerVars /\ <>over
=============================================================================
