------------------------------ MODULE MCCampaign ------------------------------
(***************************************************************************)
(* Campaign with one or two processes on one directory, a valid cell with  *)
(* a primer and an invalid-proof cell.                                     *)
(***************************************************************************)
EXTENDS Campaign

OneCampaign == {"c1"}
TwoCampaigns == {"c1", "c2"}
MCCells == {"valid"}
MCInvalidCells == {"invalid"}
=============================================================================
