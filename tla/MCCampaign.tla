----------------------------- MODULE MCCampaign -----------------------------
(* The instances of Campaign for TLC are given by the configurations. *)
EXTENDS Campaign
=============================================================================
