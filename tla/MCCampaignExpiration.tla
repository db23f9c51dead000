------------------------ MODULE MCCampaignExpiration ------------------------
(***************************************************************************)
(* Small instances of CampaignExpiration for TLC.  Each configuration      *)
(* names the set of request handlers and of workers it starts, which are   *)
(* interchangeable in the safety runs.                                     *)
(***************************************************************************)
EXTENDS CampaignExpiration, TLC

Symmetry == Permutations(Requests) \union Permutations(Workers)
=============================================================================
