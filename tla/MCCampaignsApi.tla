--------------------------- MODULE MCCampaignsApi ---------------------------
(***************************************************************************)
(* A small instance of CampaignsApi for TLC, in units of six hours: the    *)
(* clock starts six hours before the server's midnight, and the browser is *)
(* six hours behind the server, or in the same zone.  Ids, names and       *)
(* handlers are interchangeable.                                           *)
(***************************************************************************)
EXTENDS CampaignsApi, TLC

HalfADayWest == -2
QuarterDayWest == -1
FirstDay == {-1}

Symmetry ==
    Permutations(Users) \union Permutations(Emails) \union Permutations(Names)
        \union Permutations(Campaigns) \union Permutations(Requests)
=============================================================================
