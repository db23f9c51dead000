--------------------------- MODULE MCAccountsApi ---------------------------
(***************************************************************************)
(* A small instance of AccountsApi for TLC.  Ids, addresses and handlers   *)
(* are interchangeable.                                                    *)
(***************************************************************************)
EXTENDS AccountsApi, TLC

Symmetry ==
    Permutations(Users) \union Permutations(Emails)
        \union Permutations(Requests)
=============================================================================
