------------------------------ MODULE Accounts ------------------------------
(***************************************************************************)
(* The accounts of merchants and promoters (accounts.create of             *)
(* service/catalog.rs), of which Rules models the creation and Ledger the  *)
(* money; a parent never changes.                                          *)
(***************************************************************************)
CONSTANTS
    Merchants, Promoters,
    Parent      \* promoter -> the promoter it is created under, or None
=============================================================================
