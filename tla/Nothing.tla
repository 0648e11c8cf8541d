------------------------------ MODULE Nothing -------------------------------
(***************************************************************************)
(* The value of an entry that is not there, shared by the modules that are *)
(* checked together in MCFeeds or MCServers, or proved about together in   *)
(* FeedProofs, ReconcileProofs or ServiceProofs.                           *)
(***************************************************************************)
CONSTANT None

=============================================================================
