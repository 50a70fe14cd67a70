---------------------------- MODULE LedgerBooks ----------------------------
(***************************************************************************)
(* The handlers of Ledger, whatever statements they are made of and        *)
(* however they interleave and fail, change the database as Books says.    *)
(***************************************************************************)
EXTENDS Ledger

B == INSTANCE Books WITH db <- db

(* Every commit of every handler (server/*.go over store/*.go) is one step  *)
(* of Books or none: a transfer, an import and a cascade are never seen by  *)
(* halves, and whatever is written is one user's and filed, at the moment   *)
(* it is written, under an account and a category that user then has.       *)
(* A commit is less than a request.  deleteCategory with reassignTo makes   *)
(* two, Refile and DropCategory, and may end after the first.  And Books    *)
(* does not ask what a PATCH has read: Correct may put back a category      *)
(* that another request has changed since (PatchLeavesCategory).            *)
KeepsBooks == B!Spec
=============================================================================
