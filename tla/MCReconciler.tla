---------------------------- MODULE MCReconciler ----------------------------
(***************************************************************************)
(* Reconciler.tla for TLC.                                                 *)
(*                                                                         *)
(* Keys and client IDs are opaque: the specification only compares them,   *)
(* and picks any fresh one.  Runs that check safety only may therefore     *)
(* take states that differ by a renaming of them as one.  Secret names and *)
(* pods are few and stay as they are.                                      *)
(***************************************************************************)
EXTENDS Reconciler, TLC

Identifiers == Permutations(Keys) \cup Permutations(ClientIDs)
=============================================================================
