---------------------------- MODULE MCTourniquet ----------------------------
(***************************************************************************)
(* An instance of Tourniquet under the timer alone: time is unbounded.     *)
(***************************************************************************)
EXTENDS Tourniquet
=============================================================================
