---------------------------- MODULE MCPreemption -----------------------------
(***************************************************************************)
(* A small instance of Preemption.  MaxInterruptions bounds the time: no   *)
(* trap is taken once that many interrupts have been counted.              *)
(***************************************************************************)
EXTENDS Preemption

CONSTANT MaxInterruptions

MCNext ==
  Next /\ (nb_interruptions >= MaxInterruptions => Pc' # "traitant1")

MCSpec == Init /\ [][MCNext]_vars
=============================================================================
