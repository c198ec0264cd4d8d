--------------------------- MODULE MCOrdonnanceur ---------------------------
(***************************************************************************)
(* A small instance of Ordonnanceur.  MaxInterruptions bounds the time.    *)
(***************************************************************************)
EXTENDS Ordonnanceur

CONSTANT MaxInterruptions

MCNext == Next /\ nb_interruptions' <= MaxInterruptions

MCSpec == Init /\ [][MCNext]_vars
=============================================================================
