------------------------------- MODULE MCStart -------------------------------
(***************************************************************************)
(* The demonstration of start.c as it is, with a second of two ticks and a *)
(* table just large enough.                                                *)
(***************************************************************************)
EXTENDS Start
=============================================================================
