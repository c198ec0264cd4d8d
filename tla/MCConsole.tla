------------------------------ MODULE MCConsole ------------------------------
(***************************************************************************)
(* A small screen, on which any sequence of characters may be printed.     *)
(***************************************************************************)
EXTENDS ConsoleTexte
=============================================================================
