-------------------------------- MODULE Idle ---------------------------------
(***************************************************************************)
(* Idle under its timer.  Minuterie says when a trap is taken from idle,   *)
(* SerieConsole what idle was in the middle of: while trap_handler is      *)
(* behind its call to ordonnance, the processes print.                     *)
(***************************************************************************)
EXTENDS Minuterie, SerieConsole

varsI == <<varsH, varsC>>

InitI == InitH /\ InitC

Materiel ==
  /\ Temps \/ LitTimer \/ EcritCmp \/ Arme \/ Ouvre \/ InitTraitantTimer
     \/ InitProc \/ Trappe \/ RelitTimer \/ Reprogramme
  /\ UNCHANGED varsC

\* mret: into the printf that was interrupted, or behind wfi.  The trap may
\* also have come just before wfi, which then waits for the next one.
RetourIdle ==
  /\ reste = 0
  /\ FinTraitant
  /\ Reveil \/ UNCHANGED varsC

IdleAvance == ou = "code" /\ PasIdle /\ UNCHANGED varsH

ProcessusAvance ==
  /\ ou = "ordonnance"
  /\ ProcessusImprime \/ ProcessusCar
  /\ UNCHANGED varsH

NextI == Materiel \/ RetourIdle \/ IdleAvance \/ ProcessusAvance

SpecI == InitI /\ [][NextI]_varsI
=============================================================================
