--------------------------- MODULE MCBibliotheque ----------------------------
(***************************************************************************)
(* Every call on small arguments: five bytes of memory, strings of three   *)
(* characters, words of three characters searched in texts of six, texts   *)
(* of up to five characters printed through a buffer of two, numbers of    *)
(* five bits, fields of strings of three characters; and any sequence of   *)
(* calls of traite_car, on a small screen.                                 *)
(*                                                                         *)
(* The screen shares no state with the library, so one of the two moves in *)
(* a behaviour, and the other stands where it started.                     *)
(***************************************************************************)
EXTENDS Bibliotheque, ConsoleTexte

SansPrecision == -1
MCDemandes == {-4, -2, SansPrecision, 0, 1, 2, 4}
MCPrecisions == {SansPrecision, 0, 1, 3}

InitEcran ==
  /\ fonction = "traite_car" /\ InitT
  /\ ReposM /\ ReposC /\ ReposR /\ ReposI /\ ReposN /\ ReposF /\ ReposA

NextEcran == fonction = "traite_car" /\ NextT /\ UNCHANGED varsB

MCInit == (InitB /\ InitT) \/ InitEcran

MCNext == (NextB /\ UNCHANGED varsT) \/ NextEcran

MCSpec == MCInit /\ [][MCNext]_<<varsB, varsT>>
=============================================================================
