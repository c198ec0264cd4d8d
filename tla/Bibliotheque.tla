---------------------------- MODULE Bibliotheque -----------------------------
(***************************************************************************)
(* The C library under the kernel, one call of one function: memmove       *)
(* (module Memoire), strlcat and strtok (module Chaines), memmem (module   *)
(* Recherche), printf and vsnprintf (module Impression), the conversion of *)
(* a number (module Nombres) and the field of a string (module Champs),    *)
(* multiplication and division (module Arithmetique).  The functions share *)
(* no state; while one of them runs, the variables of the others keep the  *)
(* values given by Repos.                                                  *)
(***************************************************************************)
EXTENDS Memoire, Chaines, Recherche, Impression, Nombres, Champs, Arithmetique

VARIABLE fonction

varsB ==
  <<varsM, varsC, varsR, varsI, varsN, varsF, varsA, fonction>>

ReposM ==
  /\ dst = 0 /\ src = 0 /\ n0 = 0
  /\ mem = [a \in Adresses |-> CHOOSE o \in Octets : TRUE]
  /\ InitM

ReposC ==
  /\ zone = [a \in 0 .. TailleZone - 1 |-> Nul]
  /\ pas = "strtok"
  /\ InitC

ReposR ==
  /\ foin = <<>> /\ aiguille = <<>>
  /\ InitR

ReposI ==
  /\ sortie_vers = "printf" /\ texte = <<>>
  /\ InitI

ReposN ==
  /\ mot = 0 /\ conv = "u"
  /\ options = [ladjust |-> FALSE, zero |-> FALSE, altfmt |-> FALSE,
                plus_sign |-> ""]
  /\ longueur = 0 /\ precision = -1
  /\ InitN

ReposF ==
  /\ directive = [tiret |-> FALSE, largeur |-> 0, precision |-> -1]
  /\ argument = <<>>
  /\ InitF

ReposA ==
  /\ operation = "mul" /\ signes = FALSE /\ x0 = 0 /\ y0 = 0
  /\ InitA

InitB ==
  \/ /\ fonction = "memmove" /\ InitM
     /\ ReposC /\ ReposR /\ ReposI /\ ReposN /\ ReposF /\ ReposA
  \/ /\ fonction = "chaine" /\ InitC
     /\ ReposM /\ ReposR /\ ReposI /\ ReposN /\ ReposF /\ ReposA
  \/ /\ fonction = "recherche" /\ InitR
     /\ ReposM /\ ReposC /\ ReposI /\ ReposN /\ ReposF /\ ReposA
  \/ /\ fonction = "impression" /\ InitI
     /\ ReposM /\ ReposC /\ ReposR /\ ReposN /\ ReposF /\ ReposA
  \/ /\ fonction = "nombre" /\ InitN
     /\ ReposM /\ ReposC /\ ReposR /\ ReposI /\ ReposF /\ ReposA
  \/ /\ fonction = "champ" /\ InitF
     /\ ReposM /\ ReposC /\ ReposR /\ ReposI /\ ReposN /\ ReposA
  \/ /\ fonction = "calcul" /\ InitA
     /\ ReposM /\ ReposC /\ ReposR /\ ReposI /\ ReposN /\ ReposF

NextB ==
  /\ UNCHANGED fonction
  /\ \/ /\ fonction = "memmove" /\ NextM
        /\ UNCHANGED <<varsC, varsR, varsI, varsN, varsF, varsA>>
     \/ /\ fonction = "chaine" /\ NextC
        /\ UNCHANGED <<varsM, varsR, varsI, varsN, varsF, varsA>>
     \/ /\ fonction = "recherche" /\ NextR
        /\ UNCHANGED <<varsM, varsC, varsI, varsN, varsF, varsA>>
     \/ /\ fonction = "impression" /\ NextI
        /\ UNCHANGED <<varsM, varsC, varsR, varsN, varsF, varsA>>
     \/ /\ fonction = "nombre" /\ NextN
        /\ UNCHANGED <<varsM, varsC, varsR, varsI, varsF, varsA>>
     \/ /\ fonction = "champ" /\ NextF
        /\ UNCHANGED <<varsM, varsC, varsR, varsI, varsN, varsA>>
     \/ /\ fonction = "calcul" /\ NextA
        /\ UNCHANGED <<varsM, varsC, varsR, varsI, varsN, varsF>>

SpecB == InitB /\ [][NextB]_varsB
=============================================================================
