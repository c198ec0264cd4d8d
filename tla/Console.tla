------------------------------- MODULE Console -------------------------------
(***************************************************************************)
(* The text screen of console.c: the cursor, what the character cells      *)
(* show, and the bar drawn under the cell of the cursor.  Row 0 belongs to *)
(* the clock of timer.c (affichage_haut).                                  *)
(*                                                                         *)
(* A call traite_car(c) is one action, chosen by the kind of c.  Pixels    *)
(* are abstracted to cells; what is drawn below the last row falls outside *)
(* the visible frame buffer and never comes back, since defilement copies  *)
(* visible rows only.                                                      *)
(***************************************************************************)
EXTENDS Integers, Sequences

CONSTANTS
  NB_LIGNE_CAR,      \* rows of the screen (96)
  NB_COLONNE_CAR,    \* columns of the screen (128)
  LARGEUR_TAB,       \* distance of the tab stops (8)
  LARGEUR_HEURE,     \* characters of the clock (8)
  Caracteres         \* the ordinary characters that are printed

ASSUME TailleOK ==
  /\ NB_LIGNE_CAR \in Nat /\ NB_LIGNE_CAR >= 3
  /\ NB_COLONNE_CAR \in Nat /\ NB_COLONNE_CAR >= 1
  /\ LARGEUR_TAB \in Nat \ {0}
  /\ LARGEUR_HEURE \in 1 .. NB_COLONNE_CAR
ASSUME CaracteresOK == Caracteres \cap {"vide", "abime", "heure"} = {}

VARIABLES
  lig_curseur,
  col_curseur,
  ecran,             \* ecran[i][j]: what the cell at row i, column j shows
  barres             \* the cells with a cursor bar, <<row, column>>

vars == <<lig_curseur, col_curseur, ecran, barres>>

Lignes == 0 .. NB_LIGNE_CAR - 1
Colonnes == 0 .. NB_COLONNE_CAR - 1

\* "abime" is a cell overwritten by a part of another character.
Cellules == Caracteres \cup {"vide", "abime", "heure"}

LigneVide == [j \in Colonnes |-> "vide"]

TypeOK ==
  /\ lig_curseur \in Nat
  /\ col_curseur \in Nat
  /\ ecran \in [Lignes -> [Colonnes -> Cellules]]
  /\ barres \subseteq Lignes \X Colonnes

Init ==
  /\ lig_curseur = 1
  /\ col_curseur = 0
  /\ ecran = [i \in Lignes |-> LigneVide]
  /\ barres = {}

-----------------------------------------------------------------------------
(* Drawing.                                                                *)

\* place_curseur with a colour: l and c become the position of the cursor and
\* a bar is drawn there; autres are the bars left on the screen.
PlaceCurseur(l, c, autres) ==
  /\ lig_curseur' = l
  /\ col_curseur' = c
  /\ barres' = autres \cup ({<<l, c>>} \cap (Lignes \X Colonnes))

\* The bars once the one of the cursor is erased: place_curseur in black, or
\* ecrit_car, which clears the whole cell first.
SansBarre == barres \ {<<lig_curseur, col_curseur>>}

\* ecrit_car.  A character written just behind the last column continues on
\* the next line of pixels: it damages the first cell of its own row and of
\* the row below.
EcritCar(ec, l, c, car) ==
  [i \in Lignes |-> [j \in Colonnes |->
     IF i = l /\ j = c THEN car
     ELSE IF c = NB_COLONNE_CAR /\ j = 0 /\ i \in {l, l + 1} THEN "abime"
     ELSE ec[i][j]]]

\* Mutant: the scroll starts at row 0, the row of the clock.
DefilementTotal(ec) ==
  [i \in Lignes |-> IF i = NB_LIGNE_CAR - 1 THEN LigneVide ELSE ec[i + 1]]

\* Mutant: the last row is not cleared.
DefilementSansEffacer(ec) ==
  [i \in Lignes |-> IF i = 0 \/ i = NB_LIGNE_CAR - 1 THEN ec[i]
                    ELSE ec[i + 1]]

\* defilement: rows 2 and below move up by one, row 0 stays, the last row is
\* cleared.
Defilement(ec) ==
  [i \in Lignes |-> IF i = 0 THEN ec[0]
                    ELSE IF i = NB_LIGNE_CAR - 1 THEN LigneVide
                    ELSE ec[i + 1]]

\* The bars move with the rows that carry them.
DefilementBarres(b) ==
  {p \in b : p[1] = 0} \cup {<<p[1] - 1, p[2]>> : p \in {q \in b : q[1] >= 2}}

-----------------------------------------------------------------------------
(* traite_car.                                                             *)

\* Mutant: the screen does not scroll when the cursor leaves the last row.
OrdinaireSansDefiler(c) ==
  LET suivante == col_curseur + 1 IN
  /\ ecran' = EcritCar(ecran, lig_curseur, col_curseur, c)
  /\ IF suivante < NB_COLONNE_CAR
     THEN PlaceCurseur(lig_curseur, suivante, SansBarre)
     ELSE PlaceCurseur(lig_curseur + 1, 0, SansBarre)

\* An ordinary character.  The row is compared with NB_LIGNE_CAR before it is
\* incremented, so the cursor goes on behind the last row, and the column is
\* reset only when the screen does not scroll.
Ordinaire(c) ==
  LET peint == EcritCar(ecran, lig_curseur, col_curseur, c)
      suivante == col_curseur + 1
  IN
  \/ /\ suivante < NB_COLONNE_CAR
     /\ ecran' = peint
     /\ PlaceCurseur(lig_curseur, suivante, SansBarre)
  \/ /\ suivante >= NB_COLONNE_CAR
     /\ lig_curseur < NB_LIGNE_CAR
     /\ ecran' = peint
     /\ PlaceCurseur(lig_curseur + 1, 0, SansBarre)
  \/ /\ suivante >= NB_COLONNE_CAR
     /\ lig_curseur >= NB_LIGNE_CAR
     /\ ecran' = Defilement(peint)
     /\ PlaceCurseur(NB_LIGNE_CAR - 1, suivante, DefilementBarres(SansBarre))

\* Backspace moves the cursor and leaves the character.
RetourArriere ==
  /\ col_curseur > 0
  /\ PlaceCurseur(lig_curseur, col_curseur - 1, SansBarre)
  /\ UNCHANGED ecran

\* Backspace at the beginning of a row.
RetourArriereIgnore ==
  /\ col_curseur = 0
  /\ UNCHANGED vars

\* The beginning of the next row, which scrolls the screen if needed.
LigneSuivante ==
  \/ /\ lig_curseur + 1 < NB_LIGNE_CAR
     /\ PlaceCurseur(lig_curseur + 1, 0, SansBarre)
     /\ UNCHANGED ecran
  \/ /\ lig_curseur + 1 >= NB_LIGNE_CAR
     /\ ecran' = Defilement(ecran)
     /\ PlaceCurseur(NB_LIGNE_CAR - 1, 0, DefilementBarres(SansBarre))

ArretSuivant == (col_curseur \div LARGEUR_TAB + 1) * LARGEUR_TAB

Tabulation ==
  \/ /\ ArretSuivant < NB_COLONNE_CAR
     /\ PlaceCurseur(lig_curseur, ArretSuivant, SansBarre)
     /\ UNCHANGED ecran
  \/ /\ ArretSuivant >= NB_COLONNE_CAR
     /\ LigneSuivante

NouvelleLigne == LigneSuivante

\* efface_ecran clears the whole frame buffer, the row of the clock included.
SautDePage ==
  /\ ecran' = [i \in Lignes |-> LigneVide]
  /\ PlaceCurseur(1, 0, {})

\* Mutant: the bar is not erased where the cursor was.
RetourChariotSansEffacer ==
  /\ PlaceCurseur(lig_curseur, 0, barres)
  /\ UNCHANGED ecran

RetourChariot ==
  /\ PlaceCurseur(lig_curseur, 0, SansBarre)
  /\ UNCHANGED ecran

\* affichage_haut: the clock, at the right end of row 0.
AvecHeure(ligne) ==
  [j \in Colonnes |-> IF j >= NB_COLONNE_CAR - LARGEUR_HEURE
                      THEN "heure" ELSE ligne[j]]

AffichageHaut ==
  /\ ecran' = [ecran EXCEPT ![0] = AvecHeure(@)]
  /\ UNCHANGED <<lig_curseur, col_curseur, barres>>

Next ==
  \/ \E c \in Caracteres : Ordinaire(c)
  \/ RetourArriere
  \/ RetourArriereIgnore
  \/ Tabulation
  \/ NouvelleLigne
  \/ SautDePage
  \/ RetourChariot
  \/ AffichageHaut

Spec == Init /\ [][Next]_vars

-----------------------------------------------------------------------------
(* Safety.                                                                 *)

\* The cursor never enters the row of the clock, never goes further than one
\* row below the screen, and stands behind the last column only after the
\* scroll that an ordinary character causes.
CurseurBorne ==
  /\ lig_curseur \in 1 .. NB_LIGNE_CAR
  /\ col_curseur \in 0 .. NB_COLONNE_CAR
  /\ col_curseur = NB_COLONNE_CAR => lig_curseur = NB_LIGNE_CAR - 1

\* No ghost bar: whatever sequence of characters is printed, the only bar on
\* the screen is the one under the cursor.
UneSeuleBarre == barres \subseteq {<<lig_curseur, col_curseur>>}

\* Whatever is printed, the row of the clock changes only when the clock is
\* displayed or the whole screen is cleared.
HorlogeIntacte ==
  [][ecran'[0] # ecran[0] =>
       \/ ecran'[0] = AvecHeure(ecran[0])
       \/ \A i \in Lignes : ecran'[i] = LigneVide]_vars

\* What the comments of traite_car say: past the end of the screen, it
\* scrolls, so that the cursor stays on the screen.
CurseurVisible ==
  lig_curseur < NB_LIGNE_CAR /\ col_curseur < NB_COLONNE_CAR
=============================================================================
