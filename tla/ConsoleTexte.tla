---------------------------- MODULE ConsoleTexte -----------------------------
(***************************************************************************)
(* What a reader of the screen expects: the screen is a window on the last *)
(* lines of a text that has no bottom.  The text is kept beside the screen *)
(* of module Console, line by line since the last form feed.               *)
(*                                                                         *)
(* A character in the last cell of the last row sends the cursor of        *)
(* Console below the screen.  From then on, and once the text is longer    *)
(* than the bound MaxLignes, the text is no longer followed: page is Perdu *)
(* until the next form feed.                                               *)
(***************************************************************************)
EXTENDS Console, SequencesExt

CONSTANT MaxLignes             \* bound on the lines of the text

\* In the text, a character that backspace has rubbed out.
Efface == "efface"

ASSUME EffaceOK == Efface \notin Caracteres

VARIABLE page                 \* a sequence of lines, the cursor is in the last

varsT == <<vars, page>>

Perdu == <<>>

InitT == Init /\ page = <<LigneVide>>

\* The text becomes t, as long as it is followed.
Suit(t) ==
  page' = IF page = Perdu \/ Len(t) > MaxLignes THEN Perdu ELSE t

\* A character in the text: a full line is followed by a new one.
AvecCaractere(c) ==
  LET t == Append(Front(page), [Last(page) EXCEPT ![col_curseur] = c])
  IN  IF col_curseur = NB_COLONNE_CAR - 1 THEN Append(t, LigneVide) ELSE t

OrdinaireT(c) ==
  /\ Ordinaire(c)
  /\ IF lig_curseur' = NB_LIGNE_CAR THEN page' = Perdu
     ELSE Suit(AvecCaractere(c))

NouvelleLigneT == NouvelleLigne /\ Suit(Append(page, LigneVide))

\* The text goes to its next line where the code compares the tab stop with
\* the width of the screen.
TabulationT ==
  /\ Tabulation
  /\ IF ArretSuivant >= NB_COLONNE_CAR
     THEN Suit(Append(page, LigneVide)) ELSE UNCHANGED page

SautDePageT == SautDePage /\ page' = <<LigneVide>>

\* Backspace takes the character before the cursor away, if there is one.
RetourArriereT ==
  /\ RetourArriere
  /\ IF page = Perdu THEN UNCHANGED page
     ELSE page' = Append(Front(page),
                    [Last(page) EXCEPT ![col_curseur - 1] =
                       IF @ = "vide" THEN @ ELSE Efface])

DeplacementT ==
  (RetourArriereIgnore \/ RetourChariot \/ AffichageHaut) /\ UNCHANGED page

NextT ==
  \/ \E c \in Caracteres : OrdinaireT(c)
  \/ NouvelleLigneT
  \/ TabulationT
  \/ SautDePageT
  \/ RetourArriereT
  \/ DeplacementT

SpecT == InitT /\ [][NextT]_varsT

-----------------------------------------------------------------------------

\* A row of the screen against a line of the text: where a character was
\* rubbed out and none was printed since, any cell will do.
Conforme(rangee, ligne) ==
  \A j \in Colonnes : ligne[j] # Efface => rangee[j] = ligne[j]

\* The screen shows the last lines of the text, in order, nothing below the
\* cursor, and the cursor is in the last line: wrapping, tabs, carriage
\* returns and scrolling lose, duplicate and reorder nothing.  Of a character
\* that was rubbed out it says nothing.
TexteFidele ==
  page # Perdu =>
  LET n == Len(page) IN
  /\ lig_curseur = IF n < NB_LIGNE_CAR - 1 THEN n ELSE NB_LIGNE_CAR - 1
  /\ \A i \in 1 .. lig_curseur :
       Conforme(ecran[i], page[n - lig_curseur + i])
  /\ \A i \in lig_curseur + 1 .. NB_LIGNE_CAR - 1 : ecran[i] = LigneVide

\* What the comment of traite_car says of backspace, that the previous
\* character is erased: on the row of the cursor, nothing is left of the
\* characters rubbed out.
EffacementFait ==
  page # Perdu =>
    \A j \in Colonnes :
      Last(page)[j] = Efface => ecran[lig_curseur][j] = "vide"
=============================================================================
