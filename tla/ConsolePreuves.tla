--------------------------- MODULE ConsolePreuves ----------------------------
(***************************************************************************)
(* The safety of Console for every size of the screen and every string,    *)
(* the fidelity of the screen to the text of ConsoleTexte, and the scroll  *)
(* of the cells as the effect of memmove on the frame buffer.              *)
(***************************************************************************)
EXTENDS ConsoleTexte, SequenceTheorems, TLAPS

USE TailleOK

\* The invariants support each other: the bound on the cursor keeps the
\* drawing off the row of the clock, the bound on the column tells where the
\* cursor stands when the screen scrolls.
IInv == TypeOK /\ CurseurBorne /\ UneSeuleBarre

-----------------------------------------------------------------------------
(* The helpers.                                                            *)

\* With a single bar, erasing the bar of the cursor leaves none.
LEMMA PlusDeBarre ==
  ASSUME IInv
  PROVE  SansBarre = {} /\ DefilementBarres(SansBarre) = {}
BY DEF IInv, UneSeuleBarre, SansBarre, DefilementBarres

\* After place_curseur, the only bar is the one under the cursor.
LEMMA BarreUnique ==
  ASSUME NEW l, NEW c, PlaceCurseur(l, c, {})
  PROVE  /\ lig_curseur' = l /\ col_curseur' = c
         /\ UneSeuleBarre' /\ barres' \subseteq Lignes \X Colonnes
BY DEF PlaceCurseur, UneSeuleBarre

LEMMA EcritCarType ==
  ASSUME NEW ec \in [Lignes -> [Colonnes -> Cellules]], NEW c \in Caracteres,
         NEW l \in 1 .. NB_LIGNE_CAR, NEW k \in Nat
  PROVE  /\ EcritCar(ec, l, k, c) \in [Lignes -> [Colonnes -> Cellules]]
         /\ EcritCar(ec, l, k, c)[0] = ec[0]
<1>1. EcritCar(ec, l, k, c) \in [Lignes -> [Colonnes -> Cellules]]
  BY DEF EcritCar, Cellules
<1>2. 0 \in Lignes /\ ec[0] \in [Colonnes -> Cellules]
  BY DEF Lignes
<1>3. EcritCar(ec, l, k, c)[0] = [j \in Colonnes |-> ec[0][j]]
  BY <1>2 DEF EcritCar
<1>4. QED
  BY <1>1, <1>2, <1>3

LEMMA DefilementType ==
  ASSUME NEW ec \in [Lignes -> [Colonnes -> Cellules]]
  PROVE  /\ Defilement(ec) \in [Lignes -> [Colonnes -> Cellules]]
         /\ Defilement(ec)[0] = ec[0]
<1>1. LigneVide \in [Colonnes -> Cellules]
  BY DEF LigneVide, Cellules
<1>2. Defilement(ec) \in [Lignes -> [Colonnes -> Cellules]]
  BY <1>1 DEF Defilement, Lignes
<1>3. QED
  BY <1>2 DEF Defilement, Lignes

-----------------------------------------------------------------------------
(* What a step does: the invariant is kept, and row 0 is left alone except *)
(* by the clock and the form feed.                                         *)

Ligne0 ==
  \/ ecran'[0] = ecran[0]
  \/ ecran'[0] = AvecHeure(ecran[0])
  \/ \A i \in Lignes : ecran'[i] = LigneVide

LEMMA InitIInv == Init => IInv
BY DEF Init, IInv, TypeOK, CurseurBorne, UneSeuleBarre, LigneVide, Cellules

LEMMA OrdinairePas ==
  ASSUME NEW c \in Caracteres, IInv, Ordinaire(c)
  PROVE  IInv' /\ Ligne0
<1> DEFINE peint == EcritCar(ecran, lig_curseur, col_curseur, c)
<1>1. /\ lig_curseur \in 1 .. NB_LIGNE_CAR
      /\ col_curseur \in 0 .. NB_COLONNE_CAR
      /\ col_curseur = NB_COLONNE_CAR => lig_curseur = NB_LIGNE_CAR - 1
      /\ ecran \in [Lignes -> [Colonnes -> Cellules]]
  BY DEF IInv, TypeOK, CurseurBorne
<1>2. peint \in [Lignes -> [Colonnes -> Cellules]] /\ peint[0] = ecran[0]
  BY <1>1, EcritCarType
<1>3. /\ Defilement(peint) \in [Lignes -> [Colonnes -> Cellules]]
      /\ Defilement(peint)[0] = ecran[0]
  BY <1>2, DefilementType
<1>4. \/ /\ col_curseur + 1 < NB_COLONNE_CAR
         /\ ecran' = peint
         /\ PlaceCurseur(lig_curseur, col_curseur + 1, {})
      \/ /\ lig_curseur < NB_LIGNE_CAR
         /\ ecran' = peint
         /\ PlaceCurseur(lig_curseur + 1, 0, {})
      \/ /\ col_curseur + 1 >= NB_COLONNE_CAR
         /\ lig_curseur >= NB_LIGNE_CAR
         /\ ecran' = Defilement(peint)
         /\ PlaceCurseur(NB_LIGNE_CAR - 1, col_curseur + 1, {})
  BY PlusDeBarre DEF Ordinaire
<1> HIDE DEF peint
<1>5. ecran' \in [Lignes -> [Colonnes -> Cellules]] /\ Ligne0
  BY <1>2, <1>3, <1>4 DEF Ligne0
<1>6. UneSeuleBarre' /\ barres' \subseteq Lignes \X Colonnes
  BY <1>4, BarreUnique
<1>7. CurseurBorne'
  BY <1>1, <1>4 DEF CurseurBorne, PlaceCurseur
<1>8. QED
  BY <1>5, <1>6, <1>7 DEF IInv, TypeOK, CurseurBorne

LEMMA LigneSuivantePas ==
  ASSUME IInv, LigneSuivante
  PROVE  IInv' /\ Ligne0
<1>1. /\ lig_curseur \in 1 .. NB_LIGNE_CAR
      /\ ecran \in [Lignes -> [Colonnes -> Cellules]]
  BY DEF IInv, TypeOK, CurseurBorne
<1>2. \/ /\ lig_curseur + 1 < NB_LIGNE_CAR
         /\ PlaceCurseur(lig_curseur + 1, 0, {})
         /\ ecran' = ecran
      \/ /\ ecran' = Defilement(ecran)
         /\ PlaceCurseur(NB_LIGNE_CAR - 1, 0, {})
  BY PlusDeBarre DEF LigneSuivante
<1>3. ecran' \in [Lignes -> [Colonnes -> Cellules]] /\ Ligne0
  BY <1>1, <1>2, DefilementType DEF Ligne0
<1>4. UneSeuleBarre' /\ barres' \subseteq Lignes \X Colonnes
  BY <1>2, BarreUnique
<1>5. CurseurBorne'
  BY <1>1, <1>2 DEF CurseurBorne, PlaceCurseur
<1>6. QED
  BY <1>3, <1>4, <1>5 DEF IInv, TypeOK, CurseurBorne

\* The characters that move the cursor within its row.
LEMMA MemeLignePas ==
  ASSUME IInv, NEW c \in 0 .. NB_COLONNE_CAR - 1,
         PlaceCurseur(lig_curseur, c, SansBarre), UNCHANGED ecran
  PROVE  IInv' /\ Ligne0
<1>1. PlaceCurseur(lig_curseur, c, {})
  BY PlusDeBarre
<1>2. /\ lig_curseur' = lig_curseur /\ col_curseur' = c
      /\ UneSeuleBarre' /\ barres' \subseteq Lignes \X Colonnes
  BY <1>1, BarreUnique
<1>3. CurseurBorne'
  BY <1>2 DEF IInv, CurseurBorne
<1>4. QED
  BY <1>2, <1>3 DEF IInv, TypeOK, CurseurBorne, Ligne0

LEMMA TabulationPas ==
  ASSUME IInv, Tabulation
  PROVE  IInv' /\ Ligne0
<1>1. CASE LigneSuivante
  BY <1>1, LigneSuivantePas
<1>2. CASE /\ ArretSuivant < NB_COLONNE_CAR
           /\ PlaceCurseur(lig_curseur, ArretSuivant, SansBarre)
           /\ UNCHANGED ecran
  <2>1. col_curseur \in Nat
    BY DEF IInv, TypeOK
  <2>2. col_curseur \div LARGEUR_TAB \in Nat
    BY <2>1
  <2>3. ArretSuivant \in Nat
    BY <2>2 DEF ArretSuivant
  <2>4. ArretSuivant \in 0 .. NB_COLONNE_CAR - 1
    BY <1>2, <2>3
  <2>5. QED
    BY <1>2, <2>4, MemeLignePas
<1>3. QED
  BY <1>1, <1>2 DEF Tabulation

LEMMA SautDePagePas ==
  ASSUME IInv, SautDePage
  PROVE  IInv' /\ Ligne0
<1>1. ecran' \in [Lignes -> [Colonnes -> Cellules]] /\ Ligne0
  BY DEF SautDePage, LigneVide, Cellules, Ligne0
<1>2. /\ lig_curseur' = 1 /\ col_curseur' = 0
      /\ UneSeuleBarre' /\ barres' \subseteq Lignes \X Colonnes
  BY BarreUnique DEF SautDePage
<1>3. QED
  BY <1>1, <1>2 DEF IInv, TypeOK, CurseurBorne

LEMMA AffichageHautPas ==
  ASSUME IInv, AffichageHaut
  PROVE  IInv' /\ Ligne0
<1>1. /\ ecran \in [Lignes -> [Colonnes -> Cellules]] /\ 0 \in Lignes
      /\ ecran' = [ecran EXCEPT ![0] = AvecHeure(ecran[0])]
      /\ UNCHANGED <<lig_curseur, col_curseur, barres>>
  BY DEF IInv, TypeOK, AffichageHaut, Lignes
<1>2. AvecHeure(ecran[0]) \in [Colonnes -> Cellules]
  BY <1>1 DEF AvecHeure, Cellules
<1>3. ecran' \in [Lignes -> [Colonnes -> Cellules]] /\ Ligne0
  BY <1>1, <1>2 DEF Ligne0
<1>4. QED
  BY <1>1, <1>3 DEF IInv, TypeOK, CurseurBorne, UneSeuleBarre

LEMMA NextPas ==
  ASSUME IInv, Next
  PROVE  IInv' /\ Ligne0
<1>1. col_curseur \in 0 .. NB_COLONNE_CAR
  BY DEF IInv, CurseurBorne
<1>2. CASE \E c \in Caracteres : Ordinaire(c)
  BY <1>2, OrdinairePas
<1>3. CASE RetourArriere
  BY <1>1, <1>3, MemeLignePas DEF RetourArriere
<1>4. CASE RetourArriereIgnore
  BY <1>4 DEF RetourArriereIgnore, vars, IInv, TypeOK, CurseurBorne,
              UneSeuleBarre, Ligne0
<1>5. CASE Tabulation
  BY <1>5, TabulationPas
<1>6. CASE NouvelleLigne
  BY <1>6, LigneSuivantePas DEF NouvelleLigne
<1>7. CASE SautDePage
  BY <1>7, SautDePagePas
<1>8. CASE RetourChariot
  BY <1>8, MemeLignePas DEF RetourChariot
<1>9. CASE AffichageHaut
  BY <1>9, AffichageHautPas
<1>10. QED
  BY <1>2, <1>3, <1>4, <1>5, <1>6, <1>7, <1>8, <1>9 DEF Next

LEMMA Invariance == Spec => []IInv
<1>1. IInv /\ [Next]_vars => IInv'
  <2>1. CASE Next
    BY <2>1, NextPas
  <2>2. CASE UNCHANGED vars
    BY <2>2 DEF vars, IInv, TypeOK, CurseurBorne, UneSeuleBarre
  <2>3. QED
    BY <2>1, <2>2
<1>2. QED
  BY <1>1, InitIInv, PTL DEF Spec

-----------------------------------------------------------------------------
(* The theorems.                                                           *)

\* traite_car never draws a bar outside the screen and never makes a cursor
\* coordinate negative.
THEOREM TypeCorrect == Spec => []TypeOK
<1>1. IInv => TypeOK
  BY DEF IInv
<1>2. QED
  BY <1>1, Invariance, PTL

\* The cursor stays between row 1 and one row below the screen, whatever is
\* printed.
THEOREM CurseurBorneTheoreme == Spec => []CurseurBorne
<1>1. IInv => CurseurBorne
  BY DEF IInv
<1>2. QED
  BY <1>1, Invariance, PTL

\* No sequence of characters leaves a second cursor bar on the screen.
THEOREM UneSeuleBarreTheoreme == Spec => []UneSeuleBarre
<1>1. IInv => UneSeuleBarre
  BY DEF IInv
<1>2. QED
  BY <1>1, Invariance, PTL

\* No text ever reaches the row of the clock.
THEOREM HorlogeIntacteTheoreme == Spec => HorlogeIntacte
<1> DEFINE Intacte == ecran'[0] # ecran[0] =>
                        \/ ecran'[0] = AvecHeure(ecran[0])
                        \/ \A i \in Lignes : ecran'[i] = LigneVide
<1>1. IInv /\ [Next]_vars => [Intacte]_vars
  BY NextPas DEF Ligne0
<1>2. QED
  BY <1>1, Invariance, PTL DEF Spec, HorlogeIntacte

-----------------------------------------------------------------------------
(* The text.  While it is followed, its last line is the row of the cursor *)
(* and the cursor is on the screen, so that only a full row, a line feed   *)
(* or a tab past the last stop add a line, and only at the end.            *)

Phrases == [Colonnes -> Cellules \cup {Efface}]

TexteSuivi ==
  /\ page \in Seq(Phrases)
  /\ page # Perdu => col_curseur < NB_COLONNE_CAR

TInv == IInv /\ TexteSuivi /\ TexteFidele

\* What TexteFidele says of a screen ec, a row l and a text t.
Montre(ec, l, t) ==
  /\ l = IF Len(t) < NB_LIGNE_CAR - 1 THEN Len(t) ELSE NB_LIGNE_CAR - 1
  /\ \A i \in 1 .. l : Conforme(ec[i], t[Len(t) - l + i])
  /\ \A i \in l + 1 .. NB_LIGNE_CAR - 1 : ec[i] = LigneVide

LEMMA LigneVideType == LigneVide \in Phrases
  BY DEF LigneVide, Phrases, Cellules

LEMMA LigneVideConforme == Conforme(LigneVide, LigneVide)
  BY DEF Conforme

\* The text with another last line.
LEMMA DernierRemplace ==
  ASSUME NEW t \in Seq(Phrases), t # <<>>, NEW r \in Phrases
  PROVE  /\ Append(Front(t), r) \in Seq(Phrases)
         /\ Len(Append(Front(t), r)) = Len(t)
         /\ Append(Front(t), r)[Len(t)] = r
         /\ \A i \in 1 .. Len(t) - 1 : Append(Front(t), r)[i] = t[i]
<1> DEFINE n == Len(t)
           f == Front(t)
<1>1. n \in Nat \ {0} /\ \A i \in 1 .. n - 1 : t[i] \in Phrases
  BY EmptySeq, LenProperties
<1>2. /\ f \in Seq(Phrases) /\ Len(f) = n - 1
      /\ \A i \in 1 .. n - 1 : f[i] = t[i]
  <2> HIDE DEF n
  <2>1. f = SubSeq(t, 1, n - 1)
    BY DEF Front, n
  <2>2. /\ SubSeq(t, 1, n - 1) \in Seq(Phrases)
        /\ Len(SubSeq(t, 1, n - 1))
             = IF 1 <= n - 1 THEN (n - 1) - 1 + 1 ELSE 0
        /\ \A i \in 1 .. (n - 1) - 1 + 1 : SubSeq(t, 1, n - 1)[i] = t[1 + i - 1]
    BY <1>1, SubSeqProperties
  <2>3. QED
    BY <1>1, <2>1, <2>2
<1> HIDE DEF n, f
<1>3. /\ Append(f, r) \in Seq(Phrases) /\ Len(Append(f, r)) = (n - 1) + 1
      /\ \A i \in 1 .. n - 1 : Append(f, r)[i] = f[i]
      /\ Append(f, r)[(n - 1) + 1] = r
  BY <1>2, AppendProperties
<1>4. QED
  BY <1>1, <1>2, <1>3 DEF n, f

LEMMA LigneAjoutee ==
  ASSUME NEW t \in Seq(Phrases)
  PROVE  /\ Append(t, LigneVide) \in Seq(Phrases)
         /\ Len(Append(t, LigneVide)) = Len(t) + 1
         /\ Append(t, LigneVide)[Len(t) + 1] = LigneVide
         /\ \A i \in 1 .. Len(t) : Append(t, LigneVide)[i] = t[i]
  BY LigneVideType, AppendProperties

\* The row under the cursor shows the last line of the text.
LEMMA LigneDuCurseur ==
  ASSUME TInv, page # Perdu
  PROVE  /\ page \in Seq(Phrases) /\ Len(page) \in Nat \ {0}
         /\ Montre(ecran, lig_curseur, page)
         /\ lig_curseur \in 1 .. NB_LIGNE_CAR - 1
         /\ lig_curseur <= Len(page)
         /\ Conforme(ecran[lig_curseur], page[Len(page)])
         /\ col_curseur \in Colonnes
<1>1. page \in Seq(Phrases) /\ Len(page) \in Nat \ {0}
  BY EmptySeq DEF TInv, TexteSuivi, Perdu
<1>2. Montre(ecran, lig_curseur, page)
  BY DEF TInv, TexteFidele, Montre
<1>3. lig_curseur \in 1 .. NB_LIGNE_CAR /\ col_curseur \in 0 .. NB_COLONNE_CAR
  BY DEF TInv, IInv, CurseurBorne
<1>4. lig_curseur \in 1 .. NB_LIGNE_CAR - 1 /\ lig_curseur <= Len(page)
  BY <1>1, <1>2, <1>3 DEF Montre
<1>5. Conforme(ecran[lig_curseur],
               page[Len(page) - lig_curseur + lig_curseur])
  <2>1. \A i \in 1 .. lig_curseur :
          Conforme(ecran[i], page[Len(page) - lig_curseur + i])
    BY <1>2 DEF Montre
  <2>2. lig_curseur \in 1 .. lig_curseur
    BY <1>4
  <2>3. QED
    BY <2>1, <2>2
<1>6. Len(page) - lig_curseur + lig_curseur = Len(page)
  BY <1>1, <1>4
<1>7. col_curseur \in Colonnes
  BY <1>3 DEF TInv, TexteSuivi, Colonnes
<1>8. QED
  BY <1>1, <1>2, <1>4, <1>5, <1>6, <1>7

\* One line more at the end, on the next row or after a scroll.
LEMMA MontreSuivante ==
  ASSUME NEW ec, NEW l \in 1 .. NB_LIGNE_CAR - 1, NEW t \in Seq(Phrases),
         Montre(ec, l, t)
  PROVE  /\ l + 1 < NB_LIGNE_CAR => Montre(ec, l + 1, Append(t, LigneVide))
         /\ l + 1 >= NB_LIGNE_CAR =>
              Montre(Defilement(ec), NB_LIGNE_CAR - 1, Append(t, LigneVide))
<1> DEFINE u == Append(t, LigneVide)
           n == Len(t)
<1>1. /\ n \in Nat /\ Len(u) = n + 1 /\ u[n + 1] = LigneVide
      /\ \A i \in 1 .. n : u[i] = t[i]
  BY LigneAjoutee, LenProperties
<1>2. /\ l = IF n < NB_LIGNE_CAR - 1 THEN n ELSE NB_LIGNE_CAR - 1
      /\ \A i \in 1 .. l : Conforme(ec[i], t[n - l + i])
      /\ \A i \in l + 1 .. NB_LIGNE_CAR - 1 : ec[i] = LigneVide
  BY DEF Montre
<1> HIDE DEF u, n
<1>3. ASSUME l + 1 < NB_LIGNE_CAR
      PROVE  Montre(ec, l + 1, u)
  <2>1. l = n /\ l + 1 \in Nat
    BY <1>1, <1>2, <1>3
  <2>2. ASSUME NEW i \in 1 .. l + 1
        PROVE  Conforme(ec[i], u[n + 1 - (l + 1) + i])
    <3>1. i \in Int /\ n + 1 - (l + 1) + i = i /\ n - l + i = i
      BY <1>1, <2>1
    <3>2. CASE i \in 1 .. l
      <4>1. Conforme(ec[i], t[n - l + i]) /\ u[i] = t[i]
        BY <1>1, <1>2, <2>1, <3>2
      <4>2. QED
        BY <3>1, <4>1
    <3>3. CASE i = l + 1
      <4>1. ec[i] = LigneVide /\ u[i] = LigneVide
        BY <1>1, <1>2, <1>3, <2>1, <3>3
      <4>2. QED
        BY <3>1, <4>1, LigneVideConforme
    <3>4. QED
      BY <2>1, <3>1, <3>2, <3>3
  <2>3. \A i \in l + 1 + 1 .. NB_LIGNE_CAR - 1 : ec[i] = LigneVide
    BY <1>2, <2>1
  <2>4. l + 1 = IF Len(u) < NB_LIGNE_CAR - 1 THEN Len(u)
                ELSE NB_LIGNE_CAR - 1
    BY <1>1, <1>3, <2>1
  <2>5. \A i \in 1 .. l + 1 : Conforme(ec[i], u[Len(u) - (l + 1) + i])
    <3> SUFFICES ASSUME NEW i \in 1 .. l + 1
                 PROVE  Conforme(ec[i], u[Len(u) - (l + 1) + i])
      OBVIOUS
    <3>1. Conforme(ec[i], u[n + 1 - (l + 1) + i])
      BY <2>2
    <3>2. n + 1 - (l + 1) + i = Len(u) - (l + 1) + i
      BY <1>1
    <3>3. QED
      BY <3>1, <3>2, Zenon
  <2>6. QED
    BY <2>3, <2>4, <2>5 DEF Montre
<1>4. ASSUME l + 1 >= NB_LIGNE_CAR
      PROVE  Montre(Defilement(ec), NB_LIGNE_CAR - 1, u)
  <2>1. l = NB_LIGNE_CAR - 1 /\ n >= l
    BY <1>1, <1>2, <1>4
  <2>2. ASSUME NEW i \in 1 .. NB_LIGNE_CAR - 1
        PROVE  Conforme(Defilement(ec)[i], u[n + 1 - (NB_LIGNE_CAR - 1) + i])
    <3>1. i \in Lignes /\ i # 0 /\ i \in Int
      BY DEF Lignes
    <3>2. CASE i = NB_LIGNE_CAR - 1
      <4>1. n + 1 - (NB_LIGNE_CAR - 1) + i = n + 1
        BY <1>1, <3>2
      <4>2. Defilement(ec)[i] = LigneVide
        BY <3>1, <3>2 DEF Defilement
      <4>3. QED
        BY <1>1, <4>1, <4>2, LigneVideConforme
    <3>3. CASE i # NB_LIGNE_CAR - 1
      <4>1. Defilement(ec)[i] = ec[i + 1] /\ i + 1 \in 1 .. l
        BY <2>1, <3>1, <3>3 DEF Defilement
      <4>2. Conforme(ec[i + 1], t[n - l + (i + 1)])
        BY <1>2, <4>1
      <4>3. /\ n - l + (i + 1) \in 1 .. n
            /\ n + 1 - (NB_LIGNE_CAR - 1) + i = n - l + (i + 1)
        BY <1>1, <2>1, <3>1, <4>1
      <4>4. QED
        BY <1>1, <4>1, <4>2, <4>3
    <3>4. QED
      BY <3>2, <3>3
  <2>3. NB_LIGNE_CAR - 1 = IF Len(u) < NB_LIGNE_CAR - 1 THEN Len(u)
                           ELSE NB_LIGNE_CAR - 1
    BY <1>1, <2>1
  <2>4. \A i \in NB_LIGNE_CAR - 1 + 1 .. NB_LIGNE_CAR - 1 :
          Defilement(ec)[i] = LigneVide
    OBVIOUS
  <2>5. QED
    BY <1>1, <2>2, <2>3, <2>4 DEF Montre
<1>5. QED
  BY <1>3, <1>4 DEF u

\* Once the text is lost, only a form feed brings it back.
LEMMA SuitPas ==
  ASSUME NEW t, Suit(t)
  PROVE  \/ page' = Perdu
         \/ page # Perdu /\ page' = t
  BY DEF Suit

\* The invariant after a step, from what the step makes of the screen.
LEMMA TInvDe ==
  ASSUME IInv',
         \/ page' = Perdu
         \/ /\ page' \in Seq(Phrases)
            /\ col_curseur' < NB_COLONNE_CAR
            /\ Montre(ecran', lig_curseur', page')
  PROVE  TInv'
<1>1. CASE page' = Perdu
  <2>1. page' \in Seq(Phrases)
    BY <1>1, EmptySeq DEF Perdu
  <2>2. QED
    BY <1>1, <2>1 DEF TInv, TexteSuivi, TexteFidele, Perdu
<1>2. CASE /\ page' \in Seq(Phrases)
           /\ col_curseur' < NB_COLONNE_CAR
           /\ Montre(ecran', lig_curseur', page')
  <2>1. TexteFidele'
    BY <1>2 DEF TexteFidele, Montre
  <2>2. QED
    BY <1>2, <2>1 DEF TInv, TexteSuivi
<1>3. QED
  BY <1>1, <1>2

LEMMA InitTInv == InitT => TInv
<1> SUFFICES ASSUME InitT PROVE TInv
  OBVIOUS
<1>1. page = <<LigneVide>> /\ page \in Seq(Phrases) /\ Len(page) = 1
  BY LigneVideType DEF InitT
<1>2. page[1] = LigneVide
  BY <1>1
<1>3. IInv
  BY InitIInv DEF InitT
<1>4. lig_curseur = 1 /\ col_curseur = 0 /\ ecran = [i \in Lignes |-> LigneVide]
  BY DEF InitT, Init
<1>5. TexteFidele
  <2>1. \A i \in 1 .. NB_LIGNE_CAR - 1 : ecran[i] = LigneVide
    BY <1>4 DEF Lignes
  <2>2. \A i \in 1 .. 1 : page[1 - 1 + i] = LigneVide
    BY <1>2
  <2>3. QED
    BY <1>1, <1>4, <2>1, <2>2, LigneVideConforme DEF TexteFidele
<1>6. QED
  BY <1>1, <1>3, <1>4, <1>5 DEF TInv, TexteSuivi

LEMMA SautDePageTPas ==
  ASSUME TInv, SautDePageT
  PROVE  TInv'
<1>1. IInv'
  BY SautDePagePas DEF TInv, SautDePageT
<1>2. /\ lig_curseur' = 1 /\ col_curseur' = 0
      /\ ecran' = [i \in Lignes |-> LigneVide]
      /\ page' = <<LigneVide>>
  BY DEF SautDePageT, SautDePage, PlaceCurseur
<1>3. PICK t \in Seq(Phrases) : page' = t /\ Len(t) = 1 /\ t[1] = LigneVide
  <2>1. /\ <<LigneVide>> \in Seq(Phrases) /\ Len(<<LigneVide>>) = 1
        /\ <<LigneVide>>[1] = LigneVide
    BY LigneVideType
  <2>2. QED
    BY <1>2, <2>1, Zenon
<1>4. Montre(ecran', 1, t)
  <2>1. \A i \in 1 .. NB_LIGNE_CAR - 1 : ecran'[i] = LigneVide
    BY <1>2 DEF Lignes
  <2>2. \A i \in 1 .. 1 : t[1 - 1 + i] = LigneVide
    BY <1>3
  <2>3. QED
    BY <1>3, <2>1, <2>2, LigneVideConforme DEF Montre
<1>5. QED
  BY <1>1, <1>2, <1>3, <1>4, TInvDe

\* A line feed, or a tab past the last stop.
LEMMA LigneSuivanteTPas ==
  ASSUME TInv, LigneSuivante, Suit(Append(page, LigneVide))
  PROVE  TInv'
<1>1. IInv'
  BY LigneSuivantePas DEF TInv
<1>2. SUFFICES ASSUME page # Perdu, page' = Append(page, LigneVide)
               PROVE  TInv'
  BY <1>1, SuitPas, TInvDe
<1>3. PICK t \in Seq(Phrases) : t = page
  BY <1>2, LigneDuCurseur
<1>4. /\ lig_curseur \in 1 .. NB_LIGNE_CAR - 1
      /\ Montre(ecran, lig_curseur, t)
  BY <1>2, <1>3, LigneDuCurseur
<1>5. page' \in Seq(Phrases) /\ page' = Append(t, LigneVide)
  BY <1>2, <1>3, LigneAjoutee
<1>6. col_curseur' = 0
  BY DEF LigneSuivante, PlaceCurseur
<1>7. Montre(ecran', lig_curseur', page')
  <2>1. CASE /\ lig_curseur + 1 < NB_LIGNE_CAR
             /\ lig_curseur' = lig_curseur + 1 /\ ecran' = ecran
    BY <1>4, <1>5, <2>1, MontreSuivante
  <2>2. CASE /\ lig_curseur + 1 >= NB_LIGNE_CAR
             /\ lig_curseur' = NB_LIGNE_CAR - 1 /\ ecran' = Defilement(ecran)
    BY <1>4, <1>5, <2>2, MontreSuivante
  <2>3. QED
    BY <2>1, <2>2 DEF LigneSuivante, PlaceCurseur
<1>8. QED
  BY <1>1, <1>5, <1>6, <1>7, TInvDe

LEMMA MontreRangees ==
  ASSUME NEW ec, NEW fc, NEW l \in 1 .. NB_LIGNE_CAR - 1, NEW t,
         Montre(ec, l, t), \A i \in 1 .. NB_LIGNE_CAR - 1 : fc[i] = ec[i]
  PROVE  Montre(fc, l, t)
<1>1. \A i \in 1 .. l : i \in 1 .. NB_LIGNE_CAR - 1
  OBVIOUS
<1>2. \A i \in l + 1 .. NB_LIGNE_CAR - 1 : i \in 1 .. NB_LIGNE_CAR - 1
  OBVIOUS
<1>3. \A i \in 1 .. l : Conforme(fc[i], t[Len(t) - l + i])
  BY <1>1 DEF Montre
<1>4. \A i \in l + 1 .. NB_LIGNE_CAR - 1 : fc[i] = LigneVide
  BY <1>2 DEF Montre
<1>5. QED
  BY <1>3, <1>4 DEF Montre

LEMMA DeplacementTPas ==
  ASSUME TInv, DeplacementT
  PROVE  TInv'
<1>1. page' = page
  BY DEF DeplacementT
<1>2. IInv'
  <2>1. Next
    BY DEF DeplacementT, Next
  <2>2. QED
    BY <2>1, NextPas DEF TInv
<1>3. SUFFICES ASSUME page # Perdu PROVE TInv'
  BY <1>1, <1>2, TInvDe
<1>4. /\ page \in Seq(Phrases) /\ col_curseur \in Colonnes
      /\ lig_curseur \in 1 .. NB_LIGNE_CAR - 1
      /\ Montre(ecran, lig_curseur, page)
  BY <1>3, LigneDuCurseur
<1>5. /\ lig_curseur' = lig_curseur
      /\ col_curseur' < NB_COLONNE_CAR
      /\ \A i \in 1 .. NB_LIGNE_CAR - 1 : ecran'[i] = ecran[i]
  <2>1. CASE RetourArriereIgnore \/ RetourChariot
    BY <1>4, <2>1 DEF RetourArriereIgnore, RetourChariot, PlaceCurseur,
                      vars, Colonnes
  <2>2. CASE AffichageHaut
    BY <1>4, <2>2 DEF AffichageHaut, Colonnes, TInv, IInv, TypeOK, Lignes
  <2>3. QED
    BY <2>1, <2>2 DEF DeplacementT
<1>6. Montre(ecran', lig_curseur, page)
  BY <1>4, <1>5, MontreRangees
<1>7. QED
  BY <1>1, <1>2, <1>4, <1>5, <1>6, TInvDe

LEMMA TabulationTPas ==
  ASSUME TInv, TabulationT
  PROVE  TInv'
<1>1. IInv'
  BY TabulationPas DEF TInv, TabulationT
<1>2. CASE ArretSuivant >= NB_COLONNE_CAR
  <2>1. Suit(Append(page, LigneVide))
    BY <1>2 DEF TabulationT
  <2>2. LigneSuivante
    <3>1. ~(ArretSuivant < NB_COLONNE_CAR)
      BY <1>2 DEF ArretSuivant, TInv, IInv, TypeOK
    <3>2. QED
      BY <3>1 DEF TabulationT, Tabulation
  <2>3. QED
    BY <2>1, <2>2, LigneSuivanteTPas
<1>3. CASE ~(ArretSuivant >= NB_COLONNE_CAR)
  <2>1. /\ ArretSuivant < NB_COLONNE_CAR
        /\ lig_curseur' = lig_curseur /\ col_curseur' = ArretSuivant
        /\ ecran' = ecran /\ page' = page
    BY <1>3 DEF TabulationT, Tabulation, PlaceCurseur
  <2>2. CASE page = Perdu
    BY <1>1, <2>1, <2>2, TInvDe
  <2>3. CASE page # Perdu
    BY <1>1, <2>1, <2>3, LigneDuCurseur, TInvDe
  <2>4. QED
    BY <2>2, <2>3
<1>4. QED
  BY <1>2, <1>3

\* Another last line, on a screen whose other rows are the same.
LEMMA DernierMontre ==
  ASSUME TInv, page # Perdu, NEW t \in Seq(Phrases), t = page,
         NEW r \in Phrases, NEW ec,
         \A i \in 1 .. NB_LIGNE_CAR - 1 : i # lig_curseur => ec[i] = ecran[i],
         Conforme(ec[lig_curseur], r),
         NEW u, u = Append(Front(t), r)
  PROVE  u \in Seq(Phrases) /\ Montre(ec, lig_curseur, u)
<1> DEFINE n == Len(t)
<1>1. /\ n \in Nat \ {0} /\ t # <<>>
      /\ Montre(ecran, lig_curseur, t)
      /\ lig_curseur \in 1 .. NB_LIGNE_CAR - 1 /\ lig_curseur <= n
  BY LigneDuCurseur, LenProperties DEF Perdu
<1>2. /\ u \in Seq(Phrases) /\ Len(u) = n /\ u[n] = r
      /\ \A i \in 1 .. n - 1 : u[i] = t[i]
  BY <1>1, DernierRemplace
<1> HIDE DEF n
<1>3. /\ lig_curseur = IF n < NB_LIGNE_CAR - 1 THEN n ELSE NB_LIGNE_CAR - 1
      /\ \A i \in 1 .. lig_curseur :
           Conforme(ecran[i], t[n - lig_curseur + i])
      /\ \A i \in lig_curseur + 1 .. NB_LIGNE_CAR - 1 : ecran[i] = LigneVide
  BY <1>1 DEF Montre, n
<1>4. ASSUME NEW i \in 1 .. lig_curseur
      PROVE  Conforme(ec[i], u[n - lig_curseur + i])
  <2>1. CASE i = lig_curseur
    <3>1. n - lig_curseur + i = n
      BY <1>1, <2>1
    <3>2. QED
      BY <1>2, <2>1, <3>1
  <2>2. CASE i # lig_curseur
    <3>1. n - lig_curseur + i \in 1 .. n - 1 /\ i \in 1 .. NB_LIGNE_CAR - 1
      BY <1>1, <2>2
    <3>2. ec[i] = ecran[i]
      BY <2>2, <3>1
    <3>3. Conforme(ecran[i], t[n - lig_curseur + i])
      BY <1>3
    <3>4. PICK h \in 1 .. n - 1 : h = n - lig_curseur + i
      BY <3>1
    <3>5. u[h] = t[h]
      BY <1>2
    <3>6. QED
      BY <3>2, <3>3, <3>4, <3>5
  <2>3. QED
    BY <2>1, <2>2
<1>5. ASSUME NEW i \in lig_curseur + 1 .. NB_LIGNE_CAR - 1
      PROVE  ec[i] = LigneVide
  <2>1. i \in 1 .. NB_LIGNE_CAR - 1 /\ i # lig_curseur
    BY <1>1
  <2>2. QED
    BY <1>3, <2>1
<1>6. Montre(ec, lig_curseur, u)
  BY <1>2, <1>3, <1>4, <1>5 DEF Montre
<1>7. QED
  BY <1>2, <1>6

\* A character drawn at the cursor is the one appended to the text.
LEMMA CaractereMontre ==
  ASSUME TInv, page # Perdu, NEW c \in Caracteres,
         NEW t \in Seq(Phrases), t = page,
         NEW r, r = [t[Len(t)] EXCEPT ![col_curseur] = c],
         NEW u, u = Append(Front(t), r)
  PROVE  /\ u \in Seq(Phrases)
         /\ Montre(EcritCar(ecran, lig_curseur, col_curseur, c),
                   lig_curseur, u)
<1> DEFINE ec == EcritCar(ecran, lig_curseur, col_curseur, c)
           ligne == t[Len(t)]
<1>1. /\ Len(t) \in Nat \ {0}
      /\ lig_curseur \in 1 .. NB_LIGNE_CAR - 1
      /\ Conforme(ecran[lig_curseur], ligne)
      /\ col_curseur \in Colonnes
  BY LigneDuCurseur, LenProperties
<1>2. ligne \in Phrases
  BY <1>1, ElementOfSeq
<1>3. r \in Phrases
  BY <1>1, <1>2 DEF Phrases, Cellules
<1>4. \A i \in Lignes : ecran[i] \in [Colonnes -> Cellules]
  BY DEF TInv, IInv, TypeOK
<1>5. col_curseur # NB_COLONNE_CAR
  BY <1>1 DEF Colonnes
<1>6. ASSUME NEW i \in 1 .. NB_LIGNE_CAR - 1, i # lig_curseur
      PROVE  ec[i] = ecran[i]
  <2>1. i \in Lignes
    BY DEF Lignes
  <2>2. ec[i] = [j \in Colonnes |-> ecran[i][j]]
    BY <1>5, <1>6, <2>1 DEF EcritCar
  <2>3. QED
    BY <1>4, <2>1, <2>2
<1>7. Conforme(ec[lig_curseur], r)
  <2>1. lig_curseur \in Lignes
    BY <1>1 DEF Lignes
  <2>2. ec[lig_curseur] = [j \in Colonnes |->
          IF j = col_curseur THEN c ELSE ecran[lig_curseur][j]]
    BY <1>5, <2>1 DEF EcritCar
  <2>3. r = [j \in Colonnes |-> IF j = col_curseur THEN c ELSE ligne[j]]
    BY <1>1, <1>2 DEF Phrases
  <2>4. QED
    BY <1>1, <2>2, <2>3 DEF Conforme
<1> HIDE DEF ec
<1>8. u \in Seq(Phrases) /\ Montre(ec, lig_curseur, u)
  BY <1>3, <1>6, <1>7, DernierMontre
<1>9. QED
  BY <1>8 DEF ec

\* A character rubbed out: the screen stays, the text says nothing of it.
LEMMA RetourArriereTPas ==
  ASSUME TInv, RetourArriereT
  PROVE  TInv'
<1>1. IInv'
  <2>1. Next
    BY DEF RetourArriereT, Next
  <2>2. QED
    BY <2>1, NextPas DEF TInv
<1>2. /\ col_curseur > 0 /\ ecran' = ecran
      /\ lig_curseur' = lig_curseur /\ col_curseur' = col_curseur - 1
  BY DEF RetourArriereT, RetourArriere, PlaceCurseur
<1>3. SUFFICES ASSUME page # Perdu PROVE TInv'
  BY <1>1, TInvDe DEF RetourArriereT
<1>4. PICK t \in Seq(Phrases) : t = page
  BY <1>3, LigneDuCurseur
<1> DEFINE ligne == t[Len(t)]
           r == [ligne EXCEPT ![col_curseur - 1] =
                   IF @ = "vide" THEN @ ELSE Efface]
<1>5. /\ Len(t) \in Nat \ {0}
      /\ lig_curseur \in 1 .. NB_LIGNE_CAR - 1
      /\ Conforme(ecran[lig_curseur], ligne)
      /\ col_curseur \in Colonnes
  BY <1>3, <1>4, LigneDuCurseur
<1>6. ligne \in Phrases
  BY <1>5, ElementOfSeq
<1>7. col_curseur - 1 \in Colonnes
  BY <1>2, <1>5 DEF Colonnes
<1>8. page' = Append(Front(t), r)
  BY <1>3, <1>4 DEF RetourArriereT, Last
<1>9. r = [j \in Colonnes |->
             IF j = col_curseur - 1 /\ ligne[j] # "vide" THEN Efface
             ELSE ligne[j]]
  BY <1>6, <1>7 DEF Phrases
<1> HIDE DEF ligne, r
<1>10. r \in Phrases
  BY <1>6, <1>9 DEF Phrases
<1>11. Conforme(ecran[lig_curseur], r)
  BY <1>5, <1>9 DEF Conforme
<1>12. page' \in Seq(Phrases) /\ Montre(ecran, lig_curseur, page')
  BY <1>3, <1>4, <1>8, <1>10, <1>11, DernierMontre
<1>13. col_curseur' < NB_COLONNE_CAR
  BY <1>2, <1>5 DEF Colonnes
<1>14. QED
  BY <1>1, <1>2, <1>12, <1>13, TInvDe

LEMMA OrdinaireTPas ==
  ASSUME TInv, NEW c \in Caracteres, OrdinaireT(c)
  PROVE  TInv'
<1>1. IInv' /\ Ordinaire(c)
  BY OrdinairePas DEF TInv, OrdinaireT
<1>2. SUFFICES ASSUME page # Perdu, lig_curseur' # NB_LIGNE_CAR,
                      page' = AvecCaractere(c)
               PROVE  TInv'
  <2>1. CASE lig_curseur' = NB_LIGNE_CAR
    BY <1>1, <2>1, TInvDe DEF OrdinaireT
  <2>2. CASE lig_curseur' # NB_LIGNE_CAR
    <3>1. Suit(AvecCaractere(c))
      BY <2>2 DEF OrdinaireT
    <3>2. QED
      BY <1>1, <1>2, <2>2, <3>1, SuitPas, TInvDe
  <2>3. QED
    BY <2>1, <2>2
<1>3. PICK t \in Seq(Phrases) : t = page
  BY <1>2, LigneDuCurseur
<1>4. /\ lig_curseur \in 1 .. NB_LIGNE_CAR - 1
      /\ col_curseur \in Colonnes
  BY <1>2, LigneDuCurseur
<1> DEFINE r == [t[Len(t)] EXCEPT ![col_curseur] = c]
           u == Append(Front(t), r)
           ec == EcritCar(ecran, lig_curseur, col_curseur, c)
<1>5. page' = IF col_curseur = NB_COLONNE_CAR - 1
               THEN Append(u, LigneVide) ELSE u
  BY <1>2, <1>3 DEF AvecCaractere, Last
<1>6. \/ /\ col_curseur + 1 < NB_COLONNE_CAR
         /\ ecran' = ec
         /\ lig_curseur' = lig_curseur /\ col_curseur' = col_curseur + 1
      \/ /\ col_curseur + 1 >= NB_COLONNE_CAR
         /\ ecran' = ec
         /\ lig_curseur' = lig_curseur + 1 /\ col_curseur' = 0
  BY <1>1, <1>4 DEF Ordinaire, PlaceCurseur
<1> HIDE DEF r, u, ec
<1>7. u \in Seq(Phrases) /\ Montre(ec, lig_curseur, u)
  BY <1>2, <1>3, CaractereMontre DEF r, u, ec
<1>8. CASE /\ col_curseur + 1 < NB_COLONNE_CAR
           /\ ecran' = ec
           /\ lig_curseur' = lig_curseur /\ col_curseur' = col_curseur + 1
  <2>1. page' = u
    BY <1>4, <1>5, <1>8 DEF Colonnes
  <2>2. QED
    BY <1>1, <1>7, <1>8, <2>1, TInvDe
<1>9. CASE /\ col_curseur + 1 >= NB_COLONNE_CAR
           /\ ecran' = ec
           /\ lig_curseur' = lig_curseur + 1 /\ col_curseur' = 0
  <2>1. page' = Append(u, LigneVide)
    BY <1>4, <1>5, <1>9 DEF Colonnes
  <2>2. lig_curseur + 1 < NB_LIGNE_CAR
    BY <1>2, <1>4, <1>9
  <2>3. Append(u, LigneVide) \in Seq(Phrases)
    BY <1>7, LigneAjoutee
  <2>4. Montre(ec, lig_curseur + 1, Append(u, LigneVide))
    BY <1>4, <1>7, <2>2, MontreSuivante
  <2>5. QED
    BY <1>1, <1>9, <2>1, <2>3, <2>4, TInvDe
<1>10. QED
  BY <1>6, <1>8, <1>9

LEMMA TInvToujours == SpecT => []TInv
<1>1. TInv /\ [NextT]_varsT => TInv'
  <2> SUFFICES ASSUME TInv, [NextT]_varsT PROVE TInv'
    OBVIOUS
  <2>1. CASE \E c \in Caracteres : OrdinaireT(c)
    BY <2>1, OrdinaireTPas
  <2>2. CASE NouvelleLigneT
    BY <2>2, LigneSuivanteTPas DEF NouvelleLigneT, NouvelleLigne
  <2>3. CASE TabulationT
    BY <2>3, TabulationTPas
  <2>4. CASE SautDePageT
    BY <2>4, SautDePageTPas
  <2>5. CASE DeplacementT
    BY <2>5, DeplacementTPas
  <2>6. CASE RetourArriereT
    BY <2>6, RetourArriereTPas
  <2>7. CASE UNCHANGED varsT
    BY <2>7 DEF varsT, vars, TInv, IInv, TypeOK, CurseurBorne, UneSeuleBarre,
                TexteSuivi, TexteFidele
  <2>8. QED
    BY <2>1, <2>2, <2>3, <2>4, <2>5, <2>6, <2>7 DEF NextT
<1>2. QED
  BY <1>1, InitTInv, PTL DEF SpecT

\* Whatever is printed by traite_car, the rows of the screen are the last
\* lines of the text, in order: wrapping, tabs and scrolling lose, duplicate
\* and reorder nothing.
THEOREM TexteFideleTheoreme == SpecT => []TexteFidele
<1>1. TInv => TexteFidele
  BY DEF TInv
<1>2. QED
  BY <1>1, TInvToujours, PTL

-----------------------------------------------------------------------------
(* The scroll in the frame buffer.  defilement moves bytes with memmove and *)
(* clears some with memset; Defilement moves rows of cells.                 *)

\* Only Copie, which is about no variable, is taken from this instance.
Tampon ==
  INSTANCE Memoire WITH
    Taille <- 0, Octets <- 0 .. 255, mem <- 0, mem0 <- 0,
    dst <- 0, src <- 0, n0 <- 0, p <- 0, q <- 0, n <- 0, sens <- 0

\* The bytes of row i of text in the frame buffer m; t is taille_ligne_texte.
OctetsDe(m, t, i) == [o \in 0 .. t - 1 |-> m[i * t + o]]

\* vues says which bytes show which cells.
Affiche(m, t, vues, ec) ==
  \A i \in Lignes : <<OctetsDe(m, t, i), ec[i]>> \in vues

\* defilement (console.c), the call of memmove and the call of memset.
Deplace(m, t) == Tampon!Copie(m, t, 2 * t, (NB_LIGNE_CAR - 2) * t)
Defile(m, t) ==
  [a \in DOMAIN m |->
     IF a \in (NB_LIGNE_CAR - 1) * t .. (NB_LIGNE_CAR - 1) * t + t - 1
     THEN 0 ELSE Deplace(m, t)[a]]

\* A row of text ends where the next one begins.
LEMMA RangeesDisjointes ==
  ASSUME NEW t \in Nat, NEW i \in Nat, NEW k \in Nat, i < k
  PROVE  /\ i * t \in Nat /\ k * t \in Nat
         /\ i * t + t <= k * t /\ (i + 1) * t = i * t + t
<1>1. \A e, f \in Int : (e + f) * t = e * t + f * t
  OBVIOUS
<1>2. \A e \in Nat : e * t \in Nat
  OBVIOUS
<1>3. PICK e \in Nat : k = (i + 1) + e
  <2>1. k - (i + 1) \in Nat /\ k = (i + 1) + (k - (i + 1))
    OBVIOUS
  <2>2. QED
    BY <2>1
<1>4. k * t = (i + 1) * t + e * t /\ (i + 1) * t = i * t + 1 * t
  BY <1>1, <1>3
<1>5. QED
  BY <1>2, <1>4

\* Scrolling the bytes scrolls the cells: whatever the bytes of a row look
\* like, provided that zeros look empty, the overlapping memmove of defilement
\* and its memset leave row 0 as it was, move every other row up by one, row 1
\* being lost, and clear the last one.
THEOREM DefilementDesOctets ==
  ASSUME NEW t \in Nat, NEW m, NEW vues, NEW ec,
         0 .. NB_LIGNE_CAR * t - 1 \subseteq DOMAIN m,
         <<[o \in 0 .. t - 1 |-> 0], LigneVide>> \in vues,
         Affiche(m, t, vues, ec)
  PROVE  Affiche(Defile(m, t), t, vues, Defilement(ec))
<1> DEFINE N == NB_LIGNE_CAR
           w == Defile(m, t)
<1> SUFFICES ASSUME NEW i \in Lignes
             PROVE  <<OctetsDe(w, t, i), Defilement(ec)[i]>> \in vues
  BY DEF Affiche
<1>1. N \in Nat /\ N >= 3 /\ i \in Nat /\ i < N
  BY DEF Lignes
<1>2. /\ i * t \in Nat /\ N * t \in Nat /\ i * t + t <= N * t
      /\ (i + 1) * t = i * t + t
  BY <1>1, RangeesDisjointes
<1>3. /\ (N - 1) * t \in Nat /\ (N - 1) * t + t = N * t
      /\ (N - 2) * t \in Nat /\ (N - 2) * t + t = (N - 1) * t
      /\ 2 * t \in Nat /\ 2 * t = t + t /\ t <= (N - 1) * t
  <2>1. /\ N - 1 \in Nat /\ N - 2 \in Nat /\ N - 2 < N - 1 /\ N - 1 < N
        /\ 1 < N - 1 /\ (N - 2) + 1 = N - 1 /\ (N - 1) + 1 = N
    BY <1>1
  <2>2. (N - 1) * t \in Nat /\ (N - 1) * t + t = N * t
    BY <2>1, <1>1, RangeesDisjointes
  <2>3. (N - 2) * t \in Nat /\ (N - 2) * t + t = (N - 1) * t
    BY <2>1, RangeesDisjointes
  <2>4. 1 * t + t <= (N - 1) * t
    BY <2>1, RangeesDisjointes
  <2>5. QED
    BY <2>2, <2>3, <2>4
<1>4. ASSUME NEW a \in 0 .. N * t - 1
      PROVE  w[a] = IF a \in (N - 1) * t .. (N - 1) * t + t - 1 THEN 0
                    ELSE IF a \in t .. t + (N - 2) * t - 1
                    THEN m[2 * t + (a - t)] ELSE m[a]
  <2>1. a \in DOMAIN m
    OBVIOUS
  <2>2. Deplace(m, t)[a] = IF a \in t .. t + (N - 2) * t - 1
                           THEN m[2 * t + (a - t)] ELSE m[a]
    BY <2>1 DEF Deplace, Tampon!Copie
  <2>3. w[a] = IF a \in (N - 1) * t .. (N - 1) * t + t - 1 THEN 0
               ELSE Deplace(m, t)[a]
    BY <2>1 DEF Defile
  <2>4. QED
    BY <2>2, <2>3
<1> HIDE DEF w
<1>5. CASE i = 0
  <2>1. ASSUME NEW o \in 0 .. t - 1 PROVE w[i * t + o] = m[i * t + o]
    <3>1. i * t + o = o
      BY <1>5
    <3>2. o < t /\ o < (N - 1) * t
      BY <1>3
    <3>3. /\ o \in 0 .. N * t - 1
          /\ o \notin (N - 1) * t .. (N - 1) * t + t - 1
          /\ o \notin t .. t + (N - 2) * t - 1
      BY <1>2, <1>3, <3>2
    <3>4. QED
      BY <1>4, <3>1, <3>3
  <2>2. OctetsDe(w, t, i) = OctetsDe(m, t, i)
    BY <2>1 DEF OctetsDe
  <2>3. Defilement(ec)[i] = ec[i]
    BY <1>5 DEF Defilement
  <2>4. QED
    BY <2>2, <2>3 DEF Affiche
<1>6. CASE i = N - 1
  <2>1. ASSUME NEW o \in 0 .. t - 1 PROVE w[i * t + o] = 0
    <3>1. i * t + o \in (N - 1) * t .. (N - 1) * t + t - 1
      BY <1>3, <1>6
    <3>2. i * t + o \in 0 .. N * t - 1
      BY <1>2
    <3>3. QED
      BY <1>4, <3>1, <3>2
  <2>2. OctetsDe(w, t, i) = [o \in 0 .. t - 1 |-> 0]
    BY <2>1 DEF OctetsDe
  <2>3. Defilement(ec)[i] = LigneVide
    BY <1>1, <1>6 DEF Defilement
  <2>4. QED
    BY <2>2, <2>3
<1>7. CASE i # 0 /\ i # N - 1
  <2>1. i + 1 \in Lignes /\ i + 1 < N /\ i < N - 1 /\ 0 < i
    BY <1>1, <1>7 DEF Lignes
  <2>2. t <= i * t /\ i * t + t <= (N - 1) * t
    <3>1. 0 * t + t <= i * t
      BY <1>1, <2>1, RangeesDisjointes
    <3>2. i * t + t <= (N - 1) * t
      BY <1>1, <2>1, RangeesDisjointes
    <3>3. QED
      BY <3>1, <3>2
  <2>3. ASSUME NEW o \in 0 .. t - 1
        PROVE  w[i * t + o] = m[(i + 1) * t + o]
    <3>1. PICK a : a = i * t + o
      OBVIOUS
    <3>2. a \in 0 .. N * t - 1
      BY <1>2, <3>1
    <3>3. a \notin (N - 1) * t .. (N - 1) * t + t - 1
      BY <1>2, <1>3, <2>2, <3>1
    <3>4. a \in t .. t + (N - 2) * t - 1
      BY <1>2, <1>3, <2>2, <3>1
    <3>5. 2 * t + (a - t) = (i + 1) * t + o
      BY <1>2, <1>3, <3>1
    <3>6. w[a] = m[2 * t + (a - t)]
      BY <1>4, <3>2, <3>3, <3>4
    <3>7. QED
      BY <3>1, <3>5, <3>6
  <2>4. OctetsDe(w, t, i) = OctetsDe(m, t, i + 1)
    BY <2>3 DEF OctetsDe
  <2>5. Defilement(ec)[i] = ec[i + 1]
    BY <1>7 DEF Defilement
  <2>6. QED
    BY <2>1, <2>4, <2>5 DEF Affiche
<1>8. QED
  BY <1>5, <1>6, <1>7
=============================================================================
