------------------------- MODULE SerieConsolePreuves -------------------------
(***************************************************************************)
(* For every size of screen, every length of the lines and any number of   *)
(* lines printed in between: where the cursor can be while the updates of  *)
(* idle and of the processes interleave, where it is when idle waits, and  *)
(* the state of the devices whenever a character is sent.                  *)
(*                                                                         *)
(* A line of a process ends with a newline, so that it leaves the cursor   *)
(* at the beginning of a visible row.  What idle may still do to it is     *)
(* bounded by what it holds in its registers (Registres), and by how far   *)
(* it has moved the cursor when no process has printed since (Position).   *)
(***************************************************************************)
EXTENDS SerieConsole, TLAPS

\* The cursor between two characters.
Repos(l, c) ==
  /\ l <= NB_LIGNE_CAR /\ c <= NB_COLONNE_CAR
  /\ c = NB_COLONNE_CAR => l < NB_LIGNE_CAR

\* At any time, and in the middle of a line of a process.
Etendue ==
  /\ lig_curseur \in 1 .. NB_LIGNE_CAR + 1
  /\ col_curseur \in 0 .. NB_COLONNE_CAR + 2
  /\ lig_curseur >= NB_LIGNE_CAR => col_curseur <= NB_COLONNE_CAR + 1

Lieux == {"lcr", "dll", "ferme", "eteint", "allume", "envoie", "attend",
          "lit_col", "ecrit_col", "teste_col", "teste_lig", "lit_lig",
          "ecrit_lig", "zero_col", "defile", "redefile", "arg_lig",
          "arg_col", "pose_lig", "pose_col"}

\* The control of idle.
Controle ==
  /\ la \in Lieux
  /\ car \in 1 .. Saut
  /\ reste \in 0 .. LONGUEUR_PROC + 1
  /\ la \in {"lit_col", "ecrit_col", "teste_col", "zero_col"} => car # Saut

\* What idle has loaded, whatever was printed since.
Registres ==
  /\ la = "ecrit_col" => reg \in 0 .. NB_COLONNE_CAR
  /\ la = "ecrit_lig" =>
       reg \in 1 .. IF car = Saut THEN NB_LIGNE_CAR ELSE NB_LIGNE_CAR - 1
  /\ arg = <<arg[1], arg[2]>>
  /\ la \in {"arg_col", "pose_lig"} =>
       arg[1] \in 1 .. IF car = Saut THEN NB_LIGNE_CAR - 1 ELSE NB_LIGNE_CAR
  /\ la \in {"pose_lig", "pose_col"} =>
       arg[2] \in 0 .. IF car = Saut THEN 0 ELSE NB_COLONNE_CAR
  /\ la = "pose_lig" => Repos(arg[1], arg[2])

\* How far the cursor is when idle is on the CPU.
Position ==
  reste = 0 =>
    /\ \/ la \in {"teste_col", "teste_lig", "lit_lig", "ecrit_lig",
                   "zero_col", "defile"}
       \/ Repos(lig_curseur, col_curseur)
    /\ la = "ecrit_col" => Repos(lig_curseur, reg)
    /\ la = "teste_col" \/ (la = "teste_lig" /\ car # Saut) =>
         /\ lig_curseur <= NB_LIGNE_CAR /\ col_curseur <= NB_COLONNE_CAR + 1
         /\ col_curseur > NB_COLONNE_CAR => lig_curseur < NB_LIGNE_CAR
    /\ la = "teste_lig" /\ car = Saut => col_curseur <= NB_COLONNE_CAR
    /\ la \in {"lit_lig", "ecrit_lig"} =>
         IF car = Saut THEN Repos(lig_curseur, col_curseur)
         ELSE lig_curseur < NB_LIGNE_CAR /\ col_curseur <= NB_COLONNE_CAR + 1
    /\ la = "zero_col" => lig_curseur <= NB_LIGNE_CAR
    /\ la = "defile" => col_curseur <= NB_COLONNE_CAR
    /\ la \in {"redefile", "attend"} => lig_curseur < NB_LIGNE_CAR
    /\ la \in {"arg_lig", "pose_col"} /\ car = Saut
         => lig_curseur < NB_LIGNE_CAR
    /\ la \in {"arg_col", "pose_lig"} => Repos(arg[1], col_curseur)
    /\ la = "pose_col" => Repos(lig_curseur, arg[2])
    /\ la = "attend" => col_curseur = 0

Appareils ==
  /\ dlab \in BOOLEAN /\ allume \in BOOLEAN
  /\ diviseur = Rapport
  /\ dlab => la \in {"dll", "ferme"} /\ reste = 0
  /\ ~allume => la = "allume" /\ reste = 0

IInvCurseur == Controle /\ Etendue /\ Registres /\ Position

-----------------------------------------------------------------------------

LEMMA InitCurseur == InitC => IInvCurseur
  BY EcranOK, LongueursOK DEF InitC, IInvCurseur, Controle, Lieux, Etendue,
     Registres, Position, Repos, Saut

\* One step per load, store or test of idle.
LEMMA PasIdleCurseur ==
  ASSUME IInvCurseur, PasIdle \/ Reveil
  PROVE  IInvCurseur'
<1> USE EcranOK, LongueursOK DEF IInvCurseur, Controle, Lieux, Etendue,
      Registres, Position, Repos, Va, Saut, curseur, registres
<1>1. CASE OuvreDiviseur
  BY <1>1 DEF OuvreDiviseur
<1>2. CASE EcritDiviseur
  BY <1>2 DEF EcritDiviseur
<1>3. CASE FermeDiviseur
  BY <1>3 DEF FermeDiviseur
<1>4. CASE EteintEcran
  BY <1>4 DEF EteintEcran
<1>5. CASE AllumeEcran
  BY <1>5 DEF AllumeEcran
<1>6. CASE Envoie
  BY <1>6 DEF Envoie
<1>7. CASE LitColonne
  BY <1>7 DEF LitColonne
<1>8. CASE EcritColonne
  BY <1>8 DEF EcritColonne
<1>9. CASE TesteColonne
  BY <1>9 DEF TesteColonne
<1>10. CASE TesteLigne
  BY <1>10 DEF TesteLigne
<1>11. CASE LitLigne
  BY <1>11 DEF LitLigne
<1>12. CASE EcritLigne
  BY <1>12 DEF EcritLigne
<1>13. CASE ZeroColonne
  BY <1>13 DEF ZeroColonne
<1>14. CASE Defile
  BY <1>14 DEF Defile
<1>15. CASE ArgLigne
  BY <1>15 DEF ArgLigne
<1>16. CASE ArgColonne
  BY <1>16 DEF ArgColonne
<1>17. CASE PoseLigne
  BY <1>17 DEF PoseLigne
<1>18. CASE PoseColonne
  BY <1>18 DEF PoseColonne, Continue
<1>19. CASE Reveil
  BY <1>19 DEF Reveil
<1>20. QED
  BY <1>1, <1>2, <1>3, <1>4, <1>5, <1>6, <1>7, <1>8, <1>9, <1>10, <1>11,
     <1>12, <1>13, <1>14, <1>15, <1>16, <1>17, <1>18, <1>19 DEF PasIdle


\* A line of a process, whatever idle was in the middle of.
LEMMA ProcessusCurseur ==
  ASSUME IInvCurseur, ProcessusImprime \/ ProcessusCar
  PROVE  IInvCurseur'
<1> USE EcranOK, LongueursOK DEF IInvCurseur, registres
<1>1. CASE ProcessusImprime
  BY <1>1 DEF ProcessusImprime, curseur, Controle, Etendue, Registres, Position
<1>2. CASE ProcessusCar
  <2>1. Controle' /\ Registres'
    BY <1>2 DEF ProcessusCar, Controle, Registres
  <2>2. Etendue'
    BY <1>2 DEF ProcessusCar, AvanceSaut, AvanceOrdinaire, Etendue
  <2>3. Position'
    <3>1. CASE reste = 1
      <4>1. /\ lig_curseur' \in 1 .. NB_LIGNE_CAR - 1 /\ col_curseur' = 0
            /\ la' = la /\ car' = car /\ reg' = reg /\ arg' = arg
        BY <1>2, <3>1 DEF ProcessusCar, AvanceSaut, Etendue
      <4>2. QED
        BY <4>1 DEF Controle, Lieux, Registres, Position, Repos, Saut
    <3>2. CASE reste # 1
      BY <1>2, <3>2 DEF ProcessusCar, Controle, Position
    <3>3. QED
      BY <3>1, <3>2
  <2>4. QED
    BY <2>1, <2>2, <2>3
<1>3. QED
  BY <1>1, <1>2

LEMMA NextCurseur == IInvCurseur /\ [NextC]_varsC => IInvCurseur'
<1> SUFFICES ASSUME IInvCurseur, [NextC]_varsC PROVE IInvCurseur'
  OBVIOUS
<1>1. CASE PasIdle \/ Reveil
  BY <1>1, PasIdleCurseur
<1>2. CASE ProcessusImprime \/ ProcessusCar
  BY <1>2, ProcessusCurseur
<1>3. CASE UNCHANGED varsC
  BY <1>3 DEF varsC, curseur, registres, IInvCurseur, Controle, Etendue,
              Registres, Position
<1>4. QED
  BY <1>1, <1>2, <1>3 DEF NextC

LEMMA InvariantCurseur == SpecC => []IInvCurseur
  BY InitCurseur, NextCurseur, PTL DEF SpecC

-----------------------------------------------------------------------------
(* The devices.                                                            *)

LEMMA NextAppareils == Appareils /\ [NextC]_varsC => Appareils'
<1> SUFFICES ASSUME Appareils, [NextC]_varsC PROVE Appareils'
  OBVIOUS
<1> USE DEF Appareils, Va
<1>1. CASE OuvreDiviseur \/ EcritDiviseur \/ FermeDiviseur
  <2>1. CASE OuvreDiviseur
    BY <2>1 DEF OuvreDiviseur
  <2>2. CASE EcritDiviseur
    BY <2>2 DEF EcritDiviseur, Registre0
  <2>3. CASE FermeDiviseur
    BY <2>3 DEF FermeDiviseur
  <2>4. QED
    BY <1>1, <2>1, <2>2, <2>3
<1>2. CASE EteintEcran \/ AllumeEcran
  <2>1. CASE EteintEcran
    BY <2>1 DEF EteintEcran, uart
  <2>2. CASE AllumeEcran
    BY <2>2 DEF AllumeEcran, uart
  <2>3. QED
    BY <1>2, <2>1, <2>2
<1>3. CASE Envoie
  <2>1. ~dlab /\ allume
    BY <1>3 DEF Envoie
  <2>2. UNCHANGED <<dlab, diviseur, allume, reste>>
    BY <1>3, <2>1 DEF Envoie, Registre0
  <2>3. QED
    BY <2>1, <2>2
<1>4. CASE \/ LitColonne \/ EcritColonne \/ TesteColonne \/ TesteLigne
           \/ LitLigne \/ EcritLigne \/ ZeroColonne \/ Defile
           \/ ArgLigne \/ ArgColonne \/ PoseLigne \/ PoseColonne
  BY <1>4 DEF LitColonne, EcritColonne, TesteColonne, TesteLigne, LitLigne,
              EcritLigne, ZeroColonne, Defile, ArgLigne, ArgColonne,
              PoseLigne, PoseColonne, Continue, uart
<1>5. CASE Reveil
  BY <1>5 DEF Reveil
<1>6. CASE ProcessusImprime
  BY <1>6 DEF ProcessusImprime
<1>7. CASE ProcessusCar
  BY <1>7 DEF ProcessusCar, Registre0
<1>8. CASE UNCHANGED varsC
  BY <1>8 DEF varsC, uart
<1>9. QED
  BY <1>1, <1>2, <1>3, <1>4, <1>5, <1>6, <1>7, <1>8 DEF NextC, PasIdle

-----------------------------------------------------------------------------
(* The serial line.                                                        *)

\* The places of idle before it has sent the character car.
AvantEnvoi == {"lcr", "dll", "ferme", "eteint", "allume", "envoie"}

\* How many characters of its line idle has sent.
Envoyes == IF la = "attend" THEN Saut
           ELSE IF la \in AvantEnvoi THEN car - 1 ELSE car

Indices == 1 .. Len(ligne)

\* The characters of idle.
Suite ==
  /\ ligne \in Seq(Int)
  /\ la = "attend" => car = 1
  /\ \A k \in 1 .. Envoyes : \E i \in Indices : ligne[i] = k
  /\ \A i \in Indices : ligne[i] <= Envoyes
  /\ \A i, j \in Indices :
       i < j /\ ligne[i] > 0 /\ ligne[j] > 0 => ligne[i] < ligne[j]

\* The lines of the processes: the last one may be under way.
Blocs ==
  /\ \A i \in Indices : ligne[i] < -1 => i > 1 /\ ligne[i - 1] = ligne[i] + 1
  /\ \A i \in Indices : ligne[i] \in -LONGUEUR_PROC .. -1 =>
       IF i < Len(ligne) THEN ligne[i + 1] = ligne[i] - 1
                         ELSE reste = ligne[i] + LONGUEUR_PROC + 1
  /\ reste \in 1 .. LONGUEUR_PROC =>
       /\ Len(ligne) > 0
       /\ ligne[Len(ligne)] = reste - LONGUEUR_PROC - 1

\* The last character of idle's text follows every stray byte.
TexteApres ==
  \A i \in Indices : ligne[i] = Parasite =>
    \E k \in i .. Len(ligne) : ligne[k] = LONGUEUR_IDLE

Parasites ==
  /\ \A i, j \in Indices :
       i < j /\ ligne[i] = Parasite /\ ligne[j] = Parasite
         => \E k \in i .. j : ligne[k] = LONGUEUR_IDLE
  /\ la \in {"lcr", "dll"} =>
       \/ car = 1 /\ \A i \in Indices : ligne[i] # Parasite
       \/ car = Saut /\ TexteApres
  /\ car = LONGUEUR_IDLE /\ la \notin AvantEnvoi \cup {"attend"} => TexteApres

IInvSerie == Suite /\ Blocs /\ Parasites

LEMMA InitSerie == InitC => IInvSerie
  BY LongueursOK DEF InitC, IInvSerie, Suite, Blocs, Parasites, Indices,
     Envoyes, AvantEnvoi, Saut, TexteApres

\* A step of idle that sends nothing.
LEMMA PasMuet ==
  ASSUME Controle, IInvSerie, UNCHANGED <<ligne, reste>>,
         \/ LitColonne \/ EcritColonne \/ TesteColonne \/ TesteLigne
         \/ LitLigne \/ EcritLigne \/ ZeroColonne \/ Defile
         \/ ArgLigne \/ ArgColonne \/ PoseLigne \/ PoseColonne
         \/ OuvreDiviseur \/ FermeDiviseur \/ EteintEcran \/ AllumeEcran
         \/ EcritDiviseur
  PROVE  IInvSerie'
<1> USE LongueursOK DEF Controle, Saut
<1>1. /\ Envoyes' = Envoyes
      /\ la' = "attend" => car' = 1
  BY DEF Lieux, Envoyes, AvantEnvoi, Va, Continue, LitColonne, EcritColonne,
         TesteColonne, TesteLigne, LitLigne, EcritLigne, ZeroColonne, Defile,
         ArgLigne, ArgColonne, PoseLigne, PoseColonne, OuvreDiviseur,
         FermeDiviseur, EteintEcran, AllumeEcran, EcritDiviseur
<1>2. Suite' /\ Blocs'
  BY <1>1 DEF IInvSerie, Suite, Blocs, Indices
<1>3. TexteApres' <=> TexteApres
  BY DEF TexteApres, Indices
<1>4. Parasites'
  <2>1. /\ la' \in {"lcr", "dll"} =>
             \/ la = "lcr" /\ car' = car
             \/ la = "pose_col" /\ car = LONGUEUR_IDLE /\ car' = Saut
        /\ car' = LONGUEUR_IDLE /\ la' \notin AvantEnvoi \cup {"attend"} =>
             car = LONGUEUR_IDLE /\ la \notin AvantEnvoi \cup {"attend"}
    BY DEF Lieux, AvantEnvoi, Va, Continue, LitColonne, EcritColonne,
           TesteColonne, TesteLigne, LitLigne, EcritLigne, ZeroColonne, Defile,
           ArgLigne, ArgColonne, PoseLigne, PoseColonne, OuvreDiviseur,
           FermeDiviseur, EteintEcran, AllumeEcran, EcritDiviseur
  <2>2. QED
    BY <1>3, <2>1 DEF IInvSerie, Parasites, Indices, AvantEnvoi
<1>5. QED
  BY <1>2, <1>4 DEF IInvSerie

\* Idle sends its character.
LEMMA PasEnvoie ==
  ASSUME Controle, Appareils, IInvSerie, Envoie
  PROVE  IInvSerie'
<1> USE LongueursOK DEF Controle, Saut
<1>1. /\ la = "envoie" /\ la' \in {"lit_lig", "lit_col"} /\ car' = car
      /\ reste = 0 /\ reste' = 0 /\ car \in Nat \ {0}
      /\ ligne' = Append(ligne, car)
  BY DEF Envoie, Va, Appareils, Registre0
<1>2. Envoyes = car - 1 /\ Envoyes' = car
  BY <1>1 DEF Envoyes, AvantEnvoi
<1>3. /\ ligne \in Seq(Int) /\ Len(ligne') = Len(ligne) + 1
      /\ \A i \in Indices : ligne'[i] = ligne[i]
      /\ ligne'[Len(ligne) + 1] = car /\ ligne' \in Seq(Int)
      /\ Len(ligne) \in Nat
  BY <1>1 DEF IInvSerie, Suite, Indices
<1>4. Indices' = Indices \cup {Len(ligne) + 1}
  BY <1>3 DEF Indices
<1>5. Suite'
  <2>1. \A k \in 1 .. car : \E i \in Indices' : ligne'[i] = k
    <3> SUFFICES ASSUME NEW k \in 1 .. car
                 PROVE  \E i \in Indices' : ligne'[i] = k
      OBVIOUS
    <3>1. CASE k = car
      BY <3>1, <1>3, <1>4
    <3>2. CASE k # car
      <4>1. PICK i \in Indices : ligne[i] = k
        BY <3>2, <1>1, <1>2 DEF IInvSerie, Suite
      <4>2. QED
        BY <4>1, <1>3, <1>4
    <3>3. QED
      BY <3>1, <3>2
  <2>2. \A i \in Indices : ligne[i] <= car - 1
    BY <1>2 DEF IInvSerie, Suite
  <2>3. \A i \in Indices' : ligne'[i] <= car
    BY <1>1, <1>3, <1>4, <2>2 DEF Indices
  <2>4. \A i, j \in Indices' :
          i < j /\ ligne'[i] > 0 /\ ligne'[j] > 0 => ligne'[i] < ligne'[j]
    BY <1>1, <1>3, <1>4, <2>2 DEF IInvSerie, Suite, Indices
  <2>5. QED
    BY <1>1, <1>2, <1>3, <2>1, <2>3, <2>4 DEF Suite
<1>6. Blocs'
  BY <1>1, <1>3, <1>4 DEF IInvSerie, Blocs, Indices
<1>7. Parasites'
  <2>1. car = LONGUEUR_IDLE => TexteApres'
    BY <1>1, <1>3, <1>4 DEF TexteApres, Parasite, Indices
  <2>2. ASSUME NEW i \in Indices', NEW j \in Indices', i < j,
               ligne'[i] = Parasite, ligne'[j] = Parasite
        PROVE  \E k \in i .. j : ligne'[k] = LONGUEUR_IDLE
    <3>1. i \in Indices /\ j \in Indices
      BY <2>2, <1>1, <1>3, <1>4 DEF Indices, Parasite
    <3>2. PICK k \in i .. j : ligne[k] = LONGUEUR_IDLE
      BY <2>2, <3>1, <1>3 DEF IInvSerie, Parasites
    <3>3. k \in Indices
      BY <3>1, <3>2, <1>3 DEF Indices
    <3>4. ligne'[k] = LONGUEUR_IDLE
      BY <3>2, <3>3, <1>3
    <3>5. QED
      BY <3>4
  <2>3. QED
    BY <1>1, <2>1, <2>2 DEF Parasites, AvantEnvoi
<1>8. QED
  BY <1>5, <1>6, <1>7 DEF IInvSerie

\* Idle writes the ratio behind a DLAB that a process has cleared.
LEMMA PasParasite ==
  ASSUME Controle, IInvSerie, EcritDiviseur, ~dlab
  PROVE  IInvSerie'
<1> USE LongueursOK DEF Controle, Saut
<1>1. /\ la = "dll" /\ la' = "ferme" /\ car' = car /\ car \in Nat \ {0}
      /\ reste = 0 /\ reste' = 0 /\ ligne' = Append(ligne, Parasite)
  BY DEF EcritDiviseur, Va, Registre0
<1>2. Envoyes = car - 1 /\ Envoyes' = car - 1
  BY <1>1 DEF Envoyes, AvantEnvoi
<1>3. /\ ligne \in Seq(Int) /\ Len(ligne') = Len(ligne) + 1
      /\ \A i \in Indices : ligne'[i] = ligne[i]
      /\ ligne'[Len(ligne) + 1] = 0 /\ ligne' \in Seq(Int)
      /\ Len(ligne) \in Nat
  BY <1>1 DEF IInvSerie, Suite, Indices, Parasite
<1>4. Indices' = Indices \cup {Len(ligne) + 1}
  BY <1>3 DEF Indices
<1>5. Suite'
  <2>1. \A k \in 1 .. car - 1 : \E i \in Indices' : ligne'[i] = k
    <3> SUFFICES ASSUME NEW k \in 1 .. car - 1
                 PROVE  \E i \in Indices' : ligne'[i] = k
      OBVIOUS
    <3>1. PICK i \in Indices : ligne[i] = k
      BY <1>2 DEF IInvSerie, Suite
    <3>2. QED
      BY <3>1, <1>3, <1>4
  <2>2. /\ \A i \in Indices' : ligne'[i] <= car - 1
        /\ \A i, j \in Indices' :
             i < j /\ ligne'[i] > 0 /\ ligne'[j] > 0 => ligne'[i] < ligne'[j]
    BY <1>1, <1>2, <1>3, <1>4 DEF IInvSerie, Suite, Indices
  <2>3. QED
    BY <1>1, <1>2, <1>3, <2>1, <2>2 DEF Suite
<1>6. Blocs'
  BY <1>1, <1>3, <1>4 DEF IInvSerie, Blocs, Indices
<1>7. Parasites'
  <2>1. ASSUME NEW i \in Indices', NEW j \in Indices', i < j,
               ligne'[i] = Parasite, ligne'[j] = Parasite
        PROVE  \E k \in i .. j : ligne'[k] = LONGUEUR_IDLE
    <3>1. i \in Indices /\ ligne[i] = Parasite
      BY <2>1, <1>3, <1>4 DEF Indices
    <3>2. CASE j \in Indices
      <4>1. PICK k \in i .. j : ligne[k] = LONGUEUR_IDLE
        BY <2>1, <3>1, <3>2, <1>3 DEF IInvSerie, Parasites
      <4>2. k \in Indices
        BY <3>1, <3>2, <4>1, <1>3 DEF Indices
      <4>3. QED
        BY <4>1, <4>2, <1>3
    <3>3. CASE j = Len(ligne) + 1
      <4>1. TexteApres
        BY <1>1, <3>1 DEF IInvSerie, Parasites
      <4>2. PICK k \in i .. Len(ligne) : ligne[k] = LONGUEUR_IDLE
        BY <3>1, <4>1 DEF TexteApres
      <4>3. QED
        BY <3>1, <3>3, <4>2, <1>3 DEF Indices
    <3>4. QED
      BY <3>2, <3>3, <1>4
  <2>2. QED
    BY <1>1, <2>1 DEF Parasites, AvantEnvoi
<1>8. QED
  BY <1>5, <1>6, <1>7 DEF IInvSerie

\* A process sends the next character of its line.
LEMMA PasProcessus ==
  ASSUME Controle, Appareils, IInvSerie, ProcessusCar
  PROVE  IInvSerie'
<1> USE LongueursOK DEF Controle, Saut
<1> DEFINE v == reste - LONGUEUR_PROC - 2
<1>1. /\ reste \in 1 .. LONGUEUR_PROC + 1 /\ reste' = reste - 1
      /\ la' = la /\ car' = car /\ ligne' = Append(ligne, v)
      /\ v \in Int /\ v < 0
  BY DEF ProcessusCar, Appareils, Registre0
<1>0. v = reste - LONGUEUR_PROC - 2 /\ v # Parasite
  BY <1>1 DEF Parasite
<1> HIDE DEF v
<1>2. Envoyes' = Envoyes /\ Envoyes \in Nat
  BY <1>1 DEF Envoyes, AvantEnvoi
<1>3. /\ ligne \in Seq(Int) /\ Len(ligne') = Len(ligne) + 1
      /\ \A i \in Indices : ligne'[i] = ligne[i]
      /\ ligne'[Len(ligne) + 1] = v /\ ligne' \in Seq(Int)
      /\ Len(ligne) \in Nat
  BY <1>1 DEF IInvSerie, Suite, Indices
<1>4. Indices' = Indices \cup {Len(ligne) + 1}
  BY <1>3 DEF Indices
<1>5. Suite'
  <2>1. \A k \in 1 .. Envoyes : \E i \in Indices' : ligne'[i] = k
    <3> SUFFICES ASSUME NEW k \in 1 .. Envoyes
                 PROVE  \E i \in Indices' : ligne'[i] = k
      OBVIOUS
    <3>1. PICK i \in Indices : ligne[i] = k
      BY DEF IInvSerie, Suite
    <3>2. QED
      BY <3>1, <1>3, <1>4
  <2>2. /\ \A i \in Indices' : ligne'[i] <= Envoyes
        /\ \A i, j \in Indices' :
             i < j /\ ligne'[i] > 0 /\ ligne'[j] > 0 => ligne'[i] < ligne'[j]
    BY <1>1, <1>2, <1>3, <1>4 DEF IInvSerie, Suite, Indices
  <2>3. QED
    BY <1>1, <1>2, <1>3, <2>1, <2>2 DEF IInvSerie, Suite
<1>6. Blocs'
  <2>1. \A i \in Indices' :
          ligne'[i] < -1 => i > 1 /\ ligne'[i - 1] = ligne'[i] + 1
    BY <1>0, <1>1, <1>3, <1>4 DEF IInvSerie, Blocs, Indices
  <2>2. \A i \in Indices' : ligne'[i] \in -LONGUEUR_PROC .. -1 =>
          IF i < Len(ligne') THEN ligne'[i + 1] = ligne'[i] - 1
                             ELSE reste' = ligne'[i] + LONGUEUR_PROC + 1
    BY <1>0, <1>1, <1>3, <1>4 DEF IInvSerie, Blocs, Indices
  <2>3. Len(ligne') > 0 /\ ligne'[Len(ligne')] = reste' - LONGUEUR_PROC - 1
    BY <1>0, <1>1, <1>3
  <2>4. QED
    BY <2>1, <2>2, <2>3 DEF Blocs
<1>7. TexteApres => TexteApres'
  <2> SUFFICES ASSUME TexteApres, NEW i \in Indices', ligne'[i] = Parasite
               PROVE  \E k \in i .. Len(ligne') : ligne'[k] = LONGUEUR_IDLE
    BY DEF TexteApres
  <2>1. i \in Indices /\ ligne[i] = Parasite
    BY <1>0, <1>3, <1>4
  <2>2. PICK k \in i .. Len(ligne) : ligne[k] = LONGUEUR_IDLE
    BY <2>1 DEF TexteApres
  <2>3. QED
    BY <2>1, <2>2, <1>3 DEF Indices
<1>8. Parasites'
  <2>1. ASSUME NEW i \in Indices', NEW j \in Indices', i < j,
               ligne'[i] = Parasite, ligne'[j] = Parasite
        PROVE  \E k \in i .. j : ligne'[k] = LONGUEUR_IDLE
    <3>1. i \in Indices /\ j \in Indices
      BY <2>1, <1>0, <1>3, <1>4
    <3>2. PICK k \in i .. j : ligne[k] = LONGUEUR_IDLE
      BY <2>1, <3>1, <1>3 DEF IInvSerie, Parasites
    <3>3. k \in Indices
      BY <3>1, <3>2, <1>3 DEF Indices
    <3>4. ligne'[k] = LONGUEUR_IDLE
      BY <3>2, <3>3, <1>3
    <3>5. QED
      BY <3>4
  <2>2. (\A i \in Indices : ligne[i] # Parasite)
          => \A i \in Indices' : ligne'[i] # Parasite
    BY <1>0, <1>3, <1>4
  <2>3. QED
    BY <1>1, <1>7, <2>1, <2>2 DEF IInvSerie, Parasites
<1>9. QED
  BY <1>5, <1>6, <1>8 DEF IInvSerie

LEMMA NextSerie ==
  Controle /\ Appareils /\ IInvSerie /\ [NextC]_varsC => IInvSerie'
<1> SUFFICES ASSUME Controle, Appareils, IInvSerie, [NextC]_varsC
             PROVE  IInvSerie'
  OBVIOUS
<1>1. CASE \/ LitColonne \/ EcritColonne \/ TesteColonne \/ TesteLigne
           \/ LitLigne \/ EcritLigne \/ ZeroColonne \/ Defile
           \/ ArgLigne \/ ArgColonne \/ PoseLigne \/ PoseColonne
           \/ OuvreDiviseur \/ FermeDiviseur \/ EteintEcran \/ AllumeEcran
  <2>1. UNCHANGED <<ligne, reste>>
    BY <1>1 DEF LitColonne, EcritColonne, TesteColonne, TesteLigne, LitLigne,
                EcritLigne, ZeroColonne, Defile, ArgLigne, ArgColonne,
                PoseLigne, PoseColonne, Continue, OuvreDiviseur,
                FermeDiviseur, EteintEcran, AllumeEcran, Va, uart
  <2>2. QED
    BY <1>1, <2>1, PasMuet
<1>2. CASE EcritDiviseur
  <2>1. CASE dlab
    <3>1. UNCHANGED <<ligne, reste>>
      BY <1>2, <2>1 DEF EcritDiviseur, Va, Registre0
    <3>2. QED
      BY <1>2, <3>1, PasMuet
  <2>2. CASE ~dlab
    BY <1>2, <2>2, PasParasite
  <2>3. QED
    BY <2>1, <2>2
<1>3. CASE Envoie
  BY <1>3, PasEnvoie
<1>4. CASE Reveil
  BY <1>4, LongueursOK DEF Reveil, Va, IInvSerie, Suite, Blocs, Parasites,
     Indices, Envoyes, AvantEnvoi, Saut, TexteApres
<1>5. CASE ProcessusImprime
  <2>1. /\ UNCHANGED <<ligne, la, car>>
        /\ reste = 0 /\ reste' = LONGUEUR_PROC + 1
    BY <1>5 DEF ProcessusImprime, registres
  <2>2. Suite' /\ Parasites'
    BY <2>1 DEF IInvSerie, Suite, Parasites, TexteApres, Indices, Envoyes
  <2>3. Blocs'
    BY <2>1, LongueursOK DEF IInvSerie, Suite, Blocs, Indices
  <2>4. QED
    BY <2>2, <2>3 DEF IInvSerie
<1>6. CASE ProcessusCar
  BY <1>6, PasProcessus
<1>7. CASE UNCHANGED varsC
  BY <1>7 DEF varsC, uart, IInvSerie, Suite, Blocs, Parasites, TexteApres,
              Indices, Envoyes
<1>8. QED
  BY <1>1, <1>2, <1>3, <1>4, <1>5, <1>6, <1>7 DEF NextC, PasIdle

-----------------------------------------------------------------------------

\* Wherever idle is interrupted in traite_car, the cursor is never in row 0
\* and never more than two rows and three columns behind the last ones.
THEOREM CurseurBorneTheoreme == SpecC => []CurseurBorneEntrelace
<1>1. IInvCurseur => CurseurBorneEntrelace
  BY DEF IInvCurseur, Etendue, CurseurBorneEntrelace
<1>2. QED
  BY <1>1, InvariantCurseur, PTL

\* When idle waits, the cursor is at the beginning of a visible row.
THEOREM CurseurRetabliTheoreme == SpecC => []CurseurRetabli
<1>1. IInvCurseur => CurseurRetabli
  BY EcranOK DEF IInvCurseur, Etendue, Position, CurseurRetabli
<1>2. QED
  BY <1>1, InvariantCurseur, PTL

LEMMA InvariantAppareils == SpecC => []Appareils
<1>1. InitC => Appareils
  BY DEF InitC, Appareils
<1>2. QED
  BY <1>1, NextAppareils, PTL DEF SpecC

\* A character always finds the UART and the screen ready.
THEOREM AppareilsPretsTheoreme == SpecC => []AppareilsPrets
<1>1. Appareils => AppareilsPrets
  BY DEF Appareils, AppareilsPrets
<1>2. QED
  BY <1>1, InvariantAppareils, PTL

\* On the serial line nothing of idle or of the processes is lost, repeated or
\* reordered, and at most two stray bytes are added to a line of idle.
THEOREM SerieFideleTheoreme == SpecC => []SerieFidele
<1>1. IInvSerie /\ Controle => SerieFidele
  <2> SUFFICES ASSUME IInvSerie, Controle, la = "attend", reste = 0
               PROVE  SerieFidele
    BY DEF SerieFidele
  <2>1. Envoyes = Saut
    BY DEF Envoyes
  <2>2. Len(ligne) \in Nat /\ ligne \in Seq(Int)
    BY DEF IInvSerie, Suite
  <2>3. \A i \in 1 .. Len(ligne) : ligne[i] \in -LONGUEUR_PROC .. -1
          => i < Len(ligne) /\ ligne[i + 1] = ligne[i] - 1
    BY <2>2, LongueursOK DEF IInvSerie, Blocs, Indices
  <2>4. QED
    BY <2>1, <2>3 DEF SerieFidele, IInvSerie, Suite, Blocs, Parasites, Indices
<1>2. IInvCurseur => Controle
  BY DEF IInvCurseur
<1>3. SpecC => []IInvSerie
  BY <1>2, InitSerie, NextSerie, InvariantCurseur, InvariantAppareils, PTL
     DEF SpecC
<1>4. QED
  BY <1>1, <1>2, <1>3, InvariantCurseur, PTL
=============================================================================
