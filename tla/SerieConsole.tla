---------------------------- MODULE SerieConsole -----------------------------
(***************************************************************************)
(* Idle prints its line with interrupts open: disable_it clears no bit of  *)
(* mstatus.  Its printf is cut here at every access to what it shares with *)
(* the processes, as the -O0 build makes them: the divisor latch of the    *)
(* UART, the enable register of the screen, and the two coordinates of the *)
(* cursor.  A process prints masked: idle makes no step before its line is *)
(* complete.                                                               *)
(*                                                                         *)
(* A line is one console_putbytes for its text and one for its newline.    *)
(* The characters that leave the UART are numbered 1, 2... when they are   *)
(* idle's and -1, -2... when they are a process's.                         *)
(***************************************************************************)
EXTENDS Integers, Sequences

CONSTANTS
  NB_LIGNE_CAR, NB_COLONNE_CAR,
  LONGUEUR_IDLE,      \* characters of idle's line, without the newline
  LONGUEUR_PROC,      \* characters of a process's line, likewise
  LIGNES_MAX          \* bound on the lines of processes in a line of idle

ASSUME EcranOK ==
  /\ NB_LIGNE_CAR \in Nat /\ NB_LIGNE_CAR >= 3
  /\ NB_COLONNE_CAR \in Nat \ {0}
ASSUME LongueursOK ==
  /\ LONGUEUR_IDLE \in Nat \ {0} /\ LONGUEUR_PROC \in Nat \ {0}
  /\ LIGNES_MAX \in Nat

VARIABLES
  dlab, diviseur,            \* bit 7 of LCR; DLL, DLH
  ligne,                     \* sent since the beginning of idle's line
  allume,                    \* VBE_DISPI_INDEX_ENABLE
  lig_curseur, col_curseur,
  la, car,                   \* where idle is, with which character
  reg, arg,                  \* what idle has loaded: an operand, the arguments
  reste                      \* characters the process has still to print

uart == <<dlab, diviseur, ligne>>
curseur == <<lig_curseur, col_curseur>>
registres == <<reg, arg>>
varsC == <<uart, allume, curseur, la, car, registres, reste>>

Rapport == 1                 \* UART_CLOCK_FREQ / (16 * UART_BAUD_RATE)
Parasite == 0                \* a byte of the ratio sent as a character
Saut == LONGUEUR_IDLE + 1    \* idle's newline

InitC ==
  /\ dlab = FALSE /\ diviseur = Rapport /\ allume = TRUE
  /\ ligne = <<>>
  /\ lig_curseur \in 1 .. NB_LIGNE_CAR - 1 /\ col_curseur = 0
  /\ la = "lcr" /\ car = 1
  /\ reg = 0 /\ arg = <<0, 0>>
  /\ reste = 0

\* The step of idle from a to b.
Va(a, b) == la = a /\ reste = 0 /\ la' = b /\ UNCHANGED reste

-----------------------------------------------------------------------------
(* console_putbytes: the devices, then each character.                     *)

\* Register 0 of the UART is DLL or the transmitter, after DLAB.
Registre0(octet, emis) ==
  IF dlab
  THEN diviseur' = octet /\ UNCHANGED <<dlab, ligne>>
  ELSE ligne' = Append(ligne, emis) /\ UNCHANGED <<dlab, diviseur>>

OuvreDiviseur ==
  /\ Va("lcr", "dll")
  /\ dlab' = TRUE
  /\ UNCHANGED <<diviseur, ligne, allume, curseur, car, registres>>

EcritDiviseur ==
  /\ Va("dll", "ferme")
  /\ Registre0(Rapport, Parasite)
  /\ UNCHANGED <<allume, curseur, car, registres>>

\* Mutant: DLAB stays set.
FermeRien ==
  /\ Va("ferme", "eteint")
  /\ UNCHANGED <<uart, allume, curseur, car, registres>>

FermeDiviseur ==
  /\ Va("ferme", "eteint")
  /\ dlab' = FALSE
  /\ UNCHANGED <<diviseur, ligne, allume, curseur, car, registres>>

EteintEcran ==
  /\ Va("eteint", "allume")
  /\ allume' = FALSE
  /\ UNCHANGED <<uart, curseur, car, registres>>

AllumeEcran ==
  /\ Va("allume", "envoie")
  /\ allume' = TRUE
  /\ UNCHANGED <<uart, curseur, car, registres>>

Envoie ==
  /\ Va("envoie", IF car = Saut THEN "lit_lig" ELSE "lit_col")
  /\ Registre0(car, car)
  /\ UNCHANGED <<allume, curseur, car, registres>>

-----------------------------------------------------------------------------
(* traite_car, by loads and stores.                                        *)

LitColonne ==
  /\ Va("lit_col", "ecrit_col")
  /\ reg' = col_curseur
  /\ UNCHANGED <<uart, allume, curseur, car, arg>>

EcritColonne ==
  /\ Va("ecrit_col", "teste_col")
  /\ col_curseur' = reg + 1
  /\ UNCHANGED <<uart, allume, lig_curseur, car, registres>>

TesteColonne ==
  /\ Va("teste_col",
        IF col_curseur >= NB_COLONNE_CAR THEN "teste_lig" ELSE "arg_lig")
  /\ UNCHANGED <<uart, allume, curseur, car, registres>>

\* Mutant: the screen never scrolls.
TesteLigneSansDefiler ==
  /\ Va("teste_lig", IF car = Saut THEN "arg_lig" ELSE "lit_lig")
  /\ UNCHANGED <<uart, allume, curseur, car, registres>>

\* A newline tests the row it has already incremented, an ordinary character
\* the one it is about to.
TesteLigne ==
  /\ Va("teste_lig",
        IF lig_curseur >= NB_LIGNE_CAR THEN "defile"
        ELSE IF car = Saut THEN "arg_lig" ELSE "lit_lig")
  /\ UNCHANGED <<uart, allume, curseur, car, registres>>

LitLigne ==
  /\ Va("lit_lig", "ecrit_lig")
  /\ reg' = lig_curseur
  /\ UNCHANGED <<uart, allume, curseur, car, arg>>

EcritLigne ==
  /\ Va("ecrit_lig", IF car = Saut THEN "teste_lig" ELSE "zero_col")
  /\ lig_curseur' = reg + 1
  /\ UNCHANGED <<uart, allume, col_curseur, car, registres>>

ZeroColonne ==
  /\ Va("zero_col", "arg_lig")
  /\ col_curseur' = 0
  /\ UNCHANGED <<uart, allume, lig_curseur, car, registres>>

\* defilement sets the row, and traite_car sets it again.
Defile ==
  /\ Va("defile", "redefile") \/ Va("redefile", "arg_lig")
  /\ lig_curseur' = NB_LIGNE_CAR - 1
  /\ UNCHANGED <<uart, allume, col_curseur, car, registres>>

\* The arguments of place_curseur.
ArgLigne ==
  /\ Va("arg_lig", "arg_col")
  /\ arg' = <<lig_curseur, 0>>
  /\ UNCHANGED <<uart, allume, curseur, car, reg>>

ArgColonne ==
  /\ Va("arg_col", "pose_lig")
  /\ arg' = <<arg[1], IF car = Saut THEN 0 ELSE col_curseur>>
  /\ UNCHANGED <<uart, allume, curseur, car, reg>>

PoseLigne ==
  /\ Va("pose_lig", "pose_col")
  /\ lig_curseur' = arg[1]
  /\ UNCHANGED <<uart, allume, col_curseur, car, registres>>

\* The next character; the newline comes from a second console_putbytes.
Continue ==
  /\ Va("pose_col", IF car = Saut THEN "attend"
                    ELSE IF car = LONGUEUR_IDLE THEN "lcr" ELSE "envoie")
  /\ car' = IF car = Saut THEN 1 ELSE car + 1
  /\ reg' = 0 /\ arg' = <<0, 0>>

\* Mutant: place_curseur stores the row only.
PoseRien ==
  /\ Continue
  /\ UNCHANGED <<uart, allume, curseur>>

PoseColonne ==
  /\ Continue
  /\ col_curseur' = arg[2]
  /\ UNCHANGED <<uart, allume, lig_curseur>>

PasIdle ==
  \/ OuvreDiviseur \/ EcritDiviseur \/ FermeDiviseur
  \/ EteintEcran \/ AllumeEcran \/ Envoie
  \/ LitColonne \/ EcritColonne \/ TesteColonne \/ TesteLigne
  \/ LitLigne \/ EcritLigne \/ ZeroColonne \/ Defile
  \/ ArgLigne \/ ArgColonne \/ PoseLigne \/ PoseColonne

\* idle comes back from wfi and prints again.
Reveil ==
  /\ Va("attend", "lcr")
  /\ ligne' = <<>>
  /\ UNCHANGED <<dlab, diviseur, allume, curseur, car, registres>>

-----------------------------------------------------------------------------
(* A process prints its line.                                              *)

LignesRecues == Len(SelectSeq(ligne, LAMBDA x : x = -1))

\* init_uart and init_ecran, uninterrupted.
ProcessusImprime ==
  /\ reste = 0 /\ LignesRecues < LIGNES_MAX
  /\ dlab' = FALSE /\ diviseur' = Rapport /\ allume' = TRUE
  /\ reste' = LONGUEUR_PROC + 1
  /\ UNCHANGED <<ligne, curseur, la, car, registres>>

\* traite_car, uninterrupted: an ordinary character.
AvanceOrdinaire ==
  LET suivante == col_curseur + 1 IN
  CASE suivante < NB_COLONNE_CAR ->
         col_curseur' = suivante /\ UNCHANGED lig_curseur
    [] suivante >= NB_COLONNE_CAR /\ lig_curseur < NB_LIGNE_CAR ->
         lig_curseur' = lig_curseur + 1 /\ col_curseur' = 0
    [] OTHER ->
         lig_curseur' = NB_LIGNE_CAR - 1 /\ col_curseur' = suivante

\* traite_car, uninterrupted: the newline.
AvanceSaut ==
  /\ lig_curseur' = IF lig_curseur + 1 >= NB_LIGNE_CAR
                    THEN NB_LIGNE_CAR - 1 ELSE lig_curseur + 1
  /\ col_curseur' = 0

\* Mutant: the newline is sent to the screen only.
ProcessusCarSansSaut ==
  /\ reste > 0
  /\ IF reste = 1 THEN UNCHANGED uart
                  ELSE Registre0(Parasite, reste - LONGUEUR_PROC - 2)
  /\ IF reste = 1 THEN AvanceSaut ELSE AvanceOrdinaire
  /\ reste' = reste - 1
  /\ UNCHANGED <<allume, la, car, registres>>

ProcessusCar ==
  /\ reste > 0
  /\ Registre0(Parasite, reste - LONGUEUR_PROC - 2)
  /\ IF reste = 1 THEN AvanceSaut ELSE AvanceOrdinaire
  /\ reste' = reste - 1
  /\ UNCHANGED <<allume, la, car, registres>>

NextC == PasIdle \/ Reveil \/ ProcessusImprime \/ ProcessusCar

SpecC == InitC /\ [][NextC]_varsC

-----------------------------------------------------------------------------

\* However the updates of the cursor interleave, it never enters row 0, and it
\* is never more than two rows and three columns behind the last ones.
CurseurBorneEntrelace ==
  /\ lig_curseur \in 1 .. NB_LIGNE_CAR + 1
  /\ col_curseur \in 0 .. NB_COLONNE_CAR + 2

\* What idle left torn or stale is repaired by the end of its line.
CurseurRetabli ==
  la = "attend" /\ reste = 0 =>
    lig_curseur \in 1 .. NB_LIGNE_CAR - 1 /\ col_curseur = 0

\* On the serial line every character of idle arrives once and in order, and
\* the lines of the processes in one piece.  An init_uart cut in two may add a
\* stray byte: one before idle's text, one between the text and the newline.
SerieFidele ==
  la = "attend" /\ reste = 0 =>
    /\ \A k \in 1 .. Saut : \E i \in 1 .. Len(ligne) : ligne[i] = k
    /\ \A i, j \in 1 .. Len(ligne) :
         i < j /\ ligne[i] > 0 /\ ligne[j] > 0 => ligne[i] < ligne[j]
    /\ \A i \in 1 .. Len(ligne) :
         /\ ligne[i] < -1 => i > 1 /\ ligne[i - 1] = ligne[i] + 1
         /\ ligne[i] \in -LONGUEUR_PROC .. -1
              => i < Len(ligne) /\ ligne[i + 1] = ligne[i] - 1
    /\ \A i, j \in 1 .. Len(ligne) :
         i < j /\ ligne[i] = Parasite /\ ligne[j] = Parasite
           => \E k \in i .. j : ligne[k] = LONGUEUR_IDLE

\* Whoever sends a character finds the transmitter behind register 0, the
\* speed set and the screen on, although each console_putbytes takes all three
\* down and may be interrupted there.
AppareilsPrets ==
  reste > 0 \/ la \notin {"lcr", "dll", "ferme", "eteint", "allume"} =>
    ~dlab /\ diviseur = Rapport /\ allume
=============================================================================
