-------------------------------- MODULE Champs -------------------------------
(***************************************************************************)
(* The directive %s of _doprnt: its flag, width and precision, which may   *)
(* be taken from the arguments, and the loops that print its field.  One   *)
(* action is one iteration.                                                *)
(***************************************************************************)
EXTENDS Integers, Sequences

CONSTANTS
  Alphabet,          \* the characters of the argument
  MaxChaine,         \* bound on its length
  Demandes           \* the widths and precisions that are asked for

ASSUME DemandesOK == Demandes \subseteq Int /\ MaxChaine \in Nat

VARIABLES
  boucle,             \* the loop
  directive,         \* as the format and its arguments give it
  gauche, large, prec,   \* ladjust, length, prec
  argument,          \* the string
  lus, nb,           \* characters passed in it; the local n
  champ              \* the characters passed to putc

varsF == <<boucle, directive, gauche, large, prec, argument, lus, nb, champ>>
reglages == <<directive, gauche, large, prec, argument>>

Blanc == " "

\* A negative number can only come from an argument; a precision of -1 is also
\* what a format without one has.
InitF ==
  /\ boucle = "options"
  /\ directive \in [tiret : BOOLEAN, largeur : Demandes, precision : Demandes]
  /\ gauche = FALSE /\ large = 0 /\ prec = -1
  /\ argument \in UNION {[1 .. k -> Alphabet] : k \in 0 .. MaxChaine}
  /\ lus = 0 /\ nb = 0 /\ champ = <<>>

Illimitee == MaxChaine + 1     \* 0x7fffffff: longer than any string

\* A negative width changes the side.
LitOptions ==
  /\ boucle = "options"
  /\ gauche' = (directive.tiret # (directive.largeur < 0))
  /\ large' = IF directive.largeur < 0 THEN -directive.largeur
              ELSE directive.largeur
  /\ prec' = IF directive.precision = -1 THEN Illimitee
             ELSE directive.precision
  /\ boucle' = IF large' > 0 /\ ~gauche' THEN "compte" ELSE "texte"
  /\ UNCHANGED <<directive, argument, lus, nb, champ>>

\* Mutant: the characters behind the precision are counted too.
CompteTout ==
  /\ boucle = "compte"
  /\ IF lus < Len(argument)
     THEN lus' = lus + 1 /\ nb' = nb + 1 /\ UNCHANGED boucle
     ELSE lus' = 0 /\ boucle' = "devant" /\ UNCHANGED nb
  /\ UNCHANGED <<reglages, champ>>

\* Right justified: what the text will take is counted first.
Compte ==
  /\ boucle = "compte"
  /\ IF lus < Len(argument) /\ nb < prec
     THEN lus' = lus + 1 /\ nb' = nb + 1 /\ UNCHANGED boucle
     ELSE lus' = 0 /\ boucle' = "devant" /\ UNCHANGED nb
  /\ UNCHANGED <<reglages, champ>>

BlancDevant ==
  /\ boucle = "devant"
  /\ IF nb < large
     THEN champ' = Append(champ, Blanc) /\ nb' = nb + 1 /\ UNCHANGED boucle
     ELSE nb' = 0 /\ boucle' = "texte" /\ UNCHANGED champ
  /\ UNCHANGED <<reglages, lus>>

\* The character that exceeds the precision is counted, and not printed.
CaractereEmis ==
  /\ boucle = "texte"
  /\ lus < Len(argument)
  /\ nb' = nb + 1
  /\ IF nb' > prec
     THEN boucle' = "derriere" /\ UNCHANGED <<lus, champ>>
     ELSE /\ champ' = Append(champ, argument[lus + 1])
          /\ lus' = lus + 1
          /\ UNCHANGED boucle
  /\ UNCHANGED reglages

FinDeChaine ==
  /\ boucle = "texte" /\ lus = Len(argument)
  /\ boucle' = "derriere"
  /\ UNCHANGED <<reglages, lus, nb, champ>>

BlancDerriere ==
  /\ boucle = "derriere"
  /\ IF gauche /\ nb < large
     THEN champ' = Append(champ, Blanc) /\ nb' = nb + 1 /\ UNCHANGED boucle
     ELSE boucle' = "fini" /\ UNCHANGED <<nb, champ>>
  /\ UNCHANGED <<reglages, lus>>

NextF == LitOptions \/ Compte \/ BlancDevant \/ CaractereEmis \/ FinDeChaine
           \/ BlancDerriere

SpecF == InitF /\ [][NextF]_varsF

-----------------------------------------------------------------------------

\* The characters that the precision allows, and the blanks of a width.
Garde ==
  IF Len(argument) <= prec THEN Len(argument) ELSE IF prec > 0 THEN prec ELSE 0
Blancs(k) == [i \in 1 .. IF k > 0 THEN k ELSE 0 |-> Blanc]

\* The field that is asked for: the beginning of the string that the precision
\* allows, and blanks on one side up to the width.
ChampDemande ==
  IF gauche THEN SubSeq(argument, 1, Garde) \o Blancs(large - Garde)
  ELSE Blancs(large - Garde) \o SubSeq(argument, 1, Garde)

\* %s prints the field that is asked for, unless it has to cut the string and
\* to fill the field behind it; of that case nothing is said.
ChampRespecte ==
  boucle = "fini" /\ (gauche => Garde = Len(argument) \/ large <= Garde) =>
    champ = ChampDemande

\* What the comment above _doprnt says of %m.n and %-m.n, a field width, a
\* precision and left adjustment: the field is the one that is asked for.
ChampDocumente == boucle = "fini" => champ = ChampDemande
=============================================================================
