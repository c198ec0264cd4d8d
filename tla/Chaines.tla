------------------------------ MODULE Chaines --------------------------------
(***************************************************************************)
(* Two functions of string.c that walk a C string in place: strlcat, which *)
(* appends a string within the size of its destination, and strtok, which  *)
(* cuts a string into words with strsep and keeps the rest in its static   *)
(* variable holder.                                                        *)
(*                                                                         *)
(* zone is the memory: the destination of strlcat, or the string that      *)
(* strtok cuts, from address 0 on.  Nul is the character 0.                *)
(***************************************************************************)
EXTENDS Integers, SequencesExt

CONSTANTS
  Corps,           \* the characters that are not delimiters
  Delimiteurs,
  TailleZone,
  MaxAjout         \* bound on the length of the string to append

Nul == "nul"

ASSUME ChainesOK ==
  /\ Corps \cap Delimiteurs = {}
  /\ Nul \notin Corps \cup Delimiteurs
  /\ TailleZone \in Nat \ {0} /\ MaxAjout \in Nat

VARIABLES
  zone, zone0,     \* the memory, now and before the calls
  ajout,           \* the string that strlcat appends
  size,            \* its bound
  bytes, lu,       \* its counter and result; the characters read from ajout
  fin,             \* q, the end of dst
  holder,          \* where strtok goes on; Null when the string is used up
  mots,            \* the places of the words that strtok returned
  pas

varsC == <<zone, zone0, ajout, size, bytes, lu, fin, holder, mots, pas>>

Null == -1
Caractere == Corps \cup Delimiteurs

\* The end of the string at address a of z, looked for before limite, which
\* stands for the end of one that has no Nul.
Terminaison(z, a, limite) ==
  LET nuls == {i \in a .. limite - 1 : z[i] = Nul}
  IN IF nuls = {} THEN limite ELSE CHOOSE i \in nuls : \A i2 \in nuls : i <= i2

InitC ==
  /\ zone \in [0 .. TailleZone - 1 -> Caractere \cup {Nul}]
  /\ zone0 = zone
  /\ bytes = 0 /\ lu = 0 /\ fin = 0 /\ holder = Null /\ mots = <<>>
  /\ \/ /\ ajout \in UNION {[1 .. i -> Caractere] : i \in 0 .. MaxAjout}
        /\ size \in 0 .. TailleZone
        /\ pas = "fin de dst"
     \/ /\ zone[TailleZone - 1] = Nul
        /\ ajout = <<>> /\ size = TailleZone
        /\ pas = "strtok"

-----------------------------------------------------------------------------
(* strlcat.                                                                *)

\* The end of dst, looked for within size; nothing is appended when it has none.
FinDeDst ==
  /\ pas = "fin de dst"
  /\ fin' = Terminaison(zone, 0, size)
  /\ \/ fin' = size /\ bytes' = size + Len(ajout) /\ pas' = "fini"
     \/ fin' < size /\ bytes' = fin' /\ pas' = "ajoute"
  /\ UNCHANGED <<zone, zone0, ajout, size, lu, holder, mots>>

\* Mutant: no room is kept for the Nul.
AjouteSansReserve ==
  /\ pas = "ajoute" /\ lu < Len(ajout)
  /\ IF bytes < size
     THEN zone' = [zone EXCEPT ![fin] = ajout[lu + 1]] /\ fin' = fin + 1
     ELSE UNCHANGED <<zone, fin>>
  /\ lu' = lu + 1 /\ bytes' = bytes + 1
  /\ UNCHANGED <<zone0, ajout, size, holder, mots, pas>>

\* fin stops at the last byte, bytes goes on counting.
Ajoute ==
  /\ pas = "ajoute" /\ lu < Len(ajout)
  /\ IF bytes + 1 < size
     THEN zone' = [zone EXCEPT ![fin] = ajout[lu + 1]] /\ fin' = fin + 1
     ELSE UNCHANGED <<zone, fin>>
  /\ lu' = lu + 1 /\ bytes' = bytes + 1
  /\ UNCHANGED <<zone0, ajout, size, holder, mots, pas>>

TermineDst ==
  /\ pas = "ajoute" /\ lu = Len(ajout)
  /\ zone' = [zone EXCEPT ![fin] = Nul]
  /\ pas' = "fini"
  /\ UNCHANGED <<zone0, ajout, size, bytes, lu, fin, holder, mots>>

-----------------------------------------------------------------------------
(* strtok.                                                                 *)

\* __strxspn with parity 1: the first place behind a that holds a delimiter
\* or Nul.
Span(a) ==
  CHOOSE i \in a .. TailleZone - 1 :
    /\ zone[i] \in Delimiteurs \cup {Nul}
    /\ \A h \in a .. i - 1 : zone[h] \in Corps

\* Mutant: holder stays on the delimiter.
CoupeSansAvancer(a) ==
  /\ mots' = Append(mots, a)
  /\ IF zone[Span(a)] = Nul
     THEN holder' = Null /\ UNCHANGED zone
     ELSE /\ zone' = [zone EXCEPT ![Span(a)] = Nul]
          /\ holder' = Span(a)

\* strsep: the delimiter behind the word becomes its end.
Coupe(a) ==
  /\ mots' = Append(mots, a)
  /\ IF zone[Span(a)] = Nul
     THEN holder' = Null /\ UNCHANGED zone
     ELSE /\ zone' = [zone EXCEPT ![Span(a)] = Nul]
          /\ holder' = Span(a) + 1

\* The first call gives the string, the following ones NULL.
PremierAppel ==
  /\ pas = "strtok" /\ mots = <<>>
  /\ Coupe(0)
  /\ UNCHANGED <<zone0, ajout, size, bytes, lu, fin, pas>>

AppelSuivant ==
  /\ pas = "strtok" /\ mots # <<>>
  /\ IF holder = Null
     THEN pas' = "epuise" /\ UNCHANGED <<zone, holder, mots>>
     ELSE Coupe(holder) /\ UNCHANGED pas
  /\ UNCHANGED <<zone0, ajout, size, bytes, lu, fin>>

NextC == FinDeDst \/ Ajoute \/ TermineDst \/ PremierAppel \/ AppelSuivant

SpecC == InitC /\ [][NextC]_varsC

-----------------------------------------------------------------------------

\* The string at address a of z.
Chaine(z, a, limite) ==
  [i \in 1 .. Terminaison(z, a, limite) - a |-> z[a + i - 1]]

\* strlcat appends as much as size allows, always ends the string if it found
\* its end, writes nothing behind size, and returns the length that the whole
\* string would have.
AjoutBorne ==
  pas = "fini" =>
    LET avant == Chaine(zone0, 0, size)
        tout == avant \o ajout
        garde == IF Len(tout) < size THEN Len(tout) ELSE size - 1
    IN /\ size > Len(avant) =>
            Chaine(zone, 0, TailleZone) = SubSeq(tout, 1, garde)
       /\ \A i \in DOMAIN zone :
            i >= size \/ i < Len(avant) => zone[i] = zone0[i]
       /\ bytes = Len(tout)

\* Once strtok returns NULL, the words, put together with the delimiters that
\* stood behind them, are the string that was given: none is lost, split or
\* returned twice.
MotsExacts ==
  pas = "epuise" =>
    LET mot(i) == Chaine(zone, mots[i], TailleZone)
        finMot(i) == mots[i] + Len(mot(i))
    IN /\ mots[1] = 0
       /\ \A i \in 1 .. Len(mots) - 1 : mots[i + 1] = finMot(i) + 1
       /\ finMot(Len(mots)) = Terminaison(zone0, 0, TailleZone)
       /\ \A i \in DOMAIN mots :
            \A h \in mots[i] .. finMot(i) - 1 :
              zone[h] = zone0[h] /\ zone[h] \in Corps
=============================================================================
