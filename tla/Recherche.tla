------------------------------ MODULE Recherche ------------------------------
(***************************************************************************)
(* memmem of string.c, on which strstr relies: the search for a word       *)
(* (aiguille) in a text (foin), with shifts of one or two characters that  *)
(* depend on whether the word begins with the same character twice.        *)
(*                                                                         *)
(* n, m, j, k and l are the variables of the function; x and y, its two    *)
(* pointers, are aiguille and foin.  The result NULL is Absent.            *)
(***************************************************************************)
EXTENDS Integers, SequencesExt

CONSTANTS
  Lettres,         \* the characters of words and texts
  MaxFoin,
  MaxAiguille      \* the longest text and the longest word

ASSUME LongueursOK == MaxFoin \in Nat /\ MaxAiguille \in Nat

VARIABLES foin, aiguille, j, k, l, phase, trouve

varsR == <<foin, aiguille, j, k, l, phase, trouve>>

Absent == -1

nf == Len(foin)
m == Len(aiguille)

\* x[i] and y[i], counted from 0.
AiguilleA(i) == aiguille[i + 1]
FoinA(i) == foin[i + 1]

InitR ==
  /\ foin \in UNION {[1 .. i -> Lettres] : i \in 0 .. MaxFoin}
  /\ aiguille \in UNION {[1 .. i -> Lettres] : i \in 0 .. MaxAiguille}
  /\ j = 0 /\ k = 0 /\ l = 0
  /\ phase = "decalages"
  /\ trouve = Absent

Finit(ou) == phase' = "trouve ou pas" /\ trouve' = ou

\* The words for which nothing is searched, and the search for one character.
Courte ==
  /\ phase = "decalages"
  /\ \/ (m > nf \/ m = 0 \/ nf = 0) /\ Finit(Absent)
     \/ m = 1 /\ nf > 0 /\ phase' = "un" /\ UNCHANGED trouve
  /\ UNCHANGED <<foin, aiguille, j, k, l>>

\* Mutant: the two shifts are swapped.
DecalagesEchanges ==
  /\ phase = "decalages" /\ m <= nf /\ m > 1
  /\ IF AiguilleA(0) = AiguilleA(1) THEN k' = 1 /\ l' = 2
                                    ELSE k' = 2 /\ l' = 1
  /\ phase' = "plusieurs"
  /\ UNCHANGED <<foin, aiguille, j, trouve>>

\* k is the shift when the second character differs, l when it is the same.
Decalages ==
  /\ phase = "decalages" /\ m <= nf /\ m > 1
  /\ IF AiguilleA(0) = AiguilleA(1) THEN k' = 2 /\ l' = 1
                                    ELSE k' = 1 /\ l' = 2
  /\ phase' = "plusieurs"
  /\ UNCHANGED <<foin, aiguille, j, trouve>>

Un ==
  /\ phase = "un"
  /\ \/ FoinA(j) = AiguilleA(0) /\ Finit(j) /\ UNCHANGED j
     \/ /\ FoinA(j) # AiguilleA(0)
        /\ j' = j + 1
        /\ IF j' = nf THEN Finit(Absent) ELSE UNCHANGED <<phase, trouve>>
  /\ UNCHANGED <<foin, aiguille, k, l>>

MemeReste == \A i \in 2 .. m - 1 : AiguilleA(i) = FoinA(j + i)

Plusieurs ==
  /\ phase = "plusieurs"
  /\ \/ j > nf - m /\ Finit(Absent) /\ UNCHANGED j
     \/ /\ j <= nf - m
        /\ AiguilleA(1) # FoinA(j + 1)
        /\ j' = j + k
        /\ UNCHANGED <<phase, trouve>>
     \/ /\ j <= nf - m
        /\ AiguilleA(1) = FoinA(j + 1)
        /\ IF MemeReste /\ AiguilleA(0) = FoinA(j)
           THEN Finit(j) /\ UNCHANGED j
           ELSE j' = j + l /\ UNCHANGED <<phase, trouve>>
  /\ UNCHANGED <<foin, aiguille, k, l>>

NextR == Courte \/ Decalages \/ Un \/ Plusieurs

SpecR == InitR /\ [][NextR]_varsR

-----------------------------------------------------------------------------

Places == {i \in 0 .. nf - m : SubSeq(foin, i + 1, i + m) = aiguille}

\* memmem returns the first place where the word occurs, NULL if there is none
\* or if the word is empty: no shift jumps over an occurrence.
PremierePlace ==
  phase = "trouve ou pas" =>
    \/ trouve = Absent /\ (m = 0 \/ Places = {})
    \/ m > 0 /\ trouve \in Places /\ \A i \in Places : trouve <= i
=============================================================================
