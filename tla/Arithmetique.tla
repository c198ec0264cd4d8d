---------------------------- MODULE Arithmetique -----------------------------
(***************************************************************************)
(* stdfct.c: multiplication and division without the M extension, by       *)
(* shifts, additions and subtractions.  The file holds each function       *)
(* twice, for words of 32 and of 64 bits; PoidsFort is the weight of the   *)
(* highest bit of either, 2^31 or 2^63.                                    *)
(*                                                                         *)
(* One call of one function: x0 and y0 are its arguments, as unsigned      *)
(* words; x, y, acc and aux are the variables of its loops; resultat is    *)
(* what it returns.                                                        *)
(***************************************************************************)
EXTENDS Integers

CONSTANT PoidsFort     \* weight of the highest bit of a word

ASSUME PoidsFortOK == PoidsFort \in Nat \ {0}

VARIABLES
  operation, signes,   \* "mul", "div" or "mod"; the signed variant or not
  x0, y0,
  x, y, acc, aux,
  xs, ys,              \* the signs of the arguments
  ou,                  \* where the call is
  resultat

varsA == <<operation, signes, x0, y0, x, y, acc, aux, xs, ys, ou, resultat>>

Modulo == 2 * PoidsFort
Mots == 0 .. Modulo - 1

Negatif(w) == w >= PoidsFort
Moins(w) == (Modulo - w) % Modulo
Absolu(w) == IF Negatif(w) THEN Moins(w) ELSE w

InitA ==
  /\ operation \in {"mul", "div", "mod"}
  /\ signes \in BOOLEAN
  /\ x0 \in Mots /\ y0 \in Mots
  /\ x = x0 /\ y = y0
  /\ acc = 0 /\ aux = 0
  /\ xs = FALSE /\ ys = FALSE
  /\ ou = "debut"
  /\ resultat = 0

-----------------------------------------------------------------------------
(* The entry: the signed functions keep the signs and work on the absolute *)
(* values; the most negative number is its own absolute value, which is    *)
(* right once it is read as unsigned.                                      *)

\* Mutant: the remainder also takes the sign of the divisor.
DebutSignesConfondus ==
  /\ ou = "debut"
  /\ IF signes
     THEN /\ x' = Absolu(x) /\ y' = Absolu(y)
          /\ xs' = (Negatif(x) # Negatif(y)) /\ ys' = FALSE
     ELSE UNCHANGED <<x, y, xs, ys>>
  /\ ou' = IF operation = "mul" THEN "echange" ELSE "diviseur"
  /\ UNCHANGED <<operation, signes, x0, y0, acc, aux, resultat>>

Debut ==
  /\ ou = "debut"
  /\ IF signes
     THEN /\ x' = Absolu(x) /\ y' = Absolu(y)
          /\ xs' = Negatif(x) /\ ys' = Negatif(y)
     ELSE UNCHANGED <<x, y, xs, ys>>
  /\ ou' = IF operation = "mul" THEN "echange" ELSE "diviseur"
  /\ UNCHANGED <<operation, signes, x0, y0, acc, aux, resultat>>

\* The smaller factor is the one that is shifted out.
Echange ==
  /\ ou = "echange"
  /\ IF x < y THEN x' = y /\ y' = x ELSE UNCHANGED <<x, y>>
  /\ acc' = 0
  /\ ou' = "multiplie"
  /\ UNCHANGED <<operation, signes, x0, y0, aux, xs, ys, resultat>>

Multiplie ==
  /\ ou = "multiplie" /\ y > 0
  /\ acc' = IF y % 2 = 1 THEN (acc + x) % Modulo ELSE acc
  /\ x' = (2 * x) % Modulo
  /\ y' = y \div 2
  /\ UNCHANGED <<operation, signes, x0, y0, aux, xs, ys, ou, resultat>>

\* A division by zero returns 0.
Diviseur ==
  /\ ou = "diviseur"
  /\ IF y = 0
     THEN /\ ou' = "fini"
          /\ UNCHANGED aux
     ELSE /\ aux' = 1
          /\ ou' = "monte"
  /\ UNCHANGED <<operation, signes, x0, y0, x, y, acc, xs, ys, resultat>>

\* Mutant: the shift does not stop at the highest bit of the divisor.
MonteSansBorne ==
  /\ ou = "monte"
  /\ IF y < x
     THEN /\ y' = (2 * y) % Modulo /\ aux' = (2 * aux) % Modulo
          /\ UNCHANGED ou
     ELSE ou' = "descend" /\ UNCHANGED <<y, aux>>
  /\ UNCHANGED <<operation, signes, x0, y0, x, acc, xs, ys, resultat>>

\* The divisor is shifted up to the dividend, or to the highest bit.
Monte ==
  /\ ou = "monte"
  /\ IF y < x /\ ~Negatif(y)
     THEN /\ y' = (2 * y) % Modulo /\ aux' = (2 * aux) % Modulo
          /\ UNCHANGED ou
     ELSE ou' = "descend" /\ UNCHANGED <<y, aux>>
  /\ UNCHANGED <<operation, signes, x0, y0, x, acc, xs, ys, resultat>>

Descend ==
  /\ ou = "descend" /\ x > 0 /\ aux > 0
  /\ IF y <= x
     THEN x' = x - y /\ acc' = (acc + aux) % Modulo
     ELSE UNCHANGED <<x, acc>>
  /\ aux' = aux \div 2 /\ y' = y \div 2
  /\ UNCHANGED <<operation, signes, x0, y0, xs, ys, ou, resultat>>

\* The result takes the sign of the product, or of the dividend.
AvecSigne(w, negatif) == IF signes /\ negatif THEN Moins(w) ELSE w

Rend ==
  /\ \/ ou = "multiplie" /\ y = 0
     \/ ou = "descend" /\ (x = 0 \/ aux = 0)
  /\ resultat' = IF operation = "mod" THEN AvecSigne(x, xs)
                 ELSE AvecSigne(acc, xs # ys)
  /\ ou' = "fini"
  /\ UNCHANGED <<operation, signes, x0, y0, x, y, acc, aux, xs, ys>>

NextA == Debut \/ Echange \/ Multiplie \/ Diviseur \/ Monte \/ Descend \/ Rend

SpecA == InitA /\ [][NextA]_varsA

-----------------------------------------------------------------------------
(* What C promises of *, / and %, on the numbers that the words stand for. *)

ValeurDe(w) == IF signes /\ Negatif(w) THEN w - Modulo ELSE w

ValAbs(k) == IF k < 0 THEN -k ELSE k

\* The words of x * y, of x / y truncated towards zero, and of the remainder
\* that has the sign of x.  The quotient of the most negative number by -1
\* wraps.
ResultatJuste ==
  ou = "fini" =>
    LET a == ValeurDe(x0)
        b == ValeurDe(y0)
        q == ValAbs(a) \div ValAbs(b)
    IN \/ operation = "mul" /\ resultat = (a * b) % Modulo
       \/ operation # "mul" /\ b = 0 /\ resultat = 0
       \/ operation # "mul" /\ b # 0
          /\ LET quotient == IF (a < 0) = (b < 0) THEN q ELSE -q
             IN resultat = (IF operation = "div" THEN quotient
                            ELSE a - b * quotient) % Modulo

\* The inductive part of the division: what has been subtracted is accounted
\* for in acc, nothing is lost by the shifts, and what remains to be divided
\* is less than twice the shifted divisor.
DivisionEnCours ==
  LET dividende == IF signes THEN Absolu(x0) ELSE x0
      diviseur == IF signes THEN Absolu(y0) ELSE y0
  IN ou \in {"monte", "descend"} =>
       /\ x + acc * diviseur = dividende
       /\ aux > 0 => y = aux * diviseur
       /\ ou = "descend" => IF aux > 0 THEN x < 2 * y ELSE x < diviseur
=============================================================================
