------------------------------- MODULE Nombres -------------------------------
(***************************************************************************)
(* Numbers in text: the integer conversions of _doprnt (doprnt.c), which   *)
(* the kernel's printf and its clock use, and strtoul (strtoul.c), which   *)
(* reads a number back.                                                    *)
(*                                                                         *)
(* A conversion is given the flags as the format left them.  A character   *)
(* is a string, and a long is a word of 64 bits.                           *)
(***************************************************************************)
EXTENDS Integers, Sequences

CONSTANTS
  NbLongs,           \* 2^64, the number of words
  Longueurs,         \* the widths that formats ask for, 0 for none
  Precisions         \* the precisions, -1 for none

ASSUME LongsOK == NbLongs \in Nat \ {0}
ASSUME FormatsOK == Longueurs \subseteq Nat /\ Precisions \subseteq Int

Espace == "espace"

Chiffres == <<"0", "1", "2", "3", "4", "5", "6", "7",
              "8", "9", "a", "b", "c", "d", "e", "f">>

\* The conversions: d, i and D; u and U; x and X; o and O.
Base == [d |-> 10, u |-> 10, x |-> 16, o |-> 8]
Signee(conv) == conv = "d"

\* A word read as a signed long, and the unsigned opposite of a word.
EnSigne(w) == IF w >= NbLongs \div 2 THEN w - NbLongs ELSE w
Oppose(w) == (NbLongs - w) % NbLongs

VARIABLES
  etape,
  mot,               \* the argument, as a word
  conv,
  options,           \* ladjust, padc = '0', altfmt, plus_sign
  longueur,          \* length, as asked
  precision,         \* prec, as asked
  u,
  chiffres,          \* buf, from p on
  emis               \* the characters passed to putc

varsN == <<etape, mot, conv, options, longueur, precision, u, chiffres, emis>>

Options ==
  [ladjust : BOOLEAN, zero : BOOLEAN, altfmt : BOOLEAN,
   plus_sign : {"", "+", Espace}]

InitN ==
  /\ etape = "argument"
  /\ mot \in 0 .. NbLongs - 1
  /\ conv \in DOMAIN Base
  /\ options \in Options
  /\ longueur \in Longueurs
  /\ precision \in Precisions
  /\ u = 0 /\ chiffres = <<>> /\ emis = <<>>

\* print_signed and print_unsigned.
Argument ==
  /\ etape = "argument"
  /\ etape' = "chiffres"
  /\ u' = IF Signee(conv) /\ EnSigne(mot) < 0 THEN Oppose(mot) ELSE mot
  /\ UNCHANGED <<mot, conv, options, longueur, precision, chiffres, emis>>

\* Mutant: the digits are stored upwards.
ChiffreALEnvers ==
  /\ etape = "chiffres"
  /\ chiffres' = Append(chiffres, Chiffres[(u % Base[conv]) + 1])
  /\ u' = u \div Base[conv]
  /\ etape' = IF u' = 0 THEN "emission" ELSE etape
  /\ UNCHANGED <<mot, conv, options, longueur, precision, emis>>

\* One digit of print_num, the least significant one first; 0 has one digit.
Chiffre ==
  /\ etape = "chiffres"
  /\ chiffres' = <<Chiffres[(u % Base[conv]) + 1]>> \o chiffres
  /\ u' = u \div Base[conv]
  /\ etape' = IF u' = 0 THEN "emission" ELSE etape
  /\ UNCHANGED <<mot, conv, options, longueur, precision, emis>>

\* sign_char and prefix, as the characters they print.
Signe ==
  IF ~Signee(conv) THEN <<>>
  ELSE IF EnSigne(mot) < 0 THEN <<"-">>
  ELSE IF options.plus_sign = "" THEN <<>> ELSE <<options.plus_sign>>

Prefixe ==
  CASE mot # 0 /\ options.altfmt /\ Base[conv] = 8 -> <<"0">>
    [] mot # 0 /\ options.altfmt /\ Base[conv] = 16 -> <<"0", "x">>
    [] OTHER -> <<>>

Positif(k) == IF k > 0 THEN k ELSE 0
Fois(k, c) == [i \in 1 .. Positif(k) |-> c]

Zeros == precision - Len(chiffres)

\* The characters, given the width that is left to fill: it is used up once,
\* by blanks in front, by zeros behind the prefix, or by blanks at the end.
Ecrit(vide) ==
  /\ etape = "emission"
  /\ etape' = "fini"
  /\ emis' = Fois(IF options.zero \/ options.ladjust THEN 0 ELSE vide, Espace)
               \o Signe \o Prefixe
               \o Fois(Zeros, "0")
               \o Fois(IF options.zero THEN vide ELSE 0, "0")
               \o chiffres
               \o Fois(IF options.ladjust /\ ~options.zero THEN vide ELSE 0,
                       Espace)
  /\ UNCHANGED <<mot, conv, options, longueur, precision, u, chiffres>>

\* Mutant: the sign is not deducted from the width.
EmissionSansDeduire ==
  Ecrit(longueur - Len(chiffres) - Len(Prefixe) - Positif(Zeros))

\* The rest of print_num.
Emission ==
  Ecrit(longueur - Len(chiffres) - Len(Signe) - Len(Prefixe)
          - Positif(Zeros))

NextN == Argument \/ Chiffre \/ Emission

SpecN == InitN /\ [][NextN]_varsN

-----------------------------------------------------------------------------
(* strtoul: blanks, an optional 0x, then the digits of the base.           *)

ChiffresDe(b) == {Chiffres[i] : i \in 1 .. b}
Valeur(c) == (CHOOSE i \in DOMAIN Chiffres : Chiffres[i] = c) - 1

\* How many characters of s a loop that stops behind the set C walks over.
Marche(s, C) ==
  CHOOSE k \in 0 .. Len(s) :
    /\ \A i \in 1 .. k : s[i] \in C
    /\ k = Len(s) \/ s[k + 1] \notin C

\* v after the first lus digits of s.
Lecture(s, b, lus) ==
  LET v[i \in 0 .. lus] ==
        IF i = 0 THEN 0 ELSE (v[i - 1] * b + Valeur(s[i])) % NbLongs
  IN  v[lus]

Apres(s, k) == SubSeq(s, k + 1, Len(s))

Strtoul(p, base) ==
  LET t == Apres(p, Marche(p, {Espace}))
      hexa == /\ base \in {0, 16}
              /\ Len(t) >= 2 /\ t[1] = "0" /\ t[2] = "x"
      r == IF hexa THEN Apres(t, 2) ELSE t
      b == IF hexa THEN 16
           ELSE IF base # 0 THEN base
           ELSE IF t # <<>> /\ t[1] = "0" THEN 8 ELSE 10
  IN  Lecture(r, b, Marche(r, ChiffresDe(b)))

-----------------------------------------------------------------------------

\* What is printed is as wide as the format asks, and no wider than the number
\* with its sign, its prefix and its precision requires.
LargeurRespectee ==
  etape = "fini" =>
    LET nombre == IF precision > Len(chiffres) THEN precision
                  ELSE Len(chiffres)
        naturelle == nombre + Len(Signe) + Len(Prefixe)
    IN  Len(emis) = IF longueur > naturelle THEN longueur ELSE naturelle

\* strtoul reads back what _doprnt printed without a sign, whatever the width,
\* the precision and the flags; also when it has to guess the base, provided
\* that the format asked for the prefix and nothing put zeros in front of a
\* decimal number.
RelectureExacte ==
  etape = "fini" /\ Signe = <<>> =>
    /\ Strtoul(emis, Base[conv]) = mot
    /\ options.altfmt /\ ~(Base[conv] = 10 /\ (options.zero \/ precision > 1))
         => (mot = 0 \/ Strtoul(emis, 0) = mot)
=============================================================================
